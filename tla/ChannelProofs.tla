---------------------------- MODULE ChannelProofs ----------------------------
(***************************************************************************)
(* Invariance proofs for Channel, for any number of senders, any capacity, *)
(* and any width of the pending counter that can count the messages that   *)
(* may be outstanding.                                                     *)
(***************************************************************************)
EXTENDS Channel, FiniteSetTheorems, TLAPS

\* The sender handles at step l.
At(l) == {t \in Senders : pc[t] = l}

\* The senders counter counts the handles not yet dropped.
SenderInv ==
  /\ senders = Cardinality(holders \cup At("drop_ctl"))
  /\ holders \cap At("drop_ctl") = {}

\* What the pending counter stands for: the messages in the channel and the
\* disconnect, less those not yet counted by inc, plus one not yet uncounted by
\* dec.  It is negative when try_recv overtakes inc.
Uncounted == Cardinality(At("inc"))
Balance ==
  len + (IF senders = 0 THEN 1 ELSE 0) + (IF rpc \in {"load", "none", "sub"} THEN 1 ELSE 0) - Uncounted

CountInv == rxAlive => pending = IF Balance >= 0 THEN Balance ELSE Balance + W

\* Between its load and its fetch_sub dec has seen a count that senders can only
\* increase.
RecvInv ==
  /\ rpc # "idle" => rxAlive
  /\ rpc \in {"none", "reset"} => cell
  /\ rpc = "none" => one
  /\ one => rpc \in {"none", "sub"} /\ Balance >= 1
  /\ ~cell /\ rpc # "fill" => ~readable /\ ~note
  /\ ~cell /\ readable => note

\* There is something to signal to a registered receiver.
Due == rxAlive /\ (cell \/ rpc = "fill") /\ ~raced /\ Balance >= 1

\* ... and then it is readable, a sender is about to make it so, or dec is.
SignalInv == Due => readable \/ AboutToSet \/ (rpc = "sub" /\ one) \/ rpc = "reset"

NoteInv ==
  Due /\ interest /\ ~seenEnd =>
    told \/ (note /\ readable) \/ AboutToSet \/ (rpc \in {"none", "sub"} /\ one) \/ rpc = "reset"

CInv == TypeOK /\ SenderInv /\ CountInv /\ RecvInv /\ SignalInv /\ NoteInv

-----------------------------------------------------------------------------
(* Counting senders.                                                       *)

\* Most of the steps below are first-order: Zenon is asked before the SMT solver.
USE ZenonT(8), SMTT(20)

LEMMA SubsetCount ==
  ASSUME NEW S \in SUBSET Senders
  PROVE  /\ IsFiniteSet(S)
         /\ Cardinality(S) \in Nat
         /\ Cardinality(S) <= Cardinality(Senders)
         /\ Cardinality(Senders) \in Nat
BY SendersAssumption, FS_Subset, FS_CardinalityType

LEMMA CountAdd ==
  ASSUME NEW S \in SUBSET Senders, NEW t \in Senders, t \notin S
  PROVE  Cardinality(S \cup {t}) = Cardinality(S) + 1
BY SubsetCount, FS_AddElement

LEMMA CountRemove ==
  ASSUME NEW S \in SUBSET Senders, NEW t \in S
  PROVE  Cardinality(S) >= 1 /\ Cardinality(S \ {t}) = Cardinality(S) - 1
<1>1. IsFiniteSet(S) /\ Cardinality(S) \in Nat
  BY SubsetCount
<1>2. Cardinality(S) # 0
  BY <1>1, FS_EmptySet
<1>3. Cardinality(S \ {t}) = Cardinality(S) - 1
  BY <1>1, FS_RemoveElement
<1>. QED
  BY <1>1, <1>2, <1>3

\* A sender arrives at, leaves, or stays clear of step l.
LEMMA MoveTo ==
  ASSUME TypeOK, NEW t \in Senders, NEW l, pc[t] # l, Goto(t, l)
  PROVE  Cardinality(At(l)') = Cardinality(At(l)) + 1
<1>1. At(l)' = At(l) \cup {t}
  BY DEF At, Goto, TypeOK
<1>2. At(l) \in SUBSET Senders /\ t \notin At(l)
  BY DEF At
<1>. QED
  BY <1>1, <1>2, CountAdd

LEMMA MoveFrom ==
  ASSUME TypeOK, NEW t \in Senders, NEW l, NEW m, pc[t] = l, m # l, Goto(t, m)
  PROVE  Cardinality(At(l)) >= 1 /\ Cardinality(At(l)') = Cardinality(At(l)) - 1
<1>1. At(l)' = At(l) \ {t}
  BY DEF At, Goto, TypeOK
<1>2. At(l) \in SUBSET Senders /\ t \in At(l)
  BY DEF At
<1>. QED
  BY <1>1, <1>2, CountRemove

LEMMA MoveClear ==
  ASSUME TypeOK, NEW t \in Senders, NEW l, NEW m, pc[t] # l, m # l, Goto(t, m)
  PROVE  At(l)' = At(l)
BY DEF At, Goto, TypeOK

LEMMA UncountedType == TypeOK => Uncounted \in Nat /\ Uncounted <= Cardinality(Senders)
BY SubsetCount DEF Uncounted, At

LEMMA SetIsKept ==
  ASSUME TypeOK, NEW t \in Senders, NEW l, pc[t] # "set", Goto(t, l), AboutToSet
  PROVE  AboutToSet'
BY DEF AboutToSet, Goto, TypeOK

LEMMA WrapAdd == ASSUME NEW p \in 0..(W-1) PROVE (p + 1) % W = IF p = W - 1 THEN 0 ELSE p + 1
BY WidthAssumption, SubsetCount

LEMMA WrapSub == ASSUME NEW p \in 0..(W-1) PROVE (p + W - 1) % W = IF p = 0 THEN W - 1 ELSE p - 1
<1>1. CASE p = 0
  BY <1>1, WidthAssumption, SubsetCount
<1>2. CASE p # 0
  BY <1>2, WidthAssumption, SubsetCount
<1>. QED
  BY <1>1, <1>2

-----------------------------------------------------------------------------
(* The senders counter.                                                    *)

\* The counter is at least one while a handle exists or is being dropped.
LEMMA SendersPositive ==
  ASSUME TypeOK, SenderInv, NEW t \in Senders, t \in holders \/ pc[t] = "drop_ctl"
  PROVE  senders >= 1
<1>1. holders \cup At("drop_ctl") \in SUBSET Senders /\ t \in holders \cup At("drop_ctl")
  BY DEF TypeOK, At
<1>. QED
  BY <1>1, CountRemove DEF SenderInv

LEMMA SenderInvStep == TypeOK /\ SenderInv /\ [Next]_vars => SenderInv' /\ senders' \in Nat
<1>. SUFFICES ASSUME TypeOK, SenderInv, [Next]_vars PROVE SenderInv' /\ senders' \in Nat
  OBVIOUS
<1>. DEFINE Live == holders \cup At("drop_ctl")
<1>0. Live \in SUBSET Senders
  BY DEF TypeOK, At
<1>1. ASSUME UNCHANGED <<senders, holders>>, At("drop_ctl")' = At("drop_ctl")
      PROVE  SenderInv' /\ senders' \in Nat
  BY <1>1 DEF SenderInv, TypeOK
<1>2. ASSUME NEW t \in Senders, NEW m, pc[t] # "drop_ctl", m # "drop_ctl", Goto(t, m), UNCHANGED <<senders, holders>>
      PROVE  SenderInv' /\ senders' \in Nat
  BY <1>1, <1>2, MoveClear
<1>3. ASSUME NEW t \in Senders, NEW u \in Senders, SenderClone(t, u) PROVE SenderInv' /\ senders' \in Nat
  <2>1. u \notin Live /\ At("drop_ctl")' = At("drop_ctl") /\ holders' = holders \cup {u} /\ senders' = senders + 1
    BY <1>3 DEF SenderClone, At
  <2>2. Cardinality(Live \cup {u}) = Cardinality(Live) + 1
    BY <1>0, <2>1, CountAdd
  <2>3. (holders \cup At("drop_ctl"))' = Live \cup {u} /\ (holders \cap At("drop_ctl"))' = {}
    BY <2>1 DEF SenderInv
  <2>4. senders' = Cardinality(Live \cup {u})
    BY <2>1, <2>2 DEF SenderInv
  <2>. QED
    BY <2>1, <2>3, <2>4 DEF SenderInv, TypeOK
<1>4. ASSUME NEW t \in Senders, SenderDrop(t) PROVE SenderInv' /\ senders' \in Nat
  <2>1. At("drop_ctl")' = At("drop_ctl") \cup {t} /\ holders' = holders \ {t} /\ t \in holders /\ senders' = senders
    BY <1>4 DEF SenderDrop, At, Goto, TypeOK
  <2>2. (holders \cup At("drop_ctl"))' = Live /\ (holders \cap At("drop_ctl"))' = {}
    BY <2>1 DEF SenderInv
  <2>. QED
    BY <2>1, <2>2 DEF SenderInv, TypeOK
<1>5. ASSUME NEW t \in Senders, SenderCtlDrop(t) PROVE SenderInv' /\ senders' \in Nat
  <2>1. At("drop_ctl")' = At("drop_ctl") \ {t} /\ holders' = holders /\ t \in At("drop_ctl") /\ senders' = senders - 1
    BY <1>5 DEF SenderCtlDrop, At, Goto, TypeOK
  <2>2. (holders \cup At("drop_ctl"))' = Live \ {t} /\ (holders \cap At("drop_ctl"))' = {}
    BY <2>1 DEF SenderInv
  <2>3. Cardinality(Live) >= 1 /\ Cardinality(Live \ {t}) = Cardinality(Live) - 1
    BY <1>0, <2>1, CountRemove
  <2>. QED
    BY <2>1, <2>2, <2>3 DEF SenderInv, TypeOK
<1>6. ASSUME NEW t \in Senders, Send(t) \/ SendUnblock(t) \/ SendDisconnected(t) \/ IncFetchAdd(t) \/ IncSetReadiness(t)
      PROVE  SenderInv' /\ senders' \in Nat
  BY <1>2, <1>6 DEF Send, SendUnblock, SendDisconnected, IncFetchAdd, IncSetReadiness, countVars
<1>7. CASE TryRecv
  <2>1. CASE UNCHANGED pc
    BY <1>1, <1>7, <2>1 DEF TryRecv, At
  <2>2. CASE \E t \in Senders : pc[t] = "blocked" /\ Goto(t, "inc")
    BY <1>2, <1>7, <2>2 DEF TryRecv
  <2>. QED
    BY <1>7, <2>1, <2>2 DEF TryRecv
<1>8. ASSUME UNCHANGED <<senders, holders, pc>> PROVE SenderInv' /\ senders' \in Nat
  BY <1>1, <1>8 DEF At
<1>9. ReceiverStep \/ Register \/ PollEvent \/ TryRecvEmpty \/ ReceiverDrop => UNCHANGED <<senders, holders, pc>>
  BY DEF ReceiverStep, RegisterFill, DecLoad, DecUnset, DecFetchSub, DecReset, Register, PollEvent, TryRecvEmpty,
         ReceiverDrop, countVars
<1>10. ASSUME NEW i \in Updates, Reregister(i) PROVE UNCHANGED <<senders, holders, pc>>
  BY <1>10 DEF Reregister, countVars
<1>11. UNCHANGED vars => UNCHANGED <<senders, holders, pc>>
  BY DEF vars, countVars
<1>. QED
  BY <1>3, <1>4, <1>5, <1>6, <1>7, <1>8, <1>9, <1>10, <1>11 DEF Next, SenderCall, SenderStep

-----------------------------------------------------------------------------
(* Type correctness.                                                       *)

LEMMA TypeStep == TypeOK /\ SenderInv /\ [Next]_vars => TypeOK'
<1>. SUFFICES ASSUME TypeOK, SenderInv, [Next]_vars PROVE TypeOK'
  OBVIOUS
<1>. USE DEF TypeOK, countVars, regVars, readyVars, userVars, Goto, SetReadable, Idle
<1>0. senders' \in Nat
  BY SenderInvStep
<1>1. (pending + 1) % W \in 0..(W-1) /\ (pending + W - 1) % W \in 0..(W-1)
  BY WrapAdd, WrapSub, WidthAssumption, SubsetCount
<1>2. ASSUME NEW t \in Senders, SenderCall(t) PROVE TypeOK'
  BY <1>0, <1>2, WidthAssumption DEF SenderCall, Send, SenderDrop, SenderClone
<1>3. ASSUME NEW t \in Senders, SenderStep(t) PROVE TypeOK'
  <2>1. ASSUME SendUnblock(t) \/ SendDisconnected(t) PROVE TypeOK'
    BY <1>0, <2>1, WidthAssumption DEF SendUnblock, SendDisconnected
  <2>2. ASSUME IncFetchAdd(t) PROVE TypeOK'
    BY <1>0, <1>1, <2>2 DEF IncFetchAdd
  <2>3. ASSUME IncSetReadiness(t) PROVE TypeOK'
    <3>1. raced' \in BOOLEAN
      BY <2>3, Zenon DEF IncSetReadiness
    <3>2. readable' \in BOOLEAN /\ note' \in BOOLEAN
      BY <2>3 DEF IncSetReadiness
    <3>3. UNCHANGED <<countVars, regVars, rxAlive, told, seenEnd, rpc, one>> /\ Goto(t, "idle")
      BY <2>3 DEF IncSetReadiness
    <3>. QED
      BY <3>1, <3>2, <3>3
  <2>4. ASSUME SenderCtlDrop(t) PROVE TypeOK'
    BY <1>0, <2>4 DEF SenderCtlDrop
  <2>. QED
    BY <1>3, <2>1, <2>2, <2>3, <2>4 DEF SenderStep
<1>4. CASE ReceiverStep
  <2>1. CASE DecLoad
    <3>1. one' \in BOOLEAN
      BY <2>1, Zenon DEF DecLoad
    <3>. QED
      BY <1>0, <2>1, <3>1 DEF DecLoad
  <2>2. CASE DecFetchSub
    <3>1. rpc' \in {"idle", "reset"} /\ one' = FALSE
      BY <2>2 DEF DecFetchSub
    <3>2. pending' \in 0..(W-1)
      BY <1>1, <2>2 DEF DecFetchSub
    <3>3. UNCHANGED <<len, senders, holders, regVars, readyVars, userVars, pc>>
      BY <2>2 DEF DecFetchSub
    <3>. QED
      BY <1>0, <3>1, <3>2, <3>3
  <2>3. CASE RegisterFill
    BY <1>0, <2>3 DEF RegisterFill
  <2>4. CASE DecUnset
    BY <1>0, <2>4 DEF DecUnset
  <2>5. CASE DecReset
    BY <1>0, <2>5 DEF DecReset
  <2>. QED
    BY <1>4, <2>1, <2>2, <2>3, <2>4, <2>5 DEF ReceiverStep
<1>5. CASE Register
  BY <1>0, <1>5, ModesAssumption DEF Register
<1>6. ASSUME NEW i \in Updates, Reregister(i) PROVE TypeOK'
  BY <1>0, <1>6, ModesAssumption DEF Reregister
<1>7. CASE PollEvent
  BY <1>0, <1>7 DEF PollEvent
<1>8. CASE TryRecv
  BY <1>0, <1>8, WidthAssumption DEF TryRecv
<1>9. CASE TryRecvEmpty
  <2>1. seenEnd' \in BOOLEAN
    BY <1>9, Zenon DEF TryRecvEmpty
  <2>. QED
    BY <1>0, <1>9, <2>1 DEF TryRecvEmpty
<1>10. CASE ReceiverDrop
  <2>1. len' \in 0..Bound
    BY <1>10, WidthAssumption DEF ReceiverDrop
  <2>. QED
    BY <1>0, <1>10, <2>1 DEF ReceiverDrop
<1>11. CASE UNCHANGED vars
  BY <1>11 DEF vars
<1>. QED
  BY <1>2, <1>3, <1>4, <1>5, <1>6, <1>7, <1>8, <1>9, <1>10, <1>11 DEF Next

-----------------------------------------------------------------------------
(* The count and the readiness it stands for.                              *)

MainInv == CountInv /\ RecvInv /\ SignalInv /\ NoteInv

\* Sender steps that leave the balance, the receiver and its readiness alone.
Still ==
  /\ Balance' = Balance
  /\ UNCHANGED <<pending, cell, interest, readable, note, rxAlive, told, seenEnd, raced, rpc, one>>
  /\ AboutToSet => AboutToSet'

LEMMA StillStep == ASSUME MainInv, Still PROVE MainInv'
BY DEF MainInv, CountInv, RecvInv, SignalInv, NoteInv, Due, Still

\* The balance is far from the modulus on both sides.
LEMMA BalanceRange ==
  TypeOK => Balance \in Int /\ Uncounted \in Nat /\ Balance < W - Uncounted /\ Balance + W > 2 /\ W > 2 /\ W \in Nat
BY UncountedType, SubsetCount, WidthAssumption DEF Balance, TypeOK

LEMMA MainStep == TypeOK /\ SenderInv /\ MainInv /\ [Next]_vars => MainInv'
<1>. SUFFICES ASSUME TypeOK, SenderInv, MainInv, [Next]_vars PROVE MainInv'
  OBVIOUS
<1>0. Uncounted \in Nat /\ len \in Nat /\ senders \in Nat
  BY UncountedType, WidthAssumption DEF TypeOK
<1>. USE DEF countVars, regVars, readyVars, userVars
<1>1. ASSUME NEW t \in Senders, Send(t) PROVE MainInv'
  <2>1. AboutToSet => AboutToSet'
    BY <1>1, SetIsKept DEF Send
  <2>2. CASE len < Bound
    <3>1. Uncounted' = Uncounted + 1
      BY <1>1, <2>2, MoveTo DEF Send, Uncounted
    <3>2. Balance' = Balance
      BY <1>0, <1>1, <2>2, <3>1 DEF Send, Balance
    <3>. QED
      BY <1>1, <2>1, <3>2, StillStep DEF Send, Still
  <2>3. CASE ~(len < Bound)
    <3>1. Uncounted' = Uncounted
      BY <1>1, <2>3, MoveClear DEF Send, Uncounted
    <3>2. Balance' = Balance
      BY <1>0, <1>1, <2>3, <3>1 DEF Send, Balance
    <3>. QED
      BY <1>1, <2>1, <3>2, StillStep DEF Send, Still
  <2>. QED
    BY <2>2, <2>3
<1>2. ASSUME NEW t \in Senders, SendUnblock(t) PROVE MainInv'
  <2>1. AboutToSet => AboutToSet'
    BY <1>2, SetIsKept DEF SendUnblock
  <2>2. Uncounted' = Uncounted + 1
    BY <1>2, MoveTo DEF SendUnblock, Uncounted
  <2>3. Balance' = Balance
    BY <1>0, <1>2, <2>2 DEF SendUnblock, Balance
  <2>. QED
    BY <1>2, <2>1, <2>3, StillStep DEF SendUnblock, Still
<1>3. ASSUME NEW t \in Senders, SendDisconnected(t) PROVE MainInv'
  <2>1. AboutToSet => AboutToSet'
    BY <1>3, SetIsKept DEF SendDisconnected
  <2>2. Uncounted' = Uncounted
    BY <1>3, MoveClear DEF SendDisconnected, Uncounted
  <2>3. Balance' = Balance
    BY <1>0, <1>3, <2>2 DEF SendDisconnected, Balance
  <2>. QED
    BY <1>3, <2>1, <2>3, StillStep DEF SendDisconnected, Still
<1>4. ASSUME NEW t \in Senders, NEW u \in Senders, SenderClone(t, u) PROVE MainInv'
  <2>1. (AboutToSet => AboutToSet') /\ Uncounted' = Uncounted
    BY <1>4 DEF SenderClone, AboutToSet, Uncounted, At
  <2>2. senders >= 1
    BY <1>4, SendersPositive DEF SenderClone
  <2>3. Balance' = Balance
    BY <1>0, <1>4, <2>1, <2>2 DEF SenderClone, Balance
  <2>. QED
    BY <1>4, <2>1, <2>3, StillStep DEF SenderClone, Still
<1>5. ASSUME NEW t \in Senders, SenderDrop(t) PROVE MainInv'
  <2>1. AboutToSet => AboutToSet'
    BY <1>5, SetIsKept DEF SenderDrop
  <2>2. Uncounted' = Uncounted
    BY <1>5, MoveClear DEF SenderDrop, Uncounted
  <2>3. Balance' = Balance
    BY <1>0, <1>5, <2>2 DEF SenderDrop, Balance
  <2>. QED
    BY <1>5, <2>1, <2>3, StillStep DEF SenderDrop, Still
<1>6. ASSUME NEW t \in Senders, SenderCtlDrop(t) PROVE MainInv'
  <2>1. AboutToSet => AboutToSet'
    BY <1>6, SetIsKept DEF SenderCtlDrop
  <2>2. senders >= 1
    BY <1>6, SendersPositive DEF SenderCtlDrop
  \* The last sender: the disconnect is in the balance and not yet counted.
  <2>3. CASE senders = 1
    <3>1. Uncounted' = Uncounted + 1
      BY <1>6, <2>3, MoveTo DEF SenderCtlDrop, Uncounted
    <3>2. Balance' = Balance
      BY <1>0, <1>6, <2>3, <3>1 DEF SenderCtlDrop, Balance
    <3>. QED
      BY <1>6, <2>1, <3>2, StillStep DEF SenderCtlDrop, Still
  <2>4. CASE senders # 1
    <3>1. Uncounted' = Uncounted
      BY <1>6, <2>4, MoveClear DEF SenderCtlDrop, Uncounted
    <3>2. Balance' = Balance
      BY <1>0, <1>6, <2>2, <2>4, <3>1 DEF SenderCtlDrop, Balance
    <3>. QED
      BY <1>6, <2>1, <3>2, StillStep DEF SenderCtlDrop, Still
  <2>. QED
    BY <2>3, <2>4
\* inc moves the balance up with the counter; the one that finds zero is about
\* to toggle readiness.
<1>7. ASSUME NEW t \in Senders, IncFetchAdd(t) PROVE MainInv'
  <2>1. Uncounted >= 1 /\ Uncounted' = Uncounted - 1
    <3>1. CASE pending = 0
      BY <1>7, <3>1, MoveFrom DEF IncFetchAdd, Uncounted
    <3>2. CASE pending # 0
      BY <1>7, <3>2, MoveFrom DEF IncFetchAdd, Uncounted
    <3>. QED
      BY <3>1, <3>2
  <2>2. Balance' = Balance + 1
    BY <1>0, <1>7, <2>1 DEF IncFetchAdd, Balance
  <2>3. pending' = IF pending = W - 1 THEN 0 ELSE pending + 1
    BY <1>7, WrapAdd DEF IncFetchAdd, TypeOK
  <2>4. Balance \in Int /\ Balance < W - 1 /\ Balance + W > 2 /\ W \in Nat
    BY <2>1, BalanceRange
  <2>5. AboutToSet => AboutToSet'
    BY <1>7, SetIsKept DEF IncFetchAdd
  <2>6. pending = 0 => AboutToSet'
    BY <1>7 DEF IncFetchAdd, AboutToSet, Goto, TypeOK
  <2>7. UNCHANGED <<cell, interest, readable, note, rxAlive, told, seenEnd, raced, rpc, one>>
    BY <1>7 DEF IncFetchAdd
  <2>8. CountInv'
    BY <2>2, <2>3, <2>4, <2>7, BalanceRange DEF MainInv, CountInv
  <2>9. RecvInv'
    BY <2>2, <2>4, <2>7 DEF MainInv, RecvInv
  <2>10. Due' => Due \/ pending = 0
    BY <2>2, <2>4, <2>7 DEF MainInv, CountInv, Due
  <2>11. SignalInv' /\ NoteInv'
    BY <2>5, <2>6, <2>7, <2>10 DEF MainInv, SignalInv, NoteInv
  <2>. QED
    BY <2>8, <2>9, <2>11 DEF MainInv
<1>8. ASSUME NEW t \in Senders, IncSetReadiness(t) PROVE MainInv'
  <2>1. Uncounted' = Uncounted
    BY <1>8, MoveClear DEF IncSetReadiness, Uncounted
  <2>2. Balance' = Balance
    BY <1>0, <1>8, <2>1 DEF IncSetReadiness, Balance
  <2>3. UNCHANGED <<pending, cell, interest, rxAlive, told, seenEnd, rpc, one>>
    BY <1>8 DEF IncSetReadiness
  <2>4. CountInv' /\ RecvInv'
    BY <1>8, <2>2, <2>3 DEF MainInv, CountInv, RecvInv, IncSetReadiness
  <2>5. CASE cell
    <3>1. readable' /\ note'
      BY <1>8, <2>5 DEF IncSetReadiness, SetReadable
    <3>. QED
      BY <2>4, <3>1 DEF MainInv, SignalInv, NoteInv
  <2>6. CASE ~cell
    <3>1. UNCHANGED <<readable, note>> /\ (rpc = "fill" /\ ~readable => raced') /\ (raced => raced')
      BY <1>8, <2>6 DEF IncSetReadiness, TypeOK
    <3>2. Due' => Due /\ readable
      BY <2>2, <2>3, <2>6, <3>1 DEF Due
    <3>3. SignalInv'
      BY <3>1, <3>2 DEF SignalInv
    <3>4. readable => note
      BY <2>6 DEF MainInv, RecvInv
    <3>. QED
      BY <2>4, <3>1, <3>2, <3>3, <3>4 DEF MainInv, NoteInv
  <2>. QED
    BY <2>5, <2>6
<1>9. CASE Register
  <2>1. Uncounted' = Uncounted /\ (AboutToSet => AboutToSet')
    BY <1>9 DEF Register, Uncounted, At, AboutToSet
  <2>2. Balance' = Balance /\ UNCHANGED <<pending, cell, rxAlive, told, seenEnd, raced, one>> /\ ~cell /\ rxAlive
    BY <1>0, <1>9, <2>1 DEF Register, Balance, Idle
  <2>3. pending > 0 => readable' /\ note'
    BY <1>9 DEF Register, SetReadable
  <2>4. readable' => note'
    BY <1>9 DEF Register, SetReadable, MainInv, RecvInv, Idle
  <2>5. rpc = "idle" /\ rpc' = "fill"
    BY <1>9 DEF Register, Idle
  <2>6. CountInv' /\ RecvInv'
    BY <2>2, <2>4, <2>5 DEF MainInv, CountInv, RecvInv
  <2>7. Due' => pending > 0
    BY <2>2, BalanceRange DEF Due, MainInv, CountInv
  <2>. QED
    BY <2>3, <2>6, <2>7 DEF MainInv, SignalInv, NoteInv
<1>10. CASE RegisterFill
  <2>1. Uncounted' = Uncounted /\ (AboutToSet => AboutToSet')
    BY <1>10 DEF RegisterFill, Uncounted, At, AboutToSet
  <2>2. /\ Balance' = Balance /\ rpc = "fill" /\ rpc' = "idle" /\ cell'
        /\ UNCHANGED <<pending, interest, readable, note, rxAlive, told, seenEnd, raced, one>>
    BY <1>0, <1>10, <2>1 DEF RegisterFill, Balance
  <2>3. CountInv' /\ RecvInv' /\ (Due' => Due)
    BY <2>2 DEF MainInv, CountInv, RecvInv, Due
  <2>4. SignalInv'
    BY <2>1, <2>2, <2>3 DEF MainInv, SignalInv
  <2>5. NoteInv'
    BY <2>1, <2>2, <2>3 DEF MainInv, NoteInv
  <2>. QED
    BY <2>3, <2>4, <2>5 DEF MainInv
<1>11. ASSUME NEW i \in Updates, Reregister(i) PROVE MainInv'
  <2>1. Uncounted' = Uncounted /\ (AboutToSet => AboutToSet')
    BY <1>11 DEF Reregister, Uncounted, At, AboutToSet
  <2>2. /\ Balance' = Balance /\ rpc = "idle" /\ cell /\ (readable => note')
        /\ UNCHANGED <<pending, cell, readable, rxAlive, told, seenEnd, raced, rpc, one>>
    BY <1>0, <1>11, <2>1 DEF Reregister, Balance, Idle
  <2>3. CountInv' /\ RecvInv' /\ (Due' => Due)
    BY <2>2 DEF MainInv, CountInv, RecvInv, Due
  <2>4. SignalInv'
    BY <2>1, <2>2, <2>3 DEF MainInv, SignalInv
  <2>5. NoteInv'
    BY <2>1, <2>2, <2>3 DEF MainInv, SignalInv, NoteInv
  <2>. QED
    BY <2>3, <2>4, <2>5 DEF MainInv
\* A poll that finds the registration not readable meets a sender about to set it.
<1>12. CASE PollEvent
  <2>1. Uncounted' = Uncounted /\ (AboutToSet => AboutToSet')
    BY <1>12 DEF PollEvent, Uncounted, At, AboutToSet
  <2>2. /\ Balance' = Balance /\ rpc = "idle" /\ note /\ (interest' => interest) /\ (told => told')
        /\ (interest /\ readable => told')
        /\ UNCHANGED <<pending, cell, readable, rxAlive, seenEnd, raced, rpc, one>>
    BY <1>0, <1>12, <2>1 DEF PollEvent, Balance, Idle
  <2>3. cell
    BY <2>2 DEF MainInv, RecvInv
  <2>4. CountInv' /\ RecvInv' /\ (Due' => Due)
    BY <2>2, <2>3 DEF MainInv, CountInv, RecvInv, Due
  <2>5. SignalInv'
    BY <2>1, <2>2, <2>4 DEF MainInv, SignalInv
  <2>6. NoteInv'
    BY <2>1, <2>2, <2>4 DEF MainInv, SignalInv, NoteInv
  <2>. QED
    BY <2>4, <2>5, <2>6 DEF MainInv
<1>13. CASE TryRecv
  <2>1. AboutToSet => AboutToSet'
    <3>1. CASE UNCHANGED pc
      BY <3>1 DEF AboutToSet
    <3>2. CASE \E t \in Senders : pc[t] = "blocked" /\ Goto(t, "inc")
      BY <3>2, SetIsKept
    <3>. QED
      BY <1>13, <3>1, <3>2 DEF TryRecv
  <2>2. /\ rpc = "idle" /\ rpc' = "load" /\ rxAlive
        /\ UNCHANGED <<pending, senders, cell, interest, readable, note, rxAlive, told, seenEnd, raced, one>>
    BY <1>13 DEF TryRecv, Idle
  <2>3. Balance' = Balance
    <3>1. CASE len' = len - 1 /\ UNCHANGED pc
      <4>1. Uncounted' = Uncounted
        BY <3>1 DEF Uncounted, At
      <4>. QED
        BY <1>0, <2>2, <3>1, <4>1 DEF Balance
    <3>2. CASE UNCHANGED len /\ \E t \in Senders : pc[t] = "blocked" /\ Goto(t, "inc")
      <4>1. Uncounted' = Uncounted + 1
        BY <3>2, MoveTo DEF Uncounted
      <4>. QED
        BY <1>0, <2>2, <3>2, <4>1 DEF Balance
    <3>. QED
      BY <1>13, <3>1, <3>2 DEF TryRecv
  <2>4. CountInv' /\ RecvInv' /\ (Due' => Due)
    BY <2>2, <2>3 DEF MainInv, CountInv, RecvInv, Due
  <2>5. SignalInv'
    BY <2>1, <2>2, <2>4 DEF MainInv, SignalInv
  <2>6. NoteInv'
    BY <2>1, <2>2, <2>4 DEF MainInv, NoteInv
  <2>. QED
    BY <2>4, <2>5, <2>6 DEF MainInv
\* Only the disconnect can be due when the channel is empty, and the user has
\* just seen it.
<1>14. CASE TryRecvEmpty
  <2>1. Uncounted' = Uncounted /\ (AboutToSet => AboutToSet')
    BY <1>14 DEF TryRecvEmpty, Uncounted, At, AboutToSet
  <2>2. /\ Balance' = Balance /\ rpc = "idle" /\ len = 0
        /\ UNCHANGED <<pending, cell, interest, readable, note, rxAlive, raced, rpc, one>>
    BY <1>0, <1>14, <2>1 DEF TryRecvEmpty, Balance, Idle
  <2>3. Balance >= 1 => senders = 0
    BY <1>0, <2>2 DEF Balance
  <2>4. senders = 0 => seenEnd'
    <3>1. senders = 0 => holders = {}
      BY SendersPositive DEF TypeOK
    <3>. QED
      BY <1>14, <3>1 DEF TryRecvEmpty
  <2>5. CountInv' /\ RecvInv' /\ (Due' => Due) /\ NoteInv'
    BY <2>2, <2>3, <2>4 DEF MainInv, CountInv, RecvInv, NoteInv, Due
  <2>6. SignalInv'
    BY <2>1, <2>2, <2>5 DEF MainInv, SignalInv
  <2>. QED
    BY <2>5, <2>6 DEF MainInv
<1>15. CASE DecLoad
  <2>1. Uncounted' = Uncounted /\ (AboutToSet => AboutToSet')
    BY <1>15 DEF DecLoad, Uncounted, At, AboutToSet
  <2>2. /\ Balance' = Balance /\ rpc = "load"
        /\ UNCHANGED <<pending, cell, interest, readable, note, rxAlive, told, seenEnd, raced>>
    BY <1>0, <1>15, <2>1 DEF DecLoad, Balance
  <2>3. /\ rpc' = "none" => pending = 1 /\ cell /\ one'
        /\ rpc' \in {"none", "sub"}
        /\ one' => pending = 1
    BY <1>15 DEF DecLoad
  <2>4. rxAlive /\ (pending = 1 => Balance >= 1) /\ ~one
    BY <2>2, BalanceRange DEF MainInv, CountInv, RecvInv
  <2>5. CountInv' /\ RecvInv' /\ (Due' => Due)
    BY <2>2, <2>3, <2>4 DEF MainInv, CountInv, RecvInv, Due
  <2>6. SignalInv'
    BY <2>1, <2>2, <2>4, <2>5 DEF MainInv, SignalInv
  <2>7. NoteInv'
    BY <2>1, <2>2, <2>4, <2>5 DEF MainInv, NoteInv
  <2>. QED
    BY <2>5, <2>6, <2>7 DEF MainInv
<1>16. CASE DecUnset
  <2>1. Uncounted' = Uncounted /\ (AboutToSet => AboutToSet')
    BY <1>16 DEF DecUnset, Uncounted, At, AboutToSet
  <2>2. /\ Balance' = Balance /\ rpc = "none" /\ rpc' = "sub"
        /\ UNCHANGED <<pending, cell, interest, note, rxAlive, told, seenEnd, raced, one>>
    BY <1>0, <1>16, <2>1 DEF DecUnset, Balance
  <2>. QED
    BY <2>2 DEF MainInv, CountInv, RecvInv, SignalInv, NoteInv, Due
\* A count of one goes to zero; a larger one is signalled again.
<1>17. CASE DecFetchSub
  <2>1. Uncounted' = Uncounted /\ (AboutToSet => AboutToSet')
    BY <1>17 DEF DecFetchSub, Uncounted, At, AboutToSet
  <2>2. /\ rpc = "sub" /\ rpc' = (IF one /\ pending > 1 /\ cell THEN "reset" ELSE "idle") /\ ~one'
        /\ UNCHANGED <<len, senders, cell, interest, readable, note, rxAlive, told, seenEnd, raced>>
    BY <1>17 DEF DecFetchSub
  <2>3. Balance' = Balance - 1
    BY <1>0, <2>1, <2>2 DEF Balance
  <2>4. pending' = IF pending = 0 THEN W - 1 ELSE pending - 1
    BY <1>17, WrapSub DEF DecFetchSub, TypeOK
  <2>5. CountInv'
    BY <2>2, <2>3, <2>4, BalanceRange DEF MainInv, CountInv
  <2>6. RecvInv'
    BY <2>2 DEF MainInv, RecvInv
  <2>7. (Due' => Due) /\ (Due' /\ one => rpc' = "reset")
    BY <2>2, <2>3, BalanceRange DEF MainInv, CountInv, RecvInv, Due
  <2>8. SignalInv'
    BY <2>1, <2>2, <2>7 DEF MainInv, SignalInv
  <2>9. NoteInv'
    BY <2>1, <2>2, <2>7 DEF MainInv, NoteInv
  <2>. QED
    BY <2>5, <2>6, <2>8, <2>9 DEF MainInv
<1>18. CASE DecReset
  <2>1. Uncounted' = Uncounted
    BY <1>18 DEF DecReset, Uncounted, At
  <2>2. /\ Balance' = Balance /\ rpc = "reset" /\ rpc' = "idle" /\ readable' /\ note'
        /\ UNCHANGED <<pending, cell, interest, rxAlive, told, seenEnd, raced, one>>
    BY <1>0, <1>18, <2>1 DEF DecReset, SetReadable, Balance
  <2>. QED
    BY <2>2 DEF MainInv, CountInv, RecvInv, SignalInv, NoteInv, Due
<1>19. CASE ReceiverDrop
  <2>1. rpc = "idle" /\ ~rxAlive' /\ UNCHANGED <<rpc, one, cell, readable, note>>
    BY <1>19 DEF ReceiverDrop, Idle
  <2>. QED
    BY <2>1 DEF MainInv, CountInv, RecvInv, SignalInv, NoteInv, Due
<1>20. CASE UNCHANGED vars
  <2>1. Balance' = Balance /\ (AboutToSet => AboutToSet')
    BY <1>20 DEF vars, Balance, Uncounted, At, AboutToSet
  <2>. QED
    BY <1>20, <2>1, StillStep DEF vars, Still
<1>. QED
  BY <1>1, <1>2, <1>3, <1>4, <1>5, <1>6, <1>7, <1>8, <1>9, <1>10, <1>11, <1>12, <1>13, <1>14, <1>15,
     <1>16, <1>17, <1>18, <1>19, <1>20
  DEF Next, SenderCall, SenderStep, ReceiverStep

-----------------------------------------------------------------------------
(* The theorems.                                                           *)

LEMMA InitInv == Init => CInv
<1>. SUFFICES ASSUME Init PROVE CInv
  OBVIOUS
<1>1. At("drop_ctl") = {} /\ At("inc") = {} /\ ~AboutToSet
  BY DEF Init, At, AboutToSet
<1>2. Cardinality({FirstSender}) = 1 /\ Cardinality({}) = 0
  BY FS_Singleton, FS_EmptySet
<1>3. TypeOK
  <2>1. len \in 0..Bound /\ pending \in 0..(W-1)
    BY WidthAssumption, SubsetCount DEF Init
  <2>. QED
    BY <2>1, SendersAssumption, ModesAssumption DEF Init, TypeOK
<1>4. SenderInv
  BY <1>1, <1>2 DEF Init, SenderInv
<1>5. Balance = 0
  BY <1>1, <1>2 DEF Init, Balance, Uncounted
<1>. QED
  BY <1>3, <1>4, <1>5 DEF Init, CInv, CountInv, RecvInv, SignalInv, NoteInv, Due

\* Every step of the senders and the receiver preserves the inductive invariant.
THEOREM Inductive == Spec => []CInv
<1>1. CInv /\ [Next]_vars => CInv'
  BY TypeStep, SenderInvStep, MainStep DEF CInv, MainInv
<1>. QED
  BY InitInv, <1>1, PTL DEF Spec

\* The state of the channel is well-typed: in particular the senders counter of
\* SenderCtl never goes below zero.
THEOREM TypeCorrect == Spec => []TypeOK
<1>1. CInv => TypeOK
  BY DEF CInv
<1>. QED
  BY Inductive, <1>1, PTL

\* What is due when no call is in progress.
LEMMA QuietBalance ==
  ASSUME CInv, Quiet
  PROVE  Balance = len + (IF senders = 0 THEN 1 ELSE 0) /\ ~AboutToSet /\ len \in Nat /\ senders \in Nat
<1>1. At("inc") = {}
  BY DEF Quiet, At
<1>2. Uncounted = 0
  BY <1>1, FS_EmptySet DEF Uncounted
<1>3. len \in Nat /\ senders \in Nat
  BY WidthAssumption DEF CInv, TypeOK
<1>. QED
  BY <1>2, <1>3 DEF Quiet, Balance, AboutToSet

\* When no call is in progress the pending counter of Inner is the number of
\* messages, plus one for the disconnect, however inc and dec were interleaved
\* and although it may have wrapped.
THEOREM CountIsExact == Spec => []PendingIsExact
<1>1. CInv => PendingIsExact
  BY QuietBalance DEF CInv, CountInv, PendingIsExact
<1>. QED
  BY Inductive, <1>1, PTL

\* A registered receiver with something to read is readable when no call is in
\* progress, unless register lost the race that RegisterMissesNothing shows.
THEOREM PendingReadable == Spec => []PendingIsReadable
<1>1. ASSUME CInv, Quiet, rxAlive, cell, ~raced, len > 0 \/ senders = 0 PROVE readable
  <2>1. Balance >= 1 /\ ~AboutToSet
    BY <1>1, QuietBalance
  <2>. QED
    BY <1>1, <2>1 DEF CInv, SignalInv, Due, Quiet
<1>2. CInv => PendingIsReadable
  BY <1>1 DEF PendingIsReadable
<1>. QED
  BY Inductive, <1>2, PTL

\* A user that reads until try_recv fails is told of every message and of the
\* disconnect, for any number of senders and any PollOpt.
THEOREM NothingIsMissed == Spec => []MessageIsSignalled
<1>1. ASSUME CInv, Quiet, rxAlive, interest, cell, ~raced, ~seenEnd, len > 0 \/ senders = 0
      PROVE  told \/ (note /\ readable)
  <2>1. Balance >= 1 /\ ~AboutToSet
    BY <1>1, QuietBalance
  <2>. QED
    BY <1>1, <2>1 DEF CInv, NoteInv, Due, Quiet
<1>2. CInv => MessageIsSignalled
  BY <1>1 DEF MessageIsSignalled
<1>. QED
  BY Inductive, <1>2, PTL

=============================================================================
