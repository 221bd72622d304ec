--------------------------- MODULE EventLoopProofs ---------------------------
(***************************************************************************)
(* Proofs for EventLoop, for any number of senders, any capacity of the     *)
(* channel and any messages_per_tick: it never sleeps on a message.         *)
(***************************************************************************)
EXTENDS EventLoop, TLAPS

\* The steps have long definitions to expand: more time for both provers.
USE SMTT(12), ZenonT(20)

-----------------------------------------------------------------------------
(* Every step of the loop, its callbacks and the senders is a step of      *)
(* Channel or leaves the channel alone.                                    *)

LEMMA ChannelSteps == [Next]_vars => [Chan!Next]_(Chan!vars)
<1>. SUFFICES ASSUME [Next]_vars PROVE [Chan!Next]_(Chan!vars)
  OBVIOUS
<1>0. UNCHANGED chanVars => UNCHANGED Chan!vars
  BY DEF chanVars, Chan!vars, Chan!countVars, Chan!regVars, Chan!readyVars, Chan!userVars
<1>1. CASE Run \/ PollInterrupted \/ PollFails \/ Tick \/ EndOfTick \/ TimerDone \/ CallbackReturns \/ Shutdown
  BY <1>0, <1>1 DEF Run, PollInterrupted, PollFails, Tick, EndOfTick, TimerDone, CallbackReturns, Shutdown
<1>2. CASE \E e \in {"NOTIFY", "TIMER", "IO"} : Process(e)
  BY <1>0, <1>2 DEF Process
<1>3. CASE \E t \in Timeouts : TimerFires(t) \/ Timeout(t) \/ ClearTimeout(t) \/ Expire(t)
  BY <1>0, <1>3 DEF TimerFires, Timeout, ClearTimeout, Expire
<1>4. CASE PollReturns
  BY <1>0, <1>4 DEF PollReturns, Chan!Next
<1>5. CASE NotifyMessage \/ NotifyEmpty
  BY <1>5 DEF NotifyMessage, NotifyEmpty, Chan!Next
<1>6. CASE NotifyReregister
  BY <1>6, LoopAssumption DEF NotifyReregister, Chan!Next
<1>7. CASE DropLoop
  BY <1>7, SendersAssumption DEF DropLoop, Chan!Next, Chan!SenderCall
<1>8. CASE \E u \in Senders \ {FirstSender} : SenderCall(u) \/ \E t \in Senders : NewSender(t, u)
  BY <1>8 DEF SenderCall, NewSender, Chan!Next, Chan!SenderCall
<1>9. CASE \E u \in Senders : SenderStep(u)
  BY <1>9 DEF SenderStep, Chan!Next, Chan!SenderStep
<1>10. CASE ReceiverStep
  BY <1>10 DEF ReceiverStep, Chan!Next, Chan!ReceiverStep
<1>11. CASE UNCHANGED vars
  BY <1>0, <1>11 DEF vars
<1>. QED
  BY <1>1, <1>2, <1>3, <1>4, <1>5, <1>6, <1>7, <1>8, <1>9, <1>10, <1>11 DEF Next, LoopStep

-----------------------------------------------------------------------------
(* The loop never sleeps on a message.                                     *)

\* Channel's inductive invariant counts on a user that reads until try_recv fails.
\* The loop need not: it stops after messages_per_tick.  It is held to the same
\* invariant with its one-shot interest, spent by an event and renewed by notify,
\* in the place of what the user was told.
Proved == INSTANCE ChannelProofs WITH told <- ~interest

ChanInv == Proved!CInv

LoopInv ==
  /\ cell /\ ~raced /\ ~seenEnd /\ mode = "oneshot"
  /\ lpc # "stopped" => Alive
  /\ lpc \in {"stopped", "poll", "tick"} => evts = {}
  /\ rxAlive => interest \/ "NOTIFY" \in evts \/ lpc = "notify"

LEMMA ChannelAssumptions == Proved!SendersAssumption /\ Proved!ModesAssumption /\ Proved!WidthAssumption
<1>1. Proved!IsFiniteSet(Senders) = IsFiniteSet(Senders)
  BY Zenon DEF Proved!IsFiniteSet, IsFiniteSet
<1>2. Proved!Cardinality(Senders) = Cardinality(Senders)
  BY Zenon DEF Proved!Cardinality, Cardinality
<1>3. Proved!SendersAssumption
  BY <1>1, SendersAssumption DEF Proved!SendersAssumption
<1>4. Proved!WidthAssumption
  BY <1>2, WidthAssumption, LoopAssumption DEF Proved!WidthAssumption
<1>5. Proved!ModesAssumption
  BY LoopAssumption DEF Proved!ModesAssumption
<1>. QED
  BY <1>3, <1>4, <1>5

LEMMA ChannelInductive == ASSUME ChanInv, [Proved!Next]_(Proved!vars) PROVE ChanInv'
BY ChannelAssumptions, Proved!TypeStep, Proved!SenderInvStep, Proved!MainStep DEF ChanInv, Proved!CInv, Proved!MainInv

\* Most steps of the channel leave the interest and the user alone, and are the same
\* step of the channel read so.
LEMMA SameStep ==
  ASSUME [Chan!Next]_(Chan!vars), cell
  PROVE  \/ [Proved!Next]_(Proved!vars)
         \/ Chan!TryRecvEmpty \/ (\E i \in Updates : Chan!Reregister(i)) \/ Chan!PollEvent \/ Chan!ReceiverDrop
<1>. USE DEF Chan!countVars, Chan!regVars, Chan!readyVars, Chan!userVars, Chan!Goto, Chan!SetReadable, Chan!Idle,
             Proved!countVars, Proved!regVars, Proved!readyVars, Proved!userVars, Proved!Goto, Proved!SetReadable, Proved!Idle
<1>0. ASSUME NEW t \in Senders, Chan!SenderCall(t) \/ Chan!SenderStep(t) \/ Chan!ReceiverStep \/ Chan!TryRecv PROVE interest' = interest
  BY <1>0 DEF Chan!SenderCall, Chan!Send, Chan!SenderDrop, Chan!SenderClone, Chan!SenderStep, Chan!SendUnblock,
         Chan!SendDisconnected, Chan!IncFetchAdd, Chan!IncSetReadiness, Chan!SenderCtlDrop,
         Chan!ReceiverStep, Chan!RegisterFill, Chan!DecLoad, Chan!DecUnset, Chan!DecFetchSub, Chan!DecReset, Chan!TryRecv
<1>1. ASSUME NEW t \in Senders, Chan!SenderCall(t) PROVE Proved!SenderCall(t)
  <2>1. interest' = interest
    BY <1>0, <1>1
  <2>. QED
    BY <1>1, <2>1 DEF Chan!SenderCall, Chan!Send, Chan!SenderDrop, Chan!SenderClone,
                      Proved!SenderCall, Proved!Send, Proved!SenderDrop, Proved!SenderClone
<1>2. ASSUME NEW t \in Senders, Chan!SenderStep(t) PROVE Proved!SenderStep(t)
  <2>0. interest' = interest
    BY <1>0, <1>2
  <2>1. CASE Chan!SendUnblock(t) \/ Chan!SendDisconnected(t)
    BY <2>0, <2>1 DEF Proved!SenderStep, Chan!SendUnblock, Chan!SendDisconnected, Proved!SendUnblock, Proved!SendDisconnected
  <2>2. CASE Chan!IncFetchAdd(t) \/ Chan!SenderCtlDrop(t)
    BY <2>0, <2>2 DEF Proved!SenderStep, Chan!IncFetchAdd, Chan!SenderCtlDrop, Proved!IncFetchAdd, Proved!SenderCtlDrop
  <2>3. CASE Chan!IncSetReadiness(t)
    BY <2>0, <2>3 DEF Proved!SenderStep, Chan!IncSetReadiness, Proved!IncSetReadiness
  <2>. QED
    BY <1>2, <2>1, <2>2, <2>3 DEF Chan!SenderStep
<1>3. ASSUME Chan!ReceiverStep PROVE Proved!ReceiverStep
  <2>1. interest' = interest
    BY <1>0, <1>3, SendersAssumption
  <2>. QED
    BY <1>3, <2>1 DEF Chan!ReceiverStep, Chan!RegisterFill, Chan!DecLoad, Chan!DecUnset, Chan!DecFetchSub, Chan!DecReset,
                      Proved!ReceiverStep, Proved!RegisterFill, Proved!DecLoad, Proved!DecUnset, Proved!DecFetchSub, Proved!DecReset
<1>4. ~Chan!Register
  BY DEF Chan!Register
<1>5. Chan!TryRecv => Proved!TryRecv
  BY DEF Chan!TryRecv, Proved!TryRecv
<1>6. UNCHANGED Chan!vars => UNCHANGED Proved!vars
  BY DEF Chan!vars, Proved!vars
<1>. HIDE DEF Chan!Goto, Chan!Idle, Proved!Goto, Proved!Idle
<1>. QED
  BY <1>1, <1>2, <1>3, <1>4, <1>5, <1>6 DEF Chan!Next, Proved!Next

\* The channel's invariant is kept by every step of the loop.
LEMMA ChanStep ==
  ASSUME ChanInv, LoopInv, LoopInv', [Next]_vars
  PROVE  ChanInv'
<1>. USE DEF Chan!countVars, Chan!regVars, Chan!readyVars, Chan!userVars, Chan!Idle
<1>0. [Chan!Next]_(Chan!vars)
  BY ChannelSteps
<1>1. Proved!TypeOK /\ Proved!SenderInv /\ Proved!CountInv /\ Proved!RecvInv /\ Proved!SignalInv /\ Proved!NoteInv
  BY DEF ChanInv, Proved!CInv
<1>2. CASE Chan!PollEvent
  <2>1. Proved!PollEvent
    BY <1>1, <1>2 DEF LoopInv, Chan!PollEvent, Proved!PollEvent, Proved!countVars, Proved!Idle, Proved!TypeOK
  <2>. QED
    BY <2>1, ChannelInductive DEF Proved!Next
<1>3. CASE Chan!ReceiverDrop
  <2>1. UNCHANGED <<pending, senders, holders, cell, mode, readable, note, seenEnd, raced, pc, rpc, one>>
    BY <1>3 DEF Chan!ReceiverDrop
  <2>2. rpc = "idle" /\ rxAlive' = FALSE /\ len' = 0 /\ interest' = FALSE
    BY <1>3 DEF Chan!ReceiverDrop
  <2>a. len' \in 0..Bound
    BY <2>2, LoopAssumption
  <2>b. (~interest)' \in BOOLEAN /\ interest' \in BOOLEAN /\ rxAlive' \in BOOLEAN
    BY <2>2, Zenon
  <2>3. Proved!TypeOK'
    BY <1>1, <2>1, <2>a, <2>b DEF Proved!TypeOK
  <2>4. Proved!SenderInv'
    BY <1>1, <2>1 DEF Proved!SenderInv, Proved!At
  <2>5. Proved!CountInv' /\ Proved!SignalInv' /\ Proved!NoteInv'
    BY <2>2 DEF Proved!CountInv, Proved!SignalInv, Proved!NoteInv, Proved!Due
  <2>6. Proved!RecvInv'
    BY <1>1, <2>1, <2>2 DEF Proved!RecvInv, LoopInv
  <2>. QED
    BY <2>3, <2>4, <2>5, <2>6 DEF ChanInv, Proved!CInv
<1>4. CASE \E i \in Updates : Chan!Reregister(i)
  <2>1. UNCHANGED <<len, pending, senders, holders, cell, readable, rxAlive, seenEnd, raced, pc, rpc, one>>
    BY <1>4 DEF Chan!Reregister
  <2>2. rpc = "idle" /\ interest' = TRUE /\ mode' = "oneshot" /\ note' = (note \/ readable)
    BY <1>4, LoopAssumption DEF Chan!Reregister
  <2>3. Proved!TypeOK'
    BY <1>1, <2>1, <2>2 DEF Proved!TypeOK
  <2>4. Proved!SenderInv' /\ Proved!Balance' = Proved!Balance /\ Proved!AboutToSet' = Proved!AboutToSet
    BY <1>1, <2>1 DEF Proved!SenderInv, Proved!At, Proved!Balance, Proved!Uncounted, Proved!AboutToSet
  <2>5. Proved!CountInv' /\ Proved!RecvInv' /\ Proved!SignalInv'
    BY <1>1, <2>1, <2>4 DEF Proved!CountInv, Proved!RecvInv, Proved!SignalInv, Proved!Due, LoopInv
  <2>6. Proved!NoteInv'
    BY <1>1, <2>1, <2>2, <2>4 DEF Proved!SignalInv, Proved!NoteInv, Proved!Due, Proved!RecvInv
  <2>. QED
    BY <2>3, <2>4, <2>5, <2>6 DEF ChanInv, Proved!CInv
<1>5. CASE Chan!TryRecvEmpty
  <2>1. UNCHANGED <<len, pending, senders, holders, cell, interest, mode, readable, note, rxAlive, raced, pc, rpc, one>>
    BY <1>5 DEF Chan!TryRecvEmpty
  <2>2. seenEnd' = seenEnd
    BY <1>1, <1>5 DEF Chan!TryRecvEmpty, LoopInv, Proved!TypeOK
  <2>3. UNCHANGED Proved!vars
    BY <2>1, <2>2 DEF Proved!vars, Proved!countVars, Proved!regVars, Proved!readyVars, Proved!userVars
  <2>. QED
    BY <2>3, ChannelInductive
<1>. QED
  BY <1>0, <1>2, <1>3, <1>4, <1>5, SameStep, ChannelInductive DEF LoopInv

LEMMA LoopInvStep ==
  ASSUME ChanInv, LoopInv, [Next]_vars
  PROVE  LoopInv'
<1>. USE DEF LoopInv, Alive, Loop, Goto
<1>. DEFINE Fixed == UNCHANGED <<cell, raced, seenEnd, mode, rxAlive, holders, interest>>
<1>0. UNCHANGED chanVars => Fixed
  BY DEF chanVars
<1>1. CASE Run \/ PollInterrupted \/ PollFails \/ Tick \/ EndOfTick \/ TimerDone \/ CallbackReturns \/ Shutdown
  <2>1. Fixed /\ evts' = evts
    BY <1>0, <1>1 DEF Run, PollInterrupted, PollFails, Tick, EndOfTick, TimerDone, CallbackReturns, Shutdown
  <2>2. /\ lpc # "notify" => lpc' # "notify"
        /\ lpc = "notify" => lpc' = lpc
        /\ lpc' # "stopped" => Alive
        /\ lpc' \in {"stopped", "poll", "tick"} => evts = {}
    BY <1>1 DEF Run, PollInterrupted, PollFails, Tick, EndOfTick, TimerDone, CallbackReturns, Shutdown
  <2>. QED
    BY <2>1, <2>2
<1>2. ASSUME NEW e \in {"NOTIFY", "TIMER", "IO"}, Process(e) PROVE LoopInv'
  BY <1>0, <1>2 DEF Process
<1>3. CASE \E t \in Timeouts : TimerFires(t) \/ Timeout(t) \/ ClearTimeout(t) \/ Expire(t)
  <2>1. Fixed /\ UNCHANGED <<lpc, evts>>
    BY <1>0, <1>3 DEF TimerFires, Timeout, ClearTimeout, Expire, loopVars
  <2>. QED
    BY <2>1
<1>4. CASE PollReturns
  <2>1. lpc = "poll" /\ lpc' = "process" /\ interest
    BY <1>4 DEF PollReturns
  <2>2. note /\ readable => "NOTIFY" \in evts'
    BY <1>4, <2>1 DEF PollReturns
  <2>3. /\ UNCHANGED <<cell, raced, seenEnd, mode, rxAlive, holders>>
        /\ ~(note /\ readable) => interest'
    BY <1>0, <1>4, <2>1 DEF PollReturns, Chan!PollEvent, Chan!countVars
  <2>. QED
    BY <2>1, <2>2, <2>3
<1>5. CASE NotifyMessage
  BY <1>5 DEF NotifyMessage, Chan!TryRecv, Chan!regVars, Chan!userVars
<1>6. CASE NotifyEmpty
  BY <1>6 DEF NotifyEmpty, Chan!TryRecvEmpty, Chan!regVars, Chan!countVars
<1>7. CASE NotifyReregister
  BY <1>7, LoopAssumption DEF NotifyReregister, Chan!Reregister, Chan!countVars, Chan!userVars
<1>8. CASE DropLoop
  <2>1. UNCHANGED <<lpc, evts, cell, raced, seenEnd, mode>> /\ lpc = "stopped"
    BY <1>8 DEF DropLoop, Chan!SenderDrop, Chan!ReceiverDrop, Chan!regVars, Chan!userVars, loopVars
  <2>2. rxAlive' => interest' = interest /\ rxAlive
    BY <1>8 DEF DropLoop, Chan!SenderDrop, Chan!ReceiverDrop, Chan!regVars, Chan!userVars
  <2>. QED
    BY <2>1, <2>2
<1>9. ASSUME NEW u \in Senders \ {FirstSender}, SenderCall(u) \/ \E t \in Senders : NewSender(t, u) PROVE LoopInv'
  <2>1. UNCHANGED <<lpc, evts, cell, raced, seenEnd, mode, rxAlive, interest>>
    BY <1>9 DEF SenderCall, NewSender, Chan!Send, Chan!SenderDrop, Chan!SenderClone, Chan!regVars, Chan!userVars, loopVars
  <2>2. FirstSender \in holders => FirstSender \in holders'
    BY <1>9 DEF SenderCall, NewSender, Chan!Send, Chan!SenderDrop, Chan!SenderClone
  <2>. QED
    BY <2>1, <2>2
<1>10. ASSUME NEW u \in Senders, SenderStep(u) PROVE LoopInv'
  <2>1. UNCHANGED <<lpc, evts, cell, seenEnd, mode, rxAlive, interest, holders>>
    BY <1>10 DEF SenderStep, Chan!IncFetchAdd, Chan!IncSetReadiness, Chan!SenderCtlDrop, Chan!regVars, Chan!userVars, Chan!countVars, loopVars
  <2>2. ~raced'
    BY <1>10 DEF SenderStep, Chan!IncFetchAdd, Chan!IncSetReadiness, Chan!SenderCtlDrop, Chan!userVars
  <2>. QED
    BY <2>1, <2>2
<1>11. CASE ReceiverStep
  <2>1. UNCHANGED <<lpc, evts>> /\ Fixed
    BY <1>11 DEF ReceiverStep, Chan!DecLoad, Chan!DecUnset, Chan!DecFetchSub, Chan!DecReset, Chan!regVars, Chan!userVars, Chan!countVars, loopVars
  <2>. QED
    BY <2>1
<1>12. CASE UNCHANGED vars
  BY <1>0, <1>12 DEF vars, loopVars
<1>. QED
  BY <1>1, <1>2, <1>3, <1>4, <1>5, <1>6, <1>7, <1>8, <1>9, <1>10, <1>11, <1>12 DEF Next, LoopStep

LEMMA LoopInit == Init => ChanInv /\ LoopInv
<1>. SUFFICES ASSUME Init PROVE ChanInv /\ LoopInv
  OBVIOUS
<1>1. Proved!CInv
  <2>1. Proved!Init
    BY LoopAssumption DEF Init, Chan!Init, Proved!Init
  <2>. QED
    BY <2>1, ChannelAssumptions, Proved!InitInv
<1>2. LoopInv
  BY LoopAssumption DEF Init, Chan!Init, LoopInv, Alive
<1>. QED
  BY <1>1, <1>2 DEF ChanInv

\* When the loop polls, whatever is in the channel is signalled, though notify may
\* have stopped at messages_per_tick with messages left (notify, reregister, poll).
THEOREM NoMessageStranded == Spec => []MessagesAreNotStranded
<1>1. ChanInv /\ LoopInv /\ [Next]_vars => (ChanInv /\ LoopInv)'
  BY LoopInvStep, ChanStep
<1>2. ASSUME ChanInv, LoopInv, lpc = "poll", Chan!Quiet, len > 0 PROVE interest /\ readable /\ note
  <2>1. interest /\ rxAlive /\ cell /\ ~raced /\ ~seenEnd /\ rpc = "idle"
    BY <1>2 DEF LoopInv, Alive, Chan!Quiet
  <2>2. Proved!Quiet
    BY <1>2 DEF Chan!Quiet, Proved!Quiet
  <2>3. Proved!Balance = len + (IF senders = 0 THEN 1 ELSE 0) /\ ~Proved!AboutToSet /\ len \in Nat /\ senders \in Nat
    BY <1>2, <2>2, ChannelAssumptions, Proved!QuietBalance DEF ChanInv
  <2>4. Proved!Due
    BY <1>2, <2>1, <2>3 DEF Proved!Due
  <2>. QED
    BY <1>2, <2>1, <2>3, <2>4 DEF ChanInv, Proved!CInv, Proved!NoteInv
<1>3. ChanInv /\ LoopInv => MessagesAreNotStranded
  BY <1>2 DEF MessagesAreNotStranded
<1>. QED
  BY LoopInit, <1>1, <1>3, PTL DEF Spec

=============================================================================
