----------------------------- MODULE Readiness -----------------------------
(***************************************************************************)
(* What Registration, SetReadiness and Poll promise to the code that uses  *)
(* them (Channel, Timer, the Windows sockets), with each call a single     *)
(* step: no queue, no flags, no threads.                                   *)
(***************************************************************************)

CONSTANTS
  Regs,     \* the registrations
  Ready     \* the readiness kinds

VARIABLES
  state,    \* "free", "live", or "dropped" once its last handle is gone
  ready,    \* the readiness last set
  interest, \* what poll may report
  oneshot,  \* whether the first report disarms the registration
  note,     \* poll still has to look at the registration
  report    \* what poll has seen and is about to hand to its caller

regVars == <<state, ready, interest, oneshot>>
vars == <<regVars, note, report>>

Nothing == [n \in Regs |-> {}]

Init ==
  /\ state = [n \in Regs |-> "free"]
  /\ ready = Nothing /\ interest = Nothing
  /\ oneshot = [n \in Regs |-> FALSE]
  /\ note = [n \in Regs |-> FALSE]
  /\ report = Nothing

\* Registration::new.
New(n, i, o) ==
  /\ state[n] = "free"
  /\ state' = [state EXCEPT ![n] = "live"]
  /\ interest' = [interest EXCEPT ![n] = i]
  /\ oneshot' = [oneshot EXCEPT ![n] = o]
  /\ UNCHANGED <<ready, note, report>>

\* SetReadiness::set_readiness: poll has to look, unless nothing is ready.
Set(n, r) ==
  /\ state[n] = "live"
  /\ ready' = [ready EXCEPT ![n] = r]
  /\ note' = [note EXCEPT ![n] = @ \/ r # {}]
  /\ UNCHANGED <<state, interest, oneshot, report>>

\* Registration::update and deregister: a ready registration is looked at again.
Update(n, i, o) ==
  /\ state[n] = "live"
  /\ interest' = [interest EXCEPT ![n] = i]
  /\ oneshot' = [oneshot EXCEPT ![n] = o]
  /\ note' = [note EXCEPT ![n] = @ \/ ready[n] # {}]
  /\ UNCHANGED <<state, ready, report>>

\* Registration::drop.
Disable(n) ==
  /\ state[n] = "live"
  /\ interest' = [interest EXCEPT ![n] = {}]
  /\ oneshot' = [oneshot EXCEPT ![n] = FALSE]
  /\ UNCHANGED <<state, ready, note, report>>

\* The last handle is dropped.
LastDrop(n) ==
  /\ state[n] = "live"
  /\ state' = [state EXCEPT ![n] = "dropped"]
  /\ ready' = [ready EXCEPT ![n] = {}]
  /\ note' = [note EXCEPT ![n] = TRUE]
  /\ UNCHANGED <<interest, oneshot, report>>

\* Poll looks at a registration it has to look at, and only then forgets that it
\* has to (or looks once more although nothing was set since): it reports exactly
\* what is ready and of interest at this instant.
Look(n) ==
  LET seen == interest[n] \cap ready[n]
      disarm == oneshot[n] /\ seen # {} IN
  /\ state[n] = "live" /\ note[n] /\ report = Nothing
  /\ report' = [report EXCEPT ![n] = seen]
  /\ interest' = [interest EXCEPT ![n] = IF disarm THEN {} ELSE @]
  /\ oneshot' = [oneshot EXCEPT ![n] = @ /\ ~disarm]
  /\ note' \in {note, [note EXCEPT ![n] = FALSE]}
  /\ UNCHANGED <<state, ready>>

\* The event is pushed to the caller's Events.
Deliver ==
  /\ report # Nothing
  /\ report' = Nothing
  /\ UNCHANGED <<regVars, note>>

\* Poll finds a dropped registration and frees it.
Free(n) ==
  /\ state[n] = "dropped" /\ note[n] /\ report = Nothing
  /\ state' = [state EXCEPT ![n] = "free"]
  /\ interest' = [interest EXCEPT ![n] = {}]
  /\ oneshot' = [oneshot EXCEPT ![n] = FALSE]
  /\ note' = [note EXCEPT ![n] = FALSE]
  /\ UNCHANGED <<ready, report>>

Next ==
  \/ \E n \in Regs :
       \/ \E i \in SUBSET Ready, o \in BOOLEAN : New(n, i, o) \/ Update(n, i, o)
       \/ \E r \in SUBSET Ready : Set(n, r)
       \/ Disable(n) \/ LastDrop(n) \/ Look(n) \/ Free(n)
  \/ Deliver

Spec == Init /\ [][Next]_vars

=============================================================================
