---------------------- MODULE ReadinessQueueRefinement ----------------------
(***************************************************************************)
(* The queue of atomic accesses (ReadinessQueue) implements the calls of   *)
(* Readiness.                                                              *)
(***************************************************************************)
EXTENDS ReadinessQueue

\* Poll has read the events of n for the last time: what evs holds is final.
Settled(n) ==
  /\ node[PollThread] = n
  /\ \/ pc[PollThread] = "process"
     \/ pc[PollThread] \in {"load_head", "cas_head"} /\ op[PollThread] = "poll"
     \/ pc[PollThread] = "decide" /\ "edge" \notin opt /\ evs # {}

\* What poll has read of n and is about to push to its caller.
Pending(n) == IF Settled(n) THEN evs \ {Drop} ELSE {}

\* One-shot data that the settled event is about to disable.
Spent(n) == Pending(n) # {} /\ "oneshot" \in opt

\* The queued flag stands for a pending look, from the store of the events until
\* poll has read them for the last time.
Looking(n) == AboutToReread(n) \/ (pc[PollThread] = "process" /\ node[PollThread] = n /\ Drop \in evs)
Noted(n) == queued[n] = 1 \/ AboutToQueue(n) \/ Looking(n)

\* The variables of Readiness.
absState ==
  [n \in Nodes |-> IF n \notin alive THEN "free" ELSE IF Drop \in events[n] THEN "dropped" ELSE "live"]
absReady == [n \in Nodes |-> IF n \in alive THEN events[n] \ {Drop} ELSE {}]
absInterest == [n \in Nodes |-> IF n \in alive /\ ~Spent(n) THEN interest[n] ELSE {}]
absOneshot == [n \in Nodes |-> n \in alive /\ ~Spent(n) /\ "oneshot" \in opts[n]]
absNote == [n \in Nodes |-> n \in alive /\ Noted(n)]
absReport == [n \in Nodes |-> Pending(n)]

Abstract == INSTANCE Readiness WITH
  Regs <- Nodes, state <- absState, ready <- absReady, interest <- absInterest,
  oneshot <- absOneshot, note <- absNote, report <- absReport

\* The readiness queue implements Readiness: every interleaving of set_readiness,
\* update, drop and poll is one in which each call happens at once, poll reports
\* what was ready and of interest at one instant of the call, and no readiness
\* leaves the queue without poll having read it.
ImplementsReadiness == Abstract!Spec

=============================================================================
