----------------------- MODULE ReadinessQueueControl ------------------------
(***************************************************************************)
(* The inductive invariant of ReadinessQueue and the part of it that types *)
(* the state and says where the threads are, the sleep token, the wakeup   *)
(* and the readiness owed to poll: for any number of nodes and setter      *)
(* threads and any discipline of dropping handles.                         *)
(***************************************************************************)
EXTENDS ReadinessQueue, TLAPS

\* The steps of prepend_readiness_node and of the loop body of
\* ReadinessQueue::poll work on a node.
NodeSteps == {"store_drop", "cas_queued", "load_head", "cas_head",
              "load_events", "decide", "reread", "process"}
LoopSteps == {"load_events", "decide", "reread", "process"}

\* Who is where: only the owner of the Poll runs Poll::poll, and the caller
\* recorded in op fits the step.
LocalInv(t) ==
  /\ pc[t] \in PollSteps => t = PollThread
  /\ pc[t] \in NodeSteps => node[t] \in Nodes
  /\ op[t] # "set_readiness" => t = PollThread
  /\ op[t] = "update" => pc[t] \in {"cas_queued", "load_head", "cas_head"}
  /\ op[t] = "poll" => pc[t] \in LoopSteps \cup {"load_head", "cas_head"}
  /\ pc[t] \in LoopSteps => op[t] = "poll"

ThreadInv == \A t \in Threads : LocalInv(t)

\* ref_count is the number of handles: what keeps fetch_sub from wrapping.
RefInv ==
  \A n \in Nodes : refs[n] = Cardinality(handles[n]) + (IF regOwner[n] = NULL THEN 0 ELSE 1)

\* The sleep token is in the queue only between two calls or while poll may
\* sleep; poll passes the user's timeout to select only over a non-null head.
SleepInv ==
  /\ pc[PollThread] \in LoopSteps \cup {"next"} \/ op[PollThread] = "poll" => head # SLEEP
  /\ block => pc[PollThread] \in {"select", "cleanup", "take"}
  /\ block => head # NULL

\* Bytes in the pipe whose edge was already reported are about to be drained.
EdgeInv == pipe > 0 /\ ~edge => pc[PollThread] = "cleanup"

ControlInv == ThreadInv /\ SleepInv /\ EdgeInv /\ NoLostWakeup

IInv == TypeOK /\ RefInv /\ ControlInv /\ NoLostReadiness

\* Most of the steps below are first-order: Zenon is asked before the SMT solver.
USE ZenonT(8), SMTT(20)

-----------------------------------------------------------------------------
(* Type correctness.                                                       *)

\* The thread-local variables have their types.
ThreadType ==
  /\ pc \in [Threads -> {"idle"} \cup SetSteps \cup PollSteps]
  /\ node \in [Threads -> Nodes \cup {NULL}]
  /\ cur \in [Threads -> Nodes \cup {NULL, SLEEP}]
  /\ op \in [Threads -> {"set_readiness", "update", "poll"}]

LEMMA EnterType ==
  ASSUME ThreadType, NEW t \in Threads, NEW l \in {"idle"} \cup SetSteps \cup PollSteps,
         NEW n \in Nodes \cup {NULL}, NEW o \in {"set_readiness", "update", "poll"}, Enter(t, l, n, o)
  PROVE  ThreadType'
BY DEF ThreadType, Enter, Goto

\* Where the prepend returns to; the caller is one of the three in op.
LEMMA ReturnType ==
  ASSUME ThreadType, NEW t \in Threads, NEW w \in BOOLEAN, Return(t, w)
  PROVE  /\ ThreadType'
         /\ op[t] = "set_readiness" => Leave(t, IF w THEN "wakeup" ELSE "idle")
         /\ op[t] = "update" => Leave(t, "idle")
         /\ op[t] = "poll" => Enter(t, "process", node[t], "poll")
<1>1. op[t] \in {"set_readiness", "update", "poll"} /\ node[t] \in Nodes \cup {NULL}
  BY DEF ThreadType
<1>2. CASE op[t] = "set_readiness"
  <2>1. Leave(t, IF w THEN "wakeup" ELSE "idle")
    BY <1>2 DEF Return
  <2>. QED
    BY <1>2, <2>1, EnterType DEF Leave, SetSteps
<1>3. CASE op[t] = "update"
  <2>1. Leave(t, "idle")
    BY <1>3 DEF Return
  <2>. QED
    BY <1>3, <2>1, EnterType DEF Leave
<1>4. CASE op[t] = "poll"
  <2>1. Enter(t, "process", node[t], "poll")
    BY <1>4 DEF Return
  <2>. QED
    BY <1>1, <1>4, <2>1, EnterType DEF PollSteps
<1>. QED
  BY <1>1, <1>2, <1>3, <1>4

LEMMA TypeStep == TypeOK /\ ThreadInv /\ refs' \in [Nodes -> Nat] /\ [Next]_vars => TypeOK'
<1>. SUFFICES ASSUME TypeOK, ThreadInv, refs' \in [Nodes -> Nat], [Next]_vars PROVE TypeOK'
  OBVIOUS
<1>. USE DEF TypeOK, SetSteps, PollSteps, sharedVars, ownerVars, dataVars, wakeVars, threadVars, pollVars, history
<1>1. PollThread \in Threads
  BY DEF Threads
<1>2. ASSUME NEW t \in Threads, NEW n \in Nodes, NEW r \in SUBSET Ready, SetReadiness(t, n, r) PROVE TypeOK'
  <2>1. ThreadType'
    BY <1>2, EnterType DEF SetReadiness, StoreEvents, Leave, ThreadType
  <2>. QED
    BY <1>2, <2>1 DEF SetReadiness, StoreEvents, ThreadType
<1>3. ASSUME NEW t \in Threads, NEW u \in Threads, NEW n \in Nodes, SetReadinessClone(t, u, n) PROVE TypeOK'
  BY <1>1, <1>3 DEF SetReadinessClone
<1>4. ASSUME NEW t \in Threads, NEW n \in Nodes, SetReadinessDrop(t, n) PROVE TypeOK'
  BY <1>1, <1>4 DEF SetReadinessDrop, ReleaseRef, Enter, Leave, Goto
<1>5. ASSUME NEW t \in Threads, NEW u \in Threads, NEW n \in Nodes, RegistrationSend(t, u, n) PROVE TypeOK'
  BY <1>1, <1>5, DataAssumption, ThreadsAssumption DEF RegistrationSend
<1>6. ASSUME NEW t \in Threads, NEW n \in Nodes, RegistrationDrop(t, n) PROVE TypeOK'
  <2>1. ThreadType'
    BY <1>6, EnterType DEF RegistrationDrop, ReleaseRef, Leave, ThreadType
  <2>2. regOwner' \in [Nodes -> Threads \cup {NULL}]
    BY <1>6 DEF RegistrationDrop
  <2>. QED
    BY <1>6, <2>1, <2>2 DEF RegistrationDrop, ThreadType
<1>7. ASSUME NEW n \in Nodes, NEW i \in InterestChoices, NEW o \in OptChoices, RegistrationNew(n, i, o) PROVE TypeOK'
  BY <1>1, <1>7, DataAssumption, ThreadsAssumption DEF RegistrationNew
<1>8. ASSUME NEW n \in Nodes, NEW i \in InterestChoices, NEW o \in OptChoices, RegistrationUpdate(n, i, o) PROVE TypeOK'
  <2>1. ThreadType'
    BY <1>1, <1>8, EnterType DEF RegistrationUpdate, Leave, ThreadType
  <2>2. interest' \in [Nodes -> SUBSET Ready] /\ opts' \in [Nodes -> SUBSET PollOpt]
    BY <1>8, DataAssumption DEF RegistrationUpdate
  <2>. QED
    BY <1>8, <2>1, <2>2 DEF RegistrationUpdate, ThreadType
<1>9. ASSUME NEW t \in Threads, StoreDrop(t) PROVE TypeOK'
  BY <1>1, <1>9 DEF StoreDrop, StoreEvents, Enter, Leave, Goto, ThreadInv, LocalInv, NodeSteps, LoopSteps
<1>10. ASSUME NEW t \in Threads, CasQueued(t) PROVE TypeOK'
  <2>0. ThreadType /\ node[t] \in Nodes /\ op[t] \in {"set_readiness", "update", "poll"}
    BY <1>10 DEF CasQueued, ThreadInv, LocalInv, NodeSteps, ThreadType
  <2>1. CASE queued[node[t]] = 0
    <3>1. queued' = [queued EXCEPT ![node[t]] = 1] /\ Enter(t, "load_head", node[t], op[t])
      BY <1>10, <2>1 DEF CasQueued
    <3>2. ThreadType'
      BY <2>0, <3>1, EnterType
    <3>. QED
      BY <1>10, <2>0, <3>1, <3>2 DEF CasQueued, ThreadType
  <2>2. CASE queued[node[t]] # 0
    <3>1. UNCHANGED queued /\ Return(t, FALSE)
      BY <1>10, <2>2 DEF CasQueued
    <3>2. ThreadType'
      BY <2>0, <3>1, ReturnType
    <3>. QED
      BY <1>10, <3>1, <3>2 DEF CasQueued, ThreadType
  <2>. QED
    BY <2>1, <2>2
<1>11. ASSUME NEW t \in Threads, LoadHead(t) PROVE TypeOK'
  BY <1>1, <1>11 DEF LoadHead, ReadHead, Goto, ThreadInv, LocalInv, NodeSteps, LoopSteps
<1>12. ASSUME NEW t \in Threads, CasHead(t) PROVE TypeOK'
  <2>0. node[t] \in Nodes
    BY <1>12 DEF CasHead, ThreadInv, LocalInv, NodeSteps
  <2>1. ThreadType /\ (cur[t] = SLEEP) \in BOOLEAN
    BY DEF ThreadType
  <2>2. CASE head = cur[t]
    <3>1. ThreadType'
      BY <1>12, <2>1, <2>2, ReturnType DEF CasHead
    <3>. QED
      BY <1>12, <2>0, <2>2, <3>1 DEF CasHead, ThreadType
  <2>3. CASE head # cur[t]
    BY <1>12, <2>0, <2>3 DEF CasHead, ReadHead
  <2>. QED
    BY <2>2, <2>3
<1>13. ASSUME NEW t \in Threads, Wakeup(t) PROVE TypeOK'
  <2>1. pipe' \in 0..PipeCap /\ edge' \in BOOLEAN
    <3>1. CASE pipe < PipeCap
      BY <1>13, <3>1, PipeAssumption DEF Wakeup
    <3>2. CASE ~(pipe < PipeCap)
      BY <1>13, <3>2 DEF Wakeup
    <3>. QED
      BY <3>1, <3>2
  <2>. QED
    BY <1>13, <2>1 DEF Wakeup, Goto
<1>14. CASE PollStart
  BY <1>1, <1>14 DEF PollStart, Goto
<1>15. CASE PrepareForSleep
  BY <1>1, <1>15 DEF PrepareForSleep, Goto
<1>16. CASE SelectAwoken
  BY <1>1, <1>16, PipeAssumption DEF SelectAwoken, Signalled, Goto
<1>17. CASE SelectOther
  BY <1>1, <1>17 DEF SelectOther, Goto
<1>18. CASE SelectInterrupted
  BY <1>1, <1>18 DEF SelectInterrupted, Goto
<1>19. CASE Cleanup
  BY <1>1, <1>19, PipeAssumption DEF Cleanup, Goto
<1>20. CASE TakeReady
  BY <1>1, <1>20 DEF TakeReady, Goto
<1>21. CASE NextNode
  BY <1>1, <1>21 DEF NextNode, Enter, Goto
<1>22. CASE PollReturn
  BY <1>1, <1>22 DEF PollReturn, Goto
<1>23. CASE LoadEvents
  BY <1>1, <1>23 DEF LoadEvents, ReadEvents, PollEvents, Goto, ThreadInv, LocalInv, NodeSteps, LoopSteps
<1>24. CASE DecideDrop
  BY <1>1, <1>24 DEF DecideDrop, Goto
<1>25. CASE Dequeue
  BY <1>1, <1>25 DEF Dequeue, Goto, ThreadInv, LocalInv, NodeSteps, LoopSteps
<1>26. CASE Reread
  BY <1>1, <1>26 DEF Reread, ReadEvents, PollEvents, Goto, ThreadInv, LocalInv, NodeSteps, LoopSteps
<1>27. CASE Requeue
  BY <1>1, <1>27 DEF Requeue, Goto
<1>28. CASE ProcessDrop
  BY <1>1, <1>28 DEF ProcessDrop, Continue, Enter, Leave, Goto, ThreadInv, LocalInv, NodeSteps, LoopSteps
<1>29. CASE ProcessEvent
  BY <1>1, <1>29 DEF ProcessEvent, Continue, Enter, Leave, Goto, ThreadInv, LocalInv, NodeSteps, LoopSteps
<1>30. CASE UNCHANGED vars
  BY <1>30 DEF vars
<1>. QED
  BY <1>2, <1>3, <1>4, <1>5, <1>6, <1>7, <1>8, <1>9, <1>10, <1>11, <1>12, <1>13, <1>14, <1>15,
     <1>16, <1>17, <1>18, <1>19, <1>20, <1>21, <1>22, <1>23, <1>24, <1>25, <1>26, <1>27, <1>28,
     <1>29, <1>30
  DEF Next, Call, Step, Register, PollStep

-----------------------------------------------------------------------------
(* What a step does to the threads.                                        *)

\* Only thread t moves.
Others(t) == \A u \in Threads \ {t} : pc'[u] = pc[u] /\ node'[u] = node[u] /\ op'[u] = op[u]

LEMMA GotoEffect ==
  ASSUME ThreadType, NEW t \in Threads, NEW l, Goto(t, l), UNCHANGED <<node, op>>
  PROVE  Others(t) /\ pc'[t] = l /\ node'[t] = node[t] /\ op'[t] = op[t]
BY DEF ThreadType, Goto, Others

LEMMA EnterEffect ==
  ASSUME ThreadType, NEW t \in Threads, NEW l, NEW n, NEW o, Enter(t, l, n, o)
  PROVE  Others(t) /\ pc'[t] = l /\ node'[t] = n /\ op'[t] = o
BY DEF ThreadType, Enter, Goto, Others

\* Returning from the prepend: back to the caller, or on to wake the poll up.
LEMMA ReturnEffect ==
  ASSUME ThreadType, NEW t \in Threads, NEW w \in BOOLEAN, Return(t, w)
  PROVE  /\ Others(t)
         /\ op[t] = "poll" => pc'[t] = "process" /\ op'[t] = "poll" /\ node'[t] = node[t]
         /\ op[t] # "poll" => pc'[t] \in {"idle", "wakeup"} /\ op'[t] = "set_readiness"
         /\ op[t] = "set_readiness" /\ w => pc'[t] = "wakeup"
<1>1. op[t] \in {"set_readiness", "update", "poll"}
  BY DEF ThreadType
<1>2. CASE op[t] = "set_readiness"
  <2>1. Leave(t, IF w THEN "wakeup" ELSE "idle")
    BY <1>2, ReturnType
  <2>2. Others(t) /\ pc'[t] = (IF w THEN "wakeup" ELSE "idle") /\ op'[t] = "set_readiness"
    BY <2>1, EnterEffect DEF Leave
  <2>. QED
    BY <1>2, <2>2
<1>3. CASE op[t] = "update"
  <2>1. Leave(t, "idle")
    BY <1>3, ReturnType
  <2>. QED
    BY <1>3, <2>1, EnterEffect DEF Leave
<1>4. CASE op[t] = "poll"
  <2>1. Enter(t, "process", node[t], "poll")
    BY <1>4, ReturnType
  <2>. QED
    BY <1>4, <2>1, EnterEffect
<1>. QED
  BY <1>1, <1>2, <1>3, <1>4

\* Storing events leads on to the queue unless they are empty.
LEMMA StoreEffect ==
  ASSUME ThreadType, NEW t \in Threads, NEW n \in Nodes, NEW r, StoreEvents(t, n, r)
  PROVE  /\ Others(t) /\ op'[t] = "set_readiness"
         /\ r = {} => pc'[t] = "idle"
         /\ r # {} => pc'[t] = "cas_queued" /\ node'[t] = n
<1>1. CASE r = {}
  <2>1. Leave(t, "idle")
    BY <1>1 DEF StoreEvents
  <2>. QED
    BY <1>1, <2>1, EnterEffect DEF Leave
<1>2. CASE r # {}
  <2>1. Enter(t, "cas_queued", n, "set_readiness")
    BY <1>2 DEF StoreEvents
  <2>. QED
    BY <1>2, <2>1, EnterEffect
<1>. QED
  BY <1>1, <1>2

\* Dropping a handle leads on to storing the drop event when it was the last.
LEMMA ReleaseEffect ==
  ASSUME ThreadType, NEW t \in Threads, NEW n \in Nodes, ReleaseRef(t, n)
  PROVE  /\ Others(t) /\ op'[t] = "set_readiness"
         /\ pc'[t] = "idle" \/ (pc'[t] = "store_drop" /\ node'[t] = n)
<1>1. CASE refs[n] # 1
  <2>1. Leave(t, "idle")
    BY <1>1 DEF ReleaseRef
  <2>. QED
    BY <2>1, EnterEffect DEF Leave
<1>2. CASE refs[n] = 1
  <2>1. Enter(t, "store_drop", n, "set_readiness")
    BY <1>2 DEF ReleaseRef
  <2>. QED
    BY <2>1, EnterEffect
<1>. QED
  BY <1>1, <1>2

\* A step of thread t that touches neither the head of the queue nor the pipe.
Quiet(t) ==
  /\ Others(t)
  /\ UNCHANGED <<head, block, pipe, edge>>
  /\ pc[t] \notin {"wakeup", "cleanup"}
  /\ LocalInv(t)'
  /\ t = PollThread => SleepInv' /\ (block => pc'[t] # "select")

LEMMA QuietMove ==
  ASSUME ControlInv, NEW t \in Threads, Quiet(t)
  PROVE  ControlInv'
<1>1. PollThread \in Threads
  BY DEF Threads
<1>2. ThreadInv'
  BY DEF ControlInv, ThreadInv, LocalInv, Quiet, Others
<1>3. SleepInv'
  BY <1>1 DEF ControlInv, SleepInv, Quiet, Others
<1>4. EdgeInv'
  BY <1>1 DEF ControlInv, EdgeInv, Quiet, Others
<1>5. NoLostWakeup'
  <2>1. pc'[PollThread] = "select" /\ block' => pc[PollThread] = "select"
    BY <1>1 DEF Quiet, Others
  <2>2. \A u \in Threads : pc[u] = "wakeup" => pc'[u] = "wakeup"
    BY DEF Quiet, Others
  <2>. QED
    BY <2>1, <2>2 DEF ControlInv, NoLostWakeup, Signalled, Quiet
<1>. QED
  BY <1>2, <1>3, <1>4, <1>5 DEF ControlInv

-----------------------------------------------------------------------------
(* Control: where the threads are, the sleep token and the wakeup.         *)

LEMMA ControlStep == TypeOK /\ ControlInv /\ [Next]_vars => ControlInv'
<1>. SUFFICES ASSUME TypeOK, ThreadInv, SleepInv, EdgeInv, NoLostWakeup, [Next]_vars PROVE ControlInv'
  BY DEF ControlInv
<1>. USE DEF threadVars, wakeVars, sharedVars, pollVars, history
<1>0. ThreadType
  BY DEF TypeOK, ThreadType
<1>1. PollThread \in Threads
  BY DEF Threads
<1>2. ASSUME NEW t \in Threads, NEW n \in Nodes, NEW r \in SUBSET Ready, SetReadiness(t, n, r) PROVE ControlInv'
  <2>1. Others(t) /\ pc[t] = "idle" /\ op'[t] = "set_readiness"
        /\ (pc'[t] = "idle" \/ (pc'[t] = "cas_queued" /\ node'[t] = n))
    BY <1>0, <1>1, <1>2, StoreEffect DEF SetReadiness
  <2>2. UNCHANGED <<head, block, pipe, edge>>
    BY <1>2 DEF SetReadiness, StoreEvents
  <2>3. Quiet(t)
    BY <1>1, <2>1, <2>2 DEF Quiet, LocalInv, SleepInv, NodeSteps, LoopSteps, PollSteps
  <2>. QED
    BY <1>1, <2>3, QuietMove DEF ControlInv
<1>3. ASSUME NEW t \in Threads, NEW u \in Threads, NEW n \in Nodes, SetReadinessClone(t, u, n) PROVE ControlInv'
  BY <1>3 DEF SetReadinessClone, ThreadInv, LocalInv, EdgeInv, NoLostWakeup, Signalled, ControlInv, SleepInv, NodeSteps, LoopSteps, PollSteps
<1>4. ASSUME NEW t \in Threads, NEW n \in Nodes, SetReadinessDrop(t, n) PROVE ControlInv'
  <2>1. Others(t) /\ pc[t] = "idle" /\ op'[t] = "set_readiness"
        /\ (pc'[t] = "idle" \/ (pc'[t] = "store_drop" /\ node'[t] = n))
    BY <1>0, <1>1, <1>4, ReleaseEffect DEF SetReadinessDrop
  <2>2. UNCHANGED <<head, block, pipe, edge>>
    BY <1>4 DEF SetReadinessDrop
  <2>3. Quiet(t)
    BY <1>1, <2>1, <2>2 DEF Quiet, LocalInv, SleepInv, NodeSteps, LoopSteps, PollSteps
  <2>. QED
    BY <1>1, <2>3, QuietMove DEF ControlInv
<1>5. ASSUME NEW t \in Threads, NEW u \in Threads, NEW n \in Nodes, RegistrationSend(t, u, n) PROVE ControlInv'
  BY <1>5 DEF RegistrationSend, ThreadInv, LocalInv, EdgeInv, NoLostWakeup, Signalled, ControlInv, SleepInv, NodeSteps, LoopSteps, PollSteps
<1>6. ASSUME NEW t \in Threads, NEW n \in Nodes, RegistrationDrop(t, n) PROVE ControlInv'
  <2>1. Others(t) /\ pc[t] = "idle" /\ op'[t] = "set_readiness"
        /\ (pc'[t] = "idle" \/ (pc'[t] = "store_drop" /\ node'[t] = n))
    BY <1>0, <1>1, <1>6, ReleaseEffect DEF RegistrationDrop
  <2>2. UNCHANGED <<head, block, pipe, edge>>
    BY <1>6 DEF RegistrationDrop
  <2>3. Quiet(t)
    BY <1>1, <2>1, <2>2 DEF Quiet, LocalInv, SleepInv, NodeSteps, LoopSteps, PollSteps
  <2>. QED
    BY <1>1, <2>3, QuietMove DEF ControlInv
<1>7. ASSUME NEW n \in Nodes, NEW i \in InterestChoices, NEW o \in OptChoices, RegistrationNew(n, i, o) PROVE ControlInv'
  BY <1>7 DEF RegistrationNew, ThreadInv, LocalInv, EdgeInv, NoLostWakeup, Signalled, ControlInv, SleepInv, NodeSteps, LoopSteps, PollSteps
<1>8. ASSUME NEW n \in Nodes, NEW i \in InterestChoices, NEW o \in OptChoices, RegistrationUpdate(n, i, o) PROVE ControlInv'
  <2>1. Others(PollThread) /\ pc[PollThread] = "idle"
        /\ \/ pc'[PollThread] = "idle" /\ op'[PollThread] = "set_readiness"
           \/ pc'[PollThread] = "cas_queued" /\ node'[PollThread] = n /\ op'[PollThread] = "update"
    BY <1>0, <1>1, <1>8, EnterEffect DEF RegistrationUpdate, Leave
  <2>2. UNCHANGED <<head, block, pipe, edge>>
    BY <1>8 DEF RegistrationUpdate, Leave
  <2>3. Quiet(PollThread)
    BY <1>1, <2>1, <2>2 DEF Quiet, LocalInv, SleepInv, NodeSteps, LoopSteps, PollSteps
  <2>. QED
    BY <1>1, <2>3, QuietMove DEF ControlInv
<1>9. ASSUME NEW t \in Threads, StoreDrop(t) PROVE ControlInv'
  <2>0. node[t] \in Nodes
    BY <1>9 DEF StoreDrop, ThreadInv, LocalInv, NodeSteps, PollSteps
  <2>1. Others(t) /\ pc[t] = "store_drop" /\ pc'[t] = "cas_queued" /\ node'[t] = node[t] /\ op'[t] = "set_readiness"
    BY <1>0, <1>1, <1>9, <2>0, StoreEffect DEF StoreDrop
  <2>2. UNCHANGED <<head, block, pipe, edge>>
    BY <1>9 DEF StoreDrop, StoreEvents
  <2>3. Quiet(t)
    BY <1>1, <2>1, <2>2, <2>0 DEF Quiet, LocalInv, SleepInv, NodeSteps, LoopSteps, PollSteps
  <2>. QED
    BY <1>1, <2>3, QuietMove DEF ControlInv
<1>10. ASSUME NEW t \in Threads, CasQueued(t) PROVE ControlInv'
  <2>0. pc[t] = "cas_queued" /\ LocalInv(t) /\ UNCHANGED <<head, block, pipe, edge>>
    BY <1>10 DEF CasQueued, ThreadInv
  <2>1. CASE queued[node[t]] = 0
    <3>1. Others(t) /\ pc'[t] = "load_head" /\ node'[t] = node[t] /\ op'[t] = op[t]
      BY <1>0, <1>10, <2>1, EnterEffect DEF CasQueued
    <3>2. Quiet(t)
      BY <2>0, <3>1 DEF Quiet, LocalInv, SleepInv, NodeSteps, LoopSteps, PollSteps
    <3>. QED
      BY <3>2, QuietMove DEF ControlInv
  <2>2. CASE queued[node[t]] # 0
    <3>1. Return(t, FALSE)
      BY <1>10, <2>2 DEF CasQueued
    <3>2. op[t] # "poll"
      BY <2>0 DEF LocalInv, LoopSteps
    <3>3. Others(t) /\ pc'[t] \in {"idle", "wakeup"} /\ op'[t] = "set_readiness"
      BY <1>0, <3>1, <3>2, ReturnEffect
    <3>4. Quiet(t)
      BY <2>0, <3>3 DEF Quiet, LocalInv, SleepInv, NodeSteps, LoopSteps, PollSteps
    <3>. QED
      BY <3>4, QuietMove DEF ControlInv
  <2>. QED
    BY <2>1, <2>2 DEF ControlInv
<1>11. ASSUME NEW t \in Threads, LoadHead(t) PROVE ControlInv'
  <2>0. LocalInv(t)
    BY DEF ThreadInv
  <2>1. Others(t) /\ pc[t] = "load_head" /\ pc'[t] = "cas_head" /\ node'[t] = node[t] /\ op'[t] = op[t]
    BY <1>0, <1>1, <1>11, GotoEffect DEF LoadHead
  <2>2. UNCHANGED <<head, block, pipe, edge>>
    BY <1>11 DEF LoadHead
  <2>3. Quiet(t)
    BY <1>1, <2>1, <2>2, <2>0 DEF Quiet, LocalInv, SleepInv, NodeSteps, LoopSteps, PollSteps
  <2>. QED
    BY <1>1, <2>3, QuietMove DEF ControlInv
<1>12. ASSUME NEW t \in Threads, CasHead(t) PROVE ControlInv'
  <2>0. pc[t] = "cas_head" /\ LocalInv(t) /\ UNCHANGED <<block, pipe, edge>>
    BY <1>12 DEF CasHead, ThreadInv
  <2>1. CASE head # cur[t]
    <3>1. UNCHANGED <<head, pc, node, op>>
      BY <1>12, <2>1 DEF CasHead
    <3>2. Quiet(t)
      BY <2>0, <3>1 DEF Others, Quiet, LocalInv, SleepInv, NodeSteps, LoopSteps, PollSteps
    <3>. QED
      BY <3>2, QuietMove DEF ControlInv
  \* The node becomes the head of the queue.
  <2>2. CASE head = cur[t]
    <3>0. node[t] \in Nodes /\ head' = node[t] /\ head' # SLEEP /\ head' # NULL
      BY <1>12, <2>0, <2>2, PointersAssumption DEF CasHead, LocalInv, NodeSteps
    <3>1. Return(t, head = SLEEP)
      BY <1>12, <2>2 DEF CasHead
    <3>2. /\ Others(t)
          /\ op[t] = "poll" => pc'[t] = "process" /\ op'[t] = "poll" /\ node'[t] = node[t]
          /\ op[t] # "poll" => pc'[t] \in {"idle", "wakeup"} /\ op'[t] = "set_readiness"
          /\ op[t] = "set_readiness" /\ head = SLEEP => pc'[t] = "wakeup"
      BY <1>0, <3>1, ReturnEffect
    <3>3. LocalInv(t)'
      BY <2>0, <3>0, <3>2 DEF LocalInv, NodeSteps, LoopSteps, PollSteps, ThreadInv
    <3>4. ThreadInv'
      BY <3>2, <3>3 DEF ThreadInv, Others, LocalInv
    <3>5. SleepInv'
      BY <1>1, <2>0, <3>0, <3>2 DEF Others, SleepInv, LoopSteps
    <3>6. EdgeInv'
      BY <1>1, <2>0, <3>2 DEF EdgeInv, Others
    \* The thread that replaced the sleep token goes on to wake the poll up; any
    \* other head of a blocked poll is a node, whose arrival was signalled before.
    <3>7. NoLostWakeup'
      <4>. SUFFICES ASSUME pc'[PollThread] = "select", block'
                    PROVE  Signalled' \/ \E u \in Threads : pc'[u] = "wakeup"
        BY DEF NoLostWakeup
      <4>1. t # PollThread /\ pc[PollThread] = "select" /\ op[t] = "set_readiness"
        BY <1>1, <2>0, <3>2 DEF Others, LocalInv
      <4>2. CASE head = SLEEP
        BY <3>2, <4>1, <4>2 DEF ControlInv
      <4>3. CASE head # SLEEP
        <5>1. head \in Nodes
          BY <2>0, <4>3 DEF TypeOK, SleepInv
        <5>2. Signalled \/ \E u \in Threads \ {t} : pc[u] = "wakeup"
          BY <2>0, <4>1, <5>1 DEF NoLostWakeup
        <5>. QED
          BY <2>0, <3>2, <5>2 DEF Signalled, Others, ControlInv
      <4>. QED
        BY <4>2, <4>3 DEF ControlInv
    <3>. QED
      BY <3>4, <3>5, <3>6, <3>7 DEF ControlInv
  <2>. QED
    BY <2>1, <2>2 DEF ControlInv
<1>13. ASSUME NEW t \in Threads, Wakeup(t) PROVE ControlInv'
  <2>1. Others(t) /\ pc[t] = "wakeup" /\ pc'[t] = "idle" /\ node'[t] = node[t] /\ op'[t] = op[t]
    BY <1>0, <1>13, GotoEffect DEF Wakeup
  <2>2. UNCHANGED <<head, block>> /\ LocalInv(t)
    BY <1>13 DEF Wakeup, ThreadInv, LocalInv, NodeSteps, LoopSteps, PollSteps
  <2>3. LocalInv(t)'
    BY <2>1, <2>2 DEF LocalInv, NodeSteps, LoopSteps, PollSteps, ThreadInv
  <2>4. ThreadInv'
    BY <2>1, <2>3 DEF ThreadInv, Others, LocalInv
  <2>5. SleepInv'
    BY <1>1, <2>1, <2>2 DEF Others, SleepInv, LoopSteps
  \* A byte was written; or the pipe is full, and its bytes were not reported yet
  \* or poll is draining it.
  <2>6. CASE pipe < PipeCap
    <3>1. pipe' > 0 /\ edge'
      BY <1>13, <2>6 DEF Wakeup, TypeOK
    <3>. QED
      BY <2>4, <2>5, <3>1 DEF EdgeInv, NoLostWakeup, Signalled, ControlInv
  <2>7. CASE ~(pipe < PipeCap)
    <3>1. UNCHANGED <<pipe, edge>>
      BY <1>13, <2>7 DEF Wakeup
    <3>2. pipe > 0
      BY <2>7, PipeAssumption DEF TypeOK
    <3>3. EdgeInv'
      BY <1>1, <2>1, <3>1 DEF EdgeInv, Others
    <3>4. NoLostWakeup'
      BY <1>1, <2>1, <3>1, <3>2, <3>3 DEF EdgeInv, NoLostWakeup, Signalled
    <3>. QED
      BY <2>4, <2>5, <3>3, <3>4 DEF ControlInv
  <2>. QED
    BY <2>6, <2>7 DEF ControlInv
<1>14. CASE PollStart
  <2>1. /\ Others(PollThread) /\ pc[PollThread] = "idle" /\ pc'[PollThread] \in {"select", "prepare"}
        /\ node'[PollThread] = node[PollThread] /\ op'[PollThread] = op[PollThread]
    BY <1>0, <1>1, <1>14, GotoEffect DEF PollStart
  <2>2. UNCHANGED <<head, block, pipe, edge>>
    BY <1>14 DEF PollStart
  <2>3. Quiet(PollThread)
    BY <1>1, <2>1, <2>2 DEF ThreadInv, Quiet, LocalInv, SleepInv, NodeSteps, LoopSteps, PollSteps
  <2>. QED
    BY <1>1, <2>3, QuietMove DEF ControlInv
<1>15. CASE PrepareForSleep
  <2>1. /\ Others(PollThread) /\ pc[PollThread] = "prepare" /\ pc'[PollThread] = "select"
        /\ node'[PollThread] = node[PollThread] /\ op'[PollThread] = op[PollThread]
    BY <1>0, <1>1, <1>15, GotoEffect DEF PrepareForSleep
  <2>2. /\ UNCHANGED <<pipe, edge>>
        /\ block' => head' = SLEEP /\ head' # NULL
        /\ head' = SLEEP \/ head' = head
    BY <1>15, PointersAssumption DEF PrepareForSleep
  <2>3. LocalInv(PollThread)'
    BY <1>1, <2>1 DEF ThreadInv, LocalInv, NodeSteps, LoopSteps, PollSteps
  <2>4. ThreadInv'
    BY <2>1, <2>3 DEF ThreadInv, Others, LocalInv
  <2>5. SleepInv'
    BY <1>1, <2>1, <2>2 DEF ThreadInv, LocalInv, SleepInv, LoopSteps
  <2>6. EdgeInv' /\ NoLostWakeup'
    BY <2>1, <2>2, PointersAssumption DEF EdgeInv, NoLostWakeup
  <2>. QED
    BY <2>4, <2>5, <2>6 DEF ControlInv
<1>16. CASE SelectAwoken
  <2>1. /\ Others(PollThread) /\ pc[PollThread] = "select" /\ pc'[PollThread] = "cleanup"
        /\ node'[PollThread] = node[PollThread] /\ op'[PollThread] = op[PollThread]
    BY <1>0, <1>1, <1>16, GotoEffect DEF SelectAwoken
  <2>2. UNCHANGED <<head, block>>
    BY <1>16 DEF SelectAwoken
  <2>3. LocalInv(PollThread)'
    BY <1>1, <2>1 DEF ThreadInv, LocalInv, NodeSteps, LoopSteps, PollSteps
  <2>4. ThreadInv'
    BY <2>1, <2>3 DEF ThreadInv, Others, LocalInv
  <2>5. SleepInv'
    BY <1>1, <2>1, <2>2 DEF ThreadInv, SleepInv, LoopSteps
  <2>. QED
    BY <2>1, <2>4, <2>5 DEF EdgeInv, NoLostWakeup, ControlInv
<1>17. CASE SelectOther
  <2>1. /\ Others(PollThread) /\ pc[PollThread] = "select" /\ pc'[PollThread] = "take"
        /\ node'[PollThread] = node[PollThread] /\ op'[PollThread] = op[PollThread]
    BY <1>0, <1>1, <1>17, GotoEffect DEF SelectOther
  <2>2. UNCHANGED <<head, block, pipe, edge>>
    BY <1>17 DEF SelectOther
  <2>3. Quiet(PollThread)
    BY <1>1, <2>1, <2>2 DEF ThreadInv, Quiet, LocalInv, SleepInv, NodeSteps, LoopSteps, PollSteps
  <2>. QED
    BY <1>1, <2>3, QuietMove DEF ControlInv
<1>18. CASE SelectInterrupted
  <2>1. /\ Others(PollThread) /\ pc[PollThread] = "select" /\ pc'[PollThread] = "idle"
        /\ node'[PollThread] = node[PollThread] /\ op'[PollThread] = op[PollThread]
    BY <1>0, <1>1, <1>18, GotoEffect DEF SelectInterrupted
  <2>2. UNCHANGED <<head, pipe, edge>> /\ ~block'
    BY <1>18 DEF SelectInterrupted
  <2>3. LocalInv(PollThread)'
    BY <1>1, <2>1 DEF ThreadInv, LocalInv, NodeSteps, LoopSteps, PollSteps
  <2>4. ThreadInv'
    BY <2>1, <2>3 DEF ThreadInv, Others, LocalInv
  <2>5. SleepInv'
    BY <1>1, <2>1, <2>2 DEF ThreadInv, SleepInv, LoopSteps
  <2>. QED
    BY <2>1, <2>2, <2>4, <2>5 DEF EdgeInv, NoLostWakeup, ControlInv
<1>19. CASE Cleanup
  <2>1. /\ Others(PollThread) /\ pc[PollThread] = "cleanup" /\ pc'[PollThread] = "take"
        /\ node'[PollThread] = node[PollThread] /\ op'[PollThread] = op[PollThread]
    BY <1>0, <1>1, <1>19, GotoEffect DEF Cleanup
  <2>2. UNCHANGED <<head, block>> /\ pipe' = 0
    BY <1>19 DEF Cleanup
  <2>3. LocalInv(PollThread)'
    BY <1>1, <2>1 DEF ThreadInv, LocalInv, NodeSteps, LoopSteps, PollSteps
  <2>4. ThreadInv'
    BY <2>1, <2>3 DEF ThreadInv, Others, LocalInv
  <2>5. SleepInv'
    BY <1>1, <2>1, <2>2 DEF ThreadInv, SleepInv, LoopSteps
  <2>. QED
    BY <2>1, <2>2, <2>4, <2>5 DEF EdgeInv, NoLostWakeup, ControlInv
<1>20. CASE TakeReady
  <2>1. /\ Others(PollThread) /\ pc[PollThread] = "take" /\ pc'[PollThread] = "next"
        /\ node'[PollThread] = node[PollThread] /\ op'[PollThread] = op[PollThread]
    BY <1>0, <1>1, <1>20, GotoEffect DEF TakeReady
  <2>2. UNCHANGED <<pipe, edge>> /\ ~block' /\ head' = NULL /\ head' # SLEEP
    BY <1>20, PointersAssumption DEF TakeReady
  <2>3. LocalInv(PollThread)'
    BY <1>1, <2>1 DEF ThreadInv, LocalInv, NodeSteps, LoopSteps, PollSteps
  <2>4. ThreadInv'
    BY <2>1, <2>3 DEF ThreadInv, Others, LocalInv
  <2>5. SleepInv'
    BY <1>1, <2>1, <2>2 DEF ThreadInv, SleepInv, LoopSteps
  <2>. QED
    BY <2>1, <2>2, <2>4, <2>5 DEF EdgeInv, NoLostWakeup, ControlInv
<1>21. CASE NextNode
  <2>1. Others(PollThread) /\ pc[PollThread] = "next" /\ pc'[PollThread] = "load_events"
        /\ node'[PollThread] \in Nodes /\ op'[PollThread] = "poll"
    <3>1. PICK n \in Nodes : Enter(PollThread, "load_events", n, "poll")
      BY <1>21 DEF NextNode, TypeOK
    <3>. QED
      BY <1>0, <1>1, <1>21, <3>1, EnterEffect DEF NextNode
  <2>2. UNCHANGED <<head, block, pipe, edge>>
    BY <1>21 DEF NextNode
  <2>3. Quiet(PollThread)
    BY <1>1, <2>1, <2>2 DEF Quiet, LocalInv, SleepInv, NodeSteps, LoopSteps, PollSteps
  <2>. QED
    BY <1>1, <2>3, QuietMove DEF ControlInv
<1>22. CASE PollReturn
  <2>1. /\ Others(PollThread) /\ pc[PollThread] = "next" /\ pc'[PollThread] = "idle"
        /\ node'[PollThread] = node[PollThread] /\ op'[PollThread] = op[PollThread]
    BY <1>0, <1>1, <1>22, GotoEffect DEF PollReturn
  <2>2. UNCHANGED <<head, block, pipe, edge>>
    BY <1>22 DEF PollReturn
  <2>3. Quiet(PollThread)
    BY <1>1, <2>1, <2>2 DEF ThreadInv, Quiet, LocalInv, SleepInv, NodeSteps, LoopSteps, PollSteps
  <2>. QED
    BY <1>1, <2>3, QuietMove DEF ControlInv
<1>23. CASE LoadEvents
  <2>1. /\ Others(PollThread) /\ pc[PollThread] = "load_events" /\ pc'[PollThread] = "decide"
        /\ node'[PollThread] = node[PollThread] /\ op'[PollThread] = op[PollThread]
    BY <1>0, <1>1, <1>23, GotoEffect DEF LoadEvents
  <2>2. UNCHANGED <<head, block, pipe, edge>>
    BY <1>23 DEF LoadEvents
  <2>3. Quiet(PollThread)
    BY <1>1, <2>1, <2>2 DEF ThreadInv, Quiet, LocalInv, SleepInv, NodeSteps, LoopSteps, PollSteps
  <2>. QED
    BY <1>1, <2>3, QuietMove DEF ControlInv
<1>24. CASE DecideDrop
  <2>1. /\ Others(PollThread) /\ pc[PollThread] = "decide" /\ pc'[PollThread] = "process"
        /\ node'[PollThread] = node[PollThread] /\ op'[PollThread] = op[PollThread]
    BY <1>0, <1>1, <1>24, GotoEffect DEF DecideDrop
  <2>2. UNCHANGED <<head, block, pipe, edge>>
    BY <1>24 DEF DecideDrop
  <2>3. Quiet(PollThread)
    BY <1>1, <2>1, <2>2 DEF ThreadInv, Quiet, LocalInv, SleepInv, NodeSteps, LoopSteps, PollSteps
  <2>. QED
    BY <1>1, <2>3, QuietMove DEF ControlInv
<1>25. CASE Dequeue
  <2>1. /\ Others(PollThread) /\ pc[PollThread] = "decide" /\ pc'[PollThread] \in {"reread", "load_events"}
        /\ node'[PollThread] = node[PollThread] /\ op'[PollThread] = op[PollThread]
    BY <1>0, <1>1, <1>25, GotoEffect DEF Dequeue
  <2>2. UNCHANGED <<head, block, pipe, edge>>
    BY <1>25 DEF Dequeue
  <2>3. Quiet(PollThread)
    BY <1>1, <2>1, <2>2 DEF ThreadInv, Quiet, LocalInv, SleepInv, NodeSteps, LoopSteps, PollSteps
  <2>. QED
    BY <1>1, <2>3, QuietMove DEF ControlInv
<1>26. CASE Reread
  <2>1. /\ Others(PollThread) /\ pc[PollThread] = "reread" /\ pc'[PollThread] = "process"
        /\ node'[PollThread] = node[PollThread] /\ op'[PollThread] = op[PollThread]
    BY <1>0, <1>1, <1>26, GotoEffect DEF Reread
  <2>2. UNCHANGED <<head, block, pipe, edge>>
    BY <1>26 DEF Reread
  <2>3. Quiet(PollThread)
    BY <1>1, <2>1, <2>2 DEF ThreadInv, Quiet, LocalInv, SleepInv, NodeSteps, LoopSteps, PollSteps
  <2>. QED
    BY <1>1, <2>3, QuietMove DEF ControlInv
<1>27. CASE Requeue
  <2>1. /\ Others(PollThread) /\ pc[PollThread] = "decide" /\ pc'[PollThread] = "load_head"
        /\ node'[PollThread] = node[PollThread] /\ op'[PollThread] = op[PollThread]
    BY <1>0, <1>1, <1>27, GotoEffect DEF Requeue
  <2>2. UNCHANGED <<head, block, pipe, edge>>
    BY <1>27 DEF Requeue
  <2>3. Quiet(PollThread)
    BY <1>1, <2>1, <2>2 DEF ThreadInv, Quiet, LocalInv, SleepInv, NodeSteps, LoopSteps, PollSteps
  <2>. QED
    BY <1>1, <2>3, QuietMove DEF ControlInv
<1>28. CASE ProcessDrop
  <2>1. Others(PollThread) /\ pc[PollThread] = "process" /\ pc'[PollThread] = "next"
        /\ op'[PollThread] = "set_readiness"
    BY <1>0, <1>1, <1>28, EnterEffect DEF ProcessDrop, Continue, Leave
  <2>2. UNCHANGED <<head, block, pipe, edge>>
    BY <1>28 DEF ProcessDrop, Continue, Leave
  <2>3. Quiet(PollThread)
    BY <1>1, <2>1, <2>2 DEF Quiet, LocalInv, SleepInv, NodeSteps, LoopSteps, PollSteps
  <2>. QED
    BY <1>1, <2>3, QuietMove DEF ControlInv
<1>29. CASE ProcessEvent
  <2>1. Others(PollThread) /\ pc[PollThread] = "process" /\ pc'[PollThread] = "next"
        /\ op'[PollThread] = "set_readiness"
    BY <1>0, <1>1, <1>29, EnterEffect DEF ProcessEvent, Continue, Leave
  <2>2. UNCHANGED <<head, block, pipe, edge>>
    BY <1>29 DEF ProcessEvent, Continue, Leave
  <2>3. Quiet(PollThread)
    BY <1>1, <2>1, <2>2 DEF Quiet, LocalInv, SleepInv, NodeSteps, LoopSteps, PollSteps
  <2>. QED
    BY <1>1, <2>3, QuietMove DEF ControlInv
<1>30. CASE UNCHANGED vars
  BY <1>30 DEF vars, ThreadInv, LocalInv, SleepInv, EdgeInv, NoLostWakeup, Signalled, ControlInv
<1>. QED
  BY <1>2, <1>3, <1>4, <1>5, <1>6, <1>7, <1>8, <1>9, <1>10, <1>11, <1>12, <1>13, <1>14, <1>15,
     <1>16, <1>17, <1>18, <1>19, <1>20, <1>21, <1>22, <1>23, <1>24, <1>25, <1>26, <1>27, <1>28,
     <1>29, <1>30
  DEF Next, Call, Step, Register, PollStep

-----------------------------------------------------------------------------
(* Readiness: set_readiness against the loop of ReadinessQueue::poll.      *)

\* A step that does not change what is owed and queued, of a thread that was
\* not the one about to queue or to re-read.
LEMMA KeepReadiness ==
  ASSUME NoLostReadiness, NEW t \in Threads, Others(t), UNCHANGED <<queued, owed>>,
         pc[t] \notin {"cas_queued", "reread"}
  PROVE  NoLostReadiness'
<1>. SUFFICES ASSUME NEW n \in Nodes, owed'[n], queued'[n] # 1
              PROVE  AboutToQueue(n)' \/ AboutToReread(n)'
  BY DEF NoLostReadiness
<1>1. AboutToQueue(n) \/ AboutToReread(n)
  BY DEF NoLostReadiness
<1>2. CASE AboutToQueue(n)
  BY <1>2 DEF AboutToQueue, Others
<1>3. CASE AboutToReread(n)
  BY <1>3 DEF AboutToReread, Others, Threads
<1>. QED
  BY <1>1, <1>2, <1>3

\* A step after which the stepping thread is about to queue node n.
LEMMA QueueReadiness ==
  ASSUME NoLostReadiness, NEW t \in Threads, Others(t), NEW n \in Nodes, UNCHANGED queued,
         pc[t] \notin {"cas_queued", "reread"},
         \A m \in Nodes : owed'[m] = owed[m] \/ (m = n /\ pc'[t] = "cas_queued" /\ node'[t] = n)
  PROVE  NoLostReadiness'
<1>. SUFFICES ASSUME NEW m \in Nodes, owed'[m], queued'[m] # 1
              PROVE  AboutToQueue(m)' \/ AboutToReread(m)'
  BY DEF NoLostReadiness
<1>1. CASE m = n /\ pc'[t] = "cas_queued" /\ node'[t] = n
  BY <1>1 DEF AboutToQueue
<1>2. CASE owed'[m] = owed[m]
  <2>1. AboutToQueue(m) \/ AboutToReread(m)
    BY <1>2 DEF NoLostReadiness
  <2>2. CASE AboutToQueue(m)
    BY <2>2 DEF AboutToQueue, Others
  <2>3. CASE AboutToReread(m)
    BY <2>3 DEF AboutToReread, Others, Threads
  <2>. QED
    BY <2>1, <2>2, <2>3
<1>. QED
  BY <1>1, <1>2

\* A step that only affects node n, after which nothing is owed for n, or n is
\* queued or about to be re-read.
LEMMA SettleReadiness ==
  ASSUME NoLostReadiness, NEW t \in Threads, Others(t), NEW n \in Nodes,
         pc[t] \in {"cas_queued", "reread"} => node[t] = n,
         \A m \in Nodes \ {n} : owed'[m] = owed[m] /\ queued'[m] = queued[m],
         owed'[n] => queued'[n] = 1 \/ AboutToReread(n)'
  PROVE  NoLostReadiness'
<1>. SUFFICES ASSUME NEW m \in Nodes \ {n}, owed'[m], queued'[m] # 1
              PROVE  AboutToQueue(m)' \/ AboutToReread(m)'
  BY DEF NoLostReadiness
<1>1. AboutToQueue(m) \/ AboutToReread(m)
  BY DEF NoLostReadiness
<1>2. CASE AboutToQueue(m)
  BY <1>2 DEF AboutToQueue, Others
<1>3. CASE AboutToReread(m)
  BY <1>3 DEF AboutToReread, Others, Threads
<1>. QED
  BY <1>1, <1>2, <1>3

LEMMA ReadinessStep == TypeOK /\ ThreadInv /\ NoLostReadiness /\ [Next]_vars => NoLostReadiness'
<1>. SUFFICES ASSUME TypeOK, ThreadInv, NoLostReadiness, [Next]_vars PROVE NoLostReadiness'
  OBVIOUS
<1>. USE DEF threadVars, sharedVars, history
<1>0. ThreadType
  BY DEF TypeOK, ThreadType
<1>1. PollThread \in Threads
  BY DEF Threads
<1>2. ASSUME NEW t \in Threads, NEW n \in Nodes, NEW r \in SUBSET Ready, SetReadiness(t, n, r) PROVE NoLostReadiness'
  <2>1. Others(t) /\ pc[t] = "idle" /\ UNCHANGED queued /\ (r # {} => pc'[t] = "cas_queued" /\ node'[t] = n)
    BY <1>0, <1>2, StoreEffect DEF SetReadiness, StoreEvents
  <2>2. \A m \in Nodes : owed'[m] = owed[m] \/ (m = n /\ pc'[t] = "cas_queued" /\ node'[t] = n)
    BY <1>2, <2>1 DEF SetReadiness, StoreEvents, TypeOK
  <2>. QED
    BY <2>1, <2>2, QueueReadiness
<1>3. ASSUME NEW t \in Threads, NEW u \in Threads, NEW n \in Nodes, SetReadinessClone(t, u, n) PROVE NoLostReadiness'
  BY <1>3 DEF SetReadinessClone, NoLostReadiness, AboutToQueue, AboutToReread
<1>4. ASSUME NEW t \in Threads, NEW n \in Nodes, SetReadinessDrop(t, n) PROVE NoLostReadiness'
  <2>1. Others(t) /\ pc[t] = "idle" /\ UNCHANGED <<queued, owed>>
    BY <1>0, <1>1, <1>4, ReleaseEffect DEF SetReadinessDrop
  <2>. QED
    BY <1>1, <2>1, KeepReadiness
<1>5. ASSUME NEW t \in Threads, NEW u \in Threads, NEW n \in Nodes, RegistrationSend(t, u, n) PROVE NoLostReadiness'
  BY <1>5 DEF RegistrationSend, NoLostReadiness, AboutToQueue, AboutToReread
<1>6. ASSUME NEW t \in Threads, NEW n \in Nodes, RegistrationDrop(t, n) PROVE NoLostReadiness'
  <2>1. Others(t) /\ pc[t] = "idle" /\ UNCHANGED <<queued, owed>>
    BY <1>0, <1>1, <1>6, ReleaseEffect DEF RegistrationDrop
  <2>. QED
    BY <1>1, <2>1, KeepReadiness
<1>7. ASSUME NEW n \in Nodes, NEW i \in InterestChoices, NEW o \in OptChoices, RegistrationNew(n, i, o) PROVE NoLostReadiness'
  <2>1. Others(PollThread) /\ pc[PollThread] = "idle"
    BY <1>7 DEF RegistrationNew, Others
  <2>2. /\ \A m \in Nodes \ {n} : owed'[m] = owed[m] /\ queued'[m] = queued[m]
        /\ ~owed'[n]
    BY <1>7 DEF RegistrationNew, TypeOK
  <2>. QED
    BY <1>1, <2>1, <2>2, SettleReadiness
<1>8. ASSUME NEW n \in Nodes, NEW i \in InterestChoices, NEW o \in OptChoices, RegistrationUpdate(n, i, o) PROVE NoLostReadiness'
  <2>0. pc[PollThread] = "idle" /\ UNCHANGED queued
    BY <1>8 DEF RegistrationUpdate
  <2>1. CASE events[n] = {}
    <3>1. Others(PollThread)
      BY <1>0, <1>1, <1>8, <2>1, EnterEffect DEF RegistrationUpdate, Leave
    <3>2. owed \in [Nodes -> BOOLEAN]
      BY DEF TypeOK
    <3>3. UNCHANGED owed
      BY <1>8, <2>1, <3>2 DEF RegistrationUpdate
    <3>. QED
      BY <1>1, <2>0, <3>1, <3>3, KeepReadiness
  <2>2. CASE events[n] # {}
    <3>1. Others(PollThread) /\ pc'[PollThread] = "cas_queued" /\ node'[PollThread] = n
      BY <1>0, <1>1, <1>8, <2>2, EnterEffect DEF RegistrationUpdate
    <3>2. \A m \in Nodes : owed'[m] = owed[m] \/ m = n
      BY <1>8 DEF RegistrationUpdate, TypeOK
    <3>. QED
      BY <1>1, <2>0, <3>1, <3>2, QueueReadiness
  <2>. QED
    BY <2>1, <2>2
<1>9. ASSUME NEW t \in Threads, StoreDrop(t) PROVE NoLostReadiness'
  <2>0. pc[t] = "store_drop" /\ node[t] \in Nodes
    BY <1>9 DEF StoreDrop, ThreadInv, LocalInv, NodeSteps
  <2>1. Others(t) /\ UNCHANGED queued /\ pc'[t] = "cas_queued" /\ node'[t] = node[t]
    BY <1>0, <1>9, <2>0, StoreEffect DEF StoreDrop, StoreEvents
  <2>2. \A m \in Nodes : owed'[m] = owed[m] \/ m = node[t]
    BY <1>9 DEF StoreDrop, StoreEvents, TypeOK
  <2>. QED
    BY <2>0, <2>1, <2>2, QueueReadiness
<1>10. ASSUME NEW t \in Threads, CasQueued(t) PROVE NoLostReadiness'
  \* Won or lost, the flag of the node is set.
  <2>0. pc[t] = "cas_queued" /\ node[t] \in Nodes /\ UNCHANGED owed
    BY <1>10 DEF CasQueued, ThreadInv, LocalInv, NodeSteps
  <2>1. Others(t)
    <3>1. CASE queued[node[t]] = 0
      BY <1>0, <1>10, <3>1, EnterEffect DEF CasQueued
    <3>2. CASE queued[node[t]] # 0
      BY <1>0, <1>10, <3>2, ReturnEffect DEF CasQueued
    <3>. QED
      BY <3>1, <3>2
  <2>2. /\ queued'[node[t]] = 1
        /\ \A m \in Nodes \ {node[t]} : queued'[m] = queued[m]
    <3>1. queued[node[t]] \in {0, 1} /\ queued \in [Nodes -> {0, 1}]
      BY <2>0 DEF TypeOK
    <3>2. (queued[node[t]] = 0 /\ queued' = [queued EXCEPT ![node[t]] = 1]) \/ (queued[node[t]] # 0 /\ queued' = queued)
      BY <1>10 DEF CasQueued
    <3>. QED
      BY <2>0, <3>1, <3>2
  <2>. QED
    BY <2>0, <2>1, <2>2, SettleReadiness
<1>11. ASSUME NEW t \in Threads, LoadHead(t) PROVE NoLostReadiness'
  <2>1. Others(t) /\ pc[t] = "load_head" /\ UNCHANGED <<queued, owed>>
    BY <1>0, <1>1, <1>11, GotoEffect DEF LoadHead
  <2>. QED
    BY <1>1, <2>1, KeepReadiness
<1>12. ASSUME NEW t \in Threads, CasHead(t) PROVE NoLostReadiness'
  <2>1. pc[t] = "cas_head" /\ UNCHANGED <<queued, owed>>
    BY <1>12 DEF CasHead
  <2>2. Others(t)
    <3>1. CASE head = cur[t]
      BY <1>0, <1>12, <3>1, ReturnEffect DEF CasHead
    <3>2. CASE head # cur[t]
      BY <1>12, <3>2 DEF CasHead, Others
    <3>. QED
      BY <3>1, <3>2
  <2>. QED
    BY <2>1, <2>2, KeepReadiness
<1>13. ASSUME NEW t \in Threads, Wakeup(t) PROVE NoLostReadiness'
  <2>1. Others(t) /\ pc[t] = "wakeup" /\ UNCHANGED <<queued, owed>>
    BY <1>0, <1>1, <1>13, GotoEffect DEF Wakeup
  <2>. QED
    BY <1>1, <2>1, KeepReadiness
<1>14. CASE PollStart
  <2>1. Others(PollThread) /\ pc[PollThread] = "idle" /\ UNCHANGED <<queued, owed>>
    BY <1>0, <1>1, <1>14, GotoEffect DEF PollStart
  <2>. QED
    BY <1>1, <2>1, KeepReadiness
<1>15. CASE PrepareForSleep
  <2>1. Others(PollThread) /\ pc[PollThread] = "prepare" /\ UNCHANGED <<queued, owed>>
    BY <1>0, <1>1, <1>15, GotoEffect DEF PrepareForSleep
  <2>. QED
    BY <1>1, <2>1, KeepReadiness
<1>16. CASE SelectAwoken
  <2>1. Others(PollThread) /\ pc[PollThread] = "select" /\ UNCHANGED <<queued, owed>>
    BY <1>0, <1>1, <1>16, GotoEffect DEF SelectAwoken
  <2>. QED
    BY <1>1, <2>1, KeepReadiness
<1>17. CASE SelectOther
  <2>1. Others(PollThread) /\ pc[PollThread] = "select" /\ UNCHANGED <<queued, owed>>
    BY <1>0, <1>1, <1>17, GotoEffect DEF SelectOther
  <2>. QED
    BY <1>1, <2>1, KeepReadiness
<1>18. CASE SelectInterrupted
  <2>1. Others(PollThread) /\ pc[PollThread] = "select" /\ UNCHANGED <<queued, owed>>
    BY <1>0, <1>1, <1>18, GotoEffect DEF SelectInterrupted
  <2>. QED
    BY <1>1, <2>1, KeepReadiness
<1>19. CASE Cleanup
  <2>1. Others(PollThread) /\ pc[PollThread] = "cleanup" /\ UNCHANGED <<queued, owed>>
    BY <1>0, <1>1, <1>19, GotoEffect DEF Cleanup
  <2>. QED
    BY <1>1, <2>1, KeepReadiness
<1>20. CASE TakeReady
  <2>1. Others(PollThread) /\ pc[PollThread] = "take" /\ UNCHANGED <<queued, owed>>
    BY <1>0, <1>1, <1>20, GotoEffect DEF TakeReady
  <2>. QED
    BY <1>1, <2>1, KeepReadiness
<1>21. CASE NextNode
  <2>1. Others(PollThread) /\ pc[PollThread] = "next" /\ UNCHANGED <<queued, owed>>
    BY <1>0, <1>1, <1>21, EnterEffect DEF NextNode
  <2>. QED
    BY <1>1, <2>1, KeepReadiness
<1>22. CASE PollReturn
  <2>1. Others(PollThread) /\ pc[PollThread] = "next" /\ UNCHANGED <<queued, owed>>
    BY <1>0, <1>1, <1>22, GotoEffect DEF PollReturn
  <2>. QED
    BY <1>1, <2>1, KeepReadiness
<1>23. CASE LoadEvents
  <2>0. pc[PollThread] = "load_events" /\ node[PollThread] \in Nodes
    BY <1>1, <1>23 DEF LoadEvents, ThreadInv, LocalInv, NodeSteps
  <2>1. Others(PollThread)
    BY <1>0, <1>1, <1>23, GotoEffect DEF LoadEvents
  <2>2. \A m \in Nodes \ {node[PollThread]} : owed'[m] = owed[m] /\ queued'[m] = queued[m]
    BY <1>23 DEF LoadEvents, ReadEvents, TypeOK
  <2>3. ~owed'[node[PollThread]]
    BY <1>23, <2>0 DEF LoadEvents, ReadEvents, TypeOK
  <2>. QED
    BY <1>1, <2>0, <2>1, <2>2, <2>3, SettleReadiness
<1>24. CASE DecideDrop
  <2>1. Others(PollThread) /\ pc[PollThread] = "decide" /\ UNCHANGED <<queued, owed>>
    BY <1>0, <1>1, <1>24, GotoEffect DEF DecideDrop
  <2>. QED
    BY <1>1, <2>1, KeepReadiness
<1>25. CASE Dequeue
  <2>0. pc[PollThread] = "decide" /\ node[PollThread] \in Nodes
    BY <1>1, <1>25 DEF Dequeue, ThreadInv, LocalInv, NodeSteps
  \* The flag was reset: poll is about to read the events again.
  <2>1. CASE queued[node[PollThread]] = lq
    <3>1. Others(PollThread) /\ pc'[PollThread] = "reread" /\ node'[PollThread] = node[PollThread]
      BY <1>0, <1>1, <1>25, <2>1, GotoEffect DEF Dequeue
    <3>2. \A m \in Nodes \ {node[PollThread]} : owed'[m] = owed[m] /\ queued'[m] = queued[m]
      BY <1>25 DEF Dequeue, TypeOK
    <3>. QED
      BY <1>1, <2>0, <3>1, <3>2, SettleReadiness DEF AboutToReread
  <2>2. CASE queued[node[PollThread]] # lq
    <3>1. Others(PollThread)
      BY <1>0, <1>1, <1>25, GotoEffect DEF Dequeue
    <3>2. UNCHANGED <<queued, owed>>
      BY <1>25, <2>2 DEF Dequeue, TypeOK
    <3>. QED
      BY <1>1, <2>0, <3>1, <3>2, KeepReadiness
  <2>. QED
    BY <2>1, <2>2
<1>26. CASE Reread
  <2>0. pc[PollThread] = "reread" /\ node[PollThread] \in Nodes
    BY <1>1, <1>26 DEF Reread, ThreadInv, LocalInv, NodeSteps
  <2>1. Others(PollThread)
    BY <1>0, <1>1, <1>26, GotoEffect DEF Reread
  <2>2. \A m \in Nodes \ {node[PollThread]} : owed'[m] = owed[m] /\ queued'[m] = queued[m]
    BY <1>26 DEF Reread, ReadEvents, TypeOK
  <2>3. ~owed'[node[PollThread]]
    BY <1>26, <2>0 DEF Reread, ReadEvents, TypeOK
  <2>. QED
    BY <1>1, <2>0, <2>1, <2>2, <2>3, SettleReadiness
<1>27. CASE Requeue
  <2>1. Others(PollThread) /\ pc[PollThread] = "decide" /\ UNCHANGED <<queued, owed>>
    BY <1>0, <1>1, <1>27, GotoEffect DEF Requeue
  <2>. QED
    BY <1>1, <2>1, KeepReadiness
<1>28. CASE ProcessDrop
  <2>1. Others(PollThread) /\ pc[PollThread] = "process" /\ UNCHANGED <<queued, owed>>
    BY <1>0, <1>1, <1>28, EnterEffect DEF ProcessDrop, Continue, Leave
  <2>. QED
    BY <1>1, <2>1, KeepReadiness
<1>29. CASE ProcessEvent
  <2>1. Others(PollThread) /\ pc[PollThread] = "process" /\ UNCHANGED <<queued, owed>>
    BY <1>0, <1>1, <1>29, EnterEffect DEF ProcessEvent, Continue, Leave
  <2>. QED
    BY <1>1, <2>1, KeepReadiness
<1>30. CASE UNCHANGED vars
  BY <1>30 DEF vars, NoLostReadiness, AboutToQueue, AboutToReread
<1>. QED
  BY <1>2, <1>3, <1>4, <1>5, <1>6, <1>7, <1>8, <1>9, <1>10, <1>11, <1>12, <1>13, <1>14, <1>15,
     <1>16, <1>17, <1>18, <1>19, <1>20, <1>21, <1>22, <1>23, <1>24, <1>25, <1>26, <1>27, <1>28,
     <1>29, <1>30
  DEF Next, Call, Step, Register, PollStep

=============================================================================
