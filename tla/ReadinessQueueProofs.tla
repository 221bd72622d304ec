------------------------ MODULE ReadinessQueueProofs ------------------------
(***************************************************************************)
(* The theorems about ReadinessQueue: the reference counts, what poll      *)
(* reports, and what follows from the lemmas on control and on the lists.  *)
(***************************************************************************)
EXTENDS ReadinessQueueLists, ReadinessQueueRefinement, FiniteSetTheorems

-----------------------------------------------------------------------------
(* ref_count is the number of handles.                                     *)

\* Most of the steps below are first-order: Zenon is asked before the SMT solver.
USE ZenonT(8), SMTT(20)

\* The handle count after RegistrationInner::clone and RegistrationInner::drop.
LEMMA HandleCount ==
  ASSUME NEW H \in SUBSET Threads, NEW t \in Threads
  PROVE  /\ IsFiniteSet(H)
         /\ Cardinality(H) \in Nat
         /\ t \notin H => Cardinality(H \cup {t}) = Cardinality(H) + 1
         /\ t \in H => Cardinality(H) >= 1 /\ Cardinality(H \ {t}) = Cardinality(H) - 1
         /\ Cardinality({t}) = 1
<1>1. IsFiniteSet(Threads)
  BY ThreadsAssumption, FS_AddElement DEF Threads
<1>2. IsFiniteSet(H)
  BY <1>1, FS_Subset
<1>3. Cardinality(H) \in Nat
  BY <1>2, FS_CardinalityType
<1>4. ASSUME t \notin H PROVE Cardinality(H \cup {t}) = Cardinality(H) + 1
  BY <1>2, <1>4, FS_AddElement
<1>5. ASSUME t \in H PROVE Cardinality(H) >= 1 /\ Cardinality(H \ {t}) = Cardinality(H) - 1
  <2>1. Cardinality(H) # 0
    BY <1>2, <1>5, FS_EmptySet
  <2>2. Cardinality(H \ {t}) = Cardinality(H) - 1
    BY <1>2, <1>5, FS_RemoveElement
  <2>. QED
    BY <1>3, <2>1, <2>2
<1>6. Cardinality({t}) = 1
  BY FS_Singleton
<1>. QED
  BY <1>2, <1>3, <1>4, <1>5, <1>6

LEMMA RefStep == TypeOK /\ ThreadInv /\ RefInv /\ [Next]_vars => RefInv' /\ refs' \in [Nodes -> Nat]
<1>. SUFFICES ASSUME TypeOK, ThreadInv, RefInv, [Next]_vars
              PROVE  RefInv' /\ refs' \in [Nodes -> Nat]
  OBVIOUS
<1>1. ASSUME NEW n \in Nodes, NEW i \in InterestChoices, NEW o \in OptChoices, RegistrationNew(n, i, o)
      PROVE  RefInv' /\ refs' \in [Nodes -> Nat]
  <2>1. Cardinality({PollThread}) = 1
    BY FS_Singleton
  <2>2. PollThread # NULL
    BY ThreadsAssumption DEF Threads
  <2>. QED
    BY <1>1, <2>1, <2>2 DEF RegistrationNew, TypeOK, RefInv
<1>2. ASSUME NEW t \in Threads, NEW u \in Threads, NEW n \in Nodes, SetReadinessClone(t, u, n)
      PROVE  RefInv' /\ refs' \in [Nodes -> Nat]
  <2>1. handles[n] \in SUBSET Threads
    BY DEF TypeOK
  <2>2. Cardinality(handles[n]) \in Nat /\ Cardinality(handles[n] \cup {u}) = Cardinality(handles[n]) + 1
    BY <1>2, <2>1, HandleCount DEF SetReadinessClone
  <2>. QED
    BY <1>2, <2>2 DEF SetReadinessClone, TypeOK, RefInv
<1>3. ASSUME NEW t \in Threads, NEW n \in Nodes, SetReadinessDrop(t, n)
      PROVE  RefInv' /\ refs' \in [Nodes -> Nat]
  <2>1. handles[n] \in SUBSET Threads
    BY DEF TypeOK
  <2>2. /\ Cardinality(handles[n]) \in Nat /\ Cardinality(handles[n]) >= 1
        /\ Cardinality(handles[n] \ {t}) = Cardinality(handles[n]) - 1
    BY <1>3, <2>1, HandleCount DEF SetReadinessDrop
  <2>. QED
    BY <1>3, <2>2 DEF SetReadinessDrop, ReleaseRef, TypeOK, RefInv
<1>4. ASSUME NEW t \in Threads, NEW n \in Nodes, RegistrationDrop(t, n)
      PROVE  RefInv' /\ refs' \in [Nodes -> Nat]
  <2>1. handles[n] \in SUBSET Threads /\ t # NULL
    BY ThreadsAssumption DEF TypeOK
  <2>2. Cardinality(handles[n]) \in Nat
    BY <2>1, HandleCount
  <2>. QED
    BY <1>4, <2>1, <2>2 DEF RegistrationDrop, ReleaseRef, TypeOK, RefInv
<1>5. ASSUME NEW t \in Threads, NEW u \in Threads, NEW n \in Nodes, RegistrationSend(t, u, n)
      PROVE  RefInv' /\ refs' \in [Nodes -> Nat]
  BY <1>5, ThreadsAssumption DEF RegistrationSend, TypeOK, RefInv
<1>6. ASSUME UNCHANGED <<refs, handles, regOwner>>
      PROVE  RefInv' /\ refs' \in [Nodes -> Nat]
  BY <1>6 DEF TypeOK, RefInv
<1>7. ASSUME NEW t \in Threads, Step(t) PROVE UNCHANGED <<refs, handles, regOwner>>
  BY <1>7 DEF Step, StoreDrop, StoreEvents, CasQueued, LoadHead, CasHead, Wakeup, ownerVars
<1>8. PollStep => UNCHANGED <<refs, handles, regOwner>>
  BY DEF PollStep, PrepareForSleep, SelectAwoken, Cleanup, TakeReady, NextNode, PollReturn, LoadEvents,
         DecideDrop, Dequeue, Reread, Requeue, ProcessDrop, ProcessEvent, ownerVars
<1>9. PollStart \/ SelectOther \/ SelectInterrupted => UNCHANGED <<refs, handles, regOwner>>
  BY DEF PollStart, SelectOther, SelectInterrupted, ownerVars
<1>10. ASSUME NEW t \in Threads, Call(t) PROVE RefInv' /\ refs' \in [Nodes -> Nat]
  <2>1. ASSUME NEW n \in Nodes, NEW r \in SUBSET Ready, SetReadiness(t, n, r)
        PROVE  UNCHANGED <<refs, handles, regOwner>>
    BY <2>1 DEF SetReadiness, StoreEvents, ownerVars
  <2>. QED
    BY <1>2, <1>3, <1>4, <1>5, <1>6, <1>10, <2>1 DEF Call
<1>11. ASSUME Register PROVE RefInv' /\ refs' \in [Nodes -> Nat]
  <2>1. ASSUME NEW n \in Nodes, NEW i \in InterestChoices, NEW o \in OptChoices, RegistrationUpdate(n, i, o)
        PROVE  UNCHANGED <<refs, handles, regOwner>>
    BY <2>1 DEF RegistrationUpdate, ownerVars
  <2>. QED
    BY <1>1, <1>6, <1>11, <2>1 DEF Register
<1>12. UNCHANGED vars => UNCHANGED <<refs, handles, regOwner>>
  BY DEF vars, ownerVars
<1>. QED
  BY <1>6, <1>7, <1>8, <1>9, <1>10, <1>11, <1>12 DEF Next

-----------------------------------------------------------------------------
(* The theorems.                                                           *)

LEMMA InitInv == Init => IInv
<1>. SUFFICES ASSUME Init PROVE IInv
  OBVIOUS
<1>1. PollThread \in Threads
  BY DEF Threads
<1>2. Cardinality({}) = 0
  BY FS_EmptySet
<1>3. TypeOK
  <2>1. pipe \in 0..PipeCap
    BY PipeAssumption DEF Init
  <2>2. refs \in [Nodes -> Nat] /\ queued \in [Nodes -> {0, 1}]
    BY DEF Init
  <2>. QED
    BY <2>1, <2>2 DEF Init, TypeOK
<1>4. ThreadInv
  BY DEF Init, ThreadInv, LocalInv, PollSteps, NodeSteps, LoopSteps
<1>5. RefInv
  BY <1>2 DEF Init, RefInv
<1>6. SleepInv /\ EdgeInv /\ NoLostWakeup
  BY <1>1, PointersAssumption DEF Init, SleepInv, EdgeInv, NoLostWakeup, LoopSteps
<1>7. NoLostReadiness
  BY DEF Init, NoLostReadiness
<1>. QED
  BY <1>3, <1>4, <1>5, <1>6, <1>7 DEF IInv, ControlInv

\* Every step of every thread preserves the inductive invariant.
THEOREM Inductive == Spec => []IInv
<1>1. IInv /\ [Next]_vars => IInv'
  BY TypeStep, RefStep, ControlStep, ReadinessStep DEF IInv, ControlInv
<1>. QED
  BY InitInv, <1>1, PTL DEF Spec

\* The state of the queue is well-typed; in particular ref_count never wraps
\* below zero (RegistrationInner::drop).
THEOREM TypeCorrect == Spec => []TypeOK
<1>1. IInv => TypeOK
  BY DEF IInv
<1>. QED
  BY Inductive, <1>1, PTL

\* Poll::poll never sleeps in the selector over a non-empty readiness queue
\* without a wakeup sent or about to be sent, whatever the number of threads that
\* set readiness and however small the awakener's pipe.
THEOREM PollIsWoken == Spec => []NoLostWakeup
<1>1. IInv => NoLostWakeup
  BY DEF IInv, ControlInv
<1>. QED
  BY Inductive, <1>1, PTL

\* No readiness stored by set_readiness, and no re-registration of a ready node,
\* is missed by the loop of ReadinessQueue::poll that resets the queued flag.
THEOREM ReadinessIsKept == Spec => []NoLostReadiness
<1>1. IInv => NoLostReadiness
  BY DEF IInv
<1>. QED
  BY Inductive, <1>1, PTL

\* The debug_assert of ReadinessQueue::poll holds: while it processes nodes the
\* sleep token is not in the queue.
THEOREM RequeueAssert == Spec => []RequeueNeedsNoWakeup
<1>1. IInv => RequeueNeedsNoWakeup
  BY DEF IInv, ControlInv, SleepInv, RequeueNeedsNoWakeup, LoopSteps
<1>. QED
  BY Inductive, <1>1, PTL

-----------------------------------------------------------------------------
(* ReadinessQueue::poll reports a registration only while it is armed, when *)
(* Registrations stay on the thread that owns the Poll.                     *)

\* A disarmed registration has no interest, and what poll holds in evs it holds
\* for an armed one, from the read of the events to the end of the loop body.
ArmedInv ==
  /\ \A n \in Nodes : ~armed[n] => interest[n] = {}
  /\ evs \ {Drop} # {} => op[PollThread] = "poll" /\ armed[node[PollThread]]

\* A step that leaves the registrations, evs and the loop body of poll alone.
LEMMA KeepArmed ==
  ASSUME ArmedInv, UNCHANGED <<armed, interest, evs>>,
         op[PollThread] = "poll" => op'[PollThread] = "poll" /\ node'[PollThread] = node[PollThread]
  PROVE  ArmedInv'
BY DEF ArmedInv

\* A step of another thread, or one of poll's that only moves its pc.
LEMMA MoveArmed ==
  ASSUME ArmedInv, UNCHANGED <<armed, interest, evs>>, NEW t \in Threads, Others(t),
         t = PollThread => op[t] # "poll" \/ (op'[t] = "poll" /\ node'[t] = node[t])
  PROVE  ArmedInv'
<1>1. CASE t = PollThread
  BY <1>1, KeepArmed
<1>2. CASE t # PollThread
  BY <1>2, KeepArmed DEF Others, Threads
<1>. QED
  BY <1>1, <1>2

\* poll reads the events, masked by the interest.
LEMMA ReadArmed ==
  ASSUME ArmedInv, op[PollThread] = "poll", node[PollThread] \in Nodes, ReadEvents(node[PollThread]),
         UNCHANGED <<armed, interest>>,
         op'[PollThread] = op[PollThread], node'[PollThread] = node[PollThread]
  PROVE  ArmedInv'
<1>1. evs' \ {Drop} # {} => interest[node[PollThread]] # {}
  BY DEF ReadEvents, PollEvents
<1>. QED
  BY <1>1 DEF ArmedInv

LEMMA ArmedStep ==
  ASSUME RegThreads \subseteq {PollThread}
  PROVE  TypeOK /\ ThreadInv /\ ArmedInv /\ [Next]_vars => ArmedInv'
<1>. SUFFICES ASSUME TypeOK, ThreadInv, ArmedInv, [Next]_vars PROVE ArmedInv'
  OBVIOUS
<1>. USE DEF threadVars, sharedVars, pollVars, dataVars, history
<1>0. ThreadType
  BY DEF TypeOK, ThreadType
<1>1. PollThread \in Threads
  BY DEF Threads
\* Outside the loop body of poll nothing is held in evs.
<1>a. \A t \in Threads : pc[t] \in {"idle", "store_drop", "cas_queued", "wakeup", "prepare", "select", "cleanup", "take", "next"}
        => op[t] # "poll"
  BY DEF ThreadInv, LocalInv, LoopSteps
<1>b. \A t \in Threads : pc[t] \in LoopSteps => t = PollThread /\ op[t] = "poll" /\ node[t] \in Nodes
  BY DEF ThreadInv, LocalInv, LoopSteps, PollSteps, NodeSteps
<1>2. ASSUME NEW t \in Threads, NEW n \in Nodes, NEW r \in SUBSET Ready, SetReadiness(t, n, r) PROVE ArmedInv'
  <2>1. Others(t) /\ pc[t] = "idle" /\ UNCHANGED <<armed, interest, evs>>
    BY <1>0, <1>2, StoreEffect DEF SetReadiness, StoreEvents
  <2>. QED
    BY <1>a, <2>1, MoveArmed
<1>3. ASSUME NEW t \in Threads, NEW u \in Threads, NEW n \in Nodes, SetReadinessClone(t, u, n) PROVE ArmedInv'
  BY <1>3, KeepArmed DEF SetReadinessClone
<1>4. ASSUME NEW t \in Threads, NEW n \in Nodes, SetReadinessDrop(t, n) PROVE ArmedInv'
  <2>1. Others(t) /\ pc[t] = "idle" /\ UNCHANGED <<armed, interest, evs>>
    BY <1>0, <1>1, <1>4, ReleaseEffect DEF SetReadinessDrop
  <2>. QED
    BY <1>a, <2>1, MoveArmed
<1>5. ASSUME NEW t \in Threads, NEW u \in Threads, NEW n \in Nodes, RegistrationSend(t, u, n) PROVE ArmedInv'
  BY <1>5, KeepArmed DEF RegistrationSend
<1>6. ASSUME NEW t \in Threads, NEW n \in Nodes, RegistrationDrop(t, n) PROVE ArmedInv'
  <2>1. op[PollThread] # "poll"
    BY <1>1, <1>6, <1>a DEF RegistrationDrop
  <2>2. evs' \ {Drop} = {}
    BY <1>6, <2>1 DEF RegistrationDrop, ArmedInv
  <2>3. \A m \in Nodes : ~armed'[m] => interest'[m] = {}
    BY <1>6 DEF RegistrationDrop, ArmedInv, TypeOK
  <2>. QED
    BY <2>2, <2>3 DEF ArmedInv
<1>7. ASSUME NEW n \in Nodes, NEW i \in InterestChoices, NEW o \in OptChoices, RegistrationNew(n, i, o) PROVE ArmedInv'
  <2>1. op[PollThread] # "poll"
    BY <1>1, <1>7, <1>a DEF RegistrationNew
  <2>2. evs' \ {Drop} = {}
    BY <1>7, <2>1 DEF RegistrationNew, ArmedInv
  <2>3. \A m \in Nodes : ~armed'[m] => interest'[m] = {}
    BY <1>7 DEF RegistrationNew, ArmedInv, TypeOK
  <2>. QED
    BY <2>2, <2>3 DEF ArmedInv
<1>8. ASSUME NEW n \in Nodes, NEW i \in InterestChoices, NEW o \in OptChoices, RegistrationUpdate(n, i, o) PROVE ArmedInv'
  <2>1. op[PollThread] # "poll"
    BY <1>1, <1>8, <1>a DEF RegistrationUpdate
  <2>2. evs' \ {Drop} = {}
    BY <1>8, <2>1 DEF RegistrationUpdate, ArmedInv
  <2>3. \A m \in Nodes : ~armed'[m] => interest'[m] = {}
    BY <1>8 DEF RegistrationUpdate, ArmedInv, TypeOK
  <2>. QED
    BY <2>2, <2>3 DEF ArmedInv
<1>9. ASSUME NEW t \in Threads, StoreDrop(t) PROVE ArmedInv'
  <2>0. pc[t] = "store_drop" /\ node[t] \in Nodes
    BY <1>9 DEF StoreDrop, ThreadInv, LocalInv, NodeSteps
  <2>1. Others(t) /\ UNCHANGED <<armed, interest, evs>>
    BY <1>0, <1>9, <2>0, StoreEffect DEF StoreDrop, StoreEvents
  <2>. QED
    BY <1>a, <2>0, <2>1, MoveArmed
<1>10. ASSUME NEW t \in Threads, CasQueued(t) PROVE ArmedInv'
  <2>0. pc[t] = "cas_queued" /\ UNCHANGED <<armed, interest, evs>>
    BY <1>10 DEF CasQueued
  <2>1. Others(t)
    <3>1. CASE queued[node[t]] = 0
      BY <1>0, <1>10, <3>1, EnterEffect DEF CasQueued
    <3>2. CASE queued[node[t]] # 0
      BY <1>0, <1>10, <3>2, ReturnEffect DEF CasQueued
    <3>. QED
      BY <3>1, <3>2
  <2>. QED
    BY <1>a, <2>0, <2>1, MoveArmed
<1>11. ASSUME NEW t \in Threads, LoadHead(t) PROVE ArmedInv'
  <2>1. Others(t) /\ op'[t] = op[t] /\ node'[t] = node[t] /\ UNCHANGED <<armed, interest, evs>>
    BY <1>0, <1>11, GotoEffect DEF LoadHead
  <2>. QED
    BY <2>1, MoveArmed
<1>12. ASSUME NEW t \in Threads, CasHead(t) PROVE ArmedInv'
  <2>1. UNCHANGED <<armed, interest, evs>>
    BY <1>12 DEF CasHead
  <2>2. CASE head = cur[t]
    <3>1. Others(t) /\ (op[t] = "poll" => op'[t] = "poll" /\ node'[t] = node[t])
      BY <1>0, <1>12, <2>2, ReturnEffect DEF CasHead
    <3>. QED
      BY <2>1, <3>1, MoveArmed
  <2>3. CASE head # cur[t]
    BY <1>12, <2>1, <2>3, KeepArmed DEF CasHead
  <2>. QED
    BY <2>2, <2>3
<1>13. ASSUME NEW t \in Threads, Wakeup(t) PROVE ArmedInv'
  BY <1>13, KeepArmed DEF Wakeup
<1>14. CASE PollStart \/ PrepareForSleep \/ SelectAwoken \/ SelectOther \/ SelectInterrupted \/ Cleanup \/ TakeReady \/ PollReturn
  BY <1>14, KeepArmed DEF PollStart, PrepareForSleep, SelectAwoken, SelectOther, SelectInterrupted, Cleanup, TakeReady, PollReturn
<1>15. CASE NextNode
  <2>1. op[PollThread] # "poll" /\ UNCHANGED <<armed, interest, evs>>
    BY <1>1, <1>15, <1>a DEF NextNode
  <2>. QED
    BY <2>1, KeepArmed
<1>16. CASE LoadEvents
  BY <1>1, <1>16, <1>b, ReadArmed DEF LoadEvents, LoopSteps
<1>17. CASE Reread
  BY <1>1, <1>17, <1>b, ReadArmed DEF Reread, LoopSteps
<1>18. CASE DecideDrop \/ Dequeue \/ Requeue
  BY <1>18, KeepArmed DEF DecideDrop, Dequeue, Requeue
<1>19. CASE ProcessDrop
  <2>1. evs' = {} /\ UNCHANGED <<armed, interest>>
    BY <1>19 DEF ProcessDrop, Continue
  <2>. QED
    BY <2>1 DEF ArmedInv
<1>20. CASE ProcessEvent
  <2>1. evs' = {}
    BY <1>20 DEF ProcessEvent, Continue
  <2>2. node[PollThread] \in Nodes
    BY <1>1, <1>20, <1>b DEF ProcessEvent, LoopSteps
  <2>3. \A m \in Nodes : ~armed'[m] => interest'[m] = {}
    BY <1>20, <2>2 DEF ProcessEvent, ArmedInv, TypeOK
  <2>. QED
    BY <2>1, <2>3 DEF ArmedInv
<1>21. CASE UNCHANGED vars
  BY <1>21, KeepArmed DEF vars
<1>. QED
  BY <1>2, <1>3, <1>4, <1>5, <1>6, <1>7, <1>8, <1>9, <1>10, <1>11, <1>12, <1>13, <1>14, <1>15,
     <1>16, <1>17, <1>18, <1>19, <1>20, <1>21
  DEF Next, Call, Step, Register, PollStep

\* Whatever is registered, re-registered, made ready and dropped, and however many
\* nodes and setters there are, poll pushes an event of a registration only while it
\* is armed (the disable() of one-shot registrations in ReadinessQueue::poll, and of
\* Registration::deregister and drop), if Registrations are dropped on the thread of
\* the Poll.
THEOREM ArmedReports ==
  ASSUME RegThreads \subseteq {PollThread}
  PROVE  Spec => []ReportsOnlyArmed
<1>1. Init => ArmedInv
  BY DEF Init, ArmedInv
<1>2. IInv /\ ArmedInv /\ [Next]_vars => ArmedInv'
  BY ArmedStep DEF IInv, ControlInv
<1>3. ArmedInv => ReportsOnlyArmed
  BY DEF ArmedInv, ReportsOnlyArmed
<1>. QED
  BY Inductive, <1>1, <1>2, <1>3, PTL DEF Spec

-----------------------------------------------------------------------------
(* Ownership of the nodes, when the last handle of a node is dropped on the *)
(* thread that owns the Poll.                                               *)

\* A node with a Registration or a SetReadiness has a count of at least one.
LEMMA CountHolds == TypeOK /\ RefInv => CountInv
<1>. SUFFICES ASSUME TypeOK, RefInv, NEW n \in Nodes, handles[n] # {} \/ regOwner[n] # NULL
              PROVE  refs[n] # 0
  BY DEF CountInv
<1>1. handles[n] \in SUBSET Threads
  BY DEF TypeOK
<1>2. IsFiniteSet(handles[n]) /\ Cardinality(handles[n]) \in Nat
  <2>1. PollThread \in Threads
    BY DEF Threads
  <2>. QED
    BY <1>1, <2>1, HandleCount
<1>3. Cardinality(handles[n]) = 0 => handles[n] = {}
  BY <1>2, FS_EmptySet
<1>. QED
  BY <1>2, <1>3 DEF RefInv

LEMMA GoodHolds == IInv /\ ReturnInv /\ ListInv => Good
BY CountHolds DEF IInv, ControlInv, Good, TypeOK, ThreadType, NodeType, Links

LEMMA InitLists == Init => ReturnInv /\ ListInv
<1>. SUFFICES ASSUME Init PROVE ReturnInv /\ ListInv
  OBVIOUS
<1>0. PollThread \in Threads
  BY DEF Threads
<1>1. Listed = {} /\ Queue = {} /\ Batch = {}
  <2>1. head = NULL /\ ready = NULL /\ next \in Links
    BY DEF Init, Links
  <2>. QED
    BY <2>1, ReachNone, PointersAssumption DEF Listed, Queue, Batch, Chain
<1>2. /\ \A t \in Threads : pc[t] = "idle" /\ op[t] = "set_readiness"
      /\ alive = {} /\ ready = NULL
      /\ \A n \in Nodes : handles[n] = {} /\ regOwner[n] = NULL
  BY DEF Init
<1>3. \A t \in Threads : ~Holds(t)
  BY <1>2 DEF Holds
<1>4. ReturnInv /\ ShapeInv /\ DropInv
  BY <1>0, <1>1, <1>2 DEF ReturnInv, ShapeInv, DropInv
<1>5. HoldInv /\ LiveInv
  BY <1>0, <1>1, <1>2, <1>3 DEF HoldInv, ListedFlag, HeldFlag, OneHolder, FlagOwned, LinkOwned,
      LinkRead, LocalFlag, LiveInv, NodeSteps
<1>. QED
  BY <1>4, <1>5 DEF ListInv

\* Every step of every thread preserves the ownership of nodes and links.
THEOREM Ownership ==
  ASSUME LastDroppers \subseteq {PollThread}
  PROVE  Spec => [](IInv /\ ReturnInv /\ ListInv)
<1>1. IInv /\ ReturnInv /\ ListInv /\ [Next]_vars => ReturnInv' /\ ListInv'
  <2>. SUFFICES ASSUME IInv, ReturnInv, ListInv, [Next]_vars PROVE ReturnInv' /\ ListInv'
    OBVIOUS
  <2>1. Good
    BY GoodHolds
  <2>2. OwnerDropsLast
    BY DEF OwnerDropsLast
  <2>. QED
    BY <2>1, <2>2, ReturnStep, ListStep DEF Good
<1>. QED
  BY Inductive, InitLists, <1>1, PTL DEF Spec

\* No thread inside a call, no list and no handle refers to a node that
\* ReadinessQueue::poll has freed, for any number of nodes and setters.
THEOREM MemorySafety ==
  ASSUME LastDroppers \subseteq {PollThread}
  PROVE  Spec => []NoUseAfterFree
<1>1. IInv /\ ReturnInv /\ ListInv => NoUseAfterFree
  <2>1. LiveInv => \A t \in Threads : pc[t] \in SetSteps \ {"wakeup"} => node[t] \in alive
    BY DEF LiveInv, NodeSteps, SetSteps
  <2>2. LiveInv => Chain(head) \cup Chain(ready) \subseteq alive
    BY DEF LiveInv, Listed, Queue, Batch
  <2>3. LiveInv => {n \in Nodes : handles[n] # {} \/ regOwner[n] # NULL} \subseteq alive
    BY DEF LiveInv
  <2>. QED
    BY <2>1, <2>2, <2>3 DEF ListInv, NoUseAfterFree
<1>. QED
  BY Ownership, <1>1, PTL

\* A node without handles is on its way to be freed: the drop event of
\* RegistrationInner::drop is being stored, or is stored where poll will find it.
THEOREM Reclaimed ==
  ASSUME LastDroppers \subseteq {PollThread}
  PROVE  Spec => []DroppedNodeIsReclaimed
<1>1. IInv /\ ReturnInv /\ ListInv => DroppedNodeIsReclaimed
  <2>1. IInv => \A n \in alive : refs[n] = Cardinality(handles[n]) + (IF regOwner[n] = NULL THEN 0 ELSE 1)
    BY DEF IInv, RefInv, TypeOK
  <2>. QED
    BY <2>1 DEF ListInv, DropInv, DroppedNodeIsReclaimed
<1>. QED
  BY Ownership, <1>1, PTL

\* A thread has a node in its hand exactly when it holds it.
LEMMA HandsHold ==
  ASSUME HoldInv, NEW t \in Threads, NEW n
  PROVE  InHand(t, n) <=> Holds(t) /\ node[t] = n
BY DEF InHand, Holds, HoldInv, HeldFlag

\* At most one thread has a node in its hand.
LEMMA OneHand ==
  ASSUME HoldInv, NEW n
  PROVE  Cardinality({t \in Threads : InHand(t, n)}) <= 1
<1>. DEFINE hands == {t \in Threads : InHand(t, n)}
<1>1. CASE hands = {}
  <2>1. Cardinality(hands) = 0
    BY <1>1, FS_EmptySet
  <2>. QED
    BY <2>1
<1>2. CASE hands # {}
  <2>1. PICK t \in hands : TRUE
    BY <1>2
  <2>2. hands = {t}
    BY <2>1, HandsHold DEF HoldInv, OneHolder
  <2>3. Cardinality(hands) = 1
    BY <2>2, FS_Singleton
  <2>. QED
    BY <2>3
<1>. QED
  BY <1>1, <1>2

\* The queued flag is a lock on the node: a node whose flag is set is in one list
\* or in the hand of one thread, and a node whose flag is clear is in none
\* (queue_for_processing, ReadyList::next and the loop of ReadinessQueue::poll).
THEOREM FlagIsLock ==
  ASSUME LastDroppers \subseteq {PollThread}
  PROVE  Spec => []QueuedFlagIsOwnership
<1>1. IInv /\ ReturnInv /\ ListInv => QueuedFlagIsOwnership
  <2>. SUFFICES ASSUME IInv, ListInv PROVE QueuedFlagIsOwnership
    OBVIOUS
  <2>0. ShapeInv /\ HoldInv /\ alive \subseteq Nodes /\ next \in Links
    BY DEF ListInv, IInv, TypeOK, Links
  <2>1. Chain(head) \cap Chain(ready) = {} /\ Chain(head) \cup Chain(ready) = Listed
    BY <2>0 DEF ShapeInv, Queue, Batch, Listed
  <2>2. ASSUME NEW n \in alive
        PROVE  LET hands == {t \in Threads : InHand(t, n)}
                   listed == n \in Listed
               IN  /\ queued[n] = 1 <=> (listed \/ hands # {})
                   /\ listed => hands = {}
                   /\ Cardinality(hands) <= 1
    <3>1. queued[n] = 1 <=> n \in Listed \/ {t \in Threads : InHand(t, n)} # {}
      BY <2>0, HandsHold DEF HoldInv, ListedFlag, HeldFlag, FlagOwned
    <3>2. n \in Listed => {t \in Threads : InHand(t, n)} = {}
      BY <2>0, HandsHold DEF HoldInv, HeldFlag
    <3>3. Cardinality({t \in Threads : InHand(t, n)}) <= 1
      BY <2>0, OneHand
    <3>. QED
      BY <3>1, <3>2, <3>3
  <2>3. \A m, n \in alive :
          m # n /\ queued[m] = 1 /\ queued[n] = 1 /\ next[m] # NULL /\ next[m] = next[n]
            => \E t \in Threads : node[t] \in {m, n} /\ pc[t] = "cas_head"
    BY <2>0 DEF HoldInv, LinkOwned, ShapeInv, Links
  <2>. QED
    BY <2>1, <2>2, <2>3 DEF QueuedFlagIsOwnership
<1>. QED
  BY Ownership, <1>1, PTL

-----------------------------------------------------------------------------
(* The queue implements Readiness, under the same discipline of dropping.   *)

Reads == {"load_events", "decide", "reread"}

\* The drop event comes alone, in the node and in what poll has read of it, and
\* is stored once.  While poll has yet to read the events of a node for the last
\* time, it knows the options of the registration, or there is no interest left.
DropAlone == \A n \in Nodes : Drop \in events[n] => events[n] = {Drop}
SeenAlone == Drop \in evs => evs = {Drop}
StoredOnce == \A t \in Threads : pc[t] = "store_drop" => Drop \notin events[node[t]]
OptionsKnown == pc[PollThread] \in Reads => opt = opts[node[PollThread]] \/ interest[node[PollThread]] = {}

LookInv == DropAlone /\ SeenAlone /\ StoredOnce /\ OptionsKnown

\* A step that writes no events and no data.
LEMMA LookMove ==
  ASSUME LookInv, NEW t \in Threads, Others(t), UNCHANGED <<events, evs, opt, interest, opts>>,
         pc'[t] = "store_drop" => Drop \notin events[node'[t]],
         t = PollThread /\ pc'[t] \in Reads => pc[t] \in Reads /\ node'[t] = node[t]
  PROVE  LookInv'
<1>1. StoredOnce'
  BY DEF LookInv, StoredOnce, Others
<1>2. OptionsKnown'
  BY DEF LookInv, OptionsKnown, Others, Threads
<1>. QED
  BY <1>1, <1>2 DEF LookInv, DropAlone, SeenAlone

\* A step of poll within the loop body that may read the events of its node.
LEMMA LookRead ==
  ASSUME LookInv, node[PollThread] \in Nodes, UNCHANGED <<events, opt, interest, opts, node>>,
         evs' = evs \/ evs' = PollEvents(node[PollThread]),
         \A t \in Threads : pc'[t] = "store_drop" => pc[t] = "store_drop",
         pc'[PollThread] \in Reads => pc[PollThread] \in Reads
  PROVE  LookInv'
<1>1. SeenAlone'
  BY DEF LookInv, SeenAlone, DropAlone, PollEvents
<1>. QED
  BY <1>1 DEF LookInv, DropAlone, StoredOnce, OptionsKnown

\* A step that drops what poll had read.
LEMMA LookDone ==
  ASSUME LookInv, UNCHANGED events, evs' \in {evs, {}}, pc'[PollThread] \notin Reads,
         \A t \in Threads : pc'[t] = "store_drop" => pc[t] = "store_drop" /\ node'[t] = node[t]
  PROVE  LookInv'
BY DEF LookInv, DropAlone, SeenAlone, StoredOnce, OptionsKnown

\* A handle goes: the drop event is not there yet.
LEMMA LookRelease ==
  ASSUME Good, LookInv, NEW t \in Threads, NEW n \in Nodes, pc[t] = "idle",
         handles[n] # {} \/ regOwner[n] # NULL, ReleaseRef(t, n), UNCHANGED <<events, evs, opt>>,
         \A m \in Nodes : interest'[m] = {} \/ (interest'[m] = interest[m] /\ opts'[m] = opts[m])
  PROVE  LookInv'
<1>0. PollThread \in Threads
  BY DEF Threads
<1>1. Others(t) /\ (pc'[t] = "idle" \/ (pc'[t] = "store_drop" /\ node'[t] = n))
  BY ReleaseEffect DEF Good
<1>2. Drop \notin events[n]
  <2>1. n \in alive /\ refs[n] # 0
    BY DEF Good, CountInv, ListInv, LiveInv
  <2>. QED
    BY <2>1 DEF Good, ListInv, DropInv
<1>3. StoredOnce'
  BY <1>1, <1>2 DEF LookInv, StoredOnce, Others
<1>4. OptionsKnown'
  <2>1. CASE t = PollThread
    BY <1>1, <2>1 DEF OptionsKnown, Reads
  <2>2. CASE t # PollThread
    <3>1. pc'[PollThread] = pc[PollThread] /\ node'[PollThread] = node[PollThread]
      BY <1>0, <1>1, <2>2 DEF Others
    <3>2. pc[PollThread] \in Reads => node[PollThread] \in Nodes
      BY <1>0 DEF Good, ThreadInv, LocalInv, Reads, NodeSteps
    <3>. QED
      BY <3>1, <3>2 DEF LookInv, OptionsKnown
  <2>. QED
    BY <2>1, <2>2
<1>. QED
  BY <1>3, <1>4 DEF LookInv, DropAlone, SeenAlone

LEMMA LookCalls ==
  ASSUME TypeOK, Good, LookInv, NEW t \in Threads, Call(t) \/ Register
  PROVE  LookInv'
<1>. USE DEF threadVars, sharedVars, pollVars, dataVars, history
<1>0. PollThread \in Threads
  BY DEF Threads
<1>1. ASSUME NEW n \in Nodes, NEW r \in SUBSET Ready, SetReadiness(t, n, r) PROVE LookInv'
  <2>1. /\ Others(t) /\ pc[t] = "idle" /\ pc'[t] \in {"idle", "cas_queued"}
        /\ events' = [events EXCEPT ![n] = r] /\ UNCHANGED <<evs, opt, interest, opts>>
    BY <1>1, StoreEffect DEF SetReadiness, StoreEvents, Good
  <2>2. Drop \notin r
    BY ReadyAssumption
  <2>3. DropAlone'
    BY <2>1, <2>2 DEF LookInv, DropAlone, TypeOK
  <2>4. StoredOnce'
    <3>1. \A u \in Threads : pc'[u] = "store_drop" => pc[u] = "store_drop" /\ node'[u] = node[u] /\ node[u] \in Nodes
      BY <2>1 DEF Others, Good, ThreadInv, LocalInv, NodeSteps
    <3>. QED
      BY <2>1, <2>2, <3>1 DEF LookInv, StoredOnce, TypeOK
  <2>5. OptionsKnown'
    BY <1>0, <2>1 DEF LookInv, OptionsKnown, Others, Reads
  <2>. QED
    BY <2>1, <2>3, <2>4, <2>5 DEF LookInv, SeenAlone
<1>2. ASSUME NEW u \in Threads, NEW n \in Nodes, SetReadinessClone(t, u, n) \/ RegistrationSend(t, u, n) PROVE LookInv'
  <2>1. UNCHANGED <<pc, node, op, events, evs, opt, interest, opts>>
    BY <1>2 DEF SetReadinessClone, RegistrationSend
  <2>. QED
    BY <2>1 DEF LookInv, DropAlone, SeenAlone, StoredOnce, OptionsKnown
<1>3. ASSUME NEW n \in Nodes, SetReadinessDrop(t, n) PROVE LookInv'
  BY <1>3, LookRelease DEF SetReadinessDrop
<1>4. ASSUME NEW n \in Nodes, RegistrationDrop(t, n) PROVE LookInv'
  <2>1. \A m \in Nodes : interest'[m] = {} \/ (interest'[m] = interest[m] /\ opts'[m] = opts[m])
    BY <1>4 DEF RegistrationDrop, TypeOK
  <2>2. regOwner[n] # NULL
    BY <1>4, ThreadsAssumption DEF RegistrationDrop
  <2>. QED
    BY <1>4, <2>1, <2>2, LookRelease DEF RegistrationDrop
<1>5. ASSUME NEW n \in Nodes, NEW i \in InterestChoices, NEW o \in OptChoices, RegistrationNew(n, i, o) PROVE LookInv'
  <2>1. /\ pc[PollThread] = "idle" /\ events' = [events EXCEPT ![n] = {}]
        /\ UNCHANGED <<pc, node, evs, opt>>
    BY <1>5 DEF RegistrationNew
  <2>2. DropAlone' /\ StoredOnce'
    <3>1. \A u \in Threads : pc[u] = "store_drop" => node[u] \in Nodes
      BY DEF Good, ThreadInv, LocalInv, NodeSteps
    <3>. QED
      BY <2>1, <3>1 DEF LookInv, DropAlone, StoredOnce, TypeOK
  <2>. QED
    BY <2>1, <2>2 DEF LookInv, SeenAlone, OptionsKnown, Reads
<1>6. ASSUME NEW n \in Nodes, NEW i \in InterestChoices, NEW o \in OptChoices, RegistrationUpdate(n, i, o) PROVE LookInv'
  <2>1. pc[PollThread] = "idle" /\ UNCHANGED <<events, evs>>
    BY <1>6 DEF RegistrationUpdate
  <2>2. Others(PollThread) /\ pc'[PollThread] \in {"idle", "cas_queued"}
    <3>1. CASE events[n] # {}
      BY <1>0, <1>6, <3>1, EnterEffect DEF RegistrationUpdate, Good
    <3>2. CASE events[n] = {}
      BY <1>0, <1>6, <3>2, EnterEffect DEF RegistrationUpdate, Leave, Good
    <3>. QED
      BY <3>1, <3>2
  <2>. QED
    BY <2>1, <2>2, LookDone DEF Others, Reads
<1>. QED
  BY <1>1, <1>2, <1>3, <1>4, <1>5, <1>6 DEF Call, Register

LEMMA LookSteps ==
  ASSUME TypeOK, Good, LookInv, NEW t \in Threads, Step(t)
  PROVE  LookInv'
<1>. USE DEF threadVars, sharedVars, pollVars, dataVars, history, wakeVars
<1>0. ThreadType
  BY DEF Good
<1>1. CASE StoreDrop(t)
  <2>0. node[t] \in Nodes
    BY <1>1 DEF StoreDrop, Good, ThreadInv, LocalInv, NodeSteps
  <2>1. /\ Others(t) /\ pc[t] = "store_drop" /\ pc'[t] = "cas_queued"
        /\ events' = [events EXCEPT ![node[t]] = {Drop}] /\ UNCHANGED <<evs, opt, interest, opts>>
    BY <1>0, <1>1, <2>0, StoreEffect DEF StoreDrop, StoreEvents
  <2>2. \A u \in Threads : pc'[u] # "store_drop"
    BY <2>1 DEF Others, Good, ListInv, LiveInv
  <2>3. DropAlone'
    BY <2>0, <2>1 DEF LookInv, DropAlone, TypeOK
  <2>4. OptionsKnown'
    BY <2>1 DEF LookInv, OptionsKnown, Others, Reads, Threads
  <2>. QED
    BY <2>1, <2>2, <2>3, <2>4 DEF LookInv, SeenAlone, StoredOnce
<1>2. CASE CasQueued(t)
  <2>0. pc[t] = "cas_queued" /\ op[t] # "poll" /\ UNCHANGED <<events, evs, opt, interest, opts>>
    BY <1>2 DEF CasQueued, Good, ThreadInv, LocalInv, LoopSteps
  <2>1. Others(t) /\ pc'[t] \in {"load_head", "idle", "wakeup"}
    <3>1. CASE queued[node[t]] = 0
      BY <1>0, <1>2, <3>1, EnterEffect DEF CasQueued
    <3>2. CASE queued[node[t]] # 0
      BY <1>0, <1>2, <2>0, <3>2, ReturnEffect DEF CasQueued
    <3>. QED
      BY <3>1, <3>2
  <2>. QED
    BY <2>0, <2>1, LookMove DEF Reads
<1>3. CASE LoadHead(t)
  <2>1. Others(t) /\ pc'[t] = "cas_head" /\ UNCHANGED <<events, evs, opt, interest, opts>>
    BY <1>0, <1>3, GotoEffect DEF LoadHead
  <2>. QED
    BY <2>1, LookMove DEF Reads
<1>4. CASE CasHead(t)
  <2>0. pc[t] = "cas_head" /\ UNCHANGED <<events, evs, opt, interest, opts>>
    BY <1>4 DEF CasHead
  <2>1. Others(t) /\ pc'[t] \in {"cas_head", "idle", "wakeup", "process"}
    <3>1. CASE head = cur[t]
      BY <1>0, <1>4, <3>1, ReturnEffect DEF CasHead
    <3>2. CASE head # cur[t]
      BY <1>4, <2>0, <3>2 DEF CasHead, Others
    <3>. QED
      BY <3>1, <3>2
  <2>. QED
    BY <2>0, <2>1, LookMove DEF Reads
<1>5. CASE Wakeup(t)
  <2>1. Others(t) /\ pc'[t] = "idle" /\ UNCHANGED <<events, evs, opt, interest, opts>>
    BY <1>0, <1>5, GotoEffect DEF Wakeup
  <2>. QED
    BY <2>1, LookMove DEF Reads
<1>. QED
  BY <1>1, <1>2, <1>3, <1>4, <1>5 DEF Step

LEMMA LookPoll ==
  ASSUME TypeOK, Good, LookInv, PollStart \/ PollStep \/ SelectOther \/ SelectInterrupted
  PROVE  LookInv'
<1>. USE DEF threadVars, sharedVars, pollVars, dataVars, history, wakeVars
<1>. DEFINE p == PollThread
<1>0. p \in Threads /\ ThreadType
  BY DEF Threads, Good
<1>1. CASE PollStart \/ PrepareForSleep \/ SelectAwoken \/ SelectOther \/ SelectInterrupted \/ Cleanup \/ TakeReady \/ PollReturn
  <2>1. Others(p) /\ pc'[p] \in {"prepare", "select", "cleanup", "take", "next", "idle"}
        /\ UNCHANGED <<events, evs, opt, interest, opts>>
    <3>1. /\ UNCHANGED <<node, op, events, evs, opt, interest, opts>>
          /\ \E l \in {"prepare", "select", "cleanup", "take", "next", "idle"} : Goto(p, l)
      BY <1>1 DEF PollStart, PrepareForSleep, SelectAwoken, SelectOther, SelectInterrupted, Cleanup, TakeReady, PollReturn
    <3>. QED
      BY <1>0, <3>1, GotoEffect
  <2>. QED
    BY <1>0, <2>1, LookMove DEF Reads
<1>2. CASE NextNode
  <2>1. /\ ready \in Nodes /\ Others(p) /\ pc'[p] = "load_events" /\ node'[p] = ready
        /\ opt' = opts[ready] /\ UNCHANGED <<events, evs, interest, opts>>
    BY <1>0, <1>2, EnterEffect DEF NextNode, TypeOK
  <2>2. StoredOnce' /\ OptionsKnown'
    BY <1>0, <2>1 DEF LookInv, StoredOnce, OptionsKnown, Others
  <2>. QED
    BY <2>1, <2>2 DEF LookInv, DropAlone, SeenAlone
<1>3. CASE LoadEvents \/ DecideDrop \/ Dequeue \/ Reread \/ Requeue
  <2>1. /\ pc[p] \in LoopSteps /\ UNCHANGED <<node, op, events, opt, interest, opts>>
        /\ evs' = evs \/ evs' = PollEvents(node[p])
        /\ \E l \in LoopSteps \cup {"load_head"} : Goto(p, l) /\ (l \in Reads => pc[p] \in Reads)
    BY <1>3 DEF LoadEvents, DecideDrop, Dequeue, Reread, Requeue, ReadEvents, LoopSteps, Reads
  <2>2. /\ Others(p) /\ pc'[p] # "store_drop" /\ (pc'[p] \in Reads => pc[p] \in Reads)
    BY <1>0, <2>1, GotoEffect DEF LoopSteps
  <2>3. node[p] \in Nodes
    BY <1>0, <2>1 DEF Good, ThreadInv, LocalInv, LoopSteps, NodeSteps
  <2>. QED
    BY <1>0, <2>1, <2>2, <2>3, LookRead DEF Others
<1>4. CASE ProcessDrop \/ ProcessEvent
  <2>1. Continue /\ UNCHANGED events
    BY <1>4 DEF ProcessDrop, ProcessEvent
  <2>2. Others(p) /\ pc'[p] = "next" /\ evs' = {}
    BY <1>0, <2>1, EnterEffect DEF Continue, Leave
  <2>. QED
    BY <1>0, <2>1, <2>2, LookDone DEF Others, Reads
<1>. QED
  BY <1>1, <1>2, <1>3, <1>4 DEF PollStep

\* A step that changes neither a node nor what poll has read of it.
LEMMA SameView ==
  ASSUME UNCHANGED <<alive, events, interest, opts>>,
         \A n \in Nodes : Pending(n)' = Pending(n) /\ (Spent(n)' <=> Spent(n)) /\ (n \in alive => (Noted(n)' <=> Noted(n)))
  PROVE  UNCHANGED Abstract!vars
<1>1. UNCHANGED <<absState, absReady>>
  BY DEF absState, absReady
<1>2. UNCHANGED <<absInterest, absOneshot>>
  BY DEF absInterest, absOneshot
<1>3. UNCHANGED <<absNote, absReport>>
  BY DEF absNote, absReport
<1>. QED
  BY <1>1, <1>2, <1>3 DEF Abstract!vars, Abstract!regVars

\* Outside its loop body poll has read nothing.
LEMMA NoView ==
  ASSUME op[PollThread] # "poll", ThreadInv
  PROVE  \A n \in Nodes : Pending(n) = {} /\ ~Spent(n) /\ ~Looking(n)
<1>1. pc[PollThread] \notin LoopSteps
  BY DEF ThreadInv, LocalInv, Threads
<1>. QED
  BY <1>1 DEF Pending, Spent, Looking, Settled, AboutToReread, LoopSteps

\* A step of another thread, or of the owner outside the loop body.
LEMMA QuietView ==
  ASSUME ThreadInv, ThreadInv', UNCHANGED <<evs, opt>>, NEW t \in Threads, Others(t),
         t = PollThread => op[t] # "poll" /\ op'[t] # "poll"
  PROVE  \A n \in Nodes : Pending(n)' = Pending(n) /\ (Spent(n)' <=> Spent(n)) /\ (Looking(n)' <=> Looking(n))
<1>1. CASE t = PollThread
  <2>1. \A n \in Nodes : Pending(n) = {} /\ ~Spent(n) /\ ~Looking(n)
    BY <1>1, NoView
  <2>2. pc'[PollThread] \notin LoopSteps /\ op'[PollThread] # "poll"
    BY <1>1 DEF ThreadInv, LocalInv
  <2>3. \A n \in Nodes : Pending(n)' = {} /\ ~Spent(n)' /\ ~Looking(n)'
    BY <2>2 DEF Pending, Spent, Looking, Settled, AboutToReread, LoopSteps
  <2>. QED
    BY <2>1, <2>3
<1>2. CASE t # PollThread
  <2>1. pc'[PollThread] = pc[PollThread] /\ node'[PollThread] = node[PollThread] /\ op'[PollThread] = op[PollThread]
    BY <1>2 DEF Others, Threads
  <2>. QED
    BY <2>1 DEF Pending, Spent, Looking, Settled, AboutToReread
<1>. QED
  BY <1>1, <1>2

\* The values of the mapped flags.
LEMMA NoteValue ==
  /\ absNote \in [Nodes -> BOOLEAN] /\ \A n \in Nodes : absNote[n] <=> n \in alive /\ Noted(n)
  /\ absNote' \in [Nodes -> BOOLEAN] /\ \A n \in Nodes : absNote'[n] <=> n \in alive' /\ Noted(n)'
<1>1. \A n \in Nodes : (n \in alive /\ Noted(n)) \in BOOLEAN /\ (n \in alive /\ Noted(n))' \in BOOLEAN
  OBVIOUS
<1>. QED
  BY <1>1 DEF absNote

LEMMA OneshotValue ==
  /\ absOneshot \in [Nodes -> BOOLEAN]
  /\ \A n \in Nodes : absOneshot[n] <=> n \in alive /\ ~Spent(n) /\ "oneshot" \in opts[n]
  /\ absOneshot' \in [Nodes -> BOOLEAN]
  /\ \A n \in Nodes : absOneshot'[n] <=> n \in alive' /\ ~Spent(n)' /\ "oneshot" \in opts'[n]
BY DEF absOneshot

LEMMA FlagWrite ==
  ASSUME NEW f \in [Nodes -> BOOLEAN], NEW g \in [Nodes -> BOOLEAN], NEW n \in Nodes, NEW b \in BOOLEAN,
         g[n] <=> b, \A m \in Nodes \ {n} : g[m] <=> f[m]
  PROVE  g = [f EXCEPT ![n] = b]
OBVIOUS

LEMMA FlagKept ==
  ASSUME NEW f \in [Nodes -> BOOLEAN], NEW g \in [Nodes -> BOOLEAN], \A m \in Nodes : g[m] <=> f[m]
  PROVE  g = f
OBVIOUS

\* Which nodes poll has to look at after a step of thread t outside the loop body:
\* the same, and the one t is about to queue.
LEMMA QuietNoted ==
  ASSUME ThreadInv, ThreadInv', UNCHANGED <<queued, evs, opt>>, NEW t \in Threads, Others(t),
         t = PollThread => op[t] # "poll" /\ op'[t] # "poll",
         pc[t] # "cas_queued"
  PROVE  \A n \in Nodes : Noted(n)' <=> Noted(n) \/ (pc'[t] = "cas_queued" /\ node'[t] = n)
<1>1. \A n \in Nodes : Looking(n)' <=> Looking(n)
  BY QuietView
<1>2. \A n \in Nodes : AboutToQueue(n)' <=> AboutToQueue(n) \/ (pc'[t] = "cas_queued" /\ node'[t] = n)
  BY DEF AboutToQueue, Others
<1>. QED
  BY <1>1, <1>2 DEF Noted

\* set_readiness stores the events of n.
LEMMA StoreView ==
  ASSUME TypeOK, Good, ThreadInv', NEW t \in Threads, NEW n \in Nodes, NEW r,
         pc[t] \in {"idle", "store_drop"}, n \in alive, Drop \notin events[n],
         StoreEvents(t, n, r)
  PROVE  /\ absState[n] = "live"
         /\ absReady' = [absReady EXCEPT ![n] = r \ {Drop}]
         /\ absState' = [absState EXCEPT ![n] = IF Drop \in r THEN "dropped" ELSE "live"]
         /\ absNote' = [absNote EXCEPT ![n] = @ \/ r # {}]
         /\ UNCHANGED <<absInterest, absOneshot, absReport>>
<1>1. /\ events' = [events EXCEPT ![n] = r]
      /\ UNCHANGED <<queued, evs, opt, alive, interest, opts>>
  BY DEF StoreEvents, ownerVars, dataVars, pollVars
<1>2. /\ Others(t) /\ op'[t] = "set_readiness" /\ (r = {} => pc'[t] = "idle")
      /\ r # {} => pc'[t] = "cas_queued" /\ node'[t] = n
  BY StoreEffect DEF Good
<1>3. op[t] # "poll"
  BY DEF Good, ThreadInv, LocalInv, LoopSteps
<1>4. \A m \in Nodes : Pending(m)' = Pending(m) /\ (Spent(m)' <=> Spent(m))
  BY <1>1, <1>2, <1>3, QuietView DEF Good
<1>5. \A m \in Nodes : Noted(m)' <=> Noted(m) \/ (pc'[t] = "cas_queued" /\ node'[t] = m)
  BY <1>1, <1>2, <1>3, QuietNoted DEF Good
<1>6. absNote' = [absNote EXCEPT ![n] = @ \/ r # {}]
  <2>1. absNote'[n] <=> absNote[n] \/ r # {}
    BY <1>1, <1>2, <1>5, NoteValue
  <2>2. \A m \in Nodes \ {n} : absNote'[m] <=> absNote[m]
    BY <1>1, <1>2, <1>5, NoteValue
  <2>3. (absNote[n] \/ r # {}) \in BOOLEAN
    BY NoteValue
  <2>. QED
    BY <2>1, <2>2, <2>3, NoteValue, FlagWrite
<1>7. /\ absState[n] = "live"
      /\ absState' = [absState EXCEPT ![n] = IF Drop \in r THEN "dropped" ELSE "live"]
  BY <1>1 DEF absState, TypeOK
<1>8. absReady' = [absReady EXCEPT ![n] = r \ {Drop}]
  BY <1>1 DEF absReady, TypeOK
<1>9. UNCHANGED <<absInterest, absOneshot, absReport>>
  BY <1>1, <1>4 DEF absInterest, absOneshot, absReport
<1>. QED
  BY <1>6, <1>7, <1>8, <1>9

LEMMA SetView ==
  ASSUME TypeOK, Good, ThreadInv', NEW t \in Threads, NEW n \in Nodes, NEW r \in SUBSET Ready, SetReadiness(t, n, r)
  PROVE  Abstract!Next
<1>1. n \in alive /\ Drop \notin events[n] /\ pc[t] = "idle" /\ StoreEvents(t, n, r)
  BY Counted DEF SetReadiness
<1>2. Drop \notin r /\ r \ {Drop} = r
  BY ReadyAssumption
<1>3. /\ absState[n] = "live"
      /\ absReady' = [absReady EXCEPT ![n] = r \ {Drop}]
      /\ absState' = [absState EXCEPT ![n] = IF Drop \in r THEN "dropped" ELSE "live"]
      /\ absNote' = [absNote EXCEPT ![n] = @ \/ r # {}]
      /\ UNCHANGED <<absInterest, absOneshot, absReport>>
  BY <1>1, StoreView
<1>4. absState' = absState
  <2>1. absState' = [absState EXCEPT ![n] = "live"]
    BY <1>2, <1>3
  <2>2. absState = [absState EXCEPT ![n] = "live"]
    BY <1>3 DEF absState
  <2>. QED
    BY <2>1, <2>2
<1>5. Abstract!Set(n, r)
  BY <1>2, <1>3, <1>4 DEF Abstract!Set
<1>. QED
  BY <1>5 DEF Abstract!Next

LEMMA LastDropView ==
  ASSUME TypeOK, Good, LookInv, ThreadInv', NEW t \in Threads, StoreDrop(t)
  PROVE  Abstract!Next
<1>. DEFINE n == node[t]
<1>1. pc[t] = "store_drop" /\ StoreEvents(t, n, {Drop}) /\ n \in Nodes /\ n \in alive /\ Drop \notin events[n]
  BY DEF StoreDrop, LookInv, StoredOnce, Good, ThreadInv, LocalInv, ListInv, LiveInv, NodeSteps
<1>2. {Drop} \ {Drop} = {} /\ Drop \in {Drop} /\ {Drop} # {}
  OBVIOUS
<1>. HIDE DEF n
<1>3. /\ absState[n] = "live"
      /\ absReady' = [absReady EXCEPT ![n] = {Drop} \ {Drop}]
      /\ absState' = [absState EXCEPT ![n] = IF Drop \in {Drop} THEN "dropped" ELSE "live"]
      /\ absNote' = [absNote EXCEPT ![n] = @ \/ {Drop} # {}]
      /\ UNCHANGED <<absInterest, absOneshot, absReport>>
  BY <1>1, StoreView
<1>4. absNote' = [absNote EXCEPT ![n] = TRUE]
  BY <1>1, <1>2, <1>3
<1>5. absState' = [absState EXCEPT ![n] = "dropped"] /\ absReady' = [absReady EXCEPT ![n] = {}]
  BY <1>2, <1>3
<1>6. Abstract!LastDrop(n)
  BY <1>3, <1>4, <1>5 DEF Abstract!LastDrop
<1>. QED
  BY <1>1, <1>6 DEF Abstract!Next

\* A step outside the loop body that asks for no look and writes no node.
LEMMA QuietSame ==
  ASSUME ThreadInv, ThreadInv', NEW t \in Threads, Others(t),
         UNCHANGED <<alive, events, queued, interest, opts, evs, opt>>,
         t = PollThread => op[t] # "poll" /\ op'[t] # "poll",
         pc[t] # "cas_queued", pc'[t] # "cas_queued"
  PROVE  UNCHANGED Abstract!vars
BY QuietView, QuietNoted, SameView

\* Registration::drop.
LEMMA DisableView ==
  ASSUME TypeOK, Good, ThreadInv', NEW t \in Threads, NEW n \in Nodes, RegistrationDrop(t, n)
  PROVE  Abstract!Next
<1>1. /\ pc[t] = "idle" /\ regOwner[n] # NULL /\ UNCHANGED <<alive, events, queued, evs, opt>>
      /\ interest' = [interest EXCEPT ![n] = {}] /\ opts' = [opts EXCEPT ![n] = {}]
      /\ ReleaseRef(t, n)
  BY ThreadsAssumption DEF RegistrationDrop, sharedVars, pollVars
<1>2. Others(t) /\ op'[t] = "set_readiness" /\ pc'[t] # "cas_queued"
  BY <1>1, ReleaseEffect DEF Good
<1>3. op[t] # "poll"
  BY <1>1 DEF Good, ThreadInv, LocalInv, LoopSteps
<1>4. \A m \in Nodes : Pending(m)' = Pending(m) /\ (Spent(m)' <=> Spent(m))
  BY <1>1, <1>2, <1>3, QuietView DEF Good
<1>5. \A m \in Nodes : Noted(m)' <=> Noted(m)
  BY <1>1, <1>2, <1>3, QuietNoted DEF Good
<1>6. n \in alive /\ Drop \notin events[n]
  BY <1>1, Counted
<1>7. UNCHANGED <<absState, absReady, absNote, absReport>> /\ absState[n] = "live"
  BY <1>1, <1>4, <1>5, <1>6 DEF absState, absReady, absNote, absReport
<1>8. absInterest' = [absInterest EXCEPT ![n] = {}]
  BY <1>1, <1>4 DEF absInterest, TypeOK
<1>9. absOneshot' = [absOneshot EXCEPT ![n] = FALSE]
  <2>1. ~absOneshot'[n]
    BY <1>1, OneshotValue DEF TypeOK
  <2>2. \A m \in Nodes \ {n} : opts'[m] = opts[m]
    BY <1>1 DEF TypeOK
  <2>3. \A m \in Nodes \ {n} : absOneshot'[m] <=> absOneshot[m]
    BY <1>1, <1>4, <2>2, OneshotValue
  <2>. QED
    BY <2>1, <2>3, OneshotValue, FlagWrite
<1>10. Abstract!Disable(n)
  BY <1>7, <1>8, <1>9 DEF Abstract!Disable
<1>. QED
  BY <1>10 DEF Abstract!Next

LEMMA HandleView ==
  ASSUME TypeOK, Good, ThreadInv', NEW t \in Threads, NEW n \in Nodes,
         SetReadinessDrop(t, n) \/ \E u \in Threads : SetReadinessClone(t, u, n) \/ RegistrationSend(t, u, n)
  PROVE  UNCHANGED Abstract!vars
<1>. USE DEF sharedVars, pollVars, threadVars, dataVars
<1>1. UNCHANGED <<alive, events, queued, interest, opts, evs, opt>> /\ pc[t] = "idle"
  BY DEF SetReadinessDrop, SetReadinessClone, RegistrationSend
<1>2. op[t] # "poll"
  BY <1>1 DEF Good, ThreadInv, LocalInv, LoopSteps
<1>3. Others(t) /\ op'[t] # "poll" /\ pc'[t] # "cas_queued"
  <2>1. CASE SetReadinessDrop(t, n)
    BY <2>1, ReleaseEffect DEF SetReadinessDrop, Good
  <2>2. ASSUME NEW u \in Threads, SetReadinessClone(t, u, n) \/ RegistrationSend(t, u, n)
        PROVE  Others(t) /\ op'[t] # "poll" /\ pc'[t] # "cas_queued"
    BY <1>1, <1>2, <2>2 DEF SetReadinessClone, RegistrationSend, Others
  <2>. QED
    BY <2>1, <2>2
<1>. QED
  BY <1>1, <1>2, <1>3, QuietSame DEF Good

\* Registration::new.
LEMMA NewView ==
  ASSUME TypeOK, Good, ThreadInv', NEW n \in Nodes, NEW i \in InterestChoices, NEW o \in OptChoices,
         RegistrationNew(n, i, o)
  PROVE  Abstract!Next
<1>. DEFINE p == PollThread
<1>1. /\ pc[p] = "idle" /\ n \notin alive /\ alive' = alive \cup {n}
      /\ UNCHANGED <<pc, node, op, evs, opt>>
      /\ events' = [events EXCEPT ![n] = {}] /\ queued' = [queued EXCEPT ![n] = 0]
      /\ interest' = [interest EXCEPT ![n] = i] /\ opts' = [opts EXCEPT ![n] = o]
  BY DEF RegistrationNew, threadVars, pollVars
<1>2. p \in Threads /\ op[p] # "poll" /\ op'[p] # "poll"
  BY <1>1 DEF Threads, Good, ThreadInv, LocalInv, LoopSteps
<1>3. \A m \in Nodes : Pending(m) = {} /\ ~Spent(m) /\ ~Looking(m)
  BY <1>2, NoView DEF Good
<1>4. \A m \in Nodes : Pending(m)' = {} /\ ~Spent(m)' /\ ~Looking(m)'
  BY <1>1, <1>3 DEF Pending, Spent, Looking, Settled, AboutToReread
<1>5. \A m \in Nodes : AboutToQueue(m)' <=> AboutToQueue(m)
  BY <1>1 DEF AboutToQueue
<1>6. ~AboutToQueue(n)
  BY <1>1 DEF AboutToQueue, Good, ListInv, LiveInv, NodeSteps
<1>7. \A m \in Nodes \ {n} : /\ m \in alive' <=> m \in alive
                             /\ events'[m] = events[m] /\ queued'[m] = queued[m]
                             /\ interest'[m] = interest[m] /\ opts'[m] = opts[m]
  BY <1>1 DEF TypeOK
<1>8. n \in alive' /\ events'[n] = {} /\ queued'[n] = 0 /\ interest'[n] = i /\ opts'[n] = o
  BY <1>1 DEF TypeOK
<1>9. absState[n] = "free" /\ absState' = [absState EXCEPT ![n] = "live"]
  BY <1>1, <1>7, <1>8 DEF absState
<1>10. absInterest' = [absInterest EXCEPT ![n] = i]
  BY <1>3, <1>4, <1>7, <1>8 DEF absInterest
<1>11. absOneshot' = [absOneshot EXCEPT ![n] = ("oneshot" \in o)]
  <2>1. absOneshot'[n] <=> "oneshot" \in o
    BY <1>4, <1>8, OneshotValue
  <2>2. \A m \in Nodes \ {n} : absOneshot'[m] <=> absOneshot[m]
    BY <1>3, <1>4, <1>7, OneshotValue
  <2>3. ("oneshot" \in o) \in BOOLEAN
    OBVIOUS
  <2>. QED
    BY <2>1, <2>2, <2>3, OneshotValue, FlagWrite
<1>12. absNote' = absNote
  <2>1. ~absNote'[n] /\ ~absNote[n]
    BY <1>1, <1>4, <1>5, <1>6, <1>8, NoteValue DEF Noted
  <2>2. \A m \in Nodes \ {n} : absNote'[m] <=> absNote[m]
    BY <1>3, <1>4, <1>5, <1>7, NoteValue DEF Noted
  <2>. QED
    BY <2>1, <2>2, NoteValue, FlagKept
<1>13. absReady' = absReady /\ absReport' = absReport
  BY <1>1, <1>3, <1>4, <1>7, <1>8 DEF absReady, absReport
<1>14. Abstract!New(n, i, "oneshot" \in o)
  BY <1>9, <1>10, <1>11, <1>12, <1>13 DEF Abstract!New
<1>15. i \in SUBSET Ready /\ ("oneshot" \in o) \in BOOLEAN
  BY DataAssumption
<1>. QED
  BY <1>14, <1>15 DEF Abstract!Next

\* Registration::update and deregister.
LEMMA UpdateView ==
  ASSUME TypeOK, Good, ThreadInv', NEW n \in Nodes, NEW i \in InterestChoices, NEW o \in OptChoices,
         RegistrationUpdate(n, i, o)
  PROVE  Abstract!Next
<1>. DEFINE p == PollThread
<1>1. /\ pc[p] = "idle" /\ regOwner[n] # NULL /\ UNCHANGED <<alive, events, queued, evs, opt>>
      /\ interest' = [interest EXCEPT ![n] = i] /\ opts' = [opts EXCEPT ![n] = o]
  BY ThreadsAssumption DEF RegistrationUpdate, sharedVars, ownerVars, pollVars, Threads
<1>2. p \in Threads /\ op[p] # "poll"
  BY <1>1 DEF Threads, Good, ThreadInv, LocalInv, LoopSteps
<1>3. /\ Others(p) /\ op'[p] # "poll" /\ (events[n] = {} => pc'[p] = "idle")
      /\ events[n] # {} => pc'[p] = "cas_queued" /\ node'[p] = n
  <2>1. CASE events[n] # {}
    BY <1>2, <2>1, EnterEffect DEF RegistrationUpdate, Good
  <2>2. CASE events[n] = {}
    BY <1>2, <2>2, EnterEffect DEF RegistrationUpdate, Leave, Good
  <2>. QED
    BY <2>1, <2>2
<1>4. \A m \in Nodes : Pending(m) = {} /\ ~Spent(m)
  BY <1>2, NoView DEF Good
<1>5. \A m \in Nodes : Pending(m)' = {} /\ ~Spent(m)'
  BY <1>1, <1>2, <1>3, <1>4, QuietView DEF Good
<1>6. \A m \in Nodes : Noted(m)' <=> Noted(m) \/ (pc'[p] = "cas_queued" /\ node'[p] = m)
  BY <1>1, <1>2, <1>3, QuietNoted DEF Good
<1>7. n \in alive /\ Drop \notin events[n]
  BY <1>1, Counted
<1>8. absState[n] = "live" /\ absReady[n] = events[n] /\ UNCHANGED <<absState, absReady, absReport>>
  BY <1>1, <1>4, <1>5, <1>7 DEF absState, absReady, absReport
<1>9. \A m \in Nodes \ {n} : interest'[m] = interest[m] /\ opts'[m] = opts[m]
  BY <1>1 DEF TypeOK
<1>10. interest'[n] = i /\ opts'[n] = o
  BY <1>1 DEF TypeOK
<1>11. absInterest' = [absInterest EXCEPT ![n] = i]
  BY <1>1, <1>4, <1>5, <1>7, <1>9, <1>10 DEF absInterest
<1>12. absOneshot' = [absOneshot EXCEPT ![n] = ("oneshot" \in o)]
  <2>1. absOneshot'[n] <=> "oneshot" \in o
    BY <1>1, <1>5, <1>7, <1>10, OneshotValue
  <2>2. \A m \in Nodes \ {n} : absOneshot'[m] <=> absOneshot[m]
    BY <1>1, <1>4, <1>5, <1>9, OneshotValue
  <2>3. ("oneshot" \in o) \in BOOLEAN
    OBVIOUS
  <2>. QED
    BY <2>1, <2>2, <2>3, OneshotValue, FlagWrite
<1>13. absNote' = [absNote EXCEPT ![n] = @ \/ absReady[n] # {}]
  <2>1. absNote'[n] <=> absNote[n] \/ absReady[n] # {}
    BY <1>1, <1>3, <1>6, <1>7, <1>8, NoteValue
  <2>2. \A m \in Nodes \ {n} : absNote'[m] <=> absNote[m]
    BY <1>1, <1>3, <1>6, NoteValue
  <2>3. (absNote[n] \/ absReady[n] # {}) \in BOOLEAN
    BY NoteValue
  <2>. QED
    BY <2>1, <2>2, <2>3, NoteValue, FlagWrite
<1>14. Abstract!Update(n, i, "oneshot" \in o)
  BY <1>8, <1>11, <1>12, <1>13 DEF Abstract!Update
<1>15. i \in SUBSET Ready /\ ("oneshot" \in o) \in BOOLEAN
  BY DataAssumption
<1>. QED
  BY <1>14, <1>15 DEF Abstract!Next

\* queue_for_processing and prepend_readiness_node change who is to look where,
\* never what is seen.
LEMMA QueueView ==
  ASSUME TypeOK, Good, ThreadInv', NEW t \in Threads, CasQueued(t) \/ LoadHead(t) \/ CasHead(t) \/ Wakeup(t)
  PROVE  UNCHANGED Abstract!vars
<1>. USE DEF sharedVars, ownerVars, dataVars, pollVars
<1>0. ThreadType /\ ThreadInv
  BY DEF Good
<1>1. UNCHANGED <<alive, events, interest, opts, evs, opt>>
  BY DEF CasQueued, LoadHead, CasHead, Wakeup
<1>2. CASE CasQueued(t)
  <2>1. /\ pc[t] = "cas_queued" /\ node[t] \in Nodes /\ op[t] # "poll"
    BY <1>0, <1>2 DEF CasQueued, ThreadInv, LocalInv, NodeSteps, LoopSteps
  <2>2. Others(t) /\ op'[t] # "poll" /\ pc'[t] # "cas_queued"
    <3>1. CASE queued[node[t]] = 0
      BY <1>0, <1>2, <2>1, <3>1, EnterEffect DEF CasQueued
    <3>2. CASE queued[node[t]] # 0
      BY <1>0, <1>2, <2>1, <3>2, ReturnEffect DEF CasQueued
    <3>. QED
      BY <3>1, <3>2
  <2>3. queued'[node[t]] = 1 /\ \A n \in Nodes \ {node[t]} : queued'[n] = queued[n]
    <3>1. queued \in [Nodes -> {0, 1}] /\ (queued[node[t]] = 0 \/ queued[node[t]] = 1)
      BY <2>1 DEF TypeOK
    <3>2. queued' = [queued EXCEPT ![node[t]] = 1] \/ (queued' = queued /\ queued[node[t]] = 1)
      BY <1>2, <3>1 DEF CasQueued
    <3>. QED
      BY <2>1, <3>1, <3>2
  <2>4. \A n \in Nodes : Pending(n)' = Pending(n) /\ (Spent(n)' <=> Spent(n)) /\ (Looking(n)' <=> Looking(n))
    BY <1>0, <1>1, <2>1, <2>2, QuietView
  <2>5. \A n \in Nodes : AboutToQueue(n) <=> AboutToQueue(n)' \/ n = node[t]
    BY <2>1, <2>2 DEF AboutToQueue, Others
  <2>6. \A n \in Nodes : Noted(n)' <=> Noted(n)
    BY <2>3, <2>4, <2>5 DEF Noted
  <2>. QED
    BY <1>1, <2>4, <2>6, SameView
<1>3. CASE Wakeup(t)
  <2>1. Others(t) /\ pc[t] = "wakeup" /\ pc'[t] = "idle" /\ op'[t] = op[t] /\ UNCHANGED queued
    BY <1>0, <1>3, GotoEffect DEF Wakeup
  <2>2. op[t] # "poll"
    BY <1>0, <2>1 DEF ThreadInv, LocalInv, LoopSteps
  <2>. QED
    BY <1>0, <1>1, <2>1, <2>2, QuietSame
<1>4. CASE LoadHead(t) \/ CasHead(t)
  <2>1. pc[t] \in {"load_head", "cas_head"} /\ UNCHANGED queued
    BY <1>4 DEF LoadHead, CasHead
  <2>2. /\ Others(t)
        /\ op[t] = "poll" => op'[t] = "poll" /\ node'[t] = node[t] /\ pc'[t] \in {"cas_head", "process"}
        /\ op[t] # "poll" => op'[t] # "poll" /\ pc'[t] # "cas_queued"
    <3>1. CASE LoadHead(t)
      BY <1>0, <3>1, GotoEffect DEF LoadHead
    <3>2. CASE CasHead(t) /\ head = cur[t]
      BY <1>0, <3>2, ReturnEffect DEF CasHead
    <3>3. CASE CasHead(t) /\ head # cur[t]
      BY <2>1, <3>3 DEF CasHead, Others
    <3>. QED
      BY <1>4, <3>1, <3>2, <3>3
  <2>3. CASE op[t] # "poll"
    BY <1>0, <1>1, <2>1, <2>2, <2>3, QuietSame
  <2>4. CASE op[t] = "poll"
    <3>1. t = PollThread
      BY <1>0, <2>4 DEF ThreadInv, LocalInv
    <3>2. \A n \in Nodes : Pending(n)' = Pending(n) /\ (Spent(n)' <=> Spent(n))
      BY <1>1, <2>1, <2>2, <2>4, <3>1 DEF Pending, Spent, Settled
    <3>3. \A n \in Nodes : AboutToQueue(n)' <=> AboutToQueue(n)
      BY <2>1, <2>2, <2>4 DEF AboutToQueue, Others
    <3>4. queued[node[t]] = 1
      BY <2>1 DEF Good, ListInv, HoldInv, HeldFlag, Holds
    <3>5. \A n \in Nodes : n # node[t] => ~Looking(n) /\ ~Looking(n)'
      BY <2>2, <2>4, <3>1 DEF Looking, AboutToReread
    <3>6. \A n \in Nodes : Noted(n)' <=> Noted(n)
      BY <2>1, <3>3, <3>4, <3>5 DEF Noted
    <3>. QED
      BY <1>1, <3>2, <3>6, SameView
  <2>. QED
    BY <2>3, <2>4
<1>. QED
  BY <1>2, <1>3, <1>4

\* poll before and after its loop over the ready list.
LEMMA WalkView ==
  ASSUME TypeOK, Good, ThreadInv',
         \/ PollStart \/ PrepareForSleep \/ SelectAwoken \/ SelectOther \/ SelectInterrupted
         \/ Cleanup \/ TakeReady \/ PollReturn
  PROVE  UNCHANGED Abstract!vars
<1>. DEFINE p == PollThread
<1>. USE DEF sharedVars, ownerVars, dataVars, pollVars
<1>0. p \in Threads /\ ThreadType /\ ThreadInv
  BY DEF Threads, Good
<1>1. /\ UNCHANGED <<node, op, alive, events, queued, interest, opts, evs, opt>>
      /\ pc[p] \in {"idle", "prepare", "select", "cleanup", "take", "next"}
      /\ \E l \in {"prepare", "select", "cleanup", "take", "next", "idle"} : Goto(p, l)
  BY DEF PollStart, PrepareForSleep, SelectAwoken, SelectOther, SelectInterrupted, Cleanup, TakeReady, PollReturn
<1>2. Others(p) /\ op'[p] = op[p] /\ pc'[p] # "cas_queued"
  BY <1>0, <1>1, GotoEffect
<1>3. op[p] # "poll"
  BY <1>0, <1>1 DEF ThreadInv, LocalInv, LoopSteps
<1>. QED
  BY <1>0, <1>1, <1>2, <1>3, QuietSame

LEMMA NextView ==
  ASSUME TypeOK, Good, NextNode
  PROVE  UNCHANGED Abstract!vars
<1>. DEFINE p == PollThread
<1>0. p \in Threads /\ ThreadType /\ ThreadInv
  BY DEF Threads, Good
<1>1. /\ pc[p] = "next" /\ UNCHANGED <<alive, events, queued, interest, opts, evs>>
      /\ Enter(p, "load_events", ready, "poll")
  BY DEF NextNode, ownerVars, dataVars
<1>2. Others(p) /\ pc'[p] = "load_events"
  BY <1>0, <1>1, EnterEffect
<1>3. \A n \in Nodes : /\ Pending(n) = {} /\ ~Spent(n) /\ ~Looking(n)
                       /\ Pending(n)' = {} /\ ~Spent(n)' /\ ~Looking(n)'
  <2>1. op[p] # "poll"
    BY <1>0, <1>1 DEF ThreadInv, LocalInv, LoopSteps
  <2>2. \A n \in Nodes : Pending(n) = {} /\ ~Spent(n) /\ ~Looking(n)
    BY <1>0, <2>1, NoView
  <2>3. \A n \in Nodes : Pending(n)' = {} /\ ~Spent(n)' /\ ~Looking(n)'
    BY <1>2 DEF Pending, Spent, Settled, Looking, AboutToReread
  <2>. QED
    BY <2>2, <2>3
<1>4. \A n \in Nodes : Noted(n)' <=> Noted(n)
  <2>1. \A n \in Nodes : AboutToQueue(n)' <=> AboutToQueue(n)
    BY <1>1, <1>2 DEF AboutToQueue, Others
  <2>. QED
    BY <1>1, <1>3, <2>1 DEF Noted
<1>. QED
  BY <1>1, <1>3, <1>4, SameView

\* A step of the loop body on node n is about no other node.
LEMMA BodyView ==
  ASSUME NEW n, node[PollThread] = n, node'[PollThread] = n \/ pc'[PollThread] = "next",
         Others(PollThread), pc[PollThread] # "cas_queued", pc'[PollThread] # "cas_queued",
         \A m \in Nodes \ {n} : queued'[m] = queued[m]
  PROVE  /\ \A m \in Nodes : AboutToQueue(m)' <=> AboutToQueue(m)
         /\ \A m \in Nodes \ {n} : /\ Pending(m) = {} /\ Pending(m)' = {} /\ ~Spent(m) /\ ~Spent(m)'
                                   /\ Noted(m)' <=> Noted(m)
<1>1. \A m \in Nodes : AboutToQueue(m)' <=> AboutToQueue(m)
  BY DEF AboutToQueue, Others
<1>2. \A m \in Nodes \ {n} : ~Settled(m) /\ ~Settled(m)' /\ ~Looking(m) /\ ~Looking(m)'
  BY DEF Settled, Looking, AboutToReread
<1>3. \A m \in Nodes \ {n} : Pending(m) = {} /\ Pending(m)' = {} /\ ~Spent(m) /\ ~Spent(m)'
  BY <1>2 DEF Pending, Spent
<1>4. \A m \in Nodes \ {n} : Noted(m)' <=> Noted(m)
  BY <1>1, <1>2 DEF Noted
<1>. QED
  BY <1>1, <1>3, <1>4

\* Where poll is in its loop body, and what it knows there.
LEMMA InBody ==
  ASSUME Good, pc[PollThread] \in LoopSteps
  PROVE  /\ PollThread \in Threads /\ op[PollThread] = "poll"
         /\ node[PollThread] \in Nodes /\ node[PollThread] \in alive
         /\ pc[PollThread] \in {"load_events", "decide"} => queued[node[PollThread]] = 1
<1>1. PollThread \in Threads
  BY DEF Threads
<1>2. op[PollThread] = "poll" /\ node[PollThread] \in Nodes
  BY <1>1 DEF Good, ThreadInv, LocalInv, LoopSteps, NodeSteps
<1>3. node[PollThread] \in alive
  BY <1>1 DEF Good, ListInv, LiveInv, LoopSteps, NodeSteps
<1>4. pc[PollThread] \in {"load_events", "decide"} => queued[node[PollThread]] = 1
  BY <1>1 DEF Good, ListInv, HoldInv, HeldFlag, Holds
<1>. QED
  BY <1>1, <1>2, <1>3, <1>4

\* The decision what to do with the node shows nothing yet.
LEMMA DecideView ==
  ASSUME TypeOK, Good, LookInv, DecideDrop \/ Dequeue \/ Requeue
  PROVE  UNCHANGED Abstract!vars
<1>. DEFINE p == PollThread
<1>. PICK n : n = node[p]
  OBVIOUS
<1>. USE DEF sharedVars, ownerVars, dataVars, pollVars
<1>1. /\ pc[p] = "decide" /\ UNCHANGED <<node, op, alive, events, interest, opts, evs, opt>>
      /\ \E l \in LoopSteps \cup {"load_head"} : Goto(p, l)
  BY DEF DecideDrop, Dequeue, Requeue, LoopSteps
<1>2. p \in Threads /\ op[p] = "poll" /\ n \in Nodes /\ n \in alive /\ queued[n] = 1
  BY <1>1, InBody DEF LoopSteps
<1>3. Others(p) /\ pc'[p] \in LoopSteps \cup {"load_head"}
  BY <1>1, <1>2, GotoEffect DEF Good
<1>4. \A m \in Nodes \ {n} : queued'[m] = queued[m]
  BY <1>2 DEF DecideDrop, Dequeue, Requeue, TypeOK
<1>5. /\ \A m \in Nodes : AboutToQueue(m)' <=> AboutToQueue(m)
      /\ \A m \in Nodes \ {n} : /\ Pending(m) = {} /\ Pending(m)' = {} /\ ~Spent(m) /\ ~Spent(m)'
                                /\ Noted(m)' <=> Noted(m)
  BY <1>1, <1>3, <1>4, BodyView DEF LoopSteps
<1>6. Pending(n)' = Pending(n) /\ (Spent(n)' <=> Spent(n)) /\ Noted(n)'
  <2>1. CASE DecideDrop
    <3>1. evs = {Drop} /\ UNCHANGED queued
      BY <2>1 DEF DecideDrop, LookInv, SeenAlone
    <3>2. Pending(n) = {} /\ Pending(n)' = {}
      BY <1>1, <3>1 DEF Pending
    <3>3. Noted(n)'
      BY <1>2, <3>1 DEF Noted
    <3>. QED
      BY <3>2, <3>3 DEF Spent
  <2>2. CASE Requeue
    <3>1. pc'[p] = "load_head" /\ "edge" \notin opt /\ evs # {} /\ UNCHANGED queued
      BY <1>2, <2>2, GotoEffect DEF Requeue, Good
    <3>2. Settled(n) /\ Settled(n)'
      BY <1>1, <1>2, <3>1 DEF Settled
    <3>. QED
      BY <1>1, <1>2, <3>1, <3>2 DEF Pending, Spent, Noted
  <2>3. CASE Dequeue
    <3>1. /\ "edge" \in opt \/ evs = {}
          /\ pc'[p] = IF queued[n] = lq THEN "reread" ELSE "load_events"
      BY <1>2, <2>3, GotoEffect DEF Dequeue, Good
    <3>2. ~Settled(n) /\ ~Settled(n)'
      BY <1>1, <3>1 DEF Settled
    <3>3. queued[n] = lq => AboutToReread(n)'
      BY <1>1, <3>1 DEF AboutToReread
    <3>4. queued[n] # lq => queued'[n] = 1
      BY <1>2, <2>3 DEF Dequeue, TypeOK
    <3>5. Noted(n)'
      BY <3>3, <3>4 DEF Noted, Looking
    <3>. QED
      BY <3>2, <3>5 DEF Pending, Spent
  <2>. QED
    BY <2>1, <2>2, <2>3
<1>7. Noted(n)
  BY <1>2 DEF Noted
<1>. QED
  BY <1>1, <1>5, <1>6, <1>7, SameView

\* poll reads the events of a node for the last time: a look at the registration,
\* unless it is dropped.
LEMMA SettleView ==
  ASSUME TypeOK, Good, LookInv, NEW n, n = node[PollThread], pc[PollThread] \in {"load_events", "reread"},
         UNCHANGED <<node, op, alive, events, queued, interest, opts, opt>>, evs' = PollEvents(n),
         Others(PollThread), pc'[PollThread] # "cas_queued", Settled(n)', Drop \notin events[n]
  PROVE  Abstract!Next
<1>1. PollThread \in Threads /\ n \in Nodes /\ n \in alive
  BY InBody DEF LoopSteps
<1>2. Noted(n)
  BY InBody DEF Noted, Looking, AboutToReread, LoopSteps
<1>3. \A m \in Nodes \ {n} : /\ Pending(m) = {} /\ Pending(m)' = {} /\ ~Spent(m) /\ ~Spent(m)'
                             /\ Noted(m)' <=> Noted(m)
  BY BodyView
<1>4. Pending(n) = {} /\ ~Spent(n)
  BY DEF Pending, Spent, Settled
<1>5. evs' = interest[n] \cap events[n] /\ evs' \ {Drop} = evs'
  BY DEF PollEvents
<1>6. Pending(n)' = interest[n] \cap events[n]
  BY <1>5 DEF Pending
<1>7. Spent(n)' <=> "oneshot" \in opts[n] /\ interest[n] \cap events[n] # {}
  <2>1. opt = opts[n] \/ interest[n] = {}
    BY DEF LookInv, OptionsKnown, Reads
  <2>. QED
    BY <1>6, <2>1 DEF Spent
<1>8. /\ absState[n] = "live" /\ absReady[n] = events[n] /\ absInterest[n] = interest[n]
      /\ UNCHANGED <<absState, absReady>>
  BY <1>1, <1>4 DEF absState, absReady, absInterest
<1>9. absNote[n] /\ (absOneshot[n] <=> "oneshot" \in opts[n])
  BY <1>1, <1>2, <1>4, NoteValue, OneshotValue
<1>10. absReport = Abstract!Nothing
  BY <1>3, <1>4 DEF absReport, Abstract!Nothing
<1>11. absReport' = [absReport EXCEPT ![n] = absInterest[n] \cap absReady[n]]
  BY <1>1, <1>3, <1>6, <1>8 DEF absReport
<1>. DEFINE disarm == absOneshot[n] /\ absInterest[n] \cap absReady[n] # {}
<1>12. disarm \in BOOLEAN /\ (Spent(n)' <=> disarm)
  BY <1>7, <1>8, <1>9, OneshotValue
<1>. HIDE DEF disarm
<1>13. absInterest' = [absInterest EXCEPT ![n] = IF disarm THEN {} ELSE @]
  BY <1>1, <1>3, <1>4, <1>12 DEF absInterest
<1>14. absOneshot' = [absOneshot EXCEPT ![n] = @ /\ ~disarm]
  <2>1. absOneshot'[n] <=> absOneshot[n] /\ ~disarm
    BY <1>1, <1>4, <1>12, OneshotValue
  <2>2. \A m \in Nodes \ {n} : absOneshot'[m] <=> absOneshot[m]
    BY <1>3, OneshotValue
  <2>3. (absOneshot[n] /\ ~disarm) \in BOOLEAN
    BY <1>1, <1>12, OneshotValue
  <2>. QED
    BY <1>1, <2>1, <2>2, <2>3, OneshotValue, FlagWrite
<1>15. absNote' \in {absNote, [absNote EXCEPT ![n] = FALSE]}
  <2>1. \A m \in Nodes \ {n} : absNote'[m] <=> absNote[m]
    BY <1>3, NoteValue
  <2>2. CASE absNote'[n]
    <3>1. \A m \in Nodes : absNote'[m] <=> absNote[m]
      BY <1>9, <2>1, <2>2
    <3>. QED
      BY <3>1, NoteValue, FlagKept
  <2>3. CASE ~absNote'[n]
    <3>1. absNote' = [absNote EXCEPT ![n] = FALSE]
      BY <1>1, <2>1, <2>3, NoteValue, FlagWrite
    <3>. QED
      BY <3>1
  <2>. QED
    BY <2>2, <2>3
<1>16. Abstract!Look(n)
  BY <1>8, <1>9, <1>10, <1>11, <1>13, <1>14, <1>15 DEF Abstract!Look, disarm
<1>. QED
  BY <1>1, <1>16 DEF Abstract!Next

\* poll reads the events of a node.
LEMMA ReadView ==
  ASSUME TypeOK, Good, LookInv, LoadEvents \/ Reread
  PROVE  Abstract!Next \/ UNCHANGED Abstract!vars
<1>. DEFINE p == PollThread
<1>. PICK n : n = node[p]
  OBVIOUS
<1>1. /\ UNCHANGED <<node, op, alive, events, queued, interest, opts, opt>> /\ evs' = PollEvents(n)
      /\ \/ pc[p] = "load_events" /\ Goto(p, "decide")
         \/ pc[p] = "reread" /\ Goto(p, "process")
  BY DEF LoadEvents, Reread, ReadEvents, sharedVars, ownerVars, dataVars
<1>2. p \in Threads /\ n \in Nodes /\ n \in alive /\ ThreadType
  BY <1>1, InBody DEF LoopSteps, Good
<1>3. /\ Others(p) /\ pc'[p] # "cas_queued"
      /\ \/ pc[p] = "load_events" /\ pc'[p] = "decide" /\ queued[n] = 1
         \/ pc[p] = "reread" /\ pc'[p] = "process"
  BY <1>1, <1>2, GotoEffect, InBody DEF LoopSteps
<1>4. CASE Settled(n)' /\ Drop \notin events[n]
  BY <1>1, <1>3, <1>4, SettleView
<1>5. CASE ~Settled(n)' \/ Drop \in events[n]
  <2>1. \A m \in Nodes \ {n} : /\ Pending(m) = {} /\ Pending(m)' = {} /\ ~Spent(m) /\ ~Spent(m)'
                               /\ Noted(m)' <=> Noted(m)
    BY <1>1, <1>3, BodyView
  <2>2. Pending(n) = {}
    BY <1>3 DEF Pending, Settled
  <2>3. Drop \in events[n] => evs' = {Drop}
    BY <1>1, <1>2 DEF LookInv, DropAlone, PollEvents
  <2>4. Pending(n)' = {}
    BY <1>5, <2>3 DEF Pending
  <2>5. Noted(n)
    BY <1>3 DEF Noted, Looking, AboutToReread
  <2>6. Noted(n)'
    <3>1. CASE pc[p] = "load_events"
      BY <1>1, <1>3, <3>1 DEF Noted
    <3>2. CASE pc[p] = "reread"
      <4>1. Settled(n)' /\ Drop \in evs'
        BY <1>1, <1>3, <1>5, <2>3, <3>2 DEF Settled
      <4>. QED
        BY <1>1, <1>3, <3>2, <4>1 DEF Noted, Looking
    <3>. QED
      BY <1>3, <3>1, <3>2
  <2>. QED
    BY <1>1, <2>1, <2>2, <2>4, <2>5, <2>6, SameView DEF Spent
<1>. QED
  BY <1>4, <1>5

\* unlink_node frees a dropped registration.
LEMMA FreeView ==
  ASSUME TypeOK, Good, LookInv, ProcessDrop
  PROVE  Abstract!Next
<1>. DEFINE p == PollThread
<1>. PICK n : n = node[p]
  OBVIOUS
<1>1. /\ pc[p] = "process" /\ Drop \in evs /\ alive' = alive \ {n} /\ Continue
      /\ UNCHANGED <<events, queued, interest, opts>>
  BY DEF ProcessDrop, sharedVars, dataVars
<1>2. p \in Threads /\ n \in Nodes /\ n \in alive /\ op[p] = "poll" /\ ThreadType
  BY <1>1, InBody DEF LoopSteps, Good
<1>3. Others(p) /\ pc'[p] = "next" /\ evs' = {}
  BY <1>1, <1>2, EnterEffect DEF Continue, Leave
<1>4. evs = {Drop} /\ Drop \in events[n] /\ events[n] = {Drop}
  BY <1>1, <1>2 DEF LookInv, SeenAlone, DropAlone, Good, ListInv, DropInv
<1>5. \A m \in Nodes \ {n} : /\ Pending(m) = {} /\ Pending(m)' = {} /\ ~Spent(m) /\ ~Spent(m)'
                             /\ Noted(m)' <=> Noted(m)
  BY <1>1, <1>3, BodyView
<1>6. Pending(n) = {} /\ Pending(n)' = {} /\ ~Spent(n) /\ ~Spent(n)' /\ Noted(n)
  BY <1>1, <1>3, <1>4 DEF Pending, Spent, Noted, Looking
<1>7. absState[n] = "dropped" /\ absState' = [absState EXCEPT ![n] = "free"]
  BY <1>1, <1>2, <1>4 DEF absState
<1>8. absReport = Abstract!Nothing /\ UNCHANGED <<absReady, absReport>>
  BY <1>1, <1>2, <1>4, <1>5, <1>6 DEF absReady, absReport, Abstract!Nothing
<1>9. absInterest' = [absInterest EXCEPT ![n] = {}]
  BY <1>1, <1>2, <1>5, <1>6 DEF absInterest
<1>10. absOneshot' = [absOneshot EXCEPT ![n] = FALSE]
  <2>1. ~absOneshot'[n] /\ \A m \in Nodes \ {n} : absOneshot'[m] <=> absOneshot[m]
    BY <1>1, <1>2, <1>5, OneshotValue
  <2>. QED
    BY <1>2, <2>1, OneshotValue, FlagWrite
<1>11. absNote[n] /\ absNote' = [absNote EXCEPT ![n] = FALSE]
  <2>1. absNote[n] /\ ~absNote'[n] /\ \A m \in Nodes \ {n} : absNote'[m] <=> absNote[m]
    BY <1>1, <1>2, <1>5, <1>6, NoteValue
  <2>. QED
    BY <1>2, <2>1, NoteValue, FlagWrite
<1>12. Abstract!Free(n)
  BY <1>7, <1>8, <1>9, <1>10, <1>11 DEF Abstract!Free
<1>. QED
  BY <1>2, <1>12 DEF Abstract!Next

\* push_event hands over what was seen and disarms a one-shot registration.
LEMMA DeliverView ==
  ASSUME TypeOK, Good, LookInv, ProcessEvent
  PROVE  Abstract!Next \/ UNCHANGED Abstract!vars
<1>. DEFINE p == PollThread
<1>. PICK n : n = node[p]
  OBVIOUS
<1>1. /\ pc[p] = "process" /\ Drop \notin evs /\ Continue /\ UNCHANGED <<alive, events, queued>>
      /\ interest' = [interest EXCEPT ![n] = IF evs # {} /\ "oneshot" \in opt THEN {} ELSE @]
      /\ opts' = [opts EXCEPT ![n] = IF evs # {} /\ "oneshot" \in opt THEN {} ELSE @]
  BY DEF ProcessEvent, sharedVars, ownerVars
<1>2. p \in Threads /\ n \in Nodes /\ n \in alive /\ op[p] = "poll" /\ ThreadType
  BY <1>1, InBody DEF LoopSteps, Good
<1>3. Others(p) /\ pc'[p] = "next" /\ evs' = {}
  BY <1>1, <1>2, EnterEffect DEF Continue, Leave
<1>4. /\ \A m \in Nodes : AboutToQueue(m)' <=> AboutToQueue(m)
      /\ \A m \in Nodes \ {n} : /\ Pending(m) = {} /\ Pending(m)' = {} /\ ~Spent(m) /\ ~Spent(m)'
                                /\ Noted(m)' <=> Noted(m)
  BY <1>1, <1>3, BodyView
<1>5. Pending(n) = evs /\ (Spent(n) <=> evs # {} /\ "oneshot" \in opt)
  <2>1. Settled(n) /\ evs \ {Drop} = evs
    BY <1>1 DEF Settled
  <2>. QED
    BY <2>1 DEF Pending, Spent
<1>6. Pending(n)' = {} /\ ~Spent(n)'
  BY <1>3 DEF Pending, Spent
<1>7. Noted(n)' <=> Noted(n)
  <2>1. ~Looking(n) /\ ~Looking(n)'
    BY <1>1, <1>3 DEF Looking, AboutToReread
  <2>. QED
    BY <1>1, <1>2, <1>4, <2>1 DEF Noted
<1>8. UNCHANGED <<absState, absReady, absNote>>
  <2>1. \A m \in Nodes : Noted(m)' <=> Noted(m)
    BY <1>4, <1>7
  <2>. QED
    BY <1>1, <2>1 DEF absState, absReady, absNote
<1>9. absInterest' = absInterest
  <2>1. interest'[n] = (IF Spent(n) THEN {} ELSE interest[n]) /\ \A m \in Nodes \ {n} : interest'[m] = interest[m]
    BY <1>1, <1>2, <1>5 DEF TypeOK
  <2>. QED
    BY <1>1, <1>4, <1>6, <2>1 DEF absInterest
<1>10. absOneshot' = absOneshot
  <2>1. opts'[n] = (IF Spent(n) THEN {} ELSE opts[n]) /\ \A m \in Nodes \ {n} : opts'[m] = opts[m]
    BY <1>1, <1>2, <1>5 DEF TypeOK
  <2>2. \A m \in Nodes : absOneshot'[m] <=> absOneshot[m]
    BY <1>1, <1>4, <1>6, <2>1, OneshotValue
  <2>. QED
    BY <2>2, OneshotValue, FlagKept
<1>11. absReport' = Abstract!Nothing /\ absReport[n] = evs
  BY <1>2, <1>4, <1>5, <1>6 DEF absReport, Abstract!Nothing
<1>12. CASE evs # {}
  <2>1. absReport # Abstract!Nothing
    BY <1>2, <1>11, <1>12 DEF Abstract!Nothing
  <2>. QED
    BY <1>8, <1>9, <1>10, <1>11, <2>1 DEF Abstract!Next, Abstract!Deliver, Abstract!regVars
<1>13. CASE evs = {}
  <2>1. absReport' = absReport
    BY <1>4, <1>5, <1>6, <1>13 DEF absReport
  <2>. QED
    BY <1>8, <1>9, <1>10, <2>1 DEF Abstract!vars, Abstract!regVars
<1>. QED
  BY <1>12, <1>13

\* Every step of the queue is a step of Readiness or changes nothing in it.
LEMMA StepView ==
  ASSUME TypeOK, Good, LookInv, ThreadInv', [Next]_vars
  PROVE  [Abstract!Next]_(Abstract!vars)
<1>1. ASSUME NEW t \in Threads, Call(t) PROVE Abstract!Next \/ UNCHANGED Abstract!vars
  BY <1>1, SetView, HandleView, DisableView DEF Call
<1>2. ASSUME NEW t \in Threads, Step(t) PROVE Abstract!Next \/ UNCHANGED Abstract!vars
  BY <1>2, LastDropView, QueueView DEF Step
<1>3. CASE Register
  BY <1>3, NewView, UpdateView DEF Register
<1>4. CASE PollStart \/ PollStep \/ SelectOther \/ SelectInterrupted
  BY <1>4, WalkView, NextView, ReadView, DecideView, FreeView, DeliverView DEF PollStep
<1>5. CASE UNCHANGED vars
  <2>1. /\ UNCHANGED <<alive, events, queued, interest, opts, evs, opt, pc, node, op>>
    BY <1>5 DEF vars, sharedVars, ownerVars, dataVars, threadVars, pollVars
  <2>2. \A n \in Nodes : Pending(n)' = Pending(n) /\ (Spent(n)' <=> Spent(n)) /\ (Noted(n)' <=> Noted(n))
    BY <2>1 DEF Pending, Spent, Settled, Noted, AboutToQueue, Looking, AboutToReread
  <2>. QED
    BY <2>1, <2>2, SameView
<1>. QED
  BY <1>1, <1>2, <1>3, <1>4, <1>5 DEF Next

\* The queue of atomic accesses implements Readiness, for any numbers of nodes and
\* setters: set_readiness, update, drop and poll behave as calls that happen at once,
\* poll reports what was ready and of interest at one instant, and no readiness
\* leaves the queue without poll having read it.
THEOREM Refinement ==
  ASSUME LastDroppers \subseteq {PollThread}
  PROVE  Spec => ImplementsReadiness
<1>. DEFINE Inv == IInv /\ ReturnInv /\ ListInv
<1>1. Init => Abstract!Init
  <2>. SUFFICES ASSUME Init PROVE Abstract!Init
    OBVIOUS
  <2>1. alive = {} /\ PollThread \in Threads /\ pc[PollThread] = "idle"
    BY DEF Init, Threads
  <2>2. \A n \in Nodes : Pending(n) = {}
    BY <2>1 DEF Pending, Settled
  <2>3. absState = [n \in Nodes |-> "free"] /\ absReady = Abstract!Nothing
    BY <2>1 DEF absState, absReady, Abstract!Nothing
  <2>4. absInterest = Abstract!Nothing /\ absReport = Abstract!Nothing
    BY <2>1, <2>2 DEF absInterest, absReport, Abstract!Nothing
  <2>5. absOneshot = [n \in Nodes |-> FALSE] /\ absNote = [n \in Nodes |-> FALSE]
    BY <2>1 DEF absOneshot, absNote
  <2>. QED
    BY <2>3, <2>4, <2>5 DEF Abstract!Init
<1>2. Init => LookInv
  BY DEF Init, LookInv, DropAlone, SeenAlone, StoredOnce, OptionsKnown, Threads, Reads
<1>3. Inv /\ LookInv /\ [Next]_vars => LookInv'
  <2>. SUFFICES ASSUME Inv, LookInv, [Next]_vars PROVE LookInv'
    OBVIOUS
  <2>1. TypeOK /\ Good
    BY GoodHolds DEF IInv
  <2>2. CASE UNCHANGED vars
    BY <2>2 DEF vars, sharedVars, dataVars, threadVars, pollVars, LookInv, DropAlone, SeenAlone, StoredOnce, OptionsKnown
  <2>3. PollThread \in Threads
    BY DEF Threads
  <2>. QED
    BY <2>1, <2>2, <2>3, LookCalls, LookSteps, LookPoll DEF Next
<1>4. Inv /\ LookInv /\ Inv' /\ [Next]_vars => [Abstract!Next]_(Abstract!vars)
  <2>. SUFFICES ASSUME Inv, LookInv, Inv', [Next]_vars PROVE [Abstract!Next]_(Abstract!vars)
    OBVIOUS
  <2>1. TypeOK /\ Good /\ ThreadInv'
    BY GoodHolds DEF IInv, ControlInv
  <2>. QED
    BY <2>1, StepView
<1>5. Spec => []Inv
  BY Ownership
<1>. HIDE DEF Inv
<1>. QED
  BY <1>1, <1>2, <1>3, <1>4, <1>5, PTL DEF Spec, ImplementsReadiness, Abstract!Spec

=============================================================================
