--------------------------- MODULE ReadinessQueue ---------------------------
(***************************************************************************)
(* The readiness queue of Poll (src/src/poll.rs): user-space readiness set *)
(* from any thread through SetReadiness and collected by the thread that   *)
(* owns the Poll.                                                          *)
(*                                                                         *)
(* Every action is one atomic access of the code (a load, store, CAS, swap *)
(* or system call) together with the thread-local computation up to the    *)
(* next one.  Memory is sequentially consistent.  Nodes are the heap cells *)
(* the allocator may return; a cell that was freed may be allocated again. *)
(* Locals are cleared when they are dead.                                  *)
(***************************************************************************)
EXTENDS Naturals, FiniteSets

CONSTANTS
  Nodes,        \* addresses of ReadinessNode cells
  Setters,      \* threads other than the one that owns the Poll
  PollThread,   \* the thread that owns the Poll
  Ready,        \* the readiness kinds a user may set (readable, writable, ...)
  InterestChoices, OptChoices, \* the interests and PollOpts registrations use
  RegThreads,   \* threads that may hold (and drop) a Registration
  LastDroppers, \* threads that may drop the last handle of a node
  PipeCap,      \* capacity of the awakener's pipe, in bytes
  NULL, SLEEP   \* the null pointer and the address of the sleep_token node

Threads == Setters \cup {PollThread}

\* The private readiness bit event::drop(), and the two PollOpt bits the queue
\* looks at (level is the absence of edge).
Drop == "drop"
PollOpt == {"edge", "oneshot"}

ASSUME ThreadsAssumption == IsFiniteSet(Setters) /\ PollThread \notin Setters /\ NULL \notin Threads
ASSUME DropAssumption == RegThreads \subseteq Threads /\ LastDroppers \subseteq Threads
ASSUME PointersAssumption == NULL \notin Nodes /\ SLEEP \notin Nodes /\ NULL # SLEEP
ASSUME ReadyAssumption == Drop \notin Ready
ASSUME DataAssumption == InterestChoices \subseteq SUBSET Ready /\ OptChoices \subseteq SUBSET PollOpt
ASSUME PipeAssumption == PipeCap \in Nat \ {0}

VARIABLES
  head,         \* head_readiness: NULL, SLEEP or the first queued node
  next,         \* next_readiness of each node
  events,       \* the events word of each node
  queued,       \* the queued word of each node
  refs,         \* ref_count of each node
  alive,        \* the nodes owned by head_all_nodes
  regOwner,     \* the thread holding the Registration of each node, or NULL
  handles,      \* the threads holding a SetReadiness handle of each node
  interest,     \* RegistrationData of each node
  opts,
  pipe,         \* bytes in the awakener's pipe
  edge,         \* the selector has an unreported edge for the pipe's reader
  pc,           \* the next atomic access of each thread
  node,         \* the node each thread works on
  cur,          \* curr_head in prepend_readiness_node
  op,           \* the caller of queue_for_processing / prepend_readiness_node
  ready,        \* the ReadyList iterated by ReadinessQueue::poll
  block,        \* Poll::poll passed the user's timeout on, rather than zero
  opt, evs, lq, \* the locals opts, events and queued of ReadinessQueue::poll
  owed,         \* history: readiness was stored (or a ready node re-registered)
                \* and Poll has not read the node's events since
  armed         \* history: the registration may still report events

sharedVars == <<head, next, events, queued>>
ownerVars  == <<refs, alive, regOwner, handles>>
dataVars   == <<interest, opts>>
wakeVars   == <<pipe, edge>>
threadVars == <<pc, node, cur, op>>
pollVars   == <<ready, block, opt, evs, lq>>
history    == <<owed, armed>>
vars == <<sharedVars, ownerVars, dataVars, wakeVars, threadVars, pollVars, history>>

SetSteps  == {"store_drop", "cas_queued", "load_head", "cas_head", "wakeup"}
PollSteps == {"prepare", "select", "cleanup", "take", "next", "load_events",
              "decide", "reread", "process"}

\* The type invariant.  ref_count is a natural number: more handles are never
\* dropped than were counted (Registration::new, RegistrationInner::clone and drop).
TypeOK ==
  /\ head \in Nodes \cup {NULL, SLEEP}
  /\ next \in [Nodes -> Nodes \cup {NULL}]
  /\ events \in [Nodes -> SUBSET (Ready \cup {Drop})]
  /\ queued \in [Nodes -> {0, 1}]
  /\ refs \in [Nodes -> Nat]
  /\ alive \subseteq Nodes
  /\ regOwner \in [Nodes -> Threads \cup {NULL}]
  /\ handles \in [Nodes -> SUBSET Threads]
  /\ interest \in [Nodes -> SUBSET Ready]
  /\ opts \in [Nodes -> SUBSET PollOpt]
  /\ pipe \in 0..PipeCap
  /\ edge \in BOOLEAN
  /\ pc \in [Threads -> {"idle"} \cup SetSteps \cup PollSteps]
  /\ node \in [Threads -> Nodes \cup {NULL}]
  /\ cur \in [Threads -> Nodes \cup {NULL, SLEEP}]
  /\ op \in [Threads -> {"set_readiness", "update", "poll"}]
  /\ ready \in Nodes \cup {NULL}
  /\ block \in BOOLEAN
  /\ opt \subseteq PollOpt
  /\ evs \subseteq Ready \cup {Drop}
  /\ lq \in {0, 1}
  /\ owed \in [Nodes -> BOOLEAN]
  /\ armed \in [Nodes -> BOOLEAN]

Init ==
  /\ head = NULL
  /\ next = [n \in Nodes |-> NULL]
  /\ events = [n \in Nodes |-> {}]
  /\ queued = [n \in Nodes |-> 0]
  /\ refs = [n \in Nodes |-> 0]
  /\ alive = {}
  /\ regOwner = [n \in Nodes |-> NULL]
  /\ handles = [n \in Nodes |-> {}]
  /\ interest = [n \in Nodes |-> {}]
  /\ opts = [n \in Nodes |-> {}]
  /\ pipe = 0
  /\ edge = FALSE
  /\ pc = [t \in Threads |-> "idle"]
  /\ node = [t \in Threads |-> NULL]
  /\ cur = [t \in Threads |-> NULL]
  /\ op = [t \in Threads |-> "set_readiness"]
  /\ ready = NULL
  /\ block = FALSE
  /\ opt = {}
  /\ evs = {}
  /\ lq = 0
  /\ owed = [n \in Nodes |-> FALSE]
  /\ armed = [n \in Nodes |-> FALSE]

Goto(t, l) == pc' = [pc EXCEPT ![t] = l]

\* Thread t continues at l with node n, on behalf of caller o.
Enter(t, l, n, o) ==
  /\ Goto(t, l)
  /\ node' = [node EXCEPT ![t] = n]
  /\ op' = [op EXCEPT ![t] = o]
  /\ cur' = [cur EXCEPT ![t] = NULL]

Leave(t, l) == Enter(t, l, NULL, "set_readiness")

-----------------------------------------------------------------------------
(* Registration handles.                                                   *)

\* Mutant: the count is that of one handle, not of the two that are returned.
RegistrationNewOneRef(n, i, o) ==
  /\ pc[PollThread] = "idle"
  /\ n \notin alive
  /\ alive' = alive \cup {n}
  /\ regOwner' = [regOwner EXCEPT ![n] = PollThread]
  /\ handles' = [handles EXCEPT ![n] = {PollThread}]
  /\ refs' = [refs EXCEPT ![n] = 1]
  /\ interest' = [interest EXCEPT ![n] = i]
  /\ opts' = [opts EXCEPT ![n] = o]
  /\ next' = [next EXCEPT ![n] = NULL]
  /\ events' = [events EXCEPT ![n] = {}]
  /\ queued' = [queued EXCEPT ![n] = 0]
  /\ owed' = [owed EXCEPT ![n] = FALSE]
  /\ armed' = [armed EXCEPT ![n] = TRUE]
  /\ UNCHANGED <<head, wakeVars, threadVars, pollVars>>

\* Registration::new, on the owner of the Poll: a fresh node with the count of
\* its Registration and its SetReadiness (the local RegistrationInner that made
\* both is dropped before the function returns).
RegistrationNew(n, i, o) ==
  /\ pc[PollThread] = "idle"
  /\ n \notin alive
  /\ alive' = alive \cup {n}
  /\ regOwner' = [regOwner EXCEPT ![n] = PollThread]
  /\ handles' = [handles EXCEPT ![n] = {PollThread}]
  /\ refs' = [refs EXCEPT ![n] = 2]
  /\ interest' = [interest EXCEPT ![n] = i]
  /\ opts' = [opts EXCEPT ![n] = o]
  /\ next' = [next EXCEPT ![n] = NULL]
  /\ events' = [events EXCEPT ![n] = {}]
  /\ queued' = [queued EXCEPT ![n] = 0]
  /\ owed' = [owed EXCEPT ![n] = FALSE]
  /\ armed' = [armed EXCEPT ![n] = TRUE]
  /\ UNCHANGED <<head, wakeVars, threadVars, pollVars>>

\* Mutant: the clone is not counted.
SetReadinessCloneUncounted(t, u, n) ==
  /\ pc[t] = "idle"
  /\ t \in handles[n] /\ u \notin handles[n]
  /\ handles' = [handles EXCEPT ![n] = @ \cup {u}]
  /\ UNCHANGED <<sharedVars, refs, alive, regOwner, dataVars, wakeVars, threadVars, pollVars, history>>

\* RegistrationInner::clone by t, the new SetReadiness going to thread u.
SetReadinessClone(t, u, n) ==
  /\ pc[t] = "idle"
  /\ t \in handles[n] /\ u \notin handles[n]
  /\ handles' = [handles EXCEPT ![n] = @ \cup {u}]
  /\ refs' = [refs EXCEPT ![n] = @ + 1]
  /\ UNCHANGED <<sharedVars, alive, regOwner, dataVars, wakeVars, threadVars, pollVars, history>>

\* Mutant: the drop event is stored one handle early.
ReleaseRefEarly(t, n) ==
  /\ refs[n] <= 2 => t \in LastDroppers
  /\ refs' = [refs EXCEPT ![n] = @ - 1]
  /\ IF refs[n] <= 2 THEN Enter(t, "store_drop", n, "set_readiness")
                     ELSE Leave(t, "idle")

\* RegistrationInner::drop of one handle: fetch_sub, and when it was the last
\* one set_readiness(event::drop()) follows.  LastDroppers is the discipline of
\* the user program on who drops last.
ReleaseRef(t, n) ==
  /\ refs[n] = 1 => t \in LastDroppers
  /\ refs' = [refs EXCEPT ![n] = @ - 1]
  /\ IF refs[n] = 1 THEN Enter(t, "store_drop", n, "set_readiness")
                    ELSE Leave(t, "idle")

SetReadinessDrop(t, n) ==
  /\ pc[t] = "idle"
  /\ t \in handles[n]
  /\ handles' = [handles EXCEPT ![n] = @ \ {t}]
  /\ ReleaseRef(t, n)
  /\ UNCHANGED <<sharedVars, alive, regOwner, dataVars, wakeVars, pollVars, history>>

\* Registration is Send: its holder may move it to another thread.
RegistrationSend(t, u, n) ==
  /\ pc[t] = "idle"
  /\ regOwner[n] = t /\ u # t /\ u \in RegThreads
  /\ regOwner' = [regOwner EXCEPT ![n] = u]
  /\ UNCHANGED <<sharedVars, refs, alive, handles, dataVars, wakeVars, threadVars, pollVars, history>>

\* Registration::drop disables the registration data and drops the
\* RegistrationInner.  On a thread that does not own the Poll the two writes of
\* disable() race with the reads of ReadinessQueue::poll; poll reads opts before
\* interest and disable writes them in the opposite order, so what poll can see
\* is what it sees when both are written at once, between its two reads.
RegistrationDrop(t, n) ==
  /\ pc[t] = "idle"
  /\ regOwner[n] = t /\ t \in RegThreads
  /\ regOwner' = [regOwner EXCEPT ![n] = NULL]
  /\ interest' = [interest EXCEPT ![n] = {}]
  /\ opts' = [opts EXCEPT ![n] = {}]
  /\ armed' = [armed EXCEPT ![n] = FALSE]
  /\ ReleaseRef(t, n)
  /\ UNCHANGED <<sharedVars, alive, handles, wakeVars, pollVars, owed>>

\* Mutant: a ready node is not queued again by update.
RegistrationUpdateNoRequeue(n, i, o) ==
  /\ pc[PollThread] = "idle"
  /\ regOwner[n] = PollThread
  /\ interest' = [interest EXCEPT ![n] = i]
  /\ opts' = [opts EXCEPT ![n] = o]
  /\ armed' = [armed EXCEPT ![n] = i # {}]
  /\ owed' = [owed EXCEPT ![n] = @ \/ events[n] # {}]
  /\ Leave(PollThread, "idle")
  /\ UNCHANGED <<sharedVars, ownerVars, wakeVars, pollVars>>

\* Registration::update and deregister, on the owner of the Poll: new data, and
\* a node that is ready is queued again.
RegistrationUpdate(n, i, o) ==
  /\ pc[PollThread] = "idle"
  /\ regOwner[n] = PollThread
  /\ interest' = [interest EXCEPT ![n] = i]
  /\ opts' = [opts EXCEPT ![n] = o]
  /\ armed' = [armed EXCEPT ![n] = i # {}]
  /\ owed' = [owed EXCEPT ![n] = @ \/ events[n] # {}]
  /\ IF events[n] # {} THEN Enter(PollThread, "cas_queued", n, "update")
                       ELSE Leave(PollThread, "idle")
  /\ UNCHANGED <<sharedVars, ownerVars, wakeVars, pollVars>>

-----------------------------------------------------------------------------
(* RegistrationInner::set_readiness, on any thread.                        *)

StoreEvents(t, n, r) ==
  /\ events' = [events EXCEPT ![n] = r]
  /\ owed' = [owed EXCEPT ![n] = @ \/ r # {}]
  /\ IF r # {} THEN Enter(t, "cas_queued", n, "set_readiness")
               ELSE Leave(t, "idle")
  /\ UNCHANGED <<head, next, queued, ownerVars, dataVars, wakeVars, pollVars, armed>>

SetReadiness(t, n, r) ==
  /\ pc[t] = "idle"
  /\ t \in handles[n]
  /\ StoreEvents(t, n, r)

StoreDrop(t) ==
  /\ pc[t] = "store_drop"
  /\ StoreEvents(t, node[t], {Drop})

\* Mutant: set_readiness ignores that the poll must be woken up.
ReturnNoWakeup(t, needsWakeup) ==
  IF op[t] = "poll" THEN Enter(t, "process", node[t], "poll") ELSE Leave(t, "idle")

\* Where a thread goes when queue_for_processing or prepend_readiness_node
\* returns needs_wakeup to its caller.  update() and poll() only assert on it.
Return(t, needsWakeup) ==
  CASE op[t] = "set_readiness" -> Leave(t, IF needsWakeup THEN "wakeup" ELSE "idle")
    [] op[t] = "update"        -> Leave(t, "idle")
    [] op[t] = "poll"          -> Enter(t, "process", node[t], "poll")

\* Mutant: the node is prepended whether or not the flag was won.
CasQueuedAlways(t) ==
  /\ pc[t] = "cas_queued"
  /\ queued' = [queued EXCEPT ![node[t]] = 1]
  /\ Enter(t, "load_head", node[t], op[t])
  /\ UNCHANGED <<head, next, events, ownerVars, dataVars, wakeVars, pollVars, history>>

\* queue_for_processing: the thread that sets the queued flag prepends the node.
CasQueued(t) ==
  /\ pc[t] = "cas_queued"
  /\ IF queued[node[t]] = 0
       THEN queued' = [queued EXCEPT ![node[t]] = 1] /\ Enter(t, "load_head", node[t], op[t])
       ELSE UNCHANGED queued /\ Return(t, FALSE)
  /\ UNCHANGED <<head, next, events, ownerVars, dataVars, wakeVars, pollVars, history>>

\* prepend_readiness_node: next_readiness is rewritten whenever curr_head is
\* (re-)read; the thread owns the field while the node is in its hand.
ReadHead(t) ==
  /\ cur' = [cur EXCEPT ![t] = head]
  /\ next' = [next EXCEPT ![node[t]] = IF head = SLEEP THEN NULL ELSE head]

LoadHead(t) ==
  /\ pc[t] = "load_head"
  /\ ReadHead(t)
  /\ Goto(t, "cas_head")
  /\ UNCHANGED <<head, events, queued, ownerVars, dataVars, wakeVars, node, op, pollVars, history>>

CasHead(t) ==
  /\ pc[t] = "cas_head"
  /\ IF head = cur[t]
       THEN /\ head' = node[t]
            /\ Return(t, cur[t] = SLEEP)
            /\ UNCHANGED next
       ELSE ReadHead(t) /\ UNCHANGED <<head, pc, node, op>>
  /\ UNCHANGED <<events, queued, ownerVars, dataVars, wakeVars, pollVars, history>>

\* Awakener::wakeup: one byte into the pipe; a full pipe (WouldBlock) is success.
Wakeup(t) ==
  /\ pc[t] = "wakeup"
  /\ IF pipe < PipeCap THEN pipe' = pipe + 1 /\ edge' = TRUE
                       ELSE UNCHANGED wakeVars
  /\ Goto(t, "idle")
  /\ UNCHANGED <<sharedVars, ownerVars, dataVars, node, cur, op, pollVars, history>>

-----------------------------------------------------------------------------
(* Poll::poll, on the owner of the Poll.                                   *)

\* is_empty(): never block when the queue is not empty.
PollStart ==
  /\ pc[PollThread] = "idle"
  /\ Goto(PollThread, IF head # NULL THEN "select" ELSE "prepare")
  /\ UNCHANGED <<sharedVars, ownerVars, dataVars, wakeVars, node, cur, op, pollVars, history>>

\* Mutant: poll sleeps although its CAS failed.
PrepareForSleepUnchecked ==
  /\ pc[PollThread] = "prepare"
  /\ head' = IF head = NULL THEN SLEEP ELSE head
  /\ block' = TRUE
  /\ Goto(PollThread, "select")
  /\ UNCHANGED <<next, events, queued, ownerVars, dataVars, wakeVars, node, cur, op, ready, opt, evs, lq, history>>

PrepareForSleep ==
  /\ pc[PollThread] = "prepare"
  /\ IF head = NULL THEN head' = SLEEP /\ block' = TRUE
                    ELSE head' = head /\ block' = FALSE
  /\ Goto(PollThread, "select")
  /\ UNCHANGED <<next, events, queued, ownerVars, dataVars, wakeVars, node, cur, op, ready, opt, evs, lq, history>>

\* Selector::select reports AWAKEN: the edge-triggered reader has an unreported
\* edge and bytes to read.
Signalled == edge /\ pipe > 0

SelectAwoken ==
  /\ pc[PollThread] = "select"
  /\ Signalled
  /\ edge' = FALSE
  /\ Goto(PollThread, "cleanup")
  /\ UNCHANGED <<sharedVars, ownerVars, dataVars, pipe, node, cur, op, pollVars, history>>

\* select returns without AWAKEN: its timeout elapsed, or file descriptors were
\* ready (and may have filled the buffer, so this does not exclude Signalled).
SelectOther ==
  /\ pc[PollThread] = "select"
  /\ Goto(PollThread, "take")
  /\ UNCHANGED <<sharedVars, ownerVars, dataVars, wakeVars, node, cur, op, pollVars, history>>

\* A select that may sleep fails with EINTR and try! returns: the sleep token
\* stays in the queue.
SelectInterrupted ==
  /\ pc[PollThread] = "select" /\ block
  /\ block' = FALSE
  /\ Goto(PollThread, "idle")
  /\ UNCHANGED <<sharedVars, ownerVars, dataVars, wakeVars, node, cur, op, ready, opt, evs, lq, history>>

\* Awakener::cleanup reads until the pipe is empty.
Cleanup ==
  /\ pc[PollThread] = "cleanup"
  /\ pipe' = 0
  /\ Goto(PollThread, "take")
  /\ UNCHANGED <<sharedVars, ownerVars, dataVars, edge, node, cur, op, pollVars, history>>

\* Mutant: the sleep token is put back.
TakeReadyKeepToken ==
  /\ pc[PollThread] = "take"
  /\ ready' = IF head = SLEEP THEN NULL ELSE head
  /\ head' = IF head = SLEEP THEN SLEEP ELSE NULL
  /\ block' = FALSE
  /\ Goto(PollThread, "next")
  /\ UNCHANGED <<next, events, queued, ownerVars, dataVars, wakeVars, node, cur, op, opt, evs, lq, history>>

TakeReady ==
  /\ pc[PollThread] = "take"
  /\ ready' = IF head = SLEEP THEN NULL ELSE head
  /\ head' = NULL
  /\ block' = FALSE
  /\ Goto(PollThread, "next")
  /\ UNCHANGED <<next, events, queued, ownerVars, dataVars, wakeVars, node, cur, op, opt, evs, lq, history>>

\* ReadyList::next unlinks the first node; opts and queued are read from it.
NextNode ==
  /\ pc[PollThread] = "next"
  /\ ready # NULL
  /\ ready' = next[ready]
  /\ next' = [next EXCEPT ![ready] = NULL]
  /\ opt' = opts[ready]
  /\ lq' = queued[ready]
  /\ Enter(PollThread, "load_events", ready, "poll")
  /\ UNCHANGED <<head, events, queued, ownerVars, dataVars, wakeVars, block, evs, history>>

\* The list is exhausted: Poll::poll returns.
PollReturn ==
  /\ pc[PollThread] = "next"
  /\ ready = NULL
  /\ Goto(PollThread, "idle")
  /\ UNCHANGED <<sharedVars, ownerVars, dataVars, wakeVars, node, cur, op, pollVars, history>>

\* Mutant: the drop bit is masked by the interest.
PollEventsNoDrop(n) == interest[n] \cap events[n]

PollEvents(n) == (interest[n] \cup {Drop}) \cap events[n]

ReadEvents(n) ==
  /\ evs' = PollEvents(n)
  /\ owed' = [owed EXCEPT ![n] = FALSE]

LoadEvents ==
  /\ pc[PollThread] = "load_events"
  /\ ReadEvents(node[PollThread])
  /\ Goto(PollThread, "decide")
  /\ UNCHANGED <<sharedVars, ownerVars, dataVars, wakeVars, node, cur, op, ready, block, opt, lq, armed>>

\* A dropped node leaves the loop at once.
DecideDrop ==
  /\ pc[PollThread] = "decide"
  /\ Drop \in evs
  /\ Goto(PollThread, "process")
  /\ UNCHANGED <<sharedVars, ownerVars, dataVars, wakeVars, node, cur, op, pollVars, history>>

\* Mutant: the events are not read again once the flag is unset.
DequeueNoReread ==
  LET n == node[PollThread] IN
  /\ pc[PollThread] = "decide"
  /\ Drop \notin evs
  /\ "edge" \in opt \/ evs = {}
  /\ queued' = [queued EXCEPT ![n] = 0]
  /\ Goto(PollThread, "process")
  /\ UNCHANGED <<head, next, events, ownerVars, dataVars, wakeVars, node, cur, op, pollVars, history>>

\* Edge-triggered or nothing to report: unset the queued flag.  A failed CAS
\* refreshes the local copy; either way the events are read again.
Dequeue ==
  LET n == node[PollThread] IN
  /\ pc[PollThread] = "decide"
  /\ Drop \notin evs
  /\ "edge" \in opt \/ evs = {}
  /\ queued' = [queued EXCEPT ![n] = IF @ = lq THEN 0 ELSE @]
  /\ lq' = queued[n]
  /\ Goto(PollThread, IF queued[n] = lq THEN "reread" ELSE "load_events")
  /\ UNCHANGED <<head, next, events, ownerVars, dataVars, wakeVars, node, cur, op, ready, block, opt, evs, history>>

Reread ==
  /\ pc[PollThread] = "reread"
  /\ ReadEvents(node[PollThread])
  /\ Goto(PollThread, "process")
  /\ UNCHANGED <<sharedVars, ownerVars, dataVars, wakeVars, node, cur, op, ready, block, opt, lq, armed>>

\* Level-triggered with events: push the node back onto the queue.
Requeue ==
  /\ pc[PollThread] = "decide"
  /\ Drop \notin evs /\ "edge" \notin opt /\ evs # {}
  /\ Goto(PollThread, "load_head")
  /\ UNCHANGED <<sharedVars, ownerVars, dataVars, wakeVars, node, cur, op, pollVars, history>>

\* On to the next node of the ready list.
Continue ==
  /\ Leave(PollThread, "next")
  /\ opt' = {} /\ evs' = {} /\ lq' = 0
  /\ UNCHANGED <<ready, block>>

\* unlink_node: the node is taken off head_all_nodes and its box is freed.
ProcessDrop ==
  /\ pc[PollThread] = "process"
  /\ Drop \in evs
  /\ alive' = alive \ {node[PollThread]}
  /\ Continue
  /\ UNCHANGED <<sharedVars, refs, regOwner, handles, dataVars, wakeVars, history>>

\* Mutant: a one-shot registration is not disarmed.
ProcessEventNoDisarm ==
  LET n == node[PollThread] IN
  /\ pc[PollThread] = "process"
  /\ Drop \notin evs
  /\ armed' = [armed EXCEPT ![n] = @ /\ ~(evs # {} /\ "oneshot" \in opt)]
  /\ Continue
  /\ UNCHANGED <<sharedVars, ownerVars, dataVars, wakeVars, owed>>

\* push_event when there is something to report, and a one-shot registration is
\* disarmed by disable().
ProcessEvent ==
  LET n == node[PollThread]
      oneshot == evs # {} /\ "oneshot" \in opt IN
  /\ pc[PollThread] = "process"
  /\ Drop \notin evs
  /\ interest' = [interest EXCEPT ![n] = IF oneshot THEN {} ELSE @]
  /\ opts' = [opts EXCEPT ![n] = IF oneshot THEN {} ELSE @]
  /\ armed' = [armed EXCEPT ![n] = @ /\ ~oneshot]
  /\ Continue
  /\ UNCHANGED <<sharedVars, ownerVars, wakeVars, owed>>

-----------------------------------------------------------------------------

\* Calls into the queue by the user of each thread.
Call(t) ==
  \E n \in Nodes :
    \/ \E r \in SUBSET Ready : SetReadiness(t, n, r)
    \/ \E u \in Threads : SetReadinessClone(t, u, n)
    \/ SetReadinessDrop(t, n)
    \/ \E u \in Threads : RegistrationSend(t, u, n)
    \/ RegistrationDrop(t, n)

Register ==
  \E n \in Nodes, i \in InterestChoices, o \in OptChoices :
    RegistrationNew(n, i, o) \/ RegistrationUpdate(n, i, o)

\* The rest of a call once it has started.
Step(t) ==
  StoreDrop(t) \/ CasQueued(t) \/ LoadHead(t) \/ CasHead(t) \/ Wakeup(t)

PollStep ==
  \/ PrepareForSleep \/ SelectAwoken \/ Cleanup \/ TakeReady
  \/ NextNode \/ PollReturn \/ LoadEvents \/ DecideDrop \/ Dequeue \/ Reread \/ Requeue
  \/ ProcessDrop \/ ProcessEvent

Next ==
  \/ \E t \in Threads : Call(t) \/ Step(t)
  \/ Register
  \/ PollStart \/ PollStep \/ SelectOther \/ SelectInterrupted

Spec == Init /\ [][Next]_vars

-----------------------------------------------------------------------------
(* Properties.                                                             *)

\* The nodes reachable from pointer p along link: the least set that holds p and
\* the successor of each of its nodes.
Reach(link, p) ==
  {n \in Nodes : \A S \in SUBSET Nodes :
     ({p} \cup {link[m] : m \in S}) \cap Nodes \subseteq S => n \in S}

\* The list that starts at pointer p.
Chain(p) == Reach(next, p)

\* Thread t has won the queued flag of n and has not yet published n, or is the
\* Poll owner working on n before it gave the flag back.
InHand(t, n) ==
  /\ node[t] = n
  /\ \/ pc[t] \in {"load_head", "cas_head"}
     \/ pc[t] \in {"load_events", "decide"}
     \/ pc[t] = "process" /\ Drop \in evs /\ queued[n] = 1

AboutToQueue(n) == \E t \in Threads : pc[t] = "cas_queued" /\ node[t] = n
AboutToReread(n) == pc[PollThread] = "reread" /\ node[PollThread] = n

\* A blocked poll never sleeps over a non-empty queue: either the awakener's
\* edge is there to be reported, or the thread that replaced the sleep token is
\* about to write it (prepend_readiness_node's result, Poll::poll's order of
\* cleanup and take_ready, Awakener::wakeup on a full pipe).
NoLostWakeup ==
  pc[PollThread] = "select" /\ block /\ head \in Nodes
    => Signalled \/ \E t \in Threads : pc[t] = "wakeup"

\* Readiness that was stored, or re-registered, and not yet looked at by poll
\* has the node queued, a thread about to queue it, or poll about to re-read the
\* events after it reset the flag (set_readiness against the CAS and the re-read
\* in ReadinessQueue::poll).
NoLostReadiness ==
  \A n \in Nodes : owed[n] =>
    queued[n] = 1 \/ AboutToQueue(n) \/ AboutToReread(n)

\* The queued flag is a lock on next_readiness: a node whose flag is set is in
\* exactly one place (the shared list, the list poll iterates, or one thread's
\* hand), a node whose flag is clear is in none, and the two lists never share a
\* node ("Accessing this field requires winning the "queue" lock").
QueuedFlagIsOwnership ==
  /\ Chain(head) \cap Chain(ready) = {}
  /\ \A n \in alive :
       LET hands == {t \in Threads : InHand(t, n)}
           listed == n \in Chain(head) \cup Chain(ready)
       IN  /\ queued[n] = 1 <=> (listed \/ hands # {})
           /\ listed => hands = {}
           /\ Cardinality(hands) <= 1
  /\ \A m, n \in alive :
       m # n /\ queued[m] = 1 /\ queued[n] = 1 /\ next[m] # NULL /\ next[m] = next[n]
         => \E t \in Threads : node[t] \in {m, n} /\ pc[t] = "cas_head"

\* No pointer to a freed node survives: no thread inside a call, no list and no
\* handle refers to a node that ReadinessQueue::poll has unlinked ("there is also
\* no need to unset the queued bit as the node should not change anymore").
NoUseAfterFree ==
  /\ \A t \in Threads : pc[t] \in SetSteps \ {"wakeup"} => node[t] \in alive
  /\ Chain(head) \cup Chain(ready) \subseteq alive
  /\ {n \in Nodes : handles[n] # {} \/ regOwner[n] # NULL} \subseteq alive

\* The count is exact, and a node without handles is on its way to be freed: its
\* last dropper is still storing the drop event, or the event is stored and will
\* be seen (RegistrationInner::drop).
DroppedNodeIsReclaimed ==
  \A n \in alive :
    /\ refs[n] = Cardinality(handles[n]) + (IF regOwner[n] = NULL THEN 0 ELSE 1)
    /\ refs[n] = 0 =>
         \/ \E t \in Threads : pc[t] = "store_drop" /\ node[t] = n
         \/ /\ Drop \in events[n]
            /\ \/ queued[n] = 1
               \/ AboutToQueue(n) \/ AboutToReread(n)
               \/ pc[PollThread] = "process" /\ node[PollThread] = n /\ Drop \in evs

\* poll reports a registration only while it is armed: a one-shot registration is
\* reported once per (re-)registration, and a deregistered or dropped one never
\* (registration_data_mut().disable() in ReadinessQueue::poll, Registration::drop).
ReportsOnlyArmed ==
  pc[PollThread] = "process" /\ evs # {} /\ Drop \notin evs => armed[node[PollThread]]

\* Inside ReadinessQueue::poll the queue never holds the sleep token, so the
\* prepend of a level-triggered node never needs a wakeup: the debug_assert in
\* ReadinessQueue::poll, "something funky is going on".
RequeueNeedsNoWakeup ==
  pc[PollThread] \in {"next", "load_events", "decide", "reread", "process"} => head # SLEEP

\* The debug_assert of RegistrationInner::update, "something funky is going on":
\* re-queueing a ready node on update never asks for a wakeup.
UpdateNeedsNoWakeup ==
  ~ /\ pc[PollThread] = "cas_head" /\ op[PollThread] = "update"
    /\ cur[PollThread] = SLEEP /\ head = SLEEP

\* A level-triggered registration that is ready stays in the queue: whenever no
\* call is in progress, one whose interest and events meet is queued (the comment
\* on the loop of ReadinessQueue::poll, which removes a registration only when it
\* "is edge triggered" or its "event set contains no events").
LevelStaysQueued ==
  (\A t \in Threads : pc[t] = "idle") =>
    \A n \in Nodes :
      regOwner[n] # NULL /\ "edge" \notin opts[n] /\ interest[n] \cap events[n] # {}
        => queued[n] = 1

\* The threads that entered the queue are scheduled, the owner keeps calling
\* poll, and a zero timeout elapses; nothing is assumed of a blocked select other
\* than that it reports the awakener.
Fairness ==
  /\ \A t \in Threads : WF_vars(Step(t))
  /\ WF_vars(PollStep)
  /\ WF_vars(~block /\ SelectOther)
  /\ SF_vars(PollStart)

FairSpec == Spec /\ Fairness

\* Whatever is in the queue is eventually looked at by poll, even when poll had
\* gone to sleep first.
QueuedIsPolled ==
  \A n \in Nodes : (n \in Chain(head) /\ owed[n]) ~> ~owed[n]

\* A node that lost its last handle is eventually freed (the test
\* test_nodes_do_not_leak).
DroppedIsFreed ==
  \A n \in Nodes : (n \in Chain(head) /\ refs[n] = 0) ~> n \notin alive

=============================================================================
