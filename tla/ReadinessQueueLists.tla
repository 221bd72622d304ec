------------------------ MODULE ReadinessQueueLists -------------------------
(***************************************************************************)
(* The intrusive lists of the readiness queue: who owns a node and its     *)
(* next_readiness, and when a node may be freed.  For any number of nodes  *)
(* and setter threads, as long as the last handle of a node is dropped on  *)
(* the thread that owns the Poll.                                          *)
(***************************************************************************)
EXTENDS ReadinessQueueControl

\* The nodes of the shared list and of the list poll iterates.
Queue == Chain(head)
Batch == Chain(ready)
Listed == Queue \cup Batch

\* The two lists are disjoint and simple: no two listed nodes have the same
\* successor, and neither list is re-entered at its first node.  Outside the
\* loop of ReadinessQueue::poll the ready list is exhausted.
ShapeInv ==
  /\ Queue \cap Batch = {}
  /\ \A m, n \in Listed : m # n /\ next[m] \in Nodes => next[m] # next[n]
  /\ \A n \in Listed : next[n] \in Nodes => next[n] # head /\ next[n] # ready
  /\ ready # NULL => pc[PollThread] = "next" \/ op[PollThread] = "poll"

\* Thread t won the queued flag of its node and has neither published the node
\* nor given the flag back.
Holds(t) ==
  \/ pc[t] \in {"load_head", "cas_head", "load_events", "decide"}
  \/ pc[t] = "process" /\ Drop \in evs

\* The flag of a node is set exactly when the node is listed or held, by one
\* thread.
ListedFlag == \A n \in Listed : queued[n] = 1
HeldFlag == \A t \in Threads : Holds(t) => node[t] \notin Listed /\ queued[node[t]] = 1
OneHolder == \A t, u \in Threads : Holds(t) /\ Holds(u) /\ node[t] = node[u] => t = u
FlagOwned == \A n \in alive : queued[n] = 1 => n \in Listed \/ \E t \in Threads : Holds(t) /\ node[t] = n

\* The link of a node that is neither listed nor about to be is null; a node about
\* to be listed is linked to the head its thread has read.
LinkOwned == \A n \in alive : next[n] # NULL => n \in Listed \/ \E t \in Threads : pc[t] = "cas_head" /\ node[t] = n
LinkRead == \A t \in Threads : pc[t] = "cas_head" => next[node[t]] = IF cur[t] = SLEEP THEN NULL ELSE cur[t]

\* poll's copy of the flag is right.
LocalFlag == pc[PollThread] \in {"load_events", "decide"} => lq = 1

HoldInv == ListedFlag /\ HeldFlag /\ OneHolder /\ FlagOwned /\ LinkOwned /\ LinkRead /\ LocalFlag

\* Everything the threads and lists point to is allocated; a thread other than
\* the owner of the Poll holds a handle of its node throughout set_readiness.
LiveInv ==
  /\ Listed \subseteq alive
  /\ \A t \in Threads : pc[t] \in NodeSteps => node[t] \in alive
  /\ \A n \in Nodes : handles[n] # {} \/ regOwner[n] # NULL => n \in alive
  /\ \A t \in Threads : pc[t] \in {"cas_queued", "load_head", "cas_head"} /\ t # PollThread => t \in handles[node[t]]
  /\ \A t \in Threads : pc[t] = "store_drop" => t = PollThread /\ refs[node[t]] = 0

\* The drop event is stored once, after the last handle is gone; poll sees it
\* whenever it is there, and until poll frees the node it stays queued.
DropInv ==
  /\ \A n \in alive : Drop \in events[n] => refs[n] = 0
  /\ op[PollThread] = "poll" /\ pc[PollThread] # "load_events"
       => (Drop \in evs <=> Drop \in events[node[PollThread]])
  /\ \A n \in alive : refs[n] = 0 =>
       \/ \E t \in Threads : pc[t] = "store_drop" /\ node[t] = n
       \/ Drop \in events[n] /\ (queued[n] = 1 \/ AboutToQueue(n))

\* poll gives a node back, to the user of the flag or to the queue, only when it
\* was not dropped.
ReturnInv ==
  op[PollThread] = "poll" /\ pc[PollThread] \in {"reread", "load_head", "cas_head"} => Drop \notin evs

\* A node with a Registration or a SetReadiness is counted.
CountInv == \A n \in Nodes : handles[n] # {} \/ regOwner[n] # NULL => refs[n] # 0

\* Only the owner of the Poll drops a last handle.
OwnerDropsLast == LastDroppers \subseteq {PollThread}

ListInv == ShapeInv /\ HoldInv /\ LiveInv /\ DropInv

Links == [Nodes -> Nodes \cup {NULL}]

\* The fields of the nodes have their types.
NodeType ==
  /\ head \in Nodes \cup {NULL, SLEEP}
  /\ ready \in Nodes \cup {NULL}
  /\ next \in Links
  /\ events \in [Nodes -> SUBSET (Ready \cup {Drop})]
  /\ queued \in [Nodes -> {0, 1}]
  /\ refs \in [Nodes -> Nat]
  /\ alive \subseteq Nodes
  /\ regOwner \in [Nodes -> Threads \cup {NULL}]
  /\ handles \in [Nodes -> SUBSET Threads]

Good == ThreadType /\ NodeType /\ ThreadInv /\ CountInv /\ ReturnInv /\ ListInv

\* Most of the steps below are first-order: Zenon is asked before the SMT solver.
USE ZenonT(8), SMTT(20)

-----------------------------------------------------------------------------
(* Lists as sets of reachable nodes.                                       *)

\* A list holds its first node and, with a node, its successor.
LEMMA ReachHolds ==
  ASSUME NEW f \in Links, NEW p
  PROVE  /\ Reach(f, p) \subseteq Nodes
         /\ p \in Nodes => p \in Reach(f, p)
         /\ \A n \in Reach(f, p) : f[n] \in Nodes => f[n] \in Reach(f, p)
  BY DEF Reach, Links

\* A list is contained in every set with that property.
LEMMA ReachLeast ==
  ASSUME NEW f \in Links, NEW p, NEW S \in SUBSET Nodes,
         p \in Nodes => p \in S,
         \A n \in S : f[n] \in Nodes => f[n] \in S
  PROVE  Reach(f, p) \subseteq S
  BY DEF Reach, Links

\* A null pointer and the sleep token start an empty list.
LEMMA ReachNone ==
  ASSUME NEW f \in Links, NEW p, p \notin Nodes
  PROVE  Reach(f, p) = {}
<1>1. Reach(f, p) \subseteq {}
  BY ReachLeast, {} \in SUBSET Nodes
<1>. QED
  BY <1>1

\* A write to the link of a node outside a list leaves the list alone.
LEMMA ReachFrame ==
  ASSUME NEW f \in Links, NEW g \in Links, NEW p,
         \A n \in Reach(f, p) : g[n] = f[n]
  PROVE  Reach(g, p) = Reach(f, p)
<1>1. Reach(g, p) \subseteq Reach(f, p)
  BY ReachHolds, ReachLeast
<1>2. \A n \in Reach(g, p) : f[n] = g[n]
  BY <1>1
<1>3. Reach(f, p) \subseteq Reach(g, p)
  <2>1. Reach(g, p) \in SUBSET Nodes
    BY ReachHolds
  <2>2. p \in Nodes => p \in Reach(g, p)
    BY ReachHolds
  <2>3. \A n \in Reach(g, p) : f[n] \in Nodes => f[n] \in Reach(g, p)
    BY ReachHolds, <1>2
  <2>. QED
    BY <2>1, <2>2, <2>3, ReachLeast
<1>. QED
  BY <1>1, <1>3

\* prepend_readiness_node: the node whose link is the old head starts a list of
\* itself and the old list.
LEMMA ReachPrepend ==
  ASSUME NEW f \in Links, NEW x \in Nodes, NEW p, f[x] = p \/ (f[x] \notin Nodes /\ p \notin Nodes)
  PROVE  Reach(f, x) = {x} \cup Reach(f, p)
<1>1. Reach(f, x) \subseteq {x} \cup Reach(f, p)
  <2>. DEFINE S == {x} \cup Reach(f, p)
  <2>1. S \in SUBSET Nodes
    BY ReachHolds
  <2>2. \A n \in S : f[n] \in Nodes => f[n] \in S
    BY ReachHolds
  <2>. QED
    BY <2>1, <2>2, ReachLeast
<1>2. x \in Reach(f, x)
  BY ReachHolds
<1>3. Reach(f, p) \subseteq Reach(f, x)
  <2>1. Reach(f, x) \in SUBSET Nodes /\ (\A n \in Reach(f, x) : f[n] \in Nodes => f[n] \in Reach(f, x))
    BY ReachHolds
  <2>2. p \in Nodes => p \in Reach(f, x)
    BY <1>2, <2>1
  <2>. QED
    BY <2>1, <2>2, ReachLeast
<1>. QED
  BY <1>1, <1>2, <1>3

\* ReadyList::next: a list that does not return to its first node loses exactly
\* that node when it is unlinked.
LEMMA ReachPop ==
  ASSUME NEW f \in Links, NEW g \in Links, NEW x \in Nodes,
         g = [f EXCEPT ![x] = NULL],
         \A n \in Reach(f, x) : f[n] # x
  PROVE  Reach(g, f[x]) = Reach(f, x) \ {x}
<1>. DEFINE q == f[x]
            C == Reach(f, x)
<1>0. /\ C \subseteq Nodes /\ x \in C
      /\ \A n \in C : f[n] \in Nodes => f[n] \in C
  BY ReachHolds
<1>1. Reach(g, q) \subseteq C \ {x}
  <2>. DEFINE S == C \ {x}
  <2>1. S \in SUBSET Nodes
    BY <1>0
  <2>2. q \in Nodes => q \in S
    BY <1>0
  <2>3. \A n \in S : g[n] \in Nodes => g[n] \in S
    BY <1>0 DEF Links
  <2>. HIDE DEF S
  <2>4. Reach(g, q) \subseteq S
    BY <2>1, <2>2, <2>3, ReachLeast
  <2>. QED
    BY <2>4 DEF S
<1>2. C \subseteq {x} \cup Reach(g, q)
  <2>. DEFINE S == {x} \cup Reach(g, q)
  <2>0. /\ Reach(g, q) \subseteq Nodes /\ (q \in Nodes => q \in Reach(g, q))
        /\ \A n \in Reach(g, q) : g[n] \in Nodes => g[n] \in Reach(g, q)
    BY ReachHolds
  <2>1. S \in SUBSET Nodes /\ x \in S
    BY <2>0
  <2>2. \A n \in S : f[n] \in Nodes => f[n] \in S
    BY <2>0 DEF Links
  <2>. HIDE DEF S
  <2>3. C \subseteq S
    BY <2>1, <2>2, ReachLeast
  <2>. QED
    BY <2>3 DEF S
<1>. QED
  BY <1>1, <1>2


-----------------------------------------------------------------------------
(* Steps that leave the lists alone.                                       *)

SameLists == UNCHANGED <<next, Listed>>

LEMMA ListsKept == UNCHANGED <<head, next, ready>> => SameLists /\ UNCHANGED <<Queue, Batch>>
BY DEF SameLists, Queue, Batch, Listed, Chain

\* Nor do writes to the links of unlisted nodes change them.
LEMMA ListsFrame ==
  ASSUME next \in Links, next' \in Links, UNCHANGED <<head, ready>>, \A n \in Queue \cup Batch : next'[n] = next[n]
  PROVE  Queue' = Queue /\ Batch' = Batch
<1>1. \A n \in Reach(next, head) : next'[n] = next[n]
  BY DEF Queue, Chain
<1>2. Reach(next', head) = Reach(next, head)
  BY <1>1, ReachFrame
<1>3. \A n \in Reach(next, ready) : next'[n] = next[n]
  BY DEF Batch, Chain
<1>4. Reach(next', ready) = Reach(next, ready)
  BY <1>3, ReachFrame
<1>. QED
  BY <1>2, <1>4 DEF Queue, Batch, Chain

LEMMA ShapeKept ==
  ASSUME ShapeInv, UNCHANGED <<head, next, ready>>, ready # NULL => pc'[PollThread] = "next" \/ op'[PollThread] = "poll"
  PROVE  ShapeInv'
BY ListsKept DEF ShapeInv, SameLists

\* The same threads hold the same nodes.
LEMMA FlagsKept ==
  ASSUME HoldInv, UNCHANGED <<alive, queued, Listed>>,
         \A u \in Threads : (Holds(u)' <=> Holds(u)) /\ (Holds(u) => node'[u] = node[u])
  PROVE  ListedFlag' /\ HeldFlag' /\ OneHolder' /\ FlagOwned'
<1>1. ListedFlag' /\ HeldFlag'
  BY DEF HoldInv, ListedFlag, HeldFlag
<1>2. OneHolder'
  BY DEF HoldInv, OneHolder
<1>3. FlagOwned'
  BY DEF HoldInv, FlagOwned
<1>. QED
  BY <1>1, <1>2, <1>3

\* The same threads are about to list the same nodes.
LEMMA LinksKept ==
  ASSUME HoldInv, SameLists, alive' \subseteq alive,
         \A u \in Threads : /\ pc'[u] = "cas_head" <=> pc[u] = "cas_head"
                            /\ pc[u] = "cas_head" => node'[u] = node[u] /\ cur'[u] = cur[u]
  PROVE  LinkOwned' /\ LinkRead'
<1>1. LinkOwned'
  BY DEF HoldInv, SameLists, LinkOwned
<1>2. LinkRead'
  <2>. SUFFICES ASSUME NEW u \in Threads, pc'[u] = "cas_head"
                PROVE  next'[node'[u]] = IF cur'[u] = SLEEP THEN NULL ELSE cur'[u]
    BY DEF LinkRead
  <2>1. pc[u] = "cas_head" /\ node'[u] = node[u] /\ cur'[u] = cur[u] /\ next' = next
    BY DEF SameLists
  <2>. QED
    BY <2>1 DEF HoldInv, LinkRead
<1>. QED
  BY <1>1, <1>2

\* Thread t has no node in its hand, before and after.
LEMMA HoldKept ==
  ASSUME ThreadInv, HoldInv, NEW t \in Threads, Others(t), SameLists, UNCHANGED <<alive, queued>>,
         \A u \in Threads \ {t} : cur'[u] = cur[u],
         t = PollThread \/ UNCHANGED <<evs, lq>>,
         ~Holds(t), ~Holds(t)'
  PROVE  HoldInv'
<1>. USE DEF SameLists
<1>1. \A u \in Threads : (Holds(u)' <=> Holds(u)) /\ (Holds(u) => node'[u] = node[u])
  BY DEF Holds, Others, ThreadInv, LocalInv, PollSteps
<1>2. \A u \in Threads : (pc'[u] = "cas_head" <=> pc[u] = "cas_head") /\ (pc[u] = "cas_head" => node'[u] = node[u] /\ cur'[u] = cur[u])
  BY DEF Holds, Others
<1>3. LocalFlag'
  BY DEF HoldInv, LocalFlag, Holds, Others, Threads
<1>. QED
  BY <1>1, <1>2, <1>3, FlagsKept, LinksKept DEF HoldInv

\* Thread t keeps its node in its hand, and is not about to publish it.
LEMMA HoldOn ==
  ASSUME ThreadInv, HoldInv, NEW t \in Threads, Others(t), SameLists, UNCHANGED <<alive, queued, cur, lq>>,
         t = PollThread \/ UNCHANGED evs,
         Holds(t), Holds(t)', node'[t] = node[t], pc[t] # "cas_head", pc'[t] # "cas_head",
         pc'[PollThread] \in {"load_events", "decide"} => lq = 1
  PROVE  HoldInv'
<1>. USE DEF SameLists
<1>1. \A u \in Threads : (Holds(u)' <=> Holds(u)) /\ (Holds(u) => node'[u] = node[u])
  BY DEF Holds, Others, ThreadInv, LocalInv, PollSteps
<1>2. \A u \in Threads : (pc'[u] = "cas_head" <=> pc[u] = "cas_head") /\ (pc[u] = "cas_head" => node'[u] = node[u])
  BY DEF Others
<1>3. LocalFlag'
  BY DEF LocalFlag
<1>. QED
  BY <1>1, <1>2, <1>3, FlagsKept, LinksKept DEF HoldInv

\* Nothing is allocated, freed, cloned or dropped.
LEMMA LiveKept ==
  ASSUME LiveInv, NEW t \in Threads, Others(t), UNCHANGED <<alive, handles, regOwner, refs>>,
         Listed' \subseteq alive,
         pc'[t] # "store_drop",
         pc'[t] \in NodeSteps => node'[t] \in alive,
         pc'[t] \in {"cas_queued", "load_head", "cas_head"} /\ t # PollThread => t \in handles[node'[t]]
  PROVE  LiveInv'
BY DEF LiveInv, Others

\* No thread stores events or is done with queueing its node.
LEMMA DropKept ==
  ASSUME DropInv, NEW t \in Threads, Others(t), UNCHANGED <<alive, events, refs, queued>>,
         pc[t] \notin {"store_drop", "cas_queued"},
         t = PollThread \/ UNCHANGED evs,
         t = PollThread /\ op'[t] = "poll" /\ pc'[t] # "load_events"
           => (Drop \in evs' <=> Drop \in events[node'[t]])
  PROVE  DropInv'
<1>1. \A u \in Threads : pc[u] \in {"store_drop", "cas_queued"} => pc'[u] = pc[u] /\ node'[u] = node[u]
  BY DEF Others
<1>2. op'[PollThread] = "poll" /\ pc'[PollThread] # "load_events"
       => (Drop \in evs' <=> Drop \in events[node'[PollThread]])
  BY DEF DropInv, Others, Threads
<1>. QED
  BY <1>1, <1>2 DEF DropInv, AboutToQueue

-----------------------------------------------------------------------------
(* Nodes poll gives back.                                                  *)

LEMMA ReturnKept ==
  ASSUME ReturnInv, NEW t \in Threads, Others(t), t = PollThread \/ UNCHANGED evs,
         t = PollThread /\ op'[t] = "poll" /\ pc'[t] \in {"reread", "load_head", "cas_head"} => Drop \notin evs'
  PROVE  ReturnInv'
BY DEF ReturnInv, Others, Threads

LEMMA ReturnStep == ThreadType /\ ThreadInv /\ ReturnInv /\ [Next]_vars => ReturnInv'
<1>. SUFFICES ASSUME ThreadType, ThreadInv, ReturnInv, [Next]_vars PROVE ReturnInv'
  OBVIOUS
<1>. USE DEF threadVars, pollVars
<1>0. PollThread \in Threads
  BY DEF Threads
<1>1. ASSUME NEW t \in Threads, NEW n \in Nodes, NEW r \in SUBSET Ready, SetReadiness(t, n, r) PROVE ReturnInv'
  <2>1. Others(t) /\ op'[t] = "set_readiness"
    BY <1>0, <1>1, StoreEffect DEF SetReadiness
  <2>. QED
    BY <1>1, <2>1, ReturnKept DEF SetReadiness, StoreEvents
<1>2. ASSUME NEW t \in Threads, NEW n \in Nodes, SetReadinessDrop(t, n) \/ RegistrationDrop(t, n) PROVE ReturnInv'
  <2>1. Others(t) /\ op'[t] = "set_readiness"
    BY <1>0, <1>2, ReleaseEffect DEF SetReadinessDrop, RegistrationDrop
  <2>. QED
    BY <1>2, <2>1, ReturnKept DEF SetReadinessDrop, RegistrationDrop
<1>3. ASSUME NEW n \in Nodes, NEW i \in InterestChoices, NEW o \in OptChoices, RegistrationUpdate(n, i, o) PROVE ReturnInv'
  <2>1. Others(PollThread) /\ op'[PollThread] # "poll"
    BY <1>0, <1>3, EnterEffect DEF RegistrationUpdate, Leave
  <2>. QED
    BY <1>0, <1>3, <2>1, ReturnKept
<1>4. ASSUME UNCHANGED <<pc, op, evs>> PROVE ReturnInv'
  BY <1>4 DEF ReturnInv
<1>5. ASSUME NEW t \in Threads, StoreDrop(t) PROVE ReturnInv'
  <2>1. node[t] \in Nodes
    BY <1>5 DEF StoreDrop, ThreadInv, LocalInv, NodeSteps
  <2>2. Others(t) /\ op'[t] = "set_readiness"
    BY <1>0, <1>5, <2>1, StoreEffect DEF StoreDrop
  <2>. QED
    BY <1>5, <2>2, ReturnKept DEF StoreDrop, StoreEvents
<1>6. ASSUME NEW t \in Threads, CasQueued(t) PROVE ReturnInv'
  <2>1. op[t] # "poll" /\ UNCHANGED evs
    BY <1>6 DEF CasQueued, ThreadInv, LocalInv, LoopSteps
  <2>2. CASE queued[node[t]] = 0
    <3>1. Others(t) /\ op'[t] = op[t]
      BY <1>0, <1>6, <2>2, EnterEffect DEF CasQueued
    <3>. QED
      BY <2>1, <3>1, ReturnKept
  <2>3. CASE queued[node[t]] # 0
    <3>1. Others(t) /\ op'[t] = "set_readiness"
      BY <1>0, <1>6, <2>1, <2>3, ReturnEffect DEF CasQueued
    <3>. QED
      BY <2>1, <3>1, ReturnKept
  <2>. QED
    BY <2>2, <2>3
<1>7. ASSUME NEW t \in Threads, LoadHead(t) PROVE ReturnInv'
  <2>1. Others(t) /\ pc[t] = "load_head" /\ op'[t] = op[t]
    BY <1>0, <1>7, GotoEffect DEF LoadHead
  <2>. QED
    BY <1>7, <2>1, ReturnKept DEF LoadHead, ReturnInv
<1>8. ASSUME NEW t \in Threads, CasHead(t) PROVE ReturnInv'
  <2>1. CASE head # cur[t]
    BY <1>4, <1>8, <2>1 DEF CasHead
  <2>2. CASE head = cur[t]
    <3>. DEFINE w == cur[t] = SLEEP
    <3>1. w \in BOOLEAN /\ Return(t, w) /\ UNCHANGED evs
      BY <1>8, <2>2 DEF CasHead
    <3>. HIDE DEF w
    <3>2. /\ Others(t)
          /\ op[t] = "poll" => pc'[t] = "process"
          /\ op[t] # "poll" => op'[t] = "set_readiness"
      BY <1>0, <3>1, ReturnEffect
    <3>. QED
      BY <3>1, <3>2, ReturnKept
  <2>. QED
    BY <2>1, <2>2
<1>9. ASSUME NEW t \in Threads, Wakeup(t) PROVE ReturnInv'
  <2>1. Others(t) /\ pc'[t] = "idle"
    BY <1>0, <1>9, GotoEffect DEF Wakeup
  <2>. QED
    BY <1>9, <2>1, ReturnKept DEF Wakeup
<1>10. ASSUME NEW l, Goto(PollThread, l), l \notin {"reread", "load_head", "cas_head"} PROVE ReturnInv'
  BY <1>0, <1>10 DEF Goto, ReturnInv, ThreadType
<1>11. ASSUME PollStart \/ SelectOther \/ SelectInterrupted \/ PrepareForSleep \/ SelectAwoken \/ Cleanup
              \/ TakeReady \/ PollReturn \/ LoadEvents \/ DecideDrop \/ Reread
       PROVE  ReturnInv'
  BY <1>10, <1>11 DEF PollStart, SelectOther, SelectInterrupted, PrepareForSleep, SelectAwoken, Cleanup,
         TakeReady, PollReturn, LoadEvents, DecideDrop, Reread
<1>12. ASSUME NextNode \/ ProcessDrop \/ ProcessEvent PROVE ReturnInv'
  BY <1>10, <1>12 DEF NextNode, ProcessDrop, ProcessEvent, Continue, Leave, Enter
<1>13. ASSUME Dequeue \/ Requeue PROVE ReturnInv'
  BY <1>13 DEF Dequeue, Requeue, ReturnInv
<1>14. ASSUME NEW t \in Threads, NEW u \in Threads, NEW n \in Nodes,
              SetReadinessClone(t, u, n) \/ RegistrationSend(t, u, n)
       PROVE  ReturnInv'
  BY <1>4, <1>14 DEF SetReadinessClone, RegistrationSend
<1>15. ASSUME NEW n \in Nodes, NEW i \in InterestChoices, NEW o \in OptChoices, RegistrationNew(n, i, o) PROVE ReturnInv'
  BY <1>4, <1>15 DEF RegistrationNew
<1>16. CASE UNCHANGED vars
  BY <1>4, <1>16 DEF vars
<1>. QED
  BY <1>1, <1>2, <1>3, <1>5, <1>6, <1>7, <1>8, <1>9, <1>11, <1>12, <1>13, <1>14, <1>15, <1>16
  DEF Next, Call, Step, Register, PollStep

-----------------------------------------------------------------------------
(* Steps beside the lists.                                                 *)

\* Thread t moves between places where it has no node in its hand.
LEMMA AsideMove ==
  ASSUME Good, NEW t \in Threads, Others(t),
         UNCHANGED <<head, next, ready, alive, queued, handles, regOwner, refs>>,
         \A u \in Threads \ {t} : cur'[u] = cur[u],
         t = PollThread \/ UNCHANGED <<evs, lq>>,
         t = PollThread => ready = NULL \/ pc'[t] = "next" \/ op'[t] = "poll",
         ~Holds(t), ~Holds(t)', pc'[t] # "store_drop",
         pc'[t] \in NodeSteps => node'[t] \in alive,
         pc'[t] = "cas_queued" /\ t # PollThread => t \in handles[node'[t]]
  PROVE  ShapeInv' /\ HoldInv' /\ LiveInv'
<1>1. SameLists
  BY ListsKept
<1>2. ready # NULL => pc'[PollThread] = "next" \/ op'[PollThread] = "poll"
  BY DEF Good, ListInv, ShapeInv, Others, Threads
<1>3. Listed' \subseteq alive
  BY <1>1 DEF SameLists, LiveInv, Good, ListInv
<1>4. pc'[t] \in {"cas_queued", "load_head", "cas_head"} => pc'[t] = "cas_queued"
  BY DEF Holds
<1>. QED
  BY <1>1, <1>2, <1>3, <1>4, ShapeKept, HoldKept, LiveKept DEF Good, ListInv

\* Thread t changes events, refs or queued of node n only, and DropInv holds of n
\* and of poll afterwards.
LEMMA DropMove ==
  ASSUME Good, NEW t \in Threads, Others(t), NEW n \in Nodes, UNCHANGED alive,
         \A m \in alive \ {n} : events'[m] = events[m] /\ refs'[m] = refs[m] /\ queued'[m] = queued[m],
         pc[t] \in {"store_drop", "cas_queued"} => node[t] = n,
         Drop \in events'[n] => refs'[n] = 0,
         refs'[n] = 0 =>
           \/ \E u \in Threads : pc'[u] = "store_drop" /\ node'[u] = n
           \/ Drop \in events'[n] /\ (queued'[n] = 1 \/ \E u \in Threads : pc'[u] = "cas_queued" /\ node'[u] = n),
         op'[PollThread] = "poll" /\ pc'[PollThread] # "load_events"
           => (Drop \in evs' <=> Drop \in events'[node'[PollThread]])
  PROVE  DropInv'
<1>1. \A u \in Threads \ {t} : pc'[u] = pc[u] /\ node'[u] = node[u]
  BY DEF Others
<1>2. \A m \in alive \ {n} : refs'[m] = 0 =>
        \/ \E u \in Threads : pc'[u] = "store_drop" /\ node'[u] = m
        \/ Drop \in events'[m] /\ (queued'[m] = 1 \/ \E u \in Threads : pc'[u] = "cas_queued" /\ node'[u] = m)
  BY <1>1 DEF Good, ListInv, DropInv, AboutToQueue
<1>3. \A m \in alive : Drop \in events'[m] => refs'[m] = 0
  BY DEF Good, ListInv, DropInv
<1>. QED
  BY <1>2, <1>3 DEF DropInv, AboutToQueue

\* A node with a handle is counted, allocated and not marked as dropped.
LEMMA Counted ==
  ASSUME Good, NEW n \in Nodes, handles[n] # {} \/ regOwner[n] # NULL
  PROVE  refs[n] # 0 /\ n \in alive /\ Drop \notin events[n]
BY DEF Good, CountInv, ListInv, LiveInv, DropInv

\* Outside of poll its owner has an exhausted ready list.
LEMMA OwnerIdle ==
  ASSUME Good, pc[PollThread] \in {"idle", "store_drop"}
  PROVE  ready = NULL /\ op[PollThread] # "poll"
BY DEF Good, ListInv, ShapeInv, ThreadInv, LocalInv, Threads, LoopSteps

-----------------------------------------------------------------------------
(* Calls of the user.                                                      *)

LEMMA SetReadinessList ==
  ASSUME Good, NEW t \in Threads, NEW n \in Nodes, NEW r \in SUBSET Ready, SetReadiness(t, n, r)
  PROVE  ListInv'
<1>1. /\ pc[t] = "idle" /\ t \in handles[n] /\ StoreEvents(t, n, r)
      /\ UNCHANGED <<head, next, queued, refs, alive, regOwner, handles, ready, evs, lq>>
      /\ \A u \in Threads \ {t} : cur'[u] = cur[u]
      /\ events'[n] = r /\ \A m \in Nodes \ {n} : events'[m] = events[m]
  BY DEF SetReadiness, StoreEvents, ownerVars, pollVars, Leave, Enter, Good, NodeType, ThreadType
<1>2. /\ Others(t) /\ op'[t] = "set_readiness"
      /\ pc'[t] = "idle" \/ (pc'[t] = "cas_queued" /\ node'[t] = n)
  BY <1>1, StoreEffect DEF Good
<1>3. refs[n] # 0 /\ n \in alive /\ Drop \notin events[n]
  BY <1>1, Counted
<1>4. t = PollThread => ready = NULL
  BY <1>1, OwnerIdle
<1>5. ~Holds(t) /\ ~Holds(t)'
  BY <1>1, <1>2 DEF Holds
<1>6. ShapeInv' /\ HoldInv' /\ LiveInv'
  BY <1>1, <1>2, <1>3, <1>4, <1>5, AsideMove DEF NodeSteps
<1>7. Drop \notin r
  BY ReadyAssumption
<1>8. op'[PollThread] = "poll" /\ pc'[PollThread] # "load_events"
        => (Drop \in evs' <=> Drop \in events'[node'[PollThread]])
  <2>. SUFFICES ASSUME op'[PollThread] = "poll", pc'[PollThread] # "load_events"
                PROVE  Drop \in evs <=> Drop \in events'[node'[PollThread]]
    BY <1>1
  <2>1. PollThread \in Threads \ {t}
    BY <1>2 DEF Threads
  <2>2. /\ op[PollThread] = "poll" /\ pc[PollThread] # "load_events" /\ node'[PollThread] = node[PollThread]
        /\ node[PollThread] \in Nodes
    BY <1>2, <2>1 DEF Others, Good, ThreadInv, LocalInv, NodeSteps, LoopSteps
  <2>. QED
    BY <1>1, <1>3, <1>7, <2>2 DEF Good, ListInv, DropInv
<1>9. DropInv'
  BY <1>1, <1>2, <1>3, <1>7, <1>8, DropMove DEF Good, NodeType
<1>. QED
  BY <1>6, <1>9 DEF ListInv


\* Dropping one handle of thread t: SetReadiness and Registration alike.
LEMMA ReleaseList ==
  ASSUME Good, OwnerDropsLast, NEW t \in Threads, NEW n \in Nodes, pc[t] = "idle", ReleaseRef(t, n),
         t \in handles[n] \/ regOwner[n] = t,
         UNCHANGED <<head, next, events, queued, alive, ready, evs, lq>>,
         \A m \in Nodes : handles[m] \ {t} \subseteq handles'[m] /\ handles'[m] \subseteq handles[m],
         \A m \in Nodes : regOwner'[m] # NULL => regOwner[m] # NULL
  PROVE  ListInv'
<1>1. refs[n] # 0 /\ n \in alive /\ Drop \notin events[n]
  BY Counted, ThreadsAssumption
<1>2. /\ Others(t) /\ op'[t] = "set_readiness"
      /\ pc'[t] = "idle" \/ (pc'[t] = "store_drop" /\ node'[t] = n)
  BY ReleaseEffect DEF Good
<1>3. /\ refs'[n] = refs[n] - 1 /\ (\A m \in Nodes \ {n} : refs'[m] = refs[m])
      /\ refs[n] = 1 => t = PollThread /\ pc'[t] = "store_drop"
      /\ refs[n] # 1 => pc'[t] = "idle"
      /\ \A u \in Threads \ {t} : cur'[u] = cur[u]
  BY DEF ReleaseRef, Leave, Enter, Goto, OwnerDropsLast, Good, NodeType, ThreadType
<1>4. refs'[n] = 0 <=> pc'[t] = "store_drop"
  BY <1>1, <1>3 DEF Good, NodeType
<1>5. \A u \in Threads \ {t} : pc'[u] = pc[u] /\ node'[u] = node[u] /\ op'[u] = op[u]
  BY <1>2 DEF Others
<1>6. SameLists /\ ~Holds(t) /\ ~Holds(t)' /\ (t = PollThread => ready = NULL)
  BY <1>2, ListsKept, OwnerIdle DEF Holds
<1>7. ShapeInv'
  <2>1. ready # NULL => pc'[PollThread] = "next" \/ op'[PollThread] = "poll"
    BY <1>5, <1>6 DEF Good, ListInv, ShapeInv, Threads
  <2>. QED
    BY <1>6, <2>1, ShapeKept DEF Good, ListInv
<1>8. HoldInv'
  BY <1>2, <1>3, <1>6, HoldKept DEF Good, ListInv
<1>9. LiveInv'
  <2>1. Listed' \subseteq alive'
    BY <1>6 DEF SameLists, LiveInv, Good, ListInv
  <2>2. \A u \in Threads : pc'[u] \in NodeSteps => node'[u] \in alive'
    BY <1>1, <1>2, <1>5 DEF Good, ListInv, LiveInv, NodeSteps
  <2>3. \A m \in Nodes : handles'[m] # {} \/ regOwner'[m] # NULL => m \in alive'
    BY DEF Good, ListInv, LiveInv
  <2>4. \A u \in Threads \ {t} : pc[u] \in NodeSteps => node[u] \in Nodes
    BY DEF Good, ThreadInv, LocalInv
  <2>5. \A u \in Threads : pc'[u] \in {"cas_queued", "load_head", "cas_head"} /\ u # PollThread => u \in handles'[node'[u]]
    BY <1>2, <1>5, <2>4 DEF Good, ListInv, LiveInv, NodeSteps
  <2>6. \A u \in Threads : pc'[u] = "store_drop" => u = PollThread /\ refs'[node'[u]] = 0
    BY <1>1, <1>2, <1>3, <1>4, <1>5, <2>4 DEF Good, ListInv, LiveInv, NodeSteps
  <2>. QED
    BY <2>1, <2>2, <2>3, <2>5, <2>6 DEF LiveInv
<1>10. DropInv'
  <2>1. op'[PollThread] = "poll" /\ pc'[PollThread] # "load_events"
          => (Drop \in evs <=> Drop \in events[node'[PollThread]])
    BY <1>2, <1>5 DEF Good, ListInv, DropInv, Threads
  <2>. QED
    BY <1>1, <1>2, <1>3, <1>4, <2>1, DropMove DEF Good, NodeType
<1>. QED
  BY <1>7, <1>8, <1>9, <1>10 DEF ListInv

LEMMA HandleList ==
  ASSUME Good, OwnerDropsLast, NEW t \in Threads, NEW n \in Nodes, SetReadinessDrop(t, n) \/ RegistrationDrop(t, n)
  PROVE  ListInv'
<1>1. /\ pc[t] = "idle" /\ ReleaseRef(t, n) /\ (t \in handles[n] \/ regOwner[n] = t)
      /\ UNCHANGED <<head, next, events, queued, alive, ready, evs, lq>>
  BY DEF SetReadinessDrop, RegistrationDrop, sharedVars, pollVars
<1>2. /\ \A m \in Nodes : handles[m] \ {t} \subseteq handles'[m] /\ handles'[m] \subseteq handles[m]
      /\ \A m \in Nodes : regOwner'[m] # NULL => regOwner[m] # NULL
  BY DEF SetReadinessDrop, RegistrationDrop, Good, NodeType
<1>. QED
  BY <1>1, <1>2, ReleaseList

\* A new handle, or the Registration in other hands: no thread moves.
LEMMA ShareList ==
  ASSUME Good, NEW t \in Threads, NEW u \in Threads, NEW n \in Nodes,
         SetReadinessClone(t, u, n) \/ RegistrationSend(t, u, n)
  PROVE  ListInv'
<1>1. /\ UNCHANGED <<head, next, events, queued, alive, ready, evs, lq, pc, node, cur, op>>
      /\ t \in handles[n] \/ regOwner[n] = t
  BY DEF SetReadinessClone, RegistrationSend, sharedVars, pollVars, threadVars
<1>2. refs[n] # 0 /\ n \in alive /\ Drop \notin events[n]
  BY <1>1, Counted, ThreadsAssumption
<1>3. /\ \A m \in Nodes : handles[m] \subseteq handles'[m]
      /\ \A m \in Nodes \ {n} : handles'[m] = handles[m] /\ regOwner'[m] = regOwner[m] /\ refs'[m] = refs[m]
      /\ refs'[n] # 0
  BY <1>2 DEF SetReadinessClone, RegistrationSend, Good, NodeType
<1>4. SameLists
  BY <1>1, ListsKept
<1>5. ShapeInv' /\ HoldInv'
  <2>1. ShapeInv'
    BY <1>1, ShapeKept DEF ShapeInv, Good, ListInv
  <2>2. LocalFlag' /\ \A v \in Threads : Holds(v)' <=> Holds(v)
    BY <1>1 DEF HoldInv, LocalFlag, Holds, Good, ListInv
  <2>3. HoldInv'
    BY <1>1, <1>4, <2>2, FlagsKept, LinksKept DEF HoldInv, SameLists, Good, ListInv
  <2>. QED
    BY <2>1, <2>3
<1>6. \A v \in Threads : pc[v] \in NodeSteps => node[v] \in Nodes
  BY DEF Good, ThreadInv, LocalInv
<1>7. LiveInv'
  BY <1>1, <1>2, <1>3, <1>4, <1>6 DEF LiveInv, NodeSteps, SameLists, Good, ListInv
<1>8. DropInv'
  BY <1>1, <1>2, <1>3 DEF DropInv, AboutToQueue, Good, ListInv, NodeType
<1>. QED
  BY <1>5, <1>7, <1>8 DEF ListInv

LEMMA RegistrationUpdateList ==
  ASSUME Good, NEW n \in Nodes, NEW i \in InterestChoices, NEW o \in OptChoices, RegistrationUpdate(n, i, o)
  PROVE  ListInv'
<1>0. PollThread \in Threads /\ PollThread # NULL
  BY ThreadsAssumption DEF Threads
<1>1. /\ UNCHANGED <<head, next, events, queued, refs, alive, regOwner, handles, ready, evs, lq>>
      /\ pc[PollThread] = "idle" /\ regOwner[n] = PollThread
      /\ \A u \in Threads \ {PollThread} : cur'[u] = cur[u]
  BY DEF RegistrationUpdate, sharedVars, ownerVars, pollVars, Leave, Enter, Good, ThreadType
<1>2. /\ Others(PollThread) /\ op'[PollThread] # "poll"
      /\ pc'[PollThread] = "idle" \/ (pc'[PollThread] = "cas_queued" /\ node'[PollThread] = n)
  BY <1>0, EnterEffect DEF RegistrationUpdate, Leave, Good
<1>3. n \in alive /\ ready = NULL
  BY <1>0, <1>1, Counted, OwnerIdle
<1>4. ~Holds(PollThread) /\ ~Holds(PollThread)'
  BY <1>1, <1>2 DEF Holds
<1>5. ShapeInv' /\ HoldInv' /\ LiveInv'
  BY <1>0, <1>1, <1>2, <1>3, <1>4, AsideMove DEF NodeSteps
<1>6. DropInv'
  BY <1>0, <1>1, <1>2, DropKept DEF Good, ListInv
<1>. QED
  BY <1>5, <1>6 DEF ListInv


\* A fresh node is in no list and in nobody's hand.
LEMMA RegistrationNewList ==
  ASSUME Good, NEW n \in Nodes, NEW i \in InterestChoices, NEW o \in OptChoices, RegistrationNew(n, i, o)
  PROVE  ListInv'
<1>1. /\ UNCHANGED <<head, ready, evs, lq, pc, node, cur, op>>
      /\ pc[PollThread] = "idle" /\ n \notin alive /\ alive' = alive \cup {n}
  BY DEF RegistrationNew, pollVars, threadVars
<1>2. /\ \A m \in Nodes \ {n} : /\ next'[m] = next[m] /\ events'[m] = events[m] /\ queued'[m] = queued[m]
                               /\ refs'[m] = refs[m] /\ handles'[m] = handles[m] /\ regOwner'[m] = regOwner[m]
      /\ next'[n] = NULL /\ events'[n] = {} /\ queued'[n] = 0 /\ refs'[n] = 2
      /\ next \in Links /\ next' \in Links
  BY DEF RegistrationNew, Good, NodeType, Links
<1>3. /\ n \notin Listed /\ Listed \subseteq alive /\ alive \subseteq Nodes
      /\ \A t \in Threads : pc[t] \in NodeSteps => node[t] # n /\ node[t] \in Nodes
      /\ \A t \in Threads : Holds(t) => pc[t] \in NodeSteps
  BY <1>1 DEF Good, ListInv, LiveInv, Holds, NodeSteps, ThreadInv, LocalInv, NodeType
<1>4. Queue' = Queue /\ Batch' = Batch
  BY <1>1, <1>2, <1>3, ListsFrame DEF Listed
<1>5. Listed' = Listed
  BY <1>4 DEF Listed
<1>6. ShapeInv'
  <2>1. \A m \in Listed : next'[m] = next[m]
    BY <1>2, <1>3
  <2>. QED
    BY <1>1, <1>4, <1>5, <2>1 DEF Good, ListInv, ShapeInv
<1>7. HoldInv'
  <2>1. \A t \in Threads : Holds(t)' <=> Holds(t)
    BY <1>1 DEF Holds
  <2>2. ListedFlag' /\ HeldFlag'
    BY <1>1, <1>2, <1>3, <1>5, <2>1 DEF Good, ListInv, HoldInv, ListedFlag, HeldFlag
  <2>3. \A t \in Threads : pc[t] = "cas_head" => next'[node[t]] = next[node[t]]
    BY <1>2, <1>3 DEF NodeSteps
  <2>4. \A m \in alive' : (queued'[m] = 1 \/ next'[m] # NULL) => m \in alive /\ queued'[m] = queued[m] /\ next'[m] = next[m]
    BY <1>1, <1>2, <1>3
  <2>5. OneHolder' /\ FlagOwned'
    BY <1>1, <1>5, <2>1, <2>4 DEF Good, ListInv, HoldInv, OneHolder, FlagOwned
  <2>6. LinkOwned'
    BY <1>1, <1>5, <2>4 DEF Good, ListInv, HoldInv, LinkOwned
  <2>7. LinkRead' /\ LocalFlag'
    BY <1>1, <2>3 DEF Good, ListInv, HoldInv, LinkRead, LocalFlag
  <2>. QED
    BY <2>2, <2>5, <2>6, <2>7 DEF HoldInv
<1>8. LiveInv'
  <2>1. \A m \in Nodes : handles'[m] # {} \/ regOwner'[m] # NULL => m \in alive'
    BY <1>1, <1>2 DEF Good, ListInv, LiveInv
  <2>2. \A t \in Threads : pc[t] \in NodeSteps => handles'[node[t]] = handles[node[t]] /\ refs'[node[t]] = refs[node[t]]
    BY <1>2, <1>3
  <2>. QED
    BY <1>1, <1>3, <1>5, <2>1, <2>2 DEF Good, ListInv, LiveInv, NodeSteps
<1>9. DropInv'
  <2>1. op[PollThread] # "poll"
    BY <1>1, OwnerIdle
  <2>. QED
    BY <1>1, <1>2, <1>3, <2>1 DEF Good, ListInv, DropInv, AboutToQueue
<1>. QED
  BY <1>6, <1>7, <1>8, <1>9 DEF ListInv

-----------------------------------------------------------------------------
(* The steps of set_readiness and of prepend_readiness_node.               *)

\* The drop event of the last handle.
LEMMA StoreDropList ==
  ASSUME Good, NEW t \in Threads, StoreDrop(t)
  PROVE  ListInv'
<1>1. node[t] \in alive /\ node[t] \in Nodes /\ refs[node[t]] = 0 /\ t = PollThread /\ pc[t] = "store_drop"
  BY DEF StoreDrop, Good, ListInv, LiveInv, NodeSteps, ThreadInv, LocalInv
<1>2. /\ StoreEvents(t, node[t], {Drop})
      /\ UNCHANGED <<head, next, queued, refs, alive, regOwner, handles, ready, evs, lq>>
      /\ events'[node[t]] = {Drop} /\ \A m \in Nodes \ {node[t]} : events'[m] = events[m]
      /\ \A u \in Threads \ {t} : cur'[u] = cur[u]
  BY <1>1 DEF StoreDrop, StoreEvents, ownerVars, pollVars, Leave, Enter, Good, NodeType, ThreadType
<1>3. Others(t) /\ op'[t] = "set_readiness" /\ pc'[t] = "cas_queued" /\ node'[t] = node[t]
  BY <1>1, <1>2, StoreEffect DEF Good
<1>4. ready = NULL /\ ~Holds(t) /\ ~Holds(t)'
  BY <1>1, <1>3, OwnerIdle DEF Holds
<1>5. ShapeInv' /\ HoldInv' /\ LiveInv'
  BY <1>1, <1>2, <1>3, <1>4, AsideMove
<1>6. DropInv'
  BY <1>1, <1>2, <1>3, DropMove DEF Good, NodeType
<1>. QED
  BY <1>5, <1>6 DEF ListInv

\* Winning the queued flag takes the node in hand: it was in nobody's.
LEMMA WinFlagList ==
  ASSUME Good, NEW t \in Threads, CasQueued(t), queued[node[t]] = 0
  PROVE  ListInv'
<1>1. /\ node[t] \in alive /\ node[t] \in Nodes /\ pc[t] = "cas_queued"
      /\ UNCHANGED <<head, next, events, refs, alive, regOwner, handles, ready, evs, lq>>
      /\ op[t] # "poll" /\ (t # PollThread => t \in handles[node[t]])
  BY DEF CasQueued, Good, ListInv, LiveInv, NodeSteps, LoopSteps, ThreadInv, LocalInv, ownerVars, pollVars
<1>2. /\ Enter(t, "load_head", node[t], op[t])
      /\ queued'[node[t]] = 1 /\ \A m \in Nodes \ {node[t]} : queued'[m] = queued[m]
      /\ \A u \in Threads \ {t} : cur'[u] = cur[u]
  BY <1>1 DEF CasQueued, Enter, Good, NodeType, ThreadType
<1>3. Others(t) /\ pc'[t] = "load_head" /\ node'[t] = node[t] /\ op'[t] = op[t]
  BY <1>2, EnterEffect DEF Good
<1>4. \A u \in Threads \ {t} : pc'[u] = pc[u] /\ node'[u] = node[u] /\ op'[u] = op[u] /\ (Holds(u)' <=> Holds(u))
  BY <1>1, <1>3 DEF Holds, Others
<1>5. /\ SameLists /\ PollThread \in Threads /\ Holds(t)' /\ ~Holds(t)
      /\ t = PollThread => ready = NULL
  BY <1>1, <1>3, ListsKept DEF Good, ListInv, ShapeInv, Threads, Holds
<1>6. Listed' = Listed /\ node[t] \notin Listed /\ Listed \subseteq alive /\ alive \subseteq Nodes
  BY <1>5 DEF SameLists, Good, ListInv, HoldInv, ListedFlag, LiveInv, NodeType
<1>7. ShapeInv'
  <2>1. ready # NULL => pc'[PollThread] = "next" \/ op'[PollThread] = "poll"
    BY <1>4, <1>5 DEF Good, ListInv, ShapeInv
  <2>. QED
    BY <1>1, <2>1, ShapeKept DEF Good, ListInv
<1>8. LiveInv'
  BY <1>1, <1>3, <1>6, LiveKept DEF Good, ListInv, NodeSteps
<1>9. HoldInv'
  <2>1. \A u \in Threads \ {t} : Holds(u) => node[u] # node[t] /\ node[u] \in Nodes
    BY DEF Good, ListInv, HoldInv, HeldFlag, Holds, ThreadInv, LocalInv, NodeSteps
  <2>2. ListedFlag' /\ HeldFlag'
    BY <1>1, <1>2, <1>3, <1>4, <1>5, <1>6, <2>1 DEF Good, ListInv, HoldInv, ListedFlag, HeldFlag
  <2>3. OneHolder'
    BY <1>1, <1>3, <1>4, <2>1 DEF Good, ListInv, HoldInv, OneHolder
  <2>4. FlagOwned'
    BY <1>1, <1>2, <1>3, <1>4, <1>5, <1>6 DEF Good, ListInv, HoldInv, FlagOwned
  <2>5. \A u \in Threads : (pc'[u] = "cas_head" <=> pc[u] = "cas_head") /\ (pc[u] = "cas_head" => node'[u] = node[u] /\ cur'[u] = cur[u])
    BY <1>1, <1>2, <1>3, <1>4
  <2>6. LinkOwned' /\ LinkRead'
    BY <1>1, <1>5, <2>5, LinksKept DEF Good, ListInv
  <2>7. LocalFlag'
    BY <1>1, <1>3, <1>4, <1>5 DEF Good, ListInv, HoldInv, LocalFlag
  <2>. QED
    BY <2>2, <2>3, <2>4, <2>6, <2>7 DEF HoldInv
<1>10. DropInv'
  <2>1. op'[PollThread] = "poll" /\ pc'[PollThread] # "load_events"
          => (Drop \in evs <=> Drop \in events[node'[PollThread]])
    BY <1>1, <1>3, <1>4, <1>5 DEF Good, ListInv, DropInv
  <2>2. refs[node[t]] = 0 => Drop \in events[node[t]] \/ \E u \in Threads : pc'[u] = "store_drop" /\ node'[u] = node[t]
    BY <1>1, <1>4 DEF Good, ListInv, DropInv
  <2>3. Drop \in events[node[t]] => refs[node[t]] = 0
    BY <1>1 DEF Good, ListInv, DropInv
  <2>. QED
    BY <1>1, <1>2, <1>3, <1>6, <2>1, <2>2, <2>3, DropMove
<1>. QED
  BY <1>7, <1>8, <1>9, <1>10 DEF ListInv


LEMMA CasQueuedList ==
  ASSUME Good, NEW t \in Threads, CasQueued(t)
  PROVE  ListInv'
<1>1. CASE queued[node[t]] = 0
  BY <1>1, WinFlagList
\* The flag is set already: whoever set it queues the node.
<1>2. CASE queued[node[t]] # 0
  <2>1. /\ node[t] \in alive /\ node[t] \in Nodes /\ pc[t] = "cas_queued" /\ op[t] # "poll" /\ Return(t, FALSE)
        /\ UNCHANGED <<head, next, events, queued, refs, alive, regOwner, handles, ready, evs, lq>>
    BY <1>2 DEF CasQueued, Good, ListInv, LiveInv, NodeSteps, LoopSteps, ThreadInv, LocalInv, ownerVars, pollVars
  <2>2. Others(t) /\ pc'[t] \in {"idle", "wakeup"} /\ op'[t] = "set_readiness"
    BY <2>1, ReturnEffect DEF Good
  <2>3. \A u \in Threads \ {t} : cur'[u] = cur[u]
    <3>1. \E l : Leave(t, l)
      BY <2>1, ReturnType DEF Good, ThreadType
    <3>. QED
      BY <3>1 DEF Leave, Enter, Good, ThreadType
  <2>4. ~Holds(t) /\ ~Holds(t)' /\ (t = PollThread => ready = NULL) /\ queued[node[t]] = 1
    BY <1>2, <2>1, <2>2 DEF Holds, Good, ListInv, ShapeInv, NodeType
  <2>5. ShapeInv' /\ HoldInv' /\ LiveInv'
    BY <2>1, <2>2, <2>3, <2>4, AsideMove DEF NodeSteps
  <2>6. op'[PollThread] = "poll" /\ pc'[PollThread] # "load_events"
          => (Drop \in evs <=> Drop \in events[node'[PollThread]])
    BY <2>1, <2>2 DEF Good, ListInv, DropInv, Others, Threads
  <2>7. refs[node[t]] = 0 => Drop \in events[node[t]] \/ \E u \in Threads : pc'[u] = "store_drop" /\ node'[u] = node[t]
    BY <2>1, <2>2 DEF Good, ListInv, DropInv, Others
  <2>8. Drop \in events[node[t]] => refs[node[t]] = 0
    BY <2>1 DEF Good, ListInv, DropInv
  <2>9. DropInv'
    BY <2>1, <2>2, <2>4, <2>6, <2>7, <2>8, DropMove
  <2>. QED
    BY <2>5, <2>9 DEF ListInv
<1>. QED
  BY <1>1, <1>2

\* (Re-)reading the head writes the link of a node in hand: no list sees it.
LEMMA ReadHeadList ==
  ASSUME Good, NEW t \in Threads, pc[t] \in {"load_head", "cas_head"}, ReadHead(t),
         Others(t), pc'[t] = "cas_head", node'[t] = node[t], op'[t] = op[t],
         UNCHANGED <<head, events, queued, refs, alive, regOwner, handles, ready, evs, lq>>
  PROVE  ListInv'
<1>1. /\ node[t] \in alive /\ node[t] \in Nodes /\ node[t] \notin Listed /\ Holds(t) /\ PollThread \in Threads
      /\ t # PollThread => t \in handles[node[t]]
      /\ Listed \subseteq Nodes
  BY DEF Good, ListInv, LiveInv, HoldInv, HeldFlag, Holds, NodeSteps, ThreadInv, LocalInv, NodeType, Threads
<1>2. /\ next'[node[t]] = IF cur'[t] = SLEEP THEN NULL ELSE cur'[t]
      /\ \A m \in Nodes \ {node[t]} : next'[m] = next[m]
      /\ \A u \in Threads \ {t} : cur'[u] = cur[u]
      /\ next \in Links /\ next' \in Links
  BY <1>1 DEF ReadHead, Good, NodeType, ThreadType, Links
<1>3. Queue' = Queue /\ Batch' = Batch
  BY <1>1, <1>2, ListsFrame DEF Listed
<1>4. Listed' = Listed /\ (\A m \in Listed : next'[m] = next[m])
  BY <1>1, <1>2, <1>3 DEF Listed
<1>5. \A u \in Threads \ {t} : pc'[u] = pc[u] /\ node'[u] = node[u] /\ op'[u] = op[u]
  BY DEF Others
<1>6. ShapeInv'
  <2>1. ready # NULL => pc'[PollThread] = "next" \/ op'[PollThread] = "poll"
    BY <1>1, <1>5 DEF Good, ListInv, ShapeInv
  <2>. QED
    BY <1>3, <1>4, <2>1 DEF Good, ListInv, ShapeInv
<1>7. LiveInv'
  <2>1. Listed' \subseteq alive
    BY <1>4 DEF Good, ListInv, LiveInv
  <2>. QED
    BY <1>1, <2>1, LiveKept DEF Good, ListInv, NodeSteps
<1>8. HoldInv'
  <2>1. \A u \in Threads : (Holds(u)' <=> Holds(u)) /\ node'[u] = node[u]
    BY <1>1, <1>5 DEF Holds
  <2>2. \A u \in Threads \ {t} : Holds(u) => node[u] # node[t] /\ node[u] \in Nodes
    BY <1>1 DEF Good, ListInv, HoldInv, OneHolder, Holds, ThreadInv, LocalInv, NodeSteps
  <2>3. LinkOwned'
    <3>1. \A m \in alive \ {node[t]} : next'[m] = next[m]
      BY <1>2 DEF Good, NodeType
    <3>. QED
      BY <1>4, <1>5, <3>1 DEF Good, ListInv, HoldInv, LinkOwned
  <2>4. LinkRead'
    <3>. SUFFICES ASSUME NEW u \in Threads \ {t}, pc'[u] = "cas_head"
                  PROVE  next'[node'[u]] = IF cur'[u] = SLEEP THEN NULL ELSE cur'[u]
      BY <1>2 DEF LinkRead
    <3>1. pc[u] = "cas_head" /\ node'[u] = node[u] /\ cur'[u] = cur[u] /\ next'[node[u]] = next[node[u]]
      BY <1>2, <1>5, <2>2 DEF Holds
    <3>. QED
      BY <3>1 DEF Good, ListInv, HoldInv, LinkRead
  <2>5. LocalFlag'
    BY <1>1, <1>5 DEF Good, ListInv, HoldInv, LocalFlag
  <2>. QED
    BY <1>4, <2>1, <2>3, <2>4, <2>5, FlagsKept DEF Good, ListInv, HoldInv
<1>9. DropInv'
  BY DropKept DEF Good, ListInv, DropInv
<1>. QED
  BY <1>6, <1>7, <1>8, <1>9 DEF ListInv


\* The node in hand becomes the first node of the shared list.
LEMMA PublishList ==
  ASSUME Good, NEW t \in Threads, pc[t] = "cas_head", head = cur[t], head' = node[t],
         Others(t), ~Holds(t)', pc'[t] \notin {"store_drop", "cas_queued"},
         pc'[t] \in NodeSteps => node'[t] = node[t],
         op[t] = "poll" => op'[t] = "poll", op'[t] = "poll" => op[t] = "poll" /\ node'[t] = node[t],
         \A u \in Threads \ {t} : cur'[u] = cur[u],
         UNCHANGED <<next, events, queued, refs, alive, regOwner, handles, ready, evs, lq>>
  PROVE  ListInv'
<1>. DEFINE x == node[t]
<1>1. /\ x \in alive /\ x \in Nodes /\ x \notin Listed /\ Holds(t) /\ PollThread \in Threads /\ queued[x] = 1
      /\ Listed \subseteq Nodes /\ next \in Links
      /\ next[x] = IF head = SLEEP THEN NULL ELSE head
  BY DEF Good, ListInv, LiveInv, HoldInv, HeldFlag, LinkRead, Holds, NodeSteps, ThreadInv, LocalInv, NodeType, Threads
<1>2. Queue' = {x} \cup Queue /\ Batch' = Batch
  <2>1. Reach(next, x) = {x} \cup Reach(next, head)
    BY <1>1, ReachPrepend, PointersAssumption
  <2>. QED
    BY <2>1 DEF Queue, Batch, Chain
<1>3. Listed' = {x} \cup Listed
  BY <1>2 DEF Listed
<1>4. \A u \in Threads \ {t} : pc'[u] = pc[u] /\ node'[u] = node[u] /\ op'[u] = op[u] /\ (Holds(u)' <=> Holds(u))
  BY DEF Others, Holds
<1>5. /\ \A m \in Listed : next[m] \in Nodes => next[m] \in Listed
      /\ head \in Nodes => head \in Queue
      /\ ready \in Nodes => ready \in Batch
  BY <1>1, ReachHolds DEF Queue, Batch, Chain, Listed
<1>6. ShapeInv'
  <2>1. Queue' \cap Batch' = {}
    BY <1>1, <1>2 DEF Good, ListInv, ShapeInv, Listed
  <2>2. next[x] \in Nodes => next[x] = head /\ next[x] # x /\ next[x] # ready
    BY <1>1, <1>5, PointersAssumption DEF Good, ListInv, Listed, ShapeInv
  <2>3. \A m, n \in Listed' : m # n /\ next[m] \in Nodes => next[m] # next[n]
    BY <1>3, <2>2 DEF Good, ListInv, ShapeInv
  <2>4. \A n \in Listed' : next[n] \in Nodes => next[n] # x /\ next[n] # ready
    BY <1>1, <1>3, <1>5, <2>2 DEF Good, ListInv, ShapeInv
  <2>5. ready # NULL => pc'[PollThread] = "next" \/ op'[PollThread] = "poll"
    BY <1>1, <1>4 DEF Good, ListInv, ShapeInv
  <2>. QED
    BY <2>1, <2>3, <2>4, <2>5 DEF ShapeInv
<1>7. LiveInv'
  <2>1. Listed' \subseteq alive
    BY <1>1, <1>3 DEF Good, ListInv, LiveInv
  <2>. QED
    BY <1>1, <2>1, LiveKept DEF Good, ListInv, Holds
<1>8. HoldInv'
  <2>1. \A u \in Threads \ {t} : Holds(u) => node[u] # x
    BY <1>1 DEF Good, ListInv, HoldInv, OneHolder
  <2>2. ListedFlag' /\ HeldFlag'
    BY <1>1, <1>3, <1>4, <2>1 DEF Good, ListInv, HoldInv, ListedFlag, HeldFlag
  <2>3. OneHolder'
    BY <1>1, <1>4 DEF Good, ListInv, HoldInv, OneHolder
  <2>4. FlagOwned'
    BY <1>1, <1>3, <1>4 DEF Good, ListInv, HoldInv, FlagOwned
  <2>5. LinkOwned'
    BY <1>1, <1>3, <1>4 DEF Good, ListInv, HoldInv, LinkOwned
  <2>6. \A u \in Threads : pc'[u] = "cas_head" => pc[u] = "cas_head" /\ node'[u] = node[u] /\ cur'[u] = cur[u]
    BY <1>4 DEF Holds
  <2>7. LinkRead'
    BY <1>1, <2>6 DEF Good, ListInv, HoldInv, LinkRead
  <2>8. LocalFlag'
    BY <1>1, <1>4 DEF Good, ListInv, HoldInv, LocalFlag, Holds
  <2>. QED
    BY <2>2, <2>3, <2>4, <2>5, <2>7, <2>8 DEF HoldInv
<1>9. DropInv'
  BY DropKept DEF Good, ListInv, DropInv
<1>. QED
  BY <1>6, <1>7, <1>8, <1>9 DEF ListInv

LEMMA PrependList ==
  ASSUME Good, NEW t \in Threads, LoadHead(t) \/ CasHead(t)
  PROVE  ListInv'
<1>. USE DEF ownerVars, pollVars
<1>1. CASE LoadHead(t)
  <2>1. Others(t) /\ pc[t] = "load_head" /\ pc'[t] = "cas_head" /\ node'[t] = node[t] /\ op'[t] = op[t]
    BY <1>1, GotoEffect DEF LoadHead, Good
  <2>2. ReadHead(t) /\ UNCHANGED <<head, events, queued, refs, alive, regOwner, handles, ready, evs, lq>>
    BY <1>1 DEF LoadHead
  <2>. QED
    BY <2>1, <2>2, ReadHeadList
<1>2. CASE CasHead(t) /\ head # cur[t]
  <2>1. /\ ReadHead(t) /\ UNCHANGED <<head, events, queued, refs, alive, regOwner, handles, ready, evs, lq>>
        /\ UNCHANGED <<pc, node, op>> /\ pc[t] = "cas_head"
    BY <1>2 DEF CasHead
  <2>2. Others(t)
    BY <2>1 DEF Others
  <2>. QED
    BY <2>1, <2>2, ReadHeadList
<1>3. CASE CasHead(t) /\ head = cur[t]
  <2>. DEFINE w == cur[t] = SLEEP
  <2>1. /\ UNCHANGED <<next, events, queued, refs, alive, regOwner, handles, ready, evs, lq>>
        /\ pc[t] = "cas_head" /\ head' = node[t] /\ w \in BOOLEAN /\ Return(t, w)
    BY <1>3 DEF CasHead
  <2>. HIDE DEF w
  <2>2. /\ Others(t)
        /\ op[t] = "poll" => pc'[t] = "process" /\ op'[t] = "poll" /\ node'[t] = node[t]
        /\ op[t] # "poll" => pc'[t] \in {"idle", "wakeup"} /\ op'[t] = "set_readiness"
    BY <2>1, ReturnEffect DEF Good
  <2>3. \A u \in Threads \ {t} : cur'[u] = cur[u]
    <3>1. \E l, n, o : Enter(t, l, n, o)
      BY <2>1, ReturnType DEF Leave, Good, ThreadType
    <3>. QED
      BY <3>1 DEF Enter, Good, ThreadType
  <2>4. op[t] = "poll" => Drop \notin evs
    BY <2>1 DEF Good, ReturnInv, ThreadInv, LocalInv
  <2>. QED
    BY <1>3, <2>1, <2>2, <2>3, <2>4, PublishList DEF Holds, NodeSteps
<1>. QED
  BY <1>1, <1>2, <1>3


-----------------------------------------------------------------------------
(* Poll::poll.                                                             *)

\* A thread goes on without touching a node.
LEMMA WalkList ==
  ASSUME Good, NEW t \in Threads, NEW l \in {"idle", "prepare", "select", "cleanup", "take"}, Goto(t, l),
         UNCHANGED <<head, next, events, queued, refs, alive, regOwner, handles, node, cur, op, ready, evs, lq>>,
         pc[t] \in {"idle", "wakeup", "prepare", "select", "cleanup"} \/ (pc[t] = "next" /\ ready = NULL)
  PROVE  ListInv'
<1>1. Others(t) /\ pc'[t] = l /\ op'[t] = op[t]
  BY GotoEffect DEF Good
<1>2. ~Holds(t) /\ ~Holds(t)' /\ op[t] # "poll" /\ (t = PollThread => ready = NULL)
  BY <1>1 DEF Holds, Good, ListInv, ShapeInv, ThreadInv, LocalInv, LoopSteps
<1>3. ShapeInv' /\ HoldInv' /\ LiveInv'
  BY <1>1, <1>2, AsideMove DEF NodeSteps
<1>4. DropInv'
  BY <1>1, <1>2, DropKept DEF Good, ListInv
<1>. QED
  BY <1>3, <1>4 DEF ListInv

LEMMA WalkStepsList ==
  ASSUME Good, NEW t \in Threads,
         \/ Wakeup(t) \/ PollStart \/ SelectAwoken \/ SelectOther \/ SelectInterrupted \/ Cleanup \/ PollReturn
         \/ PrepareForSleep /\ head # NULL
  PROVE  ListInv'
<1>. USE DEF sharedVars, ownerVars, pollVars
<1>1. PollThread \in Threads
  BY DEF Threads
<1>2. CASE Wakeup(t)
  BY <1>2, WalkList DEF Wakeup
<1>3. CASE PollStart
  BY <1>1, <1>3, WalkList DEF PollStart
<1>4. CASE SelectAwoken \/ SelectOther
  BY <1>1, <1>4, WalkList DEF SelectAwoken, SelectOther
<1>5. CASE SelectInterrupted \/ Cleanup
  BY <1>1, <1>5, WalkList DEF SelectInterrupted, Cleanup
<1>6. CASE PollReturn \/ (PrepareForSleep /\ head # NULL)
  BY <1>1, <1>6, WalkList DEF PollReturn, PrepareForSleep
<1>. QED
  BY <1>2, <1>3, <1>4, <1>5, <1>6

\* The swap moves the whole shared list into the ready list, which was empty; the
\* sleep token goes into an empty list.
LEMMA SwapList ==
  ASSUME Good, TakeReady \/ (PrepareForSleep /\ head = NULL)
  PROVE  ListInv'
<1>0. PollThread \in Threads
  BY DEF Threads
<1>1. /\ UNCHANGED <<next, events, queued, refs, alive, regOwner, handles, node, cur, op, evs, lq>>
      /\ pc[PollThread] \in {"prepare", "take"} /\ ready = NULL /\ next \in Links
      /\ op[PollThread] # "poll"
  BY <1>0 DEF TakeReady, PrepareForSleep, ownerVars, Good, NodeType, ListInv, ShapeInv, ThreadInv, LocalInv, LoopSteps
<1>2. /\ Others(PollThread) /\ pc'[PollThread] \in {"select", "next"} /\ op'[PollThread] = op[PollThread]
      /\ ready' # NULL => pc'[PollThread] = "next"
  BY <1>0, <1>1, GotoEffect DEF TakeReady, PrepareForSleep, Good
<1>3. Batch = {}
  BY <1>1, ReachNone, PointersAssumption DEF Batch, Chain
<1>4. Queue' = {} /\ Batch' = Queue
  <2>1. CASE TakeReady /\ head # SLEEP
    BY <1>1, <2>1, ReachNone, PointersAssumption DEF TakeReady, Queue, Batch, Chain
  <2>2. CASE TakeReady /\ head = SLEEP
    BY <1>1, <2>2, ReachNone, PointersAssumption DEF TakeReady, Queue, Batch, Chain
  <2>3. CASE PrepareForSleep /\ head = NULL
    BY <1>1, <2>3, ReachNone, PointersAssumption DEF PrepareForSleep, Queue, Batch, Chain
  <2>. QED
    BY <2>1, <2>2, <2>3
<1>5. SameLists
  BY <1>1, <1>3, <1>4 DEF SameLists, Listed
<1>6. head' \notin Nodes /\ (ready' = head \/ ready' \notin Nodes)
  BY <1>1, PointersAssumption DEF TakeReady, PrepareForSleep, Good, NodeType
<1>7. ShapeInv'
  BY <1>1, <1>2, <1>4, <1>5, <1>6 DEF SameLists, ShapeInv, Good, ListInv
<1>8. ~Holds(PollThread) /\ ~Holds(PollThread)'
  BY <1>1, <1>2 DEF Holds
<1>9. HoldInv'
  BY <1>0, <1>1, <1>2, <1>5, <1>8, HoldKept DEF Good, ListInv
<1>10. LiveInv'
  <2>1. Listed' \subseteq alive
    BY <1>5 DEF SameLists, Good, ListInv, LiveInv
  <2>. QED
    BY <1>0, <1>1, <1>2, <2>1, LiveKept DEF Good, ListInv, NodeSteps
<1>11. DropInv'
  BY <1>0, <1>1, <1>2, DropKept DEF Good, ListInv
<1>. QED
  BY <1>7, <1>9, <1>10, <1>11 DEF ListInv


\* ReadyList::next takes the first node of the ready list in hand.
LEMMA NextNodeList ==
  ASSUME Good, NextNode
  PROVE  ListInv'
<1>. DEFINE x == ready
            p == PollThread
<1>1. /\ p \in Threads /\ pc[p] = "next" /\ x \in Nodes /\ next \in Links /\ ~Holds(p)
      /\ UNCHANGED <<head, events, queued, refs, alive, regOwner, handles, evs>>
      /\ ready' = next[x] /\ next' = [next EXCEPT ![x] = NULL] /\ lq' = queued[x]
      /\ Enter(p, "load_events", x, "poll")
  BY DEF NextNode, ownerVars, Good, NodeType, Threads, Holds
<1>2. /\ Others(p) /\ pc'[p] = "load_events" /\ node'[p] = x /\ op'[p] = "poll"
      /\ \A u \in Threads \ {p} : cur'[u] = cur[u]
  <2>1. Others(p) /\ pc'[p] = "load_events" /\ node'[p] = x /\ op'[p] = "poll"
    BY <1>1, EnterEffect DEF Good
  <2>2. \A u \in Threads \ {p} : cur'[u] = cur[u]
    BY <1>1 DEF Enter, Good, ThreadType
  <2>. QED
    BY <2>1, <2>2
<1>3. next' \in Links /\ (\A m \in Nodes \ {x} : next'[m] = next[m]) /\ next'[x] = NULL
  BY <1>1 DEF Links
<1>4. x \in Batch /\ x \notin Queue /\ x \in Listed /\ queued[x] = 1 /\ x \in alive /\ Listed \subseteq Nodes
  <2>1. x \in Batch
    BY <1>1, ReachHolds DEF Batch, Chain
  <2>. QED
    BY <2>1 DEF Good, ListInv, ShapeInv, HoldInv, ListedFlag, LiveInv, NodeType, Listed
<1>5. Queue' = Queue
  <2>1. \A n \in Reach(next, head) : next'[n] = next[n]
    BY <1>3, <1>4 DEF Queue, Chain, Listed
  <2>2. Reach(next', head) = Reach(next, head)
    BY <1>1, <1>3, <2>1, ReachFrame
  <2>. QED
    BY <1>1, <2>2 DEF Queue, Chain
<1>6. Batch' = Batch \ {x}
  <2>1. \A n \in Reach(next, x) : next[n] # x
    BY <1>1 DEF Good, ListInv, ShapeInv, Listed, Batch, Chain
  <2>2. Reach(next', next[x]) = Reach(next, x) \ {x}
    <3>1. next \in Links /\ next' \in Links /\ x \in Nodes /\ next' = [next EXCEPT ![x] = NULL]
      BY <1>1, <1>3
    <3>. HIDE DEF x
    <3>. QED
      BY <2>1, <3>1, ReachPop, Zenon
  <2>. QED
    BY <1>1, <2>2 DEF Batch, Chain
<1>7. Listed' = Listed \ {x} /\ (\A m \in Listed' : next'[m] = next[m])
  BY <1>3, <1>4, <1>5, <1>6 DEF Listed
<1>8. ShapeInv'
  <2>1. \A n \in Listed' : next[n] \in Nodes => next[n] # head /\ next[n] # next[x]
    BY <1>4, <1>7 DEF Good, ListInv, ShapeInv
  <2>2. Queue' \cap Batch' = {}
    BY <1>5, <1>6 DEF Good, ListInv, ShapeInv
  <2>3. \A m, n \in Listed' : m # n /\ next'[m] \in Nodes => next'[m] # next'[n]
    BY <1>7 DEF Good, ListInv, ShapeInv
  <2>. QED
    BY <1>1, <1>2, <1>7, <2>1, <2>2, <2>3 DEF ShapeInv
<1>9. LiveInv'
  <2>1. Listed' \subseteq alive
    BY <1>7 DEF Good, ListInv, LiveInv
  <2>. QED
    BY <1>1, <1>2, <1>4, <2>1, LiveKept DEF Good, ListInv
<1>10. HoldInv'
  <2>1. \A u \in Threads \ {p} : /\ pc'[u] = pc[u] /\ node'[u] = node[u] /\ pc[u] \notin PollSteps
                                 /\ Holds(u)' <=> Holds(u)
                                 /\ Holds(u) => node[u] # x /\ node[u] \in Nodes
    BY <1>1, <1>2, <1>4 DEF Holds, Others, Good, ListInv, HoldInv, HeldFlag, ThreadInv, LocalInv, NodeSteps, PollSteps
  <2>2. Holds(p)'
    BY <1>2 DEF Holds
  <2>3. ListedFlag' /\ HeldFlag'
    BY <1>1, <1>2, <1>4, <1>7, <2>1 DEF Good, ListInv, HoldInv, ListedFlag, HeldFlag
  <2>4. OneHolder'
    BY <1>1, <1>2, <2>1 DEF Good, ListInv, HoldInv, OneHolder
  <2>5. FlagOwned'
    BY <1>1, <1>2, <1>7, <2>1, <2>2 DEF Good, ListInv, HoldInv, FlagOwned
  <2>6. LinkOwned'
    <3>1. \A m \in alive : next'[m] # NULL => m # x /\ next'[m] = next[m]
      BY <1>3 DEF Good, NodeType
    <3>. QED
      BY <1>1, <1>7, <2>1, <3>1 DEF Good, ListInv, HoldInv, LinkOwned
  <2>7. LinkRead'
    <3>. SUFFICES ASSUME NEW u \in Threads, pc'[u] = "cas_head"
                  PROVE  next'[node'[u]] = IF cur'[u] = SLEEP THEN NULL ELSE cur'[u]
      BY DEF LinkRead
    <3>1. u # p
      BY <1>2
    <3>2. pc[u] = "cas_head" /\ node'[u] = node[u] /\ cur'[u] = cur[u] /\ next'[node[u]] = next[node[u]]
      BY <1>2, <1>3, <2>1, <3>1 DEF Holds
    <3>. QED
      BY <3>2 DEF Good, ListInv, HoldInv, LinkRead
  <2>8. LocalFlag'
    BY <1>1, <1>4 DEF LocalFlag
  <2>. QED
    BY <2>3, <2>4, <2>5, <2>6, <2>7, <2>8 DEF HoldInv
<1>11. DropInv'
  BY <1>1, <1>2, DropKept DEF Good, ListInv
<1>. QED
  BY <1>8, <1>9, <1>10, <1>11 DEF ListInv

\* Reading the events and deciding what to do keep the node in hand; the drop
\* event is never masked.
LEMMA DecideList ==
  ASSUME Good, LoadEvents \/ DecideDrop \/ Requeue
  PROVE  ListInv'
<1>. DEFINE p == PollThread
<1>1. /\ p \in Threads /\ pc[p] \in {"load_events", "decide"} /\ op[p] = "poll" /\ node[p] \in alive
      /\ UNCHANGED <<head, next, events, queued, refs, alive, regOwner, handles, node, cur, op, ready, lq>>
      /\ \E l \in {"decide", "process", "load_head"} : Goto(p, l) /\ (l = "process" => Drop \in evs')
  BY DEF LoadEvents, DecideDrop, Requeue, sharedVars, ownerVars, pollVars, Threads, Good, ListInv, LiveInv,
         NodeSteps, LoopSteps, ThreadInv, LocalInv
<1>2. /\ Others(p) /\ op'[p] = "poll" /\ node'[p] = node[p]
      /\ pc'[p] \in {"decide", "process", "load_head"} /\ (pc'[p] = "process" => Drop \in evs')
  BY <1>1, GotoEffect DEF Good
<1>3. Drop \in evs' <=> Drop \in events[node[p]]
  <2>1. CASE LoadEvents
    BY <2>1 DEF LoadEvents, ReadEvents, PollEvents
  <2>2. CASE DecideDrop \/ Requeue
    BY <1>1, <2>2 DEF DecideDrop, Requeue, pollVars, Good, ListInv, DropInv
  <2>. QED
    BY <2>1, <2>2
<1>4. SameLists /\ Holds(p) /\ Holds(p)'
  BY <1>1, <1>2, ListsKept DEF Holds
<1>5. ShapeInv'
  BY <1>1, <1>2, ShapeKept DEF Good, ListInv
<1>6. lq = 1
  BY <1>1 DEF Good, ListInv, HoldInv, LocalFlag
<1>7. HoldInv'
  BY <1>1, <1>2, <1>4, <1>6, HoldOn DEF Good, ListInv
<1>8. LiveInv'
  <2>1. Listed' \subseteq alive
    BY <1>4 DEF SameLists, Good, ListInv, LiveInv
  <2>. QED
    BY <1>1, <1>2, <2>1, LiveKept DEF Good, ListInv
<1>9. DropInv'
  BY <1>1, <1>2, <1>3, DropKept DEF Good, ListInv
<1>. QED
  BY <1>5, <1>7, <1>8, <1>9 DEF ListInv


\* Giving the flag back: the node is not dropped, so it needs no queueing.
LEMMA DequeueList ==
  ASSUME Good, Dequeue
  PROVE  ListInv'
<1>. DEFINE p == PollThread
            x == node[PollThread]
<1>1. /\ p \in Threads /\ pc[p] = "decide" /\ op[p] = "poll" /\ x \in alive /\ x \in Nodes /\ Holds(p)
      /\ UNCHANGED <<head, next, events, refs, alive, regOwner, handles, node, cur, op, ready, evs>>
      /\ lq = 1 /\ queued[x] = 1 /\ x \notin Listed
  BY DEF Dequeue, ownerVars, Threads, Good, ListInv, LiveInv, HoldInv, HeldFlag, LocalFlag, NodeSteps, LoopSteps,
         ThreadInv, LocalInv, Holds
<1>2. queued'[x] = 0 /\ (\A m \in Nodes \ {x} : queued'[m] = queued[m]) /\ Goto(p, "reread")
  BY <1>1 DEF Dequeue, Good, NodeType
<1>3. Others(p) /\ op'[p] = "poll" /\ node'[p] = x /\ pc'[p] = "reread"
  BY <1>1, <1>2, GotoEffect DEF Good
<1>4. Drop \notin evs /\ Drop \notin events[x] /\ refs[x] # 0
  BY <1>1 DEF Dequeue, Good, ListInv, DropInv, LiveInv, AboutToQueue
<1>5. SameLists
  BY <1>1, ListsKept
<1>6. Listed' = Listed /\ Listed \subseteq alive /\ alive \subseteq Nodes
  BY <1>5 DEF SameLists, Good, ListInv, LiveInv, NodeType
<1>7. ShapeInv'
  BY <1>1, <1>3, ShapeKept DEF Good, ListInv
<1>8. LiveInv'
  BY <1>1, <1>3, <1>6, LiveKept DEF Good, ListInv
<1>9. HoldInv'
  <2>1. ~Holds(p)' /\ \A u \in Threads \ {p} : /\ pc'[u] = pc[u] /\ node'[u] = node[u]
                                               /\ Holds(u)' <=> Holds(u)
                                               /\ Holds(u) => node[u] # x /\ node[u] \in Nodes
    BY <1>1, <1>3 DEF Holds, Others, Good, ListInv, HoldInv, OneHolder, ThreadInv, LocalInv, NodeSteps, PollSteps
  <2>2. ListedFlag' /\ HeldFlag'
    BY <1>1, <1>2, <1>6, <2>1 DEF Good, ListInv, HoldInv, ListedFlag, HeldFlag
  <2>3. OneHolder'
    BY <1>1, <2>1 DEF Good, ListInv, HoldInv, OneHolder
  <2>4. FlagOwned'
    <3>1. \A m \in alive : queued'[m] = 1 => m # x /\ queued[m] = 1
      BY <1>2, <1>6
    <3>. QED
      BY <1>1, <1>6, <2>1, <3>1 DEF Good, ListInv, HoldInv, FlagOwned
  <2>5. \A u \in Threads : pc'[u] = "cas_head" <=> pc[u] = "cas_head"
    BY <1>1, <1>3, <2>1
  <2>6. LinkOwned' /\ LinkRead'
    BY <1>1, <1>5, <2>5, LinksKept DEF Good, ListInv
  <2>7. LocalFlag'
    BY <1>3 DEF LocalFlag
  <2>. QED
    BY <2>2, <2>3, <2>4, <2>6, <2>7 DEF HoldInv
<1>10. DropInv'
  BY <1>1, <1>2, <1>3, <1>4, <1>6, DropMove
<1>. QED
  BY <1>7, <1>8, <1>9, <1>10 DEF ListInv

\* A node that was given back is read again, reported and left alone.
LEMMA ReportList ==
  ASSUME Good, Reread \/ ProcessEvent
  PROVE  ListInv'
<1>. DEFINE p == PollThread
<1>1. /\ p \in Threads /\ op[p] = "poll" /\ node[p] \in alive /\ pc[p] \in {"reread", "process"} /\ ~Holds(p)
      /\ UNCHANGED <<head, next, events, queued, refs, alive, regOwner, handles, ready>>
      /\ Drop \notin events[node[p]]
  BY DEF Reread, ProcessEvent, Continue, sharedVars, ownerVars, Threads, Good, ListInv, LiveInv, DropInv, ReturnInv,
         NodeSteps, LoopSteps, ThreadInv, LocalInv, Holds
<1>2. CASE Reread
  <2>1. /\ Others(p) /\ pc'[p] = "process" /\ op'[p] = "poll" /\ node'[p] = node[p] /\ UNCHANGED cur
        /\ Drop \notin evs'
    BY <1>1, <1>2, GotoEffect DEF Reread, ReadEvents, PollEvents, Good
  <2>2. ~Holds(p)'
    BY <2>1 DEF Holds
  <2>3. ShapeInv' /\ HoldInv' /\ LiveInv'
    BY <1>1, <2>1, <2>2, AsideMove
  <2>4. DropInv'
    BY <1>1, <2>1, DropKept DEF Good, ListInv
  <2>. QED
    BY <2>3, <2>4 DEF ListInv
<1>3. CASE ProcessEvent
  <2>1. /\ Others(p) /\ pc'[p] = "next" /\ op'[p] = "set_readiness" /\ (\A u \in Threads \ {p} : cur'[u] = cur[u])
    <3>1. Leave(p, "next")
      BY <1>3 DEF ProcessEvent, Continue
    <3>2. Others(p) /\ pc'[p] = "next" /\ op'[p] = "set_readiness"
      BY <1>1, <3>1, EnterEffect DEF Leave, Good
    <3>3. \A u \in Threads \ {p} : cur'[u] = cur[u]
      BY <3>1 DEF Leave, Enter, Good, ThreadType
    <3>. QED
      BY <3>2, <3>3
  <2>2. ~Holds(p)'
    BY <2>1 DEF Holds
  <2>3. ShapeInv' /\ HoldInv' /\ LiveInv'
    BY <1>1, <2>1, <2>2, AsideMove DEF NodeSteps
  <2>4. DropInv'
    BY <1>1, <2>1, DropKept DEF Good, ListInv
  <2>. QED
    BY <2>3, <2>4 DEF ListInv
<1>. QED
  BY <1>2, <1>3

\* The freed node has no handle, so no other thread works on it, and it is in
\* poll's hand, so it is in no list.
LEMMA ProcessDropList ==
  ASSUME Good, ProcessDrop
  PROVE  ListInv'
<1>. DEFINE p == PollThread
            x == node[PollThread]
<1>1. /\ p \in Threads /\ pc[p] = "process" /\ op[p] = "poll" /\ x \in alive /\ x \in Nodes /\ Holds(p)
      /\ UNCHANGED <<head, next, events, queued, refs, regOwner, handles, ready>>
      /\ alive' = alive \ {x} /\ Leave(p, "next") /\ Drop \in events[x]
  BY DEF ProcessDrop, Continue, sharedVars, Threads, Good, ListInv, LiveInv, DropInv, NodeSteps, LoopSteps,
         ThreadInv, LocalInv, Holds
<1>2. /\ Others(p) /\ pc'[p] = "next" /\ op'[p] = "set_readiness" /\ ~Holds(p)'
      /\ \A u \in Threads \ {p} : cur'[u] = cur[u]
  <2>1. Others(p) /\ pc'[p] = "next" /\ op'[p] = "set_readiness"
    BY <1>1, EnterEffect DEF Leave, Good
  <2>2. \A u \in Threads \ {p} : cur'[u] = cur[u]
    BY <1>1 DEF Leave, Enter, Good, ThreadType
  <2>. QED
    BY <2>1, <2>2 DEF Holds
<1>3. refs[x] = 0 /\ handles[x] = {} /\ regOwner[x] = NULL /\ x \notin Listed
  BY <1>1 DEF Good, CountInv, ListInv, DropInv, HoldInv, HeldFlag
<1>4. \A u \in Threads \ {p} : /\ pc'[u] = pc[u] /\ node'[u] = node[u] /\ (Holds(u)' <=> Holds(u))
                               /\ pc[u] \in NodeSteps => node[u] # x
                               /\ Holds(u) => pc[u] \in NodeSteps
  <2>1. \A u \in Threads \ {p} : pc[u] \notin PollSteps /\ pc[u] # "store_drop"
    BY DEF Good, ThreadInv, LocalInv, ListInv, LiveInv
  <2>2. \A u \in Threads \ {p} : pc[u] \in NodeSteps => node[u] # x
    BY <1>3, <2>1 DEF Good, ListInv, LiveInv, NodeSteps, PollSteps
  <2>. QED
    BY <1>2, <2>1, <2>2 DEF Others, Holds, PollSteps, NodeSteps
<1>5. SameLists
  BY <1>1, ListsKept
<1>6. Listed' = Listed /\ Listed \subseteq alive'
  BY <1>1, <1>3, <1>5 DEF SameLists, Good, ListInv, LiveInv
<1>7. ShapeInv'
  BY <1>1, <1>2, ShapeKept DEF Good, ListInv
<1>8. LiveInv'
  <2>1. \A u \in Threads : pc'[u] \in NodeSteps => u # p /\ pc[u] \in NodeSteps /\ node'[u] = node[u] /\ node'[u] \in alive'
    BY <1>1, <1>2, <1>4 DEF Good, ListInv, LiveInv, NodeSteps
  <2>2. \A n \in Nodes : handles[n] # {} \/ regOwner[n] # NULL => n \in alive'
    BY <1>1, <1>3 DEF Good, ListInv, LiveInv
  <2>. QED
    BY <1>1, <1>2, <1>4, <1>6, <2>1, <2>2 DEF LiveInv, Good, ListInv, NodeSteps
<1>9. HoldInv'
  <2>1. ListedFlag' /\ HeldFlag'
    BY <1>1, <1>2, <1>4, <1>6 DEF Good, ListInv, HoldInv, ListedFlag, HeldFlag
  <2>2. OneHolder'
    BY <1>1, <1>2, <1>4 DEF Good, ListInv, HoldInv, OneHolder
  <2>3. FlagOwned'
    BY <1>1, <1>4, <1>6 DEF Good, ListInv, HoldInv, FlagOwned
  <2>4. \A u \in Threads : (pc'[u] = "cas_head" <=> pc[u] = "cas_head") /\ (pc[u] = "cas_head" => node'[u] = node[u] /\ cur'[u] = cur[u])
    BY <1>1, <1>2, <1>4
  <2>5. LinkOwned' /\ LinkRead'
    BY <1>1, <1>5, <2>4, LinksKept DEF Good, ListInv
  <2>6. LocalFlag'
    BY <1>2 DEF LocalFlag
  <2>. QED
    BY <2>1, <2>2, <2>3, <2>5, <2>6 DEF HoldInv
<1>10. DropInv'
  BY <1>1, <1>2, <1>4 DEF DropInv, AboutToQueue, Good, ListInv
<1>. QED
  BY <1>7, <1>8, <1>9, <1>10 DEF ListInv

\* The ownership of nodes and links is inductive, given what the other parts of
\* the invariant say of threads and counts.
LEMMA ListStep == Good /\ OwnerDropsLast /\ [Next]_vars => ListInv'
<1>. SUFFICES ASSUME Good, OwnerDropsLast, [Next]_vars PROVE ListInv'
  OBVIOUS
<1>1. ASSUME NEW t \in Threads, Call(t) PROVE ListInv'
  BY <1>1, SetReadinessList, HandleList, ShareList DEF Call
<1>2. ASSUME NEW t \in Threads, Step(t) PROVE ListInv'
  BY <1>2, StoreDropList, CasQueuedList, PrependList, WalkStepsList DEF Step
<1>3. CASE Register
  BY <1>3, RegistrationNewList, RegistrationUpdateList DEF Register
<1>4. CASE PollStart \/ PollStep \/ SelectOther \/ SelectInterrupted
  <2>1. PollThread \in Threads
    BY DEF Threads
  <2>. QED
    BY <1>4, <2>1, WalkStepsList, SwapList, NextNodeList, DecideList, DequeueList, ReportList, ProcessDropList
    DEF PollStep
<1>5. CASE UNCHANGED vars
  <2>1. /\ UNCHANGED <<head, next, events, queued, refs, alive, regOwner, handles, ready, evs, lq, pc, node, cur, op>>
    BY <1>5 DEF vars, sharedVars, ownerVars, pollVars, threadVars
  <2>2. SameLists
    BY <2>1, ListsKept
  <2>3. ShapeInv'
    BY <2>1, ShapeKept DEF ShapeInv, Good, ListInv
  <2>4. HoldInv'
    <3>1. LocalFlag' /\ \A v \in Threads : Holds(v)' <=> Holds(v)
      BY <2>1 DEF HoldInv, LocalFlag, Holds, Good, ListInv
    <3>. QED
      BY <2>1, <2>2, <3>1, FlagsKept, LinksKept DEF HoldInv, SameLists, Good, ListInv
  <2>5. LiveInv'
    BY <2>1, <2>2 DEF LiveInv, SameLists, Good, ListInv
  <2>6. DropInv'
    BY <2>1 DEF DropInv, AboutToQueue, Good, ListInv
  <2>. QED
    BY <2>3, <2>4, <2>5, <2>6 DEF ListInv
<1>. QED
  BY <1>1, <1>2, <1>3, <1>4, <1>5 DEF Next


=============================================================================
