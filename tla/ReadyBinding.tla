----------------------------- MODULE ReadyBinding -----------------------------
(***************************************************************************)
(* What the I/O objects of mio on Windows have in common: the ReadyBinding *)
(* that ties an object to a completion port and to a registration of the   *)
(* readiness queue (src/src/sys/windows/selector.rs), the reference count  *)
(* that operations in flight share with the user's handle                  *)
(* (from_raw_arc.rs) and the pool of buffers (buffer_pool.rs).             *)
(*                                                                         *)
(* Everything an object's methods and completion callbacks do happens      *)
(* under its mutex, so each of them is one action, and the helpers they    *)
(* call are operators from the object's record to its new record.  The     *)
(* kernel, the completion port and the socket are external.                *)
(***************************************************************************)
EXTENDS Integers, Sequences

CONSTANTS
  Streams, Listeners, Udps,  \* the I/O objects, by type
  Programs,                  \* the sets of objects a program may have
  Interests, Modes,          \* what register and reregister are called with
  MaxIn,                     \* bound: what arrives at one object
  MaxOut,                    \* bound: length of a buffer given to write
  PoolCap                    \* capacity of the buffer pool

ASSUME ObjectsAssumption ==
  Streams \cap Listeners = {} /\ Streams \cap Udps = {} /\ Listeners \cap Udps = {}
ASSUME ProgramsAssumption == Programs \subseteq SUBSET (Streams \cup Listeners \cup Udps)
ASSUME CallsAssumption ==
  Interests \subseteq SUBSET {"readable", "writable"} /\ Modes \subseteq {"edge", "level", "oneshot"}
ASSUME BoundsAssumption == MaxIn \in Nat /\ MaxOut \in Nat \ {0} /\ PoolCap \in Nat

VARIABLES
  obj,          \* the objects of the program
  pool          \* the capacities of the pooled buffers, the next to take last

vars == <<obj, pool>>

State == {"empty", "pending", "ready", "error"}
Operation == {"connect", "read", "write"}
Ready == {"readable", "writable", "hup"}
Capacity == {"small", "big"}    \* of a write to a stream; 64 KiB for a datagram

Object ==
  [rd : State, wr : State,      \* read (of a listener: accept) and write
   left : 0..MaxOut,            \* bytes of the pending write not yet written
   rbuf : Capacity, wbuf : Capacity,  \* the buffers of the last read and write
   deferred : BOOLEAN,          \* deferred_connect is Some
   instant : BOOLEAN,           \* instant_notify
   bound : BOOLEAN,             \* associated with the port; readiness is Some
   events : SUBSET Ready,       \* the registration: its events,
   note : BOOLEAN,              \*   whether a later poll looks at it,
   interest : SUBSET Ready,     \*   what it reports and how
   mode : {"edge", "level", "oneshot"},
   refs : Nat,                  \* the count of the FromRawArc
   handle : BOOLEAN,            \* the user still has the object
   ops : SUBSET Operation,      \* external: operations in progress
   port : SUBSET Operation,     \* external: operations whose completion is queued
   sent : 0..MaxOut,            \* external: bytes of the completed write
   conn : {"down", "up", "refused"},       \* external: the connection
   inbox : 0..MaxIn, arrived : 0..MaxIn,   \* external: input waiting, input so far
   peer : {"open", "closed", "reset"},     \* external: the other side
   told : SUBSET {"readable", "writable"}, \* history: reported, and no call has
                                           \*   returned "would block" since
   sub : SUBSET {"readable", "writable"},  \* history: interest of the last
                                           \*   (re)register that succeeded
   late : BOOLEAN,              \* history: dropped when the connect had succeeded and
                                \*   its completion was queued
   deaf : BOOLEAN]              \* history: accept returned without scheduling another

\* A new object: FromRawArc::new and ReadyBinding::new.
NewObject ==
  [rd |-> "empty", wr |-> "empty", left |-> 0, rbuf |-> "big", wbuf |-> "small",
   deferred |-> FALSE, instant |-> FALSE, bound |-> FALSE, events |-> {},
   note |-> FALSE, interest |-> {}, mode |-> "level", refs |-> 1, handle |-> TRUE,
   ops |-> {}, port |-> {}, sent |-> 0, conn |-> "up", inbox |-> 0, arrived |-> 0,
   peer |-> "open", told |-> {}, sub |-> {}, late |-> FALSE, deaf |-> FALSE]

Objects == Streams \cup Listeners \cup Udps

\* The user has o; an operation of o is in progress; its completion is queued.
Held(o) == o \in DOMAIN obj /\ obj[o].handle
InProgress(o, op) == o \in DOMAIN obj /\ op \in obj[o].ops
Queued(o, op) == o \in DOMAIN obj /\ op \in obj[o].port

Become(o, me) == obj' = [obj EXCEPT ![o] = me]

-----------------------------------------------------------------------------
(* Readiness.  Readiness is kept by a registration of the readiness queue,  *)
(* which ReadinessQueue models; here it is events and note, as promised by  *)
(* module Readiness.                                                        *)

set_readiness(me, set) ==
  IF me.bound THEN [me EXCEPT !.events = set, !.note = @ \/ set # {}] ELSE me

add_readiness(me, set) == set_readiness(me, me.events \cup set)

clear_readiness(me, set) == set_readiness(me, me.events \ set)

\* Interest in reading is interest in hang-ups.
Watched(i) == IF "readable" \in i THEN i \cup {"hup"} ELSE i

\* ReadyBinding::register_socket.  A socket can be associated with a port once,
\* so add_socket, and with it a second register, fails and changes nothing.
register_socket(me, i, m) ==
  [me EXCEPT !.bound = TRUE, !.interest = Watched(i), !.mode = m]

\* ReadyBinding::reregister_socket, with Registration::update.
reregister_socket(me, i, m) ==
  [me EXCEPT !.interest = Watched(i), !.mode = m, !.note = @ \/ me.events # {}]

\* Evented::deregister of every type, ReadyBinding::deregister.
Deregister(o) ==
  /\ Held(o) /\ obj[o].bound
  /\ Become(o, [reregister_socket(obj[o], {}, "level") EXCEPT !.sub = {}])
  /\ UNCHANGED pool

\* A poll looks at the registration of o (Readiness, Look); it may be looked at
\* once more.
PollEvent(o) ==
  LET me == obj[o]
      evs == me.events \cap me.interest
      off == me.mode = "oneshot" /\ evs # {}
  IN /\ o \in DOMAIN obj /\ me.note
     /\ \E stays \in BOOLEAN :
          Become(o, [me EXCEPT !.note = stays,
                               !.told = @ \cup (evs \ {"hup"}),
                               !.interest = IF off THEN {} ELSE @,
                               !.mode = IF off THEN "level" ELSE @,
                               !.sub = IF off THEN {} ELSE @])
     /\ UNCHANGED pool

-----------------------------------------------------------------------------
(* Operations in flight and the references they hold.                      *)

\* Mutant: the operation in flight shares the user's reference.
StartedNotForgotten(me, op) == [me EXCEPT !.ops = @ \cup {op}]

\* The kernel accepted an operation and will queue its completion: a clone of the
\* FromRawArc is forgotten.
Started(me, op) == [me EXCEPT !.refs = @ + 1, !.ops = @ \cup {op}]

\* Selector::select takes a completion off the port and calls its callback;
\* overlapped2arc! takes over the reference, which the end of the callback drops.
Completed(me, op) ==
  [me EXCEPT !.port = @ \ {op}, !.refs = @ - 1, !.sent = IF op = "write" THEN 0 ELSE @]

\* cancel(socket, overlapped): what is in progress there completes at once.
Cancelled(me, some) ==
  [me EXCEPT !.ops = @ \ some, !.port = @ \cup (me.ops \cap some),
             !.conn = IF "connect" \in me.ops \cap some THEN "refused" ELSE @]

\* The fields of a dropped object: the operations its drop cancels, the
\* registration and one reference.
Dropped(me, some) ==
  [Cancelled(me, some) EXCEPT !.handle = FALSE, !.refs = @ - 1, !.interest = {}, !.mode = "level",
                              !.sub = {}, !.told = {},
                              !.late = "connect" \in me.port /\ me.conn = "up"]

\* A call did, or did not, return "would block".
Again(me, kind) == [me EXCEPT !.told = @ \cup {kind}]
WouldBlock(me, kind) == [me EXCEPT !.told = @ \ {kind}]

-----------------------------------------------------------------------------
(* BufferPool.                                                             *)

\* get pops a buffer, whatever its capacity, or allocates one.
get_buffer(bufs, default) == IF bufs = <<>> THEN default ELSE bufs[Len(bufs)]
PoolRest(bufs) == IF bufs = <<>> THEN bufs ELSE SubSeq(bufs, 1, Len(bufs) - 1)

put_buffer(bufs, b) == IF Len(bufs) < PoolCap THEN Append(bufs, b) ELSE bufs

-----------------------------------------------------------------------------
(* The kernel.                                                             *)

\* Data, a connection or a datagram arrives.
Arrive(o) ==
  /\ o \in DOMAIN obj /\ obj[o].arrived < MaxIn /\ obj[o].conn = "up" /\ obj[o].peer = "open"
  /\ Become(o, [obj[o] EXCEPT !.arrived = @ + 1, !.inbox = @ + 1])
  /\ UNCHANGED pool

\* An operation in progress finishes.  An accept or a datagram is taken from the
\* inbox, a read of no bytes takes nothing; a failed write transfers nothing.
FinishRead(o) ==
  LET me == obj[o] IN
  /\ InProgress(o, "read") /\ (me.inbox > 0 \/ me.peer # "open")
  /\ Become(o, [me EXCEPT !.ops = @ \ {"read"}, !.port = @ \cup {"read"},
                          !.inbox = IF o \in Streams THEN @ ELSE @ - 1])
  /\ UNCHANGED pool

FinishWrite(o) ==
  LET me == obj[o] IN
  /\ InProgress(o, "write")
  /\ \E n \in (IF me.peer = "reset" \/ me.left = 0 THEN {0} ELSE 1..me.left) :
       Become(o, [me EXCEPT !.ops = @ \ {"write"}, !.port = @ \cup {"write"}, !.sent = n])
  /\ UNCHANGED pool

FinishConnect(o) ==
  /\ InProgress(o, "connect")
  /\ \E c \in {"up", "refused"} :
       Become(o, [obj[o] EXCEPT !.ops = @ \ {"connect"}, !.port = @ \cup {"connect"}, !.conn = c])
  /\ UNCHANGED pool

\* The other side of a stream closes or resets it; a reset discards input.
Hangup(o) ==
  /\ o \in DOMAIN obj /\ obj[o].conn = "up" /\ obj[o].peer = "open"
  /\ \/ Become(o, [obj[o] EXCEPT !.peer = "closed"])
     \/ Become(o, [obj[o] EXCEPT !.peer = "reset", !.inbox = 0])
  /\ UNCHANGED pool

=============================================================================
