------------------------- MODULE WindowsIoCallbacks -------------------------
(***************************************************************************)
(* What WindowsIo keeps true of one object, and that the helpers of its    *)
(* methods, its completion callbacks, its drop and the kernel keep it.     *)
(***************************************************************************)
EXTENDS WindowsIo, FiniteSetTheorems, TLAPS

Results == {"error", "reset", "done", "pending"}

\* The reads and the connect in flight are those the state says; what is ready is
\* in the events of the registration.  (Hangup is of streams only.)
Flight(o, me) ==
  /\ me.ops \cap me.port = {}
  /\ "read" \in Outstanding(me) <=> me.rd = "pending"
  /\ "connect" \in Outstanding(me) => me.rd = "empty" /\ o \in Streams /\ ~me.deferred
  /\ "connect" \in me.ops => me.conn = "down"
  /\ me.deferred => me.conn = "down"
  /\ ~me.bound => me.rd = "empty" /\ me.wr = "empty" /\ Outstanding(me) = {}
  /\ me.rd \in {"ready", "error"} => "readable" \in me.events
  /\ me.inbox <= me.arrived /\ (o \notin Streams => me.peer = "open")

Writes(me) == "write" \in Outstanding(me) <=> me.wr = "pending"

Counted(me) == me.refs = Cardinality(Outstanding(me)) + (IF me.handle THEN 1 ELSE 0)

\* What holds in the middle of a call, too.
Sound(o, me) == me \in Object /\ Flight(o, me) /\ Writes(me) /\ Counted(me)

\* A user who asked to read was told, or is about to be, unless a read or the
\* connect is in flight.
Heard(me) ==
  "readable" \in me.sub =>
    /\ me.rd \in {"ready", "error"} => "readable" \in me.told \/ me.note
    /\ me.rd = "empty" => me.deaf \/ "connect" \in Outstanding(me)

\* A user who asked to write and could was told, or is about to be.
Output(o, me) ==
  "writable" \in me.sub /\ me.wr = "empty" /\ me.conn = "up" /\ "connect" \notin me.port /\ o \notin Listeners
    => "writable" \in me.told \/ (me.note /\ "writable" \in me.events)

Asked(me) == me.sub \subseteq me.interest /\ (~me.bound => me.sub = {})

Good(o, me) == Sound(o, me) /\ Asked(me) /\ Heard(me) /\ Output(o, me)

-----------------------------------------------------------------------------
(* References.                                                             *)

\* Most of the steps below are first-order: Zenon is asked before the SMT solver.
USE ZenonT(8), SMTT(20)

LEMMA OutstandingSet ==
  ASSUME NEW me \in Object
  PROVE  Outstanding(me) \subseteq Operation /\ IsFiniteSet(Outstanding(me)) /\ Cardinality(Outstanding(me)) \in Nat
<1>1. Outstanding(me) \subseteq Operation
  BY DEF Outstanding, Object
<1>2. IsFiniteSet(Operation)
  <2>1. IsFiniteSet({}) /\ IsFiniteSet({} \cup {"connect"}) /\ IsFiniteSet({} \cup {"connect"} \cup {"read"})
        /\ IsFiniteSet({} \cup {"connect"} \cup {"read"} \cup {"write"})
    BY FS_EmptySet, FS_AddElement
  <2>2. {} \cup {"connect"} \cup {"read"} \cup {"write"} = Operation
    BY DEF Operation
  <2>. QED
    BY <2>1, <2>2
<1>. QED
  BY <1>1, <1>2, FS_Subset, FS_CardinalityType

LEMMA CountKept ==
  ASSUME NEW me, Counted(me), NEW m, Outstanding(m) = Outstanding(me), m.refs = me.refs, m.handle = me.handle
  PROVE  Counted(m)
BY DEF Counted

LEMMA CountStarted ==
  ASSUME NEW me \in Object, Counted(me), NEW op \in Operation, op \notin Outstanding(me),
         NEW m, Outstanding(m) = Outstanding(me) \cup {op}, m.refs = me.refs + 1, m.handle = me.handle
  PROVE  Counted(m)
<1>1. Cardinality(Outstanding(m)) = Cardinality(Outstanding(me)) + 1
  <2>1. IsFiniteSet(Outstanding(me))
    BY OutstandingSet
  <2>2. Cardinality(Outstanding(me) \cup {op}) = Cardinality(Outstanding(me)) + 1
    BY <2>1, FS_AddElement
  <2>. QED
    BY <2>2
<1>. QED
  BY <1>1, OutstandingSet DEF Counted

LEMMA CountCompleted ==
  ASSUME NEW me \in Object, Counted(me), NEW op \in Outstanding(me),
         NEW m, Outstanding(m) = Outstanding(me) \ {op}, m.refs = me.refs - 1, m.handle = me.handle
  PROVE  Counted(m) /\ m.refs \in Nat
<1>1. Cardinality(Outstanding(m)) = Cardinality(Outstanding(me)) - 1
  BY OutstandingSet, FS_RemoveElement
<1>2. Cardinality(Outstanding(me)) # 0
  BY OutstandingSet, FS_EmptySet
<1>. QED
  BY <1>1, <1>2, OutstandingSet DEF Counted

LEMMA CountDropped ==
  ASSUME NEW me \in Object, Counted(me), me.handle,
         NEW m, Outstanding(m) = Outstanding(me), m.refs = me.refs - 1, ~m.handle
  PROVE  Counted(m) /\ m.refs \in Nat
BY OutstandingSet DEF Counted

Keeps(o) == \E n : Good(o, n) /\ Become(o, n)

\* All fields have their types.
LEMMA Typed ==
  ASSUME NEW me \in Object
  PROVE  /\ me.rd \in State /\ me.wr \in State /\ me.left \in 0..MaxOut /\ me.rbuf \in Capacity /\ me.wbuf \in Capacity
         /\ me.deferred \in BOOLEAN /\ me.bound \in BOOLEAN /\ me.note \in BOOLEAN /\ me.handle \in BOOLEAN
         /\ me.events \in SUBSET Ready /\ me.interest \in SUBSET Ready /\ me.refs \in Nat
         /\ me.ops \in SUBSET Operation /\ me.port \in SUBSET Operation /\ me.sent \in 0..MaxOut
         /\ me.inbox \in 0..MaxIn /\ me.arrived \in 0..MaxIn
         /\ me.told \in SUBSET {"readable", "writable"} /\ me.sub \in SUBSET {"readable", "writable"}
BY Zenon DEF Object

-----------------------------------------------------------------------------
(* Drop and the kernel.                                                    *)

LEMMA PutCancelled ==
  ASSUME NEW me \in Object, NEW a, a \in SUBSET Operation, NEW p, p \in SUBSET Operation,
         NEW k, k \in {"down", "up", "refused"}, NEW m, m = [me EXCEPT !.ops = a, !.port = p, !.conn = k]
  PROVE  m \in Object
BY ZenonT(30) DEF Object

LEMMA PutForgotten ==
  ASSUME NEW me \in Object, NEW b, b \in BOOLEAN, NEW m, m = [me EXCEPT !.sub = {}, !.told = {}, !.late = b]
  PROVE  m \in Object
BY ZenonT(30) DEF Object

LEMMA PutReleased ==
  ASSUME NEW me \in Object, NEW r, r \in Nat, NEW m,
         m = [me EXCEPT !.handle = FALSE, !.refs = r, !.interest = {}, !.mode = "level"]
  PROVE  m \in Object
BY ZenonT(30) DEF Object

LEMMA PutDropped ==
  ASSUME NEW me, NEW some, NEW x \in Object, x = Cancelled(me, some), x.refs - 1 \in Nat, NEW m, m = Dropped(me, some)
  PROVE  m \in Object
<1>1. PICK k : k = [x EXCEPT !.handle = FALSE, !.refs = @ - 1, !.interest = {}, !.mode = "level"]
  OBVIOUS
<1>2. k \in Object
  <2>1. PICK r : r = x.refs - 1
    OBVIOUS
  <2>2. k = [x EXCEPT !.handle = FALSE, !.refs = r, !.interest = {}, !.mode = "level"]
    BY <1>1, <2>1
  <2>3. r \in Nat
    BY <2>1
  <2>. QED
    BY <2>2, <2>3, PutReleased
<1>3. PICK b \in BOOLEAN : b = ("connect" \in me.port /\ me.conn = "up")
  <2>1. ("connect" \in me.port /\ me.conn = "up") \in BOOLEAN
    OBVIOUS
  <2>. WITNESS ("connect" \in me.port /\ me.conn = "up") \in BOOLEAN
  <2>. QED
    OBVIOUS
<1>4. m = [k EXCEPT !.sub = {}, !.told = {}, !.late = b]
  BY <1>1, <1>3 DEF Dropped
<1>5. b \in BOOLEAN
  BY <1>3
<1>. QED
  BY <1>2, <1>4, <1>5, PutForgotten

LEMMA DropGood ==
  ASSUME NEW o, NEW me, Good(o, me), me.handle, NEW some, NEW x, x = Cancelled(me, some), NEW m, m = Dropped(me, some)
  PROVE  Good(o, m)
<1>0. Sound(o, me) /\ Flight(o, me) /\ me \in Object
  BY DEF Good, Sound
<1>. DEFINE conn == IF "connect" \in me.ops \cap some THEN "refused" ELSE me.conn
<1>1. x \in Object
  <2>1. me.ops \ some \in SUBSET Operation /\ me.port \cup (me.ops \cap some) \in SUBSET Operation
    BY <1>0, Typed
  <2>2. conn \in {"down", "up", "refused"}
    <3>1. me.conn \in {"down", "up", "refused"}
      BY <1>0, Zenon DEF Object
    <3>. QED
      BY <3>1
  <2>3. x = [me EXCEPT !.ops = me.ops \ some, !.port = me.port \cup (me.ops \cap some), !.conn = conn]
    BY DEF Cancelled
  <2>. HIDE DEF conn
  <2>. QED
    BY <1>0, <2>1, <2>2, <2>3, PutCancelled
<1>2. /\ x.ops = me.ops \ some /\ x.port = me.port \cup (me.ops \cap some) /\ x.conn = conn
      /\ x.rd = me.rd /\ x.wr = me.wr /\ x.refs = me.refs /\ x.handle = me.handle /\ x.deferred = me.deferred
      /\ x.bound = me.bound /\ x.inbox = me.inbox /\ x.arrived = me.arrived /\ x.peer = me.peer /\ x.events = me.events
  BY <1>0, Zenon DEF Object, Cancelled
<1>3. Outstanding(x) = Outstanding(me)
  BY <1>2 DEF Outstanding
<1>4. Counted(x)
  BY <1>0, <1>2, <1>3, CountKept DEF Sound
<1>5. x.handle /\ x.refs - 1 \in Nat
  BY <1>1, <1>2, <1>4, OutstandingSet DEF Counted
<1>6. m \in Object
  BY <1>1, <1>5, PutDropped
<1>7. /\ m.ops = x.ops /\ m.port = x.port /\ m.conn = x.conn /\ m.rd = x.rd /\ m.wr = x.wr /\ m.deferred = x.deferred
      /\ m.bound = x.bound /\ m.inbox = x.inbox /\ m.arrived = x.arrived /\ m.peer = x.peer /\ m.events = x.events
      /\ m.refs = x.refs - 1 /\ m.handle = FALSE /\ m.sub = {}
  BY <1>1, Zenon DEF Object, Dropped
<1>8. Outstanding(m) = Outstanding(me)
  BY <1>3, <1>7 DEF Outstanding
<1>9. Counted(m)
  BY <1>1, <1>3, <1>4, <1>5, <1>7, <1>8, CountDropped
<1>10. Flight(o, m)
  <2>1. m.ops \cap m.port = {} /\ ("connect" \in m.ops => m.conn = "down")
    BY <1>0, <1>2, <1>7 DEF Flight
  <2>2. m.deferred => m.conn = "down"
    BY <1>0, <1>2, <1>7 DEF Flight, Outstanding
  <2>. QED
    BY <1>0, <1>2, <1>7, <1>8, <2>1, <2>2 DEF Flight
<1>11. Writes(m)
  BY <1>0, <1>2, <1>7, <1>8 DEF Sound, Writes
<1>12. Asked(m) /\ Heard(m) /\ Output(o, m)
  BY <1>7 DEF Asked, Heard, Output
<1>. QED
  BY <1>6, <1>9, <1>10, <1>11, <1>12 DEF Good, Sound

LEMMA DropKeeps ==
  ASSUME NEW o, o \in DOMAIN obj, Good(o, obj[o]), StreamDrop(o) \/ ListenerDrop(o) \/ UdpDrop(o)
  PROVE  Keeps(o)
<1>1. PICK some : Become(o, Dropped(obj[o], some))
  BY DEF StreamDrop, ListenerDrop, UdpDrop
<1>2. obj[o].handle
  BY DEF StreamDrop, ListenerDrop, UdpDrop, Held
<1>3. PICK x, m : x = Cancelled(obj[o], some) /\ m = Dropped(obj[o], some) /\ Become(o, m)
  BY <1>1
<1>4. Good(o, m)
  BY <1>2, <1>3, DropGood
<1>. QED
  BY <1>3, <1>4 DEF Keeps

\* What the kernel never touches.
Untouched(me, m) ==
  /\ m.rd = me.rd /\ m.wr = me.wr /\ m.refs = me.refs /\ m.handle = me.handle /\ m.deferred = me.deferred
  /\ m.bound = me.bound /\ m.events = me.events /\ m.sub = me.sub /\ m.interest = me.interest /\ m.told = me.told
  /\ m.note = me.note /\ m.deaf = me.deaf

LEMMA FinishGood ==
  ASSUME NEW o, NEW me, Good(o, me), NEW op \in me.ops, NEW m \in Object, Untouched(me, m),
         m.ops = me.ops \ {op}, m.port = me.port \cup {op}, m.inbox <= m.arrived, m.peer = me.peer,
         m.conn = me.conn \/ op = "connect"
  PROVE  Good(o, m)
<1>0. Sound(o, me) /\ Flight(o, me)
  BY DEF Good, Sound
<1>1. Outstanding(m) = Outstanding(me)
  BY DEF Outstanding
<1>2. Flight(o, m)
  <2>1. m.ops \cap m.port = {} /\ ("connect" \in m.ops => m.conn = "down")
    BY <1>0 DEF Flight
  <2>2. m.deferred => m.conn = "down"
    BY <1>0 DEF Flight, Outstanding, Untouched
  <2>. QED
    BY <1>0, <1>1, <2>1, <2>2 DEF Flight, Untouched
<1>3. Writes(m)
  BY <1>0, <1>1 DEF Sound, Writes, Untouched
<1>4. Counted(m)
  BY <1>0, <1>1, CountKept DEF Sound, Untouched
<1>5. Asked(m)
  BY DEF Good, Asked, Untouched
<1>6. Heard(m)
  BY <1>1 DEF Good, Heard, Untouched
<1>7. Output(o, m)
  BY DEF Good, Output, Untouched
<1>. QED
  BY <1>2, <1>3, <1>4, <1>5, <1>6, <1>7 DEF Good, Sound

LEMMA SocketGood ==
  ASSUME NEW o, NEW me, Good(o, me), NEW m \in Object, Untouched(me, m), m.ops = me.ops, m.port = me.port, m.conn = me.conn,
         m.inbox <= m.arrived, o \in Streams \/ m.peer = me.peer
  PROVE  Good(o, m)
<1>0. Sound(o, me) /\ Flight(o, me)
  BY DEF Good, Sound
<1>1. Outstanding(m) = Outstanding(me)
  BY DEF Outstanding
<1>2. Flight(o, m)
  BY <1>0, <1>1 DEF Flight, Untouched
<1>3. Writes(m)
  BY <1>0, <1>1 DEF Sound, Writes, Untouched
<1>4. Counted(m)
  BY <1>0, <1>1, CountKept DEF Sound, Untouched
<1>5. Asked(m)
  BY DEF Good, Asked, Untouched
<1>6. Heard(m)
  BY <1>1 DEF Good, Heard, Untouched
<1>7. Output(o, m)
  BY DEF Good, Output, Untouched
<1>. QED
  BY <1>2, <1>3, <1>4, <1>5, <1>6, <1>7 DEF Good, Sound

LEMMA ArriveKeeps ==
  ASSUME NEW o, o \in DOMAIN obj, Good(o, obj[o]), Arrive(o)
  PROVE  Keeps(o)
<1>. DEFINE me == obj[o]
<1>0. me \in Object /\ Flight(o, me)
  BY DEF Good, Sound
<1>1. PICK m : m = [me EXCEPT !.arrived = @ + 1, !.inbox = @ + 1] /\ Become(o, m)
  BY DEF Arrive
<1>2. me.arrived \in 0..MaxIn /\ me.inbox \in 0..MaxIn /\ me.inbox <= me.arrived /\ me.arrived < MaxIn
  BY <1>0, Typed DEF Flight, Arrive
<1>3. me.arrived + 1 \in 0..MaxIn /\ me.inbox + 1 \in 0..MaxIn /\ me.inbox + 1 <= me.arrived + 1
  BY <1>2, BoundsAssumption
<1>. HIDE DEF me
<1>4. m \in Object
  BY <1>0, <1>1, <1>3, ZenonT(30) DEF Object
<1>5. /\ Untouched(me, m) /\ m.ops = me.ops /\ m.port = me.port /\ m.conn = me.conn /\ m.peer = me.peer
      /\ m.inbox = me.inbox + 1 /\ m.arrived = me.arrived + 1
  BY <1>0, <1>1, Zenon DEF Object, Untouched
<1>6. Good(o, m)
  BY <1>3, <1>4, <1>5, SocketGood DEF me
<1>. QED
  BY <1>1, <1>6 DEF Keeps

LEMMA HangupKeeps ==
  ASSUME NEW o \in Streams, o \in DOMAIN obj, Good(o, obj[o]), Hangup(o)
  PROVE  Keeps(o)
<1>. DEFINE me == obj[o]
<1>0. me \in Object /\ Flight(o, me)
  BY DEF Good, Sound
<1>1. PICK m : /\ m = [me EXCEPT !.peer = "closed"] \/ m = [me EXCEPT !.peer = "reset", !.inbox = 0]
               /\ Become(o, m)
  BY DEF Hangup
<1>2. me.arrived \in 0..MaxIn /\ me.inbox <= me.arrived /\ 0 \in 0..MaxIn
  BY <1>0, Typed, BoundsAssumption DEF Flight
<1>. HIDE DEF me
<1>3. CASE m = [me EXCEPT !.peer = "closed"]
  <2>1. m \in Object
    BY <1>0, <1>3, ZenonT(30) DEF Object
  <2>2. Untouched(me, m) /\ m.ops = me.ops /\ m.port = me.port /\ m.conn = me.conn /\ m.inbox = me.inbox /\ m.arrived = me.arrived
    BY <1>0, <1>3, Zenon DEF Object, Untouched
  <2>3. Good(o, m)
    BY <1>2, <2>1, <2>2, SocketGood DEF me
  <2>. QED
    BY <1>1, <2>3 DEF Keeps
<1>4. CASE m = [me EXCEPT !.peer = "reset", !.inbox = 0]
  <2>1. m \in Object
    BY <1>0, <1>2, <1>4, ZenonT(30) DEF Object
  <2>2. Untouched(me, m) /\ m.ops = me.ops /\ m.port = me.port /\ m.conn = me.conn /\ m.inbox = 0 /\ m.arrived = me.arrived
    BY <1>0, <1>4, Zenon DEF Object, Untouched
  <2>3. m.inbox <= m.arrived
    BY <1>2, <2>2
  <2>4. Good(o, m)
    BY <2>1, <2>2, <2>3, SocketGood DEF me
  <2>. QED
    BY <1>1, <2>4 DEF Keeps
<1>. QED
  BY <1>1, <1>3, <1>4

LEMMA FinishReadKeeps ==
  ASSUME NEW o, o \in DOMAIN obj, Good(o, obj[o]), FinishRead(o)
  PROVE  Keeps(o)
<1>. DEFINE me == obj[o]
            n == IF o \in Streams THEN me.inbox ELSE me.inbox - 1
<1>0. me \in Object /\ Flight(o, me) /\ "read" \in me.ops
  BY DEF Good, Sound, FinishRead, InProgress
<1>1. PICK m : m = [me EXCEPT !.ops = @ \ {"read"}, !.port = @ \cup {"read"}, !.inbox = n] /\ Become(o, m)
  BY DEF FinishRead
<1>2. me.ops \ {"read"} \in SUBSET Operation /\ me.port \cup {"read"} \in SUBSET Operation
  BY <1>0, Typed DEF Operation
<1>3. n \in 0..MaxIn /\ n <= me.arrived
  <2>1. me.inbox \in 0..MaxIn /\ me.arrived \in 0..MaxIn /\ me.inbox <= me.arrived
    BY <1>0, Typed DEF Flight
  <2>2. o \notin Streams => me.inbox > 0
    BY <1>0 DEF Flight, FinishRead
  <2>. QED
    BY <2>1, <2>2, BoundsAssumption
<1>. HIDE DEF me, n
<1>4. m \in Object
  BY <1>0, <1>1, <1>2, <1>3, ZenonT(30) DEF Object
<1>5. /\ Untouched(me, m) /\ m.ops = me.ops \ {"read"} /\ m.port = me.port \cup {"read"}
      /\ m.conn = me.conn /\ m.peer = me.peer /\ m.inbox = n /\ m.arrived = me.arrived
  BY <1>0, <1>1, Zenon DEF Object, Untouched
<1>6. Good(o, m)
  BY <1>0, <1>3, <1>4, <1>5, FinishGood DEF me
<1>. QED
  BY <1>1, <1>6 DEF Keeps

LEMMA FinishWriteKeeps ==
  ASSUME NEW o, o \in DOMAIN obj, Good(o, obj[o]), FinishWrite(o)
  PROVE  Keeps(o)
<1>. DEFINE me == obj[o]
<1>0. me \in Object /\ Flight(o, me) /\ "write" \in me.ops
  BY DEF Good, Sound, FinishWrite, InProgress
<1>1. PICK n \in (IF me.peer = "reset" \/ me.left = 0 THEN {0} ELSE 1..me.left) :
        Become(o, [me EXCEPT !.ops = @ \ {"write"}, !.port = @ \cup {"write"}, !.sent = n])
  BY DEF FinishWrite
<1>2. PICK m : m = [me EXCEPT !.ops = @ \ {"write"}, !.port = @ \cup {"write"}, !.sent = n] /\ Become(o, m)
  BY <1>1
<1>3. me.ops \ {"write"} \in SUBSET Operation /\ me.port \cup {"write"} \in SUBSET Operation
  BY <1>0, Typed DEF Operation
<1>4. n \in 0..MaxOut /\ me.inbox <= me.arrived
  <2>1. me.left \in 0..MaxOut
    BY <1>0, Typed
  <2>. QED
    BY <1>0, <1>1, <2>1, BoundsAssumption DEF Flight
<1>. HIDE DEF me
<1>5. m \in Object
  BY <1>0, <1>2, <1>3, <1>4, ZenonT(30) DEF Object
<1>6. /\ Untouched(me, m) /\ m.ops = me.ops \ {"write"} /\ m.port = me.port \cup {"write"}
      /\ m.conn = me.conn /\ m.peer = me.peer /\ m.inbox = me.inbox /\ m.arrived = me.arrived
  BY <1>0, <1>2, Zenon DEF Object, Untouched
<1>7. Good(o, m)
  BY <1>0, <1>4, <1>5, <1>6, FinishGood DEF me
<1>. QED
  BY <1>2, <1>7 DEF Keeps

LEMMA FinishConnectKeeps ==
  ASSUME NEW o, o \in DOMAIN obj, Good(o, obj[o]), FinishConnect(o)
  PROVE  Keeps(o)
<1>. DEFINE me == obj[o]
<1>0. me \in Object /\ Flight(o, me) /\ "connect" \in me.ops
  BY DEF Good, Sound, FinishConnect, InProgress
<1>1. PICK k \in {"up", "refused"} :
        Become(o, [me EXCEPT !.ops = @ \ {"connect"}, !.port = @ \cup {"connect"}, !.conn = k])
  BY DEF FinishConnect
<1>2. PICK m : m = [me EXCEPT !.ops = @ \ {"connect"}, !.port = @ \cup {"connect"}, !.conn = k] /\ Become(o, m)
  BY <1>1
<1>3. me.ops \ {"connect"} \in SUBSET Operation /\ me.port \cup {"connect"} \in SUBSET Operation
  BY <1>0, Typed DEF Operation
<1>4. k \in {"down", "up", "refused"} /\ me.inbox <= me.arrived
  BY <1>0, <1>1 DEF Flight
<1>. HIDE DEF me
<1>5. m \in Object
  BY <1>0, <1>2, <1>3, <1>4, ZenonT(30) DEF Object
<1>6. /\ Untouched(me, m) /\ m.ops = me.ops \ {"connect"} /\ m.port = me.port \cup {"connect"}
      /\ m.peer = me.peer /\ m.inbox = me.inbox /\ m.arrived = me.arrived
  BY <1>0, <1>2, Zenon DEF Object, Untouched
<1>7. Good(o, m)
  BY <1>0, <1>4, <1>5, <1>6, FinishGood DEF me
<1>. QED
  BY <1>2, <1>7 DEF Keeps

-----------------------------------------------------------------------------
(* The helpers of the methods and callbacks.                               *)

\* What scheduling a read leaves alone; it may add a wakeup.
Reading(me, m) ==
  /\ m.told = me.told /\ m.sub = me.sub /\ m.interest = me.interest /\ m.bound = me.bound /\ m.wr = me.wr
  /\ m.conn = me.conn /\ m.port = me.port /\ m.deaf = me.deaf /\ m.handle = me.handle
  /\ m.deferred = me.deferred /\ m.inbox = me.inbox /\ m.arrived = me.arrived /\ m.peer = me.peer
  /\ me.note => m.note
  /\ "writable" \in m.events <=> "writable" \in me.events

\* A read is in flight, or the registration is queued for what can be read.
Underway(m) == m.rd = "pending" \/ (m.rd \in {"ready", "error"} /\ m.note)

\* All but the readiness of the registration.
SameBut(me, m) ==
  /\ m.rd = me.rd /\ m.wr = me.wr /\ m.left = me.left /\ m.rbuf = me.rbuf /\ m.wbuf = me.wbuf
  /\ m.deferred = me.deferred /\ m.instant = me.instant /\ m.bound = me.bound
  /\ m.interest = me.interest /\ m.mode = me.mode /\ m.refs = me.refs /\ m.handle = me.handle
  /\ m.ops = me.ops /\ m.port = me.port /\ m.sent = me.sent /\ m.conn = me.conn
  /\ m.inbox = me.inbox /\ m.arrived = me.arrived /\ m.peer = me.peer
  /\ m.told = me.told /\ m.sub = me.sub /\ m.late = me.late /\ m.deaf = me.deaf

LEMMA PutReadiness ==
  ASSUME NEW me \in Object, NEW S, S \in SUBSET Ready, NEW m, m = [me EXCEPT !.events = S, !.note = @ \/ S # {}]
  PROVE  m \in Object
BY ZenonT(30) DEF Object

LEMMA SetReadiness ==
  ASSUME NEW me \in Object, NEW S \in SUBSET Ready, NEW m, m = set_readiness(me, S)
  PROVE  /\ m \in Object /\ SameBut(me, m)
         /\ me.bound => m.events = S /\ (m.note <=> me.note \/ S # {})
         /\ ~me.bound => m.events = me.events /\ m.note = me.note
<1>1. CASE me.bound
  <2>1. m = [me EXCEPT !.events = S, !.note = @ \/ S # {}]
    BY <1>1 DEF set_readiness
  <2>2. m \in Object
    BY <2>1, PutReadiness
  <2>3. SameBut(me, m) /\ m.events = S /\ m.note = (me.note \/ S # {})
    BY <2>1, ZenonT(30) DEF Object, SameBut
  <2>. QED
    BY <1>1, <2>2, <2>3
<1>2. CASE ~me.bound
  BY <1>2 DEF set_readiness, SameBut
<1>. QED
  BY <1>1, <1>2

LEMMA AddReadiness ==
  ASSUME NEW me \in Object, me.bound, NEW S \in SUBSET Ready, S # {}, NEW m, m = add_readiness(me, S)
  PROVE  m \in Object /\ SameBut(me, m) /\ m.events = me.events \cup S /\ m.note
<1>1. me.events \cup S \in SUBSET Ready /\ me.events \cup S # {}
  BY DEF Object
<1>. QED
  BY <1>1, SetReadiness DEF add_readiness

LEMMA ClearReadiness ==
  ASSUME NEW me \in Object, me.bound, NEW S, NEW m, m = clear_readiness(me, S)
  PROVE  m \in Object /\ SameBut(me, m) /\ m.events = me.events \ S /\ (me.note => m.note)
<1>1. me.events \ S \in SUBSET Ready
  BY DEF Object
<1>. QED
  BY <1>1, SetReadiness DEF clear_readiness

\* A read that was accepted.
LEMMA ReadStarted ==
  ASSUME NEW o, NEW me, Sound(o, me), me.bound, me.rd = "empty", "connect" \notin Outstanding(me),
         NEW m \in Object, Reading(me, m), m.rd = "pending", m.ops = me.ops \cup {"read"}, m.refs = me.refs + 1
  PROVE  Sound(o, m) /\ Underway(m)
<1>1. Flight(o, m)
  BY DEF Sound, Flight, Reading, Outstanding
<1>2. Writes(m)
  BY DEF Sound, Writes, Reading, Outstanding
<1>3. Counted(m)
  <2>1. "read" \notin Outstanding(me) /\ Outstanding(m) = Outstanding(me) \cup {"read"} /\ "read" \in Operation
    BY DEF Sound, Flight, Reading, Outstanding, Operation
  <2>. QED
    BY <2>1, CountStarted DEF Sound, Reading
<1>. QED
  BY <1>1, <1>2, <1>3 DEF Sound, Underway

\* A read whose outcome is known, and reported.
LEMMA ReadKnown ==
  ASSUME NEW o, NEW me, Sound(o, me), me.bound, me.rd # "pending", "connect" \notin Outstanding(me),
         NEW m \in Object, Reading(me, m), m.rd \in {"ready", "error"}, m.ops = me.ops, m.refs = me.refs,
         "readable" \in m.events, m.note
  PROVE  Sound(o, m) /\ Underway(m)
<1>1. Flight(o, m)
  BY DEF Sound, Flight, Reading, Outstanding
<1>2. Writes(m)
  BY DEF Sound, Writes, Reading, Outstanding
<1>3. Counted(m)
  BY CountKept DEF Sound, Reading, Outstanding
<1>. QED
  BY <1>1, <1>2, <1>3 DEF Sound, Underway

\* The record in which a read is started.
LEMMA PendingRecord ==
  ASSUME NEW c \in Object, NEW m, m = Started([c EXCEPT !.rd = "pending"], "read"),
         "pending" \in State, c.refs + 1 \in Nat, c.ops \cup {"read"} \in SUBSET Operation
  PROVE  /\ m \in Object /\ Reading(c, m)
         /\ m.rd = "pending" /\ m.ops = c.ops \cup {"read"} /\ m.refs = c.refs + 1
<1>1. m \in Object
  BY Zenon DEF Object, Started
<1>2. /\ m.told = c.told /\ m.sub = c.sub /\ m.interest = c.interest /\ m.bound = c.bound /\ m.wr = c.wr
      /\ m.conn = c.conn /\ m.port = c.port /\ m.deaf = c.deaf /\ m.handle = c.handle
      /\ m.deferred = c.deferred /\ m.inbox = c.inbox /\ m.arrived = c.arrived /\ m.peer = c.peer
      /\ m.note = c.note /\ m.events = c.events
  BY Zenon DEF Object, Started
<1>3. m.rd = "pending" /\ m.ops = c.ops \cup {"read"} /\ m.refs = c.refs + 1
  BY Zenon DEF Object, Started
<1>. QED
  BY <1>1, <1>2, <1>3 DEF Reading

Receive(c, buf) == [c EXCEPT !.rd = "pending", !.rbuf = buf]

LEMMA PendingBufRecord ==
  ASSUME NEW c \in Object, NEW buf \in Capacity, NEW m, m = Started(Receive(c, buf), "read"),
         "pending" \in State, c.refs + 1 \in Nat, c.ops \cup {"read"} \in SUBSET Operation
  PROVE  /\ m \in Object /\ Reading(c, m)
         /\ m.rd = "pending" /\ m.ops = c.ops \cup {"read"} /\ m.refs = c.refs + 1
<1>1. m \in Object
  BY Zenon DEF Object, Started, Receive
<1>2. /\ m.told = c.told /\ m.sub = c.sub /\ m.interest = c.interest /\ m.bound = c.bound /\ m.wr = c.wr
      /\ m.conn = c.conn /\ m.port = c.port /\ m.deaf = c.deaf /\ m.handle = c.handle
      /\ m.deferred = c.deferred /\ m.inbox = c.inbox /\ m.arrived = c.arrived /\ m.peer = c.peer
      /\ m.note = c.note /\ m.events = c.events
  BY Zenon DEF Object, Started, Receive
<1>3. m.rd = "pending" /\ m.ops = c.ops \cup {"read"} /\ m.refs = c.refs + 1
  BY Zenon DEF Object, Started, Receive
<1>. QED
  BY <1>1, <1>2, <1>3 DEF Reading

\* The record in which the outcome of a read is known.
LEMMA KnownRecord ==
  ASSUME NEW c \in Object, NEW st \in State, NEW m, m = [c EXCEPT !.rd = st]
  PROVE  /\ m \in Object /\ Reading(c, m) /\ m.events = c.events
         /\ m.rd = st /\ m.ops = c.ops /\ m.refs = c.refs
<1>1. m \in Object
  BY Zenon DEF Object
<1>2. /\ m.told = c.told /\ m.sub = c.sub /\ m.interest = c.interest /\ m.bound = c.bound /\ m.wr = c.wr
      /\ m.conn = c.conn /\ m.port = c.port /\ m.deaf = c.deaf /\ m.handle = c.handle
      /\ m.deferred = c.deferred /\ m.inbox = c.inbox /\ m.arrived = c.arrived /\ m.peer = c.peer
      /\ m.note = c.note /\ m.events = c.events
  BY Zenon DEF Object
<1>3. m.rd = st /\ m.ops = c.ops /\ m.refs = c.refs
  BY Zenon DEF Object
<1>. QED
  BY <1>1, <1>2, <1>3 DEF Reading

LEMMA ReadingTrans ==
  ASSUME NEW a, NEW b, NEW c, Reading(a, b), Reading(b, c)
  PROVE  Reading(a, c)
BY DEF Reading

LEMMA SameIsReading ==
  ASSUME NEW me, NEW m, SameBut(me, m), me.note => m.note, "writable" \in m.events <=> "writable" \in me.events
  PROVE  Reading(me, m) /\ m.rd = me.rd /\ m.ops = me.ops /\ m.refs = me.refs
BY DEF Reading, SameBut

LEMMA SomeCapacity == "big" \in Capacity
BY DEF Capacity

LEMMA Cleared ==
  ASSUME NEW o, NEW me, Sound(o, me), me.bound, NEW c, c = clear_readiness(me, {"readable"})
  PROVE  c \in Object /\ Reading(me, c) /\ c.bound /\ c.rd = me.rd /\ c.ops = me.ops /\ c.refs = me.refs
<1>1. c \in Object /\ SameBut(me, c) /\ c.events = me.events \ {"readable"} /\ (me.note => c.note)
  BY ClearReadiness DEF Sound
<1>2. Reading(me, c) /\ c.rd = me.rd /\ c.ops = me.ops /\ c.refs = me.refs
  BY <1>1, SameIsReading
<1>. QED
  BY <1>1, <1>2 DEF Reading

\* The outcomes of scheduling a read, an accept or a receive: it is accepted,
LEMMA ReadAccepted ==
  ASSUME NEW o, NEW me, Sound(o, me), me.bound, me.rd = "empty", "connect" \notin Outstanding(me),
         NEW buf \in Capacity, NEW m,
         \/ m = Started([clear_readiness(me, {"readable"}) EXCEPT !.rd = "pending"], "read")
         \/ m = Started([clear_readiness(me, {"readable"}) EXCEPT !.rd = "pending", !.rbuf = buf], "read")
  PROVE  Sound(o, m) /\ Reading(me, m) /\ Underway(m)
<1>. DEFINE c == clear_readiness(me, {"readable"})
<1>1. c \in Object /\ Reading(me, c) /\ c.ops = me.ops /\ c.refs = me.refs
  BY Cleared
<1>2. \/ m = Started([c EXCEPT !.rd = "pending"], "read")
      \/ m = Started([c EXCEPT !.rd = "pending", !.rbuf = buf], "read")
  OBVIOUS
<1>. HIDE DEF c
<1>3. "pending" \in State /\ c.refs + 1 \in Nat /\ c.ops \cup {"read"} \in SUBSET Operation
  BY <1>1, Typed DEF State, Operation
<1>4. m \in Object /\ Reading(c, m) /\ m.rd = "pending" /\ m.ops = c.ops \cup {"read"} /\ m.refs = c.refs + 1
  <2>1. CASE m = Started([c EXCEPT !.rd = "pending"], "read")
    BY <1>1, <1>3, <2>1, PendingRecord
  <2>2. CASE m = Started([c EXCEPT !.rd = "pending", !.rbuf = buf], "read")
    <3>1. m = Started(Receive(c, buf), "read")
      BY <2>2 DEF Receive
    <3>. QED
      BY <1>1, <1>3, <3>1, PendingBufRecord
  <2>. QED
    BY <1>2, <2>1, <2>2
<1>5. Reading(me, m)
  BY <1>1, <1>4, ReadingTrans
<1>. QED
  BY <1>1, <1>4, <1>5, ReadStarted

\* it completes or fails at once,
LEMMA ReadDecided ==
  ASSUME NEW o, NEW me, Sound(o, me), me.bound, me.rd = "empty", "connect" \notin Outstanding(me),
         NEW st \in {"ready", "error"}, NEW S \in SUBSET Ready, "readable" \in S, "writable" \notin S,
         NEW m, m = add_readiness([clear_readiness(me, {"readable"}) EXCEPT !.rd = st], S)
  PROVE  Sound(o, m) /\ Reading(me, m) /\ Underway(m)
<1>. DEFINE c == clear_readiness(me, {"readable"})
            k == [c EXCEPT !.rd = st]
<1>1. c \in Object /\ Reading(me, c) /\ c.ops = me.ops /\ c.refs = me.refs
  BY Cleared
<1>. HIDE DEF c
<1>2. k \in Object /\ Reading(c, k) /\ k.rd = st /\ k.ops = c.ops /\ k.refs = c.refs
  BY <1>1, KnownRecord DEF State
<1>3. m = add_readiness(k, S)
  BY DEF c
<1>. HIDE DEF k
<1>4. k.bound /\ S # {}
  BY <1>1, <1>2 DEF Reading
<1>5. m \in Object /\ SameBut(k, m) /\ m.events = k.events \cup S /\ m.note
  BY <1>2, <1>3, <1>4, AddReadiness
<1>6. Reading(k, m) /\ m.rd = k.rd /\ m.ops = k.ops /\ m.refs = k.refs /\ "readable" \in m.events
  BY <1>5, SameIsReading
<1>7. Reading(me, m)
  BY <1>1, <1>2, <1>6, ReadingTrans
<1>. QED
  BY <1>1, <1>2, <1>5, <1>6, <1>7, ReadKnown

\* or there is something to read already.
LEMMA ReadRepeated ==
  ASSUME NEW o, NEW me, Sound(o, me), me.bound, me.rd \in {"ready", "error"},
         NEW m, m = add_readiness(me, {"readable"})
  PROVE  Sound(o, m) /\ Reading(me, m) /\ Underway(m)
<1>1. me \in Object /\ {"readable"} \in SUBSET Ready /\ {"readable"} # {}
  BY DEF Sound, Ready
<1>2. m \in Object /\ SameBut(me, m) /\ m.events = me.events \cup {"readable"} /\ m.note
  BY <1>1, AddReadiness
<1>3. Reading(me, m) /\ m.rd = me.rd /\ m.ops = me.ops /\ m.refs = me.refs /\ "readable" \in m.events
  BY <1>2, SameIsReading
<1>4. "connect" \notin Outstanding(me) /\ me.rd # "pending"
  BY DEF Sound, Flight
<1>. QED
  BY <1>2, <1>3, <1>4, ReadKnown

LEMMA ScheduleRead ==
  ASSUME NEW o, NEW me, Sound(o, me), me.bound, "connect" \notin Outstanding(me),
         NEW res \in Results, NEW m, m = schedule_read(me, res)
  PROVE  Sound(o, m) /\ Reading(me, m) /\ Underway(m)
<1>. DEFINE c == clear_readiness(me, {"readable"})
<1>1. me.rd \in State
  BY Typed DEF Sound
<1>2. CASE me.rd = "pending"
  <2>1. m = me
    BY <1>2 DEF schedule_read
  <2>. QED
    BY <1>2, <2>1 DEF Reading, Underway
<1>3. CASE me.rd \in {"ready", "error"}
  <2>1. m = add_readiness(me, {"readable"})
    BY <1>3 DEF schedule_read
  <2>. QED
    BY <1>3, <2>1, ReadRepeated
<1>4. CASE me.rd = "empty" /\ (res = "pending" \/ (res = "done" /\ ~me.instant))
  <2>1. m = Started([c EXCEPT !.rd = "pending"], "read")
    BY <1>4 DEF schedule_read
  <2>. QED
    BY <1>4, <2>1, ReadAccepted, SomeCapacity
<1>5. CASE me.rd = "empty" /\ res = "done" /\ me.instant
  <2>1. m = add_readiness([c EXCEPT !.rd = "ready"], {"readable"})
    BY <1>5 DEF schedule_read
  <2>2. {"readable"} \in SUBSET Ready /\ "writable" \notin {"readable"}
    BY DEF Ready
  <2>. QED
    BY <1>5, <2>1, <2>2, ReadDecided
<1>6. CASE me.rd = "empty" /\ res \in {"error", "reset"}
  <2>. DEFINE S == {"readable"} \cup (IF res = "reset" THEN {"hup"} ELSE {})
  <2>1. m = add_readiness([c EXCEPT !.rd = "error"], S)
    BY <1>6 DEF schedule_read
  <2>2. S \in SUBSET Ready /\ "writable" \notin S /\ "readable" \in S
    BY DEF Ready
  <2>. HIDE DEF S
  <2>. QED
    BY <1>6, <2>1, <2>2, ReadDecided
<1>. QED
  BY <1>1, <1>2, <1>3, <1>4, <1>5, <1>6 DEF State, Results

LEMMA ScheduleAccept ==
  ASSUME NEW o, NEW me, Sound(o, me), me.bound, "connect" \notin Outstanding(me), me.rd = "empty",
         NEW res \in AcceptResults, NEW m, m = schedule_accept(me, res)
  PROVE  Sound(o, m) /\ Reading(me, m) /\ Underway(m)
<1>. DEFINE c == clear_readiness(me, {"readable"})
<1>1. CASE res = "pending"
  <2>1. m = Started([c EXCEPT !.rd = "pending"], "read")
    BY <1>1 DEF schedule_accept
  <2>. QED
    BY <2>1, ReadAccepted, SomeCapacity
<1>2. CASE res = "error"
  <2>1. m = add_readiness([c EXCEPT !.rd = "error"], {"readable"})
    BY <1>2 DEF schedule_accept
  <2>2. {"readable"} \in SUBSET Ready /\ "writable" \notin {"readable"}
    BY DEF Ready
  <2>. QED
    BY <2>1, <2>2, ReadDecided
<1>. QED
  BY <1>1, <1>2 DEF AcceptResults

LEMMA UdpScheduleRead ==
  ASSUME NEW o, NEW me, Sound(o, me), me.bound, "connect" \notin Outstanding(me), me.rd = "empty",
         NEW buf \in Capacity, NEW res \in UdpResults, NEW m, m = udp_schedule_read(me, buf, res)
  PROVE  Sound(o, m) /\ Reading(me, m) /\ Underway(m)
<1>. DEFINE c == clear_readiness(me, {"readable"})
<1>1. CASE res = "pending"
  <2>1. m = Started([c EXCEPT !.rd = "pending", !.rbuf = buf], "read")
    BY <1>1 DEF udp_schedule_read
  <2>. QED
    BY <2>1, ReadAccepted
<1>2. CASE res = "error"
  <2>1. m = add_readiness([c EXCEPT !.rd = "error"], {"readable"})
    BY <1>2 DEF udp_schedule_read
  <2>2. {"readable"} \in SUBSET Ready /\ "writable" \notin {"readable"}
    BY DEF Ready
  <2>. QED
    BY <2>1, <2>2, ReadDecided
<1>. QED
  BY <1>1, <1>2 DEF UdpResults

-----------------------------------------------------------------------------
(* Writes.                                                                 *)

\* What scheduling a write leaves alone; it may add a wakeup.
Writing(me, m) ==
  /\ m.told = me.told /\ m.sub = me.sub /\ m.interest = me.interest /\ m.bound = me.bound /\ m.rd = me.rd
  /\ m.conn = me.conn /\ m.port = me.port /\ m.deaf = me.deaf /\ m.handle = me.handle
  /\ m.deferred = me.deferred /\ m.inbox = me.inbox /\ m.arrived = me.arrived /\ m.peer = me.peer
  /\ me.note => m.note
  /\ "readable" \in m.events <=> "readable" \in me.events

\* A write that was accepted.
LEMMA WriteStarted ==
  ASSUME NEW o, NEW me \in Object, Flight(o, me), Counted(me), me.bound, "write" \notin Outstanding(me),
         NEW m \in Object, Writing(me, m), m.wr = "pending", m.ops = me.ops \cup {"write"}, m.refs = me.refs + 1
  PROVE  Sound(o, m)
<1>1. Flight(o, m)
  BY DEF Flight, Writing, Outstanding
<1>2. Writes(m)
  BY DEF Writes, Writing, Outstanding
<1>3. Counted(m)
  <2>1. Outstanding(m) = Outstanding(me) \cup {"write"} /\ "write" \in Operation
    BY DEF Writing, Outstanding, Operation
  <2>. QED
    BY <2>1, CountStarted DEF Writing
<1>. QED
  BY <1>1, <1>2, <1>3 DEF Sound

\* No write is in flight.
LEMMA WriteKnown ==
  ASSUME NEW o, NEW me \in Object, Flight(o, me), Counted(me), me.bound, "write" \notin Outstanding(me),
         NEW m \in Object, Writing(me, m), m.wr # "pending", m.ops = me.ops, m.refs = me.refs
  PROVE  Sound(o, m)
<1>1. Flight(o, m)
  BY DEF Flight, Writing, Outstanding
<1>2. Writes(m)
  BY DEF Writes, Writing, Outstanding
<1>3. Counted(m)
  BY CountKept DEF Writing, Outstanding
<1>. QED
  BY <1>1, <1>2, <1>3 DEF Sound

LEMMA PendingWriteRecord ==
  ASSUME NEW c \in Object, NEW left \in 0..MaxOut,
         NEW m, m = Started([c EXCEPT !.wr = "pending", !.left = left], "write"),
         "pending" \in State, c.refs + 1 \in Nat, c.ops \cup {"write"} \in SUBSET Operation
  PROVE  m \in Object /\ Writing(c, m) /\ m.wr = "pending" /\ m.ops = c.ops \cup {"write"} /\ m.refs = c.refs + 1
<1>1. m \in Object
  BY Zenon DEF Object, Started
<1>2. /\ m.told = c.told /\ m.sub = c.sub /\ m.interest = c.interest /\ m.bound = c.bound /\ m.rd = c.rd
      /\ m.conn = c.conn /\ m.port = c.port /\ m.deaf = c.deaf /\ m.handle = c.handle
      /\ m.deferred = c.deferred /\ m.inbox = c.inbox /\ m.arrived = c.arrived /\ m.peer = c.peer
      /\ m.note = c.note /\ m.events = c.events
  BY Zenon DEF Object, Started
<1>3. m.wr = "pending" /\ m.ops = c.ops \cup {"write"} /\ m.refs = c.refs + 1
  BY Zenon DEF Object, Started
<1>. QED
  BY <1>1, <1>2, <1>3 DEF Writing

Wrote(c, st, left) == [c EXCEPT !.wr = st, !.left = left]
Sent(c, st) == [c EXCEPT !.wr = st]

LEMMA KnownWriteRecord ==
  ASSUME NEW c \in Object, NEW st \in State, NEW left \in 0..MaxOut, NEW m,
         m = Wrote(c, st, left) \/ m = Sent(c, st)
  PROVE  m \in Object /\ Writing(c, m) /\ m.events = c.events /\ m.wr = st /\ m.ops = c.ops /\ m.refs = c.refs
<1>. DEFINE Same ==
       /\ m.told = c.told /\ m.sub = c.sub /\ m.interest = c.interest /\ m.bound = c.bound /\ m.rd = c.rd
       /\ m.conn = c.conn /\ m.port = c.port /\ m.deaf = c.deaf /\ m.handle = c.handle
       /\ m.deferred = c.deferred /\ m.inbox = c.inbox /\ m.arrived = c.arrived /\ m.peer = c.peer
       /\ m.note = c.note /\ m.events = c.events
       /\ m.wr = st /\ m.ops = c.ops /\ m.refs = c.refs
<1>1. CASE m = Wrote(c, st, left)
  <2>1. m \in Object
    BY <1>1, Zenon DEF Object, Wrote, Sent
  <2>2. Same
    BY <1>1, Zenon DEF Object, Wrote, Sent
  <2>. QED
    BY <2>1, <2>2 DEF Writing
<1>2. CASE m = Sent(c, st)
  <2>1. m \in Object
    BY <1>2, Zenon DEF Object, Wrote, Sent
  <2>2. Same
    BY <1>2, Zenon DEF Object, Wrote, Sent
  <2>. QED
    BY <2>1, <2>2 DEF Writing
<1>. QED
  BY <1>1, <1>2

LEMMA WritingTrans ==
  ASSUME NEW a, NEW b, NEW c, Writing(a, b), Writing(b, c)
  PROVE  Writing(a, c)
BY DEF Writing

LEMMA SameIsWriting ==
  ASSUME NEW me, NEW m, SameBut(me, m), me.note => m.note, "readable" \in m.events <=> "readable" \in me.events
  PROVE  Writing(me, m) /\ m.wr = me.wr /\ m.ops = me.ops /\ m.refs = me.refs
BY DEF Writing, SameBut

\* A write is finished, successfully or not, and reported.
LEMMA WriteDecided ==
  ASSUME NEW o, NEW me \in Object, Flight(o, me), Counted(me), me.bound, "write" \notin Outstanding(me),
         NEW c \in Object, Writing(me, c), c.ops = me.ops, c.refs = me.refs,
         NEW st \in State, st # "pending", NEW m,
         m = add_readiness(Wrote(c, st, 0), {"writable"}) \/ m = add_readiness(Sent(c, st), {"writable"})
  PROVE  Sound(o, m) /\ Writing(me, m) /\ m.wr = st /\ "writable" \in m.events /\ m.note
<1>0. 0 \in 0..MaxOut /\ {"writable"} \in SUBSET Ready /\ {"writable"} # {}
  BY BoundsAssumption DEF Ready
<1>1. PICK k : /\ m = add_readiness(k, {"writable"})
               /\ k = Wrote(c, st, 0) \/ k = Sent(c, st)
  BY Zenon
<1>2. k \in Object /\ Writing(c, k) /\ k.wr = st /\ k.ops = c.ops /\ k.refs = c.refs
  BY <1>0, <1>1, KnownWriteRecord
<1>3. k.bound
  BY <1>2 DEF Writing
<1>4. m \in Object /\ SameBut(k, m) /\ m.events = k.events \cup {"writable"} /\ m.note
  BY <1>0, <1>1, <1>2, <1>3, AddReadiness
<1>5. Writing(k, m) /\ m.wr = k.wr /\ m.ops = k.ops /\ m.refs = k.refs
  BY <1>4, SameIsWriting
<1>6. Writing(me, m)
  BY <1>2, <1>5, WritingTrans
<1>. QED
  BY <1>2, <1>4, <1>5, <1>6, WriteKnown

LEMMA ScheduleWrite ==
  ASSUME NEW o, NEW me \in Object, Flight(o, me), Counted(me), me.bound, "write" \notin Outstanding(me),
         NEW left \in 0..MaxOut, NEW res \in {"error", "done", "pending"}, NEW m, m = schedule_write(me, left, res)
  PROVE  /\ Sound(o, m) /\ Writing(me, m)
         /\ m.wr = "empty" => m.note /\ "writable" \in m.events
<1>. DEFINE c == clear_readiness(me, {"writable"})
<1>1. c \in Object /\ SameBut(me, c) /\ c.events = me.events \ {"writable"} /\ (me.note => c.note)
  BY ClearReadiness
<1>2. Writing(me, c) /\ c.ops = me.ops /\ c.refs = me.refs
  BY <1>1, SameIsWriting
<1>3. CASE res = "done" /\ me.instant
  <2>1. m = add_readiness(Wrote(c, "empty", 0), {"writable"})
    BY <1>3 DEF schedule_write, Wrote
  <2>2. "empty" \in State
    BY DEF State
  <2>. HIDE DEF c
  <2>. QED
    BY <1>1, <1>2, <2>1, <2>2, WriteDecided
<1>4. CASE res = "error"
  <2>1. m = add_readiness(Wrote(c, "error", 0), {"writable"})
    BY <1>4 DEF schedule_write, Wrote
  <2>2. "error" \in State
    BY DEF State
  <2>. HIDE DEF c
  <2>. QED
    BY <1>1, <1>2, <2>1, <2>2, WriteDecided
<1>5. CASE res = "pending" \/ (res = "done" /\ ~me.instant)
  <2>1. m = Started([c EXCEPT !.wr = "pending", !.left = left], "write")
    BY <1>5 DEF schedule_write
  <2>. HIDE DEF c
  <2>2. "pending" \in State /\ c.refs + 1 \in Nat /\ c.ops \cup {"write"} \in SUBSET Operation
    BY <1>1, Typed DEF State, Operation
  <2>3. m \in Object /\ Writing(c, m) /\ m.wr = "pending" /\ m.ops = c.ops \cup {"write"} /\ m.refs = c.refs + 1
    BY <1>1, <2>1, <2>2, PendingWriteRecord
  <2>4. Writing(me, m)
    BY <1>2, <2>3, WritingTrans
  <2>. QED
    BY <1>2, <2>3, <2>4, WriteStarted
<1>. QED
  BY <1>3, <1>4, <1>5

LEMMA AddWritable ==
  ASSUME NEW o, NEW me, Sound(o, me), me.bound, NEW m, m = add_readiness(me, {"writable"})
  PROVE  Sound(o, m) /\ SameBut(me, m) /\ m.events = me.events \cup {"writable"} /\ m.note
<1>1. {"writable"} \in SUBSET Ready /\ {"writable"} # {}
  BY DEF Ready
<1>2. m \in Object /\ SameBut(me, m) /\ m.events = me.events \cup {"writable"} /\ m.note
  BY <1>1, AddReadiness DEF Sound
<1>3. Outstanding(m) = Outstanding(me)
  BY <1>2 DEF SameBut, Outstanding
<1>4. Flight(o, m)
  BY <1>2, <1>3 DEF SameBut, Sound, Flight
<1>5. Writes(m)
  BY <1>2, <1>3 DEF SameBut, Sound, Writes
<1>6. Counted(m)
  BY <1>2, <1>3, CountKept DEF SameBut, Sound
<1>. QED
  BY <1>2, <1>4, <1>5, <1>6 DEF Sound

LEMMA ReadResultsType ==
  ASSUME NEW me
  PROVE  ReadResults(me) \subseteq Results /\ WriteResults(me) \subseteq {"error", "done", "pending"}
BY DEF ReadResults, WriteResults, Results

LEMMA ReadingKeeps ==
  ASSUME NEW o, NEW a, NEW b, Reading(a, b), Asked(a), Output(o, a)
  PROVE  Asked(b) /\ Output(o, b)
<1>1. Asked(b)
  BY DEF Reading, Asked
<1>2. Output(o, b)
  BY DEF Reading, Output
<1>. QED
  BY <1>1, <1>2

LEMMA WritingKeeps ==
  ASSUME NEW a, NEW b, Writing(a, b), a.ops \subseteq b.ops, Asked(a), Heard(a)
  PROVE  Asked(b) /\ Heard(b)
<1>1. Asked(b)
  BY DEF Writing, Asked
<1>2. Heard(b)
  BY DEF Writing, Heard, Outstanding
<1>. QED
  BY <1>1, <1>2

PoolOK == pool \in Seq(Capacity) /\ Len(pool) <= PoolCap

LEMMA Buffers ==
  ASSUME NEW bufs \in Seq(Capacity), Len(bufs) <= PoolCap, NEW b \in Capacity
  PROVE  /\ get_buffer(bufs, "big") \in Capacity /\ get_buffer(bufs, "small") \in Capacity
         /\ PoolRest(bufs) \in Seq(Capacity) /\ Len(PoolRest(bufs)) <= PoolCap
         /\ put_buffer(bufs, b) \in Seq(Capacity) /\ Len(put_buffer(bufs, b)) <= PoolCap
<1>1. put_buffer(bufs, b) \in Seq(Capacity) /\ Len(put_buffer(bufs, b)) <= PoolCap
  BY BoundsAssumption DEF put_buffer
<1>2. "big" \in Capacity /\ "small" \in Capacity
  BY DEF Capacity
<1>3. CASE bufs = <<>>
  BY <1>1, <1>2, <1>3 DEF get_buffer, PoolRest
<1>4. CASE bufs # <<>>
  <2>1. Len(bufs) \in Nat /\ Len(bufs) # 0 /\ bufs[Len(bufs)] \in Capacity
    BY <1>4
  <2>2. SubSeq(bufs, 1, Len(bufs) - 1) \in Seq(Capacity) /\ Len(SubSeq(bufs, 1, Len(bufs) - 1)) = Len(bufs) - 1
    BY <2>1
  <2>. QED
    BY <1>1, <1>4, <2>1, <2>2, BoundsAssumption DEF get_buffer, PoolRest
<1>. QED
  BY <1>3, <1>4

\* The operations in flight stay in flight while a write is scheduled.
LEMMA ScheduleWriteOps ==
  ASSUME NEW me \in Object, me.bound, NEW left, NEW res \in {"error", "done", "pending"}, NEW m, m = schedule_write(me, left, res)
  PROVE  me.ops \subseteq m.ops
<1>. DEFINE c == clear_readiness(me, {"writable"})
<1>1. c \in Object /\ SameBut(me, c)
  BY ClearReadiness
<1>2. \/ m = add_readiness(Wrote(c, "empty", 0), {"writable"})
      \/ m = add_readiness(Wrote(c, "error", 0), {"writable"})
      \/ m = Started([c EXCEPT !.wr = "pending", !.left = left], "write")
  BY DEF schedule_write, Wrote
<1>. HIDE DEF c
<1>3. ASSUME NEW st \in State, m = add_readiness(Wrote(c, st, 0), {"writable"})
      PROVE  me.ops \subseteq m.ops
  <2>1. 0 \in 0..MaxOut /\ {"writable"} \in SUBSET Ready /\ {"writable"} # {}
    BY BoundsAssumption DEF Ready
  <2>. DEFINE k == Wrote(c, st, 0)
  <2>2. k \in Object /\ Writing(c, k) /\ k.ops = c.ops
    BY <1>1, <2>1, KnownWriteRecord
  <2>. HIDE DEF k
  <2>3. SameBut(k, m)
    <3>1. k.bound
      BY <1>1, <2>2 DEF Writing, SameBut
    <3>2. m = add_readiness(k, {"writable"})
      BY <1>3 DEF k
    <3>. QED
      BY <2>1, <2>2, <3>1, <3>2, AddReadiness
  <2>. QED
    BY <1>1, <2>2, <2>3 DEF SameBut
<1>4. ASSUME m = Started([c EXCEPT !.wr = "pending", !.left = left], "write")
      PROVE  me.ops \subseteq m.ops
  <2>1. m.ops = c.ops \cup {"write"}
    BY <1>1, <1>4, Zenon DEF Object, Started
  <2>. QED
    BY <1>1, <2>1 DEF SameBut
<1>. QED
  BY <1>2, <1>3, <1>4 DEF State

-----------------------------------------------------------------------------
(* Callbacks.                                                              *)

\* All but the completion and the reference it held.
AfterCompletion(me, op, c) ==
  /\ c \in Object /\ c.port = me.port \ {op} /\ c.refs = me.refs - 1
  /\ c.rd = me.rd /\ c.wr = me.wr /\ c.ops = me.ops /\ c.handle = me.handle /\ c.deferred = me.deferred
  /\ c.conn = me.conn /\ c.bound = me.bound /\ c.inbox = me.inbox /\ c.arrived = me.arrived
  /\ c.peer = me.peer /\ c.events = me.events /\ c.sub = me.sub /\ c.interest = me.interest
  /\ c.told = me.told /\ c.note = me.note /\ c.deaf = me.deaf /\ c.left = me.left /\ c.wbuf = me.wbuf

LEMMA PutCompleted ==
  ASSUME NEW me \in Object, NEW p, p \in SUBSET Operation, NEW r, r \in Nat, NEW s, s \in 0..MaxOut,
         NEW c, c = [me EXCEPT !.port = p, !.refs = r, !.sent = s]
  PROVE  c \in Object
BY Zenon DEF Object

LEMMA CompletedRecord ==
  ASSUME NEW me \in Object, NEW op, me.port \ {op} \in SUBSET Operation, me.refs - 1 \in Nat, 0 \in 0..MaxOut,
         NEW c, c = Completed(me, op)
  PROVE  AfterCompletion(me, op, c)
<1>1. PICK s \in 0..MaxOut : c = [me EXCEPT !.port = @ \ {op}, !.refs = @ - 1, !.sent = s]
  <2>1. me.sent \in 0..MaxOut
    BY Zenon DEF Object
  <2>. QED
    BY <2>1 DEF Completed
<1>2. c \in Object
  BY <1>1, PutCompleted
<1>. QED
  BY <1>1, <1>2, ZenonT(30) DEF Object, AfterCompletion

LEMMA Completing ==
  ASSUME NEW o, NEW me, Sound(o, me), NEW op \in me.port, NEW c, c = Completed(me, op)
  PROVE  /\ AfterCompletion(me, op, c) /\ Counted(c) /\ c.bound
         /\ Outstanding(c) = Outstanding(me) \ {op} /\ op \notin Outstanding(c)
<1>0. me \in Object /\ op \in Outstanding(me) /\ op \notin me.ops /\ me.bound
  BY DEF Sound, Flight, Outstanding
<1>1. Cardinality(Outstanding(me)) \in Nat \ {0} /\ me.refs - 1 \in Nat
  <2>1. Cardinality(Outstanding(me)) # 0 /\ Cardinality(Outstanding(me)) \in Nat
    BY <1>0, OutstandingSet, FS_EmptySet
  <2>. QED
    BY <2>1 DEF Sound, Counted
<1>2. me.port \ {op} \in SUBSET Operation /\ 0 \in 0..MaxOut
  BY <1>0, Typed, BoundsAssumption
<1>3. AfterCompletion(me, op, c)
  BY <1>0, <1>1, <1>2, CompletedRecord
<1>4. Outstanding(c) = Outstanding(me) \ {op}
  BY <1>0, <1>3 DEF AfterCompletion, Outstanding
<1>5. Counted(c)
  BY <1>0, <1>3, <1>4, CountCompleted DEF AfterCompletion, Sound
<1>. QED
  BY <1>0, <1>3, <1>4, <1>5 DEF AfterCompletion

\* A read, an accept or a receive has completed: it is known, and reported.
LEMMA ReadCompleted ==
  ASSUME NEW o, NEW me, Good(o, me), "read" \in me.port, NEW st \in {"ready", "error"}, NEW k, NEW m,
         k = [Completed(me, "read") EXCEPT !.rd = st], m = add_readiness(k, {"readable"})
  PROVE  Good(o, m)
<1>. DEFINE c == Completed(me, "read")
<1>0. Sound(o, me) /\ Asked(me) /\ Output(o, me) /\ Flight(o, me)
  BY DEF Good, Sound
<1>1. /\ AfterCompletion(me, "read", c) /\ Counted(c) /\ c.bound
      /\ Outstanding(c) = Outstanding(me) \ {"read"} /\ "read" \notin Outstanding(c)
  BY <1>0, Completing
<1>2. k = [c EXCEPT !.rd = st]
  OBVIOUS
<1>. HIDE DEF c
<1>3. c \in Object /\ st \in State
  BY <1>1 DEF AfterCompletion, State
<1>4. k \in Object /\ Reading(c, k) /\ k.rd = st /\ k.ops = c.ops /\ k.refs = c.refs
  <2>. DEFINE n == [c EXCEPT !.rd = st]
  <2>1. n \in Object /\ Reading(c, n) /\ n.rd = st /\ n.ops = c.ops /\ n.refs = c.refs
    BY <1>3, KnownRecord
  <2>. HIDE DEF n
  <2>2. k = n
    BY <1>2 DEF n
  <2>. QED
    BY <2>1, <2>2
<1>5. k.bound /\ {"readable"} \in SUBSET Ready /\ {"readable"} # {}
  BY <1>1, <1>4 DEF Reading, Ready
<1>6. m \in Object /\ SameBut(k, m) /\ m.events = k.events \cup {"readable"} /\ m.note
  BY <1>4, <1>5, AddReadiness
<1>7. Reading(k, m) /\ m.rd = k.rd /\ m.ops = k.ops /\ m.refs = k.refs
  BY <1>6, SameIsReading
<1>8. Reading(c, m) /\ m.rd = st /\ m.ops = c.ops /\ m.refs = c.refs
  BY <1>4, <1>7, ReadingTrans
<1>9. Outstanding(m) = Outstanding(c)
  BY <1>8 DEF Reading, Outstanding
<1>10. me.rd = "pending" /\ "connect" \notin Outstanding(me) /\ me.bound
  BY <1>0 DEF Flight, Outstanding
<1>11. Flight(o, m)
  <2>1. /\ m.port = me.port \ {"read"} /\ m.ops = me.ops /\ m.deferred = me.deferred /\ m.conn = me.conn
        /\ m.bound = me.bound /\ m.inbox = me.inbox /\ m.arrived = me.arrived /\ m.peer = me.peer
    <3>1. /\ c.port = me.port \ {"read"} /\ c.ops = me.ops /\ c.deferred = me.deferred /\ c.conn = me.conn
          /\ c.bound = me.bound /\ c.inbox = me.inbox /\ c.arrived = me.arrived /\ c.peer = me.peer
      BY <1>1 DEF AfterCompletion
    <3>2. /\ m.port = c.port /\ m.ops = c.ops /\ m.deferred = c.deferred /\ m.conn = c.conn
          /\ m.bound = c.bound /\ m.inbox = c.inbox /\ m.arrived = c.arrived /\ m.peer = c.peer
      BY <1>8 DEF Reading
    <3>. QED
      BY <3>1, <3>2
  <2>2. Outstanding(m) = Outstanding(me) \ {"read"} /\ "readable" \in m.events
    BY <1>1, <1>6, <1>9
  <2>. QED
    BY <1>0, <1>8, <1>10, <2>1, <2>2 DEF Flight
<1>12. Writes(m)
  BY <1>0, <1>1, <1>8, <1>9 DEF Sound, AfterCompletion, Reading, Writes
<1>13. Counted(m)
  BY <1>1, <1>8, <1>9, CountKept DEF Reading
<1>14. Asked(c) /\ Output(o, c)
  BY <1>0, <1>1 DEF AfterCompletion, Asked, Output
<1>15. Asked(m) /\ Output(o, m)
  BY <1>8, <1>14, ReadingKeeps
<1>16. Heard(m)
  BY <1>6, <1>8 DEF Heard
<1>. QED
  BY <1>6, <1>11, <1>12, <1>13, <1>15, <1>16 DEF Good, Sound

LEMMA ConnectSettled ==
  ASSUME NEW o, NEW me, Good(o, me), "connect" \in me.port, NEW c, c = Completed(me, "connect")
  PROVE  Sound(o, c) /\ Asked(c) /\ c.bound /\ c.rd = "empty" /\ "connect" \notin Outstanding(c)
<1>0. Sound(o, me) /\ Asked(me) /\ Flight(o, me)
  BY DEF Good, Sound
<1>1. /\ AfterCompletion(me, "connect", c) /\ Counted(c) /\ c.bound
      /\ Outstanding(c) = Outstanding(me) \ {"connect"} /\ "connect" \notin Outstanding(c)
  BY <1>0, Completing
<1>2. me.rd = "empty"
  BY <1>0 DEF Flight, Outstanding
<1>3. Flight(o, c)
  BY <1>0, <1>1, <1>2 DEF AfterCompletion, Flight, Outstanding
<1>4. Writes(c)
  BY <1>0, <1>1 DEF Sound, AfterCompletion, Writes
<1>5. Asked(c)
  BY <1>0, <1>1 DEF AfterCompletion, Asked
<1>. QED
  BY <1>1, <1>2, <1>3, <1>4, <1>5 DEF Sound, AfterCompletion

LEMMA StreamReadDoneKeeps ==
  ASSUME NEW o \in Streams, NEW op \in Operation, op # "write", o \in DOMAIN obj, Good(o, obj[o]), StreamReadDone(o, op)
  PROVE  Keeps(o)
<1>. DEFINE old == obj[o]
            me == Completed(old, op)
<1>0. op \in old.port /\ Sound(o, old) /\ Flight(o, old)
  BY DEF StreamReadDone, Queued, Good, Sound
<1>1. AfterCompletion(old, op, me)
  BY <1>0, Completing
<1>2. CASE op = "read"
  <2>1. me.rd = "pending"
    BY <1>0, <1>1, <1>2 DEF Flight, Outstanding, AfterCompletion
  <2>2. Become(o, add_readiness([me EXCEPT !.rd = "ready"], {"readable"}))
    BY <2>1 DEF StreamReadDone
  <2>3. PICK k, m : /\ k = [Completed(old, "read") EXCEPT !.rd = "ready"] /\ m = add_readiness(k, {"readable"})
                    /\ Become(o, m)
    BY <1>2, <2>2
  <2>4. Good(o, m)
    BY <1>0, <1>2, <2>3, ReadCompleted
  <2>. QED
    BY <2>3, <2>4 DEF Keeps
<1>3. CASE op = "connect"
  <2>1. Sound(o, me) /\ Asked(me) /\ me.bound /\ me.rd = "empty" /\ "connect" \notin Outstanding(me)
    BY <1>0, <1>3, ConnectSettled
  <2>2. CASE me.conn = "up"
    <3>1. PICK res \in ReadResults(me) : Become(o, schedule_read(add_readiness(me, {"writable"}), res))
      BY <2>1, <2>2 DEF StreamReadDone
    <3>. DEFINE x == add_readiness(me, {"writable"})
                m == schedule_read(x, res)
    <3>2. Sound(o, x) /\ SameBut(me, x) /\ x.events = me.events \cup {"writable"} /\ x.note
      BY <2>1, AddWritable
    <3>3. res \in Results /\ x.bound /\ "connect" \notin Outstanding(x)
      BY <2>1, <3>2, ReadResultsType DEF SameBut, Outstanding
    <3>. HIDE DEF x
    <3>4. Sound(o, m) /\ Reading(x, m) /\ Underway(m)
      BY <3>2, <3>3, ScheduleRead
    <3>. HIDE DEF m, me
    <3>5. Asked(m)
      BY <2>1, <3>2, <3>4 DEF SameBut, Reading, Asked
    <3>6. Heard(m) /\ Output(o, m)
      BY <3>2, <3>4 DEF Reading, Underway, Heard, Output
    <3>7. Good(o, m)
      BY <3>4, <3>5, <3>6 DEF Good
    <3>. QED
      BY <3>1, <3>7 DEF Keeps, m, x
  <2>3. CASE me.conn # "up"
    <3>. DEFINE x == add_readiness(me, {"readable"})
    <3>1. Become(o, [x EXCEPT !.rd = "error"])
      BY <2>1, <2>3 DEF StreamReadDone
    <3>2. PICK m : m = [x EXCEPT !.rd = "error"] /\ Become(o, m)
      BY <3>1
    <3>3. {"readable"} \in SUBSET Ready /\ {"readable"} # {} /\ "error" \in State /\ me \in Object
      BY <2>1 DEF Ready, State, Sound
    <3>4. x \in Object /\ SameBut(me, x) /\ x.events = me.events \cup {"readable"} /\ x.note
      BY <2>1, <3>3, AddReadiness
    <3>. HIDE DEF x
    <3>5. Reading(me, x) /\ x.ops = me.ops /\ x.refs = me.refs
      BY <3>4, SameIsReading
    <3>6. m \in Object /\ Reading(x, m) /\ m.events = x.events /\ m.rd = "error" /\ m.ops = x.ops /\ m.refs = x.refs
      BY <3>2, <3>3, <3>4, KnownRecord
    <3>7. Reading(me, m)
      BY <3>5, <3>6, ReadingTrans
    <3>8. m.note /\ "readable" \in m.events /\ m.ops = me.ops /\ m.refs = me.refs
      BY <3>4, <3>5, <3>6 DEF Reading
    <3>. HIDE DEF me
    <3>9. Sound(o, m)
      BY <2>1, <3>6, <3>7, <3>8, ReadKnown
    <3>10. Asked(m) /\ Heard(m) /\ Output(o, m)
      BY <2>1, <2>3, <3>6, <3>7, <3>8 DEF Reading, Asked, Heard, Output
    <3>. QED
      BY <3>2, <3>9, <3>10 DEF Keeps, Good
  <2>. QED
    BY <2>2, <2>3
<1>. QED
  BY <1>2, <1>3 DEF Operation

LEMMA AcceptDoneKeeps ==
  ASSUME NEW o, o \in DOMAIN obj, Good(o, obj[o]), AcceptDone(o) \/ RecvDone(o)
  PROVE  Keeps(o)
<1>1. "read" \in obj[o].port
  BY DEF AcceptDone, RecvDone, Queued
<1>2. PICK st \in {"ready", "error"} :
        Become(o, add_readiness([Completed(obj[o], "read") EXCEPT !.rd = st], {"readable"}))
  BY DEF AcceptDone, RecvDone
<1>3. PICK k, m : /\ k = [Completed(obj[o], "read") EXCEPT !.rd = st] /\ m = add_readiness(k, {"readable"})
                  /\ Become(o, m)
  BY <1>2
<1>4. Good(o, m)
  BY <1>1, <1>2, <1>3, ReadCompleted
<1>. QED
  BY <1>3, <1>4 DEF Keeps

LEMMA WriteSettled ==
  ASSUME NEW o, NEW me, Good(o, me), "write" \in me.port, NEW c, c = Completed(me, "write")
  PROVE  /\ c \in Object /\ Flight(o, c) /\ Counted(c) /\ Asked(c) /\ Heard(c) /\ c.bound
         /\ "write" \notin Outstanding(c) /\ c.left = me.left /\ c.wbuf = me.wbuf
<1>0. Sound(o, me) /\ Asked(me) /\ Heard(me) /\ Flight(o, me)
  BY DEF Good, Sound
<1>1. /\ AfterCompletion(me, "write", c) /\ Counted(c) /\ c.bound
      /\ Outstanding(c) = Outstanding(me) \ {"write"} /\ "write" \notin Outstanding(c)
  BY <1>0, Completing
<1>2. Flight(o, c)
  <2>1. /\ c.port = me.port \ {"write"} /\ c.ops = me.ops /\ c.deferred = me.deferred /\ c.conn = me.conn /\ c.rd = me.rd
        /\ c.bound = me.bound /\ c.inbox = me.inbox /\ c.arrived = me.arrived /\ c.peer = me.peer /\ c.events = me.events
    BY <1>1 DEF AfterCompletion
  <2>. QED
    BY <1>0, <1>1, <2>1 DEF Flight
<1>3. Asked(c)
  BY <1>0, <1>1 DEF AfterCompletion, Asked
<1>4. Heard(c)
  BY <1>0, <1>1 DEF AfterCompletion, Heard
<1>. QED
  BY <1>1, <1>2, <1>3, <1>4 DEF AfterCompletion

\* The callback of a write that is finished.
LEMMA WriteFinished ==
  ASSUME NEW o, NEW me, Good(o, me), "write" \in me.port, NEW c, c = Completed(me, "write"), NEW m,
         m = add_readiness(Wrote(c, "empty", 0), {"writable"}) \/ m = add_readiness(Sent(c, "empty"), {"writable"})
  PROVE  Good(o, m)
<1>1. /\ c \in Object /\ Flight(o, c) /\ Counted(c) /\ Asked(c) /\ Heard(c) /\ c.bound
      /\ "write" \notin Outstanding(c)
  BY WriteSettled
<1>2. Writing(c, c) /\ "empty" \in State
  BY DEF Writing, State
<1>3. Sound(o, m) /\ Writing(c, m) /\ m.wr = "empty" /\ "writable" \in m.events /\ m.note
  BY <1>1, <1>2, WriteDecided
<1>4. c.ops \subseteq m.ops
  <2>1. 0 \in 0..MaxOut /\ {"writable"} \in SUBSET Ready /\ {"writable"} # {}
    BY BoundsAssumption DEF Ready
  <2>2. PICK k : m = add_readiness(k, {"writable"}) /\ (k = Wrote(c, "empty", 0) \/ k = Sent(c, "empty"))
    OBVIOUS
  <2>3. k \in Object /\ Writing(c, k) /\ k.ops = c.ops
    BY <1>1, <1>2, <2>1, <2>2, KnownWriteRecord
  <2>4. k.bound
    BY <1>1, <2>3 DEF Writing
  <2>5. SameBut(k, m)
    BY <2>1, <2>2, <2>3, <2>4, AddReadiness
  <2>. QED
    BY <2>3, <2>5 DEF SameBut
<1>5. Asked(m) /\ Heard(m)
  BY <1>1, <1>3, <1>4, WritingKeeps
<1>. QED
  BY <1>3, <1>5 DEF Good, Output

LEMMA SendDoneKeeps ==
  ASSUME NEW o, o \in DOMAIN obj, Good(o, obj[o]), SendDone(o)
  PROVE  Keeps(o)
<1>1. "write" \in obj[o].port
  BY DEF SendDone, Queued
<1>2. PICK c, m : c = Completed(obj[o], "write") /\ m = add_readiness(Sent(c, "empty"), {"writable"}) /\ Become(o, m)
  BY DEF SendDone, Sent
<1>3. Good(o, m)
  BY <1>1, <1>2, WriteFinished
<1>. QED
  BY <1>2, <1>3 DEF Keeps

LEMMA WriteDoneKeeps ==
  ASSUME NEW o, o \in DOMAIN obj, Good(o, obj[o]), PoolOK, StreamWriteDone(o)
  PROVE  Keeps(o) /\ PoolOK'
<1>. DEFINE old == obj[o]
            me == Completed(old, "write")
            left == me.left - old.sent
<1>1. "write" \in old.port
  BY DEF StreamWriteDone, Queued
<1>2. /\ me \in Object /\ Flight(o, me) /\ Counted(me) /\ Asked(me) /\ Heard(me) /\ me.bound
      /\ "write" \notin Outstanding(me)
  BY <1>1, WriteSettled
<1>3. CASE Become(o, add_readiness(Wrote(me, "empty", 0), {"writable"})) /\ UNCHANGED pool
  <2>1. PICK c, m : c = Completed(old, "write") /\ m = add_readiness(Wrote(c, "empty", 0), {"writable"}) /\ Become(o, m)
    BY <1>3
  <2>2. Good(o, m)
    BY <1>1, <2>1, WriteFinished
  <2>. QED
    BY <1>3, <2>1, <2>2 DEF Keeps, PoolOK
<1>4. CASE /\ left > 0
           /\ \E res \in WriteResults(me), l \in Remaining(me, left) :
                /\ Become(o, schedule_write(me, l, res))
                /\ pool' = AfterWrite(pool, me.wbuf, res)
  <2>1. PICK res \in WriteResults(me), l \in Remaining(me, left) :
                /\ Become(o, schedule_write(me, l, res))
                /\ pool' = AfterWrite(pool, me.wbuf, res)
    BY <1>4
  <2>2. res \in {"error", "done", "pending"}
    BY ReadResultsType
  <2>3. me.left \in 0..MaxOut /\ old.sent \in 0..MaxOut /\ me.wbuf \in Capacity
    BY <1>2, Typed DEF Good, Sound
  <2>. HIDE DEF me, old
  <2>4. l \in 0..MaxOut
    BY <1>4, <2>1, <2>3, BoundsAssumption DEF Remaining
  <2>5. PoolOK'
    BY <2>1, <2>3, Buffers DEF PoolOK, AfterWrite
  <2>6. PICK m : m = schedule_write(me, l, res)
    OBVIOUS
  <2>7. Sound(o, m) /\ Writing(me, m) /\ (m.wr = "empty" => m.note /\ "writable" \in m.events)
    BY <1>2, <2>2, <2>4, <2>6, ScheduleWrite
  <2>8. me.ops \subseteq m.ops
    BY <1>2, <2>2, <2>6, ScheduleWriteOps
  <2>9. Asked(m) /\ Heard(m)
    BY <1>2, <2>7, <2>8, WritingKeeps
  <2>10. Good(o, m)
    BY <2>7, <2>9 DEF Good, Output
  <2>. QED
    BY <2>1, <2>5, <2>6, <2>10 DEF Keeps
<1>. QED
  BY <1>3, <1>4 DEF StreamWriteDone, Wrote

=============================================================================
