--------------------------- MODULE WindowsIoProofs ---------------------------
(***************************************************************************)
(* Invariance proofs for WindowsIo, for any objects in any number, any     *)
(* interests and any bounds, of programs that do not re-register a stream  *)
(* whose connect is in flight.  An action changes one object, so that the  *)
(* invariant is one of a single object's record (WindowsIoCallbacks).      *)
(***************************************************************************)
EXTENDS WindowsIoCallbacks

-----------------------------------------------------------------------------
(* The registration.                                                       *)

\* What Sound looks at.
SameFlight(me, m) ==
  /\ m.rd = me.rd /\ m.wr = me.wr /\ m.ops = me.ops /\ m.port = me.port /\ m.refs = me.refs
  /\ m.handle = me.handle /\ m.deferred = me.deferred /\ m.conn = me.conn /\ m.bound = me.bound
  /\ m.inbox = me.inbox /\ m.arrived = me.arrived /\ m.peer = me.peer /\ m.events = me.events

\* Most of the steps below are first-order: Zenon is asked before the SMT solver.
USE ZenonT(8), SMTT(20)

LEMMA SoundKept ==
  ASSUME NEW o, NEW me, Sound(o, me), NEW m \in Object, SameFlight(me, m)
  PROVE  Sound(o, m)
<1>1. Outstanding(m) = Outstanding(me)
  BY DEF SameFlight, Outstanding
<1>2. Flight(o, m)
  BY <1>1 DEF SameFlight, Sound, Flight
<1>3. Writes(m)
  BY <1>1 DEF SameFlight, Sound, Writes
<1>4. Counted(m)
  BY <1>1, CountKept DEF SameFlight, Sound
<1>. QED
  BY <1>2, <1>3, <1>4 DEF Sound

LEMMA WatchedType ==
  ASSUME NEW i \in SUBSET {"readable", "writable"}
  PROVE  Watched(i) \in SUBSET Ready /\ i \subseteq Watched(i)
BY DEF Watched, Ready

LEMMA PutInterest ==
  ASSUME NEW me \in Object, NEW w, w \in SUBSET Ready, NEW mode, mode \in {"edge", "level", "oneshot"},
         NEW m, m = [me EXCEPT !.interest = w, !.mode = mode, !.note = @ \/ me.events # {}]
  PROVE  m \in Object
BY ZenonT(30) DEF Object

\* m is me registered again for i: an event already there is queued.
Reregistered(me, i, m) ==
  /\ m \in Object /\ SameFlight(me, m) /\ m.interest = Watched(i)
  /\ (me.events # {} => m.note)

LEMMA ReregisterRecord ==
  ASSUME NEW me \in Object, NEW i, Watched(i) \in SUBSET Ready, NEW mode \in {"edge", "level", "oneshot"}
  PROVE  Reregistered(me, i, reregister_socket(me, i, mode))
<1>. PICK m : m = reregister_socket(me, i, mode)
  OBVIOUS
<1>1. m = [me EXCEPT !.interest = Watched(i), !.mode = mode, !.note = @ \/ me.events # {}]
  BY DEF reregister_socket
<1>2. m \in Object
  BY <1>1, PutInterest
<1>3. SameFlight(me, m)
  BY <1>1, ZenonT(30) DEF Object, SameFlight
<1>4. m.interest = Watched(i) /\ m.note = (me.note \/ me.events # {})
  BY <1>1, Zenon DEF Object
<1>. QED
  BY <1>2, <1>3, <1>4 DEF Reregistered

\* What Sound looks at, but for deferred and bound.
Bound(me, m) ==
  /\ m.rd = me.rd /\ m.wr = me.wr /\ m.ops = me.ops /\ m.port = me.port /\ m.refs = me.refs
  /\ m.handle = me.handle /\ m.conn = me.conn /\ m.bound = TRUE
  /\ m.inbox = me.inbox /\ m.arrived = me.arrived /\ m.peer = me.peer /\ m.events = me.events
  /\ m.sub = me.sub /\ m.told = me.told /\ m.deaf = me.deaf /\ m.note = me.note

LEMMA BoundSound ==
  ASSUME NEW o, NEW me, Sound(o, me), ~me.bound, NEW m \in Object, Bound(me, m), m.deferred => me.deferred
  PROVE  Sound(o, m) /\ m.bound /\ m.rd = "empty" /\ m.wr = "empty" /\ Outstanding(m) = {}
<1>1. Outstanding(m) = Outstanding(me)
  BY DEF Bound, Outstanding
<1>2. Outstanding(me) = {} /\ me.rd = "empty" /\ me.wr = "empty"
  BY DEF Sound, Flight
<1>3. Flight(o, m)
  BY <1>1, <1>2 DEF Bound, Sound, Flight
<1>4. Writes(m)
  BY <1>1 DEF Bound, Sound, Writes
<1>5. Counted(m)
  BY <1>1, CountKept DEF Bound, Sound
<1>. QED
  BY <1>1, <1>2, <1>3, <1>4, <1>5 DEF Bound, Sound

Notifies(reg) == [reg EXCEPT !.instant = TRUE]
Connects(reg) == [reg EXCEPT !.instant = TRUE, !.deferred = FALSE]

LEMMA BoundRecords ==
  ASSUME NEW me \in Object, NEW i, Watched(i) \in SUBSET Ready, NEW mode \in {"edge", "level", "oneshot"},
         NEW reg, reg = register_socket(me, i, mode),
         NEW m, m \in {reg, Notifies(reg), Connects(reg)}
  PROVE  m \in Object /\ Bound(me, m) /\ (m.deferred => me.deferred) /\ m.interest = Watched(i)
<1>1. CASE m = reg
  <2>1. m \in Object
    BY <1>1, ZenonT(30) DEF Object, register_socket, Notifies, Connects
  <2>2. Bound(me, m) /\ m.deferred = me.deferred /\ m.interest = Watched(i)
    BY <1>1, Zenon DEF Object, register_socket, Notifies, Connects, Bound
  <2>. QED
    BY <2>1, <2>2
<1>2. CASE m = Notifies(reg)
  <2>1. m \in Object
    BY <1>2, ZenonT(30) DEF Object, register_socket, Notifies, Connects
  <2>2. Bound(me, m) /\ m.deferred = me.deferred /\ m.interest = Watched(i)
    BY <1>2, Zenon DEF Object, register_socket, Notifies, Connects, Bound
  <2>. QED
    BY <2>1, <2>2
<1>3. CASE m = Connects(reg)
  <2>1. m \in Object
    BY <1>3, ZenonT(30) DEF Object, register_socket, Notifies, Connects
  <2>2. Bound(me, m) /\ m.deferred = FALSE /\ m.interest = Watched(i)
    BY <1>3, ZenonT(30) DEF Object, register_socket, Notifies, Connects, Bound
  <2>. QED
    BY <2>1, <2>2
<1>. QED
  BY <1>1, <1>2, <1>3

\* The end of register and reregister.
Subscribed(x, i) == [x EXCEPT !.sub = i]
Undeafened(x, i) == [x EXCEPT !.sub = i, !.deaf = FALSE]

LEMMA Subscribe ==
  ASSUME NEW o, NEW x, Sound(o, x), NEW i \in SUBSET {"readable", "writable"}, i \subseteq x.interest, x.bound,
         "readable" \in i => Underway(x) \/ "connect" \in Outstanding(x),
         "writable" \in i /\ x.wr = "empty" /\ x.conn = "up" /\ o \notin Listeners => x.note /\ "writable" \in x.events,
         NEW m, m = Subscribed(x, i) \/ m = Undeafened(x, i)
  PROVE  Good(o, m)
<1>. DEFINE Same == SameFlight(x, m) /\ m.sub = i /\ m.interest = x.interest /\ m.told = x.told /\ m.note = x.note
<1>0. x \in Object
  BY DEF Sound
<1>3. m \in Object /\ Same
  <2>1. CASE m = Subscribed(x, i)
    <3>1. m \in Object
      BY <1>0, <2>1, Zenon DEF Object, Subscribed
    <3>2. Same
      BY <1>0, <2>1, Zenon DEF Object, Subscribed, SameFlight
    <3>. QED
      BY <3>1, <3>2
  <2>2. CASE m = Undeafened(x, i)
    <3>1. m \in Object
      BY <1>0, <2>2, ZenonT(30) DEF Object, Undeafened
    <3>2. Same
      BY <1>0, <2>2, Zenon DEF Object, Undeafened, SameFlight
    <3>. QED
      BY <3>1, <3>2
  <2>. QED
    BY <2>1, <2>2
<1>4. Sound(o, m)
  BY <1>3, SoundKept
<1>5. Asked(m)
  BY <1>3 DEF SameFlight, Asked
<1>6. Heard(m)
  <2>1. "connect" \in Outstanding(x) => x.rd = "empty"
    BY DEF Sound, Flight
  <2>. QED
    BY <1>3, <2>1 DEF SameFlight, Heard, Underway, Outstanding
<1>7. Output(o, m)
  BY <1>3 DEF SameFlight, Output
<1>. QED
  BY <1>4, <1>5, <1>6, <1>7 DEF Good

LEMMA PostRegister ==
  ASSUME NEW o, NEW me, Sound(o, me), me.bound, "connect" \notin Outstanding(me),
         NEW i, NEW res \in Results, NEW m, m = post_register(me, i, res)
  PROVE  /\ Sound(o, m) /\ m.interest = me.interest /\ m.bound
         /\ "readable" \in i => Underway(m)
         /\ "writable" \in i /\ m.wr = "empty" => m.note /\ "writable" \in m.events
<1>. DEFINE r == IF "readable" \in i THEN schedule_read(me, res) ELSE me
<1>1. /\ Sound(o, r) /\ r.interest = me.interest /\ r.bound
      /\ "readable" \in i => Underway(r)
  BY ScheduleRead DEF Reading
<1>2. m = IF "writable" \in i /\ r.wr = "empty" THEN add_readiness(r, {"writable"}) ELSE r
  BY DEF post_register
<1>. HIDE DEF r
<1>3. CASE "writable" \in i /\ r.wr = "empty"
  <2>1. m = add_readiness(r, {"writable"})
    BY <1>2, <1>3
  <2>2. Sound(o, m) /\ SameBut(r, m) /\ m.events = r.events \cup {"writable"} /\ m.note
    BY <1>1, <2>1, AddWritable
  <2>. QED
    BY <1>1, <2>2 DEF SameBut, Underway
<1>4. CASE ~("writable" \in i /\ r.wr = "empty")
  BY <1>1, <1>2, <1>4
<1>. QED
  BY <1>3, <1>4

-----------------------------------------------------------------------------
(* The methods.                                                            *)

LEMMA CallTypes ==
  ASSUME NEW i \in Interests, NEW m \in Modes
  PROVE  /\ i \in SUBSET {"readable", "writable"} /\ m \in {"edge", "level", "oneshot"}
         /\ Watched(i) \in SUBSET Ready /\ i \subseteq Watched(i)
<1>1. i \in SUBSET {"readable", "writable"} /\ m \in {"edge", "level", "oneshot"}
  BY CallsAssumption
<1>. QED
  BY <1>1, WatchedType

\* A registration that came no further.
LEMMA OnlyBound ==
  ASSUME NEW o, NEW me, Good(o, me), ~me.bound, NEW m \in Object, Bound(me, m), m.deferred => me.deferred
  PROVE  Good(o, m)
<1>1. Sound(o, m)
  BY BoundSound DEF Good
<1>2. m.sub = {}
  BY DEF Good, Asked, Bound
<1>. QED
  BY <1>1, <1>2 DEF Good, Asked, Heard, Output

\* m is c with the connect started and nothing else changed.
Connecting(c, m) ==
  /\ m.ops = c.ops \cup {"connect"} /\ m.refs = c.refs + 1
  /\ m.rd = c.rd /\ m.wr = c.wr /\ m.port = c.port /\ m.handle = c.handle /\ m.deferred = c.deferred
  /\ m.conn = c.conn /\ m.bound = c.bound /\ m.inbox = c.inbox /\ m.arrived = c.arrived
  /\ m.peer = c.peer /\ m.events = c.events /\ m.interest = c.interest

LEMMA ConnectRecord ==
  ASSUME NEW c \in Object, NEW m, m = Started(c, "connect"),
         c.refs + 1 \in Nat, c.ops \cup {"connect"} \in SUBSET Operation
  PROVE  m \in Object /\ Connecting(c, m)
<1>1. m \in Object
  BY ZenonT(30) DEF Object, Started
<1>2. Connecting(c, m)
  BY Zenon DEF Object, Started, Connecting
<1>. QED
  BY <1>1, <1>2

LEMMA ConnectStarted ==
  ASSUME NEW o \in Streams, NEW c, Sound(o, c), c.bound, c.rd = "empty", ~c.deferred, c.conn = "down",
         Outstanding(c) = {}, NEW m, m = Started(c, "connect")
  PROVE  /\ Sound(o, m) /\ m.interest = c.interest /\ m.bound /\ m.conn = "down"
         /\ "connect" \in Outstanding(m)
<1>1. c \in Object /\ c.refs + 1 \in Nat /\ c.ops \cup {"connect"} \in SUBSET Operation
  BY Typed DEF Sound, Operation
<1>2. /\ m \in Object /\ m.ops = c.ops \cup {"connect"} /\ m.refs = c.refs + 1
      /\ m.rd = c.rd /\ m.wr = c.wr /\ m.port = c.port /\ m.handle = c.handle /\ m.deferred = c.deferred
      /\ m.conn = c.conn /\ m.bound = c.bound /\ m.inbox = c.inbox /\ m.arrived = c.arrived
      /\ m.peer = c.peer /\ m.events = c.events /\ m.interest = c.interest
  <2>1. m \in Object /\ Connecting(c, m)
    BY <1>1, ConnectRecord
  <2>. QED
    BY <2>1 DEF Connecting
<1>3. Outstanding(m) = Outstanding(c) \cup {"connect"} /\ "connect" \notin Outstanding(c) /\ "connect" \in Operation
  BY <1>2 DEF Outstanding, Operation
<1>4. Flight(o, m)
  BY <1>2, <1>3 DEF Sound, Flight, Outstanding
<1>5. Writes(m)
  BY <1>2, <1>3 DEF Sound, Writes
<1>6. Counted(m)
  BY <1>1, <1>2, <1>3, CountStarted DEF Sound
<1>. QED
  BY <1>2, <1>3, <1>4, <1>5, <1>6 DEF Sound

LEMMA StreamRegisterKeeps ==
  ASSUME NEW o \in Streams, NEW i \in Interests, NEW m \in Modes, o \in DOMAIN obj, Good(o, obj[o]),
         StreamRegister(o, i, m)
  PROVE  Keeps(o)
<1>. DEFINE old == obj[o]
            reg == register_socket(old, i, m)
            me == [reg EXCEPT !.instant = TRUE, !.deferred = FALSE]
<1>0. Sound(o, old) /\ ~old.bound /\ old \in Object
  BY DEF StreamRegister, Good, Sound
<1>1. /\ i \in SUBSET {"readable", "writable"} /\ m \in {"edge", "level", "oneshot"}
      /\ Watched(i) \in SUBSET Ready /\ i \subseteq Watched(i)
  BY CallTypes
<1>2. /\ reg \in Object /\ Bound(old, reg) /\ (reg.deferred => old.deferred) /\ reg.interest = Watched(i)
      /\ me \in Object /\ Bound(old, me) /\ me.interest = Watched(i) /\ (me.deferred => old.deferred)
  <2>1. me = Connects(reg)
    BY DEF Connects
  <2>. HIDE DEF reg, me
  <2>2. reg \in Object /\ Bound(old, reg) /\ (reg.deferred => old.deferred) /\ reg.interest = Watched(i)
    BY <1>0, <1>1, BoundRecords DEF reg
  <2>3. me \in Object /\ Bound(old, me) /\ me.interest = Watched(i) /\ (me.deferred => old.deferred)
    BY <1>0, <1>1, <2>1, BoundRecords DEF reg
  <2>. QED
    BY <2>2, <2>3
<1>3. reg.deferred = old.deferred /\ me.deferred = FALSE
  BY <1>0, Zenon DEF Object, register_socket
<1>4. Sound(o, me) /\ me.bound /\ me.rd = "empty" /\ me.wr = "empty" /\ Outstanding(me) = {}
  BY <1>0, <1>2, BoundSound
<1>5. \/ Become(o, reg)
      \/ /\ reg.deferred
         /\ \E res \in {"pending", "error"} :
              Become(o, [schedule_connect(me, res) EXCEPT !.sub = IF res = "error" THEN {} ELSE i])
      \/ /\ ~reg.deferred
         /\ \E res \in ReadResults(me) : Become(o, [post_register(me, i, res) EXCEPT !.sub = i])
  BY DEF StreamRegister
<1>. HIDE DEF me, reg, old
<1>6. CASE Become(o, reg)
  <2>1. Good(o, reg)
    BY <1>0, <1>2, OnlyBound DEF old
  <2>. QED
    BY <1>6, <2>1 DEF Keeps
<1>7. CASE reg.deferred /\ Become(o, [schedule_connect(me, "pending") EXCEPT !.sub = i])
  <2>. DEFINE x == Started(me, "connect")
  <2>1. Become(o, Subscribed(x, i))
    BY <1>7 DEF Subscribed, schedule_connect
  <2>2. me.conn = "down" /\ ~me.deferred
    BY <1>0, <1>2, <1>3, <1>7 DEF Sound, Flight, Bound
  <2>3. Sound(o, x) /\ x.interest = me.interest /\ x.bound /\ x.conn = "down" /\ "connect" \in Outstanding(x)
    BY <1>4, <2>2, ConnectStarted
  <2>. HIDE DEF x
  <2>4. Good(o, Subscribed(x, i))
    BY <1>1, <1>2, <2>3, Subscribe
  <2>. QED
    BY <2>1, <2>4 DEF Keeps
<1>8. CASE Become(o, [schedule_connect(me, "error") EXCEPT !.sub = {}])
  <2>1. Become(o, Subscribed(me, {}))
    BY <1>8 DEF Subscribed, schedule_connect
  <2>2. Good(o, Subscribed(me, {}))
    BY <1>4, Subscribe
  <2>. QED
    BY <2>1, <2>2 DEF Keeps
<1>9. CASE \E res \in ReadResults(me) : Become(o, [post_register(me, i, res) EXCEPT !.sub = i])
  <2>1. PICK res \in ReadResults(me) : Become(o, [post_register(me, i, res) EXCEPT !.sub = i])
    BY <1>9
  <2>. DEFINE x == post_register(me, i, res)
  <2>2. Become(o, Subscribed(x, i))
    BY <2>1 DEF Subscribed
  <2>3. res \in Results
    BY ReadResultsType
  <2>4. /\ Sound(o, x) /\ x.interest = me.interest /\ x.bound
        /\ "readable" \in i => Underway(x)
        /\ "writable" \in i /\ x.wr = "empty" => x.note /\ "writable" \in x.events
    BY <1>4, <2>3, PostRegister
  <2>. HIDE DEF x
  <2>5. Good(o, Subscribed(x, i))
    BY <1>1, <1>2, <2>4, Subscribe
  <2>. QED
    BY <2>2, <2>5 DEF Keeps
<1>. QED
  <2>1. CASE reg.deferred /\ \E res \in {"pending", "error"} :
              Become(o, [schedule_connect(me, res) EXCEPT !.sub = IF res = "error" THEN {} ELSE i])
    BY <1>7, <1>8, <2>1
  <2>. QED
    BY <1>5, <1>6, <1>9, <2>1

LEMMA StreamReregisterKeeps ==
  ASSUME NEW o \in Streams, NEW i \in Interests, NEW m \in Modes, o \in DOMAIN obj, Good(o, obj[o]),
         StreamReregister(o, i, m), ~Impatient
  PROVE  Keeps(o)
<1>. DEFINE me == reregister_socket(obj[o], i, m)
<1>0. Sound(o, obj[o]) /\ obj[o].bound /\ obj[o] \in Object
  BY DEF StreamReregister, Good, Sound
<1>1. /\ i \in SUBSET {"readable", "writable"} /\ m \in {"edge", "level", "oneshot"}
      /\ Watched(i) \in SUBSET Ready /\ i \subseteq Watched(i)
  BY CallTypes
<1>2. me \in Object /\ SameFlight(obj[o], me) /\ me.interest = Watched(i)
  BY <1>0, <1>1, ReregisterRecord DEF Reregistered
<1>3. "connect" \notin Outstanding(me)
  BY DEF StreamReregister, Outstanding
<1>4. PICK res \in ReadResults(me) : Become(o, [post_register(me, i, res) EXCEPT !.sub = i])
  BY DEF StreamReregister
<1>. HIDE DEF me
<1>5. Sound(o, me) /\ me.bound
  BY <1>0, <1>2, SoundKept DEF SameFlight
<1>. DEFINE x == post_register(me, i, res)
<1>6. Become(o, Subscribed(x, i))
  BY <1>4 DEF Subscribed
<1>7. res \in Results
  BY ReadResultsType
<1>8. /\ Sound(o, x) /\ x.interest = me.interest /\ x.bound
      /\ "readable" \in i => Underway(x)
      /\ "writable" \in i /\ x.wr = "empty" => x.note /\ "writable" \in x.events
  BY <1>3, <1>5, <1>7, PostRegister
<1>. HIDE DEF x
<1>9. Good(o, Subscribed(x, i))
  BY <1>1, <1>2, <1>8, Subscribe
<1>. QED
  BY <1>6, <1>9 DEF Keeps

\* What Again and WouldBlock change.
ToldOnly(x, m) ==
  m \in Object /\ SameFlight(x, m) /\ m.sub = x.sub /\ m.interest = x.interest /\ m.deaf = x.deaf /\ m.note = x.note

LEMMA ToldRecords ==
  ASSUME NEW x \in Object, NEW kind \in {"readable", "writable"}
  PROVE  /\ ToldOnly(x, Again(x, kind)) /\ Again(x, kind).told = x.told \cup {kind}
         /\ ToldOnly(x, WouldBlock(x, kind)) /\ WouldBlock(x, kind).told = x.told \ {kind}
<1>1. x.told \cup {kind} \in SUBSET {"readable", "writable"} /\ x.told \ {kind} \in SUBSET {"readable", "writable"}
  BY Typed
<1>2. ASSUME NEW t, t \in SUBSET {"readable", "writable"}, NEW m, m = [x EXCEPT !.told = t]
      PROVE  ToldOnly(x, m) /\ m.told = t
  <2>1. m \in Object
    BY <1>2, ZenonT(30) DEF Object
  <2>2. SameFlight(x, m)
    BY <1>2, Zenon DEF Object, SameFlight
  <2>3. m.sub = x.sub /\ m.interest = x.interest /\ m.deaf = x.deaf /\ m.note = x.note /\ m.told = t
    BY <1>2, Zenon DEF Object
  <2>. QED
    BY <2>1, <2>2, <2>3 DEF ToldOnly
<1>. QED
  BY <1>1, <1>2 DEF Again, WouldBlock

LEMMA ToldSound ==
  ASSUME NEW o, NEW x, Sound(o, x), Asked(x), NEW m, ToldOnly(x, m)
  PROVE  Sound(o, m) /\ Asked(m)
<1>1. Sound(o, m)
  BY SoundKept DEF ToldOnly
<1>2. Asked(m)
  BY DEF ToldOnly, SameFlight, Asked
<1>. QED
  BY <1>1, <1>2

LEMMA ToldRead ==
  ASSUME NEW o, NEW x, Sound(o, x), Asked(x), Output(o, x),
         "readable" \in x.sub /\ x.rd = "empty" => x.deaf \/ "connect" \in Outstanding(x)
  PROVE  Good(o, Again(x, "readable"))
<1>. DEFINE m == Again(x, "readable")
<1>1. ToldOnly(x, m) /\ m.told = x.told \cup {"readable"}
  BY ToldRecords DEF Sound
<1>2. Sound(o, m) /\ Asked(m)
  BY <1>1, ToldSound
<1>3. Heard(m)
  BY <1>1 DEF ToldOnly, SameFlight, Heard, Outstanding
<1>4. Output(o, m)
  BY <1>1 DEF ToldOnly, SameFlight, Output
<1>. QED
  BY <1>2, <1>3, <1>4 DEF Good

LEMMA BlockedRead ==
  ASSUME NEW o, NEW x, Sound(o, x), Asked(x), Output(o, x), x.rd \in {"ready", "error"} => x.note,
         "readable" \in x.sub /\ x.rd = "empty" => x.deaf \/ "connect" \in Outstanding(x)
  PROVE  Good(o, WouldBlock(x, "readable"))
<1>. DEFINE m == WouldBlock(x, "readable")
<1>1. ToldOnly(x, m) /\ m.told = x.told \ {"readable"}
  BY ToldRecords DEF Sound
<1>2. Sound(o, m) /\ Asked(m)
  BY <1>1, ToldSound
<1>3. Heard(m)
  BY <1>1 DEF ToldOnly, SameFlight, Heard, Outstanding
<1>4. Output(o, m)
  BY <1>1 DEF ToldOnly, SameFlight, Output
<1>. QED
  BY <1>2, <1>3, <1>4 DEF Good

LEMMA ToldWrite ==
  ASSUME NEW o, NEW x, Sound(o, x), Asked(x), Heard(x)
  PROVE  Good(o, Again(x, "writable"))
<1>. DEFINE m == Again(x, "writable")
<1>1. ToldOnly(x, m) /\ m.told = x.told \cup {"writable"}
  BY ToldRecords DEF Sound
<1>2. Sound(o, m) /\ Asked(m)
  BY <1>1, ToldSound
<1>3. Heard(m)
  BY <1>1 DEF ToldOnly, SameFlight, Heard, Outstanding
<1>4. Output(o, m)
  BY <1>1 DEF ToldOnly, SameFlight, Output
<1>. QED
  BY <1>2, <1>3, <1>4 DEF Good

LEMMA BlockedWrite ==
  ASSUME NEW o, NEW x, Good(o, x), x.wr # "empty" \/ ~x.bound
  PROVE  Good(o, WouldBlock(x, "writable"))
<1>. DEFINE m == WouldBlock(x, "writable")
<1>1. ToldOnly(x, m) /\ m.told = x.told \ {"writable"}
  BY ToldRecords DEF Good, Sound
<1>2. Sound(o, m) /\ Asked(m)
  BY <1>1, ToldSound DEF Good
<1>3. Heard(m)
  BY <1>1 DEF ToldOnly, SameFlight, Good, Heard, Outstanding
<1>4. Output(o, m)
  BY <1>1 DEF ToldOnly, SameFlight, Good, Asked, Output
<1>. QED
  BY <1>2, <1>3, <1>4 DEF Good

\* What the user does to the state of reads and the socket.
InputOnly(me, x) ==
  /\ x \in Object /\ x.wr = me.wr /\ x.ops = me.ops /\ x.port = me.port /\ x.refs = me.refs
  /\ x.handle = me.handle /\ x.deferred = me.deferred /\ x.conn = me.conn /\ x.bound = me.bound
  /\ x.arrived = me.arrived /\ x.events = me.events /\ x.sub = me.sub /\ x.interest = me.interest
  /\ x.told = me.told /\ x.note = me.note

LEMMA InputSound ==
  ASSUME NEW o, NEW me, Sound(o, me), Asked(me), Output(o, me), me.rd \in {"ready", "error"},
         NEW x, InputOnly(me, x), x.rd # "pending", x.inbox <= me.inbox, o \in Streams \/ x.peer = me.peer
  PROVE  /\ Sound(o, x) /\ Asked(x) /\ Output(o, x) /\ x.bound /\ "connect" \notin Outstanding(x)
<1>1. Outstanding(x) = Outstanding(me)
  BY DEF InputOnly, Outstanding
<1>2. me.bound /\ "connect" \notin Outstanding(me) /\ "read" \notin Outstanding(me) /\ "readable" \in me.events
  BY DEF Sound, Flight
<1>3. x.inbox <= x.arrived
  <2>1. me.inbox \in Int /\ me.arrived \in Int /\ me.inbox <= me.arrived /\ x.inbox \in Int
    BY Typed DEF Sound, InputOnly, Flight
  <2>. QED
    BY <2>1 DEF InputOnly
<1>4. Flight(o, x)
  BY <1>1, <1>2, <1>3 DEF InputOnly, Sound, Flight
<1>5. Writes(x)
  BY <1>1 DEF InputOnly, Sound, Writes
<1>6. Counted(x)
  BY <1>1, CountKept DEF InputOnly, Sound
<1>7. Asked(x) /\ Output(o, x)
  BY DEF InputOnly, Asked, Output
<1>. QED
  BY <1>1, <1>2, <1>4, <1>5, <1>6, <1>7 DEF Sound, InputOnly

Taken(me) == [me EXCEPT !.rd = "empty"]
Drained(me) == [me EXCEPT !.rd = "empty", !.inbox = 0]
Reset(me) == [me EXCEPT !.rd = "error", !.inbox = 0, !.peer = "reset"]
Deaf(me) == [Taken(me) EXCEPT !.deaf = TRUE]
Consumed(me, k) == [me EXCEPT !.inbox = @ - k]

LEMMA InputRecords ==
  ASSUME NEW me \in Object
  PROVE  /\ InputOnly(me, Taken(me)) /\ Taken(me).rd = "empty" /\ Taken(me).inbox = me.inbox /\ Taken(me).peer = me.peer
         /\ InputOnly(me, Drained(me)) /\ Drained(me).rd = "empty" /\ Drained(me).inbox = 0
         /\ InputOnly(me, Reset(me)) /\ Reset(me).rd = "error" /\ Reset(me).inbox = 0
         /\ InputOnly(me, Deaf(me)) /\ Deaf(me).rd = "empty" /\ Deaf(me).inbox = me.inbox /\ Deaf(me).peer = me.peer /\ Deaf(me).deaf
<1>0. "empty" \in State /\ "error" \in State /\ 0 \in 0..MaxIn /\ "reset" \in {"open", "closed", "reset"}
  BY BoundsAssumption DEF State
<1>1. InputOnly(me, Taken(me)) /\ Taken(me).rd = "empty" /\ Taken(me).inbox = me.inbox /\ Taken(me).peer = me.peer
  <2>1. Taken(me) \in Object
    BY <1>0, Zenon DEF Object, Taken
  <2>. QED
    BY <2>1, Zenon DEF Object, Taken, InputOnly
<1>2. InputOnly(me, Drained(me)) /\ Drained(me).rd = "empty" /\ Drained(me).inbox = 0
  <2>1. Drained(me) \in Object
    BY <1>0, Zenon DEF Object, Drained
  <2>. QED
    BY <2>1, Zenon DEF Object, Drained, InputOnly
<1>3. InputOnly(me, Reset(me)) /\ Reset(me).rd = "error" /\ Reset(me).inbox = 0
  <2>1. Reset(me) \in Object
    BY <1>0, Zenon DEF Object, Reset
  <2>. QED
    BY <2>1, Zenon DEF Object, Reset, InputOnly
<1>4. InputOnly(me, Deaf(me)) /\ Deaf(me).rd = "empty" /\ Deaf(me).inbox = me.inbox /\ Deaf(me).peer = me.peer /\ Deaf(me).deaf = TRUE
  <2>1. Deaf(me) \in Object
    BY <1>0, Zenon DEF Object, Deaf, Taken
  <2>. QED
    BY <2>1, Zenon DEF Object, Deaf, Taken, InputOnly
<1>. QED
  BY <1>1, <1>2, <1>3, <1>4

LEMMA ConsumedRecord ==
  ASSUME NEW me \in Object, NEW k, me.inbox - k \in 0..MaxIn
  PROVE  /\ InputOnly(me, Consumed(me, k)) /\ Consumed(me, k).rd = me.rd
         /\ Consumed(me, k).inbox = me.inbox - k /\ Consumed(me, k).peer = me.peer
<1>1. Consumed(me, k) \in Object
  BY Zenon DEF Object, Consumed
<1>. QED
  BY <1>1, Zenon DEF Object, Consumed, InputOnly

\* A read was scheduled at the end of a call.
LEMMA Scheduled ==
  ASSUME NEW o, NEW x, Asked(x), Output(o, x), NEW m, Sound(o, m), Reading(x, m), Underway(m)
  PROVE  Good(o, Again(m, "readable")) /\ Good(o, WouldBlock(m, "readable"))
<1>1. Asked(m) /\ Output(o, m)
  BY ReadingKeeps
<1>2. m.rd # "empty" /\ (m.rd \in {"ready", "error"} => m.note)
  BY DEF Underway
<1>. QED
  BY <1>1, <1>2, ToldRead, BlockedRead

LEMMA NothingToRead ==
  ASSUME NEW o, NEW me, Good(o, me), me.rd \in {"empty", "pending"}
  PROVE  Good(o, WouldBlock(me, "readable"))
<1>1. "readable" \in me.sub /\ me.rd = "empty" => me.deaf \/ "connect" \in Outstanding(me)
  BY DEF Good, Heard
<1>. QED
  BY <1>1, BlockedRead DEF Good

LEMMA ReadvLoopKeeps ==
  ASSUME NEW o \in Streams, NEW n \in 1..2, o \in DOMAIN obj, Good(o, obj[o]), obj[o].rd = "ready", ReadvLoop(o, n)
  PROVE  Keeps(o)
<1>. DEFINE me == obj[o]
<1>0. Sound(o, me) /\ Asked(me) /\ Output(o, me) /\ me.rd \in {"ready", "error"} /\ me \in Object /\ me.inbox \in 0..MaxIn
  BY Typed DEF Good, Sound
<1>1. ASSUME NEW k, k \in 0..me.inbox, Become(o, Again(Consumed(me, k), "readable"))
      PROVE  Keeps(o)
  <2>. DEFINE x == Consumed(me, k)
  <2>1. me.inbox - k \in 0..MaxIn /\ me.inbox - k <= me.inbox
    BY <1>0, <1>1, BoundsAssumption
  <2>2. InputOnly(me, x) /\ x.rd = me.rd /\ x.inbox = me.inbox - k
    BY <1>0, <2>1, ConsumedRecord
  <2>3. Sound(o, x) /\ Asked(x) /\ Output(o, x) /\ x.rd # "empty"
    BY <1>0, <2>1, <2>2, InputSound
  <2>4. Good(o, Again(x, "readable"))
    BY <2>3, ToldRead
  <2>. QED
    BY <1>1, <2>4 DEF Keeps
<1>2. ASSUME NEW res \in ReadResults(Drained(me)), NEW now, now = schedule_read(Drained(me), res),
             Become(o, Again(now, "readable")) \/ Become(o, WouldBlock(now, "readable"))
      PROVE  Keeps(o)
  <2>. DEFINE x == Drained(me)
  <2>1. InputOnly(me, x) /\ x.rd = "empty" /\ x.inbox = 0
    BY <1>0, InputRecords
  <2>2. Sound(o, x) /\ Asked(x) /\ Output(o, x) /\ x.bound /\ "connect" \notin Outstanding(x)
    BY <1>0, <2>1, InputSound
  <2>3. res \in Results
    BY <1>2, ReadResultsType
  <2>4. Sound(o, now) /\ Reading(x, now) /\ Underway(now)
    BY <1>2, <2>2, <2>3, ScheduleRead
  <2>5. Good(o, Again(now, "readable")) /\ Good(o, WouldBlock(now, "readable"))
    BY <2>2, <2>4, Scheduled
  <2>. QED
    BY <1>2, <2>5 DEF Keeps
<1>3. ASSUME Become(o, Again(Reset(me), "readable"))
      PROVE  Keeps(o)
  <2>. DEFINE x == Reset(me)
  <2>1. InputOnly(me, x) /\ x.rd = "error" /\ x.inbox = 0
    BY <1>0, InputRecords
  <2>2. Sound(o, x) /\ Asked(x) /\ Output(o, x)
    BY <1>0, <2>1, InputSound
  <2>3. Good(o, Again(x, "readable"))
    BY <2>1, <2>2, ToldRead
  <2>. QED
    BY <1>3, <2>3 DEF Keeps
<1>4. \/ \E k \in 0..me.inbox : Become(o, Again(Consumed(me, k), "readable"))
      \/ \E res \in ReadResults(Drained(me)) : LET now == schedule_read(Drained(me), res) IN
           Become(o, Again(now, "readable")) \/ Become(o, WouldBlock(now, "readable"))
      \/ Become(o, Again(Reset(me), "readable"))
  <2>1. CASE \E k \in {n, me.inbox} : k <= n /\ k <= me.inbox /\ Become(o, Again([me EXCEPT !.inbox = @ - k], "readable"))
    <3>1. PICK k \in {n, me.inbox} : k <= me.inbox /\ Become(o, Again([me EXCEPT !.inbox = @ - k], "readable"))
      BY <2>1
    <3>2. k \in 0..me.inbox
      BY <1>0, <3>1
    <3>3. Become(o, Again(Consumed(me, k), "readable"))
      BY <3>1 DEF Consumed
    <3>. QED
      BY <3>2, <3>3
  <2>2. CASE Become(o, Again([me EXCEPT !.inbox = @ - me.inbox], "readable"))
    <3>1. me.inbox \in 0..me.inbox
      BY <1>0
    <3>2. Become(o, Again(Consumed(me, me.inbox), "readable"))
      BY <2>2 DEF Consumed
    <3>. QED
      BY <3>1, <3>2
  <2>3. CASE \E res \in ReadResults(Drained(me)) : LET now == schedule_read(Drained(me), res) IN
               Become(o, IF me.inbox > 0 THEN Again(now, "readable") ELSE WouldBlock(now, "readable"))
    BY <2>3
  <2>4. CASE \E res \in ReadResults(Drained(me)) : Become(o, Again(schedule_read(Drained(me), res), "readable"))
    BY <2>4
  <2>5. CASE Become(o, Again([me EXCEPT !.rd = "error", !.inbox = 0, !.peer = "reset"], "readable"))
    BY <2>5 DEF Reset
  <2>. QED
    BY <2>1, <2>2, <2>3, <2>4, <2>5 DEF ReadvLoop, Drained
<1>. QED
  BY <1>1, <1>2, <1>3, <1>4

LEMMA StreamReadKeeps ==
  ASSUME NEW o \in Streams, NEW n \in 1..2, o \in DOMAIN obj, Good(o, obj[o]), StreamRead(o, n)
  PROVE  Keeps(o)
<1>. DEFINE me == obj[o]
<1>0. Sound(o, me) /\ Asked(me) /\ Output(o, me) /\ me \in Object /\ me.inbox \in Nat
  BY Typed DEF Good, Sound
<1>1. CASE me.rd \in {"empty", "pending"} /\ Become(o, WouldBlock(me, "readable"))
  BY <1>1, NothingToRead DEF Keeps
<1>2. CASE me.rd = "error" /\ \E res \in ReadResults(me) : Become(o, Again(schedule_read([me EXCEPT !.rd = "empty"], res), "readable"))
  <2>1. PICK res \in ReadResults(me) : Become(o, Again(schedule_read(Taken(me), res), "readable"))
    BY <1>2 DEF Taken
  <2>. DEFINE x == Taken(me)
              now == schedule_read(x, res)
  <2>2. InputOnly(me, x) /\ x.rd = "empty" /\ x.inbox = me.inbox
    BY <1>0, InputRecords
  <2>3. Sound(o, x) /\ Asked(x) /\ Output(o, x) /\ x.bound /\ "connect" \notin Outstanding(x)
    BY <1>0, <1>2, <2>2, InputSound
  <2>4. res \in Results
    BY ReadResultsType
  <2>5. Sound(o, now) /\ Reading(x, now) /\ Underway(now)
    BY <2>3, <2>4, ScheduleRead
  <2>6. Good(o, Again(now, "readable"))
    BY <2>3, <2>5, Scheduled
  <2>. QED
    BY <2>1, <2>6 DEF Keeps
<1>3. CASE me.rd = "ready" /\ ReadvLoop(o, n)
  BY <1>3, ReadvLoopKeeps
<1>. QED
  BY <1>1, <1>2, <1>3 DEF StreamRead

LEMMA AcceptKeeps ==
  ASSUME NEW o, o \in DOMAIN obj, Good(o, obj[o]), Accept(o)
  PROVE  Keeps(o)
<1>. DEFINE me == obj[o]
            x == Taken(me)
<1>0. Sound(o, me) /\ Asked(me) /\ Output(o, me) /\ me \in Object /\ me.inbox \in Nat
  BY Typed DEF Good, Sound
<1>1. CASE me.rd \in {"empty", "pending"} /\ Become(o, WouldBlock(me, "readable"))
  BY <1>1, NothingToRead DEF Keeps
<1>2. CASE me.rd \in {"ready", "error"} /\ \E res \in AcceptResults : Become(o, Again(schedule_accept(x, res), "readable"))
  <2>1. PICK res \in AcceptResults : Become(o, Again(schedule_accept(x, res), "readable"))
    BY <1>2
  <2>. DEFINE now == schedule_accept(x, res)
  <2>2. InputOnly(me, x) /\ x.rd = "empty" /\ x.inbox = me.inbox /\ x.peer = me.peer
    BY <1>0, InputRecords
  <2>3. Sound(o, x) /\ Asked(x) /\ Output(o, x) /\ x.bound /\ "connect" \notin Outstanding(x)
    BY <1>0, <1>2, <2>2, InputSound
  <2>4. Sound(o, now) /\ Reading(x, now) /\ Underway(now)
    BY <2>2, <2>3, ScheduleAccept
  <2>5. Good(o, Again(now, "readable"))
    BY <2>3, <2>4, Scheduled
  <2>. QED
    BY <2>1, <2>5 DEF Keeps
<1>3. CASE me.rd = "ready" /\ Become(o, Again(Deaf(me), "readable"))
  <2>1. /\ InputOnly(me, Deaf(me)) /\ Deaf(me).rd = "empty" /\ Deaf(me).inbox = me.inbox
        /\ Deaf(me).peer = me.peer /\ Deaf(me).deaf
    BY <1>0, InputRecords
  <2>2. Sound(o, Deaf(me)) /\ Asked(Deaf(me)) /\ Output(o, Deaf(me))
    BY <1>0, <1>3, <2>1, InputSound
  <2>3. Good(o, Again(Deaf(me), "readable"))
    BY <2>1, <2>2, ToldRead
  <2>. QED
    BY <1>3, <2>3 DEF Keeps
<1>. QED
  BY <1>1, <1>2, <1>3 DEF Accept, Deaf, Taken

LEMMA RecvFromKeeps ==
  ASSUME NEW o, o \in DOMAIN obj, Good(o, obj[o]), PoolOK, RecvFrom(o)
  PROVE  Keeps(o) /\ PoolOK'
<1>. DEFINE me == obj[o]
            x == Taken(me)
            bufs == IF me.rd = "ready" THEN put_buffer(pool, me.rbuf) ELSE pool
<1>0. Sound(o, me) /\ Asked(me) /\ Output(o, me) /\ me \in Object /\ me.inbox \in Nat /\ me.rbuf \in Capacity
  BY Typed DEF Good, Sound
<1>1. CASE me.rd \in {"empty", "pending"} /\ Become(o, WouldBlock(me, "readable")) /\ UNCHANGED pool
  BY <1>1, NothingToRead DEF Keeps, PoolOK
<1>2. CASE me.rd = "ready" /\ Become(o, Again(me, "readable")) /\ UNCHANGED pool
  BY <1>0, <1>2, ToldRead DEF Keeps, PoolOK
<1>3. CASE me.rd \in {"ready", "error"} /\ \E res \in UdpResults :
             /\ Become(o, Again(udp_schedule_read(x, get_buffer(bufs, "big"), res), "readable"))
             /\ pool' = UdpReadPool(bufs, res)
  <2>1. PICK res \in UdpResults : /\ Become(o, Again(udp_schedule_read(x, get_buffer(bufs, "big"), res), "readable"))
                                  /\ pool' = UdpReadPool(bufs, res)
    BY <1>3
  <2>. DEFINE buf == get_buffer(bufs, "big")
              now == udp_schedule_read(x, buf, res)
  <2>2. bufs \in Seq(Capacity) /\ Len(bufs) <= PoolCap
    BY <1>0, Buffers DEF PoolOK
  <2>. HIDE DEF bufs
  <2>3. buf \in Capacity /\ PoolRest(bufs) \in Seq(Capacity) /\ Len(PoolRest(bufs)) <= PoolCap
    BY <2>2, Buffers, SomeCapacity
  <2>4. PoolOK'
    <3>1. put_buffer(PoolRest(bufs), buf) \in Seq(Capacity) /\ Len(put_buffer(PoolRest(bufs), buf)) <= PoolCap
      BY <2>3, Buffers
    <3>. QED
      BY <2>1, <2>3, <3>1 DEF PoolOK, UdpReadPool
  <2>5. InputOnly(me, x) /\ x.rd = "empty" /\ x.inbox = me.inbox /\ x.peer = me.peer
    BY <1>0, InputRecords
  <2>6. Sound(o, x) /\ Asked(x) /\ Output(o, x) /\ x.bound /\ "connect" \notin Outstanding(x)
    BY <1>0, <1>3, <2>5, InputSound
  <2>7. Sound(o, now) /\ Reading(x, now) /\ Underway(now)
    BY <2>3, <2>5, <2>6, UdpScheduleRead
  <2>8. Good(o, Again(now, "readable"))
    BY <2>6, <2>7, Scheduled
  <2>. QED
    BY <2>1, <2>4, <2>8 DEF Keeps
<1>. QED
  BY <1>1, <1>2, <1>3 DEF RecvFrom, Taken

Filled(me, buf) == [me EXCEPT !.wbuf = buf]
SendBegun(c) == [c EXCEPT !.wr = "pending"]

LEMMA FilledRecord ==
  ASSUME NEW me \in Object, NEW buf \in Capacity, NEW m, m = Filled(me, buf)
  PROVE  /\ m \in Object /\ SameFlight(me, m) /\ Writing(me, m)
         /\ m.sub = me.sub /\ m.interest = me.interest /\ m.told = me.told /\ m.deaf = me.deaf /\ m.note = me.note
<1>1. m \in Object
  BY Zenon DEF Object, Filled
<1>2. SameFlight(me, m)
  BY Zenon DEF Object, Filled, SameFlight
<1>3. m.sub = me.sub /\ m.interest = me.interest /\ m.told = me.told /\ m.deaf = me.deaf /\ m.note = me.note
  BY Zenon DEF Object, Filled
<1>4. Writing(me, m)
  BY <1>2, <1>3 DEF SameFlight, Writing
<1>. QED
  BY <1>1, <1>2, <1>3, <1>4

LEMMA SendRecord ==
  ASSUME NEW c \in Object, NEW m, m = Started(SendBegun(c), "write"),
         "pending" \in State, c.refs + 1 \in Nat, c.ops \cup {"write"} \in SUBSET Operation
  PROVE  m \in Object /\ Writing(c, m) /\ m.wr = "pending" /\ m.ops = c.ops \cup {"write"} /\ m.refs = c.refs + 1
<1>1. m \in Object
  BY Zenon DEF Object, Started, SendBegun
<1>2. /\ m.told = c.told /\ m.sub = c.sub /\ m.interest = c.interest /\ m.bound = c.bound /\ m.rd = c.rd
      /\ m.conn = c.conn /\ m.port = c.port /\ m.deaf = c.deaf /\ m.handle = c.handle
      /\ m.deferred = c.deferred /\ m.inbox = c.inbox /\ m.arrived = c.arrived /\ m.peer = c.peer
      /\ m.note = c.note /\ m.events = c.events
  BY Zenon DEF Object, Started, SendBegun
<1>3. m.wr = "pending" /\ m.ops = c.ops \cup {"write"} /\ m.refs = c.refs + 1
  BY Zenon DEF Object, Started, SendBegun
<1>. QED
  BY <1>1, <1>2, <1>3 DEF Writing

LEMMA StreamWriteKeeps ==
  ASSUME NEW o, NEW n \in 1..MaxOut, o \in DOMAIN obj, Good(o, obj[o]), PoolOK, StreamWrite(o, n)
  PROVE  Keeps(o) /\ PoolOK'
<1>. DEFINE me == obj[o]
            buf == get_buffer(pool, "small")
            x == Filled(me, buf)
<1>0. Sound(o, me) /\ Asked(me) /\ Heard(me) /\ me \in Object
  BY DEF Good, Sound
<1>1. buf \in Capacity /\ PoolRest(pool) \in Seq(Capacity) /\ Len(PoolRest(pool)) <= PoolCap
  BY Buffers, SomeCapacity DEF PoolOK
<1>2. CASE (me.wr # "empty" \/ ~me.bound) /\ Become(o, WouldBlock(me, "writable")) /\ UNCHANGED pool
  BY <1>2, BlockedWrite DEF Keeps, PoolOK
<1>3. CASE /\ me.wr = "empty" /\ me.bound
           /\ \E res \in WriteResults(me), left \in Remaining(me, n) :
                /\ Become(o, Again(schedule_write(x, left, res), "writable"))
                /\ pool' = AfterWrite(PoolRest(pool), buf, res)
  <2>1. PICK res \in WriteResults(me), left \in Remaining(me, n) :
                /\ Become(o, Again(schedule_write(x, left, res), "writable"))
                /\ pool' = AfterWrite(PoolRest(pool), buf, res)
    BY <1>3
  <2>2. left \in 0..MaxOut /\ res \in {"error", "done", "pending"}
    BY ReadResultsType, BoundsAssumption DEF Remaining
  <2>. HIDE DEF buf
  <2>3. PoolOK'
    BY <1>1, <2>1, Buffers DEF PoolOK, AfterWrite
  <2>4. /\ x \in Object /\ SameFlight(me, x) /\ Writing(me, x)
        /\ x.sub = me.sub /\ x.interest = me.interest /\ x.told = me.told /\ x.deaf = me.deaf /\ x.note = me.note
    BY <1>0, <1>1, FilledRecord
  <2>. DEFINE now == schedule_write(x, left, res)
  <2>. HIDE DEF x
  <2>5. Sound(o, x) /\ x.bound /\ x.wr = "empty"
    BY <1>0, <1>3, <2>4, SoundKept DEF SameFlight
  <2>6. "write" \notin Outstanding(x)
    BY <2>5 DEF Sound, Writes
  <2>7. Sound(o, now) /\ Writing(x, now)
    BY <2>2, <2>5, <2>6, ScheduleWrite DEF Sound
  <2>8. x.ops \subseteq now.ops
    BY <2>2, <2>4, <2>5, ScheduleWriteOps
  <2>. HIDE DEF now
  <2>9. Asked(now) /\ Heard(now)
    <3>1. Asked(x) /\ Heard(x)
      BY <1>0, <2>4, WritingKeeps DEF SameFlight
    <3>. QED
      BY <2>7, <2>8, <3>1, WritingKeeps
  <2>10. Good(o, Again(now, "writable"))
    BY <2>7, <2>9, ToldWrite
  <2>. QED
    BY <2>1, <2>3, <2>10 DEF Keeps, now
<1>. QED
  BY <1>2, <1>3 DEF StreamWrite, Filled

LEMMA SendToKeeps ==
  ASSUME NEW o, o \in DOMAIN obj, Good(o, obj[o]), PoolOK, SendTo(o)
  PROVE  Keeps(o) /\ PoolOK'
<1>. DEFINE me == obj[o]
            buf == get_buffer(pool, "big")
            c == clear_readiness(me, {"writable"})
            x == Filled(c, buf)
<1>0. Sound(o, me) /\ Asked(me) /\ Heard(me) /\ me \in Object
  BY DEF Good, Sound
<1>1. buf \in Capacity /\ PoolRest(pool) \in Seq(Capacity) /\ Len(PoolRest(pool)) <= PoolCap
  BY Buffers, SomeCapacity DEF PoolOK
<1>2. CASE (me.wr # "empty" \/ ~me.bound) /\ Become(o, WouldBlock(me, "writable")) /\ UNCHANGED pool
  BY <1>2, BlockedWrite DEF Keeps, PoolOK
<1>3. CASE /\ me.wr = "empty" /\ me.bound
           /\ \E res \in UdpResults :
                Become(o, Again(IF res = "error" THEN x ELSE Started(SendBegun(x), "write"), "writable"))
           /\ pool' = PoolRest(pool)
  <2>1. Become(o, Again(x, "writable")) \/ Become(o, Again(Started(SendBegun(x), "write"), "writable"))
    BY <1>3
  <2>2. PoolOK'
    BY <1>1, <1>3 DEF PoolOK
  <2>. HIDE DEF buf
  <2>3. c \in Object /\ SameBut(me, c) /\ c.events = me.events \ {"writable"} /\ (me.note => c.note)
    BY <1>0, <1>3, ClearReadiness
  <2>. HIDE DEF c
  <2>4. Writing(me, c) /\ c.wr = me.wr /\ c.ops = me.ops /\ c.refs = me.refs
    BY <2>3, SameIsWriting
  <2>5. x \in Object /\ SameFlight(c, x) /\ Writing(c, x)
    BY <1>1, <2>3, FilledRecord
  <2>. HIDE DEF x
  <2>6. Writing(me, x)
    BY <2>4, <2>5, WritingTrans
  <2>7. x.wr = "empty" /\ x.ops = me.ops /\ x.refs = me.refs /\ x.bound
    BY <1>3, <2>4, <2>5, <2>6 DEF SameFlight, Writing
  <2>8. Flight(o, me) /\ Counted(me) /\ "write" \notin Outstanding(me)
    BY <1>0, <1>3 DEF Sound, Writes
  <2>9. CASE Become(o, Again(x, "writable"))
    <3>1. Sound(o, x)
      BY <1>0, <1>3, <2>5, <2>6, <2>7, <2>8, WriteKnown
    <3>2. Asked(x) /\ Heard(x)
      BY <1>0, <2>6, <2>7, WritingKeeps
    <3>3. Good(o, Again(x, "writable"))
      BY <3>1, <3>2, ToldWrite
    <3>. QED
      BY <2>2, <2>9, <3>3 DEF Keeps
  <2>10. CASE Become(o, Again(Started(SendBegun(x), "write"), "writable"))
    <3>. DEFINE now == Started(SendBegun(x), "write")
    <3>1. "pending" \in State /\ x.refs + 1 \in Nat /\ x.ops \cup {"write"} \in SUBSET Operation
      BY <2>5, Typed DEF State, Operation
    <3>2. now \in Object /\ Writing(x, now) /\ now.wr = "pending" /\ now.ops = x.ops \cup {"write"} /\ now.refs = x.refs + 1
      BY <2>5, <3>1, SendRecord
    <3>. HIDE DEF now
    <3>3. Writing(me, now)
      BY <2>6, <3>2, WritingTrans
    <3>4. Sound(o, now)
      BY <1>0, <1>3, <2>7, <2>8, <3>2, <3>3, WriteStarted
    <3>5. Asked(now) /\ Heard(now)
      BY <1>0, <2>7, <3>2, <3>3, WritingKeeps
    <3>6. Good(o, Again(now, "writable"))
      BY <3>4, <3>5, ToldWrite
    <3>. QED
      BY <2>2, <2>10, <3>6 DEF Keeps, now
  <2>. QED
    BY <2>1, <2>9, <2>10
<1>. QED
  BY <1>2, <1>3 DEF SendTo, Filled, SendBegun

LEMMA ListenerRegisterKeeps ==
  ASSUME NEW o \in Listeners, NEW i \in Interests, NEW m \in Modes, o \in DOMAIN obj, Good(o, obj[o]),
         ListenerRegister(o, i, m)
  PROVE  Keeps(o)
<1>. DEFINE old == obj[o]
            reg == register_socket(old, i, m)
            me == Notifies(reg)
<1>0. Sound(o, old) /\ ~old.bound /\ old \in Object
  BY DEF ListenerRegister, Good, Sound
<1>1. /\ i \in SUBSET {"readable", "writable"} /\ m \in {"edge", "level", "oneshot"}
      /\ Watched(i) \in SUBSET Ready /\ i \subseteq Watched(i)
  BY CallTypes
<1>2. \/ Become(o, reg)
      \/ \E res \in AcceptResults : Become(o, Subscribed(schedule_accept(me, res), i))
  BY DEF ListenerRegister, Notifies, Subscribed
<1>3. /\ reg \in Object /\ Bound(old, reg) /\ (reg.deferred => old.deferred) /\ reg.interest = Watched(i)
      /\ me \in Object /\ Bound(old, me) /\ me.interest = Watched(i) /\ (me.deferred => old.deferred)
  BY <1>0, <1>1, BoundRecords
<1>. HIDE DEF me, reg
<1>4. CASE Become(o, reg)
  <2>1. Good(o, reg)
    BY <1>0, <1>3, OnlyBound
  <2>. QED
    BY <1>4, <2>1 DEF Keeps
<1>5. CASE \E res \in AcceptResults : Become(o, Subscribed(schedule_accept(me, res), i))
  <2>1. PICK res \in AcceptResults : Become(o, Subscribed(schedule_accept(me, res), i))
    BY <1>5
  <2>. DEFINE x == schedule_accept(me, res)
  <2>2. Sound(o, me) /\ me.bound /\ me.rd = "empty" /\ Outstanding(me) = {}
    BY <1>0, <1>3, BoundSound
  <2>3. Sound(o, x) /\ Reading(me, x) /\ Underway(x)
    BY <2>2, ScheduleAccept
  <2>. HIDE DEF x
  <2>4. x.bound /\ i \subseteq x.interest
    BY <1>1, <1>3, <2>2, <2>3 DEF Reading
  <2>5. Good(o, Subscribed(x, i))
    BY <1>1, <2>3, <2>4, Subscribe
  <2>. QED
    BY <2>1, <2>5 DEF Keeps, x
<1>. QED
  BY <1>2, <1>4, <1>5

LEMMA ListenerReregisterKeeps ==
  ASSUME NEW o \in Listeners, NEW i \in Interests, NEW m \in Modes, o \in DOMAIN obj, Good(o, obj[o]),
         ListenerReregister(o, i, m)
  PROVE  Keeps(o)
<1>. DEFINE me == reregister_socket(obj[o], i, m)
<1>0. Sound(o, obj[o]) /\ obj[o].bound /\ obj[o] \in Object
  BY DEF ListenerReregister, Good, Sound
<1>1. /\ i \in SUBSET {"readable", "writable"} /\ m \in {"edge", "level", "oneshot"}
      /\ Watched(i) \in SUBSET Ready /\ i \subseteq Watched(i)
  BY CallTypes
<1>2. me \in Object /\ SameFlight(obj[o], me) /\ me.interest = Watched(i) /\ (obj[o].events # {} => me.note)
  BY <1>0, <1>1, ReregisterRecord DEF Reregistered
<1>3. PICK res \in AcceptResults : Become(o, Undeafened(schedule_accept(me, res), i))
  BY DEF ListenerReregister, Undeafened
<1>. HIDE DEF me
<1>4. Sound(o, me) /\ me.bound
  BY <1>0, <1>2, SoundKept DEF SameFlight
<1>5. "connect" \notin Outstanding(me)
  BY <1>4, ObjectsAssumption DEF Sound, Flight
<1>. DEFINE x == schedule_accept(me, res)
<1>6. Sound(o, x) /\ x.bound /\ x.interest = me.interest /\ Underway(x)
  <2>1. CASE me.rd = "empty"
    <3>1. Sound(o, x) /\ Reading(me, x) /\ Underway(x)
      BY <1>4, <1>5, <2>1, ScheduleAccept
    <3>. QED
      BY <1>4, <3>1 DEF Reading
  <2>2. CASE me.rd # "empty"
    <3>1. x = me
      BY <2>2 DEF schedule_accept
    <3>2. me.rd \in State
      BY <1>2, Typed
    <3>3. me.rd \in {"ready", "error"} => me.note
      BY <1>2, <1>4 DEF Sound, Flight, SameFlight
    <3>. QED
      BY <1>4, <2>2, <3>1, <3>2, <3>3 DEF Underway, State
  <2>. QED
    BY <2>1, <2>2
<1>. HIDE DEF x
<1>7. Good(o, Undeafened(x, i))
  BY <1>1, <1>2, <1>6, Subscribe
<1>. QED
  BY <1>3, <1>7 DEF Keeps, x

LEMMA UdpPostRegisterKeeps ==
  ASSUME NEW o \in Udps, NEW me, Sound(o, me), me.bound, me.rd \in {"ready", "error"} => me.note,
         NEW i \in SUBSET {"readable", "writable"}, i \subseteq me.interest, PoolOK, UdpPostRegister(o, me, i)
  PROVE  Keeps(o) /\ PoolOK'
<1>. DEFINE write(r) == IF "writable" \in i /\ r.wr = "empty" THEN add_readiness(r, {"writable"}) ELSE r
<1>1. ASSUME NEW r, Sound(o, r), r.bound, r.interest = me.interest, "readable" \in i => Underway(r)
      PROVE  Good(o, Subscribed(write(r), i))
  <2>. DEFINE x == write(r)
  <2>1. /\ Sound(o, x) /\ x.bound /\ x.interest = me.interest
        /\ "readable" \in i => Underway(x)
        /\ "writable" \in i /\ x.wr = "empty" => x.note /\ "writable" \in x.events
    <3>1. CASE "writable" \in i /\ r.wr = "empty"
      <4>1. x = add_readiness(r, {"writable"})
        BY <3>1
      <4>. HIDE DEF x
      <4>2. Sound(o, x) /\ SameBut(r, x) /\ x.events = r.events \cup {"writable"} /\ x.note
        BY <1>1, <4>1, AddWritable
      <4>. QED
        BY <1>1, <4>2 DEF SameBut, Underway
    <3>2. CASE ~("writable" \in i /\ r.wr = "empty")
      BY <1>1, <3>2
    <3>. QED
      BY <3>1, <3>2
  <2>. HIDE DEF x
  <2>2. Good(o, Subscribed(x, i))
    BY <2>1, Subscribe
  <2>. QED
    BY <2>2 DEF x
<1>2. "connect" \notin Outstanding(me)
  BY ObjectsAssumption DEF Sound, Flight
<1>3. CASE /\ "readable" \in i /\ me.rd = "empty"
           /\ \E res \in UdpResults :
                /\ Become(o, Subscribed(write(udp_schedule_read(me, get_buffer(pool, "big"), res)), i))
                /\ pool' = UdpReadPool(pool, res)
  <2>. DEFINE buf == get_buffer(pool, "big")
  <2>1. PICK res \in UdpResults : /\ Become(o, Subscribed(write(udp_schedule_read(me, buf, res)), i))
                                  /\ pool' = UdpReadPool(pool, res)
    BY <1>3
  <2>2. buf \in Capacity /\ PoolRest(pool) \in Seq(Capacity) /\ Len(PoolRest(pool)) <= PoolCap
    BY Buffers, SomeCapacity DEF PoolOK
  <2>3. PoolOK'
    <3>1. put_buffer(PoolRest(pool), buf) \in Seq(Capacity) /\ Len(put_buffer(PoolRest(pool), buf)) <= PoolCap
      BY <2>2, Buffers
    <3>. QED
      BY <2>1, <2>2, <3>1 DEF PoolOK, UdpReadPool
  <2>. DEFINE r == udp_schedule_read(me, buf, res)
  <2>4. Sound(o, r) /\ Reading(me, r) /\ Underway(r)
    BY <1>2, <1>3, <2>2, UdpScheduleRead
  <2>5. r.bound /\ r.interest = me.interest
    BY <2>4 DEF Reading
  <2>. HIDE DEF r, buf
  <2>6. Good(o, Subscribed(write(r), i))
    BY <1>1, <2>4, <2>5
  <2>7. Become(o, Subscribed(write(r), i))
    BY <2>1 DEF r
  <2>. HIDE DEF write
  <2>. QED
    BY <2>3, <2>6, <2>7 DEF Keeps
<1>4. CASE /\ ~("readable" \in i /\ me.rd = "empty")
           /\ Become(o, Subscribed(write(me), i))
           /\ UNCHANGED pool
  <2>1. "readable" \in i => Underway(me)
    <3>1. me.rd \in State
      BY Typed DEF Sound
    <3>. QED
      BY <1>4, <3>1 DEF Underway, State
  <2>2. Good(o, Subscribed(write(me), i))
    BY <1>1, <2>1
  <2>. HIDE DEF write
  <2>. QED
    BY <1>4, <2>2 DEF Keeps, PoolOK
<1>. QED
  BY <1>3, <1>4 DEF UdpPostRegister, Subscribed

LEMMA UdpRegisterKeeps ==
  ASSUME NEW o \in Udps, NEW i \in Interests, NEW m \in Modes, o \in DOMAIN obj, Good(o, obj[o]), PoolOK,
         UdpRegister(o, i, m)
  PROVE  Keeps(o) /\ PoolOK'
<1>. DEFINE old == obj[o]
            me == register_socket(old, i, m)
<1>0. Sound(o, old) /\ ~old.bound /\ old \in Object
  BY DEF UdpRegister, Good, Sound
<1>1. /\ i \in SUBSET {"readable", "writable"} /\ m \in {"edge", "level", "oneshot"}
      /\ Watched(i) \in SUBSET Ready /\ i \subseteq Watched(i)
  BY CallTypes
<1>2. me \in Object /\ Bound(old, me) /\ me.interest = Watched(i) /\ (me.deferred => old.deferred)
  BY <1>0, <1>1, BoundRecords
<1>3. UdpPostRegister(o, me, i)
  BY DEF UdpRegister
<1>. HIDE DEF me
<1>4. Sound(o, me) /\ me.bound /\ me.rd = "empty"
  BY <1>0, <1>2, BoundSound
<1>. QED
  BY <1>1, <1>2, <1>3, <1>4, UdpPostRegisterKeeps

LEMMA UdpReregisterKeeps ==
  ASSUME NEW o \in Udps, NEW i \in Interests, NEW m \in Modes, o \in DOMAIN obj, Good(o, obj[o]), PoolOK,
         UdpReregister(o, i, m)
  PROVE  Keeps(o) /\ PoolOK'
<1>. DEFINE me == reregister_socket(obj[o], i, m)
<1>0. Sound(o, obj[o]) /\ obj[o].bound /\ obj[o] \in Object
  BY DEF UdpReregister, Good, Sound
<1>1. /\ i \in SUBSET {"readable", "writable"} /\ m \in {"edge", "level", "oneshot"}
      /\ Watched(i) \in SUBSET Ready /\ i \subseteq Watched(i)
  BY CallTypes
<1>2. me \in Object /\ SameFlight(obj[o], me) /\ me.interest = Watched(i) /\ (obj[o].events # {} => me.note)
  BY <1>0, <1>1, ReregisterRecord DEF Reregistered
<1>3. UdpPostRegister(o, me, i)
  BY DEF UdpReregister
<1>. HIDE DEF me
<1>4. Sound(o, me) /\ me.bound
  BY <1>0, <1>2, SoundKept DEF SameFlight
<1>5. me.rd \in {"ready", "error"} => me.note
  BY <1>2, <1>4 DEF Sound, Flight, SameFlight
<1>. QED
  BY <1>1, <1>2, <1>3, <1>4, <1>5, UdpPostRegisterKeeps

LEMMA DeregisterKeeps ==
  ASSUME NEW o, o \in DOMAIN obj, Good(o, obj[o]), Deregister(o)
  PROVE  Keeps(o)
<1>. DEFINE me == reregister_socket(obj[o], {}, "level")
<1>0. Sound(o, obj[o]) /\ obj[o].bound /\ obj[o] \in Object
  BY DEF Deregister, Good, Sound
<1>1. Watched({}) \in SUBSET Ready
  BY WatchedType
<1>2. me \in Object /\ SameFlight(obj[o], me)
  BY <1>0, <1>1, ReregisterRecord DEF Reregistered
<1>3. Become(o, Subscribed(me, {}))
  BY DEF Deregister, Subscribed
<1>. HIDE DEF me
<1>4. Sound(o, me) /\ me.bound
  BY <1>0, <1>2, SoundKept DEF SameFlight
<1>5. Good(o, Subscribed(me, {}))
  BY <1>4, Subscribe
<1>. QED
  BY <1>3, <1>5 DEF Keeps

\* The record after a poll, which may look at it again or not.
Polled(me, t, i, mo, s) == [me EXCEPT !.note = FALSE, !.told = t, !.interest = i, !.mode = mo, !.sub = s]
PolledStays(me, t, i, mo, s) == [me EXCEPT !.note = TRUE, !.told = t, !.interest = i, !.mode = mo, !.sub = s]

\* What a poll leaves: everything subscribed that is there has been told.
Tells(me, t, i, mo, s) ==
  /\ t \in SUBSET {"readable", "writable"} /\ i \in SUBSET Ready
  /\ mo \in {"edge", "level", "oneshot"} /\ s \in SUBSET {"readable", "writable"}
  /\ "readable" \in s /\ "readable" \in me.events => "readable" \in t
  /\ "writable" \in s /\ "writable" \in me.events => "writable" \in t
  /\ me.told \subseteq t /\ s \subseteq me.sub /\ s \subseteq i

LEMMA PolledGood ==
  ASSUME NEW o, NEW me, Good(o, me), NEW t, NEW i, NEW mo, NEW s, Tells(me, t, i, mo, s),
         NEW m, m = Polled(me, t, i, mo, s) \/ m = PolledStays(me, t, i, mo, s)
  PROVE  Good(o, m)
<1>. /\ t \in SUBSET {"readable", "writable"} /\ i \in SUBSET Ready
     /\ mo \in {"edge", "level", "oneshot"} /\ s \in SUBSET {"readable", "writable"}
     /\ "readable" \in s /\ "readable" \in me.events => "readable" \in t
     /\ "writable" \in s /\ "writable" \in me.events => "writable" \in t
     /\ me.told \subseteq t /\ s \subseteq me.sub /\ s \subseteq i
  BY DEF Tells
<1>0. Sound(o, me) /\ me \in Object
  BY DEF Good, Sound
<1>4. m \in Object /\ SameFlight(me, m) /\ m.told = t /\ m.interest = i /\ m.sub = s /\ m.deaf = me.deaf
  <2>1. CASE m = Polled(me, t, i, mo, s)
    <3>1. m \in Object
      BY <1>0, <2>1, ZenonT(30) DEF Object, Polled
    <3>2. SameFlight(me, m)
      BY <1>0, <2>1, Zenon DEF Object, Polled, SameFlight
    <3>3. m.told = t /\ m.interest = i /\ m.sub = s /\ m.deaf = me.deaf
      BY <1>0, <2>1, Zenon DEF Object, Polled
    <3>. QED
      BY <3>1, <3>2, <3>3
  <2>2. CASE m = PolledStays(me, t, i, mo, s)
    <3>1. m \in Object
      BY <1>0, <2>2, Zenon DEF Object, PolledStays
    <3>2. SameFlight(me, m)
      BY <1>0, <2>2, Zenon DEF Object, PolledStays, SameFlight
    <3>3. m.told = t /\ m.interest = i /\ m.sub = s /\ m.deaf = me.deaf
      BY <1>0, <2>2, Zenon DEF Object, PolledStays
    <3>. QED
      BY <3>1, <3>2, <3>3
  <2>. QED
    BY <2>1, <2>2
<1>5. Sound(o, m)
  BY <1>0, <1>4, SoundKept
<1>6. Asked(m)
  BY <1>4 DEF SameFlight, Good, Asked
<1>7. Heard(m)
  <2>1. me.rd \in {"ready", "error"} => "readable" \in me.events
    BY <1>0 DEF Sound, Flight
  <2>. QED
    BY <1>4, <2>1 DEF SameFlight, Good, Heard, Outstanding
<1>8. Output(o, m)
  BY <1>4 DEF SameFlight, Good, Output
<1>. QED
  BY <1>5, <1>6, <1>7, <1>8 DEF Good

LEMMA PollEventKeeps ==
  ASSUME NEW o, o \in DOMAIN obj, Good(o, obj[o]), PollEvent(o)
  PROVE  Keeps(o)
<1>. DEFINE me == obj[o]
            evs == me.events \cap me.interest
            off == me.mode = "oneshot" /\ evs # {}
            told == me.told \cup (evs \ {"hup"})
            interest == IF off THEN {} ELSE me.interest
            mode == IF off THEN "level" ELSE me.mode
            sub == IF off THEN {} ELSE me.sub
<1>0. Good(o, me) /\ Sound(o, me) /\ me \in Object
  BY DEF Good, Sound
<1>1. Become(o, Polled(me, told, interest, mode, sub)) \/ Become(o, PolledStays(me, told, interest, mode, sub))
  <2>1. PICK b \in BOOLEAN : Become(o, [me EXCEPT !.note = b, !.told = told, !.interest = interest, !.mode = mode, !.sub = sub])
    BY DEF PollEvent
  <2>2. b = TRUE \/ b = FALSE
    BY <2>1
  <2>. QED
    BY <2>1, <2>2 DEF Polled, PolledStays
<1>2. /\ told \in SUBSET {"readable", "writable"} /\ interest \in SUBSET Ready /\ sub \in SUBSET {"readable", "writable"}
      /\ mode \in {"edge", "level", "oneshot"}
  <2>1. me.mode \in {"edge", "level", "oneshot"}
    BY <1>0, Zenon DEF Object
  <2>. QED
    BY <1>0, <2>1, Typed DEF Ready
<1>3. /\ "readable" \in sub /\ "readable" \in me.events => "readable" \in told
      /\ "writable" \in sub /\ "writable" \in me.events => "writable" \in told
      /\ me.told \subseteq told /\ sub \subseteq me.sub /\ sub \subseteq interest
  BY <1>0 DEF Good, Asked
<1>. HIDE DEF me, told, interest, mode, sub
<1>4. PICK m : /\ m = Polled(me, told, interest, mode, sub) \/ m = PolledStays(me, told, interest, mode, sub)
               /\ Become(o, m)
  BY <1>1
<1>5. Tells(me, told, interest, mode, sub)
  BY <1>2, <1>3 DEF Tells
<1>6. Good(o, m)
  BY <1>0, <1>4, <1>5, PolledGood
<1>. QED
  BY <1>4, <1>6 DEF Keeps

-----------------------------------------------------------------------------
(* The program.                                                            *)

Inv ==
  /\ DOMAIN obj \in Programs
  /\ \A o \in DOMAIN obj : Good(o, obj[o])
  /\ PoolOK

LEMMA FreshGood ==
  ASSUME NEW o, NEW me \in Object, me.rd = "empty", me.wr = "empty", me.ops = {}, me.port = {}, me.refs = 1, me.handle,
         me.deferred => me.conn = "down", me.inbox = 0, me.arrived = 0, me.peer = "open", me.sub = {}
  PROVE  Good(o, me)
<1>1. Outstanding(me) = {}
  BY DEF Outstanding
<1>2. Flight(o, me)
  BY <1>1 DEF Flight
<1>3. Counted(me)
  BY <1>1, FS_EmptySet DEF Counted
<1>4. Writes(me)
  BY <1>1 DEF Writes
<1>5. Asked(me) /\ Heard(me) /\ Output(o, me)
  BY DEF Asked, Heard, Output
<1>. QED
  BY <1>2, <1>3, <1>4, <1>5 DEF Good, Sound

LEMMA NewRecords ==
  ASSUME NEW me, me \in {NewObject, NewStream(TRUE), NewStream(FALSE)}
  PROVE  /\ me \in Object /\ me.rd = "empty" /\ me.wr = "empty" /\ me.ops = {} /\ me.port = {} /\ me.refs = 1 /\ me.handle
         /\ (me.deferred => me.conn = "down") /\ me.inbox = 0 /\ me.arrived = 0 /\ me.peer = "open" /\ me.sub = {}
<1>0. 0 \in 0..MaxIn /\ 0 \in 0..MaxOut /\ 1 \in Nat /\ "empty" \in State /\ "big" \in Capacity /\ "small" \in Capacity
  BY BoundsAssumption DEF State, Capacity
<1>1. CASE me = NewObject
  <2>1. me \in Object
    BY <1>0, <1>1 DEF NewObject, Object
  <2>2. /\ me.rd = "empty" /\ me.wr = "empty" /\ me.ops = {} /\ me.port = {} /\ me.refs = 1 /\ me.handle = TRUE
        /\ me.deferred = FALSE /\ me.inbox = 0 /\ me.arrived = 0 /\ me.peer = "open" /\ me.sub = {}
    BY <1>1, Zenon DEF NewObject
  <2>. QED
    BY <2>1, <2>2
<1>2. NewObject \in Object
  BY <1>0 DEF NewObject, Object
<1>3. CASE me = NewStream(TRUE)
  <2>1. me = [NewObject EXCEPT !.deferred = TRUE, !.conn = "down"]
    BY <1>3 DEF NewStream
  <2>2. me \in Object
    BY <1>2, <2>1, ZenonT(30) DEF Object
  <2>3. /\ me.rd = "empty" /\ me.wr = "empty" /\ me.ops = {} /\ me.port = {} /\ me.refs = 1 /\ me.handle = TRUE
        /\ me.conn = "down" /\ me.inbox = 0 /\ me.arrived = 0 /\ me.peer = "open" /\ me.sub = {}
    BY <2>1 DEF NewObject
  <2>. QED
    BY <2>2, <2>3
<1>4. CASE me = NewStream(FALSE)
  <2>1. me = [NewObject EXCEPT !.deferred = FALSE, !.conn = "up"]
    BY <1>4 DEF NewStream
  <2>2. me \in Object
    BY <1>2, <2>1, Zenon DEF Object
  <2>3. /\ me.rd = "empty" /\ me.wr = "empty" /\ me.ops = {} /\ me.port = {} /\ me.refs = 1 /\ me.handle = TRUE
        /\ me.deferred = FALSE /\ me.inbox = 0 /\ me.arrived = 0 /\ me.peer = "open" /\ me.sub = {}
    BY <2>1 DEF NewObject
  <2>. QED
    BY <2>2, <2>3
<1>. QED
  BY <1>1, <1>3, <1>4

LEMMA InitInv == Init => Inv
<1>. SUFFICES ASSUME Init PROVE Inv
  OBVIOUS
<1>1. PICK p \in Programs :
        obj \in {f \in [p -> UNION {NewObjects(o) : o \in p}] : \A o \in p : f[o] \in NewObjects(o)}
  BY DEF Init
<1>2. DOMAIN obj = p /\ \A o \in p : obj[o] \in NewObjects(o)
  BY <1>1
<1>3. ASSUME NEW o \in p PROVE Good(o, obj[o])
  <2>1. o \in Streams \/ o \in Listeners \/ o \in Udps
    BY <1>1, <1>3, ProgramsAssumption
  <2>2. NewObjects(o) \subseteq {NewObject, NewStream(TRUE), NewStream(FALSE)}
    BY <2>1 DEF NewObjects, NewListener, NewUdp
  <2>3. obj[o] \in {NewObject, NewStream(TRUE), NewStream(FALSE)}
    BY <1>2, <1>3, <2>2
  <2>. QED
    BY <2>3, NewRecords, FreshGood
<1>4. PoolOK
  BY BoundsAssumption DEF Init, PoolOK
<1>. QED
  BY <1>1, <1>2, <1>3, <1>4 DEF Inv

LEMMA BecomeInv ==
  ASSUME Inv, NEW o \in DOMAIN obj, Keeps(o), PoolOK'
  PROVE  Inv'
<1>1. PICK n : Good(o, n) /\ obj' = [obj EXCEPT ![o] = n]
  BY DEF Keeps, Become
<1>2. DOMAIN obj' = DOMAIN obj /\ obj'[o] = n /\ \A q \in DOMAIN obj : q # o => obj'[q] = obj[q]
  BY <1>1
<1>3. ASSUME NEW q \in DOMAIN obj' PROVE Good(q, obj'[q])
  BY <1>1, <1>2, <1>3 DEF Inv
<1>. QED
  BY <1>2, <1>3 DEF Inv

LEMMA NextInv ==
  ASSUME ~Impatient, Inv, Next
  PROVE  Inv'
<1>0. \A o \in DOMAIN obj : Good(o, obj[o])
  BY DEF Inv
<1>1. PoolOK
  BY DEF Inv
<1>2. ASSUME pool' = pool PROVE PoolOK'
  BY <1>1, <1>2 DEF PoolOK
<1>3. ASSUME NEW o \in Streams, StreamCall(o) \/ FinishConnect(o) \/ Hangup(o)
      PROVE  Inv'
  <2>1. o \in DOMAIN obj /\ Good(o, obj[o])
    BY <1>0, <1>3 DEF StreamCall, StreamRegister, StreamReregister, StreamWrite, StreamDrop, FinishConnect, Hangup, Held, InProgress
  <2>2. Keeps(o) /\ PoolOK'
    <3>1. CASE \E i \in Interests, m \in Modes : StreamRegister(o, i, m) \/ StreamReregister(o, i, m)
      BY <1>2, <2>1, <3>1, StreamRegisterKeeps, StreamReregisterKeeps DEF StreamRegister, StreamReregister
    <3>2. CASE \E n \in 1..MaxOut : StreamWrite(o, n)
      BY <1>1, <2>1, <3>2, StreamWriteKeeps
    <3>3. CASE StreamDrop(o)
      BY <1>2, <2>1, <3>3, DropKeeps DEF StreamDrop
    <3>4. CASE FinishConnect(o)
      BY <1>2, <2>1, <3>4, FinishConnectKeeps DEF FinishConnect
    <3>5. CASE Hangup(o)
      BY <1>2, <2>1, <3>5, HangupKeeps DEF Hangup
    <3>. QED
      BY <1>3, <3>1, <3>2, <3>3, <3>4, <3>5 DEF StreamCall
  <2>. QED
    BY <2>1, <2>2, BecomeInv
<1>4. ASSUME NEW o \in Listeners, ListenerCall(o)
      PROVE  Inv'
  <2>1. o \in DOMAIN obj /\ Good(o, obj[o])
    BY <1>0, <1>4 DEF ListenerCall, ListenerRegister, ListenerReregister, ListenerDrop, Held
  <2>2. Keeps(o) /\ PoolOK'
    <3>1. CASE \E i \in Interests, m \in Modes : ListenerRegister(o, i, m) \/ ListenerReregister(o, i, m)
      BY <1>2, <2>1, <3>1, ListenerRegisterKeeps, ListenerReregisterKeeps DEF ListenerRegister, ListenerReregister
    <3>2. CASE ListenerDrop(o)
      BY <1>2, <2>1, <3>2, DropKeeps DEF ListenerDrop
    <3>. QED
      BY <1>4, <3>1, <3>2 DEF ListenerCall
  <2>. QED
    BY <2>1, <2>2, BecomeInv
<1>5. ASSUME NEW o \in Udps, UdpCall(o)
      PROVE  Inv'
  <2>1. o \in DOMAIN obj /\ Good(o, obj[o])
    BY <1>0, <1>5 DEF UdpCall, UdpRegister, UdpReregister, SendTo, UdpDrop, Held
  <2>2. Keeps(o) /\ PoolOK'
    <3>1. CASE \E i \in Interests, m \in Modes : UdpRegister(o, i, m) \/ UdpReregister(o, i, m)
      BY <1>1, <2>1, <3>1, UdpRegisterKeeps, UdpReregisterKeeps
    <3>2. CASE SendTo(o)
      BY <1>1, <2>1, <3>2, SendToKeeps
    <3>3. CASE UdpDrop(o)
      BY <1>2, <2>1, <3>3, DropKeeps DEF UdpDrop
    <3>. QED
      BY <1>5, <3>1, <3>2, <3>3 DEF UdpCall
  <2>. QED
    BY <2>1, <2>2, BecomeInv
<1>6. ASSUME NEW o \in Objects, Deregister(o) \/ Read(o) \/ PollEvent(o)
      PROVE  Inv'
  <2>1. o \in DOMAIN obj /\ Good(o, obj[o])
    BY <1>0, <1>6 DEF Deregister, Read, StreamRead, Accept, RecvFrom, PollEvent, Held
  <2>2. Keeps(o) /\ PoolOK'
    <3>1. CASE Deregister(o)
      BY <1>2, <2>1, <3>1, DeregisterKeeps DEF Deregister
    <3>2. CASE PollEvent(o)
      BY <1>2, <2>1, <3>2, PollEventKeeps DEF PollEvent
    <3>3. CASE o \in Streams /\ \E n \in 1..2 : StreamRead(o, n)
      BY <1>2, <2>1, <3>3, StreamReadKeeps DEF StreamRead
    <3>4. CASE Accept(o)
      BY <1>2, <2>1, <3>4, AcceptKeeps DEF Accept
    <3>5. CASE RecvFrom(o)
      BY <1>1, <2>1, <3>5, RecvFromKeeps
    <3>. QED
      BY <1>6, <3>1, <3>2, <3>3, <3>4, <3>5 DEF Read
  <2>. QED
    BY <2>1, <2>2, BecomeInv
<1>7. ASSUME NEW o \in Objects, Arrive(o) \/ FinishRead(o) \/ FinishWrite(o)
      PROVE  Inv'
  <2>1. o \in DOMAIN obj /\ Good(o, obj[o])
    BY <1>0, <1>7 DEF Arrive, FinishRead, FinishWrite, InProgress
  <2>2. Keeps(o)
    BY <1>7, <2>1, ArriveKeeps, FinishReadKeeps, FinishWriteKeeps
  <2>3. PoolOK'
    BY <1>2, <1>7 DEF Arrive, FinishRead, FinishWrite
  <2>. QED
    BY <2>1, <2>2, <2>3, BecomeInv
<1>8. ASSUME NEW o \in Objects, NEW op \in Operation, Callback(o, op)
      PROVE  Inv'
  <2>1. o \in DOMAIN obj /\ Good(o, obj[o])
    BY <1>0, <1>8 DEF Callback, StreamReadDone, StreamWriteDone, AcceptDone, RecvDone, SendDone, Queued
  <2>2. Keeps(o) /\ PoolOK'
    <3>1. CASE o \in Streams /\ op # "write" /\ StreamReadDone(o, op)
      BY <1>2, <2>1, <3>1, StreamReadDoneKeeps DEF StreamReadDone
    <3>2. CASE StreamWriteDone(o)
      BY <1>1, <2>1, <3>2, WriteDoneKeeps
    <3>3. CASE AcceptDone(o) \/ RecvDone(o)
      BY <1>2, <2>1, <3>3, AcceptDoneKeeps DEF AcceptDone, RecvDone
    <3>4. CASE SendDone(o)
      BY <1>2, <2>1, <3>4, SendDoneKeeps DEF SendDone
    <3>. QED
      BY <1>8, <3>1, <3>2, <3>3, <3>4 DEF Callback
  <2>. QED
    BY <2>1, <2>2, BecomeInv
<1>. QED
  BY <1>3, <1>4, <1>5, <1>6, <1>7, <1>8 DEF Next

\* The inductive invariant: every object is as its operations in flight, its
\* readiness and what its user was told require.
THEOREM Invariance ==
  ASSUME ~Impatient
  PROVE  Spec => []Inv
<1>1. Inv /\ [Next]_vars => Inv'
  <2>1. Inv /\ UNCHANGED vars => Inv'
    BY DEF Inv, PoolOK, vars
  <2>. QED
    BY <2>1, NextInv
<1>. QED
  BY <1>1, InitInv, PTL DEF Spec

\* Every object's record has its type, and the pool of buffers keeps to its
\* capacity (BufferPool::put drops what does not fit).
THEOREM TypeCorrect ==
  ASSUME ~Impatient
  PROVE  Spec => []TypeOK
<1>1. Inv => TypeOK
  BY DEF Inv, PoolOK, TypeOK, Good, Sound
<1>. QED
  BY <1>1, Invariance, PTL

\* Whatever is registered, read, written, cancelled and dropped, and in whatever
\* order completions arrive, each forgotten clone of a FromRawArc is taken over by
\* exactly one callback: memory in use by the kernel is never freed, or leaked.
THEOREM References ==
  ASSUME ~Impatient
  PROVE  Spec => []ReferencesMatch
<1>1. Inv => ReferencesMatch
  BY DEF Inv, ReferencesMatch, Good, Sound, Counted
<1>. QED
  BY <1>1, Invariance, PTL

\* No callback reaches its unreachable!, or takes a read for a connect, as long as
\* no stream is re-registered while it connects.
THEOREM Callbacks ==
  ASSUME ~Impatient
  PROVE  Spec => []CallbackFindsItsOperation
<1>1. Inv => CallbackFindsItsOperation
  BY DEF Inv, CallbackFindsItsOperation, Good, Sound, Flight, Writes
<1>. QED
  BY <1>1, Invariance, PTL

\* Input, an end of file or an error that a registered user could read has been
\* reported, is about to be, or has an operation in flight that will report it.
THEOREM Input ==
  ASSUME ~Impatient
  PROVE  Spec => []InputIsSignalled
<1>1. Inv => InputIsSignalled
  <2>. SUFFICES ASSUME Inv, NEW o \in DOMAIN obj, NEW me, me = obj[o], "readable" \in me.sub, ~me.deaf
                PROVE  \/ {"read", "connect"} \cap Outstanding(me) # {}
                       \/ "readable" \in me.told
                       \/ me.note /\ "readable" \in me.events
    BY DEF InputIsSignalled
  <2>1. Heard(me) /\ Flight(o, me) /\ me.rd \in State
    BY Typed DEF Inv, Good, Sound
  <2>. QED
    BY <2>1 DEF Heard, Flight, State
<1>. QED
  BY <1>1, Invariance, PTL

\* A user who asked for writability, and could write, was told or is about to be.
THEOREM OutputSignalled ==
  ASSUME ~Impatient
  PROVE  Spec => []OutputIsSignalled
<1>1. Inv => OutputIsSignalled
  BY DEF Inv, OutputIsSignalled, Good, Output
<1>. QED
  BY <1>1, Invariance, PTL

=============================================================================
