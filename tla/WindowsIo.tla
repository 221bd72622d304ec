------------------------------- MODULE WindowsIo -------------------------------
(***************************************************************************)
(* The I/O objects of a program on Windows: streams, listeners and UDP      *)
(* sockets on one completion port (src/src/sys/windows), with the kernel    *)
(* that completes their operations, the poll that runs the callbacks and    *)
(* reports readiness, and a user who registers, reads, writes and drops.    *)
(***************************************************************************)
EXTENDS WindowsTcp, WindowsUdp, FiniteSets

Mine(some) == some \cap DOMAIN obj

TypeOK ==
  /\ DOMAIN obj \in Programs
  /\ \A o \in DOMAIN obj : obj[o] \in Object
  /\ pool \in Seq(Capacity) /\ Len(pool) <= PoolCap

NewObjects(o) ==
  CASE o \in Streams -> {NewStream(TRUE), NewStream(FALSE)}
    [] o \in Listeners -> {NewListener}
    [] o \in Udps -> {NewUdp}

Init ==
  /\ \E p \in Programs :
       obj \in {f \in [p -> UNION {NewObjects(o) : o \in p}] : \A o \in p : f[o] \in NewObjects(o)}
  /\ pool = <<>>

\* Selector::select: the callback of a completion that is taken off the port.
Callback(o, op) ==
  \/ o \in Streams /\ op # "write" /\ StreamReadDone(o, op)
  \/ o \in Streams /\ op = "write" /\ StreamWriteDone(o)
  \/ o \in Listeners /\ op = "read" /\ AcceptDone(o)
  \/ o \in Udps /\ op = "read" /\ RecvDone(o)
  \/ o \in Udps /\ op = "write" /\ SendDone(o)

Read(o) ==
  \/ o \in Streams /\ (\E n \in 1..2 : StreamRead(o, n))
  \/ o \in Listeners /\ Accept(o)
  \/ o \in Udps /\ RecvFrom(o)

StreamCall(o) ==
  \/ \E i \in Interests, m \in Modes : StreamRegister(o, i, m) \/ StreamReregister(o, i, m)
  \/ \E n \in 1..MaxOut : StreamWrite(o, n)
  \/ StreamDrop(o)

ListenerCall(o) ==
  \/ \E i \in Interests, m \in Modes : ListenerRegister(o, i, m) \/ ListenerReregister(o, i, m)
  \/ ListenerDrop(o)

UdpCall(o) ==
  \/ \E i \in Interests, m \in Modes : UdpRegister(o, i, m) \/ UdpReregister(o, i, m)
  \/ SendTo(o)
  \/ UdpDrop(o)

Next ==
  \/ \E o \in Streams : StreamCall(o) \/ FinishConnect(o) \/ Hangup(o)
  \/ \E o \in Listeners : ListenerCall(o)
  \/ \E o \in Udps : UdpCall(o)
  \/ \E o \in Objects : Deregister(o) \/ Read(o) \/ PollEvent(o)
  \/ \E o \in Objects : Arrive(o) \/ FinishRead(o) \/ FinishWrite(o)
  \/ \E o \in Objects, op \in Operation : Callback(o, op)

Spec == Init /\ [][Next]_vars

\* The program polls, and reads what it was told is readable until a call would
\* block; the kernel completes what can complete, and does not refuse every
\* receive or accept.
FairSpec ==
  /\ Spec
  /\ \A o \in Objects :
       /\ \A op \in Operation : WF_vars(Callback(o, op))
       /\ WF_vars(PollEvent(o))
       /\ WF_vars(FinishRead(o))
       /\ WF_vars(FinishWrite(o))
       /\ WF_vars(FinishConnect(o))
       /\ WF_vars(Held(o) /\ "readable" \in obj[o].told /\ Read(o))
  /\ \A o \in Listeners \cup Udps :
       SF_vars(/\ Held(o) /\ "readable" \in obj[o].told /\ obj[o].rd \in {"ready", "error"}
               /\ Read(o) /\ obj'[o].rd = "pending")

-----------------------------------------------------------------------------

Outstanding(me) == me.ops \cup me.port

\* The count of a FromRawArc is the user's handle plus one for each operation in
\* flight: no completion callback runs on freed memory, and nothing is leaked
\* ("paired with overlapped2arc! macro invocations", tcp.rs).
ReferencesMatch ==
  \A o \in DOMAIN obj :
    obj[o].refs = Cardinality(Outstanding(obj[o])) + (IF obj[o].handle THEN 1 ELSE 0)

\* read_done, write_done, accept_done and recv_done find the state they expect:
\* an operation is outstanding exactly when its state is Pending, so neither
\* unreachable! is reached nor a read taken for a connect, and no OVERLAPPED is
\* given to the kernel twice.
CallbackFindsItsOperation ==
  \A o \in DOMAIN obj : LET me == obj[o] IN
    /\ "read" \in Outstanding(me) <=> me.rd = "pending"
    /\ "write" \in Outstanding(me) <=> me.wr = "pending"
    /\ "connect" \in Outstanding(me) => me.rd # "pending"

\* Input never waits unnoticed: while a user who asked for it has input, an end of
\* file or an error to read, they were told, are about to be told, or an operation
\* that will tell them is in flight (schedule_read, schedule_accept); not so a
\* listener whose accept failed in set_nonblocking.
InputIsSignalled ==
  \A o \in DOMAIN obj : LET me == obj[o] IN
    /\ "readable" \in me.sub /\ ~me.deaf
    /\ me.rd \in {"ready", "error"} \/ (me.conn = "up" /\ (me.inbox > 0 \/ me.peer # "open"))
    => \/ {"read", "connect"} \cap Outstanding(me) # {}
       \/ "readable" \in me.told
       \/ me.note /\ "readable" \in me.events

\* A user who asked for it and could write was told, or is about to be
\* (post_register, write_done, send_done, and read_done after a connect).
OutputIsSignalled ==
  \A o \in DOMAIN obj \ Listeners : LET me == obj[o] IN
    /\ "writable" \in me.sub /\ me.wr = "empty"
    /\ me.conn = "up" /\ "connect" \notin me.port
    => "writable" \in me.told \/ (me.note /\ "writable" \in me.events)

\* What arrives at an object whose readability is watched is read (not so by a
\* listener whose accept failed in set_nonblocking).
InputIsTaken ==
  \A o \in Objects :
    (o \in DOMAIN obj /\ obj[o].inbox > 0 /\ "readable" \in obj[o].sub)
      ~> (o \in DOMAIN obj /\ (obj[o].inbox = 0 \/ "readable" \notin obj[o].sub \/ obj[o].deaf))

\* A dropped object is freed, and its socket closed, once what it has in flight
\* is cancelled or complete, a connect in progress included (Drop for TcpStream,
\* TcpListener and UdpSocket); not so a stream dropped between the success of its
\* connect and the callback, see DroppedReadEnds.
DroppedIsFreed ==
  \A o \in Objects :
    (o \in DOMAIN obj /\ ~obj[o].handle /\ ~obj[o].late) ~> (o \in DOMAIN obj /\ obj[o].refs = 0)

\* The internal read of a dropped stream is cancelled or ends (Drop for TcpStream:
\* "If we're still internally reading, we're no longer interested").  It does not
\* hold: the connect may have succeeded before the drop, and read_done, which runs
\* after it, schedules a read that nobody cancels.
DroppedReadEnds ==
  \A o \in Streams :
    (o \in DOMAIN obj /\ ~obj[o].handle /\ "read" \in Outstanding(obj[o]))
      ~> (o \in DOMAIN obj /\ "read" \notin Outstanding(obj[o]))

\* A completion of read and connect's OVERLAPPED that finds no pending read is the
\* connect's (read_done: "If a read didn't complete, then the connect must have
\* just finished.").
ElseConnectFinished ==
  \A o \in Mine(Streams) : "read" \in obj[o].port => obj[o].rd = "pending"

\* Every buffer has the capacity get_buffer was asked for ("Acquires a buffer with
\* at least `size` capacity", selector.rs).
ReceivesIntoBigBuffers ==
  \A o \in Mine(Udps) : obj[o].rbuf = "big"

\* A stream whose writability is reported takes another write (schedule_write:
\* "A new writable event (e.g. allowing another write)").
WritableAllowsWrite ==
  \A o \in Mine(Streams) : "writable" \in obj[o].events => obj[o].wr = "empty"

=============================================================================
