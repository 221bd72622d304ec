------------------------------ MODULE WindowsTcp ------------------------------
(***************************************************************************)
(* TcpStream and TcpListener on Windows (src/src/sys/windows/tcp.rs).       *)
(* Readiness is emulated by overlapped operations: a read of no bytes, an   *)
(* accept, a write of a copied buffer, a connect.  The connect uses the     *)
(* OVERLAPPED of the reads, so one callback, read_done, serves both.        *)
(***************************************************************************)
EXTENDS ReadyBinding

CONSTANT
  Impatient     \* streams may be re-registered while their connect is in flight

ASSUME ImpatientAssumption == Impatient \in BOOLEAN

-----------------------------------------------------------------------------
(* TcpStream.  External: what an overlapped read or write on it returns.    *)
(* "done" is an operation that completed at once.                           *)

ReadResults(me) ==
  CASE me.conn # "up" -> {"error"}
    [] me.peer = "reset" -> {"reset"}
    [] OTHER -> IF me.inbox > 0 \/ me.peer = "closed" THEN {"done", "pending"} ELSE {"pending"}

WriteResults(me) == IF me.conn # "up" \/ me.peer = "reset" THEN {"error"} ELSE {"done", "pending"}

\* TcpStream::new, from connect (the connect waits for a registration) or from a
\* connected socket.
NewStream(connecting) ==
  [NewObject EXCEPT !.deferred = connecting, !.conn = IF connecting THEN "down" ELSE "up"]

\* StreamImp::schedule_connect.
schedule_connect(me, res) == IF res = "pending" THEN Started(me, "connect") ELSE me

\* Mutant: a reference is forgotten for a read that completed at once as well.
schedule_readForgets(me, res) ==
  LET clear == clear_readiness(me, {"readable"}) IN
  CASE me.rd = "pending" -> me
    [] me.rd \in {"ready", "error"} -> add_readiness(me, {"readable"})
    [] me.rd = "empty" /\ res = "done" /\ me.instant ->
         add_readiness([clear EXCEPT !.rd = "ready", !.refs = @ + 1], {"readable"})
    [] me.rd = "empty" /\ (res = "pending" \/ (res = "done" /\ ~me.instant)) ->
         Started([clear EXCEPT !.rd = "pending"], "read")
    [] me.rd = "empty" /\ res \in {"error", "reset"} ->
         add_readiness([clear EXCEPT !.rd = "error"], {"readable"})

\* StreamImp::schedule_read.
schedule_read(me, res) ==
  LET clear == clear_readiness(me, {"readable"}) IN
  CASE me.rd = "pending" -> me
    [] me.rd \in {"ready", "error"} -> add_readiness(me, {"readable"})
    [] me.rd = "empty" /\ res = "done" /\ me.instant ->
         add_readiness([clear EXCEPT !.rd = "ready"], {"readable"})
    [] me.rd = "empty" /\ (res = "pending" \/ (res = "done" /\ ~me.instant)) ->
         Started([clear EXCEPT !.rd = "pending"], "read")
    [] me.rd = "empty" /\ res \in {"error", "reset"} ->
         add_readiness([clear EXCEPT !.rd = "error"],
                       {"readable"} \cup (IF res = "reset" THEN {"hup"} ELSE {}))

\* StreamImp::schedule_write of the left bytes of a buffer.  Instant partial
\* writes are repeated, so that fewer bytes may be left when the loop ends.
schedule_write(me, left, res) ==
  LET clear == clear_readiness(me, {"writable"}) IN
  CASE res = "done" /\ me.instant ->
         add_readiness([clear EXCEPT !.wr = "empty", !.left = 0], {"writable"})
    [] res = "error" ->
         add_readiness([clear EXCEPT !.wr = "error", !.left = 0], {"writable"})
    [] res = "pending" \/ (res = "done" /\ ~me.instant) ->
         Started([clear EXCEPT !.wr = "pending", !.left = left], "write")

\* What is left of a buffer when the loop of schedule_write ends.
Remaining(me, left) == IF me.instant THEN 1..left ELSE {left}

\* put_buffer on the error path of schedule_write; bufs is the pool so far.
AfterWrite(bufs, b, res) == IF res = "error" THEN put_buffer(bufs, b) ELSE bufs

\* Mutant: a stream that is writable when it is registered is not reported.
post_registerSilent(me, i, res) == IF "readable" \in i THEN schedule_read(me, res) ELSE me

\* TcpStream::post_register.
post_register(me, i, res) ==
  LET r == IF "readable" \in i THEN schedule_read(me, res) ELSE me IN
  IF "writable" \in i /\ r.wr = "empty" THEN add_readiness(r, {"writable"}) ELSE r

\* TcpStream::register: no_notify_on_instant_completion fails, the deferred
\* connect is issued (or refused by the OS), or the stream was connected.
StreamRegister(o, i, m) ==
  LET reg == register_socket(obj[o], i, m)
      me == [reg EXCEPT !.instant = TRUE, !.deferred = FALSE]
  IN /\ Held(o) /\ ~obj[o].bound
     /\ \/ Become(o, reg)
        \/ /\ reg.deferred
           /\ \E res \in {"pending", "error"} :
                Become(o, [schedule_connect(me, res) EXCEPT !.sub = IF res = "error" THEN {} ELSE i])
        \/ /\ ~reg.deferred
           /\ \E res \in ReadResults(me) : Become(o, [post_register(me, i, res) EXCEPT !.sub = i])
     /\ UNCHANGED pool

\* TcpStream::reregister.
StreamReregister(o, i, m) ==
  LET me == reregister_socket(obj[o], i, m) IN
  /\ Held(o) /\ obj[o].bound
  /\ Impatient \/ "connect" \notin me.ops \cup me.port
  /\ \E res \in ReadResults(me) : Become(o, [post_register(me, i, res) EXCEPT !.sub = i])
  /\ UNCHANGED pool

\* Mutant: no read is scheduled when the socket would block.
ReadvLoopNoSchedule(o, n) ==
  LET me == obj[o]
      read(k) == [me EXCEPT !.inbox = @ - k]
      empty(k) == [read(k) EXCEPT !.rd = "empty"]
  IN \/ /\ me.inbox > 0
        /\ \E k \in {n, me.inbox} : k <= n /\ k <= me.inbox /\ Become(o, Again(read(k), "readable"))
     \/ /\ me.peer = "open" /\ me.inbox < n
        /\ Become(o, WouldBlock(empty(me.inbox), "readable"))

\* The loop of TcpStream::readv over n buffers.
ReadvLoop(o, n) ==
  LET me == obj[o]
      read(k) == [me EXCEPT !.inbox = @ - k]
      drained == [me EXCEPT !.rd = "empty", !.inbox = 0]
  IN \* every buffer is filled, or the last one in part
     \/ /\ me.inbox > 0
        /\ \E k \in {n, me.inbox} : k <= n /\ k <= me.inbox /\ Become(o, Again(read(k), "readable"))
     \* end of file
     \/ /\ me.peer = "closed" /\ me.inbox < n
        /\ Become(o, Again(read(me.inbox), "readable"))
     \* the socket would block, after some data or from the start
     \/ /\ me.peer = "open" /\ me.inbox < n
        /\ \E res \in ReadResults(drained) :
             LET now == schedule_read(drained, res) IN
             Become(o, IF me.inbox > 0 THEN Again(now, "readable") ELSE WouldBlock(now, "readable"))
     \* the stream is reset after some data or before
     \/ /\ me.peer = "open" /\ me.inbox \in 1..(n - 1)
        /\ Become(o, Again([me EXCEPT !.rd = "error", !.inbox = 0, !.peer = "reset"], "readable"))
     \/ /\ me.peer = "reset"
        /\ \E res \in ReadResults(drained) :
             Become(o, Again(schedule_read(drained, res), "readable"))

\* TcpStream::readv.
StreamRead(o, n) ==
  LET me == obj[o] IN
  /\ Held(o)
  /\ \/ me.rd \in {"empty", "pending"} /\ Become(o, WouldBlock(me, "readable"))
     \/ /\ me.rd = "error"
        /\ \E res \in ReadResults(me) :
             Become(o, Again(schedule_read([me EXCEPT !.rd = "empty"], res), "readable"))
     \/ me.rd = "ready" /\ ReadvLoop(o, n)
  /\ UNCHANGED pool

\* TcpStream::writev of n bytes.
StreamWrite(o, n) ==
  LET me == obj[o]
      buf == get_buffer(pool, "small")
  IN /\ Held(o)
     /\ \/ /\ me.wr # "empty" \/ ~me.bound
           /\ Become(o, WouldBlock(me, "writable"))
           /\ UNCHANGED pool
        \/ /\ me.wr = "empty" /\ me.bound
           /\ \E res \in WriteResults(me), left \in Remaining(me, n) :
                /\ Become(o, Again(schedule_write([me EXCEPT !.wbuf = buf], left, res), "writable"))
                /\ pool' = AfterWrite(PoolRest(pool), buf, res)

\* read_done: the completion of a read, or else of the connect.
StreamReadDone(o, op) ==
  LET me == Completed(obj[o], op) IN
  /\ Queued(o, op)
  /\ \/ /\ me.rd = "pending"
        /\ Become(o, add_readiness([me EXCEPT !.rd = "ready"], {"readable"}))
     \/ /\ me.rd # "pending" /\ me.conn = "up"
        /\ \E res \in ReadResults(me) :
             Become(o, schedule_read(add_readiness(me, {"writable"}), res))
     \/ /\ me.rd # "pending" /\ me.conn # "up"
        /\ Become(o, [add_readiness(me, {"readable"}) EXCEPT !.rd = "error"])
  /\ UNCHANGED pool

\* Mutant: the callback leaves the state Pending when everything is written.
StreamWriteDoneKeeps(o) ==
  LET me == Completed(obj[o], "write")
      left == me.left - obj[o].sent
  IN /\ Queued(o, "write") /\ left = 0
     /\ Become(o, add_readiness([me EXCEPT !.left = 0], {"writable"}))
     /\ UNCHANGED pool

\* write_done; its unreachable! is excluded by CallbackFindsItsOperation.
StreamWriteDone(o) ==
  LET me == Completed(obj[o], "write")
      left == me.left - obj[o].sent
  IN /\ Queued(o, "write")
     /\ \/ /\ left = 0
           /\ Become(o, add_readiness([me EXCEPT !.wr = "empty", !.left = 0], {"writable"}))
           /\ UNCHANGED pool
        \/ /\ left > 0
           /\ \E res \in WriteResults(me), l \in Remaining(me, left) :
                /\ Become(o, schedule_write(me, l, res))
                /\ pool' = AfterWrite(pool, me.wbuf, res)

\* Mutant: it is forgotten that a connect may be pending when the state is Empty.
StreamDropKeepsConnect(o) ==
  LET stop == IF obj[o].rd = "pending" THEN {"read", "connect"} ELSE {} IN
  /\ Held(o)
  /\ Become(o, Dropped(obj[o], stop))
  /\ UNCHANGED pool

\* Drop for TcpStream: a read or a connect is cancelled, a write is not.
StreamDrop(o) ==
  LET stop == IF obj[o].rd \in {"pending", "empty"} THEN {"read", "connect"} ELSE {} IN
  /\ Held(o)
  /\ Become(o, Dropped(obj[o], stop))
  /\ UNCHANGED pool

-----------------------------------------------------------------------------
(* TcpListener: rd is the state of accept, inbox the connections that wait. *)

NewListener == NewObject

\* External: what TcpBuilder::new and an overlapped accept return.  The OS is
\* taken not to complete an accept at once.
AcceptResults == {"error", "pending"}

\* Mutant: an accept that could not be scheduled is not reported.
schedule_acceptSilent(me, res) ==
  LET clear == clear_readiness(me, {"readable"}) IN
  CASE me.rd # "empty" -> me
    [] me.rd = "empty" /\ res = "pending" -> Started([clear EXCEPT !.rd = "pending"], "read")
    [] me.rd = "empty" /\ res # "pending" -> [clear EXCEPT !.rd = "error"]

\* ListenerImp::schedule_accept.
schedule_accept(me, res) ==
  LET clear == clear_readiness(me, {"readable"}) IN
  CASE me.rd # "empty" -> me
    [] me.rd = "empty" /\ res = "pending" -> Started([clear EXCEPT !.rd = "pending"], "read")
    [] me.rd = "empty" /\ res = "error" ->
         add_readiness([clear EXCEPT !.rd = "error"], {"readable"})

\* TcpListener::register; no_notify_on_instant_completion may fail.
ListenerRegister(o, i, m) ==
  LET reg == register_socket(obj[o], i, m)
      me == [reg EXCEPT !.instant = TRUE]
  IN /\ Held(o) /\ ~obj[o].bound
     /\ \/ Become(o, reg)
        \/ \E res \in AcceptResults : Become(o, [schedule_accept(me, res) EXCEPT !.sub = i])
     /\ UNCHANGED pool

ListenerReregister(o, i, m) ==
  LET me == reregister_socket(obj[o], i, m) IN
  /\ Held(o) /\ obj[o].bound
  /\ \E res \in AcceptResults : Become(o, [schedule_accept(me, res) EXCEPT !.sub = i, !.deaf = FALSE])
  /\ UNCHANGED pool

\* TcpListener::accept.  When set_nonblocking fails on the accepted socket, the
\* early return leaves the state Empty and schedules nothing.
Accept(o) ==
  LET me == obj[o]
      taken == [me EXCEPT !.rd = "empty"]
  IN /\ Held(o)
     /\ \/ me.rd \in {"empty", "pending"} /\ Become(o, WouldBlock(me, "readable"))
        \/ /\ me.rd \in {"ready", "error"}
           /\ \E res \in AcceptResults :
                Become(o, Again(schedule_accept(taken, res), "readable"))
        \/ /\ me.rd = "ready"
           /\ Become(o, Again([taken EXCEPT !.deaf = TRUE], "readable"))
     /\ UNCHANGED pool

\* accept_done; its unreachable! is excluded by CallbackFindsItsOperation.  Taking over the
\* accepted socket may fail.
AcceptDone(o) ==
  LET me == Completed(obj[o], "read") IN
  /\ Queued(o, "read")
  /\ \E r \in {"ready", "error"} : Become(o, add_readiness([me EXCEPT !.rd = r], {"readable"}))
  /\ UNCHANGED pool

\* Drop for TcpListener.
ListenerDrop(o) ==
  /\ Held(o)
  /\ Become(o, Dropped(obj[o], IF obj[o].rd = "pending" THEN {"read"} ELSE {}))
  /\ UNCHANGED pool

=============================================================================
