------------------------------ MODULE WindowsUdp ------------------------------
(***************************************************************************)
(* UdpSocket on Windows (src/src/sys/windows/udp.rs).  It receives into and *)
(* sends from buffers of the pool, and every operation that was accepted    *)
(* has its completion queued.                                               *)
(***************************************************************************)
EXTENDS ReadyBinding

NewUdp == NewObject

\* External: what an overlapped receive or send returns.
UdpResults == {"pending", "error"}

\* Imp::schedule_read.  What it does to the pool is UdpReadPool.
udp_schedule_read(me, buf, res) ==
  LET clear == clear_readiness(me, {"readable"}) IN
  CASE me.rd # "empty" -> me
    [] me.rd = "empty" /\ res = "pending" ->
         Started([clear EXCEPT !.rd = "pending", !.rbuf = buf], "read")
    [] me.rd = "empty" /\ res = "error" -> add_readiness([clear EXCEPT !.rd = "error"], {"readable"})

\* A read that is scheduled takes a buffer, one that fails puts it back.
UdpReadPool(bufs, res) ==
  IF res = "error" THEN put_buffer(PoolRest(bufs), get_buffer(bufs, "big")) ELSE PoolRest(bufs)

\* UdpSocket::post_register.
UdpPostRegister(o, me, i) ==
  LET write(r) == IF "writable" \in i /\ r.wr = "empty" THEN add_readiness(r, {"writable"}) ELSE r IN
  \/ /\ "readable" \in i /\ me.rd = "empty"
     /\ \E res \in UdpResults :
          /\ Become(o, [write(udp_schedule_read(me, get_buffer(pool, "big"), res)) EXCEPT !.sub = i])
          /\ pool' = UdpReadPool(pool, res)
  \/ /\ ~("readable" \in i /\ me.rd = "empty")
     /\ Become(o, [write(me) EXCEPT !.sub = i])
     /\ UNCHANGED pool

UdpRegister(o, i, m) ==
  /\ Held(o) /\ ~obj[o].bound
  /\ UdpPostRegister(o, register_socket(obj[o], i, m), i)

UdpReregister(o, i, m) ==
  /\ Held(o) /\ obj[o].bound
  /\ UdpPostRegister(o, reregister_socket(obj[o], i, m), i)

\* UdpSocket::send_to.  When the OS refuses the send, readiness has been cleared
\* and the buffer is dropped, but the state stays Empty.
SendTo(o) ==
  LET me == obj[o]
      clear == [clear_readiness(me, {"writable"}) EXCEPT !.wbuf = get_buffer(pool, "big")]
  IN /\ Held(o)
     /\ \/ /\ me.wr # "empty" \/ ~me.bound
           /\ Become(o, WouldBlock(me, "writable"))
           /\ UNCHANGED pool
        \/ /\ me.wr = "empty" /\ me.bound
           /\ \E res \in UdpResults :
                Become(o, Again(IF res = "error" THEN clear
                                ELSE Started([clear EXCEPT !.wr = "pending"], "write"), "writable"))
           /\ pool' = PoolRest(pool)

\* UdpSocket::recv_from: nothing received, a user's buffer that is too small, a
\* datagram (its buffer goes back to the pool) or an error.
RecvFrom(o) ==
  LET me == obj[o]
      taken == [me EXCEPT !.rd = "empty"]
      bufs == IF me.rd = "ready" THEN put_buffer(pool, me.rbuf) ELSE pool
  IN /\ Held(o)
     /\ \/ /\ me.rd \in {"empty", "pending"}
           /\ Become(o, WouldBlock(me, "readable"))
           /\ UNCHANGED pool
        \/ /\ me.rd = "ready"
           /\ Become(o, Again(me, "readable"))
           /\ UNCHANGED pool
        \/ /\ me.rd \in {"ready", "error"}
           /\ \E res \in UdpResults :
                /\ Become(o, Again(udp_schedule_read(taken, get_buffer(bufs, "big"), res), "readable"))
                /\ pool' = UdpReadPool(bufs, res)

\* send_done and recv_done.
SendDone(o) ==
  LET me == Completed(obj[o], "write") IN
  /\ Queued(o, "write")
  /\ Become(o, add_readiness([me EXCEPT !.wr = "empty"], {"writable"}))
  /\ UNCHANGED pool

RecvDone(o) ==
  LET me == Completed(obj[o], "read") IN
  /\ Queued(o, "read")
  /\ Become(o, add_readiness([me EXCEPT !.rd = "ready"], {"readable"}))
  /\ UNCHANGED pool

\* Drop for UdpSocket: a receive is cancelled, a send is not.
UdpDrop(o) ==
  /\ Held(o)
  /\ Become(o, Dropped(obj[o], IF obj[o].rd = "pending" THEN {"read"} ELSE {}))
  /\ UNCHANGED pool

=============================================================================
