------------------------------ MODULE SelectorId ------------------------------
(***************************************************************************)
(* Sockets and the Polls they are registered with: the SelectorId that ties *)
(* a socket to one Poll (src/src/net), Poll::register, reregister,          *)
(* deregister and poll (src/src/poll.rs), and below them the selector of    *)
(* the platform: epoll, kqueue, or the Binding to a completion port.        *)
(*                                                                         *)
(* A Poll is used by one thread (it is not Sync) and a socket by all, so    *)
(* the threads are the Polls.  A Poll's selector id is the Poll itself, a   *)
(* number above zero; a socket's token, and its descriptor, the socket.     *)
(***************************************************************************)
EXTENDS Kqueue, Epoll

CONSTANTS
  Polls, Sockets,
  Programs,          \* the Polls and the sockets a program may have, and the
                     \*   bound on the length of its change lists
  Platforms,         \* "epoll", "kqueue", "iocp"
  Calls,             \* what register and reregister are called with
  Capacity           \* capacity of Events

ASSUME SelectorAssumption ==
  /\ Polls \subseteq Nat \ {0} /\ AWAKEN \notin Sockets
  /\ Programs \subseteq [polls : SUBSET Polls, sockets : SUBSET Sockets, changes : Nat]
  /\ Platforms \subseteq {"epoll", "kqueue", "iocp"}
  /\ \A c \in Calls : c.interest \cap {"readable", "writable"} # {}   \* validate_args
  /\ Capacity \in Nat \ {0}

VARIABLES
  platform, program,  \* chosen at the start
  id,            \* SelectorId of every socket
  pc, arg,       \* where a Poll's thread is in register, and its arguments
  kq,            \* kqueue: the selectors
  list,          \* epoll: the interest lists
  binding,       \* iocp: Binding::selector of every socket, 0 when not filled
  port,          \* iocp, external: the port a socket is associated with, or 0
  want,          \* history: what the last call that succeeded asked for
  reported,      \* history: the last poll reported what the kernel did
  raced,         \* history: sockets in two calls of register at a time
  strayed        \* history: sockets re-registered with a Poll not their own

vars == <<platform, program, id, pc, arg, kq, list, binding, port, want, reported, raced, strayed>>
kernelVars == <<kq, list, binding, port>>
fixed == <<platform, program>>

Idle == [sock |-> AWAKEN, call |-> [interest |-> {}, opts |-> {}]]
Ready == {"readable", "writable", "hup", "error"}
Asked == [known : BOOLEAN, interest : SUBSET {"readable", "writable", "hup"}, oneshot : BOOLEAN,
          spent : SUBSET {"readable", "writable"}]
Wanted(c) == [known |-> TRUE, interest |-> c.interest, oneshot |-> "oneshot" \in c.opts, spent |-> {}]
Nothing == Wanted(Idle.call)
Unknown == [Nothing EXCEPT !.known = FALSE]

TypeOK ==
  /\ platform \in Platforms /\ program \in Programs
  /\ id \in [Sockets -> Polls \cup {0}]
  /\ pc \in [Polls -> {"idle", "store", "sys"}]
  /\ \A p \in Polls :
       /\ DOMAIN kq[p].knotes \subseteq Sockets \X Filter
       /\ Len(kq[p].changes) <= program.changes
       /\ \A s \in DOMAIN list[p] : s \in Sockets /\ list[p][s] \subseteq Flag
  /\ binding \in [Sockets -> Polls \cup {0}] /\ port \in [Sockets -> Polls \cup {0}]
  /\ want \in [Polls \X Sockets -> Asked]
  /\ reported \in BOOLEAN /\ raced \subseteq Sockets /\ strayed \subseteq Sockets

\* Poll::new, SelectorId::new and Binding::new.
Init ==
  /\ platform \in Platforms /\ program \in Programs
  /\ id = [s \in Sockets |-> 0]
  /\ pc = [p \in Polls |-> "idle"] /\ arg = [p \in Polls |-> Idle]
  /\ kq = [p \in Polls |-> NewKqueue] /\ list = [p \in Polls |-> <<>>]
  /\ binding = [s \in Sockets |-> 0] /\ port = [s \in Sockets |-> 0]
  /\ want = [x \in Polls \X Sockets |-> Nothing]
  /\ reported = TRUE /\ raced = {} /\ strayed = {}

\* The thread of p calls a method of s; a bound: its list has room for the changes.
Calling(p, s) ==
  /\ p \in program.polls /\ s \in program.sockets
  /\ pc[p] = "idle"
  /\ Len(kq[p].changes) + 2 <= program.changes

\* A call on s with Poll p returned ok.  After an error the registration is what it
\* was with epoll and the port; with kqueue some of the changes are applied, others
\* may be later.
Returns(p, s, ok, wanted) ==
  want' = [want EXCEPT ![<<p, s>>] =
    IF ok THEN wanted ELSE IF platform = "kqueue" THEN Unknown ELSE @]

-----------------------------------------------------------------------------
(* The selectors.                                                          *)

\* Selector::register and reregister of kqueue are the same.
KqueueUpdate(p, s, c) ==
  /\ platform = "kqueue"
  /\ \E r \in flush_changes(kq[p], RegisterChanges(s, c.interest, c.opts)) :
       kq' = [kq EXCEPT ![p] = r.kq] /\ Returns(p, s, r.ok, Wanted(c))
  /\ UNCHANGED <<list, binding, port>>

KqueueDeregister(p, s) ==
  /\ platform = "kqueue"
  /\ \E r \in flush_changes(kq[p], DeregisterChanges(s)) :
       kq' = [kq EXCEPT ![p] = r.kq] /\ Returns(p, s, r.ok, Nothing)
  /\ UNCHANGED <<list, binding, port>>

EpollCall(p, s, r, wanted) ==
  /\ platform = "epoll"
  /\ list' = [list EXCEPT ![p] = r.list]
  /\ Returns(p, s, r.ok, wanted)
  /\ UNCHANGED <<kq, binding, port>>

\* External: add_socket.  A socket can be associated with a port once, and that may
\* fail.
AddSocket(p, s, c, tried) ==
  \E ok \in {FALSE, tried /\ port[s] = 0} :
    /\ port' = [port EXCEPT ![s] = IF ok THEN p ELSE @]
    /\ Returns(p, s, ok, Wanted(c))

\* Mutant: the Binding is filled and not compared.
BindingRegisterUnchecked(p, s, c) ==
  LET to == IF binding[s] = 0 THEN p ELSE binding[s] IN
  /\ platform = "iocp"
  /\ binding' = [binding EXCEPT ![s] = to]
  /\ AddSocket(p, s, c, TRUE)
  /\ UNCHANGED <<kq, list>>

\* Binding::register_socket: fill, check_same_selector, add_socket.
BindingRegister(p, s, c) ==
  LET to == IF binding[s] = 0 THEN p ELSE binding[s] IN
  /\ platform = "iocp"
  /\ binding' = [binding EXCEPT ![s] = to]
  /\ AddSocket(p, s, c, to = p)
  /\ UNCHANGED <<kq, list>>

\* Binding::reregister_socket, deregister_socket: check_same_selector.
BindingCall(p, s, wanted) ==
  /\ platform = "iocp"
  /\ Returns(p, s, binding[s] = p, wanted)
  /\ UNCHANGED kernelVars

-----------------------------------------------------------------------------
(* Evented for TcpStream, TcpListener and UdpSocket.                       *)

\* Mutant: any Poll will do.
AssociateLoadUnchecked(p, s, c) ==
  /\ Calling(p, s)
  /\ pc' = [pc EXCEPT ![p] = "store"]
  /\ arg' = [arg EXCEPT ![p] = [sock |-> s, call |-> c]]
  /\ raced' = raced \cup {x \in {s} : \E q \in Polls : arg[q].sock = s}
  /\ UNCHANGED <<fixed, id, kernelVars, want, reported, strayed>>

\* register: associate_selector loads the id and compares it ...
AssociateLoad(p, s, c) ==
  /\ Calling(p, s)
  /\ id[s] \in {0, p}
  /\ pc' = [pc EXCEPT ![p] = "store"]
  /\ arg' = [arg EXCEPT ![p] = [sock |-> s, call |-> c]]
  /\ raced' = raced \cup {x \in {s} : \E q \in Polls : arg[q].sock = s}
  /\ UNCHANGED <<fixed, id, kernelVars, want, reported, strayed>>

\* ... and stores this Poll's.
AssociateStore(p) ==
  /\ pc[p] = "store"
  /\ id' = [id EXCEPT ![arg[p].sock] = p]
  /\ pc' = [pc EXCEPT ![p] = "sys"]
  /\ UNCHANGED <<fixed, arg, kernelVars, want, reported, raced, strayed>>

\* self.sys.register.
SysRegister(p) ==
  LET s == arg[p].sock
      c == arg[p].call
  IN
  /\ pc[p] = "sys"
  /\ \/ KqueueUpdate(p, s, c)
     \/ EpollCall(p, s, epoll_register(list[p], s, c.interest, c.opts), Wanted(c))
     \/ BindingRegister(p, s, c)
  /\ pc' = [pc EXCEPT ![p] = "idle"] /\ arg' = [arg EXCEPT ![p] = Idle]
  /\ UNCHANGED <<fixed, id, reported, raced, strayed>>

\* reregister and deregister do not look at the SelectorId.
Reregister(p, s, c) ==
  /\ Calling(p, s)
  /\ \/ KqueueUpdate(p, s, c)
     \/ EpollCall(p, s, epoll_reregister(list[p], s, c.interest, c.opts), Wanted(c))
     \/ BindingCall(p, s, Wanted(c))
  /\ strayed' = strayed \cup {x \in {s} : platform = "kqueue" /\ id[s] # p}
  /\ UNCHANGED <<fixed, id, pc, arg, reported, raced>>

Deregister(p, s) ==
  /\ Calling(p, s)
  /\ \/ KqueueDeregister(p, s)
     \/ EpollCall(p, s, epoll_deregister(list[p], s), Nothing)
     \/ BindingCall(p, s, Nothing)
  /\ UNCHANGED <<fixed, id, pc, arg, reported, raced, strayed>>

-----------------------------------------------------------------------------
(* Poll::poll: select, and what it makes of the kernel's events.           *)

\* The filters that may report, and the awakener's.
Active(p) == {k \in DOMAIN kq[p].knotes : kq[p].knotes[k].on} \cup {<<AWAKEN, "read">>}

\* Every event reported is one of the kernel's and every one of them is reported,
\* once per token; the awakener's is not.
IsCoalesced(sys, result) ==
  LET raised(t) == UNION {KeventKind(e) : e \in {x \in ToSet(sys) : x.token = t}} IN
  /\ result.awoken = (\E e \in ToSet(sys) : e.token = AWAKEN)
  /\ {ev.token : ev \in ToSet(result.events)} = {e.token : e \in ToSet(sys)} \ {AWAKEN}
  /\ \A ev \in ToSet(result.events) : ev.kind = raised(ev.token)
  /\ \A m, n \in DOMAIN result.events : result.events[m].token = result.events[n].token => m = n

\* What events of the descriptor and filter pairs in some use up.
Spend(p, some) ==
  want' = [x \in DOMAIN want |->
    LET gone == {IF k[2] = "read" THEN "readable" ELSE "writable" : k \in {y \in some : y[1] = x[2]}} IN
    IF x[1] = p /\ want[x].oneshot THEN [want[x] EXCEPT !.spent = @ \cup gone] ELSE want[x]]

\* Bound: at most one of the kernel's events, the first or the last, has flags.
KqueuePoll(p) ==
  /\ platform = "kqueue" /\ p \in program.polls /\ pc[p] = "idle"
  /\ \E some \in UNION {kSubset(n, Active(p)) : n \in 0..Capacity} :
     \E order \in SetToSeqs(some), bad \in {0, 1, Cardinality(some)} :
     \E flags \in (IF bad = 0 THEN {{}} ELSE {{"EV_ERROR"}, {"EV_EOF"}, {"EV_EOF", "fflags"}}) :
       LET sys == [n \in DOMAIN order |->
                     [token |-> order[n][1], filter |-> order[n][2],
                      flags |-> IF n = bad THEN flags ELSE {}]]
       IN /\ reported' = IsCoalesced(sys, coalesce(sys))
          /\ kq' = [kq EXCEPT ![p] = after_select(@, some)]
          /\ Spend(p, some)
  /\ UNCHANGED <<fixed, id, pc, arg, list, binding, port, raced, strayed>>

\* The descriptors that may report, and the awakener's; what may happen to them at a
\* time (a bound), and the flags they report of it.
Enabled(p) ==
  {s \in DOMAIN list[p] : list[p][s] \cap {"IN", "PRI", "OUT", "RDHUP"} # {}} \cup {AWAKEN}
Happenings == {{"IN"}, {"IN", "PRI", "OUT"}, {"IN", "RDHUP"}, {"OUT", "ERR", "HUP"}}
Reports(p, s, happened) ==
  IF s = AWAKEN THEN {"IN"} ELSE happened \cap (list[p][s] \cup {"ERR", "HUP"})

\* The kernel's events come out as they are, in order, less the awakener's, and
\* after them the event of the readiness queue; its error, if any, is not reported.
IsDelivered(sys, queued, awoken, evts) ==
  LET others == SelectSeq(sys, LAMBDA e : e.token # AWAKEN)
      n == Len(others) + 1
  IN /\ awoken = (\E e \in ToSet(sys) : e.token = AWAKEN)
     /\ Len(evts) = n
     /\ \A k \in DOMAIN others : evts[k] = others[k]
     /\ get(evts, n) = [queued EXCEPT !.kind = @ \ {"error"}]

\* With epoll the event of a registration, here with the token of one of the
\* sockets, takes the way through the flags as well.
EpollPoll(p) ==
  /\ platform = "epoll" /\ p \in program.polls /\ pc[p] = "idle"
  /\ \E some \in SUBSET Enabled(p), happened \in Happenings :
     \E order \in SetToSeqs(some), token \in program.sockets, kind \in SUBSET Ready :
       LET sys == [n \in DOMAIN order |->
                     [token |-> order[n], flags |-> Reports(p, order[n], happened)]]
           queued == [token |-> token, kind |-> kind]
           selected == epoll_select(sys, AWAKEN)
       IN /\ \A n \in DOMAIN sys : sys[n].flags # {}
          /\ reported' = IsDelivered(sys, queued, selected.awoken, push_event(selected.events, queued))
          /\ list' = [list EXCEPT ![p] = Disabled(@, some)]
          /\ Spend(p, some \X Filter)
  /\ UNCHANGED <<fixed, id, pc, arg, kq, binding, port, raced, strayed>>

-----------------------------------------------------------------------------

Next ==
  \/ \E p \in Polls, s \in Sockets : Deregister(p, s)
  \/ \E p \in Polls, s \in Sockets, c \in Calls :
       AssociateLoad(p, s, c) \/ Reregister(p, s, c)
  \/ \E p \in Polls : AssociateStore(p) \/ SysRegister(p) \/ KqueuePoll(p) \/ EpollPoll(p)

Spec == Init /\ [][Next]_vars

-----------------------------------------------------------------------------
(* Properties.                                                             *)

\* The readiness a socket is watched for by the kernel on behalf of a Poll.
Watched(p, s) ==
  IF platform = "kqueue"
  THEN {e \in {"readable", "writable"} :
          LET k == <<s, IF e = "readable" THEN "read" ELSE "write">> IN
          k \in DOMAIN kq[p].knotes /\ kq[p].knotes[k].on}
  ELSE IF s \in DOMAIN list[p] THEN event_kind(list[p][s]) \cap {"readable", "writable"} ELSE {}

\* When register, reregister or deregister returned Ok, the kernel watches the
\* socket for exactly what was asked, less what one-shot events used up, whatever
\* calls failed before and whatever their changes left in the list (flush_changes).
AsRegistered ==
  platform # "iocp" => \A p \in program.polls, s \in program.sockets :
    LET w == want[<<p, s>>] IN
    w.known => Watched(p, s) = (w.interest \ w.spent) \cap {"readable", "writable"}

AttachedTo(s) ==
  {p \in Polls : CASE platform = "kqueue" -> \E f \in Filter : <<s, f>> \in DOMAIN kq[p].knotes
                   [] platform = "epoll" -> s \in DOMAIN list[p]
                   [] platform = "iocp" -> port[s] = p}

\* A socket is registered with one Poll at a time ("If a type that is previously
\* associated with a Selector attempts to register itself with a different Selector,
\* the operation will return with an error"), unless two calls of register overlap
\* or, with kqueue, another Poll re-registers it.
OneSelector ==
  \A s \in program.sockets \ (raced \cup strayed) :
    \A p, q \in AttachedTo(s) : p = q

\* The same without the exceptions.
OneSelectorEver == \A s \in program.sockets : \A p, q \in AttachedTo(s) : p = q

\* On Windows the Binding holds also when register is raced or add_socket fails
\* after it was filled: the port of a socket is that of the Poll its Binding, and
\* with it its buffers, come from.
BindingIsPort == \A s \in Sockets : port[s] \in {0, binding[s]}

\* poll reports the kernel's events: with kqueue merged by token in any order they
\* come in (coalesce), with epoll less the awakener's wherever it is among them
\* (select).  An event of the readiness queue comes out of epoll's Events as it went
\* in (push_event, get), but for Ready::error(), which ioevent_to_epoll has no flag for.
PollReportsAll == reported

=============================================================================
