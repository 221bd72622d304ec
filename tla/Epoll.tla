-------------------------------- MODULE Epoll --------------------------------
(***************************************************************************)
(* The epoll selector (src/src/sys/unix/epoll.rs): the conversions between  *)
(* Ready, PollOpt and the flags of epoll, and register, reregister and      *)
(* deregister over the kernel's interest list, select and the Events it     *)
(* fills.  The list, a function from the descriptors in it to their flags,  *)
(* is external.  Events is a sequence of tokens with their flags.           *)
(***************************************************************************)
EXTENDS SequencesExt

Flag == {"IN", "PRI", "OUT", "RDHUP", "ERR", "HUP", "ET", "ONESHOT"}

\* Mutant: interest in hang-ups is forgotten.
ioevent_to_epollNoHup(interest, opts) ==
  (IF "readable" \in interest THEN {IF "urgent" \in opts THEN "PRI" ELSE "IN"} ELSE {})
    \cup (IF "writable" \in interest THEN {"OUT"} ELSE {})
    \cup (IF "edge" \in opts /\ "level" \notin opts THEN {"ET"} ELSE {})
    \cup (IF "oneshot" \in opts THEN {"ONESHOT"} ELSE {})

ioevent_to_epoll(interest, opts) ==
  (IF "readable" \in interest THEN {IF "urgent" \in opts THEN "PRI" ELSE "IN"} ELSE {})
    \cup (IF "writable" \in interest THEN {"OUT"} ELSE {})
    \cup (IF "hup" \in interest THEN {"RDHUP"} ELSE {})
    \cup (IF "edge" \in opts /\ "level" \notin opts THEN {"ET"} ELSE {})
    \cup (IF "oneshot" \in opts THEN {"ONESHOT"} ELSE {})

\* Events::get, and the kind of the event it returns.
event_kind(flags) ==
  (IF flags \cap {"IN", "PRI"} # {} THEN {"readable"} ELSE {})
    \cup (IF "OUT" \in flags THEN {"writable"} ELSE {})
    \cup (IF "ERR" \in flags THEN {"error"} ELSE {})
    \cup (IF flags \cap {"RDHUP", "HUP"} # {} THEN {"hup"} ELSE {})

get(evts, n) == [token |-> evts[n].token, kind |-> event_kind(evts[n].flags)]

\* Events::push_event: an event of the readiness queue becomes one of epoll.
push_event(evts, event) ==
  Append(evts, [token |-> event.token, flags |-> ioevent_to_epoll(event.kind, {})])

\* Selector::select, when epoll_wait returned evts: the first event of the awakener
\* is removed.
epoll_select(evts, awakener) ==
  LET i == SelectInSeq(evts, LAMBDA e : e.token = awakener) IN
  IF i = 0 THEN [events |-> evts, awoken |-> FALSE]
           ELSE [events |-> RemoveAt(evts, i), awoken |-> TRUE]

\* External: an event disables a one-shot descriptor until EPOLL_CTL_MOD.
Disabled(list, some) ==
  [fd \in DOMAIN list |-> IF fd \in some /\ "ONESHOT" \in list[fd] THEN list[fd] \cap {"ET", "ONESHOT"} ELSE list[fd]]

\* Selector::register: EPOLL_CTL_ADD fails for a descriptor in the list.
epoll_register(list, fd, interest, opts) ==
  IF fd \in DOMAIN list THEN [list |-> list, ok |-> FALSE]
  ELSE [list |-> [x \in DOMAIN list \cup {fd} |-> IF x = fd THEN ioevent_to_epoll(interest, opts) ELSE list[x]],
        ok |-> TRUE]

\* Selector::reregister: EPOLL_CTL_MOD fails for a descriptor that is not.
epoll_reregister(list, fd, interest, opts) ==
  IF fd \notin DOMAIN list THEN [list |-> list, ok |-> FALSE]
  ELSE [list |-> [list EXCEPT ![fd] = ioevent_to_epoll(interest, opts)], ok |-> TRUE]

\* Selector::deregister.
epoll_deregister(list, fd) ==
  [list |-> Restrict(list, DOMAIN list \ {fd}), ok |-> fd \in DOMAIN list]

=============================================================================
