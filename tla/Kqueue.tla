-------------------------------- MODULE Kqueue --------------------------------
(***************************************************************************)
(* The kqueue selector (src/src/sys/unix/kqueue.rs): the list of changes,   *)
(* which register, reregister and deregister extend and flush, and the      *)
(* coalescing of the kernel's events, one per filter, into one event per    *)
(* token.  kevent itself is external.                                       *)
(*                                                                         *)
(* A Selector is a record: the kernel's filters, by descriptor and filter,  *)
(* and the changes not yet cleared.                                         *)
(***************************************************************************)
EXTENDS Integers, SequencesExt

CONSTANTS AWAKEN   \* the token of the awakener

Filter == {"read", "write"}

NewKqueue == [knotes |-> <<>>, changes |-> <<>>]

\* ev_register: EV_ADD with EV_ENABLE or EV_DISABLE, EV_CLEAR, EV_ONESHOT.
ev_register(fd, filter, enable, opts) ==
  [fd |-> fd, filter |-> filter, add |-> TRUE, on |-> enable,
   clear |-> "edge" \in opts, oneshot |-> "oneshot" \in opts]

RegisterChanges(fd, interest, opts) ==
  <<ev_register(fd, "read", "readable" \in interest, opts),
    ev_register(fd, "write", "writable" \in interest, opts)>>

\* EV_DELETE of both filters.
DeregisterChanges(fd) ==
  [n \in 1..2 |-> [fd |-> fd, filter |-> IF n = 1 THEN "read" ELSE "write", add |-> FALSE,
                   on |-> FALSE, clear |-> FALSE, oneshot |-> FALSE]]

-----------------------------------------------------------------------------

\* External: kevent(2) applies the changes in order and stops at the first error;
\* EV_ADD modifies a filter that exists, EV_DELETE of one that does not is ENOENT.
ApplyChange(acc, c) ==
  LET k == <<c.fd, c.filter>>
      note == [on |-> c.on, clear |-> c.clear, oneshot |-> c.oneshot]
  IN CASE acc.ok /\ c.add ->
            [acc EXCEPT !.knotes = [x \in DOMAIN @ \cup {k} |-> IF x = k THEN note ELSE @[x]]]
       [] acc.ok /\ ~c.add /\ k \in DOMAIN acc.knotes ->
            [acc EXCEPT !.knotes = Restrict(@, DOMAIN @ \ {k})]
       [] OTHER -> [acc EXCEPT !.ok = FALSE]

kevent(knotes, changes) == FoldLeft(ApplyChange, [knotes |-> knotes, ok |-> TRUE], changes)

\* External: a one-shot filter is deleted with its event.
Delivered(knotes, some) == Restrict(knotes, {k \in DOMAIN knotes : ~(k \in some /\ knotes[k].oneshot)})

\* Mutant: an error of kevent is ignored and the list cleared.
flush_changesIgnores(kq, new) ==
  LET all == kq.changes \o new IN
  {[kq |-> [knotes |-> kevent(kq.knotes, SubSeq(all, 1, n)).knotes, changes |-> <<>>], ok |-> TRUE]
   : n \in 0..Len(all)}

\* flush_changes, of a list to which new was pushed: what it may return.  kevent may
\* also fail for another reason, for instance lack of memory, after any n of the
\* changes.  A list that failed is kept.
flush_changes(kq, new) ==
  LET all == kq.changes \o new IN
  {LET r == kevent(kq.knotes, SubSeq(all, 1, n))
       ok == r.ok /\ n = Len(all)
   IN [kq |-> [knotes |-> r.knotes, changes |-> IF ok THEN <<>> ELSE all], ok |-> ok]
   : n \in 0..Len(all)}

\* select, when kevent returned events of the filters some: the list is cleared.
after_select(kq, some) == [knotes |-> Delivered(kq.knotes, some), changes |-> <<>>]

-----------------------------------------------------------------------------
(* Coalescing.                                                             *)

\* What one kernel event says, by its filter, its flags and whether fflags is zero.
KeventKind(e) ==
  {IF e.filter = "read" THEN "readable" ELSE "writable"}
    \cup (IF "EV_EOF" \in e.flags THEN {"hup"} ELSE {})
    \cup (IF "EV_ERROR" \in e.flags \/ {"EV_EOF", "fflags"} \subseteq e.flags THEN {"error"} ELSE {})

\* Mutant: a later event of a token replaces the earlier one.
CoalesceOneReplaces(acc, e) ==
  LET len == Len(acc.events)
      new == e.token \notin DOMAIN acc.event_map
      idx == IF new THEN len ELSE acc.event_map[e.token]
      events == IF new THEN Append(acc.events, [token |-> e.token, kind |-> {}]) ELSE acc.events
  IN IF e.token = AWAKEN THEN [acc EXCEPT !.awoken = TRUE]
     ELSE [awoken |-> acc.awoken,
           events |-> [events EXCEPT ![idx + 1].kind = KeventKind(e)],
           event_map |-> [t \in DOMAIN acc.event_map \cup {e.token} |->
             IF t = e.token THEN idx ELSE acc.event_map[t]]]

\* One turn of the loop of coalesce; event_map gives the index of a token's event.
CoalesceOne(acc, e) ==
  LET len == Len(acc.events)
      new == e.token \notin DOMAIN acc.event_map
      idx == IF new THEN len ELSE acc.event_map[e.token]
      events == IF new THEN Append(acc.events, [token |-> e.token, kind |-> {}]) ELSE acc.events
  IN IF e.token = AWAKEN THEN [acc EXCEPT !.awoken = TRUE]
     ELSE [awoken |-> acc.awoken,
           events |-> [events EXCEPT ![idx + 1].kind = @ \cup KeventKind(e)],
           event_map |-> [t \in DOMAIN acc.event_map \cup {e.token} |->
             IF t = e.token THEN idx ELSE acc.event_map[t]]]

coalesce(sys_events) ==
  FoldLeft(CoalesceOne, [awoken |-> FALSE, events |-> <<>>, event_map |-> <<>>], sys_events)

=============================================================================
