-------------------------------- MODULE Timer --------------------------------
(***************************************************************************)
(* The hashed timer wheel of mio (src/src/timer.rs) and the thread that    *)
(* wakes the Poll up when its next timeout is due.                         *)
(*                                                                         *)
(* Time is counted in ticks: now is current_tick(start).  The timer itself *)
(* is used by one thread, so a step of it is a stretch between two accesses *)
(* to what the wakeup thread shares: wakeup_state, the unpark permit and    *)
(* the readiness of the registration.  set_readiness and poll are one step, *)
(* as in Channel.  The slab is external: it hands out any free token.      *)
(***************************************************************************)
EXTENDS Integers, FiniteSets

CONSTANTS
  Tokens,       \* the indices of the slab
  EMPTY,        \* the null token
  Vacant,       \* a free place of the slab
  Slots,        \* number of slots of the wheel
  MaxTick,      \* bound: the clock stops here, timeouts are set up to here
  TICK_MAX,     \* u64::MAX
  Registering,  \* when the timer is registered: "never", "first", "later"
  Updates,      \* interests (in readable) passed to reregister / deregister
  Unprompted,   \* whether Timer::poll is called without an event, too
  Kept          \* ended timeouts whose handle is kept: "fired", "cancelled"

ASSUME TokensAssumption == EMPTY \notin Tokens /\ IsFiniteSet(Tokens)
ASSUME TicksAssumption == Slots \in Nat \ {0} /\ MaxTick \in Nat /\ TICK_MAX \in Nat /\ TICK_MAX > MaxTick + 1
ASSUME ChoicesAssumption ==
  /\ Registering \in {"never", "first", "later"} /\ Unprompted \in BOOLEAN
  /\ Updates \subseteq BOOLEAN /\ Kept \subseteq {"fired", "cancelled"}

VARIABLES
  entries,      \* the slab of timeout entries
  head,         \* WheelEntry::head of every slot
  nextTick,     \* WheelEntry::next_tick of every slot
  tick,         \* the current tick
  next,         \* the next entry to possibly time out
  pc,           \* where the user of the timer is
  target,       \* target_tick of poll_to
  sched, cur,   \* schedule_readiness: the tick asked for, the state last read
  registered,   \* inner is filled
  state,        \* wakeup_state
  permit,       \* the wakeup thread was unparked
  tpc, until,   \* where the wakeup thread is, sleep_until_tick
  readable,     \* the events word of the registration is readable
  note,         \* the registration is queued for the next poll
  interest,     \* the registration is interested in readable
  told,         \* the user got an event or a timeout and no None since
  now,          \* the clock
  stale         \* history: handles of ended timeouts the user still has

wheelVars  == <<entries, head, nextTick, tick, next>>
callVars   == <<pc, target, sched, cur>>
threadVars == <<tpc, until>>
readyVars  == <<readable, note>>
userVars   == <<interest, told, now, stale>>
vars == <<wheelVars, callVars, registered, state, permit, threadVars, readyVars, userVars>>

Ticks == 0..(MaxTick + 1)
Wakeups == Ticks \cup {TICK_MAX}
Links == [tick : Ticks, prev : Tokens \cup {EMPTY}, next : Tokens \cup {EMPTY}]
Handles == [token : Tokens, tick : Ticks]

\* An entry of the slab is told from a free place.
ASSUME VacantAssumption == Vacant \notin Links

TypeOK ==
  /\ entries \in [Tokens -> Links \cup {Vacant}]
  /\ head \in [0..(Slots-1) -> Tokens \cup {EMPTY}]
  /\ nextTick \in [0..(Slots-1) -> Wakeups]
  /\ tick \in Ticks
  /\ next \in Tokens \cup {EMPTY}
  /\ pc \in {"idle", "poll", "sched", "cas", "unpark"}
  /\ target \in Ticks
  /\ sched \in Wakeups /\ cur \in Wakeups
  /\ registered \in BOOLEAN
  /\ state \in Wakeups
  /\ permit \in BOOLEAN
  /\ tpc \in {"none", "load", "check", "park", "cas", "set", "done"}
  /\ until \in Wakeups
  /\ readable \in BOOLEAN /\ note \in BOOLEAN /\ interest \in BOOLEAN /\ told \in BOOLEAN
  /\ now \in 0..MaxTick
  /\ stale \subseteq Handles

\* Timer::new, and possibly register before the first timeout is set.
Init ==
  /\ entries = [k \in Tokens |-> Vacant]
  /\ head = [s \in 0..(Slots-1) |-> EMPTY]
  /\ nextTick = [s \in 0..(Slots-1) |-> TICK_MAX]
  /\ tick = 0 /\ next = EMPTY
  /\ pc = "idle" /\ target = 0 /\ sched = TICK_MAX /\ cur = TICK_MAX
  /\ registered = (Registering = "first") /\ interest = registered
  /\ state = TICK_MAX /\ permit = FALSE
  /\ tpc = (IF registered THEN "load" ELSE "none") /\ until = TICK_MAX
  /\ readable = FALSE /\ note = FALSE /\ told = FALSE
  /\ now = 0 /\ stale = {}

-----------------------------------------------------------------------------
(* The wheel.                                                              *)

Lesser(a, b) == IF a <= b THEN a ELSE b
Live == {k \in Tokens : entries[k] # Vacant}
slot_for(t) == t % Slots

\* The Timeout returned for entry k.
Handle(k) == [token |-> k, tick |-> entries[k].tick]

\* Next tick containing a timeout.
next_tick ==
  IF next # EMPTY /\ nextTick[slot_for(entries[next].tick)] = tick THEN tick
  ELSE CHOOSE t \in Wakeups : /\ \E s \in 0..(Slots-1) : t = nextTick[s]
                              /\ \A s \in 0..(Slots-1) : t <= nextTick[s]

\* A call goes on to schedule_readiness(t) if the timer is registered.
ScheduleReadiness(t) ==
  IF registered THEN pc' = "sched" /\ sched' = t ELSE pc' = "idle" /\ UNCHANGED sched

\* Mutant: a timeout may be set for the current tick.
SetTimeoutCurrentTick(d, k) ==
  LET t == IF now + d < tick THEN tick ELSE now + d
      s == slot_for(t)
  IN
  /\ pc = "idle"
  /\ k \notin Live /\ t <= MaxTick
  /\ entries' = [e \in Tokens |->
       IF e = k THEN [tick |-> t, prev |-> EMPTY, next |-> head[s]]
       ELSE IF e = head[s] THEN [entries[e] EXCEPT !.prev = k] ELSE entries[e]]
  /\ head' = [head EXCEPT ![s] = k]
  /\ nextTick' = [nextTick EXCEPT ![s] = Lesser(t, @)]
  /\ ScheduleReadiness(t)
  /\ UNCHANGED <<tick, next, target, cur, registered, state, permit, threadVars, readyVars, userVars>>

\* set_timeout_at with a delay of d ticks, and insert: at least one tick in the
\* future, in front of its slot's list.
SetTimeout(d, k) ==
  LET t == IF now + d <= tick THEN tick + 1 ELSE now + d
      s == slot_for(t)
  IN
  /\ pc = "idle"
  /\ k \notin Live /\ t <= MaxTick
  /\ entries' = [e \in Tokens |->
       IF e = k THEN [tick |-> t, prev |-> EMPTY, next |-> head[s]]
       ELSE IF e = head[s] THEN [entries[e] EXCEPT !.prev = k] ELSE entries[e]]
  /\ head' = [head EXCEPT ![s] = k]
  /\ nextTick' = [nextTick EXCEPT ![s] = Lesser(t, @)]
  /\ ScheduleReadiness(t)
  /\ UNCHANGED <<tick, next, target, cur, registered, state, permit, threadVars, readyVars, userVars>>

\* Mutant: the successor keeps its pointer to the removed entry.
UnlinkForwardOnly(k) ==
  LET links == entries[k] IN
  /\ head' = IF links.prev = EMPTY THEN [head EXCEPT ![slot_for(links.tick)] = links.next] ELSE head
  /\ entries' = [e \in Tokens |->
       IF e = k THEN Vacant
       ELSE IF e = links.prev THEN [entries[e] EXCEPT !.next = links.next]
       ELSE entries[e]]
  /\ next' = IF next = k THEN links.next ELSE next

\* unlink, and the removal from the slab that always follows it.
Unlink(k) ==
  LET links == entries[k] IN
  /\ head' = IF links.prev = EMPTY THEN [head EXCEPT ![slot_for(links.tick)] = links.next] ELSE head
  /\ entries' = [e \in Tokens |->
       IF e = k THEN Vacant
       ELSE IF e = links.prev THEN [entries[e] EXCEPT !.next = links.next]
       ELSE IF e = links.next THEN [entries[e] EXCEPT !.prev = links.prev]
       ELSE entries[e]]
  /\ next' = IF next = k THEN links.next ELSE next

\* cancel_timeout with a handle whose token and tick match the entry k; any other
\* handle returns None.
CancelTimeout(k) ==
  /\ pc = "idle"
  /\ k \in Live
  /\ Unlink(k)
  /\ stale' = IF "cancelled" \in Kept THEN stale \cup {Handle(k)} ELSE stale
  /\ UNCHANGED <<nextTick, tick, callVars, registered, state, permit, threadVars, readyVars, interest, told, now>>

\* Timer::poll and the head of poll_to.  MaxTick bounds the ticks polled to.
PollStart ==
  /\ pc = "idle" /\ (told \/ Unprompted)
  /\ tick <= MaxTick
  /\ pc' = "poll"
  /\ target' = IF now < tick THEN tick ELSE now
  /\ UNCHANGED <<wheelVars, sched, cur, registered, state, permit, threadVars, readyVars, userVars>>

\* Mutant: the loop does not stop at the target.
PollTickRunaway ==
  LET s == slot_for(tick + 1) IN
  /\ pc = "poll"
  /\ next = EMPTY
  /\ tick' = tick + 1
  /\ next' = head[s]
  /\ nextTick' = IF head[s] = EMPTY THEN [nextTick EXCEPT ![s] = TICK_MAX] ELSE nextTick
  /\ UNCHANGED <<entries, head, callVars, registered, state, permit, threadVars, readyVars, userVars>>

\* Mutant: the slot is that of the tick before the increment.
PollTickOldSlot ==
  LET s == slot_for(tick) IN
  /\ pc = "poll" /\ tick <= target
  /\ next = EMPTY
  /\ tick' = tick + 1
  /\ next' = head[s]
  /\ nextTick' = IF head[s] = EMPTY THEN [nextTick EXCEPT ![s] = TICK_MAX] ELSE nextTick
  /\ UNCHANGED <<entries, head, callVars, registered, state, permit, threadVars, readyVars, userVars>>

\* The loop of poll_to: the slot is exhausted, on to the next tick.
PollTick ==
  LET s == slot_for(tick + 1) IN
  /\ pc = "poll" /\ tick <= target
  /\ next = EMPTY
  /\ tick' = tick + 1
  /\ next' = head[s]
  /\ nextTick' = IF head[s] = EMPTY THEN [nextTick EXCEPT ![s] = TICK_MAX] ELSE nextTick
  /\ UNCHANGED <<entries, head, callVars, registered, state, permit, threadVars, readyVars, userVars>>

\* next_tick of the current slot once its first entry has been looked at.
Visited ==
  LET s == slot_for(tick) IN
  IF next = head[s] THEN [nextTick EXCEPT ![s] = TICK_MAX] ELSE nextTick

\* ... an entry that is due is removed and returned.
PollFire ==
  /\ pc = "poll" /\ tick <= target
  /\ next # EMPTY /\ entries[next].tick <= tick
  /\ nextTick' = Visited
  /\ Unlink(next)
  /\ pc' = "idle" /\ target' = 0
  /\ told' = TRUE
  /\ stale' = IF "fired" \in Kept THEN stale \cup {Handle(next)} ELSE stale
  /\ UNCHANGED <<tick, sched, cur, registered, state, permit, threadVars, readyVars, interest, now>>

\* ... an entry of a later turn of the wheel is passed.
PollSkip ==
  /\ pc = "poll" /\ tick <= target
  /\ next # EMPTY /\ entries[next].tick > tick
  /\ nextTick' = [Visited EXCEPT ![slot_for(tick)] = Lesser(@, entries[next].tick)]
  /\ next' = entries[next].next
  /\ UNCHANGED <<entries, head, tick, callVars, registered, state, permit, threadVars, readyVars, userVars>>

\* Mutant: the next wakeup is not scheduled.
PollNoneUnscheduled ==
  /\ pc = "poll" /\ tick > target
  /\ told' = FALSE /\ target' = 0
  /\ readable' = IF registered THEN FALSE ELSE readable
  /\ pc' = "idle"
  /\ UNCHANGED <<wheelVars, sched, cur, registered, state, permit, threadVars, note, interest, now, stale>>

\* No more timeouts: readiness is unset and the next wakeup scheduled.
PollNone ==
  /\ pc = "poll" /\ tick > target
  /\ told' = FALSE /\ target' = 0
  /\ readable' = IF registered THEN FALSE ELSE readable
  /\ ScheduleReadiness(next_tick)
  /\ UNCHANGED <<wheelVars, cur, registered, state, permit, threadVars, note, interest, now, stale>>

-----------------------------------------------------------------------------
(* schedule_readiness: move the wakeup forward and tell the thread.        *)

\* The call returns; its locals are forgotten.
Return == pc' = "idle" /\ sched' = TICK_MAX /\ cur' = TICK_MAX

\* The top of the loop, with the state just read.
SchedLoop ==
  IF state <= sched THEN Return ELSE pc' = "cas" /\ cur' = state /\ UNCHANGED sched

SchedLoad ==
  /\ pc = "sched"
  /\ SchedLoop
  /\ UNCHANGED <<wheelVars, target, registered, state, permit, threadVars, readyVars, userVars>>

\* Mutant: the wakeup thread is not unparked.
SchedCasSilent ==
  /\ pc = "cas"
  /\ IF state = cur THEN state' = sched /\ Return
                    ELSE UNCHANGED state /\ SchedLoop
  /\ UNCHANGED <<wheelVars, target, registered, permit, threadVars, readyVars, userVars>>

SchedCas ==
  /\ pc = "cas"
  /\ IF state = cur THEN state' = sched /\ pc' = "unpark" /\ UNCHANGED <<sched, cur>>
                    ELSE UNCHANGED state /\ SchedLoop
  /\ UNCHANGED <<wheelVars, target, registered, permit, threadVars, readyVars, userVars>>

SchedUnpark ==
  /\ pc = "unpark"
  /\ permit' = TRUE
  /\ Return
  /\ UNCHANGED <<wheelVars, target, registered, state, threadVars, readyVars, userVars>>

\* register: a registration, a wakeup thread, and the wakeup for the timeouts set
\* so far.
Register ==
  /\ pc = "idle" /\ ~registered /\ Registering = "later"
  /\ registered' = TRUE /\ interest' = TRUE
  /\ state' = TICK_MAX
  /\ tpc' = "load"
  /\ pc' = "sched" /\ sched' = next_tick
  /\ UNCHANGED <<wheelVars, target, cur, permit, until, readyVars, told, now, stale>>

\* reregister and deregister: Registration::update queues a registration whose
\* events are set.
Reregister(i) ==
  /\ pc = "idle" /\ registered
  /\ interest' = i
  /\ note' = (note \/ readable)
  /\ UNCHANGED <<wheelVars, callVars, registered, state, permit, threadVars, readable, told, now, stale>>

\* The owner's poll looks at the queued registration, as promised by module
\* Readiness (Look): edge or level triggered, it may be looked at once more.
PollEvent ==
  LET ready == interest /\ readable IN
  /\ pc = "idle" /\ note
  /\ told' = (told \/ ready)
  /\ note' \in BOOLEAN
  /\ UNCHANGED <<wheelVars, callVars, registered, state, permit, threadVars, readable, interest, now, stale>>

-----------------------------------------------------------------------------
(* The wakeup thread.                                                      *)

WakeLoad ==
  /\ tpc = "load"
  /\ until' = state
  /\ tpc' = "check"
  /\ UNCHANGED <<wheelVars, callVars, registered, state, permit, readyVars, userVars>>

\* 0 is TERMINATE_THREAD.
WakeCheck ==
  /\ tpc = "check"
  /\ tpc' = IF until = 0 THEN "done" ELSE IF now < until THEN "park" ELSE "cas"
  /\ UNCHANGED <<wheelVars, callVars, registered, state, permit, until, readyVars, userVars>>

\* park or park_timeout returns: unparked, or the time has come.
WakeUnpark ==
  /\ tpc = "park"
  /\ permit \/ now >= until
  /\ permit' = FALSE
  /\ tpc' = "load"
  /\ UNCHANGED <<wheelVars, callVars, registered, state, until, readyVars, userVars>>

\* ... or spuriously, as park may.
WakeSpurious ==
  /\ tpc = "park" /\ ~permit /\ now < until
  /\ tpc' = "load"
  /\ UNCHANGED <<wheelVars, callVars, registered, state, permit, until, readyVars, userVars>>

WakeCas ==
  /\ tpc = "cas"
  /\ IF state = until THEN state' = TICK_MAX /\ tpc' = "set" /\ UNCHANGED until
     ELSE until' = state /\ tpc' = "check" /\ UNCHANGED state
  /\ UNCHANGED <<wheelVars, callVars, registered, permit, readyVars, userVars>>

WakeSet ==
  /\ tpc = "set"
  /\ readable' = TRUE /\ note' = TRUE
  /\ until' = TICK_MAX
  /\ tpc' = "check"
  /\ UNCHANGED <<wheelVars, callVars, registered, state, permit, userVars>>

Clock ==
  /\ now < MaxTick
  /\ now' = now + 1
  /\ UNCHANGED <<wheelVars, callVars, registered, state, permit, threadVars, readyVars, interest, told, stale>>

-----------------------------------------------------------------------------

PollStep == PollTick \/ PollFire \/ PollSkip \/ PollNone
SchedStep == SchedLoad \/ SchedCas \/ SchedUnpark
WakeStep == WakeLoad \/ WakeCheck \/ WakeUnpark \/ WakeCas \/ WakeSet

Next ==
  \/ \E k \in Tokens : (\E d \in 0..MaxTick : SetTimeout(d, k)) \/ CancelTimeout(k)
  \/ PollStart \/ PollStep \/ SchedStep
  \/ Register \/ (\E i \in Updates : Reregister(i)) \/ PollEvent
  \/ WakeStep \/ WakeSpurious
  \/ Clock

Spec == Init /\ [][Next]_vars

\* The clock runs, the wakeup thread and the calls of the user go on, and the
\* owner polls and calls Timer::poll once it was told.
Fairness ==
  /\ WF_vars(Clock)
  /\ WF_vars(WakeStep)
  /\ WF_vars(PollStep \/ SchedStep)
  /\ SF_vars(PollEvent)
  /\ SF_vars(told /\ PollStart)

FairSpec == Spec /\ Fairness

-----------------------------------------------------------------------------
(* Properties.                                                             *)

\* The wheel is sound whatever is inserted, cancelled and fired in between: the
\* entries of a slot are doubly linked from its head, every entry is in the list of
\* the slot its tick hashes to, and next points into the slot being polled.
WheelIsLinked ==
  /\ \A k \in Live :
       LET e == entries[k] IN
       /\ IF e.prev = EMPTY THEN head[slot_for(e.tick)] = k
          ELSE /\ e.prev \in Live /\ entries[e.prev].next = k
               /\ slot_for(entries[e.prev].tick) = slot_for(e.tick)
       /\ e.next # EMPTY => e.next \in Live /\ entries[e.next].prev = k
  /\ \A s \in DOMAIN head : head[s] # EMPTY => head[s] \in Live /\ entries[head[s]].prev = EMPTY
  /\ next # EMPTY => next \in Live /\ slot_for(entries[next].tick) = slot_for(tick)

\* No timeout is passed over: the wheel never moves beyond the tick of an entry
\* that has not fired, so timeouts fire in the order of their ticks, and poll
\* returns None only when nothing is due.
NothingOverdue == \A k \in Live : entries[k].tick >= tick

\* The handle of a timeout that fired never matches another timeout, although the
\* slab reuses its tokens: cancel_timeout with it returns None.  (A handle of a
\* cancelled timeout may; Kept leaves those out of stale.)
StaleHandleIsDead == \A h \in stale : h.token \in Live => entries[h.token].tick # h.tick

\* Between calls every timeout of a registered timer has a wakeup that is not later
\* than its tick: scheduled, about to be signalled, or signalled; or the user has
\* yet to poll until None.
WakeupCovers ==
  pc = "idle" /\ registered /\ interest =>
    \A k \in Live : state <= entries[k].tick \/ tpc = "set" \/ (note /\ readable) \/ told

\* The thread parks only when the state it slept for is still the one it read, or
\* it is about to be unparked.
ParkIsNotStale ==
  tpc = "park" /\ pc # "unpark" /\ ~permit => until = state

\* "Schedules a timeout after the requested time interval.  When the duration has
\* been reached, Handler::timeout will be invoked": no timeout fires before its tick.
FiresNotEarly == [][PollFire => entries[next].tick <= now]_vars

\* "Handle the case when a slot has a single timeout which gets canceled ...": what
\* next_tick returns between calls is not in the past.
NextTickIsAhead == pc = "idle" => next_tick >= tick

\* "Next tick containing a timeout": next_tick is not later than any timeout.
NextTickMissesNothing == pc = "idle" => \A k \in Live : next_tick <= entries[k].tick

\* Every timeout of a registered timer fires or is cancelled: eventually none is
\* left at its tick, unless the timer is deregistered (poll_to and
\* schedule_readiness against the wakeup thread).
TimeoutFires ==
  \A t \in 1..MaxTick :
    LET waiting == \E k \in Live : entries[k].tick = t IN
    (registered /\ interest /\ waiting) ~> (~waiting \/ ~interest)

=============================================================================
