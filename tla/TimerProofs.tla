---------------------------- MODULE TimerProofs -----------------------------
(***************************************************************************)
(* Invariance proofs for Timer, for any slab, any number of slots and any   *)
(* bound on the clock.                                                      *)
(***************************************************************************)
EXTENDS Timer, WellFoundedInduction, TLAPS

SlotOf(k) == slot_for(entries[k].tick)

\* f ranks the entries of every slot as its list orders them: without gaps, so
\* that whatever is behind an entry is its successor or behind it.
Ordered(f) ==
  /\ \A a, b \in Live : SlotOf(a) = SlotOf(b) /\ f[a] = f[b] => a = b
  /\ \A a \in Live : entries[a].next # EMPTY => SlotOf(entries[a].next) = SlotOf(a) /\ f[a] < f[entries[a].next]
  /\ \A a, b \in Live : SlotOf(a) = SlotOf(b) /\ f[a] < f[b] => entries[a].next # EMPTY /\ f[entries[a].next] <= f[b]
  /\ \A b \in Live : head[SlotOf(b)] # EMPTY /\ f[head[SlotOf(b)]] <= f[b]

\* poll_to has yet to look at entry k at the current tick.
Ahead(f, k) == SlotOf(k) = slot_for(tick) /\ next # EMPTY /\ f[next] <= f[k]

\* The next_tick of its slot takes entry k into account.
Known(k) == nextTick[SlotOf(k)] <= entries[k].tick

\* What is due is still ahead, and so is whatever its slot's next_tick forgot.
WheelOf(f) ==
  /\ WheelIsLinked
  /\ \A s \in 0..(Slots-1) : head[s] # EMPTY => SlotOf(head[s]) = s
  /\ Ordered(f)
  /\ \A k \in Live : entries[k].tick <= tick => Ahead(f, k)
  /\ \A k \in Live : Known(k) \/ Ahead(f, k)

WheelInv == \E f \in [Tokens -> Int] : WheelOf(f)

\* After a poll that returned None every next_tick is right: poll_to left the last
\* slot it looked at for one it has not looked into.
FreshInv == (IF pc = "poll" THEN tick > target ELSE ~told) => \A k \in Live : Known(k)

\* The types, and the bound on what is polled to.
BoundInv == TypeOK /\ target <= MaxTick

-----------------------------------------------------------------------------
(* Slots and ticks.                                                        *)

\* Most of the steps below are first-order: Zenon is asked before the SMT solver.
USE ZenonT(8), SMTT(20)

LEMMA SlotRange == \A t \in Nat : slot_for(t) \in 0..(Slots-1)
BY TicksAssumption DEF slot_for

\* A set of naturals that is not empty has a least element.
LEMMA LeastTick ==
  ASSUME NEW T \in SUBSET Nat, T # {}
  PROVE  \E t \in T : \A u \in T : t <= u
<1>1. PICK t \in T : \A u \in T : ~(<<u, t>> \in OpToRel(<, Nat))
  BY NatLessThanWellFounded, WFMin, Zenon
<1>2. \A u \in T : ~(u < t)
  BY <1>1, Zenon DEF OpToRel
<1>. QED
  BY <1>2

LEMMA NextTick ==
  ASSUME TypeOK, next # EMPTY => next \in Live
  PROVE  /\ next_tick \in Wakeups
         /\ next_tick = tick \/ \A s \in 0..(Slots-1) : next_tick <= nextTick[s]
<1>. DEFINE T == {nextTick[s] : s \in 0..(Slots-1)}
<1>1. T \subseteq Wakeups /\ T \subseteq Nat /\ 0 \in 0..(Slots-1)
  BY TicksAssumption DEF TypeOK, Wakeups, Ticks
<1>2. PICK t \in T : \A u \in T : t <= u
  BY <1>1, LeastTick
<1>3. \E u \in Wakeups : (\E s \in 0..(Slots-1) : u = nextTick[s]) /\ \A s \in 0..(Slots-1) : u <= nextTick[s]
  BY <1>1, <1>2
<1>4. tick \in Wakeups
  BY DEF TypeOK, Wakeups
<1>. QED
  BY <1>3, <1>4 DEF next_tick

-----------------------------------------------------------------------------
(* unlink: the entry is replaced by its successor and its predecessor.     *)

LEMMA LinkTypes ==
  ASSUME TypeOK, NEW k \in Live
  PROVE  /\ k \in Tokens /\ entries[k] \in Links
         /\ entries[k].tick \in Nat /\ SlotOf(k) \in 0..(Slots-1)
         /\ entries[k].next \in Tokens \cup {EMPTY} /\ entries[k].prev \in Tokens \cup {EMPTY}
<1>1. k \in Tokens /\ entries[k] \in Links
  BY DEF TypeOK, Live
<1>2. entries[k].tick \in Ticks /\ entries[k].next \in Tokens \cup {EMPTY} /\ entries[k].prev \in Tokens \cup {EMPTY}
  BY <1>1 DEF Links
<1>3. entries[k].tick \in Nat
  BY <1>2, TicksAssumption DEF Ticks
<1>. QED
  BY <1>1, <1>2, <1>3, SlotRange DEF SlotOf

LEMMA RelinkNext ==
  ASSUME NEW l \in Links, NEW k \in Tokens \cup {EMPTY}, NEW m, m = [l EXCEPT !.next = k]
  PROVE  m \in Links /\ m.tick = l.tick /\ m.prev = l.prev /\ m.next = k
BY DEF Links

LEMMA RelinkPrev ==
  ASSUME NEW l \in Links, NEW k \in Tokens \cup {EMPTY}, NEW m, m = [l EXCEPT !.prev = k]
  PROVE  m \in Links /\ m.tick = l.tick /\ m.next = l.next /\ m.prev = k
BY DEF Links

\* An entry is not linked to itself, nor on both sides to the same one.
LEMMA Neighbours ==
  ASSUME TypeOK, NEW f \in [Tokens -> Int], WheelIsLinked, Ordered(f), NEW k \in Live
  PROVE  /\ entries[k].next # EMPTY => entries[k].next \in Live /\ entries[k].next # k
         /\ entries[k].prev # EMPTY => entries[k].prev \in Live /\ entries[k].prev # k
         /\ entries[k].prev # EMPTY => entries[k].prev # entries[k].next
<1>1. \A e \in Live : e \in Tokens /\ f[e] \in Int
  BY DEF Live
<1>2. entries[k].next # EMPTY => entries[k].next \in Live /\ f[k] < f[entries[k].next]
  BY DEF WheelIsLinked, Ordered
<1>3. entries[k].prev # EMPTY => entries[k].prev \in Live /\ entries[entries[k].prev].next = k
  BY DEF WheelIsLinked
<1>4. entries[k].prev # EMPTY => f[entries[k].prev] < f[k]
  BY <1>3, TokensAssumption DEF Ordered, Live
<1>. QED
  BY <1>1, <1>2, <1>3, <1>4

\* What unlink does, one field at a time.
Replaces(k) ==
  /\ Live' = Live \ {k}
  /\ \A e \in Live \ {k} :
       /\ entries'[e].tick = entries[e].tick
       /\ entries'[e].next = IF entries[e].next = k THEN entries[k].next ELSE entries[e].next
       /\ entries'[e].prev = IF entries[e].prev = k THEN entries[k].prev ELSE entries[e].prev
  /\ DOMAIN head' = 0..(Slots-1)
  /\ \A s \in 0..(Slots-1) : head'[s] = IF head[s] = k THEN entries[k].next ELSE head[s]
  /\ next' = IF next = k THEN entries[k].next ELSE next

LEMMA UnlinkReplaces ==
  ASSUME TypeOK, NEW f \in [Tokens -> Int], WheelOf(f), NEW k \in Live, Unlink(k)
  PROVE  /\ Replaces(k)
         /\ entries' \in [Tokens -> Links \cup {Vacant}]
         /\ head' \in [0..(Slots-1) -> Tokens \cup {EMPTY}]
         /\ next' \in Tokens \cup {EMPTY}
<1>. DEFINE p == entries[k].prev
            n == entries[k].next
<1>1. k \in Tokens /\ p \in Tokens \cup {EMPTY} /\ n \in Tokens \cup {EMPTY} /\ SlotOf(k) \in 0..(Slots-1)
  BY LinkTypes
<1>2. p # EMPTY => p \in Live /\ p # k /\ p # n
  BY Neighbours DEF WheelOf
<1>3. n # EMPTY => n \in Live /\ n # k
  BY Neighbours DEF WheelOf
<1>4. \A e \in Tokens \ {k} : entries'[e] = IF e = p THEN [entries[e] EXCEPT !.next = n]
                                           ELSE IF e = n THEN [entries[e] EXCEPT !.prev = p]
                                           ELSE entries[e]
  BY DEF Unlink
<1>5. \A e \in Live : e \in Tokens /\ entries[e] \in Links
  BY LinkTypes
<1>6. \A e \in Live \ {k} :
        /\ entries'[e] \in Links
        /\ entries'[e].tick = entries[e].tick
        /\ entries'[e].next = IF e = p THEN n ELSE entries[e].next
        /\ entries'[e].prev = IF e = n THEN p ELSE entries[e].prev
  <2>. SUFFICES ASSUME NEW e \in Live \ {k}
                PROVE  /\ entries'[e] \in Links
                       /\ entries'[e].tick = entries[e].tick
                       /\ entries'[e].next = IF e = p THEN n ELSE entries[e].next
                       /\ entries'[e].prev = IF e = n THEN p ELSE entries[e].prev
    OBVIOUS
  <2>1. CASE e = p
    <3>1. entries'[e] = [entries[e] EXCEPT !.next = n] /\ e # n /\ entries[e] \in Links
      BY <1>1, <1>2, <1>4, <1>5, <2>1, TokensAssumption
    <3>. QED
      BY <1>1, <2>1, <3>1, RelinkNext
  <2>2. CASE e # p /\ e = n
    <3>1. entries'[e] = [entries[e] EXCEPT !.prev = p] /\ entries[e] \in Links
      BY <1>1, <1>4, <1>5, <2>2
    <3>. QED
      BY <1>1, <2>2, <3>1, RelinkPrev
  <2>3. CASE e # p /\ e # n
    BY <1>4, <1>5, <2>3
  <2>. QED
    BY <2>1, <2>2, <2>3
<1>7. entries'[k] = Vacant /\ \A e \in Tokens \ Live : entries'[e] = Vacant
  <2>1. entries'[k] = Vacant
    BY <1>1 DEF Unlink
  <2>2. \A e \in Tokens \ Live : e # p /\ e # n /\ e # k /\ entries[e] = Vacant
    BY <1>2, <1>3, TokensAssumption DEF Live
  <2>. QED
    BY <1>4, <2>1, <2>2
<1>8. Live' = Live \ {k}
  BY <1>1, <1>5, <1>6, <1>7, VacantAssumption DEF Live
<1>9. \A e \in Live \ {k} : (e = p <=> entries[e].next = k) /\ (e = n <=> entries[e].prev = k)
  BY <1>1, <1>5, TokensAssumption DEF WheelOf, WheelIsLinked
<1>10. \A s \in 0..(Slots-1) : head'[s] = IF head[s] = k THEN n ELSE head[s]
  <2>1. p = EMPTY => head[SlotOf(k)] = k
    BY DEF WheelOf, WheelIsLinked, SlotOf
  <2>2. \A s \in 0..(Slots-1) : head[s] = k => s = SlotOf(k) /\ p = EMPTY
    BY <1>1, TokensAssumption DEF WheelOf, WheelIsLinked, TypeOK
  <2>3. head' = IF p = EMPTY THEN [head EXCEPT ![SlotOf(k)] = n] ELSE head
    BY DEF Unlink, SlotOf
  <2>. QED
    BY <1>1, <2>1, <2>2, <2>3 DEF TypeOK
<1>11. next' = IF next = k THEN n ELSE next
  BY DEF Unlink
<1>a. head' \in [0..(Slots-1) -> Tokens \cup {EMPTY}] /\ next' \in Tokens \cup {EMPTY}
  BY <1>1, <1>11 DEF Unlink, TypeOK
<1>12. entries' \in [Tokens -> Links \cup {Vacant}]
  <2>1. entries' = [e \in Tokens |-> entries'[e]]
    BY DEF Unlink
  <2>2. \A e \in Tokens : entries'[e] \in Links \cup {Vacant}
    BY <1>6, <1>7
  <2>. QED
    BY <2>1, <2>2
<1>. QED
  BY <1>6, <1>8, <1>9, <1>10, <1>11, <1>12, <1>a DEF Replaces

\* The lists without k are lists, and what was ahead of poll_to still is.
LEMMA UnlinkWheel ==
  ASSUME TypeOK, NEW f \in [Tokens -> Int], WheelOf(f), NEW k \in Live, Replaces(k), tick' = tick
  PROVE  /\ WheelIsLinked'
         /\ \A s \in 0..(Slots-1) : head'[s] # EMPTY => SlotOf(head[s])' = s
         /\ Ordered(f)'
         /\ \A e \in Live' : Ahead(f, e) => Ahead(f, e)'
<1>. DEFINE n == entries[k].next
            p == entries[k].prev
<1>1. \A e \in Live : /\ e \in Tokens /\ e # EMPTY /\ f[e] \in Int /\ SlotOf(e) \in 0..(Slots-1)
                      /\ entries[e].next # EMPTY => entries[e].next \in Live
  BY LinkTypes, TokensAssumption DEF WheelOf, WheelIsLinked
<1>2. Live' = Live \ {k} /\ \A e \in Live \ {k} : SlotOf(e)' = SlotOf(e)
  BY DEF Replaces, SlotOf
<1>3. \A e \in Live : entries[e].next # EMPTY => SlotOf(entries[e].next) = SlotOf(e)
  BY DEF WheelOf, Ordered
<1>4. n # EMPTY => n \in Live \ {k} /\ SlotOf(n) = SlotOf(k) /\ entries[n].prev = k
  BY <1>3, Neighbours DEF WheelOf, WheelIsLinked
<1>5. p # EMPTY => p \in Live \ {k} /\ SlotOf(p) = SlotOf(k) /\ entries[p].next = k
  <2>1. p # EMPTY => p \in Live /\ p # k
    BY Neighbours DEF WheelOf
  <2>. QED
    BY <2>1 DEF WheelOf, WheelIsLinked, SlotOf
<1>6. \A s \in 0..(Slots-1) : head'[s] # EMPTY => head'[s] \in Live \ {k} /\ SlotOf(head'[s]) = s /\ entries'[head'[s]].prev = EMPTY
  <2>. SUFFICES ASSUME NEW s \in 0..(Slots-1), head'[s] # EMPTY
                PROVE  head'[s] \in Live \ {k} /\ SlotOf(head'[s]) = s /\ entries'[head'[s]].prev = EMPTY
    OBVIOUS
  <2>1. head[s] # EMPTY => head[s] \in Live /\ SlotOf(head[s]) = s /\ entries[head[s]].prev = EMPTY
    BY DEF WheelOf, WheelIsLinked, TypeOK
  <2>2. CASE head[s] = k
    BY <1>1, <1>4, <2>1, <2>2 DEF Replaces
  <2>3. CASE head[s] # k
    BY <1>1, <2>1, <2>3 DEF Replaces
  <2>. QED
    BY <2>2, <2>3
<1>7. \A e \in Live \ {k} : entries'[e].next # EMPTY =>
        entries'[e].next \in Live \ {k} /\ SlotOf(entries'[e].next) = SlotOf(e) /\ entries'[entries'[e].next].prev = e
  <2>. SUFFICES ASSUME NEW e \in Live \ {k}, entries'[e].next # EMPTY
                PROVE  entries'[e].next \in Live \ {k} /\ SlotOf(entries'[e].next) = SlotOf(e) /\ entries'[entries'[e].next].prev = e
    OBVIOUS
  <2>1. entries[e].next # EMPTY => entries[e].next \in Live /\ entries[entries[e].next].prev = e
    BY DEF WheelOf, WheelIsLinked
  <2>2. CASE entries[e].next = k
    BY <1>1, <1>3, <1>4, <2>1, <2>2 DEF Replaces
  <2>3. CASE entries[e].next # k
    BY <1>1, <1>3, <1>4, <2>1, <2>3 DEF Replaces
  <2>. QED
    BY <2>2, <2>3
<1>8. \A e \in Live \ {k} : IF entries'[e].prev = EMPTY THEN head'[SlotOf(e)] = e
        ELSE entries'[e].prev \in Live \ {k} /\ entries'[entries'[e].prev].next = e /\ SlotOf(entries'[e].prev) = SlotOf(e)
  <2>. SUFFICES ASSUME NEW e \in Live \ {k}
                PROVE  IF entries'[e].prev = EMPTY THEN head'[SlotOf(e)] = e
                       ELSE entries'[e].prev \in Live \ {k} /\ entries'[entries'[e].prev].next = e /\ SlotOf(entries'[e].prev) = SlotOf(e)
    OBVIOUS
  <2>1. IF entries[e].prev = EMPTY THEN head[SlotOf(e)] = e
        ELSE entries[e].prev \in Live /\ entries[entries[e].prev].next = e /\ SlotOf(entries[e].prev) = SlotOf(e)
    BY DEF WheelOf, WheelIsLinked, SlotOf
  <2>2. IF p = EMPTY THEN head[SlotOf(k)] = k ELSE p \in Live /\ entries[p].next = k /\ SlotOf(p) = SlotOf(k)
    BY DEF WheelOf, WheelIsLinked, SlotOf
  <2>3. CASE entries[e].prev = k
    <3>1. e = n /\ SlotOf(e) = SlotOf(k)
      BY <1>1, <2>1, <2>3
    <3>. QED
      BY <1>1, <1>5, <2>2, <2>3, <3>1 DEF Replaces
  <2>4. CASE entries[e].prev # k
    BY <1>1, <2>1, <2>4 DEF Replaces
  <2>. QED
    BY <2>3, <2>4
<1>9. next' # EMPTY => next' \in Live \ {k} /\ SlotOf(next') = slot_for(tick)
  <2>1. next # EMPTY => next \in Live /\ SlotOf(next) = slot_for(tick)
    BY DEF WheelOf, WheelIsLinked, SlotOf
  <2>. QED
    BY <1>1, <1>4, <2>1 DEF Replaces
<1>10. WheelIsLinked'
  BY <1>2, <1>6, <1>7, <1>8, <1>9 DEF WheelIsLinked, SlotOf, Replaces
<1>11. \A s \in 0..(Slots-1) : head'[s] # EMPTY => SlotOf(head[s])' = s
  BY <1>2, <1>6 DEF SlotOf
\* What is behind k is n or behind n.
<1>12. \A b \in Live \ {k} : SlotOf(b) = SlotOf(k) /\ f[k] <= f[b] => n # EMPTY /\ f[n] <= f[b]
  BY <1>1 DEF WheelOf, Ordered
<1>13. Ordered(f)'
  <2>1. \A a, b \in Live \ {k} : SlotOf(a) = SlotOf(b) /\ f[a] = f[b] => a = b
    BY DEF WheelOf, Ordered
  <2>2. \A a \in Live \ {k} : entries'[a].next # EMPTY => SlotOf(entries'[a].next) = SlotOf(a) /\ f[a] < f[entries'[a].next]
    <3>1. \A a \in Live : entries[a].next # EMPTY => f[a] < f[entries[a].next]
      BY DEF WheelOf, Ordered
    <3>. QED
      BY <1>1, <1>4, <1>7, <3>1 DEF Replaces
  <2>3. \A a, b \in Live \ {k} : SlotOf(a) = SlotOf(b) /\ f[a] < f[b] => entries'[a].next # EMPTY /\ f[entries'[a].next] <= f[b]
    <3>1. \A a, b \in Live : SlotOf(a) = SlotOf(b) /\ f[a] < f[b] => entries[a].next # EMPTY /\ f[entries[a].next] <= f[b]
      BY DEF WheelOf, Ordered
    <3>. QED
      BY <1>1, <1>3, <1>12, <3>1 DEF Replaces
  <2>4. \A b \in Live \ {k} : head'[SlotOf(b)] # EMPTY /\ f[head'[SlotOf(b)]] <= f[b]
    <3>1. \A b \in Live : head[SlotOf(b)] # EMPTY /\ f[head[SlotOf(b)]] <= f[b]
      BY DEF WheelOf, Ordered
    <3>2. \A b \in Live : head[SlotOf(b)] = k => SlotOf(k) = SlotOf(b)
      BY <1>1 DEF WheelOf
    <3>. QED
      BY <1>1, <1>12, <3>1, <3>2 DEF Replaces
  <2>. QED
    BY <1>2, <1>6, <1>7, <2>1, <2>2, <2>3, <2>4, <1>1 DEF Ordered
<1>14. \A e \in Live \ {k} : Ahead(f, e) => Ahead(f, e)'
  <2>1. next = k => SlotOf(k) = slot_for(tick)
    BY <1>1 DEF WheelOf, WheelIsLinked, SlotOf
  <2>. QED
    BY <1>2, <1>12, <2>1 DEF Ahead, Replaces
<1>. QED
  BY <1>2, <1>10, <1>11, <1>13, <1>14

-----------------------------------------------------------------------------
(* insert: the entry is put in front of its slot's list.                   *)

\* What set_timeout_at does to the wheel, one field at a time.
Inserts(k, t) ==
  /\ Live' = Live \cup {k}
  /\ entries'[k].tick = t /\ entries'[k].prev = EMPTY /\ entries'[k].next = head[slot_for(t)]
  /\ \A e \in Live :
       /\ entries'[e].tick = entries[e].tick /\ entries'[e].next = entries[e].next
       /\ entries'[e].prev = IF e = head[slot_for(t)] THEN k ELSE entries[e].prev
  /\ DOMAIN head' = 0..(Slots-1)
  /\ \A s \in 0..(Slots-1) : head'[s] = IF s = slot_for(t) THEN k ELSE head[s]

LEMMA SetTimeoutInserts ==
  ASSUME TypeOK, WheelInv, NEW d \in 0..MaxTick, NEW k \in Tokens, SetTimeout(d, k)
  PROVE  /\ k \notin Live
         /\ \E t \in Ticks :
              /\ t > tick /\ t <= MaxTick
              /\ Inserts(k, t)
              /\ nextTick' = [nextTick EXCEPT ![slot_for(t)] = Lesser(t, @)]
              /\ ScheduleReadiness(t)
         /\ entries' \in [Tokens -> Links \cup {Vacant}]
         /\ head' \in [0..(Slots-1) -> Tokens \cup {EMPTY}]
<1>. DEFINE t == IF now + d <= tick THEN tick + 1 ELSE now + d
            s == slot_for(t)
            h == head[s]
<1>1. t \in Ticks /\ t > tick /\ t <= MaxTick /\ t \in Nat
  BY TicksAssumption DEF SetTimeout, TypeOK, Ticks
<1>2. s \in 0..(Slots-1) /\ h \in Tokens \cup {EMPTY}
  BY <1>1, SlotRange DEF TypeOK
<1>3. k \notin Live /\ (h # EMPTY => h \in Live) /\ h # k
  BY <1>2, TokensAssumption DEF SetTimeout, WheelInv, WheelOf, WheelIsLinked, TypeOK
<1>4. \A e \in Tokens : entries'[e] = IF e = k THEN [tick |-> t, prev |-> EMPTY, next |-> h]
                                      ELSE IF e = h THEN [entries[e] EXCEPT !.prev = k] ELSE entries[e]
  BY DEF SetTimeout
<1>5. entries'[k] = [tick |-> t, prev |-> EMPTY, next |-> h]
  BY <1>4
<1>6. entries'[k] \in Links /\ entries'[k].tick = t /\ entries'[k].prev = EMPTY /\ entries'[k].next = h
  BY <1>1, <1>2, <1>5 DEF Links
<1>7. \A e \in Live :
        /\ entries'[e] \in Links
        /\ entries'[e].tick = entries[e].tick /\ entries'[e].next = entries[e].next
        /\ entries'[e].prev = IF e = h THEN k ELSE entries[e].prev
  <2>. SUFFICES ASSUME NEW e \in Live
                PROVE  /\ entries'[e] \in Links
                       /\ entries'[e].tick = entries[e].tick /\ entries'[e].next = entries[e].next
                       /\ entries'[e].prev = IF e = h THEN k ELSE entries[e].prev
    OBVIOUS
  <2>1. e \in Tokens /\ entries[e] \in Links /\ e # k
    BY <1>3, LinkTypes
  <2>2. CASE e = h
    <3>1. entries'[e] = [entries[e] EXCEPT !.prev = k]
      BY <1>4, <2>1, <2>2
    <3>. QED
      BY <2>1, <2>2, <3>1, RelinkPrev
  <2>3. CASE e # h
    BY <1>4, <2>1, <2>3
  <2>. QED
    BY <2>2, <2>3
<1>8. \A e \in Tokens \ Live : e # k => entries'[e] = Vacant
  BY <1>3, <1>4, TokensAssumption DEF Live
<1>9. Live' = Live \cup {k}
  BY <1>6, <1>7, <1>8, VacantAssumption DEF Live
<1>10. entries' \in [Tokens -> Links \cup {Vacant}]
  <2>1. entries' = [e \in Tokens |-> entries'[e]]
    BY DEF SetTimeout
  <2>. QED
    BY <1>6, <1>7, <1>8, <2>1
<1>11. head' = [head EXCEPT ![s] = k]
  BY DEF SetTimeout
<1>12. Inserts(k, t) /\ head' \in [0..(Slots-1) -> Tokens \cup {EMPTY}]
  BY <1>2, <1>6, <1>7, <1>9, <1>11 DEF Inserts, TypeOK
<1>13. nextTick' = [nextTick EXCEPT ![s] = Lesser(t, @)] /\ ScheduleReadiness(t)
  BY DEF SetTimeout
<1>. QED
  BY <1>1, <1>3, <1>10, <1>12, <1>13

LEMMA InsertWheel ==
  ASSUME TypeOK, NEW f \in [Tokens -> Int], WheelOf(f), NEW k \in Tokens \ Live, NEW t \in Ticks,
         t > tick, Inserts(k, t), nextTick' = [nextTick EXCEPT ![slot_for(t)] = Lesser(t, @)],
         tick' = tick, next' = next
  PROVE  /\ WheelInv'
         /\ \A e \in Live : Known(e) => Known(e)'
         /\ Known(k)'
<1>. DEFINE s == slot_for(t)
            h == head[s]
            S1(x) == slot_for(entries'[x].tick)
            K1(x) == nextTick'[S1(x)] <= entries'[x].tick
<1>a. s \in 0..(Slots-1) /\ (h # EMPTY => f[h] \in Int)
  BY SlotRange, TicksAssumption DEF Ticks, TypeOK
<1>b. [f EXCEPT ![k] = IF h = EMPTY THEN 0 ELSE f[h] - 1] \in [Tokens -> Int]
  BY <1>a
<1>0. PICK g \in [Tokens -> Int] : g = [f EXCEPT ![k] = IF h = EMPTY THEN 0 ELSE f[h] - 1]
  BY <1>b
<1>1. \A e \in Live : /\ e \in Tokens /\ e # EMPTY /\ e # k /\ f[e] \in Int /\ g[e] = f[e] /\ SlotOf(e) \in 0..(Slots-1)
                      /\ entries[e].tick \in Nat
                      /\ entries[e].next # EMPTY => entries[e].next \in Live
  BY <1>0, LinkTypes, TokensAssumption DEF WheelOf, WheelIsLinked
<1>2. t \in Nat /\ s \in 0..(Slots-1) /\ k # EMPTY /\ tick \in Nat
  BY SlotRange, TicksAssumption, TokensAssumption DEF Ticks, TypeOK
<1>3. \A e \in Live : S1(e) = SlotOf(e)
  BY DEF Inserts, SlotOf
<1>4. S1(k) = s
  BY DEF Inserts, SlotOf
<1>5. h # EMPTY => h \in Live /\ SlotOf(h) = s /\ entries[h].prev = EMPTY
  BY <1>2 DEF WheelOf, WheelIsLinked, TypeOK
<1>6. g[k] \in Int /\ (h # EMPTY => g[k] < g[h])
  BY <1>0, <1>1, <1>5
<1>7. \A e \in Live : SlotOf(e) = s => h # EMPTY /\ g[k] < g[e]
  BY <1>1, <1>5, <1>6 DEF WheelOf, Ordered
<1>8. WheelIsLinked'
  <2>1. \A e \in Live :
          /\ IF entries[e].prev = EMPTY THEN head[SlotOf(e)] = e
             ELSE entries[e].prev \in Live /\ entries[entries[e].prev].next = e /\ SlotOf(entries[e].prev) = SlotOf(e)
          /\ entries[e].next # EMPTY => entries[e].next \in Live /\ entries[entries[e].next].prev = e
    BY DEF WheelOf, WheelIsLinked, SlotOf
  <2>2. \A e \in Live :
          /\ IF entries'[e].prev = EMPTY THEN head'[SlotOf(e)] = e
             ELSE entries'[e].prev \in Live' /\ entries'[entries'[e].prev].next = e /\ S1(entries'[e].prev) = SlotOf(e)
          /\ entries'[e].next # EMPTY => entries'[e].next \in Live /\ entries'[entries'[e].next].prev = e
    <3>. SUFFICES ASSUME NEW e \in Live
                  PROVE  /\ IF entries'[e].prev = EMPTY THEN head'[SlotOf(e)] = e
                            ELSE entries'[e].prev \in Live' /\ entries'[entries'[e].prev].next = e /\ S1(entries'[e].prev) = SlotOf(e)
                         /\ entries'[e].next # EMPTY => entries'[e].next \in Live /\ entries'[entries'[e].next].prev = e
      OBVIOUS
    <3>0. entries'[e].next # EMPTY => entries'[e].next \in Live /\ entries'[entries'[e].next].prev = e
      <4>1. entries[e].next # EMPTY => entries[e].next \in Live /\ entries[e].next # h /\ entries[entries[e].next].prev = e
        BY <1>1, <1>5, <2>1
      <4>. QED
        BY <4>1 DEF Inserts
    <3>1. CASE e = h
      <4>1. entries'[e].prev = k /\ k \in Live' /\ entries'[k].next = e /\ S1(k) = SlotOf(e)
        BY <1>1, <1>4, <1>5, <3>1 DEF Inserts
      <4>. QED
        BY <1>2, <3>0, <4>1
    <3>2. CASE e # h
      <4>1. entries'[e].prev = entries[e].prev /\ (SlotOf(e) = s => head[SlotOf(e)] # e)
        BY <3>2 DEF Inserts
      <4>2. CASE entries[e].prev # EMPTY
        <5>1. entries[e].prev \in Live /\ entries[entries[e].prev].next = e /\ SlotOf(entries[e].prev) = SlotOf(e)
          BY <2>1, <4>2
        <5>2. S1(entries[e].prev) = SlotOf(e) /\ entries'[entries[e].prev].next = e /\ entries[e].prev \in Live'
          BY <1>3, <5>1 DEF Inserts
        <5>. QED
          BY <3>0, <4>1, <4>2, <5>2
      <4>3. CASE entries[e].prev = EMPTY
        <5>1. head[SlotOf(e)] = e /\ SlotOf(e) # s /\ SlotOf(e) \in 0..(Slots-1)
          BY <1>1, <2>1, <4>1, <4>3
        <5>2. head'[SlotOf(e)] = e
          BY <5>1 DEF Inserts
        <5>. QED
          BY <3>0, <4>1, <4>3, <5>2
      <4>. QED
        BY <4>2, <4>3
    <3>. QED
      BY <3>1, <3>2
  <2>3. entries'[k].prev = EMPTY /\ head'[s] = k /\ (entries'[k].next # EMPTY => entries'[k].next \in Live /\ entries'[entries'[k].next].prev = k)
    BY <1>2, <1>5 DEF Inserts
  <2>4. \A x \in 0..(Slots-1) : head'[x] # EMPTY => head'[x] \in Live' /\ entries'[head'[x]].prev = EMPTY
    <3>. SUFFICES ASSUME NEW x \in 0..(Slots-1), head'[x] # EMPTY
                  PROVE  head'[x] \in Live' /\ entries'[head'[x]].prev = EMPTY
      OBVIOUS
    <3>1. head[x] # EMPTY => head[x] \in Live /\ entries[head[x]].prev = EMPTY /\ SlotOf(head[x]) = x
      BY DEF WheelOf, WheelIsLinked, TypeOK
    <3>. QED
      BY <1>5, <3>1 DEF Inserts
  <2>5. next' # EMPTY => next' \in Live' /\ S1(next') = slot_for(tick')
    BY <1>3 DEF WheelOf, WheelIsLinked, SlotOf, Inserts
  <2>. QED
    BY <1>3, <1>4, <2>2, <2>3, <2>4, <2>5 DEF WheelIsLinked, SlotOf, Inserts
<1>9. \A x \in 0..(Slots-1) : head'[x] # EMPTY => S1(head'[x]) = x
  <2>1. \A x \in 0..(Slots-1) : head[x] # EMPTY => head[x] \in Live /\ SlotOf(head[x]) = x
    BY DEF WheelOf, WheelIsLinked, TypeOK
  <2>2. head'[s] = k /\ \A x \in 0..(Slots-1) : x # s => head'[x] = head[x]
    BY <1>2 DEF Inserts
  <2>. QED
    BY <1>3, <1>4, <2>1, <2>2
<1>10. Ordered(g)'
  <2>1. \A a, b \in Live' : S1(a) = S1(b) /\ g[a] = g[b] => a = b
    BY <1>1, <1>3, <1>4, <1>7 DEF WheelOf, Ordered, Inserts
  <2>2. \A a \in Live' : entries'[a].next # EMPTY => S1(entries'[a].next) = S1(a) /\ g[a] < g[entries'[a].next]
    <3>1. entries'[k].next # EMPTY => S1(entries'[k].next) = S1(k) /\ g[k] < g[entries'[k].next]
      BY <1>3, <1>4, <1>5, <1>6 DEF Inserts
    <3>2. \A a \in Live : entries[a].next # EMPTY => entries[a].next \in Live /\ SlotOf(entries[a].next) = SlotOf(a) /\ f[a] < f[entries[a].next]
      BY <1>1 DEF WheelOf, Ordered
    <3>3. \A a \in Live : entries'[a].next # EMPTY => S1(entries'[a].next) = S1(a) /\ g[a] < g[entries'[a].next]
      <4>. SUFFICES ASSUME NEW a \in Live, entries'[a].next # EMPTY
                    PROVE  S1(entries'[a].next) = S1(a) /\ g[a] < g[entries'[a].next]
        OBVIOUS
      <4>1. entries'[a].next = entries[a].next
        BY DEF Inserts
      <4>2. entries[a].next \in Live /\ SlotOf(entries[a].next) = SlotOf(a) /\ f[a] < f[entries[a].next]
        BY <3>2, <4>1
      <4>. QED
        BY <1>1, <1>3, <4>1, <4>2
    <3>. QED
      BY <3>1, <3>3 DEF Inserts
  <2>3. \A a, b \in Live' : S1(a) = S1(b) /\ g[a] < g[b] => entries'[a].next # EMPTY /\ g[entries'[a].next] <= g[b]
    <3>. SUFFICES ASSUME NEW a \in Live', NEW b \in Live', S1(a) = S1(b), g[a] < g[b]
                  PROVE  entries'[a].next # EMPTY /\ g[entries'[a].next] <= g[b]
      OBVIOUS
    <3>1. CASE a = k
      <4>1. b \in Live /\ SlotOf(b) = s
        BY <1>3, <1>4, <1>6, <3>1 DEF Inserts
      <4>2. h # EMPTY /\ f[h] <= f[b]
        BY <4>1 DEF WheelOf, Ordered
      <4>. QED
        BY <1>1, <1>5, <3>1, <4>1, <4>2 DEF Inserts
    <3>2. CASE a # k
      <4>1. a \in Live /\ b \in Live
        BY <1>1, <1>3, <1>4, <1>6, <1>7, <3>2 DEF Inserts
      <4>. QED
        BY <1>1, <1>3, <4>1 DEF WheelOf, Ordered, Inserts
    <3>. QED
      BY <3>1, <3>2
  <2>4. \A b \in Live' : head'[S1(b)] # EMPTY /\ g[head'[S1(b)]] <= g[b]
    <3>. SUFFICES ASSUME NEW b \in Live' PROVE head'[S1(b)] # EMPTY /\ g[head'[S1(b)]] <= g[b]
      OBVIOUS
    <3>1. CASE S1(b) = s
      BY <1>1, <1>2, <1>3, <1>6, <1>7, <3>1 DEF Inserts
    <3>2. CASE S1(b) # s
      <4>1. b \in Live /\ S1(b) = SlotOf(b) /\ SlotOf(b) \in 0..(Slots-1)
        BY <1>1, <1>3, <1>4, <3>2 DEF Inserts
      <4>2. head[SlotOf(b)] # EMPTY /\ head[SlotOf(b)] \in Live /\ f[head[SlotOf(b)]] <= f[b]
        BY <4>1 DEF WheelOf, WheelIsLinked, Ordered, TypeOK
      <4>. QED
        BY <1>1, <3>2, <4>1, <4>2 DEF Inserts
    <3>. QED
      BY <3>1, <3>2
  <2>. QED
    BY <2>1, <2>2, <2>3, <2>4 DEF Ordered, SlotOf
<1>11. \A e \in Live : Ahead(f, e) => S1(e) = slot_for(tick') /\ next' # EMPTY /\ g[next'] <= g[e]
  BY <1>1, <1>3 DEF Ahead, WheelOf, WheelIsLinked
<1>c. \A x \in 0..(Slots-1) : nextTick[x] \in Nat
  BY TicksAssumption DEF TypeOK, Wakeups, Ticks
<1>12. \A e \in Live : Known(e) => K1(e)
  <2>. SUFFICES ASSUME NEW e \in Live, Known(e) PROVE K1(e)
    OBVIOUS
  <2>1. nextTick[SlotOf(e)] <= entries[e].tick /\ entries'[e].tick = entries[e].tick /\ S1(e) = SlotOf(e)
    BY <1>3 DEF Known, Inserts
  <2>2. nextTick'[SlotOf(e)] <= nextTick[SlotOf(e)] /\ nextTick'[SlotOf(e)] \in Nat
    BY <1>1, <1>2, <1>c DEF Lesser, TypeOK
  <2>. QED
    BY <1>1, <1>c, <2>1, <2>2
<1>13. K1(k)
  <2>1. nextTick'[s] <= t
    BY <1>2, <1>c DEF Lesser, TypeOK
  <2>. QED
    BY <1>4, <2>1 DEF Inserts
<1>14. \A e \in Live' : /\ entries'[e].tick <= tick' => S1(e) = slot_for(tick') /\ next' # EMPTY /\ g[next'] <= g[e]
                        /\ K1(e) \/ (S1(e) = slot_for(tick') /\ next' # EMPTY /\ g[next'] <= g[e])
  <2>1. \A e \in Live : (entries[e].tick <= tick => Ahead(f, e)) /\ (Known(e) \/ Ahead(f, e))
    BY DEF WheelOf
  <2>2. ~(entries'[k].tick <= tick')
    BY <1>2 DEF Inserts
  <2>3. Live' = Live \cup {k} /\ \A e \in Live : entries'[e].tick = entries[e].tick
    BY DEF Inserts
  <2>. QED
    BY <1>11, <1>12, <1>13, <2>1, <2>2, <2>3
<1>15. WheelOf(g)'
  BY <1>8, <1>9, <1>10, <1>14 DEF WheelOf, Ahead, Known, SlotOf
<1>. QED
  BY <1>12, <1>13, <1>15 DEF WheelInv, Known, SlotOf

-----------------------------------------------------------------------------
(* The steps of the wheel.                                                 *)

\* No timeout was set, and those left are where they were.
Shrinks == Live' \subseteq Live /\ \A e \in Live' : entries'[e].tick = entries[e].tick

\* A timeout is cancelled.
LEMMA CancelWheel ==
  ASSUME TypeOK, WheelInv, NEW k \in Live, Unlink(k), UNCHANGED <<tick, nextTick>>
  PROVE  WheelInv' /\ Shrinks /\ \A e \in Live' : Known(e) => Known(e)'
<1>1. PICK f \in [Tokens -> Int] : WheelOf(f)
  BY DEF WheelInv
<1>2. Replaces(k)
  BY <1>1, UnlinkReplaces
<1>3. Shrinks /\ \A e \in Live' : Known(e)' = Known(e)
  BY <1>2 DEF Replaces, Shrinks, Known, SlotOf
<1>4. /\ WheelIsLinked' /\ Ordered(f)' /\ \A e \in Live' : Ahead(f, e) => Ahead(f, e)'
      /\ \A s \in 0..(Slots-1) : head'[s] # EMPTY => SlotOf(head[s])' = s
  BY <1>1, <1>2, UnlinkWheel
<1>5. \A e \in Live' : (entries'[e].tick <= tick' => Ahead(f, e)') /\ (Known(e)' \/ Ahead(f, e)')
  BY <1>1, <1>3, <1>4 DEF WheelOf, Shrinks
<1>6. WheelOf(f)'
  BY <1>4, <1>5 DEF WheelOf
<1>. QED
  BY <1>3, <1>6 DEF WheelInv

\* poll_to returns an entry: what is left of the slot is ahead, or was passed.
LEMMA FireWheel ==
  ASSUME TypeOK, WheelInv, PollFire
  PROVE  WheelInv' /\ Shrinks
<1>1. PICK f \in [Tokens -> Int] : WheelOf(f)
  BY DEF WheelInv
<1>. DEFINE s == slot_for(tick)
<1>2. next \in Live /\ SlotOf(next) = s
  BY <1>1 DEF PollFire, WheelOf, WheelIsLinked, SlotOf
<1>3. Unlink(next) /\ tick' = tick
  BY DEF PollFire
<1>4. Replaces(next)
  BY <1>1, <1>2, <1>3, UnlinkReplaces
<1>5. Shrinks /\ \A e \in Live' : SlotOf(e)' = SlotOf(e)
  BY <1>4 DEF Replaces, Shrinks, SlotOf
<1>6. /\ WheelIsLinked' /\ Ordered(f)' /\ \A e \in Live' : Ahead(f, e) => Ahead(f, e)'
      /\ \A x \in 0..(Slots-1) : head'[x] # EMPTY => SlotOf(head[x])' = x
  BY <1>1, <1>2, <1>3, <1>4, UnlinkWheel
<1>7. \A e \in Live' : Known(e) => Known(e)' \/ Ahead(f, e)
  <2>. SUFFICES ASSUME NEW e \in Live', Known(e), ~Ahead(f, e) PROVE Known(e)'
    OBVIOUS
  <2>1. e \in Live /\ SlotOf(e) \in 0..(Slots-1) /\ e \in Tokens /\ next \in Tokens
    BY <1>2, <1>5, LinkTypes DEF Shrinks
  <2>2. SlotOf(e) = s => next # head[s]
    BY <1>1, <1>2, <2>1, TokensAssumption DEF Ahead, WheelOf, Ordered
  <2>3. nextTick'[SlotOf(e)] = nextTick[SlotOf(e)]
    BY <1>2, <2>1, <2>2 DEF PollFire, Visited, TypeOK
  <2>. QED
    BY <1>5, <2>3 DEF Known, Shrinks
<1>8. \A e \in Live' : (entries'[e].tick <= tick' => Ahead(f, e)') /\ (Known(e)' \/ Ahead(f, e)')
  BY <1>1, <1>3, <1>5, <1>6, <1>7 DEF WheelOf, Shrinks
<1>9. WheelOf(f)'
  BY <1>6, <1>8 DEF WheelOf
<1>. QED
  BY <1>5, <1>9 DEF WheelInv

\* poll_to passes an entry of a later turn, whose tick its slot's next_tick now knows.
LEMMA SkipWheel ==
  ASSUME TypeOK, WheelInv, PollSkip
  PROVE  WheelInv'
<1>1. PICK f \in [Tokens -> Int] : WheelOf(f)
  BY DEF WheelInv
<1>. DEFINE s == slot_for(tick)
            n == entries[next].next
<1>2. next \in Live /\ SlotOf(next) = s /\ entries[next].tick > tick /\ UNCHANGED <<entries, head, tick>> /\ next' = n
  BY <1>1 DEF PollSkip, WheelOf, WheelIsLinked, SlotOf
<1>3. \A e \in Live : /\ e \in Tokens /\ e # EMPTY /\ f[e] \in Int /\ SlotOf(e) \in 0..(Slots-1) /\ entries[e].tick \in Nat
                      /\ nextTick[SlotOf(e)] \in Nat
  BY LinkTypes, TokensAssumption, TicksAssumption DEF TypeOK, Wakeups, Ticks
<1>4. n # EMPTY => n \in Live /\ SlotOf(n) = s
  BY <1>1, <1>2 DEF WheelOf, WheelIsLinked, Ordered
<1>5. Live' = Live /\ \A e \in Live : SlotOf(e)' = SlotOf(e)
  BY <1>2 DEF Live, SlotOf
<1>6. \A e \in Live : Ahead(f, e) /\ e # next => Ahead(f, e)'
  BY <1>1, <1>2, <1>3, <1>5 DEF WheelOf, Ordered, Ahead
<1>7. ~Ahead(f, next) \/ ~(entries[next].tick <= tick)
  BY <1>2, <1>3 DEF TypeOK, Ticks
<1>8. \A e \in Live : Known(e)' \/ Ahead(f, e)'
  <2>. SUFFICES ASSUME NEW e \in Live PROVE Known(e)' \/ Ahead(f, e)'
    OBVIOUS
  <2>0. s \in 0..(Slots-1) /\ TICK_MAX \in Nat
    BY <1>2, <1>3, TicksAssumption
  <2>1. CASE e = next
    <3>1. Visited[s] \in Nat /\ nextTick' = [Visited EXCEPT ![s] = Lesser(@, entries[next].tick)] /\ DOMAIN Visited = 0..(Slots-1)
      BY <1>2, <1>3, <2>0 DEF Visited, PollSkip, TypeOK
    <3>2. nextTick'[s] <= entries[next].tick
      BY <1>2, <1>3, <2>0, <3>1 DEF Lesser
    <3>. QED
      BY <1>2, <2>1, <3>2 DEF Known, SlotOf
  <2>2. CASE e # next /\ Ahead(f, e)
    BY <1>6, <2>2
  <2>3. CASE e # next /\ ~Ahead(f, e)
    <3>1. Known(e)
      BY <1>1, <2>3 DEF WheelOf
    <3>2. CASE SlotOf(e) = s
      <4>1. next # head[s]
        BY <1>1, <1>2, <1>3, <2>3, <3>2 DEF Ahead, WheelOf, Ordered
      <4>2. nextTick' = [nextTick EXCEPT ![s] = Lesser(@, entries[next].tick)]
        BY <4>1 DEF Visited, PollSkip
      <4>3. nextTick'[SlotOf(e)] <= nextTick[SlotOf(e)] /\ nextTick'[SlotOf(e)] \in Nat
        BY <1>2, <1>3, <3>2, <4>2 DEF Lesser, TypeOK
      <4>. QED
        BY <1>2, <1>3, <3>1, <4>3 DEF Known, SlotOf
    <3>3. CASE SlotOf(e) # s
      <4>1. nextTick'[SlotOf(e)] = nextTick[SlotOf(e)]
        BY <1>3, <3>3 DEF Visited, PollSkip, TypeOK
      <4>. QED
        BY <1>2, <3>1, <4>1 DEF Known, SlotOf
    <3>. QED
      BY <3>2, <3>3
  <2>. QED
    BY <2>1, <2>2, <2>3
<1>9. \A e \in Live : entries[e].tick <= tick => Ahead(f, e)'
  BY <1>1, <1>6, <1>7 DEF WheelOf
<1>10. WheelIsLinked' /\ Ordered(f)' /\ \A x \in 0..(Slots-1) : head'[x] # EMPTY => SlotOf(head[x])' = x
  BY <1>1, <1>2, <1>4, <1>5 DEF WheelOf, WheelIsLinked, Ordered, SlotOf
<1>11. WheelOf(f)'
  BY <1>2, <1>5, <1>8, <1>9, <1>10 DEF WheelOf
<1>. QED
  BY <1>11 DEF WheelInv

\* poll_to goes on to the next tick: nothing is ahead at the old one, so that nothing
\* is due there and every next_tick is right.
LEMMA TickWheel ==
  ASSUME TypeOK, WheelInv, PollTick
  PROVE  WheelInv' /\ \A k \in Live' : Known(k)' /\ entries'[k].tick >= tick'
<1>1. PICK f \in [Tokens -> Int] : WheelOf(f)
  BY DEF WheelInv
<1>. DEFINE s == slot_for(tick + 1)
<1>2. next = EMPTY /\ UNCHANGED <<entries, head>> /\ tick' = tick + 1 /\ next' = head[s]
  BY DEF PollTick
<1>3. \A e \in Live : entries[e].tick \in Nat /\ SlotOf(e) \in 0..(Slots-1)
  BY LinkTypes
<1>4. tick \in Nat /\ s \in 0..(Slots-1)
  BY SlotRange, TicksAssumption DEF TypeOK, Ticks
<1>5. \A e \in Live : entries[e].tick > tick /\ Known(e)
  BY <1>1, <1>2, <1>3, <1>4 DEF WheelOf, Ahead
<1>6. Live' = Live /\ \A e \in Live : SlotOf(e)' = SlotOf(e)
  BY <1>2 DEF Live, SlotOf
<1>7. \A e \in Live : SlotOf(e) = s => head[s] # EMPTY /\ f[head[s]] <= f[e]
  BY <1>1 DEF WheelOf, Ordered
<1>8. \A e \in Live : Known(e)'
  <2>1. \A e \in Live : nextTick'[SlotOf(e)] = nextTick[SlotOf(e)]
    BY <1>3, <1>4, <1>7 DEF PollTick, TypeOK
  <2>. QED
    BY <1>2, <1>5, <2>1 DEF Known, SlotOf
<1>9. \A e \in Live : entries[e].tick <= tick + 1 => Ahead(f, e)'
  <2>1. \A e \in Live : entries[e].tick <= tick + 1 => SlotOf(e) = s
    BY <1>3, <1>4, <1>5 DEF SlotOf
  <2>. QED
    BY <1>2, <1>6, <1>7, <2>1 DEF Ahead
<1>10. head[s] # EMPTY => head[s] \in Live /\ SlotOf(head[s]) = s
  BY <1>1, <1>4 DEF WheelOf, WheelIsLinked, TypeOK
<1>11. WheelIsLinked' /\ Ordered(f)' /\ \A x \in 0..(Slots-1) : head'[x] # EMPTY => SlotOf(head[x])' = x
  BY <1>1, <1>2, <1>6, <1>10 DEF WheelOf, WheelIsLinked, Ordered, SlotOf
<1>12. WheelOf(f)'
  BY <1>2, <1>6, <1>8, <1>9, <1>11 DEF WheelOf
<1>13. \A k \in Live : entries[k].tick >= tick + 1
  BY <1>3, <1>4, <1>5
<1>. QED
  BY <1>2, <1>6, <1>8, <1>12, <1>13 DEF WheelInv

\* A timeout is set.
LEMMA SetWheel ==
  ASSUME TypeOK, WheelInv, NEW d \in 0..MaxTick, NEW k \in Tokens, SetTimeout(d, k)
  PROVE  \E t \in Ticks :
           /\ t > tick /\ ScheduleReadiness(t)
           /\ k \notin Live /\ Live' = Live \cup {k} /\ entries'[k].tick = t
           /\ \A e \in Live : entries'[e].tick = entries[e].tick
           /\ WheelInv'
           /\ (\A e \in Live : Known(e)) => \A e \in Live' : Known(e)'
           /\ nextTick' = [nextTick EXCEPT ![slot_for(t)] = Lesser(t, @)]
<1>1. PICK f \in [Tokens -> Int] : WheelOf(f)
  BY DEF WheelInv
<1>2. k \notin Live
  BY SetTimeoutInserts
<1>3. PICK t \in Ticks : /\ t > tick /\ Inserts(k, t) /\ ScheduleReadiness(t)
                         /\ nextTick' = [nextTick EXCEPT ![slot_for(t)] = Lesser(t, @)]
  BY SetTimeoutInserts
<1>4. tick' = tick /\ next' = next
  BY DEF SetTimeout
<1>5. WheelInv' /\ (\A e \in Live : Known(e) => Known(e)') /\ Known(k)'
  BY <1>1, <1>2, <1>3, <1>4, InsertWheel
<1>6. (\A e \in Live : Known(e)) => \A e \in Live' : Known(e)'
  <2>. SUFFICES ASSUME \A e \in Live : Known(e), NEW e \in Live' PROVE Known(e)'
    OBVIOUS
  <2>1. CASE e \in Live
    BY <1>5, <2>1
  <2>2. CASE e \notin Live
    <3>1. e = k
      BY <1>3, <2>2 DEF Inserts
    <3>. QED
      BY <1>5, <3>1 DEF Known, SlotOf
  <2>. QED
    BY <2>1, <2>2
<1>. QED
  BY <1>2, <1>3, <1>5, <1>6 DEF Inserts

-----------------------------------------------------------------------------
(* Types.                                                                  *)

LEMMA TypeInit == Init => BoundInv
<1>. SUFFICES ASSUME Init PROVE BoundInv
  OBVIOUS
<1>1. registered \in BOOLEAN /\ interest \in BOOLEAN /\ permit \in BOOLEAN /\ readable \in BOOLEAN /\ note \in BOOLEAN /\ told \in BOOLEAN
  BY Zenon DEF Init
<1>2. tpc \in {"load", "none"} /\ pc = "idle" /\ stale = {}
  BY Zenon DEF Init
<1>3. tick = 0 /\ next = EMPTY /\ target = 0 /\ now = 0 /\ sched = TICK_MAX /\ cur = TICK_MAX /\ state = TICK_MAX /\ until = TICK_MAX
  BY DEF Init
<1>4. /\ entries \in [Tokens -> Links \cup {Vacant}] /\ head \in [0..(Slots-1) -> Tokens \cup {EMPTY}]
      /\ nextTick \in [0..(Slots-1) -> Wakeups]
  BY DEF Init, Wakeups
<1>. QED
  BY <1>1, <1>2, <1>3, <1>4, TicksAssumption DEF BoundInv, TypeOK, Ticks, Wakeups

LEMMA TypeStep ==
  ASSUME BoundInv, WheelInv, [Next]_vars
  PROVE  BoundInv'
<1>. USE TicksAssumption, ChoicesAssumption DEF Ticks, Wakeups
<1>0. TypeOK /\ target <= MaxTick
  BY DEF BoundInv
<1>1. PICK f \in [Tokens -> Int] : WheelOf(f)
  BY DEF WheelInv
<1>2. /\ next # EMPTY => next \in Live
      /\ \A s \in 0..(Slots-1) : head[s] \in Tokens \cup {EMPTY}
  BY <1>0, <1>1 DEF WheelOf, WheelIsLinked, TypeOK
<1>3. next_tick \in Wakeups
  BY <1>0, <1>2, NextTick
<1>4. slot_for(tick) \in 0..(Slots-1) /\ slot_for(tick + 1) \in 0..(Slots-1)
  BY <1>0, SlotRange DEF TypeOK
<1>5. \A e \in Live : entries[e] \in Links /\ entries[e].tick \in Ticks /\ entries[e].next \in Tokens \cup {EMPTY} /\ Handle(e) \in Handles
  BY <1>0, LinkTypes DEF Links, Handle, Handles
<1>6. Visited \in [0..(Slots-1) -> Wakeups]
  BY <1>0, <1>4 DEF Visited, TypeOK
<1>7. ASSUME NEW k \in Tokens, NEW d \in 0..MaxTick, SetTimeout(d, k) PROVE BoundInv'
  <2>1. entries' \in [Tokens -> Links \cup {Vacant}] /\ head' \in [0..(Slots-1) -> Tokens \cup {EMPTY}]
    BY <1>0, <1>7, SetTimeoutInserts
  <2>2. PICK t \in Ticks : ScheduleReadiness(t) /\ nextTick' = [nextTick EXCEPT ![slot_for(t)] = Lesser(t, @)]
    BY <1>0, <1>7, SetWheel
  <2>3. nextTick' \in [0..(Slots-1) -> Wakeups]
    BY <1>0, <2>2 DEF Lesser, TypeOK
  <2>4. pc' \in {"sched", "idle"} /\ sched' \in Wakeups
    BY <1>0, <2>2 DEF ScheduleReadiness, TypeOK
  <2>5. UNCHANGED <<tick, next, target, cur, registered, state, permit, threadVars, readyVars, userVars>>
    BY <1>7 DEF SetTimeout
  <2>. QED
    BY <1>0, <2>1, <2>3, <2>4, <2>5 DEF BoundInv, TypeOK, threadVars, readyVars, userVars
<1>8. ASSUME NEW k \in Tokens, CancelTimeout(k) PROVE BoundInv'
  <2>1. entries' \in [Tokens -> Links \cup {Vacant}] /\ head' \in [0..(Slots-1) -> Tokens \cup {EMPTY}] /\ next' \in Tokens \cup {EMPTY}
    BY <1>0, <1>1, <1>8, UnlinkReplaces DEF CancelTimeout
  <2>2. stale' \subseteq Handles
    BY <1>0, <1>5, <1>8 DEF CancelTimeout, TypeOK
  <2>. QED
    BY <1>0, <1>8, <2>1, <2>2 DEF CancelTimeout, BoundInv, TypeOK, callVars, threadVars, readyVars
<1>9. CASE PollStart
  BY <1>0, <1>9 DEF PollStart, BoundInv, TypeOK, wheelVars, threadVars, readyVars, userVars
<1>10. CASE PollTick
  <2>1. nextTick' \in [0..(Slots-1) -> Wakeups] /\ next' \in Tokens \cup {EMPTY} /\ tick' \in Ticks
    BY <1>0, <1>2, <1>4, <1>10 DEF PollTick, TypeOK
  <2>. QED
    BY <1>0, <1>10, <2>1 DEF PollTick, BoundInv, TypeOK, callVars, threadVars, readyVars, userVars
<1>11. CASE PollFire
  <2>1. entries' \in [Tokens -> Links \cup {Vacant}] /\ head' \in [0..(Slots-1) -> Tokens \cup {EMPTY}] /\ next' \in Tokens \cup {EMPTY}
    BY <1>0, <1>1, <1>2, <1>11, UnlinkReplaces DEF PollFire
  <2>2. stale' \subseteq Handles
    BY <1>0, <1>2, <1>5, <1>11 DEF PollFire, TypeOK
  <2>. QED
    BY <1>0, <1>6, <1>11, <2>1, <2>2 DEF PollFire, BoundInv, TypeOK, threadVars, readyVars
<1>12. CASE PollSkip
  <2>1. nextTick' \in [0..(Slots-1) -> Wakeups] /\ next' \in Tokens \cup {EMPTY}
    BY <1>2, <1>4, <1>5, <1>6, <1>12 DEF PollSkip, Lesser
  <2>. QED
    BY <1>0, <1>12, <2>1 DEF PollSkip, BoundInv, TypeOK, callVars, threadVars, readyVars, userVars
<1>13. CASE PollNone
  <2>1. readable' \in BOOLEAN /\ told' \in BOOLEAN
    BY <1>0, <1>13, Zenon DEF PollNone, TypeOK
  <2>2. pc' \in {"sched", "idle"} /\ sched' \in Wakeups /\ target' = 0
    BY <1>0, <1>3, <1>13 DEF PollNone, ScheduleReadiness, TypeOK
  <2>3. UNCHANGED <<wheelVars, cur, registered, state, permit, threadVars, note, interest, now, stale>>
    BY <1>13 DEF PollNone
  <2>. QED
    BY <1>0, <2>1, <2>2, <2>3 DEF BoundInv, TypeOK, wheelVars, threadVars
<1>14. CASE SchedStep
  <2>1. permit' \in BOOLEAN
    BY <1>0, <1>14, Zenon DEF SchedStep, SchedLoad, SchedCas, SchedUnpark, TypeOK
  <2>2. pc' \in {"idle", "cas", "unpark"} /\ sched' \in Wakeups /\ cur' \in Wakeups /\ state' \in Wakeups
    BY <1>0, <1>14 DEF SchedStep, SchedLoad, SchedCas, SchedUnpark, SchedLoop, Return, TypeOK
  <2>3. UNCHANGED <<wheelVars, target, registered, threadVars, readyVars, userVars>>
    BY <1>14 DEF SchedStep, SchedLoad, SchedCas, SchedUnpark
  <2>. QED
    BY <1>0, <2>1, <2>2, <2>3 DEF BoundInv, TypeOK, wheelVars, threadVars, readyVars, userVars
<1>15. CASE Register
  BY <1>0, <1>3, <1>15 DEF Register, BoundInv, TypeOK, wheelVars, readyVars
<1>16. ASSUME NEW i \in Updates, Reregister(i) PROVE BoundInv'
  BY <1>0, <1>16 DEF Reregister, BoundInv, TypeOK, wheelVars, callVars, threadVars
<1>17. CASE PollEvent
  BY <1>0, <1>17 DEF PollEvent, BoundInv, TypeOK, wheelVars, callVars, threadVars
<1>18. CASE WakeStep \/ WakeSpurious
  <2>. USE DEF WakeStep, WakeSpurious, WakeLoad, WakeCheck, WakeUnpark, WakeCas, WakeSet
  <2>1. permit' \in BOOLEAN /\ readable' \in BOOLEAN /\ note' \in BOOLEAN
    BY <1>0, <1>18, Zenon DEF TypeOK, readyVars
  <2>2. tpc' \in {"load", "check", "park", "cas", "set", "done"} /\ until' \in Wakeups /\ state' \in Wakeups
    BY <1>0, <1>18 DEF TypeOK
  <2>3. UNCHANGED <<wheelVars, callVars, registered, userVars>>
    BY <1>18
  <2>. HIDE DEF WakeStep, WakeSpurious, WakeLoad, WakeCheck, WakeUnpark, WakeCas, WakeSet
  <2>. QED
    BY <1>0, <2>1, <2>2, <2>3 DEF BoundInv, TypeOK, wheelVars, callVars, userVars
<1>19. CASE Clock
  BY <1>0, <1>19 DEF Clock, BoundInv, TypeOK, wheelVars, callVars, threadVars, readyVars
<1>20. CASE UNCHANGED vars
  BY <1>0, <1>20 DEF vars, BoundInv, TypeOK, wheelVars, callVars, threadVars, readyVars, userVars
<1>. QED
  BY <1>7, <1>8, <1>9, <1>10, <1>11, <1>12, <1>13, <1>14, <1>15, <1>16, <1>17, <1>18, <1>19, <1>20 DEF Next, PollStep

-----------------------------------------------------------------------------
(* The wheel, at every step.                                               *)

\* A step that leaves the wheel alone.
LEMMA SameWheel ==
  ASSUME UNCHANGED wheelVars
  PROVE  /\ WheelInv' = WheelInv /\ NothingOverdue' = NothingOverdue
         /\ (\A k \in Live : Known(k))' = (\A k \in Live : Known(k))
         /\ Shrinks
<1>1. Live' = Live
  BY DEF wheelVars, Live
<1>2. WheelInv' = WheelInv
  BY <1>1 DEF wheelVars, WheelInv, WheelOf, WheelIsLinked, Ordered, Ahead, Known, SlotOf
<1>3. NothingOverdue' = NothingOverdue /\ (\A k \in Live : Known(k))' = (\A k \in Live : Known(k)) /\ Shrinks
  BY <1>1 DEF wheelVars, NothingOverdue, Known, SlotOf, Shrinks
<1>. QED
  BY <1>2, <1>3

LEMMA WheelInit == Init => WheelInv /\ NothingOverdue /\ FreshInv
<1>. SUFFICES ASSUME Init PROVE WheelInv /\ NothingOverdue /\ FreshInv
  OBVIOUS
<1>1. Live = {} /\ next = EMPTY /\ DOMAIN head = 0..(Slots-1) /\ \A s \in 0..(Slots-1) : head[s] = EMPTY
  BY DEF Init, Live
<1>2. [k \in Tokens |-> 0] \in [Tokens -> Int]
  OBVIOUS
<1>3. \A f \in [Tokens -> Int] : WheelOf(f)
  BY <1>1 DEF WheelOf, WheelIsLinked, Ordered
<1>. QED
  BY <1>1, <1>2, <1>3 DEF WheelInv, NothingOverdue, FreshInv

LEMMA WheelStep ==
  ASSUME BoundInv, WheelInv, NothingOverdue, FreshInv, [Next]_vars
  PROVE  WheelInv' /\ NothingOverdue' /\ FreshInv'
<1>0. TypeOK /\ tick \in Nat /\ now \in Nat
  BY TicksAssumption DEF BoundInv, TypeOK, Ticks
<1>1. next # EMPTY => next \in Live
  BY DEF WheelInv, WheelOf, WheelIsLinked
<1>2. \A e \in Live : entries[e].tick \in Nat
  BY <1>0, LinkTypes
<1>3. ASSUME NEW k \in Tokens, NEW d \in 0..MaxTick, SetTimeout(d, k) PROVE WheelInv' /\ NothingOverdue' /\ FreshInv'
  <2>1. PICK t \in Ticks :
          /\ t > tick /\ ScheduleReadiness(t) /\ Live' = Live \cup {k} /\ entries'[k].tick = t
          /\ \A e \in Live : entries'[e].tick = entries[e].tick
          /\ WheelInv'
          /\ (\A e \in Live : Known(e)) => \A e \in Live' : Known(e)'
    BY <1>0, <1>3, SetWheel
  <2>2. pc = "idle" /\ tick' = tick /\ told' = told
    BY <1>3 DEF SetTimeout, userVars
  <2>3. pc' # "poll"
    BY <2>1 DEF ScheduleReadiness
  <2>4. FreshInv'
    BY <2>1, <2>2, <2>3 DEF FreshInv
  <2>5. NothingOverdue'
    BY <1>0, <2>1, <2>2 DEF NothingOverdue, Ticks
  <2>. QED
    BY <2>1, <2>4, <2>5
<1>4. ASSUME NEW k \in Tokens, CancelTimeout(k) PROVE WheelInv' /\ NothingOverdue' /\ FreshInv'
  <2>1. k \in Live /\ Unlink(k) /\ UNCHANGED <<tick, nextTick, pc, told>> /\ pc = "idle"
    BY <1>4 DEF CancelTimeout, callVars
  <2>2. WheelInv' /\ Shrinks /\ \A e \in Live' : Known(e) => Known(e)'
    BY <1>0, <2>1, CancelWheel
  <2>. QED
    BY <2>1, <2>2 DEF Shrinks, NothingOverdue, FreshInv
<1>5. CASE PollTick
  BY <1>0, <1>5, TickWheel DEF NothingOverdue, FreshInv
<1>6. CASE PollFire
  <2>1. WheelInv' /\ Shrinks
    BY <1>0, <1>6, FireWheel
  <2>2. tick' = tick /\ told' /\ pc' = "idle"
    BY <1>6 DEF PollFire
  <2>. QED
    BY <2>1, <2>2 DEF Shrinks, NothingOverdue, FreshInv
<1>7. CASE PollSkip
  <2>1. WheelInv'
    BY <1>0, <1>7, SkipWheel
  <2>2. UNCHANGED <<tick, entries, pc, target>> /\ pc = "poll" /\ tick <= target /\ target \in Nat
    BY <1>0, <1>7 DEF PollSkip, callVars, TypeOK, Ticks
  <2>3. Live' = Live
    BY <2>2 DEF Live
  <2>. QED
    BY <1>0, <2>1, <2>2, <2>3 DEF NothingOverdue, FreshInv
<1>8. CASE PollStart
  <2>1. UNCHANGED wheelVars /\ pc' = "poll" /\ target' >= tick /\ target' \in Nat
    BY <1>0, <1>8 DEF PollStart
  <2>2. tick' = tick
    BY <2>1 DEF wheelVars
  <2>. QED
    BY <1>0, <2>1, <2>2, SameWheel DEF FreshInv
<1>9. CASE PollNone
  <2>1. UNCHANGED wheelVars /\ pc = "poll" /\ tick > target
    BY <1>9 DEF PollNone
  <2>. QED
    BY <2>1, SameWheel DEF FreshInv
<1>10. CASE PollEvent
  <2>1. UNCHANGED <<wheelVars, pc, target>> /\ (told => told')
    BY <1>10 DEF PollEvent, callVars
  <2>2. UNCHANGED wheelVars /\ UNCHANGED tick
    BY <2>1 DEF wheelVars
  <2>. QED
    BY <2>1, <2>2, SameWheel DEF FreshInv
<1>11. CASE SchedStep \/ Register
  <2>1. UNCHANGED wheelVars /\ pc # "poll" /\ pc' # "poll" /\ UNCHANGED told
    BY <1>11 DEF SchedStep, SchedLoad, SchedCas, SchedUnpark, SchedLoop, Return, Register, userVars
  <2>. QED
    BY <2>1, SameWheel DEF FreshInv
<1>12. CASE (\E i \in Updates : Reregister(i)) \/ WakeStep \/ WakeSpurious \/ Clock \/ UNCHANGED vars
  <2>1. UNCHANGED wheelVars /\ UNCHANGED <<pc, target, told>>
    BY <1>12 DEF Reregister, WakeStep, WakeSpurious, WakeLoad, WakeCheck, WakeUnpark, WakeCas, WakeSet, Clock, vars, callVars, userVars
  <2>2. UNCHANGED tick
    BY <2>1 DEF wheelVars
  <2>. QED
    BY <2>1, <2>2, SameWheel DEF FreshInv
<1>. QED
  BY <1>3, <1>4, <1>5, <1>6, <1>7, <1>8, <1>9, <1>10, <1>11, <1>12 DEF Next, PollStep

-----------------------------------------------------------------------------
(* The wakeup thread.                                                      *)

\* A timeout at tick t has a wakeup, or a call is about to schedule one.
Covered(t) ==
  \/ state <= t \/ tpc = "set" \/ readable \/ told
  \/ pc \in {"sched", "cas"} /\ sched <= t

\* The compare-and-swap of schedule_readiness only ever lowers wakeup_state.
CoverInv ==
  /\ registered => \A k \in Live : Covered(entries[k].tick)
  /\ pc = "cas" => cur > sched
  /\ interest /\ readable => note \/ told
  /\ ~registered => ~readable /\ tpc = "none"
  /\ pc \in {"sched", "cas", "unpark"} => registered

\* The thread sleeps for the state it read, until it is unparked.
ParkInv ==
  /\ tpc \in {"check", "park"} /\ pc # "unpark" /\ ~permit => until = state
  /\ tpc = "set" /\ pc # "unpark" /\ ~permit => state = TICK_MAX

LEMMA ParkStep ==
  ASSUME ParkInv, [Next]_vars
  PROVE  ParkInv'
<1>1. ASSUME NEW k \in Tokens, NEW d \in 0..MaxTick, SetTimeout(d, k) PROVE ParkInv'
  BY <1>1 DEF SetTimeout, ScheduleReadiness, ParkInv, threadVars
<1>2. ASSUME NEW k \in Tokens, CancelTimeout(k) PROVE ParkInv'
  BY <1>2 DEF CancelTimeout, ParkInv, threadVars, callVars
<1>3. CASE PollStart \/ PollStep
  BY <1>3 DEF PollStart, PollStep, PollTick, PollFire, PollSkip, PollNone, ScheduleReadiness, ParkInv, threadVars, callVars
<1>4. CASE SchedLoad
  BY <1>4 DEF SchedLoad, SchedLoop, Return, ParkInv, threadVars
<1>5. CASE SchedCas
  BY <1>5 DEF SchedCas, SchedLoop, Return, ParkInv, threadVars
<1>6. CASE SchedUnpark
  BY <1>6 DEF SchedUnpark, Return, ParkInv, threadVars
<1>7. CASE Register
  BY <1>7 DEF Register, ParkInv
<1>8. CASE (\E i \in Updates : Reregister(i)) \/ PollEvent \/ Clock \/ UNCHANGED vars
  BY <1>8 DEF Reregister, PollEvent, Clock, vars, ParkInv, threadVars, callVars
<1>9. CASE WakeStep \/ WakeSpurious
  BY <1>9 DEF WakeStep, WakeSpurious, WakeLoad, WakeCheck, WakeUnpark, WakeCas, WakeSet, ParkInv, callVars
<1>. QED
  BY <1>1, <1>2, <1>3, <1>4, <1>5, <1>6, <1>7, <1>8, <1>9 DEF Next, SchedStep

\* What next_tick returns when the wheel was polled to the end is not later than any
\* timeout.
LEMMA NextTickCovers ==
  ASSUME TypeOK, WheelInv, NothingOverdue, \A k \in Live : Known(k), NEW k \in Live
  PROVE  next_tick <= entries[k].tick
<1>1. next # EMPTY => next \in Live
  BY DEF WheelInv, WheelOf, WheelIsLinked
<1>2. next_tick \in Wakeups /\ (next_tick = tick \/ \A s \in 0..(Slots-1) : next_tick <= nextTick[s])
  BY <1>1, NextTick
<1>3. SlotOf(k) \in 0..(Slots-1) /\ entries[k].tick \in Nat
  BY LinkTypes
<1>4. nextTick[SlotOf(k)] <= entries[k].tick /\ nextTick[SlotOf(k)] \in Nat /\ entries[k].tick >= tick /\ tick \in Nat /\ next_tick \in Nat
  BY <1>2, <1>3, TicksAssumption DEF Known, TypeOK, Wakeups, Ticks, NothingOverdue
<1>. QED
  BY <1>2, <1>3, <1>4

\* A step that takes no wakeup away keeps every timeout that is left covered.
LEMMA KeepCovered ==
  ASSUME TypeOK, CoverInv, Shrinks, registered, \A t \in Nat : Covered(t) => Covered(t)'
  PROVE  (\A k \in Live : Covered(entries[k].tick))'
<1>. DEFINE Covered1(t) == \/ state' <= t \/ tpc' = "set" \/ readable' \/ told'
                           \/ pc' \in {"sched", "cas"} /\ sched' <= t
<1>. SUFFICES ASSUME NEW k \in Live' PROVE Covered1(entries'[k].tick)
  BY DEF Covered
<1>1. k \in Live /\ entries'[k].tick = entries[k].tick /\ entries[k].tick \in Nat
  BY LinkTypes DEF Shrinks
<1>2. Covered(entries[k].tick)
  BY <1>1 DEF CoverInv
<1>3. Covered1(entries[k].tick)
  BY <1>1, <1>2 DEF Covered
<1>. QED
  BY <1>1, <1>3

LEMMA CoverStep ==
  ASSUME BoundInv, WheelInv, NothingOverdue, FreshInv, CoverInv, [Next]_vars
  PROVE  CoverInv'
<1>. DEFINE Rest == /\ pc = "cas" => cur > sched
                    /\ interest /\ readable => note \/ told
                    /\ ~registered => ~readable /\ tpc = "none"
                    /\ pc \in {"sched", "cas", "unpark"} => registered
            All == \A k \in Live : Covered(entries[k].tick)
            Covered1(t) == \/ state' <= t \/ tpc' = "set" \/ readable' \/ told'
                           \/ pc' \in {"sched", "cas"} /\ sched' <= t
<1>0. TypeOK /\ state \in Nat /\ sched \in Nat /\ cur \in Nat /\ tick \in Nat /\ TICK_MAX \in Nat
  BY TicksAssumption DEF BoundInv, TypeOK, Ticks, Wakeups
<1>1. Rest /\ (registered => All)
  BY DEF CoverInv
<1>2. \A k \in Live : entries[k].tick \in Nat
  BY <1>0, LinkTypes
<1>3. ASSUME NEW k \in Tokens, NEW d \in 0..MaxTick, SetTimeout(d, k) PROVE CoverInv'
  <2>1. PICK t \in Ticks :
          /\ ScheduleReadiness(t) /\ Live' = Live \cup {k} /\ entries'[k].tick = t
          /\ \A e \in Live : entries'[e].tick = entries[e].tick
    BY <1>0, <1>3, SetWheel
  <2>2. pc = "idle" /\ UNCHANGED <<cur, registered, state, tpc, readable, note, interest, told>>
    BY <1>3 DEF SetTimeout, threadVars, readyVars, userVars
  <2>3. Rest'
    BY <1>1, <2>1, <2>2 DEF ScheduleReadiness
  <2>4. ASSUME registered, NEW e \in Live' PROVE Covered1(entries'[e].tick)
    <3>1. CASE e = k
      BY <2>1, <2>4, <3>1, TicksAssumption DEF ScheduleReadiness, Ticks
    <3>2. CASE e # k
      <4>1. e \in Live /\ Covered(entries[e].tick) /\ entries'[e].tick = entries[e].tick
        BY <1>1, <2>1, <2>4, <3>2
      <4>. QED
        BY <2>2, <4>1 DEF Covered
    <3>. QED
      BY <3>1, <3>2
  <2>. QED
    BY <2>2, <2>3, <2>4 DEF CoverInv, Covered
<1>4. ASSUME NEW k \in Tokens, CancelTimeout(k) PROVE CoverInv'
  <2>1. k \in Live /\ Unlink(k) /\ UNCHANGED <<tick, nextTick>>
    BY <1>4 DEF CancelTimeout
  <2>2. Shrinks
    BY <1>0, <2>1, CancelWheel
  <2>3. UNCHANGED <<pc, sched, cur, registered, state, tpc, readable, note, interest, told>>
    BY <1>4 DEF CancelTimeout, callVars, threadVars, readyVars
  <2>4. (\A t \in Nat : Covered(t) => Covered(t)') /\ Rest'
    BY <1>1, <2>3 DEF Covered
  <2>. QED
    BY <1>0, <2>2, <2>3, <2>4, KeepCovered DEF CoverInv
<1>5. CASE PollFire
  <2>1. told' /\ pc' = "idle" /\ UNCHANGED <<registered, readable, tpc, interest>>
    BY <1>5 DEF PollFire, threadVars, readyVars
  <2>. QED
    BY <1>1, <2>1 DEF CoverInv, Covered
<1>6. CASE PollStart \/ PollTick \/ PollSkip
  <2>1. Shrinks
    BY <1>6 DEF PollStart, PollTick, PollSkip, Shrinks, Live, wheelVars
  <2>2. pc \in {"idle", "poll"} /\ pc' = "poll" /\ UNCHANGED <<sched, cur, registered, state, tpc, readable, note, interest, told>>
    BY <1>6 DEF PollStart, PollTick, PollSkip, callVars, threadVars, readyVars, userVars
  <2>3. (\A t \in Nat : Covered(t) => Covered(t)') /\ Rest'
    BY <1>1, <2>2 DEF Covered
  <2>. QED
    BY <1>0, <2>1, <2>2, <2>3, KeepCovered DEF CoverInv
<1>7. CASE PollNone
  <2>1. Live' = Live /\ UNCHANGED entries
    BY <1>7 DEF PollNone, Live, wheelVars
  <2>2. /\ pc = "poll" /\ UNCHANGED <<registered, tpc>> /\ (registered => ~readable') /\ (~registered => readable' = readable)
        /\ ScheduleReadiness(next_tick)
    BY <1>7 DEF PollNone, threadVars
  <2>3. Rest'
    BY <1>1, <2>2 DEF ScheduleReadiness
  <2>4. \A k \in Live : Known(k)
    BY <1>7 DEF PollNone, FreshInv
  <2>5. \A k \in Live : next_tick <= entries[k].tick
    BY <1>0, <2>4, NextTickCovers
  <2>6. registered => \A k \in Live : Covered1(entries[k].tick)
    BY <2>2, <2>5 DEF ScheduleReadiness
  <2>. QED
    BY <2>1, <2>2, <2>3, <2>6 DEF CoverInv, Covered
<1>8. CASE Register
  <2>1. Live' = Live /\ UNCHANGED entries
    BY <1>8 DEF Register, Live, wheelVars
  <2>2. pc = "idle" /\ ~registered /\ registered' /\ pc' = "sched" /\ sched' = next_tick /\ UNCHANGED <<readable, told>>
    BY <1>8 DEF Register, readyVars
  <2>3. Rest'
    BY <1>1, <2>2
  <2>4. ~told => \A k \in Live : Known(k)
    BY <2>2 DEF FreshInv
  <2>5. ~told => \A k \in Live : next_tick <= entries[k].tick
    BY <1>0, <2>4, NextTickCovers
  <2>6. \A k \in Live : Covered1(entries[k].tick)
    BY <2>2, <2>5
  <2>. QED
    BY <2>1, <2>2, <2>3, <2>6 DEF CoverInv, Covered
<1>9. CASE SchedStep
  <2>1. Shrinks /\ UNCHANGED registered
    BY <1>9 DEF SchedStep, SchedLoad, SchedCas, SchedUnpark, Shrinks, Live, wheelVars
  <2>2. UNCHANGED <<tpc, readable, note, interest, told>>
    BY <1>9 DEF SchedStep, SchedLoad, SchedCas, SchedUnpark, threadVars, readyVars, userVars
  <2>3. \A t \in Nat : Covered(t) => Covered(t)'
    BY <1>0, <1>1, <1>9, <2>2 DEF SchedStep, SchedLoad, SchedCas, SchedUnpark, SchedLoop, Return, Covered
  <2>4. pc \in {"sched", "cas", "unpark"} /\ (pc' = "cas" => cur' > sched')
    BY <1>0, <1>9 DEF SchedStep, SchedLoad, SchedCas, SchedUnpark, SchedLoop, Return
  <2>5. Rest'
    BY <1>1, <2>1, <2>2, <2>4
  <2>. QED
    BY <1>0, <2>1, <2>3, <2>5, KeepCovered DEF CoverInv
<1>10. CASE WakeStep \/ WakeSpurious
  <2>. USE DEF WakeStep, WakeSpurious, WakeLoad, WakeCheck, WakeUnpark, WakeCas, WakeSet
  <2>1. Shrinks /\ UNCHANGED <<registered, pc, sched, cur, interest, told>> /\ tpc # "none"
    BY <1>10 DEF Shrinks, Live, wheelVars, callVars, userVars
  <2>2. \A t \in Nat : Covered(t) => Covered(t)'
    BY <1>10, <2>1 DEF Covered, readyVars
  <2>3. (UNCHANGED <<readable, note>>) \/ note'
    BY <1>10 DEF readyVars
  <2>. HIDE DEF WakeStep, WakeSpurious, WakeLoad, WakeCheck, WakeUnpark, WakeCas, WakeSet
  <2>4. Rest'
    BY <1>1, <2>1, <2>3
  <2>. QED
    BY <1>0, <2>1, <2>2, <2>4, KeepCovered DEF CoverInv
<1>11. CASE (\E i \in Updates : Reregister(i)) \/ PollEvent \/ Clock \/ UNCHANGED vars
  <2>0. UNCHANGED wheelVars /\ UNCHANGED <<registered, pc, sched, cur, state, tpc, readable>>
    BY <1>11 DEF Reregister, PollEvent, Clock, vars, callVars, threadVars, readyVars
  <2>a. told => told'
    BY <1>11, Zenon DEF Reregister, PollEvent, Clock, vars, userVars
  <2>1. Shrinks /\ UNCHANGED <<registered, pc, sched, cur, state, tpc, readable>> /\ (told => told')
    BY <2>0, <2>a, SameWheel
  <2>2. (\A t \in Nat : Covered(t) => Covered(t)')
    BY <2>1 DEF Covered
  <2>3. interest' /\ readable' => note' \/ told'
    BY <1>1, <1>11 DEF Reregister, PollEvent, Clock, vars, readyVars, userVars
  <2>4. Rest'
    BY <1>1, <2>1, <2>3
  <2>. QED
    BY <1>0, <2>1, <2>2, <2>4, KeepCovered DEF CoverInv
<1>. QED
  BY <1>3, <1>4, <1>5, <1>6, <1>7, <1>8, <1>9, <1>10, <1>11 DEF Next, PollStep

-----------------------------------------------------------------------------
(* Theorems.                                                               *)

\* The inductive invariant.
Inv == BoundInv /\ WheelInv /\ NothingOverdue /\ FreshInv /\ CoverInv /\ ParkInv

LEMMA WakeInit == Init => CoverInv /\ ParkInv
<1>. SUFFICES ASSUME Init PROVE CoverInv /\ ParkInv
  OBVIOUS
<1>1. Live = {} /\ pc = "idle" /\ readable = FALSE /\ state = until
  BY DEF Init, Live
<1>2. ~registered => tpc = "none"
  BY DEF Init
<1>3. tpc \in {"load", "none"}
  BY DEF Init
<1>. QED
  BY <1>1, <1>2, <1>3 DEF CoverInv, ParkInv

\* Every step of the user, of poll and of the wakeup thread preserves the inductive
\* invariant: the wheel is linked and in order, and its timeouts are covered.
THEOREM Invariance == Spec => []Inv
<1>1. Init => Inv
  BY TypeInit, WheelInit, WakeInit DEF Inv
<1>2. Inv /\ [Next]_vars => Inv'
  BY TypeStep, WheelStep, CoverStep, ParkStep DEF Inv
<1>. QED
  BY <1>1, <1>2, PTL DEF Spec

\* The types of the timer's state, in the runs' words.
THEOREM TypeCorrect == Spec => []TypeOK
<1>1. Inv => TypeOK
  BY DEF Inv, BoundInv
<1>. QED
  BY <1>1, Invariance, PTL

\* The lists of the wheel stay doubly linked, each in the slot its ticks hash to,
\* through any insertions, cancellations and expiries (insert, unlink, poll_to).
THEOREM Linked == Spec => []WheelIsLinked
<1>1. Inv => WheelIsLinked
  BY DEF Inv, WheelInv, WheelOf
<1>. QED
  BY <1>1, Invariance, PTL

\* poll_to never passes a timeout over, for any number of slots.
THEOREM NeverOverdue == Spec => []NothingOverdue
<1>1. Inv => NothingOverdue
  BY DEF Inv
<1>. QED
  BY <1>1, Invariance, PTL

\* Whatever the order in which schedule_readiness, poll and the wakeup thread take
\* their steps, a registered timer has a wakeup for each of its timeouts.
THEOREM Wakeup == Spec => []WakeupCovers
<1>1. Inv => WakeupCovers
  BY DEF Inv, CoverInv, Covered, WakeupCovers
<1>. QED
  BY <1>1, Invariance, PTL

\* The wakeup thread never sleeps for a state that has since been moved forward.
THEOREM Park == Spec => []ParkIsNotStale
<1>1. Inv => ParkIsNotStale
  BY DEF Inv, ParkInv, ParkIsNotStale
<1>. QED
  BY <1>1, Invariance, PTL

\* Handles of timeouts that fired are dead for ever, although the slab reuses their
\* tokens: whatever is set later has a later tick (cancel_timeout compares ticks).
THEOREM FiredHandleIsDead ==
  ASSUME "cancelled" \notin Kept
  PROVE  Spec => []StaleHandleIsDead
<1>. DEFINE Stale == StaleHandleIsDead /\ \A h \in stale : h.tick <= tick
<1>1. Init => Stale
  BY DEF Init, StaleHandleIsDead
<1>2. ASSUME Inv, Stale, [Next]_vars PROVE Stale'
  <2>a. TypeOK /\ WheelInv
    BY <1>2 DEF Inv, BoundInv
  <2>b. tick \in Nat /\ \A h \in stale : h.tick \in Nat
    BY <2>a, TicksAssumption DEF TypeOK, Ticks, Handles
  <2>0. TypeOK /\ WheelInv /\ tick \in Nat /\ (\A h \in stale : h.tick \in Nat) /\ (next # EMPTY => next \in Live)
    BY <2>a, <2>b DEF WheelInv, WheelOf, WheelIsLinked
  <2>1. ASSUME NEW k \in Tokens, NEW d \in 0..MaxTick, SetTimeout(d, k) PROVE Stale'
    <3>1. PICK t \in Ticks : /\ t > tick /\ k \notin Live /\ Live' = Live \cup {k} /\ entries'[k].tick = t
                             /\ \A e \in Live : entries'[e].tick = entries[e].tick
      BY <2>0, <2>1, SetWheel
    <3>2. UNCHANGED <<tick, stale>>
      BY <2>1 DEF SetTimeout, userVars
    <3>. QED
      BY <1>2, <2>0, <3>1, <3>2, TicksAssumption DEF StaleHandleIsDead, Ticks
  <2>2. ASSUME NEW k \in Tokens, CancelTimeout(k) PROVE Stale'
    <3>1. UNCHANGED <<tick, nextTick, stale>> /\ Unlink(k) /\ k \in Live
      BY <2>2 DEF CancelTimeout
    <3>2. Shrinks
      BY <2>0, <3>1, CancelWheel
    <3>. QED
      BY <1>2, <3>1, <3>2 DEF StaleHandleIsDead, Shrinks
  <2>3. CASE PollFire
    <3>1. tick' = tick /\ stale' \subseteq stale \cup {Handle(next)} /\ next \in Live /\ entries[next].tick <= tick /\ Unlink(next)
      BY <2>0, <2>3 DEF PollFire
    <3>2. Shrinks
      BY <2>0, <2>3, FireWheel
    <3>3. next \notin Live'
      BY <3>1 DEF Unlink, Live
    <3>4. Handle(next).token = next /\ Handle(next).tick = entries[next].tick
      BY DEF Handle
    <3>. QED
      BY <1>2, <3>1, <3>2, <3>3, <3>4 DEF StaleHandleIsDead, Shrinks
  <2>4. CASE PollTick
    <3>1. UNCHANGED <<entries, stale>> /\ tick' = tick + 1
      BY <2>4 DEF PollTick, userVars
    <3>2. Live' = Live
      BY <3>1 DEF Live
    <3>. QED
      BY <1>2, <2>0, <3>1, <3>2 DEF StaleHandleIsDead
  <2>5. CASE \/ PollStart \/ PollSkip \/ PollNone \/ SchedStep \/ Register \/ (\E i \in Updates : Reregister(i)) \/ PollEvent
             \/ WakeStep \/ WakeSpurious \/ Clock \/ UNCHANGED vars
    <3>1. UNCHANGED <<entries, stale, tick>>
      BY <2>5 DEF PollStart, PollSkip, PollNone, SchedStep, SchedLoad, SchedCas, SchedUnpark, Register, Reregister, PollEvent,
                  WakeStep, WakeSpurious, WakeLoad, WakeCheck, WakeUnpark, WakeCas, WakeSet, Clock, vars, wheelVars, userVars
    <3>2. Live' = Live
      BY <3>1 DEF Live
    <3>. QED
      BY <1>2, <3>1, <3>2 DEF StaleHandleIsDead
  <2>. QED
    BY <1>2, <2>1, <2>2, <2>3, <2>4, <2>5 DEF Next, PollStep
<1>3. Stale => StaleHandleIsDead
  OBVIOUS
<1>. QED
  BY <1>1, <1>2, <1>3, Invariance, PTL DEF Spec

=============================================================================
