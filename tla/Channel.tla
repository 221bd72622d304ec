------------------------------- MODULE Channel -------------------------------
(***************************************************************************)
(* The channel whose Receiver can be registered with a Poll                *)
(* (src/src/channel.rs): an mpsc channel, a count of pending messages, and *)
(* a SetReadiness handle toggled when the count leaves or reaches zero.    *)
(*                                                                         *)
(* Every action is one atomic access.  The mpsc channel is external: only  *)
(* the number of its messages matters.  set_readiness is one step: the     *)
(* ReadinessQueue module shows that what it stores is looked at by a later *)
(* poll; it cannot fail, for the Registration keeps the awakener open.     *)
(* The receiver is used on the thread that owns the Poll.  A Sender is a   *)
(* SyncSender whose Bound is never reached.                                *)
(***************************************************************************)
EXTENDS Integers, FiniteSets

CONSTANTS
  Senders,      \* the Sender / SyncSender handles
  FirstSender,  \* the one channel() returns
  Bound,        \* capacity of the mpsc channel; 0 is a rendezvous channel
  W,            \* 2^64, the modulus of the pending counter
  Modes,        \* the PollOpts used: "edge", "level", "oneshot"
  Registered,   \* whether the receiver was registered before senders were used
  Updates       \* interests (in readable) passed to reregister / deregister

ASSUME SendersAssumption == IsFiniteSet(Senders) /\ FirstSender \in Senders
ASSUME ModesAssumption == Modes \subseteq {"edge", "level", "oneshot"} /\ Updates \subseteq BOOLEAN /\ Registered \in BOOLEAN
ASSUME WidthAssumption == Bound \in Nat /\ W \in Nat /\ W > Bound + Cardinality(Senders) + 2

VARIABLES
  len,          \* messages in the mpsc channel
  pending,      \* Inner::pending
  senders,      \* Inner::senders
  cell,         \* Inner::set_readiness is filled
  holders,      \* the sender handles that exist
  rxAlive,      \* the mpsc Receiver exists
  pc,           \* the next step of each sender handle
  rpc,          \* the next step of the receiver
  one,          \* first == 1 in ReceiverCtl::dec
  readable,     \* the events word of the registration is readable
  note,         \* the registration is queued for the next poll
  interest,     \* the registration is interested in readable
  mode,         \* its PollOpt
  told,         \* the user got an event and has not drained the channel since
  seenEnd,      \* the user got Disconnected
  raced         \* history: a sender found the cell empty after register had
                \* read the count and before it filled the cell

countVars == <<len, pending, senders, holders>>
regVars   == <<cell, interest, mode>>
readyVars == <<readable, note>>
userVars  == <<rxAlive, told, seenEnd, raced>>
vars == <<countVars, regVars, readyVars, userVars, pc, rpc, one>>

TypeOK ==
  /\ len \in 0..Bound
  /\ pending \in 0..(W-1)
  /\ senders \in Nat
  /\ cell \in BOOLEAN
  /\ holders \subseteq Senders
  /\ rxAlive \in BOOLEAN
  /\ pc \in [Senders -> {"idle", "blocked", "inc", "set", "drop_ctl"}]
  /\ rpc \in {"idle", "fill", "load", "none", "sub", "reset"}
  /\ one \in BOOLEAN
  /\ readable \in BOOLEAN
  /\ note \in BOOLEAN
  /\ interest \in BOOLEAN
  /\ mode \in {"edge", "level", "oneshot"}
  /\ told \in BOOLEAN
  /\ seenEnd \in BOOLEAN
  /\ raced \in BOOLEAN

\* ctl_pair, and possibly a register before the sender is handed out.
Init ==
  /\ len = 0 /\ pending = 0 /\ senders = 1
  /\ cell = Registered /\ interest = Registered
  /\ mode \in Modes
  /\ holders = {FirstSender}
  /\ rxAlive = TRUE
  /\ pc = [t \in Senders |-> "idle"]
  /\ rpc = "idle" /\ one = FALSE
  /\ readable = FALSE /\ note = FALSE
  /\ told = FALSE /\ seenEnd = FALSE /\ raced = FALSE

Goto(t, l) == pc' = [pc EXCEPT ![t] = l]

\* SetReadiness::set_readiness(Ready::readable()).
SetReadable == readable' = TRUE /\ note' = TRUE

-----------------------------------------------------------------------------
(* Senders.                                                                *)

\* Sender::send, SyncSender::send: the message first, the count afterwards.
\* A full channel blocks; a dropped receiver is an error and leaves no trace
\* (nor does try_send on a full channel).
Send(t) ==
  /\ t \in holders /\ pc[t] = "idle"
  /\ rxAlive
  /\ IF len < Bound THEN len' = len + 1 /\ Goto(t, "inc")
                    ELSE UNCHANGED len /\ Goto(t, "blocked")
  /\ UNCHANGED <<pending, senders, holders, regVars, readyVars, userVars, rpc, one>>

\* A blocked SyncSender::send gets a slot.
SendUnblock(t) ==
  /\ pc[t] = "blocked"
  /\ rxAlive /\ len < Bound
  /\ len' = len + 1
  /\ Goto(t, "inc")
  /\ UNCHANGED <<pending, senders, holders, regVars, readyVars, userVars, rpc, one>>

\* ... or the error that the receiver is gone.
SendDisconnected(t) ==
  /\ pc[t] = "blocked"
  /\ ~rxAlive
  /\ Goto(t, "idle")
  /\ UNCHANGED <<countVars, regVars, readyVars, userVars, rpc, one>>

\* SenderCtl::inc: the sender that moves the count off zero toggles readiness.
IncFetchAdd(t) ==
  /\ pc[t] = "inc"
  /\ pending' = (pending + 1) % W
  /\ Goto(t, IF pending = 0 THEN "set" ELSE "idle")
  /\ UNCHANGED <<len, senders, holders, regVars, readyVars, userVars, rpc, one>>

IncSetReadiness(t) ==
  /\ pc[t] = "set"
  /\ IF cell THEN SetReadable ELSE UNCHANGED readyVars
  /\ raced' = (raced \/ (~cell /\ rpc = "fill" /\ ~readable))
  /\ Goto(t, "idle")
  /\ UNCHANGED <<countVars, regVars, rxAlive, told, seenEnd, rpc, one>>

\* Sender::clone, SyncSender::clone.
SenderClone(t, u) ==
  /\ t \in holders /\ pc[t] = "idle"
  /\ u \notin holders /\ pc[u] = "idle"
  /\ holders' = holders \cup {u}
  /\ senders' = senders + 1
  /\ UNCHANGED <<len, pending, regVars, readyVars, userVars, pc, rpc, one>>

\* Dropping a Sender drops its mpsc half first and its SenderCtl second.
SenderDrop(t) ==
  /\ t \in holders /\ pc[t] = "idle"
  /\ holders' = holders \ {t}
  /\ Goto(t, "drop_ctl")
  /\ UNCHANGED <<len, pending, senders, regVars, readyVars, userVars, rpc, one>>

\* Mutant: the last sender does not tell the receiver.
SenderCtlDropSilent(t) ==
  /\ pc[t] = "drop_ctl"
  /\ senders' = senders - 1
  /\ Goto(t, "idle")
  /\ UNCHANGED <<len, pending, holders, regVars, readyVars, userVars, rpc, one>>

\* Drop for SenderCtl: the last one counts the disconnect like a message.
SenderCtlDrop(t) ==
  /\ pc[t] = "drop_ctl"
  /\ senders' = senders - 1
  /\ Goto(t, IF senders = 1 THEN "inc" ELSE "idle")
  /\ UNCHANGED <<len, pending, holders, regVars, readyVars, userVars, rpc, one>>

-----------------------------------------------------------------------------
(* The receiver and the poll, on one thread.                               *)

Idle == rpc = "idle" /\ rxAlive

\* Mutant: messages sent before the registration are not looked at.
RegisterUnchecked ==
  /\ Idle /\ ~cell
  /\ mode' \in Modes
  /\ interest' = TRUE
  /\ rpc' = "fill"
  /\ UNCHANGED <<countVars, cell, readyVars, userVars, pc, one>>

\* ReceiverCtl::register reads the count into the new registration ...
Register ==
  /\ Idle /\ ~cell
  /\ mode' \in Modes
  /\ interest' = TRUE
  /\ IF pending > 0 THEN SetReadable ELSE UNCHANGED readyVars
  /\ rpc' = "fill"
  /\ UNCHANGED <<countVars, cell, userVars, pc, one>>

\* ... and publishes the handle to the senders afterwards.
RegisterFill ==
  /\ rpc = "fill"
  /\ cell' = TRUE
  /\ rpc' = "idle"
  /\ UNCHANGED <<countVars, interest, mode, readyVars, userVars, pc, one>>

\* ReceiverCtl::reregister and deregister: Registration::update queues a
\* registration whose events are set.
Reregister(i) ==
  /\ Idle /\ cell
  /\ interest' = i
  /\ mode' \in Modes
  /\ note' = (note \/ readable)
  /\ UNCHANGED <<countVars, cell, readable, userVars, pc, rpc, one>>

\* One poll looks at the queued registration, as promised by module Readiness
\* (Look): a one-shot one is disabled by its event; the queue may keep it for
\* another look, which a level-triggered one that is ready normally gets.
PollEvent ==
  LET ready == interest /\ readable IN
  /\ Idle /\ note
  /\ told' = (told \/ ready)
  /\ note' \in BOOLEAN
  /\ interest' = (interest /\ ~(ready /\ mode = "oneshot"))
  /\ UNCHANGED <<countVars, cell, mode, readable, rxAlive, seenEnd, raced, pc, rpc, one>>

\* Receiver::try_recv takes a message.  A rendezvous channel takes it from a
\* sender that waits.
TryRecv ==
  /\ Idle
  /\ \/ len > 0 /\ len' = len - 1 /\ UNCHANGED pc
     \/ /\ Bound = 0 /\ UNCHANGED len
        /\ \E t \in Senders : pc[t] = "blocked" /\ Goto(t, "inc")
  /\ rpc' = "load"
  /\ UNCHANGED <<pending, senders, holders, regVars, readyVars, userVars, one>>

\* try_recv fails with Empty or Disconnected: the user stops reading.
TryRecvEmpty ==
  /\ Idle
  /\ len = 0 /\ (Bound = 0 => \A t \in Senders : pc[t] # "blocked")
  /\ told' = FALSE
  /\ seenEnd' = (seenEnd \/ holders = {})
  /\ UNCHANGED <<countVars, regVars, readyVars, rxAlive, raced, pc, rpc, one>>

\* ReceiverCtl::dec.
DecLoad ==
  /\ rpc = "load"
  /\ one' = (pending = 1)
  /\ rpc' = IF pending = 1 /\ cell THEN "none" ELSE "sub"
  /\ UNCHANGED <<countVars, regVars, readyVars, userVars, pc>>

DecUnset ==
  /\ rpc = "none"
  /\ readable' = FALSE
  /\ rpc' = "sub"
  /\ UNCHANGED <<countVars, regVars, note, userVars, pc, one>>

\* Mutant: the count is decremented as if it could not be zero.
DecFetchSubNoWrap ==
  /\ rpc = "sub"
  /\ pending' = pending - 1
  /\ rpc' = IF one /\ pending > 1 /\ cell THEN "reset" ELSE "idle"
  /\ one' = FALSE
  /\ UNCHANGED <<len, senders, holders, regVars, readyVars, userVars, pc>>

\* Mutant: readiness is not set again when a message arrived meanwhile.
DecFetchSubNoReset ==
  /\ rpc = "sub"
  /\ pending' = (pending + W - 1) % W
  /\ rpc' = "idle" /\ one' = FALSE
  /\ UNCHANGED <<len, senders, holders, regVars, readyVars, userVars, pc>>

DecFetchSub ==
  /\ rpc = "sub"
  /\ pending' = (pending + W - 1) % W
  /\ rpc' = IF one /\ pending > 1 /\ cell THEN "reset" ELSE "idle"
  /\ one' = FALSE
  /\ UNCHANGED <<len, senders, holders, regVars, readyVars, userVars, pc>>

DecReset ==
  /\ rpc = "reset"
  /\ SetReadable
  /\ rpc' = "idle"
  /\ UNCHANGED <<countVars, regVars, userVars, pc, one>>

\* Dropping the Receiver discards its messages and its Registration.
ReceiverDrop ==
  /\ Idle
  /\ rxAlive' = FALSE
  /\ len' = 0 /\ interest' = FALSE
  /\ UNCHANGED <<pending, senders, holders, cell, mode, readyVars, told, seenEnd, raced, pc, rpc, one>>

-----------------------------------------------------------------------------

\* The steps of a call that was started.
SenderStep(t) ==
  \/ SendUnblock(t) \/ SendDisconnected(t)
  \/ IncFetchAdd(t) \/ IncSetReadiness(t) \/ SenderCtlDrop(t)

SenderCall(t) ==
  Send(t) \/ SenderDrop(t) \/ \E u \in Senders : SenderClone(t, u)

ReceiverStep == RegisterFill \/ DecLoad \/ DecUnset \/ DecFetchSub \/ DecReset

Next ==
  \/ \E t \in Senders : SenderCall(t) \/ SenderStep(t)
  \/ ReceiverStep
  \/ Register \/ (\E i \in Updates : Reregister(i))
  \/ PollEvent \/ TryRecv \/ TryRecvEmpty \/ ReceiverDrop

Spec == Init /\ [][Next]_vars

\* Calls finish, the owner polls, and reads until try_recv fails once it was
\* told; nothing is assumed of users that were not told.
Fairness ==
  /\ \A t \in Senders : WF_vars(SenderStep(t))
  /\ WF_vars(ReceiverStep)
  /\ WF_vars(PollEvent)
  /\ WF_vars(told /\ (TryRecv \/ TryRecvEmpty))

FairSpec == Spec /\ Fairness

-----------------------------------------------------------------------------
(* Properties.                                                             *)

\* A sender that counted its message, or the disconnect, and has to toggle
\* readiness; the receiver inside dec.
AboutToSet == \E t \in Senders : pc[t] = "set"
InDec == rpc \in {"load", "none", "sub", "reset"}
Quiet == rpc = "idle" /\ \A t \in Senders : pc[t] \notin {"inc", "set"}

\* "The number of outstanding messages for the receiver to read": when no call
\* is in progress the count is the length of the channel, plus one once the last
\* sender is gone.  In between it may wrap below zero (try_recv overtaking inc).
PendingIsExact ==
  Quiet /\ rxAlive => pending = len + (IF senders = 0 THEN 1 ELSE 0)

\* A receiver whose channel holds a message, or was closed, is readable once no
\* call is in progress (inc against the load, the unset and the re-set of dec).
PendingIsReadable ==
  Quiet /\ rxAlive /\ cell /\ ~raced /\ (len > 0 \/ senders = 0) => readable

\* A user that reads until try_recv fails never misses a message or the
\* disconnect: whenever there is one the user has not been told about, the
\* registration is queued for the next poll.
MessageIsSignalled ==
  Quiet /\ rxAlive /\ interest /\ cell /\ ~raced /\ ~seenEnd /\ (len > 0 \/ senders = 0)
    => told \/ (note /\ readable)

\* The same without the exception for the race in register: "Tracks messages sent
\* on a channel in order to update readiness".
RegisterMissesNothing ==
  Quiet /\ rxAlive /\ cell /\ len > 0 => readable

\* Once the only message has been read a level-triggered receiver is not ready
\* (test_poll_channel_level, "Wait, but nothing should happen").
EmptyIsNotReady ==
  Quiet /\ rxAlive /\ cell /\ len = 0 /\ senders > 0 => ~readable

\* The receiver is registered (register did not lose its race); the user gave up
\* its interest, or spent it on an event it was told of and has read.
Watching == rxAlive /\ cell /\ interest /\ ~raced
StoppedWatching == ~rxAlive \/ (~interest /\ ~told)

\* While the channel of a registered receiver holds messages one is eventually
\* taken (rpc is "load" right after try_recv took it), and the disconnect is
\* eventually seen: send, inc, poll and dec lose no wakeup.
MessageIsReceived ==
  /\ (len > 0 /\ Watching) ~> (rpc = "load" \/ StoppedWatching)
  /\ (senders = 0 /\ Watching) ~> (seenEnd \/ StoppedWatching)

\* While the receiver is polled, the slot a blocked SyncSender::send waits for is
\* eventually freed ("Creates a new synchronous, bounded channel where the
\* Receiver can be registered with Poll").
BlockedSendGetsSlot ==
  \A t \in Senders :
    (pc[t] = "blocked" /\ Watching) ~> (pc[t] # "blocked" \/ len < Bound \/ StoppedWatching)

=============================================================================
