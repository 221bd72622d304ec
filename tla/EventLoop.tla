------------------------------ MODULE EventLoop ------------------------------
(***************************************************************************)
(* The deprecated EventLoop (src/src/deprecated/event_loop.rs): one thread  *)
(* that polls and hands events, messages and timeouts to a Handler, whose   *)
(* callbacks may call the loop.  Its notification channel is module Channel *)
(* as it stands: every step of the loop that touches it is one of Channel's *)
(* steps.  Its timer is abstracted to what module Timer shows of it: when a *)
(* timeout is due, the registration becomes readable.                       *)
(***************************************************************************)
EXTENDS Integers, FiniteSets

CONSTANTS
  Senders, FirstSender, Bound, W, Modes, Registered, Updates,  \* of Channel
  MessagesPerTick,   \* Config::messages_per_tick
  Timeouts           \* bound: the timeouts ever set

ASSUME LoopAssumption ==
  /\ MessagesPerTick \in Nat \ {0} /\ Bound \in Nat \ {0}
  /\ Modes = {"oneshot"} /\ Registered /\ Updates = {TRUE}
ASSUME SendersAssumption == IsFiniteSet(Senders) /\ FirstSender \in Senders
ASSUME WidthAssumption == W \in Nat /\ W > Bound + Cardinality(Senders) + 2

VARIABLES
  len, pending, senders, cell, holders, rxAlive, pc, rpc, one, readable, note,
  interest, mode, told, seenEnd, raced,    \* of Channel
  run,          \* EventLoop::run, the field
  lpc,          \* where the loop's thread is
  once,         \* run_once was called, rather than run
  evts,         \* the events of this iteration not yet processed
  budget,       \* iterations left to the loop in notify
  callback,     \* a callback of the Handler is running
  timeout,      \* the state of each timeout
  tready, tnote \* the timer's registration is readable; is queued

Chan == INSTANCE Channel

chanVars == <<len, pending, senders, cell, holders, rxAlive, pc, rpc, one, readable, note,
              interest, mode, told, seenEnd, raced>>
timerVars == <<timeout, tready, tnote>>
loopVars == <<run, lpc, once, evts, budget, callback>>
vars == <<chanVars, timerVars, loopVars>>

TypeOK ==
  /\ Chan!TypeOK
  /\ run \in BOOLEAN /\ once \in BOOLEAN /\ callback \in BOOLEAN
  /\ lpc \in {"stopped", "poll", "process", "notify", "timer", "tick"}
  /\ evts \subseteq {"NOTIFY", "TIMER", "IO"}
  /\ budget \in 0..MessagesPerTick
  /\ timeout \in [Timeouts -> {"new", "set", "due", "done"}]
  /\ tready \in BOOLEAN /\ tnote \in BOOLEAN

\* EventLoop::configured: the receiver is registered edge-triggered and one-shot,
\* the timer edge-triggered.
Init ==
  /\ Chan!Init
  /\ run = TRUE /\ lpc = "stopped" /\ once = FALSE
  /\ evts = {} /\ budget = 0 /\ callback = FALSE
  /\ timeout = [t \in Timeouts |-> "new"]
  /\ tready = FALSE /\ tnote = FALSE

\* The loop's thread is between two calls of its own.
Loop(l) == lpc = l /\ ~callback /\ rpc = "idle"
Goto(l) == lpc' = l

\* It has not been dropped.
Alive == rxAlive /\ FirstSender \in holders

-----------------------------------------------------------------------------
(* run, run_once, io_process.                                              *)

\* run forgets an earlier shutdown; run_once leaves the flag alone.
Run ==
  /\ Loop("stopped") /\ Alive
  /\ \/ run' = TRUE /\ once' = FALSE
     \/ UNCHANGED run /\ once' = TRUE
  /\ Goto("poll")
  /\ UNCHANGED <<chanVars, timerVars, evts, budget, callback>>

\* Poll::poll returns: what is queued in the readiness queue was looked at, and
\* file descriptors may be ready.  Without a timeout it waits for something.
PollReturns ==
  LET got == {e \in {"NOTIFY"} : note /\ readable /\ interest} \cup {e \in {"TIMER"} : tnote /\ tready} IN
  /\ Loop("poll")
  /\ \E io \in SUBSET {"IO"} :
       /\ once \/ note \/ tnote \/ io # {}
       /\ evts' = got \cup io
  /\ IF note THEN Chan!PollEvent ELSE UNCHANGED chanVars
  /\ tnote' = FALSE
  /\ Goto("process")
  /\ UNCHANGED <<timeout, tready, run, once, budget, callback>>

\* A signal interrupts poll: Handler::interrupted, no events, then tick.
PollInterrupted ==
  /\ Loop("poll")
  /\ callback' = TRUE
  /\ Goto("process")
  /\ UNCHANGED <<chanVars, timerVars, run, once, evts, budget>>

\* Any other error ends run_once, and run with it.
PollFails ==
  /\ Loop("poll")
  /\ Goto("stopped")
  /\ UNCHANGED <<chanVars, timerVars, run, once, evts, budget, callback>>

\* io_process: the next event, by its token.
Process(e) ==
  /\ Loop("process") /\ e \in evts
  /\ evts' = evts \ {e}
  /\ \/ e = "NOTIFY" /\ Goto("notify") /\ budget' = MessagesPerTick /\ UNCHANGED callback
     \/ e = "TIMER" /\ Goto("timer") /\ UNCHANGED <<budget, callback>>
     \/ e = "IO" /\ callback' = TRUE /\ UNCHANGED <<lpc, budget>>
  /\ UNCHANGED <<chanVars, timerVars, run, once>>

\* The events are processed: Handler::tick.
Tick ==
  /\ Loop("process") /\ evts = {}
  /\ callback' = TRUE
  /\ Goto("tick")
  /\ UNCHANGED <<chanVars, timerVars, run, once, evts, budget>>

\* Mutant: run does not look at the flag.
EndOfTickForever ==
  /\ Loop("tick")
  /\ Goto(IF ~once THEN "poll" ELSE "stopped")
  /\ UNCHANGED <<chanVars, timerVars, run, once, evts, budget, callback>>

\* The end of run_once and the condition of run's loop.
EndOfTick ==
  /\ Loop("tick")
  /\ Goto(IF run /\ ~once THEN "poll" ELSE "stopped")
  /\ UNCHANGED <<chanVars, timerVars, run, once, evts, budget, callback>>

-----------------------------------------------------------------------------
(* notify and timer_process.                                               *)

\* notify: up to messages_per_tick messages ...
NotifyMessage ==
  /\ Loop("notify") /\ budget > 0
  /\ Chan!TryRecv
  /\ budget' = budget - 1
  /\ callback' = TRUE
  /\ UNCHANGED <<timerVars, run, lpc, once, evts>>

NotifyEmpty ==
  /\ Loop("notify") /\ budget > 0
  /\ Chan!TryRecvEmpty
  /\ budget' = 0
  /\ UNCHANGED <<timerVars, run, lpc, once, evts, callback>>

\* Mutant: it is renewed only once the channel is drained.
NotifyReregisterDrained ==
  /\ Loop("notify") /\ budget = 0
  /\ IF len = 0 THEN Chan!Reregister(TRUE) ELSE UNCHANGED chanVars
  /\ Goto("process")
  /\ UNCHANGED <<timerVars, run, once, evts, budget, callback>>

\* Mutant: the loop of notify goes on until the channel is drained.
NotifyReregisterGreedy ==
  /\ Loop("notify") /\ budget = 0
  /\ \/ /\ len = 0 /\ Chan!Reregister(TRUE) /\ Goto("process")
        /\ UNCHANGED budget
     \/ len > 0 /\ budget' = MessagesPerTick /\ UNCHANGED <<chanVars, lpc>>
  /\ UNCHANGED <<timerVars, run, once, evts, callback>>

\* ... then the one-shot registration is renewed.
NotifyReregister ==
  /\ Loop("notify") /\ budget = 0
  /\ Chan!Reregister(TRUE)
  /\ Goto("process")
  /\ UNCHANGED <<timerVars, run, once, evts, budget, callback>>

\* timer_process: every timeout that is due ...
TimerFires(t) ==
  /\ Loop("timer") /\ timeout[t] = "due"
  /\ timeout' = [timeout EXCEPT ![t] = "done"]
  /\ callback' = TRUE
  /\ UNCHANGED <<chanVars, tready, tnote, run, lpc, once, evts, budget>>

\* ... until Timer::poll returns None and unsets the readiness.
TimerDone ==
  /\ Loop("timer") /\ \A t \in Timeouts : timeout[t] # "due"
  /\ tready' = FALSE
  /\ Goto("process")
  /\ UNCHANGED <<chanVars, timeout, tnote, run, once, evts, budget, callback>>

\* The clock and the timer's wakeup thread.
Expire(t) ==
  /\ timeout[t] = "set"
  /\ timeout' = [timeout EXCEPT ![t] = "due"]
  /\ tready' = TRUE /\ tnote' = TRUE
  /\ UNCHANGED <<chanVars, loopVars>>

-----------------------------------------------------------------------------
(* What may be called from a callback, or while the loop does not run.     *)

MayCall == (callback \/ lpc = "stopped") /\ rpc = "idle" /\ Alive

Shutdown ==
  /\ MayCall
  /\ run' = FALSE
  /\ UNCHANGED <<chanVars, timerVars, lpc, once, evts, budget, callback>>

\* EventLoop::timeout and clear_timeout.
Timeout(t) ==
  /\ MayCall /\ timeout[t] = "new"
  /\ timeout' = [timeout EXCEPT ![t] = "set"]
  /\ UNCHANGED <<chanVars, tready, tnote, loopVars>>

ClearTimeout(t) ==
  /\ MayCall /\ timeout[t] \in {"set", "due"}
  /\ timeout' = [timeout EXCEPT ![t] = "done"]
  /\ UNCHANGED <<chanVars, tready, tnote, loopVars>>

\* EventLoop::channel clones notify_tx, which the loop keeps; Sender::clone any
\* other.
NewSender(t, u) ==
  /\ t = FirstSender => MayCall
  /\ Chan!SenderClone(t, u)
  /\ UNCHANGED <<timerVars, loopVars>>

CallbackReturns ==
  /\ callback /\ rpc = "idle"
  /\ callback' = FALSE
  /\ UNCHANGED <<chanVars, timerVars, run, lpc, once, evts, budget>>

\* The loop is dropped: its fields notify_tx and notify_rx, in that order.
DropLoop ==
  /\ Loop("stopped")
  /\ \/ rxAlive /\ Chan!SenderDrop(FirstSender)
     \/ FirstSender \notin holders /\ pc[FirstSender] = "idle" /\ Chan!ReceiverDrop
  /\ UNCHANGED <<timerVars, loopVars>>

\* Sender::send is try_send: on a full channel it fails and changes nothing.
SenderCall(t) ==
  /\ \/ len < Bound /\ Chan!Send(t)
     \/ Chan!SenderDrop(t)
  /\ UNCHANGED <<timerVars, loopVars>>

\* The rest of a send or of a drop.
SenderStep(t) ==
  /\ Chan!IncFetchAdd(t) \/ Chan!IncSetReadiness(t) \/ Chan!SenderCtlDrop(t)
  /\ UNCHANGED <<timerVars, loopVars>>

\* The rest of try_recv.
ReceiverStep ==
  /\ Chan!DecLoad \/ Chan!DecUnset \/ Chan!DecFetchSub \/ Chan!DecReset
  /\ UNCHANGED <<timerVars, loopVars>>

LoopStep ==
  \/ (\E e \in {"NOTIFY", "TIMER", "IO"} : Process(e)) \/ Tick \/ EndOfTick
  \/ NotifyMessage \/ NotifyEmpty \/ NotifyReregister
  \/ (\E t \in Timeouts : TimerFires(t)) \/ TimerDone
  \/ ReceiverStep \/ CallbackReturns

Next ==
  \/ Run \/ PollReturns \/ PollInterrupted \/ PollFails \/ LoopStep
  \/ Shutdown \/ DropLoop
  \/ \E t \in Timeouts : Timeout(t) \/ ClearTimeout(t) \/ Expire(t)
  \/ \E u \in Senders \ {FirstSender} : SenderCall(u) \/ \E t \in Senders : NewSender(t, u)
  \/ \E u \in Senders : SenderStep(u)

Spec == Init /\ [][Next]_vars

\* Calls of senders finish, callbacks return, the loop goes on, and poll is not
\* interrupted every time.
FairSpec ==
  /\ Spec
  /\ \A u \in Senders : WF_vars(SenderStep(u))
  /\ WF_vars(LoopStep)
  /\ WF_vars(CallbackReturns)
  /\ SF_vars(PollReturns)

-----------------------------------------------------------------------------
(* Properties.                                                             *)

\* The loop never sleeps on messages: when it polls and no send is in progress, a
\* message in the channel has its registration armed and queued, also when the
\* last iteration ran into messages_per_tick (notify, reregister).
MessagesAreNotStranded ==
  lpc = "poll" /\ Chan!Quiet /\ len > 0 => interest /\ readable /\ note

\* A message that was sent is handed to the handler while the loop runs.
MessageIsHandled == (len > 0 /\ lpc # "stopped") ~> (rpc = "load" \/ lpc = "stopped")

\* A timeout that is due is handed to the handler or cleared while the loop runs,
\* however many messages are sent.
TimeoutIsHandled ==
  \A t \in Timeouts : (timeout[t] = "due" /\ lpc # "stopped") ~> (timeout[t] = "done" \/ lpc = "stopped")

\* shutdown, from a callback at any point of an iteration, ends run.
ShutdownEndsRun == ~run ~> (lpc = "stopped")

=============================================================================
