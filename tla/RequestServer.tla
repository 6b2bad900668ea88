---------------------------- MODULE RequestServer ----------------------------
(***************************************************************************)
(* The requests of the language server (crates/els/server.rs and           *)
(* channels.rs): one dispatcher reads what the client sends and hands each *)
(* request to the thread of its service through that service's channel;    *)
(* the thread takes it through the scheduler, handles it, and answers.     *)
(*                                                                         *)
(* A handler that panics takes its thread with it.  The next request for   *)
(* that service finds the channel closed and is lost, and the dispatcher   *)
(* starts a new generation of threads, after asking the old ones to stop.  *)
(* A dispatcher that panics is replaced by the supervisor, which starts a  *)
(* new generation as well, but asks only those threads to stop whose       *)
(* channels it has itself: those it started.  The scheduler is never reset. *)
(***************************************************************************)
EXTENDS Scheduler

CONSTANTS
  Service,      \* the services, one per request method
  ServiceOf,    \* the service a request is for
  Unclosed,     \* the services SendChannels::close() leaves out
  Kill,         \* WorkerMessage::Kill
  MaxRestarts   \* bound on the restarts

ASSUME ServiceOfAssumption == ServiceOf \in [Request -> Service]
ASSUME UnclosedAssumption == Unclosed \subseteq Service
ASSUME KillAssumption == Kill \notin Request
ASSUME MaxRestartsAssumption == MaxRestarts \in Nat
ASSUME ThreadAssumption == Thread = Service \X (0..MaxRestarts)

VARIABLES
  chan,         \* the channel of each thread
  fate,         \* what became of each request
  generation,   \* the threads the dispatcher has channels to
  supervised    \* the threads the supervisor has channels to, if any

serverVars == <<chan, fate, generation, supervised>>
vars == <<schedulerVars, serverVars>>

NoGeneration == -1

Init ==
  /\ InitScheduler
  /\ chan = [t \in Thread |-> <<>>]
  /\ fate = [r \in Request |-> "unsent"]
  /\ generation = 0
  /\ supervised = NoGeneration

\* The receiver of a thread that has ended is gone, and so is what it held.
Listening(t) == step[t] \notin {"stopped", "dead"}

\* Mutant: the threads are told to stop before they have seen to the rest.
CloseAtOnce(channels, g) ==
  [t \in Thread |-> IF t[2] = g /\ t[1] \notin Unclosed /\ Listening(t)
                    THEN <<Kill>> \o channels[t] ELSE channels[t]]

\* SendChannels::close(): a thread sees Kill after what was sent before.
Close(channels, g) ==
  [t \in Thread |-> IF t[2] = g /\ t[1] \notin Unclosed /\ Listening(t)
                    THEN Append(channels[t], Kill) ELSE channels[t]]

\* parse_send(): the request reaches the thread of its service ...
Dispatch(r) ==
  /\ fate[r] = "unsent"
  /\ Listening(<<ServiceOf[r], generation>>)
  /\ chan' = [chan EXCEPT ![<<ServiceOf[r], generation>>] = Append(@, r)]
  /\ fate' = [fate EXCEPT ![r] = "sent"]
  /\ UNCHANGED <<schedulerVars, generation, supervised>>

\* ... or its channel is closed: the dispatcher calls restart().
Restart(r) ==
  /\ fate[r] = "unsent"
  /\ ~Listening(<<ServiceOf[r], generation>>)
  /\ generation < MaxRestarts
  /\ fate' = [fate EXCEPT ![r] = "lost"]
  /\ chan' = Close(chan, generation)
  /\ generation' = generation + 1
  /\ UNCHANGED <<schedulerVars, supervised>>

\* The dispatcher panics; the supervisor calls restart() and starts another
\* one with its own channels.
Recover ==
  /\ generation < MaxRestarts
  /\ chan' = Close(chan, supervised)
  /\ generation' = generation + 1
  /\ supervised' = generation + 1
  /\ UNCHANGED <<schedulerVars, fate>>

\* "$/cancelRequest"
CancelRequest(r) ==
  /\ Cancel(r)
  /\ UNCHANGED serverVars

Receive(t) ==
  /\ step[t] = "idle"
  /\ chan[t] # <<>>
  /\ Head(chan[t]) # Kill
  /\ chan' = [chan EXCEPT ![t] = Tail(@)]
  /\ task' = [task EXCEPT ![t] = Head(chan[t])]
  /\ Goto(t, "register")
  /\ UNCHANGED <<pending, executing, cancelled, index, taken, fate, generation, supervised>>

Stop(t) ==
  /\ step[t] = "idle"
  /\ chan[t] # <<>>
  /\ Head(chan[t]) = Kill
  /\ chan' = [chan EXCEPT ![t] = Tail(@)]
  /\ Goto(t, "stopped")
  /\ UNCHANGED <<pending, executing, cancelled, task, index, taken, fate, generation, supervised>>

\* acquire() returned None: the request is not answered.
Refuse(t) ==
  /\ step[t] = "refused"
  /\ fate' = [fate EXCEPT ![task[t]] = "dropped"]
  /\ task' = [task EXCEPT ![t] = NoRequest]
  /\ Goto(t, "idle")
  /\ UNCHANGED <<pending, executing, cancelled, index, taken, chan, generation, supervised>>

\* Mutant: a failed handler's request is answered but not finished.
HandleOrLeave(t) ==
  /\ step[t] = "granted"
  /\ fate' = [fate EXCEPT ![task[t]] = "answered"]
  /\ \/ Goto(t, "finish") /\ UNCHANGED task
     \/ Goto(t, "idle") /\ task' = [task EXCEPT ![t] = NoRequest]
  /\ UNCHANGED <<pending, executing, cancelled, index, taken, chan, generation, supervised>>

\* The handler returns, and its result or its error is sent.
Handle(t) ==
  /\ step[t] = "granted"
  /\ fate' = [fate EXCEPT ![task[t]] = "answered"]
  /\ Goto(t, "finish")
  /\ UNCHANGED <<pending, executing, cancelled, task, index, taken, chan, generation, supervised>>

\* The thread is gone, with the request it had in hand, unless it is answered, and
\* those it had not received yet.
LoseWith(t) ==
  /\ fate' = [r \in Request |->
                IF \/ r = task[t] /\ step[t] # "finish"
                   \/ r \in ToSet(chan[t])
                THEN "lost" ELSE fate[r]]
  /\ chan' = [chan EXCEPT ![t] = <<>>]
  /\ UNCHANGED <<generation, supervised>>

\* The handler panics.
HandlerPanic(t) ==
  /\ step[t] = "granted"
  /\ Goto(t, "dead")
  /\ LoseWith(t)
  /\ UNCHANGED <<pending, executing, cancelled, task, index, taken>>

\* The scheduler panics.
SchedulerPanic(t) ==
  /\ BorrowTimeout(t) \/ BorrowMutTimeout(t) \/ PushTaken(t)
  /\ IF step'[t] = "dead" THEN LoseWith(t) ELSE UNCHANGED serverVars

\* What a service thread does if the operating system lets it and its handler
\* returns.
ServiceStep(t) ==
  \/ SchedulerStep(t) /\ UNCHANGED serverVars
  \/ Receive(t)
  \/ Stop(t)
  \/ Refuse(t)
  \/ Handle(t)

Next ==
  \/ \E r \in Request : Dispatch(r) \/ Restart(r) \/ CancelRequest(r)
  \/ Recover
  \/ \E t \in Thread : ServiceStep(t) \/ HandlerPanic(t) \/ SchedulerPanic(t)

\* Threads run, handlers return, and time passes for those that wait.
Fairness ==
  \A t \in Thread : /\ WF_vars(ServiceStep(t))
                    /\ WF_vars(step[t] \in {"wait", "pushTaken"} /\ SchedulerPanic(t))

Spec == Init /\ [][Next]_vars /\ Fairness

-----------------------------------------------------------------------------

TypeOK ==
  /\ pending \in Seq(Request)
  /\ executing \subseteq Request
  /\ cancelled \subseteq Request
  /\ step \in [Thread -> Steps]
  /\ task \in [Thread -> Request \union {NoRequest}]
  /\ index \in [Thread -> Nat]
  /\ taken \in [Thread -> Request \union {NoRequest}]
  /\ chan \in [Thread -> Seq(Request \union {Kill})]
  /\ fate \in [Request -> {"unsent", "sent", "answered", "dropped", "lost"}]
  /\ generation \in 0..MaxRestarts
  /\ supervised \in NoGeneration..generation
  /\ \A t \in Thread : task[t] = NoRequest <=> step[t] \in {"idle", "stopped"}

\* A slot is never given away while its request is being handled, and is held by
\* nobody but the thread that has the request in hand or died with it: slots
\* are lost with their threads (finish() is not reached, or fails), and only so.
SlotsExact ==
  /\ \A t \in Thread : step[t] \in {"granted", "finish"} => task[t] \in executing
  /\ \A r \in executing :
       \E t \in Thread : task[t] = r /\ step[t] \in {"acquire", "granted", "finish", "dead"}

\* A request whose cancellation was approved is never handled, although its
\* thread may have looked its position up before (acquire() against cancel()).
CancelledNeverRuns ==
  \A r \in cancelled :
    /\ fate[r] # "answered"
    /\ \A t \in Thread : task[t] = r => step[t] \notin {"granted", "finish"}

\* Whatever restarts and panics do, a request that was sent and has met no fate
\* is in the channel, or in the hands, of exactly one thread that is running.
NothingForgotten ==
  \A r \in Request :
    fate[r] = "sent" =>
      \E t \in Thread :
        /\ Listening(t)
        /\ task[t] = r \/ r \in ToSet(chan[t])
        /\ \A u \in Thread \ {t} : Listening(u) => task[u] # r /\ r \notin ToSet(chan[u])

\* Something is left in the scheduler that others wait for: a pending task that
\* no thread is going to take, or slots whose threads have died.
Wedged ==
  \/ \E r \in ToSet(pending) : \A t \in Thread : task[t] = r => ~Listening(t)
  \/ Cardinality({t \in Thread : step[t] = "dead" /\ task[t] \in executing}) >= MaxWorkers

\* Every request is answered, or dropped as cancelled, or lost with its thread:
\* nobody waits for ever, except after a panic that left a task in the scheduler.
EveryRequestSettled ==
  \A r \in Request : (fate[r] = "sent") ~> (fate[r] # "sent" \/ Wedged)

\* "Blocks until the task is allowed to be executed": a thread may die handling
\* a request, which then has a slot, but not while it acquires one.
AcquireReturns ==
  \A t \in Thread : step[t] = "dead" => task[t] \in executing
=============================================================================
