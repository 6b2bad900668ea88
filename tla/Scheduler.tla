------------------------------ MODULE Scheduler ------------------------------
(***************************************************************************)
(* The task scheduler of the language server (crates/els/scheduler.rs) and *)
(* the lock around its list of executing tasks (crates/erg_common/shared.rs).*)
(*                                                                         *)
(* A service thread with a request in hand registers it: as executing if   *)
(* there is room, as pending otherwise.  It then acquires it: an executing *)
(* task may run at once, a pending one waits for room and for tasks of     *)
(* higher priority to go first.  The dispatcher may cancel a pending task. *)
(* Length, position, removal and insertion are separate accesses, each     *)
(* under its own short lock, except that acquire() keeps its first borrow  *)
(* of `executing' alive until it returns: the borrow is a temporary of an  *)
(* `if let' whose `else' branch does the waiting.                          *)
(*                                                                         *)
(* Shared::borrow gives up, with a panic, after 4 seconds, and             *)
(* Shared::borrow_mut after 8.  Both wait while somebody keeps a borrow,   *)
(* the readers if a writer is waiting as well; how long has passed is left *)
(* open: whoever waits may give up.                                        *)
(***************************************************************************)
EXTENDS Integers, FiniteSets, SequencesExt

CONSTANTS
  Thread,      \* the service threads
  Request,     \* the requests, by their task ids
  NoRequest,
  Priority,    \* RequestKind::priority() of each request: lower goes first
  MaxWorkers   \* MAX_WORKERS

ASSUME NoRequestAssumption == NoRequest \notin Request
ASSUME PriorityAssumption == Priority \in [Request -> 0..255]
ASSUME MaxWorkersAssumption == MaxWorkers \in Nat \ {0}

VARIABLES
  pending,     \* Scheduler::pending
  executing,   \* Scheduler::executing, whose order nothing depends on
  cancelled,   \* the tasks whose cancellation was approved
  step,        \* where each thread is
  task,        \* the request it has in hand
  index,       \* what position() found in acquire()
  taken        \* what acquire() removed from `pending'

schedulerVars == <<pending, executing, cancelled, step, task, index, taken>>

Steps == {"idle", "register", "pushExecuting", "pushPending", "acquire", "wait",
          "take", "remove", "pushTaken", "granted", "refused", "finish",
          "stopped", "dead"}

InitScheduler ==
  /\ pending = <<>>
  /\ executing = {}
  /\ cancelled = {}
  /\ step = [t \in Thread |-> "idle"]
  /\ task = [t \in Thread |-> NoRequest]
  /\ index = [t \in Thread |-> 0]
  /\ taken = [t \in Thread |-> NoRequest]

Position(r) == SelectInSeq(pending, LAMBDA q : q = r)

HasRoom == Cardinality(executing) < MaxWorkers

\* The threads whose first borrow in acquire() is still alive.
Borrowing == {t \in Thread : step[t] \in {"wait", "take", "remove", "pushTaken"}}

\* A writer is held up by a borrow.
WriterWaits ==
  /\ Borrowing # {}
  /\ \E t \in Thread : step[t] \in {"pushExecuting", "finish", "pushTaken"}

Goto(t, s) == step' = [step EXCEPT ![t] = s]

\* register(): the length is read under one lock ...
Register(t) ==
  /\ step[t] = "register"
  /\ Goto(t, IF HasRoom THEN "pushExecuting" ELSE "pushPending")
  /\ UNCHANGED <<pending, executing, cancelled, task, index, taken>>

\* ... and the task is pushed under another.
PushExecuting(t) ==
  /\ step[t] = "pushExecuting"
  /\ Borrowing = {}
  /\ executing' = executing \union {task[t]}
  /\ Goto(t, "acquire")
  /\ UNCHANGED <<pending, cancelled, task, index, taken>>

PushPending(t) ==
  /\ step[t] = "pushPending"
  /\ pending' = Append(pending, task[t])
  /\ Goto(t, "acquire")
  /\ UNCHANGED <<executing, cancelled, task, index, taken>>

\* The first lookups of acquire().
Acquire(t) ==
  /\ step[t] = "acquire"
  /\ Goto(t, CASE task[t] \in executing -> "granted"
               [] task[t] \notin executing /\ Position(task[t]) # 0 -> "wait"
               [] OTHER -> "refused")
  /\ UNCHANGED <<pending, executing, cancelled, task, index, taken>>

\* The loop of acquire() ends: there is room and nobody goes first.
StopWaiting(t) ==
  /\ step[t] = "wait"
  /\ HasRoom
  /\ \A r \in ToSet(pending) : Priority[r] >= Priority[task[t]]
  /\ Goto(t, "take")
  /\ UNCHANGED <<pending, executing, cancelled, task, index, taken>>

\* The position of the task is looked up under one lock ...
Find(t) ==
  /\ step[t] = "take"
  /\ index' = [index EXCEPT ![t] = Position(task[t])]
  /\ Goto(t, IF Position(task[t]) = 0 THEN "refused" ELSE "remove")
  /\ UNCHANGED <<pending, executing, cancelled, task, taken>>

\* ... and used under another, when it may be that of another task, or of none.
TakeOut(t) ==
  /\ step[t] = "remove"
  /\ IF index[t] \in DOMAIN pending
       THEN /\ taken' = [taken EXCEPT ![t] = pending[index[t]]]
            /\ pending' = RemoveAt(pending, index[t])
            /\ Goto(t, "pushTaken")
       ELSE /\ Goto(t, "refused")
            /\ UNCHANGED <<pending, taken>>
  /\ index' = [index EXCEPT ![t] = 0]
  /\ UNCHANGED <<executing, cancelled, task>>

\* executing.borrow_mut() at the end of acquire(): it waits for borrows of
\* `executing', one of which is the thread's own, and panics.
PushTaken(t) ==
  /\ step[t] = "pushTaken"
  /\ IF Borrowing = {}
       THEN /\ executing' = executing \union {taken[t]}
            /\ Goto(t, "granted")
       ELSE /\ Goto(t, "dead")
            /\ UNCHANGED executing
  /\ taken' = [taken EXCEPT ![t] = NoRequest]
  /\ UNCHANGED <<pending, cancelled, task, index>>

\* borrow() gives up because a writer is waiting, itself held up by a borrow.
BorrowTimeout(t) ==
  /\ step[t] \in {"register", "acquire", "wait"}
  /\ WriterWaits
  /\ Goto(t, "dead")
  /\ UNCHANGED <<pending, executing, cancelled, task, index, taken>>

\* borrow_mut() in register() and finish() gives up: another thread's borrow has
\* outlasted it.
BorrowMutTimeout(t) ==
  /\ step[t] \in {"pushExecuting", "finish"}
  /\ Borrowing # {}
  /\ Goto(t, "dead")
  /\ UNCHANGED <<pending, executing, cancelled, task, index, taken>>

\* Mutant: a task that is executing is cancelled, too, and goes on.
CancelAny(r) ==
  /\ r \in ToSet(pending) \union executing
  /\ pending' = Remove(pending, r)
  /\ cancelled' = cancelled \union {r}
  /\ UNCHANGED <<executing, step, task, index, taken>>

\* cancel(), called by the dispatcher: only a pending task can be cancelled.
Cancel(r) ==
  /\ Position(r) # 0
  /\ pending' = RemoveAt(pending, Position(r))
  /\ cancelled' = cancelled \union {r}
  /\ UNCHANGED <<executing, step, task, index, taken>>

\* Mutant: the slot is not given back.
KeepSlot(t) ==
  /\ step[t] = "finish"
  /\ Borrowing = {}
  /\ Goto(t, "idle")
  /\ task' = [task EXCEPT ![t] = NoRequest]
  /\ UNCHANGED <<pending, executing, cancelled, index, taken>>

\* Mutant: the slot is given back and the request kept.
KeepTask(t) ==
  /\ step[t] = "finish"
  /\ Borrowing = {}
  /\ executing' = executing \ {task[t]}
  /\ Goto(t, "idle")
  /\ UNCHANGED <<pending, cancelled, task, index, taken>>

\* finish()
Finish(t) ==
  /\ step[t] = "finish"
  /\ Borrowing = {}
  /\ executing' = executing \ {task[t]}
  /\ Goto(t, "idle")
  /\ task' = [task EXCEPT ![t] = NoRequest]
  /\ UNCHANGED <<pending, cancelled, index, taken>>

\* What a thread does inside the scheduler, short of dying in it.
SchedulerStep(t) ==
  \/ Register(t)
  \/ PushExecuting(t)
  \/ PushPending(t)
  \/ Acquire(t)
  \/ StopWaiting(t)
  \/ Find(t)
  \/ TakeOut(t)
  \/ Finish(t)
=============================================================================
