-------------------------- MODULE RequestServerProofs --------------------------
(***************************************************************************)
(* What the scheduler guarantees to the language server, for any number of *)
(* services, requests, slots and restarts.                                 *)
(***************************************************************************)
EXTENDS RequestServer, SequenceTheorems, WellFoundedInduction, TLAPS

-----------------------------------------------------------------------------
(* Positions. *)

(* A set of numbers that is not empty has a least element, ...            *)
LEMMA LeastExists ==
  ASSUME NEW S, S \subseteq Nat, S # {}
  PROVE  \E m \in S : \A k \in S : m <= k
<1>1. PICK m \in S : \A k \in S : ~ (<<k, m>> \in OpToRel(<, Nat))
  BY WFMin, NatLessThanWellFounded
<1>2. ASSUME NEW k \in S PROVE m <= k
  <2>1. k \in Nat /\ m \in Nat
    OBVIOUS
  <2>2. ~ (<<k, m>> \in OpToRel(<, Nat))
    BY <1>1
  <2>3. ~ (k < m)
    <3> SUFFICES ASSUME k < m PROVE FALSE
      OBVIOUS
    <3> QED
      BY <2>1, <2>2 DEF OpToRel
  <2> QED
    BY <2>1, <2>3
<1> QED
  BY <1>2

(* Min is that element.                                                    *)
LEMMA MinIsLeast ==
  ASSUME NEW S, S \subseteq Nat, S # {}
  PROVE  Min(S) \in S /\ \A k \in S : Min(S) <= k
BY LeastExists DEF Min

-----------------------------------------------------------------------------
(* The list of pending tasks. *)

LEMMA RemovedKeepsRest ==
  ASSUME NEW T, NEW s \in Seq(T), NEW k \in 1 .. Len(s)
  PROVE  /\ RemoveAt(s, k) \in Seq(T)
         /\ \A i \in 1 .. Len(RemoveAt(s, k)) : \E j \in 1 .. Len(s) : RemoveAt(s, k)[i] = s[j]
<1> DEFINE a == SubSeq(s, 1, k - 1)
           b == SubSeq(s, k + 1, Len(s))
<1>1. Len(s) \in Nat /\ k \in Nat /\ k <= Len(s)
  OBVIOUS
<1>2. a \in Seq(T) /\ \A i \in 1 .. Len(a) : \E j \in 1 .. Len(s) : a[i] = s[j]
  <2>1. /\ 1 \in Int /\ k - 1 \in Int
        /\ \A i \in 1 .. k - 1 : s[i] \in T
    BY <1>1
  <2>2. /\ a \in Seq(T)
        /\ Len(a) = IF 1 <= k - 1 THEN k - 1 - 1 + 1 ELSE 0
        /\ \A i \in 1 .. k - 1 - 1 + 1 : a[i] = s[1 + i - 1]
    BY <2>1, SubSeqProperties
  <2> HIDE DEF a
  <2>3. ASSUME NEW i \in 1 .. Len(a) PROVE \E j \in 1 .. Len(s) : a[i] = s[j]
    <3>1. i \in 1 .. k - 1 /\ i \in 1 .. Len(s) /\ 1 + i - 1 = i
      BY <1>1, <2>2
    <3>2. a[i] = s[i]
      BY <1>1, <2>2, <3>1
    <3> QED
      BY <3>1, <3>2
  <2> QED
    BY <2>2, <2>3
<1>3. b \in Seq(T) /\ \A i \in 1 .. Len(b) : \E j \in 1 .. Len(s) : b[i] = s[j]
  <2>1. /\ k + 1 \in Int /\ Len(s) \in Int
        /\ \A i \in k + 1 .. Len(s) : s[i] \in T
    BY <1>1
  <2>2. /\ b \in Seq(T)
        /\ Len(b) = IF k + 1 <= Len(s) THEN Len(s) - (k + 1) + 1 ELSE 0
        /\ \A i \in 1 .. Len(s) - (k + 1) + 1 : b[i] = s[(k + 1) + i - 1]
    BY <2>1, SubSeqProperties
  <2> HIDE DEF b
  <2>3. ASSUME NEW i \in 1 .. Len(b) PROVE \E j \in 1 .. Len(s) : b[i] = s[j]
    <3>1. i \in 1 .. Len(s) - (k + 1) + 1 /\ (k + 1) + i - 1 \in 1 .. Len(s)
      BY <1>1, <2>2
    <3> QED
      BY <2>2, <3>1
  <2> QED
    BY <2>2, <2>3
<1>4. RemoveAt(s, k) = a \o b
  BY DEF RemoveAt
<1> HIDE DEF a, b
<1>5. /\ a \o b \in Seq(T) /\ Len(a \o b) = Len(a) + Len(b)
      /\ \A i \in 1 .. Len(a) + Len(b) :
           (a \o b)[i] = IF i <= Len(a) THEN a[i] ELSE b[i - Len(a)]
  BY <1>2, <1>3, ConcatProperties
<1>6. ASSUME NEW i \in 1 .. Len(a \o b) PROVE \E j \in 1 .. Len(s) : (a \o b)[i] = s[j]
  <2>1. Len(a) \in Nat /\ Len(b) \in Nat /\ i \in 1 .. Len(a) + Len(b)
    BY <1>2, <1>3, <1>5
  <2>2. CASE i <= Len(a)
    BY <1>2, <1>5, <2>1, <2>2
  <2>3. CASE ~(i <= Len(a))
    <3>1. i - Len(a) \in 1 .. Len(b)
      BY <2>1, <2>3
    <3>2. (a \o b)[i] = b[i - Len(a)]
      BY <1>5, <2>1, <2>3
    <3> QED
      BY <1>3, <3>1, <3>2
  <2> QED
    BY <2>2, <2>3
<1> QED
  BY <1>4, <1>5, <1>6

LEMMA PositionIsIndex ==
  ASSUME NEW r, pending \in Seq(Request)
  PROVE  \/ Position(r) = 0
         \/ Position(r) \in 1 .. Len(pending) /\ pending[Position(r)] = r
<1> DEFINE I == {i \in 1 .. Len(pending) : pending[i] = r}
<1>1. Position(r) = IF I # {} THEN Min(I) ELSE 0
  BY DEF Position, SelectInSeq
<1>2. I \subseteq Nat
  OBVIOUS
<1>3. ASSUME I # {} PROVE Min(I) \in I
  BY <1>2, <1>3, MinIsLeast
<1>4. CASE I = {}
  BY <1>1, <1>4
<1>5. CASE I # {}
  <2>1. Position(r) \in I
    BY <1>1, <1>3, <1>5
  <2> QED
    BY <2>1
<1> QED
  BY <1>4, <1>5

-----------------------------------------------------------------------------
(* The inductive invariant. *)

FatesAt(s) ==
  IF s = "finish" THEN {"answered"} ELSE IF s = "dead" THEN {"lost", "answered"} ELSE {"sent"}

(* What became of a request in hand is known from where its thread is.     *)
Held == \A t \in Thread : task[t] # NoRequest => fate[task[t]] \in FatesAt(step[t])

(* A request is in the hands of one thread ...                             *)
Alone == \A t, u \in Thread : task[t] = task[u] /\ task[t] # NoRequest => t = u

(* ... or once in one channel.                                             *)
Queued ==
  \A t \in Thread : \A i \in 1 .. Len(chan[t]) :
    chan[t][i] # Kill =>
      fate[chan[t][i]] = "sent" /\ \A u \in Thread : task[u] # chan[t][i]

Once ==
  \A t, u \in Thread : \A i \in 1 .. Len(chan[t]), j \in 1 .. Len(chan[u]) :
    chan[t][i] = chan[u][j] /\ chan[t][i] # Kill => t = u /\ i = j

(* A request that was pending or cancelled never has a slot.               *)
Slotless(r) ==
  /\ r \notin executing
  /\ fate[r] \notin {"unsent", "answered"}
  /\ \A t \in Thread : \A i \in 1 .. Len(chan[t]) : chan[t][i] # r
  /\ \A t \in Thread :
       task[t] = r =>
         step[t] \notin {"register", "pushExecuting", "pushPending", "granted", "finish"}

Behind ==
  /\ \A i \in 1 .. Len(pending) : Slotless(pending[i])
  /\ \A r \in cancelled : Slotless(r)

Inv == TypeOK /\ Held /\ Alone /\ Queued /\ Once /\ SlotsExact /\ Behind

LEMMA QueuedIsRequest ==
  ASSUME Inv, NEW t \in Thread, NEW i \in 1 .. Len(chan[t]), chan[t][i] # Kill
  PROVE  chan[t][i] \in Request /\ chan[t][i] # NoRequest
<1>1. chan[t] \in Seq(Request \union {Kill})
  BY DEF Inv, TypeOK
<1> QED
  BY <1>1, NoRequestAssumption

LEMMA OwnersKept ==
  ASSUME Inv, UNCHANGED <<task, chan, fate>>
  PROVE  Alone' /\ Queued' /\ Once'
BY DEF Inv, Alone, Queued, Once

(* A thread moves on inside the scheduler.                                 *)
Inside == {"register", "pushExecuting", "pushPending", "acquire", "wait", "take", "remove",
           "pushTaken", "granted", "refused"}

LEMMA HeldInside ==
  ASSUME Inv, NEW t \in Thread, NEW s \in Inside, step[t] \in Inside, Goto(t, s),
         UNCHANGED <<task, chan, fate>>
  PROVE  Held'
BY DEF Inv, TypeOK, Held, Goto, Inside, FatesAt

SlotSteps == {"acquire", "granted", "finish", "dead"}

LEMMA SlotsKept ==
  ASSUME Inv, NEW t \in Thread, NEW s, Goto(t, s), UNCHANGED <<executing, task>>,
         s \in {"granted", "finish"} => task[t] \in executing,
         step[t] \in SlotSteps /\ task[t] \in executing => s \in SlotSteps
  PROVE  SlotsExact'
<1>1. \A u \in Thread : step'[u] = IF u = t THEN s ELSE step[u]
  BY DEF Inv, TypeOK, Goto
<1>2. ASSUME NEW u \in Thread, step'[u] \in {"granted", "finish"} PROVE task[u] \in executing
  BY <1>1, <1>2 DEF Inv, SlotsExact
<1>3. ASSUME NEW r \in executing PROVE \E u \in Thread : task[u] = r /\ step'[u] \in SlotSteps
  <2>1. PICK u \in Thread : task[u] = r /\ step[u] \in SlotSteps
    BY DEF Inv, SlotsExact, SlotSteps
  <2> QED
    BY <1>1, <2>1
<1> QED
  BY <1>2, <1>3 DEF SlotsExact, SlotSteps

LEMMA RegisterKeeps ==
  ASSUME Inv, NEW t \in Thread, Register(t), UNCHANGED serverVars
  PROVE  Inv'
<1>1. PICK s \in {"pushExecuting", "pushPending"} : Goto(t, s)
  BY DEF Register
<1>2. TypeOK'
  BY <1>1 DEF Inv, TypeOK, Register, Goto, Steps, serverVars
<1>3. Held'
  BY <1>1, HeldInside DEF Inside, Register, serverVars
<1>4. SlotsExact'
  BY <1>1, SlotsKept DEF SlotSteps, Register
<1>5. Behind'
  BY <1>1 DEF Inv, TypeOK, Behind, Slotless, Register, Goto, serverVars
<1> QED
  BY <1>2, <1>3, <1>4, <1>5, OwnersKept DEF Inv, Register, serverVars

LEMMA PushExecutingKeeps ==
  ASSUME Inv, NEW t \in Thread, PushExecuting(t), UNCHANGED serverVars
  PROVE  Inv'
<1>1. TypeOK'
  BY DEF Inv, TypeOK, PushExecuting, Goto, Steps, serverVars
<1>2. Held'
  BY HeldInside DEF Inside, PushExecuting, serverVars
<1>3. SlotsExact'
  <2>1. \A u \in Thread : step'[u] = IF u = t THEN "acquire" ELSE step[u]
    BY DEF Inv, TypeOK, PushExecuting, Goto
  <2>2. executing' = executing \union {task[t]} /\ task' = task
    BY DEF PushExecuting
  <2>3. ASSUME NEW u \in Thread, step'[u] \in {"granted", "finish"} PROVE task[u] \in executing
    BY <2>1, <2>3 DEF Inv, SlotsExact
  <2>4. ASSUME NEW r \in executing PROVE \E u \in Thread : task[u] = r /\ step'[u] \in SlotSteps
    <3>1. PICK u \in Thread : task[u] = r /\ step[u] \in SlotSteps
      BY DEF Inv, SlotsExact, SlotSteps
    <3> QED
      BY <2>1, <3>1 DEF SlotSteps
  <2>5. step'[t] \in SlotSteps
    BY <2>1 DEF SlotSteps
  <2> QED
    BY <2>2, <2>3, <2>4, <2>5 DEF SlotsExact, SlotSteps
<1>4. Behind'
  BY DEF Inv, TypeOK, Behind, Slotless, PushExecuting, Goto, serverVars
<1> QED
  BY <1>1, <1>2, <1>3, <1>4, OwnersKept DEF Inv, PushExecuting, serverVars

LEMMA PushPendingKeeps ==
  ASSUME Inv, NEW t \in Thread, PushPending(t), UNCHANGED serverVars
  PROVE  Inv'
<1>1. TypeOK'
  BY DEF Inv, TypeOK, PushPending, Goto, Steps, serverVars
<1>2. Held'
  BY HeldInside DEF Inside, PushPending, serverVars
<1>3. SlotsExact'
  BY SlotsKept DEF SlotSteps, PushPending
<1>4. ASSUME NEW r \in Request, Slotless(r) PROVE Slotless(r)'
  BY <1>4 DEF Inv, TypeOK, Slotless, PushPending, Goto, serverVars
<1>5. Slotless(task[t])'
  <2>1. task[t] \in Request /\ task[t] # NoRequest /\ step[t] = "pushPending"
    BY DEF Inv, TypeOK, PushPending
  <2>2. task[t] \notin executing
    BY <2>1 DEF Inv, SlotsExact, Alone
  <2>3. fate[task[t]] = "sent"
    BY <2>1 DEF Inv, Held, FatesAt
  <2>4. \A u \in Thread : \A i \in 1 .. Len(chan[u]) : chan[u][i] # task[t]
    BY <2>1, KillAssumption DEF Inv, Queued
  <2>5. \A u \in Thread : task[u] = task[t] => u = t
    BY <2>1 DEF Inv, Alone
  <2> QED
    BY <2>1, <2>2, <2>3, <2>4, <2>5 DEF Slotless, PushPending, Goto, serverVars, Inv, TypeOK
<1>6. Behind'
  BY <1>4, <1>5 DEF Inv, TypeOK, Behind, PushPending
<1> QED
  BY <1>1, <1>2, <1>3, <1>6, OwnersKept DEF Inv, PushPending, serverVars

LEMMA AcquireKeeps ==
  ASSUME Inv, NEW t \in Thread, Acquire(t), UNCHANGED serverVars
  PROVE  Inv'
<1>1. PICK s \in {"granted", "wait", "refused"} :
        Goto(t, s) /\ (s = "granted" <=> task[t] \in executing)
  BY DEF Acquire
<1>2. TypeOK'
  BY <1>1 DEF Inv, TypeOK, Acquire, Goto, Steps, serverVars
<1>3. Held'
  BY <1>1, HeldInside DEF Inside, Acquire, serverVars
<1>4. SlotsExact'
  BY <1>1, SlotsKept DEF SlotSteps, Acquire
<1>5. Behind'
  BY <1>1 DEF Inv, TypeOK, Behind, Slotless, Acquire, Goto, serverVars
<1> QED
  BY <1>2, <1>3, <1>4, <1>5, OwnersKept DEF Inv, Acquire, serverVars

LEMMA StopWaitingKeeps ==
  ASSUME Inv, NEW t \in Thread, StopWaiting(t), UNCHANGED serverVars
  PROVE  Inv'
<1>1. TypeOK'
  BY DEF Inv, TypeOK, StopWaiting, Goto, Steps, serverVars
<1>2. Held'
  BY HeldInside DEF Inside, StopWaiting, serverVars
<1>3. SlotsExact'
  BY SlotsKept DEF SlotSteps, StopWaiting
<1>4. Behind'
  BY DEF Inv, TypeOK, Behind, Slotless, StopWaiting, Goto, serverVars
<1> QED
  BY <1>1, <1>2, <1>3, <1>4, OwnersKept DEF Inv, StopWaiting, serverVars

LEMMA FindKeeps ==
  ASSUME Inv, NEW t \in Thread, Find(t), UNCHANGED serverVars
  PROVE  Inv'
<1>1. PICK s \in {"refused", "remove"} : Goto(t, s)
  BY DEF Find
<1>2. Position(task[t]) \in Nat
  BY PositionIsIndex DEF Inv, TypeOK
<1>3. TypeOK'
  BY <1>1, <1>2 DEF Inv, TypeOK, Find, Goto, Steps, serverVars
<1>4. Held'
  BY <1>1, HeldInside DEF Inside, Find, serverVars
<1>5. SlotsExact'
  BY <1>1, SlotsKept DEF SlotSteps, Find
<1>6. Behind'
  BY <1>1 DEF Inv, TypeOK, Behind, Slotless, Find, Goto, serverVars
<1> QED
  BY <1>3, <1>4, <1>5, <1>6, OwnersKept DEF Inv, Find, serverVars

LEMMA TakeOutKeeps ==
  ASSUME Inv, NEW t \in Thread, TakeOut(t), UNCHANGED serverVars
  PROVE  Inv'
<1>1. PICK s \in {"refused", "pushTaken"} : Goto(t, s)
  BY DEF TakeOut
<1>2. /\ pending' \in Seq(Request)
      /\ \A i \in 1 .. Len(pending') : \E j \in 1 .. Len(pending) : pending'[i] = pending[j]
      /\ taken' \in [Thread -> Request \union {NoRequest}]
  <2>1. pending \in Seq(Request) /\ taken \in [Thread -> Request \union {NoRequest}]
    BY DEF Inv, TypeOK
  <2>2. CASE index[t] \in DOMAIN pending
    <3>1. index[t] \in 1 .. Len(pending)
      BY <2>1, <2>2
    <3>2. pending' = RemoveAt(pending, index[t]) /\ taken' = [taken EXCEPT ![t] = pending[index[t]]]
      BY <2>2 DEF TakeOut
    <3>3. pending[index[t]] \in Request
      BY <2>1, <3>1
    <3>4. taken' \in [Thread -> Request \union {NoRequest}]
      BY <2>1, <3>2, <3>3
    <3>5. PICK k \in 1 .. Len(pending) : k = index[t]
      BY <3>1
    <3>6. /\ RemoveAt(pending, k) \in Seq(Request)
          /\ \A i \in 1 .. Len(RemoveAt(pending, k)) :
               \E j \in 1 .. Len(pending) : RemoveAt(pending, k)[i] = pending[j]
      BY <2>1, RemovedKeepsRest
    <3>7. pending' = RemoveAt(pending, k)
      BY <3>2, <3>5
    <3> QED
      BY <3>4, <3>6, <3>7
  <2>3. CASE index[t] \notin DOMAIN pending
    BY <2>1, <2>3 DEF TakeOut
  <2> QED
    BY <2>2, <2>3
<1>4. TypeOK'
  BY <1>1, <1>2 DEF Inv, TypeOK, TakeOut, Goto, Steps, serverVars
<1>5. Held'
  BY <1>1, HeldInside DEF Inside, TakeOut, serverVars
<1>6. SlotsExact'
  BY <1>1, SlotsKept DEF SlotSteps, TakeOut
<1>7. ASSUME NEW r \in Request, Slotless(r) PROVE Slotless(r)'
  BY <1>1, <1>7 DEF Inv, TypeOK, Slotless, TakeOut, Goto, serverVars
<1>8. Behind'
  BY <1>2, <1>7 DEF Inv, TypeOK, Behind, TakeOut
<1> QED
  BY <1>4, <1>5, <1>6, <1>8, OwnersKept DEF Inv, TakeOut, serverVars

LEMMA FinishKeeps ==
  ASSUME Inv, NEW t \in Thread, Finish(t), UNCHANGED serverVars
  PROVE  Inv'
<1>1. /\ step[t] = "finish" /\ task[t] \in Request
      /\ executing' = executing \ {task[t]} /\ step' = [step EXCEPT ![t] = "idle"]
      /\ task' = [task EXCEPT ![t] = NoRequest]
      /\ UNCHANGED <<pending, cancelled, index, taken, chan, fate, generation, supervised>>
  BY DEF Inv, TypeOK, Finish, Goto, serverVars
<1>2. TypeOK'
  BY <1>1 DEF Inv, TypeOK, Steps
<1>3. \A u \in Thread : /\ task'[u] = IF u = t THEN NoRequest ELSE task[u]
                        /\ step'[u] = IF u = t THEN "idle" ELSE step[u]
  BY <1>1 DEF Inv, TypeOK
<1>4. Held' /\ Alone' /\ Once'
  BY <1>1, <1>3 DEF Inv, Held, Alone, Once
<1>5. Queued'
  BY <1>1, <1>3, QueuedIsRequest DEF Inv, Queued
<1>6. SlotsExact'
  <2>1. ASSUME NEW u \in Thread, step'[u] \in {"granted", "finish"}
        PROVE  task'[u] \in executing'
    <3>1. u # t /\ step[u] \in {"granted", "finish"} /\ task'[u] = task[u]
      BY <1>3, <2>1
    <3>2. task[u] \in executing /\ task[u] # task[t]
      BY <1>1, <3>1, NoRequestAssumption DEF Inv, SlotsExact, Alone
    <3> QED
      BY <1>1, <3>1, <3>2
  <2>2. ASSUME NEW r \in executing'
        PROVE  \E u \in Thread : task'[u] = r /\ step'[u] \in SlotSteps
    <3>1. r \in executing /\ r # task[t]
      BY <1>1
    <3>2. PICK u \in Thread : task[u] = r /\ step[u] \in SlotSteps
      BY <3>1 DEF Inv, SlotsExact, SlotSteps
    <3> QED
      BY <1>3, <3>1, <3>2
  <2> QED
    BY <2>1, <2>2 DEF SlotsExact, SlotSteps
<1>7. ASSUME NEW r \in Request, Slotless(r) PROVE Slotless(r)'
  BY <1>1, <1>3, <1>7, NoRequestAssumption DEF Slotless
<1>8. Behind'
  BY <1>1, <1>7 DEF Inv, TypeOK, Behind
<1> QED
  BY <1>2, <1>4, <1>5, <1>6, <1>8 DEF Inv

-----------------------------------------------------------------------------
(* The steps of the server. *)

(* Nothing but Kill is new in a channel.                                   *)
OnlyKillAdded ==
  \A u \in Thread : \A i \in 1 .. Len(chan'[u]) :
    chan'[u][i] # Kill => i \in 1 .. Len(chan[u]) /\ chan'[u][i] = chan[u][i]

LEMMA CloseAddsKill ==
  ASSUME Inv, NEW g, chan' = Close(chan, g)
  PROVE  chan' \in [Thread -> Seq(Request \union {Kill})] /\ OnlyKillAdded
<1>1. chan \in [Thread -> Seq(Request \union {Kill})]
  BY DEF Inv, TypeOK
<1>2. \A u \in Thread : chan'[u] = chan[u] \/ chan'[u] = Append(chan[u], Kill)
  BY <1>1 DEF Close
<1>3. ASSUME NEW u \in Thread
      PROVE  /\ chan'[u] \in Seq(Request \union {Kill})
             /\ \A i \in 1 .. Len(chan'[u]) :
                  chan'[u][i] # Kill => i \in 1 .. Len(chan[u]) /\ chan'[u][i] = chan[u][i]
  <2>1. chan[u] \in Seq(Request \union {Kill})
    BY <1>1
  <2>2. CASE chan'[u] = chan[u]
    BY <2>1, <2>2
  <2>3. CASE chan'[u] = Append(chan[u], Kill)
    <3>1. \A s \in Seq(Request \union {Kill}) :
            /\ Append(s, Kill) \in Seq(Request \union {Kill})
            /\ \A i \in 1 .. Len(Append(s, Kill)) :
                 Append(s, Kill)[i] # Kill => i \in 1 .. Len(s) /\ Append(s, Kill)[i] = s[i]
      OBVIOUS
    <3> QED
      BY <2>1, <2>3, <3>1
  <2> QED
    BY <1>2, <2>2, <2>3
<1>4. chan' \in [Thread -> Seq(Request \union {Kill})]
  BY <1>3 DEF Close
<1> QED
  BY <1>3, <1>4 DEF OnlyKillAdded

(* The first message is taken out of the channel.                          *)
TakesHead(t) == chan[t] # <<>> /\ chan' = [chan EXCEPT ![t] = Tail(@)]

LEMMA HeadTaken ==
  ASSUME Inv, NEW t \in Thread, TakesHead(t)
  PROVE  /\ chan' \in [Thread -> Seq(Request \union {Kill})]
         /\ \A u \in Thread : \A i \in 1 .. Len(chan'[u]) :
              \E k \in 1 .. Len(chan[u]) :
                chan'[u][i] = chan[u][k] /\ (u = t => k # 1)
         /\ Once'
<1>1. chan \in [Thread -> Seq(Request \union {Kill})] /\ chan[t] \in Seq(Request \union {Kill})
  BY DEF Inv, TypeOK
<1>2. /\ Tail(chan[t]) \in Seq(Request \union {Kill})
      /\ \A i \in 1 .. Len(Tail(chan[t])) :
           i + 1 \in 1 .. Len(chan[t]) /\ i + 1 # 1 /\ Tail(chan[t])[i] = chan[t][i + 1]
  BY <1>1 DEF TakesHead
<1>3. \A u \in Thread : chan'[u] = IF u = t THEN Tail(chan[t]) ELSE chan[u]
  BY <1>1 DEF TakesHead
<1> DEFINE old(u, i) == IF u = t THEN i + 1 ELSE i
<1>4. ASSUME NEW u \in Thread, NEW i \in 1 .. Len(chan'[u])
      PROVE  /\ old(u, i) \in 1 .. Len(chan[u]) /\ chan'[u][i] = chan[u][old(u, i)]
             /\ u = t => old(u, i) # 1
  BY <1>2, <1>3
<1>5. \A u, i, j : i \in Nat /\ j \in Nat /\ old(u, i) = old(u, j) => i = j
  OBVIOUS
<1> HIDE DEF old
<1>6. \A u, v \in Thread : \A i \in 1 .. Len(chan'[u]), j \in 1 .. Len(chan'[v]) :
        chan'[u][i] = chan'[v][j] /\ chan'[u][i] # Kill => u = v /\ i = j
  <2> SUFFICES ASSUME NEW u \in Thread, NEW v \in Thread,
                      NEW i \in 1 .. Len(chan'[u]), NEW j \in 1 .. Len(chan'[v]),
                      chan'[u][i] = chan'[v][j], chan'[u][i] # Kill
               PROVE  u = v /\ i = j
    OBVIOUS
  <2>1. u = v /\ old(u, i) = old(v, j)
    <3>1. /\ old(u, i) \in 1 .. Len(chan[u]) /\ old(v, j) \in 1 .. Len(chan[v])
          /\ chan[u][old(u, i)] = chan[v][old(v, j)] /\ chan[u][old(u, i)] # Kill
      BY <1>4
    <3>2. PICK k, m : k = old(u, i) /\ m = old(v, j)
      OBVIOUS
    <3>3. /\ k \in 1 .. Len(chan[u]) /\ m \in 1 .. Len(chan[v])
          /\ chan[u][k] = chan[v][m] /\ chan[u][k] # Kill
      BY <3>1, <3>2
    <3>4. u = v /\ k = m
      BY <3>3 DEF Inv, Once
    <3> QED
      BY <3>2, <3>4
  <2>2. i \in Nat /\ j \in Nat
    OBVIOUS
  <2> QED
    BY <1>5, <2>1, <2>2
<1>7. chan' \in [Thread -> Seq(Request \union {Kill})]
  BY <1>1, <1>2 DEF TakesHead
<1> QED
  BY <1>4, <1>6, <1>7 DEF Once

LEMMA ReceiveKeeps ==
  ASSUME Inv, NEW t \in Thread, Receive(t)
  PROVE  Inv'
<1> DEFINE r == Head(chan[t])
<1>1. /\ step[t] = "idle" /\ chan[t] # <<>> /\ r # Kill
      /\ chan' = [chan EXCEPT ![t] = Tail(@)]
      /\ task' = [task EXCEPT ![t] = r] /\ step' = [step EXCEPT ![t] = "register"]
      /\ UNCHANGED <<pending, executing, cancelled, index, taken, fate, generation, supervised>>
  BY DEF Receive, Goto
<1>2. chan[t] \in Seq(Request \union {Kill}) /\ 1 \in 1 .. Len(chan[t]) /\ r = chan[t][1]
  BY <1>1 DEF Inv, TypeOK
<1>3. /\ r \in Request /\ r # NoRequest /\ task[t] = NoRequest
      /\ fate[r] = "sent" /\ \A u \in Thread : task[u] # r
  BY <1>1, <1>2, QueuedIsRequest DEF Inv, TypeOK, Queued
<1> HIDE DEF r
<1>4. /\ chan' \in [Thread -> Seq(Request \union {Kill})]
      /\ \A u \in Thread : \A i \in 1 .. Len(chan'[u]) :
           \E k \in 1 .. Len(chan[u]) : chan'[u][i] = chan[u][k] /\ (u = t => k # 1)
      /\ Once'
  <2>1. TakesHead(t)
    BY <1>1 DEF TakesHead
  <2> QED
    BY <2>1, HeadTaken
<1>5. TypeOK'
  BY <1>1, <1>3, <1>4 DEF Inv, TypeOK, Steps
<1>6. \A u \in Thread : /\ task'[u] = IF u = t THEN r ELSE task[u]
                        /\ step'[u] = IF u = t THEN "register" ELSE step[u]
  BY <1>1 DEF Inv, TypeOK
<1>7. Held' /\ Alone'
  BY <1>1, <1>3, <1>6 DEF Inv, Held, Alone, FatesAt
<1>8. ASSUME NEW u \in Thread, NEW i \in 1 .. Len(chan'[u]), chan'[u][i] # Kill
      PROVE  chan'[u][i] # r
  <2>1. PICK k \in 1 .. Len(chan[u]) : chan'[u][i] = chan[u][k] /\ (u = t => k # 1)
    BY <1>4
  <2> QED
    BY <1>2, <1>8, <2>1 DEF Inv, Once
<1>9. Queued'
  <2> SUFFICES ASSUME NEW u \in Thread, NEW i \in 1 .. Len(chan'[u]), chan'[u][i] # Kill
               PROVE  fate'[chan'[u][i]] = "sent" /\ \A v \in Thread : task'[v] # chan'[u][i]
    BY DEF Queued
  <2>1. PICK k \in 1 .. Len(chan[u]) : chan'[u][i] = chan[u][k]
    BY <1>4
  <2>2. fate[chan'[u][i]] = "sent" /\ \A v \in Thread : task[v] # chan'[u][i]
    BY <2>1 DEF Inv, Queued
  <2>3. chan'[u][i] # r
    BY <1>8
  <2>4. \A v \in Thread : task'[v] # chan'[u][i]
    BY <1>6, <2>2, <2>3
  <2> QED
    BY <1>1, <2>2, <2>4
<1>10. SlotsExact'
  <2>1. ASSUME NEW u \in Thread, step'[u] \in {"granted", "finish"} PROVE task'[u] \in executing
    BY <1>6, <2>1 DEF Inv, SlotsExact
  <2>2. ASSUME NEW q \in executing PROVE \E u \in Thread : task'[u] = q /\ step'[u] \in SlotSteps
    <3>1. PICK u \in Thread : task[u] = q /\ step[u] \in SlotSteps
      BY DEF Inv, SlotsExact, SlotSteps
    <3>2. u # t
      BY <1>1, <3>1 DEF SlotSteps
    <3> QED
      BY <1>6, <3>1, <3>2
  <2> QED
    BY <1>1, <2>1, <2>2 DEF SlotsExact, SlotSteps
<1>11. ASSUME NEW q \in Request, Slotless(q) PROVE Slotless(q)'
  <2>1. q # r
    BY <1>2, <1>11 DEF Slotless
  <2>2. \A u \in Thread : \A i \in 1 .. Len(chan'[u]) : chan'[u][i] # q
    BY <1>4, <1>11 DEF Slotless
  <2> QED
    BY <1>1, <1>6, <1>11, <2>1, <2>2 DEF Slotless
<1>12. Behind'
  BY <1>1, <1>11 DEF Inv, TypeOK, Behind
<1> QED
  BY <1>4, <1>5, <1>7, <1>9, <1>10, <1>12 DEF Inv

LEMMA StopKeeps ==
  ASSUME Inv, NEW t \in Thread, Stop(t)
  PROVE  Inv'
<1>1. /\ step[t] = "idle" /\ chan[t] # <<>>
      /\ chan' = [chan EXCEPT ![t] = Tail(@)]
      /\ step' = [step EXCEPT ![t] = "stopped"]
      /\ UNCHANGED <<pending, executing, cancelled, task, index, taken, fate, generation, supervised>>
  BY DEF Stop, Goto
<1>2. /\ chan' \in [Thread -> Seq(Request \union {Kill})]
      /\ \A u \in Thread : \A i \in 1 .. Len(chan'[u]) :
           \E k \in 1 .. Len(chan[u]) : chan'[u][i] = chan[u][k]
      /\ Once'
  <2>1. TakesHead(t)
    BY <1>1 DEF TakesHead
  <2>2. /\ chan' \in [Thread -> Seq(Request \union {Kill})]
        /\ \A u \in Thread : \A i \in 1 .. Len(chan'[u]) :
             \E k \in 1 .. Len(chan[u]) : chan'[u][i] = chan[u][k] /\ (u = t => k # 1)
        /\ Once'
    BY <2>1, HeadTaken
  <2> QED
    BY <2>2
<1>3. TypeOK'
  BY <1>1, <1>2 DEF Inv, TypeOK, Steps
<1>4. \A u \in Thread : step'[u] = IF u = t THEN "stopped" ELSE step[u]
  BY <1>1 DEF Inv, TypeOK
<1>5. Held' /\ Alone'
  BY <1>1, <1>4 DEF Inv, TypeOK, Held, Alone, FatesAt
<1>6. Queued'
  BY <1>1, <1>2 DEF Inv, Queued
<1>7. SlotsExact'
  BY <1>1, SlotsKept DEF SlotSteps, Goto
<1>8. ASSUME NEW q \in Request, Slotless(q) PROVE Slotless(q)'
  <2>1. \A u \in Thread : \A i \in 1 .. Len(chan'[u]) : chan'[u][i] # q
    BY <1>2, <1>8 DEF Slotless
  <2> QED
    BY <1>1, <1>4, <1>8, <2>1 DEF Slotless
<1>9. Behind'
  BY <1>1, <1>8 DEF Inv, TypeOK, Behind
<1> QED
  BY <1>2, <1>3, <1>5, <1>6, <1>7, <1>9 DEF Inv

(* A request is no longer in hand, dropped.                                *)
LEMMA RefuseKeeps ==
  ASSUME Inv, NEW t \in Thread, Refuse(t)
  PROVE  Inv'
<1> DEFINE r == task[t]
<1>1. /\ step[t] = "refused" /\ r \in Request /\ r # NoRequest
      /\ fate' = [fate EXCEPT ![r] = "dropped"]
      /\ task' = [task EXCEPT ![t] = NoRequest] /\ step' = [step EXCEPT ![t] = "idle"]
      /\ UNCHANGED <<pending, executing, cancelled, index, taken, chan, generation, supervised>>
  BY NoRequestAssumption DEF Inv, TypeOK, Refuse, Goto
<1>2. \A u \in Thread : task[u] = r => u = t
  BY <1>1 DEF Inv, Alone
<1> HIDE DEF r
<1>3. TypeOK'
  BY <1>1 DEF Inv, TypeOK, Steps
<1>4. /\ \A u \in Thread : /\ task'[u] = IF u = t THEN NoRequest ELSE task[u]
                           /\ step'[u] = IF u = t THEN "idle" ELSE step[u]
      /\ \A q \in Request : fate'[q] = IF q = r THEN "dropped" ELSE fate[q]
  BY <1>1 DEF Inv, TypeOK
<1>5. \A u \in Thread : task[u] # NoRequest => task[u] \in Request
  BY DEF Inv, TypeOK
<1>6. Held' /\ Alone' /\ Once'
  BY <1>1, <1>2, <1>4, <1>5 DEF Inv, Held, Alone, Once
<1>7. Queued'
  BY <1>1, <1>4, QueuedIsRequest DEF Inv, Queued, r
<1>8. SlotsExact'
  <2>1. ASSUME NEW u \in Thread, step'[u] \in {"granted", "finish"} PROVE task'[u] \in executing
    BY <1>4, <2>1 DEF Inv, SlotsExact
  <2>2. ASSUME NEW q \in executing PROVE \E u \in Thread : task'[u] = q /\ step'[u] \in SlotSteps
    <3>1. PICK u \in Thread : task[u] = q /\ step[u] \in SlotSteps
      BY DEF Inv, SlotsExact, SlotSteps
    <3>2. u # t
      BY <1>1, <3>1 DEF SlotSteps
    <3> QED
      BY <1>4, <3>1, <3>2
  <2> QED
    BY <1>1, <2>1, <2>2 DEF SlotsExact, SlotSteps
<1>9. ASSUME NEW q \in Request, Slotless(q) PROVE Slotless(q)'
  BY <1>1, <1>4, <1>9, NoRequestAssumption DEF Slotless
<1>10. Behind'
  BY <1>1, <1>9 DEF Inv, TypeOK, Behind
<1> QED
  BY <1>3, <1>6, <1>7, <1>8, <1>10 DEF Inv

LEMMA HandleKeeps ==
  ASSUME Inv, NEW t \in Thread, Handle(t)
  PROVE  Inv'
<1> DEFINE r == task[t]
<1>1. /\ step[t] = "granted" /\ r \in Request /\ r # NoRequest
      /\ fate' = [fate EXCEPT ![r] = "answered"]
      /\ step' = [step EXCEPT ![t] = "finish"]
      /\ UNCHANGED <<pending, executing, cancelled, task, index, taken, chan, generation, supervised>>
  BY NoRequestAssumption DEF Inv, TypeOK, Handle, Goto
<1>2. \A u \in Thread : task[u] = r => u = t
  BY <1>1 DEF Inv, Alone
<1> HIDE DEF r
<1>3. TypeOK'
  BY <1>1 DEF Inv, TypeOK, Steps
<1>4. /\ \A u \in Thread : step'[u] = IF u = t THEN "finish" ELSE step[u]
      /\ \A q \in Request : fate'[q] = IF q = r THEN "answered" ELSE fate[q]
  BY <1>1 DEF Inv, TypeOK
<1>5. \A u \in Thread : task[u] # NoRequest => task[u] \in Request
  BY DEF Inv, TypeOK
<1>6. Held' /\ Alone' /\ Once'
  BY <1>1, <1>2, <1>4, <1>5 DEF Inv, Held, Alone, Once, FatesAt, r
<1>7. Queued'
  BY <1>1, <1>4, QueuedIsRequest DEF Inv, Queued, r
<1>8. SlotsExact'
  BY <1>1, SlotsKept DEF SlotSteps, Goto, Inv, SlotsExact, r
<1>9. ASSUME NEW q \in Request, Slotless(q) PROVE Slotless(q)'
  <2>1. q # r
    BY <1>1, <1>9 DEF Slotless, r
  <2> QED
    BY <1>1, <1>4, <1>9, <2>1 DEF Slotless
<1>10. Behind'
  BY <1>1, <1>9 DEF Inv, TypeOK, Behind
<1> QED
  BY <1>3, <1>6, <1>7, <1>8, <1>10 DEF Inv

(* A thread dies, with the request it has in hand and those in its channel. *)
LEMMA DeathKeeps ==
  ASSUME Inv, NEW t \in Thread, Goto(t, "dead"), LoseWith(t),
         step[t] \in {"register", "pushExecuting", "acquire", "wait", "pushTaken", "granted",
                      "finish"},
         taken' \in [Thread -> Request \union {NoRequest}],
         UNCHANGED <<pending, executing, cancelled, task, index>>
  PROVE  Inv'
<1> DEFINE r == task[t]
           gone == ToSet(chan[t]) \union IF step[t] = "finish" THEN {} ELSE {r}
<1>1. /\ r \in Request /\ r # NoRequest
      /\ step' = [step EXCEPT ![t] = "dead"]
      /\ chan' = [chan EXCEPT ![t] = <<>>]
      /\ fate' = [q \in Request |-> IF q \in gone THEN "lost" ELSE fate[q]]
      /\ UNCHANGED <<generation, supervised>>
  BY NoRequestAssumption DEF Inv, TypeOK, Goto, LoseWith
<1>2. \A u \in Thread : task[u] = r => u = t
  BY <1>1 DEF Inv, Alone
<1>3. \A q : q \in ToSet(chan[t]) => \E i \in 1 .. Len(chan[t]) : chan[t][i] = q
  <2>1. chan[t] \in Seq(Request \union {Kill})
    BY DEF Inv, TypeOK
  <2>2. DOMAIN chan[t] = 1 .. Len(chan[t])
    BY <2>1
  <2> QED
    BY <2>2 DEF ToSet
<1>4. \A q : q \in ToSet(chan[t]) /\ q # Kill => \A u \in Thread : task[u] # q
  BY <1>3 DEF Inv, Queued
<1> HIDE DEF r
<1>5. TypeOK'
  <2>1. <<>> \in Seq(Request \union {Kill})
    OBVIOUS
  <2>2. chan' \in [Thread -> Seq(Request \union {Kill})]
    BY <1>1, <2>1 DEF Inv, TypeOK
  <2>3. fate' \in [Request -> {"unsent", "sent", "answered", "dropped", "lost"}]
    BY <1>1 DEF Inv, TypeOK
  <2> QED
    BY <1>1, <2>2, <2>3 DEF Inv, TypeOK, Steps
<1>6. /\ \A u \in Thread : /\ step'[u] = IF u = t THEN "dead" ELSE step[u]
                           /\ chan'[u] = IF u = t THEN <<>> ELSE chan[u]
      /\ \A q \in Request : fate'[q] = IF q \in gone THEN "lost" ELSE fate[q]
  BY <1>1 DEF Inv, TypeOK
<1>7. \A u \in Thread : task[u] # NoRequest => task[u] \in Request /\ task[u] # Kill
  BY KillAssumption DEF Inv, TypeOK
<1>8. Held'
  <2> SUFFICES ASSUME NEW u \in Thread, task[u] # NoRequest
               PROVE  fate'[task[u]] \in FatesAt(step'[u])
    BY DEF Held
  <2>1. CASE u = t
    <3>1. fate'[r] \in {fate[r], "lost"} /\ (step[t] # "finish" => fate'[r] = "lost")
      BY <1>1, <1>6
    <3>2. step[t] = "finish" => fate[r] = "answered"
      BY <1>1 DEF Inv, Held, FatesAt, r
    <3> QED
      BY <1>6, <2>1, <3>1, <3>2 DEF FatesAt, r
  <2>2. CASE u # t
    <3>1. task[u] \notin gone
      BY <1>2, <1>4, <1>7, <2>2
    <3> QED
      BY <1>6, <1>7, <2>2, <3>1 DEF Inv, Held
  <2> QED
    BY <2>1, <2>2
<1>9. Alone'
  BY DEF Inv, Alone
<1>10. \A u \in Thread : \A i \in 1 .. Len(chan'[u]) :
         u # t /\ i \in 1 .. Len(chan[u]) /\ chan'[u][i] = chan[u][i]
  BY <1>6
<1>11. Once'
  BY <1>10 DEF Inv, Once
<1>12. Queued'
  <2> SUFFICES ASSUME NEW u \in Thread, NEW i \in 1 .. Len(chan'[u]), chan'[u][i] # Kill
               PROVE  fate'[chan'[u][i]] = "sent" /\ \A v \in Thread : task[v] # chan'[u][i]
    BY DEF Queued
  <2> DEFINE q == chan[u][i]
  <2>1. u # t /\ i \in 1 .. Len(chan[u]) /\ chan'[u][i] = q
    BY <1>10
  <2>2. q # Kill /\ q \in Request /\ fate[q] = "sent" /\ \A v \in Thread : task[v] # q
    BY <2>1, QueuedIsRequest DEF Inv, Queued
  <2>3. \A j \in 1 .. Len(chan[t]) : chan[t][j] # q
    BY <2>1, <2>2 DEF Inv, Once
  <2>4. q \notin gone
    BY <1>3, <2>2, <2>3 DEF r
  <2> HIDE DEF q, gone
  <2> QED
    BY <1>6, <2>1, <2>2, <2>4
<1>13. SlotsExact'
  BY <1>1, SlotsKept DEF SlotSteps
<1>14. ASSUME NEW q \in Request, Slotless(q) PROVE Slotless(q)'
  <2>1. \A u \in Thread : \A i \in 1 .. Len(chan'[u]) : chan'[u][i] # q
    BY <1>10, <1>14 DEF Slotless
  <2> QED
    BY <1>6, <1>14, <2>1 DEF Slotless
<1>15. Behind'
  BY <1>14 DEF Inv, TypeOK, Behind
<1> QED
  BY <1>5, <1>8, <1>9, <1>11, <1>12, <1>13, <1>15 DEF Inv

LEMMA SchedulerPanicKeeps ==
  ASSUME Inv, NEW t \in Thread, SchedulerPanic(t)
  PROVE  Inv'
<1>1. CASE BorrowTimeout(t)
  <2>1. Goto(t, "dead") /\ step'[t] = "dead"
    BY <1>1 DEF BorrowTimeout, Goto, Inv, TypeOK
  <2> QED
    BY <1>1, <2>1, DeathKeeps DEF SchedulerPanic, BorrowTimeout, Inv, TypeOK
<1>2. CASE BorrowMutTimeout(t)
  <2>1. Goto(t, "dead") /\ step'[t] = "dead"
    BY <1>2 DEF BorrowMutTimeout, Goto, Inv, TypeOK
  <2> QED
    BY <1>2, <2>1, DeathKeeps DEF SchedulerPanic, BorrowMutTimeout, Inv, TypeOK
<1>3. CASE PushTaken(t)
  <2>1. t \in Borrowing
    BY <1>3 DEF PushTaken, Borrowing
  <2>2. Goto(t, "dead") /\ step'[t] = "dead" /\ UNCHANGED executing
    BY <1>3, <2>1 DEF PushTaken, Goto, Inv, TypeOK
  <2>3. taken' \in [Thread -> Request \union {NoRequest}]
    BY <1>3 DEF PushTaken, Inv, TypeOK
  <2> QED
    BY <1>3, <2>2, <2>3, DeathKeeps DEF SchedulerPanic, PushTaken
<1> QED
  BY <1>1, <1>2, <1>3 DEF SchedulerPanic

LEMMA HandlerPanicKeeps ==
  ASSUME Inv, NEW t \in Thread, HandlerPanic(t)
  PROVE  Inv'
BY DeathKeeps DEF HandlerPanic, Inv, TypeOK

LEMMA DispatchKeeps ==
  ASSUME Inv, NEW r \in Request, Dispatch(r)
  PROVE  Inv'
<1> DEFINE d == <<ServiceOf[r], generation>>
<1>1. /\ fate[r] = "unsent" /\ d \in Thread
      /\ chan' = [chan EXCEPT ![d] = Append(@, r)]
      /\ fate' = [fate EXCEPT ![r] = "sent"]
      /\ UNCHANGED <<pending, executing, cancelled, step, task, index, taken, generation, supervised>>
  BY ServiceOfAssumption, ThreadAssumption DEF Inv, TypeOK, Dispatch, schedulerVars
<1>2. r # Kill /\ r # NoRequest /\ r \in Request \union {Kill}
  BY KillAssumption, NoRequestAssumption
<1>3. \A u \in Thread : task[u] # r
  BY <1>1, <1>2 DEF Inv, Held, FatesAt
<1>4. \A u \in Thread : \A i \in 1 .. Len(chan[u]) : chan[u][i] # r
  BY <1>1, <1>2 DEF Inv, Queued
<1> HIDE DEF d
<1>5. chan[d] \in Seq(Request \union {Kill})
  BY <1>1 DEF Inv, TypeOK
<1>6. /\ Append(chan[d], r) \in Seq(Request \union {Kill})
      /\ Len(chan[d]) \in Nat /\ Len(Append(chan[d], r)) = Len(chan[d]) + 1
      /\ Append(chan[d], r)[Len(chan[d]) + 1] = r
      /\ \A i \in 1 .. Len(chan[d]) : Append(chan[d], r)[i] = chan[d][i]
  BY <1>2, <1>5, AppendProperties
<1>7. /\ \A u \in Thread : chan'[u] = IF u = d THEN Append(chan[d], r) ELSE chan[u]
      /\ \A q \in Request : fate'[q] = IF q = r THEN "sent" ELSE fate[q]
  BY <1>1 DEF Inv, TypeOK
<1>8. TypeOK'
  BY <1>1, <1>6 DEF Inv, TypeOK
<1>9. Held' /\ Alone'
  <2>1. \A u \in Thread : task[u] # NoRequest => task[u] \in Request
    BY DEF Inv, TypeOK
  <2> QED
    BY <1>1, <1>3, <1>7, <2>1 DEF Inv, Held, Alone
<1>10. ASSUME NEW u \in Thread, NEW i \in 1 .. Len(chan'[u])
       PROVE  \/ u = d /\ i = Len(chan[d]) + 1 /\ chan'[u][i] = r
              \/ i \in 1 .. Len(chan[u]) /\ chan'[u][i] = chan[u][i] /\ chan'[u][i] # r
  <2>1. CASE u = d
    <3>1. i \in 1 .. Len(chan[d]) + 1 /\ chan'[u] = Append(chan[d], r)
      BY <1>6, <1>7, <2>1
    <3>2. CASE i = Len(chan[d]) + 1
      BY <1>6, <2>1, <3>1, <3>2
    <3>3. CASE i \in 1 .. Len(chan[d])
      BY <1>1, <1>4, <1>6, <2>1, <3>1, <3>3
    <3> QED
      BY <1>6, <3>1, <3>2, <3>3
  <2>2. CASE u # d
    BY <1>4, <1>7, <2>2
  <2> QED
    BY <2>1, <2>2
<1>11. Queued'
  <2> SUFFICES ASSUME NEW u \in Thread, NEW i \in 1 .. Len(chan'[u]), chan'[u][i] # Kill
               PROVE  fate'[chan'[u][i]] = "sent" /\ \A v \in Thread : task'[v] # chan'[u][i]
    BY DEF Queued
  <2>1. CASE chan'[u][i] = r
    BY <1>1, <1>3, <1>7, <2>1
  <2>2. CASE chan'[u][i] # r
    <3>1. i \in 1 .. Len(chan[u]) /\ chan'[u][i] = chan[u][i]
      BY <1>10, <2>2
    <3>2. /\ chan[u][i] \in Request /\ fate[chan[u][i]] = "sent"
          /\ \A v \in Thread : task[v] # chan[u][i]
      BY <3>1, QueuedIsRequest DEF Inv, Queued
    <3> QED
      BY <1>1, <1>7, <2>2, <3>1, <3>2
  <2> QED
    BY <2>1, <2>2
<1>12. \A u, v \in Thread : \A i \in 1 .. Len(chan'[u]), j \in 1 .. Len(chan'[v]) :
         chan'[u][i] = chan'[v][j] /\ chan'[u][i] # Kill => u = v /\ i = j
  <2> SUFFICES ASSUME NEW u \in Thread, NEW v \in Thread,
                      NEW i \in 1 .. Len(chan'[u]), NEW j \in 1 .. Len(chan'[v]),
                      chan'[u][i] = chan'[v][j], chan'[u][i] # Kill
               PROVE  u = v /\ i = j
    OBVIOUS
  <2>1. CASE chan'[u][i] = r
    <3>1. chan'[v][j] = r
      BY <2>1
    <3>2. u = d /\ i = Len(chan[d]) + 1
      BY <1>10, <2>1
    <3>3. v = d /\ j = Len(chan[d]) + 1
      BY <1>10, <3>1
    <3> QED
      BY <3>2, <3>3
  <2>2. CASE chan'[u][i] # r
    <3>1. /\ i \in 1 .. Len(chan[u]) /\ j \in 1 .. Len(chan[v])
          /\ chan[u][i] = chan[v][j] /\ chan[u][i] # Kill
      BY <1>10, <2>2
    <3> QED
      BY <3>1 DEF Inv, Once
  <2> QED
    BY <2>1, <2>2
<1>13. Once'
  BY <1>12 DEF Once
<1>14. SlotsExact'
  BY <1>1 DEF Inv, SlotsExact
<1>15. ASSUME NEW q \in Request, Slotless(q) PROVE Slotless(q)'
  <2>1. q # r
    BY <1>1, <1>15 DEF Slotless
  <2>2. \A u \in Thread : \A i \in 1 .. Len(chan'[u]) : chan'[u][i] # q
    BY <1>10, <1>15, <2>1 DEF Slotless
  <2> QED
    BY <1>1, <1>7, <1>15, <2>1, <2>2 DEF Slotless
<1>16. Behind'
  BY <1>1, <1>15 DEF Inv, TypeOK, Behind
<1> QED
  BY <1>8, <1>9, <1>11, <1>13, <1>14, <1>16 DEF Inv

(* Threads are told to stop, others started.                               *)
LEMMA GenerationKeeps ==
  ASSUME Inv, NEW g, chan' = Close(chan, g), UNCHANGED schedulerVars,
         generation' \in 0 .. MaxRestarts, supervised' \in NoGeneration .. generation',
         fate' \in [Request -> {"unsent", "sent", "answered", "dropped", "lost"}],
         \A q \in Request :
           fate'[q] # fate[q] => fate[q] = "unsent" /\ fate'[q] = "lost"
  PROVE  Inv'
<1>1. chan' \in [Thread -> Seq(Request \union {Kill})] /\ OnlyKillAdded
  BY CloseAddsKill
<1>2. UNCHANGED <<pending, executing, cancelled, step, task, index, taken>>
  BY DEF schedulerVars
<1>3. TypeOK'
  BY <1>1, <1>2 DEF Inv, TypeOK
<1>4. Held' /\ Alone'
  <2>1. \A u \in Thread : task[u] # NoRequest => task[u] \in Request /\ fate[task[u]] # "unsent"
    BY DEF Inv, TypeOK, Held, FatesAt
  <2>2. Held'
    BY <1>2, <2>1 DEF Inv, Held
  <2>3. Alone'
    BY <1>2 DEF Inv, Alone
  <2> QED
    BY <2>2, <2>3
<1>5. Queued'
  <2> SUFFICES ASSUME NEW u \in Thread, NEW i \in 1 .. Len(chan'[u]), chan'[u][i] # Kill
               PROVE  fate'[chan'[u][i]] = "sent" /\ \A v \in Thread : task'[v] # chan'[u][i]
    BY DEF Queued
  <2>1. i \in 1 .. Len(chan[u]) /\ chan'[u][i] = chan[u][i]
    BY <1>1 DEF OnlyKillAdded
  <2>2. /\ chan[u][i] \in Request /\ fate[chan[u][i]] = "sent"
        /\ \A v \in Thread : task[v] # chan[u][i]
    BY <2>1, QueuedIsRequest DEF Inv, Queued
  <2> QED
    BY <1>2, <2>1, <2>2
<1>6. \A u, v \in Thread : \A i \in 1 .. Len(chan'[u]), j \in 1 .. Len(chan'[v]) :
        chan'[u][i] = chan'[v][j] /\ chan'[u][i] # Kill => u = v /\ i = j
  BY <1>1 DEF OnlyKillAdded, Inv, Once
<1>7. Once'
  BY <1>6 DEF Once
<1>8. SlotsExact'
  BY <1>2 DEF Inv, SlotsExact
<1>9. ASSUME NEW q \in Request, Slotless(q) PROVE Slotless(q)'
  <2>1. \A u \in Thread : \A i \in 1 .. Len(chan'[u]) : chan'[u][i] # q
    BY <1>1, <1>9, KillAssumption DEF Slotless, OnlyKillAdded
  <2> QED
    BY <1>2, <1>9, <2>1 DEF Slotless
<1>10. Behind'
  BY <1>2, <1>9 DEF Inv, TypeOK, Behind
<1> QED
  BY <1>3, <1>4, <1>5, <1>7, <1>8, <1>10 DEF Inv

LEMMA RestartKeeps ==
  ASSUME Inv, NEW r \in Request, Restart(r)
  PROVE  Inv'
BY GenerationKeeps, MaxRestartsAssumption DEF Restart, Inv, TypeOK, NoGeneration

LEMMA RecoverKeeps ==
  ASSUME Inv, Recover
  PROVE  Inv'
BY GenerationKeeps, MaxRestartsAssumption DEF Recover, Inv, TypeOK, NoGeneration

LEMMA CancelKeeps ==
  ASSUME Inv, NEW r \in Request, CancelRequest(r)
  PROVE  Inv'
<1>1. /\ Position(r) # 0 /\ pending' = RemoveAt(pending, Position(r))
      /\ cancelled' = cancelled \union {r}
      /\ UNCHANGED <<executing, step, task, index, taken, chan, fate, generation, supervised>>
  BY DEF CancelRequest, Cancel, serverVars
<1>2. pending \in Seq(Request)
  BY DEF Inv, TypeOK
<1>3. Position(r) \in 1 .. Len(pending) /\ pending[Position(r)] = r
  BY <1>1, <1>2, PositionIsIndex
<1>4. /\ pending' \in Seq(Request)
      /\ \A i \in 1 .. Len(pending') : \E j \in 1 .. Len(pending) : pending'[i] = pending[j]
  BY <1>1, <1>2, <1>3, RemovedKeepsRest
<1>5. TypeOK'
  BY <1>1, <1>4 DEF Inv, TypeOK
<1>6. Held' /\ SlotsExact'
  BY <1>1 DEF Inv, Held, SlotsExact
<1>7. ASSUME NEW q \in Request, Slotless(q) PROVE Slotless(q)'
  BY <1>1, <1>7 DEF Slotless
<1>8. Slotless(r)
  BY <1>3 DEF Inv, Behind
<1>9. Behind'
  <2>1. ASSUME NEW i \in 1 .. Len(pending'), NEW q, q = pending'[i] PROVE Slotless(q)'
    <3>1. PICK j \in 1 .. Len(pending) : pending'[i] = pending[j]
      BY <1>4
    <3>2. pending[j] \in Request /\ Slotless(pending[j])
      BY <1>2 DEF Inv, Behind
    <3>3. q \in Request /\ Slotless(q)
      BY <2>1, <3>1, <3>2
    <3> QED
      BY <1>7, <3>3
  <2>2. ASSUME NEW q \in cancelled' PROVE Slotless(q)'
    <3>1. q \in Request /\ Slotless(q)
      BY <1>1, <1>8 DEF Inv, TypeOK, Behind
    <3> QED
      BY <1>7, <3>1
  <2> QED
    BY <2>1, <2>2 DEF Behind
<1> QED
  BY <1>1, <1>5, <1>6, <1>9, OwnersKept DEF Inv

-----------------------------------------------------------------------------

LEMMA Invariant == Init /\ [][Next]_vars => []Inv
<1>1. Init => Inv
  <2> SUFFICES ASSUME Init PROVE Inv
    OBVIOUS
  <2>1. TypeOK
    BY MaxRestartsAssumption DEF Init, InitScheduler, TypeOK, Steps, NoGeneration
  <2>2. \A t \in Thread : Len(chan[t]) = 0
    BY DEF Init
  <2>3. Held /\ Alone
    BY DEF Init, InitScheduler, Held, Alone
  <2>4. Queued /\ Once
    BY <2>2 DEF Queued, Once
  <2>5. SlotsExact
    BY DEF Init, InitScheduler, SlotsExact
  <2>6. Behind
    BY DEF Init, InitScheduler, Behind
  <2> QED
    BY <2>1, <2>3, <2>4, <2>5, <2>6 DEF Inv
<1>2. Inv /\ [Next]_vars => Inv'
  <2> SUFFICES ASSUME Inv, [Next]_vars PROVE Inv'
    OBVIOUS
  <2>1. CASE \E r \in Request : Dispatch(r) \/ Restart(r) \/ CancelRequest(r)
    BY <2>1, DispatchKeeps, RestartKeeps, CancelKeeps
  <2>2. CASE Recover
    BY <2>2, RecoverKeeps
  <2>3. ASSUME NEW t \in Thread, ServiceStep(t) PROVE Inv'
    BY <2>3, RegisterKeeps, PushExecutingKeeps, PushPendingKeeps, AcquireKeeps, StopWaitingKeeps,
       FindKeeps, TakeOutKeeps, FinishKeeps, ReceiveKeeps, StopKeeps, RefuseKeeps, HandleKeeps
    DEF ServiceStep, SchedulerStep
  <2>4. ASSUME NEW t \in Thread, HandlerPanic(t) \/ SchedulerPanic(t) PROVE Inv'
    BY <2>4, HandlerPanicKeeps, SchedulerPanicKeeps
  <2>5. CASE UNCHANGED vars
    BY <2>5 DEF vars, schedulerVars, serverVars, Inv, TypeOK, Held, Alone, Queued, Once, SlotsExact,
                Behind, Slotless
  <2> QED
    BY <2>1, <2>2, <2>3, <2>4, <2>5 DEF Next
<1> QED
  BY <1>1, <1>2, PTL

(* Type correctness of the request server.                                 *)
THEOREM ServerTypeCorrect == Spec => []TypeOK
<1>1. Inv => TypeOK
  BY DEF Inv
<1> QED
  BY <1>1, Invariant, PTL DEF Spec

(* A slot is held by the thread that handles the request, and by no other; *)
(* a thread that handles a request holds its slot (Scheduler::register,    *)
(* acquire and finish), whatever threads panic and are replaced.           *)
THEOREM SlotsAreExact == Spec => []SlotsExact
<1>1. Inv => SlotsExact
  BY DEF Inv
<1> QED
  BY <1>1, Invariant, PTL DEF Spec

(* A request whose cancellation was approved is never handled              *)
(* (Scheduler::cancel against acquire).                                    *)
THEOREM CancelledNeverHandled == Spec => []CancelledNeverRuns
<1>1. Inv => CancelledNeverRuns
  BY DEF Inv, Behind, Slotless, CancelledNeverRuns
<1> QED
  BY <1>1, Invariant, PTL DEF Spec

-----------------------------------------------------------------------------
(* No request is forgotten. *)

InChannel(t, r) == \E i \in 1 .. Len(chan[t]) : chan[t][i] = r

(* Whoever waits for a request waits for a thread that runs.               *)
Kept ==
  \A r \in Request :
    fate[r] = "sent" => \E t \in Thread : Listening(t) /\ (task[t] = r \/ InChannel(t, r))

(* Only threads of earlier generations are told to stop, and nothing is    *)
(* sent to them afterwards.                                                *)
KillIsLast ==
  \A t \in Thread : \A i \in 1 .. Len(chan[t]) :
    chan[t][i] = Kill =>
      t[2] < generation /\ \A j \in i .. Len(chan[t]) : chan[t][j] = Kill

(* A thread goes on, and keeps what it has in hand.                        *)
LEMMA GoesOn ==
  ASSUME Inv, Kept, KillIsLast, NEW t \in Thread, NEW s \in Steps \ {"stopped", "dead"},
         Goto(t, s), UNCHANGED <<task, chan, fate, generation>>
  PROVE  Kept' /\ KillIsLast'
<1>1. \A u \in Thread : Listening(u) => Listening(u)'
  BY DEF Inv, TypeOK, Listening, Goto
<1>2. Kept'
  BY <1>1 DEF Kept, InChannel
<1> QED
  BY <1>2 DEF KillIsLast

(* A request is no longer waited for.                                      *)
LEMMA Settles ==
  ASSUME Inv, Kept, KillIsLast, NEW t \in Thread, NEW s \in Steps \ {"stopped", "dead"},
         Goto(t, s), UNCHANGED <<chan, generation>>,
         task' \in {task, [task EXCEPT ![t] = NoRequest]},
         task[t] \in Request, fate'[task[t]] # "sent",
         \A q \in Request \ {task[t]} : fate'[q] = fate[q]
  PROVE  Kept' /\ KillIsLast'
<1>1. \A u \in Thread : Listening(u) => Listening(u)'
  BY DEF Inv, TypeOK, Listening, Goto
<1>2. \A u \in Thread : u # t => task'[u] = task[u]
  BY DEF Inv, TypeOK
<1>3. ASSUME NEW q \in Request, fate'[q] = "sent"
      PROVE  \E u \in Thread : Listening(u)' /\ (task'[u] = q \/ InChannel(u, q)')
  <2>1. q # task[t] /\ fate[q] = "sent"
    BY <1>3
  <2>2. PICK u \in Thread : Listening(u) /\ (task[u] = q \/ InChannel(u, q))
    BY <2>1 DEF Kept
  <2> QED
    BY <1>1, <1>2, <2>1, <2>2 DEF InChannel
<1>4. Kept'
  BY <1>3 DEF Kept
<1> QED
  BY <1>4 DEF KillIsLast

LEMMA ReceiveForgetsNothing ==
  ASSUME Inv, Kept, KillIsLast, NEW t \in Thread, Receive(t) \/ Stop(t)
  PROVE  Kept' /\ KillIsLast'
<1>1. /\ chan[t] # <<>> /\ chan' = [chan EXCEPT ![t] = Tail(@)] /\ UNCHANGED <<fate, generation>>
      /\ task[t] = NoRequest
  BY DEF Receive, Stop, Inv, TypeOK
<1>2. chan[t] \in Seq(Request \union {Kill})
  BY DEF Inv, TypeOK
<1>3. /\ Len(chan[t]) \in Nat /\ 1 \in 1 .. Len(chan[t]) /\ Head(chan[t]) = chan[t][1]
      /\ Len(Tail(chan[t])) = Len(chan[t]) - 1
      /\ \A i \in 1 .. Len(chan[t]) - 1 : Tail(chan[t])[i] = chan[t][i + 1]
  BY <1>1, <1>2
<1>4. \A u \in Thread : chan'[u] = IF u = t THEN Tail(chan[t]) ELSE chan[u]
  BY <1>1 DEF Inv, TypeOK
<1>5. KillIsLast'
  <2> SUFFICES ASSUME NEW u \in Thread, NEW i \in 1 .. Len(chan'[u]), chan'[u][i] = Kill
               PROVE  u[2] < generation' /\ \A j \in i .. Len(chan'[u]) : chan'[u][j] = Kill
    BY DEF KillIsLast
  <2>1. CASE u # t
    BY <1>1, <1>4, <2>1 DEF KillIsLast
  <2>2. CASE u = t
    <3> DEFINE n == Len(chan[t])
    <3>1. n \in Nat /\ Len(chan'[t]) = n - 1 /\ i \in 1 .. n - 1
      BY <1>3, <1>4, <2>2
    <3>2. \A j \in 1 .. n - 1 : chan'[t][j] = chan[t][j + 1]
      BY <1>3, <1>4
    <3> HIDE DEF n
    <3>3. i + 1 \in 1 .. n /\ chan[t][i + 1] = Kill
      BY <2>2, <3>1, <3>2
    <3>4. t[2] < generation /\ \A j \in i + 1 .. n : chan[t][j] = Kill
      BY <3>3 DEF KillIsLast, n
    <3>5. ASSUME NEW j \in i .. Len(chan'[t]) PROVE chan'[t][j] = Kill
      <4>1. j + 1 \in i + 1 .. n /\ j \in 1 .. n - 1
        BY <3>1
      <4> QED
        BY <3>2, <3>4, <4>1
    <3> QED
      BY <1>1, <2>2, <3>4, <3>5
  <2> QED
    BY <2>1, <2>2
<1>6. \A u \in Thread : u # t => /\ Listening(u) => Listening(u)'
                                 /\ task'[u] = task[u] /\ chan'[u] = chan[u]
  BY <1>4 DEF Receive, Stop, Goto, Listening, Inv, TypeOK
<1>7. ASSUME NEW q \in Request, fate'[q] = "sent"
      PROVE  \E u \in Thread : Listening(u)' /\ (task'[u] = q \/ InChannel(u, q)')
  <2>1. PICK u \in Thread : Listening(u) /\ (task[u] = q \/ InChannel(u, q))
    BY <1>1, <1>7 DEF Kept
  <2>2. q # Kill /\ q # NoRequest
    BY KillAssumption, NoRequestAssumption
  <2>3. CASE u # t
    BY <1>6, <2>1, <2>3 DEF InChannel
  <2>4. CASE u = t
    <3>1. PICK i \in 1 .. Len(chan[t]) : chan[t][i] = q
      BY <1>1, <2>1, <2>2, <2>4 DEF InChannel
    <3>2. chan[t][1] # Kill
      <4>1. chan[t][1] = Kill => \A j \in 1 .. Len(chan[t]) : chan[t][j] = Kill
        BY <1>3 DEF KillIsLast
      <4> QED
        BY <2>2, <3>1, <4>1
    <3>3. Receive(t)
      BY <1>3, <3>2 DEF Stop
    <3>4. /\ task' = [task EXCEPT ![t] = Head(chan[t])]
          /\ step' = [step EXCEPT ![t] = "register"]
      BY <3>3 DEF Receive, Goto
    <3>5. Listening(t)' /\ task'[t] = chan[t][1]
      BY <1>3, <3>4 DEF Listening, Inv, TypeOK
    <3>6. CASE i = 1
      BY <3>1, <3>5, <3>6
    <3>7. CASE i # 1
      <4>1. i - 1 \in 1 .. Len(chan[t]) - 1 /\ (i - 1) + 1 = i
        BY <1>3, <3>7
      <4>2. i - 1 \in 1 .. Len(chan'[t]) /\ chan'[t][i - 1] = q
        BY <1>3, <1>4, <3>1, <4>1
      <4> QED
        BY <3>5, <4>2 DEF InChannel
    <3> QED
      BY <3>6, <3>7
  <2> QED
    BY <2>3, <2>4
<1>8. Kept'
  BY <1>7 DEF Kept
<1> QED
  BY <1>5, <1>8

LEMMA DeathForgetsNothing ==
  ASSUME Inv, Kept, KillIsLast, NEW t \in Thread, Goto(t, "dead"), LoseWith(t), UNCHANGED task
  PROVE  Kept' /\ KillIsLast'
<1>1. \A u \in Thread : u # t => /\ Listening(u) => Listening(u)'
                                 /\ chan'[u] = chan[u]
  BY DEF Goto, LoseWith, Listening, Inv, TypeOK
<1>2. /\ Len(chan'[t]) = 0 /\ generation' = generation
      /\ \A q \in Request :
           fate'[q] = IF (q = task[t] /\ step[t] # "finish") \/ q \in ToSet(chan[t])
                      THEN "lost" ELSE fate[q]
  BY DEF LoseWith, Inv, TypeOK
<1>3. \A q : InChannel(t, q) => q \in ToSet(chan[t])
  <2>1. chan[t] \in Seq(Request \union {Kill})
    BY DEF Inv, TypeOK
  <2>2. DOMAIN chan[t] = 1 .. Len(chan[t])
    BY <2>1
  <2> QED
    BY <2>2 DEF ToSet, InChannel
<1>4. ASSUME NEW q \in Request, fate'[q] = "sent"
      PROVE  \E u \in Thread : Listening(u)' /\ (task'[u] = q \/ InChannel(u, q)')
  <2>1. fate[q] = "sent" /\ ~(q = task[t] /\ step[t] # "finish") /\ ~InChannel(t, q)
    BY <1>2, <1>3, <1>4
  <2>2. q # task[t]
    BY <2>1, NoRequestAssumption DEF Inv, Held, FatesAt
  <2>3. PICK u \in Thread : Listening(u) /\ (task[u] = q \/ InChannel(u, q))
    BY <2>1 DEF Kept
  <2>4. u # t
    BY <2>1, <2>3, <2>2
  <2> QED
    BY <1>1, <2>3, <2>4 DEF InChannel
<1>5. Kept'
  BY <1>4 DEF Kept
<1>6. KillIsLast'
  <2> SUFFICES ASSUME NEW u \in Thread, NEW i \in 1 .. Len(chan'[u]), chan'[u][i] = Kill
               PROVE  u[2] < generation' /\ \A j \in i .. Len(chan'[u]) : chan'[u][j] = Kill
    BY DEF KillIsLast
  <2>1. u # t
    BY <1>2
  <2> QED
    BY <1>1, <1>2, <2>1 DEF KillIsLast
<1> QED
  BY <1>5, <1>6

LEMMA Appended ==
  ASSUME NEW T, NEW s \in Seq(T), NEW x \in T
  PROVE  /\ \A i \in 1 .. Len(s) : i \in 1 .. Len(Append(s, x)) /\ Append(s, x)[i] = s[i]
         /\ Len(s) + 1 \in 1 .. Len(Append(s, x)) /\ Append(s, x)[Len(s) + 1] = x
         /\ \A i \in 1 .. Len(Append(s, x)) :
              Append(s, x)[i] # x => i \in 1 .. Len(s) /\ Append(s, x)[i] = s[i]
<1> DEFINE n == Len(s)
           a == Append(s, x)
<1>1. n \in Nat /\ Len(a) = n + 1 /\ a[n + 1] = x /\ \A i \in 1 .. n : a[i] = s[i]
  BY AppendProperties
<1> HIDE DEF n, a
<1>2. /\ \A i \in 1 .. n : i \in 1 .. Len(a) /\ a[i] = s[i]
      /\ n + 1 \in 1 .. Len(a) /\ a[n + 1] = x
  BY <1>1
<1>3. ASSUME NEW i \in 1 .. Len(a), a[i] # x PROVE i \in 1 .. n /\ a[i] = s[i]
  <2>1. i # n + 1
    BY <1>1, <1>3
  <2>2. i \in 1 .. n
    BY <1>1, <2>1
  <2> QED
    BY <1>1, <2>2
<1> QED
  BY <1>2, <1>3 DEF n, a

LEMMA DispatchForgetsNothing ==
  ASSUME Inv, Kept, KillIsLast, NEW r \in Request, Dispatch(r)
  PROVE  Kept' /\ KillIsLast'
<1> DEFINE d == <<ServiceOf[r], generation>>
<1>1. /\ d \in Thread /\ d[2] = generation /\ Listening(d)
      /\ chan' = [chan EXCEPT ![d] = Append(@, r)]
      /\ fate' = [fate EXCEPT ![r] = "sent"]
      /\ UNCHANGED <<step, task, generation>>
  BY ServiceOfAssumption, ThreadAssumption DEF Inv, TypeOK, Dispatch, schedulerVars
<1> HIDE DEF d
<1>2. chan[d] \in Seq(Request \union {Kill}) /\ r \in Request \union {Kill} /\ r # Kill
  BY <1>1, KillAssumption DEF Inv, TypeOK
<1> DEFINE sent == Append(chan[d], r)
           n == Len(chan[d])
<1>3. /\ \A i \in 1 .. n : i \in 1 .. Len(sent) /\ sent[i] = chan[d][i]
      /\ n + 1 \in 1 .. Len(sent) /\ sent[n + 1] = r
      /\ \A i \in 1 .. Len(sent) : sent[i] # r => i \in 1 .. n /\ sent[i] = chan[d][i]
  BY <1>2, Appended
<1>4. /\ \A u \in Thread : chan'[u] = IF u = d THEN sent ELSE chan[u]
      /\ \A q \in Request : fate'[q] = IF q = r THEN "sent" ELSE fate[q]
  BY <1>1 DEF Inv, TypeOK
<1> HIDE DEF sent, n
<1>5. \A u \in Thread : \A q : InChannel(u, q) => InChannel(u, q)'
  <2> SUFFICES ASSUME NEW u \in Thread, NEW q, NEW i \in 1 .. Len(chan[u]), chan[u][i] = q
               PROVE  \E j \in 1 .. Len(chan'[u]) : chan'[u][j] = q
    BY DEF InChannel
  <2>1. CASE u = d
    <3>1. i \in 1 .. Len(chan'[u]) /\ chan'[u][i] = q
      BY <1>3, <1>4, <2>1 DEF n
    <3> QED
      BY <3>1
  <2>2. CASE u # d
    BY <1>4, <2>2
  <2> QED
    BY <2>1, <2>2
<1>6. InChannel(d, r)'
  <2>1. n + 1 \in 1 .. Len(chan'[d]) /\ chan'[d][n + 1] = r
    BY <1>1, <1>3, <1>4
  <2>2. \E j \in 1 .. Len(chan'[d]) : chan'[d][j] = r
    BY <2>1
  <2>3. d' = d
    BY <1>1 DEF d
  <2> QED
    BY <2>2, <2>3 DEF InChannel
<1>7. Kept'
  <2> SUFFICES ASSUME NEW q \in Request, fate'[q] = "sent"
               PROVE  \E u \in Thread : Listening(u)' /\ (task'[u] = q \/ InChannel(u, q)')
    BY DEF Kept
  <2>1. CASE q = r
    <3>1. d' = d
      BY <1>1 DEF d
    <3>2. PICK u \in Thread : u = d
      BY <1>1
    <3>3. Listening(u)' /\ InChannel(u, r)'
      BY <1>1, <1>6, <3>1, <3>2 DEF Listening, InChannel
    <3> QED
      BY <2>1, <3>3
  <2>2. CASE q # r
    <3>1. PICK u \in Thread : Listening(u) /\ (task[u] = q \/ InChannel(u, q))
      BY <1>4, <2>2 DEF Kept
    <3> QED
      BY <1>1, <1>5, <3>1 DEF Listening
  <2> QED
    BY <2>1, <2>2
<1>8. KillIsLast'
  <2> SUFFICES ASSUME NEW u \in Thread, NEW i \in 1 .. Len(chan'[u]), chan'[u][i] = Kill
               PROVE  u[2] < generation' /\ \A j \in i .. Len(chan'[u]) : chan'[u][j] = Kill
    BY DEF KillIsLast
  <2>1. CASE u = d
    <3>1. i \in 1 .. Len(chan[d]) /\ chan[d][i] = Kill
      BY <1>2, <1>3, <1>4, <2>1 DEF n
    <3>2. d[2] < generation
      BY <1>1, <3>1 DEF KillIsLast
    <3>3. generation \in Int
      BY MaxRestartsAssumption DEF Inv, TypeOK
    <3> QED
      BY <1>1, <3>2, <3>3
  <2>2. CASE u # d
    BY <1>1, <1>4, <2>2 DEF KillIsLast
  <2> QED
    BY <2>1, <2>2
<1> QED
  BY <1>7, <1>8

LEMMA RestartForgetsNothing ==
  ASSUME Inv, Kept, KillIsLast, NEW g \in Int, g <= generation, generation' = generation + 1,
         chan' = Close(chan, g), UNCHANGED schedulerVars,
         \A q \in Request : fate'[q] = "sent" => fate[q] = "sent"
  PROVE  Kept' /\ KillIsLast'
<1>1. chan \in [Thread -> Seq(Request \union {Kill})] /\ generation \in Int
  BY MaxRestartsAssumption DEF Inv, TypeOK
<1>2. \A u \in Thread : chan'[u] = chan[u] \/ (u[2] = g /\ chan'[u] = Append(chan[u], Kill))
  BY <1>1 DEF Close
<1>3. \A s \in Seq(Request \union {Kill}) :
        /\ Len(s) \in Nat /\ Len(Append(s, Kill)) = Len(s) + 1
        /\ Append(s, Kill)[Len(s) + 1] = Kill
        /\ \A i \in 1 .. Len(s) : i \in 1 .. Len(Append(s, Kill)) /\ Append(s, Kill)[i] = s[i]
  <2>1. Kill \in Request \union {Kill}
    OBVIOUS
  <2> QED
    BY <2>1, Appended, AppendProperties
<1>4. ASSUME NEW u \in Thread, NEW q, InChannel(u, q) PROVE \E j \in 1 .. Len(chan'[u]) : chan'[u][j] = q
  <2>1. PICK i \in 1 .. Len(chan[u]) : chan[u][i] = q
    BY <1>4 DEF InChannel
  <2>2. i \in 1 .. Len(chan'[u]) /\ chan'[u][i] = q
    BY <1>1, <1>2, <1>3, <2>1
  <2> QED
    BY <2>2
<1>5. Kept'
  <2> SUFFICES ASSUME NEW q \in Request, fate'[q] = "sent"
               PROVE  \E u \in Thread : Listening(u)' /\ (task'[u] = q \/ InChannel(u, q)')
    BY DEF Kept
  <2>1. PICK u \in Thread : Listening(u) /\ (task[u] = q \/ InChannel(u, q))
    BY DEF Kept
  <2>2. Listening(u)' /\ task'[u] = task[u]
    BY <2>1 DEF Listening, schedulerVars
  <2> QED
    BY <1>4, <2>1, <2>2 DEF InChannel
<1>6. KillIsLast'
  <2> SUFFICES ASSUME NEW u \in Thread, NEW i \in 1 .. Len(chan'[u]), chan'[u][i] = Kill
               PROVE  u[2] < generation' /\ \A j \in i .. Len(chan'[u]) : chan'[u][j] = Kill
    BY DEF KillIsLast
  <2>1. u[2] \in Int
    BY ThreadAssumption, MaxRestartsAssumption
  <2>2. CASE chan'[u] = chan[u]
    BY <1>1, <2>1, <2>2 DEF KillIsLast
  <2>3. CASE u[2] = g /\ chan'[u] = Append(chan[u], Kill)
    <3> DEFINE n == Len(chan[u])
    <3>1. /\ n \in Nat /\ Len(chan'[u]) = n + 1 /\ chan'[u][n + 1] = Kill
          /\ \A j \in 1 .. n : chan'[u][j] = chan[u][j]
      BY <1>1, <1>3, <2>3
    <3>2. u[2] < generation'
      BY <1>1, <2>3
    <3>3. \A j \in 1 .. n : chan[u][j] = Kill => \A k \in j .. n : chan[u][k] = Kill
      BY DEF KillIsLast
    <3> HIDE DEF n
    <3>4. ASSUME NEW j \in i .. n + 1 PROVE chan'[u][j] = Kill
      <4>1. CASE j = n + 1
        BY <3>1, <4>1
      <4>2. CASE j # n + 1
        <5>1. i \in 1 .. n /\ j \in 1 .. n /\ j \in i .. n
          BY <3>1, <4>2
        <5> QED
          BY <3>1, <3>3, <5>1
      <4> QED
        BY <4>1, <4>2
    <3> QED
      BY <3>1, <3>2, <3>4
  <2> QED
    BY <1>2, <2>2, <2>3
<1> QED
  BY <1>5, <1>6

LEMMA StepForgetsNothing ==
  ASSUME Inv, Kept, KillIsLast, [Next]_vars
  PROVE  Kept' /\ KillIsLast'
<1>1. CASE \E r \in Request : Dispatch(r) \/ Restart(r) \/ CancelRequest(r)
  <2> PICK r \in Request : Dispatch(r) \/ Restart(r) \/ CancelRequest(r)
    BY <1>1
  <2>1. CASE Dispatch(r)
    BY <2>1, DispatchForgetsNothing
  <2>2. CASE Restart(r)
    <3>1. /\ generation \in Int /\ generation <= generation /\ generation' = generation + 1
          /\ chan' = Close(chan, generation) /\ UNCHANGED schedulerVars
          /\ \A q \in Request : fate'[q] = "sent" => fate[q] = "sent"
      BY <2>2, MaxRestartsAssumption DEF Restart, Inv, TypeOK
    <3> QED
      BY <3>1, RestartForgetsNothing
  <2>3. CASE CancelRequest(r)
    BY <2>3 DEF CancelRequest, Cancel, serverVars, Kept, KillIsLast, Listening, InChannel
  <2> QED
    BY <2>1, <2>2, <2>3
<1>2. CASE Recover
  <2>1. /\ supervised \in Int /\ supervised <= generation /\ generation' = generation + 1
        /\ chan' = Close(chan, supervised) /\ UNCHANGED schedulerVars /\ fate' = fate
    BY <1>2, MaxRestartsAssumption DEF Recover, Inv, TypeOK, NoGeneration
  <2> QED
    BY <2>1, RestartForgetsNothing
<1>3. ASSUME NEW t \in Thread, ServiceStep(t) PROVE Kept' /\ KillIsLast'
  <2>1. CASE Receive(t) \/ Stop(t)
    BY <2>1, ReceiveForgetsNothing
  <2>2. CASE Refuse(t)
    <3>1. /\ task[t] \in Request /\ Goto(t, "idle") /\ task' = [task EXCEPT ![t] = NoRequest]
          /\ fate'[task[t]] = "dropped" /\ \A q \in Request \ {task[t]} : fate'[q] = fate[q]
          /\ UNCHANGED <<chan, generation>>
      BY <2>2 DEF Refuse, Inv, TypeOK
    <3> QED
      BY <3>1, Settles DEF Steps
  <2>3. CASE Handle(t)
    <3>1. /\ task[t] \in Request /\ Goto(t, "finish") /\ task' = task
          /\ fate'[task[t]] = "answered" /\ \A q \in Request \ {task[t]} : fate'[q] = fate[q]
          /\ UNCHANGED <<chan, generation>>
      BY <2>3 DEF Handle, Inv, TypeOK
    <3> QED
      BY <3>1, Settles DEF Steps
  <2>4. CASE Finish(t) /\ UNCHANGED serverVars
    <3>1. /\ task[t] \in Request /\ task[t] # NoRequest /\ step[t] = "finish"
          /\ Goto(t, "idle") /\ task' = [task EXCEPT ![t] = NoRequest]
          /\ fate' = fate /\ UNCHANGED <<chan, generation>>
      BY <2>4, NoRequestAssumption DEF Finish, Inv, TypeOK, serverVars
    <3>2. fate[task[t]] = "answered"
      BY <3>1 DEF Inv, Held, FatesAt
    <3> QED
      BY <3>1, <3>2, Settles DEF Steps
  <2>5. CASE SchedulerStep(t) /\ ~Finish(t) /\ UNCHANGED serverVars
    <3>1. \E s \in Steps \ {"stopped", "dead"} : Goto(t, s)
      BY <2>5 DEF SchedulerStep, Register, PushExecuting, PushPending, Acquire, StopWaiting, Find,
                  TakeOut, Steps
    <3>2. UNCHANGED <<task, chan, fate, generation>>
      BY <2>5 DEF SchedulerStep, Register, PushExecuting, PushPending, Acquire, StopWaiting, Find,
                  TakeOut, serverVars
    <3> QED
      BY <3>1, <3>2, GoesOn
  <2> QED
    BY <1>3, <2>1, <2>2, <2>3, <2>4, <2>5 DEF ServiceStep
<1>4. ASSUME NEW t \in Thread, HandlerPanic(t) PROVE Kept' /\ KillIsLast'
  BY <1>4, DeathForgetsNothing DEF HandlerPanic
<1>5. ASSUME NEW t \in Thread, SchedulerPanic(t) PROVE Kept' /\ KillIsLast'
  <2>1. Goto(t, "dead") /\ step'[t] = "dead" /\ task' = task
    <3>1. CASE BorrowTimeout(t)
      BY <3>1 DEF BorrowTimeout, Goto, Inv, TypeOK
    <3>2. CASE BorrowMutTimeout(t)
      BY <3>2 DEF BorrowMutTimeout, Goto, Inv, TypeOK
    <3>3. CASE PushTaken(t)
      <4>1. t \in Borrowing
        BY <3>3 DEF PushTaken, Borrowing
      <4> QED
        BY <3>3, <4>1 DEF PushTaken, Goto, Inv, TypeOK
    <3> QED
      BY <1>5, <3>1, <3>2, <3>3 DEF SchedulerPanic
  <2> QED
    BY <1>5, <2>1, DeathForgetsNothing DEF SchedulerPanic
<1>6. CASE UNCHANGED vars
  BY <1>6 DEF vars, schedulerVars, serverVars, Kept, KillIsLast, Listening, InChannel
<1> QED
  BY <1>1, <1>2, <1>3, <1>4, <1>5, <1>6 DEF Next

(* A request that was sent and has met no fate is in the channel, or in    *)
(* the hands, of exactly one thread that is running, whatever restarts     *)
(* (Server::restart) and panics do.                                        *)
THEOREM NoRequestForgotten == Spec => []NothingForgotten
<1>1. Init => Kept /\ KillIsLast
  <2> SUFFICES ASSUME Init PROVE Kept /\ KillIsLast
    OBVIOUS
  <2>1. \A t \in Thread : Len(chan[t]) = 0
    BY DEF Init
  <2> QED
    BY <2>1 DEF Init, Kept, KillIsLast
<1>2. Inv /\ Kept /\ KillIsLast /\ [Next]_vars => (Kept /\ KillIsLast)'
  BY StepForgetsNothing
<1>3. Inv /\ Kept => NothingForgotten
  <2> SUFFICES ASSUME Inv, Kept, NEW r \in Request, fate[r] = "sent"
               PROVE  \E t \in Thread :
                        /\ Listening(t)
                        /\ task[t] = r \/ r \in ToSet(chan[t])
                        /\ \A u \in Thread \ {t} :
                             Listening(u) => task[u] # r /\ r \notin ToSet(chan[u])
    BY DEF NothingForgotten
  <2>1. \A t \in Thread : r \in ToSet(chan[t]) <=> InChannel(t, r)
    <3> SUFFICES ASSUME NEW t \in Thread PROVE r \in ToSet(chan[t]) <=> InChannel(t, r)
      OBVIOUS
    <3>1. chan[t] \in Seq(Request \union {Kill})
      BY DEF Inv, TypeOK
    <3>2. DOMAIN chan[t] = 1 .. Len(chan[t])
      BY <3>1
    <3> QED
      BY <3>2 DEF ToSet, InChannel
  <2>2. PICK t \in Thread : Listening(t) /\ (task[t] = r \/ InChannel(t, r))
    BY DEF Kept
  <2>3. r # NoRequest /\ r # Kill
    BY NoRequestAssumption, KillAssumption
  <2>4. ASSUME NEW u \in Thread \ {t} PROVE task[u] # r /\ ~InChannel(u, r)
    <3>1. CASE task[t] = r
      BY <2>3, <3>1 DEF Inv, Alone, Queued, InChannel
    <3>2. CASE InChannel(t, r)
      BY <2>3, <3>2 DEF Inv, Once, Queued, InChannel
    <3> QED
      BY <2>2, <3>1, <3>2
  <2> QED
    BY <2>1, <2>2, <2>4
<1> QED
  BY <1>1, <1>2, <1>3, Invariant, PTL DEF Spec
=============================================================================
