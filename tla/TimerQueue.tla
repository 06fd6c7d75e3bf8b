------------------------------ MODULE TimerQueue ------------------------------
(***************************************************************************)
(* BT::TimerQueue, which every Sleep, Delay and Timeout node owns one of:  *)
(* the thread that ticks and halts the node adds timers, cancels one       *)
(* (Sleep, Timeout) or all of them (Delay, Timeout) and destroys the       *)
(* queue, the worker thread waits for the next deadline and runs the       *)
(* handlers.                                                               *)
(*                                                                         *)
(* A step is what happens under m_mtx, or one access to an atomic.  The    *)
(* timer queue's Semaphore notifies without the mutex of its condition     *)
(* variable: a notification between the worker's test and its going to     *)
(* sleep is lost.                                                          *)
(***************************************************************************)
EXTENDS Naturals, Sequences

CONSTANTS
  MaxTimers,   \* bound: how many timers are ever added
  MaxTime,     \* bound: stands for every later time
  MaxPending,  \* bound: how many notifications cancelAll() may leave untaken
  Delays,      \* the delays the timers are added with
  Idle         \* how long the worker waits when there is no timer

ASSUME TimerAssumption == /\ MaxTimers \in Nat \ {0}
                          /\ MaxTime \in Nat \ {0}
                          /\ MaxPending \in Nat
                          /\ Delays \subseteq Nat \ {0}
                          /\ Idle \in Nat \ {0}

Timers == 1 .. MaxTimers

VARIABLES
  now,         \* ClockT::now()
  items,       \* m_items
  m_idcounter,
  m_finish,
  count,       \* m_count of m_checkWork
  owner,       \* where the owning thread is
  worker,      \* where the worker is,
  until,       \* the time it waits for,
  current,     \* the item whose handler it runs
  due,         \* history: the deadline each timer was added with
  cancelled,   \* history: the timers cancel() or cancelAll() was called for
  ran          \* history: what each handler was called with, and whether
               \* before its deadline

workerVars == <<worker, until, current>>
vars == <<now, items, m_idcounter, m_finish, count, owner, workerVars, due,
          cancelled, ran>>

\* id = 0 in the code is aborted here; an item whose handler was moved away
\* keeps its place in the queue.
Item   == [timer : Timers, end : 0 .. MaxTime, aborted : BOOLEAN, handler : BOOLEAN]
NoItem == [timer |-> 1, end |-> 0, aborted |-> FALSE, handler |-> FALSE]

\* An item that is to tell its handler, at once, that it was aborted.
Aborted(i) == [timer |-> i.timer, end |-> 0, aborted |-> TRUE, handler |-> i.handler]

TypeOK ==
  /\ now \in 0 .. MaxTime
  /\ items \subseteq Item /\ current \in Item
  /\ m_idcounter \in 0 .. MaxTimers
  /\ m_finish \in BOOLEAN
  /\ count \in Nat
  /\ owner \in {"idle", "notify", "cancelAll", "notifyEnd", "join", "gone"}
  /\ worker \in {"test", "calc", "pred", "block", "blocked", "check", "run", "exit"}
  /\ until \in 0 .. MaxTime
  /\ due \in [Timers -> 0 .. MaxTime] /\ cancelled \subseteq Timers
  /\ ran \in [Timers -> Seq([aborted : BOOLEAN, early : BOOLEAN])]

Init ==
  /\ now = 0 /\ items = {} /\ m_idcounter = 0 /\ m_finish = FALSE /\ count = 0
  /\ owner = "idle" /\ worker = "test" /\ until = 0 /\ current = NoItem
  /\ due = [t \in Timers |-> 0] /\ cancelled = {}
  /\ ran = [t \in Timers |-> <<>>]

-----------------------------------------------------------------------------
(* The owning thread                                                       *)

Later(d) == IF now + d < MaxTime THEN now + d ELSE MaxTime

Add(d) ==
  /\ owner = "idle" /\ m_idcounter < MaxTimers
  /\ LET t == m_idcounter + 1 IN
       /\ m_idcounter' = t
       /\ items' = items \cup
            {[timer |-> t, end |-> Later(d), aborted |-> FALSE, handler |-> TRUE]}
       /\ due' = [due EXCEPT ![t] = Later(d)]
  /\ owner' = "notify"
  /\ UNCHANGED <<now, m_finish, count, workerVars, cancelled, ran>>

\* Mutant: the handler is copied instead of moved.
CancelCopies(t) ==
  /\ owner = "idle"
  /\ \E i \in items :
       /\ i.timer = t /\ ~i.aborted /\ i.handler
       /\ items' = items \cup {Aborted(i)}
  /\ cancelled' = cancelled \cup {t}
  /\ owner' = "notify"
  /\ UNCHANGED <<now, m_idcounter, m_finish, count, workerVars, due, ran>>

\* The handler moves to a new item that is due at once; cancel() does nothing
\* when it comes too late.
Cancel(t) ==
  /\ owner = "idle"
  /\ \E i \in items :
       /\ i.timer = t /\ ~i.aborted /\ i.handler
       /\ items' = (items \ {i}) \cup {[i EXCEPT !.handler = FALSE], Aborted(i)}
  /\ cancelled' = cancelled \cup {t}
  /\ owner' = "notify"
  /\ UNCHANGED <<now, m_idcounter, m_finish, count, workerVars, due, ran>>

\* ~TimerQueue: m_finish, then cancelAll(), then join().
Destroy ==
  /\ owner = "idle"
  /\ m_finish' = TRUE
  /\ owner' = "cancelAll"
  /\ UNCHANGED <<now, items, m_idcounter, count, workerVars, due, cancelled, ran>>

\* Mutant: the id is left, so that the handlers are not told.
CancelAllKeepsId ==
  /\ \/ owner = "idle" /\ count < MaxPending /\ owner' = "notify"
     \/ owner = "cancelAll" /\ owner' = "notifyEnd"
  /\ items' = {[i EXCEPT !.end = 0] : i \in items}
  /\ cancelled' = cancelled \cup {i.timer : i \in items}
  /\ UNCHANGED <<now, m_idcounter, m_finish, count, workerVars, due, ran>>

\* cancelAll() is called by the destructor, and by the halt() of a node whose
\* queue goes on.
CancelAll ==
  /\ \/ owner = "idle" /\ count < MaxPending /\ owner' = "notify"
     \/ owner = "cancelAll" /\ owner' = "notifyEnd"
  /\ items' = {Aborted(i) : i \in items}
  /\ cancelled' = cancelled \cup {i.timer : i \in items}
  /\ UNCHANGED <<now, m_idcounter, m_finish, count, workerVars, due, ran>>

\* Semaphore::notify
Notify ==
  /\ owner \in {"notify", "notifyEnd"}
  /\ count' = count + 1
  /\ worker' = IF worker = "blocked" THEN "pred" ELSE worker
  /\ owner' = IF owner = "notify" THEN "idle" ELSE "join"
  /\ UNCHANGED <<now, items, m_idcounter, m_finish, until, current, due, cancelled, ran>>

Join ==
  /\ owner = "join" /\ worker = "exit"
  /\ owner' = "gone"
  /\ UNCHANGED <<now, items, m_idcounter, m_finish, count, workerVars, due, cancelled, ran>>

OwnerStep == \/ \E d \in Delays : Add(d)
             \/ \E t \in Timers : Cancel(t)
             \/ Destroy \/ CancelAll \/ Notify \/ Join

-----------------------------------------------------------------------------
(* The worker: run()                                                       *)

ownerUnchanged == UNCHANGED <<now, m_idcounter, m_finish, owner, due, cancelled>>

TestFinish ==
  /\ worker = "test"
  /\ worker' = IF m_finish THEN "exit" ELSE "calc"
  /\ UNCHANGED <<items, count, until, current, ran>> /\ ownerUnchanged

\* Mutant: the heap is ordered the other way.
TopLast(q) == {i \in q : \A j \in q : i.end >= j.end}

\* What may be at the top of the heap q.
Top(q) == {i \in q : \A j \in q : i.end <= j.end}

\* calcWaitTime: items whose handler was moved away are dropped until one with a
\* handler is at the top.
CalcWaitTime ==
  /\ worker = "calc"
  /\ \E dropped \in SUBSET {i \in items : ~i.handler} :
       LET kept == items \ dropped IN
         /\ \A i \in dropped : i \in Top(kept \cup {i})
         /\ IF kept = {} THEN until' = Later(Idle)
            ELSE \E i \in Top(kept) : i.handler /\ until' = i.end
         /\ items' = kept
  /\ worker' = "pred"
  /\ UNCHANGED <<count, current, ran>> /\ ownerUnchanged

\* Mutant: the count is taken down after a timeout, too.
WaitUntilDecrements ==
  /\ worker = "pred"
  /\ worker' = IF count > 0 \/ now >= until THEN "check" ELSE "block"
  /\ count' = IF count > 0 \/ now >= until THEN count - 1 ELSE count
  /\ UNCHANGED <<items, until, current, ran>> /\ ownerUnchanged

\* Semaphore::waitUntil: the condition, and what follows when it holds or the
\* time is over.
WaitUntil ==
  /\ worker = "pred"
  /\ worker' = IF count > 0 \/ now >= until THEN "check" ELSE "block"
  /\ count' = IF count > 0 THEN count - 1 ELSE count
  /\ UNCHANGED <<items, until, current, ran>> /\ ownerUnchanged

Block ==
  /\ worker = "block"
  /\ worker' = "blocked"
  /\ UNCHANGED <<items, count, until, current, ran>> /\ ownerUnchanged

\* Mutant: the worker waits for a notification only.
TimeoutNever ==
  /\ worker = "blocked" /\ now >= until /\ count > 0
  /\ worker' = "pred"
  /\ UNCHANGED <<items, count, until, current, ran>> /\ ownerUnchanged

\* Mutant: without a timer the worker waits "indefinitely", as the comment in
\* calcWaitTime has it.
TimeoutOfItems ==
  /\ worker = "blocked" /\ now >= until /\ items # {}
  /\ worker' = "pred"
  /\ UNCHANGED <<items, count, until, current, ran>> /\ ownerUnchanged

Timeout ==
  /\ worker = "blocked" /\ now >= until
  /\ worker' = "pred"
  /\ UNCHANGED <<items, count, until, current, ran>> /\ ownerUnchanged

\* checkWork pops an item that is due, or is over.
CheckWork ==
  /\ worker = "check"
  /\ IF \E i \in Top(items) : i.end <= now
     THEN \E i \in Top(items) :
            /\ items' = items \ {i}
            /\ IF i.handler THEN current' = i /\ worker' = "run"
                            ELSE UNCHANGED <<current, worker>>
     ELSE worker' = "test" /\ UNCHANGED <<items, current>>
  /\ UNCHANGED <<count, until, ran>> /\ ownerUnchanged

RunHandler ==
  /\ worker = "run"
  /\ ran' = [ran EXCEPT ![current.timer] = Append(@,
             [aborted |-> current.aborted, early |-> now < due[current.timer]])]
  /\ worker' = "check" /\ current' = NoItem
  /\ UNCHANGED <<items, count, until>> /\ ownerUnchanged

WorkerStep == \/ TestFinish \/ CalcWaitTime \/ WaitUntil \/ Block \/ Timeout
              \/ CheckWork \/ RunHandler

-----------------------------------------------------------------------------
Tick ==
  /\ now < MaxTime
  /\ now' = now + 1
  /\ UNCHANGED <<items, m_idcounter, m_finish, count, owner, workerVars, due, cancelled, ran>>

Next == OwnerStep \/ WorkerStep \/ Tick

Spec == Init /\ [][Next]_vars

\* Both threads and the clock go on: a call on the queue ends, none need be made.
FairSpec == /\ Spec
            /\ WF_vars(owner # "idle" /\ OwnerStep) /\ WF_vars(WorkerStep) /\ WF_vars(Tick)

-----------------------------------------------------------------------------
(* Properties                                                              *)

\* "All handlers are executed ONCE, even if canceled ...  If TimerQueue is
\* destroyed, it will cancel all handlers" (timer_queue.h).
AllHandlersRun ==
  owner = "gone" => \A t \in 1 .. m_idcounter : Len(ran[t]) = 1

\* No handler is executed twice, whatever cancel() and the worker do to its items.
AtMostOnce == \A t \in Timers : Len(ran[t]) <= 1

\* A handler is told it was aborted only if its timer was cancelled, and is called
\* early only then.
AbortedOrDue ==
  \A t \in Timers : \A n \in DOMAIN ran[t] :
    IF ran[t][n].aborted THEN t \in cancelled ELSE ~ran[t][n].early

\* While timers are added with one delay, as by a Sleep node, a lost notification
\* makes none of them late by more than the idle wait.
NeverLate ==
  worker = "blocked" =>
    \A i \in items : ~i.aborted /\ i.handler => until <= i.end \/ until <= now + Idle

\* A timer that is added is executed, unless the queue is destroyed.
TimerRuns ==
  \A t \in Timers : t = m_idcounter ~> ran[t] # <<>> \/ m_finish

\* The destructor returns, though its notification may be lost.
DestroyReturns == owner = "cancelAll" ~> owner = "gone"
=============================================================================
