--------------------------- MODULE TimerQueueProofs ---------------------------
(***************************************************************************)
(* What holds of a timer queue for every number of timers, every set of    *)
(* delays and every idle wait.                                             *)
(***************************************************************************)
EXTENDS TimerQueue, TLAPS

\* A deadline is a time, not before now, and the later it is set the later it is.
LEMMA LaterIsLater ==
  ASSUME NEW d \in Nat, now \in 0 .. MaxTime
  PROVE  /\ Later(d) \in 0 .. MaxTime
         /\ Later(d) <= now + d
         /\ now' = now \/ now' = now + 1 => Later(d) <= Later(d)'
BY TimerAssumption DEF Later

\* Every delay is a number.
LEMMA DelaysNat == Delays \subseteq Nat /\ Idle \in Nat
BY TimerAssumption

-----------------------------------------------------------------------------
(* Types                                                                   *)

\* What an aborted item is.
LEMMA AbortedItem ==
  ASSUME NEW i \in Item
  PROVE  /\ Aborted(i) \in Item /\ Aborted(i).timer = i.timer /\ Aborted(i).end = 0
         /\ Aborted(i).aborted /\ Aborted(i).handler = i.handler
<1>1. 0 \in 0 .. MaxTime
  BY TimerAssumption
<1>2. i.timer \in Timers /\ i.handler \in BOOLEAN
  BY DEF Item
<1> QED
  BY <1>1, <1>2 DEF Item, Aborted

\* Every item of cancelAll() is one of the queue before, with its handler.
LEMMA AllAborted ==
  ASSUME TypeOK, CancelAll
  PROVE  /\ items' \subseteq Item
         /\ \A j \in items' : \E i \in items : /\ j = Aborted(i) /\ j.timer = i.timer
                                             /\ j.handler = i.handler /\ j.end = 0 /\ j.aborted
<1>1. \A j \in items' : \E i \in items : j = Aborted(i)
  BY DEF CancelAll
<1>2. \A i \in items : i \in Item
  BY DEF TypeOK
<1> QED
  BY <1>1, <1>2, AbortedItem

\* What cancel() leaves where the handler was.
LEMMA EmptyItem ==
  ASSUME NEW i \in Item
  PROVE  /\ [i EXCEPT !.handler = FALSE] \in Item
         /\ [i EXCEPT !.handler = FALSE].timer = i.timer
         /\ [i EXCEPT !.handler = FALSE].end = i.end
         /\ [i EXCEPT !.handler = FALSE].aborted = i.aborted
         /\ ~[i EXCEPT !.handler = FALSE].handler
BY DEF Item

\* The owning thread's steps keep the types.
LEMMA OwnerTypes ==
  ASSUME TypeOK, OwnerStep
  PROVE  TypeOK'
<1>1. ASSUME NEW d \in Delays, Add(d) PROVE TypeOK'
  <2>1. Later(d) \in 0 .. MaxTime
    BY LaterIsLater, DelaysNat DEF TypeOK
  <2>2. m_idcounter + 1 \in Timers /\ m_idcounter + 1 \in 0 .. MaxTimers
    BY <1>1, TimerAssumption DEF Add, TypeOK, Timers
  <2>3. [timer |-> m_idcounter + 1, end |-> Later(d), aborted |-> FALSE, handler |-> TRUE] \in Item
    BY <2>1, <2>2 DEF Item
  <2> QED
    BY <1>1, <2>1, <2>2, <2>3 DEF Add, TypeOK, workerVars
<1>2. ASSUME NEW t \in Timers, Cancel(t) PROVE TypeOK'
  <2>1. PICK i \in items :
          items' = (items \ {i}) \cup {[i EXCEPT !.handler = FALSE], Aborted(i)}
    BY <1>2 DEF Cancel
  <2>2. items' \subseteq Item
    BY <2>1, AbortedItem, EmptyItem DEF TypeOK
  <2> QED
    BY <1>2, <2>2 DEF Cancel, TypeOK, workerVars
<1>3. CASE CancelAll
  <2>1. items' \subseteq Item
    BY <1>3, AllAborted
  <2>2. {i.timer : i \in items} \subseteq Timers
    BY DEF TypeOK, Item
  <2> QED
    BY <1>3, <2>1, <2>2 DEF CancelAll, TypeOK, workerVars
<1>4. CASE Destroy
  BY <1>4 DEF Destroy, TypeOK, workerVars
<1>5. CASE Notify
  BY <1>5 DEF Notify, TypeOK
<1>6. CASE Join
  BY <1>6 DEF Join, TypeOK, workerVars
<1> QED
  BY <1>1, <1>2, <1>3, <1>4, <1>5, <1>6 DEF OwnerStep

\* The worker's steps keep the types.
LEMMA WorkerTypes ==
  ASSUME TypeOK, WorkerStep
  PROVE  TypeOK'
<1> USE DEF ownerUnchanged
<1>1. CASE TestFinish \/ Block \/ Timeout
  BY <1>1 DEF TestFinish, Block, Timeout, TypeOK
<1>2. CASE CalcWaitTime
  <2>1. Later(Idle) \in 0 .. MaxTime
    BY LaterIsLater, DelaysNat DEF TypeOK
  <2>2. items' \subseteq items
    BY <1>2 DEF CalcWaitTime
  <2>3. until' \in 0 .. MaxTime
    BY <1>2, <2>1 DEF CalcWaitTime, Top, TypeOK, Item
  <2> QED
    BY <1>2, <2>2, <2>3 DEF CalcWaitTime, TypeOK
<1>3. CASE WaitUntil
  BY <1>3 DEF WaitUntil, TypeOK
<1>4. CASE CheckWork
  BY <1>4 DEF CheckWork, Top, TypeOK
<1>5. CASE RunHandler
  <2>1. NoItem \in Item
    BY TimerAssumption DEF NoItem, Item, Timers
  <2>2. current.timer \in Timers /\ current.aborted \in BOOLEAN
    BY DEF TypeOK, Item
  <2>3. ran' \in [Timers -> Seq([aborted : BOOLEAN, early : BOOLEAN])]
    BY <1>5, <2>2 DEF RunHandler, TypeOK
  <2> QED
    BY <1>5, <2>1, <2>3 DEF RunHandler, TypeOK
<1> QED
  BY <1>1, <1>2, <1>3, <1>4, <1>5 DEF WorkerStep

\* Every reachable state is well typed: in particular the semaphore's count never
\* falls below zero.
THEOREM TypeCorrect == Spec => []TypeOK
<1>1. Init => TypeOK
  <2>1. NoItem \in Item
    BY TimerAssumption DEF NoItem, Item, Timers
  <2>2. 0 \in 0 .. MaxTime /\ 0 \in 0 .. MaxTimers
    BY TimerAssumption
  <2>3. Init => ran \in [Timers -> Seq([aborted : BOOLEAN, early : BOOLEAN])]
    BY DEF Init
  <2>4. Init => due \in [Timers -> 0 .. MaxTime]
    BY <2>2 DEF Init
  <2>5. Init => current \in Item /\ items \subseteq Item
    BY <2>1 DEF Init
  <2>6. Init => /\ now \in 0 .. MaxTime /\ m_idcounter \in 0 .. MaxTimers /\ until \in 0 .. MaxTime
                /\ count \in Nat /\ cancelled \subseteq Timers
    BY <2>2 DEF Init
  <2>7. Init => owner = "idle" /\ worker = "test" /\ m_finish \in BOOLEAN
    BY DEF Init
  <2> QED
    BY <2>3, <2>4, <2>5, <2>6, <2>7 DEF TypeOK
<1>2. TypeOK /\ [Next]_vars => TypeOK'
  <2>1. ASSUME TypeOK, Tick PROVE TypeOK'
    BY <2>1, TimerAssumption DEF Tick, TypeOK, workerVars
  <2>2. ASSUME TypeOK, UNCHANGED vars PROVE TypeOK'
    BY <2>2 DEF vars, TypeOK, workerVars
  <2> QED
    BY <2>1, <2>2, OwnerTypes, WorkerTypes DEF Next
<1> QED
  BY <1>1, <1>2, PTL DEF Spec

-----------------------------------------------------------------------------
(* Every handler is in one place                                           *)

\* The handler of a timer is in one item, or with the worker, or has run.
OneHolder ==
  /\ \A i \in items : i.timer <= m_idcounter
  /\ \A i \in items : i.handler => ran[i.timer] = <<>>
  /\ \A i, j \in items : i.handler /\ j.handler /\ i.timer = j.timer => i = j
  /\ \A t \in Timers : t > m_idcounter => ran[t] = <<>>

\* The handler the worker holds has been taken out of the queue.
Taken ==
  worker = "run" => /\ ran[current.timer] = <<>>
                    /\ current.timer <= m_idcounter
                    /\ \A i \in items : i.handler => i.timer # current.timer

\* A step that only drops items and moves the clock keeps both.
LEMMA FewerItems ==
  ASSUME OneHolder, Taken, AtMostOnce, items' \subseteq items,
         UNCHANGED <<m_idcounter, ran, current>>, worker' = "run" => worker = "run"
  PROVE  OneHolder' /\ Taken' /\ AtMostOnce'
BY DEF OneHolder, Taken, AtMostOnce

\* cancel() moves the handler, and the worker takes it out before it runs it.
LEMMA HoldersAlways == Spec => [](OneHolder /\ Taken /\ AtMostOnce)
<1> DEFINE Inv == OneHolder /\ Taken /\ AtMostOnce
<1>1. Init => Inv
  BY DEF Init, OneHolder, Taken, AtMostOnce
<1>2. TypeOK /\ Inv /\ [Next]_vars => Inv'
  <2> SUFFICES ASSUME TypeOK, OneHolder, Taken, AtMostOnce, [Next]_vars PROVE Inv'
    OBVIOUS
  <2> USE DEF ownerUnchanged, workerVars
  <2>1. ASSUME NEW d \in Delays, Add(d) PROVE Inv'
    <3> DEFINE new == [timer |-> m_idcounter + 1, end |-> Later(d), aborted |-> FALSE, handler |-> TRUE]
    <3>1. /\ items' = items \cup {new} /\ m_idcounter' = m_idcounter + 1
          /\ UNCHANGED <<ran, current, worker>> /\ new.timer = m_idcounter + 1
      BY <2>1 DEF Add
    <3>2. m_idcounter \in Nat /\ m_idcounter + 1 \in Timers /\ \A i \in items : i.timer \in Nat
      BY <2>1, TimerAssumption DEF TypeOK, Add, Timers, Item
    <3>3. \A i \in items : i.timer # m_idcounter + 1
      BY <3>2 DEF OneHolder
    <3>4. ran[m_idcounter + 1] = <<>>
      BY <3>2 DEF OneHolder
    <3>5. \A i \in items' : i.timer <= m_idcounter'
      BY <3>1, <3>2 DEF OneHolder
    <3>6. \A i \in items' : i.handler => ran'[i.timer] = <<>>
      BY <3>1, <3>4 DEF OneHolder
    <3>7. \A i, j \in items' : i.handler /\ j.handler /\ i.timer = j.timer => i = j
      BY <3>1, <3>3 DEF OneHolder
    <3>8. \A t \in Timers : t > m_idcounter' => ran'[t] = <<>>
      BY <3>1, <3>2 DEF OneHolder, Timers
    <3>9. current.timer \in Nat
      BY DEF TypeOK, Item, Timers
    <3>10. Taken'
      BY <3>1, <3>2, <3>9 DEF Taken
    <3> QED
      BY <3>1, <3>5, <3>6, <3>7, <3>8, <3>10 DEF OneHolder, AtMostOnce
  <2>2. ASSUME NEW t \in Timers, Cancel(t) PROVE Inv'
    <3>1. PICK i \in items :
            /\ i.timer = t /\ i.handler
            /\ items' = (items \ {i}) \cup {[i EXCEPT !.handler = FALSE], Aborted(i)}
      BY <2>2 DEF Cancel
    <3> DEFINE empty == [i EXCEPT !.handler = FALSE]
               moved == Aborted(i)
    <3>2. /\ empty.timer = t /\ ~empty.handler
          /\ moved.timer = t /\ moved.handler
      BY <3>1, AbortedItem, EmptyItem DEF TypeOK
    <3>3. UNCHANGED <<m_idcounter, ran, current, worker>>
      BY <2>2 DEF Cancel
    <3>4. \A j \in items' : j \in items \ {i} \/ j = empty \/ j = moved
      BY <3>1
    <3>5. \A j \in items \ {i} : j.handler => j.timer # t
      BY <3>1 DEF OneHolder
    <3> HIDE DEF empty, moved
    <3>6. OneHolder'
      BY <3>1, <3>2, <3>3, <3>4, <3>5 DEF OneHolder
    <3>7. Taken'
      BY <3>1, <3>2, <3>3, <3>4 DEF Taken
    <3> QED
      BY <3>3, <3>6, <3>7 DEF AtMostOnce
  <2>3. CASE CancelAll
    <3>1. \A j \in items' : \E i \in items : /\ j = Aborted(i)
                                             /\ j.timer = i.timer /\ j.handler = i.handler
      BY <2>3, AllAborted
    <3>2. UNCHANGED <<m_idcounter, ran, current, worker>>
      BY <2>3 DEF CancelAll
    <3>3. \A j, k \in items' : j.handler /\ k.handler /\ j.timer = k.timer => j = k
      <4> SUFFICES ASSUME NEW j \in items', NEW k \in items', j.handler, k.handler, j.timer = k.timer
                   PROVE  j = k
        OBVIOUS
      <4>1. PICK i \in items : j = Aborted(i) /\ j.timer = i.timer /\ i.handler
        BY <3>1
      <4>2. PICK h \in items : k = Aborted(h) /\ k.timer = h.timer /\ h.handler
        BY <3>1
      <4>3. i = h
        BY <4>1, <4>2 DEF OneHolder
      <4> QED
        BY <4>1, <4>2, <4>3
    <3>4. OneHolder'
      <4>1. \A j \in items' : j.timer <= m_idcounter /\ (j.handler => ran[j.timer] = <<>>)
        BY <3>1 DEF OneHolder
      <4> QED
        BY <3>2, <3>3, <4>1 DEF OneHolder
    <3>5. Taken'
      BY <3>1, <3>2 DEF Taken
    <3> QED
      BY <3>2, <3>4, <3>5 DEF AtMostOnce
  <2>4. CASE CalcWaitTime
    BY <2>4, FewerItems DEF CalcWaitTime
  <2>5. CASE CheckWork
    <3>1. CASE items' \subseteq items /\ worker' # "run" /\ UNCHANGED <<current, ran, m_idcounter>>
      BY <3>1, FewerItems
    <3>2. CASE worker' = "run"
      <4>1. worker = "check" /\ UNCHANGED <<ran, m_idcounter>>
        BY <2>5 DEF CheckWork
      <4>2. PICK i \in items : i.handler /\ items' = items \ {i} /\ current' = i
        BY <2>5, <3>2 DEF CheckWork, Top
      <4>3. \A j \in items' : j.handler => j.timer # i.timer
        BY <4>2 DEF OneHolder
      <4> QED
        BY <4>1, <4>2, <4>3 DEF OneHolder, Taken, AtMostOnce
    <3> QED
      BY <2>5, <3>1, <3>2 DEF CheckWork
  <2>6. CASE RunHandler
    <3>1. worker = "run" /\ worker' = "check" /\ UNCHANGED <<items, m_idcounter>>
      BY <2>6 DEF RunHandler
    <3>2. current.timer \in Timers /\ current.timer <= m_idcounter /\ m_idcounter \in Nat
      BY <3>1 DEF Taken, TypeOK, Item
    <3>3. \A t \in Timers \ {current.timer} : ran'[t] = ran[t]
      BY <2>6 DEF RunHandler, TypeOK
    <3>4. \A t \in Timers : t = current.timer => Len(ran'[t]) <= 1
      BY <2>6, <3>1, <3>2 DEF RunHandler, Taken, TypeOK
    <3>5. \A i \in items : i.handler => i.timer \in Timers \ {current.timer}
      BY <3>1 DEF Taken, TypeOK, Item
    <3>6. OneHolder'
      BY <3>1, <3>2, <3>3, <3>5 DEF OneHolder, Timers
    <3>7. AtMostOnce'
      <4> SUFFICES ASSUME NEW t \in Timers PROVE Len(ran'[t]) <= 1
        BY DEF AtMostOnce
      <4>1. CASE t = current.timer
        BY <3>4, <4>1
      <4>2. CASE t # current.timer
        BY <3>3, <4>2 DEF AtMostOnce
      <4> QED
        BY <4>1, <4>2
    <3> QED
      BY <3>1, <3>6, <3>7 DEF Taken
  <2>7. CASE TestFinish \/ WaitUntil \/ Block \/ Timeout \/ Destroy \/ Notify \/ Join \/ Tick
             \/ UNCHANGED vars
    <3>1. items' = items /\ UNCHANGED <<m_idcounter, ran, current>> /\ (worker' = "run" => worker = "run")
      BY <2>7 DEF TestFinish, WaitUntil, Block, Timeout, Destroy, Notify, Join, Tick, vars
    <3> QED
      BY <3>1, FewerItems
  <2> QED
    BY <2>1, <2>2, <2>3, <2>4, <2>5, <2>6, <2>7 DEF Next, OwnerStep, WorkerStep
<1> QED
  BY <1>1, <1>2, TypeCorrect, PTL DEF Spec

\* No handler runs twice, whatever the owning thread does while the worker runs.
THEOREM AtMostOnceAlways == Spec => []AtMostOnce
BY HoldersAlways, PTL

-----------------------------------------------------------------------------
(* What a handler is told, and when                                        *)

\* An item that is not aborted is due when its timer is.
EndIsDue ==
  \A i \in items : IF i.aborted THEN i.timer \in cancelled ELSE i.end = due[i.timer]

\* The worker holds an aborted handler, or one whose time has come.
HeldIsDue ==
  worker = "run" => IF current.aborted THEN current.timer \in cancelled
                                       ELSE due[current.timer] <= now

\* A step that runs no handler, takes none out and puts none in keeps all three.
LEMMA NoHandlerMoves ==
  ASSUME TypeOK, EndIsDue, HeldIsDue, AbortedOrDue, items' \subseteq items,
         now' = now \/ now' = now + 1, worker' = "run" => worker = "run",
         UNCHANGED <<due, ran, current, cancelled>>
  PROVE  EndIsDue' /\ HeldIsDue' /\ AbortedOrDue'
<1>1. now \in Nat /\ (\A t \in Timers : due[t] \in Nat) /\ current.timer \in Timers
  BY TimerAssumption DEF TypeOK, Item
<1>2. \A t \in Timers : due[t] <= now => due[t] <= now'
  BY <1>1
<1>3. HeldIsDue'
  BY <1>1, <1>2 DEF HeldIsDue
<1>4. EndIsDue' /\ AbortedOrDue'
  BY DEF EndIsDue, AbortedOrDue
<1> QED
  BY <1>3, <1>4

\* A handler is told that it was aborted only when its timer was cancelled, and
\* otherwise runs only when its time has come, wherever cancel() meets the worker.
THEOREM AbortedOrDueAlways == Spec => []AbortedOrDue
<1> DEFINE Inv == EndIsDue /\ HeldIsDue /\ AbortedOrDue
<1>1. Init => Inv
  BY DEF Init, EndIsDue, HeldIsDue, AbortedOrDue
<1>2. TypeOK /\ OneHolder /\ Taken /\ Inv /\ [Next]_vars => Inv'
  <2> SUFFICES ASSUME TypeOK, OneHolder, Taken, EndIsDue, HeldIsDue, AbortedOrDue, [Next]_vars
               PROVE  Inv'
    OBVIOUS
  <2> USE DEF ownerUnchanged, workerVars
  <2>0. ASSUME NEW i \in items PROVE i \in Item /\ i.timer \in Timers
    BY DEF TypeOK, Item
  <2>1. ASSUME NEW d \in Delays, Add(d) PROVE Inv'
    <3> DEFINE t == m_idcounter + 1
               new == [timer |-> t, end |-> Later(d), aborted |-> FALSE, handler |-> TRUE]
    <3>1. /\ items' = items \cup {new} /\ due' = [due EXCEPT ![t] = Later(d)]
          /\ UNCHANGED <<now, ran, current, worker, cancelled>>
      BY <2>1 DEF Add
    <3>2. t \in Timers /\ m_idcounter \in Nat
      BY <2>1, TimerAssumption DEF TypeOK, Add, Timers
    <3>3. due'[t] = Later(d) /\ \A u \in Timers \ {t} : due'[u] = due[u]
      BY <3>1, <3>2 DEF TypeOK
    <3>4. \A i \in items : i.timer \in Timers \ {t}
      BY <2>0, <3>2 DEF OneHolder, Timers
    <3>5. EndIsDue'
      <4>1. new.timer = t /\ new.end = Later(d) /\ ~new.aborted
        OBVIOUS
      <4> HIDE DEF new, t
      <4> QED
        BY <3>1, <3>3, <3>4, <4>1 DEF EndIsDue
    <3>6. HeldIsDue'
      <4>1. worker = "run" => current.timer \in Timers \ {t}
        BY <3>2 DEF Taken, TypeOK, Item, Timers
      <4> QED
        BY <3>1, <3>3, <4>1 DEF HeldIsDue
    <3> QED
      BY <3>1, <3>5, <3>6 DEF AbortedOrDue
  <2>2. ASSUME NEW t \in Timers, Cancel(t) PROVE Inv'
    <3>1. PICK i \in items :
            /\ i.timer = t
            /\ items' = (items \ {i}) \cup {[i EXCEPT !.handler = FALSE], Aborted(i)}
      BY <2>2 DEF Cancel
    <3> DEFINE empty == [i EXCEPT !.handler = FALSE]
    <3>2. /\ empty.timer = t /\ empty.aborted = i.aborted /\ empty.end = i.end
          /\ Aborted(i).timer = t /\ Aborted(i).aborted
      BY <3>1, AbortedItem, EmptyItem DEF TypeOK
    <3>3. UNCHANGED <<now, due, ran, current, worker>> /\ cancelled' = cancelled \cup {t}
      BY <2>2 DEF Cancel
    <3>4. \A j \in items' : j \in items \/ j = empty \/ j = Aborted(i)
      BY <3>1
    <3>5. empty.aborted => t \in cancelled'
      BY <3>3
    <3>6. ~empty.aborted => empty.end = due[t]
      BY <3>1, <3>2 DEF EndIsDue
    <3> HIDE DEF empty
    <3>7. EndIsDue'
      BY <3>2, <3>3, <3>4, <3>5, <3>6 DEF EndIsDue
    <3>8. HeldIsDue' /\ AbortedOrDue'
      BY <3>3 DEF HeldIsDue, AbortedOrDue
    <3> QED
      BY <3>7, <3>8
  <2>3. CASE CancelAll
    <3>1. \A j \in items' : \E i \in items : j.timer = i.timer /\ j.aborted
      BY <2>3, AllAborted
    <3>2. UNCHANGED <<now, due, ran, current, worker>> /\ cancelled' = cancelled \cup {i.timer : i \in items}
      BY <2>3 DEF CancelAll
    <3>3. EndIsDue'
      BY <3>1, <3>2 DEF EndIsDue
    <3>4. HeldIsDue' /\ AbortedOrDue'
      BY <3>2 DEF HeldIsDue, AbortedOrDue
    <3> QED
      BY <3>3, <3>4
  <2>4. CASE CheckWork
    <3>1. CASE worker' = "run"
      <4>1. UNCHANGED <<now, due, ran, cancelled>> /\ items' \subseteq items
        BY <2>4 DEF CheckWork
      <4>2. worker = "check"
        BY <2>4 DEF CheckWork
      <4>3. PICK i \in Top(items) : i.end <= now
        BY <2>4, <3>1, <4>2 DEF CheckWork
      <4>4. PICK j \in Top(items) : current' = j
        BY <2>4, <3>1, <4>2 DEF CheckWork
      <4>5. j.end <= i.end /\ i \in items /\ j \in items
        BY <4>3, <4>4 DEF Top
      <4>6. i.end \in Nat /\ j.end \in Nat /\ now \in Nat
        BY <4>5, TimerAssumption DEF TypeOK, Item
      <4>7. j.end <= now
        BY <4>3, <4>5, <4>6
      <4>8. HeldIsDue'
        BY <4>1, <4>4, <4>5, <4>7 DEF HeldIsDue, EndIsDue
      <4> QED
        BY <4>1, <4>8 DEF EndIsDue, AbortedOrDue
    <3>2. CASE worker' # "run"
      <4>1. UNCHANGED <<now, due, ran, cancelled>> /\ items' \subseteq items
        BY <2>4 DEF CheckWork
      <4> QED
        BY <3>2, <4>1 DEF EndIsDue, HeldIsDue, AbortedOrDue
    <3> QED
      BY <3>1, <3>2
  <2>5. CASE RunHandler
    <3> DEFINE r == [aborted |-> current.aborted, early |-> now < due[current.timer]]
    <3>1. worker = "run" /\ worker' = "check" /\ UNCHANGED <<items, now, due, cancelled>>
      BY <2>5 DEF RunHandler
    <3>2. ran' = [ran EXCEPT ![current.timer] = Append(@, r)]
      BY <2>5 DEF RunHandler
    <3>3. now \in Nat /\ due[current.timer] \in Nat /\ current.timer \in Timers
      BY TimerAssumption DEF TypeOK, Item
    <3>4. ran[current.timer] = <<>>
      BY <3>1 DEF Taken
    <3>5. IF r.aborted THEN current.timer \in cancelled ELSE ~r.early
      <4>1. r.aborted = current.aborted /\ r.early = (now < due[current.timer])
        OBVIOUS
      <4>2. ~current.aborted => ~(now < due[current.timer])
        BY <3>1, <3>3 DEF HeldIsDue
      <4>3. current.aborted => current.timer \in cancelled
        BY <3>1 DEF HeldIsDue
      <4> HIDE DEF r
      <4> QED
        BY <4>1, <4>2, <4>3, Zenon
    <3>6. \A t \in Timers \ {current.timer} : ran'[t] = ran[t]
      BY <3>2 DEF TypeOK
    <3>7. ran'[current.timer] = <<r>>
      BY <3>2, <3>3, <3>4 DEF TypeOK
    <3>8. \A n \in DOMAIN ran'[current.timer] : ran'[current.timer][n] = r
      BY <3>7
    <3> HIDE DEF r
    <3>9. AbortedOrDue'
      BY <3>1, <3>5, <3>6, <3>8 DEF AbortedOrDue
    <3> QED
      BY <3>1, <3>9 DEF EndIsDue, HeldIsDue
  <2>6. CASE TestFinish \/ CalcWaitTime \/ WaitUntil \/ Block \/ Timeout \/ Destroy \/ Notify
             \/ Join \/ Tick \/ UNCHANGED vars
    <3>1. /\ items' \subseteq items /\ UNCHANGED <<due, ran, current, cancelled>>
          /\ (now' = now \/ now' = now + 1) /\ (worker' = "run" => worker = "run")
      BY <2>6 DEF TestFinish, CalcWaitTime, WaitUntil, Block, Timeout, Destroy, Notify, Join, Tick, vars
    <3> QED
      BY <3>1, NoHandlerMoves
  <2> QED
    BY <2>1, <2>2, <2>3, <2>4, <2>5, <2>6 DEF Next, OwnerStep, WorkerStep
<1> QED
  BY <1>1, <1>2, TypeCorrect, HoldersAlways, PTL DEF Spec

-----------------------------------------------------------------------------
(* How late a handler may be                                               *)

\* No deadline, and no wait, is later than one that would be set now.
NoneLater ==
  \A d \in Delays : /\ \A i \in items : i.end <= Later(d)
                    /\ until <= Later(d) \/ until <= now + Idle

\* While the worker goes to sleep, and sleeps, it sleeps past no deadline.
SleepsNotPast ==
  worker \in {"pred", "block", "blocked"} =>
    \A i \in items : ~i.aborted /\ i.handler => until <= i.end \/ until <= now + Idle

\* A step that puts no timer in and does not set the wait keeps both.
LEMMA NoNewTimer ==
  ASSUME TypeOK, NoneLater, SleepsNotPast,
         \A j \in items' : \/ j \in items
                           \/ /\ j.aborted \/ ~j.handler
                              /\ \E i \in items : j.end = 0 \/ j.end = i.end,
         now' = now \/ now' = now + 1, until' = until,
         worker' \in {"pred", "block", "blocked"} => worker \in {"pred", "block", "blocked"}
  PROVE  NoneLater' /\ SleepsNotPast'
<1>1. now \in Nat /\ until \in Nat /\ Idle \in Nat /\ \A i \in items : i.end \in Nat
  BY TimerAssumption DEF TypeOK, Item
<1>2. \A d \in Delays : Later(d) \in Nat /\ Later(d)' \in Nat /\ Later(d) <= Later(d)'
  BY <1>1, TimerAssumption DEF Later, TypeOK
<1>3. \A d \in Delays : \A j \in items' : j.end <= Later(d)'
  BY <1>1, <1>2 DEF NoneLater
<1>4. \A d \in Delays : until' <= Later(d)' \/ until' <= now' + Idle
  BY <1>1, <1>2 DEF NoneLater
<1>5. SleepsNotPast'
  BY <1>1 DEF SleepsNotPast
<1> QED
  BY <1>3, <1>4, <1>5 DEF NoneLater

\* A lost notification makes no timer late by more than the idle wait, as long as
\* all of them are added with one delay, as those of a Sleep node are.
THEOREM NeverLateAlways ==
  ASSUME \A d, e \in Delays : d = e
  PROVE  Spec => []NeverLate
<1> DEFINE Inv == NoneLater /\ SleepsNotPast
<1>1. Init => Inv
  BY TimerAssumption DEF Init, NoneLater, SleepsNotPast, Later
<1>2. TypeOK /\ Inv /\ [Next]_vars => Inv'
  <2> SUFFICES ASSUME TypeOK, NoneLater, SleepsNotPast, [Next]_vars PROVE Inv'
    OBVIOUS
  <2> USE DEF ownerUnchanged, workerVars
  <2>1. ASSUME NEW d \in Delays, Add(d) PROVE Inv'
    <3> DEFINE new == [timer |-> m_idcounter + 1, end |-> Later(d), aborted |-> FALSE, handler |-> TRUE]
    <3>1. items' = items \cup {new} /\ UNCHANGED <<now, until, worker>> /\ new.end = Later(d)
      BY <2>1 DEF Add
    <3>2. \A e \in Delays : Later(e)' = Later(e) /\ Later(e) = Later(d)
      BY <3>1 DEF Later
    <3>3. Later(d) \in Nat
      BY TimerAssumption DEF Later, TypeOK
    <3> HIDE DEF new
    <3>4. NoneLater'
      BY <3>1, <3>2, <3>3 DEF NoneLater
    <3>5. SleepsNotPast'
      BY <3>1 DEF SleepsNotPast, NoneLater
    <3> QED
      BY <3>4, <3>5
  <2>2. ASSUME NEW t \in Timers, Cancel(t) PROVE Inv'
    <3>1. PICK i \in items :
            items' = (items \ {i}) \cup {[i EXCEPT !.handler = FALSE], Aborted(i)}
      BY <2>2 DEF Cancel
    <3> DEFINE empty == [i EXCEPT !.handler = FALSE]
    <3>2. ~empty.handler /\ empty.end = i.end /\ Aborted(i).end = 0 /\ Aborted(i).aborted
      BY AbortedItem, EmptyItem DEF TypeOK
    <3>3. \A j \in items' : j \in items \/ j = empty \/ j = Aborted(i)
      BY <3>1
    <3> HIDE DEF empty
    <3>4. UNCHANGED <<now, until, worker>>
      BY <2>2 DEF Cancel
    <3> QED
      BY <3>2, <3>3, <3>4, NoNewTimer
  <2>3. CASE CancelAll
    <3>1. \A j \in items' : j.aborted /\ \E i \in items : j.end = 0
      BY <2>3, AllAborted
    <3>2. UNCHANGED <<now, until, worker>>
      BY <2>3 DEF CancelAll
    <3> QED
      BY <3>1, <3>2, NoNewTimer
  <2>4. CASE CalcWaitTime
    <3>1. PICK dropped \in SUBSET {i \in items : ~i.handler} :
            /\ items' = items \ dropped
            /\ IF items \ dropped = {} THEN until' = Later(Idle)
               ELSE \E i \in Top(items \ dropped) : until' = i.end
      BY <2>4 DEF CalcWaitTime
    <3>2. now' = now /\ \A d \in Delays : Later(d)' = Later(d)
      BY <2>4 DEF CalcWaitTime, Later
    <3>3. CASE items' = {}
      <4>1. until' <= now' + Idle
        BY <3>1, <3>2, <3>3, LaterIsLater, DelaysNat DEF TypeOK
      <4> QED
        BY <3>3, <4>1 DEF NoneLater, SleepsNotPast
    <3>4. CASE items' # {}
      <4>1. PICK i \in items' : until' = i.end /\ \A j \in items' : i.end <= j.end
        BY <3>1, <3>4 DEF Top
      <4>2. items' \subseteq items
        BY <3>1
      <4> QED
        BY <3>2, <4>1, <4>2 DEF NoneLater, SleepsNotPast
    <3> QED
      BY <3>3, <3>4
  <2>5. CASE TestFinish \/ WaitUntil \/ Block \/ Timeout \/ CheckWork \/ RunHandler \/ Destroy \/ Notify
             \/ Join \/ Tick \/ UNCHANGED vars
    <3>1. /\ items' \subseteq items /\ until' = until
          /\ (now' = now \/ now' = now + 1)
          /\ (worker' \in {"pred", "block", "blocked"} => worker \in {"pred", "block", "blocked"})
      BY <2>5 DEF TestFinish, WaitUntil, Block, Timeout, CheckWork, RunHandler, Destroy, Notify, Join,
                  Tick, vars
    <3> QED
      BY <3>1, NoNewTimer
  <2> QED
    BY <2>1, <2>2, <2>3, <2>4, <2>5 DEF Next, OwnerStep, WorkerStep
<1>3. Inv => NeverLate
  BY DEF SleepsNotPast, NeverLate
<1> QED
  BY <1>1, <1>2, <1>3, TypeCorrect, PTL DEF Spec
=============================================================================
