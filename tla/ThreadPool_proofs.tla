--------------------------- MODULE ThreadPool_proofs ---------------------------
(***************************************************************************)
(* No task of moses::ThreadPool is run twice or forgotten, for any number  *)
(* of threads and tasks, any queue limit, any interleaving and any         *)
(* spurious wakeup; and Stop(true), with the destructor behind it, returns *)
(* when all of them have been run.                                         *)
(*                                                                         *)
(* The argument: a thread has a task exactly while it runs one, so taking  *)
(* the head of the queue moves that task from one place to another         *)
(* (TasksPlaced); and from the draining of the queue on, it stays empty    *)
(* (Progress).                                                             *)
(***************************************************************************)
EXTENDS ThreadPool, FiniteSetTheorems, SequenceTheorems, TLAPS

Places == {"lock", "wait", "woken", "run", "notify", "check", "exit"}
ClientPlaces == {"call", "submitLoop", "submitWait", "stop", "drain", "drainWait", "setStopped",
                 "notifyStopped", "join", "done"}

PoolTypeOK ==
  /\ queueLimit \in Nat
  /\ tasks \in Seq(Nat)
  /\ stopping \in BOOLEAN /\ stopped \in BOOLEAN
  /\ thread \in [Threads -> Places]
  /\ job \in [Threads -> Nat]
  /\ client \in ClientPlaces
  /\ submitted \in Nat
  /\ finished \subseteq Nat

Queued(n) == \E i \in DOMAIN tasks : tasks[i] = n
WithAThread(n) == \E t \in Threads : job[t] = n

\* Where the tasks are: those that were submitted, in exactly one place.
TasksPlaced ==
  /\ \A t \in Threads : job[t] # 0 <=> thread[t] = "run"
  /\ \A t, u \in Threads : job[t] = job[u] /\ job[t] # 0 => t = u
  /\ \A i, j \in DOMAIN tasks : i < j => tasks[i] < tasks[j]
  /\ \A n \in Nat : Queued(n) => n \in 1 .. submitted /\ ~WithAThread(n) /\ n \notin finished
  /\ \A n \in Nat \ {0} : WithAThread(n) => n \in 1 .. submitted /\ n \notin finished
  /\ finished \subseteq 1 .. submitted
  /\ \A n \in 1 .. submitted : Queued(n) \/ WithAThread(n) \/ n \in finished

\* How far the client of Stop(true) has come: nothing is submitted behind the call of Stop, the
\* queue is empty when m_stopped is set, and no thread is left when the client has joined them.
Submitting == {"call", "submitLoop", "submitWait"}

Progress ==
  /\ submitted <= NumTasks
  /\ client \in {"submitLoop", "submitWait"} => submitted < NumTasks
  /\ client \notin Submitting => submitted = NumTasks
  /\ client \in Submitting \cup {"drain", "drainWait", "setStopped"} => ~stopped
  /\ client \in {"notifyStopped", "join", "done"} => stopped
  /\ stopped \/ client = "setStopped" => tasks = <<>>
  /\ client = "done" \/ (client = "stop" /\ stopped) => \A t \in Threads : thread[t] = "exit"
-----------------------------------------------------------------------------
LEMMA TypeInit == Init => PoolTypeOK
<1>1. <<>> \in Seq(Nat)
  OBVIOUS
<1>2. Init => queueLimit \in Nat /\ client \in ClientPlaces
  BY ThreadPoolAssumption DEF Init, ClientPlaces
<1>3. Init => thread \in [Threads -> Places] /\ job \in [Threads -> Nat]
  BY DEF Init, Places
<1>4. Init => stopping \in BOOLEAN /\ stopped \in BOOLEAN
  BY Zenon DEF Init
<1>5. Init => tasks = <<>> /\ submitted = 0 /\ finished = {}
  BY DEF Init
<1>6. Init => submitted \in Nat /\ finished \subseteq Nat /\ tasks \in Seq(Nat)
  BY <1>1, <1>5
<1> QED BY <1>2, <1>3, <1>4, <1>6 DEF PoolTypeOK

LEMMA TypeStep == PoolTypeOK /\ [Next]_poolVars => PoolTypeOK'
<1> SUFFICES ASSUME PoolTypeOK, [Next]_poolVars PROVE PoolTypeOK'
  OBVIOUS
<1> USE ThreadPoolAssumption DEF PoolTypeOK, Places, ClientPlaces
<1>1. ASSUME NEW t \in Threads, FindJob(t) \/ Woken(t) PROVE PoolTypeOK'
  <2>1. tasks # <<>> => Head(tasks) \in Nat /\ Tail(tasks) \in Seq(Nat)
    BY HeadTailProperties
  <2>2. CASE FindJob(t)
    BY <2>1, <2>2 DEF FindJob, TakeJob, Goto
  <2>3. CASE Woken(t)
    BY <2>1, <2>3 DEF Woken, TakeJob, Goto
  <2> QED BY <1>1, <2>2, <2>3
<1>2. ASSUME NEW t \in Threads, RunTask(t) \/ NotifyThreadAvailable(t) \/ CheckStopped(t)
      PROVE  PoolTypeOK'
  <2>1. CASE RunTask(t)
    BY <2>1 DEF RunTask, Goto
  <2>2. CASE NotifyThreadAvailable(t)
    BY <2>2 DEF NotifyThreadAvailable, Goto
  <2>3. CASE CheckStopped(t)
    BY <2>3 DEF CheckStopped, Goto
  <2> QED BY <1>2, <2>1, <2>2, <2>3
<1>3. CASE Call
  BY <1>3 DEF Call
<1>4. CASE Submit
  <2>1. CASE client' = "submitWait"
    BY <1>4, <2>1 DEF Submit
  <2>2. CASE client' # "submitWait"
    <3>1. /\ tasks' = Append(tasks, submitted + 1) /\ submitted' = submitted + 1
          /\ NotifyThreadNeeded /\ client' = "call"
          /\ UNCHANGED <<queueLimit, stopping, stopped, job, finished>>
      BY <1>4, <2>2 DEF Submit
    <3>2. tasks' \in Seq(Nat) /\ submitted' \in Nat
      BY <3>1
    <3>3. thread' \in [Threads -> Places]
      BY <3>1 DEF NotifyThreadNeeded
    <3> QED BY <3>1, <3>2, <3>3
  <2> QED BY <2>1, <2>2
<1>5. CASE BeginStop \/ Drain \/ SetStopped \/ JoinAll
  BY <1>5 DEF BeginStop, Drain, SetStopped, JoinAll
<1>6. CASE NotifyStopped
  BY <1>6 DEF NotifyStopped, NotifyThreadNeeded
<1>7. CASE SpuriousWakeup
  BY <1>7 DEF SpuriousWakeup, Goto
<1>8. CASE UNCHANGED poolVars
  BY <1>8 DEF poolVars
<1> QED BY <1>1, <1>2, <1>3, <1>4, <1>5, <1>6, <1>7, <1>8 DEF Next, Execute, Client

THEOREM TypeCorrect == Spec => []PoolTypeOK
BY TypeInit, TypeStep, PTL DEF Spec
-----------------------------------------------------------------------------
\* Steps that touch neither the tasks nor the threads that run one.
LEMMA TasksStay ==
  ASSUME TasksPlaced, UNCHANGED <<tasks, job, submitted, finished>>,
         \A t \in Threads : thread'[t] = "run" <=> thread[t] = "run"
  PROVE  TasksPlaced'
BY DEF TasksPlaced, Queued, WithAThread

\* A thread that has no task takes the head of the queue, or none.
LEMMA TasksTaken ==
  ASSUME PoolTypeOK, TasksPlaced, NEW t \in Threads, thread[t] # "run", TakeJob(t),
         UNCHANGED <<submitted, finished>>
  PROVE  TasksPlaced'
<1>1. CASE ~stopped /\ tasks # <<>>
  <2> DEFINE h == Head(tasks)
  <2>1. /\ job' = [job EXCEPT ![t] = h] /\ tasks' = Tail(tasks)
        /\ thread' = [thread EXCEPT ![t] = "run"] /\ job[t] = 0
    BY <1>1 DEF TakeJob, Goto, TasksPlaced
  <2>2. /\ tasks \in Seq(Nat) /\ DOMAIN tasks = 1 .. Len(tasks) /\ Len(tasks) \in Nat \ {0}
        /\ h = tasks[1]
    BY <1>1, LenProperties, EmptySeq DEF PoolTypeOK
  <2>3. /\ tasks' \in Seq(Nat) /\ DOMAIN tasks' = 1 .. Len(tasks) - 1
        /\ \A i \in 1 .. Len(tasks) - 1 : tasks'[i] = tasks[i + 1]
    BY <1>1, <2>1, <2>2, HeadTailProperties, LenProperties
  <2>4. Queued(h) /\ h \in 1 .. submitted /\ ~WithAThread(h) /\ h \notin finished
    BY <2>2, ElementOfSeq DEF Queued, TasksPlaced
  <2>5. \A n \in Nat : Queued(n)' <=> Queued(n) /\ n # h
    <3>1. \A i \in 2 .. Len(tasks) : tasks[1] < tasks[i] /\ tasks[1] \in Nat /\ tasks[i] \in Nat
      BY <2>2, ElementOfSeq DEF TasksPlaced
    <3>2. ASSUME NEW n \in Nat, NEW i \in 1 .. Len(tasks) - 1, tasks'[i] = n
          PROVE  Queued(n) /\ n # h
      <4>1. i + 1 \in 2 .. Len(tasks) /\ tasks[i + 1] = n
        BY <2>2, <2>3, <3>2
      <4> QED BY <2>2, <3>1, <4>1 DEF Queued
    <3>3. ASSUME NEW n \in Nat, NEW i \in 1 .. Len(tasks), tasks[i] = n, n # h
          PROVE  Queued(n)'
      <4>1. i - 1 \in 1 .. Len(tasks) - 1 /\ tasks'[i - 1] = n
        BY <2>2, <2>3, <3>3
      <4> QED BY <2>3, <4>1 DEF Queued
    <3> QED BY <2>2, <2>3, <3>2, <3>3 DEF Queued
  <2>6. \A n \in Nat \ {0} : WithAThread(n)' <=> WithAThread(n) \/ n = h
    BY <2>1 DEF WithAThread, PoolTypeOK
  <2>7. ASSUME NEW i \in DOMAIN tasks', NEW j \in DOMAIN tasks', i < j
        PROVE  tasks'[i] < tasks'[j]
    <3>0. i \in 1 .. Len(tasks) - 1 /\ j \in 1 .. Len(tasks) - 1
      BY <2>3
    <3>1. i + 1 \in DOMAIN tasks /\ j + 1 \in DOMAIN tasks /\ i + 1 < j + 1
      BY <2>2, <2>7, <3>0
    <3>2. tasks[i + 1] < tasks[j + 1]
      BY <3>1 DEF TasksPlaced
    <3> QED BY <2>3, <3>0, <3>2
  <2>8. /\ \A u \in Threads : job'[u] # 0 <=> thread'[u] = "run"
        /\ \A u, v \in Threads : job'[u] = job'[v] /\ job'[u] # 0 => u = v
    BY <2>1, <2>4 DEF TasksPlaced, PoolTypeOK, WithAThread
  <2>9. \A n \in Nat : Queued(n)' => n # 0
    BY <2>5 DEF TasksPlaced
  <2>10. \A n \in Nat : Queued(n)' =>
           n \in 1 .. submitted /\ ~WithAThread(n)' /\ n \notin finished
    BY <2>5, <2>6, <2>9 DEF TasksPlaced
  <2>11. \A n \in Nat \ {0} : WithAThread(n)' => n \in 1 .. submitted /\ n \notin finished
    BY <2>4, <2>6 DEF TasksPlaced
  <2>12. \A n \in 1 .. submitted : Queued(n)' \/ WithAThread(n)' \/ n \in finished
    BY <2>5, <2>6 DEF TasksPlaced, PoolTypeOK
  <2> HIDE DEF h
  <2> QED BY <2>7, <2>8, <2>10, <2>11, <2>12 DEF TasksPlaced
<1>2. CASE ~(~stopped /\ tasks # <<>>)
  BY <1>2, TasksStay DEF TakeJob, Goto, PoolTypeOK
<1> QED BY <1>1, <1>2

\* A task that has been run is with no thread any more.
LEMMA TaskRun ==
  ASSUME PoolTypeOK, TasksPlaced, NEW t \in Threads, RunTask(t)
  PROVE  TasksPlaced'
<1>1. /\ thread[t] = "run" /\ job[t] # 0 /\ job[t] \in Nat \ {0} /\ WithAThread(job[t])
      /\ finished' = finished \cup {job[t]} /\ job' = [job EXCEPT ![t] = 0]
      /\ thread' = [thread EXCEPT ![t] = "notify"] /\ UNCHANGED <<tasks, submitted>>
  BY DEF RunTask, Goto, TasksPlaced, WithAThread, PoolTypeOK
<1>2. \A n \in Nat : Queued(n)' <=> Queued(n)
  BY <1>1 DEF Queued
<1>3. \A n \in Nat \ {0} : WithAThread(n)' <=> WithAThread(n) /\ n # job[t]
  BY <1>1 DEF WithAThread, TasksPlaced, PoolTypeOK
<1>4. /\ \A u \in Threads : job'[u] # 0 <=> thread'[u] = "run"
      /\ \A u, v \in Threads : job'[u] = job'[v] /\ job'[u] # 0 => u = v
  BY <1>1 DEF TasksPlaced, PoolTypeOK
<1>5. \A n \in Nat : Queued(n)' =>
        n \in 1 .. submitted /\ ~WithAThread(n)' /\ n \notin finished'
  BY <1>1, <1>2, <1>3 DEF TasksPlaced
<1>6. \A n \in Nat \ {0} : WithAThread(n)' => n \in 1 .. submitted /\ n \notin finished'
  BY <1>1, <1>3 DEF TasksPlaced
<1>7. finished' \subseteq 1 .. submitted
  BY <1>1 DEF TasksPlaced
<1>8. \A n \in 1 .. submitted : Queued(n)' \/ WithAThread(n)' \/ n \in finished'
  BY <1>1, <1>2, <1>3 DEF TasksPlaced, PoolTypeOK
<1>9. \A i, j \in DOMAIN tasks' : i < j => tasks'[i] < tasks'[j]
  BY <1>1 DEF TasksPlaced
<1> QED BY <1>1, <1>4, <1>5, <1>6, <1>7, <1>8, <1>9 DEF TasksPlaced

\* A task that is submitted is the last of the queue.
LEMMA TaskSubmitted ==
  ASSUME PoolTypeOK, TasksPlaced, Submit
  PROVE  TasksPlaced'
<1>1. CASE client' = "submitWait"
  BY <1>1, TasksStay DEF Submit
<1>2. CASE client' # "submitWait"
  <2>1. /\ tasks' = Append(tasks, submitted + 1) /\ submitted' = submitted + 1
        /\ UNCHANGED <<job, finished>> /\ NotifyThreadNeeded
    BY <1>2 DEF Submit
  <2>2. \A t \in Threads : thread'[t] = "run" <=> thread[t] = "run"
    BY <2>1 DEF NotifyThreadNeeded
  <2>3. /\ tasks \in Seq(Nat) /\ DOMAIN tasks = 1 .. Len(tasks) /\ Len(tasks) \in Nat
        /\ DOMAIN tasks' = 1 .. Len(tasks) + 1
        /\ tasks'[Len(tasks) + 1] = submitted + 1
        /\ \A i \in 1 .. Len(tasks) : tasks'[i] = tasks[i] /\ tasks[i] \in Nat
    BY <2>1, LenProperties, ElementOfSeq DEF PoolTypeOK
  <2>4. \A n \in Nat : Queued(n)' <=> Queued(n) \/ n = submitted + 1
    BY <2>3 DEF Queued
  <2>5. \A n \in Nat : WithAThread(n)' <=> WithAThread(n)
    BY <2>1 DEF WithAThread
  <2>6. ASSUME NEW i \in 1 .. Len(tasks) PROVE tasks[i] <= submitted
    <3>1. tasks[i] \in Nat /\ Queued(tasks[i])
      BY <2>3 DEF Queued
    <3>2. tasks[i] \in 1 .. submitted
      BY <3>1 DEF TasksPlaced
    <3> QED BY <3>2 DEF PoolTypeOK
  <2>7. \A i, j \in DOMAIN tasks' : i < j => tasks'[i] < tasks'[j]
    BY <2>3, <2>6 DEF TasksPlaced, PoolTypeOK
  <2>8. ~WithAThread(submitted + 1) /\ submitted + 1 \notin finished
    BY DEF TasksPlaced, PoolTypeOK
  <2>9. \A n \in Nat : Queued(n)' =>
          n \in 1 .. submitted' /\ ~WithAThread(n)' /\ n \notin finished'
    BY <2>1, <2>4, <2>5, <2>8 DEF TasksPlaced, PoolTypeOK
  <2>10. /\ \A n \in Nat \ {0} : WithAThread(n)' => n \in 1 .. submitted' /\ n \notin finished'
         /\ finished' \subseteq 1 .. submitted'
         /\ \A n \in 1 .. submitted' : Queued(n)' \/ WithAThread(n)' \/ n \in finished'
    BY <2>1, <2>4, <2>5 DEF TasksPlaced, PoolTypeOK
  <2>11. /\ \A t \in Threads : job'[t] # 0 <=> thread'[t] = "run"
         /\ \A t, u \in Threads : job'[t] = job'[u] /\ job'[t] # 0 => t = u
    BY <2>1, <2>2 DEF TasksPlaced
  <2> QED BY <2>7, <2>9, <2>10, <2>11 DEF TasksPlaced
<1> QED BY <1>1, <1>2

LEMMA PlacedInit == Init => TasksPlaced
BY DEF Init, TasksPlaced, Queued, WithAThread

LEMMA PlacedStep == PoolTypeOK /\ TasksPlaced /\ [Next]_poolVars => TasksPlaced'
<1> SUFFICES ASSUME PoolTypeOK, TasksPlaced, [Next]_poolVars PROVE TasksPlaced'
  OBVIOUS
<1>1. ASSUME NEW t \in Threads, FindJob(t) PROVE TasksPlaced'
  <2>1. CASE TakeJob(t)
    BY <1>1, <2>1, TasksTaken DEF FindJob
  <2>2. CASE ~TakeJob(t)
    BY <1>1, <2>2, TasksStay DEF FindJob, Goto, PoolTypeOK
  <2> QED BY <2>1, <2>2
<1>2. ASSUME NEW t \in Threads, Woken(t) PROVE TasksPlaced'
  BY <1>2, TasksTaken DEF Woken
<1>3. ASSUME NEW t \in Threads, RunTask(t) PROVE TasksPlaced'
  BY <1>3, TaskRun
<1>4. ASSUME NEW t \in Threads, NotifyThreadAvailable(t) \/ CheckStopped(t) PROVE TasksPlaced'
  BY <1>4, TasksStay DEF NotifyThreadAvailable, CheckStopped, Goto, PoolTypeOK
<1>5. CASE Submit
  BY <1>5, TaskSubmitted
<1>6. CASE Call \/ BeginStop \/ Drain \/ SetStopped \/ JoinAll
  BY <1>6, TasksStay DEF Call, BeginStop, Drain, SetStopped, JoinAll
<1>7. CASE NotifyStopped
  BY <1>7, TasksStay DEF NotifyStopped, NotifyThreadNeeded
<1>8. CASE SpuriousWakeup
  BY <1>8, TasksStay DEF SpuriousWakeup, Goto, PoolTypeOK
<1>9. CASE UNCHANGED poolVars
  BY <1>9, TasksStay DEF poolVars
<1> QED BY <1>1, <1>2, <1>3, <1>4, <1>5, <1>6, <1>7, <1>8, <1>9 DEF Next, Execute, Client

LEMMA PlacedAlways == Spec => []TasksPlaced
BY PlacedInit, PlacedStep, TypeCorrect, PTL DEF Spec

LEMMA CountedOnce ==
  ASSUME NEW S, NEW P \in SUBSET S, \A x, y \in P : x = y
  PROVE  Cardinality(P) = IF P = {} THEN 0 ELSE 1
<1>1. CASE P = {}
  BY <1>1, FS_EmptySet
<1>2. CASE P # {}
  <2>1. PICK x : P = {x}
    BY <1>2
  <2> QED BY <2>1, FS_Singleton
<1> QED BY <1>1, <1>2

LEMMA PlacedOnce == PoolTypeOK /\ TasksPlaced => EveryJobInOnePlace
<1> SUFFICES ASSUME PoolTypeOK, TasksPlaced PROVE EveryJobInOnePlace
  OBVIOUS
<1>1. \A i, j \in DOMAIN tasks : i < j => tasks[i] < tasks[j]
  BY DEF TasksPlaced
<1>2. ASSUME NEW n \in 1 .. submitted
      PROVE  Cardinality({t \in Threads : job[t] = n})
               + Cardinality({i \in DOMAIN tasks : tasks[i] = n})
               + (IF n \in finished THEN 1 ELSE 0) = 1
  <2> DEFINE A == {t \in Threads : job[t] = n}
             B == {i \in DOMAIN tasks : tasks[i] = n}
  <2>1. n \in Nat \ {0}
    BY DEF PoolTypeOK
  <2>2. /\ Queued(n) <=> B # {}
        /\ WithAThread(n) <=> A # {}
    BY DEF Queued, WithAThread
  <2>3. \A t, u \in A : t = u
    BY <2>1 DEF TasksPlaced
  <2>4. DOMAIN tasks = 1 .. Len(tasks) /\ Len(tasks) \in Nat
    BY LenProperties DEF PoolTypeOK
  <2>5. \A i, j \in B : i = j
    BY <1>1, <2>1, <2>4
  <2>6. Cardinality(A) = IF A = {} THEN 0 ELSE 1
    BY <2>3, CountedOnce
  <2>7. Cardinality(B) = IF B = {} THEN 0 ELSE 1
    BY <2>5, CountedOnce
  <2>8. /\ Queued(n) => ~WithAThread(n) /\ n \notin finished
        /\ WithAThread(n) => n \notin finished
        /\ Queued(n) \/ WithAThread(n) \/ n \in finished
    BY <2>1 DEF TasksPlaced
  <2> HIDE DEF A, B
  <2>9. Cardinality(A) + Cardinality(B) + (IF n \in finished THEN 1 ELSE 0) = 1
    BY <2>2, <2>6, <2>7, <2>8
  <2> QED BY <2>9 DEF A, B
<1> QED BY <1>1, <1>2 DEF EveryJobInOnePlace

\* A task that was submitted is queued once, with one thread, or has been run, and never two of
\* these: moses::ThreadPool neither loses a task nor runs one twice.
THEOREM TasksInOnePlace == Spec => []EveryJobInOnePlace
BY PlacedOnce, TypeCorrect, PlacedAlways, PTL
-----------------------------------------------------------------------------
LEMMA ProgressInit == Init => Progress
BY ThreadPoolAssumption DEF Init, Progress, Submitting

\* A thread that has left Execute does not come back, and only Submit adds to the queue.
LEMMA PoolShrinks ==
  ASSUME PoolTypeOK, NEW t \in Threads, Execute(t)
  PROVE  /\ tasks = <<>> => tasks' = <<>>
         /\ \A u \in Threads : thread[u] = "exit" => thread'[u] = "exit"
BY DEF PoolTypeOK, Execute, FindJob, Woken, TakeJob, RunTask, NotifyThreadAvailable, CheckStopped,
       Goto

LEMMA ProgressStep ==
  ASSUME ProcessRemainingJobs, PoolTypeOK, Progress, [Next]_poolVars
  PROVE  Progress'
<1> USE ThreadPoolAssumption DEF Progress, Submitting
<1>1. ASSUME NEW t \in Threads, Execute(t) PROVE Progress'
  <2>1. /\ UNCHANGED <<stopped, submitted>>
        /\ \/ client' = client
           \/ client = "submitWait" /\ client' = "submitLoop"
           \/ client = "drainWait" /\ client' = "drain"
    BY <1>1 DEF Execute, FindJob, Woken, TakeJob, RunTask, NotifyThreadAvailable, CheckStopped
  <2> QED BY <1>1, <2>1, PoolShrinks
<1>2. CASE Call
  BY <1>2 DEF Call, PoolTypeOK
<1>3. CASE Submit
  BY <1>3 DEF Submit, NotifyThreadNeeded, PoolTypeOK
<1>4. CASE BeginStop
  BY <1>4 DEF BeginStop
<1>5. CASE Drain
  BY <1>5 DEF Drain
<1>6. CASE SetStopped
  BY <1>6 DEF SetStopped
<1>7. CASE NotifyStopped
  BY <1>7 DEF NotifyStopped, NotifyThreadNeeded
<1>8. CASE JoinAll
  BY <1>8 DEF JoinAll
<1>9. CASE SpuriousWakeup
  BY <1>9 DEF SpuriousWakeup, Goto, PoolTypeOK
<1>10. CASE UNCHANGED poolVars
  BY <1>10 DEF poolVars
<1> QED BY <1>1, <1>2, <1>3, <1>4, <1>5, <1>6, <1>7, <1>8, <1>9, <1>10 DEF Next, Client

LEMMA AllRunAtTheEnd == PoolTypeOK /\ TasksPlaced /\ Progress => AllRunWhenStopped
<1> SUFFICES ASSUME PoolTypeOK, TasksPlaced, Progress, client = "done" PROVE
               finished = Jobs /\ \A t \in Threads : thread[t] = "exit"
  BY DEF AllRunWhenStopped
<1>1. /\ \A t \in Threads : thread[t] = "exit"
      /\ tasks = <<>> /\ submitted = NumTasks
  BY DEF Progress, Submitting
<1>2. \A n \in 1 .. submitted : ~Queued(n)
  BY <1>1 DEF Queued
<1>3. \A n \in 1 .. submitted : ~WithAThread(n)
  BY <1>1 DEF WithAThread, TasksPlaced, PoolTypeOK
<1>4. finished = 1 .. submitted
  BY <1>2, <1>3 DEF TasksPlaced
<1> QED BY <1>1, <1>4 DEF Jobs

\* When the client of Stop(true) is done, every task it submitted has been run and every thread
\* has left: "wait until all queued jobs have completed" (moses/ThreadPool.h).
THEOREM StopCompletes == ProcessRemainingJobs => (Spec => []AllRunWhenStopped)
<1> SUFFICES ASSUME ProcessRemainingJobs PROVE Spec => []AllRunWhenStopped
  OBVIOUS
<1>1. PoolTypeOK /\ Progress /\ [Next]_poolVars => Progress'
  BY ProgressStep
<1> QED BY <1>1, AllRunAtTheEnd, ProgressInit, TypeCorrect, PlacedAlways, PTL DEF Spec
=============================================================================
