------------------------------ MODULE ThreadPool ------------------------------
(***************************************************************************)
(* moses/ThreadPool.{h,cpp}: threads that run the tasks one client gives   *)
(* them.  The client is what every program of the repository is that uses  *)
(* the pool: one thread that submits its tasks, calls Stop, and destroys   *)
(* the pool.  A task is known by its number.                               *)
(*                                                                         *)
(* A step is a stretch of code under m_mutex, or one between two such      *)
(* stretches.  A thread that waits for a condition is woken by notify_all, *)
(* or spuriously, and goes on when it has m_mutex again.                   *)
(***************************************************************************)
EXTENDS Integers, Sequences, FiniteSets

CONSTANTS
  Threads,              \* the threads of the pool
  NumTasks,             \* how many tasks the client has
  QueueLimits,          \* what m_queueLimit may be, 0 for none
  ProcessRemainingJobs  \* the argument of the client's Stop

ASSUME ThreadPoolAssumption ==
  /\ IsFiniteSet(Threads) /\ Threads # {}
  /\ NumTasks \in Nat /\ QueueLimits \subseteq Nat
  /\ ProcessRemainingJobs \in BOOLEAN

VARIABLES
  queueLimit, \* m_queueLimit
  tasks,      \* m_tasks
  stopping,   \* m_stopping
  stopped,    \* m_stopped
  thread,     \* where each thread is in Execute
  job,        \* the task each thread has taken, 0 for NULL
  client,     \* where the client is
  submitted,  \* how many tasks it has submitted
  finished    \* the tasks that have been run

poolVars == <<queueLimit, tasks, stopping, stopped, thread, job, client, submitted, finished>>

Init ==
  /\ queueLimit \in QueueLimits
  /\ tasks = <<>>
  /\ stopping = FALSE /\ stopped = FALSE
  /\ thread = [t \in Threads |-> "lock"]
  /\ job = [t \in Threads |-> 0]
  /\ client = "call"
  /\ submitted = 0
  /\ finished = {}

Goto(t, place) == thread' = [thread EXCEPT ![t] = place]

\* m_threadNeeded.notify_all(): every thread that waits is woken.
NotifyThreadNeeded ==
  thread' = [t \in Threads |-> IF thread[t] = "wait" THEN "woken" ELSE thread[t]]

-----------------------------------------------------------------------------
(***************************************************************************)
(* Execute.                                                                *)
(***************************************************************************)

\* Mutant: the task is left in the queue.
TakeJobWithoutPop(t) ==
  IF ~stopped /\ tasks # <<>>
  THEN /\ job' = [job EXCEPT ![t] = Head(tasks)]
       /\ UNCHANGED tasks
       /\ Goto(t, "run")
  ELSE Goto(t, "notify") /\ UNCHANGED <<tasks, job>>

TakeJob(t) ==
  IF ~stopped /\ tasks # <<>>
  THEN /\ job' = [job EXCEPT ![t] = Head(tasks)]
       /\ tasks' = Tail(tasks)
       /\ Goto(t, "run")
  ELSE Goto(t, "notify") /\ UNCHANGED <<tasks, job>>

\* "Find a job to perform": the thread waits if there is none ...
FindJob(t) ==
  /\ thread[t] = "lock"
  /\ IF tasks = <<>> /\ ~stopped
     THEN Goto(t, "wait") /\ UNCHANGED <<tasks, job>>
     ELSE TakeJob(t)
  /\ UNCHANGED <<queueLimit, stopping, stopped, client, submitted, finished>>

\* ... and does not look whether to wait again when it is woken.
Woken(t) ==
  /\ thread[t] = "woken"
  /\ TakeJob(t)
  /\ UNCHANGED <<queueLimit, stopping, stopped, client, submitted, finished>>

\* task->Run() ends, and the task is deleted.
RunTask(t) ==
  /\ thread[t] = "run"
  /\ finished' = finished \cup {job[t]}
  /\ job' = [job EXCEPT ![t] = 0]
  /\ Goto(t, "notify")
  /\ UNCHANGED <<queueLimit, tasks, stopping, stopped, client, submitted>>

\* Mutant: nobody is told.
NotifyThreadAvailableForgotten(t) ==
  /\ thread[t] = "notify"
  /\ Goto(t, "check")
  /\ UNCHANGED <<queueLimit, tasks, stopping, stopped, job, client, submitted, finished>>

\* m_threadAvailable.notify_all(), where the client may be waiting.
NotifyThreadAvailable(t) ==
  /\ thread[t] = "notify"
  /\ Goto(t, "check")
  /\ client' = CASE client = "submitWait" -> "submitLoop"
                 [] client = "drainWait" -> "drain"
                 [] OTHER -> client
  /\ UNCHANGED <<queueLimit, tasks, stopping, stopped, job, submitted, finished>>

\* while (!m_stopped), without the lock.
CheckStopped(t) ==
  /\ thread[t] = "check"
  /\ Goto(t, IF stopped THEN "exit" ELSE "lock")
  /\ UNCHANGED <<queueLimit, tasks, stopping, stopped, job, client, submitted, finished>>

Execute(t) ==
  FindJob(t) \/ Woken(t) \/ RunTask(t) \/ NotifyThreadAvailable(t) \/ CheckStopped(t)

-----------------------------------------------------------------------------
(***************************************************************************)
(* The client: Submit and Stop.                                            *)
(***************************************************************************)

\* The client calls Submit for its next task, or Stop after the last one.
\* Submit throws if m_stopping is set, which this client never sees.
Call ==
  /\ client = "call"
  /\ client' = IF submitted < NumTasks THEN "submitLoop" ELSE "stop"
  /\ UNCHANGED <<queueLimit, tasks, stopping, stopped, thread, job, submitted, finished>>

\* A turn of the loop in Submit that waits for room in the queue, and after
\* it the push.
Submit ==
  /\ client = "submitLoop"
  /\ IF queueLimit > 0 /\ Len(tasks) >= queueLimit
     THEN client' = "submitWait" /\ UNCHANGED <<tasks, submitted, thread>>
     ELSE /\ tasks' = Append(tasks, submitted + 1)
          /\ submitted' = submitted + 1
          /\ NotifyThreadNeeded
          /\ client' = "call"
  /\ UNCHANGED <<queueLimit, stopping, stopped, job, finished>>

\* Mutant: the argument is not looked at.
BeginStopAtOnce ==
  /\ client = "stop"
  /\ IF stopped THEN client' = "done" /\ UNCHANGED stopping
     ELSE stopping' = TRUE /\ client' = "setStopped"
  /\ UNCHANGED <<queueLimit, tasks, stopped, thread, job, submitted, finished>>

\* "prevent more jobs from being added to the queue"; the Stop of the
\* destructor finds the pool stopped and returns.
BeginStop ==
  /\ client = "stop"
  /\ IF stopped THEN client' = "done" /\ UNCHANGED stopping
     ELSE /\ stopping' = TRUE
          /\ client' = IF ProcessRemainingJobs THEN "drain" ELSE "setStopped"
  /\ UNCHANGED <<queueLimit, tasks, stopped, thread, job, submitted, finished>>

\* "wait for queue to drain".
Drain ==
  /\ client = "drain"
  /\ client' = IF tasks # <<>> /\ ~stopped THEN "drainWait" ELSE "setStopped"
  /\ UNCHANGED <<queueLimit, tasks, stopping, stopped, thread, job, submitted, finished>>

\* "tell all threads to stop".
SetStopped ==
  /\ client = "setStopped"
  /\ stopped' = TRUE
  /\ client' = "notifyStopped"
  /\ UNCHANGED <<queueLimit, tasks, stopping, thread, job, submitted, finished>>

NotifyStopped ==
  /\ client = "notifyStopped"
  /\ NotifyThreadNeeded
  /\ client' = "join"
  /\ UNCHANGED <<queueLimit, tasks, stopping, stopped, job, submitted, finished>>

\* m_threads.join_all() returns; the destructor calls Stop once more.
JoinAll ==
  /\ client = "join"
  /\ \A t \in Threads : thread[t] = "exit"
  /\ client' = "stop"
  /\ UNCHANGED <<queueLimit, tasks, stopping, stopped, thread, job, submitted, finished>>

Client ==
  \/ Call \/ Submit
  \/ BeginStop \/ Drain \/ SetStopped \/ NotifyStopped \/ JoinAll

-----------------------------------------------------------------------------
\* A wait may return although nobody notified.
SpuriousWakeup ==
  \/ /\ \E t \in Threads : thread[t] = "wait" /\ Goto(t, "woken")
     /\ UNCHANGED client
     /\ UNCHANGED <<queueLimit, tasks, stopping, stopped, job, submitted, finished>>
  \/ /\ client \in {"submitWait", "drainWait"}
     /\ client' = IF client = "submitWait" THEN "submitLoop" ELSE "drain"
     /\ UNCHANGED <<queueLimit, tasks, stopping, stopped, thread, job, submitted, finished>>

Next == (\E t \in Threads : Execute(t)) \/ Client \/ SpuriousWakeup

\* Every thread gets on with what it can do, a task ends, and m_mutex is
\* given to whoever wants it; nothing is assumed of spurious wakeups.
PoolFairness == (\A t \in Threads : WF_poolVars(Execute(t))) /\ WF_poolVars(Client)

Spec == Init /\ [][Next]_poolVars /\ PoolFairness

-----------------------------------------------------------------------------
Jobs == 1 .. NumTasks

\* A task that was submitted is in one place: in the queue, once and in the
\* order of submission; with one thread; or run, hence deleted.
EveryJobInOnePlace ==
  /\ \A i, j \in DOMAIN tasks : i < j => tasks[i] < tasks[j]
  /\ \A n \in 1 .. submitted :
       Cardinality({t \in Threads : job[t] = n})
         + Cardinality({i \in DOMAIN tasks : tasks[i] = n})
         + (IF n \in finished THEN 1 ELSE 0) = 1

\* By its comment, Stop will "wait until all queued jobs have completed, and
\* shut down the ThreadPool": when it returns, every task has been run and
\* no thread is left.
AllRunWhenStopped ==
  client = "done" =>
    finished = Jobs /\ \A t \in Threads : thread[t] = "exit"

\* Neither Submit nor Stop waits forever, whatever the order in which the
\* threads get hold of the lock: no wakeup is lost.
ClientGetsThrough == <>(client = "done")
=============================================================================
