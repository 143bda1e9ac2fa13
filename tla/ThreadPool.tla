------------------------------ MODULE ThreadPool ------------------------------
(***************************************************************************)
(* The classes Thread and ThreadPool of src/ThreadPool.cpp: a fixed array  *)
(* of threads, each with its own list of tasks guarded by its own mutex,   *)
(* fed by client threads and started, stopped and destroyed by the owner   *)
(* of the pool.                                                            *)
(*                                                                         *)
(* A critical section on mMutexTasks is one step: the mutex guards every   *)
(* access to mTasks, and the only other variable read inside a section,    *)
(* the atomic mRunning, is read there once.  Everything between two        *)
(* critical sections is interleaved.  The mutex is recursive, so HasWork   *)
(* calling TaskCount under it does not block.                              *)
(*                                                                         *)
(* stamp, prio, clock and finished are history variables: they record      *)
(* when and with which priority a task entered a list and how often its    *)
(* callback returned, and no step reads them except to tell a fresh task.  *)
(*                                                                         *)
(* An operator whose comment begins with "Mutated" is no part of the       *)
(* model: it is the next definition with a plausible bug, kept to show     *)
(* that a property would notice it.                                        *)
(***************************************************************************)
EXTENDS Integers, Sequences, SequencesExt

CONSTANTS ThreadsCount,  (* aThreadsCount, the length of mThreads          *)
          Clients,       (* the threads that call ThreadPool::Add          *)
          Tasks,         (* the tasks they add, each of them once          *)
          Throwing,      (* the tasks whose work or callback may throw     *)
          NoTask         (* no task                                        *)

ASSUME PoolAssumption ==
  /\ ThreadsCount \in 1 .. 255
  /\ Throwing \subseteq Tasks
  /\ NoTask \notin Tasks

VARIABLES mTasks,        (* Thread::mTasks of each thread                  *)
          mRunning,      (* Thread::mRunning of each thread                *)
          run,           (* where each thread is in Thread::Run; "none"    *)
                         (* when its mThread is not joinable               *)
          task,          (* the local variable task of Run                 *)
          calls,         (* the call of ThreadPool::Add each client is in  *)
          owner,         (* the call of Start, Stop or the destructor the  *)
                         (* owner of the pool is in                        *)
          terminated,    (* std::terminate ended the process               *)
          stamp,         (* when each task was enqueued, 0: not yet        *)
          prio,          (* with which priority                            *)
          clock,         (* the stamp of the next task                     *)
          finished       (* how often each task's callback returned        *)

codeVars == <<mTasks, mRunning, run, task, calls, owner, terminated>>
history  == <<stamp, prio, clock, finished>>
vars     == <<codeVars, history>>

Threads  == 1 .. ThreadsCount
Priority == {"LOW", "MEDIUM", "HIGH"}

RunLabels == {"none", "check", "wait", "lock", "work", "callback", "returned"}
OwnerOps  == {"construct", "idle", "start", "stop", "destroy", "gone"}

(* A call of Add with threadIndex 0: the locals index and i of             *)
(* ChooseThread, and the first of the two TaskCount() a comparison needs   *)
(* (the language does not say which operand is evaluated first):           *)
(* counted is the thread it is of, 0 when there is none yet.               *)
Call == [task : Tasks \cup {NoTask}, priority : Priority,
         index : Threads, i : 1 .. ThreadsCount + 1,
         counted : 0 .. ThreadsCount, count : Nat]

Choice(t, p, index, i, counted, count) ==
  [task |-> t, priority |-> p, index |-> index, i |-> i,
   counted |-> counted, count |-> count]

NoCall      == Choice(NoTask, "LOW", 1, 1, 0, 0)
Choosing(c) == calls[c].task # NoTask

(* The owner enters a loop over mThreads.                                  *)
At(op) == [op |-> op, at |-> 1, joining |-> FALSE]

TypeOK ==
  /\ mTasks \in [Threads -> Seq(Tasks)]
  /\ mRunning \in [Threads -> BOOLEAN]
  /\ run \in [Threads -> RunLabels]
  /\ task \in [Threads -> Tasks \cup {NoTask}]
  /\ calls \in [Clients -> Call]
  /\ owner \in [op : OwnerOps, at : 1 .. ThreadsCount + 1, joining : BOOLEAN]
  /\ terminated \in BOOLEAN
  /\ stamp \in [Tasks -> Nat]
  /\ prio \in [Tasks -> Priority]
  /\ clock \in Nat \ {0}
  /\ finished \in [Tasks -> Nat]

(* ThreadPool(aStart, aThreadsCount): with aStart the constructor runs     *)
(* Start before it returns, and nobody has the pool until then.            *)
Init ==
  /\ mTasks = [i \in Threads |-> <<>>]
  /\ mRunning = [i \in Threads |-> FALSE]
  /\ run = [i \in Threads |-> "none"]
  /\ task = [i \in Threads |-> NoTask]
  /\ calls = [c \in Clients |-> NoCall]
  /\ owner \in {At("idle"), At("construct")}
  /\ terminated = FALSE
  /\ stamp = [t \in Tasks |-> 0]
  /\ prio = [t \in Tasks |-> "LOW"]
  /\ clock = 1
  /\ finished = [t \in Tasks |-> 0]

-----------------------------------------------------------------------------
(***************************************************************************)
(* Adding a task.                                                          *)
(***************************************************************************)

TaskCount(i) == Len(mTasks[i])

(* Mutated: the last task of a list is no work.                            *)
HasMoreWork(i) == TaskCount(i) > 1

HasWork(i) == TaskCount(i) > 0

(* Mutated: LOW before the last task.                                      *)
PositionBeforeLast(p, size) ==
  CASE p = "LOW"    -> IF size = 0 THEN 1 ELSE size
    [] p = "MEDIUM" -> size \div 2 + 1
    [] p = "HIGH"   -> 1

(* Where Thread::Add places a task in a list of the given size, from 1.    *)
Position(p, size) ==
  CASE p = "LOW"    -> size + 1
    [] p = "MEDIUM" -> size \div 2 + 1
    [] p = "HIGH"   -> 1

(* Mutated: a HIGH task is put last and swapped with the first one.        *)
EnqueueSwapped(i, t, p) ==
  LET size == TaskCount(i)
      Swapped(s) == [n \in 1 .. size + 1 |->
        IF n = 1 THEN t ELSE IF n = size + 1 THEN s[1] ELSE s[n]]
  IN
  /\ mTasks' = [mTasks EXCEPT ![i] =
       IF p = "HIGH" THEN Swapped(@) ELSE InsertAt(@, Position(p, size), t)]
  /\ stamp' = [stamp EXCEPT ![t] = clock]
  /\ prio' = [prio EXCEPT ![t] = p]
  /\ clock' = clock + 1
  /\ UNCHANGED finished

(* Thread::Add of thread i, under its mutex.                               *)
Enqueue(i, t, p) ==
  /\ mTasks' = [mTasks EXCEPT ![i] = InsertAt(@, Position(p, TaskCount(i)), t)]
  /\ stamp' = [stamp EXCEPT ![t] = clock]
  /\ prio' = [prio EXCEPT ![t] = p]
  /\ clock' = clock + 1
  /\ UNCHANGED finished

(* Whoever owns the pool hands it out after its construction and destroys  *)
(* it after every other call of it has returned.                           *)
PoolAlive == ~terminated /\ owner.op \notin {"construct", "destroy", "gone"}

Fresh(t) == stamp[t] = 0 /\ \A c \in Clients : calls[c].task # t

(* ThreadPool::Add with a threadIndex from 1 to mThreads.size().  A call   *)
(* with a larger one returns false and changes nothing.                    *)
AddTo(c) ==
  /\ PoolAlive
  /\ ~Choosing(c)
  /\ \E t \in Tasks, p \in Priority, threadIndex \in Threads :
       /\ Fresh(t)
       /\ Enqueue(threadIndex, t, p)
  /\ UNCHANGED <<mRunning, run, task, calls, owner, terminated>>

(* ThreadPool::Add with threadIndex 0 enters ChooseThread.                 *)
ChooseBegin(c) ==
  /\ PoolAlive
  /\ ~Choosing(c)
  /\ \E t \in Tasks, p \in Priority :
       /\ Fresh(t)
       /\ calls' = [calls EXCEPT ![c] = Choice(t, p, 1, 2, 0, 0)]
  /\ UNCHANGED <<mTasks, mRunning, run, task, owner, terminated, history>>

(* The first TaskCount() of the comparison of index and i.                 *)
CountFirst(c) ==
  LET call == calls[c] IN
  /\ ~terminated
  /\ Choosing(c)
  /\ call.i \in Threads
  /\ call.counted = 0
  /\ \E j \in {call.index, call.i} :
       calls' = [calls EXCEPT ![c] =
         Choice(call.task, call.priority, call.index, call.i, j, TaskCount(j))]
  /\ UNCHANGED <<mTasks, mRunning, run, task, owner, terminated, history>>

(* Both counts are known: the thread with fewer tasks, index if equal.     *)
CountOf(call, j) == IF call.counted = j THEN call.count ELSE TaskCount(j)

(* Mutated: i has moved on before it is assigned to index.                 *)
FewerPastEnd(call) ==
  IF CountOf(call, call.index) > CountOf(call, call.i) THEN call.i + 1 ELSE call.index

(* Mutated: the comparison is the wrong way round.                         *)
FewerFlipped(call) ==
  IF CountOf(call, call.index) < CountOf(call, call.i) THEN call.i ELSE call.index

Fewer(call) ==
  IF CountOf(call, call.index) > CountOf(call, call.i) THEN call.i ELSE call.index

(* The second TaskCount(); then index follows the shorter list and i moves *)
(* on.                                                                     *)
CountSecond(c) ==
  LET call == calls[c] IN
  /\ ~terminated
  /\ Choosing(c)
  /\ call.counted # 0
  /\ calls' = [calls EXCEPT ![c] =
       Choice(call.task, call.priority, Fewer(call), call.i + 1, 0, 0)]
  /\ UNCHANGED <<mTasks, mRunning, run, task, owner, terminated, history>>

(* ChooseThread returned; the task goes to the thread it chose.            *)
AddChosen(c) ==
  /\ ~terminated
  /\ Choosing(c)
  /\ calls[c].i = ThreadsCount + 1
  /\ Enqueue(calls[c].index, calls[c].task, calls[c].priority)
  /\ calls' = [calls EXCEPT ![c] = NoCall]
  /\ UNCHANGED <<mRunning, run, task, owner, terminated>>

-----------------------------------------------------------------------------
(***************************************************************************)
(* Thread::Run of thread i.                                                *)
(***************************************************************************)

Goto(i, from, to) ==
  /\ ~terminated
  /\ run[i] = from
  /\ run' = [run EXCEPT ![i] = to]

(* while (mRunning) *)
RunCheck(i) ==
  /\ Goto(i, "check", IF mRunning[i] THEN "wait" ELSE "returned")
  /\ UNCHANGED <<mTasks, mRunning, task, calls, owner, terminated, history>>

(* Mutated: while (!HasWork()) sleeps.                                     *)
RunWaitForWork(i) ==
  /\ HasWork(i)
  /\ Goto(i, "wait", "lock")
  /\ UNCHANGED <<mTasks, mRunning, task, calls, owner, terminated, history>>

(* while (mRunning && !HasWork()) sleeps: the round that ends the loop.    *)
RunWait(i) ==
  /\ ~mRunning[i] \/ HasWork(i)
  /\ Goto(i, "wait", "lock")
  /\ UNCHANGED <<mTasks, mRunning, task, calls, owner, terminated, history>>

(* Checked again under the mutex: nothing to do.                           *)
RunRetry(i) ==
  /\ ~mRunning[i] \/ ~HasWork(i)
  /\ Goto(i, "lock", "check")
  /\ UNCHANGED <<mTasks, mRunning, task, calls, owner, terminated, history>>

(* Mutated: without pop_front.                                             *)
RunTakeCopy(i) ==
  /\ mRunning[i] /\ HasWork(i)
  /\ Goto(i, "lock", "work")
  /\ task' = [task EXCEPT ![i] = Head(mTasks[i])]
  /\ UNCHANGED <<mTasks, mRunning, calls, owner, terminated, history>>

(* Checked again under the mutex: the first task leaves the list.          *)
RunTake(i) ==
  /\ mRunning[i] /\ HasWork(i)
  /\ Goto(i, "lock", "work")
  /\ task' = [task EXCEPT ![i] = Head(mTasks[i])]
  /\ mTasks' = [mTasks EXCEPT ![i] = Tail(@)]
  /\ UNCHANGED <<mRunning, calls, owner, terminated, history>>

(* Mutated: the callback is not called.                                    *)
RunWorkOnly(i) ==
  /\ Goto(i, "work", "check")
  /\ task' = [task EXCEPT ![i] = NoTask]
  /\ finished' = [finished EXCEPT ![task[i]] = @ + 1]
  /\ UNCHANGED <<mTasks, mRunning, calls, owner, terminated, stamp, prio, clock>>

(* task.work returned a result for the callback.                           *)
RunWork(i) ==
  /\ Goto(i, "work", "callback")
  /\ UNCHANGED <<mTasks, mRunning, task, calls, owner, terminated, history>>

(* task.callback returned; task goes out of scope.                         *)
RunCallback(i) ==
  /\ Goto(i, "callback", "check")
  /\ task' = [task EXCEPT ![i] = NoTask]
  /\ finished' = [finished EXCEPT ![task[i]] = @ + 1]
  /\ UNCHANGED <<mTasks, mRunning, calls, owner, terminated, stamp, prio, clock>>

(* Nothing in Run catches what the work or the callback throws.            *)
RunThrow(i) ==
  /\ ~terminated
  /\ run[i] \in {"work", "callback"}
  /\ task[i] \in Throwing
  /\ terminated' = TRUE
  /\ UNCHANGED <<mTasks, mRunning, run, task, calls, owner, history>>

-----------------------------------------------------------------------------
(***************************************************************************)
(* Start, Stop and the destructor, each a loop over mThreads.              *)
(***************************************************************************)

OwnerCalls(op) ==
  /\ ~terminated
  /\ owner.op = "idle"
  /\ op = "destroy" => \A c \in Clients : ~Choosing(c)
  /\ owner' = At(op)
  /\ UNCHANGED <<mTasks, mRunning, run, task, calls, terminated, history>>

(* Thread::Start.  Assigning to an mThread that is still joinable ends     *)
(* the process.                                                            *)
StartThread ==
  /\ ~terminated
  /\ owner.op \in {"construct", "start"}
  /\ owner.at \in Threads
  /\ mRunning' = [mRunning EXCEPT ![owner.at] = TRUE]
  /\ IF run[owner.at] = "none"
       THEN /\ run' = [run EXCEPT ![owner.at] = "check"]
            /\ owner' = [owner EXCEPT !.at = @ + 1]
            /\ UNCHANGED terminated
       ELSE /\ terminated' = TRUE
            /\ UNCHANGED <<run, owner>>
  /\ UNCHANGED <<mTasks, task, calls, history>>

(* Mutated: Stop clears the pending tasks too.                             *)
StopThreadClears ==
  /\ ~terminated
  /\ owner.op \in {"stop", "destroy"}
  /\ owner.at \in Threads
  /\ ~owner.joining
  /\ mRunning' = [mRunning EXCEPT ![owner.at] = FALSE]
  /\ mTasks' = [mTasks EXCEPT ![owner.at] = <<>>]
  /\ owner' = [owner EXCEPT !.joining = TRUE]
  /\ UNCHANGED <<run, task, calls, terminated, history>>

(* Thread::Stop, the store to mRunning.                                    *)
StopThread ==
  /\ ~terminated
  /\ owner.op \in {"stop", "destroy"}
  /\ owner.at \in Threads
  /\ ~owner.joining
  /\ mRunning' = [mRunning EXCEPT ![owner.at] = FALSE]
  /\ owner' = [owner EXCEPT !.joining = TRUE]
  /\ UNCHANGED <<mTasks, run, task, calls, terminated, history>>

(* Mutated: the thread is left to end on its own.                          *)
JoinThreadLater ==
  /\ ~terminated
  /\ owner.joining
  /\ owner' = [owner EXCEPT !.at = @ + 1, !.joining = FALSE]
  /\ UNCHANGED <<mTasks, mRunning, run, task, calls, terminated, history>>

(* Thread::Stop, the join of a joinable mThread.                           *)
JoinThread ==
  /\ ~terminated
  /\ owner.joining
  /\ run[owner.at] \in {"none", "returned"}
  /\ run' = [run EXCEPT ![owner.at] = "none"]
  /\ owner' = [owner EXCEPT !.at = @ + 1, !.joining = FALSE]
  /\ UNCHANGED <<mTasks, mRunning, task, calls, terminated, history>>

(* The loop is over.                                                       *)
OwnerReturns ==
  /\ ~terminated
  /\ owner.op \in {"construct", "start", "stop"}
  /\ owner.at = ThreadsCount + 1
  /\ owner' = At("idle")
  /\ UNCHANGED <<mTasks, mRunning, run, task, calls, terminated, history>>

(* ~ThreadPool has stopped every thread; the members are destroyed: each   *)
(* ~Thread stops a thread that is no longer joinable, then its list goes.  *)
Destroyed ==
  /\ ~terminated
  /\ owner.op = "destroy"
  /\ owner.at = ThreadsCount + 1
  /\ owner' = At("gone")
  /\ mRunning' = [i \in Threads |-> FALSE]
  /\ mTasks' = [i \in Threads |-> <<>>]
  /\ UNCHANGED <<run, task, calls, terminated, history>>

(* The pool or the process has ended.                                      *)
Over ==
  /\ terminated \/ owner.op = "gone"
  /\ UNCHANGED vars

-----------------------------------------------------------------------------

ClientStep(c) ==
  \/ AddTo(c)
  \/ ChooseBegin(c)
  \/ CountFirst(c)
  \/ CountSecond(c)
  \/ AddChosen(c)

RunStep(i) ==
  \/ RunCheck(i)
  \/ RunWait(i)
  \/ RunRetry(i)
  \/ RunTake(i)
  \/ RunWork(i)
  \/ RunCallback(i)
  \/ RunThrow(i)

OwnerStep ==
  \/ \E op \in {"start", "stop", "destroy"} : OwnerCalls(op)
  \/ StartThread
  \/ StopThread
  \/ JoinThread
  \/ OwnerReturns
  \/ Destroyed

Next ==
  \/ \E c \in Clients : ClientStep(c)
  \/ \E i \in Threads : RunStep(i)
  \/ OwnerStep
  \/ Over

Spec == Init /\ [][Next]_vars

(* Scheduling: a thread that can take a step takes one sooner or later,    *)
(* which includes that the work and the callback of a task return.  Only   *)
(* the decisions to add a task, to call Start, Stop or the destructor are  *)
(* left to the program that uses the pool.                                 *)
Fairness ==
  /\ \A i \in Threads : WF_vars(RunStep(i))
  /\ \A c \in Clients : WF_vars(CountFirst(c) \/ CountSecond(c) \/ AddChosen(c))
  /\ WF_vars(StartThread \/ StopThread \/ JoinThread \/ OwnerReturns \/ Destroyed)

FairSpec == Spec /\ Fairness

-----------------------------------------------------------------------------
(***************************************************************************)
(* Safety.                                                                 *)
(***************************************************************************)

Queued(i)  == Range(mTasks[i])
Holding(i) == run[i] \in {"work", "callback"}

(* No task is lost between two lists, performed by two threads, or put     *)
(* back once it was taken: a task that was added is in one list, once, or  *)
(* with one thread, or finished, and a thread holds a task exactly while   *)
(* it works on it (emplace, front, pop_front and the move of Run).         *)
TaskInOnePlace ==
  /\ \A i \in Threads :
       /\ Holding(i) <=> task[i] # NoTask
       /\ IsInjective(mTasks[i])
       /\ \A t \in Queued(i) \cup ({task[i]} \ {NoTask}) : stamp[t] > 0 /\ finished[t] = 0
       /\ task[i] \notin Queued(i)
  /\ \A i, j \in Threads : i # j =>
       /\ Queued(i) \cap Queued(j) = {}
       /\ task[i] \notin Queued(j)
       /\ Holding(i) => task[i] # task[j]
  /\ \A t \in Tasks : finished[t] <= 1

(* What was accepted is not forgotten while the pool exists: it waits in   *)
(* a list, a thread has it, or its callback has returned.  In particular   *)
(* Stop leaves the pending tasks for a later Start.                        *)
NothingLost ==
  owner.op # "gone" =>
    \A t \in Tasks : stamp[t] > 0 =>
      \/ finished[t] = 1
      \/ \E i \in Threads : t \in Queued(i) \/ task[i] = t

(* A LOW task waits behind everything that was there before it, and a HIGH *)
(* one ahead of it, wherever MEDIUM tasks are put: so LOW tasks leave in   *)
(* the order they came, HIGH tasks the last one first, and no LOW task     *)
(* before a HIGH one.  A MEDIUM task may be ahead of a HIGH one only if it *)
(* came later (Thread::Add).                                               *)
PriorityOrder ==
  \A i \in Threads : \A a, b \in DOMAIN mTasks[i] :
    LET s == mTasks[i][a]
        t == mTasks[i][b]
    IN a < b =>
         /\ prio[s] = "LOW"  => stamp[s] < stamp[t]
         /\ prio[t] = "HIGH" => stamp[s] > stamp[t]

(* Between two calls of the owner the pool is either started on every      *)
(* thread, none of which left Run, or stopped: then, after Stop and the    *)
(* destructor too, no thread of it is alive and no task is performed.      *)
StartedOrQuiet ==
  owner.op \in {"idle", "gone"} =>
    \/ \A i \in Threads : mRunning[i] /\ run[i] \notin {"none", "returned"}
    \/ \A i \in Threads : ~mRunning[i] /\ run[i] = "none" /\ task[i] = NoTask

Before(q, s, t) == \E a, b \in DOMAIN q : a < b /\ q[a] = s /\ q[b] = t

(* A task that waits for its turn never overtakes another one of its list: *)
(* only insertions and removals at the front change a list.                *)
NoOvertaking ==
  [][\A i \in Threads : \A s, t \in Queued(i) :
       (s \in Range(mTasks'[i]) /\ t \in Range(mTasks'[i])) =>
         (Before(mTasks[i], s, t) <=> Before(mTasks'[i], s, t))]_vars

-----------------------------------------------------------------------------
(***************************************************************************)
(* Liveness.                                                               *)
(***************************************************************************)

(* Stop and the destructor return, whatever the threads were doing, with   *)
(* or without tasks pending (no wait for work outlives mRunning), unless   *)
(* what a task throws ends the process first.                              *)
StopReturns ==
  owner.op \in {"stop", "destroy"} ~> owner.op \in {"idle", "gone"} \/ terminated

(* A pool that is started and then left running performs every task it     *)
(* was given, those that were pending from before an earlier Stop too.     *)
Started == ~terminated /\ owner.op = "idle" /\ \A i \in Threads : mRunning[i]

EveryTaskPerformed ==
  <>[]Started => \A t \in Tasks : (stamp[t] > 0 ~> finished[t] = 1)

-----------------------------------------------------------------------------
(***************************************************************************)
(* The pool implements the life cycle of its tasks.                        *)
(***************************************************************************)

PhaseOf(t) ==
  IF finished[t] > 0 THEN "done"
  ELSE IF \E i \in Threads : task[i] = t /\ run[i] = "callback" THEN "worked"
  ELSE IF \E i \in Threads : task[i] = t THEN "working"
  ELSE IF \E i \in Threads : t \in Queued(i) THEN "queued"
  ELSE IF stamp[t] > 0 THEN "dropped"
  ELSE "new"

Lifecycle == INSTANCE TaskLifecycle WITH
               Capacity <- ThreadsCount,
               phase <- [t \in Tasks |-> PhaseOf(t)],
               open <- owner.op # "gone"

(* Every task the pool accepts goes through work and callback once, in     *)
(* that order, at most ThreadsCount tasks at a time, and is given up only  *)
(* by the destructor, when no thread is performing anything.               *)
ImplementsLifecycle == Lifecycle!LifecycleSpec

=============================================================================
