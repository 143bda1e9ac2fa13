------------------------- MODULE ThreadPoolTaskProofs -------------------------
(***************************************************************************)
(* Where the tasks of a ThreadPool are: proofs of TaskInOnePlace,          *)
(* NothingLost and PriorityOrder for any number of threads, clients and    *)
(* tasks.                                                                  *)
(***************************************************************************)
EXTENDS ThreadPoolProofs

(* What makes a task that is about to be added new: its stamp is 0, and no *)
(* two calls of ChooseThread are about the same task.                      *)
FreshOK ==
  /\ \A t \in Tasks : stamp[t] < clock /\ (finished[t] > 0 => stamp[t] > 0)
  /\ \A c \in Clients : Choosing(c) => stamp[calls[c].task] = 0
  /\ \A c, d \in Clients : c # d /\ Choosing(c) => calls[c].task # calls[d].task

PlaceInv == TypeInv /\ FreshOK /\ TaskInOnePlace

LEMMA InitPlaceInv == Init => PlaceInv
<1> SUFFICES ASSUME Init PROVE FreshOK /\ TaskInOnePlace
  BY InitTypeInv DEF PlaceInv
<1>1. \A c \in Clients : ~Choosing(c)
  BY NoCallType DEF Init, Choosing
<1>2. FreshOK
  BY <1>1 DEF Init, FreshOK
<1>3. \A i \in Threads : /\ Queued(i) = {} /\ IsInjective(mTasks[i])
                         /\ task[i] = NoTask /\ ~Holding(i)
  BY DEF Init, Queued, Range, IsInjective, Holding
<1>4. \A t \in Tasks : finished[t] = 0
  BY DEF Init
<1>5. TaskInOnePlace
  BY <1>3, <1>4 DEF TaskInOnePlace
<1>6. QED
  BY <1>2, <1>5

LEMMA QueuedTasks ==
  ASSUME TypeOK, NEW i \in Threads
  PROVE  Queued(i) \subseteq Tasks
  BY RangeOfSeq DEF Queued, TypeOK

(* A step that moves no task, adds none and ends none.                     *)
LEMMA UnmovedPlace ==
  ASSUME PlaceInv, UNCHANGED <<mTasks, task, stamp, finished>>,
         \A i \in Threads : Holding(i)' <=> Holding(i)
  PROVE  TaskInOnePlace'
  BY DEF PlaceInv, TaskInOnePlace, Queued

(* A new task enters one list.                                             *)
LEMMA EnqueuePlace ==
  ASSUME PlaceInv, NEW i \in Threads, NEW t \in Tasks, NEW p \in Priority,
         Enqueue(i, t, p), stamp[t] = 0, UNCHANGED <<run, task>>
  PROVE  TaskInOnePlace'
<1> USE DEF PlaceInv, TypeInv
<1>1. /\ mTasks[i] \in Seq(Tasks) /\ Len(mTasks[i]) \in Nat
      /\ Position(p, Len(mTasks[i])) \in 1 .. Len(mTasks[i]) + 1
  BY PositionInList DEF TypeOK
<1>2. \A j \in Threads : t \notin Queued(j) /\ t # task[j]
  BY PoolAssumption DEF TaskInOnePlace
<1>3. Range(mTasks'[i]) = Queued(i) \cup {t} /\ IsInjective(mTasks'[i])
  BY <1>1, <1>2, EnqueueType, InsertAtRange DEF Queued, TaskInOnePlace
<1>4. \A j \in Threads \ {i} : mTasks'[j] = mTasks[j]
  BY EnqueueType
<1>5. stamp'[t] > 0 /\ finished[t] = 0 /\ UNCHANGED finished
      /\ \A s \in Tasks \ {t} : stamp'[s] = stamp[s]
  BY DEF Enqueue, TypeOK, FreshOK
<1>6. /\ Queued(i)' = Queued(i) \cup {t}
      /\ \A j \in Threads \ {i} : Queued(j)' = Queued(j)
      /\ \A j \in Threads : Queued(j) \subseteq Tasks
  BY <1>3, <1>4, QueuedTasks DEF Queued
<1>7. \A j \in Threads : Holding(j)' <=> Holding(j)
  BY DEF Holding
<1>8. ASSUME NEW j \in Threads
      PROVE  /\ Holding(j)' <=> task'[j] # NoTask
             /\ IsInjective(mTasks'[j])
             /\ \A s \in Queued(j)' \cup ({task'[j]} \ {NoTask}) : stamp'[s] > 0 /\ finished'[s] = 0
             /\ task'[j] \notin Queued(j)'
  <2>1. Holding(j)' <=> task'[j] # NoTask
    BY <1>7 DEF TaskInOnePlace
  <2>2. IsInjective(mTasks'[j])
    BY <1>3, <1>4 DEF TaskInOnePlace
  <2>3. task'[j] \notin Queued(j)'
    BY <1>2, <1>6 DEF TaskInOnePlace
  <2>4. ASSUME NEW s \in Queued(j)' \cup ({task'[j]} \ {NoTask})
        PROVE  stamp'[s] > 0 /\ finished'[s] = 0
    <3>1. CASE s = t
      BY <1>5, <3>1
    <3>2. CASE s # t
      <4>1. s \in Queued(j) \cup ({task[j]} \ {NoTask})
        BY <1>6, <2>4, <3>2
      <4>2. task[j] \in Tasks \cup {NoTask} /\ Queued(j) \subseteq Tasks
        BY <1>6 DEF TypeOK
      <4>3. s \in Tasks \ {t}
        BY <3>2, <4>1, <4>2
      <4>4. QED
        BY <1>5, <4>1, <4>3 DEF TaskInOnePlace
    <3>3. QED
      BY <3>1, <3>2
  <2>5. QED
    BY <2>1, <2>2, <2>3, <2>4
<1>9. ASSUME NEW j \in Threads, NEW k \in Threads, j # k
      PROVE  /\ Queued(j)' \cap Queued(k)' = {}
             /\ task'[j] \notin Queued(k)'
             /\ Holding(j)' => task'[j] # task'[k]
  BY <1>2, <1>6, <1>7, <1>9 DEF TaskInOnePlace
<1>10. \A s \in Tasks : finished'[s] <= 1
  BY <1>5 DEF TaskInOnePlace
<1>11. QED
  BY <1>8, <1>9, <1>10 DEF TaskInOnePlace

(* The first task of a list goes to its thread.                            *)
LEMMA TakePlace ==
  ASSUME PlaceInv, NEW i \in Threads, RunTake(i)
  PROVE  TaskInOnePlace'
<1> USE DEF PlaceInv, TypeInv
<1>1. mTasks[i] \in Seq(Tasks) /\ Len(mTasks[i]) > 0
  BY DEF RunTake, HasWork, TaskCount, TypeOK
<1> DEFINE t == Head(mTasks[i])
<1>2. /\ t \in Tasks /\ t # NoTask
      /\ Queued(i) = Range(Tail(mTasks[i])) \cup {t}
      /\ IsInjective(Tail(mTasks[i])) /\ t \notin Range(Tail(mTasks[i]))
  <2>1. t \in Tasks /\ t # NoTask
    BY <1>1, TailProperties, PoolAssumption
  <2>2. IsInjective(mTasks[i])
    BY DEF TaskInOnePlace
  <2>3. QED
    BY <1>1, <2>1, <2>2, TailRange DEF Queued
<1>3. /\ task'[i] = t /\ mTasks'[i] = Tail(mTasks[i])
      /\ run[i] = "lock" /\ run'[i] = "work"
      /\ \A j \in Threads \ {i} : /\ task'[j] = task[j] /\ mTasks'[j] = mTasks[j]
                                  /\ run'[j] = run[j]
      /\ UNCHANGED <<stamp, finished>>
  BY DEF RunTake, Goto, TypeOK, history
<1> HIDE DEF t
<1>4. /\ Queued(i)' = Range(Tail(mTasks[i]))
      /\ \A j \in Threads \ {i} : Queued(j)' = Queued(j)
  BY <1>3 DEF Queued
<1>5. /\ Holding(i)' /\ ~Holding(i) /\ task[i] = NoTask
      /\ \A j \in Threads \ {i} : Holding(j)' <=> Holding(j)
  BY <1>3 DEF Holding, TaskInOnePlace
<1>6. \A j \in Threads \ {i} : t \notin Queued(j) /\ t # task[j]
  BY <1>2 DEF TaskInOnePlace
<1>7. ASSUME NEW j \in Threads
      PROVE  /\ Holding(j)' <=> task'[j] # NoTask
             /\ IsInjective(mTasks'[j])
             /\ \A s \in Queued(j)' \cup ({task'[j]} \ {NoTask}) : stamp'[s] > 0 /\ finished'[s] = 0
             /\ task'[j] \notin Queued(j)'
  <2>1. CASE j = i
    BY <1>2, <1>3, <1>4, <1>5, <2>1 DEF TaskInOnePlace
  <2>2. CASE j # i
    BY <1>3, <1>4, <1>5, <2>2 DEF TaskInOnePlace
  <2>3. QED
    BY <2>1, <2>2
<1>8. ASSUME NEW j \in Threads, NEW k \in Threads, j # k
      PROVE  /\ Queued(j)' \cap Queued(k)' = {}
             /\ task'[j] \notin Queued(k)'
             /\ Holding(j)' => task'[j] # task'[k]
  <2>1. CASE j = i
    BY <1>2, <1>3, <1>4, <1>6, <1>8, <2>1 DEF TaskInOnePlace
  <2>2. CASE k = i
    BY <1>2, <1>3, <1>4, <1>6, <1>8, <2>2 DEF TaskInOnePlace
  <2>3. CASE j # i /\ k # i
    BY <1>3, <1>4, <1>5, <1>8, <2>3 DEF TaskInOnePlace
  <2>4. QED
    BY <2>1, <2>2, <2>3
<1>9. \A s \in Tasks : finished'[s] <= 1
  BY <1>3 DEF TaskInOnePlace
<1>10. QED
  BY <1>7, <1>8, <1>9 DEF TaskInOnePlace

(* A task ends with its callback.                                          *)
LEMMA CallbackPlace ==
  ASSUME PlaceInv, NEW i \in Threads, RunCallback(i)
  PROVE  TaskInOnePlace'
<1> USE DEF PlaceInv, TypeInv
<1>1. Holding(i) /\ task[i] # NoTask /\ task[i] \in Tasks /\ finished[task[i]] = 0
  BY DEF RunCallback, Goto, Holding, TaskInOnePlace, TypeOK
<1>2. /\ task'[i] = NoTask /\ UNCHANGED <<mTasks, stamp>>
      /\ finished'[task[i]] = 1 /\ \A s \in Tasks \ {task[i]} : finished'[s] = finished[s]
      /\ ~Holding(i)'
      /\ \A j \in Threads \ {i} : task'[j] = task[j] /\ (Holding(j)' <=> Holding(j))
  BY <1>1 DEF RunCallback, Goto, Holding, TypeOK
<1>3. \A j \in Threads : Queued(j)' = Queued(j) /\ Queued(j) \subseteq Tasks
  BY <1>2, QueuedTasks DEF Queued
<1>4. \A j \in Threads : task[i] \notin Queued(j)
  BY DEF TaskInOnePlace
<1>5. ASSUME NEW j \in Threads
      PROVE  /\ Holding(j)' <=> task'[j] # NoTask
             /\ IsInjective(mTasks'[j])
             /\ \A s \in Queued(j)' \cup ({task'[j]} \ {NoTask}) : stamp'[s] > 0 /\ finished'[s] = 0
             /\ task'[j] \notin Queued(j)'
  <2>1. CASE j = i
    BY <1>2, <1>3, <1>4, <2>1, PoolAssumption DEF TaskInOnePlace
  <2>2. CASE j # i
    <3>1. \A s \in Queued(j) \cup ({task[j]} \ {NoTask}) : s \in Tasks \ {task[i]}
      BY <1>1, <1>3, <1>4, <2>2 DEF TaskInOnePlace, TypeOK
    <3>2. QED
      BY <1>2, <1>3, <2>2, <3>1 DEF TaskInOnePlace
  <2>3. QED
    BY <2>1, <2>2
<1>6. ASSUME NEW j \in Threads, NEW k \in Threads, j # k
      PROVE  /\ Queued(j)' \cap Queued(k)' = {}
             /\ task'[j] \notin Queued(k)'
             /\ Holding(j)' => task'[j] # task'[k]
  <2>1. Queued(j)' \cap Queued(k)' = {}
    BY <1>3, <1>6 DEF TaskInOnePlace
  <2>2. task'[j] \notin Queued(k)'
    BY <1>2, <1>3, <1>6, PoolAssumption DEF TaskInOnePlace
  <2>3. Holding(j)' => task'[j] # task'[k]
    BY <1>2, <1>6 DEF TaskInOnePlace
  <2>4. QED
    BY <2>1, <2>2, <2>3
<1>7. \A s \in Tasks : finished'[s] <= 1
  BY <1>2 DEF TaskInOnePlace
<1>8. QED
  BY <1>5, <1>6, <1>7 DEF TaskInOnePlace

(* The lists go with the pool.                                             *)
LEMMA DestroyedPlace ==
  ASSUME PlaceInv, Destroyed
  PROVE  TaskInOnePlace'
<1>1. \A i \in Threads : Queued(i)' = {} /\ IsInjective(mTasks'[i])
  BY DEF Destroyed, Queued, Range, IsInjective
<1>2. UNCHANGED <<run, task, stamp, finished>>
  BY DEF Destroyed, history
<1>3. \A i \in Threads : Holding(i)' <=> Holding(i)
  BY <1>2 DEF Holding
<1>4. QED
  BY <1>1, <1>2, <1>3 DEF PlaceInv, TaskInOnePlace

(* What a step does to the calls keeps new tasks new.                      *)
LEMMA NextFresh ==
  ASSUME PlaceInv, [Next]_vars
  PROVE  FreshOK'
<1> USE DEF PlaceInv, TypeInv
<1>1. ASSUME NEW i \in Threads, NEW t \in Tasks, NEW p \in Priority, Enqueue(i, t, p)
      PROVE  /\ \A s \in Tasks : stamp'[s] < clock' /\ (finished'[s] > 0 => stamp'[s] > 0)
             /\ \A s \in Tasks \ {t} : stamp'[s] = stamp[s]
  BY <1>1 DEF Enqueue, TypeOK, FreshOK
<1>2. ASSUME NEW c \in Clients, AddTo(c) PROVE FreshOK'
  <2>1. PICK t \in Tasks, p \in Priority, i \in Threads : Fresh(t) /\ Enqueue(i, t, p)
    BY <1>2 DEF AddTo
  <2>2. \A d \in Clients : Choosing(d) => calls[d].task \in Tasks \ {t}
    BY <2>1, CallType DEF Fresh, Choosing
  <2>3. UNCHANGED calls
    BY <1>2 DEF AddTo
  <2>4. QED
    BY <1>1, <2>1, <2>2, <2>3 DEF FreshOK, Choosing
<1>3. ASSUME NEW c \in Clients, AddChosen(c) PROVE FreshOK'
  <2>1. /\ calls[c].index \in Threads /\ calls[c].task \in Tasks /\ calls[c].priority \in Priority
        /\ Enqueue(calls[c].index, calls[c].task, calls[c].priority)
    BY <1>3, CallType DEF AddChosen, Choosing
  <2>2. /\ calls'[c].task = NoTask /\ \A d \in Clients \ {c} : calls'[d] = calls[d]
    BY <1>3, NoCallType DEF AddChosen, TypeOK
  <2>3. \A d \in Clients \ {c} : Choosing(d) => calls[d].task \in Tasks \ {calls[c].task}
    BY <2>1, CallType DEF FreshOK, Choosing
  <2>4. QED
    BY <1>1, <2>1, <2>2, <2>3 DEF FreshOK, Choosing
<1>4. ASSUME NEW c \in Clients, ChooseBegin(c) PROVE FreshOK'
  <2>1. PICK t \in Tasks, p \in Priority :
          Fresh(t) /\ calls' = [calls EXCEPT ![c] = Choice(t, p, 1, 2, 0, 0)]
    BY <1>4 DEF ChooseBegin
  <2>2. /\ calls'[c].task = t /\ \A d \in Clients \ {c} : calls'[d] = calls[d]
    BY <2>1 DEF Choice, TypeOK
  <2>3. UNCHANGED history
    BY <1>4 DEF ChooseBegin
  <2>4. stamp[t] = 0 /\ \A d \in Clients : calls[d].task # t
    BY <2>1 DEF Fresh
  <2>5. QED
    BY <2>2, <2>3, <2>4 DEF FreshOK, Choosing, history
<1>5. ASSUME NEW c \in Clients, CountFirst(c) \/ CountSecond(c) PROVE FreshOK'
  <2>1. \A d \in Clients : calls'[d].task = calls[d].task
    <3>1. CASE CountFirst(c)
      BY <3>1 DEF CountFirst, Choice, TypeOK
    <3>2. CASE CountSecond(c)
      <4>1. PICK index : calls' = [calls EXCEPT ![c] =
              Choice(calls[c].task, calls[c].priority, index, calls[c].i + 1, 0, 0)]
        BY <3>2, Zenon DEF CountSecond
      <4>2. QED
        BY <4>1 DEF Choice, TypeOK
    <3>3. QED
      BY <1>5, <3>1, <3>2
  <2>2. UNCHANGED history
    BY <1>5 DEF CountFirst, CountSecond
  <2>3. QED
    BY <2>1, <2>2 DEF FreshOK, Choosing, history
<1>6. ASSUME NEW i \in Threads, RunCallback(i) PROVE FreshOK'
  <2>1. task[i] \in Tasks /\ stamp[task[i]] > 0
    BY <1>6 DEF RunCallback, Goto, Holding, TaskInOnePlace, TypeOK
  <2>2. \A s \in Tasks \ {task[i]} : finished'[s] = finished[s]
    BY <1>6 DEF RunCallback, TypeOK
  <2>3. UNCHANGED <<calls, stamp, clock>>
    BY <1>6 DEF RunCallback
  <2>4. QED
    BY <2>1, <2>2, <2>3 DEF FreshOK, Choosing
<1>7. ASSUME UNCHANGED <<calls, history>> PROVE FreshOK'
  BY <1>7 DEF FreshOK, Choosing, history
<1>8. ASSUME NEW i \in Threads, RunStep(i), ~RunCallback(i) PROVE UNCHANGED <<calls, history>>
  BY <1>8 DEF RunStep, RunCheck, RunWait, RunRetry, RunTake, RunWork, RunThrow
<1>9. ASSUME OwnerStep PROVE UNCHANGED <<calls, history>>
  BY <1>9 DEF OwnerStep, OwnerCalls, StartThread, StopThread, JoinThread, OwnerReturns, Destroyed
<1>10. QED
  BY <1>2, <1>3, <1>4, <1>5, <1>6, <1>7, <1>8, <1>9 DEF Next, ClientStep, Over, vars, codeVars

LEMMA NextPlaceInv == PlaceInv /\ [Next]_vars => PlaceInv'
<1> SUFFICES ASSUME PlaceInv, [Next]_vars PROVE TaskInOnePlace'
  BY NextTypeInv, NextFresh DEF PlaceInv
<1> USE DEF PlaceInv
<1>1. CASE UNCHANGED vars
  BY <1>1, UnmovedPlace DEF vars, codeVars, history, Holding
<1>2. ASSUME NEW c \in Clients, ClientStep(c) PROVE TaskInOnePlace'
  <2>1. CASE AddTo(c)
    <3>1. PICK t \in Tasks, p \in Priority, i \in Threads : Fresh(t) /\ Enqueue(i, t, p)
      BY <2>1 DEF AddTo
    <3>2. QED
      BY <2>1, <3>1, EnqueuePlace DEF AddTo, Fresh
  <2>2. CASE AddChosen(c)
    <3>1. calls[c].index \in Threads /\ calls[c].task \in Tasks /\ calls[c].priority \in Priority
      BY <2>2, CallType DEF AddChosen, Choosing
    <3>2. QED
      BY <2>2, <3>1, EnqueuePlace DEF AddChosen, FreshOK
  <2>3. CASE ChooseBegin(c) \/ CountFirst(c) \/ CountSecond(c)
    <3>1. UNCHANGED <<mTasks, run, task, stamp, finished>>
      BY <2>3 DEF ChooseBegin, CountFirst, CountSecond, history
    <3>2. QED
      BY <3>1, UnmovedPlace DEF Holding
  <2>4. QED
    BY <1>2, <2>1, <2>2, <2>3 DEF ClientStep
<1>3. ASSUME NEW i \in Threads, RunStep(i) PROVE TaskInOnePlace'
  <2>1. CASE RunCheck(i) \/ RunWait(i) \/ RunRetry(i) \/ RunWork(i) \/ RunThrow(i)
    <3>1. UNCHANGED <<mTasks, task, stamp, finished>>
      BY <2>1 DEF RunCheck, RunWait, RunRetry, RunWork, RunThrow, history
    <3>2. \A j \in Threads : Holding(j)' <=> Holding(j)
      BY <2>1 DEF RunCheck, RunWait, RunRetry, RunWork, RunThrow, Goto, Holding, TypeInv, TypeOK
    <3>3. QED
      BY <3>1, <3>2, UnmovedPlace
  <2>2. QED
    BY <1>3, <2>1, TakePlace, CallbackPlace DEF RunStep
<1>4. CASE OwnerStep
  <2>1. CASE ~Destroyed
    <3>1. UNCHANGED <<mTasks, task, stamp, finished>>
      BY <1>4, <2>1 DEF OwnerStep, OwnerCalls, StartThread, StopThread, JoinThread,
                        OwnerReturns, history
    <3>2. \A j \in Threads : Holding(j)' <=> Holding(j)
      BY <1>4, <2>1 DEF OwnerStep, OwnerCalls, StartThread, StopThread, JoinThread,
                        OwnerReturns, Holding, TypeInv, TypeOK
    <3>3. QED
      BY <3>1, <3>2, UnmovedPlace
  <2>2. QED
    BY <2>1, DestroyedPlace
<1>5. QED
  BY <1>1, <1>2, <1>3, <1>4 DEF Next, Over

(* Every task that was added is in one list, once, or with one thread, or  *)
(* finished once: Thread::Add and the critical section of Thread::Run      *)
(* neither duplicate a task nor hand it to two threads.                    *)
THEOREM TaskInOnePlaceHolds == Spec => []TaskInOnePlace
<1>1. PlaceInv => TaskInOnePlace
  BY DEF PlaceInv
<1>2. QED
  BY <1>1, InitPlaceInv, NextPlaceInv, PTL DEF Spec

-----------------------------------------------------------------------------
(***************************************************************************)
(* Nothing is lost: a step takes a task out of the lists only into a       *)
(* thread, and out of a thread only when its callback has returned.        *)
(***************************************************************************)

(* Only the end of the destructor ends the pool.                           *)
LEMMA OwnerStays ==
  ASSUME TypeInv, OwnerStep, ~Destroyed
  PROVE  owner.op # "gone" /\ owner'.op # "gone"
<1> USE DEF TypeInv
<1>1. CASE StartThread \/ StopThread
  BY <1>1 DEF StartThread, StopThread, TypeOK
<1>2. CASE JoinThread
  BY <1>2 DEF JoinThread, JoinOK, TypeOK
<1>3. CASE OwnerReturns
  BY <1>3, AtType DEF OwnerReturns, OwnerOps
<1>4. ASSUME NEW op \in {"start", "stop", "destroy"}, OwnerCalls(op)
      PROVE  owner.op # "gone" /\ owner'.op # "gone"
  BY <1>4, AtType DEF OwnerCalls, OwnerOps
<1>5. QED
  BY <1>1, <1>2, <1>3, <1>4 DEF OwnerStep

LEMMA NextNothingLost ==
  ASSUME PlaceInv, NothingLost, [Next]_vars
  PROVE  NothingLost'
<1> USE DEF PlaceInv, TypeInv
<1>1. ASSUME NEW i \in Threads, NEW t \in Tasks, NEW p \in Priority, Enqueue(i, t, p),
             UNCHANGED <<task, owner>>
      PROVE  NothingLost'
  <2>1. /\ mTasks[i] \in Seq(Tasks) /\ Len(mTasks[i]) \in Nat
        /\ Position(p, Len(mTasks[i])) \in 1 .. Len(mTasks[i]) + 1
    BY PositionInList DEF TypeOK
  <2>2. Queued(i)' = Queued(i) \cup {t}
    BY <1>1, <2>1, EnqueueType, InsertAtRange DEF Queued
  <2>3. \A j \in Threads \ {i} : Queued(j)' = Queued(j)
    BY <1>1, EnqueueType DEF Queued
  <2>4. UNCHANGED finished /\ \A s \in Tasks \ {t} : stamp'[s] = stamp[s]
    BY <1>1 DEF Enqueue, TypeOK
  <2>5. QED
    BY <1>1, <2>2, <2>3, <2>4 DEF NothingLost
<1>2. ASSUME NEW i \in Threads, RunTake(i) PROVE NothingLost'
  <2>1. mTasks[i] \in Seq(Tasks) /\ Len(mTasks[i]) > 0
    BY <1>2 DEF RunTake, HasWork, TaskCount, TypeOK
  <2>2. /\ task'[i] = Head(mTasks[i]) /\ mTasks'[i] = Tail(mTasks[i]) /\ task[i] = NoTask
        /\ \A j \in Threads \ {i} : task'[j] = task[j] /\ mTasks'[j] = mTasks[j]
        /\ UNCHANGED <<owner, stamp, finished>>
    BY <1>2 DEF RunTake, Goto, Holding, TaskInOnePlace, TypeOK, history
  <2>3. Queued(i) = Queued(i)' \cup {task'[i]}
    BY <2>1, <2>2, TailRange DEF Queued
  <2>4. \A j \in Threads \ {i} : Queued(j)' = Queued(j)
    BY <2>2 DEF Queued
  <2>5. QED
    BY <2>2, <2>3, <2>4, PoolAssumption DEF NothingLost
<1>3. ASSUME NEW i \in Threads, RunCallback(i) PROVE NothingLost'
  <2>1. task[i] \in Tasks /\ finished[task[i]] = 0
    BY <1>3 DEF RunCallback, Goto, Holding, TaskInOnePlace, TypeOK
  <2>2. /\ finished'[task[i]] = 1 /\ \A s \in Tasks \ {task[i]} : finished'[s] = finished[s]
        /\ \A j \in Threads \ {i} : task'[j] = task[j]
        /\ UNCHANGED <<mTasks, owner, stamp>>
    BY <1>3, <2>1 DEF RunCallback, TypeOK
  <2>3. \A j \in Threads : Queued(j)' = Queued(j)
    BY <2>2 DEF Queued
  <2>4. QED
    BY <2>1, <2>2, <2>3 DEF NothingLost
<1>4. CASE Destroyed
  BY <1>4, AtType DEF Destroyed, NothingLost, OwnerOps
<1>5. ASSUME UNCHANGED <<mTasks, task, stamp, finished>>, owner'.op = "gone" <=> owner.op = "gone"
      PROVE  NothingLost'
  BY <1>5 DEF NothingLost, Queued
<1>6. ASSUME NEW c \in Clients, ClientStep(c) PROVE NothingLost'
  <2>1. CASE AddTo(c)
    BY <1>1, <2>1 DEF AddTo
  <2>2. CASE AddChosen(c)
    <3>1. calls[c].index \in Threads /\ calls[c].task \in Tasks /\ calls[c].priority \in Priority
      BY <2>2, CallType DEF AddChosen, Choosing
    <3>2. QED
      BY <1>1, <2>2, <3>1 DEF AddChosen
  <2>3. CASE ChooseBegin(c) \/ CountFirst(c) \/ CountSecond(c)
    BY <1>5, <2>3 DEF ChooseBegin, CountFirst, CountSecond, history
  <2>4. QED
    BY <1>6, <2>1, <2>2, <2>3 DEF ClientStep
<1>7. ASSUME NEW i \in Threads, RunStep(i) PROVE NothingLost'
  <2>1. CASE RunCheck(i) \/ RunWait(i) \/ RunRetry(i) \/ RunWork(i) \/ RunThrow(i)
    BY <1>5, <2>1 DEF RunCheck, RunWait, RunRetry, RunWork, RunThrow, history
  <2>2. QED
    BY <1>2, <1>3, <1>7, <2>1 DEF RunStep
<1>8. ASSUME OwnerStep, ~Destroyed PROVE NothingLost'
  <2>1. UNCHANGED <<mTasks, task, stamp, finished>>
    BY <1>8 DEF OwnerStep, OwnerCalls, StartThread, StopThread, JoinThread, OwnerReturns, history
  <2>2. owner.op # "gone" /\ owner'.op # "gone"
    BY <1>8, OwnerStays
  <2>3. QED
    BY <1>5, <2>1, <2>2
<1>9. QED
  BY <1>4, <1>5, <1>6, <1>7, <1>8 DEF Next, Over, vars, codeVars, history

(* While the pool exists every task it accepted waits in a list, is with a *)
(* thread or has had its callback return, whatever Start and Stop do.      *)
THEOREM NothingLostHolds == Spec => []NothingLost
<1>1. Init => NothingLost
  BY DEF Init, NothingLost
<1>2. PlaceInv /\ NothingLost /\ [Next]_vars => (PlaceInv /\ NothingLost)'
  BY NextPlaceInv, NextNothingLost
<1>3. QED
  BY <1>1, <1>2, InitPlaceInv, PTL DEF Spec

-----------------------------------------------------------------------------
(***************************************************************************)
(* The order of a list.  A new task has the largest stamp of all, so it    *)
(* may only be LOW at the end or HIGH at the front; between the two MEDIUM *)
(* tasks disturb neither order.                                            *)
(***************************************************************************)

InOrder(q) ==
  \A a, b \in DOMAIN q :
    a < b =>
      /\ prio[q[a]] = "LOW"  => stamp[q[a]] < stamp[q[b]]
      /\ prio[q[b]] = "HIGH" => stamp[q[a]] > stamp[q[b]]

LEMMA EnqueueOrder ==
  ASSUME PlaceInv, NEW i \in Threads, NEW t \in Tasks, NEW p \in Priority,
         Enqueue(i, t, p), stamp[t] = 0, \A j \in Threads : InOrder(mTasks[j])
  PROVE  \A j \in Threads : InOrder(mTasks[j])'
<1> USE DEF PlaceInv, TypeInv
<1> DEFINE q == mTasks[i]
           r == mTasks'[i]
           k == Position(p, Len(mTasks[i]))
<1>1. q \in Seq(Tasks) /\ Len(q) \in Nat /\ k \in 1 .. Len(q) + 1
  BY PositionInList DEF TypeOK
<1>2. (p = "LOW" => k = Len(q) + 1) /\ (p = "HIGH" => k = 1)
  BY DEF Position
<1>3. /\ r \in Seq(Tasks) /\ Len(r) = Len(q) + 1
      /\ \A n \in 1 .. Len(q) + 1 : r[n] = IF n < k THEN q[n] ELSE IF n = k THEN t ELSE q[n - 1]
  <2>1. r = InsertAt(q, k, t)
    BY EnqueueType
  <2> HIDE DEF q, r, k
  <2>2. QED
    BY <1>1, <2>1, InsertAtProperties
<1>4. DOMAIN q = 1 .. Len(q) /\ DOMAIN r = 1 .. Len(q) + 1
  BY <1>1, <1>3
<1>5. /\ stamp'[t] = clock /\ prio'[t] = p
      /\ \A s \in Tasks \ {t} : stamp'[s] = stamp[s] /\ prio'[s] = prio[s] /\ stamp[s] < clock
      /\ \A s \in Tasks : stamp'[s] \in Nat /\ prio'[s] \in Priority
      /\ clock \in Nat
  BY EnqueueType DEF Enqueue, TypeOK, FreshOK
<1>6. \A j \in Threads : \A n \in DOMAIN mTasks[j] : mTasks[j][n] \in Tasks \ {t}
  <2>1. \A j \in Threads : t \notin Queued(j) /\ mTasks[j] \in Seq(Tasks)
    BY DEF TaskInOnePlace, TypeOK
  <2>2. QED
    BY <2>1, RangeOfSeq DEF Queued, Range
<1>7. \A j \in Threads \ {i} : InOrder(mTasks[j])'
  <2>1. \A j \in Threads \ {i} : mTasks'[j] = mTasks[j]
    BY EnqueueType
  <2>2. QED
    BY <1>5, <1>6, <2>1 DEF InOrder
<1>8. ASSUME NEW a \in 1 .. Len(q) + 1, NEW b \in 1 .. Len(q) + 1, a < b
      PROVE  /\ prio'[r[a]] = "LOW"  => stamp'[r[a]] < stamp'[r[b]]
             /\ prio'[r[b]] = "HIGH" => stamp'[r[a]] > stamp'[r[b]]
  <2> HIDE DEF q, r, k
  <2>1. \A n \in 1 .. Len(q) : q[n] \in Tasks \ {t}
    BY <1>4, <1>6 DEF q
  <2>2. \A m, n \in 1 .. Len(q) : m < n =>
          /\ prio'[q[m]] = "LOW"  => stamp'[q[m]] < stamp'[q[n]]
          /\ prio'[q[n]] = "HIGH" => stamp'[q[m]] > stamp'[q[n]]
    <3>1. InOrder(q)
      BY DEF q
    <3>2. QED
      BY <1>4, <1>5, <2>1, <3>1 DEF InOrder
  <2>3. CASE a = k
    <3>1. r[a] = t /\ p # "LOW"
      BY <1>1, <1>2, <1>3, <1>8, <2>3
    <3>2. r[b] = q[b - 1] /\ b - 1 \in 1 .. Len(q)
      BY <1>1, <1>3, <1>8, <2>3
    <3>3. QED
      BY <1>5, <2>1, <3>1, <3>2
  <2>4. CASE b = k
    <3>1. r[b] = t /\ p # "HIGH"
      BY <1>1, <1>2, <1>3, <1>8, <2>4
    <3>2. r[a] = q[a] /\ a \in 1 .. Len(q)
      BY <1>1, <1>3, <1>8, <2>4
    <3>3. QED
      BY <1>5, <1>8, <2>1, <3>1, <3>2
  <2>5. CASE a # k /\ b # k
    <3>1. PICK m \in 1 .. Len(q), n \in 1 .. Len(q) : m < n /\ r[a] = q[m] /\ r[b] = q[n]
      <4>1. CASE b < k
        BY <1>1, <1>3, <1>8, <4>1
      <4>2. CASE a < k /\ k < b
        <5>1. a \in 1 .. Len(q) /\ b - 1 \in 1 .. Len(q) /\ a < b - 1
          BY <1>1, <1>8, <4>2
        <5>2. r[a] = q[a] /\ r[b] = q[b - 1]
          BY <1>1, <1>3, <1>8, <4>2
        <5>3. QED
          BY <5>1, <5>2
      <4>3. CASE k < a
        <5>1. a - 1 \in 1 .. Len(q) /\ b - 1 \in 1 .. Len(q) /\ a - 1 < b - 1
          BY <1>1, <1>8, <4>3
        <5>2. r[a] = q[a - 1] /\ r[b] = q[b - 1]
          BY <1>1, <1>3, <1>8, <4>3
        <5>3. QED
          BY <5>1, <5>2
      <4>4. QED
        BY <1>1, <1>8, <2>5, <4>1, <4>2, <4>3
    <3>2. QED
      BY <1>8, <2>2, <3>1
  <2>6. QED
    BY <2>3, <2>4, <2>5
<1>9. InOrder(mTasks[i])'
  BY <1>4, <1>8 DEF InOrder
<1>10. QED
  BY <1>7, <1>9

LEMMA NextOrder ==
  ASSUME PlaceInv, PriorityOrder, [Next]_vars
  PROVE  PriorityOrder'
<1> USE DEF PlaceInv, TypeInv
<1>1. \A j \in Threads : InOrder(mTasks[j])
  BY DEF PriorityOrder, InOrder
<1>2. SUFFICES \A j \in Threads : InOrder(mTasks[j])'
  BY DEF PriorityOrder, InOrder
<1>3. ASSUME NEW c \in Clients, AddTo(c) \/ AddChosen(c)
      PROVE  \A j \in Threads : InOrder(mTasks[j])'
  <2>1. CASE AddTo(c)
    BY <1>1, <2>1, EnqueueOrder DEF AddTo, Fresh
  <2>2. CASE AddChosen(c)
    <3>1. calls[c].index \in Threads /\ calls[c].task \in Tasks /\ calls[c].priority \in Priority
      BY <2>2, CallType DEF AddChosen, Choosing
    <3>2. QED
      BY <1>1, <2>2, <3>1, EnqueueOrder DEF AddChosen, FreshOK
  <2>3. QED
    BY <1>3, <2>1, <2>2
<1>4. ASSUME NEW i \in Threads, RunTake(i)
      PROVE  \A j \in Threads : InOrder(mTasks[j])'
  <2>1. mTasks[i] \in Seq(Tasks) /\ Len(mTasks[i]) > 0
    BY <1>4 DEF RunTake, HasWork, TaskCount, TypeOK
  <2>2. /\ mTasks'[i] = Tail(mTasks[i]) /\ \A j \in Threads \ {i} : mTasks'[j] = mTasks[j]
        /\ UNCHANGED <<stamp, prio>>
    BY <1>4 DEF RunTake, TypeOK, history
  <2>3. \A j \in Threads \ {i} : InOrder(mTasks[j])'
    BY <1>1, <2>2 DEF InOrder
  <2>4. InOrder(mTasks[i])'
    <3> DEFINE q == mTasks[i]
               r == mTasks'[i]
    <3>1. /\ DOMAIN q = 1 .. Len(q) /\ DOMAIN r = 1 .. Len(q) - 1 /\ Len(q) \in Nat
          /\ \A n \in 1 .. Len(q) - 1 : r[n] = q[n + 1]
      BY <2>1, <2>2, TailProperties
    <3>2. \A n \in 1 .. Len(q) - 1 : n + 1 \in 1 .. Len(q)
      BY <3>1
    <3>3. \A a, b \in 1 .. Len(q) : a < b =>
            /\ prio[q[a]] = "LOW"  => stamp[q[a]] < stamp[q[b]]
            /\ prio[q[b]] = "HIGH" => stamp[q[a]] > stamp[q[b]]
      BY <1>1, <3>1 DEF InOrder
    <3> HIDE DEF q, r
    <3>4. \A a, b \in 1 .. Len(q) - 1 : a < b =>
            /\ prio[r[a]] = "LOW"  => stamp[r[a]] < stamp[r[b]]
            /\ prio[r[b]] = "HIGH" => stamp[r[a]] > stamp[r[b]]
      <4>1. \A a, b \in 1 .. Len(q) - 1 : a < b => a + 1 < b + 1
        BY <3>1
      <4>2. QED
        BY <3>1, <3>2, <3>3, <4>1
    <3>5. QED
      BY <2>2, <3>1, <3>4 DEF InOrder, r
  <2>5. QED
    BY <2>3, <2>4
<1>5. ASSUME Destroyed PROVE \A j \in Threads : InOrder(mTasks[j])'
  BY <1>5 DEF Destroyed, InOrder
<1>6. ASSUME UNCHANGED <<mTasks, stamp, prio>> PROVE \A j \in Threads : InOrder(mTasks[j])'
  BY <1>1, <1>6 DEF InOrder
<1>7. ASSUME NEW c \in Clients, ChooseBegin(c) \/ CountFirst(c) \/ CountSecond(c)
      PROVE  UNCHANGED <<mTasks, stamp, prio>>
  BY <1>7 DEF ChooseBegin, CountFirst, CountSecond, history
<1>8. ASSUME NEW i \in Threads, RunStep(i), ~RunTake(i) PROVE UNCHANGED <<mTasks, stamp, prio>>
  BY <1>8 DEF RunStep, RunCheck, RunWait, RunRetry, RunWork, RunCallback, RunThrow, history
<1>9. ASSUME OwnerStep, ~Destroyed PROVE UNCHANGED <<mTasks, stamp, prio>>
  BY <1>9 DEF OwnerStep, OwnerCalls, StartThread, StopThread, JoinThread, OwnerReturns, history
<1>10. QED
  BY <1>3, <1>4, <1>5, <1>6, <1>7, <1>8, <1>9
     DEF Next, ClientStep, Over, vars, codeVars, history

(* In every list a LOW task waits behind what was there before it, and a   *)
(* HIGH one ahead of it, wherever Thread::Add puts the MEDIUM ones.        *)
THEOREM PriorityOrderHolds == Spec => []PriorityOrder
<1>1. Init => PriorityOrder
  BY DEF Init, PriorityOrder
<1>2. PlaceInv /\ PriorityOrder /\ [Next]_vars => (PlaceInv /\ PriorityOrder)'
  BY NextPlaceInv, NextOrder
<1>3. QED
  BY <1>1, <1>2, InitPlaceInv, PTL DEF Spec

=============================================================================
