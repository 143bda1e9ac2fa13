----------------------- MODULE ThreadPoolLifecycleProofs -----------------------
(***************************************************************************)
(* What every step of a ThreadPool does: proofs that no task overtakes     *)
(* another one of its list, and that the pool implements TaskLifecycle.    *)
(***************************************************************************)
EXTENDS ThreadPoolTaskProofs, FiniteSetTheorems

(* An insertion keeps the order of the elements that were there.           *)
LEMMA InsertAtBefore ==
  ASSUME NEW S, NEW q \in Seq(S), NEW e \in S, NEW k \in 1 .. Len(q) + 1
  PROVE  e \notin Range(q) =>
           \A s, t \in Range(q) : Before(q, s, t) <=> Before(InsertAt(q, k, e), s, t)
<1> DEFINE r == InsertAt(q, k, e)
<1>1. /\ r \in Seq(S) /\ Len(r) = Len(q) + 1
      /\ \A n \in 1 .. Len(q) + 1 :
           r[n] = IF n < k THEN q[n] ELSE IF n = k THEN e ELSE q[n - 1]
  <2>1. r \in Seq(S)
    BY InsertAtProperties
  <2>2. Len(r) = Len(q) + 1
    BY InsertAtProperties
  <2>3. \A n \in 1 .. Len(q) + 1 : r[n] = IF n < k THEN q[n] ELSE IF n = k THEN e ELSE q[n - 1]
    BY InsertAtProperties
  <2>4. QED
    BY <2>1, <2>2, <2>3
<1> HIDE DEF r
<1>2. DOMAIN r = 1 .. Len(q) + 1 /\ DOMAIN q = 1 .. Len(q)
  BY <1>1
<1> SUFFICES ASSUME e \notin Range(q), NEW s \in Range(q), NEW t \in Range(q)
             PROVE  Before(q, s, t) <=> Before(r, s, t)
  BY DEF r
<1>3. ASSUME NEW a \in 1 .. Len(q), NEW b \in 1 .. Len(q), a < b, q[a] = s, q[b] = t
      PROVE  Before(r, s, t)
  <2> DEFINE Shift(n) == IF n < k THEN n ELSE n + 1
  <2>1. \A n \in 1 .. Len(q) : Shift(n) \in 1 .. Len(q) + 1 /\ r[Shift(n)] = q[n]
    BY <1>1
  <2>2. Shift(a) < Shift(b)
    BY <1>3
  <2>3. QED
    BY <1>2, <1>3, <2>1, <2>2 DEF Before
<1>4. ASSUME NEW a \in 1 .. Len(q) + 1, NEW b \in 1 .. Len(q) + 1, a < b, r[a] = s, r[b] = t
      PROVE  Before(q, s, t)
  <2> DEFINE Unshift(n) == IF n < k THEN n ELSE n - 1
  <2>1. a # k /\ b # k
    BY <1>1, <1>4
  <2>2. \A n \in 1 .. Len(q) + 1 : n # k => Unshift(n) \in 1 .. Len(q) /\ q[Unshift(n)] = r[n]
    BY <1>1
  <2>3. Unshift(a) < Unshift(b)
    BY <1>4, <2>1
  <2>4. QED
    BY <1>2, <1>4, <2>1, <2>2, <2>3 DEF Before
<1>5. QED
  BY <1>2, <1>3, <1>4 DEF Before

(* So does the removal of the first one.                                   *)
LEMMA TailBefore ==
  ASSUME NEW S, NEW q \in Seq(S), Len(q) > 0, IsInjective(q),
         NEW s \in Range(Tail(q)), NEW t \in Range(Tail(q))
  PROVE  Before(q, s, t) <=> Before(Tail(q), s, t)
<1> DEFINE r == Tail(q)
<1>1. /\ Head(q) = q[1] /\ r \in Seq(S) /\ Len(r) = Len(q) - 1
      /\ \A n \in 1 .. Len(q) - 1 : r[n] = q[n + 1]
  BY TailProperties
<1>2. Head(q) \notin Range(r)
  BY TailRange
<1> HIDE DEF r
<1>3. DOMAIN r = 1 .. Len(q) - 1 /\ DOMAIN q = 1 .. Len(q)
  BY <1>1
<1>4. ASSUME NEW a \in 1 .. Len(q), NEW b \in 1 .. Len(q), a < b, q[a] = s, q[b] = t
      PROVE  Before(r, s, t)
  <2>1. a # 1
    BY <1>1, <1>2, <1>4 DEF r
  <2>2. /\ a - 1 \in 1 .. Len(q) - 1 /\ b - 1 \in 1 .. Len(q) - 1 /\ a - 1 < b - 1
        /\ r[a - 1] = s /\ r[b - 1] = t
    BY <1>1, <1>4, <2>1
  <2>3. QED
    BY <1>3, <2>2 DEF Before
<1>5. ASSUME NEW a \in 1 .. Len(q) - 1, NEW b \in 1 .. Len(q) - 1, a < b, r[a] = s, r[b] = t
      PROVE  Before(q, s, t)
  <2>1. /\ a + 1 \in 1 .. Len(q) /\ b + 1 \in 1 .. Len(q) /\ a + 1 < b + 1
        /\ q[a + 1] = s /\ q[b + 1] = t
    BY <1>1, <1>5
  <2>2. QED
    BY <1>3, <2>1 DEF Before
<1>6. QED
  BY <1>3, <1>4, <1>5 DEF Before, r

KeepsOrder ==
  \A i \in Threads : \A s, t \in Queued(i) :
    (s \in Range(mTasks'[i]) /\ t \in Range(mTasks'[i])) =>
      (Before(mTasks[i], s, t) <=> Before(mTasks'[i], s, t))

LEMMA EnqueueKeepsOrder ==
  ASSUME PlaceInv, NEW i \in Threads, NEW t \in Tasks, NEW p \in Priority,
         Enqueue(i, t, p), stamp[t] = 0
  PROVE  KeepsOrder
<1> USE DEF PlaceInv, TypeInv
<1>1. /\ mTasks[i] \in Seq(Tasks) /\ Len(mTasks[i]) \in Nat
      /\ Position(p, Len(mTasks[i])) \in 1 .. Len(mTasks[i]) + 1
  BY PositionInList DEF TypeOK
<1>2. t \notin Range(mTasks[i])
  BY DEF TaskInOnePlace, Queued
<1>3. /\ mTasks'[i] = InsertAt(mTasks[i], Position(p, Len(mTasks[i])), t)
      /\ \A j \in Threads \ {i} : mTasks'[j] = mTasks[j]
  BY EnqueueType
<1>4. \A s, u \in Range(mTasks[i]) : Before(mTasks[i], s, u) <=> Before(mTasks'[i], s, u)
  BY <1>1, <1>2, <1>3, InsertAtBefore
<1>5. QED
  BY <1>3, <1>4 DEF KeepsOrder, Queued

LEMMA TakeKeepsOrder ==
  ASSUME PlaceInv, NEW i \in Threads, RunTake(i)
  PROVE  KeepsOrder
<1> USE DEF PlaceInv, TypeInv
<1>1. mTasks[i] \in Seq(Tasks) /\ Len(mTasks[i]) > 0 /\ IsInjective(mTasks[i])
  BY DEF RunTake, HasWork, TaskCount, TypeOK, TaskInOnePlace
<1>2. mTasks'[i] = Tail(mTasks[i]) /\ \A j \in Threads \ {i} : mTasks'[j] = mTasks[j]
  BY DEF RunTake, TypeOK
<1>3. \A s, t \in Range(mTasks'[i]) : Before(mTasks[i], s, t) <=> Before(mTasks'[i], s, t)
  BY <1>1, <1>2, TailBefore
<1>4. QED
  BY <1>2, <1>3 DEF KeepsOrder

LEMMA NextKeepsOrder == PlaceInv /\ [Next]_vars => KeepsOrder
<1> SUFFICES ASSUME PlaceInv, [Next]_vars PROVE KeepsOrder
  OBVIOUS
<1> USE DEF PlaceInv, TypeInv
<1>1. ASSUME NEW c \in Clients, AddTo(c) \/ AddChosen(c) PROVE KeepsOrder
  <2>1. CASE AddTo(c)
    BY <2>1, EnqueueKeepsOrder DEF AddTo, Fresh
  <2>2. CASE AddChosen(c)
    <3>1. calls[c].index \in Threads /\ calls[c].task \in Tasks /\ calls[c].priority \in Priority
      BY <2>2, CallType DEF AddChosen, Choosing
    <3>2. QED
      BY <2>2, <3>1, EnqueueKeepsOrder DEF AddChosen, FreshOK
  <2>3. QED
    BY <1>1, <2>1, <2>2
<1>2. CASE Destroyed
  BY <1>2 DEF Destroyed, KeepsOrder, Range
<1>3. CASE UNCHANGED mTasks
  BY <1>3 DEF KeepsOrder
<1>4. ASSUME NEW c \in Clients, ChooseBegin(c) \/ CountFirst(c) \/ CountSecond(c)
      PROVE  UNCHANGED mTasks
  BY <1>4 DEF ChooseBegin, CountFirst, CountSecond
<1>5. ASSUME NEW i \in Threads, RunStep(i), ~RunTake(i) PROVE UNCHANGED mTasks
  BY <1>5 DEF RunStep, RunCheck, RunWait, RunRetry, RunWork, RunCallback, RunThrow
<1>6. ASSUME OwnerStep, ~Destroyed PROVE UNCHANGED mTasks
  BY <1>6 DEF OwnerStep, OwnerCalls, StartThread, StopThread, JoinThread, OwnerReturns
<1>7. QED
  BY <1>1, <1>2, <1>3, <1>4, <1>5, <1>6, TakeKeepsOrder DEF Next, ClientStep, Over, vars, codeVars

(* In no list does a task that waits overtake another one, however many    *)
(* threads and clients there are: Thread::Add only inserts and Run only    *)
(* takes the first task.                                                   *)
THEOREM NoOvertakingHolds == Spec => NoOvertaking
<1>1. PlaceInv /\ [Next]_vars => [KeepsOrder]_vars
  BY NextKeepsOrder
<1>2. QED
  BY <1>1, InitPlaceInv, NextPlaceInv, PTL DEF Spec, NoOvertaking, KeepsOrder

-----------------------------------------------------------------------------
(***************************************************************************)
(* The life cycle.  A task is where its phase says it is, so a step of the *)
(* code that moves one task is the step of TaskLifecycle for it, and every *)
(* other step of the code is none there.                                   *)
(***************************************************************************)

(* No call of ChooseThread outlives the pool.                              *)
CallsAlive ==
  (\E c \in Clients : Choosing(c)) => owner.op \notin {"construct", "destroy", "gone"}

LifeInv == PlaceInv /\ OwnerInv /\ CallsAlive

LEMMA InitLifeInv == Init => LifeInv
<1>1. Init => CallsAlive
  BY NoCallType DEF Init, CallsAlive, Choosing
<1>2. QED
  BY <1>1, InitPlaceInv, InitOwnerInv DEF LifeInv

LEMMA NextLifeInv == LifeInv /\ [Next]_vars => LifeInv'
<1> SUFFICES ASSUME LifeInv, [Next]_vars PROVE CallsAlive'
  BY NextPlaceInv, NextOwnerInv DEF LifeInv
<1> USE DEF LifeInv, PlaceInv, TypeInv
<1>1. ASSUME UNCHANGED <<calls, owner>> PROVE CallsAlive'
  BY <1>1 DEF CallsAlive, Choosing
<1>2. ASSUME NEW c \in Clients, ClientStep(c) PROVE CallsAlive'
  <2>1. UNCHANGED owner
    BY <1>2 DEF ClientStep, AddTo, ChooseBegin, CountFirst, CountSecond, AddChosen
  <2>2. owner.op \notin {"construct", "destroy", "gone"}
    BY <1>2 DEF ClientStep, AddTo, ChooseBegin, CountFirst, CountSecond, AddChosen,
                PoolAlive, CallsAlive
  <2>3. QED
    BY <2>1, <2>2 DEF CallsAlive
<1>3. ASSUME NEW i \in Threads, RunStep(i) PROVE UNCHANGED <<calls, owner>>
  BY <1>3 DEF RunStep, RunCheck, RunWait, RunRetry, RunTake, RunWork, RunCallback, RunThrow
<1>4. CASE OwnerStep
  <2>1. UNCHANGED calls
    BY <1>4 DEF OwnerStep, OwnerCalls, StartThread, StopThread, JoinThread, OwnerReturns,
                Destroyed
  <2>2. CASE \A c \in Clients : ~Choosing(c)
    BY <2>1, <2>2 DEF CallsAlive, Choosing
  <2>3. CASE \E c \in Clients : Choosing(c)
    <3>1. owner.op \notin {"construct", "destroy", "gone"}
      BY <2>3 DEF CallsAlive
    <3>2. owner'.op \notin {"construct", "destroy", "gone"}
      <4>1. CASE StartThread \/ StopThread
        BY <3>1, <4>1 DEF StartThread, StopThread, TypeOK
      <4>2. CASE JoinThread
        BY <3>1, <4>2 DEF JoinThread, TypeOK
      <4>3. CASE OwnerReturns
        BY <4>3, AtType DEF OwnerReturns, OwnerOps
      <4>4. CASE Destroyed
        BY <3>1, <4>4 DEF Destroyed
      <4>5. ASSUME NEW op \in {"start", "stop", "destroy"}, OwnerCalls(op)
            PROVE  owner'.op \notin {"construct", "destroy", "gone"}
        BY <2>3, <4>5, AtType DEF OwnerCalls, OwnerOps
      <4>6. QED
        BY <1>4, <4>1, <4>2, <4>3, <4>4, <4>5 DEF OwnerStep
    <3>3. QED
      BY <3>2 DEF CallsAlive
  <2>4. QED
    BY <2>2, <2>3
<1>5. QED
  BY <1>1, <1>2, <1>3, <1>4 DEF Next, Over, vars, codeVars

(* Where a task is tells its phase.                                        *)
PhaseFacts ==
  /\ \A i \in Threads : \A t \in Queued(i) : PhaseOf(t) = "queued"
  /\ \A i \in Threads : task[i] # NoTask =>
       PhaseOf(task[i]) = IF run[i] = "callback" THEN "worked" ELSE "working"
  /\ \A t \in Tasks : stamp[t] = 0 => PhaseOf(t) = "new"
  /\ \A t \in Tasks : finished[t] > 0 => PhaseOf(t) = "done"

LEMMA PhasesOfPlaces == PlaceInv => PhaseFacts
<1> SUFFICES ASSUME PlaceInv PROVE PhaseFacts
  OBVIOUS
<1> USE DEF PlaceInv, TypeInv
<1>1. ASSUME NEW i \in Threads, NEW t \in Queued(i) PROVE PhaseOf(t) = "queued"
  <2>1. t \in Tasks /\ finished[t] = 0
    BY <1>1, QueuedTasks DEF TaskInOnePlace
  <2>2. \A j \in Threads : task[j] # t
    BY <1>1 DEF TaskInOnePlace
  <2>3. QED
    BY <1>1, <2>1, <2>2 DEF PhaseOf
<1>2. ASSUME NEW i \in Threads, task[i] # NoTask
      PROVE  PhaseOf(task[i]) = IF run[i] = "callback" THEN "worked" ELSE "working"
  <2>1. finished[task[i]] = 0
    BY <1>2 DEF TaskInOnePlace
  <2>2. \A j \in Threads : task[j] = task[i] => j = i
    BY <1>2 DEF TaskInOnePlace
  <2>3. QED
    BY <1>2, <2>1, <2>2 DEF PhaseOf
<1>3. ASSUME NEW t \in Tasks, stamp[t] = 0 PROVE PhaseOf(t) = "new"
  <2>1. finished[t] = 0
    <3>1. finished[t] \in Nat
      BY DEF TypeOK
    <3>2. ~(finished[t] > 0)
      <4>1. finished[t] > 0 => stamp[t] > 0
        BY DEF FreshOK
      <4>2. QED
        BY <1>3, <4>1
    <3>3. QED
      BY <3>1, <3>2
  <2>2. \A i \in Threads : t \notin Queued(i) /\ task[i] # t
    BY <1>3, PoolAssumption DEF TaskInOnePlace
  <2>3. QED
    BY <1>3, <2>1, <2>2 DEF PhaseOf
<1>4. \A t \in Tasks : finished[t] > 0 => PhaseOf(t) = "done"
  BY DEF PhaseOf
<1>5. QED
  BY <1>1, <1>2, <1>3, <1>4 DEF PhaseFacts

(* A task a step does not touch keeps its phase.                           *)
LEMMA SamePhase ==
  ASSUME NEW t \in Tasks, finished'[t] = finished[t], stamp'[t] = stamp[t],
         \A i \in Threads : t \in Queued(i)' <=> t \in Queued(i),
         \A i \in Threads : task'[i] = t <=> task[i] = t,
         \A i \in Threads : task[i] = t => (run'[i] = "callback" <=> run[i] = "callback")
  PROVE  PhaseOf(t)' = PhaseOf(t)
<1>1. /\ (\E i \in Threads : task'[i] = t) <=> (\E i \in Threads : task[i] = t)
      /\ (\E i \in Threads : t \in Queued(i)') <=> (\E i \in Threads : t \in Queued(i))
      /\ (\E i \in Threads : task'[i] = t /\ run'[i] = "callback")
           <=> (\E i \in Threads : task[i] = t /\ run[i] = "callback")
  OBVIOUS
<1>2. QED
  BY <1>1 DEF PhaseOf

(* A step of TaskLifecycle for one task.                                   *)
LEMMA MovesOn ==
  ASSUME NEW t \in Tasks, NEW from, NEW to, PhaseOf(t) = from, PhaseOf(t)' = to,
         \A s \in Tasks \ {t} : PhaseOf(s)' = PhaseOf(s),
         owner.op # "gone", owner'.op # "gone"
  PROVE  Lifecycle!MoveOn(t, from, to)
BY DEF Lifecycle!MoveOn

(* At most ThreadsCount tasks are being performed, and fewer while some    *)
(* thread holds none.                                                      *)
LEMMA BusyBound ==
  ASSUME PlaceInv, NEW i \in Threads, task[i] = NoTask
  PROVE  Cardinality(Lifecycle!Busy) < ThreadsCount
<1> DEFINE H == {j \in Threads : task[j] # NoTask}
           f == [j \in H |-> task[j]]
<1>1. Lifecycle!Busy = {task[j] : j \in H}
  <2>1. \A t \in Tasks : PhaseOf(t) \in {"working", "worked"} => \E j \in H : task[j] = t
    BY PoolAssumption DEF PhaseOf
  <2>2. \A j \in H : task[j] \in Tasks /\ PhaseOf(task[j]) \in {"working", "worked"}
    BY PhasesOfPlaces DEF PhaseFacts, PlaceInv, TypeInv, TypeOK
  <2>3. Lifecycle!Busy = {t \in Tasks : PhaseOf(t) \in {"working", "worked"}}
    BY DEF Lifecycle!Busy
  <2>4. QED
    BY <2>1, <2>2, <2>3
<1>2. /\ IsFiniteSet(Threads \ {i}) /\ Cardinality(Threads \ {i}) = ThreadsCount - 1
  <2>1. IsFiniteSet(Threads) /\ Cardinality(Threads) = ThreadsCount
    BY PoolAssumption, FS_Interval DEF Threads
  <2>2. QED
    BY <2>1, FS_RemoveElement
<1>3. IsFiniteSet(H) /\ Cardinality(H) <= ThreadsCount - 1
  <2>1. H \subseteq Threads \ {i}
    OBVIOUS
  <2>2. QED
    BY <1>2, <2>1, FS_Subset
<1>4. f \in Surjection(H, Lifecycle!Busy)
  BY <1>1 DEF Surjection
<1>5. Cardinality(Lifecycle!Busy) <= Cardinality(H)
  BY <1>3, <1>4, FS_Surjection
<1>6. Cardinality(Lifecycle!Busy) \in Nat /\ Cardinality(H) \in Nat
  BY <1>3, <1>4, FS_Surjection, FS_CardinalityType
<1>7. QED
  BY <1>3, <1>5, <1>6, PoolAssumption

LEMMA InitLifecycle == Init => Lifecycle!LifecycleInit
<1> SUFFICES ASSUME Init PROVE Lifecycle!LifecycleInit
  OBVIOUS
<1>1. PhaseFacts /\ \A t \in Tasks : stamp[t] = 0
  BY InitPlaceInv, PhasesOfPlaces DEF Init
<1>2. owner.op # "gone"
  BY AtType DEF Init, OwnerOps
<1>3. QED
  BY <1>1, <1>2 DEF PhaseFacts, Lifecycle!LifecycleInit

LEMMA EnqueueSubmits ==
  ASSUME LifeInv, LifeInv', NEW i \in Threads, NEW t \in Tasks, NEW p \in Priority,
         Enqueue(i, t, p), stamp[t] = 0, UNCHANGED <<run, task, owner>>, owner.op # "gone"
  PROVE  Lifecycle!Submit(t)
<1> USE DEF LifeInv, PlaceInv, TypeInv
<1>1. /\ mTasks[i] \in Seq(Tasks) /\ Len(mTasks[i]) \in Nat
      /\ Position(p, Len(mTasks[i])) \in 1 .. Len(mTasks[i]) + 1
  BY PositionInList DEF TypeOK
<1>2. /\ Queued(i)' = Queued(i) \cup {t}
      /\ \A j \in Threads \ {i} : Queued(j)' = Queued(j)
  <2>1. Range(mTasks'[i]) = Range(mTasks[i]) \cup {t}
    BY <1>1, EnqueueType, InsertAtRange
  <2>2. \A j \in Threads \ {i} : mTasks'[j] = mTasks[j]
    BY EnqueueType
  <2>3. QED
    BY <2>1, <2>2 DEF Queued
<1>3. PhaseOf(t) = "new"
  BY PhasesOfPlaces DEF PhaseFacts
<1>4. PhaseFacts'
  BY PhasesOfPlaces, PTL
<1>5. PhaseOf(t)' = "queued"
  BY <1>2, <1>4 DEF PhaseFacts
<1>6. ASSUME NEW s \in Tasks \ {t} PROVE PhaseOf(s)' = PhaseOf(s)
  <2>1. finished'[s] = finished[s] /\ stamp'[s] = stamp[s]
    BY DEF Enqueue, TypeOK
  <2>2. \A j \in Threads : s \in Queued(j)' <=> s \in Queued(j)
    BY <1>2
  <2>3. QED
    BY <2>1, <2>2, SamePhase
<1>7. QED
  BY <1>3, <1>5, <1>6, MovesOn DEF Lifecycle!Submit

(* Once the pool is gone no thread of it takes a step.                     *)
LEMMA RunInPool ==
  ASSUME LifeInv, NEW i \in Threads, RunStep(i)
  PROVE  owner.op # "gone"
<1>1. run[i] # "none"
  BY DEF RunStep, RunCheck, RunWait, RunRetry, RunTake, RunWork, RunCallback, RunThrow, Goto
<1>2. QED
  BY <1>1 DEF LifeInv, OwnerInv, LoopOK, Quiet

LEMMA TakeTakes ==
  ASSUME LifeInv, LifeInv', NEW i \in Threads, RunTake(i)
  PROVE  \E t \in Tasks : Lifecycle!Take(t)
<1> USE DEF LifeInv, PlaceInv, TypeInv
<1>1. mTasks[i] \in Seq(Tasks) /\ Len(mTasks[i]) > 0
  BY DEF RunTake, HasWork, TaskCount, TypeOK
<1>2. PICK t \in Tasks : t = Head(mTasks[i])
  BY <1>1, TailProperties
<1>3. t # NoTask /\ Queued(i) = Range(Tail(mTasks[i])) \cup {t}
  BY <1>2, <1>1, TailRange, PoolAssumption DEF Queued
<1>4. /\ task[i] = NoTask /\ task'[i] = t /\ mTasks'[i] = Tail(mTasks[i])
      /\ run'[i] = "work"
      /\ \A j \in Threads \ {i} : /\ task'[j] = task[j] /\ mTasks'[j] = mTasks[j]
                                  /\ run'[j] = run[j]
      /\ UNCHANGED <<stamp, finished, owner>>
  <2>1. run[i] = "lock" /\ task[i] = NoTask
    BY DEF RunTake, Goto, TaskInOnePlace, Holding
  <2>2. QED
    BY <1>2, <2>1 DEF RunTake, Goto, TypeOK, history
<1>5. /\ Queued(i)' = Range(Tail(mTasks[i]))
      /\ \A j \in Threads \ {i} : Queued(j)' = Queued(j)
  BY <1>4 DEF Queued
<1>6. PhaseOf(t) = "queued"
  BY <1>3, PhasesOfPlaces DEF PhaseFacts
<1>7. PhaseFacts'
  BY PhasesOfPlaces, PTL
<1>8. PhaseOf(t)' = "working"
  BY <1>3, <1>4, <1>7 DEF PhaseFacts
<1>9. ASSUME NEW s \in Tasks \ {t} PROVE PhaseOf(s)' = PhaseOf(s)
  <2>1. \A j \in Threads : s \in Queued(j)' <=> s \in Queued(j)
    BY <1>3, <1>5
  <2>2. \A j \in Threads : /\ task'[j] = s <=> task[j] = s
                           /\ task[j] = s => run'[j] = run[j]
    BY <1>4, PoolAssumption
  <2>3. QED
    BY <1>4, <2>1, <2>2, SamePhase
<1>10. owner.op # "gone" /\ owner'.op # "gone"
  BY <1>4, RunInPool DEF RunStep
<1>11. Cardinality(Lifecycle!Busy) < ThreadsCount
  BY <1>4, BusyBound
<1>12. Lifecycle!MoveOn(t, "queued", "working")
  BY <1>6, <1>8, <1>9, <1>10, MovesOn
<1>13. Lifecycle!Take(t)
  BY <1>11, <1>12 DEF Lifecycle!Take, Lifecycle!Cardinality, Cardinality
<1>14. QED
  BY <1>13

LEMMA WorkPerforms ==
  ASSUME LifeInv, LifeInv', NEW i \in Threads, RunWork(i)
  PROVE  \E t \in Tasks : Lifecycle!Perform(t)
<1> USE DEF LifeInv, PlaceInv, TypeInv
<1>1. PICK t \in Tasks : t = task[i] /\ t # NoTask
  BY DEF RunWork, Goto, Holding, TaskInOnePlace, TypeOK
<1>2. /\ run[i] = "work" /\ run'[i] = "callback"
      /\ \A j \in Threads \ {i} : run'[j] = run[j]
      /\ UNCHANGED <<mTasks, task, stamp, finished, owner>>
  BY DEF RunWork, Goto, TypeOK, history
<1>3. PhaseOf(t) = "working"
  BY <1>1, <1>2, PhasesOfPlaces DEF PhaseFacts
<1>4. PhaseFacts'
  BY PhasesOfPlaces, PTL
<1>5. PhaseOf(t)' = "worked"
  BY <1>1, <1>2, <1>4 DEF PhaseFacts
<1>6. ASSUME NEW s \in Tasks \ {t} PROVE PhaseOf(s)' = PhaseOf(s)
  <2>1. \A j \in Threads : s \in Queued(j)' <=> s \in Queued(j)
    BY <1>2 DEF Queued
  <2>2. QED
    BY <1>1, <1>2, <2>1, SamePhase
<1>7. owner.op # "gone" /\ owner'.op # "gone"
  BY <1>2, RunInPool DEF RunStep
<1>8. QED
  BY <1>1, <1>3, <1>5, <1>6, <1>7, MovesOn DEF Lifecycle!Perform

LEMMA CallbackNotifies ==
  ASSUME LifeInv, LifeInv', NEW i \in Threads, RunCallback(i)
  PROVE  \E t \in Tasks : Lifecycle!Notify(t)
<1> USE DEF LifeInv, PlaceInv, TypeInv
<1>1. PICK t \in Tasks : t = task[i] /\ t # NoTask /\ finished[t] = 0
  BY DEF RunCallback, Goto, Holding, TaskInOnePlace, TypeOK
<1>2. /\ run[i] = "callback" /\ task'[i] = NoTask /\ finished'[t] = 1
      /\ \A s \in Tasks \ {t} : finished'[s] = finished[s]
      /\ \A j \in Threads \ {i} : run'[j] = run[j] /\ task'[j] = task[j]
      /\ UNCHANGED <<mTasks, stamp, owner>>
  BY <1>1 DEF RunCallback, Goto, TypeOK
<1>3. PhaseOf(t) = "worked"
  BY <1>1, <1>2, PhasesOfPlaces DEF PhaseFacts
<1>4. PhaseFacts'
  BY PhasesOfPlaces, PTL
<1>5. PhaseOf(t)' = "done"
  BY <1>2, <1>4 DEF PhaseFacts
<1>6. ASSUME NEW s \in Tasks \ {t} PROVE PhaseOf(s)' = PhaseOf(s)
  <2>1. \A j \in Threads : s \in Queued(j)' <=> s \in Queued(j)
    BY <1>2 DEF Queued
  <2>2. \A j \in Threads : /\ task'[j] = s <=> task[j] = s
                           /\ task[j] = s => run'[j] = run[j]
    BY <1>1, <1>2, PoolAssumption
  <2>3. QED
    BY <1>2, <2>1, <2>2, SamePhase
<1>7. owner.op # "gone" /\ owner'.op # "gone"
  BY <1>2, RunInPool DEF RunStep
<1>8. QED
  BY <1>1, <1>3, <1>5, <1>6, <1>7, MovesOn DEF Lifecycle!Notify

(* The destructor ends when every thread is quiet.                         *)
LEMMA DestroyedCloses ==
  ASSUME LifeInv, LifeInv', Destroyed
  PROVE  Lifecycle!Close
<1> USE DEF LifeInv, PlaceInv, TypeInv
<1>1. /\ owner.op = "destroy" /\ owner.at = ThreadsCount + 1
      /\ owner'.op = "gone"
      /\ UNCHANGED <<run, task, stamp, finished>>
      /\ \A i \in Threads : Queued(i)' = {}
  BY AtType DEF Destroyed, OwnerOps, Queued, Range, history
<1>2. \A i \in Threads : task[i] = NoTask
  <2>1. \A i \in Threads : i < owner.at
    BY <1>1, PoolAssumption DEF Threads
  <2>2. \A i \in Threads : i < owner.at => Quiet(i)
    BY <1>1 DEF OwnerInv, LoopOK
  <2>3. QED
    BY <2>1, <2>2 DEF Quiet
<1>3. Lifecycle!Busy = {}
  <2>1. \A t \in Tasks : PhaseOf(t) \notin {"working", "worked"}
    BY <1>2, PoolAssumption DEF PhaseOf
  <2>2. QED
    BY <2>1 DEF Lifecycle!Busy
<1>4. ASSUME NEW t \in Tasks
      PROVE  PhaseOf(t)' = IF PhaseOf(t) = "queued" THEN "dropped" ELSE PhaseOf(t)
  <2>1. \A i \in Threads : task[i] # t /\ task'[i] # t
    BY <1>1, <1>2, PoolAssumption
  <2>2. CASE \E i \in Threads : t \in Queued(i)
    <3>1. PhaseOf(t) = "queued"
      BY <2>2, PhasesOfPlaces DEF PhaseFacts
    <3>2. finished'[t] = 0 /\ stamp'[t] > 0
      BY <1>1, <2>2 DEF TaskInOnePlace
    <3>3. PhaseOf(t)' = "dropped"
      BY <1>1, <2>1, <3>2 DEF PhaseOf
    <3>4. QED
      BY <3>1, <3>3
  <2>3. CASE \A i \in Threads : t \notin Queued(i)
    <3>1. PhaseOf(t)' = PhaseOf(t)
      BY <1>1, <2>1, <2>3, SamePhase
    <3>2. PhaseOf(t) # "queued"
      BY <2>1, <2>3 DEF PhaseOf
    <3>3. QED
      BY <3>1, <3>2
  <2>4. QED
    BY <2>2, <2>3
<1>5. QED
  BY <1>1, <1>3, <1>4 DEF Lifecycle!Close

(* A step that moves no task and does not end the pool is no step of       *)
(* TaskLifecycle.                                                          *)
LEMMA NothingMoves ==
  ASSUME UNCHANGED <<mTasks, task, stamp, finished>>,
         owner'.op = "gone" <=> owner.op = "gone",
         \A i \in Threads : task[i] # NoTask => (run'[i] = "callback" <=> run[i] = "callback")
  PROVE  UNCHANGED Lifecycle!avars
<1>1. ASSUME NEW t \in Tasks PROVE PhaseOf(t)' = PhaseOf(t)
  <2>1. \A i \in Threads : t \in Queued(i)' <=> t \in Queued(i)
    BY DEF Queued
  <2>2. \A i \in Threads : task[i] = t => (run'[i] = "callback" <=> run[i] = "callback")
    BY PoolAssumption
  <2>3. QED
    BY <2>1, <2>2, SamePhase
<1>2. QED
  BY <1>1 DEF Lifecycle!avars

LEMMA NextLifecycle ==
  LifeInv /\ LifeInv' /\ [Next]_vars => [Lifecycle!LifecycleNext]_(Lifecycle!avars)
<1> SUFFICES ASSUME LifeInv, LifeInv', [Next]_vars
             PROVE  Lifecycle!LifecycleNext \/ UNCHANGED Lifecycle!avars
  OBVIOUS
<1> USE DEF LifeInv, PlaceInv, TypeInv
<1>1. CASE UNCHANGED vars
  BY <1>1, NothingMoves DEF vars, codeVars, history
<1>2. ASSUME NEW c \in Clients, ClientStep(c)
      PROVE  Lifecycle!LifecycleNext \/ UNCHANGED Lifecycle!avars
  <2>1. CASE AddTo(c)
    <3>1. PICK t \in Tasks, p \in Priority, i \in Threads : Fresh(t) /\ Enqueue(i, t, p)
      BY <2>1 DEF AddTo
    <3>2. Lifecycle!Submit(t)
      BY <2>1, <3>1, EnqueueSubmits DEF AddTo, Fresh, PoolAlive
    <3>3. QED
      BY <3>2 DEF Lifecycle!LifecycleNext
  <2>2. CASE AddChosen(c)
    <3>1. PICK t \in Tasks : t = calls[c].task
      BY <2>2, CallType DEF AddChosen, Choosing
    <3>2. /\ calls[c].index \in Threads /\ calls[c].priority \in Priority
          /\ owner.op # "gone" /\ stamp[t] = 0
      BY <2>2, <3>1, CallType DEF AddChosen, FreshOK, CallsAlive
    <3>3. PICK i \in Threads, p \in Priority : Enqueue(i, t, p)
      BY <2>2, <3>1, <3>2 DEF AddChosen
    <3>4. Lifecycle!Submit(t)
      BY <2>2, <3>2, <3>3, EnqueueSubmits DEF AddChosen
    <3>5. QED
      BY <3>4 DEF Lifecycle!LifecycleNext
  <2>3. CASE ChooseBegin(c) \/ CountFirst(c) \/ CountSecond(c)
    BY <2>3, NothingMoves DEF ChooseBegin, CountFirst, CountSecond, history
  <2>4. QED
    BY <1>2, <2>1, <2>2, <2>3 DEF ClientStep
<1>3. ASSUME NEW i \in Threads, RunStep(i)
      PROVE  Lifecycle!LifecycleNext \/ UNCHANGED Lifecycle!avars
  <2>1. CASE RunTake(i)
    BY <2>1, TakeTakes DEF Lifecycle!LifecycleNext
  <2>2. CASE RunWork(i)
    BY <2>2, WorkPerforms DEF Lifecycle!LifecycleNext
  <2>3. CASE RunCallback(i)
    BY <2>3, CallbackNotifies DEF Lifecycle!LifecycleNext
  <2>4. CASE RunCheck(i) \/ RunWait(i) \/ RunRetry(i) \/ RunThrow(i)
    <3>1. UNCHANGED <<mTasks, task, stamp, finished, owner>>
      BY <2>4 DEF RunCheck, RunWait, RunRetry, RunThrow, history
    <3>2. \A j \in Threads : run'[j] = "callback" <=> run[j] = "callback"
      BY <2>4 DEF RunCheck, RunWait, RunRetry, RunThrow, Goto, TypeOK
    <3>3. QED
      BY <3>1, <3>2, NothingMoves
  <2>5. QED
    BY <1>3, <2>1, <2>2, <2>3, <2>4 DEF RunStep
<1>4. CASE OwnerStep
  <2>1. CASE Destroyed
    BY <2>1, DestroyedCloses DEF Lifecycle!LifecycleNext
  <2>2. CASE ~Destroyed
    <3>1. UNCHANGED <<mTasks, task, stamp, finished>>
      BY <1>4, <2>2 DEF OwnerStep, OwnerCalls, StartThread, StopThread, JoinThread,
                        OwnerReturns, history
    <3>2. \A i \in Threads : run'[i] = "callback" <=> run[i] = "callback"
      BY <1>4, <2>2 DEF OwnerStep, OwnerCalls, StartThread, StopThread, JoinThread,
                        OwnerReturns, TypeOK
    <3>3. owner.op # "gone" /\ owner'.op # "gone"
      BY <1>4, <2>2, OwnerStays
    <3>4. QED
      BY <3>1, <3>2, <3>3, NothingMoves
  <2>3. QED
    BY <2>1, <2>2
<1>5. QED
  BY <1>1, <1>2, <1>3, <1>4 DEF Next, Over

(* The pool implements the life cycle of its tasks, however many threads,  *)
(* clients and tasks there are: each is performed once, its work before    *)
(* its callback, at most ThreadsCount of them at a time, and none is given *)
(* up before the destructor has stopped every thread.                      *)
THEOREM ImplementsLifecycleHolds == Spec => ImplementsLifecycle
<1>1. LifeInv /\ [Next]_vars => LifeInv'
  BY NextLifeInv
<1>2. QED
  BY <1>1, InitLifeInv, InitLifecycle, NextLifecycle, PTL
     DEF Spec, ImplementsLifecycle, Lifecycle!LifecycleSpec

=============================================================================
