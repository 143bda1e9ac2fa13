------------------------- MODULE SingletonCountProofs -------------------------
(***************************************************************************)
(* The count in the mapping and the object behind it, for any number of    *)
(* processes: what holds whatever crashes, throws or fails, as long as two *)
(* threads are never inside the mutex together, and, for processes of one  *)
(* thread when nothing goes wrong, that the instance is a SharedObject.    *)
(***************************************************************************)
EXTENDS SingletonProofs

-----------------------------------------------------------------------------
(***************************************************************************)
(* Counting.  The processes that CountIsUsers counts are CountedProcesses, *)
(* which a step changes by one process at most.                            *)
(***************************************************************************)

Hosts     == {p \in Processes : \E t \in Threads : ProcessOf[t] = p}
Builds(p) == \E t \in Threads : ProcessOf[t] = p /\ at[t] = "build"
Lasts(p)  == \E t \in Threads : ProcessOf[t] = p /\ at[t] = "last"

CountedProcesses == {p \in Hosts : Builds(p) \/ (mPtr[p] /\ ~Lasts(p))}

LEMMA FiniteThreads ==
  ASSUME NEW S \in SUBSET Threads
  PROVE  IsFiniteSet(S) /\ Cardinality(S) \in Nat /\ Cardinality(S) <= Cardinality(Threads)
  BY SingletonAssumption, FS_Subset, FS_CardinalityType DEF SingletonAssumption

LEMMA FiniteHosts ==
  ASSUME NEW S \in SUBSET Hosts
  PROVE  IsFiniteSet(S) /\ Cardinality(S) \in Nat /\ Cardinality(S) <= Cardinality(Threads)
<1> DEFINE f == [t \in Threads |-> ProcessOf[t]]
<1>1. f \in Surjection(Threads, Hosts)
  <2>1. f \in [Threads -> Hosts]
    BY SingletonAssumption DEF Hosts, SingletonAssumption
  <2>2. \A p \in Hosts : \E t \in Threads : f[t] = p
    BY DEF Hosts
  <2> HIDE DEF f
  <2>3. QED
    BY <2>1, <2>2 DEF Surjection
<1> HIDE DEF f
<1>2. IsFiniteSet(Threads) /\ Cardinality(Threads) \in Nat
  BY FiniteThreads
<1>3. IsFiniteSet(Hosts) /\ Cardinality(Hosts) <= Cardinality(Threads)
  BY <1>1, <1>2, FS_Surjection
<1>4. Cardinality(Hosts) \in Nat
  BY <1>3, FS_CardinalityType
<1>5. IsFiniteSet(S) /\ Cardinality(S) \in Nat /\ Cardinality(S) <= Cardinality(Hosts)
  BY <1>3, FS_Subset, FS_CardinalityType
<1>6. QED
  BY <1>2, <1>3, <1>4, <1>5

LEMMA DifferenceCounted ==
  ASSUME NEW S, NEW T, NEW D, IsFiniteSet(S), IsFiniteSet(T),
         S \cap T = {}, (S \cup T) \cap D = D
  PROVE  Cardinality((S \cup T) \ D) = Cardinality(S) + Cardinality(T) - Cardinality(D)
<1>1. IsFiniteSet(S \cup T) /\ Cardinality(S \cup T) = Cardinality(S) + Cardinality(T) - Cardinality(S \cap T)
  BY FS_Union, Zenon
<1>2. Cardinality(S \cap T) = 0
  BY FS_EmptySet
<1>3. Cardinality(S) \in Nat /\ Cardinality(T) \in Nat
  BY FS_CardinalityType
<1>4. Cardinality((S \cup T) \ D) = Cardinality(S \cup T) - Cardinality((S \cup T) \cap D)
  BY <1>1, FS_Difference, Zenon
<1>5. Cardinality((S \cup T) \cap D) = Cardinality(D)
  OBVIOUS
<1>6. Cardinality(D) \in Nat
  <2>1. D \subseteq S \cup T
    OBVIOUS
  <2>2. QED
    BY <1>1, <2>1, FS_Subset, FS_CardinalityType
<1>7. Cardinality(S \cup T) = Cardinality(S) + Cardinality(T)
  BY <1>1, <1>2, <1>3
<1>8. Cardinality((S \cup T) \ D) = Cardinality(S \cup T) - Cardinality(D)
  BY <1>4, <1>5, Zenon
<1>9. QED
  BY <1>3, <1>6, <1>7, <1>8

LEMMA ThreadsCount == Cardinality(Threads) \in Nat
  BY FiniteThreads

-----------------------------------------------------------------------------
(***************************************************************************)
(* Who has the instance, whatever goes wrong.                              *)
(***************************************************************************)

ViewMapped  == \A p \in Processes : mMemory[p] => mHandle[p]
UserViews   == \A p \in Processes : mPtr[p] => mMemory[p] /\ \E t \in Threads : ProcessOf[t] = p
NotYet      == \A t \in Threads : at[t] \in {"count", "build"} => ~mPtr[ProcessOf[t]]
HasInstance == \A t \in Threads : at[t] \in {"hook", "last"} => mPtr[ProcessOf[t]]
BuildViews  == \A t \in Threads : at[t] = "build" => mMemory[ProcessOf[t]]
LastAtZero  == \A t \in Threads : at[t] = "last" => memory.count = 0

(* Until OnPerInstanceUninitialize throws.                                 *)
Covers      == threw = {} => memory.count >= Cardinality(CountedProcesses)
BuildsFirst == threw = {} => \A t \in Threads : at[t] = "build" => Users = {}

InstanceInv == ViewMapped /\ UserViews /\ NotYet /\ HasInstance /\ BuildViews
CountInv    == InstanceInv /\ LastAtZero /\ Covers /\ BuildsFirst

(* Of the threads that hold the mutex there is one.                        *)
LEMMA OneHolds ==
  ASSUME MutexInv, NEW t \in Threads, NEW u \in Threads, at[t] \in Holding, at[u] \in Holding
  PROVE  t = u
  BY DEF MutexInv, HoldsIt

(* A process has at most one of them.                                      *)
LEMMA OnePerProcess ==
  ASSUME MutexInv, NEW label \in Holding,
         NEW hosts, hosts = {p \in Hosts : \E t \in Threads : ProcessOf[t] = p /\ at[t] = label}
  PROVE  Cardinality(hosts) = Cardinality(ThreadsAt(label))
<1> DEFINE f == [t \in ThreadsAt(label) |-> ProcessOf[t]]
<1>1. f \in [ThreadsAt(label) -> hosts]
  BY SingletonAssumption DEF ThreadsAt, Hosts, SingletonAssumption
<1>2. \A t, u \in ThreadsAt(label) : f[t] = f[u] => t = u
  BY OneHolds DEF ThreadsAt
<1>3. \A p \in hosts : \E t \in ThreadsAt(label) : f[t] = p
  BY DEF ThreadsAt
<1>4. IsFiniteSet(ThreadsAt(label))
  BY FiniteThreads DEF ThreadsAt
<1> HIDE DEF f
<1>5. f \in Injection(ThreadsAt(label), hosts) /\ f \in Surjection(ThreadsAt(label), hosts)
  BY <1>1, <1>2, <1>3 DEF Injection, IsInjective, Surjection
<1>6. QED
  BY <1>4, <1>5, FS_Surjection

(* The count says how many have the instance.                              *)
LEMMA UsersCounted ==
  ASSUME MutexInv, InstanceInv
  PROVE  Cardinality(CountedProcesses) =
           Cardinality(Users) + Cardinality(ThreadsAt("build")) - Cardinality(ThreadsAt("last"))
<1> DEFINE building == {p \in Hosts : \E t \in Threads : ProcessOf[t] = p /\ at[t] = "build"}
           lasting  == {p \in Hosts : \E t \in Threads : ProcessOf[t] = p /\ at[t] = "last"}
<1>1. Cardinality(building) = Cardinality(ThreadsAt("build"))
  BY OnePerProcess DEF Holding
<1>2. Cardinality(lasting) = Cardinality(ThreadsAt("last"))
  BY OnePerProcess DEF Holding
<1>3. \A p \in Hosts : ~(Builds(p) /\ Lasts(p))
  BY OneHolds DEF Builds, Lasts, Holding
<1>4. Users \subseteq Hosts
  BY DEF Users, Hosts, InstanceInv, UserViews
<1>5. CountedProcesses = (Users \cup building) \ lasting
  BY <1>3, <1>4 DEF CountedProcesses, Builds, Lasts, Users, Hosts
<1>6. Users \cap building = {}
  BY DEF Users, InstanceInv, NotYet
<1>7. (Users \cup building) \cap lasting = lasting
  BY DEF Users, InstanceInv, HasInstance, Hosts
<1>8. IsFiniteSet(Users) /\ IsFiniteSet(building)
  BY <1>4, FiniteHosts
<1> HIDE DEF building, lasting
<1>9. Cardinality((Users \cup building) \ lasting) =
        Cardinality(Users) + Cardinality(building) - Cardinality(lasting)
  BY <1>6, <1>7, <1>8, DifferenceCounted
<1>10. QED
  BY <1>1, <1>2, <1>5, <1>9, Zenon

LEMMA InstanceInvStep ==
  ASSUME TypeInv, MutexInv, InstanceInv, [Next]_vars
  PROVE  InstanceInv'
<1>0. \A t, u \in Threads : at[t] \in Holding /\ at[u] \in Holding => t = u
  BY OneHolds
<1> USE SingletonAssumption
<1> USE DEF SingletonAssumption, TypeInv, TypeParts, Labels,
            InstanceInv, ViewMapped, UserViews, NotYet, HasInstance, BuildViews
<1>1. ASSUME NEW t \in Threads, GetInstance(t) PROVE InstanceInv'
  BY <1>1 DEF GetInstance, Call, Goto, kernel, statics
<1>2. ASSUME NEW t \in Threads, DeleteInstance(t) PROVE InstanceInv'
  BY <1>2 DEF DeleteInstance, Call, Goto, kernel, statics
<1>3. ASSUME NEW t \in Threads, Exit(t) PROVE InstanceInv'
  BY <1>3 DEF Exit, Call, Goto, kernel, statics
<1>4. ASSUME NEW t \in Threads, CreateMutex(t) PROVE InstanceInv'
  BY <1>4 DEF CreateMutex, Goto, kernel, statics
<1>5. ASSUME NEW t \in Threads, CreateMutexOpens(t) PROVE InstanceInv'
  BY <1>5 DEF CreateMutexOpens, Goto, OpenMutex
<1>5f. ASSUME NEW t \in Threads, CreateMutexFails(t) PROVE InstanceInv'
  BY <1>5f DEF CreateMutexFails, Leave, Goto, kernel
<1>6. ASSUME NEW t \in Threads, LockThrows(t) PROVE InstanceInv'
  BY <1>6 DEF LockThrows, Leave, kernel, statics
<1>7. ASSUME NEW t \in Threads, LockChecked(t) PROVE InstanceInv'
  BY <1>7 DEF LockChecked, Goto, kernel, statics
<1>8. ASSUME NEW t \in Threads, LockWaits(t) PROVE InstanceInv'
  BY <1>8 DEF LockWaits, Goto, kernel, statics
<1>9. ASSUME NEW t \in Threads, MutexGranted(t) PROVE InstanceInv'
  BY <1>9 DEF MutexGranted, statics
<1>10. ASSUME NEW t \in Threads, LockStores(t) PROVE InstanceInv'
  BY <1>10 DEF LockStores, kernel
<1>11. ASSUME NEW t \in Threads, LockFails(t) PROVE InstanceInv'
  BY <1>11 DEF LockFails, Leave, kernel, statics
<1>12. ASSUME NEW t \in Threads, LockReturns(t) PROVE InstanceInv'
  BY <1>0, <1>12 DEF Holding, LockReturns, Goto, kernel, statics
<1>13. ASSUME NEW t \in Threads, NothingToDo(t) PROVE InstanceInv'
  BY <1>0, <1>13 DEF Holding, NothingToDo, Goto, kernel, statics
<1>14. ASSUME NEW t \in Threads, CreateMemory(t) PROVE InstanceInv'
  BY <1>0, <1>14 DEF Holding, CreateMemory, Goto, kernel, statics
<1>15. ASSUME NEW t \in Threads, CountUp(t) PROVE InstanceInv'
  BY <1>0, <1>15 DEF Holding, CountUp, Goto
<1>16. ASSUME NEW t \in Threads, Build(t) PROVE InstanceInv'
  BY <1>0, <1>16 DEF Holding, Build, Goto
<1>17. ASSUME NEW t \in Threads, Initialized(t) PROVE InstanceInv'
  BY <1>0, <1>17 DEF Holding, Initialized, Goto, kernel, statics
<1>18. ASSUME NEW t \in Threads, CountDown(t) PROVE InstanceInv'
  BY <1>0, <1>18 DEF Holding, CountDown, IsLast, Goto
<1>19. ASSUME NEW t \in Threads, DestroyLast(t) PROVE InstanceInv'
  BY <1>0, <1>19 DEF Holding, DestroyLast, Goto
<1>20. ASSUME NEW t \in Threads, UnlockReturns(t) PROVE InstanceInv'
  BY <1>20 DEF UnlockReturns, Leave, kernel, statics
<1>21. ASSUME NEW t \in Threads, Unlock(t) PROVE InstanceInv'
  BY <1>21 DEF Unlock, Goto, kernel, statics
<1>22. ASSUME NEW t \in Threads, UnlockStores(t) PROVE InstanceInv'
  BY <1>22 DEF UnlockStores, Leave, kernel
<1>23. ASSUME NEW t \in Threads, ThreadEnds(t) PROVE InstanceInv'
  BY <1>23 DEF ThreadEnds, Goto, statics
<1>24. ASSUME NEW p \in Processes, ProcessEnds(p) PROVE InstanceInv'
  BY <1>24 DEF ProcessEnds, ThreadsOf
<1>25. ASSUME NEW p \in Processes, Start(p) PROVE InstanceInv'
  BY <1>25 DEF Start, kernel, statics
<1>26. CASE UNCHANGED vars
  BY <1>26 DEF vars, kernel, statics
<1>27. QED
  BY <1>1, <1>2, <1>3, <1>4, <1>5, <1>6, <1>7, <1>8, <1>9, <1>10, <1>11, <1>12,
     <1>13, <1>14, <1>15, <1>16, <1>17, <1>18, <1>19, <1>20, <1>21, <1>22,
     <1>23, <1>24, <1>25, <1>26, <1>5f DEF Next, Works, Ends, Crash, Over

-----------------------------------------------------------------------------
(***************************************************************************)
(* How the count and those it counts move together.                        *)
(***************************************************************************)

CountKept == CountedProcesses' = CountedProcesses /\ memory'.count = memory.count

CountedOneUp ==
  \E t \in Threads :
    /\ at[t] = "count" /\ ProcessOf[t] \in Hosts \ CountedProcesses
    /\ CountedProcesses' = CountedProcesses \cup {ProcessOf[t]}
    /\ memory'.count = CountedUp(memory.count)

CountedOneDown ==
  \E t \in Threads :
    /\ at[t] = "section" /\ ProcessOf[t] \in CountedProcesses
    /\ memory'.count = Wrap(memory.count - 1)
    /\ memory'.count >= 0 =>
         CountedProcesses' = CountedProcesses \ {ProcessOf[t]} \/ (threw' # {} /\ Faults # {})

(* Who was counted is gone: Type() threw, or its process has ended.        *)
CountedLost ==
  /\ CountedProcesses' \subseteq CountedProcesses
  /\ memory'.count = memory.count
  /\ Faults # {} \/ \E p \in Processes : Ends(p) /\ CountedProcesses' = CountedProcesses \ {p}

CountGone == CountedProcesses' = {} /\ memory'.count = 0

CountMoves == CountKept \/ CountedOneUp \/ CountedOneDown \/ CountedLost \/ CountGone

(* The steps that have to do with the count are few.                       *)
Uncounted ==
  /\ UNCHANGED <<memory, mPtr>>
  /\ threw # {} => threw' # {}
  /\ \A t \in Threads : at'[t] = "build" <=> at[t] = "build"
  /\ \A t \in Threads : at'[t] = "last" <=> at[t] = "last"

Counting(t) == CountUp(t) \/ Build(t) \/ CountDown(t) \/ DestroyLast(t)

LEMMA CountingSteps ==
  ASSUME TypeInv, InstanceInv, [Next]_vars
  PROVE  \/ Uncounted
         \/ \E t \in Threads : Counting(t)
         \/ \E p \in Processes : ProcessEnds(p) /\ (Ends(p) \/ Crash(p))
<1> USE SingletonAssumption
<1> USE DEF SingletonAssumption, TypeInv, TypeParts, Labels, Uncounted
<1>1. ASSUME NEW t \in Threads, CreateMutex(t) PROVE Uncounted
  BY <1>1 DEF CreateMutex, Goto, kernel, statics
<1>2. ASSUME NEW t \in Threads, CreateMutexOpens(t) PROVE Uncounted
  BY <1>2 DEF CreateMutexOpens, Goto, OpenMutex
<1>2f. ASSUME NEW t \in Threads, CreateMutexFails(t) PROVE Uncounted
  BY <1>2f DEF CreateMutexFails, Leave, Goto, kernel
<1>3. ASSUME NEW t \in Threads, MutexGranted(t) PROVE Uncounted
  BY <1>3 DEF MutexGranted, statics
<1>4. ASSUME NEW t \in Threads, LockThrows(t) PROVE Uncounted
  BY <1>4 DEF LockThrows, Leave, kernel, statics
<1>5. ASSUME NEW t \in Threads, LockChecked(t) PROVE Uncounted
  BY <1>5 DEF LockChecked, Goto, kernel, statics
<1>6. ASSUME NEW t \in Threads, LockWaits(t) PROVE Uncounted
  BY <1>6 DEF LockWaits, Goto, kernel, statics
<1>7. ASSUME NEW t \in Threads, LockStores(t) PROVE Uncounted
  BY <1>7 DEF LockStores, kernel
<1>8. ASSUME NEW t \in Threads, LockFails(t) PROVE Uncounted
  BY <1>8 DEF LockFails, Leave, kernel, statics
<1>9. ASSUME NEW t \in Threads, LockReturns(t) PROVE Uncounted
  BY <1>9 DEF LockReturns, Goto, kernel, statics
<1>10. ASSUME NEW t \in Threads, NothingToDo(t) PROVE Uncounted
  BY <1>10 DEF NothingToDo, Goto, kernel, statics
<1>11. ASSUME NEW t \in Threads, CreateMemory(t) PROVE Uncounted
  BY <1>11 DEF CreateMemory, Goto, kernel, statics
<1>12. ASSUME NEW t \in Threads, Initialized(t) PROVE Uncounted
  BY <1>12 DEF Initialized, Goto, kernel, statics
<1>13. ASSUME NEW t \in Threads, UnlockReturns(t) PROVE Uncounted
  BY <1>13 DEF UnlockReturns, Leave, kernel, statics
<1>14. ASSUME NEW t \in Threads, Unlock(t) PROVE Uncounted
  BY <1>14 DEF Unlock, Goto, kernel, statics
<1>15. ASSUME NEW t \in Threads, UnlockStores(t) PROVE Uncounted
  BY <1>15 DEF UnlockStores, Leave, kernel
<1>16. ASSUME NEW t \in Threads, GetInstance(t) PROVE Uncounted
  BY <1>16 DEF GetInstance, Call, Goto, kernel, statics
<1>17. ASSUME NEW t \in Threads, DeleteInstance(t) PROVE Uncounted
  BY <1>17 DEF DeleteInstance, Call, Goto, kernel, statics
<1>18. ASSUME NEW t \in Threads, Exit(t) PROVE Uncounted
  BY <1>18 DEF Exit, Call, Goto, kernel, statics
<1>19. ASSUME NEW t \in Threads, ThreadEnds(t) PROVE Uncounted
  BY <1>19 DEF ThreadEnds, Goto, statics
<1>20. ASSUME NEW p \in Processes, Start(p) PROVE Uncounted
  BY <1>20 DEF Start, Alive, ThreadsOf, kernel, statics
<1>21. CASE UNCHANGED vars
  BY <1>21 DEF vars, kernel, statics
<1>22. QED
  BY <1>1, <1>2, <1>3, <1>4, <1>5, <1>6, <1>7, <1>8, <1>9, <1>10, <1>11, <1>12,
     <1>13, <1>14, <1>15, <1>16, <1>17, <1>18, <1>19, <1>20, <1>21, <1>2f
     DEF Next, Works, Ends, Crash, Over, Counting

(* A step of the thread that holds the mutex is no other process' matter,  *)
(* and nobody else is about to construct or destroy.                       *)
LEMMA HolderCounts ==
  ASSUME TypeInv, MutexInv, NEW t \in Threads, at[t] \in Holding,
         \A u \in Threads : u # t => at'[u] = at[u]
  PROVE  /\ ProcessOf[t] \in Hosts
         /\ \A q \in Hosts : q # ProcessOf[t] => (Builds(q)' <=> Builds(q)) /\ (Lasts(q)' <=> Lasts(q))
         /\ (Builds(ProcessOf[t]) <=> at[t] = "build") /\ (Builds(ProcessOf[t])' <=> at'[t] = "build")
         /\ (Lasts(ProcessOf[t]) <=> at[t] = "last") /\ (Lasts(ProcessOf[t])' <=> at'[t] = "last")
<1> USE SingletonAssumption DEF SingletonAssumption, TypeInv, TypeParts
<1>1. \A u \in Threads : at[u] \in Holding => u = t
  BY OneHolds
<1>2. ProcessOf[t] \in Hosts
  BY DEF Hosts
<1>3. \A q \in Hosts : q # ProcessOf[t] => (Builds(q)' <=> Builds(q)) /\ (Lasts(q)' <=> Lasts(q))
  BY DEF Builds, Lasts
<1>4. (Builds(ProcessOf[t]) <=> at[t] = "build") /\ (Builds(ProcessOf[t])' <=> at'[t] = "build")
  BY <1>1 DEF Builds, Holding
<1>5. (Lasts(ProcessOf[t]) <=> at[t] = "last") /\ (Lasts(ProcessOf[t])' <=> at'[t] = "last")
  BY <1>1 DEF Lasts, Holding
<1>6. QED
  BY <1>2, <1>3, <1>4, <1>5

LEMMA CountMovesStep ==
  ASSUME TypeInv, MutexInv, InstanceInv, [Next]_vars
  PROVE  CountMoves /\ (threw # {} => threw' # {})
<1>0. /\ at \in [Threads -> Labels] /\ mPtr \in [Processes -> BOOLEAN]
      /\ memory \in [count : -MaxCount - 1 .. MaxCount, object : {"raw", "built", "destroyed"}]
      /\ ProcessOf \in [Threads -> Processes] /\ Hosts \subseteq Processes
      /\ \A p \in Hosts : p \in Processes
  BY SingletonAssumption DEF TypeInv, TypeParts, SingletonAssumption, Hosts
<1> USE <1>0
<1> USE DEF InstanceInv, ViewMapped, UserViews, NotYet, HasInstance, BuildViews
<1>1. ASSUME NEW t \in Threads, CountUp(t) PROVE CountMoves /\ (threw # {} => threw' # {})
  <2> DEFINE p == ProcessOf[t]
  <2>1. /\ at[t] = "count" /\ ~mPtr[p] /\ p \in Hosts
        /\ memory'.count = CountedUp(memory.count)
        /\ threw' = threw
        /\ \/ at' = [at EXCEPT ![t] = "unlock"] /\ mPtr' = [mPtr EXCEPT ![p] = TRUE]
           \/ at' = [at EXCEPT ![t] = "build"] /\ mPtr' = mPtr
    BY <1>1 DEF CountUp, Goto, Hosts
  <2>2. /\ at'[t] \in {"unlock", "build"} /\ \A u \in Threads : u # t => at'[u] = at[u]
        /\ mPtr' = IF at'[t] = "unlock" THEN [mPtr EXCEPT ![p] = TRUE] ELSE mPtr
    BY <2>1
  <2>3. /\ \A q \in Hosts : q # p => (Builds(q)' <=> Builds(q)) /\ (Lasts(q)' <=> Lasts(q))
        /\ ~Builds(p) /\ (Builds(p)' <=> at'[t] = "build") /\ ~Lasts(p)'
    BY <2>1, <2>2, HolderCounts DEF Holding
  <2>4. p \notin CountedProcesses /\ CountedProcesses' = CountedProcesses \cup {p}
    BY <2>1, <2>2, <2>3 DEF CountedProcesses
  <2>5. QED
    BY <2>1, <2>4 DEF CountMoves, CountedOneUp
<1>2. ASSUME NEW t \in Threads, Build(t) PROVE CountMoves /\ (threw # {} => threw' # {})
  <2> DEFINE p == ProcessOf[t]
  <2>1. threw' = threw /\ at[t] = "build"
    BY <1>2 DEF Build, Goto
  <2>2. CASE mPtr' = [mPtr EXCEPT ![p] = TRUE] /\ at' = [at EXCEPT ![t] = "hook"]
    <3>1. /\ \A q \in Hosts : q # p => (Builds(q)' <=> Builds(q)) /\ (Lasts(q)' <=> Lasts(q))
          /\ p \in Hosts /\ Builds(p) /\ ~Lasts(p)'
      BY <2>1, <2>2, HolderCounts DEF Holding
    <3>2. CountedProcesses' = CountedProcesses
      BY <2>2, <3>1 DEF CountedProcesses
    <3>3. memory'.count = memory.count
      BY <1>2 DEF Build
    <3>4. QED
      BY <2>1, <3>2, <3>3 DEF CountMoves, CountKept
  <2>3. CASE "ctor" \in Faults /\ at' = [at EXCEPT ![t] = "unlock"] /\ UNCHANGED <<memory, mPtr>>
    <3>1. /\ \A q \in Hosts : q # p => (Builds(q)' <=> Builds(q)) /\ (Lasts(q)' <=> Lasts(q))
          /\ p \in Hosts /\ Builds(p)
      BY <2>1, <2>3, HolderCounts DEF Holding
    <3>2. CountedProcesses' \subseteq CountedProcesses
      BY <2>3, <3>1 DEF CountedProcesses
    <3>3. QED
      BY <2>1, <2>3, <3>2 DEF CountMoves, CountedLost
  <2>4. QED
    BY <1>2, <2>2, <2>3 DEF Build, Goto
<1>3. ASSUME NEW t \in Threads, CountDown(t) PROVE CountMoves /\ (threw # {} => threw' # {})
  <2> DEFINE p     == ProcessOf[t]
             count == Wrap(memory.count - 1)
             to    == IF count = 0 THEN "last" ELSE "unlock"
  <2>1. /\ at[t] = "section" /\ mPtr[p]
        /\ at' = [at EXCEPT ![t] = to]
        /\ memory'.count = count
        /\ threw # {} => threw' # {}
    BY <1>3 DEF CountDown, Goto, IsLast
  <2>2. /\ \A q \in Hosts : q # p => (Builds(q)' <=> Builds(q)) /\ (Lasts(q)' <=> Lasts(q))
        /\ p \in Hosts /\ ~Builds(p) /\ ~Builds(p)' /\ ~Lasts(p) /\ (Lasts(p)' <=> count = 0)
    <3>1. to # "build" /\ (to = "last" <=> count = 0)
      OBVIOUS
    <3> HIDE DEF to, count
    <3>2. QED
      BY <2>1, <3>1, HolderCounts DEF Holding
  <2>3. p \in CountedProcesses
    BY <2>1, <2>2 DEF CountedProcesses
  <2>4. ASSUME memory'.count >= 0
        PROVE  CountedProcesses' = CountedProcesses \ {p} \/ (threw' # {} /\ Faults # {})
    <3>1. \/ mPtr' = [mPtr EXCEPT ![p] = FALSE]
          \/ mPtr' = mPtr /\ count = 0
          \/ threw' # {} /\ Faults # {}
      <4>1. count \in Int
        BY SingletonAssumption, WrapType DEF SingletonAssumption
      <4>2. \/ mPtr' = [mPtr EXCEPT ![p] = FALSE]
            \/ mPtr' = mPtr /\ count <= 0
            \/ threw' # {} /\ Faults # {}
        BY <1>3, Zenon DEF CountDown
      <4>3. QED
        BY <2>1, <2>4, <4>1, <4>2
    <3>2. CASE mPtr' = [mPtr EXCEPT ![p] = FALSE]
      BY <2>2, <3>2 DEF CountedProcesses
    <3>3. CASE mPtr' = mPtr /\ count = 0
      BY <2>2, <3>3 DEF CountedProcesses
    <3>4. QED
      BY <3>1, <3>2, <3>3
  <2>5. QED
    BY <2>1, <2>3, <2>4 DEF CountMoves, CountedOneDown
<1>4. ASSUME NEW t \in Threads, DestroyLast(t) PROVE CountMoves /\ (threw # {} => threw' # {})
  <2> DEFINE p == ProcessOf[t]
  <2>1. /\ at[t] = "last" /\ at' = [at EXCEPT ![t] = "unlock"]
        /\ mPtr' = [mPtr EXCEPT ![p] = FALSE]
        /\ memory' = DestroyedLast(p)
        /\ threw' = threw
    BY <1>4 DEF DestroyLast, Goto
  <2>2. /\ \A q \in Hosts : q # p => (Builds(q)' <=> Builds(q)) /\ (Lasts(q)' <=> Lasts(q))
        /\ p \in Hosts /\ ~Builds(p) /\ ~Builds(p)' /\ Lasts(p)
    BY <2>1, HolderCounts DEF Holding
  <2>3. CountedProcesses' = CountedProcesses
    BY <2>1, <2>2 DEF CountedProcesses
  <2>4. CASE \E q \in Processes \ {p} : mHandle[q]
    BY <2>1, <2>3, <2>4 DEF DestroyedLast, CountMoves, CountKept
  <2>5. CASE ~\E q \in Processes \ {p} : mHandle[q]
    <3>1. memory'.count = 0
      BY <2>1, <2>5 DEF DestroyedLast, NewMapping
    <3>2. \A q \in Hosts : q # p => ~mPtr[q] /\ ~Builds(q)
      BY <2>5 DEF Builds
    <3>3. CountedProcesses' = {}
      BY <2>2, <2>3, <3>2 DEF CountedProcesses
    <3>4. QED
      BY <2>1, <3>1, <3>3 DEF CountMoves, CountGone
  <2>6. QED
    BY <2>4, <2>5
<1>5. ASSUME NEW p \in Processes, ProcessEnds(p), Ends(p) \/ Crash(p) PROVE CountMoves /\ (threw # {} => threw' # {})
  <2>1. /\ \A t \in Threads : at'[t] = IF ProcessOf[t] = p THEN "ended" ELSE at[t]
        /\ mPtr' = [mPtr EXCEPT ![p] = FALSE]
        /\ memory' = IF \E q \in Processes \ {p} : mHandle[q] THEN memory ELSE NewMapping
        /\ threw' = threw
    BY <1>5 DEF ProcessEnds, ThreadsOf
  <2>2. CountedProcesses' = CountedProcesses \ {p}
    <3>1. \A q \in Hosts : q # p => (Builds(q)' <=> Builds(q)) /\ (Lasts(q)' <=> Lasts(q))
      BY <2>1 DEF Builds, Lasts
    <3>2. ~Builds(p)'
      BY <2>1 DEF Builds
    <3>3. QED
      BY <2>1, <3>1, <3>2 DEF CountedProcesses
  <2>3. CASE \E q \in Processes \ {p} : mHandle[q]
    <3>1. memory' = memory
      BY <2>1, <2>3
    <3>2. CountedLost
      BY <1>5, <2>2, <3>1 DEF CountedLost, Crash
    <3>3. QED
      BY <2>1, <3>2 DEF CountMoves
  <2>4. CASE ~\E q \in Processes \ {p} : mHandle[q]
    <3>1. memory'.count = 0
      BY <2>1, <2>4 DEF NewMapping
    <3>2. \A q \in Hosts : q # p => ~mPtr[q] /\ ~Builds(q)
      BY <2>4 DEF Builds
    <3>3. CountedProcesses' = {}
      BY <2>2, <3>2 DEF CountedProcesses
    <3>4. QED
      BY <2>1, <3>1, <3>3 DEF CountMoves, CountGone
  <2>5. QED
    BY <2>3, <2>4
<1>6. CASE Uncounted
  BY <1>6 DEF Uncounted, CountMoves, CountKept, CountedProcesses, Builds, Lasts
<1>7. QED
  BY <1>1, <1>2, <1>3, <1>4, <1>5, <1>6, CountingSteps DEF Counting

(* What a step counted up or down, that of one process, was not counted,   *)
(* or was.                                                                 *)
LEMMA CountedAdd ==
  ASSUME NEW p \in Hosts \ CountedProcesses, CountedProcesses' = CountedProcesses \cup {p}
  PROVE  Cardinality(CountedProcesses') = Cardinality(CountedProcesses) + 1
<1>1. IsFiniteSet(CountedProcesses)
  BY FiniteHosts DEF CountedProcesses
<1>2. QED
  BY <1>1, FS_AddElement

LEMMA CountedRemove ==
  ASSUME NEW p \in CountedProcesses
  PROVE  /\ Cardinality(CountedProcesses) >= 1
         /\ CountedProcesses' = CountedProcesses \ {p} =>
              Cardinality(CountedProcesses') = Cardinality(CountedProcesses) - 1
<1>1. IsFiniteSet(CountedProcesses) /\ Cardinality(CountedProcesses) \in Nat
  BY FiniteHosts DEF CountedProcesses
<1>2. Cardinality(CountedProcesses) # 0
  BY <1>1, FS_EmptySet
<1>3. QED
  BY <1>1, <1>2, FS_RemoveElement

LEMMA NoneCounted ==
  ASSUME TypeInv, UserViews, Cardinality(CountedProcesses) <= 0
  PROVE  CountedProcesses = {} /\ \A p \in Processes : mPtr[p] => Lasts(p)
<1>1. IsFiniteSet(CountedProcesses) /\ Cardinality(CountedProcesses) \in Nat
  BY FiniteHosts DEF CountedProcesses
<1>2. CountedProcesses = {}
  BY <1>1, FS_EmptySet
<1>3. QED
  BY <1>2 DEF CountedProcesses, UserViews, Hosts

(* Whoever holds the mutex is the only one that counts.                    *)
LEMMA CounterHolds ==
  ASSUME MutexInv, NEW t \in Threads, at[t] \in Holding, NEW u \in Threads, Counting(u)
  PROVE  u = t
<1>1. at[u] \in Holding
  BY DEF Counting, CountUp, Build, CountDown, DestroyLast, Goto, Holding
<1>2. QED
  BY <1>1, OneHolds

(* Until OnPerInstanceUninitialize throws, nobody is about to count up from *)
(* the largest value.                                                      *)
NoOverflow == threw = {} => \A t \in Threads : at[t] = "count" => memory.count < MaxCount

LEMMA CoversStep ==
  ASSUME TypeInv, MutexInv, CountInv, NoOverflow, [Next]_vars
  PROVE  Covers'
<1> SUFFICES ASSUME threw' = {} PROVE memory'.count >= Cardinality(CountedProcesses')
  BY DEF Covers
<1> USE SingletonAssumption DEF SingletonAssumption
<1>1. CountMoves /\ threw = {}
  BY CountMovesStep DEF CountInv
<1>2. memory.count >= Cardinality(CountedProcesses)
  BY <1>1 DEF CountInv, Covers
<1>3. /\ memory.count \in -MaxCount - 1 .. MaxCount
      /\ Cardinality(CountedProcesses) \in Nat
  BY FiniteHosts DEF TypeInv, TypeParts, CountedProcesses
<1>4. CASE CountKept
  BY <1>2, <1>4 DEF CountKept
<1>5. CASE CountedOneUp
  <2>1. PICK t \in Threads :
          /\ at[t] = "count" /\ ProcessOf[t] \in Hosts \ CountedProcesses
          /\ CountedProcesses' = CountedProcesses \cup {ProcessOf[t]}
          /\ memory'.count = CountedUp(memory.count)
    BY <1>5 DEF CountedOneUp
  <2>2. Cardinality(CountedProcesses') = Cardinality(CountedProcesses) + 1
    BY <2>1, CountedAdd
  <2>3. memory'.count = memory.count + 1
    BY <1>1, <1>3, <2>1 DEF CountedUp, Wrap, NoOverflow
  <2>4. QED
    BY <1>2, <1>3, <2>2, <2>3
<1>6. CASE CountedOneDown
  <2>1. PICK t \in Threads :
          /\ ProcessOf[t] \in CountedProcesses
          /\ memory'.count = Wrap(memory.count - 1)
          /\ memory'.count >= 0 => CountedProcesses' = CountedProcesses \ {ProcessOf[t]}
    BY <1>6 DEF CountedOneDown
  <2>2. memory.count >= 1
    BY <1>2, <1>3, <2>1, CountedRemove
  <2>3. memory'.count = memory.count - 1 /\ memory'.count >= 0
    BY <1>3, <2>1, <2>2 DEF Wrap
  <2>4. Cardinality(CountedProcesses') = Cardinality(CountedProcesses) - 1
    BY <2>1, <2>3, CountedRemove
  <2>5. QED
    BY <1>2, <1>3, <2>3, <2>4
<1>7. CASE CountedLost
  <2>1. /\ CountedProcesses' \subseteq CountedProcesses
        /\ IsFiniteSet(CountedProcesses)
    BY <1>7, FiniteHosts DEF CountedLost, CountedProcesses
  <2>2. /\ Cardinality(CountedProcesses') \in Nat
        /\ Cardinality(CountedProcesses') <= Cardinality(CountedProcesses)
    BY <2>1, FS_Subset, FS_CardinalityType
  <2>3. QED
    BY <1>2, <1>3, <1>7, <2>2 DEF CountedLost
<1>8. CASE CountGone
  BY <1>8, FS_EmptySet DEF CountGone
<1>9. QED
  BY <1>1, <1>4, <1>5, <1>6, <1>7, <1>8 DEF CountMoves

LEMMA LastAtZeroStep ==
  ASSUME TypeInv, MutexInv, CountInv, [Next]_vars
  PROVE  LastAtZero'
<1> SUFFICES ASSUME NEW t \in Threads, at'[t] = "last" PROVE memory'.count = 0
  BY DEF LastAtZero
<1> USE SingletonAssumption DEF SingletonAssumption, TypeInv, TypeParts, Labels
<1>1. CASE Uncounted
  BY <1>1 DEF Uncounted, CountInv, LastAtZero
<1>2. ASSUME NEW u \in Threads, Counting(u) PROVE memory'.count = 0
  <2>1. CASE at[t] = "last"
    <3>1. u = t
      BY <1>2, <2>1, CounterHolds DEF Holding
    <3>2. QED
      BY <1>2, <2>1, <3>1 DEF Counting, CountUp, Build, CountDown, DestroyLast, Goto
  <2>2. CASE at[t] # "last"
    <3>1. CountDown(u) /\ u = t
      BY <1>2, <2>2 DEF Counting, CountUp, Build, CountDown, DestroyLast, Goto
    <3>2. QED
      BY <3>1 DEF CountDown, Goto, IsLast
  <2>3. QED
    BY <2>1, <2>2
<1>3. ASSUME NEW p \in Processes, ProcessEnds(p) PROVE memory'.count = 0
  <2>1. at[t] = "last"
    BY <1>3 DEF ProcessEnds
  <2>2. memory.count = 0
    BY <2>1 DEF CountInv, LastAtZero
  <2>3. QED
    BY <1>3, <2>2 DEF ProcessEnds, NewMapping
<1>4. QED
  BY <1>1, <1>2, <1>3, CountingSteps DEF CountInv

LEMMA BuildsFirstStep ==
  ASSUME TypeInv, MutexInv, CountInv, [Next]_vars
  PROVE  BuildsFirst'
<1> SUFFICES ASSUME threw' = {}, NEW t \in Threads, at'[t] = "build", NEW p \in Processes
             PROVE  ~mPtr'[p]
  BY DEF BuildsFirst, Users
<1> USE SingletonAssumption DEF SingletonAssumption, TypeInv, TypeParts, Labels
<1>1. threw = {}
  BY CountMovesStep DEF CountInv
<1>2. at[t] = "build" => ~mPtr[p]
  BY <1>1 DEF CountInv, BuildsFirst, Users
<1>3. CASE Uncounted
  BY <1>2, <1>3 DEF Uncounted
<1>4. ASSUME NEW u \in Threads, Counting(u) PROVE ~mPtr'[p]
  <2>1. CASE at[t] = "build"
    <3>1. u = t
      BY <1>4, <2>1, CounterHolds DEF Holding
    <3>2. QED
      BY <1>4, <2>1, <3>1 DEF Counting, CountUp, Build, CountDown, DestroyLast, Goto
  <2>2. CASE at[t] # "build"
    <3>1. CountUp(u) /\ u = t
      BY <1>4, <2>2 DEF Counting, CountUp, Build, CountDown, DestroyLast, Goto
    <3>2. at[t] = "count" /\ memory.count = 0 /\ mPtr' = mPtr
      BY <3>1 DEF CountUp, Goto
    <3>3. Cardinality(CountedProcesses) <= 0
      BY <1>1, <3>2, FiniteHosts DEF CountInv, Covers, CountedProcesses
    <3>4. ASSUME mPtr[p] PROVE FALSE
      <4>1. PICK v \in Threads : at[v] = "last"
        BY <3>3, <3>4, NoneCounted DEF CountInv, InstanceInv, Lasts
      <4>2. v = t
        BY <3>2, <4>1, OneHolds DEF Holding
      <4>3. QED
        BY <3>2, <4>1, <4>2
    <3>5. QED
      BY <3>2, <3>4
  <2>3. QED
    BY <2>1, <2>2
<1>5. ASSUME NEW q \in Processes, ProcessEnds(q) PROVE ~mPtr'[p]
  <2>1. at[t] = "build"
    BY <1>5 DEF ProcessEnds
  <2>2. QED
    BY <1>2, <1>5, <2>1 DEF ProcessEnds
<1>6. QED
  BY <1>3, <1>4, <1>5, CountingSteps DEF CountInv

LEMMA CountInvStep ==
  TypeInv /\ MutexInv /\ CountInv /\ NoOverflow /\ [Next]_vars => CountInv'
  BY InstanceInvStep, CoversStep, LastAtZeroStep, BuildsFirstStep DEF CountInv

LEMMA CountInvInit == Init => CountInv
<1> SUFFICES ASSUME Init PROVE CountInv
  OBVIOUS
<1>1. CountedProcesses = {}
  BY SingletonAssumption DEF Init, CountedProcesses, Builds, Hosts, SingletonAssumption
<1>2. Covers
  BY <1>1, FS_EmptySet DEF Init, Covers, NewMapping
<1>3. InstanceInv /\ LastAtZero /\ BuildsFirst
  BY SingletonAssumption
     DEF Init, InstanceInv, ViewMapped, UserViews, NotYet, HasInstance, BuildViews,
         LastAtZero, BuildsFirst, SingletonAssumption
<1>4. QED
  BY <1>2, <1>3 DEF CountInv

(* The mutex and the count do their work as long as no handle to the mutex *)
(* is overwritten.                                                         *)
Counted == Intact => MutexInv /\ CountInv

LEMMA CountedInit == Init => Counted
  BY MutexInvInit, CountInvInit DEF Counted

LEMMA CountedStep ==
  TypeInv /\ DeletersAlone /\ Counted /\ NoOverflow /\ [Next]_vars => Counted'
<1>1. [Next]_vars /\ Intact' => Intact
  BY ThrewGrows DEF Intact
<1>2. QED
  BY <1>1, MutexInvStep, CountInvStep DEF Counted

LEMMA CountedCovers == Counted => CountCoversUsers
<1> SUFFICES ASSUME Counted, threw = {} PROVE CountCoversUsers
  BY DEF CountCoversUsers
<1>1. MutexInv /\ CountInv
  BY DEF Counted, Intact
<1>2. QED
  BY <1>1, UsersCounted DEF CountInv, Covers, CountCoversUsers

(* In processes of one thread, whatever crashes, throws or fails, as long  *)
(* as the count does not run over: it is never too small, until            *)
(* OnPerInstanceUninitialize throws.                                       *)
THEOREM CountCoversUsersHolds ==
  ASSUME OneThreadEach
  PROVE  Spec /\ []NoOverflow => []CountCoversUsers
<1>1. DeletersAlone
  BY DEF OneThreadEach, DeletersAlone, Alone, ThreadsOf
<1>2. TypeInv /\ Counted /\ NoOverflow /\ [Next]_vars => TypeInv' /\ Counted'
  BY <1>1, TypeInvStep, CountedStep
<1>3. QED
  BY <1>2, CountedCovers, TypeInvInit, CountedInit, PTL DEF Spec

(* So it is in processes of any number of threads that race on mMutex and  *)
(* mLocked, until a handle is overwritten, where only a process of one     *)
(* thread gives up the instance.                                           *)
THEOREM KeptCountCoversUsersHolds ==
  ASSUME SeveralAreKept
  PROVE  KeptSpec /\ []NoOverflow => []CountCoversUsers
<1>1. Init => DeletersAlone
  BY DEF Init, DeletersAlone, Deleting
<1>2. TypeInv /\ DeletersAlone /\ Counted /\ NoOverflow /\ [KeptNext]_vars =>
        TypeInv' /\ DeletersAlone' /\ Counted'
  BY KeptNextIsNext, DeletersAloneStep, TypeInvStep, CountedStep
<1>3. QED
  BY <1>1, <1>2, CountedCovers, TypeInvInit, CountedInit, PTL DEF KeptSpec

LEMMA AloneStep ==
  ASSUME TypeInv, MutexInv, CountInv, [Next]_vars,
         threw = {}, memory'.object # memory.object, NEW p \in Users \cup Users'
  PROVE  Moves(p)
<1> USE SingletonAssumption DEF SingletonAssumption, TypeInv, TypeParts, Labels
<1>1. ~Uncounted
  BY DEF Uncounted
<1>2. ASSUME NEW u \in Threads, Counting(u) PROVE Moves(p)
  <2>1. CASE Build(u)
    <3>1. at[u] = "build" /\ at'[u] # "build" /\ ProcessOf[u] \in Processes
      BY <2>1 DEF Build, Goto
    <3>2. Users = {}
      BY <3>1 DEF CountInv, BuildsFirst
    <3>3. p = ProcessOf[u]
      BY <2>1, <3>2 DEF Build, Users
    <3>4. QED
      BY <3>1, <3>3 DEF Moves, ThreadsOf
  <2>2. CASE DestroyLast(u)
    <3>1. /\ at[u] = "last" /\ at'[u] # "last" /\ mPtr[p] /\ p \in Processes
      BY <2>2 DEF DestroyLast, Goto, Users
    <3>2. Cardinality(CountedProcesses) <= 0
      BY <3>1, FiniteHosts DEF CountInv, LastAtZero, Covers, CountedProcesses
    <3>3. PICK v \in Threads : ProcessOf[v] = p /\ at[v] = "last"
      BY <3>1, <3>2, NoneCounted DEF CountInv, InstanceInv, Lasts
    <3>4. v = u
      BY <3>1, <3>3, OneHolds DEF Holding
    <3>5. QED
      BY <3>1, <3>3, <3>4 DEF Moves, ThreadsOf
  <2>3. ~CountUp(u) /\ ~CountDown(u)
    BY DEF CountUp, CountDown
  <2>4. QED
    BY <1>2, <2>1, <2>2, <2>3 DEF Counting
<1>3. ASSUME NEW q \in Processes, ProcessEnds(q), Ends(q) \/ Crash(q) PROVE Moves(p)
  <2>1. \A r \in Processes : mHandle[r] => r = q
    BY <1>3 DEF ProcessEnds
  <2>2. p = q
    BY <1>3, <2>1 DEF ProcessEnds, Users, CountInv, InstanceInv, UserViews, ViewMapped
  <2>3. PICK t \in ThreadsOf(q) : at[t] # "ended"
    BY <1>3 DEF Ends, UnlockAssertFails, MemoryAssertFails, Crash, Alive
  <2>4. at'[t] = "ended"
    BY <1>3 DEF ProcessEnds, ThreadsOf
  <2>5. QED
    BY <2>2, <2>3, <2>4 DEF Moves
<1>4. QED
  BY <1>1, <1>2, <1>3, CountingSteps DEF CountInv

LEMMA AloneSteps ==
  TypeInv /\ Counted /\ [Next]_vars =>
    [threw = {} /\ memory'.object # memory.object => \A p \in Users \cup Users' : Moves(p)]_vars
<1>1. threw = {} /\ Counted => MutexInv /\ CountInv
  BY DEF Counted, Intact
<1>2. QED
  BY <1>1, AloneStep

(* In processes of one thread, with the same exceptions, the object never  *)
(* changes under one that has the instance and does not take the step.     *)
THEOREM AloneWithObjectHolds ==
  ASSUME OneThreadEach
  PROVE  Spec /\ []NoOverflow => AloneWithObject
<1>1. DeletersAlone
  BY DEF OneThreadEach, DeletersAlone, Alone, ThreadsOf
<1>2. TypeInv /\ Counted /\ NoOverflow /\ [Next]_vars => TypeInv' /\ Counted'
  BY <1>1, TypeInvStep, CountedStep
<1>3. QED
  BY <1>2, AloneSteps, TypeInvInit, CountedInit, PTL DEF Spec, AloneWithObject

(* And with any number of threads per process where several keep it.       *)
THEOREM KeptAloneWithObjectHolds ==
  ASSUME SeveralAreKept
  PROVE  KeptSpec /\ []NoOverflow => AloneWithObject
<1>1. Init => DeletersAlone
  BY DEF Init, DeletersAlone, Deleting
<1>2. TypeInv /\ DeletersAlone /\ Counted /\ NoOverflow /\ [KeptNext]_vars =>
        TypeInv' /\ DeletersAlone' /\ Counted'
  BY KeptNextIsNext, DeletersAloneStep, TypeInvStep, CountedStep
<1>3. QED
  BY <1>1, <1>2, KeptNextIsNext, AloneSteps, TypeInvInit, CountedInit, PTL
     DEF KeptSpec, AloneWithObject

-----------------------------------------------------------------------------
(***************************************************************************)
(* When nothing crashes, throws or fails.                                  *)
(***************************************************************************)

InsideLabels == {"section", "count", "build", "hook", "last"}

(* What a process has of the singleton's members.                          *)
AllViews     == \A p \in Processes : mHandle[p] => mMemory[p]
CountViews   == \A t \in Threads : at[t] = "count" => mMemory[ProcessOf[t]]
CountingGets == \A t \in Threads : at[t] \in {"count", "build", "hook"} => op[t] = "get"
UserHasMutex == \A p \in Processes : mPtr[p] => mMutex[p] # 0
Callback     == \A t \in Threads : mPtr[ProcessOf[t]] /\ at[t] \notin {"hook", "last"} =>
                  mCallbackUninitialize[ProcessOf[t]]
MembersInv   == AllViews /\ CountViews /\ CountingGets /\ UserHasMutex /\ Callback /\ threw = {}

(* Who has the mutex to release, and the mutex to release it with.         *)
ToUnlock(t) == at[t] = "unlock" /\ mMutex[ProcessOf[t]] # 0

LockedInside == \A t \in Threads : at[t] \in InsideLabels \/ ToUnlock(t) => mLocked[ProcessOf[t]]
StaleLock    == \A t \in Threads : mPtr[ProcessOf[t]] /\ mLocked[ProcessOf[t]] =>
                  at[t] \in InsideLabels \cup {"entered", "unlock", "released"}
OwnedStill   == \A t \in Threads : ToUnlock(t) => mutex[named].owner = t
AllReleased  == \A t \in Threads : at[t] # "notReleased"
LocksInv     == LockedInside /\ StaleLock /\ OwnedStill /\ AllReleased

(* The mutex with the name.                                                *)
NamedFree == named # 0 =>
  /\ mutex[named].owner = NoThread => mutex[named].depth = 0
  /\ mutex[named].abandoned => mutex[named].owner = NoThread

(* How often t will release the mutex it owns, until its process ends.     *)
Balance(t) == IF at[t] \in Holding \/ ToUnlock(t) THEN 1 ELSE 0

(* Who has the instance.  A mutex is left owned, or abandoned, by a        *)
(* process that deleted the last one; nobody else has the instance then.   *)
Exact           == memory.count = Cardinality(CountedProcesses)
BuiltForUsers   == memory.object = "built" <=> Users # {}
DeletedGone     == \A t \in Threads : at[t] \in {"unlock", "released"} /\ op[t] \in Deleting =>
                     ~mPtr[ProcessOf[t]]
ExitGone        == \A t \in Threads : at[t] = "exiting" => ~mPtr[ProcessOf[t]]
RefusedUnused   == \A t \in Threads :
                     at[t] = "abandoned" \/ (at[t] = "entered" /\ ~mLocked[ProcessOf[t]]) => Users = {}
AbandonedUnused == named # 0 /\ mutex[named].abandoned => Users = {}
StaleOwner      == named # 0 => \A t \in Threads :
                     mutex[named].owner = t /\ mutex[named].depth > Balance(t) =>
                       Users \subseteq {ProcessOf[t]}

GoneInv   == DeletedGone /\ ExitGone
UnusedInv == RefusedUnused /\ AbandonedUnused /\ StaleOwner
UsersInv  == Exact /\ BuiltForUsers /\ GoneInv /\ UnusedInv

LEMMA MembersInvStep ==
  ASSUME OneThreadEach, Faults = {}
  PROVE  TypeInv /\ MutexInv /\ InstanceInv /\ MembersInv /\ [Next]_vars => MembersInv'
<1> SUFFICES ASSUME TypeInv, MutexInv, InstanceInv, MembersInv, [Next]_vars PROVE MembersInv'
  OBVIOUS
<1> USE SingletonAssumption
<1> USE DEF SingletonAssumption, OneThreadEach, TypeInv, TypeParts, Labels,
            MembersInv, AllViews, CountViews, CountingGets, UserHasMutex, Callback
<1>1. ASSUME NEW t \in Threads, GetInstance(t) PROVE MembersInv'
  BY <1>1 DEF GetInstance, Call, Goto, kernel, statics
<1>2. ASSUME NEW t \in Threads, DeleteInstance(t) PROVE MembersInv'
  BY <1>2 DEF DeleteInstance, Call, Goto, kernel, statics
<1>3. ASSUME NEW t \in Threads, Exit(t) PROVE MembersInv'
  BY <1>3 DEF Exit, Call, Goto, kernel, statics
<1>4. ASSUME NEW t \in Threads, CreateMutex(t) PROVE MembersInv'
  BY <1>4 DEF CreateMutex, Goto, kernel, statics
<1>5. ASSUME NEW t \in Threads, CreateMutexOpens(t) PROVE MembersInv'
  <2>1. \A p \in Processes : mMutex[p] # 0 => mMutex'[p] # 0
    BY <1>5, MutexesNumbered DEF CreateMutexOpens
  <2>2. QED
    BY <1>5, <2>1 DEF CreateMutexOpens, Goto, OpenMutex
<1>5f. ASSUME NEW t \in Threads, CreateMutexFails(t) PROVE MembersInv'
  BY <1>5f DEF CreateMutexFails
<1>6. ASSUME NEW t \in Threads, LockThrows(t) PROVE MembersInv'
  BY <1>6 DEF LockThrows, Leave, kernel, statics
<1>7. ASSUME NEW t \in Threads, LockChecked(t) PROVE MembersInv'
  BY <1>7 DEF LockChecked, Goto, kernel, statics
<1>8. ASSUME NEW t \in Threads, LockWaits(t) PROVE MembersInv'
  BY <1>8 DEF LockWaits, Goto, kernel, statics
<1>9. ASSUME NEW t \in Threads, MutexGranted(t) PROVE MembersInv'
  BY <1>9 DEF MutexGranted, statics
<1>10. ASSUME NEW t \in Threads, LockStores(t) PROVE MembersInv'
  BY <1>10 DEF LockStores, kernel
<1>11. ASSUME NEW t \in Threads, LockFails(t) PROVE MembersInv'
  BY <1>11 DEF LockFails, Leave, kernel, statics
<1>12. ASSUME NEW t \in Threads, LockReturns(t) PROVE MembersInv'
  BY <1>12 DEF LockReturns, Goto, kernel, statics
<1>13. ASSUME NEW t \in Threads, NothingToDo(t) PROVE MembersInv'
  BY <1>13 DEF NothingToDo, Goto, kernel, statics
<1>14. ASSUME NEW t \in Threads, CreateMemory(t) PROVE MembersInv'
  BY <1>14 DEF CreateMemory, Goto, kernel, statics
<1>15. ASSUME NEW t \in Threads, CountUp(t) PROVE MembersInv'
  <2>1. mMutex[ProcessOf[t]] # 0
    BY <1>15 DEF MutexInv, HasMutex, Holding, Locking, CountUp, Goto
  <2>2. QED
    BY <1>15, <2>1 DEF CountUp, Goto
<1>16. ASSUME NEW t \in Threads, Build(t) PROVE MembersInv'
  <2>1. mMutex[ProcessOf[t]] # 0
    BY <1>16 DEF MutexInv, HasMutex, Holding, Locking, Build, Goto
  <2>2. QED
    BY <1>16, <2>1 DEF Build, Goto
<1>17. ASSUME NEW t \in Threads, Initialized(t) PROVE MembersInv'
  BY <1>17 DEF Initialized, Goto, kernel, statics
<1>18. ASSUME NEW t \in Threads, CountDown(t) PROVE MembersInv'
  <2> DEFINE p     == ProcessOf[t]
             count == Wrap(memory.count - 1)
  <2>1. /\ at[t] = "section" /\ at' = [at EXCEPT ![t] = IF count = 0 THEN "last" ELSE "unlock"]
        /\ mCallbackUninitialize' = [mCallbackUninitialize EXCEPT ![p] = IF count < 0 THEN @ ELSE FALSE]
        /\ \/ count > 0 /\ mPtr' = [mPtr EXCEPT ![p] = FALSE]
           \/ count <= 0 /\ mPtr' = mPtr
        /\ UNCHANGED <<mMutex, mHandle, mMemory, op, threw>>
    <3>1. /\ \/ count > 0 /\ mPtr' = [mPtr EXCEPT ![p] = FALSE]
             \/ count <= 0 /\ mPtr' = mPtr
          /\ UNCHANGED threw
      BY <1>18, Zenon DEF CountDown
    <3>2. QED
      BY <1>18, <3>1 DEF CountDown, IsLast, Goto
  <2>2. count \in Int
    BY WrapType
  <2> HIDE DEF count
  <2>3. Callback'
    BY <2>1, <2>2
  <2>4. QED
    BY <2>1, <2>3
<1>19. ASSUME NEW t \in Threads, DestroyLast(t) PROVE MembersInv'
  BY <1>19 DEF DestroyLast, Goto
<1>20. ASSUME NEW t \in Threads, UnlockReturns(t) PROVE MembersInv'
  BY <1>20 DEF UnlockReturns, Leave, kernel, statics
<1>21. ASSUME NEW t \in Threads, Unlock(t) PROVE MembersInv'
  BY <1>21 DEF Unlock, Goto, kernel, statics
<1>22. ASSUME NEW t \in Threads, UnlockStores(t) PROVE MembersInv'
  BY <1>22 DEF UnlockStores, Leave, kernel
<1>23. ASSUME NEW t \in Threads, ThreadEnds(t) PROVE MembersInv'
  BY <1>23 DEF ThreadEnds, Goto, statics
<1>24. ASSUME NEW p \in Processes, ProcessEnds(p) PROVE MembersInv'
  BY <1>24 DEF ProcessEnds, ThreadsOf
<1>25. ASSUME NEW p \in Processes, Start(p) PROVE MembersInv'
  BY <1>25 DEF Start, Alive, ThreadsOf, kernel, statics
<1>26. CASE UNCHANGED vars
  BY <1>26 DEF vars, kernel, statics
<1>27. QED
  BY <1>1, <1>2, <1>3, <1>4, <1>5, <1>6, <1>7, <1>8, <1>9, <1>10, <1>11, <1>12,
     <1>13, <1>14, <1>15, <1>16, <1>17, <1>18, <1>19, <1>20, <1>21, <1>22,
     <1>23, <1>24, <1>25, <1>26, <1>5f DEF Next, Works, Ends, Crash, Over

-----------------------------------------------------------------------------
(***************************************************************************)
(* What becomes of the mutex with the name.                                *)
(***************************************************************************)

NamedMade == named = 0 /\ mutex'[named'] = Free
NamedKept == named' = named /\ mutex'[named] = mutex[named]

NamedGranted(t) ==
  /\ at[t] = "wait" /\ at'[t] = IF mutex[named].abandoned THEN "abandoned" ELSE "granted"
  /\ named' = named
  /\ mutex[named].owner \in {NoThread, t}
  /\ mutex'[named].owner = t
  /\ mutex'[named].depth = mutex[named].depth + 1
  /\ ~mutex'[named].abandoned
  /\ UNCHANGED mPtr

NamedReleased(t) ==
  /\ ToUnlock(t) /\ at'[t] = "released"
  /\ named' = named
  /\ mutex[named].owner = t
  /\ mutex'[named] = Released(mutex[named])
  /\ UNCHANGED mPtr

(* It was left by the process that owned it.                               *)
NamedLost(p) ==
  /\ ProcessEnds(p) /\ (Ends(p) \/ Crash(p))
  /\ mutex[named].owner \in ThreadsOf(p)
  /\ named' = named
  /\ mutex'[named].owner = NoThread
  /\ mutex'[named].depth = 0

NamedMoves ==
  \/ NamedMade \/ NamedKept
  \/ \E t \in Threads : NamedGranted(t) \/ NamedReleased(t)
  \/ \E p \in Processes : NamedLost(p)

LEMMA NamedMovesStep ==
  ASSUME OneThreadEach
  PROVE  TypeInv /\ MutexInv /\ [Next]_vars /\ named' # 0 => NamedMoves
<1> SUFFICES ASSUME TypeInv, MutexInv, [Next]_vars, named' # 0 PROVE NamedMoves
  OBVIOUS
<1> USE SingletonAssumption
<1>t. /\ mutex \in [Mutexes -> MutexStates]
      /\ handles \in HandleCounts
      /\ named \in {0} \cup Mutexes
      /\ mMutex \in [Processes -> {0} \cup Mutexes]
      /\ at \in [Threads -> Labels]
      /\ waitsOn \in [Threads -> {0} \cup Mutexes]
      /\ ProcessOf \in [Threads -> Processes]
  BY DEF TypeInv, TypeParts, SingletonAssumption
<1>1. ASSUME NEW t \in Threads, GetInstance(t) PROVE NamedMoves
  BY <1>1 DEF GetInstance, Call, kernel, statics, NamedMoves, NamedKept
<1>2. ASSUME NEW t \in Threads, DeleteInstance(t) PROVE NamedMoves
  BY <1>2 DEF DeleteInstance, Call, kernel, statics, NamedMoves, NamedKept
<1>3. ASSUME NEW t \in Threads, Exit(t) PROVE NamedMoves
  BY <1>3 DEF Exit, Call, kernel, statics, NamedMoves, NamedKept
<1>4. ASSUME NEW t \in Threads, CreateMutex(t) PROVE NamedMoves
  BY <1>4 DEF CreateMutex, kernel, statics, NamedMoves, NamedKept
<1>5. ASSUME NEW t \in Threads, CreateMutexOpens(t) PROVE NamedMoves
  <2>1. PICK m \in Mutexes : OpenMutex(ProcessOf[t], m)
    BY <1>5 DEF CreateMutexOpens
  <2>2. QED
    BY <2>1 DEF OpenMutex, NamedMoves, NamedMade, NamedKept
<1>5f. ASSUME NEW t \in Threads, CreateMutexFails(t) PROVE NamedMoves
  BY <1>5f DEF CreateMutexFails, kernel, NamedMoves, NamedKept
<1>6. ASSUME NEW t \in Threads, LockThrows(t) PROVE NamedMoves
  BY <1>6 DEF LockThrows, kernel, statics, NamedMoves, NamedKept
<1>7. ASSUME NEW t \in Threads, LockChecked(t) PROVE NamedMoves
  BY <1>7 DEF LockChecked, kernel, statics, NamedMoves, NamedKept
<1>8. ASSUME NEW t \in Threads, LockWaits(t) PROVE NamedMoves
  BY <1>8 DEF LockWaits, kernel, statics, NamedMoves, NamedKept
<1>9. ASSUME NEW t \in Threads, MutexGranted(t) PROVE NamedMoves
  <2> DEFINE p == ProcessOf[t]
             m == waitsOn[t]
             mutexes == [mutex EXCEPT ![m] = [owner |-> t, depth |-> @.depth + 1, abandoned |-> FALSE]]
             waits == [waitsOn EXCEPT ![t] = 0]
  <2>1. m = named /\ named \in Mutexes /\ named # 0 /\ handles[named][p] > 0
    BY <1>9, <1>t, NameKept DEF MutexGranted, MutexInv, WaitsForIt, HasMutex, Locking
  <2>2. /\ mutexes \in [Mutexes -> MutexStates]
        /\ mutexes[named].owner = t
        /\ mutexes[named].depth = mutex[named].depth + 1
        /\ ~mutexes[named].abandoned
    BY <1>t, <2>1 DEF MutexStates
  <2>3. Settle(mutexes, handles, waits)
    BY <1>9 DEF MutexGranted
  <2>4. waits \in [Threads -> {0} \cup Mutexes] /\ p \in Processes
    BY <1>t
  <2> HIDE DEF mutexes, waits
  <2>5. named' = named /\ mutex'[named] = mutexes[named]
    BY <1>t, <2>1, <2>2, <2>3, <2>4, SettleState
  <2>6. /\ at[t] = "wait" /\ at'[t] = IF mutex[named].abandoned THEN "abandoned" ELSE "granted"
        /\ mutex[named].owner \in {NoThread, t}
        /\ UNCHANGED mPtr
    BY <1>9, <1>t, <2>1 DEF MutexGranted, statics
  <2>7. QED
    BY <2>2, <2>5, <2>6 DEF NamedMoves, NamedGranted
<1>10. ASSUME NEW t \in Threads, LockStores(t) PROVE NamedMoves
  BY <1>10 DEF LockStores, kernel, NamedMoves, NamedKept
<1>11. ASSUME NEW t \in Threads, LockFails(t) PROVE NamedMoves
  BY <1>11 DEF LockFails, kernel, statics, NamedMoves, NamedKept
<1>12. ASSUME NEW t \in Threads, LockReturns(t) PROVE NamedMoves
  BY <1>12 DEF LockReturns, kernel, statics, NamedMoves, NamedKept
<1>13. ASSUME NEW t \in Threads, NothingToDo(t) PROVE NamedMoves
  BY <1>13 DEF NothingToDo, kernel, statics, NamedMoves, NamedKept
<1>14. ASSUME NEW t \in Threads, CreateMemory(t) PROVE NamedMoves
  BY <1>14 DEF CreateMemory, kernel, statics, NamedMoves, NamedKept
<1>15. ASSUME NEW t \in Threads, CountUp(t) PROVE NamedMoves
  BY <1>15 DEF CountUp, NamedMoves, NamedKept
<1>16. ASSUME NEW t \in Threads, Build(t) PROVE NamedMoves
  BY <1>16 DEF Build, NamedMoves, NamedKept
<1>17. ASSUME NEW t \in Threads, Initialized(t) PROVE NamedMoves
  BY <1>17 DEF Initialized, kernel, statics, NamedMoves, NamedKept
<1>18. ASSUME NEW t \in Threads, CountDown(t) PROVE NamedMoves
  BY <1>18 DEF CountDown, NamedMoves, NamedKept
<1>19. ASSUME NEW t \in Threads, DestroyLast(t) PROVE NamedMoves
  <2> DEFINE p  == ProcessOf[t]
             hs == Closed(mMutex[p], p)
  <2>1. mMutex[p] # 0 /\ at[t] = "last" /\ Settle(mutex, hs, waitsOn)
    BY <1>19 DEF DestroyLast, Goto, MutexInv, HasMutex, Holding, Locking
  <2>2. mMutex[p] \in Mutexes /\ p \in Processes /\ handles[mMutex[p]][p] >= 1
    BY <1>t, <2>1 DEF TypeInv, HandleKept
  <2>3. hs \in HandleCounts
    BY <1>t, <2>2, SingletonAssumption DEF Closed, HandleCounts, SingletonAssumption
  <2> HIDE DEF hs
  <2>4. QED
    BY <1>t, <2>1, <2>3, SettleState DEF NamedMoves, NamedKept
<1>20. ASSUME NEW t \in Threads, UnlockReturns(t) PROVE NamedMoves
  BY <1>20 DEF UnlockReturns, kernel, statics, NamedMoves, NamedKept
<1>21. ASSUME NEW t \in Threads, Unlock(t) PROVE NamedMoves
  <2> DEFINE m == mMutex[ProcessOf[t]]
  <2>1. /\ at[t] = "unlock" /\ m # 0
        /\ at'[t] = IF mutex[m].owner = t THEN "released" ELSE "notReleased"
        /\ mutex' = IF mutex[m].owner = t THEN [mutex EXCEPT ![m] = Released(@)] ELSE mutex
        /\ UNCHANGED <<named, mPtr>>
    BY <1>21, <1>t DEF Unlock, Goto, statics
  <2>2. m = named /\ m \in Mutexes
    BY <1>t, <2>1, NameKept
  <2>3. mutex'[m] = IF mutex[m].owner = t THEN Released(mutex[m]) ELSE mutex[m]
    BY <1>t, <2>1, <2>2
  <2>4. QED
    BY <2>1, <2>2, <2>3 DEF NamedMoves, NamedKept, NamedReleased, ToUnlock
<1>22. ASSUME NEW t \in Threads, UnlockStores(t) PROVE NamedMoves
  BY <1>22 DEF UnlockStores, kernel, NamedMoves, NamedKept
<1>23. ASSUME NEW t \in Threads, ThreadEnds(t) PROVE NamedMoves
  BY <1>23, <1>t DEF ThreadEnds, ThreadsOf, OneThreadEach
<1>24. ASSUME NEW p \in Processes, ProcessEnds(p), Ends(p) \/ Crash(p) PROVE NamedMoves
  <2> DEFINE ended   == ThreadsOf(p)
             mutexes == Abandon(ended)
             hs      == [m \in Mutexes |-> [handles[m] EXCEPT ![p] = 0]]
             ws      == [t \in Threads |-> IF t \in ended THEN 0 ELSE waitsOn[t]]
  <2>1. Settle(mutexes, hs, ws)
    BY <1>24 DEF ProcessEnds
  <2>2. /\ mutexes \in [Mutexes -> MutexStates]
        /\ \A m \in Mutexes :
             IF mutex[m].owner \in ended THEN mutexes[m].owner = NoThread /\ mutexes[m].depth = 0
                                         ELSE mutexes[m] = mutex[m]
    BY <1>t, AbandonState
  <2>3. hs \in HandleCounts /\ ws \in [Threads -> {0} \cup Mutexes]
    BY <1>t, SingletonAssumption DEF HandleCounts, SingletonAssumption
  <2> HIDE DEF mutexes, hs, ws, ended
  <2>4. named' = named /\ mutex'[named] = mutexes[named] /\ named \in Mutexes
    BY <1>t, <2>1, <2>2, <2>3, SettleState
  <2>5. CASE mutex[named].owner \in ended
    BY <1>24, <2>2, <2>4, <2>5 DEF NamedMoves, NamedLost, ended
  <2>6. CASE mutex[named].owner \notin ended
    BY <2>2, <2>4, <2>6 DEF NamedMoves, NamedKept
  <2>7. QED
    BY <2>5, <2>6
<1>25. ASSUME NEW p \in Processes, Start(p) PROVE NamedMoves
  BY <1>25 DEF Start, kernel, statics, NamedMoves, NamedKept
<1>26. CASE UNCHANGED vars
  BY <1>26 DEF vars, kernel, statics, NamedMoves, NamedKept
<1>27. QED
  BY <1>1, <1>2, <1>3, <1>4, <1>5, <1>6, <1>7, <1>8, <1>9, <1>10, <1>11, <1>12,
     <1>13, <1>14, <1>15, <1>16, <1>17, <1>18, <1>19, <1>20, <1>21, <1>22,
     <1>23, <1>24, <1>25, <1>26, <1>5f DEF Next, Works, Ends, Crash, Over

-----------------------------------------------------------------------------
(*****************************************************************************)
(* Locks and their unlocks.                                                *)
(*****************************************************************************)

LEMMA UnlockOwns ==
  ASSUME TypeInv, MutexInv, LocksInv, NEW t \in Threads, ToUnlock(t)
  PROVE  named # 0 /\ mMutex[ProcessOf[t]] = named /\ mutex[named].owner = t
<1>1. ProcessOf[t] \in Processes
  BY SingletonAssumption DEF SingletonAssumption
<1>2. QED
  BY <1>1, NameKept DEF LocksInv, OwnedStill, ToUnlock

LEMMA OwnedStillStep ==
  ASSUME OneThreadEach, TypeInv, MutexInv, LocksInv, [Next]_vars, MutexInv',
         \A t \in Threads : ToUnlock(t)' => at[t] \in InsideLabels \/ ToUnlock(t)
  PROVE  OwnedStill'
<1> SUFFICES ASSUME NEW t \in Threads, ToUnlock(t)' PROVE mutex'[named'].owner = t
  BY DEF OwnedStill
<1>1. named # 0 /\ mutex[named].owner = t
  <2>1. CASE at[t] \in InsideLabels
    <3>1. at[t] \in Holding /\ ProcessOf[t] \in Processes
      BY <2>1, SingletonAssumption DEF InsideLabels, Holding, SingletonAssumption
    <3>2. mMutex[ProcessOf[t]] # 0 /\ mutex[named].owner = t
      BY <3>1 DEF MutexInv, HasMutex, Locking, HoldsIt
    <3>3. QED
      BY <3>1, <3>2, NameKept
  <2>2. QED
    BY <2>1, UnlockOwns
<1>2. at'[t] = "unlock" /\ named' # 0
  BY SingletonAssumption DEF ToUnlock, MutexInv, OneName, SingletonAssumption
<1>3. at[t] # "wait" /\ t # NoThread
  BY SingletonAssumption DEF InsideLabels, ToUnlock, SingletonAssumption
<1>4. NamedMoves
  BY <1>2, NamedMovesStep
<1>5. CASE NamedMade
  BY <1>1, <1>5 DEF NamedMade
<1>6. CASE NamedKept
  BY <1>1, <1>6 DEF NamedKept
<1>7. ASSUME NEW u \in Threads, NamedGranted(u) PROVE FALSE
  BY <1>1, <1>3, <1>7 DEF NamedGranted
<1>8. ASSUME NEW u \in Threads, NamedReleased(u) PROVE FALSE
  BY <1>1, <1>2, <1>8 DEF NamedReleased
<1>9. ASSUME NEW p \in Processes, NamedLost(p) PROVE FALSE
  BY <1>1, <1>2, <1>9 DEF NamedLost, ProcessEnds
<1>10. QED
  BY <1>4, <1>5, <1>6, <1>7, <1>8, <1>9 DEF NamedMoves

LEMMA LockedStep ==
  ASSUME OneThreadEach
  PROVE  TypeInv /\ MutexInv /\ MembersInv /\ LocksInv /\ [Next]_vars =>
           /\ LockedInside' /\ StaleLock' /\ AllReleased'
           /\ \A t \in Threads : ToUnlock(t)' => at[t] \in InsideLabels \/ ToUnlock(t)
<1> DEFINE Unlocking == \A t \in Threads : ToUnlock(t)' => at[t] \in InsideLabels \/ ToUnlock(t)
           Result    == LockedInside' /\ StaleLock' /\ AllReleased' /\ Unlocking
<1> SUFFICES ASSUME TypeInv, MutexInv, MembersInv, LocksInv, [Next]_vars
             PROVE  Result
  OBVIOUS
<1> USE SingletonAssumption
<1> USE DEF SingletonAssumption, OneThreadEach, TypeInv, TypeParts, Labels, InsideLabels, ToUnlock,
            MembersInv, UserHasMutex, LocksInv, LockedInside, StaleLock, AllReleased
<1>1. ASSUME NEW t \in Threads, GetInstance(t) PROVE Result
  BY <1>1 DEF GetInstance, Call, Goto, kernel, statics
<1>2. ASSUME NEW t \in Threads, DeleteInstance(t) PROVE Result
  BY <1>2 DEF DeleteInstance, Call, Goto, kernel, statics
<1>3. ASSUME NEW t \in Threads, Exit(t) PROVE Result
  BY <1>3 DEF Exit, Call, Goto, kernel, statics
<1>4. ASSUME NEW t \in Threads, CreateMutex(t) PROVE Result
  BY <1>4 DEF CreateMutex, Goto, kernel, statics
<1>5. ASSUME NEW t \in Threads, CreateMutexOpens(t) PROVE Result
  BY <1>5 DEF CreateMutexOpens, Goto, OpenMutex
<1>5f. ASSUME NEW t \in Threads, CreateMutexFails(t) PROVE Result
  BY <1>5f DEF CreateMutexFails, Leave, Goto, kernel
<1>6. ASSUME NEW t \in Threads, LockThrows(t) PROVE Result
  BY <1>6 DEF LockThrows, Leave, kernel, statics
<1>7. ASSUME NEW t \in Threads, LockChecked(t) PROVE Result
  BY <1>7 DEF LockChecked, Goto, kernel, statics
<1>8. ASSUME NEW t \in Threads, LockWaits(t) PROVE Result
  BY <1>8 DEF LockWaits, Goto, kernel, statics
<1>9. ASSUME NEW t \in Threads, MutexGranted(t) PROVE Result
  BY <1>9 DEF MutexGranted, statics
<1>10. ASSUME NEW t \in Threads, LockStores(t) PROVE Result
  BY <1>10 DEF LockStores, kernel
<1>11. ASSUME NEW t \in Threads, LockFails(t) PROVE Result
  BY <1>11 DEF LockFails, Leave, kernel, statics
<1>12. ASSUME NEW t \in Threads, LockReturns(t) PROVE Result
  BY <1>12 DEF LockReturns, Goto, kernel, statics
<1>13. ASSUME NEW t \in Threads, NothingToDo(t) PROVE Result
  BY <1>13 DEF NothingToDo, Goto, kernel, statics
<1>14. ASSUME NEW t \in Threads, CreateMemory(t) PROVE Result
  BY <1>14 DEF CreateMemory, Goto, kernel, statics
<1>15. ASSUME NEW t \in Threads, CountUp(t) PROVE Result
  BY <1>15 DEF CountUp, Goto
<1>16. ASSUME NEW t \in Threads, Build(t) PROVE Result
  BY <1>16 DEF Build, Goto
<1>17. ASSUME NEW t \in Threads, Initialized(t) PROVE Result
  BY <1>17 DEF Initialized, Goto, kernel, statics
<1>18. ASSUME NEW t \in Threads, CountDown(t) PROVE Result
  BY <1>18 DEF CountDown, IsLast, Goto
<1>19. ASSUME NEW t \in Threads, DestroyLast(t) PROVE Result
  BY <1>19 DEF DestroyLast, Goto
<1>20. ASSUME NEW t \in Threads, UnlockReturns(t) PROVE Result
  BY <1>20 DEF UnlockReturns, Leave, kernel, statics
<1>21. ASSUME NEW t \in Threads, Unlock(t) PROVE Result
  <2>1. ToUnlock(t) /\ at[t] = "unlock"
    BY <1>21 DEF Unlock, Goto
  <2>2. mutex[mMutex[ProcessOf[t]]].owner = t
    BY <2>1, UnlockOwns
  <2>3. /\ at' = [at EXCEPT ![t] = "released"]
        /\ UNCHANGED <<mMutex, mLocked, mPtr>>
    BY <1>21, <2>2 DEF Unlock, Goto, statics
  <2>4. QED
    BY <2>1, <2>3
<1>22. ASSUME NEW t \in Threads, UnlockStores(t) PROVE Result
  BY <1>22 DEF UnlockStores, Leave, kernel
<1>23. ASSUME NEW t \in Threads, ThreadEnds(t) PROVE Result
  BY <1>23 DEF ThreadEnds, Goto, statics
<1>24. ASSUME NEW p \in Processes, ProcessEnds(p) PROVE Result
  BY <1>24 DEF ProcessEnds, ThreadsOf
<1>25. ASSUME NEW p \in Processes, Start(p) PROVE Result
  BY <1>25 DEF Start, Alive, ThreadsOf, kernel, statics
<1>26. CASE UNCHANGED vars
  BY <1>26 DEF vars, kernel, statics
<1>27. QED
  BY <1>1, <1>2, <1>3, <1>4, <1>5, <1>6, <1>7, <1>8, <1>9, <1>10, <1>11, <1>12,
     <1>13, <1>14, <1>15, <1>16, <1>17, <1>18, <1>19, <1>20, <1>21, <1>22,
     <1>23, <1>24, <1>25, <1>26, <1>5f DEF Next, Works, Ends, Crash, Over

LEMMA LocksInvStep ==
  ASSUME OneThreadEach
  PROVE  TypeInv /\ MutexInv /\ MembersInv /\ LocksInv /\ [Next]_vars /\ MutexInv' => LocksInv'
<1> SUFFICES ASSUME TypeInv, MutexInv, MembersInv, LocksInv, [Next]_vars, MutexInv'
             PROVE  LocksInv'
  OBVIOUS
<1>1. /\ LockedInside' /\ StaleLock' /\ AllReleased'
      /\ \A t \in Threads : ToUnlock(t)' => at[t] \in InsideLabels \/ ToUnlock(t)
  BY LockedStep
<1>2. OwnedStill'
  BY <1>1, OwnedStillStep
<1>3. QED
  BY <1>1, <1>2 DEF LocksInv

(* The state of the mutex that t releases.                                 *)
LEMMA ReleasedNamed ==
  ASSUME TypeInv, NEW t \in Threads, named # 0, mutex[named].owner = t
  PROVE  LET state == mutex[named] IN
         /\ t # NoThread
         /\ state \in MutexStates /\ state.depth >= 1
         /\ Released(state).depth = state.depth - 1
         /\ Released(state).owner = IF state.depth = 1 THEN NoThread ELSE state.owner
         /\ Released(state).abandoned = IF state.depth = 1 THEN FALSE ELSE state.abandoned
<1>1. t # NoThread
  BY SingletonAssumption DEF SingletonAssumption
<1>2. mutex[named] \in MutexStates
  BY DEF TypeInv, TypeParts
<1>3. mutex[named].depth >= 1
  BY <1>1 DEF TypeInv, TypeParts, OwnedOnce
<1>4. QED
  BY <1>1, <1>2, <1>3, ReleasedState

LEMMA NamedFreeStep ==
  ASSUME OneThreadEach
  PROVE  TypeInv /\ MutexInv /\ NamedFree /\ [Next]_vars => NamedFree'
<1> SUFFICES ASSUME TypeInv, MutexInv, NamedFree, [Next]_vars, named' # 0
             PROVE  /\ mutex'[named'].owner = NoThread => mutex'[named'].depth = 0
                    /\ mutex'[named'].abandoned => mutex'[named'].owner = NoThread
  BY DEF NamedFree
<1> USE SingletonAssumption DEF SingletonAssumption
<1>1. NamedMoves
  BY NamedMovesStep
<1>2. CASE NamedMade
  BY <1>2 DEF NamedMade, Free
<1>3. CASE NamedKept
  BY <1>3 DEF NamedKept, NamedFree
<1>4. ASSUME NEW t \in Threads, NamedGranted(t) PROVE mutex'[named'].owner = t /\ ~mutex'[named'].abandoned
  BY <1>4 DEF NamedGranted
<1>5. ASSUME NEW t \in Threads, NamedReleased(t)
      PROVE  /\ mutex'[named'].owner = NoThread => mutex'[named'].depth = 0
             /\ mutex'[named'].abandoned => mutex'[named'].owner = NoThread
  <2>1. named' = named /\ mutex[named].owner = t /\ mutex'[named] = Released(mutex[named])
    BY <1>5 DEF NamedReleased
  <2>2. ~mutex[named].abandoned
    BY <2>1 DEF NamedFree
  <2>3. /\ mutex[named].depth \in Nat
        /\ Released(mutex[named]).depth = mutex[named].depth - 1
        /\ Released(mutex[named]).owner = IF mutex[named].depth = 1 THEN NoThread ELSE t
        /\ Released(mutex[named]).abandoned = IF mutex[named].depth = 1 THEN FALSE ELSE mutex[named].abandoned
    BY <2>1, ReleasedNamed DEF MutexStates
  <2>4. QED
    BY <2>1, <2>2, <2>3
<1>6. ASSUME NEW p \in Processes, NamedLost(p)
      PROVE  mutex'[named'].owner = NoThread /\ mutex'[named'].depth = 0
  BY <1>6 DEF NamedLost
<1>7. QED
  BY <1>1, <1>2, <1>3, <1>4, <1>5, <1>6 DEF NamedMoves

-----------------------------------------------------------------------------
(*****************************************************************************)
(* Who has the instance.                                                   *)
(*****************************************************************************)

(* The inductive invariant when nothing crashes, throws or fails.          *)
CalmInv == TypeInv /\ MutexInv /\ CountInv /\ MembersInv /\ LocksInv /\ NamedFree /\ UsersInv

(* Nobody is counted beyond the largest RefCountType.                      *)
CountFits == Cardinality(Threads) <= MaxCount

(* No assertion fails: a process ends only in order, without the instance. *)
LEMMA EndsInOrder ==
  ASSUME OneThreadEach, CalmInv, NEW p \in Processes, Ends(p)
  PROVE  (\A t \in ThreadsOf(p) : at[t] = "exiting") /\ ~mPtr[p]
<1>1. PICK t \in ThreadsOf(p) : at[t] = "exiting" \/ UnlockAssertFails(t) \/ MemoryAssertFails(t)
  BY DEF Ends
<1>2. t \in Threads /\ ProcessOf[t] = p /\ \A u \in ThreadsOf(p) : u = t
  BY DEF ThreadsOf, OneThreadEach
<1>3. ~UnlockAssertFails(t)
  BY <1>2 DEF UnlockAssertFails, CalmInv, LocksInv, LockedInside, ToUnlock
<1>4. ~MemoryAssertFails(t)
  BY <1>2 DEF MemoryAssertFails, CalmInv, MembersInv, CountViews, CountInv, InstanceInv, UserViews
<1>5. QED
  BY <1>1, <1>2, <1>3, <1>4 DEF CalmInv, UsersInv, GoneInv, ExitGone

LEMMA UsersMove ==
  ASSUME OneThreadEach, Faults = {}, CalmInv, [Next]_vars
  PROVE  \/ mPtr' = mPtr /\ Users' = Users
         \/ \E t \in Threads : Counting(t)
<1>1. ASSUME NEW p \in Processes, ProcessEnds(p), Ends(p) \/ Crash(p) PROVE mPtr' = mPtr
  <2>1. ~mPtr[p]
    BY <1>1, EndsInOrder DEF Crash
  <2>2. mPtr \in [Processes -> BOOLEAN] /\ mPtr' = [mPtr EXCEPT ![p] = FALSE]
    BY <1>1 DEF CalmInv, TypeInv, TypeParts, ProcessEnds
  <2>3. QED
    BY <2>1, <2>2
<1>2. mPtr' = mPtr \/ \E t \in Threads : Counting(t)
  BY <1>1, CountingSteps DEF CalmInv, CountInv, Uncounted
<1>3. QED
  BY <1>2 DEF Users

LEMMA CountsAre ==
  ASSUME CalmInv
  PROVE  /\ memory.count = Cardinality(CountedProcesses)
         /\ memory.count \in 0 .. MaxCount
         /\ Cardinality(CountedProcesses) \in Nat
<1>1. Cardinality(CountedProcesses) \in Nat
  BY FiniteHosts DEF CountedProcesses
<1>2. memory.count = Cardinality(CountedProcesses) /\ memory.count \in -MaxCount - 1 .. MaxCount
  BY DEF CalmInv, UsersInv, Exact, TypeInv, TypeParts
<1>3. QED
  BY <1>1, <1>2, SingletonAssumption DEF SingletonAssumption

(* Who is not the one that counts is counted only for what it has.         *)
LEMMA OtherCounted ==
  ASSUME CalmInv, NEW t \in Threads, at[t] \in Holding,
         NEW p \in CountedProcesses, p # ProcessOf[t]
  PROVE  p \in Users
<1>1. ~Builds(p)
  BY OneHolds DEF CalmInv, Builds, Holding
<1>2. QED
  BY <1>1 DEF CountedProcesses, Users, Hosts

(* DeleteInstance of one of several, and of the last one.                  *)
LEMMA CountDownState ==
  ASSUME Faults = {}, CalmInv, NEW t \in Threads, CountDown(t)
  PROVE  /\ at[t] = "section" /\ ProcessOf[t] \in CountedProcesses /\ mPtr[ProcessOf[t]]
         /\ memory.count >= 1
         /\ memory'.count = memory.count - 1 /\ memory'.object = memory.object
         /\ IF memory.count = 1
              THEN mPtr' = mPtr /\ at' = [at EXCEPT ![t] = "last"]
              ELSE /\ mPtr' = [mPtr EXCEPT ![ProcessOf[t]] = FALSE]
                   /\ at' = [at EXCEPT ![t] = "unlock"]
<1> DEFINE count == Wrap(memory.count - 1)
<1>1. /\ at[t] = "section" /\ mPtr[ProcessOf[t]]
      /\ at' = [at EXCEPT ![t] = IF count = 0 THEN "last" ELSE "unlock"]
      /\ memory' = [memory EXCEPT !.count = count]
      /\ \/ count > 0 /\ mPtr' = [mPtr EXCEPT ![ProcessOf[t]] = FALSE]
         \/ count <= 0 /\ mPtr' = mPtr
  <2>1. \/ count > 0 /\ mPtr' = [mPtr EXCEPT ![ProcessOf[t]] = FALSE]
        \/ count <= 0 /\ mPtr' = mPtr
    BY Zenon DEF CountDown
  <2>2. QED
    BY <2>1 DEF CountDown, Goto, IsLast
<1>2. ProcessOf[t] \in CountedProcesses
  <2>1. ~Lasts(ProcessOf[t])
    BY <1>1, OneHolds DEF CalmInv, Lasts, Holding
  <2>2. QED
    BY <1>1, <2>1, SingletonAssumption DEF CountedProcesses, Hosts, SingletonAssumption
<1>3. memory.count >= 1
  BY <1>2, CountsAre, CountedRemove
<1>4. count = memory.count - 1 /\ count \in Nat
  BY <1>3, CountsAre, SingletonAssumption DEF Wrap, SingletonAssumption
<1> HIDE DEF count
<1>5. memory'.count = count /\ memory'.object = memory.object
  <2>1. memory \in [count : -MaxCount - 1 .. MaxCount, object : {"raw", "built", "destroyed"}]
    BY DEF CalmInv, TypeInv, TypeParts
  <2>2. memory' = [memory EXCEPT !.count = count]
    BY <1>1
  <2>3. QED
    BY <2>1, <2>2
<1>6. CASE memory.count = 1
  <2>1. count = 0
    BY <1>4, <1>6
  <2>2. mPtr' = mPtr /\ at' = [at EXCEPT ![t] = "last"]
    BY <1>1, <2>1
  <2>3. QED
    BY <1>1, <1>2, <1>3, <1>4, <1>5, <1>6, <2>2
<1>7. CASE memory.count # 1
  <2>1. count > 0 /\ count # 0
    BY <1>3, <1>4, <1>7, CountsAre
  <2>2. mPtr' = [mPtr EXCEPT ![ProcessOf[t]] = FALSE] /\ at' = [at EXCEPT ![t] = "unlock"]
    BY <1>1, <1>4, <2>1
  <2>3. QED
    BY <1>1, <1>2, <1>3, <1>4, <1>5, <1>7, <2>2
<1>8. QED
  BY <1>6, <1>7

LEMMA DestroyLastState ==
  ASSUME CalmInv, NEW t \in Threads, DestroyLast(t)
  PROVE  /\ at[t] = "last" /\ Users = {ProcessOf[t]} /\ Users' = {}
         /\ memory'.object # "built"
<1>1. /\ at[t] = "last" /\ ProcessOf[t] \in Processes
      /\ mPtr' = [mPtr EXCEPT ![ProcessOf[t]] = FALSE]
      /\ memory' = DestroyedLast(ProcessOf[t])
  BY SingletonAssumption DEF DestroyLast, Goto, SingletonAssumption
<1>2. memory.count = 0
  BY <1>1 DEF CalmInv, CountInv, LastAtZero
<1>3. \A p \in Processes : mPtr[p] => Lasts(p)
  BY <1>2, CountsAre, NoneCounted DEF CalmInv, CountInv, InstanceInv
<1>4. \A u \in Threads : at[u] = "last" => u = t
  BY <1>1, OneHolds DEF CalmInv, Holding
<1>5. \A p \in Processes : mPtr[p] => p = ProcessOf[t]
  BY <1>3, <1>4 DEF Lasts
<1>6. mPtr[ProcessOf[t]]
  BY <1>1 DEF CalmInv, CountInv, InstanceInv, HasInstance
<1>7. Users = {ProcessOf[t]} /\ Users' = {}
  BY <1>1, <1>5, <1>6 DEF Users, CalmInv, TypeInv, TypeParts
<1>8. memory'.object # "built"
  <2>1. memory \in [count : -MaxCount - 1 .. MaxCount, object : {"raw", "built", "destroyed"}]
    BY DEF CalmInv, TypeInv, TypeParts
  <2>2. QED
    BY <1>1, <2>1 DEF DestroyedLast, NewMapping
<1>9. QED
  BY <1>1, <1>7, <1>8

LEMMA CountUpState ==
  ASSUME CalmInv, NEW t \in Threads, CountUp(t)
  PROVE  /\ at[t] = "count" /\ ~mPtr[ProcessOf[t]] /\ ProcessOf[t] \in Processes
         /\ memory'.object = memory.object
         /\ IF memory.count # 0
              THEN mPtr' = [mPtr EXCEPT ![ProcessOf[t]] = TRUE] /\ Users # {}
              ELSE mPtr' = mPtr
<1>1. at[t] = "count" /\ ProcessOf[t] \in Processes
  BY SingletonAssumption DEF CountUp, Goto, SingletonAssumption
<1>2. ~mPtr[ProcessOf[t]]
  BY <1>1 DEF CalmInv, CountInv, InstanceInv, NotYet
<1>3. memory'.object = memory.object
  BY DEF CountUp, CalmInv, TypeInv, TypeParts
<1>4. ASSUME memory.count # 0 PROVE Users # {}
  <2>1. CountedProcesses # {}
    BY <1>4, CountsAre, FS_EmptySet
  <2>2. PICK p \in CountedProcesses : TRUE
    BY <2>1
  <2>3. ~Builds(ProcessOf[t])
    BY <1>1, OneHolds DEF CalmInv, Builds, Holding
  <2>4. p # ProcessOf[t]
    BY <1>2, <2>2, <2>3 DEF CountedProcesses
  <2>5. QED
    BY <1>1, <2>2, <2>4, OtherCounted DEF Holding
<1>5. QED
  BY <1>1, <1>2, <1>3, <1>4 DEF CountUp

LEMMA ExactStep ==
  ASSUME OneThreadEach, CountFits, Faults = {}, CalmInv, [Next]_vars
  PROVE  Exact'
<1> USE SingletonAssumption DEF SingletonAssumption
<1>1. CountMoves
  BY CountMovesStep DEF CalmInv, CountInv
<1>2. CASE CountKept
  BY <1>2, CountsAre DEF CountKept, Exact
<1>3. CASE CountedOneUp
  <2>1. PICK t \in Threads :
          /\ ProcessOf[t] \in Hosts \ CountedProcesses
          /\ CountedProcesses' = CountedProcesses \cup {ProcessOf[t]}
          /\ memory'.count = CountedUp(memory.count)
    BY <1>3 DEF CountedOneUp
  <2>2. Cardinality(CountedProcesses') = Cardinality(CountedProcesses) + 1
    BY <2>1, CountedAdd
  <2>3. Cardinality(CountedProcesses') <= Cardinality(Threads)
    <3>1. CountedProcesses' \subseteq Hosts
      BY <2>1 DEF CountedProcesses
    <3>2. QED
      BY <3>1, FiniteHosts
  <2>4. Cardinality(Threads) \in Nat
    BY ThreadsCount
  <2>5. memory.count + 1 <= MaxCount
    BY <2>2, <2>3, <2>4, CountsAre DEF CountFits
  <2>6. memory'.count = memory.count + 1
    BY <2>1, <2>5, CountsAre DEF CountedUp, Wrap
  <2>7. QED
    BY <2>2, <2>6, CountsAre DEF Exact
<1>4. CASE CountedOneDown
  <2>1. PICK t \in Threads :
          /\ ProcessOf[t] \in CountedProcesses
          /\ memory'.count = Wrap(memory.count - 1)
          /\ memory'.count >= 0 => CountedProcesses' = CountedProcesses \ {ProcessOf[t]}
    BY <1>4 DEF CountedOneDown
  <2>2. memory.count >= 1
    BY <2>1, CountsAre, CountedRemove
  <2>3. memory'.count = memory.count - 1 /\ memory'.count >= 0
    BY <2>1, <2>2, CountsAre DEF Wrap
  <2>4. Cardinality(CountedProcesses') = Cardinality(CountedProcesses) - 1
    BY <2>1, <2>3, CountedRemove
  <2>5. QED
    BY <2>3, <2>4, CountsAre DEF Exact
<1>5. CASE CountedLost
  <2>1. PICK p \in Processes : Ends(p) /\ CountedProcesses' = CountedProcesses \ {p}
    BY <1>5 DEF CountedLost
  <2>2. p \notin CountedProcesses
    BY <2>1, EndsInOrder DEF CountedProcesses, ThreadsOf, Builds
  <2>3. CountedProcesses' = CountedProcesses
    BY <2>1, <2>2
  <2>4. QED
    BY <1>5, <2>3, CountsAre DEF CountedLost, Exact
<1>6. CASE CountGone
  BY <1>6, FS_EmptySet DEF CountGone, Exact
<1>7. QED
  BY <1>1, <1>2, <1>3, <1>4, <1>5, <1>6 DEF CountMoves

LEMMA BuiltForUsersStep ==
  ASSUME OneThreadEach, Faults = {}, CalmInv, [Next]_vars
  PROVE  BuiltForUsers'
<1>1. BuiltForUsers
  BY DEF CalmInv, UsersInv
<1>t. mPtr \in [Processes -> BOOLEAN] /\ ProcessOf \in [Threads -> Processes]
  BY SingletonAssumption DEF CalmInv, TypeInv, TypeParts, SingletonAssumption
<1>2. CASE Uncounted
  BY <1>1, <1>2 DEF Uncounted, BuiltForUsers, Users
<1>3. ASSUME NEW t \in Threads, CountUp(t) PROVE BuiltForUsers'
  <2>1. /\ memory'.object = memory.object /\ ProcessOf[t] \in Processes
        /\ IF memory.count # 0
             THEN mPtr' = [mPtr EXCEPT ![ProcessOf[t]] = TRUE] /\ Users # {}
             ELSE mPtr' = mPtr
    BY <1>3, CountUpState
  <2>2. Users # {} <=> Users' # {}
    BY <1>t, <2>1 DEF Users
  <2>3. QED
    BY <1>1, <2>1, <2>2 DEF BuiltForUsers
<1>4. ASSUME NEW t \in Threads, Build(t) PROVE BuiltForUsers'
  <2>1. memory' = [memory EXCEPT !.object = "built"] /\ mPtr' = [mPtr EXCEPT ![ProcessOf[t]] = TRUE]
    BY <1>4 DEF Build
  <2>2. ProcessOf[t] \in Users'
    BY <1>t, <2>1 DEF Users
  <2>3. memory \in [count : -MaxCount - 1 .. MaxCount, object : {"raw", "built", "destroyed"}]
    BY DEF CalmInv, TypeInv, TypeParts
  <2>4. QED
    BY <2>1, <2>2, <2>3 DEF BuiltForUsers
<1>5. ASSUME NEW t \in Threads, CountDown(t) PROVE BuiltForUsers'
  <2>1. /\ at[t] = "section" /\ ProcessOf[t] \in CountedProcesses /\ mPtr[ProcessOf[t]]
        /\ memory'.object = memory.object
        /\ IF memory.count = 1 THEN mPtr' = mPtr
           ELSE mPtr' = [mPtr EXCEPT ![ProcessOf[t]] = FALSE]
    BY <1>5, CountDownState
  <2>2. Users # {}
    BY <1>t, <2>1 DEF Users
  <2>3. CASE memory.count = 1
    BY <1>1, <2>1, <2>3 DEF BuiltForUsers, Users
  <2>4. CASE memory.count # 1
    <3>1. Cardinality(CountedProcesses) # 1
      BY <2>4, CountsAre
    <3>2. CountedProcesses # {ProcessOf[t]}
      BY <3>1, FS_Singleton
    <3>3. PICK p \in CountedProcesses : p # ProcessOf[t]
      BY <2>1, <3>2
    <3>4. p \in Users
      BY <2>1, <3>3, OtherCounted DEF Holding
    <3>5. p \in Users'
      BY <1>t, <2>1, <2>4, <3>3, <3>4 DEF Users
    <3>6. QED
      BY <1>1, <2>1, <2>2, <3>5 DEF BuiltForUsers
  <2>5. QED
    BY <2>3, <2>4
<1>6. ASSUME NEW t \in Threads, DestroyLast(t) PROVE BuiltForUsers'
  BY <1>6, DestroyLastState DEF BuiltForUsers
<1>7. ASSUME NEW p \in Processes, ProcessEnds(p), Ends(p) \/ Crash(p) PROVE BuiltForUsers'
  <2>1. Ends(p) /\ ~mPtr[p]
    BY <1>7, EndsInOrder DEF Crash
  <2>2. Users' = Users
    BY <1>t, <1>7, <2>1 DEF ProcessEnds, Users
  <2>3. CASE \E q \in Processes \ {p} : mHandle[q]
    BY <1>1, <1>7, <2>2, <2>3 DEF ProcessEnds, BuiltForUsers
  <2>4. CASE ~\E q \in Processes \ {p} : mHandle[q]
    <3>1. Users = {}
      BY <2>1, <2>4 DEF Users, CalmInv, CountInv, InstanceInv, UserViews, ViewMapped
    <3>2. memory'.object = "raw"
      BY <1>7, <2>4 DEF ProcessEnds, NewMapping
    <3>3. QED
      BY <2>2, <3>1, <3>2 DEF BuiltForUsers
  <2>5. QED
    BY <2>3, <2>4
<1>8. QED
  BY <1>2, <1>3, <1>4, <1>5, <1>6, <1>7, CountingSteps DEF Counting, CalmInv, CountInv

LEMMA GoneInvStep ==
  ASSUME OneThreadEach, Faults = {}, CalmInv, [Next]_vars
  PROVE  GoneInv'
<1> USE SingletonAssumption
<1>i. /\ TypeInv /\ UserHasMutex /\ Callback /\ CountingGets
      /\ StaleLock /\ AllReleased /\ RefusedUnused /\ GoneInv
  BY DEF CalmInv, MembersInv, LocksInv, UsersInv, UnusedInv
<1> USE DEF SingletonAssumption, OneThreadEach, TypeInv, TypeParts, Labels, InsideLabels, Deleting,
            UserHasMutex, Callback, CountingGets, StaleLock, AllReleased, RefusedUnused, Users,
            GoneInv, DeletedGone, ExitGone
<1>1. ASSUME NEW t \in Threads, GetInstance(t) PROVE GoneInv'
  BY <1>1, <1>i DEF GetInstance, Call, Goto, kernel, statics
<1>2. ASSUME NEW t \in Threads, DeleteInstance(t) PROVE GoneInv'
  BY <1>2, <1>i DEF DeleteInstance, Call, Goto, kernel, statics
<1>3. ASSUME NEW t \in Threads, Exit(t) PROVE GoneInv'
  BY <1>3, <1>i DEF Exit, Call, Goto, kernel, statics
<1>4. ASSUME NEW t \in Threads, CreateMutex(t) PROVE GoneInv'
  BY <1>4, <1>i DEF CreateMutex, Goto, kernel, statics
<1>5. ASSUME NEW t \in Threads, CreateMutexOpens(t) PROVE GoneInv'
  BY <1>5, <1>i DEF CreateMutexOpens, Goto, OpenMutex
<1>5f. ASSUME NEW t \in Threads, CreateMutexFails(t) PROVE GoneInv'
  BY <1>5f DEF CreateMutexFails
<1>6. ASSUME NEW t \in Threads, LockThrows(t) PROVE GoneInv'
  BY <1>6, <1>i DEF LockThrows, Leave, kernel, statics
<1>7. ASSUME NEW t \in Threads, LockChecked(t) PROVE GoneInv'
  BY <1>7, <1>i DEF LockChecked, Goto, kernel, statics
<1>8. ASSUME NEW t \in Threads, LockWaits(t) PROVE GoneInv'
  BY <1>8, <1>i DEF LockWaits, Goto, kernel, statics
<1>9. ASSUME NEW t \in Threads, MutexGranted(t) PROVE GoneInv'
  BY <1>9, <1>i DEF MutexGranted, statics
<1>10. ASSUME NEW t \in Threads, LockStores(t) PROVE GoneInv'
  BY <1>10, <1>i DEF LockStores, kernel
<1>11. ASSUME NEW t \in Threads, LockFails(t) PROVE GoneInv'
  BY <1>11, <1>i DEF LockFails, Leave, kernel, statics
<1>12. ASSUME NEW t \in Threads, LockReturns(t) PROVE GoneInv'
  BY <1>12, <1>i DEF LockReturns, Goto, kernel, statics
<1>13. ASSUME NEW t \in Threads, NothingToDo(t) PROVE GoneInv'
  BY <1>13, <1>i DEF NothingToDo, Goto, kernel, statics
<1>14. ASSUME NEW t \in Threads, CreateMemory(t) PROVE GoneInv'
  BY <1>14, <1>i DEF CreateMemory, Goto, kernel, statics
<1>15. ASSUME NEW t \in Threads, CountUp(t) PROVE GoneInv'
  BY <1>15, <1>i DEF CountUp, Goto
<1>16. ASSUME NEW t \in Threads, Build(t) PROVE GoneInv'
  BY <1>16, <1>i DEF Build, Goto
<1>17. ASSUME NEW t \in Threads, Initialized(t) PROVE GoneInv'
  BY <1>17, <1>i DEF Initialized, Goto, kernel, statics
<1>18. ASSUME NEW t \in Threads, CountDown(t) PROVE GoneInv'
  <2>1. /\ at[t] = "section" /\ ProcessOf[t] \in Processes
        /\ \/ mPtr' = mPtr /\ at' = [at EXCEPT ![t] = "last"]
           \/ mPtr' = [mPtr EXCEPT ![ProcessOf[t]] = FALSE] /\ at' = [at EXCEPT ![t] = "unlock"]
    BY <1>18, CountDownState
  <2>2. op' = op
    BY <1>18 DEF CountDown
  <2>3. QED
    BY <1>i, <2>1, <2>2
<1>19. ASSUME NEW t \in Threads, DestroyLast(t) PROVE GoneInv'
  BY <1>19, <1>i DEF DestroyLast, Goto
<1>20. ASSUME NEW t \in Threads, UnlockReturns(t) PROVE GoneInv'
  BY <1>20, <1>i DEF UnlockReturns, Leave, kernel, statics
<1>21. ASSUME NEW t \in Threads, Unlock(t) PROVE GoneInv'
  BY <1>21, <1>i DEF Unlock, Goto, kernel, statics
<1>22. ASSUME NEW t \in Threads, UnlockStores(t) PROVE GoneInv'
  BY <1>22, <1>i DEF UnlockStores, Leave, kernel
<1>23. ASSUME NEW t \in Threads, ThreadEnds(t) PROVE GoneInv'
  BY <1>23, <1>i DEF ThreadEnds, Goto, statics
<1>24. ASSUME NEW p \in Processes, ProcessEnds(p) PROVE GoneInv'
  BY <1>24, <1>i DEF ProcessEnds, ThreadsOf
<1>25. ASSUME NEW p \in Processes, Start(p) PROVE GoneInv'
  BY <1>25, <1>i DEF Start, Alive, ThreadsOf, kernel, statics
<1>26. CASE UNCHANGED vars
  BY <1>26, <1>i DEF vars, kernel, statics
<1>27. QED
  BY <1>1, <1>2, <1>3, <1>4, <1>5, <1>6, <1>7, <1>8, <1>9, <1>10, <1>11, <1>12,
     <1>13, <1>14, <1>15, <1>16, <1>17, <1>18, <1>19, <1>20, <1>21, <1>22,
     <1>23, <1>24, <1>25, <1>26, <1>5f DEF Next, Works, Ends, Crash, Over

-----------------------------------------------------------------------------
(*****************************************************************************)
(* When nobody has it.                                                     *)
(*****************************************************************************)

(* A lock is refused to a thread that acquired an abandoned mutex.         *)
Refused(t) == at[t] = "abandoned" \/ (at[t] = "entered" /\ ~mLocked[ProcessOf[t]])

LEMMA RefusedStep ==
  ASSUME OneThreadEach, CalmInv, [Next]_vars, NEW u \in Threads, Refused(u)'
  PROVE  \/ Refused(u)
         \/ mutex[named].abandoned /\ named # 0 /\ UNCHANGED mPtr
<1> DEFINE From == \/ Refused(u)
                   \/ mutex[named].abandoned /\ named # 0 /\ UNCHANGED mPtr
<1> SUFFICES From
  OBVIOUS
<1> USE SingletonAssumption
<1>i. TypeInv /\ MutexInv /\ HasMutex /\ WaitsForIt
  BY DEF CalmInv, MutexInv
<1> USE DEF SingletonAssumption, OneThreadEach, TypeInv, TypeParts, Labels, Holding, Locking,
            Refused, HasMutex, WaitsForIt
<1>1. ASSUME NEW t \in Threads, GetInstance(t) PROVE From
  BY <1>1, <1>i DEF GetInstance, Call, Goto, kernel, statics
<1>2. ASSUME NEW t \in Threads, DeleteInstance(t) PROVE From
  BY <1>2, <1>i DEF DeleteInstance, Call, Goto, kernel, statics
<1>3. ASSUME NEW t \in Threads, Exit(t) PROVE From
  BY <1>3, <1>i DEF Exit, Call, Goto, kernel, statics
<1>4. ASSUME NEW t \in Threads, CreateMutex(t) PROVE From
  BY <1>4, <1>i DEF CreateMutex, Goto, kernel, statics
<1>5. ASSUME NEW t \in Threads, CreateMutexOpens(t) PROVE From
  BY <1>5, <1>i DEF CreateMutexOpens, Goto, OpenMutex
<1>5f. ASSUME NEW t \in Threads, CreateMutexFails(t) PROVE From
  BY <1>5f, <1>i DEF CreateMutexFails, Leave, Goto, kernel
<1>6. ASSUME NEW t \in Threads, LockThrows(t) PROVE From
  BY <1>6, <1>i DEF LockThrows, Leave, kernel, statics
<1>7. ASSUME NEW t \in Threads, LockChecked(t) PROVE From
  BY <1>7, <1>i DEF LockChecked, Goto, kernel, statics
<1>8. ASSUME NEW t \in Threads, LockWaits(t) PROVE From
  BY <1>8, <1>i DEF LockWaits, Goto, kernel, statics
<1>9. ASSUME NEW t \in Threads, MutexGranted(t) PROVE From
  <2>1. at[t] = "wait" /\ ProcessOf[t] \in Processes
    BY <1>9 DEF MutexGranted
  <2>2. waitsOn[t] = named /\ named # 0
    BY <1>i, <2>1, NameKept
  <2>3. QED
    BY <1>9, <1>i, <2>1, <2>2 DEF MutexGranted, statics
<1>10. ASSUME NEW t \in Threads, LockStores(t) PROVE From
  BY <1>10, <1>i DEF LockStores, kernel
<1>11. ASSUME NEW t \in Threads, LockFails(t) PROVE From
  BY <1>11, <1>i DEF LockFails, Leave, kernel, statics
<1>12. ASSUME NEW t \in Threads, LockReturns(t) PROVE From
  BY <1>12, <1>i DEF LockReturns, Goto, kernel, statics
<1>13. ASSUME NEW t \in Threads, NothingToDo(t) PROVE From
  BY <1>13, <1>i DEF NothingToDo, Goto, kernel, statics
<1>14. ASSUME NEW t \in Threads, CreateMemory(t) PROVE From
  BY <1>14, <1>i DEF CreateMemory, Goto, kernel, statics
<1>15. ASSUME NEW t \in Threads, CountUp(t) PROVE From
  BY <1>15, <1>i DEF CountUp, Goto
<1>16. ASSUME NEW t \in Threads, Build(t) PROVE From
  BY <1>16, <1>i DEF Build, Goto
<1>17. ASSUME NEW t \in Threads, Initialized(t) PROVE From
  BY <1>17, <1>i DEF Initialized, Goto, kernel, statics
<1>18. ASSUME NEW t \in Threads, CountDown(t) PROVE From
  BY <1>18, <1>i DEF CountDown, IsLast, Goto
<1>19. ASSUME NEW t \in Threads, DestroyLast(t) PROVE From
  BY <1>19, <1>i DEF DestroyLast, Goto
<1>20. ASSUME NEW t \in Threads, UnlockReturns(t) PROVE From
  BY <1>20, <1>i DEF UnlockReturns, Leave, kernel, statics
<1>21. ASSUME NEW t \in Threads, Unlock(t) PROVE From
  BY <1>21, <1>i DEF Unlock, Goto, kernel, statics
<1>22. ASSUME NEW t \in Threads, UnlockStores(t) PROVE From
  BY <1>22, <1>i DEF UnlockStores, Leave, kernel
<1>23. ASSUME NEW t \in Threads, ThreadEnds(t) PROVE From
  BY <1>23, <1>i DEF ThreadEnds, Goto, statics
<1>24. ASSUME NEW p \in Processes, ProcessEnds(p) PROVE From
  BY <1>24, <1>i DEF ProcessEnds, ThreadsOf
<1>25. ASSUME NEW p \in Processes, Start(p) PROVE From
  BY <1>25, <1>i DEF Start, Alive, ThreadsOf, kernel, statics
<1>26. CASE UNCHANGED vars
  BY <1>26, <1>i DEF vars, kernel, statics
<1>27. QED
  BY <1>1, <1>2, <1>3, <1>4, <1>5, <1>6, <1>7, <1>8, <1>9, <1>10, <1>11, <1>12,
     <1>13, <1>14, <1>15, <1>16, <1>17, <1>18, <1>19, <1>20, <1>21, <1>22,
     <1>23, <1>24, <1>25, <1>26, <1>5f DEF Next, Works, Ends, Crash, Over

LEMMA RefusedUnusedStep ==
  ASSUME OneThreadEach, Faults = {}, CalmInv, [Next]_vars
  PROVE  RefusedUnused'
<1> SUFFICES ASSUME NEW t \in Threads, Refused(t)' PROVE Users' = {}
  BY DEF RefusedUnused, Refused
<1>1. Users = {}
  BY RefusedStep DEF CalmInv, UsersInv, UnusedInv, RefusedUnused, AbandonedUnused, Refused
<1>2. CASE UNCHANGED mPtr
  BY <1>1, <1>2 DEF Users
<1>3. ASSUME NEW u \in Threads, Counting(u), Refused(t) PROVE FALSE
  <2>1. at[t] \in Holding
    BY <1>3 DEF Refused, Holding
  <2>2. u = t
    BY <1>3, <2>1, CounterHolds DEF CalmInv
  <2>3. QED
    BY <1>3, <2>2 DEF Refused, Counting, CountUp, Build, CountDown, DestroyLast, Goto
<1>4. QED
  BY <1>1, <1>2, <1>3, RefusedStep, UsersMove

(* Who counts owns the mutex with the name.                                *)
LEMMA CounterOwns ==
  ASSUME CalmInv, NEW t \in Threads, Counting(t)
  PROVE  named # 0 /\ mutex[named].owner = t /\ t # NoThread /\ at[t] \in Holding
<1>1. at[t] \in Holding /\ ProcessOf[t] \in Processes /\ t # NoThread
  BY SingletonAssumption
     DEF Counting, CountUp, Build, CountDown, DestroyLast, Goto, Holding, SingletonAssumption
<1>2. mMutex[ProcessOf[t]] # 0 /\ mutex[named].owner = t
  BY <1>1 DEF CalmInv, MutexInv, HasMutex, HoldsIt, Locking
<1>3. QED
  BY <1>1, <1>2, NameKept DEF CalmInv

(* The mutex is left by a process that ends in order only when nobody has  *)
(* the instance.                                                           *)
LEMMA LostUnused ==
  ASSUME OneThreadEach, Faults = {}, CalmInv, named # 0, NEW p \in Processes, NamedLost(p)
  PROVE  Users = {}
<1>1. Ends(p) /\ mutex[named].owner \in ThreadsOf(p)
  BY DEF NamedLost, Crash
<1>2. PICK t \in ThreadsOf(p) : mutex[named].owner = t
  BY <1>1
<1>3. t \in Threads /\ ProcessOf[t] = p /\ t # NoThread /\ named \in Mutexes
  BY <1>2, SingletonAssumption DEF ThreadsOf, SingletonAssumption, CalmInv, TypeInv, TypeParts
<1>4. at[t] = "exiting" /\ ~mPtr[p]
  BY <1>1, <1>2, EndsInOrder
<1>5. Balance(t) = 0
  BY <1>4 DEF Balance, Holding, ToUnlock
<1>6. mutex[named].depth >= 1
  BY <1>2, <1>3 DEF CalmInv, TypeInv, OwnedOnce
<1>7. mutex[named].depth \in Nat
  BY <1>3 DEF CalmInv, TypeInv, TypeParts, MutexStates
<1>8. Users \subseteq {p}
  BY <1>2, <1>3, <1>5, <1>6, <1>7 DEF CalmInv, UsersInv, UnusedInv, StaleOwner
<1>9. QED
  BY <1>4, <1>8 DEF Users

LEMMA AbandonedUnusedStep ==
  ASSUME OneThreadEach, Faults = {}, CalmInv, [Next]_vars
  PROVE  AbandonedUnused'
<1> SUFFICES ASSUME named' # 0, mutex'[named'].abandoned PROVE Users' = {}
  BY DEF AbandonedUnused
<1>1. NamedMoves
  BY NamedMovesStep DEF CalmInv
<1>2. ~NamedMade
  BY DEF NamedMade, Free
<1>3. CASE NamedKept
  <2>1. named # 0 /\ mutex[named].abandoned
    BY <1>3 DEF NamedKept
  <2>2. Users = {} /\ mutex[named].owner = NoThread
    BY <2>1 DEF CalmInv, UsersInv, UnusedInv, AbandonedUnused, NamedFree
  <2>3. ~\E t \in Threads : Counting(t)
    BY <2>2, CounterOwns
  <2>4. QED
    BY <2>2, <2>3, UsersMove
<1>4. \A t \in Threads : ~NamedGranted(t)
  BY DEF NamedGranted
<1>5. ASSUME NEW t \in Threads, NamedReleased(t) PROVE FALSE
  <2>1. named # 0 /\ mutex[named].owner = t /\ Released(mutex[named]).abandoned
    BY <1>5 DEF NamedReleased
  <2>2. t # NoThread /\ mutex[named].abandoned
    BY <2>1, ReleasedNamed DEF CalmInv
  <2>3. QED
    BY <2>1, <2>2 DEF CalmInv, NamedFree
<1>6. ASSUME NEW p \in Processes, NamedLost(p) PROVE Users' = {}
  <2>1. named # 0 /\ ProcessEnds(p) /\ (Ends(p) \/ Crash(p))
    BY <1>6 DEF NamedLost
  <2>2. Users = {}
    BY <1>6, <2>1, LostUnused
  <2>3. mPtr' = [mPtr EXCEPT ![p] = FALSE]
    BY <2>1 DEF ProcessEnds
  <2>4. QED
    BY <2>2, <2>3 DEF Users, CalmInv, TypeInv, TypeParts
<1>7. QED
  BY <1>1, <1>2, <1>3, <1>4, <1>5, <1>6 DEF NamedMoves

LEMMA BalanceFalls ==
  ASSUME OneThreadEach, Faults = {}, CalmInv, [Next]_vars, NEW u \in Threads
  PROVE  \/ Balance(u)' >= Balance(u)
         \/ LockFails(u) \/ DestroyLast(u) \/ Unlock(u)
<1> DEFINE Has    == at[u] \in Holding \/ ToUnlock(u)
           Stays  == Has => at'[u] \in Holding \/ ToUnlock(u)'
           Falls  == LockFails(u) \/ DestroyLast(u) \/ Unlock(u)
           Result == Stays \/ Falls
<1> SUFFICES Result
  BY DEF Balance
<1> USE SingletonAssumption
<1>i. TypeInv /\ MutexInv /\ HasMutex
  BY DEF CalmInv, MutexInv
<1> USE DEF SingletonAssumption, OneThreadEach, TypeInv, TypeParts, Labels, Holding, Locking,
            ToUnlock, HasMutex
<1>1. ASSUME NEW t \in Threads, GetInstance(t) PROVE Result
  BY <1>1, <1>i DEF GetInstance, Call, Goto, kernel, statics
<1>2. ASSUME NEW t \in Threads, DeleteInstance(t) PROVE Result
  BY <1>2, <1>i DEF DeleteInstance, Call, Goto, kernel, statics
<1>3. ASSUME NEW t \in Threads, Exit(t) PROVE Result
  BY <1>3, <1>i DEF Exit, Call, Goto, kernel, statics
<1>4. ASSUME NEW t \in Threads, CreateMutex(t) PROVE Result
  BY <1>4, <1>i DEF CreateMutex, Goto, kernel, statics
<1>5. ASSUME NEW t \in Threads, CreateMutexOpens(t) PROVE Result
  <2>1. /\ at[t] = "open" /\ at' = [at EXCEPT ![t] = "lock"]
        /\ \A p \in Processes : p # ProcessOf[t] => mMutex'[p] = mMutex[p]
    BY <1>5, <1>i DEF CreateMutexOpens, Goto
  <2>2. QED
    BY <1>i, <2>1
<1>5f. ASSUME NEW t \in Threads, CreateMutexFails(t) PROVE Result
  BY <1>5f DEF CreateMutexFails
<1>6. ASSUME NEW t \in Threads, LockThrows(t) PROVE Result
  BY <1>6, <1>i DEF LockThrows, Leave, kernel, statics
<1>7. ASSUME NEW t \in Threads, LockChecked(t) PROVE Result
  BY <1>7, <1>i DEF LockChecked, Goto, kernel, statics
<1>8. ASSUME NEW t \in Threads, LockWaits(t) PROVE Result
  BY <1>8, <1>i DEF LockWaits, Goto, kernel, statics
<1>9. ASSUME NEW t \in Threads, MutexGranted(t) PROVE Result
  BY <1>9, <1>i DEF MutexGranted, statics
<1>10. ASSUME NEW t \in Threads, LockStores(t) PROVE Result
  BY <1>10, <1>i DEF LockStores, kernel
<1>11. ASSUME NEW t \in Threads, LockFails(t) PROVE Result
  BY <1>11, <1>i DEF LockFails, Leave, kernel, statics
<1>12. ASSUME NEW t \in Threads, LockReturns(t) PROVE Result
  BY <1>12, <1>i DEF LockReturns, Goto, kernel, statics
<1>13. ASSUME NEW t \in Threads, NothingToDo(t) PROVE Result
  BY <1>13, <1>i DEF NothingToDo, Goto, kernel, statics
<1>14. ASSUME NEW t \in Threads, CreateMemory(t) PROVE Result
  BY <1>14, <1>i DEF CreateMemory, Goto, kernel, statics
<1>15. ASSUME NEW t \in Threads, CountUp(t) PROVE Result
  BY <1>15, <1>i DEF CountUp, Goto
<1>16. ASSUME NEW t \in Threads, Build(t) PROVE Result
  BY <1>16, <1>i DEF Build, Goto
<1>17. ASSUME NEW t \in Threads, Initialized(t) PROVE Result
  BY <1>17, <1>i DEF Initialized, Goto, kernel, statics
<1>18. ASSUME NEW t \in Threads, CountDown(t) PROVE Result
  BY <1>18, <1>i DEF CountDown, IsLast, Goto
<1>19. ASSUME NEW t \in Threads, DestroyLast(t) PROVE Result
  BY <1>19, <1>i DEF DestroyLast, Goto
<1>20. ASSUME NEW t \in Threads, UnlockReturns(t) PROVE Result
  BY <1>20, <1>i DEF UnlockReturns, Leave, kernel, statics
<1>21. ASSUME NEW t \in Threads, Unlock(t) PROVE Result
  BY <1>21, <1>i DEF Unlock, Goto, kernel, statics
<1>22. ASSUME NEW t \in Threads, UnlockStores(t) PROVE Result
  BY <1>22, <1>i DEF UnlockStores, Leave, kernel
<1>23. ASSUME NEW t \in Threads, ThreadEnds(t) PROVE Result
  BY <1>23, <1>i DEF ThreadEnds, Goto, statics
<1>24. ASSUME NEW p \in Processes, ProcessEnds(p), Ends(p) \/ Crash(p) PROVE Result
  <2>1. CASE ProcessOf[u] = p
    <3>1. at[u] = "exiting"
      BY <1>24, <2>1, EndsInOrder DEF Crash, ThreadsOf
    <3>2. QED
      BY <3>1
  <2>2. CASE ProcessOf[u] # p
    BY <1>24, <1>i, <2>2 DEF ProcessEnds, ThreadsOf
  <2>3. QED
    BY <2>1, <2>2
<1>25. ASSUME NEW p \in Processes, Start(p) PROVE Result
  BY <1>25, <1>i DEF Start, Alive, ThreadsOf, kernel, statics
<1>26. CASE UNCHANGED vars
  BY <1>26, <1>i DEF vars, kernel, statics
<1>27. QED
  BY <1>1, <1>2, <1>3, <1>4, <1>5, <1>6, <1>7, <1>8, <1>9, <1>10, <1>11, <1>12,
     <1>13, <1>14, <1>15, <1>16, <1>17, <1>18, <1>19, <1>20, <1>21, <1>22,
     <1>23, <1>24, <1>25, <1>26, <1>5f DEF Next, Works, Ends, Crash, Over

LEMMA StaleOwnerStep ==
  ASSUME OneThreadEach, Faults = {}, CalmInv, [Next]_vars
  PROVE  StaleOwner'
<1> SUFFICES ASSUME named' # 0, NEW t \in Threads, mutex'[named'].owner = t,
                    mutex'[named'].depth > Balance(t)'
             PROVE  Users' \subseteq {ProcessOf[t]}
  BY DEF StaleOwner
<1>1. NamedMoves
  BY NamedMovesStep DEF CalmInv
<1>2. t # NoThread
  BY SingletonAssumption DEF SingletonAssumption
<1>3. named # 0 /\ mutex[named].owner = t /\ mutex[named].depth > Balance(t) =>
        Users \subseteq {ProcessOf[t]}
  BY DEF CalmInv, UsersInv, UnusedInv, StaleOwner
<1>4. ~NamedMade
  BY <1>2 DEF NamedMade, Free
<1>5. CASE NamedKept
  <2>1. named # 0 /\ mutex[named].owner = t /\ mutex'[named].depth = mutex[named].depth
    BY <1>5 DEF NamedKept
  <2>2. mutex[named].depth \in Nat
    BY <2>1 DEF CalmInv, TypeInv, TypeParts, MutexStates
  <2>3. CASE Balance(t)' >= Balance(t)
    <3>1. Users \subseteq {ProcessOf[t]}
      BY <1>3, <1>5, <2>1, <2>2, <2>3 DEF Balance, NamedKept
    <3>2. CASE Users' = Users
      BY <3>1, <3>2
    <3>3. ASSUME NEW u \in Threads, Counting(u) PROVE Users' \subseteq {ProcessOf[t]}
      <4>1. u = t
        BY <2>1, <3>3, CounterOwns
      <4>2. \A p \in Processes : p # ProcessOf[t] => mPtr'[p] = mPtr[p]
        BY <3>3, <4>1
           DEF Counting, CountUp, Build, CountDown, DestroyLast, CalmInv, TypeInv, TypeParts
      <4>3. QED
        BY <3>1, <4>2 DEF Users
    <3>4. QED
      BY <3>2, <3>3, UsersMove
  <2>4. CASE LockFails(t)
    <3>1. Users = {}
      BY <2>4 DEF LockFails, Leave, CalmInv, UsersInv, UnusedInv, RefusedUnused
    <3>2. QED
      BY <2>4, <3>1 DEF LockFails, statics, Users
  <2>5. CASE DestroyLast(t)
    BY <2>5, DestroyLastState DEF CalmInv
  <2>6. CASE Unlock(t)
    <3>1. ToUnlock(t)
      BY <2>6 DEF Unlock, Goto, ToUnlock
    <3>2. mMutex[ProcessOf[t]] = named /\ named \in Mutexes
      BY <2>1, <3>1, UnlockOwns DEF CalmInv, TypeInv, TypeParts
    <3>3. mutex'[named] = Released(mutex[named])
      BY <2>1, <2>6, <3>2 DEF Unlock, CalmInv, TypeInv, TypeParts
    <3>4. Released(mutex[named]).depth = mutex[named].depth - 1
      BY <2>1, ReleasedNamed DEF CalmInv
    <3>5. QED
      BY <2>1, <2>2, <3>3, <3>4
  <2>7. QED
    BY <2>3, <2>4, <2>5, <2>6, BalanceFalls
<1>6. ASSUME NEW u \in Threads, NamedGranted(u) PROVE Users' \subseteq {ProcessOf[t]}
  <2>1. /\ u = t /\ named' = named /\ named # 0
        /\ at[t] = "wait" /\ at'[t] \in Holding
        /\ mutex[named].owner \in {NoThread, t}
        /\ mutex'[named].depth = mutex[named].depth + 1
        /\ UNCHANGED mPtr
    BY <1>6 DEF NamedGranted, Holding
  <2>2. mutex[named].depth \in Nat
    BY <2>1 DEF CalmInv, TypeInv, TypeParts, MutexStates
  <2>3. Balance(t)' = 1 /\ Balance(t) = 0
    BY <2>1 DEF Balance, Holding, ToUnlock
  <2>4. mutex[named].depth > 0
    BY <2>1, <2>2, <2>3
  <2>5. mutex[named].owner = t
    BY <2>1, <2>4 DEF CalmInv, NamedFree
  <2>6. QED
    BY <1>3, <2>1, <2>3, <2>4, <2>5 DEF Users
<1>7. ASSUME NEW u \in Threads, NamedReleased(u) PROVE Users' \subseteq {ProcessOf[t]}
  <2>1. /\ named' = named /\ named # 0
        /\ ToUnlock(u) /\ at'[u] = "released"
        /\ mutex[named].owner = u
        /\ mutex'[named] = Released(mutex[named])
        /\ UNCHANGED mPtr
    BY <1>7 DEF NamedReleased
  <2>2. mutex[named].depth \in Nat
    BY <2>1 DEF CalmInv, TypeInv, TypeParts, MutexStates
  <2>3. /\ Released(mutex[named]).depth = mutex[named].depth - 1
        /\ Released(mutex[named]).owner \in {NoThread, u}
    BY <2>1, ReleasedNamed DEF CalmInv
  <2>4. u = t
    BY <1>2, <2>1, <2>3
  <2>5. Balance(t)' = 0 /\ Balance(t) = 1
    BY <2>1, <2>4 DEF Balance, Holding, ToUnlock
  <2>6. mutex[named].depth > 1
    BY <2>1, <2>2, <2>3, <2>5
  <2>7. QED
    BY <1>3, <2>1, <2>4, <2>5, <2>6 DEF Users
<1>8. \A p \in Processes : ~NamedLost(p)
  BY <1>2 DEF NamedLost
<1>9. QED
  BY <1>1, <1>4, <1>5, <1>6, <1>7, <1>8 DEF NamedMoves

-----------------------------------------------------------------------------
(*****************************************************************************)
(* The theorems.                                                           *)
(*****************************************************************************)

LEMMA CalmInvStep ==
  ASSUME OneThreadEach, CountFits, Faults = {}
  PROVE  CalmInv /\ [Next]_vars => CalmInv'
<1> SUFFICES ASSUME CalmInv, [Next]_vars PROVE CalmInv'
  OBVIOUS
<1>1. DeletersAlone
  BY DEF OneThreadEach, DeletersAlone, Alone, ThreadsOf
<1>2. TypeInv' /\ MutexInv'
  <2>1. Intact'
    BY MembersInvStep DEF CalmInv, CountInv, MembersInv, Intact
  <2>2. QED
    BY <1>1, <2>1, TypeInvStep, MutexInvStep DEF CalmInv
<1>3. NoOverflow
  <2> SUFFICES ASSUME NEW t \in Threads, at[t] = "count" PROVE memory.count < MaxCount
    BY DEF NoOverflow
  <2> DEFINE p == ProcessOf[t]
  <2>1. p \notin CountedProcesses
    <3>1. ~Builds(p)
      BY OneHolds DEF CalmInv, Builds, Holding
    <3>2. QED
      BY <3>1 DEF CountedProcesses, CalmInv, CountInv, InstanceInv, NotYet
  <2>2. IsFiniteSet(CountedProcesses) /\ CountedProcesses \cup {p} \subseteq Hosts
    BY FiniteHosts, SingletonAssumption DEF CountedProcesses, Hosts, SingletonAssumption
  <2>3. Cardinality(CountedProcesses \cup {p}) = Cardinality(CountedProcesses) + 1
    BY <2>1, <2>2, FS_AddElement
  <2>4. Cardinality(CountedProcesses \cup {p}) <= Cardinality(Threads)
    BY <2>2, FiniteHosts
  <2>5. QED
    BY <2>3, <2>4, CountsAre, ThreadsCount, SingletonAssumption DEF CountFits, SingletonAssumption
<1>4. CountInv'
  BY <1>3, CountInvStep DEF CalmInv
<1>5. MembersInv'
  BY MembersInvStep DEF CalmInv, CountInv
<1>6. LocksInv'
  BY <1>2, LocksInvStep DEF CalmInv
<1>7. NamedFree'
  BY NamedFreeStep DEF CalmInv
<1>8. UsersInv'
  BY ExactStep, BuiltForUsersStep, GoneInvStep, RefusedUnusedStep, AbandonedUnusedStep,
     StaleOwnerStep DEF UsersInv, UnusedInv
<1>9. QED
  BY <1>2, <1>4, <1>5, <1>6, <1>7, <1>8 DEF CalmInv

LEMMA CalmInvInit == Init => CalmInv
<1> SUFFICES ASSUME Init PROVE CalmInv
  OBVIOUS
<1> USE SingletonAssumption DEF SingletonAssumption
<1>1. TypeInv /\ MutexInv /\ CountInv
  BY TypeInvInit, MutexInvInit, CountInvInit
<1>2. MembersInv /\ LocksInv /\ NamedFree
  BY DEF Init, MembersInv, AllViews, CountViews, CountingGets, UserHasMutex, Callback,
         LocksInv, LockedInside, StaleLock, OwnedStill, AllReleased, ToUnlock, InsideLabels, NamedFree
<1>3. Users = {}
  BY DEF Init, Users
<1>4. Exact
  <2>1. CountedProcesses = {}
    BY DEF Init, CountedProcesses, Builds, Hosts
  <2>2. QED
    BY <2>1, FS_EmptySet DEF Init, Exact, NewMapping
<1>5. BuiltForUsers /\ GoneInv
  BY <1>3 DEF Init, BuiltForUsers, NewMapping, GoneInv, DeletedGone, ExitGone
<1>6. UnusedInv
  BY <1>3 DEF Init, UnusedInv, RefusedUnused, AbandonedUnused, StaleOwner
<1>7. QED
  BY <1>1, <1>2, <1>4, <1>5, <1>6 DEF CalmInv, UsersInv

LEMMA CalmInvHolds ==
  ASSUME OneThreadEach, CountFits, Faults = {}
  PROVE  Spec => []CalmInv
  BY CalmInvInit, CalmInvStep, PTL DEF Spec

(* In processes of one thread, as many as a RefCountType can count, when   *)
(* nothing crashes, throws or fails: the count is the number of processes  *)
(* that have the instance.                                                 *)
THEOREM CountIsUsersHolds ==
  ASSUME OneThreadEach, CountFits, Faults = {}
  PROVE  Spec => []CountIsUsers
<1>1. CalmInv => CountIsUsers
  BY UsersCounted DEF CalmInv, CountInv, UsersInv, Exact, CountIsUsers
<1>2. QED
  BY <1>1, CalmInvHolds, PTL

(* Who has the instance sees, through a view of its own, an object that    *)
(* was constructed and is not destroyed.                                   *)
THEOREM UsersShareObjectHolds ==
  ASSUME OneThreadEach, CountFits, Faults = {}
  PROVE  Spec => []UsersShareObject
<1>1. CalmInv => UsersShareObject
  BY DEF CalmInv, CountInv, InstanceInv, UserViews, UsersInv, BuiltForUsers, UsersShareObject, Users
<1>2. QED
  BY <1>1, CalmInvHolds, PTL

-----------------------------------------------------------------------------
(***************************************************************************)
(* The refinement.  Processes attach in Build, or in CountUp when there is *)
(* an object already, and detach in CountDown, or with the last one in     *)
(* DestroyLast; every other step leaves the shared object alone.           *)
(***************************************************************************)

SharedStep == \E p \in Processes : Shared!Attach(p) \/ Shared!Detach(p)

LEMMA SharedKept ==
  ASSUME BuiltForUsers, BuiltForUsers', Users' = Users
  PROVE  UNCHANGED Shared!svars
  BY DEF BuiltForUsers, Shared!svars

LEMMA Attaches ==
  ASSUME CalmInv, BuiltForUsers', NEW p \in Processes, ~mPtr[p],
         mPtr' = [mPtr EXCEPT ![p] = TRUE]
  PROVE  Shared!Attach(p)
<1>1. Users' = Users \cup {p} /\ p \notin Users
  BY DEF Users, CalmInv, TypeInv, TypeParts
<1>2. (memory.object = "built")' = TRUE
  BY <1>1 DEF BuiltForUsers
<1>3. QED
  BY <1>1, <1>2 DEF Shared!Attach

LEMMA Detaches ==
  ASSUME CalmInv, BuiltForUsers', NEW p \in Processes, p \in Users,
         Users' = Users \ {p}
  PROVE  Shared!Detach(p)
  BY DEF Shared!Detach, BuiltForUsers

LEMMA NextSharedStep ==
  ASSUME OneThreadEach, CountFits, Faults = {}
  PROVE  CalmInv /\ [Next]_vars => [SharedStep]_(Shared!svars)
<1> SUFFICES ASSUME CalmInv, [Next]_vars PROVE SharedStep \/ UNCHANGED Shared!svars
  OBVIOUS
<1>1. BuiltForUsers /\ BuiltForUsers' /\ \A t \in Threads : ProcessOf[t] \in Processes
  BY CalmInvStep, SingletonAssumption DEF CalmInv, UsersInv, SingletonAssumption
<1>2. CASE mPtr' = mPtr
  BY <1>1, <1>2, SharedKept DEF Users
<1>3. ASSUME NEW t \in Threads, CountUp(t), mPtr' # mPtr PROVE Shared!Attach(ProcessOf[t])
  BY <1>1, <1>3, CountUpState, Attaches
<1>4. ASSUME NEW t \in Threads, Build(t), mPtr' # mPtr PROVE Shared!Attach(ProcessOf[t])
  <2>1. mPtr' = [mPtr EXCEPT ![ProcessOf[t]] = TRUE] /\ at[t] = "build"
    BY <1>4 DEF Build, Goto
  <2>2. ~mPtr[ProcessOf[t]]
    BY <2>1 DEF CalmInv, CountInv, InstanceInv, NotYet
  <2>3. QED
    BY <1>1, <2>1, <2>2, Attaches
<1>5. ASSUME NEW t \in Threads, CountDown(t), mPtr' # mPtr PROVE Shared!Detach(ProcessOf[t])
  <2>1. mPtr[ProcessOf[t]] /\ mPtr' = [mPtr EXCEPT ![ProcessOf[t]] = FALSE]
    BY <1>5, CountDownState
  <2>2. ProcessOf[t] \in Users /\ Users' = Users \ {ProcessOf[t]}
    BY <1>1, <2>1 DEF Users, CalmInv, TypeInv, TypeParts
  <2>3. QED
    BY <1>1, <2>2, Detaches
<1>6. ASSUME NEW t \in Threads, DestroyLast(t) PROVE Shared!Detach(ProcessOf[t])
  <2>1. ProcessOf[t] \in Users /\ Users' = Users \ {ProcessOf[t]}
    BY <1>6, DestroyLastState
  <2>2. QED
    BY <1>1, <2>1, Detaches
<1>7. QED
  BY <1>1, <1>2, <1>3, <1>4, <1>5, <1>6, UsersMove DEF Counting, SharedStep

(* The object is constructed by the first process that gets the instance,  *)
(* destroyed by the last one that deletes it, and shared by all between.   *)
THEOREM ImplementsSharedObjectHolds ==
  ASSUME OneThreadEach, CountFits, Faults = {}
  PROVE  Spec => ImplementsSharedObject
<1>1. Init => Shared!SharedInit
  BY DEF Init, NewMapping, Users, Shared!SharedInit
<1>2. CalmInv /\ [Next]_vars => [SharedStep]_(Shared!svars)
  BY NextSharedStep
<1>3. QED
  BY <1>1, <1>2, CalmInvHolds, PTL DEF Spec, ImplementsSharedObject, Shared!SharedSpec, SharedStep

=============================================================================
