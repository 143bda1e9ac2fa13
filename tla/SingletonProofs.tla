---------------------------- MODULE SingletonProofs ----------------------------
(***************************************************************************)
(* What SingletonGlobal does to its types and to the mutex, for any number *)
(* of processes and threads, whatever crashes, throws or fails.            *)
(***************************************************************************)
EXTENDS SingletonKept, FiniteSetTheorems, TLAPS

-----------------------------------------------------------------------------
(***************************************************************************)
(* Type correctness.                                                       *)
(***************************************************************************)

MutexStates  == [owner : Threads \cup {NoThread}, depth : Nat, abandoned : BOOLEAN]
HandleCounts == [Mutexes -> [Processes -> 0 .. MaxHandles]]

(* The threads of a process that will open the mutex.                      *)
Openers    == {"create", "open"}
Opening(p) == {t \in ThreadsOf(p) : at[t] \in Openers}

HandlesFit ==
  \A p \in Processes, m \in Mutexes : handles[m][p] + Cardinality(Opening(p)) <= MaxHandles

HandleKept == \A p \in Processes : mMutex[p] # 0 => handles[mMutex[p]][p] >= 1

OwnedOnce == \A m \in Mutexes : mutex[m].owner # NoThread => mutex[m].depth >= 1

Threws == SUBSET {"hook", "mutex"}

(* TypeOK with its flags written out.                                      *)
TypeParts ==
  /\ mutex \in [Mutexes -> MutexStates]
  /\ handles \in HandleCounts
  /\ named \in {0} \cup Mutexes
  /\ memory \in [count : -MaxCount - 1 .. MaxCount, object : {"raw", "built", "destroyed"}]
  /\ mMutex \in [Processes -> {0} \cup Mutexes]
  /\ mLocked \in [Processes -> BOOLEAN]
  /\ mHandle \in [Processes -> BOOLEAN]
  /\ mMemory \in [Processes -> BOOLEAN]
  /\ mPtr \in [Processes -> BOOLEAN]
  /\ mCallbackUninitialize \in [Processes -> BOOLEAN]
  /\ at \in [Threads -> Labels]
  /\ op \in [Threads -> {"none", "get", "delete", "exit"}]
  /\ waitsOn \in [Threads -> {0} \cup Mutexes]
  /\ starts \in [Processes -> 1 .. MaxStarts]
  /\ threw \in Threws

LEMMA TypeOKParts == TypeOK <=> TypeParts
  BY DEF TypeOK, TypeParts, MutexStates, HandleCounts, Threws

TypeInv == TypeParts /\ HandlesFit /\ HandleKept /\ OwnedOnce

LEMMA MutexesNumbered == Mutexes \subseteq Nat \ {0}
  BY SingletonAssumption, FS_CardinalityType DEF Mutexes, SingletonAssumption

LEMMA FreeState == Free \in MutexStates /\ Free.owner = NoThread
  BY DEF Free, MutexStates

LEMMA ReleasedState ==
  ASSUME NEW state \in MutexStates, state.depth >= 1
  PROVE  /\ Released(state) \in MutexStates
         /\ Released(state).depth = state.depth - 1
         /\ Released(state).owner = IF state.depth = 1 THEN NoThread ELSE state.owner
         /\ Released(state).abandoned = IF state.depth = 1 THEN FALSE ELSE state.abandoned
<1>1. CASE state.depth = 1
  BY <1>1, FreeState DEF Released, Free
<1>2. CASE state.depth # 1
  <2>1. state.depth - 1 \in Nat
    BY <1>2 DEF MutexStates
  <2>2. QED
    BY <1>2, <2>1 DEF Released, MutexStates
<1>3. QED
  BY <1>1, <1>2

LEMMA AbandonState ==
  ASSUME NEW ended, mutex \in [Mutexes -> MutexStates]
  PROVE  /\ Abandon(ended) \in [Mutexes -> MutexStates]
         /\ \A m \in Mutexes :
              IF mutex[m].owner \in ended
                THEN /\ Abandon(ended)[m].owner = NoThread
                     /\ Abandon(ended)[m].depth = 0
                     /\ Abandon(ended)[m].abandoned
                ELSE Abandon(ended)[m] = mutex[m]
<1> DEFINE left == [Free EXCEPT !.abandoned = TRUE]
<1>1. /\ left \in MutexStates
      /\ left.owner = NoThread /\ left.depth = 0 /\ left.abandoned
  BY FreeState DEF MutexStates, Free
<1>2. Abandon(ended) =
        [m \in Mutexes |-> IF mutex[m].owner \in ended THEN left ELSE mutex[m]]
  BY DEF Abandon
<1> HIDE DEF left
<1>3. QED
  BY <1>1, <1>2

(* What is left when handles were closed and waits ended.                  *)
LEMMA SettleState ==
  ASSUME NEW mutexes \in [Mutexes -> MutexStates], NEW newHandles \in HandleCounts,
         NEW newWaitsOn \in [Threads -> {0} \cup Mutexes], named \in {0} \cup Mutexes,
         Settle(mutexes, newHandles, newWaitsOn)
  PROVE  /\ handles' = newHandles
         /\ waitsOn' = newWaitsOn
         /\ mutex' \in [Mutexes -> MutexStates]
         /\ \A m \in Mutexes : mutex'[m] = mutexes[m] \/ mutex'[m] = Free
         /\ named' \in {0} \cup Mutexes
         /\ named' # 0 => named' = named /\ mutex'[named] = mutexes[named]
         /\ \A p \in Processes :
              named # 0 /\ newHandles[named][p] > 0 =>
                named' = named /\ mutex'[named] = mutexes[named]
<1>1. /\ handles' = newHandles
      /\ waitsOn' = newWaitsOn
  BY DEF Settle
<1>2. \A m \in Mutexes : mutex'[m] = mutexes[m] \/ mutex'[m] = Free
  BY DEF Settle
<1>3. mutex' \in [Mutexes -> MutexStates]
  BY FreeState DEF Settle
<1>4. /\ named' \in {0} \cup Mutexes
      /\ named' # 0 => named' = named /\ mutex'[named] = mutexes[named]
  BY DEF Settle
<1>5. ASSUME NEW p \in Processes, named # 0, newHandles[named][p] > 0
      PROVE  named' = named /\ mutex'[named] = mutexes[named]
  BY <1>5 DEF Settle
<1>6. QED
  BY <1>1, <1>2, <1>3, <1>4, <1>5

LEMMA OpeningCounted ==
  ASSUME NEW p
  PROVE  IsFiniteSet(Opening(p)) /\ Cardinality(Opening(p)) \in Nat
<1>1. Opening(p) \subseteq Threads
  BY DEF Opening, ThreadsOf
<1>2. QED
  BY <1>1, SingletonAssumption, FS_Subset, FS_CardinalityType DEF SingletonAssumption

LEMMA OpenerCounted ==
  ASSUME NEW t \in Threads, at[t] \in Openers
  PROVE  Cardinality(Opening(ProcessOf[t])) >= 1
<1> DEFINE p == ProcessOf[t]
<1>1. t \in Opening(p)
  BY DEF Opening, ThreadsOf
<1>2. Cardinality(Opening(p)) # 0
  BY <1>1, OpeningCounted, FS_EmptySet
<1>3. QED
  BY <1>2, OpeningCounted

LEMMA WrapType ==
  ASSUME NEW n \in -MaxCount - 2 .. MaxCount + 1
  PROVE  Wrap(n) \in -MaxCount - 1 .. MaxCount
  BY SingletonAssumption DEF SingletonAssumption, Wrap

(* No process gets nearer to its bound of handles in a step that opens no  *)
(* mutex and starts no call that will.                                     *)
LEMMA OpeningShrinks ==
  ASSUME TypeInv, handles' \in HandleCounts,
         \A p \in Processes, m \in Mutexes : handles'[m][p] <= handles[m][p],
         \A t \in Threads : at'[t] \in Openers => at[t] \in Openers
  PROVE  HandlesFit'
<1>1. ASSUME NEW p \in Processes
      PROVE  /\ Cardinality(Opening(p)') \in Nat
             /\ Cardinality(Opening(p)') <= Cardinality(Opening(p))
  <2>1. Opening(p)' \subseteq Opening(p)
    BY DEF Opening, ThreadsOf
  <2>2. QED
    BY <2>1, OpeningCounted, FS_Subset, FS_CardinalityType
<1>2. QED
  BY <1>1, OpeningCounted, SingletonAssumption
     DEF TypeInv, TypeParts, HandleCounts, HandlesFit, SingletonAssumption

LEMMA QuietStep ==
  ASSUME TypeInv, TypeParts', UNCHANGED <<mutex, handles, mMutex>>,
         \A t \in Threads : at'[t] \in Openers => at[t] \in Openers
  PROVE  TypeInv'
<1>1. \A p \in Processes, m \in Mutexes : handles'[m][p] <= handles[m][p]
  BY SingletonAssumption DEF TypeInv, TypeParts, HandleCounts, SingletonAssumption
<1>2. HandlesFit'
  BY <1>1, OpeningShrinks DEF TypeInv, TypeParts
<1>3. QED
  BY <1>2 DEF TypeInv, HandleKept, OwnedOnce

(* A step that closes handles and ends waits.                              *)
LEMMA SettleStep ==
  ASSUME TypeInv,
         NEW mutexes \in [Mutexes -> MutexStates], NEW newHandles \in HandleCounts,
         NEW newWaitsOn \in [Threads -> {0} \cup Mutexes],
         Settle(mutexes, newHandles, newWaitsOn),
         \A m \in Mutexes : mutexes[m].owner # NoThread => mutexes[m].depth >= 1,
         \A p \in Processes, m \in Mutexes : newHandles[m][p] <= handles[m][p],
         \A t \in Threads : at'[t] \in Openers => at[t] \in Openers
  PROVE  /\ handles' = newHandles
         /\ waitsOn' = newWaitsOn
         /\ mutex' \in [Mutexes -> MutexStates]
         /\ named' \in {0} \cup Mutexes
         /\ HandlesFit'
         /\ OwnedOnce'
<1>1. /\ handles' = newHandles
      /\ waitsOn' = newWaitsOn
      /\ mutex' \in [Mutexes -> MutexStates]
      /\ named' \in {0} \cup Mutexes
      /\ \A m \in Mutexes : mutex'[m] = mutexes[m] \/ mutex'[m] = Free
  BY SettleState DEF TypeInv, TypeParts
<1>2. HandlesFit'
  BY <1>1, OpeningShrinks
<1>3. OwnedOnce'
  BY <1>1, FreeState DEF OwnedOnce
<1>4. QED
  BY <1>1, <1>2, <1>3

LEMMA TypeInvStep == TypeInv /\ [Next]_vars => TypeInv'
<1> SUFFICES ASSUME TypeInv, [Next]_vars PROVE TypeInv'
  OBVIOUS
<1> USE SingletonAssumption
<1> USE DEF TypeInv, TypeParts, Labels, MutexStates, HandleCounts, SingletonAssumption
<1>1. ASSUME NEW t \in Threads, GetInstance(t) PROVE TypeInv'
  <2> DEFINE p == ProcessOf[t]
  <2>1. TypeParts'
    BY <1>1 DEF GetInstance, Call, Goto, kernel, statics
  <2>2. /\ at[t] = "idle" /\ at' = [at EXCEPT ![t] = "create"]
        /\ UNCHANGED <<mutex, handles, mMutex>>
        /\ \A m \in Mutexes : handles[m][p] + Cardinality(Opening(p)) < MaxHandles
    BY <1>1 DEF GetInstance, Call, Goto, kernel, statics, Opening, Openers
  <2>3. ASSUME NEW q \in Processes, NEW m \in Mutexes
        PROVE  handles[m][q] + Cardinality(Opening(q)') <= MaxHandles
    <3>1. CASE q = p
      <4>1. Opening(q)' = Opening(q) \cup {t} /\ t \notin Opening(q)
        BY <2>2, <3>1 DEF Opening, ThreadsOf, Openers
      <4>2. Cardinality(Opening(q)') = Cardinality(Opening(q)) + 1
        BY <4>1, OpeningCounted, FS_AddElement
      <4>3. QED
        BY <2>2, <3>1, <4>2, OpeningCounted
    <3>2. CASE q # p
      <4>1. Opening(q)' = Opening(q)
        BY <2>2, <3>2 DEF Opening, ThreadsOf
      <4>2. QED
        BY <4>1 DEF HandlesFit
    <3>3. QED
      BY <3>1, <3>2
  <2>4. QED
    BY <2>1, <2>2, <2>3 DEF HandlesFit, HandleKept, OwnedOnce
<1>2. ASSUME NEW t \in Threads, DeleteInstance(t) PROVE TypeInv'
  <2>1. TypeParts'
    BY <1>2 DEF DeleteInstance, Call, Goto, kernel, statics
  <2>2. QED
    BY <1>2, <2>1, QuietStep DEF DeleteInstance, Call, Goto, kernel, statics, Openers
<1>3. ASSUME NEW t \in Threads, Exit(t) PROVE TypeInv'
  <2>1. TypeParts'
    BY <1>3 DEF Exit, Call, Goto, kernel, statics
  <2>2. QED
    BY <1>3, <2>1, QuietStep DEF Exit, Call, Goto, kernel, statics, Openers
<1>4. ASSUME NEW t \in Threads, CreateMutex(t) PROVE TypeInv'
  <2>1. TypeParts'
    BY <1>4 DEF CreateMutex, Goto, kernel, statics
  <2>2. QED
    BY <1>4, <2>1, QuietStep DEF CreateMutex, Goto, kernel, statics, Openers
<1>5. ASSUME NEW t \in Threads, CreateMutexOpens(t) PROVE TypeInv'
  <2> DEFINE p == ProcessOf[t]
  <2>1. PICK m \in Mutexes : OpenMutex(p, m) /\ mMutex' = [mMutex EXCEPT ![p] = m]
    BY <1>5 DEF CreateMutexOpens
  <2>2. /\ at[t] = "open" /\ at' = [at EXCEPT ![t] = "lock"]
        /\ handles' = [handles EXCEPT ![m][p] = @ + 1]
        /\ UNCHANGED mutex
    BY <1>5, <2>1 DEF CreateMutexOpens, OpenMutex, Goto
  <2>3. /\ Opening(p)' = Opening(p) \ {t}
        /\ Cardinality(Opening(p)') = Cardinality(Opening(p)) - 1
        /\ \A n \in Mutexes : handles[n][p] + 1 <= MaxHandles
    <3>1. t \in Opening(p) /\ Opening(p)' = Opening(p) \ {t}
      BY <2>2 DEF Opening, ThreadsOf, Openers
    <3>2. Cardinality(Opening(p)) >= 1
      BY <2>2, OpenerCounted DEF Openers
    <3>3. Cardinality(Opening(p)') = Cardinality(Opening(p)) - 1
      BY <3>1, OpeningCounted, FS_RemoveElement
    <3>4. \A n \in Mutexes : handles[n][p] + Cardinality(Opening(p)) <= MaxHandles
      BY DEF HandlesFit
    <3>5. QED
      BY <3>1, <3>2, <3>3, <3>4, OpeningCounted
  <2>4. /\ handles' \in HandleCounts
        /\ \A n \in Mutexes, q \in Processes :
             handles'[n][q] = IF n = m /\ q = p THEN handles[n][q] + 1 ELSE handles[n][q]
    BY <2>2, <2>3
  <2>5. TypeParts'
    BY <1>5, <2>1, <2>4 DEF CreateMutexOpens, OpenMutex, Goto
  <2>6. HandlesFit'
    <3>1. ASSUME NEW q \in Processes, NEW n \in Mutexes
          PROVE  handles'[n][q] + Cardinality(Opening(q)') <= MaxHandles
      <4>1. CASE q = p
        <5>1. Cardinality(Opening(q)') = Cardinality(Opening(q)) - 1
          BY <2>3, <4>1
        <5>2. handles'[n][q] <= handles[n][q] + 1
          <6>1. handles[n][q] \in Nat
            OBVIOUS
          <6>2. handles'[n][q] \in {handles[n][q], handles[n][q] + 1}
            BY <2>4
          <6>3. QED
            BY <6>1, <6>2
        <5>3. handles[n][q] + Cardinality(Opening(q)) <= MaxHandles
          BY DEF HandlesFit
        <5>4. QED
          BY <2>4, <5>1, <5>2, <5>3, OpeningCounted
      <4>2. CASE q # p
        <5>1. Opening(q)' = Opening(q)
          BY <2>2, <4>2 DEF Opening, ThreadsOf
        <5>2. QED
          BY <2>4, <4>2, <5>1 DEF HandlesFit
      <4>3. QED
        BY <4>1, <4>2
    <3>2. QED
      BY <3>1 DEF HandlesFit
  <2>7. HandleKept'
    <3>1. ASSUME NEW q \in Processes, mMutex'[q] # 0 PROVE handles'[mMutex'[q]][q] >= 1
      <4>1. CASE q = p
        <5>1. mMutex'[q] = m
          BY <2>1, <4>1
        <5>2. handles'[m][q] = handles[m][q] + 1
          BY <2>4, <4>1
        <5>3. QED
          BY <5>1, <5>2
      <4>2. CASE q # p
        <5>1. mMutex'[q] = mMutex[q] /\ mMutex[q] \in Mutexes
          BY <2>1, <3>1, <4>2
        <5>2. handles'[mMutex[q]][q] = handles[mMutex[q]][q]
          BY <2>4, <4>2, <5>1
        <5>3. QED
          BY <3>1, <5>1, <5>2 DEF HandleKept
      <4>3. QED
        BY <4>1, <4>2
    <3>2. QED
      BY <3>1 DEF HandleKept
  <2>8. QED
    BY <2>2, <2>5, <2>6, <2>7 DEF OwnedOnce
<1>6. ASSUME NEW t \in Threads, LockThrows(t) PROVE TypeInv'
  <2>1. TypeParts'
    BY <1>6 DEF LockThrows, Leave, kernel, statics
  <2>2. QED
    BY <1>6, <2>1, QuietStep DEF LockThrows, Leave, kernel, statics, Openers
<1>7. ASSUME NEW t \in Threads, LockChecked(t) PROVE TypeInv'
  <2>1. TypeParts'
    BY <1>7 DEF LockChecked, Goto, kernel, statics
  <2>2. QED
    BY <1>7, <2>1, QuietStep DEF LockChecked, Goto, kernel, statics, Openers
<1>8. ASSUME NEW t \in Threads, LockWaits(t) PROVE TypeInv'
  <2>1. TypeParts'
    BY <1>8 DEF LockWaits, Goto, kernel, statics
  <2>2. QED
    BY <1>8, <2>1, QuietStep DEF LockWaits, Goto, kernel, statics, Openers
<1>9. ASSUME NEW t \in Threads, MutexGranted(t) PROVE TypeInv'
  <2> DEFINE m       == waitsOn[t]
             mutexes == [mutex EXCEPT ![m] = [owner |-> t, depth |-> @.depth + 1, abandoned |-> FALSE]]
  <2>1. Settle(mutexes, handles, [waitsOn EXCEPT ![t] = 0])
    BY <1>9 DEF MutexGranted
  <2>2. /\ mutexes \in [Mutexes -> MutexStates]
        /\ \A n \in Mutexes : mutexes[n].owner # NoThread => mutexes[n].depth >= 1
    <3> DEFINE held == [owner |-> t, depth |-> mutex[m].depth + 1, abandoned |-> FALSE]
    <3>1. CASE m \in Mutexes
      <4>1. held \in MutexStates /\ held.depth >= 1
        BY <3>1
      <4>2. mutexes = [mutex EXCEPT ![m] = held]
        OBVIOUS
      <4> HIDE DEF held, mutexes, MutexStates
      <4>3. QED
        BY <4>1, <4>2 DEF OwnedOnce
    <3>2. CASE m \notin Mutexes
      <4>1. mutexes = mutex
        BY <3>2
      <4>2. QED
        BY <4>1 DEF OwnedOnce
    <3>3. QED
      BY <3>1, <3>2
  <2>3. [waitsOn EXCEPT ![t] = 0] \in [Threads -> {0} \cup Mutexes]
    OBVIOUS
  <2>4. \A u \in Threads : at'[u] \in Openers => at[u] \in Openers
    BY <1>9 DEF MutexGranted, Openers
  <2>5. /\ handles \in HandleCounts
        /\ \A p \in Processes, k \in Mutexes : handles[k][p] <= handles[k][p]
    OBVIOUS
  <2> DEFINE waits == [waitsOn EXCEPT ![t] = 0]
  <2> HIDE DEF mutexes, waits, TypeParts, TypeInv, MutexStates, HandleCounts
  <2>6. /\ handles' = handles
        /\ waitsOn' \in [Threads -> {0} \cup Mutexes]
        /\ mutex' \in [Mutexes -> MutexStates]
        /\ named' \in {0} \cup Mutexes
        /\ HandlesFit'
        /\ OwnedOnce'
    BY <2>1, <2>2, <2>3, <2>4, <2>5, SettleStep DEF waits
  <2>7. at' \in [Threads -> Labels]
    BY <1>9 DEF MutexGranted, TypeInv, TypeParts
  <2>8. TypeParts'
    BY <1>9, <2>6, <2>7 DEF MutexGranted, statics, TypeInv, TypeParts
  <2>9. QED
    BY <1>9, <2>6, <2>8 DEF MutexGranted, HandleKept, statics, TypeInv
<1>10. ASSUME NEW t \in Threads, LockStores(t) PROVE TypeInv'
  <2>1. TypeParts'
    BY <1>10 DEF LockStores, kernel
  <2>2. QED
    BY <1>10, <2>1, QuietStep DEF LockStores, kernel, Openers
<1>11. ASSUME NEW t \in Threads, LockFails(t) PROVE TypeInv'
  <2>1. TypeParts'
    BY <1>11 DEF LockFails, Leave, kernel, statics
  <2>2. QED
    BY <1>11, <2>1, QuietStep DEF LockFails, Leave, kernel, statics, Openers
<1>12. ASSUME NEW t \in Threads, LockReturns(t) PROVE TypeInv'
  <2>1. TypeParts'
    BY <1>12 DEF LockReturns, Goto, kernel, statics
  <2>2. QED
    BY <1>12, <2>1, QuietStep DEF LockReturns, Goto, kernel, statics, Openers
<1>13. ASSUME NEW t \in Threads, NothingToDo(t) PROVE TypeInv'
  <2>1. TypeParts'
    BY <1>13 DEF NothingToDo, Goto, kernel, statics
  <2>2. QED
    BY <1>13, <2>1, QuietStep DEF NothingToDo, Goto, kernel, statics, Openers
<1>14. ASSUME NEW t \in Threads, CreateMemory(t) PROVE TypeInv'
  <2>1. TypeParts'
    <3>1. PICK h \in BOOLEAN : mHandle' = [mHandle EXCEPT ![ProcessOf[t]] = h] \/ mHandle' = mHandle
      BY <1>14 DEF CreateMemory
    <3>2. mHandle' \in [Processes -> BOOLEAN]
      BY <3>1
    <3>3. mMemory' \in [Processes -> BOOLEAN] /\ at' \in [Threads -> Labels]
      BY <1>14 DEF CreateMemory, Goto
    <3>4. QED
      BY <1>14, <3>2, <3>3 DEF CreateMemory, kernel
  <2>2. QED
    BY <1>14, <2>1, QuietStep DEF CreateMemory, Goto, kernel, statics, Openers
<1>15. ASSUME NEW t \in Threads, CountUp(t) PROVE TypeInv'
  <2>1. TypeParts'
    <3>1. CountedUp(memory.count) \in -MaxCount - 1 .. MaxCount
      BY WrapType DEF CountedUp
    <3>2. memory' \in [count : -MaxCount - 1 .. MaxCount, object : {"raw", "built", "destroyed"}]
      BY <1>15, <3>1 DEF CountUp
    <3>3. QED
      BY <1>15, <3>2 DEF CountUp, Goto
  <2>2. QED
    BY <1>15, <2>1, QuietStep DEF CountUp, CountedUp, Goto, Openers
<1>16. ASSUME NEW t \in Threads, Build(t) PROVE TypeInv'
  <2>1. TypeParts'
    BY <1>16 DEF Build, Goto
  <2>2. QED
    BY <1>16, <2>1, QuietStep DEF Build, Goto, Openers
<1>17. ASSUME NEW t \in Threads, Initialized(t) PROVE TypeInv'
  <2>1. TypeParts'
    BY <1>17 DEF Initialized, Goto, kernel, statics
  <2>2. QED
    BY <1>17, <2>1, QuietStep DEF Initialized, Goto, kernel, statics, Openers
<1>18. ASSUME NEW t \in Threads, CountDown(t) PROVE TypeInv'
  <2>1. TypeParts'
    <3>1. Wrap(memory.count - 1) \in -MaxCount - 1 .. MaxCount
      BY WrapType
    <3>2. memory' \in [count : -MaxCount - 1 .. MaxCount, object : {"raw", "built", "destroyed"}]
      BY <1>18, <3>1 DEF CountDown
    <3>3. mPtr' \in [Processes -> BOOLEAN] /\ threw' \in Threws
      BY <1>18 DEF CountDown, Threws
    <3>4. mCallbackUninitialize' \in [Processes -> BOOLEAN]
      BY <1>18 DEF CountDown
    <3>5. QED
      BY <1>18, <3>2, <3>3, <3>4 DEF CountDown, Goto
  <2>2. QED
    BY <1>18, <2>1, QuietStep DEF CountDown, Goto, Openers
<1>19. ASSUME NEW t \in Threads, DestroyLast(t) PROVE TypeInv'
  <2> DEFINE p  == ProcessOf[t]
             hs == Closed(mMutex[p], p)
  <2>1. /\ \A u \in Threads : at'[u] \in Openers => at[u] \in Openers
        /\ at' \in [Threads -> Labels]
        /\ mMutex' = [mMutex EXCEPT ![p] = 0]
    BY <1>19 DEF DestroyLast, Goto, Openers
  <2>2. memory' \in [count : -MaxCount - 1 .. MaxCount, object : {"raw", "built", "destroyed"}]
    BY <1>19 DEF DestroyLast, DestroyedLast, NewMapping
  <2>3. /\ mutex' \in [Mutexes -> MutexStates]
        /\ handles' \in HandleCounts
        /\ named' \in {0} \cup Mutexes
        /\ waitsOn' = waitsOn
        /\ HandlesFit'
        /\ OwnedOnce'
        /\ \A q \in Processes, m \in Mutexes : q # p => handles'[m][q] = handles[m][q]
    <3>1. CASE mMutex[p] = 0
      <4>1. UNCHANGED <<mutex, handles, named, waitsOn>>
        BY <1>19, <3>1 DEF DestroyLast
      <4>2. HandlesFit'
        BY <2>1, <4>1, OpeningShrinks
      <4>3. QED
        BY <4>1, <4>2 DEF OwnedOnce
    <3>2. CASE mMutex[p] # 0
      <4>1. Settle(mutex, hs, waitsOn)
        BY <1>19, <3>2 DEF DestroyLast
      <4>2. mMutex[p] \in Mutexes /\ handles[mMutex[p]][p] >= 1
        BY <3>2 DEF HandleKept
      <4>3. /\ hs \in HandleCounts
            /\ \A q \in Processes, m \in Mutexes : hs[m][q] <= handles[m][q]
            /\ \A q \in Processes, m \in Mutexes : q # p => hs[m][q] = handles[m][q]
        BY <4>2 DEF Closed
      <4>4. /\ mutex \in [Mutexes -> MutexStates]
            /\ waitsOn \in [Threads -> {0} \cup Mutexes]
            /\ \A m \in Mutexes : mutex[m].owner # NoThread => mutex[m].depth >= 1
        BY DEF OwnedOnce
      <4> HIDE DEF hs, TypeParts, TypeInv, MutexStates, HandleCounts
      <4>5. QED
        BY <2>1, <4>1, <4>3, <4>4, SettleStep
    <3>3. QED
      BY <3>1, <3>2
  <2>4. TypeParts'
    BY <1>19, <2>1, <2>2, <2>3 DEF DestroyLast
  <2>5. HandleKept'
    BY <2>1, <2>3 DEF HandleKept
  <2>6. QED
    BY <2>3, <2>4, <2>5
<1>20. ASSUME NEW t \in Threads, UnlockReturns(t) PROVE TypeInv'
  <2>1. TypeParts'
    BY <1>20 DEF UnlockReturns, Leave, kernel, statics
  <2>2. QED
    BY <1>20, <2>1, QuietStep DEF UnlockReturns, Leave, kernel, statics, Openers
<1>21. ASSUME NEW t \in Threads, Unlock(t) PROVE TypeInv'
  <2> DEFINE m == mMutex[ProcessOf[t]]
  <2>1. m \in Mutexes
    BY <1>21 DEF Unlock
  <2>2. /\ mutex' \in [Mutexes -> MutexStates]
        /\ OwnedOnce'
    <3>1. CASE mutex[m].owner # t
      <4>1. mutex' = mutex
        BY <1>21, <2>1, <3>1 DEF Unlock
      <4>2. QED
        BY <4>1 DEF OwnedOnce
    <3>2. CASE mutex[m].owner = t
      <4>1. mutex' = [mutex EXCEPT ![m] = Released(mutex[m])]
        BY <1>21, <3>2 DEF Unlock
      <4>2. /\ Released(mutex[m]) \in MutexStates
            /\ Released(mutex[m]).owner # NoThread => Released(mutex[m]).depth >= 1
        <5>1. mutex[m] \in MutexStates /\ mutex[m].depth \in Nat
          BY <2>1
        <5>2. mutex[m].depth >= 1
          BY <2>1, <3>2 DEF OwnedOnce
        <5> HIDE DEF TypeInv, TypeParts, MutexStates
        <5>3. PICK state \in MutexStates : state = mutex[m]
          BY <5>1
        <5>4. /\ Released(state) \in MutexStates
              /\ Released(state).depth = state.depth - 1
              /\ Released(state).owner = IF state.depth = 1 THEN NoThread ELSE state.owner
          BY <5>2, <5>3, ReleasedState
        <5>5. QED
          BY <5>1, <5>2, <5>3, <5>4
      <4> HIDE DEF MutexStates
      <4>3. QED
        BY <2>1, <4>1, <4>2 DEF OwnedOnce
    <3>3. QED
      BY <3>1, <3>2
  <2>3. TypeParts'
    BY <1>21, <2>2 DEF Unlock, Goto, statics
  <2>4. /\ UNCHANGED <<handles, mMutex>>
        /\ \A u \in Threads : at'[u] \in Openers => at[u] \in Openers
    BY <1>21 DEF Unlock, Goto, statics, Openers
  <2>5. HandlesFit'
    BY <2>3, <2>4, OpeningShrinks
  <2>6. QED
    BY <2>2, <2>3, <2>4, <2>5 DEF HandleKept
<1>22. ASSUME NEW t \in Threads, UnlockStores(t) PROVE TypeInv'
  <2>1. TypeParts'
    BY <1>22 DEF UnlockStores, Leave, kernel
  <2>2. QED
    BY <1>22, <2>1, QuietStep DEF UnlockStores, Leave, kernel, Openers
<1>23. ASSUME NEW t \in Threads, ThreadEnds(t) PROVE TypeInv'
  <2> DEFINE mutexes == Abandon({t})
  <2>1. Settle(mutexes, handles, waitsOn)
    BY <1>23 DEF ThreadEnds
  <2>2. \A u \in Threads : at'[u] \in Openers => at[u] \in Openers
    BY <1>23 DEF ThreadEnds, Goto, Openers
  <2>3. /\ handles \in HandleCounts
        /\ \A p \in Processes, k \in Mutexes : handles[k][p] <= handles[k][p]
        /\ waitsOn \in [Threads -> {0} \cup Mutexes]
    OBVIOUS
  <2>4. at' \in [Threads -> Labels]
    BY <1>23 DEF ThreadEnds, Goto
  <2> HIDE DEF TypeParts, TypeInv, MutexStates, HandleCounts
  <2>5. /\ mutexes \in [Mutexes -> MutexStates]
        /\ \A m \in Mutexes : mutexes[m].owner # NoThread => mutexes[m].depth >= 1
    BY AbandonState DEF TypeInv, TypeParts, OwnedOnce
  <2> HIDE DEF mutexes
  <2>6. /\ handles' = handles
        /\ waitsOn' = waitsOn
        /\ mutex' \in [Mutexes -> MutexStates]
        /\ named' \in {0} \cup Mutexes
        /\ HandlesFit'
        /\ OwnedOnce'
    BY <2>1, <2>2, <2>3, <2>5, SettleStep
  <2>7. TypeParts'
    BY <1>23, <2>4, <2>6 DEF ThreadEnds, statics, TypeInv, TypeParts
  <2>8. QED
    BY <1>23, <2>6, <2>7 DEF ThreadEnds, HandleKept, statics, TypeInv
<1>24. ASSUME NEW p \in Processes, ProcessEnds(p) PROVE TypeInv'
  <2> DEFINE ended == ThreadsOf(p)
             hs    == [m \in Mutexes |-> [handles[m] EXCEPT ![p] = 0]]
             ws    == [t \in Threads |-> IF t \in ended THEN 0 ELSE waitsOn[t]]
  <2>1. Settle(Abandon(ended), hs, ws)
    BY <1>24 DEF ProcessEnds
  <2>2. /\ \A t \in Threads : at'[t] \in Openers => at[t] \in Openers
        /\ at' \in [Threads -> Labels]
        /\ op' \in [Threads -> {"none", "get", "delete", "exit"}]
        /\ mMutex' = [mMutex EXCEPT ![p] = 0]
    BY <1>24 DEF ProcessEnds, Openers
  <2>3. memory' \in [count : -MaxCount - 1 .. MaxCount, object : {"raw", "built", "destroyed"}]
    BY <1>24 DEF ProcessEnds, NewMapping
  <2>4. /\ hs \in HandleCounts
        /\ \A q \in Processes, m \in Mutexes : hs[m][q] <= handles[m][q]
        /\ \A q \in Processes, m \in Mutexes : q # p => hs[m][q] = handles[m][q]
    OBVIOUS
  <2>5. ws \in [Threads -> {0} \cup Mutexes]
    OBVIOUS
  <2> HIDE DEF hs, ws, ended
  <2>6. /\ mutex' \in [Mutexes -> MutexStates]
        /\ handles' = hs
        /\ named' \in {0} \cup Mutexes
        /\ waitsOn' = ws
        /\ HandlesFit'
        /\ OwnedOnce'
    <3> DEFINE mutexes == Abandon(ended)
    <3> HIDE DEF TypeParts, TypeInv, MutexStates, HandleCounts
    <3>1. /\ mutexes \in [Mutexes -> MutexStates]
          /\ \A m \in Mutexes : mutexes[m].owner # NoThread => mutexes[m].depth >= 1
      BY AbandonState DEF TypeInv, TypeParts, OwnedOnce
    <3>2. Settle(mutexes, hs, ws)
      BY <2>1
    <3> HIDE DEF mutexes
    <3>3. QED
      BY <2>2, <2>4, <2>5, <3>1, <3>2, SettleStep
  <2>7. TypeParts'
    BY <1>24, <2>2, <2>3, <2>4, <2>5, <2>6 DEF ProcessEnds
  <2>8. HandleKept'
    BY <2>2, <2>4, <2>6 DEF HandleKept
  <2>9. QED
    BY <2>6, <2>7, <2>8
<1>25. ASSUME NEW p \in Processes, Start(p) PROVE TypeInv'
  <2>1. TypeParts'
    BY <1>25 DEF Start, kernel, statics
  <2>2. QED
    BY <1>25, <2>1, QuietStep DEF Start, kernel, statics, Openers
<1>26. ASSUME NEW t \in Threads, CreateMutexFails(t) PROVE TypeInv'
  <2> DEFINE p == ProcessOf[t]
  <2>1. /\ mMutex' = [mMutex EXCEPT ![p] = 0]
        /\ UNCHANGED <<mutex, handles, named, waitsOn>>
        /\ at' \in [Threads -> Labels]
        /\ op' \in [Threads -> {"none", "get", "delete", "exit"}]
        /\ \A u \in Threads : at'[u] \in Openers => at[u] \in Openers
    <3>1. mMutex' = [mMutex EXCEPT ![p] = 0] /\ UNCHANGED <<mutex, handles, named, waitsOn>>
      BY <1>26 DEF CreateMutexFails, kernel
    <3>2. Leave(t, "open") \/ (Goto(t, "open", "lock") /\ UNCHANGED op)
      BY <1>26 DEF CreateMutexFails
    <3>3. PICK to \in Labels \ Openers : at' = [at EXCEPT ![t] = to]
      BY <3>2 DEF Leave, Goto, Openers
    <3>4. op' \in [Threads -> {"none", "get", "delete", "exit"}]
      BY <3>2 DEF Leave
    <3>5. at' \in [Threads -> Labels]
      BY <3>3
    <3>6. \A u \in Threads : at'[u] \in Openers => at[u] \in Openers
      BY <3>3
    <3>7. QED
      BY <3>1, <3>4, <3>5, <3>6
  <2>2. threw' \in Threws
    BY <1>26 DEF CreateMutexFails, Threws
  <2>3. TypeParts'
    BY <1>26, <2>1, <2>2 DEF CreateMutexFails, kernel
  <2>4. HandlesFit'
    BY <2>1, OpeningShrinks
  <2>5. QED
    BY <2>1, <2>3, <2>4 DEF HandleKept, OwnedOnce
<1>27. CASE UNCHANGED vars
  <2>1. TypeParts'
    BY <1>27 DEF vars, kernel, statics
  <2>2. QED
    BY <1>27, <2>1, QuietStep DEF vars, kernel, statics
<1>28. QED
  BY <1>1, <1>2, <1>3, <1>4, <1>5, <1>6, <1>7, <1>8, <1>9, <1>10, <1>11, <1>12,
     <1>13, <1>14, <1>15, <1>16, <1>17, <1>18, <1>19, <1>20, <1>21, <1>22,
     <1>23, <1>24, <1>25, <1>26, <1>27 DEF Next, Works, Ends, Crash, Over

LEMMA TypeInvInit == Init => TypeInv
<1> SUFFICES ASSUME Init PROVE TypeInv
  OBVIOUS
<1> USE SingletonAssumption DEF SingletonAssumption
<1>1. mutex \in [Mutexes -> MutexStates] /\ OwnedOnce
  BY FreeState DEF Init, OwnedOnce
<1>2. TypeParts
  <2>1. handles \in HandleCounts
    BY DEF Init, HandleCounts
  <2>2. memory \in [count : -MaxCount - 1 .. MaxCount, object : {"raw", "built", "destroyed"}]
    BY DEF Init, NewMapping
  <2>3. starts \in [Processes -> 1 .. MaxStarts]
    BY DEF Init
  <2>4. at \in [Threads -> Labels] /\ op \in [Threads -> {"none", "get", "delete", "exit"}]
    BY DEF Init, Labels
  <2>5. threw \in Threws
    BY DEF Init, Threws
  <2>6. QED
    BY <1>1, <2>1, <2>2, <2>3, <2>4, <2>5 DEF Init, TypeParts
<1>3. ASSUME NEW p \in Processes PROVE Cardinality(Opening(p)) = 0
  <2>1. Opening(p) = {}
    BY DEF Init, Opening, ThreadsOf, Openers
  <2>2. QED
    BY <2>1, FS_EmptySet
<1>4. HandlesFit
  BY <1>3 DEF Init, HandlesFit
<1>5. QED
  BY <1>1, <1>2, <1>4 DEF Init, TypeInv, HandleKept

(* SingletonGlobal keeps to its types, whatever goes wrong: the count      *)
(* wraps around and stays a RefCountType, the threads of a process that    *)
(* race in SharedMutex::Create leak handles and never close one twice, and *)
(* what a process releases it has acquired.                                *)
THEOREM TypeOKHolds == Spec => []TypeOK
<1>1. TypeInv => TypeOK
  BY TypeOKParts DEF TypeInv
<1>2. QED
  BY <1>1, TypeInvInit, TypeInvStep, PTL DEF Spec

-----------------------------------------------------------------------------
(***************************************************************************)
(* Mutual exclusion.                                                       *)
(***************************************************************************)

(* A thread deletes the instance, which resets mMutex, only when there is  *)
(* no other in its process.                                                *)
Deleting      == {"delete", "exit"}
Alone(t)      == \A u \in ThreadsOf(ProcessOf[t]) : u = t
DeletersAlone == \A t \in Threads : op[t] \in Deleting => Alone(t)

InCall  == Labels \ {"ended", "idle", "exiting"}
Holding == {"granted", "abandoned", "entered", "section", "count", "build", "hook", "last"}
Locking == {"enter", "wait"} \cup Holding

CallHasOp   == \A t \in Threads : at[t] \in InCall => op[t] # "none"
LastDeletes == \A t \in Threads : at[t] = "last" => op[t] \in Deleting
OneName     == \A p \in Processes : mMutex[p] # 0 => mMutex[p] = named
HasMutex    == \A t \in Threads : at[t] \in Locking => mMutex[ProcessOf[t]] # 0
WaitsForIt  == \A t \in Threads : at[t] = "wait" => waitsOn[t] = mMutex[ProcessOf[t]]
HoldsIt     == \A t \in Threads : at[t] \in Holding => mutex[named].owner = t

MutexInv == CallHasOp /\ LastDeletes /\ OneName /\ HasMutex /\ WaitsForIt /\ HoldsIt

LEMMA MutexInvExcludes == TypeInv /\ MutexInv => MutualExclusion
<1> SUFFICES ASSUME TypeInv, MutexInv PROVE MutualExclusion
  OBVIOUS
<1>1. ASSUME NEW t \in Threads, Inside(t)
      PROVE  mMutex[ProcessOf[t]] = named /\ named # 0 /\ mutex[named].owner = t
  <2>1. at[t] \in Holding /\ ProcessOf[t] \in Processes
    BY <1>1, SingletonAssumption DEF Inside, Holding, SingletonAssumption
  <2>2. QED
    BY <2>1 DEF MutexInv, HasMutex, HoldsIt, OneName, Locking
<1>2. QED
  BY <1>1 DEF MutualExclusion

(* A process with a mutex has a handle to the one with the name.           *)
LEMMA NameKept ==
  ASSUME TypeInv, MutexInv, NEW p \in Processes, mMutex[p] # 0
  PROVE  named = mMutex[p] /\ named \in Mutexes /\ named # 0 /\ handles[named][p] > 0
<1>1. named = mMutex[p] /\ named \in Mutexes /\ handles[named][p] >= 1
  BY MutexesNumbered DEF TypeInv, TypeParts, HandleKept, MutexInv, OneName
<1>2. QED
  BY <1>1 DEF TypeInv, TypeParts, HandleCounts

LEMMA MutexInvStep ==
  TypeInv /\ DeletersAlone /\ MutexInv /\ [Next]_vars /\ Intact' => MutexInv'
<1> SUFFICES ASSUME TypeInv, DeletersAlone, MutexInv, [Next]_vars, Intact' PROVE MutexInv'
  OBVIOUS
<1> USE SingletonAssumption
<1> USE DEF SingletonAssumption, TypeInv, TypeParts, Labels, InCall, Holding, Locking, Deleting
<1> USE DEF MutexInv, CallHasOp, LastDeletes, OneName, HasMutex, WaitsForIt, HoldsIt
<1>1. ASSUME NEW t \in Threads, GetInstance(t) PROVE MutexInv'
  BY <1>1 DEF GetInstance, Call, Goto, kernel, statics
<1>2. ASSUME NEW t \in Threads, DeleteInstance(t) PROVE MutexInv'
  BY <1>2 DEF DeleteInstance, Call, Goto, kernel, statics
<1>3. ASSUME NEW t \in Threads, Exit(t) PROVE MutexInv'
  BY <1>3 DEF Exit, Call, Goto, kernel, statics
<1>4. ASSUME NEW t \in Threads, CreateMutex(t) PROVE MutexInv'
  BY <1>4 DEF CreateMutex, Goto, kernel, statics
<1>5. ASSUME NEW t \in Threads, CreateMutexOpens(t) PROVE MutexInv'
  <2> DEFINE p == ProcessOf[t]
  <2>1. PICK m \in Mutexes : OpenMutex(p, m) /\ mMutex' = [mMutex EXCEPT ![p] = m]
    BY <1>5 DEF CreateMutexOpens
  <2>2. m # 0 /\ named' = m /\ mutex' = mutex /\ waitsOn' = waitsOn /\ (named # 0 => m = named)
    BY <2>1, MutexesNumbered DEF OpenMutex
  <2>3. at' = [at EXCEPT ![t] = "lock"] /\ op' = op
    BY <1>5 DEF CreateMutexOpens, Goto
  <2>4. \A q \in Processes : mMutex[q] # 0 => mMutex[q] = named' /\ named' = named
    <3>1. \A q \in Processes : mMutex[q] # 0 => mMutex[q] = named /\ named # 0
      BY NameKept
    <3>2. QED
      BY <2>2, <3>1
  <2>5. \A q \in Processes : mMutex'[q] = IF q = p THEN m ELSE mMutex[q]
    BY <2>1
  <2>6. OneName'
    <3>1. ASSUME NEW q \in Processes, mMutex'[q] # 0 PROVE mMutex'[q] = named'
      <4>1. CASE q = p
        BY <2>2, <2>5, <4>1
      <4>2. CASE q # p
        BY <2>4, <2>5, <3>1, <4>2
      <4>3. QED
        BY <4>1, <4>2
    <3>2. QED
      BY <3>1
  <2>7. HasMutex' /\ CallHasOp' /\ LastDeletes'
    <3>1. ASSUME NEW u \in Threads, at'[u] \in Locking PROVE mMutex'[ProcessOf[u]] # 0
      <4>1. at[u] \in Locking /\ mMutex[ProcessOf[u]] # 0
        BY <2>3, <3>1
      <4>2. QED
        BY <2>2, <2>5, <4>1
    <3>2. CallHasOp' /\ LastDeletes'
      BY <1>5, <2>3 DEF CreateMutexOpens, Goto
    <3>3. QED
      BY <3>1, <3>2
  <2>8. WaitsForIt'
    <3>1. ASSUME NEW u \in Threads, at'[u] = "wait"
          PROVE  waitsOn[u] = mMutex'[ProcessOf[u]]
      <4>1. at[u] = "wait" /\ waitsOn[u] = mMutex[ProcessOf[u]] /\ mMutex[ProcessOf[u]] # 0
        BY <2>3, <3>1
      <4>2. QED
        BY <2>2, <2>4, <2>5, <4>1
    <3>2. QED
      BY <2>2, <3>1
  <2>9. HoldsIt'
    <3>1. ASSUME NEW u \in Threads, at'[u] \in Holding
          PROVE  mutex[named'].owner = u
      <4>1. at[u] \in Holding /\ mutex[named].owner = u /\ mMutex[ProcessOf[u]] # 0
        BY <2>3, <3>1
      <4>2. QED
        BY <2>4, <4>1
    <3>2. QED
      BY <2>2, <3>1
  <2>10. QED
    BY <2>6, <2>7, <2>8, <2>9
<1>6. ASSUME NEW t \in Threads, LockThrows(t) PROVE MutexInv'
  BY <1>6 DEF LockThrows, Leave, kernel, statics
<1>7. ASSUME NEW t \in Threads, LockChecked(t) PROVE MutexInv'
  BY <1>7 DEF LockChecked, Goto, kernel, statics
<1>8. ASSUME NEW t \in Threads, LockWaits(t) PROVE MutexInv'
  BY <1>8 DEF LockWaits, Goto, kernel, statics
<1>9. ASSUME NEW t \in Threads, MutexGranted(t) PROVE MutexInv'
  <2> DEFINE p == ProcessOf[t]
             m == waitsOn[t]
             mutexes == [mutex EXCEPT ![m] = [owner |-> t, depth |-> @.depth + 1, abandoned |-> FALSE]]
             waits == [waitsOn EXCEPT ![t] = 0]
  <2>1. m = named /\ named \in Mutexes /\ named # 0 /\ handles[named][p] > 0
    BY <1>9, NameKept DEF MutexGranted
  <2>2. mutexes \in [Mutexes -> MutexStates] /\ mutexes[named].owner = t
    BY <2>1 DEF MutexStates
  <2>3. Settle(mutexes, handles, waits)
    BY <1>9 DEF MutexGranted
  <2>4. waits \in [Threads -> {0} \cup Mutexes]
    OBVIOUS
  <2> HIDE DEF mutexes, waits
  <2>5. waitsOn' = waits /\ named' = named /\ mutex'[named] = mutexes[named]
    BY <2>1, <2>2, <2>3, <2>4, SettleState
  <2>6. \A u \in Threads : at[u] \in Holding => u = t
    BY <1>9, <2>1 DEF MutexGranted
  <2>7. UNCHANGED <<mMutex, op>>
    BY <1>9 DEF MutexGranted, statics
  <2>8. /\ at[t] = "wait" /\ at'[t] \in {"abandoned", "granted"}
        /\ \A u \in Threads : u # t => at'[u] = at[u]
    BY <1>9 DEF MutexGranted
  <2>9. QED
    BY <2>2, <2>5, <2>6, <2>7, <2>8 DEF waits
<1>10. ASSUME NEW t \in Threads, LockStores(t) PROVE MutexInv'
  BY <1>10 DEF LockStores, kernel
<1>11. ASSUME NEW t \in Threads, LockFails(t) PROVE MutexInv'
  BY <1>11 DEF LockFails, Leave, kernel, statics
<1>12. ASSUME NEW t \in Threads, LockReturns(t) PROVE MutexInv'
  BY <1>12 DEF LockReturns, Goto, kernel, statics
<1>13. ASSUME NEW t \in Threads, NothingToDo(t) PROVE MutexInv'
  BY <1>13 DEF NothingToDo, Goto, kernel, statics
<1>14. ASSUME NEW t \in Threads, CreateMemory(t) PROVE MutexInv'
  BY <1>14 DEF CreateMemory, Goto, kernel, statics
<1>15. ASSUME NEW t \in Threads, CountUp(t) PROVE MutexInv'
  BY <1>15 DEF CountUp, Goto
<1>16. ASSUME NEW t \in Threads, Build(t) PROVE MutexInv'
  BY <1>16 DEF Build, Goto
<1>17. ASSUME NEW t \in Threads, Initialized(t) PROVE MutexInv'
  BY <1>17 DEF Initialized, Goto, kernel, statics
<1>18. ASSUME NEW t \in Threads, CountDown(t) PROVE MutexInv'
  BY <1>18 DEF CountDown, Goto
<1>19. ASSUME NEW t \in Threads, DestroyLast(t) PROVE MutexInv'
  <2> DEFINE p  == ProcessOf[t]
             hs == Closed(mMutex[p], p)
  <2>1. /\ at[t] = "last" /\ at' = [at EXCEPT ![t] = "unlock"]
        /\ op' = op
        /\ mMutex' = [mMutex EXCEPT ![p] = 0]
    BY <1>19 DEF DestroyLast, Goto
  <2>2. \A u \in Threads : ProcessOf[u] = p => u = t
    BY <2>1 DEF DeletersAlone, Alone, ThreadsOf
  <2>3. mMutex[p] # 0 /\ Settle(mutex, hs, waitsOn)
    BY <1>19, <2>1 DEF DestroyLast
  <2>4. /\ mMutex[p] \in Mutexes /\ handles[mMutex[p]][p] >= 1
        /\ mutex \in [Mutexes -> MutexStates]
        /\ waitsOn \in [Threads -> {0} \cup Mutexes]
    BY <2>3 DEF HandleKept
  <2>5. /\ hs \in HandleCounts
        /\ \A q \in Processes, m \in Mutexes : q # p => hs[m][q] = handles[m][q]
    BY <2>4 DEF Closed, HandleCounts
  <2> HIDE DEF hs
  <2>6. /\ waitsOn' = waitsOn
        /\ \A q \in Processes : q # p /\ mMutex[q] # 0 =>
             /\ mMutex[q] = named
             /\ named' = named
             /\ mutex'[named] = mutex[named]
    <3>1. /\ waitsOn' = waitsOn
          /\ \A q \in Processes : named # 0 /\ hs[named][q] > 0 =>
               named' = named /\ mutex'[named] = mutex[named]
      BY <2>3, <2>4, <2>5, SettleState
    <3>2. \A q \in Processes : mMutex[q] # 0 =>
            mMutex[q] = named /\ named \in Mutexes /\ named # 0 /\ handles[named][q] > 0
      BY NameKept
    <3>3. QED
      BY <2>5, <3>1, <3>2
  <2>7. QED
    BY <2>1, <2>2, <2>6
<1>20. ASSUME NEW t \in Threads, UnlockReturns(t) PROVE MutexInv'
  BY <1>20 DEF UnlockReturns, Leave, kernel, statics
<1>21. ASSUME NEW t \in Threads, Unlock(t) PROVE MutexInv'
  <2> DEFINE m == mMutex[ProcessOf[t]]
  <2>1. /\ at[t] = "unlock" /\ at'[t] \in {"released", "notReleased"}
        /\ \A u \in Threads : u # t => at'[u] = at[u]
        /\ UNCHANGED <<op, mMutex, named, waitsOn>>
        /\ m \in Mutexes
    BY <1>21 DEF Unlock, Goto, statics
  <2>2. \A k \in Mutexes : mutex'[k] # mutex[k] => mutex[k].owner = t
    BY <1>21, <2>1 DEF Unlock
  <2>3. ASSUME NEW u \in Threads, at'[u] \in Holding PROVE mutex'[named].owner = u
    <3>1. u # t /\ mutex[named].owner = u /\ mMutex[ProcessOf[u]] # 0
      BY <2>1, <2>3
    <3>2. named \in Mutexes
      BY <3>1, NameKept
    <3>3. QED
      BY <2>2, <3>1, <3>2
  <2>4. QED
    BY <2>1, <2>3
<1>22. ASSUME NEW t \in Threads, UnlockStores(t) PROVE MutexInv'
  BY <1>22 DEF UnlockStores, Leave, kernel
<1>23. ASSUME NEW t \in Threads, ThreadEnds(t) PROVE MutexInv'
  <2> DEFINE mutexes == Abandon({t})
  <2>1. /\ at[t] = "idle" /\ at' = [at EXCEPT ![t] = "ended"]
        /\ UNCHANGED <<op, mMutex>>
    BY <1>23 DEF ThreadEnds, Goto, statics
  <2>2. Settle(mutexes, handles, waitsOn)
    BY <1>23 DEF ThreadEnds
  <2>3. /\ mutexes \in [Mutexes -> MutexStates]
        /\ \A m \in Mutexes : mutex[m].owner # t => mutexes[m] = mutex[m]
    BY AbandonState
  <2> HIDE DEF mutexes
  <2>4. /\ waitsOn' = waitsOn
        /\ \A q \in Processes : mMutex[q] # 0 =>
             named \in Mutexes /\ named' = named /\ mutex'[named] = mutexes[named]
    BY <2>2, <2>3, NameKept, SettleState
  <2>5. \A u \in Threads : at'[u] \in Holding => mutex'[named'].owner = u
    BY <2>1, <2>3, <2>4
  <2>6. QED
    BY <2>1, <2>4, <2>5
<1>24. ASSUME NEW p \in Processes, ProcessEnds(p) PROVE MutexInv'
  <2> DEFINE ended   == ThreadsOf(p)
             mutexes == Abandon(ended)
             hs      == [m \in Mutexes |-> [handles[m] EXCEPT ![p] = 0]]
             ws      == [t \in Threads |-> IF t \in ended THEN 0 ELSE waitsOn[t]]
  <2>1. /\ \A t \in Threads : IF t \in ended THEN at'[t] = "ended"
                              ELSE at'[t] = at[t] /\ op'[t] = op[t]
        /\ mMutex' = [mMutex EXCEPT ![p] = 0]
    BY <1>24 DEF ProcessEnds
  <2>2. Settle(mutexes, hs, ws)
    BY <1>24 DEF ProcessEnds
  <2>3. /\ mutexes \in [Mutexes -> MutexStates]
        /\ \A m \in Mutexes : mutex[m].owner \notin ended => mutexes[m] = mutex[m]
    BY AbandonState
  <2>4. /\ hs \in HandleCounts
        /\ \A q \in Processes, m \in Mutexes : q # p => hs[m][q] = handles[m][q]
    BY DEF HandleCounts
  <2>5. /\ ws \in [Threads -> {0} \cup Mutexes]
        /\ \A t \in Threads : t \notin ended => ws[t] = waitsOn[t]
    OBVIOUS
  <2>6. \A t \in Threads : t \in ended <=> ProcessOf[t] = p
    BY DEF ThreadsOf
  <2> HIDE DEF mutexes, hs, ws, ended
  <2>7. /\ waitsOn' = ws
        /\ \A q \in Processes : q # p /\ mMutex[q] # 0 =>
             /\ mMutex[q] = named /\ named \in Mutexes
             /\ named' = named
             /\ mutex'[named] = mutexes[named]
    <3>1. /\ waitsOn' = ws
          /\ \A q \in Processes : named # 0 /\ hs[named][q] > 0 =>
               named' = named /\ mutex'[named] = mutexes[named]
      BY <2>2, <2>3, <2>4, <2>5, SettleState
    <3>2. \A q \in Processes : mMutex[q] # 0 =>
            mMutex[q] = named /\ named \in Mutexes /\ named # 0 /\ handles[named][q] > 0
      BY NameKept
    <3>3. QED
      BY <2>4, <3>1, <3>2
  <2>8. \A t \in Threads : at'[t] \in Holding => mutex'[named'].owner = t
    <3> SUFFICES ASSUME NEW t \in Threads, at'[t] \in Holding
                 PROVE  mutex'[named'].owner = t
      OBVIOUS
    <3>1. t \notin ended /\ at[t] \in Holding /\ ProcessOf[t] # p
      BY <2>1, <2>6
    <3>2. mMutex[ProcessOf[t]] # 0 /\ mutex[named].owner = t
      BY <3>1
    <3>3. named \in Mutexes /\ named' = named /\ mutex'[named] = mutexes[named]
      BY <2>7, <3>1, <3>2
    <3>4. QED
      BY <2>3, <3>1, <3>2, <3>3
  <2>9. QED
    BY <2>1, <2>5, <2>6, <2>7, <2>8
<1>25. ASSUME NEW p \in Processes, Start(p) PROVE MutexInv'
  BY <1>25 DEF Start, kernel, statics
<1>26. ASSUME NEW t \in Threads, CreateMutexFails(t) PROVE MutexInv'
  <2>1. mMutex[ProcessOf[t]] = 0
    BY <1>26 DEF CreateMutexFails, Intact
  <2>2. mMutex' = mMutex
    BY <1>26, <2>1 DEF CreateMutexFails
  <2>3. QED
    BY <1>26, <2>2 DEF CreateMutexFails, Leave, Goto, kernel
<1>27. CASE UNCHANGED vars
  BY <1>27 DEF vars, kernel, statics
<1>28. QED
  BY <1>1, <1>2, <1>3, <1>4, <1>5, <1>6, <1>7, <1>8, <1>9, <1>10, <1>11, <1>12,
     <1>13, <1>14, <1>15, <1>16, <1>17, <1>18, <1>19, <1>20, <1>21, <1>22,
     <1>23, <1>24, <1>25, <1>26, <1>27 DEF Next, Works, Ends, Crash, Over

(* What was thrown once stays thrown.                                      *)
LEMMA ThrewGrows == [Next]_vars => threw \subseteq threw'
<1> SUFFICES ASSUME [Next]_vars PROVE threw \subseteq threw'
  OBVIOUS
<1>1. ASSUME NEW t \in Threads, GetInstance(t) \/ DeleteInstance(t) \/ Exit(t) \/ ThreadEnds(t)
      PROVE  threw' = threw
  BY <1>1 DEF GetInstance, DeleteInstance, Exit, Call, ThreadEnds
<1>2. ASSUME NEW t \in Threads, Works(t) PROVE threw \subseteq threw'
  BY <1>2
     DEF Works, CreateMutex, CreateMutexOpens, CreateMutexFails, LockThrows, LockChecked, LockWaits,
         MutexGranted, LockStores, LockFails, LockReturns, NothingToDo, CreateMemory, CountUp, Build,
         Initialized, CountDown, DestroyLast, UnlockReturns, Unlock, UnlockStores
<1>3. ASSUME NEW p \in Processes, ProcessEnds(p) \/ Start(p) PROVE threw' = threw
  BY <1>3 DEF ProcessEnds, Start
<1>4. CASE UNCHANGED vars
  BY <1>4 DEF vars
<1>5. QED
  BY <1>1, <1>2, <1>3, <1>4 DEF Next, Ends, Crash, Over

LEMMA MutexInvInit == Init => MutexInv
  BY SingletonAssumption
     DEF Init, MutexInv, CallHasOp, LastDeletes, OneName, HasMutex, WaitsForIt, HoldsIt,
         InCall, Holding, Locking, SingletonAssumption

(* The mutex does its work as long as no handle is overwritten.            *)
Guarded == Intact => MutexInv

LEMMA GuardedStep == TypeInv /\ DeletersAlone /\ Guarded /\ [Next]_vars => Guarded'
<1>1. [Next]_vars /\ Intact' => Intact
  BY ThrewGrows DEF Intact
<1>2. QED
  BY <1>1, MutexInvStep DEF Guarded

LEMMA GuardedExcludes == TypeInv /\ Guarded => MutualExclusion
  BY MutexInvExcludes DEF Guarded, MutualExclusion

(* GetInstance and DeleteInstance are called by one thread of a process.   *)
OneThreadEach == \A t, u \in Threads : ProcessOf[t] = ProcessOf[u] => t = u

(* CreateMutexA is called where there is no handle to overwrite.           *)
OpensNone == \A t \in Threads : at[t] = "open" => mMutex[ProcessOf[t]] = 0

LEMMA OpensNoneStep ==
  ASSUME OneThreadEach
  PROVE  TypeInv /\ Intact /\ OpensNone /\ [Next]_vars => Intact' /\ OpensNone'
<1> SUFFICES ASSUME TypeInv, Intact, OpensNone, [Next]_vars PROVE Intact' /\ OpensNone'
  OBVIOUS
<1> USE SingletonAssumption DEF SingletonAssumption, TypeInv, TypeParts, Intact, OpensNone
<1>1. ASSUME NEW t \in Threads, GetInstance(t) \/ DeleteInstance(t) \/ Exit(t) \/ ThreadEnds(t)
      PROVE  Intact' /\ OpensNone'
  BY <1>1 DEF GetInstance, DeleteInstance, Exit, Call, ThreadEnds, Goto, statics
<1>2. ASSUME NEW t \in Threads, CreateMutex(t) PROVE Intact' /\ OpensNone'
  BY <1>2 DEF CreateMutex, Goto, statics
<1>3. ASSUME NEW t \in Threads, CreateMutexOpens(t) PROVE Intact' /\ OpensNone'
  BY <1>3 DEF CreateMutexOpens, Goto, OneThreadEach
<1>4. ASSUME NEW t \in Threads, CreateMutexFails(t) PROVE Intact' /\ OpensNone'
  BY <1>4 DEF CreateMutexFails, Leave, Goto
<1>5. ASSUME NEW t \in Threads,
             \/ LockThrows(t) \/ LockChecked(t) \/ LockWaits(t) \/ MutexGranted(t)
             \/ LockStores(t) \/ LockFails(t) \/ LockReturns(t) \/ NothingToDo(t)
      PROVE  Intact' /\ OpensNone'
  BY <1>5 DEF LockThrows, LockChecked, LockWaits, MutexGranted, LockStores, LockFails,
              LockReturns, NothingToDo, Leave, Goto, statics
<1>6. ASSUME NEW t \in Threads,
             \/ CreateMemory(t) \/ CountUp(t) \/ Build(t) \/ Initialized(t) \/ CountDown(t)
      PROVE  Intact' /\ OpensNone'
  BY <1>6 DEF CreateMemory, CountUp, Build, Initialized, CountDown, Goto
<1>7. ASSUME NEW t \in Threads,
             DestroyLast(t) \/ UnlockReturns(t) \/ Unlock(t) \/ UnlockStores(t)
      PROVE  Intact' /\ OpensNone'
  BY <1>7 DEF DestroyLast, UnlockReturns, Unlock, UnlockStores, Leave, Goto, statics
<1>8. ASSUME NEW p \in Processes, ProcessEnds(p) \/ Start(p) PROVE Intact' /\ OpensNone'
  BY <1>8 DEF ProcessEnds, Start, statics
<1>9. CASE UNCHANGED vars
  BY <1>9 DEF vars, statics
<1>10. QED
  BY <1>1, <1>2, <1>3, <1>4, <1>5, <1>6, <1>7, <1>8, <1>9 DEF Next, Works, Ends, Crash, Over

(* In processes of one thread, two threads are never inside the mutex      *)
(* together and who is inside owns the mutex with the name, whatever       *)
(* crashes, throws or fails and however often a process is started: there  *)
(* is no other thread whose handle a failed CreateMutexA could overwrite.  *)
THEOREM MutualExclusionHolds ==
  ASSUME OneThreadEach
  PROVE  Spec => [](Intact /\ MutualExclusion)
<1>1. DeletersAlone
  BY DEF OneThreadEach, DeletersAlone, Alone, ThreadsOf
<1>2. TypeInv /\ Intact /\ OpensNone /\ MutexInv /\ [Next]_vars =>
        TypeInv' /\ Intact' /\ OpensNone' /\ MutexInv'
  BY <1>1, TypeInvStep, OpensNoneStep, MutexInvStep
<1>3. Init => Intact /\ OpensNone
  BY DEF Init, Intact, OpensNone
<1>4. QED
  BY <1>2, <1>3, TypeInvInit, MutexInvInit, MutexInvExcludes, PTL DEF Spec

(* A process of several threads keeps the instance.                        *)
SeveralAreKept == \A t \in Threads : ProcessOf[t] \notin Keepers => Alone(t)

LEMMA KeptNextIsNext == [KeptNext]_vars => [Next]_vars
  BY DEF KeptNext, Next, GivesUp

LEMMA DeletersAloneStep ==
  ASSUME SeveralAreKept
  PROVE  TypeInv /\ DeletersAlone /\ [KeptNext]_vars => DeletersAlone'
<1> SUFFICES ASSUME TypeInv, DeletersAlone, [KeptNext]_vars,
                    NEW t \in Threads, op'[t] \in Deleting, op[t] \notin Deleting
             PROVE  Alone(t)
  BY DEF DeletersAlone, Alone, ThreadsOf
<1> USE SingletonAssumption DEF SingletonAssumption, TypeInv, TypeParts, Deleting
<1>1. CASE \E u \in Threads : GivesUp(u)
  BY <1>1 DEF GivesUp, DeleteInstance, Exit, Call, SeveralAreKept
<1>2. CASE \E u \in Threads : GetInstance(u) \/ ThreadEnds(u)
  BY <1>2 DEF GetInstance, Call, ThreadEnds
<1>3. CASE \E p \in Processes : ProcessEnds(p) \/ Start(p)
  BY <1>3 DEF ProcessEnds, Start
<1>4. CASE UNCHANGED vars
  BY <1>4 DEF vars
<1>5. ASSUME NEW u \in Threads, Works(u) PROVE FALSE
  <2>1. op'[t] = op[t] \/ op'[t] = "none"
    BY <1>5
       DEF Works, CreateMutex, CreateMutexOpens, CreateMutexFails, LockThrows, LockChecked, LockWaits,
           MutexGranted, LockStores, LockFails, LockReturns, NothingToDo, CreateMemory, CountUp, Build,
           Initialized, CountDown, DestroyLast, UnlockReturns, Unlock, UnlockStores, Leave
  <2>2. QED
    BY <2>1
<1>6. QED
  BY <1>1, <1>2, <1>3, <1>4, <1>5 DEF KeptNext, Ends, Crash, Over

(* In processes of any number of threads, which race on mMutex and mLocked *)
(* and of which CreateMutexA may fail, the mutex excludes until a failed   *)
(* one overwrites the handle of another thread, where only processes of    *)
(* one thread delete the instance.                                         *)
THEOREM KeptMutualExclusionHolds ==
  ASSUME SeveralAreKept
  PROVE  KeptSpec => []MutualExclusion
<1>1. Init => DeletersAlone
  BY DEF Init, DeletersAlone, Deleting
<1>2. Init => Guarded
  BY MutexInvInit DEF Guarded
<1>3. TypeInv /\ DeletersAlone /\ Guarded /\ [KeptNext]_vars =>
        TypeInv' /\ DeletersAlone' /\ Guarded'
  BY KeptNextIsNext, DeletersAloneStep, TypeInvStep, GuardedStep
<1>4. QED
  BY <1>1, <1>2, <1>3, TypeInvInit, GuardedExcludes, PTL DEF KeptSpec

=============================================================================
