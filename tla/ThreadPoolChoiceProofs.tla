------------------------ MODULE ThreadPoolChoiceProofs ------------------------
(***************************************************************************)
(* The choice of ThreadPool::ChooseThread is as good as its counts allow:  *)
(* a proof of ChosenWasShort for any number of threads, clients and tasks. *)
(***************************************************************************)
EXTENDS ThreadPoolChoice, ThreadPoolProofs

(* What a comparison under way knows, apart from how the lists have grown: *)
(* the thread chosen so far is ahead of every thread already compared, and *)
(* the one count that was taken bounds both lists of the comparison.       *)
ShortSoFar(call, b, g) ==
  /\ call.index < call.i
  /\ call.counted \in {0, call.index, call.i}
  /\ \A j \in Threads : TaskCount(j) <= b[j] + g
  /\ \A j \in Threads : j < call.i => TaskCount(call.index) <= b[j] + g
  /\ call.counted = call.index =>
       /\ \A j \in Threads : j < call.i => call.count <= b[j] + g
       /\ TaskCount(call.index) + TaskCount(call.i) - call.count <= b[call.i] + g
  /\ call.counted = call.i =>
       /\ call.count <= b[call.i] + g
       /\ \A j \in Threads : j < call.i =>
            TaskCount(call.index) + TaskCount(call.i) - call.count <= b[j] + g

Short(c) == ShortSoFar(calls[c], base[c], grown[c])

ChoiceTypeOK ==
  /\ base \in [Clients -> [Threads -> Nat]]
  /\ grown \in [Clients -> Nat]

ChoiceInv == TypeInv /\ ChoiceTypeOK /\ \A c \in Clients : Choosing(c) => Short(c)

LEMMA InitChoiceInv == ChoiceInit => ChoiceInv
<1> SUFFICES ASSUME ChoiceInit PROVE ChoiceInv
  OBVIOUS
<1>1. TypeInv
  BY InitTypeInv DEF ChoiceInit
<1>2. ChoiceTypeOK
  BY DEF ChoiceInit, ChoiceTypeOK, Nothing
<1>3. \A c \in Clients : ~Choosing(c)
  BY NoCallType DEF ChoiceInit, Init, Choosing
<1>4. QED
  BY <1>1, <1>2, <1>3 DEF ChoiceInv

LEMMA CountType ==
  ASSUME TypeInv, NEW j \in Threads
  PROVE  TaskCount(j) \in Nat
BY DEF TaskCount, TypeInv, TypeOK

(* A step makes one list longer by one task, or none.                      *)
GrowsByOne ==
  /\ Growth \in {0, 1}
  /\ \A j \in Threads : TaskCount(j)' <= TaskCount(j) + Growth
  /\ \A j, k \in Threads : j # k =>
       TaskCount(j)' + TaskCount(k)' <= TaskCount(j) + TaskCount(k) + Growth

LEMMA NoGrowth ==
  ASSUME TypeInv, TypeInv', \A j \in Threads : TaskCount(j)' <= TaskCount(j)
  PROVE  GrowsByOne /\ Growth = 0
<1>1. \A j \in Threads : TaskCount(j) \in Nat /\ TaskCount(j)' \in Nat
  BY DEF TaskCount, TypeInv, TypeOK
<1>2. Growth = 0
  BY <1>1 DEF Growth, TaskCount
<1>3. QED
  BY <1>1, <1>2 DEF GrowsByOne

LEMMA EnqueueGrows ==
  ASSUME TypeInv, NEW i \in Threads, NEW t \in Tasks, NEW p \in Priority, Enqueue(i, t, p)
  PROVE  GrowsByOne
<1>1. /\ mTasks[i] \in Seq(Tasks) /\ Len(mTasks[i]) \in Nat
      /\ Position(p, Len(mTasks[i])) \in 1 .. Len(mTasks[i]) + 1
  BY PositionInList DEF TypeInv, TypeOK
<1>2. Len(InsertAt(mTasks[i], Position(p, Len(mTasks[i])), t)) = Len(mTasks[i]) + 1
  BY <1>1, InsertAtProperties
<1>3. /\ TaskCount(i)' = TaskCount(i) + 1
      /\ \A j \in Threads \ {i} : TaskCount(j)' = TaskCount(j)
  BY <1>2, EnqueueType DEF TypeInv, TaskCount
<1>4. \A j \in Threads : TaskCount(j) \in Nat
  BY CountType
<1>5. Growth = 1
  BY <1>3, <1>4 DEF Growth, TaskCount
<1>6. QED
  BY <1>3, <1>4, <1>5 DEF GrowsByOne

LEMMA NextGrows ==
  ASSUME TypeInv, TypeInv', Next
  PROVE  GrowsByOne
<1>1. ASSUME NEW c \in Clients, ClientStep(c) PROVE GrowsByOne
  <2>1. CASE AddTo(c)
    BY <2>1, EnqueueGrows DEF AddTo
  <2>2. CASE AddChosen(c)
    <3>1. calls[c].index \in Threads /\ calls[c].task \in Tasks /\ calls[c].priority \in Priority
      BY <2>2, CallType DEF AddChosen, Choosing
    <3>2. QED
      BY <2>2, <3>1, EnqueueGrows DEF AddChosen
  <2>3. CASE ChooseBegin(c) \/ CountFirst(c) \/ CountSecond(c)
    <3>1. UNCHANGED mTasks
      BY <2>3 DEF ChooseBegin, CountFirst, CountSecond
    <3>2. \A j \in Threads : TaskCount(j)' <= TaskCount(j)
      BY <3>1, CountType DEF TaskCount
    <3>3. QED
      BY <3>2, NoGrowth
  <2>4. QED
    BY <1>1, <2>1, <2>2, <2>3 DEF ClientStep
<1>2. ASSUME NEW i \in Threads, RunTake(i) PROVE GrowsByOne
  <2>1. mTasks[i] \in Seq(Tasks) /\ Len(mTasks[i]) > 0
    BY <1>2 DEF RunTake, HasWork, TaskCount, TypeInv, TypeOK
  <2>2. /\ mTasks'[i] = Tail(mTasks[i])
        /\ \A j \in Threads \ {i} : mTasks'[j] = mTasks[j]
    BY <1>2 DEF RunTake, TypeInv, TypeOK
  <2>3. TaskCount(i)' <= TaskCount(i)
    BY <2>1, <2>2, TailProperties DEF TaskCount
  <2>4. \A j \in Threads : TaskCount(j)' <= TaskCount(j)
    <3>1. \A j \in Threads \ {i} : TaskCount(j)' = TaskCount(j)
      BY <2>2 DEF TaskCount
    <3>2. QED
      BY <2>3, <3>1, CountType
  <2>5. QED
    BY <2>4, NoGrowth
<1>3. CASE Destroyed
  <2>1. \A j \in Threads : TaskCount(j)' = 0
    BY <1>3 DEF Destroyed, TaskCount
  <2>2. \A j \in Threads : TaskCount(j)' <= TaskCount(j)
    BY <2>1, CountType
  <2>3. QED
    BY <2>2, NoGrowth
<1>4. CASE UNCHANGED mTasks
  <2>1. \A j \in Threads : TaskCount(j)' <= TaskCount(j)
    BY <1>4, CountType DEF TaskCount
  <2>2. QED
    BY <2>1, NoGrowth
<1>5. ASSUME NEW i \in Threads, RunStep(i), ~RunTake(i) PROVE UNCHANGED mTasks
  BY <1>5 DEF RunStep, RunCheck, RunWait, RunRetry, RunWork, RunCallback, RunThrow
<1>6. ASSUME OwnerStep, ~Destroyed PROVE UNCHANGED mTasks
  BY <1>6 DEF OwnerStep, OwnerCalls, StartThread, StopThread, JoinThread, OwnerReturns
<1>7. QED
  BY <1>1, <1>2, <1>3, <1>4, <1>5, <1>6 DEF Next, Over, vars, codeVars

(* A choice that goes on while the lists change.                           *)
LEMMA ShortStays ==
  ASSUME ChoiceInv, TypeInv', GrowsByOne, Track,
         NEW c \in Clients, Choosing(c), calls'[c] = calls[c]
  PROVE  Short(c)'
<1>1. PICK call \in Call, b \in [Threads -> Nat], g \in Nat, d \in {0, 1} :
             call = calls[c] /\ b = base[c] /\ g = grown[c] /\ d = Growth
  BY CallType DEF ChoiceInv, ChoiceTypeOK, GrowsByOne
<1>2. calls'[c] = call /\ base'[c] = b /\ grown'[c] = g + d
  BY <1>1 DEF Track, Choosing
<1>3. /\ call.index \in Threads /\ call.count \in Nat /\ call.i \in 1 .. ThreadsCount + 1
      /\ call.counted # 0 => call.i \in Threads
      /\ \A j \in Threads : j \in Nat \ {0}
  BY <1>1, CallType DEF ChoiceInv, TypeInv, CallsOK, Call, Threads
<1>4. \A j \in Threads : /\ TaskCount(j) \in Nat /\ TaskCount(j)' \in Nat
                         /\ TaskCount(j)' <= TaskCount(j) + d
  BY <1>1, CountType DEF GrowsByOne, ChoiceInv, TaskCount, TypeInv, TypeOK
<1>5. \A j, k \in Threads : j # k =>
        TaskCount(j)' + TaskCount(k)' <= TaskCount(j) + TaskCount(k) + d
  BY <1>1 DEF GrowsByOne
<1>6. ShortSoFar(call, b, g)
  BY <1>1 DEF ChoiceInv, Short
<1>7. /\ \A j \in Threads : TaskCount(j)' <= b[j] + (g + d)
      /\ \A j \in Threads : j < call.i => TaskCount(call.index)' <= b[j] + (g + d)
  BY <1>3, <1>4, <1>6 DEF ShortSoFar
<1>8. ASSUME call.counted # 0, NEW m \in Nat,
             TaskCount(call.index) + TaskCount(call.i) - call.count <= m + g
      PROVE  TaskCount(call.index)' + TaskCount(call.i)' - call.count <= m + (g + d)
  <2>1. call.index # call.i /\ call.i \in Threads
    BY <1>3, <1>6, <1>8 DEF ShortSoFar
  <2>2. TaskCount(call.index)' + TaskCount(call.i)' <= TaskCount(call.index) + TaskCount(call.i) + d
    BY <1>3, <1>5, <2>1
  <2>3. /\ TaskCount(call.index) \in Nat /\ TaskCount(call.index)' \in Nat
        /\ TaskCount(call.i) \in Nat /\ TaskCount(call.i)' \in Nat
    BY <1>3, <1>4, <2>1
  <2>4. QED
    BY <1>3, <1>8, <2>2, <2>3
<1>9. /\ call.counted = call.index =>
           /\ \A j \in Threads : j < call.i => call.count <= b[j] + (g + d)
           /\ TaskCount(call.index)' + TaskCount(call.i)' - call.count <= b[call.i] + (g + d)
      /\ call.counted = call.i =>
           /\ call.count <= b[call.i] + (g + d)
           /\ \A j \in Threads : j < call.i =>
                TaskCount(call.index)' + TaskCount(call.i)' - call.count <= b[j] + (g + d)
  <2>1. CASE call.counted = call.index
    <3>1. call.counted # 0 /\ call.i \in Threads /\ call.counted # call.i
      BY <1>3, <1>6, <2>1 DEF ShortSoFar
    <3>2. b[call.i] \in Nat
      BY <3>1
    <3>3. TaskCount(call.index)' + TaskCount(call.i)' - call.count <= b[call.i] + (g + d)
      BY <1>6, <1>8, <2>1, <3>1, <3>2 DEF ShortSoFar
    <3>4. \A j \in Threads : j < call.i => call.count <= b[j] + (g + d)
      BY <1>3, <1>6, <2>1 DEF ShortSoFar
    <3>5. QED
      BY <3>1, <3>3, <3>4
  <2>2. CASE call.counted = call.i
    <3>1. call.counted # 0 /\ call.i \in Threads /\ call.counted # call.index
      BY <1>3, <1>6, <2>2 DEF ShortSoFar
    <3>2. \A j \in Threads : b[j] \in Nat
      OBVIOUS
    <3>3. \A j \in Threads : j < call.i =>
            TaskCount(call.index)' + TaskCount(call.i)' - call.count <= b[j] + (g + d)
      BY <1>6, <1>8, <2>2, <3>1, <3>2 DEF ShortSoFar
    <3>4. call.count <= b[call.i] + (g + d)
      BY <1>3, <1>6, <2>2, <3>1 DEF ShortSoFar
    <3>5. QED
      BY <3>1, <3>3, <3>4
  <2>3. QED
    BY <2>1, <2>2
<1>10. ShortSoFar(call, b, g + d)'
  <2>1. call.index < call.i /\ call.counted \in {0, call.index, call.i}
    BY <1>6 DEF ShortSoFar
  <2>2. QED
    BY <1>7, <1>9, <2>1 DEF ShortSoFar
<1>11. QED
  BY <1>2, <1>10 DEF Short, ShortSoFar

(* A comparison begins: the lists are as long as they are.                 *)
LEMMA ShortBegins ==
  ASSUME ChoiceInv, TypeInv', Track, NEW c \in Clients, ChooseBegin(c)
  PROVE  Short(c)'
<1>1. PICK t \in Tasks, p \in Priority :
        calls' = [calls EXCEPT ![c] = Choice(t, p, 1, 2, 0, 0)]
  BY DEF ChooseBegin
<1>2. /\ calls'[c].index = 1 /\ calls'[c].i = 2 /\ calls'[c].counted = 0
      /\ calls'[c].task = t
  BY <1>1 DEF Choice, ChoiceInv, TypeInv, TypeOK
<1>3. ~Choosing(c) /\ Choosing(c)' /\ UNCHANGED mTasks
  BY <1>2, PoolAssumption DEF ChooseBegin, Choosing
<1>4. grown'[c] = 0 /\ base'[c] = [j \in Threads |-> TaskCount(j)]
  BY <1>3 DEF Track
<1>5. \A j \in Threads : /\ TaskCount(j) \in Nat /\ TaskCount(j)' = TaskCount(j)
                         /\ j < 2 => j = 1
  BY <1>3, CountType DEF ChoiceInv, TaskCount, Threads
<1>6. 1 \in Threads
  BY PoolAssumption DEF Threads
<1>7. ShortSoFar(calls'[c], base'[c], grown'[c])
  BY <1>2, <1>4, <1>5, <1>6 DEF ShortSoFar
<1>8. QED
  BY <1>5, <1>6, <1>2, <1>4 DEF Short, ShortSoFar

(* A count is taken, or the shorter of two lists is chosen; no list        *)
(* changes.                                                                *)
LEMMA ShortGoesOn ==
  ASSUME ChoiceInv, TypeInv', Track, NEW c \in Clients,
         CountFirst(c) \/ CountSecond(c)
  PROVE  Short(c)'
<1>1. /\ UNCHANGED mTasks
      /\ \A j \in Threads : TaskCount(j)' = TaskCount(j) /\ TaskCount(j) \in Nat
  BY CountType DEF CountFirst, CountSecond, ChoiceInv, TaskCount
<1>2. Growth = 0
  BY <1>1 DEF Growth, TaskCount
<1>3. PICK call \in Call, b \in [Threads -> Nat], g \in Nat :
             call = calls[c] /\ b = base[c] /\ g = grown[c]
  BY CallType DEF ChoiceInv, ChoiceTypeOK
<1>4. /\ call.index \in Threads /\ call.i \in Threads /\ call.i \in Nat
      /\ call.count \in Nat /\ \A j \in Threads : j \in Nat \ {0}
  BY <1>3, CallType DEF CountFirst, CountSecond, ChoiceInv, TypeInv, CallsOK, Call, Threads
<1>5. ShortSoFar(call, b, g)
  BY <1>3 DEF CountFirst, CountSecond, ChoiceInv, Short
<1>6. ASSUME calls'[c].task = call.task PROVE base'[c] = b /\ grown'[c] = g
  BY <1>2, <1>3, <1>6 DEF Track, Choosing, CountFirst, CountSecond
<1>7. CASE CountFirst(c)
  <2>1. PICK j \in {call.index, call.i} :
          calls' = [calls EXCEPT ![c] =
            Choice(call.task, call.priority, call.index, call.i, j, TaskCount(j))]
    BY <1>3, <1>7 DEF CountFirst
  <2>2. /\ calls'[c].task = call.task /\ calls'[c].index = call.index /\ calls'[c].i = call.i
        /\ calls'[c].counted = j /\ calls'[c].count = TaskCount(j)
    BY <2>1 DEF Choice, ChoiceInv, TypeInv, TypeOK
  <2>3. base'[c] = b /\ grown'[c] = g
    BY <1>6, <2>2
  <2>4. j = call.index =>
          TaskCount(call.index) + TaskCount(call.i) - TaskCount(j) = TaskCount(call.i)
    BY <1>1, <1>4
  <2>5. j = call.i =>
          TaskCount(call.index) + TaskCount(call.i) - TaskCount(j) = TaskCount(call.index)
    BY <1>1, <1>4
  <2>6. QED
    BY <1>1, <1>4, <1>5, <2>2, <2>3, <2>4, <2>5 DEF Short, ShortSoFar
<1>8. CASE CountSecond(c)
  <2>1. call.counted # 0 /\ calls' = [calls EXCEPT ![c] =
          Choice(call.task, call.priority, Fewer(call), call.i + 1, 0, 0)]
    BY <1>3, <1>8 DEF CountSecond
  <2>2. /\ calls'[c].task = call.task /\ calls'[c].index = Fewer(call)
        /\ calls'[c].i = call.i + 1 /\ calls'[c].counted = 0
    BY <2>1 DEF Choice, ChoiceInv, TypeInv, TypeOK
  <2>3. base'[c] = b /\ grown'[c] = g
    BY <1>6, <2>2
  <2>4. /\ call.index < call.i /\ call.counted \in {call.index, call.i}
        /\ \A j \in Threads : TaskCount(j) <= b[j] + g
        /\ \A j \in Threads : j < call.i => TaskCount(call.index) <= b[j] + g
    BY <1>5, <2>1 DEF ShortSoFar
  <2>5. \A j \in Threads : j < call.i + 1 => j < call.i \/ j = call.i
    BY <1>4
  <2>6. Fewer(call) \in Threads /\ Fewer(call) < call.i + 1
    BY <1>4, <2>4 DEF Fewer
  <2>7. ASSUME NEW j \in Threads, j < call.i + 1
        PROVE  TaskCount(Fewer(call)) <= b[j] + g
    <3>1. /\ TaskCount(call.index) \in Nat /\ TaskCount(call.i) \in Nat /\ b[j] \in Nat
      BY <1>1, <1>4
    <3>2. CASE call.counted = call.index
      <4>1. /\ j < call.i => call.count <= b[j] + g
            /\ TaskCount(call.index) + TaskCount(call.i) - call.count <= b[call.i] + g
        BY <1>5, <3>2 DEF ShortSoFar
      <4>2. Fewer(call) = IF call.count > TaskCount(call.i) THEN call.i ELSE call.index
        BY <2>4, <3>2, <1>4 DEF Fewer, CountOf
      <4>3. CASE call.count > TaskCount(call.i)
        BY <1>4, <2>4, <2>5, <2>7, <3>1, <4>1, <4>2, <4>3
      <4>4. CASE ~(call.count > TaskCount(call.i))
        BY <1>4, <2>4, <2>5, <2>7, <3>1, <4>1, <4>2, <4>4
      <4>5. QED
        BY <4>3, <4>4
    <3>3. CASE call.counted = call.i
      <4>1. /\ call.count <= b[call.i] + g
            /\ j < call.i => TaskCount(call.index) + TaskCount(call.i) - call.count <= b[j] + g
        BY <1>5, <2>4, <3>3 DEF ShortSoFar
      <4>2. Fewer(call) = IF TaskCount(call.index) > call.count THEN call.i ELSE call.index
        BY <2>4, <3>3, <1>4 DEF Fewer, CountOf
      <4>3. CASE TaskCount(call.index) > call.count
        BY <1>4, <2>4, <2>5, <2>7, <3>1, <4>1, <4>2, <4>3
      <4>4. CASE ~(TaskCount(call.index) > call.count)
        BY <1>4, <2>4, <2>5, <2>7, <3>1, <4>1, <4>2, <4>4
      <4>5. QED
        BY <4>3, <4>4
    <3>4. QED
      BY <2>4, <3>2, <3>3
  <2>8. Fewer(call) # 0 /\ call.i + 1 # 0
    BY <1>4, <2>6
  <2> HIDE DEF Fewer
  <2>9. QED
    BY <1>1, <2>2, <2>3, <2>4, <2>6, <2>7, <2>8 DEF Short, ShortSoFar
<1>9. QED
  BY <1>7, <1>8

LEMMA NextChoiceInv == ChoiceInv /\ [ChoiceNext]_choiceVars => ChoiceInv'
<1> SUFFICES ASSUME ChoiceInv, [ChoiceNext]_choiceVars PROVE ChoiceInv'
  OBVIOUS
<1>1. CASE UNCHANGED choiceVars
  <2>1. TypeInv'
    BY <1>1, NextTypeInv DEF ChoiceInv, choiceVars
  <2>2. UNCHANGED <<base, grown, calls, mTasks>>
    BY <1>1 DEF choiceVars, vars, codeVars
  <2>3. ChoiceTypeOK'
    BY <2>2 DEF ChoiceInv, ChoiceTypeOK
  <2>4. \A c \in Clients : Choosing(c)' => Short(c)'
    BY <2>2 DEF ChoiceInv, Choosing, Short, ShortSoFar, TaskCount
  <2>5. QED
    BY <2>1, <2>3, <2>4 DEF ChoiceInv
<1>2. CASE ChoiceNext
  <2>1. Next /\ Track
    BY <1>2 DEF ChoiceNext
  <2>2. TypeInv'
    BY <2>1, NextTypeInv DEF ChoiceInv
  <2>3. GrowsByOne
    BY <2>1, <2>2, NextGrows DEF ChoiceInv
  <2>4. ChoiceTypeOK'
    <3>1. \A j \in Threads : TaskCount(j) \in Nat
      BY CountType DEF ChoiceInv
    <3>2. Growth \in Nat
      BY <2>3 DEF GrowsByOne
    <3>3. QED
      BY <2>1, <3>1, <3>2 DEF Track, ChoiceInv, ChoiceTypeOK, Nothing
  <2>5. ASSUME NEW c \in Clients, Choosing(c)' PROVE Short(c)'
    <3>1. CASE calls'[c] = calls[c]
      <4>1. Choosing(c)
        BY <2>5, <3>1 DEF Choosing
      <4>2. QED
        BY <2>1, <2>2, <2>3, <3>1, <4>1, ShortStays
    <3>2. CASE ClientStep(c)
      <4>1. CASE AddChosen(c)
        BY <2>5, <4>1, NoCallType DEF AddChosen, Choosing, ChoiceInv, TypeInv, TypeOK
      <4>2. CASE AddTo(c)
        BY <3>1, <2>1, <2>2, <2>5, <4>2, ShortStays, <2>3 DEF AddTo, Choosing
      <4>3. QED
        BY <2>1, <2>2, <3>2, <4>1, <4>2, ShortBegins, ShortGoesOn DEF ClientStep
    <3>3. ASSUME NEW d \in Clients, d # c, ClientStep(d) PROVE calls'[c] = calls[c]
      BY <3>3 DEF ClientStep, AddTo, ChooseBegin, CountFirst, CountSecond, AddChosen,
                  ChoiceInv, TypeInv, TypeOK
    <3>4. ASSUME NEW i \in Threads, RunStep(i) PROVE UNCHANGED calls
      BY <3>4 DEF RunStep, RunCheck, RunWait, RunRetry, RunTake, RunWork, RunCallback, RunThrow
    <3>5. ASSUME OwnerStep PROVE UNCHANGED calls
      BY <3>5 DEF OwnerStep, OwnerCalls, StartThread, StopThread, JoinThread, OwnerReturns,
                  Destroyed
    <3>6. QED
      BY <2>1, <3>1, <3>2, <3>3, <3>4, <3>5 DEF Next, Over, vars, codeVars
  <2>6. QED
    BY <2>2, <2>4, <2>5 DEF ChoiceInv
<1>3. QED
  BY <1>1, <1>2

(* However many threads and clients there are and however they interleave  *)
(* with the comparisons of ChooseThread, the list it chooses is no longer  *)
(* than any list was when it began, except for what was added since.       *)
THEOREM ChosenWasShortHolds == ChoiceSpec => []ChosenWasShort
<1>1. ChoiceInv => ChosenWasShort
  <2> SUFFICES ASSUME ChoiceInv, NEW c \in Clients, Choosing(c),
                      calls[c].i = ThreadsCount + 1, NEW j \in Threads
               PROVE  TaskCount(calls[c].index) <= base[c][j] + grown[c]
    BY DEF ChosenWasShort
  <2>1. j < calls[c].i
    BY PoolAssumption DEF Threads
  <2>2. QED
    BY <2>1 DEF ChoiceInv, Short, ShortSoFar
<1>2. QED
  BY <1>1, InitChoiceInv, NextChoiceInv, PTL DEF ChoiceSpec

=============================================================================
