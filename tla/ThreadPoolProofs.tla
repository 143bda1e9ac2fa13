--------------------------- MODULE ThreadPoolProofs ---------------------------
EXTENDS ThreadPool, SequenceTheorems, TLAPS

(* What Thread::Add does to a list: an insertion at position k.            *)
LEMMA InsertAtProperties ==
  ASSUME NEW S, NEW q \in Seq(S), NEW e \in S, NEW k \in 1 .. Len(q) + 1
  PROVE  /\ InsertAt(q, k, e) \in Seq(S)
         /\ Len(InsertAt(q, k, e)) = Len(q) + 1
         /\ \A n \in 1 .. Len(q) + 1 :
              InsertAt(q, k, e)[n] =
                IF n < k THEN q[n] ELSE IF n = k THEN e ELSE q[n - 1]
<1> DEFINE front == SubSeq(q, 1, k - 1)
           back  == SubSeq(q, k, Len(q))
           head  == front \o <<e>>
<1>1. /\ front \in Seq(S) /\ Len(front) = k - 1
      /\ \A n \in 1 .. k - 1 : front[n] = q[n]
  OBVIOUS
<1>2. /\ back \in Seq(S) /\ Len(back) = Len(q) - k + 1
      /\ \A n \in 1 .. Len(q) - k + 1 : back[n] = q[k + n - 1]
  OBVIOUS
<1>3. InsertAt(q, k, e) = head \o back
  BY DEF InsertAt
<1> HIDE DEF front, back
<1>4. /\ head \in Seq(S) /\ Len(head) = k
      /\ \A n \in 1 .. k : head[n] = IF n < k THEN q[n] ELSE e
  BY <1>1
<1> HIDE DEF head
<1>5. /\ head \o back \in Seq(S) /\ Len(head \o back) = Len(q) + 1
      /\ \A n \in 1 .. Len(q) + 1 :
           (head \o back)[n] = IF n <= k THEN head[n] ELSE back[n - k]
  <2>1. /\ head \o back \in Seq(S)
        /\ Len(head \o back) = Len(head) + Len(back)
        /\ \A n \in 1 .. Len(head) + Len(back) :
             (head \o back)[n] = IF n <= Len(head) THEN head[n] ELSE back[n - Len(head)]
    BY <1>2, <1>4, ConcatProperties
  <2>2. Len(head) = k /\ Len(head) + Len(back) = Len(q) + 1
    BY <1>2, <1>4
  <2>3. QED
    BY <2>1, <2>2
<1>6. QED
  BY <1>2, <1>3, <1>4, <1>5

(* The elements of a list after an insertion.                              *)
LEMMA InsertAtRange ==
  ASSUME NEW S, NEW q \in Seq(S), NEW e \in S, NEW k \in 1 .. Len(q) + 1
  PROVE  /\ Range(InsertAt(q, k, e)) = Range(q) \cup {e}
         /\ IsInjective(q) /\ e \notin Range(q) => IsInjective(InsertAt(q, k, e))
<1> DEFINE r == InsertAt(q, k, e)
<1>1. /\ r \in Seq(S) /\ Len(r) = Len(q) + 1
      /\ \A n \in 1 .. Len(q) + 1 :
           r[n] = IF n < k THEN q[n] ELSE IF n = k THEN e ELSE q[n - 1]
  BY InsertAtProperties
<1> HIDE DEF r
<1>2. DOMAIN r = 1 .. Len(q) + 1 /\ DOMAIN q = 1 .. Len(q)
  BY <1>1
<1>3. Range(r) \subseteq Range(q) \cup {e}
  BY <1>1, <1>2 DEF Range
<1>4. e \in Range(r)
  BY <1>1, <1>2 DEF Range
<1>5. ASSUME NEW x \in Range(q) PROVE x \in Range(r)
  <2>1. PICK n \in 1 .. Len(q) : x = q[n]
    BY <1>2 DEF Range
  <2>2. x = r[IF n < k THEN n ELSE n + 1]
    BY <1>1, <2>1
  <2>3. QED
    BY <1>2, <2>2 DEF Range
<1>6. ASSUME IsInjective(q), e \notin Range(q) PROVE IsInjective(r)
  <2>1. \A n \in 1 .. Len(q) : q[n] # e
    BY <1>2, <1>6 DEF Range
  <2>2. \A a, b \in 1 .. Len(q) : q[a] = q[b] => a = b
    BY <1>2, <1>6 DEF IsInjective
  <2>3. SUFFICES ASSUME NEW a \in 1 .. Len(q) + 1, NEW b \in 1 .. Len(q) + 1,
                        r[a] = r[b], a < b
                 PROVE  FALSE
    BY <1>2, SMT DEF IsInjective
  <2>4. CASE b < k
    BY <1>1, <2>2, <2>3, <2>4
  <2>5. CASE b = k
    BY <1>1, <2>1, <2>3, <2>5
  <2>6. CASE a < k /\ b > k
    <3>1. a \in 1 .. Len(q) /\ b - 1 \in 1 .. Len(q) /\ a # b - 1
      BY <2>3, <2>6
    <3>2. r[a] = q[a] /\ r[b] = q[b - 1]
      BY <1>1, <2>3, <2>6
    <3>3. QED
      BY <2>2, <2>3, <3>1, <3>2
  <2>7. CASE a = k
    <3>1. b - 1 \in 1 .. Len(q)
      BY <2>3, <2>7
    <3>2. r[k] = e
      BY <1>1
    <3>3. r[b] = q[b - 1]
      BY <1>1, <2>3, <2>7
    <3>4. QED
      BY <2>1, <2>3, <2>7, <3>1, <3>2, <3>3
  <2>8. CASE a > k
    <3>1. a - 1 \in 1 .. Len(q) /\ b - 1 \in 1 .. Len(q) /\ a - 1 # b - 1
      BY <2>3, <2>8
    <3>2. r[a] = q[a - 1] /\ r[b] = q[b - 1]
      BY <1>1, <2>3, <2>8
    <3>3. QED
      BY <2>2, <2>3, <3>1, <3>2
  <2>9. QED
    BY <2>3, <2>4, <2>5, <2>6, <2>7, <2>8
<1>7. QED
  BY <1>3, <1>4, <1>5, <1>6 DEF r

(* What pop_front does to a list.                                          *)
LEMMA TailProperties ==
  ASSUME NEW S, NEW q \in Seq(S), Len(q) > 0
  PROVE  /\ Head(q) = q[1] /\ Head(q) \in S
         /\ Tail(q) \in Seq(S)
         /\ Len(Tail(q)) = Len(q) - 1
         /\ \A n \in 1 .. Len(q) - 1 : Tail(q)[n] = q[n + 1]
  OBVIOUS

(* The elements of a list after its first one has left it.                 *)
LEMMA TailRange ==
  ASSUME NEW S, NEW q \in Seq(S), Len(q) > 0
  PROVE  /\ Range(q) = Range(Tail(q)) \cup {Head(q)}
         /\ IsInjective(q) => IsInjective(Tail(q)) /\ Head(q) \notin Range(Tail(q))
<1> DEFINE r == Tail(q)
<1>1. /\ Head(q) = q[1] /\ r \in Seq(S) /\ Len(r) = Len(q) - 1
      /\ \A n \in 1 .. Len(q) - 1 : r[n] = q[n + 1]
  BY TailProperties
<1> HIDE DEF r
<1>2. DOMAIN r = 1 .. Len(q) - 1 /\ DOMAIN q = 1 .. Len(q)
  BY <1>1
<1>3. Range(r) \cup {Head(q)} \subseteq Range(q)
  BY <1>1, <1>2 DEF Range
<1>4. ASSUME NEW x \in Range(q) PROVE x \in Range(r) \cup {Head(q)}
  <2>1. PICK n \in 1 .. Len(q) : x = q[n]
    BY <1>2 DEF Range
  <2>2. n # 1 => x = r[n - 1]
    BY <1>1, <2>1
  <2>3. QED
    BY <1>1, <1>2, <2>1, <2>2 DEF Range
<1>5. ASSUME IsInjective(q) PROVE IsInjective(r) /\ Head(q) \notin Range(r)
  <2>1. \A a, b \in 1 .. Len(q) : q[a] = q[b] => a = b
    BY <1>2, <1>5 DEF IsInjective
  <2>2. \A n \in 1 .. Len(q) - 1 : n + 1 \in 1 .. Len(q) /\ n + 1 # 1 /\ 1 \in 1 .. Len(q)
    OBVIOUS
  <2>3. IsInjective(r)
    <3>1. SUFFICES ASSUME NEW a \in 1 .. Len(q) - 1, NEW b \in 1 .. Len(q) - 1, r[a] = r[b]
                   PROVE  a = b
      BY <1>2 DEF IsInjective
    <3>2. q[a + 1] = q[b + 1]
      BY <1>1, <3>1
    <3>3. a + 1 = b + 1
      BY <2>1, <2>2, <3>2
    <3>4. QED
      BY <3>3
  <2>4. Head(q) \notin Range(r)
    <3>1. SUFFICES ASSUME NEW n \in 1 .. Len(q) - 1, r[n] = Head(q)
                   PROVE  FALSE
      BY <1>2 DEF Range
    <3>2. q[n + 1] = q[1]
      BY <1>1, <3>1
    <3>3. QED
      BY <2>1, <2>2, <3>2
  <2>5. QED
    BY <2>3, <2>4
<1>6. QED
  BY <1>3, <1>4, <1>5 DEF r

(* Thread::Add always places a task between the two ends of the list.      *)
LEMMA PositionInList ==
  ASSUME NEW p \in Priority, NEW size \in Nat
  PROVE  Position(p, size) \in 1 .. size + 1
  BY DEF Position, Priority

-----------------------------------------------------------------------------
(***************************************************************************)
(* Types.  What keeps a call of ChooseThread inside the array of threads   *)
(* and a join on a thread of it: the comparison that has one count is not  *)
(* the one past the end, and neither is the thread Stop waits for.         *)
(***************************************************************************)

CallsOK == \A c \in Clients : calls[c].counted # 0 => calls[c].i \in Threads

JoinOK == owner.joining => owner.at \in Threads /\ owner.op \in {"stop", "destroy"}

TypeInv == TypeOK /\ CallsOK /\ JoinOK

LEMMA ChoiceType ==
  ASSUME NEW t \in Tasks \cup {NoTask}, NEW p \in Priority, NEW index \in Threads,
         NEW i \in 1 .. ThreadsCount + 1, NEW counted \in 0 .. ThreadsCount, NEW count \in Nat
  PROVE  /\ Choice(t, p, index, i, counted, count) \in Call
         /\ Choice(t, p, index, i, counted, count).task = t
         /\ Choice(t, p, index, i, counted, count).priority = p
         /\ Choice(t, p, index, i, counted, count).index = index
         /\ Choice(t, p, index, i, counted, count).i = i
         /\ Choice(t, p, index, i, counted, count).counted = counted
  BY DEF Choice, Call

LEMMA NoCallType ==
  NoCall \in Call /\ NoCall.task = NoTask /\ NoCall.counted = 0
  BY PoolAssumption, ChoiceType DEF NoCall, Threads, Priority

LEMMA CallType ==
  ASSUME TypeInv, NEW c \in Clients
  PROVE  /\ calls[c] \in Call
         /\ calls[c].task \in Tasks \cup {NoTask} /\ calls[c].priority \in Priority
         /\ calls[c].index \in Threads /\ calls[c].i \in 1 .. ThreadsCount + 1
         /\ calls[c].counted \in 0 .. ThreadsCount
  BY DEF TypeInv, TypeOK, Call

LEMMA AtType ==
  ASSUME NEW op \in OwnerOps
  PROVE  /\ At(op) \in [op : OwnerOps, at : 1 .. ThreadsCount + 1, joining : BOOLEAN]
         /\ At(op).op = op /\ At(op).at = 1 /\ ~At(op).joining
  BY PoolAssumption DEF At

LEMMA InitTypeInv == Init => TypeInv
<1> SUFFICES ASSUME Init PROVE TypeInv
  OBVIOUS
<1>1. /\ owner \in [op : OwnerOps, at : 1 .. ThreadsCount + 1, joining : BOOLEAN]
      /\ ~owner.joining
  BY AtType DEF Init, OwnerOps
<1>2. calls \in [Clients -> Call] /\ \A c \in Clients : calls[c].counted = 0
  BY NoCallType DEF Init
<1>3. <<>> \in Seq(Tasks) /\ NoTask \in Tasks \cup {NoTask} /\ "none" \in RunLabels
  BY DEF RunLabels
<1>4. /\ mTasks \in [Threads -> Seq(Tasks)] /\ mRunning \in [Threads -> BOOLEAN]
      /\ run \in [Threads -> RunLabels] /\ task \in [Threads -> Tasks \cup {NoTask}]
  BY <1>3 DEF Init
<1>5. /\ stamp \in [Tasks -> Nat] /\ prio \in [Tasks -> Priority]
      /\ clock \in Nat \ {0} /\ finished \in [Tasks -> Nat]
  BY DEF Init, Priority
<1>6. terminated \in BOOLEAN
  BY DEF Init
<1>7. QED
  BY <1>1, <1>2, <1>4, <1>5, <1>6 DEF TypeInv, TypeOK, CallsOK, JoinOK

(* Enqueue keeps the types of what it changes.                             *)
LEMMA EnqueueType ==
  ASSUME TypeOK, NEW i \in Threads, NEW t \in Tasks, NEW p \in Priority, Enqueue(i, t, p)
  PROVE  /\ mTasks' \in [Threads -> Seq(Tasks)]
         /\ stamp' \in [Tasks -> Nat]
         /\ prio' \in [Tasks -> Priority]
         /\ clock' \in Nat \ {0}
         /\ finished' \in [Tasks -> Nat]
         /\ mTasks'[i] = InsertAt(mTasks[i], Position(p, Len(mTasks[i])), t)
         /\ \A j \in Threads \ {i} : mTasks'[j] = mTasks[j]
<1>1. mTasks[i] \in Seq(Tasks) /\ Len(mTasks[i]) \in Nat
  BY DEF TypeOK
<1>2. Position(p, Len(mTasks[i])) \in 1 .. Len(mTasks[i]) + 1
  BY <1>1, PositionInList
<1>3. InsertAt(mTasks[i], Position(p, Len(mTasks[i])), t) \in Seq(Tasks)
  BY <1>1, <1>2, InsertAtProperties
<1>4. mTasks' = [mTasks EXCEPT ![i] = InsertAt(mTasks[i], Position(p, Len(mTasks[i])), t)]
  BY DEF Enqueue, TaskCount
<1>5. stamp' \in [Tasks -> Nat] /\ prio' \in [Tasks -> Priority]
      /\ clock' \in Nat \ {0} /\ finished' \in [Tasks -> Nat]
  BY DEF Enqueue, TypeOK
<1>6. QED
  BY <1>3, <1>4, <1>5 DEF TypeOK

(* The steps of a client keep the types.                                   *)
LEMMA ClientTypeInv ==
  ASSUME TypeInv, NEW c \in Clients, ClientStep(c)
  PROVE  TypeInv'
<1> USE DEF TypeInv
<1>1. CASE AddTo(c)
  <2>1. PICK t \in Tasks, p \in Priority, i \in Threads : Enqueue(i, t, p)
    BY <1>1 DEF AddTo
  <2>2. TypeOK'
    BY <1>1, <2>1, EnqueueType DEF TypeOK, AddTo
  <2>3. QED
    BY <1>1, <2>2 DEF AddTo, CallsOK, JoinOK
<1>2. CASE ChooseBegin(c)
  <2>1. PICK t \in Tasks, p \in Priority :
          calls' = [calls EXCEPT ![c] = Choice(t, p, 1, 2, 0, 0)]
    BY <1>2 DEF ChooseBegin
  <2>2. Choice(t, p, 1, 2, 0, 0) \in Call /\ Choice(t, p, 1, 2, 0, 0).counted = 0
    BY PoolAssumption, ChoiceType DEF Threads
  <2>3. QED
    BY <1>2, <2>1, <2>2 DEF ChooseBegin, TypeInv, TypeOK, CallsOK, JoinOK, history
<1>3. CASE CountFirst(c)
  <2>1. calls[c].i \in Threads /\ calls[c].index \in Threads
    BY <1>3, CallType DEF CountFirst
  <2>2. PICK j \in Threads, n \in Nat :
          calls' = [calls EXCEPT ![c] =
            Choice(calls[c].task, calls[c].priority, calls[c].index, calls[c].i, j, n)]
    <3>1. PICK j \in {calls[c].index, calls[c].i} :
            calls' = [calls EXCEPT ![c] =
              Choice(calls[c].task, calls[c].priority, calls[c].index, calls[c].i, j, TaskCount(j))]
      BY <1>3 DEF CountFirst
    <3>2. j \in Threads
      BY <2>1
    <3>3. TaskCount(j) \in Nat
      BY <3>2 DEF TaskCount, TypeOK
    <3>4. QED
      BY <3>1, <3>2, <3>3
  <2> DEFINE call == Choice(calls[c].task, calls[c].priority, calls[c].index, calls[c].i, j, n)
  <2>3. j \in 0 .. ThreadsCount
    BY PoolAssumption DEF Threads
  <2>4. /\ calls[c].task \in Tasks \cup {NoTask} /\ calls[c].priority \in Priority
        /\ calls[c].i \in 1 .. ThreadsCount + 1
    BY CallType
  <2>5. call \in Call /\ call.i = calls[c].i
    BY <2>1, <2>3, <2>4 DEF Choice, Call
  <2> HIDE DEF call
  <2>6. QED
    BY <1>3, <2>1, <2>2, <2>5 DEF CountFirst, TypeInv, TypeOK, CallsOK, JoinOK, history, call
<1>4. CASE CountSecond(c)
  <2>1. PICK index \in {calls[c].index, calls[c].i} :
          calls' = [calls EXCEPT ![c] =
            Choice(calls[c].task, calls[c].priority, index, calls[c].i + 1, 0, 0)]
    BY <1>4 DEF CountSecond, Fewer
  <2> DEFINE call == Choice(calls[c].task, calls[c].priority, index, calls[c].i + 1, 0, 0)
  <2>2. calls[c].i \in Threads
    BY <1>4 DEF CountSecond, CallsOK
  <2>3. index \in Threads /\ calls[c].i + 1 \in 1 .. ThreadsCount + 1 /\ 0 \in 0 .. ThreadsCount
    BY <2>2, CallType, PoolAssumption DEF Threads
  <2>4. calls[c].task \in Tasks \cup {NoTask} /\ calls[c].priority \in Priority
    BY CallType
  <2>5. call \in Call /\ call.counted = 0
    BY <2>3, <2>4, ChoiceType
  <2> HIDE DEF call
  <2>6. QED
    BY <1>4, <2>1, <2>5 DEF CountSecond, TypeInv, TypeOK, CallsOK, JoinOK, history, call
<1>5. CASE AddChosen(c)
  <2>1. /\ calls[c].index \in Threads /\ calls[c].task \in Tasks /\ calls[c].priority \in Priority
        /\ Enqueue(calls[c].index, calls[c].task, calls[c].priority)
    BY <1>5, CallType DEF AddChosen, Choosing
  <2>2. calls' \in [Clients -> Call] /\ CallsOK'
    BY <1>5, NoCallType DEF AddChosen, TypeOK, CallsOK
  <2>3. TypeOK'
    BY <1>5, <2>1, <2>2, EnqueueType DEF TypeOK, AddChosen
  <2>4. QED
    BY <1>5, <2>2, <2>3 DEF AddChosen, JoinOK
<1>6. QED
  BY <1>1, <1>2, <1>3, <1>4, <1>5 DEF ClientStep

(* The steps of Thread::Run keep the types.                                *)
LEMMA RunTypeInv ==
  ASSUME TypeInv, NEW i \in Threads, RunStep(i)
  PROVE  TypeInv'
<1> USE DEF TypeInv, TypeOK, CallsOK, JoinOK, history
<1>1. CASE RunCheck(i)
  BY <1>1 DEF RunCheck, Goto, RunLabels
<1>2. CASE RunWait(i)
  BY <1>2 DEF RunWait, Goto, RunLabels
<1>3. CASE RunRetry(i)
  BY <1>3 DEF RunRetry, Goto, RunLabels
<1>4. CASE RunTake(i)
  <2>1. Head(mTasks[i]) \in Tasks /\ Tail(mTasks[i]) \in Seq(Tasks)
    BY <1>4, TailProperties DEF RunTake, HasWork, TaskCount
  <2>2. QED
    BY <1>4, <2>1 DEF RunTake, Goto, RunLabels
<1>5. CASE RunWork(i)
  BY <1>5 DEF RunWork, Goto, RunLabels
<1>6. CASE RunCallback(i)
  <2>1. finished' \in [Tasks -> Nat]
    <3>1. finished' = [finished EXCEPT ![task[i]] = finished[task[i]] + 1]
      BY <1>6 DEF RunCallback
    <3>2. CASE task[i] \in Tasks
      <4>1. finished[task[i]] + 1 \in Nat
        BY <3>2
      <4>2. QED
        BY <3>1, <3>2, <4>1
    <3>3. CASE task[i] \notin Tasks
      BY <3>1, <3>3
    <3>4. QED
      BY <3>2, <3>3
  <2>2. QED
    BY <1>6, <2>1 DEF RunCallback, Goto, RunLabels
<1>7. CASE RunThrow(i)
  BY <1>7 DEF RunThrow
<1>8. QED
  BY <1>1, <1>2, <1>3, <1>4, <1>5, <1>6, <1>7 DEF RunStep

(* The steps of the owner of the pool keep the types.                      *)
LEMMA OwnerTypeInv ==
  ASSUME TypeInv, OwnerStep
  PROVE  TypeInv'
<1> DEFINE OwnerSet == [op : OwnerOps, at : 1 .. ThreadsCount + 1, joining : BOOLEAN]
<1>1. /\ owner.op \in OwnerOps /\ owner.at \in 1 .. ThreadsCount + 1
      /\ owner = [op |-> owner.op, at |-> owner.at, joining |-> owner.joining]
      /\ 1 \in Threads /\ 1 \in 1 .. ThreadsCount + 1
      /\ \A n \in Threads : n + 1 \in 1 .. ThreadsCount + 1
  BY PoolAssumption DEF TypeInv, TypeOK, Threads
<1> DEFINE Kept == /\ mTasks' \in [Threads -> Seq(Tasks)] /\ mRunning' \in [Threads -> BOOLEAN]
                   /\ owner' \in OwnerSet /\ JoinOK'
                   /\ UNCHANGED <<task, calls, history>>
<1>2. Kept
  <2>1. ASSUME NEW op \in {"start", "stop", "destroy"}, OwnerCalls(op) PROVE Kept
    BY <2>1, AtType DEF OwnerCalls, TypeInv, TypeOK, OwnerOps, JoinOK
  <2>2. CASE StartThread
    <3>1. owner' \in OwnerSet /\ JoinOK'
      BY <1>1, <2>2 DEF StartThread, TypeInv, TypeOK, JoinOK
    <3>2. QED
      BY <2>2, <3>1 DEF StartThread, TypeInv, TypeOK
  <2>3. CASE StopThread
    BY <1>1, <2>3 DEF StopThread, TypeInv, TypeOK, JoinOK
  <2>4. CASE JoinThread
    <3>1. owner' = [op |-> owner.op, at |-> owner.at + 1, joining |-> FALSE]
      BY <1>1, <2>4 DEF JoinThread
    <3>2. owner.at \in Threads
      BY <2>4 DEF JoinThread, TypeInv, JoinOK
    <3>3. QED
      BY <1>1, <2>4, <3>1, <3>2 DEF JoinThread, TypeInv, TypeOK, JoinOK
  <2>5. CASE OwnerReturns
    BY <2>5, AtType DEF OwnerReturns, TypeInv, TypeOK, OwnerOps, JoinOK
  <2>6. CASE Destroyed
    BY <2>6, AtType DEF Destroyed, TypeInv, TypeOK, OwnerOps, JoinOK
  <2>7. QED
    BY <2>1, <2>2, <2>3, <2>4, <2>5, <2>6 DEF OwnerStep
<1>3. run' \in [Threads -> RunLabels] /\ terminated' \in BOOLEAN
  BY DEF OwnerStep, OwnerCalls, StartThread, StopThread, JoinThread, OwnerReturns, Destroyed,
         TypeInv, TypeOK, RunLabels
<1>4. QED
  BY <1>2, <1>3 DEF TypeInv, TypeOK, CallsOK, history

LEMMA NextTypeInv == TypeInv /\ [Next]_vars => TypeInv'
<1> SUFFICES ASSUME TypeInv, [Next]_vars PROVE TypeInv'
  OBVIOUS
<1>1. CASE UNCHANGED vars
  BY <1>1 DEF TypeInv, TypeOK, CallsOK, JoinOK, vars, codeVars, history
<1>2. CASE Next
  BY <1>1, <1>2, ClientTypeInv, RunTypeInv, OwnerTypeInv DEF Next, Over
<1>3. QED
  BY <1>1, <1>2

(* Every variable keeps its type, however many threads, clients and tasks  *)
(* there are: ChooseThread never looks past the last thread (the loop at   *)
(* ThreadPool.cpp:198), and Stop never joins past it.                      *)
THEOREM TypeCorrect == Spec => []TypeOK
<1>1. TypeInv => TypeOK
  BY DEF TypeInv
<1>2. QED
  BY <1>1, InitTypeInv, NextTypeInv, PTL DEF Spec

-----------------------------------------------------------------------------
(***************************************************************************)
(* The owner.  StartedOrQuiet speaks of the moments between two calls; the *)
(* invariant says how far the loop of Start or Stop has come, and that a   *)
(* thread on which Stop has given up mRunning is not started again before  *)
(* it is joined.                                                           *)
(***************************************************************************)

Quiet(i) == ~mRunning[i] /\ run[i] = "none" /\ task[i] = NoTask
Alive(i) == mRunning[i] /\ run[i] \notin {"none", "returned"}

HoldingOK == \A i \in Threads : Holding(i) <=> task[i] # NoTask

LoopOK ==
  /\ owner.op = "idle" => (\A i \in Threads : Alive(i)) \/ (\A i \in Threads : Quiet(i))
  /\ owner.op = "gone" => \A i \in Threads : Quiet(i)
  /\ owner.op \in {"construct", "start"} =>
       \/ \A i \in Threads : IF i < owner.at THEN Alive(i) ELSE Quiet(i)
       \/ owner.at = 1 /\ \A i \in Threads : Alive(i)
  /\ owner.op \in {"stop", "destroy"} =>
       \A i \in Threads : /\ i < owner.at => Quiet(i)
                          /\ i = owner.at /\ owner.joining => ~mRunning[i]

OwnerInv == TypeInv /\ HoldingOK /\ LoopOK

LEMMA InitOwnerInv == Init => OwnerInv
<1> SUFFICES ASSUME Init PROVE HoldingOK /\ LoopOK
  BY InitTypeInv DEF OwnerInv
<1>1. \A i \in Threads : Quiet(i)
  BY DEF Init, Quiet
<1>2. HoldingOK
  BY <1>1 DEF HoldingOK, Quiet, Holding
<1>3. owner.op \in {"idle", "construct"} /\ owner.at = 1
  BY AtType DEF Init, OwnerOps
<1>4. \A i \in Threads : ~(i < owner.at)
  BY <1>3, PoolAssumption DEF Threads
<1>5. QED
  BY <1>1, <1>2, <1>3, <1>4 DEF LoopOK

(* A step of Run keeps a thread that runs running, and a quiet one quiet.  *)
LEMMA RunOwnerInv ==
  ASSUME OwnerInv, NEW i \in Threads, RunStep(i)
  PROVE  HoldingOK' /\ LoopOK'
<1> USE DEF OwnerInv, TypeInv, TypeOK
<1>1. /\ UNCHANGED <<mRunning, owner>>
      /\ \A j \in Threads \ {i} : run'[j] = run[j] /\ task'[j] = task[j]
      /\ run[i] # "none"
      /\ run'[i] \notin {"none"} /\ (mRunning[i] => run'[i] # "returned" \/ run[i] = "returned")
  BY DEF RunStep, RunCheck, RunWait, RunRetry, RunTake, RunWork, RunCallback, RunThrow, Goto
<1>2. run'[i] \in {"work", "callback"} <=> task'[i] # NoTask
  <2>1. CASE RunTake(i)
    <3>1. Head(mTasks[i]) \in Tasks
      BY <2>1, TailProperties DEF RunTake, HasWork, TaskCount
    <3>2. QED
      BY <2>1, <3>1, PoolAssumption DEF RunTake, Goto
  <2>2. CASE RunCallback(i)
    BY <2>2 DEF RunCallback, Goto
  <2>3. CASE RunWork(i) \/ RunThrow(i)
    BY <2>3 DEF RunWork, RunThrow, Goto, HoldingOK, Holding
  <2>4. CASE RunCheck(i) \/ RunWait(i) \/ RunRetry(i)
    BY <2>4 DEF RunCheck, RunWait, RunRetry, Goto, HoldingOK, Holding
  <2>5. QED
    BY <2>1, <2>2, <2>3, <2>4 DEF RunStep
<1>3. HoldingOK'
  BY <1>1, <1>2 DEF HoldingOK, Holding
<1>4. \A j \in Threads : (Quiet(j) => Quiet(j)') /\ (Alive(j) => Alive(j)')
  BY <1>1 DEF Quiet, Alive
<1>5. LoopOK'
  BY <1>1, <1>4 DEF LoopOK
<1>6. QED
  BY <1>3, <1>5

LEMMA OwnerOwnerInv ==
  ASSUME OwnerInv, OwnerStep
  PROVE  HoldingOK' /\ LoopOK'
<1> USE DEF OwnerInv, TypeInv, TypeOK
<1>0. \A i \in Threads : i \in Int /\ i >= 1 /\ i < ThreadsCount + 1
  BY PoolAssumption DEF Threads
<1>1. ASSUME NEW op \in {"start", "stop", "destroy"}, OwnerCalls(op)
      PROVE  HoldingOK' /\ LoopOK'
  <2>1. owner'.op = op /\ owner'.at = 1 /\ ~owner'.joining
    BY <1>1, AtType DEF OwnerCalls, OwnerOps
  <2>2. UNCHANGED <<mRunning, run, task>> /\ owner.op = "idle"
    BY <1>1 DEF OwnerCalls
  <2>3. \A i \in Threads : ~(i < owner'.at)
    BY <1>0, <2>1
  <2>4. QED
    BY <2>1, <2>2, <2>3 DEF HoldingOK, Holding, LoopOK, Quiet, Alive
<1>2. CASE StartThread
  <2>1. CASE run[owner.at] = "none"
    <3>1. /\ owner.at \in Threads /\ owner.op \in {"construct", "start"}
          /\ owner'.op = owner.op /\ owner'.at = owner.at + 1
      BY <1>2, <2>1 DEF StartThread
    <3>2. /\ mRunning'[owner.at] /\ run'[owner.at] = "check" /\ UNCHANGED task
          /\ \A j \in Threads \ {owner.at} : mRunning'[j] = mRunning[j] /\ run'[j] = run[j]
      BY <1>2, <2>1, <3>1 DEF StartThread
    <3>3. \A j \in Threads : IF j < owner.at THEN Alive(j) ELSE Quiet(j)
      BY <1>0, <2>1, <3>1 DEF LoopOK, Alive
    <3>4. \A j \in Threads : IF j < owner'.at THEN Alive(j)' ELSE Quiet(j)'
      <4>1. \A j \in Threads : j < owner'.at <=> (j < owner.at \/ j = owner.at)
        BY <1>0, <3>1
      <4>2. \A j \in Threads : j = owner.at => Alive(j)'
        BY <3>2 DEF Alive
      <4>3. \A j \in Threads : j # owner.at => (Alive(j)' <=> Alive(j)) /\ (Quiet(j)' <=> Quiet(j))
        BY <3>2 DEF Alive, Quiet
      <4>4. \A j \in Threads : j < owner.at => j # owner.at
        BY <1>0
      <4>5. QED
        BY <3>3, <4>1, <4>2, <4>3, <4>4
    <3>5. LoopOK'
      BY <3>1, <3>4 DEF LoopOK
    <3>6. HoldingOK'
      BY <2>1, <3>2 DEF HoldingOK, Holding
    <3>7. QED
      BY <3>5, <3>6
  <2>2. CASE run[owner.at] # "none"
    <3>1. /\ owner.at \in Threads /\ owner.op \in {"construct", "start"}
          /\ UNCHANGED <<owner, run, task>>
          /\ mRunning' = [mRunning EXCEPT ![owner.at] = TRUE]
      BY <1>2, <2>2 DEF StartThread
    <3>2. owner.at = 1 /\ \A j \in Threads : Alive(j)
      BY <1>0, <2>2, <3>1 DEF LoopOK, Quiet
    <3>3. \A j \in Threads : Alive(j)'
      BY <3>1, <3>2 DEF Alive
    <3>4. QED
      BY <3>1, <3>2, <3>3 DEF HoldingOK, Holding, LoopOK
  <2>3. QED
    BY <2>1, <2>2
<1>3. CASE StopThread
  <2>1. /\ owner.at \in Threads /\ owner.op \in {"stop", "destroy"}
        /\ owner'.op = owner.op /\ owner'.at = owner.at /\ UNCHANGED <<run, task>>
        /\ ~mRunning'[owner.at]
        /\ \A j \in Threads \ {owner.at} : mRunning'[j] = mRunning[j]
    BY <1>3 DEF StopThread
  <2>2. \A j \in Threads : /\ j < owner'.at => Quiet(j)'
                           /\ j = owner'.at => ~mRunning'[j]
    BY <1>0, <2>1 DEF LoopOK, Quiet
  <2>3. QED
    BY <2>1, <2>2 DEF HoldingOK, Holding, LoopOK
<1>4. CASE JoinThread
  <2>1. /\ owner.at \in Threads /\ owner.op \in {"stop", "destroy"} /\ owner.joining
        /\ owner'.op = owner.op /\ owner'.at = owner.at + 1 /\ ~owner'.joining
    BY <1>4 DEF JoinThread, JoinOK
  <2>2. /\ UNCHANGED <<mRunning, task>> /\ run[owner.at] \in {"none", "returned"}
        /\ run'[owner.at] = "none"
        /\ \A j \in Threads \ {owner.at} : run'[j] = run[j]
    BY <1>4, <2>1 DEF JoinThread
  <2>3. HoldingOK'
    BY <2>1, <2>2 DEF HoldingOK, Holding
  <2>4. \A j \in Threads : j = owner.at => Quiet(j)'
    BY <2>1, <2>2 DEF LoopOK, Quiet, HoldingOK, Holding
  <2>5. \A j \in Threads : j < owner.at => Quiet(j)'
    BY <1>0, <2>1, <2>2 DEF LoopOK, Quiet
  <2>6. \A j \in Threads : j < owner'.at => Quiet(j)'
    <3>1. \A j \in Threads : j < owner'.at => j < owner.at \/ j = owner.at
      BY <1>0, <2>1
    <3>2. QED
      BY <2>4, <2>5, <3>1
  <2>7. QED
    BY <2>1, <2>3, <2>6 DEF LoopOK
<1>5. CASE OwnerReturns
  <2>1. owner'.op = "idle" /\ UNCHANGED <<mRunning, run, task>>
    BY <1>5, AtType DEF OwnerReturns, OwnerOps
  <2>2. owner.at = ThreadsCount + 1 /\ owner.op \in {"construct", "start", "stop"}
    BY <1>5 DEF OwnerReturns
  <2>3. (\A i \in Threads : Alive(i)) \/ (\A i \in Threads : Quiet(i))
    BY <1>0, <2>2 DEF LoopOK
  <2>4. QED
    BY <2>1, <2>3 DEF HoldingOK, Holding, LoopOK, Alive, Quiet
<1>6. CASE Destroyed
  <2>1. owner'.op = "gone" /\ UNCHANGED <<run, task>> /\ \A i \in Threads : ~mRunning'[i]
    BY <1>6, AtType DEF Destroyed, OwnerOps
  <2>2. \A i \in Threads : Quiet(i)
    BY <1>0, <1>6 DEF Destroyed, LoopOK
  <2>3. QED
    BY <2>1, <2>2 DEF HoldingOK, Holding, LoopOK, Quiet
<1>7. QED
  BY <1>1, <1>2, <1>3, <1>4, <1>5, <1>6 DEF OwnerStep

LEMMA NextOwnerInv == OwnerInv /\ [Next]_vars => OwnerInv'
<1> SUFFICES ASSUME OwnerInv, [Next]_vars PROVE HoldingOK' /\ LoopOK'
  BY NextTypeInv DEF OwnerInv
<1>1. CASE UNCHANGED vars
  BY <1>1 DEF vars, codeVars, OwnerInv, HoldingOK, Holding, LoopOK, Quiet, Alive
<1>2. ASSUME NEW c \in Clients, ClientStep(c) PROVE HoldingOK' /\ LoopOK'
  <2>1. UNCHANGED <<mRunning, run, task, owner>>
    BY <1>2 DEF ClientStep, AddTo, ChooseBegin, CountFirst, CountSecond, AddChosen
  <2>2. QED
    BY <2>1 DEF OwnerInv, HoldingOK, Holding, LoopOK, Quiet, Alive
<1>3. QED
  BY <1>1, <1>2, RunOwnerInv, OwnerOwnerInv DEF Next, Over

(* Between two calls of Start, Stop or the destructor either every thread  *)
(* of the pool is in Run or none is, and after Stop and the destructor no  *)
(* task is being performed, for any number of threads, clients and tasks.  *)
THEOREM StartedOrQuietHolds == Spec => []StartedOrQuiet
<1>1. OwnerInv => StartedOrQuiet
  BY DEF OwnerInv, LoopOK, StartedOrQuiet, Alive, Quiet
<1>2. QED
  BY <1>1, InitOwnerInv, NextOwnerInv, PTL DEF Spec

=============================================================================
