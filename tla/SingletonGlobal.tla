---------------------------- MODULE SingletonGlobal ----------------------------
(***************************************************************************)
(* SingletonGlobalLazy<Type, true> of src/SingletonGlobal.cpp: one object  *)
(* of Type in a named file mapping that several processes attach to, with  *)
(* a reference count in front of it, all under a named mutex.  The threads *)
(* of a process share its static members.  The instances with global false *)
(* are the systems with one process: the names hold the process id.        *)
(*                                                                         *)
(* The mutexes and the mapping are the kernel's, modelled from how the     *)
(* code uses them: a named object exists while a process has a handle to   *)
(* it, a mutex belongs to the thread that acquired it, as often as it      *)
(* acquired it, and is abandoned when that thread ends.                    *)
(*                                                                         *)
(* The reads and writes of the plain members mMutex and mLocked are steps  *)
(* of their own, because threads of one process race on them.  What runs   *)
(* inside the mutex is cut where another process could notice a crash.     *)
(*                                                                         *)
(* An operator whose comment begins with "Mutated" is no part of the       *)
(* model: it is the definition after it with a plausible bug.              *)
(***************************************************************************)
EXTENDS Integers, FiniteSets

CONSTANTS Processes,
          Threads,
          ProcessOf,     (* the process of each thread                     *)
          Faults,        (* what may go wrong: "crash", "ctor", "hook",    *)
                         (* "mapping", "mutex"                             *)
          MaxCount,      (* the largest RefCountType, 2^15 - 1 in the code *)
          MaxStarts,     (* bound: how often a process is started          *)
          MaxHandles,    (* bound: handles a process has to one mutex      *)
          NoThread       (* no thread                                      *)

ASSUME SingletonAssumption ==
  /\ IsFiniteSet(Threads)
  /\ ProcessOf \in [Threads -> Processes]
  /\ Faults \subseteq {"crash", "ctor", "hook", "mapping", "mutex"}
  /\ MaxCount \in Nat \ {0}
  /\ MaxStarts \in Nat \ {0}
  /\ MaxHandles \in Nat \ {0}
  /\ NoThread \notin Threads

VARIABLES mutex,         (* kernel: the mutex objects                      *)
          handles,       (* kernel: the handles of each process to each    *)
          named,         (* kernel: the mutex that has the name, 0: none   *)
          memory,        (* kernel: what the file mapping holds            *)
          mMutex,        (* SharedMutex::mMutex of each process, 0: null   *)
          mLocked,       (* SharedMutex::mLocked                           *)
          mHandle,       (* SharedMemory::mHandle is not null              *)
          mMemory,       (* SharedMemory::mMemory is not null              *)
          mPtr,          (* ContainerLazyPtrRaw::mPtr is not null          *)
          mCallbackUninitialize,   (* ... is DeleteInstance                *)
          at,            (* where each thread is                           *)
          op,            (* the call it is in                              *)
          waitsOn,       (* the mutex it passed to WaitForSingleObject     *)
          starts,        (* how often each process was started             *)
          threw          (* history: which exceptions were thrown that     *)
                         (* leave a process out of step with the others:   *)
                         (* "hook" by OnPerInstanceUninitialize, "mutex"   *)
                         (* by Create when it has overwritten mMutex       *)

kernel  == <<mutex, handles, named, memory>>
statics == <<mMutex, mLocked, mHandle, mMemory, mPtr, mCallbackUninitialize>>
vars    == <<kernel, statics, at, op, waitsOn, starts, threw>>

(* The last handle to a mutex may be closed while a thread still waits for *)
(* it, so there may be one more than there are threads.                    *)
Mutexes == 1 .. Cardinality(Threads) + 1

Labels == {"ended", "idle", "create", "open", "lock", "enter", "wait", "granted",
           "abandoned", "entered", "section", "count", "build", "hook", "last",
           "unlock", "released", "notReleased", "exiting"}

TypeOK ==
  /\ mutex \in [Mutexes -> [owner : Threads \cup {NoThread}, depth : Nat, abandoned : BOOLEAN]]
  /\ handles \in [Mutexes -> [Processes -> 0 .. MaxHandles]]
  /\ named \in {0} \cup Mutexes
  /\ memory \in [count : -MaxCount - 1 .. MaxCount, object : {"raw", "built", "destroyed"}]
  /\ mMutex \in [Processes -> {0} \cup Mutexes]
  /\ \A flag \in {mLocked, mHandle, mMemory, mPtr, mCallbackUninitialize} :
       flag \in [Processes -> BOOLEAN]
  /\ at \in [Threads -> Labels]
  /\ op \in [Threads -> {"none", "get", "delete", "exit"}]
  /\ waitsOn \in [Threads -> {0} \cup Mutexes]
  /\ starts \in [Processes -> 1 .. MaxStarts]
  /\ threw \subseteq {"hook", "mutex"}

Free       == [owner |-> NoThread, depth |-> 0, abandoned |-> FALSE]
NewMapping == [count |-> 0, object |-> "raw"]

Init ==
  /\ mutex = [m \in Mutexes |-> Free]
  /\ handles = [m \in Mutexes |-> [p \in Processes |-> 0]]
  /\ named = 0
  /\ memory = NewMapping
  /\ mMutex = [p \in Processes |-> 0]
  /\ mLocked = [p \in Processes |-> FALSE]
  /\ mHandle = [p \in Processes |-> FALSE]
  /\ mMemory = [p \in Processes |-> FALSE]
  /\ mPtr = [p \in Processes |-> FALSE]
  /\ mCallbackUninitialize = [p \in Processes |-> FALSE]
  /\ at = [t \in Threads |-> "idle"]
  /\ op = [t \in Threads |-> "none"]
  /\ waitsOn = [t \in Threads |-> 0]
  /\ starts = [p \in Processes |-> 1]
  /\ threw = {}

ThreadsOf(p) == {t \in Threads : ProcessOf[t] = p}
Alive(p)     == \E t \in ThreadsOf(p) : at[t] # "ended"
Exiting(p)   == \E t \in ThreadsOf(p) : op[t] = "exit"

Goto(t, from, to) ==
  /\ at[t] = from
  /\ at' = [at EXCEPT ![t] = to]

(* The call of t is over: it returned or it threw.  An exception that      *)
(* leaves a destructor ends the process, as the end of exit does.          *)
Leave(t, from) ==
  /\ at[t] = from
  /\ at' = [at EXCEPT ![t] = IF op[t] = "exit" THEN "exiting" ELSE "idle"]
  /\ op' = [op EXCEPT ![t] = IF @ = "exit" THEN @ ELSE "none"]

-----------------------------------------------------------------------------
(***************************************************************************)
(* The mutexes of the kernel.                                              *)
(***************************************************************************)

(* A mutex that nobody has a handle to has lost its name, and is gone when *)
(* nobody waits for it either.                                             *)
Settle(mutexes, newHandles, newWaitsOn) ==
  LET Open(m) == \E p \in Processes : newHandles[m][p] > 0
      Used(m) == Open(m) \/ \E t \in Threads : newWaitsOn[t] = m
  IN /\ handles' = newHandles
     /\ waitsOn' = newWaitsOn
     /\ mutex' = [m \in Mutexes |-> IF Used(m) THEN mutexes[m] ELSE Free]
     /\ named' = IF named # 0 /\ Open(named) THEN named ELSE 0

(* The mutexes after the given threads have ended.                         *)
Abandon(ended) ==
  [m \in Mutexes |-> IF mutex[m].owner \in ended
                       THEN [Free EXCEPT !.abandoned = TRUE] ELSE mutex[m]]

(* A mutex is as often to be released as it was acquired.                  *)
Released(state) == IF state.depth = 1 THEN Free ELSE [state EXCEPT !.depth = @ - 1]

(* CreateMutexA finds the mutex with the name, or makes one.               *)
OpenMutex(p, m) ==
  /\ IF named # 0 THEN m = named
     ELSE /\ mutex[m] = Free
          /\ \A t \in Threads : waitsOn[t] # m
          /\ \A n \in 1 .. m - 1 : \E t \in Threads : waitsOn[t] = n
  /\ handles' = [handles EXCEPT ![m][p] = @ + 1]
  /\ named' = m
  /\ UNCHANGED <<mutex, waitsOn>>

-----------------------------------------------------------------------------
(***************************************************************************)
(* The calls of a thread.                                                  *)
(***************************************************************************)

Call(t, name, to) ==
  /\ ~Exiting(ProcessOf[t])
  /\ Goto(t, "idle", to)
  /\ op' = [op EXCEPT ![t] = name]
  /\ UNCHANGED <<kernel, statics, waitsOn, starts, threw>>

(* The bound: threads that race in SharedMutex::Create leak a handle each  *)
(* time, so a process with MaxHandles of them gets no further.             *)
GetInstance(t) ==
  LET p       == ProcessOf[t]
      opening == {u \in ThreadsOf(p) : at[u] \in {"create", "open"}}
  IN
  /\ \A m \in Mutexes : handles[m][p] + Cardinality(opening) < MaxHandles
  /\ Call(t, "get", "create")

DeleteInstance(t) == Call(t, "delete", "lock")

(* The process ends in order: ~ContainerLazyPtrRaw calls DeleteInstance,   *)
(* if it is still to be called, before the other two members go.           *)
Exit(t) == Call(t, "exit", IF mCallbackUninitialize[ProcessOf[t]] THEN "lock" ELSE "exiting")

(* SharedMutex::Create *)
CreateMutex(t) ==
  /\ Goto(t, "create", IF mMutex[ProcessOf[t]] # 0 THEN "lock" ELSE "open")
  /\ UNCHANGED <<kernel, statics, op, waitsOn, starts, threw>>

CreateMutexOpens(t) ==
  LET p == ProcessOf[t] IN
  /\ Goto(t, "open", "lock")
  /\ \E m \in Mutexes : OpenMutex(p, m) /\ mMutex' = [mMutex EXCEPT ![p] = m]
  /\ UNCHANGED <<memory, mLocked, mHandle, mMemory, mPtr, mCallbackUninitialize, op, starts, threw>>

(* CreateMutexA fails, and the null is stored in mMutex, where another     *)
(* thread may have stored its handle since this one found none there.      *)
(* Create throws, unless another one has by the time mMutex is looked at.  *)
CreateMutexFails(t) ==
  LET p == ProcessOf[t] IN
  /\ "mutex" \in Faults
  /\ \/ Leave(t, "open")
     \/ Goto(t, "open", "lock") /\ UNCHANGED op
  /\ mMutex' = [mMutex EXCEPT ![p] = 0]
  /\ threw' = IF mMutex[p] # 0 THEN threw \cup {"mutex"} ELSE threw
  /\ UNCHANGED <<kernel, mLocked, mHandle, mMemory, mPtr, mCallbackUninitialize, waitsOn, starts>>

(* SharedMutex::lock: no mutex, or locked already.                         *)
LockThrows(t) ==
  /\ mMutex[ProcessOf[t]] = 0 \/ mLocked[ProcessOf[t]]
  /\ Leave(t, "lock")
  /\ UNCHANGED <<kernel, statics, waitsOn, starts, threw>>

LockChecked(t) ==
  /\ mMutex[ProcessOf[t]] # 0 /\ ~mLocked[ProcessOf[t]]
  /\ Goto(t, "lock", "enter")
  /\ UNCHANGED <<kernel, statics, op, waitsOn, starts, threw>>

(* Mutated: the wait has a timeout, and its result is not looked at.       *)
LockWaitsNot(t) ==
  /\ Goto(t, "enter", "granted")
  /\ UNCHANGED <<kernel, statics, op, waitsOn, starts, threw>>

(* WaitForSingleObject is called with mMutex, which another thread of the  *)
(* process may have reset: then it fails at once.                          *)
LockWaits(t) ==
  LET p == ProcessOf[t] IN
  /\ Goto(t, "enter", IF mMutex[p] # 0 THEN "wait" ELSE "abandoned")
  /\ waitsOn' = [waitsOn EXCEPT ![t] = mMutex[p]]
  /\ UNCHANGED <<kernel, statics, op, starts, threw>>

(* The mutex is free or this thread's own.                                 *)
MutexGranted(t) ==
  LET m == waitsOn[t] IN
  /\ at[t] = "wait"
  /\ mutex[m].owner \in {NoThread, t}
  /\ at' = [at EXCEPT ![t] = IF mutex[m].abandoned THEN "abandoned" ELSE "granted"]
  /\ Settle([mutex EXCEPT ![m] = [owner |-> t, depth |-> @.depth + 1, abandoned |-> FALSE]],
            handles, [waitsOn EXCEPT ![t] = 0])
  /\ UNCHANGED <<memory, statics, op, starts, threw>>

(* mLocked is set to whether the mutex was granted and not abandoned.      *)
LockStores(t) ==
  /\ at[t] \in {"granted", "abandoned"}
  /\ mLocked' = [mLocked EXCEPT ![ProcessOf[t]] = (at[t] = "granted")]
  /\ at' = [at EXCEPT ![t] = "entered"]
  /\ UNCHANGED <<kernel, mMutex, mHandle, mMemory, mPtr, mCallbackUninitialize, op, waitsOn, starts, threw>>

(* It is read again to decide whether lock throws.                         *)
LockFails(t) ==
  /\ ~mLocked[ProcessOf[t]]
  /\ Leave(t, "entered")
  /\ UNCHANGED <<kernel, statics, waitsOn, starts, threw>>

LockReturns(t) ==
  /\ mLocked[ProcessOf[t]]
  /\ Goto(t, "entered", "section")
  /\ UNCHANGED <<kernel, statics, op, waitsOn, starts, threw>>

-----------------------------------------------------------------------------
(***************************************************************************)
(* Inside the mutex.                                                       *)
(***************************************************************************)

(* GetInstance of a process that has the instance, DeleteInstance of one   *)
(* that has not.                                                           *)
NothingToDo(t) ==
  /\ op[t] = "get" <=> mPtr[ProcessOf[t]]
  /\ Goto(t, "section", "unlock")
  /\ UNCHANGED <<kernel, statics, op, waitsOn, starts, threw>>

(* Mutated: CreateInstance does not look whether there is an instance.     *)
CreateMemoryAgain(t) ==
  LET p == ProcessOf[t] IN
  /\ op[t] = "get"
  /\ Goto(t, "section", "count")
  /\ mHandle' = [mHandle EXCEPT ![p] = TRUE]
  /\ mMemory' = [mMemory EXCEPT ![p] = TRUE]
  /\ UNCHANGED <<kernel, mMutex, mLocked, mPtr, mCallbackUninitialize, op, waitsOn, starts, threw>>

(* Initialize: SharedMemory::Create.  A handle without a view is kept when *)
(* MapViewOfFile fails.                                                    *)
CreateMemory(t) ==
  LET p == ProcessOf[t] IN
  /\ op[t] = "get" /\ ~mPtr[p]
  /\ \/ /\ mHandle[p]
        /\ Goto(t, "section", "count")
        /\ UNCHANGED <<mHandle, mMemory>>
     \/ /\ ~mHandle[p]
        /\ Goto(t, "section", "count")
        /\ mHandle' = [mHandle EXCEPT ![p] = TRUE]
        /\ mMemory' = [mMemory EXCEPT ![p] = TRUE]
     \/ /\ "mapping" \in Faults /\ ~mHandle[p]
        /\ Goto(t, "section", "unlock")
        /\ \E opened \in BOOLEAN : mHandle' = [mHandle EXCEPT ![p] = opened]
        /\ UNCHANGED mMemory
  /\ UNCHANGED <<kernel, mMutex, mLocked, mPtr, mCallbackUninitialize, op, waitsOn, starts, threw>>

(* The arithmetic of RefCountType, which has 2 * MaxCount + 2 values.      *)
Wrap(n) == IF n > MaxCount THEN n - (2 * MaxCount + 2)
           ELSE IF n < -MaxCount - 1 THEN n + (2 * MaxCount + 2) ELSE n

(* Mutated: only the process that constructs the object is counted.        *)
CountedUpOnce(count) == IF count # 0 THEN count ELSE 1

CountedUp(count) == Wrap(count + 1)

(* GetCount()++, and what follows when the object was created before.      *)
CountUp(t) ==
  LET p == ProcessOf[t] IN
  /\ mMemory[p]
  /\ memory' = [memory EXCEPT !.count = CountedUp(@)]
  /\ IF memory.count # 0
       THEN /\ Goto(t, "count", "unlock")
            /\ mPtr' = [mPtr EXCEPT ![p] = TRUE]
            /\ mCallbackUninitialize' = [mCallbackUninitialize EXCEPT ![p] = TRUE]
       ELSE /\ Goto(t, "count", "build")
            /\ UNCHANGED <<mPtr, mCallbackUninitialize>>
  /\ UNCHANGED <<mutex, handles, named, mMutex, mLocked, mHandle, mMemory, op, waitsOn, starts, threw>>

(* The object is constructed in the mapping, unless Type() throws.         *)
Build(t) ==
  LET p == ProcessOf[t] IN
  /\ \/ /\ Goto(t, "build", "hook")
        /\ memory' = [memory EXCEPT !.object = "built"]
        /\ mPtr' = [mPtr EXCEPT ![p] = TRUE]
     \/ /\ "ctor" \in Faults
        /\ Goto(t, "build", "unlock")
        /\ UNCHANGED <<memory, mPtr>>
  /\ UNCHANGED <<mutex, handles, named, mMutex, mLocked, mHandle, mMemory,
                 mCallbackUninitialize, op, waitsOn, starts, threw>>

(* OnInitialize, and SetUninitialize unless it throws.                     *)
Initialized(t) ==
  LET p == ProcessOf[t] IN
  /\ Goto(t, "hook", "unlock")
  /\ \/ mCallbackUninitialize' = [mCallbackUninitialize EXCEPT ![p] = TRUE]
     \/ "hook" \in Faults /\ UNCHANGED mCallbackUninitialize
  /\ UNCHANGED <<kernel, mMutex, mLocked, mHandle, mMemory, mPtr, op, waitsOn, starts, threw>>

(* Mutated: one instance too early.                                        *)
IsLastButOne(count) == count \in {0, 1}

IsLast(count) == count = 0

(* Uninitialize: the count goes down.  A negative count throws; when other *)
(* processes are left, OnPerInstanceUninitialize is called and the pointer *)
(* reset, unless it throws.                                                *)
CountDown(t) ==
  LET p     == ProcessOf[t]
      count == Wrap(memory.count - 1)
  IN
  /\ op[t] # "get" /\ mPtr[p] /\ mMemory[p]
  /\ Goto(t, "section", IF IsLast(count) THEN "last" ELSE "unlock")
  /\ memory' = [memory EXCEPT !.count = count]
  /\ mCallbackUninitialize' =
       [mCallbackUninitialize EXCEPT ![p] = IF count < 0 THEN @ ELSE FALSE]
  /\ \/ count > 0 /\ mPtr' = [mPtr EXCEPT ![p] = FALSE] /\ UNCHANGED threw
     \/ count <= 0 /\ UNCHANGED <<mPtr, threw>>
     \/ count > 0 /\ "hook" \in Faults /\ threw' = threw \cup {"hook"} /\ UNCHANGED mPtr
  /\ UNCHANGED <<mutex, handles, named, mMutex, mLocked, mHandle, mMemory, op, waitsOn, starts>>

(* Mutated: the destructor is not called.                                  *)
UnmappedLast(p) == IF \E q \in Processes \ {p} : mHandle[q] THEN memory ELSE NewMapping

(* What the last DeleteInstance makes of the mapping.                      *)
DestroyedLast(p) ==
  IF \E q \in Processes \ {p} : mHandle[q]
    THEN [memory EXCEPT !.object = "destroyed"] ELSE NewMapping

(* Mutated: the handle is closed twice.                                    *)
ClosedTwice(m, p) == [handles EXCEPT ![m][p] = @ - 2]

Closed(m, p) == [handles EXCEPT ![m][p] = @ - 1]

(* The last instance: the object is destroyed, the view and the handles of *)
(* this process to the mapping and to the mutex are closed.                *)
DestroyLast(t) ==
  LET p == ProcessOf[t]
      m == mMutex[p]
  IN
  /\ Goto(t, "last", "unlock")
  /\ memory' = DestroyedLast(p)
  /\ mPtr' = [mPtr EXCEPT ![p] = FALSE]
  /\ mMemory' = [mMemory EXCEPT ![p] = FALSE]
  /\ mHandle' = [mHandle EXCEPT ![p] = FALSE]
  /\ mMutex' = [mMutex EXCEPT ![p] = 0]
  /\ IF m = 0 THEN UNCHANGED <<mutex, handles, named, waitsOn>>
     ELSE Settle(mutex, Closed(m, p), waitsOn)
  /\ UNCHANGED <<mLocked, mCallbackUninitialize, op, starts, threw>>

(* SharedMutex::unlock without a mutex does nothing.                       *)
UnlockReturns(t) ==
  /\ mMutex[ProcessOf[t]] = 0
  /\ Leave(t, "unlock")
  /\ UNCHANGED <<kernel, statics, waitsOn, starts, threw>>

(* Mutated: ReleaseMutex is not called.                                    *)
UnlockForgets(t) ==
  /\ mMutex[ProcessOf[t]] # 0
  /\ Goto(t, "unlock", "released")
  /\ UNCHANGED <<kernel, statics, op, waitsOn, starts, threw>>

(* ReleaseMutex fails for a thread that does not own the mutex.  A build   *)
(* without assertions goes on when mLocked is false.                       *)
Unlock(t) ==
  LET p    == ProcessOf[t]
      m    == mMutex[p]
      owns == mutex[m].owner = t
  IN
  /\ m # 0
  /\ Goto(t, "unlock", IF owns THEN "released" ELSE "notReleased")
  /\ mutex' = IF owns THEN [mutex EXCEPT ![m] = Released(@)] ELSE mutex
  /\ UNCHANGED <<handles, named, memory, statics, op, waitsOn, starts, threw>>

(* mLocked is set to whether that failed.                                  *)
UnlockStores(t) ==
  /\ at[t] \in {"released", "notReleased"}
  /\ Leave(t, at[t])
  /\ mLocked' = [mLocked EXCEPT ![ProcessOf[t]] = (at[t] = "notReleased")]
  /\ UNCHANGED <<kernel, mMutex, mHandle, mMemory, mPtr, mCallbackUninitialize, waitsOn, starts, threw>>

-----------------------------------------------------------------------------
(***************************************************************************)
(* Threads and processes end and start.                                    *)
(***************************************************************************)

(* assert(mLocked) in unlock ends the process in a build with assertions,  *)
(* assert(mMemory) in GetMemory, or the null pointer behind it, in any.    *)
UnlockAssertFails(t) == at[t] = "unlock" /\ mMutex[ProcessOf[t]] # 0 /\ ~mLocked[ProcessOf[t]]

MemoryAssertFails(t) ==
  /\ ~mMemory[ProcessOf[t]]
  /\ \/ at[t] = "count"
     \/ at[t] = "section" /\ op[t] # "get" /\ mPtr[ProcessOf[t]]

(* All that a process leaves behind is what other processes have handles   *)
(* to; its members are new when it is started again.                       *)
ProcessEnds(p) ==
  LET ended == ThreadsOf(p) IN
  /\ at' = [t \in Threads |-> IF t \in ended THEN "ended" ELSE at[t]]
  /\ op' = [t \in Threads |-> IF t \in ended THEN "none" ELSE op[t]]
  /\ Settle(Abandon(ended), [m \in Mutexes |-> [handles[m] EXCEPT ![p] = 0]],
            [t \in Threads |-> IF t \in ended THEN 0 ELSE waitsOn[t]])
  /\ memory' = IF \E q \in Processes \ {p} : mHandle[q] THEN memory ELSE NewMapping
  /\ mMutex' = [mMutex EXCEPT ![p] = 0]
  /\ mLocked' = [mLocked EXCEPT ![p] = FALSE]
  /\ mHandle' = [mHandle EXCEPT ![p] = FALSE]
  /\ mMemory' = [mMemory EXCEPT ![p] = FALSE]
  /\ mPtr' = [mPtr EXCEPT ![p] = FALSE]
  /\ mCallbackUninitialize' = [mCallbackUninitialize EXCEPT ![p] = FALSE]
  /\ UNCHANGED <<starts, threw>>

Ends(p) ==
  /\ \E t \in ThreadsOf(p) :
       \/ at[t] = "exiting"
       \/ UnlockAssertFails(t)
       \/ MemoryAssertFails(t)
  /\ ProcessEnds(p)

Crash(p) == "crash" \in Faults /\ Alive(p) /\ ProcessEnds(p)

(* A thread other than the last one of its process returns.                *)
ThreadEnds(t) ==
  /\ \E u \in ThreadsOf(ProcessOf[t]) \ {t} : at[u] # "ended"
  /\ Goto(t, "idle", "ended")
  /\ Settle(Abandon({t}), handles, waitsOn)
  /\ UNCHANGED <<memory, statics, op, starts, threw>>

Start(p) ==
  /\ ~Alive(p)
  /\ starts[p] < MaxStarts
  /\ starts' = [starts EXCEPT ![p] = @ + 1]
  /\ at' = [t \in Threads |-> IF ProcessOf[t] = p THEN "idle" ELSE at[t]]
  /\ UNCHANGED <<kernel, statics, op, waitsOn, threw>>

(* Every process has ended for good.                                       *)
Over ==
  /\ \A p \in Processes : ~Alive(p) /\ starts[p] = MaxStarts
  /\ UNCHANGED vars

-----------------------------------------------------------------------------

Works(t) ==
  \/ CreateMutex(t) \/ CreateMutexOpens(t) \/ CreateMutexFails(t)
  \/ LockThrows(t) \/ LockChecked(t) \/ LockWaits(t) \/ MutexGranted(t)
  \/ LockStores(t) \/ LockFails(t) \/ LockReturns(t)
  \/ NothingToDo(t) \/ CreateMemory(t) \/ CountUp(t) \/ Build(t) \/ Initialized(t)
  \/ CountDown(t) \/ DestroyLast(t)
  \/ UnlockReturns(t) \/ Unlock(t) \/ UnlockStores(t)

Next ==
  \/ \E t \in Threads : GetInstance(t) \/ DeleteInstance(t) \/ Exit(t) \/ Works(t) \/ ThreadEnds(t)
  \/ \E p \in Processes : Ends(p) \/ Crash(p) \/ Start(p)
  \/ Over

Spec == Init /\ [][Next]_vars

-----------------------------------------------------------------------------
(***************************************************************************)
(* Safety.                                                                 *)
(***************************************************************************)

Users      == {p \in Processes : mPtr[p]}
Inside(t)  == at[t] \in {"section", "count", "build", "hook", "last"}
ThreadsAt(label) == {t \in Threads : at[t] = label}

(* No handle in mMutex was overwritten by the null of a CreateMutexA that  *)
(* failed in another thread of the process.                                *)
Intact == "mutex" \notin threw

(* Two threads are never inside the mutex together, of one process or of   *)
(* two, whatever crashes, ends or loses a race on mLocked: who is inside   *)
(* owns the mutex with the name, and mMutex is its process's handle to it. *)
(* All this ends when a handle is overwritten with null: lock passes the   *)
(* null to WaitForSingleObject, and another thread may set mLocked before  *)
(* lock reads it to see that this has failed.                              *)
MutualExclusion ==
  Intact =>
    /\ \A t, u \in Threads : t # u => ~(Inside(t) /\ Inside(u))
    /\ \A t \in Threads : Inside(t) =>
         mMutex[ProcessOf[t]] = named /\ named # 0 /\ mutex[named].owner = t

(* The count in the mapping is the number of processes that have the       *)
(* instance, except for one that is about to construct or destroy it.      *)
CountIsUsers ==
  memory.count = Cardinality(Users) + Cardinality(ThreadsAt("build"))
                                    - Cardinality(ThreadsAt("last"))

(* Whatever crashes, throws or fails, the count is never too small, until  *)
(* OnPerInstanceUninitialize throws: that leaves a process with the        *)
(* instance and not counted, and its next DeleteInstance counts it again;  *)
(* or until two threads may be inside the mutex, and count together.       *)
CountCoversUsers ==
  threw = {} => memory.count >= Cardinality(Users) + Cardinality(ThreadsAt("build"))
                                               - Cardinality(ThreadsAt("last"))

(* Who has the instance sees, through a view of its own, an object that    *)
(* was constructed and is not destroyed.                                   *)
UsersShareObject == \A p \in Users : mMemory[p] /\ memory.object = "built"

(* With the same exceptions, who constructs or destroys the object, or      *)
(* whose end frees the mapping, is alone with it: the object never changes *)
(* under another process that has the instance.                            *)
Moves(p) == \E t \in ThreadsOf(p) : at'[t] # at[t]

AloneWithObject ==
  [][threw = {} /\ memory'.object # memory.object => \A p \in Users \cup Users' : Moves(p)]_vars

-----------------------------------------------------------------------------
(***************************************************************************)
(* What the exceptions of the source say.                                  *)
(***************************************************************************)

(* "Could not lock mutex twice!": lock throws this only in a process one   *)
(* of whose threads has the mutex.                                         *)
LockedTwice ==
  \A t \in Threads : LET p == ProcessOf[t] IN
    at[t] = "lock" /\ mMutex[p] # 0 /\ mLocked[p] =>
      \E u \in ThreadsOf(p) : mutex[mMutex[p]].owner = u

(* "Could not lock mutex!": a thread whose lock throws this does not have  *)
(* the mutex, which after a crash of its owner would be lost to everybody. *)
LockRefused ==
  \A t \in Threads : at[t] = "entered" /\ ~mLocked[ProcessOf[t]] =>
    \A m \in Mutexes : mutex[m].owner # t

-----------------------------------------------------------------------------
(***************************************************************************)
(* The instance implements a shared object.                                *)
(***************************************************************************)

Shared == INSTANCE SharedObject WITH users <- Users,
                                     built <- memory.object = "built"

(* The object is constructed when the first process gets the instance and  *)
(* destroyed when the last one deletes it, and at no other time.           *)
ImplementsSharedObject == Shared!SharedSpec

=============================================================================
