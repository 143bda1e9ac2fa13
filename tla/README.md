# Verification of Random_Pieces_Of_Code

TLA+ models, TLC runs and TLAPS proofs kept beside the snippets of this
repository.  The repository is a collection of self-contained C++ (and one C#)
files with no tests and a README of two lines, so the code itself is the only
reference: each definition is a translation of the lines that `PROJECT.json`
(`map`) names for it.

    tlc -workers 2 -config PoolSafety.cfg MCThreadPool.tla    model-check one run
    tlapm ThreadPoolProofs.tla                                check the proofs of a module

`PROJECT.json` lists the components, runs, findings, hazards and theorems.  In
the modules, an operator whose comment begins with "Mutated" is no part of the
model: it is the definition that follows it with a plausible bug, and
`PROJECT.json` (`mutants`) says which property notices it.

## 1. Inventory

The files do not call each other.  What interacts is inside each file: threads
under a mutex, processes under a named mutex, or a caller and an object.

| Component (src/) | State it keeps | Operations | What is hard, and what makes it correct | Status |
|---|---|---|---|---|
| Thread, ThreadPool (`ThreadPool.cpp`) | per thread `mTasks`, `mRunning`, `mThread`, the local `task` of `Run` | `Add` (with and without a thread index), `ChooseThread`, `Run`, `Start`, `Stop`, constructor, destructor | clients, pool threads and the owner interleave between critical sections; no task lost, duplicated, overtaken or performed after `Stop`; `Stop` returns; a running pool performs everything | modelled, proved |
| SingletonGlobalLazy (`SingletonGlobal.cpp`) | kernel: a named mutex, a named mapping holding a count and the object; per process: `mMutex`, `mLocked`, `mHandle`, `mMemory`, `mPtr`, `mCallbackUninitialize` | `GetInstance`, `DeleteInstance`, static destruction | several processes, crashes inside the mutex, exceptions after half of the work, threads that race on plain members; one object, constructed by the first and destroyed by the last | modelled, proved |
| Stopwatch (`Stopwatch.cpp`) | a map of name to (time, running), a mutex | `Create`, `Reset`, `Pause`, `Resume`, `Remove`, `GetTimeElapsed` | a `time_point` means two things; a lock taken twice; what is shown is the time it was running | modelled, proved |
| IniParser (`IniParser.cpp`) | sections with pairs, the configured brackets, separators, comment starts and spaces | `Deserialize`, `Serialize`, `Get` | a character with two roles, a line of one bracket, an empty map; what is written is read back the same | modelled, proved |
| GUID (`GUID.cpp`) | `mUUID`, `mUUIDString`, `mStatus`, `mIsGood`, `mIsGlobal` | constructors, assignment, `SetUUID` of a value and of a string, `GetStr`, destructor | one status for the value and for its cached string; the cache is current and every string is freed once | modelled, proved |
| ScreenShot (`ScreenShot.cpp`) | a window's context, a bitmap, and what a call holds | constructor (with `GetPID`), `Take`, `Save`, destructor | each of a dozen calls may fail; what is acquired is released on every path | modelled, proved |
| Accelerator (`Global Accelerator.cpp`) | combinations, and whether each was down | `Register`, `Check` | keys change between the reads and during callbacks, callbacks throw; a callback that returned waits for a new press | modelled, proved |
| Size (`Size.cpp`) | two static buffers | `MakeSize` and `FindRequiredBytes`, each both ways | a signed char, `log2` near a power of two, what a buffer still holds; a number of up to 3 or 7 bytes comes back, in as few as it fits | modelled, proved |
| BroadcastIPFinder (`BroadcastIPFinder.cpp`) | a heap block and its size, two lists of addresses | the constructor: a retry loop, a filter, mask arithmetic | the size grows between two calls, a shift by 32; the block fits and is freed, the address is the highest of its subnet | modelled, proved |
| Binary encodings (`Binary To Encodings And Vice Versa.cpp`) | none outside a call | three encoders, three decoders | blocks that are no multiple of a character; decoding undoes encoding without reading past the text | modelled, proved |
| Logger (`Logger.cpp`) | the console's | `ClampFileNameLength`, `Log`, `TRACE` | lengths that do not fit; columns align | the clamping only, proved |
| to_unit, RSA, WinRT example, Unicode converter, Random, basic_string conversion, Print anything, Rotate 2D point, three CS GO snippets | none that outlives a call | calls of a library, output, floating point, constants | section 6 | not modelled |

## 2. The modules

    TaskLifecycle          abstract: what a pool promises about its tasks
      ThreadPool           implements it (ImplementsLifecycle)
        ThreadPoolChoice   plus two history variables about ChooseThread
          MCThreadPool     the instance for TLC
        ThreadPoolProofs       types, StartedOrQuiet
          ThreadPoolTaskProofs TaskInOnePlace, NothingLost, PriorityOrder
            ThreadPoolLifecycleProofs  NoOvertaking, ImplementsLifecycle
          ThreadPoolChoiceProofs       ChosenWasShort
    SharedObject           abstract: one object, first constructs, last destroys
      SingletonGlobal      implements it without faults (ImplementsSharedObject)
        SingletonKept      calls restricted to "a keeper has it", fairness
          MCSingletonGlobal the instances for TLC
          SingletonProofs      types, MutualExclusion
            SingletonCountProofs  the count, the object, ImplementsSharedObject
    Stopwatch
      Objects              Stopwatch, Guid, ScreenShot, Accelerator and
                           BroadcastIPFinder, one of them in each behaviour
        MCObjects          the instance for TLC
        ObjectsProofs      the invariants and action properties of all five
    Formats                IniParser, Size, BinaryEncodings and Logger likewise
      MCFormats            the instance for TLC
      FormatsProofs        the invariants of all four

### ThreadPool

| In the code | In the model |
|---|---|
| a critical section on `mMutexTasks` (`TaskCount`, `Thread::Add`, the body of `Run` under the lock) | one step: the mutex guards every access to `mTasks`, and the section reads the atomic `mRunning` once |
| `ThreadPool::Add` with an index | `AddTo`; an index past the end returns false and changes nothing |
| `ThreadPool::Add` with index 0 | `ChooseBegin`, then per comparison `CountFirst` and `CountSecond` (C++ does not order the two operands, so either comes first), then `AddChosen` |
| where `Thread::Add` emplaces | `Position`, `Enqueue` |
| `Run` | `RunCheck`, `RunWait`, `RunRetry` or `RunTake`, `RunWork`, `RunCallback`; `RunThrow` when work or callback throws, which ends the process |
| `Start`, `Stop`, `~ThreadPool` | a loop of the owner over the threads: `StartThread`; `StopThread` and `JoinThread`; `Destroyed` |
| assigning to a joinable `std::thread` | `StartThread` of a started thread sets `terminated` |

The clients over-approximate tasks that call `Add` themselves, since a client
adds at any moment until the destructor begins.  Three things are left out: a task that calls `Add`
while the destructor waits for it, a task that calls `Stop` of its own pool (a
thread that joins itself), and a pool of no threads, where `mThreads[0]` is
undefined.  The owner's calls do not overlap, and the pool is destroyed when no
other call of it is under way: that is what any C++ object asks of its users.

### SingletonGlobal

Named mutexes and mappings are the kernel's and are modelled from how the code
uses them (`mutex`, `handles`, `named`, `memory`): a name lives as long as a
handle to it, a mutex belongs to a thread, is recursive, and is abandoned when
its owner ends.  Reads and writes of `mMutex` and `mLocked` are steps of their
own because threads of one process race on them; what runs inside the mutex is
cut where another process can notice a crash (the increment of the count, the
construction, the hook, the decrement, the destruction).

Each thing that can go wrong is a member of `Faults`: a crash at any step
(`Crash`), `Type()` throwing after the increment (`Build`), `OnInitialize` or
`OnPerInstanceUninitialize` throwing (`Initialized`, `CountDown`), a mapping
that cannot be opened or viewed (`CreateMemory`), and a `CreateMutexA` that returns null
(`CreateMutexFails`).  The last one stores the null in `mMutex`, where another thread of the
process may have stored its handle meanwhile.  The history variable `threw` records the two
of these after which some property is claimed no longer: `OnPerInstanceUninitialize`
throwing, and a null that overwrites a handle (`Intact` says that none has).  Builds with and without
assertions are both covered: a failing `assert` may end the process (`Ends`), and
`Unlock` goes on without it.  The order in which statics of different templates
are destroyed is not specified; `~ContainerLazyPtrRaw` runs first here, and the
other orders leave what a crash leaves.  `global == false` puts the process id in
the names, so those instances are the systems with one process.

Not modelled: the object lies at offset 2 of the mapping, which misaligns most
types, and the security attributes and names of the kernel objects.

### Stopwatch

Each call that holds the mutex throughout is one step.  `Pause` is not, because
it calls `GetTimeElapsed`, which locks the same `std::mutex` again.  That is
undefined, so `relock` picks one of the outcomes a build can have: it waits for ever,
throws, or (a program built without threads) nothing happens.  `Reset` is
`Create` with `overwrite`; `Size` and asking for the time change no state, and
what they return is `GetTimeElapsed`.

### The small classes

Guid, ScreenShot, Accelerator and BroadcastIPFinder are modules of their own that know
nothing of each other; `Objects` instantiates them under names and its
variable `part`, chosen in the initial state, says which one a behaviour is about.
The others stay in one initial state, so the states of the parts add up and do
not multiply, and each property is that of one part.  `Formats` does the same
with the conversions.

| In the code | In the model |
|---|---|
| `Utility::GUID`: each member function | one action, with every status the library may return; the library's strings are `heap` |
| `ScreenShot::Take`, `_Take`, `Save` | one step per call of GDI or OLE, `pc` is the next one; each may fail and then takes the code's way out with the releases written there.  `held` counts what is still to be given back |
| `ScreenShot(process)` | `GetPID`, which closes its snapshot on three ways, then `Construct`; of the window only whether its context could be had.  A snapshot that cannot be made is one without a first process |
| `Accelerator::Check` | `CheckBegins`, a `ReadKey` per key, then `CheckPasses`, or `CallbackBegins` and `CallbackReturns` or `CallbackThrows`; `KeyChanges` at any time in between |
| `BroadcastIPFinder()` | `HeapAlloc`, then `TooSmall` (again), `OtherError` or `Filled`, a `ReadAddress` for each address of the block, `HeapFree` and `CreateBroadcastAddressesIPv4`; `AdaptersChange` at any time in between |
| `IniParser::Deserialize` | `ReadLine` with the whole of `IniHelper` and `IniLexer` as operators on sequences, `EndOfFile` |
| `IniParser::Get` | `Get` of a pair that is there; it throws otherwise, which changes nothing |
| `IniParser::Serialize` | `Serialize`, `WriteSection` and `WritePair` for each line in any order the map could have, `Serialized`; `reread` is what `Deserialize` of another parser has made of the lines so far.  Of nothing, `Serialize` crashes or writes nothing |
| `Size::MakeSize` | `Encode` and `Decode`, at the real width: a number is the set of its bits, the prefix is given by its bits, the static buffers are functions from addresses to bytes |
| `ASCIIToBinary`, `Unicode16ToBinary`, `Unicode32ToBinary`, and back | one encoder and one decoder with `charBytes` and `littleEndian` as parameters: the encoder takes a step per character and one per block, the decoder one per bit |
| `ClampFileNameLength` | one step with the exceptions of `std::string` as an outcome |

Each of these abstracts its data.  The encoders only move bits about, so a bit is a name
(character and place) and one text of each length stands for all; their indices, `unsigned int` in
the code, do not wrap, which holds for texts of less than 2^32 characters of output.  A character of an INI
file is one of those that mean something to the parser, or `"a"`.  An address is
the set of its bits.  Bitmaps, UUIDs and strings are model values.  A
callback that calls `Register` or `Check` of the same accelerator is left out: it invalidates
the references of the loop that called it.  So is a `ScreenShot` that is copied: both would delete
the bitmap.  In Logger, `ColumnsAlign` is about what `ClampFileNameLength` returns; in a line of `TRACE`
process and thread ids of any width stand before it, so that those columns align only where the ids are
equally wide.

## 3. The runs

| Run | Specification, instance | Checks |
|---|---|---|
| PoolSafety | `ChoiceSpec`; 2 threads, 2 clients, 3 tasks, all may throw | types; `TaskInOnePlace`, `NothingLost`, `PriorityOrder`, `NoOvertaking`: no interleaving loses, doubles or reorders a task; `StartedOrQuiet`: between two calls of the owner the pool runs on every thread or is quiet; `ChosenWasShort`: what out-of-date counts can cost `ChooseThread` |
| PoolLifecycle | `FairSpec`; 2 threads, 2 clients, 2 tasks, one may throw | `ImplementsLifecycle` (refinement of `TaskLifecycle`), `StopReturns`, `EveryTaskPerformed` |
| SingletonSafety | `Spec`, no faults; 3 processes, each started twice | types, `MutualExclusion`, `CountIsUsers`, `UsersShareObject`, `ImplementsSharedObject` (refinement of `SharedObject`) |
| SingletonFaults | `Spec`, all five faults; 2 processes, each started three times | `MutualExclusion` still holds; the count only errs on the safe side (`CountCoversUsers`) and the object never changes under a process that has it (`AloneWithObject`), until `OnPerInstanceUninitialize` throws |
| SingletonThreads | `KeptSpec`, `CreateMutexA` may fail; a process of two threads and one of one | the same three in the presence of races on `mMutex` and `mLocked`, while a keeper has the instance, until a handle is overwritten with null |
| SingletonKept | `KeptSpec`, `CreateMutexA` may fail; 3 processes, one keeper | `EveryCallReturns` |
| Objects | `ObjectsSpec` | Stopwatch: `ElapsedIsRunTime`.  Guid: `CachedStringIsCurrent`, `StringsOwnedOnce` through copies, assignment to itself and failures.  ScreenShot: `NothingHeld`, and `BitmapsAccounted`, which says exactly when a bitmap leaks.  Accelerator: `OncePerPress`, of callbacks that return, and `StateFollowsKeys` for keys that change while they are read.  BroadcastIPFinder: `BlockFits`, `BroadcastIsHighest`, `ConstructorReturns`.  `PartsTypeOK` |
| Formats | `FormatsSpec` | `IniRoundTrip` in every context whose brackets `Trim` keeps; `DefinedAfterGet`, that `Serialize` meets no empty map once a `Get` has returned; `SizeRoundTrip`, `SeparatedInBlocks`, `DecodesEncoded`, `ColumnsAlign`; `FormatsTypeOK` |
| SingletonLockedTwice, SingletonRefused, StopwatchPause, SizeFormat | small instances | one claim of the source each, which the code does not keep (section 5) |

**Bounds.**  Two threads and three tasks are the least with which a list holds
two tasks while a third one is performed or is being added, which is where
positions, overtaking and stale counts matter; a second client makes two choices
overlap.  With two threads `ChosenWasShort` never compares with a third list; for that there is the theorem.  Each task is added once, so `Tasks` bounds the number of additions;
`Start` and `Stop` may be called without a bound.  The liveness run has two
tasks: its questions concern a thread that sleeps, retries or is joined, not
the length of a list.  Three processes let one be first, one last and one in
between; restarts (`MaxStarts`) are needed for the last one to be followed by a new
first one, and the run with crashes has three starts each.  `MaxHandles` only
bounds the handles that racing threads leak.  `MaxCount` is 2^15 - 1 in the code.  In
SingletonSafety and SingletonKept it is 3, so that the three processes bring the
count exactly to its limit; one process more would wrap it, and `CountUp` does wrap, but
then nothing of the count holds.  It is 7 where crashes or races make the count too large.  A
clock of seven ticks allows start, pause, resume and pause again with different lengths.
Clients, tasks and processes are symmetric in
safety runs only where the constants treat them alike; no liveness run uses symmetry.

In Objects, two GUIDs, two values and three strings allow a copy in each direction, to
oneself, and a string more than there are owners; three bitmaps allow two to leak
before one is taken.  Two accelerators with three combinations of two keys give the same
keys in either order and one that contains the other.  The adapters' size has three values around
`FirstSize` and changes three times.  Words have 4 bits, with every prefix from 0 to past the end
(32 and 33 in the code).  In Formats, a file has two lines of up to three of six
characters, which is a section and a pair of all shapes (and two pairs, one of which may replace the other), `Get` asks for two keys, in 108 contexts where characters have
several roles; the sizes are numbers of 64 bits on both sides of every boundary of bytes, of the sign
and of where `log2` begins to round up.  Texts have two characters of 1, 2 or 4 bytes of eight bits
and blocks shorter than, equal to, longer than and no divisor of a character, with
separators of none to two.  The lengths in Logger lie on both sides of the widths.

**Deadlock** is checked in every run of the pool and the singleton but SingletonThreads, where the steps
`Over` are the ends of a pool, or of a process for good.  In SingletonThreads the code itself may stop: the thread
whose handle was overwritten with null cannot release the mutex, and all others wait for it.  In Objects the clock stops
at its bound and objects are destroyed, and in Formats and SizeFormat a conversion comes to its end or
to a write that is undefined, so they do stop.

**Fairness.**  `ThreadPool!Fairness` is weak fairness of each pool thread, of
a client inside `ChooseThread` and of the owner inside a loop: what a scheduler gives
any runnable thread, and that work and callbacks return.  Waiting for a
`recursive_mutex` needs no strong fairness in the model because a critical
section is one step; on a real machine this takes a mutex that is not starved for ever.
Nobody is obliged to add a task or to call `Start`, `Stop` or the destructor.  As tasks are
finitely many, `EveryTaskPerformed` does not claim that a LOW task survives an
endless stream of HIGH ones, and it would not.  `SingletonKept!Fairness` is weak
fairness of a thread in a call and strong fairness of acquiring the mutex, whose
waiters Windows serves in turn.  `Stopwatch!FairSpec` is weak fairness of a thread
that is in `Pause` and does not wait.  `ObjectsSpec` has weak fairness of `Finds`, the thread of the
constructor of BroadcastIPFinder; `ConstructorReturns` also rests on `MaxChanges`, since adapters that grow
for ever between two calls would keep the loop going for ever.

## 4. The proofs

For every number of threads, clients, tasks, processes and names, every width, clock
and text.  Hardly any of these properties is inductive as it stands; the
last column names the strengthening that is.

**ThreadPool**

| Theorem | Says | Rests on |
|---|---|---|
| `TypeCorrect` (ThreadPoolProofs) | `Spec => []TypeOK` | `TypeInv`: an index stays in range because a counted thread is one of the two compared |
| `StartedOrQuietHolds` | `Spec => []StartedOrQuiet` | `OwnerInv`, about the loops: threads before `owner.at` are already started (or stopped and joined), those after it are still as the loop found them |
| `TaskInOnePlaceHolds` (ThreadPoolTaskProofs) | `Spec => []TaskInOnePlace` | `PlaceInv`: a task in a call of `ChooseThread` is new, and no two calls hold the same one; otherwise `AddChosen` could add a task a second time |
| `NothingLostHolds` | `Spec => []NothingLost` | the same, and that only the destructor empties a list |
| `PriorityOrderHolds` | `Spec => []PriorityOrder` | stamps are below `clock`; LOW goes behind and HIGH in front of everything that is there |
| `NoOvertakingHolds` (ThreadPoolLifecycleProofs) | `Spec => NoOvertaking`, an action property | `PlaceInv`, and two lemmas: an insertion at any position (`InsertAtBefore`) and the removal of the first element (`TailBefore`) keep the order of the others |
| `ImplementsLifecycleHolds` | `Spec => ImplementsLifecycle`: the pool refines `TaskLifecycle` | `LifeInv` = `PlaceInv`, `OwnerInv` and that no call of `ChooseThread` outlives the pool (`CallsAlive`), without which `AddChosen` would accept a task for a destroyed pool; each action maps to a step of the abstract pool or to a stutter |
| `ChosenWasShortHolds` (ThreadPoolChoiceProofs) | `ChoiceSpec => []ChosenWasShort` | `ShortSoFar`: in the middle of the loop the thread chosen so far is as short as any already compared, but for the growth since, and between the two reads of a comparison the one count that was taken bounds both lists |

**SingletonGlobal**

| Theorem | Says | Rests on |
|---|---|---|
| `TypeOKHolds` (SingletonProofs) | `Spec => []TypeOK` | `TypeInv`: a handle is there for every thread that is about to open the mutex, a process that has `mMutex` has a handle to it, and an owned mutex has a depth |
| `MutualExclusionHolds` | `Spec => [](Intact /\ MutualExclusion)`, with all faults | `MutexInv`: every process that has a mutex has the one with the name, who waits waits for that one, and whoever is past the wait owns it.  A thread that opens the mutex is alone in its process, so no null overwrites a handle (`OpensNone`) |
| `KeptMutualExclusionHolds` | `KeptSpec => []MutualExclusion` | `MutexInv` as long as no handle was overwritten (`Guarded`), and that a thread which deletes the instance is alone in its process (`DeletersAlone`) |
| `CountCoversUsersHolds`, `AloneWithObjectHolds` (SingletonCountProofs) | `Spec /\ []NoOverflow => []CountCoversUsers`, `AloneWithObject`, with all faults | `CountInv`, as long as nothing in `threw` has happened (`Counted`): who is counted has views, nobody is counted twice, the last one is at count 0, and an object is constructed only when nobody has one |
| `KeptCountCoversUsersHolds`, `KeptAloneWithObjectHolds` | the same of `KeptSpec` | the same invariants: they need no more than that two threads are never inside the mutex |
| `CountIsUsersHolds`, `UsersShareObjectHolds` | `Spec => []CountIsUsers`, `[]UsersShareObject`, without faults | `CalmInv`: all of the above, that `mLocked` is set exactly while a thread of the process is inside (`LocksInv`), and that a mutex which is left owned, or abandoned, is left by the last user (`UsersInv`) |
| `ImplementsSharedObjectHolds` | `Spec => ImplementsSharedObject`: it refines `SharedObject` | `CalmInv`; a process attaches in `Build` or in `CountUp`, according to whether it is the first |

**The small classes**

| Theorem | Says | Rests on |
|---|---|---|
| `PartsAlone` (ObjectsProofs) | each part of `Objects` does what its own module says | a step of one part leaves the variables of the others |
| `ElapsedIsRunTimeHolds`, `StopwatchTypeCorrect` | `Spec => []ElapsedIsRunTime`, `[]TypeOK` of Stopwatch | `ElapsedInv`: nothing has been running for longer than the clock, so `Resume` sets a stopwatch back to a moment there has been |
| `PartsTypeOKHolds` | `ObjectsSpec => []PartsTypeOK` | the type of Stopwatch, and the invariants of the other four |
| `CachedStringIsCurrentHolds`, `StringsOwnedOnceHolds` | a cached string is current, each string has one owner | `GuidInv`: no two objects have the same string (`GuidApart`), and every string is that of some object (`GuidOwned`) |
| `NothingHeldHolds`, `BitmapsAccountedHolds` | the releases on each way out give back what was acquired on the way to it; lost bitmaps are those of failed steps | `ShotInv`: what is held at every step of a call, and how often (`Owed`, `ShotHolds`), and which bitmap will still be deleted (`Mine`) |
| `OncePerPressHolds`, `StateFollowsKeysHolds` | a callback that has returned is not called again before one of its keys was up; keys that did not change are recorded | `AccelInv`: the state already stored of each accelerator (`AccelDown`), and what it stores in terms of the keys read so far (`AccelFollows`) |
| `BlockFitsHolds`, `BroadcastIsHighestHolds` | the size told is that of the block; the address is the highest of its subnet | `FinderInv`: the lists in terms of the masks that were made (`FinderLists`), and a lemma that a mask has the highest bits |

**The conversions**

| Theorem | Says | Rests on |
|---|---|---|
| `FormatsTypeOKHolds` (FormatsProofs) | `FormatsSpec => []FormatsTypeOK` | the invariants below, and that what is parsed from sequences are sequences (`IniTypes`) |
| `IniRoundTripHolds` | what `Serialize` writes is read back as what it was written from, for lines of any length and every context whose brackets `Trim` keeps | `IniInv`: a pair's line, put together again, begins and ends as the one it was read from, so it is neither comment nor section (`PairsKept`), a trimmed name is read back from between brackets (`SectionKept`), and while `Serialize` writes, what is reread is what is no longer left to write (`RereadInv`).  What `Trim` and the search for a separator return is a lemma each, of sequences of any length |
| `DefinedAfterGetHolds` | no `std::prev` of an empty map once a `Get` has returned | the same: a `Get` that returned leaves a pair, and no pair is ever removed (`GotInv`) |
| `SeparatedInBlocksHolds`, `DecodesEncodedHolds` | separators between blocks and nowhere else; decoding gives the text back and reads nothing past it | `BinaryInv`: where every bit written is and which bits are still in `block` (`EncodeInv`), how many separators the decoder has passed and which bits it has taken (`DecodeInv`).  Both relate a position to a number of bits and a number of separators by multiplication, and the solver is led through it by lemmas |
| `SizeRoundTripHolds` | every number that needs at most 3 bytes, or 7 where char is unsigned, comes back, except the last 22 below 2^53 | `RoundedUpIs`: below which numbers rounding can change the bytes at all; `SizeInv`: the encoder's buffer is what `MakeSize` of the present number writes over anything it may have held; bytes are taken apart by their bits |
| `ColumnsAlignHolds` | the column has its width, with the end of the name in it | `LoggerInv`, and what remains of a sequence when its front is cut off |

**Assumptions.**  On the constants, the named ones: `PoolAssumption`, `StopwatchAssumption`,
`SingletonAssumption`, `KeepersAssumption`, `ObjectsAssumption`, `FormatsAssumption`.  They say that
constants are numbers, sequences and sets of the right kind, and that sentinels are none of the values they
stand beside; TLC evaluates them in the runs.  The proofs of SingletonGlobal have hypotheses besides:

- `OneThreadEach`: each process has one thread.  A second one may close the mutex under the
  first (section 5), and nothing is then true.
- `SeveralAreKept`: with `KeptSpec` the processes that are no keepers have one thread.  It is the
  weaker form of the same.  SingletonThreads has a keeper of two threads.
- `[]NoOverflow`: until `OnPerInstanceUninitialize` throws, nobody counts up from `MaxCount`, which is 2^15 - 1 in the code.  A
  process that crashes stays counted, so that enough of them would wrap the count.  TLC finds it true in
  every state of SingletonFaults and SingletonThreads.
- `CountFits`: there are at most `MaxCount` threads; and `Faults = {}`.  Then the count needs no
  hypothesis, and SingletonSafety takes it exactly to its limit.

Each property was checked by TLC before it was proved; for some the proof then asked for
more than had been thought of: that `ScreenShot` has a bitmap of its own at every step which may lose
one, and that `BroadcastIPFinder` has no block when it allocates.

**Only model-checked.**  `StopReturns`, `EveryTaskPerformed`, `EveryCallReturns` and
`ConstructorReturns`, because the prover has no fairness or ENABLED: their bounds (section 3) are all that
speaks for them.

## 5. Where the code and its own words differ

- `Could not lock mutex twice!` (`SingletonGlobal.cpp:182`): the last
  `DeleteInstance` deletes the mutex that it has locked, `unlock` then does nothing,
  `mLocked` stays set, and the process never gets the instance again (SingletonLockedTwice).
- `Could not lock mutex!` (`:188`): `WAIT_ABANDONED` grants the mutex but is treated as a
  failure, so the thread that lock refuses owns it (SingletonRefused).
- `a paused stopwatch will contain the elapsed time` (`Stopwatch.cpp:40`):
  `Pause` locks its mutex twice, and in a build with threads it waits for ever or leaves by an
  exception, whichever the second lock does (StopwatchPause).
- `The first 3 bits represent how many bytes are necessary` (`Size.cpp:12`): where `char` is
  signed, as with the compilers this code is for, `aSize.front() >> 5` is negative for 4 bytes or
  more, and `MakeSize` copies about 250 bytes before its buffer (SizeFormat).

Seen while modelling, with no run of their own.

*ThreadPool.*  `0 == most free thread` (`:143`) does not count the task a thread is performing, and
counts are out of date when they are compared (`ChosenWasShort` says by how much).  `HIGH // first` does not keep a
later MEDIUM task out of first place in a list of one or none.

*SingletonGlobal.*  `assert(mLocked)` (`:199`) may fail: `unlock` stores `mLocked` after it has
released the mutex, when another thread may have stored its own value.  `Type()` throwing leaves a count of 1 over memory that holds no object, and the next
process takes it for one (`:295-304`; so `UsersShareObject` is claimed without
faults only); a failed `MapViewOfFile` leaves a handle without a view, and the next
call runs into `assert(mMemory)` (`:95-104`, `:127`); when
`OnPerInstanceUninitialize` throws, a process keeps the pointer uncounted (`:328`).
With several threads per process `MutualExclusion` needs that nobody deletes the last
instance: the thread that does so would close the mutex under the others.  It also needs that `mMutex` is not
overwritten: where two threads get the instance at once and `CreateMutexA` fails for the slower one, its null
replaces the handle of the faster one (`:155`).  The thread inside then returns from `unlock` without releasing the mutex, which
remains owned for good; and one that is in `lock` waits for null, fails, and may find `mLocked` set by another one
before it looks, so that two are inside.  That nothing else is needed is `KeptMutualExclusionHolds`.

*Size.*  A number that needs 8 bytes loses its prefix to the width of a char, on any
build.  The logarithm of a number near the next power of two is rounded up to that power, if `std::log2` returns the
nearest double: so the last 22 numbers below 2^53 take 8 bytes instead of 7, and those just below
2^61 take 9, which there are not.  `MakeSize` returns a view of a buffer that the next call overwrites.
`RoundTrip` states the numbers for which all is well.

*IniParser.*  The round trip needs the brackets not to be among the spaces: TLC shows that without
`BracketsKept` it fails.  A section without pairs is not kept.  `Serialize` of nothing takes `std::prev` of
the end of an empty map.  `main` does not get there, because `Get` has thrown before if nothing was read
(`DefinedAfterGet`); a program that does not call `Get` may.

*Binary encodings.*  The default block of `Unicode16ToBinary` and `Unicode32ToBinary` is that of the
width, the default of the decoders is 8, so defaults only match for ASCII; a block size of 0
never ends; the bit of weight 128 is added to a char from a `pow` that is out of its range where char is signed.

*GUID.*  Assignment sets the status to OK whatever the other object's was, and `GetStr` after
a `SetUUID` of a string that was refused shows the value from before it; a construction that
found no network address leaves `mIsGlobal` true.

*ScreenShot.*  When selecting or copying fails the bitmap leaks (`BitmapsAccounted` counts
them); when the window's rectangle cannot be had, the bitmap before stays and `Save` saves it;
`Save` returns true when `GlobalLock` fails.  A process whose name is a prefix matches, and the desktop
is taken when no window is found.

*Accelerator.*  A callback that throws is called again by the next `Check` although its keys were never up, and the
accelerators behind it are not looked at (`:32`); `OncePerPress` speaks of those that return.

*BroadcastIPFinder.*  A prefix of 0 shifts 32 bits by 32, which is undefined; on x86 the broadcast
address is then the local one.  A longer one than 32 counts as no subnet.

*Logger.*  A line number longer than the column, or padding wider than it, throws.

## 6. Not modelled, and the plan

Not modelled: `to_unit` multiplies by constants, and `to_unit<0>` names `to_unit<-1>`,
which no `uint8_t` can be, so it does not compile.  `RSA.cs` imports the key in each
call before it uses the provider, so no call sees what another one left; the rest is
the library's arithmetic.  The WinRT example awaits two operations that wait and return
constants, and nothing they do can interfere.  The Unicode converter is two calls of the operating
system, Random passes ranges to the standard library, basic_string conversion copies characters,
Print anything and the rest of Logger print, Rotate 2D point is floating point
trigonometry, and the CS GO snippets are constants and a window message.  None of
these decides anything that a state or a bounded input could get wrong.

Done: everything else (sections 2 to 4); every invariant and action property of the
passing runs is proved.

What is left: an invariant for several threads per process without faults, from which `CountIsUsers` would
follow for `KeptSpec` up to the first assertion that fails.
