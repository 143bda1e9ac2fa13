----------------------------- MODULE ObjectsProofs -----------------------------
(***************************************************************************)
(* What is proved of Stopwatch, Guid, ScreenShot, Accelerator and          *)
(* BroadcastIPFinder, for constants of any size.                           *)
(*                                                                         *)
(* Every step of Objects is a step of one part, so that each part does     *)
(* what its own module says, and the invariant of each is proved of that.  *)
(*                                                                         *)
(* Of the properties only BlockFits is inductive. That a string has one    *)
(* owner needs two facts, that no two objects have the same one and that   *)
(* every string is that of some object. What ScreenShot holds between two  *)
(* calls is known from what it holds at every step of a call, and the      *)
(* bitmaps it has left from which one it will still delete (Mine). That    *)
(* Accelerator calls back once is known from the state it has stored       *)
(* (AccelDown), and what it stores from the keys it has read so far        *)
(* (AccelFollows). The addresses of BroadcastIPFinder are known from its   *)
(* masks (FinderLists).                                                    *)
(***************************************************************************)
EXTENDS Objects, FiniteSetTheorems, TLAPS

(* Stopwatch: that a resumed stopwatch is set back to a moment the clock   *)
(* has had needs that nothing has been running for longer than the clock.  *)
ElapsedInv ==
  /\ TypeOK
  /\ ElapsedIsRunTime
  /\ \A n \in Names : ran[n] < now
  /\ pausing # NoName => Exists(pausing)

LEMMA EntryType ==
  ASSUME NEW time \in 0 .. MaxTime, NEW runs \in BOOLEAN
  PROVE  /\ Entry(time, runs) \in [time : 0 .. MaxTime, running : BOOLEAN]
         /\ Entry(time, runs).time = time
         /\ Entry(time, runs).running = runs
         /\ Entry(time, runs) # Absent
<1>1. time \in Int
  BY StopwatchAssumption
<1>2. Entry(time, runs) \in [time : Int, running : BOOLEAN]
  BY <1>1 DEF Entry
<1>3. QED
  BY <1>2, StopwatchAssumption DEF Entry

LEMMA InitElapsedInv == Init => ElapsedInv
BY StopwatchAssumption DEF Init, ElapsedInv, TypeOK, ElapsedIsRunTime, Exists

LEMMA NextElapsedInv == ElapsedInv /\ [Next]_vars => ElapsedInv'
<1> SUFFICES ASSUME ElapsedInv, [Next]_vars PROVE ElapsedInv'
  OBVIOUS
<1> USE StopwatchAssumption
<1>1. CASE Tick
  BY <1>1 DEF Tick, ElapsedInv, TypeOK, ElapsedIsRunTime, GetTimeElapsed, IsRunning, Exists
<1>2. ASSUME NEW n \in Names, Create(n) PROVE ElapsedInv'
  <2>1. PICK start \in BOOLEAN : Assigns(n, Entry(IF start THEN now ELSE 0, start))
    BY <1>2 DEF Create
  <2> DEFINE entry == Entry(IF start THEN now ELSE 0, start)
  <2>2. (IF start THEN now ELSE 0) \in 0 .. MaxTime
    BY DEF ElapsedInv, TypeOK
  <2>3. /\ entry \in [time : 0 .. MaxTime, running : BOOLEAN]
        /\ entry.time = (IF start THEN now ELSE 0) /\ entry.running = start /\ entry # Absent
    BY <2>2, EntryType
  <2> HIDE DEF entry
  <2>4. mStopwatches' = [mStopwatches EXCEPT ![n] = entry] /\ ran' = [ran EXCEPT ![n] = 0]
        /\ UNCHANGED <<now, relock, pausing>>
    BY <1>2, <2>1 DEF Create, Assigns, entry
  <2>5. QED
    BY <2>3, <2>4 DEF ElapsedInv, TypeOK, ElapsedIsRunTime, GetTimeElapsed, IsRunning, Exists
<1>3. ASSUME NEW n \in Names, Resume(n) PROVE ElapsedInv'
  <2> DEFINE entry == Entry(now - mStopwatches[n].time, TRUE)
  <2>1. mStopwatches[n].time = ran[n]
    BY <1>3 DEF Resume, ElapsedInv, ElapsedIsRunTime, GetTimeElapsed
  <2>2. now - mStopwatches[n].time \in 0 .. MaxTime
    BY <2>1 DEF ElapsedInv, TypeOK
  <2>3. /\ entry \in [time : 0 .. MaxTime, running : BOOLEAN]
        /\ entry.time = now - ran[n] /\ entry.running = TRUE /\ entry # Absent
    BY <2>1, <2>2, EntryType
  <2> HIDE DEF entry
  <2>4. mStopwatches' = [mStopwatches EXCEPT ![n] = entry] /\ UNCHANGED <<now, relock, pausing, ran>>
    BY <1>3 DEF Resume, Assigns, entry
  <2>5. QED
    BY <2>3, <2>4 DEF ElapsedInv, TypeOK, ElapsedIsRunTime, GetTimeElapsed, IsRunning, Exists
<1>4. ASSUME NEW n \in Names, Remove(n) PROVE ElapsedInv'
  BY <1>4 DEF Remove, Assigns, ElapsedInv, TypeOK, ElapsedIsRunTime, GetTimeElapsed, IsRunning, Exists
<1>5. ASSUME NEW n \in Names, Pause(n) PROVE ElapsedInv'
  BY <1>5 DEF Pause, ElapsedInv, TypeOK, ElapsedIsRunTime, GetTimeElapsed, IsRunning, Exists
<1>6. ASSUME NEW n \in Names, PauseReturns(n) PROVE ElapsedInv'
  <2> DEFINE entry == Entry(GetTimeElapsed(n), FALSE)
  <2>1. GetTimeElapsed(n) \in 0 .. MaxTime /\ GetTimeElapsed(n) = ran[n]
    BY <1>6 DEF PauseReturns, ElapsedInv, TypeOK, ElapsedIsRunTime, GetTimeElapsed, IsRunning, Exists
  <2>2. /\ entry \in [time : 0 .. MaxTime, running : BOOLEAN]
        /\ entry.time = GetTimeElapsed(n) /\ entry.running = FALSE /\ entry # Absent
    BY <2>1, EntryType
  <2> HIDE DEF entry
  <2>3. mStopwatches' = [mStopwatches EXCEPT ![n] = entry] /\ UNCHANGED <<now, relock, ran>>
        /\ pausing' = NoName
    BY <1>6 DEF PauseReturns, Assigns, entry
  <2>4. QED
    BY <2>1, <2>2, <2>3 DEF ElapsedInv, TypeOK, ElapsedIsRunTime, GetTimeElapsed, IsRunning, Exists
<1>7. ASSUME NEW n \in Names, PauseThrows(n) PROVE ElapsedInv'
  BY <1>7 DEF PauseThrows, ElapsedInv, TypeOK, ElapsedIsRunTime, GetTimeElapsed, IsRunning, Exists
<1>8. CASE UNCHANGED vars
  BY <1>8 DEF vars, ElapsedInv, TypeOK, ElapsedIsRunTime, GetTimeElapsed, IsRunning, Exists
<1>9. QED
  BY <1>1, <1>2, <1>3, <1>4, <1>5, <1>6, <1>7, <1>8 DEF Next, PauseEnds

(* Stopwatch: of any number of stopwatches, in every build, each shows how *)
(* long it was running since it was created or reset (Create, Pause,       *)
(* Resume, GetTimeElapsed).                                                *)
THEOREM ElapsedIsRunTimeHolds == Spec => []ElapsedIsRunTime
<1>1. ElapsedInv => ElapsedIsRunTime
  BY DEF ElapsedInv
<1>2. QED
  BY <1>1, InitElapsedInv, NextElapsedInv, PTL DEF Spec

(* Stopwatch: every variable keeps its type; in particular no Resume sets  *)
(* a stopwatch back to before the clock began.                             *)
THEOREM StopwatchTypeCorrect == Spec => []TypeOK
<1>1. ElapsedInv => TypeOK
  BY DEF ElapsedInv
<1>2. QED
  BY <1>1, InitElapsedInv, NextElapsedInv, PTL DEF Spec

-----------------------------------------------------------------------------
(* The instances of FiniteSets in the parts define the same operators.     *)
LEMMA CardinalityOfParts ==
  \A T : G!Cardinality(T) = Cardinality(T) /\ S!Cardinality(T) = Cardinality(T)
<1>1. \A T : G!Cardinality(T) = Cardinality(T)
  BY DEF G!Cardinality, Cardinality
<1>2. \A T : S!Cardinality(T) = Cardinality(T)
  BY DEF S!Cardinality, Cardinality
<1>3. QED
  BY <1>1, <1>2

(* Objects implements the specification of each of its parts: none of them *)
(* disturbs another.                                                       *)
THEOREM PartsAlone ==
  ObjectsSpec => Spec /\ G!Spec /\ S!Spec /\ A!Spec /\ B!Spec
<1>1. ObjectsInit => Init /\ G!Init /\ S!Init /\ A!Init /\ B!Init
  BY DEF ObjectsInit
<1>2. ASSUME [ObjectsNext]_allVars
      PROVE  /\ [Next]_vars /\ [G!Next]_(G!vars) /\ [S!Next]_(S!vars)
             /\ [A!Next]_(A!vars) /\ [B!Next]_(B!vars)
  <2> USE DEF guid, screenShot, accelerator, finder, G!vars, S!vars, A!vars, B!vars, B!lists
  <2>1. CASE part = "stopwatch" /\ Next /\ UNCHANGED <<part, guid, screenShot, accelerator, finder>>
    BY <2>1
  <2>2. CASE part = "guid" /\ G!Next /\ UNCHANGED <<part, vars, screenShot, accelerator, finder>>
    BY <2>2
  <2>3. CASE part = "screenshot" /\ S!Next /\ UNCHANGED <<part, vars, guid, accelerator, finder>>
    BY <2>3
  <2>4. CASE part = "accelerator" /\ A!Next /\ UNCHANGED <<part, vars, guid, screenShot, finder>>
    BY <2>4
  <2>5. CASE /\ part = "finder" /\ B!AdaptersChange
             /\ UNCHANGED <<part, vars, guid, screenShot, accelerator>>
    BY <2>5 DEF B!Next
  <2>6. CASE Finds
    BY <2>6 DEF Finds, B!Next
  <2>7. CASE UNCHANGED allVars
    BY <2>7 DEF allVars
  <2>8. QED
    BY <1>2, <2>1, <2>2, <2>3, <2>4, <2>5, <2>6, <2>7 DEF ObjectsNext
<1>3. QED
  BY <1>1, <1>2, PTL DEF ObjectsSpec, Spec, G!Spec, S!Spec, A!Spec, B!Spec

-----------------------------------------------------------------------------
(* Guid.                                                                   *)

(* Guid: two objects never have the same string.                           *)
GuidApart == \A g, h \in GuidVariables :
  (g # h /\ G!Live(g) /\ G!Live(h) /\ guids[g].mUUIDString # None) =>
    guids[g].mUUIDString # guids[h].mUUIDString

(* Guid: a string of the library is that of some object.                   *)
GuidOwned == \A s \in Strings : heap[s] # None =>
  \E g \in GuidVariables : G!Live(g) /\ guids[g].mUUIDString = s

GuidInv == G!TypeOK /\ G!CachedStringIsCurrent /\ GuidApart /\ GuidOwned

LEMMA InitGuidInv == G!Init => GuidInv
BY ObjectsAssumption DEF G!Init, GuidInv, G!TypeOK, G!CachedStringIsCurrent, GuidApart,
                         GuidOwned, G!Live

(* A step that frees the string of g, or leaves it alone, and gives g      *)
(* members without a string.                                               *)
LEMMA BecomeStep ==
  ASSUME GuidInv, NEW g \in GuidVariables, NEW uuid \in Uuids, NEW status \in G!Statuses,
         NEW good \in BOOLEAN, NEW global \in BOOLEAN,
         G!Become(g, uuid, None, status, good, global),
         G!Uninitialize(g)
  PROVE  GuidInv'
<1> DEFINE new == [mUUID |-> uuid, mUUIDString |-> None, mStatus |-> status,
                   mIsGood |-> good, mIsGlobal |-> global]
<1> USE ObjectsAssumption
<1>1. new \in G!Members /\ new # None /\ new.mUUIDString = None
  BY DEF G!Members
<1>2. guids' = [guids EXCEPT ![g] = new]
  BY DEF G!Become
<1> HIDE DEF new
<1>3. heap' = [s \in Strings |-> IF G!Live(g) /\ s = guids[g].mUUIDString THEN None ELSE heap[s]]
  BY DEF G!Uninitialize
<1>4. G!TypeOK'
  BY <1>1, <1>2, <1>3 DEF GuidInv, G!TypeOK
<1>5. \A h \in GuidVariables : h # g => guids'[h] = guids[h]
  BY <1>2 DEF GuidInv, G!TypeOK
<1>6. guids'[g] = new
  BY <1>2 DEF GuidInv, G!TypeOK
<1>7. \A h \in GuidVariables : guids[h] # None => guids[h].mUUIDString \in Strings \cup {None}
  BY DEF GuidInv, G!TypeOK, G!Members
<1>8. G!CachedStringIsCurrent'
  BY <1>1, <1>3, <1>5, <1>6, <1>7 DEF GuidInv, G!CachedStringIsCurrent, GuidApart, G!Live
<1>9. GuidApart'
  BY <1>1, <1>5, <1>6 DEF GuidInv, GuidApart, G!Live
<1>10. GuidOwned'
  BY <1>1, <1>3, <1>5, <1>6 DEF GuidInv, GuidOwned, G!Live
<1>11. QED
  BY <1>4, <1>8, <1>9, <1>10 DEF GuidInv

LEMMA GuidStep == GuidInv /\ [G!Next]_(G!vars) => GuidInv'
<1> SUFFICES ASSUME GuidInv, [G!Next]_(G!vars) PROVE GuidInv'
  OBVIOUS
<1> USE ObjectsAssumption
<1>0. \A g \in GuidVariables : guids[g] # None => guids[g] \in G!Members
  BY DEF GuidInv, G!TypeOK
<1>1. ASSUME NEW g \in GuidVariables, G!Construct(g) PROVE GuidInv'
  <2>1. heap' = [s \in Strings |-> heap[s]]
    BY <1>1 DEF G!Construct, GuidInv, G!TypeOK
  <2>2. G!Uninitialize(g)
    BY <1>1, <2>1 DEF G!Uninitialize, G!Construct
  <2>3. PICK uuid \in Uuids, status \in {"OK", "LOCAL_ONLY", "NO_ADDRESS"} :
          G!Become(g, uuid, None, status, status # "NO_ADDRESS", status # "LOCAL_ONLY")
    BY <1>1 DEF G!Construct
  <2>4. status \in G!Statuses
    BY DEF G!Statuses
  <2>5. QED
    BY <2>2, <2>3, <2>4, BecomeStep
<1>2. ASSUME NEW g \in GuidVariables, NEW right \in GuidVariables, G!Copy(g, right) PROVE GuidInv'
  <2>1. /\ guids[right].mUUID \in Uuids
        /\ guids[right].mIsGood \in BOOLEAN /\ guids[right].mIsGlobal \in BOOLEAN
    BY <1>0, <1>2 DEF G!Copy, G!Live, G!Members
  <2>2. QED
    BY <1>2, <2>1, BecomeStep DEF G!Copy, G!Statuses
<1>3. ASSUME NEW g \in GuidVariables, G!SetUUID(g) PROVE GuidInv'
  BY <1>3, BecomeStep DEF G!SetUUID, G!Statuses
<1>4. ASSUME NEW g \in GuidVariables, G!SetUUIDFromString(g) PROVE GuidInv'
  <2>1. guids[g].mUUID \in Uuids
    BY <1>0, <1>4 DEF G!SetUUIDFromString, G!Live, G!Members
  <2>2. QED
    BY <1>4, <2>1, BecomeStep DEF G!SetUUIDFromString, G!Statuses
<1>5. ASSUME NEW g \in GuidVariables, G!GetStr(g) PROVE GuidInv'
  <2>1. guids[g] \in G!Members /\ guids[g].mUUIDString = None /\ guids[g] # None
    BY <1>0, <1>5 DEF G!GetStr, G!Live
  <2>2. ASSUME NEW s \in Strings, heap[s] = None, heap' = [heap EXCEPT ![s] = guids[g].mUUID],
               guids' = [guids EXCEPT ![g].mUUIDString = s, ![g].mStatus = "OK"]
        PROVE  GuidInv'
    <3> DEFINE new == [[guids[g] EXCEPT !.mUUIDString = s] EXCEPT !.mStatus = "OK"]
    <3>1. new \in G!Members /\ new # None /\ new.mUUIDString = s /\ new.mUUID = guids[g].mUUID
          /\ new.mStatus = "OK"
      BY <2>1 DEF G!Members, G!Statuses
    <3>2. guids' = [guids EXCEPT ![g] = new]
      BY <2>2 DEF GuidInv, G!TypeOK
    <3> HIDE DEF new
    <3>3. /\ guids'[g] = new
          /\ \A h \in GuidVariables : h # g => guids'[h] = guids[h]
      BY <3>2 DEF GuidInv, G!TypeOK
    <3>4. guids[g].mUUID \in Uuids
      BY <2>1 DEF G!Members
    <3>5. G!TypeOK'
      BY <2>2, <3>1, <3>2, <3>4 DEF GuidInv, G!TypeOK
    <3>6. /\ heap'[s] = guids[g].mUUID
          /\ \A r \in Strings : r # s => heap'[r] = heap[r]
      BY <2>2 DEF GuidInv, G!TypeOK
    <3>7. \A h \in GuidVariables : guids[h] # None =>
            guids[h].mUUIDString \in Strings \cup {None} /\ guids[h].mUUID \in Uuids
      BY <1>0 DEF G!Members
    <3>8. \A h \in GuidVariables : guids[h] # None => guids[h].mUUIDString # s
      BY <2>2, <3>7 DEF GuidInv, G!CachedStringIsCurrent, G!Live
    <3>9. G!CachedStringIsCurrent'
      BY <3>1, <3>3, <3>6, <3>7, <3>8 DEF GuidInv, G!CachedStringIsCurrent, G!Live
    <3>10. GuidApart'
      BY <3>1, <3>3, <3>8 DEF GuidInv, GuidApart, G!Live
    <3>11. GuidOwned'
      BY <2>1, <3>1, <3>3, <3>6 DEF GuidInv, GuidOwned, G!Live
    <3>12. QED
      BY <3>5, <3>9, <3>10, <3>11 DEF GuidInv
  <2>3. ASSUME guids' = [guids EXCEPT ![g].mStatus = "OUT_OF_MEMORY"], heap' = heap
        PROVE  GuidInv'
    <3> DEFINE new == [guids[g] EXCEPT !.mStatus = "OUT_OF_MEMORY"]
    <3>1. new \in G!Members /\ new # None /\ new.mUUIDString = None
      BY <2>1 DEF G!Members, G!Statuses
    <3>2. guids' = [guids EXCEPT ![g] = new]
      BY <2>3 DEF GuidInv, G!TypeOK
    <3> HIDE DEF new
    <3>3. /\ guids'[g] = new
          /\ \A h \in GuidVariables : h # g => guids'[h] = guids[h]
      BY <3>2 DEF GuidInv, G!TypeOK
    <3>5. G!TypeOK'
      BY <2>3, <3>1, <3>2 DEF GuidInv, G!TypeOK
    <3>6. G!CachedStringIsCurrent'
      BY <2>3, <3>1, <3>3 DEF GuidInv, G!CachedStringIsCurrent, G!Live
    <3>7. GuidApart'
      BY <2>3, <3>1, <3>3 DEF GuidInv, GuidApart, G!Live
    <3>8. GuidOwned'
      BY <2>1, <2>3, <3>1, <3>3 DEF GuidInv, GuidOwned, G!Live
    <3>9. QED
      BY <3>5, <3>6, <3>7, <3>8 DEF GuidInv
  <2>4. QED
    BY <1>5, <2>2, <2>3 DEF G!GetStr
<1>6. ASSUME NEW g \in GuidVariables, G!Destroy(g) PROVE GuidInv'
  <2>1. /\ guids'[g] = None
        /\ \A h \in GuidVariables : h # g => guids'[h] = guids[h]
    BY <1>6 DEF G!Destroy, GuidInv, G!TypeOK
  <2>2. heap' = [s \in Strings |-> IF G!Live(g) /\ s = guids[g].mUUIDString THEN None ELSE heap[s]]
    BY <1>6 DEF G!Destroy, G!Uninitialize
  <2>3. G!TypeOK'
    BY <1>6, <2>2 DEF G!Destroy, GuidInv, G!TypeOK
  <2>4. \A h \in GuidVariables : guids[h] # None => guids[h].mUUIDString \in Strings \cup {None}
    BY <1>0 DEF G!Members
  <2>5. G!CachedStringIsCurrent'
    BY <1>6, <2>1, <2>2, <2>4 DEF G!Destroy, GuidInv, G!CachedStringIsCurrent, GuidApart, G!Live
  <2>6. GuidApart'
    BY <2>1 DEF GuidInv, GuidApart, G!Live
  <2>7. GuidOwned'
    BY <1>6, <2>1, <2>2 DEF G!Destroy, GuidInv, GuidOwned, G!Live
  <2>8. QED
    BY <2>3, <2>5, <2>6, <2>7 DEF GuidInv
<1>7. CASE UNCHANGED G!vars
  BY <1>7 DEF G!vars, GuidInv, G!TypeOK, G!CachedStringIsCurrent, GuidApart, GuidOwned, G!Live
<1>8. QED
  BY <1>1, <1>2, <1>3, <1>4, <1>5, <1>6, <1>7 DEF G!Next

LEMMA GuidInvHolds == ObjectsSpec => []GuidInv
<1>1. G!Spec => []GuidInv
  BY InitGuidInv, GuidStep, PTL DEF G!Spec
<1>2. QED
  BY <1>1, PartsAlone, PTL

(* The string that Utility::GUID::GetStr hands out is allocated, shows the *)
(* present value and goes with a status that lets it be returned: any      *)
(* number of objects, values and strings.                                  *)
THEOREM CachedStringIsCurrentHolds == ObjectsSpec => []CachedStringIsCurrent
<1>1. GuidInv => CachedStringIsCurrent
  BY DEF GuidInv, CachedStringIsCurrent
<1>2. QED
  BY <1>1, GuidInvHolds, PTL

(* No string leaks and none is freed twice.                                *)
THEOREM StringsOwnedOnceHolds == ObjectsSpec => []StringsOwnedOnce
<1>1. ASSUME GuidInv PROVE StringsOwnedOnce
  <2> SUFFICES ASSUME NEW s \in Strings, heap[s] # None
               PROVE  Cardinality({g \in GuidVariables : G!Live(g) /\ guids[g].mUUIDString = s}) = 1
    BY CardinalityOfParts DEF StringsOwnedOnce, G!StringsOwnedOnce
  <2>1. PICK g \in GuidVariables : G!Live(g) /\ guids[g].mUUIDString = s
    BY <1>1 DEF GuidInv, GuidOwned
  <2>2. {h \in GuidVariables : G!Live(h) /\ guids[h].mUUIDString = s} = {g}
    BY <1>1, <2>1, ObjectsAssumption DEF GuidInv, GuidApart
  <2>3. QED
    BY <2>2, FS_Singleton
<1>2. QED
  BY <1>1, GuidInvHolds, PTL

-----------------------------------------------------------------------------
(* ScreenShot.                                                             *)

(* ScreenShot: what is still to be given back where the call is.           *)
Owed(x) ==
  \/ x = "windowDC" /\ mHDC /\ pc # "gone"
  \/ x = "snapshot" /\ pc \in {"first", "entry", "found", "none"}
  \/ x = "memoryDC" /\ pc \in {"bitmap", "select", "blit", "reselect"}
  \/ x = "picture" /\ pc \in {"stream", "saveAs", "global", "lock", "write", "saved"}
  \/ x = "stream" /\ pc \in {"saveAs", "global", "lock", "write", "saved"}
  \/ x = "memory" /\ pc = "write"

ShotHolds ==
  /\ pc \in S!SearchLabels => ~mHDC
  /\ \A x \in S!Things : held[x] = IF Owed(x) THEN 1 ELSE 0

(* ScreenShot: the bitmap that will still be deleted.                      *)
Mine == IF pc \in {"select", "blit", "reselect"} THEN hBitmap
        ELSE IF pc \in {"dc", "bitmap"} THEN None ELSE mHBITMAP

(* ScreenShot: the other ones were left by steps that failed.              *)
ShotCounts ==
  /\ pc # "gone" => Mine \in bitmaps \cup {None}
  /\ pc \in {"select", "blit", "reselect"} => Mine # None
  /\ Cardinality(bitmaps \ {Mine}) = failed

ShotInv == S!TypeOK /\ ShotHolds /\ ShotCounts

LEMMA BitmapsFinite ==
  ASSUME ShotInv
  PROVE  /\ IsFiniteSet(bitmaps)
         /\ \A b : /\ IsFiniteSet(bitmaps \ {b})
                   /\ Cardinality(bitmaps \ {b}) =
                        IF b \in bitmaps THEN Cardinality(bitmaps) - 1 ELSE Cardinality(bitmaps)
<1>1. IsFiniteSet(bitmaps)
  BY FS_Subset, ObjectsAssumption DEF ShotInv, S!TypeOK
<1>2. QED
  BY <1>1, FS_RemoveElement

(* The history variable counts bitmaps, so it is within its bound.         *)
LEMMA FailedBound ==
  ASSUME S!Cardinality(Bitmaps) = Cardinality(Bitmaps), NEW T \in SUBSET Bitmaps
  PROVE  Cardinality(T) \in 0 .. S!Cardinality(Bitmaps)
<1>1. IsFiniteSet(T) /\ Cardinality(T) <= Cardinality(Bitmaps)
  BY FS_Subset, ObjectsAssumption
<1>2. Cardinality(T) \in Nat /\ Cardinality(Bitmaps) \in Nat
  BY <1>1, FS_CardinalityType, ObjectsAssumption
<1>3. QED
  BY <1>1, <1>2

LEMMA InitShotInv == S!Init => ShotInv
<1> SUFFICES ASSUME S!Init PROVE ShotInv
  OBVIOUS
<1>1. bitmaps \ {Mine} = {}
  BY DEF S!Init
<1>2. Cardinality({}) = 0
  BY FS_EmptySet
<1>3. ShotCounts
  BY <1>1, <1>2 DEF S!Init, ShotCounts, Mine
<1>4. ShotHolds
  BY DEF S!Init, ShotHolds, Owed, S!Things, S!SearchLabels
<1>5. 0 \in 0 .. S!Cardinality(Bitmaps)
  BY <1>2, FailedBound, CardinalityOfParts
<1>6. S!TypeOK
  <2>1. held \in [S!Things -> 0 .. 1]
    BY DEF S!Init
  <2>2. QED
    BY <1>5, <2>1 DEF S!Init, S!TypeOK, S!SearchLabels
<1>7. QED
  BY <1>3, <1>4, <1>6 DEF ShotInv

ShotLabels == {"idle", "gone"} \cup S!SearchLabels \cup S!TakeLabels \cup S!SaveLabels

(* What a step does to held.                                               *)
LEMMA HoldsStep == ShotInv /\ [S!Next]_(S!vars) => ShotHolds'
<1> SUFFICES ASSUME ShotInv, [S!Next]_(S!vars) PROVE ShotHolds'
  OBVIOUS
<1> USE DEF ShotHolds, Owed, S!Goto, S!Things, S!SearchLabels
<1>0. /\ ShotHolds /\ mHDC \in BOOLEAN /\ held \in [S!Things -> 0 .. 1]
      /\ pc \in ShotLabels
  BY DEF ShotInv, S!TypeOK, ShotLabels
<1>1. CASE S!GetPID
  BY <1>0, <1>1 DEF S!GetPID, S!Acquire, S!Release
<1>2. CASE S!Construct
  BY <1>0, <1>2 DEF S!Construct, S!Acquire
<1>3. CASE S!Take
  BY <1>0, <1>3 DEF S!Take
<1>4. CASE S!DeleteOld
  BY <1>0, <1>4 DEF S!DeleteOld
<1>5. CASE S!CreateDC
  BY <1>0, <1>5 DEF S!CreateDC, S!TakeReturns, S!Acquire
<1>6. CASE S!CreateBitmap
  BY <1>0, <1>6 DEF S!CreateBitmap, S!TakeReturns, S!Release
<1>7. CASE S!SelectBitmap
  BY <1>0, <1>7 DEF S!SelectBitmap, S!Drawing, S!DrawFails, S!TakeReturns, S!Release
<1>8. CASE S!Blit
  BY <1>0, <1>8 DEF S!Blit, S!Drawing, S!DrawFails, S!TakeReturns, S!Release
<1>9. CASE S!SelectOld
  BY <1>0, <1>9 DEF S!SelectOld, S!DrawFails, S!TakeReturns, S!Release
<1>10. CASE S!Saves
  <2>0. mHDC' = mHDC
    BY <1>10 DEF S!Saves
  <2>1. CASE S!Save
    BY <1>0, <2>0, <2>1 DEF S!Save
  <2>2. CASE S!CreatePicture
    BY <1>0, <2>0, <2>2 DEF S!CreatePicture, S!Acquire
  <2>3. CASE S!CreateStream
    BY <1>0, <2>0, <2>3 DEF S!CreateStream, S!Acquire, S!Release
  <2>4. CASE S!SaveAsFile
    BY <1>0, <2>0, <2>4 DEF S!SaveAsFile, S!Release
  <2>5. CASE S!GetMemory
    BY <1>0, <2>0, <2>5 DEF S!GetMemory, S!Release
  <2>6. CASE S!Write
    BY <1>0, <2>0, <2>6 DEF S!Write, S!Acquire, S!Release
  <2>7. QED
    BY <1>10, <2>1, <2>2, <2>3, <2>4, <2>5, <2>6 DEF S!Saves
<1>11. CASE S!Destroy
  BY <1>0, <1>11 DEF S!Destroy, S!Release
<1>12. CASE UNCHANGED S!vars
  BY <1>0, <1>12 DEF S!vars
<1>13. QED
  BY <1>1, <1>2, <1>3, <1>4, <1>5, <1>6, <1>7, <1>8, <1>9, <1>10, <1>11, <1>12 DEF S!Next

(* What a step does to the bitmaps and their count.                        *)
LEMMA CountsStep == ShotInv /\ [S!Next]_(S!vars) => ShotCounts' /\ bitmaps' \subseteq Bitmaps
<1> SUFFICES ASSUME ShotInv, [S!Next]_(S!vars) PROVE ShotCounts' /\ bitmaps' \subseteq Bitmaps
  OBVIOUS
<1> DEFINE Same == bitmaps' = bitmaps /\ failed' = failed
<1> USE DEF ShotCounts, Mine, ShotLabels, S!SearchLabels, S!SaveLabels, S!TakeLabels, S!Goto
<1>0. /\ ShotCounts
      /\ bitmaps \subseteq Bitmaps
      /\ failed \in Nat
      /\ pc \in ShotLabels
      /\ None \notin Bitmaps
  <2>1. failed \in Nat
    BY FailedBound, FS_CardinalityType, CardinalityOfParts, ObjectsAssumption DEF ShotInv, S!TypeOK
  <2>2. QED
    BY <2>1, ObjectsAssumption DEF ShotInv, S!TypeOK, ShotLabels
<1>a. IsFiniteSet(bitmaps) /\ Cardinality(bitmaps) \in Nat
  BY BitmapsFinite, FS_CardinalityType
<1>1. CASE S!GetPID
  BY <1>0, <1>1 DEF S!GetPID
<1>2. CASE S!Construct
  BY <1>0, <1>2 DEF S!Construct
<1>3. CASE S!Take
  BY <1>0, <1>3 DEF S!Take
<1>4. CASE S!DeleteOld
  <2>1. bitmaps' \ {Mine'} = bitmaps \ {Mine}
    BY <1>0, <1>4 DEF S!DeleteOld
  <2>2. QED
    BY <1>0, <1>4, <2>1 DEF S!DeleteOld
<1>5. CASE S!CreateDC
  <2>1. Mine = None /\ Mine' = None
    BY <1>0, <1>5 DEF S!CreateDC, S!TakeReturns
  <2>2. QED
    BY <1>0, <1>5, <2>1 DEF S!CreateDC, S!TakeReturns
<1>6. CASE S!CreateBitmap
  <2>1. bitmaps' \ {Mine'} = bitmaps \ {Mine}
    BY <1>0, <1>6 DEF S!CreateBitmap, S!TakeReturns
  <2>2. QED
    BY <1>0, <1>6, <2>1 DEF S!CreateBitmap, S!TakeReturns
<1>7. ASSUME NEW from \in {"select", "blit", "reselect"}, S!DrawFails(from)
      PROVE  ShotCounts' /\ bitmaps' \subseteq Bitmaps
  <2>1. Mine' = None /\ bitmaps' = bitmaps /\ failed' = failed + 1 /\ pc' = "idle"
    BY <1>0, <1>7 DEF S!DrawFails, S!TakeReturns
  <2>2. bitmaps' \ {Mine'} = bitmaps
    BY <1>0, <2>1
  <2>3. Mine \in bitmaps
    BY <1>0, <1>7 DEF S!DrawFails, S!TakeReturns
  <2> HIDE DEF Mine
  <2>a. Cardinality(bitmaps \ {Mine}) = failed
    BY <1>0
  <2>4. failed = Cardinality(bitmaps) - 1
    BY <1>a, <2>3, <2>a, BitmapsFinite
  <2>5. Cardinality(bitmaps' \ {Mine'}) = failed'
    <3>1. Cardinality(bitmaps' \ {Mine'}) = Cardinality(bitmaps)
      BY <2>2
    <3>2. failed + 1 = Cardinality(bitmaps)
      BY <1>a, <2>4
    <3>3. QED
      BY <2>1, <3>1, <3>2
  <2>6. Mine' \in bitmaps' \cup {None}
    BY <2>1
  <2>7. QED
    BY <1>0, <2>1, <2>5, <2>6 DEF ShotCounts
<1>8. ASSUME NEW from, NEW to, S!Drawing(from, to),
             \/ from = "select" /\ to = "blit"
             \/ from = "blit" /\ to = "reselect"
      PROVE  ShotCounts' /\ bitmaps' \subseteq Bitmaps
  BY <1>0, <1>8 DEF S!Drawing
<1>9. CASE S!SelectBitmap \/ S!Blit \/ S!SelectOld
  <2>1. CASE S!TakeReturns("reselect", hBitmap) /\ UNCHANGED failed
    BY <1>0, <2>1 DEF S!TakeReturns
  <2>2. QED
    BY <1>7, <1>8, <1>9, <2>1 DEF S!SelectBitmap, S!Blit, S!SelectOld
<1>10. CASE S!Saves
  <2>1. UNCHANGED <<mHBITMAP, hBitmap, bitmaps, failed>>
    BY <1>10 DEF S!Saves
  <2>2. pc \in {"idle"} \cup S!SaveLabels /\ pc' \in {"idle"} \cup S!SaveLabels
    BY <1>10 DEF S!Saves, S!Save, S!CreatePicture, S!CreateStream, S!SaveAsFile, S!GetMemory, S!Write
  <2>3. QED
    BY <1>0, <2>1, <2>2
<1>11. CASE S!Destroy
  <2>1. bitmaps' \ {Mine'} = bitmaps \ {Mine}
    BY <1>0, <1>11 DEF S!Destroy
  <2>2. QED
    BY <1>0, <1>11, <2>1 DEF S!Destroy
<1>12. CASE UNCHANGED S!vars
  BY <1>0, <1>12 DEF S!vars
<1>13. QED
  BY <1>1, <1>2, <1>3, <1>4, <1>5, <1>6, <1>9, <1>10, <1>11, <1>12 DEF S!Next

LEMMA ShotStep == ShotInv /\ [S!Next]_(S!vars) => ShotInv'
<1> SUFFICES ASSUME ShotInv, [S!Next]_(S!vars) PROVE ShotInv'
  OBVIOUS
<1>1. ShotHolds' /\ ShotCounts' /\ bitmaps' \subseteq Bitmaps
  BY HoldsStep, CountsStep
<1>2. failed' \in 0 .. S!Cardinality(Bitmaps)
  BY <1>1, FailedBound, CardinalityOfParts DEF ShotCounts
<1>3. held' \in [S!Things -> 0 .. 1]
  <2>1. held \in [S!Things -> Int]
    BY DEF ShotInv, S!TypeOK
  <2>2. \/ \E x \in S!Things : S!Acquire(x)
        \/ \E things : S!Release(things)
        \/ UNCHANGED held
    BY DEF S!Next, S!vars, S!GetPID, S!Construct, S!Take, S!DeleteOld, S!CreateDC, S!CreateBitmap,
           S!SelectBitmap, S!Blit, S!SelectOld, S!Drawing, S!Saves, S!Save, S!CreatePicture,
           S!CreateStream, S!SaveAsFile, S!GetMemory, S!Write, S!Destroy, S!Things
  <2>3. held' \in [S!Things -> Int]
    <3>1. ASSUME NEW x \in S!Things, S!Acquire(x) PROVE held' \in [S!Things -> Int]
      BY <2>1, <3>1 DEF S!Acquire
    <3>2. ASSUME NEW things, S!Release(things) PROVE held' \in [S!Things -> Int]
      BY <2>1, <3>2 DEF S!Release
    <3>3. QED
      BY <2>1, <2>2, <3>1, <3>2
  <2>4. \A x \in S!Things : held'[x] \in 0 .. 1
    BY <1>1 DEF ShotHolds
  <2>5. QED
    BY <2>3, <2>4
<1>4. /\ pc' \in ShotLabels
      /\ mHDC' \in BOOLEAN
      /\ mHBITMAP' \in Bitmaps \cup {None} /\ hBitmap' \in Bitmaps \cup {None}
  <2> USE DEF ShotInv, S!TypeOK, S!vars, S!Next, S!GetPID, S!Construct, S!Take, S!DeleteOld,
              S!CreateDC, S!CreateBitmap, S!SelectBitmap, S!Blit, S!SelectOld, S!Drawing,
              S!DrawFails, S!TakeReturns, S!Saves, S!Destroy
  <2>1. pc' \in ShotLabels
    BY DEF S!Goto, ShotLabels, S!SearchLabels, S!TakeLabels, S!SaveLabels,
           S!Save, S!CreatePicture, S!CreateStream, S!SaveAsFile, S!GetMemory, S!Write
  <2>2. mHDC' \in BOOLEAN
    OBVIOUS
  <2>3. mHBITMAP' \in Bitmaps \cup {None} /\ hBitmap' \in Bitmaps \cup {None}
    OBVIOUS
  <2>4. QED
    BY <2>1, <2>2, <2>3
<1>5. QED
  BY <1>1, <1>2, <1>3, <1>4 DEF ShotInv, S!TypeOK, ShotLabels

LEMMA ShotInvHolds == ObjectsSpec => []ShotInv
<1>1. S!Spec => []ShotInv
  BY InitShotInv, ShotStep, PTL DEF S!Spec
<1>2. QED
  BY <1>1, PartsAlone, PTL

(* Whichever step of ScreenShot fails, and wherever in the search, in Take *)
(* or in Save, what the call acquired is given back once, neither less     *)
(* often nor more: between two calls only the window's context is held,    *)
(* and nothing after the destructor.                                       *)
THEOREM NothingHeldHolds == ObjectsSpec => []NothingHeld
<1>1. ASSUME ShotInv PROVE NothingHeld
  <2>1. held \in [S!Things -> 0 .. 1] /\ \A x \in S!Things : held[x] = IF Owed(x) THEN 1 ELSE 0
    BY <1>1 DEF ShotInv, S!TypeOK, ShotHolds
  <2>2. ASSUME pc = "idle"
        PROVE  held = [x \in S!Things |-> IF x = "windowDC" /\ mHDC THEN 1 ELSE 0]
    <3>1. \A x \in S!Things : held[x] = IF x = "windowDC" /\ mHDC THEN 1 ELSE 0
      BY <2>1, <2>2 DEF Owed
    <3>2. QED
      BY <2>1, <3>1
  <2>3. pc = "gone" => \A x \in S!Things : held[x] = 0
    BY <2>1 DEF Owed
  <2>4. QED
    BY <2>2, <2>3 DEF NothingHeld, S!NothingHeld
<1>2. QED
  BY <1>1, ShotInvHolds, PTL

(* The bitmaps that nobody will delete are as many as steps of _Take that  *)
(* failed with one, however many calls were made: no other path loses one. *)
THEOREM BitmapsAccountedHolds == ObjectsSpec => []BitmapsAccounted
<1>1. ShotInv => BitmapsAccounted
  BY CardinalityOfParts DEF ShotInv, ShotCounts, Mine, BitmapsAccounted, S!BitmapsAccounted
<1>2. QED
  BY <1>1, ShotInvHolds, PTL

-----------------------------------------------------------------------------
(* Accelerator.                                                            *)

(* Accelerator: the keys Check has still to read are those of the one it   *)
(* has come to, and there are none when one was up or the callback runs.   *)
AccelReading ==
  /\ \A j \in DOMAIN unread : at # 0 /\ unread[j] \in A!Used(at)
  /\ at = 0 \/ ~fire => unread = <<>>
  /\ running => at # 0 /\ fire /\ unread = <<>>

(* Accelerator: one of which no key has been up is recorded as down.       *)
AccelDown ==
  /\ \A i \in DOMAIN mAccelerators : i \notin cameUp =>
       mAccelerators[i].state /\ A!Used(i) \subseteq pressed
  /\ at # 0 /\ ~fire => at \in cameUp

(* Accelerator: what StateFollowsKeys says of one of them.                 *)
Follows(i, state) ==
  /\ A!Used(i) \subseteq pressed \cap steady => state
  /\ ~(A!Used(i) \subseteq pressed \cup (A!Keys \ steady)) => ~state

(* Accelerator: those Check is done with, and what it has found of the     *)
(* keys of the one it has come to.                                         *)
AccelFollows ==
  /\ \A i \in DOMAIN mAccelerators : i < at => Follows(i, mAccelerators[i].state)
  /\ at # 0 /\ fire => \A key \in A!Used(at) :
       (\E j \in DOMAIN unread : unread[j] = key) \/ key \in pressed \/ key \notin steady
  /\ at # 0 /\ ~fire => \E key \in A!Used(at) : key \notin pressed \cap steady

AccelInv == A!TypeOK /\ AccelReading /\ AccelDown /\ AccelFollows

AccelTypes ==
  /\ mAccelerators \in Seq([keys : Combinations, state : BOOLEAN])
  /\ pressed \subseteq A!Keys
  /\ at \in 0 .. Len(mAccelerators)
  /\ unread \in Seq(A!Keys)
  /\ fire \in BOOLEAN /\ running \in BOOLEAN
  /\ steady \subseteq A!Keys
  /\ cameUp \subseteq DOMAIN mAccelerators

LEMMA AccelTypesAre == A!TypeOK <=> AccelTypes
BY DEF A!TypeOK, AccelTypes

LEMMA ElementType ==
  ASSUME NEW T, NEW s \in Seq(T), NEW i \in DOMAIN s
  PROVE  s[i] \in T /\ i \in 1 .. Len(s)
OBVIOUS

LEMMA EmptyType ==
  ASSUME NEW T
  PROVE  <<>> \in Seq(T) /\ Len(<<>>) = 0 /\ DOMAIN <<>> = {}
OBVIOUS

(* The keys of a combination, in the sequence and as a set.                *)
LEMMA UsedKeys ==
  ASSUME AccelInv, NEW i \in DOMAIN mAccelerators
  PROVE  /\ i \in 1 .. Len(mAccelerators)
         /\ mAccelerators[i] \in [keys : Combinations, state : BOOLEAN]
         /\ mAccelerators[i].state \in BOOLEAN
         /\ mAccelerators[i].keys \in Seq(A!Keys)
         /\ A!Used(i) \subseteq A!Keys
         /\ A!Used(i) = {mAccelerators[i].keys[j] : j \in DOMAIN mAccelerators[i].keys}
<1>0. mAccelerators \in Seq([keys : Combinations, state : BOOLEAN])
  BY DEF AccelInv, A!TypeOK
<1>1. mAccelerators[i] \in [keys : Combinations, state : BOOLEAN] /\ i \in 1 .. Len(mAccelerators)
  BY <1>0, ElementType
<1>2. mAccelerators[i].keys \in Seq(A!Keys)
  BY <1>1, ObjectsAssumption
<1>3. \A j \in DOMAIN mAccelerators[i].keys : mAccelerators[i].keys[j] \in A!Keys
  BY <1>2
<1>4. QED
  BY <1>1, <1>2, <1>3 DEF A!Used

LEMMA InitAccelInv == A!Init => AccelInv
<1> SUFFICES ASSUME A!Init PROVE AccelInv
  OBVIOUS
<1>1. AccelTypes
  <2>1. mAccelerators \in Seq([keys : Combinations, state : BOOLEAN]) /\ unread \in Seq(A!Keys)
    BY EmptyType, Zenon DEF A!Init
  <2>2. at \in 0 .. Len(mAccelerators)
    BY DEF A!Init
  <2>3. QED
    BY <2>1, <2>2 DEF A!Init, AccelTypes
<1>2. at = 0 /\ unread = <<>> /\ ~running /\ DOMAIN mAccelerators = {}
  BY DEF A!Init
<1>a. AccelReading
  BY <1>2 DEF AccelReading
<1>b. AccelDown
  BY <1>2 DEF AccelDown
<1>c. AccelFollows
  BY <1>2 DEF AccelFollows
<1>3. QED
  BY <1>1, <1>a, <1>b, <1>c, AccelTypesAre DEF AccelInv

(* Check goes on to i, or returns: nothing is read of i yet.               *)
LEMMA GoOnReading ==
  ASSUME AccelInv, NEW i \in Nat, A!GoOn(i),
         DOMAIN mAccelerators' = DOMAIN mAccelerators,
         \A j \in DOMAIN mAccelerators : A!Used(j)' = A!Used(j)
  PROVE  /\ pressed' = pressed /\ running' = FALSE /\ fire' = TRUE
         /\ at' \in 0 .. Len(mAccelerators) /\ unread' \in Seq(A!Keys)
         /\ at' = IF i \in DOMAIN mAccelerators THEN i ELSE 0
         /\ AccelReading'
         /\ at' # 0 => \A key \in A!Used(at') : \E j \in DOMAIN unread' : unread'[j] = key
<1>1. CASE i \in DOMAIN mAccelerators
  <2>1. at' = i /\ unread' = mAccelerators[i].keys /\ running' = FALSE /\ fire' = TRUE /\ pressed' = pressed
    BY <1>1 DEF A!GoOn
  <2>2. A!Used(i)' = {mAccelerators[i].keys[j] : j \in DOMAIN mAccelerators[i].keys}
    BY <1>1, UsedKeys
  <2>3. i # 0 /\ i \in 0 .. Len(mAccelerators) /\ mAccelerators[i].keys \in Seq(A!Keys)
    BY <1>1, UsedKeys
  <2>4. AccelReading'
    BY <2>1, <2>2, <2>3 DEF AccelReading, A!Used
  <2>5. A!Used(at') = {mAccelerators[i].keys[j] : j \in DOMAIN mAccelerators[i].keys}
    BY <1>1, <2>1, UsedKeys
  <2>6. QED
    BY <1>1, <2>1, <2>3, <2>4, <2>5
<1>2. CASE i \notin DOMAIN mAccelerators
  <2>1. at' = 0 /\ unread' = <<>> /\ running' = FALSE /\ fire' = TRUE /\ pressed' = pressed
    BY <1>2 DEF A!GoOn
  <2>2. AccelReading'
    BY <2>1 DEF AccelReading
  <2>3. 0 \in 0 .. Len(mAccelerators) /\ <<>> \in Seq(A!Keys)
    BY DEF AccelInv, A!TypeOK
  <2>4. QED
    BY <1>2, <2>1, <2>2, <2>3
<1>3. QED
  BY <1>1, <1>2

LEMMA ExceptType ==
  ASSUME NEW T, NEW s \in Seq(T), NEW i \in DOMAIN s, NEW x \in T
  PROVE  /\ [s EXCEPT ![i] = x] \in Seq(T)
         /\ Len([s EXCEPT ![i] = x]) = Len(s)
         /\ DOMAIN [s EXCEPT ![i] = x] = DOMAIN s
         /\ [s EXCEPT ![i] = x][i] = x
         /\ \A j \in DOMAIN s : j # i => [s EXCEPT ![i] = x][j] = s[j]
OBVIOUS

(* Check stores what it has found.                                         *)
LEMMA StoreStep ==
  ASSUME AccelInv, at # 0, A!StoreState
  PROVE  /\ at \in DOMAIN mAccelerators
         /\ mAccelerators' \in Seq([keys : Combinations, state : BOOLEAN])
         /\ Len(mAccelerators') = Len(mAccelerators)
         /\ DOMAIN mAccelerators' = DOMAIN mAccelerators
         /\ \A j \in DOMAIN mAccelerators : A!Used(j)' = A!Used(j)
         /\ \A j \in DOMAIN mAccelerators : j # at => mAccelerators'[j].state = mAccelerators[j].state
         /\ mAccelerators'[at].state = fire
<1> DEFINE rec == [mAccelerators[at] EXCEPT !.state = fire]
<1>1. /\ at \in DOMAIN mAccelerators
      /\ mAccelerators \in Seq([keys : Combinations, state : BOOLEAN])
      /\ fire \in BOOLEAN
  BY DEF AccelInv, A!TypeOK
<1>2. mAccelerators[at] \in [keys : Combinations, state : BOOLEAN]
  BY <1>1, ElementType
<1>3. /\ rec \in [keys : Combinations, state : BOOLEAN]
      /\ rec.keys = mAccelerators[at].keys /\ rec.state = fire
  BY <1>1, <1>2
<1>4. mAccelerators' = [mAccelerators EXCEPT ![at] = rec]
  BY DEF A!StoreState
<1> HIDE DEF rec
<1>5. /\ mAccelerators' \in Seq([keys : Combinations, state : BOOLEAN])
      /\ Len(mAccelerators') = Len(mAccelerators)
      /\ DOMAIN mAccelerators' = DOMAIN mAccelerators
      /\ mAccelerators'[at] = rec
      /\ \A j \in DOMAIN mAccelerators : j # at => mAccelerators'[j] = mAccelerators[j]
  BY <1>1, <1>3, <1>4, ExceptType
<1>6. \A j \in DOMAIN mAccelerators : mAccelerators'[j].keys = mAccelerators[j].keys
  BY <1>3, <1>5
<1>7. \A j \in DOMAIN mAccelerators : A!Used(j)' = A!Used(j)
  BY <1>6 DEF A!Used
<1>8. QED
  BY <1>1, <1>3, <1>5, <1>7

(* A step that changes none of the accelerators.                           *)
LEMMA UsedStays == mAccelerators' = mAccelerators => \A i : A!Used(i)' = A!Used(i)
BY DEF A!Used

LEMMA KeyStep ==
  ASSUME AccelInv, NEW key \in A!Keys, A!KeyChanges(key)
  PROVE  AccelInv'
<1>1. /\ mAccelerators' = mAccelerators /\ at' = at /\ unread' = unread /\ fire' = fire /\ running' = running
      /\ \A i : A!Used(i)' = A!Used(i)
  BY UsedStays DEF A!KeyChanges
<1>2. AccelTypes
  BY AccelTypesAre DEF AccelInv
<1>3. AccelTypes'
  BY <1>1, <1>2 DEF AccelTypes, A!KeyChanges
<1>4. AccelReading'
  BY <1>1 DEF AccelInv, AccelReading
<1>5. AccelDown'
  <2>1. cameUp' = cameUp \cup {i \in DOMAIN mAccelerators : ~(A!Used(i) \subseteq pressed')}
    BY DEF A!KeyChanges
  <2>2. QED
    BY <1>1, <2>1 DEF AccelInv, AccelDown
<1>6. /\ steady' = steady \ {key}
      /\ \A k \in A!Keys : k # key => (k \in pressed' <=> k \in pressed)
  BY DEF A!KeyChanges
<1>7. ASSUME NEW i \in DOMAIN mAccelerators, NEW state, Follows(i, state)
      PROVE  Follows(i, state)'
  <2>1. A!Used(i) \subseteq A!Keys
    BY UsedKeys
  <2>2. QED
    BY <1>1, <1>2, <1>3, <1>6, <1>7, <2>1 DEF Follows, AccelTypes
<1>8. ASSUME at # 0 PROVE A!Used(at) \subseteq A!Keys
  BY <1>2, <1>8, UsedKeys DEF AccelTypes
<1>9. AccelFollows'
  <2>1. \A i \in DOMAIN mAccelerators' : i < at' => Follows(i, mAccelerators[i].state)'
    BY <1>1, <1>7 DEF AccelInv, AccelFollows
  <2>2. (at # 0 /\ fire => \A k \in A!Used(at) :
       (\E j \in DOMAIN unread : unread[j] = k) \/ k \in pressed \/ k \notin steady)'
    BY <1>1, <1>6, <1>8 DEF AccelInv, AccelFollows
  <2>3. (at # 0 /\ ~fire => \E k \in A!Used(at) : k \notin pressed \cap steady)'
    BY <1>1, <1>6, <1>8 DEF AccelInv, AccelFollows
  <2>4. QED
    BY <2>1, <2>2, <2>3 DEF AccelFollows
<1>10. QED
  BY <1>3, <1>4, <1>5, <1>9, AccelTypesAre, PTL DEF AccelInv

LEMMA AppendType ==
  ASSUME NEW T, NEW s \in Seq(T), NEW x \in T
  PROVE  /\ Append(s, x) \in Seq(T)
         /\ Len(Append(s, x)) = Len(s) + 1
         /\ DOMAIN Append(s, x) = DOMAIN s \cup {Len(s) + 1}
         /\ Len(s) + 1 \notin DOMAIN s
         /\ Append(s, x)[Len(s) + 1] = x
         /\ \A j \in DOMAIN s : Append(s, x)[j] = s[j]
OBVIOUS

LEMMA RegisterStep ==
  ASSUME AccelInv, NEW keys \in Combinations, A!Register(keys)
  PROVE  AccelInv'
<1> DEFINE last == Len(mAccelerators) + 1
           new == [keys |-> keys, state |-> FALSE]
<1>0. AccelTypes
  BY AccelTypesAre DEF AccelInv
<1>1. new \in [keys : Combinations, state : BOOLEAN]
  OBVIOUS
<1>2. /\ mAccelerators' = Append(mAccelerators, new) /\ cameUp' = cameUp \cup {last}
      /\ at = 0 /\ at' = at /\ unread' = unread /\ fire' = fire /\ running' = running
      /\ pressed' = pressed /\ steady' = steady
  BY DEF A!Register
<1> HIDE DEF new
<1>3. /\ mAccelerators' \in Seq([keys : Combinations, state : BOOLEAN])
      /\ Len(mAccelerators') = last
      /\ DOMAIN mAccelerators' = DOMAIN mAccelerators \cup {last}
      /\ \A j \in DOMAIN mAccelerators : mAccelerators'[j] = mAccelerators[j]
  BY <1>0, <1>1, <1>2, AppendType DEF AccelTypes
<1>4. AccelTypes'
  <2>1. at' \in 0 .. Len(mAccelerators')
    BY <1>0, <1>2, <1>3 DEF AccelTypes
  <2>2. QED
    BY <1>0, <1>2, <1>3, <2>1 DEF AccelTypes
<1>5. \A j \in DOMAIN mAccelerators : A!Used(j)' = A!Used(j)
  BY <1>3 DEF A!Used
<1>6. AccelReading'
  BY <1>2 DEF AccelInv, AccelReading
<1>7. AccelDown'
  <2>1. \A i \in DOMAIN mAccelerators' : i \notin cameUp' => i \in DOMAIN mAccelerators /\ i \notin cameUp
    BY <1>2, <1>3
  <2>2. QED
    BY <1>2, <1>3, <1>5, <2>1 DEF AccelInv, AccelDown
<1>8. AccelFollows'
  <2>1. \A i \in DOMAIN mAccelerators' : ~(i < at')
    BY <1>0, <1>2, <1>3 DEF AccelTypes
  <2>2. QED
    BY <1>2, <2>1 DEF AccelFollows
<1>9. QED
  BY <1>4, <1>6, <1>7, <1>8, AccelTypesAre, PTL DEF AccelInv

LEMMA BeginsStep ==
  ASSUME AccelInv, A!CheckBegins
  PROVE  AccelInv'
<1>0. AccelTypes
  BY AccelTypesAre DEF AccelInv
<1>1. /\ mAccelerators' = mAccelerators /\ cameUp' = cameUp /\ steady' = A!Keys /\ A!GoOn(1)
      /\ at = 0
  BY DEF A!CheckBegins
<1>2. \A i : A!Used(i)' = A!Used(i)
  BY <1>1, UsedStays
<1>3. /\ pressed' = pressed /\ running' = FALSE /\ fire' = TRUE
      /\ at' \in 0 .. Len(mAccelerators) /\ unread' \in Seq(A!Keys)
      /\ at' = IF 1 \in DOMAIN mAccelerators THEN 1 ELSE 0
      /\ AccelReading'
      /\ at' # 0 => \A key \in A!Used(at') : \E j \in DOMAIN unread' : unread'[j] = key
  BY <1>1, <1>2, GoOnReading
<1>4. AccelTypes'
  BY <1>0, <1>1, <1>3 DEF AccelTypes
<1>5. AccelDown'
  BY <1>1, <1>2, <1>3 DEF AccelInv, AccelDown
<1>6. AccelFollows'
  <2>1. \A i \in DOMAIN mAccelerators' : ~(i < at')
    BY <1>0, <1>1, <1>3 DEF AccelTypes
  <2>2. A!Used(at)' = A!Used(at')
    BY <1>1 DEF A!Used
  <2>3. QED
    BY <1>1, <1>3, <2>1, <2>2 DEF AccelFollows
<1>9. QED
  BY <1>3, <1>4, <1>5, <1>6, AccelTypesAre, PTL DEF AccelInv

LEMMA HeadAndTail ==
  ASSUME NEW T, NEW s \in Seq(T), s # <<>>
  PROVE  /\ 1 \in DOMAIN s /\ Head(s) = s[1] /\ Head(s) \in T
         /\ Tail(s) \in Seq(T)
         /\ \A i \in DOMAIN Tail(s) : i + 1 \in DOMAIN s /\ Tail(s)[i] = s[i + 1]
         /\ \A i \in DOMAIN s : i # 1 => i - 1 \in DOMAIN Tail(s) /\ Tail(s)[i - 1] = s[i]
OBVIOUS

LEMMA ReadStep ==
  ASSUME AccelInv, A!ReadKey
  PROVE  AccelInv'
<1>0. AccelTypes
  BY AccelTypesAre DEF AccelInv
<1>1. /\ pressed' = pressed /\ mAccelerators' = mAccelerators /\ at' = at /\ running' = running
      /\ steady' = steady /\ cameUp' = cameUp
      /\ \A i : A!Used(i)' = A!Used(i)
      /\ unread # <<>>
      /\ fire' = (Head(unread) \in pressed)
      /\ unread' = IF fire' THEN Tail(unread) ELSE <<>>
  BY UsedStays DEF A!ReadKey
<1>2. /\ 1 \in DOMAIN unread /\ Head(unread) = unread[1] /\ Head(unread) \in A!Keys
      /\ Tail(unread) \in Seq(A!Keys)
      /\ \A i \in DOMAIN Tail(unread) : i + 1 \in DOMAIN unread /\ Tail(unread)[i] = unread[i + 1]
      /\ \A i \in DOMAIN unread : i # 1 => i - 1 \in DOMAIN Tail(unread) /\ Tail(unread)[i - 1] = unread[i]
  BY <1>0, <1>1, HeadAndTail DEF AccelTypes
<1>3. <<>> \in Seq(A!Keys) /\ DOMAIN <<>> = {}
  BY EmptyType
<1>4. at # 0 /\ fire /\ ~running /\ Head(unread) \in A!Used(at) /\ at \in DOMAIN mAccelerators
  <2>1. at # 0 /\ fire /\ ~running /\ unread[1] \in A!Used(at)
    BY <1>1, <1>2 DEF AccelInv, AccelReading
  <2>2. QED
    BY <1>0, <1>2, <2>1 DEF AccelTypes
<1>5. AccelTypes'
  <2>1. unread' \in Seq(A!Keys)
    BY <1>1, <1>2, <1>3
  <2>2. fire' \in BOOLEAN
    BY <1>1
  <2>3. QED
    BY <1>0, <1>1, <2>1, <2>2 DEF AccelTypes
<1>6. AccelReading'
  BY <1>1, <1>2, <1>3, <1>4 DEF AccelInv, AccelReading
<1>7. AccelDown'
  <2>1. ASSUME ~fire' PROVE at \in cameUp
    BY <1>1, <1>4, <2>1 DEF AccelInv, AccelDown
  <2>2. QED
    BY <1>1, <2>1 DEF AccelInv, AccelDown
<1>8. AccelFollows'
  <2>1. \A i \in DOMAIN mAccelerators' : i < at' => Follows(i, mAccelerators[i].state)'
    BY <1>1 DEF AccelInv, AccelFollows, Follows
  <2>2. (at # 0 /\ fire => \A k \in A!Used(at) :
       (\E j \in DOMAIN unread : unread[j] = k) \/ k \in pressed \/ k \notin steady)'
    <3> SUFFICES ASSUME fire', NEW k \in A!Used(at), k \notin pressed, k \in steady
                 PROVE  \E j \in DOMAIN unread' : unread'[j] = k
      BY <1>1
    <3>1. PICK j \in DOMAIN unread : unread[j] = k
      BY <1>4 DEF AccelInv, AccelFollows
    <3>2. j # 1
      BY <1>1, <1>2, <3>1
    <3>3. QED
      BY <1>1, <1>2, <3>1, <3>2
  <2>3. (at # 0 /\ ~fire => \E k \in A!Used(at) : k \notin pressed \cap steady)'
    BY <1>1, <1>4
  <2>4. QED
    BY <2>1, <2>2, <2>3 DEF AccelFollows
<1>9. QED
  BY <1>5, <1>6, <1>7, <1>8, AccelTypesAre, PTL DEF AccelInv

(* What Check has found out agrees with what the keys did meanwhile.       *)
LEMMA FoundFollows ==
  ASSUME AccelInv, at # 0, unread = <<>>
  PROVE  Follows(at, fire)
<1>1. DOMAIN unread = {}
  BY EmptyType
<1>2. at \in DOMAIN mAccelerators
  BY DEF AccelInv, A!TypeOK
<1>3. A!Used(at) \subseteq A!Keys /\ fire \in BOOLEAN
  BY <1>2, UsedKeys DEF AccelInv, A!TypeOK
<1>4. CASE fire
  BY <1>1, <1>3, <1>4 DEF Follows, AccelInv, AccelFollows
<1>5. CASE ~fire
  BY <1>1, <1>3, <1>5 DEF Follows, AccelInv, AccelFollows
<1>6. QED
  BY <1>4, <1>5

(* Check stores what it has found, and goes on: whether a callback was     *)
(* called or not.                                                          *)
LEMMA DoneStep ==
  ASSUME AccelInv, at # 0, unread = <<>>, A!StoreState, A!GoOn(at + 1), steady' = steady
  PROVE  /\ AccelTypes' <=> cameUp' \subseteq DOMAIN mAccelerators
         /\ AccelReading'
         /\ AccelFollows'
         /\ fire' /\ pressed' = pressed
         /\ at' = IF at + 1 \in DOMAIN mAccelerators THEN at + 1 ELSE 0
         /\ \A i \in DOMAIN mAccelerators : i <= at => Follows(i, mAccelerators'[i].state)
<1>0. AccelTypes
  BY AccelTypesAre DEF AccelInv
<1>1. /\ at \in DOMAIN mAccelerators
      /\ mAccelerators' \in Seq([keys : Combinations, state : BOOLEAN])
      /\ Len(mAccelerators') = Len(mAccelerators)
      /\ DOMAIN mAccelerators' = DOMAIN mAccelerators
      /\ \A j \in DOMAIN mAccelerators : A!Used(j)' = A!Used(j)
      /\ \A j \in DOMAIN mAccelerators : j # at => mAccelerators'[j].state = mAccelerators[j].state
      /\ mAccelerators'[at].state = fire
  BY StoreStep
<1>2. at \in Nat /\ at + 1 \in Nat /\ DOMAIN mAccelerators = 1 .. Len(mAccelerators)
  BY <1>0 DEF AccelTypes
<1>3. /\ pressed' = pressed /\ running' = FALSE /\ fire' = TRUE
      /\ at' \in 0 .. Len(mAccelerators) /\ unread' \in Seq(A!Keys)
      /\ at' = IF at + 1 \in DOMAIN mAccelerators THEN at + 1 ELSE 0
      /\ AccelReading'
      /\ at' # 0 => \A key \in A!Used(at') : \E j \in DOMAIN unread' : unread'[j] = key
  BY <1>1, <1>2, GoOnReading
<1>4. AccelTypes' <=> cameUp' \subseteq DOMAIN mAccelerators
  BY <1>0, <1>1, <1>3 DEF AccelTypes
<1>5. \A i \in DOMAIN mAccelerators : i <= at => Follows(i, mAccelerators'[i].state)
  <2>1. ASSUME NEW i \in DOMAIN mAccelerators, i < at PROVE Follows(i, mAccelerators'[i].state)
    BY <1>0, <1>1, <1>2, <2>1 DEF AccelInv, AccelFollows
  <2>2. Follows(at, mAccelerators'[at].state)
    BY <1>1, FoundFollows
  <2>3. QED
    BY <1>2, <2>1, <2>2
<1>6. AccelFollows'
  <2>1. ASSUME NEW i \in DOMAIN mAccelerators, i < at'
        PROVE  Follows(i, mAccelerators[i].state)'
    <3>1. i <= at
      BY <1>2, <1>3, <2>1
    <3>2. Follows(i, mAccelerators'[i].state)
      BY <1>5, <2>1, <3>1
    <3>3. QED
      BY <1>1, <1>3, <2>1, <3>2 DEF Follows
  <2>2. A!Used(at)' = A!Used(at') \/ at' = 0
    BY <1>1, <1>3
  <2>3. QED
    BY <1>1, <1>3, <2>1, <2>2 DEF AccelFollows
<1>7. QED
  BY <1>3, <1>4, <1>5, <1>6

LEMMA PassesStep ==
  ASSUME AccelInv, A!CheckPasses
  PROVE  AccelInv'
<1>1. at # 0 /\ unread = <<>> /\ A!StoreState /\ A!GoOn(at + 1) /\ steady' = steady /\ cameUp' = cameUp
  BY DEF A!CheckPasses, A!HaveRead
<1>2. AccelTypes
  BY AccelTypesAre DEF AccelInv
<1>3. AccelTypes' /\ AccelReading' /\ AccelFollows' /\ fire' /\ pressed' = pressed
  BY <1>1, <1>2, DoneStep DEF AccelTypes
<1>4. AccelDown'
  <2>1. /\ DOMAIN mAccelerators' = DOMAIN mAccelerators
        /\ \A j \in DOMAIN mAccelerators : A!Used(j)' = A!Used(j)
        /\ \A j \in DOMAIN mAccelerators : j # at => mAccelerators'[j].state = mAccelerators[j].state
        /\ mAccelerators'[at].state = fire
    BY <1>1, StoreStep
  <2>2. at \notin cameUp => fire
    BY <1>1 DEF AccelInv, AccelDown
  <2>3. QED
    BY <1>1, <1>3, <2>1, <2>2 DEF AccelInv, AccelDown
<1>5. QED
  BY <1>3, <1>4, AccelTypesAre, PTL DEF AccelInv

LEMMA ReturnsStep ==
  ASSUME AccelInv, A!CallbackReturns
  PROVE  AccelInv'
<1>1. /\ at # 0 /\ fire /\ unread = <<>>
      /\ A!StoreState /\ A!GoOn(at + 1) /\ steady' = steady
      /\ cameUp' = IF A!Used(at) \subseteq pressed THEN cameUp \ {at} ELSE cameUp \cup {at}
  BY DEF A!CallbackReturns, AccelInv, AccelReading
<1>2. AccelTypes
  BY AccelTypesAre DEF AccelInv
<1>3. /\ at \in DOMAIN mAccelerators
      /\ DOMAIN mAccelerators' = DOMAIN mAccelerators
      /\ \A j \in DOMAIN mAccelerators : A!Used(j)' = A!Used(j)
      /\ \A j \in DOMAIN mAccelerators : j # at => mAccelerators'[j].state = mAccelerators[j].state
      /\ mAccelerators'[at].state = fire
  BY <1>1, StoreStep
<1>4. cameUp' \subseteq DOMAIN mAccelerators
  BY <1>1, <1>2, <1>3 DEF AccelTypes
<1>5. AccelTypes' /\ AccelReading' /\ AccelFollows' /\ fire' /\ pressed' = pressed
  BY <1>1, <1>4, DoneStep
<1>6. AccelDown'
  BY <1>1, <1>3, <1>5 DEF AccelInv, AccelDown
<1>7. QED
  BY <1>5, <1>6, AccelTypesAre, PTL DEF AccelInv

LEMMA ThrowsStep ==
  ASSUME AccelInv, A!CallbackThrows
  PROVE  AccelInv'
<1>0. AccelTypes
  BY AccelTypesAre DEF AccelInv
<1>1. /\ mAccelerators' = mAccelerators /\ steady' = steady /\ cameUp' = cameUp /\ A!GoOn(0)
      /\ 0 \notin DOMAIN mAccelerators
      /\ \A i : A!Used(i)' = A!Used(i)
  BY <1>0, UsedStays DEF A!CallbackThrows, AccelTypes
<1>2. /\ pressed' = pressed /\ running' = FALSE /\ fire' = TRUE
      /\ at' = 0 /\ unread' \in Seq(A!Keys)
      /\ AccelReading'
  BY <1>1, GoOnReading
<1>3. AccelTypes'
  <2>1. 0 \in 0 .. Len(mAccelerators)
    BY <1>0 DEF AccelTypes
  <2>2. QED
    BY <1>0, <1>1, <1>2, <2>1 DEF AccelTypes
<1>4. AccelDown'
  BY <1>1, <1>2 DEF AccelInv, AccelDown
<1>5. AccelFollows'
  <2>1. \A i \in DOMAIN mAccelerators' : ~(i < at')
    BY <1>0, <1>1, <1>2 DEF AccelTypes
  <2>2. QED
    BY <1>2, <2>1 DEF AccelFollows
<1>6. QED
  BY <1>2, <1>3, <1>4, <1>5, AccelTypesAre, PTL DEF AccelInv

(* A step after which the callback runs, or nothing has changed.           *)
LEMMA RunsStep ==
  ASSUME AccelInv, UNCHANGED <<pressed, mAccelerators, at, unread, fire, steady, cameUp>>,
         running' = running \/ (running' = TRUE /\ at # 0 /\ fire /\ unread = <<>>)
  PROVE  AccelInv'
<1>0. AccelTypes
  BY AccelTypesAre DEF AccelInv
<1>1. \A i : A!Used(i)' = A!Used(i)
  BY UsedStays
<1>2. AccelTypes'
  BY <1>0 DEF AccelTypes
<1>3. AccelReading'
  BY <1>1 DEF AccelInv, AccelReading
<1>4. AccelDown'
  BY <1>1 DEF AccelInv, AccelDown
<1>5. AccelFollows'
  <2>1. \A i \in DOMAIN mAccelerators' : i < at' => Follows(i, mAccelerators[i].state)'
    BY <1>1 DEF AccelInv, AccelFollows, Follows
  <2>2. QED
    BY <1>1, <2>1 DEF AccelInv, AccelFollows
<1>6. QED
  BY <1>2, <1>3, <1>4, <1>5, AccelTypesAre, PTL DEF AccelInv

LEMMA AccelStep == AccelInv /\ [A!Next]_(A!vars) => AccelInv'
<1> SUFFICES ASSUME AccelInv, [A!Next]_(A!vars) PROVE AccelInv'
  OBVIOUS
<1>1. ASSUME NEW key \in A!Keys, A!KeyChanges(key) PROVE AccelInv'
  BY <1>1, KeyStep
<1>2. ASSUME NEW keys \in Combinations, A!Register(keys) PROVE AccelInv'
  BY <1>2, RegisterStep
<1>3. CASE A!CheckBegins
  BY <1>3, BeginsStep
<1>4. CASE A!ReadKey
  BY <1>4, ReadStep
<1>5. CASE A!CheckPasses
  BY <1>5, PassesStep
<1>6. CASE A!CallbackBegins
  BY <1>6, RunsStep DEF A!CallbackBegins, A!Fires, A!HaveRead
<1>7. CASE A!CallbackReturns
  BY <1>7, ReturnsStep
<1>8. CASE A!CallbackThrows
  BY <1>8, ThrowsStep
<1>9. CASE UNCHANGED A!vars
  BY <1>9, RunsStep DEF A!vars
<1>10. QED
  BY <1>1, <1>2, <1>3, <1>4, <1>5, <1>6, <1>7, <1>8, <1>9 DEF A!Next

LEMMA AccelInvHolds == ObjectsSpec => []AccelInv /\ [][A!Next]_(A!vars)
<1>1. A!Spec => []AccelInv /\ [][A!Next]_(A!vars)
  BY InitAccelInv, AccelStep, PTL DEF A!Spec
<1>2. QED
  BY <1>1, PartsAlone, PTL

(* The running flag of the callback rises only for an accelerator one of   *)
(* whose keys has been up since the callback returned last: for any keys,  *)
(* combinations that share keys, and number of accelerators.  One that     *)
(* threw may be called again.                                              *)
THEOREM OncePerPressHolds == ObjectsSpec => OncePerPress
<1>1. ASSUME AccelInv, [A!Next]_(A!vars), running', ~running PROVE at \in cameUp
  <2>1. A!Fires
    <3>1. CASE A!CallbackBegins
      BY <3>1 DEF A!CallbackBegins
    <3>2. CASE ~A!CallbackBegins
      BY <1>1, <3>2 DEF A!Next, A!vars, A!KeyChanges, A!Register, A!CheckBegins, A!ReadKey,
           A!CheckPasses, A!CallbackReturns, A!CallbackThrows, A!GoOn
    <3>3. QED
      BY <3>1, <3>2
  <2>2. at \in DOMAIN mAccelerators /\ ~mAccelerators[at].state
    BY <1>1, <2>1 DEF A!Fires, A!HaveRead, AccelInv, A!TypeOK
  <2>3. QED
    BY <1>1, <2>2 DEF AccelInv, AccelDown
<1>2. AccelInv /\ [A!Next]_(A!vars) => [running' /\ ~running => at \in cameUp]_(A!vars)
  BY <1>1
<1>3. QED
  BY <1>2, AccelInvHolds, PTL DEF OncePerPress, A!OncePerPress

(* When Check returns it has recorded every key that did not change while  *)
(* it ran, wherever in the call the other keys changed.                    *)
THEOREM StateFollowsKeysHolds == ObjectsSpec => StateFollowsKeys
<1> DEFINE Recorded ==
      (at # 0 /\ at' = 0 /\ ~A!CallbackThrows) =>
       \A i \in DOMAIN mAccelerators :
         /\ A!Used(i) \subseteq pressed \cap steady => mAccelerators'[i].state
         /\ ~(A!Used(i) \subseteq pressed \cup (A!Keys \ steady)) => ~mAccelerators'[i].state
<1>1. ASSUME AccelInv, [A!Next]_(A!vars), at # 0, at' = 0, ~A!CallbackThrows,
             NEW i \in DOMAIN mAccelerators
      PROVE  Follows(i, mAccelerators'[i].state)
  <2>1. A!CheckPasses \/ A!CallbackReturns
    BY <1>1 DEF A!Next, A!vars, A!KeyChanges, A!Register, A!CheckBegins, A!ReadKey, A!CallbackBegins
  <2>2. unread = <<>> /\ A!StoreState /\ A!GoOn(at + 1) /\ steady' = steady
    BY <1>1, <2>1 DEF A!CheckPasses, A!HaveRead, A!CallbackReturns, AccelInv, AccelReading
  <2>3. /\ 0 = IF at + 1 \in DOMAIN mAccelerators THEN at + 1 ELSE 0
        /\ \A j \in DOMAIN mAccelerators : j <= at => Follows(j, mAccelerators'[j].state)
    BY <1>1, <2>2, DoneStep
  <2>4. AccelTypes
    BY <1>1, AccelTypesAre DEF AccelInv
  <2>5. i <= at
    BY <2>3, <2>4 DEF AccelTypes
  <2>6. QED
    BY <2>3, <2>5
<1>2. AccelInv /\ [A!Next]_(A!vars) => [Recorded]_(A!vars)
  BY <1>1 DEF Follows
<1> HIDE DEF Recorded
<1>3. ObjectsSpec => [][Recorded]_(A!vars)
  BY <1>2, AccelInvHolds, PTL
<1>4. QED
  BY <1>3 DEF Recorded, StateFollowsKeys, A!StateFollowsKeys

-----------------------------------------------------------------------------
(* BroadcastIPFinder.                                                      *)

(* BroadcastIPFinder: masks are those of their prefixes, and the addresses *)
(* are made of them.                                                       *)
FinderLists ==
  /\ \A i \in DOMAIN nicsIPv4AndMask :
       nicsIPv4AndMask[i].mask = B!MaskOf(nicsIPv4AndMask[i].prefix)
  /\ finderPc = "done" =>
       /\ mLocalIPs = [i \in DOMAIN nicsIPv4AndMask |-> nicsIPv4AndMask[i].ipv4]
       /\ mBroadcastIPs =
            Append([i \in DOMAIN nicsIPv4AndMask |->
                      B!MakeBroadcastAddressIPv4(nicsIPv4AndMask[i].ipv4,
                                                 nicsIPv4AndMask[i].mask)], B!Ones)

FinderInv == B!TypeOK /\ B!BlockFits /\ FinderLists

FinderTypes ==
  /\ shift32 \in {{}, B!Ones}
  /\ needed \in Sizes
  /\ changes \in 0 .. MaxChanges
  /\ finderPc \in {"allocate", "ask", "read", "create", "done"}
  /\ ipAdapterAddressesSize \in Sizes \cup {FirstSize}
  /\ block \in Sizes \cup {FirstSize, 0}

ListTypes ==
  /\ adapters \in Seq(B!Entries)
  /\ nicsIPv4AndMask \in Seq(B!Nics)
  /\ mLocalIPs \in Seq(B!Words) /\ mBroadcastIPs \in Seq(B!Words)

LEMMA FinderTypesAre == B!TypeOK <=> FinderTypes /\ ListTypes
BY DEF B!TypeOK, FinderTypes, ListTypes

LEMMA MaskType ==
  ASSUME FinderTypes, NEW prefix \in Nat
  PROVE  B!MaskOf(prefix) \in B!Words
BY ObjectsAssumption DEF B!MaskOf, B!ShiftLeft, B!Ones, B!Words, B!Bits, FinderTypes

LEMMA NicType ==
  ASSUME FinderTypes, NEW entry \in B!Entries
  PROVE  /\ B!Nic(entry) \in B!Nics
         /\ B!Nic(entry).mask = B!MaskOf(B!Nic(entry).prefix)
<1>1. entry.address \in B!Words /\ entry.prefix \in Nat
  BY DEF B!Entries
<1>2. B!MaskOf(entry.prefix) \in B!Words
  BY <1>1, MaskType
<1> HIDE DEF B!MaskOf
<1>3. B!Nic(entry) \in B!Nics
  BY <1>1, <1>2 DEF B!Nic, B!Nics
<1>4. B!Nic(entry).mask = B!MaskOf(entry.prefix) /\ B!Nic(entry).prefix = entry.prefix
  BY DEF B!Nic
<1>5. QED
  BY <1>3, <1>4

LEMMA InitFinderInv == B!Init => FinderInv
<1> SUFFICES ASSUME B!Init PROVE FinderInv
  OBVIOUS
<1>1. FinderTypes
  BY ObjectsAssumption DEF B!Init, FinderTypes
<1>2. ListTypes
  BY EmptyType, Zenon DEF B!Init, ListTypes
<1>3. B!BlockFits
  BY DEF B!Init, B!BlockFits
<1>4. FinderLists
  BY EmptyType DEF B!Init, FinderLists
<1>5. QED
  BY <1>1, <1>2, <1>3, <1>4, FinderTypesAre DEF FinderInv

(* Every step but two leaves what the constructor makes alone.             *)
LEMMA QuietStep ==
  ASSUME FinderInv, nicsIPv4AndMask' = nicsIPv4AndMask, mLocalIPs' = mLocalIPs,
         mBroadcastIPs' = mBroadcastIPs, shift32' = shift32,
         finderPc' = "done" => finderPc = "done"
  PROVE  FinderLists' /\ (adapters' \in Seq(B!Entries) => ListTypes')
<1>1. \A prefix : B!MaskOf(prefix)' = B!MaskOf(prefix)
  BY DEF B!MaskOf, B!ShiftLeft
<1>2. FinderLists'
  BY <1>1 DEF FinderInv, FinderLists
<1>3. ListTypes
  BY FinderTypesAre DEF FinderInv
<1>4. QED
  BY <1>2, <1>3 DEF ListTypes

LEMMA AddressStep ==
  ASSUME FinderInv, B!ReadAddress
  PROVE  FinderInv'
<1>1. FinderTypes /\ ListTypes
  BY FinderTypesAre DEF FinderInv
<1>2. /\ finderPc = "read" /\ finderPc' = finderPc /\ block' = block
      /\ ipAdapterAddressesSize' = ipAdapterAddressesSize
      /\ needed' = needed /\ changes' = changes
      /\ shift32' = shift32 /\ mLocalIPs' = mLocalIPs /\ mBroadcastIPs' = mBroadcastIPs
      /\ adapters # <<>> /\ adapters' = Tail(adapters)
      /\ \/ nicsIPv4AndMask' = nicsIPv4AndMask
         \/ nicsIPv4AndMask' = Append(nicsIPv4AndMask, B!Nic(Head(adapters)))
  BY DEF B!ReadAddress
<1>3. adapters' \in Seq(B!Entries) /\ Head(adapters) \in B!Entries
  BY <1>1, <1>2, HeadAndTail DEF ListTypes
<1>4. FinderTypes'
  BY <1>1, <1>2 DEF FinderTypes
<1>5. B!BlockFits'
  BY <1>2 DEF B!BlockFits, FinderInv
<1>6. /\ B!Nic(Head(adapters)) \in B!Nics
      /\ B!Nic(Head(adapters)).mask = B!MaskOf(B!Nic(Head(adapters)).prefix)
  BY <1>1, <1>3, NicType
<1>7. \A prefix : B!MaskOf(prefix)' = B!MaskOf(prefix)
  BY <1>2 DEF B!MaskOf, B!ShiftLeft
<1>8. CASE nicsIPv4AndMask' = nicsIPv4AndMask
  <2>1. ListTypes' /\ FinderLists'
    BY <1>2, <1>3, <1>8, QuietStep
  <2>2. QED
    BY <1>4, <1>5, <2>1, FinderTypesAre, PTL DEF FinderInv
<1>9. CASE nicsIPv4AndMask' = Append(nicsIPv4AndMask, B!Nic(Head(adapters)))
  <2> DEFINE last == Len(nicsIPv4AndMask) + 1
             nic == B!Nic(Head(adapters))
  <2>1. nicsIPv4AndMask \in Seq(B!Nics) /\ nic \in B!Nics /\ nic.mask = B!MaskOf(nic.prefix)
    BY <1>1, <1>6 DEF ListTypes
  <2>2. nicsIPv4AndMask' = Append(nicsIPv4AndMask, nic)
    BY <1>9
  <2> HIDE DEF nic
  <2>3. /\ nicsIPv4AndMask' \in Seq(B!Nics)
        /\ DOMAIN nicsIPv4AndMask' = DOMAIN nicsIPv4AndMask \cup {last}
        /\ nicsIPv4AndMask'[last] = nic
        /\ \A j \in DOMAIN nicsIPv4AndMask : nicsIPv4AndMask'[j] = nicsIPv4AndMask[j]
    BY <2>1, <2>2, AppendType
  <2>4. ListTypes'
    BY <1>1, <1>2, <1>3, <2>3 DEF ListTypes
  <2>5. \A i \in DOMAIN nicsIPv4AndMask :
          nicsIPv4AndMask[i].mask = B!MaskOf(nicsIPv4AndMask[i].prefix)
    BY DEF FinderInv, FinderLists
  <2>6. FinderLists'
    BY <1>2, <1>7, <2>1, <2>3, <2>5 DEF FinderLists
  <2>7. QED
    BY <1>4, <1>5, <2>4, <2>6, FinderTypesAre, PTL DEF FinderInv
<1>10. QED
  BY <1>2, <1>8, <1>9

LEMMA MappedType ==
  ASSUME NEW T, NEW n \in Nat, NEW f \in [1 .. n -> T]
  PROVE  f \in Seq(T) /\ Len(f) = n
OBVIOUS

LEMMA CreateStep ==
  ASSUME FinderInv, B!CreateBroadcastAddressesIPv4
  PROVE  FinderInv'
<1> DEFINE locals == [i \in DOMAIN nicsIPv4AndMask |-> nicsIPv4AndMask[i].ipv4]
           broadcasts == [i \in DOMAIN nicsIPv4AndMask |->
                            B!MakeBroadcastAddressIPv4(nicsIPv4AndMask[i].ipv4,
                                                       nicsIPv4AndMask[i].mask)]
<1>1. FinderTypes /\ ListTypes
  BY FinderTypesAre DEF FinderInv
<1>2. /\ finderPc = "create" /\ finderPc' = "done" /\ block' = block
      /\ ipAdapterAddressesSize' = ipAdapterAddressesSize
      /\ needed' = needed /\ changes' = changes
      /\ shift32' = shift32 /\ adapters' = adapters /\ nicsIPv4AndMask' = nicsIPv4AndMask
      /\ mLocalIPs' = locals /\ mBroadcastIPs' = Append(broadcasts, B!Ones)
  BY DEF B!CreateBroadcastAddressesIPv4, B!Goto
<1>3. FinderTypes'
  BY <1>1, <1>2 DEF FinderTypes
<1>4. B!BlockFits'
  BY <1>2 DEF B!BlockFits, FinderInv
<1>5. \A prefix : B!MaskOf(prefix)' = B!MaskOf(prefix)
  BY <1>2 DEF B!MaskOf, B!ShiftLeft
<1>6. FinderLists'
  BY <1>2, <1>5 DEF FinderInv, FinderLists
<1>7. \A i \in DOMAIN nicsIPv4AndMask :
        /\ nicsIPv4AndMask[i].ipv4 \in B!Words
        /\ B!MakeBroadcastAddressIPv4(nicsIPv4AndMask[i].ipv4, nicsIPv4AndMask[i].mask) \in B!Words
  <2>1. \A i \in DOMAIN nicsIPv4AndMask : nicsIPv4AndMask[i] \in B!Nics
    BY <1>1, ElementType DEF ListTypes
  <2>2. \A i \in DOMAIN nicsIPv4AndMask : nicsIPv4AndMask[i].ipv4 \in B!Words
    BY <2>1 DEF B!Nics
  <2>3. QED
    BY <2>2 DEF B!MakeBroadcastAddressIPv4, B!Words, B!Ones
<1>8. nicsIPv4AndMask \in Seq(B!Nics)
  BY <1>1 DEF ListTypes
<1>9. locals \in Seq(B!Words) /\ broadcasts \in Seq(B!Words)
  <2>1. Len(nicsIPv4AndMask) \in Nat /\ DOMAIN nicsIPv4AndMask = 1 .. Len(nicsIPv4AndMask)
    BY <1>8
  <2>2. locals \in [1 .. Len(nicsIPv4AndMask) -> B!Words]
    BY <1>7, <2>1
  <2>3. broadcasts \in [1 .. Len(nicsIPv4AndMask) -> B!Words]
    BY <1>7, <2>1
  <2> HIDE DEF locals, broadcasts
  <2>4. QED
    BY <2>1, <2>2, <2>3, MappedType
<1> HIDE DEF locals, broadcasts
<1>10. mBroadcastIPs' \in Seq(B!Words)
  BY <1>2, <1>9 DEF B!Ones, B!Words
<1>11. ListTypes'
  BY <1>1, <1>2, <1>9, <1>10 DEF ListTypes
<1>12. QED
  BY <1>3, <1>4, <1>6, <1>11, FinderTypesAre, PTL DEF FinderInv

LEMMA FinderStep == FinderInv /\ [B!Next]_(B!vars) => FinderInv'
<1> SUFFICES ASSUME FinderInv, [B!Next]_(B!vars) PROVE FinderInv'
  OBVIOUS
<1>0. FinderTypes /\ ListTypes /\ B!BlockFits
  BY FinderTypesAre DEF FinderInv
<1>a. ASSUME nicsIPv4AndMask' = nicsIPv4AndMask, mLocalIPs' = mLocalIPs,
             mBroadcastIPs' = mBroadcastIPs, shift32' = shift32,
             finderPc' = "done" => finderPc = "done",
             adapters' \in Seq(B!Entries), FinderTypes', B!BlockFits'
      PROVE  FinderInv'
  <2>1. FinderLists' /\ ListTypes'
    BY <1>a, QuietStep
  <2>2. QED
    BY <1>a, <2>1, FinderTypesAre, PTL DEF FinderInv
<1>b. Sizes \subseteq Nat /\ FirstSize \in Sizes /\ MaxChanges \in Nat /\ adapters \in Seq(B!Entries)
  BY <1>0, ObjectsAssumption DEF ListTypes
<1> USE DEF FinderTypes, B!BlockFits, B!Goto, B!lists
<1>1. CASE B!AdaptersChange
  BY <1>0, <1>a, <1>b, <1>1 DEF B!AdaptersChange
<1>2. CASE B!HeapAlloc
  BY <1>0, <1>a, <1>b, <1>2 DEF B!HeapAlloc
<1>3. CASE B!TooSmall
  BY <1>0, <1>a, <1>b, <1>3 DEF B!TooSmall
<1>4. CASE B!OtherError
  BY <1>0, <1>a, <1>b, <1>4 DEF B!OtherError
<1>5. CASE B!Filled
  <2>1. adapters' \in Seq(B!Entries)
    BY <1>5, ObjectsAssumption DEF B!Filled
  <2>2. QED
    BY <1>0, <1>a, <1>5, <2>1 DEF B!Filled
<1>6. CASE B!ReadAddress
  BY <1>6, AddressStep
<1>7. CASE B!HeapFree
  BY <1>0, <1>a, <1>b, <1>7 DEF B!HeapFree
<1>8. CASE B!CreateBroadcastAddressesIPv4
  BY <1>8, CreateStep
<1>9. CASE UNCHANGED B!vars
  BY <1>0, <1>a, <1>b, <1>9 DEF B!vars
<1>10. QED
  BY <1>1, <1>2, <1>3, <1>4, <1>5, <1>6, <1>7, <1>8, <1>9 DEF B!Next, B!Finds

LEMMA FinderInvHolds == ObjectsSpec => []FinderInv
<1>1. B!Spec => []FinderInv
  BY InitFinderInv, FinderStep, PTL DEF B!Spec
<1>2. QED
  BY <1>1, PartsAlone, PTL

(* GetAdaptersAddresses is never told a size other than that of the block  *)
(* it writes to, and the block is freed: for any sizes and any moment at   *)
(* which the adapters change.                                              *)
THEOREM BlockFitsHolds == ObjectsSpec => []BlockFits
<1>1. FinderInv => BlockFits
  BY DEF FinderInv, BlockFits
<1>2. QED
  BY <1>1, FinderInvHolds, PTL

(* The mask of a prefix has its highest bits, and the broadcast address of *)
(* a mask the other ones as well.                                          *)
LEMMA MaskBits ==
  ASSUME NEW prefix \in 1 .. Width
  PROVE  B!MaskOf(prefix) = {bit \in B!Bits : bit >= Width - prefix}
<1>1. Width \in Nat /\ Width - prefix \in Nat /\ Width - prefix # Width /\ prefix <= Width
  BY ObjectsAssumption
<1>2. B!MaskOf(prefix) = {bit + (Width - prefix) : bit \in B!Bits} \cap B!Bits
  BY <1>1 DEF B!MaskOf, B!ShiftLeft, B!Ones
<1>3. ASSUME NEW bit \in B!Bits, bit >= Width - prefix
      PROVE  \E low \in B!Bits : bit = low + (Width - prefix)
  <2>1. bit - (Width - prefix) \in B!Bits
    BY <1>1, <1>3 DEF B!Bits
  <2>2. bit = (bit - (Width - prefix)) + (Width - prefix)
    BY <1>1 DEF B!Bits
  <2>3. QED
    BY <2>1, <2>2
<1>4. ASSUME NEW low \in B!Bits
      PROVE  low + (Width - prefix) >= Width - prefix
  BY <1>1 DEF B!Bits
<1>5. QED
  BY <1>2, <1>3, <1>4

LEMMA HighestOfSubnet ==
  ASSUME NEW address \in B!Words, NEW prefix \in 1 .. Width
  PROVE  LET broadcast == B!MakeBroadcastAddressIPv4(address, B!MaskOf(prefix)) IN
           /\ broadcast \in B!Subnet(address, prefix)
           /\ broadcast = UNION B!Subnet(address, prefix)
<1> DEFINE broadcast == B!MakeBroadcastAddressIPv4(address, B!MaskOf(prefix))
<1>1. broadcast = address \cup {bit \in B!Bits : ~(bit >= Width - prefix)}
  BY MaskBits DEF B!MakeBroadcastAddressIPv4, B!Ones
<1> HIDE DEF broadcast
<1>2. address \subseteq B!Bits
  BY DEF B!Words
<1>3. broadcast \in B!Subnet(address, prefix)
  BY <1>1, <1>2 DEF B!Subnet, B!Words
<1>4. \A word \in B!Subnet(address, prefix) : word \subseteq broadcast
  BY <1>1, <1>2 DEF B!Subnet, B!Words
<1>5. broadcast = UNION B!Subnet(address, prefix)
  BY <1>3, <1>4
<1>6. QED
  BY <1>3, <1>5 DEF broadcast

(* The broadcast addresses are those of the local ones, in their order,    *)
(* each the highest of its subnet, for any number of adapters and bits.    *)
THEOREM BroadcastIsHighestHolds == ObjectsSpec => []BroadcastIsHighest
<1>1. ASSUME FinderInv, finderPc = "done"
      PROVE  /\ Len(mBroadcastIPs) = Len(mLocalIPs) + 1 /\ mBroadcastIPs[Len(mBroadcastIPs)] = B!Ones
             /\ \A i \in DOMAIN mLocalIPs : nicsIPv4AndMask[i].prefix \in 1 .. Width =>
                  /\ mBroadcastIPs[i] \in B!Subnet(mLocalIPs[i], nicsIPv4AndMask[i].prefix)
                  /\ mBroadcastIPs[i] = UNION B!Subnet(mLocalIPs[i], nicsIPv4AndMask[i].prefix)
  <2> DEFINE broadcasts == [i \in DOMAIN nicsIPv4AndMask |->
                              B!MakeBroadcastAddressIPv4(nicsIPv4AndMask[i].ipv4,
                                                         nicsIPv4AndMask[i].mask)]
  <2>1. ListTypes
    BY <1>1, FinderTypesAre DEF FinderInv
  <2>2. /\ nicsIPv4AndMask \in Seq(B!Nics)
        /\ Len(nicsIPv4AndMask) \in Nat /\ DOMAIN nicsIPv4AndMask = 1 .. Len(nicsIPv4AndMask)
    BY <2>1 DEF ListTypes
  <2>3. /\ mLocalIPs = [i \in DOMAIN nicsIPv4AndMask |-> nicsIPv4AndMask[i].ipv4]
        /\ mBroadcastIPs = Append(broadcasts, B!Ones)
        /\ \A i \in DOMAIN nicsIPv4AndMask :
             nicsIPv4AndMask[i].mask = B!MaskOf(nicsIPv4AndMask[i].prefix)
    BY <1>1 DEF FinderInv, FinderLists
  <2>4. \A i \in DOMAIN nicsIPv4AndMask :
          nicsIPv4AndMask[i].ipv4 \in B!Words /\ nicsIPv4AndMask[i].mask \in B!Words
    <3>1. \A i \in DOMAIN nicsIPv4AndMask : nicsIPv4AndMask[i] \in B!Nics
      BY <2>2, ElementType
    <3>2. QED
      BY <3>1 DEF B!Nics
  <2>5. broadcasts \in [1 .. Len(nicsIPv4AndMask) -> B!Words]
    BY <2>2, <2>4 DEF B!MakeBroadcastAddressIPv4, B!Words, B!Ones
  <2>6. \A i \in DOMAIN nicsIPv4AndMask :
          broadcasts[i] = B!MakeBroadcastAddressIPv4(nicsIPv4AndMask[i].ipv4,
                                                     B!MaskOf(nicsIPv4AndMask[i].prefix))
    BY <2>3
  <2>7. mLocalIPs \in Seq(B!Words) /\ Len(mLocalIPs) = Len(nicsIPv4AndMask)
        /\ DOMAIN mLocalIPs = DOMAIN nicsIPv4AndMask
        /\ \A i \in DOMAIN nicsIPv4AndMask : mLocalIPs[i] = nicsIPv4AndMask[i].ipv4
    <3>1. mLocalIPs \in [1 .. Len(nicsIPv4AndMask) -> B!Words]
      BY <2>2, <2>3, <2>4
    <3>2. QED
      BY <2>2, <2>3, <3>1, MappedType
  <2> HIDE DEF broadcasts
  <2>8. B!Ones \in B!Words
    BY DEF B!Ones, B!Words
  <2>9. broadcasts \in Seq(B!Words) /\ Len(broadcasts) = Len(nicsIPv4AndMask)
    BY <2>2, <2>5, MappedType
  <2>10. /\ Len(mBroadcastIPs) = Len(broadcasts) + 1
         /\ mBroadcastIPs[Len(broadcasts) + 1] = B!Ones
         /\ \A i \in DOMAIN broadcasts : mBroadcastIPs[i] = broadcasts[i]
    BY <2>3, <2>8, <2>9, AppendType
  <2>11. DOMAIN broadcasts = DOMAIN nicsIPv4AndMask
    BY <2>2, <2>5
  <2>12. ASSUME NEW i \in DOMAIN mLocalIPs, nicsIPv4AndMask[i].prefix \in 1 .. Width
         PROVE  /\ mBroadcastIPs[i] \in B!Subnet(mLocalIPs[i], nicsIPv4AndMask[i].prefix)
                /\ mBroadcastIPs[i] = UNION B!Subnet(mLocalIPs[i], nicsIPv4AndMask[i].prefix)
    <3>1. /\ i \in DOMAIN nicsIPv4AndMask /\ nicsIPv4AndMask[i].ipv4 \in B!Words
          /\ mLocalIPs[i] = nicsIPv4AndMask[i].ipv4
      BY <2>4, <2>7, <2>12
    <3>2. mBroadcastIPs[i] = B!MakeBroadcastAddressIPv4(nicsIPv4AndMask[i].ipv4,
                                                        B!MaskOf(nicsIPv4AndMask[i].prefix))
      BY <2>6, <2>10, <2>11, <3>1
    <3>3. QED
      BY <2>12, <3>1, <3>2, HighestOfSubnet
  <2>13. QED
    BY <2>7, <2>9, <2>10, <2>12
<1>2. FinderInv => BroadcastIsHighest
  BY <1>1 DEF BroadcastIsHighest, B!BroadcastIsHighest
<1>3. QED
  BY <1>2, FinderInvHolds, PTL

-----------------------------------------------------------------------------
(* The variables of every part keep their types.                           *)
THEOREM PartsTypeOKHolds == ObjectsSpec => []PartsTypeOK
<1>1. ObjectsSpec => []TypeOK
  BY PartsAlone, StopwatchTypeCorrect, PTL
<1>2. TypeOK /\ GuidInv /\ ShotInv /\ AccelInv /\ FinderInv => PartsTypeOK
  BY DEF GuidInv, ShotInv, AccelInv, FinderInv, PartsTypeOK
<1>3. QED
  BY <1>1, <1>2, GuidInvHolds, ShotInvHolds, AccelInvHolds, FinderInvHolds, PTL

=============================================================================
