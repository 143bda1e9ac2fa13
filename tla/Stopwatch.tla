------------------------------- MODULE Stopwatch -------------------------------
(***************************************************************************)
(* The class Stopwatch of src/Stopwatch.cpp: named stopwatches in a map    *)
(* that any number of threads use under one mutex.  A call that holds the  *)
(* mutex from its first to its last access is one step, and reads the      *)
(* clock once in it.  The exception is Pause, which calls GetTimeElapsed   *)
(* with the mutex locked, and so locks it a second time.                   *)
(*                                                                         *)
(* What a second lock of a std::mutex does is undefined.  It waits for     *)
(* ever, or throws resource_deadlock_would_occur, or, in a program built   *)
(* without threads, where a mutex is nothing, has no effect: which of them *)
(* is a property of the build.                                             *)
(***************************************************************************)
EXTENDS Integers

CONSTANTS Names,      (* the names of stopwatches, none of them empty      *)
          MaxTime,    (* bound: the clock stops here                       *)
          Absent,     (* no stopwatch                                      *)
          NoName      (* no name                                           *)

ASSUME StopwatchAssumption ==
  /\ MaxTime \in Nat \ {0}
  /\ NoName \notin Names
  /\ Absent \notin [time : Int, running : BOOLEAN]

VARIABLES relock,         (* what the second lock does in this build       *)
          now,            (* steady_clock::now()                           *)
          mStopwatches,   (* Stopwatch::mStopwatches                       *)
          pausing,        (* the name that is in a Pause which has         *)
                          (* Stopwatch::mMutex; NoName when it is free     *)
          ran             (* history: how long each stopwatch has been     *)
                          (* running since it was created                  *)

vars == <<relock, now, mStopwatches, pausing, ran>>

(* A time_point and whether it is running.  The time is when it would have *)
(* been started had it never been paused or, if it is paused, how long it  *)
(* had been running.                                                       *)
Entry(time, running) == [time |-> time, running |-> running]

Exists(n)    == mStopwatches[n] # Absent
IsRunning(n) == Exists(n) /\ mStopwatches[n].running

TypeOK ==
  /\ relock \in {"waits", "throws", "nothing"}
  /\ now \in 1 .. MaxTime
  /\ mStopwatches \in [Names -> [time : 0 .. MaxTime, running : BOOLEAN] \cup {Absent}]
  /\ pausing \in Names \cup {NoName}
  /\ ran \in [Names -> Nat]

Init ==
  /\ relock \in {"waits", "throws", "nothing"}
  /\ now = 1
  /\ mStopwatches = [n \in Names |-> Absent]
  /\ pausing = NoName
  /\ ran = [n \in Names |-> 0]

(* Time goes on for every stopwatch that is running.                       *)
Tick ==
  /\ now < MaxTime
  /\ now' = now + 1
  /\ ran' = [n \in Names |-> IF IsRunning(n) THEN ran[n] + 1 ELSE ran[n]]
  /\ UNCHANGED <<relock, mStopwatches, pausing>>

GetTimeElapsed(n) ==
  IF IsRunning(n) THEN now - mStopwatches[n].time
  ELSE IF Exists(n) THEN mStopwatches[n].time
  ELSE 0

(* A step that assigns to the entry of n with the mutex locked.            *)
Assigns(n, entry) ==
  /\ mStopwatches' = [mStopwatches EXCEPT ![n] = entry]
  /\ UNCHANGED <<relock, now>>

(* Create, and Reset, which is Create with overwrite.                      *)
Create(n) ==
  /\ pausing = NoName
  /\ \E start, overwrite \in BOOLEAN :
       /\ ~Exists(n) \/ overwrite
       /\ Assigns(n, Entry(IF start THEN now ELSE 0, start))
  /\ ran' = [ran EXCEPT ![n] = 0]
  /\ UNCHANGED pausing

(* Mutated: the time it had been running is forgotten.                     *)
ResumeFromZero(n) ==
  /\ pausing = NoName
  /\ Exists(n) /\ ~IsRunning(n)
  /\ Assigns(n, Entry(now, TRUE))
  /\ UNCHANGED <<pausing, ran>>

(* Resume of a stopwatch that is not running.                              *)
Resume(n) ==
  /\ pausing = NoName
  /\ Exists(n) /\ ~IsRunning(n)
  /\ Assigns(n, Entry(now - mStopwatches[n].time, TRUE))
  /\ UNCHANGED <<pausing, ran>>

Remove(n) ==
  /\ pausing = NoName
  /\ Exists(n)
  /\ Assigns(n, Absent)
  /\ UNCHANGED <<pausing, ran>>

(* Pause locks the mutex and finds the name.                               *)
Pause(n) ==
  /\ pausing = NoName
  /\ Exists(n)
  /\ pausing' = n
  /\ UNCHANGED <<relock, now, mStopwatches, ran>>

(* GetTimeElapsed has locked it too, and returns.                          *)
PauseReturns(n) ==
  /\ pausing = n
  /\ relock = "nothing"
  /\ Assigns(n, Entry(GetTimeElapsed(n), FALSE))
  /\ pausing' = NoName
  /\ UNCHANGED ran

(* Its exception leaves Pause, which unlocks the mutex.                    *)
PauseThrows(n) ==
  /\ pausing = n
  /\ relock = "throws"
  /\ pausing' = NoName
  /\ UNCHANGED <<relock, now, mStopwatches, ran>>

PauseEnds(n) == PauseReturns(n) \/ PauseThrows(n)

Next ==
  \/ Tick
  \/ \E n \in Names : Create(n) \/ Resume(n) \/ Remove(n) \/ Pause(n) \/ PauseEnds(n)

Spec == Init /\ [][Next]_vars

(* Scheduling: a thread that is in Pause and does not wait goes on.        *)
FairSpec == Spec /\ \A n \in Names : WF_vars(PauseEnds(n))

(* Through every sequence of pauses, resumptions and resets, however long  *)
(* the calls take, a stopwatch shows exactly how long it was running.      *)
ElapsedIsRunTime == \A n \in Names : Exists(n) => GetTimeElapsed(n) = ran[n]

(* "a paused stopwatch will contain the elapsed time": a stopwatch comes   *)
(* out of Pause.                                                           *)
PauseCompletes == \A n \in Names : pausing = n ~> pausing = NoName

=============================================================================
