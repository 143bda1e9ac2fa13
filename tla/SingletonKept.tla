----------------------------- MODULE SingletonKept -----------------------------
(***************************************************************************)
(* SingletonGlobal as it is used when nobody ever gives up the last        *)
(* instance: the processes Keepers get it and keep it, and the others      *)
(* delete it, or end, only while a keeper has it.  This is an assumption   *)
(* on the calls, not on the code: DeleteInstance of the last instance      *)
(* closes the mutex it holds, and everyone who waits for that mutex then   *)
(* waits for the end of the thread that called it.                         *)
(***************************************************************************)
EXTENDS SingletonGlobal

CONSTANT Keepers

ASSUME KeepersAssumption == Keepers \subseteq Processes

GivesUp(t) ==
  /\ ProcessOf[t] \notin Keepers
  /\ \E p \in Keepers : mPtr[p]
  /\ DeleteInstance(t) \/ Exit(t)

KeptNext ==
  \/ \E t \in Threads : GetInstance(t) \/ GivesUp(t) \/ Works(t) \/ ThreadEnds(t)
  \/ \E p \in Processes : Ends(p) \/ Crash(p) \/ Start(p)
  \/ Over

(* Scheduling: a thread in a call goes on, one that waits for the mutex    *)
(* gets it if it is free again and again, and a process that is to end     *)
(* ends.  Which calls there are is left to the programs.                   *)
Fairness ==
  /\ \A t \in Threads : WF_vars(Works(t)) /\ SF_vars(MutexGranted(t))
  /\ \A p \in Processes : WF_vars(Ends(p))

KeptSpec == Init /\ [][KeptNext]_vars /\ Fairness

(* A call of GetInstance or DeleteInstance returns or throws, and so does  *)
(* the end of a process come to an end: each lock has its unlock.          *)
EveryCallReturns == \A t \in Threads : op[t] # "none" ~> op[t] = "none"

=============================================================================
