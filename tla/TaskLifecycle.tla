---------------------------- MODULE TaskLifecycle ----------------------------
(***************************************************************************)
(* What a pool of threads promises about the tasks it is given             *)
(* (src/ThreadPool.cpp), whatever its queues look like: a task that was    *)
(* accepted is performed at most once, its work before its callback, at    *)
(* most Capacity tasks at a time, and it is given up only when the pool    *)
(* itself is destroyed while nothing is being performed.                   *)
(***************************************************************************)
EXTENDS Integers, FiniteSets

CONSTANTS Tasks,     (* the tasks that may be submitted                    *)
          Capacity   (* how many tasks may be performed at the same time   *)

VARIABLES phase,     (* how far each task is                               *)
          open       (* the pool still exists                              *)

avars == <<phase, open>>

Phases == {"new", "queued", "working", "worked", "done", "dropped"}

(* The tasks some thread is performing: their work or their callback.      *)
Busy == {t \in Tasks : phase[t] \in {"working", "worked"}}

LifecycleTypeOK ==
  /\ phase \in [Tasks -> Phases]
  /\ open \in BOOLEAN

LifecycleInit ==
  /\ phase = [t \in Tasks |-> "new"]
  /\ open = TRUE

MoveOn(t, from, to) ==
  /\ open
  /\ phase[t] = from
  /\ phase' = [phase EXCEPT ![t] = to]
  /\ UNCHANGED open

Submit(t)  == MoveOn(t, "new", "queued")
Take(t)    == Cardinality(Busy) < Capacity /\ MoveOn(t, "queued", "working")
Perform(t) == MoveOn(t, "working", "worked")
Notify(t)  == MoveOn(t, "worked", "done")

(* The pool is destroyed; what was still queued is given up.               *)
Close ==
  /\ open
  /\ Busy = {}
  /\ open' = FALSE
  /\ phase' = [t \in Tasks |-> IF phase[t] = "queued" THEN "dropped" ELSE phase[t]]

LifecycleNext ==
  \/ \E t \in Tasks : Submit(t) \/ Take(t) \/ Perform(t) \/ Notify(t)
  \/ Close

LifecycleSpec == LifecycleInit /\ [][LifecycleNext]_avars

=============================================================================
