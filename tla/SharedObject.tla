----------------------------- MODULE SharedObject -----------------------------
(***************************************************************************)
(* What SingletonGlobalLazy (src/SingletonGlobal.cpp) promises the         *)
(* processes that share an instance: it is constructed when the first of   *)
(* them gets it, there is one for all of them as long as any of them has   *)
(* it, and it is destroyed by the last one that deletes it.                *)
(***************************************************************************)
CONSTANT Processes

VARIABLES users,     (* the processes that have the instance               *)
          built      (* the object is constructed and not yet destroyed    *)

svars == <<users, built>>

SharedInit == users = {} /\ built = FALSE

Attach(p) ==
  /\ p \notin users
  /\ users' = users \cup {p}
  /\ built' = TRUE

Detach(p) ==
  /\ p \in users
  /\ users' = users \ {p}
  /\ built' = (users' # {})

SharedSpec == SharedInit /\ [][\E p \in Processes : Attach(p) \/ Detach(p)]_svars

=============================================================================
