--------------------------- MODULE ThreadPoolChoice ---------------------------
(***************************************************************************)
(* How good is the choice of ThreadPool::ChooseThread (src/ThreadPool.cpp) *)
(* when the lists it compares change under it?  Each TaskCount() is taken  *)
(* under the mutex of one thread only, so by the time the last one is      *)
(* known the first may be out of date.  Two history variables follow each  *)
(* choice: how long the lists were when it began, and how many tasks the   *)
(* other calls have added since.                                           *)
(***************************************************************************)
EXTENDS ThreadPool

VARIABLES base,     (* length of each list when the client's choice began  *)
          grown     (* tasks added to any list since then                  *)

choiceVars == <<vars, base, grown>>

Nothing == [j \in Threads |-> 0]

ChoiceInit ==
  /\ Init
  /\ base = [c \in Clients |-> Nothing]
  /\ grown = [c \in Clients |-> 0]

(* A step adds a task to one list or to none.                              *)
Growth == IF \E j \in Threads : Len(mTasks'[j]) > Len(mTasks[j]) THEN 1 ELSE 0

Track ==
  /\ base' = [c \in Clients |->
       IF ~Choosing(c)' THEN Nothing
       ELSE IF Choosing(c) THEN base[c]
       ELSE [j \in Threads |-> TaskCount(j)]]
  /\ grown' = [c \in Clients |->
       IF Choosing(c) /\ Choosing(c)' THEN grown[c] + Growth ELSE 0]

ChoiceNext == Next /\ Track

ChoiceSpec == ChoiceInit /\ [][ChoiceNext]_choiceVars

(* The list a task is about to be added to is no longer than any list was  *)
(* when the choice began, except for the tasks that other calls have added *)
(* since: out-of-date counts cost no more than that, however the threads   *)
(* and the other clients interleave with the comparisons.  Tasks added to  *)
(* a third list count too: a thread that was ahead when it was compared    *)
(* with one may fall behind before it is compared with the next.           *)
ChosenWasShort ==
  \A c \in Clients :
    Choosing(c) /\ calls[c].i = ThreadsCount + 1 =>
      \A j \in Threads : j # calls[c].index =>
        TaskCount(calls[c].index) <= base[c][j] + grown[c]

=============================================================================
