------------------------------ MODULE Accelerator ------------------------------
(***************************************************************************)
(* The class Accelerator of src/Global Accelerator.cpp: combinations of    *)
(* keys with a callback each, which Check calls when a combination that    *)
(* was not down has come down.  Keys go down and up at any time, so        *)
(* between two reads of one Check and during a callback as well.           *)
(* A callback that registers or checks itself is not modelled: Register    *)
(* invalidates the references of the Check that is running.                *)
(***************************************************************************)
EXTENDS Integers, Sequences

CONSTANTS Combinations,     (* sequences of keys that are registered       *)
          MaxAccelerators   (* bound: how many are registered              *)

Keys == UNION {{keys[i] : i \in DOMAIN keys} : keys \in Combinations}

VARIABLES pressed,          (* the keys that are down                      *)
          mAccelerators,    (* Accelerator::mAccelerators                  *)
          at,               (* the accelerator Check has come to, or 0     *)
          unread,           (* its keys that are not read yet              *)
          fire,             (* the local of Check                          *)
          running,          (* whether its callback is running             *)
          steady,           (* history: keys not changed since Check began *)
          cameUp            (* history: the accelerators of which a key    *)
                            (* has been up since their callback returned   *)

vars == <<pressed, mAccelerators, at, unread, fire, running, steady, cameUp>>

Used(i) == {mAccelerators[i].keys[j] : j \in DOMAIN mAccelerators[i].keys}

TypeOK ==
  /\ pressed \subseteq Keys
  /\ mAccelerators \in Seq([keys : Combinations, state : BOOLEAN])
  /\ at \in 0 .. Len(mAccelerators)
  /\ unread \in Seq(Keys)
  /\ fire \in BOOLEAN
  /\ running \in BOOLEAN
  /\ steady \subseteq Keys
  /\ cameUp \subseteq DOMAIN mAccelerators

Init ==
  /\ pressed = {}
  /\ mAccelerators = <<>>
  /\ at = 0 /\ unread = <<>> /\ fire = TRUE /\ running = FALSE
  /\ steady = Keys /\ cameUp = {}

(* Somebody presses or releases a key.                                     *)
KeyChanges(key) ==
  /\ pressed' = IF key \in pressed THEN pressed \ {key} ELSE pressed \cup {key}
  /\ steady' = steady \ {key}
  /\ cameUp' = cameUp \cup {i \in DOMAIN mAccelerators : ~(Used(i) \subseteq pressed')}
  /\ UNCHANGED <<mAccelerators, at, unread, fire, running>>

Register(keys) ==
  /\ at = 0 /\ Len(mAccelerators) < MaxAccelerators
  /\ mAccelerators' = Append(mAccelerators, [keys |-> keys, state |-> FALSE])
  /\ cameUp' = cameUp \cup {Len(mAccelerators) + 1}
  /\ UNCHANGED <<pressed, at, unread, fire, running, steady>>

(* Mutated: the index is left after the last one.                          *)
GoOnPastEnd(i) ==
  /\ running' = FALSE /\ fire' = TRUE
  /\ at' = i
  /\ unread' = IF i \in DOMAIN mAccelerators THEN mAccelerators[i].keys ELSE <<>>
  /\ UNCHANGED pressed

(* Check goes on to the accelerator i, or returns after the last one.      *)
GoOn(i) ==
  /\ running' = FALSE /\ fire' = TRUE
  /\ IF i \in DOMAIN mAccelerators
     THEN at' = i /\ unread' = mAccelerators[i].keys
     ELSE at' = 0 /\ unread' = <<>>
  /\ UNCHANGED pressed

CheckBegins ==
  /\ at = 0 /\ mAccelerators # <<>>
  /\ steady' = Keys
  /\ GoOn(1)
  /\ UNCHANGED <<mAccelerators, cameUp>>

(* A key that is up ends the reading.                                      *)
ReadKey ==
  /\ unread # <<>>
  /\ fire' = (Head(unread) \in pressed)
  /\ unread' = IF fire' THEN Tail(unread) ELSE <<>>
  /\ UNCHANGED <<pressed, mAccelerators, at, running, steady, cameUp>>

HaveRead == at # 0 /\ unread = <<>> /\ ~running

(* Mutated: the old state does not matter.                                 *)
FiresAgain == HaveRead /\ fire

Fires == HaveRead /\ fire /\ ~mAccelerators[at].state

(* Mutated: the state is only ever set.                                    *)
StateSticks == mAccelerators' = [mAccelerators EXCEPT ![at].state = @ \/ fire]

StoreState == mAccelerators' = [mAccelerators EXCEPT ![at].state = fire]

(* No callback is called for the accelerator.                              *)
CheckPasses ==
  /\ HaveRead /\ ~Fires
  /\ StoreState
  /\ GoOn(at + 1)
  /\ UNCHANGED <<steady, cameUp>>

CallbackBegins ==
  /\ Fires
  /\ running' = TRUE
  /\ UNCHANGED <<pressed, mAccelerators, at, unread, fire, steady, cameUp>>

CallbackReturns ==
  /\ running
  /\ StoreState
  /\ GoOn(at + 1)
  /\ cameUp' = IF Used(at) \subseteq pressed THEN cameUp \ {at} ELSE cameUp \cup {at}
  /\ UNCHANGED steady

(* Its exception leaves Check: the state is not stored, and the            *)
(* accelerators after this one are not looked at.                          *)
CallbackThrows ==
  /\ running
  /\ GoOn(0)
  /\ UNCHANGED <<mAccelerators, steady, cameUp>>

Next ==
  \/ \E key \in Keys : KeyChanges(key)
  \/ \E keys \in Combinations : Register(keys)
  \/ CheckBegins \/ ReadKey \/ CheckPasses
  \/ CallbackBegins \/ CallbackReturns \/ CallbackThrows

Spec == Init /\ [][Next]_vars

(* One press, one call: a callback that has returned is not called again   *)
(* until one of its keys has been up, whatever is pressed and released     *)
(* while Check reads the keys and while callbacks run.  One that throws    *)
(* has not had its state stored, and the next Check may call it again.     *)
OncePerPress == [][running' /\ ~running => at \in cameUp]_vars

(* When Check returns, an accelerator whose keys were down all the time it *)
(* took is recorded as down, and one with a key that was up all that time  *)
(* is not.                                                                 *)
StateFollowsKeys ==
  [][(at # 0 /\ at' = 0 /\ ~CallbackThrows) =>
       \A i \in DOMAIN mAccelerators :
         /\ Used(i) \subseteq pressed \cap steady => mAccelerators'[i].state
         /\ ~(Used(i) \subseteq pressed \cup (Keys \ steady)) => ~mAccelerators'[i].state]_vars

=============================================================================
