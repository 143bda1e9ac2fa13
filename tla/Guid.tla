--------------------------------- MODULE Guid ---------------------------------
(***************************************************************************)
(* The class Utility::GUID of src/GUID.cpp: a UUID, the status of the last *)
(* call of the RPC library, and a string of the UUID that GetStr asks the  *)
(* library for when it is first wanted and that the object owns.           *)
(***************************************************************************)
EXTENDS FiniteSets

CONSTANTS Objects,    (* variables of the type GUID                        *)
          Uuids,      (* values of a UUID                                  *)
          Strings,    (* bound: addresses the library allocates            *)
          None        (* no object, no string                              *)

VARIABLES guids,      (* the live objects with their members               *)
          heap        (* the library's strings: address -> UUID it shows   *)

vars == <<guids, heap>>

Statuses == {"OK", "LOCAL_ONLY", "NO_ADDRESS", "INVALID_STRING", "OUT_OF_MEMORY"}

Members == [mUUID : Uuids, mUUIDString : Strings \cup {None}, mStatus : Statuses,
            mIsGood : BOOLEAN, mIsGlobal : BOOLEAN]

TypeOK ==
  /\ guids \in [Objects -> Members \cup {None}]
  /\ heap \in [Strings -> Uuids \cup {None}]

Live(g) == guids[g] # None
Init ==
  /\ guids = [g \in Objects |-> None]
  /\ heap = [s \in Strings |-> None]

Become(g, uuid, string, status, good, global) ==
  guids' = [guids EXCEPT ![g] = [mUUID |-> uuid, mUUIDString |-> string,
              mStatus |-> status, mIsGood |-> good, mIsGlobal |-> global]]

(* The string of g, if it has one, is freed; the caller clears the member. *)
Uninitialize(g) ==
  heap' = [s \in Strings |-> IF Live(g) /\ s = guids[g].mUUIDString THEN None ELSE heap[s]]

(* GUID()                                                                  *)
Construct(g) ==
  /\ ~Live(g)
  /\ \E uuid \in Uuids, status \in {"OK", "LOCAL_ONLY", "NO_ADDRESS"} :
       Become(g, uuid, None, status, status # "NO_ADDRESS", status # "LOCAL_ONLY")
  /\ UNCHANGED heap

(* Mutated: the string goes with the value.                                *)
CopyWithString(g, right) ==
  /\ Live(right)
  /\ Uninitialize(g)
  /\ LET r == guids[right] IN
       Become(g, r.mUUID, IF g = right THEN None ELSE r.mUUIDString, "OK", r.mIsGood, r.mIsGlobal)

(* GUID(guid) where g is not live, and g = right, right being g too.       *)
Copy(g, right) ==
  /\ Live(right)
  /\ Uninitialize(g)
  /\ LET r == guids[right] IN Become(g, r.mUUID, None, "OK", r.mIsGood, r.mIsGlobal)

(* Mutated: the string of the old value is kept.                           *)
SetUUIDOnly(g) ==
  /\ Live(g)
  /\ \E uuid \in Uuids : Become(g, uuid, guids[g].mUUIDString, "OK", TRUE, FALSE)
  /\ UNCHANGED heap

SetUUID(g) ==
  /\ Live(g)
  /\ Uninitialize(g)
  /\ \E uuid \in Uuids : Become(g, uuid, None, "OK", TRUE, FALSE)

(* SetUUID of a string, which leaves the value alone if it is none.        *)
SetUUIDFromString(g) ==
  /\ Live(g)
  /\ Uninitialize(g)
  /\ \/ \E uuid \in Uuids : Become(g, uuid, None, "OK", TRUE, FALSE)
     \/ Become(g, guids[g].mUUID, None, "INVALID_STRING", FALSE, FALSE)

(* GetStr without a string; it changes nothing when there is one.          *)
GetStr(g) ==
  /\ Live(g) /\ guids[g].mUUIDString = None
  /\ \/ \E s \in Strings :
          /\ heap[s] = None
          /\ heap' = [heap EXCEPT ![s] = guids[g].mUUID]
          /\ guids' = [guids EXCEPT ![g].mUUIDString = s, ![g].mStatus = "OK"]
     \/ /\ guids' = [guids EXCEPT ![g].mStatus = "OUT_OF_MEMORY"]
        /\ UNCHANGED heap

(* ~GUID()                                                                 *)
Destroy(g) ==
  /\ Live(g)
  /\ Uninitialize(g)
  /\ guids' = [guids EXCEPT ![g] = None]

Next == \E g \in Objects :
  \/ Construct(g) \/ SetUUID(g) \/ SetUUIDFromString(g) \/ GetStr(g) \/ Destroy(g)
  \/ \E right \in Objects : Copy(g, right)

Spec == Init /\ [][Next]_vars

(* The string GetStr has cached is allocated and shows the present value,  *)
(* and the status, which is also that of the value, lets GetStr return it. *)
CachedStringIsCurrent == \A g \in Objects :
  Live(g) /\ guids[g].mUUIDString # None =>
    heap[guids[g].mUUIDString] = guids[g].mUUID /\ guids[g].mStatus = "OK"

(* Every string of the library is owned by exactly one object: none leaks  *)
(* and none is freed twice, through copies, assignments to oneself and     *)
(* calls that fail.                                                        *)
StringsOwnedOnce == \A s \in Strings : heap[s] # None =>
  Cardinality({g \in Objects : Live(g) /\ guids[g].mUUIDString = s}) = 1

=============================================================================
