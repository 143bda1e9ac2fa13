-------------------------------- MODULE Objects --------------------------------
(***************************************************************************)
(* The classes that have nothing to do with each other, side by side: part *)
(* says which of them a behaviour is about, and the variables of the       *)
(* others never change.                                                    *)
(***************************************************************************)
EXTENDS Stopwatch, Sequences, FiniteSets

CONSTANTS None,
          GuidVariables, Uuids, Strings,            (* of Guid              *)
          Bitmaps,                                  (* of ScreenShot        *)
          Combinations, MaxAccelerators,            (* of Accelerator       *)
          Width, Sizes, FirstSize, MaxChanges,      (* of BroadcastIPFinder *)
          Adapters

VARIABLES part, guids, heap,
          pc, mHDC, mHBITMAP, hBitmap, bitmaps, held, failed,
          pressed, mAccelerators, at, unread, fire, running, steady, cameUp,
          shift32, needed, changes, finderPc, ipAdapterAddressesSize, block,
          adapters, nicsIPv4AndMask, mLocalIPs, mBroadcastIPs

G == INSTANCE Guid WITH Objects <- GuidVariables
S == INSTANCE ScreenShot
A == INSTANCE Accelerator
B == INSTANCE BroadcastIPFinder WITH pc <- finderPc

ASSUME ObjectsAssumption ==
  /\ None \notin G!Members \cup Uuids \cup Strings \cup Bitmaps
  /\ IsFiniteSet(Bitmaps)
  /\ \A keys \in Combinations : keys \in Seq(A!Keys)
  /\ MaxAccelerators \in Nat
  /\ Width \in Nat \ {0}
  /\ Sizes \subseteq Nat /\ FirstSize \in Sizes /\ MaxChanges \in Nat
  /\ Adapters \subseteq Seq(B!Entries)

guid        == <<guids, heap>>
screenShot  == <<pc, mHDC, mHBITMAP, hBitmap, bitmaps, held, failed>>
accelerator == <<pressed, mAccelerators, at, unread, fire, running, steady, cameUp>>
finder      == <<shift32, needed, changes, finderPc, ipAdapterAddressesSize, block,
                 adapters, nicsIPv4AndMask, mLocalIPs, mBroadcastIPs>>

(* The parts a behaviour is not about begin in one state only.             *)
ObjectsInit ==
  /\ part \in {"stopwatch", "guid", "screenshot", "accelerator", "finder"}
  /\ Init /\ G!Init /\ S!Init /\ A!Init /\ B!Init
  /\ part # "stopwatch" => relock = "nothing"
  /\ part # "finder" => shift32 = {} /\ needed = FirstSize

Finds == part = "finder" /\ B!Finds /\ UNCHANGED <<part, vars, guid, screenShot, accelerator>>

ObjectsNext ==
  \/ /\ part = "stopwatch" /\ Next
     /\ UNCHANGED <<part, guid, screenShot, accelerator, finder>>
  \/ /\ part = "guid" /\ G!Next
     /\ UNCHANGED <<part, vars, screenShot, accelerator, finder>>
  \/ /\ part = "screenshot" /\ S!Next
     /\ UNCHANGED <<part, vars, guid, accelerator, finder>>
  \/ /\ part = "accelerator" /\ A!Next
     /\ UNCHANGED <<part, vars, guid, screenShot, finder>>
  \/ /\ part = "finder" /\ B!AdaptersChange
     /\ UNCHANGED <<part, vars, guid, screenShot, accelerator>>
  \/ Finds

allVars == <<part, vars, guid, screenShot, accelerator, finder>>

ObjectsSpec == ObjectsInit /\ [][ObjectsNext]_allVars /\ WF_allVars(Finds)

(* The variables of every part keep their types.                           *)
PartsTypeOK == TypeOK /\ G!TypeOK /\ S!TypeOK /\ A!TypeOK /\ B!TypeOK

(* Guid: the cached string is allocated and shows the present value.       *)
CachedStringIsCurrent == G!CachedStringIsCurrent

(* Guid: every string of the library has exactly one owner.                *)
StringsOwnedOnce == G!StringsOwnedOnce

(* ScreenShot: calls give back what they acquire on every path.            *)
NothingHeld == S!NothingHeld

(* ScreenShot: only a step of _Take that fails leaves a bitmap behind.     *)
BitmapsAccounted == S!BitmapsAccounted

(* Accelerator: a callback that returned is not called again until one of  *)
(* its keys has been up.                                                   *)
OncePerPress == A!OncePerPress

(* Accelerator: Check records the keys that did not change meanwhile.      *)
StateFollowsKeys == A!StateFollowsKeys

(* BroadcastIPFinder: the size told is that of the block, which is freed.  *)
BlockFits == B!BlockFits

(* BroadcastIPFinder: a broadcast address is the highest of its subnet.    *)
BroadcastIsHighest == B!BroadcastIsHighest

(* BroadcastIPFinder: the constructor returns.                             *)
ConstructorReturns == part = "finder" ~> finderPc = "done"

=============================================================================
