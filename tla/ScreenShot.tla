------------------------------ MODULE ScreenShot ------------------------------
(***************************************************************************)
(* The class ScreenShot of src/ScreenShot.cpp: the objects of the graphics *)
(* and OLE libraries that its calls acquire and give back, step by step,   *)
(* each of which may fail and has releases of its own then.  What is       *)
(* copied is not modelled, and of the window only whether there is one:    *)
(* without it the desktop is taken.                                        *)
(***************************************************************************)
EXTENDS Integers, FiniteSets

CONSTANTS Bitmaps,    (* bound: handles of bitmaps; values are used again  *)
          None        (* a null handle                                     *)

VARIABLES pc,         (* where the call is: a label of the constructor,    *)
                      (* Take or Save, "idle" between two calls, "gone"    *)
                      (* after the destructor                              *)
          mHDC,       (* whether the constructor got the window's context  *)
          mHBITMAP,   (* the bitmap of the last Take                       *)
          hBitmap,    (* the local of _Take                                *)
          bitmaps,    (* the bitmaps that exist                            *)
          held,       (* how often everything else is to be given back     *)
          failed      (* history: how often a step from SelectObject on    *)
                      (* has failed                                        *)

vars == <<pc, mHDC, mHBITMAP, hBitmap, bitmaps, held, failed>>

(* The snapshot of the processes, the two contexts, the picture and the    *)
(* stream of Save, and the lock on the memory of the stream.               *)
Things == {"snapshot", "windowDC", "memoryDC", "picture", "stream", "memory"}

SearchLabels == {"new", "first", "entry", "found", "none", "search"}
TakeLabels   == {"rect", "delete", "dc", "bitmap", "select", "blit", "reselect"}
SaveLabels   == {"picture", "stream", "saveAs", "global", "lock", "write", "saved"}

(* Nothing is acquired twice or given back that is not held.               *)
TypeOK ==
  /\ pc \in {"idle", "gone"} \cup SearchLabels \cup TakeLabels \cup SaveLabels
  /\ mHDC \in BOOLEAN
  /\ mHBITMAP \in Bitmaps \cup {None}
  /\ hBitmap \in Bitmaps \cup {None}
  /\ bitmaps \subseteq Bitmaps
  /\ held \in [Things -> 0 .. 1]
  /\ failed \in 0 .. Cardinality(Bitmaps)

Init ==
  /\ pc = "new" /\ mHDC = FALSE
  /\ mHBITMAP = None /\ hBitmap = None
  /\ bitmaps = {} /\ held = [x \in Things |-> 0]
  /\ failed = 0

Goto(from, to) == pc = from /\ pc' = to

Acquire(x)      == held' = [held EXCEPT ![x] = @ + 1]
Release(things) == held' = [x \in Things |-> IF x \in things THEN held[x] - 1 ELSE held[x]]

(* ScreenShot() with the name of a process: GetPID makes a snapshot of     *)
(* those there are.  It is closed where there is no first one, where the   *)
(* process is found and behind the last one.                               *)
GetPID ==
  /\ \/ Goto("new", "first") /\ Acquire("snapshot")
     \/ Goto("first", "search") /\ Release({"snapshot"})
     \/ Goto("first", "entry") /\ UNCHANGED held
     \/ Goto("entry", "found") /\ UNCHANGED held
     \/ Goto("found", "search") /\ Release({"snapshot"})
     \/ Goto("entry", "none") /\ UNCHANGED held
     \/ Goto("none", "search") /\ Release({"snapshot"})
  /\ UNCHANGED <<mHDC, mHBITMAP, hBitmap, bitmaps, failed>>

(* GetDC of the window that was found, or of the desktop, may fail.        *)
Construct ==
  /\ Goto("new", "idle") \/ Goto("search", "idle")
  /\ \/ mHDC' = TRUE /\ Acquire("windowDC")
     \/ UNCHANGED <<mHDC, held>>
  /\ UNCHANGED <<mHBITMAP, hBitmap, bitmaps, failed>>

(* Take, which returns false at once without a context.  A rectangle of    *)
(* the caller needs no call, that of the window may not be had.            *)
Take ==
  /\ mHDC
  /\ \/ Goto("idle", "rect") \/ Goto("idle", "delete")
     \/ Goto("rect", "delete") \/ Goto("rect", "idle")
  /\ UNCHANGED <<mHDC, mHBITMAP, hBitmap, bitmaps, held, failed>>

(* Mutated: the old bitmap is forgotten.                                   *)
ForgetOld == Goto("delete", "dc") /\ UNCHANGED <<mHDC, mHBITMAP, hBitmap, bitmaps, held, failed>>

DeleteOld ==
  /\ Goto("delete", "dc")
  /\ bitmaps' = bitmaps \ {mHBITMAP}
  /\ UNCHANGED <<mHDC, mHBITMAP, hBitmap, held, failed>>

(* _Take returns, and Take stores what it returns.                         *)
TakeReturns(from, bitmap) ==
  /\ Goto(from, "idle")
  /\ mHBITMAP' = bitmap /\ hBitmap' = None
  /\ UNCHANGED <<mHDC, bitmaps>>

(* CreateCompatibleDC                                                      *)
CreateDC ==
  \/ /\ Goto("dc", "bitmap")
     /\ Acquire("memoryDC")
     /\ UNCHANGED <<mHDC, mHBITMAP, hBitmap, bitmaps, failed>>
  \/ TakeReturns("dc", None) /\ UNCHANGED <<held, failed>>

(* CreateCompatibleBitmap                                                  *)
CreateBitmap ==
  \/ \E b \in Bitmaps \ bitmaps :
       /\ Goto("bitmap", "select")
       /\ hBitmap' = b
       /\ bitmaps' = bitmaps \cup {b}
       /\ UNCHANGED <<mHDC, mHBITMAP, held, failed>>
  \/ TakeReturns("bitmap", None) /\ Release({"memoryDC"}) /\ UNCHANGED failed

(* From SelectObject on, a step of _Take that fails leaves the bitmap.     *)
DrawFails(from) == TakeReturns(from, None) /\ failed' = failed + 1

Drawing(from, to) == Goto(from, to) /\ UNCHANGED <<mHDC, mHBITMAP, hBitmap, bitmaps, held, failed>>

SelectBitmap ==
  \/ Drawing("select", "blit")
  \/ DrawFails("select") /\ Release({"memoryDC"})

(* Mutated: the context is not deleted when BitBlt fails.                  *)
BlitFailsHolding ==
  \/ Drawing("blit", "reselect")
  \/ DrawFails("blit") /\ UNCHANGED held

Blit ==
  \/ Drawing("blit", "reselect")
  \/ DrawFails("blit") /\ Release({"memoryDC"})

(* The second SelectObject gives the bitmap that was drawn on.             *)
SelectOld ==
  \/ TakeReturns("reselect", hBitmap) /\ Release({"memoryDC"}) /\ UNCHANGED failed
  \/ DrawFails("reselect") /\ Release({"memoryDC"})

(* Save, with whatever bitmap there is, and the steps of _Save.  A failure *)
(* of GlobalLock it does not report.                                       *)
Save == Goto("idle", "picture") /\ UNCHANGED held

CreatePicture ==
  \/ Goto("picture", "stream") /\ Acquire("picture")
  \/ Goto("picture", "idle") /\ UNCHANGED held

CreateStream ==
  \/ Goto("stream", "saveAs") /\ Acquire("stream")
  \/ Goto("stream", "idle") /\ Release({"picture"})

SaveAsFile ==
  \/ Goto("saveAs", "global") /\ UNCHANGED held
  \/ Goto("saveAs", "idle") /\ Release({"stream", "picture"})

GetMemory ==
  \/ Goto("global", "lock") /\ UNCHANGED held
  \/ Goto("global", "idle") /\ Release({"stream", "picture"})

Write ==
  \/ Goto("lock", "write") /\ Acquire("memory")
  \/ Goto("lock", "saved") /\ UNCHANGED held
  \/ Goto("write", "saved") /\ Release({"memory"})
  \/ Goto("saved", "idle") /\ Release({"stream", "picture"})

Saves ==
  /\ Save \/ CreatePicture \/ CreateStream \/ SaveAsFile \/ GetMemory \/ Write
  /\ UNCHANGED <<mHDC, mHBITMAP, hBitmap, bitmaps, failed>>

(* ~ScreenShot()                                                           *)
Destroy ==
  /\ Goto("idle", "gone")
  /\ bitmaps' = bitmaps \ {mHBITMAP}
  /\ IF mHDC THEN Release({"windowDC"}) ELSE UNCHANGED held
  /\ UNCHANGED <<mHDC, mHBITMAP, hBitmap, failed>>

Next ==
  \/ GetPID \/ Construct
  \/ Take \/ DeleteOld \/ CreateDC \/ CreateBitmap \/ SelectBitmap \/ Blit \/ SelectOld
  \/ Saves \/ Destroy

Spec == Init /\ [][Next]_vars

(* Whichever step fails, a call has given back exactly what it acquired,   *)
(* but for the bitmap that it returns, and the destructor the context of   *)
(* the window too.                                                         *)
NothingHeld ==
  /\ pc = "idle" => held = [x \in Things |-> IF x = "windowDC" /\ mHDC THEN 1 ELSE 0]
  /\ pc = "gone" => \A x \in Things : held[x] = 0

(* Between two calls mHBITMAP is null or exists, and the bitmaps nobody    *)
(* will ever delete are as many as steps of _Take have failed that had one.*)
BitmapsAccounted ==
  /\ pc = "idle" => mHBITMAP = None \/ mHBITMAP \in bitmaps
  /\ pc \in {"idle", "gone"} => Cardinality(bitmaps \ {mHBITMAP}) = failed

=============================================================================
