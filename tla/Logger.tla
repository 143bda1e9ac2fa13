--------------------------------- MODULE Logger --------------------------------
(***************************************************************************)
(* ClampFileNameLength of src/Logger.cpp, with which TRACE prints names    *)
(* and line numbers equally wide.  A string is a sequence of characters;   *)
(* Throws is an exception of the string class, for a length below zero,    *)
(* which is a huge size_t, or a position past the end.                     *)
(***************************************************************************)
EXTENDS Integers, Sequences

CONSTANTS Files,        (* lengths of file names                           *)
          LineNumbers,  (* lengths of line numbers                         *)
          Widths,       (* aLengthMaxFileName, and aLengthMaxLine          *)
          Paddings,     (* lengths of aPadding                             *)
          Throws, None  (* no result, no call yet                          *)

VARIABLES aFile, aLine, aLengthMaxFileName, aLengthMaxLine, aPadding,
          clamped       (* what ClampFileNameLength returned               *)

vars == <<aFile, aLine, aLengthMaxFileName, aLengthMaxLine, aPadding, clamped>>

Times(n, char) == [k \in 1 .. n |-> char]

(* The characters of a file's name are told apart by their positions, the  *)
(* others are not among them.                                              *)
Digit == -1
Colon == -2
Space == -3
Dot   == -4

Init ==
  /\ \E length \in Files : aFile = [k \in 1 .. length |-> k]
  /\ \E length \in LineNumbers : aLine = Times(length, Digit)
  /\ \E length \in Paddings : aPadding = Times(length, Dot)
  /\ aLengthMaxFileName \in Widths /\ aLengthMaxLine \in Widths
  /\ clamped = None

TypeOK ==
  /\ {aLengthMaxFileName, aLengthMaxLine} \subseteq Nat
  /\ {aFile, aLine, aPadding} \subseteq Seq(Int)
  /\ clamped \notin {Throws, None} => clamped \in Seq(Int)

(* Mutated: the padding takes none of the width.                           *)
StartUnpadded == Len(aFile) - aLengthMaxFileName

(* How much of the beginning of the name the padding replaces.             *)
Start == Len(aFile) - aLengthMaxFileName + Len(aPadding)

LineStr == <<Colon>> \o aLine \o Times(aLengthMaxLine - Len(aLine), Space)

ClampFileNameLength ==
  /\ clamped = None
  /\ clamped' =
       IF Len(aLine) > aLengthMaxLine THEN Throws
       ELSE IF Len(aFile) <= aLengthMaxFileName
       THEN aFile \o LineStr \o Times(aLengthMaxFileName - Len(aFile), Space)
       ELSE IF Start > Len(aFile) THEN Throws
       ELSE aPadding \o SubSeq(aFile, Start + 1, Len(aFile)) \o LineStr
  /\ UNCHANGED <<aFile, aLine, aLengthMaxFileName, aLengthMaxLine, aPadding>>

Next == ClampFileNameLength
Spec == Init /\ [][Next]_vars

Column == aLengthMaxFileName + 1 + aLengthMaxLine

(* The end of the name that is kept.                                       *)
Kept == IF Len(aFile) <= aLengthMaxFileName THEN aFile
        ELSE SubSeq(aFile, Len(aFile) - aLengthMaxFileName + Len(aPadding) + 1, Len(aFile))

(* Whatever the name and the line, what TRACE prints before the message is *)
(* one column wide and shows as much of the end of the name as fits beside *)
(* the padding; it throws only where the line or the padding is too wide.  *)
ColumnsAlign ==
  IF clamped = Throws
  THEN Len(aLine) > aLengthMaxLine \/ Len(aPadding) > aLengthMaxFileName
  ELSE clamped # None =>
    /\ Len(clamped) = Column
    /\ \E p \in 1 .. Column :
         clamped[p] = Colon /\ SubSeq(clamped, p - Len(Kept), p - 1) = Kept

=============================================================================
