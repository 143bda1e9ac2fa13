----------------------------- MODULE FormatsProofs -----------------------------
(***************************************************************************)
(* What is proved of IniParser, Size, BinaryEncodings and Logger: for all  *)
(* numbers of 64 bits, and for texts, characters, blocks, separators,      *)
(* lines and columns of any length.                                        *)
(*                                                                         *)
(* None of the properties is inductive.  That the encoders separate blocks *)
(* follows from where every bit they have written is, and which bits are   *)
(* still in block (EncodeInv).  That the decoders undo them follows from   *)
(* how many separators they have passed and which bits they have taken     *)
(* (DecodeInv).  What MakeSize reads is known from what it wrote           *)
(* (SizeInv).  What Serialize writes is read back, because the line of a   *)
(* pair begins and ends as the one it was read from, and because while it  *)
(* writes, what is reread is what is no longer left to write (IniInv).     *)
(***************************************************************************)
EXTENDS Formats, SequenceTheorems, FiniteSetTheorems, WellFoundedInduction, TLAPS

(* Formats does what BinaryEncodings and Logger say, one at a time.        *)
LEMMA ConversionsAlone == FormatsSpec => I!Spec /\ Z!Spec /\ B!Spec /\ L!Spec
<1>1. FormatsInit => I!Init /\ Z!Init /\ B!Init /\ L!Init
  BY DEF FormatsInit
<1>2. [FormatsNext]_<<part, ini, size, binary, logger>> =>
        [I!Next]_(I!vars) /\ [Z!Next]_(Z!vars) /\ [B!Next]_(B!vars) /\ [L!Next]_(L!vars)
  BY DEF FormatsNext, ini, size, binary, logger, I!vars, Z!vars, B!vars, B!inputs, L!vars
<1>3. QED
  BY <1>1, <1>2, PTL DEF FormatsSpec, I!Spec, Z!Spec, B!Spec, L!Spec

-----------------------------------------------------------------------------
(* Logger.                                                                 *)

(* Logger: strings are sequences, and what is clamped is the result.       *)
LoggerInv ==
  /\ aFile \in Seq(Int) /\ aLine \in Seq(Int) /\ aPadding \in Seq(Int)
  /\ aLengthMaxFileName \in Nat /\ aLengthMaxLine \in Nat
  /\ clamped \in Seq(Int) \cup {Throws, None}
  /\ L!ColumnsAlign

LEMMA TimesType ==
  ASSUME NEW n \in Nat, NEW char \in Int
  PROVE  L!Times(n, char) \in Seq(Int) /\ Len(L!Times(n, char)) = n
BY DEF L!Times

LEMMA InitLoggerInv == L!Init => LoggerInv
<1> SUFFICES ASSUME L!Init PROVE LoggerInv
  OBVIOUS
<1> USE FormatsAssumption
<1>1. aFile \in Seq(Int)
  BY DEF L!Init
<1>2. aLine \in Seq(Int) /\ aPadding \in Seq(Int)
  BY TimesType DEF L!Init, L!Digit, L!Dot
<1>3. aLengthMaxFileName \in Nat /\ aLengthMaxLine \in Nat /\ clamped = None
  BY DEF L!Init
<1>4. QED
  BY <1>1, <1>2, <1>3 DEF LoggerInv, L!ColumnsAlign

(* What is between two others is found again after them.                   *)
LEMMA AtTheEnd ==
  ASSUME NEW S, NEW s \in Seq(S), NEW kept \in Seq(S)
  PROVE  SubSeq(s \o kept, Len(s) + 1, Len(s) + Len(kept)) = kept
<1>1. Len(s) \in Nat /\ Len(kept) \in Nat
  BY LenProperties
<1>2. CASE Len(kept) = 0
  <2>1. kept = <<>>
    BY <1>2, EmptySeq
  <2>2. Len(s) + 1 \in Int /\ Len(s) + Len(kept) \in Int /\ Len(s) + Len(kept) < Len(s) + 1
    BY <1>1, <1>2
  <2>3. QED
    BY <2>1, <2>2, SubSeqEmpty, Zenon
<1>3. CASE Len(kept) # 0
  <2>1. /\ Len(s) + 1 \in Len(s) + 1 .. Len(s) + Len(kept)
        /\ Len(s) + Len(kept) \in Len(s) + 1 .. Len(s) + Len(kept)
        /\ (Len(s) + 1) - Len(s) = 1 /\ (Len(s) + Len(kept)) - Len(s) = Len(kept)
    BY <1>1, <1>3
  <2>2. SubSeq(s \o kept, Len(s) + 1, Len(s) + Len(kept)) =
          SubSeq(kept, (Len(s) + 1) - Len(s), (Len(s) + Len(kept)) - Len(s))
    BY <2>1, SubSeqOfConcat2, Zenon
  <2>3. SubSeq(kept, 1, Len(kept)) = kept
    BY SubSeqFull
  <2>4. QED
    BY <2>1, <2>2, <2>3, Zenon
<1>4. QED
  BY <1>2, <1>3

LEMMA EndStays ==
  ASSUME NEW S, NEW s \in Seq(S), NEW rest \in Seq(S), NEW m \in 1 .. Len(s) + 1
  PROVE  SubSeq(s \o rest, m, Len(s)) = SubSeq(s, m, Len(s))
<1>1. Len(s) \in Nat
  BY LenProperties
<1>2. CASE m <= Len(s)
  <2>1. m \in 1 .. Len(s) /\ Len(s) \in 1 .. Len(s)
    BY <1>1, <1>2
  <2>2. QED
    BY <2>1, SubSeqOfConcat1, Zenon
<1>3. CASE ~(m <= Len(s))
  <2>1. m \in Int /\ Len(s) \in Int /\ Len(s) < m
    BY <1>1, <1>3
  <2>2. QED
    BY <2>1, SubSeqEmpty, Zenon
<1>4. QED
  BY <1>2, <1>3

LEMMA FirstOfRest ==
  ASSUME NEW S, NEW s \in Seq(S), NEW rest \in Seq(S), rest # <<>>
  PROVE  /\ s \o rest \in Seq(S) /\ Len(s \o rest) = Len(s) + Len(rest)
         /\ (s \o rest)[Len(s) + 1] = rest[1]
<1>1. Len(s) \in Nat /\ Len(rest) \in Nat \ {0}
  BY LenProperties, EmptySeq
<1>2. QED
  BY <1>1, ConcatProperties

LEMMA InTheMiddle ==
  ASSUME NEW s \in Seq(Int), NEW kept \in Seq(Int), NEW rest \in Seq(Int), rest # <<>>,
         NEW whole, whole = (s \o kept) \o rest, NEW p \in Nat, p = Len(s) + Len(kept) + 1
  PROVE  /\ whole \in Seq(Int) /\ Len(whole) = Len(s) + Len(kept) + Len(rest)
         /\ whole[p] = rest[1]
         /\ SubSeq(whole, p - Len(kept), p - 1) = kept
<1>1. Len(s) \in Nat /\ Len(kept) \in Nat /\ Len(rest) \in Nat
  BY LenProperties
<1>2. PICK before : before = s \o kept
  OBVIOUS
<1>3. before \in Seq(Int) /\ Len(before) = Len(s) + Len(kept)
  BY <1>2, ConcatProperties, Zenon
<1>4. /\ before \o rest \in Seq(Int) /\ Len(before \o rest) = Len(before) + Len(rest)
      /\ (before \o rest)[Len(before) + 1] = rest[1]
  BY <1>3, FirstOfRest
<1>5. SubSeq(before, Len(s) + 1, Len(before)) = kept
  BY <1>2, <1>3, AtTheEnd, Zenon
<1>6. Len(s) + 1 \in 1 .. Len(before) + 1
  BY <1>1, <1>3
<1>7. SubSeq(before \o rest, Len(s) + 1, Len(before)) = kept
  BY <1>3, <1>5, <1>6, EndStays, Zenon
<1>8. p - Len(kept) = Len(s) + 1 /\ p - 1 = Len(before) /\ p = Len(before) + 1
  BY <1>1, <1>3
<1>9. whole = before \o rest
  BY <1>2
<1>10. QED
  BY <1>1, <1>3, <1>4, <1>7, <1>8, <1>9

LEMMA Regroup ==
  ASSUME NEW s \in Seq(Int), NEW t \in Seq(Int), NEW u \in Seq(Int)
  PROVE  (s \o t) \o u = s \o (t \o u)
BY ConcatAssociative

LEMMA Starts ==
  ASSUME NEW S, NEW s \in Seq(S), NEW t \in Seq(S), Len(s) >= 1
  PROVE  /\ s \o t \in Seq(S) /\ Len(s \o t) = Len(s) + Len(t)
         /\ (s \o t)[1] = s[1]
<1>1. Len(s) \in Nat /\ Len(t) \in Nat
  BY LenProperties
<1>2. QED
  BY <1>1, ConcatProperties

LEMMA LineStrType ==
  ASSUME LoggerInv, Len(aLine) <= aLengthMaxLine
  PROVE  /\ L!LineStr \in Seq(Int) /\ Len(L!LineStr) = 1 + aLengthMaxLine
         /\ L!LineStr # <<>> /\ L!LineStr[1] = L!Colon
<1>1. Len(aLine) \in Nat /\ aLine \in Seq(Int) /\ aLengthMaxLine \in Nat
  BY LenProperties DEF LoggerInv
<1>2. aLengthMaxLine - Len(aLine) \in Nat /\ L!Space \in Int
  BY <1>1 DEF L!Space
<1>3. PICK spaces : spaces = L!Times(aLengthMaxLine - Len(aLine), L!Space)
  OBVIOUS
<1>4. spaces \in Seq(Int) /\ Len(spaces) = aLengthMaxLine - Len(aLine)
  BY <1>2, <1>3, TimesType
<1>5. PICK start : start = <<L!Colon>> \o aLine
  OBVIOUS
<1>6. <<L!Colon>> \in Seq(Int) /\ Len(<<L!Colon>>) = 1 /\ <<L!Colon>>[1] = L!Colon
  BY DEF L!Colon
<1>7. start \in Seq(Int) /\ Len(start) = 1 + Len(aLine) /\ start[1] = L!Colon
  BY <1>1, <1>5, <1>6, ConcatProperties
<1>8. /\ start \o spaces \in Seq(Int) /\ Len(start \o spaces) = Len(start) + Len(spaces)
      /\ (start \o spaces)[1] = start[1]
  <2>1. start \in Seq(Int) /\ spaces \in Seq(Int) /\ Len(start) >= 1
    BY <1>1, <1>4, <1>7
  <2>2. QED
    BY <2>1, Starts
<1>9. L!LineStr = start \o spaces
  BY <1>3, <1>5 DEF L!LineStr
<1>10. QED
  BY <1>1, <1>4, <1>7, <1>8, <1>9, EmptySeq

(* Logger: the three things ClampFileNameLength does.                      *)
LEMMA ClampShort ==
  ASSUME LoggerInv, L!ClampFileNameLength,
         Len(aLine) <= aLengthMaxLine, Len(aFile) <= aLengthMaxFileName
  PROVE  clamped' \in Seq(Int) /\ L!ColumnsAlign'
<1> DEFINE lf == Len(aFile)
           p == lf + 1
<1>1. lf \in Nat /\ aFile \in Seq(Int) /\ aLengthMaxFileName \in Nat /\ aLengthMaxLine \in Nat
  BY LenProperties DEF LoggerInv
<1>2. aLengthMaxFileName - lf \in Nat /\ L!Space \in Int
  BY <1>1 DEF L!Space
<1>3. PICK spaces : spaces = L!Times(aLengthMaxFileName - lf, L!Space)
  OBVIOUS
<1>4. spaces \in Seq(Int) /\ Len(spaces) = aLengthMaxFileName - lf
  BY <1>2, <1>3, TimesType
<1>5. clamped' = (aFile \o L!LineStr) \o spaces
  BY <1>1, <1>3, LenProperties DEF L!ClampFileNameLength, LoggerInv
<1>6. /\ L!LineStr \in Seq(Int) /\ Len(L!LineStr) = 1 + aLengthMaxLine
      /\ Len(L!LineStr) >= 1 /\ L!LineStr[1] = L!Colon
  BY <1>1, LineStrType
<1>7. PICK rest : rest = L!LineStr \o spaces
  OBVIOUS
<1>8. /\ rest \in Seq(Int) /\ Len(rest) = 1 + aLengthMaxLine + (aLengthMaxFileName - lf)
      /\ rest[1] = L!Colon
  BY <1>1, <1>4, <1>6, <1>7, Starts
<1>9. clamped' = aFile \o rest
  <2>1. (aFile \o L!LineStr) \o spaces = aFile \o (L!LineStr \o spaces)
    <3>1. aFile \in Seq(Int) /\ L!LineStr \in Seq(Int) /\ spaces \in Seq(Int)
      BY <1>1, <1>4, <1>6
    <3>2. QED
      BY <3>1, Regroup
  <2>2. QED
    BY <1>5, <1>7, <2>1, Zenon
<1>10. clamped' = (<<>> \o aFile) \o rest
  BY <1>1, <1>9, ConcatEmptySeq, Zenon
<1>11. <<>> \in Seq(Int) /\ Len(<<>>) = 0 /\ rest # <<>>
  BY <1>1, <1>8, EmptySeq
<1>12. /\ clamped' \in Seq(Int) /\ Len(clamped') = lf + Len(rest)
       /\ clamped'[p] = rest[1] /\ SubSeq(clamped', p - lf, p - 1) = aFile
  <2>1. Len(<<>>) + lf = lf
    BY <1>1, <1>11
  <2>2. QED
    BY <1>1, <1>8, <1>10, <1>11, <2>1, InTheMiddle
<1>13. L!Column' = aLengthMaxFileName + 1 + aLengthMaxLine /\ L!Kept' = aFile
  BY DEF L!ClampFileNameLength, L!Column, L!Kept
<1>14. p \in 1 .. L!Column' /\ Len(clamped') = L!Column' /\ Len(L!Kept') = lf
  BY <1>1, <1>8, <1>12, <1>13
<1>15. clamped' # Throws
  BY <1>12, FormatsAssumption
<1>16. QED
  BY <1>8, <1>12, <1>13, <1>14, <1>15 DEF L!ColumnsAlign, L!Colon

LEMMA ClampLong ==
  ASSUME LoggerInv, L!ClampFileNameLength,
         Len(aLine) <= aLengthMaxLine, ~(Len(aFile) <= aLengthMaxFileName),
         ~(L!Start > Len(aFile))
  PROVE  clamped' \in Seq(Int) /\ L!ColumnsAlign'
<1> DEFINE lf == Len(aFile)
           p == aLengthMaxFileName + 1
<1>1. /\ lf \in Nat /\ aFile \in Seq(Int) /\ aPadding \in Seq(Int) /\ Len(aPadding) \in Nat
      /\ aLengthMaxFileName \in Nat /\ aLengthMaxLine \in Nat
  BY LenProperties DEF LoggerInv
<1>2. L!Start \in 0 .. lf /\ lf - L!Start = aLengthMaxFileName - Len(aPadding)
  BY <1>1 DEF L!Start
<1>3. PICK kept : kept = SubSeq(aFile, L!Start + 1, lf)
  OBVIOUS
<1>4. kept \in Seq(Int) /\ Len(kept) = aLengthMaxFileName - Len(aPadding)
  <2>1. \A k \in L!Start + 1 .. lf : aFile[k] \in Int
    BY <1>1, <1>2, ElementOfSeq
  <2>2. L!Start + 1 \in Int /\ lf \in Int
    BY <1>1, <1>2
  <2>3. kept \in Seq(Int) /\ Len(kept) = IF L!Start + 1 <= lf THEN lf - (L!Start + 1) + 1 ELSE 0
    BY <1>3, <2>1, <2>2, SubSeqProperties
  <2>4. QED
    BY <1>1, <1>2, <2>3
<1>5. clamped' = (aPadding \o kept) \o L!LineStr
  <2>1. ~(Len(aLine) > aLengthMaxLine)
    BY <1>1, LenProperties DEF LoggerInv
  <2>2. QED
    BY <1>3, <2>1, Zenon DEF L!ClampFileNameLength
<1>6. L!Column' = aLengthMaxFileName + 1 + aLengthMaxLine /\ L!Kept' = kept
  BY <1>3 DEF L!ClampFileNameLength, L!Column, L!Kept, L!Start
<1>7. /\ L!LineStr \in Seq(Int) /\ Len(L!LineStr) = 1 + aLengthMaxLine
      /\ L!LineStr # <<>> /\ L!LineStr[1] = L!Colon
  BY LineStrType
<1>8. p = Len(aPadding) + Len(kept) + 1
  BY <1>1, <1>4
<1>9. /\ clamped' \in Seq(Int) /\ Len(clamped') = Len(aPadding) + Len(kept) + Len(L!LineStr)
      /\ clamped'[p] = L!LineStr[1] /\ SubSeq(clamped', p - Len(kept), p - 1) = kept
  <2>1. /\ aPadding \in Seq(Int) /\ kept \in Seq(Int)
        /\ L!LineStr \in Seq(Int) /\ L!LineStr # <<>>
    BY <1>1, <1>4, <1>7
  <2>2. PICK whole : whole = clamped'
    OBVIOUS
  <2>3. whole = (aPadding \o kept) \o L!LineStr /\ p \in Nat
    BY <1>1, <1>5, <2>2
  <2> HIDE DEF p
  <2>4. QED
    BY <1>8, <2>1, <2>2, <2>3, InTheMiddle
<1>10. p \in 1 .. L!Column' /\ Len(clamped') = L!Column'
  BY <1>1, <1>4, <1>6, <1>7, <1>9
<1>11. clamped' # Throws
  BY <1>9, FormatsAssumption
<1>12. QED
  BY <1>6, <1>7, <1>9, <1>10, <1>11 DEF L!ColumnsAlign, L!Colon

LEMMA ClampThrows ==
  ASSUME LoggerInv, L!ClampFileNameLength,
         \/ ~(Len(aLine) <= aLengthMaxLine)
         \/ ~(Len(aFile) <= aLengthMaxFileName) /\ L!Start > Len(aFile)
  PROVE  clamped' = Throws /\ L!ColumnsAlign'
<1>1. /\ Len(aFile) \in Nat /\ Len(aLine) \in Nat /\ Len(aPadding) \in Nat
      /\ aLengthMaxFileName \in Nat /\ aLengthMaxLine \in Nat
  BY LenProperties DEF LoggerInv
<1>2. clamped' = Throws /\ UNCHANGED <<aLine, aLengthMaxFileName, aLengthMaxLine, aPadding>>
  BY <1>1 DEF L!ClampFileNameLength
<1>3. Len(aLine) > aLengthMaxLine \/ Len(aPadding) > aLengthMaxFileName
  BY <1>1 DEF L!Start
<1>4. QED
  BY <1>2, <1>3 DEF L!ColumnsAlign

LEMMA LoggerStep == LoggerInv /\ [L!Next]_(L!vars) => LoggerInv'
<1> SUFFICES ASSUME LoggerInv, [L!Next]_(L!vars) PROVE LoggerInv'
  OBVIOUS
<1>1. CASE UNCHANGED L!vars
  BY <1>1 DEF LoggerInv, L!vars, L!ColumnsAlign, L!Column, L!Kept
<1>2. CASE L!ClampFileNameLength
  <2>1. UNCHANGED <<aFile, aLine, aLengthMaxFileName, aLengthMaxLine, aPadding>>
    BY <1>2 DEF L!ClampFileNameLength
  <2>2. clamped' \in Seq(Int) \cup {Throws, None} /\ L!ColumnsAlign'
    BY <1>2, ClampShort, ClampLong, ClampThrows
  <2>3. QED
    BY <2>1, <2>2 DEF LoggerInv
<1>3. QED
  BY <1>1, <1>2 DEF L!Next

(* Logger: for names, line numbers, columns and paddings of any length,    *)
(* ClampFileNameLength returns a column of the width that TRACE asked for, *)
(* with the end of the name in its place, or throws where it must.         *)
THEOREM ColumnsAlignHolds == FormatsSpec => []ColumnsAlign
<1>1. L!Spec => []LoggerInv
  BY InitLoggerInv, LoggerStep, PTL DEF L!Spec
<1>2. LoggerInv => ColumnsAlign
  BY DEF LoggerInv, ColumnsAlign
<1>3. QED
  BY <1>1, <1>2, ConversionsAlone, PTL

-----------------------------------------------------------------------------
(* BinaryEncodings: products and quotients.                                *)

LEMMA DivUnique ==
  ASSUME NEW b \in Nat \ {0}, NEW q \in Nat, NEW r \in Nat, r < b
  PROVE  (q * b + r) \div b = q /\ (q * b + r) % b = r
OBVIOUS

LEMMA DivParts ==
  ASSUME NEW b \in Nat \ {0}, NEW k \in Nat
  PROVE  /\ k \div b \in Nat /\ k % b \in Nat /\ k % b < b
         /\ k = (k \div b) * b + (k % b)
OBVIOUS

LEMMA TimesNat ==
  ASSUME NEW q \in Nat, NEW b \in Nat
  PROVE  /\ q * b \in Nat /\ (q + 1) * b = q * b + b
         /\ (q > 0 => q * b >= b)
         /\ (b > 0 => q * b >= q)
OBVIOUS

LEMMA TimesMonotonic ==
  ASSUME NEW b \in Nat, NEW p \in Nat, NEW q \in Nat, p <= q
  PROVE  p * b <= q * b
OBVIOUS

LEMMA TimesOrder ==
  ASSUME NEW b \in Nat, NEW p \in Nat, NEW q \in Nat, p * b < q * b
  PROVE  p < q
BY TimesMonotonic, TimesNat

LEMMA TimesSum ==
  ASSUME NEW q \in Nat, NEW b \in Nat, NEW c \in Nat
  PROVE  q * (b + c) = q * b + q * c
OBVIOUS

(* The block that the k-th bit is in.                                      *)
LEMMA BlockOf ==
  ASSUME NEW b \in Nat \ {0}, NEW k \in Nat \ {0}
  PROVE  \E j \in Nat : j * b < k /\ k <= j * b + b
<1>1. k - 1 \in Nat
  OBVIOUS
<1>2. PICK j \in Nat, r \in Nat : j = (k - 1) \div b /\ r < b /\ k - 1 = j * b + r
  BY <1>1, DivParts
<1>3. j * b < k /\ k <= j * b + b
  BY <1>2, TimesNat
<1>4. QED
  BY <1>3

(* BinaryEncodings: the types, for characters that all have CharBits.      *)
BinaryTypes ==
  /\ text \in Seq(Seq(B!Bits)) /\ decodedText \in Seq(Seq(B!Bits))
  /\ \A c \in 1 .. Len(text) : Len(text[c]) = B!CharBits
  /\ binaryText \in Seq(B!Bits) /\ block \in Seq(B!Bits)
  /\ charBytes \in Nat \ {0} /\ blockSize \in Nat \ {0} /\ separatorLength \in Nat
  /\ littleEndian \in BOOLEAN
  /\ read \in 0 .. Len(text)
  /\ pc \in {"encode", "decode", "done"}
  /\ i \in Nat /\ separatorBlockStartIndex \in Nat

LEMMA CharBitsType ==
  ASSUME BinaryTypes
  PROVE  B!CharBits \in Nat \ {0}
BY TimesNat, FormatsAssumption DEF BinaryTypes, B!CharBits

LEMMA PlaceInBlock ==
  ASSUME BinaryTypes, NEW j \in Nat, NEW k \in Nat,
         j * blockSize < k, k <= j * blockSize + blockSize
  PROVE  B!PlaceOf(k) = k + j * separatorLength
<1>1. j * blockSize \in Nat /\ blockSize \in Nat \ {0}
  BY TimesNat DEF BinaryTypes
<1>2. PICK r \in Nat : r < blockSize /\ k - 1 = j * blockSize + r
  <2>1. k - 1 - j * blockSize \in Nat /\ k - 1 - j * blockSize < blockSize
    BY <1>1
  <2>2. QED
    BY <1>1, <2>1
<1>3. (k - 1) \div blockSize = j
  BY <1>1, <1>2, DivUnique
<1>4. QED
  BY <1>3 DEF B!PlaceOf

(* BinaryEncodings: m blocks and their separators.                         *)
LEMMA PlacesOfBlocks ==
  ASSUME BinaryTypes, NEW m \in Nat, NEW k \in 1 .. m * blockSize
  PROVE  B!PlaceOf(k) \in 1 .. m * (blockSize + separatorLength)
<1>1. blockSize \in Nat \ {0} /\ separatorLength \in Nat /\ m * blockSize \in Nat /\ k \in Nat \ {0}
  BY TimesNat DEF BinaryTypes
<1>2. PICK j \in Nat : j * blockSize < k /\ k <= j * blockSize + blockSize
  BY <1>1, BlockOf
<1>3. B!PlaceOf(k) = k + j * separatorLength
  BY <1>1, <1>2, PlaceInBlock
<1>4. j * separatorLength \in Nat /\ j * blockSize \in Nat /\ m * separatorLength \in Nat
  BY <1>1, TimesNat
<1>5. j < m
  <2>1. j * blockSize < m * blockSize
    BY <1>1, <1>2, <1>4
  <2>2. QED
    BY <1>1, <2>1, TimesOrder
<1>6. j * separatorLength <= m * separatorLength
  BY <1>1, <1>5, TimesMonotonic
<1>7. m * (blockSize + separatorLength) = m * blockSize + m * separatorLength
  BY <1>1, TimesSum
<1>8. QED
  BY <1>1, <1>3, <1>4, <1>6, <1>7

LEMMA PlacesRise ==
  ASSUME BinaryTypes, NEW k \in Nat \ {0}, NEW l \in Nat, k <= l
  PROVE  B!PlaceOf(k) \in Nat \ {0} /\ B!PlaceOf(l) \in Nat
         /\ B!PlaceOf(l) - B!PlaceOf(k) >= l - k
<1>1. blockSize \in Nat \ {0} /\ separatorLength \in Nat /\ l \in Nat \ {0}
  BY DEF BinaryTypes
<1>2. PICK j \in Nat : j * blockSize < k /\ k <= j * blockSize + blockSize
  BY <1>1, BlockOf
<1>3. PICK h \in Nat : h * blockSize < l /\ l <= h * blockSize + blockSize
  BY <1>1, BlockOf
<1>4. B!PlaceOf(k) = k + j * separatorLength /\ B!PlaceOf(l) = l + h * separatorLength
  BY <1>1, <1>2, <1>3, PlaceInBlock
<1>5. /\ j * blockSize \in Nat /\ h * blockSize \in Nat /\ (h + 1) * blockSize = h * blockSize + blockSize
      /\ j * separatorLength \in Nat /\ h * separatorLength \in Nat
  BY <1>1, TimesNat
<1>6. j <= h
  <2>1. j * blockSize < (h + 1) * blockSize
    BY <1>1, <1>2, <1>3, <1>5
  <2>2. j < h + 1
    BY <1>1, <2>1, TimesOrder
  <2>3. QED
    BY <2>2
<1>7. j * separatorLength <= h * separatorLength
  BY <1>1, <1>6, TimesMonotonic
<1>8. QED
  BY <1>4, <1>5, <1>7

(* BSWAP16 and BSWAP32.                                                    *)
LEMMA SwappedPlaces ==
  ASSUME BinaryTypes, NEW k \in 1 .. B!CharBits
  PROVE  /\ B!SwappedPlace(k) \in 1 .. B!CharBits
         /\ B!SwappedPlace(B!SwappedPlace(k)) = k
<1>1. ByteWidth \in Nat \ {0} /\ charBytes \in Nat \ {0} /\ k - 1 \in Nat
  BY FormatsAssumption, CharBitsType DEF BinaryTypes
<1>2. PICK q \in Nat, r \in Nat :
        /\ (k - 1) \div ByteWidth = q /\ (k - 1) % ByteWidth = r
        /\ r < ByteWidth /\ k - 1 = q * ByteWidth + r
  BY <1>1, DivParts
<1>3. q < charBytes
  <2>1. q * ByteWidth < charBytes * ByteWidth
    BY <1>1, <1>2, TimesNat DEF B!CharBits
  <2>2. QED
    BY <1>1, <2>1, TimesOrder
<1>4. PICK h \in Nat : h = charBytes - 1 - q
  BY <1>1, <1>3
<1>5. B!SwappedPlace(k) = h * ByteWidth + r + 1
  BY <1>2, <1>4 DEF B!SwappedPlace
<1>6. h * ByteWidth \in Nat /\ h * ByteWidth + ByteWidth <= charBytes * ByteWidth
  <2>1. (h + 1) * ByteWidth <= charBytes * ByteWidth
    BY <1>1, <1>2, <1>4, TimesMonotonic
  <2>2. QED
    BY <1>1, <2>1, TimesNat
<1>7. B!SwappedPlace(k) \in 1 .. B!CharBits
  BY <1>1, <1>2, <1>5, <1>6, CharBitsType DEF B!CharBits
<1>8. PICK p \in Nat : p = h * ByteWidth + r
  BY <1>6
<1>9. p \div ByteWidth = h /\ p % ByteWidth = r
  BY <1>1, <1>2, <1>8, DivUnique
<1>10. B!SwappedPlace(k) - 1 = p
  BY <1>5, <1>8
<1>11. B!SwappedPlace(B!SwappedPlace(k)) = (charBytes - 1 - h) * ByteWidth + r + 1
  BY <1>9, <1>10 DEF B!SwappedPlace
<1>12. charBytes - 1 - h = q
  BY <1>1, <1>2, <1>4
<1>13. q * ByteWidth \in Nat
  BY <1>1, TimesNat
<1>14. QED
  BY <1>1, <1>2, <1>7, <1>11, <1>12, <1>13

LEMMA SwappedType ==
  ASSUME BinaryTypes, NEW char \in Seq(B!Bits), Len(char) = B!CharBits
  PROVE  /\ B!Swapped(char) \in Seq(B!Bits) /\ Len(B!Swapped(char)) = B!CharBits
         /\ B!Swapped(B!Swapped(char)) = char
<1>1. B!CharBits \in Nat
  BY CharBitsType
<1>2. CASE ~littleEndian
  BY <1>2 DEF B!Swapped
<1>3. CASE littleEndian
  <2>1. PICK swapped : swapped = B!Swapped(char)
    OBVIOUS
  <2>2. \A k \in 1 .. B!CharBits : char[B!SwappedPlace(k)] \in B!Bits
    BY SwappedPlaces, ElementOfSeq
  <2>3. /\ swapped \in Seq(B!Bits) /\ Len(swapped) = B!CharBits
        /\ \A k \in 1 .. B!CharBits : swapped[k] = char[B!SwappedPlace(k)]
    BY <1>1, <1>3, <2>1, <2>2 DEF B!Swapped
  <2>4. PICK back : back = B!Swapped(swapped)
    OBVIOUS
  <2>5. \A k \in 1 .. B!CharBits : swapped[B!SwappedPlace(k)] \in B!Bits
    BY <2>3, SwappedPlaces, ElementOfSeq
  <2>6. /\ back \in Seq(B!Bits) /\ Len(back) = B!CharBits
        /\ \A k \in 1 .. B!CharBits : back[k] = swapped[B!SwappedPlace(k)]
    BY <1>1, <1>3, <2>4, <2>5 DEF B!Swapped
  <2>7. \A k \in 1 .. B!CharBits : back[k] = char[k]
    BY <2>3, <2>6, SwappedPlaces
  <2>8. back = char
    BY <2>6, <2>7, SeqEqual
  <2>9. QED
    BY <2>1, <2>3, <2>4, <2>8
<1>4. QED
  BY <1>2, <1>3 DEF BinaryTypes

(* BinaryEncodings: the bits of the whole text are those of its characters.*)
LEMMA AllBitsType ==
  ASSUME BinaryTypes
  PROVE  /\ Len(text) * B!CharBits \in Nat
         /\ B!AllBits \in Seq(B!Bits) /\ Len(B!AllBits) = Len(text) * B!CharBits
         /\ DOMAIN B!AllBits = 1 .. Len(text) * B!CharBits
         /\ B!AllBits = <<>> <=> Len(text) * B!CharBits = 0
<1>1. B!CharBits \in Nat \ {0} /\ Len(text) \in Nat /\ text \in Seq(Seq(B!Bits))
  BY CharBitsType, LenProperties DEF BinaryTypes
<1>2. Len(text) * B!CharBits \in Nat
  BY <1>1, TimesNat
<1>3. ASSUME NEW k \in 1 .. Len(text) * B!CharBits
      PROVE  B!Swapped(text[((k - 1) \div B!CharBits) + 1])[((k - 1) % B!CharBits) + 1] \in B!Bits
  <2>1. k - 1 \in Nat
    BY <1>2
  <2>2. PICK q \in Nat, r \in Nat :
          /\ (k - 1) \div B!CharBits = q /\ (k - 1) % B!CharBits = r
          /\ r < B!CharBits /\ k - 1 = q * B!CharBits + r
    BY <1>1, <2>1, DivParts
  <2>3. q * B!CharBits < Len(text) * B!CharBits
    BY <1>1, <1>2, <2>2, TimesNat
  <2>4. q < Len(text)
    BY <1>1, <2>3, TimesOrder
  <2>5. q + 1 \in 1 .. Len(text) /\ r + 1 \in 1 .. B!CharBits
    BY <1>1, <2>2, <2>4
  <2>6. text[q + 1] \in Seq(B!Bits) /\ Len(text[q + 1]) = B!CharBits
    BY <1>1, <2>5, ElementOfSeq DEF BinaryTypes
  <2>7. B!Swapped(text[q + 1]) \in Seq(B!Bits) /\ Len(B!Swapped(text[q + 1])) = B!CharBits
    BY <2>6, SwappedType
  <2>8. B!Swapped(text[q + 1])[r + 1] \in B!Bits
    BY <2>5, <2>7, ElementOfSeq
  <2>9. QED
    BY <2>2, <2>8
<1>4. B!AllBits \in Seq(B!Bits) /\ Len(B!AllBits) = Len(text) * B!CharBits
  BY <1>2, <1>3 DEF B!AllBits
<1>5. QED
  BY <1>2, <1>4, LenProperties, EmptySeq

LEMMA AllBitsOf ==
  ASSUME BinaryTypes, NEW c \in Nat, c < Len(text), NEW k \in 1 .. B!CharBits
  PROVE  /\ c * B!CharBits + k \in 1 .. Len(text) * B!CharBits
         /\ B!AllBits[c * B!CharBits + k] = B!Swapped(text[c + 1])[k]
<1>1. B!CharBits \in Nat \ {0} /\ Len(text) \in Nat
  BY CharBitsType, LenProperties DEF BinaryTypes
<1>2. c * B!CharBits \in Nat /\ c * B!CharBits + B!CharBits <= Len(text) * B!CharBits
  <2>1. (c + 1) * B!CharBits <= Len(text) * B!CharBits
    BY <1>1, TimesMonotonic
  <2>2. QED
    BY <1>1, <2>1, TimesNat
<1>3. PICK p \in Nat : p = c * B!CharBits + (k - 1)
  BY <1>1, <1>2
<1>4. p \div B!CharBits = c /\ p % B!CharBits = k - 1
  BY <1>1, <1>3, DivUnique
<1>5. p + 1 = c * B!CharBits + k /\ p + 1 \in 1 .. Len(text) * B!CharBits /\ (p + 1) - 1 = p
  BY <1>1, <1>2, <1>3, AllBitsType
<1>6. B!AllBits[p + 1] = B!Swapped(text[(p \div B!CharBits) + 1])[(p % B!CharBits) + 1]
  BY <1>5 DEF B!AllBits
<1>7. QED
  BY <1>1, <1>4, <1>5, <1>6

-----------------------------------------------------------------------------
(* BinaryEncodings: what the encoder has written are m blocks, and what it *)
(* has read but not written is in block.                                   *)
Written(m) ==
  /\ Len(binaryText) = m * (blockSize + separatorLength)
  /\ \A k \in 1 .. m * blockSize : binaryText[B!PlaceOf(k)] = B!AllBits[k]
  /\ Len(block) = read * B!CharBits - m * blockSize
  /\ \A k \in 1 .. Len(block) : block[k] = B!AllBits[m * blockSize + k]
  /\ m > 0 => Len(block) >= 1

EncodeInv == pc = "encode" =>
  /\ decodedText = <<>>
  /\ Len(block) <= blockSize + B!CharBits
  /\ \E m \in Nat : Written(m)

(* BinaryEncodings: where every bit of the text is when all are written.   *)
Placed ==
  /\ Len(binaryText) = IF B!AllBits = <<>> THEN 0 ELSE B!PlaceOf(Len(B!AllBits))
  /\ \A k \in DOMAIN B!AllBits : binaryText[B!PlaceOf(k)] = B!AllBits[k]

(* BinaryEncodings: the decoder has taken r bits, the last of them from    *)
(* the block after j separators, and expects the next separator behind it. *)
Taken == Len(decodedText) * B!CharBits + Len(block)
Reached(j) ==
  /\ j * blockSize < Taken \/ (j = 0 /\ Taken = 0)
  /\ Taken <= j * blockSize + blockSize
  /\ i = Taken + j * separatorLength
  /\ separatorBlockStartIndex = j * (blockSize + separatorLength) + blockSize

DecodeInv == pc # "encode" =>
  /\ Placed
  /\ Taken <= Len(text) * B!CharBits
  /\ Len(block) < B!CharBits
  /\ \A c \in 1 .. Len(decodedText) : decodedText[c] = text[c]
  /\ \A k \in 1 .. Len(block) : block[k] = B!AllBits[Len(decodedText) * B!CharBits + k]
  /\ \E j \in Nat : Reached(j)
  /\ pc = "done" => i >= Len(binaryText)

BinaryInv == BinaryTypes /\ EncodeInv /\ DecodeInv

LEMMA InitBinaryInv == B!Init => BinaryInv
<1> SUFFICES ASSUME B!Init PROVE BinaryInv
  OBVIOUS
<1>1. PICK length \in 0 .. MaxText :
        text = [c \in 1 .. length |-> [k \in 1 .. B!CharBits |-> <<c, k>>]]
  BY DEF B!Init
<1>2. /\ charBytes \in Nat \ {0} /\ blockSize \in Nat \ {0} /\ separatorLength \in Nat
      /\ ByteWidth \in Nat \ {0} /\ MaxText \in Nat
  BY FormatsAssumption DEF B!Init
<1>3. B!CharBits \in Nat
  BY <1>2, TimesNat DEF B!CharBits
<1>4. /\ text \in Seq(Seq(B!Bits)) /\ Len(text) = length
      /\ \A c \in 1 .. Len(text) : Len(text[c]) = B!CharBits
  <2>1. ASSUME NEW c \in 1 .. length
        PROVE  /\ [k \in 1 .. B!CharBits |-> <<c, k>>] \in Seq(B!Bits)
               /\ Len([k \in 1 .. B!CharBits |-> <<c, k>>]) = B!CharBits
    BY <1>2, <1>3 DEF B!Bits
  <2>2. length \in Nat
    BY <1>2
  <2>3. /\ text \in [1 .. length -> Seq(B!Bits)]
        /\ \A c \in 1 .. length : Len(text[c]) = B!CharBits
    BY <1>1, <2>1, Zenon
  <2>4. QED
    BY <2>2, <2>3
<1>5. <<>> \in Seq(B!Bits) /\ <<>> \in Seq(Seq(B!Bits)) /\ Len(<<>>) = 0
  BY EmptySeq
<1>6. BinaryTypes
  <2>1. /\ binaryText = <<>> /\ block = <<>> /\ decodedText = <<>> /\ read = 0 /\ i = 0
        /\ separatorBlockStartIndex = 0 /\ pc = "encode" /\ littleEndian \in BOOLEAN
    BY DEF B!Init
  <2>2. 0 \in 0 .. Len(text)
    BY <1>4
  <2>3. QED
    BY <1>2, <1>4, <1>5, <2>1, <2>2 DEF BinaryTypes
<1>7. Written(0)
  BY <1>2, <1>3, <1>5 DEF Written, B!Init
<1>8. EncodeInv
  BY <1>2, <1>3, <1>5, <1>7 DEF EncodeInv, B!Init
<1>9. QED
  BY <1>6, <1>8 DEF BinaryInv, DecodeInv, B!Init

(* A step changes no text, so that a bit keeps its number and its place.   *)
LEMMA SameBits ==
  ASSUME UNCHANGED B!inputs
  PROVE  /\ B!AllBits' = B!AllBits /\ B!CharBits' = B!CharBits
         /\ \A k : B!PlaceOf(k)' = B!PlaceOf(k)
         /\ \A char : B!Swapped(char)' = B!Swapped(char)
<1>1. B!CharBits' = B!CharBits /\ \A k : B!SwappedPlace(k)' = B!SwappedPlace(k)
  BY DEF B!inputs, B!CharBits, B!SwappedPlace
<1>2. \A char : B!Swapped(char)' = B!Swapped(char)
  BY <1>1 DEF B!inputs, B!Swapped
<1>3. QED
  BY <1>1, <1>2 DEF B!inputs, B!AllBits, B!PlaceOf

LEMMA EncodeCharStep == BinaryInv /\ B!EncodeChar => BinaryInv'
<1> SUFFICES ASSUME BinaryInv, B!EncodeChar PROVE BinaryInv'
  OBVIOUS
<1>1. /\ pc = "encode" /\ ~B!IsFull /\ read < Len(text)
      /\ block' = block \o B!Swapped(text[read + 1]) /\ read' = read + 1
      /\ UNCHANGED <<B!inputs, binaryText, pc, i, separatorBlockStartIndex, decodedText>>
  BY DEF B!EncodeChar
<1>2. /\ BinaryTypes /\ Len(text) \in Nat /\ read \in Nat /\ read + 1 \in 1 .. Len(text)
      /\ block \in Seq(B!Bits) /\ Len(block) \in Nat /\ blockSize \in Nat \ {0} /\ text \in Seq(Seq(B!Bits))
      /\ B!CharBits \in Nat \ {0}
  BY <1>1, LenProperties, CharBitsType DEF BinaryInv, BinaryTypes
<1>3. PICK char : char = B!Swapped(text[read + 1])
  OBVIOUS
<1>4. char \in Seq(B!Bits) /\ Len(char) = B!CharBits
  <2>1. text[read + 1] \in Seq(B!Bits) /\ Len(text[read + 1]) = B!CharBits
    BY <1>2, ElementOfSeq DEF BinaryTypes
  <2>2. QED
    BY <1>2, <1>3, <2>1, SwappedType
<1>5. /\ block' \in Seq(B!Bits) /\ Len(block') = Len(block) + B!CharBits
      /\ \A k \in 1 .. Len(block) + B!CharBits :
           block'[k] = IF k <= Len(block) THEN block[k] ELSE char[k - Len(block)]
  BY <1>1, <1>2, <1>3, <1>4, ConcatProperties
<1>6. BinaryTypes'
  <2>1. B!Bits' = B!Bits
    BY DEF B!Bits
  <2>2. read' \in 0 .. Len(text')
    BY <1>1, <1>2 DEF B!inputs
  <2>3. QED
    BY <1>1, <1>2, <1>5, <2>1, <2>2, SameBits DEF BinaryTypes, B!inputs
<1>7. PICK m \in Nat : Written(m)
  BY <1>1 DEF BinaryInv, EncodeInv
<1>8. m * blockSize \in Nat /\ read * B!CharBits \in Nat /\ (read + 1) * B!CharBits = read * B!CharBits + B!CharBits
  BY <1>2, TimesNat
<1>9. Len(block') = (read + 1) * B!CharBits - m * blockSize /\ Len(block') >= 1
  BY <1>2, <1>5, <1>7, <1>8 DEF Written
<1>10. ASSUME NEW k \in 1 .. Len(block') PROVE block'[k] = B!AllBits[m * blockSize + k]
  <2>1. CASE k <= Len(block)
    <3>1. k \in 1 .. Len(block) /\ block'[k] = block[k]
      BY <1>2, <1>5, <2>1
    <3>2. QED
      BY <1>7, <3>1 DEF Written
  <2>2. CASE ~(k <= Len(block))
    <3>1. PICK h \in 1 .. B!CharBits : h = k - Len(block)
      <4>1. k \in Int /\ k <= Len(block) + B!CharBits /\ Len(block) \in Nat /\ B!CharBits \in Nat
        BY <1>2, <1>5
      <4>2. k - Len(block) \in 1 .. B!CharBits
        BY <2>2, <4>1
      <4>3. QED
        BY <4>2
    <3>2. block'[k] = char[h]
      BY <1>2, <1>5, <2>2, <3>1
    <3>3. m * blockSize + k = read * B!CharBits + h
      BY <1>2, <1>7, <1>8, <3>1 DEF Written
    <3>4. B!AllBits[read * B!CharBits + h] = char[h]
      BY <1>1, <1>2, <1>3, AllBitsOf
    <3>5. QED
      BY <3>2, <3>3, <3>4
  <2>3. QED
    BY <2>1, <2>2
<1>11. Written(m)'
  <2>1. m' = m
    OBVIOUS
  <2>2. blockSize' = blockSize /\ separatorLength' = separatorLength /\ binaryText' = binaryText
    BY <1>1 DEF B!inputs
  <2>3. QED
    BY <1>1, <1>7, <1>9, <1>10, <2>2, SameBits DEF Written
<1>12. EncodeInv'
  <2>1. Len(block) <= blockSize
    BY <1>1, <1>2 DEF B!IsFull
  <2>2. Len(block') <= blockSize' + B!CharBits'
    BY <1>1, <1>2, <1>5, <2>1, SameBits DEF B!inputs
  <2>3. QED
    BY <1>1, <1>11, <2>2 DEF EncodeInv, BinaryInv
<1>13. QED
  BY <1>1, <1>6, <1>12 DEF BinaryInv, DecodeInv

LEMMA TwoAdded ==
  ASSUME NEW S, NEW a \in Seq(S), NEW s \in Seq(S), NEW t \in Seq(S)
  PROVE  /\ (a \o s) \o t \in Seq(S) /\ Len((a \o s) \o t) = Len(a) + Len(s) + Len(t)
         /\ \A k \in 1 .. Len(a) : ((a \o s) \o t)[k] = a[k]
         /\ \A k \in 1 .. Len(s) : ((a \o s) \o t)[Len(a) + k] = s[k]
<1>1. Len(a) \in Nat /\ Len(s) \in Nat /\ Len(t) \in Nat
  BY LenProperties
<1>2. PICK b : b = a \o s
  OBVIOUS
<1>3. /\ b \in Seq(S) /\ Len(b) = Len(a) + Len(s)
      /\ \A k \in 1 .. Len(a) : b[k] = a[k]
      /\ \A k \in 1 .. Len(s) : b[Len(a) + k] = s[k]
  BY <1>1, <1>2, ConcatProperties
<1>4. /\ b \o t \in Seq(S) /\ Len(b \o t) = Len(b) + Len(t)
      /\ \A k \in 1 .. Len(b) : (b \o t)[k] = b[k]
  <2>1. b \in Seq(S) /\ t \in Seq(S) /\ Len(b) \in Nat
    BY <1>1, <1>3
  <2>2. QED
    BY <1>1, <2>1, ConcatProperties
<1>5. /\ \A k \in 1 .. Len(a) : k \in 1 .. Len(b)
      /\ \A k \in 1 .. Len(s) : Len(a) + k \in 1 .. Len(b)
  BY <1>1, <1>3
<1>6. QED
  BY <1>1, <1>2, <1>3, <1>4, <1>5

LEMMA EncodeBlockStep == BinaryInv /\ B!EncodeBlock => BinaryInv'
<1> SUFFICES ASSUME BinaryInv, B!EncodeBlock PROVE BinaryInv'
  OBVIOUS
<1>1. /\ pc = "encode" /\ Len(block) > blockSize
      /\ binaryText' = (binaryText \o SubSeq(block, 1, blockSize)) \o B!Separator
      /\ block' = SubSeq(block, blockSize + 1, Len(block))
      /\ UNCHANGED <<B!inputs, read, pc, i, separatorBlockStartIndex, decodedText>>
  BY DEF B!EncodeBlock, B!IsFull
<1>2. /\ BinaryTypes /\ read \in Nat /\ separatorLength \in Nat
      /\ block \in Seq(B!Bits) /\ Len(block) \in Nat /\ blockSize \in Nat \ {0}
      /\ binaryText \in Seq(B!Bits) /\ B!CharBits \in Nat \ {0}
  BY LenProperties, CharBitsType DEF BinaryInv, BinaryTypes
<1>3. PICK m \in Nat : Written(m)
  BY <1>1 DEF BinaryInv, EncodeInv
<1>4. PICK front, rest : front = SubSeq(block, 1, blockSize) /\ rest = B!Separator
  OBVIOUS
<1>5. /\ front \in Seq(B!Bits) /\ Len(front) = blockSize
      /\ \A k \in 1 .. blockSize : front[k] = block[k]
  <2>1. \A k \in 1 .. blockSize : block[k] \in B!Bits
    BY <1>1, <1>2, ElementOfSeq
  <2>2. QED
    BY <1>2, <1>4, <2>1, SubSeqProperties
<1>6. rest \in Seq(B!Bits) /\ Len(rest) = separatorLength
  BY <1>2, <1>4 DEF B!Separator, B!Bits
<1>7. /\ block' \in Seq(B!Bits) /\ Len(block') = Len(block) - blockSize
      /\ \A k \in 1 .. Len(block) - blockSize : block'[k] = block[blockSize + k]
  <2>1. \A k \in blockSize + 1 .. Len(block) : block[k] \in B!Bits
    BY <1>2, ElementOfSeq
  <2>2. QED
    BY <1>1, <1>2, <2>1, SubSeqProperties
<1>8. /\ binaryText' \in Seq(B!Bits) /\ Len(binaryText') = Len(binaryText) + blockSize + separatorLength
      /\ \A k \in 1 .. Len(binaryText) : binaryText'[k] = binaryText[k]
      /\ \A k \in 1 .. blockSize : binaryText'[Len(binaryText) + k] = front[k]
  <2>1. binaryText' = (binaryText \o front) \o rest
    BY <1>1, <1>4
  <2>2. binaryText \in Seq(B!Bits) /\ front \in Seq(B!Bits) /\ rest \in Seq(B!Bits)
    BY <1>2, <1>5, <1>6
  <2>3. /\ binaryText' \in Seq(B!Bits)
        /\ Len(binaryText') = Len(binaryText) + Len(front) + Len(rest)
        /\ \A k \in 1 .. Len(binaryText) : binaryText'[k] = binaryText[k]
        /\ \A k \in 1 .. Len(front) : binaryText'[Len(binaryText) + k] = front[k]
    BY <2>1, <2>2, TwoAdded
  <2>4. QED
    BY <1>5, <1>6, <2>3
<1>9. BinaryTypes'
  <2>1. B!Bits' = B!Bits
    BY DEF B!Bits
  <2>2. QED
    BY <1>1, <1>2, <1>7, <1>8, <2>1, SameBits DEF BinaryTypes, B!inputs
<1>10. /\ m * blockSize \in Nat /\ (m + 1) * blockSize = m * blockSize + blockSize
       /\ m * (blockSize + separatorLength) \in Nat
       /\ (m + 1) * (blockSize + separatorLength) = m * (blockSize + separatorLength) + (blockSize + separatorLength)
       /\ m * (blockSize + separatorLength) = m * blockSize + m * separatorLength
       /\ read * B!CharBits \in Nat /\ m * separatorLength \in Nat
  BY <1>2, TimesNat, TimesSum
<1>11. Len(binaryText') = (m + 1) * (blockSize + separatorLength)
  BY <1>2, <1>3, <1>8, <1>10 DEF Written
<1>12. ASSUME NEW k \in 1 .. (m + 1) * blockSize
       PROVE  binaryText'[B!PlaceOf(k)] = B!AllBits[k]
  <2>1. CASE k \in 1 .. m * blockSize
    <3>1. B!PlaceOf(k) \in 1 .. Len(binaryText)
      BY <1>2, <1>3, <2>1, PlacesOfBlocks DEF Written
    <3>2. QED
      BY <1>3, <1>8, <2>1, <3>1 DEF Written
  <2>2. CASE k \notin 1 .. m * blockSize
    <3>1. PICK q \in 1 .. blockSize : k = m * blockSize + q
      BY <1>2, <1>10, <2>2
    <3>2. B!PlaceOf(k) = k + m * separatorLength
      BY <1>2, <1>10, <3>1, PlaceInBlock
    <3>3. B!PlaceOf(k) = Len(binaryText) + q
      BY <1>2, <1>3, <1>10, <3>1, <3>2 DEF Written
    <3>4. binaryText'[B!PlaceOf(k)] = block[q]
      BY <1>5, <1>8, <3>1, <3>3
    <3>5. q \in 1 .. Len(block)
      BY <1>1, <1>2, <3>1
    <3>6. block[q] = B!AllBits[m * blockSize + q]
      BY <1>3, <3>5 DEF Written
    <3>7. QED
      BY <3>1, <3>4, <3>6
  <2>3. QED
    BY <2>1, <2>2
<1>13. Len(block') = read * B!CharBits - (m + 1) * blockSize /\ Len(block') >= 1
  BY <1>1, <1>2, <1>3, <1>7, <1>10 DEF Written
<1>14. ASSUME NEW k \in 1 .. Len(block') PROVE block'[k] = B!AllBits[(m + 1) * blockSize + k]
  <2>1. block'[k] = block[blockSize + k] /\ blockSize + k \in 1 .. Len(block)
    BY <1>2, <1>7
  <2>2. block[blockSize + k] = B!AllBits[m * blockSize + (blockSize + k)]
    BY <1>3, <2>1 DEF Written
  <2>3. m * blockSize + (blockSize + k) = (m + 1) * blockSize + k
    BY <1>2, <1>10
  <2>4. QED
    BY <2>1, <2>2, <2>3
<1>15. blockSize' = blockSize /\ separatorLength' = separatorLength
  BY <1>1 DEF B!inputs
<1>16. PICK n \in Nat : n = m + 1
  OBVIOUS
<1>17. Written(n)'
  BY <1>1, <1>11, <1>12, <1>13, <1>14, <1>15, <1>16, SameBits DEF Written
<1>18. EncodeInv'
  <2>1. Len(block') <= blockSize + B!CharBits
    BY <1>1, <1>2, <1>7 DEF BinaryInv, EncodeInv
  <2>2. QED
    BY <1>1, <1>15, <1>17, <2>1, SameBits DEF EncodeInv, BinaryInv
<1>19. QED
  BY <1>1, <1>9, <1>18 DEF BinaryInv, DecodeInv

(* The rest of the bits has no separator behind it.                        *)
LEMMA EncodedStep == BinaryInv /\ B!Encoded => BinaryInv'
<1> SUFFICES ASSUME BinaryInv, B!Encoded PROVE BinaryInv'
  OBVIOUS
<1>1. /\ pc = "encode" /\ ~(Len(block) > blockSize) /\ read = Len(text) /\ pc' = "decode"
      /\ binaryText' = binaryText \o block /\ block' = <<>>
      /\ i' = 0 /\ separatorBlockStartIndex' = blockSize
      /\ UNCHANGED <<B!inputs, read, decodedText>>
  BY DEF B!Encoded, B!IsFull
<1>2. /\ BinaryTypes /\ read \in Nat /\ separatorLength \in Nat
      /\ block \in Seq(B!Bits) /\ Len(block) \in Nat /\ blockSize \in Nat \ {0}
      /\ binaryText \in Seq(B!Bits) /\ B!CharBits \in Nat \ {0} /\ Len(text) * B!CharBits \in Nat
  BY LenProperties, CharBitsType, AllBitsType DEF BinaryInv, BinaryTypes
<1>3. PICK m \in Nat : Written(m)
  BY <1>1 DEF BinaryInv, EncodeInv
<1>4. /\ binaryText' \in Seq(B!Bits) /\ Len(binaryText') = Len(binaryText) + Len(block)
      /\ \A k \in 1 .. Len(binaryText) : binaryText'[k] = binaryText[k]
      /\ \A k \in 1 .. Len(block) : binaryText'[Len(binaryText) + k] = block[k]
  <2>1. Len(binaryText) \in Nat
    BY <1>2, LenProperties
  <2>2. QED
    BY <1>1, <1>2, <2>1, ConcatProperties
<1>5. <<>> \in Seq(B!Bits) /\ Len(<<>>) = 0 /\ decodedText = <<>>
  BY <1>1, EmptySeq DEF BinaryInv, EncodeInv
<1>6. BinaryTypes'
  <2>1. B!Bits' = B!Bits
    BY DEF B!Bits
  <2>2. i' \in Nat /\ separatorBlockStartIndex' \in Nat /\ pc' \in {"encode", "decode", "done"}
    BY <1>1, <1>2
  <2>3. QED
    BY <1>1, <1>2, <1>4, <1>5, <2>1, <2>2, SameBits DEF BinaryTypes, B!inputs
<1>7. /\ m * blockSize \in Nat /\ m * separatorLength \in Nat /\ (m > 0 => m * blockSize >= blockSize)
      /\ m * (blockSize + separatorLength) = m * blockSize + m * separatorLength
      /\ (m = 0 => m * blockSize = 0 /\ m * separatorLength = 0)
  BY <1>2, TimesNat, TimesSum
<1>8. /\ Len(text) * B!CharBits = m * blockSize + Len(block)
      /\ Len(binaryText) = m * blockSize + m * separatorLength
  BY <1>1, <1>2, <1>3, <1>7 DEF Written
<1>9. Placed'
  <2>1. ASSUME NEW k \in 1 .. Len(text) * B!CharBits
        PROVE  binaryText'[B!PlaceOf(k)] = B!AllBits[k]
    <3>1. CASE k \in 1 .. m * blockSize
      <4>1. B!PlaceOf(k) \in 1 .. Len(binaryText)
        BY <1>2, <1>3, <3>1, PlacesOfBlocks DEF Written
      <4>2. QED
        BY <1>3, <1>4, <3>1, <4>1 DEF Written
    <3>2. CASE k \notin 1 .. m * blockSize
      <4>1. PICK q \in 1 .. Len(block) : k = m * blockSize + q
        BY <1>2, <1>7, <1>8, <3>2
      <4>2. B!PlaceOf(k) = k + m * separatorLength
        <5>1. k \in Nat /\ m * blockSize < k /\ k <= m * blockSize + blockSize
          BY <1>1, <1>2, <1>7, <4>1
        <5>2. QED
          BY <1>2, <5>1, PlaceInBlock
      <4>3. B!PlaceOf(k) = Len(binaryText) + q
        BY <1>2, <1>7, <1>8, <4>1, <4>2
      <4>4. QED
        BY <1>3, <1>4, <4>1, <4>3 DEF Written
    <3>3. QED
      BY <3>1, <3>2
  <2>2. CASE Len(text) * B!CharBits = 0
    <3>1. m = 0 /\ Len(block) = 0
      BY <1>2, <1>7, <1>8, <2>2
    <3>2. Len(binaryText') = 0
      BY <1>2, <1>4, <1>7, <1>8, <3>1
    <3>3. QED
      BY <1>1, <1>2, <2>1, <2>2, <3>2, SameBits, AllBitsType DEF Placed
  <2>3. CASE Len(text) * B!CharBits # 0
    <3>1. PICK k \in Nat \ {0} : k = Len(text) * B!CharBits
      BY <1>2, <2>3
    <3>2. m * blockSize < k /\ k <= m * blockSize + blockSize
      BY <1>1, <1>2, <1>3, <1>7, <1>8, <2>3, <3>1 DEF Written
    <3>3. B!PlaceOf(k) = k + m * separatorLength
      BY <1>2, <3>2, PlaceInBlock
    <3>4. Len(binaryText') = B!PlaceOf(k)
      <4>1. PICK x \in Nat, y \in Nat : x = m * blockSize /\ y = m * separatorLength
        BY <1>7
      <4>2. k = x + Len(block) /\ Len(binaryText') = (x + y) + Len(block) /\ B!PlaceOf(k) = k + y
        BY <1>4, <1>8, <3>1, <3>3, <4>1
      <4>3. QED
        BY <1>2, <4>1, <4>2
    <3>5. QED
      BY <1>1, <1>2, <2>1, <2>3, <3>1, <3>4, SameBits, AllBitsType DEF Placed
  <2>4. QED
    BY <2>2, <2>3
<1>10. 0 * B!CharBits = 0 /\ 0 * blockSize = 0 /\ 0 * separatorLength = 0 /\ 0 * (blockSize + separatorLength) = 0
  BY <1>2
<1>11. Taken' = 0 /\ Len(decodedText) = 0
  BY <1>1, <1>5, <1>10, SameBits DEF Taken
<1>12. blockSize' = blockSize /\ separatorLength' = separatorLength /\ text' = text
  BY <1>1 DEF B!inputs
<1>13. Reached(0)'
  BY <1>1, <1>2, <1>10, <1>11, <1>12 DEF Reached
<1>14. DecodeInv'
  <2>1. Taken' <= (Len(text) * B!CharBits)'
    <3>1. (Len(text) * B!CharBits)' = Len(text) * B!CharBits
      BY <1>1, <1>12, SameBits
    <3>2. QED
      BY <1>2, <1>11, <3>1
  <2>2. Len(block') < B!CharBits' /\ Len(block') = 0 /\ Len(decodedText') = 0
    BY <1>1, <1>2, <1>5, SameBits
  <2>3. QED
    BY <1>1, <1>9, <1>13, <2>1, <2>2 DEF DecodeInv
<1>15. QED
  BY <1>1, <1>6, <1>14 DEF BinaryInv, EncodeInv

(* BinaryEncodings: as long as i is within the string there is another bit *)
(* of the text, the index that skips the separator is that of its place,   *)
(* and NextStart is where the next separator is.                           *)
LEMMA NextBit ==
  ASSUME BinaryTypes, DecodeInv, pc = "decode", i < Len(binaryText)
  PROVE  /\ Taken \in Nat /\ Taken < Len(text) * B!CharBits
         /\ B!Index \in Nat /\ B!Index < Len(binaryText)
         /\ binaryText[B!Index + 1] = B!AllBits[Taken + 1]
         /\ binaryText[B!Index + 1] \in B!Bits
         /\ \E h \in Nat : /\ h * blockSize < Taken + 1
                           /\ Taken + 1 <= h * blockSize + blockSize
                           /\ B!Index = Taken + h * separatorLength
                           /\ B!NextStart = h * (blockSize + separatorLength) + blockSize
<1>1. /\ blockSize \in Nat \ {0} /\ separatorLength \in Nat /\ B!CharBits \in Nat \ {0}
      /\ Len(text) * B!CharBits \in Nat /\ Len(decodedText) \in Nat /\ Len(block) \in Nat
      /\ binaryText \in Seq(B!Bits) /\ Len(binaryText) \in Nat /\ i \in Nat
  BY LenProperties, CharBitsType, AllBitsType DEF BinaryTypes
<1>2. PICK r \in Nat : r = Taken
  BY <1>1, TimesNat DEF Taken
<1>3. PICK n \in Nat : n = Len(text) * B!CharBits
  BY <1>1
<1>4. PICK j \in Nat : /\ j * blockSize < r \/ (j = 0 /\ r = 0)
                       /\ r <= j * blockSize + blockSize
                       /\ i = r + j * separatorLength
                       /\ separatorBlockStartIndex = j * (blockSize + separatorLength) + blockSize
  BY <1>2 DEF DecodeInv, Reached
<1>5. /\ j * blockSize \in Nat /\ (j + 1) * blockSize = j * blockSize + blockSize
      /\ j * separatorLength \in Nat /\ (j + 1) * separatorLength = j * separatorLength + separatorLength
      /\ j * (blockSize + separatorLength) = j * blockSize + j * separatorLength
      /\ (j + 1) * (blockSize + separatorLength) = (j + 1) * blockSize + (j + 1) * separatorLength
      /\ (j = 0 => j * blockSize = 0 /\ j * separatorLength = 0)
  BY <1>1, TimesNat, TimesSum
<1>6. /\ Len(binaryText) = IF n = 0 THEN 0 ELSE B!PlaceOf(n)
      /\ \A k \in 1 .. n : binaryText[B!PlaceOf(k)] = B!AllBits[k]
      /\ r <= n
  BY <1>2, <1>3, AllBitsType DEF DecodeInv, Placed
<1>7. r < n
  <2> SUFFICES ASSUME r = n PROVE FALSE
    BY <1>6
  <2>1. n # 0
    BY <1>1, <1>6
  <2>2. j * blockSize < n /\ n <= j * blockSize + blockSize
    BY <1>4, <2>1
  <2>3. B!PlaceOf(n) = n + j * separatorLength
    BY <2>2, PlaceInBlock
  <2>4. QED
    BY <1>4, <1>6, <2>1, <2>3
<1>8. B!AtSeparator <=> r = j * blockSize + blockSize
  <2>1. PICK x \in Nat, y \in Nat : x = j * blockSize /\ y = j * separatorLength
    BY <1>5
  <2>2. i = r + y /\ separatorBlockStartIndex = (x + y) + blockSize
    BY <1>4, <1>5, <2>1
  <2>3. QED
    BY <1>1, <2>1, <2>2 DEF B!AtSeparator
<1>9. PICK h \in Nat : /\ h * blockSize < r + 1
                       /\ r + 1 <= h * blockSize + blockSize
                       /\ B!Index = r + h * separatorLength
                       /\ B!NextStart = h * (blockSize + separatorLength) + blockSize
  <2>1. CASE B!AtSeparator
    <3>1. PICK h \in Nat : h = j + 1
      OBVIOUS
    <3>2. h * blockSize = r
      BY <1>5, <1>8, <2>1, <3>1
    <3>3. B!Index = r + h * separatorLength
      BY <1>1, <1>4, <1>5, <2>1, <3>1 DEF B!Index
    <3>4. B!NextStart = h * (blockSize + separatorLength) + blockSize
      <4>1. PICK x \in Nat, y \in Nat : x = j * blockSize /\ y = j * separatorLength
        BY <1>5
      <4>2. /\ separatorBlockStartIndex = (x + y) + blockSize
            /\ h * (blockSize + separatorLength) = (x + blockSize) + (y + separatorLength)
        BY <1>4, <1>5, <3>1, <4>1
      <4>3. B!NextStart = separatorBlockStartIndex + blockSize + separatorLength
        BY <2>1 DEF B!NextStart
      <4>4. QED
        BY <1>1, <4>1, <4>2, <4>3
    <3>5. h * blockSize < r + 1 /\ r + 1 <= h * blockSize + blockSize
      BY <1>1, <3>2
    <3>6. QED
      BY <3>3, <3>4, <3>5
  <2>2. CASE ~B!AtSeparator
    <3>1. j * blockSize < r + 1 /\ r + 1 <= j * blockSize + blockSize
      BY <1>1, <1>4, <1>5, <1>8, <2>2
    <3>2. B!Index = r + j * separatorLength
      BY <1>4, <2>2 DEF B!Index
    <3>3. B!NextStart = j * (blockSize + separatorLength) + blockSize
      BY <1>4, <2>2 DEF B!NextStart
    <3>4. QED
      BY <3>1, <3>2, <3>3
  <2>3. QED
    BY <2>1, <2>2
<1>10. PICK next \in Nat \ {0} : next = r + 1
  OBVIOUS
<1>11. h * separatorLength \in Nat
  BY <1>1, TimesNat
<1>12. B!Index \in Nat /\ B!PlaceOf(next) = B!Index + 1
  <2>1. B!PlaceOf(next) = next + h * separatorLength
    BY <1>9, <1>10, PlaceInBlock
  <2>2. QED
    BY <1>9, <1>10, <1>11, <2>1
<1>13. B!PlaceOf(next) <= Len(binaryText) /\ next \in 1 .. n
  <2>1. next <= n
    BY <1>7, <1>10
  <2>2. B!PlaceOf(next) \in Nat /\ B!PlaceOf(n) \in Nat /\ B!PlaceOf(n) - B!PlaceOf(next) >= n - next
    BY <2>1, PlacesRise
  <2>3. QED
    BY <1>6, <2>1, <2>2
<1>14. binaryText[B!Index + 1] = B!AllBits[next]
  BY <1>6, <1>12, <1>13
<1>15. B!Index < Len(binaryText) /\ B!Index + 1 \in 1 .. Len(binaryText)
  BY <1>1, <1>12, <1>13
<1>16. binaryText[B!Index + 1] \in B!Bits
  BY <1>1, <1>15, ElementOfSeq
<1>17. QED
  BY <1>2, <1>3, <1>7, <1>9, <1>10, <1>12, <1>14, <1>15, <1>16

LEMMA DecodeBitStep == BinaryInv /\ B!DecodeBit => BinaryInv'
<1> SUFFICES ASSUME BinaryInv, B!DecodeBit PROVE BinaryInv'
  OBVIOUS
<1>1. PICK bits : bits = Append(block, binaryText[B!Index + 1])
  OBVIOUS
<1>2. /\ pc = "decode" /\ i < Len(binaryText)
      /\ block' = B!Left(bits)
      /\ decodedText' = IF Len(bits) = B!CharBits THEN Append(decodedText, B!Swapped(bits)) ELSE decodedText
      /\ i' = B!Index + 1 /\ separatorBlockStartIndex' = B!NextStart
      /\ UNCHANGED <<B!inputs, read, binaryText, pc>>
  BY <1>1 DEF B!DecodeBit
<1>3. /\ BinaryTypes /\ DecodeInv
      /\ blockSize \in Nat \ {0} /\ separatorLength \in Nat /\ B!CharBits \in Nat \ {0}
      /\ Len(text) \in Nat /\ Len(decodedText) \in Nat /\ Len(block) \in Nat
      /\ block \in Seq(B!Bits) /\ text \in Seq(Seq(B!Bits)) /\ decodedText \in Seq(Seq(B!Bits))
  BY LenProperties, CharBitsType DEF BinaryInv, BinaryTypes
<1>4. /\ Placed /\ Len(block) < B!CharBits
      /\ \A c \in 1 .. Len(decodedText) : decodedText[c] = text[c]
      /\ \A k \in 1 .. Len(block) : block[k] = B!AllBits[Len(decodedText) * B!CharBits + k]
  BY <1>2, <1>3 DEF DecodeInv
<1>5. PICK h \in Nat :
        /\ Taken \in Nat /\ Taken < Len(text) * B!CharBits
        /\ B!Index \in Nat
        /\ binaryText[B!Index + 1] = B!AllBits[Taken + 1]
        /\ binaryText[B!Index + 1] \in B!Bits
        /\ h * blockSize < Taken + 1
        /\ Taken + 1 <= h * blockSize + blockSize
        /\ B!Index = Taken + h * separatorLength
        /\ B!NextStart = h * (blockSize + separatorLength) + blockSize
  BY <1>2, <1>3, NextBit
<1>6. PICK start \in Nat : start = Len(decodedText) * B!CharBits
  BY <1>3, TimesNat
<1>7. Taken = start + Len(block)
  BY <1>6 DEF Taken
<1>8. /\ bits \in Seq(B!Bits) /\ Len(bits) = Len(block) + 1
      /\ \A k \in 1 .. Len(block) : bits[k] = block[k]
      /\ bits[Len(block) + 1] = B!AllBits[start + (Len(block) + 1)]
  <2>1. PICK bit \in B!Bits : bit = binaryText[B!Index + 1]
    BY <1>5
  <2>2. bits = Append(block, bit)
    BY <1>1, <2>1
  <2>3. /\ bits \in Seq(B!Bits) /\ Len(bits) = Len(block) + 1
        /\ \A k \in 1 .. Len(block) : bits[k] = block[k]
        /\ bits[Len(block) + 1] = bit
    BY <1>3, <2>2, AppendProperties
  <2>4. start + (Len(block) + 1) = Taken + 1
    BY <1>3, <1>6, <1>7
  <2>5. QED
    BY <1>5, <2>1, <2>3, <2>4
<1>9. \A k \in 1 .. Len(bits) : bits[k] = B!AllBits[start + k]
  <2> SUFFICES ASSUME NEW k \in 1 .. Len(bits) PROVE bits[k] = B!AllBits[start + k]
    OBVIOUS
  <2>1. k \in 1 .. Len(block) \/ k = Len(block) + 1
    BY <1>3, <1>8
  <2>2. QED
    BY <1>4, <1>6, <1>8, <2>1
<1>10. /\ text' = text /\ charBytes' = charBytes /\ blockSize' = blockSize
       /\ separatorLength' = separatorLength /\ littleEndian' = littleEndian
       /\ B!CharBits' = B!CharBits /\ B!Bits' = B!Bits
  BY <1>2, SameBits DEF B!inputs, B!Bits
<1>11. Placed'
  BY <1>2, <1>4, SameBits DEF Placed
<1>12. i' \in Nat /\ separatorBlockStartIndex' \in Nat
  <2>1. h * (blockSize + separatorLength) \in Nat
    BY <1>3, TimesNat
  <2>2. QED
    BY <1>2, <1>3, <1>5, <2>1
<1>13. Taken' = Taken + 1 => (\E j \in Nat : Reached(j))' /\ (Taken <= Len(text) * B!CharBits)'
  <2> SUFFICES ASSUME Taken' = Taken + 1
               PROVE  (\E j \in Nat : Reached(j))' /\ (Taken <= Len(text) * B!CharBits)'
    OBVIOUS
  <2>1. h * separatorLength \in Nat
    BY <1>3, TimesNat
  <2>2. i' = Taken' + h * separatorLength
    BY <1>2, <1>5, <2>1
  <2>3. Reached(h)'
    BY <1>2, <1>5, <1>10, <2>2 DEF Reached
  <2>4. (Len(text) * B!CharBits)' = Len(text) * B!CharBits
    BY <1>10
  <2>5. Len(text) * B!CharBits \in Nat
    BY <1>3, TimesNat
  <2>6. QED
    BY <1>5, <2>3, <2>4, <2>5
<1>14. CASE Len(bits) = B!CharBits
  <2>1. PICK d \in Nat : d = Len(decodedText)
    BY <1>3
  <2>2. d < Len(text)
    <3>1. d * B!CharBits < Len(text) * B!CharBits
      <4>1. Len(text) * B!CharBits \in Nat
        BY <1>3, TimesNat
      <4>2. QED
        BY <1>3, <1>5, <1>6, <1>7, <2>1, <4>1
    <3>2. QED
      BY <1>3, <2>1, <3>1, TimesOrder
  <2>3. PICK char : char = text[d + 1]
    OBVIOUS
  <2>4. char \in Seq(B!Bits) /\ Len(char) = B!CharBits
    <3>1. d + 1 \in 1 .. Len(text)
      BY <1>3, <2>1, <2>2
    <3>2. char \in Seq(B!Bits)
      BY <1>3, <2>3, <3>1, ElementOfSeq
    <3>3. QED
      BY <1>3, <2>3, <3>1, <3>2 DEF BinaryTypes
  <2>5. PICK swapped : swapped = B!Swapped(char)
    OBVIOUS
  <2>6. swapped \in Seq(B!Bits) /\ Len(swapped) = B!CharBits /\ B!Swapped(swapped) = char
    BY <1>3, <2>4, <2>5, SwappedType
  <2>7. \A k \in 1 .. B!CharBits : bits[k] = swapped[k]
    <3>1. ASSUME NEW k \in 1 .. B!CharBits PROVE bits[k] = swapped[k]
      <4>1. bits[k] = B!AllBits[start + k]
        BY <1>9, <1>14
      <4>2. B!AllBits[d * B!CharBits + k] = swapped[k]
        BY <1>3, <2>1, <2>2, <2>3, <2>5, AllBitsOf
      <4>3. QED
        BY <1>6, <2>1, <4>1, <4>2
    <3>2. QED
      BY <3>1
  <2>8. bits = swapped
    <3>1. Len(bits) = Len(swapped) /\ \A k \in 1 .. Len(bits) : bits[k] = swapped[k]
      BY <1>14, <2>6, <2>7
    <3>2. QED
      BY <1>8, <2>6, <3>1, SeqEqual
  <2>9. decodedText' = Append(decodedText, char) /\ block' = <<>>
    BY <1>2, <1>14, <2>6, <2>8 DEF B!Left
  <2>10. /\ decodedText' \in Seq(Seq(B!Bits)) /\ Len(decodedText') = d + 1
         /\ \A c \in 1 .. d : decodedText'[c] = decodedText[c]
         /\ decodedText'[d + 1] = char
    BY <1>3, <2>1, <2>4, <2>9, AppendProperties
  <2>11. block' \in Seq(B!Bits) /\ Len(block') = 0
    BY <2>9, EmptySeq
  <2>12. \A c \in 1 .. Len(decodedText') : decodedText'[c] = text[c]
    <3> SUFFICES ASSUME NEW c \in 1 .. Len(decodedText') PROVE decodedText'[c] = text[c]
      OBVIOUS
    <3>1. c \in 1 .. d \/ c = d + 1
      BY <2>1, <2>10
    <3>2. QED
      BY <1>4, <2>1, <2>3, <2>10, <3>1
  <2>13. Taken' = Taken + 1
    <3>1. (d + 1) * B!CharBits = d * B!CharBits + B!CharBits
      BY <1>3, <2>1, TimesNat
    <3>2. Taken' = (d + 1) * B!CharBits + 0
      BY <1>10, <2>10, <2>11 DEF Taken
    <3>3. Taken + 1 = start + B!CharBits /\ start = d * B!CharBits
      BY <1>3, <1>6, <1>7, <1>8, <1>14, <2>1
    <3>4. PICK x \in Nat : x = d * B!CharBits
      BY <1>6, <3>3
    <3>5. Taken' = x + B!CharBits /\ Taken + 1 = x + B!CharBits
      BY <1>3, <3>1, <3>2, <3>3, <3>4
    <3>6. QED
      BY <3>5
  <2>14. BinaryTypes'
    BY <1>2, <1>3, <1>10, <1>12, <2>10, <2>11 DEF BinaryTypes, B!inputs
  <2>15. DecodeInv'
    <3>1. /\ Len(block') < B!CharBits'
          /\ \A k \in 1 .. Len(block') : block'[k] = (B!AllBits[Len(decodedText) * B!CharBits + k])'
      BY <1>3, <1>10, <2>11
    <3>2. QED
      BY <1>2, <1>10, <1>11, <1>13, <2>12, <2>13, <3>1 DEF DecodeInv
  <2>16. QED
    BY <1>2, <2>14, <2>15 DEF BinaryInv, EncodeInv
<1>15. CASE Len(bits) # B!CharBits
  <2>1. decodedText' = decodedText /\ block' = bits
    BY <1>2, <1>15 DEF B!Left
  <2>2. Taken' = Taken + 1
    <3>1. Taken' = start + Len(bits)
      BY <1>6, <1>10, <2>1 DEF Taken
    <3>2. QED
      BY <1>3, <1>6, <1>7, <1>8, <3>1
  <2>3. Len(bits) < B!CharBits
    BY <1>3, <1>4, <1>8, <1>15
  <2>4. BinaryTypes'
    BY <1>2, <1>3, <1>8, <1>10, <1>12, <2>1 DEF BinaryTypes, B!inputs
  <2>5. \A k \in 1 .. Len(block') : block'[k] = (B!AllBits[Len(decodedText) * B!CharBits + k])'
    BY <1>2, <1>6, <1>9, <2>1, SameBits
  <2>6. DecodeInv'
    BY <1>2, <1>4, <1>10, <1>11, <1>13, <2>1, <2>2, <2>3, <2>5 DEF DecodeInv
  <2>7. QED
    BY <1>2, <2>4, <2>6 DEF BinaryInv, EncodeInv
<1>16. QED
  BY <1>14, <1>15

LEMMA BinaryUnchanged == BinaryInv /\ UNCHANGED B!vars => BinaryInv'
<1> SUFFICES ASSUME BinaryInv, UNCHANGED B!vars PROVE BinaryInv'
  OBVIOUS
<1>1. /\ UNCHANGED <<B!inputs, read, binaryText, pc, block, i, separatorBlockStartIndex, decodedText>>
      /\ UNCHANGED <<text, charBytes, blockSize, separatorLength, littleEndian>>
      /\ B!Bits' = B!Bits
  BY DEF B!vars, B!inputs, B!Bits
<1>2. BinaryTypes'
  BY <1>1, SameBits DEF BinaryInv, BinaryTypes
<1>3. EncodeInv'
  BY <1>1, SameBits DEF BinaryInv, EncodeInv, Written
<1>4. DecodeInv'
  BY <1>1, SameBits DEF BinaryInv, DecodeInv, Placed, Reached, Taken
<1>5. QED
  BY <1>2, <1>3, <1>4 DEF BinaryInv

LEMMA DecodedStep == BinaryInv /\ B!Decoded => BinaryInv'
<1> SUFFICES ASSUME BinaryInv, B!Decoded PROVE BinaryInv'
  OBVIOUS
<1>1. /\ pc = "decode" /\ i >= Len(binaryText) /\ pc' = "done"
      /\ UNCHANGED <<B!inputs, read, binaryText, block, i, separatorBlockStartIndex, decodedText>>
      /\ UNCHANGED <<text, charBytes, blockSize, separatorLength, littleEndian>>
      /\ B!Bits' = B!Bits
  BY DEF B!Decoded, B!inputs, B!Bits
<1>2. BinaryTypes'
  BY <1>1, SameBits DEF BinaryInv, BinaryTypes
<1>3. DecodeInv'
  BY <1>1, SameBits DEF BinaryInv, DecodeInv, Placed, Reached, Taken
<1>4. QED
  BY <1>1, <1>2, <1>3 DEF BinaryInv, EncodeInv

LEMMA BinaryInvHolds == B!Spec => []BinaryInv
<1>1. BinaryInv /\ [B!Next]_(B!vars) => BinaryInv'
  BY EncodeCharStep, EncodeBlockStep, EncodedStep, DecodeBitStep, DecodedStep, BinaryUnchanged
     DEF B!Next
<1>2. QED
  BY <1>1, InitBinaryInv, PTL DEF B!Spec

(* BinaryEncodings: a decoder at the end of the string has taken all.      *)
LEMMA DecodedAll ==
  ASSUME BinaryInv, pc = "done"
  PROVE  Len(decodedText) * B!CharBits + Len(block) = Len(text) * B!CharBits
<1>1. /\ B!CharBits \in Nat \ {0} /\ Len(text) * B!CharBits \in Nat /\ separatorLength \in Nat
      /\ Len(decodedText) \in Nat /\ Len(block) \in Nat /\ BinaryTypes /\ DecodeInv
      /\ blockSize \in Nat \ {0}
  BY LenProperties, CharBitsType, AllBitsType DEF BinaryInv, BinaryTypes
<1>2. PICK r \in Nat, n \in Nat : r = Taken /\ n = Len(text) * B!CharBits
  BY <1>1, TimesNat DEF Taken
<1>3. PICK j \in Nat : /\ j * blockSize < r \/ (j = 0 /\ r = 0)
                       /\ r <= j * blockSize + blockSize
                       /\ i = r + j * separatorLength
  BY <1>1, <1>2 DEF DecodeInv, Reached
<1>4. /\ Len(binaryText) = IF n = 0 THEN 0 ELSE B!PlaceOf(n)
      /\ r <= n /\ i >= Len(binaryText)
  BY <1>1, <1>2, AllBitsType DEF DecodeInv, Placed
<1>5. r = n
  <2> SUFFICES ASSUME r < n PROVE FALSE
    BY <1>4
  <2>1. PICK next \in Nat \ {0} : next = r + 1
    OBVIOUS
  <2>2. j * blockSize \in Nat /\ j * separatorLength \in Nat
    BY <1>1, TimesNat
  <2>3. B!PlaceOf(n) >= i + 1
    <3>1. CASE j * blockSize < next /\ next <= j * blockSize + blockSize
      <4>1. B!PlaceOf(next) = next + j * separatorLength
        BY <1>1, <3>1, PlaceInBlock
      <4>2. next <= n
        BY <2>1
      <4>3. B!PlaceOf(next) \in Nat /\ B!PlaceOf(n) \in Nat /\ B!PlaceOf(n) - B!PlaceOf(next) >= n - next
        BY <1>1, <4>2, PlacesRise
      <4>4. QED
        BY <1>3, <2>1, <2>2, <4>1, <4>2, <4>3
    <3>2. CASE ~(j * blockSize < next /\ next <= j * blockSize + blockSize)
      <4>1. r # 0 /\ j * blockSize < r
        BY <1>1, <1>3, <2>1, <2>2, <3>2, TimesNat
      <4>2. B!PlaceOf(r) = r + j * separatorLength
        BY <1>1, <1>3, <4>1, PlaceInBlock
      <4>3. B!PlaceOf(r) \in Nat /\ B!PlaceOf(n) \in Nat /\ B!PlaceOf(n) - B!PlaceOf(r) >= n - r
        BY <1>1, <4>1, PlacesRise
      <4>4. QED
        BY <1>3, <2>2, <4>2, <4>3
    <3>3. QED
      BY <3>1, <3>2
  <2>4. i \in Nat
    BY <1>3, <2>2
  <2>5. QED
    BY <1>4, <2>3, <2>4
<1>6. QED
  BY <1>2, <1>5 DEF Taken

LEMMA WholeChars ==
  ASSUME NEW b \in Nat \ {0}, NEW p \in Nat, NEW q \in Nat, NEW rest \in Nat,
         rest < b, p * b + rest = q * b
  PROVE  p = q
<1>1. p * b \in Nat /\ q * b \in Nat /\ (p + 1) * b = p * b + b
  BY TimesNat
<1>2. p <= q
  <2>1. ASSUME q < p PROVE FALSE
    <3>1. (q + 1) * b <= p * b /\ (q + 1) * b = q * b + b
      BY <2>1, TimesMonotonic, TimesNat
    <3>2. QED
      BY <1>1, <3>1
  <2>2. QED
    BY <2>1
<1>3. q < p + 1
  <2>1. q * b < (p + 1) * b
    BY <1>1
  <2>2. QED
    BY <2>1, TimesOrder
<1>4. QED
  BY <1>2, <1>3

(* BinaryEncodings: for texts, characters, blocks and separators of any    *)
(* length, and either order of bytes, the encoder writes every bit behind  *)
(* as many separators as there are full blocks before it, and ends with    *)
(* the last bit.                                                           *)
THEOREM SeparatedInBlocksHolds == FormatsSpec => []SeparatedInBlocks
<1>1. BinaryInv => SeparatedInBlocks
  BY DEF BinaryInv, DecodeInv, Placed, SeparatedInBlocks, B!SeparatedInBlocks
<1>2. QED
  BY <1>1, BinaryInvHolds, ConversionsAlone, PTL

(* BinaryEncodings: the decoder, given the sizes the encoder was given,    *)
(* reads no character past the end of the string, and when it returns it   *)
(* has made the text that was encoded, with no bit left over.              *)
THEOREM DecodesEncodedHolds == FormatsSpec => []DecodesEncoded
<1>1. ASSUME BinaryInv, pc = "decode", i < Len(binaryText)
      PROVE  B!Index < Len(binaryText)
  BY <1>1, NextBit DEF BinaryInv
<1>2. ASSUME BinaryInv, pc = "done"
      PROVE  decodedText = text /\ block = <<>>
  <2>1. /\ B!CharBits \in Nat \ {0} /\ Len(text) \in Nat /\ Len(decodedText) \in Nat /\ Len(block) \in Nat
        /\ text \in Seq(Seq(B!Bits)) /\ decodedText \in Seq(Seq(B!Bits)) /\ block \in Seq(B!Bits)
    BY <1>2, LenProperties, CharBitsType DEF BinaryInv, BinaryTypes
  <2>2. PICK n \in Nat, start \in Nat : n = Len(text) * B!CharBits /\ start = Len(decodedText) * B!CharBits
    BY <2>1, TimesNat
  <2>3. start + Len(block) <= n /\ Len(block) < B!CharBits /\ i >= Len(binaryText) /\ Placed
        /\ \A c \in 1 .. Len(decodedText) : decodedText[c] = text[c]
    BY <1>2, <2>2 DEF BinaryInv, DecodeInv, Taken
  <2>4. start + Len(block) = n
    BY <1>2, <2>2, DecodedAll
  <2>5. Len(decodedText) = Len(text)
    BY <2>1, <2>2, <2>3, <2>4, WholeChars
  <2>6. Len(block) = 0
    BY <2>1, <2>2, <2>4, <2>5
  <2>7. QED
    BY <2>1, <2>3, <2>5, <2>6, SeqEqual, EmptySeq
<1>3. BinaryInv => DecodesEncoded
  BY <1>1, <1>2 DEF DecodesEncoded, B!DecodesEncoded
<1>4. QED
  BY <1>3, BinaryInvHolds, ConversionsAlone, PTL

-----------------------------------------------------------------------------
(* Size: what the instances of FiniteSetsExt in the parts choose.          *)
LEMMA LargestOf ==
  ASSUME NEW n \in Nat, NEW T \in SUBSET (0 .. n), T # {}
  PROVE  \E x \in T : \A y \in T : x >= y
<1> DEFINE U == {n - y : y \in T}
<1>1. U \subseteq Nat /\ U # {}
  <2>1. \A y \in T : n - y \in Nat
    OBVIOUS
  <2>2. QED
    BY <2>1
<1>2. PICK x \in U : \A y \in U : ~ (<<y, x>> \in OpToRel(<, Nat))
  BY <1>1, NatLessThanWellFounded, WFMin
<1>3. \A y \in U : ~(y < x)
  BY <1>1, <1>2 DEF OpToRel
<1>4. PICK z \in T : x = n - z
  BY <1>2
<1>5. \A y \in T : ~(n - y < n - z)
  BY <1>3, <1>4
<1>6. QED
  BY <1>5

LEMMA MaxOf ==
  ASSUME NEW n \in Nat, NEW T \in SUBSET (0 .. n), T # {}
  PROVE  /\ Z!Max(T) \in T /\ \A y \in T : y <= Z!Max(T)
         /\ I!Max(T) \in T /\ \A y \in T : y <= I!Max(T)
<1>1. PICK x \in T : \A y \in T : x >= y
  BY LargestOf
<1>2. Z!Max(T) \in T /\ \A y \in T : Z!Max(T) >= y
  BY <1>1 DEF Z!Max
<1>3. I!Max(T) \in T /\ \A y \in T : I!Max(T) >= y
  BY <1>1 DEF I!Max
<1>4. QED
  BY <1>2, <1>3

(* Size: a number that is rounded up has 48 bits set below its logarithm;  *)
(* with bit 52 the highest it is one of the last 22 below 2^53.            *)
LEMMA RoundedUpIs ==
  ASSUME NEW n \in SUBSET (0 .. 63), Z!RoundedUp(n), NEW m \in n, m = Z!Max(n),
         \A y \in n : y <= m
  PROVE  m >= 47 /\ (m = 52 => Z!LastBelow2To53(n))
<1>1. /\ m - 47 .. m \subseteq n
      /\ \/ m - 47 - 1 \in n
         \/ m - 47 - 2 \in n /\ (m - 47 - 3 \in n \/ m - 47 - 4 \in n
                                \/ (m - 47 - 5 \in n /\ m - 47 - 6 \in n))
  BY DEF Z!RoundedUp
<1>2. m - 47 \in n
  BY <1>1
<1>3. ASSUME m = 52 PROVE Z!LastBelow2To53(n)
  <2>1. n \subseteq 0 .. 52 /\ 5 .. 52 \subseteq n
    BY <1>1, <1>3
  <2>2. -1 \notin n
    OBVIOUS
  <2>3. 4 \in n \/ (3 \in n /\ (2 \in n \/ 1 \in n))
    <3>1. /\ m - 47 - 1 = 4 /\ m - 47 - 2 = 3 /\ m - 47 - 3 = 2
          /\ m - 47 - 4 = 1 /\ m - 47 - 6 = -1
      BY <1>3
    <3>2. QED
      BY <1>1, <2>2, <3>1
  <2>4. QED
    BY <2>1, <2>3 DEF Z!LastBelow2To53
<1>4. QED
  BY <1>2, <1>3

(* Size: as many bytes as the number fits, and no fewer, but for the last  *)
(* 22 numbers below 2^53.                                                  *)
LEMMA RequiredAre ==
  ASSUME NEW n \in SUBSET (0 .. 63)
  PROVE  /\ Z!RequiredBytes(n) \in 1 .. 9
         /\ Z!Fits(n, Z!RequiredBytes(n))
         /\ \A k \in 1 .. 7 : k < Z!RequiredBytes(n) => Z!LastBelow2To53(n) \/ ~Z!Fits(n, k)
<1>1. CASE n = {}
  <2>1. Z!RequiredBytes(n) = 1
    BY <1>1 DEF Z!RequiredBytes
  <2>2. QED
    BY <1>1, <2>1 DEF Z!Fits
<1>2. CASE n # {}
  <2>1. PICK m \in 0 .. 63 : m = Z!Max(n) /\ m \in n /\ \A y \in n : y <= m
    BY <1>2, MaxOf
  <2>2. PICK log \in {m, m + 1} : log = Z!Log2(n) /\ (log = m + 1 => Z!RoundedUp(n))
    BY <2>1 DEF Z!Log2
  <2>3. PICK r \in 1 .. 9 : r = Z!RequiredBytes(n) /\ 8 * r <= log + 11 /\ log + 4 <= 8 * r
    BY <1>2, <2>2 DEF Z!RequiredBytes
  <2>4. Z!Fits(n, r)
    BY <2>1, <2>2, <2>3 DEF Z!Fits
  <2>5. ASSUME NEW k \in 1 .. 7, k < r, Z!Fits(n, k)
        PROVE  Z!LastBelow2To53(n)
    <3>1. m <= 8 * k - 4
      BY <2>1, <2>5 DEF Z!Fits
    <3>2. 8 * k - 3 <= log
      BY <2>2, <2>3, <2>5
    <3>3. log = m + 1 /\ m = 8 * k - 4
      BY <2>2, <3>1, <3>2
    <3>4. m >= 47 /\ (m = 52 => Z!LastBelow2To53(n))
      BY <2>1, <2>2, <3>3, RoundedUpIs
    <3>5. m = 52
      BY <3>3, <3>4
    <3>6. QED
      BY <3>4, <3>5
  <2>6. QED
    BY <2>3, <2>4, <2>5
<1>3. QED
  BY <1>1, <1>2

(* Size: the bits of a number, and the number of bytes beside them.        *)
SizeWritten(n, k) ==
  [b \in Z!Bytes |-> Z!ToMemory(n)[b] \cup IF b = 9 - k THEN Z!Prefix(k) ELSE {}]

LEMMA MemoryType ==
  ASSUME NEW n \in SUBSET (0 .. 63)
  PROVE  /\ Z!ToMemory(n) \in Z!Buffer /\ Z!FromMemory(Z!ToMemory(n)) = n
         /\ \A k : SizeWritten(n, k) \in Z!Buffer
<1>1. Z!ToMemory(n) \in Z!Buffer
  BY DEF Z!ToMemory, Z!Buffer, Z!ByteSet
<1>2. ASSUME NEW k PROVE SizeWritten(n, k) \in Z!Buffer
  BY <1>1 DEF SizeWritten, Z!Buffer, Z!ByteSet, Z!Prefix
<1>3. Z!FromMemory(Z!ToMemory(n)) = n
  <2>1. ASSUME NEW x \in n PROVE x \in Z!FromMemory(Z!ToMemory(n))
    <3>1. PICK b \in Z!Bytes, bit \in 0 .. 7 : x = 8 * (8 - b) + bit
      <4>1. x \in 0 .. 63 /\ 8 - (x \div 8) \in 1 .. 8 /\ x % 8 \in 0 .. 7
            /\ x = 8 * (8 - (8 - (x \div 8))) + (x % 8)
        OBVIOUS
      <4>2. QED
        BY <4>1 DEF Z!Bytes, Z!SIZE_MAX_IN_BYTES
    <3>2. bit \in Z!ToMemory(n)[b]
      BY <3>1 DEF Z!ToMemory, Z!SIZE_MAX_IN_BYTES
    <3>3. QED
      BY <3>1, <3>2 DEF Z!FromMemory, Z!SIZE_MAX_IN_BYTES
  <2>2. ASSUME NEW x \in Z!FromMemory(Z!ToMemory(n)) PROVE x \in n
    BY <2>2 DEF Z!FromMemory, Z!ToMemory, Z!SIZE_MAX_IN_BYTES
  <2>3. QED
    BY <2>1, <2>2
<1>4. QED
  BY <1>1, <1>2, <1>3

(* Size: the number of bytes is read as it was written, or as one that     *)
(* leads out of the buffer.                                                *)
LEMMA PrefixRead ==
  ASSUME signedChar \in BOOLEAN, NEW n \in SUBSET (0 .. 63), NEW k \in 1 .. 8, Z!Fits(n, k),
         NEW r, r = Z!PrefixOf(SizeWritten(n, k)[9 - k])
  PROVE  /\ r \in Nat
         /\ 9 - r \in Z!Bytes <=> r = k
         /\ k <= (IF signedChar THEN 3 ELSE 7) => r = k
<1>1. 9 - k \in Z!Bytes
  BY DEF Z!Bytes, Z!SIZE_MAX_IN_BYTES
<1>2. PICK byte : byte = SizeWritten(n, k)[9 - k]
  OBVIOUS
<1>3. byte = Z!ToMemory(n)[9 - k] \cup Z!Prefix(k)
  BY <1>1, <1>2 DEF SizeWritten
<1>4. \A bit \in 5 .. 7 : bit \notin Z!ToMemory(n)[9 - k]
  BY <1>1 DEF Z!ToMemory, Z!Fits, Z!SIZE_MAX_IN_BYTES
<1>5. \A bit \in 5 .. 7 : bit \in byte <=> (k \div Z!Weights[bit - 4]) % 2 = 1
  BY <1>3, <1>4 DEF Z!Prefix
<1>6. /\ 5 \in byte <=> k % 2 = 1
      /\ 6 \in byte <=> (k \div 2) % 2 = 1
      /\ 7 \in byte <=> (k \div 4) % 2 = 1
  <2>1. Z!Weights[1] = 1 /\ Z!Weights[2] = 2 /\ Z!Weights[3] = 4
    BY DEF Z!Weights
  <2>2. 5 - 4 = 1 /\ 6 - 4 = 2 /\ 7 - 4 = 3 /\ k \div 1 = k
    OBVIOUS
  <2>3. 5 \in 5 .. 7 /\ 6 \in 5 .. 7 /\ 7 \in 5 .. 7
    OBVIOUS
  <2>4. QED
    BY <1>5, <2>1, <2>2, <2>3
<1>7. r = (IF 5 \in byte THEN 1 ELSE 0) + (IF 6 \in byte THEN 2 ELSE 0)
            + (IF 7 \in byte THEN (IF signedChar THEN 252 ELSE 4) ELSE 0)
  BY <1>2 DEF Z!PrefixOf
<1>8. r = (k % 8) + (IF signedChar /\ 4 <= k /\ k < 8 THEN 248 ELSE 0)
  BY <1>6, <1>7
<1>9. QED
  BY <1>8 DEF Z!Bytes, Z!SIZE_MAX_IN_BYTES

(* Size: what is known between two calls.                                  *)
SizeInv ==
  /\ signedChar \in BOOLEAN /\ undefined \in BOOLEAN
  /\ encoder \in Z!Buffer /\ decoder \in Z!Buffer
  /\ number \in SUBSET (0 .. 63) /\ span \in 0 .. 8
  /\ decoded \in {{}, {number}}
  /\ span # 0 => span = Z!RequiredBytes(number) /\ encoder = SizeWritten(number, span)
  /\ undefined => Z!LastBelow2To53(number) \/ ~Z!Fits(number, IF signedChar THEN 3 ELSE 7)

LEMMA InitSizeInv == Z!Init => SizeInv
<1>1. Z!ToMemory({}) \in Z!Buffer
  BY MemoryType
<1>2. {} \in SUBSET (0 .. 63) /\ 0 \in 0 .. 8
  OBVIOUS
<1>3. QED
  BY <1>1, <1>2, Zenon DEF Z!Init, SizeInv

LEMMA EncodeStep == SizeInv /\ (\E n \in Numbers : Z!Encode(n)) => SizeInv'
<1> SUFFICES ASSUME SizeInv, NEW n \in Numbers, Z!Encode(n) PROVE SizeInv'
  OBVIOUS
<1>1. n \in SUBSET (0 .. 63)
  BY FormatsAssumption
<1>2. PICK k \in 1 .. 9 : /\ k = Z!RequiredBytes(n)
                          /\ \A h \in 1 .. 7 : h < k => Z!LastBelow2To53(n) \/ ~Z!Fits(n, h)
  BY <1>1, RequiredAre
<1>3. /\ span' = IF 9 - k \in Z!Bytes THEN k ELSE 0
      /\ undefined' = (9 - k \notin Z!Bytes)
      /\ encoder' = SizeWritten(n, k) /\ number' = n /\ decoded' = {}
      /\ UNCHANGED <<signedChar, decoder>>
  <2>1. 8 - k + 1 = 9 - k
    OBVIOUS
  <2>2. QED
    BY <1>2, <2>1 DEF Z!Encode, Z!SIZE_MAX_IN_BYTES, SizeWritten
<1>4. SizeWritten(n, k) \in Z!Buffer
  BY <1>1, MemoryType
<1>5. undefined' => Z!LastBelow2To53(n) \/ ~Z!Fits(n, IF signedChar THEN 3 ELSE 7)
  <2>1. undefined' => k = 9
    <3>1. undefined' => 9 - k \notin Z!Bytes
      BY <1>3
    <3>2. 9 - k \notin Z!Bytes => k = 9
      BY DEF Z!Bytes, Z!SIZE_MAX_IN_BYTES
    <3>3. QED
      BY <3>1, <3>2
  <2>2. 3 \in 1 .. 7 /\ 7 \in 1 .. 7 /\ 3 < 9 /\ 7 < 9
    OBVIOUS
  <2>3. QED
    BY <1>2, <2>1, <2>2
<1>6. /\ span' \in 0 .. 8 /\ (span' # 0 => span' = k) /\ undefined' \in BOOLEAN
  BY <1>3 DEF Z!Bytes, Z!SIZE_MAX_IN_BYTES
<1>7. /\ Z!RequiredBytes(number)' = Z!RequiredBytes(n) /\ Z!LastBelow2To53(number)' = Z!LastBelow2To53(n)
      /\ \A h : Z!Fits(number, h)' = Z!Fits(n, h)
      /\ SizeWritten(number, span)' = SizeWritten(n, span')
      /\ Z!Buffer' = Z!Buffer
  BY <1>3 DEF Z!Fits, Z!RequiredBytes, Z!LastBelow2To53, SizeWritten, Z!Buffer
<1>8. QED
  BY <1>1, <1>2, <1>3, <1>4, <1>5, <1>6, <1>7 DEF SizeInv

(* Size: the buffer that is decoded into ends up with the number alone.    *)
LEMMA CopiedIsNumber ==
  ASSUME NEW n \in SUBSET (0 .. 63), NEW k \in 1 .. 8, Z!Fits(n, k)
  PROVE  Z!Copied([b \in Z!Bytes |-> IF b < 9 - k THEN {} ELSE SizeWritten(n, k)[b - (9 - k) + (9 - k)]], 9 - k)
           = Z!ToMemory(n)
<1>1. PICK first \in Z!Bytes : first = 9 - k
  BY DEF Z!Bytes, Z!SIZE_MAX_IN_BYTES
<1> DEFINE memory == [b \in Z!Bytes |-> IF b < first THEN {} ELSE SizeWritten(n, k)[b - first + first]]
<1>2. \A b \in Z!Bytes : ~(b < first) => memory[b] = Z!ToMemory(n)[b] \cup IF b = first THEN Z!Prefix(k) ELSE {}
  <2>1. \A b \in Z!Bytes : b - first + first = b
    BY <1>1 DEF Z!Bytes, Z!SIZE_MAX_IN_BYTES
  <2>2. QED
    BY <1>1, <2>1 DEF SizeWritten
<1>3. ASSUME NEW b \in Z!Bytes
      PROVE  Z!Copied(memory, first)[b] = Z!ToMemory(n)[b]
  <2>1. CASE b < first
    <3>1. \A bit \in 0 .. 7 : 8 * (8 - b) + bit \notin n
      BY <1>1, <2>1 DEF Z!Fits, Z!Bytes, Z!SIZE_MAX_IN_BYTES
    <3>2. Z!ToMemory(n)[b] = {}
      BY <3>1 DEF Z!ToMemory, Z!SIZE_MAX_IN_BYTES
    <3>3. QED
      BY <2>1, <3>2 DEF Z!Copied
  <2>2. CASE b = first
    <3>1. \A bit \in {5, 6, 7} : 8 * (8 - b) + bit \notin n
      BY <1>1, <2>2 DEF Z!Fits, Z!Bytes, Z!SIZE_MAX_IN_BYTES
    <3>2. Z!ToMemory(n)[b] \cap {5, 6, 7} = {}
      BY <3>1 DEF Z!ToMemory, Z!SIZE_MAX_IN_BYTES
    <3>3. Z!Prefix(k) \subseteq {5, 6, 7}
      BY DEF Z!Prefix
    <3>4. ~(b < first)
      BY <1>1, <2>2 DEF Z!Bytes, Z!SIZE_MAX_IN_BYTES
    <3>5. Z!Copied(memory, first)[b] = memory[b] \ {5, 6, 7}
      BY <2>2, <3>4 DEF Z!Copied
    <3>6. memory[b] = Z!ToMemory(n)[b] \cup Z!Prefix(k)
      BY <1>2, <2>2, <3>4
    <3>7. QED
      BY <3>2, <3>3, <3>5, <3>6
  <2>3. CASE ~(b < first) /\ b # first
    <3>1. Z!Copied(memory, first)[b] = memory[b]
      BY <2>3 DEF Z!Copied
    <3>2. memory[b] = Z!ToMemory(n)[b] \cup {}
      BY <1>2, <2>3
    <3>3. QED
      BY <3>1, <3>2
  <2>4. QED
    BY <2>1, <2>2, <2>3
<1> HIDE DEF memory
<1>4. Z!Copied(memory, first) = Z!ToMemory(n)
  BY <1>3 DEF Z!Copied, Z!ToMemory
<1>5. QED
  BY <1>1, <1>4 DEF memory

LEMMA DecodeStep == SizeInv /\ Z!Decode => SizeInv'
<1> SUFFICES ASSUME SizeInv, Z!Decode PROVE SizeInv'
  OBVIOUS
<1>1. PICK k \in 1 .. 8 : /\ k = span /\ encoder = SizeWritten(number, k)
                          /\ k = Z!RequiredBytes(number)
  BY DEF SizeInv, Z!Decode
<1>2. number \in SUBSET (0 .. 63) /\ signedChar \in BOOLEAN
  BY DEF SizeInv
<1>3. /\ Z!Fits(number, k)
      /\ \A h \in 1 .. 7 : h < k => Z!LastBelow2To53(number) \/ ~Z!Fits(number, h)
  BY <1>1, <1>2, RequiredAre
<1>4. PICK r : r = Z!PrefixOf(SizeWritten(number, k)[9 - k])
  OBVIOUS
<1>5. /\ r \in Nat
      /\ 9 - r \in Z!Bytes <=> r = k
      /\ k <= (IF signedChar THEN 3 ELSE 7) => r = k
  BY <1>2, <1>3, <1>4, PrefixRead
<1>6. 8 - k + 1 = 9 - k /\ 8 - r + 1 = 9 - r
  BY <1>5
<1>7. /\ undefined' = (9 - r \notin Z!Bytes)
      /\ undefined' => UNCHANGED <<decoder, decoded>>
      /\ ~undefined' =>
           /\ decoder' = Z!Copied([b \in Z!Bytes |-> IF b < 9 - r THEN {}
                                     ELSE encoder[b - (9 - r) + (9 - k)]], 9 - r)
           /\ decoded' = {Z!FromMemory(decoder')}
      /\ UNCHANGED <<signedChar, encoder, number, span>>
  BY <1>1, <1>4, <1>6 DEF Z!Decode, Z!SIZE_MAX_IN_BYTES
<1>8. decoder' \in Z!Buffer /\ decoded' \in {{}, {number}}
  <2>1. CASE undefined'
    BY <1>7, <2>1 DEF SizeInv
  <2>2. CASE ~undefined'
    <3>1. r = k
      BY <1>5, <1>7, <2>2
    <3>2. decoder' = Z!ToMemory(number)
      BY <1>1, <1>2, <1>3, <1>7, <2>2, <3>1, CopiedIsNumber
    <3>3. QED
      BY <1>2, <1>7, <2>2, <3>2, MemoryType
  <2>3. QED
    BY <2>1, <2>2
<1>9. undefined' => Z!LastBelow2To53(number) \/ ~Z!Fits(number, IF signedChar THEN 3 ELSE 7)
  <2> SUFFICES ASSUME undefined', Z!Fits(number, IF signedChar THEN 3 ELSE 7)
               PROVE  Z!LastBelow2To53(number)
    OBVIOUS
  <2>1. PICK h \in 1 .. 7 : h = IF signedChar THEN 3 ELSE 7
    OBVIOUS
  <2>2. ~(k <= h)
    BY <1>5, <1>7, <2>1
  <2>3. QED
    BY <1>3, <2>1, <2>2
<1>10. /\ Z!RequiredBytes(number)' = Z!RequiredBytes(number) /\ Z!LastBelow2To53(number)' = Z!LastBelow2To53(number)
       /\ \A h : Z!Fits(number, h)' = Z!Fits(number, h)
       /\ SizeWritten(number, span)' = SizeWritten(number, span)
       /\ Z!Buffer' = Z!Buffer
  BY <1>7 DEF Z!Fits, Z!RequiredBytes, Z!LastBelow2To53, SizeWritten, Z!Buffer
<1>11. undefined' \in BOOLEAN
  BY <1>7
<1>12. QED
  BY <1>7, <1>8, <1>9, <1>10, <1>11 DEF SizeInv

LEMMA SizeInvHolds == Z!Spec => []SizeInv
<1>1. SizeInv /\ UNCHANGED Z!vars => SizeInv'
  BY DEF SizeInv, Z!vars, Z!Fits, Z!RequiredBytes, Z!LastBelow2To53, SizeWritten, Z!Buffer
<1>2. SizeInv /\ [Z!Next]_(Z!vars) => SizeInv'
  BY <1>1, EncodeStep, DecodeStep DEF Z!Next
<1>3. QED
  BY <1>2, InitSizeInv, PTL DEF Z!Spec

(* Size: for every number of 64 bits, whatever the static buffers held     *)
(* before, what MakeSize wrote comes back if it needs at most 3 bytes, or  *)
(* 7 where char is unsigned, in no more bytes than it needs, but for the   *)
(* last 22 numbers below 2^53.                                             *)
THEOREM SizeRoundTripHolds == FormatsSpec => []SizeRoundTrip
<1>1. SizeInv => SizeRoundTrip
  <2> SUFFICES ASSUME SizeInv PROVE SizeRoundTrip
    OBVIOUS
  <2>1. /\ \A n \in decoded : n = number
        /\ undefined => Z!LastBelow2To53(number) \/ ~Z!Fits(number, IF signedChar THEN 3 ELSE 7)
    BY DEF SizeInv
  <2>2. ASSUME span # 0
        PROVE  /\ Z!Fits(number, span)
               /\ span > 1 => Z!LastBelow2To53(number) \/ ~Z!Fits(number, span - 1)
    <3>1. span \in 1 .. 8 /\ span = Z!RequiredBytes(number) /\ number \in SUBSET (0 .. 63)
      BY <2>2 DEF SizeInv
    <3>2. span > 1 => span - 1 \in 1 .. 7 /\ span - 1 < span
      BY <3>1
    <3>3. QED
      BY <3>1, <3>2, RequiredAre
  <2>3. span = 0 => ~(span > 1)
    OBVIOUS
  <2>4. QED
    BY <2>1, <2>2, <2>3 DEF SizeRoundTrip, Z!RoundTrip
<1>2. QED
  BY <1>1, SizeInvHolds, ConversionsAlone, PTL

-----------------------------------------------------------------------------
(* IniParser: the strings that Deserialize cuts a line into.               *)
LEMMA SmallestOf ==
  ASSUME NEW T \in SUBSET Nat, T # {}
  PROVE  I!Min(T) \in T /\ \A y \in T : I!Min(T) <= y
<1>1. PICK x \in T : \A y \in T : ~ (<<y, x>> \in OpToRel(<, Nat))
  BY NatLessThanWellFounded, WFMin
<1>2. \A y \in T : x <= y
  <2>1. \A y \in T : ~(y < x)
    BY <1>1 DEF OpToRel
  <2>2. QED
    BY <2>1
<1>3. QED
  BY <1>2 DEF I!Min

LEMMA CutType ==
  ASSUME NEW s \in Seq(STRING), NEW m \in Int, NEW n \in Int, m >= 1, n <= Len(s)
  PROVE  SubSeq(s, m, n) \in Seq(STRING)
<1>1. \A k \in m .. n : s[k] \in STRING
  BY LenProperties, ElementOfSeq
<1>2. QED
  BY <1>1, SubSeqProperties

LEMMA TrimType ==
  ASSUME NEW s \in Seq(STRING)
  PROVE  I!Trim(s) \in Seq(STRING)
<1>1. PICK kept : kept = {k \in DOMAIN s : s[k] \notin mContext.spaces}
  OBVIOUS
<1>2. Len(s) \in Nat /\ DOMAIN s = 1 .. Len(s)
  BY LenProperties
<1>3. CASE kept = {}
  BY <1>1, <1>3, EmptySeq DEF I!Trim
<1>4. CASE kept # {}
  <2>1. kept \in SUBSET Nat /\ kept \in SUBSET (0 .. Len(s)) /\ kept \subseteq 1 .. Len(s)
    BY <1>1, <1>2
  <2>2. I!Min(kept) \in 1 .. Len(s)
    BY <1>4, <2>1, SmallestOf
  <2>3. I!Max(kept) \in 1 .. Len(s)
    BY <1>2, <1>4, <2>1, MaxOf
  <2>4. SubSeq(s, I!Min(kept), I!Max(kept)) \in Seq(STRING)
    <3>1. I!Min(kept) \in Int /\ I!Max(kept) \in Int /\ I!Min(kept) >= 1 /\ I!Max(kept) <= Len(s)
      BY <1>2, <2>2, <2>3
    <3>2. QED
      BY <3>1, CutType
  <2>5. QED
    BY <1>1, <1>4, <2>4 DEF I!Trim
<1>5. QED
  BY <1>3, <1>4

LEMMA SectionType ==
  ASSUME NEW line \in Seq(STRING)
  PROVE  I!ParseSection(line) \in Seq(STRING)
<1>1. PICK s \in Seq(STRING) : s = I!Trim(line)
  BY TrimType
<1>2. PICK inner : inner = SubSeq(s, 2, Len(s) - 1)
  OBVIOUS
<1>3. inner \in Seq(STRING)
  BY <1>2, CutType, LenProperties
<1>4. QED
  BY <1>1, <1>2, <1>3, TrimType DEF I!ParseSection

LEMMA PairType ==
  ASSUME NEW line \in Seq(STRING), I!IsPair(line)
  PROVE  I!ParsePair(line) \in Seq(STRING) \X Seq(STRING)
<1>1. PICK s \in Seq(STRING) : s = I!Trim(line)
  BY TrimType
<1>2. Len(s) \in Nat /\ DOMAIN s = 1 .. Len(s)
  BY LenProperties
<1>3. PICK pos : pos = I!Min(I!Separators(s))
  OBVIOUS
<1>4. pos \in 1 .. Len(s)
  <2>1. I!Separators(s) \in SUBSET Nat /\ I!Separators(s) # {} /\ I!Separators(s) \subseteq 1 .. Len(s)
    BY <1>1, <1>2 DEF I!IsPair, I!Separators
  <2>2. QED
    BY <1>3, <2>1, SmallestOf
<1>5. PICK before, after : before = SubSeq(s, 1, pos - 1) /\ after = SubSeq(s, pos + 1, Len(s))
  OBVIOUS
<1>6. before \in Seq(STRING) /\ after \in Seq(STRING)
  BY <1>2, <1>4, <1>5, CutType
<1>7. I!Trim(before) \in Seq(STRING) /\ I!Trim(after) \in Seq(STRING)
  BY <1>6, TrimType
<1>8. I!ParsePair(line) = <<I!Trim(before), I!Trim(after)>>
  BY <1>1, <1>3, <1>5 DEF I!ParsePair
<1>9. QED
  BY <1>7, <1>8

LEMMA DeserializedType ==
  ASSUME NEW section \in Seq(STRING), NEW pairs, I!PairsFit(pairs), NEW rawLine \in Seq(STRING),
         NEW parsed, parsed = I!Deserialized([section |-> section, pairs |-> pairs], rawLine)
  PROVE  /\ parsed = [section |-> parsed.section, pairs |-> parsed.pairs]
         /\ parsed.section \in Seq(STRING) /\ I!PairsFit(parsed.pairs)
<1>1. PICK line \in Seq(STRING) : line = I!Trim(rawLine)
  BY TrimType
<1>2. PICK token : token = IF line = <<>> THEN "NONE" ELSE I!FindToken(line)
  OBVIOUS
<1>3. CASE token = "SECTION"
  <2>1. parsed = [section |-> I!ParseSection(line), pairs |-> pairs]
    BY <1>1, <1>2, <1>3 DEF I!Deserialized
  <2>2. QED
    BY <2>1, SectionType
<1>4. CASE token = "PAIR"
  <2>1. I!IsPair(line)
    BY <1>2, <1>4 DEF I!FindToken
  <2>2. PICK pair \in Seq(STRING) \X Seq(STRING) : pair = I!ParsePair(line)
    BY <2>1, PairType
  <2>3. PICK key \in Seq(STRING) \X Seq(STRING), value \in Seq(STRING) :
          key = <<section, pair[1]>> /\ value = pair[2]
    BY <2>2
  <2>4. parsed = [section |-> section, pairs |-> I!Stored(pairs, key, value)]
    BY <1>1, <1>2, <1>4, <2>2, <2>3 DEF I!Deserialized
  <2>5. I!PairsFit(I!Stored(pairs, key, value))
    BY DEF I!PairsFit, I!Stored
  <2>6. QED
    BY <2>4, <2>5
<1>5. CASE token \notin {"SECTION", "PAIR"}
  <2>1. parsed = [section |-> section, pairs |-> pairs]
    BY <1>1, <1>2, <1>5 DEF I!Deserialized
  <2>2. QED
    BY <2>1
<1>6. QED
  BY <1>3, <1>4, <1>5

(* Trim: what is left of a string with more than spaces begins and ends    *)
(* with something that is no space, and nothing else is missing.           *)
LEMMA TrimCuts ==
  ASSUME NEW s \in Seq(STRING), \E i1 \in 1 .. Len(s) : s[i1] \notin mContext.spaces
  PROVE  \E a, b \in 1 .. Len(s) :
           /\ a <= b /\ I!Trim(s) = SubSeq(s, a, b)
           /\ s[a] \notin mContext.spaces /\ s[b] \notin mContext.spaces
           /\ \A i1 \in 1 .. Len(s) : s[i1] \notin mContext.spaces => a <= i1 /\ i1 <= b
<1>1. PICK kept : kept = {i1 \in DOMAIN s : s[i1] \notin mContext.spaces}
  OBVIOUS
<1>2. Len(s) \in Nat /\ DOMAIN s = 1 .. Len(s)
  BY LenProperties
<1>3. kept # {} /\ kept \in SUBSET Nat /\ kept \in SUBSET (0 .. Len(s)) /\ kept \subseteq 1 .. Len(s)
  BY <1>1, <1>2
<1>4. I!Min(kept) \in kept /\ \A y \in kept : I!Min(kept) <= y
  BY <1>3, SmallestOf
<1>5. I!Max(kept) \in kept /\ \A y \in kept : y <= I!Max(kept)
  BY <1>2, <1>3, MaxOf
<1>6. I!Trim(s) = SubSeq(s, I!Min(kept), I!Max(kept))
  BY <1>1, <1>3 DEF I!Trim
<1>7. PICK a, b \in 1 .. Len(s) : a = I!Min(kept) /\ b = I!Max(kept)
  BY <1>3, <1>4, <1>5
<1>8. a \in kept /\ b \in kept /\ a <= b /\ \A y \in kept : a <= y /\ y <= b
  BY <1>4, <1>5, <1>7
<1>9. QED
  BY <1>1, <1>2, <1>6, <1>7, <1>8

LEMMA TrimOfSpaces ==
  ASSUME NEW s \in Seq(STRING), \A i1 \in 1 .. Len(s) : s[i1] \in mContext.spaces
  PROVE  I!Trim(s) = <<>>
BY LenProperties DEF I!Trim

(* Neither end of a string is a space.                                     *)
Trimmed(s) == s # <<>> => s[1] \notin mContext.spaces /\ s[Len(s)] \notin mContext.spaces

LEMMA TrimmedKept ==
  ASSUME NEW s \in Seq(STRING)
  PROVE  I!Trim(s) = s <=> Trimmed(s)
<1>1. Len(s) \in Nat /\ (s # <<>> => Len(s) >= 1) /\ (s = <<>> => Len(s) = 0)
  BY LenProperties, EmptySeq
<1>2. CASE s = <<>>
  <2>1. \A i1 \in 1 .. Len(s) : s[i1] \in mContext.spaces
    BY <1>1, <1>2
  <2>2. I!Trim(s) = s
    BY <1>2, <2>1, TrimOfSpaces
  <2>3. QED
    BY <1>2, <2>2 DEF Trimmed
<1>3. CASE s # <<>> /\ \A i1 \in 1 .. Len(s) : s[i1] \in mContext.spaces
  <2>1. I!Trim(s) = <<>> /\ 1 \in 1 .. Len(s)
    BY <1>1, <1>3, TrimOfSpaces
  <2>2. QED
    BY <1>3, <2>1 DEF Trimmed
<1>4. CASE \E i1 \in 1 .. Len(s) : s[i1] \notin mContext.spaces
  <2>1. PICK a, b \in 1 .. Len(s) :
           /\ a <= b /\ I!Trim(s) = SubSeq(s, a, b)
           /\ s[a] \notin mContext.spaces /\ s[b] \notin mContext.spaces
           /\ \A i1 \in 1 .. Len(s) : s[i1] \notin mContext.spaces => a <= i1 /\ i1 <= b
    BY <1>4, TrimCuts
  <2>2. ASSUME Trimmed(s) PROVE I!Trim(s) = s
    <3>1. s # <<>> /\ 1 \in 1 .. Len(s) /\ Len(s) \in 1 .. Len(s)
      BY <1>1, <2>1
    <3>2. a = 1 /\ b = Len(s)
      BY <1>1, <2>1, <2>2, <3>1 DEF Trimmed
    <3>3. QED
      BY <2>1, <3>2, SubSeqFull
  <2>3. ASSUME I!Trim(s) = s PROVE Trimmed(s)
    <3>1. \A i1 \in a .. b : s[i1] \in STRING
      BY <1>1, <2>1, ElementOfSeq
    <3>2. Len(SubSeq(s, a, b)) = b - a + 1
      BY <2>1, <3>1, SubSeqProperties
    <3>3. a = 1 /\ b = Len(s)
      BY <1>1, <2>1, <2>3, <3>2
    <3>4. QED
      BY <2>1, <3>3 DEF Trimmed
  <2>4. QED
    BY <2>2, <2>3
<1>5. QED
  BY <1>2, <1>3, <1>4

(* What Trim leaves are characters of the string, its ends when they are   *)
(* no spaces.                                                              *)
LEMMA TrimLeaves ==
  ASSUME NEW s \in Seq(STRING), NEW t, t = I!Trim(s)
  PROVE  /\ t \in Seq(STRING) /\ Trimmed(t) /\ I!Trim(t) = t
         /\ \A i1 \in 1 .. Len(t) : \E j1 \in 1 .. Len(s) : t[i1] = s[j1]
         /\ s # <<>> /\ s[1] \notin mContext.spaces => t # <<>> /\ t[1] = s[1]
         /\ s # <<>> /\ s[Len(s)] \notin mContext.spaces => t # <<>> /\ t[Len(t)] = s[Len(s)]
<1>1. Len(s) \in Nat /\ (s # <<>> => Len(s) >= 1) /\ (s = <<>> => Len(s) = 0) /\ Len(<<>>) = 0
  BY LenProperties, EmptySeq
<1>2. t \in Seq(STRING)
  BY TrimType
<1>3. CASE \A i1 \in 1 .. Len(s) : s[i1] \in mContext.spaces
  <2>1. t = <<>>
    BY <1>3, TrimOfSpaces
  <2>2. s # <<>> => 1 \in 1 .. Len(s) /\ Len(s) \in 1 .. Len(s)
    BY <1>1
  <2>3. s # <<>> => s[1] \in mContext.spaces /\ s[Len(s)] \in mContext.spaces
    BY <1>3, <2>2
  <2>4. Trimmed(t) /\ \A i1 \in 1 .. Len(t) : \E j1 \in 1 .. Len(s) : t[i1] = s[j1]
    BY <1>1, <2>1 DEF Trimmed
  <2>5. QED
    BY <1>2, <2>3, <2>4, TrimmedKept
<1>4. CASE \E i1 \in 1 .. Len(s) : s[i1] \notin mContext.spaces
  <2>1. PICK a, b \in 1 .. Len(s) :
           /\ a <= b /\ t = SubSeq(s, a, b)
           /\ s[a] \notin mContext.spaces /\ s[b] \notin mContext.spaces
           /\ \A i1 \in 1 .. Len(s) : s[i1] \notin mContext.spaces => a <= i1 /\ i1 <= b
    BY <1>4, TrimCuts
  <2>2. \A i1 \in a .. b : s[i1] \in STRING
    BY <1>1, <2>1, ElementOfSeq
  <2>3. Len(t) = b - a + 1 /\ \A i1 \in 1 .. b - a + 1 : t[i1] = s[a + i1 - 1]
    BY <2>1, <2>2, SubSeqProperties
  <2>4. t # <<>>
    <3>1. Len(t) # 0
      BY <1>1, <2>1, <2>3
    <3>2. QED
      BY <1>1, <3>1
  <2>5. t[1] = s[a] /\ t[Len(t)] = s[b]
    BY <1>1, <2>1, <2>3
  <2>6. Trimmed(t)
    BY <2>1, <2>5 DEF Trimmed
  <2>7. \A i1 \in 1 .. Len(t) : \E j1 \in 1 .. Len(s) : t[i1] = s[j1]
    <3>1. ASSUME NEW i1 \in 1 .. Len(t) PROVE a + i1 - 1 \in 1 .. Len(s) /\ t[i1] = s[a + i1 - 1]
      BY <1>1, <2>1, <2>3, <3>1
    <3>2. QED
      BY <3>1
  <2>8. ASSUME s # <<>>, s[1] \notin mContext.spaces PROVE t[1] = s[1]
    <3>1. a = 1
      BY <1>1, <2>1, <2>8
    <3>2. QED
      BY <2>5, <3>1
  <2>9. ASSUME s # <<>>, s[Len(s)] \notin mContext.spaces PROVE t[Len(t)] = s[Len(s)]
    <3>1. b = Len(s)
      BY <1>1, <2>1, <2>9
    <3>2. QED
      BY <2>5, <3>1
  <2>10. I!Trim(t) = t
    BY <1>2, <2>6, TrimmedKept
  <2>11. QED
    BY <1>2, <2>4, <2>6, <2>7, <2>8, <2>9, <2>10
<1>5. QED
  BY <1>3, <1>4

-----------------------------------------------------------------------------
(* Two lines with the same ends are the same to the lexer, pairs apart.    *)
LEMMA SameEnds ==
  ASSUME NEW s \in Seq(STRING), NEW t \in Seq(STRING), s # <<>>, t # <<>>, Trimmed(s),
         t[1] = s[1], t[Len(t)] = s[Len(s)]
  PROVE  /\ Trimmed(t) /\ I!Trim(t) = t /\ I!Trim(s) = s
         /\ I!IsComment(t) <=> I!IsComment(s)
         /\ I!IsSection(t) <=> I!IsSection(s)
<1>1. Trimmed(t)
  BY DEF Trimmed
<1>2. I!Trim(t) = t /\ I!Trim(s) = s
  BY <1>1, TrimmedKept
<1>3. Head(t) = Head(s) /\ I!Last(t) = I!Last(s)
  BY DEF I!Last
<1>4. QED
  BY <1>1, <1>2, <1>3 DEF I!IsComment, I!IsSection

(* The pair that a line is cut into, and the line it is put together to.   *)
PairKept(key, value) ==
  LET line == I!FormatPair(key, value) IN
    /\ I!Trim(key) = key /\ I!Trim(value) = value /\ I!Separators(key) = {}
    /\ I!Trim(line) = line /\ ~I!IsComment(line) /\ ~I!IsSection(line)

LEMMA OneCharacter ==
  ASSUME NEW c \in STRING
  PROVE  <<c>> \in Seq(STRING) /\ Len(<<c>>) = 1 /\ <<c>>[1] = c
<1>1. PICK nothing \in Seq(STRING) : nothing = <<>>
  BY EmptySeq
<1>2. PICK one : one = Append(nothing, c)
  OBVIOUS
<1>3. one \in Seq(STRING) /\ Len(one) = Len(nothing) + 1 /\ one[Len(nothing) + 1] = c
  BY <1>2, AppendProperties
<1>4. one = <<c>> /\ Len(nothing) = 0
  BY <1>1, <1>2
<1>5. QED
  BY <1>3, <1>4

(* One character between two strings, and where everything is then.        *)
IsJoined(u, s, c, t) ==
  /\ u \in Seq(STRING) /\ u # <<>> /\ Len(u) = Len(s) + 1 + Len(t)
  /\ \A i1 \in 1 .. Len(s) : u[i1] = s[i1]
  /\ u[Len(s) + 1] = c
  /\ \A i1 \in 1 .. Len(t) : u[Len(s) + 1 + i1] = t[i1]

LEMMA Joined ==
  ASSUME NEW s \in Seq(STRING), NEW c \in STRING, NEW t \in Seq(STRING)
  PROVE  IsJoined(s \o <<c>> \o t, s, c, t)
<1> DEFINE u == s \o <<c>> \o t
<1>1. Len(s) \in Nat /\ Len(t) \in Nat /\ Len(<<>>) = 0
  BY LenProperties, EmptySeq
<1>2. PICK one \in Seq(STRING) : one = <<c>> /\ Len(one) = 1 /\ one[1] = c
  BY OneCharacter
<1>3. PICK start \in Seq(STRING) : start = s \o one
  BY ConcatProperties
<1>4. /\ Len(start) = Len(s) + Len(one)
      /\ \A i1 \in 1 .. Len(s) + Len(one) : start[i1] = IF i1 <= Len(s) THEN s[i1] ELSE one[i1 - Len(s)]
  BY <1>3, ConcatProperties
<1>5. u = start \o t
  BY <1>2, <1>3
<1>6. /\ u \in Seq(STRING) /\ Len(u) = Len(start) + Len(t)
      /\ \A i1 \in 1 .. Len(start) + Len(t) : u[i1] = IF i1 <= Len(start) THEN start[i1] ELSE t[i1 - Len(start)]
  BY <1>5, ConcatProperties
<1>7. Len(start) = Len(s) + 1 /\ Len(u) = Len(s) + 1 + Len(t)
  BY <1>2, <1>4, <1>6
<1>8. \A i1 \in 1 .. Len(s) : u[i1] = s[i1]
  <2>1. ASSUME NEW i1 \in 1 .. Len(s) PROVE u[i1] = start[i1] /\ start[i1] = s[i1]
    BY <1>1, <1>2, <1>4, <1>6, <1>7
  <2>2. QED
    BY <2>1
<1>9. u[Len(s) + 1] = c
  <2>1. PICK k \in 1 .. Len(start) + Len(t) :
           k = Len(s) + 1 /\ k <= Len(start) /\ k \in 1 .. Len(s) + Len(one) /\ ~(k <= Len(s)) /\ k - Len(s) = 1
    BY <1>1, <1>2, <1>7
  <2>2. u[k] = start[k] /\ start[k] = one[1]
    BY <1>4, <1>6, <2>1
  <2>3. QED
    BY <1>2, <2>1, <2>2
<1>10. \A i1 \in 1 .. Len(t) : u[Len(s) + 1 + i1] = t[i1]
  <2>1. ASSUME NEW i1 \in 1 .. Len(t) PROVE u[Len(s) + 1 + i1] = t[i1]
    <3>1. PICK k \in 1 .. Len(start) + Len(t) : k = Len(s) + 1 + i1 /\ ~(k <= Len(start)) /\ k - Len(start) = i1
      BY <1>1, <1>7
    <3>2. QED
      BY <1>6, <3>1
  <2>2. QED
    BY <2>1
<1>11. u # <<>>
  BY <1>1, <1>7
<1>12. QED
  BY <1>6, <1>7, <1>8, <1>9, <1>10, <1>11 DEF IsJoined

(* What stands before the first separator of a line, and after it.         *)
LEMMA KeyOf ==
  ASSUME NEW line \in Seq(STRING), line # <<>>, Trimmed(line), NEW pos \in 1 .. Len(line),
         \A k \in 1 .. Len(line) : k < pos => line[k] # mContext.pairSeparator,
         NEW key, key = I!Trim(SubSeq(line, 1, pos - 1))
  PROVE  /\ key \in Seq(STRING) /\ I!Trim(key) = key /\ I!Separators(key) = {}
         /\ IF pos = 1 THEN Len(key) = 0 ELSE Len(key) >= 1 /\ key[1] = line[1]
<1>1. Len(line) \in Nat /\ Len(<<>>) = 0
  BY LenProperties, EmptySeq
<1>2. PICK before : before = SubSeq(line, 1, pos - 1)
  OBVIOUS
<1>3. \A k \in 1 .. pos - 1 : line[k] \in STRING
  BY <1>1, ElementOfSeq
<1>4. /\ before \in Seq(STRING) /\ Len(before) = pos - 1
      /\ \A k \in 1 .. pos - 1 : before[k] = line[k]
  BY <1>1, <1>2, <1>3, SubSeqProperties
<1>5. PICK s \in Seq(STRING) : s = before
  BY <1>4
<1>6. /\ key \in Seq(STRING) /\ Trimmed(key) /\ I!Trim(key) = key
      /\ \A i1 \in 1 .. Len(key) : \E j1 \in 1 .. Len(s) : key[i1] = s[j1]
      /\ s # <<>> /\ s[1] \notin mContext.spaces => key # <<>> /\ key[1] = s[1]
      /\ s # <<>> /\ s[Len(s)] \notin mContext.spaces => key # <<>> /\ key[Len(key)] = s[Len(s)]
  <2>1. key = I!Trim(s)
    BY <1>2, <1>5
  <2>2. QED
    BY <2>1, TrimLeaves
<1>7. Len(key) \in Nat /\ DOMAIN key = 1 .. Len(key) /\ (key # <<>> => Len(key) >= 1)
  BY <1>6, LenProperties, EmptySeq
<1>8. \A k \in 1 .. Len(key) : key[k] # mContext.pairSeparator
  <2>1. ASSUME NEW k \in 1 .. Len(key) PROVE key[k] # mContext.pairSeparator
    <3>1. PICK j1 \in 1 .. Len(s) : key[k] = s[j1]
      BY <1>6
    <3>2. j1 \in 1 .. Len(line) /\ j1 < pos /\ s[j1] = line[j1]
      BY <1>1, <1>4, <1>5
    <3>3. QED
      BY <3>1, <3>2
  <2>2. QED
    BY <2>1
<1>9. I!Separators(key) = {}
  BY <1>7, <1>8 DEF I!Separators
<1>10. CASE pos = 1
  <2>1. Len(s) = 0
    BY <1>4, <1>5, <1>10
  <2>2. \A k \in 1 .. Len(key) : FALSE
    BY <1>6, <2>1
  <2>3. Len(key) = 0
    BY <1>7, <2>2
  <2>4. QED
    BY <1>6, <1>9, <1>10, <2>3
<1>11. CASE pos # 1
  <2>1. s # <<>> /\ s[1] = line[1]
    BY <1>1, <1>4, <1>5, <1>11
  <2>2. line[1] \notin mContext.spaces
    BY DEF Trimmed
  <2>3. QED
    BY <1>6, <1>7, <1>9, <1>11, <2>1, <2>2
<1>12. QED
  BY <1>10, <1>11

LEMMA ValueOf ==
  ASSUME NEW line \in Seq(STRING), line # <<>>, Trimmed(line), NEW pos \in 1 .. Len(line),
         NEW value, value = I!Trim(SubSeq(line, pos + 1, Len(line)))
  PROVE  /\ value \in Seq(STRING) /\ I!Trim(value) = value
         /\ IF pos = Len(line) THEN Len(value) = 0
            ELSE Len(value) >= 1 /\ value[Len(value)] = line[Len(line)]
<1>1. Len(line) \in Nat /\ Len(<<>>) = 0
  BY LenProperties, EmptySeq
<1>2. PICK after : after = SubSeq(line, pos + 1, Len(line))
  OBVIOUS
<1>3. pos + 1 \in Int /\ Len(line) \in Int /\ \A k \in pos + 1 .. Len(line) : line[k] \in STRING
  BY <1>1, ElementOfSeq
<1>4. /\ after \in Seq(STRING)
      /\ Len(after) = IF pos + 1 <= Len(line) THEN Len(line) - (pos + 1) + 1 ELSE 0
      /\ \A k \in 1 .. Len(line) - (pos + 1) + 1 : after[k] = line[(pos + 1) + k - 1]
  BY <1>2, <1>3, SubSeqProperties
<1>5. PICK s \in Seq(STRING) : s = after
  BY <1>4
<1>6. /\ value \in Seq(STRING) /\ Trimmed(value) /\ I!Trim(value) = value
      /\ \A i1 \in 1 .. Len(value) : \E j1 \in 1 .. Len(s) : value[i1] = s[j1]
      /\ s # <<>> /\ s[Len(s)] \notin mContext.spaces => value # <<>> /\ value[Len(value)] = s[Len(s)]
  <2>1. value = I!Trim(s)
    BY <1>2, <1>5
  <2>2. QED
    BY <2>1, TrimLeaves
<1>7. Len(value) \in Nat /\ (value # <<>> => Len(value) >= 1)
  BY <1>6, LenProperties, EmptySeq
<1>8. CASE pos = Len(line)
  <2>1. Len(s) = 0
    BY <1>1, <1>4, <1>5, <1>8
  <2>2. \A k \in 1 .. Len(value) : FALSE
    BY <1>6, <2>1
  <2>3. Len(value) = 0
    BY <1>7, <2>2
  <2>4. QED
    BY <1>6, <1>8, <2>3
<1>9. CASE pos # Len(line)
  <2>1. PICK k \in 1 .. Len(line) - (pos + 1) + 1 : k = Len(s) /\ (pos + 1) + k - 1 = Len(line)
    <3>1. pos + 1 <= Len(line)
      BY <1>1, <1>9
    <3>2. Len(s) = Len(line) - (pos + 1) + 1
      BY <1>4, <1>5, <3>1
    <3>3. Len(line) - (pos + 1) + 1 \in 1 .. Len(line) - (pos + 1) + 1
      BY <1>1, <3>1
    <3>4. PICK k \in 1 .. Len(line) - (pos + 1) + 1 : k = Len(s)
      BY <3>2, <3>3
    <3>5. (pos + 1) + k - 1 = Len(line)
      BY <1>1, <3>2, <3>4
    <3>6. QED
      BY <3>4, <3>5
  <2>2. s # <<>> /\ s[Len(s)] = line[Len(line)]
    BY <1>1, <1>4, <1>5, <2>1
  <2>3. line[Len(line)] \notin mContext.spaces
    BY DEF Trimmed
  <2>4. QED
    BY <1>6, <1>7, <1>9, <2>2, <2>3
<1>10. QED
  BY <1>8, <1>9

(* A pair is not mistaken when its line is put together again: the line    *)
(* begins and ends as the one it comes from, and no separator is in a key. *)
LEMMA ParsedPairKept ==
  ASSUME mContext \in Contexts, NEW line \in Seq(STRING), line # <<>>, Trimmed(line),
         I!IsPair(line), ~I!IsComment(line), ~I!IsSection(line),
         NEW pair, pair = I!ParsePair(line)
  PROVE  PairKept(pair[1], pair[2])
<1>1. Len(line) \in Nat /\ DOMAIN line = 1 .. Len(line)
  BY LenProperties
<1>2. I!Trim(line) = line
  BY TrimmedKept
<1>3. /\ I!Separators(line) \in SUBSET Nat /\ I!Separators(line) # {}
      /\ \A k : k \in I!Separators(line) <=> k \in 1 .. Len(line) /\ line[k] = mContext.pairSeparator
  BY <1>1, <1>2 DEF I!IsPair, I!Separators
<1>4. PICK pos \in 1 .. Len(line) :
        /\ pos = I!Min(I!Separators(line)) /\ line[pos] = mContext.pairSeparator
        /\ \A k \in 1 .. Len(line) : k < pos => line[k] # mContext.pairSeparator
  <2>1. /\ I!Min(I!Separators(line)) \in I!Separators(line)
        /\ \A k \in I!Separators(line) : I!Min(I!Separators(line)) <= k
    BY <1>3, SmallestOf
  <2>2. I!Min(I!Separators(line)) \in 1 .. Len(line)
    BY <1>3, <2>1
  <2>3. QED
    BY <1>1, <1>3, <2>1, <2>2
<1>5. PICK key : key = I!Trim(SubSeq(line, 1, pos - 1))
  OBVIOUS
<1>6. PICK value : value = I!Trim(SubSeq(line, pos + 1, Len(line)))
  OBVIOUS
<1>7. pair = <<key, value>>
  BY <1>2, <1>4, <1>5, <1>6 DEF I!ParsePair
<1>8. /\ key \in Seq(STRING) /\ I!Trim(key) = key /\ I!Separators(key) = {}
      /\ IF pos = 1 THEN Len(key) = 0 ELSE Len(key) >= 1 /\ key[1] = line[1]
  BY <1>4, <1>5, KeyOf
<1>9. /\ value \in Seq(STRING) /\ I!Trim(value) = value
      /\ IF pos = Len(line) THEN Len(value) = 0 ELSE Len(value) >= 1 /\ value[Len(value)] = line[Len(line)]
  BY <1>6, ValueOf
<1>10. PICK again : again = I!FormatPair(key, value)
  OBVIOUS
<1>11. /\ again \in Seq(STRING) /\ again # <<>> /\ Len(again) = Len(key) + 1 + Len(value)
       /\ \A k \in 1 .. Len(key) : again[k] = key[k]
       /\ again[Len(key) + 1] = mContext.pairSeparator
       /\ \A k \in 1 .. Len(value) : again[Len(key) + 1 + k] = value[k]
  <2>1. PICK s \in Seq(STRING), t \in Seq(STRING) : s = key /\ t = value
    BY <1>8, <1>9
  <2>2. PICK c \in STRING : c = mContext.pairSeparator
    BY FormatsAssumption
  <2>3. again = s \o <<c>> \o t
    BY <1>10, <2>1, <2>2 DEF I!FormatPair
  <2>4. IsJoined(again, s, c, t)
    BY <2>3, Joined
  <2>5. QED
    BY <2>1, <2>2, <2>4 DEF IsJoined
<1>12. Len(key) \in Nat /\ Len(value) \in Nat
  BY <1>8, <1>9, LenProperties
<1>13. again[1] = line[1]
  BY <1>4, <1>8, <1>11, <1>12
<1>14. again[Len(again)] = line[Len(line)]
  <2>1. CASE pos = Len(line)
    BY <1>4, <1>9, <1>11, <1>12, <2>1
  <2>2. CASE pos # Len(line)
    <3>1. Len(value) \in 1 .. Len(value) /\ value[Len(value)] = line[Len(line)]
      BY <1>9, <1>12, <2>2
    <3>2. again[Len(key) + 1 + Len(value)] = value[Len(value)]
      BY <1>11, <3>1
    <3>3. QED
      BY <1>11, <3>1, <3>2
  <2>3. QED
    BY <2>1, <2>2
<1>15. I!Trim(again) = again /\ ~I!IsComment(again) /\ ~I!IsSection(again)
  BY <1>11, <1>13, <1>14, SameEnds
<1>16. QED
  BY <1>7, <1>8, <1>9, <1>10, <1>15 DEF PairKept

-----------------------------------------------------------------------------
(* A section's name that Deserialize can have: none but the first where    *)
(* every line that begins as one is a comment.                             *)
SectionKept(section) ==
  /\ section \in Seq(STRING) /\ I!Trim(section) = section
  /\ mContext.sectionStart \in mContext.commentsStart => section = <<>>

LEMMA ParsedSectionKept ==
  ASSUME NEW line \in Seq(STRING), line # <<>>, Trimmed(line),
         I!IsSection(line), ~I!IsComment(line)
  PROVE  SectionKept(I!ParseSection(line))
<1>1. I!Trim(line) = line
  BY TrimmedKept
<1>2. Head(line) = mContext.sectionStart /\ mContext.sectionStart \notin mContext.commentsStart
  BY <1>1 DEF I!IsSection, I!IsComment
<1>3. PICK inner : inner = SubSeq(line, 2, Len(line) - 1)
  OBVIOUS
<1>4. PICK s \in Seq(STRING) : s = inner
  <2>1. 2 \in Int /\ Len(line) - 1 \in Int /\ 2 >= 1 /\ Len(line) - 1 <= Len(line)
    BY LenProperties
  <2>2. inner \in Seq(STRING)
    BY <1>3, <2>1, CutType
  <2>3. QED
    BY <2>2
<1>5. PICK t : t = I!Trim(s)
  OBVIOUS
<1>6. t \in Seq(STRING) /\ I!Trim(t) = t
  BY <1>5, TrimLeaves
<1>7. I!ParseSection(line) = t
  BY <1>1, <1>3, <1>4, <1>5 DEF I!ParseSection
<1>8. QED
  BY <1>2, <1>6, <1>7 DEF SectionKept

(* An empty line changes nothing.                                          *)
LEMMA EmptyLine ==
  ASSUME NEW parsed
  PROVE  I!Deserialized(parsed, <<>>) = parsed
<1>1. PICK line \in Seq(STRING) : line = <<>>
  BY EmptySeq
<1>2. Trimmed(line)
  BY <1>1 DEF Trimmed
<1>3. I!Trim(<<>>) = <<>>
  BY <1>1, <1>2, TrimmedKept
<1>4. QED
  BY <1>3 DEF I!Deserialized

(* The line of a section is read as that section, unless all of them are   *)
(* comments, and then the section before was the first.                    *)
LEMMA SectionReread ==
  ASSUME mContext \in Contexts, I!BracketsKept, NEW section, SectionKept(section),
         NEW before, SectionKept(before), NEW pairs
  PROVE  I!Deserialized([section |-> before, pairs |-> pairs], I!FormatSection(section))
           = [section |-> section, pairs |-> pairs]
<1>1. PICK start \in STRING, end \in STRING :
        /\ start = mContext.sectionStart /\ end = mContext.sectionEnd
        /\ start \notin mContext.spaces /\ end \notin mContext.spaces
  BY FormatsAssumption DEF I!BracketsKept
<1>2. PICK line : line = I!FormatSection(section)
  OBVIOUS
<1>3. section \in Seq(STRING) /\ Len(section) \in Nat /\ I!Trim(section) = section
  BY LenProperties DEF SectionKept
<1>4. PICK s \in Seq(STRING) : s = section
  BY <1>3
<1>5. PICK none \in Seq(STRING) : none = <<>> /\ Len(none) = 0
  BY EmptySeq
<1>6. PICK head : head = none \o <<start>> \o s
  OBVIOUS
<1>7. /\ head \in Seq(STRING) /\ Len(head) = Len(none) + 1 + Len(s)
      /\ head[Len(none) + 1] = start
      /\ \A i1 \in 1 .. Len(s) : head[Len(none) + 1 + i1] = s[i1]
  <2>1. IsJoined(head, none, start, s)
    BY <1>6, Joined
  <2>2. QED
    BY <2>1 DEF IsJoined
<1>8. PICK h \in Seq(STRING) : h = head
  BY <1>7
<1>9. PICK whole : whole = h \o <<end>> \o none
  OBVIOUS
<1>10. /\ whole \in Seq(STRING) /\ whole # <<>> /\ Len(whole) = Len(h) + 1 + Len(none)
       /\ \A i1 \in 1 .. Len(h) : whole[i1] = h[i1]
       /\ whole[Len(h) + 1] = end
  <2>1. IsJoined(whole, h, end, none)
    BY <1>9, Joined
  <2>2. QED
    BY <2>1 DEF IsJoined
<1>11. whole = line
  <2>1. PICK first \in Seq(STRING), last \in Seq(STRING) : first = <<start>> /\ last = <<end>>
    BY OneCharacter
  <2>2. none \o first = first
    BY <1>5, ConcatEmptySeq
  <2>3. head = first \o s
    BY <1>6, <2>1, <2>2
  <2>4. PICK w \in Seq(STRING) : w = h \o last
    BY ConcatProperties
  <2>5. w \o none = w
    BY <1>5, ConcatEmptySeq
  <2>6. whole = w
    BY <1>9, <2>1, <2>4, <2>5
  <2>7. line = first \o s \o last
    BY <1>1, <1>2, <1>4, <2>1 DEF I!FormatSection
  <2>8. QED
    BY <1>8, <2>3, <2>4, <2>6, <2>7
<1>12. /\ line \in Seq(STRING) /\ line # <<>> /\ Len(line) = Len(s) + 2
       /\ line[1] = start /\ line[Len(line)] = end
       /\ \A k \in 1 .. Len(s) : line[k + 1] = s[k]
  <2>1. Len(h) = Len(s) + 1 /\ Len(s) \in Nat
    BY <1>3, <1>4, <1>5, <1>7, <1>8
  <2>2. Len(line) = Len(s) + 2 /\ Len(line) = Len(h) + 1
    BY <1>5, <1>10, <1>11, <2>1
  <2>3. line[1] = start /\ line[Len(line)] = end
    <3>1. 1 \in 1 .. Len(h) /\ Len(none) + 1 = 1
      BY <1>5, <2>1
    <3>2. line[1] = h[1] /\ h[1] = start
      BY <1>7, <1>8, <1>10, <1>11, <3>1
    <3>3. QED
      BY <1>10, <1>11, <2>2, <3>2
  <2>4. ASSUME NEW k \in 1 .. Len(s) PROVE line[k + 1] = s[k]
    <3>1. k + 1 \in 1 .. Len(h) /\ Len(none) + 1 + k = k + 1
      BY <1>5, <2>1
    <3>2. line[k + 1] = h[k + 1] /\ head[k + 1] = s[k]
      BY <1>7, <1>10, <1>11, <3>1
    <3>3. QED
      BY <1>8, <3>2
  <2>5. QED
    BY <1>10, <1>11, <2>2, <2>3, <2>4
<1>13. I!Trim(line) = line
  <2>1. Trimmed(line)
    BY <1>1, <1>12 DEF Trimmed
  <2>2. PICK t \in Seq(STRING) : t = line
    BY <1>12
  <2>3. QED
    BY <2>1, <2>2, TrimmedKept
<1>14. Head(line) = start /\ I!Last(line) = end
  <2>1. PICK t \in Seq(STRING) : t = line /\ t # <<>>
    BY <1>12
  <2>2. Head(t) = t[1]
    OBVIOUS
  <2>3. QED
    BY <1>12, <2>1, <2>2 DEF I!Last
<1>15. CASE start \in mContext.commentsStart
  <2>1. I!FindToken(line) = "COMMENT"
    BY <1>14, <1>15 DEF I!FindToken, I!IsComment
  <2>2. section = <<>> /\ before = <<>>
    BY <1>1, <1>15 DEF SectionKept
  <2>3. QED
    BY <1>2, <1>13, <2>1, <2>2 DEF I!Deserialized
<1>16. CASE start \notin mContext.commentsStart
  <2>1. I!FindToken(line) = "SECTION"
    BY <1>1, <1>13, <1>14, <1>16 DEF I!FindToken, I!IsComment, I!IsSection
  <2>2. PICK m, n \in Int : m = 2 /\ n = Len(line) - 1 /\ n = Len(s) + 1
    BY <1>3, <1>4, <1>12
  <2>3. \A k \in m .. n : line[k] \in STRING
    BY <1>3, <1>4, <1>12, <2>2, ElementOfSeq
  <2>4. PICK inner : inner = SubSeq(line, m, n)
    OBVIOUS
  <2>5. /\ inner \in Seq(STRING) /\ Len(inner) = IF m <= n THEN n - m + 1 ELSE 0
        /\ \A k \in 1 .. n - m + 1 : inner[k] = line[m + k - 1]
    BY <2>3, <2>4, SubSeqProperties
  <2>6. Len(inner) = Len(s)
    BY <1>3, <1>4, <2>2, <2>5
  <2>7. \A k \in 1 .. Len(s) : inner[k] = s[k]
    <3>1. ASSUME NEW k \in 1 .. Len(s) PROVE k \in 1 .. n - m + 1 /\ m + k - 1 = k + 1
      BY <1>3, <1>4, <2>2
    <3>2. QED
      BY <1>12, <2>5, <3>1
  <2>8. inner = s
    BY <2>5, <2>6, <2>7, SeqEqual
  <2>9. I!ParseSection(line) = section
    BY <1>3, <1>4, <1>13, <2>2, <2>4, <2>8 DEF I!ParseSection
  <2>10. QED
    BY <1>2, <1>12, <1>13, <2>1, <2>9 DEF I!Deserialized
<1>17. QED
  BY <1>15, <1>16

(* The line of a pair is read as that pair, in whatever section.           *)
LEMMA PairReread ==
  ASSUME mContext \in Contexts, NEW key \in Seq(STRING), NEW value \in Seq(STRING),
         PairKept(key, value), NEW section, NEW pairs
  PROVE  I!Deserialized([section |-> section, pairs |-> pairs], I!FormatPair(key, value))
           = [section |-> section, pairs |-> I!Stored(pairs, <<section, key>>, value)]
<1>1. PICK separator \in STRING : separator = mContext.pairSeparator
  BY FormatsAssumption
<1>2. PICK line : line = key \o <<separator>> \o value
  OBVIOUS
<1>3. line = I!FormatPair(key, value)
  BY <1>1, <1>2 DEF I!FormatPair
<1>4. /\ line \in Seq(STRING) /\ line # <<>> /\ Len(line) = Len(key) + 1 + Len(value)
      /\ \A i1 \in 1 .. Len(key) : line[i1] = key[i1]
      /\ line[Len(key) + 1] = separator
      /\ \A i1 \in 1 .. Len(value) : line[Len(key) + 1 + i1] = value[i1]
  <2>1. IsJoined(line, key, separator, value)
    BY <1>2, Joined
  <2>2. QED
    BY <2>1 DEF IsJoined
<1>5. /\ Len(key) \in Nat /\ Len(value) \in Nat /\ DOMAIN key = 1 .. Len(key)
      /\ Len(line) \in Nat /\ DOMAIN line = 1 .. Len(line)
  BY <1>4, LenProperties
<1>6. /\ I!Trim(key) = key /\ I!Trim(value) = value /\ I!Separators(key) = {}
      /\ I!Trim(line) = line /\ ~I!IsComment(line) /\ ~I!IsSection(line)
  BY <1>3 DEF PairKept
<1>7. PICK pos \in 1 .. Len(line) : pos = Len(key) + 1
  BY <1>4, <1>5
<1>8. I!Separators(line) \in SUBSET Nat /\ pos \in I!Separators(line)
  BY <1>1, <1>4, <1>5, <1>7 DEF I!Separators
<1>9. \A k \in I!Separators(line) : pos <= k
  <2>1. ASSUME NEW k \in I!Separators(line), ~(pos <= k) PROVE FALSE
    <3>1. k \in 1 .. Len(line) /\ line[k] = separator
      BY <1>1, <1>5, <2>1 DEF I!Separators
    <3>2. k \in 1 .. Len(key)
      BY <1>5, <1>7, <2>1, <3>1
    <3>3. k \in I!Separators(key)
      BY <1>1, <1>4, <1>5, <3>1, <3>2 DEF I!Separators
    <3>4. QED
      BY <1>6, <3>3
  <2>2. QED
    BY <2>1
<1>10. I!Min(I!Separators(line)) = pos
  <2>1. PICK T \in SUBSET Nat : T = I!Separators(line)
    BY <1>8
  <2>2. I!Min(T) \in T /\ \A y \in T : I!Min(T) <= y
    BY <1>8, <2>1, SmallestOf
  <2>3. QED
    BY <1>7, <1>8, <1>9, <2>1, <2>2
<1>11. I!FindToken(line) = "PAIR"
  BY <1>6, <1>8 DEF I!FindToken, I!IsPair
<1>12. SubSeq(line, 1, pos - 1) = key
  <2>1. \A k \in 1 .. pos - 1 : line[k] \in STRING
    BY <1>4, <1>5, <1>7, ElementOfSeq
  <2>2. PICK before : before = SubSeq(line, 1, pos - 1)
    OBVIOUS
  <2>3. /\ before \in Seq(STRING) /\ Len(before) = pos - 1
        /\ \A k \in 1 .. pos - 1 : before[k] = line[k]
    BY <1>5, <1>7, <2>1, <2>2, SubSeqProperties
  <2>4. Len(before) = Len(key) /\ \A k \in 1 .. Len(key) : before[k] = key[k]
    BY <1>4, <1>5, <1>7, <2>3
  <2>5. before = key
    BY <2>3, <2>4, SeqEqual
  <2>6. QED
    BY <2>2, <2>5
<1>13. SubSeq(line, pos + 1, Len(line)) = value
  <2>1. PICK m, n \in Int : m = pos + 1 /\ n = Len(line) /\ n = Len(key) + 1 + Len(value)
    BY <1>4, <1>5, <1>7
  <2>2. \A k \in m .. n : line[k] \in STRING
    BY <1>4, <1>5, <1>7, <2>1, ElementOfSeq
  <2>3. PICK after : after = SubSeq(line, m, n)
    OBVIOUS
  <2>4. /\ after \in Seq(STRING) /\ Len(after) = IF m <= n THEN n - m + 1 ELSE 0
        /\ \A k \in 1 .. n - m + 1 : after[k] = line[m + k - 1]
    BY <2>2, <2>3, SubSeqProperties
  <2>5. n - m + 1 = Len(value)
    BY <1>5, <1>7, <2>1
  <2>6. Len(after) = Len(value)
    BY <1>5, <2>1, <2>4, <2>5
  <2>7. \A k \in 1 .. Len(value) : after[k] = value[k]
    <3>1. ASSUME NEW k \in 1 .. Len(value) PROVE k \in 1 .. n - m + 1 /\ m + k - 1 = Len(key) + 1 + k
      BY <1>5, <1>7, <2>1, <2>5
    <3>2. QED
      BY <1>4, <2>4, <3>1
  <2>8. after = value
    BY <2>4, <2>6, <2>7, SeqEqual
  <2>9. QED
    BY <2>1, <2>3, <2>8
<1>14. I!ParsePair(line) = <<key, value>>
  BY <1>6, <1>10, <1>12, <1>13 DEF I!ParsePair
<1>15. PICK parsed : parsed = [section |-> section, pairs |-> pairs]
  OBVIOUS
<1>16. I!Deserialized(parsed, line) = [parsed EXCEPT !.pairs = I!Stored(@, <<parsed.section, key>>, value)]
  BY <1>4, <1>6, <1>11, <1>14 DEF I!Deserialized
<1>17. QED
  BY <1>3, <1>15, <1>16

-----------------------------------------------------------------------------
(* What is read is kept, whole files in any number of calls.               *)
PairsKept(pairs) ==
  /\ pairs = [k \in DOMAIN pairs |-> pairs[k]] /\ I!PairsFit(pairs)
  /\ \A k \in DOMAIN pairs : SectionKept(k[1]) /\ PairKept(k[2], pairs[k])

LEMMA NothingKept == SectionKept(<<>>) /\ PairsKept(<<>>)
<1>1. PICK none \in Seq(STRING) : none = <<>>
  BY EmptySeq
<1>2. Trimmed(none)
  BY <1>1 DEF Trimmed
<1>3. I!Trim(none) = none
  BY <1>2, TrimmedKept
<1>4. DOMAIN <<>> = {} /\ <<>> = [k \in {} |-> <<>>[k]]
  OBVIOUS
<1>5. QED
  BY <1>1, <1>3, <1>4 DEF SectionKept, PairsKept, I!PairsFit

LEMMA DeserializedKept ==
  ASSUME mContext \in Contexts, NEW section, SectionKept(section), NEW pairs, PairsKept(pairs),
         NEW rawLine \in Seq(STRING),
         NEW parsed, parsed = I!Deserialized([section |-> section, pairs |-> pairs], rawLine)
  PROVE  /\ SectionKept(parsed.section) /\ PairsKept(parsed.pairs)
         /\ DOMAIN pairs \subseteq DOMAIN parsed.pairs
<1>1. PICK line : line = I!Trim(rawLine)
  OBVIOUS
<1>2. line \in Seq(STRING) /\ Trimmed(line)
  BY <1>1, TrimLeaves
<1>3. PICK s \in Seq(STRING) : s = line /\ Trimmed(s)
  BY <1>2
<1>4. PICK token : token = IF line = <<>> THEN "NONE" ELSE I!FindToken(line)
  OBVIOUS
<1>5. CASE token = "SECTION"
  <2>1. parsed = [section |-> I!ParseSection(s), pairs |-> pairs]
    BY <1>1, <1>3, <1>4, <1>5 DEF I!Deserialized
  <2>2. s # <<>> /\ I!IsSection(s) /\ ~I!IsComment(s)
    BY <1>3, <1>4, <1>5 DEF I!FindToken
  <2>3. SectionKept(I!ParseSection(s))
    BY <1>3, <2>2, ParsedSectionKept
  <2>4. QED
    BY <2>1, <2>3
<1>6. CASE token = "PAIR"
  <2>1. s # <<>> /\ I!IsPair(s) /\ ~I!IsComment(s) /\ ~I!IsSection(s)
    BY <1>3, <1>4, <1>6 DEF I!FindToken
  <2>2. PICK key \in Seq(STRING), value \in Seq(STRING) : I!ParsePair(s) = <<key, value>>
    BY <2>1, PairType
  <2>3. PairKept(key, value)
    <3>1. PICK pair : pair = I!ParsePair(s)
      OBVIOUS
    <3>2. PairKept(pair[1], pair[2])
      BY <1>3, <2>1, <3>1, ParsedPairKept
    <3>3. QED
      BY <2>2, <3>1, <3>2
  <2>4. PICK stored : stored = I!Stored(pairs, <<section, key>>, value)
    OBVIOUS
  <2>5. parsed = [section |-> section, pairs |-> stored]
    BY <1>1, <1>3, <1>4, <1>6, <2>2, <2>4 DEF I!Deserialized
  <2>6. PICK new : new = <<section, key>>
    OBVIOUS
  <2>7. /\ stored = [k \in DOMAIN pairs \cup {new} |-> IF k = new THEN value ELSE pairs[k]]
        /\ DOMAIN stored = DOMAIN pairs \cup {new}
    BY <2>4, <2>6 DEF I!Stored
  <2>8. stored = [k \in DOMAIN stored |-> stored[k]]
    BY <2>7
  <2>9. /\ section \in Seq(STRING) /\ new \in Seq(STRING) \X Seq(STRING)
        /\ new[1] = section /\ new[2] = key
    BY <2>6 DEF SectionKept
  <2>10. ASSUME NEW k \in DOMAIN stored
         PROVE  /\ k \in Seq(STRING) \X Seq(STRING) /\ stored[k] \in Seq(STRING)
                /\ SectionKept(k[1]) /\ PairKept(k[2], stored[k])
    <3>1. CASE k = new
      BY <2>3, <2>6, <2>7, <2>9, <3>1
    <3>2. CASE k # new
      <4>1. k \in DOMAIN pairs /\ stored[k] = pairs[k]
        BY <2>7, <2>10, <3>2
      <4>2. QED
        BY <4>1 DEF PairsKept, I!PairsFit
    <3>3. QED
      BY <3>1, <3>2
  <2>11. PairsKept(stored)
    BY <2>8, <2>10 DEF PairsKept, I!PairsFit
  <2>12. QED
    BY <2>5, <2>7, <2>11
<1>7. CASE token \notin {"SECTION", "PAIR"}
  <2>1. parsed = [section |-> section, pairs |-> pairs]
    BY <1>1, <1>4, <1>7 DEF I!Deserialized
  <2>2. QED
    BY <2>1
<1>8. QED
  BY <1>5, <1>6, <1>7

-----------------------------------------------------------------------------
IniTypes ==
  /\ mContext \in Contexts /\ linesRead \in 0 .. MaxLines /\ got \in BOOLEAN
  /\ serialize \in {"not called", "writes", "crashed"}
  /\ reread = [section |-> reread.section, pairs |-> reread.pairs]
  /\ reread.section \in Seq(STRING) /\ I!PairsFit(reread.pairs)
  /\ SectionKept(sectionLast) /\ PairsKept(mSections)

(* What is left to write was read, in sections that are not begun.         *)
LeftInv ==
  /\ sectionsLeft \subseteq {k[1] : k \in DOMAIN mSections} /\ pairsLeft \subseteq DOMAIN mSections
  /\ \A k \in pairsLeft : k[1] \notin sectionsLeft
  /\ serialize # "writes" => sectionsLeft = {} /\ pairsLeft = {} /\ reread = I!NothingRead

(* While Serialize writes, what is read of its lines is what is no longer  *)
(* left, and the section it is at is the one that is read.                 *)
RereadInv ==
  serialize = "writes" /\ I!BracketsKept =>
    /\ reread.pairs = [k \in {r \in DOMAIN mSections : r[1] \notin sectionsLeft /\ r \notin pairsLeft}
                         |-> mSections[k]]
    /\ \A k \in pairsLeft : k[1] = reread.section
    /\ SectionKept(reread.section)

(* A Get that returned found something, which is never lost.               *)
GotInv == got => serialize # "crashed" /\ DOMAIN mSections # {}

IniInv == IniTypes /\ LeftInv /\ RereadInv /\ GotInv

(* All of this is about mContext too, which never changes.                 *)
LEMMA SectionStaysKept ==
  ASSUME mContext' = mContext, NEW section, SectionKept(section)
  PROVE  SectionKept(section)'
BY DEF SectionKept, I!Trim

LEMMA PairStaysKept ==
  ASSUME mContext' = mContext, NEW key, NEW value, PairKept(key, value)
  PROVE  PairKept(key, value)'
BY DEF I!Trim, PairKept, I!FormatPair, I!Separators, I!IsComment, I!IsSection

LEMMA PairsStayKept ==
  ASSUME mContext' = mContext, NEW pairs, PairsKept(pairs)
  PROVE  PairsKept(pairs)'
BY SectionStaysKept, PairStaysKept DEF PairsKept, I!PairsFit

LEMMA InitIniInv == I!Init => IniInv
<1> SUFFICES ASSUME I!Init PROVE IniInv
  OBVIOUS
<1>1. SectionKept(<<>>) /\ PairsKept(<<>>)
  BY NothingKept
<1>2. <<>> \in Seq(STRING) /\ DOMAIN <<>> = {} /\ 0 \in 0 .. MaxLines
  BY FormatsAssumption
<1>3. QED
  BY <1>1, <1>2 DEF I!Init, I!NothingRead, IniInv, IniTypes, LeftInv, RereadInv, GotInv, I!PairsFit

LEMMA ReadLineStep ==
  ASSUME IniInv, NEW line \in Lines, I!ReadLine(line)
  PROVE  IniInv'
<1>1. PICK parsed : parsed = I!Deserialized([section |-> sectionLast, pairs |-> mSections], line)
  OBVIOUS
<1>2. /\ sectionLast' = parsed.section /\ mSections' = parsed.pairs
      /\ linesRead < MaxLines /\ linesRead' = linesRead + 1 /\ serialize = "not called"
      /\ UNCHANGED <<mContext, got, serialize, sectionsLeft, pairsLeft, reread>>
  BY <1>1 DEF I!ReadLine
<1>3. /\ SectionKept(parsed.section) /\ PairsKept(parsed.pairs)
      /\ DOMAIN mSections \subseteq DOMAIN parsed.pairs
  <2>1. line \in Seq(STRING) /\ SectionKept(sectionLast) /\ PairsKept(mSections) /\ mContext \in Contexts
    BY FormatsAssumption DEF IniInv, IniTypes
  <2>2. PICK section, pairs : section = sectionLast /\ pairs = mSections
    OBVIOUS
  <2>3. QED
    BY <1>1, <2>1, <2>2, DeserializedKept
<1>4. SectionKept(sectionLast)' /\ PairsKept(mSections)'
  BY <1>2, <1>3, SectionStaysKept, PairsStayKept
<1>5. linesRead' \in 0 .. MaxLines
  <2>1. MaxLines \in Nat
    BY FormatsAssumption
  <2>2. linesRead \in 0 .. MaxLines
    BY DEF IniInv, IniTypes
  <2>3. linesRead < MaxLines /\ linesRead' = linesRead + 1
    BY <1>2
  <2>4. QED
    BY <2>1, <2>2, <2>3
<1>6. IniTypes'
  BY <1>2, <1>4, <1>5 DEF IniInv, IniTypes, I!PairsFit
<1>7. LeftInv' /\ RereadInv' /\ GotInv'
  BY <1>2, <1>3 DEF IniInv, LeftInv, RereadInv, GotInv, I!NothingRead
<1>8. QED
  BY <1>6, <1>7 DEF IniInv

(* What is kept, of a step that reads nothing.                             *)
LEMMA NothingReadStep ==
  ASSUME IniTypes, UNCHANGED <<mContext, mSections, linesRead>>, sectionLast' \in {sectionLast, <<>>}
  PROVE  /\ mContext' \in Contexts /\ linesRead' \in 0 .. MaxLines
         /\ SectionKept(sectionLast)' /\ PairsKept(mSections)'
<1>1. SectionKept(sectionLast) /\ PairsKept(mSections) /\ SectionKept(<<>>)
  BY NothingKept DEF IniTypes
<1>2. PICK section, pairs : section = sectionLast' /\ pairs = mSections' /\ SectionKept(section) /\ PairsKept(pairs)
  BY <1>1
<1>3. QED
  BY <1>2, SectionStaysKept, PairsStayKept DEF IniTypes

LEMMA CallStep ==
  ASSUME IniInv, I!EndOfFile \/ I!Serialize \/ I!Serialized \/ \E asked \in Asked : I!Get(asked)
  PROVE  IniInv'
<1>1. IniTypes /\ LeftInv /\ GotInv /\ RereadInv
  BY DEF IniInv
<1>2. /\ UNCHANGED <<mContext, mSections, linesRead>> /\ sectionLast' \in {sectionLast, <<>>}
  BY DEF I!EndOfFile, I!Serialize, I!Serialized, I!Get
<1>3. /\ mContext' \in Contexts /\ linesRead' \in 0 .. MaxLines
      /\ SectionKept(sectionLast)' /\ PairsKept(mSections)'
  BY <1>1, <1>2, NothingReadStep
<1>4. SectionKept(<<>>) /\ DOMAIN <<>> = {} /\ <<>> \in Seq(STRING)
  BY NothingKept DEF SectionKept
<1>5. CASE I!EndOfFile
  <2>1. UNCHANGED <<got, serialize, sectionsLeft, pairsLeft, reread, mSections, mContext>>
    BY <1>5 DEF I!EndOfFile
  <2>2. IniTypes'
    BY <1>1, <1>3, <2>1 DEF IniTypes, I!PairsFit
  <2>3. LeftInv' /\ GotInv'
    BY <1>1, <2>1 DEF LeftInv, GotInv, I!NothingRead
  <2>4. RereadInv'
    <3>1. SectionKept(reread.section) => SectionKept(reread.section)'
      BY <2>1, SectionStaysKept
    <3>2. QED
      BY <1>1, <2>1, <3>1 DEF RereadInv, I!BracketsKept
  <2>5. QED
    BY <2>2, <2>3, <2>4 DEF IniInv
<1>6. CASE I!Serialize
  <2>1. /\ serialize = "not called" /\ sectionsLeft' = {k[1] : k \in DOMAIN mSections}
        /\ IF DOMAIN mSections = {} THEN serialize' \in {"crashed", "not called"} ELSE serialize' = "writes"
        /\ UNCHANGED <<got, pairsLeft, reread, mSections, mContext>>
    BY <1>6 DEF I!Serialize, I!Called
  <2>2. reread = I!NothingRead /\ pairsLeft = {}
    BY <1>1, <2>1 DEF LeftInv
  <2>3. IniTypes'
    BY <1>1, <1>3, <2>1 DEF IniTypes, I!PairsFit
  <2>4. LeftInv' /\ GotInv'
    BY <1>1, <2>1, <2>2 DEF LeftInv, GotInv, I!NothingRead
  <2>5. RereadInv'
    <3>1. SectionKept(reread.section)'
      BY <1>4, <2>1, <2>2, SectionStaysKept DEF I!NothingRead
    <3>2. {k \in DOMAIN mSections : k[1] \notin sectionsLeft /\ k \notin pairsLeft}' = {}
      BY <2>1
    <3>3. reread'.pairs = <<>>
      BY <2>1, <2>2 DEF I!NothingRead
    <3>4. <<>> = [k \in {} |-> mSections'[k]]
      OBVIOUS
    <3>5. QED
      BY <2>1, <2>2, <3>1, <3>2, <3>3, <3>4 DEF RereadInv
  <2>6. QED
    BY <2>3, <2>4, <2>5 DEF IniInv
<1>7. CASE I!Serialized
  <2>1. /\ sectionsLeft = {} /\ pairsLeft = {} /\ serialize' = "not called" /\ reread' = I!NothingRead
        /\ UNCHANGED <<got, sectionsLeft, pairsLeft, mSections, mContext>>
    BY <1>7 DEF I!Serialized, I!Written
  <2>2. /\ reread' = [section |-> reread'.section, pairs |-> reread'.pairs]
        /\ reread'.section = <<>> /\ reread'.pairs = <<>>
    BY <2>1 DEF I!NothingRead
  <2>3. IniTypes'
    BY <1>1, <1>3, <1>4, <2>1, <2>2 DEF IniTypes, I!PairsFit
  <2>4. LeftInv' /\ GotInv' /\ RereadInv'
    BY <1>1, <2>1, <2>2 DEF LeftInv, GotInv, RereadInv, I!NothingRead
  <2>5. QED
    BY <2>3, <2>4 DEF IniInv
<1>8. CASE \E asked \in Asked : I!Get(asked)
  <2>1. /\ serialize = "not called" /\ got' = TRUE /\ DOMAIN mSections # {}
        /\ UNCHANGED <<serialize, sectionsLeft, pairsLeft, reread, mSections, mContext>>
    BY <1>8 DEF I!Get, I!Called
  <2>2. IniTypes'
    BY <1>1, <1>3, <2>1 DEF IniTypes, I!PairsFit
  <2>3. LeftInv' /\ GotInv' /\ RereadInv'
    BY <1>1, <2>1 DEF LeftInv, GotInv, RereadInv, I!NothingRead
  <2>4. QED
    BY <2>2, <2>3 DEF IniInv
<1>9. QED
  BY <1>5, <1>6, <1>7, <1>8

LEMMA WriteSectionStep ==
  ASSUME IniInv, NEW section \in sectionsLeft, I!WriteSection(section)
  PROVE  IniInv'
<1>1. IniTypes /\ LeftInv /\ GotInv /\ RereadInv
  BY DEF IniInv
<1>2. /\ serialize = "writes" /\ pairsLeft = {}
      /\ sectionsLeft' = sectionsLeft \ {section}
      /\ pairsLeft' = {k \in DOMAIN mSections : k[1] = section}
      /\ UNCHANGED <<mContext, sectionLast, mSections, linesRead, got, serialize>>
  BY DEF I!WriteSection
<1>3. PICK before, pairs : before = reread.section /\ pairs = reread.pairs
  OBVIOUS
<1>4. before \in Seq(STRING) /\ I!PairsFit(pairs) /\ reread = [section |-> before, pairs |-> pairs]
  BY <1>1, <1>3 DEF IniTypes
<1>5. reread' = I!Deserialized([section |-> before, pairs |-> pairs], I!FormatSection(section))
  BY <1>4 DEF I!WriteSection
<1>6. SectionKept(section) /\ I!FormatSection(section) \in Seq(STRING)
  <2>1. PICK k \in DOMAIN mSections : k[1] = section
    BY <1>1 DEF LeftInv
  <2>2. SectionKept(section)
    BY <1>1, <2>1 DEF IniTypes, PairsKept
  <2>3. PICK start \in STRING, end \in STRING : start = mContext.sectionStart /\ end = mContext.sectionEnd
    BY <1>1, FormatsAssumption DEF IniTypes
  <2>4. PICK first \in Seq(STRING), last \in Seq(STRING), s \in Seq(STRING) :
          first = <<start>> /\ last = <<end>> /\ s = section
    BY <2>2, OneCharacter DEF SectionKept
  <2>5. PICK head \in Seq(STRING) : head = first \o s
    BY ConcatProperties
  <2>6. head \o last \in Seq(STRING)
    BY ConcatProperties
  <2>7. QED
    BY <2>2, <2>3, <2>4, <2>5, <2>6 DEF I!FormatSection
<1>7. /\ reread' = [section |-> reread'.section, pairs |-> reread'.pairs]
      /\ reread'.section \in Seq(STRING) /\ I!PairsFit(reread'.pairs)
  <2>1. PICK line, parsed :
          /\ line \in Seq(STRING) /\ parsed = reread'
          /\ parsed = I!Deserialized([section |-> before, pairs |-> pairs], line)
    BY <1>5, <1>6
  <2>2. /\ parsed = [section |-> parsed.section, pairs |-> parsed.pairs]
        /\ parsed.section \in Seq(STRING) /\ I!PairsFit(parsed.pairs)
    BY <1>4, <2>1, DeserializedType
  <2>3. QED
    BY <2>1, <2>2
<1>8. IniTypes'
  <2>1. /\ mContext' \in Contexts /\ linesRead' \in 0 .. MaxLines
        /\ SectionKept(sectionLast)' /\ PairsKept(mSections)'
    BY <1>1, <1>2, NothingReadStep
  <2>2. QED
    BY <1>1, <1>2, <1>7, <2>1 DEF IniTypes, I!PairsFit
<1>9. LeftInv' /\ GotInv'
  BY <1>1, <1>2 DEF LeftInv, GotInv
<1>10. RereadInv'
  <2> SUFFICES ASSUME I!BracketsKept'
               PROVE  /\ reread'.pairs = [k \in {r \in DOMAIN mSections : r[1] \notin sectionsLeft /\ r \notin pairsLeft}'
                                             |-> mSections'[k]]
                      /\ \A k \in pairsLeft' : k[1] = reread'.section
                      /\ SectionKept(reread.section)'
    BY DEF RereadInv
  <2>1. I!BracketsKept
    BY <1>2 DEF I!BracketsKept
  <2>2. SectionKept(before) /\ mContext \in Contexts
    BY <1>1, <1>2, <1>3, <2>1 DEF RereadInv, IniTypes
  <2>3. reread' = [section |-> section, pairs |-> pairs]
    BY <1>5, <1>6, <2>1, <2>2, SectionReread
  <2>4. {k \in DOMAIN mSections : k[1] \notin sectionsLeft /\ k \notin pairsLeft}'
          = {k \in DOMAIN mSections : k[1] \notin sectionsLeft /\ k \notin pairsLeft}
    BY <1>2
  <2>5. pairs = [k \in {r \in DOMAIN mSections : r[1] \notin sectionsLeft /\ r \notin pairsLeft} |-> mSections[k]]
    BY <1>1, <1>2, <1>3, <2>1 DEF RereadInv
  <2>6. SectionKept(reread.section)'
    BY <1>2, <1>6, <2>3, SectionStaysKept
  <2>7. QED
    BY <1>2, <2>3, <2>4, <2>5, <2>6
<1>11. QED
  BY <1>8, <1>9, <1>10 DEF IniInv

LEMMA WritePairStep ==
  ASSUME IniInv, NEW k \in pairsLeft, I!WritePair(k)
  PROVE  IniInv'
<1>1. IniTypes /\ LeftInv /\ GotInv /\ RereadInv
  BY DEF IniInv
<1>2. /\ serialize = "writes" /\ pairsLeft' = pairsLeft \ {k}
      /\ UNCHANGED <<mContext, sectionLast, mSections, linesRead, got, serialize, sectionsLeft>>
  BY <1>1 DEF I!WritePair, LeftInv
<1>3. PICK section, pairs : section = reread.section /\ pairs = reread.pairs
  OBVIOUS
<1>4. section \in Seq(STRING) /\ I!PairsFit(pairs) /\ reread = [section |-> section, pairs |-> pairs]
  BY <1>1, <1>3 DEF IniTypes
<1>5. PICK key \in Seq(STRING), value \in Seq(STRING) :
        k \in DOMAIN mSections /\ k = <<k[1], key>> /\ key = k[2] /\ value = mSections[k] /\ PairKept(key, value)
  <2>1. k \in DOMAIN mSections
    BY <1>1 DEF LeftInv
  <2>2. /\ k \in Seq(STRING) \X Seq(STRING) /\ mSections[k] \in Seq(STRING)
        /\ PairKept(k[2], mSections[k])
    BY <1>1, <2>1 DEF IniTypes, PairsKept, I!PairsFit
  <2>3. k[2] \in Seq(STRING) /\ k = <<k[1], k[2]>>
    BY <2>2
  <2>4. QED
    BY <2>1, <2>2, <2>3
<1>6. reread' = I!Deserialized([section |-> section, pairs |-> pairs], I!FormatPair(key, value))
  BY <1>4, <1>5, EmptyLine DEF I!WritePair
<1>7. reread' = [section |-> section, pairs |-> I!Stored(pairs, <<section, key>>, value)]
  <2>1. mContext \in Contexts
    BY <1>1 DEF IniTypes
  <2>2. QED
    BY <1>5, <1>6, <2>1, PairReread
<1>8. IniTypes'
  <2>1. /\ mContext' \in Contexts /\ linesRead' \in 0 .. MaxLines
        /\ SectionKept(sectionLast)' /\ PairsKept(mSections)'
    BY <1>1, <1>2, NothingReadStep
  <2>2. I!PairsFit(I!Stored(pairs, <<section, key>>, value))
    BY <1>4 DEF I!PairsFit, I!Stored
  <2>3. QED
    BY <1>1, <1>2, <1>4, <1>7, <2>1, <2>2 DEF IniTypes, I!PairsFit
<1>9. LeftInv' /\ GotInv'
  BY <1>1, <1>2 DEF LeftInv, GotInv
<1>10. RereadInv'
  <2> SUFFICES ASSUME I!BracketsKept'
               PROVE  /\ reread'.pairs = [j1 \in {j1 \in DOMAIN mSections : j1[1] \notin sectionsLeft /\ j1 \notin pairsLeft}'
                                             |-> mSections'[j1]]
                      /\ \A j1 \in pairsLeft' : j1[1] = reread'.section
                      /\ SectionKept(reread.section)'
    BY DEF RereadInv
  <2>1. I!BracketsKept
    BY <1>2 DEF I!BracketsKept
  <2>2. PICK Done : Done = {j1 \in DOMAIN mSections : j1[1] \notin sectionsLeft /\ j1 \notin pairsLeft}
    OBVIOUS
  <2>3. /\ pairs = [j1 \in Done |-> mSections[j1]] /\ SectionKept(section)
        /\ \A j1 \in pairsLeft : j1[1] = section
    BY <1>1, <1>2, <1>3, <2>1, <2>2 DEF RereadInv
  <2>4. {j1 \in DOMAIN mSections : j1[1] \notin sectionsLeft /\ j1 \notin pairsLeft}' = Done \cup {k}
    BY <1>1, <1>2, <1>5, <2>2 DEF LeftInv
  <2>5. k = <<section, key>>
    BY <1>5, <2>3
  <2>6. I!Stored(pairs, k, value) = [j1 \in Done \cup {k} |-> mSections[j1]]
    BY <1>5, <2>3 DEF I!Stored
  <2>7. SectionKept(reread.section)'
    BY <1>2, <1>7, <2>3, SectionStaysKept
  <2>8. QED
    BY <1>2, <1>7, <2>3, <2>4, <2>5, <2>6, <2>7
<1>11. QED
  BY <1>8, <1>9, <1>10 DEF IniInv

LEMMA IniInvHolds == I!Spec => []IniInv
<1>1. IniInv /\ UNCHANGED I!vars => IniInv'
  <2> SUFFICES ASSUME IniInv, UNCHANGED I!vars PROVE IniInv'
    OBVIOUS
  <2>1. UNCHANGED <<mContext, sectionLast, mSections, linesRead, got, serialize, sectionsLeft, pairsLeft, reread>>
    BY DEF I!vars
  <2>2. SectionKept(sectionLast)' /\ PairsKept(mSections)'
    BY <2>1, NothingReadStep DEF IniInv
  <2>3. SectionKept(reread.section) => SectionKept(reread.section)'
    BY <2>1, SectionStaysKept
  <2>4. IniTypes' /\ LeftInv' /\ GotInv'
    BY <2>1, <2>2 DEF IniInv, IniTypes, LeftInv, GotInv, I!PairsFit, I!NothingRead
  <2>5. RereadInv'
    BY <2>1, <2>3 DEF IniInv, RereadInv, I!BracketsKept
  <2>6. QED
    BY <2>4, <2>5 DEF IniInv
<1>2. IniInv /\ [I!Next]_(I!vars) => IniInv'
  BY <1>1, ReadLineStep, CallStep, WriteSectionStep, WritePairStep DEF I!Next
<1>3. QED
  BY <1>2, InitIniInv, PTL DEF I!Spec

(* IniParser: whatever the files hold, whatever character the context      *)
(* gives a meaning and in whatever order the sections and their pairs are  *)
(* written, another parser reads from them what this one has read, unless  *)
(* a bracket is one of the spaces.                                         *)
THEOREM IniRoundTripHolds == FormatsSpec => []IniRoundTrip
<1>1. IniInv => IniRoundTrip
  <2> SUFFICES ASSUME IniInv, I!BracketsKept, I!Written PROVE reread.pairs = mSections
    BY DEF IniRoundTrip, I!RoundTrip
  <2>1. serialize = "writes" /\ sectionsLeft = {} /\ pairsLeft = {}
    BY DEF I!Written
  <2>2. {k \in DOMAIN mSections : k[1] \notin sectionsLeft /\ k \notin pairsLeft} = DOMAIN mSections
    BY <2>1
  <2>3. reread.pairs = [k \in DOMAIN mSections |-> mSections[k]]
    BY <2>1, <2>2 DEF IniInv, RereadInv
  <2>4. QED
    BY <2>3 DEF IniInv, IniTypes, PairsKept
<1>2. QED
  BY <1>1, IniInvHolds, ConversionsAlone, PTL

(* IniParser: a program that has got a value from the parser, as main has, *)
(* may serialize it without going before the beginning of a map.           *)
THEOREM DefinedAfterGetHolds == FormatsSpec => []DefinedAfterGet
<1>1. IniInv => DefinedAfterGet
  BY DEF IniInv, GotInv, DefinedAfterGet, I!DefinedAfterGet
<1>2. QED
  BY <1>1, IniInvHolds, ConversionsAlone, PTL

LEMMA IniTypesFit == IniInv => I!TypeOK
BY DEF IniInv, IniTypes, LeftInv, PairsKept, SectionKept, I!TypeOK

-----------------------------------------------------------------------------
(* The variables of all four keep their types: no line of a file becomes   *)
(* anything but strings, no byte of Size leaves its buffer, and a block of *)
(* BinaryEncodings never grows past what the next character fills.         *)
THEOREM FormatsTypeOKHolds == FormatsSpec => []FormatsTypeOK
<1>1. IniInv => I!TypeOK
  BY IniTypesFit
<1>2. SizeInv => Z!TypeOK
  <2> SUFFICES ASSUME SizeInv PROVE Z!TypeOK
    OBVIOUS
  <2>1. decoded \in SUBSET SUBSET (0 .. 63)
    BY DEF SizeInv
  <2>2. Z!Cardinality(decoded) <= 1
    <3>1. Z!Cardinality(decoded) = Cardinality(decoded)
      BY DEF Z!Cardinality, Cardinality
    <3>2. QED
      BY <3>1, FS_EmptySet, FS_Singleton DEF SizeInv
  <2>3. QED
    BY <2>1, <2>2 DEF SizeInv, Z!TypeOK, Z!SIZE_MAX_IN_BYTES
<1>3. BinaryInv => B!TypeOK
  <2> SUFFICES ASSUME BinaryInv PROVE B!TypeOK
    OBVIOUS
  <2>1. BinaryTypes /\ B!CharBits \in Nat \ {0} /\ Len(block) \in Nat
    BY CharBitsType, LenProperties DEF BinaryInv, BinaryTypes
  <2>2. Len(block) <= IF pc = "encode" THEN blockSize + B!CharBits ELSE B!CharBits - 1
    BY <2>1 DEF BinaryInv, EncodeInv, DecodeInv
  <2>3. QED
    BY <2>1, <2>2 DEF BinaryTypes, B!TypeOK
<1>4. LoggerInv => L!TypeOK
  BY DEF LoggerInv, L!TypeOK
<1>5. L!Spec => []LoggerInv
  BY InitLoggerInv, LoggerStep, PTL DEF L!Spec
<1>6. IniInv /\ SizeInv /\ BinaryInv /\ LoggerInv => FormatsTypeOK
  BY <1>1, <1>2, <1>3, <1>4 DEF FormatsTypeOK
<1>7. QED
  BY <1>5, <1>6, IniInvHolds, SizeInvHolds, BinaryInvHolds, ConversionsAlone, PTL

=============================================================================
