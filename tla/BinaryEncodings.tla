---------------------------- MODULE BinaryEncodings ----------------------------
(***************************************************************************)
(* The functions of src/Binary To Encodings And Vice Versa.cpp, of which   *)
(* those for 8, 16 and 32 bits differ in the width of a character and, for *)
(* the latter two, in the order of its bytes.  A character is the sequence *)
(* of its bits, the highest first.  The functions move bits about whatever *)
(* their values, so each is named by its character and its place in it,    *)
(* and a character of a separator is the name None.  The indices are of    *)
(* any size: those of the code are right for texts of less than 2^32       *)
(* characters.                                                             *)
(***************************************************************************)
EXTENDS Integers, Sequences

CONSTANTS ByteWidth,      (* bits of a byte (8)                            *)
          CharBytes,      (* numbers of bytes a character can have         *)
          MaxLength,      (* bound: characters of a text                   *)
          BlockSizes,     (* block sizes, the same for both directions     *)
          SeparatorLengths,
          None            (* no bit                                        *)

VARIABLES text,           (* the text that is encoded                      *)
          charBytes, blockSize, separatorLength, littleEndian,
          read,           (* characters the encoder has come to            *)
          binaryText,     (* what it has written                           *)
          pc,             (* "encode", "decode" or "done"                  *)
          block,          (* the local block of either function            *)
          i, separatorBlockStartIndex,
          decoded         (* the text the decoder has made                 *)

inputs == <<text, charBytes, blockSize, separatorLength, littleEndian>>
vars   == <<inputs, read, binaryText, pc, block, i, separatorBlockStartIndex, decoded>>

Bits      == ((1 .. MaxLength) \X Nat) \cup {None}
CharBits  == charBytes * ByteWidth
Separator == [k \in 1 .. separatorLength |-> None]

TypeOK ==
  /\ {text, decoded} \subseteq Seq(Seq(Bits))
  /\ {binaryText, block} \subseteq Seq(Bits)
  /\ Len(block) <= IF pc = "encode" THEN blockSize + CharBits ELSE CharBits - 1
  /\ read \in 0 .. Len(text)
  /\ pc \in {"encode", "decode", "done"}
  /\ i \in Nat /\ separatorBlockStartIndex \in Nat

Init ==
  /\ charBytes \in CharBytes
  /\ \E length \in 0 .. MaxLength :
       text = [c \in 1 .. length |-> [k \in 1 .. CharBits |-> <<c, k>>]]
  /\ blockSize \in BlockSizes /\ separatorLength \in SeparatorLengths
  /\ littleEndian \in BOOLEAN /\ (charBytes = 1 => ~littleEndian)
  /\ read = 0 /\ binaryText = <<>> /\ decoded = <<>>
  /\ pc = "encode" /\ block = <<>> /\ i = 0 /\ separatorBlockStartIndex = 0

(* BSWAP16 and BSWAP32: the bytes of a character in the opposite order.    *)
SwappedPlace(k) == (charBytes - 1 - ((k - 1) \div ByteWidth)) * ByteWidth + ((k - 1) % ByteWidth) + 1
Swapped(char) ==
  IF littleEndian THEN [k \in 1 .. CharBits |-> char[SwappedPlace(k)]] ELSE char

(* Mutated: a block is written as soon as it is full.                      *)
IsFullEager == Len(block) >= blockSize

(* The condition of the inner loop: the block that is left is full, or     *)
(* shorter, but not empty.                                                 *)
IsFull == Len(block) > blockSize

EncodeChar ==
  /\ pc = "encode" /\ ~IsFull /\ read < Len(text)
  /\ block' = block \o Swapped(text[read + 1])
  /\ read' = read + 1
  /\ UNCHANGED <<inputs, binaryText, pc, i, separatorBlockStartIndex, decoded>>

EncodeBlock ==
  /\ pc = "encode" /\ IsFull
  /\ binaryText' = binaryText \o SubSeq(block, 1, blockSize) \o Separator
  /\ block' = SubSeq(block, blockSize + 1, Len(block))
  /\ UNCHANGED <<inputs, read, pc, i, separatorBlockStartIndex, decoded>>

(* The encoder writes what is left and the decoder begins.                 *)
Encoded ==
  /\ pc = "encode" /\ ~IsFull /\ read = Len(text)
  /\ pc' = "decode"
  /\ binaryText' = binaryText \o block
  /\ block' = <<>> /\ i' = 0 /\ separatorBlockStartIndex' = blockSize
  /\ UNCHANGED <<inputs, read, decoded>>

AtSeparator == i = separatorBlockStartIndex
Index       == IF AtSeparator THEN i + separatorLength ELSE i

(* Mutated: the next separator is expected where it would be without one.  *)
NextStartWithout ==
  IF AtSeparator THEN separatorBlockStartIndex + blockSize ELSE separatorBlockStartIndex

NextStart ==
  IF AtSeparator THEN separatorBlockStartIndex + blockSize + separatorLength
  ELSE separatorBlockStartIndex

(* Mutated: block is not cleared.                                          *)
LeftUncleared(bits) == bits

Left(bits) == IF Len(bits) = CharBits THEN <<>> ELSE bits

(* One round of the loop of the decoder.                                   *)
DecodeBit ==
  /\ pc = "decode" /\ i < Len(binaryText) /\ Index < Len(binaryText)
  /\ LET bits == Append(block, binaryText[Index + 1]) IN
       /\ block' = Left(bits)
       /\ decoded' = IF Len(bits) = CharBits THEN Append(decoded, Swapped(bits)) ELSE decoded
  /\ i' = Index + 1
  /\ separatorBlockStartIndex' = NextStart
  /\ UNCHANGED <<inputs, read, binaryText, pc>>

Decoded ==
  /\ pc = "decode" /\ i >= Len(binaryText)
  /\ pc' = "done"
  /\ UNCHANGED <<inputs, read, binaryText, block, i, separatorBlockStartIndex, decoded>>

Next == EncodeChar \/ EncodeBlock \/ Encoded \/ DecodeBit \/ Decoded
Spec == Init /\ [][Next]_vars

(* Where the bits of the whole text end up, said without a loop: the k-th  *)
(* of them has as many separators before it as there are full blocks.      *)
AllBits == [k \in 1 .. Len(text) * CharBits |->
              Swapped(text[((k - 1) \div CharBits) + 1])[((k - 1) % CharBits) + 1]]
PlaceOf(k) == k + ((k - 1) \div blockSize) * separatorLength

(* The encoder puts separators between blocks and nowhere else, also where *)
(* the size of a block has nothing to do with that of a character.         *)
SeparatedInBlocks == pc = "decode" /\ i = 0 =>
  /\ Len(binaryText) = IF AllBits = <<>> THEN 0 ELSE PlaceOf(Len(AllBits))
  /\ \A k \in DOMAIN AllBits : binaryText[PlaceOf(k)] = AllBits[k]

(* The decoder, told the same sizes, gives the text back, and the index it *)
(* has advanced past a separator stays within the string.                  *)
DecodesEncoded ==
  /\ pc = "decode" /\ i < Len(binaryText) => Index < Len(binaryText)
  /\ pc = "done" => decoded = text /\ block = <<>>

=============================================================================
