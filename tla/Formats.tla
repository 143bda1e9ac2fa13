-------------------------------- MODULE Formats --------------------------------
(***************************************************************************)
(* The conversions IniParser, Size, BinaryEncodings and Logger, which know *)
(* nothing of each other: part says which of them a behaviour is about,    *)
(* and the variables of the others never change.                           *)
(***************************************************************************)
EXTENDS Integers, Sequences

CONSTANTS Contexts, Lines, Asked, MaxLines, (* of IniParser                *)
          Numbers,                          (* of Size                     *)
          ByteWidth, CharBytes, MaxText,    (* of BinaryEncodings          *)
          BlockSizes, SeparatorLengths,
          Files, LineNumbers, Widths, Paddings, Throws, None (* of Logger  *)

ASSUME FormatsAssumption ==
  /\ Contexts \subseteq [sectionStart : STRING, sectionEnd : STRING, pairSeparator : STRING,
                         commentsStart : SUBSET STRING, spaces : SUBSET STRING]
  /\ Lines \subseteq Seq(STRING) /\ MaxLines \in Nat /\ Numbers \subseteq SUBSET (0 .. 63)
  /\ ByteWidth \in Nat \ {0} /\ CharBytes \subseteq Nat \ {0}
  /\ BlockSizes \subseteq Nat \ {0} /\ SeparatorLengths \subseteq Nat /\ MaxText \in Nat
  /\ Files \cup LineNumbers \cup Widths \cup Paddings \subseteq Nat
  /\ None \notin Nat \X Nat /\ {None, Throws} \cap Seq(Int) = {} /\ None # Throws

VARIABLES part,
          mContext, sectionLast, mSections, linesRead, got, serialize, sectionsLeft, pairsLeft, reread,
          signedChar, encoder, decoder, number, span, decoded, undefined,
          text, charBytes, blockSize, separatorLength, littleEndian, read, binaryText,
          pc, block, i, separatorBlockStartIndex, decodedText,
          aFile, aLine, aLengthMaxFileName, aLengthMaxLine, aPadding, clamped

I == INSTANCE IniParser
Z == INSTANCE Size
B == INSTANCE BinaryEncodings WITH MaxLength <- MaxText, decoded <- decodedText
L == INSTANCE Logger

ini    == <<mContext, sectionLast, mSections, linesRead, got, serialize, sectionsLeft, pairsLeft, reread>>
size   == <<signedChar, encoder, decoder, number, span, decoded, undefined>>
binary == <<text, charBytes, blockSize, separatorLength, littleEndian, read, binaryText,
            pc, block, i, separatorBlockStartIndex, decodedText>>
logger == <<aFile, aLine, aLengthMaxFileName, aLengthMaxLine, aPadding, clamped>>

(* The parts a behaviour is not about begin in one state only.             *)
Idle ==
  /\ part # "ini"    => mContext = CHOOSE context \in Contexts : TRUE
  /\ part # "size"   => signedChar = FALSE
  /\ part # "binary" => text = <<>> /\ charBytes = 1 /\ blockSize = 1 /\ separatorLength = 0
  /\ part # "logger" => aFile = <<>> /\ aLine = <<>> /\ aPadding = <<>>
                          /\ aLengthMaxFileName = 0 /\ aLengthMaxLine = 0

FormatsInit ==
  /\ part \in {"ini", "size", "binary", "logger"}
  /\ Idle
  /\ I!Init /\ Z!Init /\ B!Init /\ L!Init

FormatsNext ==
  \/ part = "ini"    /\ I!Next /\ UNCHANGED <<part, size, binary, logger>>
  \/ part = "size"   /\ Z!Next /\ UNCHANGED <<part, ini, binary, logger>>
  \/ part = "binary" /\ B!Next /\ UNCHANGED <<part, ini, size, logger>>
  \/ part = "logger" /\ L!Next /\ UNCHANGED <<part, ini, size, binary>>

FormatsSpec == FormatsInit /\ [][FormatsNext]_<<part, ini, size, binary, logger>>

(* The variables of every part keep their types.                           *)
FormatsTypeOK == I!TypeOK /\ Z!TypeOK /\ B!TypeOK /\ L!TypeOK

(* IniParser: what Serialize writes Deserialize reads.                     *)
IniRoundTrip == I!RoundTrip

(* IniParser: no undefined step of Serialize after a Get that returned.    *)
DefinedAfterGet == I!DefinedAfterGet

(* Size: the number that was encoded comes back, of up to 3 or 7 bytes but *)
(* for the last 22 below 2^53.                                             *)
SizeRoundTrip == Z!RoundTrip

(* Size: the first 3 bits are taken for the bytes of the span.             *)
FirstBitsAreBytes == Z!FirstBitsAreBytes

(* BinaryEncodings: separators stand between the blocks.                   *)
SeparatedInBlocks == B!SeparatedInBlocks

(* BinaryEncodings: what was encoded is decoded, without a read past it.   *)
DecodesEncoded == B!DecodesEncoded

(* Logger: every name and line is equally wide.                            *)
ColumnsAlign == L!ColumnsAlign

=============================================================================
