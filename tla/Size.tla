---------------------------------- MODULE Size ---------------------------------
(***************************************************************************)
(* The class hbann::Size of src/Size.cpp: a number of 64 bits written in   *)
(* 1 to 8 bytes, the first 3 bits of which say how many.  A number is the  *)
(* set of its bits that are set, memory a function from the 8 bytes of a   *)
(* static buffer to the sets of their bits.                                *)
(*                                                                         *)
(* The span that MakeSize returns is a view of the static buffer.  A write *)
(* past a buffer is undefined: nothing is said of the calls after it.      *)
(***************************************************************************)
EXTENDS Integers, FiniteSets, FiniteSetsExt

CONSTANTS Numbers         (* the numbers that are encoded                  *)

VARIABLES signedChar,     (* whether char is signed in this build          *)
          encoder,        (* SIZE_AS_CHARS of the function that encodes    *)
          decoder,        (* SIZE_AS_CHARS of the one that decodes         *)
          number,         (* history: the number encoded last              *)
          span,           (* bytes in the span last returned, 0 for none   *)
          decoded,        (* what the span was decoded to, if it was       *)
          undefined       (* whether a byte past a buffer was written      *)

vars == <<signedChar, encoder, decoder, number, span, decoded, undefined>>

SIZE_MAX_IN_BYTES == 8
Bytes   == 1 .. SIZE_MAX_IN_BYTES
ByteSet == SUBSET (0 .. 7)
Buffer  == [Bytes -> ByteSet]

(* The bytes at the addresses of a big-endian number, and back.  This is   *)
(* ToBigEndian and the store on a little-endian machine, and the store     *)
(* alone on a big-endian one.                                              *)
ToMemory(bits) ==
  [b \in Bytes |-> {bit \in 0 .. 7 : 8 * (SIZE_MAX_IN_BYTES - b) + bit \in bits}]

FromMemory(memory) ==
  UNION {{8 * (SIZE_MAX_IN_BYTES - b) + bit : bit \in memory[b]} : b \in Bytes}

(* A number of bytes in the highest 3 bits of a char, to whose width the   *)
(* shifted number is cut.                                                  *)
Weights == <<1, 2, 4>>
Prefix(requiredBytes) ==
  {bit \in 5 .. 7 : (requiredBytes \div Weights[bit - 4]) % 2 = 1}

TypeOK ==
  /\ signedChar \in BOOLEAN /\ undefined \in BOOLEAN
  /\ encoder \in Buffer /\ decoder \in Buffer
  /\ number \subseteq 0 .. 63
  /\ span \in 0 .. SIZE_MAX_IN_BYTES
  /\ decoded \in SUBSET SUBSET (0 .. 63) /\ Cardinality(decoded) <= 1

Init ==
  /\ signedChar \in BOOLEAN /\ undefined = FALSE
  /\ encoder = ToMemory({}) /\ decoder = ToMemory({})
  /\ number = {} /\ span = 0 /\ decoded = {}

(* std::log2 of the number as a double, both taken to round to the nearest *)
(* double.  Below a power of two 2^k it comes out as k for the numbers not *)
(* further from it than 45 * 2^(k - 54): those whose highest 48 bits are   *)
(* set and whose next six are worth 19 or more, a bit below 0 being clear. *)
RoundedUp(bits) ==
  /\ bits # {}
  /\ LET log == Max(bits)
         Next6(bit) == log - 47 - bit \in bits IN
       /\ log - 47 .. log \subseteq bits
       /\ \/ Next6(1)
          \/ Next6(2) /\ (Next6(3) \/ Next6(4) \/ (Next6(5) /\ Next6(6)))

Log2(bits) == IF RoundedUp(bits) THEN Max(bits) + 1 ELSE Max(bits)

(* FindRequiredBytes of a number: its bits and 3 more, rounded up.         *)
RequiredBytes(bits) == ((IF bits = {} THEN 0 ELSE Log2(bits) + 1) + 3 + 7) \div 8

(* FindRequiredBytes of a char: shifted with its sign, so that its highest *)
(* bit is worth -4 where char is signed, which is 252 as a uint8_t.        *)
PrefixOf(byte) ==
  LET Digit(bit, weight) == IF bit \in byte THEN weight ELSE 0 IN
    Digit(5, 1) + Digit(6, 2) + Digit(7, IF signedChar THEN 252 ELSE 4)

(* MakeSize of a number.                                                   *)
Encode(n) ==
  /\ ~undefined
  /\ LET requiredBytes == RequiredBytes(n)
         first == SIZE_MAX_IN_BYTES - requiredBytes + 1 IN
       /\ span' = IF first \in Bytes THEN requiredBytes ELSE 0
       /\ undefined' = (first \notin Bytes)
       /\ encoder' = [b \in Bytes |-> ToMemory(n)[b] \cup
            IF b = first THEN Prefix(requiredBytes) ELSE {}]
  /\ number' = n /\ decoded' = {}
  /\ UNCHANGED <<signedChar, decoder>>

(* Mutated: the last size is not cleared.                                  *)
CopiedOver(memory, first) ==
  [b \in Bytes |-> IF b < first THEN decoder[b]
                   ELSE IF b = first THEN memory[b] \ {5, 6, 7} ELSE memory[b]]

(* The bytes of the span at the end of the cleared buffer.                 *)
Copied(memory, first) ==
  [b \in Bytes |-> IF b < first THEN {}
                   ELSE IF b = first THEN memory[b] \ {5, 6, 7} ELSE memory[b]]

(* MakeSize of the last span.                                              *)
Decode ==
  /\ ~undefined /\ span # 0
  /\ LET front == SIZE_MAX_IN_BYTES - span + 1
         requiredBytes == PrefixOf(encoder[front])
         first == SIZE_MAX_IN_BYTES - requiredBytes + 1 IN
       /\ undefined' = (first \notin Bytes)
       /\ IF undefined' THEN UNCHANGED <<decoder, decoded>>
          ELSE /\ decoder' = Copied([b \in Bytes |->
                                 IF b < first THEN {} ELSE encoder[b - first + front]], first)
               /\ decoded' = {FromMemory(decoder')}
  /\ UNCHANGED <<signedChar, encoder, number, span>>

Next == Decode \/ \E n \in Numbers : Encode(n)
Spec == Init /\ [][Next]_vars

(* The number fits the 5 bits that are left of the first byte and the      *)
(* whole of those after it.                                                *)
Fits(bits, bytes) == bits \subseteq 0 .. 8 * bytes - 4

(* 2^53 - 22 .. 2^53 - 1, the only numbers of up to 7 bytes for which      *)
(* rounding changes how many.                                              *)
LastBelow2To53(bits) ==
  /\ bits \subseteq 0 .. 52 /\ 5 .. 52 \subseteq bits
  /\ 4 \in bits \/ (3 \in bits /\ bits \cap {1, 2} # {})

(* Whatever was encoded and decoded before, a number comes back that needs *)
(* at most 3 bytes where char is signed and at most 7 where it is not, but *)
(* for the last 22 below 2^53; and no other takes more bytes than it needs.*)
RoundTrip ==
  /\ \A n \in decoded : n = number
  /\ undefined => LastBelow2To53(number) \/ ~Fits(number, IF signedChar THEN 3 ELSE 7)
  /\ span # 0 => Fits(number, span)
  /\ span > 1 => LastBelow2To53(number) \/ ~Fits(number, span - 1)

(* "The first 3 bits represent how many bytes are necessary": that is what *)
(* the function that decodes takes them for.                               *)
FirstBitsAreBytes ==
  span \in Bytes => PrefixOf(encoder[SIZE_MAX_IN_BYTES - span + 1]) = span

=============================================================================
