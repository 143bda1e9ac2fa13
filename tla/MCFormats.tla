------------------------------- MODULE MCFormats -------------------------------
(***************************************************************************)
(* A small instance of Formats for one run of TLC.                         *)
(***************************************************************************)
EXTENDS Formats, SequencesExt

CONSTANTS MaxLength, Exponents

(* The default and its variations: brackets that are alike, a separator or *)
(* a bracket that is a space, a comment or the other's character.          *)
ManyContexts == [sectionStart : {"[", "="}, sectionEnd : {"[", "]"}, pairSeparator : {"=", " ", "]"},
                 commentsStart : {{";"}, {"["}, {"="}}, spaces : {{" "}, {"=", " "}, {"]"}}]

(* Some below a power of two: 2^k - d.                                     *)
Below(k, d) == (0 .. k - 1) \ {bit \in 0 .. 12 : ((d - 1) \div 2 ^ bit) % 2 = 1}

(* Around every power of two, and where log2 begins to round up to 49, 53, *)
(* 54 and 61.                                                              *)
BoundaryNumbers ==
  {{}} \cup UNION {{{k}, {0, k}, 0 .. k} : k \in Exponents}
    \cup {Below(49, 2), Below(53, 17), Below(53, 20), Below(53, 22), Below(53, 23),
          Below(54, 45), Below(54, 46), Below(61, 45 * 128), Below(61, 45 * 128 + 1)}

(* Of characters that mean something to the parser, and "a".               *)
ShortLines == BoundedSeq({"[", "]", "=", ";", " ", "a"}, MaxLength)

(* One that files of these lines have, or not.                             *)
SomeKeys == {<<<<"a">>, <<"a">>>>, <<<<>>, <<"a">>>>}

=============================================================================
