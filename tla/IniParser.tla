------------------------------- MODULE IniParser -------------------------------
(***************************************************************************)
(* The classes IniHelper, IniLexer and IniParser of src/IniParser.cpp: a   *)
(* file is read line by line into sections of pairs and written back.      *)
(* A line is a sequence of characters, of which one stands for each that   *)
(* means something to the parser and "a" for all the others.               *)
(***************************************************************************)
EXTENDS Integers, SequencesExt

CONSTANTS Contexts,     (* values of IniContext                            *)
          Lines,        (* the lines a file can have                       *)
          Asked,        (* the <<section, key>> that Get is called with    *)
          MaxLines      (* bound: how many lines are read                  *)

VARIABLES mContext,     (* IniParser::mContext                             *)
          sectionLast,  (* the local of Deserialize                        *)
          mSections,    (* <<section, key>> -> value: a section is entered *)
                        (* with its first pair                             *)
          linesRead,    (* how many lines have been read                   *)
          got,          (* a call of Get has returned                      *)
          serialize,    (* where Serialize is: "not called", "writes" or   *)
                        (* "crashed"                                       *)
          sectionsLeft, (* the sections that it has not begun to write     *)
          pairsLeft,    (* the pairs it has not written, of the section    *)
                        (* it is at                                        *)
          reread        (* what Deserialize of another parser makes of the *)
                        (* lines written so far                            *)

vars == <<mContext, sectionLast, mSections, linesRead, got, serialize, sectionsLeft, pairsLeft, reread>>

PairsFit(pairs) ==
  \A k \in DOMAIN pairs : k \in Seq(STRING) \X Seq(STRING) /\ pairs[k] \in Seq(STRING)

TypeOK ==
  /\ mContext \in Contexts
  /\ sectionLast \in Seq(STRING) /\ PairsFit(mSections)
  /\ linesRead \in 0 .. MaxLines /\ got \in BOOLEAN
  /\ serialize \in {"not called", "writes", "crashed"}
  /\ sectionsLeft \subseteq {k[1] : k \in DOMAIN mSections} /\ pairsLeft \subseteq DOMAIN mSections
  /\ reread.section \in Seq(STRING) /\ PairsFit(reread.pairs)

NothingRead == [section |-> <<>>, pairs |-> <<>>]

Init ==
  /\ mContext \in Contexts
  /\ sectionLast = NothingRead.section /\ mSections = NothingRead.pairs
  /\ linesRead = 0 /\ got = FALSE
  /\ serialize = "not called" /\ sectionsLeft = {} /\ pairsLeft = {} /\ reread = NothingRead

Trim(s) ==
  LET kept == {i \in DOMAIN s : s[i] \notin mContext.spaces} IN
    IF kept = {} THEN <<>> ELSE SubSeq(s, Min(kept), Max(kept))

IsSection(line) ==
  LET s == Trim(line) IN Head(s) = mContext.sectionStart /\ Last(s) = mContext.sectionEnd

(* Mutated: one character too many.                                        *)
ParseSectionToEnd(line) ==
  LET s == Trim(line) IN Trim(SubSeq(s, 2, Len(s)))

(* Everything between the two brackets, or nothing if there is but one.    *)
ParseSection(line) ==
  LET s == Trim(line) IN Trim(SubSeq(s, 2, Len(s) - 1))

Separators(s) == {i \in DOMAIN s : s[i] = mContext.pairSeparator}
IsPair(line)  == Separators(Trim(line)) # {}

ParsePair(line) ==
  LET s == Trim(line)
      pos == Min(Separators(s)) IN <<Trim(SubSeq(s, 1, pos - 1)), Trim(SubSeq(s, pos + 1, Len(s)))>>

IsComment(line) == Head(line) \in mContext.commentsStart

FindToken(line) ==
  IF IsComment(line) THEN "COMMENT"
  ELSE IF IsSection(line) THEN "SECTION"
  ELSE IF IsPair(line) THEN "PAIR"
  ELSE "NONE"

Stored(pairs, key, value) ==
  [k \in DOMAIN pairs \cup {key} |-> IF k = key THEN value ELSE pairs[k]]

(* What Deserialize makes of one line.                                     *)
Deserialized(parsed, rawLine) ==
  LET line == Trim(rawLine)
      token == IF line = <<>> THEN "NONE" ELSE FindToken(line) IN
    CASE token = "SECTION" -> [parsed EXCEPT !.section = ParseSection(line)]
      [] token = "PAIR" ->
           LET pair == ParsePair(line) IN
             [parsed EXCEPT !.pairs = Stored(@, <<parsed.section, pair[1]>>, pair[2])]
      [] OTHER -> parsed

ReadLine(line) ==
  /\ serialize = "not called" /\ linesRead < MaxLines
  /\ linesRead' = linesRead + 1
  /\ LET parsed == Deserialized([section |-> sectionLast, pairs |-> mSections], line) IN
       sectionLast' = parsed.section /\ mSections' = parsed.pairs
  /\ UNCHANGED <<mContext, got, serialize, sectionsLeft, pairsLeft, reread>>

(* A call of Deserialize is over; the next one begins without a section.   *)
EndOfFile ==
  /\ sectionLast # <<>>
  /\ sectionLast' = <<>>
  /\ UNCHANGED <<mContext, mSections, linesRead, got, serialize, sectionsLeft, pairsLeft, reread>>

(* Get and Serialize are called when no call of Deserialize is in a        *)
(* section.                                                                *)
Called == serialize = "not called" /\ sectionLast = <<>>

(* Mutated: the empty string is returned for a pair that is not there.     *)
GetAnything(asked) ==
  /\ Called /\ asked \in Asked
  /\ got' = TRUE
  /\ UNCHANGED <<mContext, sectionLast, mSections, linesRead, serialize, sectionsLeft, pairsLeft, reread>>

(* Get throws, and changes nothing, where there is no such pair.           *)
Get(asked) ==
  /\ Called /\ asked \in DOMAIN mSections
  /\ got' = TRUE
  /\ UNCHANGED <<mContext, sectionLast, mSections, linesRead, serialize, sectionsLeft, pairsLeft, reread>>

(* std::prev of the end of an empty map is undefined: the program crashes, *)
(* or no line is written.                                                  *)
Serialize ==
  /\ Called
  /\ IF DOMAIN mSections = {} THEN serialize' \in {"crashed", "not called"} ELSE serialize' = "writes"
  /\ sectionsLeft' = {k[1] : k \in DOMAIN mSections}
  /\ UNCHANGED <<mContext, sectionLast, mSections, linesRead, got, pairsLeft, reread>>

FormatSection(section) == <<mContext.sectionStart>> \o section \o <<mContext.sectionEnd>>
FormatPair(key, value) == key \o <<mContext.pairSeparator>> \o value

(* The order of the map is not modelled: any section may be the next one.  *)
WriteSection(section) ==
  /\ serialize = "writes" /\ pairsLeft = {} /\ section \in sectionsLeft
  /\ sectionsLeft' = sectionsLeft \ {section}
  /\ pairsLeft' = {k \in DOMAIN mSections : k[1] = section}
  /\ reread' = Deserialized(reread, FormatSection(section))
  /\ UNCHANGED <<mContext, sectionLast, mSections, linesRead, got, serialize>>

(* An empty line follows the last pair, unless it is of the last section.  *)
WritePair(k) ==
  /\ k \in pairsLeft
  /\ pairsLeft' = pairsLeft \ {k}
  /\ LET parsed == Deserialized(reread, FormatPair(k[2], mSections[k])) IN
       reread' = IF pairsLeft' = {} /\ sectionsLeft # {} THEN Deserialized(parsed, <<>>) ELSE parsed
  /\ UNCHANGED <<mContext, sectionLast, mSections, linesRead, got, serialize, sectionsLeft>>

Written == serialize = "writes" /\ sectionsLeft = {} /\ pairsLeft = {}

(* Serialize returns; what was read of its lines is not needed any more.   *)
Serialized ==
  /\ Written
  /\ serialize' = "not called" /\ reread' = NothingRead
  /\ UNCHANGED <<mContext, sectionLast, mSections, linesRead, got, sectionsLeft, pairsLeft>>

Next ==
  \/ EndOfFile \/ Serialize \/ Serialized
  \/ \E line \in Lines : ReadLine(line)
  \/ \E asked \in Asked : Get(asked)
  \/ \E section \in sectionsLeft : WriteSection(section)
  \/ \E k \in pairsLeft : WritePair(k)

Spec == Init /\ [][Next]_vars

(* Trim takes no bracket away.                                             *)
BracketsKept == {mContext.sectionStart, mContext.sectionEnd} \cap mContext.spaces = {}

(* What Serialize writes is read back as what it was written from: no name *)
(* or value that came from a file turns into a section, a comment or       *)
(* another pair when its line is put together again.                       *)
RoundTrip == BracketsKept /\ Written => reread.pairs = mSections

(* Serialize is defined once a Get has returned, as it has in main: what   *)
(* was read is never lost, and Get returns only what was read.             *)
DefinedAfterGet == got => serialize # "crashed"

=============================================================================
