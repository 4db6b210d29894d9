-------------------------- MODULE SanitizeOptions --------------------------
(***************************************************************************)
(* bam_sanitize_options (src/bam_mate.c:371-407), the parser of the -z     *)
(* argument of samtools fixmate: a comma-separated list of keywords, each  *)
(* setting or adding sanitize categories.  The argument is a sequence of   *)
(* one-character strings; str is the cursor i into it, and the state       *)
(* machine takes one step per iteration of the while loop of line 374.     *)
(***************************************************************************)
EXTENDS Integers, Sequences, FiniteSets

CONSTANTS
  Inputs    \* the -z arguments, as sequences of characters

Comma == ","

\* The sanitize categories FIX_POS .. FIX_AUX of bam_sanitize.h, and the
\* sets FIX_ALL and the "on" default (line 388).
FixPos   == "pos"
FixMqual == "mqual"
FixUnmap == "unmap"
FixCigar == "cigar"
FixAux   == "aux"
FixAll   == {FixPos, FixMqual, FixUnmap, FixCigar, FixAux}
FixOn    == {FixMqual, FixUnmap, FixCigar, FixAux}

ASSUME InputsAssumption == \A s \in Inputs : s \in Seq(STRING)

\* The keywords, as character sequences.
AllW   == << "a", "l", "l" >>
StarW  == << "*" >>
NoneW  == << "n", "o", "n", "e" >>
OffW   == << "o", "f", "f" >>
OnW    == << "o", "n" >>
PosW   == << "p", "o", "s" >>
MqualW == << "m", "q", "u", "a", "l" >>
UnmapW == << "u", "n", "m", "a", "p" >>
CigarW == << "c", "i", "g", "a", "r" >>
AuxW   == << "a", "u", "x" >>

(***************************************************************************)
(* The if-else chain of lines 381-398, in its order: the text compared by  *)
(* strncmp, whether the keyword sets opt ("=") or adds to it ("|="), and   *)
(* the categories.  *str_start == '*' is the one-character entry "*".      *)
(***************************************************************************)
Keywords ==
  << [kw |-> AllW,   reset |-> TRUE,  val |-> FixAll],
     [kw |-> StarW,  reset |-> TRUE,  val |-> FixAll],
     [kw |-> NoneW,  reset |-> TRUE,  val |-> {}],
     [kw |-> OffW,   reset |-> TRUE,  val |-> {}],
     [kw |-> OnW,    reset |-> TRUE,  val |-> FixOn],
     [kw |-> PosW,   reset |-> FALSE, val |-> {FixPos}],
     [kw |-> MqualW, reset |-> FALSE, val |-> {FixMqual}],
     [kw |-> UnmapW, reset |-> FALSE, val |-> {FixUnmap}],
     [kw |-> CigarW, reset |-> FALSE, val |-> {FixCigar}],
     [kw |-> AuxW,   reset |-> FALSE, val |-> {FixAux}] >>

\* strncmp(s + at - 1, kw, Len(kw)) == 0: the Len(kw) characters from at
\* are those of kw; the terminating NUL matches no character.
StrNCmpZero(s, at, kw) ==
  /\ at + Len(kw) - 1 <= Len(s)
  /\ \A j \in 1..Len(kw) : s[at + j - 1] = kw[j]

\* The entries of the chain whose comparison succeeds at at.
Matching(s, at) == {k \in 1..Len(Keywords) : StrNCmpZero(s, at, Keywords[k].kw)}

\* Lines 376-377: the cursor after the commas at i.
SkipCommas(s, i) ==
  CHOOSE j \in i..(Len(s) + 1) :
    /\ j <= Len(s) => s[j] /= Comma
    /\ \A m \in i..(j - 1) : s[m] = Comma

\* One str++ too many after the token: past the closing comma or the NUL.
TokenEndPast(s, st) ==
  1 + CHOOSE e \in st..(Len(s) + 1) :
        /\ e <= Len(s) => s[e] = Comma
        /\ \A m \in st..(e - 1) : s[m] /= Comma

\* Line 379: the cursor at the comma or the end that closes the token at st.
TokenEnd(s, st) ==
  CHOOSE e \in st..(Len(s) + 1) :
    /\ e <= Len(s) => s[e] = Comma
    /\ \A m \in st..(e - 1) : s[m] /= Comma

\* Every entry as "|=": a reset keyword adds its categories instead.
ApplyKeywordAdds(o, entry) == o \cup entry.val

\* opt after the assignment of a chain entry.
ApplyKeyword(o, entry) == IF entry.reset THEN entry.val ELSE o \cup entry.val

VARIABLES
  s,     \* the argument
  i,     \* the cursor str, as an index into s (Len(s) + 1 at the NUL)
  opt,   \* the categories set so far
  pc     \* "loop", "done" (return opt) or "error" (return -1)

vars == <<s, i, opt, pc>>

Init ==
  /\ s \in Inputs
  /\ i = 1
  /\ opt = {}
  /\ pc = "loop"

(***************************************************************************)
(* Lines 375-398: one token.  The commas are skipped, the token scanned,   *)
(* and the first entry of the chain whose strncmp succeeds sets or adds to *)
(* opt.                                                                    *)
(***************************************************************************)
Keyword ==
  /\ pc = "loop" /\ i <= Len(s)
  /\ LET st == SkipCommas(s, i)
     IN  /\ Matching(s, st) /= {}
         /\ opt' = ApplyKeyword(opt, Keywords[CHOOSE k \in Matching(s, st) :
                                                 \A m \in Matching(s, st) : k <= m])
         /\ i' = TokenEnd(s, st)
  /\ UNCHANGED <<s, pc>>

\* Lines 399-403: no entry matches; "Unrecognised keyword", return -1.
Unrecognised ==
  /\ pc = "loop" /\ i <= Len(s)
  /\ Matching(s, SkipCommas(s, i)) = {}
  /\ pc' = "error"
  /\ UNCHANGED <<s, i, opt>>

\* Lines 374 and 406: the cursor is at the NUL; return opt.
LoopEnd ==
  /\ pc = "loop" /\ i > Len(s)
  /\ pc' = "done"
  /\ UNCHANGED <<s, i, opt>>

Terminated ==
  /\ pc \in {"done", "error"}
  /\ UNCHANGED vars

Next == Keyword \/ Unrecognised \/ LoopEnd \/ Terminated

Spec == Init /\ [][Next]_vars

-----------------------------------------------------------------------------
TypeOK ==
  /\ s \in Inputs
  /\ i \in 1..(Len(s) + 1)
  /\ opt \subseteq FixAll
  /\ pc \in {"loop", "done", "error"}

(***************************************************************************)
(* The reading of the argument that the comment of line 369 and the usage *)
(* text ("FLAG[,FLAG]") give: the items between commas, empty items        *)
(* ignored, each exactly one keyword, applied from left to right.          *)
(***************************************************************************)
ItemStarts(t) == {k \in 1..Len(t) : t[k] /= Comma /\ (k = 1 \/ t[k - 1] = Comma)}
Item(t, k) == SubSeq(t, k, TokenEnd(t, k) - 1)

\* The word of each category.
CatWord == [c \in FixAll |-> CASE c = FixPos -> PosW [] c = FixMqual -> MqualW
                                [] c = FixUnmap -> UnmapW [] c = FixCigar -> CigarW
                                [] c = FixAux -> AuxW]

ReferenceValid(t) ==
  \A k \in ItemStarts(t) :
    Item(t, k) \in {AllW, StarW, NoneW, OffW, OnW} \cup {CatWord[c] : c \in FixAll}

\* "all" and "*" select every category, "none" and "off" none, "on" the
\* default, and a category word adds its category.
ReferenceResult(t) ==
  LET f[k \in 0..Len(t)] ==
        IF k = 0 THEN {}
        ELSE IF k \notin ItemStarts(t) THEN f[k - 1]
        ELSE CASE Item(t, k) \in {AllW, StarW} -> FixAll
               [] Item(t, k) \in {NoneW, OffW} -> {}
               [] Item(t, k) = OnW -> FixOn
               [] OTHER -> f[k - 1] \cup {c \in FixAll : CatWord[c] = Item(t, k)}
  IN  f[Len(t)]

(***************************************************************************)
(* A -z list of exact keywords that bam_sanitize_options accepts gives the *)
(* categories the reference reading gives: the chain's order, the resets   *)
(* of all/none/off/on and the |= of the category words (lines 381-398),    *)
(* and the comma skipping of lines 376-379 all agree with it.              *)
(***************************************************************************)
AcceptedListsParsedAsReference ==
  (pc = "done" /\ ReferenceValid(s)) => opt = ReferenceResult(s)

(***************************************************************************)
(* bam_sanitize_options accepts only exact keywords ("Unrecognised keyword" *)
(* otherwise, line 400).                                                   *)
(***************************************************************************)
OnlyKeywordsAccepted == pc = "done" => ReferenceValid(s)
=============================================================================
