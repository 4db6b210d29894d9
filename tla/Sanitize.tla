------------------------------ MODULE Sanitize ------------------------------
(***************************************************************************)
(* bam_sanitize and the record surgery it calls (bam_trim, clear_cigar and *)
(* the NM/MD/CG/SM tag compaction) from src/bam_mate.c, on the abstract    *)
(* record of BamRecord.  The state machine applies bam_sanitize to one     *)
(* record again and again, as next_template does to bs->b[0] on every      *)
(* iteration of its read loop (bam_mate.c:525 and :544).                   *)
(***************************************************************************)
EXTENDS BamRecord, FiniteSets

CONSTANTS
  RefLens,      \* reference lengths, indexed by tid 0..NRef-1 (the header)
  InputRecords, \* records as decoded by sam_read1
  MaxCalls,     \* how many times bam_sanitize is applied to the record
  FixChoices    \* the sanitize_flags values the run may be started with

NRef == Len(RefLens)

ASSUME RefLensAssumption == RefLens \in Seq(Nat)
ASSUME MaxCallsAssumption == MaxCalls \in Nat \ {0}

\* The sanitize categories FIX_POS, FIX_MQUAL, FIX_UNMAP, FIX_CIGAR, FIX_AUX.
FixCats == {"pos", "mqual", "unmap", "cigar", "aux"}
FixAll  == FixCats

ASSUME FixChoicesAssumption == FixChoices \subseteq SUBSET FixCats

\* A tag entry that bam_aux_next rejects as truncated or of unknown type.
CorruptTag == "corrupt"
\* The tags bam_sanitize drops from an unmapped record.
AlignmentTags == {"NM", "MD", "CG", "SM"}

\* sam_hdr_tid2len: 0 for a negative or unknown tid.
Tid2Len(tid) == IF tid \in 0..(NRef - 1) THEN RefLens[tid + 1] ELSE 0

Max2(a, b) == IF a >= b THEN a ELSE b
MaxRefLen == CHOOSE m \in {0} \cup {RefLens[t] : t \in 1..NRef} :
               \A t \in 1..NRef : RefLens[t] <= m

-----------------------------------------------------------------------------
(***************************************************************************)
(* bam_trim(b, end), bam_mate.c:266-367.  The walk (275-283) stops at the  *)
(* first reference-consuming operation whose end passes "end"; cigar[i]    *)
(* is that operation.  Lines 298-309 build the retained head and the first *)
(* element of new_cigar, lines 312-322 fold the remaining operations into  *)
(* new_cigar.  The result records whether new_cigar[j-1] was written with  *)
(* j = 0 (line 318) and whether the CIGAR grew (line 338).                 *)
(***************************************************************************)
RefEndAfter(r, k) == r.pos + RefLen(SubSeq(r.cigar, 1, k))

TrimBreaks(r, end) ==
  {k \in 1..Len(r.cigar) : r.cigar[k].op \in RefOps /\ RefEndAfter(r, k) > end}

\* Keeping the operation's kind when folding it into new_cigar[j-1].
TrimStepKeepsOp(prev, o) ==
  LET j == Len(prev.new)
  IN  IF o.op = "H" THEN [prev EXCEPT !.new = Append(@, o)]
      ELSE IF j = 0 THEN [prev EXCEPT !.oob = TRUE]
      ELSE [prev EXCEPT !.new[j] = CigarOp(prev.new[j].len + o.len, o.op)]

\* Without the hard-clip branch of line 316.
TrimStepFoldsHard(prev, o) ==
  LET j == Len(prev.new)
  IN  IF j = 0 THEN [prev EXCEPT !.oob = TRUE]
      ELSE [prev EXCEPT !.new[j] = CigarOp(prev.new[j].len + o.len, "S")]

\* Lines 313-321: one trailing operation o added to new_cigar.
TrimStep(prev, o) ==
  LET j == Len(prev.new)
  IN  IF o.op = "H" THEN [prev EXCEPT !.new = Append(@, o)]
      ELSE IF j = 0 THEN [prev EXCEPT !.oob = TRUE]
      ELSE [prev EXCEPT !.new[j] = CigarOp(prev.new[j].len + o.len, "S")]

\* Lines 312-322: operations after cigar[i] as the trailing new_cigar.
TrimTail(c, i, new0) ==
  LET t[k \in i..Len(c)] ==
        IF k = i THEN [new |-> new0, oob |-> FALSE] ELSE TrimStep(t[k - 1], c[k])
  IN  t[Len(c)]

\* The index i at which the walk of lines 275-283 breaks.
TrimIndex(r, end) ==
  CHOOSE k \in TrimBreaks(r, end) : \A m \in TrimBreaks(r, end) : k <= m
\* pos - oplen at line 298: the reference start of cigar[i].
TrimOpStart(r, i) == RefEndAfter(r, i) - r.cigar[i].len

\* Off by one in the split length of line 300, either way.
TrimHeadLenShort(end, start) == end - start - 1
TrimHeadLenLong(end, start) == end - start + 1

\* Line 300: the length of the part of cigar[i] kept before the cut.
TrimHeadLen(end, start) == end - start

\* Lines 298-309, where pos is the reference end of cigar[i] and start its
\* reference start: cigar as line 300 edits it in place, the retained head
\* cigar[0..old_i-1], the first element of new_cigar, and the flags.
TrimSplit(r, end, i, pos, start) ==
  [inplace |-> IF start < end
               THEN [r.cigar EXCEPT ![i] = CigarOp(TrimHeadLen(end, start), r.cigar[i].op)]
               ELSE r.cigar,
   head |-> IF start < end
            THEN Append(SubSeq(r.cigar, 1, i - 1),
                        CigarOp(TrimHeadLen(end, start), r.cigar[i].op))
            ELSE SubSeq(r.cigar, 1, i - 1),
   new0 |-> CASE start < end -> << CigarOp(pos - end, "S") >>
              [] pos > end   -> << >>
              [] OTHER       -> << CigarOp(r.cigar[i].len, "S") >>,
   flag |-> IF ~(start < end) /\ pos > end
            THEN (r.flag \cup {FUNMAP}) \ {FPROPER}
            ELSE r.flag]

\* Lines 324-360: the CIGAR becomes cigar[0..old_i-1] followed by
\* new_cigar[0..j-1]; it grows when old_i + j > n_cigar.  partial is the
\* record as the failed realloc of lines 342-347 leaves it: the in-place
\* edits of lines 300-304 made, n_cigar unchanged.
TrimJoin(r, sp, tail) ==
  [rec   |-> [r EXCEPT !.cigar = sp.head \o tail.new, !.flag = sp.flag],
   partial |-> [r EXCEPT !.cigar = sp.inplace, !.flag = sp.flag],
   oob   |-> tail.oob,
   grows |-> Len(sp.head) + Len(tail.new) > Len(r.cigar)]

\* bam_trim once the walk has stopped at cigar[i].
BamTrimAt(r, end, i) ==
  LET sp == TrimSplit(r, end, i, RefEndAfter(r, i), TrimOpStart(r, i))
  IN  TrimJoin(r, sp, TrimTail(r.cigar, i, sp.new0))

BamTrim(r, end) ==
  IF TrimBreaks(r, end) = {}
  THEN [rec |-> r, partial |-> r, oob |-> FALSE, grows |-> FALSE]
  ELSE BamTrimAt(r, end, TrimIndex(r, end))

\* clear_cigar, bam_mate.c:257-262.
ClearCigar(r) == [r EXCEPT !.cigar = << >>]

\* The compaction pass of bam_mate.c:443-469: keep every entry whose key is
\* not one of NM, MD, CG, SM, in order; a corrupt entry fails the pass.
AuxFilterFails(aux) == HasTag(aux, CorruptTag)
AuxFilter(aux) == SelectSeq(aux, LAMBDA e : e.key \notin AlignmentTags)

-----------------------------------------------------------------------------
(***************************************************************************)
(* bam_sanitize(h, b, flags), bam_mate.c:409-473, block by block.  A step  *)
(* result is the record, the return code (0 or -1) and whether bam_trim    *)
(* wrote before new_cigar.  allocOk is the outcome of the realloc at line  *)
(* 342, reached only when the trimmed CIGAR grows past the buffer.         *)
(***************************************************************************)
\* Lines 410-415: a record without a reference gets pos -1.
SanitizePos(r, fl) ==
  IF "pos" \in fl /\ r.tid < 0
  THEN [r EXCEPT !.pos = -1, !.flag = IF "unmap" \in fl THEN @ \cup {FUNMAP} ELSE @]
  ELSE r

\* Lines 428-429: bam_trim's result; it fails only in the realloc, and
\* then leaves the record half trimmed.
TrimOutcome(t, allocOk) ==
  IF t.grows /\ ~allocOk THEN [rec |-> t.partial, ret |-> -1, oob |-> t.oob]
  ELSE [rec |-> t.rec, ret |-> 0, oob |-> t.oob]

\* Lines 417-432: a mapped record before or past its reference is
\* unmapped, one that runs past the reference end is trimmed.
SanitizeCigar(r, fl, allocOk) ==
  LET rlen == Tid2Len(r.tid)
  IN  IF "cigar" \in fl /\ Mapped(r)
      THEN IF r.pos < 0 /\ "unmap" \in fl
           THEN [rec |-> [r EXCEPT !.flag = @ \cup {FUNMAP}], ret |-> 0, oob |-> FALSE]
           ELSE IF r.pos >= rlen /\ "unmap" \in fl
           THEN [rec |-> [r EXCEPT !.flag = @ \cup {FUNMAP},
                                   !.tid = IF "pos" \in fl THEN -1 ELSE @,
                                   !.pos = IF "pos" \in fl THEN -1 ELSE @],
                 ret |-> 0, oob |-> FALSE]
           ELSE IF EndPos(r) > rlen
           THEN TrimOutcome(BamTrim(r, rlen), allocOk)
           ELSE [rec |-> r, ret |-> 0, oob |-> FALSE]
      ELSE [rec |-> r, ret |-> 0, oob |-> FALSE]

\* Lines 434-470: an unmapped record loses its CIGAR, its MAPQ and its
\* alignment tags, according to the flags.
SanitizeUnmapped(r, fl) ==
  IF Mapped(r) THEN r
  ELSE [r EXCEPT !.cigar = IF "cigar" \in fl THEN << >> ELSE @,
                 !.qual  = IF "mqual" \in fl THEN 0 ELSE @,
                 !.aux   = IF "aux" \in fl THEN AuxFilter(@) ELSE @]

\* Lines 433-472, after the CIGAR block has given cs.
SanitizeRest(cs, fl) ==
  IF cs.ret < 0 THEN cs
  ELSE [rec |-> SanitizeUnmapped(cs.rec, fl),
        ret |-> IF ~Mapped(cs.rec) /\ "aux" \in fl /\ AuxFilterFails(cs.rec.aux)
                THEN -1 ELSE 0,
        oob |-> cs.oob]

BamSanitize(r, fl, allocOk) ==
  SanitizeRest(SanitizeCigar(SanitizePos(r, fl), fl, allocOk), fl)

-----------------------------------------------------------------------------
VARIABLES
  rec,      \* the record bs->b[0]
  fixFlags, \* the sanitize_flags of the run
  calls,    \* how many times bam_sanitize has been applied
  status,   \* "ok", or "failed" once bam_sanitize returned -1
  oob       \* bam_trim has written before new_cigar (undefined behaviour)

vars == <<rec, fixFlags, calls, status, oob>>

Init ==
  /\ rec \in InputRecords
  /\ fixFlags \in FixChoices
  /\ calls = 0
  /\ status = "ok"
  /\ oob = FALSE

\* The record and the outcome after a call that gave res.
SanitizeReturns(res) ==
  /\ rec' = res.rec
  /\ status' = IF res.ret < 0 THEN "failed" ELSE "ok"
  /\ oob' = (oob \/ res.oob)

\* One call of bam_sanitize on the record.
Sanitize ==
  /\ status = "ok"
  /\ calls < MaxCalls
  /\ \E allocOk \in BOOLEAN : SanitizeReturns(BamSanitize(rec, fixFlags, allocOk))
  /\ calls' = calls + 1
  /\ UNCHANGED fixFlags

\* The record has been handed on (or the run has stopped).
Done ==
  /\ status = "failed" \/ calls = MaxCalls
  /\ UNCHANGED vars

Next == Sanitize \/ Done

Spec == Init /\ [][Next]_vars

-----------------------------------------------------------------------------
Rec == [tid : Int, pos : Int, flag : SUBSET Flags, qual : 0..255,
        cigar : Seq([len : Nat \ {0}, op : CigarOps]),
        aux : Seq([key : STRING, val : Int])]

TypeOK ==
  /\ rec \in Rec
  /\ fixFlags \in SUBSET FixCats
  /\ calls \in 0..MaxCalls
  /\ status \in {"ok", "failed"}
  /\ oob \in BOOLEAN

(***************************************************************************)
(* next_template sanitizes bs->b[0] once per loop iteration, so a record   *)
(* is sanitized many times; that is harmless only if a second bam_sanitize *)
(* with the same flags leaves a sanitized record unchanged.                *)
(***************************************************************************)
SanitizeIdempotent ==
  [][calls >= 1 /\ status = "ok" /\ status' = "ok" => rec' = rec]_vars

(***************************************************************************)
(* With the cigar and unmap categories on, a record that bam_sanitize      *)
(* leaves mapped lies inside its reference: a non-negative start and an    *)
(* alignment end (bam_endpos) at most the reference length, after the      *)
(* clamping of lines 417-432 and the trimming of bam_trim.                 *)
(***************************************************************************)
MappedWithinReference ==
  (calls >= 1 /\ status = "ok" /\ {"cigar", "unmap"} \subseteq fixFlags
     /\ Mapped(rec))
    => /\ rec.pos >= 0
       /\ EndPos(rec) <= Tid2Len(rec.tid)

(***************************************************************************)
(* The trimming that spec 4.2 describes: the alignment is kept up to the   *)
(* reference coordinate "end", the read bases after it become one soft     *)
(* clip, and trailing hard clips are kept.                                 *)
(***************************************************************************)
RefTrim(c, end, i, start) ==
  LET clip == QueryLen(SubSeq(c, i + 1, Len(c)))
              + (IF c[i].op \in QueryOps THEN start + c[i].len - Max2(start, end) ELSE 0)
      head == IF start < end
              THEN Append(SubSeq(c, 1, i - 1), CigarOp(end - start, c[i].op))
              ELSE SubSeq(c, 1, i - 1)
  IN  head \o << CigarOp(clip, "S") >>
           \o SelectSeq(SubSeq(c, i + 1, Len(c)), LAMBDA o : o.op = "H")

\* A CIGAR of M, I, S, =, X operations with hard clips only at its ends.
PlainCigar(c) ==
  /\ \A k \in 1..Len(c) : c[k].op \notin {"D", "N", "P"}
  /\ \A k \in 1..Len(c) : c[k].op = "H" => k = 1 \/ k = Len(c)

(***************************************************************************)
(* On a plain CIGAR whose cut falls strictly inside an operation (the      *)
(* split case of bam_trim, lines 298-301), bam_trim computes exactly the   *)
(* reference trimming, for every cut point up to the longest reference.    *)
(***************************************************************************)
TrimMatchesReferenceAt(r, end, i) ==
  TrimOpStart(r, i) < end
    => /\ BamTrim(r, end).rec.cigar = RefTrim(r.cigar, end, i, TrimOpStart(r, i))
       /\ ~BamTrim(r, end).oob

TrimMatchesReference ==
  \A end \in 0..MaxRefLen :
    (PlainCigar(rec.cigar) /\ TrimBreaks(rec, end) /= {})
      => TrimMatchesReferenceAt(rec, end, TrimIndex(rec, end))

-----------------------------------------------------------------------------
(***************************************************************************)
(* Spec 4.2: bam_trim unmaps a record only when the operation that crosses *)
(* the reference end starts beyond it; a cut on an operation boundary      *)
(* turns that operation into a soft clip.  So bam_sanitize never unmaps a  *)
(* record that starts inside its reference.  (bam_trim tests pos > end at  *)
(* line 302, which always holds after the walk, so a cut on a boundary     *)
(* unmaps the record and the junction branch of line 306 is never taken.)  *)
(***************************************************************************)
NoUnmapInsideReference ==
  [][(/\ Mapped(rec)
      /\ rec.tid \in 0..(NRef - 1)
      /\ rec.pos >= 0
      /\ rec.pos < Tid2Len(rec.tid))
     => Mapped(rec')]_vars

(***************************************************************************)
(* A trimmed CIGAR still describes every base of the read: when a call of  *)
(* bam_sanitize succeeds and the record stays mapped with a CIGAR, its     *)
(* query length (bam_cigar2qlen), which must equal the stored sequence     *)
(* length, is unchanged.  A deletion or skip that crosses the reference    *)
(* end is split at line 300-301 into a kept part and a soft clip of the    *)
(* reference bases past the end, which counts them as read bases.          *)
(***************************************************************************)
TrimPreservesQueryLength ==
  [][(status' = "ok" /\ Mapped(rec') /\ rec'.cigar /= << >>)
     => QueryLen(rec'.cigar) = QueryLen(rec.cigar)]_vars

(***************************************************************************)
(* bam_trim never writes outside new_cigar: line 318 writes new_cigar[j-1] *)
(* for every trailing operation that is not a hard clip, which needs j > 0.*)
(***************************************************************************)
TrimWritesInBounds == ~oob
=============================================================================
