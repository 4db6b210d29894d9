------------------------------ MODULE MateFix ------------------------------
(***************************************************************************)
(* One iteration of the template loop of bam_mating_core (bam_mate.c:597-  *)
(* 696): the scan that pairs the primary alignments of a template and      *)
(* synchronises them (sync_mate, the TLEN computation, bam_template_cigar, *)
(* plausibly_properly_paired, add_mate_score, the removal fix-up), the     *)
(* unpaired fix-up, and the write loop.  b is bs.b[0..bs.n-1] as           *)
(* next_template returned it; out lists the indices passed to sam_write1.  *)
(***************************************************************************)
EXTENDS BamRecord, FiniteSets

CONSTANTS
  Templates,   \* the record arrays next_template can return
  OptChoices   \* the option settings: -r, proper-pair check (off with -p), -c, -m

ASSUME TemplatesAssumption ==
  \A t \in Templates : Len(t) \in Nat \ {0} /\ \A k \in 1..Len(t) : IsRec(t[k])
ASSUME OptChoicesAssumption ==
  OptChoices \subseteq [remove : BOOLEAN, ppc : BOOLEAN, ct : BOOLEAN, ms : BOOLEAN]

\* MD_MIN_QUALITY, bam_mate.c:41.
MdMinQuality == 15
\* A NULL pointer for pre and cur: index -1.
None == -1

VARIABLES
  b,        \* bs.b[0..bn-1]
  bn,       \* bs.n
  n,        \* the loop index of the scan and of the write loop
  prev,     \* index of pre, None while pre == NULL
  curr,     \* index of cur, None while cur == NULL
  preEnd,   \* pre_end
  curEnd,   \* cur_end
  opts,     \* remove_reads, proper_pair_check, add_ct, do_mate_scoring
  out,      \* indices of the records written, in order
  pc        \* "scan", "write", "done", or how the run stopped

vars == <<b, bn, n, prev, curr, preEnd, curEnd, opts, out, pc>>

Primary(r) == r.flag \cap {FSECONDARY, FSUPPL} = {}

-----------------------------------------------------------------------------
(* sync_mate and its helpers, bam_mate.c:113-223.                          *)

SyncUnmappedPosInner(src, dest) ==
  IF ~Mapped(dest) /\ Mapped(src)
  THEN [dest EXCEPT !.tid = src.tid, !.pos = src.pos]
  ELSE dest

SyncMateInner(src, dest) ==
  [dest EXCEPT !.mtid = src.tid,
               !.mpos = src.pos,
               !.flag = (IF FREVERSE \in src.flag THEN @ \cup {FMREVERSE}
                         ELSE @ \ {FMREVERSE})
                        \cup (IF Mapped(src) THEN {} ELSE {FMUNMAP})]

\* bam_format_cigar, bam_mate.c:164-180: the text of a CIGAR as its
\* (length, operator character) tokens; an empty CIGAR is "*".
CigarText(c) == [k \in 1..Len(c) |-> << c[k].len, c[k].op >>]
FormatCigar(c) == IF c = << >> THEN << "*" >> ELSE CigarText(c)

SyncMqMc(src, dest) ==
  LET mq == IF Mapped(src) THEN AuxReplace(dest.aux, "MQ", src.qual)
            ELSE dest.aux
  IN  [dest EXCEPT !.aux = IF Mapped(src) \/ Mapped(dest)
                           THEN AuxReplace(mq, "MC", FormatCigar(src.cigar))
                           ELSE mq]

\* The mate fields copied before sync_unmapped_pos moves an unmapped read.
SyncMateLate(a, c) ==
  LET c1 == SyncMateInner(a, c)
      a1 == SyncMateInner(c1, a)
      c2 == SyncUnmappedPosInner(a1, c1)
      a2 == SyncUnmappedPosInner(c2, a1)
      c3 == SyncMqMc(a2, c2)
      a3 == SyncMqMc(c3, a2)
  IN  << a3, c3 >>

\* sync_mate(a, b), as the pair <<a, b>> after it.
SyncMate(a, c) ==
  LET c1 == SyncUnmappedPosInner(a, c)
      a1 == SyncUnmappedPosInner(c1, a)
      c2 == SyncMateInner(a1, c1)
      a2 == SyncMateInner(c2, a1)
      c3 == SyncMqMc(a2, c2)
      a3 == SyncMqMc(c3, a2)
  IN  << a3, c3 >>

-----------------------------------------------------------------------------
(* The TLEN computation of bam_mate.c:625-639, given pre_end and cur_end.  *)
FivePrime(r, end) == IF FREVERSE \in r.flag THEN end ELSE r.pos

SetIsize(pre, cur, pe, ce) ==
  IF /\ pre.tid = cur.tid
     /\ cur.flag \cap {FUNMAP, FMUNMAP} = {}
     /\ pre.flag \cap {FUNMAP, FMUNMAP} = {}
  THEN << [pre EXCEPT !.isize = FivePrime(cur, ce) - FivePrime(pre, pe)],
          [cur EXCEPT !.isize = FivePrime(pre, pe) - FivePrime(cur, ce)] >>
  ELSE << [pre EXCEPT !.isize = 0], [cur EXCEPT !.isize = 0] >>

\* bam_template_cigar, bam_mate.c:47-77: the ct tag on the read with the
\* smaller position, as <<first read, gap, second read>>.
SegStrand(r) == << IF FREAD1 \in r.flag THEN "1" ELSE "2",
                   IF FREVERSE \in r.flag THEN "R" ELSE "F" >>
CtValue(lo, hi) ==
  << SegStrand(lo), CigarText(lo.cigar), hi.pos - EndPos(lo),
     SegStrand(hi), CigarText(hi.cigar) >>

BamTemplateCigar(b1, b2) ==
  IF \/ b1.tid /= b2.tid \/ b1.tid < 0 \/ b1.pos < 0 \/ b2.pos < 0
     \/ ~Mapped(b1) \/ ~Mapped(b2)
  THEN << b1, b2 >>
  ELSE LET swap == b1.pos > b2.pos
           lo   == IF swap THEN b2 ELSE b1
           hi   == IF swap THEN b1 ELSE b2
           lo1  == [lo EXCEPT !.aux = AuxReplace(@, "ct", CtValue(lo, hi))]
           hi1  == [hi EXCEPT !.aux = AuxDel(@, "ct")]
       IN  IF swap THEN << hi1, lo1 >> ELSE << lo1, hi1 >>

\* Without the same-reference test of line 158.
PlausibleAnyTid(a, c) ==
  LET aPos == IF FREVERSE \in a.flag THEN EndPos(a) ELSE a.pos
      cPos == IF FREVERSE \in c.flag THEN EndPos(c) ELSE c.pos
      first  == IF aPos > cPos THEN c ELSE a
      second == IF aPos > cPos THEN a ELSE c
  IN  IF ~Mapped(a) \/ ~Mapped(c) THEN [ok |-> FALSE, assertFails |-> FALSE]
      ELSE IF a.tid < 0 THEN [ok |-> FALSE, assertFails |-> TRUE]
      ELSE [ok |-> FREVERSE \notin first.flag /\ FREVERSE \in second.flag,
            assertFails |-> FALSE]

\* plausibly_properly_paired, bam_mate.c:138-161, with the assertion of
\* line 141 (a mapped a with a negative tid) as assertFails.
Plausible(a, c) ==
  LET aPos == IF FREVERSE \in a.flag THEN EndPos(a) ELSE a.pos
      cPos == IF FREVERSE \in c.flag THEN EndPos(c) ELSE c.pos
      first  == IF aPos > cPos THEN c ELSE a
      second == IF aPos > cPos THEN a ELSE c
  IN  IF ~Mapped(a) \/ ~Mapped(c) THEN [ok |-> FALSE, assertFails |-> FALSE]
      ELSE IF a.tid < 0 THEN [ok |-> FALSE, assertFails |-> TRUE]
      ELSE [ok |-> a.tid = c.tid /\ FREVERSE \notin first.flag
                   /\ FREVERSE \in second.flag,
            assertFails |-> FALSE]

\* calc_mate_score, bam_mate.c:226-237.  The sum is a uint32_t in the code;
\* it wraps only past 2^32 (a read of more than 16 million bases), beyond
\* TLC's integers, so it is an unbounded sum here.
CalcMateScore(r) ==
  LET s[i \in 0..Len(r.bq)] ==
        IF i = 0 THEN 0
        ELSE s[i - 1] + (IF r.bq[i] >= MdMinQuality THEN r.bq[i] ELSE 0)
  IN  s[Len(r.bq)]

\* add_mate_score(src, dest), bam_mate.c:240-254.
AddMateScore(src, dest) ==
  [dest EXCEPT !.aux = AuxReplace(@, "ms", CalcMateScore(src))]

PairBadFlags == {FPAIRED, FMREVERSE, FPROPER}

\* Only the first half of the -r fix-up: pre keeps its pair flags.
RemoveFixupOneSided(p2, c2) ==
  << p2, IF opts.remove /\ ~Mapped(p2) THEN [c2 EXCEPT !.flag = @ \ PairBadFlags] ELSE c2 >>

\* Lines 662-669: with -r, a read whose mate is unmapped loses its pair
\* flags; cur is fixed first, and pre is tested against the fixed cur.
RemoveFixup(p2, c2) ==
  LET c3 == IF opts.remove /\ ~Mapped(p2)
            THEN [c2 EXCEPT !.flag = @ \ PairBadFlags] ELSE c2
      p3 == IF opts.remove /\ ~Mapped(c3)
            THEN [p2 EXCEPT !.flag = @ \ PairBadFlags] ELSE p2
  IN  << p3, c3 >>

-----------------------------------------------------------------------------
Init ==
  /\ \E t \in Templates :
       /\ b = [k \in 0..(Len(t) - 1) |-> t[k + 1]]
       /\ bn = Len(t)
  /\ opts \in OptChoices
  /\ n = 0
  /\ prev = None
  /\ curr = None
  /\ preEnd = 0
  /\ curEnd = 0
  /\ out = << >>
  /\ pc = "scan"

ScanStep == pc = "scan" /\ n < bn

\* Lines 604-605: a secondary or supplementary record is left as it is.
ScanSecondary ==
  /\ ScanStep
  /\ ~Primary(b[n])
  /\ n' = n + 1
  /\ UNCHANGED <<b, bn, prev, curr, preEnd, curEnd, opts, out, pc>>

\* Lines 607-612: the first primary becomes pre.
ScanFirstPrimary ==
  /\ ScanStep
  /\ Primary(b[n])
  /\ prev = None
  /\ prev' = n
  /\ preEnd' = IF Mapped(b[n]) THEN EndPos(b[n]) ELSE 0
  /\ n' = n + 1
  /\ UNCHANGED <<b, bn, curr, curEnd, opts, out, pc>>

(***************************************************************************)
(* Lines 624-669, on sm = <<pre, cur>> as sync_mate left them: the TLEN,   *)
(* bam_template_cigar with -c, the proper-pair check unless -p (its       *)
(* assertion of line 141 as assertFails), the mate scores with -m and the  *)
(* -r fix-up; pair is <<pre, cur>> after them.                             *)
(***************************************************************************)
PairFixups(sm, pe, ce) ==
  LET ts  == SetIsize(sm[1], sm[2], pe, ce)
      ct  == IF opts.ct THEN BamTemplateCigar(ts[1], ts[2]) ELSE ts
      pl  == Plausible(ct[1], ct[2])
      clearProper == opts.ppc /\ ~pl.ok
      p1  == IF clearProper THEN [ct[1] EXCEPT !.flag = @ \ {FPROPER}] ELSE ct[1]
      c1  == IF clearProper THEN [ct[2] EXCEPT !.flag = @ \ {FPROPER}] ELSE ct[2]
      c2  == IF opts.ms THEN AddMateScore(p1, c1) ELSE c1
      p2  == IF opts.ms THEN AddMateScore(c2, p1) ELSE p1
  IN  [assertFails |-> opts.ppc /\ pl.assertFails, pair |-> RemoveFixup(p2, c2)]

(***************************************************************************)
(* Lines 614-669: a later primary becomes cur and is paired with pre.      *)
(***************************************************************************)
ScanPair ==
  /\ ScanStep
  /\ Primary(b[n])
  /\ prev /= None
  /\ LET ce  == IF Mapped(b[n]) THEN EndPos(b[n]) ELSE 0
         p0  == [b[prev] EXCEPT !.flag = @ \cup {FPAIRED}]
         c0  == [b[n] EXCEPT !.flag = @ \cup {FPAIRED}]
     IN
     \* fx is bound once, as a value, for the steps after sync_mate.
     \E fx \in {PairFixups(SyncMate(p0, c0), preEnd, ce)} :
       IF fx.assertFails
       THEN /\ pc' = "abort"
            /\ UNCHANGED <<b, n, curr, curEnd>>
       ELSE /\ b' = [b EXCEPT ![prev] = fx.pair[1], ![n] = fx.pair[2]]
            /\ curr' = n
            /\ curEnd' = ce
            /\ n' = n + 1
            /\ UNCHANGED pc
  /\ UNCHANGED <<bn, prev, preEnd, opts, out>>

\* Lines 621-622 and 652-657: sync_mate or add_mate_score fails to
\* allocate, and bam_mating_core gives up (goto fail).
ScanPairFails ==
  /\ ScanStep
  /\ Primary(b[n])
  /\ prev /= None
  /\ pc' = "fail"
  /\ UNCHANGED <<b, bn, n, prev, curr, preEnd, curEnd, opts, out>>

\* Lines 673-678 and 687: after the scan, a lone primary is unpaired.
ScanEndPaired ==
  /\ pc = "scan" /\ n = bn
  /\ curr /= None
  /\ n' = 0
  /\ pc' = "write"
  /\ UNCHANGED <<b, bn, prev, curr, preEnd, curEnd, opts, out>>

ScanEndUnpaired ==
  /\ pc = "scan" /\ n = bn
  /\ curr = None
  /\ prev /= None
  /\ b' = [b EXCEPT ![prev] = [b[prev] EXCEPT !.mtid = -1, !.mpos = -1, !.isize = 0,
                                              !.flag = @ \ PairBadFlags]]
  /\ n' = 0
  /\ pc' = "write"
  /\ UNCHANGED <<bn, prev, curr, preEnd, curEnd, opts, out>>

\* Lines 673-677 with pre == NULL: a template without a primary record.
ScanEndNoPrimary ==
  /\ pc = "scan" /\ n = bn
  /\ curr = None
  /\ prev = None
  /\ pc' = "crash"
  /\ UNCHANGED <<b, bn, n, prev, curr, preEnd, curEnd, opts, out>>

WriteStep == pc = "write" /\ n < bn

Removed(r) == opts.remove /\ r.flag \cap {FSECONDARY, FUNMAP} /= {}

\* Writing the record after the one the loop is at.
WriteRecordNext ==
  /\ WriteStep
  /\ ~Removed(b[n])
  /\ out' = Append(out, n + 1)
  /\ n' = n + 1
  /\ UNCHANGED <<b, bn, prev, curr, preEnd, curEnd, opts, pc>>

\* Lines 687-695: write every record in its original order.
WriteRecord ==
  /\ WriteStep
  /\ ~Removed(b[n])
  /\ out' = Append(out, n)
  /\ n' = n + 1
  /\ UNCHANGED <<b, bn, prev, curr, preEnd, curEnd, opts, pc>>

WriteSkip ==
  /\ WriteStep
  /\ Removed(b[n])
  /\ n' = n + 1
  /\ UNCHANGED <<b, bn, prev, curr, preEnd, curEnd, opts, out, pc>>

\* Line 693-694: sam_write1 fails (goto write_fail).
WriteFails ==
  /\ WriteStep
  /\ ~Removed(b[n])
  /\ pc' = "wfail"
  /\ UNCHANGED <<b, bn, n, prev, curr, preEnd, curEnd, opts, out>>

WriteEnd ==
  /\ pc = "write" /\ n = bn
  /\ pc' = "done"
  /\ UNCHANGED <<b, bn, n, prev, curr, preEnd, curEnd, opts, out>>

\* The template is finished, or the run has stopped.
Terminated ==
  /\ pc \in {"done", "fail", "wfail", "abort", "crash"}
  /\ UNCHANGED vars

Next ==
  \/ ScanSecondary \/ ScanFirstPrimary \/ ScanPair \/ ScanPairFails
  \/ ScanEndPaired \/ ScanEndUnpaired \/ ScanEndNoPrimary
  \/ WriteRecord \/ WriteSkip \/ WriteFails \/ WriteEnd
  \/ Terminated

Spec == Init /\ [][Next]_vars


-----------------------------------------------------------------------------
TypeOK ==
  /\ bn \in Nat \ {0}
  /\ DOMAIN b = 0..(bn - 1)
  /\ \A k \in 0..(bn - 1) : IsRec(b[k])
  /\ n \in 0..bn
  /\ prev \in {None} \cup 0..(bn - 1)
  /\ curr \in {None} \cup 0..(bn - 1)
  /\ preEnd \in Int /\ curEnd \in Int
  /\ opts \in [remove : BOOLEAN, ppc : BOOLEAN, ct : BOOLEAN, ms : BOOLEAN]
  /\ out \in Seq(0..(bn - 1))
  /\ pc \in {"scan", "write", "done", "fail", "wfail", "abort", "crash"}

Primaries == {k \in 0..(bn - 1) : Primary(b[k])}
Scanned == pc \in {"write", "done"}
TagVal(r, k) == r.aux[FirstTag(r.aux, k)].val

(***************************************************************************)
(* After the scan of a template with two primary records, each carries its *)
(* mate's coordinates (sync_mate_inner, taken after sync_unmapped_pos has  *)
(* moved an unmapped read onto its mate), the mate's strand (unless -r     *)
(* cleared it because the mate is unmapped), the mate-unmapped flag when   *)
(* the mate is unmapped, the mate's MAPQ and CIGAR in MQ and MC            *)
(* (sync_mq_mc), and opposite TLENs.                                       *)
(***************************************************************************)
MateFieldsSynchronized ==
  (Scanned /\ Cardinality(Primaries) = 2)
    => \A p, q \in Primaries : p /= q =>
         LET r == b[p]  m == b[q]
         IN  /\ r.mtid = m.tid /\ r.mpos = m.pos
             /\ ~Mapped(r) /\ Mapped(m) => r.tid = m.tid /\ r.pos = m.pos
             /\ (~opts.remove \/ Mapped(m))
                  => (FMREVERSE \in r.flag <=> FREVERSE \in m.flag)
             /\ ~Mapped(m) => FMUNMAP \in r.flag
             /\ Mapped(m) => HasTag(r.aux, "MQ") /\ TagVal(r, "MQ") = m.qual
             /\ (Mapped(r) \/ Mapped(m))
                  => HasTag(r.aux, "MC") /\ TagVal(r, "MC") = FormatCigar(m.cigar)
             /\ r.isize = -m.isize

(***************************************************************************)
(* With the proper-pair check on, fixmate never leaves PROPER_PAIR on a    *)
(* pair that is not mapped to one reference in FR orientation: the forward *)
(* read's 5' end (its start) at or left of the reverse read's 5' end (its  *)
(* alignment end).                                                         *)
(***************************************************************************)
FROriented(r, m) ==
  /\ Mapped(r) /\ Mapped(m) /\ r.tid = m.tid
  /\ \E f, v \in {r, m} :
       /\ FREVERSE \notin f.flag /\ FREVERSE \in v.flag
       /\ f.pos <= EndPos(v)

ProperPairOnlyIfPlausible ==
  (Scanned /\ opts.ppc /\ Cardinality(Primaries) = 2)
    => \A p, q \in Primaries :
         (p /= q /\ FPROPER \in b[p].flag) => FROriented(b[p], b[q])

(***************************************************************************)
(* With -r, removing the unmapped and secondary records leaves no orphan:  *)
(* a primary record written with PAIRED set has its primary mate written   *)
(* too, and a template whose primary records are all written keeps them    *)
(* all (bam_mate.c:662-669 and 690).                                       *)
(***************************************************************************)
Written == {out[i] : i \in 1..Len(out)}

RemovalLeavesNoOrphans ==
  (pc = "done" /\ opts.remove /\ Cardinality(Primaries) = 2)
    => \A p \in Written \cap Primaries :
         FPAIRED \in b[p].flag => Primaries \subseteq Written

(***************************************************************************)
(* bam_mating_core dereferences pre at line 674 whenever cur is NULL, so a *)
(* template without a primary record must never reach that line.          *)
(***************************************************************************)
NoNullDereference == pc /= "crash"

(***************************************************************************)
(* Spec 4.3: when both mates are mapped to the same reference, each TLEN   *)
(* is the other's 5' coordinate minus its own.  The code also requires     *)
(* the mate-unmapped flag to be clear on both (line 626-627), a flag that  *)
(* sync_mate only ever sets, so a stale MUNMAP from the input survives.    *)
(***************************************************************************)
InsertSizeWhenBothMapped ==
  (Scanned /\ Cardinality(Primaries) = 2)
    => \A p, q \in Primaries :
         (p /= q /\ Mapped(b[p]) /\ Mapped(b[q]) /\ b[p].tid = b[q].tid)
           => b[p].isize = FivePrime(b[q], EndPos(b[q])) - FivePrime(b[p], EndPos(b[p]))
=============================================================================
