------------------------- MODULE MateFix_type_proofs -------------------------
(***************************************************************************)
(* Type correctness of one template of bam_mating_core (src/bam_mate.c:    *)
(* 597-696): every record stays a bam1_t of the shape IsRec describes      *)
(* through sync_mate, the TLEN computation, bam_template_cigar, the        *)
(* proper-pair check, add_mate_score and the -r fix-up, and pre_end and    *)
(* cur_end stay integers.                                                  *)
(***************************************************************************)
EXTENDS MateFix_proofs, BamRecord_proofs, TLAPS

(***************************************************************************)
(* sync_mate and its helpers (lines 113-223) keep a record a record.       *)
(***************************************************************************)
LEMMA RecSyncUnmappedPos ==
  ASSUME NEW x, NEW y, IsRec(x), IsRec(y)
  PROVE  IsRec(SyncUnmappedPosInner(x, y))
BY DEF SyncUnmappedPosInner, IsRec

LEMMA RecSyncMateInner ==
  ASSUME NEW x, NEW y, IsRec(x), IsRec(y)
  PROVE  IsRec(SyncMateInner(x, y))
BY DEF SyncMateInner, IsRec, Flags, FMREVERSE, FMUNMAP

LEMMA RecSyncMqMc ==
  ASSUME NEW x, NEW y, IsRec(x), IsRec(y)
  PROVE  IsRec(SyncMqMc(x, y))
<1> DEFINE mq == IF Mapped(x) THEN AuxReplace(y.aux, "MQ", x.qual) ELSE y.aux
<1>1. IsTagStream(y.aux)
  BY DEF IsRec
<1>2. IsTagStream(mq)
  BY <1>1, AuxReplaceStream
<1>3. IsTagStream(AuxReplace(mq, "MC", FormatCigar(x.cigar)))
  BY <1>2, AuxReplaceStream
<1> QED
  BY <1>2, <1>3 DEF SyncMqMc, IsRec

LEMMA RecSyncMate ==
  ASSUME NEW x, NEW y, IsRec(x), IsRec(y)
  PROVE  IsRec(SyncMate(x, y)[1]) /\ IsRec(SyncMate(x, y)[2])
<1> DEFINE c1 == SyncUnmappedPosInner(x, y)
           a1 == SyncUnmappedPosInner(c1, x)
           c2 == SyncMateInner(a1, c1)
           a2 == SyncMateInner(c2, a1)
           c3 == SyncMqMc(a2, c2)
           a3 == SyncMqMc(c3, a2)
<1>1. SyncMate(x, y) = << a3, c3 >>
  BY DEF SyncMate
<1>2. IsRec(c1) /\ IsRec(a1)
  BY RecSyncUnmappedPos
<1>3. IsRec(c2) /\ IsRec(a2)
  BY <1>2, RecSyncMateInner
<1>4. IsRec(c3) /\ IsRec(a3)
  BY <1>3, RecSyncMqMc
<1> QED
  BY <1>1, <1>4

(***************************************************************************)
(* The TLEN computation (lines 625-639) gives integers when pre_end and    *)
(* cur_end are integers; bam_template_cigar (47-77) and add_mate_score     *)
(* (240-254) rewrite tag streams into tag streams.                         *)
(***************************************************************************)
LEMMA RecSetIsize ==
  ASSUME NEW x, NEW y, IsRec(x), IsRec(y), NEW pe \in Int, NEW ce \in Int
  PROVE  IsRec(SetIsize(x, y, pe, ce)[1]) /\ IsRec(SetIsize(x, y, pe, ce)[2])
<1>1. FivePrime(x, pe) \in Int /\ FivePrime(y, ce) \in Int
  BY DEF FivePrime, IsRec
<1>2. \A r \in {x, y}, v \in Int : IsRec([r EXCEPT !.isize = v])
  BY DEF IsRec
<1>3. FivePrime(y, ce) - FivePrime(x, pe) \in Int /\ FivePrime(x, pe) - FivePrime(y, ce) \in Int
  BY <1>1
<1> QED
  BY ONLY <1>2, <1>3 DEF SetIsize

LEMMA RecTemplateCigar ==
  ASSUME NEW x, NEW y, IsRec(x), IsRec(y)
  PROVE  IsRec(BamTemplateCigar(x, y)[1]) /\ IsRec(BamTemplateCigar(x, y)[2])
<1>1. \A r, o \in {x, y} :
        /\ IsRec([r EXCEPT !.aux = AuxReplace(@, "ct", CtValue(r, o))])
        /\ IsRec([r EXCEPT !.aux = AuxDel(@, "ct")])
  <2> SUFFICES ASSUME NEW r \in {x, y}, NEW o \in {x, y}
               PROVE  /\ IsRec([r EXCEPT !.aux = AuxReplace(@, "ct", CtValue(r, o))])
                      /\ IsRec([r EXCEPT !.aux = AuxDel(@, "ct")])
    OBVIOUS
  <2>1. IsRec(r) /\ IsTagStream(r.aux)
    BY DEF IsRec
  <2>2. IsTagStream(AuxReplace(r.aux, "ct", CtValue(r, o)))
    BY <2>1, AuxReplaceStream
  <2>3. IsTagStream(AuxDel(r.aux, "ct"))
    BY <2>1, AuxDelStream
  <2> QED
    BY <2>1, <2>2, <2>3 DEF IsRec
<1> QED
  BY <1>1 DEF BamTemplateCigar

LEMMA RecAddMateScore ==
  ASSUME NEW x, NEW y, IsRec(y)
  PROVE  IsRec(AddMateScore(x, y))
<1>1. IsTagStream(AuxReplace(y.aux, "ms", CalcMateScore(x)))
  BY AuxReplaceStream DEF IsRec
<1> QED
  BY <1>1 DEF AddMateScore, IsRec

\* Clearing flags, as the proper-pair check and the -r fix-up do.
LEMMA RecClearFlags ==
  ASSUME NEW x, IsRec(x), NEW F
  PROVE  IsRec([x EXCEPT !.flag = @ \ F])
BY DEF IsRec

LEMMA RecRemoveFixup ==
  ASSUME NEW x, NEW y, IsRec(x), IsRec(y)
  PROVE  IsRec(RemoveFixup(x, y)[1]) /\ IsRec(RemoveFixup(x, y)[2])
<1>1. IsRec(IF opts.remove /\ ~Mapped(x) THEN [y EXCEPT !.flag = @ \ PairBadFlags] ELSE y)
  BY RecClearFlags
<1> QED
  BY <1>1, RecClearFlags DEF RemoveFixup

(***************************************************************************)
(* The whole of lines 614-669 on two records: pre and cur stay records.    *)
(***************************************************************************)
LEMMA PairUpRec ==
  ASSUME NEW x, NEW y, IsRec(x), IsRec(y), NEW pe \in Int, NEW ce \in Int
  PROVE  IsRec(PairUp(SyncMate(x, y), pe, ce)[1]) /\ IsRec(PairUp(SyncMate(x, y), pe, ce)[2])
<1> DEFINE sm == SyncMate(x, y)
<1>1. IsRec(sm[1]) /\ IsRec(sm[2])
  BY RecSyncMate
<1>2. IsRec(PairTs(sm, pe, ce)[1]) /\ IsRec(PairTs(sm, pe, ce)[2])
  BY <1>1, RecSetIsize DEF PairTs
<1>3. IsRec(PairCt(sm, pe, ce)[1]) /\ IsRec(PairCt(sm, pe, ce)[2])
  BY <1>2, RecTemplateCigar DEF PairCt
<1>4. IsRec(PairP1(sm, pe, ce)) /\ IsRec(PairC1(sm, pe, ce))
  BY <1>3, RecClearFlags DEF PairP1, PairC1
<1>5. IsRec(PairC2(sm, pe, ce))
  BY <1>4, RecAddMateScore DEF PairC2
<1>6. IsRec(PairP2(sm, pe, ce))
  BY <1>4, <1>5, RecAddMateScore DEF PairP2
<1> QED
  BY <1>5, <1>6, RecRemoveFixup DEF PairUp

-----------------------------------------------------------------------------
(* The type invariant, one lemma per action.                               *)

\* The records of the template are records.
RecTable == \A k \in 0..(bn - 1) : IsRec(b[k])

LEMMA InitTypeOK == Init => TypeOK
<1> SUFFICES ASSUME Init PROVE TypeOK
  OBVIOUS
<1>1. PICK t \in Templates : b = [k \in 0..(Len(t) - 1) |-> t[k + 1]] /\ bn = Len(t)
  BY DEF Init
<1>2. Len(t) \in Nat \ {0} /\ \A k \in 1..Len(t) : IsRec(t[k])
  BY TemplatesAssumption
<1>3. \A k \in 0..(bn - 1) : IsRec(b[k])
  BY <1>1, <1>2
<1> QED
  BY <1>1, <1>2, <1>3, OptChoicesAssumption DEF Init, TypeOK, None

\* A step that changes neither b nor bn nor the ends keeps the table typed.
LEMMA StepStopsType ==
  ASSUME TypeOK, Terminated \/ UNCHANGED vars \/ ScanPairFails \/ ScanEndNoPrimary
                 \/ WriteFails \/ WriteEnd \/ ScanEndPaired \/ ScanSecondary
                 \/ WriteSkip
  PROVE  TypeOK'
BY DEF TypeOK, Terminated, vars, ScanPairFails, ScanEndNoPrimary, WriteFails,
       WriteEnd, ScanEndPaired, ScanSecondary, WriteSkip, ScanStep, WriteStep

LEMMA StepWriteRecordType ==
  ASSUME TypeOK, WriteRecord
  PROVE  TypeOK'
<1>1. n \in 0..(bn - 1) /\ out \in Seq(0..(bn - 1))
  BY DEF TypeOK, WriteRecord, WriteStep
<1>2. Append(out, n) \in Seq(0..(bn - 1))
  BY <1>1, AppendProperties
<1> QED
  BY <1>1, <1>2 DEF TypeOK, WriteRecord, WriteStep

LEMMA StepScanFirstPrimaryType ==
  ASSUME TypeOK, ScanFirstPrimary
  PROVE  TypeOK'
<1>1. n \in 0..(bn - 1) /\ IsRec(b[n])
  BY DEF TypeOK, ScanFirstPrimary, ScanStep
<1>a. b[n].pos \in Int /\ b[n].cigar \in Cigar
  BY <1>1 DEF IsRec, Cigar
<1>b. EndPos(b[n]) \in Int
  BY <1>a, EndPosInt
<1>2. (IF Mapped(b[n]) THEN EndPos(b[n]) ELSE 0) \in Int
  BY <1>b
<1> QED
  BY <1>1, <1>2 DEF TypeOK, ScanFirstPrimary, ScanStep

LEMMA StepScanEndUnpairedType ==
  ASSUME TypeOK, ScanEndUnpaired
  PROVE  TypeOK'
<1>1. prev \in 0..(bn - 1) /\ IsRec(b[prev])
  BY DEF TypeOK, ScanEndUnpaired, None
<1> DEFINE r == b[prev]
           u == [r EXCEPT !.mtid = -1, !.mpos = -1, !.isize = 0,
                          !.flag = r.flag \ PairBadFlags]
<1>a. b' = [b EXCEPT ![prev] = u] /\ n' = 0 /\ pc' = "write"
      /\ UNCHANGED <<bn, prev, curr, preEnd, curEnd, opts, out>>
  BY DEF ScanEndUnpaired
<1>b. r.flag \ PairBadFlags \subseteq Flags
  BY <1>1 DEF IsRec
<1>2. IsRec(u)
  BY <1>1, <1>b DEF IsRec
<1>3. \A k \in 0..(bn - 1) : IsRec(b'[k])
  BY <1>1, <1>2, <1>a DEF TypeOK
<1> QED
  BY <1>1, <1>3, <1>a DEF TypeOK

(***************************************************************************)
(* Lines 614-669: pairing rewrites pre and cur into records, and cur_end   *)
(* is bam_endpos of a record, an integer.                                  *)
(***************************************************************************)
\* The records and ends ScanPair hands to the pairing steps.
LEMMA ScanPairArgs ==
  ASSUME TypeOK, ScanPair
  PROVE  /\ n \in 0..(bn - 1) /\ prev \in 0..(bn - 1)
         /\ IsRec(P0) /\ IsRec(C0) /\ CE \in Int /\ preEnd \in Int
<1>1. n \in 0..(bn - 1) /\ prev \in 0..(bn - 1) /\ IsRec(b[n]) /\ IsRec(b[prev])
  BY DEF TypeOK, ScanPair, ScanStep, None
<1>2. IsRec(P0) /\ IsRec(C0)
  <2>1. b[prev].flag \cup {FPAIRED} \subseteq Flags /\ b[n].flag \cup {FPAIRED} \subseteq Flags
    BY <1>1 DEF IsRec, Flags
  <2> QED
    BY <1>1, <2>1 DEF P0, C0, IsRec
<1>3. CE \in Int /\ preEnd \in Int
  <2>1. b[n].pos \in Int /\ b[n].cigar \in Cigar
    BY <1>1 DEF IsRec, Cigar
  <2>2. EndPos(b[n]) \in Int
    BY <2>1, EndPosInt
  <2> QED
    BY <2>2 DEF CE, TypeOK
<1> QED
  BY <1>1, <1>2, <1>3

LEMMA StepScanPairType ==
  ASSUME TypeOK, ScanPair
  PROVE  TypeOK'
<1>1. /\ n \in 0..(bn - 1) /\ prev \in 0..(bn - 1)
      /\ IsRec(P0) /\ IsRec(C0) /\ CE \in Int /\ preEnd \in Int
  BY ScanPairArgs
<1>2. n \in 0..(bn - 1) /\ prev \in 0..(bn - 1) /\ bn \in Nat
  BY <1>1 DEF TypeOK
<1>3. CE \in Int /\ preEnd \in Int
  BY <1>1
<1>4. IsRec(PairR[1]) /\ IsRec(PairR[2])
  BY <1>1, PairUpRec DEF PairR
<1>5. PICK fx \in {PairFixups(SyncMate(P0, C0), preEnd, CE)} :
        IF fx.assertFails
        THEN pc' = "abort" /\ UNCHANGED <<b, n, curr, curEnd>>
        ELSE /\ b' = [b EXCEPT ![prev] = fx.pair[1], ![n] = fx.pair[2]]
             /\ curr' = n /\ curEnd' = CE /\ n' = n + 1 /\ UNCHANGED pc
  BY DEF ScanPair, P0, C0, CE
<1>6. fx.pair = PairR
  BY <1>5, PairFixupsPair DEF PairR
<1>7. UNCHANGED <<bn, prev, preEnd, opts, out>>
  BY DEF ScanPair
<1>8. CASE fx.assertFails
  BY <1>5, <1>7, <1>8 DEF TypeOK
<1>9. CASE ~fx.assertFails
  <2>1. b' = [b EXCEPT ![prev] = PairR[1], ![n] = PairR[2]]
        /\ curr' = n /\ curEnd' = CE /\ n' = n + 1 /\ pc' = pc
    BY <1>5, <1>6, <1>9
  <2>2. \A k \in 0..(bn - 1) : IsRec(b'[k])
    BY <1>2, <1>4, <2>1 DEF TypeOK
  <2>3. DOMAIN b' = 0..(bn' - 1) /\ bn' \in Nat \ {0}
    BY <1>7, <2>1 DEF TypeOK
  <2>4. n' \in 0..bn' /\ curr' \in {None} \cup 0..(bn' - 1) /\ prev' \in {None} \cup 0..(bn' - 1)
    <3>1. bn' = bn /\ prev' = prev /\ curr' = n /\ n' = n + 1
      BY <1>7, <2>1
    <3> QED
      BY ONLY <1>2, <3>1
  <2>5. preEnd' \in Int /\ curEnd' \in Int
    BY <1>3, <1>7, <2>1
  <2>6. /\ opts' \in [remove : BOOLEAN, ppc : BOOLEAN, ct : BOOLEAN, ms : BOOLEAN]
        /\ out' \in Seq(0..(bn' - 1))
        /\ pc' \in {"scan", "write", "done", "fail", "wfail", "abort", "crash"}
    BY <1>7, <2>1 DEF TypeOK
  <2> QED
    BY <1>7, <2>2, <2>3, <2>4, <2>5, <2>6 DEF TypeOK
<1> QED
  BY <1>8, <1>9

LEMMA NextTypeOK == TypeOK /\ [Next]_vars => TypeOK'
BY StepStopsType, StepWriteRecordType, StepScanFirstPrimaryType,
   StepScanEndUnpairedType, StepScanPairType DEF Next

(***************************************************************************)
(* bam_mating_core keeps every record of a template a well-formed bam1_t   *)
(* (the fields fixmate reads and writes, with a well-formed tag stream),   *)
(* keeps its positions pre and cur within the template and pre_end and     *)
(* cur_end integers, and writes only indices of the template.              *)
(***************************************************************************)
THEOREM TypeCorrect == Spec => []TypeOK
<1>1. Init => TypeOK
  BY InitTypeOK
<1>2. TypeOK /\ [Next]_vars => TypeOK'
  BY NextTypeOK
<1> QED
  BY <1>1, <1>2, PTL DEF Spec

-----------------------------------------------------------------------------
(* The proper-pair check, lines 141-161 and 643-646.                       *)

\* y has x's coordinates, CIGAR, mapped state and strand: what
\* FROriented reads.
Geom(x, y) ==
  /\ y.tid = x.tid /\ y.pos = x.pos /\ y.cigar = x.cigar
  /\ Mapped(y) <=> Mapped(x)
  /\ FREVERSE \in y.flag <=> FREVERSE \in x.flag

LEMMA GeomClear ==
  ASSUME NEW x, IsRec(x), NEW F, FUNMAP \notin F, FREVERSE \notin F
  PROVE  Geom(x, [x EXCEPT !.flag = @ \ F]) /\ IsRec([x EXCEPT !.flag = @ \ F])
BY RecClearFlags DEF Geom, Mapped, IsRec

LEMMA GeomMateScore ==
  ASSUME NEW x, NEW y, IsRec(y)
  PROVE  Geom(y, AddMateScore(x, y)) /\ IsRec(AddMateScore(x, y))
BY RecAddMateScore DEF Geom, Mapped, AddMateScore, IsRec

\* FR orientation depends only on what Geom keeps.
LEMMA FRGeom ==
  ASSUME NEW x1, NEW x2, NEW y1, NEW y2, Geom(x1, y1), Geom(x2, y2),
         FROriented(x1, x2)
  PROVE  FROriented(y1, y2)
<1>1. EndPos(y1) = EndPos(x1) /\ EndPos(y2) = EndPos(x2)
  BY DEF Geom, EndPos
<1>2. PICK f \in {x1, x2}, v \in {x1, x2} :
        FREVERSE \notin f.flag /\ FREVERSE \in v.flag /\ f.pos <= EndPos(v)
  BY DEF FROriented
<1>3. CASE f = x1 /\ v = x2
  BY <1>1, <1>2, <1>3 DEF FROriented, Geom
<1>4. CASE f = x2 /\ v = x1
  BY <1>1, <1>2, <1>4 DEF FROriented, Geom
<1> QED
  BY <1>2, <1>3, <1>4 DEF FROriented, Geom

\* plausibly_properly_paired accepts only an FR pair on one reference.
LEMMA PlausibleFR ==
  ASSUME NEW a, NEW c, IsRec(a), IsRec(c), Plausible(a, c).ok
  PROVE  FROriented(a, c)
<1>1. EndPos(a) \in Int /\ EndPos(c) \in Int /\ a.pos \in Int /\ c.pos \in Int
  BY EndPosInt DEF IsRec, Cigar
<1> DEFINE aPos == IF FREVERSE \in a.flag THEN EndPos(a) ELSE a.pos
           cPos == IF FREVERSE \in c.flag THEN EndPos(c) ELSE c.pos
<1>2. Mapped(a) /\ Mapped(c) /\ a.tid = c.tid
  BY DEF Plausible
<1>3. CASE aPos > cPos
  <2>1. FREVERSE \notin c.flag /\ FREVERSE \in a.flag
    BY <1>2, <1>3 DEF Plausible
  <2>2. c.pos <= EndPos(a)
    BY <1>1, <1>3, <2>1
  <2> QED
    BY <1>2, <2>1, <2>2 DEF FROriented
<1>4. CASE ~(aPos > cPos)
  <2>1. FREVERSE \notin a.flag /\ FREVERSE \in c.flag
    BY <1>2, <1>4 DEF Plausible
  <2>2. a.pos <= EndPos(c)
    BY <1>1, <1>4, <2>1
  <2> QED
    BY <1>2, <2>1, <2>2 DEF FROriented
<1> QED
  BY <1>3, <1>4

\* y is a record with x's geometry and at most x's flags.
Shrinks(x, y) == Geom(x, y) /\ y.flag \subseteq x.flag /\ IsRec(y)

LEMMA ShrinksClear ==
  ASSUME NEW x, IsRec(x), NEW F, F \subseteq PairBadFlags
  PROVE  Shrinks(x, [x EXCEPT !.flag = @ \ F])
<1>1. FUNMAP \notin F /\ FREVERSE \notin F
  BY DEF PairBadFlags, FUNMAP, FREVERSE, FPAIRED, FMREVERSE, FPROPER
<1> QED
  BY <1>1, GeomClear DEF Shrinks, IsRec

LEMMA ShrinksTrans ==
  ASSUME NEW x, NEW y, NEW z, Shrinks(x, y), Shrinks(y, z)
  PROVE  Shrinks(x, z)
BY DEF Shrinks, Geom

(***************************************************************************)
(* After the proper-pair check of lines 643-646 and everything after it,   *)
(* pre or cur keeps PROPER_PAIR only if the pair passed the check, and the *)
(* steps after the check change nothing the check looked at.               *)
(***************************************************************************)
LEMMA PairUpProper ==
  ASSUME NEW x, NEW y, IsRec(x), IsRec(y), NEW pe \in Int, NEW ce \in Int,
         opts.ppc,
         FPROPER \in PairUp(SyncMate(x, y), pe, ce)[1].flag
           \/ FPROPER \in PairUp(SyncMate(x, y), pe, ce)[2].flag
  PROVE  FROriented(PairUp(SyncMate(x, y), pe, ce)[1], PairUp(SyncMate(x, y), pe, ce)[2])
<1> DEFINE sm == SyncMate(x, y)
           ct == PairCt(sm, pe, ce)
           p1 == PairP1(sm, pe, ce)
           c1 == PairC1(sm, pe, ce)
           p2 == PairP2(sm, pe, ce)
           c2 == PairC2(sm, pe, ce)
           f  == PairUp(sm, pe, ce)
<1>1. IsRec(ct[1]) /\ IsRec(ct[2])
  <2>1. IsRec(sm[1]) /\ IsRec(sm[2])
    BY RecSyncMate
  <2>2. IsRec(PairTs(sm, pe, ce)[1]) /\ IsRec(PairTs(sm, pe, ce)[2])
    BY <2>1, RecSetIsize DEF PairTs
  <2> QED
    BY <2>2, RecTemplateCigar DEF PairCt
<1>2. Shrinks(ct[1], p1) /\ Shrinks(ct[2], c1)
  <2>1. Shrinks(ct[1], ct[1]) /\ Shrinks(ct[2], ct[2])
    BY <1>1 DEF Shrinks, Geom
  <2>2. {FPROPER} \subseteq PairBadFlags
    BY DEF PairBadFlags
  <2> QED
    BY <1>1, <2>1, <2>2, ShrinksClear DEF PairP1, PairC1
<1>3. Shrinks(c1, c2) /\ Shrinks(p1, p2)
  <2>1. IsRec(p1) /\ IsRec(c1)
    BY <1>2 DEF Shrinks
  <2>2. Shrinks(c1, c2)
    BY <2>1, GeomMateScore DEF PairC2, Shrinks, Geom, AddMateScore
  <2>3. Shrinks(p1, p2)
    BY <2>1, GeomMateScore DEF PairP2, Shrinks, Geom, AddMateScore
  <2> QED
    BY <2>2, <2>3
<1>4. Shrinks(p2, f[1]) /\ Shrinks(c2, f[2])
  <2>1. IsRec(p2) /\ IsRec(c2)
    BY <1>3 DEF Shrinks
  <2>2. Shrinks(p2, p2) /\ Shrinks(c2, c2)
    BY <2>1 DEF Shrinks, Geom
  <2>3. PairBadFlags \subseteq PairBadFlags
    OBVIOUS
  <2> DEFINE c3 == IF opts.remove /\ ~Mapped(p2)
                   THEN [c2 EXCEPT !.flag = @ \ PairBadFlags] ELSE c2
  <2>4. Shrinks(c2, c3)
    BY <2>1, <2>2, <2>3, ShrinksClear
  <2>5. Shrinks(p2, IF opts.remove /\ ~Mapped(c3)
                    THEN [p2 EXCEPT !.flag = @ \ PairBadFlags] ELSE p2)
    BY <2>1, <2>2, <2>3, ShrinksClear
  <2> QED
    BY <2>4, <2>5 DEF PairUp, RemoveFixup
<1>5. Shrinks(ct[1], f[1]) /\ Shrinks(ct[2], f[2])
  BY <1>2, <1>3, <1>4, ShrinksTrans
<1>6. ~PairClear(sm, pe, ce)
  <2> SUFFICES ASSUME PairClear(sm, pe, ce) PROVE FALSE
    OBVIOUS
  <2>1. FPROPER \notin p1.flag /\ FPROPER \notin c1.flag
    BY <1>1 DEF PairP1, PairC1, IsRec
  <2> QED
    BY <1>3, <1>4, <2>1 DEF Shrinks
<1>7. FROriented(ct[1], ct[2])
  BY <1>1, <1>6, PlausibleFR DEF PairClear
<1> QED
  BY <1>5, <1>7, FRGeom DEF Shrinks

(***************************************************************************)
(* The inductive invariant: once pre and cur are paired with the check on *)
(* (no -p), a PROPER_PAIR flag on either means the two are FR-oriented.   *)
(***************************************************************************)
PairedPlausible ==
  (opts.ppc /\ curr /= None /\ (FPROPER \in b[prev].flag \/ FPROPER \in b[curr].flag))
    => FROriented(b[prev], b[curr])

LEMMA StepPairedPlausible ==
  ASSUME IInv, TypeOK, PairedPlausible, [Next]_vars
  PROVE  PairedPlausible'
<1>s. ShapeInv /\ ScanInv
  BY DEF IInv
<1>1. CASE UNCHANGED <<b, prev, curr, opts>>
  BY <1>1 DEF PairedPlausible
<1>2. CASE ScanFirstPrimary \/ ScanEndUnpaired
  <2>1. curr' = None
    BY <1>2, <1>s DEF ScanFirstPrimary, ScanEndUnpaired, ScanStep, ScanInv
  <2> QED
    BY <2>1 DEF PairedPlausible
<1>3. CASE ScanPair
  <2>0. /\ n \in 0..(bn - 1) /\ prev \in 0..(bn - 1)
        /\ IsRec(P0) /\ IsRec(C0) /\ CE \in Int /\ preEnd \in Int
    BY <1>3, ScanPairArgs
  <2>1. /\ prev' = prev /\ opts' = opts
        /\ \/ b' = b /\ curr' = curr
           \/ b' = [b EXCEPT ![prev] = PairR[1], ![n] = PairR[2]] /\ curr' = n
    BY <1>3, ScanPairCases DEF PairR
  <2>2. CASE b' = b /\ curr' = curr
    BY <2>1, <2>2 DEF PairedPlausible
  <2>3. CASE b' = [b EXCEPT ![prev] = PairR[1], ![n] = PairR[2]] /\ curr' = n
    <3>1. prev /= n /\ DOMAIN b = 0..(bn - 1)
      BY <1>3, <1>s DEF ScanPair, ScanStep, ScanInv, Lim, None, TypeOK
    <3>2. b'[prev'] = PairR[1] /\ b'[curr'] = PairR[2] /\ curr' /= None
      BY <2>0, <2>1, <2>3, <3>1 DEF None
    <3>3. opts.ppc /\ (FPROPER \in PairR[1].flag \/ FPROPER \in PairR[2].flag)
            => FROriented(PairR[1], PairR[2])
      BY <2>0, PairUpProper DEF PairR
    <3> QED
      BY <2>1, <3>2, <3>3 DEF PairedPlausible
  <2> QED
    BY <2>1, <2>2, <2>3
<1> QED
  BY <1>1, <1>2, <1>3 DEF Next, vars, ScanSecondary, ScanPairFails, ScanEndPaired,
     ScanEndNoPrimary, WriteRecord, WriteSkip, WriteFails, WriteEnd, Terminated

LEMMA FRSym ==
  ASSUME NEW r, NEW m, FROriented(r, m)
  PROVE  FROriented(m, r)
<1>1. {r, m} = {m, r}
  OBVIOUS
<1> QED
  BY <1>1 DEF FROriented

\* After the scan, the two primaries of a template are pre and cur.
LEMMA TwoPrimariesPaired ==
  ASSUME IInv, Scanned, Cardinality(Primaries) = 2,
         NEW p \in Primaries, NEW q \in Primaries, p /= q
  PROVE  curr /= None /\ {p, q} = {prev, curr}
<1>s. ShapeInv /\ ScanInv
  BY DEF IInv
<1>1. Lim = bn /\ bn \in Nat /\ pc \in {"write", "done"}
  BY <1>s DEF Lim, ShapeInv, Scanned
<1>2. curr /= None
  <2> SUFFICES ASSUME curr = None PROVE FALSE
    OBVIOUS
  <2> QED
    BY <1>1, <1>s DEF ScanInv, Primaries
<1>3. prev \in 0..(bn - 1) /\ curr \in 0..(bn - 1) /\ prev /= curr
      /\ Primary(b[prev]) /\ Primary(b[curr])
  BY <1>1, <1>2, <1>s DEF ScanInv, ShapeInv, None
<1>4. IsFiniteSet(Primaries)
  <2>1. IsFiniteSet(0..(bn - 1))
    BY <1>1, FS_Interval
  <2> QED
    BY <2>1, FS_Subset DEF Primaries
<1>5. Primaries = {prev, curr}
  <2>1. {prev, curr} \subseteq Primaries
    BY <1>3 DEF Primaries
  <2>2. Cardinality({prev, curr}) = 2
    <3>1. IsFiniteSet({prev}) /\ Cardinality({prev}) = 1
      BY FS_Singleton
    <3>2. Cardinality({prev} \cup {curr})
            = IF curr \in {prev} THEN Cardinality({prev}) ELSE Cardinality({prev}) + 1
      BY <3>1, FS_AddElement
    <3> QED
      BY <1>3, <3>1, <3>2
  <2> QED
    BY <1>4, <2>1, <2>2, FS_Subset
<1> QED
  BY <1>2, <1>5

LEMMA PairedProperPlausible ==
  IInv /\ PairedPlausible => ProperPairOnlyIfPlausible
<1> SUFFICES ASSUME IInv, PairedPlausible, Scanned, opts.ppc, Cardinality(Primaries) = 2,
                    NEW p \in Primaries, NEW q \in Primaries, p /= q, FPROPER \in b[p].flag
             PROVE  FROriented(b[p], b[q])
  BY DEF ProperPairOnlyIfPlausible
<1>1. curr /= None /\ {p, q} = {prev, curr}
  BY TwoPrimariesPaired
<1>2. FROriented(b[prev], b[curr])
  BY <1>1 DEF PairedPlausible
<1>3. CASE p = prev /\ q = curr
  BY <1>2, <1>3
<1>4. CASE p = curr /\ q = prev
  BY <1>2, <1>4, FRSym
<1> QED
  BY <1>1, <1>3, <1>4

(***************************************************************************)
(* Without -p, fixmate leaves PROPER_PAIR on a primary record of a         *)
(* two-primary template only when it and its mate are mapped to one        *)
(* reference in FR orientation: plausibly_properly_paired (lines 138-161)  *)
(* clears the flag otherwise, and nothing after it on lines 647-669        *)
(* changes what it looked at.                                              *)
(***************************************************************************)
THEOREM ProperPairsPlausible == Spec => []ProperPairOnlyIfPlausible
<1> DEFINE Inv == IInv /\ TypeOK /\ PairedPlausible
<1>1. Init => Inv
  <2> SUFFICES ASSUME Init PROVE Inv
    OBVIOUS
  <2>1. curr = None
    BY DEF Init
  <2> QED
    BY <2>1, InitIInv, InitTypeOK DEF PairedPlausible
<1>2. Inv /\ [Next]_vars => Inv'
  BY NextIInv, NextTypeOK, StepPairedPlausible
<1>3. Inv => ProperPairOnlyIfPlausible
  BY PairedProperPlausible
<1> QED
  BY <1>1, <1>2, <1>3, PTL DEF Spec
=============================================================================
