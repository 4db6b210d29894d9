--------------------------- MODULE MateFix_proofs ---------------------------
(***************************************************************************)
(* TLAPS proofs about one template of bam_mating_core (src/bam_mate.c:     *)
(* 597-696): with -r, removing the unmapped and secondary records leaves   *)
(* no primary record flagged PAIRED without its mate.  The argument is     *)
(* about flags only, so it holds whatever the positions and CIGAR lengths  *)
(* are; the facts that need bam_cigar2rlen are in MateFix_type_proofs.    *)
(***************************************************************************)
EXTENDS MateFix, FiniteSetTheorems, SequenceTheorems, TLAPS

\* The fields of a record, as IsRec lists them.
RecFields == {"tid", "pos", "flag", "qual", "cigar", "aux", "mtid", "mpos",
              "isize", "bq"}

\* The flags that decide whether a record is primary and whether it is
\* mapped; no step of sync_mate .. add_mate_score touches them.
Kept == {FUNMAP, FSECONDARY, FSUPPL}

\* y has x's fields and x's Kept flags.
Keeps(x, y) == DOMAIN y = DOMAIN x /\ y.flag \cap Kept = x.flag \cap Kept

\* What lines 662-669 establish with -r: a record that keeps PAIRED has a
\* mapped mate.
PairedWithMapped(p, q) ==
  opts.remove =>
    /\ FPAIRED \in p.flag => Mapped(q)
    /\ FPAIRED \in q.flag => Mapped(p)

(***************************************************************************)
(* The typing the argument needs: the shape of the records, of the indices *)
(* and of out.  The integer fields are left to TypeOK.                    *)
(***************************************************************************)
ShapeInv ==
  /\ bn \in Nat \ {0}
  /\ DOMAIN b = 0..(bn - 1)
  /\ \A k \in 0..(bn - 1) : DOMAIN b[k] = RecFields
  /\ n \in 0..bn
  /\ prev \in {None} \cup 0..(bn - 1)
  /\ curr \in {None} \cup 0..(bn - 1)
  /\ opts \in [remove : BOOLEAN, ppc : BOOLEAN, ct : BOOLEAN, ms : BOOLEAN]
  /\ out \in Seq(0..(bn - 1))
  /\ pc \in {"scan", "write", "done", "fail", "wfail", "abort", "crash"}

\* The records the scan has looked at: b[0..n-1] during it, all after it.
Lim == IF pc = "scan" THEN n ELSE bn

(***************************************************************************)
(* What the scan of lines 600-670 leaves in pre and cur: pre is the first  *)
(* primary record seen, cur the last one paired with it, after which the   *)
(* pair satisfies the -r fix-up; with no cur, pre is the only primary.     *)
(***************************************************************************)
ScanInv ==
  pc \in {"scan", "write", "done"} =>
    /\ prev = None => \A k \in 0..(Lim - 1) : ~Primary(b[k])
    /\ prev /= None => prev < Lim /\ Primary(b[prev])
    /\ curr /= None =>
         /\ prev /= None /\ curr < Lim /\ curr /= prev /\ Primary(b[curr])
         /\ PairedWithMapped(b[prev], b[curr])
    /\ curr = None => \A k \in 0..(Lim - 1) : Primary(b[k]) => k = prev

\* The write loop of lines 687-695 has written b[0..n-1] except the removed.
WriteInv ==
  /\ pc = "scan" => out = << >>
  /\ pc \in {"write", "done"} => Written = {k \in 0..(n - 1) : ~Removed(b[k])}
  /\ pc = "done" => n = bn

IInv == ShapeInv /\ ScanInv /\ WriteInv

-----------------------------------------------------------------------------
(***************************************************************************)
(* A record that keeps its Kept flags is primary, and mapped, exactly when *)
(* it was; keeping is transitive.                                          *)
(***************************************************************************)
LEMMA KeepsFlags ==
  ASSUME NEW x, NEW y, Keeps(x, y)
  PROVE  /\ Mapped(y) <=> Mapped(x)
         /\ Primary(y) <=> Primary(x)
BY DEF Keeps, Kept, Mapped, Primary, FUNMAP, FSECONDARY, FSUPPL

LEMMA KeepsTrans ==
  ASSUME NEW x, NEW y, NEW z, Keeps(x, y), Keeps(y, z)
  PROVE  Keeps(x, z)
BY DEF Keeps

(***************************************************************************)
(* The helpers of sync_mate (bam_mate.c:113-223) change the coordinates,   *)
(* the mate fields, MREVERSE, MUNMAP and the tags, never the Kept flags.   *)
(***************************************************************************)
LEMMA SyncUnmappedPosKeeps ==
  ASSUME NEW x, NEW y, DOMAIN y = RecFields
  PROVE  Keeps(y, SyncUnmappedPosInner(x, y))
BY DEF SyncUnmappedPosInner, Keeps, RecFields

LEMMA SyncMateInnerKeeps ==
  ASSUME NEW x, NEW y, DOMAIN y = RecFields
  PROVE  Keeps(y, SyncMateInner(x, y))
BY DEF SyncMateInner, Keeps, Kept, RecFields, FUNMAP, FSECONDARY, FSUPPL,
       FMREVERSE, FMUNMAP

LEMMA SyncMqMcKeeps ==
  ASSUME NEW x, NEW y, DOMAIN y = RecFields
  PROVE  Keeps(y, SyncMqMc(x, y))
BY DEF SyncMqMc, Keeps, RecFields

\* sync_mate(a, b) keeps the Kept flags of both records.
LEMMA SyncMateKeeps ==
  ASSUME NEW x, NEW y, DOMAIN x = RecFields, DOMAIN y = RecFields
  PROVE  Keeps(x, SyncMate(x, y)[1]) /\ Keeps(y, SyncMate(x, y)[2])
<1> DEFINE c1 == SyncUnmappedPosInner(x, y)
           a1 == SyncUnmappedPosInner(c1, x)
           c2 == SyncMateInner(a1, c1)
           a2 == SyncMateInner(c2, a1)
           c3 == SyncMqMc(a2, c2)
           a3 == SyncMqMc(c3, a2)
<1>1. SyncMate(x, y) = << a3, c3 >>
  BY DEF SyncMate
<1>2. Keeps(y, c1) /\ DOMAIN c1 = RecFields
  BY SyncUnmappedPosKeeps DEF Keeps
<1>3. Keeps(x, a1) /\ DOMAIN a1 = RecFields
  BY SyncUnmappedPosKeeps DEF Keeps
<1>4. Keeps(c1, c2) /\ DOMAIN c2 = RecFields
  BY <1>2, SyncMateInnerKeeps DEF Keeps
<1>5. Keeps(a1, a2) /\ DOMAIN a2 = RecFields
  BY <1>3, SyncMateInnerKeeps DEF Keeps
<1>6. Keeps(c2, c3)
  BY <1>4, SyncMqMcKeeps
<1>7. Keeps(a2, a3)
  BY <1>5, SyncMqMcKeeps
<1>8. Keeps(y, c3)
  BY <1>2, <1>4, <1>6, KeepsTrans, Zenon
<1>9. Keeps(x, a3)
  BY <1>3, <1>5, <1>7, KeepsTrans, Zenon
<1> QED
  BY <1>1, <1>8, <1>9

(***************************************************************************)
(* The TLEN computation (lines 625-639), bam_template_cigar (47-77) and    *)
(* add_mate_score (240-254) write isize and tags only.                     *)
(***************************************************************************)
LEMMA SetIsizeKeeps ==
  ASSUME NEW x, NEW y, NEW pe, NEW ce, DOMAIN x = RecFields, DOMAIN y = RecFields
  PROVE  Keeps(x, SetIsize(x, y, pe, ce)[1]) /\ Keeps(y, SetIsize(x, y, pe, ce)[2])
BY DEF SetIsize, Keeps, RecFields

LEMMA TemplateCigarKeeps ==
  ASSUME NEW x, NEW y, DOMAIN x = RecFields, DOMAIN y = RecFields
  PROVE  Keeps(x, BamTemplateCigar(x, y)[1]) /\ Keeps(y, BamTemplateCigar(x, y)[2])
BY DEF BamTemplateCigar, Keeps, RecFields

LEMMA AddMateScoreKeeps ==
  ASSUME NEW x, NEW y, DOMAIN y = RecFields
  PROVE  Keeps(y, AddMateScore(x, y))
BY DEF AddMateScore, Keeps, RecFields

(***************************************************************************)
(* Lines 662-669: the -r fix-up keeps the Kept flags, and leaves PAIRED    *)
(* only on a record whose mate is mapped.  It is the fix-up of cur first   *)
(* and then of pre against the fixed cur that makes both halves hold.      *)
(***************************************************************************)
LEMMA RemoveFixupPaired ==
  ASSUME NEW x, NEW y, DOMAIN x = RecFields, DOMAIN y = RecFields
  PROVE  /\ Keeps(x, RemoveFixup(x, y)[1])
         /\ Keeps(y, RemoveFixup(x, y)[2])
         /\ PairedWithMapped(RemoveFixup(x, y)[1], RemoveFixup(x, y)[2])
<1> DEFINE c3 == IF opts.remove /\ ~Mapped(x)
                 THEN [y EXCEPT !.flag = @ \ PairBadFlags] ELSE y
           p3 == IF opts.remove /\ ~Mapped(c3)
                 THEN [x EXCEPT !.flag = @ \ PairBadFlags] ELSE x
<1>1. RemoveFixup(x, y) = << p3, c3 >>
  BY DEF RemoveFixup
<1>2. Keeps(y, c3)
  BY DEF Keeps, Kept, PairBadFlags, RecFields, FUNMAP, FSECONDARY, FSUPPL,
         FPAIRED, FMREVERSE, FPROPER
<1>3. Keeps(x, p3)
  BY DEF Keeps, Kept, PairBadFlags, RecFields, FUNMAP, FSECONDARY, FSUPPL,
         FPAIRED, FMREVERSE, FPROPER
<1>4. Mapped(c3) <=> Mapped(y)
  BY <1>2, KeepsFlags
<1>5. Mapped(p3) <=> Mapped(x)
  BY <1>3, KeepsFlags
<1>6. PairedWithMapped(p3, c3)
  BY <1>4, <1>5 DEF PairedWithMapped, PairBadFlags, RecFields
<1> QED
  BY <1>1, <1>2, <1>3, <1>6

(***************************************************************************)
(* The stages of PairFixups (the LET of lines 624-669), named for the     *)
(* proofs; sm is the pair sync_mate returned.                             *)
(***************************************************************************)
PairTs(sm, pe, ce) == SetIsize(sm[1], sm[2], pe, ce)
PairCt(sm, pe, ce) ==
  IF opts.ct THEN BamTemplateCigar(PairTs(sm, pe, ce)[1], PairTs(sm, pe, ce)[2])
  ELSE PairTs(sm, pe, ce)
PairClear(sm, pe, ce) ==
  opts.ppc /\ ~Plausible(PairCt(sm, pe, ce)[1], PairCt(sm, pe, ce)[2]).ok
PairP1(sm, pe, ce) ==
  IF PairClear(sm, pe, ce)
  THEN [PairCt(sm, pe, ce)[1] EXCEPT !.flag = @ \ {FPROPER}] ELSE PairCt(sm, pe, ce)[1]
PairC1(sm, pe, ce) ==
  IF PairClear(sm, pe, ce)
  THEN [PairCt(sm, pe, ce)[2] EXCEPT !.flag = @ \ {FPROPER}] ELSE PairCt(sm, pe, ce)[2]
PairC2(sm, pe, ce) ==
  IF opts.ms THEN AddMateScore(PairP1(sm, pe, ce), PairC1(sm, pe, ce))
  ELSE PairC1(sm, pe, ce)
PairP2(sm, pe, ce) ==
  IF opts.ms THEN AddMateScore(PairC2(sm, pe, ce), PairP1(sm, pe, ce))
  ELSE PairP1(sm, pe, ce)
PairUp(sm, pe, ce) == RemoveFixup(PairP2(sm, pe, ce), PairC2(sm, pe, ce))

LEMMA KeepsRefl ==
  ASSUME NEW x
  PROVE  Keeps(x, x)
BY DEF Keeps

(***************************************************************************)
(* Pairing pre with cur keeps the Kept flags of both, and leaves them      *)
(* PAIRED only with a mapped mate.                                         *)
(***************************************************************************)
LEMMA PairUpKeeps ==
  ASSUME NEW x, NEW y, NEW pe, NEW ce, DOMAIN x = RecFields, DOMAIN y = RecFields
  PROVE  /\ Keeps(x, PairUp(SyncMate(x, y), pe, ce)[1])
         /\ Keeps(y, PairUp(SyncMate(x, y), pe, ce)[2])
         /\ PairedWithMapped(PairUp(SyncMate(x, y), pe, ce)[1],
                             PairUp(SyncMate(x, y), pe, ce)[2])
<1> DEFINE sm == SyncMate(x, y)
<1>2. Keeps(x, sm[1]) /\ Keeps(y, sm[2])
  BY SyncMateKeeps
<1>3. Keeps(sm[1], PairTs(sm, pe, ce)[1]) /\ Keeps(sm[2], PairTs(sm, pe, ce)[2])
  BY <1>2, SetIsizeKeeps DEF Keeps, PairTs
<1>4. Keeps(PairTs(sm, pe, ce)[1], PairCt(sm, pe, ce)[1])
      /\ Keeps(PairTs(sm, pe, ce)[2], PairCt(sm, pe, ce)[2])
  <2>1. CASE opts.ct
    BY <1>2, <1>3, <2>1, TemplateCigarKeeps DEF Keeps, PairCt
  <2>2. CASE ~opts.ct
    BY <2>2, KeepsRefl DEF PairCt
  <2> QED
    BY <2>1, <2>2
<1>5. Keeps(PairCt(sm, pe, ce)[1], PairP1(sm, pe, ce))
      /\ Keeps(PairCt(sm, pe, ce)[2], PairC1(sm, pe, ce))
  BY DEF Keeps, Kept, FUNMAP, FSECONDARY, FSUPPL, FPROPER, PairP1, PairC1
<1>6. DOMAIN PairP1(sm, pe, ce) = RecFields /\ DOMAIN PairC1(sm, pe, ce) = RecFields
  BY <1>2, <1>3, <1>4, <1>5 DEF Keeps
<1>7. Keeps(PairC1(sm, pe, ce), PairC2(sm, pe, ce))
  BY <1>6, AddMateScoreKeeps, KeepsRefl DEF PairC2
<1>8. Keeps(PairP1(sm, pe, ce), PairP2(sm, pe, ce))
  BY <1>6, AddMateScoreKeeps, KeepsRefl DEF PairP2
<1>9. DOMAIN PairP2(sm, pe, ce) = RecFields /\ DOMAIN PairC2(sm, pe, ce) = RecFields
  BY <1>6, <1>7, <1>8 DEF Keeps
<1>10. /\ Keeps(PairP2(sm, pe, ce), PairUp(sm, pe, ce)[1])
       /\ Keeps(PairC2(sm, pe, ce), PairUp(sm, pe, ce)[2])
       /\ PairedWithMapped(PairUp(sm, pe, ce)[1], PairUp(sm, pe, ce)[2])
  BY <1>9, RemoveFixupPaired DEF PairUp
<1>11. Keeps(x, PairCt(sm, pe, ce)[1]) /\ Keeps(y, PairCt(sm, pe, ce)[2])
  <2>1. Keeps(x, PairTs(sm, pe, ce)[1]) /\ Keeps(y, PairTs(sm, pe, ce)[2])
    BY <1>2, <1>3, KeepsTrans
  <2> QED
    BY <2>1, <1>4, KeepsTrans
<1>12. Keeps(x, PairP2(sm, pe, ce)) /\ Keeps(y, PairC2(sm, pe, ce))
  <2>1. Keeps(x, PairP1(sm, pe, ce)) /\ Keeps(y, PairC1(sm, pe, ce))
    BY <1>11, <1>5, KeepsTrans
  <2> QED
    BY <2>1, <1>7, <1>8, KeepsTrans
<1> QED
  BY <1>10, <1>12, KeepsTrans

\* pre and cur with PAIRED set (lines 615-616), and cur_end.
P0 == [b[prev] EXCEPT !.flag = @ \cup {FPAIRED}]
C0 == [b[n] EXCEPT !.flag = @ \cup {FPAIRED}]
CE == IF Mapped(b[n]) THEN EndPos(b[n]) ELSE 0
\* The pair written back to pre and cur.
PairR == PairUp(SyncMate(P0, C0), preEnd, CE)

LEMMA PairFixupsPair ==
  ASSUME NEW sm, NEW pe, NEW ce
  PROVE  PairFixups(sm, pe, ce).pair = PairUp(sm, pe, ce)
BY DEF PairFixups, PairUp, PairTs, PairCt, PairClear, PairP1, PairC1, PairC2, PairP2

(***************************************************************************)
(* ScanPair either stops at the assertion of line 141, or writes back the  *)
(* pair PairUp computes and moves on with cur at n.                        *)
(***************************************************************************)
LEMMA ScanPairCases ==
  ASSUME ScanPair
  PROVE  /\ bn' = bn /\ prev' = prev /\ preEnd' = preEnd /\ opts' = opts /\ out' = out
         /\ \/ pc' = "abort" /\ b' = b /\ n' = n /\ curr' = curr
            \/ /\ b' = [b EXCEPT ![prev] = PairUp(SyncMate(P0, C0), preEnd, CE)[1],
                                 ![n] = PairUp(SyncMate(P0, C0), preEnd, CE)[2]]
               /\ curr' = n /\ n' = n + 1 /\ pc' = pc
<1>1. PICK fx \in {PairFixups(SyncMate(P0, C0), preEnd, CE)} :
        IF fx.assertFails
        THEN pc' = "abort" /\ UNCHANGED <<b, n, curr, curEnd>>
        ELSE /\ b' = [b EXCEPT ![prev] = fx.pair[1], ![n] = fx.pair[2]]
             /\ curr' = n /\ curEnd' = CE /\ n' = n + 1 /\ UNCHANGED pc
  BY DEF ScanPair, P0, C0, CE
<1>2. fx.pair = PairUp(SyncMate(P0, C0), preEnd, CE)
  BY <1>1, PairFixupsPair
<1>3. bn' = bn /\ prev' = prev /\ preEnd' = preEnd /\ opts' = opts /\ out' = out
  BY DEF ScanPair
<1> QED
  BY <1>1, <1>2, <1>3

-----------------------------------------------------------------------------
(* The inductive invariant, one lemma per action.                          *)

LEMMA InitIInv == Init => IInv
<1> SUFFICES ASSUME Init PROVE IInv
  OBVIOUS
<1>1. PICK t \in Templates : b = [k \in 0..(Len(t) - 1) |-> t[k + 1]] /\ bn = Len(t)
  BY DEF Init
<1>2. Len(t) \in Nat \ {0} /\ \A k \in 1..Len(t) : IsRec(t[k])
  BY TemplatesAssumption
<1>3. \A k \in 0..(bn - 1) : DOMAIN b[k] = RecFields
  BY <1>1, <1>2 DEF IsRec, RecFields
<1>4. ShapeInv
  BY <1>1, <1>2, <1>3, OptChoicesAssumption DEF Init, ShapeInv, None
<1> QED
  BY <1>4 DEF Init, ScanInv, WriteInv, IInv, Lim, None

\* The actions that stop the template leave the state of the scan alone.
LEMMA StepStops ==
  ASSUME IInv, ScanPairFails \/ ScanEndNoPrimary \/ WriteFails
  PROVE  IInv'
BY DEF IInv, ShapeInv, ScanInv, WriteInv, Lim, Written, Removed,
       ScanPairFails, ScanEndNoPrimary, WriteFails, ScanStep, WriteStep

LEMMA StepTerminated ==
  ASSUME IInv, Terminated \/ UNCHANGED vars
  PROVE  IInv'
<1>1. /\ b' = b /\ bn' = bn /\ n' = n /\ prev' = prev /\ curr' = curr
      /\ opts' = opts /\ out' = out /\ pc' = pc
  BY DEF Terminated, vars
<1>2. ShapeInv'
  BY <1>1 DEF IInv, ShapeInv
<1>3. ScanInv'
  BY <1>1 DEF IInv, ScanInv, Lim, PairedWithMapped
<1>4. WriteInv'
  BY <1>1 DEF IInv, WriteInv, Written, Removed
<1> QED
  BY <1>2, <1>3, <1>4 DEF IInv

LEMMA StepScanSecondary ==
  ASSUME IInv, ScanSecondary
  PROVE  IInv'
<1>1. pc = "scan" /\ n < bn /\ ~Primary(b[n]) /\ n' = n + 1 /\ pc' = pc
      /\ UNCHANGED <<b, bn, prev, curr, preEnd, curEnd, opts, out>>
  BY DEF ScanSecondary, ScanStep
<1>2. ShapeInv'
  BY <1>1 DEF IInv, ShapeInv
<1>s. ShapeInv /\ ScanInv
  BY DEF IInv
<1>5. /\ n \in Nat /\ prev \in {None} \cup Nat /\ curr \in {None} \cup Nat
      /\ \A k \in 0..n : Primary(b[k]) => k \in 0..(n - 1)
  BY <1>1, <1>s DEF ShapeInv
<1>6. Lim = n /\ Lim' = n + 1
  BY <1>1 DEF Lim
<1>7. /\ prev = None => \A k \in 0..(n - 1) : ~Primary(b[k])
      /\ prev /= None => prev < n /\ Primary(b[prev])
      /\ curr /= None =>
           /\ prev /= None /\ curr < n /\ curr /= prev /\ Primary(b[curr])
           /\ PairedWithMapped(b[prev], b[curr])
      /\ curr = None => \A k \in 0..(n - 1) : Primary(b[k]) => k = prev
  BY ONLY <1>1, <1>6, <1>s DEF ScanInv
<1>3. ScanInv'
  <2>1. /\ prev' = None => \A k \in 0..(Lim' - 1) : ~Primary(b'[k])
        /\ curr' = None => \A k \in 0..(Lim' - 1) : Primary(b'[k]) => k = prev'
    BY ONLY <1>1, <1>5, <1>6, <1>7
  <2>2. /\ prev' /= None => prev' < Lim' /\ Primary(b'[prev'])
        /\ curr' /= None =>
             /\ prev' /= None /\ curr' < Lim' /\ curr' /= prev' /\ Primary(b'[curr'])
    BY ONLY <1>1, <1>5, <1>6, <1>7
  <2>3. curr' /= None => PairedWithMapped(b[prev], b[curr])'
    BY ONLY <1>1, <1>7 DEF PairedWithMapped
  <2> QED
    BY ONLY <2>1, <2>2, <2>3 DEF ScanInv
<1>4. WriteInv'
  BY <1>1 DEF IInv, WriteInv
<1> QED
  BY <1>2, <1>3, <1>4 DEF IInv

LEMMA StepScanFirstPrimary ==
  ASSUME IInv, ScanFirstPrimary
  PROVE  IInv'
<1>1. pc = "scan" /\ n < bn /\ Primary(b[n]) /\ prev = None /\ prev' = n
      /\ n' = n + 1 /\ pc' = pc
      /\ UNCHANGED <<b, bn, curr, curEnd, opts, out>>
  BY DEF ScanFirstPrimary, ScanStep
<1>2. curr = None
  BY <1>1 DEF IInv, ScanInv
<1>3. ShapeInv'
  BY <1>1 DEF IInv, ShapeInv, None
<1>4. ScanInv'
  BY <1>1, <1>2 DEF IInv, ShapeInv, ScanInv, Lim, None
<1>5. WriteInv'
  BY <1>1 DEF IInv, WriteInv
<1> QED
  BY <1>3, <1>4, <1>5 DEF IInv

(***************************************************************************)
(* Lines 614-669: pairing keeps which records are primary, and leaves pre  *)
(* and the new cur satisfying the -r fix-up.                               *)
(***************************************************************************)
LEMMA StepScanPair ==
  ASSUME IInv, ScanPair
  PROVE  IInv'
<1>0. /\ bn' = bn /\ prev' = prev /\ preEnd' = preEnd /\ opts' = opts /\ out' = out
      /\ \/ pc' = "abort" /\ b' = b /\ n' = n /\ curr' = curr
         \/ /\ b' = [b EXCEPT ![prev] = PairR[1],
                              ![n] = PairR[2]]
            /\ curr' = n /\ n' = n + 1 /\ pc' = pc
  BY ScanPairCases DEF PairR
<1>1. pc = "scan" /\ n < bn /\ Primary(b[n]) /\ prev /= None
  BY DEF ScanPair, ScanStep
<1>2. prev \in 0..(n - 1) /\ n \in 0..(bn - 1)
  BY <1>1 DEF IInv, ShapeInv, ScanInv, Lim
<1>s. ShapeInv /\ ScanInv
  BY DEF IInv
<1>3. CASE pc' = "abort" /\ b' = b /\ n' = n /\ curr' = curr
  BY <1>0, <1>3 DEF IInv, ShapeInv, ScanInv, WriteInv
<1>4. CASE /\ b' = [b EXCEPT ![prev] = PairR[1],
                             ![n] = PairR[2]]
           /\ curr' = n /\ n' = n + 1 /\ pc' = pc
  <2>1. DOMAIN b[prev] = RecFields /\ DOMAIN b[n] = RecFields
    BY <1>2 DEF IInv, ShapeInv
  <2>2. /\ DOMAIN P0 = RecFields /\ DOMAIN C0 = RecFields
        /\ Keeps(b[prev], P0) /\ Keeps(b[n], C0)
    BY <2>1 DEF P0, C0, Keeps, Kept, RecFields, FPAIRED, FUNMAP, FSECONDARY, FSUPPL
  <2>3. Keeps(P0, PairR[1]) /\ Keeps(C0, PairR[2]) /\ PairedWithMapped(PairR[1], PairR[2])
    BY <2>2, PairUpKeeps DEF PairR
  <2>4. Keeps(b[prev], PairR[1]) /\ Keeps(b[n], PairR[2])
    BY <2>2, <2>3, KeepsTrans
  <2>5. /\ DOMAIN b' = 0..(bn - 1)
        /\ b'[prev] = PairR[1] /\ b'[n] = PairR[2]
        /\ \A k \in 0..(bn - 1) \ {prev, n} : b'[k] = b[k]
    BY ONLY <1>2, <1>4, <1>s DEF ShapeInv
  <2>6. \A k \in 0..(bn - 1) : Keeps(b[k], b'[k])
    BY <2>4, <2>5, KeepsRefl
  <2>7. \A k \in 0..(bn - 1) : /\ Primary(b'[k]) <=> Primary(b[k])
                               /\ DOMAIN b'[k] = RecFields
    BY <2>6, KeepsFlags DEF IInv, ShapeInv, Keeps
  <2>8. ShapeInv'
    BY <1>0, <1>2, <1>4, <2>5, <2>7 DEF IInv, ShapeInv, None
  <2>9. PairedWithMapped(b[prev], b[curr])'
    BY <1>0, <1>4, <2>3, <2>5 DEF PairedWithMapped
  <2>10. ScanInv'
    <3>1. pc' = "scan" /\ Lim' = n + 1
      BY ONLY <1>1, <1>4 DEF Lim
    <3>a. prev' = prev /\ curr' = n /\ Primary(b[prev]) /\ Primary(b[n])
      BY ONLY <1>0, <1>1, <1>2, <1>4, <1>s DEF ScanInv, Lim
    <3>b. Primary(b'[prev]) /\ Primary(b'[n])
      BY ONLY <1>2, <1>s, <2>7, <3>a DEF ShapeInv
    <3>2. prev' /= None /\ prev' < n + 1 /\ Primary(b'[prev'])
      BY ONLY <1>2, <3>a, <3>b DEF None
    <3>3. /\ curr' /= None /\ curr' < n + 1 /\ curr' /= prev'
          /\ Primary(b'[curr'])
      BY ONLY <1>2, <3>a, <3>b DEF None
    <3> QED
      BY ONLY <2>9, <3>1, <3>2, <3>3 DEF ScanInv
  <2>11. WriteInv'
    BY <1>0, <1>1, <1>4 DEF IInv, WriteInv
  <2> QED
    BY <2>8, <2>10, <2>11 DEF IInv
<1> QED
  BY <1>0, <1>3, <1>4

\* The records written after one more sam_write1.
LEMMA RangeAppend ==
  ASSUME NEW S, NEW s \in Seq(S), NEW e \in S
  PROVE  {Append(s, e)[i] : i \in 1..Len(Append(s, e))} = {s[i] : i \in 1..Len(s)} \cup {e}
<1>1. /\ Len(Append(s, e)) = Len(s) + 1
      /\ \A i \in 1..Len(s) : Append(s, e)[i] = s[i]
      /\ Append(s, e)[Len(s) + 1] = e
      /\ Len(s) \in Nat
  BY AppendProperties, LenProperties
<1> QED
  BY <1>1

(***************************************************************************)
(* Lines 673-678 and 687: the scan ends and the write loop starts; a lone  *)
(* primary loses its mate fields and pair flags.                           *)
(***************************************************************************)
LEMMA StepScanEndPaired ==
  ASSUME IInv, ScanEndPaired
  PROVE  IInv'
<1>1. pc = "scan" /\ n = bn /\ pc' = "write" /\ n' = 0
      /\ UNCHANGED <<b, bn, prev, curr, opts, out>>
  BY DEF ScanEndPaired
<1>2. ShapeInv'
  BY <1>1 DEF IInv, ShapeInv
<1>3. ScanInv'
  BY <1>1 DEF IInv, ScanInv, Lim, PairedWithMapped
<1>4. WriteInv'
  BY <1>1 DEF IInv, WriteInv, Written
<1> QED
  BY <1>2, <1>3, <1>4 DEF IInv

LEMMA StepScanEndUnpaired ==
  ASSUME IInv, ScanEndUnpaired
  PROVE  IInv'
<1>1. /\ pc = "scan" /\ n = bn /\ curr = None /\ prev /= None
      /\ pc' = "write" /\ n' = 0
      /\ b' = [b EXCEPT ![prev] = [b[prev] EXCEPT !.mtid = -1, !.mpos = -1, !.isize = 0,
                                                  !.flag = @ \ PairBadFlags]]
      /\ UNCHANGED <<bn, prev, curr, opts, out>>
  BY DEF ScanEndUnpaired
<1>s. ShapeInv /\ ScanInv /\ WriteInv
  BY DEF IInv
<1>2. prev \in 0..(bn - 1) /\ DOMAIN b[prev] = RecFields
  BY <1>1, <1>s DEF ShapeInv, None
<1>3. Keeps(b[prev], b'[prev])
  BY <1>1, <1>2, <1>s DEF ShapeInv, Keeps, Kept, PairBadFlags, RecFields,
         FUNMAP, FSECONDARY, FSUPPL, FPAIRED, FMREVERSE, FPROPER
<1>4. /\ DOMAIN b' = 0..(bn - 1)
      /\ \A k \in 0..(bn - 1) : /\ Primary(b'[k]) <=> Primary(b[k])
                                /\ DOMAIN b'[k] = RecFields
  <2>1. \A k \in 0..(bn - 1) : Keeps(b[k], b'[k])
    BY <1>1, <1>2, <1>3, <1>s, KeepsRefl DEF ShapeInv
  <2> QED
    BY <1>1, <1>s, <2>1, KeepsFlags DEF ShapeInv, Keeps
<1>5. ShapeInv'
  BY <1>1, <1>4, <1>s DEF ShapeInv
<1>6. ScanInv'
  BY ONLY <1>1, <1>2, <1>4, <1>s DEF ScanInv, Lim
<1>7. WriteInv'
  BY <1>1, <1>s DEF WriteInv, Written
<1> QED
  BY <1>5, <1>6, <1>7 DEF IInv

(***************************************************************************)
(* Lines 687-695: the write loop writes b[n] unless -r removes it.         *)
(***************************************************************************)
LEMMA StepWriteRecord ==
  ASSUME IInv, WriteRecord
  PROVE  IInv'
<1>1. /\ pc = "write" /\ n < bn /\ ~Removed(b[n]) /\ out' = Append(out, n)
      /\ n' = n + 1 /\ pc' = pc
      /\ UNCHANGED <<b, bn, prev, curr, opts>>
  BY DEF WriteRecord, WriteStep
<1>s. ShapeInv /\ ScanInv /\ WriteInv
  BY DEF IInv
<1>2. n \in 0..(bn - 1) /\ out \in Seq(0..(bn - 1))
  BY <1>1, <1>s DEF ShapeInv
<1>3. Written' = Written \cup {n}
  BY <1>1, <1>2, RangeAppend DEF Written
<1>4. ShapeInv'
  BY <1>1, <1>2, <1>s, AppendProperties DEF ShapeInv
<1>5. ScanInv'
  BY <1>1, <1>s DEF ScanInv, Lim, PairedWithMapped
<1>6. WriteInv'
  BY <1>1, <1>2, <1>3, <1>s DEF WriteInv, Removed
<1> QED
  BY <1>4, <1>5, <1>6 DEF IInv

LEMMA StepWriteSkip ==
  ASSUME IInv, WriteSkip
  PROVE  IInv'
<1>1. /\ pc = "write" /\ n < bn /\ Removed(b[n]) /\ n' = n + 1 /\ pc' = pc
      /\ UNCHANGED <<b, bn, prev, curr, opts, out>>
  BY DEF WriteSkip, WriteStep
<1>s. ShapeInv /\ ScanInv /\ WriteInv
  BY DEF IInv
<1>2. ShapeInv'
  BY <1>1, <1>s DEF ShapeInv
<1>3. ScanInv'
  BY <1>1, <1>s DEF ScanInv, Lim, PairedWithMapped
<1>4. n \in Nat /\ Written = {k \in 0..(n - 1) : ~Removed(b[k])}
  BY <1>1, <1>s DEF WriteInv, ShapeInv
<1>5. {k \in 0..n : ~Removed(b[k])} = {k \in 0..(n - 1) : ~Removed(b[k])}
  BY <1>1, <1>4
<1>6. WriteInv'
  BY <1>1, <1>4, <1>5 DEF WriteInv, Written, Removed
<1> QED
  BY <1>2, <1>3, <1>6 DEF IInv

LEMMA StepWriteEnd ==
  ASSUME IInv, WriteEnd
  PROVE  IInv'
<1>1. /\ pc = "write" /\ n = bn /\ pc' = "done"
      /\ UNCHANGED <<b, bn, n, prev, curr, opts, out>>
  BY DEF WriteEnd
<1> QED
  BY <1>1 DEF IInv, ShapeInv, ScanInv, WriteInv, Lim, Written, Removed,
         PairedWithMapped

LEMMA NextIInv == IInv /\ [Next]_vars => IInv'
<1> SUFFICES ASSUME IInv, [Next]_vars PROVE IInv'
  OBVIOUS
<1> QED
  BY StepStops, StepTerminated, StepScanSecondary, StepScanFirstPrimary,
     StepScanPair, StepScanEndPaired, StepScanEndUnpaired, StepWriteRecord,
     StepWriteSkip, StepWriteEnd DEF Next

(***************************************************************************)
(* When the template is done with two primaries, they are the pre and cur  *)
(* of the scan; the mate of a written FPAIRED primary is mapped, so -r     *)
(* keeps it.                                                               *)
(***************************************************************************)
LEMMA IInvNoOrphans == IInv => RemovalLeavesNoOrphans
<1> SUFFICES ASSUME IInv, pc = "done", opts.remove, Cardinality(Primaries) = 2,
                    NEW p \in Written \cap Primaries, FPAIRED \in b[p].flag
             PROVE  Primaries \subseteq Written
  BY DEF RemovalLeavesNoOrphans
<1>s. ShapeInv /\ ScanInv /\ WriteInv
  BY DEF IInv
<1>1. Lim = bn /\ n = bn /\ bn \in Nat
  BY <1>s DEF Lim, WriteInv, ShapeInv
<1>2. IsFiniteSet(Primaries)
  <2>1. IsFiniteSet(0..(bn - 1))
    BY <1>1, FS_Interval
  <2>2. Primaries \in SUBSET (0..(bn - 1))
    BY DEF Primaries
  <2> QED
    BY <2>1, <2>2, FS_Subset
<1>3. curr /= None
  <2> SUFFICES ASSUME curr = None PROVE FALSE
    OBVIOUS
  <2>1. Primaries \subseteq {prev}
    BY <1>1, <1>s DEF ScanInv, Primaries
  <2>2. Cardinality(Primaries) <= 1
    BY <2>1, FS_Singleton, FS_Subset
  <2> QED
    BY <2>2
<1>4. /\ prev \in 0..(bn - 1) /\ curr \in 0..(bn - 1) /\ prev /= curr
      /\ Primary(b[prev]) /\ Primary(b[curr])
      /\ PairedWithMapped(b[prev], b[curr])
  BY <1>1, <1>3, <1>s DEF ScanInv, ShapeInv, None
<1>5. Primaries = {prev, curr}
  <2>1. {prev, curr} \subseteq Primaries
    BY <1>4 DEF Primaries
  <2>2. Cardinality({prev, curr}) = 2
    <3>1. IsFiniteSet({prev}) /\ Cardinality({prev}) = 1
      BY FS_Singleton
    <3>2. Cardinality({prev} \cup {curr})
            = IF curr \in {prev} THEN Cardinality({prev}) ELSE Cardinality({prev}) + 1
      BY <3>1, FS_AddElement
    <3>3. curr \notin {prev}
      BY <1>4
    <3> QED
      BY <3>1, <3>2, <3>3
  <2> QED
    BY <1>2, <2>1, <2>2, FS_Subset
<1>6. \A q \in {prev, curr} : Mapped(b[q]) => q \in Written
  BY <1>1, <1>4, <1>s DEF WriteInv, Removed, Primary, Mapped
<1>7. p \in {prev, curr} /\ p \in Written
  BY <1>5
<1>8. CASE p = prev
  BY <1>4, <1>6, <1>7, <1>8, <1>5 DEF PairedWithMapped
<1>9. CASE p = curr
  BY <1>4, <1>6, <1>7, <1>9, <1>5 DEF PairedWithMapped
<1> QED
  BY <1>7, <1>8, <1>9

(***************************************************************************)
(* bam_mating_core with -r never writes a paired primary record of a       *)
(* two-primary template without its mate: sync_mate leaves FPAIRED on one  *)
(* primary only when the other is mapped, and -r drops only unmapped and   *)
(* secondary records (lines 687-695).                                      *)
(***************************************************************************)
THEOREM RemovalWithoutOrphans == Spec => []RemovalLeavesNoOrphans
<1>1. Init => IInv
  BY InitIInv
<1>2. IInv /\ [Next]_vars => IInv'
  BY NextIInv
<1>3. IInv => RemovalLeavesNoOrphans
  BY IInvNoOrphans
<1> QED
  BY <1>1, <1>2, <1>3, PTL DEF Spec

=============================================================================
