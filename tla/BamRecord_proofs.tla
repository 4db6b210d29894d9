-------------------------- MODULE BamRecord_proofs --------------------------
(***************************************************************************)
(* Lemmas about the record operators of BamRecord: what bam_cigar2rlen and *)
(* bam_endpos return, and what the tag operations bam_aux_get,             *)
(* bam_aux_del and bam_aux_append do to a tag stream.  The sums over a     *)
(* CIGAR are recursive functions over 0..Len(c); that they satisfy their   *)
(* defining equation, and what they return, is shown by a least           *)
(* counterexample over that interval.                                      *)
(***************************************************************************)
EXTENDS BamRecord, WellFoundedInduction, SequenceTheorems, TLAPS

(***************************************************************************)
(* Every non-empty set of naturals has a least element.                    *)
(***************************************************************************)
LEMMA LeastIndex ==
  ASSUME NEW T \in SUBSET Nat, T /= {}
  PROVE  \E x \in T : \A y \in T : x <= y
<1>1. \E x \in T : \A y \in T : ~(<<y, x>> \in OpToRel(<, Nat))
  BY NatLessThanWellFounded, WFMin, Zenon
<1>2. \A x, y \in Nat : ~(<<y, x>> \in OpToRel(<, Nat)) => x <= y
  BY DEF OpToRel
<1> QED
  BY <1>1, <1>2

Cigar == Seq([len : Nat, op : CigarOps])

\* The length operation i of c adds to the sum over the kinds in S.
OpWeight(c, S, i) == IF c[i].op \in S THEN c[i].len ELSE 0

\* g is the table of partial sums of c over S up to m.
PartialSums(g, c, S, m) ==
  g = [i \in 0..m |-> IF i = 0 THEN 0 ELSE g[i - 1] + OpWeight(c, S, i)]

(***************************************************************************)
(* A table of partial sums exists up to every m within the CIGAR.          *)
(***************************************************************************)
LEMMA PartialSumsExist ==
  ASSUME NEW c \in Cigar, NEW S
  PROVE  \A m \in 0..Len(c) : \E g : PartialSums(g, c, S, m)
<1>0. Len(c) \in Nat /\ \A i \in 1..Len(c) : c[i].len \in Nat
  <2>1. Len(c) \in Nat /\ c \in [1..Len(c) -> [len : Nat, op : CigarOps]]
    BY LenProperties DEF Cigar
  <2> QED
    BY <2>1
<1> DEFINE Bad == {j \in 0..Len(c) : ~\E g : PartialSums(g, c, S, j)}
<1> SUFFICES ASSUME Bad /= {} PROVE FALSE
  OBVIOUS
<1>a. Bad \in SUBSET Nat
  BY <1>0
<1>1. PICK m \in Bad : \A y \in Bad : m <= y
  BY <1>a, LeastIndex, Zenon
<1>2. CASE m = 0
  <2>1. PartialSums([i \in 0..0 |-> 0], c, S, 0)
    BY DEF PartialSums
  <2> QED
    BY <1>1, <1>2, <2>1
<1>3. CASE m /= 0
  <2>1. m - 1 \in 0..Len(c) /\ m \in 1..Len(c)
    BY <1>0, <1>1, <1>3
  <2>2. PICK g : PartialSums(g, c, S, m - 1)
    BY <1>1, <2>1
  <2> DEFINE h == [i \in 0..m |-> IF i < m THEN g[i] ELSE g[m - 1] + OpWeight(c, S, m)]
  <2>3. \A i \in 0..(m - 1) : g[i] = IF i = 0 THEN 0 ELSE g[i - 1] + OpWeight(c, S, i)
    BY <2>2 DEF PartialSums
  <2>4. PartialSums(h, c, S, m)
    BY <2>1, <2>3 DEF PartialSums
  <2> QED
    BY <1>1, <2>4
<1> QED
  BY <1>2, <1>3

(***************************************************************************)
(* Every table of partial sums holds naturals.                             *)
(***************************************************************************)
LEMMA PartialSumsNat ==
  ASSUME NEW c \in Cigar, NEW S, NEW m \in 0..Len(c), NEW g, PartialSums(g, c, S, m)
  PROVE  \A i \in 0..m : g[i] \in Nat
<1>0. Len(c) \in Nat /\ \A i \in 1..Len(c) : OpWeight(c, S, i) \in Nat
  <2>1. Len(c) \in Nat /\ c \in [1..Len(c) -> [len : Nat, op : CigarOps]]
    BY LenProperties DEF Cigar
  <2> QED
    BY <2>1 DEF OpWeight
<1>1. \A i \in 0..m : g[i] = IF i = 0 THEN 0 ELSE g[i - 1] + OpWeight(c, S, i)
  BY DEF PartialSums
<1> DEFINE Bad == {j \in 0..m : g[j] \notin Nat}
<1> SUFFICES ASSUME Bad /= {} PROVE FALSE
  OBVIOUS
<1>a. Bad \in SUBSET Nat
  BY <1>0
<1>2. PICK i \in Bad : \A y \in Bad : i <= y
  BY <1>a, LeastIndex, Zenon
<1>3. i /= 0
  BY <1>1, <1>2
<1>4. g[i - 1] \in Nat
  BY <1>0, <1>2, <1>3
<1>5. i \in 1..Len(c) /\ g[i] = g[i - 1] + OpWeight(c, S, i)
  BY <1>0, <1>1, <1>2, <1>3
<1>6. OpWeight(c, S, i) \in Nat
  BY <1>0, <1>5
<1>7. g[i] \notin Nat
  BY <1>2
<1> QED
  BY <1>4, <1>5, <1>6, <1>7

(***************************************************************************)
(* The sum of the lengths of the operations of a CIGAR over a set of kinds *)
(* is a natural number.                                                    *)
(***************************************************************************)
LEMMA OpLenSumNat ==
  ASSUME NEW c \in Cigar, NEW S
  PROVE  OpLenSum(c, LAMBDA o : o \in S) \in Nat
<1>0. Len(c) \in Nat
  BY LenProperties, Zenon DEF Cigar
<1>1. \E g : PartialSums(g, c, S, Len(c))
  BY <1>0, PartialSumsExist
<1> DEFINE s == CHOOSE s : PartialSums(s, c, S, Len(c))
<1>2. PartialSums(s, c, S, Len(c))
  BY <1>1
<1>3. s[Len(c)] \in Nat
  BY <1>0, <1>2, PartialSumsNat
<1> QED
  BY <1>3 DEF OpLenSum, PartialSums, OpWeight

\* bam_cigar2rlen and bam_endpos return integers.
LEMMA RefLenNat ==
  ASSUME NEW c \in Cigar
  PROVE  RefLen(c) \in Nat
<1>1. OpLenSum(c, LAMBDA o : o \in RefOps) \in Nat
  BY OpLenSumNat DEF OpLenSum
<1> QED
  BY <1>1 DEF RefLen

LEMMA EndPosInt ==
  ASSUME NEW r, r.pos \in Int, r.cigar \in Cigar
  PROVE  EndPos(r) \in Int
BY RefLenNat DEF EndPos

-----------------------------------------------------------------------------
(* Tag streams.                                                            *)

\* The entries of a tag stream, and what makes a set of them well formed.
Entries(aux) == {aux[i] : i \in 1..Len(aux)}
GoodEntries(E) == \A e \in E : DOMAIN e = {"key", "val"}

LEMMA StreamIsSeq ==
  ASSUME NEW aux, IsTagStream(aux)
  PROVE  aux \in Seq(Entries(aux)) /\ GoodEntries(Entries(aux))
<1>1. Len(aux) \in Nat /\ aux \in [1..Len(aux) -> Entries(aux)]
  BY DEF IsTagStream, Entries
<1>2. aux \in Seq(Entries(aux))
  BY <1>1
<1> QED
  BY <1>2 DEF IsTagStream, Entries, GoodEntries

LEMMA SeqIsStream ==
  ASSUME NEW E, GoodEntries(E), NEW s \in Seq(E)
  PROVE  IsTagStream(s)
<1>1. Len(s) \in Nat /\ s \in [1..Len(s) -> E]
  BY LenProperties, Zenon
<1> QED
  BY <1>1 DEF IsTagStream, GoodEntries

(***************************************************************************)
(* bam_aux_get finds the first entry with the key, when there is one.      *)
(***************************************************************************)
LEMMA FirstTagProps ==
  ASSUME NEW aux, IsTagStream(aux), NEW k, HasTag(aux, k)
  PROVE  /\ FirstTag(aux, k) \in 1..Len(aux)
         /\ aux[FirstTag(aux, k)].key = k
         /\ \A j \in 1..(FirstTag(aux, k) - 1) : aux[j].key /= k
<1> DEFINE At == {i \in 1..Len(aux) : aux[i].key = k}
<1>1. At \in SUBSET Nat /\ At /= {}
  BY DEF IsTagStream, HasTag
<1>2. PICK x \in At : \A y \in At : x <= y
  BY <1>1, LeastIndex, Zenon
<1>3. aux[x].key = k /\ \A j \in 1..(x - 1) : aux[j].key /= k
  BY <1>2 DEF IsTagStream
<1> QED
  BY <1>2, <1>3 DEF FirstTag

(***************************************************************************)
(* bam_aux_del and the delete-then-append of bam_aux_update keep a tag     *)
(* stream a tag stream.                                                    *)
(***************************************************************************)
LEMMA AuxDelStream ==
  ASSUME NEW aux, IsTagStream(aux), NEW k
  PROVE  /\ AuxDel(aux, k) \in Seq(Entries(aux))
         /\ IsTagStream(AuxDel(aux, k))
<1>0. aux \in Seq(Entries(aux)) /\ GoodEntries(Entries(aux)) /\ Len(aux) \in Nat
  BY StreamIsSeq DEF IsTagStream
<1>1. AuxDel(aux, k) \in Seq(Entries(aux))
  <2>1. CASE HasTag(aux, k)
    <3> DEFINE i == FirstTag(aux, k)
    <3>1. i \in 1..Len(aux)
      BY <2>1, FirstTagProps
    <3>2. \A j \in 1..Len(aux) : aux[j] \in Entries(aux)
      BY DEF Entries
    <3>3. SubSeq(aux, 1, i - 1) \in Seq(Entries(aux))
      BY <1>0, <3>1, <3>2, SubSeqProperties
    <3>4. SubSeq(aux, i + 1, Len(aux)) \in Seq(Entries(aux))
      BY <1>0, <3>1, <3>2, SubSeqProperties
    <3> QED
      BY <2>1, <3>3, <3>4, ConcatProperties DEF AuxDel
  <2>2. CASE ~HasTag(aux, k)
    BY <1>0, <2>2 DEF AuxDel
  <2> QED
    BY <2>1, <2>2
<1> QED
  BY <1>0, <1>1, SeqIsStream

LEMMA AuxReplaceStream ==
  ASSUME NEW aux, IsTagStream(aux), NEW k, NEW v
  PROVE  IsTagStream(AuxReplace(aux, k, v))
<1> DEFINE e == [key |-> k, val |-> v]
           F == Entries(aux) \cup {e}
<1>1. AuxDel(aux, k) \in Seq(Entries(aux)) /\ GoodEntries(Entries(aux))
  BY AuxDelStream, StreamIsSeq
<1>2. AuxDel(aux, k) \in Seq(F)
  BY <1>1, SeqMonotonic
<1>3. Append(AuxDel(aux, k), e) \in Seq(F)
  BY <1>2, AppendProperties
<1>4. GoodEntries(F)
  BY <1>1 DEF GoodEntries
<1> QED
  BY <1>3, <1>4, SeqIsStream DEF AuxReplace
=============================================================================
