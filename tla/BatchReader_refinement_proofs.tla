------------------- MODULE BatchReader_refinement_proofs -------------------
(***************************************************************************)
(* Proof that next_template, called until it returns < 0, implements the  *)
(* safety part of GroupByName under the mapping AbsPending, AbsOut and     *)
(* AbsStatus of BatchReader: every step of the reader is a step of the     *)
(* abstract reader or leaves the abstract state alone.  The abstract       *)
(* pending records are the held ones, HeldOf(slot, k), then the unread     *)
(* input, numbered.                                                        *)
(***************************************************************************)
EXTENDS BatchReader_order_proofs

\* An abstract pending element, and an abstract output record.
PRec == [rec : Nat, name : Names \cup {NoName}] \cup {ReadError}
ORec == [rec : Nat, name : Names \cup {NoName}, grp : Nat]

HeldOf(sl, k) == [i \in 1..k |-> [rec |-> sl[i - 1].rec, name |-> sl[i - 1].name]]
\* The abstract output of a sequence of delivered records.
OutOf(d) == [i \in 1..Len(d) |-> [rec |-> d[i].rec, name |-> d[i].name, grp |-> d[i].grp]]

\* Lemma: the numbered input is a sequence of pending elements.
LEMMA NumberedType ==
  ASSUME NEW s \in Seq(Record), NEW r \in Nat
  PROVE  GBN!Numbered(s, r) \in Seq(PRec) /\ Len(GBN!Numbered(s, r)) = Len(s)
  BY DEF GBN!Numbered, PRec, Record

(***************************************************************************)
(* Lemma: reading the head of the input takes the first numbered element  *)
(* off the unread input.                                                   *)
(***************************************************************************)
LEMMA NumberedCons ==
  ASSUME NEW s \in Seq(Record), NEW r \in Nat, s /= << >>, Head(s) /= ReadError
  PROVE  GBN!Numbered(s, r) =
           << [rec |-> r + 1, name |-> Head(s).name] >> \o GBN!Numbered(Tail(s), r + 1)
<1>1. Tail(s) \in Seq(Record) /\ Len(Tail(s)) = Len(s) - 1 /\ Len(s) >= 1
      /\ \A i \in 1..Len(Tail(s)) : Tail(s)[i] = s[i + 1]
  BY HeadTailProperties
<1>2. GBN!Numbered(Tail(s), r + 1) \in Seq(PRec) /\ Len(GBN!Numbered(Tail(s), r + 1)) = Len(s) - 1
  <2>1. r + 1 \in Nat
    OBVIOUS
  <2>2. GBN!Numbered(Tail(s), r + 1) \in Seq(PRec)
        /\ Len(GBN!Numbered(Tail(s), r + 1)) = Len(Tail(s))
    BY <1>1, <2>1, NumberedType
  <2> QED
    BY <1>1, <2>2
<1>3. << [rec |-> r + 1, name |-> Head(s).name] >> \in Seq(PRec)
  <2>1. Head(s) \in [name : Names, grows : BOOLEAN]
    BY HeadTailProperties DEF Record
  <2> QED
    BY <2>1 DEF PRec
<1>4. GBN!Numbered(s, r) \in Seq(PRec) /\ Len(GBN!Numbered(s, r)) = Len(s)
  BY NumberedType
<1> DEFINE c == << [rec |-> r + 1, name |-> Head(s).name] >> \o GBN!Numbered(Tail(s), r + 1)
<1>5. c \in Seq(PRec) /\ Len(c) = Len(s)
      /\ \A i \in 1..Len(s) : c[i] = IF i <= 1 THEN [rec |-> r + 1, name |-> Head(s).name]
                                   ELSE GBN!Numbered(Tail(s), r + 1)[i - 1]
  <2> DEFINE h == << [rec |-> r + 1, name |-> Head(s).name] >>
              u == GBN!Numbered(Tail(s), r + 1)
  <2>1. Len(h) = 1 /\ h[1] = [rec |-> r + 1, name |-> Head(s).name]
    OBVIOUS
  <2>2. /\ h \o u \in Seq(PRec)
        /\ Len(h \o u) = Len(h) + Len(u)
        /\ \A i \in 1..(Len(h) + Len(u)) : (h \o u)[i] = IF i <= Len(h) THEN h[i] ELSE u[i - Len(h)]
    BY <1>2, <1>3, ConcatProperties
  <2>3. Len(h) + Len(u) = Len(s)
    BY <1>2, <2>1 DEF h, u
  <2> QED
    BY <2>1, <2>2, <2>3 DEF c, h, u
<1>6. ASSUME NEW i \in 1..Len(s) PROVE GBN!Numbered(s, r)[i] = c[i]
  <2>1. i = 1 \/ i > 1
    OBVIOUS
  <2>2. CASE i = 1
    BY <2>2, <1>5 DEF GBN!Numbered
  <2>3. CASE i > 1
    <3>1. i - 1 \in 1..Len(Tail(s)) /\ Tail(s)[i - 1] = s[i]
      BY <2>3, <1>1
    <3>2. c[i] = GBN!Numbered(Tail(s), r + 1)[i - 1]
      BY <2>3, <1>5
    <3> QED
      BY <2>3, <3>1, <3>2 DEF GBN!Numbered
  <2> QED
    BY <2>1, <2>2, <2>3
<1> QED
  BY <1>4, <1>5, <1>6, SeqEqual

(***************************************************************************)
(* Lemma: the run that RunLen picks is the one of length k when the first  *)
(* k elements are records of one name and the next is not.                 *)
(***************************************************************************)
LEMMA RunLenIs ==
  ASSUME NEW p \in Seq(PRec), NEW k \in 1..Len(p),
         \A i \in 1..k : p[i] /= ReadError /\ p[i].name = p[1].name,
         k < Len(p) => (p[k + 1] = ReadError \/ p[k + 1].name /= p[1].name)
  PROVE  GBN!RunLen(p) = k
<1> DEFINE Run(j) == /\ \A i \in 1..j : p[i] /= ReadError /\ p[i].name = p[1].name
                     /\ j < Len(p) => (p[j + 1] = ReadError \/ p[j + 1].name /= p[1].name)
<1>1. \A j \in 1..Len(p) : Run(j) => j = k
  <2> SUFFICES ASSUME NEW j \in 1..Len(p), Run(j) PROVE j = k
    OBVIOUS
  <2>1. ~(j < k)
    <3> SUFFICES ASSUME j < k PROVE FALSE
      OBVIOUS
    <3>1. j + 1 \in 1..k /\ j < Len(p)
      OBVIOUS
    <3>2. p[j + 1] /= ReadError /\ p[j + 1].name = p[1].name
      BY <3>1
    <3> QED
      BY <3>1, <3>2 DEF Run
  <2>2. ~(j > k)
    <3> SUFFICES ASSUME j > k PROVE FALSE
      OBVIOUS
    <3>1. k + 1 \in 1..j /\ k < Len(p)
      OBVIOUS
    <3>2. p[k + 1] /= ReadError /\ p[k + 1].name = p[1].name
      BY <3>1 DEF Run
    <3> QED
      BY <3>1, <3>2
  <2> QED
    BY <2>1, <2>2
<1>2. Run(k)
  OBVIOUS
<1> QED
  BY <1>1, <1>2 DEF GBN!RunLen

\* Lemma: FirstError picks the first failed read.
LEMMA FirstErrorIs ==
  ASSUME NEW p \in Seq(PRec), NEW k \in 1..Len(p),
         p[k] = ReadError, \A i \in 1..(k - 1) : p[i] /= ReadError
  PROVE  GBN!FirstError(p) = k
<1>1. \A j \in 1..Len(p) : (p[j] = ReadError /\ \A i \in 1..(j - 1) : p[i] /= ReadError) => j = k
  OBVIOUS
<1> QED
  BY <1>1 DEF GBN!FirstError

\* Lemma: an element of the numbered input.
LEMMA NumberedAt ==
  ASSUME NEW s \in Seq(Record), NEW r \in Nat, NEW j \in 1..Len(s)
  PROVE  GBN!Numbered(s, r)[j] =
           IF s[j] = ReadError THEN ReadError ELSE [rec |-> r + j, name |-> s[j].name]
  BY DEF GBN!Numbered

\* Lemma: the records held in k slots are k pending elements.
LEMMA HeldType ==
  ASSUME NEW sl \in [Slots -> SlotType], NEW k \in 0..(MaxInput + 1)
  PROVE  HeldOf(sl, k) \in Seq(PRec) /\ Len(HeldOf(sl, k)) = k
<1>1. \A i \in 1..k : i - 1 \in Slots
  BY MaxInputAssumption DEF Slots
<1> QED
  BY <1>1 DEF HeldOf, PRec, SlotType

\* Lemma: one held slot.
LEMMA HeldOne ==
  ASSUME NEW sl \in [Slots -> SlotType]
  PROVE  HeldOf(sl, 1) = << [rec |-> sl[0].rec, name |-> sl[0].name] >>
  BY DEF HeldOf

(***************************************************************************)
(* Lemma: a record read into slot k of a group of k extends the held      *)
(* records by one, when the slots before it keep their records.            *)
(***************************************************************************)
LEMMA HeldAppend ==
  ASSUME NEW sl \in [Slots -> SlotType], NEW sl2 \in [Slots -> SlotType],
         NEW k \in 0..MaxInput,
         \A i \in 0..(k - 1) : sl2[i].rec = sl[i].rec /\ sl2[i].name = sl[i].name
  PROVE  HeldOf(sl2, k + 1) = HeldOf(sl, k) \o << [rec |-> sl2[k].rec, name |-> sl2[k].name] >>
<1> DEFINE x == [rec |-> sl2[k].rec, name |-> sl2[k].name]
<1>1. HeldOf(sl, k) \in Seq(PRec) /\ Len(HeldOf(sl, k)) = k
  BY HeldType, MaxInputAssumption
<1>2. HeldOf(sl2, k + 1) \in Seq(PRec) /\ Len(HeldOf(sl2, k + 1)) = k + 1
  BY HeldType, MaxInputAssumption
<1>3. << x >> \in Seq(PRec)
  <2>1. k \in Slots
    BY DEF Slots
  <2> QED
    BY <2>1 DEF PRec, SlotType
<1>4. /\ HeldOf(sl, k) \o << x >> \in Seq(PRec)
      /\ Len(HeldOf(sl, k) \o << x >>) = k + 1
      /\ \A i \in 1..(k + 1) : (HeldOf(sl, k) \o << x >>)[i] =
                                IF i <= k THEN HeldOf(sl, k)[i] ELSE << x >>[i - k]
  BY <1>1, <1>3, ConcatProperties
<1>5. \A i \in 1..(k + 1) : HeldOf(sl2, k + 1)[i] = (HeldOf(sl, k) \o << x >>)[i]
  <2> SUFFICES ASSUME NEW i \in 1..(k + 1) PROVE HeldOf(sl2, k + 1)[i] = (HeldOf(sl, k) \o << x >>)[i]
    OBVIOUS
  <2>1. CASE i <= k
    BY <2>1, <1>4 DEF HeldOf
  <2>2. CASE i = k + 1
    BY <2>2, <1>4 DEF HeldOf, x
  <2>3. i <= k \/ i = k + 1
    OBVIOUS
  <2> QED
    BY <2>1, <2>2, <2>3
<1> QED
  BY <1>2, <1>4, <1>5, SeqEqual

(***************************************************************************)
(* Lemma: the abstract pending records in each control state of the       *)
(* reader, before and after a step.                                        *)
(***************************************************************************)
LEMMA PendingShape ==
  ASSUME bnext \in Int
  PROVE
  /\ pc = "loop" => AbsPending = HeldOf(slot, bn) \o GBN!Numbered(inp, nread)
  /\ pc = "call" /\ bnext >= 0 =>
       AbsPending = << [rec |-> slot[bnext].rec, name |-> slot[bnext].name] >>
                    \o GBN!Numbered(inp, nread)
  /\ pc = "call" /\ bnext < 0 => AbsPending = << >> \o GBN!Numbered(inp, nread)
  /\ pc \notin {"call", "loop"} => AbsPending = << >>
<1>1. UnreadRecs = GBN!Numbered(inp, nread)
  BY DEF UnreadRecs, GBN!Numbered
<1>2. pc = "loop" => HeldRecs = HeldOf(slot, bn)
  BY DEF HeldRecs, HeldOf
<1>3. pc = "call" /\ bnext >= 0 =>
        HeldRecs = << [rec |-> slot[bnext].rec, name |-> slot[bnext].name] >>
  BY DEF HeldRecs
<1>4. pc = "call" /\ bnext < 0 => HeldRecs = << >>
  BY DEF HeldRecs
<1> QED
  BY <1>1, <1>2, <1>3, <1>4 DEF AbsPending

\* The same after a step.
LEMMA PendingShapePrimed ==
  ASSUME bnext' \in Int
  PROVE
  /\ pc' = "loop" => AbsPending' = HeldOf(slot', bn') \o GBN!Numbered(inp', nread')
  /\ pc' = "call" /\ bnext' >= 0 =>
       AbsPending' = << [rec |-> slot'[bnext'].rec, name |-> slot'[bnext'].name] >>
                    \o GBN!Numbered(inp', nread')
  /\ pc' = "call" /\ bnext' < 0 => AbsPending' = << >> \o GBN!Numbered(inp', nread')
  /\ pc' \notin {"call", "loop"} => AbsPending' = << >>
<1>1. UnreadRecs' = GBN!Numbered(inp', nread')
  BY DEF UnreadRecs, GBN!Numbered
<1>2. pc' = "loop" => HeldRecs' = HeldOf(slot', bn')
  BY DEF HeldRecs, HeldOf
<1>3. pc' = "call" /\ bnext' >= 0 =>
        HeldRecs' = << [rec |-> slot'[bnext'].rec, name |-> slot'[bnext'].name] >>
  BY DEF HeldRecs
<1>4. pc' = "call" /\ bnext' < 0 => HeldRecs' = << >>
  BY DEF HeldRecs
<1> QED
  BY <1>1, <1>2, <1>3, <1>4 DEF AbsPending

\* Lemma: the abstract output is the delivered records without san.
LEMMA OutShape == AbsOut = OutOf(delivered) /\ AbsOut' = OutOf(delivered')
  BY DEF AbsOut, OutOf


\* Lemma: the held records, then the unread input, as pending elements.
LEMMA HeldConcat ==
  ASSUME NEW sl \in [Slots -> SlotType], NEW k \in 0..(MaxInput + 1),
         NEW s \in Seq(Record), NEW r \in Nat
  PROVE  /\ HeldOf(sl, k) \o GBN!Numbered(s, r) \in Seq(PRec)
         /\ Len(HeldOf(sl, k) \o GBN!Numbered(s, r)) = k + Len(s)
         /\ \A i \in 1..k : (HeldOf(sl, k) \o GBN!Numbered(s, r))[i] =
                              [rec |-> sl[i - 1].rec, name |-> sl[i - 1].name]
         /\ \A i \in (k + 1)..(k + Len(s)) :
              (HeldOf(sl, k) \o GBN!Numbered(s, r))[i] = GBN!Numbered(s, r)[i - k]
<1> DEFINE h == HeldOf(sl, k)
           u == GBN!Numbered(s, r)
<1>1. h \in Seq(PRec) /\ Len(h) = k
  BY HeldType
<1>2. u \in Seq(PRec) /\ Len(u) = Len(s)
  BY NumberedType
<1>3. /\ h \o u \in Seq(PRec)
      /\ Len(h \o u) = Len(h) + Len(u)
      /\ \A i \in 1..(Len(h) + Len(u)) : (h \o u)[i] = IF i <= Len(h) THEN h[i] ELSE u[i - Len(h)]
  BY <1>1, <1>2, ConcatProperties
<1>4. \A i \in 1..k : h[i] = [rec |-> sl[i - 1].rec, name |-> sl[i - 1].name]
  BY DEF h, HeldOf
<1> QED
  BY <1>1, <1>2, <1>3, <1>4 DEF h, u

\* The facts of the invariant that the refinement steps use.
InvFacts ==
  /\ slot \in [Slots -> SlotType] /\ delivered \in Seq(DRec) /\ MaxInput \in Nat
  /\ bn \in 0..MaxInput /\ bnext \in -1..MaxInput /\ nread \in Nat /\ ngroups \in Nat
  /\ inp \in Seq(Record) /\ (pc = "loop" => bn >= 1) /\ bnext /= 0
  /\ pc \in {"call", "loop", "end", "readfail", "fail"}

LEMMA InvFactsHold == Inv => InvFacts
  BY MaxInputAssumption DEF Inv, TypeInv, TypeOK, DRec, InvFacts

(***************************************************************************)
(* Lemma: in the loop the abstract pending records are the bn held ones,  *)
(* all records of b[0]'s name, then the unread input.                      *)
(***************************************************************************)
LEMMA LoopPending ==
  ASSUME Inv, pc = "loop"
  PROVE  /\ AbsPending \in Seq(PRec) /\ Len(AbsPending) = bn + Len(inp)
         /\ \A i \in 1..bn : AbsPending[i] = [rec |-> slot[i - 1].rec, name |-> slot[i - 1].name]
         /\ \A i \in 1..bn : AbsPending[i] /= ReadError /\ AbsPending[i].name = AbsPending[1].name
         /\ \A i \in (bn + 1)..(bn + Len(inp)) :
              AbsPending[i] = GBN!Numbered(inp, nread)[i - bn]
<1>1. InvFacts
  BY InvFactsHold
<1>2. AbsPending = HeldOf(slot, bn) \o GBN!Numbered(inp, nread)
  BY <1>1, PendingShape DEF InvFacts
<1>3. /\ AbsPending \in Seq(PRec) /\ Len(AbsPending) = bn + Len(inp)
      /\ \A i \in 1..bn : AbsPending[i] = [rec |-> slot[i - 1].rec, name |-> slot[i - 1].name]
      /\ \A i \in (bn + 1)..(bn + Len(inp)) :
           AbsPending[i] = GBN!Numbered(inp, nread)[i - bn]
  <2>1. slot \in [Slots -> SlotType] /\ bn \in 0..(MaxInput + 1)
        /\ inp \in Seq(Record) /\ nread \in Nat
    BY <1>1 DEF InvFacts
  <2>2. /\ HeldOf(slot, bn) \o GBN!Numbered(inp, nread) \in Seq(PRec)
        /\ Len(HeldOf(slot, bn) \o GBN!Numbered(inp, nread)) = bn + Len(inp)
        /\ \A i \in 1..bn : (HeldOf(slot, bn) \o GBN!Numbered(inp, nread))[i] =
                             [rec |-> slot[i - 1].rec, name |-> slot[i - 1].name]
        /\ \A i \in (bn + 1)..(bn + Len(inp)) :
             (HeldOf(slot, bn) \o GBN!Numbered(inp, nread))[i] = GBN!Numbered(inp, nread)[i - bn]
    BY <2>1, HeldConcat
  <2> QED
    BY <1>2, <2>2
<1>4. \A i \in 0..(bn - 1) : slot[i].name = slot[0].name /\ slot[i].rec \in Nat
      /\ slot[i].name \in Names \cup {NoName}
  <2>1. \A i \in 0..(bn - 1) : slot[i].name = slot[0].name
    BY DEF Inv, NameInv
  <2>2. \A i \in 0..(bn - 1) : slot[i] \in SlotType
    BY <1>1 DEF InvFacts, Slots
  <2> QED
    BY <2>1, <2>2 DEF SlotType
<1>5. \A i \in 1..bn : [rec |-> slot[i - 1].rec, name |-> slot[i - 1].name] /= ReadError
  <2>1. \A i \in 1..bn : [rec |-> slot[i - 1].rec, name |-> slot[i - 1].name]
                           \in [rec : Nat, name : Names \cup {NoName}]
    BY <1>1, <1>4 DEF InvFacts
  <2> QED
    BY <2>1, HeldRecordAssumption
<1>6. \A i \in 1..bn : AbsPending[i] /= ReadError /\ AbsPending[i].name = AbsPending[1].name
  <2> SUFFICES ASSUME NEW i \in 1..bn
               PROVE  AbsPending[i] /= ReadError /\ AbsPending[i].name = AbsPending[1].name
    OBVIOUS
  <2>1. 1 \in 1..bn /\ i - 1 \in 0..(bn - 1) /\ 0 \in 0..(bn - 1)
    BY <1>1 DEF InvFacts
  <2>2. AbsPending[i] = [rec |-> slot[i - 1].rec, name |-> slot[i - 1].name]
        /\ AbsPending[1] = [rec |-> slot[0].rec, name |-> slot[0].name]
    BY <1>3, <2>1
  <2> QED
    BY <1>4, <1>5, <2>1, <2>2
<1> QED
  BY <1>3, <1>6

(***************************************************************************)
(* Lemma: the run RunLen finds at the head of the abstract pending records *)
(* is the group held in the loop, when the next unread element is none or *)
(* a record of another name.                                               *)
(***************************************************************************)
LEMMA LoopRunLen ==
  ASSUME Inv, pc = "loop",
         inp /= << >> => Head(inp) /= ReadError /\ Head(inp).name /= slot[0].name
  PROVE  GBN!RunLen(AbsPending) = bn
<1>1. InvFacts
  BY InvFactsHold
<1>2. bn \in 1..Len(AbsPending)
  BY <1>1, LoopPending DEF InvFacts
<1>3. bn < Len(AbsPending) =>
        (AbsPending[bn + 1] = ReadError \/ AbsPending[bn + 1].name /= AbsPending[1].name)
  <2> SUFFICES ASSUME bn < Len(AbsPending)
               PROVE  AbsPending[bn + 1] = ReadError \/ AbsPending[bn + 1].name /= AbsPending[1].name
    OBVIOUS
  <2>1. inp /= << >> /\ 1 \in 1..Len(inp)
    BY <1>1, LoopPending DEF InvFacts
  <2>2. AbsPending[bn + 1] = GBN!Numbered(inp, nread)[1]
    BY <1>1, <2>1, LoopPending DEF InvFacts
  <2>3. GBN!Numbered(inp, nread)[1] = [rec |-> nread + 1, name |-> Head(inp).name]
    BY <1>1, <2>1, NumberedAt DEF InvFacts
  <2>4. AbsPending[1] = [rec |-> slot[0].rec, name |-> slot[0].name]
    BY <1>1, LoopPending DEF InvFacts
  <2> QED
    BY <2>1, <2>2, <2>3, <2>4
<1> QED
  BY <1>2, <1>3, LoopPending, RunLenIs

(***************************************************************************)
(* Lemma: after the loop, what follows the group in the abstract pending  *)
(* records is the unread input.                                            *)
(***************************************************************************)
LEMMA LoopRest ==
  ASSUME Inv, pc = "loop"
  PROVE  SubSeq(AbsPending, bn + 1, Len(AbsPending)) = GBN!Numbered(inp, nread)
<1>1. InvFacts
  BY InvFactsHold
<1>2. AbsPending = HeldOf(slot, bn) \o GBN!Numbered(inp, nread)
  BY <1>1, PendingShape DEF InvFacts
<1>3. /\ HeldOf(slot, bn) \in Seq(PRec) /\ Len(HeldOf(slot, bn)) = bn
      /\ GBN!Numbered(inp, nread) \in Seq(PRec) /\ Len(GBN!Numbered(inp, nread)) = Len(inp)
  BY <1>1, HeldType, NumberedType DEF InvFacts
<1>4. CASE inp = << >>
  <2>1. GBN!Numbered(inp, nread) = << >>
    BY <1>4 DEF GBN!Numbered
  <2>2. Len(AbsPending) = bn
    <3>1. Len(AbsPending) = bn + Len(inp)
      BY LoopPending
    <3> QED
      BY <1>1, <1>4, <3>1 DEF InvFacts
  <2> QED
    BY <2>1, <2>2, <1>1, SubSeqEmpty DEF InvFacts
<1>5. CASE inp /= << >>
  <2>1. Len(inp) >= 1 /\ Len(AbsPending) = bn + Len(inp)
    BY <1>1, <1>5, LoopPending DEF InvFacts
  <2>2. SubSeq(AbsPending, bn + 1, bn + Len(inp))
          = SubSeq(GBN!Numbered(inp, nread), 1, Len(inp))
    BY <1>2, <1>3, <2>1, SubSeqOfConcat2
  <2> QED
    BY <1>3, <2>1, <2>2, SubSeqFull
<1> QED
  BY <1>4, <1>5


\* Lemma: the abstract output of delivered records.
LEMMA OutOfProps ==
  ASSUME NEW d \in Seq(DRec)
  PROVE  /\ OutOf(d) \in Seq(ORec) /\ Len(OutOf(d)) = Len(d)
         /\ \A i \in 1..Len(d) :
              OutOf(d)[i] = [rec |-> d[i].rec, name |-> d[i].name, grp |-> d[i].grp]
<1>1. \A i \in 1..Len(d) : d[i] \in DRec
  OBVIOUS
<1>2. \A i \in 1..Len(d) : [rec |-> d[i].rec, name |-> d[i].name, grp |-> d[i].grp] \in ORec
  BY <1>1 DEF DRec, ORec
<1>3. OutOf(d) \in [1..Len(d) -> ORec]
  BY <1>2, Zenon DEF OutOf
<1>4. \A i \in 1..Len(d) :
        OutOf(d)[i] = [rec |-> d[i].rec, name |-> d[i].name, grp |-> d[i].grp]
  BY DEF OutOf
<1>5. DOMAIN OutOf(d) = 1..Len(d) /\ Len(d) \in Nat
  BY DEF OutOf
<1> QED
  BY <1>3, <1>4, <1>5

\* Lemma: the abstract group count is the number of groups returned.
LEMMA NGroupsIs ==
  ASSUME Inv
  PROVE  GBN!NGroups = ngroups
<1>1. InvFacts /\ Runs(delivered, ngroups)
  BY InvFactsHold DEF Inv, NameInv
<1>2. AbsOut \in Seq(ORec) /\ Len(AbsOut) = D
      /\ \A i \in 1..D : AbsOut[i].grp = delivered[i].grp
  <2>1. AbsOut = OutOf(delivered)
    BY OutShape
  <2>2. delivered \in Seq(DRec)
    BY <1>1 DEF InvFacts
  <2>3. /\ OutOf(delivered) \in Seq(ORec) /\ Len(OutOf(delivered)) = Len(delivered)
        /\ \A i \in 1..Len(delivered) :
             OutOf(delivered)[i] = [rec |-> delivered[i].rec, name |-> delivered[i].name,
                                    grp |-> delivered[i].grp]
    BY <2>2, OutOfProps
  <2>4. AbsOut \in Seq(ORec) /\ Len(AbsOut) = Len(delivered)
    BY <2>1, <2>3, Zenon
  <2>5. \A i \in 1..Len(delivered) : AbsOut[i].grp = delivered[i].grp
    BY DEF AbsOut
  <2> QED
    BY <2>4, <2>5 DEF D
<1>3. CASE D = 0
  <2>1. AbsOut = << >>
    BY <1>2, <1>3
  <2> QED
    BY <1>1, <1>3, <2>1 DEF GBN!NGroups, Runs, D
<1>4. CASE D > 0
  <2>1. AbsOut /= << >> /\ AbsOut[Len(AbsOut)].grp = delivered[D].grp
    BY <1>2, <1>4
  <2> QED
    BY <1>1, <1>4, <2>1 DEF GBN!NGroups, Runs, D
<1> QED
  BY <1>1, <1>3, <1>4 DEF InvFacts, D

(***************************************************************************)
(* Lemma: returning the group held in the loop (from slots that kept their *)
(* records through the sanitize) appends to the abstract output the first  *)
(* bn abstract pending records, numbered as the next group.                *)
(***************************************************************************)
LEMMA OutStep ==
  ASSUME Inv, pc = "loop", NEW sl \in [Slots -> SlotType],
         \A i \in 0..(bn - 1) : sl[i].rec = slot[i].rec /\ sl[i].name = slot[i].name
  PROVE  OutOf(Deliver(sl, bn)) =
           AbsOut \o [i \in 1..bn |-> [rec |-> AbsPending[i].rec, name |-> AbsPending[i].name,
                                       grp |-> GBN!NGroups + 1]]
<1> DEFINE G == [i \in 1..bn |-> [rec |-> AbsPending[i].rec, name |-> AbsPending[i].name,
                                  grp |-> GBN!NGroups + 1]]
           E == Deliver(sl, bn)
           O == AbsOut
<1>1. InvFacts
  BY InvFactsHold
<1>2. /\ E \in Seq(DRec) /\ Len(E) = D + bn
      /\ \A i \in 1..D : E[i] = delivered[i]
      /\ \A i \in 1..bn : /\ E[D + i].rec = sl[i - 1].rec
                          /\ E[D + i].name = sl[i - 1].name
                          /\ E[D + i].grp = ngroups + 1
  BY <1>1, DeliverProps DEF InvFacts, D, E
<1>3. \A i \in 1..bn : AbsPending[i] = [rec |-> slot[i - 1].rec, name |-> slot[i - 1].name]
  BY LoopPending
<1>4. GBN!NGroups = ngroups
  BY NGroupsIs
<1>5. \A i \in 1..bn : G[i] = [rec |-> slot[i - 1].rec, name |-> slot[i - 1].name,
                                grp |-> ngroups + 1]
  <2> SUFFICES ASSUME NEW i \in 1..bn
               PROVE  G[i] = [rec |-> slot[i - 1].rec, name |-> slot[i - 1].name,
                              grp |-> ngroups + 1]
    OBVIOUS
  <2>1. AbsPending[i] = [rec |-> slot[i - 1].rec, name |-> slot[i - 1].name]
    BY <1>3
  <2>2. G[i] = [rec |-> AbsPending[i].rec, name |-> AbsPending[i].name, grp |-> GBN!NGroups + 1]
    BY DEF G
  <2> QED
    BY <1>4, <2>1, <2>2
<1>6. G \in Seq(ORec) /\ Len(G) = bn
  <2>1. \A i \in 1..bn : slot[i - 1] \in SlotType
    BY <1>1 DEF InvFacts, Slots
  <2>2. \A i \in 1..bn : [rec |-> slot[i - 1].rec, name |-> slot[i - 1].name,
                          grp |-> ngroups + 1] \in ORec
    BY <1>1, <2>1 DEF InvFacts, SlotType, ORec
  <2>3. G \in [1..bn -> ORec]
    BY <1>5, <2>2, Zenon DEF G
  <2> QED
    BY <1>1, <2>3 DEF InvFacts, G
<1>7. O \in Seq(ORec) /\ Len(O) = D
      /\ \A i \in 1..D : O[i] = [rec |-> delivered[i].rec, name |-> delivered[i].name,
                                 grp |-> delivered[i].grp]
  <2>1. delivered \in Seq(DRec)
    BY <1>1 DEF InvFacts
  <2>2. /\ OutOf(delivered) \in Seq(ORec) /\ Len(OutOf(delivered)) = Len(delivered)
        /\ \A i \in 1..Len(delivered) :
             OutOf(delivered)[i] = [rec |-> delivered[i].rec, name |-> delivered[i].name,
                                    grp |-> delivered[i].grp]
    BY <2>1, OutOfProps
  <2>3. O = OutOf(delivered)
    BY OutShape DEF O
  <2>4. O \in Seq(ORec) /\ Len(O) = Len(delivered)
    BY <2>2, <2>3, Zenon
  <2>5. \A i \in 1..D : O[i] = [rec |-> delivered[i].rec, name |-> delivered[i].name,
                                grp |-> delivered[i].grp]
    BY DEF O, AbsOut, D
  <2> QED
    BY <2>4, <2>5 DEF D
<1>8. /\ O \o G \in Seq(ORec) /\ Len(O \o G) = Len(O) + Len(G)
      /\ \A i \in 1..(Len(O) + Len(G)) : (O \o G)[i] = IF i <= Len(O) THEN O[i] ELSE G[i - Len(O)]
  <2>1. O \in Seq(ORec) /\ G \in Seq(ORec)
    BY <1>6, <1>7
  <2> QED
    BY <2>1, ConcatProperties
<1>9. /\ OutOf(E) \in Seq(ORec) /\ Len(OutOf(E)) = Len(E)
      /\ \A i \in 1..Len(E) :
           OutOf(E)[i] = [rec |-> E[i].rec, name |-> E[i].name, grp |-> E[i].grp]
  <2>1. E \in Seq(DRec)
    BY <1>2
  <2> QED
    BY <2>1, OutOfProps
<1>10. Len(O) = D /\ Len(G) = bn /\ Len(E) = D + bn /\ D \in Nat /\ bn \in Nat
  BY <1>1, <1>2, <1>6, <1>7 DEF InvFacts, D
<1>11. \A i \in 1..(D + bn) : OutOf(E)[i] = (O \o G)[i]
  <2> SUFFICES ASSUME NEW i \in 1..(D + bn) PROVE OutOf(E)[i] = (O \o G)[i]
    OBVIOUS
  <2>1. OutOf(E)[i] = [rec |-> E[i].rec, name |-> E[i].name, grp |-> E[i].grp]
    BY <1>9, <1>10
  <2>2. CASE i <= D
    <3>1. (O \o G)[i] = O[i]
      BY <1>8, <1>10, <2>2
    <3>2. E[i] = delivered[i]
      BY <1>2, <1>10, <2>2
    <3>3. O[i] = [rec |-> delivered[i].rec, name |-> delivered[i].name, grp |-> delivered[i].grp]
      BY <1>7, <1>10, <2>2
    <3> QED
      BY <2>1, <3>1, <3>2, <3>3
  <2>3. CASE ~(i <= D)
    <3>1. i - D \in 1..bn /\ D + (i - D) = i /\ i - D - 1 \in 0..(bn - 1)
      BY <1>10, <2>3
    <3>2. (O \o G)[i] = G[i - D]
      BY <1>8, <1>10, <2>3
    <3>3. G[i - D] = [rec |-> slot[i - D - 1].rec, name |-> slot[i - D - 1].name,
                      grp |-> ngroups + 1]
      BY <1>5, <3>1
    <3>4. /\ E[i].rec = sl[i - D - 1].rec
          /\ E[i].name = sl[i - D - 1].name
          /\ E[i].grp = ngroups + 1
      BY <1>2, <3>1
    <3>5. sl[i - D - 1].rec = slot[i - D - 1].rec /\ sl[i - D - 1].name = slot[i - D - 1].name
      BY <3>1
    <3> QED
      BY <2>1, <3>2, <3>3, <3>4, <3>5
  <2> QED
    BY <2>2, <2>3
<1>12. OutOf(E) = O \o G
  <2>1. Len(OutOf(E)) = Len(O \o G)
    BY <1>8, <1>9, <1>10
  <2>2. \A i \in 1..Len(OutOf(E)) : OutOf(E)[i] = (O \o G)[i]
    BY <1>9, <1>10, <1>11
  <2>3. OutOf(E) \in Seq(ORec) /\ O \o G \in Seq(ORec)
    BY <1>8, <1>9
  <2> QED
    BY <2>1, <2>2, <2>3, SeqEqual, Zenon
<1> QED
  BY <1>12 DEF G, E, O
-----------------------------------------------------------------------------
(***************************************************************************)
(* The steps of next_template as steps of GroupByName.  Each lemma takes  *)
(* the invariant Inv of BatchReader_order_proofs and one action (or a     *)
(* family of actions with the same effect on the abstract state).         *)
(***************************************************************************)

\* A failed realloc or sanitize (return -2) is GiveUp.
LEMMA StepGiveUp ==
  ASSUME Inv, pc \in {"call", "loop"}, pc' = "fail", delivered' = delivered, bnext' \in Int
  PROVE  GBN!GiveUp
<1>1. AbsStatus = "run" /\ AbsStatus' = "failed"
  BY DEF AbsStatus
<1>2. AbsPending' = << >>
  BY PendingShapePrimed
<1>3. AbsOut' = AbsOut
  BY DEF AbsOut
<1> QED
  BY <1>1, <1>2, <1>3 DEF GBN!GiveUp

\* Lemma: the numbered empty input is empty.
LEMMA NumberedEmpty ==
  ASSUME NEW r \in Nat
  PROVE  << >> \o GBN!Numbered(<< >>, r) = << >>
<1>1. GBN!Numbered(<< >>, r) = << >>
  BY DEF GBN!Numbered
<1> QED
  BY <1>1

(***************************************************************************)
(* A call that returns -1 at end of file, whether eof was set by the last *)
(* group (line 515) or the input is empty on the first call (line 524),   *)
(* is Finish: nothing is held and nothing is left to read.                 *)
(***************************************************************************)
LEMMA StepFinish ==
  ASSUME Inv, pc = "call", bnext < 0, inp = << >>, pc' = "end",
         delivered' = delivered, bnext' \in Int
  PROVE  GBN!Finish
<1>1. InvFacts
  BY InvFactsHold
<1>2. AbsPending = << >>
  <2>1. AbsPending = << >> \o GBN!Numbered(inp, nread)
    BY <1>1, PendingShape DEF InvFacts
  <2> QED
    BY <1>1, <2>1, NumberedEmpty DEF InvFacts
<1>3. AbsPending' = << >>
  BY PendingShapePrimed
<1>4. AbsStatus = "run" /\ AbsStatus' = "end" /\ AbsOut' = AbsOut
  BY DEF AbsStatus, AbsOut
<1> QED
  BY <1>2, <1>3, <1>4 DEF GBN!Finish

\* Lines 525-526: the first read fails; nothing is held.
LEMMA StepReadFailsFirst ==
  ASSUME Inv, CallFirstReadError
  PROVE  GBN!ReadFails
<1>1. InvFacts /\ pc = "call" /\ bnext < 0 /\ inp /= << >> /\ Head(inp) = ReadError
      /\ pc' = "readfail" /\ delivered' = delivered /\ bnext' = bnext
  BY InvFactsHold DEF CallFirstReadError, FirstCall
<1>2. GBN!Numbered(inp, nread) \in Seq(PRec) /\ Len(GBN!Numbered(inp, nread)) = Len(inp)
  BY <1>1, NumberedType DEF InvFacts
<1>3. AbsPending = GBN!Numbered(inp, nread)
  <2>1. AbsPending = << >> \o GBN!Numbered(inp, nread)
    BY <1>1, PendingShape DEF InvFacts
  <2> QED
    BY <1>2, <2>1, ConcatEmptySeq
<1>4. 1 \in 1..Len(inp) /\ GBN!Numbered(inp, nread)[1] = ReadError
  <2>1. 1 \in 1..Len(inp) /\ inp[1] = ReadError
    BY <1>1 DEF InvFacts
  <2> QED
    BY <1>1, <2>1, NumberedAt DEF InvFacts
<1>5. GBN!FirstError(AbsPending) = 1
  BY <1>2, <1>3, <1>4, FirstErrorIs
<1>6. /\ AbsStatus = "run" /\ AbsStatus' = "readfail" /\ AbsOut' = AbsOut
      /\ AbsPending' = << >>
  <2>1. bnext' \in Int
    BY <1>1 DEF InvFacts
  <2> QED
    BY <1>1, <2>1, PendingShapePrimed DEF AbsStatus, AbsOut
<1> QED
  BY <1>2, <1>3, <1>4, <1>5, <1>6 DEF GBN!ReadFails

(***************************************************************************)
(* Line 541: a read fails inside the loop.  The records before it are the *)
(* group held in b[0..n-1], all of b[0]'s name.                            *)
(***************************************************************************)
LEMMA StepReadFailsLoop ==
  ASSUME Inv, LoopReadError
  PROVE  GBN!ReadFails
<1>1. InvFacts /\ pc = "loop" /\ inp /= << >> /\ Head(inp) = ReadError
      /\ pc' = "readfail" /\ delivered' = delivered /\ bnext' = bnext
  BY InvFactsHold DEF LoopReadError
<1>2. /\ AbsPending \in Seq(PRec) /\ Len(AbsPending) = bn + Len(inp)
      /\ \A i \in 1..bn : AbsPending[i] /= ReadError /\ AbsPending[i].name = AbsPending[1].name
      /\ \A i \in (bn + 1)..(bn + Len(inp)) :
           AbsPending[i] = GBN!Numbered(inp, nread)[i - bn]
  BY <1>1, LoopPending
<1>3. bn + 1 \in 1..Len(AbsPending) /\ AbsPending[bn + 1] = ReadError
  <2>1. 1 \in 1..Len(inp) /\ inp[1] = ReadError /\ bn + 1 \in (bn + 1)..(bn + Len(inp))
    BY <1>1 DEF InvFacts
  <2>2. GBN!Numbered(inp, nread)[1] = ReadError
    BY <1>1, <2>1, NumberedAt DEF InvFacts
  <2> QED
    BY <1>1, <1>2, <2>1, <2>2 DEF InvFacts
<1>4. GBN!FirstError(AbsPending) = bn + 1
  <2>1. \A i \in 1..((bn + 1) - 1) : AbsPending[i] /= ReadError
    BY <1>1, <1>2 DEF InvFacts
  <2> QED
    BY <1>2, <1>3, <2>1, FirstErrorIs
<1>5. \A i \in 1..(GBN!FirstError(AbsPending) - 1) : AbsPending[i].name = AbsPending[1].name
  BY <1>1, <1>2, <1>4 DEF InvFacts
<1>6. /\ AbsStatus = "run" /\ AbsStatus' = "readfail" /\ AbsOut' = AbsOut
      /\ AbsPending' = << >>
  <2>1. bnext' \in Int
    BY <1>1 DEF InvFacts
  <2> QED
    BY <1>1, <2>1, PendingShapePrimed DEF AbsStatus, AbsOut
<1> QED
  BY <1>3, <1>5, <1>6 DEF GBN!ReadFails

\* Lemma: after a step the slots are slots and the indices are integers.
LEMMA StepFacts ==
  ASSUME Inv, Next
  PROVE  slot' \in [Slots -> SlotType] /\ bnext' \in Int /\ bn' \in Int
  BY NextTypeInv DEF Inv, TypeInv, TypeOK

(***************************************************************************)
(* Lines 543-550: at end of file the group b[0..n-1] is returned (Emit of *)
(* a run that ends with the input) and eof is set.                          *)
(***************************************************************************)
LEMMA StepEmitEof ==
  ASSUME Inv, LoopEof
  PROVE  GBN!Emit
<1>1. InvFacts /\ pc = "loop" /\ inp = << >> /\ pc' = "call" /\ bnext' = -1
      /\ inp' = inp /\ nread' = nread
  BY InvFactsHold DEF LoopEof
<1>2. PICK moved \in Moves(slot[0]) :
        /\ slot' = [slot EXCEPT ![0] = Sanitized(slot[0], moved, nextBuf)]
        /\ delivered' = Deliver(slot', bn)
  BY DEF LoopEof
<1>3. slot' \in [Slots -> SlotType]
  BY StepFacts DEF Next
<1>4. \A i \in 0..(bn - 1) : slot'[i].rec = slot[i].rec /\ slot'[i].name = slot[i].name
  <2>1. 0 \in Slots /\ \A i \in 0..(bn - 1) : i \in Slots
    BY <1>1 DEF InvFacts, Slots
  <2>2. slot'[0].rec = slot[0].rec /\ slot'[0].name = slot[0].name
    BY <1>1, <1>2, <2>1, SanitizedKeeps DEF InvFacts
  <2> QED
    BY <1>1, <1>2, <2>1, <2>2 DEF InvFacts
<1>5. /\ AbsPending \in Seq(PRec) /\ Len(AbsPending) = bn
      /\ AbsPending /= << >> /\ AbsPending[1] /= ReadError
  <2>1. Len(AbsPending) = bn + Len(inp) /\ AbsPending \in Seq(PRec)
        /\ \A i \in 1..bn : AbsPending[i] /= ReadError
    BY <1>1, LoopPending
  <2> QED
    BY <1>1, <2>1 DEF InvFacts
<1>6. GBN!RunLen(AbsPending) = bn
  BY <1>1, LoopRunLen
<1>7. AbsOut' = AbsOut \o [i \in 1..bn |-> [rec |-> AbsPending[i].rec, name |-> AbsPending[i].name,
                                            grp |-> GBN!NGroups + 1]]
  <2>1. AbsOut' = OutOf(Deliver(slot', bn))
    BY <1>2, OutShape
  <2> QED
    BY <1>1, <1>3, <1>4, <2>1, OutStep
<1>8. AbsPending' = SubSeq(AbsPending, bn + 1, Len(AbsPending))
  <2>1. SubSeq(AbsPending, bn + 1, Len(AbsPending)) = GBN!Numbered(inp, nread)
    BY <1>1, LoopRest
  <2>2. AbsPending' = << >> \o GBN!Numbered(inp, nread)
    BY <1>1, PendingShapePrimed
  <2>3. GBN!Numbered(inp, nread) = << >> /\ << >> \o GBN!Numbered(inp, nread) = << >>
    BY <1>1, NumberedEmpty DEF InvFacts, GBN!Numbered
  <2> QED
    BY <2>1, <2>2, <2>3
<1>9. AbsStatus = "run" /\ AbsStatus' = "run"
  BY <1>1 DEF AbsStatus
<1> QED
  BY <1>5, <1>6, <1>7, <1>8, <1>9 DEF GBN!Emit

(***************************************************************************)
(* Lemma: after lines 541-544 (a record read into b[n], b[0] sanitized),  *)
(* b[n] holds the record just read and b[0..n-1] keep theirs.              *)
(***************************************************************************)
LEMMA RecordSlots ==
  ASSUME Inv, LoopRecord
  PROVE  /\ slot' \in [Slots -> SlotType]
         /\ slot'[bn].rec = nread + 1 /\ slot'[bn].name = Head(inp).name
         /\ \A i \in 0..(bn - 1) : slot'[i].rec = slot[i].rec /\ slot'[i].name = slot[i].name
<1>1. InvFacts /\ pc = "loop" /\ inp /= << >> /\ Head(inp) /= ReadError
  BY InvFactsHold DEF LoopRecord, LoopRead
<1>2. PICK moved \in Moves(ReadSlots[0]) :
        slot' = [ReadSlots EXCEPT ![0] = Sanitized(ReadSlots[0], moved, FreshAfterRead(slot[bn]))]
  BY DEF LoopRecord
<1>3. 0 \in Slots /\ bn \in Slots /\ bn /= 0 /\ \A i \in 0..(bn - 1) : i \in Slots
  BY <1>1 DEF InvFacts, Slots
<1>4. ReadSlots[bn] = ReadInto(slot[bn], Head(inp), nread + 1)
      /\ \A i \in 0..(bn - 1) : ReadSlots[i] = slot[i]
  BY <1>1, <1>3 DEF ReadSlots, InvFacts
<1>5. slot'[bn] = ReadSlots[bn] /\ \A i \in 1..(bn - 1) : slot'[i] = ReadSlots[i]
  BY <1>1, <1>2, <1>3 DEF InvFacts
<1>6. slot'[0].rec = slot[0].rec /\ slot'[0].name = slot[0].name
  BY <1>1, <1>2, <1>3, <1>4, SanitizedKeeps DEF InvFacts
<1> QED
  BY <1>4, <1>5, <1>6, StepFacts DEF ReadInto, Next

(***************************************************************************)
(* Lines 553-555: the record read has another name; the group b[0..n-1]   *)
(* is returned (Emit of a run that a record of another name ends) and the *)
(* new record stays in b[n] as read-ahead.                                 *)
(***************************************************************************)
LEMMA StepEmitRecord ==
  ASSUME Inv, LoopRecord, slot'[bn].name /= slot'[0].name
  PROVE  GBN!Emit
<1>1. InvFacts /\ pc = "loop" /\ inp /= << >> /\ Head(inp) /= ReadError
      /\ inp' = Tail(inp) /\ nread' = nread + 1 /\ bnext' = bn
  BY InvFactsHold DEF LoopRecord, LoopRead
<1>2. /\ slot' \in [Slots -> SlotType]
      /\ slot'[bn].rec = nread + 1 /\ slot'[bn].name = Head(inp).name
      /\ \A i \in 0..(bn - 1) : slot'[i].rec = slot[i].rec /\ slot'[i].name = slot[i].name
  BY RecordSlots
<1>3. delivered' = Deliver(slot', bn) /\ pc' = "call"
  BY DEF LoopRecord, StopAtNewName
<1>4. Head(inp).name /= slot[0].name
  <2>1. 0 \in 0..(bn - 1)
    BY <1>1 DEF InvFacts
  <2> QED
    BY <1>2, <2>1
<1>5. /\ AbsPending \in Seq(PRec) /\ Len(AbsPending) = bn + Len(inp)
      /\ AbsPending /= << >> /\ AbsPending[1] /= ReadError
  <2>1. Len(AbsPending) = bn + Len(inp) /\ AbsPending \in Seq(PRec)
        /\ \A i \in 1..bn : AbsPending[i] /= ReadError
    BY <1>1, LoopPending
  <2> QED
    BY <1>1, <2>1 DEF InvFacts
<1>6. GBN!RunLen(AbsPending) = bn
  BY <1>1, <1>4, LoopRunLen
<1>7. Head(inp) \in [name : Names, grows : BOOLEAN]
  <2>1. Head(inp) \in Record
    BY <1>1 DEF InvFacts
  <2> QED
    BY <1>1, <2>1 DEF Record
<1>8. GBN!Numbered(inp, nread) =
        << [rec |-> nread + 1, name |-> Head(inp).name] >> \o GBN!Numbered(Tail(inp), nread + 1)
  BY <1>1, NumberedCons DEF InvFacts
<1>9. bn < Len(AbsPending) => AbsPending[bn + 1] /= ReadError
  <2>1. 1 \in 1..Len(inp) /\ bn + 1 \in (bn + 1)..(bn + Len(inp)) /\ inp[1] = Head(inp)
    BY <1>1 DEF InvFacts
  <2>2. AbsPending[bn + 1] = GBN!Numbered(inp, nread)[1]
    <3>1. \A i \in (bn + 1)..(bn + Len(inp)) : AbsPending[i] = GBN!Numbered(inp, nread)[i - bn]
      BY <1>1, LoopPending
    <3>2. (bn + 1) - bn = 1
      BY <1>1 DEF InvFacts
    <3> QED
      BY <2>1, <3>1, <3>2
  <2>3. GBN!Numbered(inp, nread)[1] = [rec |-> nread + 1, name |-> Head(inp).name]
    BY <1>1, <2>1, NumberedAt DEF InvFacts
  <2>4. [rec |-> nread + 1, name |-> Head(inp).name] \in [rec : Nat, name : Names \cup {NoName}]
    BY <1>1, <1>7 DEF InvFacts
  <2> QED
    BY <2>2, <2>3, <2>4, HeldRecordAssumption
<1>10. AbsOut' = AbsOut \o [i \in 1..bn |-> [rec |-> AbsPending[i].rec, name |-> AbsPending[i].name,
                                             grp |-> GBN!NGroups + 1]]
  <2>1. AbsOut' = OutOf(Deliver(slot', bn))
    BY <1>3, OutShape
  <2> QED
    BY <1>1, <1>2, <2>1, OutStep
<1>11. AbsPending' = SubSeq(AbsPending, bn + 1, Len(AbsPending))
  <2>1. SubSeq(AbsPending, bn + 1, Len(AbsPending)) = GBN!Numbered(inp, nread)
    BY <1>1, LoopRest
  <2>2. bnext' >= 0 /\ bnext' \in Int
    BY <1>1 DEF InvFacts
  <2>3. AbsPending' = << [rec |-> slot'[bn].rec, name |-> slot'[bn].name] >>
                      \o GBN!Numbered(Tail(inp), nread + 1)
    BY <1>1, <1>3, <2>2, PendingShapePrimed
  <2> QED
    BY <1>2, <1>8, <2>1, <2>3
<1>12. AbsStatus = "run" /\ AbsStatus' = "run"
  BY <1>1, <1>3 DEF AbsStatus
<1> QED
  BY <1>5, <1>6, <1>9, <1>10, <1>11, <1>12 DEF GBN!Emit

(***************************************************************************)
(* Line 556: the record read has b[0]'s name and joins the group.  The    *)
(* abstract state does not change: the record moves from the unread input *)
(* to the held ones, at the same place.                                    *)
(***************************************************************************)
LEMMA StepStutterRecord ==
  ASSUME Inv, LoopRecord, slot'[bn].name = slot'[0].name
  PROVE  AbsPending' = AbsPending /\ AbsOut' = AbsOut /\ AbsStatus' = AbsStatus
<1>1. InvFacts /\ pc = "loop" /\ inp /= << >> /\ Head(inp) /= ReadError
      /\ inp' = Tail(inp) /\ nread' = nread + 1 /\ bnext' = bn
  BY InvFactsHold DEF LoopRecord, LoopRead
<1>2. /\ slot' \in [Slots -> SlotType]
      /\ slot'[bn].rec = nread + 1 /\ slot'[bn].name = Head(inp).name
      /\ \A i \in 0..(bn - 1) : slot'[i].rec = slot[i].rec /\ slot'[i].name = slot[i].name
  BY RecordSlots
<1>3. bn' = bn + 1 /\ delivered' = delivered /\ pc' = "loop"
  BY <1>1 DEF LoopRecord, StopAtNewName
<1> DEFINE x == [rec |-> nread + 1, name |-> Head(inp).name]
           H == HeldOf(slot, bn)
           N == GBN!Numbered(Tail(inp), nread + 1)
<1>4. Head(inp) \in [name : Names, grows : BOOLEAN] /\ Tail(inp) \in Seq(Record)
  <2>1. Head(inp) \in Record /\ Tail(inp) \in Seq(Record)
    BY <1>1 DEF InvFacts
  <2> QED
    BY <1>1, <2>1 DEF Record
<1>5. H \in Seq(PRec) /\ << x >> \in Seq(PRec) /\ N \in Seq(PRec)
  <2>1. H \in Seq(PRec)
    BY <1>1, HeldType DEF InvFacts, H
  <2>2. << x >> \in Seq(PRec)
    BY <1>1, <1>4 DEF InvFacts, PRec, x
  <2>3. N \in Seq(PRec)
    <3>1. nread + 1 \in Nat
      BY <1>1 DEF InvFacts
    <3> QED
      BY <1>4, <3>1, NumberedType DEF N
  <2> QED
    BY <2>1, <2>2, <2>3
<1>6. AbsPending = H \o (<< x >> \o N)
  <2>1. AbsPending = H \o GBN!Numbered(inp, nread)
    BY <1>1, PendingShape DEF InvFacts, H
  <2>2. GBN!Numbered(inp, nread) = << x >> \o N
    BY <1>1, NumberedCons DEF InvFacts, x, N
  <2> QED
    BY <2>1, <2>2
<1>7. AbsPending' = (H \o << x >>) \o N
  <2>1. bnext' \in Int
    BY <1>1 DEF InvFacts
  <2>2. AbsPending' = HeldOf(slot', bn + 1) \o N
    BY <1>1, <1>3, <2>1, PendingShapePrimed DEF N
  <2>3. HeldOf(slot', bn + 1) = H \o << x >>
    BY <1>1, <1>2, HeldAppend DEF InvFacts, H, x
  <2> QED
    BY <2>2, <2>3
<1>8. (H \o << x >>) \o N = H \o (<< x >> \o N)
  BY <1>5, ConcatAssociative
<1>9. AbsOut' = AbsOut /\ AbsStatus' = AbsStatus
  BY <1>1, <1>3 DEF AbsOut, AbsStatus
<1> QED
  BY <1>6, <1>7, <1>8, <1>9

(***************************************************************************)
(* Lines 519-536, the first call: b[0] is read and sanitized and the loop *)
(* starts.  The record moves from the unread input to the held ones.       *)
(***************************************************************************)
LEMMA StepStutterFirst ==
  ASSUME Inv, CallFirst
  PROVE  AbsPending' = AbsPending /\ AbsOut' = AbsOut /\ AbsStatus' = AbsStatus
<1>1. /\ InvFacts /\ pc = "call" /\ bnext < 0 /\ inp /= << >> /\ Head(inp) /= ReadError
      /\ inp' = Tail(inp) /\ nread' = nread + 1 /\ bn' = 1 /\ pc' = "loop"
      /\ delivered' = delivered /\ bnext' = bnext
  BY InvFactsHold DEF CallFirst, FirstCall
<1>2. slot' \in [Slots -> SlotType] /\ slot'[0].rec = nread + 1 /\ slot'[0].name = Head(inp).name
  <2>1. PICK moved \in Moves(First0) :
          slot' = [slot EXCEPT ![0] = Sanitized(First0, moved, FreshAfterRead(slot[0]))]
    BY DEF CallFirst
  <2>2. 0 \in Slots
    BY <1>1 DEF InvFacts, Slots
  <2>3. slot'[0].rec = nread + 1 /\ slot'[0].name = Head(inp).name
    BY <1>1, <2>1, <2>2, SanitizedKeeps DEF InvFacts, First0, ReadInto
  <2> QED
    BY <2>3, StepFacts DEF Next
<1> DEFINE x == [rec |-> nread + 1, name |-> Head(inp).name]
           N == GBN!Numbered(Tail(inp), nread + 1)
<1>3. GBN!Numbered(inp, nread) \in Seq(PRec)
  BY <1>1, NumberedType DEF InvFacts
<1>4. AbsPending = << x >> \o N
  <2>1. AbsPending = << >> \o GBN!Numbered(inp, nread)
    BY <1>1, PendingShape DEF InvFacts
  <2>2. AbsPending = GBN!Numbered(inp, nread)
    BY <1>3, <2>1, ConcatEmptySeq
  <2> QED
    BY <1>1, <2>2, NumberedCons DEF InvFacts, x, N
<1>5. AbsPending' = << x >> \o N
  <2>1. AbsPending' = HeldOf(slot', 1) \o N
    BY <1>1, PendingShapePrimed DEF InvFacts, N
  <2>2. HeldOf(slot', 1) = << x >>
    BY <1>2, HeldOne DEF x
  <2> QED
    BY <2>1, <2>2
<1> QED
  BY <1>1, <1>4, <1>5 DEF AbsOut, AbsStatus

(***************************************************************************)
(* Lines 527-536, a later call: the read-ahead record is swapped into b[0] *)
(* and the loop starts; it stays the first held record.                    *)
(***************************************************************************)
LEMMA StepStutterNext ==
  ASSUME Inv, CallNext
  PROVE  AbsPending' = AbsPending /\ AbsOut' = AbsOut /\ AbsStatus' = AbsStatus
<1>1. /\ InvFacts /\ pc = "call" /\ bnext >= 0 /\ bn' = 1 /\ pc' = "loop"
      /\ inp' = inp /\ nread' = nread /\ delivered' = delivered /\ bnext' = bnext
  BY InvFactsHold DEF CallNext
<1>2. slot' \in [Slots -> SlotType] /\ slot'[0] = slot[bnext]
  <2>1. bnext \in Slots /\ 0 \in Slots /\ bnext /= 0
    BY <1>1 DEF InvFacts, Slots
  <2>2. slot'[0] = slot[bnext]
    BY <1>1, <2>1 DEF CallNext, InvFacts
  <2> QED
    BY <2>2, StepFacts DEF Next
<1>3. AbsPending = << [rec |-> slot[bnext].rec, name |-> slot[bnext].name] >>
                   \o GBN!Numbered(inp, nread)
  BY <1>1, PendingShape DEF InvFacts
<1>4. AbsPending' = HeldOf(slot', 1) \o GBN!Numbered(inp, nread)
  BY <1>1, PendingShapePrimed DEF InvFacts
<1>5. HeldOf(slot', 1) = << [rec |-> slot[bnext].rec, name |-> slot[bnext].name] >>
  BY <1>2, HeldOne
<1> QED
  BY <1>1, <1>3, <1>4, <1>5 DEF AbsOut, AbsStatus

(***************************************************************************)
(* Lemma: every step of next_template, from a state of Inv, is a step of  *)
(* GroupByName under the mapping, or leaves the abstract state alone.      *)
(***************************************************************************)
LEMMA RefineStep == Inv /\ [Next]_vars => [GBN!Next]_GBN!avars
<1> SUFFICES ASSUME Inv, [Next]_vars PROVE [GBN!Next]_GBN!avars
  OBVIOUS
<1>a. InvFacts
  BY InvFactsHold
<1>s. ASSUME AbsPending' = AbsPending, AbsOut' = AbsOut, AbsStatus' = AbsStatus
      PROVE  [GBN!Next]_GBN!avars
  BY <1>s DEF GBN!avars
\* The actions that stop the reader with -2 are GiveUp.
<1>g. ASSUME pc \in {"call", "loop"}, pc' = "fail", delivered' = delivered, bnext' = bnext
      PROVE  [GBN!Next]_GBN!avars
  <2>1. bnext' \in Int
    BY <1>g, <1>a DEF InvFacts
  <2> QED
    BY <1>g, <2>1, StepGiveUp DEF GBN!Next
<1>1. CASE CallAtEof
  <2>1. inp = << >> /\ bnext = -1
    BY <1>1 DEF CallAtEof, Inv, OrderInv
  <2>2. GBN!Finish
    BY <1>1, <2>1, StepFinish DEF CallAtEof
  <2> QED
    BY <2>2 DEF GBN!Next
<1>2. CASE CallFirstGrowFails
  BY <1>2, <1>g DEF CallFirstGrowFails, FirstCall
<1>3. CASE CallFirstEof
  <2>1. GBN!Finish
    BY <1>3, <1>a, StepFinish DEF CallFirstEof, FirstCall, InvFacts
  <2> QED
    BY <2>1 DEF GBN!Next
<1>4. CASE CallFirstReadError
  BY <1>4, StepReadFailsFirst DEF GBN!Next
<1>5. CASE CallFirstSanitizeFails
  BY <1>5, <1>g DEF CallFirstSanitizeFails, FirstCall
<1>6. CASE CallFirst
  BY <1>6, <1>s, StepStutterFirst
<1>7. CASE CallNext
  BY <1>7, <1>s, StepStutterNext
<1>8. CASE LoopGrowFails
  BY <1>8, <1>g DEF LoopGrowFails
<1>9. CASE LoopReadError
  BY <1>9, StepReadFailsLoop DEF GBN!Next
<1>10. CASE LoopEofSanitizeFails
  BY <1>10, <1>g DEF LoopEofSanitizeFails
<1>11. CASE LoopEof
  BY <1>11, StepEmitEof DEF GBN!Next
<1>12. CASE LoopRecordSanitizeFails
  BY <1>12, <1>g DEF LoopRecordSanitizeFails, LoopRead
<1>13. CASE LoopRecord
  <2>1. CASE slot'[bn].name /= slot'[0].name
    BY <1>13, <2>1, StepEmitRecord DEF GBN!Next
  <2>2. CASE slot'[bn].name = slot'[0].name
    BY <1>13, <2>2, <1>s, StepStutterRecord
  <2> QED
    BY <2>1, <2>2
<1>14. CASE UNCHANGED vars
  <2>1. AbsPending' = AbsPending /\ AbsOut' = AbsOut /\ AbsStatus' = AbsStatus
    BY <1>14 DEF vars, AbsPending, HeldRecs, UnreadRecs, AbsOut, AbsStatus
  <2> QED
    BY <2>1, <1>s
<1>15. CASE Stopped
  BY <1>15, <1>14 DEF Stopped
<1> QED
  BY <1>1, <1>2, <1>3, <1>4, <1>5, <1>6, <1>7, <1>8, <1>9, <1>10, <1>11, <1>12,
     <1>13, <1>14, <1>15 DEF Next

\* Lemma: the initial states of the reader map to initial states of GroupByName.
LEMMA RefineInit == Init => GBN!Init
<1> SUFFICES ASSUME Init PROVE GBN!Init
  OBVIOUS
<1>1. inp \in Inputs /\ inp \in Seq(Record) /\ nread = 0 /\ pc = "call" /\ bnext = -1
      /\ delivered = << >>
  BY InputsAssumption DEF Init
<1>2. AbsPending = GBN!Numbered(inp, 0)
  <2>1. AbsPending = << >> \o GBN!Numbered(inp, nread)
    BY <1>1, PendingShape
  <2>2. GBN!Numbered(inp, 0) \in Seq(PRec)
    BY <1>1, NumberedType
  <2> QED
    BY <1>1, <2>1, <2>2, ConcatEmptySeq
<1>3. AbsOut = << >> /\ AbsStatus = "run"
  BY <1>1 DEF AbsOut, AbsStatus
<1> QED
  BY <1>1, <1>2, <1>3 DEF GBN!Init

(***************************************************************************)
(* Theorem: next_template, called by bam_mating_core until it returns < 0, *)
(* implements the safety part of GroupByName: whatever it hands over, and *)
(* however it stops, some run of the abstract reader hands over the same   *)
(* groups in the same order and stops the same way.                        *)
(***************************************************************************)
THEOREM ImplementsGroupByName == Spec => GBN!SafetySpec
<1>1. Spec => []Inv
  BY InitInv, NextInv, PTL DEF Spec
<1> QED
  BY <1>1, RefineInit, RefineStep, PTL DEF Spec, GBN!SafetySpec
=============================================================================
