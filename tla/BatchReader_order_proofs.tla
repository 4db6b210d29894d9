---------------------- MODULE BatchReader_order_proofs ----------------------
(***************************************************************************)
(* Proofs that next_template hands over every record once and in order,    *)
(* in groups that are the maximal runs of one name, for every set of      *)
(* names, every input set and every length bound.                          *)
(***************************************************************************)
EXTENDS BatchReader_proofs, SequenceTheorems

\* The number of records handed over so far.
D == Len(delivered)

(***************************************************************************)
(* Where each record read so far is.  Record r (in input order) has been   *)
(* handed over as delivered[r], or is held in b[0..n-1] while the loop of  *)
(* lines 537-558 runs, or is the read-ahead record b[b_next] between       *)
(* calls.  Once eof is set nothing is held or left to read.                *)
(***************************************************************************)
OrderInv ==
  /\ \A i \in 1..D : delivered[i].rec = i
  /\ pc = "loop" => /\ D + bn = nread
                    /\ \A i \in 0..(bn - 1) : slot[i].rec = D + i + 1
  /\ pc = "call" /\ bnext >= 0 => D + 1 = nread /\ slot[bnext].rec = nread
  /\ pc = "call" /\ bnext < 0 => D = nread
  /\ eof => inp = << >> /\ bnext = -1 /\ pc \in {"call", "end"}
  /\ pc = "end" => inp = << >> /\ D = nread

(***************************************************************************)
(* The names.  Runs(d, n): the groups handed over are numbered 1..n, and  *)
(* two neighbours share a group exactly when they share a name.  Before   *)
(* the first call nothing is handed over; the records held in the loop    *)
(* share b[0]'s name; and the record held next (b[0] in the loop, the     *)
(* read-ahead record between calls) has a name other than the last one    *)
(* handed over: it is what ended that group at line 553.                  *)
(***************************************************************************)
Runs(d, n) ==
  /\ (Len(d) = 0) = (n = 0)
  /\ Len(d) > 0 => d[1].grp = 1 /\ d[Len(d)].grp = n
  /\ \A i \in 1..(Len(d) - 1) :
       d[i + 1].grp = d[i].grp + (IF d[i].name = d[i + 1].name THEN 0 ELSE 1)
  /\ \A i \in 1..Len(d) : d[i].name \in Names

NameInv ==
  /\ Runs(delivered, ngroups)
  /\ pc = "call" /\ bnext < 0 /\ ~eof => D = 0
  /\ pc = "loop" => \A i \in 0..(bn - 1) : slot[i].name = slot[0].name /\ slot[i].name \in Names
  /\ pc = "loop" /\ D > 0 => slot[0].name /= delivered[D].name
  /\ pc = "call" /\ bnext >= 0 => slot[bnext].name \in Names
  /\ pc = "call" /\ bnext >= 0 /\ D > 0 => slot[bnext].name /= delivered[D].name

Inv == TypeInv /\ OrderInv /\ NameInv
-----------------------------------------------------------------------------
\* A delivered record, and the group of the k records sl[0..k-1] numbered g.
DRec == [rec : Nat, name : Names \cup {NoName}, san : Nat, grp : Nat]
Group(sl, k, g) ==
  [i \in 1..k |-> [rec |-> sl[i - 1].rec, name |-> sl[i - 1].name,
                   san |-> sl[i - 1].san, grp |-> g]]

(***************************************************************************)
(* Lemma: handing over the k records sl[0..k-1] appends them, with the     *)
(* next group number, after the records handed over so far.                *)
(***************************************************************************)
LEMMA DeliverProps ==
  ASSUME delivered \in Seq(DRec), ngroups \in Nat, MaxInput \in Nat
  PROVE  \A sl \in [Slots -> SlotType], k \in 0..MaxInput :
           /\ Deliver(sl, k) \in Seq(DRec)
           /\ Len(Deliver(sl, k)) = Len(delivered) + k
           /\ \A i \in 1..Len(delivered) : Deliver(sl, k)[i] = delivered[i]
           /\ \A i \in 1..k : /\ Deliver(sl, k)[Len(delivered) + i].rec = sl[i - 1].rec
                              /\ Deliver(sl, k)[Len(delivered) + i].name = sl[i - 1].name
                              /\ Deliver(sl, k)[Len(delivered) + i].grp = ngroups + 1
<1> TAKE sl \in [Slots -> SlotType], k \in 0..MaxInput
<1>1. \A i \in 1..k : i - 1 \in Slots
  BY DEF Slots
<1>2. Group(sl, k, ngroups + 1) \in Seq(DRec) /\ Len(Group(sl, k, ngroups + 1)) = k
  BY <1>1 DEF Group, DRec, SlotType
<1>3. Deliver(sl, k) = delivered \o Group(sl, k, ngroups + 1)
  BY DEF Deliver, Group
<1> QED
  BY <1>2, <1>3, ConcatProperties DEF Group

\* Lemma: bam_sanitize keeps a record's input index and name.
LEMMA SanitizedKeeps ==
  ASSUME NEW s, NEW m, NEW to
  PROVE  Sanitized(s, m, to).rec = s.rec /\ Sanitized(s, m, to).name = s.name
  BY DEF Sanitized

(***************************************************************************)
(* Lemma: every step of next_template keeps each record read in exactly   *)
(* one place: handed over, held, or read ahead.                            *)
(***************************************************************************)
LEMMA NextOrder == Inv /\ [Next]_vars => OrderInv'
<1> SUFFICES ASSUME Inv, [Next]_vars PROVE OrderInv'
  OBVIOUS
<1>a. /\ slot \in [Slots -> SlotType] /\ delivered \in Seq(DRec) /\ MaxInput \in Nat
      /\ bn \in 0..MaxInput /\ bnext \in -1..MaxInput /\ nread \in Nat /\ ngroups \in Nat
      /\ nread + Len(inp) <= MaxInput /\ bn <= nread /\ bnext /= 0
      /\ (pc = "loop" => bn >= 1) /\ inp \in Seq(Record) /\ eof \in BOOLEAN
  BY MaxInputAssumption DEF Inv, TypeInv, TypeOK, DRec
<1>b. OrderInv
  BY DEF Inv
<1>c. \A sl \in [Slots -> SlotType], k \in 0..MaxInput :
        /\ Deliver(sl, k) \in Seq(DRec)
        /\ Len(Deliver(sl, k)) = D + k
        /\ \A i \in 1..D : Deliver(sl, k)[i] = delivered[i]
        /\ \A i \in 1..k : Deliver(sl, k)[D + i].rec = sl[i - 1].rec
  BY <1>a, DeliverProps DEF D
<1>1. CASE CallAtEof
  BY <1>1, <1>b DEF CallAtEof, OrderInv, D
<1>2. CASE CallFirstGrowFails
  BY <1>2, <1>b DEF CallFirstGrowFails, FirstCall, OrderInv, D
<1>3. CASE CallFirstEof
  BY <1>3, <1>b DEF CallFirstEof, FirstCall, OrderInv, D
<1>4. CASE CallFirstReadError
  BY <1>4, <1>b DEF CallFirstReadError, FirstCall, OrderInv, D
<1>5. CASE CallFirstSanitizeFails
  BY <1>5, <1>b DEF CallFirstSanitizeFails, FirstCall, OrderInv, D
<1>6. CASE CallFirst
  <2>1. PICK moved \in BOOLEAN :
          slot' = [slot EXCEPT ![0] = Sanitized(First0, moved, FreshAfterRead(slot[0]))]
    BY <1>6 DEF CallFirst, Moves
  <2>2. slot'[0].rec = nread + 1
    <3>1. 0 \in Slots
      BY <1>a DEF Slots
    <3> QED
      BY <2>1, <3>1, <1>a, SanitizedKeeps DEF First0, ReadInto
  <2>3. D = nread
    BY <1>6, <1>b DEF CallFirst, FirstCall, OrderInv
  <2> QED
    BY <1>6, <1>b, <2>2, <2>3 DEF CallFirst, FirstCall, OrderInv, D
<1>7. CASE CallNext
  <2>1. bnext \in 1..MaxInput /\ 0 \in Slots
    BY <1>7, <1>a DEF CallNext, Slots
  <2>2. slot'[0] = slot[bnext]
    BY <1>7, <2>1, <1>a DEF CallNext, Slots
  <2> QED
    BY <1>7, <1>b, <2>1, <2>2 DEF CallNext, OrderInv, D
<1>8. CASE LoopGrowFails
  BY <1>8, <1>b DEF LoopGrowFails, OrderInv, D
<1>9. CASE LoopReadError
  BY <1>9, <1>b DEF LoopReadError, OrderInv, D
<1>10. CASE LoopEofSanitizeFails
  BY <1>10, <1>b DEF LoopEofSanitizeFails, OrderInv, D
<1>11. CASE LoopEof
  <2>1. PICK moved \in BOOLEAN :
          /\ slot' = [slot EXCEPT ![0] = Sanitized(slot[0], moved, nextBuf)]
          /\ delivered' = Deliver(slot', bn)
    BY <1>11 DEF LoopEof, Moves
  <2>2. slot' \in [Slots -> SlotType] /\ \A i \in Slots : slot'[i].rec = slot[i].rec
    <3>1. 0 \in Slots /\ slot[0] \in SlotType /\ nextBuf \in Nat
      BY <1>a DEF Slots, Inv, TypeInv, TypeOK
    <3>2. Sanitized(slot[0], moved, nextBuf) \in SlotType
      BY <3>1, SanitizedType
    <3> QED
      BY <2>1, <3>1, <3>2, <1>a, SanitizedKeeps
  <2>3. /\ Len(delivered') = D + bn
        /\ \A i \in 1..D : delivered'[i] = delivered[i]
        /\ \A i \in 1..bn : delivered'[D + i].rec = slot'[i - 1].rec
    <3>1. /\ Len(Deliver(slot', bn)) = D + bn
          /\ \A i \in 1..D : Deliver(slot', bn)[i] = delivered[i]
          /\ \A i \in 1..bn : Deliver(slot', bn)[D + i].rec = slot'[i - 1].rec
      BY <2>2, <1>a, <1>c, Zenon
    <3> QED
      BY <3>1, <2>1
  <2>4. pc = "loop" /\ D + bn = nread /\ \A i \in 0..(bn - 1) : slot[i].rec = D + i + 1
    BY <1>11, <1>b DEF LoopEof, OrderInv
  <2>5. \A i \in 1..Len(delivered') : delivered'[i].rec = i
    <3> SUFFICES ASSUME NEW i \in 1..Len(delivered') PROVE delivered'[i].rec = i
      OBVIOUS
    <3>1. CASE i <= D
      BY <3>1, <2>3, <1>b DEF OrderInv, D
    <3>2. CASE i > D
      <4>1. i - D \in 1..bn /\ i - D - 1 \in 0..(bn - 1) /\ i - D - 1 \in Slots
        BY <3>2, <2>3, <1>a DEF D, Slots
      <4>2. delivered'[D + (i - D)].rec = slot'[i - D - 1].rec
        BY <4>1, <2>3
      <4>3. slot'[i - D - 1].rec = D + (i - D - 1) + 1
        BY <4>1, <2>2, <2>4
      <4> QED
        BY <4>2, <4>3, <1>a DEF D
    <3> QED
      BY <3>1, <3>2, <1>a DEF D
  <2>6. pc' = "call" /\ bnext' = -1 /\ nread' = nread /\ inp' = inp /\ inp = << >>
    BY <1>11 DEF LoopEof
  <2>7. D' = nread'
    BY <2>3, <2>4, <2>6 DEF D
  <2> QED
    BY <2>5, <2>6, <2>7 DEF OrderInv, D
<1>12. CASE LoopRecordSanitizeFails
  BY <1>12, <1>b DEF LoopRecordSanitizeFails, LoopRead, OrderInv, D
<1>13. CASE LoopRecord
  <2>1. PICK moved \in BOOLEAN :
          /\ slot' = [ReadSlots EXCEPT ![0] = Sanitized(ReadSlots[0], moved, FreshAfterRead(slot[bn]))]
          /\ StopAtNewName(slot')
    BY <1>13 DEF LoopRecord, Moves
  <2>2. pc = "loop" /\ bn \in 1..(MaxInput - 1) /\ D + bn = nread
        /\ \A i \in 0..(bn - 1) : slot[i].rec = D + i + 1
    BY <1>13, <1>a, <1>b DEF LoopRecord, LoopRead, OrderInv
  <2>3. /\ slot' \in [Slots -> SlotType]
        /\ \A i \in 0..(bn - 1) : slot'[i].rec = D + i + 1
        /\ slot'[bn].rec = nread + 1
    <3>1. bn \in Slots /\ 0 \in Slots /\ slot[bn] \in SlotType /\ nextBuf \in Nat
      BY <2>2, <1>a DEF Slots, Inv, TypeInv, TypeOK
    <3>2. Head(inp) \in [name : Names, grows : BOOLEAN]
      <4>1. Head(inp) \in Record
        BY <1>13, <1>a DEF LoopRecord, LoopRead
      <4> QED
        BY <4>1, <1>13 DEF LoopRecord, LoopRead, Record
    <3>3. ReadSlots \in [Slots -> SlotType]
      BY <3>1, <3>2, <1>a DEF ReadSlots, ReadInto, SlotType, NoName
    <3>4. FreshAfterRead(slot[bn]) \in Nat
      BY <3>1 DEF FreshAfterRead, SlotType
    <3>5. Sanitized(ReadSlots[0], moved, FreshAfterRead(slot[bn])) \in SlotType
      BY <3>1, <3>3, <3>4, SanitizedType
    <3>6. \A i \in Slots : ReadSlots[i].rec = IF i = bn THEN nread + 1 ELSE slot[i].rec
      BY <3>1, <1>a DEF ReadSlots, ReadInto
    <3>7. Sanitized(ReadSlots[0], moved, FreshAfterRead(slot[bn])).rec = ReadSlots[0].rec
      BY SanitizedKeeps
    <3>8. \A i \in Slots : slot'[i].rec = ReadSlots[i].rec
      BY <2>1, <3>1, <3>3, <3>7
    <3>9. slot' \in [Slots -> SlotType]
      BY <2>1, <3>1, <3>3, <3>5
    <3>10. \A i \in 0..(bn - 1) : i \in Slots /\ i /= bn
      BY <2>2, <1>a DEF Slots
    <3>11. \A i \in 0..(bn - 1) : slot'[i].rec = D + i + 1
      BY <2>2, <3>6, <3>8, <3>10
    <3>12. slot'[bn].rec = nread + 1
      BY <3>1, <3>6, <3>8
    <3> QED
      BY <3>9, <3>11, <3>12
  <2>4. CASE slot'[bn].name /= slot'[0].name
    <3>1. delivered' = Deliver(slot', bn) /\ pc' = "call" /\ bn' = bn
      BY <2>1, <2>4 DEF StopAtNewName
    <3>2. /\ Len(delivered') = D + bn
          /\ \A i \in 1..D : delivered'[i] = delivered[i]
          /\ \A i \in 1..bn : delivered'[D + i].rec = slot'[i - 1].rec
      BY <3>1, <2>2, <2>3, <1>a, <1>c
    <3>3. \A i \in 1..Len(delivered') : delivered'[i].rec = i
      <4> SUFFICES ASSUME NEW i \in 1..Len(delivered') PROVE delivered'[i].rec = i
        OBVIOUS
      <4>1. CASE i <= D
        BY <4>1, <3>2, <1>b DEF OrderInv, D
      <4>2. CASE i > D
        <5>1. i - D \in 1..bn /\ i - D - 1 \in 0..(bn - 1)
          BY <4>2, <3>2, <1>a DEF D
        <5>2. delivered'[D + (i - D)].rec = slot'[i - D - 1].rec
          BY <5>1, <3>2
        <5>3. slot'[i - D - 1].rec = D + (i - D - 1) + 1
          BY <5>1, <2>3
        <5> QED
          BY <5>2, <5>3, <1>a DEF D
      <4> QED
        BY <4>1, <4>2, <1>a DEF D
    <3>4. bnext' = bn /\ nread' = nread + 1 /\ eof' = eof /\ ~eof
      <4>1. bnext' = bn /\ nread' = nread + 1 /\ eof' = eof
        BY <1>13 DEF LoopRecord
      <4>2. ~eof
        BY <2>2, <1>a, <1>b DEF OrderInv
      <4> QED
        BY <4>1, <4>2
    <3> QED
      BY <2>2, <2>3, <3>1, <3>2, <3>3, <3>4 DEF OrderInv, D
  <2>5. CASE slot'[bn].name = slot'[0].name
    <3>1. bn' = bn + 1 /\ UNCHANGED <<delivered, ngroups, pc>>
      BY <2>1, <2>5 DEF StopAtNewName
    <3>2. nread' = nread + 1 /\ eof' = eof /\ ~eof
      <4>1. nread' = nread + 1 /\ eof' = eof
        BY <1>13 DEF LoopRecord
      <4>2. ~eof
        BY <2>2, <1>a, <1>b DEF OrderInv
      <4> QED
        BY <4>1, <4>2
    <3>3. \A i \in 0..(bn' - 1) : slot'[i].rec = D' + i + 1
      BY <3>1, <2>2, <2>3 DEF D
    <3> QED
      BY <3>1, <3>2, <3>3, <2>2, <1>b DEF OrderInv, D
  <2> QED
    BY <2>4, <2>5
<1>14. CASE Stopped
  BY <1>14, <1>b DEF Stopped, vars, OrderInv, D
<1>15. CASE UNCHANGED vars
  BY <1>15, <1>b DEF vars, OrderInv, D
<1> QED
  BY <1>1, <1>2, <1>3, <1>4, <1>5, <1>6, <1>7, <1>8, <1>9, <1>10, <1>11,
     <1>12, <1>13, <1>14, <1>15 DEF Next

(***************************************************************************)
(* Lemma: handing over k records of one name, a name other than that of   *)
(* the last record handed over, as group ngroups + 1 keeps the groups the *)
(* maximal runs of one name.                                               *)
(***************************************************************************)
LEMMA DeliverRuns ==
  ASSUME delivered \in Seq(DRec), ngroups \in Nat, MaxInput \in Nat,
         Runs(delivered, ngroups)
  PROVE  \A sl \in [Slots -> SlotType], k \in 1..MaxInput :
           /\ \A i \in 0..(k - 1) : sl[i].name = sl[0].name /\ sl[i].name \in Names
           /\ D > 0 => sl[0].name /= delivered[D].name
           => Runs(Deliver(sl, k), ngroups + 1)
<1> TAKE sl \in [Slots -> SlotType], k \in 1..MaxInput
<1> HAVE /\ \A i \in 0..(k - 1) : sl[i].name = sl[0].name /\ sl[i].name \in Names
         /\ D > 0 => sl[0].name /= delivered[D].name
<1> DEFINE e == Deliver(sl, k)
<1>1. /\ e \in Seq(DRec)
      /\ Len(e) = D + k
      /\ \A i \in 1..D : e[i] = delivered[i]
      /\ \A i \in 1..k : /\ e[D + i].name = sl[i - 1].name
                         /\ e[D + i].grp = ngroups + 1
  BY DeliverProps DEF D
<1>2. D \in Nat /\ k \in Nat /\ k >= 1
  BY DEF D
\* The records of the new group, indexed from the end of the old ones.
<1>3. \A i \in (D + 1)..(D + k) : e[i].name = sl[0].name /\ e[i].grp = ngroups + 1
  <2> SUFFICES ASSUME NEW i \in (D + 1)..(D + k)
               PROVE  e[i].name = sl[0].name /\ e[i].grp = ngroups + 1
    OBVIOUS
  <2>1. i - D \in 1..k /\ i - D - 1 \in 0..(k - 1)
    BY <1>2
  <2>2. e[D + (i - D)].name = sl[i - D - 1].name /\ e[D + (i - D)].grp = ngroups + 1
    BY <2>1, <1>1
  <2> QED
    BY <2>1, <2>2, <1>2
<1>4. (Len(e) = 0) = (ngroups + 1 = 0)
  BY <1>1, <1>2
<1>5. e[1].grp = 1 /\ e[Len(e)].grp = ngroups + 1
  <2>1. CASE D = 0
    <3>1. ngroups = 0
      BY <2>1 DEF Runs, D
    <3> QED
      BY <2>1, <3>1, <1>1, <1>2, <1>3
  <2>2. CASE D > 0
    BY <2>2, <1>1, <1>2, <1>3 DEF Runs, D
  <2> QED
    BY <2>1, <2>2, <1>2
<1>6. \A i \in 1..(Len(e) - 1) :
        e[i + 1].grp = e[i].grp + (IF e[i].name = e[i + 1].name THEN 0 ELSE 1)
  <2> SUFFICES ASSUME NEW i \in 1..(Len(e) - 1)
               PROVE  e[i + 1].grp = e[i].grp + (IF e[i].name = e[i + 1].name THEN 0 ELSE 1)
    OBVIOUS
  <2>1. CASE i < D
    BY <2>1, <1>1, <1>2 DEF Runs, D
  <2>2. CASE i = D
    <3>1. e[i] = delivered[D] /\ e[i + 1].name = sl[0].name /\ e[i + 1].grp = ngroups + 1
      BY <2>2, <1>1, <1>2, <1>3
    <3>2. delivered[D].grp = ngroups /\ sl[0].name /= delivered[D].name
      BY <2>2, <1>1, <1>2 DEF Runs, D
    <3> QED
      BY <3>1, <3>2
  <2>3. CASE i > D
    BY <2>3, <1>1, <1>2, <1>3
  <2> QED
    BY <2>1, <2>2, <2>3, <1>1, <1>2
<1>7. \A i \in 1..Len(e) : e[i].name \in Names
  <2> SUFFICES ASSUME NEW i \in 1..Len(e) PROVE e[i].name \in Names
    OBVIOUS
  <2>1. CASE i <= D
    BY <2>1, <1>1, <1>2 DEF Runs, D
  <2>2. CASE i > D
    <3>1. 0 \in 0..(k - 1)
      BY <1>2
    <3> QED
      BY <2>2, <3>1, <1>1, <1>2, <1>3
  <2> QED
    BY <2>1, <2>2, <1>2
<1> QED
  BY <1>4, <1>5, <1>6, <1>7 DEF Runs

(***************************************************************************)
(* Lemma: every step of next_template keeps the groups the runs of one     *)
(* name, and the held records as NameInv says.                             *)
(***************************************************************************)
LEMMA NextName == Inv /\ [Next]_vars => NameInv'
<1> SUFFICES ASSUME Inv, [Next]_vars PROVE NameInv'
  OBVIOUS
<1>a. /\ slot \in [Slots -> SlotType] /\ delivered \in Seq(DRec) /\ MaxInput \in Nat
      /\ bn \in 0..MaxInput /\ bnext \in -1..MaxInput /\ nread \in Nat /\ ngroups \in Nat
      /\ nread + Len(inp) <= MaxInput /\ bn <= nread /\ bnext /= 0
      /\ (pc = "loop" => bn >= 1) /\ inp \in Seq(Record) /\ eof \in BOOLEAN
      /\ nextBuf \in Nat
  BY MaxInputAssumption DEF Inv, TypeInv, TypeOK, DRec
<1>b. OrderInv /\ NameInv
  BY DEF Inv
<1>c. \A sl \in [Slots -> SlotType], k \in 1..MaxInput :
        /\ \A i \in 0..(k - 1) : sl[i].name = sl[0].name /\ sl[i].name \in Names
        /\ D > 0 => sl[0].name /= delivered[D].name
        => Runs(Deliver(sl, k), ngroups + 1)
  BY <1>a, <1>b, DeliverRuns DEF NameInv
<1>d. \A sl \in [Slots -> SlotType], k \in 0..MaxInput :
        /\ Len(Deliver(sl, k)) = D + k
        /\ \A i \in 1..k : Deliver(sl, k)[D + i].name = sl[i - 1].name
  BY <1>a, DeliverProps DEF D
\* A record read from the input has a name.
<1>e. inp /= << >> /\ Head(inp) /= ReadError => Head(inp) \in [name : Names, grows : BOOLEAN]
  <2>1. inp /= << >> => Head(inp) \in Record
    BY <1>a
  <2> QED
    BY <2>1 DEF Record
\* The actions that stop the reader and leave delivered and ngroups alone.
<1>1. CASE pc' \in {"end", "readfail", "fail"} /\ UNCHANGED <<delivered, ngroups>>
  BY <1>1, <1>b DEF NameInv, D
<1>2. CASE CallFirst
  <2>1. PICK moved \in BOOLEAN :
          slot' = [slot EXCEPT ![0] = Sanitized(First0, moved, FreshAfterRead(slot[0]))]
    BY <1>2 DEF CallFirst, Moves
  <2>2. slot'[0].name = Head(inp).name /\ Head(inp).name \in Names
    <3>1. 0 \in Slots
      BY <1>a DEF Slots
    <3>2. Head(inp) \in [name : Names, grows : BOOLEAN]
      BY <1>2, <1>e DEF CallFirst, FirstCall
    <3> QED
      BY <2>1, <3>1, <3>2, <1>a, SanitizedKeeps DEF First0, ReadInto
  <2>3. D = 0
    BY <1>2, <1>b DEF CallFirst, FirstCall, NameInv
  <2> QED
    BY <1>2, <1>b, <2>2, <2>3 DEF CallFirst, NameInv, D
<1>3. CASE CallNext
  <2>1. bnext \in 1..MaxInput /\ 0 \in Slots
    BY <1>3, <1>a DEF CallNext, Slots
  <2>2. slot'[0] = slot[bnext]
    BY <1>3, <2>1, <1>a DEF CallNext, Slots
  <2> QED
    BY <1>3, <1>b, <2>1, <2>2 DEF CallNext, NameInv, D
<1>4. CASE LoopEof
  <2>1. PICK moved \in BOOLEAN :
          /\ slot' = [slot EXCEPT ![0] = Sanitized(slot[0], moved, nextBuf)]
          /\ delivered' = Deliver(slot', bn)
    BY <1>4 DEF LoopEof, Moves
  <2>2. slot' \in [Slots -> SlotType] /\ \A i \in Slots : slot'[i].name = slot[i].name
    <3>1. 0 \in Slots /\ slot[0] \in SlotType
      BY <1>a DEF Slots
    <3>2. Sanitized(slot[0], moved, nextBuf) \in SlotType
      BY <3>1, <1>a, SanitizedType
    <3> QED
      BY <2>1, <3>1, <3>2, <1>a, SanitizedKeeps
  <2>3. pc = "loop" /\ bn \in 1..MaxInput
        /\ \A i \in 0..(bn - 1) : slot[i].name = slot[0].name /\ slot[i].name \in Names
        /\ (D > 0 => slot[0].name /= delivered[D].name)
    BY <1>4, <1>a, <1>b DEF LoopEof, NameInv
  <2>4. \A i \in 0..(bn - 1) : slot'[i].name = slot'[0].name /\ slot'[i].name \in Names
    BY <2>2, <2>3, <1>a DEF Slots
  <2>5. Runs(delivered', ngroups')
    <3>1. ngroups' = ngroups + 1
      BY <1>4 DEF LoopEof
    <3>2. D > 0 => slot'[0].name /= delivered[D].name
      BY <2>2, <2>3, <1>a DEF Slots
    <3> QED
      BY <2>1, <2>2, <2>3, <2>4, <3>1, <3>2, <1>c
  <2>6. pc' = "call" /\ bnext' = -1 /\ eof'
    BY <1>4 DEF LoopEof
  <2> QED
    BY <2>5, <2>6 DEF NameInv, D
<1>5. CASE LoopRecord
  <2>1. PICK moved \in BOOLEAN :
          /\ slot' = [ReadSlots EXCEPT ![0] = Sanitized(ReadSlots[0], moved, FreshAfterRead(slot[bn]))]
          /\ StopAtNewName(slot')
    BY <1>5 DEF LoopRecord, Moves
  <2>2. pc = "loop" /\ bn \in 1..(MaxInput - 1)
        /\ \A i \in 0..(bn - 1) : slot[i].name = slot[0].name /\ slot[i].name \in Names
        /\ (D > 0 => slot[0].name /= delivered[D].name)
    BY <1>5, <1>a, <1>b DEF LoopRecord, LoopRead, NameInv
  <2>3. Head(inp) \in [name : Names, grows : BOOLEAN]
    BY <1>5, <1>e DEF LoopRecord, LoopRead
  <2>4. /\ slot' \in [Slots -> SlotType]
        /\ \A i \in 0..(bn - 1) : slot'[i].name = slot[i].name
        /\ slot'[bn].name = Head(inp).name
    <3>1. bn \in Slots /\ 0 \in Slots /\ slot[bn] \in SlotType
      BY <2>2, <1>a DEF Slots
    <3>2. ReadSlots \in [Slots -> SlotType]
      BY <3>1, <2>3, <1>a DEF ReadSlots, ReadInto, SlotType, NoName
    <3>3. FreshAfterRead(slot[bn]) \in Nat
      BY <3>1, <1>a DEF FreshAfterRead, SlotType
    <3>4. Sanitized(ReadSlots[0], moved, FreshAfterRead(slot[bn])) \in SlotType
      BY <3>1, <3>2, <3>3, SanitizedType
    <3>5. \A i \in Slots : ReadSlots[i].name = IF i = bn THEN Head(inp).name ELSE slot[i].name
      BY <3>1, <1>a DEF ReadSlots, ReadInto
    <3>6. Sanitized(ReadSlots[0], moved, FreshAfterRead(slot[bn])).name = ReadSlots[0].name
      BY SanitizedKeeps
    <3>7. \A i \in Slots : slot'[i].name = ReadSlots[i].name
      BY <2>1, <3>1, <3>2, <3>6
    <3>8. slot' \in [Slots -> SlotType]
      BY <2>1, <3>1, <3>2, <3>4
    <3>9. \A i \in 0..(bn - 1) : i \in Slots /\ i /= bn
      BY <2>2, <1>a DEF Slots
    <3> QED
      BY <3>1, <3>5, <3>7, <3>8, <3>9
  <2>5. \A i \in 0..(bn - 1) : slot'[i].name = slot'[0].name /\ slot'[i].name \in Names
    BY <2>2, <2>4
  <2>6. bnext' = bn /\ eof' = eof /\ ~eof
    <3>1. bnext' = bn /\ eof' = eof
      BY <1>5 DEF LoopRecord
    <3>2. ~eof
      BY <2>2, <1>a, <1>b DEF OrderInv
    <3> QED
      BY <3>1, <3>2
  <2>7. CASE slot'[bn].name /= slot'[0].name
    <3>1. delivered' = Deliver(slot', bn) /\ ngroups' = ngroups + 1 /\ pc' = "call"
      BY <2>1, <2>7 DEF StopAtNewName
    <3>2. Runs(delivered', ngroups')
      <4>1. D > 0 => slot'[0].name /= delivered[D].name
        BY <2>2, <2>4
      <4>2. bn \in 1..MaxInput
        BY <2>2, <1>a
      <4>3. Runs(Deliver(slot', bn), ngroups + 1)
        BY <2>4, <2>5, <4>1, <4>2, <1>c
      <4> QED
        BY <3>1, <4>3
    <3>3. D' > 0 /\ delivered'[D'].name = slot'[0].name
      <4>0. bn \in 0..MaxInput /\ bn \in 1..bn
        BY <2>2, <1>a
      <4>1. Len(delivered') = D + bn /\ delivered'[D + bn].name = slot'[bn - 1].name
        <5>1. /\ Len(Deliver(slot', bn)) = D + bn
              /\ \A i \in 1..bn : Deliver(slot', bn)[D + i].name = slot'[i - 1].name
          BY <4>0, <2>4, <1>d
        <5> QED
          BY <5>1, <4>0, <3>1
      <4> QED
        BY <4>1, <2>2, <2>5, <1>a DEF D
    <3> QED
      BY <3>1, <3>2, <3>3, <2>2, <2>3, <2>4, <2>6, <2>7 DEF NameInv, D
  <2>8. CASE slot'[bn].name = slot'[0].name
    <3>1. bn' = bn + 1 /\ UNCHANGED <<delivered, ngroups, pc>>
      BY <2>1, <2>8 DEF StopAtNewName
    <3>2. \A i \in 0..(bn' - 1) : slot'[i].name = slot'[0].name /\ slot'[i].name \in Names
      BY <3>1, <2>2, <2>3, <2>4, <2>5, <2>8
    <3>3. D > 0 => slot'[0].name /= delivered[D].name
      BY <2>2, <2>4
    <3> QED
      BY <3>1, <3>2, <3>3, <2>2, <2>6, <1>b DEF NameInv, D
  <2> QED
    BY <2>7, <2>8
<1>6. CASE Stopped \/ UNCHANGED vars
  BY <1>6, <1>b DEF Stopped, vars, NameInv, D
<1> QED
  <2>1. CASE CallAtEof \/ CallFirstGrowFails \/ CallFirstEof \/ CallFirstReadError
             \/ CallFirstSanitizeFails \/ LoopGrowFails \/ LoopReadError
             \/ LoopEofSanitizeFails \/ LoopRecordSanitizeFails
    BY <2>1, <1>1
    DEF CallAtEof, CallFirstGrowFails, CallFirstEof, CallFirstReadError,
        CallFirstSanitizeFails, LoopGrowFails, LoopReadError, LoopEofSanitizeFails,
        LoopRecordSanitizeFails
  <2> QED
    BY <2>1, <1>2, <1>3, <1>4, <1>5, <1>6 DEF Next

\* Lemma: the initial states satisfy the invariant.
LEMMA InitInv == Init => Inv
<1> SUFFICES ASSUME Init PROVE Inv
  OBVIOUS
<1>1. TypeInv
  BY InitTypeInv
<1>2. OrderInv
  BY DEF Init, OrderInv, D
<1>3. NameInv
  BY DEF Init, NameInv, Runs, D
<1> QED
  BY <1>1, <1>2, <1>3 DEF Inv

\* Lemma: every step keeps the invariant.
LEMMA NextInv == Inv /\ [Next]_vars => Inv'
BY NextTypeInv, NextOrder, NextName DEF Inv

(***************************************************************************)
(* Theorem: between calls of next_template the records handed over, then  *)
(* the read-ahead record, are records 1..nread of the input in order, and *)
(* at end of file every record has been handed over: the swap of lines    *)
(* 529-531 and the b_next/eof bookkeeping of lines 546-551 lose and        *)
(* duplicate nothing.                                                      *)
(***************************************************************************)
THEOREM RecordsInOrder == Spec => []NoRecordLostOrDuplicated
<1>1. Inv => NoRecordLostOrDuplicated
  <2> SUFFICES ASSUME Inv PROVE NoRecordLostOrDuplicated
    OBVIOUS
  <2>1. /\ delivered \in Seq(DRec) /\ nread \in Nat /\ slot \in [Slots -> SlotType]
        /\ bnext \in -1..MaxInput /\ OrderInv
    BY DEF Inv, TypeInv, TypeOK, DRec
  <2>2. DeliveredRecs = [i \in 1..D |-> i]
    BY <2>1 DEF DeliveredRecs, OrderInv, D
  <2>3. CASE pc = "call" /\ bnext >= 0
    <3>1. D + 1 = nread /\ Lookahead = << nread >>
      BY <2>1, <2>3 DEF OrderInv, Lookahead
    <3>2. [i \in 1..D |-> i] \o << nread >> = [i \in 1..nread |-> i]
      <4>1. D \in Nat
        BY <2>1 DEF D
      <4>2. [i \in 1..D |-> i] \in Seq(Nat) /\ << nread >> \in Seq(Nat)
        BY <4>1, <2>1
      <4>3. /\ Len([i \in 1..D |-> i] \o << nread >>) = D + 1
            /\ \A j \in 1..(D + 1) : ([i \in 1..D |-> i] \o << nread >>)[j] =
                 IF j <= D THEN j ELSE nread
        BY <4>1, <4>2, ConcatProperties
      <4> QED
        BY <3>1, <4>1, <4>2, <4>3, ConcatProperties
    <3> QED
      BY <2>2, <2>3, <3>1, <3>2 DEF NoRecordLostOrDuplicated
  <2>4. CASE pc = "call" /\ bnext < 0
    <3>1. D = nread /\ Lookahead = << >>
      BY <2>1, <2>4 DEF OrderInv, Lookahead
    <3> QED
      BY <2>2, <2>4, <3>1 DEF NoRecordLostOrDuplicated
  <2>5. CASE pc /= "call"
    BY <2>1, <2>2, <2>5 DEF OrderInv, NoRecordLostOrDuplicated
  <2> QED
    BY <2>1, <2>3, <2>4, <2>5
<1> QED
  BY <1>1, InitInv, NextInv, PTL DEF Spec

(***************************************************************************)
(* Theorem: the groups next_template hands over are the maximal runs of    *)
(* records with one name (the strcmp at line 553), numbered without gaps.  *)
(***************************************************************************)
THEOREM GroupsMaximal == Spec => []GroupsAreNameRuns
<1>1. Inv => GroupsAreNameRuns
  BY DEF Inv, NameInv, Runs, GroupsAreNameRuns
<1> QED
  BY <1>1, InitInv, NextInv, PTL DEF Spec

=============================================================================
