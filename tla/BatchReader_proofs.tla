------------------------- MODULE BatchReader_proofs -------------------------
(***************************************************************************)
(* Proofs about next_template (BatchReader) for every set of names, every  *)
(* input set and every length bound.                                       *)
(***************************************************************************)
EXTENDS BatchReader, TLAPS

(***************************************************************************)
(* TypeOK is not inductive as it stands: that sam_read1 writes into a slot *)
(* of bs->b that exists needs the group size and the read-ahead index to   *)
(* stay below the number of records read, which with the input left stays  *)
(* within MaxInput.                                                        *)
(***************************************************************************)
TypeInv ==
  /\ TypeOK
  /\ nread + Len(inp) <= MaxInput
  /\ bn <= nread
  /\ bnext <= nread
  /\ bnext /= 0
  /\ pc = "loop" => bn >= 1

\* Lemma: the initial states satisfy the strengthened type invariant.
LEMMA InitTypeInv == Init => TypeInv
<1> SUFFICES ASSUME Init PROVE TypeInv
  OBVIOUS
<1>1. inp \in Seq(Record) /\ Len(inp) <= MaxInput
  BY InputsAssumption DEF Init
<1>2. EmptySlot \in SlotType
  BY DEF EmptySlot, SlotType, NoBuf
<1>3. slot \in [Slots -> SlotType]
  BY <1>2 DEF Init
<1>4. TypeOK
  <2>1. ba \in 0..(MaxInput + 1) /\ bn \in 0..MaxInput /\ bnext \in -1..MaxInput
    BY MaxInputAssumption DEF Init
  <2>2. delivered \in Seq([rec : Nat, name : Names \cup {NoName}, san : Nat, grp : Nat])
    BY DEF Init
  <2>3. nread \in Nat /\ name \in Nat /\ nextBuf \in Nat \ {0} /\ ngroups \in Nat
    BY DEF Init, NoBuf
  <2>4. eof \in BOOLEAN /\ uaf \in BOOLEAN /\ pc \in {"call", "loop", "end", "readfail", "fail"}
    BY DEF Init
  <2> QED
    BY <1>1, <1>3, <2>1, <2>2, <2>3, <2>4 DEF TypeOK
<1> QED
  BY <1>1, <1>4, MaxInputAssumption DEF Init, TypeInv

\* Lemma: bam_sanitize on a slot keeps it a slot.
LEMMA SanitizedType ==
  ASSUME NEW s \in SlotType, NEW m \in BOOLEAN, NEW t \in Nat
  PROVE  Sanitized(s, m, t) \in SlotType
  BY DEF Sanitized, SlotType

(***************************************************************************)
(* Lemma: every step of next_template keeps the strengthened type          *)
(* invariant; one step per action of Next.                                 *)
(***************************************************************************)
LEMMA NextTypeInv == TypeInv /\ [Next]_vars => TypeInv'
<1> SUFFICES ASSUME TypeInv, [Next]_vars PROVE TypeInv'
  OBVIOUS
<1>a. /\ ba \in 0..(MaxInput + 1) /\ bn \in 0..MaxInput /\ bnext \in -1..MaxInput
      /\ nread \in Nat /\ MaxInput \in Nat
      /\ nread + Len(inp) <= MaxInput /\ bn <= nread /\ bnext <= nread /\ bnext /= 0
      /\ (pc = "loop" => bn >= 1)
  BY MaxInputAssumption DEF TypeInv, TypeOK
<1>b. inp \in Seq(Record)
  BY DEF TypeInv, TypeOK
<1>c. slot \in [Slots -> SlotType]
  BY DEF TypeInv, TypeOK
<1>d. /\ eof \in BOOLEAN /\ name \in Nat /\ nextBuf \in Nat \ {0} /\ ngroups \in Nat
      /\ uaf \in BOOLEAN /\ pc \in {"call", "loop", "end", "readfail", "fail"}
  BY DEF TypeInv, TypeOK
<1>e. delivered \in Seq([rec : Nat, name : Names \cup {NoName}, san : Nat, grp : Nat])
  BY DEF TypeInv, TypeOK
\* A record at the head of the input that is not a read error.
<1>f. inp /= << >> /\ Head(inp) /= ReadError => Head(inp) \in [name : Names, grows : BOOLEAN]
  <2>1. inp /= << >> => Head(inp) \in Record
    BY <1>b
  <2> QED
    BY <2>1 DEF Record
<1>1. CASE CallAtEof
  BY <1>1, <1>a, <1>b, <1>c, <1>d, <1>e DEF CallAtEof, TypeInv, TypeOK
<1>2. CASE CallFirstGrowFails
  BY <1>2, <1>a, <1>b, <1>c, <1>d, <1>e DEF CallFirstGrowFails, TypeInv, TypeOK
<1>3. CASE CallFirstEof
  <2>1. ba' \in 0..(MaxInput + 1)
    BY <1>3, <1>a DEF CallFirstEof, GrowBArray
  <2> QED
    BY <1>3, <2>1, <1>a, <1>b, <1>c, <1>d, <1>e DEF CallFirstEof, TypeInv, TypeOK
<1>4. CASE CallFirstReadError
  <2>1. ba' \in 0..(MaxInput + 1)
    BY <1>4, <1>a DEF CallFirstReadError, GrowBArray
  <2> QED
    BY <1>4, <2>1, <1>a, <1>b, <1>c, <1>d, <1>e DEF CallFirstReadError, TypeInv, TypeOK
<1>5. CASE CallFirstSanitizeFails
  <2>1. ba' \in 0..(MaxInput + 1)
    BY <1>5, <1>a DEF CallFirstSanitizeFails, GrowBArray
  <2>2. Head(inp) \in [name : Names, grows : BOOLEAN]
    BY <1>5, <1>f DEF CallFirstSanitizeFails, FirstCall
  <2>3. First0 \in SlotType
    <3>1. slot[0] \in SlotType
      BY <1>a, <1>c DEF Slots
    <3> QED
      BY <3>1, <2>2, <1>a, <1>d DEF First0, ReadInto, SlotType, NoName
  <2>4. inp' \in Seq(Record) /\ nread' \in Nat /\ nread' + Len(inp') <= MaxInput
    BY <1>5, <1>a, <1>b DEF CallFirstSanitizeFails, FirstCall
  <2>5. slot' \in [Slots -> SlotType]
    BY <1>5, <1>a, <1>c, <2>3 DEF CallFirstSanitizeFails, Slots
  <2>6. nextBuf' \in Nat \ {0}
    <3>1. slot[0] \in SlotType
      BY <1>a, <1>c DEF Slots
    <3> QED
      BY <1>5, <1>d, <3>1 DEF CallFirstSanitizeFails, FreshAfterRead, SlotType, NoBuf
  <2> QED
    BY <1>5, <2>1, <2>4, <2>5, <2>6, <1>a, <1>d, <1>e
    DEF CallFirstSanitizeFails, TypeInv, TypeOK
<1>6. CASE CallFirst
  <2>1. ba' \in 0..(MaxInput + 1)
    BY <1>6, <1>a DEF CallFirst, GrowBArray
  <2>2. Head(inp) \in [name : Names, grows : BOOLEAN]
    BY <1>6, <1>f DEF CallFirst, FirstCall
  <2>3. slot[0] \in SlotType
    BY <1>a, <1>c DEF Slots
  <2>4. First0 \in SlotType
    BY <2>3, <2>2, <1>a, <1>d DEF First0, ReadInto, SlotType, NoName
  <2>5. inp' \in Seq(Record) /\ nread' \in Nat /\ nread' + Len(inp') <= MaxInput
        /\ nread' = nread + 1
    BY <1>6, <1>a, <1>b DEF CallFirst, FirstCall
  <2>6. PICK moved \in BOOLEAN :
          /\ slot' = [slot EXCEPT ![0] = Sanitized(First0, moved, FreshAfterRead(slot[0]))]
          /\ nextBuf' = IF moved THEN FreshAfterRead(slot[0]) + 1 ELSE FreshAfterRead(slot[0])
          /\ name' = Sanitized(First0, moved, FreshAfterRead(slot[0])).buf
    BY <1>6 DEF CallFirst, Moves
  <2>7. FreshAfterRead(slot[0]) \in Nat \ {0}
    BY <2>3, <1>d DEF FreshAfterRead, SlotType
  <2>8. Sanitized(First0, moved, FreshAfterRead(slot[0])) \in SlotType
    BY <2>4, <2>6, <2>7, SanitizedType
  <2>9. slot' \in [Slots -> SlotType] /\ nextBuf' \in Nat \ {0} /\ name' \in Nat
    <3>1. slot' \in [Slots -> SlotType]
      BY ONLY <2>6, <2>8, <1>a, <1>c DEF Slots
    <3>2. nextBuf' \in Nat \ {0}
      BY ONLY <2>6, <2>7
    <3>3. name' \in Nat
      BY ONLY <2>6, <2>8 DEF SlotType
    <3> QED
      BY <3>1, <3>2, <3>3
  <2>10. bn' \in 0..MaxInput /\ bn' <= nread' /\ bn' >= 1
    BY <1>6, <1>a, <2>5 DEF CallFirst
  <2> QED
    BY <1>6, <2>1, <2>5, <2>9, <2>10, <1>a, <1>d, <1>e DEF CallFirst, TypeInv, TypeOK
<1>7. CASE CallNext
  <2>1. bnext \in 1..MaxInput
    BY <1>7, <1>a DEF CallNext
  <2>2. slot' \in [Slots -> SlotType]
    <3>1. slot[0] \in SlotType /\ slot[bnext] \in SlotType
      BY <2>1, <1>a, <1>c DEF Slots
    <3> QED
      BY <3>1, <1>7, <2>1, <1>c DEF CallNext, Slots
  <2>3. name' \in Nat
    BY <1>7, <2>1, <1>c DEF CallNext, Slots, SlotType
  <2>4. bn' \in 0..MaxInput /\ bn' <= nread' /\ bn' >= 1
    BY <1>7, <2>1, <1>a DEF CallNext
  <2> QED
    BY <1>7, <2>2, <2>3, <2>4, <1>a, <1>b, <1>d, <1>e DEF CallNext, TypeInv, TypeOK
<1>8. CASE LoopGrowFails
  BY <1>8, <1>a, <1>b, <1>c, <1>d, <1>e DEF LoopGrowFails, TypeInv, TypeOK
<1>9. CASE LoopReadError
  <2>1. ba' \in 0..(MaxInput + 1)
    BY <1>9, <1>a DEF LoopReadError, GrowBArray
  <2> QED
    BY <1>9, <2>1, <1>a, <1>b, <1>c, <1>d, <1>e DEF LoopReadError, TypeInv, TypeOK
<1>10. CASE LoopEofSanitizeFails
  <2>1. ba' \in 0..(MaxInput + 1)
    BY <1>10, <1>a DEF LoopEofSanitizeFails, GrowBArray
  <2> QED
    BY <1>10, <2>1, <1>a, <1>b, <1>c, <1>d, <1>e DEF LoopEofSanitizeFails, TypeInv, TypeOK
<1>11. CASE LoopEof
  <2>1. ba' \in 0..(MaxInput + 1)
    BY <1>11, <1>a DEF LoopEof, GrowBArray
  <2>2. PICK moved \in BOOLEAN :
          /\ slot' = [slot EXCEPT ![0] = Sanitized(slot[0], moved, nextBuf)]
          /\ nextBuf' = IF moved THEN nextBuf + 1 ELSE nextBuf
          /\ delivered' = Deliver(slot', bn)
    BY <1>11 DEF LoopEof, Moves
  <2>3. Sanitized(slot[0], moved, nextBuf) \in SlotType
    <3>1. slot[0] \in SlotType
      BY <1>a, <1>c DEF Slots
    <3> QED
      BY <3>1, <2>2, <1>d, SanitizedType
  <2>4. slot' \in [Slots -> SlotType] /\ nextBuf' \in Nat \ {0}
    BY <2>2, <2>3, <1>a, <1>c, <1>d DEF Slots
  <2>5. \A i \in 1..bn : slot'[i - 1] \in SlotType
    BY <2>4, <1>a DEF Slots
  <2>6. delivered' \in Seq([rec : Nat, name : Names \cup {NoName}, san : Nat, grp : Nat])
    BY <2>2, <2>5, <1>a, <1>d, <1>e DEF Deliver, SlotType
  <2> QED
    BY <1>11, <2>1, <2>4, <2>6, <1>a, <1>b, <1>d DEF LoopEof, TypeInv, TypeOK
<1>12. CASE LoopRecordSanitizeFails
  <2>1. ba' \in 0..(MaxInput + 1)
    BY <1>12, <1>a DEF LoopRecordSanitizeFails, GrowBArray
  <2>2. Head(inp) \in [name : Names, grows : BOOLEAN]
    BY <1>12, <1>f DEF LoopRecordSanitizeFails, LoopRead
  <2>3. bn \in 0..(MaxInput - 1)
    BY <1>12, <1>a, <1>b DEF LoopRecordSanitizeFails, LoopRead
  <2>4. slot[bn] \in SlotType
    BY <2>3, <1>a, <1>c DEF Slots
  <2>5. ReadInto(slot[bn], Head(inp), nread + 1) \in SlotType
    BY <2>2, <2>4, <1>a, <1>d DEF ReadInto, SlotType, NoName
  <2>6. ReadSlots \in [Slots -> SlotType]
    BY <2>3, <2>5, <1>c DEF ReadSlots, Slots
  <2>7. inp' \in Seq(Record) /\ nread' \in Nat /\ nread' + Len(inp') <= MaxInput
    BY <1>12, <1>a, <1>b DEF LoopRecordSanitizeFails, LoopRead
  <2>8. nextBuf' \in Nat \ {0}
    BY <1>12, <2>4, <1>d DEF LoopRecordSanitizeFails, FreshAfterRead, SlotType
  <2> QED
    BY <1>12, <2>1, <2>6, <2>7, <2>8, <1>a, <1>d, <1>e
    DEF LoopRecordSanitizeFails, TypeInv, TypeOK
<1>13. CASE LoopRecord
  <2>1. ba' \in 0..(MaxInput + 1)
    BY <1>13, <1>a DEF LoopRecord, GrowBArray
  <2>2. Head(inp) \in [name : Names, grows : BOOLEAN]
    BY <1>13, <1>f DEF LoopRecord, LoopRead
  <2>3. bn \in 0..(MaxInput - 1)
    BY <1>13, <1>a, <1>b DEF LoopRecord, LoopRead
  <2>4. slot[bn] \in SlotType
    BY <2>3, <1>a, <1>c DEF Slots
  <2>5. ReadInto(slot[bn], Head(inp), nread + 1) \in SlotType
    BY <2>2, <2>4, <1>a, <1>d DEF ReadInto, SlotType, NoName
  <2>6. ReadSlots \in [Slots -> SlotType]
    BY <2>3, <2>5, <1>c DEF ReadSlots, Slots
  <2>7. inp' \in Seq(Record) /\ nread' \in Nat /\ nread' + Len(inp') <= MaxInput
        /\ nread' = nread + 1
    BY <1>13, <1>a, <1>b DEF LoopRecord, LoopRead
  <2>8. PICK moved \in BOOLEAN :
          /\ slot' = [ReadSlots EXCEPT ![0] = Sanitized(ReadSlots[0], moved, FreshAfterRead(slot[bn]))]
          /\ nextBuf' = IF moved THEN FreshAfterRead(slot[bn]) + 1 ELSE FreshAfterRead(slot[bn])
          /\ uaf' = (uaf \/ name /= slot'[0].buf)
          /\ StopAtNewName(slot')
    BY <1>13 DEF LoopRecord, Moves
  <2>9. FreshAfterRead(slot[bn]) \in Nat \ {0}
    BY <2>4, <1>d DEF FreshAfterRead, SlotType
  <2>10. Sanitized(ReadSlots[0], moved, FreshAfterRead(slot[bn])) \in SlotType
    <3>1. ReadSlots[0] \in SlotType
      BY <2>6, <1>a DEF Slots
    <3> QED
      BY <3>1, <2>8, <2>9, SanitizedType
  <2>11. slot' \in [Slots -> SlotType] /\ nextBuf' \in Nat \ {0} /\ uaf' \in BOOLEAN
    BY <2>6, <2>8, <2>9, <2>10, <1>a, <1>d DEF Slots
  <2>12. \A i \in 1..bn : slot'[i - 1] \in SlotType
    BY <2>11, <2>3, <1>a DEF Slots
  <2>13. /\ delivered' \in Seq([rec : Nat, name : Names \cup {NoName}, san : Nat, grp : Nat])
         /\ ngroups' \in Nat
         /\ bn' \in 1..MaxInput /\ bn' <= nread'
         /\ pc' \in {"call", "loop"}
    <3>1. bn >= 1
      BY <1>13, <1>a DEF LoopRecord, LoopRead
    <3>2. CASE slot'[bn].name /= slot'[0].name
      <4>1. delivered' = Deliver(slot', bn) /\ ngroups' = ngroups + 1
            /\ pc' = "call" /\ bn' = bn
        BY <2>8, <3>2 DEF StopAtNewName
      <4>2. Deliver(slot', bn) \in Seq([rec : Nat, name : Names \cup {NoName}, san : Nat, grp : Nat])
        BY <2>12, <1>a, <1>d, <1>e DEF Deliver, SlotType
      <4> QED
        BY <4>1, <4>2, <3>1, <2>3, <2>7, <1>a, <1>d
    <3>3. CASE slot'[bn].name = slot'[0].name
      <4>1. bn' = bn + 1 /\ UNCHANGED <<delivered, ngroups, pc>>
        BY <2>8, <3>3 DEF StopAtNewName
      <4>2. pc = "loop"
        BY <1>13 DEF LoopRecord, LoopRead
      <4> QED
        BY <4>1, <4>2, <3>1, <2>3, <2>7, <1>a, <1>d, <1>e
    <3> QED
      BY <3>2, <3>3
  <2>14. bnext' \in -1..MaxInput /\ bnext' <= nread' /\ bnext' /= 0
    BY <1>13, <2>3, <1>a DEF LoopRecord, LoopRead
  <2> QED
    BY <1>13, <2>1, <2>7, <2>11, <2>13, <2>14, <1>a, <1>d DEF LoopRecord, TypeInv, TypeOK
<1>14. CASE Stopped
  BY <1>14, <1>a, <1>b, <1>c, <1>d, <1>e DEF Stopped, vars, TypeInv, TypeOK
<1>15. CASE UNCHANGED vars
  BY <1>15, <1>a, <1>b, <1>c, <1>d, <1>e DEF vars, TypeInv, TypeOK
<1> QED
  BY <1>1, <1>2, <1>3, <1>4, <1>5, <1>6, <1>7, <1>8, <1>9, <1>10, <1>11,
     <1>12, <1>13, <1>14, <1>15 DEF Next

(***************************************************************************)
(* Theorem: next_template keeps every variable within its type; in         *)
(* particular sam_read1 and bam_sanitize only touch slots 0..MaxInput of   *)
(* bs->b, and ba, n and b_next stay within them.                           *)
(***************************************************************************)
THEOREM TypeCorrect == Spec => []TypeOK
<1>1. Init => TypeInv
  BY InitTypeInv
<1>2. TypeInv /\ [Next]_vars => TypeInv'
  BY NextTypeInv
<1>3. TypeInv => TypeOK
  BY DEF TypeInv
<1> QED
  BY <1>1, <1>2, <1>3, PTL DEF Spec

-----------------------------------------------------------------------------
(***************************************************************************)
(* Buffer ownership.  SlotsOwnDistinctBuffers is not inductive either: a   *)
(* buffer that sam_read1 or bam_trim's realloc hands out must be one no    *)
(* slot holds yet.  Every buffer held lies below nextBuf, the next address *)
(* to be handed out.                                                       *)
(***************************************************************************)
BuffersFresh == \A i \in Slots : slot[i].buf < nextBuf

\* The slots sl hold distinct buffers, all below the address nb.
Owned(sl, nb) ==
  /\ \A i \in Slots : sl[i].buf < nb
  /\ \A i, j \in Slots : i /= j /\ sl[i].buf /= NoBuf => sl[i].buf /= sl[j].buf

BufInv == TypeInv /\ Owned(slot, nextBuf)

(***************************************************************************)
(* Lemma: putting into slot k a record that keeps k's buffer, or takes an  *)
(* address at or above the old bound and below the new one, keeps the      *)
(* slots owning distinct buffers below the new bound.                      *)
(***************************************************************************)
LEMMA ReplaceSlot ==
  ASSUME NEW sl \in [Slots -> SlotType], NEW nb \in Nat, NEW nb2 \in Nat,
         NEW k \in Slots, NEW s \in SlotType,
         Owned(sl, nb),
         \/ s.buf = sl[k].buf /\ nb <= nb2
         \/ nb <= s.buf /\ s.buf < nb2
  PROVE  Owned([sl EXCEPT ![k] = s], nb2)
  BY DEF Owned, SlotType

\* Lemma: sam_read1 into slot k (line 523 or 540) keeps the ownership.
LEMMA ReadOwned ==
  ASSUME NEW k \in Slots, NEW e \in [name : Names, grows : BOOLEAN], NEW r \in Nat,
         slot \in [Slots -> SlotType], nextBuf \in Nat,
         Owned(slot, nextBuf)
  PROVE  /\ ReadInto(slot[k], e, r) \in SlotType
         /\ Owned([slot EXCEPT ![k] = ReadInto(slot[k], e, r)], FreshAfterRead(slot[k]))
<1>1. slot[k] \in SlotType
  OBVIOUS
<1>2. ReadInto(slot[k], e, r) \in SlotType
  BY <1>1 DEF ReadInto, SlotType, NoName
<1>3. FreshAfterRead(slot[k]) \in Nat
  BY <1>1 DEF FreshAfterRead, SlotType
<1>4. \/ ReadInto(slot[k], e, r).buf = slot[k].buf /\ nextBuf <= FreshAfterRead(slot[k])
      \/ nextBuf <= ReadInto(slot[k], e, r).buf /\ ReadInto(slot[k], e, r).buf < FreshAfterRead(slot[k])
  BY DEF ReadInto, FreshAfterRead
<1> QED
  BY <1>2, <1>3, <1>4, ReplaceSlot

\* Lemma: bam_sanitize on slot 0, moving its buffer to nb when realloc moves it.
LEMMA SanitizeOwned ==
  ASSUME NEW sl \in [Slots -> SlotType], NEW nb \in Nat, NEW m \in BOOLEAN,
         MaxInput \in Nat, Owned(sl, nb)
  PROVE  /\ Sanitized(sl[0], m, nb) \in SlotType
         /\ Owned([sl EXCEPT ![0] = Sanitized(sl[0], m, nb)], IF m THEN nb + 1 ELSE nb)
<1>1. 0 \in Slots /\ sl[0] \in SlotType
  BY DEF Slots
<1>2. Sanitized(sl[0], m, nb) \in SlotType
  BY <1>1, SanitizedType
<1>3. (IF m THEN nb + 1 ELSE nb) \in Nat
  OBVIOUS
<1>4. \/ Sanitized(sl[0], m, nb).buf = sl[0].buf /\ nb <= (IF m THEN nb + 1 ELSE nb)
      \/ nb <= Sanitized(sl[0], m, nb).buf /\ Sanitized(sl[0], m, nb).buf < (IF m THEN nb + 1 ELSE nb)
  BY DEF Sanitized
<1> QED
  BY <1>1, <1>2, <1>3, <1>4, ReplaceSlot

\* Lemma: the swap of b[0] and b[b_next] (lines 529-531) keeps the ownership.
LEMMA SwapOwned ==
  ASSUME NEW sl \in [Slots -> SlotType], NEW nb \in Nat, NEW a \in Slots, NEW c \in Slots,
         Owned(sl, nb)
  PROVE  Owned([sl EXCEPT ![a] = sl[c], ![c] = sl[a]], nb)
  BY DEF Owned
(***************************************************************************)
(* Lemma: every step of next_template keeps the slots owning distinct      *)
(* buffers below nextBuf; one step per action that touches slot or         *)
(* nextBuf.                                                                *)
(***************************************************************************)
LEMMA NextOwned == BufInv /\ [Next]_vars => Owned(slot, nextBuf)'
<1> SUFFICES ASSUME BufInv, [Next]_vars PROVE Owned(slot', nextBuf')
  OBVIOUS
<1>a. /\ slot \in [Slots -> SlotType] /\ nextBuf \in Nat /\ MaxInput \in Nat
      /\ bn \in 0..MaxInput /\ bnext \in -1..MaxInput /\ nread \in Nat
      /\ nread + Len(inp) <= MaxInput /\ inp \in Seq(Record)
      /\ Owned(slot, nextBuf)
  BY MaxInputAssumption DEF BufInv, TypeInv, TypeOK
<1>b. inp /= << >> /\ Head(inp) /= ReadError => Head(inp) \in [name : Names, grows : BOOLEAN]
  <2>1. inp /= << >> => Head(inp) \in Record
    BY <1>a
  <2> QED
    BY <2>1 DEF Record
<1>c. 0 \in Slots
  BY <1>a DEF Slots
<1>d. \A k \in Slots, e \in [name : Names, grows : BOOLEAN], r \in Nat :
        /\ ReadInto(slot[k], e, r) \in SlotType
        /\ Owned([slot EXCEPT ![k] = ReadInto(slot[k], e, r)], FreshAfterRead(slot[k]))
  BY <1>a, ReadOwned
<1>e. bn \in Slots /\ nread + 1 \in Nat
  BY <1>a DEF Slots
\* The actions that leave slot and nextBuf alone.
<1>1. CASE UNCHANGED <<slot, nextBuf>>
  BY <1>1, <1>a
<1>2. CASE CallFirstSanitizeFails
  <2>1. Head(inp) \in [name : Names, grows : BOOLEAN]
    BY <1>2, <1>b DEF CallFirstSanitizeFails, FirstCall
  <2> QED
    BY <1>2, <1>c, <1>d, <1>e, <2>1 DEF CallFirstSanitizeFails, First0
<1>3. CASE CallFirst
  <2>1. Head(inp) \in [name : Names, grows : BOOLEAN]
    BY <1>3, <1>b DEF CallFirst, FirstCall
  <2>2. /\ First0 \in SlotType
        /\ Owned([slot EXCEPT ![0] = First0], FreshAfterRead(slot[0]))
    BY <1>c, <1>d, <1>e, <2>1 DEF First0
  <2>3. FreshAfterRead(slot[0]) \in Nat
    BY <1>a, <1>c DEF FreshAfterRead, SlotType
  <2>4. [slot EXCEPT ![0] = First0] \in [Slots -> SlotType]
    BY <1>a, <1>c, <2>2
  <2>5. PICK moved \in BOOLEAN :
          /\ slot' = [slot EXCEPT ![0] = Sanitized(First0, moved, FreshAfterRead(slot[0]))]
          /\ nextBuf' = IF moved THEN FreshAfterRead(slot[0]) + 1 ELSE FreshAfterRead(slot[0])
    BY <1>3 DEF CallFirst, Moves
  <2>6. Owned([[slot EXCEPT ![0] = First0] EXCEPT ![0] =
                 Sanitized([slot EXCEPT ![0] = First0][0], moved, FreshAfterRead(slot[0]))],
              IF moved THEN FreshAfterRead(slot[0]) + 1 ELSE FreshAfterRead(slot[0]))
    BY <1>a, <2>2, <2>3, <2>4, SanitizeOwned
  <2>7. [[slot EXCEPT ![0] = First0] EXCEPT ![0] =
           Sanitized([slot EXCEPT ![0] = First0][0], moved, FreshAfterRead(slot[0]))]
        = [slot EXCEPT ![0] = Sanitized(First0, moved, FreshAfterRead(slot[0]))]
    BY <1>a, <1>c
  <2> QED
    BY <2>5, <2>6, <2>7
<1>4. CASE CallNext
  <2>1. bnext \in Slots
    BY <1>4, <1>a DEF CallNext, Slots
  <2> QED
    BY <1>4, <1>a, <1>c, <2>1, SwapOwned DEF CallNext
<1>5. CASE LoopEof
  <2>1. PICK moved \in BOOLEAN :
          /\ slot' = [slot EXCEPT ![0] = Sanitized(slot[0], moved, nextBuf)]
          /\ nextBuf' = IF moved THEN nextBuf + 1 ELSE nextBuf
    BY <1>5 DEF LoopEof, Moves
  <2> QED
    BY <2>1, <1>a, SanitizeOwned
<1>6. CASE LoopRecordSanitizeFails
  <2>1. Head(inp) \in [name : Names, grows : BOOLEAN]
    BY <1>6, <1>b DEF LoopRecordSanitizeFails, LoopRead
  <2> QED
    BY <1>6, <1>d, <1>e, <2>1 DEF LoopRecordSanitizeFails, ReadSlots
<1>7. CASE LoopRecord
  <2>1. Head(inp) \in [name : Names, grows : BOOLEAN]
    BY <1>7, <1>b DEF LoopRecord, LoopRead
  <2>2. bn \in Slots
    BY <1>e
  <2>3. /\ ReadInto(slot[bn], Head(inp), nread + 1) \in SlotType
        /\ Owned(ReadSlots, FreshAfterRead(slot[bn]))
    BY <1>d, <1>e, <2>1 DEF ReadSlots
  <2>4. ReadSlots \in [Slots -> SlotType]
    BY <1>a, <2>2, <2>3 DEF ReadSlots
  <2>5. FreshAfterRead(slot[bn]) \in Nat
    BY <1>a, <2>2 DEF FreshAfterRead, SlotType
  <2>6. PICK moved \in BOOLEAN :
          /\ slot' = [ReadSlots EXCEPT ![0] = Sanitized(ReadSlots[0], moved, FreshAfterRead(slot[bn]))]
          /\ nextBuf' = IF moved THEN FreshAfterRead(slot[bn]) + 1 ELSE FreshAfterRead(slot[bn])
    BY <1>7 DEF LoopRecord, Moves
  <2> QED
    BY <2>3, <2>4, <2>5, <2>6, <1>a, SanitizeOwned
<1> QED
  BY <1>1, <1>2, <1>3, <1>4, <1>5, <1>6, <1>7
  DEF Next, vars, CallAtEof, CallFirstGrowFails, CallFirstEof, CallFirstReadError,
      LoopGrowFails, LoopReadError, LoopEofSanitizeFails, Stopped

(***************************************************************************)
(* Theorem: no two slots of bs->b ever share a data buffer, so sam_read1   *)
(* into b[n] never overwrites another record of the template or the        *)
(* read-ahead record; the swap at lines 529-531 and the fresh buffers of   *)
(* sam_read1 and of bam_trim's realloc keep it so.                         *)
(***************************************************************************)
THEOREM BuffersDistinct == Spec => []SlotsOwnDistinctBuffers
<1>1. Init => BufInv
  <2> SUFFICES ASSUME Init PROVE BufInv
    OBVIOUS
  <2>1. TypeInv
    BY InitTypeInv
  <2>2. Owned(slot, nextBuf)
    BY DEF Init, Owned, EmptySlot, NoBuf
  <2> QED
    BY <2>1, <2>2 DEF BufInv
<1>2. BufInv /\ [Next]_vars => BufInv'
  BY NextTypeInv, NextOwned DEF BufInv
<1>3. BufInv => SlotsOwnDistinctBuffers
  BY DEF BufInv, Owned, SlotsOwnDistinctBuffers
<1> QED
  BY <1>1, <1>2, <1>3, PTL DEF Spec
=============================================================================
