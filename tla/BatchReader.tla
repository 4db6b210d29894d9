---------------------------- MODULE BatchReader ----------------------------
(***************************************************************************)
(* next_template (src/bam_mate.c:498-561) and grow_b_array (475-496): the  *)
(* reader that groups consecutive records with the same query name into a  *)
(* template, keeping the first record of the next template read ahead in   *)
(* bs->b[bs->b_next].  bam_mating_core calls it until it returns < 0       *)
(* (line 597); each returned group is appended to "delivered".             *)
(*                                                                         *)
(* A record is abstracted to its name, the index it has in the input, the  *)
(* data buffer its bam1_t owns, how often bam_sanitize has run on it, and  *)
(* whether sanitizing it grows its CIGAR (bam_trim's realloc, line 342,    *)
(* which may move the buffer).                                             *)
(***************************************************************************)
EXTENDS Integers, Sequences

CONSTANTS
  Names,      \* query names
  Inputs,     \* the input streams sam_read1 may deliver
  MaxInput,   \* a bound on their length
  ReadError   \* an input element on which sam_read1 fails (returns < -1)

\* A record as sam_read1 delivers it, or a failed read.
Record == [name : Names, grows : BOOLEAN] \cup {ReadError}

ASSUME ReadErrorAssumption == ReadError \notin [name : Names, grows : BOOLEAN]
ASSUME MaxInputAssumption == MaxInput \in Nat
ASSUME InputsAssumption ==
  \A s \in Inputs : s \in Seq(Record) /\ Len(s) <= MaxInput

\* The slots bs->b[0..MaxInput] that a run can use: a group of all the
\* records and one more slot for the read at end of file.
Slots == 0..MaxInput
\* A NULL data pointer, and a slot holding no record.
NoBuf == 0
NoName == "none"
EmptySlot == [rec |-> 0, name |-> NoName, grows |-> FALSE, buf |-> NoBuf, san |-> 0]
\* A failed read is no record either as the reader holds records.
ASSUME HeldRecordAssumption == ReadError \notin [rec : Nat, name : Names \cup {NoName}]

VARIABLES
  inp,        \* the part of the input not read yet
  nread,      \* how many records sam_read1 has returned
  slot,       \* bs->b[i]
  ba,         \* bs->ba
  bn,         \* bs->n
  bnext,      \* bs->b_next
  eof,        \* bs->eof
  name,       \* the buffer that the pointer "name" (line 536) points into
  nextBuf,    \* the next fresh buffer address
  delivered,  \* the records of the returned groups, in order
  ngroups,    \* how many groups have been returned
  uaf,        \* strcmp at line 553 has read a freed buffer
  pc          \* "call", "loop", or how the run ended

vars == <<inp, nread, slot, ba, bn, bnext, eof, name, nextBuf, delivered,
          ngroups, uaf, pc>>

Init ==
  /\ inp \in Inputs
  /\ nread = 0
  /\ slot = [i \in Slots |-> EmptySlot]
  /\ ba = 0
  /\ bn = 0
  /\ bnext = -1
  /\ eof = FALSE
  /\ name = NoBuf
  /\ nextBuf = 1
  /\ delivered = << >>
  /\ ngroups = 0
  /\ uaf = FALSE
  /\ pc = "call"

-----------------------------------------------------------------------------
(* grow_b_array(&bs->b, &bs->ba, k): realloc is called when k >= ba, and   *)
(* then ba becomes k.                                                      *)
GrowCalls(k) == k >= ba
\* Recording the allocated size n+10 as ba, past the slots bam_init1 cleared.
GrowBArrayCapacity(k) == IF k < ba THEN ba ELSE k + 10
GrowBArray(k) == IF k < ba THEN ba ELSE k

(* sam_read1 into a slot: the record's fields; a slot without a buffer     *)
(* gets a fresh one.                                                       *)
ReadInto(s, e, r) ==
  [rec |-> r, name |-> e.name, grows |-> e.grows,
   buf |-> IF s.buf = NoBuf THEN nextBuf ELSE s.buf, san |-> 0]
FreshAfterRead(s) == IF s.buf = NoBuf THEN nextBuf + 1 ELSE nextBuf

(* bam_sanitize on a slot: the first run on a record whose CIGAR grows     *)
(* reallocs its buffer, which may move it to the fresh address "to".       *)
MayMove(s) == s.grows /\ s.san = 0
Sanitized(s, moved, to) ==
  [rec |-> s.rec, name |-> s.name, grows |-> s.grows,
   buf |-> IF moved THEN to ELSE s.buf, san |-> s.san + 1]

\* Returning bs->n - 1: the last record of the group is dropped.
DeliverShort(sl, k) ==
  delivered \o [i \in 1..(k - 1) |-> [rec |-> sl[i - 1].rec, name |-> sl[i - 1].name,
                                       san |-> sl[i - 1].san, grp |-> ngroups + 1]]

\* The records bs->b[0..bn-1] appended to delivered as group ngroups + 1.
Deliver(sl, k) ==
  delivered \o [i \in 1..k |-> [rec |-> sl[i - 1].rec, name |-> sl[i - 1].name,
                                 san |-> sl[i - 1].san, grp |-> ngroups + 1]]

-----------------------------------------------------------------------------
\* Lines 515-516: after end of file every call returns -1.
CallAtEof ==
  /\ pc = "call" /\ eof
  /\ pc' = "end"
  /\ UNCHANGED <<inp, nread, slot, ba, bn, bnext, eof, name, nextBuf,
                 delivered, ngroups, uaf>>

(***************************************************************************)
(* Lines 519-526 and 533-536: the first call grows bs->b to one slot,      *)
(* reads b[0] and sanitizes it.  A failed realloc, a read error or a       *)
(* failed sanitize stops the run; an empty input ends it (sam_read1        *)
(* returns -1).                                                            *)
(***************************************************************************)
FirstCall == pc = "call" /\ ~eof /\ bnext < 0
\* The record sam_read1 puts in b[0] on the first call.
First0 == ReadInto(slot[0], Head(inp), nread + 1)
\* The outcomes of the realloc in bam_trim for a slot being sanitized.
Moves(s) == IF MayMove(s) THEN BOOLEAN ELSE {FALSE}

CallFirstGrowFails ==
  /\ FirstCall /\ GrowCalls(1)
  /\ pc' = "fail"
  /\ UNCHANGED <<inp, nread, slot, ba, bn, bnext, eof, name, nextBuf,
                 delivered, ngroups, uaf>>

\* Taking sam_read1's -1 at end of file for a read error (result < 0).
CallFirstEofAsError ==
  /\ FirstCall /\ inp = << >>
  /\ ba' = GrowBArray(1)
  /\ pc' = "readfail"
  /\ UNCHANGED <<inp, nread, slot, bn, bnext, eof, name, nextBuf,
                 delivered, ngroups, uaf>>

CallFirstEof ==
  /\ FirstCall /\ inp = << >>
  /\ ba' = GrowBArray(1)
  /\ pc' = "end"
  /\ UNCHANGED <<inp, nread, slot, bn, bnext, eof, name, nextBuf,
                 delivered, ngroups, uaf>>

CallFirstReadError ==
  /\ FirstCall /\ inp /= << >> /\ Head(inp) = ReadError
  /\ ba' = GrowBArray(1)
  /\ pc' = "readfail"
  /\ UNCHANGED <<inp, nread, slot, bn, bnext, eof, name, nextBuf,
                 delivered, ngroups, uaf>>

CallFirstSanitizeFails ==
  /\ FirstCall /\ inp /= << >> /\ Head(inp) /= ReadError
  /\ MayMove(First0)
  /\ ba' = GrowBArray(1)
  /\ inp' = Tail(inp)
  /\ nread' = nread + 1
  /\ slot' = [slot EXCEPT ![0] = First0]
  /\ nextBuf' = FreshAfterRead(slot[0])
  /\ pc' = "fail"
  /\ UNCHANGED <<bn, bnext, eof, name, delivered, ngroups, uaf>>

CallFirst ==
  /\ FirstCall /\ inp /= << >> /\ Head(inp) /= ReadError
  /\ ba' = GrowBArray(1)
  /\ inp' = Tail(inp)
  /\ nread' = nread + 1
  /\ \E moved \in Moves(First0) :
       LET to == FreshAfterRead(slot[0])
           s1 == Sanitized(First0, moved, to)
       IN  /\ slot' = [slot EXCEPT ![0] = s1]
           /\ nextBuf' = IF moved THEN to + 1 ELSE to
           /\ name' = s1.buf
  /\ bn' = 1
  /\ pc' = "loop"
  /\ UNCHANGED <<bnext, eof, delivered, ngroups, uaf>>

(***************************************************************************)
(* Lines 527-536: a later call swaps the read-ahead record b[b_next] into  *)
(* b[0] (whole bam1_t structs, so each slot keeps owning one buffer) and   *)
(* takes the name pointer into b[0]'s data.                                *)
(***************************************************************************)
\* Copying b[b_next] into b[0] instead of swapping: both own one buffer.
CallNextCopy ==
  /\ pc = "call" /\ ~eof /\ bnext >= 0
  /\ slot' = [slot EXCEPT ![0] = slot[bnext]]
  /\ bn' = 1
  /\ name' = slot[bnext].buf
  /\ pc' = "loop"
  /\ UNCHANGED <<inp, nread, ba, bnext, eof, nextBuf, delivered, ngroups, uaf>>

CallNext ==
  /\ pc = "call" /\ ~eof /\ bnext >= 0
  /\ slot' = [slot EXCEPT ![0] = slot[bnext], ![bnext] = slot[0]]
  /\ bn' = 1
  /\ name' = slot[bnext].buf
  /\ pc' = "loop"
  /\ UNCHANGED <<inp, nread, ba, bnext, eof, nextBuf, delivered, ngroups, uaf>>

(***************************************************************************)
(* One iteration of the loop at lines 537-558: grow the array to bn+1,     *)
(* read into b[bn], sanitize b[0] (line 544), then stop at end of file or  *)
(* at a record whose name differs, or go on with the same template.        *)
(***************************************************************************)
LoopGrowFails ==
  /\ pc = "loop" /\ GrowCalls(bn + 1)
  /\ pc' = "fail"
  /\ UNCHANGED <<inp, nread, slot, ba, bn, bnext, eof, name, nextBuf,
                 delivered, ngroups, uaf>>

\* Line 541: sam_read1 fails (result < -1).
LoopReadError ==
  /\ pc = "loop" /\ inp /= << >> /\ Head(inp) = ReadError
  /\ ba' = GrowBArray(bn + 1)
  /\ pc' = "readfail"
  /\ UNCHANGED <<inp, nread, slot, bn, bnext, eof, name, nextBuf,
                 delivered, ngroups, uaf>>

\* Lines 543-550: end of file; b[0] is sanitized and the group returned.
LoopEofSanitizeFails ==
  /\ pc = "loop" /\ inp = << >>
  /\ MayMove(slot[0])
  /\ ba' = GrowBArray(bn + 1)
  /\ pc' = "fail"
  /\ UNCHANGED <<inp, nread, slot, bn, bnext, eof, name, nextBuf,
                 delivered, ngroups, uaf>>

LoopEof ==
  /\ pc = "loop" /\ inp = << >>
  /\ ba' = GrowBArray(bn + 1)
  /\ \E moved \in Moves(slot[0]) :
       LET sl == [slot EXCEPT ![0] = Sanitized(slot[0], moved, nextBuf)]
       IN  /\ slot' = sl
           /\ nextBuf' = IF moved THEN nextBuf + 1 ELSE nextBuf
           /\ delivered' = Deliver(sl, bn)
  /\ eof' = TRUE
  /\ bnext' = -1
  /\ ngroups' = ngroups + 1
  /\ pc' = "call"
  /\ UNCHANGED <<inp, nread, bn, name, uaf>>

\* Line 556 counted before the strcmp: the new record joins the group.
StopAtNewNameLate(sl) ==
  IF sl[bn].name /= sl[0].name
  THEN /\ delivered' = Deliver(sl, bn + 1)
       /\ ngroups' = ngroups + 1
       /\ pc' = "call"
       /\ bn' = bn + 1
  ELSE /\ bn' = bn + 1
       /\ UNCHANGED <<delivered, ngroups, pc>>

(* Lines 553-556: a different name ends the group of bn records, the same  *)
(* name extends it.                                                        *)
StopAtNewName(sl) ==
  IF sl[bn].name /= sl[0].name
  THEN /\ delivered' = Deliver(sl, bn)
       /\ ngroups' = ngroups + 1
       /\ pc' = "call"
       /\ bn' = bn
  ELSE /\ bn' = bn + 1
       /\ UNCHANGED <<delivered, ngroups, pc>>

(***************************************************************************)
(* Lines 541-557 with a record read into b[bn]: b[0] is sanitized, then    *)
(* strcmp compares the name pointer, taken before the sanitize, with the   *)
(* new record's name.  A different name returns the group and leaves the   *)
(* new record in b[bn] as read-ahead; the same name extends the group.     *)
(***************************************************************************)
LoopRead == pc = "loop" /\ inp /= << >> /\ Head(inp) /= ReadError
\* bs->b after sam_read1 into b[bn].
ReadSlots == [slot EXCEPT ![bn] = ReadInto(slot[bn], Head(inp), nread + 1)]

LoopRecordSanitizeFails ==
  /\ LoopRead
  /\ MayMove(ReadSlots[0])
  /\ ba' = GrowBArray(bn + 1)
  /\ inp' = Tail(inp)
  /\ nread' = nread + 1
  /\ slot' = ReadSlots
  /\ nextBuf' = FreshAfterRead(slot[bn])
  /\ pc' = "fail"
  /\ UNCHANGED <<bn, bnext, eof, name, delivered, ngroups, uaf>>

LoopRecord ==
  /\ LoopRead
  /\ ba' = GrowBArray(bn + 1)
  /\ inp' = Tail(inp)
  /\ nread' = nread + 1
  /\ \E moved \in Moves(ReadSlots[0]) :
       LET to == FreshAfterRead(slot[bn])
           sl == [ReadSlots EXCEPT ![0] = Sanitized(ReadSlots[0], moved, to)]
       IN  /\ slot' = sl
           /\ nextBuf' = IF moved THEN to + 1 ELSE to
           /\ uaf' = (uaf \/ name /= sl[0].buf)
           /\ StopAtNewName(sl)
  /\ bnext' = bn
  /\ UNCHANGED <<eof, name>>

\* bam_mating_core stops calling next_template once it returns < 0.
Stopped ==
  /\ pc \in {"end", "readfail", "fail"}
  /\ UNCHANGED vars

Next ==
  \/ CallAtEof \/ CallFirstGrowFails \/ CallFirstEof \/ CallFirstReadError
  \/ CallFirstSanitizeFails \/ CallFirst \/ CallNext
  \/ LoopGrowFails \/ LoopReadError \/ LoopEofSanitizeFails \/ LoopEof
  \/ LoopRecordSanitizeFails \/ LoopRecord
  \/ Stopped

Spec == Init /\ [][Next]_vars

-----------------------------------------------------------------------------
SlotType == [rec : Nat, name : Names \cup {NoName}, grows : BOOLEAN,
             buf : Nat, san : Nat]

TypeOK ==
  /\ inp \in Seq(Record)
  /\ nread \in Nat
  /\ slot \in [Slots -> SlotType]
  /\ ba \in 0..(MaxInput + 1)
  /\ bn \in 0..MaxInput
  /\ bnext \in -1..MaxInput
  /\ eof \in BOOLEAN
  /\ name \in Nat
  /\ nextBuf \in Nat \ {0}
  /\ delivered \in Seq([rec : Nat, name : Names \cup {NoName}, san : Nat, grp : Nat])
  /\ ngroups \in Nat
  /\ uaf \in BOOLEAN
  /\ pc \in {"call", "loop", "end", "readfail", "fail"}

\* The input indices of the delivered records, and of the read-ahead one.
DeliveredRecs == [i \in 1..Len(delivered) |-> delivered[i].rec]
Lookahead == IF bnext >= 0 /\ pc = "call" THEN << slot[bnext].rec >> ELSE << >>

(***************************************************************************)
(* Between calls of next_template, every record sam_read1 has returned is  *)
(* either in a returned group or held as read-ahead in b[b_next], exactly  *)
(* once and in input order; when the reader reports end of file, every     *)
(* input record has been returned.  This is what the swap of b[0] and      *)
(* b[b_next] (lines 529-531) and the b_next/eof bookkeeping (546-551) must *)
(* keep.                                                                   *)
(***************************************************************************)
NoRecordLostOrDuplicated ==
  /\ pc = "call" => DeliveredRecs \o Lookahead = [i \in 1..nread |-> i]
  /\ pc = "end" => inp = << >> /\ DeliveredRecs = [i \in 1..nread |-> i]

(***************************************************************************)
(* The returned groups are the maximal runs of equal names: two records    *)
(* next to each other in the output are in the same group exactly when     *)
(* they have the same name (the strcmp at line 553), and the groups are    *)
(* numbered without gaps.                                                  *)
(***************************************************************************)
GroupsAreNameRuns ==
  /\ delivered /= << >> => delivered[1].grp = 1
  /\ \A i \in 1..(Len(delivered) - 1) :
       delivered[i + 1].grp =
         delivered[i].grp + (IF delivered[i].name = delivered[i + 1].name THEN 0 ELSE 1)

(***************************************************************************)
(* No two slots of bs->b share a data buffer, so sam_read1 into b[n] never *)
(* overwrites the record in b[0] (the comment "For ->{,l_,m_}data" at line *)
(* 531 is why the code swaps rather than copies).                          *)
(***************************************************************************)
SlotsOwnDistinctBuffers ==
  \A i, j \in Slots : i /= j /\ slot[i].buf /= NoBuf => slot[i].buf /= slot[j].buf

(***************************************************************************)
(* The strcmp at line 553 never reads through a name pointer whose buffer  *)
(* bam_sanitize has reallocated since line 536.                            *)
(***************************************************************************)
NameNotStale == ~uaf
-----------------------------------------------------------------------------
(* The reader as an implementation of GroupByName.  The records not handed *)
(* over are the group being read (b[0..bn-1]) or the read-ahead record     *)
(* b[b_next], then the unread input, numbered from nread + 1.              *)
UnreadRecs ==
  [k \in 1..Len(inp) |-> IF inp[k] = ReadError THEN ReadError
                         ELSE [rec |-> nread + k, name |-> inp[k].name]]
HeldRecs ==
  CASE pc = "loop" -> [i \in 1..bn |-> [rec |-> slot[i - 1].rec, name |-> slot[i - 1].name]]
    [] pc = "call" /\ bnext >= 0 -> << [rec |-> slot[bnext].rec, name |-> slot[bnext].name] >>
    [] OTHER -> << >>
AbsPending == IF pc \in {"call", "loop"} THEN HeldRecs \o UnreadRecs ELSE << >>
AbsOut == [i \in 1..Len(delivered) |->
             [rec |-> delivered[i].rec, name |-> delivered[i].name, grp |-> delivered[i].grp]]
AbsStatus ==
  CASE pc \in {"call", "loop"} -> "run"
    [] pc = "fail" -> "failed"
    [] OTHER -> pc

GBN == INSTANCE GroupByName WITH pending <- AbsPending, out <- AbsOut, status <- AbsStatus

\* bam_mating_core calls next_template in a loop with nothing else running,
\* so the reader never stops while a step is possible.
FairSpec == Spec /\ WF_vars(Next)

(***************************************************************************)
(* next_template, called until it returns < 0, implements GroupByName: it *)
(* hands over every maximal run of one name, in input order, and only once *)
(* a record of another name or the end of the input has been seen; it      *)
(* reports a read error only inside the group being read; and it always    *)
(* stops.                                                                  *)
(***************************************************************************)
GroupByNameSpec == GBN!Spec
=============================================================================
