----------------------------- MODULE BamRecord -----------------------------
(***************************************************************************)
(* The parts of an htslib alignment record (bam1_t) that samtools fixmate  *)
(* (src/bam_mate.c) reads and writes, and the htslib accessors it calls.   *)
(* A record is a TLA+ record: the fixed core fields, the CIGAR as a        *)
(* sequence of [len, op] operations, the base qualities as a sequence, and *)
(* the auxiliary tags as a sequence of [key, val] entries in stream order. *)
(* The packed byte layout is abstracted away here.                         *)
(***************************************************************************)
EXTENDS Integers, Sequences

\* Flag bits (htslib sam.h BAM_F*), named by their meaning.
FPAIRED    == "PAIRED"
FPROPER    == "PROPER_PAIR"
FUNMAP     == "UNMAP"
FMUNMAP    == "MUNMAP"
FREVERSE   == "REVERSE"
FMREVERSE  == "MREVERSE"
FREAD1     == "READ1"
FREAD2     == "READ2"
FSECONDARY == "SECONDARY"
FSUPPL     == "SUPPLEMENTARY"
Flags == {FPAIRED, FPROPER, FUNMAP, FMUNMAP, FREVERSE, FMREVERSE,
          FREAD1, FREAD2, FSECONDARY, FSUPPL}

\* CIGAR operation kinds and bam_cigar_type(): bit 1 consumes the query,
\* bit 2 consumes the reference.
CigarOps == {"M", "I", "D", "N", "S", "H", "P", "=", "X"}
QueryOps == {"M", "I", "S", "=", "X"}
RefOps   == {"M", "D", "N", "=", "X"}

CigarOp(l, o) == [len |-> l, op |-> o]

\* Sum of the lengths of the operations of c that satisfy Counts.
OpLenSum(c, Counts(_)) ==
  LET s[i \in 0..Len(c)] ==
        IF i = 0 THEN 0
        ELSE s[i - 1] + (IF Counts(c[i].op) THEN c[i].len ELSE 0)
  IN  s[Len(c)]

\* bam_cigar2rlen: reference length of a CIGAR.
RefLen(c)   == OpLenSum(c, LAMBDA o : o \in RefOps)
\* bam_cigar2qlen: query length of a CIGAR.
QueryLen(c) == OpLenSum(c, LAMBDA o : o \in QueryOps)

Mapped(r) == FUNMAP \notin r.flag

\* bam_endpos: one past the last reference base of the alignment; a
\* record that is unmapped, or whose CIGAR covers no reference base,
\* covers one base.
EndPos(r) ==
  IF Mapped(r) /\ RefLen(r.cigar) > 0 THEN r.pos + RefLen(r.cigar)
  ELSE r.pos + 1

\* A tag stream: a sequence of [key, val] entries.  A key is a two-letter
\* tag name, taken as a value; the values are integers, CIGAR texts or ct
\* descriptors according to the key.
IsTagStream(aux) ==
  /\ Len(aux) \in Nat /\ aux = [i \in 1..Len(aux) |-> aux[i]]
  /\ \A i \in 1..Len(aux) : DOMAIN aux[i] = {"key", "val"}

\* The fields of bam1_t that fixmate reads or writes.
IsRec(r) ==
  /\ DOMAIN r = {"tid", "pos", "flag", "qual", "cigar", "aux", "mtid", "mpos",
                 "isize", "bq"}
  /\ r.tid \in Int /\ r.pos \in Int /\ r.flag \subseteq Flags
  /\ r.qual \in 0..255 /\ r.cigar \in Seq([len : Nat, op : CigarOps])
  /\ IsTagStream(r.aux) /\ r.mtid \in Int /\ r.mpos \in Int
  /\ r.isize \in Int /\ r.bq \in Seq(0..93)

\* bam_aux_get / bam_aux_del / bam_aux_append on the tag stream: a lookup
\* finds the first entry with the key, deletion removes that entry and
\* appending adds an entry at the end of the stream.
HasTag(aux, k) == \E i \in 1..Len(aux) : aux[i].key = k
FirstTag(aux, k) == CHOOSE i \in 1..Len(aux) :
                      aux[i].key = k /\ \A j \in 1..(i - 1) : aux[j].key /= k
AuxDel(aux, k) ==
  IF HasTag(aux, k)
  THEN LET i == FirstTag(aux, k)
       IN  SubSeq(aux, 1, i - 1) \o SubSeq(aux, i + 1, Len(aux))
  ELSE aux
\* The "delete any prior value, then append" idiom of sync_mq_mc,
\* add_mate_score and bam_template_cigar.
AuxReplace(aux, k, v) == Append(AuxDel(aux, k), [key |-> k, val |-> v])
=============================================================================
