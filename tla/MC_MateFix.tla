---------------------------- MODULE MC_MateFix -----------------------------
(***************************************************************************)
(* Model-checking instance of MateFix.  Records are mapped (2M, on tid 0   *)
(* at 0 or 2, or on tid 1 at 0, either strand, PROPER_PAIR set) or         *)
(* unmapped with no coordinates; each is primary, secondary or             *)
(* supplementary, and carries stale mate fields.  Templates hold one to    *)
(* three records, and every option setting is tried.                       *)
(***************************************************************************)
EXTENDS MateFix

MkRec(tid, pos, flag, cigar) ==
  [tid |-> tid, pos |-> pos, flag |-> flag, qual |-> IF cigar = << >> THEN 0 ELSE 30,
   cigar |-> cigar, aux |-> << >>, mtid |-> 1, mpos |-> 5, isize |-> 9,
   bq |-> << 20, 10 >>]

MCMapped(role) ==
  { MkRec(c[1], c[2], {FPROPER} \cup s \cup role, << CigarOp(2, "M") >>) :
      c \in {<< 0, 0 >>, << 0, 2 >>, << 1, 0 >>}, s \in {{}, {FREVERSE}} }

MCUnmapped == MkRec(-1, -1, {FUNMAP}, << >>)

\* The primary records, and one secondary and one supplementary record.
MCPrimaries == MCMapped({}) \cup {MCUnmapped}
MCOthers == { MkRec(0, 2, {FSECONDARY}, << CigarOp(2, "M") >>),
              MkRec(0, 0, {FSUPPL, FREVERSE}, << CigarOp(2, "M") >>) }
MCRecords == MCPrimaries \cup MCOthers

\* Templates of one or two records of any kind, two primaries with one
\* other record in any place, and three primaries (forward at 0, reverse
\* at 2, unmapped).
MCTemplates ==
  UNION {[1..k -> MCRecords] : k \in 1..2}
  \cup {t \in [1..3 -> MCRecords] :
          Cardinality({k \in 1..3 : t[k] \in MCOthers}) = 1}
  \cup [1..3 -> {MkRec(0, 0, {FPROPER}, << CigarOp(2, "M") >>),
                 MkRec(0, 2, {FPROPER, FREVERSE}, << CigarOp(2, "M") >>),
                 MCUnmapped}]

\* Two-record templates of primaries, one of them carrying a stale
\* mate-unmapped flag from the input.
MCStaleRecords == MCMapped({}) \cup MCMapped({FMUNMAP})
MCStaleTemplates ==
  {t \in [1..2 -> MCStaleRecords] : \A k \in 1..2 : Primary(t[k])}

MCOptChoices == [remove : BOOLEAN, ppc : BOOLEAN, ct : BOOLEAN, ms : BOOLEAN]
MCDefaultOpts == {[remove |-> FALSE, ppc |-> TRUE, ct |-> FALSE, ms |-> FALSE]}
=============================================================================
