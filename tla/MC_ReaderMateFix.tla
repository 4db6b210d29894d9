------------------------- MODULE MC_ReaderMateFix -------------------------
(***************************************************************************)
(* Templates of two or three records: a secondary record or a primary one  *)
(* in b[0], then primaries that are mapped on reference 0, or flagged      *)
(* mapped but without a reference (tid -1), or unmapped.  The default      *)
(* options and sanitize flags of fixmate (proper-pair check, FIX_ALL).     *)
(***************************************************************************)
EXTENDS ReaderMateFix

MCRefLens == << 4 >>

MCRec(tid, pos, flag) ==
  [tid |-> tid, pos |-> pos, flag |-> flag, qual |-> 30,
   cigar |-> << CigarOp(2, "M") >>, aux |-> << >>, mtid |-> -1, mpos |-> -1,
   isize |-> 0, bq |-> << 20 >>]

MCRaw == {MCRec(0, 0, {}), MCRec(0, 2, {FREVERSE}), MCRec(-1, 0, {}),
          MCRec(-1, -1, {FUNMAP}), MCRec(0, 1, {FSECONDARY})}

MCRawTemplates == UNION {[1..k -> MCRaw] : k \in 2..3}
MCReaderTemplates == ReaderTemplates(MCRawTemplates)
MCFixAll == {"pos", "mqual", "unmap", "cigar", "aux"}
MCDefaultOpts == {[remove |-> FALSE, ppc |-> TRUE, ct |-> FALSE, ms |-> FALSE]}
=============================================================================
