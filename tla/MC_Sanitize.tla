---------------------------- MODULE MC_Sanitize ----------------------------
(***************************************************************************)
(* Model-checking instance of Sanitize: one reference of length 3, every   *)
(* CIGAR of at most three operations drawn from 1M, 2M, 1I, 1D, 2D, 1S, 1H *)
(* at starts on either side of the reference, with and without the        *)
(* unmapped flag, and every combination of sanitize categories.            *)
(***************************************************************************)
EXTENDS Sanitize

MCRefLens == << 3 >>

MCOps == {CigarOp(1, "M"), CigarOp(2, "M"), CigarOp(1, "I"), CigarOp(1, "D"),
          CigarOp(2, "D"), CigarOp(1, "S"), CigarOp(1, "H")}

MCCigars == UNION {[1..k -> MCOps] : k \in 0..3}

MCAux == { << [key |-> "NM", val |-> 1], [key |-> "XA", val |-> 7] >>,
           << [key |-> "MD", val |-> 3], [key |-> CorruptTag, val |-> 0] >> }

MCInputRecords ==
  [tid : {-1, 0}, pos : {-1, 0, 2, 3}, flag : {{}, {FUNMAP}, {FPROPER}},
   qual : {30}, cigar : MCCigars, aux : MCAux]

\* Every -z setting, and the default one (FIX_ALL) alone.
MCAllFixChoices == SUBSET FixCats
MCDefaultFixChoices == {FixAll}
=============================================================================
