------------------------- MODULE MC_SanitizeOptions -------------------------
(***************************************************************************)
(* Model-checking instance of SanitizeOptions: every argument made of up   *)
(* to three pieces, a piece being a comma, a keyword, or a near miss: a    *)
(* keyword with a letter added or taken away.                              *)
(***************************************************************************)
EXTENDS SanitizeOptions

MCPieces ==
  {<< Comma >>, AllW, StarW, NoneW, OffW, OnW, PosW, MqualW, UnmapW, CigarW, AuxW,
   << "p", "o", "s", "x" >>, << "o" >>, << "*", "x" >>, << "a", "u" >>}

MCInputs == {a \o b \o c : a, b, c \in MCPieces \cup {<< >>}}
=============================================================================
