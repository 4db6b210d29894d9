--------------------------- MODULE MC_BatchReader ---------------------------
EXTENDS BatchReader

CONSTANTS r1, r2

MCNames == {r1, r2}
\* Records of name r1 or r2, with or without a CIGAR that sanitizing grows.
MCRecs == [name : MCNames, grows : BOOLEAN]
\* Every input of up to three records, and inputs that end in a read
\* error after none, one or two records.
MCInputs ==
  UNION {[1..k -> MCRecs] : k \in 0..3}
  \cup {<< ReadError >>}
  \cup {<< e, ReadError >> : e \in MCRecs}
  \cup {<< e, f, ReadError >> : e, f \in MCRecs}
=============================================================================
