---------------------------- MODULE GroupByName ----------------------------
(***************************************************************************)
(* What the template reader of samtools fixmate promises (spec 4.1): the   *)
(* input records leave it in input order, cut into the maximal runs of     *)
(* records with one query name, one run per group.  A run is handed over   *)
(* only once its end is known: a record of another name follows it, or     *)
(* the input ends.  The reader may give up at any point (an allocation     *)
(* fails), and it reports a read error only while the records before the   *)
(* failed read are all of one group.  What is not handed over when the   *)
(* reader stops is dropped.                                                *)
(*                                                                         *)
(* pending holds the records not handed over yet, as [rec, name] with rec  *)
(* the record's place in the input, or ReadError for a read that fails.    *)
(***************************************************************************)
EXTENDS Integers, Sequences

CONSTANTS
  Names,      \* query names
  Inputs,     \* the input streams
  ReadError   \* an input element whose read fails

VARIABLES
  pending,    \* what is left of the input, numbered
  out,        \* the records handed over, as [rec, name, grp]
  status      \* "run", "end", "readfail" or "failed"

avars == <<pending, out, status>>

\* The input s as numbered records, the first one numbered from + 1.
Numbered(s, from) ==
  [k \in 1..Len(s) |-> IF s[k] = ReadError THEN ReadError
                       ELSE [rec |-> from + k, name |-> s[k].name]]

\* How many groups have been handed over.
NGroups == IF out = << >> THEN 0 ELSE out[Len(out)].grp

\* The length of the run of records with the name of p[1] that p starts
\* with.
RunLen(p) ==
  CHOOSE k \in 1..Len(p) :
    /\ \A i \in 1..k : p[i] /= ReadError /\ p[i].name = p[1].name
    /\ k < Len(p) => (p[k + 1] = ReadError \/ p[k + 1].name /= p[1].name)

\* The place of the first failed read in p.
FirstError(p) ==
  CHOOSE k \in 1..Len(p) : p[k] = ReadError /\ \A i \in 1..(k - 1) : p[i] /= ReadError

Init ==
  /\ \E s \in Inputs : pending = Numbered(s, 0)
  /\ out = << >>
  /\ status = "run"

\* The run at the head of pending is a group: its end is a record of
\* another name or the end of the input.
Emit ==
  /\ status = "run"
  /\ pending /= << >> /\ pending[1] /= ReadError
  /\ LET k == RunLen(pending)
     IN  /\ k < Len(pending) => pending[k + 1] /= ReadError
         /\ out' = out \o [i \in 1..k |-> [rec |-> pending[i].rec,
                                           name |-> pending[i].name,
                                           grp |-> NGroups + 1]]
         /\ pending' = SubSeq(pending, k + 1, Len(pending))
  /\ UNCHANGED status

\* Everything has been handed over.
Finish ==
  /\ status = "run" /\ pending = << >>
  /\ status' = "end"
  /\ UNCHANGED <<pending, out>>

\* A read fails while the records before it are all of one name.
ReadFails ==
  /\ status = "run"
  /\ \E k \in 1..Len(pending) : pending[k] = ReadError
  /\ \A i \in 1..(FirstError(pending) - 1) : pending[i].name = pending[1].name
  /\ pending' = << >>
  /\ status' = "readfail"
  /\ UNCHANGED out

\* An allocation fails; what was not handed over is lost.
GiveUp ==
  /\ status = "run"
  /\ pending' = << >>
  /\ status' = "failed"
  /\ UNCHANGED out

Next == Emit \/ Finish \/ ReadFails \/ GiveUp

\* What the reader may do, and may not.
SafetySpec == Init /\ [][Next]_avars

\* Nothing else runs in the reader, so it never stops while it can go on.
Spec == SafetySpec /\ WF_avars(Next)
=============================================================================
