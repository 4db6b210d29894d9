----------------------- MODULE SanitizeOptions_proofs -----------------------
(***************************************************************************)
(* TLAPS proofs about bam_sanitize_options (src/bam_mate.c:371-407): for   *)
(* every -z argument, the cursor str stays within the string and its NUL,  *)
(* and opt holds sanitize categories only.                                 *)
(***************************************************************************)
EXTENDS SanitizeOptions, WellFoundedInduction, TLAPS

(***************************************************************************)
(* Every non-empty set of naturals has a least element.  It is what makes  *)
(* the CHOOSEs of the model, the first non-comma, the first comma after a  *)
(* token and the first matching entry of the chain, denote what they say. *)
(***************************************************************************)
LEMMA LeastNat ==
  ASSUME NEW T \in SUBSET Nat, T /= {}
  PROVE  \E x \in T : \A y \in T : x <= y
<1>1. \E x \in T : \A y \in T : ~(<<y, x>> \in OpToRel(<, Nat))
  BY NatLessThanWellFounded, WFMin, Zenon
<1>2. \A x, y \in Nat : ~(<<y, x>> \in OpToRel(<, Nat)) => x <= y
  BY DEF OpToRel
<1> QED
  BY <1>1, <1>2

(***************************************************************************)
(* Lines 376-377: skipping the commas from a cursor within the string and  *)
(* its NUL stops within them, at or after the cursor.                      *)
(***************************************************************************)
LEMMA SkipCommasType ==
  ASSUME NEW t \in Seq(STRING), NEW c \in 1..(Len(t) + 1)
  PROVE  SkipCommas(t, c) \in c..(Len(t) + 1)
<1> DEFINE T == {j \in c..(Len(t) + 1) : j <= Len(t) => t[j] /= Comma}
<1>1. T \subseteq Nat /\ Len(t) + 1 \in T
  OBVIOUS
<1>2. PICK x \in T : \A y \in T : x <= y
  BY <1>1, LeastNat
<1>3. \A m \in c..(x - 1) : t[m] = Comma
  BY <1>2
<1>4. /\ x \in c..(Len(t) + 1)
      /\ x <= Len(t) => t[x] /= Comma
  BY <1>2
<1> QED
  BY <1>3, <1>4 DEF SkipCommas

(***************************************************************************)
(* Line 379: the scan of a token that starts within the string and its NUL *)
(* stops at the closing comma or at the NUL, never past it.                *)
(***************************************************************************)
LEMMA TokenEndType ==
  ASSUME NEW t \in Seq(STRING), NEW st \in 1..(Len(t) + 1)
  PROVE  TokenEnd(t, st) \in st..(Len(t) + 1)
<1> DEFINE T == {e \in st..(Len(t) + 1) : e <= Len(t) => t[e] = Comma}
<1>1. T \subseteq Nat /\ Len(t) + 1 \in T
  OBVIOUS
<1>2. PICK x \in T : \A y \in T : x <= y
  BY <1>1, LeastNat
<1>3. \A m \in st..(x - 1) : t[m] /= Comma
  BY <1>2
<1>4. /\ x \in st..(Len(t) + 1)
      /\ x <= Len(t) => t[x] = Comma
  BY <1>2
<1> QED
  BY <1>3, <1>4 DEF TokenEnd

(***************************************************************************)
(* Lines 381-398: the first entry of the chain that matches is an entry,   *)
(* and every entry sets or adds sanitize categories only.                  *)
(***************************************************************************)
LEMMA KeywordsVal ==
  /\ Len(Keywords) = 10
  /\ \A k \in 1..Len(Keywords) : Keywords[k].val \subseteq FixAll
BY DEF Keywords, FixAll, FixOn

LEMMA FirstMatch ==
  ASSUME NEW M \in SUBSET (1..Len(Keywords)), M /= {}
  PROVE  (CHOOSE k \in M : \A m \in M : k <= m) \in 1..Len(Keywords)
<1>1. M \subseteq Nat
  BY KeywordsVal
<1>2. \E x \in M : \A y \in M : x <= y
  BY <1>1, LeastNat
<1> QED
  BY <1>2

-----------------------------------------------------------------------------
(***************************************************************************)
(* Type correctness of bam_sanitize_options: for every argument the cursor *)
(* str of the while loop of line 374 stays between the first character and *)
(* the NUL (the token scan of line 379 stops at the NUL, never one past    *)
(* it), and opt only ever holds the categories FIX_POS .. FIX_AUX.         *)
(***************************************************************************)
THEOREM TypeCorrect == Spec => []TypeOK
<1>1. Init => TypeOK
  BY InputsAssumption DEF Init, TypeOK
<1>2. TypeOK /\ [Next]_vars => TypeOK'
  <2> SUFFICES ASSUME TypeOK, [Next]_vars PROVE TypeOK'
    OBVIOUS
  <2>0. s \in Seq(STRING) /\ i \in 1..(Len(s) + 1)
    BY InputsAssumption DEF TypeOK
  <2>1. CASE Keyword
    <3> DEFINE st == SkipCommas(s, i)
               M == Matching(s, st)
               k == CHOOSE k \in M : \A m \in M : k <= m
    <3>1. st \in 1..(Len(s) + 1)
      BY <2>0, SkipCommasType
    <3>2. TokenEnd(s, st) \in 1..(Len(s) + 1)
      BY <2>0, <3>1, TokenEndType
    <3>3. M \in SUBSET (1..Len(Keywords)) /\ M /= {}
      BY <2>1 DEF Keyword, Matching
    <3>4. Keywords[k].val \subseteq FixAll
      BY <3>3, FirstMatch, KeywordsVal
    <3>5. ApplyKeyword(opt, Keywords[k]) \subseteq FixAll
      BY <3>4 DEF ApplyKeyword, TypeOK
    <3>6. /\ opt' = ApplyKeyword(opt, Keywords[k])
          /\ i' = TokenEnd(s, st)
          /\ s' = s /\ pc' = pc
      BY <2>1 DEF Keyword
    <3> QED
      BY <3>2, <3>5, <3>6 DEF TypeOK
  <2>2. CASE Unrecognised
    BY <2>2 DEF Unrecognised, TypeOK
  <2>3. CASE LoopEnd
    BY <2>3 DEF LoopEnd, TypeOK
  <2>4. CASE Terminated
    BY <2>4 DEF Terminated, TypeOK, vars
  <2>5. CASE UNCHANGED vars
    BY <2>5 DEF TypeOK, vars
  <2> QED
    BY <2>1, <2>2, <2>3, <2>4, <2>5 DEF Next
<1> QED
  BY <1>1, <1>2, PTL DEF Spec
=============================================================================
