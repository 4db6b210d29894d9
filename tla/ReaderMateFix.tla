--------------------------- MODULE ReaderMateFix ---------------------------
(***************************************************************************)
(* The template loop of bam_mating_core (MateFix) on the templates that    *)
(* next_template actually returns: the records of one name, of which only  *)
(* b[0] has been through bam_sanitize (the calls of lines 525 and 544 both *)
(* pass &bs->b[0]), with the run's sanitize_flags and the header's         *)
(* reference lengths.                                                      *)
(***************************************************************************)
EXTENDS MateFix

CONSTANTS
  RefLens,        \* the reference lengths of the header
  SanitizeFlags   \* sanitize_flags, as the set of categories

\* bam_sanitize, with the state of the Sanitize machine left aside.
San == INSTANCE Sanitize WITH InputRecords <- {}, MaxCalls <- 1,
                              FixChoices <- {SanitizeFlags},
                              rec <- << >>, fixFlags <- SanitizeFlags,
                              calls <- 0, status <- "ok", oob <- FALSE

\* bam_sanitize(header, &bs->b[0], sanitize_flags) on the template t as
\* read; a template on which it fails makes next_template return -2 and
\* is never processed.
SanitizeFirst(t) == San!BamSanitize(t[1], SanitizeFlags, TRUE)

(***************************************************************************)
(* What next_template returns for the raw templates: b[0] sanitized (once  *)
(* or many times, which SanitizeIdempotent shows to be the same), b[1..]   *)
(* as sam_read1 decoded them.                                              *)
(***************************************************************************)
ReaderTemplates(raw) ==
  { [t EXCEPT ![1] = SanitizeFirst(t).rec] : t \in {t \in raw : SanitizeFirst(t).ret = 0} }

(***************************************************************************)
(* The assertion a->core.tid >= 0 of plausibly_properly_paired (line 141), *)
(* "This should never happen if FUNMAP is set correctly", never fails on   *)
(* a template the reader returns: bam_sanitize with FIX_POS|FIX_UNMAP sets *)
(* FUNMAP on every record without a reference.                             *)
(***************************************************************************)
NoAssertionFailure == pc /= "abort"
=============================================================================
