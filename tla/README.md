# Verification of `samtools fixmate` (src/bam_mate.c)

This directory holds TLA+ models of the fixmate tool in `src/bam_mate.c`.
It has TLC configurations that model-check them on small instances,
and TLAPS proofs. For the template reader they cover type correctness, buffer
ownership, record order, maximal groups, and the safety part of its
refinement of GroupByName. For the `-z` parser they cover type correctness.
For the template fix they prove that `-r` never leaves an orphan. `PROJECT.json` lists:

- the components;
- the runs and their mutants;
- the map from every modelling definition to the source lines it translates;
- the findings, the hazards and the theorems.

## The system

fixmate reads a SAM/BAM stream that is grouped by read name. It writes
the stream back with the mate fields of each template made consistent.
The work is split among these parts of `bam_mate.c`:

| part | code | what it does |
|---|---|---|
| template reader | `next_template` 511-561, `grow_b_array` 478-496, `bam_set` 498-504 | Fills the array `bs->b` with the next run of records that share a name. It keeps the first record of the next name as read-ahead in `b[b_next]` and swaps it into `b[0]` on the next call. It sanitizes records as it reads them. |
| record sanitizer | `bam_sanitize` 409-473, `bam_trim` 266-367, `clear_cigar` 257-262 | Clamps or unmaps out-of-range positions. Trims alignments that run past the reference end. Clears the CIGAR and alignment tags of unmapped reads. Drops corrupt aux data. The `-z` categories (`FIX_POS`, `FIX_MQUAL`, `FIX_UNMAP`, `FIX_CIGAR`, `FIX_AUX`) select which of these happen. |
| `-z` parser | `bam_sanitize_options` 371-407 | Turns the `-z` argument into those flags. |
| template fix | `bam_mating_core` 597-700 | Scans one template and pairs the first primary with each later one. For each pair it calls `sync_mate` (`sync_unmapped_pos_inner`, `sync_mate_inner`, `sync_mq_mc`) and sets TLEN. It also adds ct (`bam_template_cigar`), checks `plausibly_properly_paired` and adds ms (`calc_mate_score`, `add_mate_score`). It handles `-r` removal and the unpaired case, then writes the records. |
| CLI and setup | `bam_mating` 745-828, `usage`, the prologue of `bam_mating_core` | Parses options, opens the files, checks the sort order, adds @PG and writes the header. |

The reader and the template fix interact through `bs`. Each call of
`next_template` hands `bs->n` records to the loop body. The loop body
changes them in place and writes them out. The read-ahead record stays in
`b[b_next]` until the next call.

## Modules

- **BamRecord**: the part of htslib's `bam1_t` that fixmate reads.
  - An abstract record is `[tid, pos, flag, qual, cigar, aux, ...]`.
  - `flag` is a set of flag names.
  - The cigar is a sequence of `[len, op]`, and the aux data is a sequence of `[key, val]`.
  - `RefLen`/`EndPos` are `bam_cigar2rlen` and `bam_endpos`. As in htslib 1.10 and later, an unmapped record, or one whose CIGAR covers no reference base, ends one past its position.
  - `AuxDel`/`AuxReplace` are `bam_aux_del` and the update-or-append done by `bam_aux_update_*`/`bam_aux_append`.
  - Sums over a CIGAR use a recursive function, not a RECURSIVE operator, so that modules reaching it stay provable.
  - `IsTagStream` and `IsRec` are the shape of a tag stream and of a record. A tag key is a two-letter name taken as a value. Neither prover can show that a string literal is in `STRING`, so the shape does not say it.
- **Sanitize**: `bam_sanitize` on one record.
  - `BamTrim` follows the code's walk (`TrimIndex`, `TrimOpStart`) and its split of the operation that crosses the end (`TrimHeadLen`). It then runs the tail loop (`TrimTail`, one `TrimStep` per remaining operation).
  - `TrimTail` records whether the code's `new_cigar[j-1]` write would fall outside the array.
  - `TrimOutcome` is what `bam_sanitize` gets back. When the realloc of lines 342-347 fails, the record is left half trimmed: `cigar[old_i]` has been shortened in place at line 300 (`TrimSplit`'s `inplace`), and `n_cigar` is unchanged. The run then stops.
  - The `malloc` of lines 291-294 is left out. It is taken only when 1023 or more operations follow the cut, far beyond the instances.
  - `AuxFilter` is the tag loop, with the corrupt-tag early return (`AuxFilterFails`).
  - The state is the record `rec`, the `-z` flags `fixFlags`, the number of `calls`, the last return `status` and the out-of-bounds marker `oob`.
  - The action `Sanitize` is one whole call, and it may be taken `MaxCalls` times. `next_template` sanitizes `b[0]` repeatedly, so idempotence matters.
- **MateFix**: one iteration of the template loop of `bam_mating_core`.
  - The state is:
    - `b`/`bn`, the template;
    - `n`, `prev`, `curr`, `preEnd`, `curEnd`, the loop's locals;
    - `opts`, the options;
    - `out`, the indices written so far;
    - `pc`, the control point.
  - The scan has one action per branch:
    - `ScanSecondary`, for secondary and supplementary records;
    - `ScanFirstPrimary`;
    - `ScanPair` and `ScanPairFails`. `ScanPair` is the whole pair body. It sets FPAIRED and calls `SyncMate`. `PairFixups` then applies the rest of lines 624-669 to the synchronised pair: `SetIsize`, `BamTemplateCigar`, the proper-pair check (whose `assert` may fail), `AddMateScore` and the `-r` fix-up `RemoveFixup`.
  - The end of the scan has three actions:
    - `ScanEndPaired`;
    - `ScanEndUnpaired`, the `cur == NULL` fix-up;
    - `ScanEndNoPrimary`, where `pre` is NULL and line 674 dereferences it.
  - The write loop has `WriteRecord`, `WriteSkip` and `WriteFails`.
  - The `assert` at line 141 is the control point `"abort"`.
  - `TemplatesAssumption` says that every template is a non-empty sequence of records. `next_template` never hands over an empty one.
- **BatchReader**: `next_template` and `grow_b_array` over a stream.
  - A record is abstracted to:
    - its name;
    - its index in the input, `rec`;
    - the identity of its data buffer, `buf`;
    - how often it was sanitized, `san`;
    - whether sanitizing it reallocates its data, `grows`. That models `bam_trim`'s `realloc`.
  - The variables stand for the following code:
    - `slot` is `bs->b`;
    - `ba`, `bn`, `bnext` and `eof` are the fields of `bam_set`;
    - `name` is the buffer that the local `name` points into;
    - `delivered` is every record handed to the caller, tagged with its group;
    - `uaf` is set when `strcmp` reads a freed buffer.
  - Every early return of the two functions is an action of its own: `CallAtEof`; the `CallFirst*` and `CallNext` actions for lines 519-536; and the `Loop*` actions for the loop at 537-558.
  - The refinement mapping at the end of the module (`AbsPending`, `AbsOut`, `AbsStatus`) maps this state onto GroupByName.
- **GroupByName**: the abstract specification of the reader (spec 4.1).
  - `pending` is the rest of the numbered input, `out` the records handed over with their group, and `status` one of run/end/readfail/failed.
  - `Emit` hands over the maximal same-name run at the head of `pending`, but only once its end is known: a record of another name follows, or the input ends.
  - `ReadFails` reports an error only while the records before the failed read are all of one name. `GiveUp` is an allocation failure. `Finish` is the end of the input.
  - BatchReader maps onto it as follows:
    - `AbsPending` is the records held in `slot` (slots `0..bn-1` inside the loop, the read-ahead record `b[bnext]` between calls) followed by the unread input.
    - `AbsOut` is `delivered` without the buffer and sanitize fields.
    - `AbsStatus` maps `call`/`loop` to `run` and `fail` to `failed`.
- **SanitizeOptions**: `bam_sanitize_options`, the `-z` parser, over the argument as a sequence of characters.
  - `Keywords` is the if-else chain of lines 381-398 in its order. Each entry says whether it sets `opt` (`=`) or adds to it (`|=`).
  - `StrNCmpZero` is the `strncmp` over the keyword's length. `SkipCommas` and `TokenEnd` are the two scanning loops.
  - One `Keyword` action is one iteration of the `while`. `Unrecognised` is the error return, and `LoopEnd` the return at the NUL.
  - `ReferenceResult` is an independent reading of the argument: the comma-separated items, each exactly one keyword, folded from left to right.
- **ReaderMateFix**: the composition of the reader with the template fix.
  - It extends MateFix. Its templates are what `next_template` hands over: `b[0]` passed through `BamSanitize` (Sanitize instantiated with the `-z` flags), and the later records as read.
  - This is where the line-544 bug reaches the assertion at line 141.
- **BatchReader_proofs**: the TLAPS proofs that BatchReader is type-correct and that its slots never share a buffer.
- **BatchReader_order_proofs**: the TLAPS proofs that BatchReader returns every record once and in order (NoRecordLostOrDuplicated), in groups that are the maximal runs of one name (GroupsAreNameRuns).
- **BatchReader_refinement_proofs**: the TLAPS proof that BatchReader implements the safety part of GroupByName (`GBN!SafetySpec`).
- **SanitizeOptions_proofs**: the TLAPS proof that SanitizeOptions is type-correct.
- **MateFix_proofs**: the TLAPS proof that MateFix with `-r` writes no orphan (RemovalLeavesNoOrphans).
- **BamRecord_proofs**: lemmas about BamRecord's operators: `bam_cigar2rlen` returns a natural and `bam_endpos` an integer (`RefLenNat`, `EndPosInt`), `bam_aux_get` finds the first entry with the key (`FirstTagProps`), and deletion and replacement keep a tag stream a tag stream (`AuxDelStream`, `AuxReplaceStream`).
- **MateFix_type_proofs**: the TLAPS proofs that MateFix is type-correct and that with the proper-pair check on (no `-p`) PROPER_PAIR survives only on an FR pair (ProperPairOnlyIfPlausible).
- **MC_Sanitize, MC_MateFix, MC_BatchReader, MC_SanitizeOptions, MC_ReaderMateFix**: the instances for TLC.

## Runs

All runs use `tlc -workers 2 -config <cfg> <module>`.

| run | cfg | expect | checks |
|---|---|---|---|
| sanitize | MC_Sanitize.cfg | pass | TypeOK, MappedWithinReference, TrimMatchesReference, SanitizeIdempotent |
| sanitize_boundary_unmap | MC_Sanitize_NoUnmapInsideReference.cfg | violation | NoUnmapInsideReference |
| sanitize_query_length | MC_Sanitize_TrimPreservesQueryLength.cfg | violation | TrimPreservesQueryLength |
| sanitize_trim_oob | MC_Sanitize_TrimWritesInBounds.cfg | violation | TrimWritesInBounds |
| matefix | MC_MateFix.cfg | pass | TypeOK, MateFieldsSynchronized, ProperPairOnlyIfPlausible, RemovalLeavesNoOrphans |
| matefix_no_primary | MC_MateFix_NoNullDereference.cfg | violation | NoNullDereference |
| matefix_stale_munmap | MC_MateFix_InsertSize.cfg | violation | InsertSizeWhenBothMapped |
| reader | MC_BatchReader.cfg | pass | TypeOK, NoRecordLostOrDuplicated, GroupsAreNameRuns, SlotsOwnDistinctBuffers, GroupByNameSpec |
| reader_stale_name | MC_BatchReader_NameNotStale.cfg | violation | NameNotStale |
| options | MC_SanitizeOptions.cfg | pass | TypeOK, AcceptedListsParsedAsReference |
| options_prefix | MC_SanitizeOptions_OnlyKeywordsAccepted.cfg | violation | OnlyKeywordsAccepted |
| reader_matefix_assert | MC_ReaderMateFix.cfg | violation | NoAssertionFailure |

What the passing runs show:

- **sanitize**: a record that stays mapped ends inside its reference. When
  the reference end falls strictly inside an operation, the kept alignment
  ends exactly at the reference end and the rest is soft-clipped, as spec
  4.2 says. A second call of `bam_sanitize` changes nothing. This holds for
  every record in MC_Sanitize and every subset of `-z` categories.
- **matefix**: after a pair has been processed, each mapped read's
  mtid/mpos/MUNMAP/MREVERSE equal its mate's tid/pos/UNMAP/REVERSE. An
  unmapped read sits at its mate's position. PROPER_PAIR survives the
  proper-pair check (on unless `-p`) only if the pair is plausible. With
  `-r`, no record written with PAIRED set has its mate removed.
- **reader**: at every return of `next_template`, the records handed on
  plus the read-ahead record are exactly records 1..k of the input, in
  order. Every group is a maximal run of one name. No two slots share a
  data buffer. These hold under read errors, allocation failures and
  sanitize failures. Under `FairSpec` (see Fairness) the reader also
  implements GroupByName (`GroupByNameSpec`). Every step of
  `next_template` is an `Emit`, `Finish`, `ReadFails` or `GiveUp` of the
  abstract reader, or a stutter. Read-ahead, swapping and sanitizing are
  invisible to a caller. The liveness part of the abstract specification
  means the reader always stops.
- **options**: a `-z` list of exact keywords that the parser accepts gives
  the categories of the reference reading: the chain's order, the resets
  of all/none/off/on, `|=` for the category words, and skipped leading and
  doubled commas. The inputs are every concatenation of up to three pieces
  taken from a comma, the ten keywords and the near misses `posx`, `o`,
  `*x` and `au`.

The violation runs are the findings in `PROJECT.json`:

- **reader_matefix_assert** (lines 544 and 141): sanitize is applied to
  `b[0]`, not `b[bs->n]`, so the records of a template after the first are
  never sanitized. In the composed model, a template [secondary, primary
  with tid -1 but FUNMAP clear, primary] reaches `assert(a->core.tid >= 0)`
  under the default options and aborts.
- **reader_stale_name** (line 553): a use-after-free of `name` after
  `bam_trim` reallocates `b[0]`.
- **sanitize_boundary_unmap** (line 302): the junction branch is dead, so a
  cut on an operation boundary unmaps the read.
- **sanitize_query_length** (line 300): a successful sanitize splits a
  D/N operation that crosses the reference end into a kept part and a
  soft clip, so 2M2D on a 3-base reference becomes 2M1D1S. The property is
  stated for successful calls only, since a failed one stops the run.
- **sanitize_trim_oob** (line 318): the code writes `new_cigar[-1]`.
- **matefix_no_primary** (line 674): the code dereferences `pre == NULL`.
- **matefix_stale_munmap** (line 627): a stale MUNMAP suppresses TLEN for
  two mapped mates.
- **options_prefix** (line 381): `strncmp` over the keyword's length accepts
  any token that starts with a keyword (`**` and `*x` as all, `posx` as pos).

Two more disagreements were found with TLC while modelling, and they are kept
as hazards in `PROJECT.json` rather than as runs:

- A trailing or lone comma (`pos,`, `,`) leaves an empty token. The empty
  token is compared with the keywords and rejected as unrecognised (line 379).
- With `-c`, an unmapped pair keeps a ct tag from the input, because
  `bam_template_cigar` returns at line 53 before deleting it.

Every property of a passing run has a mutant in `PROJECT.json`. A mutant
replaces a mapped definition by a plausible wrong version, defined next to
it, such as an off-by-one split, a copy instead of a swap, or a one-sided
fix-up. TLC must then find the property violated.

## Bounds

- **Sanitize**: the reference has length 3, and a CIGAR has up to three
  operations among 1M 2M 1I 1D 2D 1S 1H. Positions are -1, 0, 2 and 3.
  These bounds cover a start before, inside, at the end of and past the
  reference. They also cover a cut inside an operation, a cut on a
  boundary, and a cut followed by D, I, S or H. `MaxCalls = 2` shows
  idempotence.
- **MateFix**: a template has one to three records, built from:
  - mapped records on two references, at two positions and on both strands;
  - unmapped records;
  - one secondary and one supplementary record.

  Every setting of `-r -p -c -M` is tried. Two primaries are
  enough for every branch of the pair body. Three exercise the repeated
  pairing with `pre`.
- **BatchReader**: there are two names, and inputs are every sequence of up
  to `MaxInput = 3` records, plus inputs that end in a read error. Three
  records make a group of two followed by a read-ahead record, and a
  read-ahead record that is sanitized late. Every record may or may not
  reallocate on sanitizing.
- **SanitizeOptions**: the argument has up to three pieces (10,489 states).
  This covers:
  - every pair of keywords in both orders, so a set followed by an add and
    an add followed by a reset;
  - leading, doubled and trailing commas;
  - every near miss followed by a comma and a keyword.
- **ReaderMateFix**: one reference of length 4. Raw templates have two or
  three records, drawn from:
  - mapped at 0;
  - mapped reverse at 2;
  - mapped with tid -1;
  - unmapped;
  - a secondary.

  The assertion needs three records: a secondary, then two primaries.

## Fairness

The program is sequential. The safety runs use `Spec`, which has no
fairness. The refinement run uses `FairSpec == Spec /\ WF_vars(Next)`.
`next_template` is called from the single loop of `bam_mating_core` and
runs to a return without waiting on anything. While the reader can take a
step, it does, so weak fairness of its whole next-state relation is what
the code guarantees. GroupByName assumes the same weak fairness, and under
it the refinement includes that the reader terminates. Deadlock is checked:
every terminal control point (`end`, `fail`, `readfail`, `done`, `wfail`,
`abort`, `crash`) is an explicit stuttering action, and nothing else
stops.

## Proofs

`BatchReader_proofs.tla` proves `THEOREM TypeCorrect == Spec => []TypeOK`
for every set of names, input set and bound `MaxInput`. It rests on the
assumptions declared in BatchReader:

- `ReadErrorAssumption`: `ReadError` is not a record;
- `MaxInputAssumption`: `MaxInput` is a natural number;
- `InputsAssumption`: every input has at most `MaxInput` records.

TypeOK alone is not inductive. A slot index `bn` or `bnext` is only known
to stay below `MaxInput + 1` because at most `MaxInput` records are ever
read. The proof therefore uses the strengthening

    TypeInv == TypeOK /\ nread + Len(inp) <= MaxInput /\ bn <= nread
               /\ bnext <= nread /\ bnext /= 0 /\ (pc = "loop" => bn >= 1)

TLC checks it as an invariant of the reader run. The proof has three
lemmas: `InitTypeInv`, `NextTypeInv` (one step per action) and
`SanitizedType`.

The same module proves `THEOREM BuffersDistinct == Spec => []SlotsOwnDistinctBuffers`.
SlotsOwnDistinctBuffers says that no two slots of `bs->b` share a data buffer,
so reading into `b[n]` cannot overwrite another record of the template or the
read-ahead record. It is not inductive either, because a read or a realloc
makes a fresh buffer, and the proof must know that this buffer is nobody's.
The strengthening is

    BufInv == TypeInv /\ Owned(slot, nextBuf)

where `Owned(sl, nb)` says that every slot's buffer is below the fresh-buffer
counter `nb`, and that two different slots with a buffer have different ones.
There is one lemma per kind of change to the slots, each stated once and
cited wherever that change happens:

- `ReplaceSlot`: one slot takes its own buffer or a fresh one;
- `ReadOwned`: `sam_read1` reads into a slot;
- `SanitizeOwned`: `bam_sanitize` may move slot 0 to a fresh buffer through
  `bam_trim`'s realloc;
- `SwapOwned`: the swap of `b[0]` and `b[bnext]` at lines 529-531.

`NextOwned` takes one step per action and combines them.

`BatchReader_order_proofs.tla` proves
`THEOREM RecordsInOrder == Spec => []NoRecordLostOrDuplicated` and
`THEOREM GroupsMaximal == Spec => []GroupsAreNameRuns`. Neither property is
inductive: both speak only of the states between calls, and say nothing of
the records held in `b[0..n-1]` while the loop runs. The strengthening is
`Inv == TypeInv /\ OrderInv /\ NameInv`, which TLC checked as an invariant
of the reader run before it was proved:

- `OrderInv` says where each record read so far is. Record `r` has been
  returned as `delivered[r]`, or it is in `b[r - D - 1]` in the loop (with
  `D` records returned and `D + n = nread`), or it is the read-ahead record
  `b[b_next]` between calls. Once `eof` is set nothing is held or unread.
- `NameInv` says what the names are. `Runs(delivered, ngroups)` says that the
  groups returned are numbered `1..ngroups` and that neighbours share a group
  exactly when they share a name. The records held in the loop share `b[0]`'s
  name. The next record to be grouped has a name other than the last one
  returned: the `strcmp` at line 553 ended that group on it.

The lemmas `DeliverProps` and `DeliverRuns` say what appending a group does.
They are stated over the state variable `delivered`, so that they are cited
without instantiating a sequence. `NextOrder` and `NextName` take one step
per action. `InitInv` and `NextInv` combine them with the type lemmas.

`BatchReader_refinement_proofs.tla` proves
`THEOREM ImplementsGroupByName == Spec => GBN!SafetySpec`. GBN is
GroupByName with `AbsPending`, `AbsOut` and `AbsStatus` for its variables.
The proof follows the usual layout: `Spec => []Inv`, then `RefineInit`
(`Init => GBN!Init`), then `RefineStep` (`Inv /\ [Next]_vars =>
[GBN!Next]_GBN!avars`), combined by PTL. The step lemma has one case per
action:

- the failed reallocs and sanitizes are GiveUp (`StepGiveUp`);
- `CallAtEof` and `CallFirstEof` are Finish (`StepFinish`);
- the two read errors are ReadFails. `FirstErrorIs` locates the error at
  place `n + 1`, after the group held in the loop (`StepReadFailsFirst`,
  `StepReadFailsLoop`);
- `LoopEof`, and `LoopRecord` with a new name, are Emit of the `n` held
  records. `LoopRunLen`, built on `RunLenIs`, shows that `RunLen` is `n`.
  `OutStep` shows the output is extended by those records, and `LoopRest`
  shows what remains pending (`StepEmitEof`, `StepEmitRecord`);
- `CallFirst`, `CallNext`, and `LoopRecord` with the same name leave the
  abstract state alone. A record only moves from the unread input to the held
  records at the same place (`StepStutterFirst`, `StepStutterNext`,
  `StepStutterRecord`, with `NumberedCons`, `HeldAppend` and `HeldOne`).

The refinement needs one more assumption, `HeldRecordAssumption` in
BatchReader: `ReadError` is not a `[rec, name]` record. It is what lets a held
record be told apart from a failed read. It is the same kind of assumption as
`ReadErrorAssumption`, and TLC evaluates it in the reader run.

`SanitizeOptions_proofs.tla` proves `THEOREM TypeCorrect == Spec => []TypeOK`
for every argument in `Inputs`. TypeOK says two things. The cursor `i` stays
in `1..Len(s) + 1`, so the token scan of line 379 stops at the NUL and never
passes it. And `opt` holds sanitize categories only. TypeOK is inductive as
it stands. The model's scanning loops and its first-match choice are
CHOOSEs of a least element. `LeastNat` shows that such an element exists: it
is WellFounded's `WFMin` over `<` on Nat. `SkipCommasType` and
`TokenEndType` then bound the two loops, and `FirstMatch` with
`KeywordsVal` shows that the chosen keyword's categories are in `FixAll`.

`MateFix_proofs.tla` proves
`THEOREM RemovalWithoutOrphans == Spec => []RemovalLeavesNoOrphans` for every
set of templates and option choices. The property speaks only of the final
state, so it is strengthened to `IInv == ShapeInv /\ ScanInv /\ WriteInv`.
TLC checked IInv as an invariant of the matefix run before it was proved.

- `ShapeInv` is the type of the loop's variables.
- `ScanInv` says what the scan of lines 600-669 has seen of `b[0..n-1]`.
  `pre` is the first primary. `cur`, when set, is another primary. Every
  primary other than `pre` is `cur`, unless no `cur` has been found. And
  `PairedWithMapped(pre, cur)`: under `-r`, a record of the pair that keeps
  FPAIRED has a mapped mate.
- `WriteInv` says that the write loop has written exactly the records of
  `b[0..n-1]` that `-r` does not remove.

The pair body rewrites records through seven helpers. `Keeps(x, y)` says that
they never change a record's FUNMAP, FSECONDARY or FSUPPL flags. So a record
stays primary and stays mapped or unmapped through the body. There is one
Keeps lemma per helper. `PairUpKeeps` chains them, and `RemoveFixupPaired`
shows that the `-r` fix-up establishes PairedWithMapped. `ScanPairCases`
reads the action through `PairFixupsPair`. The step lemmas take one action
each and are combined by `NextIInv`. `IInvNoOrphans` shows that IInv implies
the property. Two primaries means they are `pre` and `cur`, by cardinality.
The mate of a written FPAIRED primary is mapped, so `-r` keeps it and the
write loop writes it.

`BamRecord_proofs.tla` shows what the recursive sum `OpLenSum` returns,
without an induction rule. The library's induction theorems take an operator
parameter, which the installed provers cannot instantiate. A LET recursive
function `s[i \in 0..Len(c)] == ...` is a CHOOSE of a function that
satisfies its defining equation. `PartialSumsExist` shows that a table of
partial sums exists up to every `m`, by taking the least `m` without one
(`LeastIndex`: `WFMin` over `<` on Nat). The table for `m - 1` then extends
to one for `m`. `PartialSumsNat` shows, by the least index holding a non-natural,
that every such table holds naturals. `OpLenSumNat` combines the two. A lemma
about `OpLenSum(c, LAMBDA o : o \in S)` is cited at a given set `S` with
`DEF OpLenSum`, so that both sides unfold to the same CHOOSE.

`MateFix_type_proofs.tla` proves `THEOREM TypeCorrect == Spec => []TypeOK`
for MateFix. TypeOK is inductive as it stands. There is one IsRec lemma per
helper of the pair body: `sync_unmapped_pos_inner`, `sync_mate_inner`,
`sync_mq_mc` (by `AuxReplaceStream`), the TLEN (by `EndPosInt`, since pre_end
and cur_end are end positions), `bam_template_cigar`, clearing flags,
`add_mate_score` and the `-r` fix-up. `PairUpRec` chains them. There is one
step lemma per action, and `NextTypeOK` combines them.

The same module proves
`THEOREM ProperPairsPlausible == Spec => []ProperPairOnlyIfPlausible`. The
inductive invariant is `IInv /\ TypeOK /\ PairedPlausible`.
`PairedPlausible` says that once `pre` and `cur` are paired with the check on, a
PROPER_PAIR flag on either means the two are FR-oriented. TLC checked it on
the matefix run before it was proved. The argument has four parts:

- `PlausibleFR`: `plausibly_properly_paired` accepts only an FR pair on one
  reference.
- `PairUpProper`: the steps after the check (`add_mate_score`, the `-r`
  fix-up) keep what the check looked at. They only remove flags and change
  tags (`Shrinks`, `Geom`). So a flag that survives means the check passed.
- `StepPairedPlausible`: the only step that sets `cur` is the pair body.
- `TwoPrimariesPaired`: two primaries after the scan are `pre` and `cur`.

Proving these also turned up a fault in tlapm 1.4.5. It reads a nested `@`,
as in `[b EXCEPT ![p] = [@ EXCEPT !.f = @ \ S]]`, as `b[p].f.f`. ScanEndUnpaired
is therefore written `[b EXCEPT ![prev] = [b[prev] EXCEPT ...]]`. The meaning
is the same, and TLC's runs are unchanged.

The following are only model-checked:

- every property of Sanitize and ReaderMateFix;
- `MateFieldsSynchronized` of MateFix. It holds only when a record carries
  each of MQ and MC at most once. `sync_mq_mc` deletes the first copy and
  appends the new value (bam_mate.c:189-206), so a second, stale copy would
  be the one `bam_aux_get` finds. The code does not exclude such input, and
  a proof would have to assume it away. This is listed as a hazard;
- `AcceptedListsParsedAsReference` of SanitizeOptions. It compares the parser
  with `ReferenceResult`, a recursive function over the positions of the
  argument. Stating what the parser returns for every argument is a
  correspondence between two loops, one more step of the same least-counterexample
  kind, and has not been done;
- the liveness part of the refinement, `GroupByNameSpec == GBN!Spec` under
  `FairSpec`. It needs `WF_vars(Next)` and reasoning about ENABLED. TLAPS
  proves `GBN!SafetySpec` from `Spec` and leaves the fairness to TLC;
- `NameNotStale` of BatchReader. It is violated, which is the finding.

## Not modelled

- The CLI, file opening, the header check and @PG. These are I/O.
- The packed byte layout of `bam1_t`. The memmoves of `bam_trim` and
  `clear_cigar` are modelled by the CIGAR and tags they produce, not by the
  bytes.
- The uint32 overflow of `calc_mate_score`. It needs a read of tens of
  millions of bases, out of reach of TLC's integers and of any real read.
- The whole run is partly modelled. ReaderMateFix composes one template
  handed over by the reader with the template fix. The loop of
  `bam_mating_core` over many templates is covered by BatchReader's
  refinement, at the level of names only.

## Plan for later sittings

1. Prove `MateFieldsSynchronized` for templates whose records carry each tag
   at most once, and add a run whose records carry MQ twice, to show the
   stale tag.
2. Compose the reader loop over several templates with MateFix's write loop,
   so that the output stream is a model variable.
