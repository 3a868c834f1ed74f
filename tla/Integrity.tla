----------------------------- MODULE Integrity -----------------------------
(***************************************************************************)
(* The arithmetic gates of validator/integrity.py and the log check op3 of *)
(* validator/validator.py, over what a bundle declares about its training. *)
(*                                                                         *)
(* Units: n in 100 million parameters, tokens in billions, wall in hours.  *)
(* A field that is absent, not a number or not positive is 0: every gate   *)
(* treats the three alike.                                                 *)
(***************************************************************************)
EXTENDS Integers, FiniteSets

CONSTANTS
  Gpus,       \* GPU names a calibration may report
  Peak,       \* bf16 peak of each, in TFLOP/s, as the table finds it by name
  BudgetH,    \* RALPH_H100H_BUDGET, in H100 hours
  MaxParams,  \* RALPH_MAX_N_PARAMS
  SlackH      \* RALPH_TIMING_SLACK_S, in hours

ASSUME IntegrityAssumption ==
  /\ Peak \in [Gpus -> Nat \ {0}]
  /\ BudgetH \in Nat /\ MaxParams \in Nat /\ SlackH \in Nat

\* first: what the first row says of the time it took.  held, broken: rows that
\* satisfy and rows that break tokens_per_sec = tokens_seen / elapsed_s; a row
\* with an unusable number is neither.  last: elapsed_s of the last row.
Logs == [rows : Nat, first : {"instant", "compiled", "unreadable"},
         held : Nat, broken : Nat, last : Nat,
         loss : {"falls", "explodes", "nan"}, clock : {"runs", "jumps"}]

\* patchSteps: total_steps of a config the patch adds.
Claims == [gpu : Gpus, n : Nat, tokens : Nat, wall : Nat, batch : Nat,
           steps : Nat, patchSteps : Nat,
           data : {"canonical", "elsewhere"}, log : Logs]

-----------------------------------------------------------------------------
\* Model FLOPs utilisation, in percent.  batch is micro_batch_size * seq_len.

FlatCeiling == 70

Ceilings == << <<65536, 70>>, <<32768, 60>>, <<16384, 50>>, <<8192, 42>>, <<4096, 33>>, <<1, 25>> >>

MaxPlausibleMfu(batch) ==
  IF batch = 0 THEN FlatCeiling
  ELSE LET reached == {i \in DOMAIN Ceilings : batch >= Ceilings[i][1]}
       IN  Ceilings[CHOOSE i \in reached : \A j \in reached : i <= j][2]

Smaller(a, b) == IF a < b THEN a ELSE b

\* Mutant: the peak is taken ten times too high.
PlausibleAtTenfoldPeak(c) ==
  \/ c.tokens = 0 \/ c.wall = 0 \/ c.n = 0
  \/ 50000 * c.n * c.tokens
       <= 30 * Smaller(FlatCeiling, MaxPlausibleMfu(c.batch)) * Peak[c.gpu] * c.wall

\* 6 * n * tokens / wall FLOP/s above the ceiling's share of the peak: with the
\* units above, 6 * 10^17 * n * tokens / (3600 * wall) > ceiling% * Peak * 10^12.
CheckComputePlausibility(c) ==
  \/ c.tokens = 0 \/ c.wall = 0 \/ c.n = 0
  \/ 50000 * c.n * c.tokens
       <= 3 * Smaller(FlatCeiling, MaxPlausibleMfu(c.batch)) * Peak[c.gpu] * c.wall

-----------------------------------------------------------------------------
\* The training log against itself and against the declared wall clock.

IdentityHolds(log) ==
  \/ log.held + log.broken < 4
  \/ log.held = 0
  \/ log.broken <= (log.held + log.broken) \div 2

Distance(a, b) == IF a < b THEN b - a ELSE a - b

CheckTrainingLogIntegrity(c) ==
  \/ c.log.rows < 2
  \/ /\ c.log.first # "instant"
     /\ IdentityHolds(c.log)
     /\ \/ c.log.last = 0 \/ c.wall = 0
        \/ 50 * Distance(c.log.last, c.wall) <= c.wall

\* op3 of the judge reads the same file again, and raises nothing away.
Op3LogPlausibility(c) ==
  /\ c.log.rows > 0
  /\ c.log.loss = "falls"
  /\ c.log.clock = "runs"

-----------------------------------------------------------------------------
\* Compute budget, model size, training time, data source and recipe.

H100Ref == 510     \* matmul reference of an H100, in microseconds
HopperRef == 344   \* and that of the fastest attested Hopper

CheckComputeBudget(c) == c.wall * H100Ref <= BudgetH * HopperRef

CheckModelSize(c) == c.n <= MaxParams

\* Mutant: the slack on the wrong side.
TimingWithSlackReversed(c, codeAge) == codeAge = -1 \/ c.wall + SlackH <= codeAge

\* codeAge: hours since the canonical recipe was committed; -1 when unknown.
CheckTrainingTiming(c, codeAge) == codeAge = -1 \/ c.wall <= codeAge + SlackH

CheckCanonicalDataSource(c) == c.data = "canonical"

CheckRecipeConfigMatchesProof(c) ==
  \/ c.steps = 0 \/ c.patchSteps = 0
  \/ c.steps = c.patchSteps

CheckCheckpointNotBlocklisted(ckpt, blocked) == ckpt \notin blocked

-----------------------------------------------------------------------------
\* Two loss trajectories: common is the set of steps both logged, off those
\* among them where the losses differ by more than the band of that step.

CompareLossTrajectory(common, off) ==
  /\ Cardinality(common) >= 2
  /\ 0 \notin off
  /\ Cardinality(off) <= (Cardinality(common) - 1) \div 2

=============================================================================
