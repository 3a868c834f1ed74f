------------------------------ MODULE Scoring ------------------------------
(***************************************************************************)
(* The pure decisions of the validator: when a challenger decisively beats *)
(* the bar (validator/scoring.py), how a judged submission is classified,  *)
(* and how an epoch's weights are computed from the classifications        *)
(* (validator/service.py, chain_layer/bittensor_chain.py).                 *)
(*                                                                         *)
(* Quality is counted in integer bpb points (lower is better), benchmark   *)
(* accuracy in the same points (higher is better) and compute cost is the  *)
(* number of points the crown gate charges for it.  Weights are counted in *)
(* units of which MinorPool make up the 10% pool.                          *)
(***************************************************************************)
EXTENDS Integers, FiniteSets

CONSTANTS
  Hotkeys,     \* the miners' hotkeys
  NoHotkey,    \* stands for Python's None where a hotkey is expected
  Margin,      \* noise_floor_margin
  BenchCrown,  \* RALPH_BENCHMARK_CROWN = 1
  CostGate,    \* RALPH_COMPUTE_CROWN_GATE (on unless switched off)
  MinorPool    \* weight units in MEANINGFUL_FAILURE_POOL_FRACTION

ASSUME ScoringAssumption ==
  /\ IsFiniteSet(Hotkeys)
  /\ NoHotkey \notin Hotkeys
  /\ Margin \in Nat
  /\ BenchCrown \in BOOLEAN
  /\ CostGate \in BOOLEAN
  /\ MinorPool \in Nat \ {0}
  /\ MinorPool >= Cardinality(Hotkeys)  \* a share of the pool is never nothing

\* What the hidden evaluation and the calibration say of one submission.
Metrics == [bpb : Int, bench : Int, cost : Nat, finite : BOOLEAN]

----------------------------------------------------------------------------
\* score_bundle: the gate a challenger m has to pass against a bar.

\* Mutant: the operands of the gain swapped.
QualityGainSwapped(bar, m) == m.bpb - bar.bpb

QualityGain(bar, m) == bar.bpb - m.bpb

BenchmarkGain(bar, m) == m.bench - bar.bench

\* The benchmark is neutralised in the crown unless BenchCrown is set.
CountedGain(bar, m) == IF BenchCrown THEN BenchmarkGain(bar, m) ELSE 0

\* Branch A: three noise floors of quality, no benchmark regression.
DominantQuality(bar, m) ==
  /\ QualityGain(bar, m) >= 3 * Margin
  /\ CountedGain(bar, m) >= -Margin

\* Branch B: quality past the noise floor, no benchmark regression.
QualityWin(bar, m) ==
  /\ QualityGain(bar, m) > Margin
  /\ CountedGain(bar, m) >= -Margin

\* Branch C: benchmark past the noise floor, no quality regression.
BenchmarkWin(bar, m) ==
  /\ BenchCrown
  /\ BenchmarkGain(bar, m) > Margin
  /\ QualityGain(bar, m) >= -Margin

NetScore(bar, m) == QualityGain(bar, m) + CountedGain(bar, m) - m.cost

DecisivelyBeats(bar, m) ==
  /\ m.finite
  /\ \/ DominantQuality(bar, m)
     \/ QualityWin(bar, m)
     \/ BenchmarkWin(bar, m)
  /\ CostGate => NetScore(bar, m) > 0

----------------------------------------------------------------------------
\* _classify_outcome, for a submission that passed the cheap operations.

Classifications == {"king_change", "meaningful_failure", "plain_failure"}

\* Within twice the noise band of the sitting king, whichever side.
NearMiss(king, m) == m.bpb - king.bpb <= 2 * Margin

\* kings is {} or {the sitting king's metrics}; informative says that the
\* diff is non-trivial and the rationale coherent.
Classify(decisively, kings, m, informative) ==
  CASE decisively -> "king_change"
    [] ~decisively /\ informative /\ (\E k \in kings : NearMiss(k, m)) -> "meaningful_failure"
    [] OTHER -> "plain_failure"

----------------------------------------------------------------------------
\* Weights, 0 where the dictionary has no entry.

KingPool == 9 * MinorPool
FullPool == 10 * MinorPool

WeightMaps == [Hotkeys -> 0 .. FullPool]
NoWeights == [h \in Hotkeys |-> 0]

Larger(a, b) == IF a >= b THEN a ELSE b

\* The equal share of the 10% pool.
MinorShare(failures) == MinorPool \div Cardinality(failures)

\* _apply_pool_split: 90/10 when there are meaningful failures, else 100%.
PoolSplit(king, failures) ==
  IF failures = {}
  THEN [h \in Hotkeys |-> IF h = king THEN FullPool ELSE 0]
  ELSE [h \in Hotkeys |->
          Larger(IF h = king THEN KingPool ELSE 0,
                 IF h \in failures THEN MinorShare(failures) ELSE 0)]

\* Mutant: recovered weights are added, whoever the king is.
MergeSummed(weights, recovered, king) == [h \in Hotkeys |-> weights[h] + recovered[h]]

\* Mutant: every recovered weight is kept, a stale king's too.
MergeStaleKing(weights, recovered, king) ==
  [h \in Hotkeys |-> IF h = king THEN weights[h] ELSE Larger(weights[h], recovered[h])]

\* Mutant: nothing is recovered.
MergeNothing(weights, recovered, king) == weights

\* _merge_recovered_weights: a king-level weight is never resurrected, the
\* current king's weight never overridden, other credits kept by maximum.
MergeRecovered(weights, recovered, king) ==
  [h \in Hotkeys |->
     IF h = king \/ recovered[h] >= KingPool
     THEN weights[h]
     ELSE Larger(weights[h], recovered[h])]

\* The entries BittensorChain.set_weights keeps: registered, not blacklisted.
Payable(weights, blacklist, registered) ==
  [h \in Hotkeys |-> IF h \in registered \ blacklist THEN weights[h] ELSE 0]

============================================================================
