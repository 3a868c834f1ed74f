--------------------------- MODULE ScoringProofs ---------------------------
(***************************************************************************)
(* Lemmas about the weights of an epoch, for whoever computes them: the    *)
(* validator and the auditor that replays them.                            *)
(***************************************************************************)
EXTENDS Scoring, FiniteSetTheorems, TLAPS

\* The shares of the 10% pool are whole units of it.
LEMMA MinorShareBounds ==
  ASSUME NEW failed \in SUBSET Hotkeys, failed # {}
  PROVE  MinorShare(failed) \in 0 .. MinorPool
<1>1. Cardinality(failed) \in Nat /\ Cardinality(failed) # 0
  BY FS_Subset, FS_CardinalityType, FS_EmptySet, ScoringAssumption
<1>2. \A m \in Nat, n \in Nat \ {0} : m \div n \in 0 .. m
  OBVIOUS
<1> QED BY <1>1, <1>2, ScoringAssumption DEF MinorShare

\* Nor is it ever nothing: the pool has a unit for every hotkey.
LEMMA MinorSharePositive ==
  ASSUME NEW failed \in SUBSET Hotkeys, failed # {}
  PROVE  MinorShare(failed) \in Nat /\ MinorShare(failed) > 0
<1>1. /\ IsFiniteSet(Hotkeys) /\ Cardinality(Hotkeys) \in Nat /\ MinorPool \in Nat
      /\ Cardinality(Hotkeys) <= MinorPool
  BY ScoringAssumption, FS_CardinalityType
<1>2. Cardinality(failed) \in Nat /\ Cardinality(failed) # 0 /\ Cardinality(failed) <= Cardinality(Hotkeys)
  BY <1>1, FS_Subset, FS_CardinalityType, FS_EmptySet
<1>3. \A m \in Nat, n \in Nat \ {0} : n <= m => m \div n \in Nat /\ m \div n > 0
  OBVIOUS
<1> QED BY <1>1, <1>2, <1>3 DEF MinorShare

\* An epoch's split is a weight map.
LEMMA PoolSplitType ==
  ASSUME NEW king, NEW failed \in SUBSET Hotkeys
  PROVE  PoolSplit(king, failed) \in WeightMaps
<1>1. CASE failed = {}
  BY <1>1, ScoringAssumption DEF PoolSplit, WeightMaps, FullPool
<1>2. CASE failed # {}
  <2>1. /\ MinorShare(failed) \in 0 .. FullPool
        /\ KingPool \in 0 .. FullPool
        /\ 0 \in 0 .. FullPool
    BY <1>2, MinorShareBounds, ScoringAssumption DEF FullPool, KingPool
  <2>2. \A a, b \in 0 .. FullPool : Larger(a, b) \in 0 .. FullPool
    BY DEF Larger
  <2>3. \A h \in Hotkeys :
          Larger(IF h = king THEN KingPool ELSE 0,
                 IF h \in failed THEN MinorShare(failed) ELSE 0) \in 0 .. FullPool
    BY <2>1, <2>2
  <2> QED BY <1>2, <2>3 DEF PoolSplit, WeightMaps
<1> QED BY <1>1, <1>2

\* Recovered credits leave a weight map a weight map.
LEMMA MergeRecoveredType ==
  ASSUME NEW king, NEW w \in WeightMaps, NEW r \in WeightMaps
  PROVE  MergeRecovered(w, r, king) \in WeightMaps
BY DEF MergeRecovered, WeightMaps, Larger

\* What set_weights keeps of a map of weights is a map of weights.
LEMMA PayableType ==
  ASSUME NEW w \in WeightMaps, NEW black, NEW reg
  PROVE  Payable(w, black, reg) \in WeightMaps
BY ScoringAssumption DEF Payable, WeightMaps, FullPool

\* The empty dictionary of weights is a map of weights.
LEMMA NoWeightsType == NoWeights \in WeightMaps
BY ScoringAssumption DEF NoWeights, WeightMaps, FullPool

\* No split, and no merge with recovered credits, gives a king's share to
\* anyone but the hotkey weighted as king.
LEMMA SharesBelowKing ==
  ASSUME NEW king, NEW failed \in SUBSET Hotkeys, NEW h \in Hotkeys, h # king
  PROVE  PoolSplit(king, failed)[h] < KingPool
<1>1. MinorPool \in Nat /\ MinorPool > 0
  BY ScoringAssumption
<1>2. CASE failed = {}
  BY <1>1, <1>2 DEF PoolSplit, KingPool
<1>3. CASE failed # {}
  <2>1. MinorShare(failed) \in 0 .. MinorPool
    BY <1>3, MinorShareBounds
  <2>2. PoolSplit(king, failed)[h] \in {0, MinorShare(failed)}
    BY <1>3, <2>1 DEF PoolSplit, Larger
  <2> QED BY <1>1, <2>1, <2>2 DEF KingPool
<1> QED BY <1>2, <1>3

\* _merge_recovered_weights brings nobody but the king to a king's share.
LEMMA MergedBelowKing ==
  ASSUME NEW king, NEW w \in WeightMaps, NEW r \in WeightMaps,
         NEW h \in Hotkeys, h # king, w[h] < KingPool
  PROVE  MergeRecovered(w, r, king)[h] < KingPool
<1>1. r[h] \in 0 .. FullPool /\ KingPool \in Nat
  BY ScoringAssumption DEF WeightMaps, KingPool
<1> QED BY <1>1 DEF MergeRecovered, Larger

=============================================================================
