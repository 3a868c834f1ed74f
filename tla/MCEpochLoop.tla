---------------------------- MODULE MCEpochLoop ----------------------------
(***************************************************************************)
(* Small instances of EpochLoop for TLC.                                   *)
(***************************************************************************)
EXTENDS EpochProperties

CONSTANTS h1, h2

Measured(bpb, bench, cost) == [bpb |-> bpb, bench |-> bench, cost |-> cost, finite |-> TRUE]

\* 1 is a first king, 2 a near miss of it, 3 beats it decisively, 4 beats 1 but
\* is only a near miss of 3.
MCMetric ==
  [b \in Bundles |->
     <<Measured(20, 5, 0), Measured(21, 5, 0), Measured(16, 5, 1), Measured(17, 5, 1)>>[b]]

\* With the benchmark counted: 3 beats 1 by accuracy, worse by a noise floor on
\* quality.
MCBenchMetric ==
  [b \in Bundles |-> <<Measured(20, 5, 0), Measured(22, 5, 0), Measured(21, 9, 1)>>[b]]

MCOwner == [b \in Bundles |-> <<h1, h2, h2, h1>>[b]]

\* The first king's miner also hands in the near miss.
MCSameOwner == [b \in Bundles |-> <<h1, h1, h2>>[b]]

============================================================================
