---------------------------- MODULE AuditReport ----------------------------
(***************************************************************************)
(* What a validator publishes of an epoch (validator/audit_report.py) and  *)
(* what an auditor makes of it: the replay of the weights from the         *)
(* published outcomes (auditor/replay.py) and its comparison with the      *)
(* published weights (auditor/diff.py).                                    *)
(*                                                                         *)
(* A hash stands for what it is taken of, and so does a signature: the     *)
(* canonical JSON of a report is the same bytes on both sides, since the   *)
(* auditor imports the validator's encoder.                                *)
(***************************************************************************)
EXTENDS Scoring, Sequences

\* json.loads gives the weights in the order of their hotkeys.
ASSUME HotkeysOrdered == Hotkeys \subseteq Nat

NoReport == [id |-> 0, submissions |-> <<>>, weights |-> NoWeights]

\* The part of a submission's entry the auditor reads; gate is the published
\* classification.
View(hotkey, decisive, first, gate) ==
  [hotkey |-> hotkey, decisive |-> decisive, first |-> first, gate |-> gate]

\* epoch_id is made of the block the epoch ended at.
BuildReport(endBlock, views, weights) ==
  [id |-> endBlock, submissions |-> views, weights |-> weights]

\* The signer is named when there is a signature; neither it nor commitBlock is
\* hashed or signed.  weights_set, which is not either, is read by no gate.
BuildEnvelope(report, signature, commitBlock) ==
  [report |-> report, sha |-> report, signature |-> signature,
   signer |-> IF signature # NoReport THEN "validator" ELSE "none", commitBlock |-> commitBlock]

NoEnvelope == BuildEnvelope(NoReport, NoReport, 0)

-----------------------------------------------------------------------------
\* Gate 1: the hash of the report, the root on chain and the signature, of
\* which the last two are skipped when there is none to compare with.

SelfConsistent(e) == e.sha = e.report

Signed(e) == e.signature # NoReport

\* Mutant: a report that is signed needs no root.
VerifySignedOrAnchored(e, root) ==
  /\ SelfConsistent(e)
  /\ root # NoReport => (Signed(e) \/ e.report = root)
  /\ Signed(e) => e.signature = e.report

\* The signature is the named signer's, whoever that is.
VerifyReport(e, root) ==
  /\ SelfConsistent(e)
  /\ root # NoReport => e.report = root
  /\ Signed(e) => e.signature = e.report

\* A signer or a signature that does not parse raises, and not an AssertionError.
VerifyRaises(e) == SelfConsistent(e) /\ Signed(e) /\ e.signer = "garbled"

-----------------------------------------------------------------------------
\* Gate 2: the weights once more, from the published outcomes.

\* The crown is recomputed, a meaningful failure is believed.
ClassifyFromReport(view) ==
  CASE view.decisive \/ view.first -> "king_change"
    [] ~(view.decisive \/ view.first) /\ view.gate = "meaningful_failure" -> "meaningful_failure"
    [] OTHER -> "plain_failure"

EntriesOf(report, outcome) ==
  {i \in DOMAIN report.submissions : ClassifyFromReport(report.submissions[i]) = outcome}

\* The last challenger that changed the king, if any did.
ReplayedCrown(report) ==
  LET crowns == EntriesOf(report, "king_change")
  IN  IF crowns = {} THEN NoHotkey
      ELSE report.submissions[CHOOSE i \in crowns : \A j \in crowns : j <= i].hotkey

ReplayedFailures(report) ==
  {report.submissions[i].hotkey : i \in EntriesOf(report, "meaningful_failure")}

\* Mutant: who got the least is taken for the king.
SmallestShare(weights) ==
  LET paid == {h \in Hotkeys : weights[h] > 0}
  IN  IF paid = {} THEN NoHotkey ELSE CHOOSE h \in paid : \A g \in paid : weights[h] <= weights[g]

\* _infer_sitting_king: the first of those with the largest published weight.
InferSittingKing(weights) ==
  LET most == {h \in Hotkeys : weights[h] > 0 /\ \A g \in Hotkeys : weights[g] <= weights[h]}
  IN  IF most = {} THEN NoHotkey ELSE CHOOSE h \in most : \A g \in most : h <= g

\* replay.py keeps a port of its own of the validator's split, the same formula to
\* the letter, and differs in the king it pays when none was crowned.
ReplayScoring(report) ==
  LET crown == ReplayedCrown(report)
  IN  PoolSplit(IF crown # NoHotkey THEN crown ELSE InferSittingKing(report.weights),
                ReplayedFailures(report))

\* Gate 3; a unit of weight is more than the tolerance.
CompareWeights(claimed, replayed) == {h \in Hotkeys : claimed[h] # replayed[h]}

=============================================================================
