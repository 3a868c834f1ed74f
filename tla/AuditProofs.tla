----------------------------- MODULE AuditProofs -----------------------------
(***************************************************************************)
(* Theorems about AuditTrail, for every set of hotkeys and any number of   *)
(* blocks, epochs, submissions, failures and crashes: what is listed is    *)
(* served and anchored, an alteration is never clean, the auditor skips    *)
(* none, and what it cannot replay has a reason.                           *)
(***************************************************************************)
EXTENDS AuditProperties, ScoringProofs, Positions, SequenceTheorems

-----------------------------------------------------------------------------
\* The invariants.

HotkeyOrNone == Hotkeys \union {NoHotkey}
Views == [hotkey : HotkeyOrNone, decisive : BOOLEAN, first : BOOLEAN, gate : Classifications]
Reports == [id : Nat, submissions : Seq(Views), weights : WeightMaps]
Signers == {"validator", "stranger", "garbled", "none"}
Envelopes ==
  [report : Reports, sha : Reports, signature : Reports, signer : Signers, commitBlock : Nat]
Roots == [block : Epochs, report : Reports]

\* The steps of an epoch that work on its envelope, and those after its root.
ServingSteps == {"commit", "read", "write", "index", "upload", "publish"}
Dated == {"write", "index", "upload", "publish"}
ScoringSteps == {"score", "emit", "report"}

ValidatorTypeOK ==
  /\ king \in HotkeyOrNone /\ crowned \in HotkeyOrNone
  /\ pending \in WeightMaps /\ recovered \in WeightMaps /\ round \in WeightMaps
  /\ views \in Seq(Views) /\ failures \in SUBSET Hotkeys
  /\ pc \in {"idle"} \union ScoringSteps \union ServingSteps
  /\ envelope \in Envelopes
  /\ filed \subseteq Epochs

WorldTypeOK ==
  /\ block \in Epochs
  /\ roots \in Seq(Roots)
  /\ hub \in [Epochs -> Envelopes] /\ hubIndex \subseteq Epochs /\ changed \subseteq Epochs
  /\ built \in [Epochs -> Reports]
  /\ DOMAIN silent = Epochs

AuditorTypeOK ==
  /\ step \in {"idle", "audit", "mark", "note"}
  /\ todo \subseteq Epochs
  /\ watermark \in Nat /\ cleanEpoch \in Nat /\ at \in Nat
  /\ DOMAIN found = Epochs
  /\ crashes \in Nat

AuditTypeOK == ValidatorTypeOK /\ WorldTypeOK /\ AuditorTypeOK

\* Between epochs, and once the report is made, nothing of the scoring is left.
Blank == views = <<>> /\ failures = {} /\ crowned = NoHotkey /\ why = {}

StageInv ==
  /\ pc \notin ScoringSteps => Blank
  /\ pc = "report" => views # <<>>
  /\ pc \in ServingSteps => This \in Epochs /\ This <= block /\ envelope.report = built[This]

\* An epoch of before: the one under way ends at a later block.
Past(e) ==
  /\ e <= block
  /\ views # <<>> => e < block
  /\ pc \in ServingSteps => e < This

PastInv ==
  /\ \A e \in hubIndex \union todo \union {at, watermark} : Past(e)
  /\ \A e \in Epochs :
       /\ found[e] # "none" => Past(e)
       /\ hub[e] # NoEnvelope => Past(e) \/ (pc = "publish" /\ e = This)

\* The report is written, uploaded and listed in this order.
ServedInv ==
  /\ \A e \in Epochs : hub[e] # NoEnvelope => hub[e].report.id = e
  /\ pc \in {"index", "upload", "publish"} => This \in filed
  /\ pc = "publish" => hub[This] # NoEnvelope
  /\ crashes = 0 => torn = FALSE /\ (pc \in {"upload", "publish"} => This \in localIndex)
  /\ IndexedIsServed

\* What a pass has left to do is newer than all it has done, and what it does not
\* know of is newer still.
PassInv ==
  /\ \A e \in todo : watermark < e
  /\ step = "mark" => watermark < at
  /\ step = "note" => watermark = at
  /\ step \in {"mark", "note"} =>
       /\ \A e \in todo : at < e
       /\ \A e \in hubIndex : found[e] = "none" => at < e
  /\ step # "idle" =>
       \A e \in hubIndex : found[e] = "none" => e \in todo \/ \A d \in todo : d < e
  /\ NoneSkipped /\ CleanEpochCurrent

\* The roots are in blocks of their own, later than the epochs they are of.
RootsInv ==
  /\ \A i \in DOMAIN roots :
       /\ roots[i].report.id \in Epochs /\ roots[i].report.id < roots[i].block
       /\ roots[i].block <= block
       /\ roots[i].report = built[roots[i].report.id]
  /\ \A i, j \in DOMAIN roots : i < j => roots[i].block < roots[j].block

\* The root of an envelope stood at the block it names, and no later one did.
AnchoredIn(chain, b, e) ==
  /\ e.commitBlock <= b
  /\ \E i \in DOMAIN chain :
       /\ chain[i].report = e.report /\ chain[i].block <= e.commitBlock
       /\ \A j \in DOMAIN chain : i < j => e.commitBlock < chain[j].block

Anchored(e) == AnchoredIn(roots, block, e)

Unflawed(e) == silent[e] \intersect {"refused", "undated"} = {}

AnchorInv ==
  /\ pc = "read" =>
       \/ "refused" \in silent[This]
       \/ roots # <<>> /\ roots[Len(roots)].report = envelope.report
  /\ pc \in Dated /\ Unflawed(This) => Anchored(envelope)
  /\ \A e \in Epochs :
       hub[e] # NoEnvelope /\ e \notin changed =>
         /\ hub[e].report = built[e]
         /\ Unflawed(e) => Anchored(hub[e])

Reasons == {"deferred", "recovered", "withheld"}
Told(reasons) == reasons \intersect Reasons = {}

\* Where the outcomes of a list of submissions are.
Crowning(list) == {i \in DOMAIN list : ClassifyFromReport(list[i]) = "king_change"}
Failing(list) == {i \in DOMAIN list : ClassifyFromReport(list[i]) = "meaningful_failure"}

\* The views scored so far replay to the crown and the failures of this epoch.
CrownTold ==
  IF crowned = NoHotkey THEN Crowning(views) = {}
  ELSE \E i \in Crowning(views) :
         views[i].hotkey = crowned /\ \A j \in Crowning(views) : j <= i

FailuresTold == {views[i].hotkey : i \in Failing(views)} = failures

Replays(report) == CompareWeights(report.weights, ReplayScoring(report)) = {}

\* The scoring under way, and the weights when they owe nothing to anything else.
TellInv ==
  /\ king = NoHotkey => failures = {}
  /\ FailuresTold /\ ("deferred" \notin why => CrownTold)
  /\ pc \in {"emit", "report"} /\ Told(why) => round = PoolSplit(PaidKing, failures)

\* The reports that leave nothing untold.
ReplayInv ==
  /\ \A e \in Epochs : Told(silent[e]) => Replays(built[e])
  /\ DivergenceExplained

AuditInv ==
  /\ AuditTypeOK /\ StageInv /\ PastInv /\ ServedInv /\ PassInv
  /\ RootsInv /\ AnchorInv /\ TellInv /\ ReplayInv

-----------------------------------------------------------------------------
\* Envelopes.

\* The two ways the auditor leaves an epoch behind: audited, or not fetched.
Looked(e, verdict) ==
  /\ step = "audit" /\ NextOf(e) /\ Find(e, verdict)
  /\ verdict \in {"clean", "unanchored", "bad", "diverges", "network"}
  /\ verdict = "clean" =>
       AnchoredRoot(hub[e]) # NoReport /\ hub[e].report = AnchoredRoot(hub[e])
  /\ verdict = "diverges" => ~Replays(hub[e].report)

\* Every audit leaves its epoch behind in one of them.
LEMMA AuditsLook ==
  AuditEpoch \/ FetchFails => \E e \in Epochs : \E verdict : Looked(e, verdict)
<1>1. CASE FetchFails
  BY <1>1 DEF FetchFails, Looked
<1>2. CASE AuditEpoch
  <2>1. PICK e \in Epochs :
          /\ step = "audit" /\ NextOf(e)
          /\ \E root \in {AnchoredRoot(hub[e]), NoReport} : Find(e, Gates(hub[e], root))
    BY <1>2 DEF AuditEpoch
  <2>2. PICK root \in {AnchoredRoot(hub[e]), NoReport} : Find(e, Gates(hub[e], root))
    BY <2>1
  <2>3. Looked(e, Gates(hub[e], root))
    BY <2>1, <2>2 DEF Looked, Gates, VerifyReport, Replays
  <2> QED BY <2>3
<1> QED BY <1>1, <1>2

\* Dating an envelope changes nothing else of it.
LEMMA DatedEnvelope ==
  ASSUME NEW e \in Envelopes, NEW n \in Nat
  PROVE  LET f == [e EXCEPT !.commitBlock = n]
         IN  f \in Envelopes /\ f.report = e.report /\ f.commitBlock = n
BY DEF Envelopes

\* Whatever is done to a published report, it is still of its epoch.
LEMMA FalsifiedEnvelope ==
  ASSUME NEW e \in Envelopes, NEW f \in Falsified(e)
  PROVE  f \in Envelopes /\ f.report.id = e.report.id
<1> DEFINE other == [e.report EXCEPT !.weights = NoWeights]
<1>1. e.report \in Reports
  BY DEF Envelopes
<1>2. other \in Reports /\ other.id = e.report.id
  BY <1>1, NoWeightsType DEF Reports
<1>3. NoReport \in Reports
  BY NoWeightsType, EmptySeq DEF NoReport, Reports
<1> HIDE DEF other
<1>4. /\ f \in {[e EXCEPT !.report = other], [e EXCEPT !.report = other, !.sha = other],
           [e EXCEPT !.report = other, !.sha = other, !.signature = other],
           [e EXCEPT !.report = other, !.sha = other, !.signature = NoReport],
           [e EXCEPT !.report = other, !.sha = other, !.signature = other, !.signer = "stranger"],
           [e EXCEPT !.signer = "garbled"]}
  BY DEF Falsified, other
<1> QED BY <1>2, <1>3, <1>4 DEF Envelopes, Signers

\* What is not listed is told from what is by its epoch.
LEMMA NoEnvelopeId ==
  /\ NoEnvelope \in Envelopes /\ NoReport \in Reports
  /\ NoEnvelope.report.id = 0 /\ NoReport.id = 0 /\ NoEnvelope.commitBlock = 0
<1>1. NoReport \in Reports
  BY NoWeightsType, EmptySeq DEF NoReport, Reports
<1> QED BY <1>1 DEF NoEnvelope, BuildEnvelope, NoReport, Envelopes, Signers

\* The report made of an epoch, in an envelope, signed or not.
LEMMA MadeEnvelope ==
  ASSUME AuditTypeOK, NEW n \in Nat, NEW signature \in Reports
  PROVE  LET report == BuildReport(n, views, round)
         IN  /\ report \in Reports /\ report.id = n
             /\ BuildEnvelope(report, signature, 0) \in Envelopes
             /\ BuildEnvelope(report, signature, 0).report = report
BY DEF AuditTypeOK, ValidatorTypeOK, BuildReport, BuildEnvelope, Reports, Envelopes, Signers

\* The weights computed for an epoch are a map of weights.
LEMMA RoundType ==
  ASSUME AuditTypeOK, NEW withheld
  PROVE  MergeRecovered(Split(withheld), recovered, PaidKing) \in WeightMaps
<1>1. Split(withheld) \in WeightMaps
  BY NoWeightsType, PoolSplitType DEF Split, AuditTypeOK, ValidatorTypeOK
<1> QED BY <1>1, MergeRecoveredType DEF AuditTypeOK, ValidatorTypeOK

-----------------------------------------------------------------------------
\* Types.

\* Initially everything is well-typed.
LEMMA AuditTypeInit == Init => AuditTypeOK
<1> SUFFICES ASSUME Init PROVE AuditTypeOK
  OBVIOUS
<1>1. ValidatorTypeOK
  BY NoWeightsType, NoEnvelopeId, EmptySeq, AuditTrailAssumption DEF Init, ValidatorTypeOK,
     HotkeyOrNone
<1>2. WorldTypeOK
  BY NoEnvelopeId, EmptySeq, AuditTrailAssumption DEF Init, WorldTypeOK, Epochs
<1>3. AuditorTypeOK
  BY DEF Init, AuditorTypeOK
<1> QED BY <1>1, <1>2, <1>3 DEF AuditTypeOK

\* A root that lands is in a block of its own.
LEMMA LandType ==
  ASSUME AuditTypeOK, StageInv, pc \in ServingSteps, Land \/ UNCHANGED <<block, roots>>
  PROVE  block' \in Epochs /\ roots' \in Seq(Roots)
<1>1. CASE UNCHANGED <<block, roots>>
  BY <1>1 DEF AuditTypeOK, WorldTypeOK
<1>2. CASE Land
  <2>1. block + 1 \in Epochs /\ block' = block + 1
    BY <1>2, AuditTrailAssumption DEF Land, AuditTypeOK, WorldTypeOK, Epochs
  <2>2. envelope.report \in Reports
    BY DEF AuditTypeOK, ValidatorTypeOK, Envelopes
  <2>3. [block |-> block', report |-> envelope.report] \in Roots
    BY <2>1, <2>2 DEF Roots
  <2> QED BY <1>2, <2>1, <2>3, AppendProperties DEF Land, AuditTypeOK, WorldTypeOK
<1> QED BY <1>1, <1>2

\* Every step keeps the types: one step of the proof per action.
LEMMA AuditTypeNext ==
  ASSUME AuditTypeOK, StageInv, ServedInv, [Next]_vars
  PROVE  AuditTypeOK'
<1>0. /\ LastBlock \in Nat \ {0} /\ block \in Nat
      /\ pc \in ServingSteps => This \in Epochs
      /\ \A e \in Epochs : e \in Nat
  BY AuditTrailAssumption DEF AuditTypeOK, WorldTypeOK, StageInv, Epochs
<1>00. /\ <<>> \in Seq(Views) /\ NoWeights \in WeightMaps /\ NoHotkey \in HotkeyOrNone
       /\ NoEnvelope \in Envelopes /\ NoReport \in Reports
  BY EmptySeq, NoWeightsType, NoEnvelopeId DEF HotkeyOrNone
<1> USE DEF AuditTypeOK, ValidatorTypeOK, WorldTypeOK, AuditorTypeOK, ScoringSteps, ServingSteps
<1>1. CASE BeginEpoch
  BY <1>0, <1>00, <1>1 DEF BeginEpoch, validatorDisk, published, decision, validatorMemory,
     auditorDisk, auditorMemory, auditor, truth, bounds
<1>2. ASSUME NEW h \in Hotkeys, ScoreCrown(h) PROVE AuditTypeOK'
  <2>1. views' \in Seq(Views) /\ block' \in Epochs
    BY <1>0, <1>2, AppendProperties DEF ScoreCrown, Score, View, IsFirst, Views,
       HotkeyOrNone, Classifications, Epochs
  <2> QED BY <1>2, <2>1 DEF ScoreCrown, Score, View, IsFirst, validatorDisk, published,
             decision, validatorMemory, auditorDisk, auditorMemory, auditor, truth, bounds,
             HotkeyOrNone
<1>3. ASSUME NEW h \in Hotkeys, ScoreDeferred(h) PROVE AuditTypeOK'
  <2>1. views' \in Seq(Views) /\ block' \in Epochs
    BY <1>0, <1>3, AppendProperties DEF ScoreDeferred, Score, View, Views, HotkeyOrNone,
       Classifications, Epochs
  <2> QED BY <1>3, <2>1 DEF ScoreDeferred, Score, View, validatorDisk, published, decision,
             validatorMemory, auditorDisk, auditorMemory, auditor, truth, bounds
<1>4. ASSUME NEW h \in Hotkeys, ScoreMeaningfulFailure(h) PROVE AuditTypeOK'
  <2>1. views' \in Seq(Views) /\ block' \in Epochs
    BY <1>0, <1>4, AppendProperties DEF ScoreMeaningfulFailure, Score, View, Views,
       HotkeyOrNone, Classifications, Epochs
  <2> QED BY <1>4, <2>1 DEF ScoreMeaningfulFailure, Score, View, validatorDisk, published,
             decision, validatorMemory, auditorDisk, auditorMemory, auditor, truth, bounds
<1>5. CASE ScorePlainFailure
  <2>1. views' \in Seq(Views) /\ block' \in Epochs
    BY <1>0, <1>5, AppendProperties DEF ScorePlainFailure, Score, View, Views, HotkeyOrNone,
       Classifications, Epochs
  <2> QED BY <1>5, <2>1 DEF ScorePlainFailure, Score, View, validatorDisk, published,
             decision, validatorMemory, auditorDisk, auditorMemory, auditor, truth, bounds
<1>6. CASE ComputeWeights
  <2>1. round' \in WeightMaps
    BY <1>6, RoundType DEF ComputeWeights
  <2> QED BY <1>6, <2>1 DEF ComputeWeights, validatorDisk, published, decision,
             validatorMemory, auditorDisk, auditorMemory, auditor, truth, bounds
<1>7. CASE SetWeights
  <2>1. pc' \in {"report", "idle"} /\ pending' \in WeightMaps
    BY <1>00, <1>7 DEF SetWeights
  <2>2. ValidatorTypeOK'
    BY <1>00, <1>7, <2>1 DEF SetWeights, Forget, validatorDisk, decision
  <2> QED BY <1>00, <1>7, <2>2 DEF SetWeights, Fault, NoFault, Forget, validatorDisk,
             published, decision, validatorMemory, auditorDisk, auditorMemory, auditor,
             truth, bounds
<1>8. CASE MakeReport
  <2> DEFINE report == BuildReport(block, views, round)
  <2>1. report \in Reports
    BY <1>0, <1>00, MadeEnvelope
  <2>2. envelope' \in Envelopes
    <3>1. BuildEnvelope(report, report, 0) \in Envelopes /\ BuildEnvelope(report, NoReport, 0) \in Envelopes
      BY <1>0, <1>00, <2>1, MadeEnvelope
    <3> QED BY <1>8, <3>1 DEF MakeReport
  <2>3. built' \in [Epochs -> Reports] /\ DOMAIN silent' = Epochs
    BY <1>8, <2>1 DEF MakeReport
  <2> HIDE DEF report
  <2>4. ValidatorTypeOK'
    BY <1>00, <1>8, <2>2 DEF MakeReport, Publishing, Forget
  <2> QED BY <1>8, <2>3, <2>4 DEF MakeReport, Publishing, published, auditor, auditorDisk,
             auditorMemory
<1>9. CASE NoEndBlock
  BY <1>0, <1>00, <1>9 DEF NoEndBlock, Publishing, Forget, Fault, validatorDisk, published,
     decision, validatorMemory, auditorDisk, auditorMemory, auditor, truth, bounds
<1>10. CASE CommitAuditRoot
  <2>1. block' \in Epochs /\ roots' \in Seq(Roots)
    BY <1>10, LandType DEF CommitAuditRoot, Serving, Publishing
  <2>2. DOMAIN silent' = Epochs
    BY <1>10 DEF CommitAuditRoot, Flaw
  <2> QED BY <1>10, <2>1, <2>2 DEF CommitAuditRoot, Serving, Publishing, decision, auditor,
             auditorDisk, auditorMemory
<1>11. CASE CommitFails
  <2>1. block' \in Epochs /\ roots' \in Seq(Roots)
    BY <1>11, LandType DEF CommitFails, Serving, Publishing
  <2> QED BY <1>00, <1>11, <2>1 DEF CommitFails, Serving, Publishing, truth, decision,
             auditor, auditorDisk, auditorMemory
<1>12. CASE ReadCommitBlock
  <2>1. envelope' \in Envelopes
    <3>1. envelope' = envelope \/ envelope' = [envelope EXCEPT !.commitBlock = block]
      BY <1>12 DEF ReadCommitBlock
    <3> QED BY <1>0, <3>1, DatedEnvelope
  <2>2. DOMAIN silent' = Epochs
    BY <1>12 DEF ReadCommitBlock, Flaw
  <2> QED BY <1>12, <2>1, <2>2
          DEF ReadCommitBlock, Filing, Serving, Publishing, published, decision, auditor, auditorDisk, auditorMemory
<1>13. CASE WriteReport
  BY <1>0, <1>00, <1>13 DEF WriteReport, Filing, Serving, Publishing, This, validatorDisk,
     published, decision, validatorMemory, auditorDisk, auditorMemory, auditor, truth,
     bounds
<1>14. CASE WriteIndex
  BY <1>0, <1>00, <1>14 DEF WriteIndex, Filing, Serving, Publishing, This, validatorDisk,
     published, decision, validatorMemory, auditorDisk, auditorMemory, auditor, truth,
     bounds
<1>15. CASE UploadReport
  BY <1>0, <1>00, <1>15 DEF UploadReport, Filing, Serving, Publishing, This, validatorDisk,
     published, decision, validatorMemory, auditorDisk, auditorMemory, auditor, truth,
     bounds
<1>16. CASE UploadFails
  <2>1. pc' = "idle" /\ envelope' = NoEnvelope
    BY <1>16 DEF UploadFails, EndEpoch, Filing, Serving, Publishing
  <2> QED BY <1>00, <1>16, <2>1 DEF UploadFails, EndEpoch, Filing, Serving, Publishing,
             Fault, validatorDisk, published, decision, validatorMemory, auditorDisk,
             auditorMemory, auditor, truth, bounds
<1>17. CASE UploadIndex
  <2>1. pc \in ServingSteps /\ hubIndex' \in {hubIndex \union {This}, {This}}
    BY <1>17 DEF UploadIndex, EndEpoch, Filing, Serving, Publishing
  <2>2. hubIndex' \subseteq Epochs
    BY <1>0, <2>1
  <2> QED BY <1>00, <1>17, <2>2
          DEF UploadIndex, EndEpoch, Filing, Serving, Publishing, truth, decision, auditor, auditorDisk, auditorMemory
<1>18. CASE BeginPass
  BY <1>0, <1>00, <1>18 DEF BeginPass, validatorDisk, published, decision, validatorMemory,
     auditorDisk, auditorMemory, auditor, truth, bounds
<1>19. ASSUME NEW e \in Epochs, NEW verdict, Looked(e, verdict) PROVE AuditTypeOK'
  BY <1>0, <1>00, <1>19 DEF Looked, Find, validatorDisk, published, decision,
     validatorMemory, auditorDisk, auditorMemory, auditor, truth, bounds
<1>20. CASE WriteWatermark
  BY <1>0, <1>00, <1>20 DEF WriteWatermark, validatorDisk, published, decision,
     validatorMemory, auditorDisk, auditorMemory, auditor, truth, bounds
<1>21. CASE WriteCleanEpoch
  BY <1>0, <1>00, <1>21 DEF WriteCleanEpoch, validatorDisk, published, decision,
     validatorMemory, auditorDisk, auditorMemory, auditor, truth, bounds
<1>22. CASE EndPass
  BY <1>0, <1>00, <1>22 DEF EndPass, validatorDisk, published, decision, validatorMemory,
     auditorDisk, auditorMemory, auditor, truth, bounds
<1>23. CASE ChangeReport
  <2>1. hub' \in [Epochs -> Envelopes] /\ changed' \subseteq Epochs
    <3>1. PICK e \in Epochs : /\ \E f \in Falsified(hub[e]) : hub' = [hub EXCEPT ![e] = f]
                             /\ changed' = changed \union {e}
      BY <1>23 DEF ChangeReport
    <3>2. PICK f \in Falsified(hub[e]) : hub' = [hub EXCEPT ![e] = f]
      BY <3>1
    <3>3. f \in Envelopes
      BY <3>2, FalsifiedEnvelope
    <3> QED BY <3>1, <3>2, <3>3
  <2> QED BY <1>23, <2>1
          DEF ChangeReport, validatorDisk, validatorMemory, decision, truth, auditor, auditorDisk, auditorMemory
<1>24. CASE CrashValidator
  <2>1. ValidatorTypeOK'
    BY <1>00, <1>24 DEF CrashValidator, Forget
  <2> QED BY <1>24, <2>1 DEF CrashValidator, Dies, published, truth, auditor, auditorDisk,
             auditorMemory
<1>25. CASE CrashAuditor
  BY <1>0, <1>00, <1>25 DEF CrashAuditor, Dies, validatorDisk, published, decision,
     validatorMemory, auditorDisk, auditorMemory, auditor, truth, bounds
<1>26. CASE UNCHANGED vars
  BY <1>0, <1>00, <1>26 DEF vars, validatorDisk, published, decision, validatorMemory,
     auditorDisk, auditorMemory, auditor, truth, bounds
<1>27. CASE PassRaises
  BY <1>0, <1>00, <1>27 DEF PassRaises, validatorDisk, published, decision, validatorMemory,
     auditorDisk, auditorMemory, auditor, truth, bounds
<1> QED BY <1>1, <1>2, <1>3, <1>4, <1>5, <1>6, <1>7, <1>8, <1>9, <1>10, <1>11, <1>12, <1>13,
           <1>14, <1>15, <1>16, <1>17, <1>18, <1>19, <1>20, <1>21, <1>22, <1>23, <1>24,
           <1>25, <1>26, <1>27, AuditsLook
       DEF Next, ValidatorStep, ScoreStep, AuditorStep

-----------------------------------------------------------------------------
\* The stages of an epoch, and the epochs before it.

\* Initially no epoch is under way.
LEMMA StageInit == Init => StageInv
  BY DEF Init, StageInv, Blank, ScoringSteps, ServingSteps

\* The block read for an envelope is all that changes of it.
LEMMA DatedNext ==
  ASSUME AuditTypeOK, ReadCommitBlock
  PROVE  /\ envelope' \in Envelopes /\ envelope'.report = envelope.report
         /\ envelope'.commitBlock = block \/ envelope' = envelope
<1> DEFINE dated == [envelope EXCEPT !.commitBlock = block]
<1>1. envelope \in Envelopes /\ block \in Nat
  BY AuditTrailAssumption DEF AuditTypeOK, ValidatorTypeOK, WorldTypeOK, Epochs
<1>2. dated \in Envelopes /\ dated.report = envelope.report /\ dated.commitBlock = block
  BY <1>1, DatedEnvelope
<1>3. envelope' = envelope \/ envelope' = dated
  BY DEF ReadCommitBlock
<1> HIDE DEF dated
<1> QED BY <1>1, <1>2, <1>3

\* Every step of an epoch leaves what the next one needs.
LEMMA StageNext ==
  ASSUME AuditTypeOK, StageInv, [Next]_vars
  PROVE  StageInv'
<1>0. /\ LastBlock \in Nat /\ block \in Nat /\ block \in Epochs
      /\ \A e \in Epochs : e \in Nat
      /\ DOMAIN built = Epochs /\ envelope \in Envelopes /\ views \in Seq(Views)
      /\ pc \in {"idle"} \union ScoringSteps \union ServingSteps
  BY AuditTrailAssumption DEF AuditTypeOK, WorldTypeOK, ValidatorTypeOK, Epochs
<1> USE DEF StageInv, Blank, This, ScoringSteps, ServingSteps
<1>1. CASE BeginEpoch
  BY <1>0, <1>1 DEF BeginEpoch, validatorDisk, published, decision, validatorMemory,
     auditorDisk, auditorMemory, auditor, truth, bounds
<1>2. ASSUME NEW h \in Hotkeys, ScoreCrown(h) PROVE StageInv'
  BY <1>0, <1>2 DEF ScoreCrown, Score, View, IsFirst, validatorDisk, published, decision,
     validatorMemory, auditorDisk, auditorMemory, auditor, truth, bounds
<1>3. ASSUME NEW h \in Hotkeys, ScoreDeferred(h) PROVE StageInv'
  BY <1>0, <1>3 DEF ScoreDeferred, Score, View, validatorDisk, published, decision,
     validatorMemory, auditorDisk, auditorMemory, auditor, truth, bounds
<1>4. ASSUME NEW h \in Hotkeys, ScoreMeaningfulFailure(h) PROVE StageInv'
  BY <1>0, <1>4 DEF ScoreMeaningfulFailure, Score, View, validatorDisk, published, decision,
     validatorMemory, auditorDisk, auditorMemory, auditor, truth, bounds
<1>5. CASE ScorePlainFailure
  BY <1>0, <1>5 DEF ScorePlainFailure, Score, View, validatorDisk, published, decision,
     validatorMemory, auditorDisk, auditorMemory, auditor, truth, bounds
<1>6. CASE ComputeWeights
  BY <1>0, <1>6 DEF ComputeWeights, validatorDisk, published, decision, validatorMemory,
     auditorDisk, auditorMemory, auditor, truth, bounds
<1>7. CASE SetWeights
  BY <1>0, <1>7 DEF SetWeights, Fault, NoFault, Forget, validatorDisk, published, decision,
     validatorMemory, auditorDisk, auditorMemory, auditor, truth, bounds
<1>8. CASE MakeReport
  <2> DEFINE report == BuildReport(block, views, round)
  <2>1. report.id = block
    BY DEF BuildReport
  <2>2. envelope'.report = report /\ built' = [built EXCEPT ![block] = report] /\ block' = block
    BY <1>8 DEF MakeReport, BuildEnvelope
  <2>3. Blank' /\ pc' = "commit"
    BY <1>8 DEF MakeReport, Publishing, Forget
  <2> HIDE DEF report
  <2> QED BY <1>0, <2>1, <2>2, <2>3
<1>9. CASE NoEndBlock
  BY <1>0, <1>9 DEF NoEndBlock, Publishing, Forget, Fault, validatorDisk, published,
     decision, validatorMemory, auditorDisk, auditorMemory, auditor, truth, bounds
<1>10. CASE CommitAuditRoot
  <2>1. block' \in {block, block + 1}
    BY <1>10 DEF CommitAuditRoot, Land
  <2>2. /\ pc = "commit" /\ pc' = "read"
        /\ UNCHANGED <<views, failures, crowned, why, envelope, built>>
    BY <1>10 DEF CommitAuditRoot, Serving, Publishing, decision
  <2>3. This <= block'
    BY <1>0, <2>1, <2>2
  <2> QED BY <2>2, <2>3
<1>11. CASE CommitFails
  BY <1>0, <1>11 DEF CommitFails, Serving, Publishing, Land, Fault, validatorDisk,
     published, decision, validatorMemory, auditorDisk, auditorMemory, auditor, truth,
     bounds
<1>12. CASE ReadCommitBlock
  <2>1. envelope'.report = envelope.report
    BY <1>12, DatedNext
  <2> QED BY <1>0, <1>12, <2>1 DEF ReadCommitBlock, Filing, Serving, Publishing, Flaw, This,
             Fault, NoFault, validatorDisk, published, decision, validatorMemory,
             auditorDisk, auditorMemory, auditor, truth, bounds
<1>13. CASE WriteReport
  BY <1>0, <1>13 DEF WriteReport, Filing, Serving, Publishing, This, validatorDisk,
     published, decision, validatorMemory, auditorDisk, auditorMemory, auditor, truth,
     bounds
<1>14. CASE WriteIndex
  BY <1>0, <1>14 DEF WriteIndex, Filing, Serving, Publishing, This, validatorDisk,
     published, decision, validatorMemory, auditorDisk, auditorMemory, auditor, truth,
     bounds
<1>15. CASE UploadReport
  BY <1>0, <1>15 DEF UploadReport, Filing, Serving, Publishing, This, validatorDisk,
     published, decision, validatorMemory, auditorDisk, auditorMemory, auditor, truth,
     bounds
<1>16. CASE UploadFails
  BY <1>0, <1>16 DEF UploadFails, EndEpoch, Filing, Serving, Publishing, Fault,
     validatorDisk, published, decision, validatorMemory, auditorDisk, auditorMemory,
     auditor, truth, bounds
<1>17. CASE UploadIndex
  BY <1>0, <1>17 DEF UploadIndex, EndEpoch, Filing, Serving, Publishing, This, Fault,
     NoFault, validatorDisk, published, decision, validatorMemory, auditorDisk,
     auditorMemory, auditor, truth, bounds
<1>18. CASE BeginPass
  BY <1>0, <1>18 DEF BeginPass, validatorDisk, published, decision, validatorMemory,
     auditorDisk, auditorMemory, auditor, truth, bounds
<1>19. ASSUME NEW e \in Epochs, NEW verdict, Looked(e, verdict) PROVE StageInv'
  BY <1>0, <1>19 DEF Looked, Find, validatorDisk, published, decision, validatorMemory,
     auditorDisk, auditorMemory, auditor, truth, bounds
<1>20. CASE WriteWatermark
  BY <1>0, <1>20 DEF WriteWatermark, validatorDisk, published, decision, validatorMemory,
     auditorDisk, auditorMemory, auditor, truth, bounds
<1>21. CASE WriteCleanEpoch
  BY <1>0, <1>21 DEF WriteCleanEpoch, validatorDisk, published, decision, validatorMemory,
     auditorDisk, auditorMemory, auditor, truth, bounds
<1>22. CASE EndPass
  BY <1>0, <1>22 DEF EndPass, validatorDisk, published, decision, validatorMemory,
     auditorDisk, auditorMemory, auditor, truth, bounds
<1>23. CASE ChangeReport
  BY <1>0, <1>23 DEF ChangeReport, Troubles, validatorDisk, published, decision,
     validatorMemory, auditorDisk, auditorMemory, auditor, truth, bounds
<1>24. CASE CrashValidator
  BY <1>0, <1>24 DEF CrashValidator, Dies, Forget, validatorDisk, published, decision,
     validatorMemory, auditorDisk, auditorMemory, auditor, truth, bounds
<1>25. CASE CrashAuditor
  BY <1>0, <1>25 DEF CrashAuditor, Dies, validatorDisk, published, decision,
     validatorMemory, auditorDisk, auditorMemory, auditor, truth, bounds
<1>26. CASE UNCHANGED vars
  BY <1>0, <1>26 DEF vars, validatorDisk, published, decision, validatorMemory, auditorDisk,
     auditorMemory, auditor, truth, bounds
<1>27. CASE PassRaises
  BY <1>0, <1>27 DEF PassRaises, validatorDisk, published, decision, validatorMemory,
     auditorDisk, auditorMemory, auditor, truth, bounds
<1> QED BY <1>1, <1>2, <1>3, <1>4, <1>5, <1>6, <1>7, <1>8, <1>9, <1>10, <1>11, <1>12, <1>13,
           <1>14, <1>15, <1>16, <1>17, <1>18, <1>19, <1>20, <1>21, <1>22, <1>23, <1>24,
           <1>25, <1>26, <1>27, AuditsLook
       DEF Next, ValidatorStep, ScoreStep, AuditorStep

\* An epoch of before stays one, and the one under way becomes one when it ends.
LEMMA PastStays ==
  ASSUME AuditTypeOK, StageInv, [Next]_vars
  PROVE  /\ \A e \in Nat : Past(e) => Past(e)'
         /\ pc \in ServingSteps /\ pc' \notin ServingSteps => This <= block' /\ views' = <<>>
<1>0. /\ block \in Nat /\ views \in Seq(Views)
      /\ pc \in ServingSteps => This \in Nat /\ This <= block /\ views = <<>>
      /\ pc = "report" => views # <<>>
  BY AuditTrailAssumption
     DEF AuditTypeOK, WorldTypeOK, ValidatorTypeOK, StageInv, Blank, Epochs, ScoringSteps, ServingSteps
<1> DEFINE Goal == /\ \A e \in Nat : Past(e) => Past(e)'
                   /\ pc \in ServingSteps /\ pc' \notin ServingSteps => This <= block' /\ views' = <<>>
<1> USE DEF Past, This, ScoringSteps, ServingSteps
<1>1. CASE BeginEpoch
  BY <1>0, <1>1 DEF BeginEpoch, validatorDisk, published, decision, validatorMemory,
     auditorDisk, auditorMemory, auditor, truth, bounds
<1>2. ASSUME NEW h \in Hotkeys, ScoreCrown(h) PROVE Goal
  BY <1>0, <1>2 DEF ScoreCrown, Score, View, IsFirst, validatorDisk, published, decision,
     validatorMemory, auditorDisk, auditorMemory, auditor, truth, bounds
<1>3. ASSUME NEW h \in Hotkeys, ScoreDeferred(h) PROVE Goal
  BY <1>0, <1>3 DEF ScoreDeferred, Score, View, validatorDisk, published, decision,
     validatorMemory, auditorDisk, auditorMemory, auditor, truth, bounds
<1>4. ASSUME NEW h \in Hotkeys, ScoreMeaningfulFailure(h) PROVE Goal
  BY <1>0, <1>4 DEF ScoreMeaningfulFailure, Score, View, validatorDisk, published, decision,
     validatorMemory, auditorDisk, auditorMemory, auditor, truth, bounds
<1>5. CASE ScorePlainFailure
  BY <1>0, <1>5 DEF ScorePlainFailure, Score, View, validatorDisk, published, decision,
     validatorMemory, auditorDisk, auditorMemory, auditor, truth, bounds
<1>6. CASE ComputeWeights
  BY <1>0, <1>6 DEF ComputeWeights, validatorDisk, published, decision, validatorMemory,
     auditorDisk, auditorMemory, auditor, truth, bounds
<1>7. CASE SetWeights
  BY <1>0, <1>7 DEF SetWeights, Fault, NoFault, Forget, validatorDisk, published, decision,
     validatorMemory, auditorDisk, auditorMemory, auditor, truth, bounds
<1>8. CASE MakeReport
  <2>1. envelope'.report.id = block /\ block' = block /\ pc' = "commit" /\ views' = <<>> /\ pc = "report"
    BY <1>8 DEF MakeReport, Publishing, Forget, BuildEnvelope, BuildReport
  <2> QED BY <1>0, <2>1
<1>9. CASE NoEndBlock
  BY <1>0, <1>9 DEF NoEndBlock, Publishing, Forget, Fault, validatorDisk, published,
     decision, validatorMemory, auditorDisk, auditorMemory, auditor, truth, bounds
<1>10. CASE CommitAuditRoot
  BY <1>0, <1>10 DEF CommitAuditRoot, Serving, Publishing, Land, Flaw, This, Fault, NoFault,
     validatorDisk, published, decision, validatorMemory, auditorDisk, auditorMemory,
     auditor, truth, bounds
<1>11. CASE CommitFails
  BY <1>0, <1>11 DEF CommitFails, Serving, Publishing, Land, Fault, validatorDisk,
     published, decision, validatorMemory, auditorDisk, auditorMemory, auditor, truth,
     bounds
<1>12. CASE ReadCommitBlock
  <2>1. envelope'.report = envelope.report
    BY <1>12, DatedNext
  <2> QED BY <1>0, <1>12, <2>1 DEF ReadCommitBlock, Filing, Serving, Publishing, Flaw, This,
             Fault, NoFault, validatorDisk, published, decision, validatorMemory,
             auditorDisk, auditorMemory, auditor, truth, bounds
<1>13. CASE WriteReport
  BY <1>0, <1>13 DEF WriteReport, Filing, Serving, Publishing, This, validatorDisk,
     published, decision, validatorMemory, auditorDisk, auditorMemory, auditor, truth,
     bounds
<1>14. CASE WriteIndex
  BY <1>0, <1>14 DEF WriteIndex, Filing, Serving, Publishing, This, validatorDisk,
     published, decision, validatorMemory, auditorDisk, auditorMemory, auditor, truth,
     bounds
<1>15. CASE UploadReport
  BY <1>0, <1>15 DEF UploadReport, Filing, Serving, Publishing, This, validatorDisk,
     published, decision, validatorMemory, auditorDisk, auditorMemory, auditor, truth,
     bounds
<1>16. CASE UploadFails
  BY <1>0, <1>16 DEF UploadFails, EndEpoch, Filing, Serving, Publishing, Fault,
     validatorDisk, published, decision, validatorMemory, auditorDisk, auditorMemory,
     auditor, truth, bounds
<1>17. CASE UploadIndex
  BY <1>0, <1>17 DEF UploadIndex, EndEpoch, Filing, Serving, Publishing, This, Fault,
     NoFault, validatorDisk, published, decision, validatorMemory, auditorDisk,
     auditorMemory, auditor, truth, bounds
<1>18. CASE BeginPass
  BY <1>0, <1>18 DEF BeginPass, validatorDisk, published, decision, validatorMemory,
     auditorDisk, auditorMemory, auditor, truth, bounds
<1>19. ASSUME NEW e \in Epochs, NEW verdict, Looked(e, verdict) PROVE Goal
  BY <1>0, <1>19 DEF Looked, Find, validatorDisk, published, decision, validatorMemory,
     auditorDisk, auditorMemory, auditor, truth, bounds
<1>20. CASE WriteWatermark
  BY <1>0, <1>20 DEF WriteWatermark, validatorDisk, published, decision, validatorMemory,
     auditorDisk, auditorMemory, auditor, truth, bounds
<1>21. CASE WriteCleanEpoch
  BY <1>0, <1>21 DEF WriteCleanEpoch, validatorDisk, published, decision, validatorMemory,
     auditorDisk, auditorMemory, auditor, truth, bounds
<1>22. CASE EndPass
  BY <1>0, <1>22 DEF EndPass, validatorDisk, published, decision, validatorMemory,
     auditorDisk, auditorMemory, auditor, truth, bounds
<1>23. CASE ChangeReport
  BY <1>0, <1>23 DEF ChangeReport, Troubles, validatorDisk, published, decision,
     validatorMemory, auditorDisk, auditorMemory, auditor, truth, bounds
<1>24. CASE CrashValidator
  BY <1>0, <1>24 DEF CrashValidator, Dies, Forget, validatorDisk, published, decision,
     validatorMemory, auditorDisk, auditorMemory, auditor, truth, bounds
<1>25. CASE CrashAuditor
  BY <1>0, <1>25 DEF CrashAuditor, Dies, validatorDisk, published, decision,
     validatorMemory, auditorDisk, auditorMemory, auditor, truth, bounds
<1>26. CASE UNCHANGED vars
  BY <1>0, <1>26 DEF vars, validatorDisk, published, decision, validatorMemory, auditorDisk,
     auditorMemory, auditor, truth, bounds
<1>27. CASE PassRaises
  BY <1>0, <1>27 DEF PassRaises, validatorDisk, published, decision, validatorMemory,
     auditorDisk, auditorMemory, auditor, truth, bounds
<1> QED BY <1>1, <1>2, <1>3, <1>4, <1>5, <1>6, <1>7, <1>8, <1>9, <1>10, <1>11, <1>12, <1>13,
           <1>14, <1>15, <1>16, <1>17, <1>18, <1>19, <1>20, <1>21, <1>22, <1>23, <1>24,
           <1>25, <1>26, <1>27, AuditsLook
       DEF Next, ValidatorStep, ScoreStep, AuditorStep

\* Initially nobody knows of any epoch.
LEMMA PastInit == Init => PastInv
<1> SUFFICES ASSUME Init PROVE PastInv
  OBVIOUS
<1> QED BY NoEnvelopeId DEF Init, PastInv, Past, ServingSteps, Epochs

\* What the Hub and the auditor know of are epochs of before: of the one under
\* way there is nothing but its report, once that is uploaded.
LEMMA PastNext ==
  ASSUME AuditTypeOK, StageInv, ServedInv, PastInv, [Next]_vars
  PROVE  PastInv'
<1>0. /\ \A e \in Nat : Past(e) => Past(e)'
      /\ \A e \in Nat : (pc \in ServingSteps /\ pc' \notin ServingSteps /\ e = This) => Past(e)'
  BY PastStays DEF Past
<1>00. /\ \A e \in Epochs : e \in Nat
       /\ hub \in [Epochs -> Envelopes] /\ DOMAIN found = Epochs
       /\ hubIndex \subseteq Epochs /\ todo \subseteq Epochs /\ at \in Nat /\ watermark \in Nat
       /\ pc \in ServingSteps => This \in Epochs
       /\ Past(0)
  BY AuditTrailAssumption
     DEF AuditTypeOK, WorldTypeOK, AuditorTypeOK, StageInv, Epochs, Past, Blank, ScoringSteps, ServingSteps
<1> USE DEF PastInv, ServingSteps
<1>1. CASE BeginEpoch
  BY <1>0, <1>00, <1>1 DEF BeginEpoch, validatorDisk, published, decision, validatorMemory,
     auditorDisk, auditorMemory, auditor, truth, bounds, This
<1>2. ASSUME NEW h \in Hotkeys, ScoreCrown(h) PROVE PastInv'
  BY <1>0, <1>00, <1>2 DEF ScoreCrown, Score, validatorDisk, published, decision,
     validatorMemory, auditorDisk, auditorMemory, auditor, truth, bounds, This
<1>3. ASSUME NEW h \in Hotkeys, ScoreDeferred(h) PROVE PastInv'
  BY <1>0, <1>00, <1>3 DEF ScoreDeferred, Score, validatorDisk, published, decision,
     validatorMemory, auditorDisk, auditorMemory, auditor, truth, bounds, This
<1>4. ASSUME NEW h \in Hotkeys, ScoreMeaningfulFailure(h) PROVE PastInv'
  BY <1>0, <1>00, <1>4 DEF ScoreMeaningfulFailure, Score, validatorDisk, published,
     decision, validatorMemory, auditorDisk, auditorMemory, auditor, truth, bounds, This
<1>5. CASE ScorePlainFailure
  BY <1>0, <1>00, <1>5 DEF ScorePlainFailure, Score, validatorDisk, published, decision,
     validatorMemory, auditorDisk, auditorMemory, auditor, truth, bounds, This
<1>6. CASE ComputeWeights
  BY <1>0, <1>00, <1>6 DEF ComputeWeights, validatorDisk, published, decision,
     validatorMemory, auditorDisk, auditorMemory, auditor, truth, bounds, This
<1>7. CASE SetWeights
  BY <1>0, <1>00, <1>7 DEF SetWeights, Forget, validatorDisk, published, decision,
     validatorMemory, auditorDisk, auditorMemory, auditor, truth, bounds, This
<1>8. CASE MakeReport
  <2>1. /\ pc = "report" /\ pc' = "commit" /\ UNCHANGED <<hub, hubIndex, found, todo, at, watermark>>
    BY <1>8 DEF MakeReport, Publishing, published, auditor, auditorDisk, auditorMemory
  <2> QED BY <1>0, <1>00, <2>1
<1>9. CASE NoEndBlock
  BY <1>0, <1>00, <1>9 DEF NoEndBlock, Publishing, Forget, validatorDisk, published,
     decision, validatorMemory, auditorDisk, auditorMemory, auditor, truth, bounds, This
<1>10. CASE CommitAuditRoot
  BY <1>0, <1>00, <1>10 DEF CommitAuditRoot, Serving, Publishing, Land, This, validatorDisk,
     published, decision, validatorMemory, auditorDisk, auditorMemory, auditor, truth,
     bounds, This
<1>11. CASE CommitFails
  BY <1>0, <1>00, <1>11 DEF CommitFails, Serving, Publishing, Land, validatorDisk,
     published, decision, validatorMemory, auditorDisk, auditorMemory, auditor, truth,
     bounds, This
<1>12. CASE ReadCommitBlock
  <2>1. /\ pc = "read" /\ pc' = "write" /\ UNCHANGED <<hub, hubIndex, found, todo, at, watermark>>
    BY <1>12 DEF ReadCommitBlock, Filing, Serving, Publishing, published, auditor,
       auditorDisk, auditorMemory
  <2> QED BY <1>0, <1>00, <2>1
<1>13. CASE WriteReport
  BY <1>0, <1>00, <1>13 DEF WriteReport, Filing, Serving, Publishing, This, validatorDisk,
     published, decision, validatorMemory, auditorDisk, auditorMemory, auditor, truth,
     bounds, This
<1>14. CASE WriteIndex
  BY <1>0, <1>00, <1>14 DEF WriteIndex, Filing, Serving, Publishing, This, validatorDisk,
     published, decision, validatorMemory, auditorDisk, auditorMemory, auditor, truth,
     bounds, This
<1>15. CASE UploadReport
  BY <1>0, <1>00, <1>15 DEF UploadReport, Filing, Serving, Publishing, This, validatorDisk,
     published, decision, validatorMemory, auditorDisk, auditorMemory, auditor, truth,
     bounds, This
<1>16. CASE UploadFails
  BY <1>0, <1>00, <1>16 DEF UploadFails, EndEpoch, Filing, Serving, Publishing,
     validatorDisk, published, decision, validatorMemory, auditorDisk, auditorMemory,
     auditor, truth, bounds, This
<1>17. CASE UploadIndex
  BY <1>0, <1>00, <1>17 DEF UploadIndex, EndEpoch, Filing, Serving, Publishing, This,
     validatorDisk, published, decision, validatorMemory, auditorDisk, auditorMemory,
     auditor, truth, bounds, This
<1>18. CASE BeginPass
  BY <1>0, <1>00, <1>18 DEF BeginPass, validatorDisk, published, decision, validatorMemory,
     auditorDisk, auditorMemory, auditor, truth, bounds, This
<1>19. ASSUME NEW e \in Epochs, NEW verdict, Looked(e, verdict) PROVE PastInv'
  <2>1. /\ e \in todo
        /\ found' = [found EXCEPT ![e] = verdict] /\ todo' \subseteq todo /\ at' \in {e, at}
        /\ UNCHANGED <<hub, hubIndex, watermark, pc, envelope>>
    BY <1>19 DEF Looked, NextOf, Find, published, auditorDisk, validatorMemory
  <2>2. Past(e)'
    BY <1>0, <1>00, <2>1
  <2>3. \A d \in Epochs : found'[d] # "none" => d = e \/ found[d] # "none"
    BY <1>00, <2>1
  <2> QED BY <1>0, <1>00, <2>1, <2>2, <2>3 DEF This
<1>20. CASE WriteWatermark
  BY <1>0, <1>00, <1>20 DEF WriteWatermark, validatorDisk, published, decision,
     validatorMemory, auditorDisk, auditorMemory, auditor, truth, bounds, This
<1>21. CASE WriteCleanEpoch
  BY <1>0, <1>00, <1>21 DEF WriteCleanEpoch, validatorDisk, published, decision,
     validatorMemory, auditorDisk, auditorMemory, auditor, truth, bounds, This
<1>22. CASE EndPass
  BY <1>0, <1>00, <1>22 DEF EndPass, validatorDisk, published, decision, validatorMemory,
     auditorDisk, auditorMemory, auditor, truth, bounds, This
<1>23. CASE ChangeReport
  <2>1. PICK d \in Epochs : hub[d] # NoEnvelope /\ \E f \in Falsified(hub[d]) : hub' = [hub EXCEPT ![d] = f]
    BY <1>23 DEF ChangeReport
  <2>2. \A e \in Epochs : hub'[e] # NoEnvelope => hub[e] # NoEnvelope
    BY <1>00, <2>1
  <2>3. UNCHANGED <<hubIndex, found, todo, at, watermark, pc, envelope>>
    BY <1>23 DEF ChangeReport, validatorMemory, auditor, auditorDisk, auditorMemory
  <2> QED BY <1>0, <1>00, <2>2, <2>3 DEF This
<1>24. CASE CrashValidator
  BY <1>0, <1>00, <1>24 DEF CrashValidator, Dies, Forget, validatorDisk, published,
     decision, validatorMemory, auditorDisk, auditorMemory, auditor, truth, bounds, This
<1>25. CASE CrashAuditor
  BY <1>0, <1>00, <1>25 DEF CrashAuditor, Dies, validatorDisk, published, decision,
     validatorMemory, auditorDisk, auditorMemory, auditor, truth, bounds, This
<1>26. CASE UNCHANGED vars
  BY <1>0, <1>00, <1>26 DEF vars, validatorDisk, published, decision, validatorMemory,
     auditorDisk, auditorMemory, auditor, truth, bounds, This
<1>27. CASE PassRaises
  BY <1>0, <1>00, <1>27 DEF PassRaises, validatorDisk, published, decision, validatorMemory,
     auditorDisk, auditorMemory, auditor, truth, bounds, This
<1> QED BY <1>1, <1>2, <1>3, <1>4, <1>5, <1>6, <1>7, <1>8, <1>9, <1>10, <1>11, <1>12, <1>13,
           <1>14, <1>15, <1>16, <1>17, <1>18, <1>19, <1>20, <1>21, <1>22, <1>23, <1>24,
           <1>25, <1>26, <1>27, AuditsLook
       DEF Next, ValidatorStep, ScoreStep, AuditorStep

-----------------------------------------------------------------------------
\* The Hub.

\* Initially nothing is on the Hub.
LEMMA ServedInit == Init => ServedInv
<1> SUFFICES ASSUME Init PROVE ServedInv
  OBVIOUS
<1> QED BY NoEnvelopeId DEF Init, ServedInv, IndexedIsServed

\* A report is on the disk and on the Hub before it is listed.
LEMMA ServedNext ==
  ASSUME AuditTypeOK, StageInv, ServedInv, [Next]_vars
  PROVE  ServedInv'
<1>0. /\ \A e \in Epochs : e \in Nat /\ e # 0
      /\ hub \in [Epochs -> Envelopes]
      /\ hubIndex \subseteq Epochs
      /\ pc \in ServingSteps => This \in Epochs
      /\ NoEnvelope.report.id = 0 /\ crashes \in Nat
  BY NoEnvelopeId, AuditTrailAssumption
     DEF AuditTypeOK, WorldTypeOK, AuditorTypeOK, StageInv, Epochs
<1> USE DEF ServedInv, IndexedIsServed, ServingSteps
<1>1. CASE BeginEpoch
  BY <1>0, <1>1 DEF BeginEpoch, validatorDisk, published, decision, validatorMemory,
     auditorDisk, auditorMemory, auditor, truth, bounds, This
<1>2. ASSUME NEW h \in Hotkeys, ScoreCrown(h) PROVE ServedInv'
  BY <1>0, <1>2 DEF ScoreCrown, Score, validatorDisk, published, decision, validatorMemory,
     auditorDisk, auditorMemory, auditor, truth, bounds, This
<1>3. ASSUME NEW h \in Hotkeys, ScoreDeferred(h) PROVE ServedInv'
  BY <1>0, <1>3 DEF ScoreDeferred, Score, validatorDisk, published, decision,
     validatorMemory, auditorDisk, auditorMemory, auditor, truth, bounds, This
<1>4. ASSUME NEW h \in Hotkeys, ScoreMeaningfulFailure(h) PROVE ServedInv'
  BY <1>0, <1>4 DEF ScoreMeaningfulFailure, Score, validatorDisk, published, decision,
     validatorMemory, auditorDisk, auditorMemory, auditor, truth, bounds, This
<1>5. CASE ScorePlainFailure
  BY <1>0, <1>5 DEF ScorePlainFailure, Score, validatorDisk, published, decision,
     validatorMemory, auditorDisk, auditorMemory, auditor, truth, bounds, This
<1>6. CASE ComputeWeights
  BY <1>0, <1>6 DEF ComputeWeights, validatorDisk, published, decision, validatorMemory,
     auditorDisk, auditorMemory, auditor, truth, bounds, This
<1>7. CASE SetWeights
  BY <1>0, <1>7 DEF SetWeights, Forget, validatorDisk, published, decision, validatorMemory,
     auditorDisk, auditorMemory, auditor, truth, bounds, This
<1>8. CASE MakeReport
  <2>1. /\ pc' = "commit" /\ UNCHANGED <<hub, hubIndex, filed, localIndex, torn, crashes>>
    BY <1>8 DEF MakeReport, Publishing, published
  <2> QED BY <1>0, <2>1
<1>9. CASE NoEndBlock
  BY <1>0, <1>9 DEF NoEndBlock, Publishing, Forget, validatorDisk, published, decision,
     validatorMemory, auditorDisk, auditorMemory, auditor, truth, bounds, This
<1>10. CASE CommitAuditRoot
  BY <1>0, <1>10 DEF CommitAuditRoot, Serving, Publishing, Land, This, validatorDisk,
     published, decision, validatorMemory, auditorDisk, auditorMemory, auditor, truth,
     bounds, This
<1>11. CASE CommitFails
  BY <1>0, <1>11 DEF CommitFails, Serving, Publishing, Land, validatorDisk, published,
     decision, validatorMemory, auditorDisk, auditorMemory, auditor, truth, bounds, This
<1>12. CASE ReadCommitBlock
  <2>1. /\ pc' = "write" /\ UNCHANGED <<hub, hubIndex, filed, localIndex, torn, crashes>>
    BY <1>12 DEF ReadCommitBlock, Filing, Serving, Publishing, published
  <2> QED BY <1>0, <2>1
<1>13. CASE WriteReport
  BY <1>0, <1>13 DEF WriteReport, Filing, Serving, Publishing, This, validatorDisk,
     published, decision, validatorMemory, auditorDisk, auditorMemory, auditor, truth,
     bounds, This
<1>14. CASE WriteIndex
  BY <1>0, <1>14 DEF WriteIndex, Filing, Serving, Publishing, This, validatorDisk,
     published, decision, validatorMemory, auditorDisk, auditorMemory, auditor, truth,
     bounds, This
<1>15. CASE UploadReport
  <2>1. /\ pc = "upload" /\ pc' = "publish" /\ hub' = [hub EXCEPT ![This] = envelope]
        /\ UNCHANGED <<hubIndex, filed, envelope, localIndex, torn, crashes>>
    BY <1>15 DEF UploadReport, Filing, Serving, Publishing, This, validatorDisk, published,
       decision, validatorMemory, auditorDisk, auditorMemory, auditor, truth, bounds, This
  <2>2. This \in Epochs /\ envelope # NoEnvelope
    BY <1>0, <2>1 DEF This
  <2> QED BY <1>0, <2>1, <2>2 DEF This
<1>16. CASE UploadFails
  BY <1>0, <1>16 DEF UploadFails, EndEpoch, Filing, Serving, Publishing, validatorDisk,
     published, decision, validatorMemory, auditorDisk, auditorMemory, auditor, truth,
     bounds, This
<1>17. CASE UploadIndex
  BY <1>0, <1>17 DEF UploadIndex, EndEpoch, Filing, Serving, Publishing, This,
     validatorDisk, published, decision, validatorMemory, auditorDisk, auditorMemory,
     auditor, truth, bounds, This
<1>18. CASE BeginPass
  BY <1>0, <1>18 DEF BeginPass, validatorDisk, published, decision, validatorMemory,
     auditorDisk, auditorMemory, auditor, truth, bounds, This
<1>19. ASSUME NEW e \in Epochs, NEW verdict, Looked(e, verdict) PROVE ServedInv'
  BY <1>0, <1>19 DEF Looked, Find, validatorDisk, published, decision, validatorMemory,
     auditorDisk, auditorMemory, auditor, truth, bounds, This
<1>20. CASE WriteWatermark
  BY <1>0, <1>20 DEF WriteWatermark, validatorDisk, published, decision, validatorMemory,
     auditorDisk, auditorMemory, auditor, truth, bounds, This
<1>21. CASE WriteCleanEpoch
  BY <1>0, <1>21 DEF WriteCleanEpoch, validatorDisk, published, decision, validatorMemory,
     auditorDisk, auditorMemory, auditor, truth, bounds, This
<1>22. CASE EndPass
  BY <1>0, <1>22 DEF EndPass, validatorDisk, published, decision, validatorMemory,
     auditorDisk, auditorMemory, auditor, truth, bounds, This
<1>23. CASE ChangeReport
  <2>1. PICK d \in Epochs : hub[d] # NoEnvelope /\ \E f \in Falsified(hub[d]) : hub' = [hub EXCEPT ![d] = f]
    BY <1>23 DEF ChangeReport
  <2>2. PICK f \in Falsified(hub[d]) : hub' = [hub EXCEPT ![d] = f]
    BY <2>1
  <2>3. f.report.id = d /\ f # NoEnvelope
    BY <1>0, <2>1, FalsifiedEnvelope
  <2>4. UNCHANGED <<hubIndex, filed, pc, envelope, localIndex, torn, crashes>>
    BY <1>23 DEF ChangeReport, validatorMemory, validatorDisk
  <2>5. \A e \in Epochs : /\ hub[e] # NoEnvelope => hub'[e] # NoEnvelope
                          /\ hub'[e] # NoEnvelope => hub'[e].report.id = e
    BY <1>0, <2>2, <2>3
  <2> QED BY <1>0, <2>4, <2>5 DEF This
<1>24. CASE CrashValidator
  BY <1>0, <1>24 DEF CrashValidator, Dies, Forget, validatorDisk, published, decision,
     validatorMemory, auditorDisk, auditorMemory, auditor, truth, bounds, This
<1>25. CASE CrashAuditor
  BY <1>0, <1>25 DEF CrashAuditor, Dies, validatorDisk, published, decision,
     validatorMemory, auditorDisk, auditorMemory, auditor, truth, bounds, This
<1>26. CASE UNCHANGED vars
  BY <1>0, <1>26 DEF vars, validatorDisk, published, decision, validatorMemory, auditorDisk,
     auditorMemory, auditor, truth, bounds, This
<1>27. CASE PassRaises
  BY <1>0, <1>27 DEF PassRaises, validatorDisk, published, decision, validatorMemory,
     auditorDisk, auditorMemory, auditor, truth, bounds, This
<1> QED BY <1>1, <1>2, <1>3, <1>4, <1>5, <1>6, <1>7, <1>8, <1>9, <1>10, <1>11, <1>12, <1>13,
           <1>14, <1>15, <1>16, <1>17, <1>18, <1>19, <1>20, <1>21, <1>22, <1>23, <1>24,
           <1>25, <1>26, <1>27, AuditsLook
       DEF Next, ValidatorStep, ScoreStep, AuditorStep

-----------------------------------------------------------------------------
\* The auditor's pass.

\* Initially the auditor has nothing to do.
LEMMA PassInit == Init => PassInv
  BY DEF Init, PassInv, NoneSkipped, CleanEpochCurrent

\* A pass goes up the epochs it found listed; what is listed meanwhile is newer.
LEMMA PassNext ==
  ASSUME AuditTypeOK, StageInv, PastInv, PassInv, [Next]_vars
  PROVE  PassInv'
<1>0. /\ \A e \in Epochs : e \in Nat
      /\ hubIndex \subseteq Epochs /\ todo \subseteq Epochs
      /\ at \in Nat /\ watermark \in Nat /\ cleanEpoch \in Nat /\ crashes \in Nat
      /\ DOMAIN found = Epochs
      /\ step \in {"idle", "audit", "mark", "note"}
      /\ pc = "publish" =>
           This \in Epochs /\ \A e \in todo \union {at, watermark} : e < This
  BY AuditTrailAssumption
     DEF AuditTypeOK, WorldTypeOK, AuditorTypeOK, StageInv, PastInv, Past, Epochs, ServingSteps
<1> USE DEF PassInv, NoneSkipped, CleanEpochCurrent
<1>1. CASE BeginEpoch
  BY <1>0, <1>1 DEF BeginEpoch, validatorDisk, published, decision, validatorMemory,
     auditorDisk, auditorMemory, auditor, truth, bounds, This
<1>2. ASSUME NEW h \in Hotkeys, ScoreCrown(h) PROVE PassInv'
  BY <1>0, <1>2 DEF ScoreCrown, Score, validatorDisk, published, decision, validatorMemory,
     auditorDisk, auditorMemory, auditor, truth, bounds, This
<1>3. ASSUME NEW h \in Hotkeys, ScoreDeferred(h) PROVE PassInv'
  BY <1>0, <1>3 DEF ScoreDeferred, Score, validatorDisk, published, decision,
     validatorMemory, auditorDisk, auditorMemory, auditor, truth, bounds, This
<1>4. ASSUME NEW h \in Hotkeys, ScoreMeaningfulFailure(h) PROVE PassInv'
  BY <1>0, <1>4 DEF ScoreMeaningfulFailure, Score, validatorDisk, published, decision,
     validatorMemory, auditorDisk, auditorMemory, auditor, truth, bounds, This
<1>5. CASE ScorePlainFailure
  BY <1>0, <1>5 DEF ScorePlainFailure, Score, validatorDisk, published, decision,
     validatorMemory, auditorDisk, auditorMemory, auditor, truth, bounds, This
<1>6. CASE ComputeWeights
  BY <1>0, <1>6 DEF ComputeWeights, validatorDisk, published, decision, validatorMemory,
     auditorDisk, auditorMemory, auditor, truth, bounds, This
<1>7. CASE SetWeights
  BY <1>0, <1>7 DEF SetWeights, Forget, validatorDisk, published, decision, validatorMemory,
     auditorDisk, auditorMemory, auditor, truth, bounds, This
<1>8. CASE MakeReport
  BY <1>0, <1>8 DEF MakeReport, Publishing, Forget, validatorDisk, published, decision,
     validatorMemory, auditorDisk, auditorMemory, auditor, truth, bounds, This
<1>9. CASE NoEndBlock
  BY <1>0, <1>9 DEF NoEndBlock, Publishing, Forget, validatorDisk, published, decision,
     validatorMemory, auditorDisk, auditorMemory, auditor, truth, bounds, This
<1>10. CASE CommitAuditRoot
  BY <1>0, <1>10 DEF CommitAuditRoot, Serving, Publishing, Land, This, validatorDisk,
     published, decision, validatorMemory, auditorDisk, auditorMemory, auditor, truth,
     bounds, This
<1>11. CASE CommitFails
  BY <1>0, <1>11 DEF CommitFails, Serving, Publishing, Land, validatorDisk, published,
     decision, validatorMemory, auditorDisk, auditorMemory, auditor, truth, bounds, This
<1>12. CASE ReadCommitBlock
  BY <1>0, <1>12 DEF ReadCommitBlock, Filing, Serving, Publishing, This, validatorDisk,
     published, decision, validatorMemory, auditorDisk, auditorMemory, auditor, truth,
     bounds, This
<1>13. CASE WriteReport
  BY <1>0, <1>13 DEF WriteReport, Filing, Serving, Publishing, This, validatorDisk,
     published, decision, validatorMemory, auditorDisk, auditorMemory, auditor, truth,
     bounds, This
<1>14. CASE WriteIndex
  BY <1>0, <1>14 DEF WriteIndex, Filing, Serving, Publishing, This, validatorDisk,
     published, decision, validatorMemory, auditorDisk, auditorMemory, auditor, truth,
     bounds, This
<1>15. CASE UploadReport
  BY <1>0, <1>15 DEF UploadReport, Filing, Serving, Publishing, This, validatorDisk,
     published, decision, validatorMemory, auditorDisk, auditorMemory, auditor, truth,
     bounds, This
<1>16. CASE UploadFails
  BY <1>0, <1>16 DEF UploadFails, EndEpoch, Filing, Serving, Publishing, validatorDisk,
     published, decision, validatorMemory, auditorDisk, auditorMemory, auditor, truth,
     bounds, This
<1>17. CASE UploadIndex
  BY <1>0, <1>17 DEF UploadIndex, EndEpoch, Filing, Serving, Publishing, This,
     validatorDisk, published, decision, validatorMemory, auditorDisk, auditorMemory,
     auditor, truth, bounds, This
<1>18. CASE BeginPass
  BY <1>0, <1>18 DEF BeginPass, validatorDisk, published, decision, validatorMemory,
     auditorDisk, auditorMemory, auditor, truth, bounds, This
<1>19. ASSUME NEW e \in Epochs, NEW verdict, Looked(e, verdict) PROVE PassInv'
  <2>1. /\ e \in todo /\ \A d \in todo : e <= d
        /\ step = "audit" /\ verdict # "none"
        /\ found' = [found EXCEPT ![e] = verdict] /\ todo' = todo \ {e}
        /\ (step' = "mark" /\ at' = e) \/ (step' = step /\ at' = at)
        /\ UNCHANGED <<hubIndex, watermark, cleanEpoch, crashes>>
    BY <1>19 DEF Looked, NextOf, Find, published, auditorDisk
  <2>2. \A d \in todo' : e < d /\ d \in todo
    BY <1>0, <2>1
  <2>3. \A d \in hubIndex : found'[d] = "none" => d # e /\ found[d] = "none"
    BY <1>0, <2>1
  <2>4. \A d \in hubIndex : found'[d] = "none" => e < d
    BY <1>0, <2>1, <2>3
  <2>5. NoneSkipped' /\ CleanEpochCurrent'
    BY <1>0, <2>1, <2>3
  <2> QED BY <1>0, <2>1, <2>2, <2>3, <2>4, <2>5
<1>20. CASE WriteWatermark
  BY <1>0, <1>20 DEF WriteWatermark, validatorDisk, published, decision, validatorMemory,
     auditorDisk, auditorMemory, auditor, truth, bounds, This
<1>21. CASE WriteCleanEpoch
  BY <1>0, <1>21 DEF WriteCleanEpoch, validatorDisk, published, decision, validatorMemory,
     auditorDisk, auditorMemory, auditor, truth, bounds, This
<1>22. CASE EndPass
  BY <1>0, <1>22 DEF EndPass, validatorDisk, published, decision, validatorMemory,
     auditorDisk, auditorMemory, auditor, truth, bounds, This
<1>23. CASE ChangeReport
  BY <1>0, <1>23 DEF ChangeReport, validatorDisk, published, decision, validatorMemory,
     auditorDisk, auditorMemory, auditor, truth, bounds, This
<1>24. CASE CrashValidator
  BY <1>0, <1>24 DEF CrashValidator, Dies, Forget, validatorDisk, published, decision,
     validatorMemory, auditorDisk, auditorMemory, auditor, truth, bounds, This
<1>25. CASE CrashAuditor
  BY <1>0, <1>25 DEF CrashAuditor, Dies, validatorDisk, published, decision,
     validatorMemory, auditorDisk, auditorMemory, auditor, truth, bounds, This
<1>26. CASE UNCHANGED vars
  BY <1>0, <1>26 DEF vars, validatorDisk, published, decision, validatorMemory, auditorDisk,
     auditorMemory, auditor, truth, bounds, This
<1>27. CASE PassRaises
  BY <1>0, <1>27 DEF PassRaises, validatorDisk, published, decision, validatorMemory,
     auditorDisk, auditorMemory, auditor, truth, bounds, This
<1> QED BY <1>1, <1>2, <1>3, <1>4, <1>5, <1>6, <1>7, <1>8, <1>9, <1>10, <1>11, <1>12, <1>13,
           <1>14, <1>15, <1>16, <1>17, <1>18, <1>19, <1>20, <1>21, <1>22, <1>23, <1>24,
           <1>25, <1>26, <1>27, AuditsLook
       DEF Next, ValidatorStep, ScoreStep, AuditorStep

-----------------------------------------------------------------------------
\* The roots.

\* Initially there is no root.
LEMMA RootsInit == Init => RootsInv
  BY DEF Init, RootsInv

\* What is known of the roots by their type.
LEMMA RootFields ==
  ASSUME AuditTypeOK
  PROVE  /\ Len(roots) \in Nat /\ DOMAIN roots = 1 .. Len(roots)
         /\ \A i \in DOMAIN roots : roots[i].block \in Nat /\ roots[i].report \in Reports
<1>1. roots \in Seq(Roots)
  BY DEF AuditTypeOK, WorldTypeOK
<1>2. \A i \in 1 .. Len(roots) : roots[i] \in Roots
  BY <1>1, ElementOfSeq
<1> QED BY <1>1, <1>2, LenProperties, AuditTrailAssumption DEF Roots, Epochs

\* A root that lands is the last.
LEMMA Landed ==
  ASSUME AuditTypeOK, StageInv, pc \in ServingSteps, Land
  PROVE  /\ block' = block + 1 /\ block \in Nat
         /\ DOMAIN roots' = 1 .. Len(roots) + 1 /\ Len(roots') = Len(roots) + 1
         /\ \A i \in DOMAIN roots : roots'[i] = roots[i]
         /\ roots'[Len(roots) + 1] = [block |-> block + 1, report |-> envelope.report]
<1>1. block \in Nat /\ block' = block + 1
  BY AuditTrailAssumption DEF Land, AuditTypeOK, WorldTypeOK, Epochs
<1>2. /\ roots' = Append(roots, [block |-> block + 1, report |-> envelope.report])
      /\ roots' \in Seq(Roots) /\ roots \in Seq(Roots) /\ block + 1 \in Epochs
  BY <1>1, LandType DEF Land, AuditTypeOK, WorldTypeOK
<1>3. [block |-> block + 1, report |-> envelope.report] \in Roots
  BY <1>2 DEF Roots, AuditTypeOK, ValidatorTypeOK, Envelopes
<1> QED BY <1>1, <1>2, <1>3, AppendProperties, LenProperties

\* Each root is in a block later than all before it, and than the epoch it is of.
LEMMA LandedRoots ==
  ASSUME AuditTypeOK, StageInv, RootsInv, pc \in ServingSteps, Land, built' = built
  PROVE  RootsInv'
<1>1. /\ block' = block + 1 /\ block \in Nat
      /\ DOMAIN roots' = 1 .. Len(roots) + 1
      /\ \A i \in DOMAIN roots : roots'[i] = roots[i]
      /\ roots'[Len(roots) + 1] = [block |-> block + 1, report |-> envelope.report]
  BY Landed
<1>2. Len(roots) \in Nat /\ DOMAIN roots = 1 .. Len(roots) /\ \A i \in DOMAIN roots : roots[i].block \in Nat
  BY RootFields
<1>3. This \in Epochs /\ This <= block /\ envelope.report = built[This]
  BY DEF StageInv
<1>4. \A i \in DOMAIN roots' :
        /\ roots'[i].report.id \in Epochs /\ roots'[i].report.id < roots'[i].block
        /\ roots'[i].block <= block'
        /\ roots'[i].report = built[roots'[i].report.id]
  <2> SUFFICES ASSUME NEW i \in DOMAIN roots'
               PROVE  /\ roots'[i].report.id \in Epochs /\ roots'[i].report.id < roots'[i].block
                      /\ roots'[i].block <= block'
                      /\ roots'[i].report = built[roots'[i].report.id]
    OBVIOUS
  <2>1. CASE i \in DOMAIN roots
    <3>1. roots'[i] = roots[i] /\ roots[i].block \in Nat
      BY <1>1, <1>2, <2>1
    <3> QED BY <1>1, <2>1, <3>1 DEF RootsInv
  <2>2. CASE i = Len(roots) + 1
    <3>1. roots'[i].report = envelope.report /\ roots'[i].block = block + 1
      BY <1>1, <2>2
    <3>2. This \in Nat
      BY <1>3, AuditTrailAssumption DEF Epochs
    <3> QED BY <1>1, <1>3, <3>1, <3>2 DEF This
  <2> QED BY <1>1, <1>2, <2>1, <2>2
<1>5. \A i, j \in DOMAIN roots' : i < j => roots'[i].block < roots'[j].block
  <2> SUFFICES ASSUME NEW i \in DOMAIN roots', NEW j \in DOMAIN roots', i < j
               PROVE  roots'[i].block < roots'[j].block
    OBVIOUS
  <2>1. i \in DOMAIN roots /\ roots'[i] = roots[i] /\ roots[i].block \in Nat /\ roots[i].block <= block
    BY <1>1, <1>2 DEF RootsInv
  <2>2. CASE j \in DOMAIN roots
    BY <1>1, <2>1, <2>2 DEF RootsInv
  <2>3. CASE j = Len(roots) + 1
    <3>1. roots'[j].block = block + 1
      BY <1>1, <2>3
    <3> QED BY <1>1, <2>1, <3>1
  <2> QED BY <1>1, <1>2, <2>2, <2>3
<1> QED BY <1>4, <1>5 DEF RootsInv

\* An envelope that was anchored stays so, whatever lands later.
LEMMA AnchorStays ==
  ASSUME AuditTypeOK, StageInv, RootsInv,
         \/ pc \in ServingSteps /\ Land
         \/ roots' = roots /\ block' \in Nat /\ block <= block'
  PROVE  \A e \in Envelopes : AnchoredIn(roots, block, e) => AnchoredIn(roots', block', e)
<1> SUFFICES ASSUME NEW e \in Envelopes, AnchoredIn(roots, block, e) PROVE AnchoredIn(roots', block', e)
  OBVIOUS
<1>0. e.commitBlock \in Nat /\ block \in Nat
  BY AuditTrailAssumption DEF Envelopes, AuditTypeOK, WorldTypeOK, Epochs
<1>1. CASE roots' = roots /\ block' \in Nat /\ block <= block'
  BY <1>0, <1>1 DEF AnchoredIn
<1>2. CASE pc \in ServingSteps /\ Land
  <2>1. /\ block' = block + 1
        /\ DOMAIN roots' = 1 .. Len(roots) + 1
        /\ \A i \in DOMAIN roots : roots'[i] = roots[i]
        /\ roots'[Len(roots) + 1] = [block |-> block + 1, report |-> envelope.report]
        /\ Len(roots) \in Nat /\ DOMAIN roots = 1 .. Len(roots)
    BY <1>2, Landed, RootFields
  <2>2. roots'[Len(roots) + 1].block = block + 1
    BY <2>1
  <2>3. PICK i \in DOMAIN roots :
          /\ roots[i].report = e.report /\ roots[i].block <= e.commitBlock
          /\ \A j \in DOMAIN roots : i < j => e.commitBlock < roots[j].block
    BY DEF AnchoredIn
  <2>4. ASSUME NEW j \in DOMAIN roots', i < j PROVE e.commitBlock < roots'[j].block
    <3>1. CASE j \in DOMAIN roots
      BY <2>1, <2>3, <2>4, <3>1
    <3>2. CASE j = Len(roots) + 1
      BY <1>0, <2>2, <3>2 DEF AnchoredIn
    <3> QED BY <2>1, <3>1, <3>2
  <2>5. i \in DOMAIN roots' /\ roots'[i] = roots[i]
    BY <2>1, <2>3
  <2> QED BY <1>0, <2>1, <2>3, <2>4, <2>5 DEF AnchoredIn
<1> QED BY <1>1, <1>2

\* Only a commitment touches the roots, and only a report what was built.
LEMMA RootsNext ==
  ASSUME AuditTypeOK, StageInv, RootsInv, [Next]_vars
  PROVE  /\ RootsInv'
         /\ \/ pc \in ServingSteps /\ Land
            \/ roots' = roots /\ block' \in Nat /\ block <= block'
<1>0. /\ block \in Nat /\ DOMAIN built = Epochs /\ \A e \in Epochs : e \in Nat
      /\ \A i \in DOMAIN roots : roots[i].block \in Nat
  BY RootFields, AuditTrailAssumption DEF AuditTypeOK, WorldTypeOK, Epochs
<1> DEFINE Goal == /\ RootsInv'
                   /\ \/ pc \in ServingSteps /\ Land
                      \/ roots' = roots /\ block' \in Nat /\ block <= block'
           Quiet == /\ UNCHANGED <<roots, built>>
                    /\ block' \in {block, block + 1}
<1>q. Quiet => Goal
  BY <1>0 DEF RootsInv
<1> HIDE DEF Quiet
<1>1. CASE BeginEpoch
  BY <1>0, <1>q, <1>1 DEF BeginEpoch, Quiet, published, truth, auditor, auditorDisk,
     auditorMemory, validatorDisk
<1>2. ASSUME NEW h \in Hotkeys, ScoreCrown(h) PROVE Goal
  BY <1>0, <1>q, <1>2 DEF ScoreCrown, Score, Quiet, published, truth, auditor, auditorDisk,
     auditorMemory, validatorDisk
<1>3. ASSUME NEW h \in Hotkeys, ScoreDeferred(h) PROVE Goal
  BY <1>0, <1>q, <1>3 DEF ScoreDeferred, Score, Quiet, published, truth, auditor,
     auditorDisk, auditorMemory, validatorDisk
<1>4. ASSUME NEW h \in Hotkeys, ScoreMeaningfulFailure(h) PROVE Goal
  BY <1>0, <1>q, <1>4 DEF ScoreMeaningfulFailure, Score, Quiet, published, truth, auditor,
     auditorDisk, auditorMemory, validatorDisk
<1>5. CASE ScorePlainFailure
  BY <1>0, <1>q, <1>5 DEF ScorePlainFailure, Score, Quiet, published, truth, auditor,
     auditorDisk, auditorMemory, validatorDisk
<1>6. CASE ComputeWeights
  BY <1>0, <1>q, <1>6 DEF ComputeWeights, Quiet, published, truth, auditor, auditorDisk,
     auditorMemory, validatorDisk
<1>7. CASE SetWeights
  BY <1>0, <1>q, <1>7 DEF SetWeights, Forget, Quiet, published, truth, auditor, auditorDisk,
     auditorMemory, validatorDisk
<1>8. CASE MakeReport
  <2> DEFINE report == BuildReport(block, views, round)
  <2>1. roots' = roots /\ block' = block /\ built' = [built EXCEPT ![block] = report]
    BY <1>8 DEF MakeReport, published
  <2>2. \A i \in DOMAIN roots : roots[i].report.id \in Epochs /\ roots[i].report.id # block
    BY <1>0 DEF RootsInv
  <2> HIDE DEF report
  <2>3. \A i \in DOMAIN roots : built'[roots[i].report.id] = built[roots[i].report.id]
    BY <1>0, <2>1, <2>2
  <2> QED BY <1>0, <2>1, <2>3 DEF RootsInv
<1>9. CASE NoEndBlock
  BY <1>0, <1>q, <1>9 DEF NoEndBlock, Publishing, Forget, Quiet, published, truth, auditor,
     auditorDisk, auditorMemory, validatorDisk
<1>10. CASE CommitAuditRoot
  <2>1. pc \in ServingSteps /\ built' = built /\ (Land \/ UNCHANGED <<block, roots>>)
    BY <1>10 DEF CommitAuditRoot, Serving, Publishing, ServingSteps, truth
  <2>2. CASE Land
    BY <2>1, <2>2, LandedRoots
  <2>3. CASE UNCHANGED <<block, roots>>
    BY <1>0, <1>q, <2>1, <2>3 DEF Quiet
  <2> QED BY <2>1, <2>2, <2>3
<1>11. CASE CommitFails
  <2>1. pc \in ServingSteps /\ built' = built /\ (Land \/ UNCHANGED <<block, roots>>)
    BY <1>11 DEF CommitFails, Serving, Publishing, ServingSteps, truth
  <2>2. CASE Land
    BY <2>1, <2>2, LandedRoots
  <2>3. CASE UNCHANGED <<block, roots>>
    BY <1>0, <1>q, <2>1, <2>3 DEF Quiet
  <2> QED BY <2>1, <2>2, <2>3
<1>12. CASE ReadCommitBlock
  BY <1>0, <1>q, <1>12 DEF ReadCommitBlock, Filing, Serving, Publishing, Flaw, Quiet,
     published, truth, auditor, auditorDisk, auditorMemory, validatorDisk
<1>13. CASE WriteReport
  BY <1>0, <1>q, <1>13 DEF WriteReport, Filing, Serving, Publishing, Quiet, published,
     truth, auditor, auditorDisk, auditorMemory, validatorDisk
<1>14. CASE WriteIndex
  BY <1>0, <1>q, <1>14 DEF WriteIndex, Filing, Serving, Publishing, Quiet, published, truth,
     auditor, auditorDisk, auditorMemory, validatorDisk
<1>15. CASE UploadReport
  BY <1>0, <1>q, <1>15 DEF UploadReport, Filing, Serving, Publishing, Quiet, published,
     truth, auditor, auditorDisk, auditorMemory, validatorDisk
<1>16. CASE UploadFails
  BY <1>0, <1>q, <1>16 DEF UploadFails, EndEpoch, Filing, Serving, Publishing, Quiet,
     published, truth, auditor, auditorDisk, auditorMemory, validatorDisk
<1>17. CASE UploadIndex
  BY <1>0, <1>q, <1>17 DEF UploadIndex, EndEpoch, Filing, Serving, Publishing, Quiet,
     published, truth, auditor, auditorDisk, auditorMemory, validatorDisk
<1>18. CASE BeginPass
  BY <1>0, <1>q, <1>18 DEF BeginPass, Quiet, published, truth, auditor, auditorDisk,
     auditorMemory, validatorDisk
<1>19. ASSUME NEW e \in Epochs, NEW verdict, Looked(e, verdict) PROVE Goal
  BY <1>0, <1>q, <1>19 DEF Looked, Find, Quiet, published, truth, auditor, auditorDisk,
     auditorMemory, validatorDisk
<1>20. CASE WriteWatermark
  BY <1>0, <1>q, <1>20 DEF WriteWatermark, Quiet, published, truth, auditor, auditorDisk,
     auditorMemory, validatorDisk
<1>21. CASE WriteCleanEpoch
  BY <1>0, <1>q, <1>21 DEF WriteCleanEpoch, Quiet, published, truth, auditor, auditorDisk,
     auditorMemory, validatorDisk
<1>22. CASE EndPass
  BY <1>0, <1>q, <1>22 DEF EndPass, Quiet, published, truth, auditor, auditorDisk,
     auditorMemory, validatorDisk
<1>23. CASE ChangeReport
  BY <1>0, <1>q, <1>23 DEF ChangeReport, Quiet, published, truth, auditor, auditorDisk,
     auditorMemory, validatorDisk
<1>24. CASE CrashValidator
  BY <1>0, <1>q, <1>24 DEF CrashValidator, Dies, Forget, Quiet, published, truth, auditor,
     auditorDisk, auditorMemory, validatorDisk
<1>25. CASE CrashAuditor
  BY <1>0, <1>q, <1>25 DEF CrashAuditor, Dies, Quiet, published, truth, auditor,
     auditorDisk, auditorMemory, validatorDisk
<1>26. CASE UNCHANGED vars
  BY <1>0, <1>q, <1>26 DEF vars, Quiet, published, truth, auditor, auditorDisk,
     auditorMemory, validatorDisk
<1>27. CASE PassRaises
  BY <1>0, <1>q, <1>27 DEF PassRaises, Quiet, published, truth, auditor, auditorDisk,
     auditorMemory, validatorDisk
<1> QED BY <1>1, <1>2, <1>3, <1>4, <1>5, <1>6, <1>7, <1>8, <1>9, <1>10, <1>11, <1>12, <1>13,
           <1>14, <1>15, <1>16, <1>17, <1>18, <1>19, <1>20, <1>21, <1>22, <1>23, <1>24,
           <1>25, <1>26, <1>27, AuditsLook
       DEF Next, ValidatorStep, ScoreStep, AuditorStep

-----------------------------------------------------------------------------
\* Envelopes and their roots.

\* Initially nothing is served.
LEMMA AnchorInit == Init => AnchorInv
  BY DEF Init, AnchorInv, Dated

\* An envelope is dated after its root landed and before the next one does.
LEMMA AnchorNext ==
  ASSUME AuditTypeOK, StageInv, PastInv, RootsInv, AnchorInv, [Next]_vars
  PROVE  AnchorInv'
<1>0. /\ block \in Nat /\ block \in Epochs /\ DOMAIN built = Epochs /\ DOMAIN silent = Epochs
      /\ \A e \in Epochs : e \in Nat
      /\ hub \in [Epochs -> Envelopes] /\ envelope \in Envelopes
      /\ pc \in ServingSteps => This \in Epochs /\ envelope.report = built[This]
  BY AuditTrailAssumption DEF AuditTypeOK, WorldTypeOK, ValidatorTypeOK, StageInv, Epochs
<1>00. \A e \in Envelopes : AnchoredIn(roots, block, e) => AnchoredIn(roots', block', e)
  BY RootsNext, AnchorStays
<1> DEFINE Kept == /\ UNCHANGED <<built, hub, changed>>
                   /\ \A e \in Epochs : silent[e] \subseteq silent'[e]
<1>q. ASSUME Kept
      PROVE  \A e \in Epochs : hub'[e] # NoEnvelope /\ e \notin changed' =>
               /\ hub'[e].report = built'[e]
               /\ Unflawed(e)' => Anchored(hub[e])'
  BY <1>q, <1>0, <1>00 DEF AnchorInv, Unflawed, Anchored
<1>k. ASSUME Kept, pc' # "read", pc' \notin Dated PROVE AnchorInv'
  BY <1>k, <1>q DEF AnchorInv
<1>l. ASSUME Kept, pc' \in Dated, pc \in Dated, envelope' = envelope PROVE AnchorInv'
  <2>1. This' = This /\ This \in Epochs /\ pc' # "read"
    BY <1>0, <1>l DEF This, Dated, ServingSteps
  <2>2. Unflawed(This)' => AnchoredIn(roots', block', envelope)
    BY <1>0, <1>00, <1>l, <2>1 DEF AnchorInv, Unflawed, Anchored, This
  <2> QED BY <1>l, <1>q, <2>1, <2>2 DEF AnchorInv, Anchored, This
<1>m. ASSUME Kept, pc' = "read", pc = "read", UNCHANGED <<envelope, silent, roots>> PROVE AnchorInv'
  BY <1>m, <1>q DEF AnchorInv, Dated, This
<1> HIDE DEF Kept
<1>n. ASSUME Kept, UNCHANGED <<pc, envelope, silent, roots>> PROVE AnchorInv'
  BY <1>k, <1>l, <1>m, <1>n
<1> USE DEF Dated
<1>1. CASE BeginEpoch
  BY <1>0, <1>k, <1>l, <1>n, <1>1 DEF BeginEpoch, Kept, published, truth, auditor,
     auditorDisk, auditorMemory, validatorMemory, validatorDisk
<1>2. ASSUME NEW h \in Hotkeys, ScoreCrown(h) PROVE AnchorInv'
  BY <1>0, <1>k, <1>l, <1>n, <1>2 DEF ScoreCrown, Score, Kept, published, truth, auditor,
     auditorDisk, auditorMemory, validatorMemory, validatorDisk
<1>3. ASSUME NEW h \in Hotkeys, ScoreDeferred(h) PROVE AnchorInv'
  BY <1>0, <1>k, <1>l, <1>n, <1>3 DEF ScoreDeferred, Score, Kept, published, truth, auditor,
     auditorDisk, auditorMemory, validatorMemory, validatorDisk
<1>4. ASSUME NEW h \in Hotkeys, ScoreMeaningfulFailure(h) PROVE AnchorInv'
  BY <1>0, <1>k, <1>l, <1>n, <1>4 DEF ScoreMeaningfulFailure, Score, Kept, published, truth,
     auditor, auditorDisk, auditorMemory, validatorMemory, validatorDisk
<1>5. CASE ScorePlainFailure
  BY <1>0, <1>k, <1>l, <1>n, <1>5 DEF ScorePlainFailure, Score, Kept, published, truth,
     auditor, auditorDisk, auditorMemory, validatorMemory, validatorDisk
<1>6. CASE ComputeWeights
  BY <1>0, <1>k, <1>l, <1>n, <1>6 DEF ComputeWeights, Kept, published, truth, auditor,
     auditorDisk, auditorMemory, validatorMemory, validatorDisk
<1>7. CASE SetWeights
  BY <1>0, <1>k, <1>l, <1>n, <1>7 DEF SetWeights, Forget, Kept, published, truth, auditor,
     auditorDisk, auditorMemory, validatorMemory, validatorDisk
<1>8. CASE MakeReport
  <2> DEFINE report == BuildReport(block, views, round)
  <2>1. /\ pc = "report" /\ pc' = "commit" /\ UNCHANGED <<hub, changed, roots, block>>
        /\ built' = [built EXCEPT ![block] = report] /\ silent' = [silent EXCEPT ![block] = why]
    BY <1>8 DEF MakeReport, Publishing, published
  <2>2. \A e \in Epochs : hub[e] # NoEnvelope => e # block
    BY <1>0, <2>1 DEF PastInv, Past, StageInv
  <2> HIDE DEF report
  <2>3. \A e \in Epochs : e # block => built'[e] = built[e] /\ silent'[e] = silent[e]
    BY <1>0, <2>1
  <2>4. \A e \in Epochs : hub'[e] # NoEnvelope /\ e \notin changed' =>
           /\ hub'[e].report = built'[e]
           /\ Unflawed(e)' => Anchored(hub[e])'
    BY <1>0, <2>1, <2>2, <2>3 DEF AnchorInv, Unflawed, Anchored
  <2> QED BY <2>1, <2>4 DEF AnchorInv
<1>9. CASE NoEndBlock
  BY <1>0, <1>k, <1>l, <1>n, <1>9 DEF NoEndBlock, Publishing, Forget, Kept, published,
     truth, auditor, auditorDisk, auditorMemory, validatorMemory, validatorDisk
<1>10. CASE CommitAuditRoot
  <2>1. /\ pc = "commit" /\ pc' = "read" /\ UNCHANGED <<envelope, built, hub, changed>>
        /\ \/ Land /\ UNCHANGED silent
           \/ silent' = [silent EXCEPT ![This] = @ \union {"refused"}]
    BY <1>10 DEF CommitAuditRoot, Serving, Publishing, Flaw
  <2>2. Kept
    BY <1>0, <2>1 DEF Kept, ServingSteps
  <2>3. "refused" \in silent'[This] \/ (roots' # <<>> /\ roots'[Len(roots')].report = envelope.report)
    <3>1. CASE Land
      <4>1. /\ Len(roots) \in Nat /\ Len(roots') = Len(roots) + 1
            /\ roots'[Len(roots) + 1] = [block |-> block + 1, report |-> envelope.report]
        BY <2>1, <3>1, Landed, RootFields DEF ServingSteps
      <4>2. Len(<<>>) = 0
        OBVIOUS
      <4> QED BY <4>1, <4>2
    <3>2. CASE ~Land
      BY <1>0, <2>1, <3>2 DEF ServingSteps
    <3> QED BY <3>1, <3>2
  <2> QED BY <1>q, <2>1, <2>2, <2>3 DEF AnchorInv, This
<1>11. CASE CommitFails
  BY <1>0, <1>k, <1>l, <1>n, <1>11 DEF CommitFails, Serving, Publishing, Land, Kept,
     published, truth, auditor, auditorDisk, auditorMemory, validatorMemory, validatorDisk
<1>12. CASE ReadCommitBlock
  <2>1. /\ pc = "read" /\ pc' = "write" /\ UNCHANGED <<built, hub, changed, roots, block>>
        /\ \/ envelope' = [envelope EXCEPT !.commitBlock = block] /\ UNCHANGED silent
           \/ silent' = [silent EXCEPT ![This] = @ \union {"undated"}]
    BY <1>12 DEF ReadCommitBlock, Filing, Serving, Publishing, published, Flaw
  <2>2. Kept
    BY <1>0, <2>1 DEF Kept, ServingSteps
  <2>3. /\ envelope' \in Envelopes /\ envelope'.report = envelope.report /\ This' = This
        /\ envelope' = [envelope EXCEPT !.commitBlock = block] => envelope'.commitBlock = block
    <3>1. envelope' \in Envelopes /\ envelope'.report = envelope.report
      BY <1>0, <1>12, DatedNext
    <3>2. envelope \in Envelopes /\ block \in Nat
      BY <1>0
    <3>3. LET dated == [envelope EXCEPT !.commitBlock = block]
          IN  dated \in Envelopes /\ dated.commitBlock = block
      BY <3>2, DatedEnvelope
    <3> QED BY <3>1, <3>3 DEF This
  <2>4. ASSUME silent'[This] \intersect {"refused", "undated"} = {}
        PROVE  AnchoredIn(roots, block, envelope')
    <3>1. envelope'.commitBlock = block /\ "refused" \notin silent[This]
      BY <1>0, <2>1, <2>3, <2>4 DEF ServingSteps
    <3>2. roots # <<>> /\ roots[Len(roots)].report = envelope'.report
      BY <2>1, <2>3, <3>1 DEF AnchorInv
    <3>3. Len(roots) \in DOMAIN roots /\ \A j \in DOMAIN roots : ~(Len(roots) < j)
      BY <3>2, RootFields, EmptySeq DEF AuditTypeOK, WorldTypeOK
    <3>4. roots[Len(roots)].block <= block
      BY <3>3 DEF RootsInv
    <3> QED BY <1>0, <3>1, <3>2, <3>3, <3>4 DEF AnchoredIn
  <2> QED BY <1>q, <2>1, <2>2, <2>3, <2>4 DEF AnchorInv, Unflawed, Anchored
<1>13. CASE WriteReport
  BY <1>0, <1>k, <1>l, <1>n, <1>13 DEF WriteReport, Filing, Serving, Publishing, Kept,
     published, truth, auditor, auditorDisk, auditorMemory, validatorMemory, validatorDisk
<1>14. CASE WriteIndex
  BY <1>0, <1>k, <1>l, <1>n, <1>14 DEF WriteIndex, Filing, Serving, Publishing, Kept,
     published, truth, auditor, auditorDisk, auditorMemory, validatorMemory, validatorDisk
<1>15. CASE UploadReport
  <2>1. /\ pc = "upload" /\ pc' = "publish" /\ UNCHANGED <<built, silent, changed, roots, block, envelope>>
        /\ hub' = [hub EXCEPT ![This] = envelope]
    BY <1>15 DEF UploadReport, Filing, Serving, Publishing, truth
  <2>2. This \in Epochs /\ envelope.report = built[This]
    BY <1>0, <2>1 DEF ServingSteps
  <2>3. \A e \in Epochs : hub'[e] = IF e = This THEN envelope ELSE hub[e]
    BY <1>0, <2>1, <2>2
  <2> QED BY <1>0, <2>1, <2>2, <2>3 DEF AnchorInv, Unflawed, Anchored, This
<1>16. CASE UploadFails
  BY <1>0, <1>k, <1>l, <1>n, <1>16 DEF UploadFails, EndEpoch, Filing, Serving, Publishing,
     Kept, published, truth, auditor, auditorDisk, auditorMemory, validatorMemory,
     validatorDisk
<1>17. CASE UploadIndex
  BY <1>0, <1>k, <1>l, <1>n, <1>17 DEF UploadIndex, EndEpoch, Filing, Serving, Publishing,
     Kept, published, truth, auditor, auditorDisk, auditorMemory, validatorMemory,
     validatorDisk
<1>18. CASE BeginPass
  BY <1>0, <1>k, <1>l, <1>n, <1>18 DEF BeginPass, Kept, published, truth, auditor,
     auditorDisk, auditorMemory, validatorMemory, validatorDisk
<1>19. ASSUME NEW e \in Epochs, NEW verdict, Looked(e, verdict) PROVE AnchorInv'
  BY <1>0, <1>k, <1>l, <1>n, <1>19 DEF Looked, Find, Kept, published, truth, auditor,
     auditorDisk, auditorMemory, validatorMemory, validatorDisk
<1>20. CASE WriteWatermark
  BY <1>0, <1>k, <1>l, <1>n, <1>20 DEF WriteWatermark, Kept, published, truth, auditor,
     auditorDisk, auditorMemory, validatorMemory, validatorDisk
<1>21. CASE WriteCleanEpoch
  BY <1>0, <1>k, <1>l, <1>n, <1>21 DEF WriteCleanEpoch, Kept, published, truth, auditor,
     auditorDisk, auditorMemory, validatorMemory, validatorDisk
<1>22. CASE EndPass
  BY <1>0, <1>k, <1>l, <1>n, <1>22 DEF EndPass, Kept, published, truth, auditor,
     auditorDisk, auditorMemory, validatorMemory, validatorDisk
<1>23. CASE ChangeReport
  <2>1. /\ UNCHANGED <<pc, envelope, built, silent, roots, block>>
        /\ \E d \in Epochs : (\E f \in Falsified(hub[d]) : hub' = [hub EXCEPT ![d] = f]) /\ changed' = changed \union {d}
    BY <1>23 DEF ChangeReport, validatorMemory, truth
  <2>2. \A e \in Epochs : e \notin changed' => e \notin changed /\ hub'[e] = hub[e]
    BY <1>0, <2>1
  <2> QED BY <1>0, <2>1, <2>2 DEF AnchorInv, Unflawed, Anchored, This
<1>24. CASE CrashValidator
  BY <1>0, <1>k, <1>l, <1>n, <1>24 DEF CrashValidator, Dies, Forget, Kept, published, truth,
     auditor, auditorDisk, auditorMemory, validatorMemory, validatorDisk
<1>25. CASE CrashAuditor
  BY <1>0, <1>k, <1>l, <1>n, <1>25 DEF CrashAuditor, Dies, Kept, published, truth, auditor,
     auditorDisk, auditorMemory, validatorMemory, validatorDisk
<1>26. CASE UNCHANGED vars
  BY <1>0, <1>k, <1>l, <1>n, <1>26 DEF vars, Kept, published, truth, auditor, auditorDisk,
     auditorMemory, validatorMemory, validatorDisk
<1>27. CASE PassRaises
  BY <1>0, <1>k, <1>l, <1>n, <1>27 DEF PassRaises, Kept, published, truth, auditor,
     auditorDisk, auditorMemory, validatorMemory, validatorDisk
<1> QED BY <1>1, <1>2, <1>3, <1>4, <1>5, <1>6, <1>7, <1>8, <1>9, <1>10, <1>11, <1>12, <1>13,
           <1>14, <1>15, <1>16, <1>17, <1>18, <1>19, <1>20, <1>21, <1>22, <1>23, <1>24,
           <1>25, <1>26, <1>27, AuditsLook
       DEF Next, ValidatorStep, ScoreStep, AuditorStep

-----------------------------------------------------------------------------
\* The root that stood at a block.

\* It is the last of those that had landed.
LEMMA StandingRoot ==
  ASSUME AuditTypeOK, NEW b, NEW i \in DOMAIN roots, roots[i].block <= b,
         \A j \in DOMAIN roots : roots[j].block <= b => j <= i
  PROVE  ArchivedRoot(b) = roots[i].report
<1> DEFINE then == {j \in DOMAIN roots : roots[j].block <= b}
<1>1. i \in then /\ (\A j \in then : j <= i) /\ then # {}
  OBVIOUS
<1>2. \A j \in then : j \in Nat
  BY RootFields
<1>3. \A k \in then : (\A j \in then : j <= k) => k = i
  BY <1>1, <1>2
<1>4. (CHOOSE k \in then : \A j \in then : j <= k) = i
  BY <1>1, <1>3
<1> QED BY <1>1, <1>4 DEF ArchivedRoot

\* If any did, it is one of them.
LEMMA SomeRoot ==
  ASSUME AuditTypeOK, NEW b, ArchivedRoot(b) # NoReport
  PROVE  \E i \in DOMAIN roots : ArchivedRoot(b) = roots[i].report
<1> DEFINE then == {j \in DOMAIN roots : roots[j].block <= b}
<1>1. then # {}
  BY DEF ArchivedRoot
<1>2. then \in SUBSET (1 .. Len(roots)) /\ Len(roots) \in Nat
  BY RootFields
<1>3. PICK i \in then : \A j \in then : j <= i
  <2> HIDE DEF then
  <2> QED BY <1>1, <1>2, LastPosition
<1>4. ArchivedRoot(b) = roots[i].report
  BY <1>3, StandingRoot
<1> QED BY <1>3, <1>4

\* An envelope that is anchored finds its own root.
LEMMA AnchoredFinds ==
  ASSUME AuditTypeOK, NEW e \in Envelopes, Anchored(e)
  PROVE  ArchivedRoot(e.commitBlock) = e.report
<1>1. PICK i \in DOMAIN roots :
        /\ roots[i].report = e.report /\ roots[i].block <= e.commitBlock
        /\ \A j \in DOMAIN roots : i < j => e.commitBlock < roots[j].block
  BY DEF Anchored, AnchoredIn
<1>2. e.commitBlock \in Nat /\ \A j \in DOMAIN roots : j \in Nat /\ roots[j].block \in Nat
  BY RootFields DEF Envelopes
<1>3. \A j \in DOMAIN roots : roots[j].block <= e.commitBlock => j <= i
  BY <1>1, <1>2
<1> QED BY <1>1, <1>3, StandingRoot

\* A report that is found clean under no other name is the one that was built: the
\* validator has no other root of its epoch on chain.
LEMMA CleanIsBuilt ==
  ASSUME AuditTypeOK, RootsInv, ServedInv, NEW e \in Epochs, Looked(e, "clean"),
         hub[e].signer # "stranger"
  PROVE  hub[e].report = built[e]
<1>0. AnchoredRoot(hub[e]) \in {ArchivedRoot(hub[e].commitBlock), NoReport}
  BY DEF AnchoredRoot
<1>1. PICK i \in DOMAIN roots : hub[e].report = roots[i].report
  BY <1>0, SomeRoot DEF Looked
<1>2. hub[e].report.id \in Epochs /\ hub[e].report = built[hub[e].report.id]
  BY <1>1 DEF RootsInv
<1>3. hub[e] # NoEnvelope
  BY <1>2, NoEnvelopeId DEF Epochs
<1> QED BY <1>2, <1>3 DEF ServedInv

-----------------------------------------------------------------------------
\* The replay of a report.

\* One more submission scored is one more entry to replay.
LEMMA OneMore ==
  ASSUME NEW list \in Seq(Views), NEW v \in Views
  PROVE  LET n == Len(list)
             longer == Append(list, v)
         IN  /\ n \in Nat
             /\ \A i \in DOMAIN list : i \in 1 .. n /\ longer[i] = list[i]
             /\ longer[n + 1] = v
             /\ Crowning(longer) = Crowning(list) \union {i \in {n + 1} : ClassifyFromReport(v) = "king_change"}
             /\ Failing(longer) = Failing(list) \union {i \in {n + 1} : ClassifyFromReport(v) = "meaningful_failure"}
<1> DEFINE n == Len(list)
           longer == Append(list, v)
<1>1. n \in Nat /\ DOMAIN list = 1 .. n /\ DOMAIN longer = 1 .. n + 1
  BY AppendProperties, LenProperties
<1>2. (\A i \in 1 .. n : longer[i] = list[i]) /\ longer[n + 1] = v
  BY <1>1, AppendProperties
<1>3. 1 .. n + 1 = (1 .. n) \union {n + 1}
  BY <1>1
<1> HIDE DEF n, longer
<1> QED BY <1>1, <1>2, <1>3 DEF Crowning, Failing, n, longer

\* Who has the largest share of a split is its king.
LEMMA KingInferred ==
  ASSUME NEW k \in HotkeyOrNone, NEW failed \in SUBSET Hotkeys, k = NoHotkey => failed = {}
  PROVE  InferSittingKing(PoolSplit(k, failed)) = k
<1> DEFINE w == PoolSplit(k, failed)
           most == {h \in Hotkeys : w[h] > 0 /\ \A g \in Hotkeys : w[g] <= w[h]}
<1>0. MinorPool \in Nat /\ MinorPool > 0 /\ NoHotkey \notin Hotkeys
  BY ScoringAssumption
<1>1. \A h \in Hotkeys : w[h] \in Nat
  BY PoolSplitType, ScoringAssumption DEF WeightMaps, FullPool
<1>2. CASE k = NoHotkey
  <2>1. \A h \in Hotkeys : w[h] = 0
    BY <1>0, <1>2 DEF PoolSplit
  <2> HIDE DEF w
  <2>2. most = {}
    BY <2>1
  <2> QED BY <1>2, <2>2 DEF InferSittingKing, w
<1>3. CASE k # NoHotkey
  <2>1. k \in Hotkeys
    BY <1>3 DEF HotkeyOrNone
  <2>2. \A h \in Hotkeys \ {k} : w[h] < KingPool
    BY SharesBelowKing
  <2>3. w[k] >= KingPool /\ KingPool > 0 /\ KingPool \in Nat
    <3>1. failed # {} => MinorShare(failed) \in 0 .. MinorPool
      BY MinorShareBounds
    <3> QED BY <1>0, <2>1, <3>1 DEF PoolSplit, KingPool, FullPool, Larger
  <2> HIDE DEF w
  <2>4. \A h \in Hotkeys : w[h] <= w[k]
    BY <1>1, <2>1, <2>2, <2>3
  <2>5. most = {k}
    BY <1>1, <2>1, <2>2, <2>3, <2>4
  <2>6. k \in Nat /\ k <= k
    BY <2>1, HotkeysOrdered
  <2>7. (CHOOSE h \in most : \A g \in most : h <= g) = k
    <3> HIDE DEF most
    <3> QED BY <2>5, <2>6
  <2> QED BY <2>5, <2>7 DEF InferSittingKing, w
<1> QED BY <1>2, <1>3

\* A report of nothing replays to no weights.
LEMMA NothingReplays == Replays(NoReport)
<1>1. Crowning(<<>>) = {} /\ Failing(<<>>) = {}
  BY DEF Crowning, Failing
<1>2. ReplayedCrown(NoReport) = NoHotkey /\ ReplayedFailures(NoReport) = {}
  BY <1>1 DEF ReplayedCrown, ReplayedFailures, EntriesOf, NoReport, Crowning, Failing
<1>3. InferSittingKing(NoWeights) = NoHotkey
  BY DEF InferSittingKing, NoWeights
<1>4. ReplayScoring(NoReport) = PoolSplit(NoHotkey, {})
  BY <1>2, <1>3 DEF ReplayScoring, NoReport
<1>5. PoolSplit(NoHotkey, {}) = NoWeights
  BY ScoringAssumption DEF PoolSplit, NoWeights
<1> QED BY <1>4, <1>5 DEF Replays, CompareWeights, NoReport

\* The report of an epoch whose weights owe nothing to anything untold replays to
\* them: the auditor finds the crown and the failures in the outcomes, and the
\* king who sat on in the weights.
LEMMA ToldReplays ==
  ASSUME AuditTypeOK, TellInv, pc = "report", Told(why)
  PROVE  Replays(BuildReport(block, views, round))
<1> DEFINE report == BuildReport(block, views, round)
<1>1. report.submissions = views /\ report.weights = round
  BY DEF BuildReport
<1>2. round = PoolSplit(PaidKing, failures) /\ FailuresTold /\ CrownTold
  BY DEF TellInv, Told, Reasons
<1> HIDE DEF report
<1>3. EntriesOf(report, "king_change") = Crowning(views) /\ EntriesOf(report, "meaningful_failure") = Failing(views)
  BY <1>1 DEF EntriesOf, Crowning, Failing
<1>4. ReplayedFailures(report) = failures
  BY <1>1, <1>2, <1>3 DEF ReplayedFailures, FailuresTold
<1>5. ReplayedCrown(report) = crowned
  <2>1. CASE crowned = NoHotkey
    BY <1>2, <1>3, <2>1 DEF ReplayedCrown, CrownTold
  <2>2. CASE crowned # NoHotkey
    <3>1. PICK i \in Crowning(views) : views[i].hotkey = crowned /\ \A j \in Crowning(views) : j <= i
      BY <1>2, <2>2 DEF CrownTold
    <3>2. \A k \in Crowning(views) : k \in Nat
      BY LenProperties DEF Crowning, AuditTypeOK, ValidatorTypeOK
    <3>3. (CHOOSE k \in Crowning(views) : \A j \in Crowning(views) : j <= k) = i
      BY <3>1, <3>2
    <3> QED BY <1>1, <1>3, <3>1, <3>3 DEF ReplayedCrown
  <2> QED BY <2>1, <2>2
<1>6. crowned = NoHotkey => InferSittingKing(round) = king
  <2> SUFFICES ASSUME crowned = NoHotkey PROVE InferSittingKing(round) = king
    OBVIOUS
  <2>1. PaidKing = king /\ king \in HotkeyOrNone /\ failures \in SUBSET Hotkeys
    BY DEF PaidKing, AuditTypeOK, ValidatorTypeOK
  <2>2. king = NoHotkey => failures = {}
    BY DEF TellInv
  <2> QED BY <1>2, <2>1, <2>2, KingInferred
<1>7. ReplayScoring(report) = round
  BY <1>1, <1>2, <1>4, <1>5, <1>6 DEF ReplayScoring, PaidKing
<1> QED BY <1>1, <1>7 DEF Replays, CompareWeights, report

\* Initially nothing is scored.
LEMMA TellInit == Init => TellInv
<1> SUFFICES ASSUME Init PROVE TellInv
  OBVIOUS
<1>1. Crowning(<<>>) = {} /\ Failing(<<>>) = {}
  BY DEF Crowning, Failing
<1> QED BY <1>1 DEF Init, TellInv, FailuresTold, CrownTold

\* What an epoch scores is told as it is scored.
LEMMA TellNext ==
  ASSUME AuditTypeOK, TellInv, [Next]_vars
  PROVE  TellInv'
<1>0. NoHotkey \notin Hotkeys /\ views \in Seq(Views)
  BY ScoringAssumption DEF AuditTypeOK, ValidatorTypeOK
<1>b. ASSUME views' = <<>>, failures' = {}, crowned' = NoHotkey, pc' \notin {"emit", "report"} PROVE TellInv'
  <2>1. Crowning(<<>>) = {} /\ Failing(<<>>) = {}
    BY DEF Crowning, Failing
  <2> QED BY <1>b, <2>1 DEF TellInv, FailuresTold, CrownTold
<1>n. ASSUME UNCHANGED <<king, views, failures, crowned, round, why>>, pc' \in {"emit", "report"} => pc \in {"emit", "report"}
      PROVE  TellInv'
  BY <1>n DEF TellInv, FailuresTold, CrownTold, PaidKing
<1>u. ASSUME UNCHANGED <<king, decision, why>>, pc' \notin {"emit", "report"} \/ pc' = pc PROVE TellInv'
  BY <1>n, <1>u DEF decision
<1>1. CASE BeginEpoch
  BY <1>n, <1>1 DEF BeginEpoch, validatorDisk
<1>2. ASSUME NEW h \in Hotkeys, ScoreCrown(h) PROVE TellInv'
  <2> DEFINE v == View(h, ~IsFirst, IsFirst, "king_change")
  <2>1. /\ pc = "score" /\ pc' = "score" /\ views' = Append(views, v)
        /\ king' = h /\ crowned' = h /\ UNCHANGED <<failures, why>>
    BY <1>2 DEF ScoreCrown, Score
  <2>2. v \in Views /\ ClassifyFromReport(v) = "king_change" /\ v.hotkey = h
    BY <1>0, <1>2 DEF ScoreCrown, View, Views, Classifications, ClassifyFromReport,
       HotkeyOrNone, IsFirst
  <2> HIDE DEF v
  <2>3. /\ \A i \in DOMAIN views : i \in 1 .. Len(views) /\ views'[i] = views[i]
        /\ views'[Len(views) + 1] = v /\ Len(views) \in Nat
        /\ Crowning(views') = Crowning(views) \union {i \in {Len(views) + 1} : ClassifyFromReport(v) = "king_change"}
        /\ Failing(views') = Failing(views) \union {i \in {Len(views) + 1} : ClassifyFromReport(v) = "meaningful_failure"}
    BY <1>0, <2>1, <2>2, OneMore
  <2>4. Crowning(views) \subseteq DOMAIN views /\ Failing(views) \subseteq DOMAIN views
    BY DEF Crowning, Failing
  <2>5. FailuresTold'
    BY <2>1, <2>2, <2>3, <2>4 DEF TellInv, FailuresTold
  <2>6. CrownTold'
    <3>1. Len(views) + 1 \in Crowning(views') /\ \A j \in Crowning(views') : j <= Len(views) + 1
      BY <2>2, <2>3, <2>4
    <3> QED BY <1>0, <2>1, <2>2, <2>3, <3>1 DEF CrownTold
  <2> QED BY <1>0, <2>1, <2>5, <2>6 DEF TellInv
<1>3. ASSUME NEW h \in Hotkeys, ScoreDeferred(h) PROVE TellInv'
  <2> DEFINE v == View(h, TRUE, FALSE, "king_change")
  <2>1. /\ pc = "score" /\ pc' = "score" /\ views' = Append(views, v)
        /\ why' = why \union {"deferred"} /\ UNCHANGED <<king, failures, crowned>>
    BY <1>3 DEF ScoreDeferred, Score
  <2>2. v \in Views /\ ClassifyFromReport(v) = "king_change" /\ v.hotkey = h
    BY <1>0, <1>3 DEF ScoreDeferred, View, Views, Classifications, ClassifyFromReport,
       HotkeyOrNone, IsFirst
  <2> HIDE DEF v
  <2>3. /\ \A i \in DOMAIN views : i \in 1 .. Len(views) /\ views'[i] = views[i]
        /\ views'[Len(views) + 1] = v /\ Len(views) \in Nat
        /\ Crowning(views') = Crowning(views) \union {i \in {Len(views) + 1} : ClassifyFromReport(v) = "king_change"}
        /\ Failing(views') = Failing(views) \union {i \in {Len(views) + 1} : ClassifyFromReport(v) = "meaningful_failure"}
    BY <1>0, <2>1, <2>2, OneMore
  <2>4. Crowning(views) \subseteq DOMAIN views /\ Failing(views) \subseteq DOMAIN views
    BY DEF Crowning, Failing
  <2>5. FailuresTold'
    BY <2>1, <2>2, <2>3, <2>4 DEF TellInv, FailuresTold
  <2> QED BY <1>0, <2>1, <2>5 DEF TellInv
<1>4. ASSUME NEW h \in Hotkeys, ScoreMeaningfulFailure(h) PROVE TellInv'
  <2> DEFINE v == View(h, FALSE, FALSE, "meaningful_failure")
  <2>1. /\ pc = "score" /\ pc' = "score" /\ views' = Append(views, v)
        /\ failures' = failures \union {h} /\ king # NoHotkey /\ UNCHANGED <<king, crowned, why>>
    BY <1>4 DEF ScoreMeaningfulFailure, Score
  <2>2. v \in Views /\ ClassifyFromReport(v) = "meaningful_failure" /\ v.hotkey = h
    BY <1>0, <1>4 DEF ScoreMeaningfulFailure, View, Views, Classifications,
       ClassifyFromReport, HotkeyOrNone, IsFirst
  <2> HIDE DEF v
  <2>3. /\ \A i \in DOMAIN views : i \in 1 .. Len(views) /\ views'[i] = views[i]
        /\ views'[Len(views) + 1] = v /\ Len(views) \in Nat
        /\ Crowning(views') = Crowning(views) \union {i \in {Len(views) + 1} : ClassifyFromReport(v) = "king_change"}
        /\ Failing(views') = Failing(views) \union {i \in {Len(views) + 1} : ClassifyFromReport(v) = "meaningful_failure"}
    BY <1>0, <2>1, <2>2, OneMore
  <2>4. Crowning(views) \subseteq DOMAIN views /\ Failing(views) \subseteq DOMAIN views
    BY DEF Crowning, Failing
  <2>5. FailuresTold'
    BY <2>1, <2>2, <2>3, <2>4 DEF TellInv, FailuresTold
  <2>6. CrownTold => CrownTold'
    BY <2>1, <2>2, <2>3, <2>4 DEF CrownTold
  <2> QED BY <1>0, <2>1, <2>5, <2>6 DEF TellInv
<1>5. CASE ScorePlainFailure
  <2> DEFINE v == View(NoHotkey, FALSE, FALSE, "plain_failure")
  <2>1. /\ pc = "score" /\ pc' = "score" /\ views' = Append(views, v)
        /\ UNCHANGED <<king, failures, crowned, why>>
    BY <1>5 DEF ScorePlainFailure, Score
  <2>2. v \in Views /\ ClassifyFromReport(v) = "plain_failure" /\ v.hotkey = NoHotkey
    BY <1>0, <1>5 DEF ScorePlainFailure, View, Views, Classifications, ClassifyFromReport,
       HotkeyOrNone, IsFirst
  <2> HIDE DEF v
  <2>3. /\ \A i \in DOMAIN views : i \in 1 .. Len(views) /\ views'[i] = views[i]
        /\ views'[Len(views) + 1] = v /\ Len(views) \in Nat
        /\ Crowning(views') = Crowning(views) \union {i \in {Len(views) + 1} : ClassifyFromReport(v) = "king_change"}
        /\ Failing(views') = Failing(views) \union {i \in {Len(views) + 1} : ClassifyFromReport(v) = "meaningful_failure"}
    BY <1>0, <2>1, <2>2, OneMore
  <2>4. Crowning(views) \subseteq DOMAIN views /\ Failing(views) \subseteq DOMAIN views
    BY DEF Crowning, Failing
  <2>5. FailuresTold'
    BY <2>1, <2>2, <2>3, <2>4 DEF TellInv, FailuresTold
  <2>6. CrownTold => CrownTold'
    BY <2>1, <2>2, <2>3, <2>4 DEF CrownTold
  <2> QED BY <1>0, <2>1, <2>5, <2>6 DEF TellInv
<1>6. CASE ComputeWeights
  <2>1. PICK withheld \in BOOLEAN :
          /\ round' = MergeRecovered(Split(withheld), recovered, PaidKing)
          /\ why' = why \union Unexplained(withheld)
    BY <1>6 DEF ComputeWeights
  <2>2. UNCHANGED <<king, views, failures, crowned>>
    BY <1>6 DEF ComputeWeights
  <2>3. Told(why') => round' = PoolSplit(PaidKing, failures)
    <3>1. SUFFICES ASSUME Told(why') PROVE round' = PoolSplit(PaidKing, failures)
      OBVIOUS
    <3>2. "withheld" \notin Unexplained(withheld) /\ "recovered" \notin Unexplained(withheld)
      BY <2>1, <3>1 DEF Told, Reasons
    <3>3. ~withheld
      BY <3>2 DEF Unexplained
    <3>4. MergeRecovered(Split(withheld), recovered, PaidKing) = Split(withheld)
      BY <3>2 DEF Unexplained
    <3> QED BY <2>1, <3>3, <3>4 DEF Split
  <2> QED BY <2>1, <2>2, <2>3 DEF TellInv, FailuresTold, CrownTold, PaidKing, Told
<1>7. CASE SetWeights
  <2>1. /\ pc = "emit" /\ UNCHANGED king
        /\ \/ views' = <<>> /\ failures' = {} /\ crowned' = NoHotkey /\ pc' = "idle"
           \/ UNCHANGED <<views, failures, crowned, round, why>>
    BY <1>7 DEF SetWeights, Forget, decision
  <2> QED BY <1>b, <1>n, <2>1
<1>8. CASE MakeReport
  BY <1>b, <1>u, <1>8 DEF MakeReport, Publishing, Forget, decision, validatorMemory, validatorDisk
<1>9. CASE NoEndBlock
  BY <1>b, <1>u, <1>9 DEF NoEndBlock, Publishing, Forget, decision, validatorMemory, validatorDisk
<1>10. CASE CommitAuditRoot
  BY <1>b, <1>u, <1>10 DEF CommitAuditRoot, Serving, Publishing, decision, validatorMemory,
     validatorDisk
<1>11. CASE CommitFails
  BY <1>b, <1>u, <1>11 DEF CommitFails, Serving, Publishing, decision, validatorMemory,
     validatorDisk
<1>12. CASE ReadCommitBlock
  BY <1>b, <1>u, <1>12 DEF ReadCommitBlock, Filing, Serving, Publishing, decision,
     validatorMemory, validatorDisk
<1>13. CASE WriteReport
  BY <1>b, <1>u, <1>13 DEF WriteReport, Filing, Serving, Publishing, decision,
     validatorMemory, validatorDisk
<1>14. CASE WriteIndex
  BY <1>b, <1>u, <1>14 DEF WriteIndex, Filing, Serving, Publishing, decision,
     validatorMemory, validatorDisk
<1>15. CASE UploadReport
  BY <1>b, <1>u, <1>15 DEF UploadReport, Filing, Serving, Publishing, decision,
     validatorMemory, validatorDisk
<1>16. CASE UploadFails
  BY <1>b, <1>u, <1>16 DEF UploadFails, EndEpoch, Filing, Serving, Publishing, decision,
     validatorMemory, validatorDisk
<1>17. CASE UploadIndex
  BY <1>b, <1>u, <1>17 DEF UploadIndex, EndEpoch, Filing, Serving, Publishing, decision,
     validatorMemory, validatorDisk
<1>18. CASE BeginPass
  BY <1>b, <1>u, <1>18 DEF BeginPass, decision, validatorMemory, validatorDisk
<1>19. ASSUME NEW e \in Epochs, NEW verdict, Looked(e, verdict) PROVE TellInv'
  BY <1>b, <1>u, <1>19 DEF Looked, Find, decision, validatorMemory, validatorDisk
<1>20. CASE WriteWatermark
  BY <1>b, <1>u, <1>20 DEF WriteWatermark, decision, validatorMemory, validatorDisk
<1>21. CASE WriteCleanEpoch
  BY <1>b, <1>u, <1>21 DEF WriteCleanEpoch, decision, validatorMemory, validatorDisk
<1>22. CASE EndPass
  BY <1>b, <1>u, <1>22 DEF EndPass, decision, validatorMemory, validatorDisk
<1>23. CASE ChangeReport
  BY <1>b, <1>u, <1>23 DEF ChangeReport, decision, validatorMemory, validatorDisk
<1>24. CASE CrashValidator
  BY <1>b, <1>u, <1>24 DEF CrashValidator, Forget, decision, validatorMemory, validatorDisk
<1>25. CASE CrashAuditor
  BY <1>b, <1>u, <1>25 DEF CrashAuditor, decision, validatorMemory, validatorDisk
<1>26. CASE UNCHANGED vars
  BY <1>b, <1>u, <1>26 DEF vars, decision, validatorMemory, validatorDisk
<1>27. CASE PassRaises
  BY <1>b, <1>u, <1>27 DEF PassRaises, decision, validatorMemory, validatorDisk
<1> QED BY <1>1, <1>2, <1>3, <1>4, <1>5, <1>6, <1>7, <1>8, <1>9, <1>10, <1>11, <1>12, <1>13,
           <1>14, <1>15, <1>16, <1>17, <1>18, <1>19, <1>20, <1>21, <1>22, <1>23, <1>24,
           <1>25, <1>26, <1>27, AuditsLook
       DEF Next, ValidatorStep, ScoreStep, AuditorStep

\* Initially there is no report.
LEMMA ReplayInit == Init => ReplayInv
<1> SUFFICES ASSUME Init PROVE ReplayInv
  OBVIOUS
<1>1. (\A e \in Epochs : built[e] = NoReport) /\ \A e \in Epochs : found[e] = "none"
  BY DEF Init
<1> QED BY <1>1, NothingReplays DEF ReplayInv, DivergenceExplained

\* A report that is not changed diverges only when there is something it does not tell.
LEMMA ReplayNext ==
  ASSUME AuditTypeOK, StageInv, PastInv, AnchorInv, TellInv, ReplayInv, [Next]_vars
  PROVE  ReplayInv'
<1>0. /\ DOMAIN built = Epochs /\ DOMAIN silent = Epochs /\ DOMAIN found = Epochs
      /\ block \in Epochs /\ block \in Nat
  BY AuditTrailAssumption DEF AuditTypeOK, WorldTypeOK, AuditorTypeOK, Epochs
<1>k. ASSUME UNCHANGED <<built, found>>, changed \subseteq changed', \A e \in Epochs : silent[e] \subseteq silent'[e]
      PROVE  ReplayInv'
  <2>1. \A e \in Epochs : Told(silent'[e]) => Told(silent[e])
    BY <1>k DEF Told
  <2>2. \A e \in Epochs : Told(silent'[e]) => Replays(built'[e])
    BY <1>k, <2>1 DEF ReplayInv
  <2>3. DivergenceExplained'
    BY <1>k DEF ReplayInv, DivergenceExplained
  <2> QED BY <2>2, <2>3 DEF ReplayInv
<1>1. CASE BeginEpoch
  BY <1>k, <1>1 DEF BeginEpoch, truth, auditor, auditorDisk, auditorMemory, validatorDisk
<1>2. ASSUME NEW h \in Hotkeys, ScoreCrown(h) PROVE ReplayInv'
  BY <1>k, <1>2 DEF ScoreCrown, Score, truth, auditor, auditorDisk, auditorMemory, validatorDisk
<1>3. ASSUME NEW h \in Hotkeys, ScoreDeferred(h) PROVE ReplayInv'
  BY <1>k, <1>3 DEF ScoreDeferred, Score, truth, auditor, auditorDisk, auditorMemory, validatorDisk
<1>4. ASSUME NEW h \in Hotkeys, ScoreMeaningfulFailure(h) PROVE ReplayInv'
  BY <1>k, <1>4 DEF ScoreMeaningfulFailure, Score, truth, auditor, auditorDisk,
     auditorMemory, validatorDisk
<1>5. CASE ScorePlainFailure
  BY <1>k, <1>5 DEF ScorePlainFailure, Score, truth, auditor, auditorDisk, auditorMemory,
     validatorDisk
<1>6. CASE ComputeWeights
  BY <1>k, <1>6 DEF ComputeWeights, truth, auditor, auditorDisk, auditorMemory, validatorDisk
<1>7. CASE SetWeights
  BY <1>k, <1>7 DEF SetWeights, Forget, truth, auditor, auditorDisk, auditorMemory, validatorDisk
<1>8. CASE MakeReport
  <2> DEFINE report == BuildReport(block, views, round)
  <2>1. /\ pc = "report" /\ UNCHANGED <<found, changed>>
        /\ built' = [built EXCEPT ![block] = report] /\ silent' = [silent EXCEPT ![block] = why]
    BY <1>8 DEF MakeReport, Publishing, auditor
  <2>2. Told(why) => Replays(report)
    BY <2>1, ToldReplays
  <2>3. found[block] = "none"
    BY <1>0, <2>1 DEF PastInv, Past, StageInv
  <2> HIDE DEF report
  <2>4. \A e \in Epochs :
          /\ built'[e] = (IF e = block THEN report ELSE built[e])
          /\ silent'[e] = (IF e = block THEN why ELSE silent[e])
    BY <1>0, <2>1
  <2>5. \A e \in Epochs : Told(silent'[e]) => Replays(built'[e])
    BY <2>2, <2>4 DEF ReplayInv
  <2>6. DivergenceExplained'
    BY <2>1, <2>3, <2>4 DEF ReplayInv, DivergenceExplained
  <2> QED BY <2>5, <2>6 DEF ReplayInv
<1>9. CASE NoEndBlock
  BY <1>k, <1>9 DEF NoEndBlock, Publishing, Forget, truth, auditor, auditorDisk,
     auditorMemory, validatorDisk
<1>10. CASE CommitAuditRoot
  <2>1. UNCHANGED <<built, found, changed>> /\ \A e \in Epochs : silent[e] \subseteq silent'[e]
    BY <1>0, <1>10 DEF CommitAuditRoot, Serving, Publishing, Flaw, auditor
  <2> QED BY <1>k, <2>1
<1>11. CASE CommitFails
  BY <1>k, <1>11 DEF CommitFails, Serving, Publishing, truth, auditor, auditorDisk,
     auditorMemory, validatorDisk
<1>12. CASE ReadCommitBlock
  <2>1. UNCHANGED <<built, found, changed>> /\ \A e \in Epochs : silent[e] \subseteq silent'[e]
    BY <1>0, <1>12 DEF ReadCommitBlock, Filing, Serving, Publishing, Flaw, auditor
  <2> QED BY <1>k, <2>1
<1>13. CASE WriteReport
  BY <1>k, <1>13 DEF WriteReport, Filing, Serving, Publishing, truth, auditor, auditorDisk,
     auditorMemory, validatorDisk
<1>14. CASE WriteIndex
  BY <1>k, <1>14 DEF WriteIndex, Filing, Serving, Publishing, truth, auditor, auditorDisk,
     auditorMemory, validatorDisk
<1>15. CASE UploadReport
  BY <1>k, <1>15 DEF UploadReport, Filing, Serving, Publishing, truth, auditor, auditorDisk,
     auditorMemory, validatorDisk
<1>16. CASE UploadFails
  BY <1>k, <1>16 DEF UploadFails, EndEpoch, Filing, Serving, Publishing, truth, auditor,
     auditorDisk, auditorMemory, validatorDisk
<1>17. CASE UploadIndex
  BY <1>k, <1>17 DEF UploadIndex, EndEpoch, Filing, Serving, Publishing, truth, auditor,
     auditorDisk, auditorMemory, validatorDisk
<1>18. CASE BeginPass
  BY <1>k, <1>18 DEF BeginPass, truth, auditor, auditorDisk, auditorMemory, validatorDisk
<1>19. ASSUME NEW e \in Epochs, NEW verdict, Looked(e, verdict) PROVE ReplayInv'
  <2>1. /\ found' = [found EXCEPT ![e] = verdict] /\ UNCHANGED <<built, silent, changed>>
        /\ verdict = "diverges" => ~Replays(hub[e].report)
    BY <1>19 DEF Looked, Find, truth
  <2>2. ASSUME verdict = "diverges", e \notin changed PROVE silent[e] \intersect Reasons # {}
    <3>1. hub[e] # NoEnvelope
      BY <2>1, <2>2, NothingReplays DEF NoEnvelope, BuildEnvelope
    <3>2. hub[e].report = built[e]
      BY <1>19, <2>2, <3>1 DEF AnchorInv
    <3>3. ~Told(silent[e])
      BY <1>19, <2>1, <2>2, <3>2 DEF ReplayInv
    <3> QED BY <3>3 DEF Told
  <2>3. DivergenceExplained'
    BY <1>0, <1>19, <2>1, <2>2 DEF ReplayInv, DivergenceExplained, Reasons
  <2> QED BY <2>1, <2>3 DEF ReplayInv
<1>20. CASE WriteWatermark
  BY <1>k, <1>20 DEF WriteWatermark, truth, auditor, auditorDisk, auditorMemory, validatorDisk
<1>21. CASE WriteCleanEpoch
  BY <1>k, <1>21 DEF WriteCleanEpoch, truth, auditor, auditorDisk, auditorMemory, validatorDisk
<1>22. CASE EndPass
  BY <1>k, <1>22 DEF EndPass, truth, auditor, auditorDisk, auditorMemory, validatorDisk
<1>23. CASE ChangeReport
  BY <1>k, <1>23 DEF ChangeReport, truth, auditor, auditorDisk, auditorMemory, validatorDisk
<1>24. CASE CrashValidator
  BY <1>k, <1>24 DEF CrashValidator, Forget, truth, auditor, auditorDisk, auditorMemory,
     validatorDisk
<1>25. CASE CrashAuditor
  BY <1>k, <1>25 DEF CrashAuditor, truth, auditor, auditorDisk, auditorMemory, validatorDisk
<1>26. CASE UNCHANGED vars
  BY <1>k, <1>26 DEF vars, truth, auditor, auditorDisk, auditorMemory, validatorDisk
<1>27. CASE PassRaises
  BY <1>k, <1>27 DEF PassRaises, truth, auditor, auditorDisk, auditorMemory, validatorDisk
<1> QED BY <1>1, <1>2, <1>3, <1>4, <1>5, <1>6, <1>7, <1>8, <1>9, <1>10, <1>11, <1>12, <1>13,
           <1>14, <1>15, <1>16, <1>17, <1>18, <1>19, <1>20, <1>21, <1>22, <1>23, <1>24,
           <1>25, <1>26, <1>27, AuditsLook
       DEF Next, ValidatorStep, ScoreStep, AuditorStep

\* Only an audit finds an epoch clean.
LEMMA CleanNext ==
  ASSUME AuditTypeOK, RootsInv, ServedInv, [Next]_vars,
         NEW d \in Epochs, found'[d] = "clean", found[d] # "clean",
         hub[d].signer # "stranger"
  PROVE  hub[d].report = built[d]
<1> DEFINE Goal == hub[d].report = built[d]
<1>0. DOMAIN found = Epochs
  BY DEF AuditTypeOK, AuditorTypeOK
<1>1. CASE BeginEpoch
  BY <1>1 DEF BeginEpoch, auditor
<1>2. ASSUME NEW h \in Hotkeys, ScoreCrown(h) PROVE Goal
  BY <1>2 DEF ScoreCrown, Score, auditor
<1>3. ASSUME NEW h \in Hotkeys, ScoreDeferred(h) PROVE Goal
  BY <1>3 DEF ScoreDeferred, Score, auditor
<1>4. ASSUME NEW h \in Hotkeys, ScoreMeaningfulFailure(h) PROVE Goal
  BY <1>4 DEF ScoreMeaningfulFailure, Score, auditor
<1>5. CASE ScorePlainFailure
  BY <1>5 DEF ScorePlainFailure, Score, auditor
<1>6. CASE ComputeWeights
  BY <1>6 DEF ComputeWeights, auditor
<1>7. CASE SetWeights
  BY <1>7 DEF SetWeights, auditor
<1>8. CASE MakeReport
  BY <1>8 DEF MakeReport, Publishing, auditor
<1>9. CASE NoEndBlock
  BY <1>9 DEF NoEndBlock, Publishing, auditor
<1>10. CASE CommitAuditRoot
  BY <1>10 DEF CommitAuditRoot, Serving, Publishing, auditor
<1>11. CASE CommitFails
  BY <1>11 DEF CommitFails, Serving, Publishing, auditor
<1>12. CASE ReadCommitBlock
  BY <1>12 DEF ReadCommitBlock, Filing, Serving, Publishing, auditor
<1>13. CASE WriteReport
  BY <1>13 DEF WriteReport, Filing, Serving, Publishing, auditor
<1>14. CASE WriteIndex
  BY <1>14 DEF WriteIndex, Filing, Serving, Publishing, auditor
<1>15. CASE UploadReport
  BY <1>15 DEF UploadReport, Filing, Serving, Publishing, auditor
<1>16. CASE UploadFails
  BY <1>16 DEF UploadFails, EndEpoch, Filing, Serving, Publishing, auditor
<1>17. CASE UploadIndex
  BY <1>17 DEF UploadIndex, EndEpoch, Filing, Serving, Publishing, auditor
<1>18. CASE BeginPass
  BY <1>18 DEF BeginPass, auditor
<1>19. ASSUME NEW e \in Epochs, NEW verdict, Looked(e, verdict) PROVE Goal
  <2>1. found' = [found EXCEPT ![e] = verdict]
    BY <1>19 DEF Looked, Find
  <2> QED BY <1>0, <1>19, <2>1, CleanIsBuilt
<1>20. CASE WriteWatermark
  BY <1>20 DEF WriteWatermark, auditor
<1>21. CASE WriteCleanEpoch
  BY <1>21 DEF WriteCleanEpoch, auditor
<1>22. CASE EndPass
  BY <1>22 DEF EndPass, auditor
<1>23. CASE ChangeReport
  BY <1>23 DEF ChangeReport, auditor
<1>24. CASE CrashValidator
  BY <1>24 DEF CrashValidator, auditor
<1>25. CASE CrashAuditor
  BY <1>25 DEF CrashAuditor, auditor
<1>26. CASE UNCHANGED vars
  BY <1>26 DEF vars, auditor
<1>27. CASE PassRaises
  BY <1>27 DEF PassRaises, auditor
<1> QED BY <1>1, <1>2, <1>3, <1>4, <1>5, <1>6, <1>7, <1>8, <1>9, <1>10, <1>11, <1>12, <1>13,
           <1>14, <1>15, <1>16, <1>17, <1>18, <1>19, <1>20, <1>21, <1>22, <1>23, <1>24,
           <1>25, <1>26, <1>27, AuditsLook
       DEF Next, ValidatorStep, ScoreStep, AuditorStep

-----------------------------------------------------------------------------
\* The theorems.

\* Everything proved of the audit trail holds in every state.
LEMMA AuditInvariant == Spec => []AuditInv
<1>1. Init => AuditInv
  BY AuditTypeInit, StageInit, PastInit, ServedInit, PassInit, RootsInit, AnchorInit,
     TellInit, ReplayInit DEF AuditInv
<1>2. AuditInv /\ [Next]_vars => AuditInv'
  <2> SUFFICES ASSUME AuditInv, [Next]_vars PROVE AuditInv'
    OBVIOUS
  <2>1. /\ AuditTypeOK /\ StageInv /\ PastInv /\ ServedInv /\ PassInv
        /\ RootsInv /\ AnchorInv /\ TellInv /\ ReplayInv
    BY DEF AuditInv
  <2>2. AuditTypeOK' /\ StageInv' /\ PastInv' /\ ServedInv'
    BY <2>1, AuditTypeNext, StageNext, PastNext, ServedNext
  <2>3. PassInv'
    BY <2>1, PassNext
  <2>4. RootsInv' /\ AnchorInv'
    BY <2>1, RootsNext, AnchorNext
  <2>5. TellInv' /\ ReplayInv'
    BY <2>1, TellNext, ReplayNext
  <2> QED BY <2>2, <2>3, <2>4, <2>5 DEF AuditInv
<1> QED BY <1>1, <1>2, PTL DEF Spec

\* Whoever reads the index on the Hub finds every report it lists, and so does the
\* validator on its own disk, whichever steps of the publication failed or were cut
\* short; and as long as nothing crashed the validator's own index lists it too.
THEOREM ListedIsServed == Spec => []IndexedIsServed
<1>1. AuditInv => IndexedIsServed
  BY DEF AuditInv, ServedInv
<1> QED BY <1>1, AuditInvariant, PTL

\* The block an envelope names leads to the root of its report, though the roots
\* of later epochs have overwritten it since: the root landed before the block was
\* read, and the next one lands in a later block.
THEOREM RootsAreFound == Spec => []ServedIsAnchored
<1>1. AuditInv => ServedIsAnchored
  <2> SUFFICES ASSUME AuditInv, NEW e \in Epochs, hub[e] # NoEnvelope, e \notin changed,
                      silent[e] \intersect {"refused", "undated"} = {}
               PROVE  ArchivedRoot(hub[e].commitBlock) = hub[e].report
    BY DEF ServedIsAnchored
  <2>1. AuditTypeOK /\ hub[e] \in Envelopes
    BY DEF AuditInv, AuditTypeOK, WorldTypeOK
  <2>2. Anchored(hub[e])
    BY DEF AuditInv, AnchorInv, Unflawed
  <2> QED BY <2>1, <2>2, AnchoredFinds
<1> QED BY <1>1, AuditInvariant, PTL

\* A report that is found clean against the chain is the one the validator built,
\* whatever was done to the published copy but naming another signer.
THEOREM AlteredIsNotClean == Spec => AlterationNeverClean
<1>1. AuditInv /\ [Next]_vars =>
        [\A e \in Epochs :
           (found'[e] = "clean" /\ found[e] # "clean" /\ hub[e].signer # "stranger")
             => hub[e].report = built[e]]_vars
  BY CleanNext DEF AuditInv
<1>2. Spec =>
        [][\A e \in Epochs :
             (found'[e] = "clean" /\ found[e] # "clean" /\ hub[e].signer # "stranger")
               => hub[e].report = built[e]]_vars
  BY <1>1, AuditInvariant, PTL DEF Spec
<1> QED BY <1>2 DEF AlterationNeverClean

\* The auditor's replay of the outcomes gives the weights of every unchanged
\* report, but of those that leave out what the weights are owed to.
THEOREM DivergenceHasReason == Spec => []DivergenceExplained
<1>1. AuditInv => DivergenceExplained
  BY DEF AuditInv, ReplayInv
<1> QED BY <1>1, AuditInvariant, PTL

\* The watermark passes over no listed epoch the auditor has not looked at, though
\* epochs are listed while it works and it may crash in the middle of a pass.
THEOREM AuditorSkipsNone == Spec => []NoneSkipped
<1>1. AuditInv => NoneSkipped
  BY DEF AuditInv, PassInv
<1> QED BY <1>1, AuditInvariant, PTL

\* The epoch whose weights the auditor sets is the newest it found clean, but after
\* a crash between its two files.
THEOREM CleanEpochIsNewest == Spec => []CleanEpochCurrent
<1>1. AuditInv => CleanEpochCurrent
  BY DEF AuditInv, PassInv
<1> QED BY <1>1, AuditInvariant, PTL

=============================================================================
