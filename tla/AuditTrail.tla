----------------------------- MODULE AuditTrail -----------------------------
(***************************************************************************)
(* The audit trail of a validator and an auditor that follows it.          *)
(*                                                                         *)
(* The validator: the end of run_epoch() of validator/service.py, with     *)
(* _generate_audit_report(), commit_audit_root() of the chain layer,       *)
(* write_report() and publish_report_hf().  The scoring itself is reduced  *)
(* to the outcomes it may have.                                            *)
(*                                                                         *)
(* The auditor: audit_new_epochs() and audit_epoch() of auditor/main.py,   *)
(* with the two files they write; CounterWeight has the rest of its loop.  *)
(***************************************************************************)
EXTENDS AuditReport

CONSTANTS
  MergeGate,    \* RALPH_REQUIRE_MERGED_KING_PR
  PinnedSigner, \* VALIDATOR_HOTKEY is set where the auditor runs
  FirstKings,   \* who may be king when the validator starts, NoHotkey if none ever was
  LastBlock,    \* bound on blocks
  MaxEpochs,    \* bound on epochs
  MaxScored,    \* bound on submissions scored, over all epochs
  MaxTroubles   \* bound on failures of the chain and the Hub, on reports changed
                \* after they were published and on crashes, together

ASSUME AuditTrailAssumption ==
  /\ MergeGate \in BOOLEAN /\ PinnedSigner \in BOOLEAN
  /\ FirstKings \subseteq Hotkeys \union {NoHotkey}
  /\ LastBlock \in Nat \ {0}
  /\ MaxEpochs \in Nat /\ MaxScored \in Nat
  /\ MaxTroubles \in Nat

VARIABLES
  \* on the validator's disk
  king,        \* hotkey of the sitting king
  reigned,     \* there ever was one
  pending,     \* pending_weights.json
  filed,       \* epochs of which audit_reports/ holds the report
  localIndex,  \* and those its index.json lists
  torn,        \* that index.json was cut short by a crash
  \* the world
  block,
  roots,       \* commitments of the validator's hotkey, oldest first
  hub,         \* what the Hub holds of each epoch
  hubIndex,    \* epochs index.json on the Hub lists
  \* lost in a crash of the validator
  pc, views, failures, crowned, recovered, round, envelope,
  \* on the auditor's disk
  watermark,   \* .audit_state
  cleanEpoch,  \* .audit_last_clean_epoch
  \* lost in a crash of the auditor
  step, todo, at,
  \* kept only to state properties
  built,       \* the report the validator built in each epoch
  why,         \* what this epoch's report does not tell about its weights
  silent,      \* the same of each report built, and what went wrong with its root
  changed,     \* epochs whose published report was changed
  found,       \* what the auditor last found of each epoch
  epochs, scored, faults, crashes

Epochs == 1 .. LastBlock

validatorDisk == <<king, reigned, pending, filed, localIndex, torn>>
published == <<roots, hub, hubIndex>>
decision == <<views, failures, crowned, recovered, round>>
validatorMemory == <<pc, decision, envelope>>
auditorDisk == <<watermark, cleanEpoch>>
auditorMemory == <<step, todo, at>>
auditor == <<auditorDisk, auditorMemory, found>>
truth == <<built, silent>>
bounds == <<epochs, scored, faults, crashes>>
vars == <<validatorDisk, block, published, validatorMemory, auditorDisk,
          auditorMemory, truth, why, changed, found, bounds>>

Init ==
  /\ king \in FirstKings /\ reigned = (king # NoHotkey) /\ pending = NoWeights
  /\ filed = {} /\ localIndex = {} /\ torn = FALSE
  /\ block = 1 /\ roots = <<>>
  /\ hub = [e \in Epochs |-> NoEnvelope] /\ hubIndex = {}
  /\ pc = "idle" /\ views = <<>> /\ failures = {} /\ crowned = NoHotkey
  /\ recovered = NoWeights /\ round = NoWeights /\ why = {} /\ envelope = NoEnvelope
  /\ watermark = 0 /\ cleanEpoch = 0
  /\ step = "idle" /\ todo = {} /\ at = 0
  /\ built = [e \in Epochs |-> NoReport] /\ silent = [e \in Epochs |-> {}]
  /\ changed = {} /\ found = [e \in Epochs |-> "none"]
  /\ epochs = 0 /\ scored = 0 /\ faults = 0 /\ crashes = 0

Troubles == faults + Cardinality(changed) + crashes

Fault == Troubles < MaxTroubles /\ faults' = faults + 1
NoFault == UNCHANGED faults

\* The locals of run_epoch are gone.
Forget ==
  /\ views' = <<>> /\ failures' = {} /\ crowned' = NoHotkey
  /\ recovered' = NoWeights /\ round' = NoWeights /\ why' = {}

-----------------------------------------------------------------------------
\* run_epoch: scoring

BeginEpoch ==
  /\ pc = "idle" /\ epochs < MaxEpochs
  /\ pc' = "score" /\ epochs' = epochs + 1
  /\ recovered' = pending /\ UNCHANGED <<views, failures, crowned, round, envelope, why>>
  /\ UNCHANGED <<validatorDisk, block, published, auditor, truth, changed,
                 scored, faults, crashes>>

\* A training run is judged in no less than a block.
Score(view) ==
  /\ pc = "score" /\ scored < MaxScored /\ block < LastBlock
  /\ scored' = scored + 1 /\ block' = block + 1
  /\ views' = Append(views, view)
  /\ UNCHANGED <<pending, filed, localIndex, torn, published, pc, recovered, round,
                 envelope, auditor, truth, changed, epochs, faults, crashes>>

\* The first king ever needs no bar to beat.
IsFirst == king = NoHotkey /\ ~reigned

ScoreCrown(h) ==
  /\ Score(View(h, ~IsFirst, IsFirst, "king_change"))
  /\ king' = h /\ reigned' = TRUE /\ crowned' = h
  /\ UNCHANGED <<failures, why>>

\* The tenure guard leaves the challenger in the queue, but in the report too.
ScoreDeferred(h) ==
  /\ king # NoHotkey
  /\ Score(View(h, TRUE, FALSE, "king_change"))
  /\ why' = why \union {"deferred"}
  /\ UNCHANGED <<king, reigned, failures, crowned>>

ScoreMeaningfulFailure(h) ==
  /\ king # NoHotkey
  /\ Score(View(h, FALSE, FALSE, "meaningful_failure"))
  /\ failures' = failures \union {h}
  /\ UNCHANGED <<king, reigned, crowned, why>>

\* Whose plain failure it was matters to nobody.
ScorePlainFailure ==
  /\ reigned
  /\ Score(View(NoHotkey, FALSE, FALSE, "plain_failure"))
  /\ UNCHANGED <<king, reigned, failures, crowned, why>>

-----------------------------------------------------------------------------
\* run_epoch: weights

PaidKing == IF crowned # NoHotkey THEN crowned ELSE king

\* withheld: GitHub does not say that the king's recipe PR is merged.
Split(withheld) == IF withheld THEN NoWeights ELSE PoolSplit(PaidKing, failures)

\* What the weights owe to something else than the outcomes of this epoch.
Unexplained(withheld) ==
  {w \in {"withheld"} : withheld}
    \union {w \in {"recovered"} :
              MergeRecovered(Split(withheld), recovered, PaidKing) # Split(withheld)}

\* _apply_pool_split, _merge_recovered_weights and _save_pending_weights.
ComputeWeights ==
  /\ pc = "score"
  /\ \E withheld \in IF MergeGate /\ PaidKing # NoHotkey THEN BOOLEAN ELSE {FALSE} :
       /\ round' = MergeRecovered(Split(withheld), recovered, PaidKing)
       /\ why' = why \union Unexplained(withheld)
  /\ pending' = IF round' # NoWeights THEN round' ELSE pending
  /\ pc' = "emit"
  /\ UNCHANGED <<king, reigned, filed, localIndex, torn, block, published, views, failures, crowned,
                 recovered, envelope, auditor, truth, changed, bounds>>

\* set_weights, or the burn when there is nothing to set: it lands or not.  A
\* report is made of epochs that scored something.
SetWeights ==
  /\ pc = "emit"
  /\ \/ pending' = (IF round # NoWeights THEN NoWeights ELSE pending) /\ NoFault
     \/ UNCHANGED pending /\ Fault
  /\ \/ views # <<>> /\ pc' = "report" /\ UNCHANGED <<decision, why>>
     \/ views = <<>> /\ pc' = "idle" /\ Forget
  /\ UNCHANGED <<king, reigned, filed, localIndex, torn, block, published, envelope, auditor,
                 truth, changed, epochs, scored, crashes>>

-----------------------------------------------------------------------------
\* _generate_audit_report

Publishing(from, to) ==
  /\ pc = from /\ pc' = to
  /\ UNCHANGED <<king, reigned, pending, auditor, changed, epochs, scored, crashes>>

\* A signature that cannot be made is left out.  Nothing after this reads the
\* decision.
MakeReport ==
  /\ Publishing("report", "commit") /\ Forget
  /\ LET report == BuildReport(block, views, round)
     IN  /\ \/ envelope' = BuildEnvelope(report, report, 0) /\ NoFault
            \/ envelope' = BuildEnvelope(report, NoReport, 0) /\ Fault
         /\ built' = [built EXCEPT ![block] = report]
         /\ silent' = [silent EXCEPT ![block] = why]
  /\ UNCHANGED <<block, filed, localIndex, torn, published>>

\* The block of the epoch's end cannot be read.
NoEndBlock ==
  /\ Publishing("report", "idle") /\ Forget /\ Fault
  /\ UNCHANGED <<block, filed, localIndex, torn, published, envelope, truth>>

\* The steps between the report and the end of the epoch.
Serving(from, to) == Publishing(from, to) /\ UNCHANGED <<decision, why>>

This == envelope.report.id
Flaw(what) == silent' = [silent EXCEPT ![This] = @ \union {what}]

\* The extrinsic is in a later block than the one the epoch ended at.
Land ==
  /\ block < LastBlock /\ block' = block + 1
  /\ roots' = Append(roots, [block |-> block', report |-> envelope.report])

\* commit_audit_root does not look at what set_commitment returns: a refused
\* extrinsic passes for one that landed.
CommitAuditRoot ==
  /\ Serving("commit", "read")
  /\ \/ Land /\ UNCHANGED silent /\ NoFault
     \/ UNCHANGED <<block, roots>> /\ Flaw("refused") /\ Fault
  /\ UNCHANGED <<filed, localIndex, torn, hub, hubIndex, envelope, built>>

\* set_commitment raises, whether or not the extrinsic landed: no report.
CommitFails ==
  /\ Serving("commit", "idle") /\ envelope' = NoEnvelope /\ Fault
  /\ Land \/ UNCHANGED <<block, roots>>
  /\ UNCHANGED <<filed, localIndex, torn, hub, hubIndex, truth>>

\* No more blocks that matter to anyone.
Filing(from, to) == Serving(from, to) /\ UNCHANGED block
EndEpoch(from) == Filing(from, "idle") /\ envelope' = NoEnvelope

\* Mutant: the report is dated by the block its epoch ended at.
ReadEndBlock ==
  /\ Filing("read", "write")
  /\ envelope' = [envelope EXCEPT !.commitBlock = envelope.report.id]
  /\ UNCHANGED <<filed, localIndex, torn, published, truth, faults>>

\* The block is read once the extrinsic is in.  _current_block answers 0 when it cannot be read.
ReadCommitBlock ==
  /\ Filing("read", "write")
  /\ \/ envelope' = [envelope EXCEPT !.commitBlock = block] /\ UNCHANGED silent /\ NoFault
     \/ UNCHANGED envelope /\ Flaw("undated") /\ Fault
  /\ UNCHANGED <<filed, localIndex, torn, published, built>>

WriteReport ==
  /\ Filing("write", "index")
  /\ filed' = filed \union {This}
  /\ UNCHANGED <<localIndex, torn, published, envelope, truth, faults>>

\* An index.json that does not parse is taken for an empty one.
WriteIndex ==
  /\ Filing("index", "upload")
  /\ localIndex' = (IF torn THEN {} ELSE localIndex) \union {This}
  /\ torn' = FALSE
  /\ UNCHANGED <<filed, published, envelope, truth, faults>>

\* Mutant: the index is uploaded first.
UploadIndexFirst ==
  /\ Filing("upload", "publish")
  /\ hubIndex' = hubIndex \union {This}
  /\ UNCHANGED <<filed, localIndex, torn, roots, hub, envelope, truth, faults>>

\* publish_report_hf: the report, then the index.  A failure ends it, and
\* nothing publishes this epoch later.
UploadReport ==
  /\ Filing("upload", "publish")
  /\ hub' = [hub EXCEPT ![This] = envelope]
  /\ UNCHANGED <<filed, localIndex, torn, roots, hubIndex, envelope, truth, faults>>

UploadFails ==
  /\ EndEpoch("upload") \/ EndEpoch("publish")
  /\ Fault
  /\ UNCHANGED <<filed, localIndex, torn, published, truth>>

\* _fetch_remote_index: an index that cannot be read is taken for an empty one.
UploadIndex ==
  /\ EndEpoch("publish")
  /\ \/ hubIndex' = hubIndex \union {This} /\ NoFault
     \/ hubIndex' = {This} /\ Fault
  /\ UNCHANGED <<filed, localIndex, torn, roots, hub, truth>>

-----------------------------------------------------------------------------
\* The auditor

\* The index entries newer than the watermark.  A pass that cannot list the
\* reports, or finds nothing new, does nothing.
BeginPass ==
  /\ step = "idle"
  /\ todo' = {e \in hubIndex : e > watermark} /\ todo' # {}
  /\ step' = "audit"
  /\ UNCHANGED <<validatorDisk, block, published, validatorMemory, auditorDisk, at,
                 truth, why, changed, found, bounds>>

\* Mutant: in the order of the index.
AnyOrder(e) == e \in todo

\* Sorted by epoch_end_block.
NextOf(e) == e \in todo /\ \A d \in todo : e <= d

\* The root that stood at a block, on an archive node.
ArchivedRoot(b) ==
  LET then == {i \in DOMAIN roots : roots[i].block <= b}
  IN  IF then = {} THEN NoReport
      ELSE roots[CHOOSE i \in then : \A j \in then : j <= i].report

\* What get_commitment_hash is asked for is the root of the envelope's own signer,
\* whoever that is, and only when it names none the one the auditor was told.  A
\* stranger has anchored what it signed; the root of a garbled name is not found.
AnchoredRoot(e) ==
  CASE e.signer = "validator" \/ (e.signer = "none" /\ PinnedSigner) -> ArchivedRoot(e.commitBlock)
    [] e.signer = "stranger" -> e.report
    [] OTHER -> NoReport

\* Gates 1 to 3 on an envelope, given what the chain said of its root.
Gates(e, root) ==
  CASE ~VerifyReport(e, root) -> "bad"
    [] VerifyReport(e, root) /\ CompareWeights(e.report.weights, ReplayScoring(e.report)) # {} -> "diverges"
    [] OTHER -> IF root = NoReport THEN "unanchored" ELSE "clean"

\* Both count as clean; the second was not compared with the chain.
Clean(verdict) == verdict \in {"clean", "unanchored"}

Find(e, verdict) ==
  /\ found' = [found EXCEPT ![e] = verdict]
  /\ todo' = todo \ {e}
  /\ IF Clean(verdict)
     THEN step' = "mark" /\ at' = e
     ELSE UNCHANGED <<step, at>>
  /\ UNCHANGED <<validatorDisk, block, published, validatorMemory, auditorDisk,
                 truth, why, changed, epochs, scored, crashes>>

\* audit_epoch.  get_commitment_hash turns a failed query into None, as if
\* nothing had been committed.
AuditEpoch ==
  /\ step = "audit"
  /\ \E e \in Epochs :
       /\ NextOf(e) /\ ~VerifyRaises(hub[e])
       /\ LET root == AnchoredRoot(hub[e])
          IN  \/ Find(e, Gates(hub[e], root)) /\ NoFault
              \/ root # NoReport /\ Find(e, Gates(hub[e], NoReport)) /\ Fault

\* The report cannot be fetched: EXIT_NETWORK, and on to the next epoch.
FetchFails ==
  /\ step = "audit"
  /\ \E e \in Epochs : NextOf(e) /\ Find(e, "network")
  /\ Fault

\* audit_epoch expects nothing but an AssertionError of Gate 1: anything else ends
\* the pass, and the next one begins with the same epochs again.
PassRaises ==
  /\ step = "audit"
  /\ \E e \in Epochs : NextOf(e) /\ VerifyRaises(hub[e])
  /\ step' = "idle" /\ todo' = {}
  /\ UNCHANGED <<validatorDisk, block, published, validatorMemory, auditorDisk, at,
                 truth, why, changed, found, bounds>>

\* Mutant: everything listed counts as audited.
WatermarkAtNewest ==
  /\ step = "mark"
  /\ watermark' = (CHOOSE e \in hubIndex : \A d \in hubIndex : d <= e) /\ step' = "note"
  /\ UNCHANGED <<validatorDisk, block, published, validatorMemory, cleanEpoch, todo, at,
                 truth, why, changed, found, bounds>>

\* Two files, one after the other.
WriteWatermark ==
  /\ step = "mark"
  /\ watermark' = at /\ step' = "note"
  /\ UNCHANGED <<validatorDisk, block, published, validatorMemory, cleanEpoch, todo, at,
                 truth, why, changed, found, bounds>>

\* Mutant: the first clean epoch is kept.
KeepFirstClean ==
  /\ step = "note"
  /\ cleanEpoch' = (IF cleanEpoch = 0 THEN at ELSE cleanEpoch) /\ step' = "audit" /\ at' = 0
  /\ UNCHANGED <<validatorDisk, block, published, validatorMemory, watermark, todo,
                 truth, why, changed, found, bounds>>

WriteCleanEpoch ==
  /\ step = "note"
  /\ cleanEpoch' = at /\ step' = "audit" /\ at' = 0
  /\ UNCHANGED <<validatorDisk, block, published, validatorMemory, watermark, todo,
                 truth, why, changed, found, bounds>>

EndPass ==
  /\ step = "audit" /\ todo = {}
  /\ step' = "idle"
  /\ UNCHANGED <<validatorDisk, block, published, validatorMemory, auditorDisk, todo, at,
                 truth, why, changed, found, bounds>>

-----------------------------------------------------------------------------
\* The world, crashes

\* Another weight vector in a published report: alone, with its hash, or with
\* its hash and its signature, the validator's or under another's name; or a signer
\* that is no address.
Falsified(e) ==
  LET other == [e.report EXCEPT !.weights = NoWeights]
  IN  {[e EXCEPT !.report = other], [e EXCEPT !.report = other, !.sha = other],
       [e EXCEPT !.report = other, !.sha = other, !.signature = IF Signed(e) THEN other ELSE NoReport],
       [e EXCEPT !.report = other, !.sha = other, !.signature = other, !.signer = "stranger"],
       [e EXCEPT !.signer = "garbled"]}

ChangeReport ==
  /\ Troubles < MaxTroubles
  /\ \E e \in Epochs :
       /\ hub[e] # NoEnvelope /\ e \notin changed /\ e > watermark
       /\ \E f \in Falsified(hub[e]) : hub' = [hub EXCEPT ![e] = f]
       /\ changed' = changed \union {e}
  /\ UNCHANGED <<validatorDisk, block, roots, hubIndex, validatorMemory, auditor, truth, why,
                 epochs, scored, faults, crashes>>

Dies == Troubles < MaxTroubles /\ crashes' = crashes + 1

\* index.json is rewritten in place.
CrashValidator ==
  /\ pc # "idle" /\ Dies
  /\ pc' = "idle"
  /\ torn' \in IF pc = "index" THEN BOOLEAN ELSE {torn}
  /\ Forget /\ envelope' = NoEnvelope
  /\ UNCHANGED <<king, reigned, pending, filed, localIndex, block, published, auditor, truth, changed,
                 epochs, scored, faults>>

CrashAuditor ==
  /\ step # "idle" /\ Dies
  /\ step' = "idle" /\ todo' = {} /\ at' = 0
  /\ UNCHANGED <<validatorDisk, block, published, validatorMemory, auditorDisk, truth, why,
                 changed, found, epochs, scored, faults>>

-----------------------------------------------------------------------------

ScoreStep ==
  \/ \E h \in Hotkeys : ScoreCrown(h) \/ ScoreDeferred(h) \/ ScoreMeaningfulFailure(h)
  \/ ScorePlainFailure

ValidatorStep ==
  \/ BeginEpoch \/ ScoreStep \/ ComputeWeights \/ SetWeights
  \/ MakeReport \/ NoEndBlock \/ CommitAuditRoot \/ CommitFails \/ ReadCommitBlock
  \/ WriteReport \/ WriteIndex \/ UploadReport \/ UploadIndex \/ UploadFails

AuditorStep ==
  \/ BeginPass \/ AuditEpoch \/ FetchFails \/ PassRaises \/ WriteWatermark \/ WriteCleanEpoch
  \/ EndPass

Next ==
  \/ ValidatorStep \/ AuditorStep
  \/ ChangeReport \/ CrashValidator \/ CrashAuditor

\* The auditor runs in a loop, or is run again and again.
Spec == Init /\ [][Next]_vars /\ WF_vars(AuditorStep)

=============================================================================
