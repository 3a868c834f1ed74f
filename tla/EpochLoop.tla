----------------------------- MODULE EpochLoop -----------------------------
(***************************************************************************)
(* The validator service: main() and run_epoch() of validator/service.py,  *)
(* with the files it keeps under queue/ and chain/ and the chain, GitHub   *)
(* and the miners around it.                                               *)
(*                                                                         *)
(* Every action is one step between two writes that a crash can separate;  *)
(* where one makes two writes (PollQueue, RunAudit), a crash between them  *)
(* is an action of its own.                                                *)
(* What a crash forgets (the local variables of run_epoch, the in-process  *)
(* cache of merged PRs) is kept apart from what the files remember.        *)
(***************************************************************************)
EXTENDS Scoring, Sequences

CONSTANTS
  Bundles,      \* submissions, numbered in the order their HF PRs were created
  NoBundle,     \* None where a bundle is expected
  Owner,        \* miner_hotkey of each bundle
  Metric,       \* what the hidden eval and the calibration measure for it
  Sound,        \* bundles op1 (less the handshake) .. op4 accept
  Informative,  \* bundles with a non-trivial diff and a coherent rationale
  Sampled,      \* bundles the deterministic 10% sample picks for an audit
  Fraudulent,   \* bundles whose re-run does not match
  Tenure,       \* RALPH_KING_MIN_TENURE_BLOCKS
  RateLimit,    \* weights_rate_limit of the subnet
  RequireMergedKingPr, OneInFlight, BurnFallback, LiveHandshake,  \* RALPH_* switches
  Faults,       \* what may go wrong outside the validator
  MaxCrashes    \* bound on crashes

FaultKinds == {"score", "rpc", "merge", "github", "extrinsic", "enqueue", "audit", "tear", "deregister"}

ASSUME EpochLoopAssumption ==
  /\ Bundles \subseteq Nat
  /\ NoBundle \notin Bundles
  /\ Owner \in [Bundles -> Hotkeys]
  /\ Metric \in [Bundles -> Metrics]
  /\ Sound \subseteq Bundles
  /\ Informative \subseteq Bundles
  /\ Sampled \subseteq Bundles
  /\ Fraudulent \subseteq Bundles
  /\ Tenure \in Nat
  /\ RateLimit \in Nat
  /\ RequireMergedKingPr \in BOOLEAN
  /\ OneInFlight \in BOOLEAN
  /\ BurnFallback \in BOOLEAN
  /\ LiveHandshake \in BOOLEAN
  /\ Faults \subseteq FaultKinds
  /\ MaxCrashes \in Nat

VARIABLES
  \* on disk
  loc,             \* where each bundle is: hub or a directory of queue/
  throne,          \* king.json: the king (last) on its chain of previous_king
  reign,           \* blocks since a king's crowned_at_block, at most Tenure
  corrupt,         \* king.json was cut short and does not parse
  highWater,       \* high_water.json: the bundle whose metrics it holds
  pendingWeights,  \* pending_weights.json
  claims,          \* inflight.json
  audits,          \* audit_queue/: where each bundle's job is
  blacklist,       \* blacklist.json
  \* the world
  recipePr,        \* state of each bundle's GitHub recipe PR
  commitment,      \* the one commitment slot of each hotkey
  registered,      \* hotkeys on the metagraph
  onChain,         \* the weights this validator last landed
  sinceUpdate,     \* blocks since then, at most RateLimit + 1
  \* lost in a crash
  pc,              \* the step run_epoch is at
  busy,            \* the epoch found submissions
  todo,            \* bundles of this epoch still to be looked at
  current,         \* the bundle being handled
  verdict,         \* what score_and_decide said of it
  crowned,         \* king_change_hotkey
  failures,        \* meaningful_failure_hotkeys
  recovered,       \* weights loaded from pending_weights.json
  round,           \* round_scores
  mergedCache,     \* _MERGED_PR_URLS
  \* kept only to state properties
  crashes,         \* crashes so far
  reigned,         \* bundles that were ever king
  unpaid,          \* meaningful failures not paid yet
  forgone          \* those of them an epoch that withheld all weight gave up

disk == <<loc, throne, reign, corrupt, highWater, pendingWeights, claims, audits, blacklist>>
world == <<recipePr, commitment, registered, onChain, sinceUpdate>>
locals == <<pc, busy, todo, current, verdict, crowned, failures, recovered, round, mergedCache>>
ghosts == <<crashes, reigned, unpaid, forgone>>
vars == <<disk, world, locals, ghosts>>

\* Parts that most steps leave alone.
throneFiles == <<throne, reign, corrupt, highWater>>
scratch == <<busy, todo, current, verdict, crowned, failures, recovered, round>>

Locations == {"unsubmitted", "hub", "pending", "scored", "rejected", "meaningful_failure"}
Verdicts == {"none", "rejected"} \cup Classifications
Steps == {"down", "idle", "poll", "loop", "close", "archive", "crown", "mark", "enqueue",
          "merge", "save", "burn", "emit", "clear", "audit"}
\* "cut" is a job file that does not parse.
AuditBins == {"none", "cut", "queued", "passed", "failed", "errored", "skipped_missing"}

DiskTypeOK ==
  /\ loc \in [Bundles -> Locations]
  /\ throne \in Seq(Bundles)
  /\ reign \in [Bundles -> 0 .. Tenure]
  /\ corrupt \in BOOLEAN
  /\ highWater \in Bundles \cup {NoBundle}
  /\ pendingWeights \in WeightMaps
  /\ claims \in [Hotkeys -> Bundles \cup {NoBundle}]
  /\ audits \in [Bundles -> AuditBins]
  /\ blacklist \subseteq Hotkeys

WorldTypeOK ==
  /\ recipePr \in [Bundles -> {"none", "open", "merged", "closed"}]
  /\ commitment \in [Hotkeys -> Bundles \cup {NoBundle}]
  /\ registered \subseteq Hotkeys
  /\ onChain \in WeightMaps
  /\ sinceUpdate \in 0 .. RateLimit + 1

LocalsTypeOK ==
  /\ pc \in Steps
  /\ busy \in BOOLEAN
  /\ todo \subseteq Bundles
  /\ current \in Bundles \cup {NoBundle}
  /\ verdict \in Verdicts
  /\ crowned \in Hotkeys \cup {NoHotkey}
  /\ failures \subseteq Hotkeys
  /\ recovered \in WeightMaps
  /\ round \in WeightMaps
  /\ mergedCache \subseteq Bundles

GhostsTypeOK ==
  /\ crashes \in 0 .. MaxCrashes
  /\ reigned \subseteq Bundles
  /\ unpaid \subseteq Bundles
  /\ forgone \subseteq unpaid

TypeOK == DiskTypeOK /\ WorldTypeOK /\ LocalsTypeOK /\ GhostsTypeOK

Pending == {b \in Bundles : loc[b] = "pending"}

----------------------------------------------------------------------------
\* The throne.

Top(line) == line[Len(line)]

Kings == IF throne = <<>> THEN {} ELSE {Top(throne)}

\* chain.get_king(): the sitting king's hotkey, or None.
KingHotkey == IF throne = <<>> THEN NoHotkey ELSE Owner[Top(throne)]

\* score_and_decide: the reigning king's bar, or the high-water mark's.
Bars ==
  IF throne # <<>> THEN {Top(throne)}
  ELSE IF highWater # NoBundle THEN {highWater} ELSE {}

\* Mutant: the high-water mark is not asked.
EmptyThrone == throne = <<>>

\* is_first: no king now and no king ever.
IsFirst == throne = <<>> /\ highWater = NoBundle

Decisively(b) == IsFirst \/ \E bar \in Bars : DecisivelyBeats(Metric[bar], Metric[b])

\* Mutant: a king whose PR cannot be looked up counts as merged.
PrFailsOpen(b, down) ==
  loc[b] = "scored" /\ (b \in mergedCache \union down \/ recipePr[b] = "merged")

\* _king_record_pr_merged: proof_dir must hold the bundle, and GitHub confirm
\* the merge unless the cache already did.  down is the set of lookups that fail.
PrMerged(b, down) ==
  /\ loc[b] = "scored"
  /\ \/ b \in mergedCache
     \/ recipePr[b] = "merged" /\ b \notin down

Outages == IF "github" \in Faults THEN SUBSET {throne[i] : i \in 1 .. Len(throne)} ELSE {{}}

\* _reinstate_valid_king: the positions of the lineage whose PR is merged.
ValidKings(down) == {i \in 1 .. Len(throne) : PrMerged(throne[i], down)}

\* The lineage up to its newest valid king; empty when there is none.
Reinstated(down) ==
  IF ValidKings(down) = {} THEN <<>>
  ELSE SubSeq(throne, 1, CHOOSE i \in ValidKings(down) : \A j \in ValidKings(down) : j <= i)

\* The walk stops at the first confirmed merge, and caches it.
Confirmed(down) == IF Reinstated(down) = <<>> THEN {} ELSE {Top(Reinstated(down))}

----------------------------------------------------------------------------
Init ==
  /\ loc = [b \in Bundles |-> "unsubmitted"]
  /\ throne = <<>>
  /\ reign = [b \in Bundles |-> Tenure]
  /\ corrupt = FALSE
  /\ highWater = NoBundle
  /\ pendingWeights = NoWeights
  /\ claims = [h \in Hotkeys |-> NoBundle]
  /\ audits = [b \in Bundles |-> "none"]
  /\ blacklist = {}
  /\ recipePr = [b \in Bundles |-> "none"]
  /\ commitment = [h \in Hotkeys |-> NoBundle]
  /\ registered = Hotkeys
  /\ onChain = NoWeights
  /\ sinceUpdate = RateLimit + 1
  /\ pc = "idle"
  /\ busy = FALSE
  /\ todo = {}
  /\ current = NoBundle
  /\ verdict = "none"
  /\ crowned = NoHotkey
  /\ failures = {}
  /\ recovered = NoWeights
  /\ round = NoWeights
  /\ mergedCache = {}
  /\ crashes = 0
  /\ reigned = {}
  /\ unpaid = {}
  /\ forgone = {}

----------------------------------------------------------------------------
\* Start of an epoch.

\* run_epoch: repair the throne before anything is scored.
BeginEpoch ==
  /\ pc = "idle"
  /\ pc' = "poll"
  /\ IF RequireMergedKingPr /\ throne # <<>>
     THEN \E down \in Outages :
            /\ throne' = Reinstated(down)
            /\ mergedCache' = mergedCache \cup Confirmed(down)
     ELSE UNCHANGED <<throne, mergedCache>>
  /\ UNCHANGED <<loc, reign, corrupt, highWater, pendingWeights, claims, audits, blacklist>>
  /\ UNCHANGED <<world, scratch, ghosts>>

\* What poll_hub has brought to queue/pending.
Fetched(new) == [b \in Bundles |-> IF b \in new THEN "pending" ELSE loc[b]]

\* InFlightGuard.reconcile: drop the claims on bundles that are gone.
Reconciled(present) ==
  [h \in Hotkeys |-> IF claims[h] \in present THEN claims[h] ELSE NoBundle]

\* poll_hub fetches some of the new bundles, poll_queue takes a snapshot of
\* queue/pending, and run_epoch resets its accumulators.
PollQueue ==
  /\ pc = "poll"
  /\ \E fetched \in SUBSET {b \in Bundles : loc[b] = "hub"} :
       /\ loc' = Fetched(fetched)
       /\ todo' = Pending \cup fetched
       /\ busy' = (todo' # {})
       /\ claims' = IF OneInFlight THEN Reconciled(todo') ELSE claims
  /\ recovered' = pendingWeights
  /\ current' = NoBundle
  /\ verdict' = "none"
  /\ crowned' = NoHotkey
  /\ failures' = {}
  /\ round' = NoWeights
  /\ pc' = "loop"
  /\ UNCHANGED <<throneFiles, pendingWeights, audits, blacklist, mergedCache>>
  /\ UNCHANGED <<world, ghosts>>

----------------------------------------------------------------------------
\* The scoring loop, oldest submission first.

Oldest(b) == b \in todo /\ \A c \in todo : b <= c

\* Mutant: a claim is not respected.
AlwaysMayClaim(b) == TRUE

\* InFlightGuard.claim
MayClaim(b) == OneInFlight => claims[Owner[b]] \in {NoBundle, b}

Claim(b) == IF OneInFlight THEN [claims EXCEPT ![Owner[b]] = b] ELSE claims

\* op1's handshake: the miner's single slot must still name this bundle.
HandshakeOk(b) == LiveHandshake => commitment[Owner[b]] = b

\* judge_submission and _verify_pr_if_required.
Accepted(b) == b \in Sound /\ HandshakeOk(b) /\ recipePr[b] = "open"

\* Past the registration gate and the finite-metrics gate.
Scored(b) == Accepted(b) /\ Owner[b] \in registered /\ Metric[b].finite

Outcome(b) ==
  IF ~Scored(b) THEN "rejected"
  ELSE Classify(Decisively(b), {Metric[k] : k \in Kings}, Metric[b], b \in Informative)

\* Mutant: the tenure never lapses.
ProtectedForever == throne # <<>>

\* The incumbent is inside its protected tenure.
Protected == throne # <<>> /\ reign[Top(throne)] < Tenure

\* A hotkey that has another submission in flight waits for a later epoch.
Defer ==
  /\ pc = "loop"
  /\ \E b \in todo :
       /\ Oldest(b)
       /\ ~MayClaim(b)
       /\ todo' = todo \ {b}
  /\ UNCHANGED <<disk, world, ghosts>>
  /\ UNCHANGED <<pc, busy, current, verdict, crowned, failures, recovered, round, mergedCache>>

\* score_and_decide, the gates after it and the tenure guard.
Score ==
  /\ pc = "loop"
  /\ \E b \in todo :
       /\ Oldest(b)
       /\ MayClaim(b)
       /\ claims' = Claim(b)
       /\ todo' = todo \ {b}
       /\ verdict' = Outcome(b)
       /\ IF Outcome(b) = "king_change" /\ Protected
          THEN pc' = "loop" /\ current' = NoBundle
          ELSE /\ current' = b
               /\ pc' = IF Outcome(b) = "king_change" THEN "crown" ELSE "close"
  /\ UNCHANGED <<loc, throneFiles, pendingWeights, audits, blacklist>>
  /\ UNCHANGED <<world, ghosts>>
  /\ UNCHANGED <<busy, crowned, failures, recovered, round, mergedCache>>

\* An exception inside score_and_decide, or an RPC error op1 or the PR check
\* turns into a reject: the bundle is rejected for good.
ScoreError ==
  /\ pc = "loop"
  /\ "score" \in Faults
  /\ \E b \in todo :
       /\ Oldest(b)
       /\ MayClaim(b)
       /\ claims' = Claim(b)
       /\ todo' = todo \ {b}
       /\ current' = b
  /\ verdict' = "rejected"
  /\ pc' = "close"
  /\ UNCHANGED <<loc, throneFiles, pendingWeights, audits, blacklist>>
  /\ UNCHANGED <<world, ghosts>>
  /\ UNCHANGED <<busy, crowned, failures, recovered, round, mergedCache>>

\* The block height cannot be read: the tenure guard lets the challenger past.
ScoreBlindly ==
  /\ pc = "loop"
  /\ "rpc" \in Faults
  /\ Protected
  /\ \E b \in todo :
       /\ Oldest(b)
       /\ MayClaim(b)
       /\ Outcome(b) = "king_change"
       /\ claims' = Claim(b)
       /\ todo' = todo \ {b}
       /\ current' = b
  /\ verdict' = "king_change"
  /\ pc' = "crown"
  /\ UNCHANGED <<loc, throneFiles, pendingWeights, audits, blacklist>>
  /\ UNCHANGED <<world, ghosts>>
  /\ UNCHANGED <<busy, crowned, failures, recovered, round, mergedCache>>

\* is_hotkey_registered syncs the metagraph outside any try: an RPC error
\* there ends the epoch in main's except.
AbortScoring ==
  /\ pc = "loop"
  /\ "rpc" \in Faults
  /\ \E b \in todo :
       /\ Oldest(b)
       /\ MayClaim(b)
       /\ Accepted(b)
       /\ claims' = Claim(b)
  /\ pc' = "idle"
  /\ UNCHANGED <<loc, throneFiles, pendingWeights, audits, blacklist>>
  /\ UNCHANGED <<world, ghosts, scratch, mergedCache>>

----------------------------------------------------------------------------
\* A submission that is not crowned.

\* _close_losing_prs, best effort.
CloseLosingPr ==
  /\ pc = "close"
  /\ \/ recipePr' = IF recipePr[current] = "open" THEN [recipePr EXCEPT ![current] = "closed"]
                    ELSE recipePr
     \/ "github" \in Faults /\ UNCHANGED recipePr
  /\ pc' = "archive"
  /\ UNCHANGED <<disk, ghosts, scratch, mergedCache>>
  /\ UNCHANGED <<commitment, registered, onChain, sinceUpdate>>

\* Mutant: a crowned bundle is left where it is.
DestinationForgotten ==
  CASE verdict = "rejected" -> "rejected"
    [] verdict = "meaningful_failure" -> "meaningful_failure"
    [] OTHER -> loc[current]

Destination ==
  CASE verdict = "rejected" -> "rejected"
    [] verdict = "meaningful_failure" -> "meaningful_failure"
    [] OTHER -> "scored"

\* archive_bundle; a meaningful failure's hotkey is also noted for the split.
ArchiveBundle ==
  /\ pc = "archive"
  /\ loc' = [loc EXCEPT ![current] = Destination]
  /\ IF verdict = "meaningful_failure"
     THEN /\ failures' = failures \cup {Owner[current]}
          /\ unpaid' = unpaid \cup {current}
          /\ pc' = "enqueue"
          /\ UNCHANGED current
     ELSE /\ current' = NoBundle
          /\ pc' = "loop"
          /\ UNCHANGED <<failures, unpaid>>
  /\ UNCHANGED <<throneFiles, pendingWeights, claims, audits, blacklist, world>>
  /\ UNCHANGED <<busy, todo, verdict, crowned, recovered, round, mergedCache>>
  /\ UNCHANGED <<crashes, reigned, forgone>>

----------------------------------------------------------------------------
\* A submission that is crowned.

\* Mutant: previous_king is not kept.
SetKingAlone ==
  /\ pc = "crown"
  /\ throne' = <<current>>
  /\ reign' = [reign EXCEPT ![current] = 0]
  /\ reigned' = reigned \cup {current}
  /\ pc' = "mark"
  /\ UNCHANGED <<loc, corrupt, highWater, pendingWeights, claims, audits, blacklist, world>>
  /\ UNCHANGED <<scratch, mergedCache, crashes, unpaid, forgone>>

\* chain.set_king with previous_king = the king before.
SetKing ==
  /\ pc = "crown"
  /\ throne' = Append(throne, current)
  /\ \E age \in IF "rpc" \in Faults THEN {0, Tenure} ELSE {0} :
       reign' = [reign EXCEPT ![current] = age]
  /\ reigned' = reigned \cup {current}
  /\ pc' = "mark"
  /\ UNCHANGED <<loc, corrupt, highWater, pendingWeights, claims, audits, blacklist, world>>
  /\ UNCHANGED <<scratch, mergedCache, crashes, unpaid, forgone>>

\* chain.set_high_water_mark
SetHighWaterMark ==
  /\ pc = "mark"
  /\ highWater' = current
  /\ crowned' = Owner[current]
  /\ pc' = "enqueue"
  /\ UNCHANGED <<loc, throne, reign, corrupt, pendingWeights, claims, audits, blacklist>>
  /\ UNCHANGED <<world, ghosts>>
  /\ UNCHANGED <<busy, todo, current, verdict, failures, recovered, round, mergedCache>>

\* A king_change within MarginMultiplier noise floors of the king before it is
\* always audited.
MarginMultiplier == 2

CloseMargin ==
  /\ Len(throne) > 1
  /\ LET gain == QualityGain(Metric[throne[Len(throne) - 1]], Metric[current])
     IN  gain < MarginMultiplier * Margin /\ -gain < MarginMultiplier * Margin

\* maybe_enqueue_audit
Audited ==
  \/ current \in Sampled
  \/ verdict = "king_change" /\ CloseMargin

\* The audit dispatcher: its failure is logged and forgotten.
EnqueueAudit ==
  /\ pc = "enqueue"
  /\ \/ audits' = IF Audited THEN [audits EXCEPT ![current] = "queued"] ELSE audits
     \/ "enqueue" \in Faults /\ UNCHANGED audits
  /\ IF verdict = "king_change"
     THEN pc' = "merge" /\ UNCHANGED current
     ELSE pc' = "loop" /\ current' = NoBundle
  /\ UNCHANGED <<loc, throneFiles, pendingWeights, claims, blacklist, world, ghosts>>
  /\ UNCHANGED <<busy, todo, verdict, crowned, failures, recovered, round, mergedCache>>

\* merge_and_release: its failure does not unwind the king.
MergePr ==
  /\ pc = "merge"
  /\ \/ recipePr' = IF recipePr[current] = "open" THEN [recipePr EXCEPT ![current] = "merged"]
                    ELSE recipePr
     \/ "merge" \in Faults /\ UNCHANGED recipePr
  /\ pc' = "archive"
  /\ UNCHANGED <<disk, ghosts, scratch, mergedCache>>
  /\ UNCHANGED <<commitment, registered, onChain, sinceUpdate>>

----------------------------------------------------------------------------
\* End of an epoch: weights.

\* Mutant: the idle audit is never called.
NoAuditAtRest == "idle"

\* main: one audit job is drained when the epoch found no submissions.
Rest == IF busy THEN "idle" ELSE "audit"

\* The hotkey weighted as king.
PaidKing == IF crowned # NoHotkey THEN crowned ELSE KingHotkey

\* _apply_pool_split withholds all weight from a king without a merged PR.
Withheld(down) ==
  /\ RequireMergedKingPr
  /\ PaidKing # NoHotkey
  /\ \A k \in Kings : ~PrMerged(k, down)

Split(down) == IF Withheld(down) THEN NoWeights ELSE PoolSplit(PaidKing, failures)

\* What a withheld epoch loses: its meaningful failures get no share, and only
\* a credit its miner had saved before is left.
GivenUp == {b \in unpaid : Owner[b] \in failures /\ recovered[Owner[b]] = 0}

\* _apply_pool_split and _merge_recovered_weights.
ComputeWeights ==
  /\ pc = "loop"
  /\ todo = {}
  /\ \E down \in Outages :
       /\ round' = MergeRecovered(Split(down), recovered, PaidKing)
       /\ mergedCache' = IF RequireMergedKingPr /\ ~Withheld(down)
                         THEN mergedCache \cup Kings ELSE mergedCache
       /\ forgone' = IF Withheld(down) THEN forgone \cup GivenUp ELSE forgone
  /\ pc' = CASE round' # NoWeights -> "save"
             [] round' = NoWeights /\ BurnFallback -> "burn"
             [] OTHER -> Rest
  /\ UNCHANGED <<disk, world, crashes, reigned, unpaid>>
  /\ UNCHANGED <<busy, todo, current, verdict, crowned, failures, recovered>>

\* Mutant: the weights are not saved.
SaveWeightsForgotten ==
  /\ pc = "save"
  /\ pc' = "emit"
  /\ UNCHANGED <<disk, world, ghosts, scratch, mergedCache>>

\* _save_pending_weights, before the extrinsic is tried.
SaveWeights ==
  /\ pc = "save"
  /\ pendingWeights' = round
  /\ pc' = "emit"
  /\ UNCHANGED <<loc, throneFiles, claims, audits, blacklist, world, ghosts, scratch, mergedCache>>

RateLimited == sinceUpdate <= RateLimit

Payment == Payable(round, blacklist, registered)

\* What the chain and the ghosts see of weights w that land.
Land(w) ==
  /\ onChain' = w
  /\ sinceUpdate' = 0
  /\ unpaid' = {b \in unpaid : w[Owner[b]] = 0}
  /\ forgone' = forgone \cap unpaid'

\* chain.set_weights returns False: nobody can be paid, or rate-limited.
SetWeightsRefused ==
  /\ pc = "emit"
  /\ Payment = NoWeights \/ RateLimited
  /\ pc' = Rest
  /\ UNCHANGED <<disk, world, ghosts, scratch, mergedCache>>

SetWeightsLands ==
  /\ pc = "emit"
  /\ Payment # NoWeights
  /\ ~RateLimited
  /\ Land(Payment)
  /\ pc' = "clear"
  /\ UNCHANGED <<disk, recipePr, commitment, registered, scratch, mergedCache, crashes, reigned>>

\* The extrinsic fails, or lands and the answer is lost: both return False.
SetWeightsFails ==
  /\ pc = "emit"
  /\ "extrinsic" \in Faults
  /\ Payment # NoWeights
  /\ ~RateLimited
  /\ \/ Land(Payment)
     \/ UNCHANGED <<onChain, sinceUpdate, unpaid, forgone>>
  /\ pc' = Rest
  /\ UNCHANGED <<disk, recipePr, commitment, registered, scratch, mergedCache, crashes, reigned>>

\* set_weights and set_burn_weights sync the metagraph outside their try.
AbortWeights ==
  /\ pc \in {"emit", "burn"}
  /\ "rpc" \in Faults
  /\ pc' = "idle"
  /\ UNCHANGED <<disk, world, ghosts, scratch, mergedCache>>

\* _clear_pending_weights
ClearWeights ==
  /\ pc = "clear"
  /\ pendingWeights' = NoWeights
  /\ pc' = Rest
  /\ UNCHANGED <<loc, throneFiles, claims, audits, blacklist, world, ghosts, scratch, mergedCache>>

\* Mutant: nothing is burned.
BurnWeightsSkipped ==
  /\ pc = "burn"
  /\ pc' = Rest
  /\ UNCHANGED <<disk, world, ghosts, scratch, mergedCache>>

\* chain.set_burn_weights: everything to the owner uid, no miner is weighted.
BurnWeights ==
  /\ pc = "burn"
  /\ \/ ~RateLimited /\ Land(NoWeights)
     \/ (RateLimited \/ "extrinsic" \in Faults)
        /\ UNCHANGED <<onChain, sinceUpdate, unpaid, forgone>>
  /\ pc' = Rest
  /\ UNCHANGED <<disk, recipePr, commitment, registered, scratch, mergedCache, crashes, reigned>>

----------------------------------------------------------------------------
\* _run_idle_audit: run_pending_audits(limit=1).

Jobs == {b \in Bundles : audits[b] = "queued"}

\* The bundle is looked for where the job says and in the two archives.
Present(b) == loc[b] \in {"scored", "meaningful_failure"}

NothingToAudit ==
  /\ pc = "audit"
  /\ Jobs = {}
  /\ pc' = "idle"
  /\ UNCHANGED <<disk, world, ghosts, scratch, mergedCache>>

\* Jobs are taken in the order of their bundle ids, which are hashes: any.
RunAudit ==
  /\ pc = "audit"
  /\ \E b \in Jobs :
       \/ /\ Present(b) /\ b \in Fraudulent
          /\ blacklist' = blacklist \cup {Owner[b]}
          /\ audits' = [audits EXCEPT ![b] = "failed"]
       \/ /\ Present(b) /\ b \notin Fraudulent
          /\ audits' = [audits EXCEPT ![b] = "passed"]
          /\ UNCHANGED blacklist
       \/ /\ Present(b) /\ "audit" \in Faults
          /\ audits' = [audits EXCEPT ![b] = "errored"]
          /\ UNCHANGED blacklist
       \/ /\ ~Present(b)
          /\ audits' = [audits EXCEPT ![b] = "skipped_missing"]
          /\ UNCHANGED blacklist
  /\ pc' = "idle"
  /\ UNCHANGED <<loc, throneFiles, pendingWeights, claims, world, ghosts, scratch, mergedCache>>

----------------------------------------------------------------------------
\* Crashes and restarts.

Forget ==
  /\ pc' = "down"
  /\ busy' = FALSE
  /\ todo' = {}
  /\ current' = NoBundle
  /\ verdict' = "none"
  /\ crowned' = NoHotkey
  /\ failures' = {}
  /\ recovered' = NoWeights
  /\ round' = NoWeights
  /\ mergedCache' = {}
  /\ crashes' = crashes + 1
  /\ UNCHANGED <<reigned, unpaid, forgone>>

Crash ==
  /\ pc # "down"
  /\ crashes < MaxCrashes
  /\ Forget
  /\ UNCHANGED <<disk, world>>

\* An ancestor is put back on the throne, which rewrites king.json.
Demotes ==
  /\ RequireMergedKingPr
  /\ \E down \in Outages : Reinstated(down) \notin {<<>>, throne}

\* The files are rewritten in place: a crash in write_text leaves one that
\* does not parse.
CrashWritingKing ==
  /\ pc = "crown" \/ (pc = "idle" /\ Demotes)
  /\ "tear" \in Faults
  /\ crashes < MaxCrashes
  /\ Forget
  /\ corrupt' = TRUE
  /\ throne' = <<>>
  /\ UNCHANGED <<loc, reign, highWater, pendingWeights, claims, audits, blacklist, world>>

\* get_high_water_mark and _load_pending_weights read such a file as empty.
CrashWritingMark ==
  /\ pc = "mark"
  /\ "tear" \in Faults
  /\ crashes < MaxCrashes
  /\ Forget
  /\ highWater' = NoBundle
  /\ UNCHANGED <<loc, throne, reign, corrupt, pendingWeights, claims, audits, blacklist, world>>

CrashWritingWeights ==
  /\ pc = "save"
  /\ "tear" \in Faults
  /\ crashes < MaxCrashes
  /\ Forget
  /\ pendingWeights' = NoWeights
  /\ UNCHANGED <<loc, throneFiles, claims, audits, blacklist, world>>

\* What a reader makes of a file: what was to be written, or nothing when it was
\* cut short.
Written(full, empty) == IF "tear" \in Faults THEN {full, empty} ELSE {full}

NoClaims == [h \in Hotkeys |-> NoBundle]

Stale(present) == OneInFlight /\ \E h \in Hotkeys : claims[h] \notin present \cup {NoBundle}

\* In poll_hub, or in the write of reconcile: InFlightGuard reads a file that
\* does not parse as no claims.
CrashPolling ==
  /\ pc = "poll"
  /\ crashes < MaxCrashes
  /\ Forget
  /\ \E fetched \in SUBSET {b \in Bundles : loc[b] = "hub"} :
       /\ loc' = Fetched(fetched)
       /\ claims' \in IF Stale(Pending \cup fetched) THEN Written(claims, NoClaims) ELSE {claims}
  /\ UNCHANGED <<throneFiles, pendingWeights, audits, blacklist, world>>

\* In the write of claim, which is skipped when the claim is there already.
CrashClaiming ==
  /\ pc = "loop"
  /\ "tear" \in Faults
  /\ crashes < MaxCrashes
  /\ \E b \in todo : Oldest(b) /\ MayClaim(b) /\ Claim(b) # claims
  /\ Forget
  /\ claims' = NoClaims
  /\ UNCHANGED <<loc, throneFiles, pendingWeights, audits, blacklist, world>>

\* list_pending_audits skips a job that does not parse, in every later epoch.
CrashEnqueuing ==
  /\ pc = "enqueue"
  /\ Audited
  /\ "tear" \in Faults
  /\ crashes < MaxCrashes
  /\ Forget
  /\ audits' = [audits EXCEPT ![current] = "cut"]
  /\ UNCHANGED <<loc, throneFiles, pendingWeights, claims, blacklist, world>>

\* Before the job is filed, so that it is run again; blacklist and
\* is_blacklisted read a file that does not parse as empty.
CrashBlacklisting ==
  /\ pc = "audit"
  /\ crashes < MaxCrashes
  /\ Forget
  /\ \E b \in Jobs :
       /\ Present(b) /\ b \in Fraudulent
       /\ blacklist' \in Written(blacklist \cup {Owner[b]}, {})
  /\ UNCHANGED <<loc, throneFiles, pendingWeights, claims, audits, world>>

\* main reads the king before its loop: it cannot start on a king.json that
\* does not parse.
Restart ==
  /\ pc = "down"
  /\ ~corrupt
  /\ pc' = "idle"
  /\ UNCHANGED <<disk, world, ghosts, scratch, mergedCache>>

----------------------------------------------------------------------------
\* The world.

\* A miner commits on-chain, opens the recipe PR and the HF PR.
Submit ==
  /\ \E b \in Bundles :
       /\ loc[b] = "unsubmitted"
       /\ Owner[b] \in registered
       /\ \A c \in Bundles : c < b => loc[c] # "unsubmitted"
       /\ loc' = [loc EXCEPT ![b] = "hub"]
       /\ recipePr' = [recipePr EXCEPT ![b] = "open"]
       /\ commitment' = [commitment EXCEPT ![Owner[b]] = b]
  /\ UNCHANGED <<throneFiles, pendingWeights, claims, audits, blacklist>>
  /\ UNCHANGED <<registered, onChain, sinceUpdate, locals, ghosts>>

UpTo(bound, n) == IF n < bound THEN n + 1 ELSE bound

\* A block is produced.
Tick ==
  /\ sinceUpdate' = UpTo(RateLimit + 1, sinceUpdate)
  /\ reign' = [b \in Bundles |-> UpTo(Tenure, reign[b])]
  /\ UNCHANGED <<loc, throne, corrupt, highWater, pendingWeights, claims, audits, blacklist>>
  /\ UNCHANGED <<recipePr, commitment, registered, onChain, locals, ghosts>>

\* A maintainer merges by hand the PR of a king the bot could not merge.
ManualMerge ==
  /\ \E i \in 1 .. Len(throne) :
       /\ recipePr[throne[i]] = "open"
       /\ recipePr' = [recipePr EXCEPT ![throne[i]] = "merged"]
  /\ UNCHANGED <<disk, locals, ghosts, commitment, registered, onChain, sinceUpdate>>

\* A miner loses its slot on the subnet.
Deregister ==
  /\ "deregister" \in Faults
  /\ \E h \in registered : registered' = registered \ {h}
  /\ UNCHANGED <<disk, locals, ghosts, recipePr, commitment, onChain, sinceUpdate>>

----------------------------------------------------------------------------
ValidatorStep ==
  \/ BeginEpoch \/ PollQueue
  \/ Defer \/ Score \/ ScoreError \/ ScoreBlindly \/ AbortScoring
  \/ CloseLosingPr \/ ArchiveBundle
  \/ SetKing \/ SetHighWaterMark \/ EnqueueAudit \/ MergePr
  \/ ComputeWeights \/ SaveWeights
  \/ SetWeightsRefused \/ SetWeightsLands \/ SetWeightsFails \/ AbortWeights
  \/ ClearWeights \/ BurnWeights
  \/ NothingToAudit \/ RunAudit
  \/ Restart

CrashStep ==
  \/ Crash \/ CrashWritingKing \/ CrashWritingMark \/ CrashWritingWeights
  \/ CrashPolling \/ CrashClaiming \/ CrashEnqueuing \/ CrashBlacklisting

WorldStep == Submit \/ Tick \/ ManualMerge \/ Deregister

Next == ValidatorStep \/ CrashStep \/ WorldStep

Spec == Init /\ [][Next]_vars

\* The service loops for ever and is restarted when it dies; blocks keep coming.
FairSpec == Spec /\ WF_vars(ValidatorStep) /\ WF_vars(Tick)

============================================================================
