-------------------------- MODULE JudgeProperties --------------------------
(***************************************************************************)
(* What the judgement of a bundle promises.                                *)
(***************************************************************************)
EXTENDS Judge

CONSTANT HonestWork   \* the work behind some bundles, a function of their names

\* A run of the canonical code, or of it with a clean patch, in an enclave that gave
\* its evidence in every epoch, as the runner itself does not ask, on the canonical
\* data and within the competition's limits: what it declares is what
\* its log holds, what it trained can be trained again, and the model it left
\* predicts each token from those before it.
TrainedAsDeclared(work) ==
  /\ work.patch.text # NoFile /\ work.name # NoFile
  /\ Runs(work)
  /\ AttestationType(work.host) = "real_tdx_nvcc"
  /\ work.host.passes /\ work.host.gpuFails = {} /\ work.host.tsmFails = {}
  /\ LET c == work.claims
     IN  /\ CheckComputePlausibility(c) /\ CheckComputeBudget(c) /\ CheckModelSize(c)
         /\ c.data = "canonical" /\ c.steps = c.patchSteps
         /\ c.log.rows > 0 /\ c.log.first = "compiled" /\ c.log.broken = 0 /\ c.log.last = c.wall
         /\ c.log.loss = "falls" /\ c.log.clock = "runs"
  /\ work.rerun.off = {}
  /\ work.model.arch \in {"canonical", "patched"} /\ work.model.sight = "past"

ASSUME HonestAssumption ==
  /\ DOMAIN HonestWork \subseteq DOMAIN Submissions
  /\ \A n \in DOMAIN HonestWork :
       /\ TrainedAsDeclared(HonestWork[n])
       /\ Submissions[n] = RunProofTest(HonestWork[n], Measurement)

\* A score handed on was measured on a shard that was in place during this very
\* judgement, though shards rotate between the reads of op4 and scores are
\* cached from one epoch to the next.
ServedScoreIsCurrent == verdict = "accepted" => score.shard \in during

\* The score that crowns comes from the path the settings choose, also when they
\* changed after another one was cached.
ScoreOfConfiguredMode ==
  verdict = "accepted" =>
    IF mode = "enforce" THEN box.ack /\ score.by = "hosb" ELSE score.by = "legacy"

\* Trained as declared and attested throughout, after the code it trained was
\* committed, and judged by a validator that pinned its image, confirmed its
\* measurement and allows the die.
Honest ==
  /\ name \in DOMAIN HonestWork /\ bundle.claims.wall <= codeAge
  /\ box.pinned /\ box.ack
  /\ box.archGate => HonestWork[name].host.die \in box.dies

\* A bundle the proof runner made of a run that took place, with all its evidence,
\* is rejected only if something around it went wrong: a service, a container or a
\* child failed, the shard was rotated under it, its miner committed anew or its
\* checkpoint was listed, or the grid had no cell to score.
HonestNeverRejected ==
  (verdict \in {"rejected", "raised"} /\ Honest) =>
    \/ excuse \ {"kill"} # {}
    \/ slot # bundle.committed
    \/ bundle.files["checkpoint"] \in blocked

Strict == box.handshake = "chain" /\ ~box.mock /\ ~box.stub /\ box.level = "tdx_nvcc"

\* What was scored is what the enclave attested under the nonce committed for
\* this hotkey and patch: op1 ties the files to the bundle hash, op2 the bundle
\* hash and the nonce to the last quote.
AcceptedIsBound ==
  (verdict = "accepted" /\ Strict) =>
    LET last == bundle.attestation.epochs[Len(bundle.attestation.epochs)]
    IN  /\ last.quote.genuine /\ last.token.genuine
        /\ last.quote.data = <<bundle.nonce, UserData(Measurement, last.rolling, bundle.nonce,
                                                      BundleHash(bundle.files))>>
        /\ bundle.committed = <<bundle.hotkey, bundle.manifest["patch"], bundle.nonce>>

\* An accepted bundle trained no more than a budget of hours on its GPU allows,
\* whatever wall clock it declares: an overstated one exceeds the budget, an
\* understated one the utilisation.
CapacityBounded ==
  LET c == bundle.claims
  IN  (verdict = "accepted" /\ On("budget") /\ c.n > 0 /\ c.tokens > 0 /\ c.wall > 0) =>
        50000 * c.n * c.tokens * H100Ref <= 3 * FlatCeiling * Peak[c.gpu] * BudgetH * HopperRef

\* The container never sees a token it is asked to predict, in any row.
AnswersHidden ==
  pc = "gridrun" =>
    \A w \in WindowIds : Answer(grid[1], w) \notin ShownTokens(grid[1])

\* After a judgement no child, no container and no scratch directory is left,
\* unless the validator itself died or docker would not kill.
NothingLeftBehind ==
  (pc = "idle" /\ crashes = 0 /\ "kill" \notin excuse) => runner = "none" /\ ~scratch

\* A deferred bundle that was accepted is not rejected in a later epoch if the
\* fraud list and the miner's slot are still the same and nothing failed, though
\* the shard was rotated or a restart took it out of enforce mode: what a judgement
\* leaves behind must not fail the next.
VerdictStable ==
  [][(pc # "idle" /\ verdict' = "rejected" /\ accepted # NotYet
        /\ excuse' \union accepted.excuse \subseteq {"kill"}) =>
       \/ slot # accepted.slot \/ blocked # accepted.blocked
       \/ mode = "enforce"]_vars

\* In enforce mode no score is served from the cache in a judgement in which the
\* chain gave no entropy.
NoEntropyNoScore ==
  [][(pc = "op4" /\ verdict' = "accepted" /\ mode = "enforce") => "rpc" \notin excuse']_vars

\* A judgement that began comes to an end.
JudgementEnds == pc # "idle" ~> pc = "idle"

=============================================================================
