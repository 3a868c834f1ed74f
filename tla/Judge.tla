------------------------------- MODULE Judge -------------------------------
(***************************************************************************)
(* judge_submission() of validator/validator.py on one bundle, once per    *)
(* epoch while the bundle stays in queue/pending: the operations op1 to    *)
(* op4 in order, the subprocess or container op4 scores in, the score      *)
(* cache beside the bundle, and what changes around it meanwhile (the      *)
(* held-out shard, the miner's commitment slot, the fraud list, the        *)
(* weight window, the age of the canonical code).                          *)
(***************************************************************************)
EXTENDS Integrity, ProofRunner, BlankedGrid

CONSTANTS
  Submissions,  \* bundles that may be in the queue, a function of their names
  Boxes,        \* settings a validator may run with, a function of their names
  Measurement,  \* the container measurement op2 requires
  Size,         \* tokens in each held-out shard
  LastShard,    \* bound on rotations of the shard
  LastWindow,   \* bound on weight windows
  FirstAge,     \* hours since the canonical code was committed, at the start
  MaxAge,       \* bound on that age
  MaxEpochs,    \* bound on judgements of the bundle
  MaxFaults,    \* bound on failures of services, children and containers
  MaxChanges,   \* bound on changes around the judgements
  MaxCrashes    \* bound on crashes of the validator

Modes == {"off", "shadow", "enforce"}

\* What submission.json, attestation.json and the checkpoint can be read as.
WellFormed(b) ==
  /\ b.claims \in Claims
  /\ b.attestation.epochs \in Seq({b.attestation.epochs[i] : i \in DOMAIN b.attestation.epochs})
  /\ b.model.arch \in {"canonical", "patched", "unfit", "corrupt"} /\ b.model.sight \in Sights
  /\ b.rerun.declared \in SUBSET Nat /\ IsFiniteSet(b.rerun.declared)

ASSUME JudgeAssumption ==
  /\ Size \in [1 .. LastShard -> Nat \ {0}]
  /\ LastShard \in Nat \ {0} /\ LastWindow \in Nat \ {0} /\ MaxAge \in Nat /\ FirstAge \in 0 .. MaxAge
  /\ MaxEpochs \in Nat /\ MaxFaults \in Nat /\ MaxChanges \in Nat /\ MaxCrashes \in Nat
  /\ \A n \in DOMAIN Submissions : WellFormed(Submissions[n])
  /\ \A s \in DOMAIN Boxes :
       Boxes[s].handshake \in {"skip", "chain", "local"} /\ Boxes[s].hosb \in Modes

VARIABLES
  \* on disk
  cache,     \* .hidden_eval_cache.json in the bundle's directory
  scratch,   \* a temporary directory of op4 or of the re-derivation exists
  \* the world
  name,      \* of the bundle; its files never change
  setting,   \* of the validator
  mode,      \* RALPH_HOSB, which a restart may change
  shard,     \* which held-out shard is in eval/private
  slot,      \* the miner's commitment on chain
  blocked,   \* checkpoints in fraud_checkpoints.json
  window,    \* the current weight window, whose first block anchors the seed
  codeAge,   \* hours since the canonical recipe was committed
  runner,    \* the child process or container
  \* lost in a crash
  pc,        \* operation under way
  seen,      \* the cache key op4 computed
  grid,      \* the blanked grid the container was given
  measured,  \* shard the child or container read, or 0
  verdict,   \* of the last judgement
  score,     \* and its score
  \* kept only to state properties
  during,    \* shards that were current during this judgement
  excuse,    \* what went wrong around this judgement
  accepted,  \* what held when the bundle was last accepted
  epochs, faults, changes, crashes

disk == <<cache, scratch>>
settings == <<name, setting, mode>>
world == <<shard, slot, blocked, window, codeAge>>
locals == <<seen, grid, measured>>
memory == <<pc, locals, verdict, score>>
ghosts == <<during, excuse, accepted>>
bounds == <<epochs, faults, changes, crashes>>
vars == <<disk, settings, world, runner, memory, ghosts, bounds>>

bundle == Submissions[name]
box == Boxes[setting]

NoCache == [key |-> <<>>, score |-> <<>>]
NoGrid == <<>>
NoScore == [shard |-> 0, by |-> "none", window |-> 0]
NotYet == [shard |-> 0, slot |-> <<>>, blocked |-> {}, excuse |-> {}]
NoEntropy == -1

Committed == <<bundle.hotkey, bundle.manifest["patch"], bundle.nonce>>

Init ==
  /\ name \in DOMAIN Submissions
  /\ setting \in DOMAIN Boxes /\ mode = box.hosb
  /\ cache = NoCache /\ scratch = FALSE /\ runner = "none"
  /\ shard = 1 /\ window = 1 /\ blocked = {}
  /\ slot = bundle.committed
  /\ codeAge = FirstAge
  /\ pc = "idle" /\ seen = <<>> /\ grid = NoGrid /\ measured = 0
  /\ verdict = "none" /\ score = NoScore
  /\ during = {} /\ excuse = {} /\ accepted = NotYet
  /\ epochs = 0 /\ faults = 0 /\ changes = 0 /\ crashes = 0

\* The epoch loop judges a bundle again only if it deferred it, which it does
\* with accepted ones; the others are archived.  A container that docker would not
\* kill is still there.
BeginJudgement ==
  /\ pc = "idle" /\ epochs < MaxEpochs
  /\ verdict \in {"none", "accepted"}
  /\ pc' = "op1" /\ epochs' = epochs + 1
  /\ verdict' = "none" /\ score' = NoScore
  /\ during' = {shard} /\ excuse' = excuse \intersect {"kill"}
  /\ UNCHANGED <<disk, settings, world, runner, locals, accepted, faults, changes, crashes>>

-----------------------------------------------------------------------------
\* Ends of a judgement

Fault(what) == faults < MaxFaults /\ faults' = faults + 1 /\ excuse' = excuse \union {what}
NoFault == UNCHANGED <<faults, excuse>>

\* What op4 holds in local variables is gone when it returns.
Return == pc' = "idle" /\ seen' = <<>> /\ grid' = NoGrid /\ measured' = 0

Stop(v) == Return /\ verdict' = v /\ UNCHANGED <<score, accepted>>

Reject == Stop("rejected")
Raise == Stop("raised")

Accept(s) ==
  /\ Return /\ verdict' = "accepted" /\ score' = s
  /\ accepted' = [shard |-> shard, slot |-> slot, blocked |-> blocked, excuse |-> excuse]

Move(next) == pc' = next /\ UNCHANGED <<verdict, score, accepted>>
GoTo(next) == Move(next) /\ UNCHANGED locals

-----------------------------------------------------------------------------
\* op1

VerifySignature(b) ==
  b.signature = Signature(b.hotkey, b.bundleHash, b.nonce, b.hypothesis)

\* Mutant: whatever lies in the bundle's directory must be in the manifest.
ArtifactsMatchAll(b) ==
  /\ cache = NoCache
  /\ \A a \in Artifacts :
       b.manifest[a] # NoFile => b.files[a] # NoFile /\ b.files[a] = b.manifest[a]

\* Entries the manifest must have, and those it may leave out.
ArtifactsMatch(b) ==
  /\ \A a \in Required : b.manifest[a] # NoFile
  /\ \A a \in Artifacts :
       b.manifest[a] # NoFile => b.files[a] # NoFile /\ b.files[a] = b.manifest[a]

\* Mutant: the two declared hashes are compared with each other only.
DeclaredHashesMatch(b) == b.bundleHash = b.manifestHash

BundleHashMatches(b) ==
  /\ b.bundleHash = BundleHash(b.files)
  /\ b.manifestHash = BundleHash(b.files)

\* With a chain: the live slot.  Without: the record kept when it was committed.
HandshakeOk(b, s) ==
  LET binding == <<b.hotkey, b.manifest["patch"], b.nonce>>
  IN  CASE box.handshake = "skip" -> TRUE
        [] box.handshake = "chain" -> s = binding
        [] box.handshake = "local" ->
             /\ b.committed # <<>>
             /\ b.committed[3] = b.nonce
             /\ b.committed[1] = b.hotkey
             /\ \/ b.committed[2] = NoFile \/ b.manifest["patch"] = NoFile
                \/ b.committed[2] = b.manifest["patch"]

PatchClean(b) == b.files["patch"] # NoFile => b.touches = {}

On(gate) == gate \notin box.off

Gates(b, age) ==
  /\ CheckComputePlausibility(b.claims)
  /\ On("log") => CheckTrainingLogIntegrity(b.claims)
  /\ On("budget") => CheckComputeBudget(b.claims)
  /\ On("size") => CheckModelSize(b.claims)
  /\ On("timing") => CheckTrainingTiming(b.claims, age)
  /\ CheckCanonicalDataSource(b.claims)
  /\ b.files["patch"] # NoFile => CheckRecipeConfigMatchesProof(b.claims)

Op1DiffAndIntegrity(b, s, fraud, age) ==
  /\ VerifySignature(b)
  /\ ArtifactsMatch(b)
  /\ CheckCheckpointNotBlocklisted(b.files["checkpoint"], fraud)
  /\ BundleHashMatches(b)
  /\ HandshakeOk(b, s)
  /\ PatchClean(b)
  /\ Gates(b, age)

\* A read of the commitment that fails reads as no commitment.
Op1 ==
  /\ pc = "op1"
  /\ \E read \in {slot, <<>>} :
       /\ IF read # slot THEN box.handshake = "chain" /\ Fault("rpc")
          ELSE UNCHANGED faults /\ excuse' = excuse \union
                 (IF slot # bundle.committed THEN {"slot"} ELSE {})
       /\ IF Op1DiffAndIntegrity(bundle, read, blocked, codeAge)
          THEN GoTo("op2") ELSE Reject
  /\ UNCHANGED <<disk, settings, world, runner, during, epochs, changes, crashes>>

\* op2, with the vendors' services answering or not.
Op2 ==
  /\ pc = "op2"
  /\ \E answered \in BOOLEAN :
       /\ IF answered THEN NoFault ELSE ~box.stub /\ Fault("vendor")
       /\ IF Op2AttestationVerify(box, bundle.attestation, bundle.drift, Measurement,
                                  bundle.nonce, bundle.bundleHash, answered)
          THEN GoTo("op3") ELSE Reject
  /\ UNCHANGED <<disk, settings, world, runner, during, epochs, changes, crashes>>

Op3 ==
  /\ pc = "op3"
  /\ IF Op3LogPlausibility(bundle.claims) THEN GoTo("rederive") ELSE Reject
  /\ UNCHANGED <<disk, settings, world, runner, during, excuse, bounds>>

-----------------------------------------------------------------------------
\* Re-derivation: train the first steps again and compare the losses.
\* bundle.rerun: the steps the declared log has among them, and those of them
\* where a run on canonical data logs another loss.

StartRunner == runner' = "running" /\ scratch' = TRUE
\* Mutant: the temporary directory is kept.
EndRunnerDirty == runner' = "none" /\ UNCHANGED scratch

EndRunner == runner' = "none" /\ scratch' = FALSE

RederivePossible ==
  /\ box.rederive
  /\ box.canonData
  /\ Cardinality(bundle.rerun.declared) >= 2

RederiveBegin ==
  /\ pc = "rederive"
  /\ IF ~RederivePossible THEN GoTo("op4") /\ UNCHANGED <<runner, scratch>>
     ELSE IF bundle.files["patch"] # NoFile /\ ~bundle.applies
          THEN Reject /\ UNCHANGED <<runner, scratch>>
     ELSE StartRunner /\ GoTo("rerun")
  /\ UNCHANGED <<cache, settings, world, during, excuse, bounds>>

\* The child is stopped when the last step is logged, when it has ended, or when
\* the time is up: what it logged is a prefix.
RederiveEnd ==
  /\ pc = "rerun"
  /\ EndRunner
  /\ \E last \in bundle.rerun.declared \union {-1} :
       LET made == {s \in bundle.rerun.declared : s <= last}
       IN  /\ excuse' = excuse \union (IF made # bundle.rerun.declared THEN {"cut"} ELSE {})
           /\ IF \/ Cardinality(made) < 2
                 \/ CompareLossTrajectory(made, bundle.rerun.off \intersect made)
              THEN GoTo("op4") ELSE Reject
  /\ UNCHANGED <<cache, settings, world, during, bounds>>

-----------------------------------------------------------------------------
\* op4: the cache, and the path the settings choose

\* Mutant: the key does not name the shard.
KeyOfAnyShard == <<0, "legacy", 0>>

\* Mutant: the key does not name the path.
KeyOfAnyPath(tag) == <<shard, "legacy", 0>>

LegacyKey == <<shard, "legacy", 0>>
HosbKey(tag) == <<shard, "hosb-enforce", tag>>

\* The window, when the chain answers; op4 turns a failure into "noentropy".
EpochTag(tag) ==
  \/ tag = window /\ NoFault
  \/ tag = NoEntropy /\ Fault("rpc")

FromCacheOr(key, next) ==
  IF cache.key = key THEN Accept(cache.score)
  ELSE seen' = key /\ Move(next) /\ UNCHANGED <<grid, measured>>

Op4Enforce ==
  /\ pc = "op4" /\ mode = "enforce"
  /\ IF ~box.ack THEN Reject /\ NoFault
     ELSE \E tag \in {window, NoEntropy} : EpochTag(tag) /\ FromCacheOr(HosbKey(tag), "grid")
  /\ UNCHANGED <<disk, settings, world, runner, grid, measured, during, epochs, changes, crashes>>

Op4Legacy ==
  /\ pc = "op4" /\ mode # "enforce"
  /\ FromCacheOr(LegacyKey, IF box.sandbox THEN "sandbox" ELSE "load")
  /\ UNCHANGED <<disk, settings, world, runner, grid, measured, during, excuse, bounds>>

\* The result is saved under the key op4 computed, if the write succeeds, and in
\* shadow mode scored once more for the log.
Save(s) ==
  \/ cache' = [key |-> seen, score |-> s] /\ UNCHANGED faults
  \/ cache' = NoCache /\ faults < MaxFaults /\ faults' = faults + 1

Deliver(s) ==
  /\ Save(s)
  /\ IF mode = "shadow"
     THEN pc' = "grid" /\ score' = s /\ UNCHANGED <<locals, verdict, accepted>>
     ELSE Accept(s)

\* The legacy path in this process: load the checkpoint, or find that it needs
\* the patched model code, then score in a child.
Load ==
  /\ pc = "load"
  /\ CASE bundle.model.arch = "corrupt" -> Raise /\ UNCHANGED <<runner, scratch>>
       [] bundle.model.arch = "canonical" ->
            /\ runner' = "running" /\ GoTo("child") /\ UNCHANGED scratch
       [] OTHER ->
            IF bundle.files["patch"] = NoFile \/ ~bundle.applies
            THEN Reject /\ UNCHANGED <<runner, scratch>>
            ELSE /\ StartRunner /\ Move("child")
                 /\ measured' = shard   \* eval/private is copied
                 /\ UNCHANGED <<seen, grid>>
  /\ UNCHANGED <<cache, settings, world, during, excuse, bounds>>

\* Preflight and start of a container.
Preflight(next) ==
  \/ ~box.pinned /\ Reject /\ NoFault /\ UNCHANGED <<runner, scratch>>
  \/ box.pinned /\ StartRunner /\ GoTo(next) /\ NoFault
  \/ box.pinned /\ Reject /\ Fault("docker") /\ UNCHANGED <<runner, scratch>>

SandboxStart ==
  /\ pc = "sandbox"
  /\ Preflight("container")
  /\ UNCHANGED <<cache, settings, world, during, epochs, changes, crashes>>

RunnerReads(where) ==
  /\ pc = where /\ runner = "running" /\ measured = 0
  /\ measured' = shard
  /\ UNCHANGED <<disk, settings, world, runner, pc, seen, grid, verdict, score, ghosts, bounds>>

ChildReads == RunnerReads("child")
ContainerReads == RunnerReads("container")

LegacyScore == [shard |-> measured, by |-> "legacy", window |-> 0]

\* The container applies the patch to its own copy of the recipe, whatever the
\* checkpoint needs, and fails if it does not apply.
ContainerRuns ==
  /\ bundle.model.arch \notin {"unfit", "corrupt"}
  /\ bundle.files["patch"] # NoFile => bundle.applies
  /\ bundle.model.arch = "patched" => bundle.files["patch"] # NoFile

ChildEnds ==
  /\ pc = "child" /\ runner = "running" /\ measured # 0
  /\ EndRunner
  /\ IF bundle.model.arch = "unfit" THEN Reject /\ UNCHANGED <<cache, faults>>
     ELSE Deliver(LegacyScore)
  /\ UNCHANGED <<settings, world, during, excuse, epochs, changes, crashes>>

\* The host takes the count and the hash of the shard that is there by now.
ContainerEnds ==
  /\ pc = "container" /\ runner = "running" /\ measured # 0
  /\ EndRunner
  /\ IF ~ContainerRuns THEN Reject /\ UNCHANGED <<cache, faults, excuse>>
     ELSE IF ExpectedTokenCount(Size[measured]) = ExpectedTokenCount(Size[shard])
          THEN Deliver(LegacyScore) /\ UNCHANGED excuse
          ELSE Reject /\ excuse' = excuse \union {"rotated"} /\ UNCHANGED <<cache, faults>>
  /\ UNCHANGED <<settings, world, during, epochs, changes, crashes>>

\* _hosb_eval, for the crown or, after a legacy score, for the shadow log only.
ShadowRun == score # NoScore

HosbFails == IF ShadowRun THEN Accept(score) ELSE Reject

GridNoEntropy ==
  /\ pc = "grid"
  /\ Fault("rpc")
  /\ HosbFails
  /\ UNCHANGED <<disk, settings, world, runner, during, epochs, changes, crashes>>

GridStart ==
  /\ pc = "grid"
  /\ \/ /\ box.pinned
        /\ StartRunner /\ Move("gridrun") /\ NoFault
        /\ \E layout \in Layouts : grid' = <<layout, window>>
        /\ measured' = shard /\ UNCHANGED seen
     \/ /\ HosbFails
        /\ IF box.pinned THEN Fault("docker") ELSE NoFault
        /\ UNCHANGED <<runner, scratch>>
  /\ UNCHANGED <<cache, settings, world, during, epochs, changes, crashes>>

GridEnds ==
  /\ pc = "gridrun" /\ runner = "running"
  /\ EndRunner
  /\ IF ShadowRun THEN Accept(score) /\ UNCHANGED <<cache, faults, excuse>>
     ELSE IF ContainerRuns /\ ReduceBlankedNlls(grid[1], bundle.model.sight)
          THEN /\ Deliver([shard |-> measured, by |-> "hosb", window |-> grid[2]])
               /\ UNCHANGED excuse
          ELSE /\ Reject /\ UNCHANGED <<cache, faults>>
               /\ excuse' = excuse \union (IF ScoredCells(grid[1]) = {} THEN {"luck"} ELSE {})
  /\ UNCHANGED <<settings, world, during, epochs, changes, crashes>>

\* Mutant: only the child has a time limit.
ChildTimeLimit ==
  /\ runner = "hung" /\ pc = "child"
  /\ scratch' = FALSE /\ runner' = "none" /\ NoFault
  /\ HosbFails
  /\ UNCHANGED <<cache, settings, world, during, epochs, changes, crashes>>

\* A child or container that never ends, and the time limit that ends it: the
\* child is killed, the container by a docker command that may fail.
Hang ==
  /\ pc \in {"child", "container", "gridrun"} /\ runner = "running"
  /\ runner' = "hung"
  /\ Fault("hang")
  /\ UNCHANGED <<disk, settings, world, memory, during, accepted, epochs, changes, crashes>>

TimeLimit ==
  /\ runner = "hung" /\ pc # "idle"
  /\ scratch' = FALSE
  /\ \/ runner' = "none" /\ NoFault
     \/ runner' = "orphan" /\ pc # "child" /\ Fault("kill")
  /\ HosbFails
  /\ UNCHANGED <<cache, settings, world, during, epochs, changes, crashes>>

-----------------------------------------------------------------------------
\* Around the judgement

\* The process is stopped, or dies, and starts with settings that may differ.
Restart ==
  /\ crashes < MaxCrashes /\ crashes' = crashes + 1
  /\ verdict \notin {"rejected", "raised"}
  /\ mode' \in Modes
  /\ Return /\ verdict' = "none" /\ score' = NoScore
  /\ runner' = IF runner = "none" THEN "none" ELSE "orphan"
  /\ UNCHANGED <<disk, name, setting, world, ghosts, epochs, faults, changes>>

Change == changes < MaxChanges /\ changes' = changes + 1

\* Nothing reads the shard or the window before op4 does, or once the grid is made.
ReadByOp4 ==
  /\ pc \in {"idle", "op4", "load", "sandbox", "child", "container", "grid"}
  /\ verdict \notin {"rejected", "raised"}

RotateShard ==
  /\ ReadByOp4 /\ Change /\ shard < LastShard
  /\ shard' = shard + 1
  /\ during' = during \union {shard + 1}
  /\ UNCHANGED <<disk, settings, slot, blocked, window, codeAge, runner, memory,
                 excuse, accepted, epochs, faults, crashes>>

\* Only op1 reads the slot, the fraud list and the age, in one step: a change of
\* them during a judgement is the same as one before or after it.
BetweenJudgements == pc = "idle" /\ verdict \notin {"rejected", "raised"}

Recommit ==
  /\ BetweenJudgements /\ Change /\ slot # <<"later">>
  /\ slot' = <<"later">>
  /\ UNCHANGED <<disk, settings, shard, blocked, window, codeAge, runner, memory, ghosts, epochs, faults, crashes>>

ListFraud ==
  /\ BetweenJudgements /\ Change
  /\ bundle.files["checkpoint"] \notin blocked
  /\ blocked' = blocked \union {bundle.files["checkpoint"]}
  /\ UNCHANGED <<disk, settings, shard, slot, window, codeAge, runner, memory, ghosts, epochs, faults, crashes>>

AdvanceWindow ==
  /\ ReadByOp4 /\ Change /\ window < LastWindow
  /\ window' = window + 1
  /\ UNCHANGED <<disk, settings, shard, slot, blocked, codeAge, runner, memory, ghosts, epochs, faults, crashes>>

GrowOlder ==
  /\ BetweenJudgements /\ Change /\ codeAge < MaxAge /\ codeAge' = codeAge + 1
  /\ UNCHANGED <<disk, settings, shard, slot, blocked, window, runner, memory, ghosts, epochs, faults, crashes>>

-----------------------------------------------------------------------------

Step ==
  \/ Op1 \/ Op2 \/ Op3
  \/ RederiveBegin \/ RederiveEnd
  \/ Op4Enforce \/ Op4Legacy \/ Load \/ SandboxStart
  \/ ChildReads \/ ContainerReads \/ ChildEnds \/ ContainerEnds
  \/ GridStart \/ GridNoEntropy \/ GridEnds
  \/ TimeLimit

Environment ==
  \/ Hang \/ Restart
  \/ RotateShard \/ Recommit \/ ListFraud \/ AdvanceWindow \/ GrowOlder

Next == BeginJudgement \/ Step \/ Environment

\* The validator goes on with a judgement it began: every wait of the judge on a
\* child, a container or a service has a time limit, or ends by itself.
Fairness == WF_vars(Step)

Spec == Init /\ [][Next]_vars /\ Fairness

=============================================================================
