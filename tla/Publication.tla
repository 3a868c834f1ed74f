----------------------------- MODULE Publication -----------------------------
(***************************************************************************)
(* What becomes of a submission outside the validator: from the miner's    *)
(* run over the judgement to a commit, a tag and a release of the recipe,  *)
(* or to closed pull requests.  The validator's part is run_epoch() and    *)
(* score_and_decide() of validator/service.py as far as they read or       *)
(* change GitHub and the Hub, with merge_and_release() of                  *)
(* validator/github_bot.py and validator/hf_bot.py.                        *)
(*                                                                         *)
(* The bot's tokens are there, a recipe PR is required and the merged-PR   *)
(* gate is off, as by default; EpochLoop has it on, with everything else   *)
(* an epoch does.  Which challenger beats the king is left open.  Nobody   *)
(* merges by hand here, and no two bundles have the same patch.            *)
(***************************************************************************)
EXTENDS MinerClient

CONSTANTS MaxSeries \* bound on recipe series

ASSUME PublicationAssumption == MaxSeries \in Nat \ {0}

VARIABLES
  pc, subject,  \* the step of the epoch and the bundle it is at
  version,      \* the version merge_and_release computed
  series,       \* _RECIPE_SERIES, in the code
  king,
  verdict,      \* where a bundle was archived
  events,       \* recipe_released: bundle and tag
  \* kept only to state properties
  reigns        \* the bundles crowned, in order

validator == <<pc, subject, version, series, king, verdict, events, reigns>>
vars == <<repo, image, miner, troubled, validator>>

Init ==
  /\ RepoInit /\ MinerInit
  /\ pc = "idle" /\ subject = Nothing /\ version = NoVersion /\ series = 1
  /\ king = Nothing /\ verdict = [b \in Bundles |-> "pending"]
  /\ events = {} /\ reigns = <<>>

Step(from, to) ==
  /\ pc = from /\ pc' = to
  /\ UNCHANGED <<image, stage, slot, measured, url, series>>

-----------------------------------------------------------------------------
\* score_and_decide

\* What poll_hub finds: open on the Hub, in queue/pending once it was fetched.
Queued(b) == hub[b] # "none" /\ verdict[b] = "pending"

\* op1 compares with the commitment that stands now, op2 the recipe that was
\* measured with the one pinned now; both are rejections.
Accepted(b) == slot[Owner[b]] = b /\ measured[b] = image

\* _verify_pr_if_required: the pull request named is open and has this bundle's
\* patch, so that it is the bundle's own.
PrVerified(b) == url[b] = b /\ PullVerified(b)

Take(b, to) ==
  /\ Step("idle", to) /\ Queued(b)
  /\ subject' = b
  /\ UNCHANGED <<repo, hub, version, verdict, events>>

\* A call that fails, on chain or to GitHub, rejects like a bundle that is bad.
Reject(b) ==
  /\ Take(b, "close rejected")
  /\ \/ ~(Accepted(b) /\ PrVerified(b)) /\ NoTrouble
     \/ Accepted(b) /\ PrVerified(b) /\ Trouble(b)
  /\ UNCHANGED <<king, reigns>>

Lose(b) ==
  /\ Take(b, "close scored")
  /\ Accepted(b) /\ PrVerified(b) /\ king # Nothing /\ NoTrouble
  /\ UNCHANGED <<king, reigns>>

\* set_king.  A king does not beat itself.
Crown(b) ==
  /\ Take(b, "merge")
  /\ Accepted(b) /\ PrVerified(b) /\ b # king /\ NoTrouble
  /\ king' = b /\ reigns' = Append(reigns, b)

-----------------------------------------------------------------------------
\* merge_and_release.  An HTTP error of the last two calls is a result, any
\* other exception, a lost answer among them, ends it without an event.

Publishing(from, to) ==
  /\ Step(from, to)
  /\ UNCHANGED <<hub, subject, king, verdict, reigns>>

\* Mutant: the one of the bundle its owner committed to last.
PullOfOwner(b) == slot[Owner[b]]

\* What submission.json names.
PullOf(b) == url[b]

MergeRecipePull ==
  /\ Publishing("merge", "tag") /\ NoTrouble
  /\ MergePull(PullOf(subject))
  /\ UNCHANGED <<version, events>>

\* main has moved so that the patch no longer applies, or the call fails; the
\* crown stands.
MergeFails ==
  /\ Publishing("merge", "merge hub")
  /\ \/ ~Mergeable(PullOf(subject)) /\ UNCHANGED repo /\ NoTrouble
     \/ Trouble(subject) /\ (MergePull(PullOf(subject)) \/ UNCHANGED repo)
  /\ UNCHANGED <<version, events>>

Announce(tag) == events' = events \union {[bundle |-> subject, tag |-> tag]}

\* The tags cannot be read: taken for none, as long as it is an HTTP error.
TagRecipe ==
  /\ Publishing("tag", "release")
  /\ \/ NoTrouble /\ \E page \in TagPages : version' = VersionFor(Latest(page), series)
     \/ Trouble(subject) /\ version' = VersionFor(NoVersion, series)
  /\ CreateTag(version')
  /\ UNCHANGED events

\* The tag exists or is refused: announced, without a tag.
TagRefused ==
  /\ Publishing("tag", "merge hub")
  /\ \/ NoTrouble /\ \E page \in TagPages : Taken(VersionFor(Latest(page), series))
     \/ Trouble(subject)
  /\ Announce(NoVersion)
  /\ UNCHANGED <<repo, version>>

TagLost ==
  /\ Publishing("tag", "merge hub") /\ Trouble(subject)
  /\ \/ UNCHANGED repo
     \/ \E page \in TagPages : CreateTag(VersionFor(Latest(page), series))
  /\ UNCHANGED <<version, events>>

Release ==
  /\ Publishing("release", "merge hub") /\ NoTrouble
  /\ PublishRelease(version) /\ Announce(version)
  /\ version' = NoVersion

\* Announced like one that was published, or not at all.
ReleaseFails ==
  /\ Publishing("release", "merge hub") /\ Trouble(subject)
  /\ \/ UNCHANGED repo /\ Announce(version)
     \/ (PublishRelease(version) \/ UNCHANGED repo) /\ UNCHANGED events
  /\ version' = NoVersion

-----------------------------------------------------------------------------
\* The Hub's pull request, closing, archiving

Settling(from, to) ==
  /\ Step(from, to)
  /\ UNCHANGED <<subject, version, king, events, reigns>>

SettleHub(state) ==
  \/ hub' = [hub EXCEPT ![subject] = state] /\ NoTrouble
  \/ Trouble(subject) /\ (hub' = [hub EXCEPT ![subject] = state] \/ UNCHANGED hub)

\* hf_bot.merge_pr; a failure is an event of its own.
MergeHubPull ==
  /\ Settling("merge hub", "archive scored")
  /\ SettleHub("merged")
  /\ UNCHANGED <<repo, verdict>>

\* Mutant: closed after it was archived, when its files are no longer there.
CloseNothing ==
  /\ \/ Settling("close rejected 2", "archive rejected")
     \/ Settling("close scored 2", "archive scored")
  /\ NoTrouble
  /\ UNCHANGED <<repo, hub, verdict>>

\* _close_losing_prs: the Hub, then on GitHub the pull request submission.json
\* names, whosever it is; neither failure matters.
CloseHubPull ==
  /\ \/ Settling("close rejected", "close rejected 2")
     \/ Settling("close scored", "close scored 2")
  /\ SettleHub("closed")
  /\ UNCHANGED <<repo, verdict>>

CloseRecipePull ==
  /\ \/ Settling("close rejected 2", "archive rejected")
     \/ Settling("close scored 2", "archive scored")
  /\ IF url[subject] # Nothing
     THEN \/ ClosePull(PullOf(subject)) /\ NoTrouble
          \/ Trouble(subject) /\ UNCHANGED repo
     ELSE UNCHANGED repo /\ NoTrouble
  /\ UNCHANGED <<hub, verdict>>

Archive(to) ==
  /\ verdict' = [verdict EXCEPT ![subject] = to]
  /\ subject' = Nothing
  /\ NoTrouble
  /\ UNCHANGED <<repo, hub, version, king, events, reigns>>

ArchiveBundle ==
  \/ Step("archive scored", "idle") /\ Archive("scored")
  \/ Step("archive rejected", "idle") /\ Archive("rejected")

-----------------------------------------------------------------------------

\* What was begun is not taken up again: the bundle is still in the queue.
CrashValidator ==
  /\ pc # "idle" /\ Trouble(subject)
  /\ pc' = "idle" /\ subject' = Nothing /\ version' = NoVersion
  /\ UNCHANGED <<repo, image, miner, series, king, verdict, events, reigns>>

\* The owner pins the recipe as main has it and opens a series; between epochs.
Cutover ==
  /\ pc = "idle" /\ image # Len(main) /\ series < MaxSeries
  /\ image' = Len(main) /\ series' = series + 1
  /\ UNCHANGED <<repo, miner, troubled, pc, subject, version, king, verdict, events, reigns>>

ValidatorStep ==
  \/ \E b \in Bundles : Reject(b) \/ Lose(b) \/ Crown(b)
  \/ MergeRecipePull \/ MergeFails
  \/ TagRecipe \/ TagRefused \/ TagLost \/ Release \/ ReleaseFails
  \/ MergeHubPull \/ CloseHubPull \/ CloseRecipePull \/ ArchiveBundle

Next ==
  \/ MinerStep /\ UNCHANGED validator
  \/ ValidatorStep \/ CrashValidator \/ Cutover

Spec == Init /\ [][Next]_vars

=============================================================================
