----------------------------- MODULE MinerClient -----------------------------
(***************************************************************************)
(* A run of the miner's client, run_miner() of scripts/miner_run.py, with  *)
(* the calls it makes: request_handshake_nonce() of the chain layer,       *)
(* open_recipe_pr() of miner/github_pr.py and upload_bundle() of           *)
(* miner/hub.py.                                                           *)
(*                                                                         *)
(* Every run makes a bundle of its own, since the nonce is in its hash; a  *)
(* run that is repeated is another bundle of the same hotkey.  The patch   *)
(* is not empty: a baseline has no recipe PR and is rejected for that.     *)
(* The bundle is the miner's own to write, so that a run may also name a   *)
(* pull request that is not its own.                                       *)
(***************************************************************************)
EXTENDS RecipeRepo

CONSTANTS
  Owner,       \* the hotkey of each bundle
  MaxTroubles  \* bound on failed calls, lost answers and crashes, together

Nothing == "nothing"

ASSUME MinerAssumption ==
  /\ DOMAIN Owner = Bundles /\ Nothing \notin Bundles
  /\ MaxTroubles \in Nat

VARIABLES
  image,     \* commits of main that are in the pinned container image
  stage,     \* how far the run of each bundle is
  slot,      \* the bundle each hotkey's commitment on chain is of
  measured,  \* commits of main in the recipe each bundle was measured on
  url,       \* the bundle whose pull request submission.json names
  hub,       \* state of each bundle's pull request on the Hub
  troubled   \* bundles a failure, a lost answer or a crash has met, so far

miner == <<stage, slot, measured, url, hub>>

MinerInit ==
  /\ image = 0
  /\ stage = [b \in Bundles |-> "new"]
  /\ slot = [h \in {Owner[b] : b \in Bundles} |-> Nothing]
  /\ measured = [b \in Bundles |-> 0]
  /\ url = [b \in Bundles |-> Nothing]
  /\ hub = [b \in Bundles |-> "none"]
  /\ troubled = {}

\* One trouble per bundle is told from none.
Trouble(b) ==
  /\ b \notin troubled /\ Cardinality(troubled) < MaxTroubles
  /\ troubled' = troubled \union {b}
NoTrouble == UNCHANGED troubled

Running(b) == stage[b] \in {"prove", "sign", "upload"}

Advance(b, from, to) ==
  /\ stage[b] = from
  /\ stage' = [stage EXCEPT ![b] = to]
  /\ UNCHANGED image

Commit(b) == slot' = [slot EXCEPT ![Owner[b]] = b]

-----------------------------------------------------------------------------

\* A run of a registered hotkey; a miner has one at a time.
StartRun(b, to) ==
  /\ Advance(b, "new", to)
  /\ \A c \in Bundles : Owner[c] = Owner[b] => ~Running(c)
  /\ UNCHANGED <<measured, url, hub, repo>>

\* set_commitment replaces what the slot held.  What it returns is not looked
\* at: a refused commitment passes for one that landed.
RequestNonce(b) ==
  /\ StartRun(b, "prove")
  /\ \/ Commit(b) /\ NoTrouble
     \/ UNCHANGED slot /\ Trouble(b)

\* set_commitment raises, whether or not it landed.
RequestFails(b) ==
  /\ StartRun(b, "failed") /\ Trouble(b)
  /\ Commit(b) \/ UNCHANGED slot

\* run_proof_test and the signature: hours, on the recipe of the image.
Prove(b) ==
  /\ Advance(b, "prove", "sign") /\ NoTrouble
  /\ measured' = [measured EXCEPT ![b] = image]
  /\ UNCHANGED <<slot, url, hub, repo>>

\* open_recipe_pr bases its branch on main as it is now, not on the recipe that
\* was measured.
OpenRecipePull(b) ==
  /\ Advance(b, "sign", "upload") /\ NoTrouble
  /\ Applies(b) /\ OpenPull(b)
  /\ url' = [url EXCEPT ![b] = b]
  /\ UNCHANGED <<slot, measured, hub>>

\* A failure is a warning: the bundle is uploaded without a pull request.  When
\* only the answer was lost, there is one nobody knows of.
NoRecipePull(b) ==
  /\ Advance(b, "sign", "upload")
  /\ \/ ~Applies(b) /\ UNCHANGED repo /\ NoTrouble
     \/ Applies(b) /\ (OpenPull(b) \/ UNCHANGED repo) /\ Trouble(b)
  /\ UNCHANGED <<slot, measured, url, hub>>

\* The validator goes by the name in submission.json, which a miner may write
\* without this client: the pull request of another bundle.
NameAnotherPull(b) ==
  /\ Advance(b, "sign", "upload") /\ NoTrouble
  /\ \E c \in Bundles \ {b} : pull[c] # "none" /\ url' = [url EXCEPT ![b] = c]
  /\ UNCHANGED <<slot, measured, hub, repo>>

\* Mutant: submission.json is written before the pull request is opened.
UploadWithoutUrl(b) ==
  /\ Advance(b, "upload", "sent") /\ NoTrouble
  /\ hub' = [hub EXCEPT ![b] = "open"]
  /\ url' = [url EXCEPT ![b] = Nothing]
  /\ UNCHANGED <<slot, measured, repo>>

\* upload_bundle: one commit, as a pull request on the Hub.
UploadBundle(b) ==
  /\ Advance(b, "upload", "sent") /\ NoTrouble
  /\ hub' = [hub EXCEPT ![b] = "open"]
  /\ UNCHANGED <<slot, measured, url, repo>>

\* The run ends where it is, in the upload with or without a pull request on the
\* Hub; nothing takes back what was done.
RunFails(b) ==
  /\ Running(b) /\ Trouble(b)
  /\ stage' = [stage EXCEPT ![b] = "failed"]
  /\ \/ stage[b] = "upload" /\ hub' = [hub EXCEPT ![b] = "open"]
     \/ UNCHANGED hub
  /\ UNCHANGED <<image, slot, measured, url, repo>>

MinerStep ==
  \E b \in Bundles :
    \/ RequestNonce(b) \/ RequestFails(b) \/ Prove(b)
    \/ OpenRecipePull(b) \/ NoRecipePull(b) \/ NameAnotherPull(b)
    \/ UploadBundle(b) \/ RunFails(b)

=============================================================================
