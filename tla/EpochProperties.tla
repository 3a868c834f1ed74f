-------------------------- MODULE EpochProperties --------------------------
(***************************************************************************)
(* What the validator service must and must not do, over EpochLoop.        *)
(***************************************************************************)
EXTENDS EpochLoop

----------------------------------------------------------------------------
\* The crown.

\* The quality a crown has to raise: -bpb, plus accuracy when it is counted.
Standing(b) == (IF BenchCrown THEN Metric[b].bench ELSE 0) - Metric[b].bpb

\* No sequence of crowns, demotions and restarts goes round in a circle: of
\* any two kings on the throne's line the later one stands strictly higher
\* (score_bundle's branches allow a regression on one axis, so this is about
\* all of a reign's crowns together).
LineImproves ==
  \A i, j \in 1 .. Len(throne) : i < j => Standing(throne[i]) < Standing(throne[j])

\* score_and_decide's is_first, the one crown that beats no bar, is true only
\* while no king was ever crowned.
GenesisOnlyOnce == IsFirst => reigned = {}

\* The service's throne is the ledger of KingLedger, its mark the high-water
\* mark: a bar read by score_and_decide is still the bar when set_king writes.
Ledger == INSTANCE KingLedger WITH line <- throne, mark <- highWater
ImplementsLedger == Ledger!Spec

\* A king's PRs are merged, or left open when the merge fails, but never
\* closed as a losing submission's (_close_losing_prs).
CrownedNeverClosed == \A b \in reigned : recipePr[b] # "closed"

----------------------------------------------------------------------------
\* Weights.

AboutToPay == pc \in {"save", "emit"}

\* Weights about to be saved and set hold a king's share for nobody but the
\* sitting king, whatever was recovered from earlier epochs.
OnlyTheKingIsPaidAsKing ==
  AboutToPay => \A h \in Hotkeys : round[h] >= KingPool => h = KingHotkey

\* Under RALPH_REQUIRE_MERGED_KING_PR a king whose recipe PR is not merged gets
\* nothing, neither as king nor by a credit recovered from an earlier epoch.
UnmergedKingUnpaid ==
  RequireMergedKingPr /\ AboutToPay =>
    \A k \in Kings : recipePr[k] = "merged" \/ round[Owner[k]] = 0

\* Where a miner's unpaid credit may be: in this epoch's list, in the round or
\* saved; it is forfeited by a blacklisting and by leaving the subnet.
CreditHeld(h) ==
  \/ h \in failures
  \/ AboutToPay /\ round[h] > 0
  \/ pendingWeights[h] > 0
  \/ h \in blacklist
  \/ h \notin registered

\* The credit of a meaningful failure is not forgotten before it lands on
\* chain, however often set_weights is refused.  Two losses are the code's own and
\* excepted by name: a king's credit is part of its share and falls with it, and
\* an epoch that withholds all weight from an unmerged king gives up its own
\* failures' shares too (_apply_pool_split returns {} and their bundles are
\* archived): they are in forgone, unless their miner had a credit saved.
OutsidersCreditAccounted ==
  \A b \in unpaid \ forgone : CreditHeld(Owner[b]) \/ Owner[b] \in {Owner[k] : k \in reigned}

\* A credit in pending_weights.json stays until weights have landed, through
\* crashes and later epochs; the sitting king's is replaced by its own share.
\* Only a crash that cuts the file itself short loses it.
SavedCreditKept ==
  [][\A h \in Hotkeys :
       pendingWeights[h] < KingPool /\ pendingWeights'[h] < pendingWeights[h]
         => pc = "clear" \/ h = KingHotkey \/ (pc = "save" /\ pc' = "down")]_vars

----------------------------------------------------------------------------
\* The queue.

\* One bundle in flight per hotkey: a claim moves only off a bundle that left
\* queue/pending, whatever crashes and deferrals come between.  Only a crash
\* inside a write of inflight.json loses it: the file is rewritten in place, and
\* one that does not parse is read as no claims.
ClaimHolds ==
  [][\A h \in Hotkeys :
       claims[h] # NoBundle /\ claims'[h] # claims[h]
         => \/ loc[claims[h]] # "pending"
            \/ claims' = NoClaims /\ pc \in {"poll", "loop"} /\ pc' = "down"]_vars

\* Every submission is handled: a deferred challenger outlasts the tenure that
\* holds it back, and a miner's next bundle the one in flight.
QueueDrains ==
  \A b \in Bundles : loc[b] = "pending" ~> loc[b] \in {"scored", "rejected", "meaningful_failure"}

\* Every audit job is processed, although only idle epochs process them.
AuditsDrain == \A b \in Bundles : audits[b] = "queued" ~> audits[b] # "queued"

\* The validator keeps setting weights, as its vTrust requires, unless the king
\* it would have to pay is blacklisted.
WeightsKeepLanding == []<>(sinceUpdate = 0 \/ KingHotkey \in blacklist)

============================================================================
