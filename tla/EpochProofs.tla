---------------------------- MODULE EpochProofs ----------------------------
(***************************************************************************)
(* Theorems about EpochLoop for every value of its constants: its types,   *)
(* who is paid as king and who is not, the line of kings, which always     *)
(* rises and is the ledger's, so that the steps between reading the bar    *)
(* and filing the crown come to the ledger's single step, the first crown, *)
(* the credits from the pool to the chain, and the claims of the miners.   *)
(***************************************************************************)
EXTENDS EpochProperties, ScoringProofs, Positions, SequenceTheorems

----------------------------------------------------------------------------
\* The throne.

\* Demotion cuts the line of kings off after one of its members.
LEMMA ReinstatedIsPrefix ==
  ASSUME TypeOK, NEW down
  PROVE  \/ Reinstated(down) = <<>>
         \/ \E n \in 1 .. Len(throne) : Reinstated(down) = SubSeq(throne, 1, n)
<1>1. CASE ValidKings(down) = {}
  BY <1>1 DEF Reinstated
<1>2. CASE ValidKings(down) # {}
  <2>1. Len(throne) \in Nat /\ ValidKings(down) \in SUBSET (1 .. Len(throne))
    BY DEF TypeOK, DiskTypeOK, ValidKings
  <2>2. \E i \in ValidKings(down) : \A j \in ValidKings(down) : j <= i
    BY <1>2, <2>1, LastPosition
  <2>3. (CHOOSE i \in ValidKings(down) : \A j \in ValidKings(down) : j <= i) \in 1 .. Len(throne)
    BY <2>1, <2>2
  <2> QED BY <1>2, <2>3 DEF Reinstated
<1> QED BY <1>1, <1>2

\* The newest king of a line is a bundle.
LEMMA TopType ==
  ASSUME NEW line \in Seq(Bundles), line # <<>>
  PROVE  Top(line) \in Bundles
BY ElementOfSeq, EmptySeq DEF Top

\* Of an extended line the newest king is the one appended.
LEMMA AppendTop ==
  ASSUME NEW line \in Seq(Bundles), NEW b \in Bundles
  PROVE  /\ Append(line, b) \in Seq(Bundles)
         /\ Append(line, b) # <<>>
         /\ Len(Append(line, b)) = Len(line) + 1
         /\ Top(Append(line, b)) = b
BY AppendProperties, EmptySeq DEF Top

\* What _reinstate_valid_king leaves of a line, and caches, are bundles.
LEMMA ReinstatedType ==
  ASSUME TypeOK, NEW down
  PROVE  /\ Reinstated(down) \in Seq(Bundles)
         /\ Confirmed(down) \subseteq Bundles
<1>1. throne \in Seq(Bundles)
  BY DEF TypeOK, DiskTypeOK
<1>2. \A n \in 1 .. Len(throne) : SubSeq(throne, 1, n) \in Seq(Bundles) /\ Len(SubSeq(throne, 1, n)) = n
  BY <1>1, SubSeqProperties
<1>3. Reinstated(down) \in Seq(Bundles)
  <2>1. CASE Reinstated(down) = <<>>
    BY <2>1
  <2>2. CASE \E n \in 1 .. Len(throne) : Reinstated(down) = SubSeq(throne, 1, n)
    BY <2>2, <1>2
  <2> QED BY <2>1, <2>2, ReinstatedIsPrefix
<1>4. Reinstated(down) # <<>> => Top(Reinstated(down)) \in Bundles
  BY <1>3, TopType
<1> QED BY <1>3, <1>4 DEF Confirmed

\* The sitting king is a bundle.
LEMMA KingsType ==
  ASSUME TypeOK
  PROVE  Kings \subseteq Bundles /\ KingHotkey \in Hotkeys \cup {NoHotkey}
BY TopType, EpochLoopAssumption DEF Kings, KingHotkey, TypeOK, DiskTypeOK

----------------------------------------------------------------------------
\* Types.

\* While a bundle is being handled, current is that bundle.
Handling == {"close", "archive", "crown", "mark", "enqueue", "merge"}

CurrentOK == pc \in Handling => current \in Bundles

TypeInv == TypeOK /\ CurrentOK

\* main starts in a well-typed state.
LEMMA TypeInit == Init => TypeInv
<1> SUFFICES ASSUME Init PROVE TypeInv
  OBVIOUS
<1>1. /\ throne \in Seq(Bundles)
      /\ reign \in [Bundles -> 0 .. Tenure]
      /\ sinceUpdate \in 0 .. RateLimit + 1
      /\ crashes \in 0 .. MaxCrashes
  BY EpochLoopAssumption DEF Init
<1>2. /\ loc \in [Bundles -> Locations]
      /\ claims \in [Hotkeys -> Bundles \cup {NoBundle}]
      /\ audits \in [Bundles -> AuditBins]
      /\ recipePr \in [Bundles -> {"none", "open", "merged", "closed"}]
      /\ commitment \in [Hotkeys -> Bundles \cup {NoBundle}]
  BY DEF Init, Locations, AuditBins
<1>3. CurrentOK
  BY DEF Init, CurrentOK, Handling
<1> QED BY <1>1, <1>2, <1>3, NoWeightsType DEF Init, TypeInv, TypeOK, DiskTypeOK,
           WorldTypeOK, LocalsTypeOK, GhostsTypeOK,
    Steps, Verdicts

\* The split of an epoch, the weights about to be set and the record of those
\* that land keep their types.
LEMMA SplitType ==
  ASSUME TypeOK, NEW down
  PROVE  Split(down) \in WeightMaps
BY NoWeightsType, PoolSplitType DEF Split, TypeOK, LocalsTypeOK

\* The entries set_weights submits are a map of weights.
LEMMA PaymentType == TypeOK => Payment \in WeightMaps
BY PayableType DEF Payment, TypeOK, LocalsTypeOK

\* Weights that land leave the chain and the ghosts well-typed.
LEMMA LandTypes ==
  ASSUME TypeOK, NEW w \in WeightMaps, Land(w)
  PROVE  /\ onChain' \in WeightMaps
         /\ sinceUpdate' \in 0 .. RateLimit + 1
         /\ unpaid' \subseteq Bundles /\ forgone' \subseteq unpaid'
<1>1. 0 \in 0 .. RateLimit + 1
  BY EpochLoopAssumption
<1>2. unpaid \subseteq Bundles
  BY DEF TypeOK, GhostsTypeOK
<1> QED BY <1>1, <1>2 DEF Land

\* A step that leaves a part of the state alone leaves its type alone.
LEMMA UnchangedTypes ==
  /\ DiskTypeOK /\ UNCHANGED disk => DiskTypeOK'
  /\ WorldTypeOK /\ UNCHANGED world => WorldTypeOK'
  /\ LocalsTypeOK /\ CurrentOK /\ UNCHANGED locals => LocalsTypeOK' /\ CurrentOK'
  /\ GhostsTypeOK /\ UNCHANGED ghosts => GhostsTypeOK'
BY DEF DiskTypeOK, WorldTypeOK, LocalsTypeOK, GhostsTypeOK, CurrentOK, disk, world, locals, ghosts

\* Every step keeps the state well-typed: one step of the proof per action.
LEMMA TypeNext == TypeInv /\ [Next]_vars => TypeInv'
<1> SUFFICES ASSUME TypeInv, [Next]_vars PROVE TypeInv'
  OBVIOUS
<1> USE UnchangedTypes DEF TypeInv, TypeOK
<1>1. CASE BeginEpoch
  <2>1. DiskTypeOK'
    BY <1>1, ReinstatedType DEF BeginEpoch, DiskTypeOK, throneFiles, LocalsTypeOK,
       CurrentOK, Handling
  <2>2. LocalsTypeOK' /\ CurrentOK'
    BY <1>1, ReinstatedType DEF BeginEpoch, LocalsTypeOK, CurrentOK, Handling, Steps, scratch
  <2> QED BY <1>1, <2>1, <2>2 DEF BeginEpoch
<1>2. CASE PollQueue
  <2>1. DiskTypeOK'
    BY <1>2 DEF PollQueue, Fetched, DiskTypeOK, Pending, Locations, Reconciled, throneFiles,
       LocalsTypeOK, CurrentOK, Handling
  <2>2. LocalsTypeOK' /\ CurrentOK'
    <3>1. busy' \in BOOLEAN
      BY <1>2, Zenon DEF PollQueue
    <3> QED
      BY <1>2, <3>1, NoWeightsType
      DEF PollQueue, DiskTypeOK, LocalsTypeOK, CurrentOK, Handling, Steps, Verdicts, Pending
  <2> QED BY <1>2, <2>1, <2>2 DEF PollQueue
<1>3. CASE Defer
  <2>1. LocalsTypeOK' /\ CurrentOK'
    BY <1>3 DEF Defer, LocalsTypeOK, CurrentOK, Handling
  <2> QED BY <1>3, <2>1 DEF Defer
<1>4. CASE Score
  <2>1. DiskTypeOK'
    BY <1>4, EpochLoopAssumption DEF Score, DiskTypeOK, Claim, throneFiles, LocalsTypeOK,
       CurrentOK, Handling
  <2>2. LocalsTypeOK' /\ CurrentOK'
    BY <1>4 DEF Score, LocalsTypeOK, CurrentOK, Handling, Steps, Verdicts, Outcome,
       Classify, Classifications
  <2> QED BY <1>4, <2>1, <2>2 DEF Score
<1>5. CASE ScoreError
  <2>1. DiskTypeOK'
    BY <1>5, EpochLoopAssumption DEF ScoreError, DiskTypeOK, Claim, throneFiles,
       LocalsTypeOK, CurrentOK, Handling
  <2>2. LocalsTypeOK' /\ CurrentOK'
    BY <1>5 DEF ScoreError, LocalsTypeOK, CurrentOK, Handling, Steps, Verdicts
  <2> QED BY <1>5, <2>1, <2>2 DEF ScoreError
<1>6. CASE ScoreBlindly
  <2>1. DiskTypeOK'
    BY <1>6, EpochLoopAssumption DEF ScoreBlindly, DiskTypeOK, Claim, throneFiles,
       LocalsTypeOK, CurrentOK, Handling
  <2>2. LocalsTypeOK' /\ CurrentOK'
    BY <1>6 DEF ScoreBlindly, LocalsTypeOK, CurrentOK, Handling, Steps, Verdicts, Classifications
  <2> QED BY <1>6, <2>1, <2>2 DEF ScoreBlindly
<1>7. CASE AbortScoring
  <2>1. DiskTypeOK'
    BY <1>7, EpochLoopAssumption DEF AbortScoring, DiskTypeOK, Claim, throneFiles,
       LocalsTypeOK, CurrentOK, Handling
  <2>2. LocalsTypeOK' /\ CurrentOK'
    BY <1>7 DEF AbortScoring, LocalsTypeOK, CurrentOK, Handling, Steps, scratch
  <2> QED BY <1>7, <2>1, <2>2 DEF AbortScoring
<1>8. CASE CloseLosingPr
  <2>1. WorldTypeOK'
    BY <1>8 DEF CloseLosingPr, WorldTypeOK, LocalsTypeOK
  <2>2. LocalsTypeOK' /\ CurrentOK'
    BY <1>8 DEF CloseLosingPr, LocalsTypeOK, CurrentOK, Handling, Steps, scratch
  <2> QED BY <1>8, <2>1, <2>2 DEF CloseLosingPr
<1>9. CASE ArchiveBundle
  <2>1. DiskTypeOK'
    BY <1>9 DEF ArchiveBundle, DiskTypeOK, Destination, Locations, throneFiles,
       LocalsTypeOK, CurrentOK, Handling
  <2>2. LocalsTypeOK' /\ CurrentOK'
    BY <1>9, EpochLoopAssumption DEF ArchiveBundle, LocalsTypeOK, CurrentOK, Handling, Steps
  <2>3. GhostsTypeOK'
    BY <1>9 DEF ArchiveBundle, GhostsTypeOK, CurrentOK, Handling
  <2> QED BY <1>9, <2>1, <2>2, <2>3 DEF ArchiveBundle
<1>10. CASE SetKing
  <2>1. DiskTypeOK'
    BY <1>10, EpochLoopAssumption, AppendProperties DEF SetKing, DiskTypeOK, throneFiles,
       LocalsTypeOK, CurrentOK, Handling
  <2>2. LocalsTypeOK' /\ CurrentOK'
    BY <1>10 DEF SetKing, LocalsTypeOK, CurrentOK, Handling, Steps, scratch
  <2>3. GhostsTypeOK'
    BY <1>10 DEF SetKing, GhostsTypeOK, CurrentOK, Handling
  <2> QED BY <1>10, <2>1, <2>2, <2>3 DEF SetKing
<1>11. CASE SetHighWaterMark
  <2>1. DiskTypeOK'
    BY <1>11 DEF SetHighWaterMark, DiskTypeOK, throneFiles, LocalsTypeOK, CurrentOK, Handling
  <2>2. LocalsTypeOK' /\ CurrentOK'
    BY <1>11, EpochLoopAssumption DEF SetHighWaterMark, LocalsTypeOK, CurrentOK, Handling, Steps
  <2> QED BY <1>11, <2>1, <2>2 DEF SetHighWaterMark
<1>12. CASE EnqueueAudit
  <2>1. DiskTypeOK'
    BY <1>12 DEF EnqueueAudit, DiskTypeOK, throneFiles, AuditBins, LocalsTypeOK, CurrentOK, Handling
  <2>2. LocalsTypeOK' /\ CurrentOK'
    BY <1>12 DEF EnqueueAudit, LocalsTypeOK, CurrentOK, Handling, Steps
  <2> QED BY <1>12, <2>1, <2>2 DEF EnqueueAudit
<1>13. CASE MergePr
  <2>1. WorldTypeOK'
    BY <1>13 DEF MergePr, WorldTypeOK, LocalsTypeOK
  <2>2. LocalsTypeOK' /\ CurrentOK'
    BY <1>13 DEF MergePr, LocalsTypeOK, CurrentOK, Handling, Steps, scratch
  <2> QED BY <1>13, <2>1, <2>2 DEF MergePr
<1>14. CASE ComputeWeights
  <2>1. LocalsTypeOK' /\ CurrentOK'
    <3>1. PICK down \in Outages :
            /\ round' = MergeRecovered(Split(down), recovered, PaidKing)
            /\ mergedCache' = IF RequireMergedKingPr /\ ~Withheld(down)
                              THEN mergedCache \cup Kings ELSE mergedCache
      BY <1>14 DEF ComputeWeights
    <3>2. round' \in WeightMaps
      BY <3>1, SplitType, MergeRecoveredType DEF LocalsTypeOK
    <3>3. mergedCache' \subseteq Bundles
      BY <3>1, KingsType DEF LocalsTypeOK
    <3> QED
      BY <1>14, <3>2, <3>3 DEF ComputeWeights, LocalsTypeOK, CurrentOK, Handling, Steps, Rest
  <2>2. GhostsTypeOK'
    BY <1>14 DEF ComputeWeights, GivenUp, GhostsTypeOK, LocalsTypeOK
  <2> QED BY <1>14, <2>1, <2>2 DEF ComputeWeights
<1>15. CASE SaveWeights
  <2>1. DiskTypeOK'
    BY <1>15 DEF SaveWeights, DiskTypeOK, throneFiles, LocalsTypeOK, CurrentOK, Handling
  <2>2. LocalsTypeOK' /\ CurrentOK'
    BY <1>15 DEF SaveWeights, LocalsTypeOK, CurrentOK, Handling, Steps, scratch
  <2> QED BY <1>15, <2>1, <2>2 DEF SaveWeights
<1>16. CASE SetWeightsRefused
  <2>1. LocalsTypeOK' /\ CurrentOK'
    BY <1>16 DEF SetWeightsRefused, LocalsTypeOK, CurrentOK, Handling, Steps, scratch, Rest
  <2> QED BY <1>16, <2>1 DEF SetWeightsRefused
<1>17. CASE SetWeightsLands
  <2>1. WorldTypeOK'
    BY <1>17, PaymentType, LandTypes DEF SetWeightsLands, WorldTypeOK
  <2>2. LocalsTypeOK' /\ CurrentOK'
    BY <1>17 DEF SetWeightsLands, LocalsTypeOK, CurrentOK, Handling, Steps, scratch
  <2>3. GhostsTypeOK'
    BY <1>17, PaymentType, LandTypes DEF SetWeightsLands, GhostsTypeOK
  <2> QED BY <1>17, <2>1, <2>2, <2>3 DEF SetWeightsLands
<1>18. CASE SetWeightsFails
  <2>1. WorldTypeOK'
    BY <1>18, PaymentType, LandTypes DEF SetWeightsFails, WorldTypeOK
  <2>2. LocalsTypeOK' /\ CurrentOK'
    BY <1>18 DEF SetWeightsFails, LocalsTypeOK, CurrentOK, Handling, Steps, scratch, Rest
  <2>3. GhostsTypeOK'
    BY <1>18, PaymentType, LandTypes DEF SetWeightsFails, GhostsTypeOK
  <2> QED BY <1>18, <2>1, <2>2, <2>3 DEF SetWeightsFails
<1>19. CASE AbortWeights
  <2>1. LocalsTypeOK' /\ CurrentOK'
    BY <1>19 DEF AbortWeights, LocalsTypeOK, CurrentOK, Handling, Steps, scratch
  <2> QED BY <1>19, <2>1 DEF AbortWeights
<1>20. CASE ClearWeights
  <2>1. DiskTypeOK'
    BY <1>20, NoWeightsType DEF ClearWeights, DiskTypeOK, throneFiles, LocalsTypeOK,
       CurrentOK, Handling
  <2>2. LocalsTypeOK' /\ CurrentOK'
    BY <1>20 DEF ClearWeights, LocalsTypeOK, CurrentOK, Handling, Steps, scratch, Rest
  <2> QED BY <1>20, <2>1, <2>2 DEF ClearWeights
<1>21. CASE BurnWeights
  <2>1. WorldTypeOK'
    BY <1>21, NoWeightsType, LandTypes DEF BurnWeights, WorldTypeOK
  <2>2. LocalsTypeOK' /\ CurrentOK'
    BY <1>21 DEF BurnWeights, LocalsTypeOK, CurrentOK, Handling, Steps, scratch, Rest
  <2>3. GhostsTypeOK'
    BY <1>21, NoWeightsType, LandTypes DEF BurnWeights, GhostsTypeOK
  <2> QED BY <1>21, <2>1, <2>2, <2>3 DEF BurnWeights
<1>22. CASE NothingToAudit
  <2>1. LocalsTypeOK' /\ CurrentOK'
    BY <1>22 DEF NothingToAudit, LocalsTypeOK, CurrentOK, Handling, Steps, scratch
  <2> QED BY <1>22, <2>1 DEF NothingToAudit
<1>23. CASE RunAudit
  <2>1. DiskTypeOK'
    <3>1. PICK b \in Jobs :
            /\ blacklist' \in {blacklist, blacklist \cup {Owner[b]}}
            /\ \E bin \in AuditBins : audits' = [audits EXCEPT ![b] = bin]
      BY <1>23 DEF RunAudit, AuditBins
    <3>2. b \in Bundles /\ Owner[b] \in Hotkeys
      BY EpochLoopAssumption DEF Jobs
    <3>3. blacklist' \subseteq Hotkeys /\ audits' \in [Bundles -> AuditBins]
      BY <3>1, <3>2 DEF DiskTypeOK
    <3> QED
      BY <1>23, <3>3 DEF RunAudit, DiskTypeOK, throneFiles
  <2>2. LocalsTypeOK' /\ CurrentOK'
    BY <1>23 DEF RunAudit, LocalsTypeOK, CurrentOK, Handling, Steps, scratch
  <2> QED BY <1>23, <2>1, <2>2 DEF RunAudit
<1>24. CASE Restart
  <2>1. LocalsTypeOK' /\ CurrentOK'
    BY <1>24 DEF Restart, LocalsTypeOK, CurrentOK, Handling, Steps, scratch
  <2> QED BY <1>24, <2>1 DEF Restart
<1>25. CASE Crash
  <2>1. LocalsTypeOK' /\ CurrentOK'
    BY <1>25, NoWeightsType DEF Crash, LocalsTypeOK, CurrentOK, Handling, Steps, Verdicts, Forget
  <2>2. GhostsTypeOK'
    BY <1>25, EpochLoopAssumption DEF Crash, GhostsTypeOK, Forget, LocalsTypeOK
  <2> QED BY <1>25, <2>1, <2>2 DEF Crash, Forget
<1>26. CASE CrashWritingKing
  <2>1. DiskTypeOK'
    BY <1>26, EmptySeq DEF CrashWritingKing, DiskTypeOK, throneFiles, LocalsTypeOK,
       CurrentOK, Handling
  <2>2. LocalsTypeOK' /\ CurrentOK'
    BY <1>26, NoWeightsType DEF CrashWritingKing, LocalsTypeOK, CurrentOK, Handling, Steps,
       Verdicts, Forget
  <2>3. GhostsTypeOK'
    BY <1>26, EpochLoopAssumption DEF CrashWritingKing, GhostsTypeOK, Forget, LocalsTypeOK
  <2> QED BY <1>26, <2>1, <2>2, <2>3 DEF CrashWritingKing, Forget
<1>27. CASE CrashWritingMark
  <2>1. DiskTypeOK'
    BY <1>27 DEF CrashWritingMark, DiskTypeOK, throneFiles, LocalsTypeOK, CurrentOK, Handling
  <2>2. LocalsTypeOK' /\ CurrentOK'
    BY <1>27, NoWeightsType DEF CrashWritingMark, LocalsTypeOK, CurrentOK, Handling, Steps,
       Verdicts, Forget
  <2>3. GhostsTypeOK'
    BY <1>27, EpochLoopAssumption DEF CrashWritingMark, GhostsTypeOK, Forget, LocalsTypeOK
  <2> QED BY <1>27, <2>1, <2>2, <2>3 DEF CrashWritingMark, Forget
<1>28. CASE CrashWritingWeights
  <2>1. DiskTypeOK'
    BY <1>28, NoWeightsType DEF CrashWritingWeights, DiskTypeOK, throneFiles, LocalsTypeOK,
       CurrentOK, Handling
  <2>2. LocalsTypeOK' /\ CurrentOK'
    BY <1>28, NoWeightsType DEF CrashWritingWeights, LocalsTypeOK, CurrentOK, Handling,
       Steps, Verdicts, Forget
  <2>3. GhostsTypeOK'
    BY <1>28, EpochLoopAssumption DEF CrashWritingWeights, GhostsTypeOK, Forget, LocalsTypeOK
  <2> QED BY <1>28, <2>1, <2>2, <2>3 DEF CrashWritingWeights, Forget
<1>29. CASE CrashPolling
  <2>1. DiskTypeOK'
    BY <1>29, EpochLoopAssumption DEF CrashPolling, Fetched, Written, NoClaims, Locations, DiskTypeOK, throneFiles, LocalsTypeOK,
       CurrentOK, Handling
  <2>2. LocalsTypeOK' /\ CurrentOK'
    BY <1>29, NoWeightsType DEF CrashPolling, LocalsTypeOK, CurrentOK, Handling,
       Steps, Verdicts, Forget
  <2>3. GhostsTypeOK'
    BY <1>29, EpochLoopAssumption DEF CrashPolling, GhostsTypeOK, Forget, LocalsTypeOK
  <2> QED BY <1>29, <2>1, <2>2, <2>3 DEF CrashPolling, Forget
<1>30. CASE CrashClaiming
  <2>1. DiskTypeOK'
    BY <1>30, EpochLoopAssumption DEF CrashClaiming, NoClaims, DiskTypeOK, throneFiles, LocalsTypeOK,
       CurrentOK, Handling
  <2>2. LocalsTypeOK' /\ CurrentOK'
    BY <1>30, NoWeightsType DEF CrashClaiming, LocalsTypeOK, CurrentOK, Handling,
       Steps, Verdicts, Forget
  <2>3. GhostsTypeOK'
    BY <1>30, EpochLoopAssumption DEF CrashClaiming, GhostsTypeOK, Forget, LocalsTypeOK
  <2> QED BY <1>30, <2>1, <2>2, <2>3 DEF CrashClaiming, Forget
<1>31. CASE CrashEnqueuing
  <2>1. DiskTypeOK'
    BY <1>31, EpochLoopAssumption DEF CrashEnqueuing, AuditBins, DiskTypeOK, throneFiles, LocalsTypeOK,
       CurrentOK, Handling
  <2>2. LocalsTypeOK' /\ CurrentOK'
    BY <1>31, NoWeightsType DEF CrashEnqueuing, LocalsTypeOK, CurrentOK, Handling,
       Steps, Verdicts, Forget
  <2>3. GhostsTypeOK'
    BY <1>31, EpochLoopAssumption DEF CrashEnqueuing, GhostsTypeOK, Forget, LocalsTypeOK
  <2> QED BY <1>31, <2>1, <2>2, <2>3 DEF CrashEnqueuing, Forget
<1>32. CASE CrashBlacklisting
  <2>1. DiskTypeOK'
    BY <1>32, EpochLoopAssumption DEF CrashBlacklisting, Jobs, Written, DiskTypeOK, throneFiles, LocalsTypeOK,
       CurrentOK, Handling
  <2>2. LocalsTypeOK' /\ CurrentOK'
    BY <1>32, NoWeightsType DEF CrashBlacklisting, LocalsTypeOK, CurrentOK, Handling,
       Steps, Verdicts, Forget
  <2>3. GhostsTypeOK'
    BY <1>32, EpochLoopAssumption DEF CrashBlacklisting, GhostsTypeOK, Forget, LocalsTypeOK
  <2> QED BY <1>32, <2>1, <2>2, <2>3 DEF CrashBlacklisting, Forget
<1>33. CASE Submit
  <2>1. DiskTypeOK'
    BY <1>33 DEF Submit, DiskTypeOK, Locations, throneFiles, LocalsTypeOK, CurrentOK, Handling
  <2>2. WorldTypeOK'
    BY <1>33, EpochLoopAssumption DEF Submit, WorldTypeOK, LocalsTypeOK
  <2> QED BY <1>33, <2>1, <2>2 DEF Submit
<1>34. CASE Tick
  <2>1. DiskTypeOK'
    BY <1>34, EpochLoopAssumption DEF Tick, DiskTypeOK, UpTo, throneFiles, LocalsTypeOK,
       CurrentOK, Handling
  <2>2. WorldTypeOK'
    BY <1>34, EpochLoopAssumption DEF Tick, WorldTypeOK, UpTo, LocalsTypeOK
  <2> QED BY <1>34, <2>1, <2>2 DEF Tick
<1>35. CASE ManualMerge
  <2>1. WorldTypeOK'
    BY <1>35 DEF ManualMerge, WorldTypeOK, LocalsTypeOK
  <2> QED BY <1>35, <2>1 DEF ManualMerge
<1>36. CASE Deregister
  <2>1. WorldTypeOK'
    BY <1>36 DEF Deregister, WorldTypeOK, LocalsTypeOK
  <2> QED BY <1>36, <2>1 DEF Deregister
<1>37. CASE UNCHANGED vars
  BY <1>37 DEF vars
<1> QED
  BY <1>1, <1>2, <1>3, <1>4, <1>5, <1>6, <1>7, <1>8, <1>9, <1>10, <1>11, <1>12, <1>13,
     <1>14, <1>15, <1>16, <1>17, <1>18, <1>19, <1>20, <1>21, <1>22, <1>23, <1>24, <1>25,
     <1>26, <1>27, <1>28, <1>29, <1>30, <1>31, <1>32, <1>33, <1>34, <1>35, <1>36, <1>37 DEF Next, ValidatorStep,
     CrashStep, WorldStep

\* Every state has the types of its variables, whatever crashes, however many
\* miners and submissions there are.
THEOREM TypeCorrect == Spec => []TypeOK
<1>1. TypeInv => TypeOK
  BY DEF TypeInv
<1> QED BY TypeInit, TypeNext, <1>1, PTL DEF Spec

----------------------------------------------------------------------------
\* The king's share.

\* While an epoch scores, king_change_hotkey is unset or the sitting king's,
\* except between set_king and the assignment that follows it.
CrownInv ==
  /\ pc = "mark" => throne # <<>> /\ Top(throne) = current
  /\ pc \in ({"loop"} \cup Handling) \ {"mark"} => crowned \in {NoHotkey, KingHotkey}

WagesInv == TypeInv /\ CrownInv /\ OnlyTheKingIsPaidAsKing

\* So the round computed in an epoch holds a king's share for its king alone.
LEMMA RoundBelowKing ==
  ASSUME TypeOK, NEW down, NEW h \in Hotkeys, h # PaidKing
  PROVE  MergeRecovered(Split(down), recovered, PaidKing)[h] < KingPool
<1>1. Split(down)[h] < KingPool
  <2>1. NoWeights[h] < KingPool
    BY ScoringAssumption DEF NoWeights, KingPool
  <2>2. PoolSplit(PaidKing, failures)[h] < KingPool
    BY SharesBelowKing DEF TypeOK, LocalsTypeOK
  <2> QED BY <2>1, <2>2 DEF Split
<1> QED BY <1>1, SplitType, MergedBelowKing DEF TypeOK, LocalsTypeOK

\* Nothing is about to be paid when main starts.
LEMMA WagesInit == Init => WagesInv
BY TypeInit DEF Init, WagesInv, CrownInv, Handling, OnlyTheKingIsPaidAsKing, AboutToPay

\* The steps that leave throne, crowned, current and round alone and enter none
\* of the places the invariant speaks of but from another such place.
LEMMA WagesKept ==
  ASSUME WagesInv, TypeInv', UNCHANGED <<throne, crowned, current, round>>,
         pc' = "mark" => pc = "mark",
         pc' \in ({"loop"} \cup Handling) \ {"mark"} => pc \in ({"loop"} \cup Handling) \ {"mark"},
         AboutToPay' => AboutToPay
  PROVE  WagesInv'
<1>1. KingHotkey' = KingHotkey
  BY DEF KingHotkey
<1> QED BY <1>1 DEF WagesInv, CrownInv, OnlyTheKingIsPaidAsKing

\* Every step keeps a king's share for the sitting king.
LEMMA WagesNext == WagesInv /\ [Next]_vars => WagesInv'
<1> SUFFICES ASSUME WagesInv, [Next]_vars PROVE WagesInv'
  OBVIOUS
<1>a. TypeInv' /\ TypeOK
  BY TypeNext DEF WagesInv, TypeInv
<1> USE DEF Handling, AboutToPay
<1>1. CASE CloseLosingPr
  BY <1>a, <1>1, WagesKept DEF CloseLosingPr, Rest, disk, world, locals, ghosts,
     throneFiles, scratch
<1>2. CASE MergePr
  BY <1>a, <1>2, WagesKept DEF MergePr, Rest, disk, world, locals, ghosts, throneFiles, scratch
<1>3. CASE SaveWeights
  BY <1>a, <1>3, WagesKept DEF SaveWeights, Rest, disk, world, locals, ghosts, throneFiles, scratch
<1>4. CASE SetWeightsRefused
  BY <1>a, <1>4, WagesKept DEF SetWeightsRefused, Rest, disk, world, locals, ghosts,
     throneFiles, scratch
<1>5. CASE SetWeightsLands
  BY <1>a, <1>5, WagesKept DEF SetWeightsLands, Rest, disk, world, locals, ghosts,
     throneFiles, scratch
<1>6. CASE SetWeightsFails
  BY <1>a, <1>6, WagesKept DEF SetWeightsFails, Rest, disk, world, locals, ghosts,
     throneFiles, scratch
<1>7. CASE AbortWeights
  BY <1>a, <1>7, WagesKept DEF AbortWeights, Rest, disk, world, locals, ghosts, throneFiles, scratch
<1>8. CASE ClearWeights
  BY <1>a, <1>8, WagesKept DEF ClearWeights, Rest, disk, world, locals, ghosts, throneFiles, scratch
<1>9. CASE BurnWeights
  BY <1>a, <1>9, WagesKept DEF BurnWeights, Rest, disk, world, locals, ghosts, throneFiles, scratch
<1>10. CASE NothingToAudit
  BY <1>a, <1>10, WagesKept DEF NothingToAudit, Rest, disk, world, locals, ghosts,
     throneFiles, scratch
<1>11. CASE RunAudit
  BY <1>a, <1>11, WagesKept DEF RunAudit, Rest, disk, world, locals, ghosts, throneFiles, scratch
<1>12. CASE Submit
  BY <1>a, <1>12, WagesKept DEF Submit, Rest, disk, world, locals, ghosts, throneFiles, scratch
<1>13. CASE Tick
  BY <1>a, <1>13, WagesKept DEF Tick, Rest, disk, world, locals, ghosts, throneFiles, scratch
<1>14. CASE ManualMerge
  BY <1>a, <1>14, WagesKept DEF ManualMerge, Rest, disk, world, locals, ghosts, throneFiles, scratch
<1>15. CASE Deregister
  BY <1>a, <1>15, WagesKept DEF Deregister, Rest, disk, world, locals, ghosts, throneFiles, scratch
<1>16. CASE AbortScoring
  BY <1>a, <1>16, WagesKept DEF AbortScoring, Rest, disk, world, locals, ghosts,
     throneFiles, scratch
<1>17. CASE Defer
  BY <1>a, <1>17, WagesKept DEF Defer, Rest, disk, world, locals, ghosts, throneFiles, scratch
<1>18. CASE BeginEpoch
  BY <1>a, <1>18 DEF BeginEpoch, WagesInv, CrownInv, OnlyTheKingIsPaidAsKing, scratch
<1>19. CASE PollQueue
  BY <1>a, <1>19 DEF PollQueue, WagesInv, CrownInv, OnlyTheKingIsPaidAsKing, scratch
<1>20. CASE Score
  BY <1>a, <1>20 DEF Score, WagesInv, CrownInv, OnlyTheKingIsPaidAsKing, KingHotkey,
     throneFiles, scratch
<1>21. CASE ScoreError
  BY <1>a, <1>21 DEF ScoreError, WagesInv, CrownInv, OnlyTheKingIsPaidAsKing, KingHotkey,
     throneFiles, scratch
<1>22. CASE ScoreBlindly
  BY <1>a, <1>22 DEF ScoreBlindly, WagesInv, CrownInv, OnlyTheKingIsPaidAsKing, KingHotkey,
     throneFiles, scratch
<1>23. CASE ArchiveBundle
  BY <1>a, <1>23 DEF ArchiveBundle, WagesInv, CrownInv, OnlyTheKingIsPaidAsKing, KingHotkey,
     throneFiles, scratch
<1>24. CASE SetKing
  <2>1. throne' # <<>> /\ Top(throne') = current
    BY <1>a, <1>24, AppendTop DEF SetKing, TypeOK, DiskTypeOK, WagesInv, TypeInv, CurrentOK
  <2> QED
    BY <1>a, <1>24, <2>1 DEF SetKing, WagesInv, CrownInv, OnlyTheKingIsPaidAsKing, scratch
<1>25. CASE SetHighWaterMark
  BY <1>a, <1>25 DEF SetHighWaterMark, WagesInv, CrownInv, OnlyTheKingIsPaidAsKing,
     KingHotkey, throneFiles, scratch
<1>26. CASE EnqueueAudit
  BY <1>a, <1>26 DEF EnqueueAudit, WagesInv, CrownInv, OnlyTheKingIsPaidAsKing, KingHotkey,
     throneFiles, scratch
<1>27. CASE ComputeWeights
  <2>1. PaidKing = KingHotkey
    BY <1>27 DEF ComputeWeights, PaidKing, WagesInv, CrownInv
  <2>2. KingHotkey' = KingHotkey
    BY <1>27 DEF ComputeWeights, disk, KingHotkey
  <2>3. \A h \in Hotkeys : round'[h] >= KingPool => h = KingHotkey
    <3>1. PICK down \in Outages : round' = MergeRecovered(Split(down), recovered, PaidKing)
      BY <1>27 DEF ComputeWeights
    <3>2. \A h \in Hotkeys : h # KingHotkey => round'[h] < KingPool
      BY <1>a, <2>1, <3>1, RoundBelowKing
    <3>3. \A h \in Hotkeys : round'[h] \in Int /\ KingPool \in Int
      BY <1>a, ScoringAssumption DEF TypeInv, TypeOK, LocalsTypeOK, WeightMaps, KingPool
    <3> QED BY <3>2, <3>3
  <2>4. pc' \notin {"loop"} \cup Handling
    BY <1>27 DEF ComputeWeights, Rest
  <2> QED
    BY <1>a, <2>2, <2>3, <2>4 DEF WagesInv, CrownInv, OnlyTheKingIsPaidAsKing
<1>28. CASE Restart
  BY <1>a, <1>28 DEF Restart, WagesInv, CrownInv, OnlyTheKingIsPaidAsKing, scratch
<1>29. CASE Crash
  BY <1>a, <1>29 DEF Crash, Forget, WagesInv, CrownInv, OnlyTheKingIsPaidAsKing, scratch
<1>30. CASE CrashWritingKing
  BY <1>a, <1>30 DEF CrashWritingKing, Forget, WagesInv, CrownInv, OnlyTheKingIsPaidAsKing, scratch
<1>31. CASE CrashWritingMark
  BY <1>a, <1>31 DEF CrashWritingMark, Forget, WagesInv, CrownInv, OnlyTheKingIsPaidAsKing, scratch
<1>32. CASE CrashWritingWeights
  BY <1>a, <1>32 DEF CrashWritingWeights, Forget, WagesInv, CrownInv,
     OnlyTheKingIsPaidAsKing, scratch
<1>33. CASE CrashPolling
  BY <1>a, <1>33 DEF CrashPolling, Forget, WagesInv, CrownInv,
     OnlyTheKingIsPaidAsKing, scratch
<1>34. CASE CrashClaiming
  BY <1>a, <1>34 DEF CrashClaiming, Forget, WagesInv, CrownInv,
     OnlyTheKingIsPaidAsKing, scratch
<1>35. CASE CrashEnqueuing
  BY <1>a, <1>35 DEF CrashEnqueuing, Forget, WagesInv, CrownInv,
     OnlyTheKingIsPaidAsKing, scratch
<1>36. CASE CrashBlacklisting
  BY <1>a, <1>36 DEF CrashBlacklisting, Forget, WagesInv, CrownInv,
     OnlyTheKingIsPaidAsKing, scratch
<1>37. CASE UNCHANGED vars
  BY <1>a, <1>37, WagesKept DEF vars, disk, locals
<1> QED
  BY <1>1, <1>2, <1>3, <1>4, <1>5, <1>6, <1>7, <1>8, <1>9, <1>10, <1>11, <1>12, <1>13,
     <1>14, <1>15, <1>16, <1>17, <1>18, <1>19, <1>20, <1>21, <1>22, <1>23, <1>24, <1>25,
     <1>26, <1>27, <1>28, <1>29, <1>30, <1>31, <1>32, <1>33, <1>34, <1>35, <1>36, <1>37 DEF Next, ValidatorStep,
     CrashStep, WorldStep

\* The theorem behind OnlyTheKingIsPaidAsKing.
THEOREM OnlyTheKingEarnsTheCrown == Spec => []OnlyTheKingIsPaidAsKing
<1>1. WagesInv => OnlyTheKingIsPaidAsKing
  BY DEF WagesInv
<1> QED BY WagesInit, WagesNext, <1>1, PTL DEF Spec

----------------------------------------------------------------------------
\* score_bundle.

\* A decisive win raises the standing: the regression a branch tolerates on one
\* axis is less than what it demands on the other, when there is a noise floor
\* to demand or compute is charged.
LEMMA DecisiveRaises ==
  ASSUME NEW a \in Bundles, NEW b \in Bundles,
         DecisivelyBeats(Metric[a], Metric[b]), Margin > 0 \/ CostGate
  PROVE  Standing(a) < Standing(b)
<1>1. Metric[a] \in Metrics /\ Metric[b] \in Metrics
  BY EpochLoopAssumption
<1>2. Margin \in Nat
  BY ScoringAssumption
<1>3. QualityGain(Metric[a], Metric[b]) + CountedGain(Metric[a], Metric[b]) > 0
  <2>1. CASE Margin > 0
    BY <1>1, <1>2, <2>1
    DEF DecisivelyBeats, DominantQuality, QualityWin, BenchmarkWin, QualityGain, BenchmarkGain,
        CountedGain, Metrics
  <2>2. CASE CostGate
    BY <1>1, <2>2 DEF DecisivelyBeats, NetScore, QualityGain, BenchmarkGain, CountedGain, Metrics
  <2> QED BY <2>1, <2>2
<1> QED
  BY <1>1, <1>3 DEF Standing, QualityGain, CountedGain, BenchmarkGain, Metrics

----------------------------------------------------------------------------
\* The bar.

\* Between score_and_decide and set_king the bar does not move: the bundle
\* about to be crowned still beats it, and was measured.
BarInv ==
  pc = "crown" =>
    /\ Metric[current].finite
    /\ \A bar \in Bars : DecisivelyBeats(Metric[bar], Metric[current])

\* There is one bar at most, so a challenger that beats one beats them all.
LEMMA BarsUnique ==
  /\ \A x, y \in Bars : x = y
  /\ IsFirst => Bars = {}
BY DEF Bars, IsFirst

\* A king_change verdict of score_and_decide beats every bar it was read against.
LEMMA VerdictBeatsBars ==
  ASSUME NEW b, Outcome(b) = "king_change"
  PROVE  /\ Metric[b].finite
         /\ \A bar \in Bars : DecisivelyBeats(Metric[bar], Metric[b])
<1>1. Scored(b)
  BY DEF Outcome
<1>2. Decisively(b)
  BY <1>1 DEF Outcome, Classify
<1> QED BY <1>1, <1>2, BarsUnique DEF Scored, Decisively

\* Nothing is crowned when main starts.
LEMMA BarInit == Init => BarInv
BY DEF Init, BarInv

\* Between the verdict and set_king no step moves the bar.
LEMMA BarNext == BarInv /\ [Next]_vars => BarInv'
<1> SUFFICES ASSUME BarInv, [Next]_vars, pc' = "crown" PROVE BarInv'
  BY DEF BarInv
<1>1. CASE Score
  <2>1. PICK b \in todo : Outcome(b) = "king_change" /\ current' = b
    BY <1>1 DEF Score
  <2>2. Bars' = Bars
    BY <1>1 DEF Score, Bars, throneFiles
  <2> QED BY <2>1, <2>2, VerdictBeatsBars DEF BarInv
<1>2. CASE ScoreBlindly
  <2>1. PICK b \in todo : Outcome(b) = "king_change" /\ current' = b
    BY <1>2 DEF ScoreBlindly
  <2>2. Bars' = Bars
    BY <1>2 DEF ScoreBlindly, Bars, throneFiles
  <2> QED BY <2>1, <2>2, VerdictBeatsBars DEF BarInv
<1>3. CASE pc = "crown" /\ UNCHANGED <<throne, highWater, current>>
  <2>1. Bars' = Bars
    BY <1>3 DEF Bars
  <2> QED BY <1>3, <2>1 DEF BarInv
<1>4. ~Score /\ ~ScoreBlindly => pc = "crown" /\ UNCHANGED <<throne, highWater, current>>
  <2>1. WorldStep => pc = "crown" /\ UNCHANGED <<throne, highWater, current>>
    BY DEF WorldStep, Submit, Tick, ManualMerge, Deregister, disk, locals, throneFiles
  <2>2. ~CrashStep
    BY DEF CrashStep, Crash, CrashWritingKing, CrashWritingMark, CrashWritingWeights, CrashPolling,
      CrashClaiming, CrashEnqueuing, CrashBlacklisting, Forget
  <2>3. ValidatorStep => Score \/ ScoreBlindly
    BY DEF ValidatorStep, BeginEpoch, PollQueue, Defer, ScoreError, AbortScoring, CloseLosingPr,
      ArchiveBundle, SetKing, SetHighWaterMark, EnqueueAudit, MergePr, ComputeWeights, SaveWeights,
      SetWeightsRefused, SetWeightsLands, SetWeightsFails, AbortWeights, ClearWeights, BurnWeights,
      NothingToAudit, RunAudit, Restart, Rest
  <2>4. UNCHANGED vars => pc = "crown" /\ UNCHANGED <<throne, highWater, current>>
    BY DEF vars, disk, locals
  <2> QED BY <2>1, <2>2, <2>3, <2>4 DEF Next
<1> QED BY <1>1, <1>2, <1>3, <1>4

----------------------------------------------------------------------------
\* The line rises.

RisingInv == WagesInv /\ BarInv /\ LineImproves

\* A rising line cut off, or extended by a bundle above its last king, rises.
LEMMA PrefixRises ==
  ASSUME TypeOK, LineImproves, NEW n \in 1 .. Len(throne), throne' = SubSeq(throne, 1, n)
  PROVE  LineImproves'
<1>1. throne \in Seq(Bundles) /\ n \in Nat /\ n <= Len(throne) /\ Len(throne) \in Nat
  BY DEF TypeOK, DiskTypeOK
<1>2. Len(SubSeq(throne, 1, n)) = n /\ \A i \in 1 .. n : SubSeq(throne, 1, n)[i] = throne[i]
  BY <1>1, SubSeqProperties
<1> QED BY <1>1, <1>2 DEF LineImproves, Standing

\* A rising line stays rising with a king that stands above the last one.
LEMMA ExtensionRises ==
  ASSUME TypeOK, LineImproves, current \in Bundles, throne' = Append(throne, current),
         throne # <<>> => Standing(Top(throne)) < Standing(current)
  PROVE  LineImproves'
<1>1. /\ Len(throne') = Len(throne) + 1
      /\ \A i \in 1 .. Len(throne) : throne'[i] = throne[i]
      /\ throne'[Len(throne')] = current
      /\ Len(throne) \in Nat
  BY AppendProperties DEF TypeOK, DiskTypeOK
<1>2. \A b \in Bundles : Standing(b) \in Int
  BY EpochLoopAssumption, ScoringAssumption DEF Standing, Metrics
<1>3. \A i \in 1 .. Len(throne) : throne[i] \in Bundles
  BY ElementOfSeq DEF TypeOK, DiskTypeOK
<1>4. \A i \in 1 .. Len(throne) : Standing(throne[i]) < Standing(current)
  <2> SUFFICES ASSUME NEW i \in 1 .. Len(throne) PROVE Standing(throne[i]) < Standing(current)
    OBVIOUS
  <2>1. throne # <<>> /\ Top(throne) = throne[Len(throne)]
    BY EmptySeq DEF Top, TypeOK, DiskTypeOK
  <2>2. i = Len(throne) \/ Standing(throne[i]) < Standing(throne[Len(throne)])
    BY <1>1 DEF LineImproves
  <2> QED BY <1>1, <1>2, <1>3, <2>1, <2>2
<1> SUFFICES ASSUME NEW i \in 1 .. Len(throne'), NEW j \in 1 .. Len(throne'), i < j
             PROVE  Standing(throne'[i]) < Standing(throne'[j])
  BY DEF LineImproves, Standing
<1>5. CASE j <= Len(throne)
  BY <1>1, <1>5 DEF LineImproves
<1>6. CASE j = Len(throne')
  BY <1>1, <1>4, <1>6
<1> QED BY <1>1, <1>5, <1>6

\* Every step keeps the line of kings rising.
LEMMA RisingNext ==
  ASSUME Margin > 0 \/ CostGate
  PROVE  RisingInv /\ [Next]_vars => RisingInv'
<1> SUFFICES ASSUME RisingInv, [Next]_vars PROVE LineImproves'
  BY WagesNext, BarNext DEF RisingInv
<1>0. TypeOK /\ CurrentOK
  BY DEF RisingInv, WagesInv, TypeInv
<1>1. CASE BeginEpoch
  <2>1. \/ UNCHANGED throne
        \/ \E down : throne' = Reinstated(down)
    BY <1>1 DEF BeginEpoch
  <2>2. CASE UNCHANGED throne
    BY <2>2 DEF RisingInv, LineImproves, Standing
  <2>3. ASSUME NEW down, throne' = Reinstated(down) PROVE LineImproves'
    <3>1. CASE throne' = <<>>
      BY <3>1, EmptySeq DEF LineImproves
    <3>2. CASE \E n \in 1 .. Len(throne) : throne' = SubSeq(throne, 1, n)
      BY <1>0, <3>2, PrefixRises DEF RisingInv
    <3> QED BY <1>0, <2>3, <3>1, <3>2, ReinstatedIsPrefix
  <2> QED BY <2>1, <2>2, <2>3
<1>2. CASE SetKing
  <2>1. current \in Bundles /\ throne' = Append(throne, current)
    BY <1>0, <1>2 DEF SetKing, CurrentOK, Handling
  <2>2. throne # <<>> => Standing(Top(throne)) < Standing(current)
    <3> SUFFICES ASSUME throne # <<>> PROVE Standing(Top(throne)) < Standing(current)
      OBVIOUS
    <3>1. Top(throne) \in Bundles
      BY <1>0, TopType DEF TypeOK, DiskTypeOK
    <3>2. DecisivelyBeats(Metric[Top(throne)], Metric[current])
      BY <1>2 DEF SetKing, RisingInv, BarInv, Bars
    <3> QED BY <2>1, <3>1, <3>2, DecisiveRaises
  <2> QED BY <1>0, <2>1, <2>2, ExtensionRises DEF RisingInv
<1>3. CASE CrashWritingKing
  BY <1>3, EmptySeq DEF CrashWritingKing, LineImproves
<1>4. CASE UNCHANGED throne
  BY <1>4 DEF RisingInv, LineImproves, Standing
<1>5. ~BeginEpoch /\ ~SetKing /\ ~CrashWritingKing => UNCHANGED throne
  BY DEF Next, vars, disk, throneFiles, ValidatorStep, CrashStep, WorldStep, PollQueue,
     Defer, Score,
    ScoreError, ScoreBlindly, AbortScoring, CloseLosingPr, ArchiveBundle, SetHighWaterMark,
    EnqueueAudit, MergePr, ComputeWeights, SaveWeights, SetWeightsRefused, SetWeightsLands,
    SetWeightsFails, AbortWeights, ClearWeights, BurnWeights, NothingToAudit, RunAudit, Restart,
    Crash, CrashWritingMark, CrashWritingWeights, CrashPolling, CrashClaiming, CrashEnqueuing, CrashBlacklisting,
    Submit, Tick, ManualMerge, Deregister
<1> QED BY <1>1, <1>2, <1>3, <1>4, <1>5

\* No two kings of the line are in the wrong order: no sequence of crowns,
\* demotions and restarts lets a miner win the crown with a model worse than
\* one that was beaten for it, whatever the noise floor, the metrics and the
\* faults.  A positive noise floor or the compute gate is needed: with neither,
\* branch A crowns an equal.
THEOREM KingsOnlyImprove ==
  ASSUME Margin > 0 \/ CostGate
  PROVE  Spec => []LineImproves
<1>1. Init => RisingInv
  BY WagesInit, BarInit, EmptySeq DEF Init, RisingInv, LineImproves
<1>2. RisingInv /\ [Next]_vars => RisingInv'
  BY RisingNext
<1>3. RisingInv => LineImproves
  BY DEF RisingInv
<1> QED BY <1>1, <1>2, <1>3, PTL DEF Spec

----------------------------------------------------------------------------
\* The ledger.

\* The bar of the service is the bar of the ledger.
LEMMA BarIsLedgersBar == Bars = Ledger!Bar
BY DEF Bars, Ledger!Bar, Ledger!Last, Top

\* The ledger judges a challenger by the same rule.
LEMMA LedgersRule ==
  ASSUME NEW a, NEW b
  PROVE  DecisivelyBeats(a, b) <=> Ledger!DecisivelyBeats(a, b)
BY DEF DecisivelyBeats, DominantQuality, QualityWin, BenchmarkWin, QualityGain,
   BenchmarkGain, CountedGain, NetScore,
  Ledger!DecisivelyBeats, Ledger!DominantQuality, Ledger!QualityWin, Ledger!BenchmarkWin,
  Ledger!QualityGain, Ledger!BenchmarkGain, Ledger!CountedGain, Ledger!NetScore

\* Every step of the service crowns, marks or demotes as the ledger allows, or
\* leaves the ledger alone.
LEMMA StepImplementsLedger ==
  ASSUME "tear" \notin Faults, WagesInv, BarInv, [Next]_vars
  PROVE  [Ledger!Next]_(Ledger!ledger)
<1> USE DEF Ledger!ledger
<1>0. TypeOK /\ CurrentOK
  BY DEF WagesInv, TypeInv
<1>1. CASE BeginEpoch
  <2>1. UNCHANGED highWater /\ (UNCHANGED throne \/ \E down : throne' = Reinstated(down) /\ throne # <<>>)
    BY <1>1 DEF BeginEpoch
  <2>2. ASSUME NEW down, throne' = Reinstated(down), throne # <<>>, UNCHANGED highWater
        PROVE  [Ledger!Next]_(Ledger!ledger)
    <3>1. throne \in Seq(Bundles) /\ Len(throne) \in Nat /\ Len(throne) > 0
      BY <1>0, <2>2, EmptySeq DEF TypeOK, DiskTypeOK
    <3>2. CASE throne' = <<>>
      <4>1. throne' = SubSeq(throne, 1, 0)
        BY <3>2, SubSeqEmpty
      <4> QED BY <2>2, <3>1, <4>1 DEF Ledger!Next, Ledger!Demote
    <3>3. CASE \E n \in 1 .. Len(throne) : throne' = SubSeq(throne, 1, n)
      <4>1. PICK n \in 1 .. Len(throne) : throne' = SubSeq(throne, 1, n)
        BY <3>3
      <4>2. CASE n = Len(throne)
        BY <2>2, <3>1, <4>1, <4>2, SubSeqFull
      <4>3. CASE n \in 0 .. Len(throne) - 1
        BY <2>2, <4>1, <4>3 DEF Ledger!Next, Ledger!Demote
      <4> QED BY <3>1, <4>1, <4>2, <4>3
    <3> QED BY <1>0, <2>2, <3>2, <3>3, ReinstatedIsPrefix
  <2> QED BY <2>1, <2>2
<1>2. CASE SetKing
  <2>1. current \in Bundles /\ throne' = Append(throne, current) /\ UNCHANGED highWater
    BY <1>0, <1>2 DEF SetKing, CurrentOK, Handling
  <2>2. Metric[current].finite /\ \A bar \in Ledger!Bar : DecisivelyBeats(Metric[bar], Metric[current])
    BY <1>2, BarIsLedgersBar DEF SetKing, BarInv
  <2>3. Ledger!Crown(current)
    BY <2>1, <2>2, LedgersRule DEF Ledger!Crown
  <2> QED BY <2>1, <2>3 DEF Ledger!Next
<1>3. CASE SetHighWaterMark
  BY <1>3 DEF SetHighWaterMark, WagesInv, CrownInv, Top, Ledger!Next, Ledger!Mark, Ledger!Last
<1>4. ~BeginEpoch /\ ~SetKing /\ ~SetHighWaterMark => UNCHANGED <<throne, highWater>>
  BY DEF Next, vars, disk, throneFiles, ValidatorStep, CrashStep, WorldStep, PollQueue,
     Defer, Score,
    ScoreError, ScoreBlindly, AbortScoring, CloseLosingPr, ArchiveBundle,
    EnqueueAudit, MergePr, ComputeWeights, SaveWeights, SetWeightsRefused, SetWeightsLands,
    SetWeightsFails, AbortWeights, ClearWeights, BurnWeights, NothingToAudit, RunAudit, Restart,
    Crash, CrashWritingKing, CrashWritingMark, CrashWritingWeights, CrashPolling, CrashClaiming, CrashEnqueuing, CrashBlacklisting,
    Submit, Tick, ManualMerge, Deregister
<1> QED BY <1>1, <1>2, <1>3, <1>4

\* Unless a crash cuts a file short, the service implements the ledger: a crown
\* given some steps after its bar was read is the crown the ledger would give
\* at once, through crashes, restarts and demotions.
THEOREM ServiceImplementsLedger ==
  ASSUME "tear" \notin Faults
  PROVE  Spec => ImplementsLedger
<1>1. Init => Ledger!Init
  BY DEF Init, Ledger!Init
<1>2. WagesInv /\ BarInv /\ [Next]_vars => [Ledger!Next]_(Ledger!ledger)
  BY StepImplementsLedger
<1> QED
  BY <1>1, <1>2, WagesInit, WagesNext, BarInit, BarNext, PTL
  DEF Spec, ImplementsLedger, Ledger!Spec

----------------------------------------------------------------------------
\* What more there is to know of every state, for the theorems that follow.

\* What belongs to a bundle that is still in queue/pending.
InHand ==
  \/ pc \in {"close", "archive", "crown", "mark", "merge"}
  \/ pc = "enqueue" /\ verdict = "king_change"

HandInv ==
  /\ todo \subseteq Pending
  /\ InHand => current \in Pending \ todo
  /\ pc = "close" => verdict # "king_change"
  /\ pc \in {"crown", "mark", "merge"} => verdict = "king_change"
  /\ pc = "crown" => recipePr[current] # "closed"

\* A merge is never undone, so the cache stays right.
MergedInv ==
  /\ \A b \in Bundles : loc[b] = "unsubmitted" => recipePr[b] = "none"
  /\ \A b \in mergedCache : recipePr[b] = "merged"
  /\ UnmergedKingUnpaid

\* Until the first crash every king is marked, archived and not closed, but for
\* the one whose crown is under way.
ReignInv ==
  /\ crashes = 0 =>
       /\ reigned # {} => highWater # NoBundle \/ pc = "mark"
       /\ \A b \in reigned :
            /\ recipePr[b] # "closed"
            /\ loc[b] = "scored" \/ (InHand /\ b = current /\ verdict = "king_change")
  /\ ~RequireMergedKingPr /\ "tear" \notin Faults => (reigned # {} => throne # <<>>)

KingOwners == {Owner[k] : k \in reigned}

\* Whoever is on the throne or has a king's share was crowned once.
OwnersInv ==
  /\ \A i \in 1 .. Len(throne) : throne[i] \in reigned
  /\ crowned # NoHotkey => crowned \in KingOwners
  /\ \A h \in Hotkeys :
       (pendingWeights[h] >= KingPool \/ recovered[h] >= KingPool \/ round[h] >= KingPool) => h \in KingOwners

\* What is recovered is what is saved, and what is saved again is no less.
SavedInv ==
  /\ pc \in {"loop"} \cup Handling => recovered = pendingWeights
  /\ pc = "save" =>
       \A h \in Hotkeys :
         h # KingHotkey /\ pendingWeights[h] < KingPool => pendingWeights[h] <= round[h]
  /\ pc = "emit" => pendingWeights = round

\* A credit is forfeited by a blacklisting, by leaving the subnet or by a crown.
Forfeited(h) == h \in blacklist \/ h \notin registered \/ h \in KingOwners

\* Where it is otherwise, at each step of an epoch.
CreditIn(h) ==
  CASE pc \in {"loop"} \cup Handling -> h \in failures \/ pendingWeights[h] > 0
    [] pc \in {"save", "emit"} -> round[h] > 0
    [] pc = "clear" -> FALSE
    [] OTHER -> pendingWeights[h] > 0

CreditInv ==
  crashes = 0 /\ "rpc" \notin Faults =>
    \A b \in unpaid \ forgone : CreditIn(Owner[b]) \/ Forfeited(Owner[b])

----------------------------------------------------------------------------
\* The bundle in hand.

\* Initially there is none.
LEMMA HandInit == Init => HandInv
BY DEF Init, HandInv, InHand

\* A bundle is judged once in an epoch, and nothing else of the queue is touched
\* while it is.
LEMMA HandNext ==
  ASSUME TypeInv, HandInv, [Next]_vars
  PROVE  HandInv'
<1>0. DOMAIN loc = Bundles /\ DOMAIN recipePr = Bundles /\ (pc \in Handling => current \in Bundles) /\ pc \in Steps
  BY DEF TypeInv, TypeOK, DiskTypeOK, WorldTypeOK, LocalsTypeOK, CurrentOK
<1> USE DEF HandInv, InHand, Pending, Handling
<1>1. CASE BeginEpoch
  BY <1>0, <1>1 DEF BeginEpoch, disk, world, locals, ghosts, throneFiles, scratch
<1>2. CASE PollQueue
  BY <1>0, <1>2 DEF PollQueue, Fetched, disk, world, locals, ghosts, throneFiles, scratch
<1>3. CASE Defer
  BY <1>0, <1>3 DEF Defer, disk, world, locals, ghosts, throneFiles, scratch
<1>4. CASE Score
  BY <1>0, <1>4 DEF Score, Outcome, Scored, Accepted, disk, world, locals, ghosts,
     throneFiles, scratch
<1>5. CASE ScoreError
  BY <1>0, <1>5 DEF ScoreError, disk, world, locals, ghosts, throneFiles, scratch
<1>6. CASE ScoreBlindly
  BY <1>0, <1>6 DEF ScoreBlindly, Outcome, Scored, Accepted, disk, world, locals, ghosts,
     throneFiles, scratch
<1>7. CASE AbortScoring
  BY <1>0, <1>7 DEF AbortScoring, disk, world, locals, ghosts, throneFiles, scratch
<1>8. CASE CloseLosingPr
  BY <1>0, <1>8 DEF CloseLosingPr, disk, world, locals, ghosts, throneFiles, scratch
<1>9. CASE ArchiveBundle
  <2>1. /\ pc = "archive" /\ loc' = [loc EXCEPT ![current] = Destination] /\ UNCHANGED <<todo, verdict>>
        /\ (pc' = "enqueue" /\ verdict = "meaningful_failure") \/ pc' = "loop"
    BY <1>9 DEF ArchiveBundle
  <2>2. \A b \in Bundles : b # current => loc'[b] = loc[b]
    BY <1>0, <2>1
  <2> QED BY <2>1, <2>2
<1>10. CASE SetKing
  BY <1>0, <1>10 DEF SetKing, disk, world, locals, ghosts, throneFiles, scratch
<1>11. CASE SetHighWaterMark
  BY <1>0, <1>11 DEF SetHighWaterMark, disk, world, locals, ghosts, throneFiles, scratch
<1>12. CASE EnqueueAudit
  BY <1>0, <1>12 DEF EnqueueAudit, disk, world, locals, ghosts, throneFiles, scratch
<1>13. CASE MergePr
  BY <1>0, <1>13 DEF MergePr, disk, world, locals, ghosts, throneFiles, scratch
<1>14. CASE ComputeWeights
  BY <1>0, <1>14 DEF ComputeWeights, Rest, disk, world, locals, ghosts, throneFiles, scratch
<1>15. CASE SaveWeights
  BY <1>0, <1>15 DEF SaveWeights, disk, world, locals, ghosts, throneFiles, scratch
<1>16. CASE SetWeightsRefused
  BY <1>0, <1>16 DEF SetWeightsRefused, Rest, disk, world, locals, ghosts, throneFiles, scratch
<1>17. CASE SetWeightsLands
  BY <1>0, <1>17 DEF SetWeightsLands, disk, world, locals, ghosts, throneFiles, scratch
<1>18. CASE SetWeightsFails
  BY <1>0, <1>18 DEF SetWeightsFails, Rest, disk, world, locals, ghosts, throneFiles, scratch
<1>19. CASE AbortWeights
  BY <1>0, <1>19 DEF AbortWeights, disk, world, locals, ghosts, throneFiles, scratch
<1>20. CASE ClearWeights
  BY <1>0, <1>20 DEF ClearWeights, Rest, disk, world, locals, ghosts, throneFiles, scratch
<1>21. CASE BurnWeights
  BY <1>0, <1>21 DEF BurnWeights, Rest, disk, world, locals, ghosts, throneFiles, scratch
<1>22. CASE NothingToAudit
  BY <1>0, <1>22 DEF NothingToAudit, disk, world, locals, ghosts, throneFiles, scratch
<1>23. CASE RunAudit
  BY <1>0, <1>23 DEF RunAudit, disk, world, locals, ghosts, throneFiles, scratch
<1>24. CASE Restart
  BY <1>0, <1>24 DEF Restart, disk, world, locals, ghosts, throneFiles, scratch
<1>25. CASE Crash
  BY <1>0, <1>25 DEF Crash, Forget, disk, world, locals, ghosts, throneFiles, scratch
<1>26. CASE CrashWritingKing
  BY <1>0, <1>26 DEF CrashWritingKing, Forget, disk, world, locals, ghosts, throneFiles, scratch
<1>27. CASE CrashWritingMark
  BY <1>0, <1>27 DEF CrashWritingMark, Forget, disk, world, locals, ghosts, throneFiles, scratch
<1>28. CASE CrashWritingWeights
  BY <1>0, <1>28 DEF CrashWritingWeights, Forget, disk, world, locals, ghosts, throneFiles, scratch
<1>29. CASE CrashPolling
  BY <1>0, <1>29 DEF CrashPolling, Forget, disk, world, locals, ghosts, throneFiles, scratch
<1>30. CASE CrashClaiming
  BY <1>0, <1>30 DEF CrashClaiming, Forget, disk, world, locals, ghosts, throneFiles, scratch
<1>31. CASE CrashEnqueuing
  BY <1>0, <1>31 DEF CrashEnqueuing, Forget, disk, world, locals, ghosts, throneFiles, scratch
<1>32. CASE CrashBlacklisting
  BY <1>0, <1>32 DEF CrashBlacklisting, Forget, disk, world, locals, ghosts, throneFiles, scratch
<1>33. CASE Submit
  <2>1. /\ \A b \in Pending : loc'[b] = "pending"
        /\ UNCHANGED <<pc, todo, current, verdict>>
    BY <1>0, <1>33 DEF Submit, locals
  <2>2. pc = "crown" => recipePr'[current] = recipePr[current]
    BY <1>0, <1>33 DEF Submit
  <2> QED BY <2>1, <2>2
<1>34. CASE Tick
  BY <1>0, <1>34 DEF Tick, disk, world, locals, ghosts, throneFiles, scratch
<1>35. CASE ManualMerge
  BY <1>0, <1>35 DEF ManualMerge, disk, world, locals, ghosts, throneFiles, scratch
<1>36. CASE Deregister
  BY <1>0, <1>36 DEF Deregister, disk, world, locals, ghosts, throneFiles, scratch
<1>37. CASE UNCHANGED vars
  BY <1>0, <1>37 DEF vars, disk, world, locals, ghosts, throneFiles, scratch
<1> QED
  BY <1>1, <1>2, <1>3, <1>4, <1>5, <1>6, <1>7, <1>8, <1>9, <1>10, <1>11, <1>12, <1>13,
     <1>14, <1>15, <1>16, <1>17, <1>18, <1>19, <1>20, <1>21, <1>22, <1>23, <1>24, <1>25,
     <1>26, <1>27, <1>28, <1>29, <1>30, <1>31, <1>32, <1>33, <1>34, <1>35, <1>36, <1>37
  DEF Next, ValidatorStep, CrashStep, WorldStep

----------------------------------------------------------------------------
\* A king whose pull request is not merged.

\* Initially no pull request is open and nothing is cached.
LEMMA MergedInit == Init => MergedInv
BY DEF Init, MergedInv, UnmergedKingUnpaid, AboutToPay

\* The king _reinstate_valid_king stops at is a valid one.
LEMMA TopOfReinstated ==
  ASSUME TypeOK, NEW down, Reinstated(down) # <<>>
  PROVE  \E i \in ValidKings(down) : Top(Reinstated(down)) = throne[i]
<1>1. ValidKings(down) # {}
  BY DEF Reinstated
<1>2. throne \in Seq(Bundles) /\ Len(throne) \in Nat /\ ValidKings(down) \in SUBSET (1 .. Len(throne))
  BY DEF TypeOK, DiskTypeOK, ValidKings
<1> DEFINE last == CHOOSE i \in ValidKings(down) : \A j \in ValidKings(down) : j <= i
<1>3. last \in ValidKings(down) /\ last \in 1 .. Len(throne)
  BY <1>1, <1>2, LastPosition
<1>4. Reinstated(down) = SubSeq(throne, 1, last)
  BY <1>1 DEF Reinstated
<1> HIDE DEF last
<1>5. Len(SubSeq(throne, 1, last)) = last /\ SubSeq(throne, 1, last)[last] = throne[last]
  BY <1>2, <1>3, SubSeqProperties
<1> QED BY <1>3, <1>4, <1>5 DEF Top

\* No step undoes a merge, and no weights are computed for a king without one.
LEMMA MergedNext ==
  ASSUME WagesInv, HandInv, MergedInv, [Next]_vars
  PROVE  MergedInv'
<1>0. /\ TypeOK /\ DOMAIN loc = Bundles /\ DOMAIN recipePr = Bundles /\ Kings \subseteq Bundles
      /\ mergedCache \subseteq Bundles /\ (pc \in Handling => current \in Bundles)
  BY KingsType DEF WagesInv, TypeInv, TypeOK, DiskTypeOK, WorldTypeOK, LocalsTypeOK, CurrentOK
\* Of pull requests nothing changes but that open ones are merged or closed.
<1> DEFINE Kept == \A b \in Bundles : recipePr'[b] = recipePr[b] \/ recipePr[b] = "open"
           Told == \A b \in Bundles : loc'[b] = "unsubmitted" => loc[b] = "unsubmitted"
<1>k. ASSUME UNCHANGED recipePr, Told, \A b \in mergedCache' : recipePr[b] = "merged", ~AboutToPay'
      PROVE  MergedInv'
  BY <1>k DEF MergedInv, UnmergedKingUnpaid
<1>p. ASSUME Kept, UNCHANGED <<loc, throne, round>>, mergedCache' \subseteq mergedCache, AboutToPay' => AboutToPay
      PROVE  MergedInv'
  <2>1. Kings' = Kings
    BY <1>p DEF Kings
  <2>2. UnmergedKingUnpaid'
    BY <1>0, <1>p, <2>1 DEF MergedInv, UnmergedKingUnpaid
  <2>3. \A b \in Bundles : loc'[b] = "unsubmitted" => recipePr'[b] = "none"
    BY <1>p DEF MergedInv
  <2>4. \A b \in mergedCache' : recipePr'[b] = "merged"
    BY <1>0, <1>p DEF MergedInv
  <2> QED BY <2>2, <2>3, <2>4 DEF MergedInv
<1>n. ASSUME UNCHANGED <<recipePr, loc, throne, round>>, mergedCache' \subseteq mergedCache, AboutToPay' => AboutToPay
      PROVE  MergedInv'
  BY <1>n, <1>p
<1>m. mergedCache \subseteq Bundles /\ \A b \in mergedCache : recipePr[b] = "merged"
  BY <1>0 DEF MergedInv
<1> USE DEF AboutToPay
<1>1. CASE BeginEpoch
  <2>1. /\ pc' = "poll" /\ UNCHANGED <<recipePr, loc>>
        /\ mergedCache' = mergedCache \/ \E down : mergedCache' = mergedCache \cup Confirmed(down)
    BY <1>1 DEF BeginEpoch, world
  <2>2. ASSUME NEW down PROVE \A b \in Confirmed(down) : recipePr[b] = "merged"
    <3> SUFFICES ASSUME Reinstated(down) # <<>> PROVE recipePr[Top(Reinstated(down))] = "merged"
      BY DEF Confirmed
    <3>1. \E i \in ValidKings(down) : Top(Reinstated(down)) = throne[i]
      BY <1>0, TopOfReinstated
    <3> QED BY <1>m, <3>1 DEF ValidKings, PrMerged
  <2> QED BY <1>k, <1>m, <2>1, <2>2
<1>2. CASE PollQueue
  <2>1. Told /\ UNCHANGED <<recipePr, mergedCache>> /\ ~AboutToPay'
    BY <1>0, <1>2 DEF PollQueue, Fetched, world
  <2> QED BY <1>k, <1>m, <2>1
<1>3. CASE Defer
  BY <1>n, <1>3 DEF Defer, disk, world, locals, ghosts, throneFiles, scratch
<1>4. CASE Score
  BY <1>n, <1>4 DEF Score, disk, world, locals, ghosts, throneFiles, scratch
<1>5. CASE ScoreError
  BY <1>n, <1>5 DEF ScoreError, disk, world, locals, ghosts, throneFiles, scratch
<1>6. CASE ScoreBlindly
  BY <1>n, <1>6 DEF ScoreBlindly, disk, world, locals, ghosts, throneFiles, scratch
<1>7. CASE AbortScoring
  BY <1>n, <1>7 DEF AbortScoring, disk, world, locals, ghosts, throneFiles, scratch
<1>8. CASE CloseLosingPr
  <2>1. Kept
    BY <1>0, <1>8 DEF CloseLosingPr
  <2> HIDE DEF Kept
  <2> QED BY <1>p, <1>8, <2>1 DEF CloseLosingPr, disk, world, locals, ghosts, throneFiles, scratch
<1>9. CASE ArchiveBundle
  <2>1. Told
    <3>1. loc' = [loc EXCEPT ![current] = Destination] /\ Destination # "unsubmitted"
      BY <1>0, <1>9 DEF ArchiveBundle, Destination, HandInv, InHand, Pending
    <3> QED BY <1>0, <3>1
  <2>2. UNCHANGED <<recipePr, mergedCache>> /\ ~AboutToPay'
    BY <1>9 DEF ArchiveBundle, world
  <2> QED BY <1>k, <1>m, <2>1, <2>2
<1>10. CASE SetKing
  <2>1. UNCHANGED <<recipePr, loc, mergedCache>> /\ ~AboutToPay'
    BY <1>10 DEF SetKing, world
  <2> QED BY <1>k, <1>m, <2>1
<1>11. CASE SetHighWaterMark
  BY <1>n, <1>11 DEF SetHighWaterMark, disk, world, locals, ghosts, throneFiles, scratch
<1>12. CASE EnqueueAudit
  BY <1>n, <1>12 DEF EnqueueAudit, disk, world, locals, ghosts, throneFiles, scratch
<1>13. CASE MergePr
  <2>1. Kept
    BY <1>0, <1>13 DEF MergePr
  <2> HIDE DEF Kept
  <2> QED BY <1>p, <1>13, <2>1 DEF MergePr, disk, world, locals, ghosts, throneFiles, scratch
<1>14. CASE ComputeWeights
  <2>1. PICK down \in Outages :
          /\ round' = MergeRecovered(Split(down), recovered, PaidKing)
          /\ mergedCache' = IF RequireMergedKingPr /\ ~Withheld(down)
                            THEN mergedCache \cup Kings ELSE mergedCache
    BY <1>14 DEF ComputeWeights
  <2>2. UNCHANGED <<loc, recipePr, throne>> /\ Kings' = Kings
    BY <1>14 DEF ComputeWeights, disk, world, Kings
  <2>3. PaidKing = KingHotkey
    BY <1>14 DEF ComputeWeights, PaidKing, WagesInv, CrownInv
  <2>4. ASSUME NEW k \in Kings, RequireMergedKingPr, ~Withheld(down) PROVE recipePr[k] = "merged"
    <3>1. k = Top(throne) /\ KingHotkey = Owner[k] /\ KingHotkey # NoHotkey
      BY <1>0, <2>4, EpochLoopAssumption, ScoringAssumption DEF Kings, KingHotkey
    <3>2. PrMerged(k, down)
      BY <2>3, <2>4, <3>1 DEF Withheld, Kings
    <3> QED BY <1>m, <3>2 DEF PrMerged
  <2>5. ASSUME NEW k \in Kings, Withheld(down) PROVE round'[Owner[k]] = 0
    <3>1. Owner[k] = PaidKing /\ Owner[k] \in Hotkeys
      BY <1>0, <2>3, <2>5, EpochLoopAssumption DEF Kings, KingHotkey
    <3>2. round'[Owner[k]] = NoWeights[Owner[k]]
      BY <2>1, <2>5, <3>1 DEF MergeRecovered, Split
    <3> QED BY <3>1, <3>2 DEF NoWeights
  <2>6. UnmergedKingUnpaid'
    BY <2>2, <2>4, <2>5 DEF UnmergedKingUnpaid
  <2>7. \A b \in mergedCache' : recipePr'[b] = "merged"
    BY <1>m, <2>1, <2>2, <2>4
  <2> QED BY <2>2, <2>6, <2>7 DEF MergedInv
<1>15. CASE SaveWeights
  BY <1>n, <1>15 DEF SaveWeights, disk, world, locals, ghosts, throneFiles, scratch
<1>16. CASE SetWeightsRefused
  BY <1>n, <1>16 DEF SetWeightsRefused, Rest, disk, world, locals, ghosts, throneFiles, scratch
<1>17. CASE SetWeightsLands
  BY <1>n, <1>17 DEF SetWeightsLands, disk, world, locals, ghosts, throneFiles, scratch
<1>18. CASE SetWeightsFails
  BY <1>n, <1>18 DEF SetWeightsFails, Rest, disk, world, locals, ghosts, throneFiles, scratch
<1>19. CASE AbortWeights
  BY <1>n, <1>19 DEF AbortWeights, disk, world, locals, ghosts, throneFiles, scratch
<1>20. CASE ClearWeights
  BY <1>n, <1>20 DEF ClearWeights, Rest, disk, world, locals, ghosts, throneFiles, scratch
<1>21. CASE BurnWeights
  BY <1>n, <1>21 DEF BurnWeights, Rest, disk, world, locals, ghosts, throneFiles, scratch
<1>22. CASE NothingToAudit
  BY <1>n, <1>22 DEF NothingToAudit, disk, world, locals, ghosts, throneFiles, scratch
<1>23. CASE RunAudit
  BY <1>n, <1>23 DEF RunAudit, disk, world, locals, ghosts, throneFiles, scratch
<1>24. CASE Restart
  BY <1>n, <1>24 DEF Restart, disk, world, locals, ghosts, throneFiles, scratch
<1>25. CASE Crash
  BY <1>k, <1>25 DEF Crash, Forget, disk, world, locals, ghosts, throneFiles, scratch
<1>26. CASE CrashWritingKing
  BY <1>k, <1>26 DEF CrashWritingKing, Forget, disk, world, locals, ghosts, throneFiles, scratch
<1>27. CASE CrashWritingMark
  BY <1>k, <1>27 DEF CrashWritingMark, Forget, disk, world, locals, ghosts, throneFiles, scratch
<1>28. CASE CrashWritingWeights
  BY <1>k, <1>28 DEF CrashWritingWeights, Forget, disk, world, locals, ghosts, throneFiles, scratch
<1>29. CASE CrashPolling
  BY <1>k, <1>29 DEF CrashPolling, Fetched, Forget, disk, world, locals, ghosts, throneFiles, scratch
<1>30. CASE CrashClaiming
  BY <1>k, <1>30 DEF CrashClaiming, Forget, disk, world, locals, ghosts, throneFiles, scratch
<1>31. CASE CrashEnqueuing
  BY <1>k, <1>31 DEF CrashEnqueuing, Forget, disk, world, locals, ghosts, throneFiles, scratch
<1>32. CASE CrashBlacklisting
  BY <1>k, <1>32 DEF CrashBlacklisting, Forget, disk, world, locals, ghosts, throneFiles, scratch
<1>33. CASE Submit
  <2>1. PICK b \in Bundles :
          /\ loc[b] = "unsubmitted" /\ loc' = [loc EXCEPT ![b] = "hub"]
          /\ recipePr' = [recipePr EXCEPT ![b] = "open"]
    BY <1>33 DEF Submit
  <2>2. recipePr[b] = "none" /\ \A c \in Bundles : recipePr[c] = "merged" => recipePr'[c] = "merged"
    BY <1>0, <2>1 DEF MergedInv
  <2>3. UNCHANGED <<pc, throne, round, mergedCache>> /\ Kings' = Kings
    BY <1>33 DEF Submit, throneFiles, locals, Kings
  <2>4. \A c \in Bundles : loc'[c] = "unsubmitted" => recipePr'[c] = "none"
    BY <1>0, <2>1 DEF MergedInv
  <2>5. UnmergedKingUnpaid'
    BY <1>0, <2>2, <2>3 DEF MergedInv, UnmergedKingUnpaid
  <2> QED BY <1>0, <1>m, <2>2, <2>3, <2>4, <2>5 DEF MergedInv
<1>34. CASE Tick
  BY <1>n, <1>34 DEF Tick, disk, world, locals, ghosts, throneFiles, scratch
<1>35. CASE ManualMerge
  <2>1. Kept
    BY <1>0, <1>35 DEF ManualMerge
  <2> HIDE DEF Kept
  <2> QED BY <1>p, <1>35, <2>1 DEF ManualMerge, disk, world, locals, ghosts, throneFiles, scratch
<1>36. CASE Deregister
  BY <1>n, <1>36 DEF Deregister, disk, world, locals, ghosts, throneFiles, scratch
<1>37. CASE UNCHANGED vars
  BY <1>n, <1>37 DEF vars, disk, world, locals, ghosts, throneFiles, scratch
<1> QED
  BY <1>1, <1>2, <1>3, <1>4, <1>5, <1>6, <1>7, <1>8, <1>9, <1>10, <1>11, <1>12, <1>13,
     <1>14, <1>15, <1>16, <1>17, <1>18, <1>19, <1>20, <1>21, <1>22, <1>23, <1>24, <1>25,
     <1>26, <1>27, <1>28, <1>29, <1>30, <1>31, <1>32, <1>33, <1>34, <1>35, <1>36, <1>37
  DEF Next, ValidatorStep, CrashStep, WorldStep

----------------------------------------------------------------------------
\* The credits that are saved.

\* Initially nothing is recovered, as nothing is saved.
LEMMA SavedInit == Init => SavedInv
BY DEF Init, SavedInv, Handling

\* From the poll to the split an epoch has the saved credits in hand, and the
\* split takes none from anybody but the king.
LEMMA SavedNext ==
  ASSUME WagesInv, SavedInv, [Next]_vars
  PROVE  SavedInv'
<1> DEFINE Scoring == {"loop"} \cup Handling
<1>0. /\ \A h \in Hotkeys : pendingWeights[h] \in Nat /\ recovered[h] \in Nat
      /\ KingPool \in Nat
  BY ScoringAssumption
  DEF WagesInv, TypeInv, TypeOK, DiskTypeOK, LocalsTypeOK, WeightMaps, FullPool, KingPool
<1>n. ASSUME UNCHANGED <<throne, recovered, round, pendingWeights>>,
             pc' \in Scoring => pc \in Scoring, pc' = "save" => pc = "save", pc' = "emit" => pc = "emit"
      PROVE  SavedInv'
  BY <1>n DEF SavedInv, KingHotkey
<1>k. ASSUME UNCHANGED <<recovered, pendingWeights>>, pc \in Scoring, pc' \in Scoring PROVE SavedInv'
  BY <1>k DEF SavedInv, Handling
<1>o. ASSUME pc' \notin Scoring \cup {"save", "emit"} PROVE SavedInv'
  BY <1>o DEF SavedInv
<1> USE DEF Handling
<1>1. CASE BeginEpoch
  BY <1>n, <1>k, <1>o, <1>1 DEF BeginEpoch, disk, world, locals, ghosts, throneFiles, scratch
<1>2. CASE PollQueue
  BY <1>2 DEF PollQueue, SavedInv
<1>3. CASE Defer
  BY <1>n, <1>k, <1>o, <1>3 DEF Defer, disk, world, locals, ghosts, throneFiles, scratch
<1>4. CASE Score
  BY <1>n, <1>k, <1>o, <1>4 DEF Score, disk, world, locals, ghosts, throneFiles, scratch
<1>5. CASE ScoreError
  BY <1>n, <1>k, <1>o, <1>5 DEF ScoreError, disk, world, locals, ghosts, throneFiles, scratch
<1>6. CASE ScoreBlindly
  BY <1>n, <1>k, <1>o, <1>6 DEF ScoreBlindly, disk, world, locals, ghosts, throneFiles, scratch
<1>7. CASE AbortScoring
  BY <1>n, <1>k, <1>o, <1>7 DEF AbortScoring, disk, world, locals, ghosts, throneFiles, scratch
<1>8. CASE CloseLosingPr
  BY <1>n, <1>k, <1>o, <1>8 DEF CloseLosingPr, disk, world, locals, ghosts, throneFiles, scratch
<1>9. CASE ArchiveBundle
  BY <1>n, <1>k, <1>o, <1>9 DEF ArchiveBundle, disk, world, locals, ghosts, throneFiles, scratch
<1>10. CASE SetKing
  BY <1>n, <1>k, <1>o, <1>10 DEF SetKing, disk, world, locals, ghosts, throneFiles, scratch
<1>11. CASE SetHighWaterMark
  BY <1>n, <1>k, <1>o, <1>11 DEF SetHighWaterMark, disk, world, locals, ghosts, throneFiles, scratch
<1>12. CASE EnqueueAudit
  BY <1>n, <1>k, <1>o, <1>12 DEF EnqueueAudit, disk, world, locals, ghosts, throneFiles, scratch
<1>13. CASE MergePr
  BY <1>n, <1>k, <1>o, <1>13 DEF MergePr, disk, world, locals, ghosts, throneFiles, scratch
<1>14. CASE ComputeWeights
  <2>1. PICK down \in Outages : round' = MergeRecovered(Split(down), recovered, PaidKing)
    BY <1>14 DEF ComputeWeights
  <2>2. PaidKing = KingHotkey
    BY <1>14 DEF ComputeWeights, PaidKing, WagesInv, CrownInv
  <2>3. UNCHANGED <<throne, pendingWeights>> /\ pc' \notin Scoring \cup {"emit"}
    BY <1>14 DEF ComputeWeights, Rest, disk
  <2>4. recovered = pendingWeights
    BY <1>14 DEF ComputeWeights, SavedInv
  <2>5. \A h \in Hotkeys : h # KingHotkey /\ pendingWeights[h] < KingPool => pendingWeights[h] <= round'[h]
    <3> SUFFICES ASSUME NEW h \in Hotkeys, h # KingHotkey, pendingWeights[h] < KingPool
                 PROVE  pendingWeights[h] <= round'[h]
      OBVIOUS
    <3>1. round'[h] = Larger(Split(down)[h], pendingWeights[h])
      BY <1>0, <2>1, <2>2, <2>4 DEF MergeRecovered
    <3>2. Split(down)[h] \in Nat
      BY SplitType, ScoringAssumption DEF WagesInv, TypeInv, WeightMaps, FullPool
    <3> QED BY <1>0, <3>1, <3>2 DEF Larger
  <2> QED BY <2>3, <2>5 DEF SavedInv, KingHotkey
<1>15. CASE SaveWeights
  BY <1>15 DEF SaveWeights, SavedInv, scratch
<1>16. CASE SetWeightsRefused
  BY <1>n, <1>k, <1>o, <1>16 DEF SetWeightsRefused, Rest, disk, world, locals, ghosts,
     throneFiles, scratch
<1>17. CASE SetWeightsLands
  BY <1>n, <1>k, <1>o, <1>17 DEF SetWeightsLands, disk, world, locals, ghosts, throneFiles, scratch
<1>18. CASE SetWeightsFails
  BY <1>n, <1>k, <1>o, <1>18 DEF SetWeightsFails, Rest, disk, world, locals, ghosts,
     throneFiles, scratch
<1>19. CASE AbortWeights
  BY <1>n, <1>k, <1>o, <1>19 DEF AbortWeights, disk, world, locals, ghosts, throneFiles, scratch
<1>20. CASE ClearWeights
  BY <1>n, <1>k, <1>o, <1>20 DEF ClearWeights, Rest, disk, world, locals, ghosts,
     throneFiles, scratch
<1>21. CASE BurnWeights
  BY <1>n, <1>k, <1>o, <1>21 DEF BurnWeights, Rest, disk, world, locals, ghosts,
     throneFiles, scratch
<1>22. CASE NothingToAudit
  BY <1>n, <1>k, <1>o, <1>22 DEF NothingToAudit, disk, world, locals, ghosts, throneFiles, scratch
<1>23. CASE RunAudit
  BY <1>n, <1>k, <1>o, <1>23 DEF RunAudit, disk, world, locals, ghosts, throneFiles, scratch
<1>24. CASE Restart
  BY <1>n, <1>k, <1>o, <1>24 DEF Restart, disk, world, locals, ghosts, throneFiles, scratch
<1>25. CASE Crash
  BY <1>n, <1>k, <1>o, <1>25 DEF Crash, Forget, disk, world, locals, ghosts, throneFiles, scratch
<1>26. CASE CrashWritingKing
  BY <1>n, <1>k, <1>o, <1>26 DEF CrashWritingKing, Forget, disk, world, locals, ghosts,
     throneFiles, scratch
<1>27. CASE CrashWritingMark
  BY <1>n, <1>k, <1>o, <1>27 DEF CrashWritingMark, Forget, disk, world, locals, ghosts,
     throneFiles, scratch
<1>28. CASE CrashWritingWeights
  BY <1>n, <1>k, <1>o, <1>28 DEF CrashWritingWeights, Forget, disk, world, locals, ghosts,
     throneFiles, scratch
<1>29. CASE CrashPolling
  BY <1>n, <1>k, <1>o, <1>29 DEF CrashPolling, Forget, disk, world, locals, ghosts,
     throneFiles, scratch
<1>30. CASE CrashClaiming
  BY <1>n, <1>k, <1>o, <1>30 DEF CrashClaiming, Forget, disk, world, locals, ghosts,
     throneFiles, scratch
<1>31. CASE CrashEnqueuing
  BY <1>n, <1>k, <1>o, <1>31 DEF CrashEnqueuing, Forget, disk, world, locals, ghosts,
     throneFiles, scratch
<1>32. CASE CrashBlacklisting
  BY <1>n, <1>k, <1>o, <1>32 DEF CrashBlacklisting, Forget, disk, world, locals, ghosts,
     throneFiles, scratch
<1>33. CASE Submit
  BY <1>n, <1>k, <1>o, <1>33 DEF Submit, disk, world, locals, ghosts, throneFiles, scratch
<1>34. CASE Tick
  BY <1>n, <1>k, <1>o, <1>34 DEF Tick, disk, world, locals, ghosts, throneFiles, scratch
<1>35. CASE ManualMerge
  BY <1>n, <1>k, <1>o, <1>35 DEF ManualMerge, disk, world, locals, ghosts, throneFiles, scratch
<1>36. CASE Deregister
  BY <1>n, <1>k, <1>o, <1>36 DEF Deregister, disk, world, locals, ghosts, throneFiles, scratch
<1>37. CASE UNCHANGED vars
  BY <1>n, <1>k, <1>o, <1>37 DEF vars, disk, world, locals, ghosts, throneFiles, scratch
<1> QED
  BY <1>1, <1>2, <1>3, <1>4, <1>5, <1>6, <1>7, <1>8, <1>9, <1>10, <1>11, <1>12, <1>13,
     <1>14, <1>15, <1>16, <1>17, <1>18, <1>19, <1>20, <1>21, <1>22, <1>23, <1>24, <1>25,
     <1>26, <1>27, <1>28, <1>29, <1>30, <1>31, <1>32, <1>33, <1>34, <1>35, <1>36, <1>37
  DEF Next, ValidatorStep, CrashStep, WorldStep

----------------------------------------------------------------------------
\* Kings and their owners.

\* Initially there is no king.
LEMMA OwnersInit == Init => OwnersInv
<1> SUFFICES ASSUME Init PROVE OwnersInv
  OBVIOUS
<1>1. \A h \in Hotkeys : NoWeights[h] = 0 /\ KingPool > 0
  BY ScoringAssumption DEF NoWeights, KingPool
<1> QED BY <1>1, EmptySeq, ScoringAssumption DEF Init, OwnersInv, KingPool

\* Nobody gets to the throne or to a king's share but by a crown.
LEMMA OwnersNext ==
  ASSUME WagesInv, OwnersInv, [Next]_vars
  PROVE  OwnersInv'
<1>0. /\ TypeOK /\ throne \in Seq(Bundles) /\ Len(throne) \in Nat
      /\ \A h \in Hotkeys : NoWeights[h] = 0
      /\ KingPool > 0 /\ KingPool \in Nat
  BY ScoringAssumption DEF WagesInv, TypeInv, TypeOK, DiskTypeOK, NoWeights, KingPool
<1> DEFINE Was(w) == w \in {pendingWeights, recovered, round, NoWeights}
<1>g. ASSUME reigned \subseteq reigned' PROVE KingOwners \subseteq KingOwners'
  BY <1>g DEF KingOwners
<1>w. ASSUME reigned \subseteq reigned', Was(pendingWeights'), Was(recovered'), Was(round')
      PROVE  \A h \in Hotkeys :
               (pendingWeights'[h] >= KingPool \/ recovered'[h] >= KingPool \/ round'[h] >= KingPool)
                 => h \in KingOwners'
  BY <1>0, <1>g, <1>w DEF OwnersInv
<1>n. ASSUME reigned \subseteq reigned', UNCHANGED throne, crowned' \in {crowned, NoHotkey},
             Was(pendingWeights'), Was(recovered'), Was(round')
      PROVE  OwnersInv'
  BY <1>n, <1>g, <1>w DEF OwnersInv
<1> USE DEF Was
<1>1. CASE BeginEpoch
  <2>1. /\ UNCHANGED <<crowned, pendingWeights, recovered, round, reigned>>
        /\ throne' = throne \/ \E down : throne' = Reinstated(down)
    BY <1>1 DEF BeginEpoch, scratch, ghosts
  <2>2. \A i \in 1 .. Len(throne') : throne'[i] \in reigned
    <3>1. CASE throne' = throne
      BY <3>1 DEF OwnersInv
    <3>2. CASE throne' = <<>>
      BY <3>2, EmptySeq
    <3>3. CASE \E n \in 1 .. Len(throne) : throne' = SubSeq(throne, 1, n)
      <4>1. PICK n \in 1 .. Len(throne) : throne' = SubSeq(throne, 1, n)
        BY <3>3
      <4>2. Len(throne') = n /\ \A i \in 1 .. n : throne'[i] = throne[i]
        BY <1>0, <4>1, SubSeqProperties
      <4> QED BY <1>0, <4>2 DEF OwnersInv
    <3> QED BY <1>0, <2>1, <3>1, <3>2, <3>3, ReinstatedIsPrefix
  <2> QED BY <1>w, <2>1, <2>2 DEF OwnersInv, KingOwners
<1>2. CASE PollQueue
  BY <1>n, <1>2 DEF PollQueue, disk, world, locals, ghosts, throneFiles, scratch
<1>3. CASE Defer
  BY <1>n, <1>3 DEF Defer, disk, world, locals, ghosts, throneFiles, scratch
<1>4. CASE Score
  BY <1>n, <1>4 DEF Score, disk, world, locals, ghosts, throneFiles, scratch
<1>5. CASE ScoreError
  BY <1>n, <1>5 DEF ScoreError, disk, world, locals, ghosts, throneFiles, scratch
<1>6. CASE ScoreBlindly
  BY <1>n, <1>6 DEF ScoreBlindly, disk, world, locals, ghosts, throneFiles, scratch
<1>7. CASE AbortScoring
  BY <1>n, <1>7 DEF AbortScoring, disk, world, locals, ghosts, throneFiles, scratch
<1>8. CASE CloseLosingPr
  BY <1>n, <1>8 DEF CloseLosingPr, disk, world, locals, ghosts, throneFiles, scratch
<1>9. CASE ArchiveBundle
  BY <1>n, <1>9 DEF ArchiveBundle, disk, world, locals, ghosts, throneFiles, scratch
<1>10. CASE SetKing
  <2>1. /\ UNCHANGED <<crowned, pendingWeights, recovered, round>>
        /\ throne' = Append(throne, current) /\ reigned' = reigned \cup {current} /\ current \in Bundles
    BY <1>10 DEF SetKing, scratch, WagesInv, TypeInv, CurrentOK, Handling
  <2>2. \A i \in 1 .. Len(throne') : throne'[i] \in reigned'
    <3>1. /\ Len(throne') = Len(throne) + 1 /\ throne'[Len(throne) + 1] = current
          /\ \A i \in 1 .. Len(throne) : throne'[i] = throne[i]
      BY <1>0, <2>1, AppendProperties
    <3> QED BY <1>0, <2>1, <3>1 DEF OwnersInv
  <2>3. KingOwners \subseteq KingOwners'
    BY <1>g, <2>1
  <2> QED BY <1>w, <2>1, <2>2, <2>3 DEF OwnersInv
<1>11. CASE SetHighWaterMark
  <2>1. /\ UNCHANGED <<throne, pendingWeights, recovered, round, reigned>>
        /\ crowned' = Owner[current] /\ throne # <<>> /\ Top(throne) = current
    BY <1>11 DEF SetHighWaterMark, ghosts, WagesInv, CrownInv
  <2>2. current \in reigned
    <3>1. Len(throne) \in 1 .. Len(throne)
      BY <1>0, <2>1, EmptySeq
    <3> QED BY <2>1, <3>1 DEF OwnersInv, Top
  <2> QED BY <1>w, <2>1, <2>2 DEF OwnersInv, KingOwners
<1>12. CASE EnqueueAudit
  BY <1>n, <1>12 DEF EnqueueAudit, disk, world, locals, ghosts, throneFiles, scratch
<1>13. CASE MergePr
  BY <1>n, <1>13 DEF MergePr, disk, world, locals, ghosts, throneFiles, scratch
<1>14. CASE ComputeWeights
  <2>1. PICK down \in Outages : round' = MergeRecovered(Split(down), recovered, PaidKing)
    BY <1>14 DEF ComputeWeights
  <2>2. UNCHANGED <<throne, crowned, pendingWeights, recovered, reigned>>
    BY <1>14 DEF ComputeWeights, disk
  <2>3. ASSUME NEW h \in Hotkeys, round'[h] >= KingPool PROVE h \in KingOwners
    <3>1. h = PaidKing
      <4>1. round' \in WeightMaps
        BY <1>0, <2>1, SplitType, MergeRecoveredType DEF TypeOK, LocalsTypeOK
      <4>2. round'[h] \in Nat
        BY <4>1, ScoringAssumption DEF WeightMaps, FullPool
      <4> QED BY <1>0, <2>1, <2>3, <4>2, RoundBelowKing
    <3>2. h = KingHotkey => h \in KingOwners
      <4>1. throne # <<>> => Len(throne) \in 1 .. Len(throne)
        BY <1>0, EmptySeq
      <4> QED BY <2>3, <4>1, ScoringAssumption DEF KingHotkey, Top, OwnersInv, KingOwners
    <3> QED BY <3>1, <3>2 DEF PaidKing, OwnersInv
  <2> QED BY <2>2, <2>3 DEF OwnersInv, KingOwners
<1>15. CASE SaveWeights
  BY <1>n, <1>15 DEF SaveWeights, disk, world, locals, ghosts, throneFiles, scratch
<1>16. CASE SetWeightsRefused
  BY <1>n, <1>16 DEF SetWeightsRefused, Rest, disk, world, locals, ghosts, throneFiles, scratch
<1>17. CASE SetWeightsLands
  BY <1>n, <1>17 DEF SetWeightsLands, disk, world, locals, ghosts, throneFiles, scratch
<1>18. CASE SetWeightsFails
  BY <1>n, <1>18 DEF SetWeightsFails, Rest, disk, world, locals, ghosts, throneFiles, scratch
<1>19. CASE AbortWeights
  BY <1>n, <1>19 DEF AbortWeights, disk, world, locals, ghosts, throneFiles, scratch
<1>20. CASE ClearWeights
  BY <1>n, <1>20 DEF ClearWeights, Rest, disk, world, locals, ghosts, throneFiles, scratch
<1>21. CASE BurnWeights
  BY <1>n, <1>21 DEF BurnWeights, Rest, disk, world, locals, ghosts, throneFiles, scratch
<1>22. CASE NothingToAudit
  BY <1>n, <1>22 DEF NothingToAudit, disk, world, locals, ghosts, throneFiles, scratch
<1>23. CASE RunAudit
  BY <1>n, <1>23 DEF RunAudit, disk, world, locals, ghosts, throneFiles, scratch
<1>24. CASE Restart
  BY <1>n, <1>24 DEF Restart, disk, world, locals, ghosts, throneFiles, scratch
<1>25. CASE Crash
  BY <1>n, <1>25 DEF Crash, Forget, disk, world, locals, ghosts, throneFiles, scratch
<1>26. CASE CrashWritingKing
  <2>1. /\ throne' = <<>> /\ crowned' = NoHotkey /\ UNCHANGED <<pendingWeights, reigned>>
        /\ recovered' = NoWeights /\ round' = NoWeights
    BY <1>26 DEF CrashWritingKing, Forget
  <2> QED BY <1>w, <2>1, EmptySeq DEF OwnersInv
<1>27. CASE CrashWritingMark
  BY <1>n, <1>27 DEF CrashWritingMark, Forget, disk, world, locals, ghosts, throneFiles, scratch
<1>28. CASE CrashWritingWeights
  BY <1>n, <1>28 DEF CrashWritingWeights, Forget, disk, world, locals, ghosts, throneFiles, scratch
<1>29. CASE CrashPolling
  BY <1>n, <1>29 DEF CrashPolling, Forget, disk, world, locals, ghosts, throneFiles, scratch
<1>30. CASE CrashClaiming
  BY <1>n, <1>30 DEF CrashClaiming, Forget, disk, world, locals, ghosts, throneFiles, scratch
<1>31. CASE CrashEnqueuing
  BY <1>n, <1>31 DEF CrashEnqueuing, Forget, disk, world, locals, ghosts, throneFiles, scratch
<1>32. CASE CrashBlacklisting
  BY <1>n, <1>32 DEF CrashBlacklisting, Forget, disk, world, locals, ghosts, throneFiles, scratch
<1>33. CASE Submit
  BY <1>n, <1>33 DEF Submit, disk, world, locals, ghosts, throneFiles, scratch
<1>34. CASE Tick
  BY <1>n, <1>34 DEF Tick, disk, world, locals, ghosts, throneFiles, scratch
<1>35. CASE ManualMerge
  BY <1>n, <1>35 DEF ManualMerge, disk, world, locals, ghosts, throneFiles, scratch
<1>36. CASE Deregister
  BY <1>n, <1>36 DEF Deregister, disk, world, locals, ghosts, throneFiles, scratch
<1>37. CASE UNCHANGED vars
  BY <1>n, <1>37 DEF vars, disk, world, locals, ghosts, throneFiles, scratch
<1> QED
  BY <1>1, <1>2, <1>3, <1>4, <1>5, <1>6, <1>7, <1>8, <1>9, <1>10, <1>11, <1>12, <1>13,
     <1>14, <1>15, <1>16, <1>17, <1>18, <1>19, <1>20, <1>21, <1>22, <1>23, <1>24, <1>25,
     <1>26, <1>27, <1>28, <1>29, <1>30, <1>31, <1>32, <1>33, <1>34, <1>35, <1>36, <1>37
  DEF Next, ValidatorStep, CrashStep, WorldStep

----------------------------------------------------------------------------
\* Those that were ever king.

\* Initially nobody was.
LEMMA ReignInit == Init => ReignInv
BY DEF Init, ReignInv

\* While nothing crashes a king is marked, merged if it can be, and archived
\* before the next bundle is judged.
LEMMA ReignNext ==
  ASSUME TypeInv, HandInv, ReignInv, [Next]_vars
  PROVE  ReignInv'
<1>0. /\ crashes \in Nat /\ DOMAIN loc = Bundles /\ DOMAIN recipePr = Bundles
      /\ reigned \subseteq Bundles /\ (pc \in Handling => current \in Bundles)
      /\ NoBundle \notin Bundles
  BY EpochLoopAssumption
  DEF TypeInv, TypeOK, DiskTypeOK, WorldTypeOK, GhostsTypeOK, CurrentOK
<1> DEFINE Placed(b) == loc[b] = "scored" \/ (InHand /\ b = current /\ verdict = "king_change")
           Free(b) == recipePr[b] # "closed" /\ Placed(b)
           Tearing == RequireMergedKingPr \/ "tear" \in Faults
\* What is left to show of a step that crowns nobody.
<1>n. ASSUME UNCHANGED reigned,
             throne # <<>> => throne' # <<>> \/ Tearing,
             crashes' = 0 => crashes = 0 /\ (highWater' = highWater \/ highWater' # NoBundle)
                             /\ (pc' = "mark" \/ pc # "mark" \/ highWater' # NoBundle),
             crashes' = 0 => \A b \in reigned : Free(b) => Free(b)'
      PROVE  ReignInv'
  BY <1>n DEF ReignInv
<1>u. ASSUME UNCHANGED <<reigned, throne, highWater, crashes>>, pc # "mark",
             \A b \in reigned : Free(b) => Free(b)'
      PROVE  ReignInv'
  BY <1>n, <1>u
<1>i. ASSUME UNCHANGED <<reigned, throne, highWater, crashes, loc, recipePr, current, verdict>>,
             pc # "mark", InHand => InHand'
      PROVE  ReignInv'
  BY <1>u, <1>i
<1>c. ASSUME UNCHANGED <<reigned, throne, highWater, crashes, loc, recipePr>>, pc # "mark", ~InHand
      PROVE  ReignInv'
  BY <1>u, <1>c
<1>d. ASSUME UNCHANGED reigned, crashes' = crashes + 1, throne # <<>> => throne' # <<>> \/ Tearing
      PROVE  ReignInv'
  BY <1>n, <1>d, <1>0
<1> USE DEF InHand, Handling
<1>1. CASE BeginEpoch
  <2>1. ~RequireMergedKingPr => UNCHANGED throne
    BY <1>1 DEF BeginEpoch
  <2>2. pc = "idle" /\ pc' = "poll" /\ UNCHANGED <<reigned, highWater, crashes, loc, recipePr>>
    BY <1>1 DEF BeginEpoch, ghosts, world
  <2> QED BY <1>n, <2>1, <2>2
<1>2. CASE PollQueue
  <2>1. \A b \in Bundles : loc[b] = "scored" => loc'[b] = "scored"
    BY <1>0, <1>2 DEF PollQueue, Fetched
  <2>2. pc = "poll" /\ pc' = "loop" /\ UNCHANGED <<reigned, throne, highWater, crashes, recipePr>>
    BY <1>2 DEF PollQueue, throneFiles, ghosts, world
  <2> QED BY <1>0, <1>u, <2>1, <2>2
<1>3. CASE Defer
  BY <1>c, <1>3 DEF Defer, disk, world, locals, ghosts, throneFiles, scratch
<1>4. CASE Score
  BY <1>c, <1>4 DEF Score, disk, world, locals, ghosts, throneFiles, scratch
<1>5. CASE ScoreError
  BY <1>c, <1>5 DEF ScoreError, disk, world, locals, ghosts, throneFiles, scratch
<1>6. CASE ScoreBlindly
  BY <1>c, <1>6 DEF ScoreBlindly, disk, world, locals, ghosts, throneFiles, scratch
<1>7. CASE AbortScoring
  BY <1>c, <1>7 DEF AbortScoring, disk, world, locals, ghosts, throneFiles, scratch
<1>8. CASE CloseLosingPr
  <2>1. /\ pc = "close" /\ pc' = "archive" /\ UNCHANGED <<reigned, throne, highWater, crashes, loc, current, verdict>>
        /\ \A b \in Bundles : b # current => recipePr'[b] = recipePr[b]
    BY <1>0, <1>8 DEF CloseLosingPr, disk, ghosts, scratch
  <2>2. loc[current] = "pending" /\ verdict # "king_change"
    BY <2>1 DEF HandInv, Pending
  <2> QED BY <1>0, <1>u, <2>1, <2>2
<1>9. CASE ArchiveBundle
  <2>1. /\ pc = "archive" /\ loc' = [loc EXCEPT ![current] = Destination]
        /\ UNCHANGED <<reigned, throne, highWater, crashes, recipePr>>
    BY <1>9 DEF ArchiveBundle, throneFiles, world
  <2>2. \A b \in Bundles : b # current => loc'[b] = loc[b]
    BY <1>0, <2>1
  <2>3. verdict = "king_change" => loc'[current] = "scored"
    BY <1>0, <2>1 DEF Destination
  <2>4. loc[current] = "pending"
    BY <2>1 DEF HandInv, Pending
  <2> QED BY <1>0, <1>u, <2>1, <2>2, <2>3, <2>4
<1>10. CASE SetKing
  <2>1. /\ pc = "crown" /\ pc' = "mark" /\ UNCHANGED <<crashes, highWater, loc, recipePr, current, verdict>>
        /\ reigned' = reigned \cup {current} /\ throne' = Append(throne, current)
    BY <1>10 DEF SetKing, scratch, world
  <2>2. throne' # <<>>
    BY <1>0, <2>1, AppendTop DEF TypeInv, TypeOK, DiskTypeOK
  <2>3. verdict = "king_change" /\ recipePr[current] # "closed"
    BY <1>0, <2>1 DEF HandInv
  <2>4. InHand'
    BY <2>1
  <2> QED BY <1>0, <2>1, <2>2, <2>3, <2>4 DEF ReignInv
<1>11. CASE SetHighWaterMark
  <2>1. /\ pc = "mark" /\ pc' = "enqueue" /\ UNCHANGED <<reigned, throne, crashes, loc, recipePr, current, verdict>>
        /\ highWater' = current
    BY <1>11 DEF SetHighWaterMark, ghosts, world
  <2> QED BY <1>0, <1>n, <2>1
<1>12. CASE EnqueueAudit
  <2>1. /\ pc = "enqueue" /\ UNCHANGED <<reigned, throne, highWater, crashes, loc, recipePr, verdict>>
        /\ IF verdict = "king_change" THEN pc' = "merge" /\ current' = current ELSE pc' = "loop"
    BY <1>12 DEF EnqueueAudit, throneFiles, world, ghosts
  <2> QED BY <1>0, <1>u, <2>1
<1>13. CASE MergePr
  <2>1. /\ pc = "merge" /\ pc' = "archive" /\ UNCHANGED <<reigned, throne, highWater, crashes, loc, current, verdict>>
        /\ \A b \in Bundles : recipePr[b] # "closed" => recipePr'[b] # "closed"
    BY <1>0, <1>13 DEF MergePr, disk, ghosts, scratch
  <2> QED BY <1>0, <1>u, <2>1
<1>14. CASE ComputeWeights
  BY <1>i, <1>14 DEF ComputeWeights, Rest, disk, world, locals, ghosts, throneFiles, scratch
<1>15. CASE SaveWeights
  BY <1>i, <1>15 DEF SaveWeights, disk, world, locals, ghosts, throneFiles, scratch
<1>16. CASE SetWeightsRefused
  BY <1>i, <1>16 DEF SetWeightsRefused, Rest, disk, world, locals, ghosts, throneFiles, scratch
<1>17. CASE SetWeightsLands
  BY <1>i, <1>17 DEF SetWeightsLands, disk, world, locals, ghosts, throneFiles, scratch
<1>18. CASE SetWeightsFails
  BY <1>i, <1>18 DEF SetWeightsFails, Rest, disk, world, locals, ghosts, throneFiles, scratch
<1>19. CASE AbortWeights
  BY <1>i, <1>19 DEF AbortWeights, disk, world, locals, ghosts, throneFiles, scratch
<1>20. CASE ClearWeights
  BY <1>i, <1>20 DEF ClearWeights, Rest, disk, world, locals, ghosts, throneFiles, scratch
<1>21. CASE BurnWeights
  BY <1>i, <1>21 DEF BurnWeights, Rest, disk, world, locals, ghosts, throneFiles, scratch
<1>22. CASE NothingToAudit
  BY <1>i, <1>22 DEF NothingToAudit, disk, world, locals, ghosts, throneFiles, scratch
<1>23. CASE RunAudit
  BY <1>i, <1>23 DEF RunAudit, disk, world, locals, ghosts, throneFiles, scratch
<1>24. CASE Restart
  BY <1>i, <1>24 DEF Restart, disk, world, locals, ghosts, throneFiles, scratch
<1>25. CASE Crash
  BY <1>d, <1>25 DEF Crash, Forget, disk, throneFiles
<1>26. CASE CrashWritingKing
  BY <1>d, <1>26 DEF CrashWritingKing, Forget, disk, throneFiles
<1>27. CASE CrashWritingMark
  BY <1>d, <1>27 DEF CrashWritingMark, Forget, disk, throneFiles
<1>28. CASE CrashWritingWeights
  BY <1>d, <1>28 DEF CrashWritingWeights, Forget, disk, throneFiles
<1>29. CASE CrashPolling
  BY <1>d, <1>29 DEF CrashPolling, Forget, disk, throneFiles
<1>30. CASE CrashClaiming
  BY <1>d, <1>30 DEF CrashClaiming, Forget, disk, throneFiles
<1>31. CASE CrashEnqueuing
  BY <1>d, <1>31 DEF CrashEnqueuing, Forget, disk, throneFiles
<1>32. CASE CrashBlacklisting
  BY <1>d, <1>32 DEF CrashBlacklisting, Forget, disk, throneFiles
<1>33. CASE Submit
  <2>1. /\ UNCHANGED <<reigned, throne, highWater, crashes, pc, current, verdict>>
        /\ \A b \in Bundles : loc[b] # "unsubmitted" => loc'[b] = loc[b] /\ recipePr'[b] = recipePr[b]
        /\ \A b \in Bundles : loc[b] = "unsubmitted" => loc'[b] = loc[b] \/ recipePr'[b] = "open"
    BY <1>0, <1>33 DEF Submit, throneFiles, locals, ghosts
  <2>2. InHand => loc[current] = "pending"
    BY DEF HandInv, Pending
  <2>3. \A b \in reigned : Free(b) => Free(b)'
    BY <1>0, <2>1, <2>2
  <2> HIDE DEF Free, InHand
  <2> QED BY <1>n, <2>1, <2>3
<1>34. CASE Tick
  <2>1. UNCHANGED <<reigned, throne, highWater, crashes, pc, loc, recipePr, current, verdict>>
    BY <1>34 DEF Tick, disk, world, locals, ghosts
  <2> QED BY <1>n, <2>1
<1>35. CASE ManualMerge
  <2>1. /\ UNCHANGED <<reigned, throne, highWater, crashes, pc, loc, current, verdict>>
        /\ \A b \in Bundles : recipePr[b] # "closed" => recipePr'[b] # "closed"
    BY <1>0, <1>35 DEF ManualMerge, disk, locals, ghosts
  <2>3. \A b \in reigned : Free(b) => Free(b)'
    BY <1>0, <2>1
  <2> HIDE DEF Free, InHand
  <2> QED BY <1>n, <2>1, <2>3
<1>36. CASE Deregister
  <2>1. UNCHANGED <<reigned, throne, highWater, crashes, pc, loc, recipePr, current, verdict>>
    BY <1>36 DEF Deregister, disk, world, locals, ghosts
  <2> QED BY <1>n, <2>1
<1>37. CASE UNCHANGED vars
  <2>1. UNCHANGED <<reigned, throne, highWater, crashes, pc, loc, recipePr, current, verdict>>
    BY <1>37 DEF vars, disk, world, locals, ghosts
  <2> QED BY <1>n, <2>1
<1> QED
  BY <1>1, <1>2, <1>3, <1>4, <1>5, <1>6, <1>7, <1>8, <1>9, <1>10, <1>11, <1>12, <1>13,
     <1>14, <1>15, <1>16, <1>17, <1>18, <1>19, <1>20, <1>21, <1>22, <1>23, <1>24, <1>25,
     <1>26, <1>27, <1>28, <1>29, <1>30, <1>31, <1>32, <1>33, <1>34, <1>35, <1>36, <1>37
  DEF Next, ValidatorStep, CrashStep, WorldStep

----------------------------------------------------------------------------
\* The credit of a meaningful failure.

\* Initially nothing is owed.
LEMMA CreditInit == Init => CreditInv
BY DEF Init, CreditInv

\* The split gives a share to every failure it counts, and is merged with what
\* was saved: who has a credit and is not a king has a weight in the round.
LEMMA CreditSplit ==
  ASSUME TypeOK, OwnersInv, NEW down, NEW h \in Hotkeys,
         \/ h \in failures /\ ~Withheld(down)
         \/ recovered[h] > 0
  PROVE  MergeRecovered(Split(down), recovered, PaidKing)[h] > 0 \/ h \in KingOwners
<1>0. /\ recovered[h] \in Nat /\ KingPool \in Nat /\ MinorPool \in Nat \ {0}
      /\ throne \in Seq(Bundles) /\ failures \in SUBSET Hotkeys
      /\ Split(down)[h] \in Nat
  BY SplitType, ScoringAssumption
  DEF TypeOK, DiskTypeOK, LocalsTypeOK, WeightMaps, FullPool, KingPool
<1>1. h = PaidKing => h \in KingOwners
  <2>1. throne # <<>> => Len(throne) \in 1 .. Len(throne)
    BY <1>0, EmptySeq
  <2> QED BY <2>1, ScoringAssumption DEF PaidKing, KingHotkey, Top, OwnersInv, KingOwners
<1>2. ASSUME h # PaidKing, recovered[h] < KingPool, recovered[h] > 0
      PROVE  MergeRecovered(Split(down), recovered, PaidKing)[h] > 0
  BY <1>0, <1>2 DEF MergeRecovered, Larger
<1>3. ASSUME h # PaidKing, h \in failures, ~Withheld(down)
      PROVE  MergeRecovered(Split(down), recovered, PaidKing)[h] > 0
  <2>1. MinorShare(failures) > 0 /\ MinorShare(failures) \in Nat
    BY <1>0, <1>3, MinorSharePositive
  <2>2. Split(down)[h] > 0
    BY <1>0, <1>3, <2>1, ScoringAssumption DEF Split, PoolSplit, Larger
  <2> QED BY <1>0, <2>2 DEF MergeRecovered, Larger
<1> QED BY <1>0, <1>1, <1>2, <1>3 DEF OwnersInv

\* A credit goes from the list of failures to the round, from there to the file
\* and from one epoch's file to the next one's round, until it lands.
LEMMA CreditNext ==
  ASSUME TypeInv, OwnersInv, SavedInv, CreditInv, [Next]_vars
  PROVE  CreditInv'
<1> SUFFICES ASSUME crashes' = 0, "rpc" \notin Faults, NEW b \in unpaid' \ forgone'
             PROVE  CreditIn(Owner[b])' \/ Forfeited(Owner[b])'
  BY DEF CreditInv
<1> DEFINE h == Owner[b]
           Goal == CreditIn(h)' \/ Forfeited(h)'
<1>0. /\ TypeOK /\ crashes \in Nat
      /\ unpaid \subseteq Bundles /\ (pc \in Handling => current \in Bundles)
      /\ \A c \in Bundles : Owner[c] \in Hotkeys
  BY EpochLoopAssumption DEF TypeInv, TypeOK, GhostsTypeOK, CurrentOK
<1>o. ASSUME b \in unpaid \ forgone, crashes = 0 PROVE (CreditIn(h) \/ Forfeited(h)) /\ h \in Hotkeys
  BY <1>0, <1>o DEF CreditInv
<1>f. ASSUME blacklist \subseteq blacklist', registered' \subseteq registered, reigned \subseteq reigned', Forfeited(h)
      PROVE  Forfeited(h)'
  BY <1>f DEF Forfeited, KingOwners
\* Steps that neither file a credit nor move one.
<1> DEFINE Stays == /\ b \in unpaid \ forgone /\ crashes = 0
                    /\ blacklist \subseteq blacklist' /\ registered' \subseteq registered
                    /\ reigned \subseteq reigned'
           Scoring == {"loop"} \cup Handling
           Paying == {"save", "emit"}
           Resting == Steps \ (Scoring \cup Paying \cup {"clear"})
<1>s. ASSUME Stays, UNCHANGED <<failures, pendingWeights>>, pc \in Scoring, pc' \in Scoring PROVE Goal
  BY <1>s, <1>o, <1>f DEF CreditIn, Handling
<1>r. ASSUME Stays, UNCHANGED pendingWeights, pc \in Resting, pc' \in Resting PROVE Goal
  BY <1>r, <1>o, <1>f DEF CreditIn, Handling, Steps
<1>u. ASSUME Stays, UNCHANGED <<failures, pendingWeights, round, pc>> PROVE Goal
  BY <1>u, <1>o, <1>f DEF CreditIn
<1>t. pc \in Steps
  BY DEF TypeInv, TypeOK, LocalsTypeOK
<1>1. CASE BeginEpoch
  <2>1. Stays /\ UNCHANGED pendingWeights /\ pc \in {"idle", "audit", "down"} /\ pc' \in {"idle", "poll"}
    BY <1>1 DEF BeginEpoch, disk, world, ghosts
  <2> QED BY <1>r, <2>1 DEF Handling, Steps
<1>2. CASE PollQueue
  <2>1. Stays /\ UNCHANGED pendingWeights /\ pc = "poll" /\ pc' = "loop"
    BY <1>2 DEF PollQueue, world, ghosts
  <2> QED BY <1>o, <1>f, <2>1 DEF Goal, CreditIn, Handling
<1>3. CASE Defer
  <2>1. Stays /\ UNCHANGED <<failures, pendingWeights>> /\ pc \in Scoring /\ pc' \in Scoring
    BY <1>3 DEF Defer, disk, world, ghosts, scratch, Handling
  <2> QED BY <1>s, <2>1
<1>4. CASE Score
  <2>1. Stays /\ UNCHANGED <<failures, pendingWeights>> /\ pc \in Scoring /\ pc' \in Scoring
    BY <1>4 DEF Score, disk, world, ghosts, scratch, Handling
  <2> QED BY <1>s, <2>1
<1>5. CASE ScoreError
  <2>1. Stays /\ UNCHANGED <<failures, pendingWeights>> /\ pc \in Scoring /\ pc' \in Scoring
    BY <1>5 DEF ScoreError, disk, world, ghosts, scratch, Handling
  <2> QED BY <1>s, <2>1
<1>6. CASE ScoreBlindly
  BY <1>6 DEF ScoreBlindly
<1>7. CASE AbortScoring
  BY <1>7 DEF AbortScoring
<1>8. CASE CloseLosingPr
  <2>1. Stays /\ UNCHANGED <<failures, pendingWeights>> /\ pc \in Scoring /\ pc' \in Scoring
    BY <1>8 DEF CloseLosingPr, disk, world, ghosts, scratch, Handling
  <2> QED BY <1>s, <2>1
<1>9. CASE ArchiveBundle
  <2>1. /\ crashes = 0 /\ UNCHANGED <<blacklist, registered, reigned, pendingWeights>>
        /\ pc = "archive" /\ pc' \in {"enqueue", "loop"}
        /\ UNCHANGED forgone
        /\ \/ unpaid' = unpaid \cup {current} /\ failures' = failures \cup {Owner[current]}
           \/ unpaid' = unpaid /\ failures' = failures
    BY <1>9 DEF ArchiveBundle, world
  <2>2. CASE b \in unpaid
    BY <1>o, <1>f, <2>1, <2>2 DEF Goal, CreditIn, Handling
  <2>3. CASE b \notin unpaid
    BY <2>1, <2>3 DEF Goal, CreditIn, Handling, h
  <2> QED BY <2>2, <2>3
<1>10. CASE SetKing
  <2>1. Stays /\ UNCHANGED <<failures, pendingWeights>> /\ pc = "crown" /\ pc' = "mark"
    BY <1>10 DEF SetKing, world, scratch
  <2> QED BY <1>s, <2>1 DEF Handling
<1>11. CASE SetHighWaterMark
  <2>1. Stays /\ UNCHANGED <<failures, pendingWeights>> /\ pc \in Scoring /\ pc' \in Scoring
    BY <1>11 DEF SetHighWaterMark, disk, world, ghosts, scratch, Handling
  <2> QED BY <1>s, <2>1
<1>12. CASE EnqueueAudit
  <2>1. Stays /\ UNCHANGED <<failures, pendingWeights>> /\ pc \in Scoring /\ pc' \in Scoring
    BY <1>12 DEF EnqueueAudit, disk, world, ghosts, scratch, Handling
  <2> QED BY <1>s, <2>1
<1>13. CASE MergePr
  <2>1. Stays /\ UNCHANGED <<failures, pendingWeights>> /\ pc \in Scoring /\ pc' \in Scoring
    BY <1>13 DEF MergePr, disk, world, ghosts, scratch, Handling
  <2> QED BY <1>s, <2>1
<1>14. CASE ComputeWeights
  <2>1. PICK down \in Outages :
          /\ round' = MergeRecovered(Split(down), recovered, PaidKing)
          /\ forgone' = IF Withheld(down) THEN forgone \cup GivenUp ELSE forgone
    BY <1>14 DEF ComputeWeights
  <2>2. /\ crashes = 0 /\ UNCHANGED <<blacklist, registered, reigned, pendingWeights, unpaid>> /\ pc = "loop"
        /\ pc' \in {"save", "burn", "idle", "audit"} /\ (pc' # "save" => round' = NoWeights)
    BY <1>14 DEF ComputeWeights, Rest, disk, world
  <2>3. b \in unpaid \ forgone /\ recovered = pendingWeights
    BY <2>1, <2>2 DEF SavedInv
  <2>4. CreditIn(h) => h \in failures \/ recovered[h] > 0
    BY <2>2, <2>3 DEF CreditIn
  <2>5. h \in Hotkeys
    BY <1>o, <2>2, <2>3
  <2>8. Withheld(down) /\ h \in failures => recovered[h] > 0
    <3>1. recovered[h] \in Nat
      BY <1>0, <2>5 DEF TypeOK, LocalsTypeOK, WeightMaps
    <3>2. Withheld(down) /\ h \in failures => recovered[h] # 0
      BY <2>1, <2>2, <2>3 DEF GivenUp, h
    <3> QED BY <3>1, <3>2
  <2>6. CreditIn(h) => round'[h] > 0 \/ Forfeited(h)
    BY <1>0, <2>1, <2>3, <2>4, <2>5, <2>8, CreditSplit DEF Forfeited
  <2>7. round' = NoWeights => round'[h] = 0
    BY <2>5 DEF NoWeights
  <2> QED BY <1>o, <1>f, <2>2, <2>3, <2>6, <2>7 DEF Goal, CreditIn, Handling
<1>15. CASE SaveWeights
  <2>1. Stays /\ UNCHANGED round /\ pc = "save" /\ pc' = "emit"
    BY <1>15 DEF SaveWeights, world, ghosts, scratch
  <2> QED BY <1>o, <1>f, <2>1 DEF Goal, CreditIn, Handling
<1>16. CASE SetWeightsRefused
  <2>1. Stays /\ UNCHANGED pendingWeights /\ pc = "emit" /\ pc' \in {"idle", "audit"}
    BY <1>16 DEF SetWeightsRefused, disk, world, ghosts, Rest
  <2>2. pendingWeights = round
    BY <2>1 DEF SavedInv
  <2> QED BY <1>o, <1>f, <2>1, <2>2 DEF Goal, CreditIn, Handling
<1>17. CASE SetWeightsLands
  <2>1. Stays /\ pc = "emit" /\ pc' = "clear" /\ Payment[h] = 0
    BY <1>17 DEF SetWeightsLands, disk, Land, h
  <2>2. Forfeited(h) \/ round[h] = 0
    BY <1>o, <2>1 DEF Payment, Payable, Forfeited
  <2> QED BY <1>o, <1>f, <2>1, <2>2 DEF Goal, CreditIn, Handling
<1>18. CASE SetWeightsFails
  <2>1. Stays /\ UNCHANGED pendingWeights /\ pc = "emit" /\ pc' \in {"idle", "audit"}
    BY <1>18 DEF SetWeightsFails, disk, Land, Rest
  <2>2. pendingWeights = round
    BY <2>1 DEF SavedInv
  <2> QED BY <1>o, <1>f, <2>1, <2>2 DEF Goal, CreditIn, Handling
<1>19. CASE AbortWeights
  BY <1>19 DEF AbortWeights
<1>20. CASE ClearWeights
  <2>1. Stays /\ pc = "clear"
    BY <1>20 DEF ClearWeights, world, ghosts
  <2> QED BY <1>o, <1>f, <2>1 DEF Goal, CreditIn, Handling
<1>21. CASE BurnWeights
  <2>1. Stays /\ UNCHANGED pendingWeights /\ pc = "burn" /\ pc' \in {"idle", "audit"}
    BY <1>21 DEF BurnWeights, disk, Land, Rest
  <2> QED BY <1>r, <2>1 DEF Handling, Steps
<1>22. CASE NothingToAudit
  <2>1. Stays /\ UNCHANGED pendingWeights /\ pc \in {"idle", "audit", "down"} /\ pc' \in {"idle", "poll"}
    BY <1>22 DEF NothingToAudit, disk, world, ghosts
  <2> QED BY <1>r, <2>1 DEF Handling, Steps
<1>23. CASE RunAudit
  <2>1. Stays /\ UNCHANGED pendingWeights /\ pc \in {"idle", "audit", "down"} /\ pc' \in {"idle", "poll"}
    BY <1>23 DEF RunAudit, disk, world, ghosts
  <2> QED BY <1>r, <2>1 DEF Handling, Steps
<1>24. CASE Restart
  <2>1. Stays /\ UNCHANGED pendingWeights /\ pc \in {"idle", "audit", "down"} /\ pc' \in {"idle", "poll"}
    BY <1>24 DEF Restart, disk, world, ghosts
  <2> QED BY <1>r, <2>1 DEF Handling, Steps
<1>25. CASE Crash
  BY <1>0, <1>25 DEF Crash, Forget
<1>26. CASE CrashWritingKing
  BY <1>0, <1>26 DEF CrashWritingKing, Forget
<1>27. CASE CrashWritingMark
  BY <1>0, <1>27 DEF CrashWritingMark, Forget
<1>28. CASE CrashWritingWeights
  BY <1>0, <1>28 DEF CrashWritingWeights, Forget
<1>29. CASE CrashPolling
  BY <1>0, <1>29 DEF CrashPolling, Forget
<1>30. CASE CrashClaiming
  BY <1>0, <1>30 DEF CrashClaiming, Forget
<1>31. CASE CrashEnqueuing
  BY <1>0, <1>31 DEF CrashEnqueuing, Forget
<1>32. CASE CrashBlacklisting
  BY <1>0, <1>32 DEF CrashBlacklisting, Forget
<1>33. CASE Submit
  <2>1. Stays /\ UNCHANGED <<failures, pendingWeights, round, pc>>
    BY <1>33 DEF Submit, disk, world, locals, ghosts
  <2> QED BY <1>u, <2>1
<1>34. CASE Tick
  <2>1. Stays /\ UNCHANGED <<failures, pendingWeights, round, pc>>
    BY <1>34 DEF Tick, disk, world, locals, ghosts
  <2> QED BY <1>u, <2>1
<1>35. CASE ManualMerge
  <2>1. Stays /\ UNCHANGED <<failures, pendingWeights, round, pc>>
    BY <1>35 DEF ManualMerge, disk, world, locals, ghosts
  <2> QED BY <1>u, <2>1
<1>36. CASE Deregister
  <2>1. Stays /\ UNCHANGED <<failures, pendingWeights, round, pc>>
    BY <1>36 DEF Deregister, disk, world, locals, ghosts
  <2> QED BY <1>u, <2>1
<1>37. CASE UNCHANGED vars
  <2>1. Stays /\ UNCHANGED <<failures, pendingWeights, round, pc>>
    BY <1>37 DEF vars, disk, world, locals, ghosts
  <2> QED BY <1>u, <2>1
<1> QED
  BY <1>1, <1>2, <1>3, <1>4, <1>5, <1>6, <1>7, <1>8, <1>9, <1>10, <1>11, <1>12, <1>13,
     <1>14, <1>15, <1>16, <1>17, <1>18, <1>19, <1>20, <1>21, <1>22, <1>23, <1>24, <1>25,
     <1>26, <1>27, <1>28, <1>29, <1>30, <1>31, <1>32, <1>33, <1>34, <1>35, <1>36, <1>37
  DEF Goal, h, Next, ValidatorStep, CrashStep, WorldStep

----------------------------------------------------------------------------
\* What a step does to the files.

\* Only the three steps that write pending_weights.json change it.
LEMMA SavedStep ==
  ASSUME WagesInv, SavedInv, [Next]_vars, NEW h \in Hotkeys,
         pendingWeights[h] < KingPool, pendingWeights'[h] < pendingWeights[h]
  PROVE  pc = "clear" \/ h = KingHotkey \/ (pc = "save" /\ pc' = "down")
<1>0. pendingWeights[h] \in Nat /\ round[h] \in Nat
  BY ScoringAssumption
  DEF WagesInv, TypeInv, TypeOK, DiskTypeOK, LocalsTypeOK, WeightMaps, FullPool
<1>1. CASE SaveWeights
  BY <1>0, <1>1 DEF SaveWeights, SavedInv
<1>2. CASE ClearWeights
  BY <1>2 DEF ClearWeights
<1>3. CASE CrashWritingWeights
  BY <1>3 DEF CrashWritingWeights, Forget
<1>4. CASE UNCHANGED pendingWeights
  BY <1>0, <1>4
<1>5. ~SaveWeights /\ ~ClearWeights /\ ~CrashWritingWeights => UNCHANGED pendingWeights
  BY DEF Next, vars, disk, throneFiles, ValidatorStep, CrashStep, WorldStep,
    BeginEpoch, PollQueue, Defer, Score, ScoreError, ScoreBlindly, AbortScoring,
    CloseLosingPr, ArchiveBundle, SetKing, SetHighWaterMark, EnqueueAudit, MergePr,
    ComputeWeights, SetWeightsRefused, SetWeightsLands, SetWeightsFails, AbortWeights,
    BurnWeights, NothingToAudit, RunAudit, Restart, Crash, CrashWritingKing, CrashWritingMark,
    CrashPolling, CrashClaiming, CrashEnqueuing, CrashBlacklisting,
    Submit, Tick, ManualMerge, Deregister
<1> QED BY <1>1, <1>2, <1>3, <1>4, <1>5

\* A claim is set where there was none, and dropped by a poll that does not find
\* its bundle or by a crash that cuts the file short.
LEMMA ClaimStep ==
  ASSUME TypeOK, [Next]_vars, NEW h \in Hotkeys, claims[h] # NoBundle, claims'[h] # claims[h]
  PROVE  \/ loc[claims[h]] # "pending"
         \/ claims' = NoClaims /\ pc \in {"poll", "loop"} /\ pc' = "down"
<1>0. claims \in [Hotkeys -> Bundles \cup {NoBundle}] /\ todo \subseteq Bundles
  BY DEF TypeOK, DiskTypeOK, LocalsTypeOK
<1>1. CASE PollQueue
  <2>1. /\ Pending \subseteq todo'
        /\ claims' = (IF OneInFlight THEN Reconciled(todo') ELSE claims)
    BY <1>1 DEF PollQueue
  <2>2. claims[h] \notin Pending /\ claims[h] \in Bundles
    BY <1>0, <2>1 DEF Reconciled
  <2> QED BY <2>2 DEF Pending
<1>2. ASSUME NEW b \in todo, MayClaim(b), claims' = Claim(b) PROVE FALSE
  BY <1>0, <1>2, EpochLoopAssumption DEF MayClaim, Claim
<1>3. CASE Score \/ ScoreError \/ ScoreBlindly \/ AbortScoring
  BY <1>2, <1>3 DEF Score, ScoreError, ScoreBlindly, AbortScoring
<1>5. CASE CrashPolling \/ CrashClaiming
  BY <1>5 DEF CrashPolling, CrashClaiming, Written, Forget
<1>4. ~PollQueue /\ ~(Score \/ ScoreError \/ ScoreBlindly \/ AbortScoring)
        /\ ~(CrashPolling \/ CrashClaiming) => UNCHANGED claims
  BY DEF Next, vars, disk, throneFiles, ValidatorStep, CrashStep, WorldStep,
    BeginEpoch, Defer, CloseLosingPr, ArchiveBundle, SetKing, SetHighWaterMark, EnqueueAudit,
    MergePr, ComputeWeights, SaveWeights, SetWeightsRefused, SetWeightsLands, SetWeightsFails,
    AbortWeights, ClearWeights, BurnWeights, NothingToAudit, RunAudit, Restart, Crash,
    CrashWritingKing, CrashWritingMark, CrashWritingWeights, CrashEnqueuing, CrashBlacklisting,
    Submit, Tick, ManualMerge, Deregister
<1> QED BY <1>1, <1>3, <1>4, <1>5

----------------------------------------------------------------------------
\* The theorems about crowns, credits and claims.

\* What the theorems of crowns and credits rest on.
ServiceInv ==
  WagesInv /\ HandInv /\ MergedInv /\ ReignInv /\ OwnersInv /\ SavedInv /\ CreditInv

\* It holds in every state.
LEMMA ServiceInvariant == Spec => []ServiceInv
<1>1. Init => ServiceInv
  BY WagesInit, HandInit, MergedInit, ReignInit, OwnersInit, SavedInit, CreditInit DEF ServiceInv
<1>2. ServiceInv /\ [Next]_vars => ServiceInv'
  <2> SUFFICES ASSUME ServiceInv, [Next]_vars PROVE ServiceInv'
    OBVIOUS
  <2>1. /\ WagesInv /\ HandInv /\ MergedInv /\ ReignInv /\ OwnersInv /\ SavedInv /\ CreditInv
        /\ TypeInv
    BY DEF ServiceInv, WagesInv
  <2>2. WagesInv' /\ HandInv' /\ MergedInv'
    BY <2>1, WagesNext, HandNext, MergedNext
  <2>3. ReignInv' /\ OwnersInv'
    BY <2>1, ReignNext, OwnersNext
  <2>4. SavedInv' /\ CreditInv'
    BY <2>1, SavedNext, CreditNext
  <2> QED BY <2>2, <2>3, <2>4 DEF ServiceInv
<1> QED BY <1>1, <1>2, PTL DEF Spec

\* A king whose pull request is not merged is not paid, whatever the merged-PR
\* cache holds and whatever an epoch before left to be recovered: the cache knows
\* only merges, and the recovered weight of a withheld king is not restored.
THEOREM UnmergedKingEarnsNothing == Spec => []UnmergedKingUnpaid
<1>1. ServiceInv => UnmergedKingUnpaid
  BY DEF ServiceInv, MergedInv
<1> QED BY <1>1, ServiceInvariant, PTL

\* The crown that beats no bar is given once, until the first crash.  After one,
\* still, unless the throne can be lost: to a demotion or to a torn king.json.
THEOREM GenesisUntilCrash ==
  Spec => []((crashes = 0 \/ (~RequireMergedKingPr /\ "tear" \notin Faults)) => GenesisOnlyOnce)
<1>1. ServiceInv => ((crashes = 0 \/ (~RequireMergedKingPr /\ "tear" \notin Faults)) => GenesisOnlyOnce)
  BY DEF ServiceInv, ReignInv, WagesInv, CrownInv, GenesisOnlyOnce, IsFirst
<1> QED BY <1>1, ServiceInvariant, PTL

\* Until the first crash no king is taken for a losing submission: it is archived
\* before the next bundle is judged, and a demoted one is not judged again.
THEOREM CrownedStaysOpen == Spec => [](crashes = 0 => CrownedNeverClosed)
<1>1. ServiceInv => (crashes = 0 => CrownedNeverClosed)
  BY DEF ServiceInv, ReignInv, CrownedNeverClosed
<1> QED BY <1>1, ServiceInvariant, PTL

\* No credit of a meaningful failure is forgotten, however long set_weights is
\* refused and however the epochs that recover it end, unless the validator
\* crashes, an RPC error ends an epoch while it scores, or an epoch withholds all
\* weight from an unmerged king and gives up its own failures' shares.
THEOREM CreditsAccounted ==
  Spec => []((crashes = 0 /\ "rpc" \notin Faults) => OutsidersCreditAccounted)
<1>1. ServiceInv => ((crashes = 0 /\ "rpc" \notin Faults) => OutsidersCreditAccounted)
  <2> SUFFICES ASSUME ServiceInv, crashes = 0, "rpc" \notin Faults, NEW b \in unpaid \ forgone
               PROVE  CreditHeld(Owner[b]) \/ Owner[b] \in {Owner[k] : k \in reigned}
    BY DEF OutsidersCreditAccounted
  <2>1. CreditIn(Owner[b]) \/ Forfeited(Owner[b])
    BY DEF ServiceInv, CreditInv
  <2>2. CreditIn(Owner[b]) => CreditHeld(Owner[b])
    BY DEF CreditIn, CreditHeld, AboutToPay, Handling
  <2> QED BY <2>1, <2>2 DEF Forfeited, CreditHeld, KingOwners
<1> QED BY <1>1, ServiceInvariant, PTL

\* A saved credit stays in the file through crashes, recoveries and later epochs
\* until weights have landed.
THEOREM SavedCreditSurvives == Spec => SavedCreditKept
<1>1. ServiceInv /\ [Next]_vars =>
        [\A h \in Hotkeys :
           pendingWeights[h] < KingPool /\ pendingWeights'[h] < pendingWeights[h]
             => pc = "clear" \/ h = KingHotkey \/ (pc = "save" /\ pc' = "down")]_vars
  BY SavedStep DEF ServiceInv
<1>2. Spec => [][\A h \in Hotkeys :
                   pendingWeights[h] < KingPool /\ pendingWeights'[h] < pendingWeights[h]
                     => pc = "clear" \/ h = KingHotkey \/ (pc = "save" /\ pc' = "down")]_vars
  BY <1>1, ServiceInvariant, PTL DEF Spec
<1> QED BY <1>2 DEF SavedCreditKept

\* A hotkey's claim outlasts its bundle's stay in queue/pending, through
\* deferrals, crashes and reconciliations, unless a crash cuts inflight.json
\* short in the middle of a write.
THEOREM ClaimsOutlastTheQueue == Spec => ClaimHolds
<1>1. TypeOK /\ [Next]_vars =>
        [\A h \in Hotkeys :
           claims[h] # NoBundle /\ claims'[h] # claims[h]
             => \/ loc[claims[h]] # "pending"
                \/ claims' = NoClaims /\ pc \in {"poll", "loop"} /\ pc' = "down"]_vars
  BY ClaimStep
<1>2. Spec => [][\A h \in Hotkeys :
                   claims[h] # NoBundle /\ claims'[h] # claims[h]
                     => \/ loc[claims[h]] # "pending"
                        \/ claims' = NoClaims /\ pc \in {"poll", "loop"} /\ pc' = "down"]_vars
  BY <1>1, TypeCorrect, PTL DEF Spec
<1> QED BY <1>2 DEF ClaimHolds

============================================================================
