------------------------- MODULE PublicationProofs -------------------------
(***************************************************************************)
(* Theorems about Publication, for every set of bundles, owners and        *)
(* conflicts and any number of failures and cutovers: main follows the     *)
(* crowns, tags follow main, and no submission is rejected or left open    *)
(* without a reason.                                                       *)
(***************************************************************************)
EXTENDS PublicationProperties, Positions, SequenceTheorems

-----------------------------------------------------------------------------
\* The invariants.

Versions == Nat \X Nat

PullStates == {"none", "open", "merged", "closed"}
Stages == {"new", "prove", "sign", "upload", "sent", "failed"}
Closing == {"close rejected", "close scored", "close rejected 2", "close scored 2"}
Steps == {"idle", "merge", "tag", "release", "merge hub", "archive scored", "archive rejected"}
           \union Closing

RepoTypeOK ==
  /\ pull \in [Bundles -> PullStates]
  /\ main \in Seq(Bundles)
  /\ tags \in Seq([version : Versions, commit : Int])

MinerTypeOK ==
  /\ image \in 0 .. Len(main)
  /\ stage \in [Bundles -> Stages]
  /\ slot \in [{Owner[b] : b \in Bundles} -> Bundles \union {Nothing}]
  /\ measured \in [Bundles -> Nat]
  /\ url \in [Bundles -> Bundles \union {Nothing}]
  /\ hub \in [Bundles -> PullStates]
  /\ troubled \subseteq Bundles

ValidatorTypeOK ==
  /\ pc \in Steps
  /\ pc # "idle" => subject \in Bundles
  /\ version \in Versions
  /\ series \in Nat \ {0}
  /\ verdict \in [Bundles -> {"pending", "scored", "rejected"}]
  /\ reigns \in Seq(Bundles)

PublicationTypeOK == RepoTypeOK /\ MinerTypeOK /\ ValidatorTypeOK

\* main is a subsequence of the first n crowns.
Follows(n) ==
  \E at \in [DOMAIN main -> 1 .. n] :
    /\ \A i \in DOMAIN main : reigns[at[i]] = main[i]
    /\ \A i, j \in DOMAIN main : i < j => at[i] < at[j]

\* While the king waits to be merged its crown is the last, and not on main.
Awaited == pc = "merge" /\ reigns # <<>> /\ reigns[Len(reigns)] = subject

MergeInv ==
  /\ pc = "merge" => Awaited
  /\ Follows(IF pc = "merge" THEN Len(reigns) - 1 ELSE Len(reigns))

\* Tags are on commits there are, and the commit to be tagged next has none.
TagsReach ==
  \A i \in DOMAIN tags : tags[i].commit <= Len(main) /\ (pc = "tag" => tags[i].commit < Len(main))

\* No tag is of a series to come, and the tags of a series leave no gap.
TagsDense ==
  \A i \in DOMAIN tags :
    /\ tags[i].version[1] \in 1 .. series
    /\ \A k \in Nat : k < tags[i].version[2] => Taken(<<tags[i].version[1], k>>)

TagInv == TagsFollowMain /\ TagsReach /\ TagsDense

\* A run that has sent its bundle, or failed, is over.
RunOver(b) == stage[b] \in {"sent", "failed"}

RunInv ==
  \A b \in Bundles :
    /\ measured[b] <= image
    /\ hub[b] # "none" => RunOver(b)
    /\ stage[b] = "failed" => b \in troubled
    /\ verdict[b] # "pending" => hub[b] # "none"
    /\ (pc # "idle" /\ subject = b) => hub[b] # "none" /\ verdict[b] = "pending"
    /\ stage[b] \in {"new", "prove", "sign"} => url[b] = Nothing
    /\ (pc = "merge" /\ subject = b) => url[b] = b

\* A pull request stays open until a bundle that names it is closed.
Unclosed(b) == pull[b] = "open" \/ (pull[b] = "closed" /\ Usurped(b))

\* What a run without trouble leaves behind: the pull request is named in the
\* bundle, or there is none, because another patch was in its way or the bundle
\* names one that is not its own.
PullAnswered(b) ==
  /\ stage[b] \in {"new", "prove", "sign"} => pull[b] = "none"
  /\ (RunOver(b) \/ stage[b] = "upload") /\ url[b] # b =>
       pull[b] = "none" /\ (url[b] = Nothing => ~Applies(b))
  /\ stage[b] = "upload" /\ url[b] = b => Unclosed(b)

\* Until it is judged or usurped, a bundle's pull request is open.
PullWaits(b) ==
  (RunOver(b) /\ url[b] = b /\ verdict[b] = "pending"
     /\ ~(subject = b /\ pc \notin {"idle", "close rejected", "close scored",
                                      "close rejected 2", "close scored 2", "merge"})) =>
    Unclosed(b)

Overtaken(b) ==
  \/ slot[Owner[b]] # b
  \/ measured[b] # image
  \/ ~Applies(b) /\ pull[b] = "none"
  \/ url[b] \notin {b, Nothing}
  \/ pull[b] = "closed" /\ Usurped(b)

\* A bundle that is rejected without trouble has been overtaken.
RejectedOvertaken(b) ==
  (verdict[b] = "rejected"
     \/ (subject = b /\ pc \in {"close rejected", "close rejected 2", "archive rejected"})) =>
    Overtaken(b)

Crowned(b) == \E i \in DOMAIN reigns : reigns[i] = b

\* What is done with a bundle's pull requests when there is no trouble.
HubSettled(b) == hub[b] # "open"
PullSettled(b) == pull[b] = "open" => ~Applies(b) /\ Crowned(b)

Settled(b) ==
  /\ verdict[b] # "pending" => HubSettled(b) /\ PullSettled(b)
  /\ subject = b =>
       /\ pc \in {"close rejected 2", "close scored 2", "archive rejected", "archive scored"} =>
            HubSettled(b)
       /\ pc \in {"tag", "release", "merge hub", "archive rejected", "archive scored"} =>
            PullSettled(b)
       /\ pc = "merge" => Crowned(b)

Quiet(b) == PullAnswered(b) /\ PullWaits(b) /\ RejectedOvertaken(b) /\ Settled(b)

QuietInv == \A b \in Bundles \ troubled : Quiet(b)

PublicationInv == PublicationTypeOK /\ MergeInv /\ TagInv /\ RunInv /\ QuietInv

-----------------------------------------------------------------------------
\* Tags and the versions computed from a page of them.

\* Positions of a typed sequence of tags.
LEMMA TagFields ==
  ASSUME RepoTypeOK
  PROVE  /\ Len(tags) \in Nat /\ DOMAIN tags = 1 .. Len(tags)
         /\ \A i \in DOMAIN tags :
              /\ tags[i].version \in Versions /\ tags[i].commit \in Int
              /\ tags[i].version[1] \in Nat /\ tags[i].version[2] \in Nat
         /\ Len(main) \in Nat /\ DOMAIN main = 1 .. Len(main)
<1>1. \A i \in 1 .. Len(tags) : tags[i] \in [version : Versions, commit : Int]
  BY ElementOfSeq DEF RepoTypeOK
<1>2. /\ Len(tags) \in Nat /\ DOMAIN tags = 1 .. Len(tags)
      /\ Len(main) \in Nat /\ DOMAIN main = 1 .. Len(main)
  BY LenProperties DEF RepoTypeOK
<1> QED BY <1>1, <1>2 DEF Versions

\* The latest version on a page is one of its tags, if there is any.
LEMMA LatestTaken ==
  ASSUME RepoTypeOK, TagsFollowMain, NEW page \in TagPages
  PROVE  Latest(page) = NoVersion \/ Taken(Latest(page))
<1>1. PICK p \in SUBSET DOMAIN tags : page = {tags[i].version : i \in p}
  BY DEF TagPages
<1>2. CASE page = {}
  BY <1>2 DEF Latest
<1>3. CASE page # {}
  <2>1. p # {} /\ p \in SUBSET (1 .. Len(tags)) /\ Len(tags) \in Nat
    BY <1>1, <1>3, TagFields
  <2>2. PICK m \in p : \A j \in p : j <= m
    BY <2>1, LastPosition
  <2>3. \A j \in p : ~Earlier(tags[m].version, tags[j].version)
    <3> SUFFICES ASSUME NEW j \in p PROVE ~Earlier(tags[m].version, tags[j].version)
      OBVIOUS
    <3>1. /\ tags[m].version[1] \in Nat /\ tags[m].version[2] \in Nat
          /\ tags[j].version[1] \in Nat /\ tags[j].version[2] \in Nat
      BY TagFields
    <3>2. CASE j = m
      BY <3>1, <3>2 DEF Earlier
    <3>3. CASE j < m
      <4>1. Earlier(tags[j].version, tags[m].version)
        BY <3>3 DEF TagsFollowMain
      <4> QED BY <3>1, <4>1 DEF Earlier
    <3>4. j \in Int /\ m \in Int /\ j <= m
      BY <2>1, <2>2
    <3> QED BY <3>2, <3>3, <3>4
  <2>4. \E v \in page : \A w \in page : ~Earlier(v, w)
    BY <1>1, <2>2, <2>3
  <2>5. Latest(page) \in page
    BY <1>3, <2>4 DEF Latest
  <2> QED BY <1>1, <2>5 DEF Taken
<1> QED BY <1>2, <1>3

\* One more than a version that is taken, or the first of a series, is later
\* than every tag unless it is taken itself.
LEMMA NewVersionLater ==
  ASSUME RepoTypeOK, TagInv, series \in Nat \ {0},
         NEW v, v = NoVersion \/ Taken(v), ~Taken(VersionFor(v, series))
  PROVE  LET new == VersionFor(v, series)
         IN  /\ new \in Versions /\ new[1] = series
             /\ \A i \in DOMAIN tags : Earlier(tags[i].version, new)
             /\ \A k \in Nat : k < new[2] => Taken(<<series, k>>)
<1> DEFINE new == VersionFor(v, series)
<1>0. v \in Versions /\ v[1] \in Nat /\ v[2] \in Nat
  <2>1. CASE v = NoVersion
    BY <2>1 DEF NoVersion, Versions
  <2>2. CASE Taken(v)
    BY <2>2, TagFields DEF Taken
  <2> QED BY <2>1, <2>2
<1>1. CASE v[1] # series
  <2>1. new = <<series, 0>>
    BY <1>1 DEF VersionFor
  <2>2. \A i \in DOMAIN tags : tags[i].version[1] < series
    <3> SUFFICES ASSUME NEW i \in DOMAIN tags, ~(tags[i].version[1] < series) PROVE FALSE
      OBVIOUS
    <3>1. tags[i].version[1] \in 1 .. series
      BY DEF TagInv, TagsDense
    <3>2. tags[i].version[1] = series
      BY <3>1
    <3>3. tags[i].version \in Versions /\ tags[i].version[2] \in Nat
      BY TagFields
    <3>4. CASE tags[i].version[2] = 0
      <4>1. tags[i].version = <<series, 0>>
        BY <3>2, <3>3, <3>4 DEF Versions
      <4> QED BY <2>1, <4>1 DEF Taken
    <3>5. CASE 0 < tags[i].version[2]
      <4>1. Taken(<<tags[i].version[1], 0>>)
        BY <3>5 DEF TagInv, TagsDense
      <4> QED BY <2>1, <3>2, <4>1
    <3> QED BY <3>3, <3>4, <3>5
  <2>3. new \in Versions /\ new[1] = series /\ new[2] = 0
    BY <2>1 DEF Versions
  <2> QED BY <2>2, <2>3 DEF Earlier
<1>2. CASE v[1] = series
  <2>1. new = <<series, v[2] + 1>>
    BY <1>2 DEF VersionFor
  <2>2. new \in Versions /\ new[1] = series /\ new[2] = v[2] + 1
    BY <1>0, <2>1 DEF Versions
  <2>3. v # NoVersion
    BY <1>2 DEF NoVersion
  <2>4. PICK t \in DOMAIN tags : tags[t].version = v
    BY <2>3 DEF Taken
  <2>5. \A k \in Nat : k < new[2] => Taken(<<series, k>>)
    <3> SUFFICES ASSUME NEW k \in Nat, k < v[2] + 1 PROVE Taken(<<series, k>>)
      BY <2>2
    <3>1. CASE k < v[2]
      BY <1>2, <2>4, <3>1 DEF TagInv, TagsDense
    <3>2. CASE k = v[2]
      <4>1. tags[t].version = <<series, k>>
        BY <1>0, <1>2, <2>4, <3>2 DEF Versions
      <4> QED BY <4>1 DEF Taken
    <3> QED BY <1>0, <3>1, <3>2
  <2>6. \A i \in DOMAIN tags : Earlier(tags[i].version, new)
    <3> SUFFICES ASSUME NEW i \in DOMAIN tags PROVE Earlier(tags[i].version, new)
      OBVIOUS
    <3>1. tags[i].version[1] \in 1 .. series /\ tags[i].version \in Versions
          /\ tags[i].version[2] \in Nat
      BY TagFields DEF TagInv, TagsDense
    <3>2. CASE tags[i].version[1] < series
      BY <2>2, <3>2 DEF Earlier
    <3>3. CASE tags[i].version[1] = series
      <4>1. tags[i].version # new
        BY DEF Taken
      <4>2. tags[i].version[2] # v[2] + 1
        BY <2>1, <3>1, <3>3, <4>1 DEF Versions
      <4>3. ~(v[2] + 1 < tags[i].version[2])
        <5> SUFFICES ASSUME v[2] + 1 < tags[i].version[2] PROVE FALSE
          OBVIOUS
        <5>1. Taken(<<series, v[2] + 1>>)
          BY <1>0, <3>3 DEF TagInv, TagsDense
        <5> QED BY <2>1, <5>1
      <4> QED BY <1>0, <2>2, <3>1, <3>3, <4>2, <4>3 DEF Earlier
    <3> QED BY <3>1, <3>2, <3>3
  <2> QED BY <2>2, <2>5, <2>6
<1> QED BY <1>1, <1>2

-----------------------------------------------------------------------------
\* What a step may do to main and the crowns, and to the tags.

\* A step crowns a bundle, merges the one that was just crowned, or does neither.
CrownStep ==
  /\ pc # "merge" /\ pc' = "merge" /\ main' = main
  /\ subject' \in Bundles /\ reigns' = Append(reigns, subject')

MergeStep ==
  /\ pc = "merge" /\ pc' # "merge" /\ reigns' = reigns
  /\ main' = Append(main, PullOf(subject))

NeitherStep ==
  /\ main' = main /\ reigns' = reigns
  /\ pc' = "merge" => pc = "merge" /\ subject' = subject

\* Of the steps, only Crown touches the crowns and only a merge main.
LEMMA CrownsAndMerges ==
  ASSUME [Next]_vars
  PROVE  CrownStep \/ MergeStep \/ NeitherStep
<1> USE DEF CrownStep, MergeStep, NeitherStep
<1>1. ASSUME NEW b \in Bundles, RequestNonce(b), UNCHANGED validator PROVE CrownStep \/ MergeStep \/ NeitherStep
  BY <1>1 DEF RequestNonce, StartRun, Advance, repo, validator
<1>2. ASSUME NEW b \in Bundles, RequestFails(b), UNCHANGED validator PROVE CrownStep \/ MergeStep \/ NeitherStep
  BY <1>2 DEF RequestFails, StartRun, Advance, repo, validator
<1>3. ASSUME NEW b \in Bundles, Prove(b), UNCHANGED validator PROVE CrownStep \/ MergeStep \/ NeitherStep
  BY <1>3 DEF Prove, Advance, repo, validator
<1>4. ASSUME NEW b \in Bundles, OpenRecipePull(b), UNCHANGED validator PROVE CrownStep \/ MergeStep \/ NeitherStep
  BY <1>4 DEF OpenRecipePull, Advance, OpenPull, validator
<1>5. ASSUME NEW b \in Bundles, NoRecipePull(b), UNCHANGED validator PROVE CrownStep \/ MergeStep \/ NeitherStep
  BY <1>5 DEF NoRecipePull, Advance, OpenPull, repo, validator
<1>6. ASSUME NEW b \in Bundles, UploadBundle(b), UNCHANGED validator PROVE CrownStep \/ MergeStep \/ NeitherStep
  BY <1>6 DEF UploadBundle, Advance, repo, validator
<1>7. ASSUME NEW b \in Bundles, RunFails(b), UNCHANGED validator PROVE CrownStep \/ MergeStep \/ NeitherStep
  BY <1>7 DEF RunFails, Running, repo, validator
<1>8. ASSUME NEW b \in Bundles, Reject(b) PROVE CrownStep \/ MergeStep \/ NeitherStep
  BY <1>8 DEF Reject, Take, Step, repo
<1>9. ASSUME NEW b \in Bundles, Lose(b) PROVE CrownStep \/ MergeStep \/ NeitherStep
  BY <1>9 DEF Lose, Take, Step, repo
<1>10. ASSUME NEW b \in Bundles, Crown(b) PROVE CrownStep \/ MergeStep \/ NeitherStep
  BY <1>10 DEF Crown, Take, Step, repo
<1>11. CASE MergeRecipePull
  BY <1>11 DEF MergeRecipePull, Publishing, Step, MergePull, PullOf
<1>12. CASE MergeFails
  BY <1>12 DEF MergeFails, Publishing, Step, MergePull, PullOf, repo
<1>13. CASE TagRecipe
  BY <1>13 DEF TagRecipe, Publishing, Step, CreateTag
<1>14. CASE TagRefused
  BY <1>14 DEF TagRefused, Publishing, Step, repo
<1>15. CASE TagLost
  BY <1>15 DEF TagLost, Publishing, Step, CreateTag, repo
<1>16. CASE Release
  BY <1>16 DEF Release, Publishing, Step, PublishRelease
<1>17. CASE ReleaseFails
  BY <1>17 DEF ReleaseFails, Publishing, Step, PublishRelease, repo
<1>18. CASE MergeHubPull
  BY <1>18 DEF MergeHubPull, Settling, Step, repo
<1>19. CASE CloseHubPull
  BY <1>19 DEF CloseHubPull, Settling, Step, repo
<1>20. CASE CloseRecipePull
  BY <1>20 DEF CloseRecipePull, Settling, Step, ClosePull, repo
<1>21. CASE ArchiveBundle
  BY <1>21 DEF ArchiveBundle, Step, Archive, repo
<1>22. CASE CrashValidator
  BY <1>22 DEF CrashValidator, repo
<1>23. CASE Cutover
  BY <1>23 DEF Cutover, repo
<1>25. ASSUME NEW b \in Bundles, NameAnotherPull(b), UNCHANGED validator PROVE CrownStep \/ MergeStep \/ NeitherStep
  BY <1>25 DEF NameAnotherPull, Advance, repo, validator
<1>24. CASE UNCHANGED vars
  BY <1>24 DEF vars, repo, validator
<1> QED BY <1>1, <1>2, <1>3, <1>4, <1>5, <1>6, <1>7, <1>8, <1>9, <1>10, <1>11, <1>12, <1>13,
           <1>14, <1>15, <1>16, <1>17, <1>18, <1>19, <1>20, <1>21, <1>22, <1>23, <1>24,
           <1>25
       DEF Next, MinerStep, ValidatorStep

\* A step makes a tag, leaves the commit it merged to be tagged, or does neither;
\* a cutover opens a series.
TagStep ==
  /\ pc = "tag" /\ pc' # "tag" /\ main' = main /\ series' = series
  /\ \E v : /\ v = NoVersion \/ \E page \in TagPages : v = Latest(page)
            /\ CreateTag(VersionFor(v, series))

NoTagStep ==
  /\ tags' = tags
  /\ series' = series \/ series' = series + 1
  /\ \/ main' = main /\ (pc' = "tag" => pc = "tag")
     \/ main' = Append(main, PullOf(subject)) /\ pc = "merge"

\* Tags are made by CreateTag alone, of a version computed from a page.
LEMMA TagsMade ==
  ASSUME [Next]_vars
  PROVE  TagStep \/ NoTagStep
<1> USE DEF TagStep, NoTagStep
<1>1. ASSUME NEW b \in Bundles, RequestNonce(b), UNCHANGED validator PROVE TagStep \/ NoTagStep
  BY <1>1 DEF RequestNonce, StartRun, Advance, repo, validator
<1>2. ASSUME NEW b \in Bundles, RequestFails(b), UNCHANGED validator PROVE TagStep \/ NoTagStep
  BY <1>2 DEF RequestFails, StartRun, Advance, repo, validator
<1>3. ASSUME NEW b \in Bundles, Prove(b), UNCHANGED validator PROVE TagStep \/ NoTagStep
  BY <1>3 DEF Prove, Advance, repo, validator
<1>4. ASSUME NEW b \in Bundles, OpenRecipePull(b), UNCHANGED validator PROVE TagStep \/ NoTagStep
  BY <1>4 DEF OpenRecipePull, Advance, OpenPull, validator
<1>5. ASSUME NEW b \in Bundles, NoRecipePull(b), UNCHANGED validator PROVE TagStep \/ NoTagStep
  BY <1>5 DEF NoRecipePull, Advance, OpenPull, repo, validator
<1>6. ASSUME NEW b \in Bundles, UploadBundle(b), UNCHANGED validator PROVE TagStep \/ NoTagStep
  BY <1>6 DEF UploadBundle, Advance, repo, validator
<1>7. ASSUME NEW b \in Bundles, RunFails(b), UNCHANGED validator PROVE TagStep \/ NoTagStep
  BY <1>7 DEF RunFails, Running, repo, validator
<1>8. ASSUME NEW b \in Bundles, Reject(b) PROVE TagStep \/ NoTagStep
  BY <1>8 DEF Reject, Take, Step, repo
<1>9. ASSUME NEW b \in Bundles, Lose(b) PROVE TagStep \/ NoTagStep
  BY <1>9 DEF Lose, Take, Step, repo
<1>10. ASSUME NEW b \in Bundles, Crown(b) PROVE TagStep \/ NoTagStep
  BY <1>10 DEF Crown, Take, Step, repo
<1>11. CASE MergeRecipePull
  BY <1>11 DEF MergeRecipePull, Publishing, Step, MergePull, PullOf
<1>12. CASE MergeFails
  BY <1>12 DEF MergeFails, Publishing, Step, MergePull, PullOf, repo
<1>13. CASE TagRecipe
  BY <1>13 DEF TagRecipe, Publishing, Step, CreateTag
<1>14. CASE TagRefused
  BY <1>14 DEF TagRefused, Publishing, Step, repo
<1>15. CASE TagLost
  BY <1>15 DEF TagLost, Publishing, Step, CreateTag, repo
<1>16. CASE Release
  BY <1>16 DEF Release, Publishing, Step, PublishRelease
<1>17. CASE ReleaseFails
  BY <1>17 DEF ReleaseFails, Publishing, Step, PublishRelease, repo
<1>18. CASE MergeHubPull
  BY <1>18 DEF MergeHubPull, Settling, Step, repo
<1>19. CASE CloseHubPull
  BY <1>19 DEF CloseHubPull, Settling, Step, repo
<1>20. CASE CloseRecipePull
  BY <1>20 DEF CloseRecipePull, Settling, Step, ClosePull, repo
<1>21. CASE ArchiveBundle
  BY <1>21 DEF ArchiveBundle, Step, Archive, repo
<1>22. CASE CrashValidator
  BY <1>22 DEF CrashValidator, repo
<1>23. CASE Cutover
  BY <1>23 DEF Cutover, repo
<1>25. ASSUME NEW b \in Bundles, NameAnotherPull(b), UNCHANGED validator PROVE TagStep \/ NoTagStep
  BY <1>25 DEF NameAnotherPull, Advance, repo, validator
<1>24. CASE UNCHANGED vars
  BY <1>24 DEF vars, repo, validator
<1> QED BY <1>1, <1>2, <1>3, <1>4, <1>5, <1>6, <1>7, <1>8, <1>9, <1>10, <1>11, <1>12, <1>13,
           <1>14, <1>15, <1>16, <1>17, <1>18, <1>19, <1>20, <1>21, <1>22, <1>23, <1>24,
           <1>25
       DEF Next, MinerStep, ValidatorStep

-----------------------------------------------------------------------------
\* The pull request a king is merged by is its own.
LEMMA NamedPull ==
  ASSUME PublicationTypeOK, RunInv, pc = "merge"
  PROVE  PullOf(subject) = subject /\ subject \in Bundles
  BY DEF PublicationTypeOK, ValidatorTypeOK, RunInv, PullOf

-----------------------------------------------------------------------------
\* Types.

\* Initially everything is well-typed.
LEMMA PublicationTypeInit == Init => PublicationTypeOK
<1> SUFFICES ASSUME Init PROVE PublicationTypeOK
  OBVIOUS
<1>1. RepoTypeOK
  <2>1. tags = [i \in 1 .. OldTags |-> [version |-> <<1, i - 1>>, commit |-> i - OldTags]]
    BY DEF Init, RepoInit
  <2>2. \A i \in 1 .. OldTags :
          [version |-> <<1, i - 1>>, commit |-> i - OldTags] \in [version : Versions, commit : Int]
    BY RepoAssumption DEF Versions
  <2>3. tags \in Seq([version : Versions, commit : Int])
    BY <2>1, <2>2, RepoAssumption, SeqDef
  <2> QED BY <2>3, EmptySeq DEF Init, RepoInit, RepoTypeOK, PullStates
<1>2. MinerTypeOK
  <2>1. Len(main) = 0
    BY EmptySeq DEF Init, RepoInit
  <2> QED BY <2>1 DEF Init, MinerInit, MinerTypeOK, Stages, PullStates
<1>3. ValidatorTypeOK
  BY EmptySeq DEF Init, ValidatorTypeOK, Steps, Versions, NoVersion
<1> QED BY <1>1, <1>2, <1>3 DEF PublicationTypeOK

\* A version that may be tagged is a version.
LEMMA PagedVersion ==
  ASSUME PublicationTypeOK, TagInv, NEW page \in TagPages
  PROVE  /\ VersionFor(Latest(page), series) \in Versions
         /\ VersionFor(NoVersion, series) \in Versions
<1>1. Latest(page) \in Versions
  <2>1. CASE Latest(page) = NoVersion
    BY <2>1 DEF NoVersion, Versions
  <2>2. CASE Taken(Latest(page))
    BY <2>2, TagFields DEF Taken, PublicationTypeOK
  <2> QED BY <2>1, <2>2, LatestTaken DEF PublicationTypeOK, TagInv
<1> QED BY <1>1 DEF VersionFor, Versions, NoVersion, PublicationTypeOK, ValidatorTypeOK

\* main, the crowns and the tags stay sequences of what they hold.
LEMMA SequencesKept ==
  ASSUME PublicationTypeOK, TagInv, RunInv, [Next]_vars
  PROVE  /\ main' \in Seq(Bundles) /\ reigns' \in Seq(Bundles)
         /\ Len(main') \in {Len(main), Len(main) + 1}
         /\ tags' \in Seq([version : Versions, commit : Int])
<1> USE DEF PublicationTypeOK, RepoTypeOK, ValidatorTypeOK
<1>1. /\ main' \in Seq(Bundles) /\ reigns' \in Seq(Bundles)
      /\ Len(main') \in {Len(main), Len(main) + 1}
  <2>1. CASE CrownStep
    BY <2>1, AppendProperties DEF CrownStep
  <2>2. CASE MergeStep
    BY <2>2, NamedPull, AppendProperties DEF MergeStep
  <2>3. CASE NeitherStep
    BY <2>3 DEF NeitherStep
  <2> QED BY <2>1, <2>2, <2>3, CrownsAndMerges
<1>2. tags' \in Seq([version : Versions, commit : Int])
  <2>1. CASE TagStep
    <3>1. PICK v : /\ v = NoVersion \/ \E page \in TagPages : v = Latest(page)
                   /\ CreateTag(VersionFor(v, series))
      BY <2>1 DEF TagStep
    <3>2. v = NoVersion \/ Taken(v)
      BY <3>1, LatestTaken DEF TagInv
    <3>3. VersionFor(v, series) \in Versions
      BY <3>1, <3>2, NewVersionLater DEF CreateTag
    <3>4. [version |-> VersionFor(v, series), commit |-> Len(main)]
            \in [version : Versions, commit : Int]
      BY <3>3, TagFields
    <3> QED BY <3>1, <3>4, AppendProperties DEF CreateTag
  <2>2. CASE NoTagStep
    BY <2>2 DEF NoTagStep
  <2> QED BY <2>1, <2>2, TagsMade
<1> QED BY <1>1, <1>2

\* Every step keeps the types: one step of the proof per action.
LEMMA PublicationTypeNext ==
  ASSUME PublicationTypeOK, TagInv, RunInv, [Next]_vars
  PROVE  PublicationTypeOK'
<1>0. /\ main' \in Seq(Bundles) /\ reigns' \in Seq(Bundles)
      /\ Len(main) \in Nat /\ Len(main') \in Nat /\ Len(main) <= Len(main')
      /\ tags' \in Seq([version : Versions, commit : Int])
      /\ image \in Nat /\ image <= Len(main) /\ image \in 0 .. Len(main')
  <2>1. Len(main) \in Nat
    BY TagFields DEF PublicationTypeOK
  <2>2. image \in 0 .. Len(main)
    BY DEF PublicationTypeOK, MinerTypeOK
  <2> QED BY <2>1, <2>2, SequencesKept
<1> USE RepoAssumption, MinerAssumption
    DEF PublicationTypeOK, RepoTypeOK, MinerTypeOK, ValidatorTypeOK, PullStates, Stages, Steps, Closing
<1>1. ASSUME NEW b \in Bundles, RequestNonce(b), UNCHANGED validator PROVE PublicationTypeOK'
  <2>1. stage' \in [Bundles -> Stages] /\ troubled' \subseteq Bundles
    BY <1>1 DEF RequestNonce, StartRun, Advance, Trouble, NoTrouble
  <2>2. slot' \in [{Owner[c] : c \in Bundles} -> Bundles \union {Nothing}]
    BY <1>1 DEF RequestNonce, Commit
  <2> QED BY <1>0, <1>1, <2>1, <2>2 DEF RequestNonce, StartRun, Advance, repo, validator
<1>2. ASSUME NEW b \in Bundles, RequestFails(b), UNCHANGED validator PROVE PublicationTypeOK'
  <2>1. stage' \in [Bundles -> Stages] /\ troubled' \subseteq Bundles
    BY <1>2 DEF RequestFails, StartRun, Advance, Trouble
  <2>2. slot' \in [{Owner[c] : c \in Bundles} -> Bundles \union {Nothing}]
    BY <1>2 DEF RequestFails, Commit
  <2> QED BY <1>0, <1>2, <2>1, <2>2 DEF RequestFails, StartRun, Advance, repo, validator
<1>3. ASSUME NEW b \in Bundles, Prove(b), UNCHANGED validator PROVE PublicationTypeOK'
  <2>1. stage' \in [Bundles -> Stages] /\ measured' \in [Bundles -> Nat]
    BY <1>0, <1>3 DEF Prove, Advance
  <2> QED BY <1>0, <1>3, <2>1 DEF Prove, Advance, NoTrouble, repo, validator
<1>4. ASSUME NEW b \in Bundles, OpenRecipePull(b), UNCHANGED validator PROVE PublicationTypeOK'
  BY <1>0, <1>4 DEF OpenRecipePull, Advance, NoTrouble, OpenPull, validator
<1>5. ASSUME NEW b \in Bundles, NoRecipePull(b), UNCHANGED validator PROVE PublicationTypeOK'
  <2>1. pull' \in [Bundles -> PullStates] /\ main' = main
    <3>1. /\ pull' = pull \/ pull' = [pull EXCEPT ![b] = "open"]
          /\ main' = main /\ b \in Bundles
      BY <1>5 DEF NoRecipePull, OpenPull, repo
    <3>2. CASE pull' = pull
      BY <3>1, <3>2
    <3>3. CASE pull' = [pull EXCEPT ![b] = "open"]
      BY <3>1, <3>3
    <3> QED BY <3>1, <3>2, <3>3
  <2>2. stage' \in [Bundles -> Stages] /\ troubled' \subseteq Bundles
    BY <1>5 DEF NoRecipePull, Advance, Trouble, NoTrouble
  <2> QED BY <1>0, <1>5, <2>1, <2>2 DEF NoRecipePull, Advance, validator
<1>6. ASSUME NEW b \in Bundles, UploadBundle(b), UNCHANGED validator PROVE PublicationTypeOK'
  BY <1>0, <1>6 DEF UploadBundle, Advance, NoTrouble, repo, validator
<1>7. ASSUME NEW b \in Bundles, RunFails(b), UNCHANGED validator PROVE PublicationTypeOK'
  <2>1. stage' \in [Bundles -> Stages] /\ troubled' \subseteq Bundles
    BY <1>7 DEF RunFails, Trouble
  <2>2. hub' = hub \/ hub' = [hub EXCEPT ![b] = "open"]
    BY <1>7 DEF RunFails
  <2>3. hub' \in [Bundles -> PullStates]
    BY <2>2
  <2> QED BY <1>0, <1>7, <2>1, <2>3 DEF RunFails, repo, validator
<1>8. ASSUME NEW b \in Bundles, Reject(b) PROVE PublicationTypeOK'
  BY <1>0, <1>8 DEF Reject, Take, Step, Trouble, NoTrouble, repo
<1>9. ASSUME NEW b \in Bundles, Lose(b) PROVE PublicationTypeOK'
  BY <1>0, <1>9 DEF Lose, Take, Step, NoTrouble, repo
<1>10. ASSUME NEW b \in Bundles, Crown(b) PROVE PublicationTypeOK'
  BY <1>0, <1>10 DEF Crown, Take, Step, NoTrouble, repo
<1>11. CASE MergeRecipePull
  BY <1>0, <1>11 DEF MergeRecipePull, Publishing, Step, NoTrouble, MergePull, PullOf
<1>12. CASE MergeFails
  <2>1. pull' = pull \/ pull' = [pull EXCEPT ![PullOf(subject)] = "merged"]
    BY <1>12 DEF MergeFails, MergePull, repo
  <2>2. pull' \in [Bundles -> PullStates]
    BY <2>1
  <2>3. troubled' \subseteq Bundles
    BY <1>12 DEF MergeFails, Publishing, Step, Trouble, NoTrouble
  <2>4. ValidatorTypeOK'
    BY <1>0, <1>12 DEF MergeFails, Publishing, Step
  <2>5. image' = image
    BY <1>12 DEF MergeFails, Publishing, Step
  <2>6. image' \in 0 .. Len(main')
    BY <1>0, <2>5
  <2> QED BY <1>0, <1>12, <2>2, <2>3, <2>4, <2>6 DEF MergeFails, Publishing, Step
<1>13. CASE TagRecipe
  BY <1>0, <1>13, PagedVersion DEF TagRecipe, Publishing, Step, Trouble, NoTrouble, CreateTag
<1>14. CASE TagRefused
  BY <1>0, <1>14 DEF TagRefused, Publishing, Step, Trouble, NoTrouble, repo
<1>15. CASE TagLost
  <2>1. troubled' \subseteq Bundles /\ UNCHANGED <<pull, main, version>>
    BY <1>15 DEF TagLost, Publishing, Step, Trouble, CreateTag, repo
  <2> QED BY <1>0, <1>15, <2>1 DEF TagLost, Publishing, Step
<1>16. CASE Release
  BY <1>0, <1>16 DEF Release, Publishing, Step, NoTrouble, PublishRelease, NoVersion, Versions
<1>17. CASE ReleaseFails
  <2>1. troubled' \subseteq Bundles /\ UNCHANGED <<pull, main>> /\ version' \in Versions
    BY <1>17 DEF ReleaseFails, Publishing, Step, Trouble, PublishRelease, repo, NoVersion, Versions
  <2> QED BY <1>0, <1>17, <2>1 DEF ReleaseFails, Publishing, Step
<1>18. CASE MergeHubPull
  <2>1. hub' = hub \/ \E state \in PullStates : hub' = [hub EXCEPT ![subject] = state]
    BY <1>18 DEF MergeHubPull, SettleHub
  <2>2. hub' \in [Bundles -> PullStates]
    BY <2>1
  <2>3. troubled' = troubled \/ troubled' = troubled \union {subject}
    BY <1>18 DEF MergeHubPull, SettleHub, Trouble, NoTrouble
  <2> QED BY <1>0, <1>18, <2>2, <2>3 DEF MergeHubPull, Settling, Step, repo
<1>19. CASE CloseHubPull
  <2>1. hub' = hub \/ \E state \in PullStates : hub' = [hub EXCEPT ![subject] = state]
    BY <1>19 DEF CloseHubPull, SettleHub
  <2>2. hub' \in [Bundles -> PullStates]
    BY <2>1
  <2>3. troubled' \subseteq Bundles
    BY <1>19 DEF CloseHubPull, Settling, Step, SettleHub, Trouble, NoTrouble
  <2>4. ValidatorTypeOK'
    BY <1>0, <1>19 DEF CloseHubPull, Settling, Step
  <2>5. UNCHANGED <<pull, main, tags, image, stage, slot, measured, url>>
    BY <1>19 DEF CloseHubPull, Settling, Step, repo
  <2> QED BY <1>0, <2>2, <2>3, <2>4, <2>5
<1>20. CASE CloseRecipePull
  <2>0. /\ subject \in Bundles
        /\ pc' \in Steps /\ UNCHANGED <<main, tags, releases, hub, verdict, subject, version, king, events, reigns>>
        /\ UNCHANGED <<image, stage, slot, measured, url, series>>
    BY <1>20 DEF CloseRecipePull, Settling, Step, ClosePull, repo
  <2> DEFINE named == PullOf(subject)
  <2>1. \/ pull' = pull
        \/ named # Nothing /\ pull' = [pull EXCEPT ![named] = IF @ = "open" THEN "closed" ELSE @]
    BY <1>20 DEF CloseRecipePull, ClosePull, PullOf, repo
  <2>2. named # Nothing => named \in Bundles
    BY <2>0 DEF PullOf
  <2>3. pull' \in [Bundles -> PullStates]
    <3>1. CASE pull' = pull
      BY <3>1
    <3>2. CASE pull' # pull
      <4>1. named \in Bundles /\ pull[named] \in PullStates
        BY <2>1, <2>2, <3>2
      <4>2. PICK state \in PullStates : pull' = [pull EXCEPT ![named] = state]
        BY <2>1, <3>2, <4>1
      <4> QED BY <4>1, <4>2
    <3> QED BY <3>1, <3>2
  <2>4. troubled' = troubled \/ troubled' = troubled \union {subject}
    BY <1>20 DEF CloseRecipePull, Trouble, NoTrouble
  <2> QED BY <1>0, <2>0, <2>3, <2>4
<1>21. CASE ArchiveBundle
  <2>1. /\ \E to \in {"scored", "rejected"} : verdict' = [verdict EXCEPT ![subject] = to]
        /\ pc' = "idle" /\ UNCHANGED <<image, stage, slot, measured, url, series, repo, hub, version, reigns, troubled>>
    BY <1>21 DEF ArchiveBundle, Step, Archive, NoTrouble
  <2>2. verdict' \in [Bundles -> {"pending", "scored", "rejected"}]
    BY <2>1
  <2> QED BY <1>0, <2>1, <2>2 DEF repo
<1>22. CASE CrashValidator
  BY <1>0, <1>22 DEF CrashValidator, Trouble, repo, miner, NoVersion, Versions
<1>23. CASE Cutover
  BY <1>0, <1>23 DEF Cutover, repo, miner
<1>25. ASSUME NEW b \in Bundles, NameAnotherPull(b), UNCHANGED validator PROVE PublicationTypeOK'
  <2>1. stage' \in [Bundles -> Stages]
    BY <1>25 DEF NameAnotherPull, Advance
  <2>2. PICK d \in Bundles : url' = [url EXCEPT ![b] = d]
    BY <1>25 DEF NameAnotherPull
  <2>3. url' \in [Bundles -> Bundles \union {Nothing}]
    BY <2>2
  <2> QED BY <1>0, <1>25, <2>1, <2>3 DEF NameAnotherPull, Advance, NoTrouble, repo, validator
<1>24. CASE UNCHANGED vars
  BY <1>24 DEF vars, repo, miner, validator
<1> QED BY <1>1, <1>2, <1>3, <1>4, <1>5, <1>6, <1>7, <1>8, <1>9, <1>10, <1>11, <1>12, <1>13,
           <1>14, <1>15, <1>16, <1>17, <1>18, <1>19, <1>20, <1>21, <1>22, <1>23, <1>24,
           <1>25
       DEF Next, MinerStep, ValidatorStep

-----------------------------------------------------------------------------
\* main and the crowns.

\* A wider range of crowns will do as well.
LEMMA FollowsMore ==
  ASSUME NEW m \in Nat, NEW n \in Nat, m <= n, Follows(m)
  PROVE  Follows(n)
<1>1. PICK at \in [DOMAIN main -> 1 .. m] :
        /\ \A i \in DOMAIN main : reigns[at[i]] = main[i]
        /\ \A i, j \in DOMAIN main : i < j => at[i] < at[j]
  BY DEF Follows
<1>2. at \in [DOMAIN main -> 1 .. n]
  BY <1>1
<1> QED BY <1>1, <1>2 DEF Follows

\* A merge appends the last crown to main; no other step spoils the order.
LEMMA MergeNext ==
  ASSUME PublicationTypeOK, MergeInv, RunInv, [Next]_vars
  PROVE  MergeInv'
<1> DEFINE n == IF pc = "merge" THEN Len(reigns) - 1 ELSE Len(reigns)
<1>1. /\ main \in Seq(Bundles) /\ reigns \in Seq(Bundles)
      /\ Len(main) \in Nat /\ DOMAIN main = 1 .. Len(main)
      /\ Len(reigns) \in Nat /\ DOMAIN reigns = 1 .. Len(reigns)
      /\ pc = "merge" => subject \in Bundles /\ Len(reigns) > 0
  <2>1. main \in Seq(Bundles) /\ reigns \in Seq(Bundles)
    BY DEF PublicationTypeOK, RepoTypeOK, ValidatorTypeOK
  <2>2. pc = "merge" => subject \in Bundles /\ reigns # <<>>
    BY DEF PublicationTypeOK, ValidatorTypeOK, MergeInv, Awaited
  <2> QED BY <2>1, <2>2, LenProperties, EmptySeq
<1>2. n \in Nat /\ n <= Len(reigns)
  BY <1>1
<1>3. PICK at \in [DOMAIN main -> 1 .. n] :
        /\ \A i \in DOMAIN main : reigns[at[i]] = main[i]
        /\ \A i, j \in DOMAIN main : i < j => at[i] < at[j]
  BY DEF MergeInv, Follows
<1>4. CASE CrownStep
  <2>1. /\ Len(reigns') = Len(reigns) + 1 /\ reigns' # <<>>
        /\ \A i \in 1 .. Len(reigns) : reigns'[i] = reigns[i]
        /\ reigns'[Len(reigns')] = subject'
    BY <1>1, <1>4, AppendProperties, EmptySeq DEF CrownStep
  <2>2. n = Len(reigns) /\ Len(reigns') - 1 = n
    BY <1>1, <1>4, <2>1 DEF CrownStep
  <2>3. \A i \in DOMAIN main : at[i] \in 1 .. Len(reigns) /\ reigns'[at[i]] = main[i]
    BY <1>3, <2>1, <2>2
  <2>4. Follows(Len(reigns) - 1)'
    <3>1. main' = main /\ Len(reigns') - 1 = n
      BY <1>1, <1>4, <2>1, <2>2 DEF CrownStep
    <3>2. at \in [DOMAIN main' -> 1 .. Len(reigns') - 1]
      BY <1>3, <3>1
    <3> QED BY <1>3, <2>3, <3>1, <3>2 DEF Follows
  <2> QED BY <1>4, <2>1, <2>4 DEF MergeInv, Awaited, CrownStep
<1>5. CASE MergeStep
  <2> DEFINE more == [i \in 1 .. Len(main) + 1 |-> IF i <= Len(main) THEN at[i] ELSE Len(reigns)]
  <2>1. /\ Len(main') = Len(main) + 1 /\ DOMAIN main' = 1 .. Len(main) + 1
        /\ \A i \in 1 .. Len(main) : main'[i] = main[i]
        /\ main'[Len(main) + 1] = subject
    <3>1. main' \in Seq(Bundles) /\ main' = Append(main, subject) /\ subject \in Bundles
      BY <1>1, <1>5, NamedPull, AppendProperties DEF MergeStep
    <3> QED BY <1>1, <3>1, AppendProperties, LenProperties
  <2>2. n = Len(reigns) - 1 /\ reigns[Len(reigns)] = subject /\ reigns' = reigns /\ pc' # "merge"
    BY <1>5 DEF MergeInv, Awaited, MergeStep
  <2>3. \A i \in 1 .. Len(main) : at[i] \in 1 .. Len(reigns) - 1
    BY <1>1, <1>3, <2>2
  <2>4. more \in [DOMAIN main' -> 1 .. Len(reigns)]
    BY <1>1, <1>5, <2>1, <2>3 DEF MergeStep
  <2>5. \A i \in DOMAIN main' : reigns'[more[i]] = main'[i]
    <3> SUFFICES ASSUME NEW i \in DOMAIN main' PROVE reigns'[more[i]] = main'[i]
      OBVIOUS
    <3>1. CASE i <= Len(main)
      <4>1. i \in DOMAIN main /\ more[i] = at[i] /\ main'[i] = main[i]
        BY <1>1, <2>1, <3>1
      <4> QED BY <1>3, <2>2, <4>1
    <3>2. CASE i = Len(main) + 1
      <4>1. more[i] = Len(reigns)
        BY <1>1, <2>1, <3>2
      <4> QED BY <2>1, <2>2, <3>2, <4>1
    <3> QED BY <1>1, <2>1, <3>1, <3>2
  <2>6. \A i, j \in DOMAIN main' : i < j => more[i] < more[j]
    <3> SUFFICES ASSUME NEW i \in DOMAIN main', NEW j \in DOMAIN main', i < j
                 PROVE  more[i] < more[j]
      OBVIOUS
    <3>1. i \in DOMAIN main /\ more[i] = at[i] /\ at[i] < Len(reigns)
      BY <1>1, <2>1, <2>3
    <3>2. CASE j <= Len(main)
      <4>1. j \in DOMAIN main /\ more[j] = at[j]
        BY <1>1, <2>1, <3>2
      <4> QED BY <1>3, <3>1, <4>1
    <3>3. CASE j = Len(main) + 1
      <4>1. more[j] = Len(reigns)
        BY <1>1, <2>1, <3>3
      <4> QED BY <3>1, <4>1
    <3> QED BY <1>1, <2>1, <3>2, <3>3
  <2>7. Follows(Len(reigns))'
    BY <2>2, <2>4, <2>5, <2>6 DEF Follows
  <2> QED BY <2>2, <2>7 DEF MergeInv
<1>6. CASE NeitherStep
  <2>1. CASE pc' = "merge"
    <3>1. Awaited' /\ Follows(Len(reigns) - 1)'
      BY <1>6, <2>1 DEF NeitherStep, MergeInv, Awaited, Follows
    <3> QED BY <2>1, <3>1 DEF MergeInv
  <2>2. CASE pc' # "merge"
    <3>1. Follows(Len(reigns))
      BY <1>1, <1>2, FollowsMore DEF MergeInv
    <3>2. Follows(Len(reigns))'
      BY <1>6, <3>1 DEF NeitherStep, Follows
    <3> QED BY <2>2, <3>2 DEF MergeInv
  <2> QED BY <2>1, <2>2
<1> QED BY <1>4, <1>5, <1>6, CrownsAndMerges

\* Nothing is merged initially, and nobody was crowned.
LEMMA MergeInit == Init => MergeInv
<1> SUFFICES ASSUME Init PROVE MergeInv
  OBVIOUS
<1>1. /\ DOMAIN main = {} /\ Len(reigns) = 0 /\ pc # "merge"
  BY DEF Init, RepoInit
<1>2. [i \in {} |-> 0] \in [DOMAIN main -> 1 .. Len(reigns)]
  BY <1>1
<1> QED BY <1>1, <1>2 DEF MergeInv, Follows

\* What the invariant is for: main is a subsequence of all the crowns.
LEMMA FollowsReigns ==
  ASSUME PublicationTypeOK, MergeInv
  PROVE  MainFollowsReigns
<1>1. /\ Len(reigns) \in Nat /\ DOMAIN reigns = 1 .. Len(reigns)
      /\ pc = "merge" => Len(reigns) > 0
  <2>1. reigns \in Seq(Bundles)
    BY DEF PublicationTypeOK, ValidatorTypeOK
  <2>2. pc = "merge" => reigns # <<>>
    BY DEF MergeInv, Awaited
  <2> QED BY <2>1, <2>2, LenProperties, EmptySeq
<1>2. Follows(Len(reigns))
  <2>1. CASE pc = "merge"
    BY <1>1, <2>1, FollowsMore DEF MergeInv
  <2>2. CASE pc # "merge"
    BY <2>2 DEF MergeInv
  <2> QED BY <2>1, <2>2
<1> QED BY <1>1, <1>2 DEF Follows, MainFollowsReigns

-----------------------------------------------------------------------------
\* Tags.

\* A tag made is the latest, on a commit that had none; a merge leaves its commit
\* above all of them.
LEMMA TagNext ==
  ASSUME PublicationTypeOK, TagInv, RunInv, [Next]_vars
  PROVE  TagInv'
<1>1. RepoTypeOK /\ series \in Nat \ {0} /\ Len(tags) \in Nat /\ DOMAIN tags = 1 .. Len(tags)
  BY TagFields DEF PublicationTypeOK, ValidatorTypeOK
<1>2. Len(main) \in Nat
  BY TagFields DEF PublicationTypeOK
<1>3. CASE TagStep
  <2>1. PICK v : /\ v = NoVersion \/ \E page \in TagPages : v = Latest(page)
                 /\ CreateTag(VersionFor(v, series))
    BY <1>3 DEF TagStep
  <2> DEFINE new == VersionFor(v, series)
             tag == [version |-> new, commit |-> Len(main)]
  <2>2. v = NoVersion \/ Taken(v)
    BY <1>1, <2>1, LatestTaken DEF TagInv
  <2>3. /\ ~Taken(new) /\ new \in Versions /\ new[1] = series
        /\ \A i \in DOMAIN tags : Earlier(tags[i].version, new)
        /\ \A k \in Nat : k < new[2] => Taken(<<series, k>>)
    <3>1. ~Taken(new)
      BY <2>1 DEF CreateTag
    <3> QED BY <1>1, <2>2, <3>1, NewVersionLater
  <2>4. tag \in [version : Versions, commit : Int] /\ tags' = Append(tags, tag)
    BY <1>2, <2>1, <2>3 DEF CreateTag
  <2>5. /\ DOMAIN tags' = 1 .. Len(tags) + 1
        /\ \A i \in 1 .. Len(tags) : tags'[i] = tags[i]
        /\ tags'[Len(tags) + 1] = tag
    BY <1>1, <2>4, AppendProperties, LenProperties DEF RepoTypeOK
  <2>6. /\ main' = main /\ series' = series /\ pc = "tag" /\ pc' # "tag"
    BY <1>3 DEF TagStep
  <2>7. \A i \in DOMAIN tags : tags[i].commit < Len(main)
    BY <2>6 DEF TagInv, TagsReach
  <2>8. TagsFollowMain'
    <3> SUFFICES ASSUME NEW i \in DOMAIN tags', NEW j \in DOMAIN tags', i < j
                 PROVE  /\ Earlier(tags'[i].version, tags'[j].version)
                        /\ tags'[i].commit < tags'[j].commit
      BY DEF TagsFollowMain, Earlier
    <3>1. i \in DOMAIN tags /\ tags'[i] = tags[i]
      BY <1>1, <2>5
    <3>2. CASE j \in DOMAIN tags
      <4>1. tags'[j] = tags[j]
        BY <1>1, <2>5, <3>2
      <4> QED BY <3>1, <3>2, <4>1 DEF TagInv, TagsFollowMain
    <3>3. CASE j \notin DOMAIN tags
      <4>1. tags'[j] = tag
        BY <1>1, <2>5, <3>3
      <4> QED BY <2>3, <2>7, <3>1, <4>1
    <3> QED BY <3>2, <3>3
  <2>9. TagsReach'
    <3> SUFFICES ASSUME NEW i \in DOMAIN tags' PROVE tags'[i].commit <= Len(main)
      BY <2>6 DEF TagsReach
    <3>1. CASE i \in DOMAIN tags
      BY <1>1, <2>5, <3>1 DEF TagInv, TagsReach
    <3>2. CASE i \notin DOMAIN tags
      BY <1>1, <1>2, <2>5, <3>2
    <3> QED BY <3>1, <3>2
  <2>10. TagsDense'
    <3> SUFFICES ASSUME NEW i \in DOMAIN tags'
                 PROVE  /\ tags'[i].version[1] \in 1 .. series
                        /\ \A k \in Nat : k < tags'[i].version[2] =>
                             \E t \in DOMAIN tags' : tags'[t].version = <<tags'[i].version[1], k>>
      BY <2>6 DEF TagsDense, Taken
    <3>1. \A w : Taken(w) => \E t \in DOMAIN tags' : tags'[t].version = w
      BY <1>1, <2>5 DEF Taken
    <3>2. CASE i \in DOMAIN tags
      <4>1. tags'[i] = tags[i]
        BY <1>1, <2>5, <3>2
      <4> QED BY <3>1, <3>2, <4>1 DEF TagInv, TagsDense
    <3>3. CASE i \notin DOMAIN tags
      <4>1. tags'[i].version = new
        BY <1>1, <2>5, <3>3
      <4>2. series \in 1 .. series
        BY <1>1
      <4> QED BY <2>3, <3>1, <4>1, <4>2
    <3> QED BY <3>2, <3>3
  <2> QED BY <2>8, <2>9, <2>10 DEF TagInv
<1>4. CASE NoTagStep
  <2>1. tags' = tags /\ series' \in {series, series + 1}
    BY <1>4 DEF NoTagStep
  <2>2. TagsFollowMain'
    BY <2>1 DEF TagInv, TagsFollowMain
  <2>3. TagsDense'
    <3> SUFFICES ASSUME NEW i \in DOMAIN tags
                 PROVE  /\ tags[i].version[1] \in 1 .. series'
                        /\ \A k \in Nat : k < tags[i].version[2] =>
                             \E t \in DOMAIN tags : tags[t].version = <<tags[i].version[1], k>>
      BY <2>1 DEF TagsDense, Taken
    <3>1. /\ tags[i].version[1] \in 1 .. series
          /\ \A k \in Nat : k < tags[i].version[2] =>
               \E t \in DOMAIN tags : tags[t].version = <<tags[i].version[1], k>>
      BY DEF TagInv, TagsDense, Taken
    <3>2. \A x \in 1 .. series : x \in 1 .. series'
      BY <1>1, <2>1
    <3> QED BY <3>1, <3>2
  <2>4. TagsReach'
    <3>1. CASE main' = main /\ (pc' = "tag" => pc = "tag")
      BY <2>1, <3>1 DEF TagInv, TagsReach
    <3>2. CASE main' = Append(main, PullOf(subject)) /\ pc = "merge"
      <4>1. Len(main') = Len(main) + 1
        <5>1. PullOf(subject) \in Bundles /\ main \in Seq(Bundles)
          BY <3>2, NamedPull DEF PublicationTypeOK, RepoTypeOK
        <5> QED BY <3>2, <5>1, AppendProperties
      <4>2. \A i \in DOMAIN tags : tags[i].commit \in Int /\ tags[i].commit < Len(main')
        BY <1>1, <1>2, <4>1, TagFields DEF TagInv, TagsReach
      <4> QED BY <1>2, <2>1, <4>1, <4>2 DEF TagsReach
    <3> QED BY <1>4, <3>1, <3>2 DEF NoTagStep
  <2> QED BY <2>2, <2>3, <2>4 DEF TagInv
<1> QED BY <1>3, <1>4, TagsMade

\* The old tags go up along the old commits.
LEMMA TagInit == Init => TagInv
<1> SUFFICES ASSUME Init PROVE TagInv
  OBVIOUS
<1>1. /\ tags = [i \in 1 .. OldTags |-> [version |-> <<1, i - 1>>, commit |-> i - OldTags]]
      /\ Len(main) = 0 /\ pc # "tag" /\ series = 1 /\ OldTags \in Nat
  BY EmptySeq, RepoAssumption DEF Init, RepoInit
<1>2. /\ DOMAIN tags = 1 .. OldTags
      /\ \A i \in 1 .. OldTags : tags[i].version = <<1, i - 1>> /\ tags[i].commit = i - OldTags
  BY <1>1
<1>3. TagsFollowMain
  BY <1>1, <1>2 DEF TagsFollowMain, Earlier
<1>4. TagsReach
  BY <1>1, <1>2 DEF TagsReach
<1>5. TagsDense
  <2> SUFFICES ASSUME NEW i \in 1 .. OldTags
               PROVE  /\ tags[i].version[1] \in 1 .. series
                      /\ \A k \in Nat : k < tags[i].version[2] => Taken(<<tags[i].version[1], k>>)
    BY <1>2 DEF TagsDense
  <2>1. tags[i].version[1] = 1 /\ tags[i].version[2] = i - 1
    BY <1>2
  <2>2. ASSUME NEW k \in Nat, k < i - 1 PROVE Taken(<<1, k>>)
    <3>1. k + 1 \in 1 .. OldTags /\ tags[k + 1].version = <<1, k>>
      BY <1>1, <1>2, <2>2
    <3> QED BY <1>2, <3>1 DEF Taken
  <2> QED BY <1>1, <2>1, <2>2
<1> QED BY <1>3, <1>4, <1>5 DEF TagInv

-----------------------------------------------------------------------------
\* Runs, verdicts and what is left behind.

\* A run that is over stays so: one step of the proof per action.
LEMMA RunNext ==
  ASSUME PublicationTypeOK, RunInv, [Next]_vars
  PROVE  RunInv'
<1>0. /\ image \in Nat /\ Len(main) \in Nat /\ image <= Len(main)
      /\ stage \in [Bundles -> Stages] /\ hub \in [Bundles -> PullStates]
      /\ measured \in [Bundles -> Nat]
      /\ verdict \in [Bundles -> {"pending", "scored", "rejected"}]
  <2>1. Len(main) \in Nat
    BY TagFields DEF PublicationTypeOK
  <2> QED BY <2>1 DEF PublicationTypeOK, MinerTypeOK, ValidatorTypeOK
<1> USE DEF RunInv, RunOver, Stages, PullStates
<1>1. ASSUME NEW b \in Bundles, RequestNonce(b), UNCHANGED validator PROVE RunInv'
  BY <1>0, <1>1 DEF RequestNonce, StartRun, Advance, Running, Commit, Trouble, NoTrouble,
     repo, validator
<1>2. ASSUME NEW b \in Bundles, RequestFails(b), UNCHANGED validator PROVE RunInv'
  BY <1>0, <1>2 DEF RequestFails, StartRun, Advance, Running, Commit, Trouble, repo, validator
<1>3. ASSUME NEW b \in Bundles, Prove(b), UNCHANGED validator PROVE RunInv'
  BY <1>0, <1>3 DEF Prove, Advance, NoTrouble, repo, validator
<1>4. ASSUME NEW b \in Bundles, OpenRecipePull(b), UNCHANGED validator PROVE RunInv'
  BY <1>0, <1>4 DEF OpenRecipePull, Advance, NoTrouble, OpenPull, validator
<1>5. ASSUME NEW b \in Bundles, NoRecipePull(b), UNCHANGED validator PROVE RunInv'
  BY <1>0, <1>5 DEF NoRecipePull, Advance, Trouble, NoTrouble, OpenPull, repo, validator
<1>6. ASSUME NEW b \in Bundles, UploadBundle(b), UNCHANGED validator PROVE RunInv'
  BY <1>0, <1>6 DEF UploadBundle, Advance, NoTrouble, repo, validator
<1>7. ASSUME NEW b \in Bundles, RunFails(b), UNCHANGED validator PROVE RunInv'
  BY <1>0, <1>7 DEF RunFails, Running, Trouble, repo, validator
<1>8. ASSUME NEW b \in Bundles, Reject(b) PROVE RunInv'
  BY <1>0, <1>8 DEF Reject, Take, Queued, Step, Accepted, PrVerified, PullVerified, Trouble,
     NoTrouble, repo
<1>9. ASSUME NEW b \in Bundles, Lose(b) PROVE RunInv'
  BY <1>0, <1>9 DEF Lose, Take, Queued, Step, Accepted, PrVerified, PullVerified, NoTrouble, repo
<1>10. ASSUME NEW b \in Bundles, Crown(b) PROVE RunInv'
  BY <1>0, <1>10 DEF Crown, Take, Queued, Step, Accepted, PrVerified, PullVerified, NoTrouble, repo
<1>11. CASE MergeRecipePull
  <2>1. /\ pc # "idle" /\ pc' # "merge" /\ troubled \subseteq troubled'
        /\ UNCHANGED <<image, stage, measured, url, hub, subject, verdict>>
    BY <1>11 DEF MergeRecipePull, Publishing, Step, NoTrouble
  <2> QED BY <1>0, <2>1
<1>12. CASE MergeFails
  <2>1. /\ pc # "idle" /\ pc' # "merge" /\ troubled \subseteq troubled'
        /\ UNCHANGED <<image, stage, measured, url, hub, subject, verdict>>
    BY <1>12 DEF MergeFails, Publishing, Step, Trouble, NoTrouble
  <2> QED BY <1>0, <2>1
<1>13. CASE TagRecipe
  <2>1. /\ pc # "idle" /\ pc' # "merge" /\ troubled \subseteq troubled'
        /\ UNCHANGED <<image, stage, measured, url, hub, subject, verdict>>
    BY <1>13 DEF TagRecipe, Publishing, Step, Trouble, NoTrouble
  <2> QED BY <1>0, <2>1
<1>14. CASE TagRefused
  <2>1. /\ pc # "idle" /\ pc' # "merge" /\ troubled \subseteq troubled'
        /\ UNCHANGED <<image, stage, measured, url, hub, subject, verdict>>
    BY <1>14 DEF TagRefused, Publishing, Step, Trouble, NoTrouble
  <2> QED BY <1>0, <2>1
<1>15. CASE TagLost
  <2>1. /\ pc # "idle" /\ pc' # "merge" /\ troubled \subseteq troubled'
        /\ UNCHANGED <<image, stage, measured, url, hub, subject, verdict>>
    BY <1>15 DEF TagLost, Publishing, Step, Trouble
  <2> QED BY <1>0, <2>1
<1>16. CASE Release
  <2>1. /\ pc # "idle" /\ pc' # "merge" /\ troubled \subseteq troubled'
        /\ UNCHANGED <<image, stage, measured, url, hub, subject, verdict>>
    BY <1>16 DEF Release, Publishing, Step, NoTrouble
  <2> QED BY <1>0, <2>1
<1>17. CASE ReleaseFails
  <2>1. /\ pc # "idle" /\ pc' # "merge" /\ troubled \subseteq troubled'
        /\ UNCHANGED <<image, stage, measured, url, hub, subject, verdict>>
    BY <1>17 DEF ReleaseFails, Publishing, Step, Trouble
  <2> QED BY <1>0, <2>1
<1>18. CASE MergeHubPull \/ CloseHubPull
  <2>1. /\ subject \in Bundles /\ pc # "idle" /\ pc' # "merge"
        /\ UNCHANGED <<image, stage, measured, url, main, subject, verdict>>
        /\ troubled \subseteq troubled'
    BY <1>18 DEF MergeHubPull, CloseHubPull, Settling, Step, SettleHub, Trouble, NoTrouble, repo,
       PublicationTypeOK, ValidatorTypeOK
  <2>2. hub' = hub \/ \E state : hub' = [hub EXCEPT ![subject] = state]
    BY <1>18 DEF MergeHubPull, CloseHubPull, SettleHub
  <2>3. \A b \in Bundles : b # subject => hub'[b] = hub[b]
    BY <1>0, <2>2
  <2>4. hub'[subject] # "none"
    <3>1. CASE hub' = hub
      BY <2>1, <3>1
    <3>2. CASE hub' # hub
      <4>1. hub' = [hub EXCEPT ![subject] = "merged"] \/ hub' = [hub EXCEPT ![subject] = "closed"]
        BY <1>18, <3>2 DEF MergeHubPull, CloseHubPull, SettleHub
      <4> QED BY <1>0, <2>1, <4>1
    <3> QED BY <3>1, <3>2
  <2> QED BY <2>1, <2>3, <2>4
<1>20. CASE CloseRecipePull
  <2>1. /\ pc # "idle" /\ pc' # "merge" /\ troubled \subseteq troubled'
        /\ UNCHANGED <<image, stage, measured, url, hub, subject, verdict>>
    BY <1>20 DEF CloseRecipePull, Settling, Step, Trouble, NoTrouble
  <2> QED BY <1>0, <2>1
<1>21. CASE ArchiveBundle
  <2>1. /\ subject \in Bundles /\ pc # "idle" /\ pc' = "idle" /\ troubled' = troubled
        /\ UNCHANGED <<image, stage, measured, url, hub>>
    BY <1>21 DEF ArchiveBundle, Step, Archive, NoTrouble, PublicationTypeOK, ValidatorTypeOK
  <2>2. \A b \in Bundles : b # subject => verdict'[b] = verdict[b]
    <3>1. \E to : verdict' = [verdict EXCEPT ![subject] = to]
      BY <1>21 DEF ArchiveBundle, Archive
    <3> QED BY <1>0, <3>1
  <2> QED BY <1>0, <2>1, <2>2
<1>22. CASE CrashValidator
  BY <1>0, <1>22 DEF CrashValidator, Trouble, repo, miner
<1>23. CASE Cutover
  BY <1>0, <1>23 DEF Cutover, repo, miner
<1>25. ASSUME NEW b \in Bundles, NameAnotherPull(b), UNCHANGED validator PROVE RunInv'
  BY <1>0, <1>25 DEF NameAnotherPull, Advance, NoTrouble, repo, validator
<1>24. CASE UNCHANGED vars
  BY <1>0, <1>24 DEF vars, repo, miner, validator
<1> QED BY <1>1, <1>2, <1>3, <1>4, <1>5, <1>6, <1>7, <1>8, <1>9, <1>10, <1>11, <1>12, <1>13,
           <1>14, <1>15, <1>16, <1>17, <1>18, <1>20, <1>21, <1>22, <1>23, <1>24,
           <1>25
       DEF Next, MinerStep, ValidatorStep

\* What a bundle names is set once, before it is uploaded.
LEMMA NamesKept ==
  ASSUME PublicationTypeOK, RunInv, [Next]_vars
  PROVE  \A d \in Bundles : url[d] # Nothing => url'[d] = url[d]
<1> DEFINE Kept == \A d \in Bundles : url[d] # Nothing => url'[d] = url[d]
<1>1. ASSUME NEW b \in Bundles, RequestNonce(b), UNCHANGED validator PROVE Kept
  BY <1>1 DEF RequestNonce, StartRun, Advance
<1>2. ASSUME NEW b \in Bundles, RequestFails(b), UNCHANGED validator PROVE Kept
  BY <1>2 DEF RequestFails, StartRun, Advance
<1>3. ASSUME NEW b \in Bundles, Prove(b), UNCHANGED validator PROVE Kept
  BY <1>3 DEF Prove, Advance
<1>4. ASSUME NEW b \in Bundles, OpenRecipePull(b), UNCHANGED validator PROVE Kept
  <2>1. url[b] = Nothing /\ \E v : url' = [url EXCEPT ![b] = v]
    BY <1>4 DEF OpenRecipePull, Advance, RunInv
  <2> QED BY <2>1 DEF PublicationTypeOK, MinerTypeOK
<1>5. ASSUME NEW b \in Bundles, NoRecipePull(b), UNCHANGED validator PROVE Kept
  BY <1>5 DEF NoRecipePull, Advance
<1>6. ASSUME NEW b \in Bundles, UploadBundle(b), UNCHANGED validator PROVE Kept
  BY <1>6 DEF UploadBundle, Advance
<1>7. ASSUME NEW b \in Bundles, RunFails(b), UNCHANGED validator PROVE Kept
  BY <1>7 DEF RunFails, Running
<1>8. ASSUME NEW b \in Bundles, Reject(b) PROVE Kept
  BY <1>8 DEF Reject, Take, Step
<1>9. ASSUME NEW b \in Bundles, Lose(b) PROVE Kept
  BY <1>9 DEF Lose, Take, Step
<1>10. ASSUME NEW b \in Bundles, Crown(b) PROVE Kept
  BY <1>10 DEF Crown, Take, Step
<1>11. CASE MergeRecipePull
  BY <1>11 DEF MergeRecipePull, Publishing, Step
<1>12. CASE MergeFails
  BY <1>12 DEF MergeFails, Publishing, Step
<1>13. CASE TagRecipe
  BY <1>13 DEF TagRecipe, Publishing, Step
<1>14. CASE TagRefused
  BY <1>14 DEF TagRefused, Publishing, Step
<1>15. CASE TagLost
  BY <1>15 DEF TagLost, Publishing, Step
<1>16. CASE Release
  BY <1>16 DEF Release, Publishing, Step
<1>17. CASE ReleaseFails
  BY <1>17 DEF ReleaseFails, Publishing, Step
<1>18. CASE MergeHubPull
  BY <1>18 DEF MergeHubPull, Settling, Step
<1>19. CASE CloseHubPull
  BY <1>19 DEF CloseHubPull, Settling, Step
<1>20. CASE CloseRecipePull
  BY <1>20 DEF CloseRecipePull, Settling, Step
<1>21. CASE ArchiveBundle
  BY <1>21 DEF ArchiveBundle, Step, Archive
<1>22. CASE CrashValidator
  BY <1>22 DEF CrashValidator, miner
<1>23. CASE Cutover
  BY <1>23 DEF Cutover, miner
<1>24. CASE UNCHANGED vars
  BY <1>24 DEF vars, miner
<1>25. ASSUME NEW b \in Bundles, NameAnotherPull(b), UNCHANGED validator PROVE Kept
  <2>1. url[b] = Nothing /\ \E v : url' = [url EXCEPT ![b] = v]
    BY <1>25 DEF NameAnotherPull, Advance, RunInv
  <2> QED BY <2>1 DEF PublicationTypeOK, MinerTypeOK
<1> QED BY <1>1, <1>2, <1>3, <1>4, <1>5, <1>6, <1>7, <1>8, <1>9, <1>10, <1>11, <1>12, <1>13,
           <1>14, <1>15, <1>16, <1>17, <1>18, <1>19, <1>20, <1>21, <1>22, <1>23, <1>24,
           <1>25
       DEF Next, MinerStep, ValidatorStep

\* A patch that no longer applies never does again, crowns are not taken back, and
\* neither is the name of a pull request.
LEMMA OnceAndForAll ==
  ASSUME PublicationTypeOK, RunInv, [Next]_vars, NEW c \in Bundles
  PROVE  /\ ~Applies(c) => ~Applies(c)'
         /\ Crowned(c) => Crowned(c)'
         /\ Usurped(c) => Usurped(c)'
         /\ url[c] # Nothing => url'[c] = url[c]
<1>1. /\ main \in Seq(Bundles) /\ reigns \in Seq(Bundles)
      /\ pc = "merge" => subject \in Bundles
  BY DEF PublicationTypeOK, RepoTypeOK, ValidatorTypeOK
<1>2. main' = main \/ \E b \in Bundles : main' = Append(main, b)
  BY <1>1, CrownsAndMerges, NamedPull DEF CrownStep, MergeStep, NeitherStep
<1>3. reigns' = reigns \/ \E b \in Bundles : reigns' = Append(reigns, b)
  BY CrownsAndMerges DEF CrownStep, MergeStep, NeitherStep
<1>4. \A i \in DOMAIN main : i \in DOMAIN main' /\ main'[i] = main[i]
  <2>1. CASE main' = main
    BY <2>1
  <2>2. ASSUME NEW b \in Bundles, main' = Append(main, b) PROVE \A i \in DOMAIN main : i \in DOMAIN main' /\ main'[i] = main[i]
    BY <1>1, <2>2, AppendProperties, LenProperties
  <2> QED BY <1>2, <2>1, <2>2
<1>5. \A i \in DOMAIN reigns : i \in DOMAIN reigns' /\ reigns'[i] = reigns[i]
  BY <1>1, <1>3, AppendProperties, LenProperties
<1>6. \A d \in Bundles : url[d] # Nothing => url'[d] = url[d]
  BY NamesKept
<1>7. c # Nothing
  BY MinerAssumption
<1> QED BY <1>4, <1>5, <1>6, <1>7 DEF Applies, Crowned, Usurped

\* What holds of a bundle without trouble goes on holding: one step of the proof
\* per action.
LEMMA QuietNext ==
  ASSUME PublicationTypeOK, MergeInv, RunInv, QuietInv, [Next]_vars
  PROVE  QuietInv'
<1> SUFFICES ASSUME NEW c \in Bundles, c \notin troubled' PROVE Quiet(c)'
  BY DEF QuietInv
<1>0. /\ c \in Bundles /\ c \notin troubled'
      /\ c \notin troubled => Quiet(c)
      /\ ~Applies(c) => ~Applies(c)'
      /\ Crowned(c) => Crowned(c)'
      /\ Usurped(c) => Usurped(c)'
      /\ url[c] # Nothing => url'[c] = url[c]
      /\ c # Nothing
      /\ stage[c] \in {"new", "prove", "sign"} => url[c] = Nothing
      /\ image \in Nat /\ Len(main) \in Nat /\ image <= Len(main)
      /\ measured[c] \in Nat /\ measured[c] <= image
      /\ hub[c] # "none" => RunOver(c)
      /\ verdict[c] # "pending" => hub[c] # "none"
      /\ (pc # "idle" /\ subject = c) => hub[c] # "none" /\ verdict[c] = "pending"
      /\ pull \in [Bundles -> PullStates] /\ stage \in [Bundles -> Stages]
      /\ slot \in [{Owner[b] : b \in Bundles} -> Bundles \union {Nothing}]
      /\ measured \in [Bundles -> Nat]
      /\ url \in [Bundles -> Bundles \union {Nothing}] /\ hub \in [Bundles -> PullStates]
      /\ verdict \in [Bundles -> {"pending", "scored", "rejected"}]
  <2>1. Len(main) \in Nat
    BY TagFields DEF PublicationTypeOK
  <2>2. image \in Nat /\ image <= Len(main) /\ measured \in [Bundles -> Nat]
    BY <2>1 DEF PublicationTypeOK, MinerTypeOK
  <2> QED BY <2>1, <2>2, OnceAndForAll, MinerAssumption
          DEF QuietInv, RunInv, PublicationTypeOK, RepoTypeOK, MinerTypeOK, ValidatorTypeOK
<1>00. pc \in Steps /\ (pc # "idle" => subject \in Bundles) /\ reigns \in Seq(Bundles)
  BY DEF PublicationTypeOK, ValidatorTypeOK
<1> HIDE DEF Applies, Crowned, Usurped
<1> USE DEF Quiet, PullAnswered, PullWaits, RejectedOvertaken, Overtaken, Settled, HubSettled,
            PullSettled, RunOver, Stages, PullStates, Unclosed
<1>1. ASSUME NEW b \in Bundles, RequestNonce(b), UNCHANGED validator PROVE Quiet(c)'
  <2>1. /\ stage[b] = "new" /\ \E to \in {"prove", "failed"} : stage' = [stage EXCEPT ![b] = to]
        /\ UNCHANGED <<measured, url, hub, repo, image, validator>>
        /\ slot' = slot \/ slot' = [slot EXCEPT ![Owner[b]] = b]
        /\ b \in Bundles
    BY <1>1 DEF RequestNonce, StartRun, Advance, Running, Commit, Trouble, NoTrouble, repo,
       validator
  <2>2. c \notin troubled
    BY <1>0, <1>1 DEF RequestNonce, Trouble, NoTrouble
  <2>3. PullAnswered(c)' /\ PullWaits(c)' /\ Settled(c)'
    <3>1. UNCHANGED <<pull, pc, subject, verdict, url, hub>> /\ (b = c => stage[c] = "new")
      BY <2>1 DEF repo, validator
    <3>3. b # c => stage'[c] = stage[c]
      BY <1>0, <2>1
    <3>2. b = c => stage' = [stage EXCEPT ![c] = "prove"]
      BY <1>0, <1>1 DEF RequestNonce, StartRun, Advance, Trouble
    <3> QED BY <1>0, <2>2, <3>1, <3>2, <3>3
  <2>4. RejectedOvertaken(c)'
    <3>1. hub[c] # "none" /\ slot[Owner[c]] # c => slot'[Owner[c]] # c
      <4>1. hub[c] # "none" => b # c
        BY <1>0, <2>1
      <4>2. CASE slot' = slot
        BY <4>2
      <4>3. CASE slot' = [slot EXCEPT ![Owner[b]] = b]
        <5>1. Owner[b] \in {Owner[d] : d \in Bundles}
          BY <2>1
        <5>2. slot'[Owner[b]] = b /\ (Owner[c] # Owner[b] => slot'[Owner[c]] = slot[Owner[c]])
          BY <1>0, <4>3, <5>1
        <5> QED BY <4>1, <5>2
      <4> QED BY <2>1, <4>2, <4>3
    <3> QED BY <1>0, <2>1, <2>2, <3>1 DEF repo, validator
  <2> QED BY <2>3, <2>4
<1>2. ASSUME NEW b \in Bundles, RequestFails(b), UNCHANGED validator PROVE Quiet(c)'
  <2>1. /\ stage[b] = "new" /\ \E to \in {"prove", "failed"} : stage' = [stage EXCEPT ![b] = to]
        /\ UNCHANGED <<measured, url, hub, repo, image, validator>>
        /\ slot' = slot \/ slot' = [slot EXCEPT ![Owner[b]] = b]
        /\ b \in Bundles
    BY <1>2 DEF RequestFails, StartRun, Advance, Running, Commit, Trouble, repo, validator
  <2>2. c \notin troubled
    BY <1>0, <1>2 DEF RequestFails, Trouble, NoTrouble
  <2>3. PullAnswered(c)' /\ PullWaits(c)' /\ Settled(c)'
    <3>1. UNCHANGED <<pull, pc, subject, verdict, url, hub>> /\ (b = c => stage[c] = "new")
      BY <2>1 DEF repo, validator
    <3>3. b # c => stage'[c] = stage[c]
      BY <1>0, <2>1
    <3>2. b = c => stage' = [stage EXCEPT ![c] = "prove"]
      BY <1>0, <1>2 DEF RequestFails, StartRun, Advance, Trouble
    <3> QED BY <1>0, <2>2, <3>1, <3>2, <3>3
  <2>4. RejectedOvertaken(c)'
    <3>1. hub[c] # "none" /\ slot[Owner[c]] # c => slot'[Owner[c]] # c
      <4>1. hub[c] # "none" => b # c
        BY <1>0, <2>1
      <4>2. CASE slot' = slot
        BY <4>2
      <4>3. CASE slot' = [slot EXCEPT ![Owner[b]] = b]
        <5>1. Owner[b] \in {Owner[d] : d \in Bundles}
          BY <2>1
        <5>2. slot'[Owner[b]] = b /\ (Owner[c] # Owner[b] => slot'[Owner[c]] = slot[Owner[c]])
          BY <1>0, <4>3, <5>1
        <5> QED BY <4>1, <5>2
      <4> QED BY <2>1, <4>2, <4>3
    <3> QED BY <1>0, <2>1, <2>2, <3>1 DEF repo, validator
  <2> QED BY <2>3, <2>4
<1>3. ASSUME NEW b \in Bundles, Prove(b), UNCHANGED validator PROVE Quiet(c)'
  BY <1>0, <1>3 DEF Prove, Advance, NoTrouble, repo, validator
<1>4. ASSUME NEW b \in Bundles, OpenRecipePull(b), UNCHANGED validator PROVE Quiet(c)'
  BY <1>0, <1>4 DEF OpenRecipePull, Advance, NoTrouble, OpenPull, validator
<1>5. ASSUME NEW b \in Bundles, NoRecipePull(b), UNCHANGED validator PROVE Quiet(c)'
  <2>1. /\ stage[b] = "sign" /\ stage' = [stage EXCEPT ![b] = "upload"]
        /\ UNCHANGED <<image, slot, measured, url, hub, validator>>
        /\ b \in Bundles
        /\ pull' = pull \/ pull' = [pull EXCEPT ![b] = "open"]
        /\ main' = main
    BY <1>5 DEF NoRecipePull, Advance, OpenPull, repo
  <2>2. CASE b = c
    <3>1. ~Applies(c) /\ pull' = pull /\ troubled' = troubled
      BY <1>0, <1>5, <2>2 DEF NoRecipePull, Trouble, NoTrouble, repo
    <3> QED BY <1>0, <2>1, <2>2, <3>1 DEF validator
  <2>3. CASE b # c
    <3>1. stage'[c] = stage[c] /\ pull'[c] = pull[c] /\ c \notin troubled
      BY <1>0, <1>5, <2>1, <2>3 DEF NoRecipePull, Trouble, NoTrouble
    <3> QED BY <1>0, <2>1, <2>3, <3>1 DEF validator
  <2> QED BY <2>2, <2>3
<1>6. ASSUME NEW b \in Bundles, UploadBundle(b), UNCHANGED validator PROVE Quiet(c)'
  BY <1>0, <1>6 DEF UploadBundle, Advance, NoTrouble, repo, validator
<1>7. ASSUME NEW b \in Bundles, RunFails(b), UNCHANGED validator PROVE Quiet(c)'
  BY <1>0, <1>7 DEF RunFails, Running, Trouble, repo, validator
<1>8. ASSUME NEW b \in Bundles, Reject(b) PROVE Quiet(c)'
  BY <1>0, <1>8 DEF Reject, Take, Queued, Step, Accepted, PrVerified, PullVerified, Trouble,
     NoTrouble, repo
<1>9. ASSUME NEW b \in Bundles, Lose(b) PROVE Quiet(c)'
  BY <1>0, <1>9 DEF Lose, Take, Queued, Step, Accepted, PrVerified, PullVerified, NoTrouble, repo
<1>10. ASSUME NEW b \in Bundles, Crown(b) PROVE Quiet(c)'
  <2>1. b = c => Crowned(c)'
    <3>1. reigns' = Append(reigns, b) /\ b \in Bundles
      BY <1>10 DEF Crown
    <3>2. Len(reigns) + 1 \in DOMAIN reigns' /\ reigns'[Len(reigns) + 1] = b
      BY <1>00, <3>1, AppendProperties, LenProperties
    <3> QED BY <3>2 DEF Crowned
  <2> QED BY <1>0, <1>10, <2>1 DEF Crown, Take, Queued, Step, Accepted, PrVerified,
             PullVerified, NoTrouble, repo
<1>11. CASE MergeRecipePull
  <2>1. pc = "merge" /\ PullOf(subject) = subject /\ subject \in Bundles
    BY <1>11, NamedPull DEF MergeRecipePull, Publishing, Step
  <2>2. /\ pc' = "tag" /\ c \notin troubled
        /\ UNCHANGED <<stage, slot, measured, url, hub, image, subject, verdict>>
    BY <1>0, <1>11 DEF MergeRecipePull, Publishing, Step, NoTrouble
  <2>3. pull' = [pull EXCEPT ![PullOf(subject)] = "merged"]
    BY <1>11 DEF MergeRecipePull, MergePull
  <2>4. IF subject = c THEN pull'[c] = "merged" ELSE pull'[c] = pull[c]
    BY <1>0, <2>1, <2>3
  <2> QED BY <1>0, <2>1, <2>2, <2>4 DEF PullOf
<1>12. CASE MergeFails
  <2>1. pc = "merge" /\ PullOf(subject) = subject /\ subject \in Bundles
    BY <1>12, NamedPull DEF MergeFails, Publishing, Step
  <2>2. /\ pc' = "merge hub" /\ c \notin troubled
        /\ UNCHANGED <<stage, slot, measured, url, hub, image, subject, verdict>>
    BY <1>0, <1>12 DEF MergeFails, Publishing, Step, Trouble, NoTrouble
  <2>3. CASE subject = c
    <3>1. pull' = pull /\ (pull[c] = "open" => ~Applies(c))
      BY <1>0, <1>12, <2>1, <2>3 DEF MergeFails, Trouble, Mergeable, repo
    <3> QED BY <1>0, <2>1, <2>2, <2>3, <3>1
  <2>4. CASE subject # c
    <3>1. pull' = pull \/ pull' = [pull EXCEPT ![subject] = "merged"]
      BY <1>12, <2>1 DEF MergeFails, MergePull, repo
    <3>2. pull'[c] = pull[c]
      BY <1>0, <2>4, <3>1
    <3> QED BY <1>0, <2>1, <2>2, <2>4, <3>2
  <2> QED BY <2>3, <2>4
<1>13. CASE TagRecipe
  BY <1>0, <1>13 DEF TagRecipe, Publishing, Step, Trouble, NoTrouble, CreateTag
<1>14. CASE TagRefused
  BY <1>0, <1>14 DEF TagRefused, Publishing, Step, Trouble, NoTrouble, repo
<1>15. CASE TagLost
  BY <1>0, <1>15 DEF TagLost, Publishing, Step, Trouble, CreateTag, repo
<1>16. CASE Release
  BY <1>0, <1>16 DEF Release, Publishing, Step, NoTrouble, PublishRelease
<1>17. CASE ReleaseFails
  BY <1>0, <1>17 DEF ReleaseFails, Publishing, Step, Trouble, PublishRelease, repo
<1>18. CASE MergeHubPull
  BY <1>0, <1>18 DEF MergeHubPull, Settling, Step, SettleHub, Trouble, NoTrouble, repo
<1>19. CASE CloseHubPull
  <2>1. /\ c \notin troubled /\ UNCHANGED <<pull, stage, slot, measured, url, image, subject, verdict>>
        /\ \/ pc = "close rejected" /\ pc' = "close rejected 2"
           \/ pc = "close scored" /\ pc' = "close scored 2"
    BY <1>0, <1>19 DEF CloseHubPull, Settling, Step, SettleHub, Trouble, NoTrouble, repo
  <2>2. IF subject = c THEN hub'[c] = "closed" ELSE hub'[c] = hub[c]
    BY <1>0, <1>19 DEF CloseHubPull, SettleHub, Trouble
  <2> QED BY <1>0, <2>1, <2>2
<1>20. CASE CloseRecipePull
  <2>1. /\ c \notin troubled /\ subject \in Bundles
        /\ UNCHANGED <<stage, slot, measured, url, image, hub, subject, verdict>>
        /\ \/ pc = "close rejected 2" /\ pc' = "archive rejected"
           \/ pc = "close scored 2" /\ pc' = "archive scored"
    BY <1>0, <1>00, <1>20 DEF CloseRecipePull, Settling, Step, Trouble, NoTrouble
  <2>2. CASE url[subject] = c
    <3>1. subject # c => Usurped(c)
      BY <2>1, <2>2 DEF Usurped
    <3>2. pull'[c] = pull[c] \/ (pull[c] = "open" /\ pull'[c] = "closed")
      BY <1>0, <1>20, <2>2 DEF CloseRecipePull, ClosePull, PullOf, repo
    <3>3. subject = c => pull'[c] # "open"
      BY <1>0, <1>20, <2>2 DEF CloseRecipePull, ClosePull, PullOf, Trouble, repo
    <3> QED BY <1>0, <2>1, <2>2, <3>1, <3>2, <3>3
  <2>3. CASE url[subject] # c
    <3>1. pull'[c] = pull[c]
      BY <1>0, <1>20, <2>3 DEF CloseRecipePull, ClosePull, PullOf, repo
    <3> QED BY <1>0, <2>1, <2>3, <3>1
  <2> QED BY <2>2, <2>3
<1>21. CASE ArchiveBundle
  BY <1>0, <1>21 DEF ArchiveBundle, Step, Archive, NoTrouble, repo
<1>22. CASE CrashValidator
  BY <1>0, <1>22 DEF CrashValidator, Trouble, repo, miner
<1>23. CASE Cutover
  BY <1>0, <1>23 DEF Cutover, repo, miner
<1>25. ASSUME NEW b \in Bundles, NameAnotherPull(b), UNCHANGED validator PROVE Quiet(c)'
  <2>1. /\ stage[b] = "sign" /\ stage' = [stage EXCEPT ![b] = "upload"] /\ c \notin troubled
        /\ UNCHANGED <<image, slot, measured, hub, pull, main, validator>>
    BY <1>0, <1>25 DEF NameAnotherPull, Advance, NoTrouble, repo
  <2>2. PICK d \in Bundles \ {b} : url' = [url EXCEPT ![b] = d]
    BY <1>25 DEF NameAnotherPull
  <2>3. CASE b = c
    <3>1. url'[c] = d /\ d # c /\ d # Nothing /\ stage'[c] = "upload" /\ hub[c] = "none"
      BY <1>0, <2>1, <2>2, <2>3, MinerAssumption
    <3> QED BY <1>0, <2>1, <2>3, <3>1 DEF validator
  <2>4. CASE b # c
    <3>1. url'[c] = url[c] /\ stage'[c] = stage[c]
      BY <1>0, <2>1, <2>2, <2>4
    <3> QED BY <1>0, <2>1, <2>4, <3>1 DEF validator
  <2> QED BY <2>3, <2>4
<1>24. CASE UNCHANGED vars
  BY <1>0, <1>24 DEF vars, repo, miner, validator
<1> QED BY <1>1, <1>2, <1>3, <1>4, <1>5, <1>6, <1>7, <1>8, <1>9, <1>10, <1>11, <1>12, <1>13,
           <1>14, <1>15, <1>16, <1>17, <1>18, <1>19, <1>20, <1>21, <1>22, <1>23, <1>24,
           <1>25
       DEF Next, MinerStep, ValidatorStep

-----------------------------------------------------------------------------
\* The invariants hold in every reachable state.

\* Initially no bot is running.
LEMMA RunInit == Init => RunInv
  BY DEF Init, MinerInit, RunInv, RunOver

\* Initially nothing is archived.
LEMMA QuietInit == Init => QuietInv
  BY DEF Init, MinerInit, RepoInit, QuietInv, Quiet, PullAnswered, PullWaits, RejectedOvertaken,
         Settled, RunOver

\* Everything proved of the publication holds in every state.
LEMMA PublicationInvariant == Spec => []PublicationInv
<1>1. Init => PublicationInv
  BY PublicationTypeInit, MergeInit, TagInit, RunInit, QuietInit DEF PublicationInv
<1>2. PublicationInv /\ [Next]_vars => PublicationInv'
  BY PublicationTypeNext, MergeNext, TagNext, RunNext, QuietNext DEF PublicationInv
<1> QED BY <1>1, <1>2, PTL DEF Spec

\* Only kings are merged, each once and in the order of their crowns: a bundle
\* crowned again after a crash is not merged again, and one whose merge failed
\* is not merged later.
THEOREM MainFollowsCrowns == Spec => []MainFollowsReigns
<1>1. PublicationInv => MainFollowsReigns
  BY FollowsReigns DEF PublicationInv
<1> QED BY <1>1, PublicationInvariant, PTL

\* Tags go up along main and no commit has two, whichever tags the page shows
\* that the version is computed from: a series has no gap, so that the version
\* after any tag of it is free only when it is the next.
THEOREM TagsGoUp == Spec => []TagsFollowMain
<1>1. PublicationInv => TagsFollowMain
  BY DEF PublicationInv, TagInv
<1> QED BY <1>1, PublicationInvariant, PTL

\* The gates that read the chain and GitHub again when a bundle is judged reject
\* a bundle without trouble only if it was overtaken since it was made, names a
\* pull request that is not its own, or had its own closed by such a bundle.
THEOREM RejectedWasOvertaken == Spec => []OnlyOvertakenRejected
<1>1. PublicationInv => OnlyOvertakenRejected
  BY DEF PublicationInv, QuietInv, Quiet, RejectedOvertaken, Overtaken, OnlyOvertakenRejected
<1> QED BY <1>1, PublicationInvariant, PTL

\* Once a bundle without trouble is archived both of its pull requests are
\* settled, but for that of a king whose patch no longer applied.
THEOREM ArchivedIsSettled == Spec => []NothingLeftOpen
<1>1. PublicationInv => NothingLeftOpen
  BY DEF PublicationInv, QuietInv, Quiet, Settled, HubSettled, PullSettled, Crowned, NothingLeftOpen
<1> QED BY <1>1, PublicationInvariant, PTL

=============================================================================
