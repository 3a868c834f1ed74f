----------------------------- MODULE RecipeRepo -----------------------------
(***************************************************************************)
(* The recipe repository on GitHub, as validator/github_bot.py and         *)
(* miner/github_pr.py use it: one pull request per bundle, the commits of  *)
(* main, the version tags on them and the releases made of the tags.       *)
(*                                                                         *)
(* A patch is the bundle it came with; a pull request's diff is that patch,*)
(* whatever main has become since.                                         *)
(***************************************************************************)
EXTENDS Integers, Sequences, FiniteSets

CONSTANTS
  Bundles,
  Conflicts, \* pairs of bundles whose patches touch the same lines
  OldTags,   \* tags of the first series on older commits
  PageSize   \* tags on the one page the version is computed from, 100 in the code

ASSUME RepoAssumption ==
  /\ \A pair \in Conflicts : pair \subseteq Bundles /\ Cardinality(pair) = 2
  /\ OldTags \in Nat /\ PageSize \in Nat \ {0}

VARIABLES
  pull,     \* state of each bundle's pull request
  main,     \* the bundles merged, oldest first; older commits are 0, -1, ...
  tags,     \* tags with the commit each is on, in the order of their making
  releases  \* versions published

repo == <<pull, main, tags, releases>>

RepoInit ==
  /\ pull = [b \in Bundles |-> "none"]
  /\ main = <<>> /\ releases = {}
  /\ tags = [i \in 1 .. OldTags |-> [version |-> <<1, i - 1>>, commit |-> i - OldTags]]

-----------------------------------------------------------------------------
\* Pull requests

\* git apply on top of main, and GitHub's own test before a merge.
Applies(b) == \A i \in DOMAIN main : {main[i], b} \notin Conflicts

OpenPull(b) ==
  /\ pull' = [pull EXCEPT ![b] = "open"]
  /\ UNCHANGED <<main, tags, releases>>

\* verify_pr_matches_bundle, of a bundle that names its own.
PullVerified(b) == pull[b] = "open"

Mergeable(b) == pull[b] = "open" /\ Applies(b)

\* Squashed into one commit on main.
MergePull(b) ==
  /\ Mergeable(b)
  /\ pull' = [pull EXCEPT ![b] = "merged"]
  /\ main' = Append(main, b)
  /\ UNCHANGED <<tags, releases>>

\* A merged pull request cannot be closed.
ClosePull(b) ==
  /\ pull' = [pull EXCEPT ![b] = IF @ = "open" THEN "closed" ELSE @]
  /\ UNCHANGED <<main, tags, releases>>

-----------------------------------------------------------------------------
\* Versions; the major and the minor number are one, the series.

NoVersion == <<0, 0>>

Earlier(v, w) == v[1] < w[1] \/ (v[1] = w[1] /\ v[2] < w[2])

\* Which tags the first page shows is GitHub's choice.
TagPages ==
  LET size == IF Len(tags) < PageSize THEN Len(tags) ELSE PageSize
  IN  {{tags[i].version : i \in page} : page \in {p \in SUBSET DOMAIN tags : Cardinality(p) = size}}

\* _latest_recipe_tag
Latest(page) ==
  IF page = {} THEN NoVersion ELSE CHOOSE v \in page : \A w \in page : ~Earlier(v, w)

\* _version_for
VersionFor(latest, series) ==
  IF latest[1] # series THEN <<series, 0>> ELSE <<series, latest[2] + 1>>

Taken(version) == \E i \in DOMAIN tags : tags[i].version = version

\* Mutant: a tag that exists is moved.
MoveTag(version) ==
  /\ tags' = Append(SelectSeq(tags, LAMBDA t : t.version # version),
                    [version |-> version, commit |-> Len(main)])
  /\ UNCHANGED <<pull, main, releases>>

\* On the commit of the merge, which is still the tip.
CreateTag(version) ==
  /\ ~Taken(version)
  /\ tags' = Append(tags, [version |-> version, commit |-> Len(main)])
  /\ UNCHANGED <<pull, main, releases>>

PublishRelease(version) ==
  /\ releases' = releases \union {version}
  /\ UNCHANGED <<pull, main, tags>>

=============================================================================
