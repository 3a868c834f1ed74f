------------------------ MODULE PublicationProperties ------------------------
(***************************************************************************)
(* What the repositories and the miners may rely on.                       *)
(***************************************************************************)
EXTENDS Publication

\* Only kings are merged, each once and in the order they were crowned, however
\* often one is judged again after a crash: merging happens in the same step of
\* the same epoch as the crown, or never.
MainFollowsReigns ==
  \E at \in [DOMAIN main -> DOMAIN reigns] :
    /\ \A i \in DOMAIN main : reigns[at[i]] = main[i]
    /\ \A i, j \in DOMAIN main : i < j => at[i] < at[j]

\* Tags go up along main, through unreadable pages, refused tags, lost answers
\* and cutovers: a later version is on a later commit, and no commit has two.
TagsFollowMain ==
  \A i, j \in DOMAIN tags :
    i < j => /\ Earlier(tags[i].version, tags[j].version)
             /\ tags[i].commit < tags[j].commit

\* Another bundle names the pull request of this one.
Usurped(b) == \E c \in Bundles \ {b} : url[c] = b

\* A bundle that met no failure is rejected only if its miner committed to
\* another one, the image changed under it, a patch it conflicts with was merged
\* before its pull request was opened, it names one that is not its own, or its
\* own was closed with a bundle that named it.
OnlyOvertakenRejected ==
  \A b \in Bundles \ troubled :
    verdict[b] = "rejected" =>
      \/ slot[Owner[b]] # b
      \/ measured[b] # image
      \/ ~Applies(b) /\ pull[b] = "none"
      \/ url[b] \notin {b, Nothing}
      \/ pull[b] = "closed" /\ Usurped(b)

\* "so the repos don't accumulate open losing PRs": once a bundle is archived,
\* none of its pull requests is open, unless a call for it failed or a king's
\* patch no longer applied.
NothingLeftOpen ==
  \A b \in Bundles \ troubled :
    verdict[b] # "pending" =>
      /\ hub[b] # "open"
      /\ pull[b] = "open" => ~Applies(b) /\ \E i \in DOMAIN reigns : reigns[i] = b

\* Every commit of main is the recipe that was measured: "you can read the diff
\* -- and the measurement -- behind each step".
MainIsMeasured == \A i \in DOMAIN main : measured[main[i]] = i - 1

=============================================================================
