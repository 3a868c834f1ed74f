----------------------------- MODULE KingLedger -----------------------------
(***************************************************************************)
(* What the throne promises, without the service around it: a line of      *)
(* kings each of which decisively beat the one it replaced, or the mark    *)
(* left behind when the throne was empty.  The bar is read and the crown   *)
(* given in one step here; the service reads the bar, and files the crown  *)
(* some steps later.                                                       *)
(***************************************************************************)
EXTENDS Scoring, Sequences

CONSTANTS Bundles, NoBundle, Metric

VARIABLES
  line,  \* the kings, oldest first
  mark   \* the bundle the high-water mark was taken from

ledger == <<line, mark>>

Init == line = <<>> /\ mark = NoBundle

Last(s) == s[Len(s)]

\* The bar a challenger has to beat; none before the first king.
Bar == IF line # <<>> THEN {Last(line)} ELSE {mark} \ {NoBundle}

Crown(b) ==
  /\ Metric[b].finite
  /\ \A bar \in Bar : DecisivelyBeats(Metric[bar], Metric[b])
  /\ line' = Append(line, b)
  /\ UNCHANGED mark

\* The mark follows the king just crowned.
Mark ==
  /\ line # <<>>
  /\ mark' = Last(line)
  /\ UNCHANGED line

\* Kings without a merged PR are taken off the end of the line; the mark stays.
Demote ==
  /\ \E n \in 0 .. Len(line) - 1 : line' = SubSeq(line, 1, n)
  /\ UNCHANGED mark

Next == (\E b \in Bundles : Crown(b)) \/ Mark \/ Demote

Spec == Init /\ [][Next]_ledger

=============================================================================
