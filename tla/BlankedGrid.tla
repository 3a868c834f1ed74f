---------------------------- MODULE BlankedGrid ----------------------------
(***************************************************************************)
(* Host-owned suffix-blanked scoring: the grid build_blanked_grid() of     *)
(* eval/val_bpb.py hands to the sandbox, what it shows of the held-out     *)
(* stream, and the verdict of eval/host_reduce.py on what comes back.      *)
(*                                                                         *)
(* Tokens are named by their place in the stream.  Window w holds tokens   *)
(* w*L .. w*L + L, so its last one is the first of the next window.        *)
(***************************************************************************)
EXTENDS Integers, FiniteSets

CONSTANTS
  L,        \* pinned_eval_seq_len
  Windows   \* full windows in the stream

ASSUME GridAssumption == L \in Nat /\ L >= 2 /\ Windows \in Nat \ {0}

WindowIds == 0 .. Windows - 1

TailLo == L \div 2
Upper == L - 1          \* e_hi: the last column is never scored

\* Where the one scored position of a window may be: in the tail when the draw
\* says so and there is room, else in the head.
TailPositions == IF TailLo < Upper THEN TailLo .. Upper - 1 ELSE {}
HeadPositions == LET low == IF TailLo < Upper THEN TailLo ELSE Upper
                 IN  0 .. (IF low > 1 THEN low ELSE 1) - 1
Positions == TailPositions \union HeadPositions

\* One cell per window: its position, whether the host asks for the real next
\* token there, and whether a second copy with other filler follows.
Cells == [pos : Positions, real : BOOLEAN, twice : BOOLEAN]
Layouts == {g \in [WindowIds -> Cells] : \A w \in WindowIds : g[w].twice => g[w].real}

\* Mutant: the filler begins a column too late.
ShownTooFar(layout, w) == {w * L + i : i \in 0 .. layout[w].pos + 1}

\* Tokens of the stream a row of window w shows: its prefix up to the scored
\* column.  Everything behind it is filler drawn from elsewhere.
Shown(layout, w) == {w * L + i : i \in 0 .. layout[w].pos}
ShownTokens(layout) == UNION {Shown(layout, w) : w \in WindowIds}
Answer(layout, w) == w * L + layout[w].pos + 1

-----------------------------------------------------------------------------
\* What a model's forward pass gives, in nats, at the scored cell of a row.  A
\* model that sees the past only does not depend on the filler; one that sees
\* the future reads the filler.  "parrot" gives any asked-for token certainty.

Sights == {"past", "future", "parrot"}

Nats(sight, real, copy) ==
  CASE sight = "past" -> IF real THEN 3 ELSE 9
    [] sight = "future" -> IF copy = "A" THEN 3 ELSE 7
    [] sight = "parrot" -> 0

WrongCells(layout) == {w \in WindowIds : ~layout[w].real}
ScoredCells(layout) == {w \in WindowIds : layout[w].real}

WrongTargetFloor == 1

WrongTargetWitness(layout, sight) ==
  LET low == {w \in WrongCells(layout) : Nats(sight, FALSE, "A") < WrongTargetFloor}
  IN  10 * Cardinality(low) <= Cardinality(WrongCells(layout))

TwoFillerWitness(layout, sight) ==
  \A w \in WindowIds : layout[w].twice => Nats(sight, TRUE, "A") = Nats(sight, TRUE, "B")

\* reduce_blanked_nlls accepts; otherwise it raises, and the caller rejects.
ReduceBlankedNlls(layout, sight) ==
  /\ WrongTargetWitness(layout, sight)
  /\ TwoFillerWitness(layout, sight)
  /\ ScoredCells(layout) # {}

\* Targets of a stream under the plain packing, the count reduce_token_nlls
\* requires of the sandbox.
ExpectedTokenCount(length) == ((length - 1) \div L) * L

=============================================================================
