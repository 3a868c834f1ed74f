----------------------------- MODULE Positions -----------------------------
(***************************************************************************)
(* Lemmas about the positions of a sequence, for the proofs about the line *)
(* of kings, the tags of the recipe and the roots on chain.                *)
(***************************************************************************)
EXTENDS WellFoundedInduction, TLAPS

\* A non-empty set of positions of a sequence has a last one.
LEMMA LastPosition ==
  ASSUME NEW n \in Nat, NEW S \in SUBSET (1 .. n), S # {}
  PROVE  \E i \in S : \A j \in S : j <= i
<1> DEFINE FromTheEnd == {m \in Nat : \E i \in S : m = n - i}
           Less == {ss \in Nat \X Nat : ss[1] < ss[2]}
<1>1. FromTheEnd \subseteq Nat /\ FromTheEnd # {}
  <2>1. PICK i \in S : TRUE
    OBVIOUS
  <2>2. n - i \in FromTheEnd
    BY <2>1
  <2> QED BY <2>2
<1>2. IsWellFoundedOn(Less, Nat)
  BY NatLessThanWellFounded DEF OpToRel
<1>3. \E m \in FromTheEnd : \A k \in FromTheEnd : <<k, m>> \notin Less
  <2> HIDE DEF FromTheEnd, Less
  <2> QED BY <1>1, <1>2, WFMin
<1>4. PICK m \in FromTheEnd : \A k \in FromTheEnd : ~(k < m)
  BY <1>3
<1>5. PICK i \in S : m = n - i
  BY <1>4
<1>6. \A j \in S : n - j \in FromTheEnd
  OBVIOUS
<1> QED BY <1>4, <1>5, <1>6

=============================================================================
