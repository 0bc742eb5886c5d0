------------------------------- MODULE Ballots -------------------------------
(***************************************************************************)
(* What the coordinator does with the answers of the nodes to one          *)
(* challenge: the vote of node/pbft.py (try_commit) and the choice of a    *)
(* reconstructing subset in authentication/authenticate.py (steps 5 - 7),  *)
(* on sets of nodes.  One answer per node; PBFTRound.tla has lists.        *)
(*                                                                         *)
(* A proof is abstracted to what tells proofs apart:                       *)
(*   honest       computed from the share and the nonce                    *)
(*   fake_value   right challenge_hash and H, wrong partial_value          *)
(*                (node.py, byzantine branch)                              *)
(*   forged_H     right challenge_hash, wrong H                            *)
(*   other_nonce  computed for some other nonce                            *)
(* The last two are the shapes of tests/test_pbft.py.  All liars agree on  *)
(* one wrong value, the worst case for a vote by plurality.                *)
(***************************************************************************)
EXTENDS Naturals, FiniteSets

CONSTANTS
  Nodes,      \* node ids
  THRESHOLD,  \* shares needed to rebuild a secret
  F_NODES     \* f of the PBFT round

Quorum == 2 * F_NODES + 1

ASSUME BallotConstants ==
  /\ IsFiniteSet(Nodes) /\ Nodes # {}
  /\ THRESHOLD \in Nat \ {0}
  /\ F_NODES \in Nat
  /\ Cardinality(Nodes) < 2 * THRESHOLD
  /\ Quorum <= THRESHOLD

Proofs == {"honest", "fake_value", "forged_H", "other_nonce"}

\* "unasked": no request made; "waiting": request in flight; "none": no proof.
Answers == Proofs \cup {"unasked", "waiting", "none"}

Ballot == [Nodes -> Answers]

-----------------------------------------------------------------------------
HashOf(proof) == IF proof = "other_nonce" THEN "other" ELSE "own"

HOf(proof) == IF proof \in {"other_nonce", "forged_H"} THEN "other" ELSE "own"

Values == {"own", "other"}

Voters(b) == {n \in Nodes : b[n] \in Proofs}

HonestVoters(b) == {n \in Nodes : b[n] = "honest"}

ForHash(b, h) == {n \in Voters(b) : HashOf(b[n]) = h}

ForHashAndH(b, h, v) == {n \in ForHash(b, h) : HOf(b[n]) = v}

(* Counter(...).most_common(1): a value no other value outnumbers.  Which   *)
(* of two equal ones comes first depends on the order of arrival.           *)
MajorityHash(b) ==
  {h \in Values : /\ ForHash(b, h) # {}
                  /\ \A g \in Values :
                       Cardinality(ForHash(b, g)) <= Cardinality(ForHash(b, h))}

MajorityH(b, h) ==
  {v \in Values : /\ ForHashAndH(b, h, v) # {}
                  /\ \A w \in Values :
                       Cardinality(ForHashAndH(b, h, w))
                         <= Cardinality(ForHashAndH(b, h, v))}

(* The lists "accepted" of try_commit that the order of arrival can produce; *)
(* none at all when nobody answered.                                         *)
Tallies(b) ==
  UNION {{ForHashAndH(b, h, v) : v \in MajorityH(b, h)} : h \in MajorityHash(b)}

Commits(accepted) == Cardinality(accepted) >= Quorum

(* itertools.combinations(clean_proofs, THRESHOLD) *)
Subsets(accepted) == {Q \in SUBSET accepted : Cardinality(Q) = THRESHOLD}

(* The secret rebuilt from Q hashes to the commitment on the ledger: only    *)
(* if every value is right (SecretSharing.tla checks this over a field).     *)
Reconstructs(b, Q) == \A n \in Q : b[n] = "honest"

\* Mutant of Chosen: the proofs PBFT accepted are taken as they are.
ChosenUnchecked(b, accepted) == Subsets(accepted)

Chosen(b, accepted) == {Q \in Subsets(accepted) : Reconstructs(b, Q)}
=============================================================================
