---------------------------- MODULE BallotsProofs ----------------------------
(***************************************************************************)
(* Facts about the vote of Ballots.tla, for every set of nodes, threshold  *)
(* and fault bound its assumption admits.                                  *)
(***************************************************************************)
EXTENDS Ballots, FiniteSetTheorems, TLAPS

(* A set of nodes is finite, with a natural cardinality that grows with it.  *)
LEMMA NodeSets ==
  ASSUME NEW S \in SUBSET Nodes
  PROVE  /\ IsFiniteSet(S)
         /\ Cardinality(S) \in Nat
         /\ \A T \in SUBSET S : Cardinality(T) <= Cardinality(S)
<1>1. IsFiniteSet(S)
  BY BallotConstants, FS_Subset
<1>2. Cardinality(S) \in Nat
  BY <1>1, FS_CardinalityType
<1>3. \A T \in SUBSET S : Cardinality(T) <= Cardinality(S)
  BY <1>1, FS_Subset
<1> QED
  BY <1>1, <1>2, <1>3

(* With THRESHOLD honest answers the rest of the nodes are a minority.       *)
LEMMA OthersOutnumbered ==
  ASSUME NEW b \in Ballot, Cardinality(HonestVoters(b)) >= THRESHOLD,
         NEW S \in SUBSET (Nodes \ HonestVoters(b)),
         NEW T \in SUBSET Nodes, HonestVoters(b) \subseteq T
  PROVE  Cardinality(S) < Cardinality(T)
<1> DEFINE hv == HonestVoters(b)
           others == Nodes \ hv
<1>1. hv \in SUBSET Nodes
  BY DEF HonestVoters
<1>2. Cardinality(others) = Cardinality(Nodes) - Cardinality(hv)
  <2>1. Nodes \cap hv = hv
    BY <1>1
  <2> QED
    BY <2>1, BallotConstants, FS_Difference
<1>3. Cardinality(S) <= Cardinality(others)
  BY NodeSets
<1>4. Cardinality(hv) <= Cardinality(T)
  BY NodeSets
<1>5. /\ Cardinality(S) \in Nat
      /\ Cardinality(T) \in Nat
      /\ Cardinality(hv) \in Nat
      /\ Cardinality(others) \in Nat
      /\ Cardinality(Nodes) \in Nat
  BY <1>1, NodeSets
<1> HIDE DEF hv, others
<1>6. Cardinality(hv) >= THRESHOLD
  BY DEF hv
<1> QED
  BY <1>2, <1>3, <1>4, <1>5, <1>6, BallotConstants

(* The plurality of challenge_hash, and of H among its voters, is then the   *)
(* honest value, so every list "accepted" holds all honest answers.          *)
LEMMA HonestAccepted ==
  ASSUME NEW b \in Ballot, Cardinality(HonestVoters(b)) >= THRESHOLD,
         NEW accepted \in Tallies(b)
  PROVE  /\ HonestVoters(b) \subseteq accepted
         /\ accepted \subseteq Nodes
<1>1. PICK h \in MajorityHash(b) : \E v \in MajorityH(b, h) : accepted = ForHashAndH(b, h, v)
  BY DEF Tallies
<1>0. PICK v \in MajorityH(b, h) : accepted = ForHashAndH(b, h, v)
  BY <1>1
<1>2. h = "own"
  <2>1. SUFFICES ASSUME h = "other" PROVE FALSE
    BY DEF MajorityHash, Values
  <2>2. ForHash(b, "other") \in SUBSET (Nodes \ HonestVoters(b))
    BY DEF ForHash, Voters, HonestVoters, HashOf
  <2>3. /\ ForHash(b, "own") \in SUBSET Nodes
        /\ HonestVoters(b) \subseteq ForHash(b, "own")
    BY DEF ForHash, Voters, HonestVoters, HashOf, Proofs
  <2>4. Cardinality(ForHash(b, "other")) < Cardinality(ForHash(b, "own"))
    BY <2>2, <2>3, OthersOutnumbered
  <2>5. Cardinality(ForHash(b, "own")) <= Cardinality(ForHash(b, "other"))
    BY <2>1 DEF MajorityHash, Values
  <2>6. ForHash(b, "other") \in SUBSET Nodes
    BY <2>2
  <2>7. Cardinality(ForHash(b, "own")) \in Nat /\ Cardinality(ForHash(b, "other")) \in Nat
    BY <2>3, <2>6, NodeSets
  <2> QED
    BY <2>4, <2>5, <2>7
<1>3. v = "own"
  <2>1. SUFFICES ASSUME v = "other" PROVE FALSE
    BY DEF MajorityH, Values
  <2>2. ForHashAndH(b, h, "other") \in SUBSET (Nodes \ HonestVoters(b))
    BY DEF ForHashAndH, ForHash, Voters, HonestVoters, HOf
  <2>3. /\ ForHashAndH(b, h, "own") \in SUBSET Nodes
        /\ HonestVoters(b) \subseteq ForHashAndH(b, h, "own")
    BY <1>2 DEF ForHashAndH, ForHash, Voters, HonestVoters, HashOf, HOf, Proofs
  <2>4. Cardinality(ForHashAndH(b, h, "other")) < Cardinality(ForHashAndH(b, h, "own"))
    BY <2>2, <2>3, OthersOutnumbered
  <2>5. Cardinality(ForHashAndH(b, h, "own")) <= Cardinality(ForHashAndH(b, h, "other"))
    BY <2>1 DEF MajorityH, Values
  <2>6. ForHashAndH(b, h, "other") \in SUBSET Nodes
    BY <2>2
  <2>7. /\ Cardinality(ForHashAndH(b, h, "own")) \in Nat
        /\ Cardinality(ForHashAndH(b, h, "other")) \in Nat
    BY <2>3, <2>6, NodeSets
  <2> QED
    BY <2>4, <2>5, <2>7
<1> QED
  BY <1>0, <1>2, <1>3 DEF ForHashAndH, ForHash, Voters, HonestVoters, HashOf, HOf, Proofs

(* A finite set has a subset of every smaller size.                          *)
LEMMA SubsetOfSize ==
  ASSUME NEW S \in SUBSET Nodes, NEW k \in Nat, k <= Cardinality(S)
  PROVE  \E Q \in SUBSET S : Cardinality(Q) = k
<1> DEFINE m == Cardinality(S)
<1>1. m \in Nat /\ IsFiniteSet(S)
  BY NodeSets
<1>2. PICK f \in Bijection(1..m, S) : TRUE
  BY <1>1, FS_CardinalityType DEF ExistsBijection
<1> DEFINE Q == {f[i] : i \in 1..k}
           g == [i \in 1..k |-> f[i]]
<1>3. 1..k \subseteq 1..m
  BY <1>1
<1>4. f \in [1..m -> S] /\ (\A i, j \in 1..m : f[i] = f[j] => i = j)
  BY <1>2 DEF Bijection, Injection, IsInjective
<1>5. Q \in SUBSET S
  BY <1>3, <1>4
<1>6. g \in Bijection(1..k, Q)
  <2>1. g \in [1..k -> Q]
    OBVIOUS
  <2>2. \A i, j \in 1..k : g[i] = g[j] => i = j
    BY <1>3, <1>4
  <2>3. \A q \in Q : \E i \in 1..k : g[i] = q
    OBVIOUS
  <2> QED
    BY <2>1, <2>2, <2>3 DEF Bijection, Injection, Surjection, IsInjective
<1>7. Cardinality(Q) = k
  BY <1>6, FS_CountingElements DEF ExistsBijection
<1> QED
  BY <1>5, <1>7

(* THRESHOLD honest answers decide the vote, whatever the other nodes        *)
(* answered and in whatever order: the round of node/pbft.py commits and the *)
(* search of authenticate.py finds a subset that rebuilds the secret.        *)
THEOREM HonestThresholdDecides ==
  ASSUME NEW b \in Ballot, Cardinality(HonestVoters(b)) >= THRESHOLD
  PROVE  /\ Voters(b) # {}
         /\ \A accepted \in Tallies(b) : Commits(accepted) /\ Chosen(b, accepted) # {}
<1>1. HonestVoters(b) \in SUBSET Nodes /\ HonestVoters(b) \subseteq Voters(b)
  BY DEF HonestVoters, Voters, Proofs
<1>2. Cardinality(HonestVoters(b)) \in Nat
  BY <1>1, NodeSets
<1>3. Voters(b) # {}
  <2>1. HonestVoters(b) # {}
    BY <1>2, BallotConstants, FS_EmptySet
  <2> QED
    BY <1>1, <2>1
<1>4. ASSUME NEW accepted \in Tallies(b)
      PROVE  Commits(accepted) /\ Chosen(b, accepted) # {}
  <2>1. HonestVoters(b) \subseteq accepted /\ accepted \in SUBSET Nodes
    BY HonestAccepted
  <2>2. Cardinality(HonestVoters(b)) <= Cardinality(accepted) /\ Cardinality(accepted) \in Nat
    BY <2>1, NodeSets
  <2>3. Commits(accepted)
    BY <1>2, <2>2, BallotConstants DEF Commits, Quorum
  <2>4. PICK Q \in SUBSET HonestVoters(b) : Cardinality(Q) = THRESHOLD
    BY <1>1, BallotConstants, SubsetOfSize
  <2>5. Q \in Chosen(b, accepted)
    BY <2>1, <2>4 DEF Chosen, Subsets, Reconstructs, HonestVoters
  <2> QED
    BY <2>3, <2>5
<1> QED
  BY <1>3, <1>4
=============================================================================
