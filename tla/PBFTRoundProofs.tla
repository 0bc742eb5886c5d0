---------------------------- MODULE PBFTRoundProofs ----------------------------
(***************************************************************************)
(* Theorems about PBFTRound.tla, for every set of peers and nodes, every   *)
(* deployment, order of arrival, threshold and fault bound with fewer than *)
(* two quorums of peers.                                                   *)
(***************************************************************************)
EXTENDS PBFTRound, FiniteSetTheorems, SequenceTheorems, WellFoundedInduction, TLAPS

-----------------------------------------------------------------------------
(* Counting. *)

LEMMA LeastNatural ==
  ASSUME NEW S \in SUBSET Nat, S # {}
  PROVE  \E m \in S : \A n \in S : m <= n
<1>1. PICK m \in S : \A n \in S : ~(<<n, m>> \in OpToRel(<, Nat))
  BY NatLessThanWellFounded, WFMin
<1>2. ASSUME NEW n \in S PROVE m <= n
  <2>1. <<n, m>> \in Nat \X Nat /\ <<n, m>>[1] = n /\ <<n, m>>[2] = m
    OBVIOUS
  <2>2. ~(n < m)
    BY <1>1, <2>1 DEF OpToRel
  <2> QED
    BY <2>2
<1> QED
  BY <1>2

(* Ballots.tla counts as this module does. *)
LEMMA SameCardinality == \A S : B!Cardinality(S) = Cardinality(S)
  BY DEF Cardinality, B!Cardinality

LEMMA CardinalityOfSubset ==
  ASSUME NEW I, IsFiniteSet(I), NEW J \in SUBSET I
  PROVE  IsFiniteSet(J) /\ Cardinality(J) \in Nat /\ Cardinality(J) <= Cardinality(I)
BY FS_Subset, FS_CardinalityType

(* What each member of a finite set is mapped to, all different, is as many. *)
LEMMA CardinalityOfImage ==
  ASSUME NEW I, IsFiniteSet(I), NEW f, \A i, j \in I : f[i] = f[j] => i = j
  PROVE  /\ IsFiniteSet({f[i] : i \in I})
         /\ Cardinality({f[i] : i \in I}) = Cardinality(I)
<1> DEFINE g == [i \in I |-> f[i]]
           T == {f[i] : i \in I}
<1>1. g \in Bijection(I, T)
  BY DEF Bijection, Injection, Surjection, IsInjective
<1> QED
  BY <1>1, FS_Bijection DEF ExistsBijection

-----------------------------------------------------------------------------
(* Counter.most_common(1). *)

(* It returns a value that occurs, and none occurs more often.               *)
LEMMA MostFrequent ==
  ASSUME NEW v, NEW I \in SUBSET Nat, IsFiniteSet(I), I # {}
  PROVE  \E i \in I : /\ MostCommon(v, I) = v[i]
                      /\ \A j \in I : Count(v, I, j) <= Count(v, I, i)
<1> DEFINE First(i) == \A j \in I : /\ Count(v, I, j) <= Count(v, I, i)
                                    /\ j < i => Count(v, I, j) < Count(v, I, i)
<1>1. \A i \in I : Count(v, I, i) \in Nat /\ Count(v, I, i) <= Cardinality(I)
  <2>1. SUFFICES ASSUME NEW i \in I
                 PROVE  Count(v, I, i) \in Nat /\ Count(v, I, i) <= Cardinality(I)
    OBVIOUS
  <2>2. {j \in I : v[j] = v[i]} \in SUBSET I
    OBVIOUS
  <2> QED
    BY <2>2, CardinalityOfSubset DEF Count
<1>2. Cardinality(I) \in Nat
  BY FS_CardinalityType
<1> DEFINE short == {Cardinality(I) - Count(v, I, i) : i \in I}
<1>3. PICK m \in short : \A n \in short : m <= n
  <2>1. ASSUME NEW i \in I PROVE Cardinality(I) - Count(v, I, i) \in Nat
    BY <1>1, <1>2
  <2>2. short \in SUBSET Nat /\ short # {}
    BY <2>1
  <2> HIDE DEF short
  <2> QED
    BY <2>2, LeastNatural
<1> DEFINE best == {i \in I : \A j \in I : Count(v, I, j) <= Count(v, I, i)}
<1>4. best # {}
  <2>1. PICK i \in I : m = Cardinality(I) - Count(v, I, i)
    BY <1>3
  <2>2. ASSUME NEW j \in I PROVE Count(v, I, j) <= Count(v, I, i)
    <3>1. m <= Cardinality(I) - Count(v, I, j)
      BY <1>3
    <3> QED
      BY <2>1, <3>1, <1>1, <1>2
  <2> QED
    BY <2>2
<1>5. PICK i \in best : \A j \in best : i <= j
  <2>1. best \in SUBSET Nat
    OBVIOUS
  <2> HIDE DEF best
  <2> QED
    BY <2>1, <1>4, LeastNatural
<1>6. First(i)
  <2>1. SUFFICES ASSUME NEW j \in I, j < i PROVE Count(v, I, j) < Count(v, I, i)
    BY <1>5
  <2>2. j \notin best
    BY <2>1, <1>5
  <2>3. PICK k \in I : ~(Count(v, I, k) <= Count(v, I, j))
    BY <2>2
  <2>4. Count(v, I, k) <= Count(v, I, i)
    BY <1>5
  <2> QED
    BY <2>3, <2>4, <1>1
<1>7. \E k \in I : First(k)
  BY <1>5, <1>6
<1> DEFINE c == CHOOSE k \in I : First(k)
<1>8. c \in I /\ First(c)
  BY <1>7
<1>9. MostCommon(v, I) = v[c]
  BY DEF MostCommon
<1> HIDE DEF c
<1> QED
  BY <1>8, <1>9

(* A value that more than half of the entries have is the most common one.   *)
LEMMA StrictMajority ==
  ASSUME NEW v, NEW I \in SUBSET Nat, IsFiniteSet(I), NEW c,
         Cardinality(I) < 2 * Cardinality({i \in I : v[i] = c})
  PROVE  MostCommon(v, I) = c
<1> DEFINE C == {i \in I : v[i] = c}
<1>1. IsFiniteSet(C) /\ Cardinality(C) \in Nat /\ Cardinality(I) \in Nat
  BY CardinalityOfSubset, FS_CardinalityType
<1>2. C # {}
  BY <1>1, FS_EmptySet
<1>3. PICK i \in I : /\ MostCommon(v, I) = v[i]
                     /\ \A j \in I : Count(v, I, j) <= Count(v, I, i)
  BY <1>2, MostFrequent
<1>4. SUFFICES ASSUME v[i] # c PROVE FALSE
  BY <1>3
<1> DEFINE D == {j \in I : v[j] = v[i]}
<1>5. Cardinality(C) <= Cardinality(D)
  <2>1. PICK j \in C : TRUE
    BY <1>2
  <2>2. Count(v, I, j) = Cardinality(C) /\ Count(v, I, i) = Cardinality(D)
    BY <2>1 DEF Count
  <2> QED
    BY <1>3, <2>1, <2>2
<1>6. IsFiniteSet(D) /\ Cardinality(D) \in Nat
  BY CardinalityOfSubset
<1>7. C \cap D # {}
  <2>1. C \subseteq I /\ D \subseteq I
    OBVIOUS
  <2> HIDE DEF C, D
  <2>2. Cardinality(C) + Cardinality(D) > Cardinality(I)
    BY <1>1, <1>5, <1>6 DEF C
  <2> QED
    BY <2>1, <2>2, FS_MajoritiesIntersect
<1> QED
  BY <1>4, <1>7
-----------------------------------------------------------------------------
(* The majority of a list of proofs. *)

OfHash(s, h) == {i \in DOMAIN s : HashOf(s[i]) = h}

OfHashAndH(s, h, w) == {i \in OfHash(s, h) : HOf(s[i]) = w}

LEMMA Positions ==
  ASSUME NEW s \in Seq(Proof)
  PROVE  /\ IsFiniteSet(DOMAIN s) /\ DOMAIN s \in SUBSET Nat /\ Cardinality(DOMAIN s) = Len(s)
         /\ \A i \in DOMAIN s : /\ s[i] \in Proof
                                /\ HashOf(s[i]) \in B!Values
                                /\ HOf(s[i]) \in B!Values
<1>1. DOMAIN s = 1..Len(s) /\ Len(s) \in Nat
  OBVIOUS
<1>2. IsFiniteSet(1..Len(s)) /\ Cardinality(1..Len(s)) = Len(s)
  BY <1>1, FS_Interval
<1>3. ASSUME NEW i \in DOMAIN s
      PROVE  /\ s[i] \in Proof
             /\ HashOf(s[i]) \in B!Values
             /\ HOf(s[i]) \in B!Values
  BY DEF HashOf, HOf, B!HashOf, B!HOf, B!Values
<1> QED
  BY <1>1, <1>2, <1>3

LEMMA HashCounts ==
  ASSUME NEW s \in Seq(Proof), NEW i \in DOMAIN s
  PROVE  Count(Hashes(s), DOMAIN s, i) = Cardinality(OfHash(s, HashOf(s[i])))
<1>1. {j \in DOMAIN s : Hashes(s)[j] = Hashes(s)[i]} = OfHash(s, HashOf(s[i]))
  BY DEF Hashes, OfHash
<1> QED
  BY <1>1 DEF Count

LEMMA HCounts ==
  ASSUME NEW s \in Seq(Proof), NEW h, NEW i \in OfHash(s, h)
  PROVE  Count(Hs(s), OfHash(s, h), i) = Cardinality(OfHashAndH(s, h, HOf(s[i])))
<1>1. {j \in OfHash(s, h) : Hs(s)[j] = Hs(s)[i]} = OfHashAndH(s, h, HOf(s[i]))
  BY DEF Hs, OfHash, OfHashAndH
<1> QED
  BY <1>1 DEF Count

(* The vote comes to one hash and one H, both at least as frequent as any.   *)
LEMMA MajorityIsPlurality ==
  ASSUME NEW s \in Seq(Proof), s # << >>
  PROVE  \E h, w \in B!Values :
           /\ Majority(s) = OfHashAndH(s, h, w)
           /\ OfHashAndH(s, h, w) # {}
           /\ \A g \in B!Values : Cardinality(OfHash(s, g)) <= Cardinality(OfHash(s, h))
           /\ \A x \in B!Values :
                Cardinality(OfHashAndH(s, h, x)) <= Cardinality(OfHashAndH(s, h, w))
<1>1. PICK i \in DOMAIN s :
        /\ MostCommon(Hashes(s), DOMAIN s) = Hashes(s)[i]
        /\ \A j \in DOMAIN s : Count(Hashes(s), DOMAIN s, j) <= Count(Hashes(s), DOMAIN s, i)
  BY Positions, MostFrequent
<1> DEFINE h == HashOf(s[i])
           I == OfHash(s, h)
<1>2. Candidates(s) = I
  <2>1. MostCommon(Hashes(s), DOMAIN s) = h
    BY <1>1 DEF Hashes
  <2> QED
    BY <2>1 DEF Candidates, OfHash
<1>3. I \in SUBSET DOMAIN s /\ i \in I
  BY DEF OfHash
<1>4. IsFiniteSet(I) /\ I \in SUBSET Nat /\ I # {}
  BY <1>3, Positions, CardinalityOfSubset
<1>5. PICK k \in I : /\ MostCommon(Hs(s), I) = Hs(s)[k]
                     /\ \A j \in I : Count(Hs(s), I, j) <= Count(Hs(s), I, k)
  BY <1>4, MostFrequent
<1> DEFINE w == HOf(s[k])
<1>6. Majority(s) = OfHashAndH(s, h, w)
  <2>1. MostCommon(Hs(s), I) = w
    BY <1>3, <1>5 DEF Hs
  <2> QED
    BY <2>1, <1>2 DEF Majority, OfHashAndH
<1>7. k \in OfHashAndH(s, h, w)
  BY DEF OfHashAndH
<1>8. h \in B!Values /\ w \in B!Values
  BY <1>3, Positions
<1>9. ASSUME NEW g \in B!Values
      PROVE  Cardinality(OfHash(s, g)) <= Cardinality(OfHash(s, h))
  <2>1. CASE OfHash(s, g) = {}
    <3>1. Cardinality(OfHash(s, g)) = 0
      BY <2>1, FS_EmptySet
    <3> QED
      BY <3>1, <1>4, FS_CardinalityType
  <2>2. CASE OfHash(s, g) # {}
    <3>1. PICK j \in DOMAIN s : HashOf(s[j]) = g
      BY <2>2 DEF OfHash
    <3> QED
      BY <1>1, <3>1, HashCounts
  <2> QED
    BY <2>1, <2>2
<1>10. ASSUME NEW x \in B!Values
       PROVE  Cardinality(OfHashAndH(s, h, x)) <= Cardinality(OfHashAndH(s, h, w))
  <2>1. CASE OfHashAndH(s, h, x) = {}
    <3>1. Cardinality(OfHashAndH(s, h, x)) = 0
      BY <2>1, FS_EmptySet
    <3>2. OfHashAndH(s, h, w) \in SUBSET I
      BY DEF OfHashAndH
    <3> QED
      BY <3>1, <3>2, <1>4, CardinalityOfSubset
  <2>2. CASE OfHashAndH(s, h, x) # {}
    <3>1. PICK j \in I : HOf(s[j]) = x
      BY <2>2 DEF OfHashAndH
    <3> QED
      BY <1>5, <3>1, HCounts
  <2> QED
    BY <2>1, <2>2
<1> HIDE DEF h, w
<1> QED
  BY <1>6, <1>7, <1>8, <1>9, <1>10

(* More than half of a list with one hash and one H are its majority.        *)
LEMMA MajorityIsMostOf ==
  ASSUME NEW s \in Seq(Proof), NEW h, NEW w,
         Len(s) < 2 * Cardinality(OfHashAndH(s, h, w))
  PROVE  Majority(s) = OfHashAndH(s, h, w)
<1> DEFINE I == OfHash(s, h)
<1>1. IsFiniteSet(DOMAIN s) /\ DOMAIN s \in SUBSET Nat /\ Cardinality(DOMAIN s) = Len(s)
  BY Positions
<1>2. I \in SUBSET DOMAIN s
  BY DEF OfHash
<1>3. IsFiniteSet(I) /\ Cardinality(I) \in Nat /\ Cardinality(I) <= Len(s) /\ I \in SUBSET Nat
  BY <1>1, <1>2, CardinalityOfSubset
<1>4. OfHashAndH(s, h, w) \in SUBSET I
  BY DEF OfHashAndH
<1>5. /\ Cardinality(OfHashAndH(s, h, w)) \in Nat
      /\ Cardinality(OfHashAndH(s, h, w)) <= Cardinality(I)
  BY <1>3, <1>4, CardinalityOfSubset
<1>6. I = {i \in DOMAIN s : Hashes(s)[i] = h}
  BY DEF OfHash, Hashes
<1>7. OfHashAndH(s, h, w) = {i \in I : Hs(s)[i] = w}
  BY <1>2 DEF OfHashAndH, Hs
<1> HIDE DEF I
<1>8. MostCommon(Hashes(s), DOMAIN s) = h
  <2>1. Cardinality(DOMAIN s) < 2 * Cardinality(I)
    BY <1>1, <1>3, <1>5
  <2> DEFINE D == DOMAIN s
             v == Hashes(s)
  <2>2. /\ Cardinality(D) < 2 * Cardinality({i \in D : v[i] = h})
        /\ D \in SUBSET Nat /\ IsFiniteSet(D)
    BY <2>1, <1>1, <1>6
  <2> HIDE DEF D, v
  <2>3. MostCommon(v, D) = h
    BY <2>2, StrictMajority
  <2> QED
    BY <2>3 DEF D, v
<1>9. MostCommon(Hs(s), I) = w
  <2>1. Cardinality(I) < 2 * Cardinality({i \in I : Hs(s)[i] = w})
    BY <1>3, <1>5, <1>7
  <2> QED
    BY <1>3, <2>1, StrictMajority
<1>10. Candidates(s) = I
  BY <1>8 DEF Candidates, OfHash, I
<1> QED
  BY <1>9, <1>10 DEF Majority, OfHashAndH, I
-----------------------------------------------------------------------------
(* The inductive invariant. *)

LEMMA Deployed == node_at \in Deployments => node_at \in [Peers -> Nodes]
  BY RoundConstants

LEMMA InvariantInit == Init => InductiveInvariant
<1> SUFFICES ASSUME Init PROVE InductiveInvariant
  OBVIOUS
<1> USE DEF Init
<1>1. TypeOK
  BY DEF TypeOK, Stages
<1>2. AnswersOnce /\ VotesOnce /\ FirstVotes /\ AllHeard
  BY DEF AnswersOnce, VotesOnce, FirstVotes, AllHeard
<1>3. OwnNodesAllVote
  BY DEF OwnNodesAllVote
<1>4. VotesInTime /\ VerdictIsMajority /\ SearchIsFair
  BY DEF VotesInTime, Decided, VerdictIsMajority, SearchIsFair
<1> QED
  BY <1>1, <1>2, <1>3, <1>4 DEF InductiveInvariant

(* A new answer goes to the end of the list, before the round begins.        *)
LEMMA AnswerKeeps ==
  ASSUME InductiveInvariant, NEW peer \in Peers, Answer(peer)
  PROVE  InductiveInvariant'
<1> USE DEF InductiveInvariant
<1>1. PICK kind \in Kinds :
        proofs' = Append(proofs, [node_id |-> node_at[peer], peer |-> peer, kind |-> kind])
  BY DEF Answer
<1> DEFINE new == [node_id |-> node_at[peer], peer |-> peer, kind |-> kind]
<1>2. new \in Proof
  BY Deployed DEF TypeOK, Proof
<1>3. /\ proofs' \in Seq(Proof)
      /\ Len(proofs') = Len(proofs) + 1
      /\ DOMAIN proofs' = DOMAIN proofs \cup {Len(proofs) + 1}
      /\ proofs'[Len(proofs) + 1] = new
      /\ \A i \in DOMAIN proofs : proofs'[i] = proofs[i]
  BY <1>1, <1>2 DEF TypeOK
<1>4. added = 0 /\ prepare_messages = << >> /\ search = "none"
  <2>1. added = 0 /\ search = "none"
    BY DEF Answer, VotesInTime, SearchIsFair
  <2>2. ASSUME prepare_messages # << >> PROVE FALSE
    <3>1. 1 \in DOMAIN prepare_messages
      BY <2>2 DEF TypeOK
    <3>2. PICK k \in 1..added : proofs[k] = prepare_messages[1]
      BY <3>1 DEF FirstVotes
    <3> QED
      BY <2>1, <3>2
  <2> QED
    BY <2>1, <2>2
<1>5. TypeOK'
  BY <1>3, <1>4 DEF TypeOK, Answer
<1>6. AnswersOnce'
  <2>1. \A i \in DOMAIN proofs : proofs[i].peer # peer
    BY DEF Answer
  <2>2. new.node_id = node_at[new.peer] /\ new.peer = peer
    OBVIOUS
  <2> HIDE DEF new
  <2> QED
    BY <1>3, <2>1, <2>2 DEF AnswersOnce, Answer
<1>7. VotesOnce' /\ FirstVotes' /\ AllHeard'
  BY <1>4 DEF Answer, VotesOnce, FirstVotes, AllHeard
<1>8. OwnNodesAllVote'
  BY <1>3, <1>4 DEF Answer, OwnNodesAllVote
<1>9. VotesInTime' /\ VerdictIsMajority' /\ SearchIsFair'
  BY <1>4 DEF Answer, VotesInTime, Decided, VerdictIsMajority, SearchIsFair
<1> QED
  BY <1>5, <1>6, <1>7, <1>8, <1>9

LEMMA StopKeeps == InductiveInvariant /\ StopCollecting => InductiveInvariant'
<1> SUFFICES ASSUME InductiveInvariant, StopCollecting PROVE InductiveInvariant'
  OBVIOUS
<1> USE DEF InductiveInvariant, StopCollecting
<1>1. TypeOK'
  BY DEF TypeOK, Stages
<1>2. AnswersOnce' /\ VotesOnce' /\ FirstVotes'
  BY DEF AnswersOnce, VotesOnce, FirstVotes
<1>3. AllHeard' /\ OwnNodesAllVote'
  BY DEF AllHeard, Seen, OwnNodesAllVote, OwnNodes
<1>4. VotesInTime' /\ VerdictIsMajority' /\ SearchIsFair'
  BY DEF VotesInTime, Decided, VerdictIsMajority, SearchIsFair
<1> QED
  BY <1>1, <1>2, <1>3, <1>4

(* The next proof votes if its node has not: it is the first of its node,    *)
(* because every proof before it is by a node that has been heard.           *)
LEMMA AddKeeps == InductiveInvariant /\ AddPrepareMessage => InductiveInvariant'
<1> SUFFICES ASSUME InductiveInvariant, AddPrepareMessage PROVE InductiveInvariant'
  OBVIOUS
<1> USE DEF InductiveInvariant
<1> DEFINE next == proofs[added + 1]
<1>0. /\ added \in Nat /\ added + 1 \in DOMAIN proofs /\ next \in Proof
      /\ added' = added + 1 /\ 1..added' = 1..added \cup {added + 1}
      /\ proofs \in Seq(Proof) /\ prepare_messages \in Seq(Proof)
      /\ proofs' = proofs /\ node_at' = node_at /\ stage' = stage /\ stage = "preparing"
      /\ search' = search /\ search = "none"
      /\ accepted' = accepted /\ chosen' = chosen
  BY DEF TypeOK, AddPrepareMessage, SearchIsFair
<1>1. CASE next.node_id \notin Seen
  <2>1. prepare_messages' = Append(prepare_messages, next)
    BY <1>1 DEF AddPrepareMessage, Enters
  <2> HIDE DEF next
  <2> DEFINE last == Len(prepare_messages) + 1
  <2>2. /\ prepare_messages' \in Seq(Proof)
        /\ DOMAIN prepare_messages' = DOMAIN prepare_messages \cup {last}
        /\ prepare_messages'[last] = next
        /\ \A i \in DOMAIN prepare_messages : prepare_messages'[i] = prepare_messages[i]
        /\ last \notin DOMAIN prepare_messages
    BY <1>0, <2>1
  <2> HIDE DEF last
  <2>3. TypeOK'
    BY <1>0, <2>2 DEF TypeOK
  <2>4. VotesOnce'
    BY <1>1, <2>2 DEF VotesOnce, Seen
  <2>5. FirstVotes'
    <3>1. \A l \in 1..added : proofs[l].node_id # next.node_id
      BY <1>1 DEF AllHeard
    <3>2. \A l \in 1..added' : proofs[l].node_id = next.node_id => added + 1 <= l
      BY <1>0, <3>1
    <3>3. \E k \in 1..added' : /\ proofs[k] = next
                               /\ \A l \in 1..added' : proofs[l].node_id = proofs[k].node_id => k <= l
      BY <1>0, <3>2 DEF next
    <3>4. ASSUME NEW i \in DOMAIN prepare_messages
          PROVE  \E k \in 1..added' :
                   /\ proofs[k] = prepare_messages[i]
                   /\ \A l \in 1..added' : proofs[l].node_id = proofs[k].node_id => k <= l
      <4>1. PICK k \in 1..added :
              /\ proofs[k] = prepare_messages[i]
              /\ \A l \in 1..added : proofs[l].node_id = proofs[k].node_id => k <= l
        BY DEF FirstVotes
      <4>2. k \in 1..added' /\ k <= added + 1
        BY <1>0
      <4>3. \A l \in 1..added' : proofs[l].node_id = proofs[k].node_id => k <= l
        BY <1>0, <4>1, <4>2
      <4> QED
        BY <4>1, <4>2, <4>3
    <3>5. ASSUME NEW i \in DOMAIN prepare_messages'
          PROVE  \E k \in 1..added' :
                   /\ proofs'[k] = prepare_messages'[i]
                   /\ \A l \in 1..added' : proofs'[l].node_id = proofs'[k].node_id => k <= l
      <4>1. CASE i = last
        BY <4>1, <1>0, <2>2, <3>3
      <4>2. CASE i \in DOMAIN prepare_messages
        <5>1. prepare_messages'[i] = prepare_messages[i] /\ proofs' = proofs
          BY <4>2, <1>0, <2>2
        <5> QED
          BY <4>2, <5>1, <3>4, Zenon
      <4> QED
        BY <4>1, <4>2, <2>2
    <3> QED
      BY <3>5 DEF FirstVotes
  <2>6. AllHeard'
    <3>1. Seen' = Seen \cup {next.node_id}
      BY <2>2 DEF Seen
    <3> QED
      BY <1>0, <3>1 DEF AllHeard, next
  <2>7. OwnNodesAllVote'
    <3>1. SUFFICES ASSUME OwnNodes PROVE prepare_messages' = SubSeq(proofs, 1, added + 1)
      BY <1>0 DEF OwnNodesAllVote, OwnNodes
    <3>2. prepare_messages = SubSeq(proofs, 1, added)
      BY <3>1 DEF OwnNodesAllVote
    <3> QED
      BY <1>0, <2>1, <3>2 DEF next
  <2> QED
    BY <1>0, <2>3, <2>4, <2>5, <2>6, <2>7
    DEF AnswersOnce, VotesInTime, Decided, VerdictIsMajority, SearchIsFair
<1>2. CASE next.node_id \in Seen
  <2>1. prepare_messages' = prepare_messages
    BY <1>2 DEF AddPrepareMessage, Enters
  <2>2. TypeOK' /\ VotesOnce'
    BY <1>0, <2>1 DEF TypeOK, VotesOnce
  <2>3. FirstVotes'
    <3>1. ASSUME NEW i \in DOMAIN prepare_messages
          PROVE  \E k \in 1..added' :
                   /\ proofs[k] = prepare_messages[i]
                   /\ \A l \in 1..added' : proofs[l].node_id = proofs[k].node_id => k <= l
      <4>1. PICK k \in 1..added :
              /\ proofs[k] = prepare_messages[i]
              /\ \A l \in 1..added : proofs[l].node_id = proofs[k].node_id => k <= l
        BY DEF FirstVotes
      <4>2. k \in 1..added' /\ k <= added + 1
        BY <1>0
      <4>3. \A l \in 1..added' : proofs[l].node_id = proofs[k].node_id => k <= l
        BY <1>0, <4>1, <4>2
      <4> QED
        BY <4>1, <4>2, <4>3
    <3> QED
      BY <1>0, <2>1, <3>1 DEF FirstVotes
  <2>4. AllHeard'
    BY <1>0, <1>2, <2>1 DEF AllHeard, Seen
  <2>5. OwnNodesAllVote'
    <3>1. SUFFICES ASSUME OwnNodes PROVE FALSE
      BY <1>0 DEF OwnNodesAllVote, OwnNodes
    <3>2. PICK i \in DOMAIN prepare_messages : prepare_messages[i].node_id = next.node_id
      BY <1>2 DEF Seen
    <3>3. PICK k \in 1..added : proofs[k] = prepare_messages[i]
      BY DEF FirstVotes
    <3>4. k \in DOMAIN proofs /\ k # added + 1
      BY <1>0
    <3>5. proofs[k].peer \in Peers /\ next.peer \in Peers
      <4>1. proofs[k] \in Proof /\ next \in Proof
        BY <1>0, <3>4, Positions
      <4> HIDE DEF next
      <4> QED
        BY <4>1 DEF Proof
    <3>6. proofs[k].peer = next.peer
      <4>1. proofs[k].node_id = next.node_id
        BY <3>2, <3>3
      <4>2. added + 1 \in DOMAIN proofs
        BY <1>0
      <4>3. /\ proofs[k].node_id = node_at[proofs[k].peer]
            /\ next.node_id = node_at[next.peer]
        BY <3>4, <4>2 DEF AnswersOnce
      <4> HIDE DEF next
      <4> QED
        BY <3>1, <3>5, <4>1, <4>3 DEF OwnNodes
    <3> QED
      BY <1>0, <3>4, <3>6 DEF AnswersOnce
  <2> QED
    BY <1>0, <2>2, <2>3, <2>4, <2>5
    DEF AnswersOnce, VotesInTime, Decided, VerdictIsMajority, SearchIsFair
<1> QED
  BY <1>1, <1>2

LEMMA MajorityIsPart == \A s : Majority(s) \subseteq DOMAIN s
  BY DEF Majority, Candidates

LEMMA CommitKeeps == InductiveInvariant /\ TryCommit => InductiveInvariant'
<1> SUFFICES ASSUME InductiveInvariant, TryCommit PROVE InductiveInvariant'
  OBVIOUS
<1> USE DEF InductiveInvariant
<1> DEFINE agreeing == IF prepare_messages = << >> THEN {} ELSE Majority(prepare_messages)
<1>1. /\ UNCHANGED <<node_at, proofs, added, prepare_messages, chosen, search>>
      /\ added = Len(proofs) /\ search = "none"
      /\ \/ Cardinality(agreeing) >= B!Quorum /\ stage' = "committed" /\ accepted' = agreeing
         \/ ~(Cardinality(agreeing) >= B!Quorum) /\ stage' = "failed" /\ accepted' = accepted
  BY DEF TryCommit, SearchIsFair
<1>2. TypeOK'
  BY <1>1, MajorityIsPart DEF TypeOK, Stages
<1>3. AnswersOnce' /\ VotesOnce' /\ FirstVotes'
  BY <1>1 DEF AnswersOnce, VotesOnce, FirstVotes
<1>4. AllHeard' /\ OwnNodesAllVote'
  BY <1>1 DEF AllHeard, Seen, OwnNodesAllVote, OwnNodes
<1>5. VotesInTime' /\ SearchIsFair'
  BY <1>1 DEF VotesInTime, Decided, SearchIsFair
<1>6. VerdictIsMajority'
  <2>1. B!Quorum \in Nat /\ 0 < B!Quorum
    BY RoundConstants DEF B!Quorum
  <2>2. prepare_messages = << >> => Cardinality(agreeing) = 0
    BY FS_EmptySet
  <2>3. prepare_messages # << >> => agreeing = Majority(prepare_messages)
    OBVIOUS
  <2>4. IsFiniteSet(agreeing) /\ Cardinality(agreeing) \in Nat
    <3>1. agreeing \in SUBSET DOMAIN prepare_messages
      BY MajorityIsPart
    <3> QED
      BY <3>1, Positions, CardinalityOfSubset DEF TypeOK
  <2> HIDE DEF agreeing
  <2>5. CASE Cardinality(agreeing) >= B!Quorum
    <3>1. prepare_messages # << >>
      BY <2>1, <2>2, <2>5
    <3> QED
      BY <1>1, <2>3, <2>5, <3>1 DEF VerdictIsMajority
  <2>6. CASE ~(Cardinality(agreeing) >= B!Quorum)
    <3>1. stage' = "failed" /\ Cardinality(agreeing) < B!Quorum
      BY <1>1, <2>1, <2>4, <2>6
    <3> QED
      BY <1>1, <2>3, <3>1 DEF VerdictIsMajority
  <2> QED
    BY <2>5, <2>6
<1> QED
  BY <1>2, <1>3, <1>4, <1>5, <1>6

LEMMA SearchKeeps == InductiveInvariant /\ Search => InductiveInvariant'
<1> SUFFICES ASSUME InductiveInvariant, Search PROVE InductiveInvariant'
  OBVIOUS
<1> USE DEF InductiveInvariant
<1> DEFINE ends == {I \in Combinations(clean_proofs) : EndsSearch(I)}
<1>1. /\ UNCHANGED <<node_at, proofs, added, prepare_messages, accepted>>
      /\ stage = "committed" /\ stage' = "searched"
  BY DEF Search
<1>2. \/ ends = {} /\ search' = "mismatch" /\ chosen' = chosen
      \/ \E first \in ends : Raises(first) /\ search' = "raised" /\ chosen' = chosen
      \/ \E first \in ends : /\ ~Raises(first) /\ search' = "found"
                             /\ chosen' = {proofs[i].node_id : i \in first}
  BY DEF Search
<1>3. TypeOK'
  <2>1. \A first \in ends : {proofs[i].node_id : i \in first} \subseteq Nodes
    <3>1. SUFFICES ASSUME NEW first \in ends, NEW i \in first PROVE proofs[i].node_id \in Nodes
      OBVIOUS
    <3>2. i \in DOMAIN proofs
      BY MajorityIsPart DEF Combinations, clean_proofs
    <3>3. proofs[i] \in Proof
      BY <3>2, Positions DEF TypeOK
    <3> QED
      BY <3>3 DEF Proof
  <2> HIDE DEF ends
  <2> QED
    BY <1>1, <1>2, <2>1 DEF TypeOK, Stages
<1>4. AnswersOnce' /\ VotesOnce' /\ FirstVotes'
  BY <1>1 DEF AnswersOnce, VotesOnce, FirstVotes
<1>5. AllHeard' /\ OwnNodesAllVote'
  BY <1>1 DEF AllHeard, Seen, OwnNodesAllVote, OwnNodes
<1>6. VotesInTime' /\ VerdictIsMajority'
  BY <1>1 DEF VotesInTime, Decided, VerdictIsMajority
<1>7. SearchIsFair'
  <2>1. /\ clean_proofs' = clean_proofs
        /\ \A I : (Raises(I))' <=> Raises(I)
        /\ \A I : (Rebuilds(I))' <=> Rebuilds(I)
        /\ \A I : (EndsSearch(I))' <=> EndsSearch(I)
    BY <1>1 DEF clean_proofs, Raises, Rebuilds, EndsSearch
  <2>2. \A I \in ends : I \in Combinations(clean_proofs) /\ (Raises(I) \/ Rebuilds(I))
    BY DEF EndsSearch
  <2>3. CASE ends = {} /\ search' = "mismatch"
    BY <1>1, <2>1, <2>3 DEF SearchIsFair
  <2>4. CASE \E first \in ends : Raises(first) /\ search' = "raised"
    BY <1>1, <2>1, <2>2, <2>4 DEF SearchIsFair
  <2>5. CASE \E first \in ends : /\ ~Raises(first) /\ search' = "found"
                                 /\ chosen' = {proofs[i].node_id : i \in first}
    BY <1>1, <2>1, <2>2, <2>5 DEF SearchIsFair
  <2> QED
    BY <1>2, <2>3, <2>4, <2>5
<1> QED
  BY <1>3, <1>4, <1>5, <1>6, <1>7

LEMMA InvariantNext == InductiveInvariant /\ [Next]_vars => InductiveInvariant'
<1>1. ASSUME InductiveInvariant, UNCHANGED vars PROVE InductiveInvariant'
  BY <1>1 DEF vars, InductiveInvariant, TypeOK, AnswersOnce, VotesOnce, FirstVotes, AllHeard,
              Seen, OwnNodesAllVote, OwnNodes, VotesInTime, Decided, VerdictIsMajority,
              SearchIsFair, clean_proofs, Raises, Rebuilds, EndsSearch
<1> QED
  BY <1>1, AnswerKeeps, StopKeeps, AddKeeps, CommitKeeps, SearchKeeps DEF Next

(* The invariant holds, for any number of peers below two quorums, nodes     *)
(* behind several peers, and any order and mix of answers.                   *)
THEOREM Invariance == Spec => []InductiveInvariant
  BY InvariantInit, InvariantNext, PTL DEF Spec

(* Every variable keeps its type: no None among the proofs that vote.        *)
THEOREM TypeCorrect == Spec => []TypeOK
<1>1. InductiveInvariant => TypeOK
  BY DEF InductiveInvariant
<1> QED
  BY Invariance, <1>1, PTL
-----------------------------------------------------------------------------
(* The votes of a decided round are the ballot of its nodes. *)

LEMMA BallotIsVotes ==
  ASSUME InductiveInvariant, Decided
  PROVE  /\ \A i \in DOMAIN prepare_messages :
              /\ prepare_messages[i].node_id \in Nodes
              /\ prepare_messages[i].kind \in B!Proofs
              /\ ballot[prepare_messages[i].node_id] = prepare_messages[i].kind
         /\ \A n \in Nodes : ballot[n] \in B!Proofs => n \in Seen
<1> USE DEF InductiveInvariant
<1>1. added = Len(proofs) /\ DOMAIN proofs = 1..added
  BY DEF VotesInTime, TypeOK
<1>2. ASSUME NEW i \in DOMAIN prepare_messages
      PROVE  /\ prepare_messages[i].node_id \in Nodes
             /\ prepare_messages[i].kind \in B!Proofs
             /\ ballot[prepare_messages[i].node_id] = prepare_messages[i].kind
  <2>1. prepare_messages[i] \in Proof
    BY Positions DEF TypeOK
  <2> DEFINE n == prepare_messages[i].node_id
  <2>2. n \in Nodes /\ prepare_messages[i].kind \in B!Proofs
    BY <2>1, RoundConstants DEF Proof
  <2>3. PICK k \in 1..added :
          /\ proofs[k] = prepare_messages[i]
          /\ \A l \in 1..added : proofs[l].node_id = proofs[k].node_id => k <= l
    BY DEF FirstVotes
  <2>4. k \in ProofsBy(n) /\ \A l \in ProofsBy(n) : k <= l
    BY <1>1, <2>3 DEF ProofsBy
  <2> HIDE DEF n
  <2> DEFINE First(j) == j \in ProofsBy(n) /\ \A l \in ProofsBy(n) : j <= l
             c == CHOOSE j \in ProofsBy(n) : \A l \in ProofsBy(n) : j <= l
  <2>5. c \in ProofsBy(n) /\ \A l \in ProofsBy(n) : c <= l
    BY <2>4
  <2>6. ballot[n] = proofs[c].kind
    BY <2>2, <2>4 DEF ballot
  <2> HIDE DEF c
  <2>7. c = k
    BY <1>1, <2>4, <2>5 DEF ProofsBy
  <2> QED
    BY <2>2, <2>3, <2>6, <2>7 DEF n
<1>3. ASSUME NEW n \in Nodes, ballot[n] \in B!Proofs PROVE n \in Seen
  <2>1. ProofsBy(n) # {}
    BY <1>3 DEF ballot, B!Proofs
  <2> QED
    BY <2>1, <1>1 DEF ProofsBy, AllHeard
<1> QED
  BY <1>2, <1>3

IdsOf(I) == {prepare_messages[i].node_id : i \in I}

LEMMA CountIds ==
  ASSUME InductiveInvariant, NEW I \in SUBSET DOMAIN prepare_messages
  PROVE  IsFiniteSet(I) /\ Cardinality(I) \in Nat /\ Cardinality(IdsOf(I)) = Cardinality(I)
<1> DEFINE f == [i \in DOMAIN prepare_messages |-> prepare_messages[i].node_id]
<1>1. IsFiniteSet(I) /\ Cardinality(I) \in Nat
  BY Positions, CardinalityOfSubset DEF InductiveInvariant, TypeOK
<1>2. \A i, j \in I : f[i] = f[j] => i = j
  BY DEF InductiveInvariant, VotesOnce
<1>3. {f[i] : i \in I} = IdsOf(I)
  BY DEF IdsOf
<1> HIDE DEF f
<1>4. Cardinality({f[i] : i \in I}) = Cardinality(I)
  BY <1>1, <1>2, CardinalityOfImage
<1> QED
  BY <1>1, <1>3, <1>4

LEMMA VotesAreBallots ==
  ASSUME InductiveInvariant, Decided, NEW h, NEW w
  PROVE  /\ IdsOf(OfHash(prepare_messages, h)) = B!ForHash(ballot, h)
         /\ IdsOf(OfHashAndH(prepare_messages, h, w)) = B!ForHashAndH(ballot, h, w)
         /\ Cardinality(OfHash(prepare_messages, h)) = Cardinality(B!ForHash(ballot, h))
         /\ Cardinality(OfHashAndH(prepare_messages, h, w))
              = Cardinality(B!ForHashAndH(ballot, h, w))
<1>1. \A i \in DOMAIN prepare_messages :
        /\ prepare_messages[i].node_id \in Nodes
        /\ ballot[prepare_messages[i].node_id] \in B!Proofs
        /\ HashOf(prepare_messages[i]) = B!HashOf(ballot[prepare_messages[i].node_id])
        /\ HOf(prepare_messages[i]) = B!HOf(ballot[prepare_messages[i].node_id])
  BY BallotIsVotes DEF HashOf, HOf
<1>2. \A n \in Nodes : ballot[n] \in B!Proofs =>
        \E i \in DOMAIN prepare_messages : n = prepare_messages[i].node_id
  BY BallotIsVotes DEF Seen
<1>3. IdsOf(OfHash(prepare_messages, h)) = B!ForHash(ballot, h)
  <2>1. ASSUME NEW n \in IdsOf(OfHash(prepare_messages, h)) PROVE n \in B!ForHash(ballot, h)
    BY <1>1 DEF IdsOf, OfHash, B!ForHash, B!Voters
  <2>2. ASSUME NEW n \in B!ForHash(ballot, h) PROVE n \in IdsOf(OfHash(prepare_messages, h))
    BY <1>1, <1>2 DEF IdsOf, OfHash, B!ForHash, B!Voters
  <2> QED
    BY <2>1, <2>2
<1>4. IdsOf(OfHashAndH(prepare_messages, h, w)) = B!ForHashAndH(ballot, h, w)
  <2>1. ASSUME NEW n \in IdsOf(OfHashAndH(prepare_messages, h, w))
        PROVE  n \in B!ForHashAndH(ballot, h, w)
    BY <1>1 DEF IdsOf, OfHash, OfHashAndH, B!ForHash, B!ForHashAndH, B!Voters
  <2>2. ASSUME NEW n \in B!ForHashAndH(ballot, h, w)
        PROVE  n \in IdsOf(OfHashAndH(prepare_messages, h, w))
    BY <1>1, <1>2 DEF IdsOf, OfHash, OfHashAndH, B!ForHash, B!ForHashAndH, B!Voters
  <2> QED
    BY <2>1, <2>2
<1>5. /\ OfHash(prepare_messages, h) \in SUBSET DOMAIN prepare_messages
      /\ OfHashAndH(prepare_messages, h, w) \in SUBSET DOMAIN prepare_messages
  BY DEF OfHash, OfHashAndH
<1> QED
  BY <1>3, <1>4, <1>5, CountIds

(* A peer is asked once, so there are fewer than two quorums of proofs, and  *)
(* no more messages than proofs.                                             *)
LEMMA FewProofs ==
  ASSUME InductiveInvariant
  PROVE  Len(proofs) < 2 * B!Quorum /\ Len(prepare_messages) < 2 * B!Quorum
<1> USE DEF InductiveInvariant
<1>1. /\ IsFiniteSet(Peers) /\ Cardinality(Peers) < 2 * B!Quorum
      /\ Cardinality(Peers) \in Nat /\ B!Quorum \in Nat
  BY RoundConstants, FS_CardinalityType DEF B!Quorum
<1>2. \A i \in DOMAIN proofs : proofs[i] \in Proof /\ proofs[i].peer \in Peers
  BY Positions DEF TypeOK, Proof
<1>3. Len(proofs) <= Cardinality(Peers)
  <2> DEFINE f == [i \in DOMAIN proofs |-> proofs[i].peer]
  <2>1. f \in Injection(DOMAIN proofs, Peers)
    BY <1>2 DEF Injection, IsInjective, AnswersOnce
  <2>2. Cardinality(DOMAIN proofs) <= Cardinality(Peers)
    BY <1>1, <2>1, FS_Injection
  <2> QED
    BY <2>2, Positions DEF TypeOK
<1>4. Len(prepare_messages) <= Len(proofs)
  <2> DEFINE Of(i) == CHOOSE k \in DOMAIN proofs : proofs[k] = prepare_messages[i]
             f == [i \in DOMAIN prepare_messages |-> Of(i)]
  <2>1. \A i \in DOMAIN prepare_messages : Of(i) \in DOMAIN proofs /\ proofs[Of(i)] = prepare_messages[i]
    <3>1. 1..added \subseteq DOMAIN proofs
      BY DEF TypeOK
    <3> QED
      BY <3>1 DEF FirstVotes
  <2> HIDE DEF Of
  <2>2. f \in Injection(DOMAIN prepare_messages, DOMAIN proofs)
    BY <2>1 DEF Injection, IsInjective, VotesOnce
  <2>3. Cardinality(DOMAIN prepare_messages) <= Cardinality(DOMAIN proofs)
    BY <2>2, Positions, FS_Injection DEF TypeOK
  <2> QED
    BY <2>3, Positions DEF TypeOK
<1>5. Len(proofs) \in Nat /\ Len(prepare_messages) \in Nat
  BY DEF TypeOK
<1> QED
  BY <1>1, <1>3, <1>4, <1>5
-----------------------------------------------------------------------------
(* The verdict. *)

(* A quorum for one hash and one H is what the vote finds: there are fewer   *)
(* than two quorums of messages.                                             *)
LEMMA QuorumIsMajority ==
  ASSUME InductiveInvariant, NEW h, NEW w,
         Cardinality(OfHashAndH(prepare_messages, h, w)) >= B!Quorum
  PROVE  Majority(prepare_messages) = OfHashAndH(prepare_messages, h, w)
<1>1. OfHashAndH(prepare_messages, h, w) \in SUBSET DOMAIN prepare_messages
  BY DEF OfHash, OfHashAndH
<1>2. /\ Cardinality(OfHashAndH(prepare_messages, h, w)) \in Nat
      /\ Len(prepare_messages) \in Nat /\ B!Quorum \in Nat
      /\ prepare_messages \in Seq(Proof)
  BY <1>1, CountIds, RoundConstants DEF InductiveInvariant, TypeOK, B!Quorum
<1>3. Len(prepare_messages) < 2 * Cardinality(OfHashAndH(prepare_messages, h, w))
  BY <1>2, FewProofs
<1> QED
  BY <1>2, <1>3, MajorityIsMostOf

(* What the vote finds is a tally that the sets allow.                       *)
LEMMA MajorityIsTally ==
  ASSUME InductiveInvariant, Decided, prepare_messages # << >>
  PROVE  /\ IdsOf(Majority(prepare_messages)) \in B!Tallies(ballot)
         /\ Cardinality(IdsOf(Majority(prepare_messages)))
              = Cardinality(Majority(prepare_messages))
<1>1. PICK h, w \in B!Values :
        /\ Majority(prepare_messages) = OfHashAndH(prepare_messages, h, w)
        /\ OfHashAndH(prepare_messages, h, w) # {}
        /\ \A g \in B!Values : Cardinality(OfHash(prepare_messages, g))
                                 <= Cardinality(OfHash(prepare_messages, h))
        /\ \A x \in B!Values : Cardinality(OfHashAndH(prepare_messages, h, x))
                                 <= Cardinality(OfHashAndH(prepare_messages, h, w))
  BY MajorityIsPlurality DEF InductiveInvariant, TypeOK
<1>2. IdsOf(Majority(prepare_messages)) = B!ForHashAndH(ballot, h, w)
  BY <1>1, VotesAreBallots
<1>3. B!ForHashAndH(ballot, h, w) # {}
  BY <1>1, <1>2 DEF IdsOf
<1>4. B!ForHash(ballot, h) # {}
  BY <1>3 DEF B!ForHashAndH
<1>5. h \in B!MajorityHash(ballot)
  <2>1. \A g \in B!Values : Cardinality(OfHash(prepare_messages, g)) = Cardinality(B!ForHash(ballot, g))
    BY VotesAreBallots
  <2> QED
    BY <1>1, <1>4, <2>1, SameCardinality DEF B!MajorityHash
<1>6. w \in B!MajorityH(ballot, h)
  <2>1. \A x \in B!Values : Cardinality(OfHashAndH(prepare_messages, h, x))
                              = Cardinality(B!ForHashAndH(ballot, h, x))
    BY VotesAreBallots
  <2> QED
    BY <1>1, <1>3, <2>1, SameCardinality DEF B!MajorityH
<1>7. Majority(prepare_messages) \in SUBSET DOMAIN prepare_messages
  BY MajorityIsPart
<1> QED
  BY <1>2, <1>5, <1>6, <1>7, CountIds DEF B!Tallies

LEMMA CommitImplied == InductiveInvariant => CommitIsOrderFree
<1> SUFFICES ASSUME InductiveInvariant, Decided
             PROVE  stage # "failed" <=>
                      \E h, v \in B!Values : Cardinality(B!ForHashAndH(ballot, h, v)) >= B!Quorum
  BY DEF CommitIsOrderFree
<1>1. \A h, v : Cardinality(OfHashAndH(prepare_messages, h, v))
                  = Cardinality(B!ForHashAndH(ballot, h, v))
  BY VotesAreBallots
<1>2. ASSUME stage # "failed"
      PROVE  \E h, v \in B!Values : Cardinality(B!ForHashAndH(ballot, h, v)) >= B!Quorum
  <2>1. /\ prepare_messages # << >>
        /\ Cardinality(Majority(prepare_messages)) >= B!Quorum
    BY <1>2 DEF InductiveInvariant, VerdictIsMajority, Decided
  <2>2. PICK h, v \in B!Values : Majority(prepare_messages) = OfHashAndH(prepare_messages, h, v)
    BY <2>1, MajorityIsPlurality DEF InductiveInvariant, TypeOK
  <2> QED
    BY <1>1, <2>1, <2>2
<1>3. ASSUME NEW h \in B!Values, NEW v \in B!Values,
             Cardinality(B!ForHashAndH(ballot, h, v)) >= B!Quorum
      PROVE  stage # "failed"
  <2>1. Cardinality(OfHashAndH(prepare_messages, h, v)) >= B!Quorum
    BY <1>1, <1>3
  <2>2. Majority(prepare_messages) = OfHashAndH(prepare_messages, h, v)
    BY <2>1, QuorumIsMajority
  <2>3. OfHashAndH(prepare_messages, h, v) \in SUBSET DOMAIN prepare_messages
    BY DEF OfHash, OfHashAndH
  <2>4. B!Quorum \in Nat /\ 0 < B!Quorum /\ Cardinality(OfHashAndH(prepare_messages, h, v)) \in Nat
    BY <2>3, CountIds, RoundConstants DEF B!Quorum
  <2>5. prepare_messages # << >>
    <3>1. OfHashAndH(prepare_messages, h, v) # {}
      BY <2>1, <2>4, FS_EmptySet
    <3> QED
      BY <2>3, <3>1
  <2> QED
    BY <2>1, <2>2, <2>4, <2>5 DEF InductiveInvariant, VerdictIsMajority
<1> QED
  BY <1>2, <1>3

(* The round commits exactly if a quorum of nodes agrees: no order of        *)
(* arrival and no second answer changes that.                                *)
THEOREM OrderFree == Spec => []CommitIsOrderFree
  BY Invariance, CommitImplied, PTL

(* With a node of its own behind every peer nothing is left out, and the     *)
(* second vote is the first.                                                 *)
LEMMA OwnNodesSearchAccepted ==
  ASSUME InductiveInvariant, OwnNodes, stage \in {"committed", "searched"}
  PROVE  proofs = prepare_messages /\ clean_proofs = accepted
<1>1. prepare_messages = SubSeq(proofs, 1, Len(proofs))
  BY DEF InductiveInvariant, OwnNodesAllVote, VotesInTime, Decided
<1>2. proofs = prepare_messages
  BY <1>1 DEF InductiveInvariant, TypeOK
<1> QED
  BY <1>2 DEF clean_proofs, InductiveInvariant, VerdictIsMajority

LEMMA VerdictImplied == InductiveInvariant => VerdictOnSets
<1> SUFFICES ASSUME InductiveInvariant, OwnNodes PROVE VerdictOnSets
  BY DEF VerdictOnSets
<1>1. ASSUME stage = "failed"
      PROVE  B!Voters(ballot) = {} \/ \E a \in B!Tallies(ballot) : ~B!Commits(a)
  <2>1. Decided
    BY <1>1 DEF Decided
  <2>2. CASE prepare_messages = << >>
    <3>1. Seen = {}
      BY <2>2 DEF Seen
    <3> QED
      BY <2>1, <3>1, BallotIsVotes DEF B!Voters
  <2>3. CASE prepare_messages # << >>
    <3>1. Cardinality(Majority(prepare_messages)) < B!Quorum
      BY <1>1, <2>3 DEF InductiveInvariant, VerdictIsMajority
    <3>2. Majority(prepare_messages) \in SUBSET DOMAIN prepare_messages
      BY MajorityIsPart
    <3>3. Cardinality(Majority(prepare_messages)) \in Nat /\ B!Quorum \in Nat
      BY <3>2, CountIds, RoundConstants DEF B!Quorum
    <3>4. ~B!Commits(IdsOf(Majority(prepare_messages)))
      BY <2>1, <2>3, <3>1, <3>3, MajorityIsTally, SameCardinality DEF B!Commits
    <3> QED
      BY <2>1, <2>3, <3>4, MajorityIsTally
  <2> QED
    BY <2>2, <2>3
<1>2. AcceptedIds = IdsOf(accepted)
  BY DEF AcceptedIds, IdsOf
<1>3. ASSUME stage \in {"committed", "searched"}
      PROVE  AcceptedIds \in B!Tallies(ballot) /\ B!Commits(AcceptedIds)
  <2>1. /\ Decided /\ prepare_messages # << >>
        /\ accepted = Majority(prepare_messages) /\ Cardinality(accepted) >= B!Quorum
    BY <1>3 DEF Decided, InductiveInvariant, VerdictIsMajority
  <2> QED
    BY <1>2, <2>1, MajorityIsTally, SameCardinality DEF B!Commits
<1>4. ASSUME search # "none"
      PROVE  /\ Decided /\ proofs = prepare_messages /\ clean_proofs = accepted
             /\ accepted \in SUBSET DOMAIN prepare_messages
  <2>1. stage = "searched"
    BY <1>4 DEF InductiveInvariant, SearchIsFair
  <2> QED
    BY <2>1, OwnNodesSearchAccepted DEF Decided, InductiveInvariant, TypeOK
<1>5. ASSUME search = "found" PROVE chosen \in B!Chosen(ballot, AcceptedIds)
  <2>1. PICK I \in Combinations(clean_proofs) :
          Rebuilds(I) /\ chosen = {proofs[i].node_id : i \in I}
    BY <1>5 DEF InductiveInvariant, SearchIsFair
  <2>2. I \in SUBSET accepted /\ Cardinality(I) = THRESHOLD /\ chosen = IdsOf(I)
    BY <1>4, <1>5, <2>1 DEF Combinations, IdsOf
  <2>3. chosen \in SUBSET AcceptedIds /\ Cardinality(chosen) = THRESHOLD
    BY <1>2, <1>4, <1>5, <2>2, CountIds DEF IdsOf
  <2>4. ASSUME NEW n \in chosen PROVE ballot[n] = "honest"
    <3>1. PICK i \in I : n = prepare_messages[i].node_id
      BY <2>2 DEF IdsOf
    <3>2. prepare_messages[i].kind = "honest"
      BY <1>4, <1>5, <2>1 DEF Rebuilds
    <3> QED
      BY <1>4, <1>5, <2>2, <3>1, <3>2, BallotIsVotes
  <2> QED
    BY <2>3, <2>4, SameCardinality DEF B!Chosen, B!Subsets, B!Reconstructs
<1>6. ASSUME search = "mismatch" PROVE B!Chosen(ballot, AcceptedIds) = {}
  <2>1. SUFFICES ASSUME NEW Q \in B!Chosen(ballot, AcceptedIds) PROVE FALSE
    OBVIOUS
  <2>2. /\ Q \subseteq AcceptedIds /\ Cardinality(Q) = THRESHOLD
        /\ \A n \in Q : ballot[n] = "honest"
    BY SameCardinality DEF B!Chosen, B!Subsets, B!Reconstructs
  <2> DEFINE I == {i \in accepted : prepare_messages[i].node_id \in Q}
  <2>3. I \in SUBSET DOMAIN prepare_messages /\ I \in SUBSET accepted
    BY <1>4, <1>6
  <2>4. IdsOf(I) = Q
    BY <1>2, <2>2 DEF IdsOf
  <2>5. I \in Combinations(clean_proofs)
    BY <1>4, <1>6, <2>2, <2>3, <2>4, CountIds DEF Combinations
  <2>6. Rebuilds(I)
    <3>1. \A i \in I : proofs[i].kind = ballot[prepare_messages[i].node_id]
      BY <1>4, <1>6, <2>3, BallotIsVotes
    <3> QED
      BY <2>2, <3>1 DEF Rebuilds
  <2> QED
    BY <1>6, <2>5, <2>6 DEF InductiveInvariant, SearchIsFair, EndsSearch
<1>7. search # "raised"
  <2>1. SUFFICES ASSUME search = "raised" PROVE FALSE
    OBVIOUS
  <2>2. PICK I \in Combinations(clean_proofs) : Raises(I)
    BY <2>1 DEF InductiveInvariant, SearchIsFair
  <2>3. I \in SUBSET DOMAIN prepare_messages
    BY <1>4, <2>1 DEF Combinations
  <2> QED
    BY <1>4, <2>1, <2>2, <2>3 DEF Raises, InductiveInvariant, VotesOnce
<1> QED
  BY <1>1, <1>3, <1>5, <1>6, <1>7 DEF VerdictOnSets

(* When every peer is a node of its own, the lists come to a verdict that    *)
(* Ballots.tla allows on sets, and the search neither misses a subset nor    *)
(* raises.                                                                   *)
THEOREM ListsAgreeWithSets == Spec => []VerdictOnSets
  BY Invariance, VerdictImplied, PTL

LEMMA SearchImplied == InductiveInvariant => SearchKeepsVote
<1> SUFFICES ASSUME InductiveInvariant, stage \in {"committed", "searched"}, NEW i \in accepted
             PROVE  /\ \E j \in clean_proofs : proofs[j] = prepare_messages[i]
                    /\ \A j \in clean_proofs : /\ HashOf(proofs[j]) = HashOf(prepare_messages[i])
                                               /\ HOf(proofs[j]) = HOf(prepare_messages[i])
  BY DEF SearchKeepsVote
<1> USE DEF InductiveInvariant
<1>1. /\ prepare_messages # << >> /\ accepted = Majority(prepare_messages)
      /\ Cardinality(accepted) >= B!Quorum
  BY DEF VerdictIsMajority
<1>2. PICK h, w \in B!Values : accepted = OfHashAndH(prepare_messages, h, w)
  BY <1>1, MajorityIsPlurality DEF TypeOK
<1>3. \A k \in accepted : \E l \in OfHashAndH(proofs, h, w) : proofs[l] = prepare_messages[k]
  <2>1. SUFFICES ASSUME NEW k \in accepted
                 PROVE  \E l \in OfHashAndH(proofs, h, w) : proofs[l] = prepare_messages[k]
    OBVIOUS
  <2>2. /\ k \in DOMAIN prepare_messages
        /\ HashOf(prepare_messages[k]) = h /\ HOf(prepare_messages[k]) = w
    BY <1>2 DEF OfHash, OfHashAndH
  <2>3. PICK l \in 1..added : proofs[l] = prepare_messages[k]
    BY <2>2 DEF FirstVotes
  <2>4. l \in DOMAIN proofs
    BY DEF TypeOK
  <2> QED
    BY <2>2, <2>3, <2>4 DEF OfHash, OfHashAndH
<1>4. Cardinality(accepted) <= Cardinality(OfHashAndH(proofs, h, w))
  <2> DEFINE Of(k) == CHOOSE l \in OfHashAndH(proofs, h, w) : proofs[l] = prepare_messages[k]
             f == [k \in accepted |-> Of(k)]
  <2>1. \A k \in accepted : Of(k) \in OfHashAndH(proofs, h, w) /\ proofs[Of(k)] = prepare_messages[k]
    BY <1>3
  <2>2. accepted \subseteq DOMAIN prepare_messages
    BY DEF TypeOK
  <2> HIDE DEF Of
  <2>3. f \in Injection(accepted, OfHashAndH(proofs, h, w))
    BY <2>1, <2>2 DEF Injection, IsInjective, VotesOnce
  <2>4. IsFiniteSet(OfHashAndH(proofs, h, w))
    <3>1. OfHashAndH(proofs, h, w) \in SUBSET DOMAIN proofs
      BY DEF OfHash, OfHashAndH
    <3> QED
      BY <3>1, Positions, CardinalityOfSubset DEF TypeOK
  <2> QED
    BY <2>3, <2>4, FS_Injection
<1>5. clean_proofs = OfHashAndH(proofs, h, w)
  <2>1. OfHashAndH(proofs, h, w) \in SUBSET DOMAIN proofs
    BY DEF OfHash, OfHashAndH
  <2>2. /\ Cardinality(OfHashAndH(proofs, h, w)) \in Nat /\ Cardinality(accepted) \in Nat
        /\ B!Quorum \in Nat /\ Len(proofs) \in Nat
    BY <2>1, Positions, CardinalityOfSubset, CountIds, RoundConstants DEF TypeOK, B!Quorum
  <2>3. Len(proofs) < 2 * Cardinality(OfHashAndH(proofs, h, w))
    BY <1>1, <1>4, <2>2, FewProofs
  <2> QED
    BY <2>3, MajorityIsMostOf DEF clean_proofs, TypeOK
<1>6. HashOf(prepare_messages[i]) = h /\ HOf(prepare_messages[i]) = w
  BY <1>2 DEF OfHash, OfHashAndH
<1>7. \A j \in clean_proofs : HashOf(proofs[j]) = h /\ HOf(proofs[j]) = w
  BY <1>5 DEF OfHash, OfHashAndH
<1> QED
  BY <1>3, <1>5, <1>6, <1>7

(* The vote authenticate.py repeats on the list as it came agrees with the   *)
(* vote of the round, whatever nodes answered through two peers: a quorum is *)
(* more than half of either list.                                            *)
THEOREM SecondVoteAgrees == Spec => []SearchKeepsVote
  BY Invariance, SearchImplied, PTL
===============================================================================
