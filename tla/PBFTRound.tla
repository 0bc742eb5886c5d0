------------------------------- MODULE PBFTRound -------------------------------
(***************************************************************************)
(* One authentication round, on the lists the code works with: answers in  *)
(* order of arrival (as_completed in authenticate.py), class PBFTRound of  *)
(* node/pbft.py, and the search for a reconstructing subset (steps 6, 7).  *)
(* Ballots.tla is the same on sets; VerdictOnSets relates the two.         *)
(***************************************************************************)
EXTENDS Naturals, Sequences, FiniteSets

CONSTANTS
  Peers,      \* entries of NODE_PEERS, each asked once
  Nodes,      \* node ids
  Deployments, \* what may run behind the peer entries: sets of [Peers -> Nodes]
  THRESHOLD,
  F_NODES,
  Kinds       \* what nodes may answer: a set of proofs of Ballots.tla

VARIABLES
  node_at,           \* the node behind each peer entry
  stage,             \* "collecting", "preparing", "committed", "failed", "searched"
  proofs,            \* the list handed to run_pbft_round
  added,             \* how many of them run_pbft_round has passed on
  prepare_messages,  \* self.prepare_messages
  accepted,          \* positions in prepare_messages of self.result
  chosen,            \* node ids of the subset the search stopped at
  search             \* "none", "found", "mismatch" or "raised"

vars == <<node_at, stage, proofs, added, prepare_messages, accepted, chosen, search>>

B == INSTANCE Ballots

ASSUME RoundConstants ==
  /\ Deployments \subseteq [Peers -> Nodes]
  /\ Kinds \subseteq B!Proofs
  /\ IsFiniteSet(Peers) /\ Cardinality(Peers) < 2 * B!Quorum
  /\ F_NODES \in Nat
  /\ THRESHOLD \in Nat \ {0}

Stages == {"collecting", "preparing", "committed", "failed", "searched"}

Proof == [node_id : Nodes, peer : Peers, kind : Kinds]

HashOf(p) == B!HashOf(p.kind)

HOf(p) == B!HOf(p.kind)

TypeOK ==
  /\ node_at \in Deployments
  /\ stage \in Stages
  /\ proofs \in Seq(Proof)
  /\ added \in 0..Len(proofs)
  /\ prepare_messages \in Seq(Proof)
  /\ accepted \subseteq DOMAIN prepare_messages
  /\ chosen \subseteq Nodes
  /\ search \in {"none", "found", "mismatch", "raised"}

Init ==
  /\ node_at \in Deployments
  /\ stage = "collecting"
  /\ proofs = << >>
  /\ added = 0
  /\ prepare_messages = << >>
  /\ accepted = {}
  /\ chosen = {}
  /\ search = "none"

-----------------------------------------------------------------------------
(* Counter(...).most_common(1) over the entries of a list at positions I,    *)
(* where v gives the value counted: of the most frequent the one met first.  *)
Count(v, I, i) == Cardinality({j \in I : v[j] = v[i]})

MostCommon(v, I) ==
  v[CHOOSE i \in I : \A j \in I : /\ Count(v, I, j) <= Count(v, I, i)
                                  /\ j < i => Count(v, I, j) < Count(v, I, i)]

Hashes(s) == [i \in DOMAIN s |-> HashOf(s[i])]

Hs(s) == [i \in DOMAIN s |-> HOf(s[i])]

Candidates(s) ==
  LET majority_hash == MostCommon(Hashes(s), DOMAIN s)
  IN  {i \in DOMAIN s : HashOf(s[i]) = majority_hash}

\* Mutant of Majority: H is not compared.
MajorityOfHash(s) == Candidates(s)

(* The positions of the proofs with the majority challenge_hash and, among   *)
(* these, the majority H. try_commit and authenticate both compute it.       *)
Majority(s) ==
  LET candidates == Candidates(s)
      majority_H == MostCommon(Hs(s), candidates)
  IN  {i \in candidates : HOf(s[i]) = majority_H}

-----------------------------------------------------------------------------
\* Mutant of Answer: None joins the list as well.
AnswerOrNone(peer) ==
  /\ stage = "collecting"
  /\ \A i \in DOMAIN proofs : proofs[i].peer # peer
  /\ \E kind \in Kinds \cup {"none"} :
       proofs' = Append(proofs, [node_id |-> node_at[peer], peer |-> peer, kind |-> kind])
  /\ UNCHANGED <<node_at, stage, added, prepare_messages, accepted, chosen, search>>

(* A node answers; the answer joins the list when it is complete.            *)
Answer(peer) ==
  /\ stage = "collecting"
  /\ \A i \in DOMAIN proofs : proofs[i].peer # peer
  /\ \E kind \in Kinds :
       proofs' = Append(proofs, [node_id |-> node_at[peer], peer |-> peer, kind |-> kind])
  /\ UNCHANGED <<node_at, stage, added, prepare_messages, accepted, chosen, search>>

(* The rest gave None.                                                       *)
StopCollecting ==
  /\ stage = "collecting"
  /\ stage' = "preparing"
  /\ UNCHANGED <<node_at, proofs, added, prepare_messages, accepted, chosen, search>>

Seen == {prepare_messages[i].node_id : i \in DOMAIN prepare_messages}

\* Mutant of Enters: no look at seen_ids.
AlwaysEnters(p) == TRUE

(* One message per node id. *)
Enters(p) == p.node_id \notin Seen

AddPrepareMessage ==
  /\ stage = "preparing"
  /\ added < Len(proofs)
  /\ added' = added + 1
  /\ prepare_messages' = IF Enters(proofs[added + 1])
                           THEN Append(prepare_messages, proofs[added + 1])
                           ELSE prepare_messages
  /\ UNCHANGED <<node_at, stage, proofs, accepted, chosen, search>>

TryCommit ==
  /\ stage = "preparing"
  /\ added = Len(proofs)
  /\ LET agreeing == IF prepare_messages = << >> THEN {} ELSE Majority(prepare_messages)
     IN  IF Cardinality(agreeing) >= B!Quorum
           THEN stage' = "committed" /\ accepted' = agreeing
           ELSE stage' = "failed" /\ UNCHANGED accepted
  /\ UNCHANGED <<node_at, proofs, added, prepare_messages, chosen, search>>

-----------------------------------------------------------------------------
(* The search. Unlike the round it starts from the list as it came; of what  *)
(* the round returns it only asks whether it is None.                        *)

clean_proofs == Majority(proofs)

Combinations(S) == {I \in SUBSET S : Cardinality(I) = THRESHOLD}

(* itertools.combinations goes by the least position in which two differ.    *)
Before(I, J) ==
  \E i \in I \ J : \A j \in J \ I : i < j

(* Two values at one x: mod_inverse(0) raises and nothing catches it.        *)
Raises(I) == \E i, j \in I : i # j /\ proofs[i].node_id = proofs[j].node_id

Rebuilds(I) == \A i \in I : proofs[i].kind = "honest"

\* Mutant of EndsSearch: only the proofs that came first are tried.
EndsAtOnce(I) ==
  /\ \A i \in I, j \in clean_proofs \ I : i < j
  /\ Raises(I) \/ Rebuilds(I)

EndsSearch(I) == Raises(I) \/ Rebuilds(I)

Search ==
  /\ stage = "committed"
  /\ stage' = "searched"
  /\ LET ends == {I \in Combinations(clean_proofs) : EndsSearch(I)}
     IN  \/ ends = {} /\ search' = "mismatch" /\ UNCHANGED chosen
         \/ \E first \in ends :
              /\ \A I \in ends \ {first} : Before(first, I)
              /\ IF Raises(first)
                   THEN search' = "raised" /\ UNCHANGED chosen
                   ELSE search' = "found" /\ chosen' = {proofs[i].node_id : i \in first}
  /\ UNCHANGED <<node_at, proofs, added, prepare_messages, accepted>>

Next ==
  \/ \E peer \in Peers : Answer(peer)
  \/ StopCollecting
  \/ AddPrepareMessage
  \/ TryCommit
  \/ Search

Spec == Init /\ [][Next]_vars

-----------------------------------------------------------------------------
(* Properties. *)

Decided == stage \in {"committed", "failed", "searched"}

ProofsBy(n) == {i \in DOMAIN proofs : proofs[i].node_id = n}

\* What node n answered first, as Ballots.tla has it.
ballot ==
  [n \in Nodes |->
     IF ProofsBy(n) = {} THEN "none"
     ELSE proofs[CHOOSE i \in ProofsBy(n) : \A j \in ProofsBy(n) : i <= j].kind]

(* The round commits exactly if Quorum different nodes agree on hash and H:  *)
(* neither the order of arrival nor a node that answers twice changes that.  *)
CommitIsOrderFree ==
  Decided => (stage # "failed" <=>
    \E h, v \in B!Values : Cardinality(B!ForHashAndH(ballot, h, v)) >= B!Quorum)

AcceptedIds == {prepare_messages[i].node_id : i \in accepted}

OwnNodes == \A p, q \in Peers : node_at[p] = node_at[q] => p = q

(* When every peer is a node of its own, every verdict on lists is one that  *)
(* Ballots.tla allows on sets: the round, the list it accepts, the subset    *)
(* the search stops at, and that it ends without an exception.               *)
VerdictOnSets ==
  OwnNodes =>
    /\ stage = "failed" => B!Voters(ballot) = {} \/ \E a \in B!Tallies(ballot) : ~B!Commits(a)
    /\ stage \in {"committed", "searched"} =>
         AcceptedIds \in B!Tallies(ballot) /\ B!Commits(AcceptedIds)
    /\ search = "found" => chosen \in B!Chosen(ballot, AcceptedIds)
    /\ search = "mismatch" => B!Chosen(ballot, AcceptedIds) = {}
    /\ search # "raised"

(* authenticate.py repeats the vote of pbft.py on the list as it came, a     *)
(* node's second answer included, and must come to the same challenge_hash   *)
(* and H: every accepted proof is searched, and no proof that disagrees.     *)
SearchKeepsVote ==
  LET clean == clean_proofs
  IN  stage \in {"committed", "searched"} => \A i \in accepted :
        /\ \E j \in clean : proofs[j] = prepare_messages[i]
        /\ \A j \in clean : /\ HashOf(proofs[j]) = HashOf(prepare_messages[i])
                            /\ HOf(proofs[j]) = HOf(prepare_messages[i])

-----------------------------------------------------------------------------
(* Why: the messages of the round are the first proof of every node.         *)

AnswersOnce ==
  \A i, j \in DOMAIN proofs :
    /\ proofs[i].node_id = node_at[proofs[i].peer]
    /\ proofs[i].peer = proofs[j].peer => i = j

VotesOnce ==
  \A i, j \in DOMAIN prepare_messages :
    prepare_messages[i].node_id = prepare_messages[j].node_id => i = j

FirstVotes ==
  \A i \in DOMAIN prepare_messages : \E k \in 1..added :
    /\ proofs[k] = prepare_messages[i]
    /\ \A l \in 1..added : proofs[l].node_id = proofs[k].node_id => k <= l

AllHeard == \A k \in 1..added : proofs[k].node_id \in Seen

OwnNodesAllVote == OwnNodes => prepare_messages = SubSeq(proofs, 1, added)

VotesInTime ==
  /\ stage = "collecting" => added = 0
  /\ Decided => added = Len(proofs)

VerdictIsMajority ==
  /\ stage = "failed" => \/ prepare_messages = << >>
                         \/ Cardinality(Majority(prepare_messages)) < B!Quorum
  /\ stage \in {"committed", "searched"} =>
       /\ prepare_messages # << >>
       /\ accepted = Majority(prepare_messages)
       /\ Cardinality(accepted) >= B!Quorum

SearchIsFair ==
  /\ search # "none" => stage = "searched"
  /\ search = "found" => \E I \in Combinations(clean_proofs) :
       ~Raises(I) /\ Rebuilds(I) /\ chosen = {proofs[i].node_id : i \in I}
  /\ search = "mismatch" => \A I \in Combinations(clean_proofs) : ~EndsSearch(I)
  /\ search = "raised" => \E I \in Combinations(clean_proofs) : Raises(I)

(* Every proof handed in is heard, the first of every node votes, the round  *)
(* commits to the majority of these, and the search stops at a subset of the *)
(* proofs of that majority: the conjunction is inductive.                    *)
InductiveInvariant ==
  /\ TypeOK
  /\ AnswersOnce
  /\ VotesOnce
  /\ FirstVotes
  /\ AllHeard
  /\ OwnNodesAllVote
  /\ VotesInTime
  /\ VerdictIsMajority
  /\ SearchIsFair
===============================================================================
