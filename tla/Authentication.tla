---------------------------- MODULE Authentication ----------------------------
(***************************************************************************)
(* The coordinator serving authentication requests, the nodes that answer  *)
(* it, and the clients: api/main.py, authentication/authenticate.py,       *)
(* node/node.py and node/transport.py together.                            *)
(*                                                                         *)
(* The coordinator is one asyncio event loop.  A handler keeps the loop    *)
(* from one await to the next, and POST /authenticate awaits only while it *)
(* gathers proofs over HTTP.  The rest of the handler is cut into steps    *)
(* all the same: the nodes, the clock and a kill of the process interleave *)
(* with it, and only the other handlers do not.                            *)
(***************************************************************************)
EXTENDS Challenges, Ballots, Sequences

CONSTANTS
  Requests,        \* calls of POST /authenticate, one id each
  Dids,            \* DIDs that register() may create
  Stranger,        \* a DID nobody registered
  UnknownId,       \* a challenge_id nobody was given
  Transport,       \* NODE_TRANSPORT: "http" or "local"
  ByzantineKinds,  \* what a Byzantine node may answer
  MaxByzantine,    \* BOUND: Byzantine nodes at one time
  MaxCrashes       \* BOUND: kills of the coordinator

ASSUME AuthenticationConstants ==
  /\ Stranger \notin Dids
  /\ UnknownId \notin ChallengeIds
  /\ Transport \in {"http", "local"}
  /\ ByzantineKinds \subseteq Proofs \ {"honest"}
  /\ MaxByzantine \in Nat
  /\ MaxCrashes \in Nat

VARIABLES
  ledger,      \* entries of the ledger
  online,      \* nodes with node.online
  byzantine,   \* nodes with node.byzantine
  pc,          \* where the handler of each request stands
  msg,         \* body of each request
  answers,     \* answers[r][n]: what node n answered to request r
  outcome,     \* result of each request: reason ("success" too), quorum_nodes
  spenders,    \* requests consume() gave each nonce to (history)
  crashes      \* kills of the coordinator so far (history)

nodeVars == <<online, byzantine>>
handlerVars == <<pc, msg, answers, outcome>>
vars == <<challengeVars, ledger, nodeVars, handlerVars, spenders, crashes>>

-----------------------------------------------------------------------------
Stages == {"idle", "gathering", "entered", "verifying", "collecting",
           "deciding", "issuing", "returning", "replied", "lost"}

\* What is left of a signature once step 3 has looked at it.
Signatures == {"valid", "wrong", "not_hex"}

Messages == [did : Dids \cup {Stranger},
             challenge_id : ChallengeIds \cup {UnknownId},
             signature : Signatures]

Audited == {"invalid_signature", "quorum_not_reached", "commitment_mismatch"}

Reasons == Audited \cup {"success", "challenge_expired_or_invalid", "did_not_found"}

Outcomes == [reason : Reasons \cup {"none"}, quorum_nodes : SUBSET Nodes]

Undecided == [reason |-> "none", quorum_nodes |-> {}]

NoMessage == [did |-> Stranger, challenge_id |-> UnknownId, signature |-> "wrong"]

Unasked == [n \in Nodes |-> "unasked"]

Asking == [n \in Nodes |-> "waiting"]

\* Entries of the ledger. "request" stands for the token's jti in AUTH_SUCCESS
\* and is a history field in AUTH_FAIL.
Entries ==
  [entry_type : {"DID_REGISTER"}, did : Dids]
    \cup [entry_type : {"AUTH_FAIL"}, did : Dids, reason : Audited, request : Requests]
    \cup [entry_type : {"AUTH_SUCCESS"}, did : Dids, quorum_nodes : SUBSET Nodes,
          request : Requests]

(* get_public_key(did) is not None; every node has the share as well. *)
Registered == {d \in Dids : \E i \in DOMAIN ledger :
                              /\ ledger[i].entry_type = "DID_REGISTER"
                              /\ ledger[i].did = d}

TypeOK ==
  /\ ChallengeTypeOK
  /\ ledger \in Seq(Entries)
  /\ online \subseteq Nodes
  /\ byzantine \subseteq Nodes
  /\ pc \in [Requests -> Stages]
  /\ msg \in [Requests -> Messages]
  /\ answers \in [Requests -> Ballot]
  /\ outcome \in [Requests -> Outcomes]
  /\ spenders \in [ChallengeIds -> SUBSET Requests]
  /\ crashes \in Nat

Init ==
  /\ ChallengeInit
  /\ ledger = << >>
  /\ online = Nodes
  /\ byzantine = {}
  /\ pc = [r \in Requests |-> "idle"]
  /\ msg = [r \in Requests |-> NoMessage]
  /\ answers = [r \in Requests |-> Unasked]
  /\ outcome = [r \in Requests |-> Undecided]
  /\ spenders = [c \in ChallengeIds |-> {}]
  /\ crashes = 0

-----------------------------------------------------------------------------
(* The event loop. *)

HoldsLoop(r) == pc[r] \in {"entered", "verifying", "collecting", "deciding",
                           "issuing", "returning"}

LoopFree == \A r \in Requests : ~HoldsLoop(r)

Challenge(r) == msg[r].challenge_id

Goto(r, stage) == pc' = [pc EXCEPT ![r] = stage]

(* _fail() and the success record: the handler has its result. *)
Return(r, reason, quorum) ==
  /\ Goto(r, "returning")
  /\ outcome' = [outcome EXCEPT ![r] = [reason |-> reason, quorum_nodes |-> quorum]]

AppendFail(r, reason) ==
  ledger' = Append(ledger, [entry_type |-> "AUTH_FAIL", did |-> msg[r].did,
                            reason |-> reason, request |-> r])

\* Mutant of FailAudited: the entry is forgotten.
FailUnaudited(r, reason) ==
  /\ Return(r, reason, {})
  /\ UNCHANGED <<challengeVars, ledger, nodeVars, msg, answers, spenders, crashes>>

(* ledger.append in the middle of authenticate(), then return _fail(). *)
FailAudited(r, reason) ==
  /\ Return(r, reason, {})
  /\ AppendFail(r, reason)
  /\ UNCHANGED <<challengeVars, nodeVars, msg, answers, spenders, crashes>>

-----------------------------------------------------------------------------
(* Handlers other than /authenticate. *)

(* POST /challenge *)
IssueChallenge(c) ==
  /\ LoopFree
  /\ Issue(c)
  /\ UNCHANGED <<ledger, nodeVars, handlerVars, spenders, crashes>>

(* POST /register: shares to every node, then the DID_REGISTER entry, with no *)
(* await in between.                                                          *)
Register(d) ==
  /\ LoopFree
  /\ d \notin Registered
  /\ ledger' = Append(ledger, [entry_type |-> "DID_REGISTER", did |-> d])
  /\ UNCHANGED <<challengeVars, nodeVars, handlerVars, spenders, crashes>>

-----------------------------------------------------------------------------
(* POST /authenticate *)

(* The body of a request. Signatures are over the nonce, so only a challenge *)
(* that was issued can be signed, and only with a key that exists.           *)
Sendable(m) ==
  /\ m \in Messages
  /\ m.challenge_id \in issued \cup {UnknownId}
  /\ m.did \in Registered \cup {Stranger}
  /\ m.signature = "valid" => m.did # Stranger /\ m.challenge_id # UnknownId

(* The handler starts. In HTTP mode with a live challenge it peeks and asks  *)
(* all nodes; otherwise pre_proofs stays None and authenticate() is entered. *)
Gathers(m) == Transport = "http" /\ Peeks(m.challenge_id)

Arrive(r) ==
  /\ pc[r] = "idle"
  /\ LoopFree
  /\ \E m \in Messages :
       /\ Sendable(m)
       /\ msg' = [msg EXCEPT ![r] = m]
       /\ IF Gathers(m)
            THEN /\ Goto(r, "gathering")
                 /\ answers' = [answers EXCEPT ![r] = Asking]
            ELSE /\ Goto(r, "entered")
                 /\ UNCHANGED answers
  /\ UNCHANGED <<challengeVars, ledger, nodeVars, outcome, spenders, crashes>>

(* A node that runs and has the share computes a proof. *)
CanServe(r, n) == n \in online /\ msg[r].did \in Registered

ProofsOf(n) == IF n \in byzantine THEN ByzantineKinds ELSE {"honest"}

Serve(r, n) ==
  /\ answers[r][n] = "waiting"
  /\ CanServe(r, n)
  /\ \E proof \in ProofsOf(n) : answers' = [answers EXCEPT ![r][n] = proof]
  /\ UNCHANGED <<challengeVars, ledger, nodeVars, pc, msg, outcome, spenders, crashes>>

\* Mutant of FetchFails: no timeout, a fetch ends when the node has spoken.
FetchFailsOnError(r, n) == n \in online /\ msg[r].did \notin Registered

(* The transport gives None: no share, node down, and over HTTP the timeout  *)
(* or a connection error at any time.                                        *)
FetchFails(r, n) == Transport = "http" \/ ~CanServe(r, n)

NoAnswer(r, n) ==
  /\ answers[r][n] = "waiting"
  /\ FetchFails(r, n)
  /\ answers' = [answers EXCEPT ![r][n] = "none"]
  /\ UNCHANGED <<challengeVars, ledger, nodeVars, pc, msg, outcome, spenders, crashes>>

AllAnswered(r) == \A n \in Nodes : answers[r][n] # "waiting"

(* await asyncio.gather(...) returns and the handler gets the loop back. *)
Gathered(r) ==
  /\ pc[r] = "gathering"
  /\ AllAnswered(r)
  /\ LoopFree
  /\ Goto(r, "entered")
  /\ UNCHANGED <<challengeVars, ledger, nodeVars, msg, answers, outcome, spenders, crashes>>

(* Step 1: consume. *)
RefuseChallenge(r) ==
  /\ pc[r] = "entered"
  /\ ~Consumes(Challenge(r))
  /\ Consume(Challenge(r))
  /\ Return(r, "challenge_expired_or_invalid", {})
  /\ UNCHANGED <<ledger, nodeVars, msg, answers, spenders, crashes>>

Claim(r) ==
  /\ pc[r] = "entered"
  /\ Consumes(Challenge(r))
  /\ Consume(Challenge(r))
  /\ spenders' = [spenders EXCEPT ![Challenge(r)] = @ \cup {r}]
  /\ Goto(r, "verifying")
  /\ UNCHANGED <<ledger, nodeVars, msg, answers, outcome, crashes>>

(* Step 2: the DID. *)
RefuseDid(r) ==
  /\ pc[r] = "verifying"
  /\ msg[r].did \notin Registered
  /\ Return(r, "did_not_found", {})
  /\ UNCHANGED <<challengeVars, ledger, nodeVars, msg, answers, spenders, crashes>>

(* Step 3: not hexadecimal, or not the user's signature of nonce and DID. *)
RefuseSignature(r) ==
  /\ pc[r] = "verifying"
  /\ msg[r].did \in Registered
  /\ msg[r].signature # "valid"
  /\ FailAudited(r, "invalid_signature")

(* Step 4: "_proofs is not None", even if it is the empty list. *)
PreCollected(r) == answers[r] # Unasked

UsePreCollected(r) ==
  /\ PreCollected(r)
  /\ Goto(r, "deciding")
  /\ UNCHANGED answers

(* The ThreadPoolExecutor path: the handler blocks the loop meanwhile. *)
AskFromThreads(r) ==
  /\ ~PreCollected(r)
  /\ Goto(r, "collecting")
  /\ answers' = [answers EXCEPT ![r] = Asking]

Accept(r) ==
  /\ pc[r] = "verifying"
  /\ msg[r].did \in Registered
  /\ msg[r].signature = "valid"
  /\ UsePreCollected(r) \/ AskFromThreads(r)
  /\ UNCHANGED <<challengeVars, ledger, nodeVars, msg, outcome, spenders, crashes>>

\* Mutant of Collected: THRESHOLD answers are enough to go on.
CollectedEarly(r) ==
  /\ pc[r] = "collecting"
  /\ Cardinality(Voters(answers[r])) >= THRESHOLD
  /\ Goto(r, "deciding")
  /\ UNCHANGED <<challengeVars, ledger, nodeVars, msg, answers, outcome, spenders, crashes>>

(* as_completed is exhausted. *)
Collected(r) ==
  /\ pc[r] = "collecting"
  /\ AllAnswered(r)
  /\ Goto(r, "deciding")
  /\ UNCHANGED <<challengeVars, ledger, nodeVars, msg, answers, outcome, spenders, crashes>>

(* Step 5: run_pbft_round gives None. *)
RoundFails(b) ==
  \/ Voters(b) = {}
  \/ \E accepted \in Tallies(b) : ~Commits(accepted)

NoQuorum(r) ==
  /\ pc[r] = "deciding"
  /\ RoundFails(answers[r])
  /\ FailAudited(r, "quorum_not_reached")

\* Mutant of SearchFails: only the first THRESHOLD proofs are tried.
SearchGivesUp(b) ==
  \E accepted \in Tallies(b) :
    Commits(accepted) /\ \E Q \in Subsets(accepted) : ~Reconstructs(b, Q)

(* Steps 6 and 7: committed, and no subset rebuilds the committed secret. *)
SearchFails(b) ==
  \E accepted \in Tallies(b) : Commits(accepted) /\ Chosen(b, accepted) = {}

Mismatch(r) ==
  /\ pc[r] = "deciding"
  /\ SearchFails(answers[r])
  /\ FailAudited(r, "commitment_mismatch")

(* The subsets the search may stop at. *)
GrantQuorums(b) ==
  UNION {Chosen(b, accepted) : accepted \in {a \in Tallies(b) : Commits(a)}}

(* Step 9, first half: iat.issue() makes the token for the chosen quorum. *)
Grant(r) ==
  /\ pc[r] = "deciding"
  /\ \E quorum \in GrantQuorums(answers[r]) :
       outcome' = [outcome EXCEPT ![r] = [reason |-> "success", quorum_nodes |-> quorum]]
  /\ Goto(r, "issuing")
  /\ UNCHANGED <<challengeVars, ledger, nodeVars, msg, answers, spenders, crashes>>

\* Mutant of RecordGrant: the token is returned without its entry.
RecordNothing(r) ==
  /\ pc[r] = "issuing"
  /\ Goto(r, "returning")
  /\ UNCHANGED <<challengeVars, ledger, nodeVars, msg, answers, outcome, spenders, crashes>>

(* Step 9, second half: the AUTH_SUCCESS entry, then the return. *)
RecordGrant(r) ==
  /\ pc[r] = "issuing"
  /\ ledger' = Append(ledger, [entry_type |-> "AUTH_SUCCESS", did |-> msg[r].did,
                               quorum_nodes |-> outcome[r].quorum_nodes, request |-> r])
  /\ Goto(r, "returning")
  /\ UNCHANGED <<challengeVars, nodeVars, msg, answers, outcome, spenders, crashes>>

(* The response leaves and the loop is free again. *)
Respond(r) ==
  /\ pc[r] = "returning"
  /\ Goto(r, "replied")
  /\ UNCHANGED <<challengeVars, ledger, nodeVars, msg, answers, outcome, spenders, crashes>>

-----------------------------------------------------------------------------
(* The environment. *)

CrashNode(n) ==
  /\ n \in online
  /\ online' = online \ {n}
  /\ UNCHANGED <<challengeVars, ledger, byzantine, handlerVars, spenders, crashes>>

RestoreNode(n) ==
  /\ n \notin online
  /\ online' = online \cup {n}
  /\ UNCHANGED <<challengeVars, ledger, byzantine, handlerVars, spenders, crashes>>

TurnByzantine(n) ==
  /\ n \notin byzantine
  /\ Cardinality(byzantine) < MaxByzantine
  /\ byzantine' = byzantine \cup {n}
  /\ UNCHANGED <<challengeVars, ledger, online, handlerVars, spenders, crashes>>

Reform(n) ==
  /\ n \in byzantine
  /\ byzantine' = byzantine \ {n}
  /\ UNCHANGED <<challengeVars, ledger, online, handlerVars, spenders, crashes>>

InFlight(r) == pc[r] \notin {"idle", "replied", "lost"}

(* The coordinator is killed and started again: the table of challenges and  *)
(* the handlers in flight are gone, the ledger and the shares are on disk.   *)
(* With the local transport the nodes live in the same process.              *)
Crash ==
  /\ crashes < MaxCrashes
  /\ crashes' = crashes + 1
  /\ ForgetAll
  /\ pc' = [r \in Requests |-> IF InFlight(r) THEN "lost" ELSE pc[r]]
  /\ answers' = [r \in Requests |->
       [n \in Nodes |-> IF answers[r][n] = "waiting" THEN "none" ELSE answers[r][n]]]
  /\ IF Transport = "local"
       THEN online' = Nodes /\ byzantine' = {}
       ELSE UNCHANGED nodeVars
  /\ UNCHANGED <<ledger, msg, outcome, spenders>>

TimePasses ==
  /\ Tick
  /\ UNCHANGED <<ledger, nodeVars, handlerVars, spenders, crashes>>

-----------------------------------------------------------------------------
NodeStep(n) == CrashNode(n) \/ RestoreNode(n) \/ TurnByzantine(n) \/ Reform(n)

HandlerStep(r) ==
  \/ Gathered(r) \/ RefuseChallenge(r) \/ Claim(r) \/ RefuseDid(r)
  \/ RefuseSignature(r) \/ Accept(r) \/ Collected(r) \/ NoQuorum(r)
  \/ Mismatch(r) \/ Grant(r) \/ RecordGrant(r) \/ Respond(r)

FetchStep(r, n) == Serve(r, n) \/ NoAnswer(r, n)

Next ==
  \/ \E c \in ChallengeIds : IssueChallenge(c)
  \/ \E d \in Dids : Register(d)
  \/ \E r \in Requests : Arrive(r) \/ HandlerStep(r)
  \/ \E r \in Requests, n \in Nodes : FetchStep(r, n)
  \/ \E n \in Nodes : NodeStep(n)
  \/ Crash
  \/ TimePasses

Spec == Init /\ [][Next]_vars

(* A ready handler gets the loop (asyncio runs ready tasks in turn) and a    *)
(* fetch ends (wait_for cancels it after NODE_TIMEOUT; a local call returns).*)
Fairness ==
  /\ \A r \in Requests : WF_vars(HandlerStep(r))
  /\ \A r \in Requests, n \in Nodes : WF_vars(FetchStep(r, n))

FairSpec == Spec /\ Fairness

-----------------------------------------------------------------------------
(* Properties. *)

(* A nonce is handed out by consume() to one request at most, however many   *)
(* requests peeked at it and gathered proofs for it meanwhile.               *)
ChallengeSpentOnce ==
  \A c \in ChallengeIds : \A r, s \in spenders[c] : r = s

(* A request whose challenge is refused was too late, came second, named no  *)
(* challenge, or the coordinator restarted: a live challenge is never lost.  *)
RefusalJustified ==
  \A r \in Requests : outcome[r].reason = "challenge_expired_or_invalid" =>
    \/ Challenge(r) = UnknownId
    \/ Expired(Challenge(r))
    \/ spenders[Challenge(r)] \ {r} # {}
    \/ crashes > 0

Honest(r) == HonestVoters(answers[r])

(* A token is granted only on THRESHOLD nodes that each computed, for this   *)
(* request, an honest proof: a wrong value never enters the quorum_nodes.    *)
QuorumIsHonest ==
  \A r \in Requests : outcome[r].reason = "success" =>
    /\ outcome[r].quorum_nodes \subseteq Honest(r)
    /\ Cardinality(outcome[r].quorum_nodes) = THRESHOLD

(* A request that fails for want of a quorum, or because nothing rebuilds    *)
(* the commitment, had too few honest answers: liars cannot make it fail.    *)
FailureMeansTooFewHonest ==
  \A r \in Requests :
    outcome[r].reason \in {"quorum_not_reached", "commitment_mismatch"} =>
      Cardinality(Honest(r)) < THRESHOLD

EntriesOf(r) == {i \in DOMAIN ledger :
                   ledger[i].entry_type # "DID_REGISTER" /\ ledger[i].request = r}

Matches(entry, r) ==
  /\ entry.did = msg[r].did
  /\ IF entry.entry_type = "AUTH_SUCCESS"
       THEN /\ outcome[r].reason = "success"
            /\ entry.quorum_nodes = outcome[r].quorum_nodes
       ELSE outcome[r].reason = entry.reason

(* No entry on the ledger without the outcome it records, at most one per    *)
(* request, and no answer reaches a client before its entry is there.        *)
AuditTrail ==
  \A r \in Requests :
    /\ Cardinality(EntriesOf(r)) <= 1
    /\ \A i \in EntriesOf(r) : Matches(ledger[i], r)
    /\ pc[r] = "replied" /\ outcome[r].reason \in Audited \cup {"success"}
         => EntriesOf(r) # {}

(* The coordinator never blocks its event loop on the network: over HTTP a   *)
(* request that passes steps 1 to 3 always has its proofs collected already. *)
BlockingPathUnreached ==
  Transport = "http" => \A r \in Requests : pc[r] # "collecting"

(* What makes the properties above inductive: whom a request past step 2 is  *)
(* for, which challenges nobody spent, who holds one, when outcomes appear   *)
(* and when answers stop changing.                                           *)
KnownAtWork ==
  \A r \in Requests :
    pc[r] \in {"collecting", "deciding", "issuing"} => msg[r].did \in Dids

FreshUnspent ==
  \A c \in ChallengeIds : c \in pending \/ c \notin issued => spenders[c] = {}

HoldersAtWork ==
  \A r \in Requests : pc[r] \in {"verifying", "collecting", "deciding"} =>
    Challenge(r) \in ChallengeIds /\ r \in spenders[Challenge(r)]

NoEarlyOutcome ==
  \A r \in Requests :
    pc[r] \in {"idle", "gathering", "entered", "verifying", "collecting", "deciding"} =>
      outcome[r] = Undecided

AnswersSettled ==
  \A r \in Requests : pc[r] \notin {"gathering", "collecting"} => AllAnswered(r)

InductiveInvariant ==
  /\ TypeOK
  /\ KnownAtWork
  /\ FreshUnspent
  /\ ChallengeSpentOnce
  /\ HoldersAtWork
  /\ NoEarlyOutcome
  /\ AnswersSettled
  /\ QuorumIsHonest
  /\ FailureMeansTooFewHonest

(* The coordinator's handling of challenges implements the promise of        *)
(* ChallengeLifecycle.tla.                                                   *)
ChallengeState ==
  [c \in ChallengeIds |-> IF c \notin issued THEN "new"
                          ELSE IF c \in pending THEN "open" ELSE "closed"]

Granted == {r \in Requests : outcome[r].reason = "success"}

Lifecycle == INSTANCE ChallengeLifecycle WITH
  Challenges <- ChallengeIds, Clients <- Requests, TTL <- CHALLENGE_TTL_SECONDS,
  clock <- now, state <- ChallengeState, deadline <- expires_at,
  holders <- spenders, granted <- Granted

LifecycleImplemented == Lifecycle!Spec

(* Every request that reached the coordinator is answered, unless the        *)
(* coordinator is killed.                                                    *)
EveryRequestEnds ==
  \A r \in Requests : InFlight(r) ~> pc[r] \in {"replied", "lost"}
=============================================================================
