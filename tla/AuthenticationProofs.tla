------------------------- MODULE AuthenticationProofs -------------------------
(***************************************************************************)
(* Theorems about Authentication.tla, for every number of nodes, requests, *)
(* challenges and DIDs, both transports, and every bound: the inductive    *)
(* invariant, the refinement of ChallengeLifecycle, and, on top of these,  *)
(* that a refusal and an entry of the ledger say what is true.             *)
(***************************************************************************)
EXTENDS Authentication, BallotsProofs

-----------------------------------------------------------------------------
(* Type correctness. *)

LEMMA RegisteredAreDids == Registered \subseteq Dids
  BY DEF Registered

LEMMA TypeInit == Init => TypeOK
  BY AuthenticationConstants
  DEF Init, TypeOK, ChallengeInit, ChallengeTypeOK, Stages, Messages, NoMessage, Signatures,
      Ballot, Answers, Unasked, Outcomes, Undecided

(* The moves shared by the steps of a handler keep every value in its type.  *)
LEMMA TypeAppendFail ==
  ASSUME TypeOK, NEW r \in Requests, NEW reason \in Audited,
         msg[r].did \in Dids, AppendFail(r, reason)
  PROVE  ledger' \in Seq(Entries)
<1> DEFINE e == [entry_type |-> "AUTH_FAIL", did |-> msg[r].did,
                 reason |-> reason, request |-> r]
<1>1. e \in Entries
  BY DEF Entries
<1>2. ledger \in Seq(Entries) /\ ledger' = Append(ledger, e)
  BY DEF TypeOK, AppendFail
<1> HIDE DEF e
<1> QED
  BY <1>1, <1>2

LEMMA TypeNext ==
  TypeOK /\ KnownAtWork /\ [Next]_vars => TypeOK'
<1> SUFFICES ASSUME TypeOK, KnownAtWork, [Next]_vars
             PROVE  TypeOK'
  OBVIOUS
<1> USE DEF TypeOK, ChallengeTypeOK, handlerVars, nodeVars, challengeVars
<1>1. ASSUME NEW c \in ChallengeIds, IssueChallenge(c) PROVE TypeOK'
  BY <1>1, ChallengeConstants DEF IssueChallenge, Issue
<1>2. ASSUME NEW d \in Dids, Register(d) PROVE TypeOK'
  <2> DEFINE e == [entry_type |-> "DID_REGISTER", did |-> d]
  <2>1. e \in Entries
    BY DEF Entries
  <2>2. ledger' = Append(ledger, e)
    BY <1>2 DEF Register
  <2> HIDE DEF e
  <2> QED
    BY <1>2, <2>1, <2>2 DEF Register
<1>3. ASSUME NEW r \in Requests, Arrive(r) PROVE TypeOK'
  <2>1. msg' \in [Requests -> Messages]
    BY <1>3 DEF Arrive
  <2>2. Asking \in Ballot
    BY DEF Asking, Ballot, Answers
  <2>3. answers' \in [Requests -> Ballot] /\ pc' \in [Requests -> Stages]
    BY <1>3, <2>2 DEF Arrive, Goto, Stages
  <2> QED
    BY <1>3, <2>1, <2>3 DEF Arrive
<1>4. ASSUME NEW r \in Requests, NEW n \in Nodes, FetchStep(r, n) PROVE TypeOK'
  <2>1. ProofsOf(n) \subseteq Answers
    BY AuthenticationConstants DEF ProofsOf, Answers, Proofs
  <2> QED
    <3>1. PICK a \in Answers : answers' = [answers EXCEPT ![r][n] = a]
      BY <1>4, <2>1 DEF FetchStep, Serve, NoAnswer, Answers
    <3>2. [answers[r] EXCEPT ![n] = a] \in Ballot
      BY DEF Ballot
    <3>3. answers' \in [Requests -> Ballot]
      BY <3>1, <3>2
    <3> QED
      BY <1>4, <3>3 DEF FetchStep, Serve, NoAnswer
<1>5. ASSUME NEW r \in Requests, HandlerStep(r) PROVE TypeOK'
  <2>1. CASE Gathered(r)
    BY <2>1 DEF Gathered, Goto, Stages
  <2>2. CASE RefuseChallenge(r)
    BY <2>2 DEF RefuseChallenge, Consume, Return, Goto, Stages, Outcomes, Reasons
  <2>3. CASE Claim(r)
    BY <2>3 DEF Claim, Consume, Goto, Stages
  <2>4. CASE RefuseDid(r)
    BY <2>4 DEF RefuseDid, Return, Goto, Stages, Outcomes, Reasons
  <2>5. ASSUME NEW reason \in Audited, FailAudited(r, reason), msg[r].did \in Dids
        PROVE  TypeOK'
    BY <2>5, TypeAppendFail DEF FailAudited, Return, Goto, Stages, Outcomes, Reasons
  <2>6. CASE RefuseSignature(r)
    BY <2>5, <2>6, RegisteredAreDids DEF RefuseSignature, Audited
  <2>7. CASE Accept(r)
    <3>1. Asking \in Ballot
      BY DEF Asking, Ballot, Answers
    <3>2. answers' \in [Requests -> Ballot] /\ pc' \in [Requests -> Stages]
      BY <2>7, <3>1 DEF Accept, UsePreCollected, AskFromThreads, Goto, Stages
    <3> QED
      BY <2>7, <3>2 DEF Accept
  <2>8. CASE Collected(r)
    BY <2>8 DEF Collected, Goto, Stages
  <2>9. CASE NoQuorum(r)
    BY <2>5, <2>9 DEF NoQuorum, KnownAtWork, Audited
  <2>10. CASE Mismatch(r)
    BY <2>5, <2>10 DEF Mismatch, KnownAtWork, Audited
  <2>11. CASE Grant(r)
    <3>1. GrantQuorums(answers[r]) \subseteq SUBSET Nodes
      BY DEF GrantQuorums, Chosen, Subsets, Tallies, ForHashAndH, ForHash, Voters
    <3> QED
      BY <2>11, <3>1 DEF Grant, Goto, Stages, Outcomes, Reasons
  <2>12. CASE RecordGrant(r)
    <3> DEFINE e == [entry_type |-> "AUTH_SUCCESS", did |-> msg[r].did,
                     quorum_nodes |-> outcome[r].quorum_nodes, request |-> r]
    <3>1. e \in Entries
      BY <2>12 DEF RecordGrant, KnownAtWork, Entries, Outcomes
    <3>2. ledger' = Append(ledger, e)
      BY <2>12 DEF RecordGrant
    <3> HIDE DEF e
    <3> QED
      BY <2>12, <3>1, <3>2 DEF RecordGrant, Goto, Stages
  <2>13. CASE Respond(r)
    BY <2>13 DEF Respond, Goto, Stages
  <2> QED
    BY <1>5, <2>1, <2>2, <2>3, <2>4, <2>6, <2>7, <2>8, <2>9, <2>10, <2>11, <2>12, <2>13
    DEF HandlerStep
<1>6. ASSUME NEW n \in Nodes, NodeStep(n) PROVE TypeOK'
  BY <1>6 DEF NodeStep, CrashNode, RestoreNode, TurnByzantine, Reform
<1>7. CASE Crash
  BY <1>7 DEF Crash, ForgetAll, InFlight, Stages, Ballot, Answers
<1>8. CASE TimePasses
  BY <1>8 DEF TimePasses, Tick
<1>9. CASE UNCHANGED vars
  BY <1>9 DEF vars
<1> QED
  BY <1>1, <1>2, <1>3, <1>4, <1>5, <1>6, <1>7, <1>8, <1>9 DEF Next

-----------------------------------------------------------------------------
(* The parts of the inductive invariant, one step of Next at a time. *)

(* Only a request for a registered DID gets past step 2.                     *)
LEMMA KnownNext ==
  TypeOK /\ KnownAtWork /\ [Next]_vars => KnownAtWork'
<1> SUFFICES ASSUME TypeOK, KnownAtWork, [Next]_vars
             PROVE  KnownAtWork'
  OBVIOUS
<1> USE DEF TypeOK, KnownAtWork, handlerVars
<1>1. ASSUME NEW c \in ChallengeIds, IssueChallenge(c) PROVE KnownAtWork'
  BY <1>1 DEF IssueChallenge
<1>2. ASSUME NEW d \in Dids, Register(d) PROVE KnownAtWork'
  BY <1>2 DEF Register
<1>3. ASSUME NEW r \in Requests, Arrive(r) PROVE KnownAtWork'
  BY <1>3 DEF Arrive, Goto
<1>4. ASSUME NEW r \in Requests, NEW n \in Nodes, FetchStep(r, n) PROVE KnownAtWork'
  BY <1>4 DEF FetchStep, Serve, NoAnswer
<1>5. ASSUME NEW r \in Requests, HandlerStep(r) PROVE KnownAtWork'
  <2>1. CASE Gathered(r)
    BY <2>1 DEF Gathered, Goto
  <2>2. CASE RefuseChallenge(r)
    BY <2>2 DEF RefuseChallenge, Return, Goto
  <2>3. CASE Claim(r)
    BY <2>3 DEF Claim, Goto
  <2>4. CASE RefuseDid(r)
    BY <2>4 DEF RefuseDid, Return, Goto
  <2>5. CASE RefuseSignature(r)
    BY <2>5 DEF RefuseSignature, FailAudited, Return, Goto
  <2>6. CASE Accept(r)
    BY <2>6, RegisteredAreDids DEF Accept, UsePreCollected, AskFromThreads, Goto
  <2>7. CASE Collected(r)
    BY <2>7 DEF Collected, Goto
  <2>8. CASE NoQuorum(r)
    BY <2>8 DEF NoQuorum, FailAudited, Return, Goto
  <2>9. CASE Mismatch(r)
    BY <2>9 DEF Mismatch, FailAudited, Return, Goto
  <2>10. CASE Grant(r)
    BY <2>10 DEF Grant, Goto
  <2>11. CASE RecordGrant(r)
    BY <2>11 DEF RecordGrant, Goto
  <2>12. CASE Respond(r)
    BY <2>12 DEF Respond, Goto
  <2> QED
    BY <1>5, <2>1, <2>2, <2>3, <2>4, <2>5, <2>6, <2>7, <2>8, <2>9, <2>10, <2>11, <2>12
    DEF HandlerStep
<1>6. ASSUME NEW n \in Nodes, NodeStep(n) PROVE KnownAtWork'
  BY <1>6 DEF NodeStep, CrashNode, RestoreNode, TurnByzantine, Reform
<1>7. CASE Crash
  BY <1>7 DEF Crash, InFlight
<1>8. CASE TimePasses
  BY <1>8 DEF TimePasses
<1>9. CASE UNCHANGED vars
  BY <1>9 DEF vars
<1> QED
  BY <1>1, <1>2, <1>3, <1>4, <1>5, <1>6, <1>7, <1>8, <1>9 DEF Next

(* A challenge nobody was given has no holder: Claim takes it off the table. *)
LEMMA FreshNext ==
  TypeOK /\ FreshUnspent /\ [Next]_vars => FreshUnspent'
<1> SUFFICES ASSUME TypeOK, FreshUnspent, [Next]_vars
             PROVE  FreshUnspent'
  OBVIOUS
<1> USE DEF TypeOK, ChallengeTypeOK, FreshUnspent, challengeVars
<1>1. ASSUME NEW c \in ChallengeIds, IssueChallenge(c) PROVE FreshUnspent'
  BY <1>1 DEF IssueChallenge, Issue
<1>2. ASSUME NEW d \in Dids, Register(d) PROVE FreshUnspent'
  BY <1>2 DEF Register
<1>3. ASSUME NEW r \in Requests, Arrive(r) PROVE FreshUnspent'
  BY <1>3 DEF Arrive, Goto
<1>4. ASSUME NEW r \in Requests, NEW n \in Nodes, FetchStep(r, n) PROVE FreshUnspent'
  BY <1>4 DEF FetchStep, Serve, NoAnswer
<1>5. ASSUME NEW r \in Requests, HandlerStep(r) PROVE FreshUnspent'
  <2>1. CASE Gathered(r)
    BY <2>1 DEF Gathered, Goto
  <2>2. CASE RefuseChallenge(r)
    BY <2>2 DEF RefuseChallenge, Return, Goto, Consume
  <2>3. CASE Claim(r)
    BY <2>3 DEF Claim, Goto, Consume, Consumes
  <2>4. CASE RefuseDid(r)
    BY <2>4 DEF RefuseDid, Return, Goto
  <2>5. CASE RefuseSignature(r)
    BY <2>5 DEF RefuseSignature, FailAudited, Return, Goto
  <2>6. CASE Accept(r)
    BY <2>6 DEF Accept, UsePreCollected, AskFromThreads, Goto
  <2>7. CASE Collected(r)
    BY <2>7 DEF Collected, Goto
  <2>8. CASE NoQuorum(r)
    BY <2>8 DEF NoQuorum, FailAudited, Return, Goto
  <2>9. CASE Mismatch(r)
    BY <2>9 DEF Mismatch, FailAudited, Return, Goto
  <2>10. CASE Grant(r)
    BY <2>10 DEF Grant, Goto
  <2>11. CASE RecordGrant(r)
    BY <2>11 DEF RecordGrant, Goto
  <2>12. CASE Respond(r)
    BY <2>12 DEF Respond, Goto
  <2> QED
    BY <1>5, <2>1, <2>2, <2>3, <2>4, <2>5, <2>6, <2>7, <2>8, <2>9, <2>10, <2>11, <2>12
    DEF HandlerStep
<1>6. ASSUME NEW n \in Nodes, NodeStep(n) PROVE FreshUnspent'
  BY <1>6 DEF NodeStep, CrashNode, RestoreNode, TurnByzantine, Reform
<1>7. CASE Crash
  BY <1>7 DEF Crash, ForgetAll
<1>8. CASE TimePasses
  BY <1>8 DEF TimePasses, Tick
<1>9. CASE UNCHANGED vars
  BY <1>9 DEF vars
<1> QED
  BY <1>1, <1>2, <1>3, <1>4, <1>5, <1>6, <1>7, <1>8, <1>9 DEF Next

(* Single use: the request that claims a challenge is its first holder.      *)
LEMMA SpentOnceNext ==
  TypeOK /\ FreshUnspent /\ ChallengeSpentOnce /\ [Next]_vars => ChallengeSpentOnce'
<1> SUFFICES ASSUME TypeOK, FreshUnspent, ChallengeSpentOnce, [Next]_vars
             PROVE  ChallengeSpentOnce'
  OBVIOUS
<1> USE DEF TypeOK, ChallengeTypeOK, FreshUnspent, ChallengeSpentOnce
<1>1. ASSUME NEW c \in ChallengeIds, IssueChallenge(c) PROVE ChallengeSpentOnce'
  BY <1>1 DEF IssueChallenge
<1>2. ASSUME NEW d \in Dids, Register(d) PROVE ChallengeSpentOnce'
  BY <1>2 DEF Register
<1>3. ASSUME NEW r \in Requests, Arrive(r) PROVE ChallengeSpentOnce'
  BY <1>3 DEF Arrive, Goto
<1>4. ASSUME NEW r \in Requests, NEW n \in Nodes, FetchStep(r, n) PROVE ChallengeSpentOnce'
  BY <1>4 DEF FetchStep, Serve, NoAnswer
<1>5. ASSUME NEW r \in Requests, HandlerStep(r) PROVE ChallengeSpentOnce'
  <2>1. CASE Gathered(r)
    BY <2>1 DEF Gathered, Goto
  <2>2. CASE RefuseChallenge(r)
    BY <2>2 DEF RefuseChallenge, Return, Goto
  <2>3. CASE Claim(r)
    BY <2>3 DEF Claim, Goto, Consumes
  <2>4. CASE RefuseDid(r)
    BY <2>4 DEF RefuseDid, Return, Goto
  <2>5. CASE RefuseSignature(r)
    BY <2>5 DEF RefuseSignature, FailAudited, Return, Goto
  <2>6. CASE Accept(r)
    BY <2>6 DEF Accept, UsePreCollected, AskFromThreads, Goto
  <2>7. CASE Collected(r)
    BY <2>7 DEF Collected, Goto
  <2>8. CASE NoQuorum(r)
    BY <2>8 DEF NoQuorum, FailAudited, Return, Goto
  <2>9. CASE Mismatch(r)
    BY <2>9 DEF Mismatch, FailAudited, Return, Goto
  <2>10. CASE Grant(r)
    BY <2>10 DEF Grant, Goto
  <2>11. CASE RecordGrant(r)
    BY <2>11 DEF RecordGrant, Goto
  <2>12. CASE Respond(r)
    BY <2>12 DEF Respond, Goto
  <2> QED
    BY <1>5, <2>1, <2>2, <2>3, <2>4, <2>5, <2>6, <2>7, <2>8, <2>9, <2>10, <2>11, <2>12
    DEF HandlerStep
<1>6. ASSUME NEW n \in Nodes, NodeStep(n) PROVE ChallengeSpentOnce'
  BY <1>6 DEF NodeStep, CrashNode, RestoreNode, TurnByzantine, Reform
<1>7. CASE Crash
  BY <1>7 DEF Crash
<1>8. CASE TimePasses
  BY <1>8 DEF TimePasses
<1>9. CASE UNCHANGED vars
  BY <1>9 DEF vars
<1> QED
  BY <1>1, <1>2, <1>3, <1>4, <1>5, <1>6, <1>7, <1>8, <1>9 DEF Next

(* A request past step 1 holds the challenge it names.                       *)
LEMMA HoldersNext ==
  TypeOK /\ HoldersAtWork /\ [Next]_vars => HoldersAtWork'
<1> SUFFICES ASSUME TypeOK, HoldersAtWork, [Next]_vars
             PROVE  HoldersAtWork'
  OBVIOUS
<1> USE DEF TypeOK, ChallengeTypeOK, HoldersAtWork, Challenge, handlerVars
<1>1. ASSUME NEW c \in ChallengeIds, IssueChallenge(c) PROVE HoldersAtWork'
  BY <1>1 DEF IssueChallenge
<1>2. ASSUME NEW d \in Dids, Register(d) PROVE HoldersAtWork'
  BY <1>2 DEF Register
<1>3. ASSUME NEW r \in Requests, Arrive(r) PROVE HoldersAtWork'
  BY <1>3 DEF Arrive, Goto
<1>4. ASSUME NEW r \in Requests, NEW n \in Nodes, FetchStep(r, n) PROVE HoldersAtWork'
  BY <1>4 DEF FetchStep, Serve, NoAnswer
<1>5. ASSUME NEW r \in Requests, HandlerStep(r) PROVE HoldersAtWork'
  <2>1. CASE Gathered(r)
    BY <2>1 DEF Gathered, Goto
  <2>2. CASE RefuseChallenge(r)
    BY <2>2 DEF RefuseChallenge, Return, Goto
  <2>3. CASE Claim(r)
    BY <2>3 DEF Claim, Goto, Consumes
  <2>4. CASE RefuseDid(r)
    BY <2>4 DEF RefuseDid, Return, Goto
  <2>5. CASE RefuseSignature(r)
    BY <2>5 DEF RefuseSignature, FailAudited, Return, Goto
  <2>6. CASE Accept(r)
    BY <2>6 DEF Accept, UsePreCollected, AskFromThreads, Goto
  <2>7. CASE Collected(r)
    BY <2>7 DEF Collected, Goto
  <2>8. CASE NoQuorum(r)
    BY <2>8 DEF NoQuorum, FailAudited, Return, Goto
  <2>9. CASE Mismatch(r)
    BY <2>9 DEF Mismatch, FailAudited, Return, Goto
  <2>10. CASE Grant(r)
    BY <2>10 DEF Grant, Goto
  <2>11. CASE RecordGrant(r)
    BY <2>11 DEF RecordGrant, Goto
  <2>12. CASE Respond(r)
    BY <2>12 DEF Respond, Goto
  <2> QED
    BY <1>5, <2>1, <2>2, <2>3, <2>4, <2>5, <2>6, <2>7, <2>8, <2>9, <2>10, <2>11, <2>12
    DEF HandlerStep
<1>6. ASSUME NEW n \in Nodes, NodeStep(n) PROVE HoldersAtWork'
  BY <1>6 DEF NodeStep, CrashNode, RestoreNode, TurnByzantine, Reform
<1>7. CASE Crash
  BY <1>7 DEF Crash, InFlight
<1>8. CASE TimePasses
  BY <1>8 DEF TimePasses
<1>9. CASE UNCHANGED vars
  BY <1>9 DEF vars
<1> QED
  BY <1>1, <1>2, <1>3, <1>4, <1>5, <1>6, <1>7, <1>8, <1>9 DEF Next

(* No outcome before a step that returns one.                                *)
LEMMA OutcomeNext ==
  TypeOK /\ NoEarlyOutcome /\ [Next]_vars => NoEarlyOutcome'
<1> SUFFICES ASSUME TypeOK, NoEarlyOutcome, [Next]_vars
             PROVE  NoEarlyOutcome'
  OBVIOUS
<1> USE DEF TypeOK, NoEarlyOutcome, handlerVars
<1>1. ASSUME NEW c \in ChallengeIds, IssueChallenge(c) PROVE NoEarlyOutcome'
  BY <1>1 DEF IssueChallenge
<1>2. ASSUME NEW d \in Dids, Register(d) PROVE NoEarlyOutcome'
  BY <1>2 DEF Register
<1>3. ASSUME NEW r \in Requests, Arrive(r) PROVE NoEarlyOutcome'
  BY <1>3 DEF Arrive, Goto
<1>4. ASSUME NEW r \in Requests, NEW n \in Nodes, FetchStep(r, n) PROVE NoEarlyOutcome'
  BY <1>4 DEF FetchStep, Serve, NoAnswer
<1>5. ASSUME NEW r \in Requests, HandlerStep(r) PROVE NoEarlyOutcome'
  <2>1. CASE Gathered(r)
    BY <2>1 DEF Gathered, Goto
  <2>2. CASE RefuseChallenge(r)
    BY <2>2 DEF RefuseChallenge, Return, Goto
  <2>3. CASE Claim(r)
    BY <2>3 DEF Claim, Goto
  <2>4. CASE RefuseDid(r)
    BY <2>4 DEF RefuseDid, Return, Goto
  <2>5. CASE RefuseSignature(r)
    BY <2>5 DEF RefuseSignature, FailAudited, Return, Goto
  <2>6. CASE Accept(r)
    BY <2>6 DEF Accept, UsePreCollected, AskFromThreads, Goto
  <2>7. CASE Collected(r)
    BY <2>7 DEF Collected, Goto
  <2>8. CASE NoQuorum(r)
    BY <2>8 DEF NoQuorum, FailAudited, Return, Goto
  <2>9. CASE Mismatch(r)
    BY <2>9 DEF Mismatch, FailAudited, Return, Goto
  <2>10. CASE Grant(r)
    BY <2>10 DEF Grant, Goto
  <2>11. CASE RecordGrant(r)
    BY <2>11 DEF RecordGrant, Goto
  <2>12. CASE Respond(r)
    BY <2>12 DEF Respond, Goto
  <2> QED
    BY <1>5, <2>1, <2>2, <2>3, <2>4, <2>5, <2>6, <2>7, <2>8, <2>9, <2>10, <2>11, <2>12
    DEF HandlerStep
<1>6. ASSUME NEW n \in Nodes, NodeStep(n) PROVE NoEarlyOutcome'
  BY <1>6 DEF NodeStep, CrashNode, RestoreNode, TurnByzantine, Reform
<1>7. CASE Crash
  BY <1>7 DEF Crash, InFlight
<1>8. CASE TimePasses
  BY <1>8 DEF TimePasses
<1>9. CASE UNCHANGED vars
  BY <1>9 DEF vars
<1> QED
  BY <1>1, <1>2, <1>3, <1>4, <1>5, <1>6, <1>7, <1>8, <1>9 DEF Next

(* Answers change only while a handler waits for them.                       *)
LEMMA SettledNext ==
  TypeOK /\ AnswersSettled /\ [Next]_vars => AnswersSettled'
<1> SUFFICES ASSUME TypeOK, AnswersSettled, [Next]_vars
             PROVE  AnswersSettled'
  OBVIOUS
<1> USE DEF TypeOK, AnswersSettled, AllAnswered, Ballot, handlerVars
<1>1. ASSUME NEW c \in ChallengeIds, IssueChallenge(c) PROVE AnswersSettled'
  BY <1>1 DEF IssueChallenge
<1>2. ASSUME NEW d \in Dids, Register(d) PROVE AnswersSettled'
  BY <1>2 DEF Register
<1>3. ASSUME NEW r \in Requests, Arrive(r) PROVE AnswersSettled'
  BY <1>3 DEF Arrive, Goto
<1>4. ASSUME NEW r \in Requests, NEW n \in Nodes, FetchStep(r, n) PROVE AnswersSettled'
  BY <1>4 DEF FetchStep, Serve, NoAnswer
<1>5. ASSUME NEW r \in Requests, HandlerStep(r) PROVE AnswersSettled'
  <2>1. CASE Gathered(r)
    BY <2>1 DEF Gathered, Goto
  <2>2. CASE RefuseChallenge(r)
    BY <2>2 DEF RefuseChallenge, Return, Goto
  <2>3. CASE Claim(r)
    BY <2>3 DEF Claim, Goto
  <2>4. CASE RefuseDid(r)
    BY <2>4 DEF RefuseDid, Return, Goto
  <2>5. CASE RefuseSignature(r)
    BY <2>5 DEF RefuseSignature, FailAudited, Return, Goto
  <2>6. CASE Accept(r)
    BY <2>6 DEF Accept, UsePreCollected, AskFromThreads, Goto
  <2>7. CASE Collected(r)
    BY <2>7 DEF Collected, Goto
  <2>8. CASE NoQuorum(r)
    BY <2>8 DEF NoQuorum, FailAudited, Return, Goto
  <2>9. CASE Mismatch(r)
    BY <2>9 DEF Mismatch, FailAudited, Return, Goto
  <2>10. CASE Grant(r)
    BY <2>10 DEF Grant, Goto
  <2>11. CASE RecordGrant(r)
    BY <2>11 DEF RecordGrant, Goto
  <2>12. CASE Respond(r)
    BY <2>12 DEF Respond, Goto
  <2> QED
    BY <1>5, <2>1, <2>2, <2>3, <2>4, <2>5, <2>6, <2>7, <2>8, <2>9, <2>10, <2>11, <2>12
    DEF HandlerStep
<1>6. ASSUME NEW n \in Nodes, NodeStep(n) PROVE AnswersSettled'
  BY <1>6 DEF NodeStep, CrashNode, RestoreNode, TurnByzantine, Reform
<1>7. CASE Crash
  BY <1>7 DEF Crash, InFlight
<1>8. CASE TimePasses
  BY <1>8 DEF TimePasses
<1>9. CASE UNCHANGED vars
  BY <1>9 DEF vars
<1> QED
  BY <1>1, <1>2, <1>3, <1>4, <1>5, <1>6, <1>7, <1>8, <1>9 DEF Next

(* A fetch for one request leaves the answers of a decided request alone.    *)
LEMMA DecidedAnswersKept ==
  ASSUME TypeOK, NoEarlyOutcome, AnswersSettled,
         NEW r \in Requests, NEW n \in Nodes, FetchStep(r, n),
         NEW q \in Requests, outcome[q].reason # "none"
  PROVE  answers'[q] = answers[q]
<1>1. AllAnswered(q)
  BY DEF NoEarlyOutcome, AnswersSettled, Undecided
<1>2. q # r
  BY <1>1 DEF AllAnswered, FetchStep, Serve, NoAnswer
<1> QED
  BY <1>2 DEF TypeOK, FetchStep, Serve, NoAnswer

(* A granted quorum is one the search chose, and its answers are settled.    *)
LEMMA QuorumNext ==
  TypeOK /\ NoEarlyOutcome /\ AnswersSettled /\ QuorumIsHonest /\ [Next]_vars => QuorumIsHonest'
<1> SUFFICES ASSUME TypeOK, NoEarlyOutcome, AnswersSettled, QuorumIsHonest, [Next]_vars
             PROVE  QuorumIsHonest'
  OBVIOUS
<1> USE DEF TypeOK, NoEarlyOutcome, AnswersSettled, AllAnswered, Undecided, Honest, HonestVoters, Ballot, handlerVars, QuorumIsHonest
<1>1. ASSUME NEW c \in ChallengeIds, IssueChallenge(c) PROVE QuorumIsHonest'
  BY <1>1 DEF IssueChallenge
<1>2. ASSUME NEW d \in Dids, Register(d) PROVE QuorumIsHonest'
  BY <1>2 DEF Register
<1>3. ASSUME NEW r \in Requests, Arrive(r) PROVE QuorumIsHonest'
  BY <1>3 DEF Arrive, Goto
<1>4. ASSUME NEW r \in Requests, NEW n \in Nodes, FetchStep(r, n) PROVE QuorumIsHonest'
  <2>1. outcome' = outcome
    BY <1>4 DEF FetchStep, Serve, NoAnswer
  <2>2. \A q \in Requests : outcome[q].reason = "success" => answers'[q] = answers[q]
    BY <1>4, DecidedAnswersKept
  <2> QED
    BY <2>1, <2>2
<1>5. ASSUME NEW r \in Requests, HandlerStep(r) PROVE QuorumIsHonest'
  <2>1. CASE Gathered(r)
    BY <2>1 DEF Gathered, Goto
  <2>2. CASE RefuseChallenge(r)
    BY <2>2 DEF RefuseChallenge, Return, Goto
  <2>3. CASE Claim(r)
    BY <2>3 DEF Claim, Goto
  <2>4. CASE RefuseDid(r)
    BY <2>4 DEF RefuseDid, Return, Goto
  <2>5. CASE RefuseSignature(r)
    BY <2>5 DEF RefuseSignature, FailAudited, Return, Goto
  <2>6. CASE Accept(r)
    BY <2>6 DEF Accept, UsePreCollected, AskFromThreads, Goto
  <2>7. CASE Collected(r)
    BY <2>7 DEF Collected, Goto
  <2>8. CASE NoQuorum(r)
    BY <2>8 DEF NoQuorum, FailAudited, Return, Goto
  <2>9. CASE Mismatch(r)
    BY <2>9 DEF Mismatch, FailAudited, Return, Goto
  <2>10. CASE Grant(r)
    BY <2>10 DEF Grant, Goto, GrantQuorums, Chosen, Subsets, Reconstructs, Tallies, ForHashAndH, ForHash, Voters
  <2>11. CASE RecordGrant(r)
    BY <2>11 DEF RecordGrant, Goto
  <2>12. CASE Respond(r)
    BY <2>12 DEF Respond, Goto
  <2> QED
    BY <1>5, <2>1, <2>2, <2>3, <2>4, <2>5, <2>6, <2>7, <2>8, <2>9, <2>10, <2>11, <2>12
    DEF HandlerStep
<1>6. ASSUME NEW n \in Nodes, NodeStep(n) PROVE QuorumIsHonest'
  BY <1>6 DEF NodeStep, CrashNode, RestoreNode, TurnByzantine, Reform
<1>7. CASE Crash
  BY <1>7 DEF Crash
<1>8. CASE TimePasses
  BY <1>8 DEF TimePasses
<1>9. CASE UNCHANGED vars
  BY <1>9 DEF vars
<1> QED
  BY <1>1, <1>2, <1>3, <1>4, <1>5, <1>6, <1>7, <1>8, <1>9 DEF Next

(* Liars cannot make a request fail: HonestThresholdDecides.                 *)
LEMMA FailureNext ==
  TypeOK /\ NoEarlyOutcome /\ AnswersSettled /\ FailureMeansTooFewHonest /\ [Next]_vars => FailureMeansTooFewHonest'
<1> SUFFICES ASSUME TypeOK, NoEarlyOutcome, AnswersSettled, FailureMeansTooFewHonest, [Next]_vars
             PROVE  FailureMeansTooFewHonest'
  OBVIOUS
<1> USE DEF TypeOK, NoEarlyOutcome, AnswersSettled, AllAnswered, Undecided, Honest, HonestVoters, Ballot, handlerVars, FailureMeansTooFewHonest
<1>1. ASSUME NEW c \in ChallengeIds, IssueChallenge(c) PROVE FailureMeansTooFewHonest'
  BY <1>1 DEF IssueChallenge
<1>2. ASSUME NEW d \in Dids, Register(d) PROVE FailureMeansTooFewHonest'
  BY <1>2 DEF Register
<1>3. ASSUME NEW r \in Requests, Arrive(r) PROVE FailureMeansTooFewHonest'
  BY <1>3, SMTT(30) DEF Arrive, Goto
<1>4. ASSUME NEW r \in Requests, NEW n \in Nodes, FetchStep(r, n) PROVE FailureMeansTooFewHonest'
  <2>1. outcome' = outcome
    BY <1>4 DEF FetchStep, Serve, NoAnswer
  <2>2. \A q \in Requests : outcome[q].reason # "none" => answers'[q] = answers[q]
    BY <1>4, DecidedAnswersKept
  <2> QED
    BY <2>1, <2>2
<1>5. ASSUME NEW r \in Requests, HandlerStep(r) PROVE FailureMeansTooFewHonest'
  <2>1. CASE Gathered(r)
    BY <2>1 DEF Gathered, Goto
  <2>2. CASE RefuseChallenge(r)
    BY <2>2 DEF RefuseChallenge, Return, Goto
  <2>3. CASE Claim(r)
    BY <2>3 DEF Claim, Goto
  <2>4. CASE RefuseDid(r)
    BY <2>4 DEF RefuseDid, Return, Goto
  <2>5. CASE RefuseSignature(r)
    BY <2>5 DEF RefuseSignature, FailAudited, Return, Goto
  <2>6. CASE Accept(r)
    <3>1. outcome' = outcome /\ outcome[r] = Undecided
      BY <2>6 DEF Accept
    <3>2. \A q \in Requests : q # r => answers'[q] = answers[q]
      BY <2>6 DEF Accept, UsePreCollected, AskFromThreads
    <3>3. \A q \in Requests : outcome[q].reason # "none" => answers'[q] = answers[q]
      BY <3>1, <3>2
    <3> QED
      BY <3>1, <3>3
  <2>7. CASE Collected(r)
    BY <2>7 DEF Collected, Goto
  <2>8. CASE NoQuorum(r)
    <3>1. RoundFails(answers[r]) /\ answers' = answers
      BY <2>8 DEF NoQuorum, FailAudited
    <3>2. ~(Cardinality(HonestVoters(answers[r])) >= THRESHOLD)
      BY <3>1, HonestThresholdDecides DEF RoundFails
    <3>3. Cardinality(HonestVoters(answers[r])) < THRESHOLD
      BY <3>2, NodeSets, BallotConstants
    <3>4. \A q \in Requests : q # r => outcome'[q] = outcome[q]
      BY <2>8 DEF NoQuorum, FailAudited, Return
    <3> QED
      BY <3>1, <3>3, <3>4
  <2>9. CASE Mismatch(r)
    <3>1. SearchFails(answers[r]) /\ answers' = answers
      BY <2>9 DEF Mismatch, FailAudited
    <3>2. ~(Cardinality(HonestVoters(answers[r])) >= THRESHOLD)
      BY <3>1, HonestThresholdDecides DEF SearchFails
    <3>3. Cardinality(HonestVoters(answers[r])) < THRESHOLD
      BY <3>2, NodeSets, BallotConstants
    <3>4. \A q \in Requests : q # r => outcome'[q] = outcome[q]
      BY <2>9 DEF Mismatch, FailAudited, Return
    <3> QED
      BY <3>1, <3>3, <3>4
  <2>10. CASE Grant(r)
    BY <2>10 DEF Grant, Goto
  <2>11. CASE RecordGrant(r)
    BY <2>11 DEF RecordGrant, Goto
  <2>12. CASE Respond(r)
    BY <2>12 DEF Respond, Goto
  <2> QED
    BY <1>5, <2>1, <2>2, <2>3, <2>4, <2>5, <2>6, <2>7, <2>8, <2>9, <2>10, <2>11, <2>12
    DEF HandlerStep
<1>6. ASSUME NEW n \in Nodes, NodeStep(n) PROVE FailureMeansTooFewHonest'
  BY <1>6 DEF NodeStep, CrashNode, RestoreNode, TurnByzantine, Reform
<1>7. CASE Crash
  BY <1>7 DEF Crash
<1>8. CASE TimePasses
  BY <1>8 DEF TimePasses
<1>9. CASE UNCHANGED vars
  BY <1>9 DEF vars
<1> QED
  BY <1>1, <1>2, <1>3, <1>4, <1>5, <1>6, <1>7, <1>8, <1>9 DEF Next

-----------------------------------------------------------------------------
(* The theorems. *)

LEMMA InvariantInit == Init => InductiveInvariant
<1> SUFFICES ASSUME Init PROVE InductiveInvariant
  OBVIOUS
<1>1. TypeOK
  BY TypeInit
<1>2. FreshUnspent /\ ChallengeSpentOnce
  BY DEF Init, FreshUnspent, ChallengeSpentOnce
<1>3. KnownAtWork /\ HoldersAtWork /\ NoEarlyOutcome
  BY DEF Init, KnownAtWork, HoldersAtWork, NoEarlyOutcome
<1>4. AnswersSettled
  BY DEF Init, AnswersSettled, AllAnswered, Unasked
<1>5. QuorumIsHonest /\ FailureMeansTooFewHonest
  BY DEF Init, QuorumIsHonest, FailureMeansTooFewHonest, Undecided
<1> QED
  BY <1>1, <1>2, <1>3, <1>4, <1>5 DEF InductiveInvariant

(* Every part of InductiveInvariant is kept by every step.                   *)
LEMMA InvariantNext ==
  InductiveInvariant /\ [Next]_vars => InductiveInvariant'
  BY TypeNext, KnownNext, FreshNext, SpentOnceNext, HoldersNext, OutcomeNext, SettledNext,
     QuorumNext, FailureNext
  DEF InductiveInvariant

(* The inductive invariant holds in every reachable state of the coordinator,*)
(* its nodes and its clients.                                                *)
THEOREM Invariance == Spec => []InductiveInvariant
  BY InvariantInit, InvariantNext, PTL DEF Spec

(* Every variable keeps its type.                                            *)
THEOREM TypeCorrect == Spec => []TypeOK
<1>1. InductiveInvariant => TypeOK
  BY DEF InductiveInvariant
<1> QED
  BY <1>1, Invariance, PTL

(* consume() gives a nonce to one request at most, whatever the interleaving *)
(* of requests that peeked at it, for any number of them.                    *)
THEOREM SingleUse == Spec => []ChallengeSpentOnce
<1>1. InductiveInvariant => ChallengeSpentOnce
  BY DEF InductiveInvariant
<1> QED
  BY <1>1, Invariance, PTL

(* A token is granted on THRESHOLD honest proofs, whatever the other nodes   *)
(* answer and for any number of nodes.                                       *)
THEOREM GrantsAreHonest == Spec => []QuorumIsHonest
<1>1. InductiveInvariant => QuorumIsHonest
  BY DEF InductiveInvariant
<1> QED
  BY <1>1, Invariance, PTL

(* Fewer than THRESHOLD honest answers are the only cause of a failed vote   *)
(* or search, for any number of nodes below 2 * THRESHOLD.                   *)
THEOREM LiarsCannotBlock == Spec => []FailureMeansTooFewHonest
<1>1. InductiveInvariant => FailureMeansTooFewHonest
  BY DEF InductiveInvariant
<1> QED
  BY <1>1, Invariance, PTL

-----------------------------------------------------------------------------
(* Refinement. *)

LEMMA LifecycleInit == Init => Lifecycle!Init
  BY DEF Init, ChallengeInit, Lifecycle!Init, ChallengeState, Granted, Undecided

(* A step that leaves the table and the grants alone is a stutter.           *)
LEMMA LifecycleStutter ==
  ASSUME UNCHANGED <<challengeVars, spenders>>, Granted' = Granted
  PROVE  UNCHANGED Lifecycle!vars
  BY DEF challengeVars, Lifecycle!vars, ChallengeState

(* Every step of the program is a step of ChallengeLifecycle.tla or leaves   *)
(* its variables alone.                                                      *)
LEMMA LifecycleNext ==
  InductiveInvariant /\ [Next]_vars => [Lifecycle!Next]_(Lifecycle!vars)
<1> SUFFICES ASSUME InductiveInvariant, [Next]_vars
             PROVE  Lifecycle!Next \/ UNCHANGED Lifecycle!vars
  OBVIOUS
<1> USE DEF InductiveInvariant
<1>1. ASSUME NEW c \in ChallengeIds, IssueChallenge(c) PROVE Lifecycle!Next
  <2>1. Lifecycle!Open(c)
    BY <1>1 DEF IssueChallenge, Issue, Lifecycle!Open, ChallengeState, Granted, handlerVars,
                TypeOK, ChallengeTypeOK
  <2> QED
    BY <2>1 DEF Lifecycle!Next
<1>2. ASSUME NEW d \in Dids, Register(d) PROVE UNCHANGED Lifecycle!vars
  BY <1>2, LifecycleStutter DEF Register, Granted, handlerVars
<1>3. ASSUME NEW r \in Requests, Arrive(r) PROVE UNCHANGED Lifecycle!vars
  BY <1>3, LifecycleStutter DEF Arrive, Granted
<1>4. ASSUME NEW r \in Requests, NEW n \in Nodes, FetchStep(r, n)
      PROVE  UNCHANGED Lifecycle!vars
  BY <1>4, LifecycleStutter DEF FetchStep, Serve, NoAnswer, Granted
<1>5. ASSUME NEW r \in Requests, HandlerStep(r)
      PROVE  Lifecycle!Next \/ UNCHANGED Lifecycle!vars
  <2>1. ASSUME NEW reason \in Reasons \ {"success"}, outcome[r] = Undecided,
               Return(r, reason, {})
        PROVE  Granted' = Granted
    BY <2>1 DEF Return, Granted, Undecided, TypeOK
  <2>2. CASE Gathered(r)
    BY <2>2, LifecycleStutter DEF Gathered, Granted
  <2>3. CASE RefuseChallenge(r)
    <3>1. Granted' = Granted
      BY <2>1, <2>3 DEF RefuseChallenge, NoEarlyOutcome, Reasons
    <3>2. CASE Challenge(r) \in pending
      <4>1. Lifecycle!Lapse(Challenge(r))
        BY <2>3, <3>1, <3>2 DEF RefuseChallenge, Consume, Consumes, Expired, Lifecycle!Lapse,
           ChallengeState, TypeOK, ChallengeTypeOK
      <4>2. Challenge(r) \in ChallengeIds
        BY <3>2 DEF TypeOK, ChallengeTypeOK
      <4> QED
        BY <4>1, <4>2 DEF Lifecycle!Next
    <3>3. CASE Challenge(r) \notin pending
      BY <2>3, <3>1, <3>3, LifecycleStutter DEF RefuseChallenge, Consume, challengeVars
    <3> QED
      BY <3>2, <3>3
  <2>4. CASE Claim(r)
    <3>1. Challenge(r) \in pending /\ now <= expires_at[Challenge(r)]
      BY <2>4 DEF Claim, Consumes, Expired, TypeOK, ChallengeTypeOK
    <3>2. Challenge(r) \in ChallengeIds /\ spenders[Challenge(r)] = {}
      BY <3>1 DEF FreshUnspent, TypeOK, ChallengeTypeOK
    <3>3. Lifecycle!Spend(Challenge(r), r)
      BY <2>4, <3>1, <3>2 DEF Claim, Consume, Lifecycle!Spend, ChallengeState, Granted,
         TypeOK, ChallengeTypeOK
    <3> QED
      BY <3>2, <3>3 DEF Lifecycle!Next
  <2>5. CASE RefuseDid(r)
    BY <2>1, <2>5, LifecycleStutter DEF RefuseDid, NoEarlyOutcome, Reasons
  <2>6. CASE RefuseSignature(r)
    BY <2>1, <2>6, LifecycleStutter DEF RefuseSignature, FailAudited, NoEarlyOutcome, Reasons, Audited
  <2>7. CASE Accept(r)
    BY <2>7, LifecycleStutter DEF Accept, Granted
  <2>8. CASE Collected(r)
    BY <2>8, LifecycleStutter DEF Collected, Granted
  <2>9. CASE NoQuorum(r)
    BY <2>1, <2>9, LifecycleStutter DEF NoQuorum, FailAudited, NoEarlyOutcome, Reasons, Audited
  <2>10. CASE Mismatch(r)
    BY <2>1, <2>10, LifecycleStutter DEF Mismatch, FailAudited, NoEarlyOutcome, Reasons, Audited
  <2>11. CASE Grant(r)
    <3>1. Challenge(r) \in ChallengeIds /\ r \in spenders[Challenge(r)]
      BY <2>11 DEF Grant, HoldersAtWork
    <3>2. r \notin Granted /\ Granted' = Granted \cup {r}
      BY <2>11 DEF Grant, NoEarlyOutcome, Granted, Undecided, TypeOK
    <3>3. Lifecycle!Grant(Challenge(r), r)
      BY <2>11, <3>1, <3>2 DEF Grant, Lifecycle!Grant, ChallengeState, challengeVars
    <3> QED
      BY <3>1, <3>3 DEF Lifecycle!Next
  <2>12. CASE RecordGrant(r)
    BY <2>12, LifecycleStutter DEF RecordGrant, Granted
  <2>13. CASE Respond(r)
    BY <2>13, LifecycleStutter DEF Respond, Granted
  <2> QED
    BY <1>5, <2>2, <2>3, <2>4, <2>5, <2>6, <2>7, <2>8, <2>9, <2>10, <2>11, <2>12, <2>13
    DEF HandlerStep
<1>6. ASSUME NEW n \in Nodes, NodeStep(n) PROVE UNCHANGED Lifecycle!vars
  BY <1>6, LifecycleStutter
  DEF NodeStep, CrashNode, RestoreNode, TurnByzantine, Reform, Granted, handlerVars
<1>7. CASE Crash
  <2>1. Lifecycle!Restart
    BY <1>7 DEF Crash, ForgetAll, Lifecycle!Restart, ChallengeState, Granted,
                TypeOK, ChallengeTypeOK
  <2> QED
    BY <2>1 DEF Lifecycle!Next
<1>8. CASE TimePasses
  <2>1. Lifecycle!Pass
    BY <1>8 DEF TimePasses, Tick, Lifecycle!Pass, ChallengeState, Granted, handlerVars
  <2> QED
    BY <2>1 DEF Lifecycle!Next
<1>9. CASE UNCHANGED vars
  BY <1>9, LifecycleStutter DEF vars, Granted, handlerVars
<1> QED
  BY <1>1, <1>2, <1>3, <1>4, <1>5, <1>6, <1>7, <1>8, <1>9 DEF Next

(* The coordinator implements ChallengeLifecycle.tla: a challenge is spent   *)
(* once, in time, and only its spender is granted a token.                   *)
THEOREM ImplementsLifecycle == Spec => LifecycleImplemented
  BY LifecycleInit, LifecycleNext, Invariance, PTL
  DEF Spec, LifecycleImplemented, Lifecycle!Spec
-----------------------------------------------------------------------------
(* The blocking path. *)

Asked(r) == \A n \in Nodes : answers[r][n] # "unasked"

(* Over HTTP a request either has asked the nodes, or has a challenge that   *)
(* consume() will refuse.                                                    *)
AskedOrDead ==
  Transport = "http" => \A r \in Requests :
    /\ pc[r] \in {"gathering", "verifying"} => Asked(r)
    /\ pc[r] = "entered" => Asked(r) \/ ~Peeks(Challenge(r))
    /\ pc[r] # "collecting"

LEMMA AskedNext ==
  TypeOK /\ AskedOrDead /\ [Next]_vars => AskedOrDead'
<1> SUFFICES ASSUME TypeOK, AskedOrDead, Transport = "http", [Next]_vars
             PROVE  AskedOrDead'
  BY DEF AskedOrDead
<1> USE DEF TypeOK, ChallengeTypeOK, Ballot, AskedOrDead, Asked, Peeks, Expired,
            Challenge, challengeVars, handlerVars
<1>1. ASSUME NEW c \in ChallengeIds, IssueChallenge(c) PROVE AskedOrDead'
  BY <1>1 DEF IssueChallenge, Issue, LoopFree, HoldsLoop
<1>2. ASSUME NEW d \in Dids, Register(d) PROVE AskedOrDead'
  BY <1>2 DEF Register
<1>3. ASSUME NEW r \in Requests, Arrive(r) PROVE AskedOrDead'
  BY <1>3 DEF Arrive, Gathers, Goto, Asking
<1>4. ASSUME NEW r \in Requests, NEW n \in Nodes, FetchStep(r, n) PROVE AskedOrDead'
  <2>1. ProofsOf(n) \subseteq Proofs
    BY AuthenticationConstants DEF ProofsOf, Proofs
  <2>2. PICK a \in Proofs \cup {"none"} : answers' = [answers EXCEPT ![r][n] = a]
    BY <1>4, <2>1 DEF FetchStep, Serve, NoAnswer
  <2>3. \A s \in Requests : Asked(s) => Asked(s)'
    BY <2>2 DEF Proofs
  <2> QED
    BY <1>4, <2>3 DEF FetchStep, Serve, NoAnswer
<1>5. ASSUME NEW r \in Requests, HandlerStep(r) PROVE AskedOrDead'
  <2>1. CASE Gathered(r)
    BY <2>1 DEF Gathered, Goto
  <2>2. CASE RefuseChallenge(r)
    BY <2>2 DEF RefuseChallenge, Consume, Return, Goto
  <2>3. CASE Claim(r)
    BY <2>3 DEF Claim, Consumes, Consume, Goto
  <2>4. CASE Accept(r)
    <3>1. PreCollected(r)
      BY <2>4, BallotConstants DEF Accept, PreCollected, Unasked
    <3> QED
      BY <2>4, <3>1 DEF Accept, UsePreCollected, AskFromThreads, Goto
  <2>5. CASE RefuseDid(r) \/ RefuseSignature(r) \/ NoQuorum(r) \/ Mismatch(r)
    BY <2>5 DEF RefuseDid, RefuseSignature, NoQuorum, Mismatch, FailAudited, Return, Goto
  <2>6. CASE Collected(r) \/ Grant(r) \/ RecordGrant(r) \/ Respond(r)
    BY <2>6 DEF Collected, Grant, RecordGrant, Respond, Goto
  <2> QED
    BY <1>5, <2>1, <2>2, <2>3, <2>4, <2>5, <2>6 DEF HandlerStep
<1>6. ASSUME NEW n \in Nodes, NodeStep(n) PROVE AskedOrDead'
  BY <1>6 DEF NodeStep, CrashNode, RestoreNode, TurnByzantine, Reform
<1>7. CASE Crash
  BY <1>7 DEF Crash, ForgetAll, InFlight
<1>8. CASE TimePasses
  BY <1>8 DEF TimePasses, Tick
<1>9. CASE UNCHANGED vars
  BY <1>9 DEF vars
<1> QED
  BY <1>1, <1>2, <1>3, <1>4, <1>5, <1>6, <1>7, <1>8, <1>9 DEF Next

(* Over HTTP the branch of authenticate() that waits for its own threads, and *)
(* the whole event loop with it, is never taken.                              *)
THEOREM NeverBlocks == Spec => []BlockingPathUnreached
<1>1. Init => AskedOrDead
  BY DEF Init, AskedOrDead
<1>2. InductiveInvariant => TypeOK
  BY DEF InductiveInvariant
<1>3. AskedOrDead => BlockingPathUnreached
  BY DEF AskedOrDead, BlockingPathUnreached
<1> QED
  BY Invariance, AskedNext, <1>1, <1>2, <1>3, PTL DEF Spec

-----------------------------------------------------------------------------
(* Refusals. *)

(* A challenge off the table has a holder, or is too late, or went with a    *)
(* restart; a holder is past step 1; a request names what was handed out.    *)
GoneForAReason ==
  \A c \in issued \ pending : spenders[c] # {} \/ Expired(c) \/ crashes > 0

HoldersPastClaim ==
  \A c \in ChallengeIds : \A r \in spenders[c] : pc[r] \notin {"idle", "gathering", "entered"}

NamesIssued ==
  \A r \in Requests : pc[r] # "idle" => Challenge(r) \in issued \cup {UnknownId}

RefusalInvariant ==
  GoneForAReason /\ HoldersPastClaim /\ NamesIssued /\ RefusalJustified

LEMMA RefusalNext ==
  TypeOK /\ NoEarlyOutcome /\ RefusalInvariant /\ [Next]_vars => RefusalInvariant'
<1> SUFFICES ASSUME TypeOK, NoEarlyOutcome, RefusalInvariant, [Next]_vars
             PROVE  RefusalInvariant'
  OBVIOUS
<1> USE DEF TypeOK, ChallengeTypeOK, NoEarlyOutcome, Undecided, RefusalInvariant,
            GoneForAReason, HoldersPastClaim, NamesIssued, RefusalJustified,
            Expired, Challenge, challengeVars, handlerVars
<1>1. ASSUME NEW c \in ChallengeIds, IssueChallenge(c) PROVE RefusalInvariant'
  BY <1>1, AuthenticationConstants DEF IssueChallenge, Issue
<1>2. ASSUME NEW d \in Dids, Register(d) PROVE RefusalInvariant'
  BY <1>2 DEF Register
<1>3. ASSUME NEW r \in Requests, Arrive(r) PROVE RefusalInvariant'
  BY <1>3 DEF Arrive, Sendable, Goto
<1>4. ASSUME NEW r \in Requests, NEW n \in Nodes, FetchStep(r, n) PROVE RefusalInvariant'
  BY <1>4 DEF FetchStep, Serve, NoAnswer
<1>5. ASSUME NEW r \in Requests, HandlerStep(r) PROVE RefusalInvariant'
  <2>1. CASE Gathered(r)
    BY <2>1 DEF Gathered, Goto
  <2>2. CASE RefuseChallenge(r)
    <3>1. \/ Challenge(r) = UnknownId \/ Expired(Challenge(r))
          \/ spenders[Challenge(r)] \ {r} # {} \/ crashes > 0
      BY <2>2 DEF RefuseChallenge, Consumes
    <3> QED
      BY <2>2, <3>1 DEF RefuseChallenge, Consumes, Consume, Return, Goto
  <2>3. CASE Claim(r)
    BY <2>3 DEF Claim, Consumes, Consume, Goto
  <2>4. CASE RefuseDid(r)
    BY <2>4 DEF RefuseDid, Return, Goto
  <2>5. ASSUME NEW reason \in Audited, FailAudited(r, reason),
               pc[r] \in {"verifying", "deciding"}
        PROVE  RefusalInvariant'
    BY <2>5 DEF FailAudited, Return, Goto, Audited
  <2>6. CASE RefuseSignature(r) \/ NoQuorum(r) \/ Mismatch(r)
    BY <2>5, <2>6 DEF RefuseSignature, NoQuorum, Mismatch, Audited
  <2>7. CASE Accept(r)
    BY <2>7 DEF Accept, UsePreCollected, AskFromThreads, Goto
  <2>8. CASE Grant(r)
    BY <2>8 DEF Grant, Goto
  <2>9. CASE Collected(r) \/ RecordGrant(r) \/ Respond(r)
    BY <2>9 DEF Collected, RecordGrant, Respond, Goto
  <2> QED
    BY <1>5, <2>1, <2>2, <2>3, <2>4, <2>6, <2>7, <2>8, <2>9 DEF HandlerStep
<1>6. ASSUME NEW n \in Nodes, NodeStep(n) PROVE RefusalInvariant'
  BY <1>6 DEF NodeStep, CrashNode, RestoreNode, TurnByzantine, Reform
<1>7. CASE Crash
  BY <1>7 DEF Crash, ForgetAll, InFlight
<1>8. CASE TimePasses
  BY <1>8, AuthenticationConstants, SMTT(30) DEF TimePasses, Tick
<1>9. CASE UNCHANGED vars
  BY <1>9 DEF vars
<1> QED
  BY <1>1, <1>2, <1>3, <1>4, <1>5, <1>6, <1>7, <1>8, <1>9 DEF Next

(* A refused challenge was unknown, too late, spent by another request, or    *)
(* forgotten with a restarted coordinator; peek() and the wait lose none.     *)
THEOREM RefusalsHaveCauses == Spec => []RefusalJustified
<1>1. Init => RefusalInvariant
  BY DEF Init, ChallengeInit, Undecided, RefusalInvariant, GoneForAReason,
         HoldersPastClaim, NamesIssued, RefusalJustified
<1>2. InductiveInvariant => TypeOK /\ NoEarlyOutcome
  BY DEF InductiveInvariant
<1>3. RefusalInvariant => RefusalJustified
  BY DEF RefusalInvariant
<1> QED
  BY Invariance, RefusalNext, <1>1, <1>2, <1>3, PTL DEF Spec

-----------------------------------------------------------------------------
(* The audit trail. *)

(* What an append adds to the entries of a request.                          *)
LEMMA EntriesGrow ==
  ASSUME TypeOK, NEW e, ledger' = Append(ledger, e)
  PROVE  /\ \A i \in DOMAIN ledger : ledger'[i] = ledger[i]
         /\ ledger'[Len(ledger) + 1] = e
         /\ Len(ledger) + 1 \notin DOMAIN ledger
         /\ DOMAIN ledger' = DOMAIN ledger \cup {Len(ledger) + 1}
  BY DEF TypeOK

(* The ledger is what the outcomes say, and says it once; an outcome that    *)
(* must be recorded is returned after its entry.                             *)
AuditInvariant ==
  \A r \in Requests :
    /\ pc[r] \notin {"returning", "replied", "lost"} => EntriesOf(r) = {}
    /\ \A i, j \in EntriesOf(r) : i = j
    /\ \A i \in EntriesOf(r) : Matches(ledger[i], r)
    /\ pc[r] \in {"returning", "replied"} /\ outcome[r].reason \in Audited \cup {"success"}
         => EntriesOf(r) # {}
    /\ pc[r] = "issuing" => outcome[r].reason = "success"

(* An entry that stays keeps matching while its request is left alone.      *)
LEMMA MatchesKept ==
  ASSUME NEW s, NEW i, ledger'[i] = ledger[i], msg'[s] = msg[s], outcome'[s] = outcome[s]
  PROVE  Matches(ledger[i], s) => Matches(ledger[i], s)'
  BY DEF Matches

(* One entry more, for a request at work that returns with it.               *)
LEMMA AuditAppend ==
  ASSUME TypeOK, AuditInvariant, NEW r \in Requests, NEW e,
         pc[r] \in {"verifying", "deciding", "issuing"},
         e.entry_type # "DID_REGISTER", e.request = r,
         ledger' = Append(ledger, e), Goto(r, "returning"),
         \A s \in Requests \ {r} : outcome'[s] = outcome[s],
         msg' = msg, Matches(e, r)'
  PROVE  AuditInvariant'
<1>1. EntriesOf(r) = {}
  BY DEF AuditInvariant
<1>2. EntriesOf(r)' = {Len(ledger) + 1}
  BY <1>1, EntriesGrow DEF EntriesOf
<1>3. \A s \in Requests \ {r} : EntriesOf(s)' = EntriesOf(s)
  BY EntriesGrow DEF EntriesOf
<1>4. \A s \in Requests \ {r} : \A i \in EntriesOf(s) : Matches(ledger[i], s)'
  BY EntriesGrow, MatchesKept DEF AuditInvariant, EntriesOf
<1>5. \A i \in EntriesOf(r)' : Matches(ledger[i], r)'
  BY <1>2, EntriesGrow DEF Matches
<1>6. /\ pc'[r] = "returning"
      /\ \A s \in Requests \ {r} : pc'[s] = pc[s]
  BY DEF TypeOK, Goto
<1> SUFFICES ASSUME NEW s \in Requests
             PROVE  /\ pc'[s] \notin {"returning", "replied", "lost"} => EntriesOf(s)' = {}
                    /\ \A i, j \in EntriesOf(s)' : i = j
                    /\ \A i \in EntriesOf(s)' : Matches(ledger[i], s)'
                    /\ (/\ pc'[s] \in {"returning", "replied"}
                        /\ outcome'[s].reason \in Audited \cup {"success"})
                         => EntriesOf(s)' # {}
                    /\ pc'[s] = "issuing" => outcome'[s].reason = "success"
  BY DEF AuditInvariant
<1>7. CASE s = r
  BY <1>2, <1>5, <1>6, <1>7
<1>8. CASE s # r
  <2>1. EntriesOf(s)' = EntriesOf(s) /\ pc'[s] = pc[s] /\ outcome'[s] = outcome[s]
    BY <1>3, <1>6, <1>8
  <2>2. \A i \in EntriesOf(s)' : Matches(ledger[i], s)'
    BY <1>4, <1>8, <2>1
  <2>3. /\ pc[s] \notin {"returning", "replied", "lost"} => EntriesOf(s) = {}
        /\ \A i, j \in EntriesOf(s) : i = j
        /\ (/\ pc[s] \in {"returning", "replied"}
            /\ outcome[s].reason \in Audited \cup {"success"})
             => EntriesOf(s) # {}
        /\ pc[s] = "issuing" => outcome[s].reason = "success"
    BY DEF AuditInvariant
  <2> QED
    BY <2>1, <2>2, <2>3
<1> QED
  BY <1>7, <1>8

LEMMA AuditNext ==
  TypeOK /\ NoEarlyOutcome /\ AuditInvariant /\ [Next]_vars => AuditInvariant'
<1> SUFFICES ASSUME TypeOK, NoEarlyOutcome, AuditInvariant, [Next]_vars
             PROVE  AuditInvariant'
  OBVIOUS
<1> USE DEF NoEarlyOutcome, Undecided, handlerVars
<1>1. ASSUME UNCHANGED <<ledger, pc, msg, outcome>> PROVE AuditInvariant'
  BY <1>1 DEF AuditInvariant, EntriesOf, Matches
<1>2. ASSUME NEW r \in Requests, UNCHANGED <<ledger, outcome>>, EntriesOf(r) = {},
             NEW stage \in {"gathering", "entered", "verifying", "collecting", "deciding"},
             Goto(r, stage), \A s \in Requests \ {r} : msg'[s] = msg[s]
      PROVE  AuditInvariant'
  <2>1. \A s \in Requests : EntriesOf(s)' = EntriesOf(s)
    BY <1>2 DEF EntriesOf
  <2> QED
    BY <1>2, <2>1 DEF AuditInvariant, Matches, Goto, TypeOK
<1>3. ASSUME NEW c \in ChallengeIds, IssueChallenge(c) PROVE AuditInvariant'
  BY <1>1, <1>3 DEF IssueChallenge
<1>4. ASSUME NEW d \in Dids, Register(d) PROVE AuditInvariant'
  <2> DEFINE e == [entry_type |-> "DID_REGISTER", did |-> d]
  <2>1. ledger' = Append(ledger, e) /\ e.entry_type = "DID_REGISTER"
    BY <1>4 DEF Register
  <2> HIDE DEF e
  <2>2. \A s \in Requests : EntriesOf(s)' = EntriesOf(s)
    BY <2>1, EntriesGrow DEF EntriesOf
  <2>3. \A s \in Requests : \A i \in EntriesOf(s) : ledger'[i] = ledger[i]
    BY <2>1, EntriesGrow DEF EntriesOf
  <2>4. \A s \in Requests : \A i \in EntriesOf(s) : Matches(ledger[i], s)'
    BY <1>4, <2>3, MatchesKept DEF Register, AuditInvariant
  <2> QED
    BY <1>4, <2>2, <2>4 DEF Register, AuditInvariant
<1>5. ASSUME NEW r \in Requests, Arrive(r) PROVE AuditInvariant'
  <2>1. EntriesOf(r) = {}
    BY <1>5 DEF Arrive, AuditInvariant
  <2>2. \A s \in Requests \ {r} : msg'[s] = msg[s]
    BY <1>5 DEF Arrive, TypeOK
  <2> QED
    BY <1>2, <1>5, <2>1, <2>2 DEF Arrive
<1>6. ASSUME NEW r \in Requests, NEW n \in Nodes, FetchStep(r, n) PROVE AuditInvariant'
  BY <1>1, <1>6 DEF FetchStep, Serve, NoAnswer
<1>7. ASSUME NEW r \in Requests, HandlerStep(r) PROVE AuditInvariant'
  <2>1. pc[r] \notin {"returning", "replied", "lost"} => EntriesOf(r) = {}
    BY DEF AuditInvariant
  <2>2. CASE Gathered(r) \/ Claim(r) \/ Accept(r) \/ Collected(r)
    BY <1>2, <2>1, <2>2
    DEF Gathered, Claim, Accept, UsePreCollected, AskFromThreads, Collected
  <2>3. ASSUME NEW reason \in Reasons \ (Audited \cup {"success"}),
               Return(r, reason, {}), EntriesOf(r) = {}, UNCHANGED <<ledger, msg>>
        PROVE  AuditInvariant'
    <3>1. \A s \in Requests : EntriesOf(s)' = EntriesOf(s)
      BY <2>3 DEF EntriesOf
    <3> QED
      BY <2>3, <3>1 DEF AuditInvariant, Matches, Return, Goto, TypeOK
  <2>4. CASE RefuseChallenge(r) \/ RefuseDid(r)
    BY <2>1, <2>3, <2>4 DEF RefuseChallenge, RefuseDid, Reasons, Audited
  <2>5. ASSUME NEW reason \in Audited, FailAudited(r, reason),
               pc[r] \in {"verifying", "deciding"}
        PROVE  AuditInvariant'
    <3>1. PICK e : /\ e = [entry_type |-> "AUTH_FAIL", did |-> msg[r].did,
                            reason |-> reason, request |-> r]
                   /\ ledger' = Append(ledger, e)
      BY <2>5 DEF FailAudited, AppendFail
    <3>2. /\ outcome'[r].reason = reason /\ msg' = msg /\ Goto(r, "returning")
          /\ \A s \in Requests \ {r} : outcome'[s] = outcome[s]
      BY <2>5 DEF FailAudited, Return, TypeOK
    <3>3. Matches(e, r)'
      BY <3>1, <3>2 DEF Matches
    <3> QED
      BY <2>5, <3>1, <3>2, <3>3, AuditAppend
  <2>6. CASE RefuseSignature(r) \/ NoQuorum(r) \/ Mismatch(r)
    BY <2>5, <2>6 DEF RefuseSignature, NoQuorum, Mismatch, Audited
  <2>7. CASE Grant(r)
    <3>1. /\ pc[r] = "deciding" /\ Goto(r, "issuing") /\ outcome'[r].reason = "success"
          /\ \A s \in Requests \ {r} : outcome'[s] = outcome[s]
          /\ UNCHANGED <<ledger, msg>>
      BY <2>7 DEF Grant, TypeOK
    <3>2. \A s \in Requests : EntriesOf(s)' = EntriesOf(s)
      BY <3>1 DEF EntriesOf
    <3> QED
      BY <2>1, <3>1, <3>2 DEF AuditInvariant, Matches, Goto, TypeOK
  <2>8. CASE RecordGrant(r)
    <3>1. PICK e : /\ e = [entry_type |-> "AUTH_SUCCESS", did |-> msg[r].did,
                            quorum_nodes |-> outcome[r].quorum_nodes, request |-> r]
                   /\ ledger' = Append(ledger, e)
      BY <2>8 DEF RecordGrant
    <3>2. pc[r] = "issuing" /\ Goto(r, "returning") /\ msg' = msg /\ outcome' = outcome
      BY <2>8 DEF RecordGrant
    <3>3. Matches(e, r)'
      BY <3>1, <3>2 DEF Matches, AuditInvariant
    <3> QED
      BY <3>1, <3>2, <3>3, AuditAppend
  <2>9. CASE Respond(r)
    <3>1. /\ pc[r] = "returning" /\ Goto(r, "replied") /\ UNCHANGED <<ledger, msg, outcome>>
      BY <2>9 DEF Respond
    <3>2. \A s \in Requests : EntriesOf(s)' = EntriesOf(s)
      BY <3>1 DEF EntriesOf
    <3> QED
      BY <3>1, <3>2 DEF AuditInvariant, Matches, Goto, TypeOK
  <2> QED
    BY <1>7, <2>2, <2>4, <2>6, <2>7, <2>8, <2>9 DEF HandlerStep
<1>8. ASSUME NEW n \in Nodes, NodeStep(n) PROVE AuditInvariant'
  BY <1>1, <1>8 DEF NodeStep, CrashNode, RestoreNode, TurnByzantine, Reform
<1>9. CASE Crash
  <2>1. \A s \in Requests : EntriesOf(s)' = EntriesOf(s)
    BY <1>9 DEF Crash, EntriesOf
  <2> QED
    BY <1>9, <2>1 DEF Crash, InFlight, AuditInvariant, Matches
<1>10. CASE TimePasses
  BY <1>1, <1>10 DEF TimePasses
<1>11. CASE UNCHANGED vars
  BY <1>1, <1>11 DEF vars
<1> QED
  BY <1>3, <1>4, <1>5, <1>6, <1>7, <1>8, <1>9, <1>10, <1>11 DEF Next

LEMMA AuditImplied == AuditInvariant => AuditTrail
<1> SUFFICES ASSUME AuditInvariant, NEW r \in Requests
             PROVE  Cardinality(EntriesOf(r)) <= 1
  BY DEF AuditInvariant, AuditTrail
<1>1. CASE EntriesOf(r) = {}
  BY <1>1, FS_EmptySet
<1>2. ASSUME NEW i \in EntriesOf(r) PROVE Cardinality(EntriesOf(r)) <= 1
  <2>1. EntriesOf(r) = {i}
    BY <1>2 DEF AuditInvariant
  <2>2. Cardinality({i}) = 1
    BY FS_Singleton
  <2> QED
    BY <2>1, <2>2
<1> QED
  BY <1>1, <1>2

(* The ledger has at most one entry of a request, with the outcome it had,    *)
(* and has it before a client can see that outcome, whatever is killed.       *)
THEOREM OutcomesOnLedger == Spec => []AuditTrail
<1>1. Init => AuditInvariant
  BY DEF Init, AuditInvariant, EntriesOf
<1>2. InductiveInvariant => TypeOK /\ NoEarlyOutcome
  BY DEF InductiveInvariant
<1> QED
  BY Invariance, AuditNext, AuditImplied, <1>1, <1>2, PTL DEF Spec
=============================================================================
