--------------------------- MODULE RegistrationProofs ---------------------------
(***************************************************************************)
(* Theorems about Registration.tla, for every number of sessions, sign-ins,*)
(* names, passwords, DIDs, nodes and kills: the inductive invariant, and   *)
(* the refinement of IdentityLifecycle.                                    *)
(***************************************************************************)
EXTENDS Registration, TLAPS

LEMMA InitInductive == Init => InductiveInvariant
<1> SUFFICES ASSUME Init PROVE InductiveInvariant
  OBVIOUS
<1> USE RegistrationConstants DEF Init
<1>1. TypeOK
  <2>1. NoUsers \in UsersFile /\ kills \in 0..MaxKills
    BY DEF UsersFile, NoUsers
  <2>2. pc \in [Prompts -> Places]
    BY DEF Places
  <2>3. copy \in [Sessions -> UsersFile] /\ users \in UsersFile
    BY <2>1
  <2> QED
    BY <2>1, <2>2, <2>3 DEF TypeOK
<1>2. HandlerInOrder /\ Unused /\ StoresInOrder
  BY DEF HandlerInOrder, Unused, StoresInOrder
<1>3. UsersUsable /\ SessionsTold /\ OpensWithOwnPassword
  BY DEF UsersUsable, SessionsTold, OpensWithOwnPassword, NoUsers, Prompts
<1>4. SignInsFound /\ SignInMeetsIdentity
  BY DEF SignInsFound, SignInMeetsIdentity, Prompts
<1> QED
  BY <1>1, <1>2, <1>3, <1>4 DEF InductiveInvariant

-----------------------------------------------------------------------------
(* Type correctness. *)

LEMMA TypeNext == TypeOK /\ HandlerInOrder /\ [Next]_vars => TypeOK'
<1> SUFFICES ASSUME TypeOK, HandlerInOrder, [Next]_vars PROVE TypeOK'
  OBVIOUS
<1> USE DEF TypeOK, Goto, sessionVars, promptVars, usersVars, handlerVars, storeVars
<1>0. Sessions \subseteq Prompts /\ SignIns \subseteq Prompts
  BY DEF Prompts
<1>1. ASSUME NEW s \in Sessions, SessionStep(s) PROVE TypeOK'
  <2> USE <1>0
  <2>1. CASE LoadUsers(s)
    BY <2>1 DEF LoadUsers, Places
  <2>2. CASE LoadRaises(s) \/ Decline(s) \/ GiveUp(s) \/ KillSession(s)
    BY <2>2 DEF LoadRaises, Decline, GiveUp, KillSession, Places
  <2>3. CASE Post(s)
    BY <2>3 DEF Post, Places
  <2>4. CASE OpenUsers(s)
    <3>1. [copy[s] EXCEPT ![username[s]] = identity[s]] \in UsersFile
      BY DEF UsersFile
    <3>2. copy' \in [Sessions -> UsersFile]
      BY <2>4, <3>1 DEF OpenUsers
    <3> QED
      BY <2>4, <3>2 DEF OpenUsers, Places
  <2>5. CASE WriteUsers(s)
    BY <2>5 DEF WriteUsers, Places
  <2> QED
    BY <1>1, <2>1, <2>2, <2>3, <2>4, <2>5 DEF SessionStep
<1>2. ASSUME NEW a \in SignIns, SignInStep(a) PROVE TypeOK'
  <2> USE <1>0
  <2>1. CASE LookUp(a)
    BY <2>1 DEF LookUp, Places, UsersFile
  <2>2. CASE LoadKeyfile(a)
    BY <2>2 DEF LoadKeyfile, Places
  <2>3. CASE LoadRaises(a) \/ AskChallenge(a) \/ Submit(a) \/ RequestFails(a) \/ KillSession(a)
    BY <2>3 DEF LoadRaises, AskChallenge, Submit, RequestFails, KillSession, Places
  <2> QED
    BY <1>2, <2>1, <2>2, <2>3 DEF SignInStep
<1>3. ASSUME NEW s \in Sessions, Begin(s) PROVE TypeOK'
  BY <1>3 DEF Begin
<1>4. CASE StoreShare
  <2>1. did \in used
    BY <1>4 DEF StoreShare, HandlerInOrder
  <2>2. PICK n \in Nodes : shares' = [shares EXCEPT ![n] = @ \cup {did}] /\ stored' = stored \cup {n}
                           /\ Proceed(IF n = N_NODES THEN "ledger" ELSE "shares")
    BY <1>4 DEF StoreShare
  <2>3. shares' \in [Nodes -> SUBSET used]
    BY <2>1, <2>2
  <2> QED
    BY <1>4, <2>2, <2>3 DEF StoreShare, Proceed
<1>5. CASE AppendEntry
  BY <1>5 DEF AppendEntry, Proceed, HandlerInOrder
<1>6. CASE OpenKeyfile
  BY <1>6 DEF OpenKeyfile, Proceed
<1>7. CASE WriteKeyfile
  BY <1>0, <1>7 DEF WriteKeyfile, Proceed, HandlerInOrder
<1>8. ASSUME NEW d \in Dids \cup {NoDid}, Answer(d)
      PROVE  pc' \in [Prompts -> Places] /\ identity' \in [Prompts -> Dids \cup {NoDid}]
  BY <1>8 DEF Answer, Places
<1>9. CASE Reply
  BY <1>8, <1>9 DEF Reply, Finish, Answer
<1>10. CASE Fail
  BY <1>8, <1>10 DEF Fail, Finish, Answer
<1>11. CASE KillCoordinator
  <2>1. kills' \in 0..MaxKills
    BY <1>11, RegistrationConstants DEF KillCoordinator
  <2> QED
    BY <1>11, <2>1 DEF KillCoordinator, Finish, Places
<1>12. CASE UNCHANGED vars
  BY <1>12 DEF vars
<1> QED
  BY <1>1, <1>2, <1>3, <1>4, <1>5, <1>6, <1>7, <1>9, <1>10, <1>11, <1>12 DEF Next

-----------------------------------------------------------------------------
(* The coordinator's side. *)

Coordinated == HandlerInOrder /\ Unused /\ StoresInOrder

(* Sessions and sign-ins touch none of the coordinator's stores.             *)
PromptStep ==
  \/ \E s \in Sessions : SessionStep(s)
  \/ \E a \in SignIns : SignInStep(a)

LEMMA PromptsKeepStores ==
  PromptStep => UNCHANGED <<password, job, step, did, stored, storeVars>>
BY DEF PromptStep, SessionStep, SignInStep, LoadUsers, LoadRaises, Decline, Post, GiveUp,
       OpenUsers, WriteUsers, KillSession, LookUp, LoadKeyfile, AskChallenge, Submit,
       RequestFails, promptVars, sessionVars, usersVars, handlerVars

HandlerStep ==
  \/ \E s \in Sessions : Begin(s)
  \/ StoreShare \/ AppendEntry \/ OpenKeyfile \/ WriteKeyfile \/ Reply \/ Fail
  \/ KillCoordinator

LEMMA NextIs == [Next]_vars => PromptStep \/ HandlerStep \/ UNCHANGED vars
BY DEF Next, PromptStep, HandlerStep

LEMMA CoordinatedNext == TypeOK /\ Coordinated /\ [Next]_vars => Coordinated'
<1> SUFFICES ASSUME TypeOK, Coordinated, [Next]_vars PROVE Coordinated'
  OBVIOUS
<1> USE DEF TypeOK, Coordinated, storeVars
<1>1. ASSUME UNCHANGED <<password, job, step, did, stored, storeVars>> PROVE Coordinated'
  BY <1>1 DEF HandlerInOrder, Unused, StoresInOrder
<1>2. CASE PromptStep
  BY <1>1, <1>2, PromptsKeepStores
<1>3. ASSUME NEW s \in Sessions, Begin(s) PROVE Coordinated'
  BY <1>3 DEF Begin, HandlerInOrder, Unused, StoresInOrder, sessionVars, promptVars
<1>4. CASE StoreShare
  <2>1. PICK n \in Nodes \ stored :
          /\ \A m \in Nodes \ stored : n <= m
          /\ stored' = stored \cup {n}
          /\ shares' = [shares EXCEPT ![n] = @ \cup {did}]
          /\ Proceed(IF n = N_NODES THEN "ledger" ELSE "shares")
    BY <1>4 DEF StoreShare
  <2>2. n = N_NODES => \A m \in Nodes : m \in stored'
    BY <2>1, RegistrationConstants DEF Nodes
  <2>3. \A m \in Nodes : shares[m] \subseteq shares'[m]
    BY <2>1
  <2>4. \A m \in stored' : did' \in shares'[m]
    BY <1>4, <2>1, <2>3 DEF StoreShare, HandlerInOrder, Proceed
  <2>5. HandlerInOrder'
    BY <1>4, <2>1, <2>2, <2>4
    DEF StoreShare, HandlerInOrder, Proceed, sessionVars, promptVars
  <2>6. Unused' /\ StoresInOrder'
    BY <1>4, <2>3 DEF StoreShare, Unused, StoresInOrder
  <2> QED
    BY <2>5, <2>6
<1>5. CASE AppendEntry
  BY <1>5 DEF AppendEntry, Proceed, HandlerInOrder, Unused, StoresInOrder, sessionVars, promptVars
<1>6. CASE OpenKeyfile
  BY <1>6 DEF OpenKeyfile, Proceed, HandlerInOrder, Unused, StoresInOrder, sessionVars, promptVars
<1>7. CASE WriteKeyfile
  <2>1. PICK s \in job : keyfiles' = [keyfiles EXCEPT ![did] = password[s]]
    BY <1>7 DEF WriteKeyfile
  <2>2. \A t \in job : t = s
    BY <2>1
  <2> QED
    BY <1>7, <2>1, <2>2
    DEF WriteKeyfile, Proceed, HandlerInOrder, Unused, StoresInOrder, sessionVars, promptVars
<1>8. CASE Reply \/ Fail \/ KillCoordinator
  BY <1>8 DEF Reply, Fail, KillCoordinator, Finish, HandlerInOrder, Unused, StoresInOrder
<1>9. CASE UNCHANGED vars
  BY <1>1, <1>9 DEF vars, sessionVars, promptVars, handlerVars
<1> QED
  BY <1>2, <1>3, <1>4, <1>5, <1>6, <1>7, <1>8, <1>9, NextIs DEF HandlerStep

(* An identity that can be used stays so, and keeps its password: no later   *)
(* step of any registration touches it.                                      *)
LEMMA UsableKept ==
  ASSUME TypeOK, Coordinated, [Next]_vars, NEW d \in Dids, Usable(d)
  PROVE  Usable(d)' /\ keyfiles'[d] = keyfiles[d]
<1> USE DEF TypeOK, storeVars
<1>1. ledger \subseteq ledger' /\ \A n \in Nodes : shares[n] \subseteq shares'[n]
  BY NextIs, PromptsKeepStores
  DEF HandlerStep, Begin, StoreShare, AppendEntry, OpenKeyfile, WriteKeyfile, Reply, Fail,
      KillCoordinator, vars
<1>2. keyfiles'[d] = keyfiles[d]
  <2>1. CASE OpenKeyfile \/ WriteKeyfile
    <3>1. keyfiles[did] \in {"none", "torn"}
      BY <2>1 DEF OpenKeyfile, WriteKeyfile, Coordinated, HandlerInOrder
    <3>2. d # did
      BY <3>1, RegistrationConstants DEF Usable
    <3> QED
      BY <2>1, <3>2 DEF OpenKeyfile, WriteKeyfile
  <2> QED
    BY <2>1, NextIs, PromptsKeepStores
    DEF HandlerStep, Begin, StoreShare, AppendEntry, Reply, Fail, KillCoordinator, vars
<1> QED
  BY <1>1, <1>2 DEF Usable

-----------------------------------------------------------------------------
(* The users' side. *)

Delivered == UsersUsable /\ SessionsTold /\ OpensWithOwnPassword

(* Only the answer to its request gives a session an identity.               *)
LEMMA IdentityNext ==
  ASSUME TypeOK, HandlerInOrder, [Next]_vars, NEW s \in Sessions
  PROVE  \/ identity'[s] = identity[s] /\ (pc'[s] = "told" => pc[s] = "told")
         \/ identity'[s] = NoDid /\ pc'[s] # "told"
         \/ Reply /\ s \in job /\ identity'[s] = did
<1> USE DEF TypeOK, Goto
<1>0. s \in Prompts
  BY DEF Prompts
<1>1. CASE \E t \in Sessions : SessionStep(t)
  BY <1>0, <1>1
  DEF SessionStep, LoadUsers, LoadRaises, Decline, Post, GiveUp, OpenUsers, WriteUsers,
      KillSession
<1>2. CASE \E a \in SignIns : SignInStep(a)
  <2>1. PICK a \in SignIns : SignInStep(a)
    BY <1>2
  <2>2. a # s /\ a \in Prompts
    BY RegistrationConstants DEF Prompts
  <2> QED
    BY <1>0, <2>1, <2>2
    DEF SignInStep, LookUp, LoadRaises, LoadKeyfile, AskChallenge, Submit, RequestFails,
        KillSession
<1>3. CASE Reply
  BY <1>0, <1>3 DEF Reply, Answer
<1>4. CASE Fail
  BY <1>0, <1>4 DEF Fail, Answer
<1>5. CASE KillCoordinator
  BY <1>0, <1>5 DEF KillCoordinator
<1> QED
  BY <1>1, <1>2, <1>3, <1>4, <1>5, NextIs
  DEF PromptStep, HandlerStep, Begin, StoreShare, AppendEntry, OpenKeyfile, WriteKeyfile,
      vars, sessionVars

(* What the files hold comes from the files or from an answer.               *)
LEMMA UsersNext ==
  ASSUME TypeOK, HandlerInOrder, [Next]_vars, NEW u \in Usernames
  PROVE  /\ users'[u] = users[u] \/ \E t \in Sessions : users'[u] = copy[t][u]
         /\ \A s \in Sessions :
              \/ copy'[s][u] \in {copy[s][u], users[u]}
              \/ pc[s] = "told" /\ u = username[s] /\ copy'[s][u] = identity[s]
<1> USE DEF TypeOK, UsersFile
<1>1. ASSUME NEW s \in Sessions, SessionStep(s)
      PROVE  /\ users'[u] = users[u] \/ \E t \in Sessions : users'[u] = copy[t][u]
             /\ \A t \in Sessions :
                  \/ copy'[t][u] \in {copy[t][u], users[u]}
                  \/ pc[t] = "told" /\ u = username[t] /\ copy'[t][u] = identity[t]
  <2>1. CASE LoadUsers(s)
    BY <2>1 DEF LoadUsers, usersVars
  <2>2. CASE OpenUsers(s)
    BY <2>2 DEF OpenUsers, Prompts
  <2>3. CASE WriteUsers(s)
    BY <2>3 DEF WriteUsers
  <2>4. CASE UNCHANGED <<users, copy>>
    BY <2>4
  <2> QED
    BY <1>1, <2>1, <2>2, <2>3, <2>4
    DEF SessionStep, LoadRaises, Decline, Post, GiveUp, KillSession, usersVars
<1>2. CASE UNCHANGED <<users, copy>>
  BY <1>2
<1> QED
  BY <1>1, <1>2, NextIs
  DEF PromptStep, HandlerStep, SignInStep, LookUp, LoadRaises, LoadKeyfile, AskChallenge,
      Submit, RequestFails, KillSession, Begin, StoreShare, AppendEntry, OpenKeyfile,
      WriteKeyfile, Reply, Fail, Answer, KillCoordinator, vars, sessionVars, usersVars

(* Every DID the coordinator answers with belongs to an identity in order.   *)
LEMMA AnsweredUsable ==
  ASSUME TypeOK, Coordinated, Reply, NEW s \in job
  PROVE  did \in Dids /\ Usable(did) /\ keyfiles[did] = password[s]
<1>1. step = "reply"
  BY DEF Reply
<1>2. s \in Sessions /\ did \in Dids
  BY <1>1 DEF TypeOK, Coordinated, HandlerInOrder
<1>3. password[s] \in Passwords
  BY <1>2 DEF TypeOK, Prompts
<1> QED
  BY <1>1, <1>2, <1>3 DEF Coordinated, HandlerInOrder, Usable

LEMMA PasswordsKept == [Next]_vars => password' = password
BY NextIs, PromptsKeepStores
DEF HandlerStep, Begin, StoreShare, AppendEntry, OpenKeyfile, WriteKeyfile, Reply, Fail,
    Answer, KillCoordinator, vars, sessionVars, promptVars

LEMMA DeliveredNext == TypeOK /\ Coordinated /\ Delivered /\ [Next]_vars => Delivered'
<1> SUFFICES ASSUME TypeOK, Coordinated, Delivered, [Next]_vars PROVE Delivered'
  OBVIOUS
<1>0. HandlerInOrder
  BY DEF Coordinated
<1>2. ASSUME NEW s \in Sessions
      PROVE  /\ identity'[s] # NoDid => Usable(identity[s])' /\ keyfiles'[identity'[s]] = password'[s]
             /\ pc'[s] = "told" => identity'[s] # NoDid
  <2>0. identity[s] \in Dids \cup {NoDid} /\ NoDid \notin Dids
    BY RegistrationConstants DEF TypeOK, Prompts
  <2>1. CASE identity'[s] = identity[s] /\ (pc'[s] = "told" => pc[s] = "told")
    <3>1. identity[s] # NoDid =>
            Usable(identity[s]) /\ keyfiles[identity[s]] = password[s]
      BY DEF Delivered, SessionsTold, OpensWithOwnPassword
    <3>2. \A d \in Dids : Usable(d) =>
            /\ d \in ledger' /\ (\A n \in Nodes : d \in shares'[n]) /\ keyfiles'[d] \in Passwords
            /\ keyfiles'[d] = keyfiles[d]
      BY UsableKept DEF Usable
    <3>3. pc[s] = "told" => identity[s] # NoDid
      BY DEF Delivered, SessionsTold
    <3> QED
      BY <2>0, <2>1, <3>1, <3>2, <3>3, PasswordsKept DEF Usable
  <2>2. CASE identity'[s] = NoDid /\ pc'[s] # "told"
    BY <2>2
  <2>3. CASE Reply /\ s \in job /\ identity'[s] = did
    <3>1. did \in Dids /\ Usable(did) /\ keyfiles[did] = password[s]
      BY <2>3, AnsweredUsable
    <3> QED
      BY <2>0, <2>3, <3>1, PasswordsKept DEF Reply, storeVars, Usable
  <2> QED
    BY <1>0, <2>1, <2>2, <2>3, IdentityNext
<1>3. SessionsTold' /\ OpensWithOwnPassword'
  BY <1>2 DEF SessionsTold, OpensWithOwnPassword
<1>4. UsersUsable'
  <2> SUFFICES ASSUME NEW u \in Usernames
               PROVE  /\ users'[u] # NoDid => Usable(users[u])'
                      /\ \A s \in Sessions : copy'[s][u] # NoDid => Usable(copy[s][u])'
    BY DEF UsersUsable
  <2>1. /\ users[u] \in Dids \cup {NoDid}
        /\ users[u] # NoDid => Usable(users[u])
    BY DEF TypeOK, UsersFile, Delivered, UsersUsable
  <2>2. \A s \in Sessions :
          /\ copy[s][u] \in Dids \cup {NoDid} /\ identity[s] \in Dids \cup {NoDid}
          /\ copy[s][u] # NoDid => Usable(copy[s][u])
          /\ identity[s] # NoDid => Usable(identity[s])
    BY DEF TypeOK, UsersFile, Prompts, Delivered, UsersUsable, SessionsTold
  <2>3. \A d \in Dids : Usable(d) =>
          d \in ledger' /\ (\A n \in Nodes : d \in shares'[n]) /\ keyfiles'[d] \in Passwords
    BY UsableKept DEF Usable
  <2> QED
    BY <1>0, <2>1, <2>2, <2>3, UsersNext DEF Usable
<1> QED
  BY <1>3, <1>4 DEF Delivered

-----------------------------------------------------------------------------
(* Sign-ins. *)

Found == SignInsFound /\ SignInMeetsIdentity

(* A sign-in keeps the identity it found, and its files.                     *)
LEMMA FoundNext ==
  TypeOK /\ Coordinated /\ UsersUsable /\ Found /\ [Next]_vars => Found'
<1> SUFFICES ASSUME TypeOK, Coordinated, UsersUsable, Found, [Next]_vars,
                    NEW a \in SignIns
             PROVE  /\ (pc[a] \in {"found", "no keyfile", "wrong password", "unlocked",
                                   "challenged", "submitted"} => identity[a] # NoDid)'
                    /\ (identity[a] # NoDid =>
                          /\ Usable(identity[a])
                          /\ pc[a] # "no keyfile"
                          /\ pc[a] = "wrong password" => keyfiles[identity[a]] # password[a]
                          /\ pc[a] \in {"unlocked", "challenged", "submitted"} =>
                               keyfiles[identity[a]] = password[a])'
  BY DEF Found, SignInsFound, SignInMeetsIdentity
<1> USE DEF TypeOK, Goto
<1>1. a \in Prompts /\ a \notin Sessions /\ NoDid \notin Dids
      /\ identity[a] \in Dids \cup {NoDid} /\ users[username[a]] \in Dids \cup {NoDid}
  BY RegistrationConstants DEF Prompts, UsersFile
<1>2. \A d \in Dids : Usable(d) =>
        /\ d \in ledger' /\ (\A n \in Nodes : d \in shares'[n]) /\ keyfiles'[d] \in Passwords
        /\ keyfiles'[d] = keyfiles[d]
  BY UsableKept DEF Usable
<1>3. password' = password
  BY PasswordsKept
<1>4. CASE pc'[a] = pc[a] /\ identity'[a] = identity[a]
  BY <1>1, <1>2, <1>3, <1>4 DEF Found, SignInsFound, SignInMeetsIdentity, Usable
<1>5. CASE SignInStep(a)
  <2>1. CASE LookUp(a)
    <3>1. users[username[a]] # NoDid => Usable(users[username[a]])
      BY <1>1 DEF UsersUsable
    <3> QED
      BY <1>1, <1>2, <1>3, <2>1, <3>1 DEF LookUp, Usable
  <2>2. CASE LoadKeyfile(a)
    <3>1. identity[a] # NoDid /\ Usable(identity[a]) /\ identity'[a] = identity[a]
      BY <2>2 DEF LoadKeyfile, Found, SignInsFound, SignInMeetsIdentity
    <3>2. keyfiles[identity[a]] # "none"
      BY <3>1, RegistrationConstants DEF Usable
    <3>3. pc'[a] = IF keyfiles[identity[a]] = password[a] THEN "unlocked" ELSE "wrong password"
      BY <1>1, <2>2, <3>2 DEF LoadKeyfile
    <3> QED
      BY <1>1, <1>2, <1>3, <3>1, <3>3 DEF Usable
  <2>3. CASE AskChallenge(a) \/ Submit(a)
    BY <1>1, <1>2, <1>3, <2>3
    DEF AskChallenge, Submit, Found, SignInsFound, SignInMeetsIdentity, Usable
  <2>4. CASE LoadRaises(a) \/ RequestFails(a) \/ KillSession(a)
    <3>1. pc'[a] = "failed" /\ identity'[a] = identity[a]
      BY <1>1, <2>4 DEF LoadRaises, RequestFails, KillSession
    <3> QED
      BY <1>1, <1>2, <1>3, <3>1 DEF Found, SignInMeetsIdentity, Usable
  <2> QED
    BY <1>5, <2>1, <2>2, <2>3, <2>4 DEF SignInStep
<1>6. ASSUME NEW b \in SignIns, b # a, SignInStep(b)
      PROVE  pc'[a] = pc[a] /\ identity'[a] = identity[a]
  BY <1>1, <1>6
  DEF SignInStep, LookUp, LoadRaises, LoadKeyfile, AskChallenge, Submit, RequestFails,
      KillSession
<1>7. ASSUME NEW s \in Sessions, SessionStep(s)
      PROVE  pc'[a] = pc[a] /\ identity'[a] = identity[a]
  BY <1>1, <1>7
  DEF SessionStep, LoadUsers, LoadRaises, Decline, Post, GiveUp, OpenUsers, WriteUsers,
      KillSession
<1>8. CASE HandlerStep
  <2>1. a \notin job
    BY <1>1 DEF Coordinated, HandlerInOrder
  <2>2. pc'[a] \in {pc[a], "failed"} /\ (pc'[a] # pc[a] => pc[a] = "waiting") /\ identity'[a] = identity[a]
    BY <1>1, <1>8, <2>1
    DEF HandlerStep, Begin, StoreShare, AppendEntry, OpenKeyfile, WriteKeyfile, Reply, Fail,
        Answer, KillCoordinator, sessionVars
  <2> QED
    BY <1>1, <1>2, <1>3, <2>2 DEF Found, SignInsFound, SignInMeetsIdentity, Usable
<1> QED
  BY <1>4, <1>5, <1>6, <1>7, <1>8, NextIs DEF PromptStep, vars, sessionVars

-----------------------------------------------------------------------------
(* The theorems. *)

LEMMA InvariantNext == InductiveInvariant /\ [Next]_vars => InductiveInvariant'
<1> SUFFICES ASSUME InductiveInvariant, [Next]_vars PROVE InductiveInvariant'
  OBVIOUS
<1>1. TypeOK /\ Coordinated /\ Delivered /\ Found
  BY DEF InductiveInvariant, Coordinated, Delivered, Found
<1>2. TypeOK'
  BY <1>1, TypeNext DEF Coordinated
<1>3. Coordinated'
  BY <1>1, CoordinatedNext
<1>4. Delivered'
  BY <1>1, DeliveredNext
<1>5. Found'
  BY <1>1, FoundNext DEF Delivered
<1> QED
  BY <1>2, <1>3, <1>4, <1>5 DEF InductiveInvariant, Coordinated, Delivered, Found

(* The invariant of the run holds in every reachable state, whatever fails,  *)
(* is killed or gives up.                                                    *)
THEOREM Invariance == Spec => []InductiveInvariant
<1>1. InductiveInvariant /\ UNCHANGED vars => InductiveInvariant'
  BY InvariantNext
<1> QED
  BY InitInductive, InvariantNext, <1>1, PTL DEF Spec

(* No store is ahead of the one before it.                                   *)
THEOREM StoresFilledInOrder == Spec => []StoresInOrder
<1>1. InductiveInvariant => StoresInOrder
  BY DEF InductiveInvariant
<1> QED
  BY Invariance, <1>1, PTL

(* Every name in users.json leads to an identity that can be used.           *)
THEOREM NamesUsable == Spec => []UsersUsable
<1>1. InductiveInvariant => UsersUsable
  BY DEF InductiveInvariant
<1> QED
  BY Invariance, <1>1, PTL

(* A sign-in that found its name meets a whole keyfile, and fails there only *)
(* for a wrong password.                                                     *)
THEOREM SignInsMeetIdentities == Spec => []SignInMeetsIdentity
<1>1. InductiveInvariant => SignInMeetsIdentity
  BY DEF InductiveInvariant
<1> QED
  BY Invariance, <1>1, PTL

(* A session gets an identity that opens with its own password.              *)
THEOREM OwnPasswordOpens == Spec => []OpensWithOwnPassword
<1>1. InductiveInvariant => OpensWithOwnPassword
  BY DEF InductiveInvariant
<1> QED
  BY Invariance, <1>1, PTL
-----------------------------------------------------------------------------
(* Whom an identity was told to: nobody before the answer, and the user of   *)
(* every name that is listed, or was found, with it.                         *)
NotYetTold ==
  \A s \in Sessions :
    /\ pc[s] \in {"idle", "read", "waiting"} => identity[s] = NoDid
    /\ step # "idle" => identity[s] # did

ListedWereTold ==
  \A u \in Usernames :
    /\ users[u] \in Told[u] \cup {NoDid}
    /\ \A s \in Sessions : copy[s][u] \in Told[u] \cup {NoDid}

FoundWereTold ==
  \A a \in SignIns : identity[a] \in Told[username[a]] \cup {NoDid}

ToldInvariant ==
  InductiveInvariant /\ NotYetTold /\ ListedWereTold /\ FoundWereTold

-----------------------------------------------------------------------------
(* How what was told, found and typed changes. *)

LEMMA NamesKept == [Next]_vars => username' = username
BY NextIs
DEF PromptStep, SessionStep, SignInStep, LoadUsers, LoadRaises, Decline, Post, GiveUp,
    OpenUsers, WriteUsers, KillSession, LookUp, LoadKeyfile, AskChallenge, Submit,
    RequestFails, HandlerStep, Begin, StoreShare, AppendEntry, OpenKeyfile, WriteKeyfile,
    Reply, Fail, Answer, KillCoordinator, vars, sessionVars, promptVars

LEMMA SessionNext ==
  ASSUME ToldInvariant, [Next]_vars, NEW s \in Sessions
  PROVE  \/ /\ identity'[s] = identity[s]
            /\ pc'[s] \in {"idle", "read", "waiting"} => pc[s] \in {"idle", "read", "waiting"}
         \/ /\ Reply /\ s \in job /\ pc[s] = "waiting"
            /\ identity'[s] = did /\ pc'[s] \notin {"idle", "read", "waiting"}
<1> USE DEF TypeOK, Goto, ToldInvariant, InductiveInvariant
<1>0. s \in Prompts
  BY DEF Prompts
<1>1. CASE \E t \in Sessions : SessionStep(t)
  BY <1>0, <1>1
  DEF SessionStep, LoadUsers, LoadRaises, Decline, Post, GiveUp, OpenUsers, WriteUsers,
      KillSession
<1>2. CASE \E a \in SignIns : SignInStep(a)
  <2>1. PICK a \in SignIns : SignInStep(a)
    BY <1>2
  <2>2. a # s /\ a \in Prompts
    BY RegistrationConstants DEF Prompts
  <2> QED
    BY <1>0, <2>1, <2>2
    DEF SignInStep, LookUp, LoadRaises, LoadKeyfile, AskChallenge, Submit, RequestFails,
        KillSession
<1>3. CASE Reply
  <2>1. did # NoDid
    BY <1>3, RegistrationConstants DEF Reply, HandlerInOrder
  <2> QED
    BY <1>0, <1>3, <2>1 DEF Reply, Answer
<1>4. CASE Fail
  BY <1>0, <1>4 DEF Fail, Answer, NotYetTold
<1>5. CASE KillCoordinator
  BY <1>0, <1>5 DEF KillCoordinator
<1> QED
  BY <1>1, <1>2, <1>3, <1>4, <1>5, NextIs
  DEF PromptStep, HandlerStep, Begin, StoreShare, AppendEntry, OpenKeyfile, WriteKeyfile,
      vars, sessionVars

LEMMA SignInNext ==
  ASSUME ToldInvariant, [Next]_vars, NEW a \in SignIns
  PROVE  \/ identity'[a] = identity[a] /\ (pc'[a] = "submitted" <=> pc[a] = "submitted")
         \/ LookUp(a)
         \/ Submit(a)
<1> USE DEF TypeOK, Goto, ToldInvariant, InductiveInvariant
<1>1. a \in Prompts /\ a \notin Sessions
  BY RegistrationConstants DEF Prompts
<1>2. CASE SignInStep(a)
  <2>1. CASE LoadKeyfile(a)
    BY <1>1, <2>1 DEF LoadKeyfile
  <2> QED
    BY <1>1, <1>2, <2>1 DEF SignInStep, LoadRaises, AskChallenge, RequestFails, KillSession
<1>3. ASSUME NEW b \in SignIns, b # a, SignInStep(b)
      PROVE  pc'[a] = pc[a] /\ identity'[a] = identity[a]
  BY <1>1, <1>3
  DEF SignInStep, LookUp, LoadRaises, LoadKeyfile, AskChallenge, Submit, RequestFails,
      KillSession
<1>4. ASSUME NEW s \in Sessions, SessionStep(s)
      PROVE  pc'[a] = pc[a] /\ identity'[a] = identity[a]
  BY <1>1, <1>4
  DEF SessionStep, LoadUsers, LoadRaises, Decline, Post, GiveUp, OpenUsers, WriteUsers,
      KillSession
<1>5. CASE HandlerStep
  <2>1. a \notin job
    BY <1>1 DEF HandlerInOrder
  <2> QED
    BY <1>1, <1>5, <2>1
    DEF HandlerStep, Begin, StoreShare, AppendEntry, OpenKeyfile, WriteKeyfile, Reply, Fail,
        Answer, KillCoordinator, sessionVars
<1> QED
  BY <1>2, <1>3, <1>4, <1>5, NextIs DEF PromptStep, vars, sessionVars

(* An identity is told by the answer to a session that waits, and once told  *)
(* stays so.                                                                 *)
LEMMA ToldChanges ==
  ASSUME ToldInvariant, [Next]_vars
  PROVE  \/ Told' = Told
         \/ /\ Reply
            /\ \E u \in Usernames : Told' = [Told EXCEPT ![u] = @ \cup {did}]
<1>1. username' = username
  BY NamesKept
<1>2. CASE \A s \in Sessions : identity'[s] = identity[s]
  BY <1>1, <1>2 DEF Told
<1>3. ASSUME NEW s \in Sessions, identity'[s] # identity[s]
      PROVE  /\ Reply
             /\ \E u \in Usernames : Told' = [Told EXCEPT ![u] = @ \cup {did}]
  <2>1. Reply /\ s \in job /\ identity[s] = NoDid /\ identity'[s] = did
    BY <1>3, SessionNext DEF ToldInvariant, NotYetTold
  <2>2. \A t \in Sessions \ {s} : identity'[t] = identity[t]
    <3>1. \A t \in job : t = s
      BY <2>1 DEF ToldInvariant, InductiveInvariant, TypeOK
    <3> QED
      BY <3>1, SessionNext
  <2>3. username[s] \in Usernames /\ did # NoDid
    BY <2>1, RegistrationConstants
    DEF ToldInvariant, InductiveInvariant, TypeOK, Prompts, Reply, HandlerInOrder
  <2>4. \A u \in Usernames \ {username[s]} : Told'[u] = Told[u]
    BY <1>1, <2>1, <2>2 DEF Told
  <2>5. Told'[username[s]] = Told[username[s]] \cup {did}
    BY <1>1, <2>1, <2>2, <2>3 DEF Told
  <2>6. Told' = [Told EXCEPT ![username[s]] = @ \cup {did}]
    BY <2>3, <2>4, <2>5 DEF Told
  <2> QED
    BY <2>1, <2>3, <2>6
<1> QED
  BY <1>2, <1>3

LEMMA ToldGrows ==
  ASSUME ToldInvariant, [Next]_vars, NEW u \in Usernames
  PROVE  Told[u] \subseteq Told'[u]
<1>1. DOMAIN Told = Usernames
  BY DEF Told
<1> QED
  BY <1>1, ToldChanges

-----------------------------------------------------------------------------
(* The invariant. *)

LEMMA ToldNext == ToldInvariant /\ [Next]_vars => ToldInvariant'
<1> SUFFICES ASSUME ToldInvariant, [Next]_vars PROVE ToldInvariant'
  OBVIOUS
<1>1. InductiveInvariant /\ InductiveInvariant'
  BY InvariantNext DEF ToldInvariant
<1>2. TypeOK /\ HandlerInOrder
  BY <1>1 DEF InductiveInvariant
<1>3. NotYetTold'
  <2> SUFFICES ASSUME NEW s \in Sessions
               PROVE  /\ pc'[s] \in {"idle", "read", "waiting"} => identity'[s] = NoDid
                      /\ step' # "idle" => identity'[s] # did'
    BY DEF NotYetTold
  <2>1. CASE Reply
    BY <2>1, SessionNext DEF ToldInvariant, NotYetTold, Reply, Finish
  <2>2. CASE identity'[s] = identity[s] /\ did' = did /\ (step' # "idle" => step # "idle")
    BY <2>2, SessionNext DEF ToldInvariant, NotYetTold
  <2>3. ASSUME NEW t \in Sessions, Begin(t)
        PROVE  identity'[s] = identity[s] /\ identity[s] # did'
    <3>1. did' \in Dids \ used /\ identity' = identity
      BY <2>3 DEF Begin, sessionVars
    <3>2. identity[s] # NoDid => identity[s] \in used
      BY <1>1 DEF InductiveInvariant, TypeOK, SessionsTold, Usable
    <3> QED
      BY <3>1, <3>2, RegistrationConstants
  <2>4. CASE PromptStep \/ UNCHANGED vars
    <3>1. did' = did /\ step' = step
      BY <2>4, PromptsKeepStores DEF vars, handlerVars
    <3>2. ~Reply
      BY <3>1, RegistrationConstants DEF Reply, Finish
    <3> QED
      BY <2>2, <3>1, <3>2, SessionNext
  <2>5. CASE Fail \/ KillCoordinator
    <3>0. kills \in Nat
      BY <1>2, RegistrationConstants DEF TypeOK
    <3>1. step' = "idle" /\ ~Reply
      BY <2>5, <3>0 DEF Fail, KillCoordinator, Finish, Reply
    <3> QED
      BY <3>1, SessionNext DEF ToldInvariant, NotYetTold
  <2>6. CASE StoreShare \/ AppendEntry \/ OpenKeyfile \/ WriteKeyfile
    <3>1. did' = did /\ step # "idle" /\ identity' = identity
      BY <2>6 DEF StoreShare, AppendEntry, OpenKeyfile, WriteKeyfile, Proceed, sessionVars
    <3> QED
      BY <2>2, <3>1
  <2>7. ASSUME NEW t \in Sessions, Begin(t)
        PROVE  pc'[s] \in {"idle", "read", "waiting"} => identity'[s] = NoDid
    BY <2>7 DEF Begin, sessionVars, ToldInvariant, NotYetTold
  <2> QED
    BY <2>1, <2>3, <2>4, <2>5, <2>6, <2>7, NextIs DEF HandlerStep
<1>4. ListedWereTold'
  <2> SUFFICES ASSUME NEW u \in Usernames
               PROVE  /\ users'[u] \in Told'[u] \cup {NoDid}
                      /\ \A s \in Sessions : copy'[s][u] \in Told'[u] \cup {NoDid}
    BY DEF ListedWereTold
  <2>1. /\ users[u] \in Told[u] \cup {NoDid}
        /\ \A s \in Sessions : copy[s][u] \in Told[u] \cup {NoDid}
    BY DEF ToldInvariant, ListedWereTold
  <2>2. \A s \in Sessions : u = username[s] => identity[s] \in Told[u] \cup {NoDid}
    BY DEF Told
  <2> QED
    BY <1>2, <2>1, <2>2, ToldGrows, UsersNext
<1>5. FoundWereTold'
  <2> SUFFICES ASSUME NEW a \in SignIns
               PROVE  identity'[a] \in Told'[username'[a]] \cup {NoDid}
    BY DEF FoundWereTold
  <2>1. username[a] \in Usernames /\ username' = username /\ a \in Prompts
    BY <1>2, NamesKept DEF TypeOK, Prompts
  <2>2. identity'[a] \in {identity[a], users[username[a]]}
    BY <1>2, <2>1, SignInNext DEF LookUp, Submit, TypeOK
  <2>3. identity'[a] \in Told[username[a]] \cup {NoDid}
    BY <2>1, <2>2 DEF ToldInvariant, FoundWereTold, ListedWereTold
  <2> QED
    BY <2>1, <2>3, ToldGrows
<1> QED
  BY <1>1, <1>3, <1>4, <1>5 DEF ToldInvariant

LEMMA ToldInit == Init => ToldInvariant
<1> SUFFICES ASSUME Init PROVE NotYetTold /\ ListedWereTold /\ FoundWereTold
  BY InitInductive DEF ToldInvariant
<1> QED
  BY DEF Init, NotYetTold, ListedWereTold, FoundWereTold, NoUsers, Prompts

-----------------------------------------------------------------------------
(* Refinement. *)

(* Whole is what has a whole keyfile, as that is the last store to be filled. *)
LEMMA StateIs ==
  StoresInOrder =>
    IdentityState =
      [d \in Dids |-> IF d \notin used THEN "new"
                      ELSE IF keyfiles[d] \in Passwords THEN "whole"
                      ELSE IF step # "idle" /\ d = did THEN "making"
                      ELSE "abandoned"]
<1> SUFFICES ASSUME StoresInOrder, NEW d \in Dids
             PROVE  Usable(d) <=> keyfiles[d] \in Passwords
  BY DEF IdentityState
<1> QED
  BY RegistrationConstants DEF StoresInOrder, Usable

LEMMA LifecycleInit == Init => Lifecycle!Init
<1> SUFFICES ASSUME Init PROVE Lifecycle!Init
  OBVIOUS
<1>1. IdentityState = [d \in Dids |-> "new"]
  BY DEF Init, IdentityState
<1>2. Told = [u \in Usernames |-> {}]
  BY DEF Init, Told, Prompts
<1>3. users = [u \in Usernames |-> NoDid] /\ Presented = {}
  BY DEF Init, NoUsers, Presented, Prompts
<1> QED
  BY <1>1, <1>2, <1>3 DEF Lifecycle!Init

(* What was presented changes by a sign-in that submits.                     *)
LEMMA PresentedKept ==
  ASSUME ToldInvariant, [Next]_vars, \A a \in SignIns : ~Submit(a)
  PROVE  Presented' = Presented
<1>1. username' = username
  BY NamesKept
<1>2. ASSUME NEW a \in SignIns
      PROVE  /\ pc'[a] = "submitted" <=> pc[a] = "submitted"
             /\ pc[a] = "submitted" => identity'[a] = identity[a]
  <2>1. CASE LookUp(a)
    BY <2>1 DEF LookUp, Goto, ToldInvariant, InductiveInvariant, TypeOK, Prompts
  <2> QED
    BY <2>1, SignInNext
<1> QED
  BY <1>1, <1>2 DEF Presented

(* A session, or a sign-in: the directory is rewritten, an identity is       *)
(* presented, or nothing that shows.                                         *)
LEMMA PromptRefines ==
  ToldInvariant /\ PromptStep => Lifecycle!Next \/ UNCHANGED Lifecycle!vars
<1> SUFFICES ASSUME ToldInvariant, PromptStep
             PROVE  Lifecycle!Next \/ UNCHANGED Lifecycle!vars
  OBVIOUS
<1>0. [Next]_vars
  BY DEF PromptStep, Next
<1>1. IdentityState' = IdentityState
  BY PromptsKeepStores DEF IdentityState, Usable, storeVars
<1>2. Told' = Told
  <2>1. ~Reply
    BY PromptsKeepStores, RegistrationConstants DEF Reply, Finish
  <2> QED
    BY <1>0, <2>1, ToldChanges
<1>3. ASSUME NEW a \in SignIns, Submit(a) PROVE Lifecycle!Next
  <2>1. identity[a] \in Told[username[a]] \cap Dids /\ username[a] \in Usernames
    BY <1>3 DEF Submit, ToldInvariant, InductiveInvariant, FoundWereTold, SignInsFound,
                TypeOK, Prompts
  <2>2. Presented' = Presented \cup {<<username[a], identity[a]>>}
    BY <1>3 DEF Submit, Goto, Presented, promptVars, ToldInvariant, InductiveInvariant,
                TypeOK, Prompts
  <2>3. users' = users
    BY <1>3 DEF Submit, usersVars
  <2>4. Lifecycle!Present(username[a], identity[a])
    BY <1>1, <1>2, <2>1, <2>2, <2>3 DEF Lifecycle!Present
  <2> QED
    BY <2>1, <2>4 DEF Lifecycle!Next
<1>4. CASE \A a \in SignIns : ~Submit(a)
  <2>1. Presented' = Presented
    BY <1>0, <1>4, PresentedKept
  <2>2. CASE users' = users
    BY <1>1, <1>2, <2>1, <2>2 DEF Lifecycle!vars
  <2>3. CASE users' # users
    <3>1. PICK s \in Sessions : WriteUsers(s)
      BY <2>3
      DEF PromptStep, SessionStep, SignInStep, LoadUsers, LoadRaises, Decline, Post, GiveUp,
          OpenUsers, KillSession, LookUp, LoadKeyfile, AskChallenge, Submit, RequestFails,
          usersVars
    <3>2. users' \in UsersFile /\ \A u \in Usernames : users'[u] \in Told[u] \cup {NoDid}
      BY <3>1 DEF WriteUsers, ToldInvariant, InductiveInvariant, TypeOK, ListedWereTold
    <3>3. Lifecycle!Save
      BY <1>1, <1>2, <2>1, <3>2 DEF Lifecycle!Save, UsersFile
    <3> QED
      BY <3>3 DEF Lifecycle!Next
  <2> QED
    BY <2>2, <2>3
<1> QED
  BY <1>3, <1>4

(* The handler makes one identity whole, or abandons it.                     *)
LEMMA HandlerRefines ==
  ToldInvariant /\ HandlerStep => Lifecycle!Next \/ UNCHANGED Lifecycle!vars
<1> SUFFICES ASSUME ToldInvariant, HandlerStep
             PROVE  Lifecycle!Next \/ UNCHANGED Lifecycle!vars
  OBVIOUS
<1>0. [Next]_vars
  BY DEF HandlerStep, Next
<1>1. InductiveInvariant /\ InductiveInvariant'
  BY <1>0, InvariantNext DEF ToldInvariant
<1>2. TypeOK /\ HandlerInOrder /\ Unused /\ StoresInOrder /\ StoresInOrder'
  BY <1>1 DEF InductiveInvariant
<1>3. users' = users
  BY DEF HandlerStep, Begin, StoreShare, AppendEntry, OpenKeyfile, WriteKeyfile, Reply, Fail,
         KillCoordinator, usersVars
<1>4. Presented' = Presented
  <2>1. \A a \in SignIns : ~Submit(a)
    <3>1. ASSUME NEW a \in SignIns, Submit(a) PROVE FALSE
      <4>1. a \in Prompts /\ a \notin Sessions /\ a \notin job
        BY <1>2, RegistrationConstants DEF Prompts, HandlerInOrder
      <4>2. pc[a] = "challenged" /\ pc'[a] = "submitted"
        BY <1>2, <3>1, <4>1 DEF Submit, Goto, TypeOK
      <4> QED
        BY <4>1, <4>2
        DEF HandlerStep, Begin, StoreShare, AppendEntry, OpenKeyfile, WriteKeyfile, Reply,
            Fail, Answer, KillCoordinator, sessionVars
    <3> QED
      BY <3>1
  <2> QED
    BY <1>0, <2>1, PresentedKept
<1> DEFINE Plain ==
      [d \in Dids |-> IF d \notin used THEN "new"
                      ELSE IF keyfiles[d] \in Passwords THEN "whole"
                      ELSE IF step # "idle" /\ d = did THEN "making"
                      ELSE "abandoned"]
<1>5. IdentityState = Plain
  BY <1>2, StateIs
<1>6. IdentityState' = Plain'
  <2>1. (StoresInOrder => IdentityState = Plain)'
    BY StateIs, PTL
  <2> QED
    BY <1>2, <2>1
<1>7. ASSUME ~Reply PROVE Told' = Told
  BY <1>0, <1>7, ToldChanges
<1>8. "torn" \notin Passwords /\ "none" \notin Passwords /\ NoDid \notin Dids
  BY RegistrationConstants
<1>9. ASSUME NEW d \in Dids, NEW from, NEW to, Told' = Told,
             IdentityState[d] = from, IdentityState' = [IdentityState EXCEPT ![d] = to]
      PROVE  Lifecycle!Become(d, from, to)
  BY <1>3, <1>4, <1>9 DEF Lifecycle!Become
<1>10. CASE \E s \in Sessions : Begin(s)
  <2>1. PICK d \in Dids \ used : did' = d /\ used' = used \cup {d}
    BY <1>10 DEF Begin
  <2>2. step = "idle" /\ keyfiles' = keyfiles /\ step' = "shares" /\ ~Reply
    BY <1>2, <1>10 DEF Begin, HandlerInOrder, Reply
  <2>3. keyfiles[d] \notin Passwords
    BY <1>2, <1>8, <2>1 DEF Unused
  <2>4. Plain[d] = "new" /\ Plain' = [Plain EXCEPT ![d] = "making"]
    BY <2>1, <2>2, <2>3
  <2>5. \A e \in Dids : Plain[e] # "making"
    BY <2>2
  <2>6. Lifecycle!Begin(d)
    BY <1>5, <1>6, <1>7, <1>9, <2>2, <2>4, <2>5 DEF Lifecycle!Begin
  <2> QED
    BY <2>6 DEF Lifecycle!Next
<1>11. CASE StoreShare \/ AppendEntry \/ OpenKeyfile
  <2>1. /\ did' = did /\ used' = used /\ step # "idle" /\ step' # "idle" /\ ~Reply
    BY <1>11 DEF StoreShare, AppendEntry, OpenKeyfile, Proceed, Reply
  <2>2. \A d \in Dids : keyfiles'[d] \in Passwords <=> keyfiles[d] \in Passwords
    BY <1>2, <1>8, <1>11 DEF StoreShare, AppendEntry, OpenKeyfile, HandlerInOrder, TypeOK
  <2>3. Plain' = Plain
    BY <2>1, <2>2
  <2> QED
    BY <1>3, <1>4, <1>5, <1>6, <1>7, <2>1, <2>3 DEF Lifecycle!vars
<1>12. CASE WriteKeyfile
  <2>1. /\ did \in Dids \cap used /\ keyfiles[did] \notin Passwords /\ step = "key_open"
        /\ step' = "reply" /\ did' = did /\ used' = used /\ ~Reply
    BY <1>2, <1>8, <1>12 DEF WriteKeyfile, Proceed, HandlerInOrder, TypeOK, Reply
  <2>2. PICK p \in Passwords : keyfiles' = [keyfiles EXCEPT ![did] = p]
    BY <1>2, <1>12 DEF WriteKeyfile, HandlerInOrder, TypeOK, Prompts
  <2>3. Plain[did] = "making" /\ Plain' = [Plain EXCEPT ![did] = "whole"]
    BY <1>2, <2>1, <2>2 DEF TypeOK
  <2>4. Lifecycle!Complete(did)
    BY <1>5, <1>6, <1>7, <1>9, <2>1, <2>3 DEF Lifecycle!Complete
  <2> QED
    BY <2>1, <2>4 DEF Lifecycle!Next
<1>13. CASE Reply
  <2>1. /\ did \in Dids \cap used /\ keyfiles[did] \in Passwords /\ step = "reply"
        /\ step' = "idle" /\ used' = used /\ keyfiles' = keyfiles
    BY <1>2, <1>13 DEF Reply, Finish, HandlerInOrder, TypeOK, Prompts, storeVars
  <2>2. Plain[did] = "whole" /\ Plain' = Plain
    BY <2>1
  <2>3. CASE Told' = Told
    BY <1>3, <1>4, <1>5, <1>6, <2>2, <2>3 DEF Lifecycle!vars
  <2>4. ASSUME NEW u \in Usernames, Told' = [Told EXCEPT ![u] = @ \cup {did}]
        PROVE  Lifecycle!Next
    <3>1. \A v \in Usernames : did \notin Told[v]
      BY <2>1 DEF Told, ToldInvariant, NotYetTold
    <3>2. Lifecycle!Tell(u, did)
      BY <1>3, <1>4, <1>5, <1>6, <2>2, <2>4, <3>1 DEF Lifecycle!Tell
    <3> QED
      BY <2>1, <3>2 DEF Lifecycle!Next
  <2> QED
    BY <1>0, <2>3, <2>4, ToldChanges
<1>14. CASE Fail \/ KillCoordinator
  <2>1. step' = "idle" /\ used' = used /\ keyfiles' = keyfiles
    BY <1>14 DEF Fail, KillCoordinator, Finish, storeVars
  <2>2. ~Reply
    <3>1. kills \in Nat
      BY <1>2, RegistrationConstants DEF TypeOK
    <3> QED
      BY <1>14, <3>1 DEF Fail, KillCoordinator, Reply
  <2>3. CASE step \in {"idle", "reply"}
    <3>1. step = "reply" => keyfiles[did] \in Passwords
      BY <1>2 DEF HandlerInOrder, TypeOK, Prompts
    <3>2. Plain' = Plain
      BY <2>1, <2>3, <3>1
    <3> QED
      BY <1>3, <1>4, <1>5, <1>6, <1>7, <2>2, <3>2 DEF Lifecycle!vars
  <2>4. CASE step \notin {"idle", "reply"}
    <3>1. did \in Dids \cap used /\ keyfiles[did] \notin Passwords
      BY <1>2, <1>8, <2>4 DEF HandlerInOrder, TypeOK
    <3>2. Plain[did] = "making" /\ Plain' = [Plain EXCEPT ![did] = "abandoned"]
      BY <2>1, <2>4, <3>1
    <3>3. Lifecycle!Abandon(did)
      BY <1>5, <1>6, <1>7, <1>9, <2>2, <3>2, <3>1 DEF Lifecycle!Abandon
    <3> QED
      BY <3>1, <3>3 DEF Lifecycle!Next
  <2> QED
    BY <2>3, <2>4
<1> QED
  BY <1>10, <1>11, <1>12, <1>13, <1>14 DEF HandlerStep

LEMMA LifecycleNext == ToldInvariant /\ [Next]_vars => [Lifecycle!Next]_(Lifecycle!vars)
<1>1. UNCHANGED vars => UNCHANGED Lifecycle!vars
  BY DEF vars, sessionVars, promptVars, usersVars, handlerVars, storeVars, Lifecycle!vars,
         IdentityState, Usable, Told, Presented
<1> QED
  BY <1>1, PromptRefines, HandlerRefines, NextIs

(* An identity is made whole or abandoned for ever, told once and whole, and *)
(* listed or presented for no name but that of the user it was told to.      *)
THEOREM ImplementsLifecycle == Spec => LifecycleImplemented
  BY ToldInit, ToldNext, LifecycleInit, LifecycleNext, PTL
  DEF Spec, LifecycleImplemented, Lifecycle!Spec
=================================================================================
