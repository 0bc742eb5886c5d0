------------------------------ MODULE Registration ------------------------------
(***************************************************************************)
(* Registration from the prompt of the command line to users.json:         *)
(* sessions of cli.py (cmd_register), the handler of POST /register        *)
(* (api/main.py) and RegistrationService.register with the stores it       *)
(* writes to one after the other: a share per node, the ledger, the        *)
(* keyfile, and on the user's side users.json.  Sign-ins (cmd_authenticate)*)
(* start meanwhile from the same users.json and keyfiles.                  *)
(*                                                                         *)
(* Any store may fail (an exception the handler turns into an error), the  *)
(* coordinator and the sessions may be killed anywhere, and a session may  *)
(* give up waiting while the handler goes on.  Authentication.tla takes    *)
(* over from here: its Register is the handler that runs to the end, its   *)
(* Arrive what a sign-in submits.                                          *)
(***************************************************************************)
EXTENDS Naturals, FiniteSets

CONSTANTS
  Sessions,   \* runs of cmd_register
  SignIns,    \* runs of cmd_authenticate
  Usernames,
  Passwords,
  Dids,       \* DIDs of the key pairs generate_keypair() may draw
  N_NODES,
  NoDid,      \* a username without an entry in users.json
  MaxKills    \* BOUND: kills of the coordinator

ASSUME RegistrationConstants ==
  /\ N_NODES \in Nat \ {0}
  /\ NoDid \notin Dids
  /\ Sessions \cap SignIns = {}
  /\ Passwords \cap {"none", "torn"} = {}
  /\ MaxKills \in Nat

Nodes == 1..N_NODES

Prompts == Sessions \cup SignIns

VARIABLES
  pc,         \* where each session or sign-in stands
  username,   \* what its user typed
  password,
  copy,       \* users.json as the session read it
  identity,   \* the DID the answer named, or users.json gave the sign-in; or NoDid
  users,      \* users.json
  users_torn, \* what is in users.json is no JSON
  overlaid,   \* sessions about to write where another has written since they opened it
  inbox,      \* requests sent and not served
  job,        \* the request the coordinator works on: a set of at most one
  step,       \* where register() stands: "idle", "shares", "ledger", "keyfile", "key_open", "reply"
  did,        \* its DID
  stored,     \* nodes it has stored a share on
  used,       \* DIDs of all attempts so far (history)
  shares,     \* shares[n]: DIDs in the share store of node n
  ledger,     \* DIDs with a DID_REGISTER entry
  keyfiles,   \* keyfiles[d]: "none", "torn" or the password that opens it
  kills       \* kills of the coordinator so far (history)

promptVars == <<username, password>>
sessionVars == <<pc, promptVars, copy, identity>>
usersVars == <<users, users_torn, overlaid>>
handlerVars == <<inbox, job, step, did, stored>>
storeVars == <<used, shares, ledger, keyfiles>>
vars == <<sessionVars, usersVars, handlerVars, storeVars, kills>>

UsersFile == [Usernames -> Dids \cup {NoDid}]

Places ==
  {"idle", "failed", "done"} \cup {"read", "waiting", "told", "saving"}
    \cup {"found", "no keyfile", "wrong password", "unlocked", "challenged", "submitted"}

TypeOK ==
  /\ pc \in [Prompts -> Places]
  /\ username \in [Prompts -> Usernames]
  /\ password \in [Prompts -> Passwords]
  /\ copy \in [Sessions -> UsersFile]
  /\ identity \in [Prompts -> Dids \cup {NoDid}]
  /\ users \in UsersFile
  /\ users_torn \in BOOLEAN
  /\ overlaid \subseteq Sessions
  /\ inbox \subseteq Sessions
  /\ job \in {{}} \cup {{s} : s \in Sessions}
  /\ step \in {"idle", "shares", "ledger", "keyfile", "key_open", "reply"}
  /\ did \in Dids \cup {NoDid}
  /\ stored \subseteq Nodes
  /\ used \subseteq Dids
  /\ shares \in [Nodes -> SUBSET used]
  /\ ledger \subseteq used
  /\ keyfiles \in [Dids -> {"none", "torn"} \cup Passwords]
  /\ kills \in 0..MaxKills

NoUsers == [u \in Usernames |-> NoDid]

Init ==
  /\ pc = [s \in Prompts |-> "idle"]
  /\ username \in [Prompts -> Usernames]
  /\ password \in [Prompts -> Passwords]
  /\ copy = [s \in Sessions |-> NoUsers]
  /\ identity = [s \in Prompts |-> NoDid]
  /\ users = NoUsers /\ users_torn = FALSE /\ overlaid = {}
  /\ inbox = {} /\ job = {} /\ step = "idle" /\ did = NoDid /\ stored = {}
  /\ used = {}
  /\ shares = [n \in Nodes |-> {}]
  /\ ledger = {}
  /\ keyfiles = [d \in Dids |-> "none"]
  /\ kills = 0

Goto(s, place) == pc' = [pc EXCEPT ![s] = place]

-----------------------------------------------------------------------------
(* cmd_register *)

(* _load_users(); json.load raises on a torn file and ends the session. The  *)
(* user may also decline a second registration of the name.                  *)
LoadUsers(s) ==
  /\ pc[s] = "idle"
  /\ ~users_torn
  /\ copy' = [copy EXCEPT ![s] = users]
  /\ Goto(s, "read")
  /\ UNCHANGED <<promptVars, identity, usersVars, handlerVars, storeVars, kills>>

\* The first thing cmd_authenticate does with the file, too.
LoadRaises(s) ==
  /\ pc[s] = "idle"
  /\ users_torn
  /\ Goto(s, "failed")
  /\ UNCHANGED <<promptVars, copy, identity, usersVars, handlerVars, storeVars, kills>>

Decline(s) ==
  /\ pc[s] = "read"
  /\ copy[s][username[s]] # NoDid
  /\ Goto(s, "failed")
  /\ UNCHANGED <<promptVars, copy, identity, usersVars, handlerVars, storeVars, kills>>

Post(s) ==
  /\ pc[s] = "read"
  /\ Goto(s, "waiting")
  /\ inbox' = inbox \cup {s}
  /\ UNCHANGED <<promptVars, copy, identity, usersVars, job, step, did, stored, storeVars, kills>>

(* httpx: the timeout, or no connection. The request may still be served.    *)
GiveUp(s) ==
  /\ pc[s] = "waiting"
  /\ Goto(s, "failed")
  /\ UNCHANGED <<promptVars, copy, identity, usersVars, handlerVars, storeVars, kills>>

(* users[username] = ... in the copy, and open(USERS_FILE, "w").             *)
OpenUsers(s) ==
  /\ pc[s] = "told"
  /\ copy' = [copy EXCEPT ![s][username[s]] = identity[s]]
  /\ users_torn' = TRUE
  /\ overlaid' = {}
  /\ Goto(s, "saving")
  /\ UNCHANGED <<promptVars, identity, users, handlerVars, storeVars, kills>>

(* json.dump of the whole copy, and close. Over what another session wrote   *)
(* since the open, a shorter text leaves the end of the longer one behind.   *)
WriteUsers(s) ==
  /\ pc[s] = "saving"
  /\ users' = copy[s]
  /\ users_torn' \in IF s \in overlaid THEN BOOLEAN ELSE {FALSE}
  /\ overlaid' = {t \in Sessions : pc[t] = "saving"} \ {s}
  /\ Goto(s, "done")
  /\ UNCHANGED <<promptVars, copy, identity, handlerVars, storeVars, kills>>

KillSession(s) ==
  /\ pc[s] \notin {"idle", "done", "failed", "submitted"}
  /\ Goto(s, "failed")
  /\ UNCHANGED <<promptVars, copy, identity, usersVars, handlerVars, storeVars, kills>>

-----------------------------------------------------------------------------
(* cmd_authenticate *)

LookUp(a) ==
  /\ pc[a] = "idle"
  /\ ~users_torn
  /\ identity' = [identity EXCEPT ![a] = users[username[a]]]
  /\ Goto(a, IF users[username[a]] = NoDid THEN "failed" ELSE "found")
  /\ UNCHANGED <<promptVars, copy, usersVars, handlerVars, storeVars, kills>>

(* load_keyfile: no file is FileNotFoundError; JSON that ends too early and  *)
(* a password that does not decrypt are a ValueError both.                   *)
LoadKeyfile(a) ==
  /\ pc[a] = "found"
  /\ Goto(a, CASE keyfiles[identity[a]] = "none" -> "no keyfile"
              [] keyfiles[identity[a]] = password[a] -> "unlocked"
              [] OTHER -> "wrong password")
  /\ UNCHANGED <<promptVars, copy, identity, usersVars, handlerVars, storeVars, kills>>

(* Served between two registrations: their handler never yields.             *)
AskChallenge(a) ==
  /\ pc[a] = "unlocked"
  /\ job = {}
  /\ Goto(a, "challenged")
  /\ UNCHANGED <<promptVars, copy, identity, usersVars, handlerVars, storeVars, kills>>

Submit(a) ==
  /\ pc[a] = "challenged"
  /\ job = {}
  /\ Goto(a, "submitted")
  /\ UNCHANGED <<promptVars, copy, identity, usersVars, handlerVars, storeVars, kills>>

RequestFails(a) ==
  /\ pc[a] \in {"unlocked", "challenged"}
  /\ Goto(a, "failed")
  /\ UNCHANGED <<promptVars, copy, identity, usersVars, handlerVars, storeVars, kills>>

-----------------------------------------------------------------------------
(* POST /register: one handler at a time, it never awaits.                   *)

\* Mutant of Begin: a key pair may recur, derived from the password, say.
BeginRecurs(s) ==
  /\ job = {}
  /\ s \in inbox
  /\ inbox' = inbox \ {s}
  /\ \E d \in Dids : did' = d /\ used' = used \cup {d}
  /\ job' = {s}
  /\ step' = "shares"
  /\ stored' = {}
  /\ UNCHANGED <<sessionVars, usersVars, shares, ledger, keyfiles, kills>>

(* Steps 1 to 7; a key pair never recurs, and neither does a DID.            *)
Begin(s) ==
  /\ job = {}
  /\ s \in inbox
  /\ inbox' = inbox \ {s}
  /\ \E d \in Dids \ used :
       /\ did' = d
       /\ used' = used \cup {d}
  /\ job' = {s}
  /\ step' = "shares"
  /\ stored' = {}
  /\ UNCHANGED <<sessionVars, usersVars, shares, ledger, keyfiles, kills>>

Proceed(place) == step' = place /\ UNCHANGED <<inbox, job, did>>

\* Mutant of StoreShare: enumerate starts at 0.
StoreShareFromZero ==
  /\ step = "shares"
  /\ \E n \in (0..(N_NODES - 1)) \ stored :
       /\ \A m \in (0..(N_NODES - 1)) \ stored : n <= m
       /\ stored' = stored \cup {n}
       /\ shares' = [shares EXCEPT ![n] = @ \cup {did}]
       /\ Proceed(IF n = N_NODES - 1 THEN "ledger" ELSE "shares")
  /\ UNCHANGED <<sessionVars, usersVars, used, ledger, keyfiles, kills>>

(* Step 8, in the order of the nodes. *)
StoreShare ==
  /\ step = "shares"
  /\ \E n \in Nodes \ stored :
       /\ \A m \in Nodes \ stored : n <= m
       /\ stored' = stored \cup {n}
       /\ shares' = [shares EXCEPT ![n] = @ \cup {did}]
       /\ Proceed(IF n = N_NODES THEN "ledger" ELSE "shares")
  /\ UNCHANGED <<sessionVars, usersVars, used, ledger, keyfiles, kills>>

\* Mutant of AppendEntry: the entry may come before the shares.
AppendEntryFirst ==
  /\ step \in {"shares", "ledger"}
  /\ ledger' = ledger \cup {did}
  /\ Proceed(IF step = "shares" THEN step ELSE "keyfile")
  /\ UNCHANGED <<sessionVars, usersVars, stored, used, shares, keyfiles, kills>>

(* Step 9. *)
AppendEntry ==
  /\ step = "ledger"
  /\ ledger' = ledger \cup {did}
  /\ Proceed("keyfile")
  /\ UNCHANGED <<sessionVars, usersVars, stored, used, shares, keyfiles, kills>>

(* Step 11: open(expanded, "w"), then json.dump. *)
OpenKeyfile ==
  /\ step = "keyfile"
  /\ keyfiles' = [keyfiles EXCEPT ![did] = "torn"]
  /\ Proceed("key_open")
  /\ UNCHANGED <<sessionVars, usersVars, stored, used, shares, ledger, kills>>

\* Mutant of WriteKeyfile: the path lacks the DID, and identities share one file.
WriteOneKeyfile ==
  /\ step = "key_open"
  /\ \E s \in job :
       keyfiles' = [d \in Dids |-> IF keyfiles[d] = "none" THEN "none" ELSE password[s]]
  /\ Proceed("reply")
  /\ UNCHANGED <<sessionVars, usersVars, stored, used, shares, ledger, kills>>

WriteKeyfile ==
  /\ step = "key_open"
  /\ \E s \in job : keyfiles' = [keyfiles EXCEPT ![did] = password[s]]
  /\ Proceed("reply")
  /\ UNCHANGED <<sessionVars, usersVars, stored, used, shares, ledger, kills>>

Finish == job' = {} /\ step' = "idle" /\ did' = NoDid /\ stored' = {}

(* What the session makes of the answer, if it still waits for it. *)
Answer(d) ==
  /\ identity' = [s \in Prompts |-> IF s \in job /\ pc[s] = "waiting" THEN d ELSE identity[s]]
  /\ pc' = [s \in Prompts |-> IF s \in job /\ pc[s] = "waiting"
                               THEN IF d = NoDid THEN "failed" ELSE "told"
                               ELSE pc[s]]
  /\ UNCHANGED <<promptVars, copy>>

\* Mutant of Reply: the answer does not wait for the keyfile to be closed.
ReplyEarly ==
  /\ step \in {"key_open", "reply"}
  /\ Answer(did)
  /\ Finish
  /\ UNCHANGED <<inbox, usersVars, storeVars, kills>>

(* Step 12: status "success". *)
Reply ==
  /\ step = "reply"
  /\ Answer(did)
  /\ Finish
  /\ UNCHANGED <<inbox, usersVars, storeVars, kills>>

\* Mutant of Fail: the keyfile is a best effort.
FailSwallowed ==
  /\ step \in {"shares", "ledger", "keyfile", "key_open"}
  /\ Answer(IF step = "key_open" THEN did ELSE NoDid)
  /\ Finish
  /\ UNCHANGED <<inbox, usersVars, storeVars, kills>>

(* An exception in any step: status "error", and nothing is undone.          *)
Fail ==
  /\ step \in {"shares", "ledger", "keyfile", "key_open"}
  /\ Answer(NoDid)
  /\ Finish
  /\ UNCHANGED <<inbox, usersVars, storeVars, kills>>

(* The connection of everyone who waits breaks. *)
KillCoordinator ==
  /\ kills < MaxKills
  /\ kills' = kills + 1
  /\ Finish
  /\ inbox' = {}
  /\ pc' = [s \in Prompts |-> IF pc[s] = "waiting" THEN "failed" ELSE pc[s]]
  /\ UNCHANGED <<promptVars, copy, identity, usersVars, storeVars>>

-----------------------------------------------------------------------------
SessionStep(s) ==
  \/ LoadUsers(s) \/ LoadRaises(s) \/ Decline(s) \/ Post(s) \/ GiveUp(s)
  \/ OpenUsers(s) \/ WriteUsers(s) \/ KillSession(s)

SignInStep(a) ==
  \/ LookUp(a) \/ LoadRaises(a) \/ LoadKeyfile(a)
  \/ AskChallenge(a) \/ Submit(a) \/ RequestFails(a) \/ KillSession(a)

Next ==
  \/ \E s \in Sessions : SessionStep(s) \/ Begin(s)
  \/ \E a \in SignIns : SignInStep(a)
  \/ StoreShare \/ AppendEntry \/ OpenKeyfile \/ WriteKeyfile \/ Reply \/ Fail
  \/ KillCoordinator

Spec == Init /\ [][Next]_vars

-----------------------------------------------------------------------------
(* Properties. *)

(* Wherever a registration stopped, no store is ahead of the one before it:  *)
(* a keyfile is of a DID on the ledger, and every node has its share.        *)
StoresInOrder ==
  /\ \A d \in Dids : keyfiles[d] # "none" => d \in ledger
  /\ \A d \in ledger, n \in Nodes : d \in shares[n]

Usable(d) ==
  /\ d \in ledger
  /\ \A n \in Nodes : d \in shares[n]
  /\ keyfiles[d] \in Passwords

(* A name in users.json, or about to be written to it by a session with an   *)
(* old copy, leads to an identity that can be used: nothing a failure, a     *)
(* kill or a timeout left behind is ever listed.                             *)
UsersUsable ==
  \A u \in Usernames :
    /\ users[u] # NoDid => Usable(users[u])
    /\ \A s \in Sessions : copy[s][u] # NoDid => Usable(copy[s][u])

(* A sign-in that found its name never meets what a failed registration left *)
(* behind: its keyfile is there and whole, whatever is being written at that *)
(* moment, so "wrong password" means just that, and what is submitted is of  *)
(* an identity every node has a share of.                                    *)
SignInMeetsIdentity ==
  \A a \in SignIns : identity[a] # NoDid =>
    /\ Usable(identity[a])
    /\ pc[a] # "no keyfile"
    /\ pc[a] = "wrong password" => keyfiles[identity[a]] # password[a]
    /\ pc[a] \in {"unlocked", "challenged", "submitted"} =>
         keyfiles[identity[a]] = password[a]

(* The identity a session was told of opens with the password typed there.   *)
OpensWithOwnPassword ==
  \A s \in Sessions : identity[s] # NoDid => keyfiles[identity[s]] = password[s]

(* Registration and sign-in implement the promise of IdentityLifecycle.tla.  *)
IdentityState ==
  [d \in Dids |-> IF d \notin used THEN "new"
                  ELSE IF Usable(d) THEN "whole"
                  ELSE IF step # "idle" /\ d = did THEN "making"
                  ELSE "abandoned"]

Told == [u \in Usernames |->
           {identity[s] : s \in {t \in Sessions : username[t] = u}} \ {NoDid}]

Presented == {<<username[a], identity[a]>> : a \in {b \in SignIns : pc[b] = "submitted"}}

Lifecycle == INSTANCE IdentityLifecycle WITH
  Identities <- Dids, Names <- Usernames, Nobody <- NoDid,
  state <- IdentityState, told <- Told, directory <- users, presented <- Presented

LifecycleImplemented == Lifecycle!Spec

-----------------------------------------------------------------------------
(* What the repository says, and the code does not do. *)

(* cli.py:148, "Save username -> DID mapping locally": a session that read   *)
(* users.json earlier and saves later takes the mapping away again.          *)
RegisteredNamesKept ==
  ~users_torn => \A s \in Sessions : pc[s] = "done" => users[username[s]] # NoDid

-----------------------------------------------------------------------------
(* What makes the properties inductive. *)

(* The handler, and what it has stored by each of its steps. *)
HandlerInOrder ==
  /\ step # "idle" => did \in used /\ job # {}
  /\ job \subseteq Sessions
  /\ step = "shares" => \A n \in stored : did \in shares[n]
  /\ step \in {"ledger", "keyfile", "key_open", "reply"} => \A n \in Nodes : did \in shares[n]
  /\ step \in {"keyfile", "key_open", "reply"} => did \in ledger
  /\ step \in {"shares", "ledger", "keyfile"} => keyfiles[did] = "none"
  /\ step = "key_open" => keyfiles[did] = "torn"
  /\ step = "reply" => \A s \in job : keyfiles[did] = password[s]

Unused == \A d \in Dids \ used : keyfiles[d] = "none"

SessionsTold ==
  \A s \in Sessions :
    /\ identity[s] # NoDid => Usable(identity[s])
    /\ pc[s] = "told" => identity[s] # NoDid

SignInsFound ==
  \A a \in SignIns :
    pc[a] \in {"found", "no keyfile", "wrong password", "unlocked", "challenged", "submitted"}
      => identity[a] # NoDid

InductiveInvariant ==
  /\ TypeOK
  /\ HandlerInOrder /\ Unused /\ StoresInOrder
  /\ UsersUsable /\ SessionsTold /\ OpensWithOwnPassword
  /\ SignInsFound /\ SignInMeetsIdentity
=============================================================================
