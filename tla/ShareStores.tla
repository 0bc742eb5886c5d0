------------------------------- MODULE ShareStores -------------------------------
(***************************************************************************)
(* The share stores of the nodes (node/share_store.py) under the processes *)
(* that open them: the coordinator, which opens the store of every node in *)
(* turn and writes shares to it (api/main.py, registration/register.py),   *)
(* and one process per node, which reads (api/node_service.py).  They      *)
(* share one data directory; docker-compose.yml orders their first start.  *)
(*                                                                         *)
(* A key is a number, its generation; None is no file and Torn one that    *)
(* was opened for writing and has nothing in it yet.  Encryption is        *)
(* perfect: a row opens under the key it was written with and no other.    *)
(* Which KEM pair a file holds is left out, as nothing decapsulates.       *)
(***************************************************************************)
EXTENDS Naturals

CONSTANTS
  N_NODES,
  Dids,           \* DIDs of the key pairs register() may draw
  NoDid,
  None, Torn,     \* states of a file or variable that are no key
  PQC_AVAILABLE,  \* liboqs is there; without it kem_encapsulate ignores its argument
  MaxKills        \* BOUND: processes killed

ASSUME ShareStoreConstants ==
  /\ N_NODES \in Nat \ {0}
  /\ NoDid \notin Dids
  /\ None \notin Nat /\ Torn \notin Nat /\ None # Torn
  /\ PQC_AVAILABLE \in BOOLEAN
  /\ MaxKills \in Nat

Nodes == 1..N_NODES

Coordinator == 0

Processes == {Coordinator} \cup Nodes

VARIABLES
  stage,        \* of each process: where its start stands
  at,           \* the node whose directory it opens
  started,      \* nodes whose process was started before
  store_key,    \* file store.key of each node
  kem_key,      \* nodes with a file kem.key
  kem_pub,      \* file kem.pub of each node: "none", "torn" or "whole"
  aes_key,      \* aes_key[p][n]: _aes_key of the store of node n in process p
  kem_public,   \* the coordinator's _kem_public_key of each node, as kem_pub
  generations,  \* store keys generated so far (history)
  step,         \* where register() stands: "idle", "insert", "commit", "ledger"
  did, next,    \* its DID, and the node step 8 is at
  used,         \* DIDs of all attempts so far (history)
  rows,         \* rows[n][d]: the key the committed row is encrypted with
  inserted,     \* rows of the coordinator's open transaction on each store
  registered,   \* DIDs with a DID_REGISTER entry
  kills         \* kills so far (history)

startVars == <<stage, at, started>>
fileVars == <<store_key, kem_key, kem_pub>>
memoryVars == <<aes_key, kem_public>>
handlerVars == <<step, did, next, used>>
tableVars == <<rows, inserted, registered>>
vars == <<startVars, fileVars, memoryVars, generations, handlerVars, tableVars, kills>>

Stages == {"down", "store_key", "create_key", "save_key",
           "kem", "create_pub", "save_pub", "up"}

Keys == Nat \ {0}

Blank == [n \in Nodes |-> None]

TypeOK ==
  /\ stage \in [Processes -> Stages]
  /\ at \in [Processes -> Nodes]
  /\ started \subseteq Nodes
  /\ store_key \in [Nodes -> Keys \cup {None, Torn}]
  /\ kem_key \subseteq Nodes
  /\ kem_pub \in [Nodes -> {"none", "torn", "whole"}]
  /\ aes_key \in [Processes -> [Nodes -> Keys \cup {None, Torn}]]
  /\ kem_public \in [Nodes -> {"none", "torn", "whole"}]
  /\ generations \in Nat
  /\ step \in {"idle", "insert", "commit", "ledger"}
  /\ did \in Dids \cup {NoDid}
  /\ next \in Nodes
  /\ used \subseteq Dids
  /\ rows \in [Nodes -> [Dids -> Keys \cup {None}]]
  /\ inserted \in [Nodes -> SUBSET Dids]
  /\ registered \subseteq used
  /\ kills \in 0..MaxKills

Init ==
  /\ stage = [p \in Processes |-> "down"]
  /\ at = [p \in Processes |-> 1]
  /\ started = {}
  /\ store_key = Blank
  /\ kem_key = {}
  /\ kem_pub = [n \in Nodes |-> "none"]
  /\ aes_key = [p \in Processes |-> Blank]
  /\ kem_public = [n \in Nodes |-> "none"]
  /\ generations = 0
  /\ step = "idle" /\ did = NoDid /\ next = 1 /\ used = {}
  /\ rows = [n \in Nodes |-> [d \in Dids |-> None]]
  /\ inserted = [n \in Nodes |-> {}]
  /\ registered = {}
  /\ kills = 0

-----------------------------------------------------------------------------
(* Start of a process: lifespan() constructs a Node per directory it opens.  *)

Opens(p) == IF p = Coordinator THEN Nodes ELSE {p}

First(p) == IF p = Coordinator THEN 1 ELSE p

Last(p) == IF p = Coordinator THEN N_NODES ELSE p

\* Mutant of MayStart: the node containers do not wait for the coordinator.
MayStartAtOnce(p) == stage[p] = "down"

(* depends_on: condition: service_healthy. It holds a node back the first    *)
(* time; "docker start", which cli.py recommends, does not look at it again. *)
MayStart(p) ==
  /\ stage[p] = "down"
  /\ p = Coordinator \/ p \in started \/ stage[Coordinator] = "up"

Start(p) ==
  /\ MayStart(p)
  /\ stage' = [stage EXCEPT ![p] = "store_key"]
  /\ at' = [at EXCEPT ![p] = First(p)]
  /\ started' = started \cup (IF p = Coordinator THEN {} ELSE {p})
  /\ UNCHANGED <<fileVars, memoryVars, generations, handlerVars, tableVars, kills>>

Goto(p, place) == stage' = [stage EXCEPT ![p] = place] /\ UNCHANGED <<at, started>>

(* ShareStore.__init__: whatever is in an existing store.key is the key.     *)
LoadStoreKey(p) ==
  /\ stage[p] = "store_key"
  /\ store_key[at[p]] # None
  /\ aes_key' = [aes_key EXCEPT ![p][at[p]] = store_key[at[p]]]
  /\ Goto(p, "kem")
  /\ UNCHANGED <<fileVars, kem_public, generations, handlerVars, tableVars, kills>>

\* Mutant of GenerateStoreKey: an incomplete key is replaced by a new one.
GenerateStoreKeyAgain(p) ==
  /\ stage[p] = "store_key"
  /\ store_key[at[p]] \in {None, Torn}
  /\ generations' = generations + 1
  /\ aes_key' = [aes_key EXCEPT ![p][at[p]] = generations + 1]
  /\ Goto(p, "create_key")
  /\ UNCHANGED <<fileVars, kem_public, handlerVars, tableVars, kills>>

GenerateStoreKey(p) ==
  /\ stage[p] = "store_key"
  /\ store_key[at[p]] = None
  /\ generations' = generations + 1
  /\ aes_key' = [aes_key EXCEPT ![p][at[p]] = generations + 1]
  /\ Goto(p, "create_key")
  /\ UNCHANGED <<fileVars, kem_public, handlerVars, tableVars, kills>>

(* open(key_path, "wb") truncates; the key is in the file once it is closed. *)
CreateStoreKey(p) ==
  /\ stage[p] = "create_key"
  /\ store_key' = [store_key EXCEPT ![at[p]] = Torn]
  /\ Goto(p, "save_key")
  /\ UNCHANGED <<kem_key, kem_pub, memoryVars, generations, handlerVars, tableVars, kills>>

SaveStoreKey(p) ==
  /\ stage[p] = "save_key"
  /\ store_key' = [store_key EXCEPT ![at[p]] = aes_key[p][at[p]]]
  /\ Goto(p, "kem")
  /\ UNCHANGED <<kem_key, kem_pub, memoryVars, generations, handlerVars, tableVars, kills>>

(* The Node is constructed; on to the next one, or the process serves.       *)
NodeReady(p) ==
  IF at[p] = Last(p)
    THEN Goto(p, "up")
    ELSE /\ stage' = [stage EXCEPT ![p] = "store_key"]
         /\ at' = [at EXCEPT ![p] = @ + 1]
         /\ UNCHANGED started

\* _kem_public_key of a node; only the coordinator's copies are ever read.
TakePublic(p, public) ==
  kem_public' = IF p = Coordinator THEN [kem_public EXCEPT ![at[p]] = public] ELSE kem_public

KemFilesExist(n) == n \in kem_key /\ kem_pub[n] # "none"

(* Node._init_kem_keys(): two files, each of which may be there or not.      *)
LoadKem(p) ==
  /\ stage[p] = "kem"
  /\ KemFilesExist(at[p])
  /\ TakePublic(p, kem_pub[at[p]])
  /\ NodeReady(p)
  /\ UNCHANGED <<fileVars, aes_key, generations, handlerVars, tableVars, kills>>

WriteKemKey(p) ==
  /\ stage[p] = "kem"
  /\ ~KemFilesExist(at[p])
  /\ kem_key' = kem_key \cup {at[p]}
  /\ Goto(p, "create_pub")
  /\ UNCHANGED <<store_key, kem_pub, memoryVars, generations, handlerVars, tableVars, kills>>

CreateKemPub(p) ==
  /\ stage[p] = "create_pub"
  /\ kem_pub' = [kem_pub EXCEPT ![at[p]] = "torn"]
  /\ Goto(p, "save_pub")
  /\ UNCHANGED <<store_key, kem_key, memoryVars, generations, handlerVars, tableVars, kills>>

SaveKemPub(p) ==
  /\ stage[p] = "save_pub"
  /\ kem_pub' = [kem_pub EXCEPT ![at[p]] = "whole"]
  /\ TakePublic(p, "whole")
  /\ NodeReady(p)
  /\ UNCHANGED <<store_key, kem_key, aes_key, generations, handlerVars, tableVars, kills>>

-----------------------------------------------------------------------------
(* Step 8 and 9 of register() in the coordinator, one request at a time.     *)

BeginRegister ==
  /\ stage[Coordinator] = "up"
  /\ step = "idle"
  /\ \E d \in Dids \ used : did' = d /\ used' = used \cup {d}
  /\ next' = 1
  /\ step' = "insert"
  /\ UNCHANGED <<startVars, fileVars, memoryVars, generations, tableVars, kills>>

(* kem_encapsulate on an incomplete key, or AESGCM on one, raises.           *)
Raises(n) ==
  \/ PQC_AVAILABLE /\ kem_public[n] = "torn"
  \/ aes_key[Coordinator][n] = Torn

\* Mutant of Insert: a node that raises is passed over.
InsertOrSkip ==
  /\ step = "insert"
  /\ step' = "commit"
  /\ inserted' = IF Raises(next) THEN inserted ELSE [inserted EXCEPT ![next] = @ \cup {did}]
  /\ UNCHANGED <<startVars, fileVars, memoryVars, generations, did, next, used,
                 rows, registered, kills>>

Insert ==
  /\ step = "insert"
  /\ ~Raises(next)
  /\ step' = "commit"
  /\ inserted' = [inserted EXCEPT ![next] = @ \cup {did}]
  /\ UNCHANGED <<startVars, fileVars, memoryVars, generations, did, next, used,
                 rows, registered, kills>>

(* Everything the connection has inserted since its last commit is durable.  *)
Commit ==
  /\ step = "commit"
  /\ rows' = [rows EXCEPT ![next] =
       [d \in Dids |-> IF d \in inserted[next] THEN aes_key[Coordinator][next] ELSE @[d]]]
  /\ inserted' = [inserted EXCEPT ![next] = {}]
  /\ IF next = N_NODES
       THEN step' = "ledger" /\ UNCHANGED next
       ELSE step' = "insert" /\ next' = next + 1
  /\ UNCHANGED <<startVars, fileVars, memoryVars, generations, did, used, registered, kills>>

AppendEntry ==
  /\ step = "ledger"
  /\ registered' = registered \cup {did}
  /\ step' = "idle"
  /\ did' = NoDid
  /\ UNCHANGED <<startVars, fileVars, memoryVars, generations, next, used,
                 rows, inserted, kills>>

(* An exception anywhere: nothing is undone, and a row whose commit raised   *)
(* stays in the open transaction.                                            *)
RegisterFails ==
  /\ step # "idle"
  /\ step' = "idle"
  /\ did' = NoDid
  /\ UNCHANGED <<startVars, fileVars, memoryVars, generations, next, used, tableVars, kills>>

-----------------------------------------------------------------------------
(* docker stop, or a crash: memory and open transactions are gone.           *)
Kill(p) ==
  /\ stage[p] # "down"
  /\ kills < MaxKills
  /\ kills' = kills + 1
  /\ stage' = [stage EXCEPT ![p] = "down"]
  /\ aes_key' = [aes_key EXCEPT ![p] = Blank]
  /\ IF p = Coordinator
       THEN /\ kem_public' = [n \in Nodes |-> "none"]
            /\ step' = "idle" /\ did' = NoDid
            /\ inserted' = [n \in Nodes |-> {}]
       ELSE UNCHANGED <<kem_public, step, did, inserted>>
  /\ UNCHANGED <<at, started, fileVars, generations, next, used, rows, registered>>

StartStep(p) ==
  \/ Start(p)
  \/ LoadStoreKey(p) \/ GenerateStoreKey(p) \/ CreateStoreKey(p) \/ SaveStoreKey(p)
  \/ LoadKem(p) \/ WriteKemKey(p) \/ CreateKemPub(p) \/ SaveKemPub(p)

RegisterStep == BeginRegister \/ Insert \/ Commit \/ AppendEntry \/ RegisterFails

Next ==
  \/ \E p \in Processes : StartStep(p) \/ Kill(p)
  \/ RegisterStep

Spec == Init /\ [][Next]_vars

-----------------------------------------------------------------------------
(* Properties. *)

(* What get_share(d) does in process p on the store of node n: the row the   *)
(* connection sees, opened with the key in memory.                           *)
Row(p, n, d) ==
  IF p = Coordinator /\ d \in inserted[n] THEN aes_key[p][n] ELSE rows[n][d]

get_share(p, n, d) ==
  IF Row(p, n, d) = None THEN "no share"
  ELSE IF Row(p, n, d) = aes_key[p][n] THEN "share" ELSE "raises"

(* What Authentication.tla takes for granted in CanServe: for a DID on the   *)
(* ledger every process that serves has the share of its node and can        *)
(* decrypt it, whoever was killed when, and in whatever order they started.  *)
RegisteredServable ==
  \A d \in registered, p \in Processes :
    stage[p] = "up" => \A n \in Opens(p) : get_share(p, n, d) = "share"

Held(n, d) == rows[n][d] # None /\ rows[n][d] = store_key[n]

(* A committed share is never lost to a later key: once the store.key on     *)
(* disk opens a row it does so for ever, although every start of every       *)
(* process may write that file.                                              *)
SharesNeverLost ==
  [][\A n \in Nodes, d \in Dids : Held(n, d) => Held(n, d)']_vars

-----------------------------------------------------------------------------
(* What makes the properties inductive. *)

(* Process p has the key of node n in memory and needs no more write for it. *)
Passed(p, n) ==
  /\ n \in Opens(p)
  /\ \/ stage[p] = "up"
     \/ stage[p] # "down" /\ n < at[p]
     \/ stage[p] \in {"kem", "create_pub", "save_pub"} /\ n = at[p]

KeysSettled ==
  \A p \in Processes, n \in Nodes :
    Passed(p, n) => store_key[n] # None /\ aes_key[p][n] = store_key[n]

AtOwn == \A p \in Processes : stage[p] # "down" => at[p] \in Opens(p)

(* The gate: no node runs before every store.key is there, so that only the  *)
(* coordinator, alone, ever creates one.                                     *)
NodesHeldBack ==
  /\ \A n \in Nodes : stage[n] # "down" => n \in started
  /\ started # {} => \A n \in Nodes : store_key[n] # None
  /\ \A n \in Nodes : stage[n] \notin {"create_key", "save_key"}

CreatesAlone ==
  stage[Coordinator] \in {"create_key", "save_key"} =>
    /\ started = {}
    /\ aes_key[Coordinator][at[Coordinator]] \in Keys
    /\ store_key[at[Coordinator]]
         = (IF stage[Coordinator] = "create_key" THEN None ELSE Torn)

RowsHeld == \A n \in Nodes, d \in Dids : rows[n][d] # None => Held(n, d)

HandlerServes ==
  /\ step # "idle" => stage[Coordinator] = "up" /\ did \in used
  /\ \A n \in Nodes : inserted[n] # {} =>
       stage[Coordinator] = "up" /\ aes_key[Coordinator][n] \in Keys

SharesInOrder ==
  /\ step # "idle" => \A n \in 1..(next - 1) : rows[n][did] # None
  /\ step = "commit" => did \in inserted[next]
  /\ step = "ledger" => \A n \in Nodes : rows[n][did] # None
  /\ \A d \in registered, n \in Nodes : rows[n][d] # None

InductiveInvariant ==
  /\ TypeOK
  /\ KeysSettled /\ AtOwn /\ NodesHeldBack /\ CreatesAlone
  /\ RowsHeld /\ HandlerServes /\ SharesInOrder
==================================================================================
