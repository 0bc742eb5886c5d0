---------------------------- MODULE ShareStoresProofs ----------------------------
(***************************************************************************)
(* Theorems about ShareStores.tla, for every number of nodes and kills.    *)
(***************************************************************************)
EXTENDS ShareStores, TLAPS

LEMMA ProcessFacts ==
  /\ Nodes \subseteq Processes /\ Coordinator \in Processes /\ Coordinator \notin Nodes
  /\ \A p \in Processes : /\ Opens(p) \subseteq Nodes
                          /\ First(p) \in Opens(p) /\ Last(p) \in Opens(p)
                          /\ p # Coordinator => Opens(p) = {p} /\ First(p) = p /\ Last(p) = p
  /\ 0 \notin Keys /\ None \notin Keys /\ Torn \notin Keys
BY ShareStoreConstants DEF Nodes, Processes, Coordinator, Opens, First, Last, Keys

LEMMA InitInductive == Init => InductiveInvariant
<1> SUFFICES ASSUME Init PROVE InductiveInvariant
  OBVIOUS
<1> USE ShareStoreConstants, ProcessFacts DEF Init
<1>1. TypeOK
  BY DEF TypeOK, Stages, Blank, Nodes
<1>2. KeysSettled /\ AtOwn /\ NodesHeldBack /\ CreatesAlone
  BY DEF KeysSettled, Passed, AtOwn, NodesHeldBack, CreatesAlone, Opens
<1>3. RowsHeld /\ HandlerServes /\ SharesInOrder
  BY DEF RowsHeld, HandlerServes, SharesInOrder
<1> QED
  BY <1>1, <1>2, <1>3 DEF InductiveInvariant

-----------------------------------------------------------------------------
LEMMA TypeNext == TypeOK /\ AtOwn /\ HandlerServes /\ [Next]_vars => TypeOK'
<1> SUFFICES ASSUME TypeOK, AtOwn, HandlerServes, [Next]_vars PROVE TypeOK'
  OBVIOUS
<1> USE DEF TypeOK, startVars, fileVars, memoryVars, handlerVars, tableVars
<1>1. ASSUME NEW p \in Processes, StartStep(p) PROVE TypeOK'
  <2>1. CASE Start(p)
    <3>1. First(p) \in Nodes /\ (p # Coordinator => p \in Nodes)
      BY ProcessFacts
    <3> QED
      BY <2>1, <3>1 DEF Start, Stages
  <2>2. CASE LoadStoreKey(p)
    BY <2>2 DEF LoadStoreKey, Goto, Stages
  <2>3. CASE GenerateStoreKey(p)
    <3>1. generations + 1 \in Keys
      BY DEF Keys
    <3> QED
      BY <2>3, <3>1 DEF GenerateStoreKey, Goto, Stages
  <2>4. CASE CreateStoreKey(p)
    BY <2>4 DEF CreateStoreKey, Goto, Stages
  <2>5. CASE SaveStoreKey(p)
    <3>1. aes_key[p][at[p]] \in Keys \cup {None, Torn}
      OBVIOUS
    <3> QED
      BY <2>5, <3>1 DEF SaveStoreKey, Goto, Stages
  <2>6. ASSUME NodeReady(p), stage[p] # "down"
        PROVE  stage' \in [Processes -> Stages] /\ started' = started
               /\ at' \in [Processes -> Nodes]
    <3>1. at[p] # Last(p) => at[p] + 1 \in Nodes
      <4>1. CASE p = Coordinator
        BY <4>1, ShareStoreConstants DEF Last, Nodes
      <4>2. CASE p # Coordinator
        BY <2>6, <4>2 DEF AtOwn, Last, Opens, Nodes
      <4> QED
        BY <4>1, <4>2
    <3>2. CASE at[p] = Last(p)
      BY <2>6, <3>2 DEF NodeReady, Goto, Stages
    <3>3. CASE at[p] # Last(p)
      BY <2>6, <3>1, <3>3 DEF NodeReady, Goto, Stages
    <3> QED
      BY <3>2, <3>3
  <2>7. CASE LoadKem(p)
    BY <2>6, <2>7 DEF LoadKem, TakePublic
  <2>8. CASE WriteKemKey(p)
    BY <2>8 DEF WriteKemKey, Goto, Stages
  <2>9. CASE CreateKemPub(p)
    BY <2>9 DEF CreateKemPub, Goto, Stages
  <2>10. CASE SaveKemPub(p)
    BY <2>6, <2>10 DEF SaveKemPub, TakePublic
  <2> QED
    BY <1>1, <2>1, <2>2, <2>3, <2>4, <2>5, <2>7, <2>8, <2>9, <2>10 DEF StartStep
<1>2. ASSUME NEW p \in Processes, Kill(p) PROVE TypeOK'
  <2>1. Blank \in [Nodes -> Keys \cup {None, Torn}]
    BY DEF Blank
  <2>2. kills' \in 0..MaxKills
    BY <1>2, ShareStoreConstants DEF Kill
  <2>3. stage' \in [Processes -> Stages]
    BY <1>2 DEF Kill, Stages
  <2>4. aes_key' \in [Processes -> [Nodes -> Keys \cup {None, Torn}]]
    BY <1>2, <2>1 DEF Kill
  <2>5. CASE p = Coordinator
    BY <1>2, <2>2, <2>3, <2>4, <2>5 DEF Kill
  <2>6. CASE p # Coordinator
    BY <1>2, <2>2, <2>3, <2>4, <2>6 DEF Kill
  <2> QED
    BY <2>5, <2>6
<1>3. CASE RegisterStep
  <2>1. CASE BeginRegister
    <3>1. 1 \in Nodes
      BY ShareStoreConstants DEF Nodes
    <3> QED
      BY <2>1, <3>1 DEF BeginRegister
  <2>2. CASE Insert
    <3>1. did \in Dids /\ [inserted EXCEPT ![next] = @ \cup {did}] \in [Nodes -> SUBSET Dids]
      BY <2>2 DEF Insert, HandlerServes
    <3> QED
      BY <2>2, <3>1 DEF Insert
  <2>3. CASE Commit
    <3>1. rows' \in [Nodes -> [Dids -> Keys \cup {None}]]
      BY <2>3 DEF Commit, HandlerServes
    <3>2. next' \in Nodes
      <4>1. next # N_NODES => next + 1 \in Nodes
        BY ShareStoreConstants DEF Nodes
      <4> QED
        BY <2>3, <4>1 DEF Commit
    <3>3. inserted' \in [Nodes -> SUBSET Dids] /\ step' \in {"insert", "ledger"}
      BY <2>3 DEF Commit
    <3> QED
      BY <2>3, <3>1, <3>2, <3>3 DEF Commit
  <2>4. CASE AppendEntry
    BY <2>4 DEF AppendEntry, HandlerServes
  <2>5. CASE RegisterFails
    BY <2>5 DEF RegisterFails
  <2> QED
    BY <1>3, <2>1, <2>2, <2>3, <2>4, <2>5 DEF RegisterStep
<1>4. CASE UNCHANGED vars
  BY <1>4 DEF vars
<1> QED
  BY <1>1, <1>2, <1>3, <1>4 DEF Next

-----------------------------------------------------------------------------
(* Starting processes: the keys in memory are those on disk, and only the    *)
(* coordinator, alone, creates one.                                          *)

Settled == KeysSettled /\ AtOwn /\ NodesHeldBack /\ CreatesAlone

(* A store.key that does not exist is met by the coordinator before any      *)
(* node was started.                                                         *)
LEMMA MissingKey ==
  ASSUME TypeOK, Settled, NEW p \in Processes, stage[p] # "down", store_key[at[p]] = None
  PROVE  p = Coordinator /\ started = {}
<1>1. at[p] \in Nodes
  BY DEF TypeOK
<1>2. started = {}
  BY <1>1 DEF Settled, NodesHeldBack
<1> QED
  BY <1>2 DEF Settled, NodesHeldBack, Processes

(* While the coordinator creates a store.key every node is down.             *)
LEMMA CreatorAlone ==
  ASSUME TypeOK, Settled, NEW p \in Processes, stage[p] \in {"create_key", "save_key"}
  PROVE  /\ p = Coordinator /\ started = {} /\ \A n \in Nodes : stage[n] = "down"
         /\ aes_key[p][at[p]] \in Keys
<1>1. p = Coordinator
  BY DEF Settled, NodesHeldBack, Processes
<1> QED
  BY <1>1 DEF Settled, NodesHeldBack, CreatesAlone

LEMMA SettledNext ==
  TypeOK /\ TypeOK' /\ Settled /\ [Next]_vars => Settled'
<1> SUFFICES ASSUME TypeOK, TypeOK', Settled, [Next]_vars PROVE Settled'
  OBVIOUS
<1> USE DEF Settled, TypeOK, fileVars, memoryVars
<1>1. ASSUME NEW p \in Processes, StartStep(p) PROVE Settled'
  <2>1. CASE Start(p)
    <3>1. \A m \in Nodes : ~Passed(p, m)'
      BY <2>1, ProcessFacts, ShareStoreConstants DEF Start, Passed, Opens, First, Nodes
    <3>2. KeysSettled'
      BY <2>1, <3>1 DEF Start, KeysSettled, Passed
    <3>3. AtOwn'
      BY <2>1, ProcessFacts DEF Start, AtOwn
    <3>4. p # Coordinator => \A n \in Nodes : store_key[n] # None
      <4>1. CASE p \in started
        BY <4>1 DEF NodesHeldBack
      <4>2. CASE stage[Coordinator] = "up"
        BY <4>2, ProcessFacts DEF KeysSettled, Passed, Opens
      <4> QED
        BY <2>1, <4>1, <4>2 DEF Start, MayStart
    <3>5. NodesHeldBack'
      BY <2>1, <3>4, ProcessFacts DEF Start, NodesHeldBack
    <3>6. CreatesAlone'
      BY <2>1, ProcessFacts DEF Start, MayStart, CreatesAlone
    <3> QED
      BY <3>2, <3>3, <3>5, <3>6
  <2>2. CASE LoadStoreKey(p)
    <3>1. KeysSettled'
      BY <2>2 DEF LoadStoreKey, Goto, KeysSettled, Passed
    <3>2. AtOwn'
      BY <2>2 DEF LoadStoreKey, Goto, AtOwn
    <3>3. NodesHeldBack'
      BY <2>2 DEF LoadStoreKey, Goto, NodesHeldBack
    <3>4. CreatesAlone'
      BY <2>2 DEF LoadStoreKey, Goto, CreatesAlone
    <3> QED
      BY <3>1, <3>2, <3>3, <3>4
  <2>3. CASE GenerateStoreKey(p)
    <3>0. p = Coordinator /\ started = {} /\ generations + 1 \in Keys
      BY <2>3, MissingKey DEF GenerateStoreKey, Keys
    <3>1. KeysSettled'
      BY <2>3, <3>0 DEF GenerateStoreKey, Goto, KeysSettled, Passed
    <3>2. AtOwn'
      BY <2>3, <3>0 DEF GenerateStoreKey, Goto, AtOwn
    <3>3. NodesHeldBack'
      BY <2>3, <3>0 DEF GenerateStoreKey, Goto, NodesHeldBack
    <3>4. CreatesAlone'
      BY <2>3, <3>0 DEF GenerateStoreKey, Goto, CreatesAlone
    <3> QED
      BY <3>1, <3>2, <3>3, <3>4
  <2>4. CASE CreateStoreKey(p)
    <3>0. /\ p = Coordinator /\ started = {} /\ \A n \in Nodes : stage[n] = "down"
          /\ aes_key[p][at[p]] \in Keys
      BY <2>4, CreatorAlone DEF CreateStoreKey
    <3>a. ASSUME NEW q \in Processes, NEW m \in Nodes, Passed(q, m)'
          PROVE  q = p /\ m < at[p] /\ Passed(q, m)
      <4>1. q = p
        BY <2>4, <3>0, <3>a DEF CreateStoreKey, Goto, Passed, Processes
      <4>2. at'[p] = at[p] /\ stage'[p] = "save_key" /\ at[p] \in Nat /\ m \in Nat
        BY <2>4, <4>1 DEF CreateStoreKey, Goto, Nodes
      <4> QED
        BY <2>4, <3>a, <4>1, <4>2 DEF CreateStoreKey, Passed
    <3>1. KeysSettled'
      BY <2>4, <3>0, <3>a DEF CreateStoreKey, Goto, KeysSettled, Nodes
    <3>2. AtOwn'
      BY <2>4, <3>0, ProcessFacts DEF CreateStoreKey, Goto, AtOwn
    <3>3. NodesHeldBack'
      BY <2>4, <3>0, ProcessFacts DEF CreateStoreKey, Goto, NodesHeldBack
    <3>4. CreatesAlone'
      BY <2>4, <3>0, ProcessFacts DEF CreateStoreKey, Goto, CreatesAlone
    <3> QED
      BY <3>1, <3>2, <3>3, <3>4
  <2>5. CASE SaveStoreKey(p)
    <3>0. /\ p = Coordinator /\ started = {} /\ \A n \in Nodes : stage[n] = "down"
          /\ aes_key[p][at[p]] \in Keys
      BY <2>5, CreatorAlone DEF SaveStoreKey
    <3>a. ASSUME NEW q \in Processes, NEW m \in Nodes, Passed(q, m)'
          PROVE  q = p /\ m <= at[p] /\ (m # at[p] => Passed(q, m))
      <4>1. q = p
        BY <2>5, <3>0, <3>a DEF SaveStoreKey, Goto, Passed, Processes
      <4>2. at'[p] = at[p] /\ stage'[p] = "kem" /\ at[p] \in Nat /\ m \in Nat
        BY <2>5, <4>1 DEF SaveStoreKey, Goto, Nodes
      <4> QED
        BY <2>5, <3>a, <4>1, <4>2 DEF SaveStoreKey, Passed
    <3>1. KeysSettled'
      <4>1. ASSUME NEW q \in Processes, NEW m \in Nodes, Passed(q, m)'
            PROVE  store_key'[m] # None /\ aes_key'[q][m] = store_key'[m]
        <5>1. aes_key' = aes_key /\ None \notin Keys
          BY <2>5, ProcessFacts DEF SaveStoreKey
        <5>2. CASE m = at[p]
          BY <2>5, <3>0, <3>a, <4>1, <5>1, <5>2 DEF SaveStoreKey
        <5>3. CASE m # at[p]
          BY <2>5, <3>a, <4>1, <5>1, <5>3 DEF SaveStoreKey, KeysSettled
        <5> QED
          BY <5>2, <5>3
      <4> QED
        BY <4>1 DEF KeysSettled
    <3>2. AtOwn'
      BY <2>5, <3>0, ProcessFacts DEF SaveStoreKey, Goto, AtOwn
    <3>3. NodesHeldBack'
      BY <2>5, <3>0, ProcessFacts DEF SaveStoreKey, Goto, NodesHeldBack
    <3>4. CreatesAlone'
      BY <2>5, <3>0, ProcessFacts DEF SaveStoreKey, Goto, CreatesAlone
    <3> QED
      BY <3>1, <3>2, <3>3, <3>4
  <2>6. ASSUME NodeReady(p), stage[p] \in {"kem", "save_pub"}, UNCHANGED <<store_key, aes_key>>
        PROVE  Settled'
    <3>1. \A m \in Nodes : Passed(p, m)' => Passed(p, m)
      BY <2>6, ShareStoreConstants
      DEF NodeReady, Goto, Passed, AtOwn, Opens, Last, Nodes
    <3>2. KeysSettled'
      BY <2>6, <3>1 DEF NodeReady, Goto, KeysSettled, Passed
    <3>3. AtOwn'
      BY <2>6, ShareStoreConstants DEF NodeReady, Goto, AtOwn, Opens, Last, Nodes
    <3>4. NodesHeldBack'
      <4>1. started' = started /\ \A n \in Nodes : n # p => stage'[n] = stage[n]
        BY <2>6, ProcessFacts DEF NodeReady, Goto
      <4>2. stage'[p] \in {"up", "store_key"}
        BY <2>6 DEF NodeReady, Goto
      <4> QED
        BY <2>6, <4>1, <4>2, ProcessFacts DEF NodesHeldBack
    <3>5. CreatesAlone'
      <4>1. stage'[Coordinator] \in {"create_key", "save_key"} => p # Coordinator
        BY <2>6 DEF NodeReady, Goto
      <4>2. p # Coordinator => /\ stage'[Coordinator] = stage[Coordinator]
                               /\ at'[Coordinator] = at[Coordinator]
                               /\ started' = started
        BY <2>6, ProcessFacts DEF NodeReady, Goto
      <4>3. CASE p = Coordinator
        BY <4>1, <4>3 DEF CreatesAlone
      <4>4. CASE p # Coordinator
        BY <2>6, <4>2, <4>4 DEF CreatesAlone
      <4> QED
        BY <4>3, <4>4
    <3> QED
      BY <3>2, <3>3, <3>4, <3>5
  <2>7. CASE LoadKem(p)
    BY <2>6, <2>7 DEF LoadKem
  <2>8. CASE SaveKemPub(p)
    BY <2>6, <2>8 DEF SaveKemPub
  <2>9. CASE WriteKemKey(p)
    <3>1. KeysSettled'
      BY <2>9 DEF WriteKemKey, Goto, KeysSettled, Passed
    <3>2. AtOwn'
      BY <2>9 DEF WriteKemKey, Goto, AtOwn
    <3>3. NodesHeldBack'
      BY <2>9 DEF WriteKemKey, Goto, NodesHeldBack
    <3>4. CreatesAlone'
      BY <2>9 DEF WriteKemKey, Goto, CreatesAlone
    <3> QED
      BY <3>1, <3>2, <3>3, <3>4
  <2>10. CASE CreateKemPub(p)
    <3>1. KeysSettled'
      BY <2>10 DEF CreateKemPub, Goto, KeysSettled, Passed
    <3>2. AtOwn'
      BY <2>10 DEF CreateKemPub, Goto, AtOwn
    <3>3. NodesHeldBack'
      BY <2>10 DEF CreateKemPub, Goto, NodesHeldBack
    <3>4. CreatesAlone'
      BY <2>10 DEF CreateKemPub, Goto, CreatesAlone
    <3> QED
      BY <3>1, <3>2, <3>3, <3>4
  <2> QED
    BY <1>1, <2>1, <2>2, <2>3, <2>4, <2>5, <2>7, <2>8, <2>9, <2>10 DEF StartStep
<1>2. ASSUME NEW p \in Processes, Kill(p) PROVE Settled'
  <2>1. KeysSettled'
    BY <1>2 DEF Kill, KeysSettled, Passed
  <2>2. AtOwn'
    BY <1>2 DEF Kill, AtOwn
  <2>3. NodesHeldBack'
    BY <1>2 DEF Kill, NodesHeldBack
  <2>4. CreatesAlone'
    BY <1>2 DEF Kill, CreatesAlone
  <2> QED
    BY <2>1, <2>2, <2>3, <2>4
<1>3. ASSUME UNCHANGED <<startVars, store_key, aes_key>> PROVE Settled'
  BY <1>3 DEF startVars, KeysSettled, Passed, AtOwn, NodesHeldBack, CreatesAlone
<1>4. CASE RegisterStep
  BY <1>3, <1>4 DEF RegisterStep, BeginRegister, Insert, Commit, AppendEntry, RegisterFails
<1>5. CASE UNCHANGED vars
  BY <1>3, <1>5 DEF vars
<1> QED
  BY <1>1, <1>2, <1>4, <1>5 DEF Next

-----------------------------------------------------------------------------
(* The shares: a row opens under the key on disk, and that key is never      *)
(* replaced.                                                                 *)

LEMMA KeysKept ==
  ASSUME TypeOK, Settled, [Next]_vars, NEW n \in Nodes, store_key[n] \in Keys
  PROVE  store_key'[n] = store_key[n]
<1> USE DEF TypeOK, fileVars
<1>1. ASSUME NEW p \in Processes, StartStep(p) PROVE store_key'[n] = store_key[n]
  <2>1. CASE CreateStoreKey(p)
    <3>1. store_key[at[p]] = None
      BY <2>1, CreatorAlone DEF CreateStoreKey, Settled, CreatesAlone
    <3> QED
      BY <2>1, <3>1, ProcessFacts DEF CreateStoreKey
  <2>2. CASE SaveStoreKey(p)
    <3>1. store_key[at[p]] = Torn
      BY <2>2, CreatorAlone DEF SaveStoreKey, Settled, CreatesAlone
    <3> QED
      BY <2>2, <3>1, ProcessFacts DEF SaveStoreKey
  <2> QED
    BY <1>1, <2>1, <2>2
    DEF StartStep, Start, LoadStoreKey, GenerateStoreKey, LoadKem, WriteKemKey,
        CreateKemPub, SaveKemPub
<1>2. ASSUME NEW p \in Processes, Kill(p) PROVE store_key'[n] = store_key[n]
  BY <1>2 DEF Kill
<1>3. CASE RegisterStep
  BY <1>3 DEF RegisterStep, BeginRegister, Insert, Commit, AppendEntry, RegisterFails
<1> QED
  BY <1>1, <1>2, <1>3 DEF Next, vars

(* While register() runs, the coordinator has the key of every node.         *)
LEMMA CoordinatorHasKeys ==
  ASSUME Settled, stage[Coordinator] = "up", NEW n \in Nodes
  PROVE  store_key[n] # None /\ aes_key[Coordinator][n] = store_key[n]
BY ProcessFacts DEF Settled, KeysSettled, Passed, Opens

Shared == RowsHeld /\ HandlerServes /\ SharesInOrder

LEMMA SharedNext ==
  TypeOK /\ Settled /\ Shared /\ [Next]_vars => Shared'
<1> SUFFICES ASSUME TypeOK, Settled, Shared, [Next]_vars PROVE Shared'
  OBVIOUS
<1> USE DEF TypeOK, Shared
<1>1. ASSUME rows' = rows PROVE RowsHeld'
  <2> SUFFICES ASSUME NEW n \in Nodes, NEW d \in Dids, rows'[n][d] # None
               PROVE  rows'[n][d] = store_key'[n]
    BY DEF RowsHeld, Held
  <2>1. rows[n][d] = store_key[n] /\ store_key[n] \in Keys
    BY <1>1 DEF RowsHeld, Held
  <2> QED
    BY <1>1, <2>1, KeysKept
<1>2. ASSUME NEW p \in Processes, StartStep(p) PROVE Shared'
  <2>1. UNCHANGED <<handlerVars, tableVars>>
    BY <1>2
    DEF StartStep, Start, LoadStoreKey, GenerateStoreKey, CreateStoreKey, SaveStoreKey,
        LoadKem, WriteKemKey, CreateKemPub, SaveKemPub
  <2>2. stage[p] # "up"
    BY <1>2
    DEF StartStep, Start, MayStart, LoadStoreKey, GenerateStoreKey, CreateStoreKey,
        SaveStoreKey, LoadKem, WriteKemKey, CreateKemPub, SaveKemPub
  <2>3. \A q \in Processes : q # p => stage'[q] = stage[q] /\ aes_key'[q] = aes_key[q]
    BY <1>2
    DEF StartStep, Start, LoadStoreKey, GenerateStoreKey, CreateStoreKey, SaveStoreKey,
        LoadKem, WriteKemKey, CreateKemPub, SaveKemPub, NodeReady, Goto, memoryVars
  <2>4. HandlerServes'
    BY <2>1, <2>2, <2>3, ProcessFacts DEF HandlerServes, handlerVars, tableVars
  <2> QED
    BY <1>1, <2>1, <2>4 DEF SharesInOrder, handlerVars, tableVars
<1>3. ASSUME NEW p \in Processes, Kill(p) PROVE Shared'
  <2>1. HandlerServes'
    <3>1. CASE p = Coordinator
      BY <1>3, <3>1 DEF Kill, HandlerServes
    <3>2. CASE p # Coordinator
      BY <1>3, <3>2, ProcessFacts DEF Kill, HandlerServes
    <3> QED
      BY <3>1, <3>2
  <2>2. SharesInOrder'
    <3>1. CASE p = Coordinator
      BY <1>3, <3>1 DEF Kill, SharesInOrder
    <3>2. CASE p # Coordinator
      BY <1>3, <3>2 DEF Kill, SharesInOrder
    <3> QED
      BY <3>1, <3>2
  <2> QED
    BY <1>1, <1>3, <2>1, <2>2 DEF Kill
<1>4. CASE RegisterStep
  <2> USE DEF startVars, fileVars, memoryVars, tableVars
  <2>1. CASE BeginRegister
    <3>1. SharesInOrder'
      BY <2>1 DEF BeginRegister, SharesInOrder
    <3>2. HandlerServes'
      BY <2>1 DEF BeginRegister, HandlerServes
    <3> QED
      BY <1>1, <2>1, <3>1, <3>2 DEF BeginRegister
  <2>2. CASE Insert
    <3>1. aes_key[Coordinator][next] \in Keys
      BY <2>2, CoordinatorHasKeys, ProcessFacts DEF Insert, Raises, HandlerServes
    <3>2. HandlerServes'
      BY <2>2, <3>1 DEF Insert, HandlerServes
    <3>3. SharesInOrder'
      BY <2>2 DEF Insert, SharesInOrder
    <3> QED
      BY <1>1, <2>2, <3>2, <3>3 DEF Insert
  <2>3. CASE Commit
    <3>1. /\ stage[Coordinator] = "up" /\ did \in inserted[next] /\ did \in Dids
          /\ aes_key[Coordinator][next] \in Keys
          /\ aes_key[Coordinator][next] = store_key[next]
      BY <2>3, CoordinatorHasKeys DEF Commit, HandlerServes, SharesInOrder
    <3>2. \A n \in Nodes, d \in Dids :
            rows'[n][d] = IF n = next /\ d \in inserted[next]
                            THEN aes_key[Coordinator][next] ELSE rows[n][d]
      BY <2>3 DEF Commit
    <3>3. RowsHeld'
      BY <2>3, <3>1, <3>2 DEF Commit, RowsHeld, Held
    <3>4. HandlerServes'
      BY <2>3, <3>1 DEF Commit, HandlerServes
    <3>5. \A n \in Nodes, d \in Dids : rows[n][d] # None => rows'[n][d] # None
      BY <3>1, <3>2, ProcessFacts
    <3>6. rows'[next][did] # None
      BY <3>1, <3>2, ProcessFacts
    <3>7. \A n \in 1..(next - 1) : n \in Nodes /\ rows'[n][did] # None
      BY <2>3, <3>1, <3>5, ShareStoreConstants DEF Commit, SharesInOrder, Nodes
    <3>8. SharesInOrder'
      <4>1. \A d \in registered', n \in Nodes : rows'[n][d] # None
        BY <2>3, <3>5 DEF Commit, SharesInOrder
      <4>2. CASE next = N_NODES
        <5>1. \A n \in Nodes : n = next \/ n \in 1..(next - 1)
          BY <4>2, ShareStoreConstants DEF Nodes
        <5>2. \A n \in Nodes : rows'[n][did] # None
          BY <3>6, <3>7, <5>1
        <5> QED
          BY <2>3, <3>7, <4>1, <4>2, <5>2 DEF Commit, SharesInOrder
      <4>3. CASE next # N_NODES
        <5>1. \A n \in 1..(next' - 1) : n = next \/ n \in 1..(next - 1)
          BY <2>3, <4>3, ShareStoreConstants DEF Commit, Nodes
        <5> QED
          BY <2>3, <3>6, <3>7, <4>1, <4>3, <5>1 DEF Commit, SharesInOrder
      <4> QED
        BY <4>2, <4>3
    <3> QED
      BY <3>3, <3>4, <3>8
  <2>4. CASE AppendEntry
    <3>1. HandlerServes'
      BY <2>4 DEF AppendEntry, HandlerServes
    <3>2. SharesInOrder'
      BY <2>4 DEF AppendEntry, SharesInOrder
    <3> QED
      BY <1>1, <2>4, <3>1, <3>2 DEF AppendEntry
  <2>5. CASE RegisterFails
    BY <1>1, <2>5 DEF RegisterFails, HandlerServes, SharesInOrder
  <2> QED
    BY <1>4, <2>1, <2>2, <2>3, <2>4, <2>5 DEF RegisterStep
<1>5. CASE UNCHANGED vars
  BY <1>5 DEF vars, startVars, fileVars, memoryVars, handlerVars, tableVars,
              RowsHeld, Held, HandlerServes, SharesInOrder
<1> QED
  BY <1>2, <1>3, <1>4, <1>5 DEF Next

-----------------------------------------------------------------------------
(* The theorems. *)

LEMMA InvariantNext == InductiveInvariant /\ [Next]_vars => InductiveInvariant'
<1> SUFFICES ASSUME InductiveInvariant, [Next]_vars PROVE InductiveInvariant'
  OBVIOUS
<1>1. TypeOK /\ Settled /\ Shared
  BY DEF InductiveInvariant, Settled, Shared
<1>2. TypeOK'
  BY <1>1, TypeNext DEF Settled, Shared
<1>3. Settled'
  BY <1>1, <1>2, SettledNext
<1>4. Shared'
  BY <1>1, SharedNext
<1> QED
  BY <1>2, <1>3, <1>4 DEF InductiveInvariant, Settled, Shared

(* Every reachable state satisfies the inductive invariant: the key a        *)
(* process holds is the one on disk, nodes run only once every store.key is  *)
(* there, and every committed row is encrypted with the key on disk.         *)
THEOREM Invariance == Spec => []InductiveInvariant
<1>1. InductiveInvariant /\ UNCHANGED vars => InductiveInvariant'
  BY InvariantNext
<1> QED
  BY InitInductive, InvariantNext, <1>1, PTL DEF Spec

(* For a DID on the ledger every serving process has the share of its node   *)
(* and the key that opens it.                                                *)
LEMMA InvariantServes == InductiveInvariant => RegisteredServable
<1> SUFFICES ASSUME InductiveInvariant, NEW d \in registered, NEW p \in Processes,
                    stage[p] = "up", NEW n \in Opens(p)
             PROVE  get_share(p, n, d) = "share"
  BY DEF RegisteredServable
<1>1. n \in Nodes /\ d \in Dids
  BY ProcessFacts DEF InductiveInvariant, TypeOK
<1>2. aes_key[p][n] = store_key[n]
  BY <1>1 DEF InductiveInvariant, KeysSettled, Passed
<1>3. rows[n][d] # None /\ rows[n][d] = store_key[n]
  BY <1>1 DEF InductiveInvariant, SharesInOrder, RowsHeld, Held
<1> QED
  BY <1>2, <1>3 DEF get_share, Row

THEOREM ServableAlways == Spec => []RegisteredServable
  BY Invariance, InvariantServes, PTL

(* No start of any process and no kill costs a share: a committed row stays, *)
(* and the key on disk keeps opening it.                                     *)
THEOREM NeverLost == Spec => SharesNeverLost
<1>1. InductiveInvariant /\ [Next]_vars
        => [\A n \in Nodes, d \in Dids : Held(n, d) => Held(n, d)']_vars
  <2> SUFFICES ASSUME InductiveInvariant, InductiveInvariant', [Next]_vars,
                      NEW n \in Nodes, NEW d \in Dids, Held(n, d)
               PROVE  Held(n, d)'
    BY InvariantNext
  <2>1. ASSUME Commit PROVE rows'[n][d] # None
    <3>1. inserted[next] # {} => aes_key[Coordinator][next] # None
      BY ProcessFacts DEF InductiveInvariant, TypeOK, HandlerServes
    <3>2. rows'[n][d] \in {rows[n][d], aes_key[Coordinator][next]}
          /\ (rows'[n][d] # rows[n][d] => inserted[next] # {})
      BY <2>1 DEF Commit, InductiveInvariant, TypeOK
    <3> QED
      BY <3>1, <3>2 DEF Held
  <2>2. ASSUME rows' = rows PROVE rows'[n][d] # None
    BY <2>2 DEF Held
  <2>3. rows'[n][d] # None
    BY <2>1, <2>2
    DEF Next, StartStep, Start, LoadStoreKey, GenerateStoreKey, CreateStoreKey, SaveStoreKey,
        LoadKem, WriteKemKey, CreateKemPub, SaveKemPub, Kill, RegisterStep, BeginRegister,
        Insert, AppendEntry, RegisterFails, vars, tableVars
  <2> QED
    BY <2>3 DEF InductiveInvariant, RowsHeld
<1> QED
  BY Invariance, <1>1, PTL DEF Spec, SharesNeverLost
==================================================================================
