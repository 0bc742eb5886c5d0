# A formal model of the decentralised identity provider

TLA+ modules that model the program, TLC configurations that check them on small
instances, and theorems that TLAPS proves for every value of the constants. File
and line numbers below are relative to the root of the repository. `PROJECT.json` lists which definition stands for which lines.

## 1. The system: components, state, operations

| Component | State | Operations | Correct means |
|---|---|---|---|
| Coordinator API (`api/main.py`) | module singletons; one asyncio event loop | `/register`, `/challenge`, `/authenticate`, `/verify`, `/health` | handlers that await in the middle do not break each other; every request ends |
| Challenge manager (`authentication/challenge.py`) | `_pending`, in memory | `issue`, `peek`, `consume` (`_cleanup_expired` is never called) | a nonce is spent once, in time; a live challenge is not refused |
| Authentication service (`authentication/authenticate.py`) | none of its own | nine steps: consume, look up, verify, collect, PBFT, search, zero, issue, record | tokens only on honest answers; liars of the kinds in section 6 cannot make it fail; every outcome on the ledger |
| PBFT round (`node/pbft.py`) | `prepare_messages` | `add_prepare_message`, `try_commit` | the verdict does not depend on the order of arrival |
| Nodes (`node/node.py`, `api/node_service.py`) | `online`, `byzantine`, the share store, KEM keys | start: load or create the keys; `compute_partial_proof` | a node that serves can serve every registered DID |
| Transport (`node/transport.py`) | peer addresses | one request to one node, with a timeout | a dead node costs a bounded time |
| Secret sharing (`crypto/sss.py`, `crypto/lagrange.py`, `node/partial_proof.py`) | none | shares, partial values, reconstruction | any `THRESHOLD` right values rebuild the secret, fewer do not tell it |
| Ledger (`ledger/ledger.py`) | SQLite table `entries` | `append`, `verify_chain`, lookups | its own chain always verifies; a hash fixes the history before it; appends hide nothing |
| Tokens (`authentication/iat.py`) | `system.key`, `system.pub`, the pair in memory | `init_system_keys`, `issue`, `verify_iat` | a token is good for its time, across restarts, and not longer |
| Registration (`registration/register.py`) | none of its own; writes to every share store, the ledger, a keyfile | `register` | nothing half registered is ever offered to a user |
| Command line (`cli.py`) | `~/.decidp/users.json` | `cmd_register`, `cmd_authenticate` | a name leads to a usable identity of its own user |
| Share store (`node/share_store.py`) | `store.key` and its copy in memory, `shares.db`, an open transaction | start, `store_share`, `get_share` | no share is ever written under a key that is lost or incomplete |
| Keyfile (`crypto/keyfile.py`) | one file per identity | `save_keyfile`, `load_keyfile` | "wrong password" means just that |
| Deployment (`docker-compose.yml`) | which containers run | first start in order, later starts in any | two processes never both create a key |
| HKDF, Feldman, PQC wrappers | none | pure functions | - |
| Demo and attacks (`simulate/`) | - | switch nodes off, make them lie, replay | - |

How they interact: the command line asks the coordinator for a challenge, signs
it, and posts the signature. In HTTP mode (the Docker deployment) the handler
peeks at the challenge, asks every node over HTTP **with an await**, and then
calls `authenticate()`, which consumes the challenge and does the rest without
awaiting; in local mode `authenticate()` asks the nodes itself from a thread
pool while the event loop is blocked. Results go to the ledger and to the client.
The coordinator also opens the share store of every node and writes the shares
itself; the node processes open the same files and read them. Both would create
the keys if they found none.

The hard behaviours are: requests that interleave at the one await; challenges
that are spent or expire between `peek` and `consume`; nodes that lie, stop or
answer late; a coordinator killed between two steps that each leave a trace
(ledger, files, memory); several processes that rewrite one file. The list, at
its lines, is under `hazards` in `PROJECT.json`.

## 2. Modules

```
Challenges   Ballots          ChallengeLifecycle       IdentityLifecycle
      \        /                     ^ INSTANCE               ^ INSTANCE
     Authentication -----------------+              Registration      ShareStores
                                                         |
PBFTRound --INSTANCE--> Ballots                    MCRegistration
SecretSharing    Ledger    IdentityTokens
```

Proofs are kept beside, in a module for each: `BallotsProofs`,
`AuthenticationProofs`, `PBFTRoundProofs`, `SecretSharingProofs`, `LedgerProofs`,
`IdentityTokensProofs`, `RegistrationProofs`, `ShareStoresProofs`.

**Challenges.tla** - `ChallengeManager`: `pending` is the keys of `_pending`,
`expires_at` the deadlines, `now` is `time.time()`. `Peeks`/`Consumes` are the
conditions under which `peek` and `consume` return a nonce, `Consume` what
`consume` does to the table. The field `did` of an entry is not modelled because
no code reads it.

**Ballots.tla** - the vote and the search on sets of nodes. A proof is one of
four kinds: `honest`, `fake_value` (the Byzantine branch of `node.py`),
`forged_H` and `other_nonce` (the shapes of `tests/test_pbft.py`). `Tallies` are
the lists `try_commit` may accept, `Chosen` the subsets the search may stop at.

**Authentication.tla** - the composition, and the core of the project. `pc[r]`
is where the handler of request `r` stands; `LoopFree`/`HoldsLoop` are the event
loop: only a handler in `gathering` has given it up. One action per step:

| Action | Code |
|---|---|
| `Arrive` | start of `POST /authenticate`, `peek`, and the requests to the nodes |
| `Serve`, `NoAnswer` | a node computes a proof; the transport gives `None` (no share, down, timeout) |
| `Gathered` | `asyncio.gather` returns |
| `RefuseChallenge`, `Claim` | step 1 |
| `RefuseDid`, `RefuseSignature`, `Accept` | steps 2, 3 and the choice at step 4 |
| `Collected` | `as_completed` is exhausted (thread-pool path) |
| `NoQuorum`, `Mismatch`, `Grant` | steps 5 to 7 and the token |
| `RecordGrant`, `Respond` | the `AUTH_SUCCESS` entry; the response |
| `IssueChallenge`, `Register` | the other handlers |
| `CrashNode` ... `Reform` | `simulate/attacks.py`, and containers that stop |
| `Crash` | the coordinator is killed and started again |

The order inside `authenticate()` is kept step by step although no other handler
can run in between, because the clock, the nodes and a kill can.

**ChallengeLifecycle.tla** - the abstract promise: a challenge is opened once,
closed once, by one client before the deadline or by nobody, and only who closed
it may be granted a token, once. `Authentication` implements it under the
refinement mapping at the end of `Authentication.tla` (`Lifecycle`).

**PBFTRound.tla** - one round on the lists of the code: answers in order of
arrival, `prepare_messages`, `most_common` with its ties, and `combinations` in
its order. Subsets of a list are sets of positions: `Majority` is the vote that
both `try_commit` and `authenticate` take. `node_at` says which node is behind
each entry of `NODE_PEERS`. It
justifies `Ballots`: `VerdictOnSets` says that every verdict on lists is one
that the sets allow.

**SecretSharing.tla** - the arithmetic modulo a prime `P`. `Plus` and `Times` are
the reduced operations as tables, and every loop that accumulates is a `Fold`
(`Sum`, `Product`) of the community modules. The order in which the code reduces
inside a loop differs; the residues do not. It justifies
`Reconstructs` of `Ballots`: `RebuiltOnlyFromHonest` says that right values
rebuild the secret and one wrong value among them does not.

**Ledger.tla** - `append` in two steps (INSERT, commit), with a kill in between
and a commit that raises and leaves its row in the open transaction, and
`verify_chain`. Another writer may UPDATE, INSERT and DELETE rows (`Change`), at any
id, and sets `entry_hash` to fit if it likes (`Forged`), as the hash has no key.
`original` is the table before the first change; only properties read it. The hash
is injective on what is hashed: the previous hash and the *concatenation* of the
other columns, `repr(timestamp)` included (a timestamp stands for its repr). The
previous hash has a fixed width in every chain that verifies, because the links
make it "0" * 64 or a hash, so it is kept apart.

**IdentityTokens.tla** - `init_system_keys` write by write, `issue` and
`verify_iat`, over kills, with a clock finer than a second.

**Registration.tla** - sessions of `cmd_register`, sign-ins (`cmd_authenticate`),
the handler of `POST /register`, and the stores it writes: a share per node, the
ledger, the keyfile, then `users.json` on the user's side. Any step may raise;
sessions give up while the handler goes on; everybody may be killed; two
sessions may have `users.json` open for writing at once (`overlaid`). A keyfile
is represented by the password that opens it.

| Action | Code |
|---|---|
| `LoadUsers`, `LoadRaises`, `Decline`, `Post`, `GiveUp` | `cmd_register` up to the answer |
| `OpenUsers`, `WriteUsers` | `_save_users`: `open(..., "w")`, then the dump and the close |
| `LookUp`, `LoadKeyfile`, `AskChallenge`, `Submit`, `RequestFails` | `cmd_authenticate` |
| `Begin`, `StoreShare`, `AppendEntry`, `OpenKeyfile`, `WriteKeyfile`, `Reply` | steps 1-7, 8, 9, 11 and 12 of `register()` |
| `Fail`, `KillCoordinator`, `KillSession` | an exception in any step; kills |

**IdentityLifecycle.tla** - the abstract promise: one identity is in the making
at a time, it becomes whole or is abandoned for ever, it is told once, whole, to
the user of one name; the directory may forget a name (it does, see `lost_user`)
but never gives it what its user was not told. `Registration` implements it
(`Lifecycle` in `Registration.tla`).

**ShareStores.tla** - the key files, databases and memory of the nodes under the
coordinator and one process per node, which share a data directory. A key is the
number of its generation, `Torn` a file created and not yet written. `StartStep`
is the construction of a `Node` (`ShareStore.__init__`, `_init_kem_keys`), file
by file; `MayStart` is `depends_on: service_healthy`, which holds a node back the
first time only; `RegisterStep` is steps 8 and 9 of `register()` with INSERT and
commit apart, and `RegisterFails` leaves the row of a commit that raised in the
open transaction. It justifies two things the other modules take for granted:
`CanServe` of `Authentication` (a node that runs has the share of a registered
DID) and the causes of `Fail` in `Registration`. In `Registration` a failed
registration's rows stop where it stopped; that a later commit may still add one
of them is harmless there, as shares of an abandoned DID are never asked for.

`MCAuthentication`, `MCPBFTRound`, `MCLedger` and `MCRegistration` hold values
and symmetry for TLC. Operators marked "Mutant of" are plausible bugs
in the definition below them; each property of a passing run is violated by one.

## 3. What the runs check

| Run | Instance | Properties |
|---|---|---|
| `race` | HTTP, 2 requests, 2 challenges of 1 tick, clock to 2, 2 nodes (T=2), 1 restart | types; `ChallengeSpentOnce`; `RefusalJustified`; `AuditTrail`; `BlockingPathUnreached`; refinement `LifecycleImplemented` |
| `local` | local transport, 5 nodes (T=3, f=1), 1 request, 2 liars at a time of 3 kinds, 1 restart | `InductiveInvariant` (of the proofs), `QuorumIsHonest`, `FailureMeansTooFewHonest` |
| `liveness` | HTTP, 2 requests, 2 nodes, 1 challenge that expires, 1 restart | `EveryRequestEnds` under `FairSpec` |
| `round` | 5 peers, two of which may be one node, 4 kinds of answer, all orders | types; `InductiveInvariant`; `CommitIsOrderFree`; `VerdictOnSets`; `SearchKeepsVote` |
| `sharing` | P = 7, 5 nodes, T = 3, every polynomial and nonce, one wrong value | `InductiveInvariant`; `RebuiltOnlyFromHonest`; `FewSharesLeaveSecretsOpen` |
| `ledger` | 3 entries, 2 changes by a writer who computes hashes | `InductiveInvariant`; `HonestChainValid`; `HashFixesHistory`; `VerdictStands` |
| `tokens` | 2 kills, tokens of 2 s, 3 ticks a second, clock to 11 | `InductiveInvariant`; `PairsNeverMixed`; `TokenHonoured`; `NeverOutlivesTTL` |
| `registration` | 3 sessions, 1 sign-in, 2 names, 2 passwords, 2 nodes, 1 restart | `InductiveInvariant`; `StoresInOrder`; `UsersUsable`; `SignInMeetsIdentity`; `OpensWithOwnPassword`; refinement `LifecycleImplemented` |
| `stores` | coordinator and 2 node processes, 2 DIDs, 3 kills | `InductiveInvariant`; `RegisteredServable`; `SharesNeverLost` |

Why the bounds are enough. In `race` two requests are what a race for a nonce
needs, the second challenge lets one request hold another; one tick of life and
a clock to 2 give "before", "at" and "after" the deadline; a second restart
meets the same states as the first. Threshold and liars need the five nodes of
the deployment, but only one request, as answers of different requests do not
mix (`local`). In `round` every list of up to five answers occurs. Over the
field of 7 the five positions are distinct and not 0, which is what the
arithmetic uses of the real prime, that of secp256k1; the proofs cover every
prime. In
`ledger` a chain of three has a first, a middle and a last entry; two changes allow
those that verify (an entry removed and the next one rehashed), and a text can be edited or
moved across the boundary of data and timestamp. In `tokens`
two kills allow a start that is cut off after a start that was cut off, and
three ticks a second make the truncation visible. Three sessions in
`registration` let two writers overlap and a third read in between, and the
sign-in reads at any point of that; two passwords tell users apart. Two nodes in
`stores` are a first and a last one; three kills stop the coordinator and both
nodes once, or one process at three points of its start, and two DIDs let a
failed registration be followed by one that commits its row. Deadlock is not
checked: all requests served, all sessions ended, or everyone down with no kill
left to spend, is where the bounded instances stop.

Three more runs each refute a sentence of the repository (`findings`):

- `torn_pair`: `iat.py:25`, "Load or generate the system signing key pair". A
  process killed while it writes `system.pub` leaves an incomplete file that
  every later start loads, so `/verify` refuses every token from then on.
- `moved_letters`: SYSTEM_EXPLAINER.md:505, "Tampering with any historical entry
  changes its hash, which breaks the chain for every subsequent entry" (and
  `ledger.py:5`). The columns are hashed without separators, so an entry whose letters move from
  one column to the next keeps its hash, and the chain behind it verifies.
- `lost_user`: `cli.py:148`, "Save username -> DID mapping locally". The file is
  read before the request and rewritten as a whole after it, so of two sessions
  that register at the same time one loses its name.

Smaller ones that the passing properties state exactly instead: three of five
answers are enough (`FailureMeansTooFewHonest`), where README.md:56 says "two offline
nodes cause quorum failure by design"; tokens live up to a second less than the
60 s of `iat.py:5` (`TokenHonoured`); `verify_chain` accepts every table that is a chain, whoever wrote it: the loss of the last
entries, an entry that another writer added with a fitting hash, or a rewritten end
of the chain. `ledger.py:5` and SYSTEM_EXPLAINER.md:505 hold in this sense only:
a change under an old hash shows, and needs new hashes for every entry after it
(`HashFixesHistory`); two shares rule out up to two secrets, where
SYSTEM_EXPLAINER.md:621 says "zero information", because coefficients are never
0 (`FewSharesLeaveSecretsOpen`); a node behind two peer entries makes
`authenticate()` raise in place of being ignored as in
`tests/test_pbft.py:104` (`Raises` in `PBFTRound`; `VerdictOnSets` says that no other
deployment does so). README.md:79-80 verifies the signature and then
collects proofs: over HTTP `Arrive` collects first (`main.py:152`). `pbft.py:76`
says the round returns honest proofs: a `fake_value` passes it, and the search
has to go around (`QuorumIsHonest`).

Two facts that no sentence of the repository denies, and that the models show
reachable: a coordinator killed between the creation and the write of a
`store.key` leaves an empty key that every later start loads, and every later
registration fails at that node (`Raises`; with liboqs a cut-off `kem.pub` does
the same); and `users.json` cut off in the middle of a write fails every later
session until it is repaired by hand (`LoadRaises`).

## 4. Fairness

`FairSpec` asks for two things. `WF(HandlerStep(r))`: asyncio runs ready tasks
in turn, so a handler that can go on does. `WF(FetchStep(r, n))`: the call of a
node ends, because `asyncio.wait_for` cancels it after `NODE_TIMEOUT`
(`transport.py:127-133`), and a local call returns. Nothing is assumed of nodes,
of clients or of the clock. A request whose handler dies with the coordinator
counts as ended (`lost`): nothing restarts it.

## 5. What is proved

All theorems hold for every value of the constants that satisfies the named
ASSUMEs of the modules, which TLC evaluates in the runs.

**The vote and authentication** (`BallotsProofs`, `AuthenticationProofs`), for all finite nonempty sets of fewer than `2 * THRESHOLD` nodes
and `2f+1 <= THRESHOLD` (5 < 6 and 3 <= 3 in `crypto/__init__.py`), any requests,
challenges and DIDs, both transports, any number of restarts and of liars:

- `HonestThresholdDecides`: with `THRESHOLD` honest answers every tally commits
  and contains a subset that rebuilds the secret. The argument: all others are
  fewer than `THRESHOLD` (`OthersOutnumbered`), so the majority of hash and of H
  is the honest one and every honest proof is accepted (`HonestAccepted`).
- `Invariance`: `InductiveInvariant` always holds. The safety properties are
  not inductive alone. `ChallengeSpentOnce` needs `FreshUnspent` (what is on the
  table has no spender). `QuorumIsHonest` and `FailureMeansTooFewHonest` relate
  an outcome to answers, so they need `AnswersSettled` (no answer changes once a
  handler has left the collection) and `NoEarlyOutcome`; `HoldersAtWork` is what
  the refinement needs: who is granted a token holds its challenge.
- `TypeCorrect`, `SingleUse`, `GrantsAreHonest`, `LiarsCannotBlock` follow.
- `ImplementsLifecycle`: every step of the composition is a step of
  `ChallengeLifecycle` or a stutter under the refinement mapping.
- `NeverBlocks`: by `AskedOrDead`, a request over HTTP has asked the nodes or
  has a challenge that `consume` will refuse. A challenge dead at `peek` cannot
  come back, and the request keeps the loop from there to `consume`.
- `RefusalsHaveCauses`: by `GoneForAReason` (whatever left the table was spent,
  too late, or forgotten) and `HoldersPastClaim` (so the spender is another).
- `OutcomesOnLedger`: by `AuditInvariant`, no entry before a handler returns, one
  with it. `EntriesGrow` says what one append does to the entries of a request.

**The round on lists** (`PBFTRoundProofs`), for any finite set of fewer than
`2 * (2f+1)` peers (5 < 6), any assignment of nodes to them, any kinds of answer
and any order of arrival:

- `Invariance`: the messages of the round are the first proof of every node that
  answered (`FirstVotes`, `VotesOnce`, `AllHeard`), and what the round and the
  search decided is what `Majority` gives (`VerdictIsMajority`, `SearchIsFair`).
- `OrderFree`: a value that `Quorum` entries carry is carried by more than half
  of the list, so it is the most frequent one and no tie decides; the positions
  that carry it are one for each node that voted so.
- `ListsAgreeWithSets`: where every peer is a node of its own, the positions and
  the nodes are in bijection, so the majority of the list is a tally of `Ballots`
  and the first combination that rebuilds is one of its choices.
- `SecondVoteAgrees`: the list as it came holds every message of the round and is
  shorter than twice the quorum, so its majority has the same hash and H.

**Secret sharing** (`SecretSharingProofs`), for every prime, number of nodes below
it, threshold, polynomial, nonce and set of wrong answers. The module builds what
it needs from the definitions:

- Induction is the choice of a least counterexample (`LeastNatural`,
  `LeastSubset`), as the library's induction theorems take an operator. With it, the
  function that a fold chooses exists (`FoldExists`) and any member of the set may
  be taken in last (`FoldTakes`); folds may be split, renamed and scaled
  (`FoldPairwise`, `FoldRenamed`, `SumScales`).
- The tables are those of a field: `NoZeroDivisors` from the trial division that
  `SharingConstants` states, `Fermat` by reordering 1..P-1, hence `Inverses`: the
  power `P - 2` of `mod_inverse` is an inverse of everything but 0.
- Interpolation at 0 is linear (`InterpolateLinear`), and a factor `x - q` takes
  the position `q` out (`InterpolateRoot`). So 1 is interpolated by 1 and `x^k`, for
  `k` below the number of positions, by 0 (`InterpolateOne`, `InterpolatePower`),
  and shares by the secret (`Reconstruction`); no basis value is 0, so one wrong
  value shows (`OneValueMatters`).
- `Invariance` (the shares stay those of the polynomial drawn) and
  `RightAnswersOnly` follow.
- `FewSharesTellLittle`: there is a polynomial that vanishes at the given positions
  and not at 0 (`Vanishing`). The multiples of it that may be added to the one
  drawn give different secrets, and each coefficient forbids one at most.

**Registration** (`RegistrationProofs`), for any number of sessions, sign-ins, names, passwords, DIDs, nodes and kills:

- `Invariance`: the handler side (`HandlerInOrder`: what is stored by each step;
  `Unused`; `StoresInOrder`) is inductive by itself. The users' side follows from
  it by one lemma, `UsableKept`: an identity that can be used stays so and keeps
  its password, because only the keyfile of the DID in the making is written.
- `StoresFilledInOrder`, `NamesUsable`, `SignInsMeetIdentities` and
  `OwnPasswordOpens` follow.
- `ImplementsLifecycle`: the refinement needs besides that nobody was told of the
  DID in the making (`NotYetTold`), and that what is listed, held in the copy of
  a session, or found by a sign-in was told to the user of that name
  (`ListedWereTold`, `FoundWereTold`).

**Share stores** (`ShareStoresProofs`), for any number of nodes, DIDs and kills,
with and without liboqs:

- `Invariance`: the argument is the start gate. No node process runs before the
  coordinator has come up once, hence before every `store.key` exists
  (`NodesHeldBack`), so that only the coordinator, alone, creates one
  (`CreatesAlone`), and a key, torn or whole, once there never changes. A process
  past the load therefore has the key that is on disk (`KeysSettled`), and rows
  are written under it (`RowsHeld`).
- `ServableAlways` and `NeverLost` follow. The mutants `MayStartAtOnce` (no gate)
  and `GenerateStoreKeyAgain` show that neither part can be dropped.

**Tokens and keys** (`IdentityTokensProofs`): `Invariance`, with `FilesInOrder`
(what is in the files at each point of a start), `MemoryIsFiles` and `TokensFit`
(a token was signed by the key that is on disk); `NeverMixed`, `Honoured` and
`Expires` follow, for any clock rate, life of a token and number of kills.

**Ledger** (`LedgerProofs`), for any number of entries, cut-off appends, failing
commits and changes by another writer, with any texts:

- `Invariance`: the rows of the open transaction follow what is before them
  even when the chain is broken, and the first change was made to a chain that
  verified. `VerdictStands` and `HonestChainValid` are not inductive without the
  first part: a roll-back takes rows away, and only if they decided nothing does the
  verdict stand.
- `AppendsKeepVerdict`: entries that follow decide nothing at the end of a chain
  (`LongerChain`), so no append hides a broken entry, and no roll-back shows one.
- `HonestChainVerifies`: an append chains to the last row the connection sees, the
  uncommitted one of a failed commit included, and both become durable together.
- `HistoryBehindHash`, by `HistoryFixed`: two chains that verify and share one hash
  are the same up to it. A least counterexample would have, by injectivity, equal
  hashes before it as well, or one chain would begin where the other does not,
  which the hash of no entry being "0" * 64 rules out. What the theorem does not
  say is said in section 3: whoever rewrites the whole end of the chain, or adds to it,
  is not noticed, since the hash has no key and nothing outside the table records the
  last one.

Model-checked only: `EveryRequestEnds`, which is liveness under fairness and out of
the prover's reach, and the three refuted sentences, which are counterexamples.

## 6. What is abstracted or left out

- Signatures, hashes and encryption are perfect; `Sendable` lets a valid
  signature exist only for a registered DID and an issued challenge.
- All liars of one kind agree on one wrong value, the worst case for a vote.
  That several wrong values cancel out to the right secret has probability 1/P
  and is left out of `Ballots`; `SecretSharing` covers one wrong value exactly.
- Liars give the three kinds of answers that `node.py` and `tests/test_pbft.py`
  produce. An answer of another shape (a missing field, the `x` of another node)
  makes `authenticate()` raise; it is not among them, so `FailureMeansTooFewHonest`
  and `LiarsCannotBlock` say nothing about it. Of these, only one node behind two
  peer entries is modelled (`PBFTRound`).
- A nonce that hashes to 0 mod P is left out of `Ballots` and covered in
  `SecretSharing`.
- Floating-point time is a counter that may move between any two steps and never
  goes back, while `time.time()` may when the system clock is set: the deadlines and
  lifetimes shown assume that it is not;
  `NODE_TIMEOUT` is the freedom to give `None` at any time.
- One coordinator process writes the ledger, as in `docker-compose.yml`.
- Not modelled: `_cleanup_expired` (dead code), HKDF, Feldman commitments
  (stored, never read), the PQC wrappers beyond the failure of `kem_encapsulate`,
  the integrity hash of a share (decryption fails first on any change),
  `delete_share` and `has_share` (only tests call them), the token check after a
  sign-in, menus and printing, the demo script, images and ports.
- SQLite's locking between the coordinator and a node process is a failure the
  models allow at any time (`RegisterFails`, `NoAnswer`); that a reader sees only
  committed rows is taken from SQLite.
- Two coordinators on one data directory are left out: `docker-compose.yml` runs
  one.

## 7. Plan

Done: challenge, vote, authentication and its abstract specification; the round
on lists; sharing; ledger; tokens; registration with sign-ins and its abstract
specification; start-up and share stores; the proofs of section 5, which cover
every invariant, action property and refinement that the runs check.

Left, in this order:

1. Join the round on lists to `HonestThresholdDecides`: with `THRESHOLD` honest
   answers the search of `PBFTRound` finds a subset, whatever the order.
2. An abstract specification of the share stores that both `Registration` and
   `ShareStores` implement.
3. Fairness for `Registration` (the answer of the coordinator or the timeout of
   httpx ends every session) and the liveness of sessions under it.
