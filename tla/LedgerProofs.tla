------------------------------ MODULE LedgerProofs ------------------------------
(***************************************************************************)
(* Theorems about Ledger.tla, for every set of texts, DIDs and clock       *)
(* values, any number of rows and any number of changes of the database.   *)
(***************************************************************************)
EXTENDS Ledger, SequenceTheorems, WellFoundedInduction, TLAPS

LEMMA LeastNatural ==
  ASSUME NEW S \in SUBSET Nat, S # {}
  PROVE  \E m \in S : \A n \in S : m <= n
<1>1. PICK m \in S : \A n \in S : ~(<<n, m>> \in OpToRel(<, Nat))
  BY NatLessThanWellFounded, WFMin
<1>2. ASSUME NEW n \in S PROVE m <= n
  <2>1. <<n, m>> \in Nat \X Nat /\ <<n, m>>[1] = n /\ <<n, m>>[2] = m
    OBVIOUS
  <2>2. ~(n < m)
    BY <1>1, <2>1 DEF OpToRel
  <2> QED
    BY <2>2
<1> QED
  BY <1>2

-----------------------------------------------------------------------------
(* verify_chain on a list.                                                   *)

(* One round of the loop of verify_chain.                                    *)
Follows(list, i) == Linked(list, i) /\ Rehashes(list, i)

LEMMA VerifiesIsFollows ==
  ASSUME NEW list
  PROVE  Verifies(list) <=> \A i \in DOMAIN list : Follows(list, i)
  BY DEF Verifies, Follows

(* Follows looks at an entry and the one before it, so that entries which    *)
(* follow one another decide nothing at the end of a list.                   *)
LEMMA LongerChain ==
  ASSUME NEW V, NEW short \in Seq(V), NEW long \in Seq(V), Len(short) <= Len(long),
         \A i \in 1..Len(short) : short[i] = long[i],
         \A i \in DOMAIN long : i > Len(short) => Follows(long, i)
  PROVE  Verifies(long) <=> Verifies(short)
<1>1. ASSUME NEW i \in 1..Len(short) PROVE Follows(long, i) <=> Follows(short, i)
  <2>1. short[i] = long[i] /\ (i # 1 => short[i - 1] = long[i - 1])
    OBVIOUS
  <2> QED
    BY <2>1 DEF Follows, Linked, Rehashes
<1>2. DOMAIN short = 1..Len(short) /\ DOMAIN long = 1..Len(long)
  OBVIOUS
<1>3. \A i \in DOMAIN long : i \in 1..Len(short) \/ i > Len(short)
  BY <1>2
<1>4. 1..Len(short) \subseteq DOMAIN long
  BY <1>2
<1> QED
  BY <1>1, <1>2, <1>3, <1>4, VerifiesIsFollows

(* A hash tells the entry it is of, and the hash before.                     *)
LEMMA HashTells ==
  ASSUME NEW a, NEW b, NEW i, NEW j, Rehashes(a, i), Rehashes(b, j),
         a[i].entry_hash = b[j].entry_hash
  PROVE  a[i].previous_hash = b[j].previous_hash /\ Text(a[i]) = Text(b[j])
<1>1. /\ a[i].entry_hash = <<a[i].previous_hash, Text(a[i])>>
      /\ b[j].entry_hash = <<b[j].previous_hash, Text(b[j])>>
  BY DEF Rehashes, compute_hash, Text
<1>2. \A p, q, t, u : <<p, t>> = <<q, u>> => p = q /\ t = u
  OBVIOUS
<1>3. <<a[i].previous_hash, Text(a[i])>> = <<b[j].previous_hash, Text(b[j])>>
  BY <1>1
<1> QED
  BY <1>2, <1>3

LEMMA HashIsNotGenesis ==
  ASSUME NEW a, NEW i, Rehashes(a, i)
  PROVE  a[i].entry_hash # Genesis
  BY DEF Rehashes, compute_hash, Genesis

(* Two chains that verify and have one hash in common are the same up to it. *)
LEMMA HistoryFixed ==
  ASSUME NEW V, NEW a \in Seq(V), NEW b \in Seq(V), Verifies(a), Verifies(b)
  PROVE  \A i \in DOMAIN a, j \in DOMAIN b :
           a[i].entry_hash = b[j].entry_hash =>
             i = j /\ \A k \in 1..i : Text(a[k]) = Text(b[k])
<1> DEFINE Same(i, j) == i = j /\ \A k \in 1..i : Text(a[k]) = Text(b[k])
           bad == {i \in DOMAIN a : \E j \in DOMAIN b :
                     a[i].entry_hash = b[j].entry_hash /\ ~Same(i, j)}
<1> SUFFICES ASSUME bad # {} PROVE FALSE
  OBVIOUS
<1>1. bad \in SUBSET Nat
  OBVIOUS
<1>2. PICK m \in bad : \A n \in bad : m <= n
  BY <1>1, LeastNatural
<1>3. PICK j \in DOMAIN b : a[m].entry_hash = b[j].entry_hash /\ ~Same(m, j)
  OBVIOUS
<1>4. m \in 1..Len(a) /\ j \in 1..Len(b)
  OBVIOUS
<1>5. /\ \A i \in 1..Len(a) : Linked(a, i) /\ Rehashes(a, i)
      /\ \A i \in 1..Len(b) : Linked(b, i) /\ Rehashes(b, i)
  BY DEF Verifies
<1>6. a[m].previous_hash = b[j].previous_hash /\ Text(a[m]) = Text(b[j])
  BY <1>3, <1>4, <1>5, HashTells
<1>7. CASE m = 1 /\ j = 1
  BY <1>3, <1>6, <1>7
<1>8. CASE m = 1 /\ j # 1
  <2>1. a[m].previous_hash = Genesis /\ b[j].previous_hash = b[j - 1].entry_hash
    BY <1>4, <1>5, <1>8 DEF Linked
  <2>2. b[j - 1].entry_hash # Genesis
    BY <1>4, <1>5, <1>8, HashIsNotGenesis
  <2> QED
    BY <1>6, <2>1, <2>2
<1>9. CASE m # 1 /\ j = 1
  <2>1. b[j].previous_hash = Genesis /\ a[m].previous_hash = a[m - 1].entry_hash
    BY <1>4, <1>5, <1>9 DEF Linked
  <2>2. a[m - 1].entry_hash # Genesis
    BY <1>4, <1>5, <1>9, HashIsNotGenesis
  <2> QED
    BY <1>6, <2>1, <2>2
<1>10. CASE m # 1 /\ j # 1
  <2>1. m - 1 \in DOMAIN a /\ j - 1 \in DOMAIN b /\ ~(m <= m - 1)
    BY <1>4, <1>10
  <2>2. a[m - 1].entry_hash = b[j - 1].entry_hash
    BY <1>4, <1>5, <1>6, <1>10 DEF Linked
  <2>3. m - 1 \notin bad
    BY <1>2, <2>1
  <2>4. Same(m - 1, j - 1)
    BY <2>1, <2>2, <2>3
  <2>5. m = j
    BY <1>4, <2>4
  <2>6. \A k \in 1..m : k = m \/ k \in 1..(m - 1)
    BY <1>4
  <2>7. \A k \in 1..m : Text(a[k]) = Text(b[k])
    BY <1>6, <2>4, <2>5, <2>6
  <2> QED
    BY <1>3, <2>5, <2>7
<1> QED
  BY <1>7, <1>8, <1>9, <1>10

-----------------------------------------------------------------------------
(* The steps of Next. *)

Tables ==
  /\ \E V : rows \in Seq(V) /\ inserted \in Seq(V) /\ original \in Seq(V)
  /\ changes \in Nat

Invariant == Tables /\ InductiveInvariant

LEMMA EntriesAreRows ==
  ASSUME NEW V, NEW r \in Seq(V), NEW o \in Seq(V)
  PROVE  /\ r \o o \in Seq(V)
         /\ Len(r \o o) = Len(r) + Len(o)
         /\ Len(r) <= Len(r \o o)
         /\ \A i \in 1..Len(r) : r[i] = (r \o o)[i]
         /\ r \o << >> = r
  OBVIOUS

LEMMA InvariantInit == Init => Invariant
<1> SUFFICES ASSUME Init PROVE Invariant
  OBVIOUS
<1>1. rows \in Seq({}) /\ inserted \in Seq({}) /\ original \in Seq({}) /\ changes \in Nat
  BY DEF Init
<1>2. entries = << >> /\ original = << >>
  BY <1>1 DEF Init, entries
<1> QED
  BY <1>1, <1>2 DEF Invariant, Tables, InductiveInvariant, HonestChainValid, verify_chain, Verifies

(* What an append, a failing commit and a kill do: the table stays one, what *)
(* is open follows, and the verdict stands.                                  *)
OwnStep ==
  /\ UNCHANGED <<changes, original>>
  /\ Invariant'
  /\ verify_chain' <=> verify_chain

LEMMA OwnStepSuffices ==
  ASSUME Invariant, UNCHANGED <<changes, original>>,
         NEW V, rows' \in Seq(V), inserted' \in Seq(V), original \in Seq(V),
         \A i \in DOMAIN entries' : i > Len(rows') => Follows(entries', i),
         Verifies(entries') <=> Verifies(entries)
  PROVE  OwnStep
<1>1. verify_chain' <=> verify_chain
  BY DEF verify_chain, Verifies, Linked, Rehashes
<1>2. HonestChainValid'
  BY <1>1 DEF Invariant, InductiveInvariant, HonestChainValid
<1>3. Verifies(original)'
  BY DEF Invariant, InductiveInvariant, Verifies, Linked, Rehashes
<1>4. (\A i \in DOMAIN entries : i > Len(rows) => Linked(entries, i) /\ Rehashes(entries, i))'
  BY DEF Follows, Linked, Rehashes
<1> QED
  BY <1>1, <1>2, <1>3, <1>4 DEF OwnStep, Invariant, Tables, InductiveInvariant

LEMMA InsertKeeps ==
  ASSUME Invariant, NEW entry_type \in EntryTypes, NEW did \in Dids, NEW data_json \in Data,
         NEW timestamp \in Times, Insert(entry_type, did, data_json, timestamp)
  PROVE  OwnStep
<1> DEFINE e == HashedRow(last_hash, entry_type, did, data_json, timestamp)
<1>0. PICK V : rows \in Seq(V) /\ inserted \in Seq(V) /\ original \in Seq(V)
  BY DEF Invariant, Tables
<1> DEFINE W == V \cup {e}
<1>1. rows' = rows /\ inserted' = Append(inserted, e) /\ UNCHANGED <<changes, original>>
  BY DEF Insert
<1>2. /\ e.previous_hash = last_hash
      /\ e.entry_hash = compute_hash(e.previous_hash, e.entry_type, e.did, e.data_json, e.timestamp)
  BY DEF HashedRow
<1>3. e \in W
  OBVIOUS
<1>4. rows \in Seq(W) /\ inserted \in Seq(W) /\ original \in Seq(W)
  BY <1>0, SeqMonotonic
<1> HIDE DEF e, W
<1>5. entries \in Seq(W) /\ Len(entries) = Len(rows) + Len(inserted)
  BY <1>4 DEF entries
<1>6. rows' \in Seq(W) /\ inserted' \in Seq(W) /\ entries' = Append(entries, e)
  BY <1>1, <1>3, <1>4 DEF entries
<1>7. /\ entries' \in Seq(W) /\ Len(entries') = Len(entries) + 1
      /\ DOMAIN entries' = 1..(Len(entries) + 1)
      /\ entries'[Len(entries) + 1] = e
      /\ \A i \in 1..Len(entries) : entries[i] = entries'[i]
  BY <1>3, <1>5, <1>6
<1>8. last_hash = IF Len(entries) = 0 THEN Genesis ELSE entries[Len(entries)].entry_hash
  BY <1>5 DEF last_hash, Last
<1>9. Follows(entries', Len(entries) + 1)
  <2>1. Len(entries) # 0 => entries'[Len(entries) + 1 - 1] = entries[Len(entries)]
    BY <1>5, <1>7
  <2> QED
    BY <1>2, <1>5, <1>7, <1>8, <2>1 DEF Follows, Linked, Rehashes
<1>10. \A i \in DOMAIN entries' : i > Len(entries) => Follows(entries', i)
  BY <1>5, <1>7, <1>9
<1>11. Verifies(entries') <=> Verifies(entries)
  <2>1. Len(entries) <= Len(entries')
    BY <1>5, <1>7
  <2> QED
    BY <1>5, <1>7, <1>10, <2>1, LongerChain
<1>12. ASSUME NEW i \in DOMAIN entries', i > Len(rows') PROVE Follows(entries', i)
  <2>1. CASE i > Len(entries)
    BY <1>10, <2>1
  <2>2. CASE i <= Len(entries)
    <3>1. i \in DOMAIN entries /\ i > Len(rows)
      BY <1>1, <1>5, <1>7, <1>12, <2>2
    <3>2. Follows(entries, i)
      BY <3>1 DEF Invariant, InductiveInvariant, Follows
    <3>3. entries[i] = entries'[i] /\ (i # 1 => entries[i - 1] = entries'[i - 1])
      BY <1>5, <1>7, <3>1
    <3> QED
      BY <3>2, <3>3 DEF Follows, Linked, Rehashes
  <2> QED
    BY <1>5, <1>7, <2>1, <2>2
<1> QED
  BY <1>1, <1>4, <1>6, <1>11, <1>12, OwnStepSuffices

LEMMA CommitKeeps ==
  ASSUME Invariant, Commit
  PROVE  OwnStep
<1>0. PICK V : rows \in Seq(V) /\ inserted \in Seq(V) /\ original \in Seq(V)
  BY DEF Invariant, Tables
<1>1. rows' = entries /\ inserted' = << >> /\ UNCHANGED <<changes, original>>
  BY DEF Commit
<1>2. entries \in Seq(V)
  BY <1>0 DEF entries
<1>3. rows' \in Seq(V) /\ inserted' \in Seq(V) /\ entries' = entries
  BY <1>1, <1>2 DEF entries
<1>4. \A i \in DOMAIN entries' : ~(i > Len(rows'))
  BY <1>1, <1>2, <1>3
<1> QED
  BY <1>0, <1>1, <1>3, <1>4, OwnStepSuffices

LEMMA CrashKeeps ==
  ASSUME Invariant, Crash
  PROVE  OwnStep
<1>0. PICK V : rows \in Seq(V) /\ inserted \in Seq(V) /\ original \in Seq(V)
  BY DEF Invariant, Tables
<1>1. rows' = rows /\ inserted' = << >> /\ UNCHANGED <<changes, original>>
  BY DEF Crash
<1>2. rows' \in Seq(V) /\ inserted' \in Seq(V) /\ entries' = rows
  BY <1>0, <1>1 DEF entries
<1>3. entries \in Seq(V) /\ Len(rows) <= Len(entries) /\ \A i \in 1..Len(rows) : rows[i] = entries[i]
  BY <1>0, EntriesAreRows DEF entries
<1>4. \A i \in DOMAIN entries : i > Len(rows) => Follows(entries, i)
  BY DEF Invariant, InductiveInvariant, Follows
<1>5. Verifies(entries) <=> Verifies(rows)
  BY <1>0, <1>3, <1>4, LongerChain
<1>6. \A i \in DOMAIN entries' : ~(i > Len(rows'))
  BY <1>0, <1>1, <1>2
<1> QED
  BY <1>0, <1>1, <1>2, <1>5, <1>6, OwnStepSuffices

(* What is left of the invariant after a change is that the first one was    *)
(* made to a sound chain.                                                    *)
LEMMA ChangeKeeps ==
  ASSUME Invariant, NEW V, rows \in Seq(V), original \in Seq(V), NEW table \in Seq(V),
         Change(table)
  PROVE  Invariant' /\ changes' # changes
<1>1. /\ inserted = << >> /\ inserted' = << >> /\ rows' = table
      /\ changes \in Nat /\ changes' = changes + 1
      /\ original' = IF changes = 0 THEN rows ELSE original
  BY DEF Change, Invariant, Tables
<1>2. entries = rows /\ entries' = table
  BY <1>1 DEF entries
<1>3. changes' \in Nat /\ changes' # 0 /\ changes' # changes
  BY <1>1
<1>4. Tables'
  BY <1>1, <1>3 DEF Tables
<1>5. Verifies(original')
  BY <1>1, <1>2 DEF Invariant, InductiveInvariant, HonestChainValid, verify_chain
<1>6. Verifies(original)'
  BY <1>5 DEF Verifies, Linked, Rehashes
<1>7. \A i \in DOMAIN entries' : ~(i > Len(rows'))
  BY <1>1, <1>2
<1>8. HonestChainValid'
  BY <1>3 DEF HonestChainValid
<1> QED
  BY <1>3, <1>4, <1>6, <1>7, <1>8 DEF Invariant, InductiveInvariant

LEMMA TamperKeeps ==
  ASSUME Invariant,
         \/ \E i \in DOMAIN rows : Update(i) \/ Delete(i)
         \/ \E i \in 1..(Len(rows) + 1) : InsertRow(i)
  PROVE  Invariant' /\ changes' # changes
<1>0. PICK V : rows \in Seq(V) /\ inserted \in Seq(V) /\ original \in Seq(V)
  BY DEF Invariant, Tables
<1>1. ASSUME NEW i \in DOMAIN rows, Update(i) PROVE Invariant' /\ changes' # changes
  <2>1. PICK row : Change([rows EXCEPT ![i] = row])
    BY <1>1 DEF Update
  <2> DEFINE W == V \cup {row}
  <2>2. rows \in Seq(W) /\ original \in Seq(W)
    BY <1>0, SeqMonotonic
  <2>3. [rows EXCEPT ![i] = row] \in Seq(W)
    BY <2>2
  <2> QED
    BY <2>1, <2>2, <2>3, ChangeKeeps
<1>2. ASSUME NEW i \in DOMAIN rows, Delete(i) PROVE Invariant' /\ changes' # changes
  <2>1. Change(SubSeq(rows, 1, i - 1) \o SubSeq(rows, i + 1, Len(rows)))
    BY <1>2 DEF Delete, RemoveAt
  <2>2. SubSeq(rows, 1, i - 1) \in Seq(V) /\ SubSeq(rows, i + 1, Len(rows)) \in Seq(V)
    BY <1>0, SubSeqProperties
  <2>3. SubSeq(rows, 1, i - 1) \o SubSeq(rows, i + 1, Len(rows)) \in Seq(V)
    BY <2>2, ConcatProperties
  <2> QED
    BY <1>0, <2>1, <2>3, ChangeKeeps
<1>3. ASSUME NEW i \in 1..(Len(rows) + 1), InsertRow(i) PROVE Invariant' /\ changes' # changes
  <2>1. PICK row : Change(SubSeq(rows, 1, i - 1) \o <<row>> \o SubSeq(rows, i, Len(rows)))
    BY <1>3 DEF InsertRow, InsertAt
  <2> DEFINE W == V \cup {row}
  <2>2. rows \in Seq(W) /\ original \in Seq(W) /\ <<row>> \in Seq(W)
    BY <1>0, SeqMonotonic
  <2> HIDE DEF W
  <2>3. SubSeq(rows, 1, i - 1) \in Seq(W) /\ SubSeq(rows, i, Len(rows)) \in Seq(W)
    BY <2>2, SubSeqProperties
  <2>4. SubSeq(rows, 1, i - 1) \o <<row>> \o SubSeq(rows, i, Len(rows)) \in Seq(W)
    BY <2>2, <2>3, ConcatProperties
  <2> QED
    BY <2>1, <2>2, <2>4, ChangeKeeps
<1> QED
  BY <1>1, <1>2, <1>3

LEMMA InvariantNext ==
  ASSUME Invariant, [Next]_vars
  PROVE  Invariant' /\ (changes' = changes => (verify_chain' <=> verify_chain))
<1>1. ASSUME NEW entry_type \in EntryTypes, NEW did \in Dids, NEW data_json \in Data,
             NEW timestamp \in Times, Insert(entry_type, did, data_json, timestamp)
      PROVE  OwnStep
  BY <1>1, InsertKeeps
<1>2. CASE \/ \E i \in DOMAIN rows : Update(i) \/ Delete(i)
           \/ \E i \in 1..(Len(rows) + 1) : InsertRow(i)
  BY <1>2, TamperKeeps
<1>3. CASE UNCHANGED vars
  <2>1. entries' = entries
    BY <1>3 DEF vars, entries
  <2> QED
    BY <1>3, <2>1
    DEF vars, Invariant, Tables, InductiveInvariant, HonestChainValid, verify_chain, Verifies,
        Linked, Rehashes
<1>4. CASE OwnStep
  BY <1>4 DEF OwnStep
<1> QED
  BY <1>1, <1>2, <1>3, <1>4, CommitKeeps, CrashKeeps DEF Next

-----------------------------------------------------------------------------
(* The rows of the open transaction follow what is before them, in a sound    *)
(* chain or a broken one, and the chain any change started from verified.     *)
THEOREM Invariance == Spec => []InductiveInvariant
<1>1. Invariant => InductiveInvariant
  BY DEF Invariant
<1> QED
  BY InvariantInit, InvariantNext, <1>1, PTL DEF Spec

(* What append() alone has written verifies, whatever was cut off or left to *)
(* a later commit.                                                           *)
THEOREM HonestChainVerifies == Spec => []HonestChainValid
<1>1. InductiveInvariant => HonestChainValid
  BY DEF InductiveInvariant
<1> QED
  BY Invariance, <1>1, PTL

(* Appends, failing commits and kills leave the verdict of verify_chain as it *)
(* is, so that a broken entry is not hidden by what is appended behind it.    *)
THEOREM AppendsKeepVerdict == Spec => VerdictStands
<1>1. Invariant /\ [Next]_vars => [changes' = changes => (verify_chain' <=> verify_chain)]_vars
  BY InvariantNext
<1> QED
  BY InvariantInit, InvariantNext, <1>1, PTL DEF Spec, VerdictStands

(* A table that verifies after any number of changes has, up to any hash of   *)
(* the original chain that is left in it, the original texts at their places. *)
THEOREM HistoryBehindHash == Spec => []HashFixesHistory
<1>1. Invariant => HashFixesHistory
  <2> SUFFICES ASSUME Invariant, verify_chain
               PROVE  \A i \in DOMAIN entries, j \in DOMAIN original :
                        entries[i].entry_hash = original[j].entry_hash =>
                          i = j /\ \A k \in 1..i : Text(entries[k]) = Text(original[k])
    BY DEF HashFixesHistory
  <2>1. PICK V : rows \in Seq(V) /\ inserted \in Seq(V) /\ original \in Seq(V)
    BY DEF Invariant, Tables
  <2>2. entries \in Seq(V)
    BY <2>1 DEF entries
  <2>3. Verifies(entries) /\ Verifies(original)
    BY DEF verify_chain, Invariant, InductiveInvariant
  <2> QED
    BY <2>1, <2>2, <2>3, HistoryFixed
<1> QED
  BY InvariantInit, InvariantNext, <1>1, PTL DEF Spec
=============================================================================
