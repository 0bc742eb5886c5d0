-------------------------------- MODULE Ledger --------------------------------
(***************************************************************************)
(* The hash chain in SQLite (ledger/ledger.py): append and verify_chain,   *)
(* with a kill of the process in the middle of an append, a commit that    *)
(* raises and leaves its row in the open transaction, and changes of the   *)
(* database behind the program's back, by somebody who can compute hashes. *)
(*                                                                         *)
(* SHA-3 is taken to be injective: the hash of a row is what is hashed.    *)
(* The columns are sequences of letters, because what is hashed is their   *)
(* concatenation; a timestamp stands for its repr.                         *)
(***************************************************************************)
EXTENDS Naturals, Sequences, SequencesExt

CONSTANTS
  EntryTypes,  \* values of entry_type the program appends
  Dids,        \* values of did the program appends
  Data,        \* values of data_json the program appends
  Times,       \* reprs of time.time(), in any order
  Edits,       \* a record: the values a change may leave in each column
  MaxRows,     \* BOUND: entries
  MaxChanges   \* BOUND: statements behind the program's back

VARIABLES
  rows,       \* the table entries, by id
  inserted,   \* rows inserted and not committed, a list
  changes,    \* how many times the table was changed behind the program's back
  original    \* the table before the first of these changes

vars == <<rows, inserted, changes, original>>

Init ==
  /\ rows = << >>
  /\ inserted = << >>
  /\ changes = 0
  /\ original = << >>

-----------------------------------------------------------------------------
\* "0" * 64
Genesis == << >>

\* Mutant of compute_hash: the previous hash is left out.
compute_hash_alone(previous_hash, entry_type, did, data_json, timestamp) ==
  <<Genesis, entry_type \o did \o data_json \o timestamp>>

(* _compute_hash: the previous hash has a fixed width, all that follows runs *)
(* into one another, repr(timestamp) included.                               *)
compute_hash(previous_hash, entry_type, did, data_json, timestamp) ==
  <<previous_hash, entry_type \o did \o data_json \o timestamp>>

(* A row whose entry_hash is that of its other columns.                      *)
HashedRow(previous_hash, entry_type, did, data_json, timestamp) ==
  [entry_type |-> entry_type, did |-> did, data_json |-> data_json, timestamp |-> timestamp,
   entry_hash |-> compute_hash(previous_hash, entry_type, did, data_json, timestamp),
   previous_hash |-> previous_hash]

(* What a SELECT of the program sees: its own open transaction as well.      *)
entries == rows \o inserted

\* Mutant of last_hash: what is not committed is not seen.
committed_hash == IF rows = << >> THEN Genesis ELSE Last(rows).entry_hash

\* Mutant of last_hash: without DESC.
first_hash == IF entries = << >> THEN Genesis ELSE Head(entries).entry_hash

last_hash == IF entries = << >> THEN Genesis ELSE Last(entries).entry_hash

(* append() up to the INSERT; an append before it may have raised at commit. *)
Insert(entry_type, did, data_json, timestamp) ==
  /\ Len(entries) < MaxRows
  /\ inserted' = Append(inserted, HashedRow(last_hash, entry_type, did, data_json, timestamp))
  /\ UNCHANGED <<rows, changes, original>>

(* append(): the commit, of everything the transaction holds.                *)
Commit ==
  /\ inserted # << >>
  /\ rows' = entries
  /\ inserted' = << >>
  /\ UNCHANGED <<changes, original>>

(* Killed before the commit: SQLite rolls back and the rows are gone.        *)
Crash ==
  /\ inserted # << >>
  /\ inserted' = << >>
  /\ UNCHANGED <<rows, changes, original>>

-----------------------------------------------------------------------------
(* verify_chain() *)

Linked(list, i) ==
  list[i].previous_hash = IF i = 1 THEN Genesis ELSE list[i - 1].entry_hash

Rehashes(list, i) ==
  list[i].entry_hash = compute_hash(list[i].previous_hash, list[i].entry_type,
                                    list[i].did, list[i].data_json, list[i].timestamp)

\* Mutant of Verifies: only the newest entry is looked at.
VerifiesNewest(list) ==
  list # << >> => Linked(list, Len(list)) /\ Rehashes(list, Len(list))

Verifies(list) == \A i \in DOMAIN list : Linked(list, i) /\ Rehashes(list, i)

verify_chain == Verifies(entries)

-----------------------------------------------------------------------------
(* Changes behind the program's back. SQLite admits them only while the      *)
(* program has no row of its own in an open transaction.                     *)

Change(table) ==
  /\ inserted = << >>
  /\ changes < MaxChanges
  /\ rows' = table
  /\ changes' = changes + 1
  /\ original' = IF changes = 0 THEN rows ELSE original
  /\ UNCHANGED inserted

Hashes == {Genesis} \cup {rows[i].entry_hash : i \in DOMAIN rows}

(* Rows with a new hash that are put behind some row of the table.           *)
Forged ==
  {HashedRow(previous_hash, entry_type, did, data_json, timestamp) :
     previous_hash \in Hashes, entry_type \in Edits.entry_type, did \in Edits.did,
     data_json \in Edits.data_json, timestamp \in Edits.timestamp}

(* UPDATE entries SET any columns WHERE id = i: entry_hash is set to fit, or *)
(* is left as it was.                                                        *)
Update(i) ==
  \E row \in Forged \cup {[row EXCEPT !.entry_hash = rows[i].entry_hash] : row \in Forged} :
    /\ row # rows[i]
    /\ Change([rows EXCEPT ![i] = row])

(* INSERT INTO entries, at any free id: the new row becomes the i-th.        *)
InsertRow(i) ==
  /\ Len(rows) < MaxRows
  /\ \E row \in Forged : Change(InsertAt(rows, i, row))

(* DELETE FROM entries WHERE id = i                                          *)
Delete(i) == Change(RemoveAt(rows, i))

Next ==
  \/ \E entry_type \in EntryTypes, did \in Dids, data_json \in Data, timestamp \in Times :
       Insert(entry_type, did, data_json, timestamp)
  \/ Commit
  \/ Crash
  \/ \E i \in DOMAIN rows : Update(i) \/ Delete(i)
  \/ \E i \in 1..(Len(rows) + 1) : InsertRow(i)

Spec == Init /\ [][Next]_vars

-----------------------------------------------------------------------------
(* Properties. *)

(* What append() alone has written verifies, whatever appends were cut off   *)
(* or left their row to the next one's commit.                               *)
HonestChainValid == changes = 0 => verify_chain

(* No append, failing commit or kill changes the verdict of verify_chain: a  *)
(* broken chain is never hidden, nor a sound one broken, by what follows.    *)
VerdictStands == [][changes' = changes => (verify_chain' <=> verify_chain)]_vars

Text(row) == row.entry_type \o row.did \o row.data_json \o row.timestamp

(* verify_chain cannot tell who wrote a chain, because hashes have no key. But *)
(* a hash fixes the history before it: if the changed table verifies and one   *)
(* hash of the original chain is in it, at whatever position, that is its old  *)
(* position, and no entry up to it hashes another text than it did. So an      *)
(* entry cannot be changed, lost or put in without new hashes for every entry  *)
(* after it.                                                                   *)
HashFixesHistory ==
  verify_chain =>
    \A i \in DOMAIN entries, j \in DOMAIN original :
      entries[i].entry_hash = original[j].entry_hash =>
        /\ i = j
        /\ \A k \in 1..i : Text(entries[k]) = Text(original[k])

(* What makes the three inductive. The rows of the open transaction follow   *)
(* what is before them even in a broken chain, so a roll-back or a commit    *)
(* leaves the verdict; and the chain the changes started from was sound.     *)
InductiveInvariant ==
  /\ HonestChainValid
  /\ \A i \in DOMAIN entries : i > Len(rows) => Linked(entries, i) /\ Rehashes(entries, i)
  /\ Verifies(original)

(* SYSTEM_EXPLAINER.md:505, "Tampering with any historical entry changes its  *)
(* hash, which breaks the chain for every subsequent entry", and ledger.py:5: *)
(* a chain in which one entry before the last was changed, and nothing else,  *)
(* does not verify. Where one column ends and the next begins is not hashed.  *)
TamperingBreaksChain ==
  \A i \in 1..(Len(original) - 1) :
    (/\ Len(rows) = Len(original)
     /\ rows[i] # original[i]
     /\ \A j \in DOMAIN rows \ {i} : rows[j] = original[j])
      => ~verify_chain
=============================================================================
