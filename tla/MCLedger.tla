------------------------------- MODULE MCLedger -------------------------------
(* Values of Ledger.tla for TLC: columns are spelled in letters.           *)
EXTENDS Ledger

MCEntryTypes == {<<"r">>}

MCDids == {<<"d", "1">>}

MCData == {<<"x">>, <<"y">>}

MCTimes == {<<"2", "1">>}

\* A change may also move the first letter of a timestamp to the end of the data.
MCEdits == [entry_type |-> MCEntryTypes, did |-> MCDids,
            data_json |-> MCData \cup {<<"x", "2">>},
            timestamp |-> MCTimes \cup {<<"1">>}]
=============================================================================
