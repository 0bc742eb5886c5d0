--------------------------- MODULE IdentityLifecycle ---------------------------
(***************************************************************************)
(* What registration promises about identities, whatever fails inside: one *)
(* is in the making at a time, is whole or abandoned for ever, and is told *)
(* at most once, whole, to the user of one name.  The directory of names   *)
(* may forget, but never gives a name what its user was not told, and a    *)
(* user presents only what the user was told.                              *)
(***************************************************************************)
CONSTANTS
  Identities,
  Names,
  Nobody       \* of a name the directory does not know

VARIABLES
  state,      \* of each identity: "new", "making", "whole" or "abandoned"
  told,       \* of each name: the identities its user was told
  directory,  \* of each name: an identity or Nobody
  presented   \* pairs of a name and the identity its user signed in with

vars == <<state, told, directory, presented>>

Init ==
  /\ state = [d \in Identities |-> "new"]
  /\ told = [u \in Names |-> {}]
  /\ directory = [u \in Names |-> Nobody]
  /\ presented = {}

Become(d, from, to) ==
  /\ state[d] = from
  /\ state' = [state EXCEPT ![d] = to]
  /\ UNCHANGED <<told, directory, presented>>

Begin(d) ==
  /\ \A e \in Identities : state[e] # "making"
  /\ Become(d, "new", "making")

Complete(d) == Become(d, "making", "whole")

Abandon(d) == Become(d, "making", "abandoned")

Tell(u, d) ==
  /\ state[d] = "whole"
  /\ \A v \in Names : d \notin told[v]
  /\ told' = [told EXCEPT ![u] = @ \cup {d}]
  /\ UNCHANGED <<state, directory, presented>>

(* The directory is rewritten, with names of its own choice. *)
Save ==
  /\ directory' \in [Names -> Identities \cup {Nobody}]
  /\ \A u \in Names : directory'[u] \in told[u] \cup {Nobody}
  /\ UNCHANGED <<state, told, presented>>

Present(u, d) ==
  /\ d \in told[u]
  /\ presented' = presented \cup {<<u, d>>}
  /\ UNCHANGED <<state, told, directory>>

Next ==
  \/ \E d \in Identities : Begin(d) \/ Complete(d) \/ Abandon(d)
  \/ \E u \in Names, d \in Identities : Tell(u, d) \/ Present(u, d)
  \/ Save

Spec == Init /\ [][Next]_vars
=============================================================================
