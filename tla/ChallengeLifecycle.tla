-------------------------- MODULE ChallengeLifecycle --------------------------
(***************************************************************************)
(* What the coordinator promises about challenges, whatever it does inside: *)
(* a challenge is open from its issue on, is closed once, by one request    *)
(* before its deadline or by nobody, and only the request that closed it    *)
(* can be granted a token, once.                                            *)
(***************************************************************************)
EXTENDS Naturals

CONSTANTS
  Challenges,  \* all challenges
  Clients,     \* those who try to use them
  TTL          \* life of a challenge

VARIABLES
  clock,
  state,     \* of each challenge: "new", "open" or "closed"
  deadline,  \* of each challenge
  holders,   \* of each challenge: who closed it
  granted    \* clients with a token

vars == <<clock, state, deadline, holders, granted>>

Init ==
  /\ clock = 0
  /\ state = [c \in Challenges |-> "new"]
  /\ deadline = [c \in Challenges |-> 0]
  /\ holders = [c \in Challenges |-> {}]
  /\ granted = {}

Open(c) ==
  /\ state[c] = "new"
  /\ state' = [state EXCEPT ![c] = "open"]
  /\ deadline' = [deadline EXCEPT ![c] = clock + TTL]
  /\ UNCHANGED <<clock, holders, granted>>

(* In time, and by one client only. *)
Spend(c, k) ==
  /\ state[c] = "open"
  /\ clock <= deadline[c]
  /\ state' = [state EXCEPT ![c] = "closed"]
  /\ holders' = [holders EXCEPT ![c] = {k}]
  /\ UNCHANGED <<clock, deadline, granted>>

(* Nobody came in time. *)
Lapse(c) ==
  /\ state[c] = "open"
  /\ clock > deadline[c]
  /\ state' = [state EXCEPT ![c] = "closed"]
  /\ UNCHANGED <<clock, deadline, holders, granted>>

(* A restart forgets every open challenge; nothing else loses one. *)
Restart ==
  /\ state' = [c \in Challenges |-> IF state[c] = "open" THEN "closed" ELSE state[c]]
  /\ UNCHANGED <<clock, deadline, holders, granted>>

Grant(c, k) ==
  /\ k \in holders[c]
  /\ k \notin granted
  /\ granted' = granted \cup {k}
  /\ UNCHANGED <<clock, state, deadline, holders>>

Pass ==
  /\ clock' = clock + 1
  /\ UNCHANGED <<state, deadline, holders, granted>>

Next ==
  \/ \E c \in Challenges : Open(c) \/ Lapse(c)
  \/ \E c \in Challenges, k \in Clients : Spend(c, k) \/ Grant(c, k)
  \/ Restart
  \/ Pass

Spec == Init /\ [][Next]_vars
=============================================================================
