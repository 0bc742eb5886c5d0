----------------------------- MODULE Challenges -----------------------------
(***************************************************************************)
(* The challenge table of the coordinator                                  *)
(* (authentication/challenge.py, class ChallengeManager).                  *)
(*                                                                         *)
(* The nonce of a challenge is represented by its id: issue() draws both   *)
(* fresh and together, and nothing else links a nonce to anything.  The    *)
(* field "did" is left out because no code reads it back.  Time is a       *)
(* counter; a tick may fall between any two steps of the program.          *)
(* _cleanup_expired() is left out: nothing in the program calls it.        *)
(***************************************************************************)
EXTENDS Naturals, FiniteSets

CONSTANTS
  ChallengeIds,            \* the uuid4 values issue() may draw
  CHALLENGE_TTL_SECONDS,   \* life of a challenge, in ticks
  MaxTime                  \* BOUND: the clock stops here

ASSUME ChallengeConstants ==
  /\ CHALLENGE_TTL_SECONDS \in Nat
  /\ MaxTime \in Nat

VARIABLES
  now,         \* time.time()
  pending,     \* keys of the dict _pending
  issued,      \* ids handed to clients so far (history; a uuid4 never recurs)
  expires_at   \* expires_at of every id issued, kept after the entry is gone

challengeVars == <<now, pending, issued, expires_at>>

-----------------------------------------------------------------------------
ChallengeTypeOK ==
  /\ now \in Nat
  /\ issued \subseteq ChallengeIds
  /\ pending \subseteq issued
  /\ expires_at \in [ChallengeIds -> Nat]

ChallengeInit ==
  /\ now = 0
  /\ pending = {}
  /\ issued = {}
  /\ expires_at = [c \in ChallengeIds |-> 0]

-----------------------------------------------------------------------------
\* Mutant of Issue: the id of an earlier challenge is drawn again.
IssueRecurs(c) ==
  /\ pending' = pending \cup {c}
  /\ expires_at' = [expires_at EXCEPT ![c] = now + CHALLENGE_TTL_SECONDS]
  /\ UNCHANGED <<now, issued>>

(* issue(): a fresh id enters the table with its deadline. *)
Issue(c) ==
  /\ c \notin issued
  /\ issued' = issued \cup {c}
  /\ pending' = pending \cup {c}
  /\ expires_at' = [expires_at EXCEPT ![c] = now + CHALLENGE_TTL_SECONDS]
  /\ UNCHANGED now

Expired(c) == now > expires_at[c]

\* Mutant of Peeks: strict where consume() is not.
PeeksStrictly(c) == c \in pending /\ now < expires_at[c]

(* peek() returns the nonce; the entry stays. *)
Peeks(c) == c \in pending /\ ~Expired(c)

\* Mutants of Consumes: the deadline is left to peek(), or is exclusive.
ConsumesLate(c) == c \in pending

ConsumesStrictly(c) == c \in pending /\ now < expires_at[c]

(* consume() returns the nonce, and not None. *)
Consumes(c) == c \in pending /\ ~Expired(c)

\* Mutant of Consume: the del is forgotten.
ConsumeKeeps(c) == UNCHANGED <<now, pending, issued, expires_at>>

(* What consume() does to the table, whatever it returns: del _pending[c]. *)
Consume(c) ==
  /\ pending' = pending \ {c}
  /\ UNCHANGED <<now, issued, expires_at>>

(* The table is memory only: a restarted coordinator begins with none. *)
ForgetAll ==
  /\ pending' = {}
  /\ UNCHANGED <<now, issued, expires_at>>

Tick ==
  /\ now < MaxTime
  /\ now' = now + 1
  /\ UNCHANGED <<pending, issued, expires_at>>
=============================================================================
