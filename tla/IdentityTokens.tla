----------------------------- MODULE IdentityTokens -----------------------------
(***************************************************************************)
(* Identity assertion tokens and the key pair that signs them              *)
(* (authentication/iat.py), over kills and restarts of the coordinator.    *)
(*                                                                         *)
(* A pair is a number, its generation; a file or a variable holds one, or  *)
(* Torn (opened for writing, not complete), or None.  Signatures are       *)
(* perfect: a token verifies under the generation that signed it only.     *)
(* sub, jti, quorum and iss come back as they went in and are left out.    *)
(***************************************************************************)
EXTENDS Naturals

CONSTANTS
  None, Torn,
  IAT_TTL_SECONDS,
  TicksPerSecond,   \* resolution of time.time(); issue() has whole seconds
  MaxTime,          \* BOUND: the clock stops here, in ticks
  MaxKills          \* BOUND: kills of the coordinator

ASSUME TokenConstants ==
  /\ None \notin Nat /\ Torn \notin Nat /\ None # Torn
  /\ IAT_TTL_SECONDS \in Nat \ {0}
  /\ TicksPerSecond \in Nat \ {0}
  /\ MaxTime \in Nat
  /\ MaxKills \in Nat

VARIABLES
  now,          \* time.time(), in ticks
  stage,        \* of the process: "down", "init", "generating" (see writing), "up"
  writing,      \* the write of init_system_keys under way
  system_key,   \* file system.key
  system_pub,   \* file system.pub
  private_key,  \* _system_private_key, or the new pair before it is assigned
  public_key,   \* _system_public_key
  generations,  \* pairs generated so far (history)
  tokens,       \* tokens issued
  kills         \* kills so far (history)

files == <<system_key, system_pub>>
memory == <<private_key, public_key>>
vars == <<now, stage, writing, files, memory, generations, tokens, kills>>

Writes == {"none", "open_priv", "write_priv", "open_pub", "write_pub"}

Pairs == 1..(MaxKills + 1)

Tokens == [key : Pairs, exp : Nat, issued : Nat, public : Pairs \cup {Torn}]

TypeOK ==
  /\ now \in Nat
  /\ stage \in {"down", "init", "generating", "up"}
  /\ writing \in Writes
  /\ {system_key, system_pub, private_key, public_key} \subseteq Pairs \cup {None, Torn}
  /\ generations \in 0..(MaxKills + 1)
  /\ tokens \subseteq Tokens
  /\ kills \in 0..MaxKills

Init ==
  /\ now = 0
  /\ stage = "init"
  /\ writing = "none"
  /\ system_key = None /\ system_pub = None
  /\ private_key = None /\ public_key = None
  /\ generations = 0
  /\ tokens = {}
  /\ kills = 0

-----------------------------------------------------------------------------
(* init_system_keys() *)

FilesExist == system_key # None /\ system_pub # None

\* Mutant of MustGenerate: "generated fresh at startup".
AlwaysGenerates == TRUE

MustGenerate == ~FilesExist

Load ==
  /\ stage = "init"
  /\ ~MustGenerate
  /\ stage' = "up"
  /\ private_key' = system_key
  /\ public_key' = system_pub
  /\ UNCHANGED <<now, writing, files, generations, tokens, kills>>

\* Mutant of Generate: only the file that is missing is written.
GenerateMissing ==
  /\ stage = "init"
  /\ MustGenerate
  /\ stage' = "generating"
  /\ writing' = IF system_key = None THEN "open_priv" ELSE "open_pub"
  /\ generations' = generations + 1
  /\ private_key' = generations + 1
  /\ UNCHANGED <<now, files, public_key, tokens, kills>>

Generate ==
  /\ stage = "init"
  /\ MustGenerate
  /\ stage' = "generating"
  /\ writing' = "open_priv"
  /\ generations' = generations + 1
  /\ private_key' = generations + 1
  /\ UNCHANGED <<now, files, public_key, tokens, kills>>

(* open(priv_path, "wb") truncates; the key is in the file once it is closed. *)
OpenPriv ==
  /\ writing = "open_priv"
  /\ writing' = "write_priv"
  /\ system_key' = Torn
  /\ UNCHANGED <<now, stage, system_pub, memory, generations, tokens, kills>>

WritePriv ==
  /\ writing = "write_priv"
  /\ writing' = "open_pub"
  /\ system_key' = private_key
  /\ UNCHANGED <<now, stage, system_pub, memory, generations, tokens, kills>>

OpenPub ==
  /\ writing = "open_pub"
  /\ writing' = "write_pub"
  /\ system_pub' = Torn
  /\ UNCHANGED <<now, stage, system_key, memory, generations, tokens, kills>>

WritePub ==
  /\ writing = "write_pub"
  /\ writing' = "none"
  /\ stage' = "up"
  /\ system_pub' = private_key
  /\ public_key' = private_key
  /\ UNCHANGED <<now, system_key, private_key, generations, tokens, kills>>

-----------------------------------------------------------------------------
(* int(time.time()), in ticks *)
WholeSeconds(t) == t - (t % TicksPerSecond)

\* Mutant of Expiry: the second that has begun is counted in full.
ExpiryRoundedUp(t) == WholeSeconds(t) + (IAT_TTL_SECONDS + 1) * TicksPerSecond

Expiry(t) == WholeSeconds(t) + IAT_TTL_SECONDS * TicksPerSecond

\* Mutant of Issue: no look at _system_private_key.
IssueUnready ==
  /\ stage # "down"
  /\ tokens' = tokens \cup {[key |-> private_key, exp |-> Expiry(now),
                             issued |-> now, public |-> public_key]}
  /\ UNCHANGED <<now, stage, writing, files, memory, generations, kills>>

(* issue(); the history fields are the time and the public key in memory.    *)
Issue ==
  /\ stage = "up"
  /\ tokens' = tokens \cup {[key |-> private_key, exp |-> Expiry(now),
                             issued |-> now, public |-> public_key]}
  /\ UNCHANGED <<now, stage, writing, files, memory, generations, kills>>

(* verify_iat(token) is not None *)
verify_iat(token) ==
  /\ stage = "up"
  /\ public_key = token.key
  /\ ~(now > token.exp)

-----------------------------------------------------------------------------
Kill ==
  /\ stage # "down"
  /\ kills < MaxKills
  /\ kills' = kills + 1
  /\ stage' = "down"
  /\ writing' = "none"
  /\ private_key' = None /\ public_key' = None
  /\ UNCHANGED <<now, files, generations, tokens>>

Start ==
  /\ stage = "down"
  /\ stage' = "init"
  /\ UNCHANGED <<now, writing, files, memory, generations, tokens, kills>>

Tick ==
  /\ now < MaxTime
  /\ now' = now + 1
  /\ UNCHANGED <<stage, writing, files, memory, generations, tokens, kills>>

Next ==
  \/ Load \/ Generate \/ OpenPriv \/ WritePriv \/ OpenPub \/ WritePub
  \/ Issue
  \/ Kill \/ Start \/ Tick

Spec == Init /\ [][Next]_vars

-----------------------------------------------------------------------------
(* Properties. *)

(* However often a start was cut off, a coordinator that runs signs with a   *)
(* whole key, and never verifies with the public key of another pair.        *)
PairsNeverMixed ==
  stage = "up" => private_key \in Pairs /\ public_key \in {private_key, Torn}

(* A token signed with a whole pair is accepted until a second before its    *)
(* time is over, by every later process too; issue() cuts its time to the    *)
(* second, so that the last second is not certain.                           *)
TokenHonoured ==
  \A token \in tokens :
    (/\ stage = "up" /\ token.public = token.key
     /\ now <= token.issued + (IAT_TTL_SECONDS - 1) * TicksPerSecond)
    => verify_iat(token)

(* Nobody can use a token longer than IAT_TTL_SECONDS after its issue.       *)
NeverOutlivesTTL ==
  \A token \in tokens :
    now > token.issued + IAT_TTL_SECONDS * TicksPerSecond => ~verify_iat(token)

-----------------------------------------------------------------------------
(* What the repository says, and the code does not do. *)

(* authentication/iat.py:25, "Load or generate the system signing key pair": *)
(* what it has loaded need not be a pair.                                    *)
LoadedKeysArePair == stage = "up" => private_key = public_key

-----------------------------------------------------------------------------
(* What makes the properties inductive. *)

(* One generation per life of the process, and where its writes stand.       *)
GenerationsBounded ==
  /\ generations <= kills + 1
  /\ stage \in {"down", "init"} => generations <= kills
  /\ stage = "generating" <=> writing # "none"

(* system.pub comes after system.key and is of the same pair, or torn; both  *)
(* there, neither is written again.                                          *)
FilesInOrder ==
  /\ system_pub # None => system_key \in Pairs /\ system_pub \in {system_key, Torn}
  /\ writing # "none" => private_key \in Pairs
  /\ writing \in {"open_priv", "write_priv", "open_pub"} => system_pub = None
  /\ writing \in {"open_pub", "write_pub"} => system_key = private_key
  /\ writing = "write_pub" => system_pub = Torn

MemoryIsFiles ==
  stage = "up" => /\ system_pub # None
                  /\ private_key = system_key /\ public_key = system_pub

TokensFit ==
  /\ writing # "none" => tokens = {}
  /\ \A token \in tokens :
       /\ system_key = token.key /\ system_pub = token.public
       /\ token.exp = Expiry(token.issued)

InductiveInvariant ==
  TypeOK /\ GenerationsBounded /\ FilesInOrder /\ MemoryIsFiles /\ TokensFit
=================================================================================
