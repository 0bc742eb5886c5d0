-------------------------- MODULE IdentityTokensProofs --------------------------
(***************************************************************************)
(* Theorems about IdentityTokens.tla, for every lifetime, resolution of the*)
(* clock and number of kills.                                              *)
(***************************************************************************)
EXTENDS IdentityTokens, TLAPS

(* Cutting to the second costs less than a second.                           *)
LEMMA SecondsFacts ==
  ASSUME NEW t \in Nat
  PROVE  /\ WholeSeconds(t) \in Nat
         /\ t < WholeSeconds(t) + TicksPerSecond /\ WholeSeconds(t) <= t
<1>1. TicksPerSecond \in Nat \ {0}
  BY TokenConstants
<1>2. t % TicksPerSecond \in 0..(TicksPerSecond - 1) /\ t % TicksPerSecond <= t
  BY <1>1
<1> QED
  BY <1>1, <1>2 DEF WholeSeconds

LEMMA ExpiryFacts ==
  ASSUME NEW t \in Nat
  PROVE  /\ Expiry(t) \in Nat
         /\ Expiry(t) <= t + IAT_TTL_SECONDS * TicksPerSecond
         /\ t + (IAT_TTL_SECONDS - 1) * TicksPerSecond <= Expiry(t)
<1> DEFINE life == IAT_TTL_SECONDS * TicksPerSecond
<1>1. life \in Nat /\ (IAT_TTL_SECONDS - 1) * TicksPerSecond = life - TicksPerSecond
  BY TokenConstants
<1>2. Expiry(t) = WholeSeconds(t) + life
  BY DEF Expiry
<1> HIDE DEF life
<1>3. (IAT_TTL_SECONDS - 1) * TicksPerSecond <= life
  BY <1>1, TokenConstants
<1> QED
  BY <1>1, <1>2, SecondsFacts, TokenConstants DEF life

LEMMA InitInductive == Init => InductiveInvariant
BY TokenConstants
DEF Init, InductiveInvariant, TypeOK, Writes, GenerationsBounded, FilesInOrder,
    MemoryIsFiles, TokensFit

LEMMA InvariantNext == InductiveInvariant /\ [Next]_vars => InductiveInvariant'
<1> SUFFICES ASSUME InductiveInvariant, [Next]_vars PROVE InductiveInvariant'
  OBVIOUS
<1> USE TokenConstants
    DEF InductiveInvariant, TypeOK, Writes, GenerationsBounded, FilesInOrder, MemoryIsFiles,
        TokensFit, files, memory
<1>1. CASE Load
  BY <1>1 DEF Load, MustGenerate, FilesExist
<1>2. CASE Generate
  <2>1. generations + 1 \in Pairs
    BY <1>2 DEF Generate, Pairs
  <2>2. system_pub = None
    BY <1>2 DEF Generate, MustGenerate, FilesExist, Pairs
  <2>3. \A token \in tokens : token.public # None
    BY DEF Tokens, Pairs
  <2>4. tokens = {}
    BY <2>2, <2>3
  <2> QED
    BY <1>2, <2>1, <2>2, <2>4 DEF Generate
<1>3. CASE OpenPriv
  BY <1>3 DEF OpenPriv
<1>4. CASE WritePriv
  BY <1>4 DEF WritePriv
<1>5. CASE OpenPub
  BY <1>5 DEF OpenPub
<1>6. CASE WritePub
  BY <1>6 DEF WritePub, Pairs
<1>7. CASE Issue
  BY <1>7, ExpiryFacts DEF Issue, Tokens
<1>8. CASE Kill
  BY <1>8 DEF Kill
<1>9. CASE Start
  BY <1>9 DEF Start
<1>10. CASE Tick
  BY <1>10 DEF Tick
<1>11. CASE UNCHANGED vars
  BY <1>11 DEF vars
<1> QED
  BY <1>1, <1>2, <1>3, <1>4, <1>5, <1>6, <1>7, <1>8, <1>9, <1>10, <1>11 DEF Next

(* The order of the files and of memory holds in every reachable state.      *)
THEOREM Invariance == Spec => []InductiveInvariant
<1>1. InductiveInvariant /\ UNCHANGED vars => InductiveInvariant'
  BY InvariantNext
<1> QED
  BY InitInductive, InvariantNext, <1>1, PTL DEF Spec

(* A coordinator that runs signs with a whole key and verifies with the      *)
(* public key of the same pair, or with one that is torn.                    *)
THEOREM NeverMixed == Spec => []PairsNeverMixed
<1>1. InductiveInvariant => PairsNeverMixed
  BY DEF InductiveInvariant, FilesInOrder, MemoryIsFiles, PairsNeverMixed
<1> QED
  BY Invariance, <1>1, PTL

(* A token signed with a whole pair is accepted until a second before its    *)
(* time is over, by every later process.                                     *)
THEOREM Honoured == Spec => []TokenHonoured
<1>1. InductiveInvariant => TokenHonoured
  <2> SUFFICES ASSUME InductiveInvariant, NEW token \in tokens,
                      stage = "up", token.public = token.key,
                      now <= token.issued + (IAT_TTL_SECONDS - 1) * TicksPerSecond
               PROVE  verify_iat(token)
    BY DEF TokenHonoured
  <2>1. public_key = token.key
    BY DEF InductiveInvariant, MemoryIsFiles, TokensFit
  <2>2. token.issued \in Nat /\ token.exp = Expiry(token.issued)
    BY DEF InductiveInvariant, TypeOK, Tokens, TokensFit
  <2> DEFINE most == token.issued + (IAT_TTL_SECONDS - 1) * TicksPerSecond
  <2>3. most <= token.exp /\ most \in Nat /\ token.exp \in Nat /\ now \in Nat
    BY <2>2, ExpiryFacts, TokenConstants DEF InductiveInvariant, TypeOK
  <2>4. now <= most
    OBVIOUS
  <2> HIDE DEF most
  <2> QED
    BY <2>1, <2>3, <2>4 DEF verify_iat
<1> QED
  BY Invariance, <1>1, PTL

(* Nobody can use a token longer than IAT_TTL_SECONDS after its issue.       *)
THEOREM Expires == Spec => []NeverOutlivesTTL
<1>1. InductiveInvariant => NeverOutlivesTTL
  <2> SUFFICES ASSUME InductiveInvariant, NEW token \in tokens,
                      now > token.issued + IAT_TTL_SECONDS * TicksPerSecond
               PROVE  now > token.exp
    BY DEF NeverOutlivesTTL, verify_iat
  <2>1. token.issued \in Nat /\ token.exp = Expiry(token.issued)
    BY DEF InductiveInvariant, TypeOK, Tokens, TokensFit
  <2> DEFINE most == token.issued + IAT_TTL_SECONDS * TicksPerSecond
  <2>2. token.exp <= most /\ most \in Nat /\ token.exp \in Nat /\ now \in Nat
    BY <2>1, ExpiryFacts, TokenConstants DEF InductiveInvariant, TypeOK
  <2>3. now > most
    OBVIOUS
  <2> HIDE DEF most
  <2> QED
    BY <2>2, <2>3
<1> QED
  BY Invariance, <1>1, PTL
=================================================================================
