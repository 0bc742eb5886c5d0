----------------------------- MODULE SecretSharing -----------------------------
(***************************************************************************)
(* The arithmetic of a secret, from the shares of a registration           *)
(* (crypto/sss.py) over the partial proofs of the nodes                    *)
(* (node/partial_proof.py, node/node.py) to its reconstruction             *)
(* (crypto/lagrange.py), in a prime field small enough to try everything.  *)
(* Ballots.tla relies on RebuiltOnlyFromHonest.                            *)
(***************************************************************************)
EXTENDS Integers, FiniteSets, Functions

CONSTANTS
  P,          \* the field's prime
  N_NODES,
  THRESHOLD,
  MaxFaulty   \* BOUND: nodes that answer with a wrong value

ASSUME SharingConstants ==
  /\ P \in Nat /\ \A d \in 2..(P - 1) : P % d # 0
  /\ THRESHOLD \in 1..N_NODES
  /\ N_NODES \in 1..(P - 1)
  /\ MaxFaulty \in 0..N_NODES

VARIABLES
  stage,    \* "new", "shared", "challenged"
  coeffs,   \* coefficients of the polynomial; the secret is coeffs[0]
  shares,   \* shares[x]: y of node x
  H,        \* the challenge as a field element
  values    \* values[x]: partial_value node x answered

vars == <<stage, coeffs, shares, H, values>>

Field == 0..(P - 1)

Positions == 1..N_NODES

secret == coeffs[0]

TypeOK ==
  /\ stage \in {"new", "shared", "challenged"}
  /\ coeffs \in [0..(THRESHOLD - 1) -> Field]
  /\ shares \in [Positions -> Field]
  /\ H \in Field
  /\ values \in [Positions -> Field]

Init ==
  /\ stage = "new"
  /\ coeffs = [k \in 0..(THRESHOLD - 1) |-> 0]
  /\ shares = [x \in Positions |-> 0]
  /\ H = 0
  /\ values = [x \in Positions |-> 0]

-----------------------------------------------------------------------------
(* + and * modulo P, as tables. *)
Plus == [p \in Field \X Field |-> (p[1] + p[2]) % P]

Times == [p \in Field \X Field |-> (p[1] * p[2]) % P]

(* A loop that starts from base and takes in f[x] for every x in S.          *)
Fold(op, base, f, S) == FoldFunctionOnSet(LAMBDA a, acc : op[<<acc, a>>], base, f, S)

Sum(f, S) == Fold(Plus, 0, f, S)

Product(f, S) == Fold(Times, 1, f, S)

(* pow(a, k, P) *)
Power(a, k) == Product([i \in 1..k |-> a], 1..k)

(* Fermat. lagrange.py refuses 0, which distinct positions never give;       *)
(* partial_proof.py applies the same power to H, and 0 gives 0.              *)
mod_inverse == [a \in Field |-> Power(a, P - 2)]

(* y = f(x) *)
ShareAt(c, x) == Sum([k \in DOMAIN c |-> Times[<<c[k], Power(x, k)>>]], DOMAIN c)

\* Mutant of Coefficients: one draw serves every coefficient.
CoefficientsDrawnOnce ==
  {c \in [0..(THRESHOLD - 1) -> Field \ {0}] :
     \A j, k \in DOMAIN c \ {0} : c[j] = c[k]}

(* The coefficients generate_shares may draw: randbelow(p - 1) + 1 is not 0. *)
Coefficients == [0..(THRESHOLD - 1) -> Field \ {0}]

GenerateShares ==
  /\ stage = "new"
  /\ stage' = "shared"
  /\ \E c \in Coefficients :
       /\ coeffs' = c
       /\ shares' = [x \in Positions |-> ShareAt(c, x)]
  /\ UNCHANGED <<H, values>>

\* Mutant of PartialValue: the product is not reduced.
PartialValueUnreduced(y, h) == y * h

PartialValue(y, h) == (y * h) % P

(* One challenge; the faulty nodes draw fake_value from 1..P-1.              *)
ComputePartialProofs ==
  /\ stage = "shared"
  /\ stage' = "challenged"
  /\ \E h \in Field, faulty \in SUBSET Positions :
       /\ Cardinality(faulty) <= MaxFaulty
       /\ H' = h
       /\ \E fake \in [faulty -> 1..(P - 1)] :
            values' = [x \in Positions |->
                         IF x \in faulty THEN fake[x] ELSE PartialValue(shares[x], h)]
  /\ UNCHANGED <<coeffs, shares>>

Next == GenerateShares \/ ComputePartialProofs

Spec == Init /\ [][Next]_vars

-----------------------------------------------------------------------------
(* Lagrange's basis polynomial of x among Q, at 0. *)
Factor(x, z) == Times[<<(0 - z) % P, mod_inverse[(x - z) % P]>>]

Basis(x, Q) == Product([z \in Q \ {x} |-> Factor(x, z)], Q \ {x})

lagrange_interpolate(y, Q) == Sum([x \in Q |-> Times[<<y[x], Basis(x, Q)>>]], Q)

\* Mutant of Recover: H is not divided out.
RecoverScaled(v, h, Q) == lagrange_interpolate(v, Q)

(* recover_secret_from_partial_proofs on the proofs of the nodes in Q.       *)
Recover(v, h, Q) ==
  lagrange_interpolate([x \in Q |-> Times[<<v[x], mod_inverse[h]>>]], Q)

-----------------------------------------------------------------------------
(* Properties. *)

Quorums == {Q \in SUBSET Positions : Cardinality(Q) = THRESHOLD}

Wrong == {x \in Positions : values[x] # PartialValue(shares[x], H)}

(* The shares are those of the polynomial drawn, and stay so.                *)
SharesOnPolynomial ==
  stage # "new" => /\ coeffs \in Coefficients
                   /\ \A x \in Positions : shares[x] = ShareAt(coeffs, x)

InductiveInvariant == TypeOK /\ SharesOnPolynomial

(* Any THRESHOLD right values rebuild the secret; one wrong value among them *)
(* never does; and under a nonce that hashes to 0 nothing does, since the    *)
(* secret is not 0.                                                          *)
RebuiltOnlyFromHonest ==
  stage = "challenged" => \A Q \in Quorums :
    /\ Q \cap Wrong = {} => (Recover(values, H, Q) = secret <=> H # 0)
    /\ Cardinality(Q \cap Wrong) = 1 /\ H # 0 => Recover(values, H, Q) # secret

\* Secrets that would have produced the same shares at the positions in S.
CandidateSecrets(S) ==
  {c[0] : c \in {d \in Coefficients : \A x \in S : ShareAt(d, x) = shares[x]}}

(* Fewer shares than THRESHOLD rule out at most one secret for each          *)
(* coefficient that the code draws from 1..P-1 in place of 0..P-1.           *)
FewSharesLeaveSecretsOpen ==
  stage = "shared" => \A S \in SUBSET Positions :
    Cardinality(S) = THRESHOLD - 1 => Cardinality(CandidateSecrets(S)) >= P - THRESHOLD
=============================================================================
