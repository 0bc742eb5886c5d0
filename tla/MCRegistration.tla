----------------------------- MODULE MCRegistration -----------------------------
(* Bounds of Registration.tla for TLC.                                     *)
EXTENDS Registration, TLC

(* Sessions, sign-ins, names, passwords and DIDs are interchangeable; the  *)
(* nodes are numbers.                                                      *)
Symmetry ==
  Permutations(Sessions) \cup Permutations(SignIns) \cup Permutations(Usernames)
    \cup Permutations(Passwords) \cup Permutations(Dids)
=============================================================================
