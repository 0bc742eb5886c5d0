--------------------------- MODULE MCAuthentication ---------------------------
(* Bounds of Authentication.tla for TLC.                                   *)
EXTENDS Authentication, TLC

(* Nodes, requests, challenges and DIDs are interchangeable: no definition   *)
(* orders them or names one.                                                 *)
Symmetry ==
  Permutations(Nodes) \cup Permutations(Requests) \cup Permutations(ChallengeIds)
=============================================================================
