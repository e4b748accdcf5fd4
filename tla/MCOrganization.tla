---------------------------- MODULE MCOrganization ----------------------------
(* Instances of Organization for TLC. *)
EXTENDS Organization, TLC

\* Neither two accounts nor two workers differ before a request names them.
UsersAndWorkersSymmetry == Permutations(Users) \union Permutations(Workers)
=============================================================================
