--------------------------- MODULE MCCredentials ---------------------------
(* Credentials with two commands and two TVs.                              *)
EXTENDS Credentials, TLC

Symmetric == Permutations(Processes) \cup Permutations(Devices)
=============================================================================
