----------------------------- MODULE MCSignIn ------------------------------
(* Instances of SignIn for TLC: the values are in the .cfg files.          *)
EXTENDS SignIn, TLC

(* Requests, tokens and challenges are interchangeable.                    *)
Symmetry == Permutations(Requests) \cup Permutations(Tokens) \cup Permutations(Challenges)
=============================================================================
