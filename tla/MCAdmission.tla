---------------------------- MODULE MCAdmission ----------------------------
(* Instances of Admission for TLC: the values are in the .cfg files.       *)
EXTENDS Admission, TLC

CONSTANTS ada, ben, u1, u2, u3

(* Two uploads of one owner that do not fit together, one of another.      *)
MCOwnerOf == u1 :> ada @@ u2 :> ada @@ u3 :> ben
MCBytes   == u1 :> 2 @@ u2 :> 1 @@ u3 :> 2

(* The processes are interchangeable.                                      *)
Symmetry == Permutations(Servers)
=============================================================================
