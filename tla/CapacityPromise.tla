-------------------------- MODULE CapacityPromise --------------------------
(***************************************************************************)
(* What admission promises the owners and the operator of the storage,     *)
(* however many processes admit at once, fail and start again: uploads     *)
(* come to hold room one at a time, each compared with everything that     *)
(* holds room by then, with a quota the owner was given and with the pool; *)
(* nothing else makes an upload hold room, and what was offered to an      *)
(* owner is not taken back from those who rely on it.                      *)
(***************************************************************************)
EXTENDS Naturals

CONSTANTS
  Uploads, Owners,
  OwnerOf,     \* whose an upload is
  Usable,      \* the bytes of the pool
  Size(_)      \* the bytes of a set of uploads

VARIABLES
  held,    \* the uploads that hold room
  offered  \* the quotas an owner was ever given

Init == held = {} /\ offered \in [Owners -> SUBSET Nat]

(* Uploads that gave up their room are found to have done so.              *)
Take(u) ==
  /\ held' \subseteq held \cup {u}
  /\ Size(held') <= Usable
  /\ \E limit \in offered[OwnerOf[u]] :
       Size({v \in held' : OwnerOf[v] = OwnerOf[u]}) <= limit
  /\ UNCHANGED offered

Leave == held' \subseteq held /\ UNCHANGED offered

Offer(o) ==
  /\ \E limit \in offered'[o] : offered' = [offered EXCEPT ![o] = @ \cup {limit}]
  /\ UNCHANGED held

Next ==
  \/ \E u \in Uploads : Take(u)
  \/ \E o \in Owners : Offer(o)
  \/ Leave

Spec == Init /\ [][Next]_<<held, offered>>
=============================================================================
