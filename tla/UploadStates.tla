---------------------------- MODULE UploadStates ----------------------------
(***************************************************************************)
(* The lifecycle an upload's durable record promises, whatever crashes,    *)
(* restarts and failing transactions are behind it: nothing is stored that *)
(* did not pass inspection, no state is skipped, and an outcome is final.  *)
(***************************************************************************)
CONSTANT Uploads

VARIABLE state

Init == state = [u \in Uploads |-> "none"]

Becomes(u, from, to) == state[u] \in from /\ state' = [state EXCEPT ![u] = to]

Receive(u) == Becomes(u, {"none"}, "quarantined")
Discard(u) == Becomes(u, {"quarantined"}, "none")
Inspect(u) == Becomes(u, {"quarantined"}, "inspecting")
Accept(u)  == Becomes(u, {"inspecting"}, "accepted")
Reject(u)  == Becomes(u, {"inspecting"}, "rejected")
Encrypt(u) == Becomes(u, {"accepted"}, "encrypting")
Store(u)   == Becomes(u, {"encrypting"}, "stored")
Fail(u)    == Becomes(u, {"quarantined", "inspecting", "accepted", "encrypting"}, "failed")

Next == \E u \in Uploads :
  \/ Receive(u) \/ Discard(u) \/ Inspect(u) \/ Accept(u) \/ Reject(u)
  \/ Encrypt(u) \/ Store(u) \/ Fail(u)

Spec == Init /\ [][Next]_state
=============================================================================
