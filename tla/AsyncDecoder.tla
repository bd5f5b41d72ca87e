----------------------------- MODULE AsyncDecoder -----------------------------
(***************************************************************************)
(* What decodeGltfBufferAsync promises its callers: every call returns a   *)
(* promise, and the promise is settled once, resolved if the source can be *)
(* decoded and rejected if it cannot.                                      *)
(***************************************************************************)
CONSTANT Request            \* The calls.

VARIABLES promise, malformed  \* What was returned; the calls whose source is malformed.

Init ==
  /\ promise = [r \in Request |-> "none"]
  /\ malformed \in SUBSET Request

Call(r) ==
  /\ promise[r] = "none"
  /\ promise' = [promise EXCEPT ![r] = "pending"]
  /\ UNCHANGED malformed

Settle(r) ==
  /\ promise[r] = "pending"
  /\ promise' = [promise EXCEPT ![r] = IF r \in malformed THEN "rejected" ELSE "resolved"]
  /\ UNCHANGED malformed

Next == \E r \in Request : Call(r) \/ Settle(r)

Spec == Init /\ [][Next]_<<promise, malformed>>
=============================================================================
