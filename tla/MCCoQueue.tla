----------------------------- MODULE MCCoQueue -----------------------------
(* A model-checking instance: queues only, no descriptors.                 *)
EXTENDS CoQueue

NoOps == [fd \in {} |-> {}]
=============================================================================
