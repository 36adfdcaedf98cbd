------------------------------ MODULE MCWorker ------------------------------
(* Instances of Worker for TLC: values for its constants. *)
EXTENDS WorkerInvariant

CONSTANTS w1, w2, f1, f2
=============================================================================
