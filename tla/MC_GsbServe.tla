------------------------------ MODULE MC_GsbServe ------------------------------
(* Model-checking instances of GsbServe. *)
EXTENDS GsbServe, TLC

\* Every fault of the broker and the transport.
MCAllServeFaults == AllFaults

MCServeSymmetry == Permutations(ServedIds)
====
