------------------------------ MODULE MC_GsbCalls ------------------------------
(* Model-checking instances of GsbCalls. *)
EXTENDS GsbCalls, TLC

\* Every fault of the broker and the transport.
MCAllCallFaults == AllFaults

\* The faults that leave the caller's requests on the wire.
MCWireFaults == {"BadCode", "BadUtf8", "Late"}

\* The faults that stop the actor.
MCStopFaults == {"SinkFail", "OtherStop"}

\* A broker and transport without faults.
MCNoFaults == {}

\* The sink may fail.
MCSinkFaults == {"SinkFail"}

\* The actor may stop for a reason found in another frame class.
MCOtherStop == {"OtherStop"}

MCCallSymmetry == Permutations(Calls) \cup Permutations(ReqIds)
====
