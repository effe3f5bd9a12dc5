-------------------------- MODULE MC_GsbReplyQueues --------------------------
(* Instances of GsbReplyQueues for TLC.                                    *)
EXTENDS GsbReplyQueues, TLC

\* A broker that keeps the reply order of the protocol; it may send invalid
\* codes, the sink may fail and the actor may stop for other reasons.
MCHonestFaults == {"BadCode", "SinkFail", "OtherStop"}

\* Every fault, a reply to no request included.
MCAllFaults == AllFaults

\* Waiters are interchangeable.
MCSymmetry == Permutations(Waiters)
====
