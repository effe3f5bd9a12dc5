------------------------- MODULE GsbEndpointsProofs -------------------------
(***************************************************************************)
(* Proofs about requests served through the router's mutex               *)
(* (GsbEndpoints), for any connections, requests, addresses, binding and  *)
(* bound on chunks: every state is well typed, and a connection's task    *)
(* panics only after a request with an undecodable body has panicked in   *)
(* a typed streaming endpoint's call_stream.                              *)
(*                                                                         *)
(* PanicsTraceToStreamDecode is not inductive: a panic at the poisoned    *)
(* lock must be known to follow the panic that poisoned it.  The          *)
(* invariant adds that a panicked request implies a poisoned mutex        *)
(* (PanickedPoisoned) and that a poisoned mutex has its decode panic      *)
(* (PoisonedByDecode).                                                     *)
(***************************************************************************)
EXTENDS GsbEndpoints, SequenceTheorems, TLAPS

\* Request q panicked in call_stream's decode, under the lock.
DecodePanic(q) ==
    /\ PathOf(q) = "typedStream"
    /\ req[q].body = "bad"
    /\ st[q] = "panicked"

\* A request panics only once the mutex is (or was made) poisoned.
PanickedPoisoned == \A r \in Reqs : st[r] = "panicked" => poisoned

\* The mutex is poisoned only by a decode panic.
PoisonedByDecode == poisoned => \E q \in Reqs : DecodePanic(q)

IInv == TypeOK /\ PanickedPoisoned /\ PoisonedByDecode

-----------------------------------------------------------------------------
(* Facts about the operators of the model.                                 *)

\* forward_bytes_local reaches one of the adapters, given the binding.
LEMMA PathOfType ==
    ASSUME req \in [Reqs -> Requests], NEW r \in Reqs
    PROVE  PathOf(r) \in Paths
BY EndpointsOK DEF PathOf, SendPath, StreamPath, Paths, EndpointKinds, Requests

\* The adapter a request reaches depends on the request alone.
LEMMA PathOfFixed ==
    ASSUME req' = req, NEW r \in Reqs
    PROVE  PathOf(r)' = PathOf(r)
BY DEF PathOf

\* A step that fixes the requests and keeps every panicked request
\* panicked keeps every decode panic.
LEMMA DecodePanicStable ==
    ASSUME req' = req,
           \A q \in Reqs : st[q] = "panicked" => st'[q] = "panicked",
           NEW q \in Reqs, DecodePanic(q)
    PROVE  DecodePanic(q)'
BY PathOfFixed DEF DecodePanic

\* A panic ends the connection's task and keeps requests typed; a request
\* that had panicked stays panicked.
LEMMA PanicFacts ==
    ASSUME TypeOK, NEW r \in Reqs, Panic(r)
    PROVE  /\ alive' \in [Conns -> BOOLEAN]
           /\ st' \in [Reqs -> {"sent", "handling", "ended", "panicked", "dropped"}]
           /\ st'[r] = "panicked"
           /\ \A q \in Reqs : st[q] = "panicked" => st'[q] = "panicked"
BY DEF Panic, TypeOK, Requests

-----------------------------------------------------------------------------
(* The invariant holds initially and is kept by every action.              *)

LEMMA IInvInit == Init => IInv
<1> SUFFICES ASSUME Init PROVE IInv
  OBVIOUS
<1>1. items \in [Reqs -> Seq(Items)]
  BY EmptySeq DEF Init
<1>2. QED
  BY <1>1 DEF Init, IInv, TypeOK, Paths, PanickedPoisoned, PoisonedByDecode

\* do_call at a poisoned lock: the request panics, the mutex stays poisoned
\* and its decode panic stays in place.
LEMMA DoCallPoisoned ==
    ASSUME IInv, NEW r \in Reqs, poisoned, Panic(r),
           UNCHANGED <<req, poisoned, path, items>>
    PROVE  IInv'
<1>1. /\ alive' \in [Conns -> BOOLEAN]
      /\ st' \in [Reqs -> {"sent", "handling", "ended", "panicked", "dropped"}]
      /\ \A q \in Reqs : st[q] = "panicked" => st'[q] = "panicked"
  BY PanicFacts DEF IInv
<1>2. PICK q \in Reqs : DecodePanic(q)
  BY DEF IInv, PoisonedByDecode
<1>3. DecodePanic(q)'
  BY <1>1, <1>2, DecodePanicStable
<1>4. QED
  BY <1>1, <1>3 DEF IInv, TypeOK, PanickedPoisoned, PoisonedByDecode

\* call_stream's decode panics under the lock: the request is the decode
\* panic that poisons the mutex.
LEMMA DoCallDecodePanic ==
    ASSUME IInv, NEW r \in Reqs, PanicsUnderLock(r), Panic(r), poisoned' = TRUE,
           UNCHANGED <<req, path, items>>
    PROVE  IInv'
<1>1. /\ alive' \in [Conns -> BOOLEAN]
      /\ st' \in [Reqs -> {"sent", "handling", "ended", "panicked", "dropped"}]
      /\ st'[r] = "panicked"
  BY PanicFacts DEF IInv
<1>2. DecodePanic(r)'
  BY <1>1, PathOfFixed DEF DecodePanic, PanicsUnderLock
<1>3. QED
  BY <1>1, <1>2 DEF IInv, TypeOK, PanickedPoisoned, PoisonedByDecode

\* A request that leaves "sent" or "handling" for anything but a panic,
\* with the mutex and the other requests as they were, keeps the invariant.
LEMMA NoPanicStep ==
    ASSUME IInv, NEW r \in Reqs, st[r] \in {"sent", "handling"},
           st' = [st EXCEPT ![r] = st'[r]],
           st'[r] \in {"handling", "ended"},
           path' \in [Reqs -> Paths], items' \in [Reqs -> Seq(Items)],
           UNCHANGED <<req, alive, poisoned>>
    PROVE  IInv'
<1>1. \A q \in Reqs : st[q] = "panicked" => st'[q] = "panicked"
  BY DEF IInv, TypeOK
<1>2. \A q \in Reqs : st'[q] = "panicked" => st[q] = "panicked"
  BY DEF IInv, TypeOK
<1>3. st' \in [Reqs -> {"sent", "handling", "ended", "panicked", "dropped"}]
  BY DEF IInv, TypeOK
<1>4. PoisonedByDecode'
  <2> SUFFICES ASSUME poisoned PROVE \E q \in Reqs : DecodePanic(q)'
    BY DEF PoisonedByDecode
  <2>1. PICK q \in Reqs : DecodePanic(q)
    BY DEF IInv, PoisonedByDecode
  <2>2. QED
    BY <2>1, <1>1, DecodePanicStable
<1>5. QED
  BY <1>2, <1>3, <1>4 DEF IInv, TypeOK, PanickedPoisoned

LEMMA DoCallInv ==
    ASSUME IInv, NEW r \in Reqs, DoCall(r)
    PROVE  IInv'
<1>0. PathOf(r) \in Paths
  BY PathOfType DEF IInv, TypeOK
<1>1. CASE poisoned /\ Panic(r) /\ UNCHANGED <<poisoned, path, items>>
  BY <1>1, DoCallPoisoned DEF DoCall
<1>2. CASE ~poisoned /\ PanicsUnderLock(r) /\ Panic(r) /\ poisoned' = TRUE
           /\ UNCHANGED <<path, items>>
  BY <1>2, DoCallDecodePanic DEF DoCall
<1>3. CASE /\ ~poisoned /\ FailsAtOnce(r)
           /\ path' = [path EXCEPT ![r] = PathOf(r)]
           /\ items' = [items EXCEPT ![r] = <<"Err">>]
           /\ st' = [st EXCEPT ![r] = "ended"]
           /\ UNCHANGED <<alive, poisoned>>
  <2>1. <<"Err">> \in Seq(Items)
    BY DEF Items
  <2>2. path' \in [Reqs -> Paths] /\ items' \in [Reqs -> Seq(Items)]
    BY <1>0, <1>3, <2>1 DEF IInv, TypeOK
  <2>3. st[r] = "sent" /\ req' = req
    BY DEF DoCall
  <2>4. st' = [st EXCEPT ![r] = st'[r]] /\ st'[r] = "ended"
    BY <1>3 DEF IInv, TypeOK
  <2>5. QED
    BY <1>3, <2>2, <2>3, <2>4, NoPanicStep
<1>4. CASE /\ ~poisoned /\ ~PanicsUnderLock(r) /\ ~FailsAtOnce(r)
           /\ path' = [path EXCEPT ![r] = PathOf(r)]
           /\ st' = [st EXCEPT ![r] = "handling"]
           /\ UNCHANGED <<alive, poisoned, items>>
  <2>1. path' \in [Reqs -> Paths] /\ items' \in [Reqs -> Seq(Items)]
    BY <1>0, <1>4 DEF IInv, TypeOK
  <2>2. st[r] = "sent" /\ req' = req
    BY DEF DoCall
  <2>3. st' = [st EXCEPT ![r] = st'[r]] /\ st'[r] = "handling"
    BY <1>4 DEF IInv, TypeOK
  <2>4. QED
    BY <1>4, <2>1, <2>2, <2>3, NoPanicStep
<1>5. QED
  BY <1>1, <1>2, <1>3, <1>4 DEF DoCall

\* A handler step: the request's reply grows by typed items, or ends.
LEMMA HandlerInv ==
    ASSUME IInv, NEW r \in Reqs,
           \/ StreamItem(r) \/ TypedStreamEnds(r) \/ OneShotReply(r)
           \/ RawFirstChunk(r) \/ RawChunk(r) \/ RawStreamEnds(r)
    PROVE  IInv'
<1>1. st[r] = "handling"
  BY DEF StreamItem, TypedStreamEnds, OneShotReply, RawFirstChunk, RawChunk,
         RawStreamEnds
<1>2. /\ st' = [st EXCEPT ![r] = st'[r]]
      /\ st'[r] \in {"handling", "ended"}
  BY <1>1 DEF IInv, TypeOK, StreamItem, TypedStreamEnds, OneShotReply,
              RawFirstChunk, RawChunk, RawStreamEnds
<1>3. items[r] \in Seq(Items)
  BY DEF IInv, TypeOK
<1>4. items'[r] \in Seq(Items)
  <2>1. CASE StreamItem(r)
    BY <2>1, <1>3 DEF StreamItem, IInv, TypeOK, Items
  <2>2. CASE TypedStreamEnds(r)
    BY <2>2, <1>3 DEF TypedStreamEnds, IInv, TypeOK, Items
  <2>3. CASE OneShotReply(r)
    BY <2>3 DEF OneShotReply, IInv, TypeOK, Items
  <2>4. CASE RawFirstChunk(r)
    BY <2>4 DEF RawFirstChunk, IInv, TypeOK, Items
  <2>5. CASE RawChunk(r)
    BY <2>5, <1>3 DEF RawChunk, IInv, TypeOK, Items
  <2>6. CASE RawStreamEnds(r)
    BY <2>6, <1>3 DEF RawStreamEnds
  <2>7. QED
    BY <2>1, <2>2, <2>3, <2>4, <2>5, <2>6
<1>5. items' = [items EXCEPT ![r] = items'[r]]
  BY DEF IInv, TypeOK, StreamItem, TypedStreamEnds, OneShotReply,
         RawFirstChunk, RawChunk, RawStreamEnds
<1>6. items' \in [Reqs -> Seq(Items)]
  BY <1>4, <1>5 DEF IInv, TypeOK
<1>7. path' \in [Reqs -> Paths] /\ UNCHANGED <<req, alive, poisoned>>
  BY DEF IInv, TypeOK, StreamItem, TypedStreamEnds, OneShotReply,
         RawFirstChunk, RawChunk, RawStreamEnds
<1>8. QED
  BY <1>1, <1>2, <1>6, <1>7, NoPanicStep

LEMMA IInvStep == IInv /\ [Next]_vars => IInv'
<1> SUFFICES ASSUME IInv, [Next]_vars PROVE IInv'
  OBVIOUS
<1>1. CASE Next
  BY <1>1, DoCallInv, HandlerInv DEF Next
<1>2. CASE UNCHANGED vars
  <2>1. \A q \in Reqs : DecodePanic(q) => DecodePanic(q)'
    BY <1>2, DecodePanicStable DEF vars
  <2>2. QED
    BY <1>2, <2>1 DEF vars, IInv, TypeOK, PanickedPoisoned, PoisonedByDecode
<1>3. QED
  BY <1>1, <1>2

THEOREM EndpointsInvariant == Spec => []IInv
BY IInvInit, IInvStep, PTL DEF Spec

-----------------------------------------------------------------------------
(* The invariants the endpoints_safety run checks, for every instance.     *)

\* Every state of the served requests, the router's mutex and the
\* connections' tasks is well typed.
THEOREM EndpointsTypeCorrect == Spec => []TypeOK
BY EndpointsInvariant, PTL DEF IInv

\* LocalRouterHandler::do_call and call_stream's unwrap: a connection's task
\* panics only after a request with an undecodable body has panicked in a
\* typed streaming endpoint's decode, under the router's lock.
THEOREM PanicsTraced == Spec => []PanicsTraceToStreamDecode
<1>1. IInv => PanicsTraceToStreamDecode
  BY DEF IInv, PanickedPoisoned, PoisonedByDecode, DecodePanic,
         PanicsTraceToStreamDecode
<1>2. QED
  BY <1>1, EndpointsInvariant, PTL

====
