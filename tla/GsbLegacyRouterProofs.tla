------------------------ MODULE GsbLegacyRouterProofs ------------------------
(***************************************************************************)
(* Proofs about the bus crate's router (GsbLegacyRouter), for any set of  *)
(* keys and any bound on the calls: every call the poisoned mutex refuses *)
(* follows a call that panicked in one of the rmp_serde unwraps, and a    *)
(* call panics only there.                                                 *)
(*                                                                         *)
(* The property is not inductive as it stands: it also needs that the    *)
(* mutex is poisoned only once such a panic is in the log (PoisonLogged). *)
(***************************************************************************)
EXTENDS GsbLegacyRouter, SequenceTheorems, TLAPS

\* Call j of the log panicked in an unwrap.
PanicAt(j) == calls[j].result = "panic" /\ UnwrapFailed(calls[j])

\* The mutex is poisoned only after a panic the log records.
PoisonLogged == poisoned => \E j \in 1..Len(calls) : PanicAt(j)

IInv == TypeOK /\ RefusalsFollowUnwrapPanic /\ PoisonLogged

-----------------------------------------------------------------------------
(* Appending a call to the log.                                            *)

\* Appending a call keeps the log typed, keeps the panics it held, and keeps
\* the property, provided the new call is a refusal only once a panic is
\* logged, and a panic only when an unwrap failed.
LEMMA LogAppend ==
    ASSUME TypeOK, RefusalsFollowUnwrapPanic,
           NEW r \in Calls, calls' = Append(calls, r),
           r.result = "poisoned" => \E j \in 1..Len(calls) : PanicAt(j),
           r.result = "panic" => UnwrapFailed(r)
    PROVE  /\ calls' \in Seq(Calls)
           /\ Len(calls') = Len(calls) + 1
           /\ calls'[Len(calls) + 1] = r
           /\ \A j \in 1..Len(calls) : PanicAt(j) => PanicAt(j)'
           /\ RefusalsFollowUnwrapPanic'
<1>1. /\ calls' \in Seq(Calls)
      /\ Len(calls') = Len(calls) + 1
      /\ \A i \in 1..Len(calls) : calls'[i] = calls[i]
      /\ calls'[Len(calls) + 1] = r
  BY AppendProperties DEF TypeOK
<1>2. Len(calls) \in Nat
  BY LenProperties DEF TypeOK
<1>3. \A j \in 1..Len(calls) : PanicAt(j) => PanicAt(j)'
  BY <1>1 DEF PanicAt, UnwrapFailed
<1>4. RefusalsFollowUnwrapPanic'
  <2> SUFFICES ASSUME NEW i \in 1..Len(calls')
               PROVE  /\ calls'[i].result = "poisoned" =>
                             \E j \in 1..(i - 1) : PanicAt(j)'
                      /\ calls'[i].result = "panic" => UnwrapFailed(calls'[i])
    BY DEF RefusalsFollowUnwrapPanic, PanicAt
  <2>1. CASE i \in 1..Len(calls)
    <3>1. /\ calls[i].result = "poisoned" => \E j \in 1..(i - 1) : PanicAt(j)
          /\ calls[i].result = "panic" => UnwrapFailed(calls[i])
      BY <2>1 DEF RefusalsFollowUnwrapPanic, PanicAt
    <3>2. QED
      BY <3>1, <1>1, <1>3, <1>2, <2>1
  <2>2. CASE i = Len(calls) + 1
    BY <1>1, <1>3, <1>2, <2>2
  <2>3. QED
    BY <2>1, <2>2, <1>1, <1>2
<1>5. QED
  BY <1>1, <1>3, <1>4

\* A log record built from a call's arguments and the slot it found is a Calls.
LEMMA RecordInCalls ==
    ASSUME TypeOK, NEW op \in Ops \cup {"bind"}, NEW k \in Keys,
           NEW t \in {"raw"} \cup MsgTypes, NEW b \in AllBodies, NEW res \in Results
    PROVE  [op |-> op, key |-> k, ty |-> t, body |-> b, slot |-> slots[k],
            result |-> res] \in Calls
<1>1. slots[k] \in {"none", "raw"} \cup MsgTypes
  BY DEF TypeOK
<1>2. QED
  BY <1>1 DEF Calls

-----------------------------------------------------------------------------
(* The invariant holds initially and is kept by every action.              *)

LEMMA IInvInit == Init => IInv
<1> SUFFICES ASSUME Init PROVE IInv
  OBVIOUS
<1>1. notifyQ \in Seq(Keys) /\ calls \in Seq(Calls)
  BY EmptySeq DEF Init
<1>2. TypeOK
  BY <1>1 DEF Init, TypeOK
<1>3. RefusalsFollowUnwrapPanic /\ PoisonLogged
  BY DEF Init, RefusalsFollowUnwrapPanic, PoisonLogged
<1>4. QED
  BY <1>2, <1>3 DEF IInv

\* A call refused at the poisoned lock follows the panic that poisoned it.
LEMMA IInvLockPoisoned ==
    ASSUME IInv, NEW op \in Ops \cup {"bind"}, NEW k \in Keys,
           NEW t \in {"raw"} \cup MsgTypes, NEW b \in AllBodies,
           LockPoisoned(op, k, t, b)
    PROVE  IInv'
<1> DEFINE r == [op |-> op, key |-> k, ty |-> t, body |-> b, slot |-> slots[k],
                 result |-> "poisoned"]
<1>1. r \in Calls /\ calls' = Append(calls, r)
  <2>1. r \in Calls
    BY RecordInCalls DEF IInv, Results
  <2>2. QED
    BY <2>1 DEF LockPoisoned, Call
<1>2. \E j \in 1..Len(calls) : PanicAt(j)
  BY DEF LockPoisoned, IInv, PoisonLogged
<1>3. /\ calls' \in Seq(Calls)
      /\ Len(calls') = Len(calls) + 1
      /\ \A j \in 1..Len(calls) : PanicAt(j) => PanicAt(j)'
      /\ RefusalsFollowUnwrapPanic'
  BY <1>1, <1>2, LogAppend DEF IInv
<1>4. PoisonLogged'
  BY <1>2, <1>3, LenProperties DEF IInv, TypeOK, PoisonLogged, LockPoisoned
<1>5. QED
  BY <1>3, <1>4 DEF IInv, TypeOK, LockPoisoned

\* A bind replaces the slot and queues its Add behind the others.
LEMMA IInvBindSlot ==
    ASSUME IInv, NEW k \in Keys, NEW v \in SlotVariants, BindSlot(k, v)
    PROVE  IInv'
<1> DEFINE r == [op |-> "bind", key |-> k, ty |-> v, body |-> "good",
                 slot |-> slots[k], result |-> "handler"]
<1>1. r \in Calls /\ calls' = Append(calls, r)
  <2>1. r \in Calls
    BY RecordInCalls DEF IInv, Results, AllBodies, Bodies, SlotVariants, Ops
  <2>2. QED
    BY <2>1 DEF BindSlot, Call
<1>2. /\ calls' \in Seq(Calls)
      /\ Len(calls') = Len(calls) + 1
      /\ \A j \in 1..Len(calls) : PanicAt(j) => PanicAt(j)'
      /\ RefusalsFollowUnwrapPanic'
  BY <1>1, LogAppend DEF IInv
<1>3. notifyQ' \in Seq(Keys)
  BY AppendProperties DEF BindSlot, IInv, TypeOK
<1>4. slots' \in [Keys -> {"none", "raw"} \cup MsgTypes]
  BY DEF BindSlot, IInv, TypeOK, SlotVariants
<1>5. PoisonLogged'
  BY <1>2, LenProperties DEF IInv, TypeOK, PoisonLogged, BindSlot
<1>6. QED
  BY <1>2, <1>3, <1>4, <1>5 DEF IInv, TypeOK, BindSlot

\* A call that panics poisons the mutex and is itself the logged panic.
LEMMA PanicLogged ==
    ASSUME IInv, NEW r \in Calls, calls' = Append(calls, r),
           r.result = "panic", UnwrapFailed(r), poisoned' = TRUE,
           UNCHANGED <<slots, notifyQ, remote>>
    PROVE  IInv'
<1>0. Len(calls) \in Nat
  BY LenProperties DEF IInv, TypeOK
<1>1. /\ calls' \in Seq(Calls)
      /\ Len(calls') = Len(calls) + 1
      /\ calls'[Len(calls) + 1] = r
      /\ RefusalsFollowUnwrapPanic'
  BY LogAppend DEF IInv
<1>2. /\ Len(calls) + 1 \in 1..Len(calls')
      /\ calls'[Len(calls) + 1].result = "panic"
      /\ UnwrapFailed(calls'[Len(calls) + 1])
  BY <1>0, <1>1
<1>3. PoisonLogged'
  BY <1>2 DEF PoisonLogged, PanicAt
<1>4. QED
  BY <1>1, <1>3 DEF IInv, TypeOK

\* A call that neither panics nor is refused leaves the mutex as it was.
LEMMA QuietLogged ==
    ASSUME IInv, NEW r \in Calls, calls' = Append(calls, r),
           r.result \notin {"panic", "poisoned"},
           UNCHANGED <<slots, notifyQ, remote, poisoned>>
    PROVE  IInv'
<1>1. /\ calls' \in Seq(Calls)
      /\ Len(calls') = Len(calls) + 1
      /\ \A j \in 1..Len(calls) : PanicAt(j) => PanicAt(j)'
      /\ RefusalsFollowUnwrapPanic'
  BY LogAppend DEF IInv
<1>2. PoisonLogged'
  BY <1>1, LenProperties DEF IInv, TypeOK, PoisonLogged
<1>3. QED
  BY <1>1, <1>2 DEF IInv, TypeOK

\* forward<T>: the downcast path never panics; past it, a panic is an
\* unencodable message or a bad body at a slot of the other type.
LEMMA IInvForward ==
    ASSUME IInv, NEW k \in Keys, NEW t \in MsgTypes, NEW b \in AllBodies,
           Forward(k, t, b)
    PROVE  IInv'
<1> DEFINE rec(res) == [op |-> "forward", key |-> k, ty |-> t, body |-> b,
                        slot |-> slots[k], result |-> res]
<1>0. /\ slots[k] \in {"none", "raw"} \cup MsgTypes
      /\ \A res \in Results : rec(res) \in Calls
  BY RecordInCalls DEF IInv, TypeOK, Ops
<1>1. CASE slots[k] = t /\ calls' = Append(calls, rec("handler")) /\ UNCHANGED poisoned
  BY <1>0, <1>1, QuietLogged DEF Forward, Results
<1>2. CASE slots[k] # t /\ ForwardPanics(k, b) /\ poisoned' = TRUE
                        /\ calls' = Append(calls, rec("panic"))
  <2>1. UnwrapFailed(rec("panic"))
    BY <1>2, <1>0 DEF ForwardPanics, SlotSendPanics, UnwrapFailed
  <2>2. QED
    BY <1>0, <1>2, <2>1, PanicLogged DEF Forward, Results
<1>3. CASE slots[k] # t /\ ~ForwardPanics(k, b) /\ UNCHANGED poisoned
           /\ calls' = Append(calls, rec(IF slots[k] = "none" THEN "remote" ELSE "handler"))
  <2>1. (IF slots[k] = "none" THEN "remote" ELSE "handler") \in Results \ {"panic", "poisoned"}
    BY DEF Results
  <2>2. QED
    BY <1>0, <1>3, <2>1, QuietLogged DEF Forward
<1>4. QED
  BY <1>1, <1>2, <1>3 DEF Forward, Call

\* forward_bytes and forward_bytes_local: a panic is a bad body at a typed
\* slot; any other outcome is no refusal.
LEMMA IInvForwardBytes ==
    ASSUME IInv, NEW op \in {"forward_bytes", "forward_bytes_local"},
           NEW k \in Keys, NEW b \in Bodies, ForwardBytes(op, k, b)
    PROVE  IInv'
<1> DEFINE rec(res) == [op |-> op, key |-> k, ty |-> "raw", body |-> b,
                        slot |-> slots[k], result |-> res]
<1>0. \A res \in Results : rec(res) \in Calls
  BY RecordInCalls DEF IInv, Ops, Bodies, AllBodies
<1>1. CASE SlotSendPanics(k, b) /\ poisoned' = TRUE /\ calls' = Append(calls, rec("panic"))
  <2>1. UnwrapFailed(rec("panic"))
    BY <1>1 DEF SlotSendPanics, UnwrapFailed, MsgTypes
  <2>2. QED
    BY <1>0, <1>1, <2>1, PanicLogged DEF ForwardBytes, Results
<1>2. CASE ~SlotSendPanics(k, b) /\ UNCHANGED poisoned
           /\ calls' = Append(calls, rec(CASE slots[k] # "none" -> "handler"
                                          [] op = "forward_bytes" -> "remote"
                                          [] OTHER -> "NoEndpoint"))
  <2>1. (CASE slots[k] # "none" -> "handler"
           [] op = "forward_bytes" -> "remote"
           [] OTHER -> "NoEndpoint") \in Results \ {"panic", "poisoned"}
    BY Zenon DEF Results
  <2>2. QED
    BY <1>0, <1>2, <2>1, QuietLogged DEF ForwardBytes
<1>3. QED
  BY <1>1, <1>2 DEF ForwardBytes, Call

\* The RemoteRouter registers the key at the head of its mailbox.
LEMMA IInvRemoteHandle ==
    ASSUME IInv, RemoteHandle
    PROVE  IInv'
<1>1. /\ notifyQ # <<>>
      /\ notifyQ \in Seq(Keys)
      /\ remote' = remote \cup {Head(notifyQ)}
      /\ notifyQ' = Tail(notifyQ)
  BY DEF RemoteHandle, IInv, TypeOK
<1>2. Head(notifyQ) \in Keys /\ Tail(notifyQ) \in Seq(Keys)
  BY <1>1, HeadTailProperties
<1>3. TypeOK'
  BY <1>1, <1>2 DEF IInv, TypeOK, RemoteHandle
<1>4. RefusalsFollowUnwrapPanic' /\ PoisonLogged'
  BY DEF IInv, RefusalsFollowUnwrapPanic, PoisonLogged, PanicAt, UnwrapFailed,
         RemoteHandle
<1>5. QED
  BY <1>3, <1>4 DEF IInv

LEMMA IInvStep == IInv /\ [Next]_vars => IInv'
<1> SUFFICES ASSUME IInv, [Next]_vars PROVE IInv'
  OBVIOUS
<1>1. CASE \E k \in Keys, v \in SlotVariants : BindSlot(k, v)
  BY <1>1, IInvBindSlot
<1>2. CASE \E k \in Keys, t \in MsgTypes, b \in AllBodies : Forward(k, t, b)
  BY <1>2, IInvForward
<1>3. CASE \E op \in {"forward_bytes", "forward_bytes_local"}, k \in Keys,
             b \in Bodies : ForwardBytes(op, k, b)
  BY <1>3, IInvForwardBytes
<1>4. CASE \E op \in Ops \cup {"bind"}, k \in Keys, t \in {"raw"} \cup MsgTypes,
             b \in AllBodies : LockPoisoned(op, k, t, b)
  BY <1>4, IInvLockPoisoned
<1>5. CASE RemoteHandle
  BY <1>5, IInvRemoteHandle
<1>6. CASE UNCHANGED vars
  BY <1>6 DEF vars, IInv, TypeOK, RefusalsFollowUnwrapPanic, PoisonLogged,
              PanicAt, UnwrapFailed
<1>7. QED
  BY <1>1, <1>2, <1>3, <1>4, <1>5, <1>6 DEF Next

THEOREM InvariantHolds == Spec => []IInv
BY IInvInit, IInvStep, PTL DEF Spec

-----------------------------------------------------------------------------
(* The properties the legacy_router run checks, for every instance.        *)

\* forward, forward_bytes and forward_bytes_local under ROUTER's mutex:
\* every call the poisoned lock refuses follows a call that panicked in an
\* rmp_serde unwrap, and a call panics only there.
THEOREM RefusalsFollowPanic == Spec => []RefusalsFollowUnwrapPanic
BY InvariantHolds, PTL DEF IInv

\* Every state of the bus crate's router, its RemoteRouter mailbox and its
\* log of calls is well typed.
THEOREM LegacyTypeCorrect == Spec => []TypeOK
BY InvariantHolds, PTL DEF IInv

====
