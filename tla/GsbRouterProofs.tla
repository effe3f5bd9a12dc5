--------------------------- MODULE GsbRouterProofs ---------------------------
(***************************************************************************)
(* Proofs about the router registry and what it tells the broker         *)
(* (GsbRouter), for any prefixes, message types, unbind calls and bound  *)
(* on the RemoteRouter's mailbox: every state is well typed, and once    *)
(* every notification is through the broker advertises only keys bound  *)
(* here or abandoned by a dropped unbind future.                         *)
(*                                                                         *)
(* AdvertisedIsBound is not inductive: it says nothing while a           *)
(* notification is in the mailbox or an unbind future is pending.  The   *)
(* invariant says what the RemoteRouter will believe of each key once    *)
(* its mailbox is drained (WillAdvertise: the last note of the key in    *)
(* the mailbox is an Add, or there is none and the key is registered),   *)
(* and that such a key is bound, or still in the list of keys some       *)
(* unbind future, pending or dropped, has not sent a Remove for.         *)
(***************************************************************************)
EXTENDS GsbRouter, SequenceTheorems, TLAPS

\* Key k is in the list of an unbind future that has not sent its Remove.
InRest(k) ==
    \E u \in UnbindIds : futs[u].st \in {"pending", "dropped"} /\ k \in futs[u].rest

\* Mailbox q holds no note of key k.
Unnoted(q, k) == \A i \in 1..Len(q) : q[i].key # k

\* The last note of key k in mailbox q is an Add.
LastAdd(q, k) ==
    \E i \in 1..Len(q) :
        /\ q[i].key = k
        /\ q[i].op = "Add"
        /\ \A j \in (i + 1)..Len(q) : q[j].key # k

\* Once the mailbox is drained, the RemoteRouter has k registered.
WillAdvertise(k) == LastAdd(notifyQ, k) \/ (Unnoted(notifyQ, k) /\ k \in remote)

\* A key the broker will advertise is bound, or an unbind has yet to send
\* (or has dropped) its Remove.
AdvertCovered == \A k \in Keys : WillAdvertise(k) => k \in bound \/ InRest(k)

IInv == TypeOK /\ AdvertCovered

\* The record an unbind future is kept in.
FutStates == [st : UnbindStates, rest : SUBSET Keys, inflight : BOOLEAN]

-----------------------------------------------------------------------------
(* Type correctness.                                                       *)

LEMMA TypeInit == Init => TypeOK
BY EmptySeq DEF Init, TypeOK, UnbindStates

\* Every bind variant inserts a key of its own form and notifies it.
LEMMA BindKeyType ==
    ASSUME TypeOK, NEW k \in Keys, BindKey(k)
    PROVE  TypeOK'
<1>1. [op |-> "Add", key |-> k, from |-> "bind"] \in Notes
  BY DEF Notes
<1>2. QED
  BY <1>1, AppendProperties DEF BindKey, TypeOK

\* The keys Bind and BindRaw insert are keys.
LEMMA BindKeys ==
    ASSUME NEW a \in Prefixes, NEW t \in TypeIds
    PROVE  Append(a, t) \in Keys
BY DEF Keys

LEMMA UnbindType ==
    ASSUME TypeOK, NEW p \in Prefixes, NEW u \in UnbindIds, Unbind(p, u)
    PROVE  TypeOK'
<1>1. [st |-> "pending", rest |-> {k \in bound : IsBelow(p, k)}, inflight |-> FALSE]
        \in FutStates
  BY DEF TypeOK, FutStates, UnbindStates
<1>2. QED
  BY <1>1 DEF Unbind, TypeOK, FutStates

LEMMA UnbindPollType ==
    ASSUME TypeOK, NEW u \in UnbindIds, UnbindPoll(u)
    PROVE  TypeOK'
<1>1. futs[u] \in FutStates
  BY DEF TypeOK, FutStates
<1>2. CASE futs[u].rest = {} /\ futs' = [futs EXCEPT ![u].st = "done"]
           /\ UNCHANGED notifyQ
  BY <1>1, <1>2 DEF UnbindPoll, TypeOK, FutStates, UnbindStates
<1>3. CASE \E k \in futs[u].rest :
            /\ notifyQ' = Append(notifyQ, [op |-> "Remove", key |-> k, from |-> u])
            /\ futs' = [futs EXCEPT ![u].rest = @ \ {k}, ![u].inflight = TRUE]
  <2>1. PICK k \in futs[u].rest :
            /\ notifyQ' = Append(notifyQ, [op |-> "Remove", key |-> k, from |-> u])
            /\ futs' = [futs EXCEPT ![u].rest = @ \ {k}, ![u].inflight = TRUE]
    BY <1>3
  <2>2. [op |-> "Remove", key |-> k, from |-> u] \in Notes
    BY <1>1 DEF Notes, FutStates
  <2>3. notifyQ' \in Seq(Notes)
    BY <2>1, <2>2, AppendProperties DEF TypeOK
  <2>4. futs' \in [UnbindIds -> FutStates]
    BY <1>1, <2>1 DEF TypeOK, FutStates
  <2>5. QED
    BY <2>3, <2>4 DEF UnbindPoll, TypeOK, FutStates
<1>4. QED
  BY <1>2, <1>3 DEF UnbindPoll

LEMMA RemoteHandleType ==
    ASSUME TypeOK, RemoteHandle
    PROVE  TypeOK'
<1> DEFINE n == Head(notifyQ)
<1>1. n \in Notes /\ notifyQ' \in Seq(Notes)
  BY HeadTailProperties DEF RemoteHandle, TypeOK
<1>2. remote' \subseteq Keys
  BY <1>1 DEF RemoteHandle, TypeOK, Notes
<1>3. futs' \in [UnbindIds -> FutStates]
  BY <1>1 DEF RemoteHandle, TypeOK, Notes, FutStates
<1>4. QED
  BY <1>1, <1>2, <1>3 DEF RemoteHandle, TypeOK, FutStates

LEMMA TypeStep == TypeOK /\ [Next]_vars => TypeOK'
<1> SUFFICES ASSUME TypeOK, [Next]_vars PROVE TypeOK'
  OBVIOUS
<1>1. CASE \E a \in Prefixes, t \in TypeIds : Bind(a, t)
  BY <1>1, BindKeys, BindKeyType DEF Bind
<1>2. CASE \E a \in Prefixes : BindRaw(a)
  <2>1. Prefixes \subseteq Keys
    BY DEF Keys
  <2>2. QED
    BY <1>2, <2>1, BindKeyType DEF BindRaw
<1>3. CASE \E p \in Prefixes, u \in UnbindIds : Unbind(p, u)
  BY <1>3, UnbindType
<1>4. CASE \E u \in UnbindIds : UnbindPoll(u)
  BY <1>4, UnbindPollType
<1>5. CASE \E u \in UnbindIds : UnbindDrop(u)
  BY <1>5 DEF UnbindDrop, TypeOK, UnbindStates
<1>6. CASE RemoteHandle
  BY <1>6, RemoteHandleType
<1>7. CASE UNCHANGED vars
  BY <1>7 DEF vars, TypeOK
<1>8. QED
  BY <1>1, <1>2, <1>3, <1>4, <1>5, <1>6, <1>7 DEF Next

\* Every state of the router registry, the RemoteRouter's mailbox and the
\* unbind futures is well typed: the TypeOK that router_safety checks.
THEOREM RouterTypeCorrect == Spec => []TypeOK
BY TypeInit, TypeStep, PTL DEF Spec

-----------------------------------------------------------------------------
(* What a note added to, or taken from, the mailbox does to the fate of a *)
(* key.                                                                    *)

\* A note of another key leaves the fate of k as it was.
LEMMA AppendOther ==
    ASSUME NEW q \in Seq(Notes), NEW m \in Notes, NEW k, m.key # k
    PROVE  /\ LastAdd(Append(q, m), k) <=> LastAdd(q, k)
           /\ Unnoted(Append(q, m), k) <=> Unnoted(q, k)
<1>1. /\ Len(Append(q, m)) = Len(q) + 1
      /\ \A i \in 1..Len(q) : Append(q, m)[i] = q[i]
      /\ Append(q, m)[Len(q) + 1] = m
  BY AppendProperties
<1>2. Len(q) \in Nat
  BY LenProperties
<1>3. QED
  BY <1>1, <1>2 DEF LastAdd, Unnoted

\* A note of k decides its fate: k is advertised if the note is an Add.
LEMMA AppendSame ==
    ASSUME NEW q \in Seq(Notes), NEW m \in Notes, NEW k, m.key = k
    PROVE  /\ LastAdd(Append(q, m), k) <=> m.op = "Add"
           /\ ~Unnoted(Append(q, m), k)
<1>1. /\ Len(Append(q, m)) = Len(q) + 1
      /\ \A i \in 1..Len(q) : Append(q, m)[i] = q[i]
      /\ Append(q, m)[Len(q) + 1] = m
  BY AppendProperties
<1>2. Len(q) \in Nat
  BY LenProperties
<1>3. QED
  BY <1>1, <1>2 DEF LastAdd, Unnoted

\* Taking a note of another key leaves the fate of k as it was.
LEMMA TailOther ==
    ASSUME NEW q \in Seq(Notes), q # <<>>, NEW k, Head(q).key # k
    PROVE  /\ LastAdd(Tail(q), k) <=> LastAdd(q, k)
           /\ Unnoted(Tail(q), k) <=> Unnoted(q, k)
<1>1. /\ Head(q) = q[1]
      /\ Len(q) \in Nat /\ Len(q) > 0
      /\ Len(Tail(q)) = Len(q) - 1
      /\ \A i \in 1..Len(Tail(q)) : Tail(q)[i] = q[i + 1]
  BY HeadTailProperties, LenProperties, EmptySeq
<1>2. LastAdd(Tail(q), k) => LastAdd(q, k)
  BY <1>1 DEF LastAdd
<1>3. LastAdd(q, k) => LastAdd(Tail(q), k)
  <2> SUFFICES ASSUME NEW i \in 1..Len(q), q[i].key = k, q[i].op = "Add",
                      \A j \in (i + 1)..Len(q) : q[j].key # k
               PROVE  LastAdd(Tail(q), k)
    BY DEF LastAdd
  <2>1. i # 1
    BY <1>1
  <2>2. QED
    <3>1. i - 1 \in 1..Len(Tail(q)) /\ Tail(q)[i - 1] = q[i]
      BY <1>1, <2>1
    <3>2. \A j \in i..Len(Tail(q)) : Tail(q)[j].key # k
      BY <1>1
    <3>3. QED
      BY <3>1, <3>2 DEF LastAdd
<1>4. Unnoted(Tail(q), k) <=> Unnoted(q, k)
  BY <1>1 DEF Unnoted
<1>5. QED
  BY <1>2, <1>3, <1>4

\* Taking a note of k that is followed by another note of k leaves its
\* fate to the later notes.
LEMMA TailSameLater ==
    ASSUME NEW q \in Seq(Notes), q # <<>>, NEW k, Head(q).key = k,
           ~Unnoted(Tail(q), k)
    PROVE  /\ LastAdd(Tail(q), k) <=> LastAdd(q, k)
           /\ ~Unnoted(q, k)
<1>1. /\ Head(q) = q[1]
      /\ Len(q) \in Nat /\ Len(q) > 0
      /\ Len(Tail(q)) = Len(q) - 1
      /\ \A i \in 1..Len(Tail(q)) : Tail(q)[i] = q[i + 1]
  BY HeadTailProperties, LenProperties, EmptySeq
<1>2. PICK i0 \in 1..Len(Tail(q)) : Tail(q)[i0].key = k
  BY DEF Unnoted
<1>3. LastAdd(Tail(q), k) => LastAdd(q, k)
  <2> SUFFICES ASSUME NEW i \in 1..Len(Tail(q)), Tail(q)[i].key = k,
                      Tail(q)[i].op = "Add",
                      \A j \in (i + 1)..Len(Tail(q)) : Tail(q)[j].key # k
               PROVE  LastAdd(q, k)
    BY DEF LastAdd
  <2>1. i + 1 \in 1..Len(q) /\ q[i + 1] = Tail(q)[i]
    BY <1>1
  <2>2. \A j \in (i + 2)..Len(q) : q[j].key # k
    BY <1>1
  <2>3. QED
    BY <2>1, <2>2 DEF LastAdd
<1>4. LastAdd(q, k) => LastAdd(Tail(q), k)
  <2> SUFFICES ASSUME NEW i \in 1..Len(q), q[i].key = k, q[i].op = "Add",
                      \A j \in (i + 1)..Len(q) : q[j].key # k
               PROVE  LastAdd(Tail(q), k)
    BY DEF LastAdd
  <2>1. i # 1
    <3>1. i0 + 1 \in 2..Len(q) /\ q[i0 + 1].key = k
      BY <1>1, <1>2
    <3>2. QED
      BY <3>1
  <2>2. i - 1 \in 1..Len(Tail(q)) /\ Tail(q)[i - 1] = q[i]
    BY <1>1, <2>1
  <2>3. \A j \in i..Len(Tail(q)) : Tail(q)[j].key # k
    BY <1>1
  <2>4. QED
    BY <2>2, <2>3 DEF LastAdd
<1>5. ~Unnoted(q, k)
  BY <1>1 DEF Unnoted
<1>6. QED
  BY <1>3, <1>4, <1>5

\* Taking the last note of k: k's fate is now what that note made it.
LEMMA TailSameLast ==
    ASSUME NEW q \in Seq(Notes), q # <<>>, NEW k, Head(q).key = k,
           Unnoted(Tail(q), k)
    PROVE  /\ ~LastAdd(Tail(q), k)
           /\ LastAdd(q, k) <=> Head(q).op = "Add"
           /\ ~Unnoted(q, k)
<1>1. /\ Head(q) = q[1]
      /\ Len(q) \in Nat /\ Len(q) > 0
      /\ Len(Tail(q)) = Len(q) - 1
      /\ \A i \in 1..Len(Tail(q)) : Tail(q)[i] = q[i + 1]
  BY HeadTailProperties, LenProperties, EmptySeq
<1>2. \A j \in 2..Len(q) : q[j].key # k
  <2> SUFFICES ASSUME NEW j \in 2..Len(q) PROVE q[j].key # k
    OBVIOUS
  <2>1. j - 1 \in 1..Len(Tail(q)) /\ Tail(q)[j - 1] = q[j]
    BY <1>1
  <2>2. QED
    BY <2>1 DEF Unnoted
<1>3. QED
  BY <1>1, <1>2 DEF LastAdd, Unnoted

-----------------------------------------------------------------------------
(* The steps that keep every advertised key covered.                       *)

\* A step that keeps the mailbox, what the RemoteRouter has registered and
\* the binding, and keeps every key of a pending or dropped future's list
\* in such a list, keeps AdvertCovered.
LEMMA QuietCovered ==
    ASSUME AdvertCovered, UNCHANGED <<notifyQ, remote>>, bound \subseteq bound',
           \A k \in Keys : InRest(k) => InRest(k)'
    PROVE  AdvertCovered'
BY DEF AdvertCovered, WillAdvertise, LastAdd, Unnoted

\* bind: the key's last note is now an Add, and the key is bound.
LEMMA BindKeyCovered ==
    ASSUME IInv, NEW k0 \in Keys, BindKey(k0)
    PROVE  AdvertCovered'
<1> DEFINE m == [op |-> "Add", key |-> k0, from |-> "bind"]
<1>1. m \in Notes /\ notifyQ \in Seq(Notes) /\ notifyQ' = Append(notifyQ, m)
  BY DEF BindKey, IInv, TypeOK, Notes
<1>2. \A k \in Keys : InRest(k)' <=> InRest(k)
  BY DEF BindKey, InRest
<1>3. SUFFICES ASSUME NEW k \in Keys, WillAdvertise(k)'
               PROVE  k \in bound' \/ InRest(k)'
  BY DEF AdvertCovered
<1>4. CASE k = k0
  BY <1>4 DEF BindKey
<1>5. CASE k # k0
  <2>1. WillAdvertise(k)
    BY <1>1, <1>3, <1>5, AppendOther DEF WillAdvertise, BindKey
  <2>2. QED
    BY <1>2, <2>1 DEF IInv, AdvertCovered, BindKey
<1>6. QED
  BY <1>4, <1>5

\* unbind: every key it removes from the handlers goes into its future's
\* list, which is pending now.
LEMMA UnbindCovered ==
    ASSUME IInv, NEW p \in Prefixes, NEW u \in UnbindIds, Unbind(p, u)
    PROVE  AdvertCovered'
<1>1. futs[u].st = "unused"
  BY DEF Unbind
<1>2. \A k \in Keys : InRest(k) => InRest(k)'
  BY <1>1 DEF Unbind, InRest, IInv, TypeOK
<1>3. \A k \in bound : k \in bound' \/ InRest(k)'
  <2> SUFFICES ASSUME NEW k \in bound, k \notin bound' PROVE InRest(k)'
    OBVIOUS
  <2>1. IsBelow(p, k)
    BY DEF Unbind
  <2>2. futs'[u].st = "pending" /\ k \in futs'[u].rest
    BY <2>1 DEF Unbind, IInv, TypeOK
  <2>3. QED
    BY <2>2 DEF InRest
<1>4. QED
  BY <1>2, <1>3 DEF Unbind, IInv, AdvertCovered, WillAdvertise, LastAdd, Unnoted

\* A poll of an unbind future: it sends the Remove of one key of its list,
\* whose last note that Remove now is, or, with its list empty, is done.
LEMMA UnbindPollCovered ==
    ASSUME IInv, NEW u \in UnbindIds, UnbindPoll(u)
    PROVE  AdvertCovered'
<1>1. futs[u].st = "pending" /\ futs[u] \in FutStates
  BY DEF UnbindPoll, IInv, TypeOK, FutStates
<1>2. CASE futs[u].rest = {} /\ futs' = [futs EXCEPT ![u].st = "done"]
           /\ UNCHANGED notifyQ
  <2>1. \A k \in Keys : InRest(k) => InRest(k)'
    BY <1>1, <1>2 DEF InRest, IInv, TypeOK
  <2>2. QED
    BY <1>2, <2>1, QuietCovered DEF UnbindPoll, IInv
<1>3. CASE \E k \in futs[u].rest :
            /\ notifyQ' = Append(notifyQ, [op |-> "Remove", key |-> k, from |-> u])
            /\ futs' = [futs EXCEPT ![u].rest = @ \ {k}, ![u].inflight = TRUE]
  <2>1. PICK k0 \in futs[u].rest :
            /\ notifyQ' = Append(notifyQ, [op |-> "Remove", key |-> k0, from |-> u])
            /\ futs' = [futs EXCEPT ![u].rest = @ \ {k0}, ![u].inflight = TRUE]
    BY <1>3
  <2> DEFINE m == [op |-> "Remove", key |-> k0, from |-> u]
  <2>2. m \in Notes /\ notifyQ \in Seq(Notes)
    BY <1>1 DEF Notes, FutStates, IInv, TypeOK
  <2>3. \A k \in Keys \ {k0} : InRest(k) => InRest(k)'
    BY <1>1, <2>1 DEF InRest, IInv, TypeOK
  <2>4. SUFFICES ASSUME NEW k \in Keys, WillAdvertise(k)'
                 PROVE  k \in bound' \/ InRest(k)'
    BY DEF AdvertCovered
  <2>5. CASE k = k0
    <3>1. ~LastAdd(notifyQ', k) /\ ~Unnoted(notifyQ', k)
      BY <2>1, <2>2, <2>5, AppendSame
    <3>2. QED
      BY <2>4, <3>1 DEF WillAdvertise
  <2>6. CASE k # k0
    <3>1. WillAdvertise(k)
      BY <2>1, <2>2, <2>4, <2>6, AppendOther DEF WillAdvertise, UnbindPoll
    <3>2. QED
      BY <2>3, <2>6, <3>1 DEF IInv, AdvertCovered, UnbindPoll
  <2>7. QED
    BY <2>5, <2>6
<1>4. QED
  BY <1>2, <1>3 DEF UnbindPoll

\* A dropped future keeps its list: its keys stay covered, as abandoned.
LEMMA UnbindDropCovered ==
    ASSUME IInv, NEW u \in UnbindIds, UnbindDrop(u)
    PROVE  AdvertCovered'
<1>1. \A k \in Keys : InRest(k) => InRest(k)'
  BY DEF UnbindDrop, InRest, IInv, TypeOK
<1>2. QED
  BY <1>1, QuietCovered DEF UnbindDrop, IInv

\* The RemoteRouter handles the oldest note: no key's fate changes.
LEMMA RemoteHandleCovered ==
    ASSUME IInv, RemoteHandle
    PROVE  AdvertCovered'
<1> DEFINE n == Head(notifyQ)
<1>1. notifyQ \in Seq(Notes) /\ notifyQ # <<>> /\ notifyQ' = Tail(notifyQ)
  BY DEF RemoteHandle, IInv, TypeOK
<1>2. \A k \in Keys : InRest(k)' <=> InRest(k)
  BY DEF RemoteHandle, InRest, IInv, TypeOK
<1>3. \A k \in Keys : WillAdvertise(k)' => WillAdvertise(k)
  <2> SUFFICES ASSUME NEW k \in Keys, WillAdvertise(k)' PROVE WillAdvertise(k)
    OBVIOUS
  <2>1. CASE n.key # k
    <3>1. k \in remote' <=> k \in remote
      BY <2>1 DEF RemoteHandle
    <3>2. QED
      BY <1>1, <2>1, <3>1, TailOther DEF WillAdvertise
  <2>2. CASE n.key = k /\ ~Unnoted(Tail(notifyQ), k)
    BY <1>1, <2>2, TailSameLater DEF WillAdvertise
  <2>3. CASE n.key = k /\ Unnoted(Tail(notifyQ), k)
    <3>1. ~LastAdd(notifyQ', k) /\ (LastAdd(notifyQ, k) <=> n.op = "Add")
      BY <1>1, <2>3, TailSameLast
    <3>2. k \in remote'
      BY <2>3, <3>1 DEF WillAdvertise
    <3>3. n.op = "Add"
      BY <2>3, <3>2 DEF RemoteHandle
    <3>4. QED
      BY <3>1, <3>3 DEF WillAdvertise
  <2>4. QED
    BY <2>1, <2>2, <2>3
<1>4. QED
  BY <1>2, <1>3 DEF RemoteHandle, IInv, AdvertCovered

LEMMA IInvInit == Init => IInv
BY TypeInit, EmptySeq DEF Init, IInv, AdvertCovered, WillAdvertise, LastAdd, Unnoted

LEMMA IInvStep == IInv /\ [Next]_vars => IInv'
<1> SUFFICES ASSUME IInv, [Next]_vars PROVE IInv'
  OBVIOUS
<1>1. TypeOK'
  BY TypeStep DEF IInv
<1>2. AdvertCovered'
  <2>1. CASE \E a \in Prefixes, t \in TypeIds : Bind(a, t)
    BY <2>1, BindKeys, BindKeyCovered DEF Bind
  <2>2. CASE \E a \in Prefixes : BindRaw(a)
    <3>1. Prefixes \subseteq Keys
      BY DEF Keys
    <3>2. QED
      BY <2>2, <3>1, BindKeyCovered DEF BindRaw
  <2>3. CASE \E p \in Prefixes, u \in UnbindIds : Unbind(p, u)
    BY <2>3, UnbindCovered
  <2>4. CASE \E u \in UnbindIds : UnbindPoll(u)
    BY <2>4, UnbindPollCovered
  <2>5. CASE \E u \in UnbindIds : UnbindDrop(u)
    BY <2>5, UnbindDropCovered
  <2>6. CASE RemoteHandle
    BY <2>6, RemoteHandleCovered
  <2>7. CASE UNCHANGED vars
    BY <2>7 DEF vars, IInv, AdvertCovered, WillAdvertise, LastAdd, Unnoted, InRest
  <2>8. QED
    BY <2>1, <2>2, <2>3, <2>4, <2>5, <2>6, <2>7 DEF Next
<1>3. QED
  BY <1>1, <1>2 DEF IInv

\* The router's binding, the RemoteRouter's mailbox and the unbind futures
\* keep every key the broker will advertise bound or listed for a Remove.
THEOREM RouterInvariant == Spec => []IInv
BY IInvInit, IInvStep, PTL DEF Spec

\* Once quiet, every key the invariant covers is bound or abandoned.
LEMMA QuietAdvertised == IInv => AdvertisedIsBound
<1> SUFFICES ASSUME IInv, Quiet, NEW k \in remote PROVE k \in bound \cup Abandoned
  BY DEF AdvertisedIsBound
<1>1. k \in Keys /\ WillAdvertise(k)
  BY EmptySeq DEF Quiet, IInv, TypeOK, WillAdvertise, Unnoted
<1>2. k \in bound \/ InRest(k)
  BY <1>1 DEF IInv, AdvertCovered
<1>3. InRest(k) => k \in Abandoned
  BY DEF InRest, Quiet, Abandoned
<1>4. QED
  BY <1>2, <1>3

\* Whatever the order of the binds, unbinds, polls and drops of several
\* tasks, once the RemoteRouter's mailbox is empty and no unbind future is
\* pending, the broker advertises only keys bound here or left behind by
\* a dropped unbind future: the AdvertisedIsBound that router_safety checks.
THEOREM AdvertisedBound == Spec => []AdvertisedIsBound
BY RouterInvariant, QuietAdvertised, PTL
====
