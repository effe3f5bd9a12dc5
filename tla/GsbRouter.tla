------------------------------- MODULE GsbRouter -------------------------------
(***************************************************************************)
(* The local router of src/src/local_router.rs and what it tells the      *)
(* broker.  Router is a process-wide singleton behind a Mutex, so each of *)
(* bind, bind_raw and unbind runs atomically; what runs later is the      *)
(* future unbind returns, which sends one UpdateService::Remove per       *)
(* removed address to the RemoteRouter actor and awaits each answer       *)
(* before sending the next.  bind tells the RemoteRouter with do_send, at *)
(* once.  The RemoteRouter handles its mailbox in order; its view of what *)
(* is registered with the broker is `remote`.                             *)
(*                                                                         *)
(* An address is a sequence of path segments, so "/a/b" is <<"a","b">>.   *)
(* The PrefixLookupBag of ya_sb_util (not in this repository) is modelled *)
(* from its contract: the longest bound key equal to the address or a     *)
(* prefix of it at a "/" boundary.                                        *)
(***************************************************************************)
EXTENDS Naturals, Sequences, FiniteSets

CONSTANTS
    Prefixes,    \* the addresses services are bound at and unbound from
    TypeIds,     \* T::ID of the typed messages bound
    UnbindIds,   \* the unbind calls a run makes (each one once)
    MaxQueue,    \* bound on the RemoteRouter's mailbox
    AllowDrop    \* whether a caller may drop the future unbind returned

ASSUME RouterConstantsOK ==
    /\ Prefixes \subseteq Seq(STRING) \ {<<>>}
    /\ TypeIds \subseteq STRING
    /\ MaxQueue \in Nat \ {0}
    /\ AllowDrop \in BOOLEAN

\* format!("{}/{}", addr, T::ID) for a typed bind; the address itself for
\* bind_raw and bind_raw_dual.
Keys == {Append(a, t) : a \in Prefixes, t \in TypeIds} \cup Prefixes

NoSlot == <<>>

\* k is a key the address a falls under: equal, or a prefix at a boundary.
IsPrefixOf(k, a) == Len(k) <= Len(a) /\ SubSeq(a, 1, Len(k)) = k

\* unbind's filter: keys starting with addr + "/", i.e. strictly below addr.
IsBelow(p, k) == Len(p) < Len(k) /\ IsPrefixOf(p, k)

\* PrefixLookupBag::get_mut: the longest bound key a falls under.
LookupIn(B, a) ==
    LET C == {k \in B : IsPrefixOf(k, a)} IN
    IF C = {} THEN NoSlot ELSE CHOOSE k \in C : \A j \in C : Len(j) <= Len(k)

\* Router::forward and the other routing operations: the slot found, or the
\* broker (RemoteRouter) when no bound key covers the address.
Route(B, a) == IF LookupIn(B, a) = NoSlot THEN "broker" ELSE LookupIn(B, a)

UnbindStates == {"unused", "pending", "done", "dropped"}
Notes == [op : {"Add", "Remove"}, key : Keys, from : UnbindIds \cup {"bind"}]

VARIABLES
    bound,      \* the keys of Router.handlers
    notifyQ,    \* the RemoteRouter's mailbox of UpdateService messages
    futs,       \* per unbind call: its future
    remote      \* the addresses the RemoteRouter has registered

vars == <<bound, notifyQ, futs, remote>>

TypeOK ==
    /\ bound \subseteq Keys
    /\ notifyQ \in Seq(Notes)
    /\ futs \in [UnbindIds -> [st : UnbindStates, rest : SUBSET Keys,
                               inflight : BOOLEAN]]
    /\ remote \subseteq Keys

Init ==
    /\ bound = {}
    /\ notifyQ = <<>>
    /\ futs = [u \in UnbindIds |-> [st |-> "unused", rest |-> {}, inflight |-> FALSE]]
    /\ remote = {}

-----------------------------------------------------------------------------
\* The handlers.insert of every bind variant (replacing a slot bound at the
\* same key) and its do_send(UpdateService::Add(addr)).
BindKey(k) ==
    /\ Len(notifyQ) < MaxQueue
    /\ bound' = bound \cup {k}
    /\ notifyQ' = Append(notifyQ, [op |-> "Add", key |-> k, from |-> "bind"])
    /\ UNCHANGED <<futs, remote>>

\* bind, bind_stream, bind_actor, bind_stream_actor: the key ends in T::ID.
Bind(a, t) == BindKey(Append(a, t))

\* bind_raw, bind_raw_dual: the key is the address.
BindRaw(a) == BindKey(a)

\* Mutant of Unbind: the addresses are collected after they were removed.
UnbindLate(p, u) ==
    /\ futs[u].st = "unused"
    /\ bound' = {k \in bound : ~IsBelow(p, k)}
    /\ futs' = [futs EXCEPT ![u] = [st |-> "pending",
                                    rest |-> {k \in bound' : IsBelow(p, k)},
                                    inflight |-> FALSE]]
    /\ UNCHANGED <<notifyQ, remote>>

\* unbind: every key below the address is removed from the handlers at
\* once; the returned future holds the list of removed keys.
Unbind(p, u) ==
    /\ futs[u].st = "unused"
    /\ bound' = {k \in bound : ~IsBelow(p, k)}
    /\ futs' = [futs EXCEPT ![u] = [st |-> "pending",
                                    rest |-> {k \in bound : IsBelow(p, k)},
                                    inflight |-> FALSE]]
    /\ UNCHANGED <<notifyQ, remote>>

\* Mutant of UnbindPoll: the finished future is marked with a state of its own.
UnbindPollReady(u) ==
    /\ futs[u].st = "pending"
    /\ ~futs[u].inflight
    /\ \/ /\ futs[u].rest = {}
          /\ futs' = [futs EXCEPT ![u].st = "ready"]
          /\ UNCHANGED notifyQ
       \/ \E k \in futs[u].rest :
            /\ Len(notifyQ) < MaxQueue
            /\ notifyQ' = Append(notifyQ, [op |-> "Remove", key |-> k, from |-> u])
            /\ futs' = [futs EXCEPT ![u].rest = @ \ {k}, ![u].inflight = TRUE]
    /\ UNCHANGED <<bound, remote>>

\* A poll of the unbind future once the previous send was answered: the
\* next Remove is sent, or with none left the future is ready.
UnbindPoll(u) ==
    /\ futs[u].st = "pending"
    /\ ~futs[u].inflight
    /\ \/ /\ futs[u].rest = {}
          /\ futs' = [futs EXCEPT ![u].st = "done"]
          /\ UNCHANGED notifyQ
       \/ \E k \in futs[u].rest :
            /\ Len(notifyQ) < MaxQueue
            /\ notifyQ' = Append(notifyQ, [op |-> "Remove", key |-> k, from |-> u])
            /\ futs' = [futs EXCEPT ![u].rest = @ \ {k}, ![u].inflight = TRUE]
    /\ UNCHANGED <<bound, remote>>

\* The caller drops the future: the Removes not sent yet are never sent.
UnbindDrop(u) ==
    /\ AllowDrop
    /\ futs[u].st = "pending"
    /\ futs' = [futs EXCEPT ![u].st = "dropped"]
    /\ UNCHANGED <<bound, notifyQ, remote>>

\* The RemoteRouter handles the next UpdateService and answers its sender.
RemoteHandle ==
    /\ notifyQ # <<>>
    /\ LET n == Head(notifyQ) IN
       /\ remote' = IF n.op = "Add" THEN remote \cup {n.key} ELSE remote \ {n.key}
       /\ futs' = IF n.from = "bind" THEN futs
                  ELSE [futs EXCEPT ![n.from].inflight = FALSE]
    /\ notifyQ' = Tail(notifyQ)
    /\ UNCHANGED bound

Next ==
    \/ \E a \in Prefixes, t \in TypeIds : Bind(a, t)
    \/ \E a \in Prefixes : BindRaw(a)
    \/ \E p \in Prefixes, u \in UnbindIds : Unbind(p, u)
    \/ \E u \in UnbindIds : UnbindPoll(u) \/ UnbindDrop(u)
    \/ RemoteHandle

Spec == Init /\ [][Next]_vars

-----------------------------------------------------------------------------
(* Properties.                                                             *)

\* Nothing is in flight: the mailbox is empty and no unbind future is
\* still to be polled.
Quiet == notifyQ = <<>> /\ \A u \in UnbindIds : futs[u].st # "pending"

\* The keys whose Remove a dropped unbind future never sent.
Abandoned == UNION {futs[u].rest : u \in {v \in UnbindIds : futs[v].st = "dropped"}}

\* Once every notification is through, the broker advertises no address
\* that is not bound here, except one whose unbind future was dropped
\* before it sent the Remove: a remote peer is never routed to a service
\* this node unbound, whatever the order of the binds and unbinds of
\* several tasks.
AdvertisedIsBound == Quiet => remote \subseteq bound \cup Abandoned

\* Spec section 4.C: on every bind the broker is told of the address, and
\* the local registry is authoritative: once every notification is through,
\* every bound address is advertised.
BoundIsAdvertised == Quiet => bound \subseteq remote

\* Spec P3: after unbind(p) every forward to an address below p falls
\* through to the broker.
UnbindClearsSubtree ==
    [][\A p \in Prefixes, u \in UnbindIds :
         Unbind(p, u) => \A a \in Keys : IsBelow(p, a) => Route(bound', a) = "broker"]_vars

====
