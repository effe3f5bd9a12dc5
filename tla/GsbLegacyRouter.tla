---------------------------- MODULE GsbLegacyRouter ----------------------------
(***************************************************************************)
(* The futures-0.1 router of the bus crate (src/bus/src/local_router.rs). *)
(* Router::new is private and ROUTER, a Mutex, holds the only Router, so  *)
(* every method runs with the mutex held, one at a time.  bind,           *)
(* bind_actor and bind_raw insert a slot (replacing one at the same key)  *)
(* and do_send UpdateService::Add to the RemoteRouter; there is no        *)
(* unbind.  forward, forward_bytes and forward_bytes_local look the slot  *)
(* up and build the call to it or to the RemoteRouter under the lock;     *)
(* for a typed slot reached with bytes, that means decoding the body with *)
(* rmp_serde::decode::from_read(..).unwrap().                             *)
(*                                                                         *)
(* forward<T> also reaches those decodes: when the slot at its key is no *)
(* Recipient<RpcEnvelope<T>> (a raw slot, or a typed slot of another Rust *)
(* type whose RpcMessage::ID is the same string) it encodes the message   *)
(* with rmp_serde::to_vec(..).unwrap() and calls slot.send.               *)
(*                                                                         *)
(* Keys are abstract: a typed key stands for format!("{}/{}", addr,       *)
(* T::ID); the longest-prefix lookup is modelled in GsbRouter, so here an *)
(* address finds the slot bound at its own key or none.  MsgTypes are two *)
(* Rust message types that share one ID, so either can be bound at a key. *)
(***************************************************************************)
EXTENDS Naturals, Sequences

CONSTANTS
    Keys,      \* the addresses bound and called
    MaxOps     \* bound on the router calls a run makes

ASSUME LegacyConstantsOK == MaxOps \in Nat

\* The bytes a call carries: "good" decode as the typed slot's T, "bad" do
\* not; "unencodable" is a forward<T> message that rmp_serde::to_vec fails on.
Bodies == {"good", "bad"}
AllBodies == Bodies \cup {"unencodable"}
Ops == {"forward", "forward_bytes", "forward_bytes_local"}
Results == {"handler", "remote", "NoEndpoint", "panic", "poisoned"}

\* Two Rust message types with the same RpcMessage::ID.
MsgTypes == {"A", "B"}

\* Mutant of SlotVariants: a third, dual, variant of slot.
SlotVariantsDual == {"raw", "dual"} \cup MsgTypes

\* A Slot wraps a Recipient<RpcEnvelope<T>> for one message type T
\* (from_handler, from_actor) or a Recipient<RpcRawCall> (from_raw);
\* Slot::recipient::<T> downcasts to the first.
SlotVariants == {"raw"} \cup MsgTypes

VARIABLES
    slots,     \* Router.handlers: the variant bound at each key
    notifyQ,   \* the RemoteRouter's mailbox of UpdateService::Add
    remote,    \* the keys the RemoteRouter has registered
    poisoned,  \* ROUTER's mutex is poisoned
    calls      \* the router calls made so far and what they led to

vars == <<slots, notifyQ, remote, poisoned, calls>>

\* A logged call: the operation, key, message type ("raw" for bytes), body,
\* the slot it found at the key, and its result.
Calls == [op : Ops \cup {"bind"}, key : Keys, ty : {"raw"} \cup MsgTypes,
          body : AllBodies, slot : {"none", "raw"} \cup MsgTypes, result : Results]

TypeOK ==
    /\ slots \in [Keys -> {"none", "raw"} \cup MsgTypes]
    /\ notifyQ \in Seq(Keys)
    /\ remote \subseteq Keys
    /\ poisoned \in BOOLEAN
    /\ calls \in Seq(Calls)

Init ==
    /\ slots = [k \in Keys |-> "none"]
    /\ notifyQ = <<>>
    /\ remote = {}
    /\ poisoned = FALSE
    /\ calls = <<>>

\* Slot::send with bytes: the typed endpoint decodes them with unwrap, which
\* panics on a body that is not its T; the raw endpoint passes them on.
SlotSendPanics(k, b) == slots[k] \in MsgTypes /\ b = "bad"

\* Record a call; every call takes the lock, so none runs once it is poisoned.
Call(op, k, t, b, res) ==
    calls' = Append(calls, [op |-> op, key |-> k, ty |-> t, body |-> b,
                            slot |-> slots[k], result |-> res])

-----------------------------------------------------------------------------
\* A caller's router().lock() finds the mutex poisoned: the call is refused.
LockPoisoned(op, k, t, b) ==
    /\ poisoned
    /\ Len(calls) < MaxOps
    /\ Call(op, k, t, b, "poisoned")
    /\ UNCHANGED <<slots, notifyQ, remote, poisoned>>

\* bind (Slot::from_handler) and bind_actor (Slot::from_actor) insert a
\* slot typed by T, bind_raw (Slot::from_raw) a raw one; each then does
\* do_send(UpdateService::Add(addr)).
BindSlot(k, v) ==
    /\ ~poisoned
    /\ Len(calls) < MaxOps
    /\ slots' = [slots EXCEPT ![k] = v]
    /\ notifyQ' = Append(notifyQ, k)
    /\ Call("bind", k, v, "good", "handler")
    /\ UNCHANGED <<remote, poisoned>>

\* forward<T> past the downcast: to_vec(&msg).unwrap() (lines 147, 158)
\* panics on an unencodable message, and slot.send decodes at a typed slot.
ForwardPanics(k, b) == b = "unencodable" \/ SlotSendPanics(k, b)

\* Mutant of Forward: the downcast is skipped, every forward goes by bytes.
ForwardNoDowncast(k, t, b) ==
    /\ ~poisoned
    /\ Len(calls) < MaxOps
    /\ poisoned' = ForwardPanics(k, b)
    /\ Call("forward", k, t, b, CASE ForwardPanics(k, b) -> "panic"
                                 [] slots[k] = "none" -> "remote"
                                 [] OTHER -> "handler")
    /\ UNCHANGED <<slots, notifyQ, remote>>

\* forward<T>: a slot that downcasts to Recipient<RpcEnvelope<T>> is sent
\* the envelope as it is.  Otherwise the message is encoded with unwrap and
\* sent as an RpcRawCall to the slot (whose send decodes it with unwrap if
\* it is typed by another T) or, with no slot, to the RemoteRouter.  A
\* panic in either unwrap happens with the lock held and poisons it.
Forward(k, t, b) ==
    /\ ~poisoned
    /\ Len(calls) < MaxOps
    /\ \/ /\ slots[k] = t
          /\ Call("forward", k, t, b, "handler")
          /\ UNCHANGED poisoned
       \/ /\ slots[k] # t
          /\ ForwardPanics(k, b)
          /\ poisoned' = TRUE
          /\ Call("forward", k, t, b, "panic")
       \/ /\ slots[k] # t
          /\ ~ForwardPanics(k, b)
          /\ Call("forward", k, t, b, IF slots[k] = "none" THEN "remote" ELSE "handler")
          /\ UNCHANGED poisoned
    /\ UNCHANGED <<slots, notifyQ, remote>>

\* forward_bytes and forward_bytes_local: slot.send(RpcRawCall); the typed
\* endpoint's send decodes the body with unwrap, and an undecodable body
\* panics with the lock held.  With no slot, forward_bytes sends to the
\* RemoteRouter and forward_bytes_local answers NoEndpoint.
ForwardBytes(op, k, b) ==
    /\ ~poisoned
    /\ Len(calls) < MaxOps
    /\ op \in {"forward_bytes", "forward_bytes_local"}
    /\ \/ /\ SlotSendPanics(k, b)
          /\ poisoned' = TRUE
          /\ Call(op, k, "raw", b, "panic")
       \/ /\ ~SlotSendPanics(k, b)
          /\ UNCHANGED poisoned
          /\ Call(op, k, "raw", b, CASE slots[k] # "none" -> "handler"
                                     [] op = "forward_bytes" -> "remote"
                                     [] OTHER -> "NoEndpoint")
    /\ UNCHANGED <<slots, notifyQ, remote>>

\* The RemoteRouter handles the next UpdateService::Add.
RemoteHandle ==
    /\ notifyQ # <<>>
    /\ remote' = remote \cup {Head(notifyQ)}
    /\ notifyQ' = Tail(notifyQ)
    /\ UNCHANGED <<slots, poisoned, calls>>

Next ==
    \/ \E k \in Keys, v \in SlotVariants : BindSlot(k, v)
    \/ \E k \in Keys, t \in MsgTypes, b \in AllBodies : Forward(k, t, b)
    \/ \E op \in {"forward_bytes", "forward_bytes_local"}, k \in Keys, b \in Bodies :
         ForwardBytes(op, k, b)
    \/ \E op \in Ops \cup {"bind"}, k \in Keys, t \in {"raw"} \cup MsgTypes, b \in AllBodies :
         LockPoisoned(op, k, t, b)
    \/ RemoteHandle

Spec == Init /\ [][Next]_vars

-----------------------------------------------------------------------------
(* Properties.                                                             *)

\* Call c hit one of the two unwraps: its message could not be encoded
\* (forward, lines 147/158), or its bytes reached a slot typed by another
\* message type than its own and did not decode as that type (line 29).
UnwrapFailed(c) ==
    \/ c.body = "unencodable"
    \/ c.body = "bad" /\ c.slot \in MsgTypes \ {c.ty}

\* The ROUTER mutex is poisoned only by the rmp_serde unwraps of forward
\* and of the typed Slot::send: every call the lock refuses comes after a
\* call that panicked there, and a forward whose slot downcast to its own
\* type never panics.
RefusalsFollowUnwrapPanic ==
    \A i \in 1..Len(calls) :
        /\ calls[i].result = "poisoned" =>
               \E j \in 1..(i - 1) : calls[j].result = "panic" /\ UnwrapFailed(calls[j])
        /\ calls[i].result = "panic" => UnwrapFailed(calls[i])

\* Spec 7: a serialization failure is an error of the call.  A call with a
\* well-formed body is never refused or ended by a panic.
GoodCallsNeverFail ==
    \A i \in 1..Len(calls) :
        calls[i].body = "good" => calls[i].result \notin {"panic", "poisoned"}
====
