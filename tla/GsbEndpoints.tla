------------------------------ MODULE GsbEndpoints ------------------------------
(***************************************************************************)
(* Requests that connections serve through the process-wide router        *)
(* (src/src/local_router.rs) and its RawEndpoint adapters.                *)
(*                                                                         *)
(* Each connection actor hands a CallRequest (no_reply = false) or a      *)
(* PushRequest (no_reply = true) to LocalRouterHandler::do_call            *)
(* (src/src/connection.rs), which takes the router's mutex with           *)
(* lock().unwrap() and calls forward_bytes_local under it.  That looks    *)
(* up the slot and calls its send or call_stream, whose synchronous part  *)
(* (deserializing the body included) runs with the lock held; the stream  *)
(* it returns is polled later by the connection, while handler actors     *)
(* produce its items.                                                      *)
(*                                                                         *)
(* A panic under the lock poisons the mutex: every later lock().unwrap()  *)
(* panics too.  A panic inside an actor's handler ends that actor's task  *)
(* (an unwinding build; with panic = "abort" the process ends instead).   *)
(*                                                                         *)
(* Bodies are "good" or "bad" (not decodable as the endpoint's type);     *)
(* payloads are otherwise abstract, and serializing a decoded value is    *)
(* taken to succeed.                                                       *)
(***************************************************************************)
EXTENDS Naturals, Sequences

CONSTANTS
    Conns,       \* connection actors serving requests
    Reqs,        \* requests sent to them by their peers
    Addrs,       \* addresses
    EndpointOf,  \* what is bound at each address
    MaxChunks    \* bound on the items a streaming handler produces

\* The slot variants of Slot::from_* : a typed handler or actor
\* (Recipient<RpcEnvelope<T>>), a typed streaming one
\* (Recipient<RpcStreamCall<T>>), raw, raw streaming and dual raw.
EndpointKinds == {"unary", "stream", "raw", "rawstream", "dual"}

ASSUME EndpointsOK ==
    /\ EndpointOf \in [Addrs -> EndpointKinds \cup {"none"}]
    /\ MaxChunks \in Nat

Bodies == {"good", "bad"}
Items == {"Part", "Full", "Err"}

\* A request: the connection it arrives on, its address, its body, whether
\* it is a push, and how the handler it reaches will end ("ok", or "err":
\* a handler error or a closed mailbox).
Requests == [conn : Conns, addr : Addrs, body : Bodies, push : BOOLEAN,
             reply : {"ok", "err"}]

\* Mutant of SendPath: DualRawEndpoint::send does not delegate to its
\* unary side.
SendPathNoDelegate == [unary |-> "unary", stream |-> "refused", raw |-> "raw",
                       rawstream |-> "rawFirst", dual |-> "dual"]

\* The adapter a push takes: RawEndpoint::send of the slot's variant.
SendPath == [unary |-> "unary", stream |-> "refused", raw |-> "raw",
             rawstream |-> "rawFirst", dual |-> "raw"]

\* The adapter a call takes: RawEndpoint::call_stream of the variant.
StreamPath == [unary |-> "unary", stream |-> "typedStream", raw |-> "raw",
               rawstream |-> "rawStream", dual |-> "rawStream"]

Paths == {"none", "noEndpoint", "refused", "unary", "typedStream", "raw",
          "rawFirst", "rawStream"}

VARIABLES
    req,       \* the requests, fixed by the peers
    alive,     \* per connection: its actor's task still runs
    poisoned,  \* the router's mutex is poisoned
    st,        \* per request: sent, handling, ended, panicked or dropped
    path,      \* per request: the adapter do_call took
    items      \* per request: the items its reply stream has yielded

vars == <<req, alive, poisoned, st, path, items>>

TypeOK ==
    /\ req \in [Reqs -> Requests]
    /\ alive \in [Conns -> BOOLEAN]
    /\ poisoned \in BOOLEAN
    /\ st \in [Reqs -> {"sent", "handling", "ended", "panicked", "dropped"}]
    /\ path \in [Reqs -> Paths]
    /\ items \in [Reqs -> Seq(Items)]

Init ==
    /\ req \in [Reqs -> Requests]
    /\ alive = [c \in Conns |-> TRUE]
    /\ poisoned = FALSE
    /\ st = [r \in Reqs |-> "sent"]
    /\ path = [r \in Reqs |-> "none"]
    /\ items = [r \in Reqs |-> <<>>]

\* forward_bytes_local and Slot::send / send_streaming: the adapter a
\* request reaches.
PathOf(r) ==
    LET k == EndpointOf[req[r].addr] IN
    IF k = "none" THEN "noEndpoint"
    ELSE IF req[r].push THEN SendPath[k] ELSE StreamPath[k]

\* Mutant of PanicsUnderLock: the typed unary adapter unwraps its decode too.
PanicsUnderLockAnyDecode(r) ==
    PathOf(r) \in {"typedStream", "unary"} /\ req[r].body = "bad"

\* Recipient<RpcStreamCall<T>>::call_stream: from_slice(..).unwrap() on a
\* body it cannot decode panics, with the router locked.
PanicsUnderLock(r) == PathOf(r) = "typedStream" /\ req[r].body = "bad"

\* Streams that fail at once: NoEndpoint, the streaming endpoint's refusal
\* of send, and a typed unary endpoint's decode error (its early return).
FailsAtOnce(r) ==
    \/ PathOf(r) \in {"noEndpoint", "refused"}
    \/ PathOf(r) = "unary" /\ req[r].body = "bad"

\* A panic ends the connection actor's task: the request panics and every
\* other request of that connection is dropped with it.
Panic(r) ==
    LET c == req[r].conn IN
    /\ alive' = [alive EXCEPT ![c] = FALSE]
    /\ st' = [q \in Reqs |->
                IF q = r THEN "panicked"
                ELSE IF req[q].conn = c /\ st[q] \in {"sent", "handling"}
                     THEN "dropped" ELSE st[q]]

-----------------------------------------------------------------------------
(* The connection: do_call under the router's mutex.                      *)

\* handle_call_request / handle_push_request call LocalRouterHandler::do_call:
\* router().lock().unwrap().forward_bytes_local(..).
DoCall(r) ==
    /\ alive[req[r].conn]
    /\ st[r] = "sent"
    /\ \/ /\ poisoned
          /\ Panic(r)
          /\ UNCHANGED <<poisoned, path, items>>
       \/ /\ ~poisoned
          /\ PanicsUnderLock(r)
          /\ Panic(r)
          /\ poisoned' = TRUE
          /\ UNCHANGED <<path, items>>
       \/ /\ ~poisoned
          /\ FailsAtOnce(r)
          /\ path' = [path EXCEPT ![r] = PathOf(r)]
          /\ items' = [items EXCEPT ![r] = <<"Err">>]
          /\ st' = [st EXCEPT ![r] = "ended"]
          /\ UNCHANGED <<alive, poisoned>>
       \/ /\ ~poisoned
          /\ ~PanicsUnderLock(r) /\ ~FailsAtOnce(r)
          /\ path' = [path EXCEPT ![r] = PathOf(r)]
          /\ st' = [st EXCEPT ![r] = "handling"]
          /\ UNCHANGED <<alive, poisoned, items>>
    /\ UNCHANGED req

-----------------------------------------------------------------------------
(* The handlers behind the adapters, producing the reply streams.         *)

\* Recipient<RpcStreamCall<T>>::call_stream: the handler sends an item
\* into reply (a channel of 16), which rx.then(..) turns into a Part.
StreamItem(r) ==
    /\ st[r] = "handling" /\ path[r] = "typedStream"
    /\ Len(items[r]) < MaxChunks
    /\ items' = [items EXCEPT ![r] = Append(@, "Part")]
    /\ UNCHANGED <<req, alive, poisoned, st, path>>

\* The spawned me.send(call) resolves: a closed mailbox or the handler's
\* error is sent on txe and chained after the items; on success txe is
\* dropped and rxe ends.  No trailing Full is produced.
TypedStreamEnds(r) ==
    /\ st[r] = "handling" /\ path[r] = "typedStream"
    /\ items' = [items EXCEPT ![r] = IF req[r].reply = "err" THEN Append(@, "Err") ELSE @]
    /\ st' = [st EXCEPT ![r] = "ended"]
    /\ UNCHANGED <<req, alive, poisoned, path>>

\* Typed unary send/call_stream and raw send/call_stream: the send future
\* resolves to the serialized reply (one Full; forward_bytes_local wraps a
\* push's bytes in Full too) or to the error.
OneShotReply(r) ==
    /\ st[r] = "handling" /\ path[r] \in {"unary", "raw"}
    /\ items' = [items EXCEPT ![r] = <<IF req[r].reply = "ok" THEN "Full" ELSE "Err">>]
    /\ st' = [st EXCEPT ![r] = "ended"]
    /\ UNCHANGED <<req, alive, poisoned, path>>

\* Recipient<RpcRawStreamCall>::send: only the first chunk of rx is read.
\* A Full is the reply; a Part is "partial response"; an error is passed
\* on; a channel closed with nothing (the handler failed, its error only
\* printed) is "unexpected EOS".
RawFirstChunk(r) ==
    /\ st[r] = "handling" /\ path[r] = "rawFirst"
    /\ \E c \in IF req[r].reply = "ok" THEN Items \cup {"None"} ELSE {"None"} :
         items' = [items EXCEPT ![r] = <<IF c = "Full" THEN "Full" ELSE "Err">>]
    /\ st' = [st EXCEPT ![r] = "ended"]
    /\ UNCHANGED <<req, alive, poisoned, path>>

\* Recipient<RpcRawStreamCall>::call_stream hands out rx itself: every
\* chunk the raw handler sends is an item.
RawChunk(r) ==
    /\ st[r] = "handling" /\ path[r] = "rawStream"
    /\ Len(items[r]) < MaxChunks
    /\ \E c \in Items : items' = [items EXCEPT ![r] = Append(@, c)]
    /\ UNCHANGED <<req, alive, poisoned, st, path>>

\* The raw streaming handler returns and drops its sender: the stream ends.
\* Its error is only printed ("TODO: send error to caller").
RawStreamEnds(r) ==
    /\ st[r] = "handling" /\ path[r] = "rawStream"
    /\ st' = [st EXCEPT ![r] = "ended"]
    /\ UNCHANGED <<req, alive, poisoned, path, items>>

-----------------------------------------------------------------------------
Next ==
    \E r \in Reqs :
        \/ DoCall(r)
        \/ StreamItem(r) \/ TypedStreamEnds(r)
        \/ OneShotReply(r) \/ RawFirstChunk(r)
        \/ RawChunk(r) \/ RawStreamEnds(r)

Spec == Init /\ [][Next]_vars

-----------------------------------------------------------------------------
(* Properties.                                                             *)

\* A connection's task panics only after some request with an undecodable
\* body reached a typed streaming endpoint through call_stream and
\* panicked under the router's lock: every other panic, on any
\* connection, is the poisoned mutex that one left behind.
PanicsTraceToStreamDecode ==
    \A r \in Reqs : st[r] = "panicked" =>
        \E q \in Reqs : /\ PathOf(q) = "typedStream"
                        /\ req[q].body = "bad"
                        /\ st[q] = "panicked"

\* Spec 7: a serialization failure is an error of the call.  A request
\* with a well-formed body is never failed by a panic.
GoodRequestsNeverPanic ==
    \A r \in Reqs : req[r].body = "good" => st[r] # "panicked"

\* A handler's failure reaches the caller: a reply stream that ended after
\* its handler failed carries an Err item.
HandlerErrorReachesCaller ==
    \A r \in Reqs : st[r] = "ended" /\ req[r].reply = "err" =>
        \E i \in 1..Len(items[r]) : items[r][i] = "Err"
====
