# TLA+ models of ya-service-bus

This directory holds TLA+ models of the service bus client in `src/`:
- the broker-client connection actor (`src/src/connection.rs`);
- the process-wide local router and its slot adapters
  (`src/src/local_router.rs`);
- the bus crate's older, futures-0.1 router (`src/bus/src/local_router.rs`).

It also holds:
- TLC configurations that model-check them on small instances;
- an abstract specification of what the command side of a connection
  promises its callers, with a proof that the connection implements it;
- TLAPS proofs, for every size, about the command reply queues, the replies
  to served requests and the bus crate's router.

## The system

A process binds services in the **local router**, a singleton
`Router { handlers: PrefixLookupBag<Slot> }` behind a mutex.

- `bind*` inserts a slot under `addr/T::ID`, or under the bare address for
  `bind_raw*`. It then tells the `RemoteRouter` actor with
  `do_send(UpdateService::Add)`.
- `unbind(addr)` removes every key below `addr` at once. It returns a future
  that later sends one `UpdateService::Remove` per removed key, awaiting each
  one.
- `forward`, `push`, `streaming_forward` and `forward_bytes*` look the address
  up by longest boundary prefix. On a hit they go to the slot. On a miss they
  go to the RemoteRouter, and from there to the broker, except
  `forward_bytes_local`, which fails with `NoEndpoint`.

The **connection actor** (`Connection`) owns the framed transport to the
broker. Its state:

| Field | What it holds |
|---|---|
| five FIFO queues of oneshot waiters | one per command kind: register, unregister, subscribe, unsubscribe, broadcast |
| `call_reply` | request id → chunk sink, for outgoing calls |
| `server_info` | the broker's Hello |

It is driven by its mailbox and by its inbound frames:
- **Commands** (`Bind` … `BcastCall`) go through `send_cmd_async`. It pushes
  a waiter and then writes the frame. A failed write answers "no connection"
  at once.
- **Command replies** pop the head waiter of their kind. An invalid code or an
  empty queue stops the connection.
- **Outgoing calls** (`RpcRawCall`, `RpcRawStreamCall`) take a random
  `gen_id`, register a sink and write a `CallRequest`.
  - `CallReply` frames are routed by id through one spawned send per chunk.
  - A non-Partial reply removes the entry.
- **Served requests**: `CallRequest` from the broker runs the local handler,
  which is `forward_bytes_local` of the router. Its stream is folded into
  `CallReply` frames, with an empty Full when the last item was a Part.
- **Control frames**: Hello, Ping, BroadcastRequest, unexpected frames and
  protocol errors.
- **Stopping**: a write error stops the actor. Stopping drops every spawned
  future and every sink.

## Modules

| Module | Models | Source |
|---|---|---|
| `GsbReplyQueues` | the command queues: `SendCmdAsync` and its five handlers, `RecvCmdReply` (reply branches + `handle_reply` + code decoders), sink failure, `WriteError`, stops | connection.rs 175–322, 500–593, 638–641, 720–868, 898–965 |
| `GsbReplyQueuesProofs` | TLAPS proofs about `GsbReplyQueues` | — |
| `GsbCalls` | outgoing calls: `RpcRawCall` (unary/push), `RpcRawStreamCall`, `call_reply`, `RecvCallReply` (`handle_reply`), `Deliver` (the spawned sends), `FetchEOS`/`UnaryResult` (`fetch_response`), `CallAfterStop` (`call`/`call_streaming` on a stopped actor), `DropCall` | connection.rs 26–32, 415–468, 545–628, 651–717, 967–1018 |
| `GsbCallsProofs` | TLAPS proofs about `GsbCalls` | — |
| `GsbServe` | served requests and control frames: `RecvCallRequest` (`HandleCallRequest` / `HandlePushRequest`), `ServeItem` (one step of the fold), `ServeEnd` (the EOS `then`), `RecvCtl`, `Stop` (`stopped` + `on_disconnect`) | connection.rs 324–413, 478–497, 594–629; local_router.rs 705–732 |
| `GsbServeProofs` | TLAPS proofs about `GsbServe` | — |
| `GsbCommands` | the abstract command service: `Request`, `Answer`, `Close`; the per-kind order of waiting callers is the set `ahead` | connection.rs 175–240, 201–213, 242–322, 720–736, 898–965 |
| `GsbCommandsRefinement` | the TLAPS proof that `GsbReplyQueues` implements `GsbCommands` | — |
| `GsbEndpoints` | a served request's way through `LocalRouterHandler::do_call`, the router mutex, `forward_bytes_local` and each slot variant's `send`/`call_stream` (typed unary, typed streaming, raw, raw streaming, dual), up to the items the handler yields; the mutex poisoned by a panic | connection.rs 109–121; local_router.rs 43–276, 705–741 |
| `GsbEndpointsProofs` | TLAPS proofs about `GsbEndpoints` | — |
| `GsbLegacyRouter` | the bus crate's router: `BindSlot` (`bind`, `bind_actor`, `bind_raw`), `Forward` (the downcast, and past it `to_vec().unwrap()` and `slot.send`), `ForwardBytes` (`forward_bytes`, `forward_bytes_local`), the typed `send`'s decode under the `ROUTER` mutex, `LockPoisoned`, `RemoteHandle` | bus/src/local_router.rs 20–230 |
| `GsbLegacyRouterProofs` | TLAPS proofs about `GsbLegacyRouter` | — |
| `GsbRouter` | the router registry: `Bind`, `BindRaw`, `Unbind`, `UnbindPoll` (the returned future), `UnbindDrop`, `Route` (the lookup of `forward`), and the RemoteRouter's mailbox (`RemoteHandle`) | local_router.rs 404–568 |
| `GsbRouterProofs` | TLAPS proofs about `GsbRouter` | — |

Every operation of the code is one action, together with everything it
changes. For example:
- `RecvCallReply` includes the decode, the spawn, the removal of the entry, and
  the stop when decoding fails.
- `Stop` drops every future and sink at once.

Data is abstracted to what the properties distinguish:
- request ids are a small set (`ReqIds`);
- payloads are kept only as their kind (Part / Full / Err, UTF-8 or not);
- addresses are sequences of path segments (`<<"s","x">>` is `/s/x`).

Broker replies are abstracted as follows:
- the broker answers command kinds in order with any code the decoders accept;
- under named faults it also sends an invalid code, a reply to no request,
  a late reply or a bad payload.

`PrefixLookupBag` (ya_sb_util) and the `RemoteRouter` are not in this
repository. Their parts of `GsbRouter` (`IsPrefixOf`, `LookupIn`,
`RemoteHandle`) are modelled from the specification's contract.

Definitions named `...PopBack`, `...NoSend`, `StopCancelled`, `GenIdReuse`,
`ServeItemErrNoEos`, `UnbindLate` and so on are **mutants**. Each is a
plausible bug in the definition it shadows, used to show that a property can
fail. They are not part of `Next`.

## Runs

| Run | Config | Checks | Result |
|---|---|---|---|
| replyqueues_safety | `MC_GsbReplyQueues.cfg` | TypeOK, ReplyMatchesRequest, QueueAlignment | pass, 3 waiters, sink failure |
| replyqueues_live | `MC_GsbReplyQueues_live.cfg` | WaiterResolves, ImplementsCommands (`Cmds!Spec`) (FairSpec) | pass, 2 waiters, all faults |
| calls_safety | `MC_GsbCalls.cfg` | TypeOK, ChunkToOwner | pass, 2 callers, 2 ids, all faults |
| calls_live | `MC_GsbCalls_live.cfg` | UnaryCallResolves, StreamTerminates (FairSpec) | pass, 1 id shared by 2 callers |
| calls_silent | `MC_GsbCalls_silent.cfg` | StreamEndsWithTerminal | **violated**: streams end silently on stop |
| serve_safety | `MC_GsbServe.cfg` | TypeOK, ServedRepliesWellFormed | pass |
| router_safety | `MC_GsbRouter.cfg` | TypeOK, AdvertisedIsBound | pass |
| router_order | `MC_GsbRouter_order.cfg` | BoundIsAdvertised | **violated**: a Remove overtakes a rebind |
| router_subtree | `MC_GsbRouter_subtree.cfg` | UnbindClearsSubtree | **violated**: a raw slot at the address survives unbind |
| endpoints_safety | `MC_GsbEndpoints.cfg` | TypeOK, PanicsTraceToStreamDecode | pass, 2 connections, 2 requests, every slot variant |
| endpoints_poison | `MC_GsbEndpoints_poison.cfg` | GoodRequestsNeverPanic | **violated**: a bad streaming body poisons the router for every connection |
| legacy_router | `MC_GsbLegacyRouter.cfg` | TypeOK, RefusalsFollowUnwrapPanic | pass, 2 keys, 2 message types, 4 calls |

Six more configurations are kept beside the twelve runs above. In five of
them TLC finds the property violated; the sixth checks the refinement on a
larger instance:

| Config | Property | What TLC finds |
|---|---|---|
| `MC_GsbCalls_collide.cfg` | ChunkToOwner, with `IdCollisions = TRUE` | a repeated id steals a call's chunks |
| `MC_GsbCalls_push.cfg` | PushOkImpliesSent | push is Ok even when the write failed |
| `MC_GsbCalls_drop.cfg` | DroppedCallHasNoEntry | cancelling keeps the `call_reply` entry |
| `MC_GsbEndpoints_lost_error.cfg` | HandlerErrorReachesCaller | a raw streaming handler's error ends the reply as a success |
| `MC_GsbLegacyRouter_poison.cfg` | GoodCallsNeverFail | a bad body to any typed slot poisons the bus crate's router |
| `MC_GsbReplyQueues_refine.cfg` | ImplementsCommands | passes with 3 waiters (the same question as `replyqueues_live`, on a larger instance) |

What the passing properties say:

- **ReplyMatchesRequest / QueueAlignment.** A command waiter that got an
  answer got the answer to its own request. This holds even though failed
  writes leave orphan waiters in the queues. It holds because of the
  alignment invariant: replies in flight, then requests in flight, line up
  with the head of each queue, and orphans only sit behind them (a failed sink
  never recovers).
- **WaiterResolves.** No command waiter waits forever.
- **ChunkToOwner.** Under unique ids, every chunk a caller receives was sent
  for its own call. This includes late replies and replies to finished calls.
- **UnaryCallResolves / StreamTerminates.** Every unary call gets a result,
  and every stream's sink is closed. This holds even when ids collide and a
  sink is overwritten.
- **ServedRepliesWellFormed.** The frames written for a served request end
  with exactly one frame of reply_type 0 (Full, ServiceFailure or the EOS
  Full). No terminal frame is followed by another. This is checked with the
  sink failing between frames, with pushes and calls interleaved, and with
  stops.
- **AdvertisedIsBound.** Once quiet (empty RemoteRouter mailbox and no unbind
  future left to poll), the broker advertises only bound addresses. The
  exception is an address whose Remove a dropped future never sent.

- **ImplementsCommands.** The connection's queues, waiters and stop
  implement `GsbCommands` under a refinement mapping. It maps each waiter
  to its state, and it reads the set `ahead` off the queues (`QueuedAhead`):
  `v` is ahead of `w` when both are pending on one kind and `v` sits before
  `w` in that queue. Orphan waiters, which failed at once, are no callers
  of the abstract service.
- **PanicsTraceToStreamDecode.** A served request ends in a panic only if
  some request has reached a typed streaming endpoint with an undecodable
  body: `call_stream` unwraps the decode (local_router.rs:92), and `do_call`
  runs it with the router mutex held. That panic poisons the mutex, and every
  later `do_call` on any connection panics at `lock().unwrap()`.
- **RefusalsFollowUnwrapPanic (legacy router).** Every call that the
  poisoned `ROUTER` mutex refuses comes after a call that panicked in one of
  the rmp_serde unwraps, and no call panics anywhere else. The unwraps are
  `to_vec(&msg).unwrap()` in `forward` (bus/src/local_router.rs:147, 158),
  reached for a message of a type that does not downcast at its slot, and
  the typed `send`'s decode (line 29), reached from `forward_bytes(_local)`
  and from a `forward<T>` whose slot is typed by another message type with
  the same `ID`. A `forward<T>` whose slot downcasts to its own type is sent
  the envelope as it is and never panics.

The violation runs each check one statement that the specification
(`spec.md`) makes and the code does not keep. They are listed under
"findings" in `PROJECT.json`.

In `router_order`, the counterexample is: bind, unbind (future not yet
polled), rebind, poll. The same happens with an unbind future that is awaited
at once, when it removes two keys: a rebind of the second key can happen while
the first Remove is awaited.

In `endpoints_poison`, the counterexample is: a request on connection c1
with an undecodable body reaches a typed streaming endpoint. It panics under
the lock, which ends c1's task and poisons the mutex. A well-formed request
on c2 then panics in `do_call`. This relies on the build unwinding on panic
(the default), so that the mutex is poisoned rather than the process aborted.
`MC_GsbLegacyRouter_poison.cfg` shows the same for the bus crate's router, where any typed
endpoint, unary included, decodes with unwrap.

The typed streaming `call_stream` yields no trailing Full item, whatever the
specification's table says. The served fold of `connection.rs` adds the EOS
frame, so callers still see a terminated stream; `GsbServe` checks that fold.

## Bounds

- **Waiters and callers.** Two or three waiters and two callers are enough for
  every ordering of two requests of the same kind. They also cover an orphan
  waiter with a live one behind it.
- **Ids.** Two request ids with symmetry let a finished id be replied to late.
  One id shared by two callers forces every second call to collide (live run).
- **Reply size.** `MaxParts = 1` gives each reply a Partial and a Full, which
  is all that `handle_reply` and the got_eos fold distinguish.
- **Router.** Nested prefixes `/s` and `/s/x` with one type give keys at, below
  and beside an unbind address.
- **Mailbox.** `MaxQueue = 3` lets a bind and a rebind sit around a Remove.
- **Endpoints.** One address per slot variant, plus an unbound one. Two
  connections and two requests (good or bad body, call or push, handler
  answering ok or err) let one connection's panic meet the other's request.
  `MaxChunks = 2` lets a stream yield Parts before it ends.
- **Legacy router.** Two keys, two message types that share an `ID` and
  four calls let a key be bound, rebound with another variant, reached by a
  `forward` of the other type or by bytes, panic, and then be refused.
  Five calls give 98 million states for no new case.

## Fairness

The liveness runs assume weak fairness of:
- the actor's handling of inbound frames, spawned sends and write errors;
- the broker answering each request it read;
- `fetch_response` observing its closed sink.

Actix polls a ready stream, future or sink again whenever it is woken, so the
actor's steps are justified. The broker's fairness is an assumption about the
peer. Callers' own actions (making calls, dropping futures) are not fair.

Symmetry is not used in the liveness runs. `GsbEndpoints` has no liveness
property: that a served request ends depends on the handler returning and
dropping its senders, which the code cannot enforce and the model does not
contain.

## Proofs (TLAPS)

`GsbReplyQueuesProofs` proves three theorems, for all sets of waiters and
faults:

- **`TypeCorrect`**: `Spec => []TypeOK`.
- **`QueuesAligned`**: `HonestBroker => (Spec => []QueueAlignment)`.
- **`ReplyMatching`**: `HonestBroker => (Spec => []ReplyMatchesRequest)`.

`HonestBroker` means the broker never replies to no request. With such
replies, matching can fail, and the code then stops the connection only when
the queue is empty.

The inductive invariant is `IInv == TypeOK /\ QueueAlignment /\
ReplyMatchesRequest`:
- `ReplyMatchesRequest` alone is not inductive: a pop must be known to hit
  the waiter whose reply it is, which is what the alignment gives;
- alignment is stated through an operator `Aligned(Q, I, O, open)`;
- lemmas about `Aligned` (`AlignPop`, `AlignPushSent`, `AlignPushLost`,
  `AlignServe`, `AlignClose`) give one step per action, using
  `SequenceTheorems`.

`GsbServeProofs` proves two theorems, for all sets of served ids and all
bounds on chunks and pings:

- **`ServeTypeCorrect`**: `Spec => []TypeOK`.
- **`ServedRepliesProved`**: `Spec => []ServedRepliesWellFormed`. No fault
  assumption is needed: a second Hello, unexpected frames, protocol errors
  and a failing sink are all allowed.

`ServedRepliesWellFormed` is not inductive as it stands. It says nothing of
`got_eos`, yet the EOS frame is written exactly when `got_eos` is false. The
inductive invariant `IInv == TypeOK /\ ReqQueueOK /\ \A s : ServeInv(s)`
adds two things:
- `ServeInv(s)` ties the log of request `s` to the state of its fold.
  - Before the fold starts, the log is empty and `got_eos` is false.
  - While the handler yields, the log is all Parts and `got_eos` is false.
  - Once the handler has ended (`got_eos` true), the last frame is terminal
    if the sink still works.
- `ReqQueueOK` says that every CallRequest still queued is for a distinct id
  the broker has sent and the actor has not started. It is needed because
  handling a request must find that request's log still empty.

The lemmas `PartsNoTerminal` and `AppendToParts` say what appending a frame
to a log of Parts gives. There is one lemma per action that changes the
requests (`RecvCallRequestInv`, `ServeItemInv`, `ServeEndInv`,
`ServerCallRequestInv`, `SinkFailInv`, `RecvCtlInv`), and `StopInv` covers
every way the actor stops. `IInv` was first checked by TLC as an invariant of
the `serve_safety` instance.

`GsbCommandsRefinement` proves **`CommandsRefined`**: `Spec =>
ImplementsCommands`, for every set of waiters and with every broker and
transport fault. The proof is laid out like a refinement proof in the
TwoPhase style:
1. `Spec => []QInv`;
2. `Init => Cmds!Init`;
3. `QInv /\ [Next]_vars => [Cmds!Next]_Cmds!avars`.

`QInv` adds two things to `TypeOK`:
- every pending waiter is queued exactly once, in the queue of its own kind;
- an idle waiter is in no queue.

With it, each step maps as follows:
- a send becomes a `Request` (pending, or failed with NoConnection);
- a pop of a pending waiter is an `Answer` of the oldest waiter of its kind;
- a pop of an orphan, and every transport step, is a stutter;
- a stop is `Close`.

The lemmas `PairsAppend`, `PairsTail`, `AheadSend` and `AheadPop` say how the
mapped `ahead` changes when a queue is appended to or popped.

`GsbLegacyRouterProofs` proves, for any set of keys and any bound on the
calls:
- **`RefusalsFollowPanic`**: `Spec => []RefusalsFollowUnwrapPanic`.

The property is not inductive: a refusal needs the mutex to have been
poisoned by a logged panic. The invariant `IInv` adds `PoisonLogged`: the
mutex is poisoned only once a panic in an unwrap is in the log. `LogAppend`
says what appending one call to the log keeps; `PanicLogged` and
`QuietLogged` cover a call that panics and one that neither panics nor is
refused. There is one lemma per action; `forward` has one case per outcome
of its downcast. TLC checks `IInv` on the `legacy_router` instance.
**`LegacyTypeCorrect`** (`Spec => []TypeOK`) follows from the same invariant.

`GsbEndpointsProofs` proves, for any connections, requests, addresses,
binding and bound on chunks:
- **`EndpointsTypeCorrect`**: `Spec => []TypeOK`;
- **`PanicsTraced`**: `Spec => []PanicsTraceToStreamDecode`.

`PanicsTraceToStreamDecode` is not inductive. A request that panics at the
poisoned lock must be known to follow the decode panic that poisoned it, and
the property says nothing about the mutex. The invariant `IInv` adds two
facts:
- `PanickedPoisoned`: a panicked request implies a poisoned mutex;
- `PoisonedByDecode`: a poisoned mutex implies some request that panicked in
  a typed streaming endpoint's decode with a bad body (`DecodePanic`).

`do_call` is split into its four outcomes (`DoCallPoisoned`,
`DoCallDecodePanic`, and the two non-panicking ones through `NoPanicStep`).
`HandlerInv` covers the handler steps. TLC checked `IInv` on the
`endpoints_safety` instance (430,696 states) before it was proved.

`GsbCallsProofs` proves, for any callers, id space, bound on Partial chunks
and faults:
- **`CallsTypeCorrect`**: `Spec => []TypeOK`;
- **`ChunksReachOwner`**: `IdCollisions = FALSE => (Spec => []ChunkToOwner)`.

The hypothesis is the model's reading of gen_id's random 53-bit ids: an id
is never returned twice on one connection. Without it the property fails
(`MC_GsbCalls_collide.cfg`).

`ChunkToOwner` is not inductive. A chunk reaches a caller through three
hops, each keyed by the request id:
- a spawned send;
- made for a CallReply that `call_reply` routed;
- sent by the broker for a call it read off the wire.

The invariant `IInv == TypeOK /\ Routed` follows the id along that path:
- `SpawnedToOwner`: every spawned send carries an item of its own caller;
- `OutOwned`: every CallRequest on the wire has an id gen_id returned, and
  `call_reply`, if it holds anything under that id, holds the request's
  caller (`RoutesTo`);
- `SrvOwned`: the same for every call the broker owes chunks to;
- `InOwned`: the same for every CallReply frame, by its ghost sender;
- `EntriesUsed`: `call_reply` holds senders only under used ids. Without
  this, a fresh id could already route somewhere.

Entries are only ever removed, or added under a fresh id. So a frame whose
id `call_reply` still routes is routed to the call it was sent for; a late
reply goes to an id that routes nowhere. The proof has one lemma per group
of actions: `CallerRouted` (via `NewCallRouted` and `FreshId`),
`RecvCallReplyRouted`, `DeliverRouted`, `ServerReadCallRouted`,
`ServerReplyRouted`, and `StopRouted` for `WriteError` and `StopOther`.
`RoutesStable` and `WireStable` say that removing entries keeps the routes
that remain. TLC checked `IInv` on the `calls_safety` instance (1,021,493
distinct states) before it was proved.

`GsbRouterProofs` proves, for any prefixes, message types, unbind calls
and mailbox bound:
- **`RouterTypeCorrect`**: `Spec => []TypeOK`;
- **`AdvertisedBound`**: `Spec => []AdvertisedIsBound`.

`AdvertisedIsBound` is not inductive. It says nothing while a note is in
the RemoteRouter's mailbox or an unbind future is pending. The invariant
`IInv == TypeOK /\ AdvertCovered` looks ahead instead:
- `WillAdvertise(k)`: once the mailbox is drained, the RemoteRouter has `k`
  registered. That is the case when the last note of `k` in the mailbox is
  an Add (`LastAdd`), or when there is no note of `k` (`Unnoted`) and `k`
  is registered now.
- `AdvertCovered`: every such key is bound, or is in the list of an unbind
  future, pending or dropped, that has not sent its Remove (`InRest`).

Each step keeps this:
- a bind makes its key's last note an Add;
- an unbind moves the keys it removes into its future's list;
- a poll sends the Remove of one listed key, which becomes that key's last
  note;
- the RemoteRouter's handling of the oldest note changes no key's fate.

The lemmas `AppendOther`, `AppendSame`, `TailOther`, `TailSameLater` and
`TailSameLast` say what appending or taking a note does to `LastAdd` and
`Unnoted`. When the system is quiet, the mailbox is empty and no future is
pending, so the invariant gives the property (`QuietAdvertised`). TLC
checked `IInv` on the `router_safety` instance (3,267,524 distinct states)
before it was proved.

What is not proved and stays with TLC:
- **Liveness.** `WaiterResolves`, `UnaryCallResolves` and `StreamTerminates`
  need fairness and ENABLED, which TLAPS does not handle here.
- **Recursive definitions.** None of the proved modules reaches a RECURSIVE
  operator. What a recursive definition computes for every input is beyond
  the provers.

## Not modelled

- **Transport and codec**: `connect*`, `tcp`, `unix` and the transport
  wrappers. Frame encoding is I/O; the sink's failure is the `SinkFail`
  action.
- **Serialization, downcasting and the typed fast path** of the slots: data
  conversions. A served handler's stream is abstracted to what the endpoints
  yield (`HandlerItems`).
- **The futures returned by `forward`/`push`/`streaming_forward`**. Only the
  routing decision is modelled. So delivery to a slot unbound after lookup is
  a hazard without a property.
- **Actix's order of polling spawned futures**. Chunks are delivered in spawn
  order, although actix may poll them out of order.
- **Channel capacities** (1 for unary, 16 for streams). Every spawned send
  clones the sender, which has a guaranteed slot, so a full channel never
  blocks the actor.
- **The futures of the bus crate's router.** Only the call made under the
  lock is modelled. Keys there are flat; the prefix lookup is `GsbRouter`'s.
  A `forward<T>` that reaches a slot of another type whose decode succeeds
  hands the message to a handler of the wrong type; no property is stated
  about it.
- **`Slot::streaming_forward`** and the typed fast paths of
  `forward`/`push`. These are recipient downcasts with no state of their own.
