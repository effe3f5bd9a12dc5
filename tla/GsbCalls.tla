------------------------------- MODULE GsbCalls -------------------------------
(***************************************************************************)
(* The outgoing-call half of the broker-client connection actor of        *)
(* src/src/connection.rs: Handler<RpcRawCall> (call, unary or push),      *)
(* Handler<RpcRawStreamCall> with ConnectionRef::call_streaming, the map  *)
(* call_reply from request id to chunk sink, and Connection::handle_reply,*)
(* which routes every inbound CallReply to its sink through a spawned     *)
(* send on a clone of that sink.                                           *)
(*                                                                         *)
(* Requests and replies travel on one FIFO lane each way (the client      *)
(* never relies on their order relative to other frame classes).  The     *)
(* broker answers each call it reads with Partial chunks and one Full, to *)
(* the id it read; under the named faults it also sends codes or payloads *)
(* that do not decode, and late replies to finished calls.  Chunks carry  *)
(* the call the broker meant them for as a ghost field.                    *)
(***************************************************************************)
EXTENDS Naturals, Sequences, FiniteSets

CONSTANTS
    Calls,          \* the callers of call and call_streaming
    ReqIds,         \* the values gen_id may return (a 53-bit space, abstracted)
    MaxParts,       \* Partial chunks the broker sends per call, at most
    IdCollisions,   \* may gen_id return an id already used on this connection?
    Faults,         \* the misbehaviours of broker and transport allowed in a run
    NoCall          \* "no sink": an id absent from call_reply

AllFaults == {"BadCode", "BadUtf8", "Late", "SinkFail", "OtherStop"}

ASSUME CallsConstantsOK ==
    /\ IsFiniteSet(ReqIds)
    /\ NoCall \notin Calls
    /\ MaxParts \in Nat
    /\ IdCollisions \in BOOLEAN
    /\ Faults \subseteq AllFaults

-----------------------------------------------------------------------------
CallCodes == {0, 400, 500}   \* CallReplyOk, CallReplyBadRequest, ServiceFailure
InvalidCode == 123           \* no CallReplyCode
Full == 0                    \* CallReplyType::Full
Partial == 1                 \* CallReplyType::Partial

\* A chunk as its sink receives it (ResponseChunk::Part, ::Full, or an Err);
\* from is the call the broker sent it for (ghost).
Items == [t : {"Part", "Full", "Err"}, from : Calls \cup {NoCall}]
Frames == [id : ReqIds, code : CallCodes \cup {InvalidCode}, type : {Full, Partial},
           utf8 : BOOLEAN, from : Calls \cup {NoCall}]
CallModes == {"none", "unary", "push", "stream"}
\* The caller's view: its future's result, or "Streaming" for a stream whose
\* consumer still reads, or "Dropped" once it has dropped the future or stream.
CallResults == {"idle", "pending", "Ok", "StreamingResponse", "UnexpectedEOS", "Err",
                "Closed", "Streaming", "Dropped"}

-----------------------------------------------------------------------------
VARIABLES
    running,     \* the actor has not stopped
    writerOpen,  \* the transport sink still accepts frames
    callReply,   \* call_reply: [ReqIds -> Calls \cup {NoCall}]
    usedIds,     \* ids gen_id has returned on this connection (ghost)
    callOut,     \* CallRequest frames written, not yet read by the broker
    srvCalls,    \* calls the broker has read and still owes chunks to
    callIn,      \* CallReply frames of the broker, not yet handled
    spawned,     \* spawned sends of chunks to sinks, in spawn order
    cst,         \* per call: mode, result, chunks received, and whether its
                 \* CallRequest reached the transport (ghost)
    late         \* the broker has sent a late reply (bound)

vars == <<running, writerOpen, callReply, usedIds, callOut, srvCalls, callIn,
          spawned, cst, late>>

TypeOK ==
    /\ running \in BOOLEAN
    /\ writerOpen \in BOOLEAN
    /\ callReply \in [ReqIds -> Calls \cup {NoCall}]
    /\ usedIds \subseteq ReqIds
    /\ callOut \in Seq([id : ReqIds, call : Calls, noReply : BOOLEAN])
    /\ srvCalls \subseteq [id : ReqIds, call : Calls, parts : 0..MaxParts]
    /\ callIn \in Seq(Frames)
    /\ spawned \in Seq([to : Calls, item : Items])
    /\ cst \in [Calls -> [mode : CallModes, res : CallResults, recv : Seq(Items),
                          sent : BOOLEAN]]
    /\ late \in BOOLEAN

\* Connection::new: call_reply is empty.
Init ==
    /\ running = TRUE
    /\ writerOpen = TRUE
    /\ callReply = [i \in ReqIds |-> NoCall]
    /\ usedIds = {}
    /\ callOut = <<>>
    /\ srvCalls = {}
    /\ callIn = <<>>
    /\ spawned = <<>>
    /\ cst = [c \in Calls |-> [mode |-> "none", res |-> "idle", recv |-> <<>>,
                               sent |-> FALSE]]
    /\ late = FALSE

-----------------------------------------------------------------------------
(* Helpers.                                                                *)

\* Mutant of GenId: a generator that hands out an id already in use.
GenIdReuse(id) == IF usedIds = {} THEN id \in ReqIds ELSE id \in usedIds

\* gen_id: a random 53-bit value nothing checks against the ids in use.
\* With IdCollisions FALSE the model assumes the space never repeats.
GenId(id) == IF IdCollisions THEN id \in ReqIds ELSE id \notin usedIds

\* A sink is closed once call_reply holds no sender of it and no spawned
\* send holds a clone of one.
SinkClosed(c) ==
    /\ \A i \in ReqIds : callReply[i] # c
    /\ \A j \in 1..Len(spawned) : spawned[j].to # c

\* fetch_response: what the first chunk of a unary call resolves it to.
UnaryResult(item) ==
    CASE item.t = "Full" -> "Ok"
      [] item.t = "Part" -> "StreamingResponse"
      [] OTHER           -> "Err"

\* The CallReplyCode conversion and, for an error code, String::from_utf8.
DecodeOk(r) == r.code \in CallCodes /\ (r.code # 0 => r.utf8)

\* The item a decoded CallReply becomes.
ReplyItem(r) ==
    [t |-> IF r.code # 0 THEN "Err" ELSE IF r.type = Partial THEN "Part" ELSE "Full",
     from |-> r.from]

\* Mutant of Stop: the futures of pending unary calls survive the stop.
StopKeepsUnary ==
    /\ running' = FALSE
    /\ cst' = cst
    /\ callReply' = [i \in ReqIds |-> NoCall]
    /\ spawned' = <<>>

\* Mutant of Stop: the senders in call_reply are kept alive after the stop.
StopKeepsEntries ==
    /\ running' = FALSE
    /\ cst' = [c \in Calls |->
                 IF cst[c].mode = "unary" /\ cst[c].res = "pending"
                   THEN [cst[c] EXCEPT !.res = "Closed"] ELSE cst[c]]
    /\ callReply' = callReply
    /\ spawned' = <<>>

\* Mutant of Stop: pending unary calls get a result of their own.
StopCancelled ==
    /\ running' = FALSE
    /\ cst' = [c \in Calls |->
                 IF cst[c].mode = "unary" /\ cst[c].res = "pending"
                   THEN [cst[c] EXCEPT !.res = "Cancelled"] ELSE cst[c]]
    /\ callReply' = [i \in ReqIds |-> NoCall]
    /\ spawned' = <<>>

\* ctx.stop(): the context is dropped with the futures of unary calls, whose
\* callers see a closed mailbox, every sink sender in call_reply and every
\* spawned send.
Stop ==
    /\ running' = FALSE
    /\ cst' = [c \in Calls |->
                 IF cst[c].mode = "unary" /\ cst[c].res = "pending"
                   THEN [cst[c] EXCEPT !.res = "Closed"] ELSE cst[c]]
    /\ callReply' = [i \in ReqIds |-> NoCall]
    /\ spawned' = <<>>

-----------------------------------------------------------------------------
(* The caller.                                                             *)

\* Handler<RpcRawCall>: a fresh id; a call expecting a reply gets a sink of
\* capacity 1 inserted under it, replacing (and so dropping) any sink there;
\* the CallRequest is written and a write error ignored.  A push (no_reply)
\* answers Ok(empty) at once.
RpcRawCall(c, noReply) ==
    /\ running
    /\ cst[c].mode = "none"
    /\ \E id \in ReqIds :
         /\ GenId(id)
         /\ usedIds' = usedIds \cup {id}
         /\ callReply' = IF noReply THEN callReply ELSE [callReply EXCEPT ![id] = c]
         /\ callOut' = IF writerOpen
                         THEN Append(callOut, [id |-> id, call |-> c, noReply |-> noReply])
                         ELSE callOut
    /\ cst' = [cst EXCEPT ![c] = [mode |-> IF noReply THEN "push" ELSE "unary",
                                  res |-> IF noReply THEN "Ok" ELSE "pending",
                                  recv |-> <<>>, sent |-> writerOpen]]
    /\ UNCHANGED <<running, writerOpen, srvCalls, callIn, spawned, late>>

\* call_streaming with Handler<RpcRawStreamCall>: the caller's sink is
\* inserted under a fresh id and the CallRequest written, a write error
\* ignored; the caller reads the sink as its stream.
RpcRawStreamCall(c) ==
    /\ running
    /\ cst[c].mode = "none"
    /\ \E id \in ReqIds :
         /\ GenId(id)
         /\ usedIds' = usedIds \cup {id}
         /\ callReply' = [callReply EXCEPT ![id] = c]
         /\ callOut' = IF writerOpen
                         THEN Append(callOut, [id |-> id, call |-> c, noReply |-> FALSE])
                         ELSE callOut
    /\ cst' = [cst EXCEPT ![c] = [mode |-> "stream", res |-> "Streaming",
                                  recv |-> <<>>, sent |-> writerOpen]]
    /\ UNCHANGED <<running, writerOpen, srvCalls, callIn, spawned, late>>

\* ConnectionRef::call and call_streaming once the actor has stopped: the
\* mailbox refuses the message.  call's future fails; call_streaming's task
\* sends the error into the stream and drops its sender.
CallAfterStop(c, mode) ==
    /\ ~running
    /\ cst[c].mode = "none"
    /\ cst' = [cst EXCEPT ![c] =
                 IF mode = "stream"
                   THEN [mode |-> "stream", res |-> "Streaming",
                         recv |-> <<[t |-> "Err", from |-> c]>>, sent |-> FALSE]
                   ELSE [mode |-> mode, res |-> "Closed", recv |-> <<>>, sent |-> FALSE]]
    /\ UNCHANGED <<running, writerOpen, callReply, usedIds, callOut, srvCalls,
                   callIn, spawned, late>>

\* The caller drops the future of a unary call or the stream of call_streaming.
\* Nothing removes its call_reply entry.
DropCall(c) ==
    /\ cst[c].mode \in {"unary", "stream"}
    /\ cst[c].res \in {"pending", "Streaming"}
    /\ cst' = [cst EXCEPT ![c].res = "Dropped"]
    /\ UNCHANGED <<running, writerOpen, callReply, usedIds, callOut, srvCalls,
                   callIn, spawned, late>>

-----------------------------------------------------------------------------
(* The actor.                                                              *)

\* The CallReply branch of StreamHandler::handle with Connection::handle_reply:
\* a reply for a known id spawns a send of its item on a clone of the sink,
\* and a reply of any type but Partial removes the entry.  A reply for an
\* unknown id is dropped, its code unchecked.  A code or payload that does
\* not decode makes handle_reply return Err, and the connection stops.
RecvCallReply ==
    /\ running
    /\ callIn # <<>>
    /\ LET r == Head(callIn)
           c == callReply[r.id]
       IN \/ /\ c = NoCall
             /\ UNCHANGED <<running, cst, callReply, spawned>>
          \/ /\ c # NoCall
             /\ ~DecodeOk(r)
             /\ Stop
          \/ /\ c # NoCall
             /\ DecodeOk(r)
             /\ spawned' = Append(spawned, [to |-> c, item |-> ReplyItem(r)])
             /\ callReply' = IF r.type # Partial
                               THEN [callReply EXCEPT ![r.id] = NoCall]
                               ELSE callReply
             /\ UNCHANGED <<running, cst>>
    /\ callIn' = Tail(callIn)
    /\ UNCHANGED <<writerOpen, usedIds, callOut, srvCalls, late>>

\* A spawned send completes: a stream's consumer receives the item; a unary
\* call's fetch_response takes its first item and drops the receiver, so a
\* later send to it, or any send to a dropped caller, is undelivered.
Deliver ==
    /\ running
    /\ spawned # <<>>
    /\ LET d == Head(spawned)
           s == cst[d.to]
       IN cst' = [cst EXCEPT ![d.to] =
                    CASE s.res = "Streaming" -> [s EXCEPT !.recv = Append(@, d.item)]
                      [] s.res = "pending"   -> [s EXCEPT !.recv = <<d.item>>,
                                                          !.res = UnaryResult(d.item)]
                      [] OTHER               -> s]
    /\ spawned' = Tail(spawned)
    /\ UNCHANGED <<running, writerOpen, callReply, usedIds, callOut, srvCalls,
                   callIn, late>>

\* fetch_response sees its sink closed before any item: "unexpected EOS".
FetchEOS(c) ==
    /\ running
    /\ cst[c].mode = "unary"
    /\ cst[c].res = "pending"
    /\ SinkClosed(c)
    /\ cst' = [cst EXCEPT ![c].res = "UnexpectedEOS"]
    /\ UNCHANGED <<running, writerOpen, callReply, usedIds, callOut, srvCalls,
                   callIn, spawned, late>>

\* The transport sink fails; from then on every write gives the frame back.
SinkFail ==
    /\ "SinkFail" \in Faults
    /\ running
    /\ writerOpen
    /\ writerOpen' = FALSE
    /\ UNCHANGED <<running, callReply, usedIds, callOut, srvCalls, callIn,
                   spawned, cst, late>>

\* io::WriteHandler::error returns Running::Stop.
WriteError ==
    /\ running
    /\ ~writerOpen
    /\ Stop
    /\ UNCHANGED <<writerOpen, usedIds, callOut, srvCalls, callIn, late>>

\* The actor stops on a frame of another class (protocol error, a second
\* Hello, an unexpected message, a failed Pong, a bad command reply).
StopOther ==
    /\ "OtherStop" \in Faults
    /\ running
    /\ Stop
    /\ UNCHANGED <<writerOpen, usedIds, callOut, srvCalls, callIn, late>>

-----------------------------------------------------------------------------
(* The broker.                                                             *)

\* The codes the broker answers with.  CallReplyBadRequest and ServiceFailure
\* take the same path through handle_reply (an Err item, after a UTF-8 check),
\* so ServiceFailure stands for both.
BrokerCodes == {0, 500} \cup (IF "BadCode" \in Faults THEN {InvalidCode} ELSE {})
Utf8Choices == IF "BadUtf8" \in Faults THEN BOOLEAN ELSE {TRUE}

\* It reads the oldest CallRequest and, unless no_reply, owes it chunks.
ServerReadCall ==
    /\ running
    /\ callOut # <<>>
    /\ LET r == Head(callOut) IN
         srvCalls' = IF r.noReply THEN srvCalls
                     ELSE srvCalls \cup {[id |-> r.id, call |-> r.call, parts |-> 0]}
    /\ callOut' = Tail(callOut)
    /\ UNCHANGED <<running, writerOpen, callReply, usedIds, callIn, spawned, cst, late>>

\* It sends one chunk of its answer to call sc: Partial ones up to MaxParts,
\* then one of any other type, which ends the answer.
ServerChunk(sc) ==
    /\ running
    /\ sc \in srvCalls
    /\ \E type \in {Full, Partial}, code \in BrokerCodes,
          utf8 \in Utf8Choices :
         /\ type = Partial => sc.parts < MaxParts
         /\ callIn' = Append(callIn, [id |-> sc.id, code |-> code, type |-> type,
                                      utf8 |-> utf8, from |-> sc.call])
         /\ srvCalls' = (srvCalls \ {sc})
                        \cup (IF type = Full THEN {} ELSE {[sc EXCEPT !.parts = @ + 1]})
    /\ UNCHANGED <<running, writerOpen, callReply, usedIds, callOut, spawned, cst, late>>

\* Fault: once, a late reply to a call already answered.
ServerLateReply ==
    /\ "Late" \in Faults
    /\ running
    /\ ~late
    /\ \E id \in usedIds, code \in BrokerCodes :
         /\ callReply[id] = NoCall
         /\ callIn' = Append(callIn, [id |-> id, code |-> code, type |-> Full,
                                      utf8 |-> TRUE, from |-> NoCall])
    /\ late' = TRUE
    /\ UNCHANGED <<running, writerOpen, callReply, usedIds, callOut, srvCalls,
                   spawned, cst>>

-----------------------------------------------------------------------------
Next ==
    \/ \E c \in Calls :
         \/ \E noReply \in BOOLEAN : RpcRawCall(c, noReply)
         \/ RpcRawStreamCall(c)
         \/ \E mode \in {"unary", "push", "stream"} : CallAfterStop(c, mode)
         \/ DropCall(c)
         \/ FetchEOS(c)
    \/ RecvCallReply \/ Deliver
    \/ SinkFail \/ WriteError \/ StopOther
    \/ ServerReadCall \/ ServerLateReply
    \/ \E sc \in srvCalls : ServerChunk(sc)

Spec == Init /\ [][Next]_vars

\* The actor's context polls its inbound stream, its spawned sends and its
\* sink again whenever one is ready; the broker answers every call it reads.
Fairness ==
    /\ WF_vars(RecvCallReply) /\ WF_vars(Deliver) /\ WF_vars(WriteError)
    /\ WF_vars(ServerReadCall)
    /\ \A c \in Calls : WF_vars(FetchEOS(c))
    /\ \A sc \in [id : ReqIds, call : Calls, parts : 0..MaxParts] :
         WF_vars(ServerChunk(sc))

FairSpec == Spec /\ Fairness

-----------------------------------------------------------------------------
(* Properties.                                                             *)

\* Demultiplexing by request_id (call_reply and the spawned sends of
\* handle_reply): every item a caller received was sent for its own call.
ChunkToOwner ==
    \A c \in Calls : \A i \in 1..Len(cst[c].recv) : cst[c].recv[i].from = c

\* Every unary call is eventually resolved: by its reply, by "unexpected EOS"
\* when its sink is dropped, or by the closed mailbox when the actor stops.
UnaryCallResolves ==
    \A c \in Calls : cst[c].res = "pending" ~> cst[c].res # "pending"

\* Every stream of call_streaming eventually ends: its sink is closed.
StreamTerminates ==
    \A c \in Calls : cst[c].res = "Streaming" ~> SinkClosed(c)

-----------------------------------------------------------------------------
(* What the specification says and the code does not do.                  *)

\* Spec section 3 and section 7: when the connection stops, every outstanding
\* waiter is failed.  For call_streaming: a stream whose sink has closed
\* ended with a Full item or an error, never silently.
StreamEndsWithTerminal ==
    \A c \in Calls :
        (cst[c].res = "Streaming" /\ SinkClosed(c)) =>
            LET r == cst[c].recv IN Len(r) > 0 /\ r[Len(r)].t # "Part"

\* Spec section 4.C: push answers Ok only once the transport has accepted
\* the CallRequest.
PushOkImpliesSent ==
    \A c \in Calls : (cst[c].mode = "push" /\ cst[c].res = "Ok") => cst[c].sent

\* Spec section 5: dropping the future of a unary call removes its
\* call_reply entry.
DroppedCallHasNoEntry ==
    \A c \in Calls :
        (cst[c].mode = "unary" /\ cst[c].res = "Dropped") =>
            \A i \in ReqIds : callReply[i] # c
====
