------------------------------- MODULE GsbServe -------------------------------
(***************************************************************************)
(* The serving half of the broker-client connection actor of              *)
(* src/src/connection.rs: the CallRequest branch of StreamHandler::handle *)
(* with handle_call_request (a spawned fold of the handler's chunk stream *)
(* into CallReply frames, and an empty Full when the stream did not end   *)
(* with one) and handle_push_request (the output discarded), and the      *)
(* control branches: Hello, Ping, BroadcastRequest, anything else and a   *)
(* protocol error.  The started() Hello and stopped() are included.       *)
(*                                                                         *)
(* The handler is the one of LocalRouterHandler::do_call: a local         *)
(* endpoint's stream, which yields Part chunks and ends, or ends with one *)
(* Full chunk or one error (the endpoints of local_router.rs).  Frames of *)
(* one served request are kept in the order written; other frame classes  *)
(* do not matter here.                                                     *)
(***************************************************************************)
EXTENDS Naturals, Sequences

CONSTANTS
    ServedIds,      \* request ids of the CallRequests the broker sends us
    MaxParts,       \* Part chunks a handler yields per request, at most
    MaxPings,       \* Ping frames the broker sends, at most
    Faults          \* the misbehaviours of broker and transport allowed in a run

AllFaults == {"Hello2", "Unexpected", "ProtoErr", "SinkFail"}

ASSUME ServeConstantsOK ==
    /\ MaxParts \in Nat
    /\ MaxPings \in Nat
    /\ Faults \subseteq AllFaults

-----------------------------------------------------------------------------
\* A frame written for a served request: a Part or Full reply of the handler,
\* a ServiceFailure reply for its error, or the empty end-of-stream Full.
ServedFrames == {"Part", "Full", "Fail", "Eos"}
\* What LocalRouterHandler::do_call's stream (forward_bytes_local) yields
\* next: a Part chunk, a Full chunk, or an error (NoEndpoint, or the
\* endpoint's).
HandlerItems == {"Part", "Full", "Fail"}
\* The frames that end a reply stream for the remote caller (reply_type 0).
Terminal == {"Full", "Fail", "Eos"}
ServingStates == {"idle", "sent", "run", "ended", "done", "pushed", "dropped"}
CtlFrames == {"Hello", "Ping", "Bcast", "Unexpected", "ProtoErr"}

VARIABLES
    running,     \* the actor has not stopped
    writerOpen,  \* the transport sink still accepts frames
    helloSeen,   \* server_info.is_some()
    srvReqIn,    \* CallRequest frames of the broker, not yet handled
    serving,     \* per served id: the progress of its request
    gotEos,      \* per served id: the accumulator of the fold
    servedLog,   \* per served id: the CallReply frames written for it
    ctlIn,       \* control frames of the broker, not yet handled
    ctlSent,     \* how many control frames of each kind the broker has sent
    pongs,       \* Pong frames written
    notified     \* handler.on_disconnect() has run

vars == <<running, writerOpen, helloSeen, srvReqIn, serving, gotEos, servedLog,
          ctlIn, ctlSent, pongs, notified>>

TypeOK ==
    /\ running \in BOOLEAN
    /\ writerOpen \in BOOLEAN
    /\ helloSeen \in BOOLEAN
    /\ srvReqIn \in Seq([sid : ServedIds, noReply : BOOLEAN])
    /\ serving \in [ServedIds -> ServingStates]
    /\ gotEos \in [ServedIds -> BOOLEAN]
    /\ servedLog \in [ServedIds -> Seq(ServedFrames)]
    /\ ctlIn \in Seq(CtlFrames)
    /\ ctlSent \in [CtlFrames -> Nat]
    /\ pongs \in Nat
    /\ notified \in BOOLEAN

\* Connection::create: the actor has started and written its Hello.
Init ==
    /\ running = TRUE
    /\ writerOpen = TRUE
    /\ helloSeen = FALSE
    /\ srvReqIn = <<>>
    /\ serving = [s \in ServedIds |-> "idle"]
    /\ gotEos = [s \in ServedIds |-> FALSE]
    /\ servedLog = [s \in ServedIds |-> <<>>]
    /\ ctlIn = <<>>
    /\ ctlSent = [f \in CtlFrames |-> 0]
    /\ pongs = 0
    /\ notified = FALSE

-----------------------------------------------------------------------------
\* Mutant of Stop: a running fold is left in an aborted state of its own.
StopAborts ==
    /\ running' = FALSE
    /\ serving' = [s \in ServedIds |->
                     IF serving[s] \in {"run", "ended"} THEN "aborted" ELSE serving[s]]
    /\ notified' = TRUE

\* ctx.stop() and then stopped(): the spawned folds are dropped with the
\* context, and the handler is told of the disconnect.
Stop ==
    /\ running' = FALSE
    /\ serving' = [s \in ServedIds |->
                     IF serving[s] \in {"run", "ended"} THEN "dropped" ELSE serving[s]]
    /\ notified' = TRUE

\* SinkWrite::write: the frame is written unless the sink has failed.
Write(log, f) == IF writerOpen THEN Append(log, f) ELSE log

\* handle_push_request: the handler's stream is folded into nothing.
HandlePushRequest(sid) == serving' = [serving EXCEPT ![sid] = "pushed"]

\* handle_call_request: the fold that writes the replies is spawned.
HandleCallRequest(sid) == serving' = [serving EXCEPT ![sid] = "run"]

\* The CallRequest branch of handle: by no_reply, a push or a call.
RecvCallRequest ==
    /\ running
    /\ srvReqIn # <<>>
    /\ LET r == Head(srvReqIn) IN
         IF r.noReply THEN HandlePushRequest(r.sid) ELSE HandleCallRequest(r.sid)
    /\ srvReqIn' = Tail(srvReqIn)
    /\ UNCHANGED <<running, writerOpen, helloSeen, gotEos, servedLog, ctlIn,
                   ctlSent, pongs, notified>>

\* Mutant of ServeItem: an error chunk does not count as the end of stream.
ServeItemErrNoEos(sid) ==
    /\ running
    /\ serving[sid] = "run"
    /\ \E f \in HandlerItems :
         /\ f = "Part" => Len(servedLog[sid]) < MaxParts
         /\ servedLog' = [servedLog EXCEPT ![sid] = Write(@, f)]
         /\ gotEos' = [gotEos EXCEPT ![sid] = f = "Full"]
         /\ serving' = [serving EXCEPT ![sid] = IF f = "Part" THEN "run" ELSE "ended"]
    /\ UNCHANGED <<running, writerOpen, helloSeen, srvReqIn, ctlIn, ctlSent,
                   pongs, notified>>

\* One step of the fold: the handler yields a Part, a Full or an error (a
\* ServiceFailure reply of reply_type 0); the frame is written, a write
\* error ignored, and got_eos becomes "this reply had reply_type 0".  The
\* endpoint's stream ends after a Full or an error.
ServeItem(sid) ==
    /\ running
    /\ serving[sid] = "run"
    /\ \E f \in HandlerItems :
         /\ f = "Part" => Len(servedLog[sid]) < MaxParts
         /\ servedLog' = [servedLog EXCEPT ![sid] = Write(@, f)]
         /\ gotEos' = [gotEos EXCEPT ![sid] = f # "Part"]
         /\ serving' = [serving EXCEPT ![sid] = IF f = "Part" THEN "run" ELSE "ended"]
    /\ UNCHANGED <<running, writerOpen, helloSeen, srvReqIn, ctlIn, ctlSent,
                   pongs, notified>>

\* The handler's stream ends (the then() after the fold): unless got_eos,
\* an empty Full is written to mark the end of the stream.
ServeEnd(sid) ==
    /\ running
    /\ serving[sid] \in {"run", "ended"}
    /\ servedLog' = IF gotEos[sid] THEN servedLog
                    ELSE [servedLog EXCEPT ![sid] = Write(@, "Eos")]
    /\ serving' = [serving EXCEPT ![sid] = "done"]
    /\ UNCHANGED <<running, writerOpen, helloSeen, srvReqIn, gotEos, ctlIn,
                   ctlSent, pongs, notified>>

\* The Hello, Ping, BroadcastRequest and catch-all branches of handle, and
\* the Err(ProtocolError) check at its top.
RecvCtl ==
    /\ running
    /\ ctlIn # <<>>
    /\ LET f == Head(ctlIn) IN
       \/ /\ f = "Hello"
          /\ ~helloSeen
          /\ helloSeen' = TRUE
          /\ UNCHANGED <<running, serving, notified, pongs>>
       \/ /\ f = "Hello"
          /\ helloSeen
          /\ Stop
          /\ UNCHANGED <<helloSeen, pongs>>
       \/ /\ f = "Ping"
          /\ writerOpen
          /\ pongs' = pongs + 1
          /\ UNCHANGED <<running, serving, notified, helloSeen>>
       \/ /\ f = "Ping"          \* "error sending pong"
          /\ ~writerOpen
          /\ Stop
          /\ UNCHANGED <<helloSeen, pongs>>
       \/ /\ f = "Bcast"         \* handler.handle_event
          /\ UNCHANGED <<running, serving, notified, helloSeen, pongs>>
       \/ /\ f \in {"Unexpected", "ProtoErr"}
          /\ Stop
          /\ UNCHANGED <<helloSeen, pongs>>
    /\ ctlIn' = Tail(ctlIn)
    /\ UNCHANGED <<writerOpen, srvReqIn, gotEos, servedLog, ctlSent>>

\* The transport sink fails; from then on every write gives the frame back.
SinkFail ==
    /\ "SinkFail" \in Faults
    /\ running
    /\ writerOpen
    /\ writerOpen' = FALSE
    /\ UNCHANGED <<running, helloSeen, srvReqIn, serving, gotEos, servedLog,
                   ctlIn, ctlSent, pongs, notified>>

\* io::WriteHandler::error returns Running::Stop.
WriteError ==
    /\ running
    /\ ~writerOpen
    /\ Stop
    /\ UNCHANGED <<writerOpen, helloSeen, srvReqIn, gotEos, servedLog, ctlIn,
                   ctlSent, pongs>>

-----------------------------------------------------------------------------
(* The broker.                                                             *)

\* It calls a service bound here, once per served id.
ServerCallRequest(sid) ==
    /\ running
    /\ serving[sid] = "idle"
    /\ \E noReply \in BOOLEAN :
         srvReqIn' = Append(srvReqIn, [sid |-> sid, noReply |-> noReply])
    /\ serving' = [serving EXCEPT ![sid] = "sent"]
    /\ UNCHANGED <<running, writerOpen, helloSeen, gotEos, servedLog, ctlIn,
                   ctlSent, pongs, notified>>

\* How many control frames of each kind the broker sends: its Hello (a
\* second one under Hello2), MaxPings pings, one broadcast, and one of each
\* bad frame the run allows.
CtlBound(f) ==
    CASE f = "Hello" -> IF "Hello2" \in Faults THEN 2 ELSE 1
      [] f = "Ping"  -> MaxPings
      [] f = "Bcast" -> 1
      [] OTHER       -> IF f \in Faults THEN 1 ELSE 0

ServerSendCtl(f) ==
    /\ running
    /\ ctlSent[f] < CtlBound(f)
    /\ ctlIn' = Append(ctlIn, f)
    /\ ctlSent' = [ctlSent EXCEPT ![f] = @ + 1]
    /\ UNCHANGED <<running, writerOpen, helloSeen, srvReqIn, serving, gotEos,
                   servedLog, pongs, notified>>

-----------------------------------------------------------------------------
Next ==
    \/ RecvCallRequest \/ RecvCtl \/ SinkFail \/ WriteError
    \/ \E s \in ServedIds : ServeItem(s) \/ ServeEnd(s) \/ ServerCallRequest(s)
    \/ \E f \in CtlFrames : ServerSendCtl(f)

Spec == Init /\ [][Next]_vars

-----------------------------------------------------------------------------
(* Properties.                                                             *)

\* The EOS contract of handle_call_request (spec P5): once the handler's
\* stream has ended over a working sink, the frames written for the request
\* end with exactly one frame of reply_type 0, so the remote caller's
\* call_reply entry is removed once and no frame follows its end.
ServedRepliesWellFormed ==
    \A s \in ServedIds :
        LET log == servedLog[s] IN
        /\ \A i \in 1..(Len(log) - 1) : log[i] \notin Terminal
        /\ (serving[s] = "done" /\ writerOpen) =>
              (Len(log) > 0 /\ log[Len(log)] \in Terminal)

====
