---------------------------- MODULE GsbReplyQueues ----------------------------
(***************************************************************************)
(* The command half of the broker-client connection actor of              *)
(* src/src/connection.rs: the five FIFO reply queues of struct Connection *)
(* (register_reply, unregister_reply, subscribe_reply, unsubscribe_reply, *)
(* broadcast_reply), the handlers Bind, Unbind, Subscribe, Unsubscribe and *)
(* BcastCall that fill them through send_cmd_async, and the reply branches *)
(* of StreamHandler::handle that empty them through handle_reply.          *)
(*                                                                         *)
(* The transport is one ordered stream of frames; the client matches the  *)
(* replies of each kind against that kind's queue only, so the stream is  *)
(* modelled as one FIFO lane per kind in each direction (the order across *)
(* kinds is never used, and the lanes allow every such order).  The       *)
(* broker answers the requests of each kind in order, with any code, and  *)
(* under the named faults also with an invalid code or a reply to no      *)
(* request.  The rest of the actor appears only where it acts on these    *)
(* queues: the sink failing, the actor stopping (WriteError) and stopping *)
(* for a reason found in another frame class (StopOther).                 *)
(***************************************************************************)
EXTENDS Naturals, Sequences

CONSTANTS
    Waiters,        \* the callers of bind/unbind/subscribe/unsubscribe/broadcast
    NoWaiter,       \* the ghost owner of a reply to no request
    Faults          \* the misbehaviours of broker and transport allowed in a run

AllFaults == {"BadCode", "Spurious", "SinkFail", "OtherStop"}

ASSUME ConstantsOK ==
    /\ NoWaiter \notin Waiters
    /\ Faults \subseteq AllFaults

-----------------------------------------------------------------------------
\* The five reply queues, named by the command they answer.
CmdKinds == {"register", "unregister", "subscribe", "unsubscribe", "broadcast"}

\* A code none of the *_reply_code functions accepts.
InvalidCode == 123

\* register_reply_code .. broadcast_reply_code: the codes each kind decodes.
ValidCodes(k) ==
    CASE k = "register"                      -> {0, 400, 409}
      [] k \in {"unregister", "unsubscribe"} -> {0, 404}
      [] OTHER                               -> {0, 400}

\* The handle_*_reply closures: what a waiter receives for a decoded code.
CodeResult(k, code) ==
    CASE code = 0                     -> "Ok"
      [] code = 409 /\ k = "register" -> "AlreadyRegistered"
      [] OTHER                        -> "BadRequest"

ReplyResults == {"Ok", "BadRequest", "AlreadyRegistered"}
WaiterStates == {"idle", "pending", "NoConnection", "Closed"} \cup ReplyResults
Codes == {0, 400, 404, 409, InvalidCode}

\* The codes the broker may answer a request of kind k with in this run.
BrokerCodes(k) == ValidCodes(k) \cup (IF "BadCode" \in Faults THEN {InvalidCode} ELSE {})

-----------------------------------------------------------------------------
VARIABLES
    running,     \* the actor has not stopped
    writerOpen,  \* the transport sink still accepts frames
    queue,       \* the reply queues: [CmdKinds -> Seq(Waiters)]
    wst,         \* per waiter: its command kind, its state, and the waiter
                 \* whose request the reply it got answered (ghost)
    cmdOut,      \* request frames written, not yet read by the broker
    cmdIn,       \* reply frames of the broker, not yet handled
    spurious     \* the broker has sent a reply to no request (ghost bound)

vars == <<running, writerOpen, queue, wst, cmdOut, cmdIn, spurious>>

TypeOK ==
    /\ running \in BOOLEAN
    /\ writerOpen \in BOOLEAN
    /\ queue \in [CmdKinds -> Seq(Waiters)]
    /\ wst \in [Waiters -> [kind : CmdKinds, st : WaiterStates,
                            for : Waiters \cup {NoWaiter}]]
    /\ cmdOut \in [CmdKinds -> Seq(Waiters)]
    /\ cmdIn \in [CmdKinds -> Seq([for : Waiters \cup {NoWaiter}, code : Codes])]
    /\ spurious \in BOOLEAN

\* Connection::new: empty queues; started() has written the client Hello.
Init ==
    /\ running = TRUE
    /\ writerOpen = TRUE
    /\ queue = [k \in CmdKinds |-> <<>>]
    /\ wst = [w \in Waiters |-> [kind |-> "register", st |-> "idle", for |-> NoWaiter]]
    /\ cmdOut = [k \in CmdKinds |-> <<>>]
    /\ cmdIn = [k \in CmdKinds |-> <<>>]
    /\ spurious = FALSE

-----------------------------------------------------------------------------
\* Mutant of Stop: failed waiters are given the spec's Cancelled, a state the
\* waiter futures of this code do not have.
StopCancelled ==
    /\ running' = FALSE
    /\ wst' = [w \in Waiters |->
                 IF wst[w].st = "pending" THEN [wst[w] EXCEPT !.st = "Cancelled"]
                                          ELSE wst[w]]

\* ctx.stop(): the context is dropped with the futures of pending commands,
\* whose callers see a closed mailbox.
Stop ==
    /\ running' = FALSE
    /\ wst' = [w \in Waiters |->
                 IF wst[w].st = "pending" THEN [wst[w] EXCEPT !.st = "Closed"]
                                          ELSE wst[w]]

\* send_cmd_async: push the waiter, then write the request; a failed write
\* answers "no connection" at once and leaves the waiter in the queue.
SendCmdAsync(w, k) ==
    /\ running
    /\ wst[w].st = "idle"
    /\ queue' = [queue EXCEPT ![k] = Append(@, w)]
    /\ \/ /\ writerOpen
          /\ cmdOut' = [cmdOut EXCEPT ![k] = Append(@, w)]
          /\ wst' = [wst EXCEPT ![w] = [kind |-> k, st |-> "pending", for |-> NoWaiter]]
       \/ /\ ~writerOpen
          /\ wst' = [wst EXCEPT ![w] = [kind |-> k, st |-> "NoConnection", for |-> NoWaiter]]
          /\ UNCHANGED cmdOut
    /\ UNCHANGED <<running, writerOpen, cmdIn, spurious>>

\* The five command handlers, each on its own queue.
Bind(w) == SendCmdAsync(w, "register")
Unbind(w) == SendCmdAsync(w, "unregister")
Subscribe(w) == SendCmdAsync(w, "subscribe")
Unsubscribe(w) == SendCmdAsync(w, "unsubscribe")
BcastCall(w) == SendCmdAsync(w, "broadcast")

\* Mutant of RecvCmdReply: pop_back instead of pop_front.
RecvCmdReplyPopBack(k) ==
    /\ running
    /\ cmdIn[k] # <<>>
    /\ LET r == Head(cmdIn[k]) IN
       \/ /\ r.code \notin ValidCodes(k)
          /\ Stop
          /\ UNCHANGED queue
       \/ /\ r.code \in ValidCodes(k)
          /\ queue[k] = <<>>
          /\ Stop
          /\ UNCHANGED queue
       \/ /\ r.code \in ValidCodes(k)
          /\ queue[k] # <<>>
          /\ LET w == queue[k][Len(queue[k])] IN
               wst' = IF wst[w].st = "pending"
                        THEN [wst EXCEPT ![w].st = CodeResult(k, r.code),
                                         ![w].for = r.for]
                        ELSE wst
          /\ queue' = [queue EXCEPT ![k] = SubSeq(@, 1, Len(@) - 1)]
          /\ UNCHANGED running
    /\ cmdIn' = [cmdIn EXCEPT ![k] = Tail(@)]
    /\ UNCHANGED <<writerOpen, cmdOut, spurious>>

\* Mutant of RecvCmdReply: the waiter is popped but never sent its result.
RecvCmdReplyNoSend(k) ==
    /\ running
    /\ cmdIn[k] # <<>>
    /\ LET r == Head(cmdIn[k]) IN
       \/ /\ r.code \notin ValidCodes(k)
          /\ Stop
          /\ UNCHANGED queue
       \/ /\ r.code \in ValidCodes(k)
          /\ queue[k] = <<>>
          /\ Stop
          /\ UNCHANGED queue
       \/ /\ r.code \in ValidCodes(k)
          /\ queue[k] # <<>>
          /\ queue' = [queue EXCEPT ![k] = Tail(@)]
          /\ UNCHANGED <<running, wst>>
    /\ cmdIn' = [cmdIn EXCEPT ![k] = Tail(@)]
    /\ UNCHANGED <<writerOpen, cmdOut, spurious>>

\* A reply branch of StreamHandler::handle with handle_reply and the
\* handle_*_reply method: decode the code strictly, pop the oldest waiter of
\* the kind and send it the result (lost if that waiter is gone).  An
\* invalid code or an empty queue stops the connection.
RecvCmdReply(k) ==
    /\ running
    /\ cmdIn[k] # <<>>
    /\ LET r == Head(cmdIn[k]) IN
       \/ /\ r.code \notin ValidCodes(k)
          /\ Stop
          /\ UNCHANGED queue
       \/ /\ r.code \in ValidCodes(k)
          /\ queue[k] = <<>>
          /\ Stop
          /\ UNCHANGED queue
       \/ /\ r.code \in ValidCodes(k)
          /\ queue[k] # <<>>
          /\ LET w == Head(queue[k]) IN
               wst' = IF wst[w].st = "pending"
                        THEN [wst EXCEPT ![w].st = CodeResult(k, r.code),
                                         ![w].for = r.for]
                        ELSE wst
          /\ queue' = [queue EXCEPT ![k] = Tail(@)]
          /\ UNCHANGED running
    /\ cmdIn' = [cmdIn EXCEPT ![k] = Tail(@)]
    /\ UNCHANGED <<writerOpen, cmdOut, spurious>>

\* The transport sink fails; from then on every write gives the frame back.
SinkFail ==
    /\ "SinkFail" \in Faults
    /\ running
    /\ writerOpen
    /\ writerOpen' = FALSE
    /\ UNCHANGED <<running, queue, wst, cmdOut, cmdIn, spurious>>

\* io::WriteHandler::error returns Running::Stop.
WriteError ==
    /\ running
    /\ ~writerOpen
    /\ Stop
    /\ UNCHANGED <<writerOpen, queue, cmdOut, cmdIn, spurious>>

\* The actor stops on a frame of another class (protocol error, a second
\* Hello, an unexpected message, a failed Pong, an undecodable CallReply).
StopOther ==
    /\ "OtherStop" \in Faults
    /\ running
    /\ Stop
    /\ UNCHANGED <<writerOpen, queue, cmdOut, cmdIn, spurious>>

-----------------------------------------------------------------------------
(* The broker.                                                             *)

\* It reads the oldest request of kind k and answers it.
ServerReplyCmd(k) ==
    /\ running
    /\ cmdOut[k] # <<>>
    /\ \E code \in BrokerCodes(k) :
         cmdIn' = [cmdIn EXCEPT ![k] = Append(@, [for |-> Head(cmdOut[k]), code |-> code])]
    /\ cmdOut' = [cmdOut EXCEPT ![k] = Tail(@)]
    /\ UNCHANGED <<running, writerOpen, queue, wst, spurious>>

\* Fault: once, a reply to no request.
ServerSpuriousReply(k) ==
    /\ "Spurious" \in Faults
    /\ running
    /\ ~spurious
    /\ cmdIn' = [cmdIn EXCEPT ![k] = Append(@, [for |-> NoWaiter, code |-> 0])]
    /\ spurious' = TRUE
    /\ UNCHANGED <<running, writerOpen, queue, wst, cmdOut>>

-----------------------------------------------------------------------------
Next ==
    \/ \E w \in Waiters : \/ Bind(w) \/ Unbind(w) \/ Subscribe(w)
                          \/ Unsubscribe(w) \/ BcastCall(w)
    \/ \E k \in CmdKinds : RecvCmdReply(k) \/ ServerReplyCmd(k) \/ ServerSpuriousReply(k)
    \/ SinkFail \/ WriteError \/ StopOther

Spec == Init /\ [][Next]_vars

\* The actor's context polls its inbound stream and its sink again whenever
\* they are ready, and the broker answers every request it reads.
Fairness ==
    /\ \A k \in CmdKinds : WF_vars(RecvCmdReply(k)) /\ WF_vars(ServerReplyCmd(k))
    /\ WF_vars(WriteError)

FairSpec == Spec /\ Fairness

-----------------------------------------------------------------------------
(* Properties.                                                             *)

\* Positional matching (handle_reply pops the head of the reply's queue):
\* every waiter of bind, unbind, subscribe, unsubscribe or broadcast that got
\* an answer from the broker got the answer to its own request, also after a
\* failed write has left waiters in the queues.
ReplyMatchesRequest ==
    \A w \in Waiters : wst[w].st \in ReplyResults => wst[w].for = w

\* Why positional matching works: while the actor runs, in each kind, the replies in flight and then
\* the requests in flight line up, in order, with the head of the reply queue,
\* and while the sink works nothing else is queued.  Waiters left behind by
\* failed writes (send_cmd_async pushes before it writes) sit only behind
\* every request that reached the broker, because a failed sink never
\* recovers.
QueueAligned(k) ==
    /\ Len(cmdIn[k]) + Len(cmdOut[k]) <= Len(queue[k])
    /\ writerOpen => Len(queue[k]) = Len(cmdIn[k]) + Len(cmdOut[k])
    /\ \A i \in 1..Len(cmdIn[k]) : cmdIn[k][i].for = queue[k][i]
    /\ \A i \in 1..Len(cmdOut[k]) : cmdOut[k][i] = queue[k][Len(cmdIn[k]) + i]

QueueAlignment == running => \A k \in CmdKinds : QueueAligned(k)

\* Every command waiter is eventually answered, refused or failed: none is
\* left waiting on a queue nobody pops.
WaiterResolves ==
    \A w \in Waiters : wst[w].st = "pending" ~> wst[w].st # "pending"

-----------------------------------------------------------------------------
(* The promise: GsbCommands under a refinement mapping.                    *)

\* The waiters whose command still waits for its reply.
PendingWaiters == {w \in Waiters : wst[w].st = "pending"}

\* Pairs of waiters of P in the queue Q, the one queued first first.
QueuePairs(Q, P) ==
    {p \in Waiters \X Waiters :
        \E i, j \in 1..Len(Q) : /\ i < j
                                /\ Q[i] = p[1] /\ Q[j] = p[2]
                                /\ p[1] \in P /\ p[2] \in P}

\* The order in which handle_reply will serve the waiting callers.
QueuedAhead == UNION {QueuePairs(queue[k], PendingWaiters) : k \in CmdKinds}

Cmds == INSTANCE GsbCommands WITH
            open <- running,
            kindOf <- [w \in Waiters |-> wst[w].kind],
            st <- [w \in Waiters |-> wst[w].st],
            ahead <- IF running THEN QueuedAhead ELSE {}

\* The connection actor keeps the promise of GsbCommands whatever the broker
\* does: the waiters of one kind are answered in the order they asked, each
\* with a result of its kind, and a stop fails every waiter still waiting.
\* Orphans left by failed writes and replies to no request included.
ImplementsCommands == Cmds!Spec
====
