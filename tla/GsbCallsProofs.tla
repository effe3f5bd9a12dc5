---------------------------- MODULE GsbCallsProofs ----------------------------
(***************************************************************************)
(* Proofs about the outgoing calls of the connection actor (GsbCalls),   *)
(* for any callers, id space and bound on Partial chunks: every state is *)
(* well typed, and, when gen_id never repeats an id on the connection,   *)
(* every chunk a caller receives was sent for its own call.              *)
(*                                                                         *)
(* ChunkToOwner is not inductive: a chunk reaches a caller through a     *)
(* spawned send, which was made for a CallReply routed by call_reply,    *)
(* which the broker sent for a call it read from the wire.  The          *)
(* invariant follows the request id along that path: each spawned send   *)
(* carries an item of its own caller (SpawnedToOwner), and every         *)
(* CallRequest on the wire, call the broker owes chunks to and CallReply *)
(* on the way back has an id gen_id returned, and names the call that    *)
(* call_reply holds under that id, if it holds one (OutOwned, SrvOwned,  *)
(* InOwned).  An id is never inserted again once used, so call_reply     *)
(* cannot later name another call under it.                              *)
(***************************************************************************)
EXTENDS GsbCalls, SequenceTheorems, TLAPS

\* call_reply holds call c under id, or nothing.
RoutesTo(id, c) == callReply[id] # NoCall => callReply[id] = c

\* Every spawned send carries an item of the call it is sent to.
SpawnedToOwner == \A j \in 1..Len(spawned) : spawned[j].item.from = spawned[j].to

\* Every CallRequest on the wire was made under an id gen_id returned, which
\* call_reply, if anything, routes to its caller.
OutOwned ==
    \A j \in 1..Len(callOut) :
        callOut[j].id \in usedIds /\ RoutesTo(callOut[j].id, callOut[j].call)

\* The same for the calls the broker owes chunks to.
SrvOwned == \A sc \in srvCalls : sc.id \in usedIds /\ RoutesTo(sc.id, sc.call)

\* The same for the CallReply frames on the way back, by their ghost sender.
InOwned ==
    \A j \in 1..Len(callIn) :
        callIn[j].id \in usedIds /\ RoutesTo(callIn[j].id, callIn[j].from)

\* call_reply holds senders only under ids gen_id has returned.
EntriesUsed == \A i \in ReqIds : callReply[i] # NoCall => i \in usedIds

\* Everything but the types.
Routed ==
    /\ ChunkToOwner /\ SpawnedToOwner /\ OutOwned /\ SrvOwned /\ InOwned
    /\ EntriesUsed

IInv == TypeOK /\ Routed

\* The record the caller's view of call c is kept in.
CallStates == [mode : CallModes, res : CallResults, recv : Seq(Items), sent : BOOLEAN]

-----------------------------------------------------------------------------
(* Facts about the operators of the model.                                 *)

\* ctx.stop() leaves the caller's views, call_reply and the spawned sends
\* typed.
LEMMA StopType ==
    ASSUME TypeOK, Stop
    PROVE  /\ running' \in BOOLEAN
           /\ callReply' \in [ReqIds -> Calls \cup {NoCall}]
           /\ spawned' \in Seq([to : Calls, item : Items])
           /\ cst' \in [Calls -> CallStates]
<1>1. \A c \in Calls : cst'[c] \in CallStates
  BY DEF Stop, TypeOK, CallStates, CallResults
<1>2. QED
  BY <1>1, EmptySeq DEF Stop, TypeOK, CallStates

\* What fetch_response makes of its first item is a result.
LEMMA UnaryResultType ==
    ASSUME NEW item \in Items
    PROVE  UnaryResult(item) \in CallResults
BY DEF UnaryResult, CallResults

\* A spawned send that completes leaves the caller's view typed, and adds
\* to the received chunks of its call only the item it carries.
LEMMA DeliverFacts ==
    ASSUME TypeOK, Deliver
    PROVE  LET d == Head(spawned) IN
           /\ d \in [to : Calls, item : Items]
           /\ cst' = [cst EXCEPT ![d.to] = cst'[d.to]]
           /\ cst'[d.to] \in CallStates
           /\ cst'[d.to].recv = cst[d.to].recv
              \/ cst'[d.to].recv = Append(cst[d.to].recv, d.item)
              \/ cst'[d.to].recv = <<d.item>>
<1> DEFINE d == Head(spawned)
           s == cst[d.to]
<1>1. d \in [to : Calls, item : Items]
  BY HeadTailProperties DEF Deliver, TypeOK
<1>2. s \in CallStates
  BY <1>1 DEF TypeOK, CallStates
<1>3. cst' = [cst EXCEPT ![d.to] =
                CASE s.res = "Streaming" -> [s EXCEPT !.recv = Append(@, d.item)]
                  [] s.res = "pending"   -> [s EXCEPT !.recv = <<d.item>>,
                                                      !.res = UnaryResult(d.item)]
                  [] OTHER               -> s]
  BY DEF Deliver
<1>4. CASE s.res = "Streaming"
  <2>1. cst'[d.to] = [s EXCEPT !.recv = Append(s.recv, d.item)]
    BY <1>1, <1>3, <1>4 DEF TypeOK
  <2>2. Append(s.recv, d.item) \in Seq(Items)
    BY <1>1, <1>2 DEF CallStates
  <2>3. QED
    BY <1>1, <1>2, <1>3, <2>1, <2>2 DEF TypeOK, CallStates
<1>5. CASE s.res = "pending"
  <2>1. cst'[d.to] = [s EXCEPT !.recv = <<d.item>>, !.res = UnaryResult(d.item)]
    BY <1>1, <1>3, <1>5 DEF TypeOK
  <2>2. <<d.item>> \in Seq(Items) /\ UnaryResult(d.item) \in CallResults
    BY <1>1, UnaryResultType
  <2>3. QED
    BY <1>1, <1>2, <1>3, <2>1, <2>2 DEF TypeOK, CallStates
<1>6. CASE s.res # "Streaming" /\ s.res # "pending"
  <2>1. cst'[d.to] = s
    BY <1>1, <1>3, <1>6 DEF TypeOK
  <2>2. QED
    BY <1>1, <1>2, <1>3, <2>1 DEF TypeOK
<1>7. QED
  BY <1>4, <1>5, <1>6

-----------------------------------------------------------------------------
(* Type correctness.                                                       *)

LEMMA TypeInit == Init => TypeOK
<1> SUFFICES ASSUME Init PROVE TypeOK
  OBVIOUS
<1>1. cst \in [Calls -> CallStates]
  BY EmptySeq DEF Init, CallStates, CallModes, CallResults
<1>2. QED
  BY <1>1, EmptySeq DEF Init, TypeOK, CallStates

\* The actor's handling of one CallReply keeps the state typed.
LEMMA RecvCallReplyType ==
    ASSUME TypeOK, RecvCallReply
    PROVE  TypeOK'
<1> DEFINE r == Head(callIn)
           c == callReply[r.id]
<1>1. r \in Frames /\ callIn' \in Seq(Frames)
  BY HeadTailProperties DEF RecvCallReply, TypeOK
<1>2. c \in Calls \cup {NoCall}
  BY <1>1 DEF TypeOK, Frames
<1>3. ReplyItem(r) \in Items
  BY <1>1 DEF ReplyItem, Items, Frames
<1>4. CASE c = NoCall /\ UNCHANGED <<running, cst, callReply, spawned>>
  BY <1>1, <1>4 DEF RecvCallReply, TypeOK
<1>5. CASE c # NoCall /\ ~DecodeOk(r) /\ Stop
  BY <1>1, <1>5, StopType DEF RecvCallReply, TypeOK, CallStates
<1>6. CASE /\ c # NoCall /\ DecodeOk(r)
           /\ spawned' = Append(spawned, [to |-> c, item |-> ReplyItem(r)])
           /\ callReply' = IF r.type # Partial
                             THEN [callReply EXCEPT ![r.id] = NoCall]
                             ELSE callReply
           /\ UNCHANGED <<running, cst>>
  BY <1>1, <1>2, <1>3, <1>6 DEF RecvCallReply, TypeOK, Frames
<1>7. QED
  BY <1>4, <1>5, <1>6 DEF RecvCallReply

\* The broker's steps keep the state typed.
LEMMA ServerType ==
    ASSUME TypeOK, ServerReadCall \/ ServerLateReply \/ \E sc \in srvCalls : ServerChunk(sc)
    PROVE  TypeOK'
<1>1. CASE ServerReadCall
  <2>1. Head(callOut) \in [id : ReqIds, call : Calls, noReply : BOOLEAN]
        /\ callOut' \in Seq([id : ReqIds, call : Calls, noReply : BOOLEAN])
    BY <1>1, HeadTailProperties DEF ServerReadCall, TypeOK
  <2>2. srvCalls' \subseteq [id : ReqIds, call : Calls, parts : 0..MaxParts]
    BY <1>1, <2>1, CallsConstantsOK DEF ServerReadCall, TypeOK
  <2>3. QED
    BY <1>1, <2>1, <2>2 DEF ServerReadCall, TypeOK
<1>2. CASE ServerLateReply
  BY <1>2 DEF ServerLateReply, TypeOK, Frames, BrokerCodes, CallCodes, InvalidCode,
              Full, Partial
<1>3. CASE \E sc \in srvCalls : ServerChunk(sc)
  <2>1. PICK sc \in srvCalls : ServerChunk(sc)
    BY <1>3
  <2>2. PICK type \in {Full, Partial}, code \in BrokerCodes, utf8 \in Utf8Choices :
          /\ type = Partial => sc.parts < MaxParts
          /\ callIn' = Append(callIn, [id |-> sc.id, code |-> code, type |-> type,
                                       utf8 |-> utf8, from |-> sc.call])
          /\ srvCalls' = (srvCalls \ {sc})
                         \cup (IF type = Full THEN {} ELSE {[sc EXCEPT !.parts = @ + 1]})
    BY <2>1 DEF ServerChunk
  <2>3. callIn' \in Seq(Frames)
    <3>1. sc.id \in ReqIds /\ sc.call \in Calls
      BY DEF TypeOK
    <3>2. code \in CallCodes \cup {InvalidCode} /\ utf8 \in BOOLEAN
      <4>1. code \in CallCodes \cup {InvalidCode}
        BY DEF BrokerCodes, CallCodes
      <4>2. utf8 \in BOOLEAN
        BY DEF Utf8Choices
      <4>3. QED
        BY <4>1, <4>2
    <3>3. [id |-> sc.id, code |-> code, type |-> type, utf8 |-> utf8,
           from |-> sc.call] \in Frames
      BY <3>1, <3>2 DEF Frames
    <3>4. QED
      BY <2>2, <3>3 DEF TypeOK
  <2>4. srvCalls' \subseteq [id : ReqIds, call : Calls, parts : 0..MaxParts]
    <3>1. sc \in [id : ReqIds, call : Calls, parts : 0..MaxParts]
      BY DEF TypeOK
    <3>2. type = Partial => [sc EXCEPT !.parts = @ + 1]
                              \in [id : ReqIds, call : Calls, parts : 0..MaxParts]
      BY <2>2, <3>1, CallsConstantsOK
    <3>3. QED
      BY <2>2, <3>1, <3>2 DEF TypeOK, Full, Partial
  <2>5. QED
    BY <2>1, <2>3, <2>4 DEF ServerChunk, TypeOK
<1>4. QED
  BY <1>1, <1>2, <1>3

\* The caller's steps keep the state typed.
LEMMA CallerType ==
    ASSUME TypeOK, NEW c \in Calls,
           \/ \E noReply \in BOOLEAN : RpcRawCall(c, noReply)
           \/ RpcRawStreamCall(c)
           \/ \E mode \in {"unary", "push", "stream"} : CallAfterStop(c, mode)
           \/ DropCall(c)
           \/ FetchEOS(c)
    PROVE  TypeOK'
<1>1. CASE \E noReply \in BOOLEAN : RpcRawCall(c, noReply)
  <2>1. PICK noReply \in BOOLEAN : RpcRawCall(c, noReply)
    BY <1>1
  <2>2. PICK id \in ReqIds :
          /\ usedIds' = usedIds \cup {id}
          /\ callReply' = IF noReply THEN callReply ELSE [callReply EXCEPT ![id] = c]
          /\ callOut' = IF writerOpen
                          THEN Append(callOut, [id |-> id, call |-> c, noReply |-> noReply])
                          ELSE callOut
    BY <2>1 DEF RpcRawCall
  <2>3. cst' \in [Calls -> CallStates]
    <3>1. [mode |-> IF noReply THEN "push" ELSE "unary",
           res |-> IF noReply THEN "Ok" ELSE "pending",
           recv |-> <<>>, sent |-> writerOpen] \in CallStates
      BY EmptySeq DEF TypeOK, CallStates, CallModes, CallResults
    <3>2. QED
      BY <2>1, <3>1 DEF RpcRawCall, TypeOK, CallStates
  <2>4. callOut' \in Seq([id : ReqIds, call : Calls, noReply : BOOLEAN])
    <3>1. [id |-> id, call |-> c, noReply |-> noReply]
            \in [id : ReqIds, call : Calls, noReply : BOOLEAN]
      OBVIOUS
    <3>2. QED
      BY <2>2, <3>1, AppendProperties DEF TypeOK
  <2>5. callReply' \in [ReqIds -> Calls \cup {NoCall}] /\ usedIds' \subseteq ReqIds
    BY <2>2 DEF TypeOK
  <2>6. QED
    BY <2>1, <2>3, <2>4, <2>5 DEF RpcRawCall, TypeOK, CallStates
<1>2. CASE RpcRawStreamCall(c)
  <2>1. PICK id \in ReqIds :
          /\ usedIds' = usedIds \cup {id}
          /\ callReply' = [callReply EXCEPT ![id] = c]
          /\ callOut' = IF writerOpen
                          THEN Append(callOut, [id |-> id, call |-> c, noReply |-> FALSE])
                          ELSE callOut
    BY <1>2 DEF RpcRawStreamCall
  <2>2. cst' \in [Calls -> CallStates]
    <3>1. [mode |-> "stream", res |-> "Streaming", recv |-> <<>>, sent |-> writerOpen]
            \in CallStates
      BY EmptySeq DEF TypeOK, CallStates, CallModes, CallResults
    <3>2. QED
      BY <1>2, <3>1 DEF RpcRawStreamCall, TypeOK, CallStates
  <2>3. callOut' \in Seq([id : ReqIds, call : Calls, noReply : BOOLEAN])
    <3>1. [id |-> id, call |-> c, noReply |-> FALSE]
            \in [id : ReqIds, call : Calls, noReply : BOOLEAN]
      OBVIOUS
    <3>2. QED
      BY <2>1, <3>1, AppendProperties DEF TypeOK
  <2>4. callReply' \in [ReqIds -> Calls \cup {NoCall}] /\ usedIds' \subseteq ReqIds
    BY <2>1 DEF TypeOK
  <2>5. QED
    BY <1>2, <2>2, <2>3, <2>4 DEF RpcRawStreamCall, TypeOK, CallStates
<1>3. CASE \E mode \in {"unary", "push", "stream"} : CallAfterStop(c, mode)
  <2>1. <<[t |-> "Err", from |-> c]>> \in Seq(Items)
    BY DEF Items
  <2>2. QED
    BY <1>3, <2>1, EmptySeq DEF CallAfterStop, TypeOK, CallModes, CallResults
<1>4. CASE DropCall(c)
  BY <1>4 DEF DropCall, TypeOK, CallResults
<1>5. CASE FetchEOS(c)
  BY <1>5 DEF FetchEOS, TypeOK, CallResults
<1>6. QED
  BY <1>1, <1>2, <1>3, <1>4, <1>5

LEMMA TypeStep == TypeOK /\ [Next]_vars => TypeOK'
<1> SUFFICES ASSUME TypeOK, [Next]_vars PROVE TypeOK'
  OBVIOUS
<1>1. CASE \E c \in Calls :
             \/ \E noReply \in BOOLEAN : RpcRawCall(c, noReply)
             \/ RpcRawStreamCall(c)
             \/ \E mode \in {"unary", "push", "stream"} : CallAfterStop(c, mode)
             \/ DropCall(c)
             \/ FetchEOS(c)
  BY <1>1, CallerType
<1>2. CASE RecvCallReply
  BY <1>2, RecvCallReplyType
<1>3. CASE Deliver
  <2>1. cst' \in [Calls -> CallStates]
    BY <1>3, DeliverFacts DEF TypeOK, CallStates
  <2>2. spawned' \in Seq([to : Calls, item : Items])
    BY <1>3, HeadTailProperties DEF Deliver, TypeOK
  <2>3. QED
    BY <1>3, <2>1, <2>2 DEF Deliver, TypeOK, CallStates
<1>4. CASE SinkFail
  BY <1>4 DEF SinkFail, TypeOK
<1>5. CASE WriteError \/ StopOther
  BY <1>5, StopType DEF WriteError, StopOther, TypeOK, CallStates
<1>6. CASE ServerReadCall \/ ServerLateReply \/ \E sc \in srvCalls : ServerChunk(sc)
  BY <1>6, ServerType
<1>7. CASE UNCHANGED vars
  BY <1>7 DEF vars, TypeOK
<1>8. QED
  BY <1>1, <1>2, <1>3, <1>4, <1>5, <1>6, <1>7 DEF Next

\* Every state of the outgoing calls is well typed, for any callers, ids and
\* bound on Partial chunks: the TypeOK that the runs of GsbCalls check.
THEOREM CallsTypeCorrect == Spec => []TypeOK
BY TypeInit, TypeStep, PTL DEF Spec

-----------------------------------------------------------------------------
(* Routing: the steps that keep every request id with its call.            *)

\* An entry of call_reply that is kept or removed still routes to the call
\* it routed to.
LEMMA RoutesStable ==
    ASSUME NEW id, NEW c, RoutesTo(id, c), callReply'[id] \in {callReply[id], NoCall}
    PROVE  RoutesTo(id, c)'
BY DEF RoutesTo

\* A step that leaves the wire and the broker alone, keeps or removes the
\* entries of call_reply and keeps the used ids keeps OutOwned and SrvOwned.
LEMMA WireStable ==
    ASSUME IInv, TypeOK', UNCHANGED <<usedIds, callOut, srvCalls>>,
           \A i \in ReqIds : callReply'[i] \in {callReply[i], NoCall}
    PROVE  OutOwned' /\ SrvOwned'
<1>1. OutOwned'
  <2> SUFFICES ASSUME NEW j \in 1..Len(callOut)
               PROVE  callOut[j].id \in usedIds /\ RoutesTo(callOut[j].id, callOut[j].call)'
    BY DEF OutOwned
  <2>1. callOut[j].id \in ReqIds /\ RoutesTo(callOut[j].id, callOut[j].call)
        /\ callOut[j].id \in usedIds
    BY DEF IInv, Routed, OutOwned, TypeOK
  <2>2. QED
    BY <2>1, RoutesStable
<1>2. SrvOwned'
  <2> SUFFICES ASSUME NEW sc \in srvCalls
               PROVE  sc.id \in usedIds /\ RoutesTo(sc.id, sc.call)'
    BY DEF SrvOwned
  <2>1. sc.id \in ReqIds /\ RoutesTo(sc.id, sc.call) /\ sc.id \in usedIds
    BY DEF IInv, Routed, SrvOwned, TypeOK
  <2>2. QED
    BY <2>1, RoutesStable
<1>3. QED
  BY <1>1, <1>2

\* ctx.stop() drops every sender: nothing routes any more, and what the
\* callers received stays as it was.
LEMMA StopRouted ==
    ASSUME IInv, TypeOK', Stop, UNCHANGED <<usedIds, callOut, srvCalls, callIn>>
    PROVE  Routed'
<1>1. \A i \in ReqIds : callReply'[i] = NoCall
  BY DEF Stop
<1>2. ChunkToOwner'
  <2>1. \A c \in Calls : cst'[c].recv = cst[c].recv
    BY DEF Stop, IInv, TypeOK
  <2>2. QED
    BY <2>1 DEF IInv, Routed, ChunkToOwner
<1>3. SpawnedToOwner'
  BY EmptySeq DEF Stop, SpawnedToOwner
<1>4. OutOwned' /\ SrvOwned'
  BY <1>1, WireStable
<1>5. InOwned'
  <2> SUFFICES ASSUME NEW j \in 1..Len(callIn)
               PROVE  callIn[j].id \in usedIds /\ RoutesTo(callIn[j].id, callIn[j].from)'
    BY DEF InOwned
  <2>1. callIn[j].id \in ReqIds /\ callIn[j].id \in usedIds
    BY DEF IInv, Routed, InOwned, TypeOK, Frames
  <2>2. QED
    BY <1>1, <2>1 DEF RoutesTo
<1>6. EntriesUsed'
  BY <1>1 DEF EntriesUsed
<1>7. QED
  BY <1>2, <1>3, <1>4, <1>5, <1>6 DEF Routed

\* A step that gives no caller a chunk it did not have keeps ChunkToOwner.
LEMMA RecvSame ==
    ASSUME IInv, \A c \in Calls : cst'[c].recv = cst[c].recv
    PROVE  ChunkToOwner'
BY DEF IInv, Routed, ChunkToOwner

\* A step that changes neither call_reply, the wire, the used ids nor the
\* spawned sends, and keeps ChunkToOwner, keeps the routing.
LEMMA QuietRouted ==
    ASSUME IInv, TypeOK', ChunkToOwner',
           UNCHANGED <<callReply, usedIds, callOut, srvCalls, callIn, spawned>>
    PROVE  Routed'
<1>1. ChunkToOwner'
  OBVIOUS
<1>2. OutOwned' /\ SrvOwned'
  BY WireStable DEF IInv, TypeOK
<1>3. QED
  BY <1>1, <1>2 DEF IInv, Routed, SpawnedToOwner, InOwned, EntriesUsed, RoutesTo

\* gen_id, when it never repeats: the fresh id has no entry and names
\* nothing on the wire, in the broker or on the way back.
LEMMA FreshId ==
    ASSUME IInv, IdCollisions = FALSE, NEW id \in ReqIds, GenId(id)
    PROVE  /\ id \notin usedIds
           /\ callReply[id] = NoCall
BY DEF GenId, IInv, Routed, EntriesUsed

\* A new call: its entry goes under a fresh id, and its CallRequest onto
\* the wire under that id.
LEMMA NewCallRouted ==
    ASSUME IInv, TypeOK', IdCollisions = FALSE, NEW c \in Calls,
           NEW id \in ReqIds, GenId(id), NEW noReply \in BOOLEAN,
           usedIds' = usedIds \cup {id},
           callReply' = IF noReply THEN callReply ELSE [callReply EXCEPT ![id] = c],
           callOut' = IF writerOpen
                        THEN Append(callOut, [id |-> id, call |-> c, noReply |-> noReply])
                        ELSE callOut,
           \A d \in Calls : cst'[d].recv = IF d = c THEN <<>> ELSE cst[d].recv,
           UNCHANGED <<srvCalls, callIn, spawned>>
    PROVE  Routed'
<1>1. id \notin usedIds /\ callReply[id] = NoCall
  BY FreshId
<1>2. \A i \in usedIds : callReply'[i] = callReply[i]
  BY <1>1 DEF IInv, TypeOK
<1>3. RoutesTo(id, c)'
  BY <1>1 DEF RoutesTo, IInv, TypeOK
<1>4. ChunkToOwner'
  BY DEF IInv, Routed, ChunkToOwner
<1>5. OutOwned'
  <2> SUFFICES ASSUME NEW j \in 1..Len(callOut')
               PROVE  /\ callOut'[j].id \in usedIds'
                      /\ callReply'[callOut'[j].id] # NoCall
                           => callReply'[callOut'[j].id] = callOut'[j].call
    BY DEF OutOwned, RoutesTo
  <2>1. CASE j \in 1..Len(callOut)
    <3>1. callOut'[j] = callOut[j]
      BY <2>1, AppendProperties DEF IInv, TypeOK
    <3>2. callOut[j].id \in usedIds /\ RoutesTo(callOut[j].id, callOut[j].call)
      BY <2>1 DEF IInv, Routed, OutOwned
    <3>3. QED
      BY <1>2, <3>1, <3>2 DEF RoutesTo
  <2>2. CASE j \notin 1..Len(callOut)
    <3>1. writerOpen /\ j = Len(callOut) + 1
      BY <2>2, AppendProperties DEF IInv, TypeOK
    <3>2. callOut'[j] = [id |-> id, call |-> c, noReply |-> noReply]
      BY <3>1, AppendProperties DEF IInv, TypeOK
    <3>3. QED
      BY <1>3, <3>2 DEF RoutesTo
  <2>3. QED
    BY <2>1, <2>2
<1>6. SrvOwned'
  BY <1>2 DEF IInv, Routed, SrvOwned, RoutesTo
<1>7. InOwned'
  BY <1>2 DEF IInv, Routed, InOwned, RoutesTo
<1>8. EntriesUsed'
  BY DEF IInv, Routed, EntriesUsed, TypeOK
<1>9. QED
  BY <1>4, <1>5, <1>6, <1>7, <1>8 DEF IInv, Routed, SpawnedToOwner

\* The caller's steps keep the routing.
LEMMA CallerRouted ==
    ASSUME IInv, TypeOK', IdCollisions = FALSE, NEW c \in Calls,
           \/ \E noReply \in BOOLEAN : RpcRawCall(c, noReply)
           \/ RpcRawStreamCall(c)
           \/ \E mode \in {"unary", "push", "stream"} : CallAfterStop(c, mode)
           \/ DropCall(c)
           \/ FetchEOS(c)
    PROVE  Routed'
<1>1. CASE \E noReply \in BOOLEAN : RpcRawCall(c, noReply)
  <2>1. PICK noReply \in BOOLEAN : RpcRawCall(c, noReply)
    BY <1>1
  <2>2. \A d \in Calls : cst'[d].recv = IF d = c THEN <<>> ELSE cst[d].recv
    BY <2>1 DEF RpcRawCall, IInv, TypeOK
  <2>3. QED
    BY <2>1, <2>2, NewCallRouted DEF RpcRawCall
<1>2. CASE RpcRawStreamCall(c)
  <2>1. \A d \in Calls : cst'[d].recv = IF d = c THEN <<>> ELSE cst[d].recv
    BY <1>2 DEF RpcRawStreamCall, IInv, TypeOK
  <2>2. QED
    BY <1>2, <2>1, NewCallRouted DEF RpcRawStreamCall
<1>3. CASE \E mode \in {"unary", "push", "stream"} : CallAfterStop(c, mode)
  <2>1. PICK mode \in {"unary", "push", "stream"} : CallAfterStop(c, mode)
    BY <1>3
  <2>2. /\ cst'[c].recv \in {<<>>, <<[t |-> "Err", from |-> c]>>}
        /\ \A d \in Calls \ {c} : cst'[d] = cst[d]
    BY <2>1 DEF CallAfterStop, IInv, TypeOK
  <2>3. ChunkToOwner'
    BY <2>2 DEF IInv, Routed, ChunkToOwner
  <2>4. QED
    BY <2>1, <2>3, QuietRouted DEF CallAfterStop
<1>4. CASE DropCall(c) \/ FetchEOS(c)
  <2>1. \A d \in Calls : cst'[d].recv = cst[d].recv
    <3>1. CASE DropCall(c)
      BY <3>1 DEF DropCall, IInv, TypeOK
    <3>2. CASE FetchEOS(c)
      BY <3>2 DEF FetchEOS, IInv, TypeOK
    <3>3. QED
      BY <1>4, <3>1, <3>2
  <2>2. QED
    BY <1>4, <2>1, RecvSame, QuietRouted DEF DropCall, FetchEOS
<1>5. QED
  BY <1>1, <1>2, <1>3, <1>4

\* The actor's handling of one CallReply: the reply goes to the call that
\* call_reply routes its id to, which is the call the broker answered.
LEMMA RecvCallReplyRouted ==
    ASSUME IInv, TypeOK', RecvCallReply
    PROVE  Routed'
<1> DEFINE r == Head(callIn)
           c == callReply[r.id]
<1>1. /\ r = callIn[1] /\ r \in Frames
      /\ Len(callIn') = Len(callIn) - 1
      /\ \A j \in 1..Len(callIn') : callIn'[j] = callIn[j + 1]
  BY HeadTailProperties DEF RecvCallReply, IInv, TypeOK
<1>2. InOwned'
  <2> SUFFICES ASSUME NEW j \in 1..Len(callIn'),
                      \A i \in ReqIds : callReply'[i] \in {callReply[i], NoCall}
               PROVE  /\ callIn'[j].id \in usedIds'
                      /\ callReply'[callIn'[j].id] # NoCall
                           => callReply'[callIn'[j].id] = callIn'[j].from
    <3>1. \A i \in ReqIds : callReply'[i] \in {callReply[i], NoCall}
      BY DEF RecvCallReply, Stop, IInv, TypeOK
    <3>2. QED
      BY <3>1 DEF InOwned, RoutesTo
  <2>1. callIn[j + 1].id \in usedIds /\ RoutesTo(callIn[j + 1].id, callIn[j + 1].from)
        /\ callIn[j + 1].id \in ReqIds
    BY <1>1 DEF IInv, Routed, InOwned, TypeOK, Frames
  <2>2. QED
    BY <1>1, <2>1 DEF RecvCallReply, RoutesTo
<1>3. CASE c = NoCall /\ UNCHANGED <<running, cst, callReply, spawned>>
  <2>1. ChunkToOwner'
    BY <1>3, RecvSame
  <2>2. QED
    BY <1>2, <1>3, <2>1, WireStable DEF RecvCallReply, IInv, Routed, SpawnedToOwner,
                                        EntriesUsed
<1>4. CASE c # NoCall /\ ~DecodeOk(r) /\ Stop
  <2>1. \A i \in ReqIds : callReply'[i] = NoCall
    BY <1>4 DEF Stop
  <2>2. ChunkToOwner'
    <3>1. \A d \in Calls : cst'[d].recv = cst[d].recv
      BY <1>4 DEF Stop, IInv, TypeOK
    <3>2. QED
      BY <3>1, RecvSame
  <2>3. SpawnedToOwner' /\ EntriesUsed'
    BY <1>4, <2>1, EmptySeq DEF Stop, SpawnedToOwner, EntriesUsed
  <2>4. OutOwned' /\ SrvOwned'
    BY <1>4, <2>1, WireStable DEF RecvCallReply
  <2>5. QED
    BY <1>2, <2>2, <2>3, <2>4 DEF Routed
<1>5. CASE /\ c # NoCall /\ DecodeOk(r)
           /\ spawned' = Append(spawned, [to |-> c, item |-> ReplyItem(r)])
           /\ callReply' = IF r.type # Partial
                             THEN [callReply EXCEPT ![r.id] = NoCall]
                             ELSE callReply
           /\ UNCHANGED <<running, cst>>
  <2>1. r.from = c
    <3>1. callIn # <<>>
      BY DEF RecvCallReply
    <3>2. 1 \in 1..Len(callIn)
      BY <3>1, EmptySeq DEF IInv, TypeOK
    <3>3. RoutesTo(r.id, r.from)
      BY <1>1, <3>2 DEF IInv, Routed, InOwned
    <3>4. QED
      BY <1>5, <3>3 DEF RoutesTo
  <2>2. SpawnedToOwner'
    <3>1. ReplyItem(r).from = c
      BY <2>1 DEF ReplyItem
    <3>2. QED
      BY <1>5, <3>1, AppendProperties DEF IInv, Routed, SpawnedToOwner, TypeOK
  <2>3. \A i \in ReqIds : callReply'[i] \in {callReply[i], NoCall}
    BY <1>5 DEF IInv, TypeOK
  <2>4. EntriesUsed'
    BY <1>5, <2>3 DEF RecvCallReply, IInv, Routed, EntriesUsed
  <2>5. ChunkToOwner'
    BY <1>5, RecvSame
  <2>6. QED
    BY <1>2, <2>2, <2>3, <2>4, <2>5, WireStable DEF RecvCallReply, Routed
<1>6. QED
  BY <1>3, <1>4, <1>5 DEF RecvCallReply

\* A spawned send completes: the item it carries was its caller's.
LEMMA DeliverRouted ==
    ASSUME IInv, TypeOK', Deliver
    PROVE  Routed'
<1> DEFINE d == Head(spawned)
<1>1. /\ d = spawned[1]
      /\ 1 \in 1..Len(spawned)
      /\ Len(spawned') = Len(spawned) - 1
      /\ \A j \in 1..Len(spawned') : spawned'[j] = spawned[j + 1]
  BY HeadTailProperties, EmptySeq DEF Deliver, IInv, TypeOK
<1>2. d.item.from = d.to
  BY <1>1 DEF IInv, Routed, SpawnedToOwner
<1>3. ChunkToOwner'
  <2> SUFFICES ASSUME NEW c \in Calls, NEW i \in 1..Len(cst'[c].recv)
               PROVE  cst'[c].recv[i].from = c
    BY DEF ChunkToOwner
  <2>1. /\ d \in [to : Calls, item : Items]
        /\ cst' = [cst EXCEPT ![d.to] = cst'[d.to]]
        /\ \/ cst'[d.to].recv = cst[d.to].recv
           \/ cst'[d.to].recv = Append(cst[d.to].recv, d.item)
           \/ cst'[d.to].recv = <<d.item>>
    BY DeliverFacts DEF IInv
  <2>2. cst[c].recv \in Seq(Items) /\ \A k \in 1..Len(cst[c].recv) : cst[c].recv[k].from = c
    BY DEF IInv, Routed, ChunkToOwner, TypeOK
  <2>3. CASE c # d.to
    BY <2>1, <2>2, <2>3 DEF IInv, TypeOK
  <2>4. CASE c = d.to
    <3>1. cst'[c].recv = cst[c].recv
          \/ cst'[c].recv = Append(cst[c].recv, d.item)
          \/ cst'[c].recv = <<d.item>>
      BY <2>1, <2>4
    <3>2. d.item.from = c
      BY <1>2, <2>4
    <3>3. d.item \in Items
      BY <2>1
    <3>4. CASE cst'[c].recv = Append(cst[c].recv, d.item)
      <4>1. i \in 1..Len(cst[c].recv) \/ i = Len(cst[c].recv) + 1
        BY <2>2, <3>3, <3>4, AppendProperties
      <4>2. QED
        BY <2>2, <3>2, <3>3, <3>4, <4>1, AppendProperties
    <3>5. CASE cst'[c].recv = <<d.item>>
      BY <3>2, <3>5
    <3>6. QED
      BY <2>2, <3>1, <3>4, <3>5
  <2>5. QED
    BY <2>3, <2>4
<1>4. SpawnedToOwner'
  BY <1>1 DEF IInv, Routed, SpawnedToOwner
<1>5. QED
  BY <1>3, <1>4 DEF Deliver, IInv, Routed, OutOwned, SrvOwned, InOwned, EntriesUsed,
                    RoutesTo

\* The broker reads a CallRequest: the call it now owes chunks to keeps the
\* request's id and caller.
LEMMA ServerReadCallRouted ==
    ASSUME IInv, TypeOK', ServerReadCall
    PROVE  Routed'
<1> DEFINE r == Head(callOut)
<1>1. /\ r = callOut[1]
      /\ 1 \in 1..Len(callOut)
      /\ Len(callOut') = Len(callOut) - 1
      /\ \A j \in 1..Len(callOut') : callOut'[j] = callOut[j + 1]
  BY HeadTailProperties, EmptySeq DEF ServerReadCall, IInv, TypeOK
<1>2. OutOwned'
  BY <1>1 DEF ServerReadCall, IInv, Routed, OutOwned, RoutesTo
<1>3. r.id \in usedIds /\ RoutesTo(r.id, r.call)
  BY <1>1 DEF IInv, Routed, OutOwned
<1>4. SrvOwned'
  BY <1>3 DEF ServerReadCall, IInv, Routed, SrvOwned, RoutesTo
<1>5. ChunkToOwner'
  BY RecvSame DEF ServerReadCall
<1>6. QED
  BY <1>2, <1>4, <1>5 DEF ServerReadCall, IInv, Routed, SpawnedToOwner, InOwned,
                          EntriesUsed, RoutesTo

\* The broker sends a chunk of its answer to sc, or a late reply to an id
\* call_reply no longer holds.
LEMMA ServerReplyRouted ==
    ASSUME IInv, TypeOK', ServerLateReply \/ \E sc \in srvCalls : ServerChunk(sc)
    PROVE  Routed'
<1>1. PICK f : /\ callIn' = Append(callIn, f)
               /\ f.id \in usedIds /\ RoutesTo(f.id, f.from)
               /\ SrvOwned'
               /\ UNCHANGED <<callReply, usedIds, callOut, spawned, cst>>
  <2>1. CASE ServerLateReply
    <3>1. PICK id \in usedIds, code \in BrokerCodes :
            /\ callReply[id] = NoCall
            /\ callIn' = Append(callIn, [id |-> id, code |-> code, type |-> Full,
                                         utf8 |-> TRUE, from |-> NoCall])
      BY <2>1 DEF ServerLateReply
    <3>2. QED
      BY <2>1, <3>1 DEF ServerLateReply, RoutesTo, IInv, Routed, SrvOwned
  <2>2. CASE \E sc \in srvCalls : ServerChunk(sc)
    <3>1. PICK sc \in srvCalls : ServerChunk(sc)
      BY <2>2
    <3>2. PICK type \in {Full, Partial}, code \in BrokerCodes, utf8 \in Utf8Choices :
            /\ callIn' = Append(callIn, [id |-> sc.id, code |-> code, type |-> type,
                                         utf8 |-> utf8, from |-> sc.call])
            /\ srvCalls' = (srvCalls \ {sc})
                           \cup (IF type = Full THEN {} ELSE {[sc EXCEPT !.parts = @ + 1]})
      BY <3>1 DEF ServerChunk
    <3>3. sc.id \in usedIds /\ RoutesTo(sc.id, sc.call)
      BY DEF IInv, Routed, SrvOwned
    <3>4. SrvOwned'
      <4>1. \A x \in srvCalls' : (x.id = sc.id /\ x.call = sc.call) \/ x \in srvCalls
        BY <3>2 DEF IInv, TypeOK
      <4>2. QED
        BY <3>1, <3>3, <4>1 DEF ServerChunk, IInv, Routed, SrvOwned, RoutesTo
    <3>5. QED
      BY <3>1, <3>2, <3>3, <3>4 DEF ServerChunk
  <2>3. QED
    BY <2>1, <2>2
<1>2. InOwned'
  <2> SUFFICES ASSUME NEW j \in 1..Len(callIn')
               PROVE  /\ callIn'[j].id \in usedIds'
                      /\ callReply'[callIn'[j].id] # NoCall
                           => callReply'[callIn'[j].id] = callIn'[j].from
    BY DEF InOwned, RoutesTo
  <2>1. CASE j \in 1..Len(callIn)
    <3>1. callIn'[j] = callIn[j]
      BY <1>1, <2>1, AppendProperties DEF IInv, TypeOK
    <3>2. QED
      BY <1>1, <2>1, <3>1 DEF IInv, Routed, InOwned, RoutesTo
  <2>2. CASE j \notin 1..Len(callIn)
    <3>1. callIn'[j] = f
      BY <1>1, <2>2, AppendProperties DEF IInv, TypeOK
    <3>2. QED
      BY <1>1, <3>1 DEF RoutesTo
  <2>3. QED
    BY <2>1, <2>2
<1>3. ChunkToOwner'
  BY <1>1, RecvSame
<1>4. QED
  BY <1>1, <1>2, <1>3 DEF IInv, Routed, SpawnedToOwner, OutOwned, EntriesUsed, RoutesTo

LEMMA IInvInit == Init => IInv
<1> SUFFICES ASSUME Init PROVE IInv
  BY TypeInit
<1>1. TypeOK
  BY TypeInit
<1>2. QED
  BY <1>1, EmptySeq DEF Init, IInv, Routed, ChunkToOwner, SpawnedToOwner, OutOwned,
                        SrvOwned, InOwned, EntriesUsed

LEMMA IInvStep ==
    ASSUME IdCollisions = FALSE
    PROVE  IInv /\ [Next]_vars => IInv'
<1> SUFFICES ASSUME IInv, [Next]_vars PROVE IInv'
  OBVIOUS
<1>1. TypeOK'
  BY TypeStep DEF IInv
<1>2. Routed'
  <2>1. CASE \E c \in Calls :
               \/ \E noReply \in BOOLEAN : RpcRawCall(c, noReply)
               \/ RpcRawStreamCall(c)
               \/ \E mode \in {"unary", "push", "stream"} : CallAfterStop(c, mode)
               \/ DropCall(c)
               \/ FetchEOS(c)
    BY <1>1, <2>1, CallerRouted
  <2>2. CASE RecvCallReply
    BY <1>1, <2>2, RecvCallReplyRouted
  <2>3. CASE Deliver
    BY <1>1, <2>3, DeliverRouted
  <2>4. CASE SinkFail
    BY <1>1, <2>4, RecvSame, QuietRouted DEF SinkFail
  <2>5. CASE WriteError \/ StopOther
    BY <1>1, <2>5, StopRouted DEF WriteError, StopOther
  <2>6. CASE ServerReadCall
    BY <1>1, <2>6, ServerReadCallRouted
  <2>7. CASE ServerLateReply \/ \E sc \in srvCalls : ServerChunk(sc)
    BY <1>1, <2>7, ServerReplyRouted
  <2>8. CASE UNCHANGED vars
    BY <2>8 DEF vars, IInv, Routed, ChunkToOwner, SpawnedToOwner, OutOwned,
                SrvOwned, InOwned, EntriesUsed, RoutesTo
  <2>9. QED
    BY <2>1, <2>2, <2>3, <2>4, <2>5, <2>6, <2>7, <2>8 DEF Next
<1>3. QED
  BY <1>1, <1>2 DEF IInv

\* When gen_id never returns an id already used on the connection (the
\* model's reading of a random 53-bit id), the routing invariant holds in
\* every state, for any callers, id space and bound on Partial chunks.
THEOREM RoutingInvariant ==
    ASSUME IdCollisions = FALSE
    PROVE  Spec => []IInv
BY IInvInit, IInvStep, PTL DEF Spec

\* Demultiplexing by request_id in call_reply and handle_reply: when ids do
\* not repeat, every chunk a caller of call or call_streaming has received
\* was sent by the broker for that caller's own call.
THEOREM ChunksReachOwner ==
    ASSUME IdCollisions = FALSE
    PROVE  Spec => []ChunkToOwner
BY RoutingInvariant, PTL DEF IInv, Routed

====
