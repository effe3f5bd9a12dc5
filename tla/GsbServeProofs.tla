---------------------------- MODULE GsbServeProofs ----------------------------
(***************************************************************************)
(* Proofs about GsbServe: the type invariant, and the EOS contract of     *)
(* handle_call_request (ServedRepliesWellFormed) for any number of served *)
(* requests, chunks and pings.                                             *)
(***************************************************************************)
EXTENDS GsbServe, SequenceTheorems, TLAPS

-----------------------------------------------------------------------------
(* Types.                                                                  *)

LEMMA TypeInit == Init => TypeOK
<1> SUFFICES ASSUME Init PROVE TypeOK
  OBVIOUS
<1>1. srvReqIn \in Seq([sid : ServedIds, noReply : BOOLEAN]) /\ ctlIn \in Seq(CtlFrames)
  BY EmptySeq DEF Init
<1>2. servedLog \in [ServedIds -> Seq(ServedFrames)]
  BY EmptySeq DEF Init
<1>3. serving \in [ServedIds -> ServingStates] /\ ctlSent \in [CtlFrames -> Nat]
  BY DEF Init, ServingStates
<1>4. QED
  BY <1>1, <1>2, <1>3 DEF Init, TypeOK

\* Stop, the shared part of every way the actor stops, keeps the types.
LEMMA StopType ==
    ASSUME TypeOK, Stop
    PROVE  /\ serving' \in [ServedIds -> ServingStates]
           /\ running' \in BOOLEAN /\ notified' \in BOOLEAN
BY DEF Stop, TypeOK, ServingStates

\* Writing a frame keeps a log a sequence of frames.
LEMMA WriteType ==
    ASSUME NEW log \in Seq(ServedFrames), NEW f \in ServedFrames
    PROVE  Write(log, f) \in Seq(ServedFrames)
BY AppendProperties DEF Write

LEMMA TypeStep == TypeOK /\ [Next]_vars => TypeOK'
<1> SUFFICES ASSUME TypeOK, [Next]_vars PROVE TypeOK'
  OBVIOUS
<1>1. CASE RecvCallRequest
  <2> DEFINE r == Head(srvReqIn)
  <2>1. r \in [sid : ServedIds, noReply : BOOLEAN]
        /\ Tail(srvReqIn) \in Seq([sid : ServedIds, noReply : BOOLEAN])
    BY <1>1, HeadTailProperties DEF RecvCallRequest, TypeOK
  <2>2. serving' \in [ServedIds -> ServingStates]
    BY <1>1, <2>1 DEF RecvCallRequest, HandlePushRequest, HandleCallRequest,
                      TypeOK, ServingStates
  <2>3. QED
    BY <1>1, <2>1, <2>2 DEF RecvCallRequest, TypeOK
<1>2. ASSUME NEW sid \in ServedIds, ServeItem(sid) PROVE TypeOK'
  <2>1. PICK f \in HandlerItems :
          /\ servedLog' = [servedLog EXCEPT ![sid] = Write(@, f)]
          /\ gotEos' = [gotEos EXCEPT ![sid] = f # "Part"]
          /\ serving' = [serving EXCEPT ![sid] = IF f = "Part" THEN "run" ELSE "ended"]
    BY <1>2 DEF ServeItem
  <2>2. Write(servedLog[sid], f) \in Seq(ServedFrames)
    BY WriteType DEF TypeOK, HandlerItems, ServedFrames
  <2>3. QED
    BY <1>2, <2>1, <2>2 DEF ServeItem, TypeOK, ServingStates
<1>3. ASSUME NEW sid \in ServedIds, ServeEnd(sid) PROVE TypeOK'
  <2>1. Write(servedLog[sid], "Eos") \in Seq(ServedFrames)
    BY WriteType DEF TypeOK, ServedFrames
  <2>2. QED
    BY <1>3, <2>1 DEF ServeEnd, TypeOK, ServingStates
<1>4. CASE RecvCtl
  <2>1. Tail(ctlIn) \in Seq(CtlFrames)
    BY <1>4, HeadTailProperties DEF RecvCtl, TypeOK
  <2>2. \/ Stop /\ UNCHANGED <<helloSeen, pongs>>
        \/ /\ UNCHANGED <<running, serving, notified>>
           /\ helloSeen' = TRUE \/ UNCHANGED helloSeen
           /\ pongs' = pongs + 1 \/ UNCHANGED pongs
    BY <1>4, Zenon DEF RecvCtl
  <2>4. pongs + 1 \in Nat
    BY DEF TypeOK
  <2>3. QED
    BY <1>4, <2>1, <2>2, <2>4, StopType DEF RecvCtl, TypeOK
<1>5. CASE SinkFail
  BY <1>5 DEF SinkFail, TypeOK
<1>6. CASE WriteError
  BY <1>6, StopType DEF WriteError, TypeOK
<1>7. ASSUME NEW sid \in ServedIds, ServerCallRequest(sid) PROVE TypeOK'
  <2>1. PICK noReply \in BOOLEAN :
          srvReqIn' = Append(srvReqIn, [sid |-> sid, noReply |-> noReply])
    BY <1>7 DEF ServerCallRequest
  <2>2. srvReqIn' \in Seq([sid : ServedIds, noReply : BOOLEAN])
    BY <2>1, AppendProperties DEF TypeOK
  <2>3. QED
    BY <1>7, <2>2 DEF ServerCallRequest, TypeOK, ServingStates
<1>8. ASSUME NEW f \in CtlFrames, ServerSendCtl(f) PROVE TypeOK'
  <2>1. ctlIn' \in Seq(CtlFrames)
    BY <1>8, AppendProperties DEF ServerSendCtl, TypeOK
  <2>2. QED
    BY <1>8, <2>1 DEF ServerSendCtl, TypeOK
<1>9. CASE UNCHANGED vars
  BY <1>9 DEF vars, TypeOK
<1>10. QED
  BY <1>1, <1>2, <1>3, <1>4, <1>5, <1>6, <1>7, <1>8, <1>9 DEF Next

\* Every state the serving side reaches has the types of TypeOK.
THEOREM ServeTypeCorrect == Spec => []TypeOK
BY TypeInit, TypeStep, PTL DEF Spec

-----------------------------------------------------------------------------
(* The EOS contract.                                                       *)

\* The last frame written for a request ends its stream.
LastTerminal(log) == Len(log) > 0 /\ log[Len(log)] \in Terminal

\* What the fold of request s has written, by the state of its request:
\* nothing before the fold starts; only Parts, with got_eos false, while the
\* handler still yields; a terminal frame last once it has ended over a
\* working sink.  No terminal frame is ever followed by another frame.
ServeInv(s) ==
    /\ \A i \in 1..(Len(servedLog[s]) - 1) : servedLog[s][i] \notin Terminal
    /\ serving[s] \in {"idle", "sent", "pushed"} => servedLog[s] = <<>> /\ ~gotEos[s]
    /\ serving[s] = "run" =>
          /\ ~gotEos[s]
          /\ \A i \in 1..Len(servedLog[s]) : servedLog[s][i] = "Part"
    /\ serving[s] = "ended" => gotEos[s] /\ (writerOpen => LastTerminal(servedLog[s]))
    /\ serving[s] = "done" => (writerOpen => LastTerminal(servedLog[s]))

\* Every CallRequest not yet handled is for a distinct request the broker
\* has sent and the actor has not started.
ReqQueueOK ==
    /\ \A i \in 1..Len(srvReqIn) : serving[srvReqIn[i].sid] = "sent"
    /\ \A i, j \in 1..Len(srvReqIn) : i # j => srvReqIn[i].sid # srvReqIn[j].sid

IInv == TypeOK /\ ReqQueueOK /\ \A s \in ServedIds : ServeInv(s)

\* A log of Parts has no terminal frame anywhere.
LEMMA PartsNoTerminal ==
    ASSUME NEW log \in Seq(ServedFrames),
           \A i \in 1..Len(log) : log[i] = "Part"
    PROVE  \A i \in 1..(Len(log) - 1) : log[i] \notin Terminal
BY DEF Terminal

\* A frame appended to a log of Parts is its only possible terminal frame.
LEMMA AppendToParts ==
    ASSUME NEW log \in Seq(ServedFrames), NEW x \in ServedFrames,
           \A i \in 1..Len(log) : log[i] = "Part"
    PROVE  /\ \A i \in 1..(Len(Append(log, x)) - 1) : Append(log, x)[i] \notin Terminal
           /\ x \in Terminal => LastTerminal(Append(log, x))
           /\ x = "Part" => \A i \in 1..Len(Append(log, x)) : Append(log, x)[i] = "Part"
<1>1. /\ Len(Append(log, x)) = Len(log) + 1
      /\ \A i \in 1..Len(log) : Append(log, x)[i] = log[i]
      /\ Append(log, x)[Len(log) + 1] = x
  BY AppendProperties
<1>2. Len(log) \in Nat
  BY LenProperties
<1>3. QED
  BY <1>1, <1>2 DEF Terminal, LastTerminal

\* Init establishes the invariant.
LEMMA IInvInit == Init => IInv
<1> SUFFICES ASSUME Init PROVE IInv
  OBVIOUS
<1>1. TypeOK
  BY TypeInit
<1>2. ReqQueueOK
  BY EmptySeq DEF Init, ReqQueueOK
<1>3. ASSUME NEW s \in ServedIds PROVE ServeInv(s)
  <2>1. servedLog[s] = <<>> /\ serving[s] = "idle" /\ ~gotEos[s]
    BY DEF Init
  <2>2. Len(servedLog[s]) = 0
    BY <2>1
  <2>3. QED
    BY <2>1, <2>2 DEF ServeInv
<1>4. QED
  BY <1>1, <1>2, <1>3 DEF IInv

\* A stop only sends running folds to "dropped", which the invariant asks
\* nothing of but the order of the frames already written.
LEMMA StopInv ==
    ASSUME IInv, Stop, UNCHANGED <<writerOpen, srvReqIn, gotEos, servedLog>>
    PROVE  ReqQueueOK' /\ \A s \in ServedIds : ServeInv(s)'
<1>1. \A s \in ServedIds : serving'[s] = IF serving[s] \in {"run", "ended"}
                                          THEN "dropped" ELSE serving[s]
  BY DEF Stop
<1>2. ReqQueueOK'
  <2>1. \A i \in 1..Len(srvReqIn) : srvReqIn[i].sid \in ServedIds
    <3>1. srvReqIn \in Seq([sid : ServedIds, noReply : BOOLEAN])
      BY DEF IInv, TypeOK
    <3>2. \A i \in 1..Len(srvReqIn) : srvReqIn[i] \in [sid : ServedIds, noReply : BOOLEAN]
      BY <3>1, ElementOfSeq
    <3>3. QED
      BY <3>2
  <2>2. \A i \in 1..Len(srvReqIn) : serving'[srvReqIn[i].sid] = "sent"
    BY <1>1, <2>1 DEF IInv, ReqQueueOK
  <2>3. QED
    BY <2>2 DEF IInv, ReqQueueOK
<1>3. ASSUME NEW s \in ServedIds PROVE ServeInv(s)'
  BY <1>1 DEF IInv, ServeInv
<1>4. QED
  BY <1>2, <1>3

\* Handling the head CallRequest starts a request whose log is still empty.
LEMMA RecvCallRequestInv ==
    ASSUME IInv, RecvCallRequest
    PROVE  ReqQueueOK' /\ \A s \in ServedIds : ServeInv(s)'
<1> DEFINE r == Head(srvReqIn)
<1> DEFINE R == [sid : ServedIds, noReply : BOOLEAN]
<1>1. srvReqIn \in Seq(R) /\ srvReqIn # <<>>
  BY DEF IInv, TypeOK, RecvCallRequest
<1>2. /\ Len(Tail(srvReqIn)) = Len(srvReqIn) - 1
      /\ \A i \in 1..Len(Tail(srvReqIn)) : Tail(srvReqIn)[i] = srvReqIn[i + 1]
      /\ Len(srvReqIn) \in Nat /\ Len(srvReqIn) > 0
  BY <1>1, HeadTailProperties, LenProperties, EmptySeq
<1>3. \A i \in 1..Len(srvReqIn) : srvReqIn[i] \in R
  BY <1>1, ElementOfSeq
<1>4. r = srvReqIn[1] /\ r \in R
  BY <1>1, <1>2, <1>3
<1>5. serving[r.sid] = "sent"
  BY <1>2, <1>4 DEF IInv, ReqQueueOK
<1>6. \A i \in 1..Len(Tail(srvReqIn)) : Tail(srvReqIn)[i].sid # r.sid
  BY <1>2, <1>4 DEF IInv, ReqQueueOK
<1>7. serving' = [serving EXCEPT ![r.sid] = IF r.noReply THEN "pushed" ELSE "run"]
  BY DEF RecvCallRequest, HandlePushRequest, HandleCallRequest
<1>8. srvReqIn' = Tail(srvReqIn)
      /\ UNCHANGED <<writerOpen, gotEos, servedLog>>
  BY DEF RecvCallRequest
<1>9. ReqQueueOK'
  <2>1. \A i \in 1..Len(srvReqIn') : serving'[srvReqIn'[i].sid] = "sent"
    BY <1>2, <1>3, <1>4, <1>6, <1>7, <1>8 DEF IInv, ReqQueueOK, TypeOK
  <2>2. \A i, j \in 1..Len(srvReqIn') : i # j => srvReqIn'[i].sid # srvReqIn'[j].sid
    BY <1>2, <1>8 DEF IInv, ReqQueueOK
  <2>3. QED
    BY <2>1, <2>2 DEF ReqQueueOK
<1>10. ASSUME NEW s \in ServedIds PROVE ServeInv(s)'
  <2>1. CASE s = r.sid
    <3>1. servedLog[s] = <<>> /\ ~gotEos[s]
      BY <1>5, <2>1 DEF IInv, ServeInv
    <3>2. serving'[s] \in {"pushed", "run"}
      BY <1>4, <1>7, <2>1 DEF IInv, TypeOK
    <3>3. Len(servedLog[s]) = 0
      BY <3>1
    <3>4. QED
      BY <1>8, <3>1, <3>2, <3>3 DEF ServeInv
  <2>2. CASE s # r.sid
    BY <1>7, <1>8, <2>2 DEF IInv, ServeInv, TypeOK
  <2>3. QED
    BY <2>1, <2>2
<1>11. QED
  BY <1>9, <1>10

\* One step of the fold keeps the log Parts followed by at most one
\* terminal frame, which got_eos records.
LEMMA ServeItemInv ==
    ASSUME IInv, NEW sid \in ServedIds, ServeItem(sid)
    PROVE  ReqQueueOK' /\ \A s \in ServedIds : ServeInv(s)'
<1>1. PICK f \in HandlerItems :
        /\ servedLog' = [servedLog EXCEPT ![sid] = Write(@, f)]
        /\ gotEos' = [gotEos EXCEPT ![sid] = f # "Part"]
        /\ serving' = [serving EXCEPT ![sid] = IF f = "Part" THEN "run" ELSE "ended"]
  BY DEF ServeItem
<1>2. serving[sid] = "run" /\ UNCHANGED <<writerOpen, srvReqIn>>
  BY DEF ServeItem
<1>3. /\ ~gotEos[sid]
      /\ \A i \in 1..Len(servedLog[sid]) : servedLog[sid][i] = "Part"
      /\ servedLog[sid] \in Seq(ServedFrames)
  BY <1>2 DEF IInv, ServeInv, TypeOK
<1>4. ReqQueueOK'
  BY <1>1, <1>2 DEF IInv, ReqQueueOK, TypeOK
<1>5. ServeInv(sid)'
  <2>1. CASE writerOpen
    <3>1. servedLog'[sid] = Append(servedLog[sid], f)
      BY <1>1, <2>1 DEF Write, IInv, TypeOK
    <3>2. f \in ServedFrames /\ (f # "Part" => f \in Terminal)
      BY DEF HandlerItems, ServedFrames, Terminal
    <3>3. /\ \A i \in 1..(Len(servedLog'[sid]) - 1) : servedLog'[sid][i] \notin Terminal
          /\ f \in Terminal => LastTerminal(servedLog'[sid])
          /\ f = "Part" => \A i \in 1..Len(servedLog'[sid]) : servedLog'[sid][i] = "Part"
      BY <1>3, <3>1, <3>2, AppendToParts
    <3>4. /\ gotEos'[sid] = (f # "Part")
          /\ serving'[sid] = IF f = "Part" THEN "run" ELSE "ended"
      BY <1>1 DEF IInv, TypeOK
    <3>5. QED
      BY <1>2, <2>1, <3>2, <3>3, <3>4 DEF ServeInv
  <2>2. CASE ~writerOpen
    <3>1. servedLog'[sid] = servedLog[sid]
      BY <1>1, <2>2 DEF Write, IInv, TypeOK
    <3>2. \A i \in 1..(Len(servedLog[sid]) - 1) : servedLog[sid][i] \notin Terminal
      BY <1>3, PartsNoTerminal
    <3>3. /\ gotEos'[sid] = (f # "Part")
          /\ serving'[sid] = IF f = "Part" THEN "run" ELSE "ended"
      BY <1>1 DEF IInv, TypeOK
    <3>4. QED
      BY <1>2, <1>3, <2>2, <3>1, <3>2, <3>3 DEF ServeInv
  <2>3. QED
    BY <2>1, <2>2
<1>6. ASSUME NEW s \in ServedIds, s # sid PROVE ServeInv(s)'
  BY <1>1, <1>2, <1>6 DEF IInv, ServeInv, TypeOK
<1>7. QED
  BY <1>4, <1>5, <1>6

\* The end of the fold writes the EOS frame exactly when no terminal frame
\* was written.
LEMMA ServeEndInv ==
    ASSUME IInv, NEW sid \in ServedIds, ServeEnd(sid)
    PROVE  ReqQueueOK' /\ \A s \in ServedIds : ServeInv(s)'
<1>1. /\ serving[sid] \in {"run", "ended"}
      /\ servedLog' = IF gotEos[sid] THEN servedLog
                      ELSE [servedLog EXCEPT ![sid] = Write(@, "Eos")]
      /\ serving' = [serving EXCEPT ![sid] = "done"]
      /\ UNCHANGED <<writerOpen, srvReqIn, gotEos>>
  BY DEF ServeEnd
<1>2. ReqQueueOK'
  BY <1>1 DEF IInv, ReqQueueOK, TypeOK
<1>3. ServeInv(sid)'
  <2>1. CASE gotEos[sid]
    <3>1. serving[sid] = "ended"
      BY <1>1, <2>1 DEF IInv, ServeInv
    <3>2. QED
      BY <1>1, <2>1, <3>1 DEF IInv, ServeInv, TypeOK
  <2>2. CASE ~gotEos[sid] /\ writerOpen
    <3>1. serving[sid] = "run"
      BY <1>1, <2>2 DEF IInv, ServeInv
    <3>2. /\ \A i \in 1..Len(servedLog[sid]) : servedLog[sid][i] = "Part"
          /\ servedLog[sid] \in Seq(ServedFrames)
      BY <3>1 DEF IInv, ServeInv, TypeOK
    <3>3. servedLog'[sid] = Append(servedLog[sid], "Eos")
      BY <1>1, <2>2 DEF Write, IInv, TypeOK
    <3>4. "Eos" \in ServedFrames /\ "Eos" \in Terminal
      BY DEF ServedFrames, Terminal
    <3>5. QED
      BY <1>1, <2>2, <3>2, <3>3, <3>4, AppendToParts DEF ServeInv, IInv, TypeOK
  <2>3. CASE ~gotEos[sid] /\ ~writerOpen
    <3>1. servedLog'[sid] = servedLog[sid]
      BY <1>1, <2>3 DEF Write, IInv, TypeOK
    <3>2. QED
      BY <1>1, <2>3, <3>1 DEF IInv, ServeInv, TypeOK
  <2>4. QED
    BY <2>1, <2>2, <2>3
<1>4. ASSUME NEW s \in ServedIds, s # sid PROVE ServeInv(s)'
  BY <1>1, <1>4 DEF IInv, ServeInv, TypeOK
<1>5. QED
  BY <1>2, <1>3, <1>4

\* The broker's CallRequest is for a request not seen before, so it is the
\* only one of its id in the queue.
LEMMA ServerCallRequestInv ==
    ASSUME IInv, NEW sid \in ServedIds, ServerCallRequest(sid)
    PROVE  ReqQueueOK' /\ \A s \in ServedIds : ServeInv(s)'
<1> DEFINE R == [sid : ServedIds, noReply : BOOLEAN]
<1>1. PICK nr \in BOOLEAN : srvReqIn' = Append(srvReqIn, [sid |-> sid, noReply |-> nr])
  BY DEF ServerCallRequest
<1>2. /\ serving[sid] = "idle"
      /\ serving' = [serving EXCEPT ![sid] = "sent"]
      /\ UNCHANGED <<writerOpen, gotEos, servedLog>>
  BY DEF ServerCallRequest
<1>3. /\ srvReqIn \in Seq(R)
      /\ [sid |-> sid, noReply |-> nr] \in R
  BY DEF IInv, TypeOK
<1>4. /\ Len(srvReqIn') = Len(srvReqIn) + 1
      /\ \A i \in 1..Len(srvReqIn) : srvReqIn'[i] = srvReqIn[i]
      /\ srvReqIn'[Len(srvReqIn) + 1] = [sid |-> sid, noReply |-> nr]
      /\ Len(srvReqIn) \in Nat
  BY <1>1, <1>3, AppendProperties, LenProperties
<1>5. \A i \in 1..Len(srvReqIn) : srvReqIn[i] \in R
  BY <1>3, ElementOfSeq
<1>6. \A i \in 1..Len(srvReqIn) : srvReqIn[i].sid # sid
  BY <1>2 DEF IInv, ReqQueueOK
<1>7. \A i \in 1..Len(srvReqIn') : serving'[srvReqIn'[i].sid] = "sent"
  <2> SUFFICES ASSUME NEW i \in 1..Len(srvReqIn') PROVE serving'[srvReqIn'[i].sid] = "sent"
    OBVIOUS
  <2>1. CASE i \in 1..Len(srvReqIn)
    <3>1. srvReqIn'[i].sid = srvReqIn[i].sid /\ srvReqIn[i].sid \in ServedIds
      BY <1>4, <1>5, <2>1
    <3>2. srvReqIn[i].sid # sid /\ serving[srvReqIn[i].sid] = "sent"
      BY <1>6, <2>1 DEF IInv, ReqQueueOK
    <3>3. QED
      BY <1>2, <3>1, <3>2 DEF IInv, TypeOK
  <2>2. CASE i = Len(srvReqIn) + 1
    <3>1. srvReqIn'[i].sid = sid
      BY <1>4, <2>2
    <3>2. QED
      BY <1>2, <3>1 DEF IInv, TypeOK
  <2>3. QED
    BY <1>4, <2>1, <2>2
<1>8. \A i, j \in 1..Len(srvReqIn') : i # j => srvReqIn'[i].sid # srvReqIn'[j].sid
  BY <1>4, <1>6 DEF IInv, ReqQueueOK
<1>9. ReqQueueOK'
  BY <1>7, <1>8 DEF ReqQueueOK
<1>10. ASSUME NEW s \in ServedIds PROVE ServeInv(s)'
  BY <1>2 DEF IInv, ServeInv, TypeOK
<1>11. QED
  BY <1>9, <1>10

\* A failed sink makes every "over a working sink" clause vacuous.
LEMMA SinkFailInv ==
    ASSUME IInv, SinkFail
    PROVE  ReqQueueOK' /\ \A s \in ServedIds : ServeInv(s)'
BY DEF SinkFail, IInv, ReqQueueOK, ServeInv

\* The control frames either stop the actor or leave the requests alone.
LEMMA RecvCtlInv ==
    ASSUME IInv, RecvCtl
    PROVE  ReqQueueOK' /\ \A s \in ServedIds : ServeInv(s)'
<1>1. UNCHANGED <<writerOpen, srvReqIn, gotEos, servedLog>>
  BY DEF RecvCtl
<1>2. Stop \/ UNCHANGED serving
  BY Zenon DEF RecvCtl
<1>3. CASE Stop
  BY <1>1, <1>3, StopInv
<1>4. CASE UNCHANGED serving
  BY <1>1, <1>4 DEF IInv, ReqQueueOK, ServeInv
<1>5. QED
  BY <1>2, <1>3, <1>4

\* Every step keeps the invariant.
LEMMA IInvStep == IInv /\ [Next]_vars => IInv'
<1> SUFFICES ASSUME IInv, [Next]_vars PROVE IInv'
  OBVIOUS
<1>1. TypeOK'
  BY TypeStep DEF IInv
<1> DEFINE Rest == ReqQueueOK' /\ \A s \in ServedIds : ServeInv(s)'
<1>2. ASSUME RecvCallRequest PROVE Rest
  BY <1>2, RecvCallRequestInv
<1>3. ASSUME RecvCtl PROVE Rest
  BY <1>3, RecvCtlInv
<1>4. ASSUME SinkFail PROVE Rest
  BY <1>4, SinkFailInv
<1>5. ASSUME WriteError PROVE Rest
  BY <1>5, StopInv DEF WriteError
<1>6. ASSUME NEW s \in ServedIds, ServeItem(s) PROVE Rest
  BY <1>6, ServeItemInv
<1>7. ASSUME NEW s \in ServedIds, ServeEnd(s) PROVE Rest
  BY <1>7, ServeEndInv
<1>8. ASSUME NEW s \in ServedIds, ServerCallRequest(s) PROVE Rest
  BY <1>8, ServerCallRequestInv
<1>9. ASSUME NEW f \in CtlFrames, ServerSendCtl(f) PROVE Rest
  BY <1>9 DEF ServerSendCtl, IInv, ReqQueueOK, ServeInv
<1>10. ASSUME UNCHANGED vars PROVE Rest
  BY <1>10 DEF vars, IInv, ReqQueueOK, ServeInv
<1>11. Rest
  BY <1>2, <1>3, <1>4, <1>5, <1>6, <1>7, <1>8, <1>9, <1>10 DEF Next
<1>12. QED
  BY <1>1, <1>11 DEF IInv

\* The invariant gives the EOS contract.
LEMMA IInvServed == IInv => ServedRepliesWellFormed
BY DEF IInv, ServeInv, LastTerminal, ServedRepliesWellFormed

\* The EOS contract of handle_call_request holds in every reachable state,
\* for any number of served requests, Part chunks and pings: the frames
\* written for a request never put a reply_type 0 frame before another
\* frame, and a finished fold over a working sink ended with one.
THEOREM ServedRepliesProved == Spec => []ServedRepliesWellFormed
<1>1. Init => IInv
  BY IInvInit
<1>2. IInv /\ [Next]_vars => IInv'
  BY IInvStep
<1>3. IInv => ServedRepliesWellFormed
  BY IInvServed
<1>4. QED
  BY <1>1, <1>2, <1>3, PTL DEF Spec

====
