------------------------- MODULE GsbReplyQueuesProofs -------------------------
(***************************************************************************)
(* Proofs about the reply queues of the connection actor (GsbReplyQueues): *)
(* type correctness, and that positional matching in handle_reply gives   *)
(* every command waiter the answer to its own request whenever the broker *)
(* answers only requests it read.                                          *)
(***************************************************************************)
EXTENDS GsbReplyQueues, SequenceTheorems, TLAPS

-----------------------------------------------------------------------------
(* Type correctness.                                                       *)

LEMMA TypeInit == Init => TypeOK
<1> SUFFICES ASSUME Init PROVE TypeOK
  OBVIOUS
<1>1. queue \in [CmdKinds -> Seq(Waiters)] /\ cmdOut \in [CmdKinds -> Seq(Waiters)]
  BY DEF Init
<1>2. cmdIn \in [CmdKinds -> Seq([for : Waiters \cup {NoWaiter}, code : Codes])]
  BY DEF Init
<1>3. wst \in [Waiters -> [kind : CmdKinds, st : WaiterStates,
                           for : Waiters \cup {NoWaiter}]]
  BY DEF Init, WaiterStates, CmdKinds
<1>4. QED
  BY <1>1, <1>2, <1>3 DEF Init, TypeOK

\* Stop keeps wst typed: pending waiters become Closed.
LEMMA StopType ==
    ASSUME TypeOK, Stop
    PROVE  running' \in BOOLEAN /\
           wst' \in [Waiters -> [kind : CmdKinds, st : WaiterStates,
                                 for : Waiters \cup {NoWaiter}]]
BY DEF Stop, TypeOK, WaiterStates

LEMMA TypeStep == TypeOK /\ [Next]_vars => TypeOK'
<1> SUFFICES ASSUME TypeOK, [Next]_vars PROVE TypeOK'
  OBVIOUS
<1>1. ASSUME NEW w \in Waiters, NEW k \in CmdKinds, SendCmdAsync(w, k)
      PROVE  TypeOK'
  <2>1. queue' \in [CmdKinds -> Seq(Waiters)]
    BY <1>1 DEF SendCmdAsync, TypeOK
  <2>2. cmdOut' \in [CmdKinds -> Seq(Waiters)]
    <3>1. CASE writerOpen
      <4>1. cmdOut' = [cmdOut EXCEPT ![k] = Append(@, w)]
        BY <1>1, <3>1 DEF SendCmdAsync
      <4>2. QED
        BY <4>1 DEF TypeOK
    <3>2. CASE ~writerOpen
      BY <1>1, <3>2 DEF SendCmdAsync, TypeOK
    <3>3. QED
      BY <3>1, <3>2
  <2>3. \E s \in {"pending", "NoConnection"} :
           wst' = [wst EXCEPT ![w] = [kind |-> k, st |-> s, for |-> NoWaiter]]
    BY <1>1 DEF SendCmdAsync
  <2>4. wst' \in [Waiters -> [kind : CmdKinds, st : WaiterStates,
                              for : Waiters \cup {NoWaiter}]]
    BY <2>3 DEF TypeOK, WaiterStates
  <2>5. UNCHANGED <<running, writerOpen, cmdIn, spurious>>
    BY <1>1 DEF SendCmdAsync
  <2>6. QED
    BY <2>1, <2>2, <2>4, <2>5 DEF TypeOK
<1>2. ASSUME NEW k \in CmdKinds, RecvCmdReply(k) PROVE TypeOK'
  <2> DEFINE r == Head(cmdIn[k])
  <2>0. cmdIn[k] # <<>> /\ cmdIn' = [cmdIn EXCEPT ![k] = Tail(@)]
    BY <1>2 DEF RecvCmdReply
  <2> DEFINE F == [for : Waiters \cup {NoWaiter}, code : Codes]
  <2>1. r \in F /\ Tail(cmdIn[k]) \in Seq(F)
    BY <2>0, HeadTailProperties DEF TypeOK
  <2>2. cmdIn' \in [CmdKinds -> Seq(F)]
    BY <2>0, <2>1 DEF TypeOK
  <2>3. CASE r.code \notin ValidCodes(k) \/ queue[k] = <<>>
    <3>1. Stop /\ UNCHANGED queue
      BY <1>2, <2>3 DEF RecvCmdReply
    <3>2. QED
      BY <3>1, <2>2, StopType, <1>2 DEF RecvCmdReply, TypeOK
  <2>4. CASE r.code \in ValidCodes(k) /\ queue[k] # <<>>
    <3> DEFINE w == Head(queue[k])
    <3>1. w \in Waiters /\ Tail(queue[k]) \in Seq(Waiters)
      BY <2>4, HeadTailProperties DEF TypeOK
    <3>2. CodeResult(k, r.code) \in WaiterStates
      BY DEF CodeResult, WaiterStates, ReplyResults
    <3>3. /\ wst' = IF wst[w].st = "pending"
                      THEN [wst EXCEPT ![w].st = CodeResult(k, r.code),
                                       ![w].for = r.for]
                      ELSE wst
          /\ queue' = [queue EXCEPT ![k] = Tail(@)]
          /\ UNCHANGED <<running, writerOpen, cmdOut, spurious>>
      BY <1>2, <2>4 DEF RecvCmdReply
    <3>4. wst' \in [Waiters -> [kind : CmdKinds, st : WaiterStates,
                                 for : Waiters \cup {NoWaiter}]]
      BY <3>1, <3>2, <3>3, <2>1 DEF TypeOK
    <3>5. queue' \in [CmdKinds -> Seq(Waiters)]
      BY <3>1, <3>3 DEF TypeOK
    <3>6. QED
      BY <3>3, <3>4, <3>5, <2>2 DEF TypeOK
  <2>5. QED
    BY <2>3, <2>4
<1>3. CASE SinkFail
  BY <1>3 DEF SinkFail, TypeOK
<1>4. CASE WriteError
  BY <1>4, StopType DEF WriteError, TypeOK
<1>5. CASE StopOther
  BY <1>5, StopType DEF StopOther, TypeOK
<1>6. ASSUME NEW k \in CmdKinds, ServerReplyCmd(k) PROVE TypeOK'
  <2>1. BrokerCodes(k) \subseteq Codes
    BY DEF BrokerCodes, ValidCodes, Codes, InvalidCode
  <2> DEFINE F == [for : Waiters \cup {NoWaiter}, code : Codes]
  <2>2. PICK code \in BrokerCodes(k) :
           cmdIn' = [cmdIn EXCEPT ![k] = Append(@, [for |-> Head(cmdOut[k]), code |-> code])]
    BY <1>6 DEF ServerReplyCmd
  <2>3. cmdOut[k] # <<>> /\ cmdOut' = [cmdOut EXCEPT ![k] = Tail(@)]
    BY <1>6 DEF ServerReplyCmd
  <2>4. Head(cmdOut[k]) \in Waiters /\ Tail(cmdOut[k]) \in Seq(Waiters)
    BY <2>3, HeadTailProperties DEF TypeOK
  <2>5. Append(cmdIn[k], [for |-> Head(cmdOut[k]), code |-> code]) \in Seq(F)
    BY <2>1, <2>4, AppendProperties DEF TypeOK
  <2>6. QED
    BY <1>6, <2>2, <2>3, <2>4, <2>5 DEF ServerReplyCmd, TypeOK
<1>7. ASSUME NEW k \in CmdKinds, ServerSpuriousReply(k) PROVE TypeOK'
  <2> DEFINE F == [for : Waiters \cup {NoWaiter}, code : Codes]
  <2>0. [for |-> NoWaiter, code |-> 0] \in F
    BY DEF Codes
  <2>1. Append(cmdIn[k], [for |-> NoWaiter, code |-> 0]) \in Seq(F)
    <3>1. cmdIn[k] \in Seq(F)
      BY DEF TypeOK
    <3>2. QED
      BY <2>0, <3>1, AppendProperties
  <2>2. QED
    BY <1>7, <2>1 DEF ServerSpuriousReply, TypeOK
<1>8. CASE UNCHANGED vars
  BY <1>8 DEF vars, TypeOK
<1>9. QED
  BY <1>1, <1>2, <1>3, <1>4, <1>5, <1>6, <1>7, <1>8
     DEF Next, Bind, Unbind, Subscribe, Unsubscribe, BcastCall, CmdKinds

\* Every state the connection actor reaches has the types of TypeOK.
THEOREM TypeCorrect == Spec => []TypeOK
BY TypeInit, TypeStep, PTL DEF Spec

-----------------------------------------------------------------------------
(* Positional matching.                                                    *)

\* QueueAligned(k) over the reply queue Q, the replies in flight I, the
\* requests in flight O and the state of the sink.
Aligned(Q, I, O, open) ==
    /\ Len(I) + Len(O) <= Len(Q)
    /\ open => Len(Q) = Len(I) + Len(O)
    /\ \A i \in 1..Len(I) : I[i].for = Q[i]
    /\ \A i \in 1..Len(O) : O[i] = Q[Len(I) + i]

LEMMA AlignedDef ==
    ASSUME NEW k \in CmdKinds
    PROVE  QueueAligned(k) = Aligned(queue[k], cmdIn[k], cmdOut[k], writerOpen)
BY DEF QueueAligned, Aligned

LEMMA AlignedDefPrime ==
    ASSUME NEW k \in CmdKinds
    PROVE  QueueAligned(k)' = Aligned(queue'[k], cmdIn'[k], cmdOut'[k], writerOpen')
BY DEF QueueAligned, Aligned

\* handle_reply: the oldest reply answers the head of the reply queue, and
\* popping both keeps the rest aligned.
LEMMA AlignPop ==
    ASSUME NEW W, NEW S, NEW Q \in Seq(W), NEW I \in Seq(S), NEW O \in Seq(W),
           NEW open \in BOOLEAN, Aligned(Q, I, O, open), I # <<>>
    PROVE  /\ Q # <<>>
           /\ Head(I).for = Head(Q)
           /\ Aligned(Tail(Q), Tail(I), O, open)
<1>1. Len(I) >= 1 /\ Len(Q) >= 1 /\ Q # <<>>
  BY DEF Aligned
<1>2. /\ \A i \in 1..Len(Tail(Q)) : Tail(Q)[i] = Q[i + 1]
      /\ \A i \in 1..Len(Tail(I)) : Tail(I)[i] = I[i + 1]
  BY <1>1, HeadTailProperties
<1>0. Len(Tail(Q)) = Len(Q) - 1 /\ Len(Tail(I)) = Len(I) - 1
  BY <1>1, HeadTailProperties
<1>3. Head(I).for = Head(Q)
  BY <1>1 DEF Aligned
<1>4. Len(Tail(I)) + Len(O) <= Len(Tail(Q))
  BY <1>0 DEF Aligned
<1>5. open => Len(Tail(Q)) = Len(Tail(I)) + Len(O)
  <2> HAVE open
  <2>1. Len(Q) = Len(I) + Len(O)
    BY DEF Aligned
  <2>2. QED
    BY <1>0, <2>1
<1>6. \A i \in 1..Len(Tail(I)) : Tail(I)[i].for = Tail(Q)[i]
  <2> TAKE i \in 1..Len(Tail(I))
  <2>1. i \in 1..Len(Tail(Q)) /\ i + 1 \in 1..Len(I)
    BY <1>0, <1>4
  <2>2. I[i + 1].for = Q[i + 1]
    BY <2>1 DEF Aligned
  <2>3. QED
    BY <1>2, <2>1, <2>2
<1>7. \A i \in 1..Len(O) : O[i] = Tail(Q)[Len(Tail(I)) + i]
  <2> TAKE i \in 1..Len(O)
  <2>1. Len(Tail(I)) + i \in 1..Len(Tail(Q)) /\ Len(Tail(I)) + i + 1 = Len(I) + i
    BY <1>0, <1>4
  <2>2. O[i] = Q[Len(I) + i]
    BY DEF Aligned
  <2>3. QED
    BY <1>2, <2>1, <2>2
<1>8. Aligned(Tail(Q), Tail(I), O, open)
  BY <1>4, <1>5, <1>6, <1>7 DEF Aligned
<1>9. QED
  BY <1>1, <1>3, <1>8

\* send_cmd_async with a working sink: the waiter and its request are
\* appended together.
LEMMA AlignPushSent ==
    ASSUME NEW W, NEW S, NEW Q \in Seq(W), NEW I \in Seq(S), NEW O \in Seq(W),
           NEW w \in W, Aligned(Q, I, O, TRUE)
    PROVE  Aligned(Append(Q, w), I, Append(O, w), TRUE)
<1> DEFINE Q2 == Append(Q, w)
           O2 == Append(O, w)
<1>1. Len(Q2) = Len(Q) + 1 /\ Len(O2) = Len(O) + 1
  BY AppendProperties
<1>2. Q2[Len(Q) + 1] = w /\ O2[Len(O) + 1] = w
  BY AppendProperties
<1>3. (\A i \in 1..Len(Q) : Q2[i] = Q[i]) /\ (\A i \in 1..Len(O) : O2[i] = O[i])
  BY AppendProperties
<1>4. Len(Q) = Len(I) + Len(O)
  BY DEF Aligned
<1>5. \A i \in 1..Len(I) : I[i].for = Q2[i]
  <2> TAKE i \in 1..Len(I)
  <2>1. I[i].for = Q[i] /\ i \in 1..Len(Q)
    BY <1>4 DEF Aligned
  <2>2. QED
    BY <2>1, <1>3
<1>6. \A i \in 1..Len(O2) : O2[i] = Q2[Len(I) + i]
  <2> TAKE i \in 1..Len(O2)
  <2>1. CASE i \in 1..Len(O)
    <3>1. O[i] = Q[Len(I) + i]
      BY <2>1 DEF Aligned
    <3>2. Len(I) + i \in 1..Len(Q)
      BY <2>1, <1>4
    <3>3. QED
      BY <3>1, <3>2, <2>1, <1>3
  <2>2. CASE i = Len(O) + 1
    <3>1. Len(I) + i = Len(Q) + 1
      BY <2>2, <1>4
    <3>2. QED
      BY <3>1, <2>2, <1>2
  <2>3. i \in 1..Len(O) \/ i = Len(O) + 1
    BY <1>1
  <2>4. QED
    BY <2>1, <2>2, <2>3, Zenon
<1>7. QED
  BY <1>1, <1>4, <1>5, <1>6 DEF Aligned

\* send_cmd_async with a failed sink: the waiter is queued, no request.
LEMMA AlignPushLost ==
    ASSUME NEW W, NEW S, NEW Q \in Seq(W), NEW I \in Seq(S), NEW O \in Seq(W),
           NEW w \in W, Aligned(Q, I, O, FALSE)
    PROVE  Aligned(Append(Q, w), I, O, FALSE)
<1> DEFINE Q2 == Append(Q, w)
<1>1. Len(Q2) = Len(Q) + 1
  BY AppendProperties
<1>2. \A i \in 1..Len(Q) : Q2[i] = Q[i]
  BY AppendProperties
<1>3. Len(I) + Len(O) <= Len(Q)
  BY DEF Aligned
<1>4. \A i \in 1..Len(I) : I[i].for = Q2[i]
  <2> TAKE i \in 1..Len(I)
  <2>1. I[i].for = Q[i] /\ i \in 1..Len(Q)
    BY <1>3 DEF Aligned
  <2>2. QED
    BY <2>1, <1>2
<1>5. \A i \in 1..Len(O) : O[i] = Q2[Len(I) + i]
  <2> TAKE i \in 1..Len(O)
  <2>1. O[i] = Q[Len(I) + i] /\ Len(I) + i \in 1..Len(Q)
    BY <1>3 DEF Aligned
  <2>2. QED
    BY <2>1, <1>2
<1>6. QED
  BY <1>1, <1>3, <1>4, <1>5 DEF Aligned

\* The broker answers the oldest request it has read.
LEMMA AlignServe ==
    ASSUME NEW W, NEW S, NEW Q \in Seq(W), NEW I \in Seq(S), NEW O \in Seq(W),
           NEW open, O # <<>>, Aligned(Q, I, O, open),
           NEW rep \in S, rep.for = Head(O)
    PROVE  Aligned(Q, Append(I, rep), Tail(O), open)
<1> DEFINE I2 == Append(I, rep)
<1>1. Len(I2) = Len(I) + 1 /\ I2[Len(I) + 1] = rep
  BY AppendProperties
<1>2. \A i \in 1..Len(I) : I2[i] = I[i]
  BY AppendProperties
<1>3. Len(Tail(O)) = Len(O) - 1 /\ Len(O) >= 1 /\ Head(O) = O[1]
  BY HeadTailProperties
<1>4. \A i \in 1..Len(Tail(O)) : Tail(O)[i] = O[i + 1]
  BY HeadTailProperties
<1>5. Len(I) + Len(O) <= Len(Q)
  BY DEF Aligned
<1>6. open => Len(Q) = Len(I2) + Len(Tail(O))
  <2> HAVE open
  <2>1. Len(Q) = Len(I) + Len(O)
    BY DEF Aligned
  <2>2. QED
    BY <1>1, <1>3, <2>1
<1>7. \A i \in 1..Len(I2) : I2[i].for = Q[i]
  <2> TAKE i \in 1..Len(I2)
  <2>1. CASE i \in 1..Len(I)
    <3>1. I[i].for = Q[i]
      BY <2>1 DEF Aligned
    <3>2. QED
      BY <3>1, <2>1, <1>2
  <2>2. CASE i = Len(I) + 1
    <3>1. O[1] = Q[Len(I) + 1]
      BY <1>3 DEF Aligned
    <3>2. QED
      BY <3>1, <2>2, <1>1, <1>3
  <2>3. QED
    BY <2>1, <2>2, <1>1
<1>8. \A i \in 1..Len(Tail(O)) : Tail(O)[i] = Q[Len(I2) + i]
  <2> TAKE i \in 1..Len(Tail(O))
  <2>1. i + 1 \in 1..Len(O) /\ Len(I2) + i = Len(I) + (i + 1)
    BY <1>1, <1>3
  <2>2. O[i + 1] = Q[Len(I) + (i + 1)]
    BY <2>1 DEF Aligned
  <2>3. QED
    BY <1>4, <2>1, <2>2
<1>9. QED
  BY <1>1, <1>3, <1>5, <1>6, <1>7, <1>8 DEF Aligned

\* The sink failing leaves everything aligned.
LEMMA AlignClose ==
    ASSUME NEW Q, NEW I, NEW O, NEW open, Aligned(Q, I, O, open)
    PROVE  Aligned(Q, I, O, FALSE)
BY DEF Aligned

-----------------------------------------------------------------------------
\* The inductive invariant: the queues stay aligned with the frames in flight
\* while the actor runs, so every reply popped answers its waiter.
IInv == TypeOK /\ QueueAlignment /\ ReplyMatchesRequest

\* The broker answers only requests it has read.
HonestBroker == "Spurious" \notin Faults

LEMMA IInvInit == Init => IInv
<1> SUFFICES ASSUME Init PROVE IInv
  OBVIOUS
<1>1. TypeOK
  BY TypeInit
<1>2. \A k \in CmdKinds : QueueAligned(k)
  BY DEF Init, QueueAligned
<1>3. ReplyMatchesRequest
  BY DEF Init, ReplyMatchesRequest, ReplyResults
<1>4. QED
  BY <1>1, <1>2, <1>3 DEF IInv, QueueAlignment

\* Stopping keeps every answer received and fails the pending waiters.
LEMMA StopMatch ==
    ASSUME TypeOK, ReplyMatchesRequest, Stop
    PROVE  ReplyMatchesRequest' /\ QueueAlignment'
<1>1. ReplyMatchesRequest'
  BY DEF Stop, TypeOK, ReplyMatchesRequest, ReplyResults
<1>2. QueueAlignment'
  BY DEF Stop, QueueAlignment
<1>3. QED
  BY <1>1, <1>2

LEMMA IInvStep == HonestBroker /\ IInv /\ [Next]_vars => IInv'
<1> SUFFICES ASSUME HonestBroker, IInv, [Next]_vars PROVE IInv'
  OBVIOUS
<1> USE DEF IInv
<1>0. TypeOK'
  BY TypeStep
<1> DEFINE F == [for : Waiters \cup {NoWaiter}, code : Codes]
<1>a. /\ \A k \in CmdKinds : queue[k] \in Seq(Waiters)
      /\ \A k \in CmdKinds : cmdOut[k] \in Seq(Waiters)
      /\ \A k \in CmdKinds : cmdIn[k] \in Seq(F)
      /\ writerOpen \in BOOLEAN
  BY DEF TypeOK
<1>1. ASSUME NEW w \in Waiters, NEW k \in CmdKinds, SendCmdAsync(w, k)
      PROVE  IInv'
  <2>1. running /\ running' /\ UNCHANGED <<writerOpen, cmdIn>>
    BY <1>1 DEF SendCmdAsync
  <2>2. QueueAligned(k)
    BY <2>1 DEF QueueAlignment
  <2>3. ASSUME NEW j \in CmdKinds, j # k PROVE QueueAligned(j)'
    <3>1. queue'[j] = queue[j] /\ cmdOut'[j] = cmdOut[j]
      BY <1>1, <2>3 DEF SendCmdAsync, TypeOK
    <3>2. QueueAligned(j)
      BY <2>1 DEF QueueAlignment
    <3>3. QED
      BY <3>1, <3>2, <2>1 DEF QueueAligned
  <2>4. QueueAligned(k)'
    <3>1. CASE writerOpen
      <4>1. queue'[k] = Append(queue[k], w) /\ cmdOut'[k] = Append(cmdOut[k], w)
        BY <1>1, <3>1 DEF SendCmdAsync, TypeOK
      <4>2. Aligned(Append(queue[k], w), cmdIn[k], Append(cmdOut[k], w), TRUE)
        BY <1>a, <2>2, <3>1, AlignPushSent, AlignedDef
      <4>3. QED
        BY <4>1, <4>2, <2>1, <3>1 DEF QueueAligned, Aligned
    <3>2. CASE ~writerOpen
      <4>1. queue'[k] = Append(queue[k], w) /\ cmdOut'[k] = cmdOut[k]
        BY <1>1, <3>2 DEF SendCmdAsync, TypeOK
      <4>2. Aligned(Append(queue[k], w), cmdIn[k], cmdOut[k], FALSE)
        BY <1>a, <2>2, <3>2, AlignPushLost, AlignedDef
      <4>3. QED
        BY <4>1, <4>2, <2>1, <3>2 DEF QueueAligned, Aligned
    <3>3. QED
      BY <3>1, <3>2
  <2>5. ReplyMatchesRequest'
    <3>1. \E st \in {"pending", "NoConnection"} :
             wst' = [wst EXCEPT ![w] = [kind |-> k, st |-> st, for |-> NoWaiter]]
      BY <1>1 DEF SendCmdAsync
    <3>2. QED
      BY <3>1 DEF ReplyMatchesRequest, ReplyResults, TypeOK
  <2>6. QED
    BY <1>0, <2>3, <2>4, <2>5 DEF QueueAlignment
<1>2. ASSUME NEW k \in CmdKinds, RecvCmdReply(k) PROVE IInv'
  <2> DEFINE r == Head(cmdIn[k])
  <2>0. running /\ cmdIn[k] # <<>> /\ cmdIn' = [cmdIn EXCEPT ![k] = Tail(@)]
    BY <1>2 DEF RecvCmdReply
  <2>1. CASE r.code \notin ValidCodes(k) \/ queue[k] = <<>>
    <3>1. Stop
      BY <1>2, <2>1 DEF RecvCmdReply
    <3>2. QED
      BY <3>1, <1>0, StopMatch
  <2>2. CASE r.code \in ValidCodes(k) /\ queue[k] # <<>>
    <3> DEFINE w == Head(queue[k])
    <3>1. /\ wst' = IF wst[w].st = "pending"
                      THEN [wst EXCEPT ![w].st = CodeResult(k, r.code),
                                       ![w].for = r.for]
                      ELSE wst
          /\ queue' = [queue EXCEPT ![k] = Tail(@)]
          /\ UNCHANGED <<running, writerOpen, cmdOut, spurious>>
      BY <1>2, <2>2 DEF RecvCmdReply
    <3>2. QueueAligned(k)
      BY <2>0 DEF QueueAlignment
    <3>3. r.for = w /\ Aligned(Tail(queue[k]), Tail(cmdIn[k]), cmdOut[k], writerOpen)
      BY <1>a, <2>0, <3>2, AlignPop, AlignedDef
    <3>4. QueueAligned(k)'
      <4>1. queue'[k] = Tail(queue[k]) /\ cmdIn'[k] = Tail(cmdIn[k])
            /\ cmdOut'[k] = cmdOut[k] /\ writerOpen' = writerOpen
        BY <3>1, <2>0 DEF TypeOK
      <4>2. QED
        BY <4>1, <3>3, AlignedDefPrime
    <3>5. ASSUME NEW j \in CmdKinds, j # k PROVE QueueAligned(j)'
      <4>1. QueueAligned(j)
        BY <2>0 DEF QueueAlignment
      <4>2. queue'[j] = queue[j] /\ cmdIn'[j] = cmdIn[j]
            /\ cmdOut'[j] = cmdOut[j] /\ writerOpen' = writerOpen
        BY <3>1, <2>0, <3>5 DEF TypeOK
      <4>3. QED
        BY <4>1, <4>2, AlignedDefPrime, AlignedDef
    <3>6. w \in Waiters
      BY <2>2, <1>a, HeadTailProperties
    <3>7. ReplyMatchesRequest'
      BY <3>1, <3>3, <3>6 DEF ReplyMatchesRequest, TypeOK
    <3>8. QED
      BY <1>0, <3>4, <3>5, <3>7 DEF QueueAlignment
  <2>3. QED
    BY <2>1, <2>2
<1>3. CASE SinkFail
  <2>1. ASSUME NEW j \in CmdKinds PROVE QueueAligned(j)'
    <3>1. running /\ QueueAligned(j)
      BY <1>3 DEF SinkFail, QueueAlignment
    <3>2. Aligned(queue[j], cmdIn[j], cmdOut[j], FALSE)
      BY <3>1, AlignClose, AlignedDef
    <3>3. QED
      BY <3>2, <1>3 DEF SinkFail, QueueAligned, Aligned
  <2>2. QED
    BY <1>0, <2>1, <1>3 DEF SinkFail, QueueAlignment, ReplyMatchesRequest
<1>4. CASE WriteError
  BY <1>0, <1>4, StopMatch DEF WriteError
<1>5. CASE StopOther
  BY <1>0, <1>5, StopMatch DEF StopOther
<1>6. ASSUME NEW k \in CmdKinds, ServerReplyCmd(k) PROVE IInv'
  <2>1. running /\ cmdOut[k] # <<>> /\ cmdOut' = [cmdOut EXCEPT ![k] = Tail(@)]
        /\ UNCHANGED <<running, writerOpen, queue, wst>>
    BY <1>6 DEF ServerReplyCmd
  <2>2. PICK c \in BrokerCodes(k) :
           cmdIn' = [cmdIn EXCEPT ![k] = Append(@, [for |-> Head(cmdOut[k]), code |-> c])]
    BY <1>6 DEF ServerReplyCmd
  <2>3. [for |-> Head(cmdOut[k]), code |-> c] \in F
    <3>1. BrokerCodes(k) \subseteq Codes
      BY DEF BrokerCodes, ValidCodes, Codes, InvalidCode
    <3>2. QED
      BY <3>1, <2>1, <1>a, HeadTailProperties
  <2>4. Aligned(queue[k], Append(cmdIn[k], [for |-> Head(cmdOut[k]), code |-> c]),
                Tail(cmdOut[k]), writerOpen)
    <3>1. QueueAligned(k)
      BY <2>1 DEF QueueAlignment
    <3>2. Aligned(queue[k], cmdIn[k], cmdOut[k], writerOpen)
      BY <3>1, AlignedDef
    <3>3. /\ queue[k] \in Seq(Waiters) /\ cmdOut[k] \in Seq(Waiters)
          /\ cmdIn[k] \in Seq(F) /\ writerOpen \in BOOLEAN
      BY <1>a
    <3>4. [for |-> Head(cmdOut[k]), code |-> c].for = Head(cmdOut[k])
      OBVIOUS
    <3>5. ASSUME NEW rp \in F, rp.for = Head(cmdOut[k])
          PROVE  Aligned(queue[k], Append(cmdIn[k], rp), Tail(cmdOut[k]), writerOpen)
      <4>1. cmdOut[k] # <<>>
        BY <2>1
      <4>2. QED
        BY <3>2, <3>3, <3>5, <4>1, AlignServe
    <3>6. QED
      BY <3>4, <3>5, <2>3
  <2>5. QueueAligned(k)'
    <3>1. /\ queue'[k] = queue[k]
          /\ cmdIn'[k] = Append(cmdIn[k], [for |-> Head(cmdOut[k]), code |-> c])
          /\ cmdOut'[k] = Tail(cmdOut[k]) /\ writerOpen' = writerOpen
      BY <2>1, <2>2 DEF TypeOK
    <3>2. QED
      BY <3>1, <2>4, AlignedDefPrime
  <2>6. ASSUME NEW j \in CmdKinds, j # k PROVE QueueAligned(j)'
    <3>1. QueueAligned(j)
      BY <2>1 DEF QueueAlignment
    <3>2. queue'[j] = queue[j] /\ cmdIn'[j] = cmdIn[j]
          /\ cmdOut'[j] = cmdOut[j] /\ writerOpen' = writerOpen
      BY <2>1, <2>2, <2>6 DEF TypeOK
    <3>3. QED
      BY <3>1, <3>2, AlignedDefPrime, AlignedDef
  <2>7. QED
    BY <1>0, <2>1, <2>5, <2>6 DEF QueueAlignment, ReplyMatchesRequest
<1>7. ASSUME NEW k \in CmdKinds, ServerSpuriousReply(k) PROVE IInv'
  BY <1>7 DEF ServerSpuriousReply, HonestBroker
<1>8. CASE UNCHANGED vars
  BY <1>0, <1>8 DEF vars, QueueAlignment, QueueAligned, ReplyMatchesRequest
<1>9. QED
  BY <1>1, <1>2, <1>3, <1>4, <1>5, <1>6, <1>7, <1>8
     DEF Next, Bind, Unbind, Subscribe, Unsubscribe, BcastCall, CmdKinds

\* Positional matching in handle_reply is sound: as long as the broker
\* answers only requests it has read, whatever codes it sends and whenever
\* the sink fails or the actor stops, every waiter of bind, unbind,
\* subscribe, unsubscribe and broadcast that got an answer got the answer to
\* its own request.
THEOREM ReplyMatching == HonestBroker => (Spec => []ReplyMatchesRequest)
<1> SUFFICES ASSUME HonestBroker PROVE Spec => []ReplyMatchesRequest
  OBVIOUS
<1>1. IInv => ReplyMatchesRequest
  BY DEF IInv
<1>2. QED
  BY IInvInit, IInvStep, <1>1, PTL DEF Spec

\* While the connection runs, each kind's reply queue lines up, in order,
\* with the broker's replies and then with the requests in flight: the
\* invariant behind handle_reply's pop_front, for every number of waiters.
THEOREM QueuesAligned == HonestBroker => (Spec => []QueueAlignment)
<1> SUFFICES ASSUME HonestBroker PROVE Spec => []QueueAlignment
  OBVIOUS
<1>1. IInv => QueueAlignment
  BY DEF IInv
<1>2. QED
  BY IInvInit, IInvStep, <1>1, PTL DEF Spec

====
