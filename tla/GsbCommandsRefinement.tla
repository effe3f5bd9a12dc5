------------------------- MODULE GsbCommandsRefinement -------------------------
(***************************************************************************)
(* Proof that the reply queues of the connection actor (GsbReplyQueues)   *)
(* implement the promise of GsbCommands under the mapping Cmds: the       *)
(* command waiters of a kind are answered in the order they asked, with a *)
(* result of their kind, and a stop fails the rest.  No assumption on the *)
(* broker is needed: a reply to no request still answers the oldest       *)
(* waiter, only not with its own reply (ReplyMatching is about that).     *)
(***************************************************************************)
EXTENDS GsbReplyQueuesProofs

-----------------------------------------------------------------------------
(* QueuePairs under the two changes handle_reply and send_cmd_async make  *)
(* to a queue.                                                             *)

\* Appending a waiter x not yet queued adds the pairs ending in x.
LEMMA PairsAppend ==
    ASSUME NEW Q \in Seq(Waiters), NEW x \in Waiters, NEW P, NEW P2,
           \A i \in 1..Len(Q) : Q[i] # x,
           \A i \in 1..Len(Q) : Q[i] \in P2 <=> Q[i] \in P,
           NEW p
    PROVE  p \in QueuePairs(Append(Q, x), P2) <=>
             \/ p \in QueuePairs(Q, P)
             \/ /\ x \in P2 /\ p \in Waiters \X Waiters /\ p[2] = x
                /\ \E i \in 1..Len(Q) : Q[i] = p[1] /\ p[1] \in P
<1>1. /\ Len(Append(Q, x)) = Len(Q) + 1
      /\ \A i \in 1..Len(Q) : Append(Q, x)[i] = Q[i]
      /\ Append(Q, x)[Len(Q) + 1] = x
      /\ Len(Q) \in Nat
  BY AppendProperties, LenProperties
<1>2. ASSUME p \in QueuePairs(Append(Q, x), P2)
      PROVE  \/ p \in QueuePairs(Q, P)
             \/ /\ x \in P2 /\ p \in Waiters \X Waiters /\ p[2] = x
                /\ \E i \in 1..Len(Q) : Q[i] = p[1] /\ p[1] \in P
  <2>1. PICK i, j \in 1..Len(Append(Q, x)) :
            /\ i < j
            /\ Append(Q, x)[i] = p[1] /\ Append(Q, x)[j] = p[2]
            /\ p[1] \in P2 /\ p[2] \in P2
    BY <1>2 DEF QueuePairs
  <2>2. p \in Waiters \X Waiters
    BY <1>2 DEF QueuePairs
  <2>3. CASE j <= Len(Q)
    BY <1>1, <2>1, <2>2, <2>3 DEF QueuePairs
  <2>4. CASE j = Len(Q) + 1
    BY <1>1, <2>1, <2>2, <2>4
  <2>5. QED
    BY <1>1, <2>3, <2>4
<1>3. ASSUME p \in QueuePairs(Q, P) PROVE p \in QueuePairs(Append(Q, x), P2)
  <2>1. PICK i, j \in 1..Len(Q) : /\ i < j
                                  /\ Q[i] = p[1] /\ Q[j] = p[2]
                                  /\ p[1] \in P /\ p[2] \in P
    BY <1>3 DEF QueuePairs
  <2>2. QED
    BY <1>1, <1>3, <2>1 DEF QueuePairs
<1>4. ASSUME x \in P2, p \in Waiters \X Waiters, p[2] = x,
             NEW i \in 1..Len(Q), Q[i] = p[1], p[1] \in P
      PROVE  p \in QueuePairs(Append(Q, x), P2)
  <2>1. i < Len(Q) + 1 /\ Len(Q) + 1 \in 1..Len(Append(Q, x))
    BY <1>1
  <2>2. QED
    BY <1>1, <1>4, <2>1 DEF QueuePairs
<1>5. QED
  BY <1>2, <1>3, <1>4

\* Popping the head h of a queue without repeats drops the pairs starting
\* at h.
LEMMA PairsTail ==
    ASSUME NEW Q \in Seq(Waiters), Q # <<>>, NEW P, NEW P2,
           \A i, j \in 1..Len(Q) : i # j => Q[i] # Q[j],
           \A i \in 2..Len(Q) : Q[i] \in P2 <=> Q[i] \in P,
           NEW p
    PROVE  p \in QueuePairs(Tail(Q), P2) <=>
             p \in QueuePairs(Q, P) /\ p[1] # Head(Q)
<1>1. /\ Len(Tail(Q)) = Len(Q) - 1
      /\ \A i \in 1..Len(Tail(Q)) : Tail(Q)[i] = Q[i + 1]
      /\ Len(Q) \in Nat /\ Len(Q) > 0
      /\ Head(Q) = Q[1]
  BY HeadTailProperties, LenProperties, EmptySeq
<1>2. ASSUME p \in QueuePairs(Tail(Q), P2)
      PROVE  p \in QueuePairs(Q, P) /\ p[1] # Head(Q)
  <2>1. PICK i, j \in 1..Len(Tail(Q)) :
            /\ i < j
            /\ Tail(Q)[i] = p[1] /\ Tail(Q)[j] = p[2]
            /\ p[1] \in P2 /\ p[2] \in P2
    BY <1>2 DEF QueuePairs
  <2>2. /\ i + 1 \in 2..Len(Q) /\ j + 1 \in 2..Len(Q) /\ i + 1 < j + 1
        /\ Q[i + 1] = p[1] /\ Q[j + 1] = p[2]
    BY <1>1, <2>1
  <2>3. p[1] \in P /\ p[2] \in P
    BY <2>1, <2>2
  <2>4. p[1] # Q[1]
    BY <1>1, <2>2
  <2>5. QED
    BY <1>1, <1>2, <2>2, <2>3, <2>4 DEF QueuePairs
<1>3. ASSUME p \in QueuePairs(Q, P), p[1] # Head(Q)
      PROVE  p \in QueuePairs(Tail(Q), P2)
  <2>1. PICK i, j \in 1..Len(Q) : /\ i < j
                                  /\ Q[i] = p[1] /\ Q[j] = p[2]
                                  /\ p[1] \in P /\ p[2] \in P
    BY <1>3 DEF QueuePairs
  <2>2. i # 1 /\ i \in 2..Len(Q) /\ j \in 2..Len(Q)
    BY <1>1, <1>3, <2>1
  <2>3. /\ i - 1 \in 1..Len(Tail(Q)) /\ j - 1 \in 1..Len(Tail(Q)) /\ i - 1 < j - 1
        /\ Tail(Q)[i - 1] = p[1] /\ Tail(Q)[j - 1] = p[2]
    BY <1>1, <2>1, <2>2
  <2>4. p[1] \in P2 /\ p[2] \in P2
    BY <2>1, <2>2
  <2>5. QED
    BY <1>3, <2>3, <2>4 DEF QueuePairs
<1>4. QED
  BY <1>2, <1>3

-----------------------------------------------------------------------------
(* The invariant the mapping needs.                                        *)

\* A queued waiter waits on the queue of its kind and has asked.
QueuedKinds ==
    \A k \in CmdKinds : \A i \in 1..Len(queue[k]) :
        wst[queue[k][i]].kind = k /\ wst[queue[k][i]].st # "idle"

\* No waiter is queued twice (send_cmd_async runs once per caller).
QueuedOnce ==
    \A k1, k2 \in CmdKinds : \A i \in 1..Len(queue[k1]), j \in 1..Len(queue[k2]) :
        <<k1, i>> # <<k2, j>> => queue[k1][i] # queue[k2][j]

\* A waiting caller is in the queue of its kind.
PendingQueued ==
    \A w \in Waiters : wst[w].st = "pending" =>
        \E i \in 1..Len(queue[wst[w].kind]) : queue[wst[w].kind][i] = w

QInv == TypeOK /\ QueuedKinds /\ QueuedOnce /\ PendingQueued

\* An idle waiter is in no queue.
LEMMA IdleNotQueued ==
    ASSUME QInv, NEW w \in Waiters, wst[w].st = "idle"
    PROVE  \A k \in CmdKinds : \A i \in 1..Len(queue[k]) : queue[k][i] # w
BY DEF QInv, QueuedKinds

LEMMA QInvInit == Init => QInv
<1> SUFFICES ASSUME Init PROVE QInv
  OBVIOUS
<1>1. \A k \in CmdKinds : Len(queue[k]) = 0
  BY DEF Init
<1>2. QED
  BY <1>1, TypeInit DEF QInv, QueuedKinds, QueuedOnce, PendingQueued, Init

\* Stopping keeps the queues and leaves no waiter pending.
LEMMA QInvStop ==
    ASSUME QInv, Stop, UNCHANGED queue
    PROVE  QueuedKinds' /\ QueuedOnce' /\ PendingQueued'
<1>1. \A w \in Waiters : wst'[w].kind = wst[w].kind /\ wst'[w].st # "pending"
                         /\ (wst[w].st # "idle" => wst'[w].st # "idle")
  BY DEF Stop, QInv, TypeOK
<1>2. QED
  BY <1>1 DEF QInv, QueuedKinds, QueuedOnce, PendingQueued, TypeOK

\* send_cmd_async queues a waiter that was idle.
LEMMA QInvSend ==
    ASSUME QInv, NEW w \in Waiters, NEW k \in CmdKinds, SendCmdAsync(w, k)
    PROVE  QueuedKinds' /\ QueuedOnce' /\ PendingQueued'
<1>1. PICK s \in {"pending", "NoConnection"} :
        wst' = [wst EXCEPT ![w] = [kind |-> k, st |-> s, for |-> NoWaiter]]
  BY DEF SendCmdAsync
<1>2. wst[w].st = "idle" /\ queue' = [queue EXCEPT ![k] = Append(@, w)]
  BY DEF SendCmdAsync
<1>3. \A kk \in CmdKinds : \A i \in 1..Len(queue[kk]) : queue[kk][i] # w
  BY <1>2, IdleNotQueued
<1>4. /\ Len(queue'[k]) = Len(queue[k]) + 1
      /\ \A i \in 1..Len(queue[k]) : queue'[k][i] = queue[k][i]
      /\ queue'[k][Len(queue[k]) + 1] = w
      /\ Len(queue[k]) \in Nat
      /\ \A kk \in CmdKinds \ {k} : queue'[kk] = queue[kk]
  BY <1>2, AppendProperties, LenProperties DEF QInv, TypeOK
<1>5. /\ \A v \in Waiters \ {w} : wst'[v] = wst[v]
      /\ wst'[w].kind = k /\ wst'[w].st = s
  BY <1>1 DEF QInv, TypeOK
<1>6. \A kk \in CmdKinds : \A i \in 1..Len(queue'[kk]) :
         \/ kk = k /\ i = Len(queue[k]) + 1 /\ queue'[kk][i] = w
         \/ i \in 1..Len(queue[kk]) /\ queue'[kk][i] = queue[kk][i]
  BY <1>4
<1>7. QueuedKinds'
  <2> SUFFICES ASSUME NEW kk \in CmdKinds, NEW i \in 1..Len(queue'[kk])
               PROVE  wst'[queue'[kk][i]].kind = kk /\ wst'[queue'[kk][i]].st # "idle"
    BY DEF QueuedKinds
  <2>1. CASE kk = k /\ i = Len(queue[k]) + 1 /\ queue'[kk][i] = w
    BY <1>5, <2>1
  <2>2. CASE i \in 1..Len(queue[kk]) /\ queue'[kk][i] = queue[kk][i]
    <3>1. queue[kk][i] \in Waiters \ {w}
      BY <1>3, <2>2 DEF QInv, TypeOK
    <3>2. QED
      BY <1>5, <2>2, <3>1 DEF QInv, QueuedKinds
  <2>3. QED
    BY <1>6, <2>1, <2>2
<1>8. QueuedOnce'
  BY <1>3, <1>6 DEF QInv, QueuedOnce
<1>9. PendingQueued'
  <2> SUFFICES ASSUME NEW v \in Waiters, wst'[v].st = "pending"
               PROVE  \E i \in 1..Len(queue'[wst'[v].kind]) : queue'[wst'[v].kind][i] = v
    BY DEF PendingQueued
  <2>1. CASE v = w
    BY <1>4, <1>5, <2>1
  <2>2. CASE v # w
    <3>1. wst'[v] = wst[v] /\ wst[v].kind \in CmdKinds
      BY <1>5, <2>2 DEF QInv, TypeOK
    <3>2. PICK i \in 1..Len(queue[wst[v].kind]) : queue[wst[v].kind][i] = v
      BY <3>1 DEF QInv, PendingQueued
    <3>3. QED
      BY <1>4, <3>1, <3>2
  <2>3. QED
    BY <2>1, <2>2
<1>10. QED
  BY <1>7, <1>8, <1>9

\* handle_reply pops the head of a queue and answers it if it still waits.
LEMMA QInvPop ==
    ASSUME QInv, NEW k \in CmdKinds, queue[k] # <<>>,
           NEW r \in ReplyResults, NEW f,
           queue' = [queue EXCEPT ![k] = Tail(@)],
           wst' = IF wst[Head(queue[k])].st = "pending"
                    THEN [wst EXCEPT ![Head(queue[k])].st = r, ![Head(queue[k])].for = f]
                    ELSE wst
    PROVE  QueuedKinds' /\ QueuedOnce' /\ PendingQueued'
<1> DEFINE h == Head(queue[k])
<1>1. /\ Len(Tail(queue[k])) = Len(queue[k]) - 1
      /\ \A i \in 1..Len(Tail(queue[k])) : Tail(queue[k])[i] = queue[k][i + 1]
      /\ Len(queue[k]) \in Nat /\ Len(queue[k]) > 0
      /\ h = queue[k][1] /\ h \in Waiters
  BY HeadTailProperties, LenProperties, EmptySeq DEF QInv, TypeOK
<1>2. /\ \A kk \in CmdKinds \ {k} : queue'[kk] = queue[kk]
      /\ queue'[k] = Tail(queue[k])
  BY DEF QInv, TypeOK
<1>3. /\ \A v \in Waiters \ {h} : wst'[v] = wst[v]
      /\ wst'[h].kind = wst[h].kind
      /\ wst'[h].st # "pending" /\ wst'[h].st # "idle"
  <2>1. wst[h].st # "idle"
    BY <1>1 DEF QInv, QueuedKinds
  <2>2. CASE wst[h].st = "pending"
    <3>1. wst' = [wst EXCEPT ![h].st = r, ![h].for = f]
      BY <2>2
    <3>2. r # "pending" /\ r # "idle"
      BY DEF ReplyResults
    <3>3. QED
      BY <1>1, <3>1, <3>2 DEF QInv, TypeOK
  <2>3. CASE wst[h].st # "pending"
    BY <2>1, <2>3
  <2>4. QED
    BY <2>2, <2>3
<1>4. \A kk \in CmdKinds : \A i \in 1..Len(queue'[kk]) :
         \/ kk # k /\ queue'[kk][i] = queue[kk][i] /\ i \in 1..Len(queue[kk])
         \/ kk = k /\ queue'[kk][i] = queue[kk][i + 1] /\ i + 1 \in 2..Len(queue[kk])
  <2> SUFFICES ASSUME NEW kk \in CmdKinds, NEW i \in 1..Len(queue'[kk])
               PROVE  \/ kk # k /\ queue'[kk][i] = queue[kk][i] /\ i \in 1..Len(queue[kk])
                      \/ kk = k /\ queue'[kk][i] = queue[kk][i + 1] /\ i + 1 \in 2..Len(queue[kk])
    OBVIOUS
  <2>1. CASE kk = k
    <3>1. i \in 1..Len(Tail(queue[k]))
      BY <1>2, <2>1
    <3>2. Tail(queue[k])[i] = queue[k][i + 1] /\ i + 1 \in 2..Len(queue[k])
      BY <1>1, <3>1
    <3>3. QED
      BY <1>2, <2>1, <3>2
  <2>2. CASE kk # k
    BY <1>2, <2>2
  <2>3. QED
    BY <2>1, <2>2
<1>5. QueuedKinds'
  <2> SUFFICES ASSUME NEW kk \in CmdKinds, NEW i \in 1..Len(queue'[kk])
               PROVE  wst'[queue'[kk][i]].kind = kk /\ wst'[queue'[kk][i]].st # "idle"
    BY DEF QueuedKinds
  <2>1. PICK j \in 1..Len(queue[kk]) : queue'[kk][i] = queue[kk][j]
    BY <1>4
  <2>2. queue[kk][j] \in Waiters
    BY DEF QInv, TypeOK
  <2>3. wst[queue[kk][j]].kind = kk /\ wst[queue[kk][j]].st # "idle"
    BY DEF QInv, QueuedKinds
  <2>4. CASE queue[kk][j] = h
    BY <1>3, <2>1, <2>3, <2>4
  <2>5. CASE queue[kk][j] # h
    BY <1>3, <2>1, <2>2, <2>3, <2>5
  <2>6. QED
    BY <2>4, <2>5
<1>6. QueuedOnce'
  <2> SUFFICES ASSUME NEW k1 \in CmdKinds, NEW k2 \in CmdKinds,
                      NEW i \in 1..Len(queue'[k1]), NEW j \in 1..Len(queue'[k2]),
                      <<k1, i>> # <<k2, j>>
               PROVE  queue'[k1][i] # queue'[k2][j]
    BY DEF QueuedOnce
  <2>1. PICK i2 \in 1..Len(queue[k1]) :
          queue'[k1][i] = queue[k1][i2] /\ (k1 = k => i2 = i + 1) /\ (k1 # k => i2 = i)
    BY <1>4
  <2>2. PICK j2 \in 1..Len(queue[k2]) :
          queue'[k2][j] = queue[k2][j2] /\ (k2 = k => j2 = j + 1) /\ (k2 # k => j2 = j)
    BY <1>4
  <2>3. <<k1, i2>> # <<k2, j2>>
    BY <2>1, <2>2
  <2>4. QED
    BY <2>1, <2>2, <2>3 DEF QInv, QueuedOnce
<1>7. PendingQueued'
  <2> SUFFICES ASSUME NEW v \in Waiters, wst'[v].st = "pending"
               PROVE  \E i \in 1..Len(queue'[wst'[v].kind]) : queue'[wst'[v].kind][i] = v
    BY DEF PendingQueued
  <2>1. v # h /\ wst'[v] = wst[v]
    BY <1>3
  <2>2. PICK i \in 1..Len(queue[wst[v].kind]) : queue[wst[v].kind][i] = v
    BY <2>1 DEF QInv, PendingQueued
  <2>3. wst[v].kind \in CmdKinds
    BY DEF QInv, TypeOK
  <2>4. CASE wst[v].kind = k
    <3>0. i \in 1..Len(queue[k]) /\ queue[k][i] = v
      BY <2>2, <2>4
    <3>1. i # 1
      BY <1>1, <2>1, <3>0
    <3>2. i - 1 \in 1..Len(Tail(queue[k])) /\ Tail(queue[k])[i - 1] = v
      BY <1>1, <3>0, <3>1
    <3>3. i - 1 \in 1..Len(queue'[k]) /\ queue'[k][i - 1] = v
      BY <1>2, <3>2
    <3>4. QED
      BY <2>1, <2>4, <3>3
  <2>5. CASE wst[v].kind # k
    <3>1. queue'[wst'[v].kind] = queue[wst[v].kind]
      BY <1>2, <2>1, <2>3, <2>5
    <3>2. QED
      BY <2>2, <3>1
  <2>6. QED
    BY <2>4, <2>5
<1>8. QED
  BY <1>5, <1>6, <1>7

LEMMA QInvStep == QInv /\ [Next]_vars => QInv'
<1> SUFFICES ASSUME QInv, [Next]_vars PROVE QInv'
  OBVIOUS
<1>1. TypeOK'
  BY TypeStep DEF QInv
<1> DEFINE Rest == QueuedKinds' /\ QueuedOnce' /\ PendingQueued'
<1>2. ASSUME NEW w \in Waiters, NEW k \in CmdKinds, SendCmdAsync(w, k) PROVE Rest
  BY <1>2, QInvSend
<1>3. ASSUME NEW k \in CmdKinds, RecvCmdReply(k) PROVE Rest
  <2> DEFINE r == Head(cmdIn[k])
  <2>1. CASE Stop /\ UNCHANGED queue
    BY <2>1, QInvStop
  <2>2. CASE /\ r.code \in ValidCodes(k)
             /\ queue[k] # <<>>
             /\ wst' = IF wst[Head(queue[k])].st = "pending"
                         THEN [wst EXCEPT ![Head(queue[k])].st = CodeResult(k, r.code),
                                          ![Head(queue[k])].for = r.for]
                         ELSE wst
             /\ queue' = [queue EXCEPT ![k] = Tail(@)]
    <3>1. CodeResult(k, r.code) \in ReplyResults
      BY DEF CodeResult, ReplyResults
    <3>2. QED
      BY <2>2, <3>1, QInvPop
  <2>3. QED
    BY <1>3, <2>1, <2>2, Zenon DEF RecvCmdReply
<1>4. ASSUME WriteError \/ StopOther PROVE Rest
  BY <1>4, QInvStop DEF WriteError, StopOther
<1>5. ASSUME UNCHANGED <<queue, wst>> PROVE Rest
  BY <1>5 DEF QInv, QueuedKinds, QueuedOnce, PendingQueued
<1>6. Rest
  <2>1. ASSUME NEW k \in CmdKinds, ServerReplyCmd(k) \/ ServerSpuriousReply(k)
        PROVE  UNCHANGED <<queue, wst>>
    BY <2>1 DEF ServerReplyCmd, ServerSpuriousReply
  <2>2. SinkFail \/ UNCHANGED vars => UNCHANGED <<queue, wst>>
    BY DEF SinkFail, vars
  <2>3. \/ \E w \in Waiters, k \in CmdKinds : SendCmdAsync(w, k)
        \/ \E k \in CmdKinds : RecvCmdReply(k)
        \/ WriteError \/ StopOther
        \/ UNCHANGED <<queue, wst>>
    BY <2>1, <2>2 DEF Next, Bind, Unbind, Subscribe, Unsubscribe, BcastCall, CmdKinds
  <2>4. QED
    BY <1>2, <1>3, <1>4, <1>5, <2>3
<1>7. QED
  BY <1>1, <1>6 DEF QInv

-----------------------------------------------------------------------------
(* How each step changes QueuedAhead.                                      *)

\* Pairs depend only on whether the queued waiters wait.
LEMMA PairsSame ==
    ASSUME NEW Q \in Seq(Waiters), NEW P, NEW P2,
           \A i \in 1..Len(Q) : Q[i] \in P2 <=> Q[i] \in P
    PROVE  QueuePairs(Q, P2) = QueuePairs(Q, P)
BY DEF QueuePairs

\* The waiting callers of kind k are the waiting entries of its queue.
LEMMA WaitingAreQueued ==
    ASSUME QInv, NEW k \in CmdKinds, NEW v \in Waiters
    PROVE  (wst[v].st = "pending" /\ wst[v].kind = k) <=>
           (\E i \in 1..Len(queue[k]) : queue[k][i] = v /\ v \in PendingWaiters)
BY DEF QInv, QueuedKinds, PendingQueued, PendingWaiters

\* send_cmd_async: a waiter that waits now follows every waiter of its kind.
LEMMA AheadSend ==
    ASSUME QInv, NEW w \in Waiters, NEW k \in CmdKinds, SendCmdAsync(w, k),
           NEW s \in {"pending", "NoConnection"},
           wst' = [wst EXCEPT ![w] = [kind |-> k, st |-> s, for |-> NoWaiter]]
    PROVE  QueuedAhead' =
             QueuedAhead \cup
               (IF s = "pending"
                  THEN {<<v, w>> : v \in {x \in Waiters : wst[x].st = "pending" /\ wst[x].kind = k}}
                  ELSE {})
<1> DEFINE P == PendingWaiters
           P2 == PendingWaiters'
<1>1. wst[w].st = "idle" /\ queue' = [queue EXCEPT ![k] = Append(@, w)]
  BY DEF SendCmdAsync
<1>2. \A kk \in CmdKinds : \A i \in 1..Len(queue[kk]) : queue[kk][i] # w
  BY <1>1, IdleNotQueued
<1>3. /\ \A v \in Waiters \ {w} : (v \in P2 <=> v \in P)
      /\ (w \in P2 <=> s = "pending")
  BY DEF PendingWaiters, QInv, TypeOK
<1>4. \A kk \in CmdKinds : \A i \in 1..Len(queue[kk]) : queue[kk][i] \in P2 <=> queue[kk][i] \in P
  BY <1>2, <1>3 DEF QInv, TypeOK
<1>5. \A kk \in CmdKinds \ {k} : QueuePairs(queue'[kk], P2) = QueuePairs(queue[kk], P)
  BY <1>1, <1>4, PairsSame DEF QInv, TypeOK
<1>6. \A p : p \in QueuePairs(queue'[k], P2) <=>
             \/ p \in QueuePairs(queue[k], P)
             \/ /\ w \in P2 /\ p \in Waiters \X Waiters /\ p[2] = w
                /\ \E i \in 1..Len(queue[k]) : queue[k][i] = p[1] /\ p[1] \in P
  <2>1. queue'[k] = Append(queue[k], w) /\ queue[k] \in Seq(Waiters)
    BY <1>1 DEF QInv, TypeOK
  <2>2. /\ \A i \in 1..Len(queue[k]) : queue[k][i] # w
        /\ \A i \in 1..Len(queue[k]) : queue[k][i] \in P2 <=> queue[k][i] \in P
    BY <1>2, <1>4
  <2>3. QED
    <3> TAKE p
    <3>1. p \in QueuePairs(Append(queue[k], w), P2) <=>
             \/ p \in QueuePairs(queue[k], P)
             \/ /\ w \in P2 /\ p \in Waiters \X Waiters /\ p[2] = w
                /\ \E i \in 1..Len(queue[k]) : queue[k][i] = p[1] /\ p[1] \in P
      BY <2>1, <2>2, PairsAppend, Zenon
    <3> QED
      BY <2>1, <3>1
<1>7. ASSUME NEW p
      PROVE  p \in QueuedAhead' <=>
               \/ p \in QueuedAhead
               \/ /\ s = "pending" /\ p \in Waiters \X Waiters /\ p[2] = w
                  /\ wst[p[1]].st = "pending" /\ wst[p[1]].kind = k
  <2>1. p \in QueuedAhead' <=> \E kk \in CmdKinds : p \in QueuePairs(queue'[kk], P2)
    BY DEF QueuedAhead
  <2>2. p \in QueuedAhead <=> \E kk \in CmdKinds : p \in QueuePairs(queue[kk], P)
    BY DEF QueuedAhead
  <2>3. p \in Waiters \X Waiters =>
          ((\E i \in 1..Len(queue[k]) : queue[k][i] = p[1] /\ p[1] \in P) <=>
           (wst[p[1]].st = "pending" /\ wst[p[1]].kind = k))
    BY WaitingAreQueued
  <2>4. QED
    BY <1>3, <1>5, <1>6, <2>1, <2>2, <2>3
<1>8. QED
  BY <1>7

\* handle_reply: popping the head h of a queue drops exactly the pairs in
\* which h is the older waiter, whether h still waited or not.
LEMMA AheadPop ==
    ASSUME QInv, NEW k \in CmdKinds, queue[k] # <<>>,
           queue' = [queue EXCEPT ![k] = Tail(@)],
           \A v \in Waiters \ {Head(queue[k])} :
              v \in PendingWaiters' <=> v \in PendingWaiters
    PROVE  QueuedAhead' = {p \in QueuedAhead : p[1] # Head(queue[k])}
<1> DEFINE h == Head(queue[k])
           P == PendingWaiters
           P2 == PendingWaiters'
<1>1. /\ queue[k] \in Seq(Waiters)
      /\ Len(queue[k]) \in Nat /\ Len(queue[k]) > 0 /\ h = queue[k][1]
  BY HeadTailProperties, LenProperties, EmptySeq DEF QInv, TypeOK
<1>2. \A kk \in CmdKinds : \A i \in 1..Len(queue[kk]) :
        <<kk, i>> # <<k, 1>> => queue[kk][i] # h
  BY <1>1 DEF QInv, QueuedOnce
<1>3. \A kk \in CmdKinds \ {k} : QueuePairs(queue'[kk], P2) = QueuePairs(queue[kk], P)
  <2> SUFFICES ASSUME NEW kk \in CmdKinds \ {k}
               PROVE  QueuePairs(queue'[kk], P2) = QueuePairs(queue[kk], P)
    OBVIOUS
  <2>1. queue'[kk] = queue[kk] /\ queue[kk] \in Seq(Waiters)
    BY DEF QInv, TypeOK
  <2>2. \A i \in 1..Len(queue[kk]) : queue[kk][i] \in P2 <=> queue[kk][i] \in P
    <3> SUFFICES ASSUME NEW i \in 1..Len(queue[kk])
                 PROVE  queue[kk][i] \in P2 <=> queue[kk][i] \in P
      OBVIOUS
    <3>1. queue[kk][i] \in Waiters \ {h}
      BY <1>2, <2>1, ElementOfSeq
    <3> QED
      BY <3>1
  <2> QED
    BY <2>1, <2>2, PairsSame
<1>4. \A kk \in CmdKinds \ {k} : \A p \in QueuePairs(queue[kk], P) : p[1] # h
  BY <1>2 DEF QueuePairs
<1>5. ASSUME NEW p
      PROVE  p \in QueuePairs(queue'[k], P2) <=> p \in QueuePairs(queue[k], P) /\ p[1] # h
  <2>1. queue'[k] = Tail(queue[k])
    BY DEF QInv, TypeOK
  <2>2. \A i, j \in 1..Len(queue[k]) : i # j => queue[k][i] # queue[k][j]
    BY DEF QInv, QueuedOnce
  <2>3. \A i \in 2..Len(queue[k]) : queue[k][i] \in P2 <=> queue[k][i] \in P
    <3> SUFFICES ASSUME NEW i \in 2..Len(queue[k])
                 PROVE  queue[k][i] \in P2 <=> queue[k][i] \in P
      OBVIOUS
    <3>1. i \in 1..Len(queue[k]) /\ <<k, i>> # <<k, 1>>
      BY <1>1
    <3>2. queue[k][i] \in Waiters \ {h}
      BY <1>1, <1>2, <3>1, ElementOfSeq
    <3> QED
      BY <3>2
  <2>4. p \in QueuePairs(Tail(queue[k]), P2) <=> p \in QueuePairs(queue[k], P) /\ p[1] # h
    BY <1>1, <2>2, <2>3, PairsTail, Zenon
  <2> QED
    BY <2>1, <2>4
<1>6. ASSUME NEW p
      PROVE  p \in QueuedAhead' <=> p \in QueuedAhead /\ p[1] # h
  <2>1. p \in QueuedAhead' <=> \E kk \in CmdKinds : p \in QueuePairs(queue'[kk], P2)
    BY DEF QueuedAhead
  <2>2. p \in QueuedAhead <=> \E kk \in CmdKinds : p \in QueuePairs(queue[kk], P)
    BY DEF QueuedAhead
  <2> QED
    BY <1>3, <1>4, <1>5, <2>1, <2>2
<1> QED
  BY <1>6

-----------------------------------------------------------------------------
(* Each step of the connection actor is a step of GsbCommands or leaves   *)
(* its image unchanged.                                                    *)

\* ctx.stop() is Close.
LEMMA StepStop ==
    ASSUME QInv, running, Stop
    PROVE  Cmds!Close
<1>1. [w \in Waiters |-> wst'[w].kind] = [w \in Waiters |-> wst[w].kind]
  BY DEF Stop, QInv, TypeOK
<1>2. [w \in Waiters |-> wst'[w].st] =
        [v \in Waiters |-> IF [w \in Waiters |-> wst[w].st][v] = "pending" THEN "Closed"
                           ELSE [w \in Waiters |-> wst[w].st][v]]
  BY DEF Stop, QInv, TypeOK
<1> QED
  BY <1>1, <1>2 DEF Stop, Cmds!Close

\* A step that leaves running, the queues and the waiters alone is a stutter.
LEMMA StepStutter ==
    ASSUME UNCHANGED <<running, queue, wst>>
    PROVE  UNCHANGED Cmds!avars
BY DEF Cmds!avars, QueuedAhead, PendingWaiters

\* send_cmd_async is Request.
LEMMA StepSend ==
    ASSUME QInv, NEW w \in Waiters, NEW k \in CmdKinds, SendCmdAsync(w, k)
    PROVE  Cmds!Request(w, k)
<1> DEFINE kindBar == [v \in Waiters |-> wst[v].kind]
           stBar == [v \in Waiters |-> wst[v].st]
<1>1. PICK s \in {"pending", "NoConnection"} :
        wst' = [wst EXCEPT ![w] = [kind |-> k, st |-> s, for |-> NoWaiter]]
  BY DEF SendCmdAsync
<1>2. running /\ running' = running /\ stBar[w] = "idle"
  BY DEF SendCmdAsync
<1>3. kindBar' = [kindBar EXCEPT ![w] = k] /\ stBar' = [stBar EXCEPT ![w] = s]
  BY <1>1 DEF QInv, TypeOK
<1>4. QueuedAhead' =
        QueuedAhead \cup
          (IF s = "pending"
             THEN {<<v, w>> : v \in {x \in Waiters : wst[x].st = "pending" /\ wst[x].kind = k}}
             ELSE {})
  BY <1>1, AheadSend
<1>5. {x \in Waiters : wst[x].st = "pending" /\ wst[x].kind = k} =
        {x \in Waiters : stBar[x] = "pending" /\ kindBar[x] = k}
  OBVIOUS
<1>6. CASE s = "pending"
  <2>1. (IF running' THEN QueuedAhead' ELSE {}) =
          (IF running THEN QueuedAhead ELSE {}) \cup
            {<<v, w>> : v \in {x \in Waiters : stBar[x] = "pending" /\ kindBar[x] = k}}
    BY <1>2, <1>4, <1>5, <1>6
  <2> QED
    BY <1>2, <1>3, <1>6, <2>1 DEF Cmds!Request, Cmds!WaitingOn
<1>7. CASE s = "NoConnection"
  <2>1. (IF running' THEN QueuedAhead' ELSE {}) = (IF running THEN QueuedAhead ELSE {})
    BY <1>2, <1>4, <1>7
  <2> QED
    BY <1>2, <1>3, <1>7, <2>1 DEF Cmds!Request
<1> QED
  BY <1>6, <1>7

\* Every result handle_reply can give a waiter is a result of its kind.
LEMMA CodeResultOfKind ==
    ASSUME NEW k \in CmdKinds, NEW code \in ValidCodes(k)
    PROVE  CodeResult(k, code) \in Cmds!KindResults(k)
BY DEF ValidCodes, CodeResult, Cmds!KindResults, CmdKinds

\* No waiter is ahead of the head of a queue.
LEMMA HeadFirst ==
    ASSUME QInv, NEW k \in CmdKinds, queue[k] # <<>>
    PROVE  \A v \in Waiters : <<v, Head(queue[k])>> \notin QueuedAhead
<1>1. Head(queue[k]) = queue[k][1] /\ Len(queue[k]) \in Nat /\ Len(queue[k]) > 0
  BY HeadTailProperties, LenProperties, EmptySeq DEF QInv, TypeOK
<1> QED
  BY <1>1 DEF QInv, QueuedOnce, QueuedAhead, QueuePairs

\* handle_reply that pops a waiter still waiting is Answer.
LEMMA StepAnswer ==
    ASSUME QInv, NEW k \in CmdKinds, queue[k] # <<>>, running,
           NEW h \in Waiters, h = Head(queue[k]), wst[h].st = "pending",
           NEW code \in ValidCodes(k), NEW f,
           wst' = [wst EXCEPT ![h].st = CodeResult(k, code), ![h].for = f],
           queue' = [queue EXCEPT ![k] = Tail(@)],
           running' = running
    PROVE  Cmds!Answer(h)
<1> DEFINE kindBar == [v \in Waiters |-> wst[v].kind]
           stBar == [v \in Waiters |-> wst[v].st]
<1>1. wst[h].kind = k
  <2>1. h = queue[k][1] /\ 1 \in 1..Len(queue[k]) /\ queue[k] \in Seq(Waiters)
    BY HeadTailProperties, EmptySeq, LenProperties DEF QInv, TypeOK
  <2> QED
    BY <2>1 DEF QInv, QueuedKinds
<1>2. kindBar' = kindBar /\ stBar' = [stBar EXCEPT ![h] = CodeResult(k, code)]
  BY <1>1 DEF QInv, TypeOK
<1>3. CodeResult(k, code) \in Cmds!KindResults(kindBar[h])
  BY <1>1, CodeResultOfKind
<1>4. CodeResult(k, code) # "pending"
  BY DEF CodeResult
<1>5. \A v \in Waiters \ {h} : v \in PendingWaiters' <=> v \in PendingWaiters
  BY <1>1 DEF PendingWaiters, QInv, TypeOK
<1>6. QueuedAhead' = {p \in QueuedAhead : p[1] # h}
  BY <1>5, AheadPop
<1>7. \A v \in Waiters : <<v, h>> \notin QueuedAhead
  BY HeadFirst
<1> QED
  BY <1>1, <1>2, <1>3, <1>6, <1>7 DEF Cmds!Answer

\* handle_reply that pops a waiter no longer waiting changes nothing visible.
LEMMA StepOrphan ==
    ASSUME QInv, NEW k \in CmdKinds, queue[k] # <<>>,
           wst[Head(queue[k])].st # "pending",
           wst' = wst, queue' = [queue EXCEPT ![k] = Tail(@)], running' = running
    PROVE  UNCHANGED Cmds!avars
<1> DEFINE h == Head(queue[k])
<1>1. QueuedAhead' = {p \in QueuedAhead : p[1] # h}
  BY AheadPop DEF PendingWaiters
<1>2. \A p \in QueuedAhead : p[1] \in PendingWaiters
  BY DEF QueuedAhead, QueuePairs
<1>3. h \notin PendingWaiters
  BY DEF PendingWaiters
<1>4. QueuedAhead' = QueuedAhead
  BY <1>1, <1>2, <1>3
<1> QED
  BY <1>4 DEF Cmds!avars

\* A reply frame of kind k is a step of GsbCommands or a stutter.
LEMMA StepReply ==
    ASSUME QInv, NEW k \in CmdKinds, RecvCmdReply(k)
    PROVE  [Cmds!Next]_Cmds!avars
<1> DEFINE r == Head(cmdIn[k])
           h == Head(queue[k])
<1>1. running
  BY DEF RecvCmdReply
<1>2. CASE /\ r.code \in ValidCodes(k) /\ queue[k] # <<>>
           /\ wst' = IF wst[h].st = "pending"
                       THEN [wst EXCEPT ![h].st = CodeResult(k, r.code), ![h].for = r.for]
                       ELSE wst
           /\ queue' = [queue EXCEPT ![k] = Tail(@)]
           /\ running' = running
  <2>1. CASE wst[h].st = "pending"
    <3>1. h \in Waiters
      BY <1>2, HeadTailProperties, EmptySeq, LenProperties, ElementOfSeq DEF QInv, TypeOK
    <3>2. PICK hh \in Waiters : hh = h
      BY <3>1
    <3>3. \E w \in Waiters : Cmds!Answer(w)
      <4>1. Cmds!Answer(hh)
        BY <1>1, <1>2, <2>1, <3>2, StepAnswer
      <4> QED
        BY <4>1
    <3>4. Cmds!Next
      BY <3>3 DEF Cmds!Next
    <3> QED
      BY <3>4
  <2>2. CASE wst[h].st # "pending"
    BY <1>2, <2>2, StepOrphan
  <2> QED
    BY <2>1, <2>2
<1>3. CASE Stop
  BY <1>1, <1>3, StepStop DEF Cmds!Next
<1> QED
  <2>1. <1>2!1 \/ Stop
    BY DEF RecvCmdReply
  <2> QED
    BY <1>2, <1>3, <2>1

\* The refinement step: every step of the actor and the broker is a step
\* of GsbCommands or leaves its variables unchanged.
LEMMA RefineStep == QInv /\ [Next]_vars => [Cmds!Next]_Cmds!avars
<1> SUFFICES ASSUME QInv, [Next]_vars PROVE [Cmds!Next]_Cmds!avars
  OBVIOUS
<1>1. ASSUME NEW w \in Waiters, NEW k \in CmdKinds, SendCmdAsync(w, k)
      PROVE  [Cmds!Next]_Cmds!avars
  <2>1. Cmds!Request(w, k)
    BY <1>1, StepSend
  <2> QED
    BY <2>1, Zenon DEF Cmds!Next, Cmds!CmdKinds, CmdKinds
<1>2. CASE \E w \in Waiters : \/ Bind(w) \/ Unbind(w) \/ Subscribe(w)
                              \/ Unsubscribe(w) \/ BcastCall(w)
  BY <1>1, <1>2 DEF Bind, Unbind, Subscribe, Unsubscribe, BcastCall, CmdKinds
<1>3. CASE \E k \in CmdKinds : RecvCmdReply(k)
  BY <1>3, StepReply
<1>4. CASE \E k \in CmdKinds : ServerReplyCmd(k) \/ ServerSpuriousReply(k)
  BY <1>4, StepStutter DEF ServerReplyCmd, ServerSpuriousReply
<1>5. CASE SinkFail \/ UNCHANGED vars
  BY <1>5, StepStutter DEF SinkFail, vars
<1>6. CASE WriteError \/ StopOther
  BY <1>6, StepStop DEF WriteError, StopOther, Cmds!Next
<1> QED
  BY <1>2, <1>3, <1>4, <1>5, <1>6 DEF Next

\* The first state of the actor is a first state of GsbCommands.
LEMMA RefineInit == Init => Cmds!Init
<1> SUFFICES ASSUME Init PROVE Cmds!Init
  OBVIOUS
<1>1. \A k \in CmdKinds : QueuePairs(queue[k], PendingWaiters) = {}
  BY DEF Init, QueuePairs
<1>2. QueuedAhead = {}
  BY <1>1 DEF QueuedAhead
<1> QED
  BY <1>2 DEF Init, Cmds!Init, Cmds!CmdKinds

\* The connection actor of src/src/connection.rs keeps the promise of
\* GsbCommands for every set of callers: each request of Bind, Unbind,
\* Subscribe, Unsubscribe and BcastCall fails at once or waits; the waiting
\* requests of one kind are answered in the order they were made, each with
\* a result its kind can have; a stop fails every request still waiting.
THEOREM CommandsRefined == Spec => ImplementsCommands
<1>1. Spec => []QInv
  BY QInvInit, QInvStep, PTL DEF Spec
<1> QED
  BY <1>1, RefineInit, RefineStep, PTL DEF Spec, ImplementsCommands, Cmds!Spec

====
