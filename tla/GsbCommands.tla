------------------------------ MODULE GsbCommands ------------------------------
(***************************************************************************)
(* What the command side of the connection actor promises its callers     *)
(* (Bind, Unbind, Subscribe, Unsubscribe and BcastCall of                 *)
(* src/src/connection.rs), without queues, frames or a broker: a caller   *)
(* makes one request, which fails at once when it cannot be written or    *)
(* waits; the waiting requests of one kind are answered one at a time in  *)
(* the order they were made, each with a result its kind can have; and    *)
(* when the actor stops, every request still waiting fails.               *)
(*                                                                         *)
(* The order is kept as the set `ahead` of pairs <<v, w>>: v and w wait   *)
(* on the same kind and v asked first.                                    *)
(***************************************************************************)
CONSTANTS Waiters

CmdKinds == {"register", "unregister", "subscribe", "unsubscribe", "broadcast"}

\* The results a reply of each kind can carry to its caller.
KindResults(k) ==
    IF k = "register" THEN {"Ok", "BadRequest", "AlreadyRegistered"}
                      ELSE {"Ok", "BadRequest"}

VARIABLES
    open,      \* the actor still answers
    kindOf,    \* per caller: the kind of its request
    st,        \* per caller: idle, pending, NoConnection, Closed or its result
    ahead      \* pairs of waiting callers of one kind, the older first

avars == <<open, kindOf, st, ahead>>

Init ==
    /\ open = TRUE
    /\ kindOf \in [Waiters -> CmdKinds]
    /\ st = [w \in Waiters |-> "idle"]
    /\ ahead = {}

\* The callers waiting on kind k.
WaitingOn(k) == {v \in Waiters : st[v] = "pending" /\ kindOf[v] = k}

\* send_cmd_async: the request waits behind every request of its kind, or
\* fails at once with "no connection".
Request(w, k) ==
    /\ open
    /\ st[w] = "idle"
    /\ kindOf' = [kindOf EXCEPT ![w] = k]
    /\ \/ /\ st' = [st EXCEPT ![w] = "pending"]
          /\ ahead' = ahead \cup {<<v, w>> : v \in WaitingOn(k)}
       \/ /\ st' = [st EXCEPT ![w] = "NoConnection"]
          /\ UNCHANGED ahead
    /\ UNCHANGED open

\* handle_reply: the oldest waiting request of a kind gets its result.
Answer(w) ==
    /\ open
    /\ st[w] = "pending"
    /\ \A v \in Waiters : <<v, w>> \notin ahead
    /\ \E r \in KindResults(kindOf[w]) : st' = [st EXCEPT ![w] = r]
    /\ ahead' = {p \in ahead : p[1] # w}
    /\ UNCHANGED <<open, kindOf>>

\* ctx.stop(): every waiting request fails.
Close ==
    /\ open
    /\ open' = FALSE
    /\ st' = [w \in Waiters |-> IF st[w] = "pending" THEN "Closed" ELSE st[w]]
    /\ ahead' = {}
    /\ UNCHANGED kindOf

Next ==
    \/ \E w \in Waiters, k \in CmdKinds : Request(w, k)
    \/ \E w \in Waiters : Answer(w)
    \/ Close

Spec == Init /\ [][Next]_avars

====
