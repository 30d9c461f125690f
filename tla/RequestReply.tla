---------------------------- MODULE RequestReply ----------------------------
(***************************************************************************)
(* What WebSocketServer::send_request promises its callers, without the    *)
(* socket, the threads or the lock that implement it.  A request is opened *)
(* once; its callback runs at most once; a request whose answer never      *)
(* comes is forgotten, but only after it has been open for more than       *)
(* StaleAge seconds; a request that was answered or forgotten stays so.    *)
(***************************************************************************)
EXTENDS Integers

\* Both are natural numbers (RequestMux: NumbersAssumption).
CONSTANTS MaxRequests,  \* bound on the requests ever opened
          StaleAge      \* seconds a request is kept waiting for its answer

VARIABLES status,       \* status[n]: how far request n has come
          age           \* age[n]: whole seconds since request n was opened, 0 unless it is open

vars == <<status, age>>

Ids      == 1..MaxRequests
Statuses == {"unused", "open", "answered", "dropped"}
Ages     == 0..(StaleAge + 1)

TypeOK == status \in [Ids -> Statuses] /\ age \in [Ids -> Ages]

Init == /\ status = [n \in Ids |-> "unused"]
        /\ age = [n \in Ids |-> 0]

\* A caller opens the request n.
Open(n) == /\ status[n] = "unused"
           /\ status' = [status EXCEPT ![n] = "open"]
           /\ age' = [age EXCEPT ![n] = 0]

\* The callback of n runs.
Answer(n) == /\ status[n] = "open"
             /\ status' = [status EXCEPT ![n] = "answered"]
             /\ age' = [age EXCEPT ![n] = 0]

\* Some requests that are too old are forgotten in one sweep.
Abandon == \E S \in SUBSET {n \in Ids : status[n] = "open" /\ age[n] > StaleAge} :
             /\ status' = [n \in Ids |-> IF n \in S THEN "dropped" ELSE status[n]]
             /\ age' = [n \in Ids |-> IF n \in S THEN 0 ELSE age[n]]

\* A second passes for the open requests; an age stops at the first stale value.
Tick == /\ age' = [n \in Ids |-> IF status[n] = "open" /\ age[n] <= StaleAge
                                 THEN age[n] + 1 ELSE age[n]]
        /\ UNCHANGED status

Next == (\E n \in Ids : Open(n) \/ Answer(n)) \/ Abandon \/ Tick

Spec == Init /\ [][Next]_vars
=============================================================================
