-------------------------- MODULE Connection_proofs --------------------------
(***************************************************************************)
(* Proofs about Connection, for any number of clients and messages.        *)
(***************************************************************************)
EXTENDS Connection, TLAPS

USE ConnectionAssumption

\* No operation is pending on a stream that was never accepted.
AcceptedOnly == \A s \in Streams : op[s] # "none" => s <= cur

\* Until a client was accepted over another that was being read, only ws_stream
\* is read.
OneReader == ~overlap => \A s \in Streams : ReadPending(s) => s = cur

\* Until then, too, what a thread writes to is read, or its client is gone.
UserServed ==
  user # 0 /\ running /\ ~overlap => ReadPending(user) \/ link[user] = "closed"

StatusInv == /\ TypeOK /\ AcceptedOnly
             /\ OneReader /\ StatusIsTrue /\ StatusHasReader /\ UserServed

LEMMA StatusInit == Init => StatusInv
<1> SUFFICES ASSUME Init PROVE StatusInv
  OBVIOUS
<1>1. /\ link \in [Streams -> {"none", "open", "closed"}]
      /\ unread \in [Streams -> 0..MaxUnread] /\ cur \in 0..MaxStreams
      /\ op \in [Streams -> {"none", "handshake", "read", "over"}]
      /\ user \in 0..MaxStreams
      /\ upc \in {"frames", "closing", "closed", "joining", "stopped"}
  BY DEF Init
<1>2. /\ accepting \in BOOLEAN /\ hasConn \in BOOLEAN /\ running \in BOOLEAN
      /\ looping \in BOOLEAN /\ overlap \in BOOLEAN /\ crashed \in BOOLEAN
  BY Zenon DEF Init
<1>3. TypeOK
  BY <1>1, <1>2 DEF TypeOK
<1>4. /\ user = 0 /\ hasConn = FALSE /\ \A s \in Streams : op[s] = "none"
      /\ \A s : ~ReadPending(s)
  BY DEF Init, ReadPending
<1> QED
  BY <1>3, <1>4
  DEF StatusInv, AcceptedOnly, OneReader, UserServed, StatusIsTrue, StatusHasReader

LEMMA TypeStep ==
  ASSUME TypeOK, Next
  PROVE  TypeOK'
<1> USE DEF TypeOK
<1>1. ASSUME NEW s \in Streams, UNCHANGED crashed, ClientStep(s)
      PROVE  TypeOK'
  <2>1. UNCHANGED <<cur, op, accepting, hasConn, running, looping, user, upc, overlap, crashed>>
    BY <1>1 DEF ClientStep, ClientConnects, ClientSends, ClientCloses, serverVars, stopVars
  <2>2. link' \in [Streams -> {"none", "open", "closed"}] /\ unread' \in [Streams -> 0..MaxUnread]
    BY <1>1 DEF ClientStep, ClientConnects, ClientSends, ClientCloses
  <2> QED
    BY <2>1, <2>2
<1>2. ASSUME NEW s \in Streams, UNCHANGED crashed, Handler(s)
      PROVE  TypeOK'
  <2>1. UNCHANGED <<link, cur, accepting, running, looping, user, upc, overlap, crashed>>
    BY <1>2 DEF Handler, Welcome, HandshakeFails, ReadMessage, ReadError, clientVars, stopVars
  <2>2. op' \in [Streams -> {"none", "handshake", "read", "over"}] /\ unread' \in [Streams -> 0..MaxUnread]
    BY <1>2 DEF Handler, Welcome, HandshakeFails, ReadMessage, ReadError, clientVars
  <2>3. hasConn' \in BOOLEAN
    BY <1>2, Zenon DEF Handler, Welcome, HandshakeFails, ReadMessage, ReadError
  <2> QED
    BY <2>1, <2>2, <2>3
<1>3. CASE Accept /\ UNCHANGED crashed
  BY <1>3 DEF Accept, clientVars, stopVars, ReadPending, Streams
<1>4. CASE (Write \/ Stop \/ StopLoop \/ Join) /\ UNCHANGED crashed
  BY <1>4 DEF Write, Stop, StopLoop, Join, clientVars, serverVars
<1>5. CASE WriteEnds \/ CloseReturns
  <2>1. UNCHANGED <<clientVars, serverVars, running, looping, overlap>> /\ user' = 0
    BY <1>5 DEF WriteEnds, CloseReturns, UseEnds
  <2>2. upc' \in {"frames", "closing", "closed", "joining", "stopped"}
    BY <1>5 DEF WriteEnds, CloseReturns
  <2>3. crashed' \in BOOLEAN
    BY <1>5, Zenon DEF WriteEnds, CloseReturns, UseEnds
  <2> QED
    BY <2>1, <2>2, <2>3 DEF clientVars, serverVars
<1>7. ASSUME NEW s \in Streams, UNCHANGED crashed, CloseDrops(s)
      PROVE  TypeOK'
  BY <1>7 DEF CloseDrops, serverVars, stopVars
<1>6. CASE Ended
  BY <1>6 DEF Ended, vars, clientVars, serverVars, stopVars
<1> QED
  BY <1>1, <1>2, <1>3, <1>4, <1>5, <1>6, <1>7 DEF Next, StopStep

\* The clients touch no operation of the server.
LEMMA ClientKeeps ==
  ASSUME StatusInv, NEW s \in Streams, ClientStep(s)
  PROVE  (AcceptedOnly /\ OneReader /\ StatusIsTrue /\ StatusHasReader /\ UserServed)'
<1> USE DEF StatusInv
<1>1. UNCHANGED <<cur, op, hasConn, running, user, overlap>>
  BY DEF ClientStep, ClientConnects, ClientSends, ClientCloses, serverVars, stopVars
<1>2. \A u \in Streams : link[u] = "closed" => link'[u] = "closed"
  BY DEF ClientStep, ClientConnects, ClientSends, ClientCloses, TypeOK
<1>3. user \in Streams \cup {0}
  BY DEF TypeOK, Streams
<1>4. UserServed'
  BY <1>1, <1>2, <1>3 DEF UserServed, ReadPending
<1> QED
  BY <1>1, <1>4 DEF AcceptedOnly, OneReader, StatusIsTrue, StatusHasReader, ReadPending

\* A handler of the current stream, or of one that was replaced.
LEMMA HandlerKeeps ==
  ASSUME StatusInv, NEW s \in Streams, Handler(s)
  PROVE  (AcceptedOnly /\ OneReader /\ StatusIsTrue /\ StatusHasReader /\ UserServed)'
<1> USE DEF StatusInv
<1>1. UNCHANGED <<link, cur, running, user, overlap>>
  BY DEF Handler, Welcome, HandshakeFails, ReadMessage, ReadError, clientVars, stopVars
<1>2. op \in [Streams -> {"none", "handshake", "read", "over"}] /\ user \in Streams \cup {0}
  BY DEF TypeOK, Streams
<1>3. CASE Welcome(s)
  <2>1. s = cur /\ op[s] = "handshake" /\ op' = [op EXCEPT ![s] = "read"] /\ hasConn' = TRUE
    BY <1>3 DEF Welcome, Replaced
  <2> QED
    BY <1>1, <1>2, <2>1
    DEF AcceptedOnly, OneReader, StatusIsTrue, StatusHasReader, UserServed, ReadPending
<1>4. CASE HandshakeFails(s)
  <2>1. op[s] = "handshake" /\ op' = [op EXCEPT ![s] = "over"] /\ UNCHANGED hasConn
    BY <1>4 DEF HandshakeFails
  <2> QED
    BY <1>1, <1>2, <2>1
    DEF AcceptedOnly, OneReader, StatusIsTrue, StatusHasReader, UserServed, ReadPending
<1>5. CASE ReadMessage(s)
  <2>1. /\ s = cur /\ op[s] = "read" /\ UNCHANGED hasConn
        /\ op' = [op EXCEPT ![s] = IF running THEN "read" ELSE "over"]
    BY <1>5 DEF ReadMessage, Replaced, ReadPending
  <2> QED
    BY <1>1, <1>2, <2>1
    DEF AcceptedOnly, OneReader, StatusIsTrue, StatusHasReader, UserServed, ReadPending
<1>6. CASE ReadError(s)
  <2>1. /\ op[s] = "read" /\ op' = [op EXCEPT ![s] = "over"] /\ hasConn' = FALSE
        /\ s # cur \/ link[s] = "closed"
    BY <1>6 DEF ReadError, Replaced, ReadPending
  <2>2. ~overlap => s = cur
    BY <2>1 DEF OneReader, ReadPending
  <2> QED
    BY <1>1, <1>2, <2>1, <2>2
    DEF AcceptedOnly, OneReader, StatusIsTrue, StatusHasReader, UserServed, ReadPending
<1> QED
  BY <1>3, <1>4, <1>5, <1>6 DEF Handler

\* A new client: if the stream it replaces was being read, overlap remembers it.
LEMMA AcceptKeeps ==
  ASSUME StatusInv, Accept
  PROVE  (AcceptedOnly /\ OneReader /\ StatusIsTrue /\ StatusHasReader /\ UserServed)'
<1> USE DEF StatusInv
<1>1. /\ cur' = cur + 1 /\ cur' \in Streams /\ op' = [op EXCEPT ![cur'] = "handshake"]
      /\ overlap' = (overlap \/ ReadPending(cur))
      /\ UNCHANGED <<link, hasConn, running, user>>
  BY DEF Accept, clientVars, stopVars
<1>2. /\ op \in [Streams -> {"none", "handshake", "read", "over"}]
      /\ cur \in Nat /\ user \in Streams \cup {0}
      /\ \A s \in Streams : s \in Nat
  BY DEF TypeOK, Streams
<1>3. op[cur'] = "none"
  BY <1>1, <1>2 DEF AcceptedOnly
<1>4. \A s \in Streams : op'[s] = IF s = cur' THEN "handshake" ELSE op[s]
  BY <1>1, <1>2
<1>5. \A s : ReadPending(s)' <=> ReadPending(s)
  BY <1>3, <1>4 DEF ReadPending
<1>6. ~overlap' => ~overlap /\ ~ReadPending(cur)
  BY <1>1
<1>7. ~overlap' => \A s \in Streams : ~ReadPending(s)
  BY <1>6 DEF OneReader
<1>8. AcceptedOnly'
  BY <1>1, <1>2, <1>4 DEF AcceptedOnly
<1>9. OneReader'
  BY <1>5, <1>7 DEF OneReader
<1>10. StatusIsTrue'
  BY <1>1, <1>5, <1>6, <1>7 DEF StatusIsTrue
<1>11. StatusHasReader'
  BY <1>1, <1>5 DEF StatusHasReader
<1>12. UserServed'
  BY <1>1, <1>5, <1>6 DEF UserServed
<1> QED
  BY <1>8, <1>9, <1>10, <1>11, <1>12

\* A thread that sends, and the shutdown.
LEMMA UseKeeps ==
  ASSUME StatusInv, Write \/ WriteEnds \/ StopStep \/ CloseReturns \/ UNCHANGED vars
  PROVE  (AcceptedOnly /\ OneReader /\ StatusIsTrue /\ StatusHasReader /\ UserServed)'
<1> USE DEF StatusInv
<1>1. UNCHANGED <<link, cur, op, hasConn, overlap>>
  BY DEF Write, WriteEnds, StopStep, Stop, CloseDrops, StopLoop, Join, CloseReturns, vars, clientVars, serverVars
<1>2. AcceptedOnly' /\ OneReader'
  BY <1>1 DEF AcceptedOnly, OneReader, ReadPending
<1>3. running' => running
  BY DEF Write, WriteEnds, StopStep, Stop, CloseDrops, StopLoop, Join, CloseReturns, vars, stopVars
<1>4. StatusIsTrue' /\ StatusHasReader'
  BY <1>1, <1>3 DEF StatusIsTrue, StatusHasReader, ReadPending
<1>5. running' => \/ user' = 0
                  \/ user' = cur /\ hasConn
                  \/ user' = user
  BY DEF Write, WriteEnds, UseEnds, StopStep, Stop, CloseDrops, StopLoop, Join, CloseReturns, vars, stopVars
<1>6. UserServed'
  BY <1>1, <1>3, <1>5 DEF UserServed, StatusIsTrue, ReadPending
<1> QED
  BY <1>2, <1>4, <1>6

LEMMA StatusStep ==
  ASSUME StatusInv, [Next]_vars
  PROVE  StatusInv'
<1>1. TypeOK'
  <2>1. CASE Next
    BY <2>1, TypeStep DEF StatusInv
  <2>2. CASE UNCHANGED vars
    BY <2>2 DEF StatusInv, TypeOK, vars, clientVars, serverVars, stopVars
  <2> QED
    BY <2>1, <2>2
<1>2. (AcceptedOnly /\ OneReader /\ StatusIsTrue /\ StatusHasReader /\ UserServed)'
  BY ClientKeeps, HandlerKeeps, AcceptKeeps, UseKeeps DEF Next, Ended
<1> QED
  BY <1>1, <1>2 DEF StatusInv

LEMMA StatusAlways == Spec => []StatusInv
BY StatusInit, StatusStep, PTL DEF Spec

\* Every variable of the server keeps its type, for every number of clients.
THEOREM ConnectionTypes == Spec => []TypeOK
<1>1. StatusInv => TypeOK
  BY DEF StatusInv
<1> QED
  BY <1>1, StatusAlways, PTL

\* is_connected() is right about ws_stream until a client is accepted while
\* another is being read, whatever the clients do and however many there are
\* (do_accept, the two handlers and do_read).
THEOREM StatusTrue == Spec => []StatusIsTrue
<1>1. StatusInv => StatusIsTrue
  BY DEF StatusInv
<1> QED
  BY <1>1, StatusAlways, PTL

\* is_connected() never outlives the last reader, even with overlapping clients.
THEOREM StatusRead == Spec => []StatusHasReader
<1>1. StatusInv => StatusHasReader
  BY DEF StatusInv
<1> QED
  BY <1>1, StatusAlways, PTL

\* send() and close() lose their stream under their feet in three cases only: a
\* second client beside the first, a first client already gone, a shutdown.
THEOREM DestroyedOnly == Spec => []DestroyedInUse
<1>1. StatusInv => DestroyedInUse
  <2> SUFFICES ASSUME StatusInv, user # 0, Replaced(user), ~overlap, running
               PROVE  link[user] = "closed"
    BY DEF DestroyedInUse
  <2>1. user \in Streams /\ user # cur
    BY DEF StatusInv, TypeOK, Streams, Replaced
  <2>2. ~ReadPending(user)
    BY <2>1 DEF StatusInv, OneReader
  <2> QED
    BY <2>2 DEF StatusInv, UserServed
<1> QED
  BY <1>1, StatusAlways, PTL
=============================================================================
