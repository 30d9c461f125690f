----------------------------- MODULE Connection -----------------------------
(***************************************************************************)
(* The websocket server and its clients (websocket_server.h: do_accept,    *)
(* do_read, send, stop; main.cpp: the shutdown).                           *)
(*                                                                         *)
(* The server thread runs one completion handler after the other.  The     *)
(* server has room for one client: each accepted connection replaces       *)
(* ws_stream, and the stream that stood there is destroyed with whatever   *)
(* was pending on it, which then completes with an error.  Streams are     *)
(* numbered in the order in which clients connect.                         *)
(*                                                                         *)
(* RequestMux models what is sent and what an answer does; here a message  *)
(* is only that there is one.  The boost library is modelled by what it    *)
(* promises of the handlers it calls.                                      *)
(***************************************************************************)
EXTENDS Integers

CONSTANTS MaxStreams,   \* bound on the clients that connect
          MaxUnread     \* bound on the messages of a client not read yet

ASSUME ConnectionAssumption == MaxStreams \in Nat /\ MaxUnread \in Nat

VARIABLES
  link,       \* link[s]: what client s made of its connection
  unread,     \* unread[s]: the messages of client s that were not read yet
  cur,        \* the stream ws_stream points to, 0 for none
  op,         \* op[s]: the operation pending on stream s
  accepting,  \* an async_accept of the acceptor is pending
  hasConn,    \* has_connection
  running,    \* running
  looping,    \* the io_context was not told to stop
  user,       \* the stream another thread is writing to or closing, 0 for none
  upc,        \* how far the UI thread is in stop()
  overlap,    \* history: a client was accepted while another was being read
  crashed     \* a stream was destroyed under its user, and the process died of it

clientVars == <<link, unread>>
serverVars == <<cur, op, accepting, hasConn>>
stopVars   == <<running, looping, user, upc>>
vars == <<clientVars, serverVars, stopVars, overlap, crashed>>

Streams == 1..MaxStreams

TypeOK ==
  /\ link \in [Streams -> {"none", "open", "closed"}]
  /\ unread \in [Streams -> 0..MaxUnread]
  /\ cur \in 0..MaxStreams
  /\ op \in [Streams -> {"none", "handshake", "read", "over"}]
  /\ accepting \in BOOLEAN /\ hasConn \in BOOLEAN /\ running \in BOOLEAN
  /\ user \in 0..MaxStreams
  /\ looping \in BOOLEAN
  /\ upc \in {"frames", "closing", "closed", "joining", "stopped"}
  /\ overlap \in BOOLEAN /\ crashed \in BOOLEAN

\* start() has run.
Init ==
  /\ link = [s \in Streams |-> "none"] /\ unread = [s \in Streams |-> 0]
  /\ cur = 0 /\ op = [s \in Streams |-> "none"]
  /\ accepting = TRUE /\ hasConn = FALSE
  /\ running = TRUE /\ looping = TRUE /\ user = 0 /\ upc = "frames"
  /\ overlap = FALSE /\ crashed = FALSE

-----------------------------------------------------------------------------
(* The clients *)

ClientConnects(s) ==
  /\ link[s] = "none" /\ (s > 1 => link[s - 1] # "none")
  /\ link' = [link EXCEPT ![s] = "open"]
  /\ UNCHANGED <<unread, serverVars, stopVars, overlap>>

\* A client that was welcomed sends a message.
ClientSends(s) ==
  /\ link[s] = "open" /\ op[s] \in {"read", "over"} /\ unread[s] < MaxUnread
  /\ unread' = [unread EXCEPT ![s] = @ + 1]
  /\ UNCHANGED <<link, serverVars, stopVars, overlap>>

\* It closes or ends: the TCP connection is gone.  Nothing makes a client do so,
\* not even the server's close frame.
ClientCloses(s) ==
  /\ link[s] = "open"
  /\ link' = [link EXCEPT ![s] = "closed"]
  /\ UNCHANGED <<unread, serverVars, stopVars, overlap>>

-----------------------------------------------------------------------------
(* The server thread *)

Replaced(s) == s # cur

ReadPending(s) == s \in Streams /\ op[s] = "read"

\* Variant: the acceptor is not armed again.
AcceptOnce ==
  /\ looping /\ accepting /\ cur + 1 \in Streams /\ link[cur + 1] # "none"
  /\ cur' = cur + 1
  /\ op' = [op EXCEPT ![cur + 1] = "handshake"]
  /\ accepting' = FALSE
  /\ overlap' = (overlap \/ ReadPending(cur))
  /\ UNCHANGED <<clientVars, hasConn, stopVars>>

\* do_accept's handler.  has_connection is left as the old stream had it.
Accept ==
  /\ looping /\ accepting /\ cur + 1 \in Streams /\ link[cur + 1] # "none"
  /\ cur' = cur + 1
  /\ op' = [op EXCEPT ![cur + 1] = "handshake"]
  /\ accepting' = running
  /\ overlap' = (overlap \/ ReadPending(cur))
  /\ UNCHANGED <<clientVars, hasConn, stopVars>>

\* The handler of the handshake: do_read is called on ws_stream.
Welcome(s) ==
  /\ op[s] = "handshake" /\ ~Replaced(s)
  /\ hasConn' = TRUE
  /\ op' = [op EXCEPT ![cur] = "read"]
  /\ UNCHANGED <<clientVars, cur, accepting, stopVars, overlap>>

\* Variant: the error of the handshake is not looked at.
WelcomeAnyway(s) ==
  /\ op[s] = "handshake" /\ (Replaced(s) \/ link[s] = "closed")
  /\ op' = [op EXCEPT ![s] = "over"]
  /\ hasConn' = TRUE
  /\ UNCHANGED <<clientVars, cur, accepting, stopVars, overlap>>

HandshakeFails(s) ==
  /\ op[s] = "handshake" /\ (Replaced(s) \/ link[s] = "closed")
  /\ op' = [op EXCEPT ![s] = "over"]
  /\ UNCHANGED <<clientVars, cur, accepting, hasConn, stopVars, overlap>>

\* Variant: the handler runs though nothing was received.
ReadNothing(s) ==
  /\ ReadPending(s) /\ ~Replaced(s)
  /\ unread' = [unread EXCEPT ![s] = @ - 1]
  /\ op' = [op EXCEPT ![cur] = IF running THEN "read" ELSE "over"]
  /\ UNCHANGED <<link, cur, accepting, hasConn, stopVars, overlap>>

\* do_read's handler for a message; the next read is again on ws_stream.
ReadMessage(s) ==
  /\ ReadPending(s) /\ ~Replaced(s) /\ unread[s] > 0
  /\ unread' = [unread EXCEPT ![s] = @ - 1]
  /\ op' = [op EXCEPT ![cur] = IF running THEN "read" ELSE "over"]
  /\ UNCHANGED <<link, cur, accepting, hasConn, stopVars, overlap>>

\* Variant: the end of a stream is only logged.
ReadErrorLogged(s) ==
  /\ ReadPending(s) /\ (Replaced(s) \/ link[s] = "closed")
  /\ op' = [op EXCEPT ![s] = "over"]
  /\ UNCHANGED <<clientVars, cur, accepting, hasConn, stopVars, overlap>>

\* And for an error, whether the stream is still ws_stream or was replaced.
ReadError(s) ==
  /\ ReadPending(s) /\ (Replaced(s) \/ link[s] = "closed")
  /\ op' = [op EXCEPT ![s] = "over"]
  /\ hasConn' = FALSE
  /\ UNCHANGED <<clientVars, cur, accepting, stopVars, overlap>>

-----------------------------------------------------------------------------
(* The threads that send, and the UI thread at the end *)

\* Variant: has_connection is not looked at.
WriteUnconnected ==
  /\ upc = "frames" /\ user = 0 /\ cur # 0
  /\ user' = cur
  /\ UNCHANGED <<clientVars, serverVars, running, looping, upc, overlap>>

\* send() on the UI thread or the memory thread.
Write ==
  /\ upc = "frames" /\ user = 0 /\ cur # 0 /\ hasConn
  /\ user' = cur
  /\ UNCHANGED <<clientVars, serverVars, running, looping, upc, overlap>>

\* If the stream was destroyed under its user, it is undefined what happens.
UseEnds == user' = 0 /\ crashed' \in (IF Replaced(user) THEN BOOLEAN ELSE {FALSE})

\* The write returns or throws.
WriteEnds ==
  /\ upc = "frames" /\ user # 0
  /\ UseEnds
  /\ UNCHANGED <<clientVars, serverVars, running, looping, upc, overlap>>

\* The user quits: the memory thread has been joined, so nobody is sending.
\* Without a stream there is nothing to close.
Stop ==
  /\ upc = "frames" /\ user = 0 /\ running
  /\ running' = FALSE
  /\ user' = cur /\ upc' = IF cur = 0 THEN "closed" ELSE "closing"
  /\ UNCHANGED <<clientVars, serverVars, looping, overlap>>

\* close() on its way to the client's close frame drops the messages before it,
\* unless the read that is pending in the server thread takes them.
CloseDrops(s) ==
  /\ upc = "closing" /\ s = user /\ ~Replaced(s)
  /\ unread[s] > 0 /\ op[s] # "handshake"
  /\ unread' = [unread EXCEPT ![s] = @ - 1]
  /\ UNCHANGED <<link, serverVars, stopVars, overlap>>

\* A client that was not welcomed is sent no close frame.  For any other the end
\* of its connection is waited for, without a timeout: whichever thread takes
\* the frame it answers with, close() here or the pending read, is then waiting
\* for it to hang up.
CloseDone == link[user] = "closed" \/ op[user] = "handshake"

\* Two threads read one stream: what arrives may be garbled between them, and
\* close() give up on it.
CloseGarbled == ReadPending(user) /\ unread[user] > 0

\* close() returns, its error is dropped.
CloseReturns ==
  /\ upc = "closing" /\ (CloseDone \/ CloseGarbled \/ Replaced(user))
  /\ upc' = "closed"
  /\ UseEnds
  /\ UNCHANGED <<clientVars, serverVars, running, looping, overlap>>

\* Variant: the io_context is not told to stop.
LoopGoesOn ==
  /\ upc = "closed"
  /\ upc' = "joining"
  /\ UNCHANGED <<clientVars, serverVars, running, looping, user, overlap>>

\* ioc.stop(): the handler that runs is the last.
StopLoop ==
  /\ upc = "closed"
  /\ looping' = FALSE /\ upc' = "joining"
  /\ UNCHANGED <<clientVars, serverVars, running, user, overlap>>

\* ioc.run() returns by itself when nothing is pending.
NoWork == ~accepting /\ \A s \in Streams : op[s] \notin {"handshake", "read"}

Join ==
  /\ upc = "joining" /\ (~looping \/ NoWork)
  /\ upc' = "stopped"
  /\ UNCHANGED <<clientVars, serverVars, running, looping, user, overlap>>

-----------------------------------------------------------------------------

Live == ~crashed /\ upc # "stopped"

ClientStep(s) == ClientConnects(s) \/ ClientSends(s) \/ ClientCloses(s)

\* The server thread runs a handler that is ready.
Handler(s) ==
  looping /\ (Welcome(s) \/ HandshakeFails(s) \/ ReadMessage(s) \/ ReadError(s))

\* The UI thread's way through stop().
StopStep == Stop \/ (\E s \in Streams : CloseDrops(s)) \/ StopLoop \/ Join

Ended == ~Live /\ UNCHANGED vars

Next ==
  \/ /\ Live
     /\ \/ UNCHANGED crashed /\ \E s \in Streams : ClientStep(s) \/ Handler(s)
        \/ UNCHANGED crashed /\ (Accept \/ Write \/ StopStep)
        \/ WriteEnds \/ CloseReturns
  \/ Ended

Spec == Init /\ [][Next]_vars

\* The server thread always gets to its next handler, the handshake of a client
\* that stays connected ends, and the UI thread goes on where it does not wait:
\* close() returns to it from a connection that has ended, if it still has its
\* stream.  Nothing is asked of
\* the clients, and neither a write nor a close is sure to return.
Fairness ==
  /\ WF_vars(Live /\ UNCHANGED crashed /\ Accept)
  /\ \A s \in Streams : WF_vars(Live /\ UNCHANGED crashed /\ Handler(s))
  /\ WF_vars(/\ Live /\ upc = "closing" /\ CloseDone /\ ~Replaced(user)
             /\ CloseReturns)
  /\ WF_vars(Live /\ UNCHANGED crashed /\ (StopLoop \/ Join))

FairSpec == Spec /\ Fairness

-----------------------------------------------------------------------------
(***************************************************************************)
(* Safety                                                                  *)
(***************************************************************************)

\* As long as no client was accepted while another was being read, is_connected()
\* is true exactly while the client in ws_stream is being read, through any
\* number of clients that come and go, before and after their handshake.
StatusIsTrue == running /\ ~overlap => (hasConn <=> ReadPending(cur))

\* And whatever the clients do, it is true only if some stream is being read
\* whose end will be noticed.
StatusHasReader == running /\ hasConn => \E s \in Streams : ReadPending(s)

\* A stream is destroyed under the thread that writes to it or closes it only
\* if a second client came in while the first was served, or if the first was
\* gone and the thread had not noticed, or while the server is being stopped
\* (do_accept replaces ws_stream without a lock, and stop() leaves the
\* acceptor armed).
DestroyedInUse ==
  user # 0 /\ Replaced(user) => overlap \/ link[user] = "closed" \/ ~running

-----------------------------------------------------------------------------
(***************************************************************************)
(* Liveness                                                                *)
(***************************************************************************)

Newest(s) == link[s] = "open" /\ (s < MaxStreams => link[s + 1] = "none")

\* The newest client, once it stays and nobody overlaps, ends up as the one that
\* is served and that is_connected() reports, for good.
NewestIsServed ==
  \A s \in Streams :
    <>[](Newest(s) /\ running /\ ~overlap /\ ~crashed) => <>[](cur = s /\ hasConn)

\* When all clients are gone, is_connected() comes to say so.
EndIsNoticed ==
  (\A s \in Streams : link[s] # "open")
    ~> (~hasConn \/ ~running \/ crashed \/ \E s \in Streams : link[s] = "open")

\* Once the client that stop() closes has hung up, stop() gets through the
\* join and returns, whatever the other clients do: the acceptor that is still
\* armed and the clients it goes on to accept do not keep the thread running.
\* While the client does not hang up, stop() waits, and nothing is said of a
\* close() whose stream do_accept destroys.
StopEnds ==
  (upc = "closing" /\ link[user] = "closed")
    ~> \/ upc = "stopped" \/ crashed
       \/ upc = "closing" /\ Replaced(user)

=============================================================================
