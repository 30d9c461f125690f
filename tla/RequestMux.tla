----------------------------- MODULE RequestMux -----------------------------
(***************************************************************************)
(* The request multiplexer of ImClass (websocket_server.h) with the code   *)
(* that waits on it (read_blocking, write, findPattern, getModules and     *)
(* initProcessByName of memory.h), the frame loop that sweeps it           *)
(* (main.cpp) and the bridge that answers it (imclass_server.as).          *)
(*                                                                         *)
(* Three threads of ImClass meet here.  The UI thread and the memory       *)
(* thread register a request under request_mutex, write it to the socket   *)
(* without any lock, and, for three of the five kinds, wait for its        *)
(* promise with a time limit.  The server thread reads a message, looks    *)
(* its id up, runs the callback and erases the entry, all under            *)
(* request_mutex.  Once per frame the UI thread erases the entries older   *)
(* than StaleAge seconds.  The bridge answers in the order it reads.       *)
(*                                                                         *)
(* One action is one step between two points where another thread can      *)
(* interfere.  request_mutex is held exactly while spc is "found" or       *)
(* "ran"; Register and Cleanup take and release it in one step.  The id    *)
(* comes from an atomic counter just before the registration: only its     *)
(* being unused matters, so both are one step.                             *)
(***************************************************************************)
EXTENDS Integers, Sequences, FiniteSets

CONSTANTS Threads,      \* the threads that send requests
          Ui,           \* the UI thread, the one that also sweeps
          UiKinds,      \* the kinds of request the UI thread sends
          Subjects,     \* what a request asks about: an address, a name, a pattern
          Unset,        \* the promise of a request no callback has set
          Failed,       \* the answer success = false
          MaxRequests,  \* bound on the requests ever sent
          MaxConnects,  \* bound on the connections ever accepted
          StaleAge,     \* the 5 of cleanup_stale_requests
          ScanWait      \* the 5 of findPattern's wait_for

Kinds    == {"rvm", "wvm", "find_pattern", "get_modules", "ref_process"}
Blocking == {"rvm", "wvm", "find_pattern"}   \* the caller waits for the promise

ASSUME ThreadsAssumption == Ui \in Threads
ASSUME KindsAssumption   == UiKinds \subseteq Kinds
ASSUME ValuesAssumption  == /\ Unset \notin Subjects
                            /\ Failed \notin Subjects
                            /\ Unset # Failed
ASSUME NumbersAssumption == /\ MaxRequests \in Nat /\ MaxConnects \in Nat
                            /\ StaleAge \in Nat /\ ScanWait \in 0..StaleAge

VARIABLES
  \* the table of pending requests and what its callbacks did
  counter,    \* request_counter
  pending,    \* the ids in pending_requests
  call,       \* call[n]: kind, subject and thread of request n
  age,        \* age[n]: whole seconds since n was registered, 0 out of the table
  value,      \* value[n]: what the promise of request n holds
  settled,    \* the requests whose callback has run
  \* the threads that send
  phase,      \* phase[t]: where thread t is
  cur,        \* cur[t]: the request t is sending or waits for, 0 if none
  spoiled,    \* threads whose write overlapped another use of ws_stream
  \* the connection and the bridge
  toPeer,     \* requests written to the socket and not read by the bridge
  fromPeer,   \* answers sent by the bridge and not read by ImClass
  link,       \* TRUE while the TCP connection is up
  connected,  \* has_connection
  conns,      \* how many connections were accepted
  \* the server thread
  spc,        \* where the server thread is in its read handler
  smsg,       \* the message it is processing, Hello when there is none
  crashed     \* the process died of undefined behaviour

tableVars  == <<counter, pending, call, age, value, settled>>
threadVars == <<phase, cur, spoiled>>
wireVars   == <<toPeer, fromPeer, link, connected, conns>>
serverVars == <<spc, smsg>>
vars == <<tableVars, threadVars, wireVars, serverVars, crashed>>

Ids      == 1..MaxRequests
Ages     == 0..(StaleAge + 1)
Answers  == Subjects \cup {Failed}
Calls    == [kind : Kinds, subject : Subjects, owner : Threads]
Requests == [id : Ids, subject : Subjects]
Replies  == [id : Ids \cup {0}, data : Answers]
Phases   == {"frame", "idle", "sending", "writing", "waiting"}

\* The bridge's first message, the one without a request_id.
Hello == [id |-> 0, data |-> Failed]

\* The requests that were ever registered.
Issued == 1..counter

TypeOK ==
  /\ counter \in 0..MaxRequests
  /\ pending \subseteq Issued /\ settled \subseteq Issued
  /\ call \in [Ids -> Calls \cup {Unset}]
  /\ \A n \in Issued : call[n] \in Calls
  /\ age \in [Ids -> Ages]
  /\ value \in [Ids -> Answers \cup {Unset}]
  /\ phase \in [Threads -> Phases]
  /\ cur \in [Threads -> 0..counter]
  /\ spoiled \subseteq Threads
  /\ toPeer \in Seq(Requests) /\ fromPeer \in Seq(Replies)
  /\ link \in BOOLEAN /\ connected \in BOOLEAN /\ conns \in 0..MaxConnects
  /\ spc \in {"reading", "got", "found", "ran"} /\ smsg \in Replies
  /\ crashed \in BOOLEAN

Init ==
  /\ counter = 0 /\ pending = {} /\ settled = {}
  /\ call = [n \in Ids |-> Unset]
  /\ age = [n \in Ids |-> 0]
  /\ value = [n \in Ids |-> Unset]
  /\ phase = [t \in Threads |-> IF t = Ui THEN "frame" ELSE "idle"]
  /\ cur = [t \in Threads |-> 0]
  /\ spoiled = {}
  /\ toPeer = <<>> /\ fromPeer = <<>>
  /\ link = FALSE /\ connected = FALSE /\ conns = 0
  /\ spc = "reading" /\ smsg = Hello
  /\ crashed = FALSE

MutexFree == spc \notin {"found", "ran"}

\* Variant: the counter is incremented for the id and again for the message.
NewIdTwice == counter + 2

\* Variant: ids are taken from the size of the table, so they come back.
NewIdFromTable == Cardinality(pending) + 1

\* The id of the next request.
NewId == counter + 1

\* send_request up to the registration, entered from a function of memory.h
\* whose is_connected() guard has just passed.
Register(t, k, a) ==
  /\ phase[t] = "idle" /\ connected /\ MutexFree /\ NewId \in Ids
  /\ k \in (IF t = Ui THEN UiKinds ELSE {"rvm"})
  /\ counter' = NewId
  /\ pending' = pending \cup {NewId}
  /\ call' = [call EXCEPT ![NewId] = [kind |-> k, subject |-> a, owner |-> t]]
  /\ age' = [age EXCEPT ![NewId] = 0]
  /\ value' = [value EXCEPT ![NewId] = Unset]
  /\ settled' = settled \ {NewId}
  /\ phase' = [phase EXCEPT ![t] = "sending"]
  /\ cur' = [cur EXCEPT ![t] = NewId]
  /\ UNCHANGED <<spoiled, wireVars, serverVars>>

\* send_request returns to the function that called it: some wait, some do not.
AfterSend(t) ==
  IF call[cur[t]].kind \in Blocking
  THEN /\ phase' = [phase EXCEPT ![t] = "waiting"]
       /\ UNCHANGED cur
  ELSE /\ phase' = [phase EXCEPT ![t] = "idle"]
       /\ cur' = [cur EXCEPT ![t] = 0]

\* send(): not connected any more, so only a log line; the request stays
\* registered and its caller goes on as if it had been sent.
CannotSend(t) ==
  /\ phase[t] = "sending" /\ ~connected
  /\ AfterSend(t)
  /\ UNCHANGED <<tableVars, spoiled, wireVars, serverVars>>

Writers == {t \in Threads : phase[t] = "writing"}

\* send(): the synchronous write begins.  Nothing serialises two of them.
BeginWrite(t) ==
  /\ phase[t] = "sending" /\ connected
  /\ phase' = [phase EXCEPT ![t] = "writing"]
  /\ spoiled' = IF Writers = {} THEN spoiled ELSE spoiled \cup Writers \cup {t}
  /\ UNCHANGED <<tableVars, cur, wireVars, serverVars>>

Deliver(t) ==
  toPeer' = IF link
            THEN Append(toPeer, [id |-> cur[t], subject |-> call[cur[t]].subject])
            ELSE toPeer

\* send(): the write ends; on a broken connection it throws, which is caught.
EndWrite(t) ==
  /\ phase[t] = "writing" /\ t \notin spoiled
  /\ Deliver(t) /\ AfterSend(t)
  /\ UNCHANGED <<tableVars, spoiled, fromPeer, link, connected, conns, serverVars>>

\* A write that overlapped another write, or whose stream was replaced under
\* it, is undefined: the message arrives or is lost.
EndSpoiledWrite(t) ==
  /\ phase[t] = "writing" /\ t \in spoiled
  /\ Deliver(t) \/ UNCHANGED toPeer
  /\ AfterSend(t)
  /\ spoiled' = spoiled \ {t}
  /\ UNCHANGED <<tableVars, fromPeer, link, connected, conns, serverVars>>

Return(t) == /\ phase' = [phase EXCEPT ![t] = "idle"]
             /\ cur' = [cur EXCEPT ![t] = 0]
             /\ UNCHANGED <<tableVars, spoiled, wireVars, serverVars>>

\* wait_for finds the promise set.
Wake(t) == /\ phase[t] = "waiting" /\ cur[t] \in settled
           /\ Return(t)

\* Variant: findPattern waits with get() instead of wait_for().
TimeOutExceptScan(t) ==
  /\ phase[t] = "waiting" /\ cur[t] \notin settled
  /\ call[cur[t]].kind # "find_pattern"
  /\ Return(t)

\* wait_for gives up: after 50 or 100 ms, within the second in which the wait
\* began as far as ages can tell, or after ScanWait seconds.
TimeOut(t) ==
  /\ phase[t] = "waiting" /\ cur[t] \notin settled
  /\ call[cur[t]].kind = "find_pattern" => age[cur[t]] >= ScanWait
  /\ Return(t)

\* The entries of the requests S leave the table.
Forget(S) == /\ pending' = pending \ S
             /\ age' = [n \in Ids |-> IF n \in S THEN 0 ELSE age[n]]

\* Variant: a request is stale as soon as it is StaleAge seconds old.
StaleEarly(n) == age[n] >= StaleAge

\* cleanup_stale_requests, at the top of a frame.
Stale(n) == age[n] > StaleAge

\* Variant: the sweep runs on a timer, whatever the UI thread is doing.
CleanupAnytime ==
  /\ MutexFree
  /\ Forget({n \in pending : Stale(n)})
  /\ phase' = [phase EXCEPT ![Ui] = IF @ = "frame" THEN "idle" ELSE @]
  /\ UNCHANGED <<counter, call, value, settled, cur, spoiled, wireVars, serverVars>>

\* Variant: nothing is swept while no bridge is connected.
CleanupWhenConnected ==
  /\ phase[Ui] = "frame" /\ MutexFree
  /\ Forget(IF connected THEN {n \in pending : Stale(n)} ELSE {})
  /\ phase' = [phase EXCEPT ![Ui] = "idle"]
  /\ UNCHANGED <<counter, call, value, settled, cur, spoiled, wireVars, serverVars>>

Cleanup ==
  /\ phase[Ui] = "frame" /\ MutexFree
  /\ Forget({n \in pending : Stale(n)})
  /\ phase' = [phase EXCEPT ![Ui] = "idle"]
  /\ UNCHANGED <<counter, call, value, settled, cur, spoiled, wireVars, serverVars>>

EndFrame ==
  /\ phase[Ui] = "idle"
  /\ phase' = [phase EXCEPT ![Ui] = "frame"]
  /\ UNCHANGED <<tableVars, cur, spoiled, wireVars, serverVars>>

\* Variant: several reads are outstanding and their handlers run in any order.
ReceiveAny ==
  /\ spc = "reading" /\ connected
  /\ \E i \in 1..Len(fromPeer) :
       /\ smsg' = fromPeer[i]
       /\ fromPeer' = SubSeq(fromPeer, 1, i - 1) \o SubSeq(fromPeer, i + 1, Len(fromPeer))
  /\ spc' = "got"
  /\ UNCHANGED <<tableVars, threadVars, toPeer, link, connected, conns>>

\* The read handler gets a message.
Receive ==
  /\ spc = "reading" /\ connected /\ fromPeer # <<>>
  /\ smsg' = Head(fromPeer) /\ fromPeer' = Tail(fromPeer)
  /\ spc' = "got"
  /\ UNCHANGED <<tableVars, threadVars, toPeer, link, connected, conns>>

\* process_response takes request_mutex and looks the id up.  A message
\* without an id is dropped before the lock, an unknown id after it.
Find ==
  /\ spc = "got"
  /\ \/ smsg.id \in pending /\ spc' = "found" /\ UNCHANGED smsg
     \/ smsg.id \notin pending /\ spc' = "reading" /\ smsg' = Hello
  /\ UNCHANGED <<tableVars, threadVars, wireVars>>

\* Every promise but findPattern's is shared between caller and callback.
PromiseAlive(n) == call[n].kind = "find_pattern" => cur[call[n].owner] = n

\* The callback runs.  The one of findPattern holds a reference into the
\* frame of its caller: once that has returned the store is undefined
\* behaviour, seen here as a store nobody sees or as a crash.
Callback ==
  /\ spc = "found"
  /\ settled' = settled \cup {smsg.id}
  /\ spc' = "ran"
  /\ \/ /\ PromiseAlive(smsg.id)
        /\ value' = [value EXCEPT ![smsg.id] = smsg.data]
        /\ UNCHANGED crashed
     \/ /\ ~PromiseAlive(smsg.id)
        /\ UNCHANGED value
        /\ crashed' \in BOOLEAN
  /\ UNCHANGED <<counter, pending, call, age, threadVars, wireVars, smsg>>

\* The entry is erased, the mutex released and the next read started.
Erase ==
  /\ spc = "ran"
  /\ Forget({smsg.id})
  /\ spc' = "reading" /\ smsg' = Hello
  /\ UNCHANGED <<counter, call, value, settled, threadVars, wireVars>>

\* The read fails: ImClass learns that the connection is gone.
ReadError ==
  /\ spc = "reading" /\ connected /\ ~link /\ fromPeer = <<>>
  /\ connected' = FALSE
  /\ UNCHANGED <<tableVars, threadVars, toPeer, fromPeer, link, conns, serverVars>>

\* The bridge connects and greets; the handshake handler starts the reads.
\* A thread still inside a write is left with a destroyed stream.
Connect ==
  /\ ~connected /\ ~link /\ spc = "reading" /\ conns < MaxConnects
  /\ link' = TRUE /\ connected' = TRUE /\ conns' = conns + 1
  /\ toPeer' = <<>> /\ fromPeer' = <<Hello>>
  /\ spoiled' = spoiled \cup Writers
  /\ UNCHANGED <<tableVars, phase, cur, serverVars>>

\* The bridge polls one message and answers it, well or with success = false,
\* or cannot encode an answer and sends none.
PeerAnswer ==
  /\ link /\ toPeer # <<>>
  /\ toPeer' = Tail(toPeer)
  /\ \/ \E d \in {Head(toPeer).subject, Failed} :
          fromPeer' = Append(fromPeer, [id |-> Head(toPeer).id, data |-> d])
     \/ UNCHANGED fromPeer
  /\ UNCHANGED <<tableVars, threadVars, link, connected, conns, serverVars>>

\* The connection breaks: requests on their way are lost, and so is the end of
\* the stream of answers.
LinkDown ==
  /\ link /\ link' = FALSE
  /\ toPeer' = <<>>
  /\ \E k \in 0..Len(fromPeer) : fromPeer' = SubSeq(fromPeer, 1, k)
  /\ UNCHANGED <<tableVars, threadVars, connected, conns, serverVars>>

\* A second passes for every request in the table.
Tick ==
  /\ \E n \in pending : age[n] <= StaleAge
  /\ age' = [n \in Ids |-> IF n \in pending /\ age[n] <= StaleAge
                           THEN age[n] + 1 ELSE age[n]]
  /\ UNCHANGED <<counter, pending, call, value, settled, threadVars, wireVars, serverVars>>

ThreadStep(t) ==
  \/ \E k \in Kinds, a \in Subjects : Register(t, k, a)
  \/ CannotSend(t) \/ BeginWrite(t) \/ EndWrite(t) \/ EndSpoiledWrite(t)
  \/ Wake(t) \/ TimeOut(t)

ServerStep == Receive \/ Find \/ Erase \/ ReadError

PeerStep == Connect \/ PeerAnswer \/ LinkDown

\* After a crash nothing happens any more.
Halted == crashed /\ UNCHANGED vars

Next ==
  \/ /\ ~crashed
     /\ \/ Callback
        \/ /\ \/ \E t \in Threads : ThreadStep(t)
              \/ Cleanup \/ EndFrame \/ ServerStep \/ PeerStep \/ Tick
           /\ UNCHANGED crashed
  \/ Halted

Spec == Init /\ [][Next]_vars

-----------------------------------------------------------------------------
(***************************************************************************)
(* Safety                                                                  *)
(***************************************************************************)

\* What a promise holds, or will be given by a message on its way, is an answer
\* to the very question its request asked: no late answer, reconnection or lost
\* write ever hands one caller the bytes of another's address
\* (send_request's ids, process_response's lookup).
ReplyMatchesRequest ==
  \A n \in Issued : value[n] \in {Unset, Failed, call[n].subject}

\* The sweep never takes away the entry of a request the UI thread is still
\* sending or waiting for: its answer always finds a callback.  This holds only
\* because cleanup_stale_requests runs between the blocking calls of a frame.
UiWaitKeepsItsRequest ==
  phase[Ui] \in {"sending", "writing", "waiting"} => cur[Ui] \in pending \cup settled

\* A callback about to run finds the promise it stores to.  findPattern's
\* "Pattern scan timeout" path (memory.h:801) returns 0 while the request is
\* left in the table, so a late answer stores through a dangling reference.
CallbackTargetAlive == spc = "found" => PromiseAlive(smsg.id)

\* Two requests of one thread are answered in the order in which they were
\* made, whatever was lost in between: an older module list never overwrites a
\* newer one (getModules), an older attachment a newer one (initProcessByName).
AnswersInOrder ==
  [][\A m \in settled' \ settled, n \in settled :
       call[m].owner = call[n].owner => n < m]_vars

\* The abstract life of a request, read off the table.
StatusOf(n) == IF n \notin Issued THEN "unused"
               ELSE IF n \in settled THEN "answered"
               ELSE IF n \in pending THEN "open"
               ELSE "dropped"

AgeOf(n) == IF StatusOf(n) = "open" THEN age[n] ELSE 0

RR == INSTANCE RequestReply WITH status <- [n \in Ids |-> StatusOf(n)],
                                 age    <- [n \in Ids |-> AgeOf(n)]

\* The table implements RequestReply: a callback runs at most once, no sweep
\* takes an entry that is StaleAge seconds old or younger, and a swept or
\* answered request never comes back.
ImplementsRequestReply == RR!Spec

-----------------------------------------------------------------------------
(***************************************************************************)
(* Liveness                                                                *)
(***************************************************************************)

Running(A) == ~crashed /\ A /\ UNCHANGED crashed

\* The frame loop, the server thread and the clock go on, and a timed wait ends.
\* A write is synchronous and has no timeout: a bridge that stops reading keeps
\* it from ever returning.  The bridge is not assumed to answer either, nor the
\* link to hold.
Fairness ==
  /\ WF_vars(Running(Tick)) /\ WF_vars(Running(Cleanup)) /\ WF_vars(Running(EndFrame))
  /\ \A t \in Threads :
       /\ WF_vars(Running(CannotSend(t) \/ BeginWrite(t)))
       /\ WF_vars(Running(Wake(t) \/ TimeOut(t)))
  /\ WF_vars(Running(ServerStep)) /\ WF_vars(~crashed /\ Callback)

FairSpec == Spec /\ Fairness

\* Unless a write of the UI thread never returns, every registered request leaves
\* the table, answered or swept, even when it was never sent, its answer was
\* lost, the bridge does not answer, or the memory thread is stuck in its write.
EveryRequestLeavesTheTable ==
  []<>(phase[Ui] # "writing") =>
    \A n \in Ids : n \in pending ~> (n \notin pending \/ crashed)

\* A thread that waits for an answer goes on, with or without one.
EveryWaitEnds == \A t \in Threads : phase[t] = "waiting" ~> (phase[t] # "waiting" \/ crashed)

-----------------------------------------------------------------------------
=============================================================================
