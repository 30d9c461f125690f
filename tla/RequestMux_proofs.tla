------------------------- MODULE RequestMux_proofs --------------------------
(***************************************************************************)
(* Proofs about RequestMux, for any number of threads, requests,           *)
(* connections and subjects.                                               *)
(***************************************************************************)
EXTENDS RequestMux, SequenceTheorems, TLAPS

USE ThreadsAssumption, KindsAssumption, ValuesAssumption, NumbersAssumption

\* A sequence over a set is a sequence over any larger set.
LEMMA SeqMonotone ==
  ASSUME NEW S, NEW T, S \subseteq T, NEW s \in Seq(S)
  PROVE  s \in Seq(T)
<1>1. /\ Len(s) \in Nat
      /\ s \in [1..Len(s) -> S]
  BY LenProperties
<1>2. s \in [1..Len(s) -> T]
  BY <1>1
<1> QED
  BY <1>1, <1>2

-----------------------------------------------------------------------------
(* Types.  A thread that is sending or waiting has a request of its own. *)

Busy(t) == phase[t] \in {"sending", "writing", "waiting"}

BusyThreads == \A t \in Threads : Busy(t) => cur[t] \in Issued

TypeInv == TypeOK /\ BusyThreads

\* A registration keeps the types: the new id was never used.
LEMMA RegisterType ==
  ASSUME TypeInv, NEW t \in Threads, NEW k \in Kinds, NEW a \in Subjects,
         Register(t, k, a), UNCHANGED crashed
  PROVE  TypeInv'
<1> USE DEF TypeInv, TypeOK, NewId, Ids
<1>1. counter' = counter + 1 /\ counter' \in Ids /\ Issued' = Issued \cup {counter'}
  BY DEF Register, Issued
<1>2. call'[counter'] \in Calls /\ \A n \in Issued : call'[n] = call[n]
  BY <1>1 DEF Register, Calls, Issued
<1>3. call' \in [Ids -> Calls \cup {Unset}] /\ \A n \in Issued' : call'[n] \in Calls
  BY <1>1, <1>2 DEF Register
<1>4. /\ counter' \in 0..MaxRequests
      /\ pending' \subseteq Issued' /\ settled' \subseteq Issued'
  BY <1>1 DEF Register
<1>5. age' \in [Ids -> Ages] /\ value' \in [Ids -> Answers \cup {Unset}]
  BY <1>1 DEF Register, Ages
<1>6. phase' \in [Threads -> Phases] /\ cur' \in [Threads -> 0..counter']
  BY <1>1 DEF Register, Phases
<1>7. UNCHANGED <<spoiled, toPeer, fromPeer, link, connected, conns, spc, smsg, crashed>>
  BY DEF Register, wireVars, serverVars
<1>8. TypeOK'
  BY <1>1, <1>3, <1>4, <1>5, <1>6, <1>7
<1>9. BusyThreads'
  BY <1>1 DEF Register, BusyThreads, Busy, Issued
<1> QED
  BY <1>8, <1>9

LEMMA HelloIsReply == Hello \in Replies
BY DEF Hello, Replies, Answers

\* What a thread writes is a request: its current id with its subject.
LEMMA DeliverType ==
  ASSUME TypeInv, NEW t \in Threads, Busy(t), Deliver(t)
  PROVE  toPeer' \in Seq(Requests)
<1> USE DEF TypeInv, TypeOK
<1>1. cur[t] \in Issued /\ Issued \subseteq Ids
  BY DEF BusyThreads, Issued, Ids
<1>2. call[cur[t]] \in Calls
  BY <1>1
<1>3. [id |-> cur[t], subject |-> call[cur[t]].subject] \in Requests
  BY <1>1, <1>2 DEF Calls, Requests
<1>4. Append(toPeer, [id |-> cur[t], subject |-> call[cur[t]].subject]) \in Seq(Requests)
  BY <1>3, AppendProperties
<1> QED
  BY <1>4 DEF Deliver

\* send_request returns to a caller that waits on the same request, or to none.
LEMMA AfterSendType ==
  ASSUME TypeInv, NEW t \in Threads, Busy(t), AfterSend(t)
  PROVE  /\ phase' \in [Threads -> Phases]
         /\ cur' \in [Threads -> 0..counter]
         /\ \A u \in Threads : Busy(u)' => Busy(u) /\ cur'[u] = cur[u]
<1>1. /\ phase \in [Threads -> Phases] /\ cur \in [Threads -> 0..counter]
      /\ 0 \in 0..counter
  BY DEF TypeInv, TypeOK
<1>2. CASE /\ phase' = [phase EXCEPT ![t] = "waiting"]
           /\ UNCHANGED cur
  BY <1>1, <1>2 DEF Phases, Busy
<1>3. CASE /\ phase' = [phase EXCEPT ![t] = "idle"]
           /\ cur' = [cur EXCEPT ![t] = 0]
  BY <1>1, <1>3 DEF Phases, Busy
<1> QED
  BY <1>2, <1>3 DEF AfterSend

\* The steps of a thread other than Register keep the types.
LEMMA ThreadType ==
  ASSUME TypeInv, NEW t \in Threads, UNCHANGED crashed,
         CannotSend(t) \/ BeginWrite(t) \/ EndWrite(t) \/ EndSpoiledWrite(t)
           \/ Wake(t) \/ TimeOut(t)
  PROVE  TypeInv'
<1> USE DEF TypeInv
<1>1. CASE CannotSend(t)
  <2>1. Busy(t) /\ AfterSend(t)
    BY <1>1 DEF CannotSend, Busy
  <2>2. UNCHANGED <<tableVars, spoiled, wireVars, serverVars>>
    BY <1>1 DEF CannotSend
  <2> QED
    BY <2>1, <2>2, AfterSendType
    DEF TypeOK, BusyThreads, Issued, tableVars, wireVars, serverVars
<1>2. CASE BeginWrite(t)
  BY <1>2 DEF BeginWrite, TypeOK, BusyThreads, Busy, Issued, Writers, Phases,
              tableVars, wireVars, serverVars
<1>3. CASE EndWrite(t) \/ EndSpoiledWrite(t)
  <2>1. Busy(t) /\ AfterSend(t)
    BY <1>3 DEF EndWrite, EndSpoiledWrite, Busy
  <2>2. Deliver(t) \/ UNCHANGED toPeer
    BY <1>3 DEF EndWrite, EndSpoiledWrite
  <2>3. toPeer' \in Seq(Requests)
    BY <2>1, <2>2, DeliverType DEF TypeOK
  <2>4. /\ UNCHANGED <<tableVars, fromPeer, link, connected, conns, serverVars>>
        /\ spoiled' \subseteq spoiled
    BY <1>3 DEF EndWrite, EndSpoiledWrite
  <2> QED
    BY <2>1, <2>3, <2>4, AfterSendType
    DEF TypeOK, BusyThreads, Issued, tableVars, serverVars
<1>4. CASE Wake(t) \/ TimeOut(t)
  <2>1. Return(t)
    BY <1>4 DEF Wake, TimeOut
  <2> QED
    BY <2>1 DEF Return, TypeOK, BusyThreads, Busy, Issued, Phases,
                tableVars, wireVars, serverVars
<1> QED
  BY <1>1, <1>2, <1>3, <1>4

\* Erasing entries keeps the types of the table.
LEMMA ForgetType ==
  ASSUME TypeInv, NEW S, Forget(S)
  PROVE  pending' \subseteq Issued /\ age' \in [Ids -> Ages]
BY DEF TypeInv, TypeOK, Forget, Ages

\* The frame loop keeps the types.
LEMMA FrameType ==
  ASSUME TypeInv, Cleanup \/ EndFrame, UNCHANGED crashed
  PROVE  TypeInv'
<1> USE DEF TypeInv
<1>1. CASE Cleanup
  <2>1. pending' \subseteq Issued /\ age' \in [Ids -> Ages]
    BY <1>1, ForgetType DEF Cleanup
  <2> QED
    BY <1>1, <2>1 DEF Cleanup, TypeOK, BusyThreads, Busy, Issued, Phases, wireVars, serverVars
<1>2. CASE EndFrame
  BY <1>2 DEF EndFrame, TypeOK, BusyThreads, Busy, Issued, Phases,
              tableVars, wireVars, serverVars
<1> QED
  BY <1>1, <1>2

\* The server thread keeps the types.
LEMMA ServerType ==
  ASSUME TypeInv, (ServerStep /\ UNCHANGED crashed) \/ (smsg.id \in pending /\ Callback)
  PROVE  TypeInv'
<1> USE DEF TypeInv
<1>1. CASE Receive /\ UNCHANGED crashed
  <2>1. Head(fromPeer) \in Replies /\ Tail(fromPeer) \in Seq(Replies)
    BY <1>1, HeadTailProperties DEF Receive, TypeOK
  <2> QED
    BY <1>1, <2>1 DEF Receive, TypeOK, BusyThreads, Busy, Issued, tableVars, threadVars
<1>2. CASE Find /\ UNCHANGED crashed
  BY <1>2, HelloIsReply
  DEF Find, TypeOK, BusyThreads, Busy, Issued, tableVars, threadVars, wireVars
<1>3. CASE Erase /\ UNCHANGED crashed
  <2>1. pending' \subseteq Issued /\ age' \in [Ids -> Ages]
    BY <1>3, ForgetType DEF Erase
  <2> QED
    BY <1>3, <2>1, HelloIsReply
    DEF Erase, TypeOK, BusyThreads, Busy, Issued, threadVars, wireVars
<1>4. CASE ReadError /\ UNCHANGED crashed
  BY <1>4 DEF ReadError, TypeOK, BusyThreads, Busy, Issued, tableVars, threadVars, serverVars
<1>5. CASE smsg.id \in pending /\ Callback
  <2>1. smsg.data \in Answers
    BY DEF TypeOK, Replies
  <2>2. settled' \subseteq Issued /\ value' \in [Ids -> Answers \cup {Unset}] /\ crashed' \in BOOLEAN
    BY <1>5, <2>1 DEF Callback, TypeOK
  <2> QED
    BY <1>5, <2>2 DEF Callback, TypeOK, BusyThreads, Busy, Issued, threadVars, wireVars
<1> QED
  BY <1>1, <1>2, <1>3, <1>4, <1>5 DEF ServerStep

\* The connection and the bridge keep the types.
LEMMA PeerType ==
  ASSUME TypeInv, PeerStep, UNCHANGED crashed
  PROVE  TypeInv'
<1> USE DEF TypeInv
<1>0. <<>> \in Seq(Requests) /\ <<Hello>> \in Seq(Replies)
  BY HelloIsReply, EmptySeq
<1>1. CASE Connect
  BY <1>0, <1>1 DEF Connect, Writers, TypeOK, BusyThreads, Busy, Issued, tableVars, serverVars
<1>2. CASE PeerAnswer
  <2>1. Head(toPeer) \in Requests /\ Tail(toPeer) \in Seq(Requests)
    BY <1>2, HeadTailProperties DEF PeerAnswer, TypeOK
  <2>2. ASSUME NEW d \in {Head(toPeer).subject, Failed},
               fromPeer' = Append(fromPeer, [id |-> Head(toPeer).id, data |-> d])
        PROVE  fromPeer' \in Seq(Replies)
    <3>1. [id |-> Head(toPeer).id, data |-> d] \in Replies
      BY <2>1 DEF Requests, Replies, Answers
    <3> QED
      BY <2>2, <3>1, AppendProperties DEF TypeOK
  <2>3. fromPeer' \in Seq(Replies)
    BY <1>2, <2>2 DEF PeerAnswer, TypeOK
  <2> QED
    BY <1>2, <2>1, <2>3
    DEF PeerAnswer, TypeOK, BusyThreads, Busy, Issued, tableVars, threadVars, serverVars
<1>3. CASE LinkDown
  <2>1. PICK n \in 0..Len(fromPeer) : fromPeer' = SubSeq(fromPeer, 1, n)
    BY <1>3 DEF LinkDown
  <2>2. \A i \in 1..n : fromPeer[i] \in Replies
    BY ElementOfSeq, LenProperties DEF TypeOK
  <2>3. fromPeer' \in Seq(Replies)
    BY <2>1, <2>2, SubSeqProperties, LenProperties DEF TypeOK
  <2> QED
    BY <1>0, <1>3, <2>3
    DEF LinkDown, TypeOK, BusyThreads, Busy, Issued, tableVars, threadVars, serverVars
<1> QED
  BY <1>1, <1>2, <1>3 DEF PeerStep

\* Time keeps the types: an age stops at the first stale value.
LEMMA TickType ==
  ASSUME TypeInv, Tick, UNCHANGED crashed
  PROVE  TypeInv'
<1>1. age' \in [Ids -> Ages]
  BY DEF TypeInv, TypeOK, Tick, Ages
<1> QED
  BY <1>1 DEF Tick, TypeInv, TypeOK, BusyThreads, Busy, Issued, threadVars, wireVars, serverVars

-----------------------------------------------------------------------------
(* The table and the server thread.  While the server thread holds the mutex
   its entry stays in the table; an entry whose callback has run is in the
   table only until the mutex is released. *)

ServerHolds ==
  /\ spc \in {"found", "ran"} => smsg.id \in pending
  /\ spc = "found" => smsg.id \notin settled
  /\ spc = "ran" => smsg.id \in settled

PendingUnsettled == \A n \in pending \cap settled : spc = "ran" /\ n = smsg.id

TableInv == TypeInv /\ ServerHolds /\ PendingUnsettled

LEMMA TableInit == Init => TableInv
<1> SUFFICES ASSUME Init PROVE TableInv
  OBVIOUS
<1>1. <<>> \in Seq(Requests) /\ <<>> \in Seq(Replies)
  BY EmptySeq
<1>2. TypeOK
  <2>1. /\ counter \in 0..MaxRequests /\ pending = {} /\ settled = {} /\ Issued = {}
        /\ call \in [Ids -> Calls \cup {Unset}] /\ value \in [Ids -> Answers \cup {Unset}]
    BY DEF Init, Issued
  <2>2. age \in [Ids -> Ages]
    BY DEF Init, Ages
  <2>3. phase \in [Threads -> Phases] /\ cur \in [Threads -> 0..counter]
    BY DEF Init, Phases
  <2>4. /\ spoiled = {} /\ toPeer = <<>> /\ fromPeer = <<>>
        /\ conns \in 0..MaxConnects /\ spc = "reading"
    BY DEF Init
  <2>5. smsg \in Replies
    BY HelloIsReply DEF Init
  <2>6. link \in BOOLEAN /\ connected \in BOOLEAN /\ crashed \in BOOLEAN
    BY Zenon DEF Init
  <2> QED
    BY <1>1, <2>1, <2>2, <2>3, <2>4, <2>5, <2>6 DEF TypeOK
<1>3. BusyThreads
  BY DEF Init, BusyThreads, Busy
<1> QED
  BY <1>2, <1>3 DEF Init, TableInv, TypeInv, ServerHolds, PendingUnsettled

\* Steps that leave table and server thread alone keep what is said of them.
LEMMA TableUnchanged ==
  ASSUME TableInv, UNCHANGED <<pending, settled, spc, smsg>>
  PROVE  (ServerHolds /\ PendingUnsettled)'
BY DEF TableInv, ServerHolds, PendingUnsettled

LEMMA TableStep ==
  ASSUME TableInv, Next
  PROVE  TableInv'
<1> USE DEF TableInv
<1>1. ASSUME NEW t \in Threads, NEW k \in Kinds, NEW a \in Subjects,
             Register(t, k, a), UNCHANGED crashed
      PROVE  TableInv'
  <2>1. NewId \notin pending /\ NewId \notin settled
    BY DEF TypeInv, TypeOK, NewId, Issued
  <2>2. (ServerHolds /\ PendingUnsettled)'
    BY <1>1, <2>1 DEF Register, ServerHolds, PendingUnsettled, MutexFree, serverVars
  <2> QED
    BY <1>1, <2>2, RegisterType
<1>2. ASSUME NEW t \in Threads, UNCHANGED crashed,
             CannotSend(t) \/ BeginWrite(t) \/ EndWrite(t) \/ EndSpoiledWrite(t)
               \/ Wake(t) \/ TimeOut(t)
      PROVE  TableInv'
  <2>1. UNCHANGED <<pending, settled, spc, smsg>>
    BY <1>2 DEF CannotSend, BeginWrite, EndWrite, EndSpoiledWrite, Wake, TimeOut, Return,
                tableVars, serverVars
  <2> QED
    BY <1>2, <2>1, ThreadType, TableUnchanged
<1>3. CASE (Cleanup \/ EndFrame) /\ UNCHANGED crashed
  <2>1. (ServerHolds /\ PendingUnsettled)'
    BY <1>3 DEF Cleanup, EndFrame, Forget, MutexFree, ServerHolds, PendingUnsettled,
                tableVars, serverVars
  <2> QED
    BY <1>3, <2>1, FrameType
<1>4. CASE ServerStep /\ UNCHANGED crashed
  <2>1. TypeInv'
    BY <1>4, ServerType
  <2>2. CASE Receive \/ Find \/ ReadError
    BY <2>1, <2>2 DEF Receive, Find, ReadError, ServerHolds, PendingUnsettled,
                      tableVars, serverVars
  <2>3. CASE Erase
    BY <2>1, <2>3 DEF Erase, Forget, ServerHolds, PendingUnsettled
  <2> QED
    BY <1>4, <2>2, <2>3 DEF ServerStep
<1>5. CASE Callback
  <2>1. smsg.id \in pending
    BY <1>5 DEF Callback, ServerHolds
  <2>2. TypeInv'
    BY <1>5, <2>1, ServerType
  <2> QED
    BY <1>5, <2>1, <2>2 DEF Callback, ServerHolds, PendingUnsettled
<1>6. CASE (PeerStep \/ Tick) /\ UNCHANGED crashed
  <2>1. UNCHANGED <<pending, settled, spc, smsg>>
    BY <1>6 DEF PeerStep, Connect, PeerAnswer, LinkDown, Tick, tableVars, serverVars
  <2> QED
    BY <1>6, <2>1, PeerType, TickType, TableUnchanged
<1>7. CASE Halted
  BY <1>7 DEF Halted, vars, tableVars, threadVars, wireVars, serverVars, TypeInv, TypeOK,
              BusyThreads, Busy, Issued, ServerHolds, PendingUnsettled
<1> QED
  BY <1>1, <1>2, <1>3, <1>4, <1>5, <1>6, <1>7 DEF Next, ThreadStep

LEMMA TableStutter ==
  ASSUME TableInv, UNCHANGED vars
  PROVE  TableInv'
BY DEF TableInv, vars, tableVars, threadVars, wireVars, serverVars, TypeInv, TypeOK,
       BusyThreads, Busy, Issued, ServerHolds, PendingUnsettled

LEMMA TableAlways == Spec => []TableInv
<1>1. TableInv /\ [Next]_vars => TableInv'
  BY TableStep, TableStutter
<1> QED
  BY <1>1, TableInit, PTL DEF Spec

\* Every variable always has its type (all of websocket_server.h's state).
THEOREM TypeCorrect == Spec => []TypeOK
<1>1. TableInv => TypeOK
  BY DEF TableInv, TypeInv
<1> QED
  BY <1>1, TableAlways, PTL

-----------------------------------------------------------------------------
(* What travels is true: a request on the wire carries the subject of the
   request with its id, an answer the answer to the request with its id. *)

TrueRequests == {r \in Requests : r.id \in Issued /\ r.subject = call[r.id].subject}

TrueReplies ==
  {m \in Replies : \/ m.id = 0
                   \/ m.id \in Issued /\ m.data \in {Failed, call[m.id].subject}}

Faithful == /\ toPeer \in Seq(TrueRequests)
            /\ fromPeer \in Seq(TrueReplies)
            /\ smsg \in TrueReplies
            /\ pending \subseteq Issued
            /\ ReplyMatchesRequest

FaithInv == TableInv /\ Faithful

LEMMA HelloIsTrue == Hello \in TrueReplies
BY HelloIsReply DEF TrueReplies, Hello, Issued

LEMMA FaithInit == Init => Faithful
<1> SUFFICES ASSUME Init PROVE Faithful
  OBVIOUS
<1>1. toPeer \in Seq(TrueRequests) /\ fromPeer \in Seq(TrueReplies)
  BY EmptySeq DEF Init
<1>2. smsg \in TrueReplies
  BY HelloIsTrue DEF Init
<1>3. pending \subseteq Issued /\ ReplyMatchesRequest
  BY DEF Init, ReplyMatchesRequest, Issued
<1> QED
  BY <1>1, <1>2, <1>3 DEF Faithful

\* What is true of a message stays true while no request is registered.
LEMMA TruthUnchanged ==
  ASSUME UNCHANGED <<counter, call>>
  PROVE  TrueRequests' = TrueRequests /\ TrueReplies' = TrueReplies /\ Issued' = Issued
BY DEF TrueRequests, TrueReplies, Issued

\* A registration takes an id that no message bears: all that travels stays true.
LEMMA FaithRegister ==
  ASSUME FaithInv, NEW t \in Threads, NEW k \in Kinds, NEW a \in Subjects,
         Register(t, k, a), TableInv'
  PROVE  Faithful'
<1> USE DEF FaithInv, TableInv
<1>1. /\ counter' = counter + 1 /\ Issued' = Issued \cup {counter'} /\ counter' \notin Issued
      /\ call' = [call EXCEPT ![counter'] = [kind |-> k, subject |-> a, owner |-> t]]
      /\ value' = [value EXCEPT ![counter'] = Unset]
      /\ counter' \in Ids
  BY DEF Register, NewId, Issued, TypeInv, TypeOK
<1>2. \A n \in Issued : call'[n] = call[n] /\ value'[n] = value[n]
  BY <1>1 DEF TypeInv, TypeOK
<1>3. TrueRequests \subseteq TrueRequests'
  BY <1>1, <1>2 DEF TrueRequests
<1>4. toPeer' \in Seq(TrueRequests')
  BY <1>3, SeqMonotone DEF Faithful, Register, wireVars
<1>5. TrueReplies \subseteq TrueReplies'
  BY <1>1, <1>2 DEF TrueReplies
<1>6. fromPeer' \in Seq(TrueReplies') /\ smsg' \in TrueReplies'
  BY <1>5, SeqMonotone DEF Faithful, Register, wireVars, serverVars
<1>7. pending' \subseteq Issued'
  BY <1>1 DEF Register, NewId, Faithful
<1>8. ReplyMatchesRequest'
  BY <1>1, <1>2 DEF ReplyMatchesRequest, Faithful, TypeInv, TypeOK
<1> QED
  BY <1>4, <1>6, <1>7, <1>8 DEF Faithful

\* The other steps of a thread: what is written is the caller's own request.
LEMMA FaithThread ==
  ASSUME FaithInv, NEW t \in Threads, TableInv',
         CannotSend(t) \/ BeginWrite(t) \/ EndWrite(t) \/ EndSpoiledWrite(t)
           \/ Wake(t) \/ TimeOut(t)
  PROVE  Faithful'
<1> USE DEF FaithInv
<1>1. UNCHANGED <<counter, pending, call, value, fromPeer, smsg>>
  BY DEF CannotSend, BeginWrite, EndWrite, EndSpoiledWrite, Wake, TimeOut, Return,
         tableVars, wireVars, serverVars
<1>2. TrueRequests' = TrueRequests /\ TrueReplies' = TrueReplies /\ Issued' = Issued
  BY <1>1, TruthUnchanged
<1>3. \/ UNCHANGED toPeer
      \/ Busy(t) /\ Deliver(t)
  BY DEF CannotSend, BeginWrite, EndWrite, EndSpoiledWrite, Wake, TimeOut, Return,
         wireVars, Busy
<1>4. ASSUME Busy(t), Deliver(t) PROVE toPeer' \in Seq(TrueRequests)
  <2>1. cur[t] \in Issued /\ cur[t] \in Ids /\ call[cur[t]] \in Calls
    BY <1>4 DEF TableInv, TypeInv, TypeOK, BusyThreads, Issued, Ids
  <2>2. [id |-> cur[t], subject |-> call[cur[t]].subject] \in TrueRequests
    BY <2>1 DEF TrueRequests, Requests, Calls
  <2> QED
    BY <1>4, <2>2, AppendProperties DEF Deliver, Faithful
<1> QED
  BY <1>1, <1>2, <1>3, <1>4 DEF Faithful, ReplyMatchesRequest

\* The bridge answers a true request with its subject, or with a failure.
LEMMA FaithAnswer ==
  ASSUME FaithInv, PeerAnswer
  PROVE  Faithful'
<1> USE DEF FaithInv
<1>1. UNCHANGED <<counter, pending, call, value, smsg>>
  BY DEF PeerAnswer, tableVars, serverVars
<1>2. TrueRequests' = TrueRequests /\ TrueReplies' = TrueReplies /\ Issued' = Issued
  BY <1>1, TruthUnchanged
<1>3. Head(toPeer) \in TrueRequests /\ toPeer' \in Seq(TrueRequests)
  BY HeadTailProperties DEF PeerAnswer, Faithful
<1>4. ASSUME NEW d \in {Head(toPeer).subject, Failed},
             fromPeer' = Append(fromPeer, [id |-> Head(toPeer).id, data |-> d])
      PROVE  fromPeer' \in Seq(TrueReplies)
  <2>1. [id |-> Head(toPeer).id, data |-> d] \in TrueReplies
    BY <1>3, <1>4 DEF TrueRequests, TrueReplies, Requests, Replies, Answers
  <2> QED
    BY <1>4, <2>1, AppendProperties DEF Faithful
<1>5. fromPeer' \in Seq(TrueReplies)
  BY <1>4 DEF PeerAnswer, Faithful
<1> QED
  BY <1>1, <1>2, <1>3, <1>5 DEF Faithful, ReplyMatchesRequest

\* A new connection starts with true messages only; a broken one keeps some.
LEMMA FaithLink ==
  ASSUME FaithInv, Connect \/ LinkDown
  PROVE  Faithful'
<1> USE DEF FaithInv
<1>1. UNCHANGED <<counter, pending, call, value, smsg>>
  BY DEF Connect, LinkDown, tableVars, serverVars
<1>2. TrueRequests' = TrueRequests /\ TrueReplies' = TrueReplies /\ Issued' = Issued
  BY <1>1, TruthUnchanged
<1>3. toPeer' \in Seq(TrueRequests)
  BY EmptySeq DEF Connect, LinkDown
<1>4. CASE Connect
  BY <1>1, <1>2, <1>3, <1>4, HelloIsTrue DEF Connect, Faithful, ReplyMatchesRequest
<1>5. CASE LinkDown
  <2>1. PICK n \in 0..Len(fromPeer) : fromPeer' = SubSeq(fromPeer, 1, n)
    BY <1>5 DEF LinkDown
  <2>2. \A i \in 1..n : fromPeer[i] \in TrueReplies
    BY ElementOfSeq, LenProperties DEF Faithful
  <2>3. fromPeer' \in Seq(TrueReplies)
    BY <2>1, <2>2, SubSeqProperties, LenProperties DEF Faithful
  <2> QED
    BY <1>1, <1>2, <1>3, <2>3 DEF Faithful, ReplyMatchesRequest
<1> QED
  BY <1>4, <1>5

\* The server thread stores a true answer in the promise of its own request.
LEMMA FaithServer ==
  ASSUME FaithInv, ServerStep \/ Callback
  PROVE  Faithful'
<1> USE DEF FaithInv
<1>1. UNCHANGED <<counter, call, toPeer>>
  BY DEF ServerStep, Receive, Find, Erase, ReadError, Callback, tableVars, wireVars
<1>2. TrueRequests' = TrueRequests /\ TrueReplies' = TrueReplies /\ Issued' = Issued
  BY <1>1, TruthUnchanged
<1>3. pending' \subseteq Issued
  BY DEF ServerStep, Receive, Find, Erase, Forget, ReadError, Callback, tableVars, Faithful
<1>4. CASE Receive
  BY <1>1, <1>2, <1>4, HeadTailProperties
  DEF Receive, tableVars, Faithful, ReplyMatchesRequest
<1>5. CASE Find \/ Erase \/ ReadError
  BY <1>1, <1>2, <1>3, <1>5, HelloIsTrue
  DEF Find, Erase, ReadError, tableVars, wireVars, serverVars, Faithful, ReplyMatchesRequest
<1>6. CASE Callback
  <2>0. smsg.id \in Issued
    BY <1>6 DEF Callback, TableInv, ServerHolds, Faithful
  <2>1. smsg.id # 0
    BY <2>0 DEF Issued
  <2>2. smsg.data \in {Failed, call[smsg.id].subject}
    BY <2>1 DEF Faithful, TrueReplies
  <2>3. \A n \in Issued : \/ value'[n] = value[n]
                          \/ n = smsg.id /\ value'[n] = smsg.data
    <3>1. value \in [Ids -> Answers \cup {Unset}] /\ Issued \subseteq Ids
      BY DEF TableInv, TypeInv, TypeOK, Issued, Ids
    <3>2. value' = value \/ value' = [value EXCEPT ![smsg.id] = smsg.data]
      BY <1>6 DEF Callback
    <3> QED
      BY <3>1, <3>2
  <2>4. ReplyMatchesRequest'
    BY <1>1, <1>2, <2>2, <2>3 DEF Faithful, ReplyMatchesRequest
  <2> QED
    BY <1>1, <1>2, <1>3, <1>6, <2>4 DEF Callback, wireVars, Faithful
<1> QED
  BY <1>4, <1>5, <1>6 DEF ServerStep

\* The sweep, the frame loop and the clock touch no message and no promise.
LEMMA FaithOther ==
  ASSUME FaithInv, Cleanup \/ EndFrame \/ Tick \/ UNCHANGED vars
  PROVE  Faithful'
<1>1. UNCHANGED <<counter, call, value, toPeer, fromPeer, smsg>>
  BY DEF Cleanup, EndFrame, Tick, vars, tableVars, wireVars, serverVars
<1>2. TrueRequests' = TrueRequests /\ TrueReplies' = TrueReplies /\ Issued' = Issued
  BY <1>1, TruthUnchanged
<1>3. pending' \subseteq pending
  BY DEF Cleanup, EndFrame, Tick, Forget, vars, tableVars
<1> QED
  BY <1>1, <1>2, <1>3 DEF FaithInv, Faithful, ReplyMatchesRequest

LEMMA FaithStep ==
  ASSUME FaithInv, [Next]_vars
  PROVE  FaithInv'
<1>1. TableInv'
  BY TableStep, TableStutter DEF FaithInv
<1>2. Faithful'
  BY <1>1, FaithRegister, FaithThread, FaithAnswer, FaithLink, FaithServer, FaithOther
  DEF Next, ThreadStep, PeerStep, Halted
<1> QED
  BY <1>1, <1>2 DEF FaithInv

\* For every number of threads, requests, reconnections and lost messages: the
\* promise of a request holds nothing but an answer to that request
\* (send_request's counter and process_response's lookup under request_mutex).
THEOREM RepliesMatch == Spec => []ReplyMatchesRequest
<1>1. Init => FaithInv
  BY TableInit, FaithInit DEF FaithInv
<1>2. FaithInv /\ [Next]_vars => FaithInv'
  BY FaithStep
<1>3. FaithInv => ReplyMatchesRequest
  BY DEF FaithInv, Faithful
<1> QED
  BY <1>1, <1>2, <1>3, PTL DEF Spec

-----------------------------------------------------------------------------
(* The sweep and the waiting UI thread *)

LEMMA UiWaitStep ==
  ASSUME TableInv, UiWaitKeepsItsRequest, Next
  PROVE  UiWaitKeepsItsRequest'
<1> USE DEF UiWaitKeepsItsRequest
<1>0. /\ phase \in [Threads -> Phases] /\ cur \in [Threads -> 0..counter]
      /\ counter \in Nat
  BY DEF TableInv, TypeInv, TypeOK
<1>1. ASSUME NEW t \in Threads, NEW k \in Kinds, NEW a \in Subjects, Register(t, k, a)
      PROVE  UiWaitKeepsItsRequest'
  <2>1. CASE t = Ui
    BY <1>0, <1>1, <2>1 DEF Register
  <2>2. CASE t # Ui
    <3>1. phase'[Ui] = phase[Ui] /\ cur'[Ui] = cur[Ui] /\ cur[Ui] # NewId
      BY <1>0, <1>1, <2>2 DEF Register, NewId
    <3> QED
      BY <1>1, <3>1 DEF Register
  <2> QED
    BY <2>1, <2>2
<1>2. ASSUME NEW t \in Threads,
             CannotSend(t) \/ BeginWrite(t) \/ EndWrite(t) \/ EndSpoiledWrite(t)
               \/ Wake(t) \/ TimeOut(t)
      PROVE  UiWaitKeepsItsRequest'
  <2>1. UNCHANGED <<pending, settled>>
    BY <1>2 DEF CannotSend, BeginWrite, EndWrite, EndSpoiledWrite, Wake, TimeOut, Return,
                tableVars
  <2>2. CASE t = Ui /\ phase'[Ui] \in {"sending", "writing", "waiting"}
    <3>1. phase[Ui] \in {"sending", "writing", "waiting"}
      BY <1>2, <2>2 DEF CannotSend, BeginWrite, EndWrite, EndSpoiledWrite, Wake, TimeOut
    <3>2. cur'[Ui] = cur[Ui]
      BY <1>0, <1>2, <2>2 DEF CannotSend, BeginWrite, EndWrite, EndSpoiledWrite, Wake,
                              TimeOut, Return, AfterSend
    <3> QED
      BY <2>1, <3>1, <3>2
  <2>3. CASE t # Ui
    <3>1. phase'[Ui] = phase[Ui] /\ cur'[Ui] = cur[Ui]
      BY <1>0, <1>2, <2>3 DEF CannotSend, BeginWrite, EndWrite, EndSpoiledWrite, Wake,
                              TimeOut, Return, AfterSend
    <3> QED
      BY <2>1, <3>1
  <2> QED
    BY <2>2, <2>3
<1>3. CASE Cleanup \/ EndFrame
  BY <1>0, <1>3 DEF Cleanup, EndFrame
<1>4. CASE Erase
  <2>1. smsg.id \in settled
    BY <1>4 DEF Erase, TableInv, ServerHolds
  <2> QED
    BY <1>4, <2>1 DEF Erase, Forget, threadVars
<1>5. CASE Callback
  BY <1>5 DEF Callback, threadVars
<1>6. CASE Receive \/ Find \/ ReadError \/ PeerStep \/ Tick \/ Halted
  BY <1>6 DEF Receive, Find, ReadError, PeerStep, Connect, PeerAnswer, LinkDown, Tick, Halted,
              vars, tableVars, threadVars
<1> QED
  BY <1>1, <1>2, <1>3, <1>4, <1>5, <1>6 DEF Next, ThreadStep, ServerStep

\* The sweep of cleanup_stale_requests never takes the entry of a request the
\* UI thread is still in the middle of, however slow the frame is.
THEOREM UiWaitSafe == Spec => []UiWaitKeepsItsRequest
<1>1. Init => UiWaitKeepsItsRequest
  BY DEF Init, UiWaitKeepsItsRequest
<1>2. TableInv /\ UiWaitKeepsItsRequest /\ [Next]_vars => UiWaitKeepsItsRequest'
  BY UiWaitStep DEF UiWaitKeepsItsRequest, vars, tableVars, threadVars
<1> QED
  BY <1>1, <1>2, TableAlways, PTL DEF Spec

-----------------------------------------------------------------------------
(* The table implements the abstract request life cycle *)

StatusBar == [n \in Ids |-> StatusOf(n)]
AgeBar    == [n \in Ids |-> AgeOf(n)]

LEMMA RefineInit == Init => RR!Init
BY DEF Init, RR!Init, StatusOf, AgeOf, Issued, Ids, RR!Ids

\* Steps that keep the table keep the abstract state.
LEMMA RefineStutter ==
  ASSUME UNCHANGED tableVars
  PROVE  UNCHANGED RR!vars
BY DEF tableVars, RR!vars, StatusOf, AgeOf, Issued

LEMMA RefineRegister ==
  ASSUME TableInv, NEW t \in Threads, NEW k \in Kinds, NEW a \in Subjects, Register(t, k, a)
  PROVE  RR!Next
<1> USE DEF TableInv, TypeInv, TypeOK, Ids, RR!Ids
<1>1. /\ NewId \in Ids /\ NewId \notin Issued /\ NewId \notin settled
      /\ Issued' = Issued \cup {NewId}
      /\ pending' = pending \cup {NewId} /\ settled' = settled
      /\ age' = [age EXCEPT ![NewId] = 0]
  BY DEF Register, Issued, NewId
<1>2. \A n \in Ids : StatusOf(n)' = IF n = NewId THEN "open" ELSE StatusOf(n)
  BY <1>1 DEF StatusOf
<1>3. \A n \in Ids : AgeOf(n)' = IF n = NewId THEN 0 ELSE AgeOf(n)
  BY <1>1, <1>2 DEF AgeOf
<1>4. StatusOf(NewId) = "unused"
  BY <1>1 DEF StatusOf
<1>5. RR!Open(NewId)
  BY <1>1, <1>2, <1>3, <1>4 DEF RR!Open
<1> QED
  BY <1>1, <1>5 DEF RR!Next

LEMMA RefineCallback ==
  ASSUME TableInv, Callback
  PROVE  RR!Next
<1> USE DEF TableInv, TypeInv, TypeOK, Ids, RR!Ids
<1>0. smsg.id \in pending /\ smsg.id \notin settled
  BY DEF Callback, ServerHolds
<1>1. /\ smsg.id \in pending /\ smsg.id \in Issued /\ smsg.id \in Ids
      /\ smsg.id \notin settled /\ settled' = settled \cup {smsg.id}
      /\ UNCHANGED <<counter, pending, age>>
  <2>0. pending \subseteq Issued /\ Issued \subseteq Ids
    BY DEF Issued
  <2>1. smsg.id \in Issued /\ smsg.id \in Ids
    BY <1>0, <2>0
  <2> QED
    BY <1>0, <2>1 DEF Callback
<1>2. \A n \in Ids : StatusOf(n)' = IF n = smsg.id THEN "answered" ELSE StatusOf(n)
  BY <1>1 DEF StatusOf, Issued
<1>3. \A n \in Ids : AgeOf(n)' = IF n = smsg.id THEN 0 ELSE AgeOf(n)
  BY <1>1, <1>2 DEF AgeOf
<1>4. StatusOf(smsg.id) = "open"
  BY <1>1 DEF StatusOf
<1>5. RR!Answer(smsg.id)
  BY <1>1, <1>2, <1>3, <1>4 DEF RR!Answer
<1> QED
  BY <1>1, <1>5 DEF RR!Next

\* What a sweep forgets is open: the mutex is free, so no answer is half done.
LEMMA RefineCleanup ==
  ASSUME TableInv, Cleanup
  PROVE  RR!Next
<1> USE DEF TableInv, TypeInv, TypeOK, Ids, RR!Ids
<1> DEFINE S == {n \in pending : Stale(n)}
<1>1. /\ pending' = pending \ S /\ age' = [n \in Ids |-> IF n \in S THEN 0 ELSE age[n]]
      /\ UNCHANGED <<counter, settled>>
  BY DEF Cleanup, Forget
<1>2. \A n \in pending : n \in Issued /\ n \in Ids /\ n \notin settled /\ StatusOf(n) = "open"
  BY DEF Cleanup, MutexFree, PendingUnsettled, StatusOf, Issued
<1>3. \A n \in Ids : StatusOf(n)' = IF n \in S THEN "dropped" ELSE StatusOf(n)
  BY <1>1, <1>2 DEF StatusOf, Issued
<1>4. \A n \in Ids : AgeOf(n)' = IF n \in S THEN 0 ELSE AgeOf(n)
  BY <1>1, <1>2, <1>3 DEF AgeOf
<1>5. S \in SUBSET {n \in RR!Ids : StatusBar[n] = "open" /\ AgeBar[n] > StaleAge}
  BY <1>2 DEF StatusBar, AgeBar, AgeOf, Stale
<1>6. RR!Abandon
  BY <1>3, <1>4, <1>5 DEF RR!Abandon, StatusBar, AgeBar
<1> QED
  BY <1>6 DEF RR!Next

LEMMA RefineErase ==
  ASSUME TableInv, Erase
  PROVE  UNCHANGED RR!vars
<1> USE DEF TableInv, TypeInv, TypeOK
<1>1. /\ smsg.id \in settled /\ pending' = pending \ {smsg.id}
      /\ age' = [n \in Ids |-> IF n \in {smsg.id} THEN 0 ELSE age[n]]
      /\ UNCHANGED <<counter, settled>>
  BY DEF Erase, Forget, ServerHolds
<1>2. \A n \in Ids : StatusOf(n)' = StatusOf(n)
  BY <1>1 DEF StatusOf, Issued
<1>3. \A n \in Ids : AgeOf(n)' = AgeOf(n)
  BY <1>1, <1>2 DEF AgeOf, StatusOf
<1> QED
  BY <1>2, <1>3 DEF RR!vars

LEMMA RefineTick ==
  ASSUME TableInv, Tick
  PROVE  RR!Next
<1> USE DEF TableInv, TypeInv, TypeOK, Ids, RR!Ids
<1>1. /\ UNCHANGED <<counter, pending, settled>>
      /\ age' = [n \in Ids |-> IF n \in pending /\ age[n] <= StaleAge THEN age[n] + 1 ELSE age[n]]
  BY DEF Tick
<1>2. \A n \in Ids : StatusOf(n)' = StatusOf(n)
  BY <1>1 DEF StatusOf, Issued
<1>3. \A n \in Ids : AgeOf(n)' = IF StatusOf(n) = "open" /\ AgeOf(n) <= StaleAge
                                 THEN AgeOf(n) + 1 ELSE AgeOf(n)
  BY <1>1, <1>2 DEF AgeOf, StatusOf
<1>4. RR!Tick
  BY <1>2, <1>3 DEF RR!Tick
<1> QED
  BY <1>4 DEF RR!Next

LEMMA RefineStep ==
  ASSUME TableInv, [Next]_vars
  PROVE  [RR!Next]_RR!vars
<1>1. ASSUME NEW t \in Threads,
             CannotSend(t) \/ BeginWrite(t) \/ EndWrite(t) \/ EndSpoiledWrite(t)
               \/ Wake(t) \/ TimeOut(t)
      PROVE  UNCHANGED RR!vars
  BY <1>1, RefineStutter
  DEF CannotSend, BeginWrite, EndWrite, EndSpoiledWrite, Wake, TimeOut, Return
<1>2. ASSUME EndFrame \/ Receive \/ Find \/ ReadError \/ PeerStep \/ UNCHANGED vars
      PROVE  UNCHANGED RR!vars
  BY <1>2, RefineStutter
  DEF EndFrame, Receive, Find, ReadError, PeerStep, Connect, PeerAnswer, LinkDown, vars
<1> QED
  BY <1>1, <1>2, RefineRegister, RefineCallback, RefineCleanup, RefineErase, RefineTick
  DEF Next, ThreadStep, ServerStep, Halted

\* send_request, process_response and cleanup_stale_requests implement the
\* abstract request: one callback at most, no early sweep, no revival.
THEOREM Refinement == Spec => ImplementsRequestReply
<1>1. Init => RR!Init
  BY RefineInit
<1>2. TableInv /\ [Next]_vars => [RR!Next]_RR!vars
  BY RefineStep
<1> QED
  BY <1>1, <1>2, TableAlways, PTL DEF Spec, ImplementsRequestReply, RR!Spec
-----------------------------------------------------------------------------
(* Order.  Every pipe a request goes through keeps the order of the requests
   of one thread: the thread itself, the socket, the bridge, the socket back,
   the read handler, the requests whose callback has run. *)

\* In the order of their ids, if c says one thread asked both.
Before(c, a, b) == a # 0 /\ b # 0 /\ c[a].owner = c[b].owner => a < b

Precede(c, A, B) == \A a \in A, b \in B : Before(c, a, b)

Sorted(c, s) == \A i, j \in 1..Len(s) : i < j => Before(c, s[i].id, s[j].id)

IdsOf(s) == {s[i].id : i \in 1..Len(s)}

\* The message in the read handler, before its callback.
Now == IF spc \in {"got", "found"} THEN {smsg.id} ELSE {}

Transit == Now \cup IdsOf(fromPeer) \cup IdsOf(toPeer)

PipesSorted ==
  /\ Sorted(call, toPeer) /\ Sorted(call, fromPeer)
  /\ Precede(call, IdsOf(fromPeer), IdsOf(toPeer))
  /\ Precede(call, Now, IdsOf(fromPeer) \cup IdsOf(toPeer))
  /\ Precede(call, settled, Transit)

Unwritten(t) == phase[t] \in {"sending", "writing"}

\* What a thread has yet to write is its own, and newer than what is under way.
SendersLast ==
  \A t \in Threads : Unwritten(t) =>
    /\ call[cur[t]].owner = t
    /\ Precede(call, settled \cup Transit, {cur[t]})

OrderInv == FaithInv /\ PipesSorted /\ SendersLast

\* Smaller sets stay in order, and so does the id 0 of a message without one.
LEMMA PrecedeSmaller ==
  ASSUME NEW c, NEW A, NEW B, NEW C, NEW D, Precede(c, A, B),
         C \subseteq A \cup {0}, D \subseteq B \cup {0}
  PROVE  Precede(c, C, D)
BY DEF Precede, Before

\* Taking the head of an ordered pipe.
LEMMA SortedTail ==
  ASSUME NEW c, NEW S, NEW s \in Seq(S), s # <<>>, Sorted(c, s)
  PROVE  /\ Sorted(c, Tail(s))
         /\ Head(s).id \in IdsOf(s) /\ IdsOf(Tail(s)) \subseteq IdsOf(s)
         /\ Precede(c, {Head(s).id}, IdsOf(Tail(s)))
<1>1. /\ Len(s) \in Nat /\ Len(s) >= 1 /\ Head(s) = s[1]
      /\ Len(Tail(s)) = Len(s) - 1
      /\ \A i \in 1..Len(Tail(s)) : Tail(s)[i] = s[i + 1]
  BY HeadTailProperties, LenProperties, EmptySeq
<1>2. \A i \in 1..Len(Tail(s)) : i + 1 \in 1..Len(s) /\ 1 < i + 1
  BY <1>1
<1>3. Sorted(c, Tail(s))
  BY <1>1, <1>2 DEF Sorted
<1>4. Head(s).id \in IdsOf(s) /\ IdsOf(Tail(s)) \subseteq IdsOf(s)
  BY <1>1, <1>2 DEF IdsOf
<1>5. Precede(c, {Head(s).id}, IdsOf(Tail(s)))
  BY <1>1, <1>2 DEF Sorted, Precede, IdsOf
<1> QED
  BY <1>3, <1>4, <1>5

\* Putting a message behind all others into an ordered pipe.
LEMMA SortedAppend ==
  ASSUME NEW c, NEW S, NEW s \in Seq(S), NEW e \in S,
         Sorted(c, s), Precede(c, IdsOf(s), {e.id})
  PROVE  /\ Sorted(c, Append(s, e))
         /\ IdsOf(Append(s, e)) = IdsOf(s) \cup {e.id}
<1>1. /\ Len(s) \in Nat /\ Len(Append(s, e)) = Len(s) + 1
      /\ Append(s, e)[Len(s) + 1] = e
      /\ \A i \in 1..Len(s) : Append(s, e)[i] = s[i]
  BY AppendProperties, LenProperties
<1>2. \A i \in 1..(Len(s) + 1) : i \in 1..Len(s) \/ i = Len(s) + 1
  BY <1>1
<1>3. IdsOf(Append(s, e)) = IdsOf(s) \cup {e.id}
  <2>1. IdsOf(Append(s, e)) \subseteq IdsOf(s) \cup {e.id}
    BY <1>1, <1>2 DEF IdsOf
  <2>2. e.id \in IdsOf(Append(s, e))
    BY <1>1 DEF IdsOf
  <2>3. ASSUME NEW i \in 1..Len(s) PROVE s[i].id \in IdsOf(Append(s, e))
    <3>1. i \in 1..Len(Append(s, e)) /\ Append(s, e)[i] = s[i]
      BY <1>1
    <3> QED
      BY <3>1 DEF IdsOf
  <2> QED
    BY <2>1, <2>2, <2>3 DEF IdsOf
<1>4. Sorted(c, Append(s, e))
  <2> SUFFICES ASSUME NEW i \in 1..(Len(s) + 1), NEW j \in 1..(Len(s) + 1), i < j
               PROVE  Before(c, Append(s, e)[i].id, Append(s, e)[j].id)
    BY <1>1 DEF Sorted
  <2>1. i \in 1..Len(s)
    BY <1>1
  <2>2. CASE j \in 1..Len(s)
    BY <1>1, <2>1, <2>2 DEF Sorted
  <2>3. CASE j = Len(s) + 1
    BY <1>1, <2>1, <2>3 DEF Precede, IdsOf
  <2> QED
    BY <1>2, <2>2, <2>3
<1> QED
  BY <1>3, <1>4

\* Losing the end of an ordered pipe.
LEMMA SortedPrefix ==
  ASSUME NEW c, NEW S, NEW s \in Seq(S), NEW k \in 0..Len(s), Sorted(c, s)
  PROVE  /\ Sorted(c, SubSeq(s, 1, k))
         /\ IdsOf(SubSeq(s, 1, k)) \subseteq IdsOf(s)
<1>1. /\ Len(s) \in Nat /\ Len(SubSeq(s, 1, k)) = k
      /\ \A i \in 1..k : SubSeq(s, 1, k)[i] = s[i] /\ i \in 1..Len(s)
  BY SubSeqProperties, LenProperties
<1>2. Sorted(c, SubSeq(s, 1, k))
  BY <1>1 DEF Sorted
<1>3. IdsOf(SubSeq(s, 1, k)) \subseteq IdsOf(s)
  BY <1>1 DEF IdsOf
<1> QED
  BY <1>2, <1>3

\* An empty pipe, and one with nothing but the bridge's greeting.
LEMMA SortedFresh ==
  ASSUME NEW c
  PROVE  /\ Sorted(c, <<>>) /\ IdsOf(<<>>) = {}
         /\ Sorted(c, <<Hello>>) /\ IdsOf(<<Hello>>) = {0}
<1>1. Len(<<>>) = 0 /\ Len(<<Hello>>) = 1 /\ <<Hello>>[1].id = 0
  BY DEF Hello
<1>2. Sorted(c, <<>>) /\ Sorted(c, <<Hello>>)
  BY <1>1 DEF Sorted
<1>3. IdsOf(<<>>) = {} /\ IdsOf(<<Hello>>) = {0}
  BY <1>1 DEF IdsOf
<1> QED
  BY <1>2, <1>3

\* Every id under way was issued, or belongs to a message without one.
LEMMA TransitIssued ==
  ASSUME FaithInv
  PROVE  settled \cup Transit \subseteq Issued \cup {0}
<1>1. \A i \in 1..Len(toPeer) : toPeer[i] \in TrueRequests
  BY ElementOfSeq DEF FaithInv, Faithful
<1>2. \A i \in 1..Len(fromPeer) : fromPeer[i] \in TrueReplies
  BY ElementOfSeq DEF FaithInv, Faithful
<1>3. smsg.id \in Issued \cup {0}
  BY DEF FaithInv, Faithful, TrueReplies
<1>4. settled \subseteq Issued
  BY DEF FaithInv, TableInv, TypeInv, TypeOK
<1>5. IdsOf(toPeer) \subseteq Issued
  BY <1>1 DEF IdsOf, TrueRequests
<1>6. IdsOf(fromPeer) \subseteq Issued \cup {0}
  BY <1>2 DEF IdsOf, TrueReplies
<1> QED
  BY <1>3, <1>4, <1>5, <1>6 DEF Transit, Now

\* A step that at most loses messages, or that starts with a greeting, keeps
\* the order.
LEMMA OrderKept ==
  ASSUME OrderInv, UNCHANGED <<call, settled>>,
         Sorted(call, toPeer'), Sorted(call, fromPeer'),
         Now' \subseteq Now \cup {0},
         IdsOf(fromPeer') \subseteq IdsOf(fromPeer) \cup {0},
         IdsOf(toPeer') \subseteq IdsOf(toPeer) \cup {0},
         \A t \in Threads : Unwritten(t)' => Unwritten(t) /\ cur'[t] = cur[t]
  PROVE  (PipesSorted /\ SendersLast)'
<1> USE DEF OrderInv
<1>1. Transit' \subseteq Transit \cup {0}
  BY DEF Transit
<1>2. /\ Precede(call, IdsOf(fromPeer'), IdsOf(toPeer'))
      /\ Precede(call, Now', IdsOf(fromPeer') \cup IdsOf(toPeer'))
      /\ Precede(call, settled, Transit')
  BY <1>1, PrecedeSmaller DEF PipesSorted
<1>3. PipesSorted'
  BY <1>2 DEF PipesSorted
<1>4. ASSUME NEW t \in Threads, Unwritten(t)'
      PROVE  call[cur'[t]].owner = t /\ Precede(call, settled \cup Transit', {cur'[t]})
  <2>1. Unwritten(t) /\ cur'[t] = cur[t]
    BY <1>4
  <2>2. call[cur[t]].owner = t /\ Precede(call, settled \cup Transit, {cur[t]})
    BY <2>1 DEF SendersLast
  <2>3. settled \cup Transit' \subseteq (settled \cup Transit) \cup {0}
    BY <1>1
  <2> QED
    BY <2>1, <2>2, <2>3, PrecedeSmaller
<1>5. SendersLast'
  BY <1>4 DEF SendersLast
<1> QED
  BY <1>3, <1>5

\* A registration: its id is larger than every id issued before.
LEMMA OrderRegister ==
  ASSUME OrderInv, NEW t \in Threads, NEW k \in Kinds, NEW a \in Subjects, Register(t, k, a)
  PROVE  (PipesSorted /\ SendersLast)'
<1> USE DEF OrderInv
<1>1. /\ NewId \in Ids /\ NewId \notin Issued \cup {0} /\ \A n \in Issued \cup {0} : n < NewId
      /\ call \in [Ids -> Calls \cup {Unset}] /\ Issued \subseteq Ids
      /\ phase \in [Threads -> Phases] /\ cur \in [Threads -> 0..counter]
  BY DEF Register, NewId, FaithInv, TableInv, TypeInv, TypeOK, Issued, Ids
<1>2. /\ \A n \in Issued : call'[n] = call[n]
      /\ call'[NewId].owner = t
  BY <1>1 DEF Register
<1>3. /\ settled' \subseteq settled /\ UNCHANGED <<toPeer, fromPeer, Transit, Now>>
  BY DEF Register, wireVars, serverVars, Transit, Now
<1>4. settled \cup Transit \subseteq Issued \cup {0}
  BY TransitIssued
<1>5. ASSUME NEW A, NEW B, A \subseteq Issued \cup {0}, B \subseteq Issued \cup {0},
             Precede(call, A, B)
      PROVE  Precede(call', A, B)
  BY <1>2, <1>5 DEF Precede, Before
<1>6. ASSUME NEW s, \A i \in 1..Len(s) : s[i].id \in Issued \cup {0}, Sorted(call, s)
      PROVE  Sorted(call', s)
  BY <1>2, <1>6 DEF Sorted, Before
<1>7. /\ \A i \in 1..Len(toPeer) : toPeer[i].id \in Issued \cup {0}
      /\ \A i \in 1..Len(fromPeer) : fromPeer[i].id \in Issued \cup {0}
  BY <1>4 DEF Transit, IdsOf
<1>8. Sorted(call', toPeer) /\ Sorted(call', fromPeer)
  BY <1>6, <1>7 DEF PipesSorted
<1>9. /\ Precede(call', IdsOf(fromPeer), IdsOf(toPeer))
      /\ Precede(call', Now, IdsOf(fromPeer) \cup IdsOf(toPeer))
      /\ Precede(call', settled, Transit)
  BY <1>4, <1>5 DEF PipesSorted, Transit
<1>10. Precede(call', settled', Transit)
  BY <1>3, <1>9 DEF Precede
<1>11. PipesSorted'
  BY <1>3, <1>8, <1>9, <1>10 DEF PipesSorted
<1>12. ASSUME NEW u \in Threads, Unwritten(u)'
       PROVE  call'[cur'[u]].owner = u /\ Precede(call', settled' \cup Transit, {cur'[u]})
  <2>1. CASE u = t
    <3>1. cur'[u] = NewId
      BY <1>1, <2>1 DEF Register
    <3>2. \A n \in settled' \cup Transit : n < NewId
      BY <1>1, <1>3, <1>4
    <3> QED
      BY <1>2, <2>1, <3>1, <3>2 DEF Precede, Before
  <2>2. CASE u # t
    <3>1. Unwritten(u) /\ cur'[u] = cur[u]
      BY <1>1, <1>12, <2>2 DEF Register, Unwritten
    <3>2. cur[u] \in Issued
      BY <3>1 DEF FaithInv, TableInv, TypeInv, BusyThreads, Busy, Unwritten
    <3>3. call[cur[u]].owner = u /\ Precede(call, settled \cup Transit, {cur[u]})
      BY <3>1 DEF SendersLast
    <3>4. Precede(call', settled \cup Transit, {cur[u]})
      BY <1>4, <1>5, <3>2, <3>3
    <3> QED
      BY <1>2, <1>3, <3>1, <3>2, <3>3, <3>4 DEF Precede
  <2> QED
    BY <2>1, <2>2
<1>13. SendersLast'
  BY <1>3, <1>12 DEF SendersLast
<1> QED
  BY <1>11, <1>13

\* The other steps of a thread: what is written goes behind what is under way,
\* and stays ahead of what another thread has yet to write, which is another's.
LEMMA OrderThread ==
  ASSUME OrderInv, NEW t \in Threads,
         CannotSend(t) \/ BeginWrite(t) \/ EndWrite(t) \/ EndSpoiledWrite(t)
           \/ Wake(t) \/ TimeOut(t)
  PROVE  (PipesSorted /\ SendersLast)'
<1> USE DEF OrderInv
<1>1. UNCHANGED <<call, settled, fromPeer, spc, smsg>>
  BY DEF CannotSend, BeginWrite, EndWrite, EndSpoiledWrite, Wake, TimeOut, Return,
         tableVars, wireVars, serverVars
<1>2. Now' = Now /\ IdsOf(fromPeer') = IdsOf(fromPeer)
  BY <1>1 DEF Now
<1>3. phase \in [Threads -> Phases] /\ cur \in [Threads -> 0..counter]
  BY DEF FaithInv, TableInv, TypeInv, TypeOK
<1>4. \A u \in Threads : Unwritten(u)' => Unwritten(u) /\ cur'[u] = cur[u]
  BY <1>3 DEF CannotSend, BeginWrite, EndWrite, EndSpoiledWrite, Wake, TimeOut, Return,
              AfterSend, Unwritten
<1>5. CASE UNCHANGED toPeer
  BY <1>1, <1>2, <1>4, <1>5, OrderKept DEF PipesSorted
<1>6. CASE (EndWrite(t) \/ EndSpoiledWrite(t)) /\ Deliver(t) /\ link
  <2> DEFINE n == cur[t]
             r == [id |-> n, subject |-> call[n].subject]
  <2>1. Unwritten(t) /\ ~Unwritten(t)'
    BY <1>3, <1>6 DEF EndWrite, EndSpoiledWrite, AfterSend, Unwritten
  <2>2. toPeer' = Append(toPeer, r) /\ r.id = n
    BY <1>6 DEF Deliver
  <2>3. n \in Issued /\ n \in Ids /\ call[n] \in Calls /\ toPeer \in Seq(Requests)
    BY <2>1 DEF FaithInv, TableInv, TypeInv, TypeOK, BusyThreads, Busy, Unwritten, Issued, Ids
  <2>4. r \in Requests
    BY <2>3 DEF Requests, Calls
  <2>5. call[n].owner = t /\ Precede(call, settled \cup Transit, {n})
    BY <2>1 DEF SendersLast
  <2>6. Precede(call, IdsOf(toPeer), {n})
    BY <2>5, PrecedeSmaller DEF Transit
  <2>7. Sorted(call, toPeer') /\ IdsOf(toPeer') = IdsOf(toPeer) \cup {n}
    BY <2>2, <2>3, <2>4, <2>6, SortedAppend DEF PipesSorted
  <2>8. Transit' = Transit \cup {n}
    BY <1>2, <2>7 DEF Transit
  <2>9. /\ Precede(call, IdsOf(fromPeer), IdsOf(toPeer) \cup {n})
        /\ Precede(call, Now, IdsOf(fromPeer) \cup (IdsOf(toPeer) \cup {n}))
        /\ Precede(call, settled, Transit \cup {n})
    BY <2>5 DEF PipesSorted, Precede, Transit
  <2>10. PipesSorted'
    BY <1>1, <1>2, <2>7, <2>8, <2>9 DEF PipesSorted
  <2>11. ASSUME NEW u \in Threads, Unwritten(u)'
         PROVE  call[cur'[u]].owner = u /\ Precede(call, settled \cup Transit', {cur'[u]})
    <3>1. u # t /\ Unwritten(u) /\ cur'[u] = cur[u]
      BY <1>4, <2>1, <2>11
    <3>2. call[cur[u]].owner = u /\ Precede(call, settled \cup Transit, {cur[u]})
      BY <3>1 DEF SendersLast
    <3>3. Before(call, n, cur[u])
      BY <2>5, <3>1, <3>2 DEF Before
    <3> QED
      BY <2>8, <3>1, <3>2, <3>3 DEF Precede
  <2>12. SendersLast'
    BY <1>1, <2>11 DEF SendersLast
  <2> QED
    BY <2>10, <2>12
<1>7. UNCHANGED toPeer \/ ((EndWrite(t) \/ EndSpoiledWrite(t)) /\ Deliver(t) /\ link)
  BY DEF CannotSend, BeginWrite, EndWrite, EndSpoiledWrite, Deliver, Wake, TimeOut, Return,
         wireVars
<1> QED
  BY <1>5, <1>6, <1>7

\* The bridge answers the oldest request it has: the id moves from one pipe to
\* the next, behind all that is in it.
LEMMA OrderAnswer ==
  ASSUME OrderInv, PeerAnswer
  PROVE  (PipesSorted /\ SendersLast)'
<1> USE DEF OrderInv
<1> DEFINE n == Head(toPeer).id
<1>1. UNCHANGED <<call, settled, phase, cur, spc, smsg>> /\ toPeer # <<>> /\ toPeer' = Tail(toPeer)
  BY DEF PeerAnswer, tableVars, threadVars, serverVars
<1>2. Now' = Now /\ \A t \in Threads : Unwritten(t)' => Unwritten(t) /\ cur'[t] = cur[t]
  BY <1>1 DEF Now, Unwritten
<1>3. /\ toPeer \in Seq(Requests) /\ fromPeer \in Seq(Replies)
      /\ Head(toPeer) \in Requests
  BY <1>1, HeadTailProperties DEF FaithInv, TableInv, TypeInv, TypeOK
<1>4. /\ Sorted(call, toPeer') /\ n \in IdsOf(toPeer) /\ IdsOf(toPeer') \subseteq IdsOf(toPeer)
      /\ Precede(call, {n}, IdsOf(toPeer'))
  BY <1>1, <1>3, SortedTail DEF PipesSorted
<1>5. CASE UNCHANGED fromPeer
  BY <1>1, <1>2, <1>4, <1>5, OrderKept DEF PipesSorted
<1>6. ASSUME NEW d \in {Head(toPeer).subject, Failed},
             fromPeer' = Append(fromPeer, [id |-> n, data |-> d])
      PROVE  (PipesSorted /\ SendersLast)'
  <2>1. [id |-> n, data |-> d] \in Replies
    BY <1>3 DEF Requests, Replies, Answers
  <2>2. Precede(call, IdsOf(fromPeer), {n})
    BY <1>4, PrecedeSmaller DEF PipesSorted
  <2>3. Sorted(call, fromPeer') /\ IdsOf(fromPeer') = IdsOf(fromPeer) \cup {n}
    BY <1>3, <1>6, <2>1, <2>2, SortedAppend DEF PipesSorted
  <2>4. Transit' \subseteq Transit
    BY <1>2, <1>4, <2>3 DEF Transit
  <2>5. Precede(call, IdsOf(fromPeer'), IdsOf(toPeer'))
    BY <1>4, <2>3 DEF PipesSorted, Precede
  <2>6. /\ Precede(call, Now, IdsOf(fromPeer') \cup IdsOf(toPeer'))
        /\ Precede(call, settled, Transit')
    BY <1>4, <2>3, <2>4 DEF PipesSorted, Precede
  <2>7. PipesSorted'
    BY <1>1, <1>2, <1>4, <2>3, <2>5, <2>6 DEF PipesSorted
  <2>8. SendersLast'
    BY <1>1, <2>4 DEF SendersLast, Precede, Unwritten
  <2> QED
    BY <2>7, <2>8
<1> QED
  BY <1>5, <1>6 DEF PeerAnswer

\* The read handler takes the oldest message, and its callback settles it.
LEMMA OrderServer ==
  ASSUME OrderInv, ServerStep \/ Callback
  PROVE  (PipesSorted /\ SendersLast)'
<1> USE DEF OrderInv
<1>1. UNCHANGED <<call, toPeer, phase, cur>>
  BY DEF ServerStep, Receive, Find, Erase, ReadError, Callback, tableVars, wireVars, threadVars
<1>2. \A t \in Threads : Unwritten(t)' => Unwritten(t) /\ cur'[t] = cur[t]
  BY <1>1 DEF Unwritten
<1>3. CASE Receive
  <2> DEFINE n == Head(fromPeer).id
  <2>1. /\ UNCHANGED settled /\ fromPeer # <<>> /\ fromPeer' = Tail(fromPeer)
        /\ fromPeer \in Seq(Replies) /\ Now = {} /\ Now' = {n}
    BY <1>3 DEF Receive, tableVars, Now, FaithInv, TableInv, TypeInv, TypeOK
  <2>2. /\ Sorted(call, fromPeer') /\ n \in IdsOf(fromPeer)
        /\ IdsOf(fromPeer') \subseteq IdsOf(fromPeer)
        /\ Precede(call, {n}, IdsOf(fromPeer'))
    BY <2>1, SortedTail DEF PipesSorted
  <2>3. Transit' \subseteq Transit
    BY <1>1, <2>1, <2>2 DEF Transit
  <2>4. /\ Precede(call, IdsOf(fromPeer'), IdsOf(toPeer))
        /\ Precede(call, {n}, IdsOf(fromPeer') \cup IdsOf(toPeer))
        /\ Precede(call, settled, Transit')
    BY <2>2, <2>3 DEF PipesSorted, Precede
  <2>5. PipesSorted'
    BY <1>1, <2>1, <2>2, <2>4 DEF PipesSorted
  <2>6. SendersLast'
    BY <1>1, <2>1, <2>3 DEF SendersLast, Precede, Unwritten
  <2> QED
    BY <2>5, <2>6
<1>4. CASE Find \/ Erase \/ ReadError
  <2>1. UNCHANGED <<settled, fromPeer>> /\ Now' \subseteq Now
    BY <1>4 DEF Find, Erase, ReadError, tableVars, wireVars, serverVars, Now
  <2> QED
    BY <1>1, <1>2, <2>1, OrderKept DEF PipesSorted
<1>5. CASE Callback
  <2> DEFINE n == smsg.id
  <2>1. /\ UNCHANGED fromPeer /\ Now = {n} /\ Now' = {} /\ settled' = settled \cup {n}
    BY <1>5 DEF Callback, wireVars, Now
  <2>2. /\ Transit = {n} \cup Transit' /\ Transit' = IdsOf(fromPeer) \cup IdsOf(toPeer)
    BY <1>1, <2>1 DEF Transit
  <2>3. Precede(call, {n}, Transit') /\ Precede(call, settled, Transit')
    BY <2>1, <2>2 DEF PipesSorted, Precede
  <2>4. PipesSorted'
    BY <1>1, <2>1, <2>2, <2>3 DEF PipesSorted, Precede
  <2>5. settled' \cup Transit' = settled \cup Transit
    BY <2>1, <2>2
  <2>6. SendersLast'
    BY <1>1, <2>5 DEF SendersLast, Unwritten
  <2> QED
    BY <2>4, <2>6
<1> QED
  BY <1>3, <1>4, <1>5 DEF ServerStep

\* A new connection, a broken one, the frame loop and the clock.
LEMMA OrderOther ==
  ASSUME OrderInv,
         Connect \/ LinkDown \/ Cleanup \/ EndFrame \/ Tick \/ UNCHANGED vars
  PROVE  (PipesSorted /\ SendersLast)'
<1> USE DEF OrderInv
<1>1. UNCHANGED <<call, settled, cur, spc, smsg>>
  BY DEF Connect, LinkDown, Cleanup, EndFrame, Tick, vars, tableVars, threadVars, serverVars
<1>2. phase \in [Threads -> Phases] /\ toPeer \in Seq(Requests) /\ fromPeer \in Seq(Replies)
  BY DEF FaithInv, TableInv, TypeInv, TypeOK
<1>3. Now' = Now /\ \A t \in Threads : Unwritten(t)' => Unwritten(t) /\ cur'[t] = cur[t]
  BY <1>1, <1>2
  DEF Now, Unwritten, Connect, LinkDown, Cleanup, EndFrame, Tick, vars, threadVars
<1>4. CASE Connect
  <2>1. toPeer' = <<>> /\ fromPeer' = <<Hello>>
    BY <1>4 DEF Connect
  <2> QED
    BY <1>1, <1>3, <2>1, SortedFresh, OrderKept
<1>5. CASE LinkDown
  <2>1. PICK k \in 0..Len(fromPeer) : toPeer' = <<>> /\ fromPeer' = SubSeq(fromPeer, 1, k)
    BY <1>5 DEF LinkDown
  <2>2. Sorted(call, fromPeer') /\ IdsOf(fromPeer') \subseteq IdsOf(fromPeer)
    BY <1>2, <2>1, SortedPrefix DEF PipesSorted
  <2> QED
    BY <1>1, <1>3, <2>1, <2>2, SortedFresh, OrderKept
<1>6. CASE Cleanup \/ EndFrame \/ Tick \/ UNCHANGED vars
  <2>1. UNCHANGED <<toPeer, fromPeer>>
    BY <1>6 DEF Cleanup, EndFrame, Tick, vars, wireVars
  <2> QED
    BY <1>1, <1>3, <2>1, OrderKept DEF PipesSorted
<1> QED
  BY <1>4, <1>5, <1>6

LEMMA OrderInit == Init => PipesSorted /\ SendersLast
<1> SUFFICES ASSUME Init PROVE PipesSorted /\ SendersLast
  OBVIOUS
<1>1. toPeer = <<>> /\ fromPeer = <<>> /\ Now = {} /\ \A t \in Threads : ~Unwritten(t)
  BY DEF Init, Now, Unwritten
<1> QED
  BY <1>1, SortedFresh DEF PipesSorted, SendersLast, Transit, Precede

LEMMA OrderStep ==
  ASSUME OrderInv, [Next]_vars
  PROVE  OrderInv'
<1>1. FaithInv'
  BY FaithStep DEF OrderInv
<1>2. (PipesSorted /\ SendersLast)'
  BY OrderRegister, OrderThread, OrderAnswer, OrderServer, OrderOther
  DEF Next, ThreadStep, PeerStep, Halted
<1> QED
  BY <1>1, <1>2 DEF OrderInv

\* Only a callback settles, and it settles the oldest message under way.
LEMMA SettledInOrder ==
  ASSUME OrderInv, [Next]_vars, NEW m \in settled' \ settled, NEW n \in settled,
         call[m].owner = call[n].owner
  PROVE  n < m
<1>1. ASSUME NEW t \in Threads, ThreadStep(t) PROVE settled' \subseteq settled
  BY <1>1 DEF ThreadStep, Register, CannotSend, BeginWrite, EndWrite, EndSpoiledWrite, Wake,
              TimeOut, Return, tableVars
<1>2. CASE UNCHANGED settled
  BY <1>2
<1>3. CASE Callback
  <2>1. m = smsg.id /\ Now = {m} /\ m \in Issued /\ n \in Issued
    BY <1>3 DEF Callback, Now, OrderInv, FaithInv, TableInv, TypeInv, TypeOK, ServerHolds
  <2>2. Before(call, n, m)
    BY <2>1 DEF OrderInv, PipesSorted, Precede, Transit
  <2> QED
    BY <2>1, <2>2 DEF Before, Issued
<1>4. ASSUME ~Callback, \A t \in Threads : ~ThreadStep(t)
      PROVE  UNCHANGED settled
  BY <1>4 DEF Next, Halted, vars, tableVars, Cleanup, EndFrame, ServerStep, Receive, Find, Erase,
              ReadError, PeerStep, Connect, PeerAnswer, LinkDown, Tick
<1> QED
  BY <1>1, <1>2, <1>3, <1>4

\* For every number of threads, requests and reconnections: the callbacks of
\* one thread's requests run in the order in which it made them (getModules and
\* initProcessByName rely on it: an older answer never overwrites a newer one).
THEOREM InOrder == Spec => AnswersInOrder
<1>1. Init => OrderInv
  BY TableInit, FaithInit, OrderInit DEF OrderInv, FaithInv
<1>2. OrderInv /\ [Next]_vars => OrderInv'
  BY OrderStep
<1>3. OrderInv /\ [Next]_vars =>
        [\A m \in settled' \ settled, n \in settled :
           call[m].owner = call[n].owner => n < m]_vars
  BY SettledInOrder
<1> QED
  BY <1>1, <1>2, <1>3, PTL DEF Spec, AnswersInOrder
=============================================================================
