--------------------------- MODULE Session_proofs ---------------------------
(* Theorems about Session, for every number of processes and addresses and *)
(* whatever the bounds.                                                    *)
EXTENDS Session, SequenceTheorems, TLAPS

\* Between an attachment and the request for its modules the promise is always
\* held somewhere: by the callback, by the flag or by the frame.
LEMMA RefreshInit == Init => RefreshNotLost
  BY DEF Init, RefreshNotLost

\* The UI thread takes the promise from the flag before it clears the flag.
LEMMA RefreshUi == RefreshNotLost /\ UiStep => RefreshNotLost'
<1> SUFFICES ASSUME RefreshNotLost, UiStep PROVE RefreshNotLost'
  OBVIOUS
<1> USE DEF RefreshNotLost
<1>1. CASE TopOfFrame
  BY <1>1 DEF TopOfFrame, stateVars
<1>2. CASE ClearFlag
  BY <1>2 DEF ClearFlag
<1>3. CASE RefreshModules
  BY <1>3 DEF RefreshModules, GetModules
<1>4. CASE ClickRefresh
  BY <1>4 DEF ClickRefresh, GetModules
<1>5. CASE EndRender
  BY <1>5 DEF EndRender, stateVars
<1>6. CASE CheckProcess
  BY <1>6 DEF CheckProcess
<1>7. ASSUME NEW p \in Procs, ClickAttach(p) PROVE RefreshNotLost'
  BY <1>7 DEF ClickAttach, Send, stateVars
<1>8. ASSUME NEW S \in SUBSET Addrs, ShowAddresses(S) PROVE RefreshNotLost'
  BY <1>8 DEF ShowAddresses, stateVars
<1> QED
  BY <1>1, <1>2, <1>3, <1>4, <1>5, <1>6, <1>7, <1>8 DEF UiStep

\* The callback of an attachment holds the promise until it has set the flag.
LEMMA RefreshServer == RefreshNotLost /\ ServerStep => RefreshNotLost'
<1> SUFFICES ASSUME RefreshNotLost, ServerStep PROVE RefreshNotLost'
  OBVIOUS
<1> USE DEF RefreshNotLost
<1>1. CASE ProcessResponse
  <2> USE <1>1 DEF ProcessResponse, uiVars
  <2>1. CASE AnswerRef
    BY <2>1 DEF AnswerRef, RefFailed, RefWorked
  <2>2. CASE AnswerModules
    BY <2>2 DEF AnswerModules
  <2>3. CASE AnswerRead
    BY <2>3 DEF AnswerRead
  <2> QED
    BY <2>1, <2>2, <2>3
<1>2. CASE DropLateAnswer
  BY <1>2 DEF DropLateAnswer, stateVars, uiVars
<1>3. CASE FinishAttach
  BY <1>3 DEF FinishAttach
<1> QED
  BY <1>1, <1>2, <1>3 DEF ServerStep

\* Nobody else touches the flag, the frame or the callback.
LEMMA RefreshOthers ==
  ASSUME RefreshNotLost,
         \/ MemoryStep \/ WebsocketCallback \/ Disconnect \/ Connect
         \/ \E p \in Procs : Exit(p)
  PROVE  RefreshNotLost'
<1> USE DEF stateVars, uiVars
<1>1. UNCHANGED <<owed, attached, needsRefresh, ui>>
  <2>1. CASE CollectReads
    BY <2>1 DEF CollectReads
  <2>2. ASSUME NEW a \in Addrs, StartRead(a) PROVE <1>1!:
    BY <2>2 DEF StartRead, Send
  <2>3. CASE FinishRead
    BY <2>3 DEF FinishRead
  <2>4. CASE TimeOutRead
    BY <2>4 DEF TimeOutRead
  <2>5. CASE WebsocketCallback
    BY <2>5 DEF WebsocketCallback
  <2>6. CASE Disconnect
    BY <2>6 DEF Disconnect
  <2>7. CASE Connect
    BY <2>7 DEF Connect
  <2>8. ASSUME NEW p \in Procs, Exit(p) PROVE <1>1!:
    BY <2>8 DEF Exit
  <2> QED
    BY <2>1, <2>2, <2>3, <2>4, <2>5, <2>6, <2>7, <2>8 DEF MemoryStep
<1> QED
  BY <1>1 DEF RefreshNotLost

\* An attachment that succeeded never loses the request for its modules, whenever
\* it comes in the frame (initProcessByName's callback and main's loop).
THEOREM RefreshKept == Spec => []RefreshNotLost
<1>1. RefreshNotLost /\ [Next]_vars => RefreshNotLost'
  <2>1. ASSUME RefreshNotLost, UNCHANGED vars PROVE RefreshNotLost'
    BY <2>1 DEF RefreshNotLost, vars, stateVars, uiVars
  <2> QED
    BY <2>1, RefreshUi, RefreshServer, RefreshOthers DEF Next
<1> QED
  BY <1>1, RefreshInit, PTL DEF Spec
-----------------------------------------------------------------------------
(* The inductive invariants *)

\* The memory thread has at most one read under way, and none that nobody waits for.
OneRead ==
  /\ \A i, j \in Reads(toBridge) : i = j
  /\ \A i, j \in Reads(fromBridge) : i = j
  /\ Reads(toBridge) = {} \/ Reads(fromBridge) = {}
  /\ (want = None \/ got # <<>>) => (Reads(toBridge) = {} /\ Reads(fromBridge) = {})

\* The last answer about an attachment that is on its way tells what the bridge
\* looks at.
LastAnswerTrue ==
  (connected /\ late = 0) =>
    \A i \in DOMAIN fromBridge :
      ( /\ fromBridge[i].kind = "ref_process"
        /\ \A j \in DOMAIN fromBridge : fromBridge[j].kind = "ref_process" => j <= i )
      => fromBridge[i].from = gproc

\* Nothing is attached or answered before the bridge has connected.
Connected == (connected \/ activeProcess \/ fromBridge # <<>>) => conns > 0

\* What makes TypeOK and AttachAgrees inductive.
ReadInv   == TypeOK /\ OneRead
AgreeInv  == LastAnswerTrue /\ Connected /\ AttachAgrees

-----------------------------------------------------------------------------
(* Types, and the one read under way *)

\* Taking the read out of a queue leaves the rest as it was.
LEMMA ForgottenProperties ==
  ASSUME NEW S, NEW q \in Seq(S), \A i, j \in Reads(q) : i = j, NEW qn \in Forgotten(q)
  PROVE  /\ qn \in Seq(S) /\ Reads(qn) = {}
         /\ \/ qn = q
            \/ \E i \in Reads(q) :
                 /\ Len(qn) = Len(q) - 1
                 /\ \A j \in 1..Len(qn) : qn[j] = IF j < i THEN q[j] ELSE q[j + 1]
<1>1. CASE Reads(q) = {}
  BY <1>1 DEF Forgotten
<1>2. CASE Reads(q) # {}
  <2>1. PICK i \in Reads(q) : qn = SubSeq(q, 1, i - 1) \o SubSeq(q, i + 1, Len(q))
    BY <1>2 DEF Forgotten
  <2>2. i \in 1..Len(q) /\ Len(q) \in Nat
    BY DEF Reads
  <2>3. PICK l : l = SubSeq(q, 1, i - 1)
    OBVIOUS
  <2>4. l \in Seq(S) /\ Len(l) = i - 1 /\ \A j \in 1..(i - 1) : l[j] = q[j]
    BY <2>2, <2>3
  <2>5. PICK r : r = SubSeq(q, i + 1, Len(q))
    OBVIOUS
  <2>6. r \in Seq(S) /\ Len(r) = Len(q) - i /\ \A j \in 1..(Len(q) - i) : r[j] = q[i + j]
    BY <2>2, <2>5
  <2>7. /\ qn \in Seq(S) /\ Len(qn) = Len(l) + Len(r)
        /\ \A j \in 1..(Len(l) + Len(r)) : qn[j] = IF j <= Len(l) THEN l[j] ELSE r[j - Len(l)]
    <3>1. qn = l \o r
      BY <2>1, <2>3, <2>5
    <3> HIDE <2>1
    <3> QED
      BY <3>1, <2>4, <2>6, ConcatProperties, Zenon
  <2>8. Len(qn) = Len(q) - 1
    BY <2>2, <2>4, <2>6, <2>7
  <2>9. ASSUME NEW j \in 1..Len(qn) PROVE qn[j] = IF j < i THEN q[j] ELSE q[j + 1]
    <3>1. CASE j < i
      BY <3>1, <2>2, <2>4, <2>6, <2>7
    <3>2. CASE j >= i
      <4>1. j - (i - 1) \in 1..(Len(q) - i) /\ i + (j - (i - 1)) = j + 1 /\ ~(j <= i - 1)
        BY <3>2, <2>2, <2>8
      <4>2. qn[j] = r[j - (i - 1)]
        BY <4>1, <2>2, <2>4, <2>6, <2>7
      <4>3. r[j - (i - 1)] = q[i + (j - (i - 1))]
        BY <4>1, <2>6
      <4> QED
        BY <4>1, <4>2, <4>3, <3>2, <2>2
    <3> QED
      BY <3>1, <3>2, <2>2
  <2>10. Reads(qn) = {}
    <3> SUFFICES ASSUME NEW j \in 1..Len(qn), qn[j].kind = "rvm" PROVE FALSE
      BY <2>7 DEF Reads
    <3>1. CASE j < i
      BY <3>1, <2>2, <2>7, <2>8, <2>9 DEF Reads
    <3>2. CASE j >= i
      <4>1. q[j + 1].kind = "rvm" /\ j + 1 \in 1..Len(q)
        BY <3>2, <2>2, <2>7, <2>8, <2>9
      <4>2. j + 1 = i
        BY <4>1 DEF Reads
      <4> QED
        BY <4>2, <3>2, <2>2, <2>8
    <3> QED
      BY <3>1, <3>2, <2>2, <2>8
  <2> QED
    BY <2>7, <2>8, <2>9, <2>10
<1> QED
  BY <1>1, <1>2

LEMMA ReadInit == Init => ReadInv
<1> SUFFICES ASSUME Init PROVE ReadInv
  OBVIOUS
<1> USE SessionAssumption DEF Init
<1>1. TypeOK
  <2>1. /\ alive \subseteq Procs /\ gproc \in MaybeProc /\ pid \in MaybeProc
        /\ modules \in MaybeProc /\ snapshots \in [Addrs -> MaybeProc]
    BY DEF MaybeProc
  <2>2. conns \in 0..MaxConnects /\ late \in 0..MaxLate /\ clicks \in 0..MaxClicks
    OBVIOUS
  <2>3. toBridge \in Seq(Requests) /\ fromBridge \in Seq(Answers)
    BY EmptySeq
  <2> QED
    BY <2>1, <2>2, <2>3, Zenon DEF TypeOK
<1>2. Reads(toBridge) = {} /\ Reads(fromBridge) = {}
  BY DEF Reads
<1> QED
  BY <1>1, <1>2 DEF ReadInv, OneRead

LEMMA ReadStutter == ReadInv /\ UNCHANGED vars => ReadInv'
  BY DEF ReadInv, TypeOK, OneRead, Reads, vars, bridgeVars, queueVars, stateVars, uiVars, readVars

\* A step that leaves the queues and the wait alone has only its types to keep.
LEMMA QuietRead ==
  ASSUME ReadInv, TypeOK', UNCHANGED <<toBridge, fromBridge, want, got>>
  PROVE  ReadInv'
  BY DEF ReadInv, OneRead, Reads

\* A message joins a queue: only a read adds to its reads.
LEMMA AppendReads ==
  ASSUME NEW S, NEW q \in Seq(S), NEW m \in S
  PROVE  /\ Append(q, m) \in Seq(S)
         /\ m.kind # "rvm" => Reads(Append(q, m)) = Reads(q)
         /\ m.kind = "rvm" => Reads(Append(q, m)) = Reads(q) \cup {Len(q) + 1}
<1>1. /\ Append(q, m) \in Seq(S) /\ Len(Append(q, m)) = Len(q) + 1 /\ Len(q) \in Nat
      /\ \A i \in 1..Len(q) : Append(q, m)[i] = q[i]
      /\ Append(q, m)[Len(q) + 1] = m
  BY AppendProperties, LenProperties
<1>2. DOMAIN q = 1..Len(q) /\ DOMAIN Append(q, m) = 1..(Len(q) + 1)
  BY <1>1
<1> QED
  BY <1>1, <1>2 DEF Reads

\* The first message leaves a queue: its reads move forward by one.
LEMMA TailReads ==
  ASSUME NEW S, NEW q \in Seq(S), q # <<>>
  PROVE  /\ Tail(q) \in Seq(S)
         /\ \A i \in Reads(Tail(q)) : i + 1 \in Reads(q) /\ i \in 1..(Len(q) - 1)
<1>1. /\ Tail(q) \in Seq(S) /\ Len(Tail(q)) = Len(q) - 1 /\ Len(q) \in Nat
      /\ \A i \in 1..Len(Tail(q)) : Tail(q)[i] = q[i + 1]
  BY HeadTailProperties, LenProperties
<1>2. DOMAIN q = 1..Len(q) /\ DOMAIN Tail(q) = 1..(Len(q) - 1)
  BY <1>1
<1> QED
  BY <1>1, <1>2 DEF Reads

\* A request that is not a read is sent.
LEMMA SendRead ==
  ASSUME ReadInv, NEW m \in Requests, m.kind # "rvm", toBridge' = Append(toBridge, m)
  PROVE  toBridge' \in Seq(Requests) /\ Reads(toBridge') = Reads(toBridge)
  BY AppendReads DEF ReadInv, TypeOK

LEMMA GetModulesRead ==
  ASSUME ReadInv, GetModules, ui' \in {"render"}, clicks' \in 0..MaxClicks
  PROVE  ReadInv'
<1>1. toBridge' \in Seq(Requests) /\ Reads(toBridge') = Reads(toBridge)
  <2>1. CASE Send("get_modules", None)
    BY <2>1, SendRead DEF Send, Requests
  <2>2. CASE UNCHANGED toBridge
    BY <2>2 DEF ReadInv, TypeOK
  <2> QED
    BY <2>1, <2>2 DEF GetModules
<1>2. UNCHANGED <<bridgeVars, fromBridge, late, activeProcess, pid, needsRefresh, modules,
                  snapshots, wasActive, shown, readVars, attached>> /\ owed' = FALSE
  BY DEF GetModules
<1>3. TypeOK'
  BY <1>1, <1>2 DEF ReadInv, TypeOK, bridgeVars, readVars
<1>4. OneRead'
  <2>1. Reads(fromBridge') = Reads(fromBridge)
    BY <1>2
  <2> QED
    BY <1>1, <1>2, <2>1 DEF ReadInv, OneRead, readVars
<1> QED
  BY <1>3, <1>4 DEF ReadInv

LEMMA ReadUi == ReadInv /\ UiStep => ReadInv'
<1> SUFFICES ASSUME ReadInv, UiStep PROVE ReadInv'
  OBVIOUS
<1> USE DEF bridgeVars, queueVars, stateVars, readVars
<1>0. TypeOK
  BY DEF ReadInv
<1>1. CASE TopOfFrame
  BY <1>0, <1>1, QuietRead DEF TopOfFrame, TypeOK
<1>2. CASE ClearFlag
  BY <1>0, <1>2, QuietRead DEF ClearFlag, TypeOK
<1>3. CASE RefreshModules
  BY <1>0, <1>3, GetModulesRead DEF RefreshModules, TypeOK
<1>4. CASE ClickRefresh
  <2>1. ui' = "render" /\ clicks' \in 0..MaxClicks
    BY <1>0, <1>4, SessionAssumption DEF ClickRefresh, MayClick, TypeOK
  <2> QED
    BY <1>4, <2>1, GetModulesRead DEF ClickRefresh
<1>5. CASE EndRender
  BY <1>0, <1>5, QuietRead DEF EndRender, TypeOK
<1>6. CASE CheckProcess
  BY <1>0, <1>6, QuietRead DEF CheckProcess, TypeOK, MaybeProc, IsProcessAlive, HandleOpen
<1>7. ASSUME NEW p \in Procs, ClickAttach(p) PROVE ReadInv'
  <2>1. toBridge' \in Seq(Requests) /\ Reads(toBridge') = Reads(toBridge)
    BY <1>7, SendRead DEF ClickAttach, Send, Requests
  <2>2. clicks' \in 0..MaxClicks
    BY <1>0, <1>7, SessionAssumption DEF ClickAttach, MayClick, TypeOK
  <2>3. UNCHANGED <<bridgeVars, fromBridge, late, stateVars, ui, wasActive, shown, readVars,
                    attached>>
    BY <1>7 DEF ClickAttach
  <2>4. TypeOK'
    BY <1>0, <2>1, <2>2, <2>3 DEF TypeOK
  <2>5. Reads(fromBridge') = Reads(fromBridge)
    BY <2>3
  <2> QED
    BY <2>1, <2>3, <2>4, <2>5 DEF ReadInv, OneRead
<1>8. ASSUME NEW S \in SUBSET Addrs, ShowAddresses(S) PROVE ReadInv'
  BY <1>0, <1>8, QuietRead DEF ShowAddresses, TypeOK
<1> QED
  BY <1>1, <1>2, <1>3, <1>4, <1>5, <1>6, <1>7, <1>8 DEF UiStep

LEMMA ReadMemory == ReadInv /\ MemoryStep => ReadInv'
<1> SUFFICES ASSUME ReadInv, MemoryStep PROVE ReadInv'
  OBVIOUS
<1> USE DEF bridgeVars, queueVars, stateVars, uiVars
<1>0. TypeOK /\ OneRead
  BY DEF ReadInv
<1>1. CASE CollectReads
  BY <1>0, <1>1, QuietRead DEF CollectReads, TypeOK, MaybeProc
<1>2. ASSUME NEW a \in Addrs, StartRead(a) PROVE ReadInv'
  <2>1. want = None /\ got = <<>> /\ Reads(toBridge) = {} /\ Reads(fromBridge) = {}
    BY <1>0, <1>2 DEF StartRead, TypeOK, OneRead
  <2>2. UNCHANGED <<bridgeVars, fromBridge, late, stateVars, uiVars, got, attached>>
        /\ plan' \subseteq Addrs
    BY <1>0, <1>2 DEF StartRead, TypeOK
  <2>3. CASE Send("rvm", a) /\ want' = a
    <3>1. toBridge' \in Seq(Requests) /\ Reads(toBridge') = {Len(toBridge) + 1}
      <4>1. [kind |-> "rvm", arg |-> a] \in Requests /\ toBridge \in Seq(Requests)
        BY <1>0 DEF Requests, TypeOK
      <4>2. toBridge' = Append(toBridge, [kind |-> "rvm", arg |-> a])
        BY <2>3 DEF Send
      <4> QED
        BY <2>1, <4>1, <4>2, AppendReads
    <3>2. TypeOK'
      BY <1>0, <2>1, <2>2, <2>3, <3>1 DEF TypeOK
    <3>3. Reads(fromBridge') = {} /\ want' # None /\ got' = <<>>
      BY <2>1, <2>2, <2>3, SessionAssumption
    <3> QED
      BY <3>1, <3>2, <3>3 DEF ReadInv, OneRead
  <2>4. CASE UNCHANGED <<toBridge, want>>
    <3>1. TypeOK'
      BY <1>0, <2>2, <2>4 DEF TypeOK
    <3> QED
      BY <2>2, <2>4, <3>1, QuietRead
  <2> QED
    BY <1>2, <2>3, <2>4 DEF StartRead
<1>3. CASE FinishRead
  <2>1. UNCHANGED <<bridgeVars, queueVars, activeProcess, pid, needsRefresh, modules, owed, uiVars,
                    plan, attached>> /\ want' = None /\ got' = <<>>
    BY <1>3 DEF FinishRead
  <2>2. snapshots' \in [Addrs -> MaybeProc]
    BY <1>0, <1>3 DEF FinishRead, TypeOK
  <2>3. TypeOK'
    BY <1>0, <2>1, <2>2 DEF TypeOK
  <2>4. Reads(toBridge') = {} /\ Reads(fromBridge') = {}
    BY <1>0, <1>3, <2>1 DEF FinishRead, OneRead, Reads
  <2> QED
    BY <2>1, <2>3, <2>4 DEF ReadInv, OneRead
<1>4. CASE TimeOutRead
  <2>1. /\ toBridge' \in Seq(Requests) /\ Reads(toBridge') = {}
        /\ fromBridge' \in Seq(Answers) /\ Reads(fromBridge') = {}
    BY <1>0, <1>4, ForgottenProperties DEF TimeOutRead, TypeOK, OneRead
  <2>2. UNCHANGED <<bridgeVars, late, stateVars, uiVars, plan, got, attached>>
        /\ want' = None /\ got = <<>>
    BY <1>4 DEF TimeOutRead
  <2>3. TypeOK'
    BY <1>0, <2>1, <2>2 DEF TypeOK
  <2> QED
    BY <2>1, <2>3 DEF ReadInv, OneRead
<1> QED
  BY <1>1, <1>2, <1>3, <1>4 DEF MemoryStep

LEMMA HeadIsRead ==
  ASSUME NEW S, NEW q \in Seq(S), q # <<>>, \A i, j \in Reads(q) : i = j
  PROVE  /\ q[1] \in S /\ Tail(q) \in Seq(S)
         /\ \A i, j \in Reads(Tail(q)) : i = j
         /\ Reads(q) = {} => Reads(Tail(q)) = {}
         /\ q[1].kind = "rvm" => Reads(q) # {} /\ Reads(Tail(q)) = {}
<1>1. /\ Tail(q) \in Seq(S)
      /\ \A i \in Reads(Tail(q)) : i + 1 \in Reads(q) /\ i \in 1..(Len(q) - 1)
  BY TailReads
<1>2. Len(q) \in Nat \ {0} /\ DOMAIN q = 1..Len(q) /\ 1 \in DOMAIN q /\ q[1] \in S
  BY EmptySeq, LenProperties
<1>3. ASSUME NEW i \in Reads(Tail(q)), NEW j \in Reads(Tail(q)) PROVE i = j
  BY <1>1, <1>2
<1>4. ASSUME q[1].kind = "rvm" PROVE 1 \in Reads(q) /\ Reads(Tail(q)) = {}
  BY <1>1, <1>2, <1>4 DEF Reads
<1> QED
  BY <1>1, <1>2, <1>3, <1>4

LEMMA ReadServer == ReadInv /\ ServerStep => ReadInv'
<1> SUFFICES ASSUME ReadInv, ServerStep PROVE ReadInv'
  OBVIOUS
<1> USE DEF bridgeVars, queueVars, stateVars, uiVars, readVars
<1>0. TypeOK /\ OneRead /\ fromBridge \in Seq(Answers)
  BY DEF ReadInv, TypeOK
<1>1. CASE ProcessResponse
  <2>1. /\ fromBridge # <<>> /\ fromBridge' = Tail(fromBridge)
        /\ UNCHANGED <<bridgeVars, toBridge, late, needsRefresh, snapshots, uiVars, plan, want>>
    BY <1>1 DEF ProcessResponse
  <2>2. /\ fromBridge[1] \in Answers /\ fromBridge' \in Seq(Answers)
        /\ \A i, j \in Reads(fromBridge') : i = j
        /\ Reads(fromBridge) = {} => Reads(fromBridge') = {}
        /\ fromBridge[1].kind = "rvm" => Reads(fromBridge) # {} /\ Reads(fromBridge') = {}
    BY <1>0, <2>1, HeadIsRead DEF OneRead
  <2>3. fromBridge[1].from \in MaybeProc
    BY <2>2 DEF Answers
  <2>4. CASE AnswerRead
    <3>1. Reads(toBridge) = {} /\ want # None /\ Reads(fromBridge') = {}
      BY <1>0, <2>2, <2>4 DEF AnswerRead, OneRead
    <3>2. got' = <<fromBridge[1].from>> /\ UNCHANGED <<activeProcess, pid, attached, owed, modules>>
      BY <2>4 DEF AnswerRead
    <3>3. TypeOK'
      BY <1>0, <2>1, <2>2, <2>3, <3>1, <3>2 DEF TypeOK
    <3> QED
      BY <2>1, <3>1, <3>3 DEF ReadInv, OneRead
  <2>5. CASE AnswerRef \/ AnswerModules
    <3>1. /\ activeProcess' \in BOOLEAN /\ pid' \in MaybeProc /\ attached' \in BOOLEAN
          /\ owed' \in BOOLEAN /\ modules' \in MaybeProc /\ got' = got
      BY <1>0, <2>3, <2>5 DEF AnswerRef, AnswerModules, RefFailed, RefWorked, TypeOK
    <3>2. TypeOK'
      BY <1>0, <2>1, <2>2, <3>1 DEF TypeOK
    <3> QED
      BY <1>0, <2>1, <2>2, <3>1, <3>2 DEF ReadInv, OneRead
  <2> QED
    BY <1>1, <2>4, <2>5 DEF ProcessResponse
<1>2. CASE DropLateAnswer
  <2>1. /\ fromBridge # <<>> /\ fromBridge' = Tail(fromBridge) /\ late' \in 0..MaxLate
        /\ UNCHANGED <<bridgeVars, toBridge, stateVars, uiVars, readVars, attached>>
    BY <1>0, <1>2, SessionAssumption DEF DropLateAnswer, TypeOK
  <2>2. /\ fromBridge' \in Seq(Answers) /\ \A i, j \in Reads(fromBridge') : i = j
        /\ Reads(fromBridge) = {} => Reads(fromBridge') = {}
    BY <1>0, <2>1, HeadIsRead DEF OneRead
  <2>3. TypeOK'
    BY <1>0, <2>1, <2>2 DEF TypeOK
  <2> QED
    BY <1>0, <2>1, <2>2, <2>3 DEF ReadInv, OneRead
<1>3. CASE FinishAttach
  BY <1>0, <1>3, QuietRead DEF FinishAttach, TypeOK
<1> QED
  BY <1>1, <1>2, <1>3 DEF ServerStep

\* The bridge turns one request into one answer of the same kind.
LEMMA BridgeAnswers ==
  ASSUME TypeOK, WebsocketCallback
  PROVE  /\ toBridge # <<>> /\ toBridge' = Tail(toBridge) /\ gproc' \in MaybeProc
         /\ \E m \in Answers : /\ fromBridge' = Append(fromBridge, m)
                               /\ m.kind = toBridge[1].kind
                               /\ m.kind = "ref_process" => m.from = gproc'
                               /\ m.kind # "ref_process" => gproc' = gproc
<1>1. \A p : Outcomes(p) \subseteq {p, None} /\ (p \in Procs => Outcomes(p) \subseteq MaybeProc)
  BY DEF Outcomes, MaybeProc
<1>2. Outcomes(gproc) \subseteq MaybeProc /\ gproc \in MaybeProc
  BY <1>1 DEF TypeOK, MaybeProc
<1>3. toBridge # <<>> /\ toBridge[1] \in Requests
  BY HeadIsRead, EmptySeq, LenProperties DEF WebsocketCallback, TypeOK
<1>4. CASE HandleRefProcess
  <2>1. PICK p \in Outcomes(toBridge[1].arg) : gproc' = p /\ Reply("ref_process", p)
    BY <1>4 DEF HandleRefProcess
  <2>2. toBridge[1].arg \in Procs
    BY <1>3, <1>4 DEF HandleRefProcess, Requests
  <2>3. [kind |-> "ref_process", from |-> p] \in Answers
    BY <1>1, <2>1, <2>2 DEF Answers
  <2> QED
    BY <1>1, <1>3, <1>4, <2>1, <2>2, <2>3 DEF WebsocketCallback, HandleRefProcess, Reply
<1>5. CASE HandleRvm
  <2>1. PICK p \in MaybeProc : Reply("rvm", p)
    BY <1>2, <1>5 DEF HandleRvm, MaybeProc
  <2>2. [kind |-> "rvm", from |-> p] \in Answers
    BY DEF Answers
  <2> QED
    BY <1>2, <1>3, <1>5, <2>1, <2>2 DEF WebsocketCallback, HandleRvm, Reply
<1>6. CASE HandleGetModules
  <2>1. PICK p \in MaybeProc : Reply("get_modules", p)
    BY <1>2, <1>6 DEF HandleGetModules
  <2>2. [kind |-> "get_modules", from |-> p] \in Answers
    BY DEF Answers
  <2> QED
    BY <1>2, <1>3, <1>6, <2>1, <2>2 DEF WebsocketCallback, HandleGetModules, Reply
<1> QED
  BY <1>4, <1>5, <1>6 DEF WebsocketCallback

LEMMA ReadBridge == ReadInv /\ WebsocketCallback => ReadInv'
<1> SUFFICES ASSUME ReadInv, WebsocketCallback PROVE ReadInv'
  OBVIOUS
<1>0. TypeOK /\ OneRead /\ toBridge \in Seq(Requests) /\ fromBridge \in Seq(Answers)
  BY DEF ReadInv, TypeOK
<1>1. /\ toBridge # <<>> /\ toBridge' = Tail(toBridge) /\ gproc' \in MaybeProc
  BY <1>0, BridgeAnswers
<1>2. PICK m \in Answers : fromBridge' = Append(fromBridge, m) /\ m.kind = toBridge[1].kind
  BY <1>0, BridgeAnswers
<1>3. /\ toBridge' \in Seq(Requests)
      /\ \A i, j \in Reads(toBridge') : i = j
      /\ Reads(toBridge) = {} => Reads(toBridge') = {}
      /\ toBridge[1].kind = "rvm" => Reads(toBridge) # {} /\ Reads(toBridge') = {}
  BY <1>0, <1>1, HeadIsRead DEF OneRead
<1>4. /\ fromBridge' \in Seq(Answers)
      /\ m.kind # "rvm" => Reads(fromBridge') = Reads(fromBridge)
      /\ m.kind = "rvm" => Reads(fromBridge') = Reads(fromBridge) \cup {Len(fromBridge) + 1}
  BY <1>0, <1>2, AppendReads
<1>5. UNCHANGED <<alive, connected, conns, late, stateVars, uiVars, readVars, attached>>
  BY DEF WebsocketCallback
<1>6. TypeOK'
  BY <1>0, <1>1, <1>3, <1>4, <1>5 DEF TypeOK, stateVars, uiVars, readVars
<1>7. OneRead'
  <2>1. CASE m.kind = "rvm"
    <3>1. Reads(toBridge') = {} /\ Reads(fromBridge) = {} /\ want # None /\ got = <<>>
      BY <1>0, <1>2, <1>3, <2>1 DEF OneRead
    <3> QED
      BY <1>4, <1>5, <2>1, <3>1 DEF OneRead, readVars
  <2>2. CASE m.kind # "rvm"
    BY <1>0, <1>3, <1>4, <1>5, <2>2 DEF OneRead, readVars
  <2> QED
    BY <2>1, <2>2
<1> QED
  BY <1>6, <1>7 DEF ReadInv

LEMMA ReadLink ==
  ASSUME ReadInv, Disconnect \/ Connect \/ (\E p \in Procs : Exit(p))
  PROVE  ReadInv'
<1> USE DEF bridgeVars, queueVars, stateVars, uiVars, readVars
<1>0. TypeOK
  BY DEF ReadInv
<1>1. CASE Disconnect \/ Connect
  <2>1. /\ toBridge' = <<>> /\ fromBridge' = <<>>
        /\ UNCHANGED <<alive, late, stateVars, uiVars, readVars, attached>>
        /\ gproc' \in MaybeProc /\ connected' \in BOOLEAN /\ conns' \in 0..MaxConnects
    <3>1. CASE Disconnect
      BY <1>0, <3>1 DEF Disconnect, TypeOK
    <3>2. CASE Connect
      <4>1. conns' \in 0..MaxConnects
        BY <1>0, <3>2, SessionAssumption DEF Connect, TypeOK
      <4> QED
        BY <3>2, <4>1 DEF Connect, MaybeProc
    <3> QED
      BY <1>1, <3>1, <3>2
  <2>2. Reads(toBridge') = {} /\ Reads(fromBridge') = {}
    BY <2>1 DEF Reads
  <2>3. TypeOK'
    BY <1>0, <2>1, EmptySeq DEF TypeOK
  <2> QED
    BY <2>2, <2>3 DEF ReadInv, OneRead
<1>2. ASSUME NEW p \in Procs, Exit(p) PROVE ReadInv'
  BY <1>0, <1>2, QuietRead DEF Exit, TypeOK
<1> QED
  BY <1>1, <1>2

LEMMA ReadStep == ReadInv /\ [Next]_vars => ReadInv'
  BY ReadStutter, ReadUi, ReadMemory, ReadServer, ReadBridge, ReadLink DEF Next

LEMMA ReadAlways == Spec => []ReadInv
  BY ReadInit, ReadStep, PTL DEF Spec

\* Every variable keeps its type, and a promise is only ever set for the read that
\* waits for it (read_blocking).
THEOREM SessionTypes == Spec => []TypeOK
<1>1. ReadInv => TypeOK
  BY DEF ReadInv
<1> QED
  BY <1>1, ReadAlways, PTL

-----------------------------------------------------------------------------
(* ImClass and the bridge agree on the process *)

LEMMA AgreeInit == Init => AgreeInv
  BY DEF Init, AgreeInv, LastAnswerTrue, Connected, AttachAgrees

\* A step that leaves the answers, the connection and both processes alone.
LEMMA QuietAgree ==
  ASSUME AgreeInv, UNCHANGED <<fromBridge, late, connected, conns, gproc, activeProcess, pid>>
  PROVE  AgreeInv'
  BY DEF AgreeInv, LastAnswerTrue, Connected, AttachAgrees, Among

LEMMA AgreeUi == AgreeInv /\ UiStep => AgreeInv'
<1> SUFFICES ASSUME AgreeInv, UiStep PROVE AgreeInv'
  OBVIOUS
<1> USE DEF bridgeVars, queueVars, stateVars
<1>1. CASE TopOfFrame \/ ClearFlag \/ EndRender
  BY <1>1, QuietAgree DEF TopOfFrame, ClearFlag, EndRender
<1>2. CASE RefreshModules \/ ClickRefresh
  BY <1>2, QuietAgree DEF RefreshModules, ClickRefresh, GetModules
<1>3. CASE CheckProcess
  <2>1. UNCHANGED <<fromBridge, late, connected, conns, gproc>>
    BY <1>3 DEF CheckProcess
  <2>2. activeProcess' = FALSE \/ UNCHANGED <<activeProcess, pid>>
    BY <1>3 DEF CheckProcess
  <2> QED
    BY <2>1, <2>2 DEF AgreeInv, LastAnswerTrue, Connected, AttachAgrees, Among
<1>4. ASSUME NEW p \in Procs, ClickAttach(p) PROVE AgreeInv'
  BY <1>4, QuietAgree DEF ClickAttach
<1>5. ASSUME NEW S \in SUBSET Addrs, ShowAddresses(S) PROVE AgreeInv'
  BY <1>5, QuietAgree DEF ShowAddresses
<1> QED
  BY <1>1, <1>2, <1>3, <1>4, <1>5 DEF UiStep

\* The read that timed out is no answer about an attachment: taking it out moves the
\* others, in their order.
LEMMA AgreeTimeOut == ReadInv /\ AgreeInv /\ TimeOutRead => AgreeInv'
<1> SUFFICES ASSUME ReadInv, AgreeInv, TimeOutRead PROVE AgreeInv'
  OBVIOUS
<1>1. UNCHANGED <<late, connected, conns, gproc, activeProcess, pid>>
  BY DEF TimeOutRead, bridgeVars, stateVars
<1>2. /\ fromBridge \in Seq(Answers) /\ fromBridge' \in Seq(Answers)
      /\ \/ fromBridge' = fromBridge
         \/ \E i \in Reads(fromBridge) :
              /\ Len(fromBridge') = Len(fromBridge) - 1
              /\ \A j \in 1..Len(fromBridge') :
                   fromBridge'[j] = IF j < i THEN fromBridge[j] ELSE fromBridge[j + 1]
  BY ForgottenProperties DEF TimeOutRead, ReadInv, TypeOK, OneRead
<1>3. CASE fromBridge' = fromBridge
  BY <1>1, <1>3, QuietAgree
<1>4. CASE ~(fromBridge' = fromBridge)
  <2>1. PICK i \in Reads(fromBridge) :
          /\ Len(fromBridge') = Len(fromBridge) - 1
          /\ \A j \in 1..Len(fromBridge') :
               fromBridge'[j] = IF j < i THEN fromBridge[j] ELSE fromBridge[j + 1]
    BY <1>2, <1>4
  <2>2. /\ DOMAIN fromBridge = 1..Len(fromBridge) /\ Len(fromBridge) \in Nat
        /\ DOMAIN fromBridge' = 1..Len(fromBridge')
        /\ i \in 1..Len(fromBridge) /\ fromBridge[i].kind = "rvm"
    BY <1>2, LenProperties DEF Reads
  <2>3. ASSUME NEW j \in DOMAIN fromBridge, fromBridge[j].kind = "ref_process"
        PROVE  \E k \in DOMAIN fromBridge' : /\ fromBridge'[k] = fromBridge[j]
                                            /\ k = IF j < i THEN j ELSE j - 1
    <3>1. j # i
      BY <2>2, <2>3
    <3>2. CASE j < i
      <4>1. j \in 1..Len(fromBridge') /\ fromBridge'[j] = fromBridge[j]
        BY <2>1, <2>2, <3>2
      <4> QED
        BY <2>2, <3>2, <4>1
    <3>3. CASE j > i
      <4>1. j - 1 \in 1..Len(fromBridge') /\ ~(j - 1 < i) /\ (j - 1) + 1 = j /\ ~(j < i)
        BY <2>1, <2>2, <3>3
      <4>2. fromBridge'[j - 1] = fromBridge[(j - 1) + 1]
        BY <2>1, <4>1
      <4> QED
        BY <2>2, <4>1, <4>2
    <3> QED
      BY <2>2, <3>1, <3>2, <3>3
  <2>4. ASSUME NEW k \in DOMAIN fromBridge', fromBridge'[k].kind = "ref_process"
        PROVE  \E j \in DOMAIN fromBridge : /\ fromBridge[j] = fromBridge'[k]
                                           /\ j = IF k < i THEN k ELSE k + 1
    <3>1. CASE k < i
      BY <2>1, <2>2, <3>1
    <3>2. CASE ~(k < i)
      <4>1. k + 1 \in 1..Len(fromBridge)
        BY <2>1, <2>2
      <4> QED
        BY <2>1, <2>2, <3>2, <4>1
    <3> QED
      BY <3>1, <3>2
  <2>5. Among(fromBridge, "ref_process") => Among(fromBridge', "ref_process")
    BY <2>3 DEF Among
  <2>6. AttachAgrees'
    BY <1>1, <2>5 DEF AgreeInv, AttachAgrees, Among
  <2>7. Connected'
    BY <1>1, <1>2, <2>1, <2>2 DEF AgreeInv, Connected
  <2>8. LastAnswerTrue'
    <3> SUFFICES ASSUME connected, late = 0, NEW k \in DOMAIN fromBridge',
                        fromBridge'[k].kind = "ref_process",
                        \A l \in DOMAIN fromBridge' :
                          fromBridge'[l].kind = "ref_process" => l <= k
                 PROVE  fromBridge'[k].from = gproc
      BY <1>1 DEF LastAnswerTrue
    <3>1. PICK j \in DOMAIN fromBridge : /\ fromBridge[j] = fromBridge'[k]
                                         /\ j = IF k < i THEN k ELSE k + 1
      BY <2>4
    <3>2. ASSUME NEW l \in DOMAIN fromBridge, fromBridge[l].kind = "ref_process" PROVE l <= j
      <4>1. PICK n \in DOMAIN fromBridge' : /\ fromBridge'[n] = fromBridge[l]
                                            /\ n = IF l < i THEN l ELSE l - 1
        BY <2>3, <3>2
      <4>2. n <= k
        BY <3>2, <4>1
      <4> QED
        BY <2>2, <3>1, <3>2, <4>1, <4>2
    <3> QED
      BY <3>1, <3>2 DEF AgreeInv, LastAnswerTrue
  <2> QED
    BY <2>6, <2>7, <2>8 DEF AgreeInv
<1> QED
  BY <1>3, <1>4

LEMMA AgreeMemory == ReadInv /\ AgreeInv /\ MemoryStep => AgreeInv'
<1> SUFFICES ASSUME ReadInv, AgreeInv, MemoryStep PROVE AgreeInv'
  OBVIOUS
<1> USE DEF bridgeVars, queueVars, stateVars
<1>1. CASE CollectReads \/ FinishRead
  BY <1>1, QuietAgree DEF CollectReads, FinishRead
<1>2. ASSUME NEW a \in Addrs, StartRead(a) PROVE AgreeInv'
  BY <1>2, QuietAgree DEF StartRead
<1> QED
  BY <1>1, <1>2, AgreeTimeOut DEF MemoryStep

\* An answer is taken from the queue: the last one about an attachment is either
\* still there or was the one taken.
LEMMA AgreeServer == ReadInv /\ AgreeInv /\ ServerStep => AgreeInv'
<1> SUFFICES ASSUME ReadInv, AgreeInv, ServerStep PROVE AgreeInv'
  OBVIOUS
<1> USE DEF bridgeVars, stateVars
<1>0. fromBridge \in Seq(Answers) /\ late \in Nat /\ conns \in Nat
  BY SessionAssumption DEF ReadInv, TypeOK
<1>1. CASE ProcessResponse
  <2>1. /\ fromBridge # <<>> /\ fromBridge' = Tail(fromBridge)
        /\ UNCHANGED <<gproc, connected, conns, late>>
    BY <1>1 DEF ProcessResponse
  <2>2. /\ DOMAIN fromBridge = 1..Len(fromBridge) /\ Len(fromBridge) \in Nat \ {0}
        /\ DOMAIN fromBridge' = 1..(Len(fromBridge) - 1)
        /\ \A i \in DOMAIN fromBridge' : fromBridge'[i] = fromBridge[i + 1]
    BY <1>0, <2>1, HeadTailProperties, LenProperties, EmptySeq
  <2>3. \A j \in DOMAIN fromBridge : j = 1 \/ (j - 1 \in DOMAIN fromBridge'
                                              /\ fromBridge'[j - 1] = fromBridge[j])
    <3> SUFFICES ASSUME NEW j \in DOMAIN fromBridge, j # 1
                 PROVE  j - 1 \in DOMAIN fromBridge' /\ fromBridge'[j - 1] = fromBridge[j]
      OBVIOUS
    <3>1. j - 1 \in DOMAIN fromBridge' /\ (j - 1) + 1 = j
      BY <2>2
    <3> QED
      BY <2>2, <3>1
  <2>4. LastAnswerTrue'
    <3> SUFFICES ASSUME connected, late = 0, NEW k \in DOMAIN fromBridge',
                        fromBridge'[k].kind = "ref_process",
                        \A l \in DOMAIN fromBridge' :
                          fromBridge'[l].kind = "ref_process" => l <= k
                 PROVE  fromBridge'[k].from = gproc
      BY <2>1 DEF LastAnswerTrue
    <3>1. k + 1 \in DOMAIN fromBridge /\ fromBridge[k + 1] = fromBridge'[k]
      BY <2>2
    <3>2. ASSUME NEW l \in DOMAIN fromBridge, fromBridge[l].kind = "ref_process"
          PROVE  l <= k + 1
      <4>1. CASE l = 1
        BY <2>2, <4>1
      <4>2. CASE l - 1 \in DOMAIN fromBridge' /\ fromBridge'[l - 1] = fromBridge[l]
        BY <2>2, <3>2, <4>2
      <4> QED
        BY <2>3, <4>1, <4>2
    <3> QED
      BY <3>1, <3>2 DEF AgreeInv, LastAnswerTrue
  <2>5. Connected'
    BY <2>1 DEF AgreeInv, Connected
  <2>6. AttachAgrees'
    <3> SUFFICES ASSUME connected, activeProcess', late = 0, ~Among(fromBridge', "ref_process")
                 PROVE  gproc = pid' \/ (gproc = None /\ conns > 1)
      BY <2>1 DEF AttachAgrees, Among
    <3>1. \A j \in DOMAIN fromBridge : fromBridge[j].kind = "ref_process" => j = 1
      BY <2>3 DEF Among
    <3>2. CASE AnswerRef
      <4>1. fromBridge[1].kind = "ref_process" /\ pid' = fromBridge[1].from
        BY <3>2 DEF AnswerRef, RefFailed, RefWorked
      <4>2. fromBridge[1].from = gproc
        BY <2>2, <3>1, <4>1 DEF AgreeInv, LastAnswerTrue
      <4> QED
        BY <4>1, <4>2
    <3>3. CASE AnswerModules \/ AnswerRead
      <4>1. fromBridge[1].kind # "ref_process" /\ UNCHANGED <<activeProcess, pid>>
        BY <3>3 DEF AnswerModules, AnswerRead
      <4>2. ~Among(fromBridge, "ref_process")
        BY <3>1, <4>1 DEF Among
      <4> QED
        BY <4>1, <4>2 DEF AgreeInv, AttachAgrees
    <3> QED
      BY <1>1, <3>2, <3>3 DEF ProcessResponse
  <2> QED
    BY <2>4, <2>5, <2>6 DEF AgreeInv
<1>2. CASE DropLateAnswer
  <2>1. late' # 0 /\ fromBridge # <<>> /\ UNCHANGED <<connected, conns, activeProcess>>
    BY <1>0, <1>2 DEF DropLateAnswer
  <2> QED
    BY <2>1 DEF AgreeInv, LastAnswerTrue, Connected, AttachAgrees
<1>3. CASE FinishAttach
  BY <1>3, QuietAgree DEF FinishAttach, queueVars
<1> QED
  BY <1>1, <1>2, <1>3 DEF ServerStep

\* The bridge answers: about an attachment it tells what it looks at from now on.
LEMMA AgreeBridge == ReadInv /\ AgreeInv /\ WebsocketCallback => AgreeInv'
<1> SUFFICES ASSUME ReadInv, AgreeInv, WebsocketCallback PROVE AgreeInv'
  OBVIOUS
<1>0. fromBridge \in Seq(Answers) /\ TypeOK
  BY DEF ReadInv, TypeOK
<1>1. PICK m \in Answers : /\ fromBridge' = Append(fromBridge, m)
                           /\ m.kind = "ref_process" => m.from = gproc'
                           /\ m.kind # "ref_process" => gproc' = gproc
  BY <1>0, BridgeAnswers
<1>2. connected /\ UNCHANGED <<connected, conns, late, activeProcess, pid>>
  BY DEF WebsocketCallback, stateVars
<1>3. /\ DOMAIN fromBridge = 1..Len(fromBridge) /\ Len(fromBridge) \in Nat
      /\ DOMAIN fromBridge' = 1..(Len(fromBridge) + 1)
      /\ \A i \in DOMAIN fromBridge : fromBridge'[i] = fromBridge[i]
      /\ fromBridge'[Len(fromBridge) + 1] = m
  BY <1>0, <1>1, AppendProperties, LenProperties
<1>4. Connected'
  BY <1>2 DEF AgreeInv, Connected
<1>5. CASE m.kind = "ref_process"
  <2>1. Among(fromBridge', "ref_process")
    BY <1>3, <1>5 DEF Among
  <2>2. LastAnswerTrue'
    BY <1>1, <1>3, <1>5 DEF LastAnswerTrue
  <2> QED
    BY <1>4, <2>1, <2>2 DEF AgreeInv, AttachAgrees, Among
<1>6. CASE m.kind # "ref_process"
  <2>1. Among(fromBridge, "ref_process") => Among(fromBridge', "ref_process")
    BY <1>3 DEF Among
  <2>2. AttachAgrees'
    BY <1>1, <1>2, <1>6, <2>1 DEF AgreeInv, AttachAgrees, Among
  <2>3. LastAnswerTrue'
    BY <1>1, <1>2, <1>3, <1>6 DEF AgreeInv, LastAnswerTrue
  <2> QED
    BY <1>4, <2>2, <2>3 DEF AgreeInv
<1> QED
  BY <1>5, <1>6

LEMMA AgreeLink ==
  ASSUME ReadInv, AgreeInv, Disconnect \/ Connect \/ (\E p \in Procs : Exit(p))
  PROVE  AgreeInv'
<1> USE DEF stateVars, queueVars
<1>1. CASE Disconnect
  BY <1>1 DEF Disconnect, AgreeInv, LastAnswerTrue, Connected, AttachAgrees
<1>2. CASE Connect
  <2>1. /\ fromBridge' = <<>> /\ gproc' = None /\ conns \in Nat /\ conns' = conns + 1
        /\ activeProcess' = activeProcess
    BY <1>2, SessionAssumption DEF Connect, ReadInv, TypeOK
  <2>2. activeProcess => conns > 0
    BY DEF AgreeInv, Connected
  <2> QED
    BY <2>1, <2>2 DEF AgreeInv, LastAnswerTrue, Connected, AttachAgrees
<1>3. ASSUME NEW p \in Procs, Exit(p) PROVE AgreeInv'
  BY <1>3, QuietAgree DEF Exit
<1> QED
  BY <1>1, <1>2, <1>3

LEMMA AgreeStep == ReadInv /\ AgreeInv /\ [Next]_vars => AgreeInv'
<1>1. ASSUME AgreeInv, UNCHANGED vars PROVE AgreeInv'
  BY <1>1, QuietAgree DEF vars, bridgeVars, queueVars, stateVars
<1> QED
  BY <1>1, AgreeUi, AgreeMemory, AgreeServer, AgreeBridge, AgreeLink DEF Next

\* Once no answer about an attachment is on its way, ImClass names the process the
\* bridge reads from, or the bridge has forgotten it (initProcessByName,
\* handle_ref_process).
THEOREM AttachConsistent == Spec => []AttachAgrees
<1>1. AgreeInv => AttachAgrees
  BY DEF AgreeInv
<1> QED
  BY <1>1, AgreeInit, AgreeStep, ReadAlways, PTL DEF Spec

-----------------------------------------------------------------------------
(* The module list follows the attached process *)

\* The last message of a kind in the queue is from p.
LastIs(q, kind, p) ==
  \A i \in DOMAIN q :
    (q[i].kind = kind /\ \A j \in DOMAIN q : q[j].kind = kind => j <= i) => q[i].from = p

\* The conditions of ModulesFollow but for a list under way.
Settled ==
  /\ ~BridgeMayFail /\ alive = Procs /\ late = 0 /\ conns = 1 /\ connected
  /\ activeProcess /\ ~owed /\ ~InFlight("ref_process")

\* A list asked for since the last attachment is the attached process's, on its way
\* or in place.
ListFollows ==
  Settled /\ ~Among(toBridge, "get_modules") =>
    /\ LastIs(fromBridge, "get_modules", pid)
    /\ ~Among(fromBridge, "get_modules") => modules = pid

ProcessNamed == activeProcess => pid # None

FollowInv == ProcessNamed /\ ListFollows

LEMMA AppendAmong ==
  ASSUME NEW S, NEW q \in Seq(S), NEW m \in S, NEW kind
  PROVE  /\ Among(Append(q, m), kind) <=> Among(q, kind) \/ m.kind = kind
         /\ \A p : m.kind = kind /\ m.from = p => LastIs(Append(q, m), kind, p)
         /\ \A p : m.kind # kind /\ LastIs(q, kind, p) => LastIs(Append(q, m), kind, p)
<1>1. /\ DOMAIN q = 1..Len(q) /\ Len(q) \in Nat
      /\ DOMAIN Append(q, m) = 1..(Len(q) + 1)
      /\ \A i \in 1..Len(q) : Append(q, m)[i] = q[i]
      /\ Append(q, m)[Len(q) + 1] = m
  BY AppendProperties, LenProperties
<1>2. DOMAIN Append(q, m) = DOMAIN q \cup {Len(q) + 1}
  BY <1>1
<1>3. Among(Append(q, m), kind) <=> Among(q, kind) \/ m.kind = kind
  BY <1>1, <1>2 DEF Among
<1>4. ASSUME NEW p, m.kind = kind, m.from = p PROVE LastIs(Append(q, m), kind, p)
  <2> SUFFICES ASSUME NEW i \in DOMAIN Append(q, m),
                      \A j \in DOMAIN Append(q, m) : Append(q, m)[j].kind = kind => j <= i
               PROVE  Append(q, m)[i].from = p
    BY DEF LastIs
  <2>1. i = Len(q) + 1
    BY <1>1, <1>4
  <2> QED
    BY <1>1, <1>4, <2>1
<1>5. ASSUME NEW p, m.kind # kind, LastIs(q, kind, p) PROVE LastIs(Append(q, m), kind, p)
  <2> SUFFICES ASSUME NEW i \in DOMAIN Append(q, m), Append(q, m)[i].kind = kind,
                      \A j \in DOMAIN Append(q, m) : Append(q, m)[j].kind = kind => j <= i
               PROVE  Append(q, m)[i].from = p
    BY DEF LastIs
  <2>1. i \in DOMAIN q /\ q[i] = Append(q, m)[i]
    BY <1>1, <1>2, <1>5
  <2>2. \A j \in DOMAIN q : q[j].kind = kind => j <= i
    BY <1>1, <1>2
  <2> QED
    BY <1>5, <2>1, <2>2 DEF LastIs
<1> QED
  BY <1>3, <1>4, <1>5

LEMMA TailAmong ==
  ASSUME NEW S, NEW q \in Seq(S), q # <<>>, NEW kind
  PROVE  /\ q[1].kind # kind => (Among(Tail(q), kind) <=> Among(q, kind))
         /\ \A p : LastIs(q, kind, p) =>
              /\ LastIs(Tail(q), kind, p)
              /\ q[1].kind = kind /\ ~Among(Tail(q), kind) => q[1].from = p
<1>1. /\ DOMAIN q = 1..Len(q) /\ Len(q) \in Nat \ {0}
      /\ DOMAIN Tail(q) = 1..(Len(q) - 1)
      /\ \A i \in 1..(Len(q) - 1) : Tail(q)[i] = q[i + 1]
  BY HeadTailProperties, LenProperties, EmptySeq
<1>2. ASSUME NEW j \in DOMAIN q
      PROVE  j = 1 \/ (j - 1 \in DOMAIN Tail(q) /\ Tail(q)[j - 1] = q[j])
  <2>1. j = 1 \/ (j - 1 \in 1..(Len(q) - 1) /\ (j - 1) + 1 = j)
    BY <1>1
  <2> QED
    BY <1>1, <2>1
<1>3. \A i \in DOMAIN Tail(q) : i + 1 \in DOMAIN q /\ Tail(q)[i] = q[i + 1]
  BY <1>1
<1>4. q[1].kind # kind => (Among(Tail(q), kind) <=> Among(q, kind))
  BY <1>2, <1>3 DEF Among
<1>5. ASSUME NEW p, LastIs(q, kind, p)
      PROVE  /\ LastIs(Tail(q), kind, p)
             /\ q[1].kind = kind /\ ~Among(Tail(q), kind) => q[1].from = p
  <2>1. LastIs(Tail(q), kind, p)
    <3> SUFFICES ASSUME NEW i \in DOMAIN Tail(q), Tail(q)[i].kind = kind,
                        \A j \in DOMAIN Tail(q) : Tail(q)[j].kind = kind => j <= i
                 PROVE  Tail(q)[i].from = p
      BY DEF LastIs
    <3>1. ASSUME NEW j \in DOMAIN q, q[j].kind = kind PROVE j <= i + 1
      <4>1. CASE j = 1
        BY <1>1, <4>1
      <4>2. CASE j - 1 \in DOMAIN Tail(q) /\ Tail(q)[j - 1] = q[j]
        <5>1. j - 1 <= i
          BY <3>1, <4>2
        <5> QED
          BY <1>1, <5>1
      <4> QED
        BY <1>2, <4>1, <4>2
    <3> QED
      BY <1>3, <1>5, <3>1 DEF LastIs
  <2>2. ASSUME q[1].kind = kind, ~Among(Tail(q), kind) PROVE q[1].from = p
    <3>1. \A j \in DOMAIN q : q[j].kind = kind => j = 1
      BY <1>2, <2>2 DEF Among
    <3> QED
      BY <1>1, <1>5, <2>2, <3>1 DEF LastIs
  <2> QED
    BY <2>1, <2>2
<1> QED
  BY <1>4, <1>5

\* A read that is taken out is no message of another kind.
LEMMA ForgottenAmong ==
  ASSUME NEW S, NEW q \in Seq(S), NEW qn \in Seq(S), NEW i \in Reads(q),
         Len(qn) = Len(q) - 1,
         \A j \in 1..Len(qn) : qn[j] = IF j < i THEN q[j] ELSE q[j + 1],
         NEW kind, kind # "rvm"
  PROVE  /\ Among(qn, kind) <=> Among(q, kind)
         /\ \A p : LastIs(q, kind, p) => LastIs(qn, kind, p)
<1>1. /\ DOMAIN q = 1..Len(q) /\ Len(q) \in Nat /\ DOMAIN qn = 1..Len(qn)
      /\ i \in 1..Len(q) /\ q[i].kind = "rvm"
  BY LenProperties DEF Reads
<1>2. ASSUME NEW j \in DOMAIN q, q[j].kind = kind
      PROVE  \E k \in DOMAIN qn : qn[k] = q[j] /\ k = IF j < i THEN j ELSE j - 1
  <2>1. j # i
    BY <1>1, <1>2
  <2>2. CASE j < i
    BY <1>1, <2>2
  <2>3. CASE j > i
    <3>1. j - 1 \in 1..Len(qn) /\ ~(j - 1 < i) /\ (j - 1) + 1 = j /\ ~(j < i)
      BY <1>1, <2>3
    <3>2. qn[j - 1] = q[(j - 1) + 1]
      BY <3>1
    <3> QED
      BY <1>1, <3>1, <3>2
  <2> QED
    BY <1>1, <2>1, <2>2, <2>3
<1>3. ASSUME NEW k \in DOMAIN qn
      PROVE  \E j \in DOMAIN q : q[j] = qn[k] /\ j = IF k < i THEN k ELSE k + 1
  <2>1. CASE k < i
    BY <1>1, <2>1
  <2>2. CASE ~(k < i)
    BY <1>1, <2>2
  <2> QED
    BY <2>1, <2>2
<1>4. Among(qn, kind) <=> Among(q, kind)
  BY <1>2, <1>3 DEF Among
<1>5. ASSUME NEW p, LastIs(q, kind, p) PROVE LastIs(qn, kind, p)
  <2> SUFFICES ASSUME NEW k \in DOMAIN qn, qn[k].kind = kind,
                      \A l \in DOMAIN qn : qn[l].kind = kind => l <= k
               PROVE  qn[k].from = p
    BY DEF LastIs
  <2>1. PICK j \in DOMAIN q : q[j] = qn[k] /\ j = IF k < i THEN k ELSE k + 1
    BY <1>3
  <2>2. ASSUME NEW l \in DOMAIN q, q[l].kind = kind PROVE l <= j
    <3>1. PICK n \in DOMAIN qn : qn[n] = q[l] /\ n = IF l < i THEN l ELSE l - 1
      BY <1>2, <2>2
    <3>2. n <= k
      BY <2>2, <3>1
    <3> QED
      BY <1>1, <2>1, <2>2, <3>1, <3>2
  <2> QED
    BY <1>5, <2>1, <2>2 DEF LastIs
<1> QED
  BY <1>4, <1>5

LEMMA FollowInit == Init => FollowInv
  BY DEF Init, FollowInv, ProcessNamed, ListFollows, Settled

\* A step that leaves the queues, the attachment and the list alone.
LEMMA QuietFollow ==
  ASSUME FollowInv, UNCHANGED <<alive, late, connected, conns, activeProcess, pid, modules, owed>>,
         UNCHANGED <<toBridge, fromBridge>>
  PROVE  FollowInv'
  BY DEF FollowInv, ProcessNamed, ListFollows, Settled, InFlight, Among, LastIs

\* A step after which the list is still to come, or nothing is promised.
LEMMA Unsettled ==
  ASSUME FollowInv, activeProcess' => pid' # None,
         ~Settled' \/ Among(toBridge', "get_modules")
  PROVE  FollowInv'
  BY DEF FollowInv, ProcessNamed, ListFollows

LEMMA FollowUi == ReadInv /\ FollowInv /\ UiStep => FollowInv'
<1> SUFFICES ASSUME ReadInv, FollowInv, UiStep PROVE FollowInv'
  OBVIOUS
<1> USE DEF bridgeVars, queueVars, stateVars
<1>0. toBridge \in Seq(Requests) /\ (activeProcess => pid # None)
  BY DEF ReadInv, TypeOK, FollowInv, ProcessNamed
<1>1. CASE TopOfFrame \/ ClearFlag \/ EndRender
  BY <1>1, QuietFollow DEF TopOfFrame, ClearFlag, EndRender
<1>2. CASE RefreshModules \/ ClickRefresh
  <2>1. UNCHANGED <<connected, activeProcess, pid>>
    BY <1>2 DEF RefreshModules, ClickRefresh, GetModules
  <2>2. CASE connected /\ activeProcess /\ Send("get_modules", None)
    <3>1. toBridge' = Append(toBridge, [kind |-> "get_modules", arg |-> None])
          /\ [kind |-> "get_modules", arg |-> None] \in Requests
      BY <2>2 DEF Send, Requests
    <3>2. Among(toBridge', "get_modules")
      BY <1>0, <3>1, AppendAmong
    <3> QED
      BY <1>0, <2>1, <3>2, Unsettled
  <2>3. CASE ~(connected /\ activeProcess)
    <3>1. ~Settled'
      BY <2>1, <2>3 DEF Settled
    <3> QED
      BY <1>0, <2>1, <3>1, Unsettled
  <2> QED
    BY <1>2, <2>2, <2>3 DEF RefreshModules, ClickRefresh, GetModules
<1>3. CASE CheckProcess
  <2>1. CASE activeProcess' = FALSE
    <3>1. ~Settled'
      BY <2>1 DEF Settled
    <3> QED
      BY <2>1, <3>1, Unsettled
  <2>2. CASE UNCHANGED <<modules, pid, activeProcess, snapshots>>
    BY <1>3, <2>2, QuietFollow DEF CheckProcess
  <2> QED
    BY <1>3, <2>1, <2>2 DEF CheckProcess
<1>4. ASSUME NEW p \in Procs, ClickAttach(p) PROVE FollowInv'
  <2>1. toBridge' = Append(toBridge, [kind |-> "ref_process", arg |-> p])
        /\ [kind |-> "ref_process", arg |-> p] \in Requests /\ UNCHANGED <<activeProcess, pid>>
    BY <1>4 DEF ClickAttach, Send, Requests
  <2>2. Among(toBridge', "ref_process")
    BY <1>0, <2>1, AppendAmong
  <2>3. ~Settled'
    BY <2>2 DEF Settled, InFlight, Among
  <2> QED
    BY <1>0, <2>1, <2>3, Unsettled
<1>5. ASSUME NEW S \in SUBSET Addrs, ShowAddresses(S) PROVE FollowInv'
  BY <1>5, QuietFollow DEF ShowAddresses
<1> QED
  BY <1>1, <1>2, <1>3, <1>4, <1>5 DEF UiStep

\* Reads come and go between the other messages.
LEMMA FollowReads ==
  ASSUME FollowInv, UNCHANGED <<alive, late, connected, conns, activeProcess, pid, modules, owed>>,
         \A kind \in {"ref_process", "get_modules"} :
           /\ Among(toBridge', kind) <=> Among(toBridge, kind)
           /\ Among(fromBridge', kind) <=> Among(fromBridge, kind)
           /\ LastIs(fromBridge, kind, pid) => LastIs(fromBridge', kind, pid)
  PROVE  FollowInv'
<1>1. Settled' => Settled
  <2>1. InFlight("ref_process") => Among(toBridge', "ref_process") \/ Among(fromBridge', "ref_process")
    BY DEF InFlight
  <2> QED
    BY <2>1 DEF Settled, InFlight, Among
<1>2. ASSUME Settled', ~Among(toBridge', "get_modules")
      PROVE  /\ LastIs(fromBridge', "get_modules", pid)
             /\ ~Among(fromBridge', "get_modules") => modules = pid
  BY <1>1, <1>2 DEF FollowInv, ListFollows
<1>3. ListFollows'
  BY <1>2 DEF ListFollows, Among, LastIs
<1> QED
  BY <1>3 DEF FollowInv, ProcessNamed

LEMMA FollowMemory == ReadInv /\ FollowInv /\ MemoryStep => FollowInv'
<1> SUFFICES ASSUME ReadInv, FollowInv, MemoryStep PROVE FollowInv'
  OBVIOUS
<1> USE DEF bridgeVars, queueVars, stateVars
<1>0. toBridge \in Seq(Requests) /\ fromBridge \in Seq(Answers) /\ OneRead
  BY DEF ReadInv, TypeOK
<1>1. CASE CollectReads \/ FinishRead
  BY <1>1, QuietFollow DEF CollectReads, FinishRead
<1>2. ASSUME NEW a \in Addrs, StartRead(a) PROVE FollowInv'
  <2>1. UNCHANGED <<bridgeVars, fromBridge, late, stateVars>>
    BY <1>2 DEF StartRead
  <2>2. CASE Send("rvm", a)
    <3>1. toBridge' = Append(toBridge, [kind |-> "rvm", arg |-> a])
          /\ [kind |-> "rvm", arg |-> a] \in Requests
      BY <2>2 DEF Send, Requests
    <3>2. \A kind \in {"ref_process", "get_modules"} : Among(toBridge', kind) <=> Among(toBridge, kind)
      BY <1>0, <3>1, AppendAmong
    <3> QED
      BY <2>1, <3>2, FollowReads
  <2>3. CASE UNCHANGED toBridge
    BY <2>1, <2>3, QuietFollow
  <2> QED
    BY <1>2, <2>2, <2>3 DEF StartRead
<1>3. CASE TimeOutRead
  <2>1. UNCHANGED <<bridgeVars, late, stateVars>>
    BY <1>3 DEF TimeOutRead
  <2>2. ASSUME NEW kind \in {"ref_process", "get_modules"}
        PROVE  /\ Among(toBridge', kind) <=> Among(toBridge, kind)
               /\ Among(fromBridge', kind) <=> Among(fromBridge, kind)
               /\ LastIs(fromBridge, kind, pid) => LastIs(fromBridge', kind, pid)
    <3>1. Among(toBridge', kind) <=> Among(toBridge, kind)
      <4>1. toBridge' \in Seq(Requests) /\ toBridge' \in Forgotten(toBridge)
        BY <1>0, <1>3, ForgottenProperties DEF TimeOutRead, OneRead
      <4>2. CASE toBridge' = toBridge
        BY <4>2
      <4>3. CASE toBridge' # toBridge
        BY <1>0, <4>1, <4>3, ForgottenProperties, ForgottenAmong DEF OneRead
      <4> QED
        BY <4>2, <4>3
    <3>2. /\ Among(fromBridge', kind) <=> Among(fromBridge, kind)
          /\ LastIs(fromBridge, kind, pid) => LastIs(fromBridge', kind, pid)
      <4>1. fromBridge' \in Seq(Answers) /\ fromBridge' \in Forgotten(fromBridge)
        BY <1>0, <1>3, ForgottenProperties DEF TimeOutRead, OneRead
      <4>2. CASE fromBridge' = fromBridge
        BY <4>2
      <4>3. CASE fromBridge' # fromBridge
        BY <1>0, <4>1, <4>3, ForgottenProperties, ForgottenAmong DEF OneRead
      <4> QED
        BY <4>2, <4>3
    <3> QED
      BY <3>1, <3>2
  <2> QED
    BY <2>1, <2>2, FollowReads
<1> QED
  BY <1>1, <1>2, <1>3 DEF MemoryStep

\* The callback of a list puts in place what was on its way; the one of an attachment
\* owes another list.
LEMMA FollowServer == ReadInv /\ FollowInv /\ ServerStep => FollowInv'
<1> SUFFICES ASSUME ReadInv, FollowInv, ServerStep PROVE FollowInv'
  OBVIOUS
<1> USE DEF bridgeVars, stateVars
<1>0. fromBridge \in Seq(Answers) /\ late \in Nat /\ (activeProcess => pid # None)
  BY SessionAssumption DEF ReadInv, TypeOK, FollowInv, ProcessNamed
<1>1. CASE ProcessResponse
  <2>1. /\ fromBridge # <<>> /\ fromBridge' = Tail(fromBridge)
        /\ UNCHANGED <<alive, connected, conns, late, toBridge>>
    BY <1>1 DEF ProcessResponse
  <2>2. CASE AnswerRef
    <3>1. (activeProcess' => pid' # None) /\ ~Settled'
      BY <2>2 DEF AnswerRef, RefFailed, RefWorked, Settled
    <3> QED
      BY <3>1, Unsettled
  <2>3. CASE AnswerModules
    <3>1. /\ fromBridge[1].kind = "get_modules" /\ UNCHANGED <<activeProcess, pid, owed>>
          /\ modules' = IF fromBridge[1].from = None THEN modules ELSE fromBridge[1].from
      BY <2>3 DEF AnswerModules
    <3>2. Among(fromBridge', "ref_process") <=> Among(fromBridge, "ref_process")
      BY <1>0, <2>1, <3>1, TailAmong
    <3>3. Settled' => Settled
      BY <2>1, <3>1, <3>2 DEF Settled, InFlight, Among
    <3>4. ASSUME Settled', ~Among(toBridge, "get_modules")
          PROVE  /\ LastIs(fromBridge', "get_modules", pid)
                 /\ ~Among(fromBridge', "get_modules") => modules' = pid
      <4>1. LastIs(fromBridge, "get_modules", pid) /\ pid # None
        BY <1>0, <3>3, <3>4 DEF FollowInv, ListFollows, Settled
      <4>2. /\ LastIs(fromBridge', "get_modules", pid)
            /\ ~Among(fromBridge', "get_modules") => fromBridge[1].from = pid
        BY <1>0, <2>1, <3>1, <4>1, TailAmong
      <4> QED
        BY <3>1, <4>1, <4>2
    <3>5. ListFollows'
      BY <2>1, <3>1, <3>4 DEF ListFollows, Among, LastIs
    <3> QED
      BY <1>0, <3>1, <3>5 DEF FollowInv, ProcessNamed
  <2>4. CASE AnswerRead
    <3>1. fromBridge[1].kind = "rvm" /\ UNCHANGED <<activeProcess, pid, owed, modules>>
      BY <2>4 DEF AnswerRead
    <3>2. ASSUME NEW kind \in {"ref_process", "get_modules"}
          PROVE  /\ Among(fromBridge', kind) <=> Among(fromBridge, kind)
                 /\ LastIs(fromBridge, kind, pid) => LastIs(fromBridge', kind, pid)
      BY <1>0, <2>1, <3>1, TailAmong
    <3> QED
      BY <2>1, <3>1, <3>2, FollowReads
  <2> QED
    BY <1>1, <2>2, <2>3, <2>4 DEF ProcessResponse
<1>2. CASE DropLateAnswer
  <2>1. late' # 0 /\ UNCHANGED <<activeProcess, pid>>
    BY <1>0, <1>2 DEF DropLateAnswer
  <2>2. ~Settled'
    BY <2>1 DEF Settled
  <2> QED
    BY <1>0, <2>1, <2>2, Unsettled
<1>3. CASE FinishAttach
  BY <1>3, QuietFollow DEF FinishAttach, queueVars
<1> QED
  BY <1>1, <1>2, <1>3 DEF ServerStep

\* The bridge lists the modules of the process ImClass names by then (AttachAgrees).
LEMMA FollowBridge == ReadInv /\ AgreeInv /\ FollowInv /\ WebsocketCallback => FollowInv'
<1> SUFFICES ASSUME ReadInv, AgreeInv, FollowInv, WebsocketCallback PROVE FollowInv'
  OBVIOUS
<1>0. /\ toBridge \in Seq(Requests) /\ fromBridge \in Seq(Answers)
      /\ pid \in MaybeProc /\ gproc \in MaybeProc /\ (activeProcess => pid # None)
  BY DEF ReadInv, TypeOK, FollowInv, ProcessNamed
<1>1. /\ toBridge # <<>> /\ toBridge' = Tail(toBridge)
      /\ UNCHANGED <<alive, connected, conns, late, activeProcess, pid, modules, owed>>
  BY DEF WebsocketCallback, stateVars
<1>2. CASE HandleRefProcess
  <2>1. PICK p \in Outcomes(toBridge[1].arg) :
          fromBridge' = Append(fromBridge, [kind |-> "ref_process", from |-> p])
    BY <1>2 DEF HandleRefProcess, Reply
  <2>2. p \in MaybeProc
    <3>1. toBridge[1] \in Requests
      BY <1>0, <1>1, EmptySeq, LenProperties
    <3> QED
      BY <1>2, <2>1, <3>1 DEF HandleRefProcess, Outcomes, MaybeProc, Requests
  <2>3. Among(fromBridge', "ref_process")
    <3>1. [kind |-> "ref_process", from |-> p] \in Answers
      BY <2>2 DEF Answers
    <3> QED
      BY <1>0, <2>1, <3>1, AppendAmong
  <2>4. ~Settled'
    BY <2>3 DEF Settled, InFlight, Among
  <2> QED
    BY <1>0, <1>1, <2>4, Unsettled
<1>3. CASE HandleRvm
  <2>1. PICK p \in MaybeProc : fromBridge' = Append(fromBridge, [kind |-> "rvm", from |-> p])
    BY <1>0, <1>3 DEF HandleRvm, Reply, MaybeProc
  <2>2. ASSUME NEW kind \in {"ref_process", "get_modules"}
        PROVE  /\ Among(toBridge', kind) <=> Among(toBridge, kind)
               /\ Among(fromBridge', kind) <=> Among(fromBridge, kind)
               /\ LastIs(fromBridge, kind, pid) => LastIs(fromBridge', kind, pid)
    <3>1. Among(toBridge', kind) <=> Among(toBridge, kind)
      <4>1. toBridge[1].kind # kind
        BY <1>3 DEF HandleRvm
      <4> QED
        BY <1>0, <1>1, <4>1, TailAmong
    <3>2. [kind |-> "rvm", from |-> p] \in Answers /\ "rvm" # kind
      BY DEF Answers
    <3>3. /\ Among(fromBridge', kind) <=> Among(fromBridge, kind)
          /\ LastIs(fromBridge, kind, pid) => LastIs(fromBridge', kind, pid)
      BY <1>0, <2>1, <3>2, AppendAmong
    <3> QED
      BY <3>1, <3>3
  <2> QED
    BY <1>1, <2>2, FollowReads
<1>4. CASE HandleGetModules
  <2>1. PICK p \in Outcomes(gproc) :
          fromBridge' = Append(fromBridge, [kind |-> "get_modules", from |-> p])
    BY <1>4 DEF HandleGetModules, Reply
  <2>2. [kind |-> "get_modules", from |-> p] \in Answers
    BY <1>0 DEF Outcomes, Answers, MaybeProc
  <2>3. /\ Among(fromBridge', "get_modules")
        /\ Among(fromBridge', "ref_process") <=> Among(fromBridge, "ref_process")
        /\ LastIs(fromBridge', "get_modules", p)
    BY <1>0, <2>1, <2>2, AppendAmong
  <2>4. Among(toBridge', "ref_process") <=> Among(toBridge, "ref_process")
    BY <1>0, <1>1, <1>4, TailAmong DEF HandleGetModules
  <2>5. Settled' => Settled
    BY <1>1, <2>3, <2>4 DEF Settled, InFlight, Among
  <2>6. Settled => p = pid
    <3> SUFFICES ASSUME Settled PROVE p = pid
      OBVIOUS
    <3>1. gproc = pid
      BY DEF AgreeInv, AttachAgrees, Settled, InFlight
    <3>2. gproc \in alive
      BY <1>0, <3>1 DEF Settled, MaybeProc
    <3> QED
      BY <3>1, <3>2 DEF Outcomes, Settled
  <2>7. ListFollows'
    BY <1>1, <2>3, <2>5, <2>6 DEF ListFollows, Among, LastIs
  <2> QED
    BY <1>0, <1>1, <2>7 DEF FollowInv, ProcessNamed
<1> QED
  BY <1>2, <1>3, <1>4 DEF WebsocketCallback

LEMMA FollowLink ==
  ASSUME ReadInv, AgreeInv, FollowInv, Disconnect \/ Connect \/ (\E p \in Procs : Exit(p))
  PROVE  FollowInv'
<1> USE DEF stateVars, queueVars
<1>0. activeProcess => pid # None
  BY DEF FollowInv, ProcessNamed
<1>1. CASE Disconnect
  <2>1. ~Settled' /\ UNCHANGED <<activeProcess, pid>>
    BY <1>1 DEF Disconnect, Settled
  <2> QED
    BY <1>0, <2>1, Unsettled
<1>2. CASE Connect
  <2>1. conns \in Nat /\ conns' = conns + 1 /\ UNCHANGED <<activeProcess, pid>>
    BY <1>2, SessionAssumption DEF Connect, ReadInv, TypeOK
  <2>2. activeProcess => conns > 0
    BY DEF AgreeInv, Connected
  <2>3. ~Settled'
    BY <2>1, <2>2 DEF Settled
  <2> QED
    BY <1>0, <2>1, <2>3, Unsettled
<1>3. ASSUME NEW p \in Procs, Exit(p) PROVE FollowInv'
  <2>1. ~Settled' /\ UNCHANGED <<activeProcess, pid>>
    BY <1>3 DEF Exit, Settled
  <2> QED
    BY <1>0, <2>1, Unsettled
<1> QED
  BY <1>1, <1>2, <1>3

LEMMA FollowStep == ReadInv /\ AgreeInv /\ FollowInv /\ [Next]_vars => FollowInv'
<1>1. ASSUME FollowInv, UNCHANGED vars PROVE FollowInv'
  BY <1>1, QuietFollow DEF vars, bridgeVars, queueVars, stateVars
<1> QED
  BY <1>1, FollowUi, FollowMemory, FollowServer, FollowBridge, FollowLink DEF Next

\* Once nothing is under way, the module list is the attached process's, however often
\* the user attached and refreshed in between (getModules, handle_get_modules).
THEOREM ModulesConsistent == Spec => []ModulesFollow
<1>1. FollowInv => ModulesFollow
  BY DEF FollowInv, ListFollows, ModulesFollow, Settled, InFlight
<1> QED
  BY <1>1, FollowInit, FollowStep, AgreeInit, AgreeStep, ReadAlways, PTL DEF Spec
=============================================================================
