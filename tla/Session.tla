------------------------------ MODULE Session -------------------------------
(***************************************************************************)
(* Which process ImClass is looking at: attaching, the module list and the *)
(* memory snapshots (memory.h, classes.h: MemoryReadThreadFunc, main.cpp,  *)
(* ui.h: renderProcessWindow, renderModuleListWindow, cleanDeadProcess)    *)
(* against the bridge's own idea of it (g_proc in imclass_server.as).      *)
(*                                                                         *)
(* RequestMux says how a request finds its callback.  Here requests and    *)
(* answers travel through two queues in order, a callback is one or two    *)
(* steps of the server thread, and a read that timed out leaves the queues *)
(* at once: its late answer only sets a promise nobody reads any more.     *)
(* The content of a snapshot or of a module list is the process it was     *)
(* read from.                                                              *)
(***************************************************************************)
EXTENDS Integers, Sequences, FiniteSets

CONSTANTS Procs,        \* the processes of the target machine
          Addrs,        \* the addresses class windows can show
          None,         \* no process, no address, a failure
          MaxClicks,    \* bound on the clicks on Attach and Refresh Modules
          MaxConnects,  \* bound on the connections of the bridge
          MaxExits,     \* bound on the processes that exit
          MaxLate,      \* bound on the answers that come after 5 s
          MaxQueue,     \* bound on the requests in flight when the user adds one
          BridgeMayFail \* whether the bridge may fail to open or walk a live process

ASSUME SessionAssumption ==
  /\ None \notin Procs /\ None \notin Addrs /\ BridgeMayFail \in BOOLEAN
  /\ MaxClicks \in Nat /\ MaxConnects \in Nat /\ MaxExits \in Nat /\ MaxLate \in Nat
  /\ MaxQueue \in Nat

VARIABLES
  \* the target machine, the bridge and the connection
  alive,      \* the processes that run
  gproc,      \* the bridge's g_proc
  connected,  \* has_connection
  conns,      \* connections made
  toBridge,   \* requests under way
  fromBridge, \* answers under way
  late,       \* answers that came after their request was swept
  \* the memory of ImClass
  activeProcess, pid, needsRefresh,  \* activeProcess, g_pid, g_NeedsModuleRefresh
  modules,    \* whose modules moduleList holds
  snapshots,  \* snapshots[a]: the process g_MemorySnapshots[a] was read from
  shown,      \* the addresses of the classes
  \* the threads
  attached,   \* the server thread is in the callback of initProcessByName
  ui,         \* where the UI thread is in its frame
  wasActive,  \* processWasActive in ui::renderMain
  clicks,     \* clicks on Attach and Refresh Modules so far
  plan,       \* the addresses the memory thread has still to read
  want,       \* the address it waits for
  got,        \* what the promise of that read holds: <<>> or <<answer>>
  owed        \* a module list was promised since the last attachment, not asked for

bridgeVars == <<alive, gproc, connected, conns>>
queueVars  == <<toBridge, fromBridge, late>>
stateVars  == <<activeProcess, pid, needsRefresh, modules, snapshots, owed>>
uiVars     == <<ui, wasActive, clicks, shown>>
readVars   == <<plan, want, got>>
vars == <<bridgeVars, queueVars, stateVars, uiVars, readVars, attached>>

MaybeProc == Procs \cup {None}
Requests  == [kind : {"ref_process"}, arg : Procs] \cup [kind : {"rvm"}, arg : Addrs]
               \cup [kind : {"get_modules"}, arg : {None}]
Answers   == [kind : {"ref_process", "rvm", "get_modules"}, from : MaybeProc]

\* The values of the variables; an answer is held only for the read that waits for it, as
\* every call of read_blocking has a promise of its own.
TypeOK ==
  /\ alive \subseteq Procs /\ gproc \in MaybeProc /\ connected \in BOOLEAN
  /\ conns \in 0..MaxConnects
  /\ toBridge \in Seq(Requests) /\ fromBridge \in Seq(Answers)
  /\ late \in 0..MaxLate
  /\ activeProcess \in BOOLEAN /\ pid \in MaybeProc /\ needsRefresh \in BOOLEAN
  /\ modules \in MaybeProc /\ snapshots \in [Addrs -> MaybeProc] /\ shown \subseteq Addrs
  /\ attached \in BOOLEAN /\ ui \in {"top", "clear", "refresh", "render", "check"}
  /\ wasActive \in BOOLEAN /\ clicks \in 0..MaxClicks
  /\ plan \subseteq Addrs /\ want \in Addrs \cup {None}
  /\ got \in {<<>>} \cup {<<p>> : p \in MaybeProc} /\ owed \in BOOLEAN
  /\ got # <<>> => want # None

Init ==
  /\ alive = Procs /\ gproc = None /\ connected = FALSE /\ conns = 0
  /\ toBridge = <<>> /\ fromBridge = <<>> /\ late = 0
  /\ activeProcess = FALSE /\ pid = None /\ needsRefresh = FALSE /\ owed = FALSE
  /\ modules = None /\ snapshots = [a \in Addrs |-> None]
  /\ shown = {} /\ ui = "top" /\ wasActive = FALSE /\ clicks = 0
  /\ attached = FALSE /\ plan = {} /\ want = None /\ got = <<>>

\* request_mutex is held while a callback runs.
Send(kind, arg) == /\ ~attached
                   /\ toBridge' = Append(toBridge, [kind |-> kind, arg |-> arg])

-----------------------------------------------------------------------------
(* The frame of the UI thread *)

\* main.cpp: the flag is read, cleared when it was set, and then getModules is called.
TopOfFrame ==
  /\ ui = "top"
  /\ ui' = IF needsRefresh THEN "clear" ELSE "render"
  /\ UNCHANGED <<bridgeVars, queueVars, stateVars, wasActive, clicks, shown, readVars, attached>>

ClearFlag ==
  /\ ui = "clear" /\ ui' = "refresh"
  /\ needsRefresh' = FALSE
  /\ UNCHANGED <<bridgeVars, queueVars, activeProcess, pid, modules, snapshots, owed,
                 wasActive, clicks, shown, readVars, attached>>

\* getModules: silently nothing without a connection or a process.
GetModules ==
  /\ \/ connected /\ activeProcess /\ Send("get_modules", None)
     \/ ~(connected /\ activeProcess) /\ UNCHANGED toBridge
  /\ owed' = FALSE
  /\ UNCHANGED <<bridgeVars, fromBridge, late, activeProcess, pid, needsRefresh, modules,
                 snapshots, wasActive, shown, readVars, attached>>

RefreshModules == /\ ui = "refresh" /\ GetModules
                  /\ ui' = "render"
                  /\ UNCHANGED clicks

MayClick == ui = "render" /\ clicks < MaxClicks /\ Len(toBridge) + Len(fromBridge) < MaxQueue

\* The button "Refresh Modules" (and Copy RVA in a class).
ClickRefresh == /\ MayClick /\ GetModules
                /\ clicks' = clicks + 1
                /\ UNCHANGED ui

\* The button "Attach": initProcessByName.
ClickAttach(p) ==
  /\ MayClick /\ connected
  /\ Send("ref_process", p)
  /\ clicks' = clicks + 1
  /\ UNCHANGED <<bridgeVars, fromBridge, late, stateVars, ui, wasActive, shown, readVars, attached>>

\* The address bar, New Class, Delete and clicked pointers: other addresses are
\* shown from now on.
ShowAddresses(S) ==
  /\ ui = "render" /\ S # shown
  /\ shown' = S
  /\ UNCHANGED <<bridgeVars, queueVars, stateVars, ui, wasActive, clicks, readVars, attached>>

\* Variant: the flag is cleared at the end of the frame.
EndRenderClearsFlag ==
  /\ ui = "render" /\ ui' = "check" /\ needsRefresh' = FALSE
  /\ UNCHANGED <<bridgeVars, queueVars, activeProcess, pid, modules, snapshots, owed,
                 wasActive, clicks, shown, readVars, attached>>

\* renderMain returns before it looks at the process when there is no class.
EndRender == /\ ui = "render"
             /\ ui' \in IF shown = {} THEN {"check", "top"} ELSE {"check"}
             /\ UNCHANGED <<bridgeVars, queueVars, stateVars, wasActive, clicks, shown,
                            readVars, attached>>

\* mem::isProcessAlive looks at memHandle, which nothing assigns.
HandleOpen == FALSE
IsProcessAlive == HandleOpen /\ (activeProcess => pid \in alive)

\* The end of renderMain: cleanDeadProcess when the process was there in the
\* last frame and is not any more.
CheckProcess ==
  /\ ui = "check" /\ ui' = "top"
  /\ LET processActive == IsProcessAlive /\ activeProcess
     IN  /\ wasActive' = processActive
         /\ IF wasActive /\ ~processActive
            THEN /\ modules' = None /\ pid' = None /\ activeProcess' = FALSE
                 /\ snapshots' = [a \in Addrs |-> None]
            ELSE UNCHANGED <<modules, pid, activeProcess, snapshots>>
  /\ UNCHANGED <<bridgeVars, queueVars, needsRefresh, owed, clicks, shown, readVars, attached>>

-----------------------------------------------------------------------------
(* The memory thread *)

\* Variant: what has been read already is not read again.
CollectReadsOnce ==
  /\ plan = {} /\ want = None /\ activeProcess
  /\ plan' = {a \in shown : snapshots[a] = None}
  /\ snapshots' = [a \in Addrs |-> IF a \in shown THEN snapshots[a] ELSE None]
  /\ UNCHANGED <<bridgeVars, queueVars, activeProcess, pid, needsRefresh, modules, owed, uiVars,
                 want, got, attached>>

\* A round begins: what to read is collected, other snapshots are erased.
CollectReads ==
  /\ plan = {} /\ want = None /\ activeProcess
  /\ plan' = shown
  /\ snapshots' = [a \in Addrs |-> IF a \in shown THEN snapshots[a] ELSE None]
  /\ UNCHANGED <<bridgeVars, queueVars, activeProcess, pid, needsRefresh, modules, owed, uiVars,
                 want, got, attached>>

\* read_blocking: the guard fails, or a read is sent.
StartRead(a) ==
  /\ want = None /\ a \in plan
  /\ plan' = plan \ {a}
  /\ \/ /\ connected /\ activeProcess
        /\ Send("rvm", a)
        /\ want' = a
     \/ /\ ~(connected /\ activeProcess)
        /\ UNCHANGED <<toBridge, want>>
  /\ UNCHANGED <<bridgeVars, fromBridge, late, stateVars, uiVars, got, attached>>

\* The wait ends with an answer: good bytes replace the snapshot, a failure
\* leaves it as it is.
FinishRead ==
  /\ want # None /\ got # <<>>
  /\ snapshots' = IF got[1] = None THEN snapshots ELSE [snapshots EXCEPT ![want] = got[1]]
  /\ want' = None /\ got' = <<>>
  /\ UNCHANGED <<bridgeVars, queueVars, activeProcess, pid, needsRefresh, modules, owed, uiVars,
                 plan, attached>>

\* What a queue can become when the one read in it, if there is one, is taken out.
Reads(q)     == {i \in DOMAIN q : q[i].kind = "rvm"}
Forgotten(q) == IF Reads(q) = {} THEN {q}
                ELSE {SubSeq(q, 1, i - 1) \o SubSeq(q, i + 1, Len(q)) : i \in Reads(q)}

\* Variant: the answer that comes late finds the promise of the next read.
TimeOutReadSharedPromise ==
  /\ want # None /\ got = <<>>
  /\ want' = None
  /\ UNCHANGED <<bridgeVars, queueVars, stateVars, uiVars, plan, got, attached>>

\* The wait ends after 50 ms without one.
TimeOutRead ==
  /\ want # None /\ got = <<>>
  /\ want' = None
  /\ toBridge' \in Forgotten(toBridge) /\ fromBridge' \in Forgotten(fromBridge)
  /\ UNCHANGED <<bridgeVars, late, stateVars, uiVars, plan, got, attached>>

-----------------------------------------------------------------------------
(* The server thread: the callbacks *)

\* Variant: a failed attachment leaves the old one as it was.
RefFailedKeepsOld ==
  /\ fromBridge[1].from = None
  /\ UNCHANGED <<activeProcess, pid, owed, attached>>

\* The callback of initProcessByName on success = false.
RefFailed ==
  /\ fromBridge[1].from = None
  /\ activeProcess' = FALSE
  /\ UNCHANGED <<pid, owed, attached>>

\* ... and on success: first the process, then, in FinishAttach, the flag.
RefWorked ==
  /\ fromBridge[1].from # None
  /\ pid' = fromBridge[1].from /\ activeProcess' = TRUE
  /\ attached' = TRUE /\ owed' = TRUE

AnswerRef ==
  /\ fromBridge[1].kind = "ref_process"
  /\ RefFailed \/ RefWorked
  /\ UNCHANGED <<modules, got>>

\* Variant: a list is loaded only once.
AnswerModulesOnce ==
  /\ fromBridge[1].kind = "get_modules"
  /\ modules' = IF modules # None THEN modules ELSE fromBridge[1].from
  /\ UNCHANGED <<activeProcess, pid, attached, owed, got>>

\* The callback of getModules: a failure leaves the old list.
AnswerModules ==
  /\ fromBridge[1].kind = "get_modules"
  /\ modules' = IF fromBridge[1].from = None THEN modules ELSE fromBridge[1].from
  /\ UNCHANGED <<activeProcess, pid, attached, owed, got>>

\* The callback of read_blocking sets the promise.
AnswerRead ==
  /\ fromBridge[1].kind = "rvm"
  /\ got' = <<fromBridge[1].from>>
  /\ UNCHANGED <<activeProcess, pid, attached, owed, modules>>

ProcessResponse ==
  /\ ~attached /\ fromBridge # <<>>
  /\ fromBridge' = Tail(fromBridge)
  /\ AnswerRef \/ AnswerModules \/ AnswerRead
  /\ UNCHANGED <<bridgeVars, toBridge, late, needsRefresh, snapshots, uiVars, plan, want>>

\* cleanup_stale_requests has swept the request: its answer finds no callback.
DropLateAnswer ==
  /\ ~attached /\ fromBridge # <<>> /\ fromBridge[1].kind # "rvm" /\ late < MaxLate
  /\ fromBridge' = Tail(fromBridge)
  /\ late' = late + 1
  /\ UNCHANGED <<bridgeVars, toBridge, stateVars, uiVars, readVars, attached>>

\* The callback ends: a class is made if there is none, modules are asked for.
FinishAttach ==
  /\ attached /\ attached' = FALSE
  /\ needsRefresh' = TRUE
  /\ UNCHANGED <<bridgeVars, queueVars, activeProcess, pid, modules, snapshots, owed, uiVars,
                 readVars>>

-----------------------------------------------------------------------------
(* The bridge, the connection and the target machine *)

Outcomes(p) == IF p \notin alive THEN {None} ELSE IF BridgeMayFail THEN {p, None} ELSE {p}

Reply(kind, p) == fromBridge' = Append(fromBridge, [kind |-> kind, from |-> p])

\* handle_ref_process gives the old process up before it opens the new one.
HandleRefProcess ==
  /\ toBridge[1].kind = "ref_process"
  /\ \E p \in Outcomes(toBridge[1].arg) : gproc' = p /\ Reply("ref_process", p)

\* handle_rvm reads whatever process is attached by now; unreadable memory reads as
\* zeros, which is an answer like any other.
HandleRvm ==
  /\ toBridge[1].kind = "rvm"
  /\ Reply("rvm", IF gproc \in alive THEN gproc ELSE None)
  /\ UNCHANGED gproc

\* handle_get_modules walks the PEB of whatever process is attached by now.
HandleGetModules ==
  /\ toBridge[1].kind = "get_modules"
  /\ \E p \in Outcomes(gproc) : Reply("get_modules", p)
  /\ UNCHANGED gproc

WebsocketCallback ==
  /\ connected /\ toBridge # <<>>
  /\ toBridge' = Tail(toBridge)
  /\ HandleRefProcess \/ HandleRvm \/ HandleGetModules
  /\ UNCHANGED <<alive, connected, conns, late, stateVars, uiVars, readVars, attached>>

\* The connection is lost with all that is on it.  ImClass stays attached.
Disconnect ==
  /\ connected /\ connected' = FALSE
  /\ toBridge' = <<>> /\ fromBridge' = <<>>
  /\ UNCHANGED <<alive, gproc, conns, late, stateVars, uiVars, readVars, attached>>

\* The script is loaded again: it connects, with no process attached.
Connect ==
  /\ ~connected /\ conns < MaxConnects
  /\ connected' = TRUE /\ conns' = conns + 1 /\ gproc' = None
  /\ toBridge' = <<>> /\ fromBridge' = <<>>
  /\ UNCHANGED <<alive, late, stateVars, uiVars, readVars, attached>>

Exit(p) ==
  /\ p \in alive /\ Cardinality(Procs \ alive) < MaxExits
  /\ alive' = alive \ {p}
  /\ UNCHANGED <<gproc, connected, conns, queueVars, stateVars, uiVars, readVars, attached>>

-----------------------------------------------------------------------------
UiStep ==
  \/ TopOfFrame \/ ClearFlag \/ RefreshModules \/ ClickRefresh \/ EndRender \/ CheckProcess
  \/ \E p \in Procs : ClickAttach(p)
  \/ \E S \in SUBSET Addrs : ShowAddresses(S)

MemoryStep == CollectReads \/ (\E a \in Addrs : StartRead(a)) \/ FinishRead \/ TimeOutRead

ServerStep == ProcessResponse \/ DropLateAnswer \/ FinishAttach

Next ==
  \/ UiStep \/ MemoryStep \/ ServerStep
  \/ WebsocketCallback \/ Disconnect \/ Connect \/ (\E p \in Procs : Exit(p))

Spec == Init /\ [][Next]_vars

\* The bridge answers a read at a; the answer reaches its promise.
ReadsFor(a)  == want = a /\ WebsocketCallback /\ toBridge[1].kind = "rvm"
GotReadOf(a) == want = a /\ ProcessResponse /\ fromBridge[1].kind = "rvm"

\* The frames go on, the server thread answers, the memory thread makes its rounds
\* and the bridge polls.  Nothing makes the user click, a process exit or the bridge
\* connect.  A read may time out again and again, but not always.
FairSpec ==
  /\ Spec
  /\ WF_vars(TopOfFrame \/ ClearFlag \/ RefreshModules \/ EndRender \/ CheckProcess)
  /\ WF_vars(ProcessResponse) /\ WF_vars(FinishAttach) /\ WF_vars(WebsocketCallback)
  /\ WF_vars(CollectReads) /\ WF_vars(FinishRead) /\ WF_vars(TimeOutRead)
  /\ \A a \in Addrs : WF_vars(StartRead(a)) /\ SF_vars(ReadsFor(a)) /\ SF_vars(GotReadOf(a))

-----------------------------------------------------------------------------
(* Properties *)

Among(q, kind) == \E i \in DOMAIN q : q[i].kind = kind
InFlight(kind) == Among(toBridge, kind) \/ Among(fromBridge, kind)

\* An attachment that succeeded is owed a module list, asked for from the UI thread.
\* Until it is asked for, the callback still runs, the flag is set, or the frame is
\* between reading the flag and calling getModules: a second attachment in between
\* is never forgotten (memory.h: g_NeedsModuleRefresh, main.cpp).
RefreshNotLost == owed => attached \/ needsRefresh \/ ui \in {"clear", "refresh"}

\* While no answer about an attachment is on its way and none was dropped, ImClass and
\* the bridge look at the same process, or the bridge has started again and looks at
\* none.  A read asked for from now on is a read of the process ImClass names, also
\* after attachments that failed and connections that were lost (initProcessByName,
\* handle_ref_process).
AttachAgrees ==
  (connected /\ activeProcess /\ late = 0 /\ ~Among(fromBridge, "ref_process"))
    => gproc = pid \/ (gproc = None /\ conns > 1)

\* On a bridge that fails nothing, with nothing dropped and nothing under way, the
\* module list is the one of the attached process.
ModulesFollow ==
  ( /\ ~BridgeMayFail /\ alive = Procs /\ late = 0 /\ conns = 1 /\ connected
    /\ activeProcess /\ ~attached /\ ~owed
    /\ ~InFlight("ref_process") /\ ~InFlight("get_modules") )
    => modules = pid

\* ImClass is attached and the bridge agrees.
Healthy == connected /\ activeProcess /\ gproc = pid /\ pid \in alive

\* A class that stays on the screen of a healthy session comes to show the memory of
\* the attached process and not that of an earlier one: failures and timeouts keep
\* the old snapshot, and only for a while.
ViewCatchesUp ==
  \A a \in Addrs : <>[](a \in shown /\ Healthy) => <>[](snapshots[a] = pid)

\* memory.h: cleanDeadProcess ("Clear memory snapshots"), called at the end of every frame
\* that shows a class, gives up a process that has died.
DeadProcessCleaned ==
  (activeProcess /\ pid \notin alive) ~> (~activeProcess \/ shown = {})
=============================================================================
