------------------------------ MODULE ClassList ------------------------------
(***************************************************************************)
(* The list of classes, the selection, the pointer preview and the         *)
(* snapshots of their memory (classes.h, ui.h, memory.h), with the address *)
(* bar and the scans that give a class its address.                        *)
(*                                                                         *)
(* Three threads meet on g_Classes, which no lock protects.  The UI thread *)
(* goes through a frame: the list on the left, the address bar, the nodes  *)
(* of the selected class, the tool windows.  The memory thread walks the   *)
(* list, drops the snapshots of addresses no class has, and reads each     *)
(* address in turn.  The server thread makes a first class when an         *)
(* attachment finds the list empty.                                        *)
(*                                                                         *)
(* A step of the UI thread is one phase of a frame with what the user does *)
(* in it.  Sizes are counted in nodes of eight bytes.  The process stays   *)
(* attached (Session models attaching and the end of a target).  What the  *)
(* nodes of a class are is ClassLayout's subject: here they have a size.   *)
(*                                                                         *)
(* A class all of whose nodes were deleted is bare: sizeToNodes gave its   *)
(* block back and kept size and data as they were.  malloc may give that   *)
(* block to somebody else while the bare class still holds it.             *)
(***************************************************************************)
EXTENDS AddressParser, Patterns, FiniteSets

CONSTANTS Texts,        \* what the user types into the address bar
          Strings,      \* what is scanned for as a string
          Signatures,   \* what is scanned for as a signature
          Contents,     \* the numbers the memory of the target holds
          Modules,      \* moduleList: records with a name, a base and a size
          Target,       \* the name typed into the Module box of a scan
          FreshSize,    \* the size of a new class
          PreviewSize,  \* the size of a new preview
          MaxSize,      \* bound on the size of a class
          MaxClasses,   \* bound on the classes in the list
          Blocks,       \* the blocks of memory malloc can give
          Alphabet,     \* the characters of the strings below
          MaxText       \* bound on the inputs the algorithms are compared on:
                        \* terms of an expression, blanks, characters

Sizes == 1..MaxSize

ASSUME ListAssumption == /\ MaxSize \in Nat /\ MaxClasses \in Nat \ {0}
                         /\ FreshSize \in Sizes /\ PreviewSize \in Sizes
ASSUME ContentsAssumption == Contents \subseteq Words

\* Texts are of characters, or of the pieces of the address bar; the characters
\* of a string are signed, as char is.
ASSUME TextsAssumption == /\ Texts \subseteq Seq(STRING) /\ Signatures \subseteq Seq(STRING)
                          /\ Strings \subseteq Seq(-128..127) /\ Alphabet \subseteq -128..127
                          /\ MaxText \in Nat

\* A module lies in the address space.
ASSUME ModulesAssumption ==
  /\ Modules \in Seq({Modules[i] : i \in DOMAIN Modules})
  /\ \A i \in DOMAIN Modules : /\ Modules[i].base \in Words /\ Modules[i].size \in Nat
                               /\ Modules[i].base + Modules[i].size <= W

VARIABLES
  classes,    \* g_Classes
  selected,   \* g_SelectedClass, counted from 0
  preview,    \* g_PreviewClass
  blocks,     \* the blocks malloc has given and free has not got back
  misused,    \* history: the block of a bare class was given back once more
  hovering,   \* a pointer was hovered in the last frame (oHoveringPointer)
  scan,       \* the last scan, until its results are used or closed
  upc,        \* the phase of the frame the UI thread is in
  snapshots,  \* g_MemorySnapshots: the size read at each address, 0 for none
  mpc,        \* where the memory thread is in its cycle
  mnext,      \* the class its walk comes to next
  requests,   \* read_requests
  torn,       \* the list changed its structure under the walk
  steady,     \* history: in this cycle no class changed and no read failed
  crashed     \* the process died of undefined behaviour or an exception

listVars   == <<classes, selected>>
viewVars   == <<preview, hovering>>
memoryVars == <<snapshots, mpc, mnext, requests>>
heapVars   == <<blocks, misused>>
vars == <<listVars, heapVars, viewVars, scan, upc, memoryVars, torn, steady, crashed>>

Class    == [address : Words, size : Sizes, data : Blocks, bare : BOOLEAN]
Requests == [address : Words \ {0}, size : Sizes]

NoScan == [by |-> "nobody", typed |-> <<>>, found |-> 0]

Phases == {"list", "address", "nodes", "tools"}

TypeOK ==
  /\ classes \in Seq(Class) /\ Len(classes) <= MaxClasses
  /\ selected \in Nat
  /\ preview \in Class /\ blocks \subseteq Blocks
  /\ misused \in BOOLEAN /\ hovering \in BOOLEAN
  /\ upc \in Phases
  /\ snapshots \in [Words -> 0..MaxSize]
  /\ mpc \in {"walking", "reading"}
  /\ mnext \in Nat /\ requests \in Seq(Requests)
  /\ torn \in BOOLEAN /\ steady \in BOOLEAN /\ crashed \in BOOLEAN

Fresh(a, size, block) == [address |-> a, size |-> size, data |-> block, bare |-> FALSE]

Init ==
  /\ \E b, c \in Blocks :
       /\ b # c /\ blocks = {b, c}
       /\ preview = Fresh(0, PreviewSize, b)
       /\ classes = <<Fresh(0, FreshSize, c)>>
  /\ selected = 0
  /\ misused = FALSE /\ hovering = FALSE
  /\ scan = NoScan /\ upc = "list"
  /\ snapshots = [a \in Words |-> 0]
  /\ mpc = "reading" /\ mnext = 1 /\ requests = <<>>
  /\ torn = FALSE /\ steady = FALSE /\ crashed = FALSE

\* malloc gives a block that is not in use.
Malloc(b) == b \in Blocks \ blocks /\ blocks' = blocks \cup {b}

Chosen == selected + 1    \* the selected class, counted from 1

\* The number of classes changes: a walk over them is torn.
Restructure(list) == /\ classes' = list
                     /\ torn' = (torn \/ mpc = "walking")

-----------------------------------------------------------------------------
(* The UI thread, renderMain: the list of classes *)

\* Once the list is drawn the frame goes on only if there is a class.
AfterList == upc' = IF classes' = <<>> THEN "tools" ELSE "address"

LookAtList ==
  /\ upc = "list"
  /\ UNCHANGED <<listVars, heapVars, viewVars, scan, memoryVars, torn>>
  /\ AfterList

Select(i) ==
  /\ upc = "list" /\ i \in DOMAIN classes
  /\ selected' = i - 1
  /\ UNCHANGED classes /\ AfterList
  /\ UNCHANGED <<heapVars, viewVars, scan, memoryVars, torn>>

\* The menu entry of a class, or of an empty list, where the frame ends for
\* renderMain; the new class is not selected.
NewClass ==
  /\ upc = "list" /\ Len(classes) < MaxClasses
  /\ \E b \in Blocks : Malloc(b) /\ Restructure(Append(classes, Fresh(0, FreshSize, b)))
  /\ upc' = IF classes = <<>> THEN "tools" ELSE "address"
  /\ UNCHANGED <<selected, misused, viewVars, scan, memoryVars>>

\* Variant: the selection is left alone when a class is deleted.
SelectedAfterNoDelete == selected

\* Variant: the selection is not compared with 0 first.
SelectedAfterDeleteUnguarded == IF selected > Len(classes) - 2 THEN selected - 1 ELSE selected

\* g_SelectedClass > 0 && g_SelectedClass > g_Classes.size() - 1, in words.
SelectedAfterDelete ==
  IF selected > 0 /\ selected > Len(classes) - 2 THEN selected - 1 ELSE selected

\* The block of class i is given back.  A bare class has none of its own: the block
\* it holds is free, or belongs to somebody else by now.
GiveBack(i) ==
  /\ blocks' = blocks \ {classes[i].data}
  /\ misused' = (misused \/ classes[i].bare)

\* Variant: the data of a deleted class is not freed.
DeleteWithoutFree(i) ==
  /\ upc = "list" /\ i \in DOMAIN classes
  /\ selected' = SelectedAfterDelete
  /\ Restructure(RemoveAt(classes, i))
  /\ AfterList
  /\ UNCHANGED <<heapVars, viewVars, scan, memoryVars>>

Delete(i) ==
  /\ upc = "list" /\ i \in DOMAIN classes
  /\ GiveBack(i)
  /\ selected' = SelectedAfterDelete
  /\ Restructure(RemoveAt(classes, i))
  /\ AfterList
  /\ UNCHANGED <<viewVars, scan, memoryVars>>

\* exportClass lays the class out again, so a bare one is reallocated to nothing
\* once more.  (Of any other class nothing changes here: LookAtList.)
ExportBare(i) ==
  /\ upc = "list" /\ i \in DOMAIN classes /\ classes[i].bare
  /\ GiveBack(i)
  /\ UNCHANGED <<listVars, viewVars, scan, memoryVars, torn>>
  /\ AfterList

-----------------------------------------------------------------------------
(* The UI thread, renderMain: the address bar and the selected class *)

\* updateAddress: an address of 0 changes nothing.
UpdateAddress(i, a) == classes' = IF a = 0 THEN classes ELSE [classes EXCEPT ![i].address = a]

EnterAddress(text) ==
  /\ upc = "address" /\ Chosen \in DOMAIN classes
  /\ UpdateAddress(Chosen, ParseInput(text, Modules))
  /\ upc' = "nodes"
  /\ UNCHANGED <<selected, heapVars, viewVars, scan, memoryVars, torn>>

\* The rest of renderMain works on g_Classes[g_SelectedClass], whatever that is.
LeaveAddress ==
  /\ upc = "address" /\ upc' = "nodes"
  /\ crashed' = (Chosen \notin DOMAIN classes)
  /\ UNCHANGED <<listVars, heapVars, viewVars, scan, memoryVars, torn>>

\* The end of drawNodes: no pointer is hovered any more.  The data of the
\* preview is freed first, and may be the very block malloc gives next.  used
\* are the blocks in use once the nodes are drawn.
ResetPreview(used) ==
  IF hovering
  THEN /\ hovering' = FALSE
       /\ \E b \in Blocks :
            /\ b \notin used \ {preview.data}
            /\ preview' = Fresh(0, PreviewSize, b)
            /\ blocks' = (used \ {preview.data}) \cup {b}
  ELSE blocks' = used /\ UNCHANGED <<hovering, preview>>

LookAtNodes ==
  /\ upc = "nodes" /\ upc' = "tools" /\ ResetPreview(blocks)
  /\ UNCHANGED <<listVars, misused, scan, memoryVars, torn>>

\* There is a node of the selected class to click at or to hover.
HasNodes == ~classes[Chosen].bare

\* The menus of the nodes give the class another size; realloc moves its data.
Edit(size) ==
  /\ upc = "nodes" /\ upc' = "tools" /\ HasNodes
  /\ classes' = [classes EXCEPT ![Chosen].size = size]
  /\ ResetPreview(blocks)
  /\ UNCHANGED <<selected, misused, scan, memoryVars, torn>>

\* They delete all nodes: realloc to 0 bytes frees the block and returns NULL,
\* which sizeToNodes takes for a failure, so that size and data stay.
DeleteAllNodes ==
  /\ upc = "nodes" /\ upc' = "tools" /\ HasNodes
  /\ classes' = [classes EXCEPT ![Chosen].bare = TRUE]
  /\ ResetPreview(blocks \ {classes[Chosen].data})
  /\ UNCHANGED <<selected, misused, scan, memoryVars, torn>>

\* isPointer: the number lies in a module.  memHandle is never opened, so the
\* query for other memory always fails.
IsPointer(num) ==
  \E i \in DOMAIN Modules :
    Modules[i].base <= num /\ num <= Plus(Modules[i].base, Modules[i].size)

\* drawHexNumber under the mouse: the preview shows where the pointer leads,
\* once the tooltip is up, and the wheel changes its size.
Hover(num) ==
  /\ IsPointer(num) /\ hovering' = TRUE
  /\ \/ UNCHANGED preview
     \/ \E d \in {-1, 0, 1} : /\ preview.size + d \in Sizes
                              /\ preview' = Fresh(num, preview.size + d, preview.data)

HoverPointer(num) ==
  /\ upc = "nodes" /\ upc' = "tools" /\ HasNodes /\ Hover(num)
  /\ UNCHANGED <<listVars, heapVars, scan, memoryVars, torn>>

ClassesAt(a) == {i \in DOMAIN classes : classes[i].address = a}

\* A double click on a pointer selects the first class with that address, or
\* appends one at the end of drawNodes and selects it.
OpenPointer(num) ==
  /\ upc = "nodes" /\ upc' = "tools" /\ HasNodes /\ Hover(num)
  /\ IF ClassesAt(num) # {}
     THEN selected' = Min(ClassesAt(num)) - 1 /\ UNCHANGED <<classes, blocks, torn>>
     ELSE /\ Len(classes) < MaxClasses
          /\ \E b \in Blocks : Malloc(b) /\ Restructure(Append(classes, Fresh(num, FreshSize, b)))
          /\ selected' = Len(classes)
  /\ UNCHANGED <<misused, scan, memoryVars>>

\* drawNodes copies a snapshot of the size of the class to its block.
Drawn(c) == snapshots[c.address] = c.size

\* For a bare class that block is free, or belongs to somebody else by now.  It is
\* undefined what a write to a free one does: here the process ends, in
\* LookAtNodes it goes on.
DrawBare ==
  /\ upc = "nodes" /\ ~HasNodes
  /\ Drawn(classes[Chosen]) /\ classes[Chosen].data \notin blocks
  /\ crashed' = TRUE
  /\ UNCHANGED <<listVars, heapVars, viewVars, scan, upc, memoryVars, torn>>

-----------------------------------------------------------------------------
(* The UI thread: the tool windows *)

NoTool ==
  /\ upc = "tools" /\ upc' = "list"
  /\ UNCHANGED <<listVars, heapVars, viewVars, scan, memoryVars, torn>>

\* A scan that the bridge answers, or that fails: not connected, or too late.
Answer(by, typed, type, text, answered) ==
  scan' = IF answered
          THEN [by |-> by, typed |-> typed, found |-> ScanPattern(type, text, Target, Modules)]
          ELSE NoScan

\* Variant: the string is scanned for as if it were a signature.
ScanStringAsTyped(str, answered) ==
  /\ upc = "tools" /\ upc' = "list"
  /\ Answer("string", str, "IDA_SIGNATURE", StringToSignature(str), answered)
  /\ UNCHANGED <<listVars, heapVars, viewVars, memoryVars, torn>>

ScanString(str, answered) ==
  /\ upc = "tools" /\ upc' = "list"
  /\ Answer("string", str, "BYTE_PATTERN", StringToSignature(str), answered)
  /\ UNCHANGED <<listVars, heapVars, viewVars, memoryVars, torn>>

\* The type of the pattern is never set: scanPattern would detect it only if
\* it were given one.  What stands there decides how the text is read.
AnyType == {"IDA_SIGNATURE", "BYTE_PATTERN", "UNKNOWN"}

Throws(type, text) == \E i \in DOMAIN Items(type, text) : Items(type, text)[i] = BadByte

ScanSignature(text, answered) ==
  /\ upc = "tools" /\ upc' = "list"
  /\ \E type \in AnyType : ~Throws(type, text) /\ Answer("signature", text, type, text, answered)
  /\ UNCHANGED <<listVars, heapVars, viewVars, memoryVars, torn>>

\* An exception nobody catches.
ScanBadSignature(text) ==
  /\ upc = "tools" /\ \E type \in AnyType : Throws(type, text)
  /\ crashed' = TRUE
  /\ UNCHANGED <<listVars, heapVars, viewVars, scan, upc, memoryVars, torn>>

\* The results window is open while there is a match.
CloseResults ==
  /\ upc = "tools" /\ upc' = "list" /\ scan.found # 0
  /\ scan' = NoScan
  /\ UNCHANGED <<listVars, heapVars, viewVars, memoryVars, torn>>

\* A click on a match moves the selected class there.
ClickMatch ==
  /\ upc = "tools" /\ upc' = "list" /\ scan.found # 0
  /\ Chosen \in DOMAIN classes
  /\ UpdateAddress(Chosen, scan.found)
  /\ scan' = NoScan
  /\ UNCHANGED <<selected, heapVars, viewVars, memoryVars, torn>>

\* g_Classes.size() >= g_SelectedClass lets an empty list through: the store
\* goes to memory that is no class, with or without a crash.
ClickMatchWithoutClass ==
  /\ upc = "tools" /\ upc' = "list" /\ scan.found # 0
  /\ Chosen \notin DOMAIN classes /\ Len(classes) >= selected
  /\ scan' = NoScan
  /\ crashed' \in BOOLEAN
  /\ UNCHANGED <<listVars, heapVars, viewVars, memoryVars, torn>>

-----------------------------------------------------------------------------
(* The memory thread and the server thread *)

\* The next cycle, once the last read is done and the thread has slept.
StartWalk ==
  /\ mpc = "reading" /\ requests = <<>>
  /\ mpc' = "walking"
  /\ UNCHANGED <<listVars, heapVars, viewVars, scan, upc, snapshots, mnext, requests, torn>>

RequestOf(c) == [address |-> c.address, size |-> c.size]

Ask(list, c) == IF c.address # 0 THEN Append(list, RequestOf(c)) ELSE list

WalkOn ==
  /\ mpc = "walking" /\ ~torn /\ mnext \in DOMAIN classes
  /\ requests' = Ask(requests, classes[mnext])
  /\ mnext' = mnext + 1
  /\ UNCHANGED <<listVars, heapVars, viewVars, scan, upc, snapshots, mpc, torn>>

\* Variant: nothing is swept.
SweepNothing(list) == UNCHANGED snapshots

\* The snapshots of addresses that no request names are dropped.
Sweep(list) ==
  LET active == {list[i].address : i \in DOMAIN list}
  IN  snapshots' = [a \in Words |-> IF a \in active THEN snapshots[a] ELSE 0]

\* The walk is over: the preview is read too.
EndWalk ==
  /\ mpc = "walking" /\ ~torn /\ mnext \notin DOMAIN classes
  /\ mpc' = "reading" /\ mnext' = 1
  /\ requests' = Ask(requests, preview)
  /\ Sweep(requests')
  /\ UNCHANGED <<listVars, heapVars, viewVars, scan, upc, torn>>

\* A walk over a list that changed crashes, or goes on with whatever it finds:
\* no request, or one for any number.
EndTornWalk ==
  /\ mpc = "walking" /\ torn
  /\ torn' = FALSE /\ mnext' = 1
  /\ \/ crashed' = TRUE /\ UNCHANGED <<snapshots, mpc, requests>>
     \/ /\ \/ requests' = <<>>
           \/ \E a \in Contents \ {0}, size \in Sizes :
                requests' = <<[address |-> a, size |-> size]>>
        /\ Sweep(requests')
        /\ mpc' = "reading" /\ UNCHANGED crashed
  /\ UNCHANGED <<listVars, heapVars, viewVars, scan, upc>>

\* Variant: bytes already cached for the address are kept, as by emplace.
ReadOnce ==
  /\ mpc = "reading" /\ requests # <<>>
  /\ snapshots' = [snapshots EXCEPT ![Head(requests).address] = IF @ = 0 THEN Head(requests).size ELSE @]
  /\ requests' = Tail(requests)
  /\ UNCHANGED <<listVars, heapVars, viewVars, scan, upc, mpc, mnext, torn>>

\* read_blocking brings the bytes in time.
Read ==
  /\ mpc = "reading" /\ requests # <<>>
  /\ snapshots' = [snapshots EXCEPT ![Head(requests).address] = Head(requests).size]
  /\ requests' = Tail(requests)
  /\ UNCHANGED <<listVars, heapVars, viewVars, scan, upc, mpc, mnext, torn>>

\* It does not: the snapshot of the last cycle stays.
FailRead ==
  /\ mpc = "reading" /\ requests # <<>>
  /\ requests' = Tail(requests)
  /\ UNCHANGED <<listVars, heapVars, viewVars, scan, upc, snapshots, mpc, mnext, torn>>

\* initClasses, from the callback of an attachment.  mem::x32 was set a line
\* before it is compared, so only an empty list is filled.
InitClasses ==
  /\ classes = <<>>
  /\ \E b \in Blocks : Malloc(b) /\ Restructure(<<Fresh(0, FreshSize, b)>>)
  /\ UNCHANGED <<selected, misused, viewVars, scan, upc, memoryVars>>

-----------------------------------------------------------------------------

\* Steps that may end the process are UiFault's.
UiStep ==
  \/ LookAtList \/ NewClass
  \/ \E i \in 1..MaxClasses : Select(i) \/ Delete(i) \/ ExportBare(i)
  \/ LookAtNodes \/ DeleteAllNodes
  \/ \E text \in Texts : EnterAddress(text)
  \/ \E size \in Sizes : Edit(size)
  \/ \E num \in Contents : HoverPointer(num) \/ OpenPointer(num)
  \/ NoTool \/ CloseResults \/ ClickMatch
  \/ \E str \in Strings, answered \in BOOLEAN : ScanString(str, answered)
  \/ \E text \in Signatures, answered \in BOOLEAN : ScanSignature(text, answered)

UiFault ==
  \/ LeaveAddress \/ DrawBare \/ ClickMatchWithoutClass
  \/ \E text \in Signatures : ScanBadSignature(text)

MemoryStep == WalkOn \/ EndWalk \/ Read

\* Once a block was given back that was not the class's own, the heap is corrupt or
\* somebody else has lost a block in use: nothing more is said of the process.
Over == crashed \/ misused

Halted == Over /\ UNCHANGED vars

\* What the history variable makes of a step.
Disturbs   == classes' # classes \/ preview' # preview
KeepSteady == steady' = (steady /\ ~Disturbs)

Next ==
  \/ /\ ~Over
     /\ \/ UNCHANGED crashed /\ (UiStep \/ InitClasses) /\ KeepSteady
        \/ UNCHANGED crashed /\ MemoryStep /\ UNCHANGED steady
        \/ UNCHANGED crashed /\ StartWalk /\ steady' = TRUE
        \/ UNCHANGED crashed /\ FailRead /\ steady' = FALSE
        \/ UiFault /\ KeepSteady
        \/ EndTornWalk /\ steady' = FALSE
  \/ Halted

Spec == Init /\ [][Next]_vars

-----------------------------------------------------------------------------
(***************************************************************************)
(* Safety                                                                  *)
(***************************************************************************)

\* The selection is an index of the list as long as there is a class, after
\* any sequence of deletions, pointers opened and classes made by the server
\* thread (g_Classes[g_SelectedClass] in renderMain is not checked).
SelectedExists == IF classes = <<>> THEN selected = 0 ELSE Chosen \in DOMAIN classes

Kept == {i \in DOMAIN classes : ~classes[i].bare}

\* Every class that has nodes, and the preview, own a block of their own, and no
\* block is left without an owner: uClass has no destructor and is copied member
\* by member, so the free() of Delete and of the preview must match the
\* malloc()s exactly.  A bare class has given its block back, until the first
\* time it is deleted or exported (FreedOnce).
OwnBlocks ==
  ~misused => /\ blocks = {preview.data} \cup {classes[i].data : i \in Kept}
              /\ Cardinality(blocks) = Cardinality(Kept) + 1

\* What Delete frees is in use.  sizeToNodes tells the user "Failed to reallocate
\* memory!" (classes.h:390) and leaves data to the class, as if realloc had not
\* freed it.
FreedOnce == [][\A i \in DOMAIN classes : Delete(i) => classes[i].data \in blocks]_vars

\* A class alone at its address: neither another class nor the preview asks for
\* another number of bytes there.
Unrivalled(c) ==
  /\ c.address # 0
  /\ preview.address = c.address => preview.size = c.size
  /\ \A i \in DOMAIN classes : classes[i].address = c.address => classes[i].size = c.size

\* A cycle of the memory thread in which every read worked and no class changed
\* leaves every class a snapshot drawNodes can use: one of just its size, which
\* neither the sweep nor a later read of the cycle has taken away.
CycleServesEveryClass ==
  steady /\ mpc = "reading" /\ requests = <<>> =>
    \A i \in DOMAIN classes :
      Unrivalled(classes[i]) => snapshots[classes[i].address] = classes[i].size

\* Nor does the cache keep what nobody shows: after such a cycle it has no
\* snapshot of an address that neither a class nor the preview has, whatever was
\* deleted or moved in the cycles before.
CycleDropsTheRest ==
  steady /\ mpc = "reading" /\ requests = <<>> =>
    \A a \in Words : snapshots[a] # 0 =>
      a = preview.address \/ \E i \in DOMAIN classes : classes[i].address = a

\* What mem::read copies is in the snapshot (its "Safety check", memory.h:653),
\* with one exception.  The last check makes up for the sum before it that wraps,
\* unless the read runs over the top of the address space and is longer than the
\* snapshot's own address.  Such a snapshot can be had, as a class may be given
\* any address: then the bytes copied lie before it.
CachedReadsStrayAtTop ==
  Init => \A start, a, n \in Words, len \in 1..W :
    Serves(start, len, a, n) => Inside(start, len, a, n) \/ (n > start /\ a + n >= W)

UpTo(S, n) == UNION {[1..k -> S] : k \in 1..n}

\* Every expression of numbers of a word and module names the parser can tell,
\* blanks between them or not, parses to the sum of its terms as words
\* (parseInput, and README.md's "Math operations work inside the address bar").
\* Other names are cut or taken for nothing, Game-Win64.exe and KERNEL32.DLL too.
ParserRight ==
  Init => \A terms \in UpTo(Terms, MaxText), n \in 0..MaxText :
    ParseInput(Render(terms, [k \in 1..n |-> Blank]), Modules) = Sum(terms, Modules)

Targets == {i \in DOMAIN Modules : Modules[i].name = Target}

\* found is where str first stands in the module the scan is for, 0 if nowhere.
FoundFirst(str, found) ==
  IF Targets = {} THEN found = 0
  ELSE \E i \in Targets : found = FirstOccurrence(str, Modules[i])

\* A string scan finds the first place of the module where the string stands,
\* and nothing else: the two backslashes stringToSignature writes, the skipping
\* in patternToMask and the bytes above 127 of a signed char included.
StringScanFinds == scan.by = "string" => FoundFirst(scan.typed, scan.found)

\* The same of the algorithm alone, for every string of a length (stringToSignature,
\* patternToMask and the bridge's search, one after the other).
StringScanRight ==
  Init => \A str \in UpTo(Alphabet, MaxText) :
    FoundFirst(str, ScanPattern("BYTE_PATTERN", StringToSignature(str), Target, Modules))

\* A text that is a signature by detectPatternType is found where it matches.
\* The type that decides how scanPattern reads it is never set.
SignatureScanFinds ==
  scan.by = "signature" /\ DetectPatternType(scan.typed) = "IDA_SIGNATURE" =>
    IF Targets = {} THEN scan.found = 0
    ELSE \E i \in Targets : scan.found = FindPattern(Modules[i], IdaItems(scan.typed))

=============================================================================
