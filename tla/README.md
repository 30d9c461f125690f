# Verification of ImClass

TLA+ models of ImClass, the class viewer in `src/` (C++ headers around a `WinMain`) together with
the bridge script `src/imclass_server.as` that runs inside perception.cx and touches the memory of
the target process for it. TLC checks the models on small instances; TLAPS proves the central
properties for every value of the constants.

## 1. The system

| component | source | state | operations |
|---|---|---|---|
| request table and sending | `websocket_server.h` | `pending_requests`, `request_counter`, `has_connection`, `ws_stream` | `send_request`, `send`, `do_read`, `process_response`, `cleanup_stale_requests` |
| functions that wait for answers | `memory.h` | a promise per call | `read_blocking` (50 ms), `write` (100 ms), `findPattern` (5 s), `getModules`, `initProcessByName` (no wait) |
| attachment and module list | `memory.h`, `main.cpp`, `ui.h` | `activeProcess`, `g_pid`, `g_NeedsModuleRefresh`, `moduleList`, `memHandle` | `initProcessByName`, `getModules`, `isProcessAlive`, `cleanDeadProcess`, the buttons Attach and Refresh Modules |
| memory reader | `classes.h` (`MemoryReadThreadFunc`) | `g_MemorySnapshots` | a round every few ms: collect addresses, evict, read, store |
| bridge | `imclass_server.as` | `g_proc`, `g_ws` | one handler per request, `main`, `on_unload` |
| frame loop | `main.cpp` | none of its own | window messages, sweep, refresh flag, render |
| layout of a class | `classes.h` (`uClass`) | `nodes`, `size`, `data`, locks, selected nodes | clicks, the popup, `changeType`, `resize`, Delete, Lock, Unlock, `normalizeNodes`, `sizeToNodes`, `exportClass` |
| connection | `websocket_server.h`, `main.cpp` | `ws_stream`, `has_connection`, `running` | `do_accept`, the handshake, `do_read`, `send`, `stop` |
| class list and selection | `ui.h`, `classes.h` | `g_Classes`, `g_SelectedClass`, `g_PreviewClass`, `renamedNode` | New, Delete, select, hover and open a pointer, `initClasses` |
| cached reads and RTTI | `memory.h` | snapshots, RTTI cache | `read`, `rttiInfo` |
| address bar | `parser.h`, `ui.h` | none | `parseInput`, `updateAddress` |
| signatures | `patterns.h`, `memory.h`, `ui.h` | the list of matches | type detection, masks, scan, a click on a match |
| exports and sections | `memory.h` | `g_ExportMap` | no callers |
| logging, rendering, build | `logging.h`, `directx.h`, project files | log vector, device | |

**Who runs.** The *UI thread* runs frames; the *memory thread* reads snapshots; the *server thread*
runs boost::asio and with it every callback; the *bridge* polls its socket in a process of its own.
**How they meet.** UI and memory thread put a callback into `pending_requests` under
`request_mutex` and write to the socket without a lock. The bridge answers in the order it reads.
The server thread finds the callback by its id and runs it under `request_mutex`; the callback sets
a promise, or writes the attachment, the flag or the module list directly. Once a frame the UI
thread erases requests that are too old. Snapshots pass from the memory thread to the UI thread
under `g_MemoryMutex`; `g_Classes` and `moduleList` are shared without a lock.

**What is hard.** A late answer against a timeout against the sweep; overlapping writes; losing and
regaining the connection with requests under way; the refresh flag set by one thread while another
clears it; two programs that each have an idea of the attached process; data of an earlier process
that stays on the screen; in the layout, sequences of edits that must keep locked variables where
they are; a second client that comes while the first is served; three threads on one list without a
lock; classes that give their memory back and are used on; machine words that wrap. `PROJECT.json` lists every hazard with its line and the properties about it.

**What makes each part correct.**
* Request table: an answer reaches the request it answers or nobody; no request stays for ever while
  the UI thread is not held up; no wait is without end; the sweep takes nothing that somebody waits for; callbacks of one thread run
  in order; a callback touches only what still exists.
* Attachment: ImClass and the bridge name the same process; the module list follows it; a refresh
  that is owed happens; a dead process is given up.
* Reader: what stays on the screen is brought up to date.
* Layout: locked variables stay at their offsets; block, size and nodes agree; an edit moves nothing
  it need not move; the selection stays on its bytes; printing changes nothing.
* Connection: `has_connection` tells the truth; the newest client is served; a stream is not destroyed
  under its user; the program can end once its client has hung up.
* Class list: the selection names a class; every block of memory has one owner; an undisturbed cycle of
  the reader serves every class and nothing else.
* Pure parts: the parser computes the sum, a pattern matches what it says, a cached read returns bytes
  of the range asked for.

## 2. The modules

### RequestReply, the abstract request
A request is unused, open, answered or dropped. It is opened once and answered at most once; it is
dropped only when older than `StaleAge` seconds. There is no socket, lock or thread.

### RequestMux, the multiplexer
The table, the callers, the connection and the server thread. A step lies between two points where
another thread can interfere:

| code | actions |
|---|---|
| `send_request` up to the unlock | `Register` |
| `send`: not connected; the write and its end | `CannotSend`; `BeginWrite`, `EndWrite`, `EndSpoiledWrite` |
| `wait_for` | `Wake`, `TimeOut` |
| `do_read`, `process_response` | `Receive`, `Find`, `Callback`, `Erase`, `ReadError` |
| `cleanup_stale_requests`, rest of the frame | `Cleanup`, `EndFrame` |
| `do_accept` with the handshake | `Connect` |
| bridge, TCP, clock | `PeerAnswer`, `LinkDown`, `Tick` |

`request_mutex` is held exactly while `spc` is `"found"` or `"ran"`. Two overlapping writes to one
stream are undefined: each such message arrives or is lost (a garbled one that the bridge cannot parse counts as
lost). A write is synchronous and has no timeout: it may last for ever. The callback of `findPattern` refers to a
promise in its caller's frame; after that has returned, the store is undefined and modelled as a
store nobody sees or as the end of the program. Ages count whole seconds, as the code's
`duration_cast` does. A request is identified with its id; what it asks about is its `subject`, and
an answer carries the subject it was made for, so a mix-up is visible.

### Session, who is attached to what
`TopOfFrame`, `ClearFlag` and `RefreshModules` are the test, the clear and the call in `main.cpp`,
separate because the server thread sets the flag between them. `ClickAttach`, `ClickRefresh`,
`ShowAddresses` are what the user does within a frame; `EndRender` and `CheckProcess` are the end of
`renderMain`. `CollectReads`, `StartRead`, `FinishRead`, `TimeOutRead` are a round of
`MemoryReadThreadFunc`. `ProcessResponse` runs a callback; the one of an attachment takes two steps
(`AnswerRef`, then `FinishAttach`), as other threads see its assignments one at a time.
`HandleRefProcess`, `HandleRvm`, `HandleGetModules` are the bridge's handlers. The content of a
snapshot or a module list is the process it came from. How requests find their callbacks is left to
RequestMux; here they travel in two queues. A read that timed out leaves the queues at once: its late answer sets a
promise that nobody holds. `DropLateAnswer` is an answer whose request was swept. `HandleOpen` is
`FALSE` because no line assigns `memHandle`. `owed` is a history variable: set when an attachment
completes, cleared when `getModules` is called.

### ClassLayout, the nodes of a class
Every edit runs inside one frame on one thread and is one action that includes the normalisation and
the reallocation the code performs. A type is a size and whether it names a variable. A node's
offset is the sum of the sizes before it, as in the code; only a locked node stores one.
`realloc(data, 0)` frees the block and returns `NULL`, which the code takes for a failure, so `size` stays.
`Click`, `CtrlClick`, `ShiftClick` and `OpenPopup` are the ways `drawControllers` selects nodes; `Edit` is what the
popup offers, and applies to the nodes that are selected. A popup leaves a selection alone that its node belongs
to, so `Edit` asks only that something is selected; Lock and Unlock are for the popup's own node. With Shift and
nothing selected the loop starts at `INT_MAX`, far outside the vector: `ShiftClickUnselected` ends the process.

### Connection, the clients of the server
`Accept`, `Welcome`, `HandshakeFails`, `ReadMessage`, `ReadError` are the completion handlers of
`do_accept` and `do_read`; the server thread runs one at a time. Streams are numbered as clients
connect, and `cur` is the one `ws_stream` points to. `Accept` replaces it: the old stream is destroyed,
and what was pending on it completes with an error, later. `Write` and `WriteEnds` are a `send` on
another thread. `stop()` is the UI thread's way through `upc`, once the memory thread is joined: `Stop` begins the
close of the stream, `CloseReturns` ends it, `StopLoop` is `ioc.stop()` and `Join` the end of the server thread.
The close is synchronous and has no timeout. It waits until the client has hung up (`CloseDone`), or ends
because it and the read that is pending in the server thread tear what arrives between them (`CloseGarbled`);
meanwhile the server thread goes on to accept and to read, and `CloseDrops` is what the close itself reads away.
After `StopLoop` no handler is begun. A stream that is destroyed under the thread that writes to it or
closes it is a use of freed memory: the process dies or it does not. `overlap` is a history variable: a client was accepted while another was being read. RequestMux
accepts a client only after the end of the one before; it agrees with Connection as long as there is
no `overlap`.

### ClassList, the classes and who walks over them
The UI thread goes through the phases of `renderMain` (`"list"`, `"address"`, `"nodes"`, `"tools"`), with
one thing the user does in each: `Select`, `NewClass`, `Delete`, `ExportBare`; `EnterAddress`; `Edit`, `DeleteAllNodes`, `HoverPointer`,
`OpenPointer`; the scans, `CloseResults`, `ClickMatch`. The memory thread's cycle is `StartWalk`, a
`WalkOn` for each class, `EndWalk` with the sweep of the snapshots, then `Read` or `FailRead` for each
request. The server thread's part is `InitClasses`. A change in the number of classes while the walk is
on sets `torn`; what a torn walk does is undefined (`EndTornWalk`: it dies, or it asks for nothing or for
any number). `blocks` holds what `malloc` has given: `ResetPreview` frees before it allocates, so it may
get the same block again. `steady` is a history variable: in this cycle no class changed and no read
failed.

A class whose nodes are all deleted becomes `bare`: its block has gone back to `malloc`, which may give it to
another class, while size and data stay. It is still listed and read; nothing can be clicked in it; to draw it copies
its snapshot into the block all the same (`DrawBare`). To delete or export it gives the block back once more
(`GiveBack`), and takes it from whoever has it. From there on the heap is corrupt: `misused` records it, and the
model stops (`Over`), as it does when the process dies. Of what the process may die in this module: the
walk without a lock (`EndTornWalk`), the copy to a freed block (`DrawBare`), the click on a match without a class
(`ui.h:242` compares with `>=`), and `std::stoi` on what is no number (`ScanBadSignature`). They end a
behaviour, and no property speaks of them.

It uses three modules of operators:
* `AddressParser`: `ParseInput` is `parseInput` on texts that are sequences of words, blanks and
  operators: `Cut` takes the text apart at its operators, `SumOf` adds up the trimmed tokens. A name is a sequence
  of words, blanks and operators too. `Sum`, the sum of
  the terms as one machine word, is the reference, and `Render` the text a user may type for them; its terms are
  numbers and the names that `parseInput` can tell (`Readable`).
* `Patterns`: `StringToSignature`, `PatternToMask`, `DetectPatternType`, `ScanPattern` on sequences of
  characters, with `FirstOccurrence` as the reference. The bridge's search is `find_code_pattern`, external.
* `CachedRead`: the conditions of `mem::read`, whose sums wrap at `W`, and `Inside`, what the copy needs.

### MC modules and proofs
`MCSession` and `MCClassLayout` add a symmetry set and the small set of types; `MCClassList` adds
the words of the target, its module, its three bytes of memory and an alphabet. The comparisons of the pure operators with
their references are properties of ClassList (`ParserRight`, `StringScanRight`, `CachedReadsStrayAtTop`). They depend on
no variable and are stated for the initial states; `MaxText` and `Alphabet` bound the inputs TLC tries.

`RequestMux_proofs`, `Session_proofs`, `Connection_proofs`, `ClassLayout_proofs`, `AddressParser_proofs` (with
`CachedRead`), `Patterns_proofs` and `ClassList_proofs` hold the theorems about the modules they are named for.
`Recursion` holds what those about data rest on: induction and recursion over numbers and sequences.

## 3. The runs

| run | instance | shows |
|---|---|---|
| `mux` | 2 threads, 2 requests (find_pattern or get_modules on the UI thread, rvm on the other), 2 connections, 2 subjects, fairness | `TypeOK`; `ReplyMatchesRequest`; `UiWaitKeepsItsRequest`; `AnswersInOrder`; the refinement `ImplementsRequestReply`; `EveryRequestLeavesTheTable`, `EveryWaitEnds` |
| `scan_target` | one request | **violated**: `CallbackTargetAlive` |
| `session_safety` | 2 processes, 3 clicks, 2 connections, 1 exit, 1 late answer, failures of the bridge | `TypeOK`, `RefreshNotLost`, `AttachAgrees` |
| `session_live` | 2 processes, 3 clicks, 1 exit, fairness | `ModulesFollow`, `ViewCatchesUp` |
| `dead_process` | one click, one exit, fairness | **violated**: `DeadProcessCleaned` |
| `layout` | 3 nodes, 3 types, all clicks | `TypeOK`, `LocksHonoured`, `BlockFitsNodes`, `DeleteKeepsLocked`, `ShrinkMovesNothing`, `RetypeKeepsSelection`; `SelectionEndsByHand`, `ExportChangesNothing` |
| `locked_offset` | the same | **violated**: `LockedNeverShift` |
| `class_list` | 2 classes, sizes 1 and 2, 3 blocks, words of 3 bits | `TypeOK`, `SelectedExists`, `OwnBlocks`, `CycleServesEveryClass`, `CycleDropsTheRest` |
| `scans` | 1 class of size 1, 2 blocks, the scans and all small inputs | `StringScanFinds`; `ParserRight`, `StringScanRight`, `CachedReadsStrayAtTop` |
| `freed_twice` | as `class_list` | **violated**: `FreedOnce` |
| `signature_scan` | as `class_list`, with a signature in IDA style | **violated**: `SignatureScanFinds` |
| `connection` | 3 clients, one unread message of each, fairness | `TypeOK`, `StatusIsTrue`, `StatusHasReader`, `DestroyedInUse`; `NewestIsServed`, `EndIsNoticed`, `StopEnds` |

**Bounds.** `MaxRequests`, `MaxConnects`: two requests are the fewest that can be confused, and give
both threads one; two connections give an old one with requests under way and a new one. The UI thread's
`read_blocking`, for RTTI, waits as the memory thread's does and shorter than `findPattern`; with it among the
kinds of request the safety properties were checked once on their own (535,789 states). `AnswersInOrder` was also
checked once with three requests, where an answer can be lost between two others (2.26 million states);
its proof covers any number. `StaleAge` and
`ScanWait` are equal, as 5 and 5 are in the code, and 1: what matters is that a scan may end while
its request is exactly `StaleAge` old and not yet stale. `MaxClicks = 3`: attach to one process,
attach to another, refresh in between, or a failed attachment after a good one. `MaxExits = 1`,
`MaxLate = 1`, `MaxQueue = 3` (the clicks wait while that many messages are under way). One address
is enough for safety, as no property relates two; the safety run was also tried with two addresses
once (20.6 million states, no error). `MaxNodes`: a class with more nodes is not clicked on or edited further, but
its padding and remainders (up to 12 bytes, so 8, 4, 2 and 1 all occur) are checked. `Amounts`: one addition, of 4
bytes. `Types`: a filler of 8 bytes, a variable smaller and one larger than it, with a size that is
not a power of two, so that remainders are odd.
`MaxStreams = 3`: a client that
replaces one that replaced another. `MaxUnread = 1`: a message of a stream that was replaced before it was
read. `MaxClasses = 2`, `Blocks` one more: one class above and one below the selection, and a preview.
`MaxSize = 2`: two classes, or a class and the preview, that want different sizes at one address. `W = 8`
with a module at 4 to 6 holding the bytes 5, 200, 200: a number that is a pointer into the module, a byte above
127, a match that is not the first byte; `Contents` is 5, a number that is neither the module's base nor its end.
The scans have a run of their own (`scans`), in which one class of one size is enough: they read the module and
the selected class's address only. `MaxText = 4` there: expressions of up to four terms with up to four blanks around the
operators, strings of up to four characters (one of them a backslash, one above 127). Cached reads are tried with
every snapshot, at every address and of every length a word can hold. The names typed are a module, a library that
is not loaded, and one with a blank in it.
Deadlock is checked in every run: frames always go on.

**Fairness.** Of ImClass only what its loops guarantee: the frame loop and the timed waits go on, the
io thread processes what arrived, the clock ticks. The frame loop skips the sweep while window
messages are pending (`main.cpp:35-39`, `continue`); those are assumed to be finite. In RequestMux neither bridge nor
connection is assumed to do anything, and no write is assumed to end: a bridge that stops reading can hold the
thread that sends for ever. The end of a wait does not depend on it, as a wait begins after the write. The sweep
does when it is the UI thread that is held, so `EveryRequestLeavesTheTable` is about behaviours in which
that thread always comes back from its writes; the memory thread may hang in one. In Session the bridge polls, and a read at an address is
answered within its 50 ms infinitely often if it is attempted infinitely often (strong fairness):
without that, no view could ever be refreshed. Clicks, exits and connections are never assumed. In Connection the server thread gets
to its next handler (`io_context::run` on a thread of its own), a client that stays connected makes
its handshake, `close()` returns once the connection it waits for has ended, and the UI thread goes on
where it does not wait. No client is assumed to come, send, stay or hang up, and no write is assumed to
end. `StopEnds` therefore begins where the client has hung up: from there on the server thread, whose acceptor is
armed, may accept and serve the others, and stops all the same. That a client that does not hang up holds
the program at its end is in `PROJECT.json` as a hazard; no property can be had of it.

**Meaning of the less obvious properties.** `UiWaitKeepsItsRequest` depends on the sweep running on
the UI thread between that thread's own waits; the mutant that sweeps at any other time breaks it.
`AttachAgrees` excepts a bridge that was restarted (it has no process, ImClass keeps its own) and
applies until the first swept answer: after one, nothing in the code restores agreement.
`RefreshNotLost` is about a second attachment in the middle of the frame that serves the first.
`ModulesFollow` applies to a bridge that fails nothing, since a failed `get_modules` leaves the old list.
`StatusIsTrue` and `NewestIsServed` except an overlap of clients: the end of the replaced stream then
clears the flag of the new one. `StatusHasReader` holds even so. `DestroyedInUse` says that an overlap, a client
that was gone unnoticed, or the shutdown is needed for a stream to be destroyed under its user.
`CycleServesEveryClass` excepts classes whose address another class or the preview shows with another size:
snapshots are keyed by the address alone and `drawNodes` accepts only one of the right size, so the class read
first stays as it was. `OwnBlocks` is about classes that have nodes, until a bare class is deleted or exported; `FreedOnce`
shows that it can be. `CachedReadsStrayAtTop` is what the checks of `mem::read` do achieve: the last one
subtracts first and makes up for the sum that wraps, but for a read over the top of the address space that is
longer than the snapshot's own address. `ParserRight` is about
the names that the parser can tell: no operator and no `!` in them, `.dll` or `.exe` in lower case, no blank at an end.
`RetypeKeepsSelection` is about types no larger than the nodes they replace: a larger type takes new bytes. With
`SelectionEndsByHand` it says that types can be tried one after another without selecting again, and when a click
with Shift is safe.

## 4. What the violated runs show

* `scan_target`: `findPattern` gives its callback a reference to a local promise (`memory.h:778`) and
  returns after five seconds; the request is swept after more than five, at the next frame. An
  answer in between stores through a dangling reference. The other waits share their promise.
* `dead_process`: `isProcessAlive` goes by `memHandle`, which nothing assigns, so `cleanDeadProcess`
  never runs and an exited process stays attached.
* `locked_offset`: the normalisation pads before a locked variable but never removes padding, so a
  larger node above shifts it (README.md:8 and 55 of the program say otherwise).
* `freed_twice`: deleting all nodes frees the block, and `size` and `data` stay as they were. Deleting the class
  itself then calls `free` on the same block once more, or takes it from the class that has been given it since.
* `signature_scan`: `scanPattern` detects how a signature is written only if it was *told* so
  (`patterns.h:214`), and the window that calls it leaves the type uninitialised. A signature in IDA style that is
  taken for a byte pattern keeps one wildcard, which the first byte of the module matches.

Where the program's README disagrees with the code without a run of its own: it says invalid input in the
address bar gives zeroed output (README.md:53), but `parseInput` takes what it does not understand as 0 within
the sum and `updateAddress` ignores a sum of 0; its example (README.md:45) does not add up; and the exports it
offers (README.md:51) are never gathered. It says that a library name stands for its base (README.md:49), but
`parseInput` cuts at every `+` and `-` (`parser.h:45`) and looks for `.dll` and `.exe` in lower case (`parser.h:79`), so
`Game-Win64-Shipping.exe` and `KERNEL32.DLL` are taken for 0. Such names are outside of `Readable`, and so of `ParserRight`.

And where a check of the code does less than it says: the "Safety check" of `mem::read` (`memory.h:653`) wraps like
the one before it when the snapshot starts lower than the read is long. A class can be given any address, and
the bridge answers a read of any, if need be with too few bytes, which `read_blocking` fills up with zeros
(`memory.h:686-693`), so there are such snapshots. `CachedReadsStrayAtTop` says that this is the only way for a read to stray.

## 5. The proofs

All are for any sets of threads, subjects, processes, addresses and blocks, any width of words, texts and
strings of any length, classes of any number of nodes, and any bounds. Each safety invariant and action property
that a passing run checks is stated by a theorem. What they assume of the constants is named:
* `ThreadsAssumption`, `KindsAssumption`, `ValuesAssumption`, `NumbersAssumption`, `SessionAssumption`,
  `ConnectionAssumption`: sentinels are no members of the sets, bounds are natural numbers, `ScanWait` is at
  most `StaleAge`.
* `LayoutAssumption`: a class starts with a node (the code gives it 50), the menu adds some bytes, and a type has 1 to 64
  bytes (the texts and the 4x4 matrix are the largest).
* `WordAssumption`: there is a word. `ListAssumption`, `ContentsAssumption`: sizes within their bound, memory
  that holds words.
* `LiteralsAssumption`, `SpellingAssumption`, `NamesAssumption`: words are what stands between operators, blanks and `!`,
  names and modules are sequences of any of these; no word with `.dll` or `.exe` in it is a number, since `isValidHex`
  takes hexadecimal digits only.
* `TextsAssumption`: characters of a scanned string are those of a signed `char`.
* `ModulesAssumption`: a module lies within the address space.

`RequestMux_proofs`
* `TypeCorrect`, from `TableInv`: the types; a busy thread has an issued request (`TypeInv`); the server
  thread, once it has found an entry, holds an id that stays in the table (`ServerHolds`); a pending
  request has no answer except the one whose entry is about to be erased (`PendingUnsettled`).
* `RepliesMatch`: `ReplyMatchesRequest` is not inductive, as it says nothing about messages under way.
  `Faithful` adds that every message in either direction, and the one being processed, is about what
  its id's request asked. A new request never disturbs this since `NewId` was never issued.
* `UiWaitSafe`: with `TableInv`; an entry leaves the table by `Erase`, and then it is settled, or by
  `Cleanup`, and then the UI thread waits for nothing.
* `Refinement`: `Spec => ImplementsRequestReply` under the mapping `StatusOf`, `AgeOf`. `PendingUnsettled`
  is what makes a callback the abstract `Answer` and keeps the sweep from dropping answered requests
  (`ServerHolds` keeps the found one in the table until `Erase`, which maps to a stutter).

`Session_proofs`
* `RefreshKept`: `RefreshNotLost` is inductive as it stands.
* `SessionTypes`, from `ReadInv`: at most one read is under way and only while the reader waits for it
  (`OneRead`), without which an answer to an abandoned read could set a promise that is not there.
* `AttachConsistent`, from `AgreeInv`: if an answer about an attachment is under way, the last one says
  what `g_proc` is (`LastAnswerTrue`); there is a connection behind every attachment (`Connected`). The
  case that needs care is a timed-out read, which removes a message from the middle of a queue:
  `ForgottenProperties` shows it keeps the order of the others.
* `ModulesConsistent`, from `FollowInv`: once settled, that is with the conditions of `ModulesFollow` but lists
  possibly under way, either a list is still asked for, or the last list on its way is the attached
  process's, or it is in place (`ListFollows`). A list asked for before an attachment does no harm, as the
  attachment owes another; one asked for after it finds the bridge at that process (`AttachAgrees`).

`RequestMux_proofs`, the order
* `InOrder`, from `OrderInv`: of each thread's messages, those answered, the one in the read handler, those
  on the way back and those on the way out stand in the order of their ids (`PipesSorted`), and what the thread
  has yet to write is newer than all of them (`SendersLast`).

`Connection_proofs`
* `ConnectionTypes`; `StatusTrue` and `StatusRead`, from `StatusInv`: nothing is pending on a stream not yet
  accepted (`AcceptedOnly`), only one stream is read unless clients overlapped (`OneReader`).
* `DestroyedOnly` adds that a stream in use was being read when its use began, or the server stops (`UserServed`).

`ClassList_proofs`
* `SelectionValid`, `BlocksOwned`, from `ListInv`: who owns which block, bare classes excepted, with the number of
  blocks (`Owners`; a block freed twice or lost would show in their number), and the selection in every
  phase of the frame (`InFrame`). `OwnersAppend`, `OwnersRemove`, `OwnersReplace`, `OwnersEmpty` and `OwnersPreview` say
  what the operations on the list do to ownership. `ListInv` says `misused \/ Owners`: with a block given back
  that was not the class's own there is nothing more to own, and the model stops.
* `CacheSwept`, from `CacheInv`: in a steady cycle what was swept, read and asked for is shown.
* `ListTypeCorrect`, from `TypeInv`: the list, the snapshots and the requests by their types, and that whatever is entered
  or found is a word (`ParseInputType`, `FindPatternType`).
* `CycleServes`, from `ServeInv`: while it walks undisturbed, the reader has asked for every class it has come
  past, and for nothing but classes; while it reads, every class that no rival of another size can spoil is either still
  asked for or has its snapshot. That nothing else is asked for matters, as it could overwrite a snapshot that is there.
* `StringScansFind`, from `ScanInv` (what is shown as found is what the scan of that string found), and `StringsRight`,
  both by `StringsAreFound` below. `AddressBarRight` is by `ExpressionsAreSums`, `CachedReadsBounded` by `ServedInside`.

`ClassLayout_proofs`
* `LayoutTypeCorrect`, `LocksAreHonoured`, `BlockAlwaysFits`, from `IInv`, the conjunction of the three. An edit ends in
  `Normalize`, which makes any nodes `Normal` whatever they were before (`NormalizeStep`): a locked node gets as much
  padding in front as it lacks (`PlacedLayout`), and `Fills` says that fillers of 8, 4, 2 and 1 bytes make up any number
  of bytes. What does not lay out again, a click or Unlock, needs the old nodes to honour their locks and to agree with
  the block, and their sizes to be numbers.
* `DeleteKeepsLockedNodes`, from `Below`: the layout of what is left of the first nodes never reaches beyond where they
  ended, so there is room to pad each locked node back to its offset. It needs `LocksHonoured`.
* `ShrinkingMovesNothing` and `RetypingKeepsSelection`, from `AsBefore`: what is made of the first nodes is exactly as
  long, every node that was not selected is where it was, and the bytes the selected ones cover (`Marks`) are the same.
* `SelectionsEndByHand`, `ExportingIsReading`: of each action, whether it leaves a node selected and the nodes alone.

`AddressParser_proofs`
* `ExpressionsAreSums`: whatever terms are typed, of numbers that fit a word and of readable names, with any blanks
  around the operators, `ParseInput` gives their sum as
  a word. The induction is over the terms. Its hypothesis (`Parsed`) is that the text so far is cut where it should be (`IsCut`,
  with `CutOperator` for an operator and `CutRun` for a run of blanks or a name) and that its tokens add up to the sum so
  far; blanks around a name go when a token is trimmed, those in it stay (`TrimWord`), what is left means what the term
  means (`WordMeaning`), and wrapping at each step is the same as wrapping once (`SumsWrap`).
* `ServedInside`: a cached read that is served lies inside the snapshot, or runs over the top of the address space
  and is longer than the snapshot's address. Nothing is assumed of either.

`Patterns_proofs`
* `StringsAreFound`: a string scan finds the first place where the string stands. `MaskOfSignature` shows that
  `PatternToMask`, which jumps over what it has read, takes the signature `StringToSignature` writes back to the very bytes,
  by induction from the end of the string; `HexRoundTrip` is the same for one byte, negative characters included.

`Recursion`. The library states induction with an operator as a parameter, which the provers at hand cannot
instantiate. `SetInduction` states it for a set instead, from the theorem that `<` is well-founded; the recursive
functions of the modules exist (`RecursionExists`, `JumpingExists` where a step jumps forward), have their type and are equal
when their steps are alike by it, and `SequenceInduction` is its form for sequences. So what the recursive functions compute
could be proved for every input, as long as they are functions and not `RECURSIVE` operators.

Only model-checked is liveness: `EveryRequestLeavesTheTable` and `EveryWaitEnds` (`mux`), `ViewCatchesUp`
(`session_live`), `NewestIsServed`, `EndIsNoticed` and `StopEnds` (`connection`). It rests on fairness, and so on `ENABLED`,
which is beyond the prover. The runs that expect a violation state what does not hold.

## 6. Plan

Done, in this order: RequestReply, RequestMux, RequestMux_proofs, ClassLayout, Session, Session_proofs,
CachedRead, AddressParser, Patterns, ClassList, Connection, the proofs of the last two; then Recursion,
ClassLayout_proofs, AddressParser_proofs, Patterns_proofs and the rest of ClassList_proofs.
What could come next:
1. `DrawLoop`: the bounds the draw loop keeps across an edit, and `renamedNode`, which outlives its node. A single
   click breaks each; they are listed in `PROJECT.json`.
2. `Rtti`: the chain of reads of `rttiInfo`, its cache, and names too short for `substr(4)`.
3. `PebWalk`: the bridge's walk over the loader list of a running process, which counts only entries
   with a name and a base and need not end on a list that changes.

## 7. Not modelled

* No caller: exports and sections (`gatherExports`, `gatherRemoteExports`, `getSections`), `initProcess(pid)`,
  `receive`, `has_message`; `mem::write` has none outside `memory.h` and its request is among the kinds of
  RequestMux without being enabled in the runs. `incoming_messages` only grows, as nobody receives.
* Input and output: logging (the console iterates the log without its lock), drawing, Direct3D, the window
  procedure and the project files.
* The word size: `initClasses` compares `mem::x32` after the callback has assigned it (`classes.h:1487`),
  so it fills an empty list only, and so does the model.
* In ClassList the process stays attached, the text in the address bar is not kept, a size counts nodes of eight
  bytes (`CachedRead` counts bytes), and a class without nodes is one without anything to click. `InitClasses`, which the code runs on the
  server thread, is one step, as is the replacement of `moduleList`. Requests of the
  memory thread always find room: how they travel is RequestMux's subject.
* In Connection the operations that beast completes on a destroyed stream fail, as it promises.
* The memory reads of the bridge (address, size, encoding) are abstracted to the process they read from.
