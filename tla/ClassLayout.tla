----------------------------- MODULE ClassLayout ----------------------------
(***************************************************************************)
(* The nodes of one class window and the edits its popup menu makes        *)
(* (classes.h: drawControllers, changeType, resize, normalizeNodes,        *)
(* sizeToNodes, exportClass).  A node covers the bytes that follow those   *)
(* of the nodes before it; its offset is therefore never stored, except    *)
(* in a locked node, which remembers the offset it was locked at.          *)
(*                                                                         *)
(* Every edit runs on the UI thread inside one frame, so each is one step. *)
(* A type is seen as a size and whether it names a variable (type >        *)
(* node_hex64); names, values and colours are left out.  A node carries    *)
(* whether it is selected: clicks select nodes, and the entries of the     *)
(* popup apply to those that are.                                          *)
(***************************************************************************)
EXTENDS Integers, Sequences

CONSTANTS InitialNodes,  \* how many hex64 nodes the class starts with (50 in the code)
          Types,         \* the types the menu offers: records of size and var
          Amounts,       \* the numbers of bytes the menu adds
          MaxNodes       \* bound on the nodes of a class that is still edited

ASSUME LayoutAssumption ==
  /\ InitialNodes \in Nat \ {0} /\ MaxNodes \in Nat /\ Amounts \subseteq Nat \ {0}
  /\ Types \subseteq [size : 1..64, var : BOOLEAN]

VARIABLES nodes,  \* the nodes of the class, in the order of their offsets
          size,   \* uClass::size, what the reader thread and drawNodes go by
          block,  \* the bytes allocated at uClass::data, 0 once it was freed
          crashed \* a click has written outside the nodes

layoutVars == <<nodes, size, block>>
vars == <<nodes, size, block, crashed>>

NoOffset == -1

\* A new node of type t, locked at offset off unless that is NoOffset.
Node(t, sel, off) == [size |-> t.size, var |-> t.var, selected |-> sel,
                      isLocked |-> off # NoOffset, absoluteOffset |-> off]

Filler(n) == Node([size |-> n, var |-> FALSE], FALSE, NoOffset)

\* Where each of a sequence of nodes ends, the first one beginning at 0.
Ends(s) ==
  LET end[k \in 0..Len(s)] == IF k = 0 THEN 0 ELSE end[k - 1] + s[k].size IN end

\* The bytes a sequence of nodes covers, and where its i-th node begins.
Total(s)     == Ends(s)[Len(s)]
Offset(s, i) == Ends(s)[i - 1]

\* The fillers of n < 8 bytes, the largest first.
SmallFillers(n) == (IF n >= 4 THEN <<Filler(4)>> ELSE <<>>)
                     \o (IF n % 4 >= 2 THEN <<Filler(2)>> ELSE <<>>)
                     \o (IF n % 2 = 1 THEN <<Filler(1)>> ELSE <<>>)

\* The fillers of normalizeNodes and resize: as many hex64 as fit.
Padding(n) == [i \in 1..(n \div 8) |-> Filler(8)] \o SmallFillers(n % 8)

\* Variant: the fillers behind a shrunk node forget the odd byte.
RemainderEven(n) == [i \in 1..(n \div 4) |-> Filler(4)] \o SmallFillers((n % 4) - (n % 2))

\* What changeType puts behind a node that shrank by n bytes: no hex64.
Remainder(n) == [i \in 1..(n \div 4) |-> Filler(4)] \o SmallFillers(n % 4)

\* The nodes s, all of them selected.
AllSelected(s) == [i \in DOMAIN s |-> [s[i] EXCEPT !.selected = TRUE]]

\* Variant: padding is inserted behind the locked node.
PlaceNodeThenPad(s, n) ==
  Append(s, n) \o (IF n.isLocked /\ n.absoluteOffset > Total(s)
                   THEN Padding(n.absoluteOffset - Total(s)) ELSE <<>>)

\* Variant: whatever is missing before a locked node is filled by one hex64.
PlaceNodeOnePad(s, n) ==
  IF n.isLocked /\ n.absoluteOffset > Total(s) THEN s \o <<Filler(8), n>> ELSE Append(s, n)

\* A locked node not yet at its offset gets there by padding before it.
PlaceNode(s, n) ==
  Append(IF n.isLocked /\ n.absoluteOffset > Total(s)
         THEN s \o Padding(n.absoluteOffset - Total(s)) ELSE s, n)

\* The nodes s laid out anew, one after another.
Normalized(s) ==
  LET laid[k \in 0..Len(s)] == IF k = 0 THEN <<>> ELSE PlaceNode(laid[k - 1], s[k])
  IN  laid[Len(s)]

\* Variant: the block is reallocated and size is left to the caller.
SizeToNodesBlockOnly(s) == block' = Total(s) /\ UNCHANGED size

\* sizeToNodes: realloc to the new total.  realloc(data, 0) frees the block and
\* returns NULL, which is taken for a failure: size stays and data dangles.
SizeToNodes(s) ==
  /\ block' = Total(s)
  /\ size' = IF Total(s) = 0 THEN size ELSE Total(s)

\* normalizeNodes on the nodes s.
Normalize(s) == nodes' = Normalized(s) /\ SizeToNodes(nodes')

Nodes == [size : 1..64, var : BOOLEAN, selected : BOOLEAN,
          isLocked : BOOLEAN, absoluteOffset : Nat \cup {NoOffset}]

Init == /\ nodes = [i \in 1..InitialNodes |-> Filler(8)]
        /\ size = Total(nodes) /\ block = size /\ crashed = FALSE

Indices  == 1..Len(nodes)
Selected == {i \in Indices : nodes[i].selected}

\* Just the nodes S are selected.
Select(S) == nodes' = [i \in Indices |-> [nodes[i] EXCEPT !.selected = i \in S]]
             /\ UNCHANGED <<size, block, crashed>>

\* A click on node i, alone and with Ctrl.
Click(i)     == Select({i})
CtrlClick(i) == Select(IF nodes[i].selected THEN Selected \ {i} ELSE Selected \cup {i})

\* With Shift everything between the first selected node and node i.
ShiftClick(i) ==
  /\ Selected # {}
  /\ LET first == CHOOSE m \in Selected : \A j \in Selected : m <= j
     IN  Select(Selected \cup (first..i) \cup (i..first))

\* With Shift and nothing selected the first one is INT_MAX, and the loop
\* writes down from there, far outside the nodes.
ShiftClickUnselected ==
  /\ Selected = {} /\ nodes # <<>>
  /\ crashed' = TRUE /\ UNCHANGED layoutVars

\* The popup of node i: it selects its node, unless that is selected already.
OpenPopup(i) == Select(IF nodes[i].selected THEN Selected ELSE {i})

\* Variant: nothing that is new is selected.
RetypedNodeUnselected(s, i, t) ==
  s \o <<Node(t, FALSE, Total(s))>>
    \o Remainder(IF nodes[i].size > t.size THEN nodes[i].size - t.size ELSE 0)

\* Variant: only the node itself is selected, not the fillers behind it.
RetypedNodeAlone(s, i, t) ==
  s \o <<Node(t, TRUE, Total(s))>>
    \o Remainder(IF nodes[i].size > t.size THEN nodes[i].size - t.size ELSE 0)

\* changeType(i, t): after the nodes s, node i becomes one of type t, locked
\* where it is by now, and fillers cover the bytes it no longer covers.
RetypedNode(s, i, t) ==
  s \o <<Node(t, TRUE, Total(s))>>
    \o AllSelected(Remainder(IF nodes[i].size > t.size THEN nodes[i].size - t.size ELSE 0))

\* changeType(t): every selected node in turn.
Retyped(t) ==
  LET new[k \in 0..Len(nodes)] ==
        IF k = 0 THEN <<>>
        ELSE IF nodes[k].selected THEN RetypedNode(new[k - 1], k, t)
                                  ELSE Append(new[k - 1], nodes[k])
  IN  new[Len(nodes)]

ChangeType(t) == Normalize(Retyped(t))

\* Add Bytes: resize with a positive amount.
AddBytes(n) == Normalize(nodes \o Padding(n))

\* The nodes that are not selected.
Remaining ==
  LET kept[k \in 0..Len(nodes)] ==
        IF k = 0 THEN <<>>
        ELSE IF nodes[k].selected THEN kept[k - 1] ELSE Append(kept[k - 1], nodes[k])
  IN  kept[Len(nodes)]

\* Variant: the nodes go and the block is resized, but nothing is laid out again.
DeleteWithoutLayout == nodes' = Remaining /\ SizeToNodes(nodes')

\* Delete: the selected nodes go.
Delete == Normalize(Remaining)

\* Lock Offset, offered for a variable that is not locked.
Lock(i) ==
  /\ nodes[i].var /\ ~nodes[i].isLocked
  /\ Normalize([nodes EXCEPT ![i].isLocked = TRUE, ![i].absoluteOffset = Offset(nodes, i)])

\* Variant: the offset of an unlocked node is left behind.
UnlockKeepsOffset(i) ==
  /\ nodes[i].var /\ nodes[i].isLocked
  /\ nodes' = [nodes EXCEPT ![i].isLocked = FALSE]
  /\ UNCHANGED <<size, block>>

\* Unlock Offset, offered for a locked variable; nothing is laid out again.
Unlock(i) ==
  /\ nodes[i].var /\ nodes[i].isLocked
  /\ nodes' = [nodes EXCEPT ![i].isLocked = FALSE, ![i].absoluteOffset = NoOffset]
  /\ UNCHANGED <<size, block>>

\* exportClass lays the nodes out before it prints them.
Export == Normalize(nodes)

\* What the popup of a node offers, to the nodes that are selected.
Edit ==
  /\ Selected # {}
  /\ \/ \E t \in Types : ChangeType(t)
     \/ \E n \in Amounts : AddBytes(n)
     \/ Delete
     \/ \E i \in Selected : Lock(i) \/ Unlock(i)

Halted == crashed /\ UNCHANGED vars

\* Nothing is clicked on in a class that has outgrown the bound.
Next ==
  \/ /\ ~crashed /\ Len(nodes) <= MaxNodes
     /\ \/ \E i \in Indices : Click(i) \/ CtrlClick(i) \/ ShiftClick(i) \/ OpenPopup(i)
        \/ ShiftClickUnselected
        \/ Edit /\ UNCHANGED crashed
  \/ ~crashed /\ Export /\ UNCHANGED crashed
  \/ Halted

Spec == Init /\ [][Next]_vars

-----------------------------------------------------------------------------
(***************************************************************************)
(* Properties                                                              *)
(***************************************************************************)

TypeOK == /\ nodes \in Seq(Nodes) /\ size \in Nat /\ block \in Nat /\ crashed \in BOOLEAN
          /\ \A i \in Indices : nodes[i].isLocked <=> nodes[i].absoluteOffset # NoOffset

\* A locked node never lies before the offset it is locked at: whatever is
\* deleted or shrunk above it, padding takes its place (normalizeNodes).
LocksHonoured ==
  \A i \in Indices : nodes[i].isLocked => Offset(nodes, i) >= nodes[i].absoluteOffset

\* While a class has nodes, the size the reader asks for, the block drawNodes
\* copies into and the bytes its nodes cover agree (sizeToNodes).
BlockFitsNodes == nodes # <<>> => block = size /\ size = Total(nodes)

InPlace(i) == nodes[i].isLocked /\ Offset(nodes, i) = nodes[i].absoluteOffset

\* The i-th node is found in s at the offset it has now.
StaysIn(i, s) == \E j \in 1..Len(s) : s[j] = nodes[i] /\ Offset(s, j) = Offset(nodes, i)

\* Deleting the selection leaves every other locked node that is at its offset
\* exactly there (Delete in drawControllers).
DeleteKeepsLocked ==
  LET after == Normalized(Remaining)
  IN  \A i \in Indices \ Selected : InPlace(i) => StaysIn(i, after)

\* Giving the selection a type that is no larger than its nodes moves no other
\* node and keeps the size of the class: the bytes set free become fillers
\* (both changeType functions).
ShrinkMovesNothing ==
  \A t \in Types :
    (\A i \in Selected : nodes[i].size >= t.size) =>
      LET after == Normalized(Retyped(t))
      IN  /\ Total(after) = Total(nodes)
          /\ \A i \in Indices \ Selected : StaysIn(i, after)

\* The offsets the selected ones of the nodes s cover.
SelectedBytes(s) ==
  {b \in 0..(Total(s) - 1) :
     \E i \in DOMAIN s : s[i].selected /\ b \in Offset(s, i)..(Offset(s, i) + s[i].size - 1)}

\* Giving the selection a type that is no larger than its nodes leaves just the
\* same bytes selected, so that the type can be changed again: the new nodes and
\* the fillers behind them are selected, and padding is not (selectNew in both
\* changeType functions).
RetypeKeepsSelection ==
  \A t \in Types :
    (\A i \in Selected : nodes[i].size >= t.size) =>
      SelectedBytes(Normalized(Retyped(t))) = SelectedBytes(nodes)

\* Once something is selected, only Delete and a click with Ctrl end that; so a
\* click with Shift finds nothing selected, and writes outside the nodes, only
\* before the first selection or after one of these (drawControllers).
SelectionEndsByHand ==
  [][Selected # {} /\ Selected' = {} => Delete \/ \E i \in Indices : CtrlClick(i)]_vars

\* Exporting a class that has nodes is a read: the layout is always normal.
ExportChangesNothing == [][Export /\ nodes # <<>> => UNCHANGED layoutVars]_vars

\* README.md:8: "Lock variables to absolute offsets to prevent shifting when
\* modifying structure above them".  A change of type, to a type of any size,
\* leaves every other locked node that is at its offset exactly there.
LockedNeverShift ==
  \A t \in Types :
    LET after == Normalized(Retyped(t))
    IN  \A i \in Indices \ Selected : InPlace(i) => StaysIn(i, after)

-----------------------------------------------------------------------------
=============================================================================
