------------------------------ MODULE CanvasStore ------------------------------
(***************************************************************************)
(* The canvas of one project: src/web/src/stores/canvasStore.ts and the    *)
(* handlers of components/canvas/Canvas.tsx that write to it.              *)
(*                                                                         *)
(* React Flow reports changes in queues that one microtask applies, before *)
(* any other event of the browser: a handler and the flush of what it      *)
(* queued are one action.  The timer after a drag is not: Settle runs      *)
(* later, and other events (a message of an execution) may come first.     *)
(*                                                                         *)
(* val stands for what a user writes into a node, ref for the canvas node  *)
(* an asset of a script node points to, status for what executions write.  *)
(***************************************************************************)
EXTENDS CanvasGroups

CONSTANTS
  Images, Scripts, Groups,  \* the ids that nodes of each type can get
  Shown,                    \* what the script's asset may show at the start
  Loaded,                   \* the nodes on the canvas at the start
  Widths,                   \* the sizes React Flow can measure
  Moves,                    \* how far a drag goes
  Slips,                    \* how far off React Flow leaves a dragged member
  MaxHistory,               \* MAX_HISTORY
  MaxOps                    \* bound: user operations in a behaviour

VARIABLES
  nodes, edges,
  history, future,
  dirty,      \* isDirty
  clipboard,  \* nodeActionStore: the copied node
  settling,   \* the timer that onNodeDragStop leaves
  saved,      \* what the server holds (observer)
  ops         \* user operations so far (bound)

vars == <<nodes, edges, history, future, dirty, clipboard, settling, saved, ops>>

NodeIds == Images \cup Scripts \cup Groups
TypeOf(id) == CASE id \in Images -> "image" [] id \in Scripts -> "script" [] OTHER -> "group"
Blank(id, x) == [id |-> id, type |-> TypeOf(id), parent |-> None, x |-> x,
                 w |-> Min(Widths), val |-> 0, ref |-> None, status |-> "idle"]
Node == [id : NodeIds, type : {"image", "script", "group"}, parent : Groups \cup {None},
         x : Int, w : Nat, val : Nat, ref : NodeIds \cup {None},
         status : {"idle", "running"}]

At(id) == TableOf(nodes)[id]
Present == Ids(nodes)
\* Ids are made of the time and a random part: none comes back.
Seen == Present \cup UNION {Ids(s.nodes) : s \in ToSet(history) \cup ToSet(future)}
                \cup {clipboard.id}
Nothing == Blank(None, 0)
Fresh(pool) == IF pool \subseteq Seen THEN {} ELSE {CHOOSE id \in pool : id \notin Seen}

\* What a user would miss: no geometry and no status.
Content(ns, es) == [cards |-> {[id |-> n.id, parent |-> n.parent, val |-> n.val, ref |-> n.ref] : n \in ToSet(ns)},
                    edges |-> es]

Snapshot(ns, es) == [nodes |-> ns, edges |-> es]

\* saveHistory: the new state in front, unless nothing differs.
Record(ns, es) ==
  IF Head(history) = Snapshot(ns, es) THEN UNCHANGED <<history, future>>
  ELSE /\ history' = SubSeq(<<Snapshot(ns, es)>> \o history, 1, Min({MaxHistory, Len(history) + 1}))
       /\ future' = << >>

\* Mutant: the history gets the state before the write.
CommitBehind(ns, es) ==
  /\ nodes' = ns /\ edges' = es
  /\ Record(nodes, edges)
  /\ dirty' = TRUE
\* A recorded write: nodes, edges and one history entry.
Commit(ns, es) ==
  /\ nodes' = ns /\ edges' = es
  /\ Record(ns, es)
  /\ dirty' = TRUE

\* The nodes of some ids changed, or taken away.
Set(ns, ids, Change(_)) == [i \in DOMAIN ns |-> IF ns[i].id \in ids THEN Change(ns[i]) ELSE ns[i]]
Without(ns, ids) == SelectSeq(ns, LAMBDA n : n.id \notin ids)

User == ops < MaxOps /\ ops' = ops + 1

\* A canvas as loadCanvas leaves it, one history entry: its images in a
\* group, one of them shown by the script's asset.
Init ==
  \E shown \in Shown :
    LET ids == SetToSeq(Loaded)
        loose == [i \in DOMAIN ids |->
                    [Blank(ids[i], 20 * i) EXCEPT !.ref = IF ids[i] \in Scripts THEN shown ELSE None]]
        group == CHOOSE i \in Groups : TRUE
    IN  /\ nodes = GroupFromSelection(loose, Loaded \cap Images, Blank(group, 0))
        /\ edges = {<<i, j>> \in (Loaded \X Loaded) : i \in Scripts /\ j = shown}
        /\ dirty = FALSE
        /\ history = <<Snapshot(nodes, edges)>> /\ future = << >>
        /\ clipboard = Nothing /\ settling = Nothing
        /\ saved = Content(nodes, edges) /\ ops = 0

-----------------------------------------------------------------------------
(* Adding, connecting, copying.                                              *)

\* Where connections from a node really start: a group's at its members.
Starts(ns, source) == Sides(ns, source)
Inside(ns, child, group) == TableOf(ns)[child].parent = group
Connections(ns, es, source, target) ==
  IF source = target \/ TypeOf(target) = "group" \/ Inside(ns, target, source) \/ Inside(ns, source, target)
  THEN {}
  ELSE {<<s, target>> : s \in Starts(ns, source) \ {target}} \ es

ConnectNodes(source, target) ==
  LET fresh == Connections(nodes, edges, source, target)
  IN  /\ User /\ fresh # {}
      /\ Commit(nodes, edges \cup fresh)
      /\ UNCHANGED <<clipboard, settling, saved>>

\* Two recorded writes in one handler: nodes first, then the edges that they
\* get, if any.
CommitTwice(ns, fresh) ==
  LET firstEntry == <<Snapshot(ns, edges)>> \o history
      entries == IF fresh = {} THEN firstEntry ELSE <<Snapshot(ns, edges \cup fresh)>> \o firstEntry
  IN  /\ nodes' = ns /\ edges' = edges \cup fresh
      /\ history' = SubSeq(entries, 1, Min({MaxHistory, Len(entries)})) /\ future' = << >>
      /\ dirty' = TRUE

\* The popup on the blank canvas: a new node, connected when the popup was
\* opened by a connection dropped there.
AddFromPopup(id, x, source) ==
  LET added == Append(nodes, Blank(id, x))
  IN  /\ User
      /\ CommitTwice(added, IF source = None THEN {} ELSE Connections(added, edges, source, id))
      /\ UNCHANGED <<clipboard, settling, saved>>

Copy(id) ==
  /\ User /\ TypeOf(id) # "group"
  /\ clipboard' = At(id)
  /\ UNCHANGED <<nodes, edges, history, future, dirty, settling, saved>>

\* A clone beside the original, outside of groups and idle.
Paste(id) ==
  LET from == IF clipboard.id \in Present THEN AbsoluteX(clipboard, TableOf(nodes)) ELSE clipboard.x
      clone == [clipboard EXCEPT !.id = id, !.parent = None, !.x = from + 4, !.status = "idle"]
  IN  /\ User /\ clipboard # Nothing /\ TypeOf(id) = clipboard.type
      /\ Commit(Append(nodes, clone), edges)
      /\ UNCHANGED <<clipboard, settling, saved>>

-----------------------------------------------------------------------------
(* Deleting.                                                                 *)

\* Mutant: the assets of scripts are left alone.
KeepAssetRefs(ns, gone) == ns
\* The assets of scripts let go of the nodes that vanish.
ClearAssetRefs(ns, gone) == Set(ns, Ids(ns), LAMBDA n : IF n.ref \in gone THEN [n EXCEPT !.ref = None] ELSE n)

\* What stays of the nodes, groups tidied up.
After(ids) == NormalizeGroups(ClearAssetRefs(Without(nodes, ids), ids),
                              SelectSeq(nodes, LAMBDA n : n.id \in ids))

\* removeNodes, called by the menus and the toolbar; groups are skipped.
RemoveNodes(ids) ==
  LET gone == {i \in ids : TypeOf(i) # "group"}
  IN  /\ User /\ gone # {}
      /\ Commit(After(gone), {e \in edges : e[1] \notin gone /\ e[2] \notin gone})
      /\ UNCHANGED <<clipboard, settling, saved>>

\* The Delete key on the marked nodes: React Flow takes them, the members of
\* marked groups and the edges at all of them; handleBeforeDelete takes
\* groups and unmarked members out again, and then every edge that does not
\* lie between two of the nodes that go.
DeletedByKey(marked) == {i \in marked : TypeOf(i) # "group"}
EdgesDeletedByKey(marked) ==
  IF marked = DeletedByKey(marked) THEN {e \in edges : e[1] \in marked \/ e[2] \in marked}
  ELSE {e \in edges : {e[1], e[2]} \subseteq DeletedByKey(marked)}
DeleteKey(marked) ==
  /\ User /\ DeletedByKey(marked) # {}
  /\ Commit(After(DeletedByKey(marked)), edges \ EdgesDeletedByKey(marked))
  /\ UNCHANGED <<clipboard, settling, saved>>

-----------------------------------------------------------------------------
(* Groups and dragging.                                                      *)

GroupSelectedNodes(marked, id) ==
  /\ User /\ Cardinality(PickedMembers(nodes, marked)) >= 2
  /\ Commit(NormalizeGroups(GroupFromSelection(nodes, marked, Blank(id, 0)), << >>), edges)
  /\ UNCHANGED <<clipboard, settling, saved>>

UngroupNode(id) ==
  /\ User /\ TypeOf(id) = "group"
  /\ Commit(ReleaseGroupMembers(nodes, id), edges)
  /\ UNCHANGED <<clipboard, settling, saved>>

\* A drag: React Flow writes the end position (a member's a little off),
\* which is recorded; the timer is set.
Drag(id, by, slip) ==
  LET member == At(id).parent # None
      moved == Set(nodes, {id}, LAMBDA n : [n EXCEPT !.x = @ + by + (IF member THEN slip ELSE 0)])
  IN  /\ User /\ settling = Nothing
      /\ Commit(moved, edges)
      /\ settling' = [Blank(id, AbsoluteX(At(id), TableOf(nodes)) + by)
                        EXCEPT !.parent = IF member THEN At(id).parent ELSE None]
      /\ UNCHANGED <<clipboard, saved>>

\* placeMemberAtAbsolute, then syncGroupBounds: neither history nor dirty.
PlaceMember(ns, id, x) ==
  IF id \notin Ids(ns) \/ TableOf(ns)[id].parent = None THEN ns
  ELSE Set(ns, {id}, LAMBDA n : [n EXCEPT !.x = x - Corner(TableOf(ns)[n.parent])])
Settle ==
  /\ settling # Nothing
  /\ nodes' = NormalizeGroups(IF settling.parent = None THEN nodes
                              ELSE PlaceMember(nodes, settling.id, settling.x), << >>)
  /\ settling' = Nothing
  /\ UNCHANGED <<edges, history, future, dirty, clipboard, saved, ops>>

\* React Flow measures a node: frames follow, nothing is recorded.
Measure(id, w) ==
  /\ TypeOf(id) # "group" /\ At(id).w # w /\ ops < MaxOps /\ ops' = ops + 1
  /\ nodes' = NormalizeGroups(Set(nodes, {id}, LAMBDA n : [n EXCEPT !.w = w]), << >>)
  /\ UNCHANGED <<edges, history, future, dirty, clipboard, settling, saved>>

-----------------------------------------------------------------------------
(* Editing, running, undoing, saving.                                        *)

UpdateNodeData(id) ==
  /\ User /\ TypeOf(id) # "group"
  /\ Commit(Set(nodes, {id}, LAMBDA n : [n EXCEPT !.val = ops + 1]), edges)
  /\ UNCHANGED <<clipboard, settling, saved>>

\* An image of the canvas becomes an asset's picture: the asset points to it
\* and an edge leads from it to the script.  (The entry that stamps the
\* asset's name on the image differs in nothing kept here.)
AssignAsset(script, id) ==
  /\ User /\ TypeOf(script) = "script" /\ TypeOf(id) = "image" /\ At(script).ref # id
  /\ CommitTwice(Set(nodes, {script}, LAMBDA n : [n EXCEPT !.ref = id]), {<<id, script>>} \ edges)
  /\ UNCHANGED <<clipboard, settling, saved>>

\* Status and meta writes skip the history; a transient updateNodeData marks
\* the canvas dirty besides.
WriteRuntime(id, status, transient) ==
  /\ User /\ TypeOf(id) = "image" /\ At(id).status # status
  /\ nodes' = Set(nodes, {id}, LAMBDA n : [n EXCEPT !.status = status])
  /\ dirty' = (dirty \/ transient)
  /\ UNCHANGED <<edges, history, future, clipboard, settling, saved>>

\* Mutant: an undo leaves the mark as it is.
UndoUnmarked ==
  /\ User /\ Len(history) > 1
  /\ nodes' = history[2].nodes /\ edges' = history[2].edges
  /\ history' = Tail(history) /\ future' = <<Head(history)>> \o future
  /\ UNCHANGED <<dirty, clipboard, settling, saved>>
Undo ==
  /\ User /\ Len(history) > 1
  /\ nodes' = history[2].nodes /\ edges' = history[2].edges
  /\ history' = Tail(history) /\ future' = <<Head(history)>> \o future
  /\ dirty' = TRUE
  /\ UNCHANGED <<clipboard, settling, saved>>

Redo ==
  /\ User /\ future # << >>
  /\ nodes' = Head(future).nodes /\ edges' = Head(future).edges
  /\ history' = <<Head(future)>> \o history /\ future' = Tail(future)
  /\ dirty' = TRUE
  /\ UNCHANGED <<clipboard, settling, saved>>

\* The save of a canvas that does not change meanwhile (Workspace has the
\* save as a request).
Save ==
  /\ dirty /\ dirty' = FALSE
  /\ saved' = Content(nodes, edges)
  /\ UNCHANGED <<nodes, edges, history, future, clipboard, settling, ops>>

Next ==
  \/ \E ids \in SUBSET Present :
       \/ DeleteKey(ids)
       \/ \E id \in Fresh(Groups) : GroupSelectedNodes(ids, id)
  \/ \E a \in Present, b \in Present : ConnectNodes(a, b) \/ AssignAsset(a, b)
  \/ \E id \in Fresh(Images) \cup Fresh(Scripts) :
       \/ \E src \in Present \cup {None} : AddFromPopup(id, 8, src)
       \/ Paste(id)
  \/ \E id \in Present :
       \/ RemoveNodes({id}) \/ Copy(id) \/ UngroupNode(id) \/ UpdateNodeData(id)
       \/ \E by \in Moves, slip \in Slips : Drag(id, by, slip)
       \/ \E w \in Widths : Measure(id, w)
       \/ \E t \in BOOLEAN : WriteRuntime(id, "running", t)
  \/ Settle \/ Undo \/ Redo \/ Save

Spec == Init /\ [][Next]_vars

-----------------------------------------------------------------------------
(* Properties.                                                               *)

\* Every variable has its type; the history is never empty nor too long.
TypeOK ==
  /\ nodes \in Seq(Node) /\ edges \subseteq NodeIds \X NodeIds
  /\ dirty \in BOOLEAN
  /\ Len(history) \in 1..MaxHistory /\ Len(history) + Len(future) <= MaxHistory + MaxOps
  /\ ops \in 0..MaxOps

\* A parent is a group on the canvas that stands before its member, no group
\* is in another and none is empty: React Flow loses the members otherwise.
\* After any order of grouping, deleting, pasting, undoing and redoing.
GroupsWellFormed ==
  \A i \in DOMAIN nodes :
    /\ nodes[i].parent # None =>
         ~IsGroup(nodes[i]) /\ \E j \in 1..(i-1) : nodes[j].id = nodes[i].parent
    /\ IsGroup(nodes[i]) => MembersOf(nodes, nodes[i].id) # {}

\* Nodes move on the canvas when they are dragged and when history is
\* travelled: deleting, grouping, ungrouping and the fitting of frames leave
\* every other node where it was, whatever frame it is placed in.
Travels ==
  \/ Len(history) > 1 /\ nodes' = history[2].nodes
  \/ future # << >> /\ nodes' = Head(future).nodes
Drags == settling' # settling /\ settling' # Nothing
NodesStay ==
  [][~Travels /\ ~Drags =>
       \A n \in ToSet(nodes), m \in ToSet(nodes') :
         n.id = m.id /\ ~IsGroup(n) /\ n.id # settling.id
           => AbsoluteX(n, TableOf(nodes)) = AbsoluteX(m, TableOf(nodes'))]_vars

\* When a node vanishes - deleted by menu or key, undone, redone - no asset
\* of a script still points to it.
RefsVanishWithNode ==
  [][\A gone \in Ids(nodes) \ Ids(nodes') : \A n \in ToSet(nodes') : n.ref # gone]_vars

\* The head of the history is what the canvas holds: whatever a user added,
\* wrote, connected or grouped can be undone, and comes back with redo; and a
\* canvas that differs from the saved one says so.
EditsAreKnown ==
  /\ Content(Head(history).nodes, Head(history).edges) = Content(nodes, edges)
  /\ Content(nodes, edges) # saved => dirty

\* Every edge has both its nodes (Canvas.tsx:569 keeps "only the edges whose
\* two ends are still there").
EdgesConnectNodes == \A e \in edges : {e[1], e[2]} \subseteq Present
=============================================================================
