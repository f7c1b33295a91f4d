----------------------------- MODULE CanvasDrop -----------------------------
(***************************************************************************)
(* What is dragged onto the canvas: assets out of the panel of the user's  *)
(* library, and files, whose nodes appear at once and are uploaded one     *)
(* after the other; the canvas is saved when a drop is done.  From         *)
(* src/web/src/components/canvas/{AssetPanel.tsx, assetDnd.ts, Canvas.tsx} *)
(* and utils/mediaNode.ts.  A node is its slot and how far it is; how a    *)
(* canvas is loaded and left is told in Workspace, its history in          *)
(* CanvasStore.                                                            *)
(***************************************************************************)
EXTENDS Integers, Sequences, FiniteSets, SequencesExt

CONSTANTS
  Images, Videos,  \* assets of the library
  Projects, MaxSlots,
  Habits,   \* "slow": answers overtake; "leave": another canvas meanwhile; "undo"
  Losses,   \* a subset of {"fetch", "upload", "save"}
  MaxActs, None

Types == {"image", "video"}
Empty == [s \in 1 .. MaxSlots |-> "none"]

VARIABLES
  library, type, assets, counts, fetching, selected, suppress, fetches, \* the panel
  project, loading, nodes, past, dirty, \* the canvas in the store
  saved, owner, made,                   \* the server's canvases, whose a slot is, the slots made
  uploads, saves, acts

panel == <<library, type, assets, counts, fetching, selected, suppress, fetches>>
canvas == <<project, loading, nodes, past, dirty>>
server == <<saved, owner, made>>
vars == <<panel, canvas, server, uploads, saves, acts>>

Of(t) == IF t = "image" THEN Images ELSE Videos
Act == acts < MaxActs /\ acts' = acts + 1

Init ==
  /\ library = Images \cup Videos /\ type = "image" /\ assets = {} /\ counts = [t \in Types |-> 0]
  /\ fetching = TRUE /\ selected = None /\ suppress = FALSE /\ fetches = {[type |-> "image", n |-> 0]}
  /\ owner \in {f \in [1 .. MaxSlots -> Projects \cup {None}] :
                  \A s \in 1 .. MaxSlots : s > Cardinality(Projects) <=> f[s] = None}
  /\ \A p \in Projects : \E s \in 1 .. MaxSlots : owner[s] = p
  /\ made = Cardinality(Projects)
  /\ saved = [p \in Projects |-> [s \in 1 .. MaxSlots |-> IF owner[s] = p THEN "done" ELSE "none"]]
  /\ project \in Projects /\ loading = FALSE /\ nodes = saved[project] /\ past = <<>> /\ dirty = FALSE
  /\ uploads = {} /\ saves = {} /\ acts = 0

-----------------------------------------------------------------------------
(* The panel *)

\* The list of the other type stays on the page if that type was listed before.
SwitchType(t) ==
  /\ t # type /\ ("slow" \in Habits \/ fetches = {}) /\ Act
  /\ type' = t /\ fetching' = (counts[t] = 0) /\ fetches' = fetches \cup {[type |-> t, n |-> acts + 1]}
  /\ UNCHANGED <<library, assets, counts, selected, suppress, canvas, server, uploads, saves>>
FetchTold(f) ==
  /\ f \in fetches /\ fetches' = fetches \ {f} /\ fetching' = FALSE
  /\ assets' = library \cap Of(f.type) /\ counts' = [counts EXCEPT ![f.type] = Cardinality(assets')]
  /\ UNCHANGED <<library, type, selected, suppress, canvas, server, uploads, saves, acts>>
FetchFails(f) ==
  /\ f \in fetches /\ "fetch" \in Losses /\ fetches' = fetches \ {f} /\ fetching' = FALSE
  /\ UNCHANGED <<library, type, assets, counts, selected, suppress, canvas, server, uploads, saves, acts>>
Listed(a) == ~fetching /\ a \in assets
HandleDelete(a) ==
  /\ Listed(a) /\ a \in library /\ ("slow" \in Habits \/ fetches = {}) /\ Act
  /\ library' = library \ {a} /\ assets' = assets \ {a}
  /\ counts' = [counts EXCEPT ![type] = IF @ = 0 THEN 0 ELSE @ - 1]
  /\ UNCHANGED <<type, fetching, selected, suppress, fetches, canvas, server, uploads, saves>>
Press(a) ==
  /\ Listed(a) /\ Act /\ suppress' = FALSE
  /\ selected' = IF suppress THEN selected ELSE IF selected = a THEN None ELSE a
  /\ UNCHANGED <<library, type, assets, counts, fetching, fetches, canvas, server, uploads, saves>>

-----------------------------------------------------------------------------
(* The canvas *)

\* mediaFieldsFor: an address shows the medium; without one the node shows an upload, or why it ended.
MediaFieldsFor(url, error) == IF url THEN "done" ELSE IF error THEN "failed" ELSE "loading"
Commit(ns) == nodes' = ns /\ past' = Append(past, nodes) /\ dirty' = TRUE
CreateMediaNodes(k, how) ==
  /\ ~loading /\ made + k <= MaxSlots /\ made' = made + k
  /\ owner' = [s \in 1 .. MaxSlots |-> IF s \in made + 1 .. made + k THEN project ELSE owner[s]]
  /\ Commit([s \in 1 .. MaxSlots |-> IF s \in made + 1 .. made + k THEN how ELSE nodes[s]])
  /\ UNCHANGED <<project, loading, saved>>
\* A drag that ends on the canvas makes a node; the click it may end in is not one.
Drag(a, onto) ==
  /\ Listed(a) /\ Act /\ suppress' = (onto # "card")
  /\ IF onto = "canvas" THEN CreateMediaNodes(1, MediaFieldsFor(TRUE, FALSE)) ELSE UNCHANGED <<canvas, server>>
  /\ UNCHANGED <<library, type, assets, counts, fetching, selected, fetches, uploads, saves>>
DropFiles(k) ==
  /\ Act /\ CreateMediaNodes(k, MediaFieldsFor(FALSE, FALSE))
  /\ uploads' = uploads \cup {[of |-> project, slots |-> [i \in 1 .. k |-> made + i]]}
  /\ UNCHANGED <<panel, saves>>
\* updateNodeData: nothing while a canvas loads, and nothing on a node that is gone.
UpdateNodeData(s, how) ==
  IF loading THEN UNCHANGED canvas
  ELSE /\ Commit(IF nodes[s] = "none" THEN nodes ELSE [nodes EXCEPT ![s] = how])
       /\ UNCHANGED <<project, loading>>
UploadTold(u, ok) ==
  /\ u \in uploads /\ u.slots # <<>> /\ (ok \/ "upload" \in Losses)
  /\ UpdateNodeData(Head(u.slots), MediaFieldsFor(ok, ~ok))
  /\ uploads' = (uploads \ {u}) \cup {[u EXCEPT !.slots = Tail(@)]}
  /\ UNCHANGED <<panel, server, saves, acts>>
\* The last file is up: exportCanvas, under the project the files were dropped in.
DropDone(u) ==
  /\ u \in uploads /\ u.slots = <<>> /\ uploads' = uploads \ {u}
  /\ saves' = saves \cup {[of |-> u.of, data |-> nodes]}
  /\ UNCHANGED <<panel, canvas, server, acts>>
SaveTold(v) ==
  /\ v \in saves /\ saves' = saves \ {v}
  /\ saved' = [saved EXCEPT ![v.of] = v.data] /\ dirty' = FALSE
  /\ UNCHANGED <<panel, project, loading, nodes, past, owner, made, uploads, acts>>
SaveFails(v) ==
  /\ v \in saves /\ "save" \in Losses /\ saves' = saves \ {v}
  /\ UNCHANGED <<panel, canvas, server, uploads, acts>>

DeleteNode(s) ==
  /\ ~loading /\ s > Cardinality(Projects) /\ nodes[s] # "none" /\ Act
  /\ Commit([nodes EXCEPT ![s] = "none"])
  /\ UNCHANGED <<panel, project, loading, server, uploads, saves>>
Undo ==
  /\ "undo" \in Habits /\ ~loading /\ past # <<>> /\ Act
  /\ nodes' = Last(past) /\ past' = Front(past) /\ dirty' = TRUE
  /\ UNCHANGED <<panel, project, loading, server, uploads, saves>>
HandleSave ==
  /\ ~loading /\ dirty /\ saves = {} /\ Act /\ saves' = {[of |-> project, data |-> nodes]}
  /\ UNCHANGED <<panel, canvas, server, uploads>>
Enter(p) ==
  /\ p # project /\ saves = {} /\ ("leave" \in Habits \/ (uploads = {} /\ ~dirty)) /\ Act
  /\ project' = p /\ loading' = TRUE /\ nodes' = Empty /\ past' = <<>> /\ dirty' = FALSE
  /\ UNCHANGED <<panel, server, uploads, saves>>
LoadTold ==
  /\ loading /\ loading' = FALSE /\ nodes' = saved[project]
  /\ UNCHANGED <<panel, project, past, dirty, server, uploads, saves, acts>>

Answer ==
  \/ LoadTold
  \/ (\E f \in fetches : FetchTold(f) \/ FetchFails(f))
  \/ (\E u \in uploads : DropDone(u) \/ \E ok \in BOOLEAN : UploadTold(u, ok))
  \/ \E v \in saves : SaveTold(v) \/ SaveFails(v)
Next ==
  \/ Answer \/ Undo \/ HandleSave
  \/ (\E t \in Types : SwitchType(t))
  \/ (\E a \in assets : HandleDelete(a) \/ Press(a) \/ \E onto \in {"card", "canvas", "aside"} : Drag(a, onto))
  \/ (\E k \in 1 .. 2 : DropFiles(k)) \/ (\E s \in 1 .. MaxSlots : DeleteNode(s))
  \/ \E p \in Projects : Enter(p)
Spec == Init /\ [][Next]_vars
Fairness == WF_vars(Answer)
FairSpec == Spec /\ Fairness

-----------------------------------------------------------------------------
\* When the last list has come, the panel shows the assets of its type (fetchAssets).
ListIsType == fetches = {} => assets = library \cap Of(type) /\ counts[type] = Cardinality(assets)

\* What is saved of a project are its own nodes, and those that were there
\* before the drop are among them (handleCanvasDrop).
SavesOwnCanvas ==
  \A p \in Projects : \A s \in 1 .. MaxSlots :
    /\ saved[p][s] # "none" => owner[s] = p
    /\ s <= Cardinality(Projects) /\ owner[s] = p => saved[p][s] = "done"

\* A node that shows an upload has one (handleCanvasDrop).
NoIdleSpinner == \A s \in 1 .. MaxSlots :
  nodes[s] = "loading" => \E u \in uploads : s \in ToSet(u.slots)

\* The list that is to come, and the drop that is to end.
Waits == {w \in {"list", "upload"} : IF w = "list" THEN fetching ELSE uploads # {}}
=============================================================================
