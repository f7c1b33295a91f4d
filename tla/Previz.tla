-------------------------------- MODULE Previz --------------------------------
(***************************************************************************)
(* The editor of a previz node: src/web/src/pages/previz.  A scene of      *)
(* objects, characters and cameras is edited in a 3D viewport, in panels   *)
(* and on a time line, saved a second after every change, recorded as a    *)
(* video or exported as stills, and filled from a picture by a model.      *)
(*                                                                         *)
(* Positions are left out: a path point is its id and its time, an action  *)
(* of a character its start.                                               *)
(***************************************************************************)
EXTENDS Integers, Sequences, FiniteSets

CONSTANTS
  Cards,            \* the previz nodes of the canvas
  Chars, Things, Cams,
  FirstScene,       \* what each node holds at the start, Fresh if never edited
  MaxTime,          \* bound: times are 0..MaxTime
  MaxOps,           \* bound: what the user does besides selecting and leaving, and failed saves
  MaxOpens,         \* bound: visits
  Losses,           \* subset of {"save", "upload", "analyze"}: what can fail
  None

VARIABLES
  disk, canvas,                 \* scenes on the server, in the canvas store
  saves,                        \* saveCanvas requests, in order
  failed,                       \* the last of them failed (observer)
  open, leaving,                \* the node being edited; "back" was clicked
  objs, chars, cams, ease,      \* the scene
  sel, pose, draw,              \* selectedId, poseEditingCharId, pathDrawMode/CharId
  selCam, preview,              \* selectedCameraId, previewCameraId
  time, duration, playing,
  grab,                         \* dragIdRef of the time line
  export, ai,                   \* the export and the AI build that are under way
  seq,                          \* pathPointSeq
  ops, opens                    \* user operations and visits so far (bounds)

scene == <<objs, chars, cams, ease>>
view == <<sel, pose, draw, selCam, preview>>
clock == <<time, duration, playing>>
io == <<disk, canvas, saves, failed, open, leaving>>
vars == <<scene, view, clock, io, grab, export, ai, seq, ops, opens>>

Times == 0..MaxTime
Character == [path : Seq([id : Nat, t : Times]), acts : Seq(Times)]
NoChars == [c \in {} |-> [path |-> << >>, acts |-> << >>]]
Fresh == [objs |-> {}, chars |-> NoChars, cams |-> {}, ease |-> "unset"]
NoSel == [kind |-> "none", of |-> None, i |-> 0]
Sel(kind, of, i) == [kind |-> kind, of |-> of, i |-> i]
NoDraw == [on |-> FALSE, of |-> None]
NoExport == [phase |-> "idle", card |-> None, cam |-> None, left |-> 0]
NoBuild == [phase |-> "closed", shown |-> FALSE]

\* toJSON.
SceneNow == [objs |-> objs, chars |-> chars, cams |-> cams, ease |-> ease]

Init ==
  /\ disk = FirstScene /\ canvas = FirstScene /\ saves = << >> /\ failed = FALSE /\ open = None /\ leaving = FALSE
  /\ objs = {} /\ chars = NoChars /\ cams = {} /\ ease = "off"
  /\ sel = NoSel /\ pose = None /\ draw = NoDraw /\ selCam = None /\ preview = None
  /\ time = 0 /\ duration = MaxTime /\ playing = FALSE /\ grab = NoSel
  /\ export = NoExport /\ ai = NoBuild /\ seq = 10 /\ ops = 0 /\ opens = 0

\* The export's mask and the window of the AI build take the clicks, a drag
\* on the time line the pointer.
Busy == export.phase # "idle" /\ export.card = open
Reach == open # None /\ ~leaving /\ ~Busy /\ grab = NoSel
Click == Reach /\ ~ai.shown
Count == ops < MaxOps /\ ops' = ops + 1
Edit == Click /\ Count

-----------------------------------------------------------------------------
(* Opening, saving, leaving: PrevizEditor.                                   *)

\* init: reset, then fromJSON if the node has a scene.  The settings of the
\* scene and the drawing mode are not among what reset clears.
Open(n) ==
  LET s == canvas[n] IN
  /\ open = None /\ opens < MaxOpens /\ opens' = opens + 1 /\ open' = n
  /\ objs' = s.objs /\ chars' = s.chars /\ cams' = s.cams
  /\ ease' = IF s.ease = "unset" THEN ease ELSE s.ease
  /\ UNCHANGED <<disk, canvas, saves, failed, leaving, view, clock, grab, export, ai, seq, ops>>

\* saveScene: the node gets the scene at once, the server the whole canvas.
\* A second passes before the next: the last request is answered by then.
Differs == canvas[open] # SceneNow
SaveScene ==
  IF Differs
  THEN /\ canvas' = [canvas EXCEPT ![open] = SceneNow]
       /\ saves' = Append(saves, canvas')
  ELSE UNCHANGED <<canvas, saves>>
AutoSave ==
  /\ open # None /\ Differs /\ saves = << >> /\ SaveScene
  /\ UNCHANGED <<disk, failed, open, leaving, scene, view, clock, grab, export, ai, seq, ops, opens>>
SaveArrives ==
  /\ saves # << >>
  /\ disk' = Head(saves) /\ saves' = Tail(saves) /\ failed' = FALSE
  /\ UNCHANGED <<canvas, open, leaving, scene, view, clock, grab, export, ai, seq, ops, opens>>
SaveFails ==
  /\ saves # << >> /\ "save" \in Losses /\ Count
  /\ saves' = Tail(saves) /\ failed' = TRUE
  /\ UNCHANGED <<disk, canvas, open, leaving, scene, view, clock, grab, export, ai, seq, opens>>

HandleBack ==
  /\ Click /\ leaving' = TRUE /\ SaveScene
  /\ UNCHANGED <<disk, failed, open, scene, view, clock, grab, export, ai, seq, ops, opens>>

\* The cleanup of the page: reset().  The button waits for the save, the
\* browser's own "back" for nothing.
Reset ==
  /\ objs' = {} /\ chars' = NoChars /\ cams' = {} /\ UNCHANGED ease
  /\ sel' = NoSel /\ pose' = None /\ selCam' = None /\ preview' = None /\ UNCHANGED draw
  /\ time' = 0 /\ duration' = MaxTime /\ playing' = FALSE
Leave ==
  /\ open # None /\ (leaving => saves = << >>)
  /\ Reset /\ open' = None /\ leaving' = FALSE /\ grab' = NoSel
  /\ ai' = [ai EXCEPT !.shown = FALSE, !.phase = IF @ = "asked" THEN @ ELSE "closed"]
  /\ UNCHANGED <<disk, canvas, saves, failed, export, seq, ops, opens>>

-----------------------------------------------------------------------------
(* Selecting.                                                                *)

\* select(): pose editing ends unless the character or a bone of it is selected.
PoseAfter(s) == IF pose # None /\ s \notin {Sel("char", pose, 0), Sel("bone", pose, 0)} THEN None ELSE pose
Select(s) ==
  /\ sel' = s /\ pose' = PoseAfter(s)
  /\ UNCHANGED <<scene, draw, selCam, preview, clock, io, grab, export, ai, seq, ops, opens>>

\* While a walk is drawn, clicks into the viewport belong to the drawing.
DrawChar == IF ~draw.on THEN None
            ELSE IF sel.kind = "char" /\ sel.of \in DOMAIN chars THEN sel.of ELSE draw.of
SelectInViewport ==
  /\ Click /\ DrawChar = None
  /\ \/ \E o \in objs : Select(Sel("obj", o, 0))
     \/ \E c \in DOMAIN chars :
          \/ pose # c /\ Select(Sel("char", c, 0))
          \/ pose = c /\ Select(Sel("bone", c, 0))
          \/ /\ sel.of = c /\ sel.kind \in {"char", "point"}
             /\ \E i \in DOMAIN chars[c].path : Select(Sel("point", c, i))
     \/ selCam # None /\ preview = None /\ Select(Sel("cam", selCam, 0))
SelectInPanel ==
  /\ Click
  /\ \/ \E o \in objs : Select(Sel("obj", o, 0))
     \/ \E c \in DOMAIN chars : Select(Sel("char", c, 0))
PointerMissed == Click /\ pose = None /\ ~draw.on /\ sel # NoSel /\ Select(NoSel)

\* What the character panel and the time line work on.
PanelChar == IF sel.kind \in {"char", "bone"} /\ sel.of \in DOMAIN chars THEN sel.of ELSE None
LaneChar == IF sel.kind = "char" /\ sel.of \in DOMAIN chars THEN sel.of ELSE None

-----------------------------------------------------------------------------
(* Objects and cameras.                                                      *)

Put(o, c) == objs' = o /\ chars' = c
AddObject(o) ==
  /\ Edit /\ o \notin objs
  /\ Put(objs \cup {o}, chars) /\ sel' = Sel("obj", o, 0)
  /\ UNCHANGED <<cams, ease, pose, draw, selCam, preview, clock, io, grab, export, ai, seq, opens>>
RemoveObject(o) ==
  /\ objs' = objs \ {o} /\ sel' = IF sel = Sel("obj", o, 0) THEN NoSel ELSE sel
  /\ UNCHANGED <<chars, pose>>
AddCamera(k) ==
  /\ Edit /\ k \notin cams
  /\ cams' = cams \cup {k} /\ selCam' = k
  /\ UNCHANGED <<objs, chars, ease, sel, pose, draw, preview, clock, io, grab, export, ai, seq, opens>>
RemoveCamera(k) ==
  /\ Edit /\ k \in cams
  /\ cams' = cams \ {k}
  /\ selCam' = IF selCam = k THEN None ELSE selCam
  /\ preview' = IF preview = k THEN None ELSE preview
  /\ sel' = IF sel = Sel("cam", k, 0) THEN NoSel ELSE sel
  /\ UNCHANGED <<objs, chars, ease, pose, draw, clock, io, grab, export, ai, seq, opens>>
PreviewCamera(k) ==
  /\ Edit /\ k \in cams
  /\ preview' = (IF preview = k THEN None ELSE k) /\ selCam' = k
  /\ UNCHANGED <<scene, sel, pose, draw, clock, io, grab, export, ai, seq, opens>>

-----------------------------------------------------------------------------
(* Characters: poses, actions, walks.                                        *)

AddCharacter(c) ==
  /\ Edit /\ c \notin DOMAIN chars
  /\ Put(objs, [x \in DOMAIN chars \cup {c} |-> IF x = c THEN [path |-> << >>, acts |-> << >>] ELSE chars[x]])
  /\ sel' = Sel("char", c, 0)
  /\ UNCHANGED <<cams, ease, pose, draw, selCam, preview, clock, io, grab, export, ai, seq, opens>>
\* Mutant: the selection stays on the character that is gone.
RemoveCharacterOnly(c) ==
  /\ chars' = [x \in DOMAIN chars \ {c} |-> chars[x]]
  /\ pose' = IF pose = c THEN None ELSE pose
  /\ UNCHANGED <<objs, sel>>
RemoveCharacter(c) ==
  /\ chars' = [x \in DOMAIN chars \ {c} |-> chars[x]]
  /\ sel' = IF sel.of = c THEN NoSel ELSE sel
  /\ pose' = IF pose = c THEN None ELSE pose
  /\ UNCHANGED objs

SetPoseEditing(c) ==
  /\ pose' = c
  /\ sel' = IF c = None /\ sel.kind = "bone" THEN NoSel ELSE sel
TogglePose ==
  /\ Edit /\ PanelChar # None
  /\ SetPoseEditing(IF pose = PanelChar THEN None ELSE PanelChar)
  /\ UNCHANGED <<scene, draw, selCam, preview, clock, io, grab, export, ai, seq, opens>>

\* Array.sort is stable.
ByTime(path) ==
  LET Before(i, j) == path[i].t < path[j].t \/ (path[i].t = path[j].t /\ i < j)
  IN  [k \in DOMAIN path |-> path[CHOOSE i \in DOMAIN path :
                                    Cardinality({j \in DOMAIN path : Before(j, i)}) = k - 1]]
Starts(acts) == [i \in DOMAIN acts |-> ByTime([j \in DOMAIN acts |-> [t |-> acts[j]]])[i].t]
Drop(s, i) == SubSeq(s, 1, i - 1) \o SubSeq(s, i + 1, Len(s))

SetActs(c, acts) ==
  /\ Edit /\ chars' = [chars EXCEPT ![c].acts = acts]
  /\ UNCHANGED <<objs, cams, ease, view, clock, io, grab, export, ai, seq, opens>>
\* Actions of the library, saved poses and copies of poses all start now.
AddAction(c) == SetActs(c, Starts(Append(chars[c].acts, time)))
UpdateActionStart(c, i, t) == SetActs(c, Starts([chars[c].acts EXCEPT ![i] = t]))
RemoveAction(c, i) == SetActs(c, Drop(chars[c].acts, i))

SetPath(c, path, new) ==
  /\ chars' = [chars EXCEPT ![c].path = path]
  /\ seq' = seq + new
NewPoint(t) == [id |-> seq, t |-> t]
Only(c) == UNCHANGED <<objs, cams, ease, view, duration, playing, io, grab, export, ai, opens>>
AddPathPoint(c) ==
  Edit /\ SetPath(c, ByTime(Append(chars[c].path, NewPoint(time))), 1) /\ Only(c) /\ UNCHANGED time
UpdatePathPoint(c, i, t) ==
  Edit /\ SetPath(c, ByTime([chars[c].path EXCEPT ![i].t = t]), 0) /\ Only(c) /\ UNCHANGED time
RemovePathPoint(c, i) ==
  /\ chars' = [chars EXCEPT ![c].path = Drop(@, i)]
  /\ sel' = IF sel = Sel("point", c, i) THEN Sel("char", c, 0) ELSE sel
  /\ UNCHANGED <<objs, pose>>
RemovePointInPanel(c, i) ==
  /\ Edit /\ RemovePathPoint(c, i)
  /\ UNCHANGED <<cams, ease, draw, selCam, preview, clock, io, grab, export, ai, seq, opens>>

\* A character dragged by its gizmo: the point at the playhead moves, or a
\* new one is made.
UpsertPathPointAt(c) ==
  LET path == chars[c].path IN
  /\ Edit /\ sel = Sel("char", c, 0) /\ ~draw.on /\ preview = None /\ ~playing
  /\ path # << >> /\ \A i \in DOMAIN path : path[i].t # time
  /\ SetPath(c, ByTime(Append(path, NewPoint(time))), 1) /\ Only(c) /\ UNCHANGED time

SetPathDrawMode(on) ==
  /\ draw' = [on |-> on, of |-> IF on /\ sel.kind = "char" /\ sel.of \in DOMAIN chars THEN sel.of ELSE None]
ToggleDraw ==
  /\ Edit /\ PanelChar # None /\ SetPathDrawMode(~draw.on)
  /\ UNCHANGED <<scene, sel, pose, selCam, preview, clock, io, grab, export, ai, seq, opens>>
\* A click on the ground: the time follows from the distance walked.
AppendDrawnPathPoint(walk) ==
  LET c == DrawChar  path == chars[c].path
      t == IF path = << >> THEN time ELSE path[Len(path)].t + walk
  IN  /\ Edit /\ c \in DOMAIN chars /\ t \in Times
      /\ SetPath(c, Append(path, NewPoint(t)), 1) /\ Only(c) /\ UNCHANGED time

SetPathEase ==
  /\ Edit /\ PanelChar # None /\ Len(chars[PanelChar].path) >= 2 /\ ease' = (IF ease = "on" THEN "off" ELSE "on")
  /\ UNCHANGED <<objs, chars, cams, view, clock, io, grab, export, ai, seq, opens>>

\* The Delete key, also under the mask of an export; Escape ends drawing.
DeleteKey ==
  /\ open # None /\ ops < MaxOps /\ ops' = ops + 1
  /\ CASE sel.kind = "point" -> RemovePathPoint(sel.of, sel.i)
       [] sel.kind = "char" -> RemoveCharacter(sel.of)
       [] sel.kind = "obj" -> RemoveObject(sel.of)
       [] OTHER -> FALSE
  /\ UNCHANGED <<cams, ease, draw, selCam, preview, clock, io, grab, export, ai, seq, opens>>
EscapeKey ==
  /\ open # None /\ draw.on /\ SetPathDrawMode(FALSE)
  /\ UNCHANGED <<scene, sel, pose, selCam, preview, clock, io, grab, export, ai, seq, ops, opens>>

-----------------------------------------------------------------------------
(* The time line.                                                            *)

Seek(t) ==
  /\ Edit /\ t # time /\ t <= duration /\ time' = t
  /\ UNCHANGED <<scene, view, duration, playing, io, grab, export, ai, seq, opens>>
SetDuration(d) ==
  /\ Edit /\ d # duration
  /\ duration' = d /\ time' = (IF time > d THEN d ELSE time)
  /\ UNCHANGED <<scene, view, playing, io, grab, export, ai, seq, opens>>
TogglePlay ==
  /\ Edit /\ playing' = ~playing
  /\ UNCHANGED <<scene, view, time, duration, io, grab, export, ai, seq, opens>>
Tick ==
  /\ playing
  /\ IF time + 1 >= duration THEN time' = duration /\ playing' = FALSE
     ELSE time' = time + 1 /\ UNCHANGED playing
  /\ UNCHANGED <<scene, view, duration, io, grab, export, ai, seq, ops, opens>>

\* A key frame is held by the id of its point: its index changes on the way.
Where(path, id) == CHOOSE i \in DOMAIN path : path[i].id = id
GrabPoint(c, i) ==
  /\ Edit /\ grab' = Sel("point", c, chars[c].path[i].id)
  /\ time' = IF chars[c].path[i].t > duration THEN duration ELSE chars[c].path[i].t
  /\ UNCHANGED <<scene, view, duration, playing, io, export, ai, seq, opens>>
DragTo(t) ==
  /\ grab # NoSel /\ LaneChar = grab.of /\ t <= duration /\ ops < MaxOps /\ ops' = ops + 1
  /\ \E p \in DOMAIN chars[LaneChar].path : chars[LaneChar].path[p].id = grab.i
  /\ SetPath(LaneChar, ByTime([chars[LaneChar].path EXCEPT ![Where(chars[LaneChar].path, grab.i)].t = t]), 0)
  /\ time' = t /\ Only(grab)
EndDrag ==
  /\ grab # NoSel /\ grab' = NoSel
  /\ UNCHANGED <<scene, view, clock, io, export, ai, seq, ops, opens>>

-----------------------------------------------------------------------------
(* Exports: recorder and ExportPanel.                                        *)

StartRecord(k) ==
  /\ Edit /\ export = NoExport /\ k \in cams
  /\ export' = [NoExport EXCEPT !.phase = "recording", !.card = open, !.cam = k]
  /\ preview' = k /\ time' = 0 /\ playing' = TRUE
  /\ UNCHANGED <<scene, sel, pose, draw, selCam, duration, io, grab, ai, seq, opens>>
RecordEnds ==
  /\ export.phase = "recording" /\ (~playing \/ time >= duration)
  /\ export' = [export EXCEPT !.phase = "uploading"] /\ preview' = None
  /\ UNCHANGED <<scene, sel, pose, draw, selCam, clock, io, grab, ai, seq, ops, opens>>
\* One still per camera or of one camera, each uploaded before the next.
StartStill(all) ==
  /\ Edit /\ export = NoExport /\ cams # {}
  /\ export' = [NoExport EXCEPT !.phase = "still", !.card = open, !.left = IF all THEN Cardinality(cams) ELSE 1]
  /\ UNCHANGED <<scene, view, clock, io, grab, ai, seq, opens>>
StillUploaded ==
  /\ export.phase = "still" /\ export.left > 1
  /\ export' = [export EXCEPT !.left = @ - 1]
  /\ UNCHANGED <<scene, view, clock, io, grab, ai, seq, ops, opens>>
\* The node gets the address and "the latest scene": of the editor as it is now.
Uploaded ==
  /\ export.phase = "uploading" \/ (export.phase = "still" /\ export.left = 1)
  /\ canvas' = [canvas EXCEPT ![export.card] = SceneNow]
  /\ saves' = Append(saves, canvas')
  /\ export' = NoExport
  /\ UNCHANGED <<disk, failed, open, leaving, scene, view, clock, grab, ai, seq, ops, opens>>
UploadFails ==
  /\ export.phase \in {"uploading", "still"} /\ "upload" \in Losses
  /\ export' = NoExport
  /\ UNCHANGED <<scene, view, clock, io, grab, ai, seq, ops, opens>>

-----------------------------------------------------------------------------
(* Building a scene from a picture: AIBuildModal.                            *)

OpenBuild ==
  /\ Edit /\ ai = NoBuild /\ ai' = [phase |-> "ready", shown |-> TRUE]
  /\ UNCHANGED <<scene, view, clock, io, grab, export, seq, opens>>
Analyze ==
  /\ Reach /\ ai.phase = "ready" /\ ai' = [ai EXCEPT !.phase = "asked"]
  /\ UNCHANGED <<scene, view, clock, io, grab, export, seq, ops, opens>>
CloseBuild ==
  /\ Reach /\ ai.shown
  /\ ai' = [phase |-> IF ai.phase = "asked" THEN "asked" ELSE "closed", shown |-> FALSE]
  /\ UNCHANGED <<scene, view, clock, io, grab, export, seq, ops, opens>>
ImportObjects(o) == objs' = o /\ sel' = NoSel
\* The answer: into an empty scene at once, else a question if the window
\* is still there to ask it.
Analyzed(o) ==
  /\ ai.phase = "asked"
  /\ IF objs # {} THEN /\ ai' = IF ai.shown THEN [ai EXCEPT !.phase = "choose"] ELSE NoBuild
                       /\ UNCHANGED <<objs, sel>>
     ELSE ImportObjects({o}) /\ ai' = NoBuild
  /\ UNCHANGED <<chars, cams, ease, pose, draw, selCam, preview, clock, io, grab, export, seq, ops, opens>>
AnalyzeFails ==
  /\ ai.phase = "asked" /\ "analyze" \in Losses
  /\ ai' = IF ai.shown THEN [ai EXCEPT !.phase = "ready"] ELSE NoBuild
  /\ UNCHANGED <<scene, view, clock, io, grab, export, seq, ops, opens>>
ApplyObjects(o, replace) ==
  /\ Reach /\ ai.phase = "choose"
  /\ ImportObjects(IF replace THEN {o} ELSE objs \cup {o}) /\ ai' = NoBuild
  /\ UNCHANGED <<chars, cams, ease, pose, draw, selCam, preview, clock, io, grab, export, seq, ops, opens>>

-----------------------------------------------------------------------------
(* The whole.                                                                *)

Edits ==
  \/ \E o \in Things : AddObject(o) \/ (\E r \in BOOLEAN : ApplyObjects(o, r))
  \/ \E c \in Chars : AddCharacter(c)
  \/ \E k \in Cams : AddCamera(k) \/ RemoveCamera(k)
  \/ \E c \in {PanelChar} \ {None} :
       \/ AddAction(c) \/ AddPathPoint(c)
       \/ \E i \in DOMAIN chars[c].acts : RemoveAction(c, i) \/ \E t \in Times : UpdateActionStart(c, i, t)
       \/ \E i \in DOMAIN chars[c].path : RemovePointInPanel(c, i) \/ \E t \in Times : UpdatePathPoint(c, i, t)
  \/ \E c \in DOMAIN chars : UpsertPathPointAt(c)
  \/ \E walk \in {1, 2} : AppendDrawnPathPoint(walk)
  \/ SetPathEase \/ DeleteKey
  \/ \E t \in Times : DragTo(t)
Modes ==
  \/ SelectInViewport \/ SelectInPanel \/ PointerMissed \/ TogglePose \/ ToggleDraw \/ EscapeKey
  \/ \E k \in Cams : PreviewCamera(k)
  \/ \E t \in Times : Seek(t) \/ (t > 0 /\ SetDuration(t))
  \/ TogglePlay \/ Tick \/ EndDrag
  \/ \E c \in {LaneChar} \ {None} : \E i \in DOMAIN chars[c].path : GrabPoint(c, i)
Exports ==
  \/ \E k \in Cams : StartRecord(k)
  \/ \E all \in BOOLEAN : StartStill(all)
  \/ RecordEnds \/ StillUploaded \/ Uploaded \/ UploadFails
Builds == OpenBuild \/ Analyze \/ CloseBuild \/ AnalyzeFails \/ \E o \in Things : Analyzed(o)
Pages == (\E n \in Cards : Open(n)) \/ HandleBack \/ Leave
Stores == AutoSave \/ SaveArrives \/ SaveFails

Next == Edits \/ Modes \/ Exports \/ Builds \/ Pages \/ Stores
Spec == Init /\ [][Next]_vars
\* The page saves after a second, requests are answered, the clock runs.
Fair == WF_vars(AutoSave) /\ WF_vars(SaveArrives) /\ WF_vars(EndDrag)
FairSpec == Spec /\ Fair

-----------------------------------------------------------------------------
(* Properties.                                                               *)

\* Every variable has its type, and what is selected exists.
Exists(s) ==
  CASE s.kind = "none" -> TRUE
    [] s.kind = "obj" -> s.of \in objs
    [] s.kind = "cam" -> s.of \in cams
    [] s.kind = "point" -> s.of \in DOMAIN chars /\ s.i \in DOMAIN chars[s.of].path
    [] OTHER -> s.of \in DOMAIN chars
TypeOK ==
  /\ objs \subseteq Things /\ cams \subseteq Cams /\ DOMAIN chars \subseteq Chars
  /\ \A c \in DOMAIN chars : chars[c] \in Character
  /\ Exists(sel) /\ preview \in cams \cup {None} /\ selCam \in cams \cup {None}
  /\ time \in 0..duration

\* Paths and actions stay in the order of their times, which the sampling
\* of positions and of actions relies on, whichever of the panel, the time
\* line, the gizmo and the drawing mode adds or moves a point.
InOrder ==
  \A c \in DOMAIN chars :
    /\ \A i, j \in DOMAIN chars[c].path : i < j => chars[c].path[i].t <= chars[c].path[j].t
    /\ \A i, j \in DOMAIN chars[c].acts : i < j => chars[c].acts[i] <= chars[c].acts[j]

\* The selection of a path point is an index; it goes on to mean the same
\* point: nothing that reorders a path can happen while it is selected.
SelectedPointStays ==
  sel.kind = "point" /\ sel' = sel /\ open' = open =>
    chars'[sel.of].path[sel.i].id = chars[sel.of].path[sel.i].id

\* A key frame dragged past others moves alone.
PathOf(c) == {[id |-> chars[c].path[i].id, t |-> chars[c].path[i].t] : i \in DOMAIN chars[c].path}
DragMovesOne ==
  grab # NoSel /\ grab' = grab /\ grab.of \in DOMAIN chars /\ grab.of \in DOMAIN chars' =>
    {p \in PathOf(grab.of) : p.id # grab.i} = {p \in PathOf(grab.of)' : p.id # grab.i}

\* A selected bone belongs to the character whose pose is edited: poses are
\* never changed under a playing animation.
BoneMeansPosing == sel.kind = "bone" => pose = sel.of

\* What waits to be saved: objects, characters, cameras and settings that the
\* server does not have yet.  After a request that failed the next edit does it.
Waits == {w \in {"save"} : open \in Cards /\ disk[open] # SceneNow /\ ~failed}

\* The scene of a node changes while it is edited and at no other time: on
\* leaving, the editor's store is cleared "so that nothing gets into the
\* next node" (pages/previz/PrevizEditor.tsx:90).
ScenesApart == [][\A n \in Cards : canvas'[n] # canvas[n] => open = n]_vars
=============================================================================
