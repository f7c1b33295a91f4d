----------------------------- MODULE ScriptAssets -----------------------------
(***************************************************************************)
(* The pictures of a script's characters, scenes and props.  From          *)
(* src/web/src/utils/assetImageSync.ts and                                 *)
(* src/web/src/components/nodes/script/AssetPreparationPanel.tsx,          *)
(* AssetEditModal.tsx, NodeAssociateModal.tsx.                             *)
(*                                                                         *)
(* An asset has an image node, found by the asset's link or by the fields  *)
(* on the node.  What is generated replaces the picture of that node; the  *)
(* picture the user gave is kept beside it as the node's source and in a   *)
(* reference node, from which every generation is to start.  The three     *)
(* kinds of asset have a copy of the same handlers each; one is modelled.  *)
(* A picture is the act that brought it, and who did.                      *)
(***************************************************************************)
EXTENDS Naturals, FiniteSets, FiniteSetsExt

CONSTANTS
  Assets,      \* the assets of the script
  Ids,         \* identities of image nodes
  Spare,       \* a node of the canvas that holds a picture of the user
  Habits,      \* subset of {"bare": generate with no picture given, "borrow":
               \* associate a node of another asset, or a generated picture, "type":
               \* write the description while a picture is uploaded, "overlap":
               \* begin an upload while another is under way, "cut": delete nodes}
  Losses,      \* what can fail: subset of {"upload", "save", "execute", "run"}
  MaxActs,     \* bound: acts of the user
  None

VARIABLES
  node,        \* the image nodes of the canvas
  used,        \* identities given out: none is given twice
  edges,       \* from a reference node to the node it is the reference of
  link,        \* nodeId of each asset
  description, \* of each asset
  editor,      \* AssetEditModal
  target,      \* uploadTarget of the panel
  uploads,     \* pictures on their way
  jobs,        \* generations, by how far they are
  watch,       \* nodes whose generation a message waits for
  given,       \* the last picture the user gave an asset (observer)
  ignored,     \* a file was chosen and nothing was done (observer)
  acts

canvas == <<node, used, edges, link>>
vars == <<canvas, description, editor, target, uploads, jobs, watch, given, ignored, acts>>

Picture(by) == [by |-> by, no |-> acts']
Blank == [asset |-> None, pic |-> None, source |-> None, refOf |-> None, ref |-> None, running |-> FALSE]
Closed == [asset |-> None, draft |-> 0, saved |-> 0, uploading |-> FALSE, generating |-> FALSE]
Present == {i \in Ids : node[i] # None}

\* Of several nodes that match, one with a picture.
Best(S) == IF S = {} THEN None
           ELSE IF \E i \in S : node[i].pic # None THEN CHOOSE i \in S : node[i].pic # None
           ELSE CHOOSE i \in S : TRUE

FindAssetImageNode(a) ==
  IF link[a] \in Present THEN link[a] ELSE Best({i \in Present : node[i].asset = a})

FindAssetReferenceNode(i) == Best({r \in Present \ {i} : node[r].refOf = i})

Fresh == Ids \ used

Init ==
  /\ node = [i \in Ids |-> IF i = Spare THEN [Blank EXCEPT !.pic = [by |-> "user", no |-> 0]] ELSE None]
  /\ used = {Spare} /\ edges = {} /\ link = [a \in Assets |-> None] /\ description = [a \in Assets |-> 0]
  /\ editor = Closed /\ target = None /\ uploads = {} /\ jobs = {} /\ watch = {}
  /\ given = [a \in Assets |-> None] /\ ignored = FALSE /\ acts = 0

Act == acts < MaxActs /\ acts' = acts + 1

-----------------------------------------------------------------------------
\* rememberAssetSourceImage: on the node, and in its reference node if any.
RememberSource(nodes, i, pic) ==
  LET r == FindAssetReferenceNode(i)
      kept == [nodes EXCEPT ![i].source = pic]
  IN IF r = None THEN kept ELSE [kept EXCEPT ![r].pic = pic]

RefEdge(i) == LET r == FindAssetReferenceNode(i) IN IF r = None THEN {} ELSE {<<r, i>>}

\* createAssetImageNode, for an asset that has none.
Created(i, a) == [node EXCEPT ![i] = [Blank EXCEPT !.asset = a]]

\* A picture from the user for an asset: the asset and the editor showing it,
\* its image node, made if need be, and the source.
Give(a, pic) ==
  /\ IF FindAssetImageNode(a) # None
     THEN LET i == FindAssetImageNode(a)
          IN /\ node' = RememberSource([node EXCEPT ![i].pic = pic, ![i].running = FALSE], i, pic)
             /\ edges' = edges \cup RefEdge(i)
             /\ watch' = IF node[i].running THEN watch \ {i} ELSE watch
             /\ UNCHANGED link
     ELSE \E i \in Fresh :
            /\ node' = [Created(i, a) EXCEPT ![i].pic = pic, ![i].source = pic]
            /\ link' = [link EXCEPT ![a] = i]
            /\ UNCHANGED <<edges, watch>>
  /\ used' = used \cup {i \in Ids : node'[i] # None}
  /\ given' = [given EXCEPT ![a] = pic]

\* What its asset being replaced does to the text in the editor's box, and what
\* a watched node changing its status does to the button.
Refreshed(e, a) == IF e.asset = a THEN [e EXCEPT !.draft = description[a], !.saved = description[a]] ELSE e
Told(e) == IF watch' # watch THEN [e EXCEPT !.generating = FALSE] ELSE e

\* --- uploads and imports -------------------------------------------------
HandleCardUploadImage(a) ==
  /\ editor.asset = None /\ target = None
  /\ uploads # {} => "overlap" \in Habits
  /\ target' = a
  /\ UNCHANGED <<canvas, description, editor, uploads, jobs, watch, given, ignored, acts>>

\* The file is chosen: the target may be gone by then.
HandleFileChange ==
  /\ editor.asset = None /\ Act
  /\ target = None => "overlap" \in Habits /\ uploads # {}
  /\ uploads' = IF target = None THEN uploads ELSE uploads \cup {[asset |-> target, by |-> "card"]}
  /\ ignored' = (ignored \/ target = None)
  /\ UNCHANGED <<canvas, description, editor, target, jobs, watch, given>>

EditorUpload ==
  /\ editor.asset # None /\ ~editor.uploading /\ ~editor.generating /\ editor.draft = editor.saved /\ Act
  /\ editor' = [editor EXCEPT !.uploading = TRUE]
  /\ uploads' = uploads \cup {[asset |-> editor.asset, by |-> "editor"]}
  /\ UNCHANGED <<canvas, description, target, jobs, watch, given, ignored>>

\* Either way the target is dropped, whoever it is by now.
Arrived(u) ==
  /\ uploads' = uploads \ {u}
  /\ target' = IF u.by = "card" THEN None ELSE target
  /\ UNCHANGED <<description, jobs, ignored>>

UploadDone(u) ==
  /\ u \in uploads /\ Arrived(u) /\ acts' = acts
  /\ Give(u.asset, [by |-> "user", no |-> acts])
  /\ editor' = LET e == Told(Refreshed(editor, u.asset))
               IN IF u.by = "editor" THEN [e EXCEPT !.uploading = FALSE] ELSE e

UploadFails(u) ==
  /\ u \in uploads /\ "upload" \in Losses /\ Arrived(u)
  /\ editor' = IF u.by = "editor" THEN [editor EXCEPT !.uploading = FALSE] ELSE editor
  /\ UNCHANGED <<canvas, watch, given, acts>>

HandlePickAsset(a) ==
  /\ editor.asset = None /\ Act
  /\ Give(a, Picture("user"))
  /\ UNCHANGED <<description, editor, target, uploads, jobs, ignored>>

\* --- an existing node ----------------------------------------------------
AssociateExistingImageNode(a, i) ==
  /\ editor.asset = None /\ i \in Present /\ i # FindAssetImageNode(a) /\ Act
  /\ node[i].asset # None \/ node[i].refOf # None \/ (node[i].pic # None /\ node[i].pic.by = "made") => "borrow" \in Habits
  /\ link' = [link EXCEPT ![a] = i]
  /\ LET owned == [node EXCEPT ![i].asset = a]
     IN node' = IF node[i].pic = None THEN owned ELSE RememberSource(owned, i, node[i].pic)
  /\ edges' = IF node[i].pic = None THEN edges ELSE edges \cup RefEdge(i)
  /\ given' = IF node[i].pic = None THEN given ELSE [given EXCEPT ![a] = node[i].pic]
  /\ UNCHANGED <<used, description, editor, target, uploads, jobs, watch, ignored>>

\* A node is deleted on the canvas, with its edges and what refers to it.
RemoveNode(i) ==
  /\ "cut" \in Habits /\ editor.asset = None /\ i \in Present /\ i # Spare /\ Act
  /\ node' = [n \in Ids |-> IF n = i \/ node[n] = None THEN None
                            ELSE IF node[n].ref = i THEN [node[n] EXCEPT !.ref = None] ELSE node[n]]
  /\ edges' = {e \in edges : i \notin {e[1], e[2]}}
  /\ UNCHANGED <<used, link, description, editor, target, uploads, jobs, watch, given, ignored>>

\* --- the editor ----------------------------------------------------------
OpenEditor(a) ==
  /\ editor.asset = None
  /\ editor' = [Closed EXCEPT !.asset = a, !.draft = description[a], !.saved = description[a]]
  /\ UNCHANGED <<canvas, description, target, uploads, jobs, watch, given, ignored, acts>>

\* Closing forgets that a picture is being made or uploaded.
CloseEditor ==
  /\ editor.asset # None /\ editor.draft = editor.saved
  /\ editor' = Closed
  /\ UNCHANGED <<canvas, description, target, uploads, jobs, watch, given, ignored, acts>>

HandleDescriptionChange ==
  /\ editor.asset # None /\ Act
  /\ (\E u \in uploads : u.asset = editor.asset) => "type" \in Habits
  /\ editor' = [editor EXCEPT !.draft = acts']
  /\ UNCHANGED <<canvas, description, target, uploads, jobs, watch, given, ignored>>

HandleDescriptionBlur ==
  /\ editor.asset # None /\ editor.draft # editor.saved
  /\ description' = [description EXCEPT ![editor.asset] = editor.draft]
  /\ editor' = [editor EXCEPT !.saved = editor.draft]
  /\ UNCHANGED <<canvas, target, uploads, jobs, watch, given, ignored, acts>>

\* Mutant: a generation starts from the picture its node shows.
OriginalShown(i, nodes) ==
  IF nodes[i].pic # None THEN nodes[i].pic ELSE nodes[i].source
\* What there is to start a generation from: the source recorded; else the
\* reference there already is; else the picture the node shows.
Original(i, nodes) ==
  LET r == FindAssetReferenceNode(i)
  IN IF nodes[i].source # None THEN nodes[i].source
     ELSE IF r # None THEN nodes[r].pic ELSE nodes[i].pic

\* ensureAssetReferenceNode, and the node's prompt naming it.
Referenced(nodes, i, r) == [nodes EXCEPT ![r] = [(IF @ = None THEN Blank ELSE @) EXCEPT
                                                   !.pic = Original(i, nodes), !.refOf = i],
                                         ![i].ref = r]

HandleGenerate ==
  /\ editor.asset # None /\ ~editor.generating /\ ~editor.uploading /\ editor.draft = editor.saved /\ Act
  /\ LET a == editor.asset
         found == FindAssetImageNode(a)
     IN \E i \in IF found = None THEN Fresh ELSE {found} :
          LET nodes == [(IF found = None THEN Created(i, a) ELSE node) EXCEPT ![i].running = TRUE]
              r == FindAssetReferenceNode(i)
          IN /\ link' = IF found = None THEN [link EXCEPT ![a] = i] ELSE link
             /\ IF Original(i, nodes) = None
                THEN /\ "bare" \in Habits
                     /\ node' = [nodes EXCEPT ![i].ref = None] /\ edges' = edges
                ELSE \E n \in IF r = None THEN Fresh \ {i} ELSE {r} :
                       node' = Referenced(nodes, i, n) /\ edges' = edges \cup {<<n, i>>}
             /\ jobs' = jobs \cup {[node |-> i, at |-> "save"]}
  /\ used' = used \cup {i \in Ids : node'[i] # None}
  /\ editor' = [editor EXCEPT !.generating = TRUE]
  /\ UNCHANGED <<description, target, uploads, watch, given, ignored>>

Moves(j, at) == jobs' = (jobs \ {j}) \cup {[j EXCEPT !.at = at]}
GiveUp(j) == jobs' = jobs \ {j} /\ editor' = [editor EXCEPT !.generating = FALSE] /\ UNCHANGED watch

CanvasSaved(j) ==
  /\ j \in jobs /\ j.at = "save"
  /\ \/ Moves(j, "ask") /\ UNCHANGED <<editor, watch>>
     \/ "save" \in Losses /\ GiveUp(j)
  /\ UNCHANGED <<canvas, description, target, uploads, given, ignored, acts>>

\* The server refuses a node it is already generating.
Executed(j) ==
  /\ j \in jobs /\ j.at = "ask"
  /\ \/ /\ [j EXCEPT !.at = "run"] \notin jobs
        /\ Moves(j, "run") /\ watch' = watch \cup {j.node} /\ UNCHANGED editor
     \/ ("execute" \in Losses \/ [j EXCEPT !.at = "run"] \in jobs) /\ GiveUp(j)
  /\ UNCHANGED <<canvas, description, target, uploads, given, ignored, acts>>

\* The result, or the failure, reaches the node, and whoever watches a change
\* of its status.
RunEnds(j, ok) ==
  /\ j \in jobs /\ j.at = "run" /\ (ok \/ "run" \in Losses)
  /\ jobs' = jobs \ {j}
  /\ IF node[j.node] = None THEN UNCHANGED <<node, watch>>
     ELSE /\ node' = [node EXCEPT ![j.node].running = FALSE,
                                  ![j.node].pic = IF ok THEN [by |-> "made", no |-> acts] ELSE @]
          /\ watch' = IF node[j.node].running THEN watch \ {j.node} ELSE watch
  /\ editor' = Told(editor)
  /\ UNCHANGED <<used, edges, link, description, target, uploads, given, ignored, acts>>

WatchTimesOut(i) ==
  /\ i \in watch
  /\ watch' = watch \ {i} /\ editor' = Told(editor)
  /\ UNCHANGED <<canvas, description, target, uploads, jobs, given, ignored, acts>>

Progress ==
  \/ \E u \in uploads : UploadDone(u) \/ UploadFails(u)
  \/ \E j \in jobs : CanvasSaved(j) \/ Executed(j) \/ \E ok \in BOOLEAN : RunEnds(j, ok)

TimesOut == \E i \in watch : WatchTimesOut(i)

Next ==
  \/ \E a \in Assets : \/ HandleCardUploadImage(a)
                       \/ HandlePickAsset(a)
                       \/ OpenEditor(a)
                       \/ \E i \in Ids : AssociateExistingImageNode(a, i)
  \/ HandleFileChange
  \/ EditorUpload
  \/ \E i \in Ids : RemoveNode(i)
  \/ CloseEditor
  \/ HandleDescriptionChange
  \/ HandleDescriptionBlur
  \/ HandleGenerate
  \/ Progress
  \/ TimesOut

Fairness == WF_vars(Progress) /\ WF_vars(TimesOut)
Spec == Init /\ [][Next]_vars
FairSpec == Spec /\ Fairness

-----------------------------------------------------------------------------
\* Every variable has its type, and what is referred to is on the canvas.
TypeOK ==
  /\ \A a \in Assets : link[a] \in Ids \cup {None}
  /\ editor.asset \in Assets \cup {None} /\ target \in Assets \cup {None}
  /\ \A i \in Present : node[i].ref \in Present \cup {None} /\ node[i].asset \in Assets \cup {None}
  /\ \A e \in edges : {e[1], e[2]} \subseteq Present
  /\ watch \subseteq Ids

\* The picture kept as the user's is the user's: nothing that was generated is
\* ever recorded as a source or put into a reference node.
ReferenceIsUsers ==
  \A i \in Present :
    /\ node[i].source # None => node[i].source.by = "user"
    /\ node[i].refOf # None /\ node[i].pic # None => node[i].pic.by = "user"

\* The picture the user last gave an asset is the one its node keeps, and the
\* one its next generation starts from.
OriginalKept ==
  \A a \in Assets :
    LET i == FindAssetImageNode(a)
    IN given[a] # None /\ i # None /\ node[i].source # None /\ node[i].asset = a =>
         /\ node[i].source = given[a]
         /\ FindAssetReferenceNode(i) # None => node[FindAssetReferenceNode(i)].pic = given[a]

\* What is sent names a reference that is connected and has a picture: lacking
\* any of the three the server silently leaves it out.
ReferenceComplete ==
  \A j \in jobs : j.at = "save" /\ node[j.node] # None /\ node[j.node].ref # None =>
    LET r == node[j.node].ref IN <<r, j.node>> \in edges /\ node[r].pic # None

\* A node shown as running has a generation.
RunningIsReal == \A i \in Present : node[i].running => \E j \in jobs : j.node = i

\* A description being written is not replaced under the hand.
DraftStays ==
  editor.asset # None /\ editor.draft # editor.saved /\ editor'.asset = editor.asset
    => editor'.draft >= editor.draft

\* A file that was chosen is uploaded.
FilesTaken == ~ignored

\* What keeps the editor busy, and is to end.
Waits == {w \in {"busy"} : editor.generating \/ editor.uploading}
=============================================================================
