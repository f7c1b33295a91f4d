---------------------------- MODULE CanvasPersist ----------------------------
(***************************************************************************)
(* The document of one project and all who write it: the page that saves   *)
(* its own copy, an execution that stores a node the moment it has a       *)
(* result (persistNodeOutput) and the whole document when it is over       *)
(* (persistNodeOutputs), and the watchdog that repairs what an execution   *)
(* left behind (reconcileCanvasNodes).  Everybody reads, changes and saves *)
(* by canvasRepo.Save, which reads again, keeps what was produced and      *)
(* updates only the version it has read.  The executions of a project also *)
(* take its lock; the page and the watchdog do not.                        *)
(***************************************************************************)
EXTENDS Naturals

CONSTANTS
  Runs,        \* the executions of the project
  NodeOf,      \* NodeOf[r]: the node execution r generates
  Nodes,
  Tab, Dog,    \* the page and the watchdog
  None,
  Habits,      \* "thumbless": a thumbnail is not made; "repair": the watchdog
               \* delivers over the thumbnail of an older picture
  MaxEdits,    \* bound: changes made on the page
  MaxSaves,    \* bound: saves of the page
  MaxCrashes   \* bound: stops of the server

VARIABLES
  doc,         \* the content of the canvas: node -> its data, or None
  version,     \* its version
  tab,         \* the copy the page holds
  run,         \* run[r]: where execution r is, the document it read, its output
  last,        \* the execution whose outputs the engine holds (lastOutputs)
  lock,        \* the execution that holds the lock of the project
  write,       \* write[w]: the call of Save that writer w is in
  edits, saves, crashes

serverVars == <<doc, version, run, last, lock, write>>
persistVars == <<serverVars, tab, edits, saves, crashes>>

Writers == Runs \cup {Tab, Dog}
Attempts == 3

\* A picture is named after the execution that made it; "own" was uploaded.
Pictures == Runs \cup {"own"}
Node == [status : {"idle", "running", "success", "failed"}, prompt : 0..MaxEdits,
         art : Pictures \cup {"none"}, thumb : Pictures \cup {"none"}]
Documents == [Nodes -> Node \cup {None}]
Output == [ok : BOOLEAN, art : Pictures \cup {"none"}, thumb : Pictures \cup {"none"}]
NoOutput == [ok |-> FALSE, art |-> "none", thumb |-> "none"]
Places == {"idle", "engine", "hook", "hooking", "emit", "collect", "outputs", "final",
           "finalizing", "over"}

TypeOK ==
  /\ doc \in Documents /\ tab \in Documents /\ version \in Nat
  /\ run \in [Runs -> [pc : Places, plan : Documents, out : Output]]
  /\ last \in Runs \cup {None} /\ lock \in Runs \cup {None}
  /\ write \in [Writers -> [pc : {"no", "find", "update"}, content : Documents,
                            seen : Documents, at : Nat, tries : 0..Attempts]]
  /\ edits \in 0..MaxEdits /\ saves \in 0..MaxSaves /\ crashes \in 0..MaxCrashes

Blank == [n \in Nodes |-> None]
NoWrite == [pc |-> "no", content |-> Blank, seen |-> Blank, at |-> 0, tries |-> 0]
Fresh(art) == [status |-> "idle", prompt |-> 0, art |-> art, thumb |-> art]

Init ==
  /\ doc \in [Nodes -> {Fresh("none"), Fresh("own")}]
  /\ version = 1 /\ tab = doc
  /\ run = [r \in Runs |-> [pc |-> "idle", plan |-> Blank, out |-> NoOutput]]
  /\ last = None /\ lock = None
  /\ write = [w \in Writers |-> NoWrite]
  /\ edits = 0 /\ saves = 0 /\ crashes = 0

-----------------------------------------------------------------------------
(* canvasRepo.Save *)

\* What was produced stays, unless something else was produced; a thumbnail
\* stays with its picture only.
ArtChanged(old, new) == new.art # "none" /\ old.art # "none" /\ new.art # old.art
Sticky(old, new) ==
  [new EXCEPT !.art = IF @ = "none" THEN old.art ELSE @,
              !.thumb = IF @ = "none" /\ ~ArtChanged(old, new) THEN old.thumb ELSE @]
mergeStickyProducts(old, new) ==
  [n \in Nodes |-> IF old[n] = None \/ new[n] = None THEN new[n] ELSE Sticky(old[n], new[n])]

Saves(w, content) ==
  write' = [write EXCEPT ![w] = [NoWrite EXCEPT !.pc = "find", !.content = content]]

Find(w) ==
  /\ write[w].pc = "find"
  /\ write' = [write EXCEPT ![w].pc = "update", ![w].seen = doc, ![w].at = version]
  /\ UNCHANGED <<doc, version, run, last, lock, tab, edits, saves, crashes>>
\* A lost race keeps what was merged for it (canvas.Content is assigned before the
\* update), so what was produced in between may be replaced by what was there.
Kept(w) == mergeStickyProducts(write[w].seen, write[w].content)
Unmoved(w) == write[w].at = version
Update(w) ==
  /\ write[w].pc = "update"
  /\ \/ /\ Unmoved(w)
        /\ doc' = Kept(w)
        /\ version' = version + 1
        /\ write' = [write EXCEPT ![w] = NoWrite]
     \/ /\ ~Unmoved(w) /\ write[w].tries + 1 < Attempts
        /\ write' = [write EXCEPT ![w].tries = @ + 1, ![w].pc = "find", ![w].content = Kept(w)]
        /\ UNCHANGED <<doc, version>>
     \/ /\ ~Unmoved(w) /\ write[w].tries + 1 = Attempts
        /\ write' = [write EXCEPT ![w] = NoWrite]
        /\ UNCHANGED <<doc, version>>
  /\ UNCHANGED <<run, last, lock, tab, edits, saves, crashes>>

-----------------------------------------------------------------------------
(* The page *)

Shows(content) == tab' = content /\ UNCHANGED <<serverVars, crashes>>
\* A prompt is typed, and may be generated at once.
Typed(n) ==
  /\ tab[n] # None /\ edits < MaxEdits /\ edits' = edits + 1 /\ saves' = saves
  /\ \E status \in {tab[n].status, "running"} :
       Shows([tab EXCEPT ![n].prompt = edits + 1, ![n].status = status])
Removed(n) ==
  /\ tab[n] # None /\ edits < MaxEdits /\ edits' = edits + 1 /\ saves' = saves
  /\ Shows([tab EXCEPT ![n] = None])
\* A picture is chosen from the history of the node, or uploaded.
Picked(n, art) ==
  /\ tab[n] # None /\ edits < MaxEdits /\ edits' = edits + 1 /\ saves' = saves
  /\ art \in {"own"} \cup {r \in Runs : NodeOf[r] = n /\ run[r].out.ok}
  /\ \E thumb \in {art, "none"} :
       Shows([tab EXCEPT ![n].art = art, ![n].thumb = thumb, ![n].status = "success"])
Reload == write[Tab].pc = "no" /\ Shows(doc) /\ UNCHANGED <<edits, saves>>
Save ==
  /\ write[Tab].pc = "no" /\ saves < MaxSaves /\ saves' = saves + 1
  /\ Saves(Tab, tab)
  /\ UNCHANGED <<doc, version, run, last, lock, tab, edits, crashes>>

-----------------------------------------------------------------------------
(* An execution *)

Goes(r, pc) == run' = [run EXCEPT ![r].pc = pc]
Active(r) == run[r].pc \notin {"idle", "over"}

\* The output of a node in its data (mergeNodeOutputData): what is not there is
\* not written, and nothing produced is removed.
mergeNodeOutputData(old, out) ==
  [old EXCEPT !.status = IF out.ok THEN "success" ELSE "failed",
              !.art = IF out.art = "none" THEN @ ELSE out.art,
              !.thumb = IF out.thumb = "none" THEN @ ELSE out.thumb]
Merged(content, n, out) ==
  IF content[n] = None THEN content
  ELSE [content EXCEPT ![n] = mergeNodeOutputData(@, out)]

buildPlan(r) ==
  /\ run[r].pc = "idle" /\ doc[NodeOf[r]] # None
  /\ \A q \in Runs : NodeOf[q] = NodeOf[r] => ~Active(q)
  /\ run' = [run EXCEPT ![r].pc = "engine", ![r].plan = doc]
  /\ UNCHANGED <<doc, version, last, lock, write, tab, edits, saves, crashes>>
Execute(r) ==
  /\ run[r].pc = "engine"
  /\ \E out \in {NoOutput} \cup [ok : {TRUE}, art : {r},
         thumb : {r} \cup (IF "thumbless" \in Habits THEN {"none"} ELSE {})] :
       run' = [run EXCEPT ![r].pc = "hook", ![r].out = out]
  /\ UNCHANGED <<doc, version, last, lock, write, tab, edits, saves, crashes>>

\* The hook stores one node of the document as it is now.
persistNodeOutput(r) ==
  /\ run[r].pc = "hook" /\ lock = None
  /\ \/ /\ doc[NodeOf[r]] = None /\ Goes(r, "emit") /\ UNCHANGED <<lock, write>>
     \/ /\ doc[NodeOf[r]] # None /\ Goes(r, "hooking") /\ lock' = r
        /\ Saves(r, Merged(doc, NodeOf[r], run[r].out))
  /\ UNCHANGED <<doc, version, last, tab, edits, saves, crashes>>
Unlocked(r, from, to) ==
  /\ run[r].pc = from /\ write[r].pc = "no"
  /\ run' = [run EXCEPT ![r].pc = to, ![r].plan = IF to = "over" THEN Blank ELSE @]
  /\ lock' = None
  /\ UNCHANGED <<doc, version, last, write, tab, edits, saves, crashes>>
Hooked(r) == Unlocked(r, "hooking", "emit")

\* The page hears of it, or does not.
Emit(r) ==
  /\ run[r].pc = "emit" /\ Goes(r, "collect")
  /\ tab' \in {tab, Merged(tab, NodeOf[r], run[r].out)}
  /\ UNCHANGED <<doc, version, last, lock, write, edits, saves, crashes>>
saveOutputs(r) ==
  /\ run[r].pc = "collect" /\ Goes(r, "outputs") /\ last' = r
  /\ UNCHANGED <<doc, version, lock, write, tab, edits, saves, crashes>>

\* The end stores the document read before the engine ran, with the outputs the
\* engine collected last, whosever they are.  (Its prompts are those of the plan,
\* which was read with it.)
LastOutputs(r) ==
  /\ run[r].pc = "outputs"
  /\ run' = [run EXCEPT ![r].pc = "final",
       ![r].plan = Merged(run[r].plan, NodeOf[last], run[last].out)]
  /\ UNCHANGED <<doc, version, last, lock, write, tab, edits, saves, crashes>>
persistNodeOutputs(r) ==
  /\ run[r].pc = "final" /\ lock = None
  /\ Goes(r, "finalizing") /\ lock' = r /\ Saves(r, run[r].plan)
  /\ UNCHANGED <<doc, version, last, tab, edits, saves, crashes>>
Finalized(r) == Unlocked(r, "finalizing", "over")

-----------------------------------------------------------------------------
(* The watchdog and the server *)

\* What was recorded as generated is delivered, without its thumbnail; a node
\* that still runs has failed.
Repaired(n, r) ==
  IF run[r].out.ok THEN [doc EXCEPT ![n].art = r, ![n].status = "success"]
  ELSE [doc EXCEPT ![n].status = "failed"]
reconcileCanvasNodes(r) ==
  LET n == NodeOf[r] IN
  /\ run[r].pc # "idle" /\ write[Dog].pc = "no" /\ doc[n] # None
  /\ ~run[r].out.ok => doc[n].status = "running"
  /\ run[r].out.ok /\ doc[n].thumb \notin {"none", r} => "repair" \in Habits
  /\ Repaired(n, r) # doc
  /\ Saves(Dog, Repaired(n, r))
  /\ UNCHANGED <<doc, version, run, last, lock, tab, edits, saves, crashes>>

Crash ==
  /\ crashes < MaxCrashes /\ crashes' = crashes + 1
  /\ run' = [r \in Runs |-> IF Active(r) THEN [run[r] EXCEPT !.pc = "over", !.plan = Blank] ELSE run[r]]
  /\ last' = None /\ lock' = None
  /\ write' = [w \in Writers |-> NoWrite]
  /\ UNCHANGED <<doc, version, tab, edits, saves>>

-----------------------------------------------------------------------------
Page ==
  \/ \E n \in Nodes : Typed(n) \/ Removed(n)
  \/ \E n \in Nodes, art \in Pictures : Picked(n, art)
  \/ Reload
  \/ Save
Execution(r) ==
  \/ buildPlan(r)
  \/ Execute(r)
  \/ persistNodeOutput(r)
  \/ Hooked(r)
  \/ Emit(r)
  \/ saveOutputs(r)
  \/ LastOutputs(r)
  \/ persistNodeOutputs(r)
  \/ Finalized(r)
Next ==
  \/ Page
  \/ \E r \in Runs : Execution(r) \/ reconcileCanvasNodes(r)
  \/ \E w \in Writers : Find(w) \/ Update(w)
  \/ Crash
Spec == Init /\ [][Next]_persistVars

-----------------------------------------------------------------------------
\* What was produced and stored is there as long as its node is, whichever old
\* copy of the document is saved over it (canvas_repo.go:41-45).
ProductStays(n) ==
  doc[n] # None /\ doc'[n] # None /\ doc[n].art # "none" => doc'[n].art # "none"
ProductsStay == \A n \in Nodes : ProductStays(n)

\* A card shows the thumbnail of its own picture (canvas_repo.go:160-163).
Fits(content) ==
  \A n \in Nodes : content[n] # None => content[n].thumb \in {"none", content[n].art}
ThumbsFit == Fits(doc)

\* Nobody's save brings back a prompt that was replaced, or a node that was
\* removed (canvas_repo.go:47-48: an old snapshot overwrites nothing).  It does.
EditsStand ==
  \A n \in Nodes :
    /\ doc[n] = None => doc'[n] = None
    /\ doc[n] # None /\ doc'[n] # None => doc'[n].prompt >= doc[n].prompt
=============================================================================
