-------------------------------- MODULE ImageOps --------------------------------
(***************************************************************************)
(* The tools of an image node: cutting it along a grid, enlarging it,      *)
(* other views of it, and redrawing what was marked on it.  From           *)
(* src/web/src/components/canvas/imageops (opsStore, SplitOverlay,         *)
(* SplitConfig, ElementEditOverlay, QualityConfig, ViewConfig),            *)
(* NodeToolbar.tsx, utils/imageOpsNodes.ts and utils/runNodes.ts.          *)
(*                                                                         *)
(* One session is open at a time, on one node; what it asked for is        *)
(* answered later, whatever is open by then.  A place on the picture is    *)
(* the number of the click that marked it, a name the number of the place  *)
(* it was asked for, a cut an integer below Width.                         *)
(***************************************************************************)
EXTENDS Integers, Sequences, FiniteSets, SequencesExt

CONSTANTS
  Images,      \* the image nodes of the canvas
  Spare,       \* bound: the nodes that can be made from them
  Grids,       \* the grids offered, <<rows, columns>>
  Width,       \* a cut is at 1..Width-1, and one unit from the next
  Modes,       \* the tools used: subset of {"split", "element", "quality", "view"}
  Habits,      \* what the user does, subset of {"held" (the overlay can
               \* close while a line of it is held), "retry"
               \* (generate after a failed edit), "twice" (submit before the last
               \* submission is through), "many" (several cells in 4K)}, and
               \* "slow": an execution can outlast the watch on it
  Losses,      \* subset of {"ask", "upload", "save", "execute", "run"}: what can fail
  MaxOps,      \* bound: clicks that ask the server, mark a place or open a tool
  MaxMarks,    \* bound: regions at a time
  Sized,       \* the images whose size is recorded
  None

VARIABLES
  nodes,       \* what this module needs of the nodes of the canvas
  runs,        \* executions whose end the client has not heard of
  session,     \* mode, targetId, busy
  split,       \* SplitDraft
  element,     \* ElementDraft
  drag,        \* dragRef of the SplitOverlay of each node
  asks,        \* recognize-object requests
  jobs,        \* handlers past their first await
  watch,       \* nodes with a watchElementEditRun
  used,        \* instructions a successful run has carried out (observer)
  ops

vars == <<nodes, runs, session, split, element, drag, asks, jobs, watch, used, ops>>
drafts == <<split, element>>

Statuses == {"idle", "running", "success", "failed"}
Closed == [mode |-> "none", target |-> None, busy |-> FALSE]
Grid(rows, cols) == [rows |-> rows, cols |-> cols, cutsX |-> << >>, cutsY |-> << >>, selected |-> {}]
NoElement == [regions |-> << >>, target |-> 0, recognizing |-> FALSE, move |-> FALSE]
Unused == [status |-> "idle", instr |-> 0, saved |-> 0]
NoSplit == Grid(1, 1)
NoDrag == [axis |-> "none", i |-> 0]

Init ==
  /\ nodes = [n \in Images |-> Unused]
  /\ runs = {} /\ session = Closed /\ split = NoSplit /\ element = NoElement
  /\ drag = [n \in Images |-> NoDrag]
  /\ asks = {} /\ jobs = {} /\ watch = {} /\ used = {} /\ ops = 0

Count == ops < MaxOps /\ ops' = ops + 1
In(mode) == session.mode = mode
Dragged == \E n \in Images : drag[n].axis # "none"
\* While the pointer holds a line it clicks nothing else.
Free == ~(Dragged /\ session.mode = "split") \/ "held" \in Habits

-----------------------------------------------------------------------------
(* The session: ops.open, ops.close, ops.busy.                               *)

\* The toolbar of a node offers its tools unless it shows the settings of one.
\* Every tool starts with a new draft; a grid is preset by what the picture is.
Open(n, mode) ==
  /\ session.target # n /\ Free /\ Count
  /\ session' = [mode |-> mode, target |-> n, busy |-> FALSE]
  /\ IF mode = "split" THEN \E g \in Grids : split' = Grid(g[1], g[2]) ELSE split' = NoSplit
  /\ element' = NoElement
  /\ UNCHANGED <<nodes, runs, drag, asks, jobs, watch, used>>

\* The cross, Escape, a click on the empty canvas.  The line a drag holds is
\* let go of only by an overlay that is active.
\* Nothing looks at the drafts before the next tool resets them.
Shut == session' = Closed /\ split' = NoSplit /\ element' = NoElement
Close ==
  /\ session # Closed /\ Free /\ Shut
  /\ UNCHANGED <<nodes, runs, drag, asks, jobs, watch, used, ops>>

-----------------------------------------------------------------------------
(* Cutting: the grid, its cells and its lines.                               *)

Cuts(axis) == IF axis = "x" THEN split.cutsX ELSE split.cutsY
Lines(axis) == IF axis = "x" THEN split.cols - 1 ELSE split.rows - 1
EqualCuts(k) == [i \in 1..k |-> (i * Width) \div (k + 1)]
Effective(axis) == IF Cuts(axis) # << >> THEN Cuts(axis) ELSE EqualCuts(Lines(axis))
Cells == 0..((Len(Effective("x")) + 1) * (Len(Effective("y")) + 1) - 1)

Keep == UNCHANGED <<nodes, runs, session, element, drag, asks, jobs, watch, used, ops>>

SplitPreset(g) ==
  /\ In("split") /\ ~Dragged /\ split # Grid(g[1], g[2])
  /\ split' = Grid(g[1], g[2]) /\ Keep
SplitSelect(i, additive) ==
  /\ In("split") /\ ~Dragged
  /\ split' = [split EXCEPT !.selected =
       IF ~additive THEN {i} ELSE IF i \in @ THEN @ \ {i} ELSE @ \cup {i}]
  /\ Keep
SplitToggleAll ==
  /\ In("split") /\ ~Dragged
  /\ split' = [split EXCEPT !.selected = IF @ = Cells THEN {} ELSE Cells]
  /\ Keep

Grab(axis, i) ==
  /\ In("split") /\ ~Dragged /\ i \in DOMAIN Effective(axis) /\ (jobs = {} \/ "held" \in Habits)
  /\ drag' = [drag EXCEPT ![session.target] = [axis |-> axis, i |-> i]]
  /\ UNCHANGED <<nodes, runs, session, drafts, asks, jobs, watch, used, ops>>

\* clampCut: a line stops one unit before the next.  The neighbour of a line
\* the grid does not have is undefined, and what is computed from it NaN.
ClampCut(cuts, i, at) ==
  LET lower == IF i = 1 THEN 1 ELSE cuts[i - 1] + 1
      upper == IF i = Len(cuts) THEN Width - 1 ELSE cuts[i + 1] - 1
  IN IF i > Len(cuts) THEN -1 ELSE IF at < lower THEN (IF lower < upper THEN lower ELSE upper) ELSE IF at > upper THEN upper ELSE at
Moved(cuts, i, at) ==
  [k \in 1..(IF i > Len(cuts) THEN i ELSE Len(cuts)) |->
     IF k = i THEN ClampCut(cuts, i, at) ELSE IF k \in DOMAIN cuts THEN cuts[k] ELSE -1]

\* ops.splitCuts: the selection keeps the cells there still are.
DragLine(at) ==
  LET d == drag[session.target]
      next == Moved(Effective(d.axis), d.i, at)
      across == (IF d.axis = "x" THEN Len(next) + 1 ELSE split.cols)
      down == (IF d.axis = "y" THEN Len(next) + 1 ELSE split.rows)
  IN /\ In("split") /\ d.axis # "none"
     /\ split' = [split EXCEPT !.cutsX = IF d.axis = "x" THEN next ELSE @,
                               !.cutsY = IF d.axis = "y" THEN next ELSE @,
                               !.selected = {c \in @ : c < across * down}]
     /\ Keep
\* The pointer is let go of: heard by the overlay that is active.
DropLine ==
  /\ In("split") /\ drag[session.target].axis # "none"
  /\ drag' = [drag EXCEPT ![session.target] = NoDrag]
  /\ UNCHANGED <<nodes, runs, session, drafts, asks, jobs, watch, used, ops>>

-----------------------------------------------------------------------------
(* Marking what to redraw.                                                   *)

Regions == element.regions
Mark(name) == [spot |-> ops + 1, name |-> name]
KeepAll == UNCHANGED <<nodes, runs, session, split, drag, jobs, watch, used>>

\* onUp: a rectangle.
AddBox ==
  /\ In("element") /\ ~element.move /\ Len(Regions) < MaxMarks /\ Count
  /\ element' = [element EXCEPT !.regions = Append(@, Mark(0))]
  /\ UNCHANGED asks /\ KeepAll
\* A click with the point tool: a circle at once, and the question what is there.
AddPoint ==
  /\ In("element") /\ ~element.move /\ Len(Regions) < MaxMarks /\ Count
  /\ element' = [element EXCEPT !.regions = Append(@, Mark(0)), !.recognizing = TRUE]
  /\ asks' = asks \cup {[node |-> session.target, i |-> Len(Regions) + 1, spot |-> ops + 1]}
  /\ KeepAll
ElementUndo ==
  /\ In("element") /\ ~session.busy /\ Regions # << >>
  /\ element' = [element EXCEPT !.regions = Front(@), !.target = 0]
  /\ UNCHANGED <<asks, ops>> /\ KeepAll
ElementClearRegions ==
  /\ In("element") /\ ~session.busy /\ Regions # << >>
  /\ element' = [element EXCEPT !.regions = << >>, !.target = 0]
  /\ UNCHANGED <<asks, ops>> /\ KeepAll
\* "Move": the next click marks where to.
ElementToggleMoveMode ==
  /\ In("element") /\ ~session.busy /\ Regions # << >>
  /\ element' = [element EXCEPT !.move = ~@]
  /\ UNCHANGED <<asks, ops>> /\ KeepAll
\* One of the layers the answer offered for the last region that has several.
ElementSelectCandidate ==
  /\ In("element") /\ \E i \in DOMAIN Regions : Regions[i].name # 0
  /\ element' = [element EXCEPT !.target =
       Regions[CHOOSE i \in DOMAIN Regions : /\ Regions[i].name # 0
                                             /\ \A k \in DOMAIN Regions : k > i => Regions[k].name = 0].name]
  /\ UNCHANGED <<asks, ops>> /\ KeepAll

\* recognizePointRegion after its await: an answer is for the session of its
\* node and for the place it was asked about, or for nothing.
StillValid(a) == In("element") /\ session.target = a.node
\* Mutant: the region is looked up by its index alone.
SameIndex(a) == a.i \in DOMAIN Regions
SameSpot(a) == a.i \in DOMAIN Regions /\ Regions[a.i].spot = a.spot
Recognized(a, found) ==
  LET here == StillValid(a) /\ SameSpot(a)
      quiet == [element EXCEPT !.recognizing = FALSE]
  IN /\ asks' = asks \ {a}
     /\ element' = IF ~StillValid(a) THEN element
                   ELSE IF ~here THEN quiet
                   ELSE IF found THEN [quiet EXCEPT !.regions[a.i].name = a.spot, !.target = a.spot]
                   ELSE [quiet EXCEPT !.target = 0]
     /\ UNCHANGED ops /\ KeepAll
RecognizeFails(a) ==
  /\ "ask" \in Losses /\ asks' = asks \ {a}
  /\ element' = IF StillValid(a) THEN [element EXCEPT !.recognizing = FALSE] ELSE element
  /\ UNCHANGED ops /\ KeepAll

-----------------------------------------------------------------------------
(* Asking the server.                                                        *)

(* A handler past its first await: what it does next.                        *)
Job(kind, step) ==
  [id |-> ops + 1, kind |-> kind, node |-> session.target, step |-> step,
   k |-> 1, ids |-> << >>, at |-> 1, round |-> 1, wrote |-> FALSE]
Begin(job) ==
  /\ ~session.busy /\ Free /\ Count
  /\ jobs' = jobs \cup {job}
Step(j, next) == jobs' = (jobs \ {j}) \cup {next}

\* The cells the split is for: the selected ones, or all.
Targets == IF split.selected # {} THEN split.selected ELSE Cells
RunSplit(kind) ==
  /\ In("split") /\ (kind = "hd" => Cardinality(Targets) = 1 \/ "many" \in Habits)
  /\ Begin([Job(kind, "ask") EXCEPT !.k = Cardinality(Targets)])
  /\ session' = [session EXCEPT !.busy = TRUE]
  /\ UNCHANGED <<nodes, runs, drafts, drag, asks, watch, used>>
DoScale ==
  /\ In("quality") /\ Begin(Job("scale", "ask"))
  /\ session' = [session EXCEPT !.busy = TRUE]
  /\ UNCHANGED <<nodes, runs, drafts, drag, asks, watch, used>>

Pools(k) == {S \in SUBSET (Spare \ DOMAIN nodes) : Cardinality(S) = k}
Fresh(k) == SetToSeq(CHOOSE S \in Pools(k) : TRUE)
With(new) == [n \in DOMAIN nodes \cup Range(new) |-> IF n \in DOMAIN nodes THEN nodes[n] ELSE Unused]

\* 4K again from this picture, another view of it: a node is made and run.
DoRegenerate ==
  /\ session.mode \in {"quality", "view"} /\ Pools(1) # {}
  /\ Begin([Job("regen", "save") EXCEPT !.ids = Fresh(1)])
  /\ session' = [session EXCEPT !.busy = TRUE] /\ nodes' = With(Fresh(1))
  /\ UNCHANGED <<runs, drafts, drag, asks, watch, used>>

\* submitElementEdit: until the size of the picture is known nothing tells
\* that a submission is under way.
Submit ==
  LET n == session.target
      sized == n \in Sized
  IN /\ In("element") /\ Regions # << >> /\ nodes[n].status # "running"
     /\ "twice" \in Habits \/ \A j \in jobs : j.node # n \/ j.kind \notin {"edit", "plain"}
     /\ Begin([Job("edit", IF sized THEN "upload" ELSE "measure") EXCEPT !.ids = <<n>>])
     /\ session' = [session EXCEPT !.busy = sized]
     /\ UNCHANGED <<nodes, runs, drafts, drag, asks, watch, used>>
Measured(j) ==
  /\ j.step = "measure" /\ Step(j, [j EXCEPT !.step = "upload"])
  /\ session' = [session EXCEPT !.busy = TRUE]
  /\ UNCHANGED <<nodes, runs, drafts, drag, asks, watch, used, ops>>
\* The mask is on the server: the instruction is written into the node, and a
\* watch set on what becomes of it.
Uploaded(j) ==
  /\ j.step = "upload" /\ Step(j, [j EXCEPT !.step = "save", !.wrote = TRUE])
  /\ nodes' = [nodes EXCEPT ![j.node].instr = j.id] /\ watch' = watch \cup {j.node}
  /\ UNCHANGED <<runs, session, drafts, drag, asks, used, ops>>

\* The "generate" button of the node, outside these tools.
Generate(n) ==
  /\ nodes[n].status # "running" /\ (nodes[n].instr # 0 /\ nodes[n].status = "failed" => "retry" \in Habits)
  /\ \A j \in jobs : n # j.node /\ n \notin Range(j.ids)
  /\ Count /\ jobs' = jobs \cup {[Job("plain", "save") EXCEPT !.node = n, !.ids = <<n>>]}
  /\ UNCHANGED <<nodes, runs, session, drafts, drag, asks, watch, used>>

\* try ... finally: ops.busy(false), after ops.close() where all went well.
Finish(j) ==
  /\ jobs' = jobs \ {j}
  /\ IF j.kind = "plain" THEN UNCHANGED <<session, drafts>> ELSE Shut
\* Mutant: a failure leaves the tool busy.
GiveUpBusy(j) == jobs' = jobs \ {j} /\ UNCHANGED <<drafts, session>>
GiveUp(j) ==
  /\ jobs' = jobs \ {j} /\ UNCHANGED drafts
  /\ session' = IF j.kind = "plain" THEN session ELSE [session EXCEPT !.busy = FALSE]

\* The tiles: one node each, and one more each for the 4K pictures.
Answered(j) ==
  /\ j.step = "ask"
  /\ \/ /\ j.kind = "split" /\ Pools(j.k) # {} /\ nodes' = With(Fresh(j.k)) /\ Finish(j)
     \/ /\ j.kind = "scale" /\ Pools(1) # {} /\ nodes' = With(Fresh(1)) /\ Finish(j)
     \/ /\ j.kind = "scale" /\ UNCHANGED nodes /\ (Finish(j) \/ GiveUp(j))
     \/ /\ j.kind = "hd" /\ Pools(2 * j.k) # {} /\ nodes' = With(Fresh(2 * j.k))
        /\ Step(j, [j EXCEPT !.step = "save", !.ids = SubSeq(Fresh(2 * j.k), j.k + 1, 2 * j.k)])
        /\ UNCHANGED <<session, drafts>>
  /\ UNCHANGED <<runs, drag, asks, watch, used, ops>>
\* No answer, or none with a picture in it.
AskFails(j) ==
  /\ j.step \in {"ask", "upload"} /\ {"ask", "upload"} \cap Losses # {} /\ GiveUp(j)
  /\ UNCHANGED <<nodes, runs, drag, asks, watch, used, ops>>

-----------------------------------------------------------------------------
(* startNodeExecutions: save, mark all as running, execute one by one.       *)

Saved(j) ==
  /\ j.step = "save"
  /\ nodes' = [n \in DOMAIN nodes |->
       [nodes[n] EXCEPT !.saved = nodes[n].instr, !.status = IF n \in Range(j.ids) THEN "running" ELSE @]]
  /\ Step(j, [j EXCEPT !.step = "run", !.at = 1])
  /\ UNCHANGED <<runs, session, drafts, drag, asks, watch, used, ops>>

\* The catch of submitElementEdit takes back what it wrote.
TakeBack(ns, j) ==
  IF j.wrote THEN [ns EXCEPT ![j.node].instr = 0, ![j.node].status = "failed"] ELSE ns
Unwatched(j) == watch' = IF j.wrote THEN watch \ {j.node} ELSE watch
SaveFails(j) ==
  /\ j.step = "save" /\ "save" \in Losses /\ GiveUp(j)
  /\ nodes' = TakeBack(nodes, j) /\ Unwatched(j)
  /\ UNCHANGED <<runs, drag, asks, used, ops>>

\* The server refuses a node that is already being run.
Underway(n) == \E r \in runs : r.node = n /\ ~r.over
Execute(j) ==
  LET n == j.ids[j.at]
      last == j.at = Len(j.ids)
  IN /\ j.step = "run" /\ ~Underway(n)
     /\ runs' = runs \cup {[node |-> n, instr |-> nodes[n].saved, over |-> FALSE, ok |-> TRUE]}
     /\ IF ~last THEN Step(j, [j EXCEPT !.at = @ + 1]) /\ UNCHANGED <<session, drafts>>
        ELSE IF j.kind = "hd" /\ j.round < Len(j.ids)
             THEN Step(j, [j EXCEPT !.step = "save", !.round = @ + 1]) /\ UNCHANGED <<session, drafts>>
        ELSE Finish(j)
     /\ UNCHANGED <<nodes, drag, asks, watch, used, ops>>
ExecuteFails(j) ==
  LET n == j.ids[j.at] IN
  /\ j.step = "run" /\ (Underway(n) \/ "execute" \in Losses) /\ GiveUp(j)
  /\ nodes' = TakeBack([nodes EXCEPT ![n].status = "failed"], j) /\ watch' = watch \ {n}
  /\ UNCHANGED <<runs, drag, asks, used, ops>>

\* The server is through: an instruction that was carried out is deleted from
\* the canvas it holds.
RunEnds(r, ok) ==
  /\ ~r.over /\ (ok \/ "run" \in Losses)
  /\ runs' = (runs \ {r}) \cup {[r EXCEPT !.over = TRUE, !.ok = ok]}
  /\ nodes' = IF ok /\ r.instr # 0 THEN [nodes EXCEPT ![r.node].saved = 0] ELSE nodes
  /\ used' = IF ok THEN used \cup ({r.instr} \ {0}) ELSE used
  /\ UNCHANGED <<session, drafts, drag, asks, jobs, watch, ops>>
\* The client hears of it; watchElementEditRun follows the status of the node.
RunHeard(r) ==
  LET status == IF r.ok THEN "success" ELSE "failed"
      watched == r.node \in watch /\ nodes[r.node].status # status
  IN /\ r.over /\ runs' = runs \ {r}
     /\ nodes' = [nodes EXCEPT ![r.node].status = status,
                               ![r.node].instr = IF watched /\ r.ok THEN 0 ELSE @]
     /\ watch' = IF watched THEN watch \ {r.node} ELSE watch
     /\ UNCHANGED <<session, drafts, drag, asks, jobs, used, ops>>
\* Five minutes.
WatchExpires(n) ==
  /\ "slow" \in Habits /\ n \in watch /\ watch' = watch \ {n}
  /\ UNCHANGED <<nodes, runs, session, drafts, drag, asks, jobs, used, ops>>

-----------------------------------------------------------------------------
Cutting ==
  \/ \E g \in Grids : SplitPreset(g)
  \/ \E i \in Cells, additive \in BOOLEAN : SplitSelect(i, additive)
  \/ SplitToggleAll
  \/ \E axis \in {"x", "y"}, i \in 1..Width : Grab(axis, i)
  \/ \E at \in 1..(Width - 1) : DragLine(at)
  \/ DropLine
Marking ==
  \/ AddBox \/ AddPoint \/ ElementUndo \/ ElementClearRegions
  \/ ElementToggleMoveMode \/ ElementSelectCandidate
Answers(a) == (\E found \in BOOLEAN : Recognized(a, found)) \/ RecognizeFails(a)
Continue(j) ==
  \/ Measured(j) \/ Uploaded(j) \/ Answered(j) \/ AskFails(j)
  \/ Saved(j) \/ SaveFails(j) \/ Execute(j) \/ ExecuteFails(j)
Next ==
  \/ \E n \in Images, mode \in Modes : Open(n, mode)
  \/ Close \/ Cutting \/ Marking
  \/ \E a \in asks : Answers(a)
  \/ RunSplit("split") \/ RunSplit("hd") \/ DoScale \/ DoRegenerate \/ Submit
  \/ \E n \in DOMAIN nodes : Generate(n)
  \/ \E j \in jobs : Continue(j)
  \/ \E r \in runs : (\E ok \in BOOLEAN : RunEnds(r, ok)) \/ RunHeard(r)
  \/ \E n \in Images : WatchExpires(n)

\* What was asked for is answered, or its failure reported.
Fairness ==
  /\ WF_vars(\E j \in jobs : Continue(j))
  /\ WF_vars(\E a \in asks : Answers(a))
  /\ WF_vars(\E r \in runs : (\E ok \in BOOLEAN : RunEnds(r, ok)) \/ RunHeard(r))
Spec == Init /\ [][Next]_vars
FairSpec == Spec /\ Fairness

-----------------------------------------------------------------------------
TypeOK ==
  /\ Images \subseteq DOMAIN nodes
  /\ \A n \in DOMAIN nodes : nodes[n].status \in Statuses /\ nodes[n].instr \in 0..MaxOps /\ nodes[n].saved \in 0..MaxOps
  /\ session.mode \in Modes \cup {"none"} /\ (session.mode = "none" <=> session.target = None)
  /\ \A j \in jobs : Range(j.ids) \subseteq DOMAIN nodes
  /\ watch \subseteq Images

\* However the lines were dragged, there are as many as the grid has, they
\* are in order and none is out of the picture; the cells that are selected
\* are cells of the grid (geometry.ts clampCut, opsStore.ts splitCuts).
LinesApart ==
  /\ \A axis \in {"x", "y"} :
       LET cuts == Effective(axis) IN
       /\ Len(cuts) = Lines(axis)
       /\ \A i \in DOMAIN cuts : cuts[i] \in 1..(Width - 1) /\ (i > 1 => cuts[i - 1] < cuts[i])
  /\ split.selected \subseteq Cells

\* A name is at the place it was asked for, and what the prompt is told it is
\* about is on the picture: undone, it is gone (opsStore.ts:33).
NamesMatch ==
  /\ \A i \in DOMAIN Regions : Regions[i].name \in {0, Regions[i].spot}
  /\ element.target # 0 => \E i \in DOMAIN Regions : Regions[i].name = element.target

\* A node shown as running is run, or a handler is about to have it run.
RunningIsReal ==
  \A n \in DOMAIN nodes : nodes[n].status = "running" =>
    (\E r \in runs : r.node = n) \/ (\E j \in jobs : n \in Range(j.ids))

\* A node shown as failed is not being run and paid for: a failed submission
\* is not one the server has accepted before.
FailedIsOver == \A n \in DOMAIN nodes : nodes[n].status = "failed" => ~Underway(n)

\* An instruction is for one picture: after a success no execution carries it
\* out again (ElementEditOverlay.tsx:469-471).
InstructionUsedOnce == \A r \in runs' \ runs : r.instr \notin used \/ r.over

\* The buttons of the settings that are to come back, whatever fails.
Waits == {w \in {"busy"} : session.busy}
=============================================================================
