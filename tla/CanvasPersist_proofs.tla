------------------------ MODULE CanvasPersist_proofs ------------------------
(* For any number of executions and nodes, and any crash: what was produced    *)
(* and stored stays, whichever old copy is saved over it; and a card shows the *)
(* thumbnail of its own picture.                                               *)
EXTENDS CanvasPersist, TLAPS

\* The bounds are numbers, and an execution generates a node.
Instance ==
  /\ MaxEdits \in Nat /\ MaxSaves \in Nat /\ MaxCrashes \in Nat
  /\ NodeOf \in [Runs -> Nodes]

\* While an execution is about to read the outputs of the engine, there are some.
OutputsKnown == \A r \in Runs : run[r].pc = "outputs" => last \in Runs
Typed0 == TypeOK /\ OutputsKnown

Calls == [pc : {"no", "find", "update"}, content : Documents, seen : Documents,
          at : Nat, tries : 0..Attempts]
States == [pc : Places, plan : Documents, out : Output]

-----------------------------------------------------------------------------
(* What the operators return *)

LEMMA BlankType == Blank \in Documents /\ NoWrite \in Calls
BY DEF Blank, Documents, NoWrite, Calls, Attempts

LEMMA ReplacedType ==
  ASSUME NEW d \in Documents, NEW n \in Nodes, NEW x \in Node \cup {None}
  PROVE  [d EXCEPT ![n] = x] \in Documents
BY DEF Documents

LEMMA NodeType ==
  ASSUME NEW d \in Documents, NEW n \in Nodes, d[n] # None
  PROVE  d[n] \in Node
BY DEF Documents

LEMMA StickyType ==
  ASSUME NEW old \in Node, NEW new \in Node
  PROVE  /\ Sticky(old, new) \in Node
         /\ old.art # "none" => Sticky(old, new).art # "none"
BY DEF Sticky, Node, Pictures

LEMMA StickyMergeType ==
  ASSUME NEW old \in Documents, NEW new \in Documents
  PROVE  mergeStickyProducts(old, new) \in Documents
<1>1. ASSUME NEW n \in Nodes, old[n] # None, new[n] # None
      PROVE  Sticky(old[n], new[n]) \in Node
  BY <1>1, NodeType, StickyType
<1> QED BY <1>1 DEF mergeStickyProducts, Documents

LEMMA OutputMergeType ==
  ASSUME NEW old \in Node, NEW out \in Output
  PROVE  mergeNodeOutputData(old, out) \in Node
BY DEF mergeNodeOutputData, Node, Output

LEMMA MergedType ==
  ASSUME NEW d \in Documents, NEW n \in Nodes, NEW out \in Output
  PROVE  Merged(d, n, out) \in Documents
<1>1. CASE d[n] = None
  BY <1>1 DEF Merged
<1>2. CASE d[n] # None
  <2>1. mergeNodeOutputData(d[n], out) \in Node
    BY <1>2, NodeType, OutputMergeType
  <2> DEFINE node == mergeNodeOutputData(d[n], out)
  <2>2. Merged(d, n, out) = [d EXCEPT ![n] = node]
    BY <1>2 DEF Merged
  <2> HIDE DEF node
  <2>3. [d EXCEPT ![n] = node] \in Documents
    BY <2>1, ReplacedType DEF node
  <2> QED BY <2>2, <2>3
<1> QED BY <1>1, <1>2

\* A call of Save begins.
LEMMA SavesType ==
  ASSUME write \in [Writers -> Calls], NEW w \in Writers, NEW d \in Documents, Saves(w, d)
  PROVE  write' \in [Writers -> Calls]
<1>1. [NoWrite EXCEPT !.pc = "find", !.content = d] \in Calls
  BY BlankType DEF Calls, NoWrite
<1> QED BY <1>1 DEF Saves

LEMMA RepairedType ==
  ASSUME doc \in Documents, NEW n \in Nodes, doc[n] # None, NEW r \in Runs
  PROVE  Repaired(n, r) \in Documents
<1>1. doc[n] \in Node
  BY NodeType
<1>2. /\ [doc[n] EXCEPT !.art = r, !.status = "success"] \in Node
      /\ [doc[n] EXCEPT !.status = "failed"] \in Node
  BY <1>1 DEF Node, Pictures
<1>3. /\ [doc EXCEPT ![n].art = r, ![n].status = "success"]
           = [doc EXCEPT ![n] = [doc[n] EXCEPT !.art = r, !.status = "success"]]
      /\ [doc EXCEPT ![n].status = "failed"]
           = [doc EXCEPT ![n] = [doc[n] EXCEPT !.status = "failed"]]
  BY DEF Documents
<1> QED BY <1>2, <1>3, ReplacedType DEF Repaired

-----------------------------------------------------------------------------
(* Type correctness *)

LEMMA TypeInit == ASSUME Instance, Init PROVE Typed0
<1>1. {Fresh("none"), Fresh("own")} \subseteq Node
  BY DEF Instance, Fresh, Node, Pictures
<1>2. doc \in Documents /\ tab \in Documents
  BY <1>1 DEF Init, Documents
<1>3. run \in [Runs -> States]
  BY BlankType DEF Init, States, Places, NoOutput, Output
<1>4. write \in [Writers -> Calls]
  BY BlankType DEF Init
<1> QED BY <1>2, <1>3, <1>4 DEF Init, Instance, Typed0, TypeOK, OutputsKnown, States, Calls

LEMMA FindType == ASSUME Typed0, NEW w \in Writers, Find(w) PROVE Typed0'
<1>1. write' \in [Writers -> Calls]
  BY DEF Typed0, TypeOK, Find, Calls
<1> QED BY <1>1 DEF Typed0, TypeOK, OutputsKnown, Find, Calls

LEMMA UpdateType == ASSUME Typed0, NEW w \in Writers, Update(w) PROVE Typed0'
<1>1. write[w] \in Calls
  BY DEF Typed0, TypeOK, Calls
<1>2. Kept(w) \in Documents
  BY <1>1, StickyMergeType DEF Calls, Kept
<1>3. doc' \in Documents /\ version' \in Nat
  BY <1>2 DEF Update, Typed0, TypeOK
<1>4. ASSUME write[w].tries + 1 < Attempts
      PROVE  [write[w] EXCEPT !.tries = @ + 1, !.pc = "find", !.content = Kept(w)] \in Calls
  <2>1. write[w].tries \in 0..3 /\ write[w].tries + 1 \in 0..3
    BY <1>1, <1>4 DEF Calls, Attempts
  <2> QED BY <1>1, <1>2, <2>1 DEF Calls, Attempts
<1>5. write \in [Writers -> Calls]
  BY DEF Typed0, TypeOK, Calls
<1>6. write' \in [Writers -> Calls]
  <2>1. CASE write' = [write EXCEPT ![w] = NoWrite]
    BY <1>5, <2>1, BlankType
  <2>2. CASE /\ write[w].tries + 1 < Attempts
             /\ write' = [write EXCEPT ![w].tries = @ + 1, ![w].pc = "find",
                                       ![w].content = Kept(w)]
    <3>1. write' = [write EXCEPT ![w] =
                     [write[w] EXCEPT !.tries = @ + 1, !.pc = "find", !.content = Kept(w)]]
      BY <2>2, <1>5
    <3> QED BY <1>4, <1>5, <2>2, <3>1
  <2> QED BY <2>1, <2>2 DEF Update
<1> QED BY <1>3, <1>6 DEF Typed0, TypeOK, OutputsKnown, Update, Calls

LEMMA PageType == ASSUME Instance, Typed0, Page PROVE Typed0'
<1> USE DEF Instance, Typed0, TypeOK
<1>1. ASSUME NEW d \in Documents, Shows(d), edits' \in 0..MaxEdits, UNCHANGED saves
      PROVE  Typed0'
  BY <1>1 DEF Shows, serverVars, OutputsKnown
<1>2. ASSUME NEW n \in Nodes, Typed(n)
      PROVE  Typed0'
  <2>1. PICK status \in {tab[n].status, "running"} :
          Shows([tab EXCEPT ![n].prompt = edits + 1, ![n].status = status])
    BY <1>2 DEF Typed
  <2>2. tab[n] \in Node /\ edits + 1 \in 0..MaxEdits
    BY <1>2, NodeType DEF Typed
  <2>3. [tab[n] EXCEPT !.prompt = edits + 1, !.status = status] \in Node
    BY <2>2 DEF Node
  <2>4. [tab EXCEPT ![n].prompt = edits + 1, ![n].status = status]
          = [tab EXCEPT ![n] = [tab[n] EXCEPT !.prompt = edits + 1, !.status = status]]
    BY DEF Documents
  <2>5. [tab EXCEPT ![n].prompt = edits + 1, ![n].status = status] \in Documents
    BY <2>3, <2>4, ReplacedType
  <2> QED BY <1>1, <1>2, <2>1, <2>2, <2>5 DEF Typed
<1>3. ASSUME NEW n \in Nodes, Removed(n)
      PROVE  Typed0'
  <2>1. [tab EXCEPT ![n] = None] \in Documents
    BY ReplacedType
  <2> QED BY <1>1, <1>3, <2>1 DEF Removed
<1>4. ASSUME NEW n \in Nodes, NEW art \in Pictures, Picked(n, art)
      PROVE  Typed0'
  <2>1. PICK thumb \in {art, "none"} :
          Shows([tab EXCEPT ![n].art = art, ![n].thumb = thumb, ![n].status = "success"])
    BY <1>4 DEF Picked
  <2>2. tab[n] \in Node
    BY <1>4, NodeType DEF Picked
  <2>3. [tab[n] EXCEPT !.art = art, !.thumb = thumb, !.status = "success"] \in Node
    BY <2>2 DEF Node
  <2>4. [tab EXCEPT ![n].art = art, ![n].thumb = thumb, ![n].status = "success"]
          = [tab EXCEPT ![n] =
              [tab[n] EXCEPT !.art = art, !.thumb = thumb, !.status = "success"]]
    BY DEF Documents
  <2>5. [tab EXCEPT ![n].art = art, ![n].thumb = thumb, ![n].status = "success"]
          \in Documents
    BY <2>3, <2>4, ReplacedType
  <2> QED BY <1>1, <1>4, <2>1, <2>5 DEF Picked
<1>5. CASE Reload
  BY <1>1, <1>5 DEF Reload
<1>6. CASE Save
  <2>1. write' \in [Writers -> Calls]
    BY <1>6, SavesType DEF Save, Writers, Calls
  <2> QED BY <1>6, <2>1 DEF Save, OutputsKnown, Calls
<1> QED BY <1>2, <1>3, <1>4, <1>5, <1>6 DEF Page

\* An execution moves on, and everything else is typed.
LEMMA GoesType ==
  ASSUME Typed0, NEW r \in Runs, NEW pc \in Places \ {"outputs"}, Goes(r, pc)
  PROVE  /\ run' \in [Runs -> States]
         /\ \A q \in Runs : run'[q].pc = "outputs" => run[q].pc = "outputs"
BY DEF Typed0, TypeOK, Goes, States

LEMMA ExecutionType == ASSUME Instance, Typed0, NEW r \in Runs, Execution(r) PROVE Typed0'
<1> USE DEF Typed0, TypeOK
<1>n. NodeOf[r] \in Nodes /\ r \in Writers /\ run[r] \in States
  BY DEF Instance, Writers, States
<1>1. CASE buildPlan(r)
  BY <1>1 DEF buildPlan, OutputsKnown, Places
<1>2. CASE Execute(r)
  <2>1. PICK out \in Output :
          run' = [run EXCEPT ![r].pc = "hook", ![r].out = out]
    BY <1>2 DEF Execute, Output, NoOutput, Pictures
  <2>2. [run[r] EXCEPT !.pc = "hook", !.out = out] \in States
    BY <1>n DEF States, Places
  <2>3. run' = [run EXCEPT ![r] = [run[r] EXCEPT !.pc = "hook", !.out = out]]
    BY <2>1
  <2>4. run' \in [Runs -> States]
    BY <2>2, <2>3 DEF States
  <2>5. OutputsKnown'
    BY <1>2, <2>1 DEF Execute, OutputsKnown
  <2> QED BY <1>2, <2>4, <2>5 DEF Execute, States
<1>3. CASE persistNodeOutput(r)
  <2>1. Merged(doc, NodeOf[r], run[r].out) \in Documents
    BY <1>n, MergedType DEF States
  <2>2. write' \in [Writers -> Calls] /\ lock' \in Runs \cup {None}
    BY <1>3, <1>n, <2>1, SavesType DEF persistNodeOutput, Calls
  <2>3. run' \in [Runs -> States] /\ OutputsKnown'
    BY <1>3, GoesType DEF persistNodeOutput, Places, OutputsKnown
  <2> QED BY <1>3, <2>2, <2>3 DEF persistNodeOutput, States, Calls
<1>4. ASSUME NEW from \in {"hooking", "finalizing"}, NEW to \in {"emit", "over"},
             Unlocked(r, from, to)
      PROVE  Typed0'
  <2>1. [run[r] EXCEPT !.pc = to, !.plan = IF to = "over" THEN Blank ELSE @] \in States
    BY <1>n, BlankType DEF States, Places
  <2>2. run' \in [Runs -> States] /\ OutputsKnown'
    BY <1>4, <2>1 DEF Unlocked, OutputsKnown, States
  <2> QED BY <1>4, <2>2 DEF Unlocked, States
<1>5. CASE Emit(r)
  <2>1. Merged(tab, NodeOf[r], run[r].out) \in Documents
    BY <1>n, MergedType DEF States
  <2>2. run' \in [Runs -> States] /\ OutputsKnown'
    BY <1>5, GoesType DEF Emit, Places, OutputsKnown
  <2> QED BY <1>5, <2>1, <2>2 DEF Emit, States
<1>6. CASE saveOutputs(r)
  <2>1. run' \in [Runs -> States]
    BY <1>6 DEF saveOutputs, Goes, States, Places
  <2> QED BY <1>6, <2>1 DEF saveOutputs, OutputsKnown, States
<1>7. CASE LastOutputs(r)
  <2>1. last \in Runs
    BY <1>7 DEF LastOutputs, OutputsKnown
  <2>2. Merged(run[r].plan, NodeOf[last], run[last].out) \in Documents
    BY <1>n, <2>1, MergedType DEF States, Instance
  <2>3. run' \in [Runs -> States] /\ OutputsKnown'
    BY <1>7, <2>2 DEF LastOutputs, OutputsKnown, States, Places
  <2> QED BY <1>7, <2>3 DEF LastOutputs, States
<1>8. CASE persistNodeOutputs(r)
  <2>1. write' \in [Writers -> Calls]
    BY <1>8, <1>n, SavesType DEF persistNodeOutputs, Calls, States
  <2>2. run' \in [Runs -> States] /\ OutputsKnown'
    BY <1>8, GoesType DEF persistNodeOutputs, Places, OutputsKnown
  <2> QED BY <1>8, <2>1, <2>2 DEF persistNodeOutputs, States, Calls
<1> QED BY <1>1, <1>2, <1>3, <1>4, <1>5, <1>6, <1>7, <1>8
        DEF Execution, Hooked, Finalized

LEMMA DogType ==
  ASSUME Instance, Typed0, NEW r \in Runs, reconcileCanvasNodes(r) PROVE Typed0'
<1> USE DEF Typed0, TypeOK
<1>1. Repaired(NodeOf[r], r) \in Documents
  BY RepairedType DEF reconcileCanvasNodes, Instance
<1>2. write' \in [Writers -> Calls]
  BY <1>1, SavesType DEF reconcileCanvasNodes, Calls, Writers
<1> QED BY <1>2 DEF reconcileCanvasNodes, OutputsKnown, Calls

LEMMA CrashType == ASSUME Instance, Typed0, Crash PROVE Typed0'
<1> USE DEF Typed0, TypeOK
<1>1. write' \in [Writers -> Calls]
  BY BlankType DEF Crash
<1>2. \A r \in Runs : [run[r] EXCEPT !.pc = "over", !.plan = Blank] \in States
  BY BlankType DEF States, Places
<1>3. run' \in [Runs -> States] /\ OutputsKnown'
  BY <1>2 DEF Crash, Active, OutputsKnown, States
<1>4. crashes' \in 0..MaxCrashes
  <2>1. /\ crashes \in 0..MaxCrashes /\ crashes < MaxCrashes /\ crashes' = crashes + 1
        /\ MaxCrashes \in Nat
    BY DEF Crash, Instance
  <2> HIDE DEF Typed0, TypeOK
  <2> QED BY <2>1
<1> QED BY <1>1, <1>3, <1>4 DEF Crash, Calls, States

LEMMA TypeStep == ASSUME Instance, Typed0, [Next]_persistVars PROVE Typed0'
<1>1. CASE UNCHANGED persistVars
  BY <1>1 DEF persistVars, serverVars, Typed0, TypeOK, OutputsKnown
<1> QED BY <1>1, PageType, ExecutionType, DogType, FindType, UpdateType, CrashType DEF Next

LEMMA TypeCorrect == ASSUME Instance PROVE Spec => []Typed0
BY TypeInit, TypeStep, PTL DEF Spec

-----------------------------------------------------------------------------
(* What was produced stays *)

\* A save that is about to update a version it has read holds the document of
\* that version.
Current ==
  \A w \in Writers : write[w].pc = "update" =>
    write[w].at <= version /\ (write[w].at = version => write[w].seen = doc)

Inv == Typed0 /\ Current

\* Only the update of Save changes the document, and only Find prepares one.
Prepares(w) == write'[w] = write[w] \/ write'[w].pc # "update"
LEMMA SavesPrepares ==
  ASSUME Typed0, NEW w \in Writers, NEW d, Saves(w, d)
  PROVE  \A v \in Writers : Prepares(v)
BY DEF Typed0, TypeOK, Saves, NoWrite, Prepares

LEMMA Elsewhere ==
  ASSUME Typed0,
         \/ Page \/ Crash \/ UNCHANGED persistVars
         \/ \E r \in Runs : Execution(r) \/ reconcileCanvasNodes(r)
  PROVE  UNCHANGED <<doc, version>> /\ \A w \in Writers : Prepares(w)
<1>1. CASE Page
  <2>1. CASE Save
    BY <2>1, SavesPrepares DEF Save, Writers
  <2> QED BY <1>1, <2>1
          DEF Page, Typed, Removed, Picked, Reload, Shows, serverVars, Prepares
<1>2. CASE Crash
  BY <1>2 DEF Crash, NoWrite, Prepares
<1>3. CASE UNCHANGED persistVars
  BY <1>3 DEF persistVars, serverVars, Prepares
<1>4. ASSUME NEW r \in Runs, Execution(r)
      PROVE  UNCHANGED <<doc, version>> /\ \A w \in Writers : Prepares(w)
  <2>1. CASE persistNodeOutput(r)
    BY <2>1, SavesPrepares DEF persistNodeOutput, Writers, Prepares
  <2>2. CASE persistNodeOutputs(r)
    BY <2>2, SavesPrepares DEF persistNodeOutputs, Writers
  <2>3. CASE buildPlan(r) \/ Execute(r) \/ Hooked(r) \/ Emit(r) \/ saveOutputs(r)
               \/ LastOutputs(r) \/ Finalized(r)
    BY <2>3 DEF buildPlan, Execute, Hooked, Emit, saveOutputs, LastOutputs, Finalized,
                Unlocked, Prepares
  <2> QED BY <1>4, <2>1, <2>2, <2>3 DEF Execution
<1>5. ASSUME NEW r \in Runs, reconcileCanvasNodes(r)
      PROVE  UNCHANGED <<doc, version>> /\ \A w \in Writers : Prepares(w)
  BY <1>5, SavesPrepares DEF reconcileCanvasNodes, Writers
<1> QED BY <1>1, <1>2, <1>3, <1>4, <1>5

LEMMA CurrentStep == ASSUME Inv, [Next]_persistVars PROVE Current'
<1> USE DEF Inv
<1>1. ASSUME UNCHANGED <<doc, version>>, \A w \in Writers : Prepares(w)
      PROVE  Current'
  BY <1>1 DEF Current, Prepares
<1>2. ASSUME NEW w \in Writers, Find(w)
      PROVE  Current'
  <2>1. version \in Nat /\ UNCHANGED <<doc, version>>
    BY <1>2 DEF Find, Typed0, TypeOK
  <2>2. /\ write'[w].pc = "update" /\ write'[w].seen = doc /\ write'[w].at = version
        /\ \A v \in Writers \ {w} : write'[v] = write[v]
    BY <1>2 DEF Find, Typed0, TypeOK
  <2> QED BY <2>1, <2>2 DEF Current
<1>3. ASSUME NEW w \in Writers, Update(w)
      PROVE  Current'
  <2>1. CASE UNCHANGED <<doc, version>>
    <3>1. \A v \in Writers : Prepares(v)
      BY <1>3, <2>1 DEF Update, Prepares, NoWrite, Typed0, TypeOK
    <3> QED BY <1>1, <2>1, <3>1
  <2>2. CASE version' = version + 1 /\ write' = [write EXCEPT ![w] = NoWrite]
    <3>1. \A v \in Writers : write[v].at \in Nat /\ version \in Nat
      BY DEF Typed0, TypeOK
    <3>2. \A v \in Writers : write'[v] = write[v] \/ write'[v].pc = "no"
      BY <2>2 DEF Typed0, TypeOK, NoWrite
    <3>3. \A v \in Writers : write'[v].pc = "update" => write[v].at <= version
      BY <3>2 DEF Current
    <3> QED BY <2>2, <3>1, <3>2, <3>3 DEF Current
  <2> QED BY <1>3, <2>1, <2>2 DEF Update
<1> QED BY <1>1, <1>2, <1>3, Elsewhere DEF Next

LEMMA StayStep == ASSUME Inv, [Next]_persistVars PROVE ProductsStay
<1> USE DEF Inv
<1>1. CASE doc' = doc
  BY <1>1 DEF ProductsStay, ProductStays
<1>2. ASSUME NEW w \in Writers, write[w].pc = "update", Unmoved(w),
             doc' = Kept(w)
      PROVE  ProductsStay
  <2>1. write[w].seen = doc /\ write[w].content \in Documents /\ doc \in Documents
    BY <1>2 DEF Current, Unmoved, Typed0, TypeOK
  <2>2. SUFFICES ASSUME NEW n \in Nodes, doc[n] # None, doc'[n] # None, doc[n].art # "none"
                 PROVE  doc'[n].art # "none"
    BY DEF ProductsStay, ProductStays
  <2>3. /\ write[w].content[n] # None
        /\ doc'[n] = Sticky(doc[n], write[w].content[n])
    BY <1>2, <2>1, <2>2 DEF mergeStickyProducts, Kept
  <2> QED BY <2>1, <2>2, <2>3, NodeType, StickyType
<1>3. ASSUME NEW w \in Writers, Find(w) \/ Update(w)
      PROVE  ProductsStay
  BY <1>1, <1>2, <1>3 DEF Find, Update
<1> QED BY <1>1, <1>3, Elsewhere DEF Next

\* canvas_repo.go:41-45: whichever writers interleave, die or lose their race,
\* the picture or video that was stored for a node stays while the node does.
THEOREM ProductsAreKept == ASSUME Instance PROVE Spec => [][ProductsStay]_persistVars
<1>1. Init => Current
  BY DEF Init, Current, NoWrite
<1>2. Inv /\ [Next]_persistVars => Inv'
  BY TypeStep, CurrentStep DEF Inv
<1>3. Inv /\ [Next]_persistVars => [ProductsStay]_persistVars
  BY StayStep
<1> QED BY <1>1, <1>2, <1>3, TypeInit, PTL DEF Spec, Inv

-----------------------------------------------------------------------------
(* A thumbnail is of its picture *)

\* Everything that may be saved shows thumbnails of its own pictures, and an
\* output comes with the thumbnail of its picture.
ThumbsFitEverywhere ==
  /\ Fits(doc) /\ Fits(tab)
  /\ \A r \in Runs : Fits(run[r].plan) /\ run[r].out.thumb = run[r].out.art
  /\ \A w \in Writers : Fits(write[w].content) /\ Fits(write[w].seen)

LEMMA BlankFits == Fits(Blank) /\ Fits(NoWrite.content) /\ Fits(NoWrite.seen)
BY DEF Fits, Blank, NoWrite

LEMMA ReplacedFits ==
  ASSUME NEW d \in Documents, Fits(d), NEW n \in Nodes, NEW x \in Node,
         x.thumb \in {"none", x.art}
  PROVE  Fits([d EXCEPT ![n] = x])
BY DEF Fits, Documents

LEMMA RemovedFits ==
  ASSUME NEW d \in Documents, Fits(d), NEW n \in Nodes
  PROVE  Fits([d EXCEPT ![n] = None])
BY DEF Fits, Documents

LEMMA StickyFits ==
  ASSUME NEW old \in Node, NEW new \in Node,
         old.thumb \in {"none", old.art}, new.thumb \in {"none", new.art}
  PROVE  Sticky(old, new).thumb \in {"none", Sticky(old, new).art}
BY DEF Sticky, ArtChanged, Node

LEMMA StickyMergeFits ==
  ASSUME NEW old \in Documents, NEW new \in Documents, Fits(old), Fits(new)
  PROVE  Fits(mergeStickyProducts(old, new))
<1>1. ASSUME NEW n \in Nodes, old[n] # None, new[n] # None
      PROVE  Sticky(old[n], new[n]).thumb \in {"none", Sticky(old[n], new[n]).art}
  BY <1>1, NodeType, StickyFits DEF Fits
<1> QED BY <1>1 DEF mergeStickyProducts, Fits

LEMMA MergedFits ==
  ASSUME NEW d \in Documents, Fits(d), NEW n \in Nodes, NEW out \in Output,
         out.thumb = out.art
  PROVE  Fits(Merged(d, n, out))
<1>1. CASE d[n] = None
  BY <1>1 DEF Merged
<1>2. CASE d[n] # None
  <2>1. d[n] \in Node /\ d[n].thumb \in {"none", d[n].art}
    BY <1>2, NodeType DEF Fits
  <2> DEFINE x == mergeNodeOutputData(d[n], out)
  <2>2. x \in Node
    BY <2>1, OutputMergeType
  <2>3. x.thumb \in {"none", x.art}
    BY <2>1 DEF mergeNodeOutputData, Node
  <2>4. Merged(d, n, out) = [d EXCEPT ![n] = x]
    BY <1>2 DEF Merged
  <2> HIDE DEF x
  <2> QED BY <2>2, <2>3, <2>4, ReplacedFits
<1> QED BY <1>1, <1>2

LEMMA SavesFits ==
  ASSUME Typed0, ThumbsFitEverywhere, NEW w \in Writers, NEW d \in Documents, Fits(d),
         Saves(w, d)
  PROVE  \A v \in Writers : Fits(write'[v].content) /\ Fits(write'[v].seen)
<1>1. /\ write'[w].content = d /\ write'[w].seen = Blank
      /\ \A v \in Writers \ {w} : write'[v] = write[v]
  BY DEF Saves, NoWrite, Typed0, TypeOK
<1> QED BY <1>1, BlankFits DEF ThumbsFitEverywhere

\* Every picture gets its thumbnail, and the watchdog repairs no node that shows
\* the thumbnail of an older one.
Thumbnails == Habits \cap {"thumbless", "repair"} = {}

LEMMA FitInit == Init => ThumbsFitEverywhere
<1> SUFFICES ASSUME Init PROVE ThumbsFitEverywhere
  OBVIOUS
<1>1. Fits(doc) /\ Fits(tab)
  BY DEF Init, Fits, Fresh
<1> QED BY <1>1, BlankFits DEF Init, ThumbsFitEverywhere, NoOutput

LEMMA FitPage == ASSUME Typed0, ThumbsFitEverywhere, Page PROVE ThumbsFitEverywhere'
<1> USE DEF Typed0, TypeOK
<1>1. ASSUME NEW d, Fits(d), Shows(d)
      PROVE  ThumbsFitEverywhere'
  BY <1>1 DEF Shows, serverVars, ThumbsFitEverywhere, Fits
<1>2. Fits(doc) /\ Fits(tab)
  BY DEF ThumbsFitEverywhere
<1>3. ASSUME NEW n \in Nodes, Typed(n)
      PROVE  ThumbsFitEverywhere'
  <2>1. PICK status \in {tab[n].status, "running"} :
          Shows([tab EXCEPT ![n].prompt = edits + 1, ![n].status = status])
    BY <1>3 DEF Typed
  <2>2. tab[n] \in Node /\ tab[n].thumb \in {"none", tab[n].art}
    BY <1>2, <1>3, NodeType DEF Typed, Fits
  <2>3. \A m \in Nodes : LET d == [tab EXCEPT ![n].prompt = edits + 1, ![n].status = status]
                         IN \/ m # n /\ d[m] = tab[m]
                            \/ m = n /\ d[m].thumb = tab[m].thumb /\ d[m].art = tab[m].art
    BY <2>2 DEF Documents, Node
  <2>4. Fits([tab EXCEPT ![n].prompt = edits + 1, ![n].status = status])
    BY <1>2, <2>2, <2>3 DEF Fits
  <2> QED BY <1>1, <2>1, <2>4
<1>4. ASSUME NEW n \in Nodes, Removed(n)
      PROVE  ThumbsFitEverywhere'
  BY <1>1, <1>2, <1>4, RemovedFits DEF Removed
<1>5. ASSUME NEW n \in Nodes, NEW art \in Pictures, Picked(n, art)
      PROVE  ThumbsFitEverywhere'
  <2>1. PICK thumb \in {art, "none"} :
          Shows([tab EXCEPT ![n].art = art, ![n].thumb = thumb, ![n].status = "success"])
    BY <1>5 DEF Picked
  <2>2. tab[n] \in Node
    BY <1>5, NodeType DEF Picked
  <2>3. \A m \in Nodes :
          LET d == [tab EXCEPT ![n].art = art, ![n].thumb = thumb, ![n].status = "success"]
          IN \/ m # n /\ d[m] = tab[m]
             \/ m = n /\ d[m].thumb = thumb /\ d[m].art = art
    BY <2>2 DEF Documents, Node
  <2>4. Fits([tab EXCEPT ![n].art = art, ![n].thumb = thumb, ![n].status = "success"])
    BY <1>2, <2>3 DEF Fits
  <2> QED BY <1>1, <2>1, <2>4
<1>6. CASE Reload
  BY <1>1, <1>2, <1>6 DEF Reload
<1>7. CASE Save
  BY <1>2, <1>7, SavesFits DEF Save, Writers, ThumbsFitEverywhere
<1> QED BY <1>3, <1>4, <1>5, <1>6, <1>7 DEF Page

LEMMA FitExecution ==
  ASSUME Instance, Thumbnails, Typed0, ThumbsFitEverywhere, NEW r \in Runs, Execution(r)
  PROVE  ThumbsFitEverywhere'
<1> USE DEF Typed0, TypeOK
<1>n. /\ NodeOf[r] \in Nodes /\ r \in Writers /\ run[r] \in States
      /\ run[r].out \in Output /\ run[r].plan \in Documents
  BY DEF Instance, Writers, States
<1>f. Fits(doc) /\ Fits(tab) /\ Fits(run[r].plan) /\ run[r].out.thumb = run[r].out.art
  BY DEF ThumbsFitEverywhere
<1>1. CASE buildPlan(r)
  <2>1. \A q \in Runs : Fits(run'[q].plan) /\ run'[q].out = run[q].out
    BY <1>1, <1>f DEF buildPlan, ThumbsFitEverywhere
  <2> QED BY <1>1, <2>1 DEF buildPlan, ThumbsFitEverywhere
<1>2. CASE Execute(r)
  <2>1. PICK out \in {NoOutput} \cup [ok : {TRUE}, art : {r}, thumb : {r}] :
          run' = [run EXCEPT ![r].pc = "hook", ![r].out = out]
    BY <1>2 DEF Execute, Thumbnails
  <2>2. out.thumb = out.art
    <3>1. CASE out = NoOutput
      BY <3>1 DEF NoOutput
    <3>2. CASE out \in [ok : {TRUE}, art : {r}, thumb : {r}]
      BY <3>2
    <3> QED BY <3>1, <3>2
  <2>3. \A q \in Runs : run'[q].plan = run[q].plan /\ run'[q].out.thumb = run'[q].out.art
    BY <2>1, <2>2 DEF ThumbsFitEverywhere
  <2> QED BY <1>2, <2>3 DEF Execute, ThumbsFitEverywhere
<1>3. ASSUME NEW pc, Goes(r, pc)
      PROVE  \A q \in Runs : run'[q].plan = run[q].plan /\ run'[q].out = run[q].out
  BY <1>3 DEF Goes
<1>4. CASE persistNodeOutput(r)
  <2>1. /\ Merged(doc, NodeOf[r], run[r].out) \in Documents
        /\ Fits(Merged(doc, NodeOf[r], run[r].out))
    BY <1>n, <1>f, MergedType, MergedFits
  <2>2. \A v \in Writers : Fits(write'[v].content) /\ Fits(write'[v].seen)
    BY <1>4, <1>n, <2>1, SavesFits DEF persistNodeOutput, ThumbsFitEverywhere
  <2>3. \A q \in Runs : run'[q].plan = run[q].plan /\ run'[q].out = run[q].out
    BY <1>3, <1>4 DEF persistNodeOutput
  <2> QED BY <1>4, <2>2, <2>3 DEF persistNodeOutput, ThumbsFitEverywhere
<1>5. ASSUME NEW from, NEW to, Unlocked(r, from, to)
      PROVE  ThumbsFitEverywhere'
  <2>1. \A q \in Runs : /\ run'[q].plan \in {run[q].plan, Blank}
                        /\ run'[q].out = run[q].out
    BY <1>5 DEF Unlocked
  <2> QED BY <1>5, <2>1, BlankFits DEF Unlocked, ThumbsFitEverywhere
<1>6. CASE Emit(r)
  <2>1. Fits(Merged(tab, NodeOf[r], run[r].out))
    BY <1>n, <1>f, MergedFits
  <2>2. \A q \in Runs : run'[q].plan = run[q].plan /\ run'[q].out = run[q].out
    BY <1>3, <1>6 DEF Emit
  <2> QED BY <1>6, <2>1, <2>2 DEF Emit, ThumbsFitEverywhere
<1>7. CASE saveOutputs(r)
  BY <1>3, <1>7 DEF saveOutputs, ThumbsFitEverywhere
<1>8. CASE LastOutputs(r)
  <2>1. /\ last \in Runs /\ NodeOf[last] \in Nodes /\ run[last].out \in Output
        /\ run[last].out.thumb = run[last].out.art
    BY <1>8 DEF LastOutputs, OutputsKnown, Instance, ThumbsFitEverywhere
  <2> DEFINE d == Merged(run[r].plan, NodeOf[last], run[last].out)
  <2>2. Fits(d)
    BY <1>n, <1>f, <2>1, MergedFits
  <2>3. run' = [run EXCEPT ![r].pc = "final", ![r].plan = d]
    BY <1>8 DEF LastOutputs
  <2> HIDE DEF d
  <2>4. \A q \in Runs : run'[q].plan \in {run[q].plan, d} /\ run'[q].out = run[q].out
    BY <2>3
  <2> QED BY <1>8, <2>2, <2>4 DEF LastOutputs, ThumbsFitEverywhere
<1>9. CASE persistNodeOutputs(r)
  <2>1. \A v \in Writers : Fits(write'[v].content) /\ Fits(write'[v].seen)
    BY <1>9, <1>n, <1>f, SavesFits DEF persistNodeOutputs
  <2>2. \A q \in Runs : run'[q].plan = run[q].plan /\ run'[q].out = run[q].out
    BY <1>3, <1>9 DEF persistNodeOutputs
  <2> QED BY <1>9, <2>1, <2>2 DEF persistNodeOutputs, ThumbsFitEverywhere
<1> QED BY <1>1, <1>2, <1>4, <1>5, <1>6, <1>7, <1>8, <1>9
        DEF Execution, Hooked, Finalized

LEMMA FitDog ==
  ASSUME Instance, Thumbnails, Typed0, ThumbsFitEverywhere, NEW r \in Runs,
         reconcileCanvasNodes(r)
  PROVE  ThumbsFitEverywhere'
<1> USE DEF Typed0, TypeOK
<1> DEFINE n == NodeOf[r]
<1>1. /\ n \in Nodes /\ doc[n] # None /\ doc[n] \in Node
      /\ doc[n].thumb \in {"none", doc[n].art}
  BY NodeType DEF Instance, reconcileCanvasNodes, ThumbsFitEverywhere, Fits
<1>2. run[r].out.ok => doc[n].thumb \in {"none", r}
  BY DEF reconcileCanvasNodes, Thumbnails
<1>3. Fits(doc) /\ doc \in Documents
  BY DEF ThumbsFitEverywhere
<1> HIDE DEF n
<1>4. Fits(Repaired(n, r))
  <2>1. CASE run[r].out.ok
    <3>1. Repaired(n, r) = [doc EXCEPT ![n].art = r, ![n].status = "success"]
      BY <2>1 DEF Repaired
    <3> QED BY <1>1, <1>2, <1>3, <2>1, <3>1 DEF Fits, Documents, Node
  <2>2. CASE ~run[r].out.ok
    <3>1. Repaired(n, r) = [doc EXCEPT ![n].status = "failed"]
      BY <2>2 DEF Repaired
    <3> QED BY <1>1, <1>3, <3>1 DEF Fits, Documents, Node
  <2> QED BY <2>1, <2>2
<1>5. Repaired(n, r) \in Documents
  BY <1>1, RepairedType
<1>6. \A v \in Writers : Fits(write'[v].content) /\ Fits(write'[v].seen)
  BY <1>4, <1>5, SavesFits DEF reconcileCanvasNodes, Writers, n
<1> QED BY <1>6 DEF reconcileCanvasNodes, ThumbsFitEverywhere

LEMMA FitWriter ==
  ASSUME Typed0, ThumbsFitEverywhere, NEW w \in Writers, Find(w) \/ Update(w)
  PROVE  ThumbsFitEverywhere'
<1> USE DEF Typed0, TypeOK
<1>1. CASE Find(w)
  <2>1. \A v \in Writers : /\ write'[v].content = write[v].content
                           /\ write'[v].seen \in {write[v].seen, doc}
    BY <1>1 DEF Find
  <2> QED BY <1>1, <2>1 DEF Find, ThumbsFitEverywhere
<1>2. CASE Update(w)
  <2>1. Fits(Kept(w))
    BY StickyMergeFits DEF ThumbsFitEverywhere, Kept
  <2>2. Fits(doc')
    BY <1>2, <2>1 DEF Update, ThumbsFitEverywhere
  <2>3. \A v \in Writers : /\ \/ write'[v].content \in {write[v].content, NoWrite.content}
                              \/ v = w /\ write'[v].content = Kept(w)
                           /\ write'[v].seen \in {write[v].seen, NoWrite.seen}
    BY <1>2 DEF Update
  <2> QED BY <1>2, <2>1, <2>2, <2>3, BlankFits DEF Update, ThumbsFitEverywhere
<1> QED BY <1>1, <1>2

LEMMA FitStep ==
  ASSUME Instance, Thumbnails, Typed0, ThumbsFitEverywhere, [Next]_persistVars
  PROVE  ThumbsFitEverywhere'
<1>1. CASE Crash
  <2>1. \A r \in Runs : /\ run'[r].plan \in {run[r].plan, Blank}
                        /\ run'[r].out = run[r].out
    BY <1>1 DEF Crash, Typed0, TypeOK
  <2>2. \A w \in Writers : write'[w] = NoWrite
    BY <1>1 DEF Crash
  <2> QED BY <1>1, <2>1, <2>2, BlankFits DEF Crash, ThumbsFitEverywhere
<1>2. CASE UNCHANGED persistVars
  BY <1>2 DEF persistVars, serverVars, ThumbsFitEverywhere
<1> QED BY <1>1, <1>2, FitPage, FitExecution, FitDog, FitWriter DEF Next

\* canvas_repo.go:160-163: as long as every picture gets its thumbnail, no card
\* shows the thumbnail of another picture, whoever saves which copy when.
THEOREM ThumbsAreTheirs == ASSUME Instance, Thumbnails PROVE Spec => []ThumbsFit
<1>1. ThumbsFitEverywhere => ThumbsFit
  BY DEF ThumbsFitEverywhere, ThumbsFit
<1> QED BY <1>1, FitInit, FitStep, TypeInit, TypeStep, PTL DEF Spec
=============================================================================
