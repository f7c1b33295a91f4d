------------------------------- MODULE Workspace -------------------------------
(***************************************************************************)
(* The workspace page around the canvas: opening and leaving projects,     *)
(* loading and saving a canvas, starting executions of its nodes and       *)
(* following them by events, by polling and after a return to the page.    *)
(*                                                                         *)
(* From src/web/src: pages/workspace/WorkspacePage.tsx, hooks/             *)
(* useExecutionStream.ts, useNodeGeneration.ts, useResumeActiveExecution   *)
(* .ts, useCanvas.ts, stores/executionStore.ts, utils/executionTerminal    *)
(* .ts, runNodes.ts, and of the server the handlers these call.            *)
(*                                                                         *)
(* The stores outlive the page: answers that arrive after the user left    *)
(* are still applied, to the project the store holds by then.              *)
(***************************************************************************)
EXTENDS Integers, FiniteSets

CONSTANTS
  Projects,
  Nodes,         \* every node of every project
  HomeOf,        \* the project of a node
  SiblingOf,     \* the node a second image of a node gets, or None
  None,
  MaxRuns,       \* bound: executions
  MaxEntries,    \* bound: visits to the page
  MaxClicks,     \* bound: clicks on "generate" and "save"
  Left,          \* what an earlier tab left: "nothing", "card", "execution"
  Losses,        \* which requests can fail ("load", "save", "execute", "status",
                 \* "active"), and "stream": events and connections can get lost
  Again,         \* BOOLEAN: the user comes back to the project that was left last
  Hasty          \* BOOLEAN: the user acts while the page is opening a project

ASSUME WorkspaceAssumption ==
  /\ HomeOf \in [Nodes -> Projects] /\ SiblingOf \in [Nodes -> Nodes \cup {None}]
  /\ \A n \in Nodes : SiblingOf[n] # None => HomeOf[SiblingOf[n]] = HomeOf[n]
  /\ {None, "button", "final"} \cap Nodes = {} /\ None \notin Projects

VARIABLES
  board,      \* project -> the canvas the server holds, None once deleted
  execs,      \* the executions of the server
  project,    \* canvasStore.projectId
  mounted,    \* the page is shown
  loading,    \* isLoading
  cards,      \* canvasStore.nodes
  dirty,      \* isDirty
  loads,      \* getCanvas requests: what was read, None before that
  saves,      \* saveCanvas requests
  streams,    \* executionStore.activeStreams
  subs,       \* the mounted StreamSubscribers
  tails,      \* terminal handling that waits for answers
  generating, \* generatingNodeId
  current,    \* currentExecution
  submits,    \* calls of generate() past their first await
  resume,     \* useResumeActiveExecution of this visit
  refused,    \* nodes whose submission failed (observer)
  entries, clicks

client == <<project, mounted, loading, cards, dirty>>
runtime == <<streams, subs, tails, generating, current, submits, resume, refused>>
vars == <<board, execs, client, loads, saves, runtime, entries, clicks>>

Statuses == {"idle", "pending", "running", "success", "failed"}
Active == {"pending", "running"}
Card == [status : Statuses, out : 0..MaxRuns]
Canvas == UNION {[D -> Card] : D \in SUBSET Nodes}
Empty == [n \in {} |-> [status |-> "idle", out |-> 0]]
Originals(p) == {n \in Nodes : HomeOf[n] = p /\ \A m \in Nodes : SiblingOf[m] # n}
Fresh == [status |-> "idle", out |-> 0]

Execs == 1..Cardinality(DOMAIN execs)
Finished(e) == execs[e].status \in {"done", "failed"}
NoExec == [e |-> 0, status |-> "idle"]
Idle == [step |-> "off", found |-> {}]

\* A new tab.  An earlier one may have started an execution that still runs
\* or is over, and may have saved a card as running.
Init ==
  /\ \E left \in Left, n \in Nodes :
       /\ \A m \in Nodes : SiblingOf[m] # n
       /\ board = [p \in Projects |-> [m \in Originals(p) |->
                     IF m = n /\ left # "nothing" THEN [Fresh EXCEPT !.status = "running"] ELSE Fresh]]
       /\ execs = IF left = "execution" THEN <<[node |-> n, status |-> "running"]>> ELSE << >>
  /\ project = None /\ mounted = FALSE /\ loading = FALSE /\ cards = Empty /\ dirty = FALSE
  /\ loads = {} /\ saves = {}
  /\ streams = << >> /\ subs = << >> /\ tails = {}
  /\ generating = None /\ current = NoExec /\ submits = {} /\ resume = Idle /\ refused = {}
  /\ entries = 0 /\ clicks = 0

-----------------------------------------------------------------------------
(* Writes to the store.  Nothing is written while a canvas loads.            *)

Writable == project # None /\ ~loading
On(n) == n \in DOMAIN cards
WithCard(cs, n, status, out) == [cs EXCEPT ![n] = [status |-> status, out |-> out]]

\* updateNodeStatus / updateNodeData of one field.
SetStatus(cs, ns, status) ==
  IF ~Writable THEN cs
  ELSE [n \in DOMAIN cs |-> IF n \in ns THEN [cs[n] EXCEPT !.status = status] ELSE cs[n]]

\* A result is written with its siblings: a second image gets a node of its
\* own, or updates the one it got before.
WithSibling(cs, n, out) ==
  IF SiblingOf[n] = None THEN cs
  ELSE [m \in DOMAIN cs \cup {SiblingOf[n]} |->
          IF m = SiblingOf[n] THEN [status |-> "success", out |-> out] ELSE cs[m]]
\* Mutant: a result is written whether or not the canvas has its node.
SetResultAnywhere(cs, n, out) ==
  IF ~Writable THEN cs
  ELSE LET there == [m \in DOMAIN cs \cup {n} |-> IF m \in DOMAIN cs THEN cs[m] ELSE Fresh]
       IN  WithSibling(WithCard(there, n, "success", out), n, out)
SetResult(cs, n, out) ==
  IF ~Writable \/ n \notin DOMAIN cs THEN cs
  ELSE WithSibling(WithCard(cs, n, "success", out), n, out)

\* Every write of node data, of one that is there or not, leaves the dirty mark.
Touched == dirty \/ Writable

\* Mutant: whatever is pending on the canvas counts as a node of the execution.
PendingOnCanvas(cs, ns) == {n \in DOMAIN cs : cs[n].status \in Active}
PendingOf(cs, ns) == {n \in ns \cap DOMAIN cs : cs[n].status \in Active}

-----------------------------------------------------------------------------
(* Opening, loading, saving, leaving.                                        *)

\* A user who waits for what was clicked last.
Settled == Hasty \/ (loads = {} /\ resume.step = "off" /\ submits = {} /\ \A r \in saves : r.by = "final")

Subscriber(e) == [mode |-> "sse", seen |-> streams[e]]

\* setProjectId during the first render, then the effects: one load, one
\* subscriber per stream that is still listed - of whatever project - and
\* the question what is still running.
Enter(p) ==
  /\ ~mounted /\ board[p] # None /\ entries < MaxEntries /\ (Again \/ project # p)
  /\ mounted' = TRUE /\ entries' = entries + 1
  /\ IF project = p THEN UNCHANGED <<project, loading, cards, dirty>>
     ELSE project' = p /\ loading' = TRUE /\ cards' = Empty /\ dirty' = FALSE
  /\ loads' = loads \cup {[visit |-> entries + 1, of |-> p, data |-> None]}
  /\ subs' = [e \in DOMAIN streams |-> Subscriber(e)]
  /\ resume' = [step |-> "ask", found |-> {}]
  /\ UNCHANGED <<board, execs, saves, streams, tails, generating, current, submits, refused, clicks>>

\* loadCanvasFromServer: nobody asks whether the project is still the same.
ReadCanvas(r) ==
  /\ r.data = None /\ board[r.of] # None
  /\ loads' = (loads \ {r}) \cup {[r EXCEPT !.data = board[r.of]]}
  /\ UNCHANGED <<board, execs, client, saves, runtime, entries, clicks>>
LoadCanvas(r) ==
  /\ r.data # None
  /\ cards' = r.data /\ loading' = FALSE /\ dirty' = FALSE
  /\ loads' = loads \ {r}
  /\ UNCHANGED <<board, execs, project, mounted, saves, runtime, entries, clicks>>
LoadFails(r) ==
  /\ "load" \in Losses \/ board[r.of] = None
  /\ loads' = loads \ {r}
  /\ UNCHANGED <<board, execs, client, saves, runtime, entries, clicks>>

\* A saveCanvas request; "by" says who waits for it.
Request(to, data, by) == [to |-> to, data |-> data, by |-> by]

\* handleSave: the button and Ctrl+S.
HandleSave ==
  /\ mounted /\ dirty /\ Settled /\ clicks < MaxClicks /\ clicks' = clicks + 1
  /\ saves' = saves \cup {Request(project, cards, "button")}
  /\ UNCHANGED <<board, execs, client, loads, runtime, entries>>

\* The answer to generate(): the node runs, then the execution is asked for.
AfterSave(r) ==
  CASE r.by = "button" -> dirty' = FALSE /\ UNCHANGED <<cards, submits>>
    [] r.by = "final"  -> UNCHANGED <<dirty, cards, submits>>
    [] OTHER -> /\ cards' = SetStatus(cards, {r.by}, "running") /\ dirty' = Touched
                /\ submits' = (submits \ {[node |-> r.by, step |-> "save"]})
                                \cup {[node |-> r.by, step |-> "execute"]}
SaveCanvas(r) ==
  /\ board' = IF board[r.to] = None THEN board ELSE [board EXCEPT ![r.to] = r.data]
  /\ saves' = saves \ {r}
  /\ AfterSave(r)
  /\ UNCHANGED <<execs, project, mounted, loading, loads, streams, subs, tails, generating, current,
                 resume, refused, entries, clicks>>
SaveFails(r) ==
  /\ "save" \in Losses
  /\ saves' = saves \ {r}
  /\ IF r.by \in Nodes
     THEN /\ generating' = None /\ cards' = SetStatus(cards, {r.by}, "idle")
          /\ submits' = submits \ {[node |-> r.by, step |-> "save"]}
     ELSE UNCHANGED <<generating, cards, submits>>
  /\ UNCHANGED <<board, execs, project, mounted, loading, dirty, loads, streams, subs, tails, current,
                 resume, refused, entries, clicks>>

\* The back arrow: a project without content is deleted.  (Every card of
\* this model has a prompt, so only a canvas without cards is that empty.)
Leave ==
  /\ mounted /\ Settled /\ mounted' = FALSE
  /\ board' = IF cards = Empty THEN [board EXCEPT ![project] = None] ELSE board
  /\ subs' = << >> /\ resume' = Idle
  /\ UNCHANGED <<execs, project, loading, cards, dirty, loads, saves, streams, tails, generating, current,
                 submits, refused, entries, clicks>>

-----------------------------------------------------------------------------
(* Starting an execution: useNodeGeneration.                                 *)

IsGenerating(n) ==
  \/ generating = n
  \/ current.status \in Active /\ current.e \in DOMAIN streams /\ execs[current.e].node = n
        /\ streams[current.e] = {n}

Generate(n) ==
  /\ mounted /\ Writable /\ On(n) /\ ~IsGenerating(n) /\ clicks < MaxClicks
  /\ Settled
  /\ Cardinality(DOMAIN execs) + Cardinality(submits) < MaxRuns
  /\ [node |-> n, step |-> "save"] \notin submits
  /\ clicks' = clicks + 1
  /\ generating' = n
  /\ submits' = submits \cup {[node |-> n, step |-> "save"]}
  /\ saves' = saves \cup {Request(project, cards, n)}
  /\ UNCHANGED <<board, execs, client, loads, streams, subs, tails, current, resume, refused, entries>>

\* Execute of the server: the node must be on the saved canvas and have no
\* active execution.  The answer may get lost after the execution exists.
Busy(n) == \E e \in Execs : execs[e].node = n /\ ~Finished(e)
Accepts(n) == board[HomeOf[n]] # None /\ n \in DOMAIN board[HomeOf[n]] /\ ~Busy(n)
NewExec(n) == execs' = [e \in 1..Cardinality(DOMAIN execs) + 1 |->
                          IF e \in DOMAIN execs THEN execs[e] ELSE [node |-> n, status |-> "pending"]]
Submitted(n) == [node |-> n, step |-> "execute"] \in submits /\ submits' = submits \ {[node |-> n, step |-> "execute"]}

Execute(n) ==
  /\ Submitted(n) /\ Accepts(n) /\ NewExec(n)
  /\ LET e == Cardinality(DOMAIN execs) + 1
     IN  /\ current' = [e |-> e, status |-> "running"]
         /\ streams' = [x \in DOMAIN streams \cup {e} |-> IF x = e THEN {n} ELSE streams[x]]
         /\ subs' = IF ~mounted THEN subs
                    ELSE [x \in DOMAIN subs \cup {e} |-> IF x = e THEN [mode |-> "sse", seen |-> {n}] ELSE subs[x]]
  /\ UNCHANGED <<board, client, loads, saves, tails, generating, resume, refused, entries, clicks>>

ExecuteFails(n) ==
  /\ Submitted(n)
  /\ \/ ~Accepts(n) /\ UNCHANGED execs
     \/ "execute" \in Losses /\ UNCHANGED execs
     \/ "execute" \in Losses /\ Accepts(n) /\ NewExec(n)
  /\ cards' = SetStatus(cards, {n}, "failed") /\ refused' = refused \cup {n}
  /\ generating' = None
  /\ saves' = saves \cup {Request(HomeOf[n], cards', "final")}
  /\ UNCHANGED <<board, project, mounted, loading, dirty, loads, streams, subs, tails, current, resume,
                 entries, clicks>>

\* The effect that gives the button back once the execution of the node is over.
ReleaseButton ==
  /\ mounted /\ generating # None
  /\ current.status \in {"success", "failed"} /\ execs[current.e].node = generating
  /\ generating' = None
  /\ UNCHANGED <<board, execs, client, loads, saves, streams, subs, tails, current, submits, resume,
                 refused, entries, clicks>>

-----------------------------------------------------------------------------
(* The server runs executions and writes results into its canvas.            *)

Start(e) ==
  /\ execs[e].status = "pending" /\ execs' = [execs EXCEPT ![e].status = "running"]
  /\ UNCHANGED <<board, client, loads, saves, runtime, entries, clicks>>
Finish(e) ==
  LET n == execs[e].node  p == HomeOf[n]
  IN  /\ execs[e].status = "running"
      /\ \E status \in {"done", "failed"} :
           /\ execs' = [execs EXCEPT ![e].status = status]
           /\ board' = IF status = "done" /\ board[p] # None /\ n \in DOMAIN board[p]
                       THEN [board EXCEPT ![p] = WithCard(@, n, "success", e)] ELSE board
      /\ UNCHANGED <<client, loads, saves, runtime, entries, clicks>>

-----------------------------------------------------------------------------
(* Following an execution: useExecutionStream.                               *)

\* updateNodeExecution knows the nodes of the current execution only.
Follow(e, status) == current' = IF current.e = e THEN [current EXCEPT !.status = status] ELSE current
Hears(e) == e \in DOMAIN subs /\ subs[e].mode = "sse"
Without(f, e) == [x \in DOMAIN f \ {e} |-> f[x]]

NodeStarted(e) ==
  LET n == execs[e].node IN
  /\ Hears(e) /\ execs[e].status = "running" /\ n \notin PendingOf(cards, {n}) /\ On(n)
  /\ cards' = SetStatus(cards, {n}, "running") /\ dirty' = Touched
  /\ subs' = [subs EXCEPT ![e].seen = @ \cup {n}] /\ Follow(e, "running")
  /\ UNCHANGED <<board, execs, project, mounted, loading, loads, saves, streams, tails, generating, submits,
                 resume, refused, entries, clicks>>

\* node_completed with a result or an error, before the final event.
NodeEnded(e) ==
  LET n == execs[e].node  ok == execs[e].status = "done" IN
  /\ Hears(e) /\ Finished(e)
  /\ IF ok THEN On(n) /\ cards[n].out # e ELSE On(n) /\ cards[n].status # "failed"
  /\ cards' = IF ok THEN SetResult(cards, n, e) ELSE SetStatus(cards, {n}, "failed")
  /\ dirty' = Touched
  /\ subs' = [subs EXCEPT ![e].seen = @ \cup {n}]
  /\ Follow(e, IF ok THEN "success" ELSE "failed")
  /\ UNCHANGED <<board, execs, project, mounted, loading, loads, saves, streams, tails, generating, submits,
                 resume, refused, entries, clicks>>

\* The final event, pushed by the engine, on connecting or by the heartbeat:
\* it is handled, then onFinal takes the stream off the list, and the canvas
\* is saved when the nodes whose end was missed have been asked for.
ExecutionEnded(e) ==
  LET ok == execs[e].status = "done"
      missed == PendingOf(cards, subs[e].seen)
      ended == IF ok THEN cards ELSE SetStatus(cards, missed, "failed")
  IN  /\ Hears(e) /\ Finished(e)
      /\ cards' = ended /\ dirty' = (dirty \/ (~ok /\ missed # {} /\ Writable))
      /\ streams' = Without(streams, e) /\ subs' = Without(subs, e)
      /\ IF ok /\ missed # {}
         THEN tails' = tails \cup {[e |-> e, ask |-> missed, save |-> TRUE]} /\ UNCHANGED saves
         ELSE saves' = saves \cup {Request(project, ended, "final")} /\ UNCHANGED tails
      /\ IF ok THEN UNCHANGED current ELSE Follow(e, "failed")
      /\ UNCHANGED <<board, execs, project, mounted, loading, loads, generating, submits, resume, refused,
                     entries, clicks>>

\* reconcileNodesOnTerminal: one getStatus per node, written if the server's
\* canvas has the node, idle otherwise; with the last one the execution is
\* over for the button and the list, and the canvas open by then is saved.
Reconcile(t) ==
  \E n \in t.ask :
    LET p == HomeOf[execs[t.e].node]
        known == board[p] # None /\ n \in DOMAIN board[p]
        rest == [t EXCEPT !.ask = @ \ {n}]
    IN  /\ \/ /\ known
              /\ cards' = IF Writable /\ On(n) THEN WithCard(cards, n, "success", board[p][n].out) ELSE cards
              /\ dirty' = Touched
           \/ /\ "status" \in Losses \/ ~known
              /\ cards' = SetStatus(cards, {n}, "idle") /\ UNCHANGED dirty
        /\ IF rest.ask # {}
           THEN tails' = (tails \ {t}) \cup {rest} /\ UNCHANGED <<saves, streams, subs, generating, current>>
           ELSE /\ tails' = tails \ {t}
                /\ Follow(t.e, "success")
                /\ generating' = None /\ streams' = Without(streams, t.e) /\ subs' = Without(subs, t.e)
                /\ saves' = IF t.save THEN saves \cup {Request(project, cards', "final")} ELSE saves
        /\ UNCHANGED <<board, execs, project, mounted, loading, loads, submits, resume, refused, entries, clicks>>

\* An error of the connection or 45 silent seconds: polling takes over.
FallBack(e) ==
  /\ "stream" \in Losses /\ Hears(e)
  /\ subs' = [subs EXCEPT ![e].mode = "poll"]
  /\ UNCHANGED <<board, execs, client, loads, saves, streams, tails, generating, current, submits, resume,
                 refused, entries, clicks>>

\* One poll of an execution that is over: node data first (streams that know
\* their node), then what is still pending; no save.
PollEnded(e) ==
  LET n == execs[e].node  p == HomeOf[n]  ok == execs[e].status = "done"
      told == streams[e] = {n} /\ board[p] # None /\ n \in DOMAIN board[p]
      written == IF ~told THEN cards
                 ELSE IF ok THEN SetResult(cards, n, board[p][n].out) ELSE SetStatus(cards, {n}, "failed")
      missed == PendingOf(written, subs[e].seen)
  IN  /\ e \in DOMAIN subs /\ subs[e].mode = "poll" /\ Finished(e)
      /\ \A t \in tails : t.e # e
      /\ cards' = IF ok THEN written ELSE SetStatus(written, missed, "failed")
      /\ dirty' = (dirty \/ (Touched /\ (told \/ missed # {})))
      /\ IF missed # {} /\ ok
         THEN /\ tails' = tails \cup {[e |-> e, ask |-> missed, save |-> FALSE]}
              /\ UNCHANGED <<generating, streams, subs, current>>
         ELSE /\ generating' = None /\ streams' = Without(streams, e) /\ subs' = Without(subs, e)
              /\ IF missed = {} THEN UNCHANGED current ELSE Follow(e, "failed")
              /\ UNCHANGED tails
      /\ UNCHANGED <<board, execs, project, mounted, loading, loads, saves, submits, resume, refused,
                     entries, clicks>>

-----------------------------------------------------------------------------
(* Coming back: useResumeActiveExecution.                                    *)

GetActive ==
  /\ resume.step = "ask"
  /\ \/ resume' = [step |-> "wait", found |-> {e \in Execs : HomeOf[execs[e].node] = project /\ ~Finished(e)}]
     \/ "active" \in Losses /\ resume' = Idle
  /\ UNCHANGED <<board, execs, client, loads, saves, streams, subs, tails, generating, current, submits,
                 refused, entries, clicks>>

Listed(es) == [x \in DOMAIN streams \cup es |-> IF x \in DOMAIN streams THEN streams[x] ELSE {execs[x].node, None}]
Ready == ~loading /\ cards # Empty

\* Mutant: what an earlier visit left as running is left so.
ClearNothing ==
  /\ resume.step = "wait" /\ resume.found = {} /\ Ready
  /\ resume' = Idle
  /\ UNCHANGED <<board, execs, client, loads, saves, streams, subs, tails, generating,
                 current, submits, refused, entries, clicks>>
\* Nothing is running: what the canvas shows as running is left over.
ClearStale ==
  /\ resume.step = "wait" /\ resume.found = {} /\ Ready
  /\ LET stale == PendingOf(cards, Nodes) IN
       cards' = SetStatus(cards, stale, "idle") /\ dirty' = (dirty \/ stale # {})
  /\ resume' = Idle
  /\ UNCHANGED <<board, execs, project, mounted, loading, loads, saves, streams, subs, tails, generating,
                 current, submits, refused, entries, clicks>>
\* Something is: its nodes run again; a load of the canvas may overwrite
\* that, so it is done again for two seconds; then the streams are listed.
Rerun == SetStatus(cards, {execs[e].node : e \in resume.found}, "running")
Restore ==
  /\ resume.step = "wait" /\ resume.found # {} /\ Ready
  /\ cards' = Rerun
  /\ resume' = [resume EXCEPT !.step = "confirm"]
  /\ UNCHANGED <<board, execs, project, mounted, loading, dirty, loads, saves, streams, subs, tails,
                 generating, current, submits, refused, entries, clicks>>
Resubscribe ==
  /\ resume.step = "confirm"
  /\ cards' = Rerun
  /\ streams' = Listed(resume.found)
  /\ subs' = [x \in DOMAIN subs \cup resume.found |->
                IF x \in DOMAIN subs THEN subs[x] ELSE [mode |-> "sse", seen |-> Listed(resume.found)[x] \ {None}]]
  /\ resume' = Idle
  /\ UNCHANGED <<board, execs, project, mounted, loading, dirty, loads, saves, tails, generating, current,
                 submits, refused, entries, clicks>>
-----------------------------------------------------------------------------
(* The whole.                                                                *)

Answers ==
  \/ \E r \in loads : ReadCanvas(r) \/ LoadCanvas(r) \/ LoadFails(r)
  \/ \E r \in saves : SaveCanvas(r) \/ SaveFails(r)
  \/ \E n \in Nodes : Execute(n) \/ ExecuteFails(n)
Follows ==
  \/ \E e \in Execs : NodeStarted(e) \/ NodeEnded(e) \/ ExecutionEnded(e) \/ FallBack(e) \/ PollEnded(e)
  \/ \E t \in tails : Reconcile(t)
  \/ ReleaseButton
Resumes == GetActive \/ ClearStale \/ Restore \/ Resubscribe
Serves == \E e \in Execs : Start(e) \/ Finish(e)
Uses ==
  \/ \E p \in Projects : Enter(p)
  \/ \E n \in Nodes : Generate(n)
  \/ HandleSave \/ Leave

Next == Uses \/ Answers \/ Follows \/ Resumes \/ Serves
Spec == Init /\ [][Next]_vars
\* Requests are answered, executions end (the server's watchdog sees to it),
\* and the page does what it has to do; the user owes nothing.
Ends(e) == ExecutionEnded(e) \/ PollEnded(e)
Fair ==
  /\ WF_vars(Answers) /\ WF_vars(Serves) /\ WF_vars(Resumes) /\ WF_vars(ReleaseButton)
  /\ WF_vars(\E t \in tails : Reconcile(t))
  /\ \A e \in 1..MaxRuns : WF_vars(e \in Execs /\ Ends(e))
FairSpec == Spec /\ Fair

-----------------------------------------------------------------------------
(* Properties.                                                               *)

\* Every variable has its type; subscribers belong to listed streams and to
\* a page that is shown.
TypeOK ==
  /\ \A p \in Projects : board[p] # None => board[p] \in Canvas
  /\ cards \in Canvas /\ generating \in Nodes \cup {None}
  /\ DOMAIN execs \in {1..k : k \in 0..MaxRuns}
  /\ DOMAIN subs \subseteq DOMAIN streams /\ DOMAIN streams \subseteq Execs
  /\ ~mounted => DOMAIN subs = {}

\* An execution that fails marks its own nodes: a card shown as failed has a
\* failed execution or a refused submission behind it, whatever else runs
\* at the same time and whichever project is open when the news arrives.
FailedForAReason ==
  \A n \in DOMAIN cards : cards[n].status = "failed" =>
     n \in refused \/ \E e \in Execs : execs[e].node = n /\ execs[e].status = "failed"

\* No project's canvas ever gets a card of another: not by results that
\* arrive after a change of projects and not by the saves that follow them.
CanvasesApart == \A p \in Projects : board[p] # None => \A n \in DOMAIN board[p] : HomeOf[n] = p

\* A card that shows "generating" stops doing so, with events lost,
\* connections broken, answers missing and executions left by another tab.
Spins(n) == mounted /\ On(n) /\ cards[n].status \in Active
SpinnerStops == \A n \in Nodes : Spins(n) ~> ~Spins(n)

\* The button of a node does not stay at "generating" for ever (promised in
\* utils/executionTerminal.ts:67).
Held(n) == mounted /\ On(n) /\ generating = n
ButtonReleased == \A n \in Nodes : Held(n) ~> ~Held(n)

\* No save empties the canvas of a project that has cards: nobody removes
\* one in this model (stores/canvasStore.ts:457-463 shows a canvas only
\* after it is loaded).
SavesKeepCards == [][\A p \in Projects : board[p] \notin {None, Empty} => board'[p] # Empty]_vars

\* The back arrow deletes projects that are empty, no others
\* (pages/workspace/WorkspacePage.tsx:243).
OnlyEmptyDeleted == [][\A p \in Projects : board[p] \notin {None, Empty} => board'[p] # None]_vars
=============================================================================
