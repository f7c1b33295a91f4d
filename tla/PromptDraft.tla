------------------------------ MODULE PromptDraft ------------------------------
(***************************************************************************)
(* Writing a prompt that names the nodes it draws on.  From                *)
(* src/web/src/components/panels/prompt/PromptPanel.tsx, PromptEditor.tsx  *)
(* and PromptUpstreamBar.tsx.                                              *)
(*                                                                         *)
(* A prompt is in four places at once: the node, the panel's state, and    *)
(* the DOM of an editor that reads the state only when it is rebuilt - and *)
(* there may be two editors, the small one and the enlarged one.  A prompt *)
(* is the words written into it, the mentions (a marker in the text, whose *)
(* node and label are kept apart) and the range of a reshoot, 0 for none.  *)
(***************************************************************************)
EXTENDS Naturals, Sequences, FiniteSets

CONSTANTS
  Inputs,      \* nodes upstream
  Slips,       \* subset of {"hasty": acts within 150 ms of a keystroke, "large":
               \* chips and imports are used in the enlarged view}
  MaxActs,     \* bound: words and other acts of the user and of the bar
  MaxMarks,    \* bound: mentions made
  Ranges       \* of a reshoot

VARIABLES
  data,        \* prompt and mentions of the node
  text,        \* promptText of the panel
  mentions,    \* mentions of the panel: ids whose node is known
  dom,         \* text and chips of each editor
  internal,    \* mentions each editor has made itself
  timer,       \* the 150 ms before an editor tells the panel
  pending,     \* pendingInputRef
  due,         \* the node changed and the editor is not rebuilt yet
  expanded, open, imported,
  links,       \* nodes still connected
  of,          \* the node of every mention made
  range,       \* where the bar of the reshoot stands
  typed,       \* the words that should be in the prompt (observer)
  acts

panel == <<text, mentions, pending, due>>
views == <<dom, internal, timer>>
modes == <<expanded, open, imported>>
vars == <<data, panel, views, modes, links, of, range, typed, acts>>

Views == {"small", "large"}
Prompt(words, marks, r) == [words |-> words, marks |-> marks, range |-> r]
Empty == [text |-> Prompt({}, {}, 0), chips |-> {}]
Current == IF expanded THEN "large" ELSE "small"

\* buildHtml: a marker whose mention is not known stays text.
Build(t, known) == [text |-> t, chips |-> t.marks \cap known]
\* getMentions: the chips whose node is known.
Known(v) == dom[v].chips \cap (mentions \cup internal[v])
Draft == [text |-> dom[Current].text, mentions |-> Known(Current)]
ApplyRange(t, r) == IF t.range = 0 THEN t ELSE [t EXCEPT !.range = r]

Calm == (\A v \in Views : ~timer[v]) /\ ~due
Unhurried == "hasty" \in Slips \/ Calm
Act == acts < MaxActs /\ acts' = acts + 1

\* What the node's prompt changing, or its range, does to the panel.
Heard(new, again) ==
  /\ data' = new
  /\ IF new.text = data.text /\ ~again THEN UNCHANGED <<pending, due>>
     ELSE IF new.text = text' THEN pending' = FALSE /\ due' = FALSE
     ELSE due' = TRUE /\ UNCHANGED pending

Mount(d) ==
  /\ text' = d.text /\ mentions' = d.mentions
  /\ dom' = [v \in Views |-> IF v = "small" THEN Build(d.text, d.mentions) ELSE Empty]
  /\ internal' = [v \in Views |-> {}] /\ timer' = [v \in Views |-> FALSE]
  /\ pending' = FALSE /\ due' = FALSE

Init ==
  LET d == [text |-> Prompt({}, {}, 1), mentions |-> {}] IN
  /\ data = d /\ text = d.text /\ mentions = {}
  /\ dom = [v \in Views |-> IF v = "small" THEN Build(d.text, {}) ELSE Empty]
  /\ internal = [v \in Views |-> {}] /\ timer = [v \in Views |-> FALSE]
  /\ pending = FALSE /\ due = FALSE /\ expanded = FALSE /\ open = TRUE /\ imported = FALSE
  /\ links = Inputs /\ of = << >> /\ range = 1 /\ typed = {} /\ acts = 0

-----------------------------------------------------------------------------
(* An editor.                                                                *)

\* Mutant: the mentions of deleted markers are kept.
EmitKeeping(v, d, made) ==
  /\ dom' = [dom EXCEPT ![v] = d] /\ internal' = [internal EXCEPT ![v] = made]
  /\ timer' = [timer EXCEPT ![v] = FALSE]
  /\ text' = d.text /\ mentions' = mentions \cup made
  /\ pending' = TRUE /\ UNCHANGED due
\* flushChange: the panel is told what is in an editor.
Emit(v, d, made) ==
  /\ dom' = [dom EXCEPT ![v] = d] /\ internal' = [internal EXCEPT ![v] = made]
  /\ timer' = [timer EXCEPT ![v] = FALSE]
  /\ text' = d.text /\ mentions' = (mentions \cup made) \cap d.text.marks
  /\ pending' = TRUE /\ UNCHANGED due

Type ==
  /\ open /\ Act /\ ("hasty" \in Slips \/ ~due)
  /\ dom' = [dom EXCEPT ![Current].text.words = @ \cup {acts'}]
  /\ timer' = [timer EXCEPT ![Current] = TRUE] /\ typed' = typed \cup {acts'}
  /\ UNCHANGED <<data, panel, internal, modes, links, of, range>>
FlushChange(v) ==
  /\ timer[v] /\ Emit(v, dom[v], internal[v])
  /\ UNCHANGED <<data, modes, links, of, range, typed, acts>>
\* From the menu after an @, or a chip of the bar dropped into the text.
InsertMention(i) ==
  LET id == Len(of) + 1
      d == [dom[Current] EXCEPT !.text.marks = @ \cup {id}, !.chips = @ \cup {id}]
  IN /\ open /\ Act /\ Unhurried /\ i \in links /\ id <= MaxMarks
     /\ of' = Append(of, i) /\ Emit(Current, d, internal[Current] \cup {id})
     /\ UNCHANGED <<data, modes, links, range, typed>>
Without(v, ids) == [dom[v] EXCEPT !.text.marks = @ \ ids, !.chips = @ \ ids]
\* Backspace takes a chip whole.
DeleteMention(id) ==
  /\ open /\ Act /\ Unhurried /\ id \in dom[Current].chips
  /\ Emit(Current, Without(Current, {id}), internal[Current])
  /\ UNCHANGED <<data, modes, links, of, range, typed>>

\* The DOM of every editor there is made anew; what they had not told is gone.
Rebuilt(t, known) ==
  /\ dom' = [v \in Views |-> IF v = "small" \/ expanded THEN Build(t, known) ELSE Empty]
  /\ timer' = [v \in Views |-> FALSE] /\ UNCHANGED internal
\* The node's text was changed from outside: the editors are rebuilt, but not
\* over words the panel knows to be unsaved; of those only the range is new.
\* It happens at once or within the 140 ms of a throttle.
Sync ==
  LET next == IF pending THEN ApplyRange(text, range) ELSE data.text IN
  /\ due /\ due' = FALSE
  /\ IF data.text = text \/ next = text THEN UNCHANGED <<text, views>>
     ELSE text' = next /\ Rebuilt(next, mentions)
  /\ UNCHANGED <<data, mentions, pending, modes, links, of, range, typed, acts>>

-----------------------------------------------------------------------------
(* The panel.                                                                *)

\* The editor is left, or the mouse pressed outside the panel - the enlarged
\* view counts as outside.
HandleSaveDraft ==
  /\ open /\ Unhurried /\ Draft # data
  /\ UNCHANGED <<text, mentions>> /\ Heard(Draft, FALSE)
  /\ UNCHANGED <<views, modes, links, of, range, typed, acts>>
\* A click on another node: the mouse press has just saved the draft; as the
\* panel goes it saves once more, what it knows - its editor is gone.
Leave ==
  /\ open /\ ~expanded /\ Unhurried /\ ~due /\ data.text = dom["small"].text
  /\ data' = [text |-> text, mentions |-> mentions]
  /\ open' = FALSE /\ timer' = [v \in Views |-> FALSE] /\ due' = FALSE
  /\ UNCHANGED <<text, mentions, pending, dom, internal, expanded, imported, links, of, range, typed, acts>>
Reopen ==
  /\ ~open /\ Act /\ open' = TRUE /\ imported' = FALSE /\ Mount(data)
  /\ UNCHANGED <<data, expanded, links, of, range, typed>>

\* A press on the button takes the focus from the editor, which saves.
Expand ==
  /\ open /\ Act /\ ~expanded /\ Unhurried /\ ~due /\ data.text = dom["small"].text
  /\ expanded' = TRUE
  /\ dom' = [dom EXCEPT !["large"] = Build(text, mentions)]
  /\ internal' = [internal EXCEPT !["large"] = {}]
  /\ UNCHANGED <<data, panel, timer, open, imported, links, of, range, typed>>
HandleCloseExpanded ==
  /\ expanded /\ Unhurried /\ expanded' = FALSE
  /\ text' = dom["large"].text /\ mentions' = Known("large")
  /\ dom' = [dom EXCEPT !["large"] = Empty, !["small"] = Build(text', mentions')]
  /\ timer' = [v \in Views |-> FALSE] /\ UNCHANGED internal
  /\ Heard([text |-> text', mentions |-> mentions'], FALSE)
  /\ UNCHANGED <<open, imported, links, of, range, typed, acts>>

\* The x of an input: the edge goes, and its chips - those of the small editor.
HandleRemove(i) ==
  LET ids == {id \in dom["small"].chips : of[id] = i} IN
  /\ open /\ Act /\ Unhurried /\ i \in links /\ (expanded => "large" \in Slips)
  /\ links' = links \ {i}
  /\ IF ids = {} THEN UNCHANGED <<panel, views>> ELSE Emit("small", Without("small", ids), internal["small"])
  /\ UNCHANGED <<data, modes, of, range, typed>>
\* The prompt of a shot replaces what is there, once.
HandleImportPrompt ==
  /\ open /\ Act /\ Unhurried /\ ~imported /\ (expanded => "large" \in Slips)
  /\ imported' = TRUE /\ typed' = {acts'}
  /\ text' = Prompt({acts'}, {}, 0) /\ mentions' = {}
  /\ dom' = [dom EXCEPT !["small"] = Build(text', {})] /\ timer' = [timer EXCEPT !["small"] = TRUE]
  /\ Heard([text |-> text', mentions |-> {}], FALSE)
  /\ UNCHANGED <<internal, expanded, open, links, of, range>>

\* The bar of a reshoot is dragged, or told how long its clip is.
RangeMoves(r) ==
  /\ Act /\ Unhurried /\ r # range /\ range' = r
  /\ IF open THEN UNCHANGED <<text, mentions>> /\ Heard([data EXCEPT !.text = ApplyRange(@, r)], TRUE)
     ELSE data' = [data EXCEPT !.text = ApplyRange(@, r)] /\ UNCHANGED panel
  /\ UNCHANGED <<views, modes, links, of, typed>>

Next ==
  \/ Type \/ (\E v \in Views : FlushChange(v)) \/ Sync
  \/ \E i \in Inputs : InsertMention(i) \/ HandleRemove(i)
  \/ \E id \in DOMAIN of : DeleteMention(id)
  \/ HandleSaveDraft \/ Leave \/ Reopen \/ Expand \/ HandleCloseExpanded \/ HandleImportPrompt
  \/ \E r \in Ranges : RangeMoves(r)
Spec == Init /\ [][Next]_vars

-----------------------------------------------------------------------------
TypeOK ==
  /\ data.mentions \cup mentions \subseteq DOMAIN of
  /\ \A v \in Views : dom[v].chips \subseteq dom[v].text.marks /\ internal[v] \subseteq DOMAIN of

\* Every marker in the prompt of a node has its mention, and no mention is
\* without a marker (PromptPanel.tsx:360).
MarksResolve == data.text.marks = data.mentions

\* What was written is in the node when the panel is gone (PromptPanel.tsx:727).
NothingLost == ~open => data.text.words = typed

\* Once nothing is on its way, the panel knows what its editor shows, and the
\* editor shows the range the bar stands at (PromptPanel.tsx:582-609).
QuietAgree ==
  open /\ Calm => dom[Current].text = text /\ dom[Current].text.range \in {0, range}
=============================================================================
