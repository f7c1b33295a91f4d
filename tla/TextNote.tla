------------------------------- MODULE TextNote -------------------------------
(***************************************************************************)
(* Writing in a text node while its text can be generated anew.  From      *)
(* src/web/src/components/nodes/TextNode.tsx and BaseNode.tsx.             *)
(*                                                                         *)
(* The textarea has a text of its own, written through to the node at most *)
(* every 300 ms and when it is left.  A text is the number of the change   *)
(* that made it.                                                           *)
(***************************************************************************)
EXTENDS Integers

CONSTANTS
  Crosses,     \* the cross of the formatting bar is used
  MaxChanges   \* bound: keystrokes, formats, results

VARIABLES
  stored,      \* data.content
  local,       \* the textarea, and what is shown
  editing,
  running,     \* the node is being generated
  recent,      \* the last write through was less than 300 ms ago
  latest,      \* the text written or generated last (observer)
  changes

vars == <<stored, local, editing, running, recent, latest, changes>>

Init ==
  /\ stored = 0 /\ local = 0 /\ latest = 0 /\ changes = 0
  /\ editing = FALSE /\ running = FALSE /\ recent = FALSE
Change == changes < MaxChanges /\ changes' = changes + 1

\* The old text shows through while a new one is made, but cannot be touched.
HandleDoubleClick ==
  /\ ~editing /\ ~running /\ editing' = TRUE
  /\ UNCHANGED <<stored, local, running, recent, latest, changes>>
HandleContentChange ==
  /\ editing /\ ~running /\ Change /\ local' = changes' /\ latest' = changes'
  /\ IF recent THEN UNCHANGED <<stored, recent>> ELSE stored' = changes' /\ recent' = TRUE
  /\ UNCHANGED <<editing, running>>
\* insertFormat writes through at once.
InsertFormat ==
  /\ editing /\ ~running /\ Change /\ local' = changes' /\ stored' = changes' /\ latest' = changes'
  /\ UNCHANGED <<editing, running, recent>>
TimePasses ==
  /\ recent /\ recent' = FALSE
  /\ UNCHANGED <<stored, local, editing, running, latest, changes>>
HandleBlur ==
  /\ editing /\ editing' = FALSE /\ stored' = local
  /\ UNCHANGED <<local, running, recent, latest, changes>>
\* The cross keeps the focus in the textarea, so nothing is blurred: the text
\* shown becomes that of the node.
ExitEditing ==
  /\ Crosses /\ editing /\ editing' = FALSE /\ local' = stored
  /\ UNCHANGED <<stored, running, recent, latest, changes>>
\* A click outside, on the button: the textarea is left first.
Generate ==
  /\ ~editing /\ ~running /\ running' = TRUE
  /\ UNCHANGED <<stored, local, editing, recent, latest, changes>>
Generated(ok) ==
  /\ running /\ running' = FALSE
  /\ IF ok THEN Change /\ stored' = changes' /\ latest' = changes' /\ local' = changes'
     ELSE UNCHANGED <<stored, latest, local, changes>>
  /\ UNCHANGED <<editing, recent>>

Next ==
  \/ HandleDoubleClick \/ HandleContentChange \/ InsertFormat \/ TimePasses
  \/ HandleBlur \/ ExitEditing \/ Generate \/ (\E ok \in BOOLEAN : Generated(ok))
Spec == Init /\ [][Next]_vars

-----------------------------------------------------------------------------
\* What was typed or generated last is what the node holds once the textarea
\* is left (TextNode.tsx:154).
TypedStays == ~editing => stored = latest

\* However it was left, it shows what the node holds.
ShowsStored == ~editing => local = stored
=============================================================================
