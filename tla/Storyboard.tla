------------------------------ MODULE Storyboard ------------------------------
(***************************************************************************)
(* The storyboard of a script node: its table of shots, its three steps,   *)
(* and the dialog that writes the prompts of one shot.  From               *)
(* src/web/src/components/nodes/ScriptNode.tsx and script/ShotTable.tsx,   *)
(* script/ScriptDetailPanel.tsx, script/PromptMergeModal.tsx.              *)
(*                                                                         *)
(* A shot is written back whole by whoever changes a part of it, so the    *)
(* question is always which copy of the shot it starts from: the dialog's  *)
(* generating handler keeps the one it saw when its shot, its mode or its  *)
(* model last changed, and a closed drawer keeps the list it last showed.  *)
(* A text is the number of the act that wrote it, 0 for none.              *)
(***************************************************************************)
EXTENDS Naturals, Sequences, SequencesExt, FiniteSets

CONSTANTS
  Shots,       \* identities of shots
  First,       \* those the table begins with
  Habits,      \* subset of {"again": the table is edited after a dialog was
               \* opened, "meanwhile": other things are done while a prompt is
               \* made, "leave": the project is left while a prompt is made,
               \* "hasty": it is left within 800 ms of an edit}
  MaxActs,     \* bound: acts of the user and answers
  MaxJobs,     \* bound: prompts being made
  None

Modes == {1, 2}     \* one reference picture; first and last frame

VARIABLES
  project,     \* the project on screen
  rows,        \* the shots of the script node, when its project is on screen
  step,        \* currentStep
  drawer,      \* the detail panel is open
  dialog,      \* the prompt dialog: its shot, open, what it shows, busy
  closure,     \* the shot its generating handler holds
  typing,      \* a box of the dialog has the focus and was changed
  jobs,        \* prompts being made
  timers,      \* saves to come: of the node, of the dialog, of a dialog gone
  saved,       \* the canvas the server has for the project of the script
  wanted,      \* what each shot should say (observer)
  acts

table == <<rows, step>>
screen == <<drawer, dialog, closure, typing>>
vars == <<project, table, screen, jobs, timers, saved, wanted, acts>>

Row(id, no) == [id |-> id, no |-> no, visual |-> 0, prompt |-> [m \in Modes |-> 0], mode |-> 2]
Content(r) == [visual |-> r.visual, prompt |-> r.prompt]
NoDialog == [shot |-> None, open |-> FALSE, prompt |-> [m \in Modes |-> 0], mode |-> 2, busy |-> FALSE]
Rows == {rows[i] : i \in DOMAIN rows}
RowOf(id) == CHOOSE r \in Rows : r.id = id
Known(id) == \E r \in Rows : r.id = id
Renumber(list) == [i \in DOMAIN list |-> [list[i] EXCEPT !.no = i]]
With(list, r) == [i \in DOMAIN list |-> IF list[i].id = r.id THEN r ELSE list[i]]

\* The store as a save of the canvas finds it.
Canvas == [of |-> project, rows |-> rows]

Act == acts < MaxActs /\ acts' = acts + 1
Waiting == jobs # {}
Patient == Waiting => "meanwhile" \in Habits

\* What is on screen in each step.
ShowsTable == project = "A" /\ drawer /\ ~dialog.open /\ step = 1
ShowsMerge == project = "A" /\ drawer /\ ~dialog.open /\ step = 3
ShowsDialog == project = "A" /\ drawer /\ dialog.open /\ Known(dialog.shot)

\* handleUpdateData: the store, which may have no such node any more, and the
\* save 800 ms later.
Update(list) ==
  /\ rows' = IF project = "A" THEN list ELSE rows
  /\ timers' = timers \cup {"node"}

Init ==
  /\ project = "A"
  /\ rows = [i \in DOMAIN First |-> Row(First[i], i)]
  /\ step = 1 /\ drawer = FALSE /\ dialog = NoDialog /\ closure = None /\ typing = FALSE
  /\ jobs = {} /\ timers = {} /\ saved = Canvas /\ acts = 0
  /\ wanted = [s \in Shots |-> Content(Row(s, 0))]

\* --- the table -----------------------------------------------------------
EditsTable ==
  /\ ShowsTable /\ Act /\ Patient
  /\ dialog.shot # None => "again" \in Habits
  /\ UNCHANGED <<project, step, screen, jobs, saved>>

New(id) == ~Known(id) /\ wanted[id] = Content(Row(id, 0))

HandleAddShot(id) ==
  /\ EditsTable /\ New(id)
  /\ Update(Append(rows, Row(id, Len(rows) + 1)))
  /\ UNCHANGED wanted

HandleCellChange(i) ==
  /\ EditsTable
  /\ Update(With(rows, [rows[i] EXCEPT !.visual = acts']))
  /\ wanted' = [wanted EXCEPT ![rows[i].id].visual = acts']

CopyRow(i, id) ==
  /\ EditsTable /\ New(id)
  /\ Update(Renumber(InsertAt(rows, i + 1, [rows[i] EXCEPT !.id = id])))
  /\ wanted' = [wanted EXCEPT ![id] = Content(rows[i])]

Swapped(list, i, j) == [list EXCEPT ![i] = list[j], ![j] = list[i]]

\* Both ends of a move are judged by the number the row bears.
MoveUp(i) ==
  /\ EditsTable /\ rows[i].no > 1 /\ i > 1
  /\ Update(Renumber(Swapped(rows, i, i - 1)))
  /\ UNCHANGED wanted

MoveDown(i) ==
  /\ EditsTable /\ rows[i].no < Len(rows) /\ i < Len(rows)
  /\ Update(Renumber(Swapped(rows, i, i + 1)))
  /\ UNCHANGED wanted

DeleteRow(i) ==
  /\ EditsTable
  /\ Update(Renumber(RemoveAt(rows, i)))
  /\ UNCHANGED wanted

\* --- the drawer ----------------------------------------------------------
OpenDetail ==
  /\ project = "A" /\ ~drawer /\ Patient
  /\ drawer' = TRUE
  /\ UNCHANGED <<project, table, dialog, closure, typing, jobs, timers, saved, wanted, acts>>

\* Everything in the drawer is gone; what runs on keeps the list it last saw,
\* and its timer still runs.
Unmounted ==
  /\ dialog' = NoDialog /\ closure' = None /\ typing' = FALSE
  /\ jobs' = {[j EXCEPT !.list = IF @ = None THEN rows ELSE @, !.live = FALSE] : j \in jobs}
  /\ timers' = {IF t = "dialog" THEN "gone" ELSE t : t \in timers}

CloseDetail ==
  /\ project = "A" /\ drawer /\ ~dialog.open /\ Patient /\ Act
  /\ drawer' = FALSE /\ Unmounted
  /\ UNCHANGED <<project, table, saved, wanted>>

HandleStep(next) ==
  /\ project = "A" /\ drawer /\ ~dialog.open /\ Patient
  /\ next \in {step - 1, step + 1} \cap 1 .. 3
  /\ step' = next /\ timers' = timers \cup {"node"}
  /\ UNCHANGED <<project, rows, screen, jobs, saved, wanted, acts>>

\* Another project is opened; the store holds its nodes from now on.
LeaveProject ==
  /\ project = "A" /\ ~typing
  /\ Waiting => "leave" \in Habits
  /\ timers # {} => "hasty" \in Habits
  /\ project' = "B" /\ rows' = <<>> /\ drawer' = FALSE /\ Unmounted
  /\ UNCHANGED <<step, saved, wanted, acts>>

\* --- the dialog ----------------------------------------------------------
\* Opened on another shot the dialog is built anew; on the same shot it is as
\* it was left.
OpenMerge(i) ==
  /\ ShowsMerge /\ Patient /\ Act
  /\ IF dialog.shot = rows[i].id
     THEN dialog' = [dialog EXCEPT !.open = TRUE] /\ UNCHANGED <<closure, jobs, timers>>
     ELSE /\ dialog' = [shot |-> rows[i].id, open |-> TRUE, prompt |-> rows[i].prompt,
                        mode |-> rows[i].mode, busy |-> FALSE]
          /\ closure' = rows[i]
          /\ jobs' = {[j EXCEPT !.live = FALSE] : j \in jobs}
          /\ timers' = {IF t = "dialog" THEN "gone" ELSE t : t \in timers}
  /\ UNCHANGED <<project, table, drawer, typing, saved, wanted>>

CloseMerge ==
  /\ project = "A" /\ dialog.open /\ ~typing /\ Patient
  /\ dialog' = [dialog EXCEPT !.open = FALSE, !.busy = FALSE]
  /\ timers' = timers \ {"dialog"}
  /\ UNCHANGED <<project, table, drawer, closure, typing, jobs, saved, wanted, acts>>

HandleRefCountChange(m) ==
  /\ ShowsDialog /\ ~typing /\ Patient /\ m # dialog.mode
  /\ dialog' = [dialog EXCEPT !.mode = m]
  /\ closure' = RowOf(dialog.shot)
  /\ UNCHANGED <<project, table, drawer, typing, jobs, timers, saved, wanted, acts>>

ChooseModel ==
  /\ ShowsDialog /\ ~typing /\ closure # RowOf(dialog.shot)
  /\ closure' = RowOf(dialog.shot)
  /\ UNCHANGED <<project, table, drawer, dialog, typing, jobs, timers, saved, wanted, acts>>

HandlePromptChange ==
  /\ ShowsDialog /\ Act
  /\ dialog' = [dialog EXCEPT !.prompt[dialog.mode] = acts']
  /\ typing' = TRUE
  /\ UNCHANGED <<project, table, drawer, closure, jobs, timers, saved, wanted>>

\* Leaving the box: the mode's own prompts, into the shot as it is now, and a
\* save at once, which may fail.
HandleAutoSave ==
  /\ ShowsDialog /\ typing
  /\ typing' = FALSE
  /\ LET m == dialog.mode
     IN /\ Update(With(rows, [RowOf(dialog.shot) EXCEPT !.prompt[m] = dialog.prompt[m], !.mode = m]))
        /\ wanted' = [wanted EXCEPT ![dialog.shot].prompt[m] = dialog.prompt[m]]
  /\ saved' \in {saved, [Canvas EXCEPT !.rows = rows']}
  /\ UNCHANGED <<project, step, drawer, dialog, closure, jobs, acts>>

HandleGenerate ==
  /\ ShowsDialog /\ ~typing /\ ~dialog.busy /\ Cardinality(jobs) < MaxJobs /\ Act
  /\ dialog' = [dialog EXCEPT !.busy = TRUE]
  /\ jobs' = jobs \cup {[no |-> acts', shot |-> closure, mode |-> dialog.mode, list |-> None, live |-> TRUE]}
  /\ UNCHANGED <<project, table, drawer, closure, typing, timers, saved, wanted>>

\* The shot the answer writes back.
UpdatedShot(j, text) == [j.shot EXCEPT !.prompt[j.mode] = text, !.mode = j.mode]

\* The answer goes to the dialog that asked, if it is still there, and to the
\* list of the drawer that asked; a save follows 500 ms later.
Answered(j) ==
  /\ j \in jobs /\ Act
  /\ jobs' = jobs \ {j}
  /\ dialog' = IF j.live THEN [dialog EXCEPT !.prompt[j.mode] = acts', !.busy = FALSE] ELSE dialog
  /\ rows' = IF project = "A"
             THEN With(IF j.list = None THEN rows ELSE j.list, UpdatedShot(j, acts')) ELSE rows
  /\ timers' = timers \cup {"node", IF j.live THEN "dialog" ELSE "gone"}
  /\ wanted' = [wanted EXCEPT ![j.shot.id].prompt[j.mode] = acts']
  /\ UNCHANGED <<project, step, drawer, closure, typing, saved>>

\* Mutant: a failure leaves the button of the dialog grey.
GenerateFailsBusy(j) ==
  /\ j \in jobs
  /\ jobs' = jobs \ {j}
  /\ UNCHANGED <<project, table, screen, timers, saved, wanted, acts>>
GenerateFails(j) ==
  /\ j \in jobs
  /\ jobs' = jobs \ {j}
  /\ dialog' = IF j.live THEN [dialog EXCEPT !.busy = FALSE] ELSE dialog
  /\ UNCHANGED <<project, table, drawer, closure, typing, timers, saved, wanted, acts>>

\* A save falls due: the store as it now is, for the project of the script.
Save(t) ==
  /\ t \in timers
  /\ timers' = timers \ {t}
  /\ saved' = Canvas
  /\ UNCHANGED <<project, table, screen, jobs, wanted, acts>>

Next ==
  \/ \E id \in Shots : HandleAddShot(id)
  \/ \E i \in DOMAIN rows : \/ HandleCellChange(i)
                            \/ MoveUp(i)
                            \/ MoveDown(i)
                            \/ DeleteRow(i)
                            \/ OpenMerge(i)
                            \/ \E id \in Shots : CopyRow(i, id)
  \/ OpenDetail
  \/ CloseDetail
  \/ \E n \in 1 .. 3 : HandleStep(n)
  \/ LeaveProject
  \/ CloseMerge
  \/ \E m \in Modes : HandleRefCountChange(m)
  \/ ChooseModel
  \/ HandlePromptChange
  \/ HandleAutoSave
  \/ HandleGenerate
  \/ \E j \in jobs : Answered(j) \/ GenerateFails(j)
  \/ \E t \in timers : Save(t)

Fairness == WF_vars(\E j \in jobs : Answered(j) \/ GenerateFails(j)) /\ WF_vars(\E t \in timers : Save(t))
Spec == Init /\ [][Next]_vars
FairSpec == Spec /\ Fairness

-----------------------------------------------------------------------------
\* Every variable has its type, and no two rows are one shot.
TypeOK ==
  /\ project \in {"A", "B"} /\ step \in 1 .. 3 /\ drawer \in BOOLEAN /\ typing \in BOOLEAN
  /\ \A i \in DOMAIN rows : rows[i].id \in Shots /\ rows[i].mode \in Modes
  /\ \A i, j \in DOMAIN rows : rows[i].id = rows[j].id => i = j
  /\ dialog.shot \in Shots \cup {None} /\ dialog.mode \in Modes
  /\ timers \subseteq {"node", "dialog", "gone"} /\ saved.of \in {"A", "B"}

\* ShotTable.tsx calls this its invariant: the number of a shot is its place
\* in the table, on which the moves up and down rely.
NumbersFollowRows == \A i \in DOMAIN rows : rows[i].no = i

\* What the user wrote into a shot, and the prompt last made for a mode, stay
\* until they are written or made again: an answer only changes the prompts of
\* its own mode.
EditsStand == \A r \in Rows : Content(r) = wanted[r.id]

\* The dialog shows what the shot holds, but for the box being typed in.
DialogAgrees ==
  ShowsDialog /\ ~typing => dialog.prompt = RowOf(dialog.shot).prompt

\* The canvas saved for a project is that project's.
SavesOwnCanvas == saved.of = "A"

\* With nothing left to save, the server has what the screen shows.
QuietIsSaved == project = "A" /\ timers = {} => saved.rows = rows

\* The button that is to be ready again when the prompt has been made.
Waits == {w \in {"busy"} : dialog.busy}
=============================================================================
