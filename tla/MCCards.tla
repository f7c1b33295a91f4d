------------------------------ MODULE MCCards ------------------------------
(* The cards of the canvas and their tools on small instances, and those of a *)
(* script, one of them in use at a time: focus says which.  They have no      *)
(* state in common, so that what one does while another is used are the same  *)
(* steps in another order.                                                    *)
EXTENDS MCScript

VARIABLES
  mine, session, node, box, inputs, sent, choices, turns,
  data, text, mentions, dom, internal, timer, pending, due, expanded, open, imported, links,
  of, range, typed, acts,
  stored, local, editing, running, recent, latest, changes,
  nodes, runs, imageSession, split, element, drag, asks, jobs, watch, used, ops,
  media, uploads, measures, modal, grabs, pair, demuxing, past, keeping, clipActs,
  length, part, partAsks, mounted, hold, chosen, moves,
  library, type, assets, counts, fetching, selected, suppress, fetches, project, loading,
  dropNodes, dropPast, dirty, saved, owner, made, dropUploads, saves, dropActs

pickVars == <<mine, session, node, box, inputs, sent, choices, turns>>
promptVars == <<data, text, mentions, dom, internal, timer, pending, due, expanded, open,
  imported, links, of, range, typed, acts>>
noteVars == <<stored, local, editing, running, recent, latest, changes>>
imageVars == <<nodes, runs, imageSession, split, element, drag, asks, jobs, watch, used,
  ops>>
clipVars == <<media, uploads, measures, modal, grabs, pair, demuxing, past, keeping,
  clipActs>>
partVars == <<length, part, partAsks, mounted, hold, chosen, moves>>
dropVars == <<library, type, assets, counts, fetching, selected, suppress, fetches,
  project, loading, dropNodes, dropPast, dirty, saved, owner, made, dropUploads, saves,
  dropActs>>

MCOffers == [wasu |-> <<"seedance", "shared", "fast">>, dianxin |-> <<"shared">>]
MCSizes == [seedance |-> <<"480p", "720p", "1080p">>, fast |-> <<"480p", "720p">>, shared |-> <<"720p", "1080p">>]

Pick == INSTANCE ModelChoice WITH
  Channels <- {"wasu", "dianxin"}, Fallback <- "wasu", Offers <- MCOffers, Sizes <- MCSizes,
  AllSizes <- <<"480p", "720p", "1080p">>, Faults <- {"models"}, MaxInputs <- 2,
  MaxTurns <- 4
Prompt == INSTANCE PromptDraft WITH
  Inputs <- {"i", "j"}, Ranges <- 1 .. 2, Slips <- {}, MaxActs <- 5, MaxMarks <- 2
Note == INSTANCE TextNote WITH
  Crosses <- FALSE, MaxChanges <- 12
Crossed == INSTANCE TextNote WITH
  Crosses <- TRUE, MaxChanges <- 12
Image == INSTANCE ImageOps WITH
  Images <- {"a", "b"}, Spare <- {"s", "t"}, Grids <- {<<1, 3>>, <<2, 2>>}, Width <- 4,
  Modes <- {"split", "quality", "view"}, Habits <- {},
  Losses <- {"ask", "save", "execute", "run"}, MaxOps <- 2, MaxMarks <- 2, Sized <- {"a"},
  session <- imageSession
Edit == INSTANCE ImageOps WITH
  Images <- {"a", "b"}, Spare <- {"s", "t"}, Grids <- {<<1, 3>>, <<2, 2>>}, Width <- 4,
  Modes <- {"element"}, Habits <- {"slow"}, Losses <- {"ask", "save", "execute", "run"},
  MaxOps <- 3, MaxMarks <- 2, Sized <- {"a"}, session <- imageSession
Clip == INSTANCE MediaNodes WITH
  Clips <- {"p", "q", "r"}, Unreadable <- {"r"},
  Acts <- {"change", "capture", "demux", "keep"}, Reordered <- FALSE, MaxActs <- 3,
  acts <- clipActs
Unclip == INSTANCE MediaNodes WITH
  Clips <- {"p", "q", "r"}, Unreadable <- {"r"}, Acts <- {"demux", "undo"},
  Reordered <- FALSE, MaxActs <- 3, acts <- clipActs
Part == INSTANCE Reshoot WITH
  Nodes <- {"m", "n"}, Lengths <- {1, 4}, Late <- FALSE, MaxMoves <- 3, asks <- partAsks
Drop == INSTANCE CanvasDrop WITH
  Images <- {"img"}, Videos <- {"vid"}, Projects <- {"pA", "pB"}, MaxSlots <- 4,
  Habits <- {}, Losses <- {"upload"}, MaxActs <- 3, nodes <- dropNodes, past <- dropPast,
  uploads <- dropUploads, acts <- dropActs
Undone == INSTANCE CanvasDrop WITH
  Images <- {"img"}, Videos <- {"vid"}, Projects <- {"pA", "pB"}, MaxSlots <- 4,
  Habits <- {"undo"}, Losses <- {"upload"}, MaxActs <- 2, nodes <- dropNodes,
  past <- dropPast, uploads <- dropUploads, acts <- dropActs

\* What a tool that is not in use starts from is of no account: one choice does.
Init ==
  /\ focus \in {"pick", "prompt", "note", "cross", "image", "edit", "clip", "unclip",
       "part", "drop", "undo"} \cup ScriptTools
  /\ ScriptInit
  /\ Pick!Init /\ Prompt!Init /\ Note!Init /\ Image!Init /\ Clip!Init /\ Part!Init /\ Drop!Init
  /\ focus # "pick" => mine = "wasu"
  /\ focus \notin {"clip", "unclip"} => media.url = None
  /\ focus # "part" => length = 1
  /\ focus \notin {"drop", "undo"} => project = "pA" /\ owner[1] = "pA" /\ owner[2] = "pB"
CardStep ==
  \/ focus = "pick" /\ Pick!Next /\ UNCHANGED <<promptVars, noteVars, imageVars, clipVars,
       partVars, dropVars>>
  \/ focus = "prompt" /\ Prompt!Next /\ UNCHANGED <<pickVars, noteVars, imageVars,
       clipVars, partVars, dropVars>>
  \/ focus = "note" /\ Note!Next /\ UNCHANGED <<pickVars, promptVars, imageVars, clipVars,
       partVars, dropVars>>
  \/ focus = "cross" /\ Crossed!Next /\ UNCHANGED <<pickVars, promptVars, imageVars,
       clipVars, partVars, dropVars>>
  \/ focus = "image" /\ Image!Next /\ UNCHANGED <<pickVars, promptVars, noteVars, clipVars,
       partVars, dropVars>>
  \/ focus = "edit" /\ Edit!Next /\ UNCHANGED <<pickVars, promptVars, noteVars, clipVars,
       partVars, dropVars>>
  \/ focus = "clip" /\ Clip!Next /\ UNCHANGED <<pickVars, promptVars, noteVars, imageVars,
       partVars, dropVars>>
  \/ focus = "unclip" /\ Unclip!Next /\ UNCHANGED <<pickVars, promptVars, noteVars,
       imageVars, partVars, dropVars>>
  \/ focus = "part" /\ Part!Next /\ UNCHANGED <<pickVars, promptVars, noteVars, imageVars,
       clipVars, dropVars>>
  \/ focus = "drop" /\ Drop!Next /\ UNCHANGED <<pickVars, promptVars, noteVars, imageVars,
       clipVars, partVars>>
  \/ focus = "undo" /\ Undone!Next /\ UNCHANGED <<pickVars, promptVars, noteVars,
       imageVars, clipVars, partVars>>
cardVars == <<pickVars, promptVars, noteVars, imageVars, clipVars, partVars, dropVars>>
all == <<focus, cardVars, scriptVars>>
Next ==
  /\ UNCHANGED focus
  /\ \/ CardStep /\ UNCHANGED scriptVars
     \/ ScriptStep /\ UNCHANGED cardVars

\* The requests of the tool in use are answered.
Fairness ==
  /\ WF_imageVars(focus \in {"image", "edit"} /\ \E j \in jobs : Image!Continue(j))
  /\ WF_imageVars(focus \in {"image", "edit"} /\ \E a \in asks : Image!Answers(a))
  /\ WF_imageVars(focus \in {"image", "edit"} /\ \E r \in runs : (\E ok \in BOOLEAN : Image!RunEnds(r, ok)) \/ Image!RunHeard(r))
  /\ WF_clipVars(focus \in {"clip", "unclip"} /\ Clip!Answers)
  /\ WF_dropVars(focus = "drop" /\ Drop!Answer)
  /\ ScriptFairness
Spec == Init /\ [][Next]_all /\ Fairness

-----------------------------------------------------------------------------
\* What a tool shows as under way ends: no button stays grey and no card turns
\* for ever, whatever fails.
Waits ==
  CASE focus \in {"image", "edit"} -> Image!Waits
    [] focus \in {"clip", "unclip"} -> Clip!Waits
    [] focus = "drop" -> Drop!Waits
    [] OTHER -> ScriptWaits
NothingHangs ==
  \A w \in {"busy", "upload", "list", "part", "download", "save"} : []<>(w \notin Waits)

\* What the user has at hand in a script is not changed under it.
HandIsKept == [][HandKept]_all

\* What was typed, marked and chosen is what is kept and sent: of the prompt
\* in its two editors, of a note, of the model and its size (PromptPanel.tsx,
\* PromptEditor.tsx, TextNode.tsx, PromptToolbar.tsx).
DraftsSurvive ==
  /\ focus = "prompt" => Prompt!TypeOK /\ Prompt!MarksResolve /\ Prompt!NothingLost /\ Prompt!QuietAgree
  /\ focus \in {"note", "cross"} => Note!ShowsStored
  /\ focus = "note" => Note!TypedStays
  /\ focus = "pick" => Pick!SentFits /\ Pick!ReselectWorks

\* What is shown of pictures and clips is so: the lines and the names on a
\* picture, the cards that turn, the size of a clip, the part of it to be made
\* again, the list beside the canvas and the canvas that is saved
\* (opsStore.ts, VideoNode.tsx, reshootPatch.ts, AssetPanel.tsx, Canvas.tsx).
PicturesAgree ==
  /\ focus = "image" => Image!TypeOK
  /\ focus = "edit" => Edit!TypeOK
  /\ focus \in {"image", "edit"} => Image!LinesApart /\ Image!NamesMatch /\ Image!RunningIsReal
  /\ focus \in {"clip", "unclip"} => Clip!TypeOK /\ Clip!SizeFits
  /\ focus = "clip" => Clip!NoIdleSpinner
  /\ focus = "part" => Part!TypeOK /\ Part!RangeTold /\ Part!ChosenStays
  /\ focus \in {"drop", "undo"} => Drop!ListIsType /\ Drop!SavesOwnCanvas
  /\ focus = "drop" => Drop!NoIdleSpinner
=============================================================================
