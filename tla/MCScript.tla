------------------------------ MODULE MCScript ------------------------------
(* The table of shots, the pictures of its assets, the frames of its shots    *)
(* and the scene of a shot in three dimensions on small instances, one of     *)
(* them in use at a time: focus says which.  MCCards adds the cards.          *)
EXTENDS Naturals, Sequences, FiniteSets

CONSTANT None
VARIABLES
  focus,
  boardProject, rows, step, drawer, dialog, closure, typing, boardJobs, timers, boardSaved,
  wanted, boardActs,
  assetNode, assetUsed, edges, link, description, editor, target, assetUploads, assetJobs,
  assetWatch, given, ignored, assetActs,
  frameNodes, feeds, frameUsed, prompts, count, frameActs,
  disk, canvas, sceneSaves, failed, sceneOpen, leaving, objs, chars, cams, ease, sel, pose,
  draw, selCam, preview, time, duration, playing, grab, export, ai, seq, sceneOps, opens

boardVars == <<boardProject, rows, step, drawer, dialog, closure, typing, boardJobs, timers,
  boardSaved, wanted, boardActs>>
assetVars == <<assetNode, assetUsed, edges, link, description, editor, target, assetUploads,
  assetJobs, assetWatch, given, ignored, assetActs>>
frameVars == <<frameNodes, feeds, frameUsed, prompts, count, frameActs>>
sceneVars == <<disk, canvas, sceneSaves, failed, sceneOpen, leaving, objs, chars, cams, ease,
  sel, pose, draw, selCam, preview, time, duration, playing, grab, export, ai, seq, sceneOps,
  opens>>
scriptVars == <<boardVars, assetVars, frameVars, sceneVars>>

\* A scene with a walk of two points and an action.
MCScene == [x \in {"n"} |->
  [objs |-> {"o"}, cams |-> {"k"}, ease |-> "off",
   chars |-> [y \in {"c"} |-> [path |-> <<[id |-> 1, t |-> 0], [id |-> 2, t |-> 1]>>, acts |-> <<1>>]]]]

Board == INSTANCE Storyboard WITH
  Shots <- {"s1", "s2", "s3"}, First <- <<"s1", "s2">>, Habits <- {}, MaxActs <- 4,
  MaxJobs <- 1, project <- boardProject, jobs <- boardJobs, saved <- boardSaved,
  acts <- boardActs
Asset == INSTANCE ScriptAssets WITH
  Assets <- {"x", "y"}, Ids <- {"n1", "n2", "n3"}, Spare <- "n1", Habits <- {"cut"},
  Losses <- {"upload", "run"}, MaxActs <- 3, node <- assetNode,
  used <- assetUsed, uploads <- assetUploads, jobs <- assetJobs, watch <- assetWatch,
  acts <- assetActs
Frame == INSTANCE ShotFrames WITH
  Ids <- 1 .. 4, Habits <- {}, MaxActs <- 4, nodes <- frameNodes,
  used <- frameUsed, acts <- frameActs
Copy == INSTANCE ShotFrames WITH
  Ids <- 1 .. 4, Habits <- {"paste"}, MaxActs <- 4, nodes <- frameNodes,
  used <- frameUsed, acts <- frameActs
Scene == INSTANCE Previz WITH
  Cards <- {"n"}, Chars <- {"c"}, Things <- {"o"}, Cams <- {"k", "l"},
  FirstScene <- MCScene, MaxTime <- 2, MaxOps <- 2, MaxOpens <- 1,
  Losses <- {"save", "upload", "analyze"}, saves <- sceneSaves, open <- sceneOpen,
  ops <- sceneOps

\* The tools, where they start and what they do.
ScriptTools == {"board", "asset", "frame", "copy", "scene"}
ScriptInit == Board!Init /\ Asset!Init /\ Frame!Init /\ Scene!Init
ScriptStep ==
  \/ focus = "board" /\ Board!Next /\ UNCHANGED <<assetVars, frameVars, sceneVars>>
  \/ focus = "asset" /\ Asset!Next /\ UNCHANGED <<boardVars, frameVars, sceneVars>>
  \/ focus = "frame" /\ Frame!Next /\ UNCHANGED <<boardVars, assetVars, sceneVars>>
  \/ focus = "copy" /\ Copy!Next /\ UNCHANGED <<boardVars, assetVars, sceneVars>>
  \/ focus = "scene" /\ Scene!Next /\ UNCHANGED <<boardVars, assetVars, frameVars>>

\* Requests are answered, timers run out and a drag ends.
ScriptFairness ==
  /\ WF_boardVars(focus = "board" /\ \E j \in boardJobs : Board!Answered(j) \/ Board!GenerateFails(j))
  /\ WF_boardVars(focus = "board" /\ \E t \in timers : Board!Save(t))
  /\ WF_assetVars(focus = "asset" /\ Asset!Progress)
  /\ WF_assetVars(focus = "asset" /\ Asset!TimesOut)
  /\ WF_sceneVars(focus = "scene" /\ Scene!AutoSave)
  /\ WF_sceneVars(focus = "scene" /\ Scene!SaveArrives)
  /\ WF_sceneVars(focus = "scene" /\ Scene!EndDrag)

-----------------------------------------------------------------------------
\* What a tool shows as under way.
ScriptWaits ==
  CASE focus = "board" -> Board!Waits
    [] focus = "asset" -> Asset!Waits
    [] focus = "scene" -> Scene!Waits
    [] OTHER -> {}

\* What the user has at hand is not changed under it: a selected point of a
\* walk, the key frames beside the one that is dragged, the description being
\* written, a picture being made while shots are added (timelineStore.ts,
\* CustomAssetEditor, shotNodeSync.ts).
HandKept ==
  /\ focus = "scene" => Scene!SelectedPointStays /\ Scene!DragMovesOne
  /\ focus = "asset" => Asset!DraftStays
  /\ focus \in {"frame", "copy"} => Frame!RunningStays

\* A script, its shots and the pictures of its assets agree: the numbers, the
\* dialog and the server with the table, the references with what the user
\* gave, the frames of a shot with their slots, a walk with its times, the
\* selected bone with the posed character (ShotTable.tsx,
\* PromptMergeModal.tsx, assetImageSync.ts, shotNodeSync.ts, previzStore.ts).
ScriptHoldsTogether ==
  /\ focus = "board" =>
       Board!TypeOK /\ Board!NumbersFollowRows /\ Board!EditsStand /\ Board!DialogAgrees
       /\ Board!QuietIsSaved
  /\ focus = "asset" =>
       Asset!TypeOK /\ Asset!ReferenceIsUsers /\ Asset!OriginalKept /\ Asset!ReferenceComplete
  /\ focus \in {"frame", "copy"} => Frame!TypeOK
  /\ focus = "frame" => Frame!FramesInOrder
  /\ focus = "scene" => Scene!TypeOK /\ Scene!InOrder /\ Scene!BoneMeansPosing
=============================================================================
