------------------------------ MODULE MediaNodes ------------------------------
(***************************************************************************)
(* What the node of a picture or a video does by itself: it takes a file,  *)
(* an asset, a generated clip or an earlier one and measures it;           *)
(* frames are captured from it, and sound and picture taken apart.  From   *)
(* src/web/src/components/nodes/VideoNode.tsx, ImageNode.tsx,              *)
(* components/canvas/NodeToolbar.tsx, FrameCaptureModal.tsx,               *)
(* useMediaNodeActions.ts and utils/imageOpsNodes.ts.                      *)
(***************************************************************************)
EXTENDS Integers, Sequences, FiniteSets

CONSTANTS
  Clips,       \* media files
  Unreadable,  \* those a browser cannot measure
  Acts,        \* what the user does: subset of {"change", "again" (pick the asset that
               \* is shown already), "capture", "demux", "undo", "keep" (download,
               \* save to the library)}
  Reordered,   \* measures of a node can end in another order than they began
  MaxActs,     \* bound: what the user does
  None

VARIABLES
  media,       \* url, and of which clip the recorded size and duration are
  uploads,     \* what handleUpload waits for
  measures,    \* <video> elements waiting for metadata, oldest first
  modal,       \* the FrameCaptureModal: which one, busy, the shots it lists
  grabs,       \* video-frame requests
  pair,        \* status of the two nodes a demux makes
  demuxing,    \* the button of the toolbar
  past,        \* what undo goes back to, of the pair
  keeping,     \* downloads and saves to the library under way
  acts

vars == <<media, uploads, measures, modal, grabs, pair, demuxing, past, keeping, acts>>
shown == <<modal, grabs>>
parts == <<pair, demuxing, past>>

Halves == {"silent", "audio"}
NoPair == [h \in Halves |-> "none"]
NoModal == [id |-> 0, busy |-> FALSE, shots |-> 0]

Init ==
  /\ media \in {[url |-> None, size |-> None, dur |-> None]} \cup {[url |-> c, size |-> None, dur |-> None] : c \in Clips}
  /\ measures = IF media.url = None THEN << >> ELSE <<[clip |-> media.url, knew |-> FALSE, upload |-> FALSE]>>
  /\ uploads = {} /\ modal = NoModal /\ grabs = {} /\ pair = NoPair /\ demuxing = FALSE
  /\ past = << >> /\ keeping = {} /\ acts = 0

Do(kind) == kind \in Acts /\ acts < MaxActs /\ acts' = acts + 1

-----------------------------------------------------------------------------
(* The clip and its measures.                                                *)

\* A new url: the effect on it measures the clip, knowing whether the node
\* had a duration then.
Measure(clip, dur) == [clip |-> clip, knew |-> dur # None, upload |-> FALSE]
Shows(new, more) ==
  /\ media' = new
  /\ measures' = measures \o (IF new.url = media.url THEN << >> ELSE <<Measure(new.url, new.dur)>>) \o more

Upload(c) ==
  /\ Do("change") /\ uploads = {} /\ uploads' = {c}
  /\ UNCHANGED <<media, measures, shown, parts, keeping>>
\* The url as soon as it is there, and a measure of its own for the upload.
Uploaded(c) ==
  /\ c \in uploads /\ uploads' = uploads \ {c}
  /\ Shows([media EXCEPT !.url = c], <<[Measure(c, None) EXCEPT !.upload = TRUE]>>)
  /\ UNCHANGED <<shown, parts, keeping, acts>>
UploadFails(c) ==
  /\ c \in uploads /\ uploads' = uploads \ {c}
  /\ UNCHANGED <<media, measures, shown, parts, keeping, acts>>
\* From the library: what is known of the old clip is forgotten.
PickAsset(c) ==
  /\ Do("change") /\ (c = media.url => "again" \in Acts)
  /\ Shows([url |-> c, size |-> None, dur |-> None], << >>)
  /\ UNCHANGED <<uploads, shown, parts, keeping>>
\* A result, or a version chosen in the history modal.
Generated(c) ==
  /\ Do("change") /\ Shows([media EXCEPT !.url = c], << >>)
  /\ UNCHANGED <<uploads, shown, parts, keeping>>

\* onloadedmetadata of the element number i.  A capture modal starts over when
\* the duration of its node changes.
Dropped(i) == [k \in 1..(Len(measures) - 1) |-> measures[IF k < i THEN k ELSE k + 1]]
Measured(i) ==
  LET m == measures[i]
      writesDur == m.upload \/ (~m.knew /\ m.clip # media.dur)
      new == [media EXCEPT !.size = m.clip, !.dur = IF writesDur THEN m.clip ELSE @]
  IN /\ i \in DOMAIN measures /\ (i = 1 \/ Reordered) /\ m.clip \notin Unreadable
     /\ measures' = Dropped(i) /\ media' = new
     /\ modal' = IF new.dur # media.dur THEN [modal EXCEPT !.busy = FALSE, !.shots = 0] ELSE modal
     /\ UNCHANGED <<uploads, grabs, parts, keeping, acts>>
Unmeasured(i) ==
  /\ i \in DOMAIN measures /\ measures[i].clip \in Unreadable /\ measures' = Dropped(i)
  /\ UNCHANGED <<media, uploads, shown, parts, keeping, acts>>

-----------------------------------------------------------------------------
(* Capturing frames.                                                         *)

OpenModal ==
  /\ Do("capture") /\ modal.id = 0 /\ media.url # None
  /\ modal' = [id |-> acts', busy |-> FALSE, shots |-> 0]
  /\ UNCHANGED <<media, uploads, measures, grabs, parts, keeping>>
\* The buttons under the picture, and the keys that stand for them.
Ready == modal.id # 0 /\ ~modal.busy
CloseModal ==
  /\ modal.id # 0 /\ modal' = NoModal
  /\ UNCHANGED <<media, uploads, measures, grabs, parts, keeping, acts>>
Capture ==
  /\ Do("capture") /\ Ready
  /\ modal' = [modal EXCEPT !.busy = TRUE] /\ grabs' = grabs \cup {[id |-> acts', of |-> modal.id]}
  /\ UNCHANGED <<media, uploads, measures, parts, keeping>>
\* The frame becomes a node, whether the modal is still there or not; the
\* modal that asked lists it, and can ask again.
Captured(g, ok) ==
  /\ grabs' = grabs \ {g}
  /\ modal' = IF g.of # modal.id THEN modal
              ELSE [modal EXCEPT !.busy = FALSE, !.shots = IF ok THEN @ + 1 ELSE @]
  /\ UNCHANGED <<media, uploads, measures, parts, keeping, acts>>

-----------------------------------------------------------------------------
(* Sound and picture apart: two placeholders at once, filled or taken back.  *)

Write(new) == pair' = new /\ past' = IF new = pair THEN past ELSE Append(past, pair)
StartDemux ==
  /\ Do("demux") /\ ~demuxing /\ media.url # None /\ pair = NoPair
  /\ Write([h \in Halves |-> "running"]) /\ demuxing' = TRUE
  /\ UNCHANGED <<media, uploads, measures, shown, keeping>>
\* updateNodeData twice, of the nodes that are still there.
Filled(h) == IF pair[h] = "none" THEN "none" ELSE "done"
Demuxed ==
  LET first == [pair EXCEPT !["silent"] = Filled("silent")]
      both == [h \in Halves |-> Filled(h)]
  IN /\ demuxing /\ demuxing' = FALSE /\ pair' = both
     /\ past' = past \o (IF first = pair THEN << >> ELSE <<pair>>) \o (IF both = first THEN << >> ELSE <<first>>)
     /\ UNCHANGED <<media, uploads, measures, shown, keeping, acts>>
DemuxFails ==
  /\ demuxing /\ demuxing' = FALSE /\ Write(NoPair)
  /\ UNCHANGED <<media, uploads, measures, shown, keeping, acts>>
DeleteHalf(h) ==
  /\ Do("demux") /\ pair[h] # "none" /\ Write([pair EXCEPT ![h] = "none"])
  /\ UNCHANGED <<media, uploads, measures, shown, demuxing, keeping>>
Undo ==
  /\ Do("undo") /\ past # << >>
  /\ pair' = past[Len(past)] /\ past' = SubSeq(past, 1, Len(past) - 1)
  /\ UNCHANGED <<media, uploads, measures, shown, demuxing, keeping>>

-----------------------------------------------------------------------------
(* Downloading, keeping in the library.                                      *)

Keep(kind) ==
  /\ Do("keep") /\ media.url # None /\ kind \notin keeping /\ keeping' = keeping \cup {kind}
  /\ UNCHANGED <<media, uploads, measures, shown, parts>>
Kept(kind) ==
  /\ kind \in keeping /\ keeping' = keeping \ {kind}
  /\ UNCHANGED <<media, uploads, measures, shown, parts, acts>>

-----------------------------------------------------------------------------
Answers ==
  \/ \E c \in uploads : Uploaded(c) \/ UploadFails(c)
  \/ \E g \in grabs, ok \in BOOLEAN : Captured(g, ok)
  \/ Demuxed \/ DemuxFails
  \/ \E kind \in keeping : Kept(kind)
Next ==
  \/ \E c \in Clips : Upload(c) \/ PickAsset(c) \/ Generated(c)
  \/ \E i \in DOMAIN measures : Measured(i) \/ Unmeasured(i)
  \/ OpenModal \/ CloseModal \/ Capture
  \/ StartDemux \/ (\E h \in Halves : DeleteHalf(h)) \/ Undo
  \/ \E kind \in {"download", "save"} : Keep(kind)
  \/ Answers

\* Requests end, with an answer or without; there are time limits on all.
Spec == Init /\ [][Next]_vars
Fairness == WF_vars(Answers)
FairSpec == Spec /\ Fairness

-----------------------------------------------------------------------------
TypeOK ==
  /\ media.url \in Clips \cup {None} /\ media.size \in Clips \cup {None}
  /\ pair \in [Halves -> {"none", "running", "done"}]
  /\ Cardinality(uploads) <= 1 /\ (modal.id = 0 => ~modal.busy)

\* Once all that was to be measured is, the size recorded for a node is that
\* of the clip it shows, however clip followed clip (VideoNode.tsx:253).
SizeFits == measures = << >> /\ media.url \notin Unreadable => media.size = media.url

\* A node that says it is being taken apart is: nobody waits in vain.
NoIdleSpinner == \A h \in Halves : pair[h] = "running" => demuxing

\* What is under way, and is to end so that its button can be pressed again.
Waits ==
  {w \in {"upload", "busy", "part"} :
     CASE w = "upload" -> uploads # {} [] w = "busy" -> modal.busy [] w = "part" -> demuxing} \cup keeping
=============================================================================
