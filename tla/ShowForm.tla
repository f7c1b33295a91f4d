----------------------------- MODULE ShowForm -----------------------------
(***************************************************************************)
(* The dialog in which a video is put on show: by an administrator, anew   *)
(* or over a show there is, and from the canvas of a project, whose show   *)
(* it looks up first.  From src/web/src/components/AddShowDialog.tsx with  *)
(* services/uploadApi.ts; the shows are those of show_handler.go.          *)
(* A video stands for its file, its address and its length; a cover or a   *)
(* length is the video it was taken from, or the user's own.  mishaps is no *)
(* state of the page: it records what went wrong, for the properties.      *)
(***************************************************************************)
EXTENDS Integers, Sequences, FiniteSets

CONSTANTS
  Videos, Prefilled,  \* Prefilled: the video the canvas brings along
  Losses,   \* what may fail: \subseteq {"upload", "length", "capture", "lookup", "submit", "answer", "thumb"}
  MaxShows, MaxActs, None

VARIABLES
  shows, published, \* the server's rows and the one already approved (0: none)
  mode, edited,     \* the dialog: "new", "edit", "canvas" or None; the row edited
  existing,         \* the project's row, once it is known (0: none)
  video, duration,  \* addShowForm
  file, preview,    \* the cover to send, the cover on the page
  uploaded, local, phase, uploading, failed, \* the upload of a video
  capturing, submitting, asks, acts,
  mishaps   \* "lookup", "thumb", "answer": that request failed, or its answer was lost;
            \* "capture": no frame could be taken; "other": a frame or a row came to a form
            \* that holds another video by then; "hurry": submitted before all had come;
            \* "typed": an address typed over a chosen file, of which no frame is taken

server == <<shows, published>>
form == <<video, duration>>
cover == <<file, preview>>
upload == <<uploaded, local, phase, uploading, failed>>
vars == <<server, mode, edited, existing, form, cover, upload, capturing, submitting, asks, acts, mishaps>>

Show(v, d, c, p) == [video |-> v, duration |-> d, cover |-> c, project |-> p]
OfProject == {i \in DOMAIN shows : shows[i].project}
Outcomes(loss) == IF loss \in Losses THEN BOOLEAN ELSE {TRUE}
Act == acts < MaxActs /\ acts' = acts + 1
Free == mode # None /\ Act
Noted(found) == mishaps' = mishaps \cup found
AllWell == UNCHANGED mishaps
Mishap(m, when) == IF when THEN {m} ELSE {}

\* A chain of requests: where it stands, what started it, its video, what it carries.
Ask(kind, from, v) == [kind |-> kind, from |-> from, video |-> v, show |-> 0, file |-> None, sends |-> None]
Asks(a) == asks' = asks \cup {a}
Goes(a, b) == asks' = (asks \ {a}) \cup {b}

Init ==
  /\ \E p \in BOOLEAN : shows = <<Show(Prefilled, Prefilled, Prefilled, p)>>
  /\ published \in {0} \cup OfProject
  /\ mode = None /\ edited = 0 /\ existing = 0 /\ video = None /\ duration = None
  /\ file = None /\ preview = None
  /\ uploaded = None /\ local = None /\ phase = "uploading" /\ uploading = FALSE /\ failed = FALSE
  /\ capturing = FALSE /\ submitting = FALSE /\ asks = {} /\ acts = 0 /\ mishaps = {}

-----------------------------------------------------------------------------
(* Opening *)

Blank == file' = None /\ local' = None /\ phase' = "uploading" /\ uploading' = FALSE /\ failed' = FALSE
Filled(s) == video' = s.video /\ duration' = s.duration /\ preview' = s.cover /\ uploaded' = s.video
Opened(m) ==
  /\ mode = None /\ Act /\ mode' = m /\ Blank /\ AllWell
  /\ UNCHANGED <<server, capturing, submitting>>
OpenEdit(i) ==
  /\ Opened("edit") /\ edited' = i /\ Filled(shows[i]) /\ UNCHANGED <<existing, asks>>
\* From the canvas the project's row is asked for.
OpenNew(m) ==
  /\ Opened(m) /\ edited' = 0 /\ existing' = 0 /\ Filled(Show(None, None, None, FALSE))
  /\ IF m = "canvas" THEN Asks(Ask("lookup", "prefill", Prefilled)) ELSE UNCHANGED asks
ApplyPrefillVideo(a) ==
  /\ video' = a.video /\ uploaded' = a.video /\ Goes(a, [a EXCEPT !.kind = "length"])
  /\ UNCHANGED <<existing, duration, preview>>
\* Of several rows the one written last is answered.
LookupTold(a, ok) ==
  /\ a.kind = "lookup" /\ ok \in Outcomes("lookup")
  /\ \/ ok /\ \E i \in OfProject : existing' = i /\ Filled(shows[i]) /\ asks' = asks \ {a}
     \/ ~(ok /\ OfProject # {}) /\ ApplyPrefillVideo(a)
  /\ Noted(Mishap("lookup", ~ok) \cup Mishap("other", <<video, file>> # <<None, None>>))
  /\ UNCHANGED <<server, mode, edited, file, local, phase, uploading, failed, capturing, submitting, acts>>
HandleClose ==
  /\ mode # None /\ Act /\ mode' = None /\ AllWell
  /\ UNCHANGED <<server, edited, existing, form, cover, upload, capturing, submitting, asks>>

-----------------------------------------------------------------------------
(* The video and its cover *)

HandleSelectShowVideo(v) ==
  /\ Free /\ AllWell /\ ~uploading /\ Asks(Ask("upload", "file", v))
  /\ local' = v /\ video' = None /\ uploaded' = None /\ phase' = "uploading" /\ failed' = FALSE
  /\ file' = None /\ uploading' = TRUE
  /\ UNCHANGED <<server, mode, edited, existing, duration, preview, capturing, submitting>>
\* A large file is transcoded, and asked after until it is done.
UploadTold(a, ok) ==
  /\ a.kind = "upload" /\ ok \in Outcomes("upload") /\ AllWell
  /\ \/ ok /\ Goes(a, [a EXCEPT !.kind = "transcode"]) /\ UNCHANGED <<video, upload>>
     \/ ok /\ video' = a.video /\ uploaded' = a.video /\ phase' = "pickCover"
           /\ Goes(a, [a EXCEPT !.kind = "length"]) /\ UNCHANGED <<local, uploading, failed>>
     \/ ~ok /\ failed' = TRUE /\ uploading' = FALSE /\ asks' = asks \ {a}
            /\ UNCHANGED <<video, uploaded, local, phase>>
  /\ UNCHANGED <<server, mode, edited, existing, duration, cover, capturing, submitting, acts>>
TaskTold(a, ok) ==
  /\ a.kind = "transcode" /\ ok \in Outcomes("upload") /\ AllWell
  /\ \/ ok /\ video' = a.video /\ uploaded' = a.video /\ phase' = "pickCover"
           /\ Goes(a, [a EXCEPT !.kind = "length"]) /\ UNCHANGED <<local, uploading, failed>>
     \/ ~ok /\ failed' = TRUE /\ uploading' = FALSE /\ asks' = asks \ {a}
            /\ UNCHANGED <<video, uploaded, local, phase>>
  /\ UNCHANGED <<server, mode, edited, existing, duration, cover, capturing, submitting, acts>>
\* A length that stands stays, except for a prefilled video.
Lasts(a, ok) ==
  IF ~ok THEN duration ELSE IF a.from = "prefill" \/ duration = None THEN a.video ELSE duration
LengthTold(a, ok) ==
  /\ a.kind = "length" /\ ok \in Outcomes("length") /\ AllWell /\ duration' = Lasts(a, ok)
  /\ Goes(a, [a EXCEPT !.kind = "cover"])
  /\ UNCHANGED <<server, mode, edited, existing, video, cover, upload, capturing, submitting, acts>>
\* Mutant: the frame is shown, and not kept to be sent.
CoverPreviewed(a, ok) ==
  /\ a.kind = "cover" /\ ok \in Outcomes("capture") /\ asks' = asks \ {a}
  /\ IF ok THEN preview' = a.video ELSE UNCHANGED preview
  /\ Noted(Mishap("capture", ~ok) \cup Mishap("other", ok /\ a.video # video))
  /\ uploading' = (uploading /\ a.from # "file")
  /\ UNCHANGED <<server, mode, edited, existing, form, file, uploaded, local, phase, failed, capturing, submitting, acts>>
\* The frame the server takes, or the browser from the file; a video from a
\* file counts as uploading until then.
CoverTold(a, ok) ==
  /\ a.kind = "cover" /\ ok \in Outcomes("capture") /\ asks' = asks \ {a}
  /\ IF ok THEN file' = a.video /\ preview' = a.video ELSE UNCHANGED cover
  /\ Noted(Mishap("capture", ~ok) \cup Mishap("other", ok /\ a.video # video))
  /\ uploading' = (uploading /\ a.from # "file")
  /\ UNCHANGED <<server, mode, edited, existing, form, uploaded, local, phase, failed, capturing, submitting, acts>>

ChangeCover ==
  /\ Free /\ AllWell /\ mode = "edit" /\ ~uploading /\ phase # "pickCover" /\ phase' = "pickCover"
  /\ uploaded' = IF uploaded = None THEN video ELSE uploaded
  /\ UNCHANGED <<server, mode, edited, existing, form, cover, local, uploading, failed, capturing, submitting, asks>>
\* The server takes the frame, or the browser from the file that was chosen.
Source == IF uploaded # None THEN uploaded ELSE video
HandleCaptureCover ==
  /\ Free /\ AllWell /\ ~uploading /\ ~capturing /\ phase = "pickCover"
  /\ uploaded # None \/ mode = "edit"
  /\ capturing' = TRUE /\ Asks([Ask("capture", "page", Source) EXCEPT !.file = local])
  /\ UNCHANGED <<server, mode, edited, existing, form, cover, upload, submitting>>
CaptureTold(a, ok) ==
  /\ a.kind = "capture" /\ capturing' = FALSE /\ asks' = asks \ {a}
  /\ \/ /\ ok /\ \E v \in {a.video, a.file} \ {None} :
          /\ v = a.video \/ a.video = None \/ "capture" \in Losses
          /\ file' = v /\ preview' = v /\ phase' = "uploading" /\ Noted(Mishap("other", v # video))
     \/ /\ ~ok /\ ("capture" \in Losses \/ <<a.video, a.file>> = <<None, None>>)
        /\ AllWell /\ UNCHANGED <<cover, phase>>
  /\ UNCHANGED <<server, mode, edited, existing, form, uploaded, local, uploading, failed, submitting, acts>>
HandleSelectShowFile ==
  /\ Free /\ AllWell /\ file' = "own" /\ preview' = "own"
  /\ UNCHANGED <<server, mode, edited, existing, form, upload, capturing, submitting, asks>>
\* An address typed by hand.
HandleVideoUrlBlur(v) ==
  /\ Free /\ ~uploading /\ uploaded = None /\ v # video /\ video' = v
  /\ IF local = None THEN Asks(Ask("length", "url", v)) ELSE UNCHANGED asks
  /\ Noted(Mishap("typed", local # None))
  /\ UNCHANGED <<server, mode, edited, existing, duration, cover, upload, capturing, submitting>>
TypeDuration ==
  /\ Free /\ AllWell /\ duration # "own" /\ duration' = "own"
  /\ UNCHANGED <<server, mode, edited, existing, video, cover, upload, capturing, submitting, asks>>

-----------------------------------------------------------------------------
(* Submitting *)

AlreadyApproved == mode = "canvas" /\ existing # 0 /\ existing = published
\* Mutant: the show of the project is not the one that is updated.
UpdateIdEdited == IF mode = "edit" THEN edited ELSE 0
UpdateId == IF mode = "edit" THEN edited ELSE existing
HandleAddShowSubmit ==
  /\ Free /\ ~submitting /\ ~AlreadyApproved /\ (UpdateId # 0 \/ file # None)
  /\ submitting' = TRUE /\ Len(shows) < MaxShows /\ Noted(Mishap("hurry", asks # {}))
  /\ Asks([Ask("submit", mode, IF UpdateId = 0 \/ uploaded = None THEN video ELSE uploaded)
            EXCEPT !.show = UpdateId, !.file = file, !.sends = duration])
  /\ UNCHANGED <<server, mode, edited, existing, form, cover, upload, capturing>>
Refused(a) == a.from = "canvas" /\ a.show = 0 /\ published # 0
Kept(new, old) == IF new = None THEN old ELSE new
Written(a) ==
  IF a.show = 0 THEN Append(shows, Show(a.video, a.sends, None, a.from = "canvas"))
  ELSE [shows EXCEPT ![a.show].video = Kept(a.video, @), ![a.show].duration = Kept(a.sends, @)]
\* The row is written, then its cover; a row that is refused leaves the dialog as it is.
SubmitTold(a, ok) ==
  /\ a.kind = "submit" /\ ok \in Outcomes("submit") /\ AllWell
  /\ IF ~ok \/ Refused(a)
     THEN submitting' = FALSE /\ asks' = asks \ {a} /\ UNCHANGED <<shows, mode>>
     ELSE /\ shows' = Written(a)
          /\ IF a.file = None THEN asks' = asks \ {a} /\ submitting' = FALSE /\ mode' = None
             ELSE /\ Goes(a, [a EXCEPT !.kind = "thumb", !.show = IF @ = 0 THEN Len(shows) + 1 ELSE @])
                  /\ UNCHANGED <<mode, submitting>>
  /\ UNCHANGED <<published, edited, existing, form, cover, upload, capturing, acts>>
\* Written, and the page does not hear of it.
SubmitUnheard(a) ==
  /\ a.kind = "submit" /\ "answer" \in Losses /\ ~Refused(a) /\ Noted({"answer"})
  /\ shows' = Written(a) /\ submitting' = FALSE /\ asks' = asks \ {a}
  /\ UNCHANGED <<published, mode, edited, existing, form, cover, upload, capturing, acts>>
ThumbTold(a, ok) ==
  /\ a.kind = "thumb" /\ ok \in Outcomes("thumb") /\ asks' = asks \ {a} /\ submitting' = FALSE
  /\ Noted(Mishap("thumb", ~ok))
  /\ IF ok THEN shows' = [shows EXCEPT ![a.show].cover = a.file] /\ mode' = None
     ELSE UNCHANGED <<shows, mode>>
  /\ UNCHANGED <<published, edited, existing, form, cover, upload, capturing, acts>>

Answer == \E a \in asks, ok \in BOOLEAN :
  \/ LookupTold(a, ok) \/ UploadTold(a, ok) \/ TaskTold(a, ok) \/ LengthTold(a, ok)
  \/ CoverTold(a, ok) \/ CaptureTold(a, ok) \/ SubmitTold(a, ok) \/ ThumbTold(a, ok)
  \/ SubmitUnheard(a)
Next ==
  \/ Answer \/ HandleClose \/ ChangeCover \/ HandleCaptureCover \/ HandleSelectShowFile
  \/ TypeDuration \/ HandleAddShowSubmit
  \/ (\E m \in {"new", "canvas"} : OpenNew(m)) \/ (\E i \in DOMAIN shows : OpenEdit(i))
  \/ \E v \in Videos : HandleSelectShowVideo(v) \/ HandleVideoUrlBlur(v)
Spec == Init /\ [][Next]_vars
Fairness == WF_vars(Answer)
FairSpec == Spec /\ Fairness

-----------------------------------------------------------------------------
\* Once a submission is over, a cover that was taken from a video is on show with
\* that video, whatever is uploaded, chosen, closed and opened again in whatever
\* order; unless a frame was not taken, came too late or was not waited for, or
\* the cover was not stored (handleSelectShowVideo, handleAddShowSubmit).
CoverFitsVideo ==
  ~submitting /\ mishaps \cap {"capture", "other", "hurry", "typed", "answer", "thumb"} = {} =>
    \A i \in DOMAIN shows : shows[i].cover \in Videos => shows[i].cover = shows[i].video

\* A length that was read from a video is on show with that video
\* (handleSelectShowVideo).
DurationFits == \A i \in DOMAIN shows : shows[i].duration \in Videos => shows[i].duration = shows[i].video

\* However often its dialog is used, a project has one show; unless it was not
\* known, or not waited for, that there is one (getByProjectId).
OneShowPerProject ==
  mishaps \cap {"lookup", "hurry", "answer", "thumb"} = {} => Cardinality(OfProject) <= 1

\* The buttons that are to come back.
Waits == {w \in {"busy", "capture", "upload"} :
  CASE w = "busy" -> submitting [] w = "capture" -> capturing [] w = "upload" -> uploading}
=============================================================================
