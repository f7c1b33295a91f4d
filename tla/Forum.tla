------------------------------- MODULE Forum -------------------------------
(***************************************************************************)
(* A forum post: its page with the replies, the reply box and the editing  *)
(* dialog, and the server that keeps the rows and a directory of media for *)
(* every post and reply.  From src/web/src/pages/forum/ForumPostPage.tsx,  *)
(* components/forum/RichTextEditor.tsx, utils/contentId.ts and             *)
(* src/server/internal/service/forum_service.go.  A text is the set of the *)
(* marks in it: words, and media in the directory of the post (0) or of a  *)
(* reply (its number).  An editor shows its own text (box), and tells it   *)
(* the page (draft) when it changes or gets the focus.                     *)
(***************************************************************************)
EXTENDS Integers, FiniteSets

CONSTANTS
  MaxReply,  \* the last number of a reply
  MaxMarks,  \* marks made in all
  Habits,    \* "quick": acts while an answer is due; "draft": leaves a half-written reply; "elsewhere": others act
  Losses,    \* a subset of {"reply", "update", "load", "upload"}
  MaxActs

Post == 0
Word == -1
Dirs == Post .. MaxReply
Marks == [of : {Word} \cup Dirs, n : 1 .. MaxMarks]
Media(marks) == {m \in marks : m.of # Word}
In(dir, marks) == {m \in marks : m.of = dir}

VARIABLES
  there, content, replies, files, posted, \* the post's row, its replies' rows, the storage, the numbers written
  works,                                  \* the server's requests under way
  loading, gone, text, list, loads,       \* the page
  number, draft, box, busy,               \* the reply box
  editing, edited, editBox, saving,       \* the editing dialog
  uploads, mounts, used, made, acts

server == <<there, content, replies, files, posted>>
page == <<loading, gone, text, list, loads>>
reply == <<number, draft, box, busy>>
dialog == <<editing, edited, editBox, saving>>
rest == <<uploads, mounts, used, made>>
vars == <<server, works, page, reply, dialog, rest, acts>>

Row(n, marks) == [n |-> n, marks |-> marks]
Init ==
  /\ there = TRUE /\ made = 1 /\ content = {[of |-> Post, n |-> 1]} /\ files = content
  /\ replies = {} /\ posted = {} /\ works = {}
  /\ loading = TRUE /\ gone = FALSE /\ text = {} /\ list = {} /\ loads = {[n |-> 0, at |-> "post", ends |-> "none"]}
  /\ number = 1 /\ draft = {} /\ box = {} /\ busy = FALSE /\ used = 1
  /\ editing = FALSE /\ edited = {} /\ editBox = {} /\ saving = FALSE
  /\ uploads = {} /\ mounts = 0 /\ acts = 0

Act == acts < MaxActs /\ acts' = acts + 1
Visible == ~loading /\ ~gone
Quiet == "quick" \in Habits \/ (~busy /\ works = {} /\ loads = {} /\ uploads = {})
\* The page can be used: no dialog is over it.
Free == Visible /\ ~editing /\ Quiet
Settled == "draft" \in Habits \/ draft = {}
\* isRichTextEmpty: a picture is a text, too.
NewMark(dir) == [of |-> dir, n |-> made + 1]

-----------------------------------------------------------------------------
(* Loading.  While it lasts the page shows nothing else, so the editors are unmounted. *)

Load(ends) == loading' = TRUE /\ loads' = loads \cup {[n |-> acts + 1, at |-> "post", ends |-> ends]}
PostTold(l) ==
  /\ l \in loads /\ l.at = "post" /\ there
  /\ text' = content /\ gone' = FALSE /\ loads' = (loads \ {l}) \cup {[l EXCEPT !.at = "list"]}
  /\ UNCHANGED <<server, works, loading, list, reply, dialog, rest, acts>>
\* The end of load(): what was unmounted starts again, the reply box empty, the dialog with the post's text.
Ended(l) ==
  /\ loads' = loads \ {l} /\ loading' = FALSE
  /\ busy' = (busy /\ l.ends # "reply") /\ saving' = (saving /\ l.ends # "edit")
Remounted ==
  IF loading THEN box' = {} /\ editBox' = (IF editing THEN text ELSE {}) /\ mounts' = mounts + 1
             ELSE UNCHANGED <<box, editBox, mounts>>
ListTold(l) ==
  /\ l \in loads /\ l.at = "list" /\ list' = replies /\ Ended(l) /\ Remounted
  /\ UNCHANGED <<server, works, gone, text, number, draft, editing, edited, uploads, used, made, acts>>
LoadFails(l) ==
  /\ l \in loads /\ (("load" \in Losses) \/ (l.at = "post" /\ ~there))
  /\ Ended(l) /\ text' = {} /\ gone' = TRUE
  /\ UNCHANGED <<server, works, list, number, draft, box, editing, edited, editBox, rest, acts>>

-----------------------------------------------------------------------------
(* The editors *)

TypeReply ==
  /\ Free /\ made < MaxMarks /\ Act
  /\ box' = box \cup {NewMark(Word)} /\ draft' = box' /\ made' = made + 1
  /\ UNCHANGED <<server, works, page, number, busy, dialog, uploads, mounts, used>>
FocusReply ==
  /\ Free /\ draft # box /\ draft' = box
  /\ UNCHANGED <<server, works, page, number, box, busy, dialog, rest, acts>>
TypeEdit(drop) ==
  /\ Visible /\ editing /\ Act
  /\ IF drop THEN /\ \E m \in editBox : editBox' = editBox \ {m}
                  /\ UNCHANGED made
             ELSE made < MaxMarks /\ made' = made + 1 /\ editBox' = editBox \cup {NewMark(Word)}
  /\ edited' = editBox'
  /\ UNCHANGED <<server, works, page, reply, editing, saving, uploads, mounts, used>>
UploadForum ==
  /\ Visible /\ Quiet /\ made < MaxMarks /\ Act /\ made' = made + 1
  /\ uploads' = uploads \cup {[mark |-> NewMark(IF editing THEN Post ELSE number), mount |-> mounts, stored |-> FALSE]}
  /\ UNCHANGED <<server, works, page, reply, dialog, mounts, used>>
UploadStored(u) ==
  /\ u \in uploads /\ ~u.stored /\ files' = files \cup {u.mark}
  /\ uploads' = (uploads \ {u}) \cup {[u EXCEPT !.stored = TRUE]}
  /\ UNCHANGED <<there, content, replies, posted, works, page, reply, dialog, mounts, used, made, acts>>
\* customInsert, in the editor that sent it, if it is still there.
UploadTold(u) ==
  /\ u \in uploads /\ u.stored /\ uploads' = uploads \ {u}
  /\ IF ~Visible \/ u.mount # mounts THEN UNCHANGED <<draft, box, edited, editBox>>
     ELSE IF u.mark.of # Post THEN /\ box' = box \cup {u.mark} /\ draft' = box'
                                   /\ UNCHANGED <<edited, editBox>>
     ELSE /\ editBox' = editBox \cup {u.mark} /\ edited' = editBox'
          /\ UNCHANGED <<draft, box>>
  /\ UNCHANGED <<server, works, page, number, busy, editing, saving, mounts, used, made, acts>>
UploadFails(u) ==
  /\ u \in uploads /\ "upload" \in Losses /\ uploads' = uploads \ {u}
  /\ UNCHANGED <<server, works, page, reply, dialog, mounts, used, made, acts>>

-----------------------------------------------------------------------------
(* The page's requests *)

Ask(w) == works' = works \cup {w}
Work(op, n, marks, mine) == [op |-> op, at |-> "find", n |-> n, marks |-> marks, found |-> {}, mine |-> mine]
HandleReply ==
  /\ Free /\ ~busy /\ draft # {} /\ used < MaxReply /\ Act /\ busy' = TRUE /\ Ask(Work("reply", number, draft, TRUE))
  /\ UNCHANGED <<server, page, number, draft, box, dialog, rest>>
HandleDeleteReply(r) ==
  /\ Free /\ r \in list /\ Settled /\ Act /\ Ask(Work("unreply", r.n, {}, TRUE))
  /\ UNCHANGED <<server, page, reply, dialog, rest>>
HandleTogglePin ==
  /\ Free /\ Settled /\ there /\ Act /\ Load("none")
  /\ UNCHANGED <<server, works, gone, text, list, reply, dialog, rest>>
HandleDeletePost ==
  /\ Free /\ Act /\ Ask(Work("delete", Post, {}, TRUE))
  /\ UNCHANGED <<server, page, reply, dialog, rest>>
OpenEdit ==
  /\ Free /\ Settled /\ Act /\ editing' = TRUE /\ edited' = text /\ editBox' = text /\ mounts' = mounts + 1
  /\ UNCHANGED <<server, works, page, reply, saving, uploads, used, made>>
CloseEdit ==
  /\ Visible /\ editing /\ ~saving /\ editing' = FALSE /\ mounts' = mounts + 1
  /\ UNCHANGED <<server, works, page, reply, edited, editBox, saving, uploads, used, made, acts>>
HandleSaveEdit ==
  /\ Visible /\ editing /\ ~saving /\ edited # {} /\ Quiet /\ Act /\ saving' = TRUE
  /\ Ask(Work("update", Post, edited, TRUE))
  /\ UNCHANGED <<server, page, reply, editing, edited, editBox, rest>>

\* Another reader replies with a picture; another editor saves what is there less a mark; or deletes the post.
Elsewhere ==
  /\ "elsewhere" \in Habits /\ Act
  /\ \/ /\ used + 1 < MaxReply /\ made < MaxMarks /\ used' = used + 1 /\ made' = made + 1
        /\ files' = files \cup {NewMark(used + 1)}
        /\ Ask(Work("reply", used + 1, {NewMark(used + 1)}, FALSE))
     \/ /\ \E m \in content : Ask(Work("update", Post, (content \ {m}) \cup {[of |-> Word, n |-> 1]}, FALSE))
        /\ UNCHANGED <<files, used, made>>
     \/ Ask(Work("delete", Post, {}, FALSE)) /\ UNCHANGED <<files, used, made>>
  /\ UNCHANGED <<there, content, replies, posted, page, reply, dialog, uploads, mounts>>

-----------------------------------------------------------------------------
(* The service *)

To(w, at) == works' = (works \ {w}) \cup {[w EXCEPT !.at = at]}
Find(w) ==
  /\ w \in works /\ w.at = "find"
  /\ IF (w.op = "unreply" /\ \E r \in replies : r.n = w.n) \/ (w.op # "unreply" /\ there)
     THEN works' = (works \ {w}) \cup {[w EXCEPT !.at = "write", !.found = IF w.op = "delete" THEN replies ELSE {}]}
     ELSE To(w, "refused")
  /\ UNCHANGED <<server, page, reply, dialog, rest, acts>>
\* FindReplyByID: a reply sent again is refused.
CreateReply(w) ==
  /\ w \in works /\ w.op = "reply" /\ w.at = "write"
  /\ IF \E r \in replies : r.n = w.n THEN To(w, "refused") /\ UNCHANGED <<replies, posted>>
     ELSE replies' = replies \cup {Row(w.n, w.marks)} /\ posted' = posted \cup {w.n} /\ To(w, "done")
  /\ UNCHANGED <<there, content, files, page, reply, dialog, rest, acts>>
UpdatePost(w) ==
  /\ w \in works /\ w.op = "update" /\ w.at = "write" /\ To(w, "clean")
  /\ content' = IF there THEN w.marks ELSE content
  /\ UNCHANGED <<there, replies, files, posted, page, reply, dialog, rest, acts>>
\* What is in the directory and not in the new text is deleted.
CleanupContentMedia(w) == In(Post, files) \ w.marks
Clean(w) ==
  /\ w \in works /\ w.op = "update" /\ w.at = "clean" /\ To(w, "done")
  /\ files' = files \ CleanupContentMedia(w)
  /\ UNCHANGED <<there, content, replies, posted, page, reply, dialog, rest, acts>>
DeleteReplyRows(w) ==
  /\ w \in works /\ w.op = "delete" /\ w.at = "write" /\ To(w, "post") /\ replies' = {}
  /\ UNCHANGED <<there, content, files, posted, page, reply, dialog, rest, acts>>
DeletePostRow(w) ==
  /\ w \in works /\ w.op = "delete" /\ w.at = "post" /\ To(w, "prefixes") /\ there' = FALSE /\ content' = {}
  /\ UNCHANGED <<replies, files, posted, page, reply, dialog, rest, acts>>
MediaOf(w) == {Post} \cup {r.n : r \in w.found}
DeleteMediaPrefix(w) ==
  /\ w \in works /\ w.op = "delete" /\ w.at = "prefixes" /\ To(w, "done")
  /\ files' = {m \in files : m.of \notin MediaOf(w)}
  /\ UNCHANGED <<there, content, replies, posted, page, reply, dialog, rest, acts>>
DeleteReply(w) ==
  /\ w \in works /\ w.op = "unreply" /\ w.at = "write" /\ To(w, "prefix")
  /\ replies' = {r \in replies : r.n # w.n}
  /\ UNCHANGED <<there, content, files, posted, page, reply, dialog, rest, acts>>
DeleteReplyMedia(w) ==
  /\ w \in works /\ w.op = "unreply" /\ w.at = "prefix" /\ To(w, "done") /\ files' = {m \in files : m.of # w.n}
  /\ UNCHANGED <<there, content, replies, posted, page, reply, dialog, rest, acts>>

Over(w) == w \in works /\ works' = works \ {w}
Lost(w) == w.op \in Losses
ElsewhereTold(w) ==
  /\ Over(w) /\ ~w.mine /\ w.at \in {"done", "refused"}
  /\ UNCHANGED <<server, page, reply, dialog, rest, acts>>
\* A reply's number is given once, and the box starts again.
ReplyTold(w) ==
  /\ Over(w) /\ w.mine /\ w.op = "reply" /\ w.at = "done"
  /\ number' = used + 1 /\ used' = used + 1 /\ draft' = {} /\ box' = {} /\ mounts' = mounts + 1 /\ Load("reply")
  /\ UNCHANGED <<server, gone, text, list, busy, dialog, uploads, made, acts>>
ReplyFails(w) ==
  /\ Over(w) /\ w.mine /\ w.op = "reply" /\ (w.at = "refused" \/ (w.at = "done" /\ Lost(w))) /\ busy' = FALSE
  /\ UNCHANGED <<server, page, number, draft, box, dialog, rest, acts>>
UpdateTold(w) ==
  /\ Over(w) /\ w.mine /\ w.op = "update" /\ w.at = "done"
  /\ editing' = FALSE /\ mounts' = mounts + 1 /\ Load("edit")
  /\ UNCHANGED <<server, gone, text, list, reply, edited, editBox, saving, uploads, used, made, acts>>
UpdateFails(w) ==
  /\ Over(w) /\ w.mine /\ w.op = "update" /\ (w.at = "refused" \/ (w.at = "done" /\ Lost(w))) /\ saving' = FALSE
  /\ UNCHANGED <<server, page, reply, editing, edited, editBox, rest, acts>>
UnreplyTold(w) ==
  /\ Over(w) /\ w.mine /\ w.op = "unreply" /\ w.at \in {"done", "refused"}
  /\ IF w.at = "done" THEN Load("none") ELSE UNCHANGED <<loading, loads>>
  /\ UNCHANGED <<server, gone, text, list, reply, dialog, rest, acts>>
\* The page is left for the list.
DeleteTold(w) ==
  /\ Over(w) /\ w.mine /\ w.op = "delete" /\ w.at \in {"done", "refused"} /\ gone' = (gone \/ w.at = "done")
  /\ UNCHANGED <<server, loading, text, list, loads, reply, dialog, rest, acts>>

Serve(w) ==
  \/ Find(w) \/ CreateReply(w) \/ UpdatePost(w) \/ Clean(w) \/ DeleteReplyRows(w) \/ DeletePostRow(w)
  \/ DeleteMediaPrefix(w) \/ DeleteReply(w) \/ DeleteReplyMedia(w)
Answer(w) ==
  \/ ElsewhereTold(w) \/ ReplyTold(w) \/ ReplyFails(w) \/ UpdateTold(w) \/ UpdateFails(w) \/ UnreplyTold(w) \/ DeleteTold(w)
Respond ==
  \/ (\E w \in works : Serve(w) \/ Answer(w))
  \/ (\E l \in loads : PostTold(l) \/ ListTold(l) \/ LoadFails(l))
  \/ \E u \in uploads : UploadStored(u) \/ UploadTold(u) \/ UploadFails(u)
Next ==
  \/ Respond \/ TypeReply \/ FocusReply \/ UploadForum
  \/ HandleReply \/ HandleTogglePin \/ HandleDeletePost \/ OpenEdit \/ CloseEdit \/ HandleSaveEdit \/ Elsewhere
  \/ (\E drop \in BOOLEAN : TypeEdit(drop)) \/ \E r \in list : HandleDeleteReply(r)
Spec == Init /\ [][Next]_vars
Fairness == WF_vars(Respond)
FairSpec == Spec /\ Fairness

-----------------------------------------------------------------------------
\* Once a post is deleted nothing of it stays: no reply, and no media of the
\* post or of a reply that was written (newContentId, DeletePost).
NothingStays ==
  ~there /\ works = {} /\ uploads = {} =>
    /\ replies = {}
    /\ \A m \in files : m.of # Post /\ m.of \notin posted

\* What is published shows media that are stored (cleanupContentMedia).
MediaAreStored ==
  works = {} => /\ Media(content) \subseteq files
                /\ \A r \in replies : Media(r.marks) \subseteq files

\* What an editor shows is what the page would send (RichTextEditor).
DraftIsShown == Visible => draft = box /\ (editing => edited = editBox)

\* The page that is to come and the buttons that are to come back.
Waits == {w \in {"list", "busy", "save"} :
  CASE w = "list" -> loading [] w = "busy" -> busy [] w = "save" -> saving}
=============================================================================
