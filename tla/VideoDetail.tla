---------------------------- MODULE VideoDetail ----------------------------
(***************************************************************************)
(* A video on show: its counts, the like of the visitor, and the panel of  *)
(* comments with their replies.  From src/web/src/pages/videos/            *)
(* VideoDetailPage.tsx and components/show/CommentPanel.tsx; the comments  *)
(* are those of comment_service.go.  A request is answered with what was   *)
(* there when it was served.  The panel's count and the page's are kept    *)
(* equal by the panel and are one variable.                                *)
(***************************************************************************)
EXTENDS Integers, Sequences, FiniteSets, SequencesExt

CONSTANTS
  MaxId, PageSize, ReplySize,
  Habits,   \* "hasty": goes on while something is under way
  Losses,   \* a subset of {"detail", "liked", "like", "list", "replies", "post", "delete"}
  MaxActs

Ids == 1 .. MaxId
Nothing == [items |-> <<>>, total |-> 0, page |-> 0, loading |-> FALSE, open |-> FALSE]

VARIABLES
  there, parent, last, liked,  \* the server: comments, the comment replied to (0: none), the newest; the like
  in, loaded, count, likes, isLiked, likeLoading, \* the visitor is signed in; the page
  open, list, total, page, loading, loadingMore,  \* the panel and its comments
  target, posting, replies, \* the comment replied to, the button; the replies shown
  asks, acts

server == <<there, parent, last, liked>>
detail == <<in, loaded, count, likes, isLiked, likeLoading>>
panel == <<open, list, total, page, loading, loadingMore>>
writing == <<target, posting, replies>>
vars == <<server, detail, panel, writing, asks, acts>>

Top(i) == IF parent[i] = 0 THEN i ELSE parent[i]
Under(i) == {r \in there : parent[r] = i}
Entry(i) == [id |-> i, replies |-> Cardinality(Under(i))]
Entries(s) == [k \in DOMAIN s |-> Entry(s[k])]
Slice(s, p, size) == SubSeq(s, (p - 1) * size + 1, IF p * size < Len(s) THEN p * size ELSE Len(s))
Tops == SetToSortSeq({i \in there : parent[i] = 0}, >)
Likes == IF liked THEN 1 ELSE 0
Act == acts < MaxActs /\ acts' = acts + 1
Free == loaded /\ (asks = {} \/ "hasty" \in Habits) /\ Act

Ask(kind, of, p) == [kind |-> kind, of |-> of, page |-> p, know |-> 0, served |-> FALSE,
                     items |-> <<>>, total |-> 0, likes |-> 0]
Asks(s) == asks' = asks \cup s
LoadDetail(signed) == {Ask("detail", 0, 0)} \cup (IF signed THEN {Ask("liked", 0, 0)} ELSE {})

Init ==
  /\ there \in {{1, 2, 3}, {1, 2, 3, 4}} /\ parent = [i \in Ids |-> IF i = 3 THEN 1 ELSE 0]
  /\ last = Cardinality(there) /\ liked \in BOOLEAN
  /\ in \in BOOLEAN /\ loaded = FALSE /\ count = 0 /\ likes = 0 /\ isLiked = FALSE /\ likeLoading = FALSE
  /\ open = FALSE /\ list = <<>> /\ total = 0 /\ page = 1 /\ loading = FALSE /\ loadingMore = FALSE
  /\ target = 0 /\ posting = FALSE /\ replies = [i \in Ids |-> Nothing]
  /\ asks = LoadDetail(in) /\ acts = 0

-----------------------------------------------------------------------------
(* The server *)

Serves(a, b) == asks' = (asks \ {a}) \cup {[b EXCEPT !.served = TRUE]}
Read(a) ==
  /\ Serves(a, CASE a.kind = "detail"  -> [a EXCEPT !.total = Cardinality(there), !.likes = Likes]
                 [] a.kind = "liked"   -> [a EXCEPT !.likes = Likes]
                 [] a.kind = "list"    -> [a EXCEPT !.total = Len(Tops),
                       !.items = Entries(Slice(Tops, a.page, PageSize))]
                 [] a.kind = "replies" -> [a EXCEPT !.total = Cardinality(Under(a.of)),
                       !.items = Entries(Slice(SetToSortSeq(Under(a.of), <), a.page, ReplySize))])
  /\ UNCHANGED server
WriteLike(a) ==
  /\ liked' = (a.kind = "like") /\ Serves(a, [a EXCEPT !.likes = IF a.kind = "like" THEN 1 ELSE 0])
  /\ UNCHANGED <<there, parent, last>>
\* A reply to a reply goes under the comment of both.
WriteComment(a) ==
  /\ last < MaxId /\ last' = last + 1 /\ there' = there \cup {last + 1}
  /\ parent' = [parent EXCEPT ![last + 1] = IF a.of = 0 THEN 0 ELSE Top(a.of)]
  /\ Serves(a, [a EXCEPT !.items = <<[id |-> last + 1, replies |-> 0]>>]) /\ UNCHANGED liked
DeleteComment(a) ==
  /\ there' = there \ ({a.of} \cup Under(a.of)) /\ Serves(a, a) /\ UNCHANGED <<parent, last, liked>>
Serve(a) ==
  /\ ~a.served
  /\ \/ a.kind \in {"detail", "liked", "list"} /\ Read(a)
     \/ a.kind = "replies" /\ a.of \in there /\ Read(a)
     \/ a.kind \in {"like", "unlike"} /\ WriteLike(a)
     \/ a.kind = "post" /\ a.of \in there \cup {0} /\ WriteComment(a)
     \/ a.kind = "delete" /\ a.of \in there /\ DeleteComment(a)
  /\ UNCHANGED <<detail, panel, writing, acts>>

-----------------------------------------------------------------------------
(* The page *)

Told(a, kind) == a.served /\ a.kind = kind /\ asks' = asks \ {a}
DetailTold(a) ==
  /\ Told(a, "detail") /\ loaded' = TRUE /\ count' = a.total /\ likes' = a.likes
  /\ UNCHANGED <<server, in, isLiked, likeLoading, panel, writing, acts>>
LikedTold(a) ==
  /\ Told(a, "liked") /\ isLiked' = (a.likes = 1)
  /\ UNCHANGED <<server, in, loaded, count, likes, likeLoading, panel, writing, acts>>
HandleLike ==
  /\ Free /\ in /\ ~likeLoading /\ likeLoading' = TRUE
  /\ Asks({Ask(IF isLiked THEN "unlike" ELSE "like", 0, 0)})
  /\ UNCHANGED <<server, in, loaded, count, likes, isLiked, panel, writing>>
LikeTold(a) ==
  /\ \E kind \in {"like", "unlike"} : Told(a, kind) /\ isLiked' = (kind = "like")
  /\ likes' = a.likes /\ likeLoading' = FALSE
  /\ UNCHANGED <<server, in, loaded, count, panel, writing, acts>>
\* Signing in loads the page again.
Login ==
  /\ loaded /\ ~in /\ Act /\ in' = TRUE /\ Asks(LoadDetail(TRUE))
  /\ UNCHANGED <<server, loaded, count, likes, isLiked, likeLoading, panel, writing>>

-----------------------------------------------------------------------------
(* The panel *)

Load(p) == Asks({Ask("list", 0, p)})
Toggle ==
  /\ Free /\ open' = ~open
  /\ IF open THEN UNCHANGED <<asks, loading>> ELSE Load(1) /\ loading' = TRUE
  /\ UNCHANGED <<server, detail, list, total, page, loadingMore, writing>>
LoadMore ==
  /\ Free /\ open /\ ~loading /\ ~loadingMore /\ list # <<>> /\ Len(list) < total
  /\ loadingMore' = TRUE /\ Load(page + 1)
  /\ UNCHANGED <<server, detail, open, list, total, page, loading, writing>>
ListTold(a) ==
  /\ Told(a, "list") /\ total' = a.total /\ page' = a.page
  /\ list' = IF a.page = 1 THEN a.items ELSE list \o a.items
  /\ loading' = FALSE /\ loadingMore' = FALSE
  /\ UNCHANGED <<server, detail, open, writing, acts>>

Shown(c) == open /\ ~loading /\ \E k \in DOMAIN list : list[k] = c
ToggleReplies(c, p) ==
  /\ Free /\ Shown(c) /\ c.replies > 0
  /\ LET e == replies[c.id] IN
       \/ p = 1 /\ e.open /\ replies' = [replies EXCEPT ![c.id].open = FALSE] /\ UNCHANGED asks
       \/ /\ IF p = 1 THEN ~e.open ELSE e.open /\ ~e.loading /\ Len(e.items) < e.total /\ p = e.page + 1
          /\ replies' = [replies EXCEPT ![c.id].open = TRUE, ![c.id].loading = TRUE]
          /\ Asks({Ask("replies", c.id, p)})
  /\ UNCHANGED <<server, detail, panel, target, posting>>
RepliesTold(a) ==
  /\ Told(a, "replies")
  /\ replies' = [replies EXCEPT ![a.of] =
       [items |-> IF a.page = 1 THEN a.items ELSE @.items \o a.items,
        total |-> a.total, page |-> a.page, loading |-> FALSE, open |-> TRUE]]
  /\ UNCHANGED <<server, detail, panel, target, posting, acts>>

\* What can be replied to or deleted: a comment listed, or a reply that is open.
Visible == {list[k].id : k \in DOMAIN list}
             \cup UNION {{e.id : e \in ToSet(replies[list[k].id].items)} : k \in {j \in DOMAIN list :
                            replies[list[j].id].open /\ ~replies[list[j].id].loading}}
HandleReplyClick(i) ==
  /\ Free /\ in /\ open /\ ~loading /\ i \in Visible /\ target' = i
  /\ UNCHANGED <<server, detail, panel, posting, replies, asks>>
HandlePost ==
  /\ Free /\ in /\ open /\ last + Cardinality({a \in asks : a.kind = "post"}) < MaxId
  /\ posting' = TRUE /\ Asks({Ask("post", target, acts)})
  /\ UNCHANGED <<server, detail, panel, target, replies>>
Counted(i, d) == [k \in DOMAIN list |-> IF list[k].id = i
                    THEN [list[k] EXCEPT !.replies = IF @ + d < 0 THEN 0 ELSE @ + d] ELSE list[k]]
Bump(d) == count' = IF count + d < 0 THEN 0 ELSE count + d
PostTold(a) ==
  /\ Told(a, "post") /\ posting' = FALSE /\ Bump(1)
  /\ IF a.of = 0 THEN list' = a.items \o list /\ total' = total + 1 /\ UNCHANGED <<target, replies>>
     ELSE /\ list' = Counted(Top(a.of), 1) /\ target' = 0 /\ UNCHANGED total
          /\ replies' = [replies EXCEPT ![Top(a.of)] = IF ~@.open THEN @
                           ELSE [@ EXCEPT !.items = @ \o a.items, !.total = @ + 1]]
  /\ UNCHANGED <<server, in, loaded, likes, isLiked, likeLoading, open, page, loading, loadingMore, acts>>
\* The replies that go with a comment are counted when the button is pressed.
Known(i) == IF \E k \in DOMAIN list : list[k].id = i
            THEN list[CHOOSE k \in DOMAIN list : list[k].id = i].replies ELSE 0
HandleDelete(i) ==
  /\ Free /\ in /\ open /\ ~loading /\ i \in Visible /\ ~\E a \in asks : a.kind = "delete" /\ a.of = i
  /\ Asks({[Ask("delete", i, 0) EXCEPT !.know = Known(i)]})
  /\ UNCHANGED <<server, detail, panel, writing>>
DeleteTold(a) ==
  /\ Told(a, "delete")
  /\ IF Top(a.of) # a.of
     THEN /\ list' = Counted(Top(a.of), -1) /\ Bump(-1) /\ UNCHANGED total
          /\ replies' = [replies EXCEPT ![Top(a.of)] = IF @ = Nothing THEN @ ELSE
                [@ EXCEPT !.items = SelectSeq(@, LAMBDA r : r.id # a.of), !.total = IF @ = 0 THEN 0 ELSE @ - 1]]
     ELSE /\ list' = SelectSeq(list, LAMBDA e : e.id # a.of) /\ Bump(-(1 + a.know))
          /\ replies' = [replies EXCEPT ![a.of] = Nothing]
          /\ total' = IF total = 0 THEN 0 ELSE total - 1
  /\ UNCHANGED <<server, in, loaded, likes, isLiked, likeLoading, open, page, loading, loadingMore,
                 target, posting, acts>>

\* A request that fails only gives its button back.
Gone(a) == a.kind \in {"replies", "post", "delete"} /\ a.of \notin there \cup {0}
Lost(a) == (IF a.kind = "unlike" THEN "like" ELSE a.kind) \in Losses
AskFails(a) ==
  /\ ~a.served /\ (Gone(a) \/ Lost(a)) /\ asks' = asks \ {a}
  /\ likeLoading' = (likeLoading /\ a.kind \notin {"like", "unlike"})
  /\ loading' = (loading /\ a.kind # "list") /\ loadingMore' = (loadingMore /\ a.kind # "list")
  /\ posting' = (posting /\ a.kind # "post")
  /\ replies' = IF a.kind = "replies" THEN [replies EXCEPT ![a.of].loading = FALSE] ELSE replies
  /\ UNCHANGED <<server, in, loaded, count, likes, isLiked, open, list, total, page, target, acts>>

Answer == \E a \in asks :
  \/ Serve(a) \/ DetailTold(a) \/ LikedTold(a) \/ LikeTold(a) \/ ListTold(a) \/ RepliesTold(a)
  \/ PostTold(a) \/ DeleteTold(a) \/ AskFails(a)
Next ==
  \/ Answer \/ HandleLike \/ Login \/ Toggle \/ LoadMore \/ HandlePost
  \/ (\E k \in DOMAIN list, p \in 1 .. MaxId : ToggleReplies(list[k], p))
  \/ \E i \in Ids : HandleReplyClick(i) \/ HandleDelete(i)
Spec == Init /\ [][Next]_vars
Fairness == WF_vars(Answer)
FairSpec == Spec /\ Fairness

-----------------------------------------------------------------------------
Quiet == asks = {} /\ loaded
\* When nothing is on its way the counts on the page are the server's: of all
\* comments, and of the replies to each (bumpAllCount, handleDelete).
CountsAgree ==
  Quiet => /\ count = Cardinality(there)
           /\ open => \A k \in DOMAIN list : list[k].id \in there => list[k] = Entry(list[k].id)

\* So are the heart and its number (handleLike, checkLiked).
LikeAgrees == Quiet /\ in => isLiked = liked /\ likes = Likes

\* No comment is listed twice (load).
NoneTwice == IsInjective([k \in DOMAIN list |-> list[k].id])

\* The buttons that are to come back and the lists that are to come.
Waits == {w \in {"like", "busy", "list", "more", "replies"} :
  CASE w = "like" -> likeLoading [] w = "busy" -> posting [] w = "list" -> loading
    [] w = "more" -> loadingMore [] w = "replies" -> \E i \in Ids : replies[i].loading}
=============================================================================
