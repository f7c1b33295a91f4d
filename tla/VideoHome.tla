------------------------------- MODULE VideoHome -------------------------------
(***************************************************************************)
(* The public videos on the home page: categories, search and endless      *)
(* scrolling.  From src/web/src/pages/videos/VideoListPage.tsx.            *)
(*                                                                         *)
(* A query is a category and a word.  The list holds the pages that were   *)
(* answered, each with the query it answers.  A request carries the number *)
(* loadSeqRef had, and its answer counts only if it still has it.          *)
(***************************************************************************)
EXTENDS Integers, Sequences

CONSTANTS
  Categories, Words,   \* "" is no word
  Last,                \* the page of a query that is not full
  Habits,              \* "hasty": acts within the 300 ms of the search; "word": changes the category with a word in the box
  Losses,              \* "list": a request fails
  MaxActs

VARIABLES
  category, word,      \* activeCategory, searchKeyword
  list,                \* tvShowVideos, page by page
  loading, loadingMore, hasMore, currentPage,
  seq, asks,           \* loadSeqRef, requests under way
  timer,               \* searchTimerRef: the query it will ask for
  acts

vars == <<category, word, list, loading, loadingMore, hasMore, currentPage, seq, asks, timer, acts>>

Query(c, w) == [category |-> c, word |-> w]
NoTimer == [on |-> FALSE, query |-> Query("all", "")]
Act == acts < MaxActs /\ acts' = acts + 1

\* loadVideos
LoadVideos(q) ==
  /\ seq' = seq + 1 /\ loading' = TRUE /\ currentPage' = 1 /\ hasMore' = TRUE
  /\ asks' = asks \cup {[seq |-> seq + 1, query |-> q, page |-> 1]}
Init ==
  /\ category = "all" /\ word = "" /\ list = <<>>
  /\ loading = TRUE /\ loadingMore = FALSE /\ hasMore = TRUE /\ currentPage = 1
  /\ seq = 1 /\ asks = {[seq |-> 1, query |-> Query("all", ""), page |-> 1]}
  /\ timer = NoTimer /\ acts = 0

\* Mutant: an answer counts whichever request it is to.
AlwaysCurrent(a) == TRUE
Current(a) == a.seq = seq
VideosTold(a) ==
  /\ a \in asks /\ a.page = 1 /\ asks' = asks \ {a}
  /\ IF Current(a)
     THEN list' = <<a>> /\ hasMore' = (Last > 1) /\ loading' = FALSE
     ELSE UNCHANGED <<list, hasMore, loading>>
  /\ UNCHANGED <<category, word, loadingMore, currentPage, seq, timer, acts>>
VideosFail(a) ==
  /\ "list" \in Losses /\ a \in asks /\ a.page = 1 /\ asks' = asks \ {a}
  /\ IF Current(a)
     THEN list' = <<>> /\ hasMore' = FALSE /\ loading' = FALSE
     ELSE UNCHANGED <<list, hasMore, loading>>
  /\ UNCHANGED <<category, word, loadingMore, currentPage, seq, timer, acts>>

\* The sentinel below the list comes into view; it is there only under a list.
LoadMoreVideos ==
  /\ ~loadingMore /\ hasMore /\ ~loading /\ list # <<>>
  /\ loadingMore' = TRUE
  /\ asks' = asks \cup {[seq |-> seq, query |-> Query(category, word), page |-> currentPage + 1]}
  /\ UNCHANGED <<category, word, list, loading, hasMore, currentPage, seq, timer, acts>>
MoreTold(a) ==
  /\ a \in asks /\ a.page > 1 /\ asks' = asks \ {a} /\ loadingMore' = FALSE
  /\ IF Current(a)
     THEN list' = Append(list, a) /\ currentPage' = a.page /\ hasMore' = (a.page < Last)
     ELSE UNCHANGED <<list, currentPage, hasMore>>
  /\ UNCHANGED <<category, word, loading, seq, timer, acts>>
MoreFail(a) ==
  /\ "list" \in Losses /\ a \in asks /\ a.page > 1 /\ asks' = asks \ {a} /\ loadingMore' = FALSE
  /\ hasMore' = (hasMore /\ ~Current(a))
  /\ UNCHANGED <<category, word, list, loading, currentPage, seq, timer, acts>>

\* The category changes at once, its first page is asked for without a word.
HandleCategoryChange(c) ==
  /\ c # category /\ Act /\ ("hasty" \in Habits \/ ~timer.on) /\ ("word" \in Habits \/ word = "")
  /\ category' = c /\ list' = SubSeq(list, 1, IF list = <<>> THEN 0 ELSE 1) /\ LoadVideos(Query(c, ""))
  /\ UNCHANGED <<word, loadingMore, timer>>
\* The timer keeps the category of the moment of typing.
HandleSearchChange(w) ==
  /\ w # word /\ Act /\ word' = w /\ timer' = [on |-> TRUE, query |-> Query(category, w)]
  /\ UNCHANGED <<category, list, loading, loadingMore, hasMore, currentPage, seq, asks>>
SearchTimeout ==
  /\ timer.on /\ timer' = NoTimer /\ LoadVideos(timer.query)
  /\ UNCHANGED <<category, word, list, loadingMore, acts>>
\* The cross in the search box leaves the timer running.
ClearSearch ==
  /\ word # "" /\ Act /\ ("hasty" \in Habits \/ ~timer.on)
  /\ word' = "" /\ LoadVideos(Query(category, ""))
  /\ UNCHANGED <<category, list, loadingMore, timer>>

Answer == \E a \in asks : VideosTold(a) \/ VideosFail(a) \/ MoreTold(a) \/ MoreFail(a)
Next ==
  \/ Answer \/ LoadMoreVideos \/ SearchTimeout \/ ClearSearch
  \/ (\E c \in Categories : HandleCategoryChange(c)) \/ \E w \in Words : HandleSearchChange(w)
Spec == Init /\ [][Next]_vars
Fairness == WF_vars(Answer) /\ WF_vars(SearchTimeout)
FairSpec == Spec /\ Fairness

-----------------------------------------------------------------------------
\* When nothing is on its way the list answers what the page says it shows, and
\* is the first pages of it, each once and in order (loadSeqRef).
Quiet == asks = {} /\ ~timer.on
ListIsAsked ==
  Quiet => \A k \in DOMAIN list : list[k].query = Query(category, word) /\ list[k].page = k
\* The spinner over the list, which is to end.
Waits == {w \in {"list"} : loading}
=============================================================================
