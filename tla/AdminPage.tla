-------------------------------- MODULE AdminPage --------------------------------
(***************************************************************************)
(* The tabs of the back office that keep lists: users, and the two         *)
(* galleries (shows and styles) with their categories; the review of shows *)
(* that wait; the banner dialog.  From src/web/src/pages/admin/            *)
(* AdminPage.tsx, with the server's side of a review from                  *)
(* src/server/internal/service/show_service.go.                            *)
(*                                                                         *)
(* The lists are loaded by effects, by clicks, and by a listener that runs *)
(* when the page becomes visible again.  The listener works with the tab,  *)
(* the categories and the filter of the rendering that registered it.      *)
(***************************************************************************)
EXTENDS Integers, FiniteSets, FiniteSetsExt

CONSTANTS
  MaxCats,   \* bound: categories of a gallery, oldest first
  Filters,   \* keyword, role and channel of the users
  Banners, Fresh, Videos,   \* Fresh: the banners still to be made
  Habits,    \* "close": leaves the banner dialog during an upload; "early": submits during one
  MaxActs, None

Galleries == {"shows", "styles"}
Tabs == Galleries \cup {"users", "banners"}

VARIABLES
  tab, filter,
  at,         \* activeShowCategory, activeCategory
  heard,      \* what the visibility listener remembers
  cats, known, \* the categories, at the server and on the page
  unheard,    \* no state of the page: the categories of which it missed that they went
  list,       \* the request whose answer each tab shows; what it asked for
  newest,     \* the number of the last request for the rows of a tab
  busy,       \* showsLoading, loading, userLoading
  asks, sent, \* requests under way, and how many there were
  run,        \* the visit of a tab the first load belongs to
  status, seen, reviewing, \* shows under review: at the server, in the list, in hand
  dialog, uploading, uploads, picture, \* the banner dialog; whose file each banner has
  acts

gallery == <<at, cats, known, unheard>>
rows == <<list, newest>>
lists == <<tab, filter, gallery, heard, rows, busy, asks, sent, run>>
review == <<status, seen, reviewing>>
banner == <<dialog, uploading, uploads, picture>>
vars == <<lists, review, banner, acts>>

Act == acts < MaxActs /\ acts' = acts + 1
FirstOf(cs) == IF cs = {} THEN None ELSE Min(cs)
Closure(t, a, f) == [tab |-> t, at |-> a, filter |-> f]

\* load, and the spinner.  old: asked with what an earlier rendering held.
Ask(kind, g, what) == [kind |-> kind, tab |-> g, what |-> what, run |-> run, n |-> sent + 1, old |-> FALSE]
Nothing == [kind |-> "list", tab |-> tab, what |-> None, run |-> 0, n |-> 0, old |-> FALSE]
Sends(news) == asks' = asks \cup news /\ sent' = sent + 1
Spin(g, on) == busy' = [busy EXCEPT ![g] = on]
SendsList(a, others) ==
  Sends({a} \cup others) /\ Spin(a.tab, TRUE) /\ newest' = [newest EXCEPT ![a.tab] = a.n]
LoadShows(g, c) == SendsList(Ask("list", g, c), {})
LoadUsers(f) == SendsList(Ask("list", "users", f), {})
NoLoad == UNCHANGED <<asks, sent, busy, newest>>

\* The listener is registered again when one of its dependencies changes; the
\* category of the shows is not among them.
Rendered ==
  heard' = IF <<tab', at'["styles"], filter'>> # <<tab, at["styles"], filter>>
           THEN Closure(tab', at', filter') ELSE heard

Nobody == [on |-> FALSE, for |-> None, file |-> FALSE, url |-> None, adding |-> FALSE]
Init ==
  /\ tab = "banners" /\ filter \in Filters /\ at = [g \in Galleries |-> None]
  /\ heard = Closure("banners", at, filter) /\ cats = [g \in Galleries |-> 1 .. 2]
  /\ known = [g \in Galleries |-> {}] /\ unheard = {} /\ newest = [t \in Tabs |-> 0]
  /\ list = [t \in Tabs |-> Nothing] /\ busy = [t \in Tabs |-> FALSE]
  /\ asks = {} /\ sent = 0 /\ run = 0
  /\ status = [v \in Videos |-> "pending"] /\ seen = [v \in Videos |-> "none"] /\ reviewing = None
  /\ dialog = Nobody /\ uploading = FALSE /\ uploads = {}
  /\ picture = [b \in Banners |-> IF b \in Fresh THEN "unmade" ELSE b]
  /\ acts = 0

-----------------------------------------------------------------------------
(* The tabs and their lists *)

\* Two effects: a gallery asks for its categories, and for the rows of the
\* category it had; the visit before is cancelled.
Navigate(t) ==
  /\ t # tab /\ Act /\ tab' = t /\ run' = run + 1
  /\ \/ /\ t \in Galleries
        /\ LET chain == {[Ask("cats", t, None) EXCEPT !.run = run + 1]} IN
             IF at[t] = None THEN Sends(chain) /\ Spin(t, TRUE) /\ UNCHANGED newest
             ELSE SendsList(Ask("list", t, at[t]), chain)
     \/ t = "users" /\ LoadUsers(filter)
     \/ t = "banners" /\ NoLoad
  /\ UNCHANGED <<filter, gallery, list, review, banner>>
\* Answers come in any order; one that fails takes nothing from the page.
Told(a, kind) == a \in asks /\ a.kind = kind
Cancelled(a) == a.kind \in {"cats", "chain"} /\ a.run # run
\* The first category becomes the active one, and an effect asks for its rows too.
CategoriesTold(a) ==
  /\ Told(a, "cats")
  /\ LET g == a.tab
         first == FirstOf(cats[g])
         again == {Ask("list", g, c) : c \in {first} \ {at[g], None}}
     IN  IF Cancelled(a) THEN asks' = asks \ {a} /\ UNCHANGED <<at, known, sent, newest>>
         ELSE /\ at' = [at EXCEPT ![g] = IF first = None THEN @ ELSE first]
              /\ known' = [known EXCEPT ![g] = cats[g]]
              /\ asks' = (asks \ {a}) \cup {Ask("chain", g, first)} \cup again
              /\ sent' = sent + 1 /\ newest' = [newest EXCEPT ![g] = sent + 1]
  /\ UNCHANGED <<tab, filter, cats, unheard, list, busy, run, review, banner, acts>>
\* The rest of the first load minds its cancellation, loadShows and loadUsers do not.
ListTold(a) ==
  /\ a \in asks /\ a.kind \in {"chain", "list"} /\ asks' = asks \ {a}
  /\ IF Cancelled(a) THEN UNCHANGED <<list, busy>>
     ELSE list' = [list EXCEPT ![a.tab] = a] /\ Spin(a.tab, FALSE)
  /\ UNCHANGED <<tab, filter, gallery, newest, sent, run, review, banner, acts>>
ListFails(a) ==
  /\ a \in asks /\ a.kind # "role" /\ asks' = asks \ {a}
  /\ IF Cancelled(a) THEN UNCHANGED busy ELSE Spin(a.tab, FALSE)
  /\ UNCHANGED <<tab, filter, gallery, rows, sent, run, review, banner, acts>>
PickCategory(g, c) ==
  /\ tab = g /\ c \in known[g] /\ c # at[g] /\ Act
  /\ at' = [at EXCEPT ![g] = c] /\ LoadShows(g, c)
  /\ UNCHANGED <<tab, filter, cats, known, unheard, list, run, review, banner>>
\* Both end by asking for the categories and moving to one of them; told: that
\* question is answered.  When none is left the rows are emptied at once.
HandleCreateCategory(g, told) ==
  /\ tab = g /\ Act
  /\ LET c == Max(cats[g] \cup {0}) + 1 IN
       /\ c <= MaxCats /\ cats' = [cats EXCEPT ![g] = @ \cup {c}]
       /\ IF told THEN /\ at' = [at EXCEPT ![g] = c] /\ LoadShows(g, c)
                       /\ known' = [known EXCEPT ![g] = cats'[g]]
          ELSE UNCHANGED <<at, known>> /\ NoLoad
  /\ UNCHANGED <<tab, filter, unheard, list, run, review, banner>>
HandleDeleteCategory(g, c, told) ==
  /\ tab = g /\ c \in known[g] \cap cats[g] /\ Act
  /\ cats' = [cats EXCEPT ![g] = @ \ {c}]
  /\ known' = IF told THEN [known EXCEPT ![g] = cats'[g]] ELSE known
  /\ unheard' = IF told THEN unheard ELSE unheard \cup {<<g, c>>}
  /\ IF ~told \/ c # at[g] THEN UNCHANGED <<at, list>> /\ NoLoad
     ELSE /\ at' = [at EXCEPT ![g] = FirstOf(cats'[g])]
          /\ IF at'[g] = None
             THEN /\ list' = [list EXCEPT ![g] = [Nothing EXCEPT !.tab = g, !.n = sent + 1]]
                  /\ Sends({}) /\ newest' = [newest EXCEPT ![g] = sent + 1] /\ UNCHANGED busy
             ELSE LoadShows(g, at'[g]) /\ UNCHANGED list
  /\ UNCHANGED <<tab, filter, run, review, banner>>
\* A style or a show was saved or deleted in a dialog over the page.
Reload(g) == tab = g /\ at[g] # None /\ Act /\ LoadShows(g, at[g])
HandleAddSubmit(g) ==
  /\ Reload(g) /\ UNCHANGED <<tab, filter, gallery, list, run, review, banner>>
HandleDeleteShow(g) ==
  /\ list[g].what = at[g] /\ Reload(g) /\ UNCHANGED <<tab, filter, gallery, list, run, review, banner>>
\* The filters are replaced by the spinner while the users load.
FilterUsers(f) ==
  /\ tab = "users" /\ ~busy["users"] /\ f # filter /\ Act /\ filter' = f /\ LoadUsers(f)
  /\ UNCHANGED <<tab, gallery, list, run, review, banner>>
\* A role or a channel is saved; then the users load with the filter of the row.
UpdateRole ==
  /\ tab = "users" /\ ~busy["users"] /\ Act /\ Sends({Ask("role", "users", filter)})
  /\ UNCHANGED <<tab, filter, gallery, rows, busy, run, review, banner>>
RoleTold(a) ==
  /\ Told(a, "role")
  /\ asks' = (asks \ {a}) \cup {[Ask("list", "users", a.what) EXCEPT !.old = newest["users"] > a.n]}
  /\ sent' = sent + 1 /\ Spin("users", TRUE) /\ newest' = [newest EXCEPT !["users"] = sent + 1]
  /\ UNCHANGED <<tab, filter, gallery, list, run, review, banner, acts>>
RoleFails(a) ==
  /\ Told(a, "role") /\ asks' = asks \ {a}
  /\ UNCHANGED <<tab, filter, gallery, rows, busy, sent, run, review, banner, acts>>
\* The listener: refreshCurrentList.
HandleVisibility ==
  /\ Act
  /\ CASE heard.tab = "users" -> LoadUsers(heard.filter)
       [] heard.tab \in Galleries /\ heard.at[heard.tab] # None ->
            SendsList([Ask("list", heard.tab, heard.at[heard.tab]) EXCEPT !.old = heard.tab = "shows"], {})
       [] OTHER -> NoLoad
  /\ UNCHANGED <<tab, filter, gallery, list, run, review, banner>>

-----------------------------------------------------------------------------
(* The shows that wait for review *)

LoadPendingShows ==
  /\ seen' = [v \in Videos |-> IF status[v] = "published" THEN "none" ELSE status[v]]
  /\ UNCHANGED <<lists, status, reviewing, banner, acts>>
\* The row on the page may be older than the decision on it.
Review(v, action) ==
  /\ tab = "shows" /\ reviewing = None /\ seen[v] = "pending" /\ Act
  /\ reviewing' = [video |-> v, action |-> action]
  /\ UNCHANGED <<lists, status, seen, banner>>
\* The server puts the new status over whatever there was.
Reviewed ==
  /\ reviewing # None /\ reviewing' = None
  /\ status' = [status EXCEPT ![reviewing.video] = IF reviewing.action = "approve" THEN "published" ELSE "rejected"]
  /\ UNCHANGED <<lists, seen, banner, acts>>
ReviewFails ==
  /\ reviewing # None /\ reviewing' = None /\ UNCHANGED <<lists, status, seen, banner, acts>>

-----------------------------------------------------------------------------
(* The banner dialog *)

OpenBannerDialog(b) ==
  /\ tab = "banners" /\ ~dialog.on /\ Act
  /\ dialog' = [on |-> TRUE, for |-> b, file |-> FALSE, adding |-> FALSE,
                url |-> IF picture[b] = "unmade" THEN None ELSE picture[b]]
  /\ uploading' = FALSE /\ UNCHANGED <<lists, review, uploads, picture>>
HandleSelectBannerFile ==
  /\ dialog.on /\ ~uploading /\ ~dialog.adding /\ Act
  /\ dialog' = [dialog EXCEPT !.file = TRUE] /\ uploading' = TRUE
  /\ uploads' = uploads \cup {dialog.for} /\ UNCHANGED <<lists, review, picture>>
\* Neither looks whether it is still the same dialog.
BannerUploaded(b) ==
  /\ b \in uploads /\ uploads' = uploads \ {b} /\ uploading' = FALSE
  /\ dialog' = [dialog EXCEPT !.url = b] /\ UNCHANGED <<lists, review, picture, acts>>
BannerUploadFails(b) ==
  /\ b \in uploads /\ uploads' = uploads \ {b} /\ uploading' = FALSE
  /\ dialog' = [dialog EXCEPT !.file = FALSE, !.url = None] /\ UNCHANGED <<lists, review, picture, acts>>
\* A new banner needs a file, not that it has been uploaded.
HandleAddBannerSubmit ==
  /\ dialog.on /\ ~dialog.adding /\ (picture[dialog.for] = "unmade" => dialog.file)
  /\ ("early" \in Habits \/ ~uploading)
  /\ dialog' = [dialog EXCEPT !.adding = TRUE] /\ UNCHANGED <<lists, review, uploading, uploads, picture, acts>>
BannerSaved ==
  /\ dialog.adding /\ dialog' = [dialog EXCEPT !.on = FALSE, !.adding = FALSE]
  /\ picture' = [picture EXCEPT ![dialog.for] =
                   IF dialog.url = None /\ @ # "unmade" THEN @ ELSE dialog.url]
  /\ UNCHANGED <<lists, review, uploading, uploads, acts>>
CloseBannerDialog ==
  /\ dialog.on /\ ~dialog.adding /\ ("close" \in Habits \/ ~uploading)
  /\ dialog' = [dialog EXCEPT !.on = FALSE] /\ UNCHANGED <<lists, review, uploading, uploads, picture, acts>>

Answer == \E a \in asks :
  CategoriesTold(a) \/ ListTold(a) \/ ListFails(a) \/ RoleTold(a) \/ RoleFails(a)
Step ==
  \/ Answer \/ UpdateRole \/ HandleVisibility
  \/ (\E t \in Tabs : Navigate(t)) \/ (\E f \in Filters : FilterUsers(f))
  \/ (\E g \in Galleries :
        \/ HandleAddSubmit(g) \/ HandleDeleteShow(g)
        \/ \E told \in BOOLEAN : HandleCreateCategory(g, told)
        \/ \E c \in known[g] : PickCategory(g, c) \/ \E told \in BOOLEAN : HandleDeleteCategory(g, c, told))
Review_Banner ==
  \/ LoadPendingShows \/ Reviewed \/ ReviewFails
  \/ (\E v \in Videos : Review(v, "approve") \/ Review(v, "reject"))
  \/ HandleSelectBannerFile \/ HandleAddBannerSubmit \/ BannerSaved \/ CloseBannerDialog
  \/ \E b \in Banners : OpenBannerDialog(b) \/ BannerUploaded(b) \/ BannerUploadFails(b)
Next == (Step /\ Rendered) \/ Review_Banner
Spec == Init /\ [][Next]_vars
Fairness == WF_vars(Answer /\ Rendered)
FairSpec == Spec /\ Fairness

-----------------------------------------------------------------------------
TypeOK ==
  /\ tab \in Tabs /\ filter \in Filters /\ heard.tab \in Tabs
  /\ cats \in [Galleries -> SUBSET (1 .. MaxCats)] /\ known \in [Galleries -> SUBSET (1 .. MaxCats)]
  /\ \A g \in Galleries : at[g] # None => at[g] \in 1 .. MaxCats
  /\ \A a \in asks : a.tab \in Tabs /\ a.n <= sent /\ a.run <= run
  /\ \A t \in Tabs : newest[t] <= sent /\ list[t].n <= newest[t]

\* The newest question of a tab is about the category or the filter that is
\* marked, and that category is one the page lists, whatever fails and however
\* visits, deletions and answers cross: when nothing is on its way and the rows
\* answer that question, they are those asked for (AdminPage.tsx: loadShows,
\* loadStyles, loadUsers, handleDeleteShowCategory).  Not so for what is asked
\* with the filter or the category of an earlier rendering, nor after a failure.
ListIsAsked ==
  asks = {} /\ (tab \in Galleries => <<tab, at[tab]>> \notin unheard) =>
    /\ tab \in Galleries => at[tab] \in known[tab] \cup {None}
    /\ list[tab].n = newest[tab] /\ ~list[tab].old =>
         list[tab].what = CASE tab \in Galleries -> at[tab] [] tab = "users" -> filter [] OTHER -> None

\* A banner has a picture chosen for it (handleSelectBannerFile).
PicturesBelong == \A b \in Banners : picture[b] \in {b, "unmade"}

\* The spinner of the tab on the screen, which is to end.
Waits == {w \in {"list"} : busy[tab]}
=============================================================================
