------------------------------ MODULE MCPages ------------------------------
(* The pages around the studio on small instances, one of them in use at a    *)
(* time: focus says which.  The points mall is the module itself, with the    *)
(* server that credits what was paid; the others have no state in common.     *)
EXTENDS PointsMall, Sequences

VARIABLES
  focus,
  owner, age, token, user, on, init, disk, cookie, renewing, calls, credits, projects,
  modal, page, redirect, recent, popup, acts,
  category, word, list, loading, loadingMore, hasMore, currentPage, seq, asks, homeTimer,
  homeActs,
  tab, filter, at, heard, cats, adminList, busy, adminAsks, sent, run, adminStatus, seen,
  known, unheard, newest, reviewing, dialog, uploading, uploads, picture, adminActs,
  row, rowsCredited, rowsStatus, rowsUser, rowsPage, typed, items, total, rowsShown,
  rowsLoading, auditing, refunding, confirm, rowsAsks, rowsSent, rowsActs,
  shows, published, mode, edited, existing, video, duration, file, preview, uploaded, local,
  phase, showUploading, failed, capturing, submitting, showAsks, showActs, mishaps,
  there, parent, last, liked, in, loaded, count, likes, isLiked, likeLoading, detailOpen,
  detailList, detailTotal, detailPage, detailLoading, detailLoadingMore, target, posting,
  replies, detailAsks, detailActs,
  forumThere, content, forumReplies, files, posted, forumWorks, forumLoading, gone, text,
  forumList, loads, number, draft, box, forumBusy, editing, forumEdited, editBox, saving,
  forumUploads, mounts, used, made, forumActs,
  banners, current, autoplay, over, drag, dragged, released, images, opened, fetching,
  bannerActs,
  kind, trouble, directFaults, key, missed, req,
  doc, version, copy, exec, lastOutputs, lock, write, edits, saves, crashes

sessionVars == <<owner, age, token, user, on, init, disk, cookie, renewing, calls, credits,
  projects, modal, page, redirect, recent, popup, acts>>
homeVars == <<category, word, list, loading, loadingMore, hasMore, currentPage, seq, asks,
  homeTimer, homeActs>>
adminVars == <<tab, filter, at, heard, cats, adminList, busy, adminAsks, sent, run,
  known, unheard, newest, adminStatus, seen, reviewing, dialog, uploading, uploads, picture, adminActs>>
rowsVars == <<row, rowsCredited, rowsStatus, rowsUser, rowsPage, typed, items, total,
  rowsShown, rowsLoading, auditing, refunding, confirm, rowsAsks, rowsSent, rowsActs>>
showVars == <<shows, published, mode, edited, existing, video, duration, file, preview,
  uploaded, local, phase, showUploading, failed, capturing, submitting, showAsks, showActs,
  mishaps>>
detailVars == <<there, parent, last, liked, in, loaded, count, likes, isLiked, likeLoading,
  detailOpen, detailList, detailTotal, detailPage, detailLoading, detailLoadingMore, target,
  posting, replies, detailAsks, detailActs>>
forumVars == <<forumThere, content, forumReplies, files, posted, forumWorks, forumLoading,
  gone, text, forumList, loads, number, draft, box, forumBusy, editing, forumEdited,
  editBox, saving, forumUploads, mounts, used, made, forumActs>>
bannerVars == <<banners, current, autoplay, over, drag, dragged, released, images, opened,
  fetching, bannerActs>>
directVars == <<kind, trouble, directFaults, key, missed, req>>
persistVars == <<doc, version, copy, exec, lastOutputs, lock, write, edits, saves, crashes>>

Sess == INSTANCE Session WITH
  Users <- {"ua", "ub"}, MaxTokens <- 3, Habits <- {}, Losses <- {}, MaxActs <- 4
Home == INSTANCE VideoHome WITH
  Categories <- {"all", "new"}, Words <- {"", "cat", "dog"}, Last <- 3, Habits <- {},
  Losses <- {"list"}, MaxActs <- 3, timer <- homeTimer, acts <- homeActs
Admin == INSTANCE AdminPage WITH
  MaxCats <- 3, Filters <- {"f1", "f2"}, Banners <- {"b1", "b2"}, Fresh <- {"b2"},
  Videos <- {"v1"}, Habits <- {}, MaxActs <- 3, list <- adminList, asks <- adminAsks,
  status <- adminStatus, acts <- adminActs
Rows == INSTANCE Reconciliation WITH
  MaxRow <- 2, OwnerOf <- <<"u", "v">>, PageSize <- 1, MaxActs <- 3,
  credited <- rowsCredited, status <- rowsStatus, user <- rowsUser, page <- rowsPage,
  shown <- rowsShown, loading <- rowsLoading, asks <- rowsAsks, sent <- rowsSent,
  acts <- rowsActs
Show == INSTANCE ShowForm WITH
  Videos <- {"v1", "v2"}, Prefilled <- "v1",
  Losses <- {"upload", "capture", "lookup", "submit", "answer", "thumb"},
  MaxShows <- 3, MaxActs <- 4, uploading <- showUploading, asks <- showAsks,
  acts <- showActs
Detail == INSTANCE VideoDetail WITH
  MaxId <- 6, PageSize <- 2, ReplySize <- 1, Habits <- {},
  Losses <- {"like", "list", "replies", "post", "delete"}, MaxActs <- 4, open <- detailOpen,
  list <- detailList, total <- detailTotal, page <- detailPage, loading <- detailLoading,
  loadingMore <- detailLoadingMore, asks <- detailAsks, acts <- detailActs
Post == INSTANCE Forum WITH
  MaxReply <- 3, MaxMarks <- 5, Habits <- {}, Losses <- {"reply", "load", "upload"},
  MaxActs <- 4, there <- forumThere, replies <- forumReplies, works <- forumWorks,
  loading <- forumLoading, list <- forumList, busy <- forumBusy, edited <- forumEdited,
  uploads <- forumUploads, acts <- forumActs
Crowd == INSTANCE Forum WITH
  MaxReply <- 2, MaxMarks <- 4, Habits <- {"draft", "elsewhere"},
  Losses <- {"reply", "load", "upload"}, MaxActs <- 3, there <- forumThere,
  replies <- forumReplies, works <- forumWorks, loading <- forumLoading, list <- forumList,
  busy <- forumBusy, edited <- forumEdited, uploads <- forumUploads, acts <- forumActs
Banner == INSTANCE Banners WITH
  Count <- 3, Habits <- {}, Losses <- {"list"}, MaxActs <- 5, acts <- bannerActs
Direct == INSTANCE DirectCall WITH
  Requests <- {"q1", "q2"}, MaxFaults <- 1, faults <- directFaults, Troubles <-
    {"none", "refuse", "close", "early", "slow", "redis", "pay", "table", "crash"}
Persist == INSTANCE CanvasPersist WITH
  Runs <- {"x1"}, Nodes <- {"n1"}, NodeOf <- [x \in {"x1"} |-> "n1"], Tab <- "tab",
  Dog <- "dog", Habits <- {}, MaxEdits <- 1, MaxSaves <- 1, MaxCrashes <- 1, tab <- copy,
  run <- exec, last <- lastOutputs

\* A page that is not in use starts from one choice.
PagesInit ==
  /\ focus \in {"mall", "session", "home", "admin", "rows", "show", "detail", "forum",
       "crowd", "banner", "direct", "persist"}
  /\ MallInit
  /\ Sess!Init /\ (focus # "session" => owner[1] = None /\ page = "home")
  /\ Home!Init
  /\ Admin!Init /\ filter = "f1"
  /\ Rows!Init /\ (focus # "rows" => \A r \in DOMAIN row : row[r].status = "submitted")
  /\ Show!Init /\ (focus # "show" => published = 0 /\ ~shows[1].project)
  /\ Detail!Init /\ (focus # "detail" => there = {1, 2, 3} /\ ~liked /\ ~in)
  /\ Post!Init
  /\ Banner!Init /\ (focus # "banner" => ~over)
  /\ Direct!Init /\ (focus # "direct" => kind = "prompt" /\ trouble = "none")
  /\ Persist!Init /\ (focus # "persist" => doc["n1"].art = "none")
  /\ focus # "mall" => world = CHOOSE v \in Worlds : TRUE
PagesStep ==
  \/ focus = "mall" /\ (Mall \/ Elsewhere) /\ UNCHANGED <<sessionVars, homeVars, adminVars,
       rowsVars, showVars, detailVars, forumVars, bannerVars, directVars, persistVars>>
  \/ focus = "session" /\ Sess!Next /\ UNCHANGED <<homeVars, adminVars, rowsVars, showVars,
       detailVars, forumVars, bannerVars, directVars, persistVars, all>>
  \/ focus = "home" /\ Home!Next /\ UNCHANGED <<sessionVars, adminVars, rowsVars, showVars,
       detailVars, forumVars, bannerVars, directVars, persistVars, all>>
  \/ focus = "admin" /\ Admin!Next /\ UNCHANGED <<sessionVars, homeVars, rowsVars,
       showVars, detailVars, forumVars, bannerVars, directVars, persistVars, all>>
  \/ focus = "rows" /\ Rows!Next /\ UNCHANGED <<sessionVars, homeVars, adminVars, showVars,
       detailVars, forumVars, bannerVars, directVars, persistVars, all>>
  \/ focus = "show" /\ Show!Next /\ UNCHANGED <<sessionVars, homeVars, adminVars, rowsVars,
       detailVars, forumVars, bannerVars, directVars, persistVars, all>>
  \/ focus = "detail" /\ Detail!Next /\ UNCHANGED <<sessionVars, homeVars, adminVars,
       rowsVars, showVars, forumVars, bannerVars, directVars, persistVars, all>>
  \/ focus = "forum" /\ Post!Next /\ UNCHANGED <<sessionVars, homeVars, adminVars,
       rowsVars, showVars, detailVars, bannerVars, directVars, persistVars, all>>
  \/ focus = "crowd" /\ Crowd!Next /\ UNCHANGED <<sessionVars, homeVars, adminVars,
       rowsVars, showVars, detailVars, bannerVars, directVars, persistVars, all>>
  \/ focus = "banner" /\ Banner!Next /\ UNCHANGED <<sessionVars, homeVars, adminVars,
       rowsVars, showVars, detailVars, forumVars, directVars, persistVars, all>>
  \/ focus = "direct" /\ Direct!Next /\ UNCHANGED <<sessionVars, homeVars, adminVars,
       rowsVars, showVars, detailVars, forumVars, bannerVars, persistVars, all>>
  \/ focus = "persist" /\ Persist!Next /\ UNCHANGED <<sessionVars, homeVars, adminVars,
       rowsVars, showVars, detailVars, forumVars, bannerVars, directVars, all>>
PagesNext == UNCHANGED focus /\ PagesStep
pages == <<focus, all, sessionVars, homeVars, adminVars, rowsVars, showVars, detailVars,
  forumVars, bannerVars, directVars, persistVars>>

\* The requests of the page in use are answered and its timers run out.
PagesFairness ==
  /\ \A w \in Workers :
       /\ WF_all(focus = "mall" /\ Served(w))
       /\ WF_all(focus = "mall" /\ PollAnswered(w))
       /\ WF_all(focus = "mall" /\ Tick(w))
  /\ \A o \in Orders : SF_all(focus = "mall" /\ Notified(o))
  /\ WF_all(focus = "mall" /\ Told)
  /\ WF_homeVars(focus = "home" /\ Home!Answer)
  /\ WF_homeVars(focus = "home" /\ Home!SearchTimeout)
  /\ WF_adminVars(focus = "admin" /\ Admin!Answer /\ Admin!Rendered)
  /\ WF_rowsVars(focus = "rows" /\ Rows!Answer)
  /\ WF_showVars(focus = "show" /\ Show!Answer)
  /\ WF_detailVars(focus = "detail" /\ Detail!Answer)
  /\ WF_forumVars(focus = "forum" /\ Post!Respond)
  /\ WF_forumVars(focus = "crowd" /\ Crowd!Respond)
PagesSpec == PagesInit /\ [][PagesNext]_pages /\ PagesFairness

-----------------------------------------------------------------------------
\* What a page shows as under way ends, whatever fails; and what was paid for
\* is credited, in the worlds in which the requests of a page are not cut off.
Waits ==
  CASE focus = "home" -> Home!Waits
    [] focus = "admin" -> Admin!Waits
    [] focus = "rows" -> Rows!Waits
    [] focus = "show" -> Show!Waits
    [] focus = "detail" -> Detail!Waits
    [] focus = "forum" -> Post!Waits
    [] focus = "crowd" -> Crowd!Waits
    [] OTHER -> {}
Uncredited(o) == world \in MCCalm /\ o \in paid /\ credited[o] = 0
NothingHangs ==
  /\ \A w \in {"list", "more", "busy", "save", "upload", "capture", "audit", "like", "replies"} :
       []<>(w \notin Waits)
  /\ \A o \in Orders : []<>~Uncredited(o)

\* What was confirmed to the provider is credited, a task is refunded once, and a
\* call straight to a model is paid for once, by one request at a time, and
\* settled when it fails (wechat_pay_handler.go:45-46, ClaimForRefund, idem.go,
\* sync_call.go).
MoneyIsWhereItBelongs ==
  /\ focus = "mall" /\ world \in MCCalm => AckedIsCredited
  /\ focus = "rows" => Rows!MoneyBackOnce
  /\ focus = "direct" => Direct!TypeOK /\ Direct!OneAtATime /\ Direct!FailedIsSettled
  /\ focus = "direct" => Direct!ReturnedOnce /\ Direct!FailureFreesKey


\* Pictures, files and data belong to what and to whom they are shown with, and
\* go with it: covers and thumbnails, the files of a comment, the session on the
\* screen with its data and its disk (AddShowDialog, AdminPage.tsx,
\* forum_service.go, RichTextEditor.tsx, mergeStickyProducts, authStore.ts,
\* refreshCredits.ts); a cover unless one of the mishaps of ShowForm happened.
WhatIsShownBelongs ==
  /\ focus = "show" => Show!CoverFitsVideo /\ Show!OneShowPerProject
  /\ focus = "admin" => Admin!PicturesBelong
  /\ focus = "persist" => Persist!TypeOK /\ Persist!ThumbsFit
  /\ focus = "forum" => Post!NothingStays /\ Post!MediaAreStored /\ Post!DraftIsShown
  /\ focus = "session" => Sess!TypeOK /\ Sess!DataIsMine /\ Sess!DiskIsStore

\* What a step may not do: end or revive a session that was not signed out or
\* in, lose what was produced, open a banner that was dragged (authStore.ts,
\* canvas_repo.go, VideoListPage.tsx).
StepsAreAsked ==
  [][ /\ focus = "session" => Sess!SessionEndsOnce
      /\ focus = "persist" => Persist!ProductsStay
      /\ focus = "banner" => Banner!PressOpens ]_pages
=============================================================================
