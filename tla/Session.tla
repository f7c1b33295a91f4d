-------------------------------- MODULE Session --------------------------------
(***************************************************************************)
(* Signing in, staying signed in and signing out in the browser.  From     *)
(* src/web/src/stores/authStore.ts, services/api.ts, hooks/useCreditsSync, *)
(* utils/refreshCredits.ts, components/auth/LoginModal.tsx, AuthGuard.tsx, *)
(* layout/AppLayout.tsx and pages/videos/VideoListPage.tsx.                *)
(*                                                                         *)
(* A token lives a day, on this site's disk and in a cookie its sister     *)
(* sites share.  In the second half of its life the next request renews it *)
(* first, and requests made meanwhile wait.  A request refused with 401    *)
(* signs the user out.  What a request brings is its token's owner's.      *)
(***************************************************************************)
EXTENDS Integers, FiniteSets

CONSTANTS
  Users,
  MaxTokens,   \* bound: tokens handed out; token 0 is no token
  Habits,      \* "quick": signs out or in with requests under way
  Losses,      \* "start": the request at the start fails though the token is good
  MaxActs,     \* bound: what the user and the pages ask for
  None

Tokens == 1 .. MaxTokens

VARIABLES
  owner, age,     \* the tokens handed out
  token, user, on, init,   \* the store; init is "no", "asking", "done"
  disk, cookie,
  renewing,       \* the token being renewed
  calls,          \* requests under way
  credits,        \* whose balance is shown
  projects,       \* whose recent projects are listed
  modal,          \* the login box: open, and who is signing in
  page, redirect, \* "home" or "mine"; where to go after signing in
  recent, popup,  \* a 401 was handled in the last two seconds; the box will open
  acts

store == <<token, user, on, init>>
disks == <<disk, cookie>>
tokens == <<owner, age>>
screen == <<modal, page, redirect>>
vars == <<tokens, store, disks, renewing, calls, credits, projects, screen, recent, popup, acts>>

Init ==
  /\ owner \in [Tokens -> {None}] \cup {[t \in Tokens |-> IF t = 1 THEN u ELSE None] : u \in Users}
  /\ age \in {[t \in Tokens |-> IF t = 1 /\ owner[1] # None THEN a ELSE "none"] : a \in {"fresh", "old", "dead"}}
  /\ disk \in (IF owner[1] = None THEN {0} ELSE {0, 1}) /\ cookie \in (IF owner[1] = None THEN {0} ELSE {0, 1})
  /\ token = 0 /\ user = None /\ on = FALSE /\ init = "no"
  /\ renewing = 0 /\ calls = {} /\ credits = None /\ projects = None
  /\ modal = [open |-> FALSE, who |-> None] /\ page \in {"home", "mine"} /\ redirect = FALSE
  /\ recent = FALSE /\ popup = FALSE /\ acts = 0

Act == acts < MaxActs /\ acts' = acts + 1
Good(t) == t # 0 /\ age[t] # "dead"
Calm == "quick" \in Habits \/ (calls = {} /\ renewing = 0)

-----------------------------------------------------------------------------
(* api.ts: the request interceptor *)

\* stored is what initialize read from the disk; only its own request has one.
Send(kind, t, stored, under, ages) ==
  LET waits == t # 0 /\ ages[t] \in {"old", "dead"}
  IN  /\ renewing' = IF waits /\ renewing = 0 THEN t ELSE renewing
      /\ calls' = under \cup {[kind |-> kind, token |-> t, waits |-> waits, stored |-> stored]}
Request(kind, t, stored) == Send(kind, t, stored, calls, age)
\* The home page asks for the projects of whoever has just signed in, and drops
\* those of whoever signed out (loadProjects follows isAuthenticated).
ProjectsOf(t, under) ==
  IF ~on /\ page' = "home" THEN Send("projects", t, 0, under, age') ELSE calls' = under /\ UNCHANGED renewing

SetAuth(t, u) ==
  /\ token' = t /\ user' = u /\ on' = TRUE /\ disk' = t /\ cookie' = t
  /\ credits' = IF u = user THEN credits ELSE u
NewToken(u, t) ==
  /\ t = 1 + Cardinality({x \in Tokens : owner[x] # None}) /\ t \in Tokens
  /\ owner' = [owner EXCEPT ![t] = u] /\ age' = [age EXCEPT ![t] = "fresh"]

\* renewSession: one renewal for all; it goes through setAuth.
Renewed == \E t \in Tokens :
  /\ renewing # 0 /\ Good(renewing) /\ NewToken(owner[renewing], t)
  /\ SetAuth(t, owner[renewing]) /\ renewing' = 0
  /\ LET sent == {IF c.waits THEN [c EXCEPT !.waits = FALSE, !.token = t] ELSE c : c \in calls}
         asked == [kind |-> "projects", token |-> t, waits |-> FALSE, stored |-> 0]
     IN  calls' = IF ~on /\ page = "home" THEN sent \cup {asked} ELSE sent
  /\ modal' = [modal EXCEPT !.open = FALSE]
  /\ UNCHANGED <<init, projects, page, redirect, recent, popup, acts>>
NotRenewed ==
  /\ renewing # 0 /\ ~Good(renewing) /\ renewing' = 0
  /\ calls' = {[c EXCEPT !.waits = FALSE] : c \in calls}
  /\ UNCHANGED <<tokens, store, disks, credits, projects, screen, recent, popup, acts>>

-----------------------------------------------------------------------------
(* authStore.initialize *)

Stored == IF disk # 0 THEN disk ELSE cookie
Initialize ==
  /\ init = "no" /\ disk' = Stored
  /\ IF Stored = 0 THEN init' = "done" /\ UNCHANGED <<token, renewing, calls>>
     ELSE init' = "asking" /\ token' = Stored /\ Request("me", Stored, Stored)
  /\ UNCHANGED <<tokens, user, on, cookie, credits, projects, screen, recent, popup, acts>>
Arrived(c) == c \in calls /\ ~c.waits
\* The cookie gets what was on the disk at the start.
Recognised(c) ==
  /\ Arrived(c) /\ c.kind = "me" /\ Good(c.token)
  /\ cookie' = c.stored /\ init' = "done" /\ on' = TRUE
  /\ user' = owner[c.token] /\ credits' = owner[c.token]
  /\ UNCHANGED <<tokens, token, disk, projects, screen, recent, popup, acts>>
  /\ ProjectsOf(token, calls \ {c})
\* Mutant: the pages keep the data of whoever signed out.
SignedOutOnly ==
  /\ disk' = 0 /\ cookie' = 0 /\ token' = 0 /\ user' = None /\ on' = FALSE
  /\ UNCHANGED <<credits, projects>>
SignedOut ==
  /\ disk' = 0 /\ cookie' = 0 /\ token' = 0 /\ user' = None /\ on' = FALSE
  /\ credits' = None /\ projects' = None
Forgotten(c) ==
  /\ Arrived(c) /\ c.kind = "me" /\ (~Good(c.token) \/ "start" \in Losses)
  /\ SignedOut /\ init' = "done" /\ calls' = calls \ {c}
  /\ UNCHANGED <<tokens, renewing, screen, recent, popup, acts>>

-----------------------------------------------------------------------------
(* Requests of the pages, and their answers *)

\* A balance request under way stands for every later one.
RefreshCredits ==
  /\ on /\ Act /\ (\A c \in calls : c.kind # "credits") /\ Request("credits", token, 0)
  /\ UNCHANGED <<tokens, store, disks, credits, projects, screen, recent, popup>>
CreditsTold(c) ==
  /\ Arrived(c) /\ c.kind = "credits" /\ Good(c.token) /\ calls' = calls \ {c}
  /\ credits' = IF user = None THEN credits ELSE owner[c.token]
  /\ UNCHANGED <<tokens, store, disks, renewing, projects, screen, recent, popup, acts>>
ProjectsTold(c) ==
  /\ Arrived(c) /\ c.kind = "projects" /\ Good(c.token) /\ calls' = calls \ {c}
  /\ projects' = IF page = "home" THEN owner[c.token] ELSE None
  /\ UNCHANGED <<tokens, store, disks, renewing, credits, screen, recent, popup, acts>>
\* The response interceptor: one sign-out and one login box in two seconds.
Unauthorized(c) ==
  /\ Arrived(c) /\ c.kind # "me" /\ ~Good(c.token) /\ calls' = calls \ {c}
  /\ IF on /\ init # "asking" /\ ~recent
     THEN SignedOut /\ recent' = TRUE /\ popup' = TRUE
     ELSE UNCHANGED <<token, user, on, disks, credits, projects, recent, popup>>
  /\ UNCHANGED <<tokens, init, renewing, screen, acts>>
TimeoutModal ==
  /\ popup /\ popup' = FALSE /\ modal' = [modal EXCEPT !.open = @ \/ ~on]
  /\ UNCHANGED <<tokens, store, disks, renewing, calls, credits, projects, page, redirect, recent, acts>>
\* Answers to the token that was refused arrive within the two seconds.
WindowEnds ==
  /\ recent /\ recent' = FALSE /\ (\A c \in calls : Good(c.token)) /\ renewing = 0
  /\ UNCHANGED <<tokens, store, disks, renewing, calls, credits, projects, screen, popup, acts>>
\* A request lasts a minute at most, half of a token's life twelve hours.
Age(t) ==
  /\ age[t] \in {"fresh", "old"} /\ init # "no" /\ \A c \in calls : c.token = t /\ (c.waits \/ age[t] = "fresh")
  /\ age' = [age EXCEPT ![t] = IF @ = "fresh" THEN "old" ELSE "dead"]
  /\ UNCHANGED <<owner, store, disks, renewing, calls, credits, projects, screen, recent, popup, acts>>

\* The password is reset on another device: every token of the account is void.
PasswordReset(u) ==
  /\ init # "no" /\ Act
  /\ age' = [t \in Tokens |-> IF owner[t] = u THEN "dead" ELSE age[t]]
  /\ UNCHANGED <<owner, store, disks, renewing, calls, credits, projects, screen, recent, popup>>

-----------------------------------------------------------------------------
(* The user *)

Logout ==
  /\ on /\ Act /\ Calm /\ SignedOut
  /\ UNCHANGED <<tokens, init, renewing, calls, screen, recent, popup>>
OpenLoginModal ==
  /\ ~on /\ init = "done" /\ ~modal.open /\ Act /\ modal' = [open |-> TRUE, who |-> None]
  /\ UNCHANGED <<tokens, store, disks, renewing, calls, credits, projects, page, redirect, recent, popup>>
CloseLoginModal ==
  /\ modal.open /\ modal.who = None /\ modal' = [modal EXCEPT !.open = FALSE]
  /\ UNCHANGED <<tokens, store, disks, renewing, calls, credits, projects, page, redirect, recent, popup, acts>>
HandleSubmit(u) ==
  /\ modal.open /\ modal.who = None /\ Act /\ modal' = [modal EXCEPT !.who = u]
  /\ UNCHANGED <<tokens, store, disks, renewing, calls, credits, projects, page, redirect, recent, popup>>
\* Typing a password takes longer than the two seconds.
LoginDone == \E t \in Tokens :
  /\ modal.who # None /\ ("quick" \in Habits \/ (Calm /\ ~recent)) /\ NewToken(modal.who, t)
  /\ SetAuth(t, modal.who) /\ modal' = [open |-> FALSE, who |-> None]
  /\ page' = (IF redirect THEN "mine" ELSE page) /\ redirect' = FALSE
  /\ ProjectsOf(t, calls)
  /\ UNCHANGED <<init, projects, recent, popup, acts>>
LoginFails ==
  /\ modal.who # None /\ modal' = [modal EXCEPT !.who = None]
  /\ UNCHANGED <<tokens, store, disks, renewing, calls, credits, projects, page, redirect, recent, popup, acts>>
Navigate(p) ==
  /\ page # p /\ init = "done" /\ Act /\ page' = p /\ projects' = None
  /\ IF p = "home" /\ on THEN Request("projects", token, 0) ELSE UNCHANGED <<renewing, calls>>
  /\ UNCHANGED <<tokens, store, disks, credits, modal, redirect, recent, popup>>
\* AuthGuard sends a visitor home and asks for a login.
Guard ==
  /\ page = "mine" /\ init = "done" /\ ~on
  /\ page' = "home" /\ redirect' = TRUE /\ modal' = [open |-> TRUE, who |-> modal.who]
  /\ UNCHANGED <<tokens, store, disks, renewing, calls, credits, projects, recent, popup, acts>>

Answer == \E c \in calls :
  Recognised(c) \/ Forgotten(c) \/ CreditsTold(c) \/ ProjectsTold(c) \/ Unauthorized(c)
Next ==
  \/ Initialize \/ Renewed \/ NotRenewed \/ Answer \/ TimeoutModal \/ WindowEnds \/ Guard
  \/ RefreshCredits \/ Logout \/ OpenLoginModal \/ CloseLoginModal \/ LoginDone \/ LoginFails
  \/ (\E u \in Users : HandleSubmit(u) \/ PasswordReset(u))
  \/ (\E p \in {"home", "mine"} : Navigate(p))
  \/ \E t \in Tokens : Age(t)
Spec == Init /\ [][Next]_vars

-----------------------------------------------------------------------------
TypeOK ==
  /\ {token, disk, cookie, renewing} \subseteq 0 .. MaxTokens
  /\ {user, credits, projects} \subseteq Users \cup {None}
  /\ on => user # None /\ token # 0

\* Whoever is signed in sees their own balance and projects, and a visitor none
\* (setUser in refreshCredits.ts, loadProjects).
DataIsMine ==
  /\ projects # None => on /\ projects = user
  /\ credits # None => credits = user

\* A session ends by signing out or by a refusal of its own token, and one that
\* has ended comes back only by signing in (logout, the two interceptors).
SessionEndsOnce ==
  /\ on /\ ~on' => Logout \/ ~Good(token)
  /\ ~on /\ on' => LoginDone \/ init = "asking"

\* The disk keeps the session of this page.
DiskIsStore == init = "done" /\ on => disk = token

\* What the sister sites find is the session of this one (setAuth, initialize).
CookieIsDisk == init = "done" /\ on => cookie = disk
=============================================================================
