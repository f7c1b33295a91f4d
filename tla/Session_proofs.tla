----------------------------- MODULE Session_proofs -----------------------------
(***************************************************************************)
(* Proofs about the session in the browser, for any users, tokens and      *)
(* requests: whoever is signed in sees what is theirs, and a session ends  *)
(* and begins only when it should.                                         *)
(***************************************************************************)
EXTENDS Session, FiniteSetTheorems, TLAPS

Instance == None \notin Users /\ MaxTokens \in Nat \ {0}

\* Nobody signs out or in with requests under way, and the request at the start
\* fails only if its token does.
Patient == "quick" \notin Habits /\ "start" \notin Losses

Owners == Users \cup {None}
Requests == [kind : {"me", "credits", "projects"}, token : Tokens, waits : BOOLEAN,
             stored : 0 .. MaxTokens]

Typed ==
  /\ TypeOK
  /\ owner \in [Tokens -> Owners] /\ age \in [Tokens -> {"none", "fresh", "old", "dead"}]
  /\ on \in BOOLEAN /\ init \in {"no", "asking", "done"}
  /\ calls \subseteq Requests
  /\ modal \in [open : BOOLEAN, who : Owners]

\* Tokens are handed out in turn, and only those are used.
Given(t) == t = 0 \/ owner[t] # None
Handed ==
  /\ \E k \in 0 .. MaxTokens : \A t \in Tokens : owner[t] # None <=> t <= k
  /\ Given(token) /\ Given(disk) /\ Given(cookie) /\ Given(renewing)
  /\ \A c \in calls : owner[c.token] # None /\ Given(c.stored)

\* The store is of one user; before anyone is signed in, all that is asked is
\* who they are.
Signed ==
  /\ IF on THEN owner[token] = user ELSE user = None
  /\ init = "no" => calls = {} /\ token = 0 /\ renewing = 0 /\ ~on
  /\ init # "no" => disk = token
  /\ ~on /\ token # 0 => init = "asking" /\ \A c \in calls : c.kind = "me"

\* A request under way has a token of the same account as the store, which is
\* as good as the store's, or was refused.
AsGood(t) ==
  IF token = 0 THEN ~Good(t)
  ELSE (Good(t) <=> Good(token)) /\ (Good(t) => owner[t] = owner[token])
OneAccount ==
  /\ \A c \in calls : AsGood(c.token)
  /\ renewing # 0 => AsGood(renewing) /\ (token # 0 => renewing = token)
  /\ \A c \in calls : c.waits => renewing # 0 /\ c.token = renewing

\* Who asks at the start does it once, and nobody signs in twice.
Once ==
  /\ \A c \in calls : c.kind = "me" => init = "asking"
  /\ \A c, d \in calls : c.kind = "me" /\ d.kind = "me" => c = d
  /\ modal.open \/ modal.who # None => ~on /\ init = "done"
  /\ popup => init = "done"

SessionInv == Typed /\ Handed /\ Signed /\ OneAccount /\ Once /\ DataIsMine

-----------------------------------------------------------------------------
LEMMA NewTokens ==
  ASSUME Instance, Typed, Handed, NEW u \in Users, NEW t, NewToken(u, t)
  PROVE  /\ t \in Tokens /\ owner[t] = None
         /\ owner' = [owner EXCEPT ![t] = u] /\ age' = [age EXCEPT ![t] = "fresh"]
         /\ owner' \in [Tokens -> Owners]
         /\ age' \in [Tokens -> {"none", "fresh", "old", "dead"}]
         /\ \E k \in 0 .. MaxTokens : \A x \in Tokens : owner'[x] # None <=> x <= k
<1>1. PICK k \in 0 .. MaxTokens : \A x \in Tokens : owner[x] # None <=> x <= k
  BY DEF Handed
<1> DEFINE S == {x \in Tokens : owner[x] # None}
<1>2. S = 1 .. k
  BY <1>1 DEF Tokens, Instance
<1>3. t = 1 + Cardinality(S) /\ t \in Tokens
  BY DEF NewToken
<1> HIDE DEF S
<1>c. Cardinality(1 .. k) = k
  BY FS_Interval
<1>4. t = k + 1 /\ t \in Tokens
  BY <1>2, <1>3, <1>c
<1>5. owner[t] = None
  BY <1>1, <1>4 DEF Tokens, Instance
<1>6. /\ owner' = [owner EXCEPT ![t] = u] /\ age' = [age EXCEPT ![t] = "fresh"]
  BY DEF NewToken
<1>7. /\ owner' \in [Tokens -> Owners] /\ age' \in [Tokens -> {"none", "fresh", "old", "dead"}]
  BY <1>4, <1>6 DEF Typed, Owners
<1>8. \A x \in Tokens : owner'[x] # None <=> x <= k + 1
  BY <1>1, <1>4, <1>6 DEF Tokens, Instance, Typed
<1>9. k + 1 \in 0 .. MaxTokens
  BY <1>4 DEF Tokens, Instance
<1> QED
  BY <1>4, <1>5, <1>6, <1>7, <1>8, <1>9

\* Only an account's tokens are refused: a request with a good token is the
\* store's, and so is the renewal.
LEMMA GoodIsOurs ==
  ASSUME SessionInv, NEW t, AsGood(t), Good(t)
  PROVE  /\ token # 0 /\ Good(token) /\ owner[t] = owner[token]
         /\ on => owner[t] = user
         /\ ~on => init = "asking" /\ \A c \in calls : c.kind = "me"
BY DEF SessionInv, AsGood, Signed

LEMMA BadIsAll ==
  ASSUME SessionInv, NEW t, AsGood(t), ~Good(t)
  PROVE  /\ \A c \in calls : ~Good(c.token)
         /\ renewing # 0 => ~Good(renewing)
         /\ token # 0 => ~Good(token)
BY DEF SessionInv, AsGood, OneAccount

\* Signing out, with whatever is under way refused.
LEMMA SignsOut ==
  ASSUME Instance, SessionInv, SignedOut, UNCHANGED <<owner, age, renewing>>,
         calls' \subseteq calls, \A c \in calls' : ~Good(c.token),
         renewing # 0 => ~Good(renewing),
         init # "no", init' \in {init, "done"}, init' = init \/ (\A c \in calls' : c.kind # "me"),
         modal' = modal, popup' = popup \/ init = "done"
  PROVE  SessionInv'
<1> USE DEF SessionInv, SignedOut
<1>t. TypeOK'
  BY DEF Typed, TypeOK, Instance
<1>1. Typed'
  BY <1>t DEF Typed
<1>2. Handed'
  BY DEF Handed, Given
<1>3. Signed'
  BY DEF Signed
<1>4. OneAccount'
  BY DEF OneAccount, AsGood, Good
<1>5. Once'
  BY DEF Once, Typed
<1>6. DataIsMine'
  BY DEF DataIsMine
<1> QED
  BY <1>1, <1>2, <1>3, <1>4, <1>5, <1>6

\* A request is answered.
LEMMA FewerCalls ==
  ASSUME SessionInv, calls' \subseteq calls, UNCHANGED <<owner, age, token, renewing>>
  PROVE  OneAccount' /\ calls' \subseteq Requests
BY DEF SessionInv, OneAccount, AsGood, Good, Typed

\* A request is sent with the token of the store.
LEMMA AsksMore ==
  ASSUME Instance, SessionInv, NEW kind \in {"credits", "projects"}, token # 0,
         NEW under, under \subseteq calls, Send(kind, token, 0, under, age),
         UNCHANGED <<owner, age, token>>
  PROVE  /\ OneAccount' /\ calls' \subseteq Requests /\ renewing' \in {renewing, token}
         /\ \A c \in calls' : c \in under \/ (c.kind = kind /\ c.token = token /\ c.stored = 0)
<1> DEFINE waits == token # 0 /\ age[token] \in {"old", "dead"}
           asked == [kind |-> kind, token |-> token, waits |-> waits, stored |-> 0]
<1>1. /\ renewing' = IF waits /\ renewing = 0 THEN token ELSE renewing
      /\ calls' = under \cup {asked}
  BY DEF Send
<1>2. asked \in Requests
  BY DEF SessionInv, Typed, TypeOK, Requests, Tokens, Instance
<1>3. calls' \subseteq Requests
  BY <1>1, <1>2 DEF SessionInv, Typed
<1>4. asked.kind = kind /\ asked.token = token /\ asked.stored = 0 /\ asked.waits = waits
  OBVIOUS
<1> HIDE DEF asked, waits
<1>5. renewing # 0 => renewing = token
  BY DEF SessionInv, OneAccount
<1>6. renewing' \in {renewing, token} /\ (waits => renewing' = token)
  BY <1>1, <1>5
<1>7. \A c \in calls' : AsGood(c.token)'
  BY <1>1, <1>4 DEF SessionInv, OneAccount, AsGood, Good
<1>8. renewing' # 0 => AsGood(renewing)' /\ renewing' = token
  BY <1>5, <1>6 DEF SessionInv, OneAccount, AsGood, Good
<1>9. ASSUME NEW c \in calls', c.waits PROVE renewing' # 0 /\ c.token = renewing'
  <2>1. CASE c = asked
    BY <2>1, <1>4, <1>6, <1>9
  <2>2. CASE c \in under
    <3>1. renewing # 0 /\ c.token = renewing
      BY <2>2, <1>9 DEF SessionInv, OneAccount
    <3> QED
      BY <3>1, <1>5, <1>6
  <2> QED
    BY <1>1, <2>1, <2>2
<1>10. OneAccount'
  BY <1>7, <1>8, <1>9 DEF OneAccount
<1> QED
  BY <1>1, <1>3, <1>4, <1>6, <1>10

-----------------------------------------------------------------------------
(* The steps *)

LEMMA InitializeStep ==
  ASSUME Instance, SessionInv, Initialize
  PROVE  SessionInv'
<1> USE DEF SessionInv
<1>1. /\ init = "no" /\ calls = {} /\ token = 0 /\ renewing = 0 /\ ~on
      /\ UNCHANGED <<owner, age, user, on, cookie, credits, projects, modal, popup>>
      /\ disk' = Stored /\ Stored \in 0 .. MaxTokens /\ Given(Stored)
  BY DEF Initialize, Signed, Stored, Handed, Typed, TypeOK, tokens, screen
<1>2. CASE Stored = 0
  <2>1. init' = "done" /\ UNCHANGED <<token, renewing, calls>>
    BY <1>2 DEF Initialize
  <2>2. Typed' /\ Handed'
    BY <1>1, <2>1 DEF Typed, TypeOK, Handed, Given, Instance
  <2>3. Signed' /\ OneAccount' /\ Once' /\ DataIsMine'
    BY <1>1, <1>2, <2>1 DEF Signed, OneAccount, Once, DataIsMine
  <2> QED
    BY <2>2, <2>3
<1>3. CASE Stored # 0
  <2> DEFINE waits == Stored # 0 /\ age[Stored] \in {"old", "dead"}
             me == [kind |-> "me", token |-> Stored, waits |-> waits, stored |-> Stored]
  <2>1. /\ init' = "asking" /\ token' = Stored /\ calls' = {me}
        /\ renewing' = IF waits THEN Stored ELSE 0
    BY <1>1, <1>3 DEF Initialize, Request, Send
  <2>2. Stored \in Tokens /\ me \in Requests /\ owner[Stored] # None
    BY <1>1, <1>3 DEF Tokens, Requests, Instance, Given
  <2>3. me.kind = "me" /\ me.token = Stored /\ me.waits = waits /\ me.stored = Stored
    OBVIOUS
  <2> HIDE DEF me, waits
  <2>4. TypeOK'
    BY <1>1, <2>1 DEF Typed, TypeOK, Instance
  <2>5. Typed'
    BY <1>1, <2>1, <2>2, <2>4 DEF Typed
  <2>6. Handed'
    BY <1>1, <2>1, <2>2, <2>3 DEF Handed, Given
  <2>7. Signed'
    BY <1>1, <2>1, <2>3 DEF Signed
  <2>8. OneAccount'
    BY <1>1, <1>3, <2>1, <2>3 DEF OneAccount, AsGood, Good
  <2>9. Once'
    BY <1>1, <2>1, <2>3 DEF Once, Typed
  <2>10. DataIsMine'
    BY <1>1 DEF DataIsMine
  <2> QED
    BY <2>5, <2>6, <2>7, <2>8, <2>9, <2>10
<1> QED
  BY <1>2, <1>3

LEMMA NotRenewedStep ==
  ASSUME Instance, SessionInv, NotRenewed
  PROVE  SessionInv'
<1> USE DEF SessionInv
<1>1. /\ UNCHANGED <<owner, age, token, user, on, init, disk, cookie, credits, projects, modal, popup>>
      /\ renewing' = 0 /\ calls' = {[c EXCEPT !.waits = FALSE] : c \in calls}
  BY DEF NotRenewed, tokens, store, disks, screen
<1>2. ASSUME NEW c \in calls
      PROVE  LET d == [c EXCEPT !.waits = FALSE]
             IN  d \in Requests /\ d.kind = c.kind /\ d.token = c.token /\ ~d.waits /\ d.stored = c.stored
  BY DEF Typed, Requests
<1>3. \A d \in calls' : d \in Requests /\ ~d.waits /\ \E c \in calls :
        d = [c EXCEPT !.waits = FALSE] /\ d.kind = c.kind /\ d.token = c.token /\ d.stored = c.stored
  BY <1>1, <1>2
<1>4. TypeOK'
  BY <1>1 DEF Typed, TypeOK, Instance
<1>5. Typed'
  BY <1>1, <1>3, <1>4 DEF Typed
<1>6. Handed'
  BY <1>1, <1>3 DEF Handed, Given
<1>7. Signed'
  BY <1>1, <1>3 DEF Signed
<1>8. OneAccount'
  BY <1>1, <1>3 DEF OneAccount, AsGood, Good
<1>9. Once'
  <2>1. ASSUME NEW d \in calls', NEW e \in calls', d.kind = "me", e.kind = "me"
        PROVE  d = e
    <3>1. PICK c \in calls : d = [c EXCEPT !.waits = FALSE] /\ c.kind = "me"
      BY <1>3, <2>1
    <3>2. PICK b \in calls : e = [b EXCEPT !.waits = FALSE] /\ b.kind = "me"
      BY <1>3, <2>1
    <3>3. b = c
      BY <3>1, <3>2 DEF Once
    <3> QED
      BY <3>1, <3>2, <3>3
  <2> QED
    BY <1>1, <1>3, <2>1 DEF Once
<1>10. DataIsMine'
  BY <1>1 DEF DataIsMine
<1> QED
  BY <1>5, <1>6, <1>7, <1>8, <1>9, <1>10

\* The renewed token is of whom the renewing token was.
LEMMA RenewedStep ==
  ASSUME Instance, SessionInv, Renewed
  PROVE  SessionInv'
<1> USE DEF SessionInv
<1> DEFINE u == owner[renewing]
<1>1. PICK t \in Tokens :
        /\ renewing # 0 /\ Good(renewing) /\ NewToken(u, t) /\ SetAuth(t, u) /\ renewing' = 0
        /\ LET sent == {IF c.waits THEN [c EXCEPT !.waits = FALSE, !.token = t] ELSE c : c \in calls}
               asked == [kind |-> "projects", token |-> t, waits |-> FALSE, stored |-> 0]
           IN  calls' = IF ~on /\ page = "home" THEN sent \cup {asked} ELSE sent
        /\ modal' = [modal EXCEPT !.open = FALSE]
        /\ UNCHANGED <<init, projects, page, redirect, recent, popup, acts>>
  BY DEF Renewed
<1>2. /\ token # 0 /\ Good(token) /\ renewing = token /\ token \in Tokens
      /\ on => u = user
      /\ ~on => init = "asking" /\ user = None
  <2>1. AsGood(renewing) /\ (token # 0 => renewing = token)
    BY <1>1 DEF OneAccount
  <2>2. /\ token # 0 /\ Good(token) /\ owner[renewing] = owner[token]
        /\ on => owner[renewing] = user
        /\ ~on => init = "asking"
    BY <1>1, <2>1, GoodIsOurs
  <2>3. token \in Tokens
    BY <2>2 DEF Tokens, Typed, TypeOK, Instance
  <2> QED
    BY <2>1, <2>2, <2>3 DEF Signed
<1>3. u \in Users
  BY <1>2 DEF Handed, Given, Typed, Owners
<1>4. /\ token' = t /\ user' = u /\ on' = TRUE /\ disk' = t /\ cookie' = t
      /\ credits' = (IF u = user THEN credits ELSE u)
  BY <1>1 DEF SetAuth
<1> HIDE DEF u
<1>5. /\ t \in Tokens /\ owner[t] = None
      /\ owner' = [owner EXCEPT ![t] = u] /\ age' = [age EXCEPT ![t] = "fresh"]
      /\ owner' \in [Tokens -> Owners]
      /\ age' \in [Tokens -> {"none", "fresh", "old", "dead"}]
      /\ \E k \in 0 .. MaxTokens : \A x \in Tokens : owner'[x] # None <=> x <= k
  BY <1>1, <1>3, NewTokens
<1>6. /\ t # 0 /\ owner'[t] = u /\ Good(t)' /\ u # None
      /\ \A x \in Tokens : x # t => owner'[x] = owner[x] /\ age'[x] = age[x]
  BY <1>3, <1>5 DEF Typed, Good, Tokens, Instance
<1>7. ASSUME NEW c \in calls, c.waits
      PROVE  LET d == [c EXCEPT !.waits = FALSE, !.token = t]
             IN  d \in Requests /\ d.kind = c.kind /\ d.token = t /\ ~d.waits /\ d.stored = c.stored
  BY <1>7, <1>5 DEF Typed, Requests
<1>8. ASSUME NEW d \in calls'
      PROVE  \/ /\ d.kind = "projects" /\ d.token = t /\ ~d.waits /\ d.stored = 0 /\ d \in Requests
             \/ \E c \in calls : /\ d = IF c.waits THEN [c EXCEPT !.waits = FALSE, !.token = t] ELSE c
                                 /\ d.kind = c.kind /\ ~d.waits /\ d.stored = c.stored /\ d \in Requests
                                 /\ d.token = t \/ (d.token = c.token /\ d.token # t)
  <2>1. CASE d = [kind |-> "projects", token |-> t, waits |-> FALSE, stored |-> 0]
    <3>1. d.kind = "projects" /\ d.token = t /\ d.waits = FALSE /\ d.stored = 0
      BY <2>1
    <3>2. d \in Requests
      BY <2>1, <1>5 DEF Requests, Instance
    <3> QED
      BY <3>1, <3>2
  <2>2. CASE \E c \in calls : d = IF c.waits THEN [c EXCEPT !.waits = FALSE, !.token = t] ELSE c
    <3>1. PICK c \in calls : d = IF c.waits THEN [c EXCEPT !.waits = FALSE, !.token = t] ELSE c
      BY <2>2
    <3>2. CASE c.waits
      BY <3>1, <3>2, <1>7
    <3>3. CASE ~c.waits
      <4>1. d = c /\ c \in Requests /\ owner[c.token] # None
        BY <3>1, <3>3 DEF Typed, Handed
      <4> QED
        BY <4>1, <3>3, <1>5
    <3> QED
      BY <3>2, <3>3
  <2> QED
    BY <1>1, <2>1, <2>2
<1>9. TypeOK'
  <2>1. t \in 0 .. MaxTokens /\ t # 0 /\ 0 \in 0 .. MaxTokens
    BY <1>5 DEF Tokens, Instance
  <2>2. u \in Users \cup {None} /\ u # None /\ {credits, projects} \subseteq Users \cup {None}
    BY <1>3 DEF Instance, Typed, TypeOK
  <2> QED
    BY <1>1, <1>4, <2>1, <2>2 DEF TypeOK
<1>10. Typed'
  BY <1>1, <1>4, <1>5, <1>8, <1>9 DEF Typed
<1>11. Handed'
  <2>1. ASSUME NEW x, x = 0 \/ x \in Tokens, Given(x) PROVE Given(x)'
    BY <2>1, <1>6 DEF Given
  <2>2. ASSUME NEW d \in calls' PROVE owner'[d.token] # None /\ Given(d.stored)'
    <3>1. d.stored = 0 \/ \E c \in calls : d.stored = c.stored /\ c \in Requests /\ Given(c.stored)
      BY <1>8, <2>2 DEF Handed, Typed
    <3>2. Given(d.stored)'
      BY <3>1, <2>1 DEF Requests, Tokens, Instance, Given
    <3>3. d.token = t \/ (d.token \in Tokens /\ d.token # t /\ owner[d.token] # None)
      BY <1>8, <2>2 DEF Handed, Typed, Requests
    <3> QED
      BY <3>2, <3>3, <1>6
  <2> QED
    BY <1>1, <1>4, <1>5, <1>6, <2>2 DEF Handed, Given
<1>12. Signed'
  BY <1>1, <1>2, <1>4, <1>6 DEF Signed
<1>13. OneAccount'
  <2>1. ASSUME NEW d \in calls' PROVE AsGood(d.token)' /\ ~d.waits
    <3>1. CASE d.token = t
      BY <3>1, <1>4, <1>6, <1>8 DEF AsGood
    <3>2. CASE d.token # t
      <4>1. ~d.waits /\ d.token \in Tokens /\ \E c \in calls : d.token = c.token
        BY <3>2, <1>8 DEF Requests
      <4>2. AsGood(d.token)
        BY <4>1 DEF OneAccount
      <4>3. Good(d.token) /\ owner[d.token] = u
        BY <4>2, <1>2 DEF AsGood, u
      <4> QED
        BY <3>2, <4>1, <4>3, <1>4, <1>6 DEF AsGood, Good
    <3> QED
      BY <3>1, <3>2
  <2> QED
    BY <1>1, <2>1 DEF OneAccount
<1>14. Once'
  <2>1. ASSUME NEW d \in calls', NEW e \in calls', d.kind = "me", e.kind = "me"
        PROVE  d = e
    <3> DEFINE new(c) == IF c.waits THEN [c EXCEPT !.waits = FALSE, !.token = t] ELSE c
    <3>a. ASSUME NEW m \in calls', m.kind = "me"
          PROVE  \E c \in calls : m = new(c) /\ c.kind = "me"
      <4>1. PICK c \in calls : m = new(c) /\ m.kind = c.kind
        BY <1>8, <3>a
      <4> QED
        BY <4>1, <3>a
    <3>1. PICK c \in calls : d = new(c) /\ c.kind = "me"
      BY <3>a, <2>1
    <3>2. PICK b \in calls : e = new(b) /\ b.kind = "me"
      BY <3>a, <2>1
    <3>3. b = c
      BY <3>1, <3>2 DEF Once
    <3> QED
      BY <3>1, <3>2, <3>3
  <2>2. \A d \in calls' : d.kind = "me" => init = "asking"
    BY <1>8 DEF Once
  <2>3. ~modal.open /\ modal.who = None
    BY <1>2 DEF Once, Typed
  <2>4. ~modal'.open /\ modal'.who = None
    BY <1>1, <2>3 DEF Typed
  <2> QED
    BY <1>1, <2>1, <2>2, <2>4 DEF Once
<1>15. DataIsMine'
  BY <1>1, <1>2, <1>4 DEF DataIsMine
<1> QED
  BY <1>10, <1>11, <1>12, <1>13, <1>14, <1>15

\* Whoever the token is of is signed in.
LEMMA RecognisedStep ==
  ASSUME Instance, SessionInv, NEW c \in calls, Recognised(c)
  PROVE  SessionInv'
<1> USE DEF SessionInv
<1>1. /\ c.kind = "me" /\ Good(c.token) /\ init' = "done" /\ on' = TRUE
      /\ user' = owner[c.token] /\ credits' = owner[c.token] /\ cookie' = c.stored
      /\ UNCHANGED <<owner, age, token, disk, projects, modal, popup>>
      /\ IF ~on /\ page' = "home" THEN Send("projects", token, 0, calls \ {c}, age')
         ELSE calls' = calls \ {c} /\ UNCHANGED renewing
  BY DEF Recognised, ProjectsOf, tokens, screen
<1>2. /\ token # 0 /\ owner[c.token] = owner[token] /\ token \in Tokens
      /\ on => user = owner[token]
  BY <1>1, GoodIsOurs DEF OneAccount, Tokens, Typed, TypeOK, Instance, Signed
<1>3. owner[token] \in Users
  BY <1>2 DEF Handed, Given, Typed, Owners
<1>4. /\ OneAccount' /\ calls' \subseteq Requests /\ renewing' \in {renewing, token}
      /\ \A d \in calls' : \/ d \in calls \ {c}
                           \/ d.kind = "projects" /\ d.token = token /\ d.stored = 0
  <2>1. CASE ~on /\ page' = "home"
    <3>1. Send("projects", token, 0, calls \ {c}, age)
      BY <1>1, <2>1
    <3> QED
      BY <3>1, <1>1, <1>2, AsksMore
  <2>2. CASE ~(~on /\ page' = "home")
    BY <1>1, <2>2, FewerCalls
  <2> QED
    BY <2>1, <2>2
<1>5. c.stored \in 0 .. MaxTokens /\ Given(c.stored)
  BY DEF Typed, Requests, Handed
<1>6. TypeOK'
  BY <1>1, <1>2, <1>3, <1>4, <1>5 DEF Typed, TypeOK, Instance
<1>7. Typed'
  BY <1>1, <1>4, <1>6 DEF Typed
<1>8. Handed'
  BY <1>1, <1>2, <1>4, <1>5 DEF Handed, Given
<1>9. init # "no"
  BY DEF Signed
<1>10. Signed'
  BY <1>1, <1>2, <1>9 DEF Signed
<1>11. Once'
  BY <1>1, <1>4 DEF Once
<1>12. DataIsMine'
  BY <1>1, <1>2 DEF DataIsMine
<1> QED
  BY <1>4, <1>7, <1>8, <1>10, <1>11, <1>12

LEMMA ForgottenStep ==
  ASSUME Instance, Patient, SessionInv, NEW c \in calls, Forgotten(c)
  PROVE  SessionInv' /\ (on => ~Good(token))
<1>1. /\ ~Good(c.token) /\ c.kind = "me" /\ SignedOut /\ init' = "done" /\ calls' = calls \ {c}
      /\ UNCHANGED <<owner, age, renewing, modal, popup>>
  BY DEF Forgotten, Patient, tokens, screen
<1>2. /\ \A d \in calls : ~Good(d.token)
      /\ renewing # 0 => ~Good(renewing)
      /\ token # 0 => ~Good(token)
  BY <1>1, BadIsAll DEF SessionInv, OneAccount
<1>3. init # "no" /\ \A d \in calls' : d.kind # "me"
  BY <1>1 DEF SessionInv, Signed, Once
<1>4. SessionInv'
  BY <1>1, <1>2, <1>3, SignsOut
<1> QED
  BY <1>2, <1>4 DEF SessionInv, Typed, TypeOK

LEMMA UnauthorizedStep ==
  ASSUME Instance, SessionInv, NEW c \in calls, Unauthorized(c)
  PROVE  SessionInv' /\ (on /\ ~on' => ~Good(token))
<1>1. /\ ~Good(c.token) /\ calls' = calls \ {c}
      /\ UNCHANGED <<owner, age, init, renewing, modal>>
  BY DEF Unauthorized, tokens, screen
<1>2. init # "no"
  BY DEF SessionInv, Signed
<1>3. CASE on /\ init # "asking" /\ ~recent
  <2>1. SignedOut /\ popup' = TRUE /\ init = "done"
    BY <1>2, <1>3 DEF Unauthorized, SessionInv, Typed
  <2>2. /\ \A d \in calls : ~Good(d.token)
        /\ renewing # 0 => ~Good(renewing)
        /\ token # 0 => ~Good(token)
    BY <1>1, BadIsAll DEF SessionInv, OneAccount
  <2>3. SessionInv'
    BY <1>1, <1>2, <2>1, <2>2, SignsOut
  <2> QED
    BY <2>2, <2>3, <1>3 DEF SessionInv, Typed, TypeOK
<1>4. CASE ~(on /\ init # "asking" /\ ~recent)
  <2>1. UNCHANGED <<token, user, on, disk, cookie, credits, projects, popup>>
    BY <1>4 DEF Unauthorized, disks
  <2>2. OneAccount' /\ calls' \subseteq Requests
    BY <1>1, <2>1, FewerCalls
  <2>3. SessionInv'
    BY <1>1, <2>1, <2>2
       DEF SessionInv, Typed, TypeOK, Handed, Given, Signed, Once, DataIsMine
  <2> QED
    BY <2>1, <2>3
<1> QED
  BY <1>3, <1>4

\* What is answered to a good token is about the user of the store.
LEMMA ToldStep ==
  ASSUME Instance, SessionInv, NEW c \in calls, CreditsTold(c) \/ ProjectsTold(c)
  PROVE  SessionInv'
<1> USE DEF SessionInv
<1>1. /\ Good(c.token) /\ calls' = calls \ {c} /\ c.kind # "me"
      /\ UNCHANGED <<owner, age, token, user, on, init, disk, cookie, renewing, modal, popup>>
      /\ credits' \in {credits, owner[c.token]} /\ (credits' # credits => user # None)
      /\ projects' \in {None, projects, owner[c.token]}
  BY DEF CreditsTold, ProjectsTold, tokens, store, disks, screen
<1>2. token # 0 /\ on /\ owner[c.token] = user
  BY <1>1, GoodIsOurs DEF OneAccount
<1>3. OneAccount' /\ calls' \subseteq Requests
  BY <1>1, FewerCalls
<1>4. TypeOK'
  BY <1>1, <1>2 DEF Typed, TypeOK
<1>5. Typed' /\ Handed' /\ Signed' /\ Once'
  BY <1>1, <1>3, <1>4 DEF Typed, Handed, Given, Signed, Once
<1>6. DataIsMine'
  BY <1>1, <1>2 DEF DataIsMine
<1> QED
  BY <1>3, <1>5, <1>6

\* The pages ask.
LEMMA AsksStep ==
  ASSUME Instance, SessionInv, RefreshCredits \/ \E p \in {"home", "mine"} : Navigate(p)
  PROVE  SessionInv'
<1> USE DEF SessionInv
<1>1. /\ UNCHANGED <<owner, age, token, user, on, init, disk, cookie, credits, modal, popup>>
      /\ projects' \in {None, projects}
      /\ \/ /\ on
            /\ \/ Send("credits", token, 0, calls, age)
               \/ Send("projects", token, 0, calls, age)
         \/ UNCHANGED <<renewing, calls>>
  BY DEF RefreshCredits, Navigate, Request, tokens, store, disks, screen
<1>2. CASE UNCHANGED <<renewing, calls>>
  BY <1>1, <1>2, FewerCalls
     DEF Typed, TypeOK, Handed, Given, Signed, Once, DataIsMine
<1>3. ASSUME on, NEW kind \in {"credits", "projects"}, Send(kind, token, 0, calls, age)
      PROVE  SessionInv'
  <2>1. token # 0 /\ token \in 0 .. MaxTokens
    BY <1>3 DEF Typed, TypeOK
  <2>2. /\ OneAccount' /\ calls' \subseteq Requests /\ renewing' \in {renewing, token}
        /\ \A d \in calls' : \/ d \in calls
                             \/ d.kind = kind /\ d.token = token /\ d.stored = 0
    BY <1>1, <1>3, <2>1, AsksMore
  <2>3. TypeOK'
    BY <1>1, <2>1, <2>2 DEF Typed, TypeOK
  <2>4. Typed'
    BY <1>1, <2>2, <2>3 DEF Typed
  <2>5. Handed'
    BY <1>1, <2>1, <2>2 DEF Handed, Given
  <2>6. Signed'
    BY <1>1, <1>3 DEF Signed
  <2>7. Once'
    BY <1>1, <1>3, <2>2 DEF Once
  <2>8. DataIsMine'
    BY <1>1 DEF DataIsMine
  <2> QED
    BY <2>2, <2>4, <2>5, <2>6, <2>7, <2>8
<1> QED
  BY <1>1, <1>2, <1>3

LEMMA LogoutStep ==
  ASSUME Instance, Patient, SessionInv, Logout
  PROVE  SessionInv'
<1>1. /\ on /\ calls = {} /\ renewing = 0 /\ SignedOut
      /\ UNCHANGED <<owner, age, init, renewing, calls, modal, popup>>
  BY DEF Logout, Calm, Patient, tokens, screen
<1>2. init # "no"
  BY <1>1 DEF SessionInv, Signed
<1> QED
  BY <1>1, <1>2, SignsOut

\* Nobody is signed in, so what is signed in is new.
LEMMA LoginDoneStep ==
  ASSUME Instance, Patient, SessionInv, LoginDone
  PROVE  SessionInv'
<1> USE DEF SessionInv
<1> DEFINE u == modal.who
<1>1. PICK t \in Tokens :
        /\ u # None /\ calls = {} /\ renewing = 0 /\ NewToken(u, t) /\ SetAuth(t, u)
        /\ modal' = [open |-> FALSE, who |-> None]
        /\ ProjectsOf(t, calls)
        /\ UNCHANGED <<init, projects, popup>>
  BY DEF LoginDone, Calm, Patient
<1>2. /\ u \in Users /\ ~on /\ init = "done" /\ user = None /\ credits = None /\ projects = None
  BY <1>1 DEF Typed, Owners, Once, Signed, DataIsMine
<1>3. /\ token' = t /\ user' = u /\ on' = TRUE /\ disk' = t /\ cookie' = t
      /\ credits' = (IF u = user THEN credits ELSE u)
  BY <1>1 DEF SetAuth
<1> HIDE DEF u
<1>4. credits' = u
  BY <1>2, <1>3 DEF Instance
<1>5. /\ t \in Tokens /\ owner[t] = None
      /\ owner' = [owner EXCEPT ![t] = u] /\ age' = [age EXCEPT ![t] = "fresh"]
      /\ owner' \in [Tokens -> Owners]
      /\ age' \in [Tokens -> {"none", "fresh", "old", "dead"}]
      /\ \E k \in 0 .. MaxTokens : \A x \in Tokens : owner'[x] # None <=> x <= k
  BY <1>1, <1>2, NewTokens
<1>6. /\ t # 0 /\ owner'[t] = u /\ age'[t] = "fresh" /\ Good(t)' /\ u # None
      /\ \A x \in Tokens : x # t => owner'[x] = owner[x] /\ age'[x] = age[x]
  BY <1>2, <1>5 DEF Typed, Good, Tokens, Instance
<1> DEFINE asked == [kind |-> "projects", token |-> t, waits |-> FALSE, stored |-> 0]
<1>7. /\ renewing' = 0
      /\ calls' = {} \/ calls' = {asked}
  BY <1>1, <1>6 DEF ProjectsOf, Send
<1>8. asked \in Requests /\ asked.kind = "projects" /\ asked.token = t /\ ~asked.waits /\ asked.stored = 0
  BY <1>5 DEF Requests, Instance
<1> HIDE DEF asked
<1>9. TypeOK'
  <2>1. t \in 0 .. MaxTokens /\ 0 \in 0 .. MaxTokens /\ u \in Users \cup {None}
    BY <1>2, <1>5 DEF Tokens, Instance
  <2> QED
    BY <1>1, <1>2, <1>3, <1>4, <1>6, <1>7, <2>1 DEF TypeOK
<1>10. Typed'
  BY <1>1, <1>2, <1>3, <1>5, <1>7, <1>8, <1>9 DEF Typed, Owners
<1>11. Handed'
  BY <1>3, <1>5, <1>6, <1>7, <1>8 DEF Handed, Given
<1>12. Signed' /\ DataIsMine'
  BY <1>1, <1>2, <1>3, <1>4, <1>6 DEF Signed, DataIsMine
<1>13. OneAccount'
  BY <1>3, <1>6, <1>7, <1>8 DEF OneAccount, AsGood
<1>14. Once'
  BY <1>1, <1>2, <1>7, <1>8 DEF Once
<1> QED
  BY <1>10, <1>11, <1>12, <1>13, <1>14

LEMMA BoxStep ==
  ASSUME Instance, SessionInv,
         \/ TimeoutModal \/ WindowEnds \/ Guard \/ OpenLoginModal \/ CloseLoginModal \/ LoginFails
         \/ \E u \in Users : HandleSubmit(u)
  PROVE  SessionInv'
<1> USE DEF SessionInv
<1>1. /\ UNCHANGED <<owner, age, token, user, on, init, disk, cookie, renewing, calls, credits, projects>>
      /\ popup' => popup
  BY DEF TimeoutModal, WindowEnds, Guard, OpenLoginModal, CloseLoginModal, LoginFails,
         HandleSubmit, tokens, store, disks, screen
<1>2. /\ modal' \in [open : BOOLEAN, who : Owners]
      /\ modal'.open \/ modal'.who # None => ~on /\ init = "done"
  <2>1. CASE TimeoutModal
    BY <2>1 DEF TimeoutModal, Typed, Once
  <2>2. CASE WindowEnds
    BY <2>2 DEF WindowEnds, screen, Typed, Once
  <2>3. CASE Guard
    BY <2>3 DEF Guard, Typed
  <2>4. CASE OpenLoginModal
    BY <2>4 DEF OpenLoginModal, Owners
  <2>5. CASE CloseLoginModal
    BY <2>5 DEF CloseLoginModal, Typed, Once
  <2>6. CASE LoginFails
    BY <2>6 DEF LoginFails, Typed, Once, Owners
  <2>7. ASSUME NEW u \in Users, HandleSubmit(u)
        PROVE  /\ modal' \in [open : BOOLEAN, who : Owners]
               /\ ~on /\ init = "done"
    BY <2>7 DEF HandleSubmit, Typed, Once, Owners
  <2> QED
    BY <2>1, <2>2, <2>3, <2>4, <2>5, <2>6, <2>7
<1>3. OneAccount' /\ calls' \subseteq Requests
  BY <1>1, FewerCalls
<1>4. Typed' /\ Handed' /\ Signed' /\ DataIsMine'
  BY <1>1, <1>2 DEF Typed, TypeOK, Handed, Given, Signed, DataIsMine
<1>5. Once'
  BY <1>1, <1>2 DEF Once
<1> QED
  BY <1>3, <1>4, <1>5

\* A step that only ends the life of tokens, as long as the store's and those of
\* requests stay equally good.
LEMMA AgesStep ==
  ASSUME Instance, SessionInv, init # "no",
         UNCHANGED <<owner, store, disks, renewing, calls, credits, projects, screen, popup>>,
         age' \in [Tokens -> {"none", "fresh", "old", "dead"}],
         \A t \in Tokens : Good(t)' => Good(t),
         \A c \in calls : Good(token) => (Good(c.token)' <=> Good(token)'),
         renewing # 0 /\ Good(token) => renewing = token
  PROVE  SessionInv'
<1> USE DEF SessionInv
<1>1. UNCHANGED <<owner, token, user, on, init, disk, cookie, renewing, calls, credits, projects,
                  modal, popup>>
  BY DEF store, disks, screen
<1>2. \A t \in Tokens : Good(t)' => Good(t)
  OBVIOUS
<1>3. ASSUME NEW t \in Tokens, AsGood(t), Good(token) => (Good(t)' <=> Good(token)')
      PROVE  AsGood(t)'
  <2>1. CASE token = 0
    BY <2>1, <1>1, <1>2, <1>3 DEF AsGood
  <2>2. CASE token # 0
    <3>1. token \in Tokens
      BY <2>2 DEF Typed, TypeOK, Tokens, Instance
    <3> QED
      BY <2>2, <3>1, <1>1, <1>2, <1>3 DEF AsGood
  <2> QED
    BY <2>1, <2>2
<1>4. \A c \in calls : c.token \in Tokens
  BY DEF Typed, Requests
<1>5. \A c \in calls' : AsGood(c.token)'
  BY <1>1, <1>3, <1>4 DEF OneAccount
<1>6. renewing # 0 => AsGood(renewing)'
  <2>1. SUFFICES ASSUME renewing # 0 PROVE AsGood(renewing)'
    OBVIOUS
  <2>2. renewing \in Tokens /\ AsGood(renewing)
    BY <2>1 DEF Typed, TypeOK, Tokens, Instance, OneAccount
  <2>3. Good(token) => (Good(renewing)' <=> Good(token)')
    BY <2>1, <1>1 DEF Good
  <2> QED
    BY <2>2, <2>3, <1>3, <1>1
<1>7. OneAccount'
  BY <1>1, <1>5, <1>6 DEF OneAccount
<1>8. Typed' /\ Handed' /\ Signed' /\ Once' /\ DataIsMine'
  BY <1>1 DEF Typed, TypeOK, Handed, Given, Signed, Once, DataIsMine
<1> QED
  BY <1>7, <1>8

LEMMA AgeStep ==
  ASSUME Instance, SessionInv, NEW t \in Tokens, Age(t)
  PROVE  SessionInv'
<1>1. /\ age[t] \in {"fresh", "old"} /\ init # "no"
      /\ \A c \in calls : c.token = t /\ (c.waits \/ age[t] = "fresh")
      /\ age' = [age EXCEPT ![t] = IF @ = "fresh" THEN "old" ELSE "dead"]
      /\ UNCHANGED <<owner, store, disks, renewing, calls, credits, projects, screen, popup>>
  BY DEF Age
<1>2. age' \in [Tokens -> {"none", "fresh", "old", "dead"}]
  BY <1>1 DEF SessionInv, Typed
<1>3. \A x \in Tokens : age'[x] = IF x = t THEN (IF age[t] = "fresh" THEN "old" ELSE "dead") ELSE age[x]
  BY <1>1 DEF SessionInv, Typed
<1>4. \A x \in Tokens : Good(x)' => Good(x)
  BY <1>1, <1>3 DEF Good
<1>5. token # 0 => token \in Tokens
  BY DEF SessionInv, Typed, TypeOK, Tokens, Instance
<1>6. ASSUME NEW c \in calls, Good(token)
      PROVE  Good(c.token)' <=> Good(token)'
  <2>1. c.token = t /\ t # 0 /\ token # 0 /\ UNCHANGED token
    BY <1>1, <1>6 DEF Tokens, Instance, Good, store
  <2>2. CASE age[t] = "fresh"
    BY <1>3, <1>5, <1>6, <2>1, <2>2 DEF Good
  <2>3. CASE age[t] # "fresh"
    <3>1. renewing # 0 /\ renewing = t
      BY <1>1, <2>1, <2>3 DEF SessionInv, OneAccount
    <3>2. token = t
      BY <2>1, <3>1 DEF SessionInv, OneAccount
    <3> QED
      BY <2>1, <3>2
  <2> QED
    BY <2>2, <2>3
<1>7. renewing # 0 /\ Good(token) => renewing = token
  BY DEF SessionInv, OneAccount, Good
<1> QED
  BY <1>1, <1>2, <1>4, <1>6, <1>7, AgesStep

LEMMA ResetStep ==
  ASSUME Instance, SessionInv, NEW u \in Users, PasswordReset(u)
  PROVE  SessionInv'
<1>1. /\ init # "no"
      /\ age' = [t \in Tokens |-> IF owner[t] = u THEN "dead" ELSE age[t]]
      /\ UNCHANGED <<owner, store, disks, renewing, calls, credits, projects, screen, popup>>
  BY DEF PasswordReset
<1>2. age' \in [Tokens -> {"none", "fresh", "old", "dead"}]
  BY <1>1 DEF SessionInv, Typed
<1>3. \A x \in Tokens : Good(x)' <=> Good(x) /\ owner[x] # u
  BY <1>1 DEF Good
<1>4. token # 0 => token \in Tokens
  BY DEF SessionInv, Typed, TypeOK, Tokens, Instance
<1>5. ASSUME NEW c \in calls, Good(token)
      PROVE  Good(c.token)' <=> Good(token)'
  <2>1. token \in Tokens /\ c.token \in Tokens /\ UNCHANGED token
    BY <1>1, <1>4, <1>5 DEF Good, SessionInv, Typed, Requests, store
  <2>2. Good(c.token) /\ owner[c.token] = owner[token]
    BY <1>5 DEF SessionInv, OneAccount, AsGood, Good
  <2> QED
    BY <1>3, <1>5, <2>1, <2>2
<1>6. renewing # 0 /\ Good(token) => renewing = token
  BY DEF SessionInv, OneAccount, Good
<1> QED
  BY <1>1, <1>2, <1>3, <1>5, <1>6, AgesStep

LEMMA InitSession ==
  ASSUME Instance, Init
  PROVE  SessionInv
<1> USE DEF SessionInv
<1>1. 1 \in Tokens /\ 0 \in 0 .. MaxTokens /\ 1 \in 0 .. MaxTokens
  BY DEF Tokens, Instance
<1>2. /\ owner \in [Tokens -> Owners]
      /\ \A t \in Tokens : owner[t] # None <=> t <= IF owner[1] = None THEN 0 ELSE 1
  <2>1. CASE owner \in [Tokens -> {None}]
    BY <2>1, <1>1 DEF Owners, Tokens, Instance
  <2>2. ASSUME NEW u \in Users, owner = [t \in Tokens |-> IF t = 1 THEN u ELSE None]
        PROVE  /\ owner \in [Tokens -> Owners]
               /\ \A t \in Tokens : owner[t] # None <=> t <= IF owner[1] = None THEN 0 ELSE 1
    BY <2>2, <1>1 DEF Owners, Tokens, Instance
  <2> QED
    BY <2>1, <2>2 DEF Init
<1>3. age \in [Tokens -> {"none", "fresh", "old", "dead"}]
  BY DEF Init
<1>4. /\ token = 0 /\ user = None /\ on = FALSE /\ init = "no" /\ renewing = 0 /\ calls = {}
      /\ credits = None /\ projects = None /\ modal = [open |-> FALSE, who |-> None] /\ popup = FALSE
      /\ {disk, cookie} \subseteq {0, 1} /\ (owner[1] = None => disk = 0 /\ cookie = 0)
  BY DEF Init
<1>5. TypeOK
  BY <1>1, <1>4 DEF TypeOK
<1>6. Typed
  BY <1>2, <1>3, <1>4, <1>5 DEF Typed, Owners
<1>7. Handed
  BY <1>1, <1>2, <1>4 DEF Handed, Given
<1>8. Signed /\ OneAccount /\ Once /\ DataIsMine
  BY <1>4 DEF Signed, OneAccount, Once, DataIsMine
<1> QED
  BY <1>6, <1>7, <1>8

LEMMA AnswerStep ==
  ASSUME Instance, Patient, SessionInv, Answer
  PROVE  SessionInv'
BY RecognisedStep, ForgottenStep, ToldStep, UnauthorizedStep
   DEF Answer, Recognised, Forgotten, CreditsTold, ProjectsTold, Unauthorized, Arrived

LEMMA SessionStep ==
  ASSUME Instance, Patient, SessionInv, [Next]_vars
  PROVE  SessionInv'
<1>1. CASE UNCHANGED vars
  <2>1. UNCHANGED <<owner, age, token, user, on, init, disk, cookie, renewing, calls, credits,
                    projects, modal, popup>>
    BY <1>1 DEF vars, tokens, store, disks, screen
  <2> QED
    BY <2>1 DEF SessionInv, Typed, TypeOK, Handed, Given, Signed, OneAccount, AsGood, Good, Once,
                DataIsMine
<1>2. CASE Next
  BY <1>2, InitializeStep, RenewedStep, NotRenewedStep, AnswerStep, AsksStep, LogoutStep,
     LoginDoneStep, BoxStep, AgeStep, ResetStep DEF Next
<1> QED
  BY <1>1, <1>2

\* Whoever is signed in sees their own balance and projects, a visitor sees
\* none, and the disk keeps the session of the page: however tokens age, are
\* renewed, or are voided by a password reset elsewhere, and however many
\* requests cross, as long as the user signs out and in with none under way.
THEOREM DataStaysMine ==
  ASSUME Instance, Patient
  PROVE  Spec => [](TypeOK /\ DataIsMine /\ DiskIsStore)
<1>1. SessionInv => TypeOK /\ DataIsMine /\ DiskIsStore
  BY DEF SessionInv, Typed, Signed, DiskIsStore
<1> QED
  BY <1>1, InitSession, SessionStep, PTL DEF Spec

\* A session ends by signing out or because its own token is refused, and begins
\* by signing in or at the start of the page.
LEMMA EndsOnce ==
  ASSUME Instance, Patient, SessionInv, [Next]_vars
  PROVE  [SessionEndsOnce]_vars
<1>1. SUFFICES ASSUME Next PROVE SessionEndsOnce
  BY DEF SessionEndsOnce, vars
<1>2. on \in BOOLEAN
  BY DEF SessionInv, Typed
<1>3. CASE Initialize \/ NotRenewed \/ TimeoutModal \/ WindowEnds \/ Guard \/ OpenLoginModal
           \/ CloseLoginModal \/ LoginFails \/ RefreshCredits \/ Logout \/ LoginDone
           \/ (\E u \in Users : HandleSubmit(u) \/ PasswordReset(u))
           \/ (\E p \in {"home", "mine"} : Navigate(p)) \/ \E t \in Tokens : Age(t)
  <2>1. Logout \/ LoginDone \/ UNCHANGED on
    BY <1>3 DEF Initialize, NotRenewed, TimeoutModal, WindowEnds, Guard, OpenLoginModal,
                CloseLoginModal, LoginFails, RefreshCredits, HandleSubmit, PasswordReset, Navigate,
                Age, store
  <2>2. Logout => on
    BY DEF Logout
  <2>3. LoginDone => on' = TRUE
    BY DEF LoginDone, SetAuth
  <2> QED
    BY <2>1, <2>2, <2>3 DEF SessionEndsOnce
<1>4. CASE Renewed
  <2>1. renewing # 0 /\ Good(renewing) /\ on' = TRUE
    BY <1>4 DEF Renewed, SetAuth
  <2>2. ~on => init = "asking"
    BY <2>1, GoodIsOurs DEF SessionInv, OneAccount
  <2> QED
    BY <2>1, <2>2 DEF SessionEndsOnce
<1>5. ASSUME NEW c \in calls, Recognised(c) PROVE SessionEndsOnce
  <2>1. init = "asking" /\ on' = TRUE
    BY <1>5 DEF Recognised, SessionInv, Once
  <2> QED
    BY <2>1 DEF SessionEndsOnce
<1>6. ASSUME NEW c \in calls, Forgotten(c) PROVE SessionEndsOnce
  <2>1. (on => ~Good(token)) /\ on' = FALSE
    BY <1>6, ForgottenStep DEF Forgotten, SignedOut
  <2> QED
    BY <2>1 DEF SessionEndsOnce
<1>7. ASSUME NEW c \in calls, CreditsTold(c) \/ ProjectsTold(c) PROVE SessionEndsOnce
  BY <1>7 DEF CreditsTold, ProjectsTold, store, SessionEndsOnce
<1>8. ASSUME NEW c \in calls, Unauthorized(c) PROVE SessionEndsOnce
  <2>1. on /\ ~on' => ~Good(token)
    BY <1>8, UnauthorizedStep
  <2>2. on' = FALSE \/ on' = on
    BY <1>8 DEF Unauthorized, SignedOut
  <2> QED
    BY <2>1, <2>2, <1>2 DEF SessionEndsOnce
<1>9. CASE Answer
  BY <1>5, <1>6, <1>7, <1>8, <1>9
     DEF Answer, Recognised, Forgotten, CreditsTold, ProjectsTold, Unauthorized, Arrived
<1> QED
  BY <1>1, <1>3, <1>4, <1>9 DEF Next

\* A session that has ended does not come back by itself, and none ends while
\* its token is good (logout, the two interceptors).
THEOREM SessionsEndOnce ==
  ASSUME Instance, Patient
  PROVE  Spec => [][SessionEndsOnce]_vars
BY InitSession, SessionStep, EndsOnce, PTL DEF Spec
=============================================================================
