---------------------------- MODULE Workspace_proofs ----------------------------
(***************************************************************************)
(* Proofs about the workspace page, for any projects, nodes and            *)
(* executions: a card is marked failed for a reason, and as long as the    *)
(* user waits for what was clicked, every canvas keeps to its own cards.   *)
(***************************************************************************)
EXTENDS Workspace, TLAPS, FiniteSetTheorems

\* The nodes with a failed execution or a refused submission.
Blamed ==
  {n \in Nodes : n \in refused \/ \E e \in Execs : execs[e].node = n /\ execs[e].status = "failed"}

\* A canvas of known nodes that shows as failed only some of them.
Sheet(cs, failing) ==
  \A n \in DOMAIN cs : /\ n \in Nodes /\ cs[n] \in [status : Statuses, out : Nat]
                       /\ cs[n].status = "failed" => n \in failing

\* A canvas of one project.
Fits(cs, p) == \A n \in DOMAIN cs : n \in Nodes /\ HomeOf[n] = p

Run == [node : Nodes, status : Active \cup {"done", "failed"}]
Records ==
  /\ Cardinality(DOMAIN execs) \in Nat /\ execs \in [Execs -> Run]
  /\ DOMAIN board = Projects
  /\ \A r \in loads : r.of \in Projects /\ DOMAIN r = {"visit", "of", "data"}

\* Who follows an execution knows its node and nothing else.
Followed ==
  /\ \A e \in DOMAIN streams : e \in Execs /\ streams[e] \subseteq {execs[e].node, None}
  /\ \A e \in DOMAIN subs : /\ e \in Execs /\ DOMAIN subs[e] = {"mode", "seen"}
                            /\ subs[e].seen \subseteq {execs[e].node, None}
  /\ DOMAIN resume = {"step", "found"} /\ resume.found \subseteq Execs
  /\ \A t \in tails : t.e \in Execs /\ DOMAIN t = {"e", "ask", "save"}

Known ==
  /\ Sheet(cards, Blamed)
  /\ \A p \in Projects : board[p] # None => Sheet(board[p], Blamed)
  /\ \A r \in loads : r.data # None => Sheet(r.data, Blamed)
  /\ \A r \in saves : Sheet(r.data, Blamed)

KnownInv == Records /\ Followed /\ Known

\* What waits for an answer is about the project on the screen.
Apart ==
  /\ Fits(cards, project)
  /\ \A p \in Projects : board[p] # None => Fits(board[p], p)
  /\ \A r \in loads : mounted /\ r.of = project /\ (r.data # None => Fits(r.data, r.of))
  /\ \A r \in saves : /\ Fits(r.data, r.to)
                      /\ r.by # "final" => mounted /\ (r.by # "button" => r.by \in Nodes /\ HomeOf[r.by] = project)
  /\ \A s \in submits : mounted /\ HomeOf[s.node] = project

-----------------------------------------------------------------------------
(* Writes to a canvas.                                                       *)

LEMMA MoreBlame ==
  ASSUME NEW cs, NEW S, NEW T, Sheet(cs, S), S \subseteq T
  PROVE  Sheet(cs, T)
BY DEF Sheet

LEMMA StatusOf ==
  ASSUME NEW cs, NEW ns, NEW status
  PROVE  DOMAIN SetStatus(cs, ns, status) = DOMAIN cs
BY DEF SetStatus

LEMMA StatusSheet ==
  ASSUME NEW cs, NEW ns, NEW status \in Statuses, NEW S, Sheet(cs, S),
         status = "failed" => ns \cap DOMAIN cs \subseteq S
  PROVE  Sheet(SetStatus(cs, ns, status), S)
BY DEF SetStatus, Sheet, Statuses

LEMMA CardSheet ==
  ASSUME NEW cs, NEW n, NEW status \in Statuses \ {"failed"}, NEW out \in Nat, NEW S, Sheet(cs, S)
  PROVE  Sheet(WithCard(cs, n, status, out), S) /\ DOMAIN WithCard(cs, n, status, out) = DOMAIN cs
BY DEF WithCard, Sheet

LEMMA ResultSheet ==
  ASSUME NEW cs, NEW n, NEW out \in Nat, NEW S, Sheet(cs, S)
  PROVE  Sheet(SetResult(cs, n, out), S)
<1>1. CASE ~Writable \/ n \notin DOMAIN cs
  BY <1>1 DEF SetResult
<1>2. CASE Writable /\ n \in DOMAIN cs
  <2> DEFINE new == WithCard(cs, n, "success", out)
  <2>1. Sheet(new, S)
    BY CardSheet DEF Statuses
  <2>2. SetResult(cs, n, out) = WithSibling(new, n, out)
    BY <1>2 DEF SetResult
  <2>3. n \in Nodes
    BY <1>2 DEF Sheet
  <2> HIDE DEF new
  <2>4. Sheet(WithSibling(new, n, out), S)
    BY <2>1, <2>3, WorkspaceAssumption DEF WithSibling, Sheet, Statuses
  <2> QED
    BY <2>2, <2>4
<1> QED
  BY <1>1, <1>2

LEMMA ResultFits ==
  ASSUME NEW cs, NEW n, NEW out, NEW p, Fits(cs, p)
  PROVE  Fits(SetResult(cs, n, out), p)
<1>1. CASE ~Writable \/ n \notin DOMAIN cs
  BY <1>1 DEF SetResult
<1>2. CASE Writable /\ n \in DOMAIN cs
  <2>1. n \in Nodes /\ HomeOf[n] = p
    BY <1>2 DEF Fits
  <2>2. DOMAIN WithCard(cs, n, "success", out) = DOMAIN cs
    BY DEF WithCard
  <2> QED
    BY <1>2, <2>1, <2>2, WorkspaceAssumption DEF SetResult, WithSibling, Fits
<1> QED
  BY <1>1, <1>2

LEMMA PendingWithin ==
  ASSUME NEW cs, NEW ns
  PROVE  /\ PendingOf(cs, ns) \subseteq ns
         /\ PendingOf(cs, ns) \subseteq DOMAIN cs
BY DEF PendingOf

LEMMA AfterSaves ==
  ASSUME NEW r, AfterSave(r)
  PROVE  \/ cards' = cards /\ submits' = submits
         \/ /\ r.by \notin {"button", "final"}
            /\ cards' = SetStatus(cards, {r.by}, "running")
            /\ submits' = (submits \ {[node |-> r.by, step |-> "save"]})
                            \cup {[node |-> r.by, step |-> "execute"]}
<1>1. CASE r.by = "button"
  BY <1>1, Zenon DEF AfterSave
<1>2. CASE r.by # "button" /\ r.by = "final"
  BY <1>2, Zenon DEF AfterSave
<1>3. CASE r.by # "button" /\ r.by # "final"
  BY <1>3, Zenon DEF AfterSave
<1> QED
  BY <1>1, <1>2, <1>3

-----------------------------------------------------------------------------
(* A card is marked failed for a reason.                                     *)

LEMMA Counts ==
  ASSUME NEW k \in Nat
  PROVE  Cardinality(1..k) = k
BY FS_Interval

\* Only these steps change the executions and what was refused.
LEMMA Accepting ==
  ASSUME Records, NEW n \in Nodes, NewExec(n)
  PROVE  /\ Cardinality(DOMAIN execs') = Cardinality(DOMAIN execs) + 1
         /\ execs' \in [Execs' -> Run]
         /\ \A e \in Execs : e \in Execs' /\ execs'[e] = execs[e]
         /\ Cardinality(DOMAIN execs) + 1 \in Execs'
         /\ execs'[Cardinality(DOMAIN execs) + 1].node = n
<1> DEFINE k == Cardinality(DOMAIN execs)
<1>1. k \in Nat /\ DOMAIN execs = 1..k
  BY DEF Records, Execs
<1>2. execs' = [e \in 1..(k + 1) |->
                  IF e \in 1..k THEN execs[e] ELSE [node |-> n, status |-> "pending"]]
  BY <1>1 DEF NewExec
<1> HIDE DEF k
<1>3. DOMAIN execs' = 1..(k + 1)
  BY <1>2
<1>4. Cardinality(DOMAIN execs') = k + 1
  BY <1>1, <1>3, Counts
<1>5. \A e \in 1..k : execs[e] \in Run
  BY <1>1 DEF Records, Execs
<1>6. \A e \in 1..(k + 1) : execs'[e] \in Run
  BY <1>1, <1>2, <1>5 DEF Run, Active
<1>7. execs' \in [1..(k + 1) -> Run]
  BY <1>2, <1>3, <1>6
<1>8. Execs' = 1..(k + 1) /\ Execs = 1..k
  BY <1>4 DEF Execs, k
<1> QED
  BY <1>1, <1>2, <1>4, <1>7, <1>8 DEF k

LEMMA Changing ==
  ASSUME Records, NEW e \in Execs, NEW status \in {"running", "done", "failed"}, ~Finished(e),
         execs' = [execs EXCEPT ![e].status = status]
  PROVE  /\ Cardinality(DOMAIN execs') = Cardinality(DOMAIN execs)
         /\ execs' \in [Execs' -> Run]
         /\ Execs' = Execs
         /\ \A d \in Execs : /\ execs'[d].node = execs[d].node
                             /\ execs[d].status = "failed" => execs'[d].status = "failed"
<1>1. execs \in [Execs -> Run] /\ DOMAIN execs' = DOMAIN execs
  BY DEF Records
<1>2. Execs' = Execs
  BY <1>1 DEF Execs
<1>3. execs' = [execs EXCEPT ![e] = [execs[e] EXCEPT !.status = status]]
  OBVIOUS
<1>4. execs[e] \in Run /\ execs[e].status # "failed"
  BY <1>1 DEF Finished
<1>5. /\ [execs[e] EXCEPT !.status = status] \in Run
      /\ [execs[e] EXCEPT !.status = status].node = execs[e].node
  BY <1>4 DEF Run, Active
<1> QED
  BY <1>1, <1>2, <1>3, <1>4, <1>5

\* What every step leaves of the executions: they stay, with their nodes, and
\* so does what has failed.
Grown ==
  /\ Cardinality(DOMAIN execs') \in Nat /\ execs' \in [Execs' -> Run]
  /\ \A e \in Execs : /\ e \in Execs' /\ execs'[e].node = execs[e].node
                      /\ execs[e].status = "failed" => execs'[e].status = "failed"
  /\ refused \subseteq refused'

LEMMA Same ==
  ASSUME Records, UNCHANGED <<execs, refused>>
  PROVE  Grown
BY DEF Records, Grown, Execs

LEMMA Growing ==
  ASSUME Records, [Next]_vars
  PROVE  Grown
<1>1. CASE UNCHANGED vars
  BY <1>1, Same DEF vars, runtime
<1>2. CASE Uses
  BY <1>2, Same DEF Uses, Enter, Generate, HandleSave, Leave, runtime
<1>3. CASE Answers
  <2>1. ASSUME NEW r \in loads, ReadCanvas(r) \/ LoadCanvas(r) \/ LoadFails(r)
        PROVE  Grown
    BY <2>1, Same DEF ReadCanvas, LoadCanvas, LoadFails, runtime
  <2>2. ASSUME NEW r \in saves, SaveCanvas(r) \/ SaveFails(r)
        PROVE  Grown
    BY <2>2, Same DEF SaveCanvas, SaveFails
  <2>3. ASSUME NEW n \in Nodes, Execute(n)
        PROVE  Grown
    BY <2>3, Accepting DEF Execute, Grown, Records
  <2>4. ASSUME NEW n \in Nodes, ExecuteFails(n)
        PROVE  Grown
    <3>1. refused \subseteq refused' /\ (NewExec(n) \/ UNCHANGED execs)
      BY <2>4 DEF ExecuteFails
    <3>2. CASE NewExec(n)
      BY <3>1, <3>2, Accepting DEF Grown, Records
    <3>3. CASE UNCHANGED execs
      BY <3>1, <3>3 DEF Grown, Records, Execs
    <3> QED
      BY <3>1, <3>2, <3>3
  <2> QED
    BY <1>3, <2>1, <2>2, <2>3, <2>4 DEF Answers
<1>4. CASE Follows
  BY <1>4, Same DEF Follows, NodeStarted, NodeEnded, ExecutionEnded, FallBack, PollEnded,
     Reconcile, ReleaseButton
<1>5. CASE Resumes
  BY <1>5, Same DEF Resumes, GetActive, ClearStale, Restore, Resubscribe
<1>6. CASE Serves
  <2>1. ASSUME NEW e \in Execs, Start(e)
        PROVE  Grown
    BY <2>1, Changing DEF Start, Grown, Records, Finished, runtime
  <2>2. ASSUME NEW e \in Execs, Finish(e)
        PROVE  Grown
    <3>1. PICK status \in {"done", "failed"} : execs' = [execs EXCEPT ![e].status = status]
      BY <2>2 DEF Finish
    <3> QED
      BY <2>2, <3>1, Changing DEF Finish, Grown, Records, Finished, runtime
  <2> QED
    BY <1>6, <2>1, <2>2 DEF Serves
<1> QED
  BY <1>1, <1>2, <1>3, <1>4, <1>5, <1>6 DEF Next

LEMMA BlameGrows ==
  ASSUME Grown
  PROVE  Blamed \subseteq Blamed'
BY DEF Grown, Blamed

LEMMA RecordsStay ==
  ASSUME Records, [Next]_vars
  PROVE  Records'
<1>1. DOMAIN board' = DOMAIN board
  <2>1. CASE Uses
    BY <2>1 DEF Uses, Enter, Generate, HandleSave, Leave
  <2>2. CASE Answers
    BY <2>2 DEF Answers, ReadCanvas, LoadCanvas, LoadFails, SaveCanvas, SaveFails, Execute,
       ExecuteFails
  <2>3. CASE Follows
    BY <2>3 DEF Follows, NodeStarted, NodeEnded, ExecutionEnded, FallBack, PollEnded,
       Reconcile, ReleaseButton
  <2>4. CASE Resumes
    BY <2>4 DEF Resumes, GetActive, ClearStale, Restore, Resubscribe
  <2>5. CASE Serves
    BY <2>5 DEF Serves, Start, Finish
  <2> QED
    BY <2>1, <2>2, <2>3, <2>4, <2>5 DEF Next, vars
<1>2. \A r \in loads' : r.of \in Projects /\ DOMAIN r = {"visit", "of", "data"}
  <2>1. CASE loads' \subseteq loads
    BY <2>1 DEF Records
  <2>2. ASSUME NEW p \in Projects, Enter(p)
        PROVE  loads' = loads \cup {[visit |-> entries + 1, of |-> p, data |-> None]}
    BY <2>2 DEF Enter
  <2>3. ASSUME NEW r \in loads, ReadCanvas(r)
        PROVE  \E d : loads' = (loads \ {r}) \cup {[r EXCEPT !.data = d]}
    BY <2>3 DEF ReadCanvas
  <2>4. ASSUME NEW r \in loads, NEW d
        PROVE  [r EXCEPT !.data = d].of = r.of /\ DOMAIN [r EXCEPT !.data = d] = DOMAIN r
    BY DEF Records
  <2>5. \/ loads' \subseteq loads
        \/ \E p \in Projects : Enter(p)
        \/ \E r \in loads : ReadCanvas(r)
    <3>1. CASE Uses
      BY <3>1 DEF Uses, Generate, HandleSave, Leave
    <3>2. CASE Answers
      BY <3>2 DEF Answers, LoadCanvas, LoadFails, SaveCanvas, SaveFails, Execute, ExecuteFails
    <3>3. CASE Follows
      BY <3>3 DEF Follows, NodeStarted, NodeEnded, ExecutionEnded, FallBack, PollEnded,
         Reconcile, ReleaseButton
    <3>4. CASE Resumes
      BY <3>4 DEF Resumes, GetActive, ClearStale, Restore, Resubscribe
    <3>5. CASE Serves
      BY <3>5 DEF Serves, Start, Finish
    <3> QED
      BY <3>1, <3>2, <3>3, <3>4, <3>5 DEF Next, vars
  <2>6. CASE \E p \in Projects : Enter(p)
    BY <2>2, <2>6 DEF Records
  <2>7. CASE \E r \in loads : ReadCanvas(r)
    BY <2>3, <2>4, <2>7 DEF Records
  <2> QED
    BY <2>1, <2>5, <2>6, <2>7
<1> QED
  BY <1>1, <1>2, Growing DEF Records, Grown

\* Nothing new is followed.
LEMMA FollowedLess ==
  ASSUME Followed, Grown,
         \A e \in DOMAIN streams' : e \in DOMAIN streams /\ streams'[e] = streams[e],
         \A e \in DOMAIN subs' : e \in DOMAIN subs /\ subs'[e] = subs[e],
         resume' = resume,
         \A t \in tails' : t \in tails \/ (t.e \in Execs /\ DOMAIN t = {"e", "ask", "save"})
  PROVE  Followed'
BY DEF Followed, Grown

LEMMA UsesFollowed ==
  ASSUME Followed, Grown, Uses
  PROVE  Followed'
<1>1. CASE \E n \in Nodes : Generate(n)
  BY <1>1, FollowedLess DEF Generate
<1>2. CASE HandleSave
  BY <1>2, FollowedLess DEF HandleSave, runtime
<1>3. CASE Leave
  BY <1>3 DEF Leave, Idle, Followed, Grown
<1>4. ASSUME NEW p \in Projects, Enter(p)
      PROVE  Followed'
  <2>1. /\ subs' = [e \in DOMAIN streams |-> [mode |-> "sse", seen |-> streams[e]]]
        /\ resume' = [step |-> "ask", found |-> {}]
        /\ UNCHANGED <<streams, tails>>
    BY <1>4 DEF Enter, Subscriber
  <2> QED
    BY <2>1 DEF Followed, Grown
<1> QED
  BY <1>1, <1>2, <1>3, <1>4 DEF Uses

LEMMA AnswersFollowed ==
  ASSUME Records, Followed, Grown, Answers
  PROVE  Followed'
<1>1. CASE \E r \in loads : ReadCanvas(r) \/ LoadCanvas(r) \/ LoadFails(r)
  BY <1>1, FollowedLess DEF ReadCanvas, LoadCanvas, LoadFails, runtime
<1>2. CASE \E r \in saves : SaveCanvas(r) \/ SaveFails(r)
  BY <1>2, FollowedLess DEF SaveCanvas, SaveFails
<1>3. CASE \E n \in Nodes : ExecuteFails(n)
  BY <1>3, FollowedLess DEF ExecuteFails
<1>4. ASSUME NEW n \in Nodes, Execute(n)
      PROVE  Followed'
  <2> DEFINE e == Cardinality(DOMAIN execs) + 1
  <2>1. e \in Execs' /\ execs'[e].node = n
    BY <1>4, Accepting DEF Execute
  <2>2. /\ streams' = [x \in DOMAIN streams \cup {e} |-> IF x = e THEN {n} ELSE streams[x]]
        /\ \/ subs' = subs
           \/ subs' = [x \in DOMAIN subs \cup {e} |->
                         IF x = e THEN [mode |-> "sse", seen |-> {n}] ELSE subs[x]]
        /\ UNCHANGED <<tails, resume>>
    BY <1>4 DEF Execute
  <2> HIDE DEF e
  <2>3. \A x \in DOMAIN streams' : x \in Execs' /\ streams'[x] \subseteq {execs'[x].node, None}
    BY <2>1, <2>2 DEF Followed, Grown
  <2>4. \A x \in DOMAIN subs' : /\ x \in Execs' /\ DOMAIN subs'[x] = {"mode", "seen"}
                                /\ subs'[x].seen \subseteq {execs'[x].node, None}
    BY <2>1, <2>2 DEF Followed, Grown
  <2> QED
    BY <2>2, <2>3, <2>4 DEF Followed, Grown
<1> QED
  BY <1>1, <1>2, <1>3, <1>4 DEF Answers

LEMMA HearingFollowed ==
  ASSUME Followed, Grown, NEW e \in DOMAIN subs, NEW s,
         DOMAIN s = {"mode", "seen"}, s.seen \subseteq subs[e].seen \cup {execs[e].node},
         subs' = [subs EXCEPT ![e] = s], UNCHANGED <<streams, tails, resume>>
  PROVE  Followed'
<1>1. \A x \in DOMAIN subs' : /\ x \in Execs /\ DOMAIN subs'[x] = {"mode", "seen"}
                              /\ subs'[x].seen \subseteq {execs[x].node, None}
  BY DEF Followed
<1> QED
  BY <1>1 DEF Followed, Grown

LEMMA FollowsFollowed ==
  ASSUME Followed, Grown, Follows
  PROVE  Followed'
<1>1. ASSUME NEW e \in Execs, NodeStarted(e) \/ NodeEnded(e)
      PROVE  Followed'
  <2> DEFINE n == execs[e].node
             s == [subs[e] EXCEPT !.seen = @ \cup {n}]
  <2>1. /\ e \in DOMAIN subs /\ UNCHANGED <<streams, tails, resume>>
        /\ subs' = [subs EXCEPT ![e] = s]
    BY <1>1 DEF NodeStarted, NodeEnded, Hears
  <2>2. DOMAIN s = {"mode", "seen"} /\ s.seen = subs[e].seen \cup {n}
    BY <2>1 DEF Followed
  <2> QED
    BY <2>1, <2>2, HearingFollowed
<1>2. ASSUME NEW e \in Execs, FallBack(e)
      PROVE  Followed'
  <2> DEFINE s == [subs[e] EXCEPT !.mode = "poll"]
  <2>1. /\ e \in DOMAIN subs /\ UNCHANGED <<streams, tails, resume>>
        /\ subs' = [subs EXCEPT ![e] = s]
    BY <1>2 DEF FallBack, Hears
  <2>2. DOMAIN s = {"mode", "seen"} /\ s.seen = subs[e].seen
    BY <2>1 DEF Followed
  <2> QED
    BY <2>1, <2>2, HearingFollowed
<1>3. ASSUME NEW e \in Execs, ExecutionEnded(e)
      PROVE  Followed'
  <2>1. /\ streams' = Without(streams, e) /\ subs' = Without(subs, e) /\ resume' = resume
        /\ \/ tails' = tails
           \/ \E ask : tails' = tails \cup {[e |-> e, ask |-> ask, save |-> TRUE]}
    BY <1>3 DEF ExecutionEnded
  <2> QED
    BY <2>1, FollowedLess DEF Without
<1>4. ASSUME NEW e \in Execs, PollEnded(e)
      PROVE  Followed'
  <2>1. /\ \/ streams' = streams /\ subs' = subs
           \/ streams' = Without(streams, e) /\ subs' = Without(subs, e)
        /\ resume' = resume
        /\ \/ tails' = tails
           \/ \E ask : tails' = tails \cup {[e |-> e, ask |-> ask, save |-> FALSE]}
    BY <1>4 DEF PollEnded
  <2> QED
    BY <2>1, FollowedLess DEF Without
<1>5. ASSUME NEW t \in tails, Reconcile(t)
      PROVE  Followed'
  <2>1. /\ \/ streams' = streams /\ subs' = subs
           \/ streams' = Without(streams, t.e) /\ subs' = Without(subs, t.e)
        /\ resume' = resume
        /\ \/ tails' \subseteq tails
           \/ \E n : tails' = (tails \ {t}) \cup {[t EXCEPT !.ask = @ \ {n}]}
    BY <1>5 DEF Reconcile
  <2>2. \A n : [t EXCEPT !.ask = @ \ {n}].e = t.e /\ DOMAIN [t EXCEPT !.ask = @ \ {n}] = DOMAIN t
    BY DEF Followed
  <2>3. t.e \in Execs /\ DOMAIN t = {"e", "ask", "save"}
    BY DEF Followed
  <2> QED
    BY <2>1, <2>2, <2>3, FollowedLess DEF Without
<1>6. CASE ReleaseButton
  BY <1>6, FollowedLess DEF ReleaseButton
<1> QED
  BY <1>1, <1>2, <1>3, <1>4, <1>5, <1>6 DEF Follows

LEMMA ResumesFollowed ==
  ASSUME Records, Followed, Grown, Resumes
  PROVE  Followed'
<1>1. CASE GetActive \/ ClearStale \/ Restore
  <2>1. UNCHANGED <<streams, subs, tails>>
    BY <1>1 DEF GetActive, ClearStale, Restore
  <2>2. DOMAIN resume' = {"step", "found"} /\ resume'.found \subseteq Execs
    BY <1>1 DEF GetActive, ClearStale, Restore, Idle, Followed
  <2> QED
    BY <2>1, <2>2 DEF Followed, Grown
<1>2. CASE Resubscribe
  <2> DEFINE listed == Listed(resume.found)
  <2>1. /\ streams' = listed
        /\ subs' = [x \in DOMAIN subs \cup resume.found |->
                      IF x \in DOMAIN subs THEN subs[x]
                      ELSE [mode |-> "sse", seen |-> listed[x] \ {None}]]
        /\ resume' = Idle /\ tails' = tails
    BY <1>2 DEF Resubscribe
  <2>2. \A x \in DOMAIN listed : x \in Execs /\ listed[x] \subseteq {execs[x].node, None}
    BY DEF Listed, Followed
  <2>3. \A x \in resume.found : x \in DOMAIN listed
    BY DEF Listed
  <2> HIDE DEF listed
  <2>4. \A x \in DOMAIN subs' : /\ x \in Execs /\ DOMAIN subs'[x] = {"mode", "seen"}
                                /\ subs'[x].seen \subseteq {execs[x].node, None}
    BY <2>1, <2>2, <2>3 DEF Followed
  <2> QED
    BY <2>1, <2>2, <2>4 DEF Followed, Grown, Idle
<1> QED
  BY <1>1, <1>2 DEF Resumes

LEMMA FollowedStays ==
  ASSUME Records, Followed, [Next]_vars
  PROVE  Followed'
<1>1. Grown
  BY Growing
<1>2. CASE UNCHANGED vars
  BY <1>1, <1>2, FollowedLess DEF vars, runtime
<1>3. CASE Serves
  BY <1>1, <1>3, FollowedLess DEF Serves, Start, Finish, runtime
<1> QED
  BY <1>1, <1>2, <1>3, UsesFollowed, AnswersFollowed, FollowsFollowed, ResumesFollowed DEF Next

\* Of what is known, only the canvas on the screen changes.
LEMMA KnownCards ==
  ASSUME Known, Grown, Sheet(cards', Blamed'),
         UNCHANGED board, loads' \subseteq loads,
         \A r \in saves' : r \in saves \/ Sheet(r.data, Blamed')
  PROVE  Known'
<1>1. Blamed \subseteq Blamed'
  BY BlameGrows
<1>2. \A cs : Sheet(cs, Blamed) => Sheet(cs, Blamed')
  BY <1>1, MoreBlame
<1> QED
  BY <1>2 DEF Known

LEMMA KnownSame ==
  ASSUME Known, Grown, UNCHANGED <<board, cards>>, loads' \subseteq loads,
         \A r \in saves' : r \in saves \/ r.data = cards
  PROVE  Known'
<1>1. Sheet(cards, Blamed')
  BY BlameGrows, MoreBlame DEF Known
<1> QED
  BY <1>1, KnownCards

LEMMA UsesKnown ==
  ASSUME Records, Known, Grown, Uses
  PROVE  Known'
<1>1. CASE HandleSave
  BY <1>1, KnownSame DEF HandleSave, client, Request
<1>2. CASE \E n \in Nodes : Generate(n)
  BY <1>2, KnownSame DEF Generate, client, Request
<1>3. Blamed \subseteq Blamed' /\ \A cs : Sheet(cs, Blamed) => Sheet(cs, Blamed')
  BY BlameGrows, MoreBlame
<1>4. CASE Leave
  <2>1. /\ UNCHANGED <<cards, loads, saves>>
        /\ \A p \in Projects : board'[p] = board[p] \/ board'[p] = None
    BY <1>4 DEF Leave, Records
  <2> QED
    BY <1>3, <2>1 DEF Known
<1>5. ASSUME NEW p \in Projects, Enter(p)
      PROVE  Known'
  <2>1. /\ cards' = cards \/ DOMAIN cards' = {}
        /\ loads' = loads \cup {[visit |-> entries + 1, of |-> p, data |-> None]}
        /\ UNCHANGED <<board, saves>>
    BY <1>5 DEF Enter, Empty
  <2>2. Sheet(cards', Blamed')
    BY <1>3, <2>1 DEF Known, Sheet
  <2> QED
    BY <1>3, <2>1, <2>2 DEF Known
<1> QED
  BY <1>1, <1>2, <1>4, <1>5 DEF Uses

LEMMA AnswersKnown ==
  ASSUME Records, Known, Grown, Answers
  PROVE  Known'
<1>1. Blamed \subseteq Blamed' /\ \A cs : Sheet(cs, Blamed) => Sheet(cs, Blamed')
  BY BlameGrows, MoreBlame
<1>2. ASSUME NEW r \in loads, LoadCanvas(r) \/ LoadFails(r)
      PROVE  Known'
  <2>1. (cards' = cards \/ (r.data # None /\ cards' = r.data)) /\ UNCHANGED <<board, saves>> /\ loads' \subseteq loads
    BY <1>2 DEF LoadCanvas, LoadFails, client
  <2>2. Sheet(cards', Blamed')
    BY <1>1, <2>1 DEF Known
  <2> QED
    BY <2>1, <2>2, KnownCards
<1>3. ASSUME NEW r \in loads, ReadCanvas(r)
      PROVE  Known'
  <2> DEFINE read == [r EXCEPT !.data = board[r.of]]
  <2>1. /\ UNCHANGED <<board, cards, saves>> /\ board[r.of] # None
        /\ loads' = (loads \ {r}) \cup {read}
    BY <1>3 DEF ReadCanvas, client
  <2>2. read.data = board[r.of] /\ r.of \in Projects
    BY DEF Records
  <2>3. Sheet(read.data, Blamed')
    BY <1>1, <2>1, <2>2 DEF Known
  <2> HIDE DEF read
  <2> QED
    BY <1>1, <2>1, <2>3 DEF Known
<1>4. ASSUME NEW r \in saves, SaveCanvas(r)
      PROVE  Known'
  <2>1. /\ board' = board \/ board' = [board EXCEPT ![r.to] = r.data]
        /\ saves' = saves \ {r} /\ UNCHANGED loads /\ AfterSave(r)
    BY <1>4 DEF SaveCanvas
  <2>2. cards' = cards \/ cards' = SetStatus(cards, {r.by}, "running")
    BY <2>1, AfterSaves
  <2>3. Sheet(cards', Blamed')
    BY <1>1, <2>2, StatusSheet DEF Known, Statuses
  <2>4. \A p \in Projects : board'[p] # None => Sheet(board'[p], Blamed')
    BY <1>1, <2>1 DEF Known, Records
  <2> QED
    BY <1>1, <2>1, <2>3, <2>4 DEF Known
<1>5. ASSUME NEW r \in saves, SaveFails(r)
      PROVE  Known'
  <2>1. /\ cards' = cards \/ cards' = SetStatus(cards, {r.by}, "idle")
        /\ saves' = saves \ {r} /\ UNCHANGED <<board, loads>>
    BY <1>5 DEF SaveFails
  <2>2. Sheet(cards', Blamed')
    BY <1>1, <2>1, StatusSheet DEF Known, Statuses
  <2> QED
    BY <2>1, <2>2, KnownCards
<1>6. CASE \E n \in Nodes : Execute(n)
  BY <1>6, KnownSame DEF Execute, client
<1>7. ASSUME NEW n \in Nodes, ExecuteFails(n)
      PROVE  Known'
  <2>1. /\ cards' = SetStatus(cards, {n}, "failed") /\ n \in Blamed'
        /\ saves' = saves \cup {Request(HomeOf[n], cards', "final")}
        /\ UNCHANGED <<board, loads>>
    BY <1>7 DEF ExecuteFails, Blamed
  <2>2. Sheet(cards, Blamed')
    BY <1>1 DEF Known
  <2>3. Sheet(cards', Blamed')
    BY <2>1, <2>2, StatusSheet DEF Statuses
  <2> QED
    BY <2>1, <2>3, KnownCards DEF Request
<1> QED
  BY <1>2, <1>3, <1>4, <1>5, <1>6, <1>7 DEF Answers

\* What is still pending of an execution that failed is its own node.
LEMMA MissedIsBlamed ==
  ASSUME Records, Followed, Known, NEW e \in DOMAIN subs, execs[e].status = "failed", NEW cs,
         DOMAIN cs \subseteq Nodes
  PROVE  PendingOf(cs, subs[e].seen) \subseteq Blamed
<1>1. e \in Execs /\ subs[e].seen \subseteq {execs[e].node, None}
  BY DEF Followed
<1>2. execs[e].node \in Blamed
  BY <1>1 DEF Blamed, Records, Run
<1> QED
  BY <1>1, <1>2, PendingWithin, WorkspaceAssumption

LEMMA FollowsKnown ==
  ASSUME Records, Followed, Known, Grown, Follows
  PROVE  Known'
<1>1. Blamed \subseteq Blamed' /\ \A cs : Sheet(cs, Blamed) => Sheet(cs, Blamed')
  BY BlameGrows, MoreBlame
<1>2. Sheet(cards, Blamed)
  BY DEF Known
<1>3. \A e \in Execs : /\ execs[e].node \in Nodes /\ e \in Nat
                       /\ execs[e].status = "failed" => execs[e].node \in Blamed
  BY DEF Blamed, Records, Run, Execs
<1>4. ASSUME NEW e \in Execs, NodeStarted(e)
      PROVE  Known'
  <2>1. cards' = SetStatus(cards, {execs[e].node}, "running") /\ UNCHANGED <<board, loads, saves>>
    BY <1>4 DEF NodeStarted
  <2>2. Sheet(cards', Blamed)
    BY <1>2, <2>1, StatusSheet DEF Statuses
  <2> QED
    BY <1>1, <2>1, <2>2, KnownCards
<1>5. ASSUME NEW e \in Execs, NodeEnded(e)
      PROVE  Known'
  <2> DEFINE n == execs[e].node
  <2>1. /\ Finished(e) /\ UNCHANGED <<board, loads, saves>>
        /\ cards' = IF execs[e].status = "done" THEN SetResult(cards, n, e)
                    ELSE SetStatus(cards, {n}, "failed")
    BY <1>5 DEF NodeEnded
  <2>2. Sheet(SetResult(cards, n, e), Blamed)
    BY <1>2, <1>3, ResultSheet
  <2>3. execs[e].status # "done" => n \in Blamed
    BY <1>3, <2>1 DEF Finished
  <2>4. execs[e].status # "done" => Sheet(SetStatus(cards, {n}, "failed"), Blamed)
    BY <1>2, <2>3, StatusSheet DEF Statuses
  <2> QED
    BY <1>1, <2>1, <2>2, <2>4, KnownCards
<1>6. ASSUME NEW e \in Execs, ExecutionEnded(e)
      PROVE  Known'
  <2> DEFINE missed == PendingOf(cards, subs[e].seen)
  <2>1. /\ Finished(e) /\ e \in DOMAIN subs /\ UNCHANGED <<board, loads>>
        /\ cards' = IF execs[e].status = "done" THEN cards ELSE SetStatus(cards, missed, "failed")
        /\ \A r \in saves' : r \in saves \/ r.data = cards'
    BY <1>6 DEF ExecutionEnded, Hears, Request
  <2>2. execs[e].status # "done" => missed \subseteq Blamed
    BY <1>2, <2>1, MissedIsBlamed DEF Sheet, Finished
  <2> HIDE DEF missed
  <2>3. execs[e].status # "done" => Sheet(SetStatus(cards, missed, "failed"), Blamed)
    BY <1>2, <2>2, StatusSheet DEF Statuses
  <2> QED
    BY <1>1, <1>2, <2>1, <2>3, KnownCards
<1>7. ASSUME NEW e \in Execs, PollEnded(e)
      PROVE  Known'
  <2> DEFINE n == execs[e].node
             p == HomeOf[n]
             ok == execs[e].status = "done"
             told == streams[e] = {n} /\ board[p] # None /\ n \in DOMAIN board[p]
             written == IF ~told THEN cards
                        ELSE IF ok THEN SetResult(cards, n, board[p][n].out)
                        ELSE SetStatus(cards, {n}, "failed")
             missed == PendingOf(written, subs[e].seen)
  <2>1. /\ Finished(e) /\ e \in DOMAIN subs /\ UNCHANGED <<board, loads, saves>>
        /\ cards' = IF ok THEN written ELSE SetStatus(written, missed, "failed")
    BY <1>7 DEF PollEnded
  <2>2. told => board[p][n].out \in Nat
    BY <1>3, WorkspaceAssumption DEF Known, Sheet
  <2>3. ~ok => execs[e].status = "failed" /\ n \in Blamed
    BY <1>3, <2>1 DEF Finished
  <2>4. Sheet(written, Blamed)
    <3>1. CASE ~told
      BY <1>2, <3>1
    <3>2. CASE told /\ ok
      BY <1>2, <2>2, <3>2, ResultSheet
    <3>3. CASE told /\ ~ok
      BY <1>2, <2>3, <3>3, StatusSheet DEF Statuses
    <3> QED
      BY <3>1, <3>2, <3>3
  <2> HIDE DEF written
  <2>5. ~ok => missed \subseteq Blamed
    BY <2>1, <2>3, <2>4, MissedIsBlamed DEF Sheet
  <2> HIDE DEF missed
  <2>6. Sheet(cards', Blamed)
    BY <2>1, <2>4, <2>5, StatusSheet DEF Statuses
  <2> QED
    BY <1>1, <2>1, <2>6, KnownCards
<1>8. ASSUME NEW t \in tails, Reconcile(t)
      PROVE  Known'
  <2> DEFINE p == HomeOf[execs[t.e].node]
  <2>1. PICK n \in t.ask :
          \/ cards' = cards
          \/ /\ board[p] # None /\ n \in DOMAIN board[p]
             /\ cards' = WithCard(cards, n, "success", board[p][n].out)
          \/ cards' = SetStatus(cards, {n}, "idle")
    <3>1. PICK n \in t.ask :
            \/ /\ board[p] # None /\ n \in DOMAIN board[p]
               /\ cards' = IF Writable /\ On(n) THEN WithCard(cards, n, "success", board[p][n].out)
                           ELSE cards
            \/ cards' = SetStatus(cards, {n}, "idle")
      BY <1>8 DEF Reconcile
    <3> QED
      BY <3>1
  <2>5. UNCHANGED <<board, loads>> /\ (saves' = saves \/ saves' = saves \cup {Request(project, cards', "final")})
    BY <1>8 DEF Reconcile
  <2>6. \A r \in saves' : r \in saves \/ r.data = cards'
    BY <2>5 DEF Request
  <2>2. p \in Projects
    BY <1>3, WorkspaceAssumption DEF Followed
  <2>3. board[p] # None /\ n \in DOMAIN board[p] => board[p][n].out \in Nat
    BY <2>2 DEF Known, Sheet
  <2>4. Sheet(cards', Blamed)
    BY <1>2, <2>1, <2>3, StatusSheet, CardSheet DEF Statuses
  <2> QED
    BY <1>1, <2>4, <2>5, <2>6, KnownCards
<1>9. CASE ReleaseButton
  BY <1>9, KnownSame DEF ReleaseButton, client
<1>10. CASE \E e \in Execs : FallBack(e)
  BY <1>10, KnownSame DEF FallBack, client
<1> QED
  BY <1>4, <1>5, <1>6, <1>7, <1>8, <1>9, <1>10 DEF Follows

LEMMA ResumesKnown ==
  ASSUME Known, Grown, Resumes
  PROVE  Known'
<1>1. CASE GetActive
  BY <1>1, KnownSame DEF GetActive, client
<1>2. CASE ClearStale \/ Restore \/ Resubscribe
  <2>1. /\ UNCHANGED <<board, loads, saves>>
        /\ \E ns, status : status \in {"idle", "running"} /\ cards' = SetStatus(cards, ns, status)
    BY <1>2 DEF ClearStale, Restore, Resubscribe, Rerun
  <2>2. Sheet(cards, Blamed')
    BY BlameGrows, MoreBlame DEF Known
  <2>3. Sheet(cards', Blamed')
    BY <2>1, <2>2, StatusSheet DEF Statuses
  <2> QED
    BY <2>1, <2>3, KnownCards
<1> QED
  BY <1>1, <1>2 DEF Resumes

LEMMA ServesKnown ==
  ASSUME Records, Known, Grown, Serves
  PROVE  Known'
<1>1. CASE \E e \in Execs : Start(e)
  BY <1>1, KnownSame DEF Start, client
<1>2. ASSUME NEW e \in Execs, Finish(e)
      PROVE  Known'
  <2> DEFINE p == HomeOf[execs[e].node]
  <2>1. /\ UNCHANGED <<cards, loads, saves>>
        /\ \/ board' = board
           \/ /\ board[p] # None
              /\ board' = [board EXCEPT ![p] = WithCard(board[p], execs[e].node, "success", e)]
    BY <1>2 DEF Finish, client
  <2>2. Blamed \subseteq Blamed' /\ \A cs : Sheet(cs, Blamed) => Sheet(cs, Blamed')
    BY BlameGrows, MoreBlame
  <2>3. p \in Projects /\ e \in Nat
    BY WorkspaceAssumption DEF Records, Run, Execs
  <2>4. board[p] # None => Sheet(WithCard(board[p], execs[e].node, "success", e), Blamed)
    BY <2>3, CardSheet DEF Known, Statuses
  <2>5. \A q \in Projects : board'[q] # None => Sheet(board'[q], Blamed)
    BY <2>1, <2>3, <2>4 DEF Known, Records
  <2> QED
    BY <2>1, <2>2, <2>5 DEF Known
<1> QED
  BY <1>1, <1>2 DEF Serves

LEMMA KnownInvStep ==
  ASSUME KnownInv, [Next]_vars
  PROVE  KnownInv'
<1>1. Grown
  BY Growing DEF KnownInv
<1>2. CASE UNCHANGED vars
  <2>1. UNCHANGED <<board, cards, loads, saves>>
    BY <1>2 DEF vars, client
  <2> QED
    BY <1>1, <2>1, KnownSame, RecordsStay, FollowedStays DEF KnownInv
<1>3. Known'
  BY <1>1, <1>2, UsesKnown, AnswersKnown, FollowsKnown, ResumesKnown, ServesKnown
     DEF KnownInv, Next
<1> QED
  BY <1>3, RecordsStay, FollowedStays DEF KnownInv

LEMMA KnownInit ==
  ASSUME Init
  PROVE  KnownInv
<1>1. PICK left \in Left, n \in Nodes :
        /\ board = [p \in Projects |-> [m \in Originals(p) |->
                      IF m = n /\ left # "nothing" THEN [Fresh EXCEPT !.status = "running"] ELSE Fresh]]
        /\ execs = IF left = "execution" THEN <<[node |-> n, status |-> "running"]>> ELSE << >>
  BY DEF Init
<1>2. /\ Cardinality(DOMAIN execs) \in Nat /\ execs \in [Execs -> Run]
  <2>1. CASE left = "execution"
    <3>1. execs = [i \in 1..1 |-> [node |-> n, status |-> "running"]]
      BY <1>1, <2>1
    <3>2. DOMAIN execs = 1..1 /\ Cardinality(DOMAIN execs) = 1
      BY <3>1, Counts
    <3> QED
      BY <3>1, <3>2 DEF Execs, Run, Active
  <2>2. CASE left # "execution"
    <3>1. DOMAIN execs = 1..0 /\ Cardinality(DOMAIN execs) = 0 /\ execs = << >>
      BY <1>1, <2>2, Counts
    <3> QED
      BY <3>1 DEF Execs
  <2> QED
    BY <2>1, <2>2
<1>3. \A p \in Projects : Sheet(board[p], Blamed)
  BY <1>1 DEF Sheet, Fresh, Statuses, Originals
<1>4. Records
  BY <1>1, <1>2 DEF Records, Init
<1>5. Followed
  BY DEF Followed, Init, Idle
<1>6. Known
  BY <1>3 DEF Known, Init, Sheet, Empty
<1> QED
  BY <1>4, <1>5, <1>6 DEF KnownInv

\* A card that is shown as failed has a failed execution or a refused
\* submission behind it, whatever is lost, left or answered late.
THEOREM FailuresHaveReasons == Spec => []FailedForAReason
<1>1. KnownInv => FailedForAReason
  BY DEF KnownInv, Known, Sheet, Blamed, FailedForAReason
<1> QED
  BY <1>1, KnownInit, KnownInvStep, PTL DEF Spec

-----------------------------------------------------------------------------
(* Every canvas keeps to its own cards.                                      *)

\* The user waits for what was clicked last.
Patient == ~Hasty

ApartInv == KnownInv /\ Apart

\* A step on the same page that keeps what is under way.
LEMMA ApartHere ==
  ASSUME Apart, UNCHANGED <<board, project, mounted>>, Fits(cards', project),
         loads' \subseteq loads, submits' \subseteq submits,
         \A r \in saves' : r \in saves \/ (Fits(r.data, r.to) /\ r.by = "final")
  PROVE  Apart'
BY DEF Apart

LEMMA ApartSame ==
  ASSUME Apart, UNCHANGED <<board, project, mounted, cards>>,
         loads' \subseteq loads, submits' \subseteq submits,
         \A r \in saves' : r \in saves \/ (r.data = cards /\ r.to = project /\ r.by = "final")
  PROVE  Apart'
BY ApartHere DEF Apart

LEMMA StatusFits ==
  ASSUME NEW cs, NEW ns, NEW status, NEW p, Fits(cs, p)
  PROVE  Fits(SetStatus(cs, ns, status), p)
BY StatusOf DEF Fits

LEMMA CardFits ==
  ASSUME NEW cs, NEW n, NEW status, NEW out, NEW p, Fits(cs, p)
  PROVE  Fits(WithCard(cs, n, status, out), p)
BY DEF Fits, WithCard

LEMMA UsesApart ==
  ASSUME Patient, ApartInv, Uses
  PROVE  Apart'
<1>1. CASE HandleSave
  <2>1. /\ mounted /\ UNCHANGED <<board, project, mounted, cards, loads, submits>>
        /\ saves' = saves \cup {[to |-> project, data |-> cards, by |-> "button"]}
    BY <1>1 DEF HandleSave, client, runtime, Request
  <2> QED
    BY <2>1 DEF ApartInv, Apart
<1>2. ASSUME NEW n \in Nodes, Generate(n)
      PROVE  Apart'
  <2>1. /\ mounted /\ n \in DOMAIN cards
        /\ UNCHANGED <<board, project, mounted, cards, loads>>
        /\ saves' = saves \cup {[to |-> project, data |-> cards, by |-> n]}
        /\ submits' = submits \cup {[node |-> n, step |-> "save"]}
    BY <1>2 DEF Generate, client, Request, On
  <2>2. HomeOf[n] = project
    BY <2>1 DEF ApartInv, Apart, Fits
  <2> QED
    BY <2>1, <2>2 DEF ApartInv, Apart
<1>3. CASE Leave
  <2>1. /\ loads = {} /\ submits = {} /\ \A r \in saves : r.by = "final"
        /\ UNCHANGED <<project, cards, loads, saves, submits>>
        /\ \A p \in Projects : board'[p] = board[p] \/ board'[p] = None
    BY <1>3 DEF Leave, Settled, Patient, ApartInv, KnownInv, Records
  <2> QED
    BY <2>1 DEF ApartInv, Apart
<1>4. ASSUME NEW p \in Projects, Enter(p)
      PROVE  Apart'
  <2>1. /\ ~mounted /\ mounted' /\ UNCHANGED <<board, saves, submits>>
        /\ project' = p /\ (DOMAIN cards' = {} \/ (project = p /\ cards' = cards))
        /\ loads' = loads \cup {[visit |-> entries + 1, of |-> p, data |-> None]}
    BY <1>4 DEF Enter, Empty
  <2>2. loads = {} /\ submits = {} /\ \A r \in saves : r.by = "final"
    BY <2>1 DEF ApartInv, Apart
  <2>3. Fits(cards', p)
    BY <2>1 DEF ApartInv, Apart, Fits
  <2> QED
    BY <2>1, <2>2, <2>3 DEF ApartInv, Apart
<1> QED
  BY <1>1, <1>2, <1>3, <1>4 DEF Uses

LEMMA AnswersApart ==
  ASSUME ApartInv, Answers
  PROVE  Apart'
<1>1. Fits(cards, project)
  BY DEF ApartInv, Apart
<1>2. ASSUME NEW r \in loads, LoadCanvas(r) \/ LoadFails(r)
      PROVE  Apart'
  <2>1. /\ UNCHANGED <<board, project, mounted, saves, submits>> /\ loads' \subseteq loads
        /\ cards' = cards \/ (r.data # None /\ cards' = r.data)
    BY <1>2 DEF LoadCanvas, LoadFails, client, runtime
  <2>2. Fits(cards', project)
    BY <1>1, <2>1 DEF ApartInv, Apart
  <2> QED
    BY <2>1, <2>2, ApartHere DEF ApartInv
<1>3. ASSUME NEW r \in loads, ReadCanvas(r)
      PROVE  Apart'
  <2> DEFINE read == [r EXCEPT !.data = board[r.of]]
  <2>1. /\ UNCHANGED <<board, cards, project, mounted, saves, submits>> /\ board[r.of] # None
        /\ loads' = (loads \ {r}) \cup {read}
    BY <1>3 DEF ReadCanvas, client, runtime
  <2>2. read.data = board[r.of] /\ read.of = r.of /\ r.of \in Projects
    BY DEF ApartInv, KnownInv, Records
  <2>3. Fits(read.data, read.of)
    BY <2>1, <2>2 DEF ApartInv, Apart
  <2> HIDE DEF read
  <2> QED
    BY <2>1, <2>2, <2>3 DEF ApartInv, Apart
<1>4. ASSUME NEW r \in saves, SaveCanvas(r)
      PROVE  Apart'
  <2>1. /\ board' = board \/ board' = [board EXCEPT ![r.to] = r.data]
        /\ saves' = saves \ {r} /\ UNCHANGED <<loads, project, mounted>> /\ AfterSave(r)
    BY <1>4 DEF SaveCanvas
  <2>2. \A p \in Projects : board'[p] # None => Fits(board'[p], p)
    BY <2>1 DEF ApartInv, Apart, KnownInv, Records
  <2>3. \/ cards' = cards /\ submits' = submits
        \/ /\ r.by \notin {"button", "final"}
           /\ cards' = SetStatus(cards, {r.by}, "running")
           /\ submits' = (submits \ {[node |-> r.by, step |-> "save"]})
                           \cup {[node |-> r.by, step |-> "execute"]}
    BY <2>1, AfterSaves
  <2>4. Fits(cards', project)
    BY <1>1, <2>3, StatusFits
  <2>5. \A s \in submits' : mounted /\ HomeOf[s.node] = project
    BY <2>3 DEF ApartInv, Apart
  <2> QED
    BY <2>1, <2>2, <2>4, <2>5 DEF ApartInv, Apart
<1>5. ASSUME NEW r \in saves, SaveFails(r)
      PROVE  Apart'
  <2>1. /\ cards' = cards \/ cards' = SetStatus(cards, {r.by}, "idle")
        /\ saves' = saves \ {r} /\ submits' \subseteq submits
        /\ UNCHANGED <<board, loads, project, mounted>>
    BY <1>5 DEF SaveFails
  <2>2. Fits(cards', project)
    BY <1>1, <2>1, StatusFits
  <2> QED
    BY <2>1, <2>2, ApartHere DEF ApartInv
<1>6. CASE \E n \in Nodes : Execute(n)
  BY <1>6, ApartSame DEF Execute, Submitted, client, ApartInv
<1>7. ASSUME NEW n \in Nodes, ExecuteFails(n)
      PROVE  Apart'
  <2>1. /\ cards' = SetStatus(cards, {n}, "failed") /\ HomeOf[n] = project
        /\ saves' = saves \cup {[to |-> HomeOf[n], data |-> cards', by |-> "final"]}
        /\ UNCHANGED <<board, loads, project, mounted>> /\ submits' \subseteq submits
    BY <1>7 DEF ExecuteFails, Submitted, Request, ApartInv, Apart
  <2>2. Fits(cards', project)
    BY <1>1, <2>1, StatusFits
  <2> QED
    BY <2>1, <2>2, ApartHere DEF ApartInv
<1> QED
  BY <1>2, <1>3, <1>4, <1>5, <1>6, <1>7 DEF Answers

LEMMA FollowsApart ==
  ASSUME ApartInv, Follows
  PROVE  Apart'
<1>1. Fits(cards, project)
  BY DEF ApartInv, Apart
<1>2. UNCHANGED <<board, project, mounted, loads, submits>>
  BY DEF Follows, NodeStarted, NodeEnded, ExecutionEnded, FallBack, PollEnded, Reconcile,
     ReleaseButton, client
<1>3. /\ saves' = saves \/ saves' = saves \cup {[to |-> project, data |-> cards', by |-> "final"]}
  BY DEF Follows, NodeStarted, NodeEnded, ExecutionEnded, FallBack, PollEnded, Reconcile,
     ReleaseButton, Request
<1>4. Fits(cards', project)
  <2>1. CASE \E e \in Execs : NodeStarted(e) \/ NodeEnded(e)
    BY <1>1, <2>1, StatusFits, ResultFits DEF NodeStarted, NodeEnded
  <2>2. CASE \E e \in Execs : ExecutionEnded(e) \/ FallBack(e)
    BY <1>1, <2>2, StatusFits DEF ExecutionEnded, FallBack, client
  <2>3. CASE \E e \in Execs : PollEnded(e)
    <3>1. \E n, out, missed :
            LET written == {cards, SetResult(cards, n, out), SetStatus(cards, {n}, "failed")}
            IN  \E cs \in written : cards' = cs \/ cards' = SetStatus(cs, missed, "failed")
      BY <2>3 DEF PollEnded
    <3> QED
      BY <1>1, <3>1, StatusFits, ResultFits
  <2>4. CASE \E t \in tails : Reconcile(t)
    BY <1>1, <2>4, StatusFits, CardFits DEF Reconcile
  <2>5. CASE ReleaseButton
    BY <1>1, <2>5 DEF ReleaseButton, client
  <2> QED
    BY <2>1, <2>2, <2>3, <2>4, <2>5 DEF Follows
<1> QED
  BY <1>2, <1>3, <1>4, ApartHere DEF ApartInv

LEMMA ResumesApart ==
  ASSUME ApartInv, Resumes
  PROVE  Apart'
<1>1. /\ UNCHANGED <<board, project, mounted, loads, saves, submits>>
      /\ cards' = cards \/ \E ns, status : cards' = SetStatus(cards, ns, status)
  BY DEF Resumes, GetActive, ClearStale, Restore, Resubscribe, Rerun, client
<1>2. Fits(cards', project)
  BY <1>1, StatusFits DEF ApartInv, Apart
<1> QED
  BY <1>1, <1>2, ApartHere DEF ApartInv

LEMMA ServesApart ==
  ASSUME ApartInv, Serves
  PROVE  Apart'
<1> DEFINE Stored == \/ board' = board
                     \/ \E p \in Projects : \E n, e :
                          /\ board[p] # None
                          /\ board' = [board EXCEPT ![p] = WithCard(board[p], n, "success", e)]
<1>1. UNCHANGED <<project, mounted, cards, loads, saves, submits>> /\ Stored
  <2>1. CASE \E e \in Execs : Start(e)
    BY <2>1 DEF Start, client, runtime
  <2>2. ASSUME NEW e \in Execs, Finish(e)
        PROVE  UNCHANGED <<project, mounted, cards, loads, saves, submits>> /\ Stored
    <3>1. HomeOf[execs[e].node] \in Projects
      BY WorkspaceAssumption DEF ApartInv, KnownInv, Records, Run
    <3> QED
      BY <2>2, <3>1 DEF Finish, client, runtime
  <2> QED
    BY <2>1, <2>2 DEF Serves
<1>2. \A p \in Projects : board'[p] # None => Fits(board'[p], p)
  BY <1>1, CardFits DEF ApartInv, Apart, KnownInv, Records
<1> QED
  BY <1>1, <1>2 DEF ApartInv, Apart

\* As long as the user waits for what was clicked last, no project's canvas
\* ever gets a card of another, neither at the server nor on the screen.
THEOREM CanvasesStayApart ==
  ASSUME Patient
  PROVE  Spec => []CanvasesApart
<1>1. Init => ApartInv
  <2> SUFFICES ASSUME Init PROVE Apart
    BY KnownInit DEF ApartInv
  <2>1. \A p \in Projects : Fits(board[p], p)
    BY DEF Init, Fits, Originals
  <2> QED
    BY <2>1 DEF Init, Apart, Fits, Empty
<1>2. ApartInv /\ [Next]_vars => ApartInv'
  <2> SUFFICES ASSUME ApartInv, [Next]_vars PROVE Apart'
    BY KnownInvStep DEF ApartInv
  <2>1. CASE UNCHANGED vars
    <3>1. UNCHANGED <<board, project, mounted, cards, loads, saves, submits>>
      BY <2>1 DEF vars, client, runtime
    <3> QED
      BY <3>1, ApartSame DEF ApartInv
  <2> QED
    BY <2>1, UsesApart, AnswersApart, FollowsApart, ResumesApart, ServesApart DEF Next
<1>3. ApartInv => CanvasesApart
  BY DEF ApartInv, Apart, Fits, CanvasesApart
<1> QED
  BY <1>1, <1>2, <1>3, PTL DEF Spec
===============================================================================
