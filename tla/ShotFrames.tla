------------------------------ MODULE ShotFrames ------------------------------
(***************************************************************************)
(* The picture and video nodes of one shot.  From                          *)
(* src/web/src/utils/shotNodeSync.ts, the two creating handlers of         *)
(* components/nodes/script/PromptMergeModal.tsx and the copying of         *)
(* components/canvas/Canvas.tsx.                                           *)
(*                                                                         *)
(* A shot has a picture node for each slot - its start and its end, or one *)
(* reference - told by fields on the node, and a video node fed by them:   *)
(* the server takes the first picture that reaches it as the first frame   *)
(* and the next as the last.  The order is that of the edges.              *)
(***************************************************************************)
EXTENDS Naturals, Sequences, SequencesExt, FiniteSets

CONSTANTS
  Ids,         \* identities of nodes
  Habits,      \* subset of {"paste": copy nodes of the shot, "remake": delete a
               \* slot when there is a video}
  MaxActs,     \* bound: acts of the user
  None

Slots == {1, 2}

VARIABLES
  nodes,       \* the shot's nodes, in the order of the canvas
  feeds,       \* the edges into video nodes, in the order of the canvas
  used,        \* identities given out
  prompts,     \* which of the dialog's texts are written: slots, 3 for the motion
  count,       \* refImageCount
  acts

vars == <<nodes, feeds, used, prompts, count, acts>>

Node(id, kind, slot) == [id |-> id, kind |-> kind, slot |-> slot, running |-> FALSE, clone |-> FALSE, text |-> 0]
Place(id) == CHOOSE k \in DOMAIN nodes : nodes[k].id = id
Busy(S) == \E k \in S : nodes[k].running

\* findShotImageNodes: whatever bears a slot of the shot, by slot.
ShotImages == {k \in DOMAIN nodes : nodes[k].slot # 0}
FindShotImageNodes == SetToSortSeq(ShotImages, LAMBDA k, l : nodes[k].slot < nodes[l].slot
                                                               \/ (nodes[k].slot = nodes[l].slot /\ k < l))
HaveAllShotImageSlots(n) == \A i \in 1 .. n : \E k \in ShotImages : nodes[k].slot = i
VideoPlaces == {k \in DOMAIN nodes : nodes[k].kind = "video"}
FirstOf(S) == CHOOSE k \in S : \A l \in S : k <= l

\* The text a picture is made from; the other slot's stands in for it.
PromptFor(i) == IF i \in prompts THEN i ELSE CHOOSE j \in Slots : j \in prompts

Init ==
  /\ nodes = <<>> /\ feeds = <<>> /\ used = {} /\ prompts = {} /\ count = 2 /\ acts = 0

Act == acts < MaxActs /\ acts' = acts + 1

Write(i) ==
  /\ i \in {1, 2, 3} \ prompts
  /\ prompts' = prompts \cup {i}
  /\ UNCHANGED <<nodes, feeds, used, count, acts>>

HandleRefCountChange(n) ==
  /\ n # count /\ Act /\ count' = n
  /\ UNCHANGED <<nodes, feeds, used, prompts>>

\* createShotImageNode: the first node bearing the slot is used again, made
\* idle with the new text; else there is a new one.
CreateShotImageNode(ns, i, id) ==
  LET held == {k \in DOMAIN ns : ns[k].slot = i}
  IN IF held = {} THEN Append(ns, [Node(id, "image", i) EXCEPT !.text = PromptFor(i)])
     ELSE [ns EXCEPT ![FirstOf(held)] = [@ EXCEPT !.running = FALSE, !.text = PromptFor(i)]]

\* Mutant: nodes are created while one of them is generating.
GenerateImageRegardless ==
  /\ Slots \cap prompts # {} /\ (count = 1 => 1 \in prompts) /\ ~HaveAllShotImageSlots(count) /\ Act
  /\ \E i, j \in Ids \ used :
       /\ i # j
       /\ nodes' = IF count = 1 THEN CreateShotImageNode(nodes, 1, i)
                   ELSE CreateShotImageNode(CreateShotImageNode(nodes, 1, i), 2, j)
       /\ used' = used \cup {nodes'[k].id : k \in DOMAIN nodes'}
  /\ UNCHANGED <<feeds, prompts, count>>
\* The button is there until every slot is; nothing while one is generating.
HandleGenerateImage ==
  /\ Slots \cap prompts # {} /\ (count = 1 => 1 \in prompts) /\ ~HaveAllShotImageSlots(count)
  /\ ~Busy(ShotImages) /\ Act
  /\ \E i, j \in Ids \ used :
       /\ i # j
       /\ nodes' = IF count = 1 THEN CreateShotImageNode(nodes, 1, i)
                   ELSE CreateShotImageNode(CreateShotImageNode(nodes, 1, i), 2, j)
       /\ used' = used \cup {nodes'[k].id : k \in DOMAIN nodes'}
  /\ UNCHANGED <<feeds, prompts, count>>

\* createShotVideoNode: one edge from each picture of the shot, in the order
\* of the slots, those that are missing.
Fed(v) ==
  LET pictures == [k \in DOMAIN FindShotImageNodes |-> nodes[FindShotImageNodes[k]].id]
      missing == SelectSeq(pictures, LAMBDA p : \A e \in ToSet(feeds) : e # <<p, v>>)
  IN feeds \o [k \in DOMAIN missing |-> <<missing[k], v>>]

HandleGenerateVideo ==
  /\ 3 \in prompts /\ (ShotImages = {} => Slots \cap prompts # {})
  /\ (VideoPlaces # {} => ~nodes[FirstOf(VideoPlaces)].running) /\ Act
  /\ \E id \in Ids \ used :
       IF VideoPlaces = {}
       THEN /\ nodes' = Append(nodes, Node(id, "video", 0)) /\ used' = used \cup {id}
            /\ feeds' = Fed(id)
       ELSE LET k == FirstOf(VideoPlaces)
            IN /\ nodes' = [nodes EXCEPT ![k].running = FALSE] /\ feeds' = Fed(nodes[k].id)
               /\ UNCHANGED used
  /\ UNCHANGED <<prompts, count>>

\* buildClonedNode: all of the data, under a new identity and not running.
HandlePasteNode(k) ==
  /\ "paste" \in Habits /\ Act
  /\ \E id \in Ids \ used :
       /\ nodes' = Append(nodes, [nodes[k] EXCEPT !.id = id, !.running = FALSE, !.clone = TRUE])
       /\ used' = used \cup {id}
  /\ UNCHANGED <<feeds, prompts, count>>

HandleDeleteNodes(k) ==
  /\ (VideoPlaces # {} /\ nodes[k].kind = "image") => "remake" \in Habits
  /\ Act
  /\ nodes' = RemoveAt(nodes, k)
  /\ feeds' = SelectSeq(feeds, LAMBDA e : nodes[k].id \notin {e[1], e[2]})
  /\ UNCHANGED <<used, prompts, count>>

Run(k) ==
  /\ ~nodes[k].running /\ Act
  /\ nodes' = [nodes EXCEPT ![k].running = TRUE]
  /\ UNCHANGED <<feeds, used, prompts, count>>

Ends(k) ==
  /\ nodes[k].running
  /\ nodes' = [nodes EXCEPT ![k].running = FALSE]
  /\ UNCHANGED <<feeds, used, prompts, count, acts>>

Next ==
  \/ \E i \in {1, 2, 3} : Write(i)
  \/ \E n \in Slots : HandleRefCountChange(n)
  \/ HandleGenerateImage
  \/ HandleGenerateVideo
  \/ \E k \in DOMAIN nodes : \/ HandlePasteNode(k)
                             \/ HandleDeleteNodes(k)
                             \/ Run(k)
                             \/ Ends(k)

Spec == Init /\ [][Next]_vars

-----------------------------------------------------------------------------
\* Every variable has its type, and every edge joins nodes that are there.
TypeOK ==
  /\ used \subseteq Ids /\ prompts \subseteq {1, 2, 3} /\ count \in Slots
  /\ \A k \in DOMAIN nodes : nodes[k].id \in used /\ nodes[k].slot \in {0} \cup Slots
  /\ \A e \in ToSet(feeds) : {e[1], e[2]} \subseteq {nodes[k].id : k \in DOMAIN nodes}
  /\ Cardinality(ToSet(feeds)) = Len(feeds)

\* The pictures a shot's video is fed with are those of its slots, each once,
\* the start before the end: a copy of one is not a frame.
FramesInOrder ==
  \A v \in VideoPlaces :
    LET into == SelectSeq(feeds, LAMBDA e : e[2] = nodes[v].id)
        slot == [k \in DOMAIN into |-> nodes[Place(into[k][1])].slot]
    IN \A k, l \in DOMAIN slot : k < l => slot[k] < slot[l]

\* Creating the nodes of a shot does not stop showing one that is generating.
RunningStays ==
  \A k \in DOMAIN nodes : nodes[k].running /\ used' # used =>
    \E l \in DOMAIN nodes' : nodes'[l].id = nodes[k].id /\ nodes'[l].running
=============================================================================
