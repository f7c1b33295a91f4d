------------------------------ MODULE ModelChoice ------------------------------
(***************************************************************************)
(* Choosing what a node is generated with: a model of the user's channel,  *)
(* a resolution it knows, a mode the inputs allow.  From                   *)
(* src/web/src/stores/modelStore.ts, hooks/useModels.ts and                *)
(* components/panels/prompt/{PromptPanel,PromptToolbar,                    *)
(* VideoPromptControls}.tsx.                                               *)
(*                                                                         *)
(* The models and the channel are asked once, by two requests; an          *)
(* administrator can move the user to another channel at any time.         *)
(***************************************************************************)
EXTENDS Naturals, Sequences

CONSTANTS
  Channels, Fallback,  \* channels, and the one taken when it cannot be asked
  Offers,              \* the models of a channel, the default first
  Sizes,               \* the resolutions of a model
  AllSizes,            \* those offered while the model is not known
  Faults,              \* subset of {"channel": it cannot be asked, "models": they cannot,
                       \* "moved": the user is moved between the two requests}
  MaxInputs,           \* bound: inputs of a kind
  MaxTurns,            \* bound: what users and administrators do
  None

VARIABLES
  mine,        \* the user's channel, at the server
  session,     \* modelStore: stage of loading, channel, and whose models
  node,        \* model, modelProvider, resolution and videoMode of the node
  box,         \* the open panel: its selectedModel and videoMode
  inputs,      \* images and videos upstream
  sent,        \* what was generated last, with its inputs (observer)
  choices,     \* models chosen in the selector (observer)
  turns

vars == <<mine, session, node, box, inputs, sent, choices, turns>>

Modes == <<"text-to-video", "video-ref", "first-last-frame", "universal-ref">>
Elements(s) == {s[k] : k \in DOMAIN s}
\* The first element of s for which P, else otherwise.
First(s, P(_), otherwise) ==
  IF \E k \in DOMAIN s : P(s[k])
  THEN s[CHOOSE k \in DOMAIN s : P(s[k]) /\ \A l \in 1..(k - 1) : ~P(s[l])] ELSE otherwise

IsModeAvailable(n, mode) ==
  CASE mode = "universal-ref" -> n.images + n.videos \in 1..9
    [] mode = "text-to-video" -> n.images = 0 /\ n.videos = 0
    [] mode = "video-ref" -> n.images = 0 /\ n.videos = 1
    [] mode = "first-last-frame" -> n.images = 2 /\ n.videos = 0
GetAutoMode(mode, n) ==
  IF IsModeAvailable(n, mode) THEN mode
  ELSE First(Modes, LAMBDA m : IsModeAvailable(n, m), mode)

Listed == IF session.of = None THEN << >> ELSE Offers[session.of]
AvailableModels(s) == IF s.of = None THEN << >> ELSE Offers[s.of]
Resolutions(model, s) == IF model \in Elements(AvailableModels(s)) THEN Sizes[model] ELSE AllSizes

\* The effects of an open panel, run before the next click: the default model
\* where there is none, a mode the inputs allow, a resolution the model knows.
Selected(b, s, arrived) ==
  IF b.model = None /\ arrived /\ AvailableModels(s) # << >> THEN AvailableModels(s)[1] ELSE b.model
Settled(n, b, s, in, arrived) ==
  IF ~b.open THEN node' = n /\ box' = b
  ELSE LET model == Selected(b, s, arrived)
           opts == Resolutions(model, s)
       IN /\ box' = [b EXCEPT !.model = model, !.mode = GetAutoMode(@, in)]
          /\ node' = [n EXCEPT !.size = IF @ \in Elements(opts) THEN @ ELSE opts[1]]

Closed == [open |-> FALSE, model |-> None, mode |-> Modes[1]]
Fresh == [stage |-> "idle", channel |-> Fallback, of |-> None]
Init ==
  /\ mine \in Channels /\ session = Fresh /\ box = Closed
  /\ node = [model |-> None, provider |-> None, size |-> AllSizes[1], mode |-> Modes[1]]
  /\ inputs = [images |-> 0, videos |-> 0] /\ sent = None /\ choices = 0 /\ turns = 0

Turn == turns < MaxTurns /\ turns' = turns + 1

-----------------------------------------------------------------------------
(* The models of the session.                                                *)

LoadModels(s) == IF s.stage = "idle" /\ s.of = None THEN [s EXCEPT !.stage = "channel"] ELSE s
\* getMyChannel: a failure counts as an answer.
ChannelTold(ok) ==
  /\ session.stage = "channel" /\ (ok \/ "channel" \in Faults)
  /\ session' = [session EXCEPT !.stage = "models", !.channel = IF ok THEN mine ELSE Fallback]
  /\ UNCHANGED <<mine, node, box, inputs, sent, choices, turns>>
\* getModels: the server's models are those of the channel it has now.
ModelsTold ==
  /\ session.stage = "models"
  /\ session' = [session EXCEPT !.stage = "idle", !.of = mine]
  /\ Settled(node, box, session', inputs, TRUE)
  /\ UNCHANGED <<mine, inputs, sent, choices, turns>>
\* The next panel asks again.
ModelsFail ==
  /\ session.stage = "models" /\ "models" \in Faults
  /\ session' = Fresh
  /\ UNCHANGED <<mine, node, box, inputs, sent, choices, turns>>
UpdateUserChannel(c) ==
  /\ Turn /\ c # mine /\ mine' = c /\ (session.stage = "models" => "moved" \in Faults)
  /\ UNCHANGED <<session, node, box, inputs, sent, choices>>
\* The page is loaded anew: the session asks again.
Reload ==
  /\ Turn /\ session' = Fresh /\ box' = Closed
  /\ UNCHANGED <<mine, node, inputs, sent, choices>>

-----------------------------------------------------------------------------
(* The panel.                                                                *)

OpenPanel ==
  /\ Turn /\ ~box.open /\ session' = LoadModels(session)
  /\ Settled(node, [open |-> TRUE, model |-> node.model, mode |-> node.mode], session', inputs, TRUE)
  /\ UNCHANGED <<mine, inputs, sent, choices>>
HandleModelChange(m) ==
  /\ Turn /\ box.open /\ m \in Elements(Listed)
  /\ Settled([node EXCEPT !.model = m, !.provider = session.of], [box EXCEPT !.model = m], session, inputs, FALSE)
  /\ choices' = choices + 1 /\ UNCHANGED <<mine, session, inputs, sent>>
HandleResolutionChange(r) ==
  /\ Turn /\ box.open /\ r \in Elements(Resolutions(box.model, session))
  /\ node' = [node EXCEPT !.size = r]
  /\ UNCHANGED <<mine, session, box, inputs, sent, choices>>
SelectMode(mode) ==
  /\ Turn /\ box.open /\ IsModeAvailable(inputs, mode) /\ box' = [box EXCEPT !.mode = mode]
  /\ UNCHANGED <<mine, session, node, inputs, sent, choices>>
\* Nodes are connected and disconnected, whether the panel is open or not.
Connect(in) ==
  /\ Turn /\ in # inputs /\ inputs' = in
  /\ Settled(node, box, session, in, FALSE)
  /\ UNCHANGED <<mine, session, sent, choices>>

\* buildUpdateData: the channel recorded is that of the model where the model
\* is listed, else the session's.
BuildUpdateData ==
  [node EXCEPT !.model = box.model, !.mode = box.mode,
               !.provider = IF box.model \in Elements(Listed) THEN session.of ELSE session.channel]
ModelUnavailable ==
  /\ box.model # None
  /\ \/ box.model \notin Elements(Listed) \/ session.of # session.channel
     \/ node.provider # None /\ node.provider # session.channel
HandleGenerate ==
  /\ Turn /\ box.open /\ ~ModelUnavailable
  /\ node' = BuildUpdateData /\ sent' = [with |-> BuildUpdateData, from |-> inputs, of |-> session.of]
  /\ UNCHANGED <<mine, session, box, inputs, choices>>
\* A click beside the panel saves it, and one on another node closes it.
Leave ==
  /\ box.open /\ node' = BuildUpdateData /\ box' = Closed
  /\ UNCHANGED <<mine, session, inputs, sent, choices, turns>>

Next ==
  \/ \E ok \in BOOLEAN : ChannelTold(ok)
  \/ ModelsTold \/ ModelsFail \/ Reload \/ OpenPanel \/ HandleGenerate \/ Leave
  \/ \E c \in Channels : UpdateUserChannel(c)
  \/ \E c \in Channels, k \in 1..3 : k \in DOMAIN Offers[c] /\ HandleModelChange(Offers[c][k])
  \/ \E r \in Elements(AllSizes) : HandleResolutionChange(r)
  \/ \E mode \in Elements(Modes) : SelectMode(mode)
  \/ \E in \in [images : 0..MaxInputs, videos : 0..MaxInputs] : Connect(in)
Spec == Init /\ [][Next]_vars

-----------------------------------------------------------------------------
\* What is generated fits together: the model offers the resolution, and the
\* mode suits the inputs, however models, channels and inputs changed
\* (PromptPanel.tsx:438, VideoPromptControls.tsx:96).
SentFits ==
  sent # None =>
    /\ sent.with.model \in Elements(AvailableModels([of |-> sent.of])) \cup {None}
    /\ sent.with.model # None => sent.with.size \in Elements(Sizes[sent.with.model])
    /\ IsModeAvailable(sent.from, sent.with.mode)

\* A model that is offered can be chosen and then generated with
\* (PromptToolbar.tsx:1113 and :223, "please choose again").
ReselectWorks == session.of # None => session.of = session.channel

\* A node comes to another channel's models only by a choice (PromptPanel.tsx:400,
\* PromptToolbar.tsx:1113).
ProviderChosen ==
  [][node.provider # None /\ node'.provider # node.provider => choices' # choices]_vars
=============================================================================
