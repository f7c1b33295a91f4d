------------------------------- MODULE Reshoot --------------------------------
(***************************************************************************)
(* Shooting a part of a clip again: a node that names the part, in a bar   *)
(* to drag and in the words of its prompt.  From                           *)
(* src/web/src/components/nodes/VideoSegmentBar.tsx, VideoNode.tsx,        *)
(* components/canvas/NodeToolbar.tsx (startReshoot), utils/reshootPrompt.ts *)
(* and utils/reshootPatch.ts.                                              *)
(*                                                                         *)
(* How long the clip is is asked twice, by the toolbar that makes the node *)
(* and by the node when it is mounted; the strip of pictures behind the    *)
(* bar is asked for by the node.  Times are whole seconds.                 *)
(***************************************************************************)
EXTENDS Integers, FiniteSets

CONSTANTS
  Nodes,       \* the reshoot nodes that can be made, of one clip
  Lengths,     \* how long the clip can be
  Late,        \* the toolbar can be told the length after the node has been
  MaxMoves,    \* bound: drags, steps, mounts and edits of the prompt
  None

VARIABLES
  length,      \* of the clip
  part,        \* data.reshoot and the range in the prompt of each node there is
  asks,        \* probes and strip requests under way
  mounted,     \* hydratedRef: the nodes that have asked for what they need
  hold,        \* the drag of a bar: node, handle, liveRef, bandRef
  chosen,      \* the range the user let go of last (observer)
  moves

vars == <<length, part, asks, mounted, hold, chosen, moves>>

DefaultSeconds == 5
MinSeconds == 1
NoHold == [node |-> None, which |-> "none", at |-> <<0, 0>>, live |-> <<0, 0>>]
Known(n) == part[n].known
There == DOMAIN part
Lower(a, b) == IF a < b THEN a ELSE b
Upper(a, b) == IF a > b THEN a ELSE b

\* clampRange, with the length of the clip or 0 where it is not known.
ClampRange(start, end, max) ==
  LET s0 == Upper(0, Lower(start, end))
      e0 == Upper(0, Upper(start, end))
      s == Lower(s0, Upper(0, max - MinSeconds))
  IN IF max = 0 THEN <<s0, Upper(e0, s0 + MinSeconds)>>
     ELSE <<s, Lower(Upper(e0, s + MinSeconds), Upper(max, s + MinSeconds))>>

\* applyRangeToPrompt: a prompt without a range stays as it is.
Told(n, range) == IF part[n].told = None THEN None ELSE range
Range(n) == part[n].range

Init ==
  /\ length \in Lengths /\ part = << >> /\ asks = {} /\ mounted = {}
  /\ hold = NoHold /\ chosen = [n \in Nodes |-> None] /\ moves = 0

Move == moves < MaxMoves /\ moves' = moves + 1
Ask(n, of) == [node |-> n, of |-> of]

\* What a node asks for when it is mounted: the length, and the strip unless
\* it has one or another node of the clip does (findFilmstripFor).
Reused(n) == \E m \in There \ {n} : part[m].strip
Hydrate(n, hasStrip) ==
  {Ask(n, "node")} \cup (IF hasStrip \/ Reused(n) THEN {} ELSE {Ask(n, "strip")})

\* The toolbar makes the node, 00:00 - 00:05, then asks how long the clip is.
StartReshoot(n) ==
  LET range == ClampRange(0, DefaultSeconds, 0) IN
  /\ Move /\ n \in Nodes \ There /\ hold = NoHold
  /\ part' = [m \in There \cup {n} |-> IF m \in There THEN part[m]
       ELSE [range |-> range, told |-> range, known |-> 0, strip |-> Reused(n)]]
  /\ mounted' = mounted \cup {n}
  /\ asks' = asks \cup {Ask(n, "toolbar")} \cup Hydrate(n, FALSE)
  /\ UNCHANGED <<length, hold, chosen>>
\* Left and opened again: the node asks for what was not saved.
Remount(n) ==
  /\ Move /\ n \in There /\ hold = NoHold
  /\ asks' = asks \cup Hydrate(n, part[n].strip)
  /\ part' = [part EXCEPT ![n].strip = @ \/ Reused(n)]
  /\ UNCHANGED <<length, mounted, hold, chosen>>
Delete(n) ==
  /\ Move /\ n \in There /\ hold = NoHold
  /\ part' = [m \in There \ {n} |-> part[m]] /\ chosen' = [chosen EXCEPT ![n] = None]
  /\ UNCHANGED <<length, asks, mounted, hold>>
\* The user takes the range out of the prompt.
EraseRange(n) ==
  /\ Move /\ n \in There /\ part[n].told # None
  /\ part' = [part EXCEPT ![n].told = None]
  /\ UNCHANGED <<length, asks, mounted, hold, chosen>>

\* The toolbar is told the length: it writes what it made the node with,
\* cut to the clip, and all else it knows of the node - not the strip.
ToolbarTold(n) ==
  LET range == ClampRange(0, DefaultSeconds, length) IN
  /\ Ask(n, "toolbar") \in asks /\ asks' = asks \ {Ask(n, "toolbar")}
  /\ part' = IF n \in There
             THEN [part EXCEPT ![n] = [range |-> range, told |-> Told(n, range), known |-> length, strip |-> FALSE]]
             ELSE part
  /\ UNCHANGED <<length, mounted, hold, chosen, moves>>
\* applyDuration: once, and to the range there is now.
ApplyDuration(n, p) ==
  LET range == ClampRange(p[n].range[1], p[n].range[2], length) IN
  IF n \notin There \/ p[n].known # 0 THEN p
  ELSE [p EXCEPT ![n].range = range, ![n].told = Told(n, range), ![n].known = length]
NodeTold(n) ==
  /\ Ask(n, "node") \in asks /\ (Late \/ Ask(n, "toolbar") \notin asks)
  /\ asks' = asks \ {Ask(n, "node")} /\ part' = ApplyDuration(n, part)
  /\ UNCHANGED <<length, mounted, hold, chosen, moves>>
\* The strip request knows the length as well.
StripMade(n) ==
  /\ Ask(n, "strip") \in asks /\ (Late \/ Ask(n, "toolbar") \notin asks)
  /\ asks' = asks \ {Ask(n, "strip")}
  /\ part' = IF n \in There THEN [ApplyDuration(n, part) EXCEPT ![n].strip = TRUE] ELSE part
  /\ UNCHANGED <<length, mounted, hold, chosen, moves>>
\* Nothing comes of it: the source refuses the browser, a time limit.
AskFails(a) ==
  /\ a \in asks /\ asks' = asks \ {a}
  /\ UNCHANGED <<length, part, mounted, hold, chosen, moves>>

-----------------------------------------------------------------------------
(* The bar.                                                                  *)

\* commitReshootRange: the bar and the prompt in one write.
Written(n, range) == part' = [part EXCEPT ![n].range = range, ![n].told = Told(n, range)]
Grab(n, which, at) ==
  /\ Move /\ n \in There /\ Known(n) # 0 /\ hold = NoHold
  /\ which = "band" => at \in Range(n)[1]..Range(n)[2]
  /\ hold' = [node |-> n, which |-> which, at |-> <<at - Range(n)[1], Range(n)[2] - Range(n)[1]>>, live |-> Range(n)]
  /\ UNCHANGED <<length, part, asks, mounted, chosen>>
\* Where the pointer puts what is held: a handle stays in the clip and off the
\* other, the band keeps its length.
Pulled(sec) ==
  LET off == Upper(0, Lower(sec - hold.at[1], Upper(Known(hold.node) - hold.at[2], 0)))
      view == hold.live
  IN CASE hold.which = "band" -> <<off, off + hold.at[2]>>
       [] hold.which = "start" -> ClampRange(sec, view[2], Known(hold.node))
       [] hold.which = "end" -> ClampRange(view[1], sec, Known(hold.node))
DragTo(sec) ==
  /\ hold # NoHold /\ hold.node \in There /\ sec \in 0..Known(hold.node) /\ Pulled(sec) # hold.live
  /\ hold' = [hold EXCEPT !.live = Pulled(sec)]
  /\ Written(hold.node, Pulled(sec))
  /\ UNCHANGED <<length, asks, mounted, chosen, moves>>
LetGo ==
  /\ hold # NoHold /\ hold' = NoHold
  /\ Written(hold.node, hold.live) /\ chosen' = [chosen EXCEPT ![hold.node] = hold.live]
  /\ UNCHANGED <<length, asks, mounted, moves>>
\* Arrow keys on a handle.
Nudge(n, which, delta) ==
  LET range == IF which = "start" THEN ClampRange(Range(n)[1] + delta, Range(n)[2], Known(n))
               ELSE ClampRange(Range(n)[1], Range(n)[2] + delta, Known(n))
  IN /\ Move /\ n \in There /\ Known(n) # 0 /\ hold = NoHold
     /\ Written(n, range) /\ chosen' = [chosen EXCEPT ![n] = range]
     /\ UNCHANGED <<length, asks, mounted, hold>>

-----------------------------------------------------------------------------
Next ==
  \/ \E n \in Nodes :
       \/ StartReshoot(n) \/ Remount(n) \/ Delete(n) \/ EraseRange(n)
       \/ ToolbarTold(n) \/ NodeTold(n) \/ StripMade(n)
       \/ \E which \in {"start", "end", "band"}, at \in 0..length : Grab(n, which, at)
       \/ \E which \in {"start", "end"}, delta \in {-1, 1} : Nudge(n, which, delta)
  \/ \E a \in asks : AskFails(a)
  \/ \E sec \in 0..length : DragTo(sec)
  \/ LetGo
Spec == Init /\ [][Next]_vars

-----------------------------------------------------------------------------
TypeOK ==
  /\ There \subseteq Nodes /\ hold.node \in There \cup {None}
  /\ \A n \in There : part[n].known \in {0, length} /\ part[n].strip \in BOOLEAN

\* The part is at least a second long, it is in the clip once its length is
\* known, and it is the one the prompt names where it names one: the bar was
\* dragged and the answers came in any order (reshootPatch.ts:13).
RangeTold ==
  \A n \in There :
    /\ Range(n)[1] >= 0 /\ Range(n)[2] >= Range(n)[1] + MinSeconds
    /\ Known(n) # 0 => Range(n)[2] <= Upper(Known(n), MinSeconds)
    /\ part[n].told # None => part[n].told = Range(n)

\* What the user set stays as set, whatever is answered afterwards
\* (VideoNode.tsx:324, reshootPatch.ts:14).
ChosenStays ==
  \A n \in There : chosen[n] # None /\ hold.node # n => Range(n) = chosen[n]

\* Pictures that were made for a bar stay behind it.
StripStays == [][\A n \in There : part[n].strip /\ n \in DOMAIN part' => part'[n].strip]_vars
=============================================================================
