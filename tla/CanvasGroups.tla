----------------------------- MODULE CanvasGroups -----------------------------
(***************************************************************************)
(* The containers of the canvas (src/web/src/utils/canvasGroups.ts) and    *)
(* the reading of edges through them (utils/topology.ts).                  *)
(*                                                                         *)
(* A canvas is a sequence of nodes, each with an id, a type, the id of the *)
(* group it hangs in (None outside of one), a position x and a width w.    *)
(* One axis stands for both: the code treats them alike but for the title  *)
(* strip, which is the difference between PadBefore and PadAfter.  A       *)
(* position is the node's CENTRE, relative to the TOP LEFT corner of its   *)
(* group; widths and pads are even, so that no half is lost.               *)
(***************************************************************************)
EXTENDS Integers, Sequences, SequencesExt, FiniteSets, FiniteSetsExt

CONSTANTS None, PadBefore, PadAfter

ASSUME PadsAssumption ==
  /\ PadBefore \in Nat /\ PadAfter \in Nat
  /\ (PadBefore + PadAfter) % 2 = 0

Ids(ns) == {ns[i].id : i \in DOMAIN ns}
TableOf(ns) == [i \in Ids(ns) |-> CHOOSE n \in ToSet(ns) : n.id = i]
IsGroup(n) == n.type = "group"
Corner(g) == g.x - g.w \div 2

\* Where a node lies on the canvas: up the parents, each seen once.
AbsoluteX(n, table) ==
  LET Lift[cur \in DOMAIN table, seen \in SUBSET DOMAIN table] ==
        LET up == table[cur].parent
        IN  IF up \notin DOMAIN table \/ up \in seen THEN 0
            ELSE Corner(table[up]) + Lift[up, seen \cup {up}]
  IN  n.x + Lift[n.id, {n.id}]

MembersOf(ns, g) == {n \in ToSet(ns) : n.parent = g /\ ~IsGroup(n)}

\* The frame around some nodes: their bounding box and the pads.
BoxForMembers(members, table) ==
  LET lo == Min({AbsoluteX(m, table) - m.w \div 2 : m \in members}) - PadBefore
      hi == Max({AbsoluteX(m, table) + m.w \div 2 : m \in members}) + PadAfter
  IN  [x |-> lo + (hi - lo) \div 2, w |-> hi - lo]

\* A group that stands behind one of its members moves in front of the first.
OrderGroupsBeforeMembers(ns) ==
  LET Hoist(seq, g) ==
        LET first == {i \in DOMAIN seq : seq[i].parent = g.id}
            at == CHOOSE i \in DOMAIN seq : seq[i].id = g.id
        IN  IF first = {} \/ Min(first) > at THEN seq
            ELSE InsertAt(RemoveAt(seq, at), Min(first), g)
  IN  FoldLeft(LAMBDA seq, n : IF IsGroup(n) THEN Hoist(seq, n) ELSE seq, ns, ns)

\* Members of a vanished group, and groups inside a group, come out to
\* absolute coordinates; the vanished nodes still say where they lay.
DetachDangling(ns, gone) ==
  LET ref == TableOf(gone \o ns)
      Out(n) == [n EXCEPT !.parent = None,
                          !.x = IF n.parent \in DOMAIN ref THEN AbsoluteX(n, ref) ELSE @]
      Stays(n) == n.parent = None \/ (n.parent \in Ids(ns) /\ ~IsGroup(n))
  IN  [i \in DOMAIN ns |-> IF Stays(ns[i]) THEN ns[i] ELSE Out(ns[i])]

\* Mutant: a group that lost its last member is kept.
FitFramesKeepingAll(ns) ==
  LET table == TableOf(ns)
      Box(g) == IF MembersOf(ns, g) = {} THEN table[g] ELSE BoxForMembers(MembersOf(ns, g), table)
      Fit(n) == CASE IsGroup(n) -> [n EXCEPT !.x = Box(n.id).x, !.w = Box(n.id).w]
                  [] ~IsGroup(n) /\ n.parent # None ->
                       [n EXCEPT !.x = AbsoluteX(n, table) - Corner(Box(n.parent))]
                  [] OTHER -> n
  IN  [i \in DOMAIN ns |-> Fit(ns[i])]
\* Every frame fits its members, which do not move on the canvas; a group
\* without members goes.
FitFrames(ns) ==
  LET table == TableOf(ns)
      Box(g) == BoxForMembers(MembersOf(ns, g), table)
      Fit(n) == CASE IsGroup(n) -> [n EXCEPT !.x = Box(n.id).x, !.w = Box(n.id).w]
                  [] ~IsGroup(n) /\ n.parent # None ->
                       [n EXCEPT !.x = AbsoluteX(n, table) - Corner(Box(n.parent))]
                  [] OTHER -> n
      kept == SelectSeq(ns, LAMBDA n : ~IsGroup(n) \/ MembersOf(ns, n.id) # {})
  IN  [i \in DOMAIN kept |-> Fit(kept[i])]

NormalizeGroups(ns, gone) ==
  FitFrames(DetachDangling(OrderGroupsBeforeMembers(ns), gone))

\* Selected nodes, old groups among them replaced by their members.
PickedMembers(ns, chosen) ==
  {n \in ToSet(ns) : ~IsGroup(n) /\ (n.id \in chosen \/ n.parent \in chosen)}

\* The new group in front of its first member, the old ones gone.
GroupFromSelection(ns, chosen, blank) ==
  LET table == TableOf(ns)
      members == PickedMembers(ns, chosen)
      box == BoxForMembers(members, table)
      group == [blank EXCEPT !.x = box.x, !.w = box.w]
      Hang(n) == IF n \in members
                 THEN [n EXCEPT !.parent = group.id,
                                !.x = AbsoluteX(n, table) - Corner(group)]
                 ELSE n
      base == SelectSeq(ns, LAMBDA n : ~(IsGroup(n) /\ n.id \in chosen))
      hung == [i \in DOMAIN base |-> Hang(base[i])]
  IN  InsertAt(hung, Min({i \in DOMAIN hung : hung[i].parent = group.id}), group)

\* Mutant: the members keep the position they had in the group.
ReleaseInPlace(ns, g) ==
  LET rest == SelectSeq(ns, LAMBDA n : n.id # g)
  IN  [i \in DOMAIN rest |-> [rest[i] EXCEPT !.parent = IF @ = g THEN None ELSE @]]
\* The members of a dissolved group, where they lay.
ReleaseGroupMembers(ns, g) ==
  LET table == TableOf(ns)
      Free(n) == IF n.parent = g
                 THEN [n EXCEPT !.parent = None, !.x = AbsoluteX(n, table)]
                 ELSE n
      rest == SelectSeq(ns, LAMBDA n : n.id # g)
  IN  [i \in DOMAIN rest |-> Free(rest[i])]

-----------------------------------------------------------------------------
(* Edges are pairs of ids.  Read through groups, an edge at a group is one   *)
(* at each of its members.                                                   *)
Sides(ns, id) == IF id \in Ids(ns) /\ IsGroup(TableOf(ns)[id])
                 THEN {m.id : m \in MembersOf(ns, id)} ELSE {id}
ExpandEdgesThroughGroups(ns, edges) ==
  UNION {Sides(ns, e[1]) \X Sides(ns, e[2]) : e \in edges}

\* The nodes with an edge path to one of them.
UpstreamOf(start, ns, edges) ==
  LET flat == ExpandEdgesThroughGroups(ns, edges)
      Reach[k \in 0..Len(ns)] ==
        IF k = 0 THEN {start}
        ELSE Reach[k-1] \cup {e[1] : e \in {f \in flat : f[2] \in Reach[k-1] /\ f[1] \in Ids(ns)}}
  IN  Reach[Len(ns)] \ {start}
=============================================================================
