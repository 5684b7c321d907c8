------------------------------- MODULE RbTree -------------------------------
(***************************************************************************)
(* The red-black tree of smart-queue.c, as operators on a tree value: the  *)
(* root, and for every node its two children, its parent and its colour.   *)
(* The two mirrored halves of the C functions are one operator with the    *)
(* side as a parameter.  rb_parent_color is two fields here.               *)
(***************************************************************************)
EXTENDS Integers, Sequences, FiniteSets

CONSTANTS Nodes,  \* the rb_node structures
          Nil     \* NULL

Sides == {"left", "right"}
Opposite(d) == IF d = "left" THEN "right" ELSE "left"

\* RB_ROOT; nodes outside the tree hold no meaning.
EmptyTree ==
  [root   |-> Nil,
   child  |-> [d \in Sides |-> [n \in Nodes |-> Nil]],
   parent |-> [n \in Nodes |-> Nil],
   color  |-> [n \in Nodes |-> "red"]]

IsRed(t, n) == t.color[n] = "red"
NilOrBlack(t, n) == n = Nil \/ ~IsRed(t, n)
Paint(t, n, c) == [t EXCEPT !.color[n] = c]
PaintIf(t, n, c) == IF n = Nil THEN t ELSE Paint(t, n, c)
SetParent(t, n, p) == IF n = Nil THEN t ELSE [t EXCEPT !.parent[n] = p]
SetChild(t, p, d, n) == [t EXCEPT !.child[d][p] = n]

\* Put new where old hangs under p, or at the root.
Hang(t, p, old, new) ==
  IF p = Nil THEN [t EXCEPT !.root = new]
  ELSE SetChild(t, p, IF t.child["left"][p] = old THEN "left" ELSE "right", new)

\* The subtree that changes sides in a rotation
Inner(t, up, d) == t.child[d][up]

\* __rb_rotate_left and __rb_rotate_right
Rotate(t, n, d) ==
  LET e == Opposite(d)
      up == t.child[e][n]
      inner == Inner(t, up, d)
      t1 == SetParent(SetChild(t, n, e, inner), inner, n)
      t2 == SetParent(SetChild(t1, up, d, n), up, t.parent[n])
      t3 == Hang(t2, t.parent[n], n, up)
  IN SetParent(t3, n, up)

\* rb_insert_color.  The variant leaves the uncle red.
PaintUncleNot(t, u) == t
PaintUncle(t, u) == Paint(t, u, "black")

RECURSIVE InsertColor(_, _)
InsertColor(t, n) ==
  LET p == t.parent[n]
      g == t.parent[p]
      d == IF p = t.child["left"][g] THEN "left" ELSE "right"
      uncle == t.child[Opposite(d)][g]
      bent == t.child[Opposite(d)][p] = n
      t1 == IF bent THEN Rotate(t, p, d) ELSE t
      top == IF bent THEN n ELSE p
      low == IF bent THEN p ELSE n
      t2 == Paint(Paint(t1, top, "black"), g, "red")
  IN IF p = Nil \/ ~IsRed(t, p) THEN Paint(t, t.root, "black")
     ELSE IF uncle # Nil /\ IsRed(t, uncle)
     THEN InsertColor(Paint(Paint(PaintUncle(t, uncle), p, "black"), g, "red"), g)
     ELSE InsertColor(Rotate(t2, g, Opposite(d)), low)

\* rb_link_node below p, and rb_insert_color.
Link(t, n, p, d) ==
  LET t1 == [t EXCEPT !.parent[n] = p, !.color[n] = "red",
                      !.child["left"][n] = Nil, !.child["right"][n] = Nil]
  IN InsertColor(IF p = Nil THEN [t1 EXCEPT !.root = n] ELSE SetChild(t1, p, d, n), n)

\* __rb_erase_color: the path through n, a child of p, is one black node short.
RECURSIVE EraseColor(_, _, _)
EraseColor(t, n, p) ==
  LET d == IF t.child["left"][p] = n THEN "left" ELSE "right"
      e == Opposite(d)
      sibling == t.child[e][p]
      \* A red sibling is rotated away first.
      t1 == IF IsRed(t, sibling)
            THEN Rotate(Paint(Paint(t, sibling, "black"), p, "red"), p, d) ELSE t
      other == t1.child[e][p]
      near == t1.child[d][other]
      far == t1.child[e][other]
      t2 == IF NilOrBlack(t1, far)
            THEN Rotate(Paint(PaintIf(t1, near, "black"), other, "red"), other, e)
            ELSE t1
      last == t2.child[e][p]
      t3 == Paint(Paint(t2, last, t2.color[p]), p, "black")
      t4 == Rotate(PaintIf(t3, t3.child[e][last], "black"), p, d)
  IN IF ~NilOrBlack(t, n) \/ n = t.root THEN PaintIf(t, n, "black")
     ELSE IF NilOrBlack(t1, near) /\ NilOrBlack(t1, far)
     THEN EraseColor(Paint(t1, other, "red"), p, t1.parent[p])
     ELSE Paint(t4, t4.root, "black")

\* The end of a chain of children on one side.
RECURSIVE Extreme(_, _, _)
Extreme(t, n, d) == IF t.child[d][n] = Nil THEN n ELSE Extreme(t, t.child[d][n], d)

\* The children of n get the parent p.
Adopt(t, n, p) == SetParent(SetParent(t, t.child["left"][n], p), t.child["right"][n], p)

\* rb_erase of a node with at most one child.
EraseThin(t, n) ==
  LET c == IF t.child["left"][n] = Nil THEN t.child["right"][n] ELSE t.child["left"][n]
      p == t.parent[n]
      t1 == Hang(SetParent(t, c, p), p, n, c)
  IN IF IsRed(t, n) THEN t1 ELSE EraseColor(t1, c, p)

\* rb_erase of a node with two: its successor s takes its place and colour.
SuccessorParent(s, n, p) == IF p = n THEN s ELSE p

EraseFull(t, n) ==
  LET s == Extreme(t, t.child["right"][n], "left")
      c == t.child["right"][s]
      p == t.parent[s]
      t1 == SetChild(SetParent(t, c, p), p, IF p = n THEN "right" ELSE "left", c)
      t2 == [t1 EXCEPT !.parent[s] = t1.parent[n], !.color[s] = t1.color[n],
                       !.child["right"][s] = t1.child["right"][n],
                       !.child["left"][s] = t1.child["left"][n]]
      t3 == Hang(t2, t2.parent[n], n, s)
      t4 == Adopt(t3, n, s)
  IN IF IsRed(t, s) THEN t4 ELSE EraseColor(t4, c, SuccessorParent(s, n, p))

\* The fields of a node outside the tree are dead (rb_link_node sets them all),
\* so they go back to their initial values.
Forget(t, n) ==
  [t EXCEPT !.parent[n] = Nil, !.color[n] = "red",
            !.child["left"][n] = Nil, !.child["right"][n] = Nil]

Erase(t, n) ==
  Forget(IF t.child["left"][n] = Nil \/ t.child["right"][n] = Nil
         THEN EraseThin(t, n) ELSE EraseFull(t, n), n)

\* rb_first and rb_last
End(t, d) == IF t.root = Nil THEN Nil ELSE Extreme(t, t.root, d)

\* rb_next (d = "right") and rb_prev (d = "left")
RECURSIVE Climb(_, _, _)
Climb(t, n, d) ==
  IF t.parent[n] # Nil /\ n = t.child[d][t.parent[n]] THEN Climb(t, t.parent[n], d)
  ELSE t.parent[n]

Step(t, n, d) ==
  IF t.parent[n] = n THEN Nil
  ELSE IF t.child[d][n] # Nil THEN Extreme(t, t.child[d][n], Opposite(d))
  ELSE Climb(t, n, d)

-----------------------------------------------------------------------------
(* What a tree says, and when it is a red-black tree *)

InOrder(t, root) ==
  LET walk[n \in Nodes \cup {Nil}] ==
        IF n = Nil THEN <<>>
        ELSE walk[t.child["left"][n]] \o <<n>> \o walk[t.child["right"][n]]
  IN walk[root]

\* rb_first, rb_last, rb_next and rb_prev walk the tree in its order, both ways.
Walked(t) ==
  LET s == InOrder(t, t.root)
      at(i) == IF i \in DOMAIN s THEN s[i] ELSE Nil
  IN /\ End(t, "left") = at(1) /\ End(t, "right") = at(Len(s))
     /\ \A i \in DOMAIN s : Step(t, s[i], "right") = at(i + 1) /\ Step(t, s[i], "left") = at(i - 1)

\* The black nodes on every path below n, or -1 if two paths differ.
RECURSIVE BlackHeight(_, _)
BlackHeight(t, n) ==
  IF n = Nil THEN 0
  ELSE LET l == BlackHeight(t, t.child["left"][n])
           r == BlackHeight(t, t.child["right"][n])
       IN IF l = -1 \/ l # r THEN -1 ELSE l + (IF IsRed(t, n) THEN 0 ELSE 1)

Reachable(t) == LET s == InOrder(t, t.root) IN {s[i] : i \in DOMAIN s}

\* Parents and children agree, the root is black, no red node has a red child
\* and every path has as many black nodes.
IsRedBlack(t) ==
  /\ t.root # Nil => ~IsRed(t, t.root) /\ t.parent[t.root] = Nil
  /\ \A n \in Reachable(t), d \in Sides :
       t.child[d][n] # Nil => /\ t.parent[t.child[d][n]] = n
                              /\ ~(IsRed(t, n) /\ IsRed(t, t.child[d][n]))
  /\ BlackHeight(t, t.root) # -1
=============================================================================
