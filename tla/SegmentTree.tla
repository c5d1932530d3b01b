---------------------------- MODULE SegmentTree ----------------------------
(***************************************************************************)
(* The segment tree of include/SegmentTree.hpp: a map from addresses to    *)
(* values that is changed a range at a time.  A node stands for the        *)
(* addresses left .. right - 1; it is empty, covered by one value, or      *)
(* split between two children at the middle.                               *)
(*                                                                         *)
(* Ranges are always halved in the same place, so a tree is a function     *)
(* from all the ranges there can be to what is stored for them.  A range   *)
(* below a leaf holds what the leaf holds: that is what the code gives the *)
(* two children when it splits the leaf.  The value of a split node is     *)
(* never read and is not kept.                                             *)
(***************************************************************************)
EXTENDS Integers, SequencesExt

CONSTANTS
    MAX_RANGE,   \* the right end of the root; one less than a power of two
    NoValue      \* the value of an empty node

ASSUME RangeAssumption == MAX_RANGE \in Nat \ {0}

Addresses == 0 .. MAX_RANGE - 1

Root == [left |-> 0, right |-> MAX_RANGE]

(* left / 2 + right / 2, plus one if both are odd. *)
Mid(n) == (n.left \div 2) + (n.right \div 2)
            + (IF n.left % 2 = 1 /\ n.right % 2 = 1 THEN 1 ELSE 0)

LeftChild(n) == [left |-> n.left, right |-> Mid(n)]
RightChild(n) == [left |-> Mid(n), right |-> n.right]
Splits(n) == n.right - n.left > 1

(* The ranges that halving the root gives, level by level. *)
Nodes ==
    LET level[k \in 0 .. MAX_RANGE] ==
            IF k = 0 THEN {Root}
            ELSE UNION {{LeftChild(n), RightChild(n)} : n \in {m \in level[k - 1] : Splits(m)}}
    IN  UNION {level[k] : k \in 0 .. MAX_RANGE}

Leaf(type, v) == [type |-> type, value |-> v]
Partial == Leaf("PARTIAL_SEGMENT", NoValue)
IsCovered(s) == s.type = "COVERED_SEGMENT"

NewTree == [n \in Nodes |-> Leaf("EMPTY_SEGMENT", NoValue)]

(* Mutation of Join: the values of the two children are not compared. *)
JoinAnyValue(lc, rc) == IF lc.type = rc.type THEN lc ELSE Partial

(* Mutation of Join: equal children are kept apart. *)
JoinNever(lc, rc) == Partial

(* Two leaves that hold the same become one. *)
Join(lc, rc) == IF lc = rc THEN lc ELSE Partial

(* Set the addresses l .. r - 1 to v. *)
Set(tree, l, r, v) ==
    LET new[n \in Nodes] ==
            IF r <= n.left \/ n.right <= l \/ tree[n] = Leaf("COVERED_SEGMENT", v) THEN tree[n]
            ELSE IF l <= n.left /\ r >= n.right THEN Leaf("COVERED_SEGMENT", v)
            ELSE Join(new[LeftChild(n)], new[RightChild(n)])
    IN  IF l >= r THEN tree ELSE new

(* The value at x, or NoValue where Get returns false. *)
Get(tree, x) ==
    LET at[n \in Nodes] ==
            IF tree[n].type # "PARTIAL_SEGMENT" THEN tree[n].value
            ELSE at[IF x < Mid(n) THEN LeftChild(n) ELSE RightChild(n)]
    IN  at[Root]

Segment(tree, n) ==
    [type |-> tree[n].type, value |-> tree[n].value, left |-> n.left, right |-> n.right]

(* Mutation of Glue: the values of the segments are not compared. *)
GlueAny(s, t) ==
    IF s = <<>> \/ t = <<>> THEN s \o t
    ELSE IF Last(s).type = Head(t).type
    THEN Front(s) \o <<[Last(s) EXCEPT !.right = Head(t).right]>> \o Tail(t)
    ELSE s \o t

(* Segments behind others: the first one is joined with the one before it  *)
(* when they hold the same.                                                *)
Glue(s, t) ==
    IF s = <<>> \/ t = <<>> THEN s \o t
    ELSE IF /\ Last(s).type = Head(t).type /\ Last(s).value = Head(t).value
            /\ Last(s).right = Head(t).left
    THEN Front(s) \o <<[Last(s) EXCEPT !.right = Head(t).right]>> \o Tail(t)
    ELSE s \o t

(* The leaves that meet l .. r - 1, with their own bounds. *)
Collect(tree, l, r) ==
    LET of[n \in Nodes] ==
            IF r <= n.left \/ n.right <= l THEN <<>>
            ELSE IF tree[n].type # "PARTIAL_SEGMENT" THEN <<Segment(tree, n)>>
            ELSE Glue(of[LeftChild(n)], of[RightChild(n)])
    IN  IF l >= r THEN <<>> ELSE of[Root]

-----------------------------------------------------------------------------
(* A tree is well formed when every address has a value, what a leaf holds *)
(* is what is below it, and no two leaves under one node hold the same.    *)
WellFormed(tree) ==
    /\ DOMAIN tree = Nodes
    /\ \A n \in Nodes :
          /\ tree[n].type = "EMPTY_SEGMENT" => tree[n].value = NoValue
          /\ ~Splits(n) => tree[n].type # "PARTIAL_SEGMENT"
          /\ Splits(n) =>
                LET lc == tree[LeftChild(n)]
                    rc == tree[RightChild(n)] IN
                IF tree[n].type = "PARTIAL_SEGMENT" THEN lc = rc => lc = Partial
                ELSE lc = tree[n] /\ rc = tree[n]
=============================================================================
