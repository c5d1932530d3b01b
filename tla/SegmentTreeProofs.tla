------------------------- MODULE SegmentTreeProofs -------------------------
(***************************************************************************)
(* What the operations of the segment tree do, for a root of any size: Set *)
(* changes the addresses of its range and no other, Get finds what is      *)
(* stored for an address, and Collect cuts a range into the longest        *)
(* segments of equal value.                                                *)
(***************************************************************************)
EXTENDS SegmentTree, SequenceLemmas

-----------------------------------------------------------------------------
(* Recursive functions                                                     *)

(* What H gives for f and x depends on f at arguments of less weight only. *)
Descends(H, S, D, w, bound) ==
    /\ w \in [S -> 0 .. bound] /\ bound \in Nat
    /\ H \in [[S -> D] \X S -> D]
    /\ \A x \in S : \A f, g \in [S -> D] :
          (\A y \in S : w[y] < w[x] => f[y] = g[y]) => H[<<f, x>>] = H[<<g, x>>]

(* A function that is defined from its values at smaller arguments exists. *)
LEMMA RecursiveFunction ==
  ASSUME NEW S, NEW D, NEW w, NEW bound, NEW H, Descends(H, S, D, w, bound),
         NEW f0 \in [S -> D]
  PROVE  \E f \in [S -> D] : \A x \in S : f[x] = H[<<f, x>>]
<1>0. /\ w \in [S -> 0 .. bound] /\ bound \in Nat
      /\ H \in [[S -> D] \X S -> D]
  BY DEF Descends
<1> DEFINE T == {k \in Nat : \E f \in [S -> D] :
                                 \A x \in S : w[x] < k => f[x] = H[<<f, x>>]}
<1>1. 0 \in T
  BY <1>0
<1>2. ASSUME NEW k \in Nat, k \in T PROVE k + 1 \in T
  <2>1. PICK f \in [S -> D] : \A x \in S : w[x] < k => f[x] = H[<<f, x>>]
    BY <1>2
  <2> DEFINE g == [x \in S |-> H[<<f, x>>]]
  <2>2. g \in [S -> D] /\ \A x \in S : g[x] = H[<<f, x>>]
    BY <1>0
  <2> HIDE DEF g
  <2>3. ASSUME NEW x \in S, w[x] < k + 1 PROVE g[x] = H[<<g, x>>]
    <3>1. \A y \in S : w[y] < w[x] => f[y] = g[y]
      <4> SUFFICES ASSUME NEW y \in S, w[y] < w[x] PROVE f[y] = g[y]
        OBVIOUS
      <4>1. w[y] \in Nat /\ w[x] \in Nat
        BY <1>0
      <4>2. w[y] < k
        BY <2>3, <4>1
      <4> QED
        BY <2>1, <2>2, <4>2
    <3> QED
      BY <2>2, <3>1 DEF Descends
  <2> QED
    BY <2>2, <2>3
<1>3. bound + 1 \in T
  <2>1. Nat \subseteq T
    <3> HIDE DEF T
    <3> QED
      BY <1>1, <1>2, NatSetInduction
  <2>2. bound + 1 \in Nat
    BY <1>0
  <2> HIDE DEF T
  <2> QED
    BY <2>1, <2>2
<1>4. PICK f \in [S -> D] : \A x \in S : w[x] < bound + 1 => f[x] = H[<<f, x>>]
  BY <1>3
<1>5. \A x \in S : w[x] < bound + 1
  BY <1>0
<1> QED
  BY <1>4, <1>5

(* A step from one element of M to the next, for each number up to n.      *)
Steps(op, M, n) == n \in Nat /\ op \in [M \X (1 .. n) -> M]

(* f[k] is what k steps lead to.                                           *)
Iterates(f, first, op, n) ==
    \A k \in 0 .. n : f[k] = IF k = 0 THEN first ELSE op[<<f[k - 1], k>>]

(* Such steps can be taken one after the other.                            *)
LEMMA IndexFunction ==
  ASSUME NEW n, NEW M, NEW op, Steps(op, M, n), NEW first \in M
  PROVE  \E f \in [0 .. n -> M] : Iterates(f, first, op, n)
<1>0. n \in Nat /\ op \in [M \X (1 .. n) -> M]
  BY DEF Steps
<1> DEFINE S == 0 .. n
           w == [k \in S |-> k]
           f0 == [k \in S |-> first]
           H == [p \in [S -> M] \X S |->
                    IF p[2] = 0 THEN first ELSE op[<<p[1][p[2] - 1], p[2]>>]]
<1>1. w \in [S -> 0 .. n] /\ f0 \in [S -> M]
  BY <1>0
<1>2. H \in [[S -> M] \X S -> M]
  <2> SUFFICES ASSUME NEW f \in [S -> M], NEW k \in S, k # 0 PROVE op[<<f[k - 1], k>>] \in M
    OBVIOUS
  <2>1. k - 1 \in S /\ k \in 1 .. n
    BY <1>0
  <2> QED
    BY <1>0, <2>1
<1>3. \A f \in [S -> M], k \in S : H[<<f, k>>] = IF k = 0 THEN first ELSE op[<<f[k - 1], k>>]
  OBVIOUS
<1>4. Descends(H, S, M, w, n)
  <2>1. ASSUME NEW k \in S, NEW f \in [S -> M], NEW g \in [S -> M],
               \A y \in S : w[y] < w[k] => f[y] = g[y]
        PROVE  H[<<f, k>>] = H[<<g, k>>]
    <3> HIDE DEF H
    <3>1. k # 0 => f[k - 1] = g[k - 1]
      <4>1. k # 0 => k - 1 \in S /\ w[k - 1] < w[k]
        BY <1>0
      <4> QED
        BY <2>1, <4>1
    <3> QED
      BY <1>3, <3>1
  <2> HIDE DEF H, w, S
  <2> QED
    BY <1>0, <1>1, <1>2, <2>1 DEF Descends
<1> HIDE DEF H, w, f0, S
<1>5. PICK f \in [S -> M] : \A x \in S : f[x] = H[<<f, x>>]
  BY <1>1, <1>4, RecursiveFunction
<1>6. \A k \in S : f[k] = IF k = 0 THEN first ELSE op[<<f[k - 1], k>>]
  BY <1>3, <1>5
<1> QED
  BY <1>5, <1>6 DEF S, Iterates

-----------------------------------------------------------------------------
(* The nodes                                                               *)

Ranges == [left : 0 .. MAX_RANGE, right : 0 .. MAX_RANGE]
Width(n) == n.right - n.left

Halves(S) == UNION {{LeftChild(n), RightChild(n)} : n \in {m \in S : Splits(m)}}

(* The recursive function inside Nodes.                                    *)
Levels(level) == level = [k \in 0 .. MAX_RANGE |-> IF k = 0 THEN {Root} ELSE Halves(level[k - 1])]

(* The middle of a range that can be split lies inside it.                 *)
LEMMA MidInside ==
  ASSUME NEW n \in Ranges, Splits(n)
  PROVE  n.left < Mid(n) /\ Mid(n) < n.right /\ Mid(n) \in 0 .. MAX_RANGE
<1>1. \A l, r \in Nat : r - l > 1 =>
          LET m == (l \div 2) + (r \div 2) + (IF l % 2 = 1 /\ r % 2 = 1 THEN 1 ELSE 0)
          IN  l < m /\ m < r /\ m \in Nat
  OBVIOUS
<1>2. n.left \in Nat /\ n.right \in Nat /\ n.right - n.left > 1 /\ n.right <= MAX_RANGE /\ MAX_RANGE \in Nat
  BY RangeAssumption DEF Ranges, Splits
<1> QED
  BY <1>1, <1>2 DEF Mid

(* The halves of ranges are ranges, and are not empty.                     *)
LEMMA HalfRanges ==
  ASSUME NEW n \in Ranges, Splits(n)
  PROVE  /\ LeftChild(n) \in Ranges /\ RightChild(n) \in Ranges
         /\ LeftChild(n).left = n.left /\ LeftChild(n).right = Mid(n)
         /\ RightChild(n).left = Mid(n) /\ RightChild(n).right = n.right
         /\ n.left < Mid(n) /\ Mid(n) < n.right
         /\ Width(LeftChild(n)) \in Nat /\ Width(LeftChild(n)) < Width(n)
         /\ Width(RightChild(n)) \in Nat /\ Width(RightChild(n)) < Width(n)
<1>1. n.left < Mid(n) /\ Mid(n) < n.right /\ Mid(n) \in 0 .. MAX_RANGE
  BY MidInside
<1>2. n.left \in 0 .. MAX_RANGE /\ n.right \in 0 .. MAX_RANGE
  BY DEF Ranges
<1> QED
  BY <1>1, <1>2, RangeAssumption DEF LeftChild, RightChild, Ranges, Width

(* The levels exist, and no range of a level is wider than what is left of *)
(* the root.                                                               *)
LEMMA LevelsExist ==
  \E level \in [0 .. MAX_RANGE -> SUBSET Ranges] : Levels(level)
<1> DEFINE M == SUBSET Ranges
           op == [p \in M \X (1 .. MAX_RANGE) |-> Halves(p[1])]
           first == {Root}
<1>1. first \in M /\ MAX_RANGE \in Nat
  BY RangeAssumption DEF Root, Ranges
<1>2. Steps(op, M, MAX_RANGE)
  <2> SUFFICES ASSUME NEW S \in SUBSET Ranges PROVE Halves(S) \in SUBSET Ranges
    BY RangeAssumption DEF Steps
  <2> QED
    BY HalfRanges DEF Halves
<1>3. \A S \in M, k \in 1 .. MAX_RANGE : op[<<S, k>>] = Halves(S)
  OBVIOUS
<1> HIDE DEF op, first, M
<1>4. PICK f \in [0 .. MAX_RANGE -> M] : Iterates(f, first, op, MAX_RANGE)
  BY <1>1, <1>2, IndexFunction
<1>5. \A k \in 0 .. MAX_RANGE : f[k] = IF k = 0 THEN {Root} ELSE Halves(f[k - 1])
  <2> SUFFICES ASSUME NEW k \in 0 .. MAX_RANGE PROVE f[k] = IF k = 0 THEN {Root} ELSE Halves(f[k - 1])
    OBVIOUS
  <2>1. CASE k = 0
    BY <1>1, <1>4, <2>1 DEF first, Iterates
  <2>2. CASE k # 0
    <3>1. k \in 1 .. MAX_RANGE /\ k - 1 \in 0 .. MAX_RANGE
      BY <2>2, <1>1
    <3>2. f[k - 1] \in M
      BY <3>1
    <3>3. op[<<f[k - 1], k>>] = Halves(f[k - 1])
      BY <1>3, <3>1, <3>2
    <3> QED
      BY <1>4, <2>2, <3>3 DEF Iterates
  <2> QED
    BY <2>1, <2>2
<1>6. Levels(f)
  BY <1>5 DEF Levels
<1> QED
  BY <1>6 DEF M

(* A range of level k is not empty, and halving has made it smaller k times. *)
LEMMA LevelRanges ==
  ASSUME NEW f, Levels(f)
  PROVE  \A k \in 0 .. MAX_RANGE : \A n \in f[k] :
             n \in Ranges /\ n.left < n.right /\ Width(n) <= MAX_RANGE - k
<1>0. MAX_RANGE \in Nat \ {0}
  BY RangeAssumption
<1>1. \A k \in 0 .. MAX_RANGE : f[k] = IF k = 0 THEN {Root} ELSE Halves(f[k - 1])
  <2> DEFINE g == [k \in 0 .. MAX_RANGE |-> IF k = 0 THEN {Root} ELSE Halves(f[k - 1])]
  <2>1. \A k \in 0 .. MAX_RANGE : g[k] = IF k = 0 THEN {Root} ELSE Halves(f[k - 1])
    BY Zenon
  <2>2. f = g
    BY Zenon DEF Levels
  <2> HIDE DEF g
  <2> QED
    BY <2>1, <2>2
<1> DEFINE Good(k) == \A n \in f[k] :
                          n \in Ranges /\ n.left < n.right /\ Width(n) <= MAX_RANGE - k
           T == {k \in Nat : k <= MAX_RANGE => Good(k)}
<1>2. 0 \in T
  <2>1. f[0] = {Root}
    BY <1>0, <1>1
  <2> QED
    BY <1>0, <2>1 DEF Root, Ranges, Width
<1>3. ASSUME NEW k \in Nat, k \in T PROVE k + 1 \in T
  <2> SUFFICES ASSUME k + 1 <= MAX_RANGE PROVE Good(k + 1)
    OBVIOUS
  <2>1. f[k + 1] = Halves(f[k])
    <3>1. k + 1 \in 0 .. MAX_RANGE /\ k + 1 # 0 /\ (k + 1) - 1 = k
      BY <1>0
    <3> QED
      BY <1>1, <3>1
  <2>2. Good(k)
    BY <1>0, <1>3
  <2>3. SUFFICES ASSUME NEW m \in f[k], Splits(m), NEW n \in {LeftChild(m), RightChild(m)}
                 PROVE  n \in Ranges /\ n.left < n.right /\ Width(n) <= MAX_RANGE - (k + 1)
    BY <2>1, Zenon DEF Halves
  <2>4. m \in Ranges /\ Width(m) <= MAX_RANGE - k /\ Width(m) \in Int
    BY <2>2 DEF Ranges, Width
  <2>5. n \in Ranges /\ n.left < n.right /\ Width(n) \in Nat /\ Width(n) < Width(m)
    BY <2>3, <2>4, HalfRanges
  <2> QED
    BY <1>0, <2>4, <2>5
<1>4. Nat \subseteq T
  <2> HIDE DEF T
  <2> QED
    BY <1>2, <1>3, NatSetInduction
<1> QED
  BY <1>0, <1>4

(* The nodes: the root, and with a range that can be split its halves.     *)
LEMMA NodeFacts ==
  /\ Root \in Nodes
  /\ \A n \in Nodes : n \in Ranges /\ n.left < n.right
  /\ \A n \in Nodes : Splits(n) => LeftChild(n) \in Nodes /\ RightChild(n) \in Nodes
<1> DEFINE g == CHOOSE level : Levels(level)
<1>0. MAX_RANGE \in Nat \ {0}
  BY RangeAssumption
<1>1. Levels(g)
  BY LevelsExist, Zenon
<1>2. Nodes = UNION {g[k] : k \in 0 .. MAX_RANGE}
  BY Zenon DEF Nodes, Levels, Halves
<1>3. \A k \in 0 .. MAX_RANGE : g[k] = IF k = 0 THEN {Root} ELSE Halves(g[k - 1])
  <2> HIDE DEF g
  <2> DEFINE h == [k \in 0 .. MAX_RANGE |-> IF k = 0 THEN {Root} ELSE Halves(g[k - 1])]
  <2>1. \A k \in 0 .. MAX_RANGE : h[k] = IF k = 0 THEN {Root} ELSE Halves(g[k - 1])
    BY Zenon
  <2>2. g = h
    BY <1>1, Zenon DEF Levels
  <2> HIDE DEF h
  <2> QED
    BY <2>1, <2>2
<1> HIDE DEF g
<1>4. \A k \in 0 .. MAX_RANGE : \A n \in g[k] :
          n \in Ranges /\ n.left < n.right /\ Width(n) <= MAX_RANGE - k
  BY <1>1, LevelRanges
<1>5. Root \in Nodes
  <2>1. 0 \in 0 .. MAX_RANGE /\ g[0] = {Root}
    BY <1>0, <1>3
  <2> QED
    BY <1>2, <2>1
<1>6. ASSUME NEW n \in Nodes, Splits(n) PROVE LeftChild(n) \in Nodes /\ RightChild(n) \in Nodes
  <2>1. PICK k \in 0 .. MAX_RANGE : n \in g[k]
    BY <1>2
  <2>2. n \in Ranges /\ Width(n) <= MAX_RANGE - k
    BY <1>4, <2>1
  <2>3. k + 1 \in 0 .. MAX_RANGE /\ k + 1 # 0 /\ (k + 1) - 1 = k
    BY <1>0, <1>6, <2>2 DEF Ranges, Splits, Width
  <2>4. g[k + 1] = Halves(g[k])
    BY <1>3, <2>3
  <2>5. LeftChild(n) \in g[k + 1] /\ RightChild(n) \in g[k + 1]
    BY <1>6, <2>1, <2>4 DEF Halves
  <2> QED
    BY <1>2, <2>3, <2>5
<1> QED
  BY <1>2, <1>4, <1>5, <1>6

(* The bounds of a node, and those of its halves.                          *)
LEMMA NodeBounds ==
  ASSUME NEW n \in Nodes
  PROVE  /\ n.left \in 0 .. MAX_RANGE /\ n.right \in 0 .. MAX_RANGE /\ n.left < n.right
         /\ n = [left |-> n.left, right |-> n.right]
         /\ Width(n) \in 1 .. MAX_RANGE
         /\ ~Splits(n) => n.right = n.left + 1
         /\ Splits(n) =>
               /\ LeftChild(n) \in Nodes /\ RightChild(n) \in Nodes
               /\ LeftChild(n).left = n.left /\ LeftChild(n).right = Mid(n)
               /\ RightChild(n).left = Mid(n) /\ RightChild(n).right = n.right
               /\ n.left < Mid(n) /\ Mid(n) < n.right /\ Mid(n) \in 0 .. MAX_RANGE
               /\ Width(LeftChild(n)) < Width(n) /\ Width(RightChild(n)) < Width(n)
<1>1. n \in Ranges /\ n.left < n.right
  BY NodeFacts
<1>2. /\ n.left \in 0 .. MAX_RANGE /\ n.right \in 0 .. MAX_RANGE
      /\ n = [left |-> n.left, right |-> n.right]
  BY <1>1 DEF Ranges
<1>3. MAX_RANGE \in Nat
  BY RangeAssumption
<1>4. Width(n) \in 1 .. MAX_RANGE /\ (~Splits(n) => n.right = n.left + 1)
  BY <1>1, <1>2, <1>3 DEF Width, Splits
<1>5. ASSUME Splits(n)
      PROVE  /\ LeftChild(n) \in Nodes /\ RightChild(n) \in Nodes
             /\ LeftChild(n).left = n.left /\ LeftChild(n).right = Mid(n)
             /\ RightChild(n).left = Mid(n) /\ RightChild(n).right = n.right
             /\ n.left < Mid(n) /\ Mid(n) < n.right /\ Mid(n) \in 0 .. MAX_RANGE
             /\ Width(LeftChild(n)) < Width(n) /\ Width(RightChild(n)) < Width(n)
  <2>1. LeftChild(n) \in Nodes /\ RightChild(n) \in Nodes
    BY <1>5, NodeFacts
  <2>2. Mid(n) \in 0 .. MAX_RANGE
    BY <1>1, <1>5, MidInside
  <2> QED
    BY <1>1, <1>5, <2>1, <2>2, HalfRanges
<1> QED
  BY <1>1, <1>2, <1>4, <1>5

(* What holds of a node when it holds of all that are smaller holds of all. *)
LEMMA NodeInduction ==
  ASSUME NEW T,
         \A n \in Nodes : (\A m \in Nodes : Width(m) < Width(n) => m \in T) => n \in T
  PROVE  Nodes \subseteq T
<1> DEFINE K == {k \in Nat : \A n \in Nodes : Width(n) <= k => n \in T}
<1>1. 0 \in K
  BY NodeBounds
<1>2. ASSUME NEW k \in Nat, k \in K PROVE k + 1 \in K
  <2> SUFFICES ASSUME NEW n \in Nodes, Width(n) <= k + 1 PROVE n \in T
    OBVIOUS
  <2>1. ASSUME NEW m \in Nodes, Width(m) < Width(n) PROVE m \in T
    <3>1. Width(m) \in Nat /\ Width(n) \in Nat
      BY NodeBounds
    <3>2. Width(m) <= k
      BY <2>1, <3>1
    <3> QED
      BY <1>2, <3>2
  <2> QED
    BY <2>1
<1>3. Nat \subseteq K
  <2> HIDE DEF K
  <2> QED
    BY <1>1, <1>2, NatSetInduction
<1>4. ASSUME NEW n \in Nodes PROVE n \in T
  <2>1. Width(n) \in Nat /\ Width(n) <= Width(n)
    BY NodeBounds
  <2> QED
    BY <1>3, <2>1
<1> QED
  BY <1>4

Unit(a) == [left |-> a, right |-> a + 1]
Inside(a, n) == n.left <= a /\ a < n.right

(* Halving goes on down to single addresses.                               *)
LEMMA UnitsAreNodes ==
  ASSUME NEW a \in Addresses
  PROVE  /\ Unit(a) \in Nodes /\ ~Splits(Unit(a)) /\ Inside(a, Unit(a))
         /\ Unit(a).left = a /\ Unit(a).right = a + 1
<1>0. a \in Nat /\ a < MAX_RANGE /\ MAX_RANGE \in Nat
  BY RangeAssumption DEF Addresses
<1> DEFINE T == {n \in Nodes : Inside(a, n) => Unit(a) \in Nodes}
<1>1. ASSUME NEW n \in Nodes, \A m \in Nodes : Width(m) < Width(n) => m \in T
      PROVE  n \in T
  <2> SUFFICES ASSUME Inside(a, n) PROVE Unit(a) \in Nodes
    OBVIOUS
  <2>1. CASE ~Splits(n)
    <3>1. n = Unit(a)
      BY <1>0, <2>1, NodeBounds DEF Inside, Unit
    <3> QED
      BY <3>1
  <2>2. CASE Splits(n)
    <3>1. LeftChild(n) \in T /\ RightChild(n) \in T
      BY <1>1, <2>2, NodeBounds
    <3>2. Inside(a, LeftChild(n)) \/ Inside(a, RightChild(n))
      BY <1>0, <2>2, NodeBounds DEF Inside
    <3> QED
      BY <3>1, <3>2
  <2> QED
    BY <2>1, <2>2
<1>2. Nodes \subseteq T
  <2> HIDE DEF T
  <2> QED
    BY <1>1, NodeInduction
<1>3. Root \in Nodes /\ Inside(a, Root)
  BY <1>0, NodeFacts DEF Inside, Root
<1>4. ~Splits(Unit(a)) /\ Inside(a, Unit(a)) /\ Unit(a).left = a /\ Unit(a).right = a + 1
  BY <1>0 DEF Splits, Inside, Unit
<1> QED
  BY <1>2, <1>3, <1>4

-----------------------------------------------------------------------------
(* The trees                                                               *)

Covered(v) == Leaf("COVERED_SEGMENT", v)
Empty == Leaf("EMPTY_SEGMENT", NoValue)
Contents(V) == {Empty, Partial} \cup {Covered(v) : v \in V}

(* A tree of values in V: no single address is split, and the halves of a  *)
(* leaf hold what the leaf holds.                                          *)
IsTree(tree, V) ==
    /\ tree \in [Nodes -> Contents(V)]
    /\ \A n \in Nodes : ~Splits(n) => tree[n] # Partial
    /\ \A n \in Nodes : (Splits(n) /\ tree[n] # Partial) =>
           tree[LeftChild(n)] = tree[n] /\ tree[RightChild(n)] = tree[n]

(* In which leaves that are equal are joined.                              *)
IsJoined(tree) ==
    \A n \in Nodes : (Splits(n) /\ tree[n] = Partial) =>
        (tree[LeftChild(n)] # tree[RightChild(n)] \/ tree[LeftChild(n)] = Partial)

(* What is stored for an address.                                          *)
At(tree, a) == tree[Unit(a)]

(* The new tree is empty.                                                  *)
LEMMA NewTreeEmpty ==
  ASSUME NEW V
  PROVE  /\ IsTree(NewTree, V) /\ IsJoined(NewTree)
         /\ \A a \in Addresses : At(NewTree, a) = Empty
<1>1. NewTree = [n \in Nodes |-> Empty] /\ Empty # Partial
  BY DEF NewTree, Empty, Partial, Leaf
<1>2. \A n \in Nodes : NewTree[n] = Empty
  BY <1>1
<1>3. NewTree \in [Nodes -> Contents(V)]
  BY <1>1 DEF Contents
<1> QED
  BY <1>1, <1>2, <1>3, NodeFacts, UnitsAreNodes DEF IsTree, IsJoined, At

(* The three kinds of contents differ.                                     *)
LEMMA KindsDiffer ==
  /\ Empty # Partial /\ \A v : Covered(v) # Partial /\ Covered(v) # Empty
  /\ Empty.type = "EMPTY_SEGMENT" /\ Partial.type = "PARTIAL_SEGMENT"
  /\ Empty.value = NoValue /\ Partial.value = NoValue
  /\ \A v : Covered(v).type = "COVERED_SEGMENT" /\ Covered(v).value = v
BY DEF Empty, Partial, Covered, Leaf

(* A function from nodes to contents that is defined from the halves.      *)
LEMMA NodeFunction ==
  ASSUME NEW D, NEW H \in [[Nodes -> D] \X Nodes -> D], NEW d \in D,
         \A n \in Nodes : \A f, g \in [Nodes -> D] :
             (Splits(n) => f[LeftChild(n)] = g[LeftChild(n)] /\ f[RightChild(n)] = g[RightChild(n)])
             => H[<<f, n>>] = H[<<g, n>>]
  PROVE  \E f \in [Nodes -> D] : \A n \in Nodes : f[n] = H[<<f, n>>]
<1> DEFINE w == [n \in Nodes |-> Width(n)]
           f0 == [n \in Nodes |-> d]
<1>1. w \in [Nodes -> 0 .. MAX_RANGE] /\ MAX_RANGE \in Nat /\ f0 \in [Nodes -> D]
  BY NodeBounds, RangeAssumption
<1>2. ASSUME NEW n \in Nodes, NEW f \in [Nodes -> D], NEW g \in [Nodes -> D],
             \A m \in Nodes : w[m] < w[n] => f[m] = g[m]
      PROVE  H[<<f, n>>] = H[<<g, n>>]
  <2>1. Splits(n) => f[LeftChild(n)] = g[LeftChild(n)] /\ f[RightChild(n)] = g[RightChild(n)]
    BY <1>2, NodeBounds
  <2> QED
    BY <2>1
<1> HIDE DEF w, f0
<1>3. Descends(H, Nodes, D, w, MAX_RANGE)
  BY <1>1, <1>2 DEF Descends
<1> QED
  BY <1>1, <1>3, RecursiveFunction

-----------------------------------------------------------------------------
(* Set                                                                     *)

(* What is at node n after Set, if f is what is at its halves.             *)
SetNode(f, tree, l, r, v, n) ==
    IF r <= n.left \/ n.right <= l \/ tree[n] = Leaf("COVERED_SEGMENT", v) THEN tree[n]
    ELSE IF l <= n.left /\ r >= n.right THEN Leaf("COVERED_SEGMENT", v)
    ELSE Join(f[LeftChild(n)], f[RightChild(n)])

(* The recursive function inside Set.                                      *)
IsSet(f, tree, l, r, v) == f = [n \in Nodes |-> SetNode(f, tree, l, r, v, n)]

(* It exists.                                                              *)
LEMMA SetExists ==
  ASSUME NEW V, NEW tree, IsTree(tree, V), NEW l \in Int, NEW r \in Int, NEW v \in V
  PROVE  \E f \in [Nodes -> Contents(V)] : IsSet(f, tree, l, r, v)
<1> DEFINE D == Contents(V)
           H == [p \in [Nodes -> D] \X Nodes |-> SetNode(p[1], tree, l, r, v, p[2])]
<1>1. ASSUME NEW n \in Nodes, NEW f \in [Nodes -> D] PROVE SetNode(f, tree, l, r, v, n) \in D
  <2>1. tree[n] \in D /\ Leaf("COVERED_SEGMENT", v) \in D /\ Partial \in D
    BY DEF IsTree, Contents, Covered
  <2>2. ~Splits(n) => (r <= n.left \/ n.right <= l \/ (l <= n.left /\ r >= n.right))
    BY NodeBounds
  <2>3. Splits(n) => f[LeftChild(n)] \in D
    BY NodeBounds
  <2> HIDE DEF D
  <2> QED
    BY <2>1, <2>2, <2>3 DEF SetNode, Join
<1>2. H \in [[Nodes -> D] \X Nodes -> D]
  <2> HIDE DEF D
  <2> QED
    BY <1>1
<1>3. \A f \in [Nodes -> D], n \in Nodes : H[<<f, n>>] = SetNode(f, tree, l, r, v, n)
  OBVIOUS
<1>4. ASSUME NEW n \in Nodes, NEW f \in [Nodes -> D], NEW g \in [Nodes -> D],
             Splits(n) => f[LeftChild(n)] = g[LeftChild(n)] /\ f[RightChild(n)] = g[RightChild(n)]
      PROVE  H[<<f, n>>] = H[<<g, n>>]
  <2>1. ~Splits(n) => (r <= n.left \/ n.right <= l \/ (l <= n.left /\ r >= n.right))
    BY NodeBounds
  <2>2. SetNode(f, tree, l, r, v, n) = SetNode(g, tree, l, r, v, n)
    BY <1>4, <2>1 DEF SetNode
  <2> HIDE DEF H
  <2> QED
    BY <1>3, <2>2
<1>5. Empty \in D
  BY DEF Contents
<1> HIDE DEF H, D
<1>6. PICK f \in [Nodes -> D] : \A n \in Nodes : f[n] = H[<<f, n>>]
  BY <1>2, <1>4, <1>5, NodeFunction
<1>7. \A n \in Nodes : f[n] = SetNode(f, tree, l, r, v, n)
  BY <1>3, <1>6
<1>8. IsSet(f, tree, l, r, v)
  BY <1>7 DEF IsSet
<1> QED
  BY <1>8 DEF D

(* So that Set has it at every node.                                       *)
LEMMA SetIs ==
  ASSUME NEW V, NEW tree, IsTree(tree, V), NEW l \in Int, NEW r \in Int, NEW v \in V, l < r
  PROVE  /\ Set(tree, l, r, v) = [n \in Nodes |-> Set(tree, l, r, v)[n]]
         /\ \A n \in Nodes :
               Set(tree, l, r, v)[n] = SetNode(Set(tree, l, r, v), tree, l, r, v, n)
<1> DEFINE g == CHOOSE f : IsSet(f, tree, l, r, v)
<1>1. IsSet(g, tree, l, r, v)
  BY SetExists, Zenon
<1>2. Set(tree, l, r, v) = g
  <2>1. ~(l >= r)
    OBVIOUS
  <2>2. Set(tree, l, r, v) = IF l >= r THEN tree ELSE g
    BY Zenon DEF Set, IsSet, SetNode
  <2> QED
    BY <2>1, <2>2
<1> HIDE DEF g
<1> DEFINE h == [n \in Nodes |-> SetNode(g, tree, l, r, v, n)]
<1>3. g = h
  BY <1>1, Zenon DEF IsSet
<1>4. \A n \in Nodes : h[n] = SetNode(g, tree, l, r, v, n)
  BY Zenon
<1>5. h = [n \in Nodes |-> h[n]]
  OBVIOUS
<1> HIDE DEF h
<1> QED
  BY <1>2, <1>3, <1>4, <1>5

(* The type of what Set leaves at a node: proved for the smaller nodes     *)
(* first.                                                                  *)
LEMMA SetContents ==
  ASSUME NEW V, NEW tree, IsTree(tree, V), NEW l \in Int, NEW r \in Int, NEW v \in V, l < r
  PROVE  Set(tree, l, r, v) \in [Nodes -> Contents(V)]
<1> DEFINE new == Set(tree, l, r, v)
           T == {n \in Nodes : new[n] \in Contents(V)}
<1>1. /\ new = [n \in Nodes |-> new[n]]
      /\ \A n \in Nodes : new[n] = SetNode(new, tree, l, r, v, n)
  BY SetIs
<1> HIDE DEF new
<1>2. ASSUME NEW n \in Nodes, \A m \in Nodes : Width(m) < Width(n) => m \in T
      PROVE  n \in T
  <2>1. tree[n] \in Contents(V) /\ Leaf("COVERED_SEGMENT", v) \in Contents(V) /\ Partial \in Contents(V)
    BY DEF IsTree, Contents, Covered
  <2>2. ~Splits(n) => (r <= n.left \/ n.right <= l \/ (l <= n.left /\ r >= n.right))
    BY NodeBounds
  <2>3. Splits(n) => new[LeftChild(n)] \in Contents(V)
    BY <1>2, NodeBounds
  <2> QED
    BY <1>1, <2>1, <2>2, <2>3 DEF SetNode, Join
<1>3. Nodes \subseteq T
  <2> HIDE DEF T
  <2> QED
    BY <1>2, NodeInduction
<1> QED
  BY <1>1, <1>3 DEF new

(* Set changes what is stored for the addresses of its range and for no    *)
(* other, and leaves a tree, joined if it was.                             *)
LEMMA SetTree ==
  ASSUME NEW V, NEW tree, IsTree(tree, V), NEW l \in Int, NEW r \in Int, NEW v \in V
  PROVE  /\ IsTree(Set(tree, l, r, v), V)
         /\ IsJoined(tree) => IsJoined(Set(tree, l, r, v))
         /\ \A a \in Addresses :
               At(Set(tree, l, r, v), a) = IF l <= a /\ a < r THEN Covered(v) ELSE At(tree, a)
<1>0. CASE l >= r
  <2>1. Set(tree, l, r, v) = tree
    BY <1>0 DEF Set
  <2>2. \A a \in Addresses : ~(l <= a /\ a < r)
    BY <1>0 DEF Addresses
  <2> QED
    BY <2>1, <2>2
<1>1. CASE l < r
  <2> DEFINE new == Set(tree, l, r, v)
             Out(n) == r <= n.left \/ n.right <= l
             In(n) == l <= n.left /\ r >= n.right
  <2>1. new \in [Nodes -> Contents(V)] /\ \A n \in Nodes : new[n] = SetNode(new, tree, l, r, v, n)
    BY <1>1, SetIs, SetContents
  <2> HIDE DEF new
  <2>2. \A n \in Nodes :
            \/ (Out(n) \/ tree[n] = Covered(v)) /\ new[n] = tree[n]
            \/ ~Out(n) /\ In(n) /\ new[n] = Covered(v)
            \/ /\ ~Out(n) /\ ~In(n) /\ Splits(n) /\ tree[n] # Covered(v)
               /\ new[n] = Join(new[LeftChild(n)], new[RightChild(n)])
    <3> SUFFICES ASSUME NEW n \in Nodes
                 PROVE  \/ (Out(n) \/ tree[n] = Covered(v)) /\ new[n] = tree[n]
                        \/ ~Out(n) /\ In(n) /\ new[n] = Covered(v)
                        \/ /\ ~Out(n) /\ ~In(n) /\ Splits(n) /\ tree[n] # Covered(v)
                           /\ new[n] = Join(new[LeftChild(n)], new[RightChild(n)])
      OBVIOUS
    <3>1. ~Splits(n) => Out(n) \/ In(n)
      BY NodeBounds
    <3> QED
      BY <2>1, <3>1 DEF SetNode, Covered
  <2>3. ASSUME NEW n \in Nodes, Splits(n)
        PROVE  /\ Out(n) => Out(LeftChild(n)) /\ Out(RightChild(n))
               /\ In(n) /\ ~Out(n) =>
                     /\ In(LeftChild(n)) /\ In(RightChild(n))
                     /\ ~Out(LeftChild(n)) /\ ~Out(RightChild(n))
    BY <2>3, <1>1, NodeBounds
  <2>4. ASSUME NEW n \in Nodes, ~Splits(n) PROVE new[n] # Partial
    BY <2>2, <2>4, KindsDiffer DEF IsTree
  <2>5. ASSUME NEW n \in Nodes, Splits(n), new[n] # Partial
        PROVE  new[LeftChild(n)] = new[n] /\ new[RightChild(n)] = new[n]
    <3> DEFINE lc == LeftChild(n)
               rc == RightChild(n)
    <3>1. lc \in Nodes /\ rc \in Nodes
      BY <2>5, NodeBounds
    <3>2. tree[n] # Partial => tree[lc] = tree[n] /\ tree[rc] = tree[n]
      BY <2>5 DEF IsTree
    <3> HIDE DEF lc, rc
    <3>3. CASE Out(n) /\ new[n] = tree[n]
      BY <2>2, <2>3, <2>5, <3>1, <3>2, <3>3 DEF lc, rc
    <3>4. CASE tree[n] = Covered(v) /\ new[n] = tree[n]
      BY <2>2, <2>5, <3>1, <3>2, <3>4 DEF lc, rc
    <3>5. CASE ~Out(n) /\ In(n) /\ new[n] = Covered(v)
      BY <2>2, <2>3, <2>5, <3>1, <3>5 DEF lc, rc
    <3>6. CASE new[n] = Join(new[lc], new[rc])
      BY <2>5, <3>6 DEF Join, lc, rc
    <3> QED
      BY <2>2, <3>3, <3>4, <3>5, <3>6 DEF lc, rc
  <2>6. ASSUME IsJoined(tree), NEW n \in Nodes, Splits(n), new[n] = Partial
        PROVE  new[LeftChild(n)] # new[RightChild(n)] \/ new[LeftChild(n)] = Partial
    <3>1. LeftChild(n) \in Nodes /\ RightChild(n) \in Nodes
      BY <2>6, NodeBounds
    <3>2. CASE Out(n) /\ new[n] = tree[n]
      BY <2>2, <2>3, <2>6, <3>1, <3>2 DEF IsJoined
    <3>3. CASE new[n] = Join(new[LeftChild(n)], new[RightChild(n)])
      BY <2>6, <3>3 DEF Join
    <3> QED
      BY <2>2, <2>6, <3>2, <3>3, KindsDiffer
  <2>7. ASSUME NEW a \in Addresses
        PROVE  At(new, a) = IF l <= a /\ a < r THEN Covered(v) ELSE At(tree, a)
    <3>1. Unit(a) \in Nodes /\ ~Splits(Unit(a)) /\ Unit(a).left = a /\ Unit(a).right = a + 1
      BY UnitsAreNodes
    <3>2. a \in Nat
      BY DEF Addresses
    <3> QED
      BY <2>2, <3>1, <3>2 DEF At
  <2>8. IsTree(new, V)
    BY <2>1, <2>4, <2>5 DEF IsTree
  <2>9. IsJoined(tree) => IsJoined(new)
    BY <2>6 DEF IsJoined
  <2> QED
    BY <2>7, <2>8, <2>9 DEF new
<1> QED
  BY <1>0, <1>1

-----------------------------------------------------------------------------
(* Get                                                                     *)

(* Below a leaf every address holds what the leaf holds.                   *)
LEMMA LeafHolds ==
  ASSUME NEW V, NEW tree, IsTree(tree, V), NEW n \in Nodes, tree[n] # Partial,
         NEW a \in Addresses, Inside(a, n)
  PROVE  At(tree, a) = tree[n]
<1>0. a \in Nat
  BY DEF Addresses
<1> DEFINE T == {m \in Nodes : (tree[m] # Partial /\ Inside(a, m)) => At(tree, a) = tree[m]}
<1>1. ASSUME NEW m \in Nodes, \A k \in Nodes : Width(k) < Width(m) => k \in T
      PROVE  m \in T
  <2> SUFFICES ASSUME tree[m] # Partial, Inside(a, m) PROVE At(tree, a) = tree[m]
    OBVIOUS
  <2>1. CASE ~Splits(m)
    <3>1. m = Unit(a)
      BY <1>0, <2>1, NodeBounds DEF Inside, Unit
    <3> QED
      BY <3>1 DEF At
  <2>2. CASE Splits(m)
    <3>1. LeftChild(m) \in T /\ RightChild(m) \in T
      BY <1>1, <2>2, NodeBounds
    <3>2. Inside(a, LeftChild(m)) \/ Inside(a, RightChild(m))
      BY <1>0, <2>2, NodeBounds DEF Inside
    <3>3. tree[LeftChild(m)] = tree[m] /\ tree[RightChild(m)] = tree[m]
      BY <2>2 DEF IsTree
    <3> QED
      BY <3>1, <3>2, <3>3
  <2> QED
    BY <2>1, <2>2
<1>2. Nodes \subseteq T
  <2> HIDE DEF T
  <2> QED
    BY <1>1, NodeInduction
<1> QED
  BY <1>2

(* What is stored for an address is nothing or a value.                    *)
LEMMA AtContents ==
  ASSUME NEW V, NEW tree, IsTree(tree, V), NEW a \in Addresses
  PROVE  /\ At(tree, a) = Empty \/ \E v \in V : At(tree, a) = Covered(v)
         /\ NoValue \notin V =>
               /\ At(tree, a) = Empty <=> At(tree, a).value = NoValue
               /\ \A v \in V : At(tree, a) = Covered(v) <=> At(tree, a).value = v
<1>1. At(tree, a) \in Contents(V) /\ At(tree, a) # Partial
  BY UnitsAreNodes DEF IsTree, At
<1>2. At(tree, a) = Empty \/ \E v \in V : At(tree, a) = Covered(v)
  BY <1>1 DEF Contents
<1> QED
  BY <1>2, KindsDiffer

(* What Get finds at node n, if f is what it finds at its halves.          *)
GetNode(f, tree, x, n) ==
    IF tree[n].type # "PARTIAL_SEGMENT" THEN tree[n].value
    ELSE f[IF x < Mid(n) THEN LeftChild(n) ELSE RightChild(n)]

(* The recursive function inside Get.                                      *)
IsGet(f, tree, x) == f = [n \in Nodes |-> GetNode(f, tree, x, n)]

(* A node is split or holds something else than Partial.                   *)
LEMMA PartialType ==
  ASSUME NEW V, NEW tree, IsTree(tree, V), NEW n \in Nodes
  PROVE  /\ tree[n].type = "PARTIAL_SEGMENT" <=> tree[n] = Partial
         /\ tree[n] = Partial => Splits(n)
         /\ tree[n].value \in V \cup {NoValue}
<1>1. tree[n] \in Contents(V)
  BY DEF IsTree
<1> QED
  BY <1>1, KindsDiffer DEF IsTree, Contents

(* The function inside Get exists.                                         *)
LEMMA GetExists ==
  ASSUME NEW V, NEW tree, IsTree(tree, V), NEW x \in Addresses
  PROVE  \E f : IsGet(f, tree, x)
<1> DEFINE D == V \cup {NoValue}
           H == [p \in [Nodes -> D] \X Nodes |-> GetNode(p[1], tree, x, p[2])]
<1>1. ASSUME NEW n \in Nodes, NEW f \in [Nodes -> D] PROVE GetNode(f, tree, x, n) \in D
  <2>1. Splits(n) => f[LeftChild(n)] \in D /\ f[RightChild(n)] \in D
    BY NodeBounds
  <2>2. tree[n].value \in D /\ (tree[n].type = "PARTIAL_SEGMENT" => Splits(n))
    BY PartialType
  <2> HIDE DEF D
  <2> QED
    BY <2>1, <2>2 DEF GetNode
<1>2. H \in [[Nodes -> D] \X Nodes -> D]
  <2> HIDE DEF D
  <2> QED
    BY <1>1
<1>3. \A f \in [Nodes -> D], n \in Nodes : H[<<f, n>>] = GetNode(f, tree, x, n)
  OBVIOUS
<1>4. ASSUME NEW n \in Nodes, NEW f \in [Nodes -> D], NEW g \in [Nodes -> D],
             Splits(n) => f[LeftChild(n)] = g[LeftChild(n)] /\ f[RightChild(n)] = g[RightChild(n)]
      PROVE  H[<<f, n>>] = H[<<g, n>>]
  <2>1. tree[n].type = "PARTIAL_SEGMENT" => Splits(n)
    BY PartialType
  <2>2. GetNode(f, tree, x, n) = GetNode(g, tree, x, n)
    BY <1>4, <2>1 DEF GetNode
  <2> HIDE DEF H
  <2> QED
    BY <1>3, <2>2
<1>5. NoValue \in D
  OBVIOUS
<1> HIDE DEF H, D
<1>6. PICK f \in [Nodes -> D] : \A n \in Nodes : f[n] = H[<<f, n>>]
  BY <1>2, <1>4, <1>5, NodeFunction
<1>7. \A n \in Nodes : f[n] = GetNode(f, tree, x, n)
  BY <1>3, <1>6
<1>8. IsGet(f, tree, x)
  BY <1>7 DEF IsGet
<1> QED
  BY <1>8

(* Get finds what is stored for an address.                                *)
LEMMA GetIs ==
  ASSUME NEW V, NEW tree, IsTree(tree, V), NEW x \in Addresses
  PROVE  Get(tree, x) = At(tree, x).value
<1> DEFINE g == CHOOSE f : IsGet(f, tree, x)
<1>0. x \in Nat /\ x < MAX_RANGE
  BY RangeAssumption DEF Addresses
<1>1. IsGet(g, tree, x)
  BY GetExists, Zenon
<1>2. Get(tree, x) = g[Root]
  BY Zenon DEF Get, IsGet, GetNode
<1> HIDE DEF g
<1>3. \A n \in Nodes : g[n] = GetNode(g, tree, x, n)
  <2> DEFINE h == [n \in Nodes |-> GetNode(g, tree, x, n)]
  <2>1. \A n \in Nodes : h[n] = GetNode(g, tree, x, n)
    BY Zenon
  <2>2. g = h
    BY <1>1, Zenon DEF IsGet
  <2> HIDE DEF h
  <2> QED
    BY <2>1, <2>2
<1> DEFINE T == {n \in Nodes : Inside(x, n) => g[n] = At(tree, x).value}
<1>4. ASSUME NEW n \in Nodes, \A m \in Nodes : Width(m) < Width(n) => m \in T
      PROVE  n \in T
  <2> SUFFICES ASSUME Inside(x, n) PROVE g[n] = At(tree, x).value
    OBVIOUS
  <2>1. CASE tree[n] # Partial
    <3>1. At(tree, x) = tree[n]
      BY <2>1, LeafHolds
    <3> QED
      BY <1>3, <2>1, <3>1, PartialType DEF GetNode
  <2>2. CASE tree[n] = Partial
    <3>1. Splits(n) /\ tree[n].type = "PARTIAL_SEGMENT"
      BY <2>2, PartialType
    <3>2. g[n] = g[IF x < Mid(n) THEN LeftChild(n) ELSE RightChild(n)]
      BY <1>3, <3>1 DEF GetNode
    <3>3. LeftChild(n) \in T /\ RightChild(n) \in T
      BY <1>4, <3>1, NodeBounds
    <3>4. IF x < Mid(n) THEN Inside(x, LeftChild(n)) ELSE Inside(x, RightChild(n))
      BY <1>0, <3>1, NodeBounds DEF Inside
    <3> QED
      BY <3>2, <3>3, <3>4
  <2> QED
    BY <2>1, <2>2
<1>5. Nodes \subseteq T
  <2> HIDE DEF T
  <2> QED
    BY <1>4, NodeInduction
<1>6. Root \in Nodes /\ Inside(x, Root)
  BY <1>0, NodeFacts DEF Inside, Root
<1> QED
  BY <1>2, <1>5, <1>6

-----------------------------------------------------------------------------
(* Collect                                                                 *)

Types == {"EMPTY_SEGMENT", "PARTIAL_SEGMENT", "COVERED_SEGMENT"}
SegmentsOf(V) ==
    [type : Types, value : V \cup {NoValue}, left : 0 .. MAX_RANGE, right : 0 .. MAX_RANGE]
Joined(s, t) == [s EXCEPT !.right = t.right]
SameLeaf(s, t) == s.type = t.type /\ s.value = t.value

(* Two sequences behind one another.                                       *)
LEMMA ConcatIs ==
  ASSUME NEW S, NEW a \in Seq(S), NEW b \in Seq(S)
  PROVE  /\ a \o b \in Seq(S) /\ Len(a \o b) = Len(a) + Len(b)
         /\ Len(a) \in Nat /\ Len(b) \in Nat
         /\ \A k \in 1 .. Len(a) : (a \o b)[k] = a[k]
         /\ \A k \in Len(a) + 1 .. Len(a) + Len(b) : (a \o b)[k] = b[k - Len(a)]
OBVIOUS

(* A sequence without its last element.                                    *)
LEMMA FrontIs ==
  ASSUME NEW S, NEW s \in Seq(S), NEW m \in Nat, Len(s) = m + 1
  PROVE  Front(s) \in Seq(S) /\ Len(Front(s)) = m /\ \A k \in 1 .. m : Front(s)[k] = s[k]
<1>1. Front(s) = SubSeq(s, 1, m)
  BY DEF Front
<1>2. /\ SubSeq(s, 1, m) \in Seq(S) /\ Len(SubSeq(s, 1, m)) = m
      /\ \A k \in 1 .. m : SubSeq(s, 1, m)[k] = s[k]
  OBVIOUS
<1> QED
  BY <1>1, <1>2

(* What Glue gives for segments that lie side by side.                     *)
LEMMA GlueIs ==
  ASSUME NEW V, NEW s \in Seq(SegmentsOf(V)), NEW t \in Seq(SegmentsOf(V)),
         s # <<>>, t # <<>>, s[Len(s)].right = t[1].left
  PROVE  /\ Glue(s, t) \in Seq(SegmentsOf(V))
         /\ Len(s) \in Nat \ {0} /\ Len(t) \in Nat \ {0}
         /\ SameLeaf(s[Len(s)], t[1]) =>
               /\ Len(Glue(s, t)) = Len(s) + Len(t) - 1
               /\ \A k \in 1 .. Len(s) - 1 : Glue(s, t)[k] = s[k]
               /\ Glue(s, t)[Len(s)] = Joined(s[Len(s)], t[1])
               /\ \A k \in Len(s) + 1 .. Len(s) + Len(t) - 1 : Glue(s, t)[k] = t[k - Len(s) + 1]
         /\ ~SameLeaf(s[Len(s)], t[1]) =>
               /\ Len(Glue(s, t)) = Len(s) + Len(t)
               /\ \A k \in 1 .. Len(s) : Glue(s, t)[k] = s[k]
               /\ \A k \in Len(s) + 1 .. Len(s) + Len(t) : Glue(s, t)[k] = t[k - Len(s)]
<1> DEFINE S == SegmentsOf(V)
           m == Len(s)
           p == Len(t)
<1>1. m \in Nat \ {0} /\ p \in Nat \ {0} /\ s[m] \in S /\ t[1] \in S
  OBVIOUS
<1>2. Last(s) = s[m] /\ Head(t) = t[1] /\ s[m].right = t[1].left
  BY DEF Last
<1>3. Joined(s[m], t[1]) \in S
  BY <1>1 DEF Joined, SegmentsOf
<1>4. /\ Front(s) \in Seq(S) /\ Len(Front(s)) = m - 1 /\ \A k \in 1 .. m - 1 : Front(s)[k] = s[k]
  <2>1. PICK e \in Nat : e = m - 1
    BY <1>1
  <2>2. Len(s) = e + 1
    BY <1>1, <2>1
  <2> HIDE DEF S, m
  <2>3. Front(s) \in Seq(S) /\ Len(Front(s)) = e /\ \A k \in 1 .. e : Front(s)[k] = s[k]
    BY <2>2, FrontIs DEF S
  <2> QED
    BY <2>1, <2>3
<1>5. /\ Tail(t) \in Seq(S) /\ Len(Tail(t)) = p - 1 /\ \A k \in 1 .. p - 1 : Tail(t)[k] = t[k + 1]
  BY <1>1
<1>6. Glue(s, t) = IF SameLeaf(s[m], t[1]) THEN Front(s) \o <<Joined(s[m], t[1])>> \o Tail(t)
                   ELSE s \o t
  BY <1>2 DEF Glue, SameLeaf, Joined
<1> HIDE DEF S
<1>7. ASSUME SameLeaf(s[m], t[1])
      PROVE  /\ Glue(s, t) \in Seq(S)
             /\ Len(Glue(s, t)) = m + p - 1
             /\ \A k \in 1 .. m - 1 : Glue(s, t)[k] = s[k]
             /\ Glue(s, t)[m] = Joined(s[m], t[1])
             /\ \A k \in m + 1 .. m + p - 1 : Glue(s, t)[k] = t[k - m + 1]
  <2> DEFINE j == Joined(s[m], t[1])
             a == Front(s)
             b == Tail(t)
             c == a \o <<j>>
  <2>1. Glue(s, t) = c \o b
    BY <1>6, <1>7
  <2>2. a \in Seq(S) /\ b \in Seq(S) /\ j \in S /\ Len(a) = m - 1 /\ Len(b) = p - 1
    BY <1>3, <1>4, <1>5
  <2> HIDE DEF a, b, j
  <2>3. c \in Seq(S) /\ Len(c) = m /\ c[m] = j /\ \A k \in 1 .. m - 1 : c[k] = a[k]
    <3>1. <<j>> \in Seq(S) /\ Len(<<j>>) = 1 /\ <<j>>[1] = j
      BY <2>2
    <3>2. /\ c \in Seq(S) /\ Len(c) = (m - 1) + 1
          /\ \A k \in 1 .. m - 1 : c[k] = a[k]
          /\ \A k \in (m - 1) + 1 .. (m - 1) + 1 : c[k] = <<j>>[k - (m - 1)]
      BY <2>2, <3>1, ConcatIs
    <3>3. m \in (m - 1) + 1 .. (m - 1) + 1 /\ m - (m - 1) = 1 /\ (m - 1) + 1 = m
      BY <1>1
    <3> HIDE DEF c
    <3> QED
      BY <3>1, <3>2, <3>3
  <2> HIDE DEF c
  <2>4. /\ c \o b \in Seq(S) /\ Len(c \o b) = m + (p - 1)
        /\ \A k \in 1 .. m : (c \o b)[k] = c[k]
        /\ \A k \in m + 1 .. m + p - 1 : (c \o b)[k] = b[k - m]
    <3> DEFINE q == p - 1
    <3>1. q \in Nat /\ q = p - 1
      BY <1>1
    <3> HIDE DEF q
    <3>2. /\ c \o b \in Seq(S) /\ Len(c \o b) = m + q
          /\ \A k \in 1 .. m : (c \o b)[k] = c[k]
          /\ \A k \in m + 1 .. m + q : (c \o b)[k] = b[k - m]
      <4>1. Len(b) = q /\ b \in Seq(S) /\ c \in Seq(S) /\ Len(c) = m
        BY <2>2, <2>3, <3>1
      <4> HIDE DEF m, p
      <4> QED
        BY <4>1, ConcatIs
    <3>3. m + q = m + p - 1
      BY <1>1, <3>1
    <3> QED
      BY <3>2, <3>3
  <2>5. \A k \in 1 .. m - 1 : (c \o b)[k] = s[k]
    BY <1>1, <1>4, <2>3, <2>4 DEF a
  <2>6. \A k \in m + 1 .. m + p - 1 : (c \o b)[k] = t[k - m + 1]
    <3> SUFFICES ASSUME NEW k \in m + 1 .. m + p - 1 PROVE b[k - m] = t[k - m + 1]
      BY <2>4
    <3>1. k - m \in 1 .. p - 1
      BY <1>1
    <3> QED
      BY <1>5, <3>1 DEF b
  <2> QED
    BY <1>1, <2>1, <2>3, <2>4, <2>5, <2>6 DEF j
<1>8. ASSUME ~SameLeaf(s[m], t[1])
      PROVE  /\ Glue(s, t) \in Seq(S)
             /\ Len(Glue(s, t)) = m + p
             /\ \A k \in 1 .. m : Glue(s, t)[k] = s[k]
             /\ \A k \in m + 1 .. m + p : Glue(s, t)[k] = t[k - m]
  BY <1>1, <1>6, <1>8 DEF S
<1> QED
  BY <1>1, <1>7, <1>8 DEF S

(* Glue gives a sequence of segments.                                      *)
LEMMA GlueType ==
  ASSUME NEW V, NEW s \in Seq(SegmentsOf(V)), NEW t \in Seq(SegmentsOf(V))
  PROVE  /\ Glue(s, t) \in Seq(SegmentsOf(V))
         /\ s = <<>> => Glue(s, t) = t
         /\ t = <<>> => Glue(s, t) = s
<1> DEFINE S == SegmentsOf(V)
<1>1. s \o t \in Seq(S) /\ (s = <<>> => s \o t = t) /\ (t = <<>> => s \o t = s)
  <2>1. s \in Seq(S) /\ t \in Seq(S)
    OBVIOUS
  <2> HIDE DEF S
  <2> QED
    BY <2>1
<1>2. CASE s = <<>> \/ t = <<>> \/ s[Len(s)].right # t[1].left
  <2>1. Glue(s, t) = s \o t
    <3>1. Last(s) = s[Len(s)] /\ Head(t) = t[1]
      BY DEF Last
    <3> QED
      BY <1>2, <3>1 DEF Glue
  <2> QED
    BY <1>1, <2>1 DEF Glue
<1>3. CASE ~(s = <<>> \/ t = <<>> \/ s[Len(s)].right # t[1].left)
  BY <1>3, GlueIs
<1> QED
  BY <1>2, <1>3

(* What Collect finds at node n, if f is what it finds at its halves.      *)
CollectNode(f, tree, l, r, n) ==
    IF r <= n.left \/ n.right <= l THEN <<>>
    ELSE IF tree[n].type # "PARTIAL_SEGMENT" THEN <<Segment(tree, n)>>
    ELSE Glue(f[LeftChild(n)], f[RightChild(n)])

(* The recursive function inside Collect.                                  *)
IsCollect(f, tree, l, r) == f = [n \in Nodes |-> CollectNode(f, tree, l, r, n)]

(* The segment of a node.                                                  *)
LEMMA SegmentType ==
  ASSUME NEW V, NEW tree, IsTree(tree, V), NEW n \in Nodes
  PROVE  /\ Segment(tree, n) \in SegmentsOf(V)
         /\ Leaf(Segment(tree, n).type, Segment(tree, n).value) = tree[n]
         /\ Segment(tree, n).left = n.left /\ Segment(tree, n).right = n.right
<1>1. tree[n] \in Contents(V)
  BY DEF IsTree
<1>2. tree[n].type \in Types /\ tree[n].value \in V \cup {NoValue} /\ tree[n] = Leaf(tree[n].type, tree[n].value)
  BY <1>1 DEF Contents, Empty, Partial, Covered, Leaf, Types
<1>3. n.left \in 0 .. MAX_RANGE /\ n.right \in 0 .. MAX_RANGE
  BY NodeBounds
<1> QED
  BY <1>2, <1>3 DEF Segment, SegmentsOf

(* The function inside Collect exists.                                     *)
LEMMA CollectExists ==
  ASSUME NEW V, NEW tree, IsTree(tree, V), NEW l \in Int, NEW r \in Int
  PROVE  \E f : IsCollect(f, tree, l, r)
<1> DEFINE D == Seq(SegmentsOf(V))
           H == [p \in [Nodes -> D] \X Nodes |-> CollectNode(p[1], tree, l, r, p[2])]
<1>1. ASSUME NEW n \in Nodes, NEW f \in [Nodes -> D] PROVE CollectNode(f, tree, l, r, n) \in D
  <2>1. CASE r <= n.left \/ n.right <= l
    BY <2>1 DEF CollectNode
  <2>2. CASE ~(r <= n.left \/ n.right <= l) /\ tree[n].type # "PARTIAL_SEGMENT"
    <3>1. Segment(tree, n) \in SegmentsOf(V)
      BY SegmentType
    <3> QED
      BY <2>2, <3>1 DEF CollectNode
  <2>3. CASE ~(r <= n.left \/ n.right <= l) /\ tree[n].type = "PARTIAL_SEGMENT"
    <3>1. LeftChild(n) \in Nodes /\ RightChild(n) \in Nodes
      BY <2>3, PartialType, NodeBounds
    <3>2. f[LeftChild(n)] \in D /\ f[RightChild(n)] \in D
      <4> HIDE DEF D
      <4> QED
        BY <3>1
    <3> QED
      BY <2>3, <3>2, GlueType DEF CollectNode
  <2> QED
    BY <2>1, <2>2, <2>3
<1>2. H \in [[Nodes -> D] \X Nodes -> D]
  <2> HIDE DEF D
  <2> QED
    BY <1>1
<1>3. \A f \in [Nodes -> D], n \in Nodes : H[<<f, n>>] = CollectNode(f, tree, l, r, n)
  <2> HIDE DEF D
  <2> QED
    OBVIOUS
<1>4. ASSUME NEW n \in Nodes, NEW f \in [Nodes -> D], NEW g \in [Nodes -> D],
             Splits(n) => f[LeftChild(n)] = g[LeftChild(n)] /\ f[RightChild(n)] = g[RightChild(n)]
      PROVE  H[<<f, n>>] = H[<<g, n>>]
  <2>1. tree[n].type = "PARTIAL_SEGMENT" => Splits(n)
    BY PartialType
  <2>2. CollectNode(f, tree, l, r, n) = CollectNode(g, tree, l, r, n)
    BY <1>4, <2>1 DEF CollectNode
  <2> HIDE DEF H, D
  <2> QED
    BY <1>3, <2>2
<1>5. <<>> \in D
  OBVIOUS
<1> HIDE DEF H, D
<1>6. PICK f \in [Nodes -> D] : \A n \in Nodes : f[n] = H[<<f, n>>]
  BY <1>2, <1>4, <1>5, NodeFunction
<1>7. \A n \in Nodes : f[n] = CollectNode(f, tree, l, r, n)
  BY <1>3, <1>6
<1>8. f = [n \in Nodes |-> CollectNode(f, tree, l, r, n)]
  BY <1>7
<1>9. IsCollect(f, tree, l, r)
  BY <1>8 DEF IsCollect
<1> QED
  BY <1>9

(* The segments s cut the part of node n that lies in l .. r - 1 into the  *)
(* longest pieces of equal contents.                                       *)
Tiles(s, tree, V, l, r, n) ==
    /\ s \in Seq(SegmentsOf(V)) /\ s # <<>>
    /\ n.left <= s[1].left /\ (s[1].left <= l \/ s[1].left = n.left)
    /\ s[Len(s)].right <= n.right /\ (r <= s[Len(s)].right \/ s[Len(s)].right = n.right)
    /\ \A k \in 1 .. Len(s) :
          /\ s[k].left < s[k].right /\ s[k].left < r /\ l < s[k].right
          /\ \A a \in Addresses :
                (s[k].left <= a /\ a < s[k].right) => At(tree, a) = Leaf(s[k].type, s[k].value)
    /\ \A k \in 1 .. Len(s) - 1 : s[k].right = s[k + 1].left /\ ~SameLeaf(s[k], s[k + 1])

(* A leaf is cut into one piece.                                           *)
LEMMA TilesLeaf ==
  ASSUME NEW V, NEW tree, IsTree(tree, V), NEW l \in Int, NEW r \in Int, NEW n \in Nodes,
         ~(r <= n.left \/ n.right <= l), tree[n] # Partial
  PROVE  Tiles(<<Segment(tree, n)>>, tree, V, l, r, n)
<1> DEFINE x == Segment(tree, n)
           s == <<x>>
<1>1. x \in SegmentsOf(V) /\ Leaf(x.type, x.value) = tree[n] /\ x.left = n.left /\ x.right = n.right
  BY SegmentType
<1> HIDE DEF x
<1>2. s \in Seq(SegmentsOf(V)) /\ s # <<>> /\ Len(s) = 1 /\ s[1] = x
  BY <1>1
<1> HIDE DEF s
<1>3. n.left \in Nat /\ n.right \in Nat /\ n.left < n.right
  BY NodeBounds, RangeAssumption
<1>4. ASSUME NEW a \in Addresses, x.left <= a, a < x.right PROVE At(tree, a) = Leaf(x.type, x.value)
  BY <1>1, <1>4, LeafHolds DEF Inside
<1> QED
  BY <1>1, <1>2, <1>3, <1>4 DEF Tiles, s, x

(* The two halves of a node that is cut on both sides of its middle.       *)
LEMMA TilesBoth ==
  ASSUME NEW V, NEW tree, NEW l \in Int, NEW r \in Int, NEW n \in Nodes, Splits(n),
         l < Mid(n), Mid(n) < r, NEW s, NEW t,
         Tiles(s, tree, V, l, r, LeftChild(n)), Tiles(t, tree, V, l, r, RightChild(n))
  PROVE  Tiles(Glue(s, t), tree, V, l, r, n)
<1> DEFINE g == Glue(s, t)
           m == Len(s)
           p == Len(t)
           Fits(x) ==
             /\ x.left < x.right /\ x.left < r /\ l < x.right
             /\ \A a \in Addresses :
                   (x.left <= a /\ a < x.right) => At(tree, a) = Leaf(x.type, x.value)
<1>0. /\ n.left \in Nat /\ n.right \in Nat /\ Mid(n) \in Nat /\ n.left < Mid(n) /\ Mid(n) < n.right
      /\ LeftChild(n).left = n.left /\ LeftChild(n).right = Mid(n)
      /\ RightChild(n).left = Mid(n) /\ RightChild(n).right = n.right
  BY NodeBounds, RangeAssumption
<1>1. /\ s \in Seq(SegmentsOf(V)) /\ s # <<>> /\ t \in Seq(SegmentsOf(V)) /\ t # <<>>
      /\ m \in Nat \ {0} /\ p \in Nat \ {0}
      /\ \A k \in 1 .. m : s[k] \in SegmentsOf(V)
      /\ \A k \in 1 .. p : t[k] \in SegmentsOf(V)
  BY DEF Tiles
<1>2. \A x \in SegmentsOf(V) : x.left \in Nat /\ x.right \in Nat
  BY RangeAssumption DEF SegmentsOf
<1>3. /\ n.left <= s[1].left /\ (s[1].left <= l \/ s[1].left = n.left)
      /\ s[m].right <= Mid(n) /\ (r <= s[m].right \/ s[m].right = Mid(n))
      /\ \A k \in 1 .. m : Fits(s[k])
      /\ \A k \in 1 .. m - 1 : s[k].right = s[k + 1].left /\ ~SameLeaf(s[k], s[k + 1])
  BY <1>0 DEF Tiles
<1>4. /\ Mid(n) <= t[1].left /\ (t[1].left <= l \/ t[1].left = Mid(n))
      /\ t[p].right <= n.right /\ (r <= t[p].right \/ t[p].right = n.right)
      /\ \A k \in 1 .. p : Fits(t[k])
      /\ \A k \in 1 .. p - 1 : t[k].right = t[k + 1].left /\ ~SameLeaf(t[k], t[k + 1])
  BY <1>0 DEF Tiles
<1> HIDE DEF m, p, Fits
<1>5. s[m].right = Mid(n) /\ t[1].left = Mid(n)
  <2>1. 1 \in 1 .. p /\ m \in 1 .. m
    BY <1>1
  <2>2. s[m].right \in Nat /\ t[1].left \in Nat
    BY <1>1, <1>2, <2>1
  <2> QED
    BY <1>0, <1>3, <1>4, <2>2
<1>6. g \in Seq(SegmentsOf(V))
  BY <1>1, GlueType
<1>7. CASE SameLeaf(s[m], t[1])
  <2>1. /\ Len(g) = m + p - 1
        /\ \A k \in 1 .. m - 1 : g[k] = s[k]
        /\ g[m] = Joined(s[m], t[1])
        /\ \A k \in m + 1 .. m + p - 1 : g[k] = t[k - m + 1]
    <3>1. s[Len(s)].right = t[1].left
      BY <1>5 DEF m
    <3>2. SameLeaf(s[Len(s)], t[1]) =>
             /\ Len(g) = Len(s) + Len(t) - 1
             /\ \A k \in 1 .. Len(s) - 1 : g[k] = s[k]
             /\ g[Len(s)] = Joined(s[Len(s)], t[1])
             /\ \A k \in Len(s) + 1 .. Len(s) + Len(t) - 1 : g[k] = t[k - Len(s) + 1]
      BY <1>1, <3>1, GlueIs
    <3> HIDE DEF g
    <3> QED
      BY <1>7, <3>2, Zenon DEF m, p
  <2> DEFINE x == Joined(s[m], t[1])
  <2>2. s[m] \in SegmentsOf(V) /\ t[1] \in SegmentsOf(V) /\ Fits(s[m]) /\ Fits(t[1])
    <3>1. 1 \in 1 .. p /\ m \in 1 .. m
      BY <1>1
    <3> QED
      BY <1>1, <1>3, <1>4, <3>1
  <2>3. /\ x.left = s[m].left /\ x.right = t[1].right
        /\ SameLeaf(s[m], x) /\ SameLeaf(x, t[1])
    BY <1>7, <2>2 DEF Joined, SegmentsOf, SameLeaf
  <2> HIDE DEF x
  <2>4. Fits(x)
    <3>1. s[m].left \in Nat /\ s[m].right \in Nat /\ t[1].left \in Nat /\ t[1].right \in Nat
      BY <1>2, <2>2
    <3>2. x.left < x.right /\ x.left < r /\ l < x.right
      BY <1>0, <1>5, <2>2, <2>3, <3>1 DEF Fits
    <3>3. ASSUME NEW a \in Addresses, x.left <= a, a < x.right
          PROVE  At(tree, a) = Leaf(x.type, x.value)
      <4>1. a \in Nat
        BY DEF Addresses
      <4>2. (s[m].left <= a /\ a < s[m].right) \/ (t[1].left <= a /\ a < t[1].right)
        BY <1>0, <1>5, <2>3, <3>1, <3>3, <4>1
      <4> QED
        BY <2>2, <2>3, <4>2 DEF Fits, SameLeaf
    <3> QED
      BY <3>2, <3>3 DEF Fits
  <2> DEFINE q == m + p - 1
  <2>5. q \in Nat \ {0} /\ Len(g) = q /\ g # <<>>
    BY <1>1, <1>6, <2>1
  <2>6. \A k \in 1 .. q : \/ (k \in 1 .. m - 1 /\ g[k] = s[k])
                         \/ (k = m /\ g[k] = x)
                         \/ (k - m + 1 \in 2 .. p /\ g[k] = t[k - m + 1])
    BY <1>1, <2>1 DEF x
  <2>7. \A k \in 1 .. q : Fits(g[k])
    <3> SUFFICES ASSUME NEW k \in 1 .. q PROVE Fits(g[k])
      OBVIOUS
    <3>1. CASE k \in 1 .. m - 1 /\ g[k] = s[k]
      BY <1>1, <1>3, <3>1
    <3>2. CASE k - m + 1 \in 2 .. p /\ g[k] = t[k - m + 1]
      BY <1>1, <1>4, <3>2
    <3> QED
      BY <2>4, <2>6, <3>1, <3>2
  <2>8. g[1].left = s[1].left
    <3>1. CASE m = 1
      BY <1>1, <2>1, <2>3, <3>1 DEF x
    <3>2. CASE m # 1
      <4>1. 1 \in 1 .. m - 1
        BY <1>1, <3>2
      <4> QED
        BY <2>1, <4>1
    <3> QED
      BY <3>1, <3>2
  <2>9. g[q].right = t[p].right
    <3>1. CASE p = 1
      <4>1. q = m
        BY <1>1, <3>1
      <4> QED
        BY <2>1, <2>3, <3>1, <4>1 DEF x
    <3>2. CASE p # 1
      <4>1. q \in m + 1 .. m + p - 1 /\ q - m + 1 = p
        BY <1>1, <3>2
      <4>2. g[q] = t[q - m + 1]
        BY <2>1, <4>1
      <4> QED
        BY <4>1, <4>2
    <3> QED
      BY <3>1, <3>2
  <2>10. ASSUME NEW k \in 1 .. q - 1 PROVE g[k].right = g[k + 1].left /\ ~SameLeaf(g[k], g[k + 1])
    <3>1. CASE k \in 1 .. m - 2
      <4>1. k \in 1 .. m - 1 /\ k + 1 \in 1 .. m - 1
        BY <1>1, <3>1
      <4>2. g[k] = s[k] /\ g[k + 1] = s[k + 1]
        BY <2>1, <4>1
      <4> QED
        BY <1>3, <4>1, <4>2
    <3>2. CASE k = m - 1
      <4>1. k \in 1 .. m - 1 /\ k + 1 = m
        BY <1>1, <3>2
      <4>2. g[k] = s[k] /\ g[k + 1] = x /\ s[k].right = s[m].left /\ ~SameLeaf(s[k], s[m])
        BY <1>3, <2>1, <4>1 DEF x
      <4> QED
        BY <2>3, <4>2 DEF SameLeaf
    <3>3. CASE k = m
      <4>1. k + 1 \in m + 1 .. m + p - 1 /\ (k + 1) - m + 1 = 2 /\ 1 \in 1 .. p - 1
        BY <1>1, <3>3
      <4>2. g[k] = x /\ g[k + 1] = t[2] /\ t[1].right = t[2].left /\ ~SameLeaf(t[1], t[2])
        <5>1. g[k + 1] = t[(k + 1) - m + 1]
          BY <2>1, <4>1
        <5>2. 1 + 1 = 2
          OBVIOUS
        <5> QED
          BY <1>4, <2>1, <3>3, <4>1, <5>1, <5>2 DEF x
      <4> QED
        BY <2>3, <4>2 DEF SameLeaf
    <3>4. CASE k \in m + 1 .. q - 1
      <4>1. PICK i \in 1 .. p - 1 : i = k - m + 1
        BY <1>1, <3>4
      <4>2. /\ k \in m + 1 .. m + p - 1 /\ k + 1 \in m + 1 .. m + p - 1
            /\ (k + 1) - m + 1 = i + 1
        BY <1>1, <3>4, <4>1
      <4>3. g[k] = t[i] /\ g[k + 1] = t[i + 1]
        <5>1. g[k] = t[k - m + 1] /\ g[k + 1] = t[(k + 1) - m + 1]
          BY <2>1, <4>2
        <5> QED
          BY <4>1, <4>2, <5>1
      <4> QED
        BY <1>4, <4>3
    <3>5. k \in 1 .. m - 2 \/ k = m - 1 \/ k = m \/ k \in m + 1 .. q - 1
      BY <1>1
    <3> QED
      BY <3>1, <3>2, <3>3, <3>4, <3>5
  <2> HIDE DEF g, q
  <2> QED
    BY <1>3, <1>4, <1>6, <2>5, <2>7, <2>8, <2>9, <2>10 DEF Tiles, Fits, g
<1>8. CASE ~SameLeaf(s[m], t[1])
  <2>1. /\ Len(g) = m + p
        /\ \A k \in 1 .. m : g[k] = s[k]
        /\ \A k \in m + 1 .. m + p : g[k] = t[k - m]
    BY <1>1, <1>5, <1>8, GlueIs DEF m, p
  <2> DEFINE q == m + p
  <2>2. q \in Nat \ {0} /\ Len(g) = q /\ g # <<>>
    BY <1>1, <1>6, <2>1
  <2>3. \A k \in 1 .. q : Fits(g[k])
    <3> SUFFICES ASSUME NEW k \in 1 .. q PROVE Fits(g[k])
      OBVIOUS
    <3>1. CASE k \in 1 .. m
      BY <1>3, <2>1, <3>1
    <3>2. CASE k \in m + 1 .. m + p
      <4>1. k - m \in 1 .. p
        BY <1>1, <3>2
      <4> QED
        BY <1>4, <2>1, <3>2, <4>1
    <3> QED
      BY <1>1, <3>1, <3>2
  <2>4. g[1] = s[1]
    <3>1. 1 \in 1 .. m
      BY <1>1
    <3> QED
      BY <2>1, <3>1
  <2>5. g[q] = t[p]
    <3>1. q \in m + 1 .. m + p /\ q - m = p
      BY <1>1
    <3>2. g[q] = t[q - m]
      BY <2>1, <3>1
    <3> QED
      BY <3>1, <3>2
  <2>6. ASSUME NEW k \in 1 .. q - 1 PROVE g[k].right = g[k + 1].left /\ ~SameLeaf(g[k], g[k + 1])
    <3>1. CASE k \in 1 .. m - 1
      <4>1. k \in 1 .. m /\ k + 1 \in 1 .. m
        BY <1>1, <3>1
      <4>2. g[k] = s[k] /\ g[k + 1] = s[k + 1]
        BY <2>1, <4>1
      <4> QED
        BY <1>3, <3>1, <4>2
    <3>2. CASE k = m
      <4>1. k \in 1 .. m /\ k + 1 \in m + 1 .. m + p /\ (k + 1) - m = 1
        BY <1>1, <3>2
      <4>2. g[k] = s[m] /\ g[k + 1] = t[1]
        <5>1. g[k + 1] = t[(k + 1) - m]
          BY <2>1, <4>1
        <5> QED
          BY <2>1, <3>2, <4>1, <5>1
      <4> QED
        BY <1>5, <1>8, <4>2
    <3>3. CASE k \in m + 1 .. q - 1
      <4>1. PICK i \in 1 .. p - 1 : i = k - m
        BY <1>1, <3>3
      <4>2. k \in m + 1 .. m + p /\ k + 1 \in m + 1 .. m + p /\ (k + 1) - m = i + 1
        BY <1>1, <3>3, <4>1
      <4>3. g[k] = t[i] /\ g[k + 1] = t[i + 1]
        <5>1. g[k] = t[k - m] /\ g[k + 1] = t[(k + 1) - m]
          BY <2>1, <4>2
        <5> QED
          BY <4>1, <4>2, <5>1
      <4> QED
        BY <1>4, <4>3
    <3>4. k \in 1 .. m - 1 \/ k = m \/ k \in m + 1 .. q - 1
      BY <1>1
    <3> QED
      BY <3>1, <3>2, <3>3, <3>4
  <2> HIDE DEF g, q
  <2> QED
    BY <1>3, <1>4, <1>6, <2>2, <2>3, <2>4, <2>5, <2>6 DEF Tiles, Fits, g
<1> QED
  BY <1>7, <1>8

(* A node that is cut on one side of its middle only.                      *)
LEMMA TilesHalf ==
  ASSUME NEW V, NEW tree, NEW l \in Int, NEW r \in Int, NEW n \in Nodes, Splits(n), NEW s,
         \/ r <= Mid(n) /\ Tiles(s, tree, V, l, r, LeftChild(n))
         \/ Mid(n) <= l /\ Tiles(s, tree, V, l, r, RightChild(n))
  PROVE  Tiles(s, tree, V, l, r, n)
<1>0. /\ n.left \in Nat /\ n.right \in Nat /\ Mid(n) \in Nat /\ n.left < Mid(n) /\ Mid(n) < n.right
      /\ LeftChild(n).left = n.left /\ LeftChild(n).right = Mid(n)
      /\ RightChild(n).left = Mid(n) /\ RightChild(n).right = n.right
  BY NodeBounds, RangeAssumption
<1>1. s \in Seq(SegmentsOf(V)) /\ s # <<>>
  BY DEF Tiles
<1>2. s[1].left \in Nat /\ s[Len(s)].right \in Nat
  <2>1. s[1] \in SegmentsOf(V) /\ s[Len(s)] \in SegmentsOf(V)
    BY <1>1
  <2> QED
    BY <2>1, RangeAssumption DEF SegmentsOf
<1>3. CASE r <= Mid(n) /\ Tiles(s, tree, V, l, r, LeftChild(n))
  BY <1>0, <1>1, <1>2, <1>3 DEF Tiles
<1>4. CASE Mid(n) <= l /\ Tiles(s, tree, V, l, r, RightChild(n))
  BY <1>0, <1>1, <1>2, <1>4 DEF Tiles
<1> QED
  BY <1>3, <1>4

(* Collect cuts the whole range.                                           *)
LEMMA CollectTilesRoot ==
  ASSUME NEW V, NEW tree, IsTree(tree, V), NEW l \in Int, NEW r \in Int,
         0 <= l, l < r, r <= MAX_RANGE
  PROVE  Tiles(Collect(tree, l, r), tree, V, l, r, Root)
<1> DEFINE g == CHOOSE f : IsCollect(f, tree, l, r)
<1>1. IsCollect(g, tree, l, r)
  BY CollectExists, Zenon
<1>2. Collect(tree, l, r) = g[Root]
  <2>1. Collect(tree, l, r) = IF l >= r THEN <<>> ELSE g[Root]
    BY Zenon DEF Collect, IsCollect, CollectNode
  <2> HIDE DEF g
  <2> QED
    BY <2>1
<1> HIDE DEF g
<1>3. \A n \in Nodes : g[n] = CollectNode(g, tree, l, r, n)
  <2> DEFINE h == [n \in Nodes |-> CollectNode(g, tree, l, r, n)]
  <2>1. \A n \in Nodes : h[n] = CollectNode(g, tree, l, r, n)
    BY Zenon
  <2>2. g = h
    BY <1>1, Zenon DEF IsCollect
  <2> HIDE DEF h
  <2> QED
    BY <2>1, <2>2
<1> DEFINE T == {n \in Nodes : (n.left < r /\ l < n.right) => Tiles(g[n], tree, V, l, r, n)}
<1>4. ASSUME NEW n \in Nodes, \A m \in Nodes : Width(m) < Width(n) => m \in T
      PROVE  n \in T
  <2> SUFFICES ASSUME n.left < r, l < n.right PROVE Tiles(g[n], tree, V, l, r, n)
    OBVIOUS
  <2>0. n.left \in Nat /\ n.right \in Nat /\ ~(r <= n.left \/ n.right <= l)
    BY NodeBounds, RangeAssumption
  <2>1. CASE tree[n] # Partial
    <3>1. g[n] = <<Segment(tree, n)>>
      BY <1>3, <2>0, <2>1, PartialType DEF CollectNode
    <3> QED
      BY <2>0, <2>1, <3>1, TilesLeaf
  <2>2. CASE tree[n] = Partial
    <3>0. tree[n].type = "PARTIAL_SEGMENT" /\ Splits(n)
      BY <2>2, PartialType
    <3>1. g[n] = Glue(g[LeftChild(n)], g[RightChild(n)])
      BY <1>3, <2>0, <3>0 DEF CollectNode
    <3>2. /\ Mid(n) \in Nat /\ n.left < Mid(n) /\ Mid(n) < n.right
          /\ LeftChild(n) \in Nodes /\ RightChild(n) \in Nodes
          /\ LeftChild(n).left = n.left /\ LeftChild(n).right = Mid(n)
          /\ RightChild(n).left = Mid(n) /\ RightChild(n).right = n.right
      BY <3>0, NodeBounds, RangeAssumption
    <3>3. LeftChild(n) \in T /\ RightChild(n) \in T
      BY <1>4, <3>0, NodeBounds
    <3>4. CASE l < Mid(n) /\ Mid(n) < r
      <4>1. /\ Tiles(g[LeftChild(n)], tree, V, l, r, LeftChild(n))
            /\ Tiles(g[RightChild(n)], tree, V, l, r, RightChild(n))
        BY <2>0, <3>2, <3>3, <3>4
      <4> QED
        BY <3>0, <3>1, <3>4, <4>1, TilesBoth
    <3>5. CASE r <= Mid(n)
      <4>1. g[RightChild(n)] = <<>>
        BY <1>3, <3>2, <3>5 DEF CollectNode
      <4>2. Tiles(g[LeftChild(n)], tree, V, l, r, LeftChild(n))
        BY <2>0, <3>2, <3>3, <3>5
      <4>3. g[LeftChild(n)] \in Seq(SegmentsOf(V))
        BY <4>2 DEF Tiles
      <4>4. g[n] = g[LeftChild(n)]
        BY <3>1, <4>1, <4>3 DEF Glue
      <4> QED
        BY <3>0, <3>5, <4>2, <4>4, TilesHalf
    <3>6. CASE Mid(n) <= l
      <4>1. g[LeftChild(n)] = <<>>
        BY <1>3, <3>2, <3>6 DEF CollectNode
      <4>2. Tiles(g[RightChild(n)], tree, V, l, r, RightChild(n))
        BY <2>0, <3>2, <3>3, <3>6
      <4>3. g[RightChild(n)] \in Seq(SegmentsOf(V))
        BY <4>2 DEF Tiles
      <4>4. g[n] = g[RightChild(n)]
        BY <3>1, <4>1, <4>3 DEF Glue
      <4> QED
        BY <3>0, <3>6, <4>2, <4>4, TilesHalf
    <3> QED
      BY <3>2, <3>4, <3>5, <3>6
  <2> QED
    BY <2>1, <2>2
<1>5. Nodes \subseteq T
  <2> HIDE DEF T
  <2> QED
    BY <1>4, NodeInduction
<1>6. Root \in Nodes /\ Root.left < r /\ l < Root.right
  BY NodeFacts, RangeAssumption DEF Root
<1> QED
  BY <1>2, <1>5, <1>6

(* The segments s cut l .. r - 1: they hold what the tree holds, come one  *)
(* behind the other without a gap, cover the range, and no two neighbours  *)
(* hold the same.                                                          *)
Cuts(s, tree, V, l, r) ==
    /\ s \in Seq(SegmentsOf(V)) /\ s # <<>>
    /\ s[1].left <= l /\ r <= s[Len(s)].right
    /\ \A k \in 1 .. Len(s) :
          /\ s[k].left < s[k].right /\ s[k].left < r /\ l < s[k].right
          /\ \A a \in Addresses :
                (s[k].left <= a /\ a < s[k].right) => At(tree, a) = Leaf(s[k].type, s[k].value)
    /\ \A k \in 1 .. Len(s) - 1 : s[k].right = s[k + 1].left /\ ~SameLeaf(s[k], s[k + 1])
    /\ \A i, j \in 1 .. Len(s) : i < j => s[i].right <= s[j].left
    /\ \A a \in Addresses : (l <= a /\ a < r) =>
          \E k \in 1 .. Len(s) : s[k].left <= a /\ a < s[k].right

(* Collect cuts its range.                                                 *)
LEMMA CollectCuts ==
  ASSUME NEW V, NEW tree, IsTree(tree, V), NEW l \in Int, NEW r \in Int,
         0 <= l, l < r, r <= MAX_RANGE
  PROVE  Cuts(Collect(tree, l, r), tree, V, l, r)
<1> DEFINE s == Collect(tree, l, r)
           m == Len(s)
<1>1. Tiles(s, tree, V, l, r, Root)
  BY CollectTilesRoot
<1> HIDE DEF s
<1>2. s \in Seq(SegmentsOf(V)) /\ s # <<>> /\ m \in Nat \ {0} /\ \A k \in 1 .. m : s[k] \in SegmentsOf(V)
  BY <1>1 DEF Tiles
<1>3. \A k \in 1 .. m : s[k].left \in Nat /\ s[k].right \in Nat /\ s[k].right <= MAX_RANGE
  BY <1>2, RangeAssumption DEF SegmentsOf
<1>4. /\ \A k \in 1 .. m :
            /\ s[k].left < s[k].right /\ s[k].left < r /\ l < s[k].right
            /\ \A a \in Addresses :
                  (s[k].left <= a /\ a < s[k].right) => At(tree, a) = Leaf(s[k].type, s[k].value)
      /\ \A k \in 1 .. m - 1 : s[k].right = s[k + 1].left /\ ~SameLeaf(s[k], s[k + 1])
  BY <1>1 DEF Tiles
<1>5. s[1].left <= l /\ r <= s[m].right
  <2>1. /\ s[1].left <= l \/ s[1].left = 0
        /\ r <= s[m].right \/ s[m].right = MAX_RANGE
    BY <1>1 DEF Tiles, Root
  <2>2. s[1].left \in Nat /\ s[m].right \in Nat
    BY <1>2, <1>3
  <2> QED
    BY <2>1, <2>2, RangeAssumption
<1> HIDE DEF m
<1>6. \A i, j \in 1 .. m : i < j => s[i].right <= s[j].left
  <2> SUFFICES ASSUME NEW i \in 1 .. m PROVE \A j \in 1 .. m : i < j => s[i].right <= s[j].left
    OBVIOUS
  <2> DEFINE K == {j \in Nat : j \in 1 .. m => (i < j => s[i].right <= s[j].left)}
  <2>1. 0 \in K
    OBVIOUS
  <2>2. ASSUME NEW j \in Nat, j \in K PROVE j + 1 \in K
    <3> SUFFICES ASSUME j + 1 \in 1 .. m, i < j + 1 PROVE s[i].right <= s[j + 1].left
      OBVIOUS
    <3>1. j \in 1 .. m - 1 /\ j \in 1 .. m
      BY <1>2
    <3>2. s[j].right = s[j + 1].left
      BY <1>4, <3>1
    <3>3. CASE i = j
      BY <1>3, <3>1, <3>2, <3>3
    <3>4. CASE i < j
      <4>1. s[i].right <= s[j].left
        BY <2>2, <3>1, <3>4
      <4>2. s[j].left < s[j].right /\ s[i].right \in Nat /\ s[j].left \in Nat /\ s[j].right \in Nat
        BY <1>3, <1>4, <3>1
      <4> QED
        BY <3>2, <4>1, <4>2
    <3> QED
      BY <3>3, <3>4
  <2>3. Nat \subseteq K
    <3> HIDE DEF K
    <3> QED
      BY <2>1, <2>2, NatSetInduction
  <2> QED
    BY <2>3
<1>7. ASSUME NEW a \in Addresses, l <= a, a < r
      PROVE  \E k \in 1 .. m : s[k].left <= a /\ a < s[k].right
  <2>0. a \in Nat
    BY DEF Addresses
  <2> DEFINE K == {j \in Nat : (j \in 1 .. m /\ a < s[j].right) =>
                       \E k \in 1 .. m : s[k].left <= a /\ a < s[k].right}
  <2>1. 0 \in K
    OBVIOUS
  <2>2. ASSUME NEW j \in Nat, j \in K PROVE j + 1 \in K
    <3> SUFFICES ASSUME j + 1 \in 1 .. m, a < s[j + 1].right
                 PROVE  \E k \in 1 .. m : s[k].left <= a /\ a < s[k].right
      OBVIOUS
    <3>1. CASE s[j + 1].left <= a
      BY <3>1
    <3>2. CASE ~(s[j + 1].left <= a)
      <4>0. s[j + 1].left \in Nat
        BY <1>3
      <4>1. j # 0
        <5>1. j = 0 => j + 1 = 1
          OBVIOUS
        <5> QED
          BY <1>5, <1>7, <2>0, <3>2, <4>0, <5>1
      <4>2. j \in 1 .. m - 1 /\ j \in 1 .. m
        BY <1>2, <4>1
      <4>3. s[j].right = s[j + 1].left
        BY <1>4, <4>2
      <4>4. a < s[j].right
        BY <2>0, <3>2, <4>0, <4>3
      <4> QED
        BY <2>2, <4>2, <4>4
    <3> QED
      BY <3>1, <3>2
  <2>3. Nat \subseteq K
    <3> HIDE DEF K
    <3> QED
      BY <2>1, <2>2, NatSetInduction
  <2>4. m \in Nat /\ m \in 1 .. m
    BY <1>2
  <2>5. s[m].right \in Nat
    BY <1>3, <2>4
  <2>6. a < s[m].right
    BY <1>5, <1>7, <2>0, <2>5
  <2> QED
    BY <2>3, <2>4, <2>6
<1> QED
  BY <1>2, <1>4, <1>5, <1>6, <1>7 DEF Cuts, s, m
=============================================================================
