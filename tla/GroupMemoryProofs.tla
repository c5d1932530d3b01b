----------------------- MODULE GroupMemoryProofs -----------------------
(***************************************************************************)
(* The groups of GroupMemory, for any trace that MergeTrace can return and *)
(* any number of addresses, threads and instructions.                      *)
(***************************************************************************)
EXTENDS MemoryDependency, SegmentTreeProofs

-----------------------------------------------------------------------------
(* The trees of GroupMemory                                                *)

Trees(V) == {tree \in [Nodes -> Contents(V)] : IsTree(tree, V)}

(* A tree is one of the set of trees.                                      *)
LEMMA TreesAre ==
  ASSUME NEW V, NEW tree
  PROVE  tree \in Trees(V) <=> IsTree(tree, V)
BY DEF Trees, IsTree

(* Address a is in a segment of the type.                                  *)
InSome(segments, type, a) ==
    \E k \in 1 .. Len(segments) :
        segments[k].type = type /\ segments[k].left <= a /\ a < segments[k].right

(* Segments have bounds that are numbers.                                  *)
Bounded(segments) ==
    /\ Len(segments) \in Nat
    /\ \A k \in 1 .. Len(segments) : segments[k].left \in Int /\ segments[k].right \in Int

(* What SetAll does with one segment.                                      *)
SetOne(tree, segments, type, v, k) ==
    IF segments[k].type # type THEN tree
    ELSE Set(tree, segments[k].left, segments[k].right, v)

(* The recursive function inside SetAll.                                   *)
IsSetAll(f, tree, segments, type, v) ==
    f = [k \in 0 .. Len(segments) |->
            IF k = 0 THEN tree
            ELSE IF segments[k].type # type THEN f[k - 1]
            ELSE Set(f[k - 1], segments[k].left, segments[k].right, v)]

(* It exists, and is a tree after every segment.                           *)
LEMMA SetAllExists ==
  ASSUME NEW V, NEW tree, IsTree(tree, V), NEW segments, Bounded(segments), NEW type, NEW v \in V
  PROVE  \E f \in [0 .. Len(segments) -> Trees(V)] : IsSetAll(f, tree, segments, type, v)
<1> DEFINE n == Len(segments)
           M == Trees(V)
           op == [p \in M \X (1 .. n) |-> SetOne(p[1], segments, type, v, p[2])]
<1>1. n \in Nat
  BY DEF Bounded
<1>2. ASSUME NEW t \in M, NEW k \in 1 .. n PROVE SetOne(t, segments, type, v, k) \in M
  <2>1. IsTree(t, V) /\ segments[k].left \in Int /\ segments[k].right \in Int
    BY TreesAre DEF Bounded
  <2>2. IsTree(Set(t, segments[k].left, segments[k].right, v), V)
    BY <2>1, SetTree
  <2>3. Set(t, segments[k].left, segments[k].right, v) \in M
    BY <2>2, TreesAre
  <2> HIDE DEF M
  <2> QED
    BY <2>3 DEF SetOne
<1> HIDE DEF M, n
<1>3. op \in [M \X (1 .. n) -> M]
  BY <1>2
<1>4. \A t \in M, k \in 1 .. n : op[<<t, k>>] = SetOne(t, segments, type, v, k)
  OBVIOUS
<1>5. Steps(op, M, n)
  BY <1>1, <1>3 DEF Steps
<1> HIDE DEF op
<1>6. tree \in M
  BY TreesAre DEF M
<1>7. PICK f \in [0 .. n -> M] : Iterates(f, tree, op, n)
  BY <1>5, <1>6, IndexFunction
<1>8. \A k \in 0 .. n : f[k] = IF k = 0 THEN tree
                               ELSE IF segments[k].type # type THEN f[k - 1]
                               ELSE Set(f[k - 1], segments[k].left, segments[k].right, v)
  <2> SUFFICES ASSUME NEW k \in 0 .. n, k # 0 PROVE f[k] = SetOne(f[k - 1], segments, type, v, k)
    BY <1>1, <1>7 DEF Iterates, SetOne
  <2>1. k - 1 \in 0 .. n /\ k \in 1 .. n
    BY <1>1
  <2> QED
    BY <1>4, <1>7, <2>1 DEF Iterates
<1>9. f = [k \in 0 .. n |-> IF k = 0 THEN tree
                            ELSE IF segments[k].type # type THEN f[k - 1]
                            ELSE Set(f[k - 1], segments[k].left, segments[k].right, v)]
  <2>1. f = [k \in 0 .. n |-> f[k]]
    OBVIOUS
  <2> QED
    BY <1>8, <2>1, Zenon
<1>10. IsSetAll(f, tree, segments, type, v)
  BY <1>9, Zenon DEF IsSetAll, n
<1> QED
  BY <1>10 DEF M, n

(* SetAll changes the addresses of the segments of its type and no other.  *)
LEMMA SetAllTree ==
  ASSUME NEW V, NEW tree, IsTree(tree, V), NEW segments, Bounded(segments), NEW type, NEW v \in V
  PROVE  /\ IsTree(SetAll(tree, segments, type, v), V)
         /\ \A a \in Addresses :
               At(SetAll(tree, segments, type, v), a) =
                   IF InSome(segments, type, a) THEN Covered(v) ELSE At(tree, a)
<1> DEFINE n == Len(segments)
           f == CHOOSE g : IsSetAll(g, tree, segments, type, v)
           In(a, k) == \E j \in 1 .. k :
                          segments[j].type = type /\ segments[j].left <= a /\ a < segments[j].right
<1>1. n \in Nat /\ IsSetAll(f, tree, segments, type, v)
  BY SetAllExists, Zenon DEF Bounded
<1>2. SetAll(tree, segments, type, v) = f[n]
  BY Zenon DEF SetAll, IsSetAll
<1> HIDE DEF f
<1>3. \A k \in 0 .. n : f[k] = IF k = 0 THEN tree ELSE SetOne(f[k - 1], segments, type, v, k)
  <2> DEFINE h == [k \in 0 .. Len(segments) |->
                      IF k = 0 THEN tree
                      ELSE IF segments[k].type # type THEN f[k - 1]
                      ELSE Set(f[k - 1], segments[k].left, segments[k].right, v)]
  <2>1. \A k \in 0 .. n : h[k] = IF k = 0 THEN tree ELSE SetOne(f[k - 1], segments, type, v, k)
    BY Zenon DEF SetOne
  <2>2. f = h
    BY <1>1, Zenon DEF IsSetAll
  <2> HIDE DEF h
  <2> QED
    BY <2>1, <2>2
<1> DEFINE K == {k \in Nat : k \in 0 .. n =>
                    /\ IsTree(f[k], V)
                    /\ \A a \in Addresses :
                          At(f[k], a) = IF In(a, k) THEN Covered(v) ELSE At(tree, a)}
<1>4. 0 \in K
  <2>1. f[0] = tree
    BY <1>1, <1>3
  <2> QED
    BY <2>1
<1>5. ASSUME NEW k \in Nat, k \in K PROVE k + 1 \in K
  <2> SUFFICES ASSUME k + 1 \in 0 .. n
               PROVE  /\ IsTree(f[k + 1], V)
                      /\ \A a \in Addresses :
                            At(f[k + 1], a) = IF In(a, k + 1) THEN Covered(v) ELSE At(tree, a)
    OBVIOUS
  <2>0. PICK e \in 1 .. n : e = k + 1
    BY <1>1
  <2>1. k \in 0 .. n /\ e # 0 /\ e - 1 = k /\ e \in 0 .. n
    BY <1>1, <2>0
  <2>2. IsTree(f[k], V) /\ \A a \in Addresses :
            At(f[k], a) = IF In(a, k) THEN Covered(v) ELSE At(tree, a)
    BY <1>5, <2>1
  <2>3. f[e] = SetOne(f[k], segments, type, v, e)
    BY <1>3, <2>1
  <2>4. \A a : In(a, e) <=> \/ In(a, k)
                            \/ (segments[e].type = type /\ segments[e].left <= a /\ a < segments[e].right)
    BY <2>0
  <2>5. segments[e].left \in Int /\ segments[e].right \in Int
    BY DEF Bounded
  <2> HIDE DEF In
  <2>6. CASE segments[e].type # type
    BY <2>0, <2>2, <2>3, <2>4, <2>6 DEF SetOne
  <2>7. CASE segments[e].type = type
    <3> DEFINE t == f[k]
    <3>1. IsTree(t, V)
      BY <2>2
    <3>2. f[e] = Set(t, segments[e].left, segments[e].right, v)
      BY <2>3, <2>7 DEF SetOne
    <3> HIDE DEF t
    <3>3. /\ IsTree(f[e], V)
          /\ \A a \in Addresses :
                At(f[e], a) = IF segments[e].left <= a /\ a < segments[e].right
                              THEN Covered(v) ELSE At(t, a)
      BY <2>5, <3>1, <3>2, SetTree
    <3> QED
      BY <2>0, <2>2, <2>4, <2>7, <3>3 DEF t
  <2> QED
    BY <2>6, <2>7
<1>6. Nat \subseteq K
  <2> HIDE DEF K
  <2> QED
    BY <1>4, <1>5, NatSetInduction
<1>7. n \in 0 .. n
  BY <1>1
<1> QED
  BY <1>1, <1>2, <1>6, <1>7 DEF InSome

(* The union of trees holds what one of them holds.                        *)
LEMMA MergedTreeIs ==
  ASSUME NEW trees, \A tree \in trees : IsTree(tree, {1})
  PROVE  /\ IsTree(MergedTree(trees), {1})
         /\ \A a \in Addresses :
               At(MergedTree(trees), a) =
                   IF \E tree \in trees : At(tree, a) = Covered(1) THEN Covered(1) ELSE Empty
<1> DEFINE new == MergedTree(trees)
           Value(n) == IF \E tree \in trees : tree[n] = Covered(1) THEN Covered(1)
                       ELSE IF \E tree \in trees : tree[n] = Partial THEN Partial ELSE Empty
<1>1. \A tree \in trees, n \in Nodes : tree[n] \in {Empty, Partial, Covered(1)}
  BY DEF IsTree, Contents
<1>2. \A tree \in trees, n \in Nodes : IsCovered(tree[n]) <=> tree[n] = Covered(1)
  BY <1>1, KindsDiffer DEF IsCovered
<1>3. new = [n \in Nodes |-> new[n]] /\ \A n \in Nodes : new[n] = Value(n)
  BY <1>2 DEF MergedTree, Covered, Empty
<1> HIDE DEF new
<1>4. Empty # Partial /\ Covered(1) # Partial /\ Covered(1) # Empty
  BY KindsDiffer
<1>5. new \in [Nodes -> Contents({1})]
  BY <1>3 DEF Contents
<1>6. \A tree \in trees, n \in Nodes : ~Splits(n) => tree[n] # Partial
  BY DEF IsTree
<1>7. \A n \in Nodes : ~Splits(n) => new[n] # Partial
  BY <1>3, <1>4, <1>6
<1>8. ASSUME NEW n \in Nodes, Splits(n), new[n] # Partial
      PROVE  new[LeftChild(n)] = new[n] /\ new[RightChild(n)] = new[n]
  <2>1. LeftChild(n) \in Nodes /\ RightChild(n) \in Nodes
    BY <1>8, NodeBounds
  <2>2. \A tree \in trees : tree[n] # Partial =>
            tree[LeftChild(n)] = tree[n] /\ tree[RightChild(n)] = tree[n]
    BY <1>8 DEF IsTree
  <2>3. CASE \E tree \in trees : tree[n] = Covered(1)
    BY <1>3, <1>4, <2>1, <2>2, <2>3
  <2>4. CASE ~\E tree \in trees : tree[n] = Covered(1)
    <3>1. \A tree \in trees : tree[n] = Empty
      BY <1>1, <1>3, <1>8, <2>4
    <3>2. new[n] = Empty
      BY <1>3, <1>4, <3>1
    <3>3. \A tree \in trees : tree[LeftChild(n)] = Empty /\ tree[RightChild(n)] = Empty
      BY <1>4, <2>2, <3>1
    <3> QED
      BY <1>3, <1>4, <2>1, <3>2, <3>3
  <2> QED
    BY <2>3, <2>4
<1>9. ASSUME NEW a \in Addresses
      PROVE  At(new, a) = IF \E tree \in trees : At(tree, a) = Covered(1) THEN Covered(1) ELSE Empty
  <2>1. Unit(a) \in Nodes /\ ~Splits(Unit(a))
    BY UnitsAreNodes
  <2> QED
    BY <1>3, <1>6, <2>1 DEF At
<1> QED
  BY <1>5, <1>7, <1>8, <1>9 DEF IsTree, new

(* The segments of the whole tree: what they say is what the tree says.    *)
LEMMA CollectInSome ==
  ASSUME NEW V, NEW tree, IsTree(tree, V), NEW type
  PROVE  /\ Bounded(Collect(tree, 0, MAX_RANGE))
         /\ \A a \in Addresses :
               InSome(Collect(tree, 0, MAX_RANGE), type, a) <=> At(tree, a).type = type
<1> DEFINE s == Collect(tree, 0, MAX_RANGE)
<1>0. MAX_RANGE \in Nat \ {0}
  BY RangeAssumption
<1>1. Cuts(s, tree, V, 0, MAX_RANGE)
  BY <1>0, CollectCuts
<1> HIDE DEF s
<1>2. s \in Seq(SegmentsOf(V)) /\ Len(s) \in Nat /\ \A k \in 1 .. Len(s) : s[k] \in SegmentsOf(V)
  BY <1>1 DEF Cuts
<1>3. Bounded(s)
  BY <1>0, <1>2 DEF Bounded, SegmentsOf
<1>4. ASSUME NEW a \in Addresses PROVE InSome(s, type, a) <=> At(tree, a).type = type
  <2>0. a \in Nat /\ 0 <= a /\ a < MAX_RANGE
    BY <1>0 DEF Addresses
  <2>1. PICK k \in 1 .. Len(s) : s[k].left <= a /\ a < s[k].right
    BY <1>1, <2>0 DEF Cuts
  <2>2. \A j \in 1 .. Len(s) : (s[j].left <= a /\ a < s[j].right) =>
            At(tree, a) = Leaf(s[j].type, s[j].value)
    BY <1>1 DEF Cuts
  <2>3. \A t, v : Leaf(t, v).type = t
    BY DEF Leaf
  <2> QED
    BY <2>1, <2>2, <2>3 DEF InSome
<1> QED
  BY <1>3, <1>4 DEF s

(* A sequence with one element replaced.                                   *)
LEMMA PutIsSeq ==
  ASSUME NEW S, NEW s \in Seq(S), NEW k \in 1 .. Len(s), NEW x \in S
  PROVE  [s EXCEPT ![k] = x] \in Seq(S)
OBVIOUS

IsCut(c, s, l, r) == c = [[s EXCEPT ![1].left = l] EXCEPT ![Len(s)].right = r]

(* The segments after their ends have been cut.                            *)
LEMMA CutEnds ==
  ASSUME NEW V, NEW s \in Seq(SegmentsOf(V)), s # <<>>, NEW l, NEW r, NEW c, IsCut(c, s, l, r)
  PROVE  /\ Len(c) = Len(s)
         /\ \A k \in 1 .. Len(s) :
               /\ c[k].type = s[k].type /\ c[k].value = s[k].value
               /\ c[k].left = IF k = 1 THEN l ELSE s[k].left
               /\ c[k].right = IF k = Len(s) THEN r ELSE s[k].right
<1> DEFINE n == Len(s)
           first == [s[1] EXCEPT !.left = l]
           d == [s EXCEPT ![1] = first]
           last == [d[n] EXCEPT !.right = r]
<1>1. n \in Nat \ {0} /\ s = [k \in 1 .. n |-> s[k]] /\ \A k \in 1 .. n : s[k] \in SegmentsOf(V)
  OBVIOUS
<1>2. c = [d EXCEPT ![n] = last]
  BY DEF IsCut
<1>3. \A x \in SegmentsOf(V) : \A y :
          /\ [x EXCEPT !.left = y].type = x.type /\ [x EXCEPT !.left = y].value = x.value
          /\ [x EXCEPT !.left = y].left = y /\ [x EXCEPT !.left = y].right = x.right
  BY DEF SegmentsOf
<1>4. \A x \in SegmentsOf(V) : \A y, z :
          LET u == [[x EXCEPT !.left = y] EXCEPT !.right = z] IN
          /\ u.type = x.type /\ u.value = x.value /\ u.left = y /\ u.right = z
  BY DEF SegmentsOf
<1>5. \A x \in SegmentsOf(V) : \A z :
          LET u == [x EXCEPT !.right = z] IN
          /\ u.type = x.type /\ u.value = x.value /\ u.left = x.left /\ u.right = z
  BY DEF SegmentsOf
<1> HIDE DEF n
<1>6. s[1] \in SegmentsOf(V) /\ s[n] \in SegmentsOf(V)
  BY <1>1
<1>7. d = [k \in 1 .. n |-> IF k = 1 THEN first ELSE s[k]]
  BY <1>1
<1>8. \A k \in 1 .. n : d[k] = IF k = 1 THEN first ELSE s[k]
  BY <1>7
<1>9. c = [k \in 1 .. n |-> IF k = n THEN last ELSE d[k]]
  BY <1>2, <1>7
<1>10. Len(c) = n
  BY <1>1, <1>9
<1>11. \A k \in 1 .. n : c[k] = IF k = n THEN last ELSE d[k]
  BY <1>9
<1> HIDE DEF d
<1>12. ASSUME NEW k \in 1 .. n
       PROVE  /\ c[k].type = s[k].type /\ c[k].value = s[k].value
              /\ c[k].left = IF k = 1 THEN l ELSE s[k].left
              /\ c[k].right = IF k = n THEN r ELSE s[k].right
  <2>1. CASE k = n /\ k = 1
    <3>1. c[k] = [[s[1] EXCEPT !.left = l] EXCEPT !.right = r]
      BY <1>8, <1>11, <2>1
    <3> QED
      BY <1>4, <1>6, <2>1, <3>1
  <2>2. CASE k = n /\ k # 1
    <3>1. c[k] = [s[n] EXCEPT !.right = r]
      BY <1>8, <1>11, <2>2
    <3> QED
      BY <1>5, <1>6, <2>2, <3>1
  <2>3. CASE k # n /\ k = 1
    <3>1. c[k] = [s[1] EXCEPT !.left = l]
      BY <1>8, <1>11, <2>3
    <3> QED
      BY <1>3, <1>6, <2>3, <3>1
  <2>4. CASE k # n /\ k # 1
    BY <1>8, <1>11, <2>4
  <2> QED
    BY <2>1, <2>2, <2>3, <2>4
<1> QED
  BY <1>10, <1>12 DEF n

(* What Segments returns lies in the range, and says what Addr2Group says; *)
(* what is found there are groups of addresses.                            *)
LEMMA SegmentsAre ==
  ASSUME NEW m, IsTree(m.Addr2Group, Nat), NEW l \in 0 .. MAX_RANGE, NEW r \in 0 .. MAX_RANGE, l < r
  PROVE  /\ Segments(m, l, r) \in Seq(SegmentsOf(Nat)) /\ Bounded(Segments(m, l, r))
         /\ \A type, a : a \in Addresses =>
               (InSome(Segments(m, l, r), type, a) <=>
                    l <= a /\ a < r /\ At(m.Addr2Group, a).type = type)
         /\ \A x \in ToSet(Segments(m, l, r)) :
               \E a \in Addresses : At(m.Addr2Group, a) = Leaf(x.type, x.value)
<1> DEFINE A == m.Addr2Group
           s == Collect(A, l, r)
           c == Segments(m, l, r)
           n == Len(s)
<1>0. MAX_RANGE \in Nat \ {0} /\ l \in Nat /\ r \in Nat
  BY RangeAssumption
<1>1. Cuts(s, A, Nat, l, r)
  BY <1>0, CollectCuts
<1>2. IsCut(c, s, l, r)
  BY DEF Segments, IsCut
<1> HIDE DEF s, c, A
<1>3. /\ s \in Seq(SegmentsOf(Nat)) /\ s # <<>> /\ n \in Nat \ {0}
      /\ \A k \in 1 .. n : s[k] \in SegmentsOf(Nat)
  BY <1>1 DEF Cuts
<1>4. /\ Len(c) = n
      /\ \A k \in 1 .. n : /\ c[k].type = s[k].type /\ c[k].value = s[k].value
                           /\ c[k].left = IF k = 1 THEN l ELSE s[k].left
                           /\ c[k].right = IF k = n THEN r ELSE s[k].right
  <2>1. Len(s) = n
    OBVIOUS
  <2> HIDE DEF n
  <2> QED
    BY <1>2, <1>3, <2>1, CutEnds
<1>5. \A k \in 1 .. n : s[k].left \in Nat /\ s[k].right \in Nat /\ s[k].right <= MAX_RANGE
  BY <1>0, <1>3 DEF SegmentsOf
<1>6. c \in Seq(SegmentsOf(Nat))
  <2>1. \A x, y : x \in SegmentsOf(Nat) /\ y \in 0 .. MAX_RANGE =>
            [x EXCEPT !.left = y] \in SegmentsOf(Nat) /\ [x EXCEPT !.right = y] \in SegmentsOf(Nat)
    BY DEF SegmentsOf
  <2> DEFINE d == [s EXCEPT ![1].left = l]
  <2>2. 1 \in 1 .. n /\ n \in 1 .. n /\ s[1] \in SegmentsOf(Nat)
    BY <1>3
  <2>3. d \in Seq(SegmentsOf(Nat)) /\ Len(d) = n
    <3> HIDE DEF n
    <3>1. [s[1] EXCEPT !.left = l] \in SegmentsOf(Nat)
      BY <2>1, <2>2
    <3> QED
      BY <1>3, <3>1 DEF n
  <2>4. d[n] \in SegmentsOf(Nat)
    <3> HIDE DEF d
    <3> QED
      BY <2>2, <2>3
  <2>5. [d[n] EXCEPT !.right = r] \in SegmentsOf(Nat)
    BY <2>1, <2>4
  <2>6. c = [d EXCEPT ![n] = [d[n] EXCEPT !.right = r]]
    BY <1>2 DEF IsCut
  <2> DEFINE last == [d[n] EXCEPT !.right = r]
             S == SegmentsOf(Nat)
  <2>7. d \in Seq(S) /\ Len(d) = n /\ last \in S /\ c = [d EXCEPT ![n] = last]
    BY <2>3, <2>5, <2>6
  <2> HIDE DEF d, last, S, n
  <2>8. [d EXCEPT ![n] = last] \in Seq(S)
    <3>1. n \in 1 .. Len(d)
      BY <1>3, <2>7
    <3> QED
      BY <2>7, <3>1, PutIsSeq
  <2> QED
    BY <2>7, <2>8 DEF S
<1>7. Bounded(c)
  <2> HIDE DEF n
  <2>1. \A k \in 1 .. n : c[k].left \in Int /\ c[k].right \in Int
    BY <1>0, <1>4, <1>5
  <2> QED
    BY <1>3, <1>4, <2>1 DEF Bounded
<1>8. \A k \in 1 .. n : \A a \in Addresses :
          (s[k].left <= a /\ a < s[k].right) => At(A, a) = Leaf(s[k].type, s[k].value)
  BY <1>1 DEF Cuts
<1>9. s[1].left <= l /\ r <= s[n].right /\ \A k \in 1 .. n : s[k].left < s[k].right
                                                             /\ s[k].left < r /\ l < s[k].right
  BY <1>1 DEF Cuts
<1>10. \A i, j \in 1 .. n : i < j => s[i].right <= s[j].left
  BY <1>1 DEF Cuts
<1>11. \A a \in Addresses : (l <= a /\ a < r) => \E k \in 1 .. n : s[k].left <= a /\ a < s[k].right
  BY <1>1 DEF Cuts
<1> HIDE DEF n
<1>12. ASSUME NEW k \in 1 .. n, NEW a \in Addresses
       PROVE  (c[k].left <= a /\ a < c[k].right) <=> (l <= a /\ a < r /\ s[k].left <= a /\ a < s[k].right)
  <2>0. a \in Nat /\ 1 \in 1 .. n /\ n \in 1 .. n
    BY <1>3 DEF Addresses
  <2>1. k # 1 => l <= s[k].left
    <3> SUFFICES ASSUME k # 1 PROVE l <= s[k].left
      OBVIOUS
    <3>1. s[1].right <= s[k].left /\ l < s[1].right
      <4>1. 1 < k
        BY <1>3
      <4> QED
        BY <1>9, <1>10, <2>0, <4>1
    <3>2. s[1].right \in Nat /\ s[k].left \in Nat
      BY <1>5, <2>0
    <3> QED
      BY <1>0, <3>1, <3>2
  <2>2. k # n => s[k].right <= r
    <3> SUFFICES ASSUME k # n PROVE s[k].right <= r
      OBVIOUS
    <3>1. s[k].right <= s[n].left /\ s[n].left < r
      <4>1. k < n
        BY <1>3
      <4> QED
        BY <1>9, <1>10, <2>0, <4>1
    <3>2. s[k].right \in Nat /\ s[n].left \in Nat
      BY <1>5, <2>0
    <3> QED
      BY <1>0, <3>1, <3>2
  <2>3. s[k].left \in Nat /\ s[k].right \in Nat
    BY <1>5
  <2>4. k = 1 => s[k].left <= l
    BY <1>9
  <2>5. k = n => r <= s[k].right
    BY <1>9
  <2>6. c[k].left <= a <=> (l <= a /\ s[k].left <= a)
    BY <1>0, <1>4, <2>0, <2>1, <2>3, <2>4
  <2>7. a < c[k].right <=> (a < r /\ a < s[k].right)
    BY <1>0, <1>4, <2>0, <2>2, <2>3, <2>5
  <2> QED
    BY <2>6, <2>7
<1>13. \A t, v : Leaf(t, v).type = t
  BY DEF Leaf
<1>14. ASSUME NEW type, NEW a \in Addresses
       PROVE  InSome(c, type, a) <=> l <= a /\ a < r /\ At(A, a).type = type
  <2>1. ASSUME InSome(c, type, a) PROVE l <= a /\ a < r /\ At(A, a).type = type
    <3>1. PICK k \in 1 .. n : c[k].type = type /\ c[k].left <= a /\ a < c[k].right
      BY <1>4, <2>1 DEF InSome
    <3>2. l <= a /\ a < r /\ s[k].left <= a /\ a < s[k].right
      BY <1>12, <3>1
    <3> QED
      BY <1>4, <1>8, <1>13, <3>1, <3>2
  <2>2. ASSUME l <= a, a < r, At(A, a).type = type PROVE InSome(c, type, a)
    <3>1. PICK k \in 1 .. n : s[k].left <= a /\ a < s[k].right
      BY <1>11, <2>2
    <3>2. s[k].type = type
      BY <1>8, <1>13, <2>2, <3>1
    <3>3. c[k].left <= a /\ a < c[k].right
      BY <1>12, <2>2, <3>1
    <3> QED
      BY <1>4, <3>2, <3>3 DEF InSome
  <2> QED
    BY <2>1, <2>2
<1>15. ASSUME NEW x \in ToSet(c)
       PROVE  \E a \in Addresses : At(A, a) = Leaf(x.type, x.value)
  <2>1. PICK k \in 1 .. n : x = c[k]
    BY <1>4, <1>6 DEF ToSet
  <2> DEFINE a == s[k].left
  <2>2. a \in Addresses /\ s[k].left <= a /\ a < s[k].right
    BY <1>0, <1>5, <1>9 DEF Addresses
  <2>3. At(A, a) = Leaf(x.type, x.value)
    <3> HIDE DEF a
    <3> QED
      BY <1>4, <1>8, <2>1, <2>2
  <2> QED
    BY <2>2, <2>3
<1> QED
  BY <1>6, <1>7, <1>14, <1>15 DEF A, c

-----------------------------------------------------------------------------
(* The two maps of addresses                                               *)

(* A maps addresses to groups, G groups to trees of addresses, and both    *)
(* say the same; no group has a number above max.                          *)
AddrOK(A, G, max) ==
    /\ max \in Nat /\ IsTree(A, Nat)
    /\ DOMAIN G \subseteq 1 .. max
    /\ \A g \in DOMAIN G : IsTree(G[g], {1})
    /\ \A a \in Addresses : \A g \in Nat : At(A, a) = Covered(g) => g \in DOMAIN G
    /\ \A a \in Addresses : \A g \in DOMAIN G : At(A, a) = Covered(g) <=> At(G[g], a) = Covered(1)

(* A new group has no addresses.                                           *)
LEMMA AddrNew ==
  ASSUME NEW A, NEW G, NEW max, AddrOK(A, G, max)
  PROVE  AddrOK(A, With(G, max + 1, NewTree), max + 1)
<1> DEFINE g == max + 1
           H == With(G, g, NewTree)
<1>1. DOMAIN H = DOMAIN G \cup {g} /\ H[g] = NewTree /\ \A h \in DOMAIN G : h # g => H[h] = G[h]
  BY DEF With
<1>2. max \in Nat /\ DOMAIN G \subseteq 1 .. max /\ g \in Nat /\ g \notin DOMAIN G
  BY DEF AddrOK
<1>3. DOMAIN H \subseteq 1 .. g
  BY <1>1, <1>2
<1> HIDE DEF H, g
<1>4. \A h \in DOMAIN H : IsTree(H[h], {1})
  BY <1>1, NewTreeEmpty DEF AddrOK
<1>5. ASSUME NEW a \in Addresses PROVE At(A, a) # Covered(g) /\ At(H[g], a) # Covered(1)
  BY <1>1, <1>2, NewTreeEmpty, KindsDiffer DEF AddrOK
<1>6. \A a \in Addresses : \A h \in DOMAIN H : At(A, a) = Covered(h) <=> At(H[h], a) = Covered(1)
  BY <1>1, <1>2, <1>5 DEF AddrOK
<1>7. \A a \in Addresses : \A h \in Nat : At(A, a) = Covered(h) => h \in DOMAIN H
  BY <1>1 DEF AddrOK
<1>8. IsTree(A, Nat)
  BY DEF AddrOK
<1> QED
  BY <1>2, <1>3, <1>4, <1>6, <1>7, <1>8 DEF AddrOK, H, g

(* A set of numbers that is not empty has a smallest one.                  *)
LEMMA Minimum ==
  ASSUME NEW S \in SUBSET Nat, S # {}
  PROVE  Min(S) \in S /\ \A y \in S : Min(S) <= y
<1> DEFINE T == {n \in Nat : \A x \in S : x <= n => \E z \in S : \A y \in S : z <= y}
<1>1. 0 \in T
  OBVIOUS
<1>2. ASSUME NEW n \in Nat, n \in T PROVE n + 1 \in T
  <2> SUFFICES ASSUME NEW x \in S, x <= n + 1, ~\E z \in S : z <= n
               PROVE  \E z \in S : \A y \in S : z <= y
    BY <1>2
  <2>1. \A y \in S : x <= y
    OBVIOUS
  <2> QED
    BY <2>1
<1>3. Nat \subseteq T
  <2> HIDE DEF T
  <2> QED
    BY <1>1, <1>2, NatSetInduction
<1>4. PICK x \in S : TRUE
  OBVIOUS
<1>5. \E z \in S : \A y \in S : z <= y
  BY <1>3, <1>4
<1> QED
  BY <1>5 DEF Min

(* What Merging makes of the maps of addresses.                            *)
MergesAddr(A, G, gs, g, B, H) ==
    LET tree == MergedTree({G[h] : h \in gs}) IN
    /\ B = SetAll(A, Collect(tree, 0, MAX_RANGE), "COVERED_SEGMENT", g)
    /\ H = With(Restrict(G, DOMAIN G \ gs), g, tree)

(* Groups that become one: their addresses go over to the first of them.   *)
LEMMA AddrMerge ==
  ASSUME NEW A, NEW G, NEW max, AddrOK(A, G, max),
         NEW gs, gs \subseteq DOMAIN G, NEW g \in gs, NEW B, NEW H, MergesAddr(A, G, gs, g, B, H)
  PROVE  /\ AddrOK(B, H, max)
         /\ DOMAIN H = (DOMAIN G \ gs) \cup {g}
         /\ \A a \in Addresses :
               At(B, a) = IF \E h \in gs : At(A, a) = Covered(h) THEN Covered(g) ELSE At(A, a)
<1> DEFINE trees == {G[h] : h \in gs}
           tree == MergedTree(trees)
           s == Collect(tree, 0, MAX_RANGE)
           R == Restrict(G, DOMAIN G \ gs)
<1>0. B = SetAll(A, s, "COVERED_SEGMENT", g) /\ H = With(R, g, tree)
  BY DEF MergesAddr
<1>1. /\ max \in Nat /\ IsTree(A, Nat)
      /\ DOMAIN G \subseteq 1 .. max
      /\ \A h \in DOMAIN G : IsTree(G[h], {1})
      /\ \A a \in Addresses : \A h \in Nat : At(A, a) = Covered(h) => h \in DOMAIN G
      /\ \A a \in Addresses : \A h \in DOMAIN G :
            At(A, a) = Covered(h) <=> At(G[h], a) = Covered(1)
  BY DEF AddrOK
<1>2. g \in Nat /\ \A h \in gs : h \in Nat
  BY <1>1
<1>3. \A t \in trees : IsTree(t, {1})
  BY <1>1
<1>4. /\ IsTree(tree, {1})
      /\ \A a \in Addresses :
            At(tree, a) = IF \E t \in trees : At(t, a) = Covered(1) THEN Covered(1) ELSE Empty
  <2> HIDE DEF trees
  <2> QED
    BY <1>3, MergedTreeIs
<1>5. \A a \in Addresses : At(tree, a) = IF \E h \in gs : At(A, a) = Covered(h) THEN Covered(1) ELSE Empty
  <2>1. \A a \in Addresses : (\E t \in trees : At(t, a) = Covered(1)) <=> \E h \in gs : At(A, a) = Covered(h)
    BY <1>1
  <2> HIDE DEF trees, tree
  <2> QED
    BY <1>4, <2>1
<1> HIDE DEF tree, trees
<1>6. /\ Bounded(s)
      /\ \A a \in Addresses : InSome(s, "COVERED_SEGMENT", a) <=> At(tree, a).type = "COVERED_SEGMENT"
  BY <1>4, CollectInSome
<1>7. \A a \in Addresses : InSome(s, "COVERED_SEGMENT", a) <=> \E h \in gs : At(A, a) = Covered(h)
  BY <1>5, <1>6, KindsDiffer
<1> HIDE DEF s
<1>8. /\ IsTree(B, Nat)
      /\ \A a \in Addresses :
            At(B, a) = IF InSome(s, "COVERED_SEGMENT", a) THEN Covered(g) ELSE At(A, a)
  BY <1>0, <1>1, <1>2, <1>6, SetAllTree
<1>9. \A a \in Addresses :
          At(B, a) = IF \E h \in gs : At(A, a) = Covered(h) THEN Covered(g) ELSE At(A, a)
  BY <1>7, <1>8
<1>10. DOMAIN R = DOMAIN G \ gs /\ \A h \in DOMAIN G \ gs : R[h] = G[h]
  BY DEF Restrict
<1> HIDE DEF R
<1>11. DOMAIN H = (DOMAIN G \ gs) \cup {g} /\ H[g] = tree /\ \A h \in DOMAIN G \ gs : H[h] = G[h]
  <2>1. DOMAIN H = DOMAIN R \cup {g} /\ H[g] = tree /\ \A h \in DOMAIN R : h # g => H[h] = R[h]
    BY <1>0 DEF With
  <2> QED
    BY <1>10, <2>1
<1>12. \A v, w : Covered(v) = Covered(w) => v = w
  BY DEF Covered, Leaf
<1>13. DOMAIN H \subseteq 1 .. max /\ \A h \in DOMAIN H : IsTree(H[h], {1})
  BY <1>1, <1>4, <1>11
<1>14. ASSUME NEW a \in Addresses, NEW h \in Nat, At(B, a) = Covered(h) PROVE h \in DOMAIN H
  BY <1>1, <1>2, <1>9, <1>11, <1>12, <1>14
<1>15. ASSUME NEW a \in Addresses, NEW h \in DOMAIN H
       PROVE  At(B, a) = Covered(h) <=> At(H[h], a) = Covered(1)
  <2>1. CASE h = g
    <3>1. At(H[h], a) = Covered(1) <=> \E x \in gs : At(A, a) = Covered(x)
      BY <1>5, <1>11, <2>1, KindsDiffer
    <3> QED
      BY <1>9, <2>1, <3>1
  <2>2. CASE h # g
    <3>1. h \in DOMAIN G \ gs /\ H[h] = G[h]
      BY <1>11, <2>2
    <3> QED
      BY <1>1, <1>9, <1>12, <2>2, <3>1
  <2> QED
    BY <2>1, <2>2
<1>16. AddrOK(B, H, max)
  BY <1>1, <1>8, <1>13, <1>14, <1>15 DEF AddrOK
<1> QED
  BY <1>9, <1>11, <1>16

(* Addresses that are in no group are added to one.                        *)
LEMMA AddrAdd ==
  ASSUME NEW A, NEW G, NEW max, AddrOK(A, G, max), NEW g \in DOMAIN G, NEW S,
         \A a \in Addresses : a \in S => At(A, a) = Empty,
         NEW B, IsTree(B, Nat), NEW tree, IsTree(tree, {1}),
         \A a \in Addresses : At(B, a) = IF a \in S THEN Covered(g) ELSE At(A, a),
         \A a \in Addresses : At(tree, a) = IF a \in S THEN Covered(1) ELSE At(G[g], a)
  PROVE  AddrOK(B, [G EXCEPT ![g] = tree], max)
<1> DEFINE H == [G EXCEPT ![g] = tree]
<1>1. DOMAIN H = DOMAIN G /\ H[g] = tree /\ \A h \in DOMAIN G : h # g => H[h] = G[h]
  OBVIOUS
<1> HIDE DEF H
<1>2. g \in Nat /\ \A v, w : Covered(v) = Covered(w) => v = w
  BY DEF AddrOK, Covered, Leaf
<1>3. \A h \in DOMAIN H : IsTree(H[h], {1})
  BY <1>1 DEF AddrOK
<1>4. \A a \in Addresses : \A h \in Nat : At(B, a) = Covered(h) => h \in DOMAIN H
  BY <1>1, <1>2 DEF AddrOK
<1>5. ASSUME NEW a \in Addresses, NEW h \in DOMAIN H
      PROVE  At(B, a) = Covered(h) <=> At(H[h], a) = Covered(1)
  <2>1. CASE a \in S /\ h = g
    BY <1>1, <2>1
  <2>2. CASE a \in S /\ h # g
    <3>1. At(A, a) # Covered(h)
      BY <2>2, KindsDiffer
    <3>2. At(G[h], a) # Covered(1)
      BY <1>1, <3>1 DEF AddrOK
    <3> QED
      BY <1>1, <1>2, <2>2, <3>2
  <2>3. CASE a \notin S
    BY <1>1, <2>3 DEF AddrOK
  <2> QED
    BY <2>1, <2>2, <2>3
<1>6. max \in Nat /\ DOMAIN H \subseteq 1 .. max
  BY <1>1 DEF AddrOK
<1> QED
  BY <1>3, <1>4, <1>5, <1>6 DEF AddrOK, H

-----------------------------------------------------------------------------
(* The two maps of pointers                                                *)

(* I maps pointers to groups in D, P groups to sets of pointers, and both  *)
(* say the same.                                                           *)
PtrOK(I2G, G2I, D, max) ==
    /\ D \subseteq DOMAIN G2I /\ DOMAIN G2I \subseteq 1 .. max
    /\ \A k \in DOMAIN I2G : I2G[k] \in D /\ k \in G2I[I2G[k]]
    /\ \A g \in DOMAIN G2I : \A k \in G2I[g] : k \in DOMAIN I2G /\ I2G[k] = g

(* A new group has no pointers.                                            *)
LEMMA PtrNew ==
  ASSUME NEW I2G, NEW G2I, NEW D, NEW max \in Nat, PtrOK(I2G, G2I, D, max)
  PROVE  PtrOK(I2G, With(G2I, max + 1, {}), D \cup {max + 1}, max + 1)
<1> DEFINE g == max + 1
           Q == With(G2I, g, {})
<1>1. DOMAIN Q = DOMAIN G2I \cup {g} /\ Q[g] = {} /\ \A h \in DOMAIN G2I : h # g => Q[h] = G2I[h]
  BY DEF With
<1>2. g \in Nat /\ g \notin DOMAIN G2I
  BY DEF PtrOK
<1>3. DOMAIN Q \subseteq 1 .. g
  BY <1>1 DEF PtrOK
<1> HIDE DEF Q, g
<1> QED
  BY <1>1, <1>2, <1>3 DEF PtrOK, Q, g

(* What Merging makes of the maps of pointers.                             *)
MergesPtr(I2G, G2I, gs, g, J, Q) ==
    /\ J = [k \in DOMAIN I2G |-> IF \E h \in gs : k \in G2I[h] THEN g ELSE I2G[k]]
    /\ Q = [h \in DOMAIN G2I |-> IF h = g THEN UNION {G2I[x] : x \in gs}
                                 ELSE IF h \in gs THEN {} ELSE G2I[h]]

(* The pointers of groups that become one go over to it.                   *)
LEMMA PtrMerge ==
  ASSUME NEW I2G, NEW G2I, NEW D, NEW max \in Nat, PtrOK(I2G, G2I, D, max),
         NEW gs, gs \subseteq D, NEW g \in gs, NEW J, NEW Q, MergesPtr(I2G, G2I, gs, g, J, Q)
  PROVE  /\ PtrOK(J, Q, (D \ gs) \cup {g}, max)
         /\ DOMAIN J = DOMAIN I2G
         /\ \A k \in DOMAIN I2G : J[k] = IF I2G[k] \in gs THEN g ELSE I2G[k]
<1>1. /\ D \subseteq DOMAIN G2I /\ DOMAIN G2I \subseteq 1 .. max
      /\ \A k \in DOMAIN I2G : I2G[k] \in D /\ k \in G2I[I2G[k]]
      /\ \A h \in DOMAIN G2I : \A k \in G2I[h] : k \in DOMAIN I2G /\ I2G[k] = h
  BY DEF PtrOK
<1>2. \A k \in DOMAIN I2G : (\E h \in gs : k \in G2I[h]) <=> I2G[k] \in gs
  BY <1>1
<1>3. DOMAIN J = DOMAIN I2G /\ \A k \in DOMAIN I2G : J[k] = IF I2G[k] \in gs THEN g ELSE I2G[k]
  BY <1>2 DEF MergesPtr
<1>4. /\ DOMAIN Q = DOMAIN G2I /\ Q[g] = UNION {G2I[x] : x \in gs}
      /\ \A h \in DOMAIN G2I : h # g => Q[h] = IF h \in gs THEN {} ELSE G2I[h]
  BY <1>1 DEF MergesPtr
<1>5. \A k : k \in Q[g] <=> k \in DOMAIN I2G /\ I2G[k] \in gs
  BY <1>1, <1>4
<1>6. ASSUME NEW k \in DOMAIN J PROVE J[k] \in (D \ gs) \cup {g} /\ k \in Q[J[k]]
  BY <1>1, <1>3, <1>4, <1>5
<1>7. ASSUME NEW h \in DOMAIN Q, NEW k \in Q[h] PROVE k \in DOMAIN J /\ J[k] = h
  BY <1>1, <1>3, <1>4, <1>5
<1> QED
  BY <1>1, <1>3, <1>4, <1>6, <1>7 DEF PtrOK

(* A pointer loses its group.                                              *)
LEMMA PtrDrop ==
  ASSUME NEW I2G, NEW G2I, NEW D, NEW max \in Nat, PtrOK(I2G, G2I, D, max),
         NEW k \in DOMAIN I2G, NEW J, NEW Q,
         J = Restrict(I2G, DOMAIN I2G \ {k}),
         Q = [G2I EXCEPT ![I2G[k]] = @ \ {k}]
  PROVE  /\ PtrOK(J, Q, D, max) /\ DOMAIN J = DOMAIN I2G \ {k}
         /\ \A x \in DOMAIN J : J[x] = I2G[x]
<1>1. DOMAIN J = DOMAIN I2G \ {k} /\ \A x \in DOMAIN J : J[x] = I2G[x]
  BY DEF Restrict
<1>2. /\ DOMAIN Q = DOMAIN G2I /\ Q[I2G[k]] = G2I[I2G[k]] \ {k}
      /\ \A h \in DOMAIN G2I : h # I2G[k] => Q[h] = G2I[h]
  BY DEF PtrOK
<1>3. D \subseteq DOMAIN Q /\ DOMAIN Q \subseteq 1 .. max
  BY <1>2 DEF PtrOK
<1>4. \A x \in DOMAIN J : J[x] \in D /\ x \in Q[J[x]]
  <2> SUFFICES ASSUME NEW x \in DOMAIN J PROVE J[x] \in D /\ x \in Q[J[x]]
    OBVIOUS
  <2>1. x \in DOMAIN I2G /\ x # k /\ J[x] = I2G[x]
    BY <1>1
  <2>2. I2G[x] \in D /\ x \in G2I[I2G[x]] /\ I2G[x] \in DOMAIN G2I
    BY <2>1 DEF PtrOK
  <2> QED
    BY <1>2, <2>1, <2>2
<1>5. \A h \in DOMAIN Q : \A x \in Q[h] : x \in DOMAIN J /\ J[x] = h
  <2> SUFFICES ASSUME NEW h \in DOMAIN Q, NEW x \in Q[h] PROVE x \in DOMAIN J /\ J[x] = h
    OBVIOUS
  <2>1. h \in DOMAIN G2I /\ x \in G2I[h] /\ (h = I2G[k] => x # k)
    BY <1>2
  <2>2. x \in DOMAIN I2G /\ I2G[x] = h
    BY <2>1 DEF PtrOK
  <2> QED
    BY <1>1, <2>1, <2>2
<1> QED
  BY <1>1, <1>3, <1>4, <1>5 DEF PtrOK

(* Pointers that are in no other group get group g.                        *)
LEMMA PtrAdd ==
  ASSUME NEW I2G, NEW G2I, NEW D, NEW max \in Nat, PtrOK(I2G, G2I, D, max),
         NEW g \in D, NEW keys, \A k \in keys \cap DOMAIN I2G : I2G[k] = g, NEW J, NEW Q,
         J = [k \in DOMAIN I2G \cup keys |-> IF k \in keys THEN g ELSE I2G[k]],
         Q = [G2I EXCEPT ![g] = @ \cup keys]
  PROVE  PtrOK(J, Q, D, max)
<1>1. DOMAIN J = DOMAIN I2G \cup keys /\ \A x \in DOMAIN J : J[x] = IF x \in keys THEN g ELSE I2G[x]
  OBVIOUS
<1>2. /\ DOMAIN Q = DOMAIN G2I /\ Q[g] = G2I[g] \cup keys
      /\ \A h \in DOMAIN G2I : h # g => Q[h] = G2I[h]
  BY DEF PtrOK
<1>3. /\ D \subseteq DOMAIN G2I /\ DOMAIN G2I \subseteq 1 .. max
      /\ \A k \in DOMAIN I2G : I2G[k] \in D /\ k \in G2I[I2G[k]]
      /\ \A h \in DOMAIN G2I : \A k \in G2I[h] : k \in DOMAIN I2G /\ I2G[k] = h
  BY DEF PtrOK
<1>4. ASSUME NEW k \in DOMAIN J PROVE J[k] \in D /\ k \in Q[J[k]]
  BY <1>1, <1>2, <1>3
<1>5. ASSUME NEW h \in DOMAIN Q, NEW k \in Q[h] PROVE k \in DOMAIN J /\ J[k] = h
  BY <1>1, <1>2, <1>3
<1> QED
  BY <1>2, <1>3, <1>4, <1>5 DEF PtrOK

-----------------------------------------------------------------------------
(* The maps of GroupMemory, operation by operation                         *)

(* The two views of the groups are the same, of addresses and of pointers. *)
GroupsOK(m) ==
    /\ m = [MaxGroupID |-> m.MaxGroupID, Addr2Group |-> m.Addr2Group,
            Group2Addr |-> m.Group2Addr, Ins2Group |-> m.Ins2Group,
            Group2Ins |-> m.Group2Ins, labeled_args |-> m.labeled_args]
    /\ AddrOK(m.Addr2Group, m.Group2Addr, m.MaxGroupID)
    /\ PtrOK(m.Ins2Group, m.Group2Ins, DOMAIN m.Group2Addr, m.MaxGroupID)

(* From m to n groups may be merged, and no address joins or leaves one.   *)
Coarsens(m, n) ==
    /\ \A a \in Addresses : At(m.Addr2Group, a) = Empty <=> At(n.Addr2Group, a) = Empty
    /\ \A a, b \in Addresses : At(m.Addr2Group, a) = At(m.Addr2Group, b) =>
           At(n.Addr2Group, a) = At(n.Addr2Group, b)

(* Coarsening is transitive.                                               *)
LEMMA CoarsensMore ==
  ASSUME NEW m, NEW n, NEW o, Coarsens(m, n), Coarsens(n, o)
  PROVE  Coarsens(m, o)
BY DEF Coarsens

(* A record of the maps, field by field.                                   *)
LEMMA GroupsRecord ==
  ASSUME NEW x, NEW A, NEW G, NEW J, NEW Q, NEW L, AddrOK(A, G, x), PtrOK(J, Q, DOMAIN G, x),
         NEW m, m = [MaxGroupID |-> x, Addr2Group |-> A, Group2Addr |-> G, Ins2Group |-> J,
                     Group2Ins |-> Q, labeled_args |-> L]
  PROVE  GroupsOK(m)
BY DEF GroupsOK

(* There are no groups at first.                                           *)
LEMMA NoGroupsOK == GroupsOK(NoGroups)
<1>1. AddrOK(NewTree, <<>>, 0)
  <2>1. IsTree(NewTree, Nat)
    BY NewTreeEmpty
  <2>2. \A a \in Addresses : \A g \in Nat : At(NewTree, a) # Covered(g)
    BY NewTreeEmpty, KindsDiffer
  <2> QED
    BY <2>1, <2>2 DEF AddrOK
<1>2. PtrOK(<<>>, <<>>, DOMAIN <<>>, 0)
  BY DEF PtrOK
<1> QED
  BY <1>1, <1>2, GroupsRecord DEF NoGroups

(* A group that is new.                                                    *)
LEMMA NewGroupOK ==
  ASSUME NEW m, GroupsOK(m), NEW r, r = NewGroup(m)
  PROVE  /\ GroupsOK(r.mem) /\ r.group \in DOMAIN r.mem.Group2Addr
         /\ r.mem.Addr2Group = m.Addr2Group /\ r.mem.Ins2Group = m.Ins2Group
         /\ r.mem.Group2Addr[r.group] = NewTree
         /\ r.mem.labeled_args = m.labeled_args
<1> DEFINE g == m.MaxGroupID + 1
           H == With(m.Group2Addr, g, NewTree)
           Q == With(m.Group2Ins, g, {})
           n == r.mem
<1>1. m.MaxGroupID \in Nat
  BY DEF GroupsOK, AddrOK
<1>2. r.group = g /\ n = [MaxGroupID |-> g, Addr2Group |-> m.Addr2Group, Group2Addr |-> H,
                            Ins2Group |-> m.Ins2Group, Group2Ins |-> Q, labeled_args |-> m.labeled_args]
  BY DEF GroupsOK, NewGroup
<1>3. DOMAIN H = DOMAIN m.Group2Addr \cup {g} /\ H[g] = NewTree
  BY DEF With
<1>4. AddrOK(m.Addr2Group, H, g)
  BY AddrNew DEF GroupsOK
<1>5. PtrOK(m.Ins2Group, Q, DOMAIN H, g)
  BY <1>1, <1>3, PtrNew DEF GroupsOK
<1> HIDE DEF g, H, Q, n
<1>6. GroupsOK(n)
  BY <1>2, <1>4, <1>5, GroupsRecord
<1> QED
  BY <1>2, <1>3, <1>6 DEF n

(* Groups that become one.                                                 *)
LEMMA MergingOK ==
  ASSUME NEW m, GroupsOK(m), NEW gs, gs \subseteq DOMAIN m.Group2Addr, NEW r, r = Merging(m, gs)
  PROVE  /\ GroupsOK(r.mem) /\ r.group \in DOMAIN r.mem.Group2Addr
         /\ Coarsens(m, r.mem)
         /\ DOMAIN r.mem.Ins2Group = DOMAIN m.Ins2Group
         /\ \A k \in DOMAIN m.Ins2Group : m.Ins2Group[k] \in gs => r.mem.Ins2Group[k] = r.group
<1> DEFINE g == Min(gs)
           n == r.mem
<1>0. m.MaxGroupID \in Nat /\ DOMAIN m.Group2Addr \subseteq 1 .. m.MaxGroupID
  BY DEF GroupsOK, AddrOK
<1>1. CASE gs = {}
  <2>1. r = NewGroup(m)
    BY <1>1 DEF Merging
  <2>2. /\ GroupsOK(n) /\ r.group \in DOMAIN n.Group2Addr
        /\ n.Addr2Group = m.Addr2Group /\ n.Ins2Group = m.Ins2Group
    BY <2>1, NewGroupOK
  <2> QED
    BY <1>1, <2>2 DEF Coarsens
<1>2. CASE gs # {} /\ gs = {g}
  <2>1. r = [mem |-> m, group |-> g]
    BY <1>2 DEF Merging
  <2>2. n = m /\ r.group = g
    BY <2>1
  <2> QED
    BY <1>2, <2>2 DEF Coarsens
<1>3. CASE gs # {} /\ gs # {g}
  <2>0. g \in gs
    BY <1>0, <1>3, Minimum
  <2> DEFINE A == n.Addr2Group
             H == n.Group2Addr
             J == n.Ins2Group
             Q == n.Group2Ins
  <2>1. /\ r.group = g /\ n = [MaxGroupID |-> m.MaxGroupID, Addr2Group |-> A, Group2Addr |-> H,
                               Ins2Group |-> J, Group2Ins |-> Q, labeled_args |-> m.labeled_args]
        /\ MergesAddr(m.Addr2Group, m.Group2Addr, gs, g, A, H)
        /\ MergesPtr(m.Ins2Group, m.Group2Ins, gs, g, J, Q)
    BY <1>3 DEF GroupsOK, Merging, MovedAddr2Group, MergedAddrs, MovedIns2Group, Kept,
                MergesAddr, MergesPtr
  <2> HIDE DEF g, n, A, H, J, Q
  <2>2. /\ AddrOK(A, H, m.MaxGroupID)
        /\ DOMAIN H = (DOMAIN m.Group2Addr \ gs) \cup {g}
        /\ \A a \in Addresses :
              At(A, a) = IF \E h \in gs : At(m.Addr2Group, a) = Covered(h) THEN Covered(g)
                         ELSE At(m.Addr2Group, a)
    <3> DEFINE A0 == m.Addr2Group
               G0 == m.Group2Addr
               max == m.MaxGroupID
    <3>1. AddrOK(A0, G0, max) /\ gs \subseteq DOMAIN G0 /\ MergesAddr(A0, G0, gs, g, A, H)
      BY <2>1 DEF GroupsOK
    <3> HIDE DEF A0, G0, max
    <3>2. /\ AddrOK(A, H, max)
          /\ DOMAIN H = (DOMAIN G0 \ gs) \cup {g}
          /\ \A a \in Addresses :
                At(A, a) = IF \E h \in gs : At(A0, a) = Covered(h) THEN Covered(g) ELSE At(A0, a)
      BY <2>0, <3>1, AddrMerge
    <3> QED
      BY <3>2 DEF A0, G0, max
  <2>3. /\ PtrOK(J, Q, (DOMAIN m.Group2Addr \ gs) \cup {g}, m.MaxGroupID)
        /\ DOMAIN J = DOMAIN m.Ins2Group
        /\ \A k \in DOMAIN m.Ins2Group : J[k] = IF m.Ins2Group[k] \in gs THEN g ELSE m.Ins2Group[k]
    <3> DEFINE D == DOMAIN m.Group2Addr
               x == m.MaxGroupID
               I0 == m.Ins2Group
               P0 == m.Group2Ins
    <3>1. /\ PtrOK(I0, P0, D, x) /\ x \in Nat /\ gs \subseteq D /\ g \in gs
          /\ MergesPtr(I0, P0, gs, g, J, Q)
      BY <1>0, <2>0, <2>1 DEF GroupsOK
    <3> HIDE DEF D, x, I0, P0
    <3>2. /\ PtrOK(J, Q, (D \ gs) \cup {g}, x) /\ DOMAIN J = DOMAIN I0
          /\ \A k \in DOMAIN I0 : J[k] = IF I0[k] \in gs THEN g ELSE I0[k]
      BY <3>1, PtrMerge
    <3> QED
      BY <3>2 DEF D, x, I0
  <2>4. GroupsOK(n)
    BY <2>1, <2>2, <2>3, GroupsRecord
  <2>5. Coarsens(m, n)
    BY <2>1, <2>2, KindsDiffer DEF Coarsens
  <2> QED
    BY <2>1, <2>2, <2>3, <2>4, <2>5 DEF n
<1> QED
  BY <1>1, <1>2, <1>3

(* A pointer loses its group.                                              *)
LEMMA UnlabelOK ==
  ASSUME NEW m, GroupsOK(m), NEW k, NEW n, n = Unlabel(m, k)
  PROVE  /\ GroupsOK(n) /\ n.Addr2Group = m.Addr2Group /\ n.Group2Addr = m.Group2Addr
         /\ DOMAIN n.Ins2Group = DOMAIN m.Ins2Group \ {k}
         /\ \A x \in DOMAIN n.Ins2Group : n.Ins2Group[x] = m.Ins2Group[x]
<1>1. CASE k \notin DOMAIN m.Ins2Group
  BY <1>1 DEF Unlabel
<1>2. CASE k \in DOMAIN m.Ins2Group
  <2> DEFINE J == Restrict(m.Ins2Group, DOMAIN m.Ins2Group \ {k})
             Q == [m.Group2Ins EXCEPT ![m.Ins2Group[k]] = @ \ {k}]
  <2>1. n = [MaxGroupID |-> m.MaxGroupID, Addr2Group |-> m.Addr2Group,
             Group2Addr |-> m.Group2Addr, Ins2Group |-> J, Group2Ins |-> Q,
             labeled_args |-> m.labeled_args]
    BY <1>2 DEF GroupsOK, Unlabel
  <2>2. /\ PtrOK(J, Q, DOMAIN m.Group2Addr, m.MaxGroupID) /\ DOMAIN J = DOMAIN m.Ins2Group \ {k}
        /\ \A x \in DOMAIN J : J[x] = m.Ins2Group[x]
    BY <1>2, PtrDrop DEF GroupsOK, AddrOK
  <2> HIDE DEF J, Q
  <2>3. GroupsOK(n)
    BY <2>1, <2>2, GroupsRecord DEF GroupsOK
  <2> QED
    BY <2>1, <2>2, <2>3
<1> QED
  BY <1>1, <1>2

(* Pointers get group g, if they are in no other.                          *)
LEMMA LabelOK ==
  ASSUME NEW m, GroupsOK(m), NEW tid, NEW deps, NEW g \in DOMAIN m.Group2Addr,
         \A dep \in deps : Key(tid, dep) \in DOMAIN m.Ins2Group => m.Ins2Group[Key(tid, dep)] = g,
         NEW n, n = Label(m, tid, deps, g)
  PROVE  GroupsOK(n) /\ n.Addr2Group = m.Addr2Group /\ n.Group2Addr = m.Group2Addr
<1> DEFINE keys == {Key(tid, dep) : dep \in deps}
           J == [k \in DOMAIN m.Ins2Group \cup keys |-> IF k \in keys THEN g ELSE m.Ins2Group[k]]
           Q == [m.Group2Ins EXCEPT ![g] = @ \cup keys]
<1>1. n = [MaxGroupID |-> m.MaxGroupID, Addr2Group |-> m.Addr2Group,
           Group2Addr |-> m.Group2Addr, Ins2Group |-> J, Group2Ins |-> Q,
           labeled_args |-> n.labeled_args]
  BY DEF GroupsOK, Label
<1>2. \A k \in keys \cap DOMAIN m.Ins2Group : m.Ins2Group[k] = g
  OBVIOUS
<1> HIDE DEF keys
<1>3. PtrOK(J, Q, DOMAIN m.Group2Addr, m.MaxGroupID)
  BY <1>2, PtrAdd DEF GroupsOK, AddrOK
<1> HIDE DEF J, Q
<1>4. GroupsOK(n)
  <2>1. AddrOK(m.Addr2Group, m.Group2Addr, m.MaxGroupID)
    BY DEF GroupsOK
  <2> DEFINE L == n.labeled_args
  <2>2. n = [MaxGroupID |-> m.MaxGroupID, Addr2Group |-> m.Addr2Group,
             Group2Addr |-> m.Group2Addr, Ins2Group |-> J, Group2Ins |-> Q, labeled_args |-> L]
    BY <1>1
  <2> HIDE DEF L
  <2> QED
    BY <1>3, <2>1, <2>2, GroupsRecord
<1>5. n.Addr2Group = m.Addr2Group /\ n.Group2Addr = m.Group2Addr
  BY DEF GroupsOK, Label
<1> QED
  BY <1>4, <1>5

(* The groups of pointers.                                                 *)
LEMMA KeyGroups ==
  ASSUME NEW m, GroupsOK(m), NEW keys
  PROVE  /\ GroupsOfKeys(m, keys) \subseteq DOMAIN m.Group2Addr
         /\ \A k \in keys : k \in DOMAIN m.Ins2Group => m.Ins2Group[k] \in GroupsOfKeys(m, keys)
BY DEF GroupsOK, PtrOK, GroupsOfKeys

(* An argument hands its group on to what the caller passes.               *)
LEMMA MapArgumentOK ==
  ASSUME NEW m, GroupsOK(m), NEW b, NEW arg, NEW n, n = MapArgument(m, b, arg)
  PROVE  /\ GroupsOK(n) /\ Coarsens(m, n)
         /\ ~(b.first = 1 /\ b.caller # -1) => n.Group2Addr = m.Group2Addr
<1> DEFINE k == Key(b.tid, <<"PointerArg", arg>>)
           m1 == Unlabel(m, k)
           used == SSADependencies[b.caller][arg + 1]
           gs == {m.Ins2Group[k]} \cup GroupsOfKeys(m1, {Key(b.tid, used)})
           to == Merging(m1, gs)
<1>1. n = IF k \notin DOMAIN m.Ins2Group THEN m
          ELSE IF ~(b.first = 1 /\ b.caller # -1 /\ IsPointerDep(used)) THEN m1
          ELSE Label(to.mem, b.tid, {used}, to.group)
  BY DEF MapArgument
<1> HIDE DEF used, k
<1>2. /\ GroupsOK(m1) /\ m1.Addr2Group = m.Addr2Group /\ m1.Group2Addr = m.Group2Addr
      /\ Coarsens(m, m1) /\ Coarsens(m, m)
  <2>1. GroupsOK(m1) /\ m1.Addr2Group = m.Addr2Group /\ m1.Group2Addr = m.Group2Addr
    BY UnlabelOK
  <2> QED
    BY <2>1 DEF Coarsens
<1> HIDE DEF m1
<1>3. CASE k \notin DOMAIN m.Ins2Group
  BY <1>1, <1>2, <1>3
<1>4. CASE k \in DOMAIN m.Ins2Group /\ ~(b.first = 1 /\ b.caller # -1 /\ IsPointerDep(used))
  BY <1>1, <1>2, <1>4
<1>5. CASE k \in DOMAIN m.Ins2Group /\ b.first = 1 /\ b.caller # -1 /\ IsPointerDep(used)
  <2>1. gs \subseteq DOMAIN m1.Group2Addr
    BY <1>2, <1>5, KeyGroups DEF GroupsOK, PtrOK
  <2>2. Key(b.tid, used) \in DOMAIN m1.Ins2Group => m1.Ins2Group[Key(b.tid, used)] \in gs
    BY <1>2, KeyGroups
  <2> HIDE DEF gs
  <2>3. /\ GroupsOK(to.mem) /\ to.group \in DOMAIN to.mem.Group2Addr
        /\ Coarsens(m1, to.mem)
        /\ DOMAIN to.mem.Ins2Group = DOMAIN m1.Ins2Group
        /\ \A x \in DOMAIN m1.Ins2Group : m1.Ins2Group[x] \in gs => to.mem.Ins2Group[x] = to.group
    BY <1>2, <2>1, MergingOK
  <2> DEFINE o == to.mem
             h == to.group
  <2>4. \A dep \in {used} : Key(b.tid, dep) \in DOMAIN o.Ins2Group => o.Ins2Group[Key(b.tid, dep)] = h
    BY <2>2, <2>3
  <2>5. n = Label(o, b.tid, {used}, h) /\ GroupsOK(o) /\ h \in DOMAIN o.Group2Addr
    BY <1>1, <1>5, <2>3
  <2>6. Coarsens(m, o)
    BY <1>2, <2>3, CoarsensMore
  <2> HIDE DEF o, h, to
  <2>7. GroupsOK(n) /\ n.Addr2Group = o.Addr2Group
    BY <2>4, <2>5, LabelOK
  <2> QED
    BY <1>5, <2>6, <2>7 DEF Coarsens
<1> QED
  BY <1>3, <1>4, <1>5

-----------------------------------------------------------------------------
(* What GroupMemory does one after the other                               *)

(* With the arguments of a function, with the arguments of a call, with    *)
(* the instructions of a block.                                            *)
StepOf(kind, labeled, x, b, k) ==
    CASE kind = "MapArguments" -> IF k - 1 \notin labeled THEN x ELSE MapArgument(x, b, k - 1)
      [] kind = "GroupCall" -> AddArgument(x, b.args[k])
      [] OTHER -> MergePointer(x, b.code[Len(b.code) - k + 1], b)

(* f[k] is what k steps lead to.                                           *)
TakesSteps(f, kind, labeled, b, first, n) ==
    f = [k \in 0 .. n |-> IF k = 0 THEN first ELSE StepOf(kind, labeled, f[k - 1], b, k)]

(* It is what it says at every step.                                       *)
LEMMA StepsAt ==
  ASSUME NEW f, NEW kind, NEW labeled, NEW b, NEW first, NEW n,
         TakesSteps(f, kind, labeled, b, first, n), NEW k \in 0 .. n
  PROVE  f[k] = IF k = 0 THEN first ELSE StepOf(kind, labeled, f[k - 1], b, k)
<1> DEFINE g == [j \in 0 .. n |-> IF j = 0 THEN first ELSE StepOf(kind, labeled, f[j - 1], b, j)]
<1>1. g[k] = IF k = 0 THEN first ELSE StepOf(kind, labeled, f[k - 1], b, k)
  BY Zenon
<1>2. f = g
  BY Zenon DEF TakesSteps
<1> HIDE DEF g
<1> QED
  BY <1>1, <1>2

(* There is such a function for any number of steps.                       *)
LEMMA StepsExist ==
  ASSUME NEW kind, NEW labeled, NEW b, NEW first, NEW n \in Nat
  PROVE  \E f : TakesSteps(f, kind, labeled, b, first, n)
<1> DEFINE T == {i \in Nat : \E f : TakesSteps(f, kind, labeled, b, first, i)}
           none == [k \in {0} |-> first]
<1>1. 0 \in T
  <2>1. 0 .. 0 = {0}
    OBVIOUS
  <2>2. none = [k \in {0} |-> IF k = 0 THEN first ELSE StepOf(kind, labeled, none[k - 1], b, k)]
    OBVIOUS
  <2>3. TakesSteps(none, kind, labeled, b, first, 0)
    <3> HIDE DEF none
    <3> QED
      BY <2>1, <2>2, Zenon DEF TakesSteps
  <2> QED
    BY <2>3
<1>2. ASSUME NEW i \in Nat, i \in T PROVE i + 1 \in T
  <2>1. PICK f : TakesSteps(f, kind, labeled, b, first, i)
    BY <1>2
  <2> DEFINE last == StepOf(kind, labeled, f[i], b, i + 1)
             g == [k \in 0 .. i + 1 |-> IF k = i + 1 THEN last ELSE f[k]]
  <2>2. \A k \in 0 .. i + 1 : g[k] = IF k = 0 THEN first ELSE StepOf(kind, labeled, g[k - 1], b, k)
    <3> SUFFICES ASSUME NEW k \in 0 .. i + 1
                 PROVE  g[k] = IF k = 0 THEN first ELSE StepOf(kind, labeled, g[k - 1], b, k)
      OBVIOUS
    <3>1. CASE k = i + 1
      <4>1. k # 0 /\ k - 1 = i /\ i \in 0 .. i + 1 /\ i # i + 1
        BY <3>1
      <4>2. g[k] = last /\ g[i] = f[i]
        BY <3>1, <4>1
      <4> HIDE DEF g
      <4> QED
        BY <3>1, <4>1, <4>2
    <3>2. CASE k # i + 1
      <4>1. k \in 0 .. i
        BY <3>2
      <4>2. f[k] = IF k = 0 THEN first ELSE StepOf(kind, labeled, f[k - 1], b, k)
        BY <2>1, <4>1, StepsAt
      <4>3. k # 0 => k - 1 \in 0 .. i + 1 /\ k - 1 # i + 1
        BY <4>1
      <4>4. g[k] = f[k] /\ (k # 0 => g[k - 1] = f[k - 1])
        BY <3>2, <4>3
      <4> HIDE DEF g
      <4> QED
        BY <4>2, <4>4
    <3> QED
      BY <3>1, <3>2
  <2>3. g = [k \in 0 .. i + 1 |-> g[k]]
    OBVIOUS
  <2>4. TakesSteps(g, kind, labeled, b, first, i + 1)
    <3> HIDE DEF g
    <3> QED
      BY <2>2, <2>3, Zenon DEF TakesSteps
  <2> QED
    BY <2>4
<1>3. Nat \subseteq T
  <2> HIDE DEF T
  <2> QED
    BY <1>1, <1>2, NatSetInduction
<1> QED
  BY <1>3

(* The recursive function inside MapArguments.                             *)
IsMapArguments(f, m, b) ==
    f = [k \in 0 .. MaxArgs |->
            IF k = 0 THEN [m EXCEPT !.labeled_args[b.tid] = {}]
            ELSE IF k - 1 \notin m.labeled_args[b.tid] THEN f[k - 1]
            ELSE MapArgument(f[k - 1], b, k - 1)]

(* The arguments of a function hand their groups on.                       *)
LEMMA MapArgumentsOK ==
  ASSUME NEW m, GroupsOK(m), NEW b, NEW n, n = MapArguments(m, b)
  PROVE  /\ GroupsOK(n) /\ Coarsens(m, n)
         /\ ~(b.first = 1 /\ b.caller # -1) => n.Group2Addr = m.Group2Addr
<1> DEFINE labeled == m.labeled_args[b.tid]
           first == [m EXCEPT !.labeled_args[b.tid] = {}]
           f == CHOOSE g : IsMapArguments(g, m, b)
<1>0. MaxArgs \in Nat
  BY DependencyAssumption
<1>1. \E g : IsMapArguments(g, m, b)
  <2>1. PICK g : TakesSteps(g, "MapArguments", labeled, b, first, MaxArgs)
    BY <1>0, StepsExist
  <2>2. \A k \in 0 .. MaxArgs :
            g[k] = IF k = 0 THEN first ELSE StepOf("MapArguments", labeled, g[k - 1], b, k)
    BY <2>1, StepsAt
  <2> HIDE DEF first, labeled
  <2>3. \A k \in 0 .. MaxArgs :
            g[k] = IF k = 0 THEN first ELSE IF k - 1 \notin labeled THEN g[k - 1]
                   ELSE MapArgument(g[k - 1], b, k - 1)
    BY <2>2 DEF StepOf
  <2>4. g = [k \in 0 .. MaxArgs |-> g[k]]
    BY <2>1 DEF TakesSteps
  <2>5. g = [k \in 0 .. MaxArgs |-> IF k = 0 THEN first ELSE IF k - 1 \notin labeled THEN g[k - 1]
                                    ELSE MapArgument(g[k - 1], b, k - 1)]
    BY <2>3, <2>4, Zenon
  <2>6. IsMapArguments(g, m, b)
    BY <2>5, Zenon DEF IsMapArguments, first, labeled
  <2> QED
    BY <2>6
<1>2. IsMapArguments(f, m, b)
  BY <1>1, Zenon
<1>3. n = IF b.first = 0 THEN m ELSE f[MaxArgs]
  BY Zenon DEF MapArguments, IsMapArguments
<1> HIDE DEF f
<1>4. \A k \in 0 .. MaxArgs : f[k] = IF k = 0 THEN first ELSE IF k - 1 \notin labeled THEN f[k - 1]
                                     ELSE MapArgument(f[k - 1], b, k - 1)
  <2> DEFINE h == [k \in 0 .. MaxArgs |->
                      IF k = 0 THEN first ELSE IF k - 1 \notin labeled THEN f[k - 1]
                      ELSE MapArgument(f[k - 1], b, k - 1)]
  <2>1. \A k \in 0 .. MaxArgs : h[k] = IF k = 0 THEN first ELSE IF k - 1 \notin labeled THEN f[k - 1]
                                       ELSE MapArgument(f[k - 1], b, k - 1)
    BY Zenon
  <2>2. f = h
    BY <1>2, Zenon DEF IsMapArguments
  <2> HIDE DEF h
  <2> QED
    BY <2>1, <2>2
<1> DEFINE OK(x) == /\ GroupsOK(x) /\ Coarsens(m, x)
                    /\ ~(b.first = 1 /\ b.caller # -1) => x.Group2Addr = m.Group2Addr
<1>5. OK(first)
  <2>1. first = [MaxGroupID |-> m.MaxGroupID, Addr2Group |-> m.Addr2Group,
                 Group2Addr |-> m.Group2Addr, Ins2Group |-> m.Ins2Group,
                 Group2Ins |-> m.Group2Ins, labeled_args |-> [m.labeled_args EXCEPT ![b.tid] = {}]]
    BY DEF GroupsOK
  <2>2. first.Addr2Group = m.Addr2Group /\ first.Group2Addr = m.Group2Addr
    BY <2>1
  <2>3. GroupsOK(first)
    <3> DEFINE L == [m.labeled_args EXCEPT ![b.tid] = {}]
    <3>1. first = [MaxGroupID |-> m.MaxGroupID, Addr2Group |-> m.Addr2Group,
                   Group2Addr |-> m.Group2Addr, Ins2Group |-> m.Ins2Group,
                   Group2Ins |-> m.Group2Ins, labeled_args |-> L]
      BY <2>1
    <3> HIDE DEF first, L
    <3> QED
      BY <3>1, GroupsRecord DEF GroupsOK
  <2> HIDE DEF first
  <2> QED
    BY <2>2, <2>3 DEF Coarsens
<1> HIDE DEF first, labeled
<1> DEFINE K == {k \in Nat : k \in 0 .. MaxArgs => OK(f[k])}
<1>6. 0 \in K
  BY <1>0, <1>4, <1>5
<1>7. ASSUME NEW k \in Nat, k \in K PROVE k + 1 \in K
  <2> SUFFICES ASSUME k + 1 \in 0 .. MaxArgs PROVE OK(f[k + 1])
    OBVIOUS
  <2>0. PICK e \in 1 .. MaxArgs : e = k + 1
    BY <1>0
  <2>1. k \in 0 .. MaxArgs /\ e # 0 /\ e - 1 = k /\ e \in 0 .. MaxArgs
    BY <1>0, <2>0
  <2> DEFINE x == f[k]
             y == f[e]
  <2>2. OK(x)
    BY <1>7, <2>1
  <2>3. y = IF k \notin labeled THEN x ELSE MapArgument(x, b, k)
    BY <1>4, <2>1
  <2> HIDE DEF x, y
  <2>4. OK(y)
    <3>1. CASE y = x
      BY <2>2, <3>1
    <3>2. CASE y = MapArgument(x, b, k)
      <4>1. /\ GroupsOK(y) /\ Coarsens(x, y)
            /\ ~(b.first = 1 /\ b.caller # -1) => y.Group2Addr = x.Group2Addr
        BY <2>2, <3>2, MapArgumentOK
      <4>2. Coarsens(m, y)
        BY <2>2, <4>1, CoarsensMore
      <4> QED
        BY <2>2, <4>1, <4>2
    <3> QED
      BY <2>3, <3>1, <3>2
  <2> QED
    BY <2>0, <2>4 DEF y
<1>8. Nat \subseteq K
  <2> HIDE DEF K
  <2> QED
    BY <1>6, <1>7, NatSetInduction
<1>9. OK(f[MaxArgs])
  BY <1>0, <1>8
<1>10. OK(m)
  BY DEF Coarsens
<1> HIDE DEF OK
<1>11. OK(n)
  BY <1>3, <1>9, <1>10
<1> QED
  BY <1>11 DEF OK

(* MergeInst keeps the two views, and the group it returns is still there  *)
(* unless the block is the entry of a function that was called.            *)
LEMMA MergeInstOK ==
  ASSUME NEW m, GroupsOK(m), NEW gs, gs \subseteq DOMAIN m.Group2Addr, NEW ins, NEW b,
         NEW r, r = MergeInst(m, gs, ins, b)
  PROVE  /\ GroupsOK(r.mem) /\ Coarsens(m, r.mem)
         /\ ~(b.first = 1 /\ b.caller # -1) => r.group \in DOMAIN r.mem.Group2Addr
<1> DEFINE me == Key(b.tid, <<"Inst", ins>>)
           deps == PointerDeps(ins)
           keys == {Key(b.tid, dep) : dep \in deps}
           hs == gs \cup GroupsOfKeys(m, {me} \cup keys)
           to == Merging(m, hs)
           o == to.mem
           g == to.group
           u == Unlabel(o, me)
           l == Label(u, b.tid, deps, g)
<1>1. r.mem = MapArguments(l, b) /\ r.group = g
  BY DEF MergeInst
<1>2. hs \subseteq DOMAIN m.Group2Addr /\ \A k \in keys : k \in DOMAIN m.Ins2Group => m.Ins2Group[k] \in hs
  <2> HIDE DEF keys, me
  <2> QED
    BY KeyGroups
<1>3. \A dep \in deps : Key(b.tid, dep) \in keys
  OBVIOUS
<1> HIDE DEF me, deps, keys, hs
<1>4. /\ GroupsOK(o) /\ g \in DOMAIN o.Group2Addr /\ Coarsens(m, o)
      /\ DOMAIN o.Ins2Group = DOMAIN m.Ins2Group
      /\ \A k \in DOMAIN m.Ins2Group : m.Ins2Group[k] \in hs => o.Ins2Group[k] = g
  BY <1>2, MergingOK
<1> HIDE DEF o, g
<1>5. /\ GroupsOK(u) /\ u.Addr2Group = o.Addr2Group /\ u.Group2Addr = o.Group2Addr
      /\ DOMAIN u.Ins2Group = DOMAIN o.Ins2Group \ {me}
      /\ \A x \in DOMAIN u.Ins2Group : u.Ins2Group[x] = o.Ins2Group[x]
  BY <1>4, UnlabelOK
<1> HIDE DEF u
<1>6. \A dep \in deps : Key(b.tid, dep) \in DOMAIN u.Ins2Group => u.Ins2Group[Key(b.tid, dep)] = g
  BY <1>2, <1>3, <1>4, <1>5
<1>7. GroupsOK(l) /\ l.Addr2Group = u.Addr2Group /\ l.Group2Addr = u.Group2Addr
  <2>1. g \in DOMAIN u.Group2Addr
    BY <1>4, <1>5
  <2> QED
    BY <1>5, <1>6, <2>1, LabelOK
<1> HIDE DEF l
<1>8. Coarsens(m, l)
  BY <1>4, <1>5, <1>7 DEF Coarsens
<1> DEFINE n == r.mem
<1>9. /\ GroupsOK(n) /\ Coarsens(l, n)
      /\ ~(b.first = 1 /\ b.caller # -1) => n.Group2Addr = l.Group2Addr
  <2>1. n = MapArguments(l, b)
    BY <1>1
  <2> HIDE DEF n
  <2> QED
    BY <1>7, <2>1, MapArgumentsOK
<1>10. Coarsens(m, n)
  <2> HIDE DEF n
  <2> QED
    BY <1>8, <1>9, CoarsensMore
<1> QED
  BY <1>1, <1>4, <1>5, <1>7, <1>9, <1>10

-----------------------------------------------------------------------------
(* One block                                                               *)

(* From m to n groups may be merged and get addresses, but lose none.      *)
Grows(m, n) ==
    /\ \A a \in Addresses : At(m.Addr2Group, a) # Empty => At(n.Addr2Group, a) # Empty
    /\ \A a, b \in Addresses :
           (At(m.Addr2Group, a) # Empty /\ At(m.Addr2Group, a) = At(m.Addr2Group, b)) =>
               At(n.Addr2Group, a) = At(n.Addr2Group, b)

(* Growing is transitive, and coarsening is growing.                       *)
LEMMA GrowsMore ==
  ASSUME NEW m, NEW n, NEW o, Grows(m, n) \/ Coarsens(m, n), Grows(n, o) \/ Coarsens(n, o)
  PROVE  Grows(m, o)
<1>1. Grows(m, n) /\ Grows(n, o)
  BY DEF Coarsens, Grows
<1> QED
  BY <1>1 DEF Grows

(* The segments s say which groups and which addresses in no group there   *)
(* are in a part of the memory.                                            *)
Lists(s, m) ==
    /\ s \in Seq(SegmentsOf(Nat)) /\ Bounded(s)
    /\ \A a \in Addresses : InSome(s, "EMPTY_SEGMENT", a) => At(m.Addr2Group, a) = Empty
    /\ Present(s) \subseteq DOMAIN m.Group2Addr

(* Segments does for one range.                                            *)
LEMMA SegmentsList ==
  ASSUME NEW m, GroupsOK(m), NEW l \in 0 .. MAX_RANGE, NEW r \in 0 .. MAX_RANGE, l < r
  PROVE  Lists(Segments(m, l, r), m)
<1> DEFINE s == Segments(m, l, r)
           A == m.Addr2Group
<1>1. IsTree(A, Nat)
  BY DEF GroupsOK, AddrOK
<1>2. /\ s \in Seq(SegmentsOf(Nat)) /\ Bounded(s)
      /\ \A a \in Addresses : InSome(s, "EMPTY_SEGMENT", a) => At(A, a).type = "EMPTY_SEGMENT"
      /\ \A x \in ToSet(s) : \E a \in Addresses : At(A, a) = Leaf(x.type, x.value)
  BY <1>1, SegmentsAre
<1> HIDE DEF s
<1>3. \A a \in Addresses : At(A, a).type = "EMPTY_SEGMENT" => At(A, a) = Empty
  BY <1>1, AtContents, KindsDiffer
<1>4. ASSUME NEW x \in ToSet(s), IsCovered(x) PROVE x.value \in DOMAIN m.Group2Addr
  <2>1. PICK a \in Addresses : At(A, a) = Covered(x.value)
    BY <1>2, <1>4 DEF IsCovered, Covered
  <2>2. At(A, a) = Empty \/ \E v \in Nat : At(A, a) = Covered(v)
    BY <1>1, AtContents
  <2>3. x.value \in Nat
    BY <2>1, <2>2, KindsDiffer
  <2> QED
    BY <2>1, <2>3 DEF GroupsOK, AddrOK
<1>5. Present(s) \subseteq DOMAIN m.Group2Addr
  BY <1>4 DEF Present
<1> QED
  BY <1>2, <1>3, <1>5 DEF Lists, s

(* And for two.                                                            *)
LEMMA ListsBoth ==
  ASSUME NEW m, NEW s, NEW t, Lists(s, m), Lists(t, m)
  PROVE  Lists(s \o t, m)
<1> DEFINE c == s \o t
<1>1. s \in Seq(SegmentsOf(Nat)) /\ t \in Seq(SegmentsOf(Nat))
  BY DEF Lists
<1>2. /\ c \in Seq(SegmentsOf(Nat)) /\ Len(c) = Len(s) + Len(t) /\ Len(s) \in Nat /\ Len(t) \in Nat
      /\ \A k \in 1 .. Len(s) : c[k] = s[k]
      /\ \A k \in Len(s) + 1 .. Len(s) + Len(t) : c[k] = t[k - Len(s)]
  BY <1>1, ConcatIs
<1> HIDE DEF c
<1>3. \A k \in 1 .. Len(c) : \/ (k \in 1 .. Len(s) /\ c[k] = s[k])
                             \/ (k - Len(s) \in 1 .. Len(t) /\ c[k] = t[k - Len(s)])
  BY <1>2
<1>4. Bounded(c)
  <2>1. ASSUME NEW k \in 1 .. Len(c) PROVE c[k].left \in Int /\ c[k].right \in Int
    <3>1. \A j \in 1 .. Len(s) : s[j].left \in Int /\ s[j].right \in Int
      BY DEF Lists, Bounded
    <3>2. \A j \in 1 .. Len(t) : t[j].left \in Int /\ t[j].right \in Int
      BY DEF Lists, Bounded
    <3> QED
      BY <1>3, <3>1, <3>2
  <2> QED
    BY <1>2, <2>1 DEF Bounded
<1>5. \A type, a : InSome(c, type, a) => InSome(s, type, a) \/ InSome(t, type, a)
  BY <1>3 DEF InSome
<1>6. ToSet(c) \subseteq ToSet(s) \cup ToSet(t)
  BY <1>1, <1>2, <1>3 DEF ToSet
<1>7. Present(c) \subseteq Present(s) \cup Present(t)
  BY <1>6 DEF Present
<1> QED
  BY <1>2, <1>4, <1>5, <1>7 DEF Lists, c

(* What AddRanges makes of the maps m.                                     *)
Added(m, g, s) == [m EXCEPT !.Group2Addr[g] = SetAll(@, s, "EMPTY_SEGMENT", 1),
                            !.Addr2Group = SetAll(@, s, "EMPTY_SEGMENT", g)]

(* The addresses that are in no group are added to group g.                *)
LEMMA AddRangesOK ==
  ASSUME NEW m, GroupsOK(m), NEW g \in DOMAIN m.Group2Addr, NEW s, Bounded(s),
         \A a \in Addresses : InSome(s, "EMPTY_SEGMENT", a) => At(m.Addr2Group, a) = Empty,
         NEW n, n = Added(m, g, s)
  PROVE  GroupsOK(n) /\ Grows(m, n)
<1> DEFINE S == {a \in Addresses : InSome(s, "EMPTY_SEGMENT", a)}
           A == m.Addr2Group
           G == m.Group2Addr
           x == m.MaxGroupID
           B == SetAll(A, s, "EMPTY_SEGMENT", g)
           tree == SetAll(G[g], s, "EMPTY_SEGMENT", 1)
           H == [G EXCEPT ![g] = tree]
<1>1. n = [MaxGroupID |-> x, Addr2Group |-> B, Group2Addr |-> H, Ins2Group |-> m.Ins2Group,
           Group2Ins |-> m.Group2Ins, labeled_args |-> m.labeled_args]
  BY DEF GroupsOK, Added
<1>2. AddrOK(A, G, x) /\ IsTree(A, Nat) /\ IsTree(G[g], {1}) /\ g \in Nat /\ DOMAIN H = DOMAIN G
  BY DEF GroupsOK, AddrOK
<1>3. \A a \in Addresses : a \in S => At(A, a) = Empty
  OBVIOUS
<1>4. /\ IsTree(B, Nat)
      /\ \A a \in Addresses : At(B, a) = IF InSome(s, "EMPTY_SEGMENT", a) THEN Covered(g) ELSE At(A, a)
  BY <1>2, SetAllTree
<1>5. /\ IsTree(tree, {1})
      /\ \A a \in Addresses :
            At(tree, a) = IF InSome(s, "EMPTY_SEGMENT", a) THEN Covered(1) ELSE At(G[g], a)
  BY <1>2, SetAllTree
<1>6. /\ \A a \in Addresses : At(B, a) = IF a \in S THEN Covered(g) ELSE At(A, a)
      /\ \A a \in Addresses : At(tree, a) = IF a \in S THEN Covered(1) ELSE At(G[g], a)
  BY <1>4, <1>5
<1>7. g \in DOMAIN G
  OBVIOUS
<1> HIDE DEF S, B, tree, A, G, x
<1>8. AddrOK(B, H, x)
  BY <1>2, <1>3, <1>4, <1>5, <1>6, <1>7, AddrAdd
<1>9. PtrOK(m.Ins2Group, m.Group2Ins, DOMAIN H, x)
  BY <1>2 DEF GroupsOK, G, x
<1> HIDE DEF H
<1>10. GroupsOK(n)
  BY <1>1, <1>8, <1>9, GroupsRecord
<1>11. Grows(m, n)
  BY <1>1, <1>3, <1>6, KindsDiffer DEF Grows, A
<1> QED
  BY <1>10, <1>11

(* An argument of a call gets a group, if it has none.                     *)
LEMMA AddArgumentOK ==
  ASSUME NEW m, GroupsOK(m), NEW a \in Addresses, NEW n, n = AddArgument(m, a)
  PROVE  GroupsOK(n) /\ Grows(m, n) /\ At(n.Addr2Group, a) # Empty
<1>0. IsTree(m.Addr2Group, Nat)
  BY DEF GroupsOK, AddrOK
<1>1. Get(m.Addr2Group, a) = NoValue <=> At(m.Addr2Group, a) = Empty
  BY <1>0, GetIs, AtContents, NoGroupAssumption
<1>2. CASE At(m.Addr2Group, a) # Empty
  BY <1>1, <1>2 DEF AddArgument, Grows
<1>3. CASE At(m.Addr2Group, a) = Empty
  <2> DEFINE r == NewGroup(m)
             o == r.mem
             g == r.group
             A == o.Addr2Group
             G == o.Group2Addr
             x == o.MaxGroupID
             S == {a}
             B == Set(A, a, a + 1, g)
             tree == Set(G[g], a, a + 1, 1)
             H == [G EXCEPT ![g] = tree]
  <2>1. n = [o EXCEPT !.Group2Addr[g] = Set(@, a, a + 1, 1), !.Addr2Group = Set(@, a, a + 1, g)]
    BY <1>1, <1>3 DEF AddArgument
  <2>2. GroupsOK(o) /\ g \in DOMAIN G /\ A = m.Addr2Group
    BY NewGroupOK
  <2> HIDE DEF o, g
  <2>3. n = [MaxGroupID |-> x, Addr2Group |-> B, Group2Addr |-> H, Ins2Group |-> o.Ins2Group,
             Group2Ins |-> o.Group2Ins, labeled_args |-> o.labeled_args]
    BY <2>1, <2>2 DEF GroupsOK
  <2>4. /\ AddrOK(A, G, x) /\ IsTree(A, Nat) /\ IsTree(G[g], {1}) /\ g \in Nat /\ DOMAIN H = DOMAIN G
        /\ a \in Int /\ a + 1 \in Int
    BY <2>2 DEF GroupsOK, AddrOK, Addresses
  <2>5. \A c \in Addresses : (a <= c /\ c < a + 1) <=> c \in S
    BY DEF Addresses
  <2>6. PICK e \in Int : e = a + 1
    BY <2>4
  <2>7. B = Set(A, a, e, g) /\ tree = Set(G[g], a, e, 1)
    BY <2>6
  <2> HIDE DEF B, tree, A, G, x, S
  <2>8. /\ IsTree(B, Nat)
        /\ \A c \in Addresses : At(B, c) = IF a <= c /\ c < e THEN Covered(g) ELSE At(A, c)
    BY <2>4, <2>7, SetTree
  <2>9. /\ IsTree(tree, {1})
        /\ \A c \in Addresses : At(tree, c) = IF a <= c /\ c < e THEN Covered(1) ELSE At(G[g], c)
    BY <2>4, <2>7, SetTree
  <2>10. /\ \A c \in Addresses : At(B, c) = IF c \in S THEN Covered(g) ELSE At(A, c)
         /\ \A c \in Addresses : At(tree, c) = IF c \in S THEN Covered(1) ELSE At(G[g], c)
         /\ \A c \in Addresses : c \in S => At(A, c) = Empty
    BY <1>3, <2>2, <2>5, <2>6, <2>8, <2>9 DEF S
  <2>11. AddrOK(B, H, x)
    <3>1. AddrOK(A, G, x) /\ g \in DOMAIN G /\ IsTree(B, Nat) /\ IsTree(tree, {1})
      BY <2>2, <2>4, <2>8, <2>9
    <3> QED
      BY <2>10, <3>1, AddrAdd
  <2>12. PtrOK(o.Ins2Group, o.Group2Ins, DOMAIN H, x)
    BY <2>2, <2>4 DEF GroupsOK, G, x
  <2> HIDE DEF H
  <2>13. GroupsOK(n)
    BY <2>3, <2>11, <2>12, GroupsRecord
  <2>14. n.Addr2Group = B /\ a \in S
    BY <2>3 DEF S
  <2>15. Grows(m, n) /\ At(n.Addr2Group, a) # Empty
    BY <2>2, <2>10, <2>14, KindsDiffer DEF Grows
  <2> QED
    BY <2>13, <2>15
<1> QED
  BY <1>2, <1>3

(* The recursive function inside GroupCall.                                *)
IsGroupCall(f, b) ==
    f = [k \in 0 .. Len(b.args) |-> IF k = 0 THEN groups ELSE AddArgument(f[k - 1], b.args[k])]

(* What GroupCall leaves.                                                  *)
CalledGroups(b) == (CHOOSE f : IsGroupCall(f, b))[Len(b.args)]

(* After a call all its arguments are in groups.                           *)
LEMMA CalledGroupsOK ==
  ASSUME GroupsOK(groups), NEW b, b.args \in Seq(Addresses)
  PROVE  /\ GroupsOK(CalledGroups(b)) /\ Grows(groups, CalledGroups(b))
         /\ \A a \in ToSet(b.args) : At(CalledGroups(b).Addr2Group, a) # Empty
<1> DEFINE n == Len(b.args)
           f == CHOOSE g : IsGroupCall(g, b)
<1>0. n \in Nat /\ \A k \in 1 .. n : b.args[k] \in Addresses
  OBVIOUS
<1>1. \E g : IsGroupCall(g, b)
  <2>1. PICK g : TakesSteps(g, "GroupCall", {}, b, groups, n)
    BY <1>0, StepsExist
  <2>2. \A k \in 0 .. n :
            g[k] = IF k = 0 THEN groups ELSE StepOf("GroupCall", {}, g[k - 1], b, k)
    BY <2>1, StepsAt
  <2>3. \A k \in 0 .. n : g[k] = IF k = 0 THEN groups ELSE AddArgument(g[k - 1], b.args[k])
    BY <2>2 DEF StepOf
  <2>4. g = [k \in 0 .. n |-> g[k]]
    BY <2>1 DEF TakesSteps
  <2>5. g = [k \in 0 .. n |-> IF k = 0 THEN groups ELSE AddArgument(g[k - 1], b.args[k])]
    BY <2>3, <2>4, Zenon
  <2> QED
    BY <2>5, Zenon DEF IsGroupCall
<1>2. IsGroupCall(f, b)
  BY <1>1, Zenon
<1>3. CalledGroups(b) = f[n]
  BY Zenon DEF CalledGroups
<1> HIDE DEF f
<1>4. \A k \in 0 .. n : f[k] = IF k = 0 THEN groups ELSE AddArgument(f[k - 1], b.args[k])
  <2> DEFINE h == [k \in 0 .. n |-> IF k = 0 THEN groups ELSE AddArgument(f[k - 1], b.args[k])]
  <2>1. \A k \in 0 .. n : h[k] = IF k = 0 THEN groups ELSE AddArgument(f[k - 1], b.args[k])
    BY Zenon
  <2>2. f = h
    BY <1>2, Zenon DEF IsGroupCall
  <2> HIDE DEF h
  <2> QED
    BY <2>1, <2>2
<1> HIDE DEF n
<1> DEFINE OK(x, k) == /\ GroupsOK(x) /\ Grows(groups, x)
                       /\ \A i \in 1 .. k : At(x.Addr2Group, b.args[i]) # Empty
           K == {k \in Nat : k \in 0 .. n => OK(f[k], k)}
<1>5. 0 \in K
  <2>1. f[0] = groups /\ Grows(groups, groups)
    BY <1>0, <1>4 DEF Grows
  <2> QED
    BY <2>1
<1>6. ASSUME NEW k \in Nat, k \in K PROVE k + 1 \in K
  <2> SUFFICES ASSUME k + 1 \in 0 .. n PROVE OK(f[k + 1], k + 1)
    OBVIOUS
  <2>0. PICK e \in 1 .. n : e = k + 1
    BY <1>0
  <2>1. k \in 0 .. n /\ e # 0 /\ e - 1 = k /\ e \in 0 .. n
    BY <1>0, <2>0
  <2> DEFINE x == f[k]
             y == f[e]
             a == b.args[e]
  <2>2. OK(x, k)
    BY <1>6, <2>1
  <2>3. y = AddArgument(x, a) /\ a \in Addresses
    BY <1>0, <1>4, <2>1
  <2> HIDE DEF x, y, a
  <2>4. GroupsOK(y) /\ Grows(x, y) /\ At(y.Addr2Group, a) # Empty
    BY <2>2, <2>3, AddArgumentOK
  <2>5. Grows(groups, y)
    BY <2>2, <2>4, GrowsMore
  <2>6. ASSUME NEW i \in 1 .. e PROVE At(y.Addr2Group, b.args[i]) # Empty
    <3>1. i = e \/ i \in 1 .. k
      BY <2>0
    <3>2. b.args[i] \in Addresses
      BY <1>0, <2>0
    <3> QED
      BY <2>2, <2>4, <3>1, <3>2 DEF Grows, a
  <2> QED
    BY <2>0, <2>4, <2>5, <2>6 DEF y
<1>7. Nat \subseteq K
  <2> HIDE DEF K
  <2> QED
    BY <1>5, <1>6, NatSetInduction
<1>8. OK(f[n], n)
  BY <1>0, <1>7
<1>9. \A a \in ToSet(b.args) : \E i \in 1 .. n : a = b.args[i]
  BY DEF ToSet, n
<1> QED
  BY <1>3, <1>8, <1>9

(* The recursive function inside GroupNormal.                              *)
IsGroupNormal(f, b) ==
    f = [k \in 0 .. Len(b.code) |->
            IF k = 0 THEN groups
            ELSE MergePointer(f[k - 1], b.code[Len(b.code) - k + 1], b)]

(* What GroupNormal leaves.                                                *)
NormalGroups(b) == (CHOOSE f : IsGroupNormal(f, b))[Len(b.code)]

(* The instructions of a block keep the two views.                         *)
LEMMA NormalGroupsOK ==
  ASSUME GroupsOK(groups), NEW b, Len(b.code) \in Nat
  PROVE  GroupsOK(NormalGroups(b)) /\ Coarsens(groups, NormalGroups(b))
<1> DEFINE n == Len(b.code)
           f == CHOOSE g : IsGroupNormal(g, b)
           Code(k) == b.code[n - k + 1]
<1>0. n \in Nat
  OBVIOUS
<1>1. \E g : IsGroupNormal(g, b)
  <2>1. PICK g : TakesSteps(g, "GroupNormal", {}, b, groups, n)
    BY <1>0, StepsExist
  <2>2. \A k \in 0 .. n :
            g[k] = IF k = 0 THEN groups ELSE StepOf("GroupNormal", {}, g[k - 1], b, k)
    BY <2>1, StepsAt
  <2>3. \A k \in 0 .. n : g[k] = IF k = 0 THEN groups ELSE MergePointer(g[k - 1], b.code[n - k + 1], b)
    BY <2>2 DEF StepOf
  <2>4. g = [k \in 0 .. n |-> g[k]]
    BY <2>1 DEF TakesSteps
  <2>5. g = [k \in 0 .. n |-> IF k = 0 THEN groups ELSE MergePointer(g[k - 1], b.code[n - k + 1], b)]
    BY <2>3, <2>4, Zenon
  <2> QED
    BY <2>5, Zenon DEF IsGroupNormal
<1>2. IsGroupNormal(f, b)
  BY <1>1, Zenon
<1>3. NormalGroups(b) = f[n]
  BY Zenon DEF NormalGroups
<1> HIDE DEF f
<1>4. \A k \in 0 .. n : f[k] = IF k = 0 THEN groups ELSE MergePointer(f[k - 1], Code(k), b)
  <2> DEFINE h == [k \in 0 .. n |-> IF k = 0 THEN groups ELSE MergePointer(f[k - 1], b.code[n - k + 1], b)]
  <2>1. \A k \in 0 .. n : h[k] = IF k = 0 THEN groups ELSE MergePointer(f[k - 1], b.code[n - k + 1], b)
    BY Zenon
  <2>2. f = h
    BY <1>2, Zenon DEF IsGroupNormal
  <2> HIDE DEF h
  <2> QED
    BY <2>1, <2>2
<1> HIDE DEF n, Code
<1> DEFINE OK(x) == GroupsOK(x) /\ Coarsens(groups, x)
           K == {k \in Nat : k \in 0 .. n => OK(f[k])}
<1>5. 0 \in K
  <2>1. f[0] = groups /\ Coarsens(groups, groups)
    BY <1>0, <1>4 DEF Coarsens
  <2> QED
    BY <2>1
<1>6. ASSUME NEW k \in Nat, k \in K PROVE k + 1 \in K
  <2> SUFFICES ASSUME k + 1 \in 0 .. n PROVE OK(f[k + 1])
    OBVIOUS
  <2>0. PICK e \in 1 .. n : e = k + 1
    BY <1>0
  <2>1. k \in 0 .. n /\ e # 0 /\ e - 1 = k /\ e \in 0 .. n
    BY <1>0, <2>0
  <2> DEFINE x == f[k]
             y == f[e]
             ins == Code(e)
             r == MergeInst(x, {}, ins, b)
             z == r.mem
  <2>2. OK(x)
    BY <1>6, <2>1
  <2>3. y = x \/ y = z
    BY <1>4, <2>1 DEF MergePointer
  <2>4. GroupsOK(z) /\ Coarsens(x, z)
    <3> HIDE DEF x, y, ins
    <3> QED
      BY <2>2, MergeInstOK
  <2> HIDE DEF x, y, z
  <2>5. OK(y)
    BY <2>2, <2>3, <2>4, CoarsensMore
  <2> QED
    BY <2>0, <2>5 DEF y
<1>7. Nat \subseteq K
  <2> HIDE DEF K
  <2> QED
    BY <1>5, <1>6, NatSetInduction
<1>8. OK(f[n])
  BY <1>0, <1>7
<1> QED
  BY <1>3, <1>8

(* Only the block that is read may make GroupMemory fail, and only these   *)
(* blocks do.                                                              *)
MayCrash(b) ==
    \/ b.type = "Declare" /\ ~Efficacious(b)
    \/ b.type \in Accesses /\ b.first = 1 /\ b.caller # -1

(* What AddRanges does: it uses a group that is not there or adds to one.  *)
LEMMA AddRangesStep ==
  ASSUME NEW r, GroupsOK(groups), GroupsOK(r.mem), Coarsens(groups, r.mem), NEW s, Lists(s, groups),
         ~crashed, AddRanges(r, s)
  PROVE  /\ GroupsOK(groups') /\ Grows(groups, groups') /\ crashed' \in BOOLEAN
         /\ crashed' => r.group \notin DOMAIN r.mem.Group2Addr
<1> DEFINE m == r.mem
           g == r.group
           n == groups'
<1>1. CASE AnyEmpty(s) /\ g \notin DOMAIN m.Group2Addr
  <2>1. crashed' = TRUE /\ groups' = groups
    BY <1>1 DEF AddRanges
  <2> QED
    BY <1>1, <2>1 DEF Grows
<1>2. CASE ~AnyEmpty(s)
  <2>1. groups' = m /\ crashed' = FALSE
    BY <1>2 DEF AddRanges
  <2> QED
    BY <2>1 DEF Coarsens, Grows
<1>3. CASE AnyEmpty(s) /\ g \in DOMAIN m.Group2Addr
  <2>1. n = Added(m, g, s) /\ crashed' = FALSE
    BY <1>3 DEF AddRanges, Added
  <2>2. /\ Bounded(s)
        /\ \A a \in Addresses : InSome(s, "EMPTY_SEGMENT", a) => At(m.Addr2Group, a) = Empty
    BY DEF Lists, Coarsens
  <2>3. Coarsens(groups, m) /\ GroupsOK(m)
    OBVIOUS
  <2> HIDE DEF m, g, n
  <2>4. GroupsOK(n) /\ Grows(m, n)
    BY <1>3, <2>1, <2>2, <2>3, AddRangesOK
  <2>5. Grows(groups, n)
    BY <2>3, <2>4, GrowsMore
  <2> QED
    BY <2>1, <2>4, <2>5 DEF n
<1> QED
  BY <1>1, <1>2, <1>3

(* What GroupMemory does with a block.                                     *)
LEMMA GroupStep ==
  ASSUME GroupsOK(groups), crashed \in BOOLEAN, GroupNext, left \in Nat,
         NEW b \in Blocks, b = block_trace[left]
  PROVE  /\ left' = left - 1 /\ left > 0 /\ ~crashed /\ UNCHANGED block_trace
         /\ GroupsOK(groups') /\ Grows(groups, groups') /\ crashed' \in BOOLEAN
         /\ crashed' => MayCrash(b)
         /\ IsCall(b) => \A a \in ToSet(b.args) : At((groups').Addr2Group, a) # Empty
<1>0. /\ left > 0 /\ b.type \in Accesses \cup {"Declare", "Normal", "ExternalCall", "ImpactfulCall"}
      /\ b.ins \in DOMAIN SSADependencies /\ b.code \in Seq(DOMAIN SSADependencies)
      /\ b.start \in 0 .. MAX_RANGE /\ b.end \in 0 .. MAX_RANGE
      /\ b.type = "Memmove" => b.source \in Nat /\ SourceEnd(b) <= MAX_RANGE
      /\ b.args \in Seq(Addresses)
  BY BlockAssumption DEF GroupNext
<1>1. \A types : GroupBlock(b, types) =>
          left' = left - 1 /\ ~crashed /\ UNCHANGED block_trace /\ b.type \in types
  BY DEF GroupBlock
<1>2. MAX_RANGE \in Nat
  BY RangeAssumption
<1>3. Grows(groups, groups)
  BY DEF Grows
<1>4. CASE GroupAccess(b)
  <2>0. b.type \in Accesses /\ left' = left - 1 /\ ~crashed /\ UNCHANGED block_trace /\ ~IsCall(b)
    BY <1>1, <1>4 DEF GroupAccess, Accesses, IsCall
  <2>1. CASE ~Efficacious(b)
    <3>1. groups' = groups /\ crashed' = crashed
      BY <1>4, <2>1 DEF GroupAccess
    <3> QED
      BY <1>0, <1>3, <2>0, <3>1
  <2>2. CASE Efficacious(b)
    <3> DEFINE own == Segments(groups, b.start, b.end)
               all == IF b.type = "Memmove" THEN own \o Segments(groups, b.source, SourceEnd(b)) ELSE own
               r == MergeInst(groups, Present(all), b.ins, b)
    <3>1. AddRanges(r, all)
      BY <1>4, <2>2 DEF GroupAccess
    <3>2. Lists(own, groups)
      BY <1>0, <2>2, SegmentsList DEF Efficacious
    <3>3. b.type = "Memmove" => Lists(Segments(groups, b.source, SourceEnd(b)), groups)
      <4> SUFFICES ASSUME b.type = "Memmove" PROVE Lists(Segments(groups, b.source, SourceEnd(b)), groups)
        OBVIOUS
      <4>1. PICK l \in 0 .. MAX_RANGE : l = b.source
        BY <1>0, <1>2, <2>2 DEF SourceEnd, Efficacious
      <4>2. PICK e \in 0 .. MAX_RANGE : e = SourceEnd(b) /\ l < e
        BY <1>0, <1>2, <2>2, <4>1 DEF SourceEnd, Efficacious
      <4> QED
        BY <4>1, <4>2, SegmentsList
    <3>4. Lists(all, groups)
      <4> DEFINE src == Segments(groups, b.source, SourceEnd(b))
      <4>1. b.type = "Memmove" => Lists(src, groups)
        BY <3>3
      <4>2. all = IF b.type = "Memmove" THEN own \o src ELSE own
        OBVIOUS
      <4> HIDE DEF own, src, all
      <4> QED
        BY <3>2, <4>1, <4>2, ListsBoth
    <3> HIDE DEF own, all
    <3>5. Present(all) \subseteq DOMAIN groups.Group2Addr
      BY <3>4 DEF Lists
    <3>6. /\ GroupsOK(r.mem) /\ Coarsens(groups, r.mem)
          /\ ~(b.first = 1 /\ b.caller # -1) => r.group \in DOMAIN r.mem.Group2Addr
      <4> DEFINE gs == Present(all)
                 ins == b.ins
      <4>1. gs \subseteq DOMAIN groups.Group2Addr /\ r = MergeInst(groups, gs, ins, b)
        BY <3>5
      <4> HIDE DEF gs, ins, r
      <4> QED
        BY <4>1, MergeInstOK
    <3> HIDE DEF r
    <3>7. /\ GroupsOK(groups') /\ Grows(groups, groups') /\ crashed' \in BOOLEAN
          /\ crashed' => r.group \notin DOMAIN r.mem.Group2Addr
      BY <2>0, <3>1, <3>4, <3>6, AddRangesStep
    <3> QED
      BY <1>0, <2>0, <3>6, <3>7 DEF MayCrash
  <2> QED
    BY <2>1, <2>2
<1>5. CASE GroupDeclare(b)
  <2>0. b.type = "Declare" /\ left' = left - 1 /\ ~crashed /\ UNCHANGED block_trace /\ ~IsCall(b)
    BY <1>1, <1>5 DEF GroupDeclare, IsCall
  <2>1. CASE ~Efficacious(b)
    <3>1. groups' = groups /\ crashed' = TRUE
      BY <1>5, <2>1 DEF GroupDeclare
    <3> QED
      BY <1>0, <1>3, <2>0, <2>1, <3>1 DEF MayCrash
  <2>2. CASE Efficacious(b)
    <3> DEFINE own == Segments(groups, b.start, b.end)
               gs == Present(own)
               r == Merging(groups, gs)
    <3>1. AddRanges(r, own)
      BY <1>5, <2>2 DEF GroupDeclare
    <3>2. Lists(own, groups)
      BY <1>0, <2>2, SegmentsList DEF Efficacious
    <3> HIDE DEF own
    <3>3. gs \subseteq DOMAIN groups.Group2Addr
      BY <3>2 DEF Lists
    <3>4. GroupsOK(r.mem) /\ Coarsens(groups, r.mem) /\ r.group \in DOMAIN r.mem.Group2Addr
      <4> HIDE DEF gs
      <4> QED
        BY <3>3, MergingOK
    <3> HIDE DEF r
    <3>5. /\ GroupsOK(groups') /\ Grows(groups, groups') /\ crashed' \in BOOLEAN
          /\ crashed' => r.group \notin DOMAIN r.mem.Group2Addr
      BY <2>0, <3>1, <3>2, <3>4, AddRangesStep
    <3> QED
      BY <1>0, <2>0, <3>4, <3>5
  <2> QED
    BY <2>1, <2>2
<1>6. CASE GroupCall(b)
  <2>0. left' = left - 1 /\ ~crashed /\ UNCHANGED block_trace
    BY <1>1, <1>6 DEF GroupCall
  <2>1. groups' = CalledGroups(b) /\ crashed' = crashed
    BY <1>6, Zenon DEF GroupCall, CalledGroups, IsGroupCall
  <2>2. /\ GroupsOK(CalledGroups(b)) /\ Grows(groups, CalledGroups(b))
        /\ \A a \in ToSet(b.args) : At(CalledGroups(b).Addr2Group, a) # Empty
    BY <1>0, CalledGroupsOK
  <2> QED
    BY <1>0, <2>0, <2>1, <2>2
<1>7. CASE GroupNormal(b)
  <2>0. b.type = "Normal" /\ left' = left - 1 /\ ~crashed /\ UNCHANGED block_trace /\ ~IsCall(b)
    BY <1>1, <1>7 DEF GroupNormal, IsCall
  <2>1. groups' = NormalGroups(b) /\ crashed' = crashed
    BY <1>7, Zenon DEF GroupNormal, NormalGroups, IsGroupNormal
  <2>2. GroupsOK(NormalGroups(b)) /\ Coarsens(groups, NormalGroups(b))
    <3>1. Len(b.code) \in Nat
      BY <1>0
    <3> QED
      BY <3>1, NormalGroupsOK
  <2>3. Grows(groups, groups')
    BY <2>1, <2>2 DEF Coarsens, Grows
  <2> QED
    BY <1>0, <2>0, <2>1, <2>2, <2>3
<1> QED
  BY <1>4, <1>5, <1>6, <1>7 DEF GroupNext

-----------------------------------------------------------------------------
(* The invariant of the groups.  Every block that has been read backwards  *)
(* has given its arguments a group, which the forward pass relies on.      *)
GroupInv ==
    /\ block_trace \in Seq(Blocks)
    /\ left \in 0 .. Len(block_trace)
    /\ crashed \in BOOLEAN
    /\ GroupsOK(groups)
    /\ phase \in {"MergeTrace", "GroupMemory", "ExtractMemoryDependency", "PreparePostDominator"}
    /\ phase = "MergeTrace" => left = Len(block_trace) /\ ~crashed
    /\ phase \in {"ExtractMemoryDependency", "PreparePostDominator"} => left = 0 /\ ~crashed
    /\ \A k \in left + 1 .. Len(block_trace) : IsCall(block_trace[k]) =>
           \A a \in ToSet(block_trace[k].args) : At(groups.Addr2Group, a) # Empty
    /\ crashed => left < Len(block_trace) /\ MayCrash(block_trace[left + 1])

(* It holds at the start, before any block.                                *)
LEMMA GroupInvInit == Init => GroupInv
<1> SUFFICES ASSUME Init PROVE GroupInv
  OBVIOUS
<1>1. block_trace = <<>> /\ left = 0 /\ crashed = FALSE /\ groups = NoGroups /\ phase = "MergeTrace"
  BY DEF Init, GroupInit
<1>2. GroupsOK(groups)
  BY <1>1, NoGroupsOK
<1>3. block_trace \in Seq(Blocks) /\ Len(block_trace) = 0
  BY <1>1
<1>4. left + 1 .. Len(block_trace) = {} /\ left \in 0 .. Len(block_trace)
  BY <1>1, <1>3
<1> QED
  BY <1>1, <1>2, <1>3, <1>4 DEF GroupInv

(* GroupMemory keeps it, block by block.                                   *)
LEMMA GroupInvGroup ==
  ASSUME GroupInv, Group
  PROVE  GroupInv'
<1>0. GroupNext /\ phase = "GroupMemory" /\ UNCHANGED phase
  BY DEF Group
<1>1. left > 0 /\ left \in Nat /\ left \in 1 .. Len(block_trace) /\ Len(block_trace) \in Nat
      /\ block_trace \in Seq(Blocks)
  BY <1>0 DEF GroupNext, GroupInv
<1>2. PICK b \in Blocks : b = block_trace[left]
  BY <1>1
<1>3. GroupsOK(groups) /\ crashed \in BOOLEAN
  BY DEF GroupInv
<1>4. /\ left' = left - 1 /\ left > 0 /\ ~crashed /\ UNCHANGED block_trace
      /\ GroupsOK(groups') /\ Grows(groups, groups') /\ crashed' \in BOOLEAN
      /\ crashed' => MayCrash(b)
      /\ IsCall(b) => \A a \in ToSet(b.args) : At((groups').Addr2Group, a) # Empty
  BY <1>0, <1>1, <1>2, <1>3, GroupStep
<1>5. ASSUME NEW k \in left' + 1 .. Len(block_trace), IsCall(block_trace[k]),
             NEW a \in ToSet(block_trace[k].args)
      PROVE  At((groups').Addr2Group, a) # Empty
  <2>1. CASE k = left
    BY <1>2, <1>4, <1>5, <2>1
  <2>2. CASE k # left
    <3>1. k \in left + 1 .. Len(block_trace)
      BY <1>1, <1>4, <2>2
    <3>2. At(groups.Addr2Group, a) # Empty
      BY <1>5, <3>1 DEF GroupInv
    <3>3. block_trace[k] \in Blocks
      BY <1>1, <3>1
    <3>4. block_trace[k].args \in Seq(Addresses)
      BY <3>3, BlockAssumption
    <3>5. a \in Addresses
      BY <3>4 DEF ToSet
    <3> QED
      BY <1>4, <3>2, <3>5 DEF Grows
  <2> QED
    BY <2>1, <2>2
<1>6. left' \in 0 .. Len(block_trace) /\ left' + 1 = left /\ left' < Len(block_trace)
  BY <1>1, <1>4
<1> QED
  BY <1>0, <1>1, <1>2, <1>4, <1>5, <1>6 DEF GroupInv

(* And every other step keeps it.                                          *)
LEMMA GroupInvNext == GroupInv /\ [Next]_vars => GroupInv'
<1> SUFFICES ASSUME GroupInv, [Next]_vars PROVE GroupInv'
  OBVIOUS
<1>0. block_trace \in Seq(Blocks) /\ Len(block_trace) \in Nat /\ left \in 0 .. Len(block_trace)
  BY DEF GroupInv
<1>1. CASE Merge
  <2>1. phase = "MergeTrace" /\ left = Len(block_trace) /\ ~crashed
        /\ UNCHANGED <<groups, crashed, phase>> /\ left' = Len(block_trace')
    BY <1>1 DEF Merge, GroupInv
  <2>2. PICK b \in Blocks : block_trace' = Append(block_trace, b)
    BY <1>1 DEF Merge, Following
  <2>3. block_trace' \in Seq(Blocks) /\ Len(block_trace') \in Nat
    BY <1>0, <2>2
  <2> QED
    BY <2>1, <2>3 DEF GroupInv
<1>2. CASE StartGroup
  BY <1>2 DEF StartGroup, groupVars, GroupInv
<1>3. CASE Group
  BY <1>3, GroupInvGroup
<1>4. CASE StartDepend
  BY <1>4 DEF StartDepend, groupVars, GroupInv
<1>5. CASE Depend
  <2>1. UNCHANGED <<block_trace, groupVars, phase>>
    BY <1>5 DEF Depend, NoAccess, Skip, Store, Load, Memmove, ExternalCall, Count, ReadBlock
  <2> QED
    BY <2>1 DEF groupVars, GroupInv
<1>6. CASE Finish
  BY <1>6 DEF Finish, groupVars, GroupInv
<1>7. CASE UNCHANGED vars
  BY <1>7 DEF vars, groupVars, GroupInv
<1> QED
  BY <1>1, <1>2, <1>3, <1>4, <1>5, <1>6, <1>7 DEF Next

(* The maps of the groups are always in order.                             *)
LEMMA GroupInvAlways == Spec => []GroupInv
BY GroupInvInit, GroupInvNext, PTL DEF Spec

(* The group that Get finds is the one that is stored for the address.     *)
LEMMA GroupOfIs ==
  ASSUME GroupInv, NEW a \in Addresses
  PROVE  /\ GroupOf(a) = At(groups.Addr2Group, a).value
         /\ At(groups.Addr2Group, a) = Empty <=> GroupOf(a) = NoValue
         /\ \A g \in Nat : At(groups.Addr2Group, a) = Covered(g) <=> GroupOf(a) = g
         /\ GroupOf(a) # NoValue => GroupOf(a) \in Nat
<1>1. IsTree(groups.Addr2Group, Nat)
  BY DEF GroupInv, GroupsOK, AddrOK
<1>2. GroupOf(a) = At(groups.Addr2Group, a).value
  BY <1>1, GetIs DEF GroupOf
<1>3. NoValue \notin Nat
  BY NoGroupAssumption
<1> QED
  BY <1>1, <1>2, <1>3, AtContents, KindsDiffer

(* Addr2Group and Group2Addr are two views of one partition: what one says *)
(* of an address the other one says too, and both know the same groups.    *)
THEOREM AddressesMatchAlways == Spec => []AddressesMatch
<1>1. GroupInv => AddressesMatch
  <2> SUFFICES ASSUME GroupInv, NEW a \in Addresses
               PROVE  /\ GroupOf(a) # NoValue => GroupOf(a) \in DOMAIN groups.Group2Addr
                      /\ \A g \in DOMAIN groups.Group2Addr :
                            GroupOf(a) = g <=> Get(groups.Group2Addr[g], a) = 1
    BY DEF AddressesMatch
  <2>0. AddrOK(groups.Addr2Group, groups.Group2Addr, groups.MaxGroupID)
    BY DEF GroupInv, GroupsOK
  <2>1. GroupOf(a) # NoValue => GroupOf(a) \in DOMAIN groups.Group2Addr
    BY <2>0, GroupOfIs DEF AddrOK
  <2>2. ASSUME NEW g \in DOMAIN groups.Group2Addr
        PROVE  GroupOf(a) = g <=> Get(groups.Group2Addr[g], a) = 1
    <3>1. g \in Nat /\ IsTree(groups.Group2Addr[g], {1})
      BY <2>0 DEF AddrOK
    <3>2. Get(groups.Group2Addr[g], a) = At(groups.Group2Addr[g], a).value
      BY <3>1, GetIs
    <3>3. At(groups.Group2Addr[g], a) = Covered(1) <=> At(groups.Group2Addr[g], a).value = 1
      <4> DEFINE one == {1}
      <4>1. NoValue \notin one /\ 1 \in one
        BY NoGroupAssumption
      <4>2. IsTree(groups.Group2Addr[g], one)
        BY <3>1
      <4> HIDE DEF one
      <4> QED
        BY <4>1, <4>2, AtContents
    <3>4. At(groups.Addr2Group, a) = Covered(g) <=> At(groups.Group2Addr[g], a) = Covered(1)
      BY <2>0 DEF AddrOK
    <3> QED
      BY <3>1, <3>2, <3>3, <3>4, GroupOfIs
  <2> QED
    BY <2>1, <2>2
<1> QED
  BY <1>1, GroupInvAlways, PTL

(* A pointer is labelled with a group exactly when the group lists it, and *)
(* no pointer is left behind in a group that has been merged away.         *)
THEOREM PointersMatchAlways == Spec => []PointersMatch
<1>1. GroupInv => PointersMatch
  BY DEF GroupInv, GroupsOK, PtrOK, PointersMatch
<1> QED
  BY <1>1, GroupInvAlways, PTL

(* GroupMemory dereferences a null pointer only for an access that is the  *)
(* entry of a called function, and writes to an empty vector only for a    *)
(* global of size zero.                                                    *)
THEOREM CrashesOnlyThereAlways == Spec => []CrashesOnlyThere
<1>1. GroupInv => CrashesOnlyThere
  BY DEF GroupInv, MayCrash, CrashesOnlyThere
<1> QED
  BY <1>1, GroupInvAlways, PTL

(* Two addresses that are once in one group stay in one group, through all *)
(* the merging and renaming of groups.                                     *)
THEOREM GroupsOnlyGrowAlways == Spec => GroupsOnlyGrow
<1>1. ASSUME GroupInv, GroupInv', [Next]_vars, NEW a \in Addresses, NEW b \in Addresses,
             GroupOf(a) # NoValue, GroupOf(a) = GroupOf(b)
      PROVE  (GroupOf(a))' = (GroupOf(b))'
  <2>1. CASE UNCHANGED groups
    BY <1>1, <2>1 DEF GroupOf
  <2>2. CASE Group
    <3>1. GroupNext /\ left \in Nat /\ left \in 1 .. Len(block_trace) /\ Len(block_trace) \in Nat
          /\ block_trace \in Seq(Blocks)
      BY <1>1, <2>2 DEF Group, GroupNext, GroupInv
    <3>2. PICK c \in Blocks : c = block_trace[left]
      BY <3>1
    <3>3. Grows(groups, groups')
      BY <1>1, <3>1, <3>2, GroupStep DEF GroupInv
    <3>4. At(groups.Addr2Group, a) # Empty /\ At(groups.Addr2Group, a) = At(groups.Addr2Group, b)
      <4>1. GroupOf(a) \in Nat
        BY <1>1, GroupOfIs
      <4> QED
        BY <1>1, <4>1, GroupOfIs
    <3>5. At((groups').Addr2Group, a) = At((groups').Addr2Group, b)
      BY <3>3, <3>4 DEF Grows
    <3>6. IsTree((groups').Addr2Group, Nat)
      BY <1>1 DEF GroupInv, GroupsOK, AddrOK
    <3> QED
      BY <3>5, <3>6, GetIs DEF GroupOf
  <2>3. CASE Merge \/ StartGroup \/ StartDepend \/ Depend \/ Finish \/ UNCHANGED vars
    <3>1. UNCHANGED groups
      BY <2>3 DEF Merge, StartGroup, StartDepend, Depend, NoAccess, Skip, Store, Load, Memmove,
                  ExternalCall, Count, ReadBlock, Finish, vars, groupVars
    <3> QED
      BY <2>1, <3>1
  <2> QED
    BY <1>1, <2>2, <2>3 DEF Next
<1>2. GroupInv /\ GroupInv' /\ [Next]_vars =>
          [\A a, b \in Addresses :
              (GroupOf(a) # NoValue /\ GroupOf(a) = GroupOf(b)) => (GroupOf(a))' = (GroupOf(b))'
          ]_groups
  BY <1>1
<1> QED
  BY <1>2, GroupInvAlways, PTL DEF Spec, GroupsOnlyGrow
=============================================================================
