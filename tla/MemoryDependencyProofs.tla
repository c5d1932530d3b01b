----------------------- MODULE MemoryDependencyProofs -----------------------
(***************************************************************************)
(* The dependencies that ExtractMemoryDependency finds, for any trace that *)
(* MergeTrace can return, any number of addresses, threads and             *)
(* instructions: they are the pairs of a reader and the last writer of an  *)
(* address it reads.                                                       *)
(***************************************************************************)
EXTENDS GroupMemoryProofs

-----------------------------------------------------------------------------
(* Ranges of last_store                                                    *)

(* The dynamic instructions, numbered from either end.                     *)
Writers == [TID : Tids, ID : DOMAIN SSADependencies, Cnt : Int]

(* What can be in last_store.                                              *)
JoinedTrees == {tree \in Trees(Writers) : IsJoined(tree)}

(* What me finds for the addresses of S.                                   *)
Found(store, me, S) == {<<me, At(store, a).value>> : a \in {x \in S : At(store, x) # Empty}}

(* Its elements.                                                           *)
LEMMA FoundIs ==
  ASSUME NEW store, NEW me, NEW S, NEW p
  PROVE  p \in Found(store, me, S) <=>
             \E a \in S : At(store, a) # Empty /\ p = <<me, At(store, a).value>>
BY DEF Found

(* The bytes of a range.                                                   *)
LEMMA BytesAre ==
  ASSUME NEW l, NEW r
  PROVE  /\ Bytes(l, r) \subseteq Addresses
         /\ \A a \in Addresses : a \in Bytes(l, r) <=> l <= a /\ a < r
BY DEF Bytes

(* A tree of last_store has the bounds and values that the lemmas need.    *)
LEMMA JoinedIs ==
  ASSUME NEW tree
  PROVE  tree \in JoinedTrees <=> IsTree(tree, Writers) /\ IsJoined(tree)
BY TreesAre DEF JoinedTrees

(* Setting a range keeps it so.                                            *)
LEMMA SetJoined ==
  ASSUME NEW tree \in JoinedTrees, NEW l \in Int, NEW r \in Int, NEW v \in Writers
  PROVE  /\ Set(tree, l, r, v) \in JoinedTrees
         /\ \A a \in Addresses :
               At(Set(tree, l, r, v), a) = IF a \in Bytes(l, r) THEN Covered(v) ELSE At(tree, a)
<1>1. IsTree(tree, Writers) /\ IsJoined(tree)
  BY JoinedIs
<1>2. /\ IsTree(Set(tree, l, r, v), Writers) /\ IsJoined(Set(tree, l, r, v))
      /\ \A a \in Addresses :
            At(Set(tree, l, r, v), a) = IF l <= a /\ a < r THEN Covered(v) ELSE At(tree, a)
  BY <1>1, SetTree
<1> QED
  BY <1>2, JoinedIs, BytesAre

(* The last writes of a range are what is stored for its bytes: every      *)
(* covered segment that Collect returns has a byte in the range, and every *)
(* byte of the range is in a segment that holds what is stored for it.     *)
LEMMA LastWritesAre ==
  ASSUME NEW tree, IsTree(tree, Writers), NEW me, NEW l \in Int, NEW r \in Int,
         0 <= l, l < r, r <= MAX_RANGE
  PROVE  LastWrites(tree, me, l, r) = Found(tree, me, Bytes(l, r))
<1> DEFINE s == Collect(tree, l, r)
<1>0. MAX_RANGE \in Nat \ {0}
  BY RangeAssumption
<1>1. Cuts(s, tree, Writers, l, r)
  BY CollectCuts
<1>2. LastWrites(tree, me, l, r) = {<<me, x.value>> : x \in {y \in ToSet(s) : IsCovered(y)}}
  BY DEF LastWrites
<1> HIDE DEF s
<1>3. s \in Seq(SegmentsOf(Writers)) /\ Len(s) \in Nat /\ ToSet(s) = {s[k] : k \in 1 .. Len(s)}
  BY <1>1 DEF Cuts, ToSet
<1>4. \A k \in 1 .. Len(s) : s[k].left \in Int /\ s[k].right \in Int /\ s[k].type \in Types
      /\ 0 <= s[k].left /\ s[k].right <= MAX_RANGE
  <2> SUFFICES ASSUME NEW k \in 1 .. Len(s), NEW x, x = s[k]
               PROVE  x.left \in 0 .. MAX_RANGE /\ x.right \in 0 .. MAX_RANGE /\ x.type \in Types
    BY <1>0
  <2>1. x \in SegmentsOf(Writers)
    BY <1>3
  <2> HIDE DEF Writers
  <2> QED
    BY <2>1 DEF SegmentsOf
<1>5. \A t, v : Leaf(t, v).type = t /\ Leaf(t, v).value = v
  BY DEF Leaf
<1>6. ASSUME NEW p, p \in LastWrites(tree, me, l, r) PROVE p \in Found(tree, me, Bytes(l, r))
  <2>1. PICK k \in 1 .. Len(s) : IsCovered(s[k]) /\ p = <<me, s[k].value>>
    BY <1>2, <1>3, <1>6
  <2>2. s[k].left < s[k].right /\ s[k].left < r /\ l < s[k].right
    BY <1>1 DEF Cuts
  <2>3. PICK a \in Addresses : s[k].left <= a /\ a < s[k].right /\ l <= a /\ a < r
    <3> DEFINE c == IF s[k].left < l THEN l ELSE s[k].left
    <3>1. c \in Addresses /\ s[k].left <= c /\ c < s[k].right /\ l <= c /\ c < r
      BY <1>0, <1>4, <2>2 DEF Addresses
    <3> QED
      BY <3>1
  <2>4. At(tree, a) = Leaf(s[k].type, s[k].value)
    BY <1>1, <2>3 DEF Cuts
  <2>5. At(tree, a).value = s[k].value /\ At(tree, a) # Empty
    BY <1>5, <2>1, <2>4, KindsDiffer DEF IsCovered
  <2>6. a \in Bytes(l, r)
    BY <2>3, BytesAre
  <2> QED
    BY <2>1, <2>5, <2>6, FoundIs
<1>7. ASSUME NEW p, p \in Found(tree, me, Bytes(l, r)) PROVE p \in LastWrites(tree, me, l, r)
  <2>1. PICK a \in Bytes(l, r) : At(tree, a) # Empty /\ p = <<me, At(tree, a).value>>
    BY <1>7, FoundIs
  <2>2. a \in Addresses /\ l <= a /\ a < r
    BY <2>1, BytesAre
  <2>3. PICK k \in 1 .. Len(s) : s[k].left <= a /\ a < s[k].right
    BY <1>1, <2>2 DEF Cuts
  <2>4. At(tree, a) = Leaf(s[k].type, s[k].value)
    BY <1>1, <2>2, <2>3 DEF Cuts
  <2>5. At(tree, a).type = s[k].type /\ At(tree, a).value = s[k].value
    BY <1>5, <2>4
  <2>6. IsCovered(s[k])
    BY <2>1, <2>2, <2>5, AtContents, KindsDiffer DEF IsCovered
  <2> QED
    BY <1>2, <1>3, <2>1, <2>5, <2>6
<1> QED
  BY <1>6, <1>7

-----------------------------------------------------------------------------
(* The accesses of an external call                                        *)

(* What an external call works on.                                         *)
Mems == [store : JoinedTrees, dep : SUBSET (Writers \X Writers)]

(* From o to m, me has accessed the addresses of S.  It has found what was *)
(* stored there, and, when an address was accessed twice, itself.          *)
Accessed(m, o, S, me, once) ==
    /\ m \in Mems
    /\ \A a \in Addresses : At(m.store, a) = IF a \in S THEN Covered(me) ELSE At(o.store, a)
    /\ m.dep \cup {<<me, me>>} = o.dep \cup Found(o.store, me, S) \cup {<<me, me>>}
    /\ once => m.dep = o.dep \cup Found(o.store, me, S)

(* The last of the accesses, from m to n, was that of R.                   *)
AccessOf(n, m, R, me) ==
    /\ n \in Mems
    /\ \A a \in Addresses : At(n.store, a) = IF a \in R THEN Covered(me) ELSE At(m.store, a)
    /\ n.dep = m.dep \cup Found(m.store, me, R)

(* What is found is a pair of dynamic instructions.                        *)
LEMMA FoundPairs ==
  ASSUME NEW tree, IsTree(tree, Writers), NEW me \in Writers, NEW S, S \subseteq Addresses
  PROVE  Found(tree, me, S) \subseteq Writers \X Writers
<1> SUFFICES ASSUME NEW p, p \in Found(tree, me, S) PROVE p \in Writers \X Writers
  OBVIOUS
<1>1. PICK a \in S : At(tree, a) # Empty /\ p = <<me, At(tree, a).value>>
  BY FoundIs
<1>2. PICK v \in Writers : At(tree, a) = Covered(v)
  BY <1>1, AtContents
<1> QED
  BY <1>1, <1>2, KindsDiffer

(* Accessing some more addresses.                                          *)
LEMMA AccessMore ==
  ASSUME NEW me \in Writers, NEW o, NEW m, NEW S, NEW once \in BOOLEAN, Accessed(m, o, S, me, once),
         S \subseteq Addresses, NEW R, R \subseteq Addresses,
         NEW twice \in BOOLEAN, twice => once /\ S \cap R = {},
         NEW n, AccessOf(n, m, R, me)
  PROVE  Accessed(n, o, S \cup R, me, twice)
<1> DEFINE q == <<me, me>>
<1>0. Covered(me).value = me /\ Covered(me) # Empty
  BY KindsDiffer
<1>1. \A a \in Addresses : At(m.store, a) = IF a \in S THEN Covered(me) ELSE At(o.store, a)
  BY DEF Accessed
<1>2. \A p : p \in m.dep \/ p = q <=> p \in o.dep \/ p \in Found(o.store, me, S) \/ p = q
  BY DEF Accessed
<1>3. \A p : p \in n.dep <=> p \in m.dep \/ p \in Found(m.store, me, R)
  BY DEF AccessOf
<1>4. ASSUME NEW p, p \in Found(m.store, me, R)
      PROVE  p \in Found(o.store, me, R) \/ (p = q /\ S \cap R # {})
  <2>1. PICK a \in R : At(m.store, a) # Empty /\ p = <<me, At(m.store, a).value>>
    BY <1>4, FoundIs
  <2>2. CASE a \in S
    BY <1>0, <1>1, <2>1, <2>2
  <2>3. CASE a \notin S
    BY <1>1, <2>1, <2>3, FoundIs
  <2> QED
    BY <2>2, <2>3
<1>5. ASSUME NEW p, p \in Found(o.store, me, R)
      PROVE  p \in Found(m.store, me, R) \/ p \in Found(o.store, me, S)
  <2>1. PICK a \in R : At(o.store, a) # Empty /\ p = <<me, At(o.store, a).value>>
    BY <1>5, FoundIs
  <2>2. CASE a \in S
    BY <2>1, <2>2, FoundIs
  <2>3. CASE a \notin S
    BY <1>1, <2>1, <2>3, FoundIs
  <2> QED
    BY <2>2, <2>3
<1>6. \A p : p \in Found(o.store, me, S \cup R) <=>
                 p \in Found(o.store, me, S) \/ p \in Found(o.store, me, R)
  BY FoundIs
<1>7. n.dep \cup {q} = o.dep \cup Found(o.store, me, S \cup R) \cup {q}
  <2> HIDE DEF q
  <2>1. \A p : p \in n.dep \/ p = q <=> p \in o.dep \/ p \in Found(o.store, me, S \cup R) \/ p = q
    BY <1>2, <1>3, <1>4, <1>5, <1>6
  <2> QED
    BY <2>1
<1>8. ASSUME twice PROVE n.dep = o.dep \cup Found(o.store, me, S \cup R)
  <2>1. m.dep = o.dep \cup Found(o.store, me, S) /\ S \cap R = {}
    BY <1>8 DEF Accessed
  <2>2. \A p : p \in n.dep <=> p \in o.dep \/ p \in Found(o.store, me, S \cup R)
    BY <1>3, <1>4, <1>5, <1>6, <2>1
  <2> QED
    BY <2>2
<1>9. \A a \in Addresses : At(n.store, a) = IF a \in S \cup R THEN Covered(me) ELSE At(o.store, a)
  BY <1>1 DEF AccessOf
<1> QED
  BY <1>7, <1>8, <1>9 DEF Accessed, AccessOf

(* One segment, with its own bounds.                                       *)
LEMMA AccessSegmentIs ==
  ASSUME NEW m \in Mems, NEW s, s.left \in Int, s.right \in Int,
         0 <= s.left, s.left < s.right, s.right <= MAX_RANGE, NEW me \in Writers
  PROVE  AccessOf(AccessSegment(m, s, me), m, Bytes(s.left, s.right), me)
<1> DEFINE l == s.left
           r == s.right
           R == Bytes(l, r)
           t == m.store
           new == Set(t, l, r, me)
           add == LastWrites(t, me, l, r)
           n == AccessSegment(m, s, me)
<1>0. t \in JoinedTrees /\ m.dep \subseteq Writers \X Writers /\ IsTree(t, Writers)
  BY JoinedIs DEF Mems
<1>1. n.store = new /\ n.dep = m.dep \cup add /\ n = [store |-> new, dep |-> m.dep \cup add]
  BY DEF AccessSegment
<1>2. R \subseteq Addresses
  BY BytesAre
<1> HIDE DEF t, n, R
<1>3. new \in JoinedTrees /\ \A a \in Addresses : At(new, a) = IF a \in R THEN Covered(me) ELSE At(t, a)
  BY <1>0, SetJoined DEF R
<1>4. add = Found(t, me, R)
  BY <1>0, LastWritesAre DEF R
<1>5. Found(t, me, R) \subseteq Writers \X Writers
  BY <1>0, <1>2, FoundPairs
<1> HIDE DEF new, add
<1>6. n \in Mems
  BY <1>0, <1>1, <1>3, <1>4, <1>5 DEF Mems
<1> QED
  BY <1>1, <1>3, <1>4, <1>6 DEF t, n, R, AccessOf

(* Segments that Collect can return.                                       *)
Apart(s) ==
    /\ Len(s) \in Nat
    /\ \A k \in 1 .. Len(s) :
          /\ s[k].left \in Int /\ s[k].right \in Int
          /\ 0 <= s[k].left /\ s[k].left < s[k].right /\ s[k].right <= MAX_RANGE
    /\ \A i, j \in 1 .. Len(s) : i < j => s[i].right <= s[j].left

(* What AccessSegments does with one of them.                              *)
OneAccess(m, segments, me, k) ==
    IF ~IsCovered(segments[k]) THEN m ELSE AccessSegment(m, segments[k], me)

(* The recursive function inside AccessSegments.                           *)
IsAccessSegments(f, m, segments, me) ==
    f = [k \in 0 .. Len(segments) |->
            IF k = 0 THEN m
            ELSE IF ~IsCovered(segments[k]) THEN f[k - 1]
            ELSE AccessSegment(f[k - 1], segments[k], me)]

(* It exists.                                                              *)
LEMMA AccessSegmentsExist ==
  ASSUME NEW m \in Mems, NEW segments, Apart(segments), NEW me \in Writers
  PROVE  \E f \in [0 .. Len(segments) -> Mems] : IsAccessSegments(f, m, segments, me)
<1> DEFINE n == Len(segments)
           op == [p \in Mems \X (1 .. n) |-> OneAccess(p[1], segments, me, p[2])]
<1>1. n \in Nat
  BY DEF Apart
<1>2. ASSUME NEW t \in Mems, NEW k \in 1 .. n PROVE OneAccess(t, segments, me, k) \in Mems
  <2> DEFINE s == segments[k]
  <2>1. s.left \in Int /\ s.right \in Int /\ 0 <= s.left /\ s.left < s.right /\ s.right <= MAX_RANGE
    BY DEF Apart
  <2> HIDE DEF s
  <2>2. AccessSegment(t, s, me) \in Mems
    BY <2>1, AccessSegmentIs DEF AccessOf
  <2> QED
    BY <2>2 DEF OneAccess, s
<1> HIDE DEF n
<1>3. op \in [Mems \X (1 .. n) -> Mems]
  BY <1>2
<1>4. \A t \in Mems, k \in 1 .. n : op[<<t, k>>] = OneAccess(t, segments, me, k)
  OBVIOUS
<1>5. Steps(op, Mems, n)
  BY <1>1, <1>3 DEF Steps
<1> HIDE DEF op
<1>7. PICK f \in [0 .. n -> Mems] : Iterates(f, m, op, n)
  BY <1>5, IndexFunction
<1>8. \A k \in 0 .. n : f[k] = IF k = 0 THEN m
                               ELSE IF ~IsCovered(segments[k]) THEN f[k - 1]
                               ELSE AccessSegment(f[k - 1], segments[k], me)
  <2> SUFFICES ASSUME NEW k \in 0 .. n, k # 0 PROVE f[k] = OneAccess(f[k - 1], segments, me, k)
    BY <1>1, <1>7 DEF Iterates, OneAccess
  <2>1. k - 1 \in 0 .. n /\ k \in 1 .. n
    BY <1>1
  <2> QED
    BY <1>4, <1>7, <2>1 DEF Iterates
<1>9. f = [k \in 0 .. n |-> IF k = 0 THEN m
                            ELSE IF ~IsCovered(segments[k]) THEN f[k - 1]
                            ELSE AccessSegment(f[k - 1], segments[k], me)]
  <2>1. f = [k \in 0 .. n |-> f[k]]
    OBVIOUS
  <2> QED
    BY <1>8, <2>1, Zenon
<1>10. IsAccessSegments(f, m, segments, me)
  BY <1>9, Zenon DEF IsAccessSegments, n
<1> QED
  BY <1>10 DEF n

(* The addresses in the first k segments that are covered.                 *)
InFirst(segments, k) ==
    {a \in Addresses : \E j \in 1 .. k :
        IsCovered(segments[j]) /\ segments[j].left <= a /\ a < segments[j].right}

(* One segment more: no address of it has been accessed before.            *)
LEMMA InFirstMore ==
  ASSUME NEW segments, Apart(segments), NEW k \in Nat, k + 1 \in 1 .. Len(segments)
  PROVE  /\ InFirst(segments, k + 1) = InFirst(segments, k) \cup
                (IF IsCovered(segments[k + 1])
                 THEN Bytes(segments[k + 1].left, segments[k + 1].right) ELSE {})
         /\ InFirst(segments, k) \cap Bytes(segments[k + 1].left, segments[k + 1].right) = {}
<1>0. PICK e \in 1 .. Len(segments) : e = k + 1
  OBVIOUS
<1> DEFINE R == Bytes(segments[e].left, segments[e].right)
<1>1. \A j \in 1 .. e : j = e \/ j \in 1 .. k
  BY <1>0
<1>2. \A j \in 1 .. k : j \in 1 .. e /\ j < e /\ j \in 1 .. Len(segments)
  BY <1>0 DEF Apart
<1>3. \A a \in Addresses : a \in R <=> segments[e].left <= a /\ a < segments[e].right
  BY BytesAre
<1>4. R \subseteq Addresses /\ Addresses \subseteq Int
  BY BytesAre, RangeAssumption DEF Addresses
<1> HIDE DEF R
<1>5. InFirst(segments, e) = InFirst(segments, k) \cup (IF IsCovered(segments[e]) THEN R ELSE {})
  <2>1. \A a \in Addresses : a \in InFirst(segments, e) <=>
            a \in InFirst(segments, k) \/ (IsCovered(segments[e]) /\ a \in R)
    BY <1>1, <1>2, <1>3, e \in 1 .. e, <1>0 DEF InFirst
  <2>2. InFirst(segments, e) \subseteq Addresses /\ InFirst(segments, k) \subseteq Addresses
    BY DEF InFirst
  <2> QED
    BY <1>4, <2>1, <2>2
<1>6. InFirst(segments, k) \cap R = {}
  <2> SUFFICES ASSUME NEW a \in Addresses, a \in InFirst(segments, k), a \in R PROVE FALSE
    BY DEF InFirst
  <2>1. PICK j \in 1 .. k : segments[j].left <= a /\ a < segments[j].right
    BY DEF InFirst
  <2>2. segments[j].right <= segments[e].left
    BY <1>0, <1>2 DEF Apart
  <2>3. segments[j].right \in Int /\ segments[e].left \in Int /\ a \in Int
    BY <1>0, <1>2, <1>4 DEF Apart
  <2> QED
    BY <1>3, <2>1, <2>2, <2>3
<1> QED
  BY <1>0, <1>5, <1>6 DEF R

(* All of them are accessed, each of their addresses once.                 *)
LEMMA AccessSegmentsOK ==
  ASSUME NEW segments, Apart(segments), NEW me \in Writers, NEW o, NEW m, NEW S, S \subseteq Addresses,
         NEW once \in BOOLEAN, Accessed(m, o, S, me, once), NEW twice \in BOOLEAN,
         twice => once /\ S \cap InFirst(segments, Len(segments)) = {}
  PROVE  Accessed(AccessSegments(m, segments, me), o, S \cup InFirst(segments, Len(segments)), me, twice)
<1> DEFINE n == Len(segments)
           f == CHOOSE g : IsAccessSegments(g, m, segments, me)
<1>0. m \in Mems
  BY DEF Accessed
<1>1. n \in Nat /\ IsAccessSegments(f, m, segments, me)
  BY <1>0, AccessSegmentsExist, Zenon DEF Apart
<1>2. AccessSegments(m, segments, me) = f[n]
  BY Zenon DEF AccessSegments, IsAccessSegments
<1> HIDE DEF f
<1>3. \A k \in 0 .. n : f[k] = IF k = 0 THEN m ELSE OneAccess(f[k - 1], segments, me, k)
  <2> DEFINE h == [k \in 0 .. Len(segments) |->
                      IF k = 0 THEN m
                      ELSE IF ~IsCovered(segments[k]) THEN f[k - 1]
                      ELSE AccessSegment(f[k - 1], segments[k], me)]
  <2>1. \A k \in 0 .. n : h[k] = IF k = 0 THEN m ELSE OneAccess(f[k - 1], segments, me, k)
    BY Zenon DEF OneAccess
  <2>2. f = h
    BY <1>1, Zenon DEF IsAccessSegments
  <2> HIDE DEF h
  <2> QED
    BY <2>1, <2>2
<1> DEFINE K == {k \in Nat : k \in 0 .. n => Accessed(f[k], o, S \cup InFirst(segments, k), me, twice)}
<1>4. 0 \in K
  <2>1. f[0] = m
    BY <1>1, <1>3
  <2>2. InFirst(segments, 0) = {}
    BY DEF InFirst
  <2>3. Accessed(m, o, S, me, twice)
    BY DEF Accessed
  <2> QED
    BY <2>1, <2>2, <2>3
<1>5. ASSUME NEW k \in Nat, k \in K PROVE k + 1 \in K
  <2> SUFFICES ASSUME k + 1 \in 0 .. n
               PROVE  Accessed(f[k + 1], o, S \cup InFirst(segments, k + 1), me, twice)
    OBVIOUS
  <2>0. PICK e \in 1 .. n : e = k + 1
    BY <1>1
  <2> DEFINE T == S \cup InFirst(segments, k)
             s == segments[e]
             R == Bytes(s.left, s.right)
  <2>1. k \in 0 .. n /\ e # 0 /\ e - 1 = k /\ e \in 0 .. n
    BY <1>1, <2>0
  <2>2. Accessed(f[k], o, T, me, twice)
    BY <1>5, <2>1
  <2>3. f[e] = OneAccess(f[k], segments, me, e)
    BY <1>3, <2>1
  <2>4. /\ InFirst(segments, e) = InFirst(segments, k) \cup (IF IsCovered(s) THEN R ELSE {})
        /\ InFirst(segments, k) \cap R = {}
    <3>1. k + 1 \in 1 .. Len(segments)
      BY <2>0
    <3> QED
      BY <2>0, <3>1, InFirstMore
  <2>5. /\ s.left \in Int /\ s.right \in Int
        /\ 0 <= s.left /\ s.left < s.right /\ s.right <= MAX_RANGE
    BY DEF Apart
  <2>6. T \subseteq Addresses /\ R \subseteq Addresses
    BY BytesAre DEF InFirst
  <2>7. CASE ~IsCovered(s)
    <3>1. f[e] = f[k]
      BY <2>3, <2>7 DEF OneAccess
    <3>2. S \cup InFirst(segments, e) = T
      BY <2>4, <2>7
    <3> QED
      BY <2>0, <2>2, <3>1, <3>2
  <2>8. CASE IsCovered(s)
    <3> DEFINE c == f[k]
               d == AccessSegment(c, s, me)
    <3>1. f[e] = d
      BY <2>3, <2>8 DEF OneAccess
    <3>2. S \cup InFirst(segments, e) = T \cup R
      BY <2>4, <2>8
    <3>3. twice => T \cap R = {}
      <4> SUFFICES ASSUME twice, NEW a, a \in S, a \in R PROVE FALSE
        BY <2>4
      <4>1. a \in InFirst(segments, e)
        BY <2>4, <2>8
      <4>2. a \in InFirst(segments, n)
        BY <4>1, <1>1, <2>1 DEF InFirst
      <4> QED
        BY <4>2
    <3>4. Accessed(c, o, T, me, twice) /\ c \in Mems
      BY <2>2 DEF Accessed
    <3> HIDE DEF c, s, T
    <3>5. AccessOf(d, c, R, me)
      BY <2>5, <3>4, AccessSegmentIs
    <3> HIDE DEF d, R
    <3>6. Accessed(d, o, T \cup R, me, twice)
      BY <2>6, <3>3, <3>4, <3>5, AccessMore
    <3> QED
      BY <2>0, <3>1, <3>2, <3>6
  <2> QED
    BY <2>7, <2>8
<1>6. Nat \subseteq K
  <2> HIDE DEF K
  <2> QED
    BY <1>4, <1>5, NatSetInduction
<1>7. n \in 0 .. n
  BY <1>1
<1> QED
  BY <1>1, <1>2, <1>6, <1>7

(* The addresses in the group of an argument.                              *)
Group1(arg) == {a \in Addresses : GroupOf(a) = GroupOf(arg)}

(* The segments of a group's tree are those of its addresses.              *)
LEMMA GroupSegments ==
  ASSUME NEW tree, IsTree(tree, {1})
  PROVE  LET s == Collect(tree, 0, MAX_RANGE) IN
         /\ Apart(s)
         /\ InFirst(s, Len(s)) = {a \in Addresses : At(tree, a) = Covered(1)}
<1> DEFINE one == {1}
           s == Collect(tree, 0, MAX_RANGE)
<1>0. MAX_RANGE \in Nat \ {0} /\ IsTree(tree, one)
  BY RangeAssumption
<1>1. \A a \in Addresses : At(tree, a).type = "COVERED_SEGMENT" <=> At(tree, a) = Covered(1)
  <2>1. \A v \in one : v = 1
    OBVIOUS
  <2> HIDE DEF one
  <2> QED
    BY <1>0, <2>1, AtContents, KindsDiffer
<1> HIDE DEF one
<1>2. Cuts(s, tree, one, 0, MAX_RANGE)
  BY <1>0, CollectCuts
<1>3. \A a \in Addresses : InSome(s, "COVERED_SEGMENT", a) <=> At(tree, a).type = "COVERED_SEGMENT"
  BY <1>0, CollectInSome
<1> HIDE DEF s
<1>4. Apart(s)
  <2>1. s \in Seq(SegmentsOf(one)) /\ Len(s) \in Nat
    BY <1>2 DEF Cuts
  <2>2. ASSUME NEW k \in 1 .. Len(s)
        PROVE  /\ s[k].left \in Int /\ s[k].right \in Int
               /\ 0 <= s[k].left /\ s[k].left < s[k].right /\ s[k].right <= MAX_RANGE
    <3>1. PICK x \in SegmentsOf(one) : x = s[k]
      BY <2>1
    <3>2. x.left \in 0 .. MAX_RANGE /\ x.right \in 0 .. MAX_RANGE
      BY <3>1 DEF SegmentsOf
    <3>3. s[k].left < s[k].right
      BY <1>2 DEF Cuts
    <3> QED
      BY <1>0, <3>1, <3>2, <3>3
  <2> QED
    BY <1>2, <2>1, <2>2 DEF Apart, Cuts
<1>5. InFirst(s, Len(s)) = {a \in Addresses : InSome(s, "COVERED_SEGMENT", a)}
  BY DEF InFirst, InSome, IsCovered
<1> QED
  BY <1>1, <1>3, <1>4, <1>5 DEF s

(* An argument: all addresses of its group are accessed.                   *)
LEMMA AccessGroupOK ==
  ASSUME GroupInv, NEW arg \in Addresses, At(groups.Addr2Group, arg) # Empty,
         NEW me \in Writers, NEW o, NEW m, NEW S, S \subseteq Addresses,
         NEW once \in BOOLEAN, Accessed(m, o, S, me, once), NEW twice \in BOOLEAN,
         twice => once /\ S \cap Group1(arg) = {}
  PROVE  Accessed(AccessGroup(m, arg, me), o, S \cup Group1(arg), me, twice)
<1> DEFINE g == GroupOf(arg)
           tree == groups.Group2Addr[g]
           s == Collect(tree, 0, MAX_RANGE)
<1>1. g # NoValue /\ g \in Nat /\ At(groups.Addr2Group, arg) = Covered(g)
  BY GroupOfIs
<1>2. AddrOK(groups.Addr2Group, groups.Group2Addr, groups.MaxGroupID)
  BY DEF GroupInv, GroupsOK
<1>3. g \in DOMAIN groups.Group2Addr
  BY <1>1, <1>2 DEF AddrOK
<1>4. IsTree(tree, {1}) /\ \A a \in Addresses : At(groups.Addr2Group, a) = Covered(g) <=> At(tree, a) = Covered(1)
  BY <1>2, <1>3 DEF AddrOK
<1>5. AccessGroup(m, arg, me) = AccessSegments(m, s, me)
  BY <1>1 DEF AccessGroup
<1>6. \A a \in Addresses : At(groups.Addr2Group, a) = Covered(g) <=> GroupOf(a) = g
  BY <1>1, GroupOfIs
<1> HIDE DEF tree
<1>7. Apart(s) /\ InFirst(s, Len(s)) = {a \in Addresses : At(tree, a) = Covered(1)}
  BY <1>4, GroupSegments
<1>8. Group1(arg) = InFirst(s, Len(s))
  BY <1>4, <1>6, <1>7 DEF Group1
<1> HIDE DEF s, g
<1> QED
  BY <1>5, <1>7, <1>8, AccessSegmentsOK

(* The recursive function inside ExternalCall, and what it ends with.      *)
IsCallAccess(f, b) ==
    f = [k \in 0 .. Len(b.args) |->
            IF k = 0 THEN [store |-> last_store, dep |-> found]
            ELSE AccessGroup(f[k - 1], b.args[k], Inst(b))]
CallAccess(b) == (CHOOSE f : IsCallAccess(f, b))[Len(b.args)]

(* AccessGroup leads from one memory to the next.                          *)
LEMMA AccessGroupMems ==
  ASSUME GroupInv, NEW arg \in Addresses, At(groups.Addr2Group, arg) # Empty,
         NEW me \in Writers, NEW m \in Mems
  PROVE  AccessGroup(m, arg, me) \in Mems
<1> DEFINE S == {}
           no == FALSE
<1>1. Accessed(m, m, S, me, no)
  <2>1. Found(m.store, me, S) = {}
    BY DEF Found
  <2> QED
    BY <2>1 DEF Accessed
<1>2. no \in BOOLEAN /\ S \subseteq Addresses /\ ~no
  OBVIOUS
<1> HIDE DEF S, no
<1>3. Accessed(AccessGroup(m, arg, me), m, S \cup Group1(arg), me, no)
  BY <1>1, <1>2, AccessGroupOK
<1> QED
  BY <1>3 DEF Accessed

(* It exists.                                                              *)
LEMMA CallAccessExists ==
  ASSUME GroupInv, NEW b, b.args \in Seq(Addresses), Inst(b) \in Writers,
         \A a \in ToSet(b.args) : At(groups.Addr2Group, a) # Empty,
         [store |-> last_store, dep |-> found] \in Mems
  PROVE  \E f \in [0 .. Len(b.args) -> Mems] : IsCallAccess(f, b)
<1> DEFINE n == Len(b.args)
           me == Inst(b)
           m == [store |-> last_store, dep |-> found]
           op == [p \in Mems \X (1 .. n) |-> AccessGroup(p[1], b.args[p[2]], me)]
<1>1. n \in Nat
  OBVIOUS
<1>2. ASSUME NEW t \in Mems, NEW k \in 1 .. n PROVE AccessGroup(t, b.args[k], me) \in Mems
  <2>1. PICK a \in Addresses : a = b.args[k] /\ a \in ToSet(b.args)
    BY DEF ToSet
  <2>2. At(groups.Addr2Group, a) # Empty /\ me \in Writers
    BY <2>1
  <2> HIDE DEF me
  <2>3. AccessGroup(t, a, me) \in Mems
    BY <2>2, AccessGroupMems
  <2> QED
    BY <2>1, <2>3
<1> HIDE DEF n, me
<1>3. op \in [Mems \X (1 .. n) -> Mems]
  BY <1>2
<1>4. \A t \in Mems, k \in 1 .. n : op[<<t, k>>] = AccessGroup(t, b.args[k], me)
  OBVIOUS
<1>5. Steps(op, Mems, n)
  BY <1>1, <1>3 DEF Steps
<1> HIDE DEF op
<1>6. m \in Mems
  OBVIOUS
<1> HIDE DEF m
<1>7. PICK f \in [0 .. n -> Mems] : Iterates(f, m, op, n)
  BY <1>5, <1>6, IndexFunction
<1>8. \A k \in 0 .. n : f[k] = IF k = 0 THEN m ELSE AccessGroup(f[k - 1], b.args[k], me)
  <2> SUFFICES ASSUME NEW k \in 0 .. n, k # 0 PROVE f[k] = AccessGroup(f[k - 1], b.args[k], me)
    BY <1>1, <1>7 DEF Iterates
  <2>1. k - 1 \in 0 .. n /\ k \in 1 .. n
    BY <1>1
  <2> QED
    BY <1>4, <1>7, <2>1 DEF Iterates
<1>9. f = [k \in 0 .. n |-> IF k = 0 THEN m ELSE AccessGroup(f[k - 1], b.args[k], me)]
  <2>1. f = [k \in 0 .. n |-> f[k]]
    OBVIOUS
  <2> QED
    BY <1>8, <2>1, Zenon
<1>10. IsCallAccess(f, b)
  BY <1>9, Zenon DEF IsCallAccess, n, m, me
<1> QED
  BY <1>10 DEF n

(* The addresses in the groups of the first k arguments.                   *)
GroupsOfFirst(b, k) == {a \in Addresses : \E i \in 1 .. k : GroupOf(a) = GroupOf(b.args[i])}

(* A call accesses the groups of all its arguments, and no address twice   *)
(* unless it has two arguments.                                            *)
LEMMA CallAccessOK ==
  ASSUME GroupInv, NEW b, b.args \in Seq(Addresses), Inst(b) \in Writers,
         \A a \in ToSet(b.args) : At(groups.Addr2Group, a) # Empty,
         [store |-> last_store, dep |-> found] \in Mems
  PROVE  Accessed(CallAccess(b), [store |-> last_store, dep |-> found], GroupsOf(b), Inst(b),
                  Len(b.args) <= 1)
<1> DEFINE n == Len(b.args)
           me == Inst(b)
           o == [store |-> last_store, dep |-> found]
           f == CHOOSE g : IsCallAccess(g, b)
           once(k) == k <= 1
           S(k) == GroupsOfFirst(b, k)
<1>0. n \in Nat
  OBVIOUS
<1>1. n \in Nat /\ IsCallAccess(f, b)
  <2>1. \E g : IsCallAccess(g, b)
    BY CallAccessExists
  <2> QED
    BY <1>0, <2>1, Zenon
<1>2. CallAccess(b) = f[n]
  BY Zenon DEF CallAccess
<1> HIDE DEF f
<1>3. \A k \in 0 .. n : f[k] = IF k = 0 THEN o ELSE AccessGroup(f[k - 1], b.args[k], me)
  <2> DEFINE h == [k \in 0 .. Len(b.args) |->
                      IF k = 0 THEN [store |-> last_store, dep |-> found]
                      ELSE AccessGroup(f[k - 1], b.args[k], Inst(b))]
  <2>1. \A k \in 0 .. n : h[k] = IF k = 0 THEN o ELSE AccessGroup(f[k - 1], b.args[k], me)
    BY Zenon
  <2>2. f = h
    BY <1>1, Zenon DEF IsCallAccess
  <2> HIDE DEF h
  <2> QED
    BY <2>1, <2>2
<1>4. o \in Mems /\ me \in Writers
  OBVIOUS
<1> HIDE DEF me, o
<1> DEFINE K == {k \in Nat : k \in 0 .. n => Accessed(f[k], o, S(k), me, once(k))}
<1>5. 0 \in K
  <2>1. f[0] = o
    BY <1>1, <1>3
  <2>2. S(0) = {}
    BY DEF GroupsOfFirst
  <2>3. Found(o.store, me, {}) = {}
    BY DEF Found
  <2> QED
    BY <1>4, <2>1, <2>2, <2>3 DEF Accessed
<1>6. ASSUME NEW k \in Nat, k \in K PROVE k + 1 \in K
  <2> SUFFICES ASSUME k + 1 \in 0 .. n PROVE Accessed(f[k + 1], o, S(k + 1), me, once(k + 1))
    OBVIOUS
  <2>0. PICK e \in 1 .. n : e = k + 1
    BY <1>1
  <2>1. k \in 0 .. n /\ e # 0 /\ e - 1 = k /\ e \in 0 .. n
    BY <1>1, <2>0
  <2>2. PICK arg \in Addresses : arg = b.args[e] /\ At(groups.Addr2Group, arg) # Empty
    BY DEF ToSet
  <2> DEFINE c == f[k]
             T == S(k)
             x == once(k)
             y == once(e)
  <2>3. Accessed(c, o, T, me, x) /\ x \in BOOLEAN /\ y \in BOOLEAN /\ T \subseteq Addresses
    BY <1>6, <2>1 DEF GroupsOfFirst
  <2>4. f[e] = AccessGroup(c, arg, me)
    BY <1>3, <2>1, <2>2
  <2>5. y => x /\ T \cap Group1(arg) = {}
    <3>1. y => k = 0
      BY <2>0
    <3>2. k = 0 => T = {}
      BY DEF GroupsOfFirst
    <3> QED
      BY <3>1, <3>2
  <2>6. S(e) = T \cup Group1(arg)
    <3>1. \A i : i \in 1 .. e <=> i \in 1 .. k \/ i = e
      BY <2>0
    <3> QED
      BY <2>2, <3>1 DEF GroupsOfFirst, Group1
  <2> HIDE DEF c, T, x, y
  <2>7. Accessed(AccessGroup(c, arg, me), o, T \cup Group1(arg), me, y)
    BY <1>4, <2>2, <2>3, <2>5, AccessGroupOK
  <2>8. Accessed(f[e], o, S(e), me, y)
    BY <2>4, <2>6, <2>7
  <2> QED
    BY <2>0, <2>8 DEF y
<1>7. Nat \subseteq K
  <2> HIDE DEF K
  <2> QED
    BY <1>5, <1>6, NatSetInduction
<1>8. S(n) = GroupsOf(b)
  BY DEF GroupsOfFirst, GroupsOf, ToSet
<1>9. Accessed(f[n], o, S(n), me, once(n))
  BY <1>1, <1>7
<1> QED
  BY <1>2, <1>8, <1>9 DEF o, me

-----------------------------------------------------------------------------
(* Reference definitions, of a trace t and of the groups A of addresses    *)

GroupsAt(A, b) == {a \in Addresses : \E arg \in ToSet(b.args) : Get(A, a) = Get(A, arg)}

ReadsAt(A, b) ==
    CASE b.type = "LoadInst" -> Bytes(b.start, b.end)
      [] b.type = "Memmove" -> Bytes(b.source, SourceEnd(b))
      [] IsCall(b) -> GroupsAt(A, b)
      [] OTHER -> {}

WritesAt(A, b) ==
    CASE b.type \in {"StoreInst", "Memset", "Memmove"} -> Bytes(b.start, b.end)
      [] IsCall(b) -> GroupsAt(A, b)
      [] OTHER -> {}

(* The blocks before position k that write address a.                      *)
WritersAt(A, t, a, k) == {j \in 1 .. k - 1 : a \in WritesAt(A, t[j])}

WriterAt(A, t, a, k) ==
    IF WritersAt(A, t, a, k) = {} THEN 0
    ELSE CHOOSE j \in WritersAt(A, t, a, k) : \A i \in WritersAt(A, t, a, k) : i <= j

(* The executions of instruction i in the first k blocks.                  *)
Runs(t, i, k) == {j \in 1 .. k : Counted(t[j]) /\ I(t[j]) = i}

ForwardAt(t, k) == DynamicInst(t[k].tid, t[k].ins, Cardinality(Runs(t, I(t[k]), k - 1)))

(* The dependencies of the first n blocks.                                 *)
PairsAt(A, t, n) ==
    {<<ForwardAt(t, p[1]), ForwardAt(t, p[2])>> :
        p \in {q \in (1 .. n) \X (1 .. n) :
                  \E a \in ReadsAt(A, t[q[1]]) : WriterAt(A, t, a, q[1]) = q[2]}}

(* The last writer: it writes the address, and nothing after it does.      *)
LEMMA WriterIs ==
  ASSUME NEW A, NEW t, NEW a, NEW k \in Nat, k > 0
  PROVE  /\ WriterAt(A, t, a, k) = 0 \/ WriterAt(A, t, a, k) \in 1 .. k - 1
         /\ WriterAt(A, t, a, k) # 0 => a \in WritesAt(A, t[WriterAt(A, t, a, k)])
         /\ \A j \in 1 .. k - 1 : a \in WritesAt(A, t[j]) => j <= WriterAt(A, t, a, k)
<1> DEFINE js == WritersAt(A, t, a, k)
           w == WriterAt(A, t, a, k)
<1>0. \A j : j \in js <=> j \in 1 .. k - 1 /\ a \in WritesAt(A, t[j])
  BY DEF WritersAt
<1>1. CASE js = {}
  <2>1. w = 0
    BY <1>1 DEF WriterAt
  <2> QED
    BY <1>0, <1>1, <2>1
<1>2. CASE js # {}
  <2>1. js \subseteq 1 .. k - 1
    BY <1>0
  <2> HIDE DEF js
  <2>2. \E j \in js : \A i \in js : i <= j
    <3>1. PICK n \in Nat : n = k - 1
      OBVIOUS
    <3>2. js \in SUBSET (0 .. n)
      BY <2>1, <3>1
    <3> QED
      BY <1>2, <3>2, Maximum
  <2>3. w = CHOOSE j \in js : \A i \in js : i <= j
    BY <1>2 DEF WriterAt, js
  <2>4. w \in js /\ \A i \in js : i <= w
    BY <2>2, <2>3
  <2> QED
    BY <1>0, <2>1, <2>4
<1> QED
  BY <1>1, <1>2

(* There is no other number with these properties.                         *)
LEMMA WriterUnique ==
  ASSUME NEW A, NEW t, NEW a, NEW k \in Nat, k > 0, NEW w \in 0 .. k - 1,
         w # 0 => a \in WritesAt(A, t[w]),
         \A j \in 1 .. k - 1 : a \in WritesAt(A, t[j]) => j <= w
  PROVE  WriterAt(A, t, a, k) = w
<1> DEFINE v == WriterAt(A, t, a, k)
<1>1. /\ v = 0 \/ v \in 1 .. k - 1
      /\ v # 0 => a \in WritesAt(A, t[v])
      /\ \A j \in 1 .. k - 1 : a \in WritesAt(A, t[j]) => j <= v
  BY WriterIs
<1> HIDE DEF v
<1>2. v <= w
  BY <1>1
<1>3. w <= v
  BY <1>1
<1>4. v \in Int /\ w \in Int
  BY <1>1
<1> QED
  BY <1>2, <1>3, <1>4 DEF v

(* One block more.                                                         *)
LEMMA WriterMore ==
  ASSUME NEW A, NEW t, NEW a, NEW k \in Nat, k > 0
  PROVE  WriterAt(A, t, a, k + 1) = IF a \in WritesAt(A, t[k]) THEN k ELSE WriterAt(A, t, a, k)
<1> DEFINE v == WriterAt(A, t, a, k)
           w == IF a \in WritesAt(A, t[k]) THEN k ELSE v
<1>1. /\ v = 0 \/ v \in 1 .. k - 1
      /\ v # 0 => a \in WritesAt(A, t[v])
      /\ \A j \in 1 .. k - 1 : a \in WritesAt(A, t[j]) => j <= v
  BY WriterIs
<1> HIDE DEF v
<1>2. w \in 0 .. k /\ (w # 0 => a \in WritesAt(A, t[w]))
  BY <1>1
<1>3. \A j \in 1 .. k : a \in WritesAt(A, t[j]) => j <= w
  BY <1>1
<1> HIDE DEF w
<1>4. PICK e \in Nat : e = k + 1 /\ e > 0 /\ e - 1 = k
  OBVIOUS
<1>5. WriterAt(A, t, a, e) = w
  BY <1>2, <1>3, <1>4, WriterUnique
<1> QED
  BY <1>4, <1>5 DEF w, v

(* Only counted blocks read or write.                                      *)
LEMMA AccessIsCounted ==
  ASSUME NEW A, NEW b \in Blocks, ReadsAt(A, b) # {} \/ WritesAt(A, b) # {}
  PROVE  Counted(b)
BY DEF ReadsAt, WritesAt, Counted, IsCall

(* What is read and written are addresses.                                 *)
LEMMA AccessAddresses ==
  ASSUME NEW A, NEW b \in Blocks
  PROVE  ReadsAt(A, b) \subseteq Addresses /\ WritesAt(A, b) \subseteq Addresses
BY BytesAre DEF ReadsAt, WritesAt, GroupsAt

(* The executions are counted by a number, one block more counts if it     *)
(* executes the instruction.                                               *)
LEMMA RunsMore ==
  ASSUME NEW t, NEW i, NEW k \in Nat
  PROVE  /\ IsFiniteSet(Runs(t, i, k)) /\ Cardinality(Runs(t, i, k)) \in Nat
         /\ Cardinality(Runs(t, i, k + 1)) = Cardinality(Runs(t, i, k))
               + (IF Counted(t[k + 1]) /\ I(t[k + 1]) = i THEN 1 ELSE 0)
         /\ \A j \in 0 .. k : Runs(t, i, j) \subseteq Runs(t, i, k)
         /\ Runs(t, i, 0) = {}
<1>1. IsFiniteSet(1 .. k)
  BY FS_Interval
<1>2. Runs(t, i, k) \subseteq 1 .. k /\ k + 1 \notin Runs(t, i, k)
  BY DEF Runs
<1>3. IsFiniteSet(Runs(t, i, k)) /\ Cardinality(Runs(t, i, k)) \in Nat
  BY <1>1, <1>2, FS_Subset, FS_CardinalityType
<1>4. PICK e \in Nat : e = k + 1
  OBVIOUS
<1>7. (\A j \in 0 .. k : Runs(t, i, j) \subseteq Runs(t, i, k)) /\ Runs(t, i, 0) = {}
  BY DEF Runs
<1>5. CASE Counted(t[e]) /\ I(t[e]) = i
  <2>1. Runs(t, i, e) = Runs(t, i, k) \cup {e}
    BY <1>4, <1>5 DEF Runs
  <2>2. Cardinality(Runs(t, i, e)) = Cardinality(Runs(t, i, k)) + 1
    BY <1>2, <1>3, <1>4, <2>1, FS_AddElement
  <2> QED
    BY <1>3, <1>4, <1>5, <1>7, <2>2
<1>6. CASE ~(Counted(t[e]) /\ I(t[e]) = i)
  <2>1. Runs(t, i, e) = Runs(t, i, k)
    BY <1>4, <1>6 DEF Runs
  <2> QED
    BY <1>3, <1>4, <1>6, <1>7, <2>1
<1> QED
  BY <1>5, <1>6

(* A dynamic instruction.                                                  *)
LEMMA ForwardTyped ==
  ASSUME NEW t \in Seq(Blocks), NEW k \in 1 .. Len(t)
  PROVE  /\ ForwardAt(t, k) \in Writers
         /\ I(t[k]) \in Tids \X DOMAIN SSADependencies
<1>1. t[k].tid \in Tids /\ t[k].ins \in DOMAIN SSADependencies
  BY BlockAssumption
<1>2. Cardinality(Runs(t, I(t[k]), k - 1)) \in Nat
  BY RunsMore, k - 1 \in Nat
<1> QED
  BY <1>1, <1>2 DEF ForwardAt, DynamicInst, Writers, I

(* No two blocks are the same dynamic instruction.                         *)
LEMMA ForwardDiffers ==
  ASSUME NEW t \in Seq(Blocks), NEW k \in 1 .. Len(t), NEW j \in 1 .. k - 1, Counted(t[j])
  PROVE  ForwardAt(t, j) # ForwardAt(t, k)
<1> SUFFICES ASSUME ForwardAt(t, j) = ForwardAt(t, k) PROVE FALSE
  OBVIOUS
<1> DEFINE i == I(t[j])
           cj == Cardinality(Runs(t, I(t[j]), j - 1))
           ck == Cardinality(Runs(t, I(t[k]), k - 1))
<1>0. DynamicInst(t[j].tid, t[j].ins, cj) = DynamicInst(t[k].tid, t[k].ins, ck)
  BY DEF ForwardAt
<1>1. I(t[k]) = i /\ Cardinality(Runs(t, i, j - 1)) = Cardinality(Runs(t, i, k - 1))
  <2>1. t[j].tid = t[k].tid /\ t[j].ins = t[k].ins /\ cj = ck
    <3> HIDE DEF cj, ck
    <3> QED
      BY <1>0 DEF DynamicInst
  <2>2. I(t[k]) = I(t[j])
    BY <2>1 DEF I
  <2> QED
    BY <2>1, <2>2
<1> HIDE DEF cj, ck
<1>2. PICK h \in Nat : h = j - 1 /\ h + 1 = j
  OBVIOUS
<1>3. PICK l \in Nat : l = k - 1 /\ j \in 0 .. l
  OBVIOUS
<1> HIDE DEF i
<1>4. Cardinality(Runs(t, i, j)) = Cardinality(Runs(t, i, h)) + 1 /\ Cardinality(Runs(t, i, h)) \in Nat
  BY <1>2, RunsMore DEF i
<1>5. Cardinality(Runs(t, i, j)) <= Cardinality(Runs(t, i, l))
  <2>1. Runs(t, i, j) \subseteq Runs(t, i, l) /\ IsFiniteSet(Runs(t, i, l))
    BY <1>3, RunsMore
  <2> QED
    BY <2>1, FS_Subset
<1>6. Cardinality(Runs(t, i, h)) = Cardinality(Runs(t, i, l))
  BY <1>1, <1>2, <1>3
<1> QED
  BY <1>4, <1>5, <1>6

(* A pair is a block that reads an address, and the last writer of it.     *)
LEMMA PairsIs ==
  ASSUME NEW A, NEW t, NEW n \in Nat, NEW p
  PROVE  p \in PairsAt(A, t, n) <=>
             \E k \in 1 .. n : \E a \in ReadsAt(A, t[k]) :
                 /\ WriterAt(A, t, a, k) # 0
                 /\ p = <<ForwardAt(t, k), ForwardAt(t, WriterAt(A, t, a, k))>>
<1>1. ASSUME NEW k \in 1 .. n, NEW a, WriterAt(A, t, a, k) # 0 PROVE WriterAt(A, t, a, k) \in 1 .. n
  <2> DEFINE w == WriterAt(A, t, a, k)
  <2>1. w \in 1 .. k - 1
    BY <1>1, WriterIs
  <2> HIDE DEF w
  <2>2. w \in 1 .. n
    BY <2>1
  <2> QED
    BY <2>2 DEF w
<1>2. ASSUME NEW k \in 1 .. n, NEW a \in ReadsAt(A, t[k]), WriterAt(A, t, a, k) # 0,
             p = <<ForwardAt(t, k), ForwardAt(t, WriterAt(A, t, a, k))>>
      PROVE  p \in PairsAt(A, t, n)
  <2> DEFINE q == <<k, WriterAt(A, t, a, k)>>
  <2>1. q \in (1 .. n) \X (1 .. n) /\ q[1] = k /\ q[2] = WriterAt(A, t, a, k)
    BY <1>1, <1>2
  <2> QED
    BY <1>2, <2>1 DEF PairsAt
<1>3. ASSUME p \in PairsAt(A, t, n)
      PROVE  \E k \in 1 .. n : \E a \in ReadsAt(A, t[k]) :
                 /\ WriterAt(A, t, a, k) # 0
                 /\ p = <<ForwardAt(t, k), ForwardAt(t, WriterAt(A, t, a, k))>>
  <2>1. PICK q \in (1 .. n) \X (1 .. n) :
            /\ \E a \in ReadsAt(A, t[q[1]]) : WriterAt(A, t, a, q[1]) = q[2]
            /\ p = <<ForwardAt(t, q[1]), ForwardAt(t, q[2])>>
    BY <1>3 DEF PairsAt
  <2>2. q[1] \in 1 .. n /\ q[2] # 0
    BY <2>1
  <2> QED
    BY <2>1, <2>2
<1> QED
  BY <1>2, <1>3

(* The tree holds the dynamic instruction that wrote an address last.      *)
Remembers(A, t, n, store) ==
    \A a \in Addresses :
        At(store, a) = IF WriterAt(A, t, a, n + 1) = 0 THEN Empty
                       ELSE Covered(ForwardAt(t, WriterAt(A, t, a, n + 1)))

(* The last writer is a counted block before the reader.                   *)
LEMMA WriterCounted ==
  ASSUME NEW A, NEW t \in Seq(Blocks), NEW k \in 1 .. Len(t), NEW a, WriterAt(A, t, a, k) # 0
  PROVE  /\ WriterAt(A, t, a, k) \in 1 .. k - 1
         /\ ForwardAt(t, WriterAt(A, t, a, k)) # ForwardAt(t, k)
         /\ ForwardAt(t, WriterAt(A, t, a, k)) \in Writers
<1> DEFINE w == WriterAt(A, t, a, k)
<1>1. w \in 1 .. k - 1 /\ a \in WritesAt(A, t[w])
  BY WriterIs
<1> HIDE DEF w
<1>2. w \in 1 .. Len(t) /\ t[w] \in Blocks
  BY <1>1
<1>3. Counted(t[w])
  BY <1>1, <1>2, AccessIsCounted
<1> QED
  BY <1>1, <1>2, <1>3, ForwardDiffers, ForwardTyped DEF w

(* No block depends on itself.                                             *)
LEMMA PairsProper ==
  ASSUME NEW A, NEW t \in Seq(Blocks), NEW n \in 0 .. Len(t), NEW p \in PairsAt(A, t, n)
  PROVE  p[1] # p[2] /\ p \in Writers \X Writers
<1>1. PICK k \in 1 .. n : \E a \in ReadsAt(A, t[k]) :
                 /\ WriterAt(A, t, a, k) # 0
                 /\ p = <<ForwardAt(t, k), ForwardAt(t, WriterAt(A, t, a, k))>>
  BY PairsIs
<1>2. PICK a : /\ WriterAt(A, t, a, k) # 0
               /\ p = <<ForwardAt(t, k), ForwardAt(t, WriterAt(A, t, a, k))>>
  BY <1>1
<1>3. k \in 1 .. Len(t)
  OBVIOUS
<1>4. ForwardAt(t, k) \in Writers
  BY <1>3, ForwardTyped
<1> QED
  BY <1>2, <1>3, <1>4, WriterCounted

(* One block more: it depends on what is found for the addresses it reads. *)
LEMMA PairsMore ==
  ASSUME NEW A, NEW t \in Seq(Blocks), NEW n \in Nat, n + 1 \in 1 .. Len(t), NEW store,
         Remembers(A, t, n, store)
  PROVE  /\ PairsAt(A, t, n + 1) =
                PairsAt(A, t, n) \cup Found(store, ForwardAt(t, n + 1), ReadsAt(A, t[n + 1]))
         /\ \A a \in Addresses : At(store, a) # Covered(ForwardAt(t, n + 1))
<1>0. PICK k \in 1 .. Len(t) : k = n + 1 /\ k \in Nat /\ t[k] \in Blocks
  OBVIOUS
<1> DEFINE me == ForwardAt(t, k)
           R == ReadsAt(A, t[k])
<1>1. \A j : j \in 1 .. k <=> j \in 1 .. n \/ j = k
  BY <1>0
<1>2. R \subseteq Addresses
  BY <1>0, AccessAddresses
<1>3. \A a \in Addresses : At(store, a) = IF WriterAt(A, t, a, k) = 0 THEN Empty
                                          ELSE Covered(ForwardAt(t, WriterAt(A, t, a, k)))
  BY <1>0 DEF Remembers
<1>4. \A p : p \in PairsAt(A, t, k) <=>
                 p \in PairsAt(A, t, n) \/ \E a \in R :
                     /\ WriterAt(A, t, a, k) # 0
                     /\ p = <<me, ForwardAt(t, WriterAt(A, t, a, k))>>
  BY <1>0, <1>1, PairsIs
<1> HIDE DEF me, R
<1>5. ASSUME NEW p, NEW a \in R
      PROVE  (At(store, a) # Empty /\ p = <<me, At(store, a).value>>) <=>
                 (WriterAt(A, t, a, k) # 0 /\ p = <<me, ForwardAt(t, WriterAt(A, t, a, k))>>)
  BY <1>2, <1>3, KindsDiffer
<1>6. \A p : p \in PairsAt(A, t, k) <=> p \in PairsAt(A, t, n) \/ p \in Found(store, me, R)
  BY <1>4, <1>5, FoundIs
<1>7. ASSUME NEW a \in Addresses PROVE At(store, a) # Covered(me)
  <2>1. CASE WriterAt(A, t, a, k) = 0
    BY <1>3, <2>1, KindsDiffer
  <2>2. CASE WriterAt(A, t, a, k) # 0
    <3>1. ForwardAt(t, WriterAt(A, t, a, k)) # me
      BY <2>2, WriterCounted DEF me
    <3>2. Covered(ForwardAt(t, WriterAt(A, t, a, k))).value # Covered(me).value
      BY <3>1, KindsDiffer
    <3> QED
      BY <1>3, <2>2, <3>2
  <2> QED
    BY <2>1, <2>2
<1>8. PairsAt(A, t, k) = PairsAt(A, t, n) \cup Found(store, me, R)
  BY <1>6
<1> QED
  BY <1>0, <1>7, <1>8 DEF me, R

-----------------------------------------------------------------------------
(* The invariant of the dependencies, of the first n blocks of t           *)

(* How often i has been executed.                                          *)
Times(count, i) == IF i \in DOMAIN count THEN count[i] ELSE 0

(* Every count is that of the executions.                                  *)
Counts(t, n, count) ==
    \A i \in Tids \X DOMAIN SSADependencies : Times(count, i) = Cardinality(Runs(t, i, n))

(* What has been found are the dependencies, and itself for a call of more *)
(* than one argument.                                                      *)
Finds(A, t, n, dep) ==
    /\ dep \subseteq Writers \X Writers
    /\ Proper(dep) = PairsAt(A, t, n)
    /\ \A p \in dep \ Proper(dep) :
          \E k \in 1 .. n : IsCall(t[k]) /\ I(t[k]) = <<p[1].TID, p[1].ID>> /\ Len(t[k].args) > 1

DependInv(A, t, n, store, count, dep) ==
    /\ n \in 0 .. Len(t)
    /\ store \in JoinedTrees
    /\ Remembers(A, t, n, store)
    /\ Counts(t, n, count)
    /\ Finds(A, t, n, dep)

(* What one more block, executed as me, does to the tree and to the pairs. *)
Records(A, b, me, store, dep, newStore, newDep) ==
    /\ newStore \in JoinedTrees
    /\ \A a \in Addresses :
          At(newStore, a) = IF a \in WritesAt(A, b) THEN Covered(me) ELSE At(store, a)
    /\ newDep \cup {<<me, me>>} = dep \cup Found(store, me, ReadsAt(A, b)) \cup {<<me, me>>}
    /\ ~(IsCall(b) /\ Len(b.args) > 1) => newDep = dep \cup Found(store, me, ReadsAt(A, b))

(* Nothing has been read at the start.                                     *)
LEMMA DependInvStart ==
  ASSUME NEW A, NEW t \in Seq(Blocks)
  PROVE  DependInv(A, t, 0, NewTree, <<>>, {})
<1>1. 0 \in 0 .. Len(t)
  OBVIOUS
<1>2. NewTree \in JoinedTrees
  BY NewTreeEmpty, JoinedIs
<1>3. Remembers(A, t, 0, NewTree)
  <2> SUFFICES ASSUME NEW a \in Addresses
               PROVE  WriterAt(A, t, a, 0 + 1) = 0 /\ At(NewTree, a) = Empty
    BY DEF Remembers
  <2>1. WriterAt(A, t, a, 1) = 0
    BY WriterIs
  <2>2. At(NewTree, a) = Empty
    <3> DEFINE V == Writers
    <3> HIDE DEF V
    <3> QED
      BY NewTreeEmpty
  <2> QED
    BY <2>1, <2>2
<1>4. Counts(t, 0, <<>>)
  <2> SUFFICES ASSUME NEW i PROVE Times(<<>>, i) = Cardinality(Runs(t, i, 0))
    BY DEF Counts
  <2>1. Runs(t, i, 0) = {}
    BY RunsMore
  <2>2. i \notin DOMAIN <<>>
    <3>1. DOMAIN <<>> = 1 .. 0
      OBVIOUS
    <3> QED
      BY <3>1
  <2>3. Times(<<>>, i) = 0
    BY <2>2, Zenon DEF Times
  <2> QED
    BY <2>1, <2>3, FS_EmptySet
<1>5. Finds(A, t, 0, {})
  <2>1. \A p : p \notin PairsAt(A, t, 0)
    BY PairsIs
  <2> QED
    BY <2>1 DEF Finds, Proper
<1> QED
  BY <1>1, <1>2, <1>3, <1>4, <1>5 DEF DependInv

(* What one more block does to the counts.                                 *)
CountsOne(b, count, newCount) ==
    \A i \in Tids \X DOMAIN SSADependencies :
        Times(newCount, i) = Times(count, i) + (IF Counted(b) /\ I(b) = i THEN 1 ELSE 0)

(* What has been found after one more block.                               *)
LEMMA FindsMore ==
  ASSUME NEW A, NEW t \in Seq(Blocks), NEW n \in Nat, n + 1 \in 1 .. Len(t),
         NEW store, NEW dep, IsTree(store, Writers), Remembers(A, t, n, store), Finds(A, t, n, dep),
         NEW newStore, NEW newDep,
         Records(A, t[n + 1], ForwardAt(t, n + 1), store, dep, newStore, newDep)
  PROVE  Finds(A, t, n + 1, newDep)
<1>0. PICK e \in 1 .. Len(t) : e = n + 1 /\ e \in Nat /\ t[e] \in Blocks /\ e \in 0 .. Len(t)
  OBVIOUS
<1> DEFINE b == t[e]
           me == ForwardAt(t, e)
           q == <<me, me>>
           F == Found(store, me, ReadsAt(A, b))
           many == IsCall(b) /\ Len(b.args) > 1
<1>1. me \in Writers /\ I(b) = <<me.TID, me.ID>>
  BY <1>0, ForwardTyped DEF ForwardAt, DynamicInst, I
<1>2. F \subseteq Writers \X Writers
  <2> HIDE DEF me
  <2> QED
    BY <1>0, <1>1, AccessAddresses, FoundPairs
<1>3. PairsAt(A, t, e) = PairsAt(A, t, n) \cup F /\ \A a \in Addresses : At(store, a) # Covered(me)
  BY <1>0, PairsMore
<1>4. \A p \in PairsAt(A, t, e) : p[1] # p[2]
  BY <1>0, PairsProper
<1>5. newDep \cup {q} = dep \cup F \cup {q} /\ (~many => newDep = dep \cup F)
  BY <1>0 DEF Records
<1>6. dep \subseteq Writers \X Writers /\ Proper(dep) = PairsAt(A, t, n)
  BY DEF Finds
<1>7. q[1] = q[2] /\ q \in Writers \X Writers /\ q[1] = me
  BY <1>1
<1> HIDE DEF me, F, b, many, q
<1>8. newDep \subseteq Writers \X Writers
  BY <1>2, <1>5, <1>6, <1>7
<1>9. Proper(newDep) = PairsAt(A, t, e)
  <2>1. \A p : p[1] # p[2] => (p \in newDep <=> p \in dep \/ p \in F)
    BY <1>5, <1>7
  <2>2. \A p : p \in Proper(newDep) <=> p[1] # p[2] /\ (p \in dep \/ p \in F)
    BY <2>1 DEF Proper
  <2>3. \A p : p \in PairsAt(A, t, n) <=> p \in dep /\ p[1] # p[2]
    BY <1>6 DEF Proper
  <2>4. \A p : p \in Proper(newDep) <=> p \in PairsAt(A, t, e)
    BY <1>3, <1>4, <2>2, <2>3
  <2> QED
    BY <2>4
<1>10. ASSUME NEW p \in newDep, p \notin Proper(newDep)
       PROVE  \E k \in 1 .. e : IsCall(t[k]) /\ I(t[k]) = <<p[1].TID, p[1].ID>> /\ Len(t[k].args) > 1
  <2>1. p[1] = p[2]
    BY <1>10 DEF Proper
  <2>2. p \notin F
    BY <1>3, <1>4, <2>1
  <2>3. CASE p \in dep
    <3>1. p \notin Proper(dep)
      BY <2>1 DEF Proper
    <3>2. \E k \in 1 .. n : IsCall(t[k]) /\ I(t[k]) = <<p[1].TID, p[1].ID>> /\ Len(t[k].args) > 1
      BY <2>3, <3>1 DEF Finds
    <3> QED
      BY <1>0, <3>2
  <2>4. CASE p \notin dep
    <3>1. p = q /\ many
      BY <1>5, <1>10, <2>2, <2>4
    <3>2. I(b) = <<p[1].TID, p[1].ID>>
      BY <1>1, <1>7, <3>1
    <3> QED
      BY <1>0, <3>1, <3>2 DEF many, b
  <2> QED
    BY <2>3, <2>4
<1> QED
  BY <1>0, <1>8, <1>9, <1>10 DEF Finds

(* One more block keeps the invariant.                                     *)
LEMMA DependInvMore ==
  ASSUME NEW A, NEW t \in Seq(Blocks), NEW n \in Nat, n + 1 \in 1 .. Len(t),
         NEW store, NEW count, NEW dep, DependInv(A, t, n, store, count, dep),
         NEW newStore, NEW newCount, NEW newDep,
         Records(A, t[n + 1], ForwardAt(t, n + 1), store, dep, newStore, newDep),
         CountsOne(t[n + 1], count, newCount)
  PROVE  DependInv(A, t, n + 1, newStore, newCount, newDep)
<1>0. PICK e \in 1 .. Len(t) : e = n + 1 /\ e \in Nat /\ t[e] \in Blocks /\ e \in 0 .. Len(t) /\ e > 0
  OBVIOUS
<1>1. IsTree(store, Writers) /\ Remembers(A, t, n, store) /\ Finds(A, t, n, dep) /\ Counts(t, n, count)
  BY JoinedIs DEF DependInv
<1>2. Finds(A, t, e, newDep)
  BY <1>0, <1>1, FindsMore
<1>3. newStore \in JoinedTrees
  BY DEF Records
<1>4. Remembers(A, t, e, newStore)
  <2> SUFFICES ASSUME NEW a \in Addresses
               PROVE  At(newStore, a) = IF WriterAt(A, t, a, e + 1) = 0 THEN Empty
                                        ELSE Covered(ForwardAt(t, WriterAt(A, t, a, e + 1)))
    BY DEF Remembers
  <2>1. At(newStore, a) = IF a \in WritesAt(A, t[e]) THEN Covered(ForwardAt(t, e)) ELSE At(store, a)
    BY <1>0 DEF Records
  <2>2. WriterAt(A, t, a, e + 1) = IF a \in WritesAt(A, t[e]) THEN e ELSE WriterAt(A, t, a, e)
    BY <1>0, WriterMore
  <2>3. At(store, a) = IF WriterAt(A, t, a, e) = 0 THEN Empty
                       ELSE Covered(ForwardAt(t, WriterAt(A, t, a, e)))
    BY <1>0, <1>1 DEF Remembers
  <2> QED
    BY <1>0, <2>1, <2>2, <2>3
<1>5. Counts(t, e, newCount)
  <2> SUFFICES ASSUME NEW i \in Tids \X DOMAIN SSADependencies
               PROVE  Times(newCount, i) = Cardinality(Runs(t, i, e))
    BY DEF Counts
  <2>1. Times(count, i) = Cardinality(Runs(t, i, n))
    BY <1>1 DEF Counts
  <2>2. Times(newCount, i) = Times(count, i) + (IF Counted(t[e]) /\ I(t[e]) = i THEN 1 ELSE 0)
    BY <1>0 DEF CountsOne
  <2>3. Cardinality(Runs(t, i, e)) = Cardinality(Runs(t, i, n))
            + (IF Counted(t[e]) /\ I(t[e]) = i THEN 1 ELSE 0)
    <3>1. Cardinality(Runs(t, i, n + 1)) = Cardinality(Runs(t, i, n))
            + (IF Counted(t[n + 1]) /\ I(t[n + 1]) = i THEN 1 ELSE 0)
      BY RunsMore
    <3> QED
      BY <1>0, <3>1
  <2> QED
    BY <2>1, <2>2, <2>3
<1> QED
  BY <1>0, <1>2, <1>3, <1>4, <1>5 DEF DependInv

-----------------------------------------------------------------------------
(* The steps of ExtractMemoryDependency                                    *)

(* A count that has been raised.                                           *)
LEMMA CountRaised ==
  ASSUME NEW b, NEW count, NEW new, new = With(count, I(b), Times(count, I(b)) + 1), Counted(b),
         \A i \in Tids \X DOMAIN SSADependencies : Times(count, i) \in Nat
  PROVE  CountsOne(b, count, new)
<1> SUFFICES ASSUME NEW i \in Tids \X DOMAIN SSADependencies
             PROVE  Times(new, i) = Times(count, i) + (IF I(b) = i THEN 1 ELSE 0)
  BY DEF CountsOne
<1>1. DOMAIN new = DOMAIN count \cup {I(b)}
  BY DEF With
<1>2. new[I(b)] = Times(count, I(b)) + 1
  BY DEF With
<1>3. i # I(b) /\ i \in DOMAIN count => new[i] = count[i]
  BY DEF With
<1>4. CASE i = I(b)
  BY <1>1, <1>2, <1>4 DEF Times
<1>5. CASE i # I(b)
  <2>1. Times(count, i) \in Nat
    OBVIOUS
  <2>2. Times(new, i) = Times(count, i)
    BY <1>1, <1>3, <1>5 DEF Times
  <2> QED
    BY <1>5, <2>1, <2>2
<1> QED
  BY <1>4, <1>5

(* A block that neither reads nor writes.                                  *)
LEMMA RecordsNothing ==
  ASSUME NEW A, NEW b, NEW me, NEW store \in JoinedTrees, NEW dep,
         ReadsAt(A, b) = {}, WritesAt(A, b) = {}
  PROVE  Records(A, b, me, store, dep, store, dep)
<1>1. Found(store, me, ReadsAt(A, b)) = {}
  BY DEF Found
<1> QED
  BY <1>1 DEF Records

(* The block that is read, as what it is executed.                         *)
LEMMA InstIs ==
  ASSUME block_trace \in Seq(Blocks), read \in Nat, read + 1 \in 1 .. Len(block_trace),
         Counts(block_trace, read, ins_count)
  PROVE  /\ Inst(block_trace[read + 1]) = ForwardAt(block_trace, read + 1)
         /\ Inst(block_trace[read + 1]) \in Writers
         /\ \A i : Executed(i) = Times(ins_count, i)
<1> DEFINE t == block_trace
<1>1. PICK e \in 1 .. Len(t) : e = read + 1 /\ e - 1 = read
  OBVIOUS
<1>2. I(t[e]) \in Tids \X DOMAIN SSADependencies /\ ForwardAt(t, e) \in Writers
  BY ForwardTyped
<1>3. \A i : Executed(i) = Times(ins_count, i)
  BY DEF Executed, Times
<1>4. Executed(I(t[e])) = Cardinality(Runs(t, I(t[e]), read))
  BY <1>2, <1>3 DEF Counts
<1>5. Inst(t[e]) = ForwardAt(t, e)
  BY <1>1, <1>4 DEF Inst, ForwardAt
<1> QED
  BY <1>1, <1>2, <1>3, <1>5

(* A block of each kind, without the groups.                               *)
LEMMA PlainRecords ==
  ASSUME NEW A, NEW b \in Blocks, NEW me \in Writers, me = Inst(b), last_store \in JoinedTrees,
         Skip(b) \/ NoAccess(b) \/ Store(b) \/ Load(b) \/ Memmove(b)
  PROVE  Records(A, b, me, last_store, found, last_store', found')
<1>0. /\ b.start \in 0 .. MAX_RANGE /\ b.end \in 0 .. MAX_RANGE
      /\ b.type = "Memmove" => b.source \in Nat /\ SourceEnd(b) <= MAX_RANGE
  BY BlockAssumption
<1>1. MAX_RANGE \in Nat \ {0} /\ Addresses \subseteq Nat /\ IsTree(last_store, Writers)
  BY RangeAssumption, JoinedIs DEF Addresses
<1>2. ~Efficacious(b) => Bytes(b.start, b.end) = {} /\ (b.type = "Memmove" => Bytes(b.source, SourceEnd(b)) = {})
  <2>1. ASSUME NEW l \in Int, NEW r \in Int, l >= r PROVE Bytes(l, r) = {}
    <3> SUFFICES ASSUME NEW a \in Addresses, l <= a, a < r PROVE FALSE
      BY DEF Bytes
    <3>1. a \in Int
      BY <1>1
    <3> QED
      BY <2>1, <3>1
  <2>2. b.start \in Int /\ b.end \in Int /\ (b.type = "Memmove" => b.source \in Int)
    BY <1>0, <1>1
  <2>3. ~Efficacious(b) => b.start >= b.end
    BY <2>2 DEF Efficacious
  <2>4. (~Efficacious(b) /\ b.type = "Memmove") => SourceEnd(b) \in Int /\ b.source >= SourceEnd(b)
    BY <2>2, <2>3 DEF SourceEnd
  <2> QED
    BY <2>1, <2>2, <2>3, <2>4
<1>3. CASE Skip(b) \/ NoAccess(b)
  <2>1. ReadsAt(A, b) = {} /\ WritesAt(A, b) = {}
    BY <1>2, <1>3 DEF Skip, NoAccess, Ignored, ReadsAt, WritesAt, IsCall
  <2>2. UNCHANGED <<last_store, found>>
    BY <1>3 DEF Skip, NoAccess
  <2> QED
    BY <2>1, <2>2, RecordsNothing
<1>4. CASE Store(b)
  <2>1. /\ ReadsAt(A, b) = {} /\ WritesAt(A, b) = Bytes(b.start, b.end) /\ ~IsCall(b)
        /\ last_store' = Set(last_store, b.start, b.end, me) /\ found' = found
    BY <1>4 DEF Store, ReadsAt, WritesAt, IsCall
  <2>2. Found(last_store, me, {}) = {}
    BY DEF Found
  <2>3. /\ last_store' \in JoinedTrees
        /\ \A a \in Addresses : At(last_store', a) =
              IF a \in Bytes(b.start, b.end) THEN Covered(me) ELSE At(last_store, a)
    BY <1>0, <2>1, SetJoined
  <2> QED
    BY <2>1, <2>2, <2>3 DEF Records
<1>5. CASE Load(b)
  <2>1. /\ WritesAt(A, b) = {} /\ ReadsAt(A, b) = Bytes(b.start, b.end) /\ ~IsCall(b)
        /\ found' = found \cup LastWrites(last_store, me, b.start, b.end) /\ last_store' = last_store
        /\ b.start < b.end
    BY <1>5 DEF Load, ReadsAt, WritesAt, IsCall, Efficacious
  <2>2. LastWrites(last_store, me, b.start, b.end) = Found(last_store, me, Bytes(b.start, b.end))
    BY <1>0, <1>1, <2>1, LastWritesAre
  <2>3. found' = found \cup Found(last_store, me, ReadsAt(A, b))
    BY <2>1, <2>2
  <2> QED
    BY <2>1, <2>3 DEF Records
<1>6. CASE Memmove(b)
  <2>1. /\ WritesAt(A, b) = Bytes(b.start, b.end) /\ ReadsAt(A, b) = Bytes(b.source, SourceEnd(b))
        /\ ~IsCall(b)
        /\ found' = found \cup LastWrites(last_store, me, b.source, SourceEnd(b))
        /\ last_store' = Set(last_store, b.start, b.end, me)
        /\ b.start < b.end /\ b.type = "Memmove"
    BY <1>6 DEF Memmove, ReadsAt, WritesAt, IsCall, Efficacious
  <2>2. b.source \in Nat /\ SourceEnd(b) \in Int /\ b.source < SourceEnd(b) /\ SourceEnd(b) <= MAX_RANGE
    BY <1>0, <1>1, <2>1 DEF SourceEnd
  <2>3. LastWrites(last_store, me, b.source, SourceEnd(b)) =
            Found(last_store, me, Bytes(b.source, SourceEnd(b)))
    BY <1>1, <2>2, LastWritesAre
  <2>4. found' = found \cup Found(last_store, me, ReadsAt(A, b))
    BY <2>1, <2>3
  <2>5. /\ last_store' \in JoinedTrees
        /\ \A a \in Addresses : At(last_store', a) =
              IF a \in WritesAt(A, b) THEN Covered(me) ELSE At(last_store, a)
    BY <1>0, <2>1, SetJoined
  <2> QED
    BY <2>1, <2>4, <2>5 DEF Records
<1> QED
  BY <1>3, <1>4, <1>5, <1>6

(* A call.                                                                 *)
LEMMA CallRecords ==
  ASSUME GroupInv, NEW b \in Blocks, Inst(b) \in Writers, last_store \in JoinedTrees,
         found \subseteq Writers \X Writers,
         \A a \in ToSet(b.args) : At(groups.Addr2Group, a) # Empty,
         ExternalCall(b)
  PROVE  Records(groups.Addr2Group, b, Inst(b), last_store, found, last_store', found')
<1> DEFINE o == [store |-> last_store, dep |-> found]
           m == CallAccess(b)
           A == groups.Addr2Group
           me == Inst(b)
           S == GroupsOf(b)
           few == Len(b.args) <= 1
<1>1. last_store' = m.store /\ found' = m.dep
  BY Zenon DEF ExternalCall, CallAccess, IsCallAccess
<1>2. IsCall(b) /\ b.args \in Seq(Addresses) /\ (few <=> ~(Len(b.args) > 1))
  BY BlockAssumption DEF ExternalCall
<1>3. o \in Mems
  BY DEF Mems
<1>4. Accessed(m, o, S, me, few)
  BY <1>2, <1>3, CallAccessOK
<1>5. ReadsAt(A, b) = S /\ WritesAt(A, b) = S
  <2>1. GroupsAt(A, b) = S
    BY DEF GroupsAt, GroupsOf, GroupOf
  <2> QED
    BY <1>2, <2>1 DEF ReadsAt, WritesAt, IsCall
<1>6. o.store = last_store /\ o.dep = found
  OBVIOUS
<1> HIDE DEF o, m, S, me, few, A
<1>7. m.store \in JoinedTrees
  BY <1>4 DEF Accessed, Mems
<1>8. Records(A, b, me, last_store, found, m.store, m.dep)
  BY <1>2, <1>4, <1>5, <1>6, <1>7 DEF Records, Accessed
<1> QED
  BY <1>1, <1>8 DEF A, me

(* The invariant of both passes.                                           *)
DependenceInv ==
    /\ GroupInv
    /\ read \in 0 .. Len(block_trace)
    /\ DependInv(groups.Addr2Group, block_trace, read, last_store, ins_count, found)
    /\ phase \in {"MergeTrace", "GroupMemory"} =>
           read = 0 /\ last_store = NewTree /\ ins_count = <<>> /\ found = {}
    /\ phase = "PreparePostDominator" =>
           /\ read = Len(block_trace)
           /\ mem_dep = {<<Renumber(p[1]), Renumber(p[2])>> : p \in found}

(* It holds at the start.                                                  *)
LEMMA DependenceInit == Init => DependenceInv
<1> SUFFICES ASSUME Init PROVE DependenceInv
  OBVIOUS
<1>1. GroupInv
  BY GroupInvInit
<1>2. /\ block_trace \in Seq(Blocks) /\ read = 0 /\ last_store = NewTree /\ ins_count = <<>> /\ found = {}
      /\ phase = "MergeTrace"
  BY <1>1 DEF Init, GroupInv
<1>3. read \in 0 .. Len(block_trace)
  BY <1>2
<1>4. DependInv(groups.Addr2Group, block_trace, read, last_store, ins_count, found)
  BY <1>2, DependInvStart
<1> QED
  BY <1>1, <1>2, <1>3, <1>4 DEF DependenceInv

(* Every block that is read keeps it.                                      *)
LEMMA DependenceDepend ==
  ASSUME DependenceInv, GroupInv', Depend
  PROVE  DependenceInv'
<1> DEFINE t == block_trace
           n == read
           A == groups.Addr2Group
<1>0. PICK b : /\ n < Len(t) /\ b = t[n + 1]
               /\ NoAccess(b) \/ Skip(b) \/ Store(b) \/ Load(b) \/ Memmove(b) \/ ExternalCall(b)
  BY DEF Depend
<1>1. ReadBlock(b) /\ (NoAccess(b) \/ Count(b))
  BY <1>0 DEF NoAccess, Skip, Store, Load, Memmove, ExternalCall, Count
<1>2. /\ phase = "ExtractMemoryDependency" /\ read' = read + 1
      /\ UNCHANGED <<block_trace, groups, left, crashed, phase, mem_dep>>
  BY <1>1 DEF ReadBlock, groupVars
<1>3. t \in Seq(Blocks) /\ n \in Nat /\ n + 1 \in 1 .. Len(t) /\ b \in Blocks
  <2>1. t \in Seq(Blocks) /\ n \in 0 .. Len(t) /\ Len(t) \in Nat
    BY DEF DependenceInv, GroupInv
  <2>2. n + 1 \in 1 .. Len(t)
    BY <1>0, <2>1
  <2> QED
    BY <1>0, <2>1, <2>2
<1>4. DependInv(A, t, n, last_store, ins_count, found) /\ GroupInv
  BY DEF DependenceInv
<1>5. Counts(t, n, ins_count) /\ last_store \in JoinedTrees /\ found \subseteq Writers \X Writers
  BY <1>4 DEF DependInv, Finds
<1>6. Inst(b) = ForwardAt(t, n + 1) /\ Inst(b) \in Writers /\ Executed(I(b)) = Times(ins_count, I(b))
  BY <1>0, <1>3, <1>5, InstIs
<1>7. CountsOne(b, ins_count, ins_count')
  <2>1. ASSUME NEW i \in Tids \X DOMAIN SSADependencies PROVE Times(ins_count, i) \in Nat
    BY <1>3, <1>5, RunsMore DEF Counts
  <2>2. CASE NoAccess(b)
    <3>1. ~Counted(b) /\ ins_count' = ins_count
      BY <2>2 DEF NoAccess, Counted
    <3> QED
      BY <2>1, <3>1 DEF CountsOne
  <2>3. CASE ~NoAccess(b)
    <3>1. Counted(b)
      BY <1>0, <2>3 DEF Skip, Ignored, Store, Load, Memmove, ExternalCall, IsCall, Counted
    <3>2. ins_count' = With(ins_count, I(b), Times(ins_count, I(b)) + 1)
      BY <1>1, <1>6, <2>3 DEF Count
    <3> QED
      BY <2>1, <3>1, <3>2, CountRaised
  <2> QED
    BY <2>2, <2>3
<1>8. Records(A, b, ForwardAt(t, n + 1), last_store, found, last_store', found')
  <2>1. CASE ExternalCall(b)
    <3>1. IsCall(b) /\ n + 1 \in left + 1 .. Len(t)
      BY <1>2, <1>3, <1>4, <2>1 DEF ExternalCall, GroupInv
    <3>2. \A a \in ToSet(b.args) : At(A, a) # Empty
      BY <1>0, <1>4, <3>1 DEF GroupInv
    <3> QED
      BY <1>3, <1>4, <1>5, <1>6, <2>1, <3>2, CallRecords
  <2>2. CASE Skip(b) \/ NoAccess(b) \/ Store(b) \/ Load(b) \/ Memmove(b)
    BY <1>3, <1>5, <1>6, <2>2, PlainRecords
  <2> QED
    BY <1>0, <2>1, <2>2
<1>9. DependInv(A, t, n + 1, last_store', ins_count', found')
  <2> HIDE DEF t, n, A
  <2> QED
    BY <1>0, <1>3, <1>4, <1>7, <1>8, DependInvMore
<1>10. DependInv(A, t, n, last_store, ins_count, found)'
  BY <1>2, <1>9
<1>11. read' \in 0 .. Len(block_trace')
  BY <1>2, <1>3
<1> QED
  BY <1>2, <1>10, <1>11 DEF DependenceInv

(* And every other step.                                                   *)
LEMMA DependenceNext == DependenceInv /\ [Next]_vars => DependenceInv'
<1> SUFFICES ASSUME DependenceInv, [Next]_vars PROVE DependenceInv'
  OBVIOUS
<1>0. GroupInv /\ GroupInv'
  BY GroupInvNext DEF DependenceInv
<1>1. ASSUME phase \in {"MergeTrace", "GroupMemory"}, phase' \in {"MergeTrace", "GroupMemory", "ExtractMemoryDependency"},
             UNCHANGED dependVars
      PROVE  DependenceInv'
  <2>1. read = 0 /\ last_store = NewTree /\ ins_count = <<>> /\ found = {}
    BY <1>1 DEF DependenceInv
  <2>2. read' = 0 /\ last_store' = NewTree /\ ins_count' = <<>> /\ found' = {}
    BY <1>1, <2>1 DEF dependVars
  <2>3. block_trace' \in Seq(Blocks)
    BY <1>0 DEF GroupInv
  <2>4. DependInv((groups').Addr2Group, block_trace', 0, NewTree, <<>>, {})
    BY <2>3, DependInvStart
  <2>5. DependInv(groups.Addr2Group, block_trace, read, last_store, ins_count, found)'
    BY <2>2, <2>4
  <2>6. read' \in 0 .. Len(block_trace')
    BY <2>2, <2>3
  <2> QED
    BY <1>0, <1>1, <2>2, <2>5, <2>6 DEF DependenceInv
<1>2. CASE Merge
  BY <1>1, <1>2 DEF Merge
<1>3. CASE StartGroup
  BY <1>1, <1>3 DEF StartGroup
<1>4. CASE Group
  BY <1>1, <1>4 DEF Group
<1>5. CASE StartDepend
  BY <1>1, <1>5 DEF StartDepend
<1>6. CASE Depend
  BY <1>0, <1>6, DependenceDepend
<1>7. CASE Finish
  <2>1. /\ phase' = "PreparePostDominator" /\ read = Len(block_trace)
        /\ UNCHANGED <<block_trace, groups, read, last_store, ins_count, found>>
        /\ mem_dep' = {<<Renumber(p[1]), Renumber(p[2])>> : p \in found}
    BY <1>7 DEF Finish, groupVars
  <2>2. DependInv(groups.Addr2Group, block_trace, read, last_store, ins_count, found)'
    BY <2>1 DEF DependenceInv
  <2>4. mem_dep' = {<<Renumber(p[1]), Renumber(p[2])>> : p \in found}'
    BY <2>1 DEF Renumber
  <2>5. (read \in 0 .. Len(block_trace))'
    BY <2>1 DEF DependenceInv
  <2> QED
    BY <1>0, <2>1, <2>2, <2>4, <2>5 DEF DependenceInv
<1>8. CASE UNCHANGED vars
  <2>1. UNCHANGED <<block_trace, groups, left, crashed, phase, read, last_store, ins_count, found, mem_dep>>
    BY <1>8 DEF vars, groupVars, dependVars
  <2>2. DependInv(groups.Addr2Group, block_trace, read, last_store, ins_count, found)'
    BY <2>1 DEF DependenceInv
  <2>3. {<<Renumber(p[1]), Renumber(p[2])>> : p \in found}' = {<<Renumber(p[1]), Renumber(p[2])>> : p \in found}
    BY <2>1 DEF Renumber
  <2> QED
    BY <1>0, <2>1, <2>2, <2>3 DEF DependenceInv
<1> QED
  BY <1>2, <1>3, <1>4, <1>5, <1>6, <1>7, <1>8 DEF Next

(* The dependencies are always in order.                                   *)
LEMMA DependenceAlways == Spec => []DependenceInv
BY DependenceInit, DependenceNext, PTL DEF Spec

-----------------------------------------------------------------------------
(* What the invariant says of the blocks that have been read               *)

(* They are the first ones of the trace.                                   *)
LEMMA TraceIs ==
  ASSUME DependenceInv
  PROVE  /\ block_trace \in Seq(Blocks) /\ read \in Nat /\ read \in 0 .. Len(block_trace)
         /\ trace \in Seq(Blocks) /\ Len(trace) = read /\ DOMAIN trace = 1 .. read
         /\ \A j \in 1 .. read : trace[j] = block_trace[j] /\ j \in 1 .. Len(block_trace)
<1>1. block_trace \in Seq(Blocks) /\ read \in 0 .. Len(block_trace) /\ Len(block_trace) \in Nat
  BY DEF DependenceInv, GroupInv
<1> QED
  BY <1>1 DEF trace

(* The two definitions of the last writer agree.                           *)
LEMMA WriterSame ==
  ASSUME DependenceInv, NEW a, NEW k \in 1 .. read + 1
  PROVE  Writer(a, k) = WriterAt(groups.Addr2Group, block_trace, a, k)
<1> DEFINE A == groups.Addr2Group
<1>1. \A b : Writes(b) = WritesAt(A, b)
  BY DEF Writes, WritesAt, GroupsOf, GroupsAt, GroupOf
<1>2. \A j \in 1 .. k - 1 : trace[j] = block_trace[j]
  BY TraceIs
<1>3. {j \in 1 .. k - 1 : a \in Writes(trace[j])} = WritersAt(A, block_trace, a, k)
  BY <1>1, <1>2 DEF WritersAt
<1> DEFINE L(js) == IF js = {} THEN 0 ELSE CHOOSE j \in js : \A i \in js : i <= j
           one == {j \in 1 .. k - 1 : a \in Writes(trace[j])}
<1>4. Writer(a, k) = L(one) /\ WriterAt(A, block_trace, a, k) = L(WritersAt(A, block_trace, a, k))
  BY DEF Writer, WriterAt
<1>5. one = WritersAt(A, block_trace, a, k)
  BY <1>3
<1> HIDE DEF L, one
<1> QED
  BY <1>4, <1>5

(* And so do those of the dynamic instructions and of their executions.    *)
LEMMA ForwardSame ==
  ASSUME DependenceInv, NEW k \in 1 .. read
  PROVE  /\ Forward(k) = ForwardAt(block_trace, k)
         /\ Same(k) = Runs(block_trace, I(block_trace[k]), read)
<1>1. trace[k] = block_trace[k] /\ DOMAIN trace = 1 .. read /\ read \in Nat
  BY TraceIs
<1>2. \A j \in 1 .. read : trace[j] = block_trace[j]
  BY TraceIs
<1>3. Same(k) = Runs(block_trace, I(block_trace[k]), read)
  BY <1>1, <1>2 DEF Same, Runs
<1>4. {j \in Same(k) : j < k} = Runs(block_trace, I(block_trace[k]), k - 1)
  BY <1>1, <1>3 DEF Runs
<1>5. Forward(k) = ForwardAt(block_trace, k)
  BY <1>1, <1>4, Zenon DEF Forward, ForwardAt
<1> QED
  BY <1>3, <1>5

(* And those of the dependencies: a pair of blocks is one of Depends, and  *)
(* PairsAt are their dynamic instructions.                                 *)
LEMMA DependsAre ==
  ASSUME DependenceInv
  PROVE  /\ \A p \in Depends :
                /\ p[1] \in 1 .. read /\ p[2] \in 1 .. p[1] - 1
                /\ Counted(block_trace[p[1]]) /\ Counted(block_trace[p[2]])
         /\ {<<Forward(p[1]), Forward(p[2])>> : p \in Depends} =
                PairsAt(groups.Addr2Group, block_trace, read)
<1> DEFINE A == groups.Addr2Group
           t == block_trace
           D == {q \in (1 .. read) \X (1 .. read) :
                    \E a \in ReadsAt(A, t[q[1]]) : WriterAt(A, t, a, q[1]) = q[2]}
<1>0. t \in Seq(Blocks) /\ read \in Nat /\ \A j \in 1 .. read : trace[j] = t[j] /\ j \in 1 .. Len(t)
  BY TraceIs
<1>1. \A b : Reads(b) = ReadsAt(A, b)
  BY DEF Reads, ReadsAt, GroupsOf, GroupsAt, GroupOf
<1>2. ASSUME NEW q \in (1 .. read) \X (1 .. read)
      PROVE  (\E a \in Reads(trace[q[1]]) : Writer(a, q[1]) = q[2]) <=>
             (\E a \in ReadsAt(A, t[q[1]]) : WriterAt(A, t, a, q[1]) = q[2])
  <2>1. q[1] \in 1 .. read /\ q[1] \in 1 .. read + 1
    BY <1>0
  <2>2. Reads(trace[q[1]]) = ReadsAt(A, t[q[1]])
    BY <1>0, <1>1, <2>1
  <2>3. \A a : Writer(a, q[1]) = WriterAt(A, t, a, q[1])
    BY <2>1, WriterSame
  <2> QED
    BY <2>2, <2>3
<1>3. Depends = D
  <2>1. DOMAIN trace = 1 .. read
    BY TraceIs
  <2> QED
    BY <1>2, <2>1 DEF Depends
<1>4. ASSUME NEW p \in Depends
      PROVE  /\ p[1] \in 1 .. read /\ p[2] \in 1 .. p[1] - 1
             /\ Counted(t[p[1]]) /\ Counted(t[p[2]])
  <2>1. p[1] \in 1 .. read /\ p[2] \in 1 .. read
    BY <1>3
  <2>2. PICK a \in ReadsAt(A, t[p[1]]) : WriterAt(A, t, a, p[1]) = p[2]
    BY <1>3
  <2>3. p[1] \in 1 .. Len(t) /\ t[p[1]] \in Blocks /\ t[p[2]] \in Blocks /\ p[1] \in Nat /\ p[1] > 0
    BY <1>0, <2>1
  <2> DEFINE k == p[1]
             w == p[2]
  <2> HIDE DEF k, w
  <2>4. w # 0 /\ WriterAt(A, t, a, k) = w /\ k \in Nat /\ k > 0
    BY <2>1, <2>2, <2>3 DEF k, w
  <2>5. w \in 1 .. k - 1 /\ a \in WritesAt(A, t[w])
    BY <2>4, WriterIs
  <2> QED
    BY <2>1, <2>2, <2>3, <2>5, AccessIsCounted DEF k, w
<1>5. {<<Forward(p[1]), Forward(p[2])>> : p \in Depends} = PairsAt(A, t, read)
  <2>1. \A p \in D : Forward(p[1]) = ForwardAt(t, p[1]) /\ Forward(p[2]) = ForwardAt(t, p[2])
    BY ForwardSame
  <2>2. PairsAt(A, t, read) = {<<ForwardAt(t, p[1]), ForwardAt(t, p[2])>> : p \in D}
    BY DEF PairsAt
  <2> HIDE DEF D
  <2> QED
    BY <1>3, <2>1, <2>2
<1> QED
  BY <1>4, <1>5

(* The counter of an instruction that has been executed.                   *)
LEMMA CounterIs ==
  ASSUME DependenceInv, NEW k \in 1 .. read, Counted(block_trace[k])
  PROVE  /\ ins_count[I(block_trace[k])] = Cardinality(Runs(block_trace, I(block_trace[k]), read))
         /\ IsFiniteSet(Runs(block_trace, I(block_trace[k]), read))
<1> DEFINE i == I(block_trace[k])
<1>1. block_trace \in Seq(Blocks) /\ read \in Nat /\ k \in 1 .. Len(block_trace)
  BY TraceIs
<1>2. i \in Tids \X DOMAIN SSADependencies
  BY <1>1, ForwardTyped
<1>3. Times(ins_count, i) = Cardinality(Runs(block_trace, i, read))
  BY <1>2 DEF DependenceInv, DependInv, Counts
<1>4. IsFiniteSet(Runs(block_trace, i, read)) /\ k \in Runs(block_trace, i, read)
  BY <1>1, RunsMore DEF Runs
<1>5. Cardinality(Runs(block_trace, i, read)) # 0
  BY <1>4, FS_EmptySet
<1> QED
  BY <1>3, <1>4, <1>5 DEF Times

(* The counters count the executions, and last_store stays well formed,    *)
(* with equal leaves joined, through every Set.                            *)
THEOREM DependenceTypes == Spec => []TypeOK
<1>1. ASSUME DependenceInv PROVE TypeOK
  <2>1. WellFormed(last_store)
    <3>1. IsTree(last_store, Writers) /\ IsJoined(last_store)
      BY <1>1, JoinedIs DEF DependenceInv, DependInv
    <3>2. last_store \in [Nodes -> Contents(Writers)]
      BY <3>1 DEF IsTree
    <3>3. \A n \in Nodes : \/ last_store[n] = Empty
                           \/ last_store[n] = Partial
                           \/ \E v \in Writers : last_store[n] = Covered(v)
      BY <3>2 DEF Contents
    <3>4. \A n \in Nodes : /\ last_store[n].type = "EMPTY_SEGMENT" => last_store[n].value = NoValue
                           /\ last_store[n].type = "PARTIAL_SEGMENT" <=> last_store[n] = Partial
      BY <3>3, KindsDiffer
    <3> QED
      BY <3>1, <3>2, <3>4 DEF WellFormed, IsTree, IsJoined
  <2>2. ASSUME NEW k \in DOMAIN trace, Counted(trace[k])
        PROVE  ins_count[I(trace[k])] = Cardinality(Same(k))
    <3>1. k \in 1 .. read /\ trace[k] = block_trace[k]
      BY <1>1, TraceIs
    <3> QED
      BY <1>1, <2>2, <3>1, CounterIs, ForwardSame
  <2> QED
    BY <2>1, <2>2 DEF TypeOK
<1> QED
  BY <1>1, DependenceAlways, PTL

(* After any number of blocks, Get finds for every address the execution   *)
(* that wrote it last.                                                     *)
THEOREM LastStoreAlways == Spec => []LastStore
<1>1. ASSUME DependenceInv PROVE LastStore
  <2> SUFFICES ASSUME NEW a \in Addresses
               PROVE  LET j == Writer(a, Len(trace) + 1) IN
                      Get(last_store, a) = IF j = 0 THEN NoValue ELSE Forward(j)
    BY DEF LastStore
  <2> DEFINE A == groups.Addr2Group
             j == WriterAt(A, block_trace, a, read + 1)
  <2>1. Len(trace) = read /\ read \in Nat
    BY <1>1, TraceIs
  <2>2. Writer(a, Len(trace) + 1) = j
    BY <1>1, <2>1, WriterSame
  <2>3. Get(last_store, a) = At(last_store, a).value
    <3>1. IsTree(last_store, Writers)
      BY <1>1, JoinedIs DEF DependenceInv, DependInv
    <3> QED
      BY <3>1, GetIs
  <2>4. At(last_store, a) = IF j = 0 THEN Empty ELSE Covered(ForwardAt(block_trace, j))
    BY <1>1 DEF DependenceInv, DependInv, Remembers
  <2>5. j # 0 => Forward(j) = ForwardAt(block_trace, j)
    <3>1. PICK e \in Nat : e = read + 1 /\ e > 0 /\ e - 1 = read
      BY <2>1
    <3>2. j = 0 \/ j \in 1 .. read
      BY <3>1, WriterIs
    <3> HIDE DEF j
    <3> QED
      BY <1>1, <3>2, ForwardSame
  <2> QED
    BY <2>2, <2>3, <2>4, <2>5, KindsDiffer
<1> QED
  BY <1>1, DependenceAlways, PTL

(* What Collect finds in last_store are the longest segments of one value, *)
(* without a gap between them.                                             *)
THEOREM CollectTilesAlways == Spec => []CollectTiles
<1>1. ASSUME DependenceInv PROVE CollectTiles
  <2> SUFFICES ASSUME NEW l \in 0 .. MAX_RANGE, NEW r \in 0 .. MAX_RANGE, l < r
               PROVE  LET res == Collect(last_store, l, r) IN
                      /\ res[1].left <= l /\ Last(res).right >= r
                      /\ \A k \in DOMAIN res :
                            \A a \in Bytes(res[k].left, res[k].right) : Get(last_store, a) = res[k].value
                      /\ \A k \in 1 .. Len(res) - 1 :
                            res[k].right = res[k + 1].left /\ res[k].value # res[k + 1].value
    BY DEF CollectTiles
  <2> DEFINE s == Collect(last_store, l, r)
             W == Writers
  <2>0. MAX_RANGE \in Nat \ {0} /\ NoValue \notin W
    BY RangeAssumption, NoWriterAssumption DEF Writers
  <2>1. IsTree(last_store, W)
    BY <1>1, JoinedIs DEF DependenceInv, DependInv
  <2> HIDE DEF W
  <2>2. Cuts(s, last_store, W, l, r)
    BY <2>0, <2>1, CollectCuts
  <2> HIDE DEF s
  <2>3. s \in Seq(SegmentsOf(W)) /\ DOMAIN s = 1 .. Len(s) /\ Len(s) \in Nat /\ Last(s) = s[Len(s)]
    BY <2>2 DEF Cuts, Last
  <2>4. ASSUME NEW k \in 1 .. Len(s)
        PROVE  \E a \in Addresses : s[k].left <= a /\ a < s[k].right
    <3>1. PICK x \in SegmentsOf(W) : x = s[k]
      BY <2>3
    <3>2. x.left \in 0 .. MAX_RANGE /\ x.right \in 0 .. MAX_RANGE
      BY <3>1 DEF SegmentsOf
    <3>3. x.left < x.right
      BY <2>2, <3>1 DEF Cuts
    <3>4. x.left \in Addresses
      BY <2>0, <3>2, <3>3 DEF Addresses
    <3> QED
      BY <3>1, <3>2, <3>3, <3>4
  <2>5. ASSUME NEW k \in 1 .. Len(s), NEW a \in Addresses, s[k].left <= a, a < s[k].right
        PROVE  At(last_store, a) = Leaf(s[k].type, s[k].value) /\ Get(last_store, a) = s[k].value
    <3>1. At(last_store, a) = Leaf(s[k].type, s[k].value)
      BY <2>2, <2>5 DEF Cuts
    <3>2. Get(last_store, a) = At(last_store, a).value
      BY <2>1, GetIs
    <3>3. \A t, v : Leaf(t, v).value = v
      BY DEF Leaf
    <3> QED
      BY <3>1, <3>2, <3>3
  <2>6. ASSUME NEW k \in 1 .. Len(s)
        PROVE  \/ s[k].type = "EMPTY_SEGMENT" /\ s[k].value = NoValue
               \/ s[k].type = "COVERED_SEGMENT" /\ s[k].value \in W
    <3>1. PICK a \in Addresses : s[k].left <= a /\ a < s[k].right
      BY <2>4
    <3>2. At(last_store, a) = Leaf(s[k].type, s[k].value)
      BY <2>5, <3>1
    <3>3. \A t, v : Leaf(t, v).value = v /\ Leaf(t, v).type = t
      BY DEF Leaf
    <3> QED
      BY <2>1, <3>2, <3>3, AtContents, KindsDiffer
  <2>7. ASSUME NEW k \in 1 .. Len(s) - 1
        PROVE  s[k].right = s[k + 1].left /\ s[k].value # s[k + 1].value
    <3>1. k \in 1 .. Len(s) /\ k + 1 \in 1 .. Len(s)
      BY <2>3
    <3>2. s[k].right = s[k + 1].left /\ ~SameLeaf(s[k], s[k + 1])
      BY <2>2 DEF Cuts
    <3> QED
      BY <2>0, <2>6, <3>1, <3>2 DEF SameLeaf
  <2>8. s[1].left <= l /\ s[Len(s)].right >= r
    <3>1. s[1].left <= l /\ r <= s[Len(s)].right /\ s # <<>>
      BY <2>2 DEF Cuts
    <3>2. s[Len(s)] \in SegmentsOf(W)
      BY <2>3, <3>1
    <3>3. s[Len(s)].right \in 0 .. MAX_RANGE
      BY <3>2 DEF SegmentsOf
    <3> QED
      BY <2>0, <3>1, <3>3
  <2>9. \A k \in DOMAIN s : \A a \in Bytes(s[k].left, s[k].right) : Get(last_store, a) = s[k].value
    BY <2>3, <2>5, BytesAre
  <2> QED
    BY <2>3, <2>7, <2>8, <2>9 DEF s
<1> QED
  BY <1>1, DependenceAlways, PTL

(* What has been found are exactly the dependencies of the reads on the    *)
(* last writes, but for calls of two arguments and more, which may be      *)
(* found to depend on themselves.                                          *)
THEOREM LastWritersAlways == Spec => []LastWriters
<1>1. ASSUME DependenceInv PROVE LastWriters
  <2>1. Finds(groups.Addr2Group, block_trace, read, found)
    BY <1>1 DEF DependenceInv, DependInv
  <2>2. Proper(found) = {<<Forward(p[1]), Forward(p[2])>> : p \in Depends}
    BY <1>1, <2>1, DependsAre DEF Finds
  <2>3. ASSUME NEW p \in found \ Proper(found)
        PROVE  \E b \in ToSet(trace) :
                   IsCall(b) /\ I(b) = <<p[1].TID, p[1].ID>> /\ Len(b.args) > 1
    <3>1. PICK k \in 1 .. read : /\ IsCall(block_trace[k]) /\ I(block_trace[k]) = <<p[1].TID, p[1].ID>>
                                 /\ Len(block_trace[k].args) > 1
      BY <2>1 DEF Finds
    <3>2. trace[k] = block_trace[k] /\ trace[k] \in ToSet(trace)
      BY <1>1, TraceIs DEF ToSet
    <3> QED
      BY <3>1, <3>2
  <2> QED
    BY <2>2, <2>3 DEF LastWriters
<1> QED
  BY <1>1, DependenceAlways, PTL

(* Counted from the end, an execution has the number of those after it.    *)
LEMMA RenumberIs ==
  ASSUME DependenceInv, NEW k \in 1 .. read, Counted(block_trace[k])
  PROVE  Renumber(Forward(k)) = Backward(k)
<1> DEFINE i == I(block_trace[k])
           all == Same(k)
           before == {j \in all : j < k}
           after == {j \in all : j > k}
           upto == before \cup {k}
           f == Forward(k)
<1>1. trace[k] = block_trace[k] /\ DOMAIN trace = 1 .. read /\ read \in Nat
  BY TraceIs
<1>2. all = Runs(block_trace, i, read)
  BY ForwardSame
<1>3. IsFiniteSet(all) /\ ins_count[i] = Cardinality(all)
  BY <1>2, CounterIs
<1>4. k \in all /\ all \subseteq Int
  BY <1>2 DEF Runs
<1>5. I(trace[k]) = <<f.TID, f.ID>> /\ f.Cnt = Cardinality(before)
      /\ f = [TID |-> trace[k].tid, ID |-> trace[k].ins, Cnt |-> Cardinality(before)]
  BY DEF Forward, DynamicInst, I
<1>6. Backward(k) = [TID |-> trace[k].tid, ID |-> trace[k].ins, Cnt |-> -Cardinality(after)]
  BY DEF Backward, DynamicInst
<1> HIDE DEF all, i
<1>7. all = upto \cup after /\ upto \cap after = {} /\ k \notin before
  <2>1. k \in Int /\ \A j \in all : j \in Int
    BY <1>4
  <2>2. \A j : j \in before <=> j \in all /\ j < k
    OBVIOUS
  <2>3. \A j : j \in after <=> j \in all /\ j > k
    OBVIOUS
  <2>4. \A j : j \in upto <=> j \in before \/ j = k
    OBVIOUS
  <2> HIDE DEF before, after, upto
  <2>5. \A j : j \in all <=> j \in upto \/ j \in after
    <3>1. ASSUME NEW j, j \in all PROVE j \in upto \/ j \in after
      <4>1. j < k \/ j = k \/ j > k
        BY <2>1, <3>1
      <4> QED
        BY <2>2, <2>3, <2>4, <3>1, <4>1
    <3>2. ASSUME NEW j, j \in upto \/ j \in after PROVE j \in all
      BY <1>4, <2>2, <2>3, <2>4, <3>2
    <3> QED
      BY <3>1, <3>2
  <2>6. \A j : ~(j \in upto /\ j \in after)
    BY <2>1, <2>2, <2>3, <2>4
  <2>7. k \notin before
    BY <2>1, <2>2
  <2> QED
    BY <2>5, <2>6, <2>7
<1>8. IsFiniteSet(before) /\ IsFiniteSet(after) /\ Cardinality(before) \in Nat /\ Cardinality(after) \in Nat
  BY <1>3, FS_Subset, FS_CardinalityType
<1> HIDE DEF before, after
<1>9. IsFiniteSet(upto) /\ Cardinality(upto) = Cardinality(before) + 1
  BY <1>7, <1>8, FS_AddElement
<1> HIDE DEF upto
<1>10. Cardinality(all) = Cardinality(before) + 1 + Cardinality(after)
  <2>1. Cardinality(upto \cup after) =
            Cardinality(upto) + Cardinality(after) - Cardinality(upto \cap after)
    BY <1>8, <1>9, FS_Union
  <2>2. Cardinality(upto \cap after) = 0
    BY <1>7, FS_EmptySet
  <2> QED
    BY <1>7, <1>8, <1>9, <2>1, <2>2
<1>11. Renumber(f) = [f EXCEPT !.Cnt = @ - (ins_count[i] - 1)]
  BY <1>1, <1>5 DEF Renumber, i
<1> DEFINE x == Cardinality(before)
           y == Cardinality(after)
<1>12. x - (ins_count[i] - 1) = -y
  BY <1>3, <1>8, <1>10
<1> HIDE DEF x, y, f
<1>13. f.Cnt = x /\ [f EXCEPT !.Cnt = @ - (ins_count[i] - 1)] = [f EXCEPT !.Cnt = -y]
  BY <1>5, <1>12 DEF x
<1> QED
  BY <1>5, <1>6, <1>11, <1>13 DEF x, y, f

(* Two executions keep different numbers.                                  *)
LEMMA BackwardDiffers ==
  ASSUME DependenceInv, NEW k \in 1 .. read, NEW w \in 1 .. k - 1, Counted(block_trace[k]),
         Counted(block_trace[w])
  PROVE  Backward(k) # Backward(w)
<1> SUFFICES ASSUME Backward(k) = Backward(w) PROVE FALSE
  OBVIOUS
<1> DEFINE f == Forward(k)
           g == Forward(w)
           i == <<f.TID, f.ID>>
           c == ins_count[i] - 1
<1>0. read \in Nat /\ w \in 1 .. read /\ k \in 1 .. Len(block_trace)
  <2>1. read \in Nat /\ \A j \in 1 .. read : j \in 1 .. Len(block_trace)
    BY TraceIs
  <2> QED
    BY <2>1
<1>1. f # g
  <2>1. block_trace \in Seq(Blocks)
    BY TraceIs
  <2>2. f = ForwardAt(block_trace, k) /\ g = ForwardAt(block_trace, w)
    BY <1>0, ForwardSame
  <2> QED
    BY <1>0, <2>1, <2>2, ForwardDiffers
<1>2. Renumber(f) = Backward(k) /\ Renumber(g) = Backward(w)
  BY <1>0, RenumberIs
<1>3. /\ f = [TID |-> f.TID, ID |-> f.ID, Cnt |-> f.Cnt] /\ g = [TID |-> g.TID, ID |-> g.ID, Cnt |-> g.Cnt]
      /\ Backward(k).TID = f.TID /\ Backward(k).ID = f.ID
      /\ Backward(w).TID = g.TID /\ Backward(w).ID = g.ID
  BY DEF Forward, Backward, DynamicInst
<1>4. g.TID = f.TID /\ g.ID = f.ID
  BY <1>3
<1>5. f.Cnt \in Nat /\ g.Cnt \in Nat /\ ins_count[i] \in Int
  <2>1. ins_count[i] = Cardinality(Runs(block_trace, I(block_trace[k]), read))
    <3>1. trace[k] = block_trace[k]
      BY TraceIs
    <3>2. i = I(block_trace[k])
      BY <3>1 DEF Forward, DynamicInst, I
    <3> QED
      BY <3>2, CounterIs
  <2>2. Cardinality(Runs(block_trace, I(block_trace[k]), read)) \in Nat
    BY <1>0, RunsMore
  <2>3. ASSUME NEW j \in 1 .. read PROVE Forward(j).Cnt \in Nat
    <3>1. Forward(j).Cnt = Cardinality({h \in Same(j) : h < j})
      BY DEF Forward, DynamicInst
    <3>2. Same(j) = Runs(block_trace, I(block_trace[j]), read)
      BY ForwardSame
    <3>3. IsFiniteSet(Same(j))
      BY <1>0, <3>2, RunsMore
    <3> QED
      BY <3>1, <3>3, FS_Subset, FS_CardinalityType
  <2> QED
    BY <1>0, <2>1, <2>2, <2>3
<1>6. Renumber(f).Cnt = f.Cnt - c /\ Renumber(g).Cnt = g.Cnt - c
  <2>1. Renumber(f) = [f EXCEPT !.Cnt = f.Cnt - c] /\ Renumber(g) = [g EXCEPT !.Cnt = g.Cnt - c]
    BY <1>4 DEF Renumber
  <2> HIDE DEF f, g, c
  <2> QED
    BY <1>3, <2>1
<1> HIDE DEF f, g
<1>7. c \in Int
  BY <1>5
<1> HIDE DEF c
<1>8. f.Cnt = g.Cnt
  BY <1>2, <1>5, <1>6, <1>7
<1> QED
  BY <1>1, <1>3, <1>4, <1>8

(* The dependencies are numbered from the end.                             *)
LEMMA NumberedFromEnd == DependenceInv => CountedFromEnd
<1>1. ASSUME DependenceInv, phase = "PreparePostDominator"
      PROVE  Proper(mem_dep) = {<<Backward(p[1]), Backward(p[2])>> : p \in Depends}
  <2>1. mem_dep = {<<Renumber(p[1]), Renumber(p[2])>> : p \in found}
    BY <1>1 DEF DependenceInv
  <2>2. Proper(found) = {<<Forward(p[1]), Forward(p[2])>> : p \in Depends}
    BY <1>1, DependsAre DEF DependenceInv, DependInv, Finds
  <2>3. ASSUME NEW p \in Depends
        PROVE  /\ Renumber(Forward(p[1])) = Backward(p[1]) /\ Renumber(Forward(p[2])) = Backward(p[2])
               /\ Backward(p[1]) # Backward(p[2])
    <3> DEFINE k == p[1]
               w == p[2]
    <3>1. k \in 1 .. read /\ w \in 1 .. k - 1 /\ Counted(block_trace[k]) /\ Counted(block_trace[w])
      BY <1>1, DependsAre
    <3> HIDE DEF k, w
    <3>2. w \in 1 .. read
      <4>1. read \in Nat
        BY <1>1, TraceIs
      <4> QED
        BY <3>1, <4>1
    <3>3. Renumber(Forward(k)) = Backward(k) /\ Renumber(Forward(w)) = Backward(w) /\ Backward(k) # Backward(w)
      BY <1>1, <3>1, <3>2, RenumberIs, BackwardDiffers
    <3> QED
      BY <3>3 DEF k, w
  <2>4. ASSUME NEW q \in Proper(mem_dep)
        PROVE  \E p \in Depends : q = <<Backward(p[1]), Backward(p[2])>>
    <3>1. q \in mem_dep /\ q[1] # q[2]
      BY DEF Proper
    <3>2. PICK p \in found : q = <<Renumber(p[1]), Renumber(p[2])>>
      BY <2>1, <3>1
    <3>3. p[1] # p[2]
      BY <3>1, <3>2
    <3>4. p \in Proper(found)
      BY <3>3 DEF Proper
    <3>5. PICK d \in Depends : p = <<Forward(d[1]), Forward(d[2])>>
      BY <2>2, <3>4
    <3> QED
      BY <2>3, <3>2, <3>5
  <2>5. ASSUME NEW p \in Depends PROVE <<Backward(p[1]), Backward(p[2])>> \in Proper(mem_dep)
    <3>1. <<Forward(p[1]), Forward(p[2])>> \in found
      BY <2>2 DEF Proper
    <3>2. <<Renumber(Forward(p[1])), Renumber(Forward(p[2]))>> \in mem_dep
      BY <2>1, <3>1
    <3> QED
      BY <2>3, <3>2 DEF Proper
  <2> QED
    BY <2>4, <2>5
<1> QED
  BY <1>1 DEF CountedFromEnd

(* At the end the dependencies are numbered as the backward pass over the  *)
(* trace numbers the executions.                                           *)
THEOREM CountedFromEndAlways == Spec => []CountedFromEnd
BY NumberedFromEnd, DependenceAlways, PTL
=============================================================================
