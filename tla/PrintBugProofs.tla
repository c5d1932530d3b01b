--------------------------- MODULE PrintBugProofs ---------------------------
(***************************************************************************)
(* The post dominators that PreparePostDominator computes, what            *)
(* ExtractUneededOperation keeps of the sources of an instruction and of   *)
(* the calls, and the reports of PrintBug, for any graph of basic blocks,  *)
(* any trace and any instructions.                                         *)
(***************************************************************************)
EXTENDS PrintBug, MemoryDependencyProofs

-----------------------------------------------------------------------------
(* What a search reaches                                                   *)

(* The recursive function inside Reach.                                    *)
IsReach(f, graph, mark, avoid) ==
    f = [k \in 0 .. Cardinality(DOMAIN graph) |->
            IF k = 0 THEN mark ELSE Further(graph, f[k - 1], avoid)]

(* T goes on with all that it can go on with.                              *)
ClosedIn(graph, T, avoid) == \A i \in T \cap DOMAIN graph : graph[i] \ avoid \subseteq T

(* It exists.                                                              *)
LEMMA ReachExists ==
  ASSUME NEW graph, IsFiniteSet(DOMAIN graph), NEW mark, NEW avoid
  PROVE  \E f : IsReach(f, graph, mark, avoid)
<1> DEFINE n == Cardinality(DOMAIN graph)
           U == mark \cup UNION {graph[i] : i \in DOMAIN graph}
           M == SUBSET U
           op == [p \in M \X (1 .. n) |-> Further(graph, p[1], avoid)]
<1>1. n \in Nat
  BY FS_CardinalityType
<1>2. ASSUME NEW S \in M PROVE Further(graph, S, avoid) \in M
  BY DEF Further
<1>3. mark \in M
  OBVIOUS
<1> HIDE DEF n, M
<1>4. op \in [M \X (1 .. n) -> M]
  BY <1>2
<1>5. \A S \in M, k \in 1 .. n : op[<<S, k>>] = Further(graph, S, avoid)
  OBVIOUS
<1>6. Steps(op, M, n)
  BY <1>1, <1>4 DEF Steps
<1> HIDE DEF op
<1>7. PICK f \in [0 .. n -> M] : Iterates(f, mark, op, n)
  BY <1>3, <1>6, IndexFunction
<1>8. \A k \in 0 .. n : f[k] = IF k = 0 THEN mark ELSE Further(graph, f[k - 1], avoid)
  <2> SUFFICES ASSUME NEW k \in 0 .. n, k # 0 PROVE f[k] = Further(graph, f[k - 1], avoid)
    BY <1>1, <1>7 DEF Iterates
  <2>1. k - 1 \in 0 .. n /\ k \in 1 .. n
    BY <1>1
  <2> QED
    BY <1>5, <1>7, <2>1 DEF Iterates
<1>9. f = [k \in 0 .. n |-> IF k = 0 THEN mark ELSE Further(graph, f[k - 1], avoid)]
  <2>1. f = [k \in 0 .. n |-> f[k]]
    OBVIOUS
  <2> QED
    BY <1>8, <2>1, Zenon
<1>10. IsReach(f, graph, mark, avoid)
  BY <1>9, Zenon DEF IsReach, n
<1> QED
  BY <1>10

(* Reach is the smallest set with the marks that is closed: a step that    *)
(* adds no node of the graph adds nothing, so there are no more steps that *)
(* do than nodes.                                                          *)
LEMMA ReachIs ==
  ASSUME NEW graph, IsFiniteSet(DOMAIN graph), NEW mark, NEW avoid
  PROVE  /\ mark \subseteq Reach(graph, mark, avoid)
         /\ ClosedIn(graph, Reach(graph, mark, avoid), avoid)
         /\ \A T : (mark \subseteq T /\ ClosedIn(graph, T, avoid)) => Reach(graph, mark, avoid) \subseteq T
<1> DEFINE n == Cardinality(DOMAIN graph)
           f == CHOOSE g : IsReach(g, graph, mark, avoid)
           D == DOMAIN graph
<1>1. n \in Nat /\ IsReach(f, graph, mark, avoid)
  BY ReachExists, FS_CardinalityType, Zenon
<1>2. Reach(graph, mark, avoid) = f[n]
  BY Zenon DEF Reach, IsReach
<1> HIDE DEF f
<1>3. \A k \in 0 .. n : f[k] = IF k = 0 THEN mark ELSE Further(graph, f[k - 1], avoid)
  <2> DEFINE h == [k \in 0 .. Cardinality(DOMAIN graph) |->
                      IF k = 0 THEN mark ELSE Further(graph, f[k - 1], avoid)]
  <2>1. \A k \in 0 .. n : h[k] = IF k = 0 THEN mark ELSE Further(graph, f[k - 1], avoid)
    BY Zenon
  <2>2. f = h
    BY <1>1, Zenon DEF IsReach
  <2> HIDE DEF h
  <2> QED
    BY <2>1, <2>2
<1>4. \A S : /\ S \subseteq Further(graph, S, avoid)
             /\ ClosedIn(graph, S, avoid) => Further(graph, S, avoid) = S
             /\ S \cap D = Further(graph, S, avoid) \cap D =>
                    ClosedIn(graph, Further(graph, S, avoid), avoid)
             /\ \A T : (S \subseteq T /\ ClosedIn(graph, T, avoid)) => Further(graph, S, avoid) \subseteq T
  <2> SUFFICES ASSUME NEW S
               PROVE  /\ S \subseteq Further(graph, S, avoid)
                      /\ ClosedIn(graph, S, avoid) => Further(graph, S, avoid) = S
                      /\ S \cap D = Further(graph, S, avoid) \cap D =>
                             ClosedIn(graph, Further(graph, S, avoid), avoid)
                      /\ \A T : (S \subseteq T /\ ClosedIn(graph, T, avoid)) =>
                             Further(graph, S, avoid) \subseteq T
    OBVIOUS
  <2> DEFINE R == Further(graph, S, avoid)
  <2>1. \A y : y \in R <=> y \in S \/ \E i \in S \cap D : y \in graph[i] /\ y \notin avoid
    <3> DEFINE U == UNION {graph[i] : i \in S \cap DOMAIN graph}
    <3>1. \A y : y \in U <=> \E i \in S \cap D : y \in graph[i]
      OBVIOUS
    <3>2. Further(graph, S, avoid) = S \cup (U \ avoid)
      BY DEF Further
    <3>3. R = S \cup (U \ avoid)
      BY <3>2
    <3> HIDE DEF U, R
    <3> QED
      BY <3>1, <3>3
  <2>2. \A T : ClosedIn(graph, T, avoid) <=>
                  \A i \in T \cap D : \A y \in graph[i] : y \in avoid \/ y \in T
    BY DEF ClosedIn
  <2> HIDE DEF R, D
  <2>3. S \subseteq R
    BY <2>1
  <2>4. ClosedIn(graph, S, avoid) => R = S
    BY <2>1, <2>2
  <2>5. ASSUME S \cap D = R \cap D PROVE ClosedIn(graph, R, avoid)
    BY <2>1, <2>2, <2>5
  <2>6. ASSUME NEW T, S \subseteq T, ClosedIn(graph, T, avoid) PROVE R \subseteq T
    BY <2>1, <2>2, <2>6
  <2> QED
    BY <2>3, <2>4, <2>5, <2>6 DEF R
<1> HIDE DEF n, D
<1> DEFINE K == {k \in Nat : k \in 0 .. n =>
                    /\ mark \subseteq f[k]
                    /\ ClosedIn(graph, f[k], avoid) \/ Cardinality(f[k] \cap D) > k
                    /\ \A T : (mark \subseteq T /\ ClosedIn(graph, T, avoid)) => f[k] \subseteq T}
<1>5. IsFiniteSet(D) /\ Cardinality(D) = n
  BY DEF D, n
<1>6. \A S : IsFiniteSet(S \cap D) /\ Cardinality(S \cap D) \in Nat /\ Cardinality(S \cap D) <= n
  <2> SUFFICES ASSUME NEW S
               PROVE  IsFiniteSet(S \cap D) /\ Cardinality(S \cap D) \in Nat /\ Cardinality(S \cap D) <= n
    OBVIOUS
  <2>1. S \cap D \in SUBSET D
    OBVIOUS
  <2>2. IsFiniteSet(S \cap D) /\ Cardinality(S \cap D) <= Cardinality(D)
    BY <1>5, <2>1, FS_Subset
  <2> QED
    BY <1>5, <2>2, FS_CardinalityType
<1>7. 0 \in K
  <2>1. f[0] = mark
    BY <1>1, <1>3
  <2>2. CASE mark \cap D = {}
    <3>1. ClosedIn(graph, mark, avoid)
      BY <2>2 DEF ClosedIn, D
    <3> QED
      BY <2>1, <3>1
  <2>3. CASE mark \cap D # {}
    <3>1. Cardinality(mark \cap D) # 0 /\ Cardinality(mark \cap D) \in Nat
      BY <1>6, <2>3, FS_EmptySet
    <3>2. Cardinality(mark \cap D) > 0
      BY <3>1
    <3> QED
      BY <2>1, <3>2
  <2> QED
    BY <2>2, <2>3
<1>8. ASSUME NEW k \in Nat, k \in K PROVE k + 1 \in K
  <2> SUFFICES ASSUME k + 1 \in 0 .. n
               PROVE  /\ mark \subseteq f[k + 1]
                      /\ ClosedIn(graph, f[k + 1], avoid) \/ Cardinality(f[k + 1] \cap D) > k + 1
                      /\ \A T : (mark \subseteq T /\ ClosedIn(graph, T, avoid)) => f[k + 1] \subseteq T
    OBVIOUS
  <2>0. PICK e \in 1 .. n : e = k + 1
    BY <1>1
  <2>1. k \in 0 .. n /\ e # 0 /\ e - 1 = k /\ e \in 0 .. n
    BY <1>1, <2>0
  <2>2. f[e] = Further(graph, f[k], avoid)
    BY <1>3, <2>1
  <2>3. /\ mark \subseteq f[k]
        /\ ClosedIn(graph, f[k], avoid) \/ Cardinality(f[k] \cap D) > k
        /\ \A T : (mark \subseteq T /\ ClosedIn(graph, T, avoid)) => f[k] \subseteq T
    BY <1>8, <2>1
  <2> DEFINE S == f[k]
             R == f[e]
  <2>4. S \subseteq R /\ (ClosedIn(graph, S, avoid) => R = S)
        /\ (S \cap D = R \cap D => ClosedIn(graph, R, avoid))
    BY <1>4, <2>2
  <2>5. mark \subseteq R /\ \A T : (mark \subseteq T /\ ClosedIn(graph, T, avoid)) => R \subseteq T
    BY <1>4, <2>2, <2>3
  <2>6. ClosedIn(graph, S, avoid) \/ Cardinality(S \cap D) > k
    BY <2>3
  <2> HIDE DEF S, R
  <2>7. ClosedIn(graph, R, avoid) \/ Cardinality(R \cap D) > e
    <3> SUFFICES ASSUME ~ClosedIn(graph, R, avoid) PROVE Cardinality(R \cap D) > e
      OBVIOUS
    <3>1. ~ClosedIn(graph, S, avoid)
      BY <2>4
    <3>2. Cardinality(S \cap D) > k
      BY <2>6, <3>1
    <3>3. S \cap D # R \cap D /\ S \cap D \in SUBSET (R \cap D)
      BY <2>4
    <3>4. IsFiniteSet(R \cap D) /\ Cardinality(R \cap D) \in Nat /\ Cardinality(S \cap D) \in Nat
      BY <1>6
    <3>5. Cardinality(S \cap D) <= Cardinality(R \cap D) /\ Cardinality(S \cap D) # Cardinality(R \cap D)
      BY <3>3, <3>4, FS_Subset
    <3> QED
      BY <2>0, <3>2, <3>4, <3>5
  <2> QED
    BY <2>0, <2>5, <2>7 DEF R
<1>9. Nat \subseteq K
  <2> HIDE DEF K
  <2> QED
    BY <1>7, <1>8, NatSetInduction
<1>10. /\ mark \subseteq f[n]
       /\ ClosedIn(graph, f[n], avoid) \/ Cardinality(f[n] \cap D) > n
       /\ \A T : (mark \subseteq T /\ ClosedIn(graph, T, avoid)) => f[n] \subseteq T
  BY <1>1, <1>9
<1>11. Cardinality(f[n] \cap D) \in Nat /\ Cardinality(f[n] \cap D) <= n
  BY <1>6
<1>12. ClosedIn(graph, f[n], avoid)
  BY <1>1, <1>10, <1>11
<1> QED
  BY <1>2, <1>10, <1>12

-----------------------------------------------------------------------------
(* Finite sets of numbers                                                  *)

(* One of them is the largest.                                             *)
LEMMA FiniteMaximum ==
  ASSUME NEW S \in SUBSET Nat, IsFiniteSet(S), S # {}
  PROVE  \E x \in S : \A y \in S : y <= x
<1> DEFINE n == Cardinality(S)
<1>1. n \in Nat /\ ExistsBijection(1 .. n, S)
  BY FS_CardinalityType
<1>2. PICK f \in [1 .. n -> S] : \A y \in S : \E k \in 1 .. n : f[k] = y
  BY <1>1 DEF ExistsBijection, Bijection, Surjection
<1> HIDE DEF n
<1>0. \A k \in 1 .. n : f[k] \in Nat
  BY <1>2
<1> DEFINE B == {m \in Nat : m <= n => \E b \in Nat : \A k \in 1 .. m : f[k] <= b}
<1>3. 0 \in B
  OBVIOUS
<1>4. ASSUME NEW m \in Nat, m \in B PROVE m + 1 \in B
  <2> SUFFICES ASSUME m + 1 <= n PROVE \E b \in Nat : \A k \in 1 .. m + 1 : f[k] <= b
    OBVIOUS
  <2>1. PICK b \in Nat : \A k \in 1 .. m : f[k] <= b
    BY <1>1, <1>4
  <2>2. PICK c \in Nat : f[m + 1] = c
    BY <1>0, <1>1
  <2>3. \A k \in 1 .. m + 1 : (k \in 1 .. m \/ k = m + 1) /\ f[k] \in Nat
    BY <1>0, <1>1
  <2>4. PICK e \in Nat : e = b + c
    OBVIOUS
  <2>5. \A k \in 1 .. m + 1 : f[k] <= e
    BY <2>1, <2>2, <2>3, <2>4
  <2> HIDE DEF B
  <2> WITNESS e \in Nat
  <2> QED
    BY <2>5
<1>5. Nat \subseteq B
  <2> HIDE DEF B
  <2> QED
    BY <1>3, <1>4, NatSetInduction
<1>6. PICK b \in Nat : \A k \in 1 .. n : f[k] <= b
  <2>1. n \in B
    <3> HIDE DEF B
    <3> QED
      BY <1>1, <1>5
  <2> QED
    BY <1>1, <2>1
<1>7. S \in SUBSET (0 .. b)
  BY <1>2, <1>6
<1> QED
  BY <1>7, Maximum

-----------------------------------------------------------------------------
(* The graph of the basic blocks                                           *)

D == DOMAIN BBGraph
GraphNodes == D \cup UNION {BBGraph[i] : i \in D}
Onward(i) == IF i \in D THEN BBGraph[i] ELSE {}

(* What is reached from i, and what the paths from i cannot avoid.         *)
From(i) == Reach(BBGraph, {i}, {})
Around(i, j) == Reach(BBGraph, Onward(i) \ {j}, {j})
Cannot(i) == {j \in GraphNodes : \A n \in Around(i, j) : j \in From(n)}

(* Every exit is numbered after the blocks that lead to it.                *)
InOrder == \A n \in D : \A e \in BBGraph[n] \ D : n < e

(* The blocks are finitely many numbers.                                   *)
LEMMA GraphFinite ==
  IsFiniteSet(D) /\ IsFiniteSet(GraphNodes) /\ GraphNodes \subseteq Nat
<1> DEFINE U == {BBGraph[i] : i \in D}
           f == [i \in D |-> BBGraph[i]]
<1>1. IsFiniteSet(D) /\ D \subseteq Nat /\ \A i \in D : IsFiniteSet(BBGraph[i]) /\ BBGraph[i] \subseteq Nat
  BY GraphAssumption DEF D
<1> HIDE DEF D
<1>2. f \in Surjection(D, U)
  BY DEF Surjection
<1>3. IsFiniteSet(U)
  BY <1>1, <1>2, FS_Surjection
<1>4. IsFiniteSet(UNION U)
  BY <1>1, <1>3, FS_UNION
<1>5. IsFiniteSet(D \cup UNION U)
  BY <1>1, <1>4, FS_Union
<1> QED
  BY <1>1, <1>5 DEF GraphNodes

(* The successors are nodes.                                               *)
LEMMA GraphEdges ==
  /\ D \subseteq GraphNodes
  /\ \A i \in D : BBGraph[i] # {} /\ Onward(i) = BBGraph[i]
  /\ \A i \in D : \A s \in BBGraph[i] : s \in GraphNodes
BY GraphAssumption DEF GraphNodes, D, Onward

(* What is reached from a block: the block, what is reached from a block   *)
(* that is reached, and nothing but itself from an exit.                   *)
LEMMA FromIs ==
  /\ \A i : i \in From(i)
  /\ \A i : \A n \in From(i) \cap D : BBGraph[n] \subseteq From(i)
  /\ \A i : \A n \in From(i) : From(n) \subseteq From(i)
  /\ \A i : i \notin D => From(i) = {i}
  /\ \A i \in GraphNodes : From(i) \subseteq GraphNodes
<1>1. \A i : /\ {i} \subseteq From(i)
             /\ ClosedIn(BBGraph, From(i), {})
             /\ \A T : ({i} \subseteq T /\ ClosedIn(BBGraph, T, {})) => From(i) \subseteq T
  BY GraphFinite, ReachIs DEF From, D
<1>2. \A T : ClosedIn(BBGraph, T, {}) <=> \A n \in T \cap D : BBGraph[n] \subseteq T
  BY DEF ClosedIn, D
<1>3. \A i : i \in From(i) /\ \A n \in From(i) \cap D : BBGraph[n] \subseteq From(i)
  BY <1>1, <1>2
<1>4. \A i : \A n \in From(i) : From(n) \subseteq From(i)
  BY <1>1
<1>5. \A i : i \notin D => From(i) = {i}
  <2> SUFFICES ASSUME NEW i, i \notin D PROVE From(i) = {i}
    OBVIOUS
  <2>1. ClosedIn(BBGraph, {i}, {})
    BY <1>2
  <2> QED
    BY <1>1, <2>1
<1>6. ClosedIn(BBGraph, GraphNodes, {})
  BY <1>2, GraphEdges
<1>7. \A i \in GraphNodes : From(i) \subseteq GraphNodes
  BY <1>1, <1>6
<1> QED
  BY <1>3, <1>4, <1>5, <1>7

(* What the paths that go round j meet.                                    *)
LEMMA AroundIs ==
  ASSUME NEW i, NEW j
  PROVE  /\ Onward(i) \ {j} \subseteq Around(i, j)
         /\ \A n \in Around(i, j) \cap D : BBGraph[n] \ {j} \subseteq Around(i, j)
         /\ \A T : (/\ Onward(i) \ {j} \subseteq T
                    /\ \A n \in T \cap D : BBGraph[n] \ {j} \subseteq T) => Around(i, j) \subseteq T
<1> DEFINE A == Around(i, j)
           M == Onward(i) \ {j}
           J == {j}
<1>1. IsFiniteSet(DOMAIN BBGraph)
  BY GraphFinite DEF D
<1>2. /\ M \subseteq A
      /\ ClosedIn(BBGraph, A, J)
      /\ \A T : (M \subseteq T /\ ClosedIn(BBGraph, T, J)) => A \subseteq T
  <2>1. A = Reach(BBGraph, M, J)
    BY DEF Around
  <2> HIDE DEF A, M, J
  <2> QED
    BY <1>1, <2>1, ReachIs
<1>3. \A T : ClosedIn(BBGraph, T, {j}) <=> \A n \in T \cap D : BBGraph[n] \ {j} \subseteq T
  BY DEF ClosedIn, D
<1> HIDE DEF A
<1>4. /\ Onward(i) \ {j} \subseteq A
      /\ \A n \in A \cap D : BBGraph[n] \ {j} \subseteq A
      /\ \A T : (/\ Onward(i) \ {j} \subseteq T
                 /\ \A n \in T \cap D : BBGraph[n] \ {j} \subseteq T) => A \subseteq T
  BY <1>2, <1>3
<1> QED
  BY <1>4 DEF A

(* What cannot be avoided is reached; after a step to another block it     *)
(* still cannot be avoided.                                                *)
LEMMA CannotIs ==
  /\ \A i \in D : Cannot(i) \subseteq From(i)
  /\ \A i \in D : \A j \in Cannot(i), s \in BBGraph[i] : j = s \/ (s \in D /\ j \in Cannot(s))
<1>1. ASSUME NEW i \in D, NEW j \in Cannot(i), NEW s \in BBGraph[i], j # s
      PROVE  s \in D /\ j \in Cannot(s) /\ j \in From(s)
  <2>1. j \in GraphNodes /\ \A n \in Around(i, j) : j \in From(n)
    BY <1>1 DEF Cannot
  <2>2. s \in Onward(i) \ {j}
    BY <1>1, GraphEdges
  <2>3. s \in Around(i, j)
    BY <2>2, AroundIs
  <2>4. j \in From(s)
    BY <2>1, <2>3
  <2>5. s \in D
    BY <1>1, <2>4, FromIs
  <2>6. Onward(s) \ {j} \subseteq Around(i, j)
    BY <2>3, <2>5, AroundIs, GraphEdges
  <2>7. Around(s, j) \subseteq Around(i, j)
    BY <2>6, AroundIs
  <2> QED
    BY <2>1, <2>4, <2>5, <2>7 DEF Cannot
<1>2. ASSUME NEW i \in D, NEW j \in Cannot(i) PROVE j \in From(i)
  <2>1. PICK s \in BBGraph[i] : TRUE
    BY GraphEdges
  <2>2. s \in From(i)
    BY FromIs
  <2>3. CASE j = s
    BY <2>2, <2>3
  <2>4. CASE j # s
    BY <1>1, <2>2, <2>4, FromIs
  <2> QED
    BY <2>3, <2>4
<1> QED
  BY <1>1, <1>2

-----------------------------------------------------------------------------
(* A sweep over the blocks                                                 *)

SweepStates ==
    [pd : [GraphNodes -> SUBSET GraphNodes], res : SUBSET GraphNodes, changed : BOOLEAN]

(* One block of a sweep changes its set alone, and the set of a block with *)
(* successors to what they have in common; it is marked if it changes.     *)
LEMMA SweepBlockIs ==
  ASSUME successor = BBGraph, NEW m \in SweepStates, NEW i \in GraphNodes
  PROVE  /\ SweepBlock(m, i) \in SweepStates
         /\ \A n \in GraphNodes \ {i} : SweepBlock(m, i).pd[n] = m.pd[n]
         /\ i \in D => \A x : x \in SweepBlock(m, i).pd[i] <=>
                                 x \in m.pd[i] /\ \A s \in BBGraph[i] : x = s \/ x \in m.pd[s]
         /\ ~SweepBlock(m, i).changed => ~m.changed /\ SweepBlock(m, i).pd = m.pd
<1> DEFINE given == IF Successors(i) # {} THEN m.pd[i] ELSE m.res
           res == Intersected(m.pd, given, i)
           differs == Cardinality(res) # Cardinality(m.pd[i])
           q == IF differs THEN [m.pd EXCEPT ![i] = res] ELSE m.pd
           w == [pd |-> q, res |-> res, changed |-> m.changed \/ differs]
<1>1. m.pd \in [GraphNodes -> SUBSET GraphNodes] /\ m.res \in SUBSET GraphNodes /\ m.changed \in BOOLEAN
  BY DEF SweepStates
<1>2. SweepBlock(m, i) = w
  BY DEF SweepBlock
<1>3. given \in SUBSET GraphNodes
  BY <1>1
<1>4. \A x : x \in res <=> x \in given /\ \A s \in Successors(i) : x = s \/ x \in m.pd[s]
  BY DEF Intersected
<1>5. res \in SUBSET GraphNodes
  BY <1>3, <1>4
<1>6. i \in D => given = m.pd[i] /\ Successors(i) = BBGraph[i]
  BY GraphEdges DEF Successors, D
<1> HIDE DEF given, res
<1>7. differs \in BOOLEAN
  OBVIOUS
<1>8. i \in D /\ ~differs => res = m.pd[i]
  <2> SUFFICES ASSUME i \in D, ~differs PROVE res = m.pd[i]
    OBVIOUS
  <2> DEFINE P == m.pd[i]
  <2>1. res \in SUBSET P /\ P \in SUBSET GraphNodes
    BY <1>1, <1>4, <1>6
  <2>2. IsFiniteSet(P)
    BY <2>1, GraphFinite, FS_Subset
  <2>3. Cardinality(P) = Cardinality(res)
    OBVIOUS
  <2> HIDE DEF P
  <2>4. P = res
    BY <2>1, <2>2, <2>3, FS_Subset
  <2> QED
    BY <2>4 DEF P
<1> HIDE DEF differs
<1>9. q \in [GraphNodes -> SUBSET GraphNodes] /\ \A n \in GraphNodes \ {i} : q[n] = m.pd[n]
  BY <1>1, <1>5
<1>10. i \in D => q[i] = res
  BY <1>1, <1>8
<1>11. ~differs => q = m.pd
  OBVIOUS
<1>12. i \in D => \A x : x \in q[i] <=> x \in m.pd[i] /\ \A s \in BBGraph[i] : x = s \/ x \in m.pd[s]
  BY <1>4, <1>6, <1>10
<1>13. w.pd = q /\ w.res = res /\ w.changed = (m.changed \/ differs)
  OBVIOUS
<1>14. w \in SweepStates
  <2> HIDE DEF q
  <2>1. (m.changed \/ differs) \in BOOLEAN
    BY <1>1, <1>7
  <2> QED
    BY <1>5, <1>9, <2>1 DEF SweepStates
<1>15. ~w.changed => ~m.changed /\ w.pd = m.pd
  BY <1>11, <1>13
<1> HIDE DEF w, q
<1> QED
  BY <1>2, <1>9, <1>12, <1>13, <1>14, <1>15

(* A post dominator that cannot be avoided is never lost, and no set goes  *)
(* beyond what is reached.                                                 *)
SetsAre(pd) ==
    /\ pd \in [GraphNodes -> SUBSET GraphNodes]
    /\ \A i \in D : Cannot(i) \subseteq pd[i] /\ pd[i] \subseteq From(i)

(* A block that leads to an exit has no other post dominator than the exit *)
(* once the sweep has come to it, and till then the exit has its own set.  *)
ExitSets(pd, k) ==
    InOrder => \A n \in D : \A e \in BBGraph[n] \ D : pd[n] \subseteq {e} \/ (k <= n /\ pd[e] = {e})

(* The sets that another sweep over the blocks before k would not change.  *)
Stable(pd, k) ==
    \A i \in D : i < k => \A s \in BBGraph[i] : \A x \in pd[i] : x = s \/ x \in pd[s]

(* A sweep that has come to block k.                                       *)
Swept(m, k) ==
    /\ m \in SweepStates /\ SetsAre(m.pd) /\ ExitSets(m.pd, k)
    /\ ~m.changed => Stable(m.pd, k)

(* One block of a sweep preserves this.                                    *)
LEMMA SweepBlockOK ==
  ASSUME successor = BBGraph, NEW i \in GraphNodes, NEW m, Swept(m, i)
  PROVE  Swept(SweepBlock(m, i), i + 1)
<1> DEFINE w == SweepBlock(m, i)
           q == w.pd
           p == m.pd
<1>1. m \in SweepStates /\ SetsAre(p) /\ ExitSets(p, i) /\ (~m.changed => Stable(p, i))
  BY DEF Swept
<1>2. /\ w \in SweepStates
      /\ \A n \in GraphNodes \ {i} : q[n] = p[n]
      /\ i \in D => \A x : x \in q[i] <=> x \in p[i] /\ \A s \in BBGraph[i] : x = s \/ x \in p[s]
      /\ ~w.changed => ~m.changed /\ q = p
  BY <1>1, SweepBlockIs
<1>3. q \in [GraphNodes -> SUBSET GraphNodes]
  BY <1>2 DEF SweepStates
<1>4. i \in Nat /\ D \subseteq GraphNodes /\ \A n \in GraphNodes : n \in Nat
  BY GraphFinite, GraphEdges
<1>5. /\ \A n \in D : Cannot(n) \subseteq p[n] /\ p[n] \subseteq From(n)
      /\ InOrder => \A n \in D : \A e \in BBGraph[n] \ D : p[n] \subseteq {e} \/ (i <= n /\ p[e] = {e})
      /\ ~m.changed => \A n \in D : n < i => \A s \in BBGraph[n] : \A x \in p[n] : x = s \/ x \in p[s]
  BY <1>1 DEF SetsAre, ExitSets, Stable
<1> HIDE DEF q, p, w
<1>6. SetsAre(q)
  <2> SUFFICES ASSUME NEW n \in D PROVE Cannot(n) \subseteq q[n] /\ q[n] \subseteq From(n)
    BY <1>3 DEF SetsAre
  <2>1. CASE n # i
    BY <1>2, <1>4, <1>5, <2>1
  <2>2. CASE n = i
    <3>1. \A x \in Cannot(n), s \in BBGraph[n] : x = s \/ x \in p[s]
      BY <1>5, CannotIs
    <3> QED
      BY <1>2, <1>5, <2>2, <3>1
  <2> QED
    BY <2>1, <2>2
<1>7. ExitSets(q, i + 1)
  <2> SUFFICES ASSUME InOrder, NEW n \in D, NEW e \in BBGraph[n] \ D
               PROVE  q[n] \subseteq {e} \/ (i + 1 <= n /\ q[e] = {e})
    BY DEF ExitSets
  <2>1. e \in GraphNodes /\ n \in GraphNodes /\ n < e
    BY GraphEdges DEF InOrder
  <2>2. p[n] \subseteq {e} \/ (i <= n /\ p[e] = {e})
    BY <1>5
  <2>3. n \in Nat /\ e \in Nat
    BY <1>4, <2>1
  <2>4. CASE n = i
    <3>1. p[n] \subseteq {e} => q[n] \subseteq {e}
      BY <1>2, <2>4
    <3>2. p[e] = {e} => q[n] \subseteq {e}
      BY <1>2, <2>4
    <3> QED
      BY <2>2, <3>1, <3>2
  <2>5. CASE n # i /\ e # i
    <3>1. q[n] = p[n] /\ q[e] = p[e]
      BY <1>2, <2>1, <2>5
    <3>2. i <= n => i + 1 <= n
      BY <1>4, <2>3, <2>5
    <3> QED
      BY <2>2, <3>1, <3>2
  <2>6. CASE n # i /\ e = i
    <3>1. q[n] = p[n]
      BY <1>2, <2>1, <2>6
    <3>2. ~(i <= n)
      BY <1>4, <2>1, <2>3, <2>6
    <3> QED
      BY <2>2, <3>1, <3>2
  <2> QED
    BY <2>4, <2>5, <2>6
<1>8. ASSUME ~w.changed PROVE Stable(q, i + 1)
  <2> SUFFICES ASSUME NEW n \in D, n < i + 1, NEW s \in BBGraph[n], NEW x \in q[n]
               PROVE  x = s \/ x \in q[s]
    BY DEF Stable
  <2>1. q = p /\ ~m.changed
    BY <1>2, <1>8
  <2>2. CASE n = i
    BY <1>2, <2>1, <2>2
  <2>3. CASE n # i
    <3>1. n < i
      BY <1>4, <2>3
    <3> QED
      BY <1>5, <2>1, <3>1
  <2> QED
    BY <2>2, <2>3
<1>9. Swept(w, i + 1)
  BY <1>2, <1>6, <1>7, <1>8 DEF Swept, q
<1> QED
  BY <1>9 DEF w

(* The recursive function inside Sweep.                                    *)
SweepStep(m, j) == IF j \in BasicBlocks THEN SweepBlock(m, j) ELSE m
IsSweep(f, first, last) ==
    f = [k \in 0 .. last + 1 |-> IF k = 0 THEN first ELSE SweepStep(f[k - 1], k - 1)]

(* The blocks of a sweep are those of the graph.                           *)
LEMMA SameBlocks ==
  ASSUME successor = BBGraph
  PROVE  /\ BasicBlocks = GraphNodes /\ DOMAIN successor = D
         /\ \A i : Successors(i) = Onward(i) /\ DFSOnBBGraph(i) = From(i)
BY DEF BasicBlocks, GraphNodes, D, Successors, Onward, DFSOnBBGraph, From

(* It exists.                                                              *)
LEMMA SweepExists ==
  ASSUME successor = BBGraph, NEW first \in SweepStates, NEW last \in Nat
  PROVE  \E f : IsSweep(f, first, last)
<1> DEFINE n == last + 1
           M == SweepStates
           op == [p \in M \X (1 .. n) |-> SweepStep(p[1], p[2] - 1)]
<1>1. n \in Nat
  OBVIOUS
<1>2. ASSUME NEW S \in M, NEW j PROVE SweepStep(S, j) \in M
  BY SweepBlockIs, SameBlocks DEF SweepStep
<1> HIDE DEF n, M
<1>4. op \in [M \X (1 .. n) -> M]
  BY <1>2
<1>5. \A S \in M, k \in 1 .. n : op[<<S, k>>] = SweepStep(S, k - 1)
  OBVIOUS
<1>6. Steps(op, M, n) /\ first \in M
  BY <1>1, <1>4 DEF Steps, M
<1> HIDE DEF op
<1>7. PICK f \in [0 .. n -> M] : Iterates(f, first, op, n)
  BY <1>6, IndexFunction
<1>8. \A k \in 0 .. n : f[k] = IF k = 0 THEN first ELSE SweepStep(f[k - 1], k - 1)
  <2> SUFFICES ASSUME NEW k \in 0 .. n, k # 0 PROVE f[k] = SweepStep(f[k - 1], k - 1)
    BY <1>1, <1>7 DEF Iterates
  <2>1. k - 1 \in 0 .. n /\ k \in 1 .. n
    BY <1>1
  <2>2. f[k - 1] \in M /\ f[k] = op[<<f[k - 1], k>>]
    BY <1>7, <2>1 DEF Iterates
  <2> QED
    BY <1>5, <2>1, <2>2
<1>9. f = [k \in 0 .. n |-> IF k = 0 THEN first ELSE SweepStep(f[k - 1], k - 1)]
  <2>1. f = [k \in 0 .. n |-> f[k]]
    OBVIOUS
  <2> QED
    BY <1>8, <2>1, Zenon
<1>10. IsSweep(f, first, last)
  BY <1>9, Zenon DEF IsSweep, n
<1> QED
  BY <1>10

(* All blocks one after the other preserve what each of them preserves.    *)
LEMMA SweepOK ==
  ASSUME successor = BBGraph, NEW first, Swept(first, 0), NEW last \in Nat,
         NEW f, IsSweep(f, first, last)
  PROVE  Swept(f[last + 1], last + 1)
<1>1. \A k \in 0 .. last + 1 : f[k] = IF k = 0 THEN first ELSE SweepStep(f[k - 1], k - 1)
  <2> DEFINE h == [k \in 0 .. last + 1 |-> IF k = 0 THEN first ELSE SweepStep(f[k - 1], k - 1)]
  <2>1. \A k \in 0 .. last + 1 : h[k] = IF k = 0 THEN first ELSE SweepStep(f[k - 1], k - 1)
    BY Zenon
  <2>2. f = h
    BY Zenon DEF IsSweep
  <2> HIDE DEF h
  <2> QED
    BY <2>1, <2>2
<1> DEFINE K == {k \in Nat : k <= last + 1 => Swept(f[k], k)}
<1>2. 0 \in K
  <2>1. f[0] = first
    BY <1>1
  <2> QED
    BY <2>1
<1>3. ASSUME NEW k \in Nat, k \in K PROVE k + 1 \in K
  <2> SUFFICES ASSUME k + 1 <= last + 1 PROVE Swept(f[k + 1], k + 1)
    OBVIOUS
  <2>1. Swept(f[k], k) /\ f[k + 1] = SweepStep(f[k], k)
    BY <1>1, <1>3
  <2>2. CASE k \in GraphNodes
    <3>1. f[k + 1] = SweepBlock(f[k], k)
      BY <2>1, <2>2, SameBlocks DEF SweepStep
    <3> QED
      BY <2>1, <2>2, <3>1, SweepBlockOK
  <2>3. CASE k \notin GraphNodes
    <3>1. f[k + 1] = f[k]
      BY <2>1, <2>3, SameBlocks DEF SweepStep
    <3>2. \A n \in D : n \in Nat /\ n # k
      BY <2>3, GraphFinite, GraphEdges
    <3> DEFINE m == f[k]
    <3>3. \A n \in D : (k <= n => k + 1 <= n) /\ (n < k + 1 => n < k)
      BY <3>2
    <3>4. Swept(m, k)
      BY <2>1
    <3> HIDE DEF m
    <3>5. ExitSets(m.pd, k + 1)
      BY <3>3, <3>4 DEF Swept, ExitSets
    <3>6. ~m.changed => Stable(m.pd, k + 1)
      BY <3>3, <3>4 DEF Swept, Stable
    <3>7. Swept(m, k + 1)
      BY <3>4, <3>5, <3>6 DEF Swept
    <3> QED
      BY <3>1, <3>7 DEF m
  <2> QED
    BY <2>2, <2>3
<1>4. Nat \subseteq K
  <2> HIDE DEF K
  <2> QED
    BY <1>2, <1>3, NatSetInduction
<1>5. last + 1 \in K
  <2> HIDE DEF K
  <2> QED
    BY <1>4
<1> QED
  BY <1>5

-----------------------------------------------------------------------------
(* The sets at the end of PreparePostDominator                             *)

(* The sets that no sweep would change any more.                           *)
Fixed(pd) ==
    /\ \A i \in D : \A s \in BBGraph[i] : \A x \in pd[i] : x = s \/ x \in pd[s]
    /\ InOrder => \A n \in D : \A e \in BBGraph[n] \ D : pd[n] \subseteq {e}

(* The sets are what is reached at first, and within the bounds of SetsAre *)
(* till they are fixed.                                                    *)
DominateInv ==
    /\ successor = BBGraph
    /\ GraphNodes # {} =>
          \/ post_dominator = <<>> /\ changed
          \/ /\ SetsAre(post_dominator) /\ ExitSets(post_dominator, 0)
             /\ ~changed => Fixed(post_dominator)

(* The sets of the blocks that they are reached from.                      *)
LEMMA StartSweepsOK ==
  ASSUME DominateInv, StartSweeps
  PROVE  DominateInv'
<1> DEFINE pd == Reached
<1>1. successor = BBGraph /\ successor' = successor /\ changed' = changed /\ post_dominator' = pd
  BY DEF DominateInv, StartSweeps
<1>2. GraphNodes # {} => changed
  <2>1. GraphNodes # {} => post_dominator = <<>>
    BY DEF StartSweeps
  <2>2. ASSUME GraphNodes # {}, SetsAre(<<>>) PROVE FALSE
    <3>1. <<>> \in [GraphNodes -> SUBSET GraphNodes]
      BY <2>2 DEF SetsAre
    <3> QED
      BY <2>2, <3>1
  <2> QED
    BY <2>1, <2>2 DEF DominateInv
<1>3. pd = [i \in GraphNodes |->
                IF i \in D \/ \E j \in D : j < i /\ i \in From(j) THEN From(i) ELSE {}]
  BY <1>1, SameBlocks DEF Reached
<1> HIDE DEF pd
<1>4. pd \in [GraphNodes -> SUBSET GraphNodes]
  BY <1>3, FromIs
<1>5. \A i \in D : pd[i] = From(i)
  BY <1>3, GraphEdges
<1>6. SetsAre(pd)
  BY <1>4, <1>5, CannotIs DEF SetsAre
<1>7. ExitSets(pd, 0)
  <2> SUFFICES ASSUME InOrder, NEW n \in D, NEW e \in BBGraph[n] \ D PROVE 0 <= n /\ pd[e] = {e}
    BY DEF ExitSets
  <2>1. n < e /\ e \in GraphNodes /\ n \in Nat
    BY GraphEdges, GraphFinite DEF InOrder
  <2>2. e \in From(n) /\ From(e) = {e}
    BY FromIs
  <2>3. pd[e] = From(e)
    BY <1>3, <2>1, <2>2
  <2> QED
    BY <2>1, <2>2, <2>3
<1> QED
  BY <1>1, <1>2, <1>6, <1>7 DEF DominateInv

(* A sweep keeps them within the bounds, and leaves them only if they are  *)
(* fixed.                                                                  *)
LEMMA SweepKeeps ==
  ASSUME DominateInv, Sweep
  PROVE  DominateInv'
<1> DEFINE first == [pd |-> post_dominator, res |-> {}, changed |-> FALSE]
           last == Max(BasicBlocks \cup {0})
           f == CHOOSE g : IsSweep(g, first, last)
           m == f[last + 1]
<1>1. successor = BBGraph /\ successor' = successor /\ DOMAIN post_dominator = GraphNodes
  BY SameBlocks DEF DominateInv, Sweep
<1>2. post_dominator' = m.pd /\ changed' = m.changed
  BY Zenon DEF Sweep, IsSweep, SweepStep
<1>3. last \in Nat /\ \A n \in GraphNodes : n <= last
  <2> DEFINE S == BasicBlocks \cup {0}
  <2>1. S \in SUBSET Nat /\ S # {} /\ IsFiniteSet(S) /\ GraphNodes \subseteq S
    BY <1>1, SameBlocks, GraphFinite, FS_AddElement
  <2>2. last = CHOOSE x \in S : \A y \in S : x >= y
    BY DEF Max
  <2> HIDE DEF last, S
  <2>3. \E x \in S : \A y \in S : y <= x
    BY <2>1, FiniteMaximum
  <2>4. \E x \in S : \A y \in S : x >= y
    BY <2>1, <2>3
  <2>5. last \in S /\ \A y \in S : last >= y
    BY <2>2, <2>4, Zenon
  <2> QED
    BY <2>1, <2>5
<1> HIDE DEF last
<1> SUFFICES ASSUME GraphNodes # {}
             PROVE  /\ SetsAre(m.pd) /\ ExitSets(m.pd, 0)
                    /\ ~m.changed => Fixed(m.pd)
  BY <1>1, <1>2 DEF DominateInv
<1>4. SetsAre(post_dominator) /\ ExitSets(post_dominator, 0)
  <2>1. post_dominator # <<>>
    BY <1>1
  <2> QED
    BY <2>1 DEF DominateInv
<1>5. Swept(first, 0)
  <2>1. first \in SweepStates
    BY <1>4 DEF SetsAre, SweepStates
  <2>2. Stable(post_dominator, 0)
    BY GraphFinite, GraphEdges DEF Stable
  <2>3. first.pd = post_dominator
    OBVIOUS
  <2> QED
    BY <1>4, <2>1, <2>2, <2>3 DEF Swept
<1>6. IsSweep(f, first, last)
  <2>1. first \in SweepStates
    BY <1>5 DEF Swept
  <2> HIDE DEF first
  <2> QED
    BY <1>1, <1>3, <2>1, SweepExists
<1> HIDE DEF first, f
<1>7. Swept(m, last + 1)
  BY <1>1, <1>3, <1>5, <1>6, SweepOK
<1> HIDE DEF m
<1>8. m \in SweepStates /\ SetsAre(m.pd) /\ ExitSets(m.pd, last + 1) /\ (~m.changed => Stable(m.pd, last + 1))
  BY <1>7 DEF Swept
<1>9. \A n \in D : n \in Nat /\ n < last + 1 /\ ~(last + 1 <= n)
  <2>1. \A n \in D : n \in Nat /\ n <= last
    BY <1>3, GraphFinite, GraphEdges
  <2> QED
    BY <1>3, <2>1
<1>10. InOrder => \A n \in D : \A e \in BBGraph[n] \ D : m.pd[n] \subseteq {e}
  BY <1>8, <1>9 DEF ExitSets
<1>11. ExitSets(m.pd, 0)
  BY <1>10 DEF ExitSets
<1>12. ASSUME ~m.changed PROVE Fixed(m.pd)
  BY <1>8, <1>9, <1>10, <1>12 DEF Fixed, Stable
<1> QED
  BY <1>8, <1>11, <1>12

(* The fixed sets hold what cannot be avoided and, unless an exit is       *)
(* numbered before a block that leads to it, nothing else.                 *)
LEMMA FixedAre ==
  ASSUME NEW pd, SetsAre(pd), Fixed(pd), NEW i \in D
  PROVE  Cannot(i) \subseteq pd[i] /\ (InOrder => pd[i] \subseteq Cannot(i))
<1>1. /\ pd \in [GraphNodes -> SUBSET GraphNodes]
      /\ \A n \in D : Cannot(n) \subseteq pd[n] /\ pd[n] \subseteq From(n)
  BY DEF SetsAre
<1>2. ASSUME InOrder, NEW x \in pd[i] PROVE x \in Cannot(i)
  <2> DEFINE T == {n \in D : x \in pd[n]}
  <2>1. \A n \in D : \A s \in BBGraph[n] : x \in pd[n] /\ x # s => s \in D /\ x \in pd[s]
    <3> SUFFICES ASSUME NEW n \in D, NEW s \in BBGraph[n], x \in pd[n], x # s
                 PROVE  s \in D /\ x \in pd[s]
      OBVIOUS
    <3>1. x \in pd[s]
      BY DEF Fixed
    <3>2. s \notin D => pd[n] \subseteq {s}
      BY <1>2 DEF Fixed
    <3> QED
      BY <3>1, <3>2
  <2>2. Onward(i) \ {x} \subseteq T
    BY <1>2, <2>1, GraphEdges
  <2>3. \A n \in T \cap D : BBGraph[n] \ {x} \subseteq T
    BY <2>1
  <2>4. Around(i, x) \subseteq T
    <3> HIDE DEF T
    <3> QED
      BY <2>2, <2>3, AroundIs
  <2>5. x \in GraphNodes
    BY <1>1, <1>2, GraphEdges
  <2>6. \A n \in T : x \in From(n)
    BY <1>1
  <2> QED
    BY <2>4, <2>5, <2>6 DEF Cannot
<1> QED
  BY <1>1, <1>2

(* It holds at first.                                                      *)
LEMMA DominateInit == MainInit => DominateInv
BY DEF MainInit, Prepare, DominateInv

(* Nothing else changes the sets.                                          *)
LEMMA DominateStep == DominateInv /\ [MainNext]_mainVars => DominateInv'
<1> SUFFICES ASSUME DominateInv, [MainNext]_mainVars PROVE DominateInv'
  OBVIOUS
<1>1. ASSUME UNCHANGED dominatorVars PROVE DominateInv'
  BY <1>1 DEF dominatorVars, DominateInv
<1>2. CASE StartSweeps
  BY <1>2, StartSweepsOK
<1>3. CASE Sweep
  BY <1>3, SweepKeeps
<1>4. CASE UNCHANGED mainVars
  BY <1>1, <1>4 DEF mainVars
<1>5. CASE Slice
  BY <1>1, <1>5 DEF Slice, SliceDeclare, SliceIgnorable, SliceImpactful, SliceAccess, SliceNormal, SliceBlock
<1>6. CASE StartSlice \/ StartReport \/ Exit
  BY <1>1, <1>6 DEF StartSlice, StartReport, Exit, NextPhase
<1>7. CASE Report
  BY <1>1, <1>7 DEF Report
<1>8. CASE Next /\ UNCHANGED <<dominatorVars, sliceVars>>
  BY <1>1, <1>8
<1> QED
  BY <1>2, <1>3, <1>4, <1>5, <1>6, <1>7, <1>8 DEF MainNext, Dominate

(* It says of the sets what the property says.                             *)
LEMMA DominateEnough == DominateInv => PostDominatorsMatch
<1> SUFFICES ASSUME DominateInv, ~changed, NEW i \in DOMAIN successor
             PROVE  /\ Unavoidable(i) \subseteq post_dominator[i]
                    /\ ExitsLast => post_dominator[i] \subseteq Unavoidable(i)
  BY DEF PostDominatorsMatch
<1>1. successor = BBGraph /\ i \in D
  BY SameBlocks DEF DominateInv
<1>2. SetsAre(post_dominator) /\ Fixed(post_dominator)
  BY <1>1, GraphEdges DEF DominateInv
<1>3. Unavoidable(i) = Cannot(i)
  <2>1. \A j : Reach(successor, Successors(i) \ {j}, {j}) = Around(i, j)
    BY <1>1, SameBlocks DEF Around
  <2>2. \A j : j \in Unavoidable(i) <=> j \in Cannot(i)
    BY <1>1, <2>1, SameBlocks DEF Unavoidable, Cannot
  <2> QED
    BY <2>2 DEF Unavoidable, Cannot
<1>4. ExitsLast => InOrder
  <2> SUFFICES ASSUME ExitsLast, NEW n \in D, NEW e \in BBGraph[n] \ D PROVE n < e
    BY DEF InOrder
  <2>1. e \in BasicBlocks /\ n \in DOMAIN successor /\ e \notin DOMAIN successor /\ e \in successor[n]
    BY <1>1, SameBlocks, GraphEdges
  <2> QED
    BY <2>1 DEF ExitsLast
<1> QED
  BY <1>1, <1>2, <1>3, <1>4, FixedAre

(* When PreparePostDominator is done, the post dominators of a block are   *)
(* at least the blocks that no path from it can get round, and exactly     *)
(* those if the exits are numbered after the blocks that lead to them,     *)
(* whatever the graph: PostDominatorsMatch for any graph.                  *)
THEOREM PostDominatorsMatchAlways == MainSpec => []PostDominatorsMatch
<1>1. MainInit => DominateInv
  BY DominateInit
<1>2. DominateInv /\ [MainNext]_mainVars => DominateInv'
  BY DominateStep
<1>3. DominateInv => PostDominatorsMatch
  BY DominateEnough
<1> QED
  BY <1>1, <1>2, <1>3, PTL DEF MainSpec

-----------------------------------------------------------------------------
(* The variables of ExtractUneededOperation                                *)

InsIDs == DOMAIN SSADependencies
SliceFields ==
    {"at", "inst_count", "needed", "mem_depended", "frames", "this_bb_used",
     "unneeded_di", "Addr2Unneded", "kept"}
IsSlice(u) == DOMAIN u = SliceFields

(* The execution d has been read.                                          *)
HasRun(u, d) == d.Cnt > -Cnt(u, d.TID, d.ID)

(* What is left as it was, and what may have changed, when executions that *)
(* have been read turn out to be needed: needed is another matter.         *)
GoesBack(u, v) ==
    /\ IsSlice(v)
    /\ v.at = u.at /\ v.inst_count = u.inst_count /\ v.frames = u.frames
    /\ v.this_bb_used = u.this_bb_used /\ v.Addr2Unneded = u.Addr2Unneded
    /\ v.unneeded_di \subseteq u.unneeded_di
    /\ \A d \in u.mem_depended \ v.mem_depended : HasRun(u, d)
    /\ u.kept \subseteq v.kept /\ \A h \in v.kept \ u.kept : h.late

(* One of them.                                                            *)
LEMMA LateGoesBack ==
  ASSUME NEW u, NEW x, GoesBack(u, x), NEW b, NEW d, HasRun(u, d)
  PROVE  GoesBack(u, Late(x, b, d))
<1> DEFINE w == OneInstruction(x, d, b.lastbb, TRUE)
           v == [w EXCEPT !.unneeded_di = @ \ {d}]
           h1 == [inst |-> d, at |-> x.at, late |-> TRUE]
<1>1. v = Late(x, b, d)
  BY DEF Late
<1>2. /\ IsSlice(w)
      /\ w.at = x.at /\ w.inst_count = x.inst_count /\ w.frames = x.frames
      /\ w.this_bb_used = x.this_bb_used /\ w.unneeded_di = x.unneeded_di
      /\ w.Addr2Unneded = x.Addr2Unneded
      /\ w.mem_depended = (x.mem_depended \ {d}) \cup MemNeeds(d)
      /\ w.kept = x.kept \cup {h1}
  <2>1. IsSlice(x)
    BY DEF GoesBack
  <2> QED
    BY <2>1 DEF OneInstruction, IsSlice, SliceFields
<1> HIDE DEF w
<1>3. /\ IsSlice(v)
      /\ v.at = w.at /\ v.inst_count = w.inst_count /\ v.frames = w.frames
      /\ v.this_bb_used = w.this_bb_used /\ v.Addr2Unneded = w.Addr2Unneded
      /\ v.mem_depended = w.mem_depended /\ v.kept = w.kept
      /\ v.unneeded_di = w.unneeded_di \ {d}
  BY <1>2 DEF IsSlice, SliceFields
<1>4. h1.late
  OBVIOUS
<1> HIDE DEF v, h1
<1>5. GoesBack(u, v)
  BY <1>2, <1>3, <1>4 DEF GoesBack
<1> QED
  BY <1>1, <1>5

(* The instructions of the basic block once more, one of them.             *)
Again(u, b, diff, x, ins) ==
    LET e == DynamicInst(b.tid, ins, diff - Cnt(u, b.tid, ins)) IN
    IF Needs(x, e) THEN Late(x, b, e) ELSE x

IsOneBlock(f, u, b, diff, code, first) ==
    f = [k \in 0 .. Len(code) |->
            IF k = 0 THEN first ELSE Again(u, b, diff, f[k - 1], code[Len(code) - k + 1])]

(* The numbers of executions are natural.                                  *)
CountsOK(f) == DOMAIN f \subseteq Tids \X InsIDs /\ \A p \in DOMAIN f : f[p] \in Nat

(* Such a count is a number.                                               *)
LEMMA CntIsNat ==
  ASSUME NEW u, CountsOK(u.inst_count)
  PROVE  \A t, i : Cnt(u, t, i) \in Nat
BY DEF Cnt, CountsOK

(* Steps of any kind can be taken one after the other.                     *)
LEMMA OneBlockExists ==
  ASSUME NEW u, NEW b, NEW diff, NEW code \in Seq(InsIDs), NEW first
  PROVE  \E f : IsOneBlock(f, u, b, diff, code, first)
<1> DEFINE n == Len(code)
           Is(f, m) == \A k \in 0 .. m : f[k] = IF k = 0 THEN first
                                                ELSE Again(u, b, diff, f[k - 1], code[n - k + 1])
           K == {m \in Nat : \E f : Is(f, m)}
<1>1. n \in Nat
  OBVIOUS
<1>2. 0 \in K
  <2>1. Is([k \in {0} |-> first], 0)
    OBVIOUS
  <2> QED
    BY <2>1
<1>3. ASSUME NEW m \in Nat, m \in K PROVE m + 1 \in K
  <2>1. PICK f : Is(f, m)
    BY <1>3
  <2> DEFINE g == [k \in 0 .. m + 1 |-> IF k <= m THEN f[k] ELSE Again(u, b, diff, f[m], code[n - (m + 1) + 1])]
  <2>2. \A k \in 0 .. m : g[k] = f[k]
    OBVIOUS
  <2>3. g[m + 1] = Again(u, b, diff, f[m], code[n - (m + 1) + 1])
    OBVIOUS
  <2> HIDE DEF g
  <2>4. ASSUME NEW k \in 0 .. m + 1
        PROVE  g[k] = IF k = 0 THEN first ELSE Again(u, b, diff, g[k - 1], code[n - k + 1])
    <3>1. CASE k \in 0 .. m
      <4>1. k # 0 => k - 1 \in 0 .. m
        BY <3>1
      <4> QED
        BY <2>1, <2>2, <3>1, <4>1
    <3>2. CASE k = m + 1
      <4>1. k - 1 = m /\ m \in 0 .. m /\ k # 0
        BY <3>2
      <4>2. g[k - 1] = f[m]
        BY <2>2, <4>1
      <4> QED
        BY <2>3, <3>2, <4>1, <4>2
    <3> QED
      BY <3>1, <3>2
  <2> QED
    BY <2>4
<1>4. n \in K
  <2> HIDE DEF K
  <2>1. Nat \subseteq K
    BY <1>2, <1>3, NatSetInduction
  <2> QED
    BY <1>1, <2>1
<1>5. PICK f : Is(f, n)
  BY <1>4
<1> DEFINE h == [k \in 0 .. n |-> f[k]]
<1>6. \A k \in 0 .. n : h[k] = IF k = 0 THEN first ELSE Again(u, b, diff, h[k - 1], code[n - k + 1])
  <2> SUFFICES ASSUME NEW k \in 0 .. n
               PROVE  f[k] = IF k = 0 THEN first ELSE Again(u, b, diff, h[k - 1], code[n - k + 1])
    OBVIOUS
  <2>1. k # 0 => k - 1 \in 0 .. n
    BY <1>1
  <2> QED
    BY <1>5, <2>1
<1>7. h = [k \in 0 .. n |-> IF k = 0 THEN first ELSE Again(u, b, diff, h[k - 1], code[n - k + 1])]
  <2>1. h = [k \in 0 .. n |-> h[k]]
    OBVIOUS
  <2> HIDE DEF h
  <2> QED
    BY <1>6, <2>1, Zenon
<1> HIDE DEF h
<1>8. IsOneBlock(h, u, b, diff, code, first)
  BY <1>7, Zenon DEF IsOneBlock, n
<1> QED
  BY <1>8

(* What may have changed, the frames and the block aside, when nothing     *)
(* more has been read: everything that is needed stays needed.             *)
Quiet(u, v) ==
    /\ IsSlice(v)
    /\ v.at = u.at /\ v.inst_count = u.inst_count /\ v.Addr2Unneded = u.Addr2Unneded
    /\ u.needed \subseteq v.needed /\ v.unneeded_di \subseteq u.unneeded_di
    /\ \A d \in u.mem_depended \ v.mem_depended : HasRun(u, d)
    /\ u.kept \subseteq v.kept /\ \A h \in v.kept \ u.kept : h.late

(* It may change so twice.                                                 *)
LEMMA QuietTwice ==
  ASSUME NEW u, NEW v, NEW w, Quiet(u, v), Quiet(v, w)
  PROVE  Quiet(u, w)
<1>1. \A d : HasRun(v, d) <=> HasRun(u, d)
  BY DEF Quiet, HasRun, Cnt
<1> QED
  BY <1>1 DEF Quiet

(* The terminator of a used basic block has been read, and so have the     *)
(* executions of the same visit.                                           *)
LEMMA OneBlockQuiet ==
  ASSUME NEW u, IsSlice(u), CountsOK(u.inst_count), NEW b, NEW d, d.Cnt \in Int, d.TID = b.tid,
         HasRun(u, d), NEW bb \in DOMAIN BB2Ins
  PROVE  /\ Quiet(u, OneBlock(u, d, b, bb))
         /\ OneBlock(u, d, b, bb).frames = u.frames
         /\ OneBlock(u, d, b, bb).this_bb_used = u.this_bb_used
<1> DEFINE diff == d.Cnt + Cnt(u, b.tid, d.ID)
           code == BB2Ins[bb]
           n == Len(code)
           u0 == [u EXCEPT !.needed = {}]
           first == Late(u0, b, d)
           f == CHOOSE g : IsOneBlock(g, u, b, diff, code, first)
           all == f[n]
           v == [all EXCEPT !.needed = u.needed \cup @]
<1>1. OneBlock(u, d, b, bb) = v
  BY Zenon DEF OneBlock, FromLast, IsOneBlock, Again
<1>2. code \in Seq(InsIDs) /\ n \in Nat
  BY InstructionAssumption DEF InsIDs
<1>3. diff \in Int /\ diff >= 1 /\ \A t, i : Cnt(u, t, i) \in Nat
  BY CntIsNat DEF HasRun
<1>4. GoesBack(u, u0)
  BY DEF IsSlice, SliceFields, GoesBack
<1>5. GoesBack(u, first)
  <2> HIDE DEF u0
  <2> QED
    BY <1>4, LateGoesBack
<1>6. \A i : HasRun(u, DynamicInst(b.tid, i, diff - Cnt(u, b.tid, i)))
  <2> HIDE DEF diff
  <2> SUFFICES ASSUME NEW i PROVE HasRun(u, DynamicInst(b.tid, i, diff - Cnt(u, b.tid, i)))
    OBVIOUS
  <2>1. Cnt(u, b.tid, i) \in Nat /\ diff \in Int /\ diff >= 1
    BY <1>3
  <2>2. diff - Cnt(u, b.tid, i) > -Cnt(u, b.tid, i)
    BY <2>1
  <2> QED
    BY <2>2 DEF HasRun, DynamicInst
<1> HIDE DEF diff, code, u0, first
<1>7. IsOneBlock(f, u, b, diff, code, first)
  BY <1>2, OneBlockExists
<1> HIDE DEF f
<1>8. \A k \in 0 .. n : f[k] = IF k = 0 THEN first ELSE Again(u, b, diff, f[k - 1], code[Len(code) - k + 1])
  <2> DEFINE h == [k \in 0 .. Len(code) |->
                      IF k = 0 THEN first ELSE Again(u, b, diff, f[k - 1], code[Len(code) - k + 1])]
  <2>1. \A k \in 0 .. n : h[k] = IF k = 0 THEN first
                                 ELSE Again(u, b, diff, f[k - 1], code[Len(code) - k + 1])
    BY Zenon
  <2>2. f = h
    BY <1>7, Zenon DEF IsOneBlock
  <2> HIDE DEF h
  <2> QED
    BY <2>1, <2>2
<1>9. \A x, i : GoesBack(u, x) => GoesBack(u, Again(u, b, diff, x, i))
  <2> SUFFICES ASSUME NEW x, NEW i, GoesBack(u, x) PROVE GoesBack(u, Again(u, b, diff, x, i))
    OBVIOUS
  <2> DEFINE e == DynamicInst(b.tid, i, diff - Cnt(u, b.tid, i))
  <2>1. HasRun(u, e)
    BY <1>6
  <2>2. Again(u, b, diff, x, i) = IF Needs(x, e) THEN Late(x, b, e) ELSE x
    BY DEF Again
  <2> HIDE DEF e
  <2>3. GoesBack(u, Late(x, b, e))
    BY <2>1, LateGoesBack
  <2> QED
    BY <2>2, <2>3
<1> HIDE DEF n
<1> DEFINE K == {k \in Nat : k <= n => GoesBack(u, f[k])}
<1>10. 0 \in K
  BY <1>2, <1>5, <1>8
<1>11. ASSUME NEW k \in Nat, k \in K PROVE k + 1 \in K
  <2> SUFFICES ASSUME k + 1 <= n PROVE GoesBack(u, f[k + 1])
    OBVIOUS
  <2>0. PICK e \in 0 .. n : e = k + 1
    BY <1>2
  <2>1. f[e] = Again(u, b, diff, f[e - 1], code[Len(code) - e + 1])
    BY <1>2, <1>8, <2>0
  <2>2. GoesBack(u, f[e - 1])
    BY <1>2, <1>11, <2>0
  <2>3. GoesBack(u, f[e])
    BY <1>9, <2>1, <2>2
  <2> QED
    BY <2>0, <2>3
<1>12. n \in K
  <2> HIDE DEF K
  <2>1. Nat \subseteq K
    BY <1>10, <1>11, NatSetInduction
  <2> QED
    BY <1>2, <2>1
<1>13. GoesBack(u, all)
  BY <1>2, <1>12
<1> HIDE DEF all
<1>14. /\ IsSlice(v)
       /\ v.at = all.at /\ v.inst_count = all.inst_count /\ v.frames = all.frames
       /\ v.this_bb_used = all.this_bb_used /\ v.Addr2Unneded = all.Addr2Unneded
       /\ v.mem_depended = all.mem_depended /\ v.kept = all.kept
       /\ v.unneeded_di = all.unneeded_di
       /\ v.needed = u.needed \cup all.needed
  BY <1>13 DEF GoesBack, IsSlice, SliceFields
<1> HIDE DEF v
<1>15. Quiet(u, v) /\ v.frames = u.frames /\ v.this_bb_used = u.this_bb_used
  BY <1>13, <1>14 DEF Quiet, GoesBack
<1> QED
  BY <1>1, <1>15

-----------------------------------------------------------------------------
(* The frames                                                              *)

InstRecs == [TID : Tids \cup {0}, ID : InsIDs \cup {0}, Cnt : Int]
FrameRecs == [used : BOOLEAN, bb : DOMAIN BB2Ins, bb_used : BOOLEAN,
              terminator : InstRecs, settled : BOOLEAN]

(* A terminator that is not settled has been read, in the same thread.     *)
FramesOf(u, t) ==
    {f \in FrameRecs : f.settled \/ (f.terminator.TID = t /\ HasRun(u, f.terminator))}

SliceOK(u) ==
    /\ IsSlice(u) /\ CountsOK(u.inst_count) /\ u.at \in Nat /\ u.this_bb_used \in BOOLEAN
    /\ DOMAIN u.frames = Tids /\ \A t \in Tids : u.frames[t] \in Seq(FramesOf(u, t))
    /\ \A d \in u.unneeded_di : d \in InstRecs /\ d.ID \in InsIDs /\ HasRun(u, d)
    /\ \A x \in u.Addr2Unneded : x[2] \in InsIDs

(* n frames of thread t are new, and no frame has become unused.           *)
Deeper(u, v, t, n) ==
    /\ \A s \in Tids \ {t} : v.frames[s] = u.frames[s]
    /\ Len(v.frames[t]) = Len(u.frames[t]) + n
    /\ \A i \in 1 .. Len(u.frames[t]) : u.frames[t][i].used => v.frames[t][i].used

(* A sequence with another last element.                                   *)
LEMMA NewLast ==
  ASSUME NEW S, NEW s \in Seq(S), s # <<>>, NEW x \in S
  PROVE  /\ Append(Front(s), x) \in Seq(S) /\ Len(Append(Front(s), x)) = Len(s)
         /\ Append(Front(s), x)[Len(s)] = x /\ Last(Append(Front(s), x)) = x
         /\ \A i \in 1 .. Len(s) - 1 : Append(Front(s), x)[i] = s[i]
<1>1. Len(s) \in Nat /\ Len(s) > 0
  OBVIOUS
<1>2. Front(s) \in Seq(S) /\ Len(Front(s)) = Len(s) - 1 /\ \A i \in 1 .. Len(s) - 1 : Front(s)[i] = s[i]
  <2>1. PICK m \in Nat : Len(s) = m + 1 /\ m = Len(s) - 1
    BY <1>1
  <2> QED
    BY <2>1, FrontIs
<1> DEFINE p == Front(s)
           n == Len(s)
<1>3. p \in Seq(S) /\ n \in Nat /\ n > 0 /\ Len(p) = n - 1 /\ \A i \in 1 .. n - 1 : p[i] = s[i]
  BY <1>1, <1>2
<1> HIDE DEF p, n
<1>4. /\ Append(p, x) \in Seq(S) /\ Len(Append(p, x)) = n /\ Append(p, x)[n] = x
      /\ \A i \in 1 .. n - 1 : Append(p, x)[i] = s[i]
  BY <1>3
<1>5. Last(Append(p, x)) = x
  BY <1>4 DEF Last
<1> QED
  BY <1>4, <1>5 DEF p, n

(* The top of the stack of a thread that has one.                          *)
LEMMA TopIs ==
  ASSUME NEW u, SliceOK(u), NEW b, b.tid \in Tids, u.frames[b.tid] # <<>>
  PROVE  /\ Top(u, b) = u.frames[b.tid][Len(u.frames[b.tid])]
         /\ Top(u, b) \in FramesOf(u, b.tid) /\ Top(u, b) \in FrameRecs
<1> DEFINE s == u.frames[b.tid]
           S == FramesOf(u, b.tid)
<1>1. s \in Seq(S) /\ s # <<>>
  BY DEF SliceOK
<1>2. Top(u, b) = s[Len(s)]
  BY DEF Top, Last
<1> HIDE DEF s, S
<1>3. s[Len(s)] \in S
  BY <1>1
<1> QED
  BY <1>2, <1>3 DEF s, S, FramesOf

(* Another frame at the top.                                               *)
LEMMA SetTopIs ==
  ASSUME NEW u, SliceOK(u), NEW b, b.tid \in Tids, u.frames[b.tid] # <<>>,
         NEW f \in FramesOf(u, b.tid), Top(u, b).used => f.used
  PROVE  LET v == SetTop(u, b, f) IN
         /\ SliceOK(v) /\ Quiet(u, v) /\ Deeper(u, v, b.tid, 0)
         /\ v.this_bb_used = u.this_bb_used
         /\ v.needed = u.needed /\ v.kept = u.kept /\ v.mem_depended = u.mem_depended
         /\ v.unneeded_di = u.unneeded_di /\ Top(v, b) = f /\ v.frames[b.tid] # <<>>
<1> DEFINE t == b.tid
           s == u.frames[t]
           r == Append(Front(s), f)
           S == FramesOf(u, t)
           v == SetTop(u, b, f)
<1>1. v = [u EXCEPT !.frames[t] = r]
  BY DEF SetTop
<1>2. IsSlice(u) /\ DOMAIN u.frames = Tids /\ t \in Tids /\ s \in Seq(S) /\ s # <<>> /\ f \in S
  BY DEF SliceOK
<1> HIDE DEF v, r
<1>3. /\ IsSlice(v)
      /\ v.at = u.at /\ v.inst_count = u.inst_count /\ v.this_bb_used = u.this_bb_used
      /\ v.Addr2Unneded = u.Addr2Unneded /\ v.needed = u.needed /\ v.kept = u.kept
      /\ v.mem_depended = u.mem_depended /\ v.unneeded_di = u.unneeded_di
      /\ DOMAIN v.frames = Tids /\ v.frames[t] = r
      /\ \A i \in Tids \ {t} : v.frames[i] = u.frames[i]
  BY <1>1, <1>2 DEF IsSlice, SliceFields
<1>4. \A i : FramesOf(v, i) = FramesOf(u, i)
  BY <1>3 DEF FramesOf, HasRun, Cnt
<1>5. \A d : HasRun(v, d) <=> HasRun(u, d)
  BY <1>3 DEF HasRun, Cnt
<1> HIDE DEF S, s
<1>6. /\ r \in Seq(S) /\ Len(r) = Len(s) /\ r[Len(s)] = f /\ Last(r) = f
      /\ \A i \in 1 .. Len(s) - 1 : r[i] = s[i]
  BY <1>2, NewLast DEF r
<1>7. Len(s) \in Nat /\ Len(s) > 0
  BY <1>2
<1>8. SliceOK(v)
  <2>1. \A i \in Tids : v.frames[i] \in Seq(FramesOf(v, i))
    <3> SUFFICES ASSUME NEW i \in Tids PROVE v.frames[i] \in Seq(FramesOf(u, i))
      BY <1>4
    <3>1. CASE i = t
      BY <1>3, <1>6, <3>1 DEF S
    <3>2. CASE i # t
      BY <1>3, <3>2 DEF SliceOK
    <3> QED
      BY <3>1, <3>2
  <2> QED
    BY <1>3, <1>5, <2>1 DEF SliceOK
<1>9. Quiet(u, v)
  BY <1>3 DEF Quiet
<1>10. Deeper(u, v, t, 0)
  <2>1. Top(u, b) = s[Len(s)]
    BY <1>2, TopIs DEF s
  <2>2. \A i \in 1 .. Len(s) : s[i].used => r[i].used
    <3> SUFFICES ASSUME NEW i \in 1 .. Len(s), s[i].used PROVE r[i].used
      OBVIOUS
    <3>1. CASE i = Len(s)
      BY <1>6, <2>1, <3>1
    <3>2. CASE i # Len(s)
      <4>1. i \in 1 .. Len(s) - 1
        BY <1>7, <3>2
      <4> QED
        BY <1>6, <4>1
    <3> QED
      BY <3>1, <3>2
  <2> QED
    BY <1>3, <1>6, <1>7, <2>2 DEF Deeper, s
<1>11. Top(v, b) = f /\ v.frames[t] # <<>>
  <2>1. r # <<>>
    BY <1>6, <1>7
  <2> QED
    BY <1>3, <1>6, <2>1 DEF Top
<1> QED
  BY <1>3, <1>8, <1>9, <1>10, <1>11 DEF v

(* A block that is sliced, in a thread of the trace.                       *)
Sliceable(b) ==
    /\ b.tid \in Tids /\ b.bb \in DOMAIN BB2Ins /\ b.first \in 0 .. 2 /\ b.last \in 0 .. 2

(* The slice is as it should be after quiet changes that keep the frames.  *)
LEMMA QuietOK ==
  ASSUME NEW u, SliceOK(u), NEW v, Quiet(u, v), v.this_bb_used \in BOOLEAN,
         DOMAIN v.frames = Tids, \A t \in Tids : v.frames[t] \in Seq(FramesOf(u, t))
  PROVE  SliceOK(v)
<1>1. \A d : HasRun(v, d) <=> HasRun(u, d)
  BY DEF Quiet, HasRun, Cnt
<1>2. \A t : FramesOf(v, t) = FramesOf(u, t)
  BY <1>1 DEF FramesOf
<1> QED
  BY <1>1, <1>2 DEF SliceOK, Quiet

(* What may have changed when the terminator has been settled.             *)
LEMMA SettleOK ==
  ASSUME NEW u, SliceOK(u), NEW b, Sliceable(b), u.frames[b.tid] # <<>>, NEW bb \in DOMAIN BB2Ins
  PROVE  LET v == SettleTerminator(u, b, bb) IN
         SliceOK(v) /\ Quiet(u, v) /\ v.frames = u.frames /\ v.this_bb_used = u.this_bb_used
<1> DEFINE top == Top(u, b)
           v == OneBlock(u, top.terminator, b, bb)
<1>1. top \in FramesOf(u, b.tid) /\ top \in FrameRecs
  BY TopIs DEF Sliceable
<1>2. CASE top.settled
  <2>1. SettleTerminator(u, b, bb) = u
    BY <1>2 DEF SettleTerminator
  <2>2. Quiet(u, u)
    BY DEF SliceOK, Quiet
  <2> QED
    BY <2>1, <2>2
<1>3. CASE ~top.settled
  <2>1. SettleTerminator(u, b, bb) = v
    BY <1>3 DEF SettleTerminator
  <2>2. top.terminator.TID = b.tid /\ HasRun(u, top.terminator) /\ top.terminator \in InstRecs
    BY <1>1, <1>3 DEF FramesOf, FrameRecs
  <2>3. top.terminator.Cnt \in Int
    BY <2>2 DEF InstRecs
  <2> HIDE DEF top
  <2>4. IsSlice(u) /\ CountsOK(u.inst_count)
    BY DEF SliceOK
  <2>5. Quiet(u, v) /\ v.frames = u.frames /\ v.this_bb_used = u.this_bb_used
    BY <2>2, <2>3, <2>4, OneBlockQuiet
  <2> HIDE DEF v
  <2>6. SliceOK(v)
    <3>1. v.this_bb_used \in BOOLEAN /\ DOMAIN v.frames = Tids
          /\ \A t \in Tids : v.frames[t] \in Seq(FramesOf(u, t))
      BY <2>5 DEF SliceOK
    <3> QED
      BY <2>5, <3>1, QuietOK
  <2> QED
    BY <2>1, <2>5, <2>6
<1> QED
  BY <1>2, <1>3

(* The end of a function pushes a frame, another basic block settles the   *)
(* terminator of the one before.                                           *)
LEMMA EnterBlockOK ==
  ASSUME NEW u, SliceOK(u), NEW b, Sliceable(b), b.last > 0 \/ u.frames[b.tid] # <<>>
  PROVE  LET v == EnterBlock(u, b) IN
         /\ SliceOK(v) /\ Quiet(u, v) /\ Deeper(u, v, b.tid, IF b.last > 0 THEN 1 ELSE 0)
         /\ v.this_bb_used = u.this_bb_used /\ v.frames[b.tid] # <<>>
<1> DEFINE t == b.tid
           s == u.frames[t]
           S == FramesOf(u, t)
           f == Frame(b.bb)
           v == EnterBlock(u, b)
<1>0. IsSlice(u) /\ DOMAIN u.frames = Tids /\ t \in Tids /\ s \in Seq(S) /\ Len(s) \in Nat
  BY DEF SliceOK, Sliceable
<1>1. CASE b.last > 0
  <2> DEFINE r == Append(s, f)
  <2>1. v = [u EXCEPT !.frames[t] = r]
    BY <1>1 DEF EnterBlock
  <2>2. f \in S
    BY DEF Frame, FramesOf, FrameRecs, Sliceable, InstRecs, NoInst, DynamicInst
  <2> HIDE DEF v, S, f
  <2>3. r \in Seq(S) /\ Len(r) = Len(s) + 1 /\ \A i \in 1 .. Len(s) : r[i] = s[i]
    BY <1>0, <2>2
  <2> HIDE DEF r
  <2>4. /\ IsSlice(v)
        /\ v.at = u.at /\ v.inst_count = u.inst_count /\ v.this_bb_used = u.this_bb_used
        /\ v.Addr2Unneded = u.Addr2Unneded /\ v.needed = u.needed /\ v.kept = u.kept
        /\ v.mem_depended = u.mem_depended /\ v.unneeded_di = u.unneeded_di
        /\ DOMAIN v.frames = Tids /\ v.frames[t] = r
        /\ \A i \in Tids \ {t} : v.frames[i] = u.frames[i]
    BY <1>0, <2>1 DEF IsSlice, SliceFields
  <2>5. Quiet(u, v)
    BY <2>4 DEF Quiet
  <2>6. \A i \in Tids : v.frames[i] \in Seq(FramesOf(u, i))
    BY <2>3, <2>4 DEF SliceOK, S
  <2>7. SliceOK(v)
    <3>1. v.this_bb_used \in BOOLEAN
      BY <2>4 DEF SliceOK
    <3> QED
      BY <2>4, <2>5, <2>6, <3>1, QuietOK
  <2>8. Deeper(u, v, t, 1)
    BY <2>3, <2>4 DEF Deeper, s
  <2>9. v.frames[t] # <<>>
    BY <1>0, <2>3, <2>4
  <2> QED
    BY <1>1, <2>4, <2>5, <2>7, <2>8, <2>9 DEF v
<1>2. CASE ~(b.last > 0)
  <2> DEFINE top == Top(u, b)
             x == SettleTerminator(u, b, top.bb)
             g == [top EXCEPT !.terminator = NoInst, !.settled = TRUE]
  <2>1. s # <<>>
    BY <1>2
  <2>2. top \in FrameRecs
    BY <1>0, <2>1, TopIs
  <2>3. CASE top.bb # b.bb /\ top.bb_used
    <3>1. v = SetTop(x, b, g)
      BY <1>2, <2>1, <2>3 DEF EnterBlock
    <3>2. SliceOK(x) /\ Quiet(u, x) /\ x.frames = u.frames /\ x.this_bb_used = u.this_bb_used
      <4>1. top.bb \in DOMAIN BB2Ins
        BY <2>2 DEF FrameRecs
      <4> HIDE DEF top
      <4> QED
        BY <2>1, <4>1, SettleOK
    <3>3. top = Top(x, b)
      BY <3>2 DEF Top
    <3>4. NoInst \in InstRecs
      BY DEF InstRecs, NoInst, DynamicInst
    <3>5. g \in FramesOf(x, t) /\ g.used = top.used
      BY <2>2, <3>4 DEF FrameRecs, FramesOf
    <3> HIDE DEF x, g, top
    <3>6. LET w == SetTop(x, b, g) IN
          /\ SliceOK(w) /\ Quiet(x, w) /\ Deeper(x, w, t, 0)
          /\ w.this_bb_used = x.this_bb_used /\ w.frames[t] # <<>>
      BY <1>0, <2>1, <3>2, <3>3, <3>5, SetTopIs
    <3> HIDE DEF v
    <3>7. SliceOK(v) /\ Quiet(x, v) /\ Deeper(x, v, t, 0)
          /\ v.this_bb_used = x.this_bb_used /\ v.frames[t] # <<>>
      BY <3>1, <3>6
    <3>8. Quiet(u, v)
      BY <3>2, <3>7, QuietTwice
    <3>9. Deeper(u, v, t, 0)
      BY <3>2, <3>7 DEF Deeper
    <3> QED
      BY <1>2, <3>2, <3>7, <3>8, <3>9 DEF v
  <2>4. CASE ~(top.bb # b.bb /\ top.bb_used)
    <3>1. v = u
      BY <1>2, <2>4 DEF EnterBlock
    <3>2. Quiet(u, u) /\ Deeper(u, u, t, 0)
      BY <1>0 DEF Quiet, Deeper
    <3> HIDE DEF v
    <3> QED
      BY <1>2, <2>1, <3>1, <3>2 DEF v
  <2> QED
    BY <2>3, <2>4
<1> QED
  BY <1>1, <1>2

-----------------------------------------------------------------------------
(* One instruction is read                                                 *)

(* Instruction i of thread t has been counted once more.                   *)
OneMore(u, v, t, i) ==
    \A s, j : Cnt(v, s, j) = IF s = t /\ j = i THEN Cnt(u, s, j) + 1 ELSE Cnt(u, s, j)

(* The frames when the instruction is about to be counted, those of thread *)
(* t as they should be when it has been.                                   *)
Staged(u, x, t, S) ==
    /\ IsSlice(x) /\ x.at = u.at /\ x.inst_count = u.inst_count /\ x.this_bb_used = u.this_bb_used
    /\ DOMAIN x.frames = Tids /\ \A s \in Tids \ {t} : x.frames[s] = u.frames[s]
    /\ x.frames[t] \in Seq(S) /\ Len(x.frames[t]) = Len(u.frames[t])
    /\ \A i \in 1 .. Len(u.frames[t]) : u.frames[t][i].used => x.frames[t][i].used

(* The instruction has been counted, and the frames are no less used.      *)
Counts1(u, v, t, i) ==
    /\ SliceOK(v) /\ v.at = u.at /\ Deeper(u, v, t, 0) /\ v.frames[t] # <<>>
    /\ OneMore(u, v, t, i)

(* A count of one more.                                                    *)
LEMMA CountInsIs ==
  ASSUME NEW u, IsSlice(u), CountsOK(u.inst_count), NEW t \in Tids, NEW i \in InsIDs
  PROVE  LET v == CountIns(u, t, i) IN
         /\ IsSlice(v) /\ CountsOK(v.inst_count)
         /\ v.at = u.at /\ v.frames = u.frames /\ v.this_bb_used = u.this_bb_used
         /\ v.Addr2Unneded = u.Addr2Unneded /\ v.needed = u.needed /\ v.kept = u.kept
         /\ v.mem_depended = u.mem_depended /\ v.unneeded_di = u.unneeded_di
         /\ OneMore(u, v, t, i)
<1> DEFINE v == CountIns(u, t, i)
           c == u.inst_count
           n == Cnt(u, t, i) + 1
           p == <<t, i>>
           d == With(c, p, n)
<1>1. v = [u EXCEPT !.inst_count = d]
  BY DEF CountIns
<1>2. /\ IsSlice(v) /\ v.inst_count = d
      /\ v.at = u.at /\ v.frames = u.frames /\ v.this_bb_used = u.this_bb_used
      /\ v.Addr2Unneded = u.Addr2Unneded /\ v.needed = u.needed /\ v.kept = u.kept
      /\ v.mem_depended = u.mem_depended /\ v.unneeded_di = u.unneeded_di
  BY <1>1 DEF IsSlice, SliceFields
<1>3. n \in Nat
  BY CntIsNat
<1> HIDE DEF n, v
<1>4. DOMAIN d = DOMAIN c \cup {p} /\ \A q \in DOMAIN d : d[q] = IF q = p THEN n ELSE c[q]
  BY DEF With
<1> HIDE DEF d
<1>5. CountsOK(d)
  <2>1. p \in Tids \X InsIDs
    OBVIOUS
  <2> QED
    BY <1>3, <1>4, <2>1 DEF CountsOK
<1>6. \A s, j : Cnt(v, s, j) = IF <<s, j>> \in DOMAIN d THEN d[<<s, j>>] ELSE 0
  BY <1>2 DEF Cnt
<1>7. \A s, j : Cnt(u, s, j) = IF <<s, j>> \in DOMAIN c THEN c[<<s, j>>] ELSE 0
  BY DEF Cnt
<1>8. OneMore(u, v, t, i)
  <2> SUFFICES ASSUME NEW s, NEW j
               PROVE  Cnt(v, s, j) = IF s = t /\ j = i THEN Cnt(u, s, j) + 1 ELSE Cnt(u, s, j)
    BY DEF OneMore
  <2>1. CASE s = t /\ j = i
    <3>1. <<s, j>> = p
      BY <2>1
    <3>2. Cnt(v, s, j) = n
      BY <1>4, <1>6, <3>1
    <3> QED
      BY <2>1, <3>2 DEF n
  <2>2. CASE ~(s = t /\ j = i)
    <3>1. <<s, j>> # p
      BY <2>2
    <3> QED
      BY <1>4, <1>6, <1>7, <2>2, <3>1
  <2> QED
    BY <2>1, <2>2
<1> QED
  BY <1>2, <1>5, <1>8 DEF v

(* Executions that have been read stay so.                                 *)
LEMMA MoreHasRun ==
  ASSUME NEW u, CountsOK(u.inst_count), NEW v,
         NEW t, NEW i, OneMore(u, v, t, i)
  PROVE  /\ \A d : d.Cnt \in Int /\ HasRun(u, d) => HasRun(v, d)
         /\ \A s : FramesOf(u, s) \subseteq FramesOf(v, s)
<1>1. ASSUME NEW d, d.Cnt \in Int, HasRun(u, d) PROVE HasRun(v, d)
  <2>1. Cnt(u, d.TID, d.ID) \in Nat
    BY CntIsNat
  <2>2. Cnt(v, d.TID, d.ID) \in Nat /\ Cnt(v, d.TID, d.ID) >= Cnt(u, d.TID, d.ID)
    BY <2>1 DEF OneMore
  <2> QED
    BY <1>1, <2>1, <2>2 DEF HasRun
<1>2. ASSUME NEW s PROVE FramesOf(u, s) \subseteq FramesOf(v, s)
  <2> SUFFICES ASSUME NEW f \in FrameRecs, ~f.settled, f.terminator.TID = s, HasRun(u, f.terminator)
               PROVE  HasRun(v, f.terminator)
    BY DEF FramesOf
  <2>1. f.terminator.Cnt \in Int
    BY DEF FrameRecs, InstRecs
  <2> QED
    BY <1>1, <2>1
<1> QED
  BY <1>1, <1>2

(* The end of reading an instruction: its frame is used if it is needed,   *)
(* and it is counted.  The counts of y are those to come.                  *)
UseReady(u, y, x, b, i) ==
    /\ OneMore(u, y, b.tid, i)
    /\ Staged(u, x, b.tid, FramesOf(y, b.tid))
    /\ \A d \in x.unneeded_di : d \in InstRecs /\ d.ID \in InsIDs /\ HasRun(y, d)
    /\ \A z \in x.Addr2Unneded : z[2] \in InsIDs

UseDone(u, x, v, b, i, is_needed) ==
    /\ Counts1(u, v, b.tid, i)
    /\ v.Addr2Unneded = x.Addr2Unneded /\ v.needed = x.needed /\ v.kept = x.kept
    /\ v.mem_depended = x.mem_depended /\ v.unneeded_di = x.unneeded_di
    /\ is_needed => v.frames[b.tid][Len(u.frames[b.tid])].used

(* Use and CountIns, which end the reading of any instruction.             *)
LEMMA UseCount ==
  ASSUME NEW u, SliceOK(u), NEW b, Sliceable(b), u.frames[b.tid] # <<>>, NEW i \in InsIDs,
         NEW y, NEW x, UseReady(u, y, x, b, i), NEW is_needed \in BOOLEAN
  PROVE  UseDone(u, x, CountIns(Use(x, b, is_needed), b.tid, i), b, i, is_needed)
<1> DEFINE t == b.tid
           S == FramesOf(y, t)
           s == x.frames[t]
           top == s[Len(s)]
           f == [top EXCEPT !.used = @ \/ is_needed]
           r == Append(Front(s), f)
           z == [x EXCEPT !.frames[t] = r]
           w == [z EXCEPT !.this_bb_used = @ \/ is_needed]
           v == CountIns(w, t, i)
<1>0. /\ OneMore(u, y, t, i)
      /\ Staged(u, x, t, S)
      /\ \A d \in x.unneeded_di : d \in InstRecs /\ d.ID \in InsIDs /\ HasRun(y, d)
      /\ \A k \in x.Addr2Unneded : k[2] \in InsIDs
  BY DEF UseReady
<1>1. w = Use(x, b, is_needed)
  BY DEF Use, SetTop, Top, Last
<1>2. /\ IsSlice(x) /\ x.at = u.at /\ x.inst_count = u.inst_count /\ x.this_bb_used = u.this_bb_used
      /\ DOMAIN x.frames = Tids /\ \A j \in Tids \ {t} : x.frames[j] = u.frames[j]
      /\ s \in Seq(S) /\ Len(s) = Len(u.frames[t])
      /\ \A j \in 1 .. Len(u.frames[t]) : u.frames[t][j].used => s[j].used
  BY <1>0 DEF Staged
<1>3. t \in Tids /\ u.frames[t] \in Seq(FramesOf(u, t)) /\ u.this_bb_used \in BOOLEAN /\ CountsOK(u.inst_count)
  BY DEF SliceOK, Sliceable
<1>4. Len(u.frames[t]) \in Nat /\ Len(u.frames[t]) > 0
  BY <1>3
<1>5. top \in S
  <2> HIDE DEF S, s
  <2> QED
    BY <1>2, <1>4
<1>6. f \in S /\ f.used = (top.used \/ is_needed)
  BY <1>5 DEF FramesOf, FrameRecs
<1> HIDE DEF S, s, top, f
<1>7. /\ r \in Seq(S) /\ Len(r) = Len(s) /\ r[Len(s)] = f
      /\ \A j \in 1 .. Len(s) - 1 : r[j] = s[j]
  BY <1>2, <1>4, <1>6, NewLast
<1> HIDE DEF r
<1>8. /\ IsSlice(z)
      /\ z.at = u.at /\ z.inst_count = u.inst_count /\ z.this_bb_used = u.this_bb_used
      /\ z.Addr2Unneded = x.Addr2Unneded /\ z.needed = x.needed /\ z.kept = x.kept
      /\ z.mem_depended = x.mem_depended /\ z.unneeded_di = x.unneeded_di
      /\ DOMAIN z.frames = Tids /\ z.frames[t] = r
      /\ \A j \in Tids \ {t} : z.frames[j] = u.frames[j]
  BY <1>2, <1>3 DEF IsSlice, SliceFields
<1> HIDE DEF z
<1>9. /\ IsSlice(w)
      /\ w.at = u.at /\ w.inst_count = u.inst_count /\ w.this_bb_used \in BOOLEAN
      /\ w.Addr2Unneded = x.Addr2Unneded /\ w.needed = x.needed /\ w.kept = x.kept
      /\ w.mem_depended = x.mem_depended /\ w.unneeded_di = x.unneeded_di
      /\ w.frames = z.frames
  BY <1>3, <1>8 DEF IsSlice, SliceFields
<1> HIDE DEF w
<1>10. /\ IsSlice(v) /\ CountsOK(v.inst_count)
       /\ v.at = w.at /\ v.frames = w.frames /\ v.this_bb_used = w.this_bb_used
       /\ v.Addr2Unneded = w.Addr2Unneded /\ v.needed = w.needed /\ v.kept = w.kept
       /\ v.mem_depended = w.mem_depended /\ v.unneeded_di = w.unneeded_di
       /\ OneMore(w, v, t, i)
  BY <1>3, <1>9, CountInsIs
<1>11. \A k, j : Cnt(w, k, j) = Cnt(u, k, j)
  BY <1>9 DEF Cnt
<1>12. \A k, j : Cnt(v, k, j) = Cnt(y, k, j)
  BY <1>0, <1>10, <1>11 DEF OneMore
<1> HIDE DEF v
<1>13. (\A d : HasRun(v, d) <=> HasRun(y, d)) /\ \A k : FramesOf(v, k) = FramesOf(y, k)
  BY <1>12 DEF HasRun, FramesOf
<1>14. \A k : FramesOf(u, k) \subseteq FramesOf(v, k)
  <2>1. OneMore(u, v, t, i)
    BY <1>10, <1>11 DEF OneMore
  <2>2. CountsOK(u.inst_count)
    BY <1>3
  <2> HIDE DEF t
  <2> QED
    BY <2>1, <2>2, MoreHasRun
<1>15. \A k \in Tids : v.frames[k] \in Seq(FramesOf(v, k))
  <2> SUFFICES ASSUME NEW k \in Tids PROVE v.frames[k] \in Seq(FramesOf(v, k))
    OBVIOUS
  <2>1. CASE k = t
    BY <1>7, <1>8, <1>9, <1>10, <1>13, <2>1 DEF S
  <2>2. CASE k # t
    <3> DEFINE A == FramesOf(u, k)
               B == FramesOf(v, k)
               q == u.frames[k]
    <3>1. q \in Seq(A) /\ A \subseteq B /\ v.frames[k] = q
      BY <1>8, <1>9, <1>10, <1>14, <2>2 DEF SliceOK
    <3> HIDE DEF A, B, q
    <3>2. q \in Seq(B)
      BY <3>1
    <3> QED
      BY <3>1, <3>2 DEF B
  <2> QED
    BY <2>1, <2>2
<1>16. SliceOK(v)
  <2>1. v.at \in Nat
    BY <1>9, <1>10 DEF SliceOK
  <2>2. \A d \in v.unneeded_di : d \in InstRecs /\ d.ID \in InsIDs /\ HasRun(v, d)
    BY <1>0, <1>9, <1>10, <1>13
  <2>3. \A k \in v.Addr2Unneded : k[2] \in InsIDs
    BY <1>0, <1>9, <1>10
  <2> QED
    BY <1>8, <1>9, <1>10, <1>15, <2>1, <2>2, <2>3 DEF SliceOK
<1>17. Deeper(u, v, t, 0) /\ v.frames[t] # <<>>
  <2>1. v.frames[t] = r /\ \A j \in Tids \ {t} : v.frames[j] = u.frames[j]
    BY <1>8, <1>9, <1>10
  <2>2. \A j \in 1 .. Len(s) : s[j].used => r[j].used
    <3> SUFFICES ASSUME NEW j \in 1 .. Len(s), s[j].used PROVE r[j].used
      OBVIOUS
    <3>1. CASE j = Len(s)
      BY <1>6, <1>7, <3>1 DEF top
    <3>2. CASE j # Len(s)
      <4>1. j \in 1 .. Len(s) - 1
        BY <1>2, <1>4, <3>2
      <4> QED
        BY <1>7, <4>1
    <3> QED
      BY <3>1, <3>2
  <2>3. r # <<>>
    BY <1>2, <1>4, <1>7
  <2> QED
    BY <1>2, <1>4, <1>7, <2>1, <2>2, <2>3 DEF Deeper
<1>18. is_needed => v.frames[t][Len(u.frames[t])].used
  BY <1>2, <1>6, <1>7, <1>8, <1>9, <1>10
<1>19. /\ Counts1(u, v, t, i)
       /\ v.Addr2Unneded = x.Addr2Unneded /\ v.needed = x.needed /\ v.kept = x.kept
       /\ v.mem_depended = x.mem_depended /\ v.unneeded_di = x.unneeded_di
  <2>1. OneMore(u, v, t, i)
    BY <1>10, <1>11 DEF OneMore
  <2> QED
    BY <1>9, <1>10, <1>16, <1>17, <2>1 DEF Counts1
<1> QED
  BY <1>1, <1>18, <1>19 DEF UseDone, v, t

(* What has been read of b before instruction i of it, and what has after  *)
(* it: d is either kept, with what it depends on, or passed over.          *)
Keeps(u, v, b, d) ==
    /\ v.needed = (u.needed \ {<<d.TID, d.ID>>}) \cup SSANeeds(d) \cup PhiNeeds(d, b.lastbb)
    /\ v.mem_depended = (u.mem_depended \ {d}) \cup MemNeeds(d)
    /\ v.kept = u.kept \cup {[inst |-> d, at |-> u.at, late |-> FALSE]}
    /\ v.unneeded_di = u.unneeded_di
    /\ v.frames[b.tid][Len(u.frames[b.tid])].used

Passes(u, v, b, d) ==
    /\ v.needed = u.needed /\ v.mem_depended = u.mem_depended /\ v.kept = u.kept
    /\ v.unneeded_di \subseteq u.unneeded_di \cup {d}
    /\ <<d.TID, d.ID>> \notin u.needed
    /\ b.type # "Normal" => d \notin u.mem_depended

Reading(u, v, b, i) ==
    LET d == Current(u, b.tid, i) IN
    Counts1(u, v, b.tid, i) /\ (Keeps(u, v, b, d) \/ Passes(u, v, b, d))

(* The frames that the instruction finds are still good when it is counted. *)
LEMMA StagedSame ==
  ASSUME NEW u, SliceOK(u), NEW t \in Tids, NEW i \in InsIDs, NEW y,
         OneMore(u, y, t, i),
         NEW x, IsSlice(x), x.at = u.at, x.inst_count = u.inst_count, x.frames = u.frames,
         x.this_bb_used = u.this_bb_used
  PROVE  Staged(u, x, t, FramesOf(y, t))
<1> DEFINE A == FramesOf(u, t)
           B == FramesOf(y, t)
           q == u.frames[t]
<1>1. CountsOK(u.inst_count)
  BY DEF SliceOK
<1>2. A \subseteq B
  BY <1>1, MoreHasRun
<1>3. q \in Seq(A) /\ DOMAIN u.frames = Tids
  BY DEF SliceOK
<1> HIDE DEF A, B
<1>4. q \in Seq(B)
  BY <1>2, <1>3
<1> QED
  BY <1>3, <1>4 DEF Staged, B

(* The execution that is about to be read.                                 *)
LEMMA CurrentIs ==
  ASSUME NEW u, SliceOK(u), NEW t \in Tids, NEW i \in InsIDs
  PROVE  /\ Current(u, t, i) \in InstRecs /\ Current(u, t, i).TID = t /\ Current(u, t, i).ID = i
         /\ Current(u, t, i).Cnt = -Cnt(u, t, i) /\ Current(u, t, i).Cnt \in Int
         /\ ~HasRun(u, Current(u, t, i)) /\ Cnt(u, t, i) \in Nat
<1>1. Cnt(u, t, i) \in Nat
  BY CntIsNat DEF SliceOK
<1> QED
  BY <1>1 DEF Current, DynamicInst, InstRecs, HasRun

(* It has been when it is counted, like all those before.                  *)
LEMMA NowHasRun ==
  ASSUME NEW u, SliceOK(u), NEW t \in Tids, NEW i \in InsIDs, NEW y,
         OneMore(u, y, t, i)
  PROVE  /\ HasRun(y, Current(u, t, i))
         /\ \A d \in InstRecs : HasRun(u, d) => HasRun(y, d)
<1>1. \A d : d.Cnt \in Int /\ HasRun(u, d) => HasRun(y, d)
  <2>1. CountsOK(u.inst_count)
    BY DEF SliceOK
  <2> QED
    BY <2>1, MoreHasRun
<1>2. \A d \in InstRecs : d.Cnt \in Int
  BY DEF InstRecs
<1> DEFINE d == Current(u, t, i)
           n == Cnt(u, t, i)
<1>3. d.TID = t /\ d.ID = i /\ d.Cnt = -n /\ n \in Nat
  BY CurrentIs
<1> HIDE DEF d, n
<1>4. Cnt(y, t, i) = n + 1
  BY DEF n, OneMore
<1>5. HasRun(y, d)
  BY <1>3, <1>4 DEF HasRun
<1> QED
  BY <1>1, <1>2, <1>5 DEF d

(* A call with an effect outside is kept.                                  *)
LEMMA ImpactfulReads ==
  ASSUME NEW u, SliceOK(u), NEW b, Sliceable(b), u.frames[b.tid] # <<>>, NEW i \in InsIDs
  PROVE  Reading(u, CountIns(Use(OneInstruction(u, Current(u, b.tid, i), b.lastbb, FALSE), b, TRUE), b.tid, i),
                 b, i)
<1> DEFINE t == b.tid
           d == Current(u, t, i)
           x == OneInstruction(u, d, b.lastbb, FALSE)
           y == CountIns(u, t, i)
           yes == 1 = 1
           v == CountIns(Use(x, b, yes), t, i)
<1>1. t \in Tids /\ IsSlice(u) /\ CountsOK(u.inst_count)
  BY DEF SliceOK, Sliceable
<1>2. /\ IsSlice(x)
      /\ x.at = u.at /\ x.inst_count = u.inst_count /\ x.frames = u.frames
      /\ x.this_bb_used = u.this_bb_used /\ x.unneeded_di = u.unneeded_di
      /\ x.Addr2Unneded = u.Addr2Unneded
      /\ x.needed = (u.needed \ {<<d.TID, d.ID>>}) \cup SSANeeds(d) \cup PhiNeeds(d, b.lastbb)
      /\ x.mem_depended = (u.mem_depended \ {d}) \cup MemNeeds(d)
      /\ x.kept = u.kept \cup {[inst |-> d, at |-> u.at, late |-> FALSE]}
  <2> HIDE DEF d
  <2> QED
    BY <1>1 DEF OneInstruction, IsSlice, SliceFields
<1>3. IsSlice(y) /\ OneMore(u, y, t, i)
  BY <1>1, CountInsIs
<1> HIDE DEF x, y, t
<1>4. Staged(u, x, t, FramesOf(y, t))
  BY <1>1, <1>2, <1>3, StagedSame
<1>5. \A e \in x.unneeded_di : e \in InstRecs /\ e.ID \in InsIDs /\ HasRun(y, e)
  BY <1>1, <1>2, <1>3, NowHasRun DEF SliceOK
<1>6. \A z \in x.Addr2Unneded : z[2] \in InsIDs
  BY <1>2 DEF SliceOK
<1>7. yes \in BOOLEAN /\ yes
  OBVIOUS
<1> HIDE DEF yes
<1>8. UseDone(u, x, v, b, i, yes)
  <2>1. UseReady(u, y, x, b, i)
    BY <1>3, <1>4, <1>5, <1>6 DEF UseReady, t
  <2> QED
    BY <1>7, <2>1, UseCount DEF t
<1>9. v = CountIns(Use(x, b, TRUE), t, i)
  BY DEF yes
<1> HIDE DEF v, d
<1>10. Keeps(u, v, b, d)
  BY <1>2, <1>7, <1>8 DEF Keeps, UseDone, t
<1> QED
  BY <1>8, <1>9, <1>10 DEF Reading, UseDone, d, x, t

(* An access is kept if it is needed, and noted otherwise.                 *)
AccessInst(u, b, i, address) ==
    LET d == Current(u, b.tid, i)
        x == IF Needs(u, d) THEN OneInstruction(u, d, b.lastbb, FALSE)
             ELSE [u EXCEPT !.unneeded_di = @ \cup {d}, !.Addr2Unneded = @ \cup address]
    IN  CountIns(Use(x, b, Needs(u, d)), b.tid, i)

(* An access, or a call that is not ignorable, is read.                    *)
LEMMA AccessReads ==
  ASSUME NEW u, SliceOK(u), NEW b, Sliceable(b), u.frames[b.tid] # <<>>, NEW i \in InsIDs,
         NEW address, \A z \in address : z[2] \in InsIDs
  PROVE  Reading(u, AccessInst(u, b, i, address), b, i)
<1> DEFINE t == b.tid
           d == Current(u, t, i)
           yes == Needs(u, d)
           x1 == OneInstruction(u, d, b.lastbb, FALSE)
           x2 == [u EXCEPT !.unneeded_di = @ \cup {d}, !.Addr2Unneded = @ \cup address]
           x == IF yes THEN x1 ELSE x2
           y == CountIns(u, t, i)
           v == CountIns(Use(x, b, yes), t, i)
<1>1. t \in Tids /\ IsSlice(u) /\ CountsOK(u.inst_count)
  BY DEF SliceOK, Sliceable
<1>2. d \in InstRecs /\ d.ID \in InsIDs /\ d.TID = t /\ d.ID = i
  BY <1>1, CurrentIs
<1>3. IsSlice(y) /\ OneMore(u, y, t, i)
  BY <1>1, CountInsIs DEF OneMore
<1>4. yes \in BOOLEAN /\ (yes <=> <<d.TID, d.ID>> \in u.needed \/ d \in u.mem_depended)
  BY DEF Needs
<1>5. v = AccessInst(u, b, i, address)
  BY DEF AccessInst
<1>6. /\ IsSlice(x1)
      /\ x1.at = u.at /\ x1.inst_count = u.inst_count /\ x1.frames = u.frames
      /\ x1.this_bb_used = u.this_bb_used /\ x1.unneeded_di = u.unneeded_di
      /\ x1.Addr2Unneded = u.Addr2Unneded
      /\ x1.needed = (u.needed \ {<<d.TID, d.ID>>}) \cup SSANeeds(d) \cup PhiNeeds(d, b.lastbb)
      /\ x1.mem_depended = (u.mem_depended \ {d}) \cup MemNeeds(d)
      /\ x1.kept = u.kept \cup {[inst |-> d, at |-> u.at, late |-> FALSE]}
  <2> HIDE DEF d
  <2> QED
    BY <1>1 DEF OneInstruction, IsSlice, SliceFields
<1>7. /\ IsSlice(x2)
      /\ x2.at = u.at /\ x2.inst_count = u.inst_count /\ x2.frames = u.frames
      /\ x2.this_bb_used = u.this_bb_used /\ x2.unneeded_di = u.unneeded_di \cup {d}
      /\ x2.Addr2Unneded = u.Addr2Unneded \cup address
      /\ x2.needed = u.needed /\ x2.mem_depended = u.mem_depended /\ x2.kept = u.kept
  <2> HIDE DEF d
  <2> QED
    BY <1>1 DEF IsSlice, SliceFields
<1> HIDE DEF y, t, v, yes, x1, x2
<1>8. /\ IsSlice(x)
      /\ x.at = u.at /\ x.inst_count = u.inst_count /\ x.frames = u.frames
      /\ x.this_bb_used = u.this_bb_used
      /\ x.unneeded_di \subseteq u.unneeded_di \cup {d}
      /\ \A z \in x.Addr2Unneded : z[2] \in InsIDs
  <2>1. \A z \in u.Addr2Unneded : z[2] \in InsIDs
    BY DEF SliceOK
  <2> QED
    BY <1>6, <1>7, <2>1
<1>9. UseDone(u, x, v, b, i, yes)
  <2>1. Staged(u, x, t, FramesOf(y, t))
    BY <1>1, <1>3, <1>8, StagedSame
  <2>2. HasRun(y, d) /\ \A e \in InstRecs : HasRun(u, e) => HasRun(y, e)
    BY <1>1, <1>3, NowHasRun
  <2>3. \A e \in x.unneeded_di : e \in InstRecs /\ e.ID \in InsIDs /\ HasRun(y, e)
    BY <1>2, <1>8, <2>2 DEF SliceOK
  <2>4. UseReady(u, y, x, b, i)
    BY <1>3, <1>8, <2>1, <2>3 DEF UseReady, t
  <2> HIDE DEF x
  <2> QED
    BY <1>4, <2>4, UseCount DEF t, v
<1>10. CASE yes
  <2>1. Keeps(u, v, b, d)
    BY <1>6, <1>9, <1>10 DEF Keeps, UseDone
  <2> QED
    BY <1>5, <1>9, <2>1 DEF Reading, UseDone, t
<1>11. CASE ~yes
  <2>1. Passes(u, v, b, d)
    BY <1>4, <1>7, <1>9, <1>11 DEF Passes, UseDone
  <2> QED
    BY <1>5, <1>9, <2>1 DEF Reading, UseDone, t
<1> QED
  BY <1>10, <1>11

(* An instruction of a Normal block: a terminator is stored before it is   *)
(* counted.                                                                *)
LEMMA NormalReads ==
  ASSUME NEW u, SliceOK(u), NEW b, Sliceable(b), b.type = "Normal", u.frames[b.tid] # <<>>,
         NEW i \in InsIDs
  PROVE  Reading(u, NormalInst(u, b, i), b, i)
<1> DEFINE t == b.tid
           d == Current(u, t, i)
           yes == Wanted(u, b, i)
           y == CountIns(u, t, i)
           S == FramesOf(y, t)
           f == [Top(u, b) EXCEPT !.terminator = d, !.settled = yes]
           q == Append(Front(u.frames[t]), f)
           x1 == IF i \in TerminatorInst THEN SetTop(u, b, f) ELSE u
           x2 == OneInstruction(x1, d, b.lastbb, FALSE)
           x3 == [x1 EXCEPT !.unneeded_di = @ \cup {d}]
           x == IF yes THEN x2 ELSE IF i \in TerminatorInst \cap OneSuccessor THEN x1 ELSE x3
           v == CountIns(Use(x, b, yes), t, i)
<1>1. t \in Tids /\ IsSlice(u) /\ CountsOK(u.inst_count) /\ DOMAIN u.frames = Tids
  BY DEF SliceOK, Sliceable
<1>2. d \in InstRecs /\ d.ID \in InsIDs /\ d.TID = t /\ d.ID = i
  BY <1>1, CurrentIs
<1>3. IsSlice(y) /\ OneMore(u, y, t, i)
  BY <1>1, CountInsIs DEF OneMore
<1>4. yes \in BOOLEAN /\ (~yes => <<d.TID, d.ID>> \notin u.needed)
  BY <1>2 DEF Wanted
<1>5. v = NormalInst(u, b, i)
  BY DEF NormalInst
<1>6. HasRun(y, d) /\ \A e \in InstRecs : HasRun(u, e) => HasRun(y, e)
  BY <1>1, <1>3, NowHasRun
<1>7. f \in S /\ f.used = Top(u, b).used
  <2>1. Top(u, b) \in FrameRecs
    BY <1>1, TopIs
  <2> HIDE DEF d, yes, y
  <2> QED
    BY <1>2, <1>4, <1>6, <2>1 DEF FramesOf, FrameRecs
<1> HIDE DEF yes, y, d
<1>8. Staged(u, u, t, S)
  BY <1>1, <1>3, StagedSame
<1>9. IsSlice(x1) /\ Staged(u, x1, t, S)
      /\ x1.unneeded_di = u.unneeded_di /\ x1.Addr2Unneded = u.Addr2Unneded
      /\ x1.needed = u.needed /\ x1.mem_depended = u.mem_depended /\ x1.kept = u.kept
  <2>1. CASE i \in TerminatorInst
    <3> DEFINE s == u.frames[t]
    <3>1. s \in Seq(S) /\ s # <<>>
      BY <1>8 DEF Staged
    <3>2. s[Len(s)] = Top(u, b)
      BY DEF Top, Last
    <3> HIDE DEF S, f
    <3>3. q \in Seq(S) /\ Len(q) = Len(s) /\ q[Len(s)] = f /\ \A j \in 1 .. Len(s) - 1 : q[j] = s[j]
      BY <1>7, <3>1, NewLast
    <3>4. \A j \in 1 .. Len(s) : s[j].used => q[j].used
      <4> SUFFICES ASSUME NEW j \in 1 .. Len(s), s[j].used PROVE q[j].used
        OBVIOUS
      <4>1. Len(s) \in Nat
        BY <3>1
      <4>2. CASE j = Len(s)
        BY <1>7, <3>2, <3>3, <4>2
      <4>3. CASE j # Len(s)
        <5>1. j \in 1 .. Len(s) - 1
          BY <4>1, <4>3
        <5> QED
          BY <3>3, <5>1
      <4> QED
        BY <4>2, <4>3
    <3>5. x1 = [u EXCEPT !.frames[t] = q]
      BY <2>1 DEF SetTop
    <3> HIDE DEF q, x1
    <3>6. /\ IsSlice(x1)
          /\ x1.at = u.at /\ x1.inst_count = u.inst_count /\ x1.this_bb_used = u.this_bb_used
          /\ x1.unneeded_di = u.unneeded_di /\ x1.Addr2Unneded = u.Addr2Unneded
          /\ x1.needed = u.needed /\ x1.mem_depended = u.mem_depended /\ x1.kept = u.kept
          /\ DOMAIN x1.frames = Tids /\ x1.frames[t] = q
          /\ \A j \in Tids \ {t} : x1.frames[j] = u.frames[j]
      BY <1>1, <3>5 DEF IsSlice, SliceFields
    <3> QED
      BY <3>3, <3>4, <3>6 DEF Staged
  <2>2. CASE i \notin TerminatorInst
    BY <1>1, <1>8, <2>2
  <2> QED
    BY <2>1, <2>2
<1> HIDE DEF x1
<1>10. /\ IsSlice(x2)
       /\ x2.at = x1.at /\ x2.inst_count = x1.inst_count /\ x2.frames = x1.frames
       /\ x2.this_bb_used = x1.this_bb_used /\ x2.unneeded_di = x1.unneeded_di
       /\ x2.Addr2Unneded = x1.Addr2Unneded
       /\ x2.needed = (x1.needed \ {<<d.TID, d.ID>>}) \cup SSANeeds(d) \cup PhiNeeds(d, b.lastbb)
       /\ x2.mem_depended = (x1.mem_depended \ {d}) \cup MemNeeds(d)
       /\ x2.kept = x1.kept \cup {[inst |-> d, at |-> x1.at, late |-> FALSE]}
  BY <1>9 DEF OneInstruction, IsSlice, SliceFields
<1>11. /\ IsSlice(x3)
       /\ x3.at = x1.at /\ x3.inst_count = x1.inst_count /\ x3.frames = x1.frames
       /\ x3.this_bb_used = x1.this_bb_used /\ x3.unneeded_di = x1.unneeded_di \cup {d}
       /\ x3.Addr2Unneded = x1.Addr2Unneded
       /\ x3.needed = x1.needed /\ x3.mem_depended = x1.mem_depended /\ x3.kept = x1.kept
  BY <1>9 DEF IsSlice, SliceFields
<1>12. x1.at = u.at
  BY <1>9 DEF Staged
<1> HIDE DEF t, v, x2, x3
<1>13. /\ IsSlice(x)
       /\ x.at = x1.at /\ x.inst_count = x1.inst_count /\ x.frames = x1.frames
       /\ x.this_bb_used = x1.this_bb_used
       /\ x.unneeded_di \subseteq u.unneeded_di \cup {d}
       /\ x.Addr2Unneded = u.Addr2Unneded
  BY <1>9, <1>10, <1>11
<1>14. UseDone(u, x, v, b, i, yes)
  <2> HIDE DEF x, S
  <2>1. Staged(u, x, t, S)
    BY <1>9, <1>13 DEF Staged
  <2>2. \A e \in x.unneeded_di : e \in InstRecs /\ e.ID \in InsIDs /\ HasRun(y, e)
    BY <1>2, <1>6, <1>13 DEF SliceOK
  <2>3. \A z \in x.Addr2Unneded : z[2] \in InsIDs
    BY <1>13 DEF SliceOK
  <2>4. UseReady(u, y, x, b, i)
    BY <1>3, <2>1, <2>2, <2>3 DEF UseReady, t, S
  <2> QED
    BY <1>4, <2>4, UseCount DEF t, v
<1>15. CASE yes
  <2>1. Keeps(u, v, b, d)
    BY <1>9, <1>10, <1>12, <1>14, <1>15 DEF Keeps, UseDone
  <2> QED
    BY <1>5, <1>14, <2>1 DEF Reading, UseDone, t, d
<1>16. CASE ~yes
  <2>1. Passes(u, v, b, d)
    BY <1>4, <1>9, <1>11, <1>14, <1>16 DEF Passes, UseDone
  <2> QED
    BY <1>5, <1>14, <2>1 DEF Reading, UseDone, t, d
<1> QED
  BY <1>15, <1>16

-----------------------------------------------------------------------------
(* The instances of the trace                                              *)

(* A block is of the trace, and it is not skipped.                         *)
InTrace(k) == k \in 1 .. Len(block_trace) /\ block_trace[k].type # "Declare"

(* What is in Instances.                                                   *)
LEMMA InstancesAre ==
  ASSUME block_trace \in Seq(Blocks)
  PROVE  /\ \A k, i : <<k, i>> \in Instances <=> InTrace(k) /\ i \in ToSet(block_trace[k].code)
         /\ \A x \in Instances : x = <<x[1], x[2]>>
<1>1. ASSUME NEW k, NEW i PROVE <<k, i>> \in Instances <=> InTrace(k) /\ i \in ToSet(block_trace[k].code)
  <2>1. <<k, i>> \in Instances => InTrace(k) /\ i \in ToSet(block_trace[k].code)
    BY DEF Instances, InTrace
  <2>2. ASSUME InTrace(k), i \in ToSet(block_trace[k].code) PROVE <<k, i>> \in Instances
    <3>1. block_trace[k] \in ToSet(block_trace) /\ k \in DOMAIN block_trace
      BY <2>2 DEF InTrace, ToSet
    <3>2. i \in UNION {ToSet(b.code) : b \in ToSet(block_trace)}
      BY <2>2, <3>1
    <3> QED
      BY <2>2, <3>1, <3>2 DEF Instances, InTrace
  <2> QED
    BY <2>1, <2>2
<1>2. \A x \in Instances : x = <<x[1], x[2]>>
  BY DEF Instances
<1> QED
  BY <1>1, <1>2

(* The blocks of the trace.                                                *)
LEMMA BlocksAre ==
  ASSUME block_trace \in Seq(Blocks), NEW k, InTrace(k)
  PROVE  LET b == block_trace[k] IN
         /\ Sliceable(b) /\ b \in Blocks /\ b.code \in Seq(InsIDs) /\ b.ins \in InsIDs
         /\ IsInjective(b.code)
         /\ b.type # "Normal" => b.code = <<b.ins>> /\ ToSet(b.code) = {b.ins}
         /\ ToSet(b.code) \subseteq InsIDs /\ Len(b.code) \in Nat
<1> DEFINE b == block_trace[k]
<1>1. b \in Blocks /\ b.type # "Declare"
  BY DEF InTrace
<1> HIDE DEF b
<1>2. b.tid \in Tids /\ b.code \in Seq(InsIDs) /\ b.ins \in InsIDs
  BY <1>1, BlockAssumption DEF InsIDs
<1>3. /\ b.bb \in DOMAIN BB2Ins /\ b.first \in 0 .. 2 /\ b.last \in 0 .. 2
      /\ IF b.type = "Normal" THEN IsInjective(b.code) ELSE b.code = <<b.ins>>
  BY <1>1, InstructionAssumption
<1>4. ToSet(b.code) \subseteq InsIDs
  BY <1>2 DEF ToSet
<1>5. b.type # "Normal" => b.code = <<b.ins>> /\ ToSet(b.code) = {b.ins} /\ IsInjective(b.code)
  BY <1>3 DEF ToSet, IsInjective
<1> QED
  BY <1>1, <1>2, <1>3, <1>4, <1>5 DEF Sliceable, b

(* An instruction has blocks of its own or is in Normal ones, and is       *)
(* ignorable or not.                                                       *)
LEMMA KindsAgree ==
  ASSUME block_trace \in Seq(Blocks), NEW k, NEW j, NEW i, <<k, i>> \in Instances, <<j, i>> \in Instances
  PROVE  /\ block_trace[k].type = "Normal" <=> block_trace[j].type = "Normal"
         /\ Skipped(block_trace[k]) <=> Skipped(block_trace[j])
<1> DEFINE b == block_trace[k]
           c == block_trace[j]
<1>1. /\ InTrace(k) /\ InTrace(j) /\ i \in ToSet(b.code) /\ i \in ToSet(c.code)
  BY InstancesAre
<1>2. /\ b \in Blocks /\ b.type # "Declare" /\ c \in Blocks /\ c.type # "Declare"
      /\ b.type # "Normal" => ToSet(b.code) = {b.ins}
      /\ c.type # "Normal" => ToSet(c.code) = {c.ins}
  BY <1>1, BlocksAre DEF InTrace
<1> HIDE DEF b, c
<1>3. \A x, y \in Blocks : (x.type # "Declare" /\ x.type # "Normal" /\ y.type # "Declare" /\ x.ins \in ToSet(y.code)) =>
          y.type # "Normal" /\ (Skipped(x) <=> Skipped(y))
  BY InstructionAssumption
<1>4. CASE b.type # "Normal"
  BY <1>1, <1>2, <1>3, <1>4 DEF b, c
<1>5. CASE c.type # "Normal"
  BY <1>1, <1>2, <1>3, <1>5 DEF b, c
<1>6. CASE b.type = "Normal" /\ c.type = "Normal"
  BY <1>6 DEF Skipped, b, c
<1> QED
  BY <1>4, <1>5, <1>6

(* The blocks behind k in which thread t executes i and is not skipped,    *)
(* and their number.                                                       *)
After(k, t, i) ==
    {j \in k + 1 .. Len(block_trace) :
        block_trace[j].tid = t /\ <<j, i>> \in Instances /\ ~Skipped(block_trace[j])}
Ran(k, t, i) == Cardinality(After(k, t, i))

(* They are finite, and fewer the later one starts.                        *)
LEMMA RanIs ==
  ASSUME block_trace \in Seq(Blocks), NEW k \in Nat, NEW t, NEW i
  PROVE  /\ IsFiniteSet(After(k, t, i)) /\ Ran(k, t, i) \in Nat
         /\ \A j \in Nat : j <= k => Ran(j, t, i) >= Ran(k, t, i)
         /\ \A j \in Nat : j < k /\ k \in After(j, t, i) => Ran(j, t, i) > Ran(k, t, i)
<1>1. ASSUME NEW j \in Nat PROVE IsFiniteSet(After(j, t, i)) /\ Ran(j, t, i) \in Nat
  <2>1. IsFiniteSet(j + 1 .. Len(block_trace))
    BY FS_Interval
  <2> QED
    BY <2>1, FS_Subset, FS_CardinalityType DEF After, Ran
<1>2. ASSUME NEW j \in Nat, j <= k PROVE Ran(j, t, i) >= Ran(k, t, i)
  <2>1. After(k, t, i) \subseteq After(j, t, i)
    BY <1>2 DEF After
  <2> QED
    BY <1>1, <1>2, <2>1, FS_Subset DEF Ran
<1>3. ASSUME NEW j \in Nat, j < k, k \in After(j, t, i) PROVE Ran(j, t, i) > Ran(k, t, i)
  <2> DEFINE A == After(k, t, i)
             B == After(j, t, i)
  <2>1. A \subseteq B /\ k \in B /\ k \notin A
    BY <1>3 DEF After
  <2>2. IsFiniteSet(A) /\ IsFiniteSet(B) /\ Cardinality(A) \in Nat /\ Cardinality(B) \in Nat
    BY <1>1 DEF Ran
  <2> HIDE DEF A, B
  <2>3. Cardinality(A) <= Cardinality(B) /\ (Cardinality(A) = Cardinality(B) => A = B)
    BY <2>1, <2>2, FS_Subset
  <2> QED
    BY <2>1, <2>2, <2>3 DEF A, B, Ran
<1> QED
  BY <1>1, <1>2, <1>3

(* One block more.                                                         *)
LEMMA RanStep ==
  ASSUME block_trace \in Seq(Blocks), NEW k \in 1 .. Len(block_trace), NEW t, NEW i
  PROVE  Ran(k - 1, t, i) =
            IF block_trace[k].tid = t /\ <<k, i>> \in Instances /\ ~Skipped(block_trace[k])
            THEN Ran(k, t, i) + 1 ELSE Ran(k, t, i)
<1> DEFINE A == After(k, t, i)
           B == After(k - 1, t, i)
           yes == block_trace[k].tid = t /\ <<k, i>> \in Instances /\ ~Skipped(block_trace[k])
<1>0. k \in Nat /\ k - 1 \in Nat /\ Len(block_trace) \in Nat
  OBVIOUS
<1>1. B = IF yes THEN A \cup {k} ELSE A
  <2>1. ASSUME NEW j PROVE j \in B <=> (j \in A \/ (j = k /\ yes))
    <3>1. j \in (k - 1) + 1 .. Len(block_trace) <=> (j = k \/ j \in k + 1 .. Len(block_trace))
      BY <1>0
    <3> QED
      BY <3>1 DEF After
  <2> QED
    BY <2>1
<1>2. IsFiniteSet(A) /\ Cardinality(A) \in Nat /\ k \notin A
  <2>1. IsFiniteSet(A) /\ Cardinality(A) \in Nat
    BY <1>0, RanIs DEF Ran
  <2>2. k \notin A
    BY <1>0 DEF After
  <2> QED
    BY <2>1, <2>2
<1> HIDE DEF A, B, yes
<1>3. Cardinality(A \cup {k}) = Cardinality(A) + 1
  BY <1>2, FS_AddElement
<1>4. Cardinality(B) = IF yes THEN Cardinality(A) + 1 ELSE Cardinality(A)
  BY <1>1, <1>3
<1> QED
  BY <1>4 DEF A, B, yes, Ran

(* What is numbered from the end is numbered by what comes after.          *)
LEMMA InstanceIs ==
  ASSUME block_trace \in Seq(Blocks), NEW k, NEW i, <<k, i>> \in Instances
  PROVE  /\ k \in Nat /\ k \in 1 .. Len(block_trace) /\ i \in InsIDs /\ block_trace[k].tid \in Tids
         /\ InstanceOf(k, i).TID = block_trace[k].tid /\ InstanceOf(k, i).ID = i
         /\ InstanceOf(k, i).Cnt \in Int /\ InstanceOf(k, i).Cnt <= 0
         /\ ~Skipped(block_trace[k]) => InstanceOf(k, i).Cnt = -Ran(k, block_trace[k].tid, i)
         /\ InstanceOf(k, i) = DynamicInst(block_trace[k].tid, i, InstanceOf(k, i).Cnt)
<1> DEFINE t == block_trace[k].tid
           later == {j \in k + 1 .. Len(block_trace) : block_trace[j].tid = t /\ <<j, i>> \in Instances}
<1>1. InTrace(k) /\ i \in ToSet(block_trace[k].code)
  BY InstancesAre
<1>2. k \in Nat /\ k \in 1 .. Len(block_trace) /\ i \in InsIDs /\ t \in Tids
  BY <1>1, BlocksAre DEF InTrace, Sliceable
<1>3. InstanceOf(k, i) = DynamicInst(t, i, -Cardinality(later))
  BY DEF InstanceOf
<1>4. Cardinality(later) \in Nat
  <2>1. IsFiniteSet(k + 1 .. Len(block_trace))
    BY <1>2, FS_Interval
  <2> QED
    BY <2>1, FS_Subset, FS_CardinalityType
<1>5. ~Skipped(block_trace[k]) => later = After(k, t, i)
  <2> SUFFICES ASSUME ~Skipped(block_trace[k]), NEW j, <<j, i>> \in Instances PROVE ~Skipped(block_trace[j])
    BY DEF After
  <2> QED
    BY KindsAgree
<1> DEFINE n == Cardinality(later)
<1>6. ~Skipped(block_trace[k]) => n = Ran(k, t, i)
  BY <1>5 DEF Ran
<1> HIDE DEF n
<1>7. InstanceOf(k, i) = DynamicInst(t, i, -n) /\ n \in Nat
  BY <1>3, <1>4 DEF n
<1> HIDE DEF t
<1>8. /\ InstanceOf(k, i).TID = t /\ InstanceOf(k, i).ID = i /\ InstanceOf(k, i).Cnt = -n
  BY <1>7 DEF DynamicInst
<1> QED
  BY <1>2, <1>6, <1>7, <1>8 DEF t

(* u has read all behind block k, and of block k what follows its first m  *)
(* instructions.                                                           *)
Partly(k, m, t, i) ==
    t = block_trace[k].tid /\ \E n \in m + 1 .. Len(block_trace[k].code) : block_trace[k].code[n] = i

ReadTo(u, k, m) ==
    /\ u.at = k
    /\ \A t, i : Cnt(u, t, i) = Ran(k, t, i) + (IF Partly(k, m, t, i) THEN 1 ELSE 0)

(* The instruction that is read now.                                       *)
LEMMA InstanceNow ==
  ASSUME block_trace \in Seq(Blocks), NEW k, InTrace(k), ~Skipped(block_trace[k]),
         NEW m \in 1 .. Len(block_trace[k].code), NEW u, ReadTo(u, k, m)
  PROVE  LET b == block_trace[k] IN
         <<k, b.code[m]>> \in Instances /\ Current(u, b.tid, b.code[m]) = InstanceOf(k, b.code[m])
<1> DEFINE b == block_trace[k]
           i == b.code[m]
           t == b.tid
<1>1. /\ b.code \in Seq(InsIDs) /\ IsInjective(b.code) /\ Len(b.code) \in Nat
      /\ k \in 1 .. Len(block_trace) /\ k \in Nat
  BY BlocksAre DEF InTrace
<1>2. <<k, i>> \in Instances
  BY <1>1, InstancesAre DEF ToSet
<1>3. InstanceOf(k, i) = DynamicInst(t, i, -Ran(k, t, i))
  BY <1>2, InstanceIs
<1>4. ~Partly(k, m, t, i)
  BY <1>1 DEF Partly, IsInjective
<1>5. Ran(k, t, i) \in Nat
  BY <1>1, RanIs
<1>6. Cnt(u, t, i) = Ran(k, t, i)
  BY <1>4, <1>5 DEF ReadTo
<1> QED
  BY <1>2, <1>3, <1>6 DEF Current

(* When it has been counted, one instruction less is left.                 *)
LEMMA ReadOn ==
  ASSUME block_trace \in Seq(Blocks), NEW k, InTrace(k),
         NEW m \in 1 .. Len(block_trace[k].code), NEW u, ReadTo(u, k, m),
         NEW v, v.at = u.at, OneMore(u, v, block_trace[k].tid, block_trace[k].code[m])
  PROVE  ReadTo(v, k, m - 1)
<1> DEFINE b == block_trace[k]
           n == Len(b.code)
<1>1. IsInjective(b.code) /\ n \in Nat /\ b.code \in Seq(InsIDs) /\ k \in Nat
  BY BlocksAre DEF InTrace
<1>2. ASSUME NEW t, NEW i
      PROVE  Cnt(v, t, i) = Ran(k, t, i) + (IF Partly(k, m - 1, t, i) THEN 1 ELSE 0)
  <2>1. Ran(k, t, i) \in Nat
    BY <1>1, RanIs
  <2>2. Cnt(u, t, i) = Ran(k, t, i) + (IF Partly(k, m, t, i) THEN 1 ELSE 0)
    BY DEF ReadTo
  <2>3. CASE t = b.tid /\ i = b.code[m]
    <3>1. ~Partly(k, m, t, i)
      BY <1>1, <2>3 DEF Partly, IsInjective
    <3>2. m \in (m - 1) + 1 .. n
      BY <1>1
    <3>3. Partly(k, m - 1, t, i)
      BY <2>3, <3>2 DEF Partly
    <3>4. Cnt(v, t, i) = Cnt(u, t, i) + 1
      BY <2>3 DEF OneMore
    <3> QED
      BY <2>1, <2>2, <3>1, <3>3, <3>4
  <2>4. CASE ~(t = b.tid /\ i = b.code[m])
    <3>1. ASSUME NEW j PROVE j \in (m - 1) + 1 .. n <=> j = m \/ j \in m + 1 .. n
      BY <1>1
    <3>2. Partly(k, m - 1, t, i) <=> Partly(k, m, t, i)
      BY <2>4, <3>1 DEF Partly
    <3>3. Cnt(v, t, i) = Cnt(u, t, i)
      BY <2>4 DEF OneMore
    <3> QED
      BY <2>2, <3>2, <3>3
  <2> QED
    BY <2>3, <2>4
<1> QED
  BY <1>2 DEF ReadTo

(* Between two blocks.                                                     *)
LEMMA ReadAll ==
  ASSUME block_trace \in Seq(Blocks), NEW k, InTrace(k), ~Skipped(block_trace[k]),
         NEW u, NEW v, u.inst_count = v.inst_count, v.at = u.at - 1
  PROVE  /\ u.at = k /\ (\A t, i : Cnt(u, t, i) = Ran(k, t, i)) => ReadTo(u, k, Len(block_trace[k].code))
         /\ ReadTo(u, k, 0) => \A t, i : Cnt(v, t, i) = Ran(v.at, t, i)
<1> DEFINE b == block_trace[k]
           n == Len(b.code)
<1>1. n \in Nat /\ k \in 1 .. Len(block_trace) /\ k \in Nat
  BY BlocksAre DEF InTrace
<1>2. \A t, i : ~Partly(k, n, t, i)
  BY <1>1 DEF Partly
<1>3. ASSUME u.at = k, \A t, i : Cnt(u, t, i) = Ran(k, t, i)
      PROVE  ReadTo(u, k, n)
  <2>1. \A t, i : Ran(k, t, i) \in Nat
    BY <1>1, RanIs
  <2> QED
    BY <1>2, <1>3, <2>1 DEF ReadTo
<1>4. ASSUME ReadTo(u, k, 0), NEW t, NEW i
      PROVE  Cnt(v, t, i) = Ran(v.at, t, i)
  <2>1. v.at = k - 1
    BY <1>4 DEF ReadTo
  <2>2. Partly(k, 0, t, i) <=> t = b.tid /\ <<k, i>> \in Instances
    <3>1. <<k, i>> \in Instances <=> i \in ToSet(b.code)
      BY InstancesAre
    <3>2. i \in ToSet(b.code) <=> \E j \in 0 + 1 .. n : b.code[j] = i
      <4>1. DOMAIN b.code = 0 + 1 .. n
        BY BlocksAre
      <4> QED
        BY <4>1 DEF ToSet
    <3> QED
      BY <3>1, <3>2 DEF Partly
  <2>3. Cnt(u, t, i) = Ran(k, t, i) + (IF Partly(k, 0, t, i) THEN 1 ELSE 0)
    BY <1>4 DEF ReadTo
  <2>4. Ran(k - 1, t, i) = IF b.tid = t /\ <<k, i>> \in Instances /\ ~Skipped(b)
                           THEN Ran(k, t, i) + 1 ELSE Ran(k, t, i)
    BY <1>1, RanStep
  <2>5. Ran(k, t, i) \in Nat
    BY <1>1, RanIs
  <2>6. Cnt(v, t, i) = Cnt(u, t, i)
    BY DEF Cnt
  <2> QED
    BY <2>1, <2>2, <2>3, <2>4, <2>5, <2>6
<1> QED
  BY <1>3, <1>4

(* Different executions have different numbers.                            *)
LEMMA InstancesDiffer ==
  ASSUME block_trace \in Seq(Blocks), NEW x \in Instances, NEW y \in Instances,
         InstanceOf(x[1], x[2]) = InstanceOf(y[1], y[2]), ~Skipped(block_trace[x[1]])
  PROVE  x = y
<1> DEFINE k == x[1]
           j == y[1]
           i == x[2]
           t == block_trace[k].tid
<1>1. x = <<k, i>> /\ y = <<j, y[2]>>
  BY InstancesAre
<1>2. y[2] = i /\ block_trace[j].tid = t
  BY <1>1, InstanceIs
<1>3. <<k, i>> \in Instances /\ <<j, i>> \in Instances /\ ~Skipped(block_trace[k])
  BY <1>1, <1>2
<1>4. ~Skipped(block_trace[j])
  BY <1>3, KindsAgree
<1>5. InstanceOf(k, i) = InstanceOf(j, i)
  BY <1>2
<1>6. k \in 1 .. Len(block_trace) /\ j \in 1 .. Len(block_trace) /\ k \in Nat /\ j \in Nat
      /\ InstanceOf(k, i).Cnt = -Ran(k, t, i) /\ InstanceOf(j, i).Cnt = -Ran(j, t, i)
  BY <1>2, <1>3, <1>4, InstanceIs
<1>7. Ran(k, t, i) \in Nat /\ Ran(j, t, i) \in Nat
  BY <1>6, RanIs
<1>8. Ran(k, t, i) = Ran(j, t, i)
  BY <1>5, <1>6, <1>7
<1>9. CASE k < j
  <2>1. j \in After(k, t, i)
    <3>1. j \in k + 1 .. Len(block_trace)
      BY <1>6, <1>9
    <3> QED
      BY <1>2, <1>3, <1>4, <3>1 DEF After
  <2>2. Ran(k, t, i) > Ran(j, t, i)
    BY <1>6, <1>9, <2>1, RanIs
  <2> QED
    BY <1>7, <1>8, <2>2
<1>10. CASE j < k
  <2>1. k \in After(j, t, i)
    <3>1. k \in j + 1 .. Len(block_trace)
      BY <1>6, <1>10
    <3> QED
      BY <1>2, <1>3, <1>4, <3>1 DEF After
  <2>2. Ran(j, t, i) > Ran(k, t, i)
    BY <1>6, <1>10, <2>1, RanIs
  <2> QED
    BY <1>7, <1>8, <2>2
<1> QED
  BY <1>1, <1>2, <1>6, <1>9, <1>10

-----------------------------------------------------------------------------
(* What is owed to an instruction that has been found to be needed         *)

(* The execution y is not reported if it has been read, and is waited for  *)
(* by its number or by its instruction, of which it is the next execution, *)
(* otherwise.                                                              *)
Owed(u, y) ==
    LET d == InstanceOf(y[1], y[2]) IN
    IF HasRun(u, d) THEN d \notin u.unneeded_di
    ELSE \/ Skipped(block_trace[y[1]])
         \/ d.Cnt = -Cnt(u, d.TID, d.ID) /\ <<d.TID, d.ID>> \in u.needed
         \/ d \in u.mem_depended /\ block_trace[y[1]].type # "Normal"

(* It stays so when no more is read.                                       *)
LEMMA OwedQuiet ==
  ASSUME NEW u, NEW v, Quiet(u, v), NEW y, Owed(u, y)
  PROVE  Owed(v, y)
<1> DEFINE d == InstanceOf(y[1], y[2])
<1>1. /\ HasRun(v, d) <=> HasRun(u, d)
      /\ Cnt(v, d.TID, d.ID) = Cnt(u, d.TID, d.ID)
  BY DEF Quiet, HasRun, Cnt
<1> HIDE DEF d
<1>2. IF HasRun(u, d) THEN d \notin u.unneeded_di
      ELSE \/ Skipped(block_trace[y[1]])
           \/ d.Cnt = -Cnt(u, d.TID, d.ID) /\ <<d.TID, d.ID>> \in u.needed
           \/ d \in u.mem_depended /\ block_trace[y[1]].type # "Normal"
  BY DEF Owed, d
<1>3. IF HasRun(v, d) THEN d \notin v.unneeded_di
      ELSE \/ Skipped(block_trace[y[1]])
           \/ d.Cnt = -Cnt(v, d.TID, d.ID) /\ <<d.TID, d.ID>> \in v.needed
           \/ d \in v.mem_depended /\ block_trace[y[1]].type # "Normal"
  BY <1>1, <1>2 DEF Quiet
<1> QED
  BY <1>3 DEF Owed, d

(* And when an instruction is: if y is read, it is found to be needed.     *)
LEMMA OwedReading ==
  ASSUME block_trace \in Seq(Blocks), NEW y \in Instances,
         NEW k, NEW i, <<k, i>> \in Instances, ~Skipped(block_trace[k]),
         NEW u, SliceOK(u), NEW v, Reading(u, v, block_trace[k], i), Owed(u, y)
  PROVE  Owed(v, y)
<1> DEFINE d == InstanceOf(y[1], y[2])
           b == block_trace[k]
           t == b.tid
           e == Current(u, t, i)
           c == block_trace[y[1]]
<1>1. /\ y = <<y[1], y[2]>> /\ d.TID = c.tid /\ d.ID = y[2] /\ d.Cnt \in Int
      /\ d = DynamicInst(c.tid, y[2], d.Cnt)
  BY InstancesAre, InstanceIs
<1>2. y[2] = i => (Skipped(c) => Skipped(b)) /\ (c.type = "Normal" <=> b.type = "Normal")
  BY <1>1, KindsAgree
<1>3. t \in Tids /\ i \in InsIDs
  BY InstanceIs
<1>4. /\ e.TID = t /\ e.ID = i /\ e.Cnt = -Cnt(u, t, i) /\ Cnt(u, t, i) \in Nat /\ ~HasRun(u, e)
      /\ e = DynamicInst(t, i, e.Cnt)
  BY <1>3, CurrentIs DEF Current, DynamicInst
<1>5. OneMore(u, v, t, i) /\ (Keeps(u, v, b, e) \/ Passes(u, v, b, e))
  BY DEF Reading, Counts1
<1>6. \A x \in u.unneeded_di : HasRun(u, x)
  BY DEF SliceOK
<1>7. IF HasRun(u, d) THEN d \notin u.unneeded_di
      ELSE \/ Skipped(c)
           \/ d.Cnt = -Cnt(u, d.TID, d.ID) /\ <<d.TID, d.ID>> \in u.needed
           \/ d \in u.mem_depended /\ c.type # "Normal"
  BY DEF Owed
<1>8. Cnt(u, d.TID, d.ID) \in Nat
  BY CntIsNat DEF SliceOK
<1> HIDE DEF d, e, b, c
<1>9. HasRun(u, d) => HasRun(v, d)
  <2>1. Cnt(v, d.TID, d.ID) >= Cnt(u, d.TID, d.ID) /\ Cnt(v, d.TID, d.ID) \in Nat
    BY <1>5, <1>8 DEF OneMore
  <2> QED
    BY <1>1, <1>8, <2>1 DEF HasRun
<1>10. CASE HasRun(u, d)
  <2>1. d # e
    BY <1>4, <1>10
  <2>2. d \notin v.unneeded_di
    BY <1>5, <1>7, <1>10, <2>1 DEF Keeps, Passes
  <2> QED
    BY <1>9, <1>10, <2>2 DEF Owed, d
<1>11. CASE ~HasRun(u, d) /\ HasRun(v, d)
  <2>1. d.TID = t /\ d.ID = i
    <3>1. Cnt(v, d.TID, d.ID) # Cnt(u, d.TID, d.ID)
      BY <1>11 DEF HasRun
    <3> QED
      BY <1>5, <3>1 DEF OneMore
  <2>2. d.Cnt = -Cnt(u, t, i)
    <3>1. Cnt(v, t, i) = Cnt(u, t, i) + 1
      BY <1>5 DEF OneMore
    <3> QED
      BY <1>1, <1>4, <1>11, <2>1, <3>1 DEF HasRun
  <2>3. d = e
    BY <1>1, <1>4, <2>1, <2>2
  <2>4. ~Skipped(c) /\ (c.type = "Normal" <=> b.type = "Normal")
    BY <1>1, <1>2, <2>1 DEF b
  <2>5. ~Passes(u, v, b, e)
    BY <1>7, <1>11, <2>3, <2>4 DEF Passes
  <2>6. d \notin v.unneeded_di
    BY <1>5, <1>6, <1>11, <2>5 DEF Keeps
  <2> QED
    BY <1>11, <2>6 DEF Owed, d
<1>12. CASE ~HasRun(v, d)
  <2>1. ~HasRun(u, d)
    BY <1>9, <1>12
  <2>2. HasRun(v, e)
    <3>1. Cnt(v, t, i) = Cnt(u, t, i) + 1
      BY <1>5 DEF OneMore
    <3> QED
      BY <1>4, <3>1 DEF HasRun
  <2>3. d # e
    BY <1>12, <2>2
  <2>4. CASE Skipped(c)
    BY <1>12, <2>4 DEF Owed, d, c
  <2>5. CASE d.Cnt = -Cnt(u, d.TID, d.ID) /\ <<d.TID, d.ID>> \in u.needed
    <3>1. ~(d.TID = t /\ d.ID = i)
      BY <1>1, <1>4, <2>3, <2>5
    <3>2. Cnt(v, d.TID, d.ID) = Cnt(u, d.TID, d.ID)
      BY <1>5, <3>1 DEF OneMore
    <3>3. <<d.TID, d.ID>> # <<e.TID, e.ID>>
      BY <1>4, <3>1
    <3>4. <<d.TID, d.ID>> \in v.needed
      BY <1>5, <2>5, <3>3 DEF Keeps, Passes
    <3> QED
      BY <1>12, <2>5, <3>2, <3>4 DEF Owed, d
  <2>6. CASE d \in u.mem_depended /\ c.type # "Normal"
    <3>1. d \in v.mem_depended
      BY <1>5, <2>3, <2>6 DEF Keeps, Passes
    <3> QED
      BY <1>12, <2>6, <3>1 DEF Owed, d, c
  <2> QED
    BY <1>7, <2>1, <2>4, <2>5, <2>6
<1> QED
  BY <1>10, <1>11, <1>12

(* y is the next execution of op that thread t reads, unless it is skipped. *)
IsNext(u, y, t, op) ==
    LET d == InstanceOf(y[1], y[2]) IN
    /\ y \in Instances /\ d.TID = t /\ d.ID = op /\ ~HasRun(u, d)
    /\ Skipped(block_trace[y[1]]) \/ d.Cnt = -Cnt(u, d.TID, d.ID)

(* The last execution of an operand before the instruction at position m   *)
(* of block k, when that instruction has been read: it is the next one of  *)
(* the operand.                                                            *)
LEMMA OperandIsNext ==
  ASSUME block_trace \in Seq(Blocks), NEW k, InTrace(k), ~Skipped(block_trace[k]),
         NEW m \in 1 .. Len(block_trace[k].code), NEW u, ReadTo(u, k, m - 1),
         NEW op, NEW y \in LastExecution(k, block_trace[k].code[m], op)
  PROVE  IsNext(u, y, block_trace[k].tid, op)
<1> DEFINE b == block_trace[k]
           t == b.tid
           i == b.code[m]
           n == Len(b.code)
           js == {x \in Instances :
                    /\ x[2] = op /\ block_trace[x[1]].tid = t
                    /\ \/ x[1] < k
                       \/ x[1] = k /\ \E p, q \in DOMAIN b.code : p < q /\ b.code[p] = op /\ b.code[q] = i}
           j == y[1]
           d == InstanceOf(j, op)
<1>1. LastExecution(k, i, op) = {x \in js : \A z \in js : z[1] <= x[1]}
  BY DEF LastExecution
<1>2. y \in js /\ \A z \in js : z[1] <= j
  BY <1>1
<1>3. y = <<j, op>> /\ <<j, op>> \in Instances
  BY <1>2, InstancesAre
<1>4. block_trace[j].tid = t /\ j <= k /\ j \in 1 .. Len(block_trace) /\ j \in Nat
  <2>1. j \in 1 .. Len(block_trace) /\ j \in Nat
    BY <1>3, InstanceIs
  <2>2. k \in Nat
    BY DEF InTrace
  <2> QED
    BY <1>2, <2>1, <2>2
<1>5. /\ IsInjective(b.code) /\ n \in Nat /\ DOMAIN b.code = 1 .. n /\ m \in 1 .. n /\ k \in Nat
      /\ k \in 1 .. Len(block_trace)
  BY BlocksAre DEF InTrace
<1>6. ASSUME NEW p, p \in 1 .. n, b.code[p] = op
      PROVE  <<k, op>> \in Instances /\ (p < m => j = k)
  <2>1. <<k, op>> \in Instances
    BY <1>5, <1>6, InstancesAre DEF ToSet
  <2>2. ASSUME p < m PROVE <<k, op>> \in js
    BY <1>5, <1>6, <2>1, <2>2
  <2>3. p < m => k <= j
    BY <1>2, <2>2
  <2> QED
    BY <1>4, <1>5, <2>1, <2>3
<1>7. j = k => \E p \in 1 .. n : p < m /\ b.code[p] = op
  BY <1>2, <1>5 DEF IsInjective
<1>8. \A z : z \in Instances /\ z[2] = op /\ block_trace[z[1]].tid = t /\ z[1] < k => z[1] <= j
  BY <1>2
<1> HIDE DEF js
<1>9. /\ d.TID = t /\ d.ID = op /\ d.Cnt \in Int /\ d.Cnt <= 0
      /\ ~Skipped(block_trace[j]) => d.Cnt = -Ran(j, t, op)
  BY <1>3, <1>4, InstanceIs
<1>10. Ran(j, t, op) \in Nat /\ Ran(k, t, op) \in Nat
  BY <1>4, <1>5, RanIs
<1>11. Cnt(u, t, op) = Ran(k, t, op) + (IF Partly(k, m - 1, t, op) THEN 1 ELSE 0)
  BY DEF ReadTo
<1>12. Partly(k, m - 1, t, op) <=> \E p \in (m - 1) + 1 .. n : b.code[p] = op
  BY DEF Partly
<1>13. \A p : p \in (m - 1) + 1 .. n <=> p \in 1 .. n /\ p >= m
  BY <1>5
<1>14. CASE Skipped(block_trace[j])
  <2>1. Ran(k, t, op) = 0 /\ (InTrace(k) /\ op \in ToSet(b.code) => Skipped(b))
    <3>1. \A z : <<z, op>> \in Instances => Skipped(block_trace[z])
      BY <1>3, <1>14, KindsAgree
    <3>2. After(k, t, op) = {}
      BY <3>1 DEF After
    <3> QED
      BY <3>1, <3>2, InstancesAre, FS_EmptySet DEF Ran
  <2>2. ~Partly(k, m - 1, t, op)
    BY <1>5, <1>12, <1>13, <2>1 DEF ToSet
  <2>3. Cnt(u, t, op) = 0
    BY <1>11, <2>1, <2>2
  <2>4. ~HasRun(u, d)
    BY <1>9, <2>3 DEF HasRun
  <2> QED
    BY <1>3, <1>9, <1>14, <2>4 DEF IsNext
<1>15. CASE ~Skipped(block_trace[j])
  <2>1. Cnt(u, t, op) = Ran(j, t, op)
    <3>1. CASE j = k
      <4>1. ~Partly(k, m - 1, t, op)
        <5> SUFFICES ASSUME Partly(k, m - 1, t, op) PROVE FALSE
          OBVIOUS
        <5>1. PICK p \in 1 .. n : p >= m /\ b.code[p] = op
          BY <1>12, <1>13
        <5>2. PICK q \in 1 .. n : q < m /\ b.code[q] = op
          BY <1>7, <3>1
        <5>3. p = q
          BY <1>5, <5>1, <5>2 DEF IsInjective
        <5> QED
          BY <1>5, <5>1, <5>2, <5>3
      <4> QED
        BY <1>10, <1>11, <3>1, <4>1
    <3>2. CASE j < k
      <4>1. \A p \in 1 .. n : b.code[p] = op => p >= m
        BY <1>5, <1>6, <3>2
      <4>2. Partly(k, m - 1, t, op) <=> <<k, op>> \in Instances
        <5>1. <<k, op>> \in Instances <=> \E p \in 1 .. n : b.code[p] = op
          <6>1. <<k, op>> \in Instances <=> op \in ToSet(b.code)
            BY InstancesAre
          <6> QED
            BY <1>5, <6>1 DEF ToSet
        <5> QED
          BY <1>12, <1>13, <4>1, <5>1
      <4>3. <<k, op>> \in Instances => ~Skipped(b)
        BY <1>3, <1>15, KindsAgree
      <4>4. Ran(k - 1, t, op) = IF <<k, op>> \in Instances THEN Ran(k, t, op) + 1 ELSE Ran(k, t, op)
        BY <1>5, <4>3, RanStep
      <4>5. After(k - 1, t, op) = After(j, t, op)
        <5>1. After(k - 1, t, op) \subseteq After(j, t, op)
          BY <1>4, <1>5, <3>2 DEF After
        <5>2. ASSUME NEW z \in After(j, t, op) PROVE z \in After(k - 1, t, op)
          <6>1. <<z, op>> \in Instances /\ z \in j + 1 .. Len(block_trace) /\ block_trace[z].tid = t
            BY DEF After
          <6>2. z < k => z <= j
            BY <1>8, <6>1
          <6>3. z \in (k - 1) + 1 .. Len(block_trace)
            BY <1>4, <1>5, <6>1, <6>2
          <6> QED
            BY <6>3 DEF After
        <5> QED
          BY <5>1, <5>2
      <4> QED
        BY <1>10, <1>11, <4>2, <4>4, <4>5 DEF Ran
    <3> QED
      BY <1>4, <1>5, <3>1, <3>2
  <2>2. d.Cnt = -Cnt(u, t, op)
    BY <1>9, <1>15, <2>1
  <2>3. ~HasRun(u, d)
    BY <1>9, <1>10, <2>1, <2>2 DEF HasRun
  <2> QED
    BY <1>3, <1>9, <2>2, <2>3 DEF IsNext
<1> QED
  BY <1>14, <1>15

(* What the dependencies are in the numbers of the backward pass.          *)
DependsOK ==
    /\ block_trace \in Seq(Blocks) /\ read = Len(block_trace)
    /\ \A p \in Depends :
          /\ p[1] \in 1 .. Len(block_trace) /\ p[2] \in 1 .. p[1] - 1
          /\ Counted(block_trace[p[1]]) /\ Counted(block_trace[p[2]])
          /\ <<Backward(p[1]), Backward(p[2])>> \in mem_dep

(* A block of one instruction is numbered as MemoryDependency has it.      *)
LEMMA BackwardIs ==
  ASSUME DependsOK, NEW k \in 1 .. Len(block_trace), Counted(block_trace[k])
  PROVE  /\ <<k, block_trace[k].ins>> \in Instances
         /\ Backward(k) = InstanceOf(k, block_trace[k].ins)
<1> DEFINE b == block_trace[k]
           i == b.ins
           t == b.tid
           n == Len(block_trace)
           A == {j \in Same(k) : j > k}
           B == {j \in k + 1 .. n : block_trace[j].tid = t /\ <<j, i>> \in Instances}
<1>1. block_trace \in Seq(Blocks) /\ read = n /\ n \in Nat
  BY DEF DependsOK
<1>2. trace = block_trace
  <2> DEFINE r == block_trace
  <2>1. SubSeq(r, 1, Len(r)) = r
    <3> HIDE DEF r
    <3>1. r \in Seq(Blocks) => SubSeq(r, 1, Len(r)) = r
      OBVIOUS
    <3> QED
      BY <1>1, <3>1 DEF r
  <2> QED
    BY <1>1, <2>1 DEF trace
<1>3. <<k, i>> \in Instances
  <2>1. InTrace(k) /\ b.type # "Normal"
    BY DEF InTrace, Counted
  <2>2. ToSet(b.code) = {i}
    BY <1>1, <2>1, BlocksAre
  <2> QED
    BY <1>1, <2>1, <2>2, InstancesAre
<1>4. \A j \in 1 .. n : (Counted(block_trace[j]) /\ block_trace[j].ins = i) <=> <<j, i>> \in Instances
  <2> SUFFICES ASSUME NEW j \in 1 .. n
               PROVE  (Counted(block_trace[j]) /\ block_trace[j].ins = i) <=> <<j, i>> \in Instances
    OBVIOUS
  <2> DEFINE c == block_trace[j]
  <2>1. <<j, i>> \in Instances <=> c.type # "Declare" /\ i \in ToSet(c.code)
    BY <1>1, InstancesAre DEF InTrace
  <2>2. c.type # "Declare" /\ c.type # "Normal" => ToSet(c.code) = {c.ins}
    BY <1>1, BlocksAre DEF InTrace
  <2>3. <<j, i>> \in Instances => c.type # "Normal"
    BY <1>1, <1>3, KindsAgree DEF Counted
  <2> QED
    BY <2>1, <2>2, <2>3 DEF Counted
<1>5. \A j : j \in A <=> j \in 1 .. n /\ Counted(block_trace[j]) /\ block_trace[j].tid = t
                         /\ block_trace[j].ins = i /\ j > k
  BY <1>1, <1>2 DEF Same, I
<1>6. A = B
  <2>1. \A j : j \in k + 1 .. n <=> j \in 1 .. n /\ j > k
    BY <1>1
  <2> HIDE DEF A
  <2> QED
    BY <1>4, <1>5, <2>1
<1>7. Backward(k) = DynamicInst(t, i, -Cardinality(A))
  BY <1>2 DEF Backward
<1>8. InstanceOf(k, i) = DynamicInst(t, i, -Cardinality(B))
  BY DEF InstanceOf
<1> QED
  BY <1>3, <1>6, <1>7, <1>8

(* What an instruction that is found to be needed depends on is owed to it *)
(* as soon as it has been read.                                            *)
LEMMA NewlyOwed ==
  ASSUME DependsOK, NEW k, InTrace(k), ~Skipped(block_trace[k]),
         NEW m \in 1 .. Len(block_trace[k].code), NEW u, SliceOK(u), ReadTo(u, k, m),
         NEW v, Reading(u, v, block_trace[k], block_trace[k].code[m]),
         Keeps(u, v, block_trace[k], Current(u, block_trace[k].tid, block_trace[k].code[m])),
         NEW y \in Sources(k, block_trace[k].code[m])
  PROVE  y \in Instances /\ Owed(v, y)
<1> DEFINE b == block_trace[k]
           t == b.tid
           i == b.code[m]
           d == Current(u, t, i)
           e == InstanceOf(y[1], y[2])
<1>0. block_trace \in Seq(Blocks) /\ k \in 1 .. Len(block_trace) /\ k \in Nat
  BY DEF DependsOK, InTrace
<1>1. <<k, i>> \in Instances /\ d = InstanceOf(k, i)
  BY <1>0, InstanceNow
<1>2. d.TID = t /\ d.ID = i
  BY <1>0, <1>1, InstanceIs
<1>3. OneMore(u, v, t, i) /\ v.at = u.at /\ SliceOK(v)
  BY DEF Reading, Counts1
<1>4. ReadTo(v, k, m - 1)
  BY <1>0, <1>3, ReadOn
<1>5. /\ SSANeeds(d) \subseteq v.needed /\ PhiNeeds(d, b.lastbb) \subseteq v.needed
      /\ MemNeeds(d) \subseteq v.mem_depended
  BY DEF Keeps
<1> HIDE DEF d
<1>6. ASSUME NEW op, y \in LastExecution(k, i, op), <<t, op>> \in v.needed
      PROVE  y \in Instances /\ Owed(v, y)
  <2>1. IsNext(v, y, t, op)
    <3>1. y \in LastExecution(k, block_trace[k].code[m], op)
      BY <1>6
    <3> HIDE DEF i
    <3> QED
      BY <1>0, <1>4, <3>1, OperandIsNext
  <2> QED
    BY <1>6, <2>1 DEF Owed, IsNext
<1>7. CASE y \in Operands(k, i)
  <2>1. PICK dep \in ToSet(SSADependencies[i]) : dep[1] = "Inst" /\ y \in LastExecution(k, i, dep[2])
    BY <1>7 DEF Operands
  <2>2. <<t, dep[2]>> \in SSANeeds(d)
    BY <1>2, <2>1 DEF SSANeeds
  <2> QED
    BY <1>5, <1>6, <2>1, <2>2
<1>8. CASE y \in Incoming(k, i)
  <2>1. PICK phi \in ToSet(PhiDependencies[i]) :
            phi[1] = b.lastbb /\ phi[2] = "Inst" /\ y \in LastExecution(k, i, phi[3])
    BY <1>8 DEF Incoming
  <2>2. <<t, phi[3]>> \in PhiNeeds(d, b.lastbb)
    BY <1>2, <2>1 DEF PhiNeeds
  <2> QED
    BY <1>5, <1>6, <2>1, <2>2
<1>9. CASE b.type # "Normal" /\ y \in Written(k)
  <2>1. PICK p \in Depends : p[1] = k /\ y = <<p[2], block_trace[p[2]].ins>>
    BY <1>9 DEF Written
  <2> DEFINE j == p[2]
  <2>2. /\ j \in 1 .. k - 1 /\ Counted(block_trace[j]) /\ Counted(b)
        /\ <<Backward(k), Backward(j)>> \in mem_dep
    BY <2>1 DEF DependsOK
  <2>3. j \in 1 .. Len(block_trace) /\ y = <<j, block_trace[j].ins>> /\ j < k /\ j \in Nat
    BY <1>0, <2>1, <2>2
  <2> HIDE DEF j
  <2>4. y \in Instances /\ Backward(j) = e
    BY <2>2, <2>3, BackwardIs
  <2>5. i = b.ins
    <3>1. b.code = <<b.ins>> /\ Len(b.code) \in Nat
      BY <1>0, <1>9, BlocksAre
    <3> QED
      BY <3>1
  <2>6. Backward(k) = d
    BY <1>0, <1>1, <2>2, <2>5, BackwardIs
  <2>7. e \in v.mem_depended
    BY <1>5, <2>2, <2>4, <2>6 DEF MemNeeds
  <2>8. block_trace[y[1]].type # "Normal"
    BY <2>2, <2>3 DEF Counted
  <2>9. CASE ~HasRun(v, e)
    BY <2>4, <2>7, <2>8, <2>9 DEF Owed
  <2>10. CASE HasRun(v, e)
    <3> DEFINE w == block_trace[j].ins
               s == block_trace[j].tid
    <3>1. <<j, w>> \in Instances /\ e = InstanceOf(j, w)
      BY <2>3, <2>4
    <3>2. /\ e.TID = s /\ e.ID = w /\ e.Cnt \in Int /\ e.Cnt <= 0
          /\ ~Skipped(block_trace[j]) => e.Cnt = -Ran(j, s, w)
      BY <1>0, <3>1, InstanceIs
    <3>3. Cnt(v, s, w) = Ran(k, s, w) + (IF Partly(k, m - 1, s, w) THEN 1 ELSE 0)
      BY <1>4 DEF ReadTo
    <3>4. Partly(k, m - 1, s, w) => b.tid = s /\ <<k, w>> \in Instances
      <4>1. DOMAIN b.code = 1 .. Len(b.code) /\ Len(b.code) \in Nat
        BY <1>0, BlocksAre
      <4>2. Partly(k, m - 1, s, w) => w \in ToSet(b.code)
        BY <4>1 DEF Partly, ToSet
      <4> QED
        BY <1>0, <4>2, InstancesAre DEF Partly
    <3>5. Ran(k - 1, s, w) = IF b.tid = s /\ <<k, w>> \in Instances /\ ~Skipped(b)
                             THEN Ran(k, s, w) + 1 ELSE Ran(k, s, w)
      BY <1>0, RanStep
    <3>6. Ran(k, s, w) \in Nat /\ Ran(k - 1, s, w) \in Nat /\ Ran(j, s, w) \in Nat
          /\ Ran(j, s, w) >= Ran(k - 1, s, w)
      <4>1. k - 1 \in Nat /\ j <= k - 1
        BY <1>0, <2>3
      <4> QED
        BY <1>0, <2>3, <4>1, RanIs
    <3>7. Cnt(v, s, w) <= Ran(j, s, w) /\ Cnt(v, s, w) \in Nat
      BY <3>3, <3>4, <3>5, <3>6
    <3>8. CASE ~Skipped(block_trace[j])
      BY <2>10, <3>2, <3>6, <3>7, <3>8 DEF HasRun
    <3>9. CASE Skipped(block_trace[j])
      <4>1. \A z : <<z, w>> \in Instances => Skipped(block_trace[z])
        BY <1>0, <3>1, <3>9, KindsAgree
      <4>2. After(k, s, w) = {}
        BY <4>1 DEF After
      <4>3. Cnt(v, s, w) = 0
        BY <3>3, <3>4, <4>1, <4>2, FS_EmptySet DEF Ran
      <4> QED
        BY <2>10, <3>2, <4>3 DEF HasRun
    <3> QED
      BY <3>8, <3>9
  <2> QED
    BY <2>9, <2>10
<1> QED
  BY <1>7, <1>8, <1>9 DEF Sources

-----------------------------------------------------------------------------
(* The depth of the stacks                                                 *)

(* How many of P are from i to j.                                          *)
Num(P, i, j) == Cardinality(P \cap (i .. j))

(* It is a number.                                                        *)
LEMMA NumNat ==
  ASSUME NEW P, NEW i \in Int, NEW j \in Int
  PROVE  Num(P, i, j) \in Nat /\ IsFiniteSet(P \cap (i .. j))
<1>1. IsFiniteSet(i .. j)
  BY FS_Interval
<1> QED
  BY <1>1, FS_Subset, FS_CardinalityType DEF Num

(* None are behind the end.                                                *)
LEMMA NumNone ==
  ASSUME NEW P, NEW i \in Int, NEW j \in Int, j < i
  PROVE  Num(P, i, j) = 0
<1>1. P \cap (i .. j) = {}
  OBVIOUS
<1> QED
  BY <1>1, FS_EmptySet DEF Num

(* One place.                                                              *)
LEMMA NumOne ==
  ASSUME NEW P, NEW i \in Int
  PROVE  Num(P, i, i) = IF i \in P THEN 1 ELSE 0
<1>1. P \cap (i .. i) = IF i \in P THEN {i} ELSE {}
  OBVIOUS
<1> QED
  BY <1>1, FS_EmptySet, FS_Singleton DEF Num

(* A part has no more.                                                     *)
LEMMA NumFewer ==
  ASSUME NEW P, NEW Q, Q \subseteq P, NEW i \in Int, NEW j \in Int
  PROVE  Num(Q, i, j) <= Num(P, i, j)
<1>1. IsFiniteSet(P \cap (i .. j))
  BY NumNat
<1>2. Q \cap (i .. j) \subseteq P \cap (i .. j)
  OBVIOUS
<1> QED
  BY <1>1, <1>2, FS_Subset DEF Num

(* They are counted in two parts.                                          *)
LEMMA NumSplit ==
  ASSUME NEW P, NEW i \in Int, NEW j \in Int, NEW k \in Int, i <= k + 1, k <= j
  PROVE  Num(P, i, j) = Num(P, i, k) + Num(P, k + 1, j)
<1> DEFINE A == P \cap (i .. k)
           B == P \cap (k + 1 .. j)
           C == P \cap (i .. j)
<1>1. C = A \cup B /\ A \cap B = {}
  <2>1. \A x : x \in i .. j <=> x \in i .. k \/ x \in k + 1 .. j
    OBVIOUS
  <2>2. \A x : ~(x \in i .. k /\ x \in k + 1 .. j)
    OBVIOUS
  <2> QED
    BY <2>1, <2>2
<1>2. IsFiniteSet(A) /\ IsFiniteSet(B) /\ Cardinality(A) \in Nat /\ Cardinality(B) \in Nat
  <2>1. IsFiniteSet(A) /\ Cardinality(A) \in Nat
    BY NumNat DEF Num
  <2>2. IsFiniteSet(B) /\ Cardinality(B) \in Nat
    <3>1. k + 1 \in Int
      OBVIOUS
    <3> QED
      BY <3>1, NumNat DEF Num
  <2> QED
    BY <2>1, <2>2
<1> HIDE DEF A, B, C
<1>3. Cardinality(C) = Cardinality(A) + Cardinality(B)
  <2>1. Cardinality(A \cup B) = Cardinality(A) + Cardinality(B) - Cardinality(A \cap B)
    BY <1>2, FS_Union
  <2> QED
    BY <1>1, <1>2, <2>1, FS_EmptySet
<1> QED
  BY <1>3 DEF Num, A, B, C

(* The blocks of thread t at which a frame is pushed and at which a        *)
(* function starts, and of those the ones at which a frame is popped.      *)
Lasts(t) == {k \in 1 .. Len(block_trace) :
                block_trace[k].tid = t /\ block_trace[k].type # "Declare" /\ block_trace[k].last > 0}
Firsts(t) == {k \in 1 .. Len(block_trace) :
                block_trace[k].tid = t /\ block_trace[k].type # "Declare" /\ block_trace[k].first > 0}
Pops(t) == {k \in Firsts(t) : ~Skipped(block_trace[k])}

(* The frames that are open behind block k, and while it is read.          *)
Depth(k, t) ==
    Num(Lasts(t), k + 1, Len(block_trace)) - Num(Pops(t), k + 1, Len(block_trace))
DepthIn(k, t) == Depth(k, t) + (IF k \in Lasts(t) THEN 1 ELSE 0)

(* The sets of the properties.                                             *)
LEMMA LastsAre ==
  ASSUME block_trace \in Seq(Blocks), NEW t, NEW i \in Nat \ {0}, NEW j \in Int, j <= Len(block_trace)
  PROVE  Cardinality(LastBlocks(block_trace, t, i, j)) = Num(Lasts(t), i, j)
<1>1. \A x : x \in i .. j => x \in 1 .. Len(block_trace)
  OBVIOUS
<1>2. LastBlocks(block_trace, t, i, j) = Lasts(t) \cap (i .. j)
  BY <1>1 DEF LastBlocks, Lasts
<1> QED
  BY <1>2 DEF Num

(* And at which one starts.                                                *)
LEMMA FirstsAre ==
  ASSUME block_trace \in Seq(Blocks), NEW t, NEW i \in Nat \ {0}, NEW j \in Int, j <= Len(block_trace)
  PROVE  /\ FirstBlocks(block_trace, t, i, j) = Firsts(t) \cap (i .. j)
         /\ Cardinality(FirstBlocks(block_trace, t, i, j)) = Num(Firsts(t), i, j)
         /\ Cardinality({k \in FirstBlocks(block_trace, t, i, j) : ~Skipped(block_trace[k])}) = Num(Pops(t), i, j)
<1>1. \A x : x \in i .. j => x \in 1 .. Len(block_trace)
  OBVIOUS
<1>2. FirstBlocks(block_trace, t, i, j) = Firsts(t) \cap (i .. j)
  BY <1>1 DEF FirstBlocks, Firsts
<1>3. {k \in FirstBlocks(block_trace, t, i, j) : ~Skipped(block_trace[k])} = Pops(t) \cap (i .. j)
  BY <1>2 DEF Pops
<1> QED
  BY <1>2, <1>3 DEF Num

(* One block more.                                                         *)
LEMMA DepthStep ==
  ASSUME block_trace \in Seq(Blocks), NEW k \in 1 .. Len(block_trace), NEW t
  PROVE  /\ Depth(k, t) \in Int
         /\ Depth(k - 1, t) = DepthIn(k, t) - (IF k \in Pops(t) THEN 1 ELSE 0)
<1> DEFINE n == Len(block_trace)
           L == Lasts(t)
           P == Pops(t)
<1>1. k \in Int /\ n \in Int /\ k <= n /\ (k - 1) + 1 = k
  OBVIOUS
<1> HIDE DEF L, P, n
<1>2. /\ Num(L, k, n) = Num(L, k, k) + Num(L, k + 1, n)
      /\ Num(P, k, n) = Num(P, k, k) + Num(P, k + 1, n)
  BY <1>1, NumSplit
<1>3. /\ Num(L, k, k) = (IF k \in L THEN 1 ELSE 0) /\ Num(L, k + 1, n) \in Nat
      /\ Num(P, k, k) = (IF k \in P THEN 1 ELSE 0) /\ Num(P, k + 1, n) \in Nat
  <2>1. k + 1 \in Int
    BY <1>1
  <2>2. Num(L, k + 1, n) \in Nat /\ Num(P, k + 1, n) \in Nat
    BY <1>1, <2>1, NumNat
  <2> QED
    BY <1>1, <2>2, NumOne
<1>4. /\ Depth(k, t) = Num(L, k + 1, n) - Num(P, k + 1, n)
      /\ Depth(k - 1, t) = Num(L, k, n) - Num(P, k, n)
  BY <1>1 DEF Depth, L, P, n
<1> QED
  BY <1>2, <1>3, <1>4 DEF DepthIn, L, P

(* A block finds the frame of its function.                                *)
LEMMA HasFrame ==
  ASSUME block_trace \in Seq(Blocks), Framed(block_trace), NEW k, InTrace(k)
  PROVE  DepthIn(k, block_trace[k].tid) > 0
<1> DEFINE n == Len(block_trace)
           t == block_trace[k].tid
           L == Lasts(t)
           P == Pops(t)
           F == Firsts(t)
<1>1. k \in 1 .. n /\ k \in Int /\ n \in Int /\ k <= n /\ n \in Nat
      /\ k + 1 \in Int /\ k + 1 \in Nat \ {0} /\ n <= Len(block_trace)
  BY DEF InTrace
<1>2. Cardinality(FirstBlocks(block_trace, t, k + 1, n)) < Cardinality(LastBlocks(block_trace, t, k, n))
  BY <1>1 DEF Framed, InTrace
<1>3. Num(F, k + 1, n) < Num(L, k, n)
  <2>1. Cardinality(FirstBlocks(block_trace, t, k + 1, n)) = Num(F, k + 1, n)
    BY <1>1, FirstsAre DEF F, n
  <2>2. Cardinality(LastBlocks(block_trace, t, k, n)) = Num(L, k, n)
    BY <1>1, LastsAre DEF L, n
  <2> QED
    BY <1>2, <2>1, <2>2
<1>4. P \subseteq F
  BY DEF Pops
<1> HIDE DEF L, P, F, n, t
<1>5. Num(L, k, n) = Num(L, k, k) + Num(L, k + 1, n)
  BY <1>1, NumSplit
<1>6. /\ Num(L, k, k) = (IF k \in L THEN 1 ELSE 0) /\ Num(L, k + 1, n) \in Nat
      /\ Num(P, k + 1, n) \in Nat /\ Num(F, k + 1, n) \in Nat /\ Num(P, k + 1, n) <= Num(F, k + 1, n)
  <2>1. Num(L, k + 1, n) \in Nat
    BY <1>1, NumNat
  <2>2. Num(P, k + 1, n) \in Nat
    BY <1>1, NumNat
  <2>3. Num(F, k + 1, n) \in Nat
    BY <1>1, NumNat
  <2>4. Num(P, k + 1, n) <= Num(F, k + 1, n)
    BY <1>1, <1>4, NumFewer
  <2> QED
    BY <1>1, <2>1, <2>2, <2>3, <2>4, NumOne
<1>7. DepthIn(k, t) = (Num(L, k + 1, n) - Num(P, k + 1, n)) + (IF k \in L THEN 1 ELSE 0)
  BY DEF DepthIn, Depth, L, P, n
<1>8. DepthIn(k, t) > 0
  BY <1>3, <1>5, <1>6, <1>7
<1> QED
  BY <1>8 DEF t

(* The frame of a function is there from its last block on to its first.   *)
LEMMA BodyDepth ==
  ASSUME block_trace \in Seq(Blocks), NEW f \in 1 .. Len(block_trace), NEW j \in Body(f),
         ~Leaves(block_trace[f].tid, f, j), NEW k \in f .. j
  PROVE  LET t == block_trace[f].tid IN
         /\ j \in 1 .. Len(block_trace) /\ DepthIn(j, t) \in Int
         /\ k > f => Depth(k - 1, t) >= DepthIn(j, t)
         /\ k = f => Depth(k - 1, t) = DepthIn(j, t) - 1
<1> DEFINE n == Len(block_trace)
           t == block_trace[f].tid
           L == Lasts(t)
           P == Pops(t)
           F == Firsts(t)
<1>1. /\ j \in f .. n /\ block_trace[j].tid = t
      /\ Cardinality(FirstBlocks(block_trace, t, f, j)) = Cardinality(LastBlocks(block_trace, t, f, j - 1)) + 1
      /\ \A i \in f .. j - 1 : Cardinality(FirstBlocks(block_trace, t, f, i))
                                   > Cardinality(LastBlocks(block_trace, t, f, i))
  BY DEF Body
<1>2. f \in Int /\ j \in Int /\ k \in Int /\ n \in Int /\ 1 <= f /\ f <= k /\ k <= j /\ j <= n /\ n \in Nat /\ f \in Nat \ {0}
  BY <1>1
<1>3. ASSUME NEW i \in Int, i <= n
      PROVE  /\ Cardinality(FirstBlocks(block_trace, t, f, i)) = Num(F, f, i)
             /\ Cardinality(LastBlocks(block_trace, t, f, i)) = Num(L, f, i)
  BY <1>2, <1>3, FirstsAre, LastsAre
<1>4. P \cap (k .. j) = F \cap (k .. j)
  <2>1. \A x \in FirstBlocks(block_trace, t, f, j) : ~Skipped(block_trace[x])
    BY DEF Leaves
  <2>2. \A x : x \in k .. j => x \in f .. j
    BY <1>2
  <2>3. FirstBlocks(block_trace, t, f, j) = F \cap (f .. j)
    BY <1>2, FirstsAre
  <2>4. P = {x \in F : ~Skipped(block_trace[x])}
    BY DEF Pops
  <2> HIDE DEF P, F
  <2> QED
    BY <2>1, <2>2, <2>3, <2>4
<1>5. /\ Num(F, f, j) = Num(L, f, j - 1) + 1
      /\ \A i \in f .. j - 1 : Num(F, f, i) > Num(L, f, i)
  <2>1. /\ Cardinality(FirstBlocks(block_trace, t, f, j)) = Num(F, f, j)
        /\ Cardinality(LastBlocks(block_trace, t, f, j - 1)) = Num(L, f, j - 1)
    BY <1>2, <1>3
  <2>2. ASSUME NEW i \in f .. j - 1 PROVE Num(F, f, i) > Num(L, f, i)
    <3>1. i \in Int /\ i <= n
      BY <1>2
    <3>2. /\ Cardinality(FirstBlocks(block_trace, t, f, i)) = Num(F, f, i)
          /\ Cardinality(LastBlocks(block_trace, t, f, i)) = Num(L, f, i)
      BY <1>3, <3>1
    <3> QED
      BY <1>1, <3>2
  <2> QED
    BY <1>1, <2>1, <2>2
<1>6. /\ Depth(k - 1, t) = Num(L, k, n) - Num(P, k, n)
      /\ DepthIn(j, t) = (Num(L, j + 1, n) - Num(P, j + 1, n)) + (IF j \in L THEN 1 ELSE 0)
  <2>1. (k - 1) + 1 = k
    BY <1>2
  <2> QED
    BY <2>1 DEF Depth, DepthIn
<1>7. Num(P, k, j) = Num(F, k, j)
  BY <1>4 DEF Num
<1> HIDE DEF L, P, F, n, t
<1>8. /\ Num(L, k, n) = Num(L, k, j) + Num(L, j + 1, n)
      /\ Num(P, k, n) = Num(P, k, j) + Num(P, j + 1, n)
  BY <1>2, NumSplit
<1>9. /\ Num(L, k, j) = Num(L, k, j - 1) + Num(L, j, j)
      /\ Num(F, f, j) = Num(F, f, k - 1) + Num(F, k, j)
      /\ Num(L, f, j - 1) = Num(L, f, k - 1) + Num(L, k, j - 1)
  <2>1. k - 1 \in Int /\ j - 1 \in Int /\ (k - 1) + 1 = k /\ (j - 1) + 1 = j
        /\ k <= (j - 1) + 1 /\ j - 1 <= j /\ f <= (k - 1) + 1 /\ k - 1 <= j /\ k - 1 <= j - 1
    BY <1>2
  <2>2. Num(L, k, j) = Num(L, k, j - 1) + Num(L, (j - 1) + 1, j)
    BY <1>2, <2>1, NumSplit
  <2>3. Num(F, f, j) = Num(F, f, k - 1) + Num(F, (k - 1) + 1, j)
    BY <1>2, <2>1, NumSplit
  <2>4. Num(L, f, j - 1) = Num(L, f, k - 1) + Num(L, (k - 1) + 1, j - 1)
    BY <1>2, <2>1, NumSplit
  <2> QED
    BY <2>1, <2>2, <2>3, <2>4
<1>10. /\ Num(L, j, j) = (IF j \in L THEN 1 ELSE 0)
       /\ Num(L, j + 1, n) \in Nat /\ Num(P, j + 1, n) \in Nat /\ Num(P, k, j) \in Nat
       /\ Num(L, k, j - 1) \in Nat /\ Num(F, f, k - 1) \in Nat /\ Num(L, f, k - 1) \in Nat
       /\ k = f => Num(F, f, k - 1) = 0 /\ Num(L, f, k - 1) = 0
  <2>1. k - 1 \in Int /\ j - 1 \in Int /\ (k = f => k - 1 < f)
    BY <1>2
  <2>2. j + 1 \in Int
    BY <1>2
  <2>3. Num(L, j + 1, n) \in Nat /\ Num(P, j + 1, n) \in Nat /\ Num(P, k, j) \in Nat
    BY <1>2, <2>2, NumNat
  <2>4. Num(L, k, j - 1) \in Nat /\ Num(F, f, k - 1) \in Nat /\ Num(L, f, k - 1) \in Nat
    BY <1>2, <2>1, NumNat
  <2>5. k = f => Num(F, f, k - 1) = 0 /\ Num(L, f, k - 1) = 0
    BY <1>2, <2>1, NumNone
  <2> QED
    BY <1>2, <2>3, <2>4, <2>5, NumOne
<1>11. k > f => k - 1 \in f .. j - 1
  BY <1>2
<1>12. j \in 1 .. n
  BY <1>2
<1>13. k > f => Num(F, f, k - 1) > Num(L, f, k - 1)
  BY <1>5, <1>11
<1>14. k > f \/ k = f
  BY <1>2
<1> DEFINE a == Num(F, f, k - 1)
           c == Num(L, f, k - 1)
           p == Num(P, k, j)
           l == Num(L, k, j - 1)
           m == Num(L, j + 1, n)
           q == Num(P, j + 1, n)
           e == IF j \in L THEN 1 ELSE 0
<1>15. /\ a \in Nat /\ c \in Nat /\ p \in Nat /\ l \in Nat /\ m \in Nat /\ q \in Nat /\ e \in Nat
       /\ (k > f => a > c) /\ (k = f => a = 0 /\ c = 0)
  BY <1>10, <1>13
<1>16. Num(F, f, j) = a + p /\ Num(F, f, j) = (c + l) + 1
  BY <1>5, <1>7, <1>9
<1>17. Depth(k - 1, t) = ((l + e) + m) - (p + q) /\ DepthIn(j, t) = (m - q) + e
  BY <1>6, <1>8, <1>9, <1>10
<1> HIDE DEF a, c, p, l, m, q, e
<1>18. a + p = (c + l) + 1
  BY <1>16
<1>19. DepthIn(j, t) \in Int /\ Depth(k - 1, t) = DepthIn(j, t) + (a - c) - 1
  BY <1>15, <1>17, <1>18
<1>20. /\ k > f => Depth(k - 1, t) >= DepthIn(j, t)
       /\ k = f => Depth(k - 1, t) = DepthIn(j, t) - 1
  BY <1>15, <1>19
<1> QED
  BY <1>12, <1>19, <1>20 DEF t, n

-----------------------------------------------------------------------------
(* The slice between two blocks and within one                             *)

(* The sources of what has been found to be needed are owed to it.         *)
OwesSources(u) ==
    \A h \in u.kept, x \in Instances : (~h.late /\ h.inst = InstanceOf(x[1], x[2])) =>
        \A y \in Sources(x[1], x[2]) : y \in Instances /\ Owed(u, y)

(* Block j belongs to the function that was called at f, and an            *)
(* instruction of j has been found to be needed.                           *)
KeptIn(u, f, j) ==
    /\ InTrace(f) /\ block_trace[f].first = 1 /\ block_trace[f].caller # -1
    /\ j \in Body(f) /\ ~Leaves(block_trace[f].tid, f, j)
    /\ \E h \in u.kept : ~h.late /\ \E ins \in ToSet(block_trace[j].code) :
          <<j, ins>> \in Instances /\ h.inst = InstanceOf(j, ins)

(* Its frame is used, and when that has been popped the call is owed.      *)
InUse(u, f, j) ==
    LET s == u.frames[block_trace[f].tid]
        n == DepthIn(j, block_trace[f].tid)
    IN  n \in 1 .. Len(s) /\ s[n].used
CallOwed(u, f) ==
    \A y \in LastExecution(f, block_trace[f].caller, block_trace[f].caller) :
        y \in Instances /\ Owed(u, y)
OwesCalls(u, k) ==
    \A f, j : KeptIn(u, f, j) => j >= k /\ IF k >= f THEN InUse(u, f, j) ELSE CallOwed(u, f)

Owes(u, k) == OwesSources(u) /\ OwesCalls(u, k)

(* Between two blocks, k of them are left; within block k its first m      *)
(* instructions are.                                                       *)
Between(u, k) ==
    /\ SliceOK(u) /\ u.at = k /\ ~u.this_bb_used /\ k \in 0 .. Len(block_trace)
    /\ \A t, i : Cnt(u, t, i) = Ran(k, t, i)
    /\ \A t \in Tids : Len(u.frames[t]) = Depth(k, t)
    /\ Owes(u, k)
Within(u, k, m) ==
    /\ SliceOK(u) /\ ReadTo(u, k, m)
    /\ \A t \in Tids : Len(u.frames[t]) = DepthIn(k, t)
    /\ Owes(u, k)

(* What is owed stays so when no more is read.                             *)
LEMMA OwesQuiet ==
  ASSUME block_trace \in Seq(Blocks), NEW u, SliceOK(u), NEW v, SliceOK(v), Quiet(u, v),
         NEW t \in Tids, NEW n \in Nat, Deeper(u, v, t, n), NEW k, Owes(u, k)
  PROVE  Owes(v, k)
<1>1. \A y : Owed(u, y) => Owed(v, y)
  BY OwedQuiet
<1>2. \A h \in v.kept : ~h.late => h \in u.kept
  BY DEF Quiet
<1>3. OwesSources(v)
  BY <1>1, <1>2 DEF Owes, OwesSources
<1>4. ASSUME NEW f, NEW j, KeptIn(v, f, j)
      PROVE  j >= k /\ IF k >= f THEN InUse(v, f, j) ELSE CallOwed(v, f)
  <2>1. KeptIn(u, f, j)
    BY <1>2, <1>4 DEF KeptIn
  <2>2. j >= k /\ IF k >= f THEN InUse(u, f, j) ELSE CallOwed(u, f)
    BY <2>1 DEF Owes, OwesCalls
  <2>3. InUse(u, f, j) => InUse(v, f, j)
    <3> DEFINE s == block_trace[f].tid
               e == DepthIn(j, s)
    <3>1. s \in Tids
      BY <1>4, BlocksAre DEF KeptIn, Sliceable
    <3>2. Len(u.frames[s]) \in Nat /\ Len(v.frames[s]) \in Nat
      BY <3>1 DEF SliceOK
    <3> HIDE DEF s, e
    <3>3. e \in 1 .. Len(u.frames[s]) /\ u.frames[s][e].used => e \in 1 .. Len(v.frames[s]) /\ v.frames[s][e].used
      <4>1. CASE s = t
        BY <3>1, <3>2, <4>1 DEF Deeper
      <4>2. CASE s # t
        <5>1. v.frames[s] = u.frames[s]
          BY <3>1, <4>2 DEF Deeper
        <5> QED
          BY <5>1
      <4> QED
        BY <4>1, <4>2
    <3> QED
      BY <3>3 DEF InUse, s, e
  <2>4. CallOwed(u, f) => CallOwed(v, f)
    BY <1>1 DEF CallOwed
  <2> QED
    BY <2>2, <2>3, <2>4
<1> QED
  BY <1>3, <1>4 DEF Owes, OwesCalls

(* An instruction is read.                                                 *)
LEMMA WithinReading ==
  ASSUME DependsOK, NEW k, InTrace(k), ~Skipped(block_trace[k]),
         NEW m \in 1 .. Len(block_trace[k].code), NEW u, Within(u, k, m),
         NEW v, Reading(u, v, block_trace[k], block_trace[k].code[m])
  PROVE  Within(v, k, m - 1)
<1> DEFINE b == block_trace[k]
           t == b.tid
           i == b.code[m]
           d == Current(u, t, i)
<1>0. block_trace \in Seq(Blocks) /\ SliceOK(u) /\ ReadTo(u, k, m) /\ u.at = k
  BY DEF DependsOK, Within, ReadTo
<1>1. <<k, i>> \in Instances /\ d = InstanceOf(k, i)
  BY <1>0, InstanceNow
<1>2. /\ SliceOK(v) /\ v.at = u.at /\ Deeper(u, v, t, 0) /\ OneMore(u, v, t, i)
      /\ Keeps(u, v, b, d) \/ Passes(u, v, b, d)
  BY DEF Reading, Counts1
<1>3. ReadTo(v, k, m - 1)
  BY <1>0, <1>2, ReadOn
<1>4. t \in Tids /\ k \in 1 .. Len(block_trace)
  BY <1>0, BlocksAre DEF Sliceable, InTrace
<1>5. ASSUME NEW s \in Tids
      PROVE  Len(u.frames[s]) \in Nat /\ Len(v.frames[s]) = Len(u.frames[s])
             /\ \A j \in 1 .. Len(u.frames[s]) : u.frames[s][j].used => v.frames[s][j].used
  <2>1. Len(u.frames[s]) \in Nat /\ Len(u.frames[t]) \in Nat
    BY <1>0, <1>4 DEF SliceOK
  <2> HIDE DEF t
  <2> QED
    BY <1>2, <2>1 DEF Deeper
<1>6. \A s \in Tids : Len(v.frames[s]) = DepthIn(k, s)
  BY <1>5 DEF Within
<1>7. \A y \in Instances : Owed(u, y) => Owed(v, y)
  BY <1>0, <1>1, OwedReading
<1>8. ASSUME Keeps(u, v, b, d), NEW y \in Sources(k, i) PROVE y \in Instances /\ Owed(v, y)
  BY <1>0, <1>8, NewlyOwed
<1>9. ASSUME NEW h \in v.kept, ~h.late, h \notin u.kept
      PROVE  Keeps(u, v, b, d) /\ h.inst = d
  <2>1. Keeps(u, v, b, d)
    BY <1>2, <1>9 DEF Passes
  <2> HIDE DEF d, b
  <2>2. h = [inst |-> d, at |-> u.at, late |-> FALSE]
    BY <1>9, <2>1 DEF Keeps
  <2> QED
    BY <2>1, <2>2
<1>10. ASSUME NEW h \in v.kept, ~h.late, h \notin u.kept, NEW x \in Instances, h.inst = InstanceOf(x[1], x[2])
       PROVE  x = <<k, i>>
  <2> DEFINE z == <<k, i>>
  <2>1. z \in Instances /\ z[1] = k /\ z[2] = i /\ InstanceOf(z[1], z[2]) = d /\ ~Skipped(block_trace[z[1]])
    BY <1>1
  <2>2. h.inst = d
    BY <1>9, <1>10
  <2> HIDE DEF z, d
  <2>3. InstanceOf(z[1], z[2]) = InstanceOf(x[1], x[2])
    BY <1>10, <2>1, <2>2
  <2>4. z = x
    BY <1>0, <2>1, <2>3, InstancesDiffer
  <2> QED
    BY <2>4 DEF z
<1>11. OwesSources(v)
  <2> SUFFICES ASSUME NEW h \in v.kept, NEW x \in Instances, ~h.late, h.inst = InstanceOf(x[1], x[2]),
                      NEW y \in Sources(x[1], x[2])
               PROVE  y \in Instances /\ Owed(v, y)
    BY DEF OwesSources
  <2>1. CASE h \in u.kept
    BY <1>7, <2>1 DEF Within, Owes, OwesSources
  <2>2. CASE h \notin u.kept
    <3>1. x[1] = k /\ x[2] = i
      BY <1>10, <2>2
    <3> QED
      BY <1>8, <1>9, <2>2, <3>1
  <2> QED
    BY <2>1, <2>2
<1>12. ASSUME NEW f, NEW j, KeptIn(v, f, j)
       PROVE  j >= k /\ IF k >= f THEN InUse(v, f, j) ELSE CallOwed(v, f)
  <2>1. PICK h \in v.kept : ~h.late /\ \E ins \in ToSet(block_trace[j].code) :
                <<j, ins>> \in Instances /\ h.inst = InstanceOf(j, ins)
    BY <1>12 DEF KeptIn
  <2>2. InTrace(f) /\ j \in Body(f) /\ block_trace[f].tid \in Tids
    BY <1>0, <1>12, BlocksAre DEF KeptIn, Sliceable
  <2>3. CASE h \in u.kept
    <3>1. KeptIn(u, f, j)
      BY <1>12, <2>1, <2>3 DEF KeptIn
    <3>2. j >= k /\ IF k >= f THEN InUse(u, f, j) ELSE CallOwed(u, f)
      BY <3>1 DEF Within, Owes, OwesCalls
    <3>3. InUse(u, f, j) => InUse(v, f, j)
      BY <1>5, <2>2 DEF InUse
    <3>4. CallOwed(u, f) => CallOwed(v, f)
      BY <1>7 DEF CallOwed
    <3> QED
      BY <3>2, <3>3, <3>4
  <2>4. CASE h \notin u.kept
    <3>1. PICK ins : <<j, ins>> \in Instances /\ h.inst = InstanceOf(j, ins)
      BY <2>1
    <3>2. j = k
      <4> DEFINE x == <<j, ins>>
      <4>1. x \in Instances /\ x[1] = j /\ x[2] = ins /\ h.inst = InstanceOf(x[1], x[2])
        BY <3>1
      <4> HIDE DEF x
      <4>2. x = <<k, i>>
        BY <1>10, <2>1, <2>4, <4>1
      <4> QED
        BY <4>1, <4>2
    <3>3. block_trace[f].tid = t /\ k >= f
      BY <1>0, <2>2, <3>2 DEF Body, InTrace
    <3>4. Keeps(u, v, b, d)
      BY <1>9, <2>1, <2>4
    <3>5. Len(u.frames[t]) = DepthIn(k, t) /\ Len(u.frames[t]) \in Nat /\ Len(v.frames[t]) = Len(u.frames[t])
      BY <1>4, <1>5 DEF Within
    <3>6. Len(u.frames[t]) > 0
      BY <1>2, <1>4, <3>5 DEF Reading, Counts1, SliceOK
    <3>7. v.frames[t][DepthIn(k, t)].used
      BY <3>4, <3>5 DEF Keeps
    <3>8. InUse(v, f, j)
      BY <3>2, <3>3, <3>5, <3>6, <3>7 DEF InUse
    <3>9. j >= k
      BY <1>4, <3>2
    <3> QED
      BY <3>3, <3>8, <3>9
  <2> QED
    BY <2>3, <2>4
<1> QED
  BY <1>2, <1>3, <1>6, <1>11, <1>12 DEF Within, Owes, OwesCalls

(* The instructions of a Normal block, from its last one on.               *)
IsNormal(f, b, code, first) ==
    f = [k \in 0 .. Len(code) |->
            IF k = 0 THEN first ELSE NormalInst(f[k - 1], b, code[Len(code) - k + 1])]

(* They can be read one after the other.                                   *)
LEMMA NormalExists ==
  ASSUME NEW b, NEW code \in Seq(InsIDs), NEW first
  PROVE  \E f : IsNormal(f, b, code, first)
<1> DEFINE n == Len(code)
           Is(f, m) == \A k \in 0 .. m : f[k] = IF k = 0 THEN first
                                                ELSE NormalInst(f[k - 1], b, code[n - k + 1])
           K == {m \in Nat : \E f : Is(f, m)}
<1>1. n \in Nat
  OBVIOUS
<1>2. 0 \in K
  <2>1. Is([k \in {0} |-> first], 0)
    OBVIOUS
  <2> QED
    BY <2>1
<1>3. ASSUME NEW m \in Nat, m \in K PROVE m + 1 \in K
  <2>1. PICK f : Is(f, m)
    BY <1>3
  <2> DEFINE g == [k \in 0 .. m + 1 |-> IF k <= m THEN f[k] ELSE NormalInst(f[m], b, code[n - (m + 1) + 1])]
  <2>2. \A k \in 0 .. m : g[k] = f[k]
    OBVIOUS
  <2>3. g[m + 1] = NormalInst(f[m], b, code[n - (m + 1) + 1])
    OBVIOUS
  <2> HIDE DEF g
  <2>4. ASSUME NEW k \in 0 .. m + 1
        PROVE  g[k] = IF k = 0 THEN first ELSE NormalInst(g[k - 1], b, code[n - k + 1])
    <3>1. CASE k \in 0 .. m
      <4>1. k # 0 => k - 1 \in 0 .. m
        BY <3>1
      <4> QED
        BY <2>1, <2>2, <3>1, <4>1
    <3>2. CASE k = m + 1
      <4>1. k - 1 = m /\ m \in 0 .. m /\ k # 0
        BY <3>2
      <4>2. g[k - 1] = f[m]
        BY <2>2, <4>1
      <4> QED
        BY <2>3, <3>2, <4>1, <4>2
    <3> QED
      BY <3>1, <3>2
  <2> QED
    BY <2>4
<1>4. n \in K
  <2> HIDE DEF K
  <2>1. Nat \subseteq K
    BY <1>2, <1>3, NatSetInduction
  <2> QED
    BY <1>1, <2>1
<1>5. PICK f : Is(f, n)
  BY <1>4
<1> DEFINE h == [k \in 0 .. n |-> f[k]]
<1>6. \A k \in 0 .. n : h[k] = IF k = 0 THEN first ELSE NormalInst(h[k - 1], b, code[n - k + 1])
  <2> SUFFICES ASSUME NEW k \in 0 .. n
               PROVE  f[k] = IF k = 0 THEN first ELSE NormalInst(h[k - 1], b, code[n - k + 1])
    OBVIOUS
  <2>1. k # 0 => k - 1 \in 0 .. n
    BY <1>1
  <2> QED
    BY <1>5, <2>1
<1>7. h = [k \in 0 .. n |-> IF k = 0 THEN first ELSE NormalInst(h[k - 1], b, code[n - k + 1])]
  <2>1. h = [k \in 0 .. n |-> h[k]]
    OBVIOUS
  <2> HIDE DEF h
  <2> QED
    BY <1>6, <2>1, Zenon
<1> HIDE DEF h
<1>8. IsNormal(h, b, code, first)
  BY <1>7, Zenon DEF IsNormal, n
<1> QED
  BY <1>8

(* What SliceNormal does between the two ends of the block.                *)
NormalBlock(b, u) == FromLast(b.code, LAMBDA x, ins : NormalInst(x, b, ins), u)

(* A Normal block is read.                                                 *)
LEMMA WithinNormal ==
  ASSUME DependsOK, Framed(block_trace), NEW k, InTrace(k), block_trace[k].type = "Normal",
         NEW u, Within(u, k, Len(block_trace[k].code))
  PROVE  Within(NormalBlock(block_trace[k], u), k, 0)
<1> DEFINE b == block_trace[k]
           code == b.code
           n == Len(code)
           f == CHOOSE g : IsNormal(g, b, code, u)
<1>1. NormalBlock(b, u) = f[n]
  BY Zenon DEF NormalBlock, FromLast, IsNormal
<1>2. /\ Sliceable(b) /\ code \in Seq(InsIDs) /\ n \in Nat /\ ~Skipped(b)
      /\ block_trace \in Seq(Blocks)
  BY BlocksAre DEF Skipped, DependsOK
<1>3. b.type = "Normal" /\ Within(u, k, n)
  OBVIOUS
<1> HIDE DEF code
<1>4. IsNormal(f, b, code, u)
  <2> HIDE DEF b
  <2>1. \E g : IsNormal(g, b, code, u)
    BY <1>2, NormalExists
  <2> QED
    BY <2>1
<1> HIDE DEF f
<1>5. \A j \in 0 .. n : f[j] = IF j = 0 THEN u ELSE NormalInst(f[j - 1], b, code[Len(code) - j + 1])
  <2> DEFINE h == [j \in 0 .. Len(code) |-> IF j = 0 THEN u ELSE NormalInst(f[j - 1], b, code[Len(code) - j + 1])]
  <2> HIDE DEF b
  <2>1. \A j \in 0 .. n : h[j] = IF j = 0 THEN u ELSE NormalInst(f[j - 1], b, code[Len(code) - j + 1])
    BY Zenon
  <2>2. f = h
    BY <1>4, Zenon DEF IsNormal
  <2> HIDE DEF h
  <2> QED
    BY <2>1, <2>2
<1>6. ASSUME NEW m \in 1 .. n, NEW x, Within(x, k, m) PROVE Within(NormalInst(x, b, code[m]), k, m - 1)
  <2>1. SliceOK(x) /\ Len(x.frames[b.tid]) = DepthIn(k, b.tid)
    BY <1>2, <1>6 DEF Within, Sliceable
  <2>2. x.frames[b.tid] # <<>>
    BY <1>2, <2>1, HasFrame
  <2>3. code[m] \in InsIDs
    BY <1>2
  <2>4. Reading(x, NormalInst(x, b, code[m]), b, code[m])
    <3> HIDE DEF b
    <3> QED
      BY <1>2, <1>3, <2>1, <2>2, <2>3, NormalReads
  <2> DEFINE v == NormalInst(x, b, code[m])
  <2>5. Reading(x, v, block_trace[k], block_trace[k].code[m]) /\ m \in 1 .. Len(block_trace[k].code)
    BY <2>4 DEF code
  <2> HIDE DEF v
  <2>6. Within(v, k, m - 1)
    BY <1>2, <1>6, <2>5, WithinReading
  <2> QED
    BY <2>6 DEF v
<1> HIDE DEF n, b
<1> DEFINE K == {j \in Nat : j <= n => Within(f[j], k, n - j)}
<1>7. 0 \in K
  <2>1. f[0] = u /\ n - 0 = n
    BY <1>2, <1>5
  <2> QED
    BY <1>3, <2>1
<1>8. ASSUME NEW j \in Nat, j \in K PROVE j + 1 \in K
  <2> SUFFICES ASSUME j + 1 <= n PROVE Within(f[j + 1], k, n - (j + 1))
    OBVIOUS
  <2>0. PICK e \in 0 .. n : e = j + 1
    BY <1>2
  <2>1. PICK m \in 1 .. n : m = n - e + 1
    BY <1>2, <2>0
  <2>2. f[e] = NormalInst(f[e - 1], b, code[m])
    BY <1>2, <1>5, <2>0, <2>1 DEF n
  <2>3. Within(f[e - 1], k, m)
    <3>1. e - 1 = j /\ m = n - j
      BY <1>2, <2>0, <2>1
    <3> QED
      BY <1>2, <1>8, <2>0, <3>1
  <2>4. Within(f[e], k, m - 1)
    BY <1>6, <2>2, <2>3
  <2>5. m - 1 = n - e
    BY <1>2, <2>0, <2>1
  <2> QED
    BY <2>0, <2>4, <2>5
<1>9. n \in K
  <2> HIDE DEF K
  <2>1. Nat \subseteq K
    BY <1>7, <1>8, NatSetInduction
  <2> QED
    BY <1>2, <2>1
<1>10. n - n = 0 /\ n <= n
  BY <1>2
<1>11. Within(f[n], k, n - n)
  BY <1>9, <1>10
<1> QED
  BY <1>1, <1>10, <1>11 DEF b

(* What is left within a block when no more is read and no frame pushed.   *)
LEMMA WithinQuiet ==
  ASSUME block_trace \in Seq(Blocks), NEW k, NEW m, NEW u, Within(u, k, m), NEW v, SliceOK(v), Quiet(u, v),
         NEW t \in Tids, Deeper(u, v, t, 0)
  PROVE  Within(v, k, m)
<1>1. ReadTo(v, k, m)
  BY DEF Within, Quiet, ReadTo, Cnt
<1>2. ASSUME NEW s \in Tids PROVE Len(v.frames[s]) = DepthIn(k, s)
  <2>1. Len(u.frames[s]) = DepthIn(k, s) /\ Len(u.frames[s]) \in Nat
    BY DEF Within, SliceOK
  <2>2. Len(v.frames[s]) = Len(u.frames[s])
    BY <2>1 DEF Deeper
  <2> QED
    BY <2>1, <2>2
<1>3. Owes(v, k)
  BY OwesQuiet DEF Within
<1> QED
  BY <1>1, <1>2, <1>3 DEF Within

(* A block is entered: its thread has a frame.                             *)
LEMMA EnteredIs ==
  ASSUME block_trace \in Seq(Blocks), Framed(block_trace), NEW k, InTrace(k), NEW u, Between(u, k)
  PROVE  LET v == EnterBlock(u, block_trace[k]) IN
         /\ SliceOK(v) /\ v.at = k /\ ~v.this_bb_used /\ v.inst_count = u.inst_count
         /\ \A s \in Tids : Len(v.frames[s]) = DepthIn(k, s)
         /\ Owes(v, k)
<1> DEFINE b == block_trace[k]
           t == b.tid
           v == EnterBlock(u, b)
           n == IF b.last > 0 THEN 1 ELSE 0
<1>1. SliceOK(u) /\ Sliceable(b) /\ t \in Tids /\ k \in 1 .. Len(block_trace) /\ b.type # "Declare"
  BY BlocksAre DEF Between, Sliceable, InTrace
<1>2. \A s \in Tids : DepthIn(k, s) = Depth(k, s) + (IF s = t THEN n ELSE 0)
  BY <1>1 DEF DepthIn, Lasts
<1>3. \A s \in Tids : Len(u.frames[s]) = Depth(k, s) /\ Len(u.frames[s]) \in Nat
  BY <1>1 DEF Between, SliceOK
<1>4. DepthIn(k, t) > 0
  BY HasFrame
<1>5. b.last > 0 \/ u.frames[t] # <<>>
  <2>1. ASSUME ~(b.last > 0) PROVE Len(u.frames[t]) > 0
    BY <1>1, <1>2, <1>3, <1>4, <2>1
  <2> QED
    BY <1>1, <2>1
<1> HIDE DEF b
<1>6. SliceOK(v) /\ Quiet(u, v) /\ Deeper(u, v, t, n) /\ v.this_bb_used = u.this_bb_used
  BY <1>1, <1>5, EnterBlockOK
<1> HIDE DEF v, n, t
<1>7. n \in Nat
  BY DEF n
<1>8. Owes(v, k)
  BY <1>1, <1>6, <1>7, OwesQuiet DEF Between
<1>9. ASSUME NEW s \in Tids PROVE Len(v.frames[s]) = DepthIn(k, s)
  BY <1>2, <1>3, <1>6, <1>7 DEF Deeper
<1> QED
  BY <1>6, <1>8, <1>9 DEF Between, Quiet, v, b

(* And is to be read.                                                      *)
LEMMA WithinEntered ==
  ASSUME block_trace \in Seq(Blocks), Framed(block_trace), NEW k, InTrace(k), ~Skipped(block_trace[k]),
         NEW u, Between(u, k)
  PROVE  Within(EnterBlock(u, block_trace[k]), k, Len(block_trace[k].code))
<1> DEFINE v == EnterBlock(u, block_trace[k])
<1>1. /\ SliceOK(v) /\ v.at = k /\ v.inst_count = u.inst_count
      /\ \A s \in Tids : Len(v.frames[s]) = DepthIn(k, s)
      /\ Owes(v, k)
  BY EnteredIs
<1> HIDE DEF v
<1>2. \A t, i : Cnt(v, t, i) = Ran(k, t, i)
  BY <1>1 DEF Between, Cnt
<1> DEFINE w == [v EXCEPT !.at = @ - 1]
<1>3. w.inst_count = v.inst_count /\ w.at = v.at - 1
  BY <1>1 DEF SliceOK, IsSlice, SliceFields
<1> HIDE DEF w
<1>4. ReadTo(v, k, Len(block_trace[k].code))
  BY <1>1, <1>2, <1>3, ReadAll
<1> QED
  BY <1>1, <1>4 DEF Within, v

(* The block is left: its frame is that of another basic block now.        *)
LEMMA WithinLeft ==
  ASSUME block_trace \in Seq(Blocks), Framed(block_trace), NEW k, InTrace(k), NEW u, Within(u, k, 0)
  PROVE  LET v == LeaveBlock(u, block_trace[k]) IN Within(v, k, 0) /\ ~v.this_bb_used
<1> DEFINE b == block_trace[k]
           t == b.tid
           top == Top(u, b)
           f == [top EXCEPT !.bb = b.bb, !.bb_used = u.this_bb_used \/ (top.bb = b.bb /\ @)]
           x == SetTop(u, b, f)
           v == [x EXCEPT !.this_bb_used = FALSE]
<1>1. SliceOK(u) /\ Sliceable(b) /\ t \in Tids /\ b.bb \in DOMAIN BB2Ins
  BY BlocksAre DEF Within, Sliceable
<1>2. u.frames[t] # <<>>
  <2>1. Len(u.frames[t]) = DepthIn(k, t) /\ DepthIn(k, t) > 0
    BY <1>1, HasFrame DEF Within
  <2> QED
    BY <2>1
<1>3. LeaveBlock(u, b) = v
  BY DEF LeaveBlock
<1> HIDE DEF b
<1>4. top \in FramesOf(u, t) /\ top \in FrameRecs
  BY <1>1, <1>2, TopIs
<1> HIDE DEF top, t
<1>5. /\ f \in FrameRecs /\ f.used = top.used /\ f.settled = top.settled /\ f.terminator = top.terminator
  <2>1. u.this_bb_used \in BOOLEAN
    BY <1>1 DEF SliceOK
  <2> DEFINE z == u.this_bb_used \/ (top.bb = b.bb /\ top.bb_used)
  <2>2. z \in BOOLEAN
    OBVIOUS
  <2>3. f = [top EXCEPT !.bb = b.bb, !.bb_used = z]
    BY <1>4 DEF FrameRecs
  <2> HIDE DEF z
  <2> QED
    BY <1>1, <1>4, <2>2, <2>3 DEF FrameRecs
<1> HIDE DEF f
<1>6. f \in FramesOf(u, t)
  BY <1>4, <1>5 DEF FramesOf
<1>7. SliceOK(x) /\ Quiet(u, x) /\ Deeper(u, x, t, 0)
  BY <1>1, <1>2, <1>5, <1>6, SetTopIs DEF t, top
<1> HIDE DEF x
<1>8. /\ IsSlice(v) /\ ~v.this_bb_used /\ v.at = x.at /\ v.inst_count = x.inst_count /\ v.frames = x.frames
      /\ v.needed = x.needed /\ v.mem_depended = x.mem_depended /\ v.kept = x.kept
      /\ v.unneeded_di = x.unneeded_di /\ v.Addr2Unneded = x.Addr2Unneded /\ v.this_bb_used = FALSE
  BY <1>7 DEF SliceOK, IsSlice, SliceFields
<1> HIDE DEF v
<1>9. Quiet(u, v) /\ Deeper(u, v, t, 0)
  BY <1>7, <1>8 DEF Quiet, Deeper
<1>10. SliceOK(v)
  <2>1. Quiet(x, v)
    BY <1>8 DEF Quiet
  <2>2. \A s \in Tids : FramesOf(v, s) = FramesOf(x, s)
    BY <1>8 DEF FramesOf, HasRun, Cnt
  <2> QED
    BY <1>7, <1>8, <2>2 DEF SliceOK, HasRun, Cnt
<1>11. Within(v, k, 0)
  BY <1>1, <1>9, <1>10, WithinQuiet
<1> QED
  BY <1>3, <1>8, <1>11 DEF b

(* The last execution of the call before a block that has been read.       *)
LEMMA CallerIsNext ==
  ASSUME block_trace \in Seq(Blocks), NEW k, InTrace(k), ~Skipped(block_trace[k]),
         NEW u, ReadTo(u, k, 0), NEW op, NEW y \in LastExecution(k, op, op)
  PROVE  IsNext(u, y, block_trace[k].tid, op)
<1> DEFINE b == block_trace[k]
           t == b.tid
           n == Len(b.code)
           js == {x \in Instances :
                    /\ x[2] = op /\ block_trace[x[1]].tid = t
                    /\ \/ x[1] < k
                       \/ x[1] = k /\ \E p, q \in DOMAIN b.code : p < q /\ b.code[p] = op /\ b.code[q] = op}
           j == y[1]
           d == InstanceOf(j, op)
<1>1. /\ IsInjective(b.code) /\ n \in Nat /\ DOMAIN b.code = 1 .. n /\ k \in Nat
      /\ k \in 1 .. Len(block_trace)
  BY BlocksAre DEF InTrace
<1>2. y \in js /\ \A z \in js : z[1] <= j
  BY DEF LastExecution
<1>3. \A z : z \in js <=> z \in Instances /\ z[2] = op /\ block_trace[z[1]].tid = t /\ z[1] < k
  BY <1>1 DEF IsInjective
<1> HIDE DEF js
<1>4. y = <<j, op>> /\ <<j, op>> \in Instances /\ block_trace[j].tid = t /\ j < k
  BY <1>2, <1>3, InstancesAre
<1>5. j \in 1 .. Len(block_trace) /\ j \in Nat
  BY <1>4, InstanceIs
<1>6. /\ d.TID = t /\ d.ID = op /\ d.Cnt \in Int /\ d.Cnt <= 0
      /\ ~Skipped(block_trace[j]) => d.Cnt = -Ran(j, t, op)
  BY <1>4, InstanceIs
<1>7. Ran(j, t, op) \in Nat /\ Ran(k, t, op) \in Nat
  BY <1>1, <1>5, RanIs
<1>8. Cnt(u, t, op) = Ran(k - 1, t, op)
  <2> DEFINE w == [at |-> u.at - 1, inst_count |-> u.inst_count]
  <2>1. w.at = u.at - 1 /\ u.inst_count = w.inst_count
    OBVIOUS
  <2> HIDE DEF w
  <2>2. Cnt(w, t, op) = Ran(w.at, t, op)
    BY <2>1, ReadAll
  <2>3. Cnt(w, t, op) = Cnt(u, t, op) /\ w.at = k - 1
    BY <2>1 DEF Cnt, ReadTo
  <2> QED
    BY <2>2, <2>3
<1>9. After(k - 1, t, op) = After(j, t, op)
  <2>1. After(k - 1, t, op) \subseteq After(j, t, op)
    BY <1>1, <1>4, <1>5 DEF After
  <2>2. ASSUME NEW z \in After(j, t, op) PROVE z \in After(k - 1, t, op)
    <3> DEFINE x == <<z, op>>
    <3>1. x \in Instances /\ x[1] = z /\ x[2] = op /\ z \in j + 1 .. Len(block_trace) /\ block_trace[z].tid = t
      BY DEF After
    <3> HIDE DEF x
    <3>2. z < k => z <= j
      BY <1>2, <1>3, <3>1
    <3>3. z \in (k - 1) + 1 .. Len(block_trace)
      BY <1>1, <1>5, <3>1, <3>2
    <3> QED
      BY <3>3 DEF After
  <2> QED
    BY <2>1, <2>2
<1>10. Cnt(u, t, op) = Ran(j, t, op)
  BY <1>8, <1>9 DEF Ran
<1>11. CASE Skipped(block_trace[j])
  <2>1. \A z : <<z, op>> \in Instances => Skipped(block_trace[z])
    BY <1>4, <1>11, KindsAgree
  <2>2. After(j, t, op) = {}
    BY <2>1 DEF After
  <2>3. Cnt(u, t, op) = 0
    BY <1>10, <2>2, FS_EmptySet DEF Ran
  <2>4. ~HasRun(u, d)
    BY <1>6, <2>3 DEF HasRun
  <2> QED
    BY <1>4, <1>6, <1>11, <2>4 DEF IsNext
<1>12. CASE ~Skipped(block_trace[j])
  <2>1. d.Cnt = -Cnt(u, t, op)
    BY <1>6, <1>10, <1>12
  <2>2. ~HasRun(u, d)
    BY <1>6, <1>7, <1>10, <2>1 DEF HasRun
  <2> QED
    BY <1>4, <1>6, <2>1, <2>2 DEF IsNext
<1> QED
  BY <1>11, <1>12

(* The block before, when the frame of a function that starts is popped.   *)
Popped(u, b) ==
    [(IF b.first = 0 THEN u ELSE [u EXCEPT !.frames[b.tid] = Front(@)]) EXCEPT !.at = @ - 1]

(* What it changes.                                                        *)
IsPopped(u, w, b) ==
    /\ SliceOK(w) /\ w.at = u.at - 1 /\ w.inst_count = u.inst_count /\ w.kept = u.kept
    /\ w.this_bb_used = u.this_bb_used
    /\ \A y : Owed(w, y) <=> Owed(u, y)
    /\ \A s \in Tids : /\ Len(w.frames[s]) = Len(u.frames[s])
                                             - (IF s = b.tid /\ b.first # 0 THEN 1 ELSE 0)
                       /\ \A i \in 1 .. Len(w.frames[s]) : w.frames[s][i] = u.frames[s][i]

(* It does.                                                                *)
LEMMA PoppedIs ==
  ASSUME NEW u, SliceOK(u), u.at > 0, NEW b, b.tid \in Tids, b.first # 0 => u.frames[b.tid] # <<>>
  PROVE  IsPopped(u, Popped(u, b), b)
<1> DEFINE t == b.tid
           old == u.frames[t]
           new == IF b.first = 0 THEN old ELSE Front(old)
           w == Popped(u, b)
           S == FramesOf(u, t)
<1>1. t \in Tids /\ old \in Seq(S) /\ DOMAIN u.frames = Tids /\ IsSlice(u) /\ Len(old) \in Nat
  BY DEF SliceOK
<1>2. /\ new \in Seq(S) /\ Len(new) = Len(old) - (IF b.first # 0 THEN 1 ELSE 0)
      /\ \A i \in 1 .. Len(new) : new[i] = old[i]
  <2>1. CASE b.first = 0
    BY <1>1, <2>1
  <2>2. CASE b.first # 0
    <3>1. PICK m \in Nat : Len(old) = m + 1
      <4>1. Len(old) # 0
        BY <1>1, <2>2
      <4>2. Len(old) - 1 \in Nat /\ Len(old) = (Len(old) - 1) + 1
        BY <1>1, <4>1
      <4> QED
        BY <4>2
    <3> HIDE DEF old, S
    <3>2. Front(old) \in Seq(S) /\ Len(Front(old)) = m /\ \A k \in 1 .. m : Front(old)[k] = old[k]
      BY <1>1, <3>1, FrontIs
    <3> QED
      BY <2>2, <3>1, <3>2
  <2> QED
    BY <2>1, <2>2
<1> HIDE DEF S
<1>3. /\ IsSlice(w) /\ w.at = u.at - 1 /\ w.inst_count = u.inst_count /\ w.kept = u.kept
      /\ w.this_bb_used = u.this_bb_used /\ w.needed = u.needed /\ w.mem_depended = u.mem_depended
      /\ w.unneeded_di = u.unneeded_di /\ w.Addr2Unneded = u.Addr2Unneded
      /\ w.frames = IF b.first = 0 THEN u.frames ELSE [u.frames EXCEPT ![t] = new]
  <2>1. CASE b.first = 0
    BY <1>1, <2>1 DEF Popped, IsSlice, SliceFields
  <2>2. CASE b.first # 0
    BY <1>1, <2>2 DEF Popped, IsSlice, SliceFields
  <2> QED
    BY <2>1, <2>2
<1> HIDE DEF w
<1>4. DOMAIN w.frames = Tids /\ w.frames[t] = new /\ \A s \in Tids \ {t} : w.frames[s] = u.frames[s]
  <2>1. b.first = 0 => new = u.frames[t]
    OBVIOUS
  <2> HIDE DEF new
  <2> QED
    BY <1>1, <1>3, <2>1
<1>5. \A s : FramesOf(w, s) = FramesOf(u, s)
  BY <1>3 DEF FramesOf, HasRun, Cnt
<1> HIDE DEF new, old
<1>6. \A s \in Tids : w.frames[s] \in Seq(FramesOf(w, s))
  BY <1>2, <1>4, <1>5 DEF SliceOK, S
<1>7. \A d : HasRun(w, d) <=> HasRun(u, d)
  BY <1>3 DEF HasRun, Cnt
<1>8. SliceOK(w)
  <2>1. w.at \in Nat
    BY <1>3 DEF SliceOK
  <2> QED
    BY <1>3, <1>4, <1>6, <1>7, <2>1 DEF SliceOK
<1>9. ASSUME NEW y PROVE Owed(w, y) <=> Owed(u, y)
  <2>1. \A s, i : Cnt(w, s, i) = Cnt(u, s, i)
    BY <1>3 DEF Cnt
  <2> QED
    BY <1>3, <1>7, <2>1 DEF Owed
<1>10. ASSUME NEW s \in Tids
       PROVE  /\ Len(w.frames[s]) = Len(u.frames[s]) - (IF s = t /\ b.first # 0 THEN 1 ELSE 0)
              /\ \A i \in 1 .. Len(w.frames[s]) : w.frames[s][i] = u.frames[s][i]
  <2>1. CASE s = t
    BY <1>2, <1>4, <2>1 DEF old
  <2>2. CASE s # t
    <3>1. Len(u.frames[s]) \in Nat
      BY DEF SliceOK
    <3> QED
      BY <1>4, <2>2, <3>1
  <2> QED
    BY <2>1, <2>2
<1> QED
  BY <1>3, <1>8, <1>9, <1>10 DEF IsPopped, w

(* When a function that is used has been read, its call is needed.         *)
CallNeeded(u, b) ==
    (b.first = 1 /\ b.caller # -1 /\ Top(u, b).used) => <<b.tid, b.caller>> \in u.needed

(* It leaves one block less to read.                                       *)
LEMMA BetweenPopped ==
  ASSUME block_trace \in Seq(Blocks), Framed(block_trace), NEW k, InTrace(k), ~Skipped(block_trace[k]),
         NEW u, Within(u, k, 0), ~u.this_bb_used, CallNeeded(u, block_trace[k])
  PROVE  Between(Popped(u, block_trace[k]), k - 1)
<1> DEFINE b == block_trace[k]
           t == b.tid
           w == Popped(u, b)
           n == Len(u.frames[t])
<1>1. /\ SliceOK(u) /\ Sliceable(b) /\ t \in Tids /\ k \in 1 .. Len(block_trace) /\ u.at = k /\ k \in Nat
      /\ b.type # "Declare" /\ b.first \in 0 .. 2
  BY BlocksAre DEF Within, ReadTo, Sliceable, InTrace
<1>2. n = DepthIn(k, t) /\ n > 0 /\ n \in Nat /\ u.frames[t] # <<>>
  <2>1. Len(u.frames[t]) = DepthIn(k, t) /\ DepthIn(k, t) > 0
    BY <1>1, HasFrame DEF Within
  <2>2. u.frames[t] \in Seq(FramesOf(u, t))
    BY <1>1 DEF SliceOK
  <2> QED
    BY <2>1, <2>2
<1>3. /\ SliceOK(w) /\ w.at = k - 1 /\ w.inst_count = u.inst_count /\ w.kept = u.kept
      /\ w.this_bb_used = u.this_bb_used
      /\ \A y : Owed(w, y) <=> Owed(u, y)
      /\ \A s \in Tids : /\ Len(w.frames[s]) = Len(u.frames[s]) - (IF s = t /\ b.first # 0 THEN 1 ELSE 0)
                         /\ \A i \in 1 .. Len(w.frames[s]) : w.frames[s][i] = u.frames[s][i]
  <2>1. u.at > 0
    BY <1>1
  <2> HIDE DEF b
  <2>2. IsPopped(u, w, b)
    BY <1>1, <1>2, <2>1, PoppedIs
  <2> HIDE DEF w
  <2> QED
    BY <1>1, <2>2 DEF IsPopped
<1> HIDE DEF w
<1>4. \A s : k \in Pops(s) <=> s = t /\ b.first # 0
  BY <1>1 DEF Pops, Firsts
<1>5. \A s : /\ Depth(k, s) \in Int
             /\ Depth(k - 1, s) = DepthIn(k, s) - (IF k \in Pops(s) THEN 1 ELSE 0)
  BY <1>1, DepthStep
<1>6. \A s \in Tids : Len(w.frames[s]) = Depth(k - 1, s)
  <2> SUFFICES ASSUME NEW s \in Tids PROVE Len(w.frames[s]) = Depth(k - 1, s)
    OBVIOUS
  <2>1. Len(u.frames[s]) = DepthIn(k, s)
    BY DEF Within
  <2> DEFINE p == IF k \in Pops(s) THEN 1 ELSE 0
  <2>2. p = IF s = t /\ b.first # 0 THEN 1 ELSE 0
    BY <1>4
  <2>3. Len(w.frames[s]) = Len(u.frames[s]) - p
    BY <1>3, <2>2
  <2>4. Depth(k - 1, s) = DepthIn(k, s) - p
    BY <1>5
  <2> HIDE DEF p
  <2> QED
    BY <2>1, <2>3, <2>4
<1>7. \A s, i : Cnt(w, s, i) = Ran(k - 1, s, i)
  <2>1. ReadTo(u, k, 0)
    BY DEF Within
  <2> QED
    BY <1>1, <1>3, <2>1, ReadAll
<1>8. OwesSources(w)
  BY <1>3 DEF Within, Owes, OwesSources
<1>9. ASSUME NEW f, NEW j, KeptIn(w, f, j)
      PROVE  j >= k - 1 /\ IF k - 1 >= f THEN InUse(w, f, j) ELSE CallOwed(w, f)
  <2> DEFINE s == block_trace[f].tid
             e == DepthIn(j, s)
  <2>1. KeptIn(u, f, j)
    BY <1>3, <1>9 DEF KeptIn
  <2>2. j >= k /\ IF k >= f THEN InUse(u, f, j) ELSE CallOwed(u, f)
    BY <2>1 DEF Within, Owes, OwesCalls
  <2>3. /\ InTrace(f) /\ j \in Body(f) /\ ~Leaves(s, f, j) /\ f \in 1 .. Len(block_trace) /\ f \in Nat
        /\ s \in Tids /\ block_trace[f].first = 1 /\ block_trace[f].caller # -1
    BY <2>1, BlocksAre DEF KeptIn, Sliceable, InTrace
  <2>4. j \in Nat /\ j - 1 \in Int
    BY <2>3 DEF Body
  <2>5. j >= k - 1
    BY <1>1, <2>2, <2>4
  <2>6. CASE f < k
    <3>1. k \in f .. j /\ k > f
      BY <1>1, <2>2, <2>3, <2>4, <2>6
    <3>2. Depth(k - 1, s) >= e /\ e \in Int
      BY <2>3, <3>1, BodyDepth
    <3>3. e \in 1 .. Len(u.frames[s]) /\ u.frames[s][e].used
      BY <1>1, <2>2, <2>3, <2>6 DEF InUse
    <3>4. Len(w.frames[s]) = Depth(k - 1, s) /\ \A i \in 1 .. Len(w.frames[s]) : w.frames[s][i] = u.frames[s][i]
      BY <1>3, <1>6, <2>3
    <3>5. Depth(k - 1, s) \in Int
      <4>1. w.frames[s] \in Seq(FramesOf(w, s))
        BY <1>3, <2>3 DEF SliceOK
      <4> QED
        BY <3>4, <4>1
    <3>6. e \in 1 .. Len(w.frames[s]) /\ w.frames[s][e].used
      <4> HIDE DEF e
      <4>1. e >= 1
        BY <3>2, <3>3
      <4>2. e \in 1 .. Len(w.frames[s])
        BY <3>2, <3>4, <3>5, <4>1
      <4> QED
        BY <3>3, <3>4, <4>2
    <3>7. InUse(w, f, j)
      BY <3>6 DEF InUse
    <3>8. k - 1 >= f
      BY <1>1, <2>3, <2>6
    <3> QED
      BY <2>5, <3>7, <3>8
  <2>7. CASE f = k
    <3>1. k \in f .. j /\ k = f
      BY <1>1, <2>2, <2>4, <2>7
    <3>2. Depth(k - 1, t) = DepthIn(j, t) - 1 /\ DepthIn(j, t) \in Int
      BY <2>3, <2>7, <3>1, BodyDepth
    <3>3. Depth(k - 1, t) = n - 1
      BY <1>2, <1>4, <1>5, <2>3, <2>7
    <3>4. DepthIn(j, t) = n
      BY <1>2, <3>2, <3>3
    <3>5. InUse(u, f, j)
      BY <1>1, <2>2, <2>7
    <3>6. u.frames[t][n].used
      BY <2>7, <3>4, <3>5 DEF InUse
    <3>7. Top(u, b).used
      <4>1. Top(u, b) = u.frames[b.tid][Len(u.frames[b.tid])]
        <5> HIDE DEF b
        <5> QED
          BY <1>1, <1>2, TopIs
      <4> QED
        BY <3>6, <4>1
    <3>8. <<t, b.caller>> \in u.needed
      BY <2>3, <2>7, <3>7 DEF CallNeeded
    <3>9. ASSUME NEW y \in LastExecution(k, b.caller, b.caller) PROVE y \in Instances /\ Owed(w, y)
      <4>1. ReadTo(u, k, 0)
        BY DEF Within
      <4>2. IsNext(u, y, t, b.caller)
        BY <3>9, <4>1, CallerIsNext
      <4>3. Owed(u, y)
        BY <3>8, <4>2 DEF IsNext, Owed
      <4> QED
        BY <1>3, <4>2, <4>3 DEF IsNext
    <3>10. CallOwed(w, f)
      BY <2>7, <3>9 DEF CallOwed
    <3>11. ~(k - 1 >= f)
      BY <1>1, <2>7
    <3> QED
      BY <2>5, <3>10, <3>11
  <2>8. CASE f > k
    <3>1. CallOwed(u, f) /\ ~(k - 1 >= f)
      BY <1>1, <2>2, <2>3, <2>8
    <3>2. CallOwed(w, f)
      BY <1>3, <3>1 DEF CallOwed
    <3> QED
      BY <2>5, <3>1, <3>2
  <2> QED
    BY <1>1, <2>3, <2>6, <2>7, <2>8
<1>10. Owes(w, k - 1)
  BY <1>8, <1>9 DEF Owes, OwesCalls
<1> QED
  BY <1>1, <1>3, <1>6, <1>7, <1>10 DEF Between, w

(* A function that starts: its terminator is settled and its frame popped. *)
LEMMA BetweenStarted ==
  ASSUME block_trace \in Seq(Blocks), Framed(block_trace), NEW k, InTrace(k), ~Skipped(block_trace[k]),
         NEW u, Within(u, k, 0), ~u.this_bb_used
  PROVE  Between([StartOfFunction(u, block_trace[k]) EXCEPT !.at = @ - 1], k - 1)
<1> DEFINE b == block_trace[k]
           t == b.tid
           called == b.first = 1 /\ b.caller # -1 /\ Top(u, b).used
           u1 == IF called THEN [u EXCEPT !.needed = @ \cup {<<t, b.caller>>}] ELSE u
           u2 == IF Top(u, b).bb_used THEN SettleTerminator(u1, b, b.bb) ELSE u1
           x == IF b.first = 0 THEN u ELSE u2
           w == [StartOfFunction(u, b) EXCEPT !.at = @ - 1]
<1>1. SliceOK(u) /\ Sliceable(b) /\ t \in Tids /\ b.bb \in DOMAIN BB2Ins
  BY BlocksAre DEF Within, Sliceable
<1>2. u.frames[t] # <<>>
  <2>1. Len(u.frames[t]) = DepthIn(k, t) /\ DepthIn(k, t) > 0
    BY <1>1, HasFrame DEF Within
  <2> QED
    BY <2>1
<1>3. w = Popped(x, b)
  <2>1. CASE b.first = 0
    BY <2>1 DEF StartOfFunction, Popped
  <2>2. CASE b.first # 0
    <3>1. StartOfFunction(u, b) = [u2 EXCEPT !.frames[b.tid] = Front(@)]
      BY <2>2, Zenon DEF StartOfFunction
    <3> HIDE DEF u2
    <3> QED
      BY <2>2, <3>1 DEF Popped
  <2> QED
    BY <2>1, <2>2
<1> HIDE DEF b, w
<1>4. Quiet(u, u) /\ \A v : Quiet(u, v) /\ v.frames = u.frames => Deeper(u, v, t, 0)
  <2>1. Len(u.frames[t]) \in Nat
    BY <1>1 DEF SliceOK
  <2> QED
    BY <1>1, <2>1 DEF SliceOK, Quiet, Deeper
<1>5. /\ SliceOK(u1) /\ Quiet(u, u1) /\ u1.frames = u.frames /\ u1.this_bb_used = u.this_bb_used
      /\ called => <<t, b.caller>> \in u1.needed
  <2>1. CASE ~called
    BY <1>1, <1>4, <2>1
  <2>2. CASE called
    <3> DEFINE v == [u EXCEPT !.needed = @ \cup {<<t, b.caller>>}]
    <3>1. u1 = v
      BY <2>2
    <3>2. /\ IsSlice(v) /\ v.at = u.at /\ v.inst_count = u.inst_count /\ v.frames = u.frames
          /\ v.this_bb_used = u.this_bb_used /\ v.mem_depended = u.mem_depended /\ v.kept = u.kept
          /\ v.unneeded_di = u.unneeded_di /\ v.Addr2Unneded = u.Addr2Unneded
          /\ v.needed = u.needed \cup {<<t, b.caller>>}
      BY <1>1 DEF SliceOK, IsSlice, SliceFields
    <3> HIDE DEF v, called, u1
    <3>3. Quiet(u, v)
      BY <3>2 DEF Quiet
    <3>4. SliceOK(v)
      <4>1. \A s : FramesOf(v, s) = FramesOf(u, s)
        BY <3>2 DEF FramesOf, HasRun, Cnt
      <4> QED
        BY <1>1, <3>2, <4>1 DEF SliceOK, HasRun, Cnt
    <3> QED
      BY <3>1, <3>2, <3>3, <3>4
  <2> QED
    BY <2>1, <2>2
<1> HIDE DEF u1
<1>6. /\ SliceOK(u2) /\ Quiet(u, u2) /\ u2.frames = u.frames /\ u2.this_bb_used = u.this_bb_used
      /\ called => <<t, b.caller>> \in u2.needed
  <2>1. CASE Top(u, b).bb_used
    <3> DEFINE v == SettleTerminator(u1, b, b.bb)
    <3>1. SliceOK(v) /\ Quiet(u1, v) /\ v.frames = u1.frames /\ v.this_bb_used = u1.this_bb_used
      BY <1>1, <1>2, <1>5, SettleOK
    <3>2. u2 = v
      BY <2>1
    <3> HIDE DEF v, u2, called
    <3>3. Quiet(u, v)
      BY <1>5, <3>1, QuietTwice
    <3>4. called => <<t, b.caller>> \in v.needed
      BY <1>5, <3>1 DEF Quiet
    <3> QED
      BY <1>5, <3>1, <3>2, <3>3, <3>4
  <2>2. CASE ~Top(u, b).bb_used
    BY <1>5, <2>2
  <2> QED
    BY <2>1, <2>2
<1>7. Top(u2, b) = Top(u, b)
  BY <1>6 DEF Top
<1> HIDE DEF u2
<1>8. /\ SliceOK(x) /\ Quiet(u, x) /\ x.frames = u.frames /\ x.this_bb_used = u.this_bb_used
      /\ CallNeeded(x, b)
  <2>1. CASE b.first = 0
    BY <1>1, <1>4, <2>1 DEF CallNeeded
  <2>2. CASE b.first # 0
    BY <1>6, <1>7, <2>2 DEF CallNeeded
  <2> QED
    BY <2>1, <2>2
<1> HIDE DEF x
<1>9. Deeper(u, x, t, 0)
  BY <1>4, <1>8
<1>10. Within(x, k, 0)
  BY <1>1, <1>8, <1>9, WithinQuiet
<1>11. Between(Popped(x, b), k - 1)
  BY <1>8, <1>10, BetweenPopped DEF b
<1> QED
  BY <1>3, <1>11 DEF w, b

(* A block that is not read, or that is skipped before its start.          *)
LEMMA BetweenSkipped ==
  ASSUME block_trace \in Seq(Blocks), NEW k \in 1 .. Len(block_trace),
         InTrace(k) => Skipped(block_trace[k]),
         NEW u, SliceOK(u), u.at = k, ~u.this_bb_used, \A t, i : Cnt(u, t, i) = Ran(k, t, i),
         \A t \in Tids : Len(u.frames[t]) = DepthIn(k, t), Owes(u, k)
  PROVE  Between([u EXCEPT !.at = @ - 1], k - 1)
<1> DEFINE b == block_trace[k]
           z == [tid |-> b.tid, first |-> 0]
           w == [u EXCEPT !.at = @ - 1]
<1>1. b \in Blocks /\ b.tid \in Tids /\ k \in Nat /\ k > 0 /\ u.at > 0
  BY BlockAssumption
<1>2. z.tid \in Tids /\ z.first = 0 /\ w = Popped(u, z)
  BY <1>1 DEF Popped
<1> HIDE DEF b, z, w
<1>3. IsPopped(u, w, z)
  BY <1>1, <1>2, PoppedIs
<1>4. /\ SliceOK(w) /\ w.at = k - 1 /\ w.inst_count = u.inst_count /\ w.kept = u.kept
      /\ w.this_bb_used = u.this_bb_used
      /\ \A y : Owed(w, y) <=> Owed(u, y)
  BY <1>3 DEF IsPopped
<1>5. ASSUME NEW s \in Tids
      PROVE  /\ Len(w.frames[s]) = Len(u.frames[s])
             /\ \A i \in 1 .. Len(w.frames[s]) : w.frames[s][i] = u.frames[s][i]
  <2>1. Len(u.frames[s]) \in Nat
    BY DEF SliceOK
  <2> QED
    BY <1>2, <1>3, <2>1 DEF IsPopped
<1>6. \A s : k \notin Pops(s)
  BY DEF Pops, Firsts, InTrace
<1>7. ASSUME NEW s \in Tids PROVE Len(w.frames[s]) = Depth(k - 1, s)
  <2>1. Depth(k - 1, s) = DepthIn(k, s) - (IF k \in Pops(s) THEN 1 ELSE 0)
    BY DepthStep
  <2>2. Len(u.frames[s]) = DepthIn(k, s) /\ Len(u.frames[s]) \in Nat
    BY DEF SliceOK
  <2> QED
    BY <1>5, <1>6, <2>1, <2>2
<1>8. ASSUME NEW s, NEW i PROVE Cnt(w, s, i) = Ran(k - 1, s, i)
  <2>1. Ran(k - 1, s, i) = Ran(k, s, i)
    <3>1. Ran(k - 1, s, i) =
             IF block_trace[k].tid = s /\ <<k, i>> \in Instances /\ ~Skipped(block_trace[k])
             THEN Ran(k, s, i) + 1 ELSE Ran(k, s, i)
      BY RanStep
    <3>2. <<k, i>> \in Instances => InTrace(k)
      BY InstancesAre
    <3> QED
      BY <3>1, <3>2
  <2> QED
    BY <1>4, <2>1 DEF Cnt
<1>9. OwesSources(w)
  BY <1>4 DEF Owes, OwesSources
<1>10. ASSUME NEW f, NEW j, KeptIn(w, f, j)
       PROVE  j >= k - 1 /\ IF k - 1 >= f THEN InUse(w, f, j) ELSE CallOwed(w, f)
  <2>1. KeptIn(u, f, j)
    BY <1>4, <1>10 DEF KeptIn
  <2>2. j >= k /\ IF k >= f THEN InUse(u, f, j) ELSE CallOwed(u, f)
    BY <2>1 DEF Owes, OwesCalls
  <2>3. InTrace(f) /\ j \in Body(f) /\ f \in 1 .. Len(block_trace) /\ f \in Nat /\ block_trace[f].tid \in Tids
    BY <2>1, BlocksAre DEF KeptIn, Sliceable, InTrace
  <2>4. j \in f .. Len(block_trace) /\ j \in Nat
    BY <2>3 DEF Body
  <2>5. f # k
    <3>1. ASSUME f = k PROVE FALSE
      <4>1. k \in FirstBlocks(block_trace, block_trace[f].tid, f, j)
        BY <2>1, <2>4, <3>1 DEF FirstBlocks, KeptIn, InTrace
      <4> QED
        BY <2>1, <2>3, <3>1, <4>1 DEF KeptIn, Leaves
    <3> QED
      BY <3>1
  <2>6. InUse(u, f, j) => InUse(w, f, j)
    BY <1>5, <2>3 DEF InUse
  <2>7. CallOwed(u, f) => CallOwed(w, f)
    BY <1>4 DEF CallOwed
  <2>8. j >= k - 1 /\ (k - 1 >= f <=> k >= f)
    BY <1>1, <2>2, <2>3, <2>4, <2>5
  <2> QED
    BY <2>2, <2>6, <2>7, <2>8
<1>11. Owes(w, k - 1)
  BY <1>9, <1>10 DEF Owes, OwesCalls
<1> QED
  BY <1>1, <1>4, <1>7, <1>8, <1>11 DEF Between, w

(* The end of a block that is read.                                        *)
LEMMA BetweenRead ==
  ASSUME block_trace \in Seq(Blocks), Framed(block_trace), NEW k, InTrace(k), ~Skipped(block_trace[k]),
         NEW u, Within(u, k, 0)
  PROVE  LET b == block_trace[k] IN
         Between([StartOfFunction(LeaveBlock(u, b), b) EXCEPT !.at = @ - 1], k - 1)
<1> DEFINE v == LeaveBlock(u, block_trace[k])
<1>1. Within(v, k, 0) /\ ~v.this_bb_used
  BY WithinLeft
<1> HIDE DEF v
<1>2. Between([StartOfFunction(v, block_trace[k]) EXCEPT !.at = @ - 1], k - 1)
  BY <1>1, BetweenStarted
<1> QED
  BY <1>2 DEF v

(* A block of one instruction that is read.                                *)
LEMMA BetweenOne ==
  ASSUME DependsOK, Framed(block_trace), NEW k, InTrace(k), ~Skipped(block_trace[k]),
         block_trace[k].type # "Normal", NEW u, Within(u, k, Len(block_trace[k].code)),
         NEW v, Reading(u, v, block_trace[k], block_trace[k].ins)
  PROVE  LET b == block_trace[k] IN
         Between([StartOfFunction(LeaveBlock(v, b), b) EXCEPT !.at = @ - 1], k - 1)
<1> DEFINE b == block_trace[k]
<1>1. block_trace \in Seq(Blocks)
  BY DEF DependsOK
<1>2. b.code = <<b.ins>>
  BY <1>1, BlocksAre
<1>3. Len(b.code) = 1 /\ b.code[1] = b.ins /\ 1 \in 1 .. Len(b.code)
  BY <1>2
<1>4. Within(u, k, 1)
  BY <1>3
<1>5. Within(v, k, 1 - 1)
  BY <1>3, <1>4, WithinReading
<1> QED
  BY <1>1, <1>5, BetweenRead

(* Each block is read so, and one less is left.                            *)
LEMMA SliceStep ==
  ASSUME DependsOK, Framed(block_trace), Between(slice, slice.at), Slice
  PROVE  Between(slice', slice.at - 1) /\ slice'.at = slice.at - 1
<1> DEFINE k == slice.at
           u == slice
<1>1. PICK b : /\ b = block_trace[k]
               /\ \/ SliceDeclare(b) \/ SliceIgnorable(b) \/ SliceImpactful(b) \/ SliceAccess(b)
                  \/ SliceNormal(b)
  BY DEF Slice
<1>2. block_trace \in Seq(Blocks) /\ k \in 1 .. Len(block_trace) /\ SliceOK(u) /\ u.at = k /\ k \in Nat
  <2>1. k > 0 /\ k \in 0 .. Len(block_trace) /\ SliceOK(u) /\ block_trace \in Seq(Blocks)
    BY DEF Slice, Between, DependsOK
  <2> QED
    BY <2>1
<1>3. ASSUME b.type # "Declare" PROVE InTrace(k) /\ b \in Blocks
  BY <1>1, <1>2, <1>3 DEF InTrace
<1> HIDE DEF k, u
<1>4. ASSUME Between(slice', k - 1)
      PROVE  Between(slice', slice.at - 1) /\ slice'.at = slice.at - 1
  BY <1>4 DEF Between, k
<1>5. ASSUME b.type # "Declare", ~Skipped(b)
      PROVE  /\ Within(EnterBlock(u, b), k, Len(b.code)) /\ SliceOK(EnterBlock(u, b)) /\ Sliceable(b)
             /\ EnterBlock(u, b).frames[b.tid] # <<>>
             /\ b.type # "Normal" => b.ins \in InsIDs
  <2> DEFINE v == EnterBlock(u, b)
  <2>1. InTrace(k) /\ Between(u, k)
    BY <1>3, <1>5 DEF u, k
  <2>2. Within(v, k, Len(b.code))
    BY <1>1, <1>2, <1>5, <2>1, WithinEntered
  <2> HIDE DEF v
  <2>3. Sliceable(b) /\ b.ins \in InsIDs
    BY <1>1, <1>2, <2>1, BlocksAre
  <2>4. Len(v.frames[b.tid]) = DepthIn(k, b.tid) /\ DepthIn(k, b.tid) > 0
    BY <1>1, <1>2, <2>1, <2>2, <2>3, HasFrame DEF Within, Sliceable
  <2>5. v.frames[b.tid] # <<>>
    BY <2>4
  <2> QED
    BY <2>2, <2>3, <2>5 DEF Within, v
<1>6. CASE SliceDeclare(b)
  <2>1. b.type = "Declare" /\ slice' = [u EXCEPT !.at = @ - 1]
    BY <1>6 DEF SliceDeclare, SliceBlock, u
  <2>2. ~InTrace(k)
    BY <1>1, <2>1 DEF InTrace
  <2>3. /\ ~u.this_bb_used /\ Owes(u, k) /\ \A t, i : Cnt(u, t, i) = Ran(k, t, i)
        /\ \A t \in Tids : Len(u.frames[t]) = Depth(k, t) /\ Len(u.frames[t]) \in Nat
    BY DEF Between, SliceOK, u, k
  <2>4. \A t : k \notin Lasts(t)
    BY <1>1, <2>1 DEF Lasts
  <2>5. \A t \in Tids : Len(u.frames[t]) = DepthIn(k, t)
    BY <2>3, <2>4 DEF DepthIn
  <2>6. Between([u EXCEPT !.at = @ - 1], k - 1)
    BY <1>2, <2>2, <2>3, <2>5, BetweenSkipped
  <2> QED
    BY <1>4, <2>1, <2>6
<1>7. CASE SliceIgnorable(b)
  <2> DEFINE v == EnterBlock(u, b)
  <2>1. b.type = "ExternalCall" /\ Skipped(b) /\ slice' = [v EXCEPT !.at = @ - 1]
    BY <1>7 DEF SliceIgnorable, SliceBlock, u
  <2>2. InTrace(k) /\ Between(u, k)
    BY <1>3, <2>1 DEF u, k
  <2>3. /\ SliceOK(v) /\ v.at = k /\ ~v.this_bb_used /\ v.inst_count = u.inst_count
        /\ \A s \in Tids : Len(v.frames[s]) = DepthIn(k, s)
        /\ Owes(v, k)
    BY <1>1, <1>2, <2>2, EnteredIs
  <2> HIDE DEF v
  <2>4. \A t, i : Cnt(v, t, i) = Ran(k, t, i)
    BY <2>2, <2>3 DEF Between, Cnt
  <2>5. Between([v EXCEPT !.at = @ - 1], k - 1)
    BY <1>1, <1>2, <2>1, <2>3, <2>4, BetweenSkipped
  <2> QED
    BY <1>4, <2>1, <2>5
<1>8. CASE SliceImpactful(b)
  <2> DEFINE v == EnterBlock(u, b)
             w == CountIns(Use(OneInstruction(v, Current(v, b.tid, b.ins), b.lastbb, FALSE), b, TRUE), b.tid, b.ins)
  <2>1. b.type = "ImpactfulCall" /\ slice' = [StartOfFunction(LeaveBlock(w, b), b) EXCEPT !.at = @ - 1]
    BY <1>8 DEF SliceImpactful, SliceBlock, Sliced, u
  <2>2. b.type # "Declare" /\ ~Skipped(b) /\ b.type # "Normal"
    BY <2>1 DEF Skipped
  <2>3. Within(v, k, Len(b.code)) /\ SliceOK(v) /\ Sliceable(b) /\ v.frames[b.tid] # <<>> /\ b.ins \in InsIDs
    BY <1>5, <2>2
  <2> HIDE DEF v
  <2>4. Reading(v, w, b, b.ins)
    BY <2>3, ImpactfulReads
  <2> HIDE DEF w
  <2>5. Between([StartOfFunction(LeaveBlock(w, b), b) EXCEPT !.at = @ - 1], k - 1)
    BY <1>1, <1>3, <2>2, <2>3, <2>4, BetweenOne
  <2> QED
    BY <1>4, <2>1, <2>5
<1>9. CASE SliceAccess(b)
  <2> DEFINE v == EnterBlock(u, b)
             address == IF b.type \in Accesses \ {"Memset", "Memmove"} /\ Efficacious(b)
                        THEN {<<b.start, b.ins>>} ELSE {}
             w == AccessInst(v, b, b.ins, address)
  <2>1. /\ b.type \in Accesses \cup {"ExternalCall"} /\ ~Skipped(b)
        /\ slice' = [StartOfFunction(LeaveBlock(w, b), b) EXCEPT !.at = @ - 1]
    BY <1>9, Zenon DEF SliceAccess, SliceBlock, Sliced, AccessInst, u
  <2>2. b.type # "Declare" /\ b.type # "Normal"
    BY <2>1 DEF Accesses
  <2>3. Within(v, k, Len(b.code)) /\ SliceOK(v) /\ Sliceable(b) /\ v.frames[b.tid] # <<>> /\ b.ins \in InsIDs
    BY <1>5, <2>1, <2>2
  <2>4. \A z \in address : z[2] \in InsIDs
    BY <2>3
  <2> HIDE DEF v, address
  <2>5. Reading(v, w, b, b.ins)
    BY <2>3, <2>4, AccessReads
  <2> HIDE DEF w
  <2>6. Between([StartOfFunction(LeaveBlock(w, b), b) EXCEPT !.at = @ - 1], k - 1)
    BY <1>1, <1>3, <2>1, <2>2, <2>3, <2>5, BetweenOne
  <2> QED
    BY <1>4, <2>1, <2>6
<1>10. CASE SliceNormal(b)
  <2> DEFINE v == EnterBlock(u, b)
             w == NormalBlock(b, v)
  <2>1. b.type = "Normal" /\ slice' = [StartOfFunction(LeaveBlock(w, b), b) EXCEPT !.at = @ - 1]
    BY <1>10, Zenon DEF SliceNormal, SliceBlock, Sliced, NormalBlock, u
  <2>2. b.type # "Declare" /\ ~Skipped(b)
    BY <2>1 DEF Skipped
  <2>3. Within(v, k, Len(b.code))
    BY <1>5, <2>2
  <2> HIDE DEF v
  <2>4. Within(w, k, 0)
    <3>1. InTrace(k) /\ block_trace[k].type = "Normal" /\ Within(v, k, Len(block_trace[k].code))
      BY <1>1, <1>3, <2>1, <2>2, <2>3
    <3>2. Within(NormalBlock(block_trace[k], v), k, 0)
      BY <3>1, WithinNormal
    <3> QED
      BY <1>1, <3>2
  <2> HIDE DEF w
  <2>5. Between([StartOfFunction(LeaveBlock(w, b), b) EXCEPT !.at = @ - 1], k - 1)
    BY <1>1, <1>2, <1>3, <2>2, <2>4, BetweenRead
  <2> QED
    BY <1>4, <2>1, <2>5
<1> QED
  BY <1>1, <1>6, <1>7, <1>8, <1>9, <1>10

-----------------------------------------------------------------------------
(* The trace is left alone from now on                                     *)

traceVars == <<block_trace, groups, read, mem_dep>>

(* So are the instances, and what they take their values from,             *)
LEMMA SameInstances ==
  ASSUME UNCHANGED traceVars
  PROVE  /\ \A k : InTrace(k)' <=> InTrace(k)
         /\ Instances' = Instances
         /\ \A k, i : InstanceOf(k, i)' = InstanceOf(k, i)
         /\ \A k, i, op : LastExecution(k, i, op)' = LastExecution(k, i, op)
<1>1. UNCHANGED block_trace
  BY DEF traceVars
<1>2. Instances' = Instances
  BY <1>1 DEF Instances
<1>3. ASSUME NEW k PROVE InTrace(k)' <=> InTrace(k)
  BY <1>1 DEF InTrace
<1>4. ASSUME NEW k, NEW i PROVE InstanceOf(k, i)' = InstanceOf(k, i)
  BY <1>1, <1>2 DEF InstanceOf
<1>5. ASSUME NEW k, NEW i, NEW op PROVE LastExecution(k, i, op)' = LastExecution(k, i, op)
  BY <1>1, <1>2 DEF LastExecution
<1> QED
  BY <1>2, <1>3, <1>4, <1>5

(* and the dependencies,                                                   *)
LEMMA SameDepends ==
  ASSUME UNCHANGED traceVars
  PROVE  Depends' = Depends /\ (\A k : Backward(k)' = Backward(k)) /\ (DependsOK' <=> DependsOK)
<1>1. UNCHANGED <<block_trace, groups, read, mem_dep>>
  BY DEF traceVars
<1>2. trace' = trace
  BY <1>1 DEF trace
<1>3. ASSUME NEW a PROVE GroupOf(a)' = GroupOf(a)
  BY <1>1 DEF GroupOf
<1>4. ASSUME NEW b PROVE GroupsOf(b)' = GroupsOf(b)
  BY <1>3 DEF GroupsOf
<1>5. ASSUME NEW b PROVE Reads(b)' = Reads(b) /\ Writes(b)' = Writes(b)
  BY <1>4 DEF Reads, Writes
<1>6. ASSUME NEW a, NEW k PROVE Writer(a, k)' = Writer(a, k)
  <2> DEFINE js == {j \in 1 .. k - 1 : a \in Writes(trace[j])}
             L(S) == IF S = {} THEN 0 ELSE CHOOSE j \in S : \A i \in S : i <= j
  <2>1. js' = js
    BY <1>2, <1>5
  <2>2. Writer(a, k) = L(js) /\ Writer(a, k)' = L(js')
    BY DEF Writer
  <2> HIDE DEF js, L
  <2> QED
    BY <2>1, <2>2
<1>7. Depends' = Depends
  BY <1>2, <1>5, <1>6 DEF Depends
<1>8. ASSUME NEW k PROVE Same(k)' = Same(k)
  BY <1>2 DEF Same
<1>9. ASSUME NEW k PROVE Backward(k)' = Backward(k)
  BY <1>2, <1>8 DEF Backward
<1>10. DependsOK' <=> DependsOK
  BY <1>1, <1>7, <1>9 DEF DependsOK
<1> QED
  BY <1>7, <1>9, <1>10

(* and the sources,                                                        *)
LEMMA SameSources ==
  ASSUME UNCHANGED traceVars, NEW k, NEW i
  PROVE  Sources(k, i)' = Sources(k, i)
<1>1. UNCHANGED block_trace
  BY DEF traceVars
<1>2. Operands(k, i)' = Operands(k, i)
  BY SameInstances DEF Operands
<1>3. Incoming(k, i)' = Incoming(k, i)
  BY <1>1, SameInstances DEF Incoming
<1>4. Written(k)' = Written(k)
  BY <1>1, SameDepends DEF Written
<1> QED
  BY <1>1, <1>2, <1>3, <1>4 DEF Sources

(* and the counts and the depths.                                          *)
LEMMA SameCounts ==
  ASSUME UNCHANGED traceVars
  PROVE  /\ \A k, t, i : Ran(k, t, i)' = Ran(k, t, i)
         /\ \A k, t : Depth(k, t)' = Depth(k, t) /\ DepthIn(k, t)' = DepthIn(k, t)
         /\ \A f : Body(f)' = Body(f)
         /\ \A t, i, j : Leaves(t, i, j)' <=> Leaves(t, i, j)
<1>1. UNCHANGED block_trace
  BY DEF traceVars
<1>2. ASSUME NEW k, NEW t, NEW i PROVE Ran(k, t, i)' = Ran(k, t, i)
  <2>1. After(k, t, i)' = After(k, t, i)
    BY <1>1, SameInstances DEF After
  <2> QED
    BY <2>1 DEF Ran
<1>3. ASSUME NEW k, NEW t PROVE Depth(k, t)' = Depth(k, t) /\ DepthIn(k, t)' = DepthIn(k, t)
  <2>1. Lasts(t)' = Lasts(t) /\ Firsts(t)' = Firsts(t)
    BY <1>1 DEF Lasts, Firsts
  <2>2. Pops(t)' = Pops(t)
    BY <1>1, <2>1 DEF Pops
  <2>3. Depth(k, t)' = Depth(k, t)
    BY <1>1, <2>1, <2>2 DEF Depth
  <2> QED
    BY <2>1, <2>3 DEF DepthIn
<1>4. ASSUME NEW f PROVE Body(f)' = Body(f)
  BY <1>1 DEF Body
<1>5. ASSUME NEW t, NEW i, NEW j PROVE Leaves(t, i, j)' <=> Leaves(t, i, j)
  BY <1>1 DEF Leaves
<1> QED
  BY <1>2, <1>3, <1>4, <1>5

(* What has been read and what is owed is then the same in either state.   *)
LEMMA SameOwed ==
  ASSUME UNCHANGED traceVars, NEW u
  PROVE  /\ \A y : Owed(u, y)' <=> Owed(u, y)
         /\ \A f, j : KeptIn(u, f, j)' <=> KeptIn(u, f, j)
         /\ \A k : Owes(u, k)' <=> Owes(u, k)
         /\ \A k : Between(u, k)' <=> Between(u, k)
<1>1. UNCHANGED block_trace
  BY DEF traceVars
<1>2. ASSUME NEW y PROVE Owed(u, y)' <=> Owed(u, y)
  BY <1>1, SameInstances DEF Owed
<1>3. ASSUME NEW f, NEW j PROVE KeptIn(u, f, j)' <=> KeptIn(u, f, j)
  BY <1>1, SameInstances, SameCounts DEF KeptIn
<1>4. ASSUME NEW f, NEW j PROVE InUse(u, f, j)' <=> InUse(u, f, j)
  BY <1>1, SameCounts DEF InUse
<1>5. ASSUME NEW f PROVE CallOwed(u, f)' <=> CallOwed(u, f)
  BY <1>1, <1>2, SameInstances DEF CallOwed
<1>6. OwesSources(u)' <=> OwesSources(u)
  BY <1>2, SameInstances, SameSources DEF OwesSources
<1>7. ASSUME NEW k PROVE OwesCalls(u, k)' <=> OwesCalls(u, k)
  BY <1>3, <1>4, <1>5 DEF OwesCalls
<1>8. ASSUME NEW k PROVE Owes(u, k)' <=> Owes(u, k)
  BY <1>6, <1>7 DEF Owes
<1>9. ASSUME NEW k PROVE Between(u, k)' <=> Between(u, k)
  BY <1>1, <1>8, SameCounts DEF Between
<1> QED
  BY <1>2, <1>3, <1>8, <1>9

(* The dependencies when ExtractMemoryDependency is done.                  *)
LEMMA DependsReady ==
  ASSUME DependenceInv, phase = "PreparePostDominator"
  PROVE  DependsOK
<1>1. block_trace \in Seq(Blocks) /\ read = Len(block_trace)
  BY TraceIs DEF DependenceInv
<1>2. ASSUME NEW p \in Depends
      PROVE  /\ p[1] \in 1 .. Len(block_trace) /\ p[2] \in 1 .. p[1] - 1
             /\ Counted(block_trace[p[1]]) /\ Counted(block_trace[p[2]])
             /\ <<Backward(p[1]), Backward(p[2])>> \in mem_dep
  <2>1. <<Backward(p[1]), Backward(p[2])>> \in Proper(mem_dep)
    BY NumberedFromEnd DEF CountedFromEnd
  <2>2. <<Backward(p[1]), Backward(p[2])>> \in mem_dep
    BY <2>1 DEF Proper
  <2> QED
    BY <1>1, <2>2, DependsAre
<1> QED
  BY <1>1, <1>2 DEF DependsOK

(* Nothing has been read at first.                                         *)
LEMMA BetweenFirst ==
  ASSUME block_trace \in Seq(Blocks)
  PROVE  Between([NoSlice EXCEPT !.at = Len(block_trace)], Len(block_trace))
<1> DEFINE n == Len(block_trace)
           u == [NoSlice EXCEPT !.at = n]
<1>1. n \in Nat
  OBVIOUS
<1> HIDE DEF n
<1>2. /\ IsSlice(u) /\ u.at = n /\ u.inst_count = <<>> /\ u.this_bb_used = FALSE
      /\ u.frames = [t \in Tids |-> <<>>] /\ u.unneeded_di = {} /\ u.Addr2Unneded = {} /\ u.kept = {}
  BY DEF NoSlice, IsSlice, SliceFields
<1> HIDE DEF u
<1>3. SliceOK(u)
  <2>1. CountsOK(u.inst_count)
    BY <1>2 DEF CountsOK
  <2>2. \A t \in Tids : u.frames[t] \in Seq(FramesOf(u, t))
    BY <1>2
  <2> QED
    BY <1>1, <1>2, <2>1, <2>2 DEF SliceOK
<1>4. ASSUME NEW t, NEW i PROVE Cnt(u, t, i) = Ran(n, t, i)
  <2>1. Cnt(u, t, i) = 0
    BY <1>2 DEF Cnt
  <2>2. After(n, t, i) = {}
    BY <1>1 DEF After, n
  <2> QED
    BY <2>1, <2>2, FS_EmptySet DEF Ran
<1>5. ASSUME NEW t \in Tids PROVE Len(u.frames[t]) = Depth(n, t)
  <2>1. Len(u.frames[t]) = 0
    BY <1>2
  <2>2. n + 1 \in Int /\ n \in Int /\ n < n + 1
    BY <1>1
  <2>3. Num(Lasts(t), n + 1, n) = 0 /\ Num(Pops(t), n + 1, n) = 0
    BY <2>2, NumNone
  <2> QED
    BY <2>1, <2>3 DEF Depth, n
<1>6. Owes(u, n)
  BY <1>2 DEF Owes, OwesSources, OwesCalls, KeptIn
<1>7. Between(u, n)
  BY <1>1, <1>2, <1>3, <1>4, <1>5, <1>6 DEF Between, n
<1> QED
  BY <1>7 DEF u, n

(* The passes before, the backward pass and the report.                    *)
SliceInv ==
    \/ /\ phase \in {"MergeTrace", "GroupMemory", "ExtractMemoryDependency", "PreparePostDominator"}
       /\ DependenceInv /\ slice = NoSlice
    \/ /\ phase = "ExtractUneededOperation" /\ DependsOK /\ Between(slice, slice.at)
    \/ /\ phase \in {"PrintBug", "exit"} /\ DependsOK /\ Between(slice, 0)

(* Nothing of it changes.                                                  *)
LEMMA DependenceSame ==
  ASSUME DependenceInv, UNCHANGED vars
  PROVE  DependenceInv'
BY DependenceNext

(* It holds at first.                                                     *)
LEMMA SliceInit == MainInit => SliceInv
<1> SUFFICES ASSUME MainInit PROVE SliceInv
  OBVIOUS
<1>1. Init /\ slice = NoSlice
  BY DEF MainInit
<1>2. phase = "MergeTrace"
  BY <1>1 DEF Init
<1> QED
  BY <1>1, <1>2, DependenceInit DEF SliceInv

(* Every step keeps it.                                                   *)
LEMMA SliceNext ==
  ASSUME SliceInv, phase # "MergeTrace" => Framed(block_trace), [MainNext]_mainVars
  PROVE  SliceInv'
<1> DEFINE Before == {"MergeTrace", "GroupMemory", "ExtractMemoryDependency", "PreparePostDominator"}
<1>1. ASSUME UNCHANGED traceVars, DependsOK PROVE DependsOK'
  BY <1>1, SameDepends
<1>2. ASSUME UNCHANGED traceVars, NEW k, Between(slice', k) PROVE Between(slice, k)'
  BY <1>2, SameOwed
<1>3. ASSUME UNCHANGED <<vars, slice>> PROVE SliceInv'
  <2>1. UNCHANGED traceVars /\ phase' = phase /\ slice' = slice
    BY <1>3 DEF vars, groupVars, dependVars, traceVars
  <2>2. CASE phase \in Before /\ DependenceInv /\ slice = NoSlice
    <3>1. DependenceInv'
      BY <1>3, <2>2, DependenceSame
    <3> QED
      BY <2>1, <2>2, <3>1 DEF SliceInv
  <2>3. CASE phase = "ExtractUneededOperation" /\ DependsOK /\ Between(slice, slice.at)
    <3>1. Between(slice', slice.at)
      BY <2>1, <2>3
    <3>2. Between(slice, slice.at)'
      BY <1>2, <2>1, <3>1
    <3> QED
      BY <1>1, <2>1, <2>3, <3>2 DEF SliceInv
  <2>4. CASE phase \in {"PrintBug", "exit"} /\ DependsOK /\ Between(slice, 0)
    <3>1. Between(slice', 0)
      BY <2>1, <2>4
    <3>2. Between(slice, 0)'
      BY <1>2, <2>1, <3>1
    <3> QED
      BY <1>1, <2>1, <2>4, <3>2 DEF SliceInv
  <2> QED
    BY <2>2, <2>3, <2>4 DEF SliceInv
<1>4. CASE Next /\ UNCHANGED <<dominatorVars, sliceVars>>
  <2>1. phase \in Before
    BY <1>4 DEF Next, Merge, StartGroup, Group, StartDepend, Depend, NoAccess, Skip, Store, Load, Memmove,
       ExternalCall, Count, ReadBlock, Finish
  <2>2. DependenceInv /\ slice = NoSlice
    BY <2>1 DEF SliceInv
  <2>3. DependenceInv' /\ slice' = NoSlice
    BY <1>4, <2>2, DependenceNext DEF sliceVars
  <2>4. phase' \in Before
    BY <2>3 DEF DependenceInv, GroupInv
  <2> QED
    BY <2>3, <2>4 DEF SliceInv
<1>5. CASE Dominate \/ Report \/ UNCHANGED mainVars
  BY <1>3, <1>5 DEF Dominate, Report, mainVars, sliceVars
<1>6. CASE StartSlice
  <2>1. phase = "PreparePostDominator" /\ phase' = "ExtractUneededOperation" /\ UNCHANGED traceVars
        /\ slice' = [slice EXCEPT !.at = Len(block_trace)]
    BY <1>6 DEF StartSlice, NextPhase, groupVars, dependVars, traceVars
  <2>2. DependenceInv /\ slice = NoSlice
    BY <2>1 DEF SliceInv
  <2>3. DependsOK
    BY <2>1, <2>2, DependsReady
  <2>4. Between(slice', Len(block_trace))
    BY <2>1, <2>2, <2>3, BetweenFirst DEF DependsOK
  <2>5. slice'.at = Len(block_trace)
    BY <2>4 DEF Between
  <2>6. Between(slice, slice.at)'
    <3>1. Between(slice', slice'.at)
      BY <2>4, <2>5
    <3> QED
      BY <1>2, <2>1, <3>1
  <2> QED
    BY <1>1, <2>1, <2>3, <2>6 DEF SliceInv
<1>7. CASE Slice
  <2>1. phase = "ExtractUneededOperation" /\ UNCHANGED vars
    BY <1>7 DEF Slice, SliceDeclare, SliceIgnorable, SliceImpactful, SliceAccess, SliceNormal, SliceBlock
  <2>2. DependsOK /\ Between(slice, slice.at) /\ Framed(block_trace)
    BY <2>1 DEF SliceInv
  <2>3. Between(slice', slice.at - 1) /\ slice'.at = slice.at - 1
    BY <1>7, <2>2, SliceStep
  <2>4. UNCHANGED traceVars /\ phase' = phase
    BY <2>1 DEF vars, groupVars, dependVars, traceVars
  <2>5. Between(slice', slice'.at)
    BY <2>3
  <2>6. Between(slice, slice.at)'
    BY <1>2, <2>4, <2>5
  <2> QED
    BY <1>1, <2>1, <2>2, <2>4, <2>6 DEF SliceInv
<1>8. CASE StartReport
  <2>1. phase = "ExtractUneededOperation" /\ phase' = "PrintBug" /\ UNCHANGED traceVars
        /\ slice' = slice /\ slice.at = 0
    BY <1>8 DEF StartReport, NextPhase, groupVars, dependVars, traceVars
  <2>2. DependsOK /\ Between(slice', 0)
    BY <2>1 DEF SliceInv
  <2>3. Between(slice, 0)'
    BY <1>2, <2>1, <2>2
  <2> QED
    BY <1>1, <2>1, <2>2, <2>3 DEF SliceInv
<1>9. CASE Exit
  <2>1. phase = "PrintBug" /\ phase' = "exit" /\ UNCHANGED traceVars /\ slice' = slice
    BY <1>9 DEF Exit, NextPhase, groupVars, dependVars, traceVars
  <2>2. DependsOK /\ Between(slice', 0)
    BY <2>1 DEF SliceInv
  <2>3. Between(slice, 0)'
    BY <1>2, <2>1, <2>2
  <2> QED
    BY <1>1, <2>1, <2>2, <2>3 DEF SliceInv
<1> QED
  BY <1>4, <1>5, <1>6, <1>7, <1>8, <1>9 DEF MainNext

(* What is owed is not reported.                                           *)
LEMMA OwedIsKept ==
  ASSUME SliceOK(slice), NEW y, Owed(slice, y)
  PROVE  ~Reported(y)
<1> DEFINE d == InstanceOf(y[1], y[2])
<1>1. ASSUME d \in slice.unneeded_di PROVE FALSE
  <2>1. HasRun(slice, d)
    BY <1>1 DEF SliceOK
  <2> QED
    BY <1>1, <2>1 DEF Owed
<1> QED
  BY <1>1 DEF Reported

(* The invariant says what the properties say.                             *)
LEMMA SourcesKept == SliceInv => DependenciesKept
<1> SUFFICES ASSUME SliceInv, phase = "PrintBug", NEW x \in Instances, NEW h \in slice.kept,
                    h.inst = InstanceOf(x[1], x[2]), ~h.late, NEW y \in Sources(x[1], x[2])
             PROVE  ~Reported(y)
  BY DEF DependenciesKept, SliceDone
<1>1. SliceOK(slice) /\ OwesSources(slice)
  BY DEF SliceInv, Between, Owes
<1>2. Owed(slice, y)
  BY <1>1 DEF OwesSources
<1> QED
  BY <1>1, <1>2, OwedIsKept

(* The same of the calls,                                                 *)
LEMMA CallsAreKept == SliceInv => CallsKept
<1> SUFFICES ASSUME SliceInv, phase = "PrintBug", NEW f \in DOMAIN block_trace,
                    block_trace[f].type # "Declare", block_trace[f].first = 1, block_trace[f].caller # -1,
                    NEW h \in slice.kept, ~h.late, NEW j \in Body(f), NEW ins \in ToSet(block_trace[j].code),
                    <<j, ins>> \in Instances, h.inst = InstanceOf(j, ins),
                    ~Leaves(block_trace[f].tid, f, j),
                    NEW x \in LastExecution(f, block_trace[f].caller, block_trace[f].caller)
             PROVE  ~Reported(x)
  BY DEF CallsKept, SliceDone
<1>1. SliceOK(slice) /\ OwesCalls(slice, 0) /\ block_trace \in Seq(Blocks)
  BY DEF SliceInv, Between, Owes, DependsOK
<1>2. InTrace(f) /\ f \in Nat /\ ~(0 >= f)
  BY <1>1 DEF InTrace
<1>3. KeptIn(slice, f, j)
  BY <1>2 DEF KeptIn
<1>4. CallOwed(slice, f)
  BY <1>1, <1>2, <1>3 DEF OwesCalls
<1>5. Owed(slice, x)
  BY <1>4 DEF CallOwed
<1> QED
  BY <1>1, <1>5, OwedIsKept

(* and of the stacks and the counts.                                      *)
LEMMA SliceTypes == SliceInv => MainTypeOK
<1> SUFFICES ASSUME SliceInv, phase = "ExtractUneededOperation" PROVE MainTypeOK
  BY DEF MainTypeOK
<1> DEFINE k == slice.at
<1>1. Between(slice, k) /\ block_trace \in Seq(Blocks) /\ SliceOK(slice) /\ ~slice.this_bb_used
      /\ k \in Nat /\ k \in 0 .. Len(block_trace) /\ Len(block_trace) \in Nat
  BY DEF SliceInv, DependsOK, Between
<1>2. /\ \A t, i : Cnt(slice, t, i) = Ran(k, t, i)
      /\ \A t \in Tids : Len(slice.frames[t]) = Depth(k, t)
  BY <1>1 DEF Between
<1>3. ASSUME NEW t \in Tids PROVE Len(slice.frames[t]) = OpenFrames(t)
  <2> DEFINE n == Len(block_trace)
  <2>1. k + 1 \in Nat \ {0} /\ n \in Int /\ n <= Len(block_trace)
    BY <1>1
  <2>2. Cardinality(LastBlocks(block_trace, t, k + 1, n)) = Num(Lasts(t), k + 1, n)
    BY <1>1, <2>1, LastsAre
  <2>3. Cardinality({j \in FirstBlocks(block_trace, t, k + 1, n) : ~Skipped(block_trace[j])}) = Num(Pops(t), k + 1, n)
    BY <1>1, <2>1, FirstsAre
  <2>4. OpenFrames(t) = Depth(k, t)
    BY <2>2, <2>3 DEF OpenFrames, Depth
  <2> QED
    BY <1>2, <2>4
<1>4. ASSUME NEW x \in Instances, x[1] = k + 1, ~Skipped(block_trace[x[1]])
      PROVE  Current(slice, block_trace[x[1]].tid, x[2]).Cnt = InstanceOf(x[1], x[2]).Cnt - 1
  <2> DEFINE e == x[1]
             i == x[2]
             t == block_trace[e].tid
  <2>1. <<e, i>> \in Instances /\ e = k + 1 /\ ~Skipped(block_trace[e])
    BY <1>1, <1>4, InstancesAre
  <2> HIDE DEF e, i
  <2>2. e \in 1 .. Len(block_trace) /\ e \in Nat /\ InstanceOf(e, i).Cnt = -Ran(e, t, i)
    BY <1>1, <2>1, InstanceIs
  <2>3. Ran(e - 1, t, i) = Ran(e, t, i) + 1 /\ Ran(e, t, i) \in Nat
    BY <1>1, <2>1, <2>2, RanStep, RanIs
  <2>4. e - 1 = k
    BY <1>1, <2>1
  <2>5. Current(slice, t, i).Cnt = -Ran(k, t, i)
    BY <1>2 DEF Current, DynamicInst
  <2>6. Current(slice, t, i).Cnt = InstanceOf(e, i).Cnt - 1
    BY <2>2, <2>3, <2>4, <2>5
  <2> QED
    BY <2>6 DEF e, i
<1> QED
  BY <1>1, <1>3, <1>4 DEF MainTypeOK

(* It holds as long as the traces have the marks of MergeTrace.            *)
LEMMA SliceAlways == MainSpec /\ [](phase # "MergeTrace" => Framed(block_trace)) => []SliceInv
<1>1. MainInit => SliceInv
  BY SliceInit
<1>2. SliceInv /\ (phase # "MergeTrace" => Framed(block_trace)) /\ [MainNext]_mainVars => SliceInv'
  BY SliceNext
<1> QED
  BY <1>1, <1>2, PTL DEF MainSpec

(* While the blocks are read backwards the stacks of every thread are as   *)
(* deep as the functions it is in, and every count is the number of        *)
(* executions read, for any trace with the marks of MergeTrace.            *)
THEOREM MainTypes == MainSpec /\ [](phase # "MergeTrace" => Framed(block_trace)) => []MainTypeOK
<1>1. SliceInv => MainTypeOK
  BY SliceTypes
<1> QED
  BY <1>1, SliceAlways, PTL

(* What an instruction that is found to be needed takes its values from,   *)
(* operands, incoming values and the last writes of the memory it reads,   *)
(* is not reported, whatever the program, its threads and its trace.       *)
THEOREM DependenciesKeptAlways ==
    MainSpec /\ [](phase # "MergeTrace" => Framed(block_trace)) => []DependenciesKept
<1>1. SliceInv => DependenciesKept
  BY SourcesKept
<1> QED
  BY <1>1, SliceAlways, PTL

(* Nor is the call of a function of which an instruction is found to be    *)
(* needed, at any depth of calls, unless a frame was left behind.          *)
THEOREM CallsKeptAlways ==
    MainSpec /\ [](phase # "MergeTrace" => Framed(block_trace)) => []CallsKept
<1>1. SliceInv => CallsKept
  BY CallsAreKept
<1> QED
  BY <1>1, SliceAlways, PTL

-----------------------------------------------------------------------------
(* The reports                                                             *)

(* One of a set of numbers is the smallest.                                *)
LEMMA MinimumIs ==
  ASSUME NEW S \in SUBSET Nat, S # {}
  PROVE  Min(S) \in S
<1> SUFFICES ASSUME \A x \in S : \E y \in S : ~(x <= y) PROVE FALSE
  BY DEF Min
<1> DEFINE K == {m \in Nat : \A y \in S : m <= y}
<1>1. 0 \in K
  OBVIOUS
<1>2. ASSUME NEW m \in Nat, m \in K PROVE m + 1 \in K
  <2>1. m \notin S /\ \A y \in S : m <= y /\ y \in Nat
    BY <1>2
  <2>2. \A y \in S : m + 1 <= y
    BY <2>1
  <2> QED
    BY <2>2
<1>3. Nat \subseteq K
  <2> HIDE DEF K
  <2> QED
    BY <1>1, <1>2, NatSetInduction
<1>4. PICK s \in S : TRUE
  OBVIOUS
<1>5. s \in Nat /\ s + 1 \in Nat /\ s + 1 \in K
  BY <1>3
<1>6. s + 1 <= s
  BY <1>4, <1>5
<1> QED
  BY <1>5, <1>6

(* The graph is finite and its edges go both ways.                         *)
LEMMA GraphIs ==
  ASSUME SliceOK(slice)
  PROVE  /\ DOMAIN UneededGraph = UneededNodes /\ IsFiniteSet(UneededNodes)
         /\ UneededIns \subseteq UneededNodes /\ UneededIns \subseteq Nat
         /\ \A i \in UneededNodes : UneededGraph[i] \subseteq UneededNodes
         /\ \A i, j \in UneededNodes : j \in UneededGraph[i] => i \in UneededGraph[j]
<1>1. UneededIns \subseteq InsIDs
  BY DEF UneededIns, SliceOK
<1>2. UneededNodes \subseteq InsIDs
  BY <1>1 DEF UneededNodes, SliceOK
<1>3. IsFiniteSet(InsIDs) /\ InsIDs \subseteq Nat
  BY InstructionAssumption DEF InsIDs
<1>4. IsFiniteSet(UneededNodes)
  BY <1>2, <1>3, FS_Subset
<1>5. UneededIns \subseteq UneededNodes
  BY DEF UneededNodes
<1> QED
  BY <1>1, <1>3, <1>4, <1>5 DEF UneededGraph

(* The reports so far are apart, each with all that it is joined to.       *)
Closed(r) == r \subseteq UneededNodes /\ \A i \in r : UneededGraph[i] \subseteq r
ReportsApart ==
    /\ printed = UNION reports
    /\ \A r, s \in reports : r = s \/ r \cap s = {}
    /\ \A r \in reports : Closed(r)

(* So is the next one.                                                     *)
LEMMA NextReport ==
  ASSUME SliceOK(slice), ReportsApart, UneededIns \ printed # {}
  PROVE  LET bug == BFSOnUneededGraph(Min(UneededIns \ printed)) IN
         Closed(bug) /\ bug \cap printed = {}
<1> DEFINE N == UneededNodes
           G == UneededGraph
           i == Min(UneededIns \ printed)
           bug == Reach(G, {i}, printed)
           fresh == N \ printed
<1>1. i \in UneededIns /\ i \notin printed /\ i \in N
  <2> DEFINE S == UneededIns \ printed
  <2>1. S \in SUBSET Nat /\ S # {} /\ UneededIns \subseteq N
    BY GraphIs
  <2>2. Min(S) \in S
    BY <2>1, MinimumIs
  <2> QED
    BY <2>1, <2>2
<1> HIDE DEF i
<1>2. /\ DOMAIN G = N /\ IsFiniteSet(N) /\ \A n \in N : G[n] \subseteq N
      /\ \A m, n \in N : n \in G[m] => m \in G[n]
  BY GraphIs
<1> HIDE DEF G, N
<1>3. /\ {i} \subseteq bug
      /\ ClosedIn(G, bug, printed)
      /\ \A T : ({i} \subseteq T /\ ClosedIn(G, T, printed)) => bug \subseteq T
  <2> DEFINE M == {i}
  <2> HIDE DEF M
  <2>1. /\ M \subseteq Reach(G, M, printed)
        /\ ClosedIn(G, Reach(G, M, printed), printed)
        /\ \A T : (M \subseteq T /\ ClosedIn(G, T, printed)) => Reach(G, M, printed) \subseteq T
    BY <1>2, ReachIs
  <2> QED
    BY <2>1 DEF M
<1> HIDE DEF bug
<1>4. ClosedIn(G, fresh, printed)
  BY <1>2 DEF ClosedIn
<1>5. bug \subseteq fresh
  BY <1>1, <1>3, <1>4
<1>6. ASSUME NEW m \in bug, NEW n \in G[m] PROVE n \in bug
  <2>1. m \in N /\ n \in N /\ m \in G[n] /\ m \notin printed
    BY <1>2, <1>5
  <2>2. n \notin printed
    <3> SUFFICES ASSUME n \in printed PROVE FALSE
      OBVIOUS
    <3>1. PICK r \in reports : n \in r
      BY DEF ReportsApart
    <3>2. m \in r
      BY <2>1, <3>1 DEF ReportsApart, Closed, G
    <3> QED
      BY <2>1, <3>2 DEF ReportsApart
  <2> QED
    BY <1>2, <1>3, <2>1, <2>2 DEF ClosedIn
<1> QED
  BY <1>5, <1>6 DEF Closed, BFSOnUneededGraph, bug, G, N, i

(* There are none before PrintBug, and they are complete at the end.       *)
ReportInv ==
    /\ ReportsApart
    /\ phase \in {"MergeTrace", "GroupMemory", "ExtractMemoryDependency", "PreparePostDominator",
                  "ExtractUneededOperation"} => reports = {}
    /\ phase = "exit" => UneededIns \subseteq printed

(* The graph is the same while the slice and the trace are.                *)
LEMMA SameGraph ==
  ASSUME UNCHANGED <<slice, traceVars>>
  PROVE  UneededIns' = UneededIns /\ \A r : Closed(r)' <=> Closed(r)
<1>1. UNCHANGED <<slice, mem_dep>>
  BY DEF traceVars
<1>2. UneededIns' = UneededIns
  BY <1>1 DEF UneededIns
<1>3. UneededNodes' = UneededNodes
  BY <1>1, <1>2 DEF UneededNodes
<1>4. ASSUME NEW d PROVE MemNeeds(d)' = MemNeeds(d)
  BY <1>1 DEF MemNeeds
<1>5. UneededPairs' = UneededPairs
  BY <1>1, <1>4 DEF UneededPairs
<1>6. UneededGraph' = UneededGraph
  BY <1>3, <1>5 DEF UneededGraph
<1> QED
  BY <1>2, <1>3, <1>6 DEF Closed

(* It holds at first.                                                      *)
LEMMA ReportInit == MainInit => ReportInv
BY DEF MainInit, Init, ReportInv, ReportsApart

(* Every step keeps it.                                                    *)
LEMMA ReportNext ==
  ASSUME SliceInv, ReportInv, [MainNext]_mainVars
  PROVE  ReportInv'
<1> DEFINE Early == {"MergeTrace", "GroupMemory", "ExtractMemoryDependency", "PreparePostDominator",
                     "ExtractUneededOperation"}
<1>1. ASSUME UNCHANGED <<printed, reports>>, phase \in Early, phase' # "exit" PROVE ReportInv'
  <2>1. reports = {} /\ printed = {}
    BY <1>1 DEF ReportInv, ReportsApart
  <2> QED
    BY <1>1, <2>1 DEF ReportInv, ReportsApart
<1>2. ASSUME UNCHANGED <<printed, reports, slice, traceVars>>, phase' \in Early => phase \in Early,
             phase' = "exit" => UneededIns \subseteq printed
      PROVE  ReportInv'
  <2>1. ReportsApart'
    BY <1>2, SameGraph DEF ReportInv, ReportsApart
  <2>2. UneededIns' = UneededIns
    BY <1>2, SameGraph
  <2> QED
    BY <1>2, <2>1, <2>2 DEF ReportInv
<1>3. ASSUME UNCHANGED <<vars, slice, printed, reports>> PROVE ReportInv'
  <2>1. UNCHANGED traceVars /\ phase' = phase
    BY <1>3 DEF vars, groupVars, dependVars, traceVars
  <2> QED
    BY <1>2, <1>3, <2>1 DEF ReportInv
<1>4. CASE Next /\ UNCHANGED <<dominatorVars, sliceVars>>
  <2>1. phase \in Early \ {"ExtractUneededOperation"}
    BY <1>4 DEF Next, Merge, StartGroup, Group, StartDepend, Depend, NoAccess, Skip, Store, Load, Memmove,
       ExternalCall, Count, ReadBlock, Finish
  <2>2. DependenceInv'
    BY <1>4, <2>1, DependenceNext DEF SliceInv
  <2>3. phase' # "exit"
    BY <2>2 DEF DependenceInv, GroupInv
  <2> QED
    BY <1>1, <1>4, <2>1, <2>3 DEF sliceVars
<1>5. CASE Dominate \/ UNCHANGED mainVars
  BY <1>3, <1>5 DEF Dominate, mainVars, sliceVars
<1>6. CASE StartSlice \/ StartReport
  <2>1. phase \in Early /\ phase' # "exit" /\ UNCHANGED <<printed, reports>>
    BY <1>6 DEF StartSlice, StartReport, NextPhase
  <2> QED
    BY <1>1, <2>1
<1>7. CASE Slice
  <2>1. phase \in Early /\ phase' # "exit" /\ UNCHANGED <<printed, reports>>
    BY <1>7 DEF Slice, SliceDeclare, SliceIgnorable, SliceImpactful, SliceAccess, SliceNormal, SliceBlock, vars
  <2> QED
    BY <1>1, <2>1
<1>8. CASE Report
  <2> DEFINE bug == BFSOnUneededGraph(Min(UneededIns \ printed))
  <2>1. /\ phase = "PrintBug" /\ phase' = phase /\ UNCHANGED <<slice, traceVars>> /\ UneededIns \ printed # {}
        /\ reports' = reports \cup {bug} /\ printed' = printed \cup bug
    BY <1>8 DEF Report, vars, groupVars, dependVars, traceVars
  <2>2. SliceOK(slice)
    BY <2>1 DEF SliceInv, Between
  <2>3. Closed(bug) /\ bug \cap printed = {}
    BY <2>1, <2>2, NextReport DEF ReportInv
  <2> HIDE DEF bug
  <2>4. \A r \in reports' : Closed(r)'
    BY <2>1, <2>3, SameGraph DEF ReportInv, ReportsApart
  <2>5. \A r \in reports : r \cap bug = {}
    BY <2>3 DEF ReportInv, ReportsApart
  <2>6. ReportsApart'
    BY <2>1, <2>4, <2>5 DEF ReportInv, ReportsApart
  <2> QED
    BY <2>1, <2>6 DEF ReportInv
<1>9. CASE Exit
  <2>1. /\ phase' = "exit" /\ UNCHANGED <<printed, reports, slice, traceVars>> /\ UneededIns \subseteq printed
    BY <1>9 DEF Exit, NextPhase, groupVars, dependVars, traceVars
  <2> QED
    BY <1>2, <2>1
<1> QED
  BY <1>4, <1>5, <1>6, <1>7, <1>8, <1>9 DEF MainNext

(* It says what the property says.                                         *)
LEMMA ReportEnough == SliceInv /\ ReportInv => ReportsMatch
<1> SUFFICES ASSUME SliceInv, ReportInv, phase = "exit" PROVE ReportsMatch
  BY DEF ReportsMatch
<1>1. SliceOK(slice) /\ ReportsApart /\ UneededIns \subseteq printed
  BY DEF SliceInv, ReportInv, Between
<1>2. ASSUME NEW d \in slice.unneeded_di, NEW e \in MemNeeds(d) \cap slice.unneeded_di
      PROVE  \E r \in reports : {d.ID, e.ID} \subseteq r
  <2>1. d.ID \in UneededIns /\ e.ID \in UneededIns
    BY DEF UneededIns
  <2>2. d.ID \in UneededNodes /\ e.ID \in UneededNodes
    BY <1>1, <2>1, GraphIs
  <2>3. <<d.ID, e.ID>> \in UneededPairs
    BY DEF UneededPairs
  <2>4. e.ID \in UneededGraph[d.ID]
    BY <2>2, <2>3 DEF UneededGraph
  <2>5. PICK r \in reports : d.ID \in r
    BY <1>1, <2>1 DEF ReportsApart
  <2> QED
    BY <1>1, <2>4, <2>5 DEF ReportsApart, Closed
<1> QED
  BY <1>1, <1>2 DEF ReportsMatch, ReportsApart

(* When print-bug ends, every unneeded execution is in one report, the     *)
(* reports have no instruction in common, and what read the memory that    *)
(* another unneeded execution wrote is in the report of that one.          *)
THEOREM ReportsMatchAlways ==
    MainSpec /\ [](phase # "MergeTrace" => Framed(block_trace)) => []ReportsMatch
<1>1. MainInit => ReportInv
  BY ReportInit
<1>2. SliceInv /\ ReportInv /\ [MainNext]_mainVars => ReportInv'
  BY ReportNext
<1>3. SliceInv /\ ReportInv => ReportsMatch
  BY ReportEnough
<1> QED
  BY <1>1, <1>2, <1>3, SliceAlways, PTL DEF MainSpec
=============================================================================
