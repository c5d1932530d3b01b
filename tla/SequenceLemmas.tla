--------------------------- MODULE SequenceLemmas ---------------------------
(***************************************************************************)
(* Induction over natural numbers and over sequences, with the property    *)
(* given as a set and not as an operator, and what it gives for            *)
(* FlattenSeq, which puts the blocks of a trace file together.             *)
(***************************************************************************)
EXTENDS Integers, Sequences, SequencesExt, FiniteSetTheorems, TLAPS

(* A set that has zero and with a number the next one has all numbers: if  *)
(* x were missing, the predecessor would map the numbers up to x that are  *)
(* missing one to one to fewer numbers than there are.                     *)
LEMMA NatSetInduction ==
  ASSUME NEW T, 0 \in T, \A n \in Nat : n \in T => n + 1 \in T
  PROVE  Nat \subseteq T
<1> SUFFICES ASSUME NEW x \in Nat, x \notin T PROVE FALSE
  OBVIOUS
<1> DEFINE B == {y \in 0 .. x : y \notin T}
           less == [y \in B |-> y - 1]
<1>1. IsFiniteSet(B) /\ x \in B
  <2>1. IsFiniteSet(0 .. x)
    BY FS_Interval
  <2> QED
    BY <2>1, FS_Subset
<1>2. less \in [B -> B \ {x}]
  <2> SUFFICES ASSUME NEW y \in B PROVE y - 1 \in B \ {x}
    OBVIOUS
  <2>1. y # 0 /\ (y - 1) + 1 = y
    OBVIOUS
  <2>2. y - 1 \in Nat
    BY <2>1
  <2> QED
    BY <2>1, <2>2
<1>3. Cardinality(B \ {x}) < Cardinality(B) /\ IsFiniteSet(B \ {x})
  <2> HIDE DEF B
  <2>1. Cardinality(B) \in Nat
    BY <1>1, FS_CardinalityType
  <2>2. IsFiniteSet(B \ {x}) /\ Cardinality(B \ {x}) = Cardinality(B) - 1
    BY <1>1, FS_RemoveElement
  <2> QED
    BY <2>1, <2>2
<1>4. PICK y \in B, z \in B : y # z /\ less[y] = less[z]
  <2> HIDE DEF B, less
  <2> QED
    BY <1>1, <1>2, <1>3, FS_PigeonHole
<1> QED
  BY <1>4

(* A nonempty set of numbers up to n has a greatest one.                   *)
LEMMA Maximum ==
  ASSUME NEW n \in Nat, NEW S \in SUBSET (0 .. n), S # {}
  PROVE  \E x \in S : \A y \in S : y <= x
<1> DEFINE T == {m \in Nat : \A R \in SUBSET (0 .. m) :
                                R # {} => \E x \in R : \A y \in R : y <= x}
<1>1. 0 \in T
  <2> SUFFICES ASSUME NEW R \in SUBSET (0 .. 0), R # {}
               PROVE  \E x \in R : \A y \in R : y <= x
    OBVIOUS
  <2>0. 0 .. 0 = {0}
    OBVIOUS
  <2>1. 0 \in R /\ \A y \in R : y = 0
    BY <2>0
  <2> QED
    BY <2>1
<1>2. ASSUME NEW m \in Nat, m \in T PROVE m + 1 \in T
  <2> SUFFICES ASSUME NEW R \in SUBSET (0 .. m + 1), R # {}
               PROVE  \E x \in R : \A y \in R : y <= x
    OBVIOUS
  <2>1. CASE m + 1 \in R
    BY <2>1
  <2>2. CASE m + 1 \notin R
    <3>1. R \in SUBSET (0 .. m)
      BY <2>2
    <3> QED
      BY <1>2, <3>1
  <2> QED
    BY <2>1, <2>2
<1>3. Nat \subseteq T
  <2> HIDE DEF T
  <2> QED
    BY <1>1, <1>2, NatSetInduction
<1> QED
  BY <1>3

(* Appending to a sequence.                                                *)
LEMMA AppendIsSeq ==
  ASSUME NEW S, NEW s \in Seq(S), NEW x \in S
  PROVE  /\ Append(s, x) \in Seq(S) /\ Append(s, x) # <<>>
         /\ Len(s) \in Nat /\ Len(Append(s, x)) = Len(s) + 1
OBVIOUS

(* A set that has the empty sequence and with a sequence every longer one  *)
(* by one element has all sequences.                                       *)
LEMMA SeqSetInduction ==
  ASSUME NEW S, NEW T, <<>> \in T,
         \A s \in Seq(S), x \in S : s \in T => Append(s, x) \in T
  PROVE  Seq(S) \subseteq T
<1> DEFINE L == {n \in Nat : \A s \in Seq(S) : Len(s) = n => s \in T}
<1>1. 0 \in L
  OBVIOUS
<1>2. ASSUME NEW n \in Nat, n \in L PROVE n + 1 \in L
  <2> SUFFICES ASSUME NEW s \in Seq(S), Len(s) = n + 1 PROVE s \in T
    OBVIOUS
  <2> DEFINE u == SubSeq(s, 1, n)
  <2>1. u \in Seq(S) /\ Len(u) = n /\ s[n + 1] \in S
    OBVIOUS
  <2>2. s = Append(u, s[n + 1])
    OBVIOUS
  <2> QED
    BY <1>2, <2>1, <2>2
<1>3. Nat \subseteq L
  <2> HIDE DEF L
  <2> QED
    BY <1>1, <1>2, NatSetInduction
<1> QED
  BY <1>3

-----------------------------------------------------------------------------
(* The recursive function inside FlattenSeq(s).                            *)
Flattens(f, s) ==
    f = [i \in 1 .. Len(s) |-> IF i = 1 THEN s[i] ELSE f[i - 1] \o s[i]]

(* It is what it says at every index.                                      *)
LEMMA FlattensAt ==
  ASSUME NEW f, NEW s, Flattens(f, s)
  PROVE  \A i \in 1 .. Len(s) : f[i] = IF i = 1 THEN s[i] ELSE f[i - 1] \o s[i]
<1> SUFFICES ASSUME NEW i \in 1 .. Len(s)
             PROVE  f[i] = IF i = 1 THEN s[i] ELSE f[i - 1] \o s[i]
  OBVIOUS
<1> DEFINE g == [j \in 1 .. Len(s) |-> IF j = 1 THEN s[j] ELSE f[j - 1] \o s[j]]
<1>1. g[i] = IF i = 1 THEN s[i] ELSE f[i - 1] \o s[i]
  BY Zenon
<1>2. f = g
  BY Zenon DEF Flattens
<1> HIDE DEF g
<1> QED
  BY <1>1, <1>2

(* It exists for the longer sequence if it does for the shorter one, and   *)
(* then ends with the longer one's last element.                           *)
LEMMA FlattensLonger ==
  ASSUME NEW S, NEW s \in Seq(S), NEW x \in S, NEW f, Flattens(f, s)
  PROVE  \E g : /\ Flattens(g, Append(s, x))
                /\ g[Len(s) + 1] = IF s = <<>> THEN x ELSE f[Len(s)] \o x
<1>0. \A i \in 1 .. Len(s) : f[i] = IF i = 1 THEN s[i] ELSE f[i - 1] \o s[i]
  BY FlattensAt
<1> DEFINE n == Len(s)
           v == Append(s, x)
           last == IF s = <<>> THEN x ELSE f[n] \o x
           g == [i \in 1 .. n + 1 |-> IF i = n + 1 THEN last ELSE f[i]]
<1>1. /\ n \in Nat /\ Len(v) = n + 1 /\ v[n + 1] = x
      /\ \A i \in 1 .. n : v[i] = s[i]
      /\ s = <<>> <=> n = 0
  OBVIOUS
<1> HIDE DEF v, n
<1>2. \A i \in 1 .. n + 1 : g[i] = IF i = 1 THEN v[i] ELSE g[i - 1] \o v[i]
  <2> SUFFICES ASSUME NEW i \in 1 .. n + 1
               PROVE  g[i] = IF i = 1 THEN v[i] ELSE g[i - 1] \o v[i]
    OBVIOUS
  <2>1. CASE i = n + 1
    <3>1. g[i] = last /\ v[i] = x /\ (i = 1 <=> s = <<>>)
      BY <1>1, <2>1
    <3>2. i # 1 => i - 1 = n /\ i - 1 \in 1 .. n + 1 /\ i - 1 # n + 1
      BY <1>1, <2>1
    <3> QED
      BY <3>1, <3>2
  <2>2. CASE i # n + 1
    <3>1. i \in 1 .. n
      BY <1>1, <2>2
    <3>2. f[i] = IF i = 1 THEN s[i] ELSE f[i - 1] \o s[i]
      BY <1>0, <3>1 DEF n
    <3>3. i # 1 => i - 1 \in 1 .. n + 1 /\ i - 1 # n + 1
      BY <1>1, <3>1
    <3>4. g[i] = f[i] /\ v[i] = s[i] /\ (i # 1 => g[i - 1] = f[i - 1])
      BY <1>1, <2>2, <3>1, <3>3
    <3> HIDE DEF g
    <3> QED
      BY <3>2, <3>4
  <2> QED
    BY <2>1, <2>2
<1>3. g = [i \in 1 .. n + 1 |-> g[i]] /\ n + 1 \in 1 .. n + 1 /\ g[n + 1] = last
  BY <1>1
<1>4. Flattens(g, v)
  <2> HIDE DEF g
  <2> QED
    BY <1>1, <1>2, <1>3 DEF Flattens
<1> QED
  BY <1>3, <1>4 DEF v, n

(* There is such a function for every sequence of sequences.               *)
LEMMA FlattensExists ==
  ASSUME NEW S, NEW s \in Seq(S)
  PROVE  \E f : Flattens(f, s)
<1> DEFINE T == {u \in Seq(S) : \E f : Flattens(f, u)}
<1>1. <<>> \in T
  <2>1. Flattens(<<>>, <<>>)
    BY DEF Flattens
  <2> QED
    BY <2>1
<1>2. ASSUME NEW u \in Seq(S), NEW x \in S, u \in T PROVE Append(u, x) \in T
  <2>1. PICK f : Flattens(f, u)
    BY <1>2
  <2>2. \E g : Flattens(g, Append(u, x))
    BY <2>1, FlattensLonger
  <2> QED
    BY <2>2
<1>3. Seq(S) \subseteq T
  <2> HIDE DEF T
  <2> QED
    BY <1>1, <1>2, SeqSetInduction
<1> QED
  BY <1>3

(* And only one.                                                           *)
LEMMA FlattensUnique ==
  ASSUME NEW S, NEW s \in Seq(S), NEW f, NEW g, Flattens(f, s), Flattens(g, s)
  PROVE  \A i \in 1 .. Len(s) : f[i] = g[i]
<1>0. /\ \A i \in 1 .. Len(s) : f[i] = IF i = 1 THEN s[i] ELSE f[i - 1] \o s[i]
      /\ \A i \in 1 .. Len(s) : g[i] = IF i = 1 THEN s[i] ELSE g[i - 1] \o s[i]
  BY FlattensAt
<1> DEFINE T == {k \in Nat : k \in 1 .. Len(s) => f[k] = g[k]}
<1>1. 0 \in T
  OBVIOUS
<1>2. ASSUME NEW k \in Nat, k \in T PROVE k + 1 \in T
  <2> SUFFICES ASSUME k + 1 \in 1 .. Len(s) PROVE f[k + 1] = g[k + 1]
    OBVIOUS
  <2>1. f[k + 1] = IF k + 1 = 1 THEN s[k + 1] ELSE f[(k + 1) - 1] \o s[k + 1]
    BY <1>0
  <2>2. g[k + 1] = IF k + 1 = 1 THEN s[k + 1] ELSE g[(k + 1) - 1] \o s[k + 1]
    BY <1>0
  <2>3. (k + 1) - 1 = k /\ (k + 1 # 1 => k \in 1 .. Len(s))
    OBVIOUS
  <2> QED
    BY <1>2, <2>1, <2>2, <2>3
<1>3. Nat \subseteq T
  <2> HIDE DEF T
  <2> QED
    BY <1>1, <1>2, NatSetInduction
<1> QED
  BY <1>3

(* FlattenSeq(s) is the last value of any such function.                   *)
LEMMA FlattenSeqDef ==
  ASSUME NEW S, NEW s \in Seq(S), s # <<>>, NEW f, Flattens(f, s)
  PROVE  FlattenSeq(s) = f[Len(s)]
<1> DEFINE g == CHOOSE h : Flattens(h, s)
<1>1. FlattenSeq(s) = g[Len(s)]
  BY DEF FlattenSeq, Flattens
<1>2. Flattens(g, s)
  BY FlattensExists, Zenon
<1>3. Len(s) \in 1 .. Len(s)
  OBVIOUS
<1> HIDE DEF g
<1> QED
  BY <1>1, <1>2, <1>3, FlattensUnique

-----------------------------------------------------------------------------
(* What FlattenSeq does with a sequence of sequences.                      *)
LEMMA FlattenEmpty == FlattenSeq(<<>>) = <<>>
BY DEF FlattenSeq

(* A sequence at the end is put at the end.                                *)
LEMMA FlattenAppend ==
  ASSUME NEW S, NEW s \in Seq(Seq(S)), NEW x \in Seq(S)
  PROVE  FlattenSeq(Append(s, x)) = FlattenSeq(s) \o x
<1>1. PICK f : Flattens(f, s)
  BY FlattensExists
<1>2. PICK g : /\ Flattens(g, Append(s, x))
               /\ g[Len(s) + 1] = IF s = <<>> THEN x ELSE f[Len(s)] \o x
  BY <1>1, FlattensLonger
<1>3. /\ Append(s, x) \in Seq(Seq(S)) /\ Append(s, x) # <<>>
      /\ Len(Append(s, x)) = Len(s) + 1
  BY AppendIsSeq
<1>4. FlattenSeq(Append(s, x)) = g[Len(s) + 1]
  BY <1>2, <1>3, FlattenSeqDef
<1>5. CASE s = <<>>
  <2>1. <<>> \o x = x
    OBVIOUS
  <2> QED
    BY <1>2, <1>4, <1>5, <2>1, FlattenEmpty
<1>6. CASE s # <<>>
  BY <1>1, <1>2, <1>4, <1>6, FlattenSeqDef
<1> QED
  BY <1>5, <1>6

(* The result is a sequence of the elements.                               *)
LEMMA FlattenType ==
  ASSUME NEW S, NEW s \in Seq(Seq(S))
  PROVE  FlattenSeq(s) \in Seq(S)
<1> DEFINE T == {u \in Seq(Seq(S)) : FlattenSeq(u) \in Seq(S)}
<1>1. <<>> \in T
  <2>1. <<>> \in Seq(Seq(S)) /\ <<>> \in Seq(S)
    OBVIOUS
  <2> QED
    BY <2>1, FlattenEmpty
<1>2. ASSUME NEW u \in Seq(Seq(S)), NEW x \in Seq(S), u \in T
      PROVE  Append(u, x) \in T
  <2>1. FlattenSeq(Append(u, x)) = FlattenSeq(u) \o x
    BY FlattenAppend
  <2>2. FlattenSeq(u) \in Seq(S)
    BY <1>2
  <2>3. FlattenSeq(u) \o x \in Seq(S)
    BY <2>2
  <2>4. Append(u, x) \in Seq(Seq(S))
    BY AppendIsSeq
  <2> QED
    BY <2>1, <2>3, <2>4
<1>3. Seq(Seq(S)) \subseteq T
  <2> HIDE DEF T
  <2> QED
    BY <1>1, <1>2, SeqSetInduction
<1> QED
  BY <1>3

(* A sequence in front is put in front.                                    *)
LEMMA FlattenPrepend ==
  ASSUME NEW S, NEW x \in Seq(S), NEW s \in Seq(Seq(S))
  PROVE  FlattenSeq(<<x>> \o s) = x \o FlattenSeq(s)
<1> DEFINE T == {u \in Seq(Seq(S)) : FlattenSeq(<<x>> \o u) = x \o FlattenSeq(u)}
<1>1. <<>> \in T
  <2>1. /\ <<x>> \o <<>> = Append(<<>>, x) /\ <<>> \o x = x /\ x \o <<>> = x
        /\ <<>> \in Seq(Seq(S))
    OBVIOUS
  <2>2. FlattenSeq(Append(<<>>, x)) = FlattenSeq(<<>>) \o x
    BY <2>1, FlattenAppend
  <2> QED
    BY <2>1, <2>2, FlattenEmpty
<1>2. ASSUME NEW u \in Seq(Seq(S)), NEW y \in Seq(S), u \in T
      PROVE  Append(u, y) \in T
  <2>1. <<x>> \o Append(u, y) = Append(<<x>> \o u, y) /\ <<x>> \o u \in Seq(Seq(S))
    OBVIOUS
  <2>2. FlattenSeq(Append(<<x>> \o u, y)) = FlattenSeq(<<x>> \o u) \o y
    BY <2>1, FlattenAppend
  <2>3. FlattenSeq(Append(u, y)) = FlattenSeq(u) \o y /\ FlattenSeq(u) \in Seq(S)
    BY FlattenAppend, FlattenType
  <2>4. (x \o FlattenSeq(u)) \o y = x \o (FlattenSeq(u) \o y)
    BY <2>3
  <2>5. Append(u, y) \in Seq(Seq(S))
    OBVIOUS
  <2> QED
    BY <1>2, <2>1, <2>2, <2>3, <2>4, <2>5
<1>3. Seq(Seq(S)) \subseteq T
  <2> HIDE DEF T
  <2> QED
    BY <1>1, <1>2, SeqSetInduction
<1> QED
  BY <1>3

(* Taking off the first sequence.                                          *)
LEMMA FlattenHeadTail ==
  ASSUME NEW S, NEW s \in Seq(Seq(S)), s # <<>>
  PROVE  FlattenSeq(s) = s[1] \o FlattenSeq(Tail(s))
<1>1. s[1] \in Seq(S) /\ Tail(s) \in Seq(Seq(S)) /\ s = <<s[1]>> \o Tail(s)
  OBVIOUS
<1>2. FlattenSeq(<<s[1]>> \o Tail(s)) = s[1] \o FlattenSeq(Tail(s))
  BY <1>1, FlattenPrepend
<1> QED
  BY <1>1, <1>2

(* The same behind another sequence, which is what is in the file.         *)
LEMMA FlattenMore ==
  ASSUME NEW S, NEW f \in Seq(S), NEW s \in Seq(Seq(S)), NEW x \in Seq(S)
  PROVE  f \o FlattenSeq(Append(s, x)) = (f \o FlattenSeq(s)) \o x
<1>1. FlattenSeq(s) \in Seq(S)
  BY FlattenType
<1>2. (f \o FlattenSeq(s)) \o x = f \o (FlattenSeq(s) \o x)
  BY <1>1
<1>3. FlattenSeq(Append(s, x)) = FlattenSeq(s) \o x
  BY FlattenAppend
<1> QED
  BY <1>2, <1>3

(* Writing the first sequence behind it.                                   *)
LEMMA FlattenLess ==
  ASSUME NEW S, NEW f \in Seq(S), NEW s \in Seq(Seq(S)), s # <<>>
  PROVE  f \o FlattenSeq(s) = (f \o s[1]) \o FlattenSeq(Tail(s))
<1>1. s[1] \in Seq(S) /\ Tail(s) \in Seq(Seq(S))
  OBVIOUS
<1>2. FlattenSeq(Tail(s)) \in Seq(S)
  BY <1>1, FlattenType
<1>3. (f \o s[1]) \o FlattenSeq(Tail(s)) = f \o (s[1] \o FlattenSeq(Tail(s)))
  <2> DEFINE x == s[1]
             r == FlattenSeq(Tail(s))
  <2>1. x \in Seq(S) /\ r \in Seq(S)
    BY <1>1, <1>2
  <2> HIDE DEF x, r
  <2>2. (f \o x) \o r = f \o (x \o r)
    BY <2>1
  <2> QED
    BY <2>2 DEF x, r
<1>4. FlattenSeq(s) = s[1] \o FlattenSeq(Tail(s))
  BY FlattenHeadTail
<1> QED
  BY <1>3, <1>4
=============================================================================
