------------------------- MODULE SequenceParts_proofs -------------------------
(***************************************************************************)
(* What the recursive functions of the specifications compute.  The        *)
(* induction theorems of the library take a predicate as a parameter; the  *)
(* argument here is the least counterexample, which is first-order.        *)
(***************************************************************************)
EXTENDS SequenceParts, SequenceTheorems, WellFoundedInduction, TLAPS

LEMMA LeastNumber ==
  ASSUME NEW T \in SUBSET Nat, T # {}
  PROVE  \E n \in T : \A m \in T : n <= m
<1> DEFINE R == OpToRel(<, Nat)
<1>1. IsWellFoundedOn(R, Nat)
  BY NatLessThanWellFounded
<1>2. PICK n \in T : \A m \in T : ~(<<m, n>> \in R)
  BY <1>1, WFMin
<1>3. \A m \in T : m < n => <<m, n>> \in R
  BY DEF OpToRel
<1>4. \A m \in T : ~(m < n)
  BY <1>2, <1>3
<1> HIDE DEF R
<1> QED BY <1>4

-----------------------------------------------------------------------------
(* Functions defined by recursion on 0 .. n, with a table of steps.        *)

Unfolds(f, n, first, step) ==
  /\ f[0] = first
  /\ \A k \in 1 .. n : f[k] = step[k][f[k - 1]]

(* There is such a function.                                               *)
LEMMA RecursionExists ==
  ASSUME NEW n \in Nat, NEW V, NEW first \in V, NEW step \in [1 .. n -> [V -> V]]
  PROVE  \E f \in [0 .. n -> V] : Unfolds(f, n, first, step)
<1> DEFINE Missing == {m \in 0 .. n : ~ \E f \in [0 .. m -> V] : Unfolds(f, m, first, step)}
<1>1. ASSUME Missing # {} PROVE FALSE
  <2>1. PICK m \in Missing : \A k \in Missing : m <= k
    <3>1. Missing \in SUBSET Nat
      OBVIOUS
    <3> QED BY <1>1, <3>1, LeastNumber
  <2>2. m # 0
    <3> DEFINE g == [i \in 0 .. 0 |-> first]
    <3>1. g \in [0 .. 0 -> V] /\ Unfolds(g, 0, first, step)
      BY DEF Unfolds
    <3> QED BY <3>1
  <2>3. m - 1 \in 0 .. n /\ m - 1 \notin Missing
    BY <2>1, <2>2
  <2>4. PICK f \in [0 .. m - 1 -> V] : Unfolds(f, m - 1, first, step)
    BY <2>3
  <2> DEFINE g == [i \in 0 .. m |-> IF i = m THEN step[m][f[m - 1]] ELSE f[i]]
  <2>5. m \in 1 .. n /\ step[m] \in [V -> V] /\ f[m - 1] \in V
    BY <2>1, <2>2
  <2>6. g \in [0 .. m -> V]
    BY <2>5
  <2>7. Unfolds(g, m, first, step)
    BY <2>4, <2>5 DEF Unfolds
  <2> QED BY <2>1, <2>6, <2>7
<1> QED BY <1>1

(* It is unique, also as the beginning of a longer one.                    *)
LEMMA RecursionUnique ==
  ASSUME NEW n \in Nat, NEW first, NEW step, NEW f, NEW g,
         Unfolds(f, n, first, step), Unfolds(g, n, first, step)
  PROVE  \A k \in 0 .. n : f[k] = g[k]
<1> DEFINE Differs == {k \in 0 .. n : f[k] # g[k]}
<1>1. ASSUME Differs # {} PROVE FALSE
  <2>1. PICK k \in Differs : \A j \in Differs : k <= j
    <3>1. Differs \in SUBSET Nat
      OBVIOUS
    <3> QED BY <1>1, <3>1, LeastNumber
  <2>2. k # 0
    BY <2>1 DEF Unfolds
  <2>3. k - 1 \in 0 .. n /\ f[k - 1] = g[k - 1]
    BY <2>1, <2>2
  <2> QED BY <2>1, <2>2, <2>3 DEF Unfolds
<1> QED BY <1>1

-----------------------------------------------------------------------------
(* Part.                                                                   *)

IsPart(f, s, I) ==
  f = [i \in 0 .. Len(s) |-> IF i = 0 THEN <<>>
                             ELSE IF i \in I THEN Append(f[i - 1], s[i]) ELSE f[i - 1]]

PartStep(X, s, I) ==
  [k \in 1 .. Len(s) |-> [v \in Seq(X) |-> IF k \in I THEN Append(v, s[k]) ELSE v]]

(* f builds the part up, entry by entry.                                  *)
Builds(f, X, s, I) ==
  /\ Part(s, I) = f[Len(s)]
  /\ Unfolds(f, Len(s), <<>>, PartStep(X, s, I))
  /\ \A k \in 1 .. Len(s) : f[k] = IF k \in I THEN Append(f[k - 1], s[k]) ELSE f[k - 1]

LEMMA PartFunction ==
  ASSUME NEW X, NEW s \in Seq(X), NEW I
  PROVE  \E f \in [0 .. Len(s) -> Seq(X)] : Builds(f, X, s, I)
<1> DEFINE step == PartStep(X, s, I)
<1>0. Len(s) \in Nat /\ \A k \in 1 .. Len(s) : s[k] \in X
  OBVIOUS
<1>1. step \in [1 .. Len(s) -> [Seq(X) -> Seq(X)]]
  BY <1>0 DEF PartStep
<1>2. PICK f \in [0 .. Len(s) -> Seq(X)] : Unfolds(f, Len(s), <<>>, step)
  <2>1. <<>> \in Seq(X)
    OBVIOUS
  <2> HIDE DEF step
  <2> QED BY <1>0, <1>1, <2>1, RecursionExists
<1>3. \A k \in 1 .. Len(s) : f[k] = IF k \in I THEN Append(f[k - 1], s[k]) ELSE f[k - 1]
  <2> SUFFICES ASSUME NEW k \in 1 .. Len(s)
               PROVE  f[k] = IF k \in I THEN Append(f[k - 1], s[k]) ELSE f[k - 1]
    OBVIOUS
  <2>1. f[k - 1] \in Seq(X)
    BY <1>0
  <2> QED BY <1>2, <2>1 DEF Unfolds, PartStep
<1>4. IsPart(f, s, I)
  <2> DEFINE e(i) == IF i = 0 THEN <<>> ELSE IF i \in I THEN Append(f[i - 1], s[i]) ELSE f[i - 1]
  <2>1. \A i \in 0 .. Len(s) : f[i] = e(i)
    <3>1. f[0] = <<>>
      BY <1>2 DEF Unfolds
    <3>2. ASSUME NEW i \in 0 .. Len(s), i # 0 PROVE f[i] = e(i)
      <4>1. i \in 1 .. Len(s)
        BY <1>0, <3>2
      <4> QED BY <1>3, <3>2, <4>1
    <3> QED BY <3>1, <3>2
  <2>2. f = [i \in 0 .. Len(s) |-> f[i]]
    OBVIOUS
  <2>3. f = [i \in 0 .. Len(s) |-> e(i)]
    <3> HIDE DEF e
    <3> QED BY <2>1, <2>2
  <2> QED BY <2>3 DEF IsPart
<1> DEFINE h == CHOOSE g : IsPart(g, s, I)
<1>5. IsPart(h, s, I)
  BY <1>4
<1>6. Part(s, I) = h[Len(s)]
  BY DEF Part, IsPart
<1>7. h[Len(s)] = f[Len(s)]
  <2>1. \A k \in 0 .. Len(s) : h[k] = IF k = 0 THEN <<>>
                             ELSE IF k \in I THEN Append(h[k - 1], s[k]) ELSE h[k - 1]
    BY <1>5 DEF IsPart
  <2> HIDE DEF h
  <2> DEFINE Differs == {k \in 0 .. Len(s) : h[k] # f[k]}
  <2>2. ASSUME Differs # {} PROVE FALSE
    <3>1. PICK k \in Differs : \A j \in Differs : k <= j
      <4>1. Differs \in SUBSET Nat
        BY <1>0
      <4> QED BY <2>2, <4>1, LeastNumber
    <3>2. k # 0
      BY <1>2, <2>1, <3>1 DEF Unfolds
    <3>3. k - 1 \in 0 .. Len(s) /\ h[k - 1] = f[k - 1]
      BY <1>0, <3>1, <3>2
    <3> QED BY <1>0, <1>3, <2>1, <3>1, <3>2, <3>3
  <2> QED BY <1>0, <2>2
<1> QED BY <1>2, <1>3, <1>6, <1>7 DEF Builds

(* Whatever satisfies the equations of the recursion computes the part.    *)
LEMMA PartComputed ==
  ASSUME NEW X, NEW s \in Seq(X), NEW I, NEW f, f[0] = <<>>,
         \A k \in 0 .. Len(s) : f[k] \in Seq(X),
         \A k \in 1 .. Len(s) : f[k] = IF k \in I THEN Append(f[k - 1], s[k]) ELSE f[k - 1]
  PROVE  Part(s, I) = f[Len(s)]
<1>0. Len(s) \in Nat
  OBVIOUS
<1>1. PICK h \in [0 .. Len(s) -> Seq(X)] :
        Part(s, I) = h[Len(s)] /\ Unfolds(h, Len(s), <<>>, PartStep(X, s, I))
  BY PartFunction DEF Builds
<1>2. Unfolds(f, Len(s), <<>>, PartStep(X, s, I))
  <2>1. ASSUME NEW k \in 1 .. Len(s) PROVE f[k] = PartStep(X, s, I)[k][f[k - 1]]
    <3>1. f[k - 1] \in Seq(X)
      BY <1>0
    <3> QED BY <3>1 DEF PartStep
  <2> QED BY <2>1 DEF Unfolds
<1> QED BY <1>0, <1>1, <1>2, RecursionUnique

LEMMA PartType ==
  ASSUME NEW X, NEW s \in Seq(X), NEW I PROVE Part(s, I) \in Seq(X)
<1>0. Len(s) \in Nat
  OBVIOUS
<1>1. PICK f \in [0 .. Len(s) -> Seq(X)] : Builds(f, X, s, I)
  BY PartFunction
<1> QED BY <1>0, <1>1 DEF Builds

(* What an entry at the end adds.                                          *)
LEMMA PartOfAppend ==
  ASSUME NEW X, NEW s \in Seq(X), NEW e \in X, NEW I, NEW J,
         \A k \in 1 .. Len(s) : k \in I <=> k \in J
  PROVE  Part(Append(s, e), J) = IF Len(s) + 1 \in J THEN Append(Part(s, I), e) ELSE Part(s, I)
<1> DEFINE t == Append(s, e)
<1>0. /\ t \in Seq(X) /\ Len(s) \in Nat /\ Len(t) = Len(s) + 1
      /\ t[Len(s) + 1] = e /\ \A k \in 1 .. Len(s) : t[k] = s[k]
  BY AppendProperties
<1> HIDE DEF t
<1>f. PICK f \in [0 .. Len(t) -> Seq(X)] : Builds(f, X, t, J)
  BY <1>0, PartFunction
<1>1. /\ Part(t, J) = f[Len(t)]
      /\ Unfolds(f, Len(t), <<>>, PartStep(X, t, J))
      /\ \A k \in 1 .. Len(t) : f[k] = IF k \in J THEN Append(f[k - 1], t[k]) ELSE f[k - 1]
  BY <1>f DEF Builds
<1>2. f[0] = <<>> /\ \A k \in 0 .. Len(s) : f[k] \in Seq(X)
  BY <1>0, <1>1 DEF Unfolds
<1>3. \A k \in 1 .. Len(s) : f[k] = IF k \in I THEN Append(f[k - 1], s[k]) ELSE f[k - 1]
  BY <1>0, <1>1
<1>4. Part(s, I) = f[Len(s)]
  BY <1>2, <1>3, PartComputed
<1>5. f[Len(t)] = IF Len(s) + 1 \in J THEN Append(f[Len(s)], e) ELSE f[Len(s)]
  <2>1. Len(t) \in 1 .. Len(t) /\ Len(t) - 1 = Len(s)
    BY <1>0
  <2> QED BY <1>0, <1>1, <2>1
<1> QED BY <1>1, <1>4, <1>5 DEF t

(* Only the indices of the sequence matter, and the entries at them.       *)
LEMMA PartSame ==
  ASSUME NEW X, NEW s \in Seq(X), NEW t \in Seq(X), NEW I, NEW J, Len(s) = Len(t),
         \A k \in 1 .. Len(s) : (k \in I <=> k \in J) /\ (k \in I => s[k] = t[k])
  PROVE  Part(s, I) = Part(t, J)
<1>0. Len(s) \in Nat
  OBVIOUS
<1>f. PICK f \in [0 .. Len(t) -> Seq(X)] : Builds(f, X, t, J)
  BY <1>0, PartFunction
<1>1. /\ Part(t, J) = f[Len(t)]
      /\ Unfolds(f, Len(t), <<>>, PartStep(X, t, J))
      /\ \A k \in 1 .. Len(t) : f[k] = IF k \in J THEN Append(f[k - 1], t[k]) ELSE f[k - 1]
  BY <1>f DEF Builds
<1>2. f[0] = <<>> /\ \A k \in 0 .. Len(s) : f[k] \in Seq(X)
  BY <1>0, <1>1 DEF Unfolds
<1>3. \A k \in 1 .. Len(s) : f[k] = IF k \in I THEN Append(f[k - 1], s[k]) ELSE f[k - 1]
  BY <1>0, <1>1
<1>4. Part(s, I) = f[Len(s)]
  BY <1>2, <1>3, PartComputed
<1> QED BY <1>1, <1>4

(* The last entry of a part is at the largest of its indices.              *)
LEMMA PartLast ==
  ASSUME NEW X, NEW s \in Seq(X), NEW I, NEW i \in 1 .. Len(s), i \in I,
         \A k \in i + 1 .. Len(s) : k \notin I
  PROVE  Part(s, I) # <<>> /\ Part(s, I)[Len(Part(s, I))] = s[i]
<1>0. Len(s) \in Nat /\ s[i] \in X
  OBVIOUS
<1>f. PICK f \in [0 .. Len(s) -> Seq(X)] : Builds(f, X, s, I)
  BY <1>0, PartFunction
<1>1. /\ Part(s, I) = f[Len(s)]
      /\ Unfolds(f, Len(s), <<>>, PartStep(X, s, I))
      /\ \A k \in 1 .. Len(s) : f[k] = IF k \in I THEN Append(f[k - 1], s[k]) ELSE f[k - 1]
  BY <1>f DEF Builds
<1> DEFINE Differs == {k \in i .. Len(s) : f[k] # f[i]}
<1>2. ASSUME Differs # {} PROVE FALSE
  <2>1. PICK k \in Differs : \A j \in Differs : k <= j
    <3>1. Differs \in SUBSET Nat
      BY <1>0
    <3> QED BY <1>2, <3>1, LeastNumber
  <2>2. k # i /\ k \in i + 1 .. Len(s)
    BY <1>0, <2>1
  <2>3. k - 1 \in i .. Len(s) /\ f[k - 1] = f[i]
    BY <1>0, <2>1, <2>2
  <2> QED BY <1>0, <1>1, <2>1, <2>2, <2>3
<1>3. f[Len(s)] = f[i]
  BY <1>0, <1>2
<1>4. f[i] = Append(f[i - 1], s[i]) /\ f[i - 1] \in Seq(X)
  <2>1. i - 1 \in 0 .. Len(s)
    BY <1>0
  <2> QED BY <1>1, <2>1
<1> QED BY <1>0, <1>1, <1>3, <1>4, AppendProperties

LEMMA PartNone ==
  ASSUME NEW X, NEW s \in Seq(X), NEW I, \A k \in 1 .. Len(s) : k \notin I
  PROVE  Part(s, I) = <<>>
<1> DEFINE f == [k \in 0 .. Len(s) |-> <<>>]
<1>0. Len(s) \in Nat /\ <<>> \in Seq(X)
  OBVIOUS
<1>1. f[0] = <<>> /\ (\A k \in 0 .. Len(s) : f[k] \in Seq(X)) /\ f[Len(s)] = <<>>
  BY <1>0
<1>2. \A k \in 1 .. Len(s) : f[k] = IF k \in I THEN Append(f[k - 1], s[k]) ELSE f[k - 1]
  BY <1>0
<1> HIDE DEF f
<1> QED BY <1>1, <1>2, PartComputed

(* t is s without some of its entries: g says where each entry of t was.   *)
Thins(t, s, I, g) ==
  /\ g \in [1 .. Len(t) -> 1 .. Len(s)]
  /\ \A k, l \in 1 .. Len(t) : k < l => g[k] < g[l]
  /\ \A k \in 1 .. Len(t) : t[k] = s[g[k]] /\ g[k] \in I
  /\ \A m \in 1 .. Len(s) : m \in I => \E k \in 1 .. Len(t) : g[k] = m

LEMMA PartThins ==
  ASSUME NEW X, NEW s \in Seq(X), NEW I
  PROVE  \E g : Thins(Part(s, I), s, I, g)
<1>0. Len(s) \in Nat /\ \A k \in 1 .. Len(s) : s[k] \in X
  OBVIOUS
<1>f. PICK f \in [0 .. Len(s) -> Seq(X)] : Builds(f, X, s, I)
  BY <1>0, PartFunction
<1>1. /\ Part(s, I) = f[Len(s)]
      /\ Unfolds(f, Len(s), <<>>, PartStep(X, s, I))
      /\ \A k \in 1 .. Len(s) : f[k] = IF k \in I THEN Append(f[k - 1], s[k]) ELSE f[k - 1]
  BY <1>f DEF Builds
<1> DEFINE From(t, n, g) ==
             /\ g \in [1 .. Len(t) -> 1 .. n]
             /\ \A k, l \in 1 .. Len(t) : k < l => g[k] < g[l]
             /\ \A k \in 1 .. Len(t) : t[k] = s[g[k]] /\ g[k] \in I
             /\ \A m \in 1 .. n : m \in I => \E k \in 1 .. Len(t) : g[k] = m
           Missing == {n \in 0 .. Len(s) : ~ \E g : From(f[n], n, g)}
<1>2. ASSUME Missing # {} PROVE FALSE
  <2>1. PICK n \in Missing : \A j \in Missing : n <= j
    <3>1. Missing \in SUBSET Nat
      BY <1>0
    <3> QED BY <1>2, <3>1, LeastNumber
  <2>2. n # 0
    <3>1. f[0] = <<>>
      BY <1>1 DEF Unfolds
    <3>2. From(<<>>, 0, <<>>)
      OBVIOUS
    <3> QED BY <2>1, <3>1, <3>2
  <2>3. n \in 1 .. Len(s) /\ n - 1 \in 0 .. Len(s) /\ n \in Nat /\ \E g : From(f[n - 1], n - 1, g)
    <3> HIDE DEF From
    <3>1. n \in 0 .. Len(s)
      BY <2>1
    <3>2. n \in 1 .. Len(s) /\ n - 1 \in 0 .. Len(s) /\ n \in Nat /\ ~(n <= n - 1)
      BY <1>0, <2>2, <3>1
    <3>3. n - 1 \notin Missing
      <4> HIDE DEF Missing
      <4> QED BY <2>1, <3>2
    <3> QED BY <3>2, <3>3
  <2> DEFINE t == f[n - 1]
             u == f[n]
  <2>4. PICK g : From(t, n - 1, g)
    BY <2>3
  <2>5. t \in Seq(X) /\ Len(t) \in Nat /\ s[n] \in X
    <3> HIDE DEF From, Missing
    <3>1. t \in Seq(X)
      BY <1>1, <2>3
    <3> QED BY <1>0, <2>3, <3>1, LenProperties
  <2>6. CASE n \notin I
    <3>1. u = t
      BY <1>1, <2>3, <2>6
    <3>2. From(u, n, g)
      <4> HIDE DEF t, u
      <4>1. \A m \in 1 .. n : m \in I => m \in 1 .. n - 1
        BY <2>3, <2>6
      <4> QED BY <2>3, <2>4, <2>5, <3>1, <4>1
    <3> QED BY <2>1, <3>2
  <2>7. CASE n \in I
    <3>1. u = Append(t, s[n])
      BY <1>1, <2>3, <2>7
    <3> HIDE DEF t, u
    <3>2. Len(u) = Len(t) + 1 /\ u[Len(t) + 1] = s[n] /\ \A k \in 1 .. Len(t) : u[k] = t[k]
      BY <2>5, <3>1
    <3> DEFINE h == [k \in 1 .. Len(u) |-> IF k = Len(u) THEN n ELSE g[k]]
    <3>3. \A k \in 1 .. Len(t) : h[k] = g[k] /\ g[k] \in 1 .. n - 1
      BY <2>4, <2>5, <3>2
    <3>4. h[Len(t) + 1] = n
      BY <2>5, <3>2
    <3>5. \A k \in 1 .. Len(u) : k \in 1 .. Len(t) \/ k = Len(t) + 1
      BY <2>5, <3>2
    <3>6. h \in [1 .. Len(u) -> 1 .. n]
      <4>1. \A k \in 1 .. Len(u) : h[k] \in 1 .. n
        <5> HIDE DEF h
        <5>1. \A k \in 1 .. Len(t) : h[k] \in 1 .. n
          BY <2>3, <3>3
        <5> QED BY <2>3, <3>4, <3>5, <5>1
      <4> QED BY <4>1
    <3> HIDE DEF h
    <3>7. \A k, l \in 1 .. Len(u) : k < l => h[k] < h[l]
      <4> SUFFICES ASSUME NEW k \in 1 .. Len(u), NEW l \in 1 .. Len(u), k < l PROVE h[k] < h[l]
        OBVIOUS
      <4>1. k \in 1 .. Len(t) /\ h[k] = g[k] /\ g[k] \in 1 .. n - 1
        BY <2>5, <3>2, <3>3, <3>5
      <4>2. CASE l \in 1 .. Len(t)
        BY <2>4, <3>3, <4>1, <4>2
      <4>3. CASE l = Len(t) + 1
        BY <2>3, <3>4, <4>1, <4>3
      <4> QED BY <3>5, <4>2, <4>3
    <3>8. \A k \in 1 .. Len(u) : u[k] = s[h[k]] /\ h[k] \in I
      BY <2>4, <2>7, <3>2, <3>3, <3>4, <3>5
    <3>9. \A m \in 1 .. n : m \in I => \E k \in 1 .. Len(u) : h[k] = m
      <4> SUFFICES ASSUME NEW m \in 1 .. n, m \in I PROVE \E k \in 1 .. Len(u) : h[k] = m
        OBVIOUS
      <4>1. CASE m = n
        <5>1. Len(t) + 1 \in 1 .. Len(u)
          BY <2>5, <3>2
        <5> QED BY <3>4, <4>1, <5>1
      <4>2. CASE m # n
        <5>1. m \in 1 .. n - 1
          BY <2>3, <4>2
        <5>2. PICK k \in 1 .. Len(t) : g[k] = m
          BY <2>4, <5>1
        <5> QED BY <2>5, <3>2, <3>3, <5>2
      <4> QED BY <4>1, <4>2
    <3>10. From(u, n, h)
      BY <3>6, <3>7, <3>8, <3>9
    <3> QED BY <2>1, <3>10 DEF u
  <2> QED BY <2>6, <2>7
<1>3. PICK g : From(f[Len(s)], Len(s), g)
  <2> HIDE DEF From
  <2>1. Len(s) \in 0 .. Len(s)
    BY <1>0
  <2> QED BY <1>2, <2>1
<1> QED BY <1>1, <1>3 DEF Thins

(* Without one entry, the others move up.                                  *)
LEMMA PartWithout ==
  ASSUME NEW X, NEW s \in Seq(X), NEW m \in 1 .. Len(s)
  PROVE  Part(s, DOMAIN s \ {m}) = [k \in 1 .. Len(s) - 1 |-> IF k < m THEN s[k] ELSE s[k + 1]]
<1>0. Len(s) \in Nat /\ DOMAIN s = 1 .. Len(s) /\ m \in Nat /\ \A k \in 1 .. Len(s) : s[k] \in X
  OBVIOUS
<1> DEFINE Size(k) == IF k < m THEN k ELSE k - 1
           f == [k \in 0 .. Len(s) |-> [j \in 1 .. Size(k) |-> IF j < m THEN s[j] ELSE s[j + 1]]]
<1>1. \A k \in 0 .. Len(s) : f[k] \in Seq(X) /\ Len(f[k]) = Size(k)
  <2> SUFFICES ASSUME NEW k \in 0 .. Len(s) PROVE f[k] \in Seq(X) /\ Len(f[k]) = Size(k)
    OBVIOUS
  <2>1. Size(k) \in Nat /\ \A j \in 1 .. Size(k) : (IF j < m THEN s[j] ELSE s[j + 1]) \in X
    BY <1>0
  <2>2. f[k] \in [1 .. Size(k) -> X]
    BY <2>1
  <2> HIDE DEF f, Size
  <2>3. f[k] \in Seq(X)
    BY <2>1, <2>2
  <2> QED BY <2>1, <2>2, <2>3, LenProperties
<1>2. f[0] = << >>
  <2>1. f[0] = [j \in 1 .. Size(0) |-> IF j < m THEN s[j] ELSE s[j + 1]] /\ Size(0) = 0
    BY <1>0
  <2>2. f[0] \in Seq(X) /\ Len(f[0]) = 0
    BY <1>0, <1>1, <2>1
  <2> HIDE DEF f
  <2> QED BY <2>2, EmptySeq
<1>3. ASSUME NEW k \in 1 .. Len(s)
      PROVE  f[k] = IF k \in DOMAIN s \ {m} THEN Append(f[k - 1], s[k]) ELSE f[k - 1]
  <2>1. CASE k = m
    BY <1>0, <2>1
  <2>2. CASE k # m
    <3>1. /\ k - 1 \in 0 .. Len(s) /\ k \in 0 .. Len(s)
          /\ Size(k) = Size(k - 1) + 1 /\ Size(k) \in Nat /\ Size(k - 1) \in Nat
      BY <1>0, <2>2
    <3>2. /\ f[k] = [j \in 1 .. Size(k) |-> IF j < m THEN s[j] ELSE s[j + 1]]
          /\ \A j \in 1 .. Size(k - 1) : f[k - 1][j] = IF j < m THEN s[j] ELSE s[j + 1]
      BY <3>1
    <3>3. s[k] = IF Size(k) < m THEN s[Size(k)] ELSE s[Size(k) + 1]
      BY <1>0, <2>2
    <3>4. f[k - 1] \in Seq(X) /\ Len(f[k - 1]) = Size(k - 1) /\ f[k] \in Seq(X) /\ Len(f[k]) = Size(k)
      BY <1>1, <3>1
    <3> HIDE DEF f, Size
    <3> DEFINE a == Append(f[k - 1], s[k])
    <3>5. /\ a \in Seq(X) /\ Len(a) = Size(k) /\ a[Size(k)] = s[k]
          /\ \A j \in 1 .. Size(k - 1) : a[j] = f[k - 1][j]
      BY <1>0, <3>1, <3>4, AppendProperties
    <3> HIDE DEF a
    <3>6. ASSUME NEW j \in 1 .. Size(k) PROVE a[j] = f[k][j]
      <4>1. f[k][j] = IF j < m THEN s[j] ELSE s[j + 1]
        BY <3>2
      <4>2. CASE j = Size(k)
        BY <3>3, <3>5, <4>1, <4>2
      <4>3. CASE j # Size(k)
        <5>1. j \in 1 .. Size(k - 1)
          BY <3>1, <4>3
        <5> QED BY <3>2, <3>5, <4>1, <5>1
      <4> QED BY <4>2, <4>3
    <3>7. f[k] = a
      BY <3>4, <3>5, <3>6, SeqEqual
    <3> QED BY <1>0, <2>2, <3>7 DEF a
  <2> QED BY <2>1, <2>2
<1>4. f[Len(s)] = [k \in 1 .. Len(s) - 1 |-> IF k < m THEN s[k] ELSE s[k + 1]]
  <2>0. Len(s) \in Nat /\ m \in 1 .. Len(s)
    BY <1>0
  <2>1. Len(s) \in 0 .. Len(s) /\ Size(Len(s)) = Len(s) - 1
    BY <2>0
  <2>2. f[Len(s)] = [k \in 1 .. Size(Len(s)) |-> IF k < m THEN s[k] ELSE s[k + 1]]
    BY <2>1
  <2> HIDE DEF f, Size
  <2> QED BY <2>1, <2>2
<1>5. Part(s, DOMAIN s \ {m}) = f[Len(s)]
  <2> DEFINE I == DOMAIN s \ {m}
  <2> HIDE DEF f
  <2>1. \A k \in 0 .. Len(s) : f[k] \in Seq(X)
    BY <1>1
  <2>2. \A k \in 1 .. Len(s) : f[k] = IF k \in I THEN Append(f[k - 1], s[k]) ELSE f[k - 1]
    BY <1>3
  <2> HIDE DEF I
  <2>3. Part(s, I) = f[Len(s)]
    BY <1>2, <2>1, <2>2, PartComputed
  <2> QED BY <2>3 DEF I
<1> QED BY <1>4, <1>5

(* A set of indices that is not empty has a largest one.                   *)
LEMMA LargestIndex ==
  ASSUME NEW n \in Nat, NEW I \in SUBSET (1 .. n), I # {}
  PROVE  \E i \in I : \A k \in i + 1 .. n : k \notin I
<1> DEFINE T == {n - i : i \in I}
<1>1. T \in SUBSET Nat /\ T # {}
  <2>1. \A i \in I : i \in 1 .. n /\ n - i \in Nat
    OBVIOUS
  <2>2. PICK i \in I : TRUE
    OBVIOUS
  <2>3. n - i \in T
    OBVIOUS
  <2> QED BY <2>1, <2>3
<1>2. PICK m \in T : \A j \in T : m <= j
  BY <1>1, LeastNumber
<1>3. PICK i \in I : m = n - i
  BY <1>2
<1>4. ASSUME NEW k \in i + 1 .. n, k \in I PROVE FALSE
  <2>1. n - k \in T /\ k \in Int /\ i \in 1 .. n
    BY <1>4
  <2>2. n - i <= n - k
    BY <1>2, <1>3, <2>1
  <2> QED BY <2>1, <2>2
<1> QED BY <1>4

-----------------------------------------------------------------------------
(* Times.                                                                  *)

(* What holds of the empty sequence and is preserved by one more s.        *)
LEMMA TimesIn ==
  ASSUME NEW n \in Nat, NEW s, NEW S, <<>> \in S, \A t \in S : t \o s \in S
  PROVE  Times(n, s) \in S
<1> DEFINE step == [k \in 1 .. n |-> [v \in S |-> v \o s]]
           times[i \in 0 .. n] == IF i = 0 THEN <<>> ELSE times[i - 1] \o s
<1>1. step \in [1 .. n -> [S -> S]]
  OBVIOUS
<1>2. PICK f \in [0 .. n -> S] : Unfolds(f, n, <<>>, step)
  <2> HIDE DEF step
  <2> QED BY <1>1, RecursionExists
<1>3. \A i \in 0 .. n : f[i] = IF i = 0 THEN <<>> ELSE f[i - 1] \o s
  <2> SUFFICES ASSUME NEW i \in 0 .. n, i # 0 PROVE f[i] = f[i - 1] \o s
    BY <1>2 DEF Unfolds
  <2>1. i \in 1 .. n /\ f[i - 1] \in S
    OBVIOUS
  <2> QED BY <1>2, <2>1 DEF Unfolds
<1>4. f = [i \in 0 .. n |-> IF i = 0 THEN <<>> ELSE f[i - 1] \o s]
  BY <1>3
<1>5. times = [i \in 0 .. n |-> IF i = 0 THEN <<>> ELSE times[i - 1] \o s]
  BY <1>4
<1>6. times[0] = <<>> /\ \A i \in 1 .. n : times[i] = times[i - 1] \o s
  <2> HIDE DEF times
  <2>1. 0 \in 0 .. n /\ \A i \in 1 .. n : i \in 0 .. n /\ i # 0
    OBVIOUS
  <2>2. \A i \in 0 .. n : times[i] = IF i = 0 THEN <<>> ELSE times[i - 1] \o s
    BY <1>5
  <2> QED BY <2>1, <2>2
<1> DEFINE Outside == {i \in 0 .. n : times[i] \notin S}
<1> HIDE DEF times, step
<1>7. ASSUME Outside # {} PROVE FALSE
  <2>1. PICK i \in Outside : \A j \in Outside : i <= j
    <3>1. Outside \in SUBSET Nat
      OBVIOUS
    <3> QED BY <1>7, <3>1, LeastNumber
  <2>2. i # 0
    BY <1>6, <2>1
  <2>3. i - 1 \in 0 .. n /\ i \in 1 .. n /\ i - 1 < i
    BY <2>1, <2>2
  <2>4. times[i - 1] \in S
    BY <2>1, <2>3
  <2>5. times[i] \in S
    BY <1>6, <2>3, <2>4
  <2> QED BY <2>1, <2>5
<1>8. times[n] \in S
  BY <1>7
<1> QED BY <1>8 DEF Times, times

-----------------------------------------------------------------------------
(* Sequences as paths: T is a set of moves <<point, entry, point>>, and the*)
(* entries of s lead from a to b.                                          *)

Leads(T, s, a, b) ==
  \E h : /\ h[1] = a /\ h[Len(s) + 1] = b
         /\ \A k \in 1 .. Len(s) : <<h[k], s[k], h[k + 1]>> \in T

LEMMA LeadsNowhere == ASSUME NEW T, NEW a PROVE Leads(T, <<>>, a, a)
<1> DEFINE h == <<a>>
<1>1. h[1] = a /\ Len(<<>>) = 0
  OBVIOUS
<1> HIDE DEF h
<1> QED BY <1>1 DEF Leads

LEMMA LeadsOn ==
  ASSUME NEW X, NEW s \in Seq(X), NEW t \in Seq(X), NEW T, NEW a, NEW b, NEW c,
         Leads(T, s, a, b), Leads(T, t, b, c)
  PROVE  Leads(T, s \o t, a, c)
<1> DEFINE m == Len(s)
           n == Len(t)
           u == s \o t
<1>1. PICK g : g[1] = a /\ g[m + 1] = b /\ \A k \in 1 .. m : <<g[k], s[k], g[k + 1]>> \in T
  BY DEF Leads
<1>2. PICK h : h[1] = b /\ h[n + 1] = c /\ \A k \in 1 .. n : <<h[k], t[k], h[k + 1]>> \in T
  BY DEF Leads
<1>3. /\ m \in Nat /\ n \in Nat /\ Len(u) = m + n
      /\ \A k \in 1 .. m : u[k] = s[k]
      /\ \A k \in m + 1 .. m + n : u[k] = t[k - m]
  BY ConcatProperties
<1> DEFINE f == [k \in 1 .. m + n + 1 |-> IF k <= m THEN g[k] ELSE h[k - m]]
<1> HIDE DEF m, n, u
<1>4. \A k \in 1 .. m : f[k] = g[k] /\ f[k + 1] = g[k + 1]
  <2> SUFFICES ASSUME NEW k \in 1 .. m PROVE f[k] = g[k] /\ f[k + 1] = g[k + 1]
    OBVIOUS
  <2>1. k \in 1 .. m + n + 1 /\ k + 1 \in 1 .. m + n + 1
    BY <1>3
  <2>2. CASE k < m
    BY <1>3, <2>1, <2>2
  <2>3. CASE k = m
    <3>1. f[k + 1] = h[k + 1 - m] /\ k + 1 - m = 1 /\ f[k] = g[k]
      BY <1>3, <2>1, <2>3
    <3> QED BY <1>1, <1>2, <2>3, <3>1
  <2> QED BY <1>3, <2>2, <2>3
<1>5. \A k \in m + 1 .. m + n + 1 : \A j \in Int : j = k - m => f[k] = h[j]
  BY <1>3
<1>6. f[1] = a /\ f[m + n + 1] = c
  <2>1. m + n + 1 \in m + 1 .. m + n + 1 /\ n + 1 \in Int /\ n + 1 = m + n + 1 - m
    BY <1>3
  <2>2. f[m + n + 1] = c
    BY <1>2, <1>3, <1>5, <2>1
  <2>3. CASE m = 0
    <3>1. 1 \in m + 1 .. m + n + 1 /\ 1 = 1 - m
      BY <1>3, <2>3
    <3>2. f[1] = h[1]
      BY <1>3, <1>5, <3>1
    <3> QED BY <1>1, <1>2, <2>2, <2>3, <3>2
  <2>4. CASE m # 0
    <3>1. 1 \in 1 .. m
      BY <1>3, <2>4
    <3> QED BY <1>1, <1>4, <2>2, <3>1
  <2> QED BY <2>3, <2>4
<1> HIDE DEF f
<1>7. ASSUME NEW k \in 1 .. m + n PROVE <<f[k], u[k], f[k + 1]>> \in T
  <2>1. CASE k <= m
    <3>1. k \in 1 .. m
      BY <1>3, <2>1
    <3> QED BY <1>1, <1>3, <1>4, <3>1
  <2>2. CASE k > m
    <3>1. /\ k - m \in 1 .. n /\ k - m \in Int /\ k - m + 1 \in Int /\ k - m + 1 = k + 1 - m
          /\ k \in m + 1 .. m + n /\ k \in m + 1 .. m + n + 1 /\ k + 1 \in m + 1 .. m + n + 1
      BY <1>3, <2>2
    <3>2. f[k] = h[k - m] /\ f[k + 1] = h[k - m + 1]
      BY <1>3, <1>5, <3>1
    <3> QED BY <1>2, <1>3, <3>1, <3>2
  <2> QED BY <1>3, <2>1, <2>2
<1>8. Leads(T, u, a, c)
  BY <1>3, <1>6, <1>7 DEF Leads
<1> QED BY <1>8 DEF u

LEMMA LeadsOver ==
  ASSUME NEW X, NEW s \in Seq(X), NEW n \in Nat, NEW T, NEW a, Leads(T, s, a, a)
  PROVE  Times(n, s) \in Seq(X) /\ Leads(T, Times(n, s), a, a)
<1> DEFINE S == {t \in Seq(X) : Leads(T, t, a, a)}
<1>1. <<>> \in S
  BY LeadsNowhere
<1>2. \A t \in S : t \o s \in S
  BY LeadsOn, ConcatProperties
<1>3. Times(n, s) \in S
  <2> HIDE DEF S
  <2> QED BY <1>1, <1>2, TimesIn
<1> QED BY <1>3

LEMMA LeadsFirst ==
  ASSUME NEW X, NEW s \in Seq(X), s # <<>>, NEW T, NEW a, NEW b, Leads(T, s, a, b)
  PROVE  /\ Tail(s) \in Seq(X) /\ Head(s) \in X
         /\ \E c : <<a, Head(s), c>> \in T /\ Leads(T, Tail(s), c, b)
<1>1. PICK h : /\ h[1] = a /\ h[Len(s) + 1] = b
               /\ \A k \in 1 .. Len(s) : <<h[k], s[k], h[k + 1]>> \in T
  BY DEF Leads
<1>2. /\ Len(s) \in Nat \ {0} /\ Tail(s) \in Seq(X) /\ Len(Tail(s)) = Len(s) - 1
      /\ Head(s) = s[1] /\ s[1] \in X /\ \A k \in 1 .. Len(s) - 1 : Tail(s)[k] = s[k + 1]
  BY HeadTailProperties, EmptySeq, LenProperties
<1> DEFINE f == [k \in 1 .. Len(s) |-> h[k + 1]]
<1>3. f[1] = h[2] /\ f[Len(Tail(s)) + 1] = b
  BY <1>1, <1>2
<1>4. ASSUME NEW k \in 1 .. Len(Tail(s)) PROVE <<f[k], Tail(s)[k], f[k + 1]>> \in T
  <2>1. k + 1 \in 1 .. Len(s) /\ k \in 1 .. Len(s) /\ f[k] = h[k + 1] /\ f[k + 1] = h[k + 1 + 1]
    BY <1>2
  <2> QED BY <1>1, <1>2, <2>1
<1> HIDE DEF f
<1>5. Leads(T, Tail(s), h[2], b)
  BY <1>3, <1>4 DEF Leads
<1>6. <<a, Head(s), h[2]>> \in T
  BY <1>1, <1>2
<1> QED BY <1>2, <1>5, <1>6

(* Short paths, written out.                                               *)
LEMMA Leads1 ==
  ASSUME NEW T, NEW e1,
         NEW a0, NEW a1,
         <<a0, e1, a1>> \in T
  PROVE  Leads(T, <<e1>>, a0, a1)
<1> DEFINE s == <<e1>>
           h == <<a0, a1>>
<1>1. Len(s) = 1 /\ h[1] = a0 /\ h[Len(s) + 1] = a1
  OBVIOUS
<1>2. \A k \in 1 .. Len(s) : <<h[k], s[k], h[k + 1]>> \in T
  <2> SUFFICES ASSUME NEW k \in 1 .. Len(s) PROVE <<h[k], s[k], h[k + 1]>> \in T
    OBVIOUS
  <2>1. k = 1
    BY <1>1
  <2> QED BY <2>1
<1> HIDE DEF s, h
<1>3. Leads(T, s, a0, a1)
  BY <1>1, <1>2 DEF Leads
<1> QED BY <1>3 DEF s

LEMMA Leads2 ==
  ASSUME NEW T, NEW e1, NEW e2,
         NEW a0, NEW a1, NEW a2,
         <<a0, e1, a1>> \in T, <<a1, e2, a2>> \in T
  PROVE  Leads(T, <<e1, e2>>, a0, a2)
<1> DEFINE s == <<e1, e2>>
           h == <<a0, a1, a2>>
<1>1. Len(s) = 2 /\ h[1] = a0 /\ h[Len(s) + 1] = a2
  OBVIOUS
<1>2. \A k \in 1 .. Len(s) : <<h[k], s[k], h[k + 1]>> \in T
  <2> SUFFICES ASSUME NEW k \in 1 .. Len(s) PROVE <<h[k], s[k], h[k + 1]>> \in T
    OBVIOUS
  <2>1. k = 1 \/ k = 2
    BY <1>1
  <2> QED BY <2>1
<1> HIDE DEF s, h
<1>3. Leads(T, s, a0, a2)
  BY <1>1, <1>2 DEF Leads
<1> QED BY <1>3 DEF s

LEMMA Leads3 ==
  ASSUME NEW T, NEW e1, NEW e2, NEW e3,
         NEW a0, NEW a1, NEW a2, NEW a3,
         <<a0, e1, a1>> \in T, <<a1, e2, a2>> \in T, <<a2, e3, a3>> \in T
  PROVE  Leads(T, <<e1, e2, e3>>, a0, a3)
<1> DEFINE s == <<e1, e2, e3>>
           h == <<a0, a1, a2, a3>>
<1>1. Len(s) = 3 /\ h[1] = a0 /\ h[Len(s) + 1] = a3
  OBVIOUS
<1>2. \A k \in 1 .. Len(s) : <<h[k], s[k], h[k + 1]>> \in T
  <2> SUFFICES ASSUME NEW k \in 1 .. Len(s) PROVE <<h[k], s[k], h[k + 1]>> \in T
    OBVIOUS
  <2>1. k = 1 \/ k = 2 \/ k = 3
    BY <1>1
  <2> QED BY <2>1
<1> HIDE DEF s, h
<1>3. Leads(T, s, a0, a3)
  BY <1>1, <1>2 DEF Leads
<1> QED BY <1>3 DEF s

LEMMA Leads4 ==
  ASSUME NEW T, NEW e1, NEW e2, NEW e3, NEW e4,
         NEW a0, NEW a1, NEW a2, NEW a3, NEW a4,
         <<a0, e1, a1>> \in T, <<a1, e2, a2>> \in T, <<a2, e3, a3>> \in T, <<a3, e4, a4>> \in T
  PROVE  Leads(T, <<e1, e2, e3, e4>>, a0, a4)
<1> DEFINE s == <<e1, e2, e3, e4>>
           h == <<a0, a1, a2, a3, a4>>
<1>1. Len(s) = 4 /\ h[1] = a0 /\ h[Len(s) + 1] = a4
  OBVIOUS
<1>2. \A k \in 1 .. Len(s) : <<h[k], s[k], h[k + 1]>> \in T
  <2> SUFFICES ASSUME NEW k \in 1 .. Len(s) PROVE <<h[k], s[k], h[k + 1]>> \in T
    OBVIOUS
  <2>1. k = 1 \/ k = 2 \/ k = 3 \/ k = 4
    BY <1>1
  <2> QED BY <2>1
<1> HIDE DEF s, h
<1>3. Leads(T, s, a0, a4)
  BY <1>1, <1>2 DEF Leads
<1> QED BY <1>3 DEF s

LEMMA Leads5 ==
  ASSUME NEW T, NEW e1, NEW e2, NEW e3, NEW e4, NEW e5,
         NEW a0, NEW a1, NEW a2, NEW a3, NEW a4, NEW a5,
         <<a0, e1, a1>> \in T, <<a1, e2, a2>> \in T, <<a2, e3, a3>> \in T, <<a3, e4, a4>> \in T, <<a4, e5, a5>> \in T
  PROVE  Leads(T, <<e1, e2, e3, e4, e5>>, a0, a5)
<1> DEFINE s == <<e1, e2, e3, e4, e5>>
           h == <<a0, a1, a2, a3, a4, a5>>
<1>1. Len(s) = 5 /\ h[1] = a0 /\ h[Len(s) + 1] = a5
  OBVIOUS
<1>2. \A k \in 1 .. Len(s) : <<h[k], s[k], h[k + 1]>> \in T
  <2> SUFFICES ASSUME NEW k \in 1 .. Len(s) PROVE <<h[k], s[k], h[k + 1]>> \in T
    OBVIOUS
  <2>1. k = 1 \/ k = 2 \/ k = 3 \/ k = 4 \/ k = 5
    BY <1>1
  <2> QED BY <2>1
<1> HIDE DEF s, h
<1>3. Leads(T, s, a0, a5)
  BY <1>1, <1>2 DEF Leads
<1> QED BY <1>3 DEF s

LEMMA Leads6 ==
  ASSUME NEW T, NEW e1, NEW e2, NEW e3, NEW e4, NEW e5, NEW e6,
         NEW a0, NEW a1, NEW a2, NEW a3, NEW a4, NEW a5, NEW a6,
         <<a0, e1, a1>> \in T, <<a1, e2, a2>> \in T, <<a2, e3, a3>> \in T, <<a3, e4, a4>> \in T, <<a4, e5, a5>> \in T, <<a5, e6, a6>> \in T
  PROVE  Leads(T, <<e1, e2, e3, e4, e5, e6>>, a0, a6)
<1> DEFINE s == <<e1, e2, e3, e4, e5, e6>>
           h == <<a0, a1, a2, a3, a4, a5, a6>>
<1>1. Len(s) = 6 /\ h[1] = a0 /\ h[Len(s) + 1] = a6
  OBVIOUS
<1>2. \A k \in 1 .. Len(s) : <<h[k], s[k], h[k + 1]>> \in T
  <2> SUFFICES ASSUME NEW k \in 1 .. Len(s) PROVE <<h[k], s[k], h[k + 1]>> \in T
    OBVIOUS
  <2>1. k = 1 \/ k = 2 \/ k = 3 \/ k = 4 \/ k = 5 \/ k = 6
    BY <1>1
  <2> QED BY <2>1
<1> HIDE DEF s, h
<1>3. Leads(T, s, a0, a6)
  BY <1>1, <1>2 DEF Leads
<1> QED BY <1>3 DEF s

=============================================================================
