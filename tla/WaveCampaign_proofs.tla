------------------------- MODULE WaveCampaign_proofs -------------------------
(***************************************************************************)
(* Theorems about the checkpoints of a wave and the calibration of its     *)
(* budget, for every wave, every number of trials and every number of      *)
(* kills, errors and manual starts.                                        *)
(***************************************************************************)
EXTENDS WaveCampaign, SequenceParts_proofs, FiniteSetTheorems

LEMMA LeastIs ==
  ASSUME NEW S \in SUBSET Int, NEW x \in S, \A y \in S : x <= y
  PROVE  Least(S) = x
<1>1. Least(S) \in S /\ \A y \in S : Least(S) <= y
  BY DEF Least
<1>2. Least(S) \in Int /\ x \in Int /\ Least(S) <= x /\ x <= Least(S)
  BY <1>1
<1> QED BY <1>2

LEMMA GreatestIs ==
  ASSUME NEW S \in SUBSET Int, NEW x \in S, \A y \in S : x >= y
  PROVE  Greatest(S) = x
<1>1. Greatest(S) \in S /\ \A y \in S : Greatest(S) >= y
  BY DEF Greatest
<1>2. Greatest(S) \in Int /\ x \in Int /\ Greatest(S) <= x /\ x <= Greatest(S)
  BY <1>1
<1> QED BY <1>2

LEMMA LeastFact ==
  ASSUME NEW S \in SUBSET Nat, S # {}
  PROVE  Least(S) \in S /\ \A y \in S : Least(S) <= y
<1>1. \E x \in S : \A y \in S : x <= y
  BY LeastNumber
<1> QED BY <1>1 DEF Least

LEMMA GreatestFact ==
  ASSUME NEW S \in SUBSET Nat, S # {}, NEW b \in Nat, \A y \in S : y <= b
  PROVE  Greatest(S) \in S /\ \A y \in S : Greatest(S) >= y
<1> DEFINE T == {b - y : y \in S}
<1>1. T \in SUBSET Nat /\ T # {}
  <2>1. \A y \in S : b - y \in Nat
    OBVIOUS
  <2>2. PICK y \in S : TRUE
    OBVIOUS
  <2>3. b - y \in T
    OBVIOUS
  <2> QED BY <2>1, <2>3
<1>2. PICK d \in T : \A e \in T : d <= e
  BY <1>1, LeastNumber
<1>3. PICK x \in S : d = b - x
  BY <1>2
<1>4. ASSUME NEW y \in S PROVE x >= y
  <2>1. b - y \in T
    BY <1>4
  <2>2. b - x <= b - y
    BY <1>2, <1>3, <2>1
  <2> QED BY <2>2
<1> QED BY <1>3, <1>4 DEF Greatest

-----------------------------------------------------------------------------
(* The median.                                                             *)

Upto(ks, v)  == {j \in DOMAIN ks : ks[j] <= v}
Below(ks, v) == {j \in DOMAIN ks : ks[j] < v}
From(ks, v)  == {j \in DOMAIN ks : ks[j] >= v}

LEMMA Sides ==
  ASSUME NEW J, IsFiniteSet(J), NEW ks \in [J -> Nat], NEW v \in Nat
  PROVE  /\ Cardinality(J) \in Nat /\ Cardinality(Upto(ks, v)) \in Nat
         /\ Cardinality(Below(ks, v)) \in Nat /\ Cardinality(From(ks, v)) \in Nat
         /\ Cardinality(Below(ks, v)) + Cardinality(From(ks, v)) = Cardinality(J)
<1>1. /\ Upto(ks, v) \in SUBSET J /\ Below(ks, v) \in SUBSET J /\ From(ks, v) \in SUBSET J
      /\ Below(ks, v) \cup From(ks, v) = J /\ Below(ks, v) \cap From(ks, v) = {}
  BY DEF Upto, Below, From
<1>2. IsFiniteSet(Upto(ks, v)) /\ IsFiniteSet(Below(ks, v)) /\ IsFiniteSet(From(ks, v))
  BY <1>1, FS_Subset
<1>3. /\ Cardinality(J) \in Nat /\ Cardinality(Upto(ks, v)) \in Nat
      /\ Cardinality(Below(ks, v)) \in Nat /\ Cardinality(From(ks, v)) \in Nat
  BY <1>2, FS_CardinalityType
<1>4. Cardinality(J) = Cardinality(Below(ks, v)) + Cardinality(From(ks, v)) - Cardinality({})
  BY <1>1, <1>2, FS_Union
<1> QED BY <1>3, <1>4, FS_EmptySet

(* There is an i-th smallest number.                                       *)
LEMMA RankedFact ==
  ASSUME NEW J, IsFiniteSet(J), NEW ks \in [J -> Nat],
         NEW b \in Nat, \A j \in J : ks[j] <= b,
         NEW i \in 1 .. Cardinality(J)
  PROVE  /\ \E j \in J : Ranked(ks, i) = ks[j]
         /\ Cardinality(Below(ks, Ranked(ks, i))) < i
         /\ Cardinality(Upto(ks, Ranked(ks, i))) >= i
<1> DEFINE V == {ks[j] : j \in J}
           T == {v \in V : Cardinality(Upto(ks, v)) >= i}
<1>0. Cardinality(J) \in Nat /\ i \in Nat /\ J # {}
  BY FS_CardinalityType, FS_EmptySet
<1>1. V \in SUBSET Nat /\ V # {} /\ \A v \in V : v <= b
  BY <1>0
<1>2. Greatest(V) \in V /\ \A v \in V : Greatest(V) >= v
  BY <1>1, GreatestFact
<1>3. Greatest(V) \in T
  <2>1. Upto(ks, Greatest(V)) = J
    BY <1>1, <1>2 DEF Upto
  <2>2. Cardinality(Upto(ks, Greatest(V))) >= i
    BY <1>0, <2>1
  <2> QED BY <1>2, <2>2
<1>4. PICK v \in T : \A w \in T : v <= w
  <2>1. T \in SUBSET Nat /\ T # {}
    BY <1>1, <1>3
  <2> QED BY <2>1, LeastNumber
<1>5. Cardinality(Below(ks, v)) < i
  <2> DEFINE W == {ks[j] : j \in Below(ks, v)}
  <2>1. CASE Below(ks, v) = {}
    BY <1>0, <2>1, FS_EmptySet
  <2>2. CASE Below(ks, v) # {}
    <3>1. W \in SUBSET Nat /\ W # {} /\ (\A w \in W : w <= b /\ w < v) /\ W \subseteq V
      BY <1>1, <1>4, <2>2 DEF Below
    <3>2. Greatest(W) \in W /\ \A w \in W : Greatest(W) >= w
      BY <3>1, GreatestFact
    <3>3. Upto(ks, Greatest(W)) = Below(ks, v)
      BY <1>1, <1>4, <3>1, <3>2 DEF Upto, Below
    <3>4. Greatest(W) \notin T
      BY <1>1, <1>4, <3>1, <3>2
    <3>5. Cardinality(Upto(ks, Greatest(W))) \in Nat
      BY <3>1, <3>2, Sides
    <3>6. Greatest(W) \in V
      BY <3>1, <3>2
    <3>7. ~(Cardinality(Upto(ks, Greatest(W))) >= i)
      BY <3>4, <3>6
    <3> QED BY <1>0, <3>3, <3>5, <3>7
  <2> QED BY <2>1, <2>2
<1>6. \E u \in {ks[j] : j \in DOMAIN ks} :
        /\ Cardinality({j \in DOMAIN ks : ks[j] < u}) < i
        /\ Cardinality({j \in DOMAIN ks : ks[j] <= u}) >= i
  BY <1>4, <1>5 DEF Upto, Below
<1> QED BY <1>6 DEF Ranked, Upto, Below

(* At least half of the numbers are not below the median, and at least     *)
(* half are not above it.                                                  *)
LEMMA MedianSplits ==
  ASSUME NEW J, IsFiniteSet(J), J # {}, NEW ks \in [J -> Nat],
         NEW a \in Nat, NEW b \in Nat, \A j \in J : a <= ks[j] /\ ks[j] <= b
  PROVE  /\ Median(ks) \in a .. b
         /\ 2 * Cardinality(From(ks, Median(ks))) >= Cardinality(J)
         /\ 2 * Cardinality(Upto(ks, Median(ks))) >= Cardinality(J)
<1> DEFINE n == Cardinality(J)
<1>0. n \in Nat /\ n >= 1 /\ DOMAIN ks = J
  BY FS_CardinalityType, FS_EmptySet
<1> HIDE DEF n
<1>1. CASE n % 2 = 1
  <2>1. PICK h \in Nat : n = 2 * h + 1 /\ (n + 1) \div 2 = h + 1
    BY <1>0, <1>1
  <2>2. Median(ks) = Ranked(ks, h + 1)
    BY <1>0, <1>1, <2>1 DEF Median, n
  <2>3. /\ \E j \in J : Median(ks) = ks[j]
        /\ Cardinality(Below(ks, Median(ks))) < h + 1 /\ Cardinality(Upto(ks, Median(ks))) >= h + 1
    BY <2>1, <2>2, RankedFact DEF n
  <2>4. Median(ks) \in a .. b
    BY <2>3
  <2> HIDE DEF n
  <2>5. /\ Cardinality(Below(ks, Median(ks))) \in Nat /\ Cardinality(From(ks, Median(ks))) \in Nat
        /\ Cardinality(Upto(ks, Median(ks))) \in Nat
        /\ Cardinality(Below(ks, Median(ks))) + Cardinality(From(ks, Median(ks))) = n
    BY <2>4, Sides DEF n
  <2>6. 2 * Cardinality(From(ks, Median(ks))) >= n /\ 2 * Cardinality(Upto(ks, Median(ks))) >= n
    BY <2>1, <2>3, <2>5
  <2> QED BY <2>4, <2>6 DEF n
<1>2. CASE n % 2 # 1
  <2>1. PICK h \in Nat : n = 2 * h /\ n \div 2 = h /\ h >= 1
    BY <1>0, <1>2
  <2> DEFINE v == Ranked(ks, h)
             w == Ranked(ks, h + 1)
             m == Median(ks)
  <2>2. m = (v + w) \div 2
    BY <1>0, <1>2, <2>1 DEF Median, n
  <2>3. /\ \E j \in J : v = ks[j]
        /\ Cardinality(Below(ks, v)) < h /\ Cardinality(Upto(ks, v)) >= h
    BY <2>1, RankedFact DEF n
  <2>4. /\ \E j \in J : w = ks[j]
        /\ Cardinality(Below(ks, w)) < h + 1 /\ Cardinality(Upto(ks, w)) >= h + 1
    BY <2>1, RankedFact DEF n
  <2> HIDE DEF v, w
  <2>5. v \in a .. b /\ w \in a .. b
    BY <2>3, <2>4
  <2>6. v <= w
    <3>1. ASSUME w < v PROVE FALSE
      <4>1. Upto(ks, w) \in SUBSET Below(ks, v)
        BY <2>5, <3>1 DEF Upto, Below
      <4>2. IsFiniteSet(Below(ks, v))
        <5>1. Below(ks, v) \in SUBSET J
          BY DEF Below
        <5> QED BY <5>1, FS_Subset
      <4>3. Cardinality(Upto(ks, w)) <= Cardinality(Below(ks, v))
        BY <4>1, <4>2, FS_Subset
      <4>4. Cardinality(Upto(ks, w)) \in Nat /\ Cardinality(Below(ks, v)) \in Nat
        BY <2>5, Sides
      <4> QED BY <2>3, <2>4, <4>3, <4>4
    <3> QED BY <2>5, <3>1
  <2>7. m \in Nat /\ v <= m /\ m <= w
    BY <2>2, <2>5, <2>6
  <2> HIDE DEF m
  <2>8. /\ From(ks, w) \in SUBSET From(ks, m) /\ Upto(ks, v) \in SUBSET Upto(ks, m)
        /\ IsFiniteSet(From(ks, m)) /\ IsFiniteSet(Upto(ks, m))
    <3>1. From(ks, w) \in SUBSET From(ks, m) /\ Upto(ks, v) \in SUBSET Upto(ks, m)
      BY <2>5, <2>7 DEF From, Upto
    <3>2. From(ks, m) \in SUBSET J /\ Upto(ks, m) \in SUBSET J
      BY DEF From, Upto
    <3> QED BY <3>1, <3>2, FS_Subset
  <2>9. /\ Cardinality(From(ks, w)) <= Cardinality(From(ks, m))
        /\ Cardinality(Upto(ks, v)) <= Cardinality(Upto(ks, m))
    BY <2>8, FS_Subset
  <2>10. /\ Cardinality(Below(ks, w)) + Cardinality(From(ks, w)) = n
         /\ Cardinality(Below(ks, w)) \in Nat /\ Cardinality(From(ks, w)) \in Nat
         /\ Cardinality(Upto(ks, v)) \in Nat
         /\ Cardinality(From(ks, m)) \in Nat /\ Cardinality(Upto(ks, m)) \in Nat
    BY <2>5, <2>7, Sides DEF n
  <2>11. 2 * Cardinality(From(ks, m)) >= n /\ 2 * Cardinality(Upto(ks, m)) >= n
    BY <2>1, <2>3, <2>4, <2>9, <2>10
  <2>12. m \in a .. b
    BY <2>5, <2>7
  <2> QED BY <2>11, <2>12 DEF n, m
<1> QED BY <1>1, <1>2

-----------------------------------------------------------------------------
(* Sessions, as they are measured and as they are read back.               *)

Point == [k : Nat, q : Nat]

WellMeasured(r) ==
  /\ r \in Seq(Point) /\ Len(r) <= MaxCalls + 1
  /\ \A i \in 1 .. Len(r) : r[i].k = i - 1

LEMMA FiniteIndices ==
  ASSUME NEW X, NEW s \in Seq(X), NEW I \in SUBSET DOMAIN s
  PROVE  IsFiniteSet(I)
<1>1. Len(s) \in Int /\ DOMAIN s = 1 .. Len(s)
  BY LenProperties
<1>2. IsFiniteSet(1 .. Len(s))
  BY <1>1, FS_Interval
<1> QED BY <1>1, <1>2, FS_Subset

LEMMA RoundedFact ==
  ASSUME NEW r \in Seq(Point)
  PROVE  /\ Rounded(r) \in Seq(Point) /\ Len(Rounded(r)) = Len(r)
         /\ \A i \in 1 .. Len(r) : Rounded(r)[i].k = r[i].k
<1>1. Len(r) \in Nat /\ DOMAIN r = 1 .. Len(r) /\ \A i \in 1 .. Len(r) : r[i] \in Point
  BY LenProperties
<1>2. \A i \in 1 .. Len(r) : (r[i].q + 5) \div 10 \in Nat
  BY <1>1 DEF Point
<1>3. /\ Rounded(r) \in [1 .. Len(r) -> Point]
      /\ \A i \in 1 .. Len(r) : Rounded(r)[i].k = r[i].k
  BY <1>1, <1>2 DEF Rounded, Point
<1> QED BY <1>1, <1>3, SeqDef

LEMMA RecordingFact ==
  ASSUME NEW r \in Recording PROVE WellMeasured(r)
<1>1. MaxCalls \in Nat
  BY SessionAssumption
<1>2. ASSUME NEW s \in Session PROVE WellMeasured(s)
  BY <1>1, SessionAssumption DEF WellMeasured, Point
<1>3. ASSUME NEW s \in Session PROVE WellMeasured(Rounded(s))
  BY <1>2, RoundedFact DEF WellMeasured
<1>4. WellMeasured(Rounded(<< >>))
  <2>1. << >> \in Seq(Point) /\ Len(<< >>) = 0
    OBVIOUS
  <2>2. Rounded(<< >>) \in Seq(Point) /\ Len(Rounded(<< >>)) = 0
    BY <2>1, RoundedFact
  <2> QED BY <1>1, <2>2 DEF WellMeasured
<1> QED BY <1>2, <1>3, <1>4 DEF Recording

(* The steps of a session, and where its quality falls first.              *)
LEMMA OnsetFact ==
  ASSUME NEW r, WellMeasured(r), Len(r) >= 2
  PROVE  /\ Onset(r) \in 1 .. MaxCalls
         /\ \A k \in Nat : k < Onset(r) => Rises(r, k)
         /\ \A k \in Nat : Onset(r) <= k => ~Rises(r, k) \/ Greatest(Steps(r)) <= k
<1>1. /\ MaxCalls \in Nat /\ Len(r) \in 2 .. MaxCalls + 1 /\ DOMAIN r = 1 .. Len(r)
      /\ \A i \in 1 .. Len(r) : r[i].k = i - 1 /\ r[i].q \in Nat
  <2>1. r \in Seq(Point) /\ Len(r) <= MaxCalls + 1 /\ \A i \in 1 .. Len(r) : r[i].k = i - 1
    BY DEF WellMeasured
  <2>2. MaxCalls \in Nat /\ Len(r) \in Nat /\ DOMAIN r = 1 .. Len(r)
    BY <2>1, LenProperties, SessionAssumption
  <2>3. \A i \in 1 .. Len(r) : r[i] \in Point
    BY <2>1, ElementOfSeq
  <2> QED BY <2>1, <2>2, <2>3 DEF Point
<1>2. Greatest(Steps(r)) = Len(r) - 1
  <2>1. Steps(r) \in SUBSET Int /\ \A y \in Steps(r) : Len(r) - 1 >= y
    BY <1>1 DEF Steps
  <2>2. Len(r) - 1 \in Steps(r)
    <3>1. Len(r) \in DOMAIN r /\ r[Len(r)].k = Len(r) - 1
      BY <1>1
    <3> QED BY <3>1 DEF Steps
  <2> QED BY <2>1, <2>2, GreatestIs
<1>3. CASE Falls(r) = {}
  <2>1. Onset(r) = Len(r) - 1
    BY <1>2, <1>3 DEF Onset, KDagger
  <2>2. \A i \in 2 .. Len(r) : r[i].q >= r[i - 1].q
    <3>1. ASSUME NEW i \in 2 .. Len(r) PROVE r[i].q >= r[i - 1].q
      <4>1. ~(r[i].q < r[i - 1].q)
        BY <1>3 DEF Falls
      <4>2. i \in 1 .. Len(r) /\ i - 1 \in 1 .. Len(r)
        BY <1>1
      <4>3. r[i].q \in Nat /\ r[i - 1].q \in Nat
        BY <1>1, <4>2
      <4> QED BY <4>1, <4>3
    <3> QED BY <3>1
  <2>3. \A k \in Nat : Rises(r, k)
    BY <2>2 DEF Rises
  <2> QED BY <1>1, <1>2, <2>1, <2>3
<1>4. CASE Falls(r) # {}
  <2>1. Falls(r) \in SUBSET (2 .. Len(r))
    BY DEF Falls
  <2>2. PICK f \in Falls(r) : f = Least(Falls(r)) /\ \A i \in Falls(r) : f <= i
    BY <1>1, <1>4, <2>1, LeastFact
  <2>3. f \in 2 .. Len(r) /\ r[f].q < r[f - 1].q
    BY <2>1, <2>2 DEF Falls
  <2>4. Onset(r) = f - 1
    <3>1. KDagger(r) = f - 1
      BY <1>1, <1>4, <2>2, <2>3 DEF KDagger
    <3>2. f - 1 # None
      BY <2>3, TornAssumption
    <3> QED BY <3>1, <3>2 DEF Onset
  <2>5. ASSUME NEW k \in Nat, k < f - 1 PROVE Rises(r, k)
    <3>1. ASSUME NEW i \in 2 .. Len(r), r[i].k <= k PROVE r[i].q >= r[i - 1].q
      <4>1. i < f
        BY <1>1, <2>3, <2>5, <3>1
      <4>2. i \notin Falls(r)
        BY <2>2, <2>3, <4>1
      <4>3. r[i].q \in Nat /\ r[i - 1].q \in Nat
        BY <1>1
      <4> QED BY <4>2, <4>3 DEF Falls
    <3> QED BY <3>1 DEF Rises
  <2>6. ASSUME NEW k \in Nat, f - 1 <= k PROVE ~Rises(r, k)
    <3>1. r[f].k <= k /\ ~(r[f].q >= r[f - 1].q)
      BY <1>1, <2>3, <2>6
    <3> QED BY <2>3, <3>1 DEF Rises
  <2> QED BY <1>1, <2>3, <2>4, <2>5, <2>6
<1> QED BY <1>3, <1>4

(* What calibrate finds.                                                   *)
LEMMA KStarFact ==
  ASSUME NEW ss \in Seq(Recording)
  PROVE  \/ Usable(ss) = {} /\ KStar(ss) = None
         \/ /\ Usable(ss) # {} /\ KStar(ss) \in 1 .. MaxCalls
            /\ KStar(ss) = Median(Onsets(ss))
<1>1. CASE Usable(ss) = {}
  BY <1>1 DEF KStar
<1>2. CASE Usable(ss) # {}
  <2> DEFINE ks == Onsets(ss)
  <2>1. IsFiniteSet(Usable(ss)) /\ MaxCalls \in Nat
    <3>1. Usable(ss) \in SUBSET DOMAIN ss
      BY DEF Usable
    <3> QED BY <3>1, FiniteIndices, SessionAssumption
  <2>2. \A i \in Usable(ss) : ks[i] = Onset(ss[i]) /\ ks[i] \in 1 .. MaxCalls
    <3>1. ASSUME NEW i \in Usable(ss) PROVE Onset(ss[i]) \in 1 .. MaxCalls
      <4>1. ss[i] \in Recording /\ Len(ss[i]) >= 2
        BY LenProperties DEF Usable
      <4> QED BY <4>1, RecordingFact, OnsetFact
    <3> QED BY <3>1 DEF Onsets
  <2>3. ks \in [Usable(ss) -> Nat]
    BY <2>1, <2>2 DEF Onsets
  <2> HIDE DEF ks
  <2>4. Median(ks) \in 1 .. MaxCalls
    BY <1>2, <2>1, <2>2, <2>3, MedianSplits
  <2>5. Greatest({1, Median(ks)}) = Median(ks)
    <3>1. {1, Median(ks)} \in SUBSET Int /\ \A y \in {1, Median(ks)} : Median(ks) >= y
      BY <2>1, <2>4
    <3> QED BY <3>1, GreatestIs
  <2> QED BY <1>2, <2>4, <2>5 DEF KStar, ks
<1> QED BY <1>1, <1>2

LEMMA KStarSplits ==
  ASSUME NEW ss \in Seq(Recording), KStar(ss) \in Nat
  PROVE  LET used  == Usable(ss)
             whole == {i \in used : Rises(ss[i], KStar(ss) - 1)}
             hurt  == {i \in used : ~Rises(ss[i], KStar(ss)) \/ Greatest(Steps(ss[i])) <= KStar(ss)}
         IN  2 * Cardinality(whole) >= Cardinality(used)
             /\ 2 * Cardinality(hurt) >= Cardinality(used)
<1> DEFINE used == Usable(ss)
           m == KStar(ss)
           ks == Onsets(ss)
           whole == {i \in used : Rises(ss[i], m - 1)}
           hurt  == {i \in used : ~Rises(ss[i], m) \/ Greatest(Steps(ss[i])) <= m}
<1>0. used # {} /\ m \in 1 .. MaxCalls /\ m = Median(ks) /\ MaxCalls \in Nat
  BY KStarFact, TornAssumption, SessionAssumption
<1>1. IsFiniteSet(used)
  <2>1. used \in SUBSET DOMAIN ss
    BY DEF Usable
  <2> QED BY <2>1, FiniteIndices
<1>2. ASSUME NEW i \in used
      PROVE  /\ ks[i] = Onset(ss[i]) /\ ks[i] \in 1 .. MaxCalls
             /\ ks[i] >= m => i \in whole
             /\ ks[i] <= m => i \in hurt
  <2>1. ss[i] \in Recording /\ Len(ss[i]) >= 2
    BY LenProperties DEF Usable
  <2>2. /\ Onset(ss[i]) \in 1 .. MaxCalls
        /\ \A k \in Nat : k < Onset(ss[i]) => Rises(ss[i], k)
        /\ \A k \in Nat : Onset(ss[i]) <= k => ~Rises(ss[i], k) \/ Greatest(Steps(ss[i])) <= k
    BY <2>1, RecordingFact, OnsetFact
  <2>3. ks[i] = Onset(ss[i])
    BY DEF Onsets
  <2> HIDE DEF m
  <2>4. ks[i] >= m => m - 1 \in Nat /\ m - 1 < Onset(ss[i])
    BY <1>0, <2>2, <2>3
  <2> QED BY <1>0, <2>2, <2>3, <2>4
<1>3. ks \in [used -> Nat] /\ \A i \in used : 1 <= ks[i] /\ ks[i] <= MaxCalls
  <2>1. DOMAIN ks = used
    BY DEF Onsets
  <2>2. ks = [i \in used |-> ks[i]]
    BY DEF Onsets
  <2> HIDE DEF ks
  <2> QED BY <1>0, <1>2, <2>1, <2>2
<1> HIDE DEF ks, used, m
<1>4. /\ 2 * Cardinality(From(ks, m)) >= Cardinality(used)
      /\ 2 * Cardinality(Upto(ks, m)) >= Cardinality(used)
  BY <1>0, <1>1, <1>3, MedianSplits
<1>5. From(ks, m) \in SUBSET whole /\ Upto(ks, m) \in SUBSET hurt
  BY <1>2, <1>3 DEF From, Upto
<1>6. whole \in SUBSET used /\ hurt \in SUBSET used
  OBVIOUS
<1> HIDE DEF whole, hurt
<1>7. IsFiniteSet(whole) /\ IsFiniteSet(hurt)
  BY <1>1, <1>6, FS_Subset
<1>8. /\ Cardinality(From(ks, m)) <= Cardinality(whole)
      /\ Cardinality(Upto(ks, m)) <= Cardinality(hurt)
  BY <1>5, <1>7, FS_Subset
<1>9. /\ Cardinality(whole) \in Nat /\ Cardinality(hurt) \in Nat /\ Cardinality(used) \in Nat
      /\ Cardinality(From(ks, m)) \in Nat /\ Cardinality(Upto(ks, m)) \in Nat
  <2>1. IsFiniteSet(From(ks, m)) /\ IsFiniteSet(Upto(ks, m))
    BY <1>5, <1>7, FS_Subset
  <2> QED BY <1>1, <1>7, <2>1, FS_CardinalityType
<1> QED BY <1>4, <1>8, <1>9 DEF used, m, whole, hurt

-----------------------------------------------------------------------------
(* Types, and where the runner is.                                         *)

Pending(s) == {s[i] : i \in DOMAIN s}

Place ==
  /\ pc \in {"gates", "trials", "calibrate", "record"} => todo # << >>
  /\ pc = "gates" => Now = "gates"
  /\ pc = "trials" => /\ armTodo # << >> /\ Pending(armTodo) \subseteq ArmsIn(Now)
                      /\ at > 0 => at <= Size[Head(armTodo)] + 1
  /\ pc = "calibrate" => Now = "exp6p1"

TypeInv == TypeOK /\ Place

LEMMA PendingTail ==
  ASSUME NEW X, NEW s \in Seq(X), s # << >>
  PROVE  /\ Head(s) = s[1] /\ Head(s) \in X /\ Tail(s) \in Seq(X)
         /\ Len(s) >= 1 /\ Len(Tail(s)) = Len(s) - 1
         /\ \A i \in 1 .. Len(s) - 1 : Tail(s)[i] = s[i + 1]
         /\ Pending(s) = {Head(s)} \cup Pending(Tail(s))
<1>1. /\ Len(s) \in Nat /\ Len(s) >= 1 /\ DOMAIN s = 1 .. Len(s) /\ Head(s) = s[1]
  BY EmptySeq, LenProperties
<1>2. /\ Tail(s) \in Seq(X) /\ Len(Tail(s)) = Len(s) - 1 /\ Head(s) \in X
      /\ \A i \in 1 .. Len(Tail(s)) : Tail(s)[i] = s[i + 1]
      /\ DOMAIN Tail(s) = 1 .. Len(s) - 1
  BY <1>1, HeadTailProperties, LenProperties
<1>3. \A x \in Pending(s) : x = Head(s) \/ x \in Pending(Tail(s))
  <2>1. ASSUME NEW i \in DOMAIN s, i # 1 PROVE s[i] \in Pending(Tail(s))
    <3>1. i - 1 \in DOMAIN Tail(s) /\ Tail(s)[i - 1] = s[i]
      BY <1>1, <1>2, <2>1
    <3> QED BY <3>1 DEF Pending
  <2> QED BY <1>1, <2>1 DEF Pending
<1>4. Head(s) \in Pending(s) /\ Pending(Tail(s)) \subseteq Pending(s)
  <2>1. \A i \in DOMAIN Tail(s) : Tail(s)[i] = s[i + 1] /\ i + 1 \in DOMAIN s
    BY <1>1, <1>2
  <2> QED BY <1>1, <2>1 DEF Pending
<1> QED BY <1>1, <1>2, <1>3, <1>4

LEMMA Indices ==
  ASSUME NEW a \in Arm, FilesOK
  PROVE  /\ Size[a] \in Nat \ {0} /\ trials[a] \in Seq(Kept \cup {None, Torn}) /\ Len(trials[a]) = Size[a]
         /\ Readable(a) \subseteq 1 .. Size[a] /\ FilesOf(a) \subseteq 1 .. Size[a]
         /\ IsFiniteSet(Readable(a)) /\ IsFiniteSet(FilesOf(a))
         /\ Cardinality(Readable(a)) \in 0 .. Size[a] /\ Cardinality(FilesOf(a)) \in 0 .. Size[a]
<1>1. Size[a] \in Nat \ {0} /\ trials[a] \in [1 .. Size[a] -> Kept \cup {None, Torn}]
  BY WaveAssumption DEF FilesOK
<1>2. trials[a] \in Seq(Kept \cup {None, Torn}) /\ Len(trials[a]) = Size[a]
  BY <1>1, SeqDef
<1>3. Readable(a) \in SUBSET (1 .. Size[a]) /\ FilesOf(a) \in SUBSET (1 .. Size[a])
  BY DEF Readable, FilesOf
<1>4. IsFiniteSet(1 .. Size[a]) /\ Cardinality(1 .. Size[a]) = Size[a]
  BY <1>1, FS_Interval
<1>5. /\ IsFiniteSet(Readable(a)) /\ Cardinality(Readable(a)) <= Size[a]
      /\ IsFiniteSet(FilesOf(a)) /\ Cardinality(FilesOf(a)) <= Size[a]
  <2>1. /\ IsFiniteSet(Readable(a)) /\ Cardinality(Readable(a)) <= Cardinality(1 .. Size[a])
        /\ IsFiniteSet(FilesOf(a)) /\ Cardinality(FilesOf(a)) <= Cardinality(1 .. Size[a])
    BY <1>3, <1>4, FS_Subset
  <2> QED BY <1>4, <2>1
<1>6. Cardinality(Readable(a)) \in Nat /\ Cardinality(FilesOf(a)) \in Nat
  BY <1>5, FS_CardinalityType
<1> QED BY <1>1, <1>2, <1>3, <1>5, <1>6

LEMMA KeptFact ==
  /\ \A t \in Kept : t # None /\ t # Torn /\ t.steps \in Recording /\ t.budget \in Budgets
  /\ \A r \in Session : Trial(None, r) \in Kept
  /\ \A b \in Budgets : Trial(b, << >>) \in Kept
  /\ None \in Budgets /\ DefaultKStar \in Budgets /\ 1 .. MaxCalls \subseteq Budgets
<1>1. /\ \A r \in Session : Trial(None, r) \in Kept
      /\ \A b \in Budgets : Trial(b, << >>) \in Kept
      /\ None \in Budgets /\ DefaultKStar \in Budgets /\ 1 .. MaxCalls \subseteq Budgets
  BY DEF Kept, Budgets
<1>2. ASSUME NEW t \in Kept PROVE t.steps \in Recording /\ t.budget \in Budgets
  <2>1. ASSUME NEW r \in Session, t = Trial(None, r) PROVE t.steps \in Recording /\ t.budget \in Budgets
    BY <1>1, <2>1 DEF Trial, Recording
  <2>2. ASSUME NEW b \in Budgets, t = Trial(b, << >>) PROVE t.steps \in Recording /\ t.budget \in Budgets
    BY <2>2 DEF Trial, Recording
  <2> QED BY <2>1, <2>2 DEF Kept
<1>3. None \notin Kept /\ Torn \notin Kept
  BY TornAssumption
<1> QED BY <1>1, <1>2, <1>3

LEMMA LoadedType ==
  ASSUME FilesOK, NEW a \in Arm PROVE Loaded(a) \in Seq(Recording)
<1> DEFINE X == Kept \cup {None, Torn}
           t == [i \in 1 .. Size[a] |-> IF i \in Readable(a) THEN trials[a][i] ELSE Trial(None, << >>)]
           kept == Part(trials[a], Readable(a))
<1>1. trials[a] \in Seq(X) /\ Len(trials[a]) = Size[a] /\ Size[a] \in Nat
  BY Indices
<1>2. t \in Seq(Kept) /\ Len(t) = Size[a]
  <2>1. \A i \in Readable(a) : trials[a][i] \in Kept
    BY <1>1, ElementOfSeq DEF Readable
  <2>2. t \in [1 .. Size[a] -> Kept]
    BY <2>1, KeptFact
  <2> HIDE DEF t
  <2> QED BY <1>1, <2>2, SeqDef
<1>3. t \in Seq(X)
  BY <1>2, SeqMonotonic
<1>4. \A i \in 1 .. Len(t) : i \in Readable(a) => trials[a][i] = t[i]
  BY <1>2
<1> HIDE DEF t, X
<1>5. kept = Part(t, Readable(a))
  BY <1>1, <1>2, <1>3, <1>4, PartSame
<1>6. kept \in Seq(Kept)
  BY <1>2, <1>5, PartType
<1> HIDE DEF kept
<1>7. Len(kept) \in Nat /\ DOMAIN kept = 1 .. Len(kept) /\ \A i \in 1 .. Len(kept) : kept[i] \in Kept
  BY <1>6, LenProperties, ElementOfSeq
<1>8. [i \in DOMAIN kept |-> kept[i].steps] \in [1 .. Len(kept) -> Recording]
  BY <1>7, KeptFact
<1> QED BY <1>7, <1>8, SeqDef DEF Loaded, kept

LEMMA TodoType ==
  ASSUME NEW o \in Option PROVE Todo(o) \in Seq(Step)
<1>1. Len(StepOrder) \in Nat /\ \A i \in 1 .. Len(StepOrder) : StepOrder[i] \in Step
  BY WaveAssumption, LenProperties, ElementOfSeq
<1>2. ASSUME NEW I \in SUBSET DOMAIN StepOrder, I # {} PROVE StepsFrom(Least(I)) \in Seq(Step)
  <2>1. DOMAIN StepOrder = 1 .. Len(StepOrder)
    BY WaveAssumption, LenProperties
  <2>2. I \in SUBSET Nat
    BY <1>1, <1>2, <2>1
  <2>3. Least(I) \in 1 .. Len(StepOrder)
    BY <1>2, <2>1, <2>2, LeastFact
  <2>4. \A i \in Least(I) .. Len(StepOrder) : StepOrder[i] \in Step
    BY <1>1, <2>3
  <2> QED BY <1>1, <2>3, <2>4, SubSeqProperties DEF StepsFrom
<1>3. CASE o.only # None
  <2>1. o.only \in Step
    BY <1>3, WaveAssumption
  <2> QED BY <1>3, <2>1 DEF Todo
<1>4. CASE o.only = None /\ o.from # None
  <2> DEFINE I == {i \in DOMAIN StepOrder : StepOrder[i] = o.from}
  <2>1. o.from \in Step
    BY <1>4, WaveAssumption
  <2>2. I \in SUBSET DOMAIN StepOrder /\ I # {}
    BY <2>1 DEF Step
  <2> QED BY <1>2, <1>4, <2>2 DEF Todo
<1>5. CASE o.only = None /\ o.from = None /\ Open # {}
  <2>1. Open \in SUBSET DOMAIN StepOrder
    BY DEF Open
  <2> QED BY <1>2, <1>5, <2>1 DEF Todo
<1>6. CASE o.only = None /\ o.from = None /\ Open = {}
  BY <1>6 DEF Todo
<1> QED BY <1>3, <1>4, <1>5, <1>6

LEMMA OffType ==
  ASSUME Off PROVE RunnerOK' /\ Place'
<1>1. AutoResume \in Option /\ None \in Budgets
  BY WaveAssumption, KeptFact
<1>2. [s \in Step |-> "none"] \in [Step -> Status]
  BY DEF Status
<1> QED BY <1>1, <1>2 DEF Off, LeaveStep, RunnerOK, Place

LEMMA EndStepType ==
  ASSUME TypeInv, NEW status \in Status, NEW reason, EndStep(status, reason),
         todo # << >>
  PROVE  RunnerOK' /\ Place'
<1>1. None \in Budgets
  BY KeptFact
<1>2. completed' \in [Step -> Status]
  BY DEF EndStep, TypeInv, TypeOK, RunnerOK
<1> QED BY <1>1, <1>2 DEF EndStep, LeaveStep, TypeInv, TypeOK, RunnerOK, Place

(* The state a trial is run in.                                            *)
LEMMA InTrialFact ==
  ASSUME TypeInv, InTrial
  PROVE  /\ todo # << >> /\ Now \in Step /\ armTodo # << >>
         /\ Head(armTodo) \in Arm /\ Head(armTodo) \in ArmsIn(Now)
         /\ at \in 1 .. Size[Head(armTodo)]
<1>1. todo \in Seq(Step) /\ todo # << >> /\ armTodo \in Seq(Arm) /\ armTodo # << >> /\ at \in Nat
  BY DEF InTrial, TypeInv, TypeOK, RunnerOK, Place
<1>2. Head(armTodo) \in Arm /\ Head(armTodo) \in Pending(armTodo) /\ Now \in Step
  BY <1>1, PendingTail DEF Now
<1>3. Size[Head(armTodo)] \in Nat
  BY <1>2, WaveAssumption
<1> QED BY <1>1, <1>2, <1>3 DEF InTrial, TypeInv, Place

LEMMA TrialType ==
  ASSUME TypeInv, InTrial, NEW t \in Kept \cup {Torn},
         trials' = [trials EXCEPT ![Head(armTodo)][at] = t]
  PROVE  /\ DOMAIN trials' = Arm
         /\ \A a \in Arm : /\ trials'[a] \in [1 .. Size[a] -> Kept \cup {None, Torn}]
                           /\ a # Head(armTodo) => trials'[a] = trials[a]
         /\ trials'[Head(armTodo)] = [trials[Head(armTodo)] EXCEPT ![at] = t]
<1> DEFINE h == Head(armTodo)
<1>1. h \in Arm /\ at \in 1 .. Size[h] /\ DOMAIN trials = Arm
  BY InTrialFact DEF TypeInv, TypeOK, FilesOK
<1>2. \A a \in Arm : trials[a] \in [1 .. Size[a] -> Kept \cup {None, Torn}]
  BY DEF TypeInv, TypeOK, FilesOK
<1>3. trials' = [a \in Arm |-> IF a = h THEN [trials[h] EXCEPT ![at] = t] ELSE trials[a]]
  BY <1>1
<1>4. [trials[h] EXCEPT ![at] = t] \in [1 .. Size[h] -> Kept \cup {None, Torn}]
  BY <1>1, <1>2
<1> QED BY <1>1, <1>2, <1>3, <1>4

(* What a trial of the step under way is saved as.                         *)
LEMMA SavedType ==
  ASSUME TypeInv, InTrial, NEW r \in IF Now = "exp6p1" THEN Session ELSE {<< >>}
  PROVE  Trial(IF Head(armTodo) \in Defended THEN budget ELSE None, r) \in Kept
<1>1. budget \in Budgets
  BY DEF TypeInv, TypeOK, RunnerOK
<1>2. CASE Now = "exp6p1"
  <2>1. Head(armTodo) \notin Defended
    BY <1>2, InTrialFact, WaveAssumption
  <2> QED BY <1>2, <2>1, KeptFact
<1>3. CASE Now # "exp6p1"
  BY <1>1, <1>3, KeptFact
<1> QED BY <1>2, <1>3

LEMMA TypeStep == TypeInv /\ [Next]_vars => TypeInv'
<1> SUFFICES ASSUME TypeInv, [Next]_vars PROVE TypeInv'
  OBVIOUS
<1> USE DEF files, loop, inside, bounds
<1> DEFINE Good == FilesOK' /\ RunnerOK' /\ Place'
<1> SUFFICES Good
  BY DEF TypeInv, TypeOK
<1>0. /\ FilesOK /\ RunnerOK /\ Place
      /\ todo \in Seq(Step) /\ armTodo \in Seq(Arm) /\ gateTodo \in Seq(Gate)
      /\ completed \in [Step -> Status] /\ mem \in Seq(Recording) /\ results \subseteq Gate \cup {SavedAt}
      /\ cleared \subseteq Gate /\ opt \in Option
  BY DEF TypeInv, TypeOK, RunnerOK
<1>1. ASSUME UNCHANGED files PROVE FilesOK'
  BY <1>0, <1>1 DEF FilesOK
<1>2. ASSUME NEW o \in Option, Start(o) PROVE Good
  <2>1. Todo(o) \in Seq(Step) /\ Seed \in [Step -> Status]
    BY <1>0, TodoType DEF Seed, Recorded, FilesOK, Status
  <2>2. UNCHANGED files
    BY <1>2 DEF Start
  <2> QED BY <1>0, <1>1, <1>2, <2>1, <2>2 DEF Start, RunnerOK, Place
<1>3. CASE SkipStep
  <2>1. todo # << >> /\ Tail(todo) \in Seq(Step)
    BY <1>0, <1>3, PendingTail DEF SkipStep
  <2>2. completed' \in [Step -> Status]
    BY <1>0, <1>3 DEF SkipStep, Status
  <2> QED BY <1>0, <1>1, <1>3, <2>1, <2>2 DEF SkipStep, RunnerOK, Place
<1>4. CASE RunPlain
  <2>1. todo # << >> /\ UNCHANGED files
        /\ \E status \in Status, reason \in {"none", "error"} : EndStep(status, reason)
    BY <1>4 DEF RunPlain, Enter, Status
  <2> QED BY <1>0, <1>1, <2>1, EndStepType
<1>5. CASE Record
  <2>1. todo # << >> /\ Tail(todo) \in Seq(Step)
    BY <1>0, <1>5, PendingTail DEF Record, Place
  <2> QED BY <1>0, <1>5, <2>1 DEF Record, RunnerOK, FilesOK, Place
<1>6. CASE Abort \/ EndRun
  <2>1. Off /\ UNCHANGED files
    BY <1>6 DEF Abort, EndRun
  <2> QED BY <1>0, <1>1, <2>1, OffType
<1>7. CASE BeginGates
  <2>1. todo # << >> /\ Now = "gates" /\ GateOrder \in Seq(Gate)
    BY <1>7, WaveAssumption DEF BeginGates, Enter
  <2>2. results' = {} /\ UNCHANGED files
    BY <1>7 DEF BeginGates
  <2> QED BY <1>0, <1>1, <1>7, <2>1, <2>2 DEF BeginGates, RunnerOK, Place, Now
<1>8. CASE WaiveGate \/ PassGate
  <2>1. PICK g : /\ AtGate(g) /\ NextGate /\ cleared' = cleared \cup {g}
                 /\ results' \subseteq results \cup {g, SavedAt}
    BY <1>8 DEF WaiveGate, PassGate
  <2>2. g \in Gate /\ Tail(gateTodo) \in Seq(Gate)
    BY <1>0, <2>1, PendingTail DEF AtGate
  <2>3. results' \subseteq Gate \cup {SavedAt} /\ cleared' \subseteq Gate
    BY <1>0, <2>1, <2>2
  <2>4. RunnerOK' /\ Place'
    BY <1>0, <2>1, <2>2, <2>3 DEF AtGate, NextGate, RunnerOK, Place, Now
  <2> QED BY <1>1, <2>1, <2>4 DEF NextGate
<1>11. CASE FailGate
  <2>1. Off /\ UNCHANGED files
    BY <1>11 DEF FailGate
  <2> QED BY <1>0, <1>1, <2>1, OffType
<1>12. CASE GatesDone
  <2>1. /\ todo # << >> /\ UNCHANGED files
        /\ \E status \in Status, reason \in {"none", "error"} : EndStep(status, reason)
    BY <1>0, <1>12 DEF GatesDone, Place, Status
  <2> QED BY <1>0, <1>1, <2>1, EndStepType
<1>13. CASE BeginArms
  <2>1. todo # << >> /\ UNCHANGED files /\ "FAILED" \in Status
    BY <1>13 DEF BeginArms, Enter, Status
  <2>2. CASE EndStep("FAILED", "torn")
    BY <1>0, <1>1, <2>1, <2>2, EndStepType
  <2>3. CASE ~EndStep("FAILED", "torn")
    <3>1. PICK s \in Step :
            /\ ArmsOf[s] # << >> /\ Now = s /\ ~(s \in NeedsKStar /\ kstar = Torn)
            /\ pc' = "trials" /\ armTodo' = ArmsOf[s] /\ at' = 0
            /\ budget' = IF s \notin NeedsKStar THEN None
                         ELSE IF kstar = None THEN DefaultKStar ELSE kstar
            /\ UNCHANGED <<opt, todo, completed, why, gateTodo, results, mem, cleared>>
      BY <1>13, <2>3 DEF BeginArms, Enter
    <3>2. budget' \in Budgets
      BY <1>0, <3>1, KeptFact DEF FilesOK
    <3>3. ArmsOf[s] \in Seq(Arm) /\ Pending(ArmsOf[s]) = ArmsIn(s)
      BY WaveAssumption DEF Pending, ArmsIn
    <3>4. RunnerOK'
      BY <1>0, <2>1, <3>1, <3>2, <3>3 DEF RunnerOK
    <3>5. Place'
      BY <2>1, <3>1, <3>3 DEF Place, Now
    <3> QED BY <1>1, <2>1, <3>4, <3>5
  <2> QED BY <2>2, <2>3
<1>14. CASE EnterArm
  <2>1. /\ pc = "trials" /\ at = 0 /\ UNCHANGED files /\ todo # << >> /\ "FAILED" \in Status
        /\ armTodo # << >> /\ Pending(armTodo) \subseteq ArmsIn(Now)
    BY <1>0, <1>14 DEF EnterArm, Place, Status
  <2>2. CASE EndStep("FAILED", "torn")
    BY <1>0, <1>1, <2>1, <2>2, EndStepType
  <2>3. CASE ~EndStep("FAILED", "torn")
    <3> DEFINE h == Head(armTodo)
    <3>1. /\ at' = ResumeAt(Now, h) /\ mem' = IF Now = "exp6p1" THEN Loaded(h) ELSE << >>
          /\ UNCHANGED <<loop, gateTodo, results, armTodo, budget, cleared>>
      BY <1>14, <2>3 DEF EnterArm
    <3>2. h \in Arm
      BY <1>0, <2>1, PendingTail
    <3>3. mem' \in Seq(Recording)
      BY <1>0, <3>1, <3>2, LoadedType
    <3>4. ResumeAt(Now, h) \in Nat /\ ResumeAt(Now, h) <= Size[h] + 1
      <4>1. CASE Resume[Now] = "count"
        BY <1>0, <3>2, <4>1, Indices DEF ResumeAt
      <4>2. CASE Resume[Now] # "count"
        BY <1>0, <3>2, <4>2, Indices DEF ResumeAt
      <4> QED BY <4>1, <4>2
    <3>5. RunnerOK'
      BY <1>0, <2>1, <3>1, <3>3, <3>4 DEF RunnerOK
    <3>6. Place'
      BY <2>1, <3>1, <3>4 DEF Place, Now
    <3> QED BY <1>1, <2>1, <3>5, <3>6
  <2> QED BY <2>2, <2>3
<1>15. CASE RunTrial
  <2>1. PICK r \in IF Now = "exp6p1" THEN Session ELSE {<< >>} :
          /\ trials' = [trials EXCEPT ![Head(armTodo)][at] =
               Trial(IF Head(armTodo) \in Defended THEN budget ELSE None, r)]
          /\ mem' = IF Now = "exp6p1" THEN Append(mem, r) ELSE mem
    BY <1>15 DEF RunTrial
  <2>2. /\ InTrial /\ at' = at + 1
        /\ UNCHANGED <<kstar, progress, loop, gateTodo, results, armTodo, budget, cleared>>
    BY <1>15 DEF RunTrial
  <2>3. /\ DOMAIN trials' = Arm
        /\ \A a \in Arm : trials'[a] \in [1 .. Size[a] -> Kept \cup {None, Torn}]
    BY <2>1, <2>2, SavedType, TrialType
  <2>4. FilesOK'
    BY <1>0, <2>2, <2>3 DEF FilesOK
  <2>5. mem' \in Seq(Recording)
    <3>1. CASE Now = "exp6p1"
      <4>1. r \in Recording
        BY <3>1 DEF Recording
      <4> QED BY <1>0, <2>1, <3>1, <4>1, AppendProperties
    <3>2. CASE Now # "exp6p1"
      BY <1>0, <2>1, <3>2
    <3> QED BY <3>1, <3>2
  <2>6. RunnerOK'
    BY <1>0, <2>2, <2>5 DEF RunnerOK
  <2>7. Place'
    <3>1. at + 1 <= Size[Head(armTodo)] + 1
      BY <2>2, InTrialFact, WaveAssumption
    <3> QED BY <1>0, <2>2, <3>1 DEF Place, Now
  <2> QED BY <2>4, <2>6, <2>7
<1>16. CASE TrialError
  <2>1. todo # << >> /\ UNCHANGED files /\ EndStep("FAILED", "error") /\ "FAILED" \in Status
    BY <1>0, <1>16 DEF TrialError, Place, Status
  <2> QED BY <1>0, <1>1, <2>1, EndStepType
<1>17. CASE EndArm
  <2>1. /\ pc = "trials" /\ armTodo # << >> /\ todo # << >> /\ UNCHANGED files /\ "ok" \in Status
        /\ Pending(armTodo) \subseteq ArmsIn(Now)
    BY <1>0, <1>17 DEF EndArm, Place, Status
  <2>2. CASE EndStep("ok", "none")
    BY <1>0, <1>1, <2>1, <2>2, EndStepType
  <2>3. CASE pc' = "calibrate" /\ Now = "exp6p1" /\ UNCHANGED <<opt, todo, completed, why, inside, cleared>>
    <3>1. RunnerOK' /\ Place'
      BY <1>0, <2>1, <2>3 DEF RunnerOK, Place, Now
    <3> QED BY <1>1, <2>1, <3>1
  <2>4. CASE /\ Len(armTodo) > 1 /\ armTodo' = Tail(armTodo) /\ at' = 0
             /\ UNCHANGED <<loop, gateTodo, results, mem, budget, cleared>>
    <3>1. /\ Tail(armTodo) \in Seq(Arm) /\ Tail(armTodo) # << >>
          /\ Pending(Tail(armTodo)) \subseteq Pending(armTodo)
      <4>1. Tail(armTodo) \in Seq(Arm) /\ Len(Tail(armTodo)) = Len(armTodo) - 1 /\ Len(armTodo) \in Nat
            /\ Pending(Tail(armTodo)) \subseteq Pending(armTodo)
        BY <1>0, <2>1, PendingTail, LenProperties
      <4>2. Len(Tail(armTodo)) # 0
        <5>1. Len(armTodo) > 1 /\ Len(armTodo) \in Nat /\ Len(Tail(armTodo)) = Len(armTodo) - 1
          BY <2>4, <4>1
        <5>2. \A l \in Nat : l > 1 => l - 1 # 0
          OBVIOUS
        <5> QED BY <5>1, <5>2, Zenon
      <4> QED BY <4>1, <4>2, EmptySeq
    <3>2. RunnerOK' /\ Place'
      BY <1>0, <2>1, <2>4, <3>1 DEF RunnerOK, Place, Now
    <3> QED BY <1>1, <2>1, <3>2
  <2> QED BY <1>17, <2>2, <2>3, <2>4 DEF EndArm
<1>18. CASE Calibrate
  <2>1. /\ todo # << >> /\ UNCHANGED <<trials, progress>>
        /\ \E status \in Status, reason \in {"none", "no data"} : EndStep(status, reason)
        /\ kstar' = kstar \/ (KStar(mem) # None /\ kstar' = KStar(mem))
    BY <1>0, <1>18 DEF Calibrate, Place, Status
  <2>2. FilesOK'
    BY <1>0, <2>1, KStarFact DEF FilesOK
  <2> QED BY <1>0, <2>1, <2>2, EndStepType
<1>19. CASE Crash
  <2>1. Off
    BY <1>19 DEF Crash
  <2>2. FilesOK'
    <3>1. CASE UNCHANGED files
      BY <1>1, <3>1
    <3>2. CASE InTrial /\ trials' = [trials EXCEPT ![Head(armTodo)][at] = Torn]
               /\ UNCHANGED <<kstar, progress>>
      <4>1. /\ DOMAIN trials' = Arm
            /\ \A a \in Arm : trials'[a] \in [1 .. Size[a] -> Kept \cup {None, Torn}]
        BY <3>2, TrialType
      <4> QED BY <1>0, <3>2, <4>1 DEF FilesOK
    <3>4. CASE kstar' = Torn /\ UNCHANGED <<trials, progress>>
      BY <1>0, <3>4 DEF FilesOK
    <3>5. CASE progress' = Torn /\ UNCHANGED <<trials, kstar>>
      BY <1>0, <3>5 DEF FilesOK
    <3> QED BY <1>19, <3>1, <3>2, <3>4, <3>5 DEF Crash
  <2> QED BY <1>0, <2>1, <2>2, OffType
<1>20. CASE UNCHANGED vars
  <2>1. UNCHANGED files /\ UNCHANGED <<loop, inside, cleared>>
    BY <1>20 DEF vars
  <2> QED BY <1>0, <1>1, <2>1 DEF RunnerOK, Place, Now
<1> QED
  BY <1>2, <1>3, <1>4, <1>5, <1>6, <1>7, <1>8, <1>11, <1>12, <1>13, <1>14, <1>15, <1>16,
     <1>17, <1>18, <1>19, <1>20 DEF Next, Inside

LEMMA TypeInit == Init => TypeInv
<1> SUFFICES ASSUME Init PROVE TypeInv
  OBVIOUS
<1>1. AutoResume \in Option /\ None \in Budgets
  BY WaveAssumption, KeptFact
<1>2. \A a \in Arm : trials[a] \in [1 .. Size[a] -> Kept \cup {None, Torn}]
  BY DEF Init
<1>3. [s \in Step |-> "none"] \in [Step -> Status]
  BY DEF Status
<1> QED BY <1>1, <1>2, <1>3 DEF Init, TypeInv, TypeOK, FilesOK, RunnerOK, Place

LEMMA AlwaysTyped == Spec => []TypeInv
  BY TypeInit, TypeStep, PTL DEF Spec

(* Every file and every variable of the runner keeps its type: what is     *)
(* saved as k* is a number of calls that a session can make, and what is   *)
(* read back from the files of a calibration are sessions.                 *)
THEOREM TypeCorrect == Spec => []TypeOK
<1>1. TypeInv => TypeOK
  BY DEF TypeInv
<1> QED BY <1>1, AlwaysTyped, PTL

(* The calibrated budget is a median: whenever it is saved, at least half  *)
(* of the measured sessions lose no quality before that many calls, and at *)
(* least half have lost quality, or ended, by then.                        *)
THEOREM BudgetAlwaysSplits == Spec => BudgetSplits
<1> DEFINE Splits == kstar' \in Nat /\ kstar' # kstar =>
       LET used == {i \in DOMAIN mem : Len(mem[i]) >= 2}
           whole == {i \in used : Rises(mem[i], kstar' - 1)}
           hurt  == {i \in used : ~Rises(mem[i], kstar') \/ Greatest(Steps(mem[i])) <= kstar'}
       IN 2 * Cardinality(whole) >= Cardinality(used)
          /\ 2 * Cardinality(hurt) >= Cardinality(used)
<1>1. ASSUME TypeInv, [Next]_vars, kstar' \in Nat, kstar' # kstar
      PROVE  mem \in Seq(Recording) /\ kstar' = KStar(mem)
  <2> USE DEF files, loop, inside, bounds
  <2>1. CASE Calibrate
    BY <1>1, <2>1 DEF Calibrate, TypeInv, TypeOK, RunnerOK
  <2>2. CASE Crash
    <3>1. kstar' = kstar \/ kstar' = Torn
      BY <2>2 DEF Crash
    <3> QED BY <1>1, <3>1, TornAssumption
  <2>3. CASE (\E o \in Option : Start(o)) \/ SkipStep \/ RunPlain \/ Record \/ Abort \/ EndRun
    <3>1. kstar' = kstar
      BY <2>3 DEF Start, SkipStep, RunPlain, Record, Abort, EndRun
    <3> QED BY <1>1, <3>1
  <2>4. CASE BeginGates \/ WaiveGate \/ PassGate \/ FailGate \/ GatesDone
    <3>1. kstar' = kstar
      BY <2>4 DEF BeginGates, WaiveGate, PassGate, NextGate, FailGate, GatesDone
    <3> QED BY <1>1, <3>1
  <2>5. CASE BeginArms \/ EnterArm \/ RunTrial \/ TrialError \/ EndArm
    <3>1. kstar' = kstar
      BY <2>5 DEF BeginArms, EnterArm, RunTrial, TrialError, EndArm
    <3> QED BY <1>1, <3>1
  <2>6. CASE UNCHANGED vars
    BY <1>1, <2>6 DEF vars
  <2> QED BY <1>1, <2>1, <2>2, <2>3, <2>4, <2>5, <2>6 DEF Next, Inside
<1>2. TypeInv /\ [Next]_vars => [Splits]_vars
  <2> SUFFICES ASSUME TypeInv, [Next]_vars, kstar' \in Nat, kstar' # kstar PROVE Splits
    OBVIOUS
  <2>1. mem \in Seq(Recording) /\ kstar' = KStar(mem)
    BY <1>1
  <2>2. Usable(mem) = {i \in DOMAIN mem : Len(mem[i]) >= 2}
    BY DEF Usable
  <2> QED BY <2>1, <2>2, KStarSplits
<1> QED BY <1>2, AlwaysTyped, PTL DEF Spec, BudgetSplits

-----------------------------------------------------------------------------
(* The trial files.                                                        *)

TrustedArm == UNION {ArmsIn(s) : s \in Trusting}

(* Files are written one after the other.  A runner that counts files      *)
(* leaves a hole where one is torn; one that counts readable files writes  *)
(* the torn one again, so that it can only be the last.                    *)
OnDisk(a) ==
  /\ \E k \in 0 .. Size[a] : FilesOf(a) = 1 .. k
  /\ a \in TrustedArm =>
       \E m \in 0 .. Size[a] : Readable(a) = 1 .. m /\ FilesOf(a) \subseteq 1 .. m + 1

(* The runner is at the trial behind those it found and those it ran.      *)
AtNextTrial ==
  pc = "trials" /\ at > 0 =>
    IF Now \in Trusting THEN Readable(Head(armTodo)) = 1 .. at - 1
                        ELSE FilesOf(Head(armTodo)) = 1 .. at - 1

FilesInv == TypeInv /\ AtNextTrial /\ \A a \in Arm : OnDisk(a)

LEMMA ArmsOfNow ==
  ASSUME TypeInv, pc = "trials"
  PROVE  /\ Now \in Step /\ Head(armTodo) \in Arm /\ Head(armTodo) \in ArmsIn(Now)
         /\ Head(armTodo) \in TrustedArm <=> Now \in Trusting
<1>1. todo \in Seq(Step) /\ todo # << >> /\ armTodo \in Seq(Arm) /\ armTodo # << >>
      /\ Pending(armTodo) \subseteq ArmsIn(Now)
  BY DEF TypeInv, TypeOK, RunnerOK, Place
<1>2. Now \in Step /\ Head(armTodo) \in Arm /\ Head(armTodo) \in ArmsIn(Now)
  BY <1>1, PendingTail DEF Now
<1>3. ASSUME NEW s \in Step, Head(armTodo) \in ArmsIn(s) PROVE s = Now
  BY <1>2, <1>3, WaveAssumption
<1> QED BY <1>2, <1>3 DEF TrustedArm, Trusting

LEMMA Interval ==
  ASSUME NEW m \in Nat, NEW n \in Nat, 1 .. m \subseteq 1 .. n PROVE m <= n
<1>1. CASE m = 0
  BY <1>1
<1>2. CASE m # 0
  <2>1. m \in 1 .. n
    BY <1>2
  <2> QED BY <2>1
<1> QED BY <1>1, <1>2

(* What a trial that is saved or torn changes.                             *)
LEMMA Written ==
  ASSUME FilesInv, InTrial, NEW t \in Kept \cup {Torn}, NEW h, h = Head(armTodo),
         trials' = [trials EXCEPT ![h][at] = t]
  PROVE  /\ h \in Arm /\ at \in 1 .. Size[h] /\ at \notin Readable(h)
         /\ FilesOf(h)' = 1 .. at
         /\ Readable(h)' = IF t = Torn THEN Readable(h) ELSE Readable(h) \cup {at}
         /\ trials'[h] = [trials[h] EXCEPT ![at] = t]
         /\ \A a \in Arm \ {h} : trials'[a] = trials[a] /\ Readable(a)' = Readable(a)
                                 /\ FilesOf(a)' = FilesOf(a)
         /\ Now \in Trusting => Readable(h) = 1 .. at - 1
         /\ \A a \in Arm : OnDisk(a)'
<1>0. /\ TypeInv /\ FilesOK /\ pc = "trials" /\ at \in Nat /\ at > 0
      /\ h \in Arm /\ at \in 1 .. Size[h] /\ Size[h] \in Nat
      /\ h \in TrustedArm <=> Now \in Trusting
  BY InTrialFact, ArmsOfNow, WaveAssumption DEF FilesInv, InTrial, TypeInv, TypeOK
<1>1. /\ trials'[h] = [trials[h] EXCEPT ![at] = t] /\ \A a \in Arm \ {h} : trials'[a] = trials[a]
      /\ DOMAIN trials[h] = 1 .. Size[h]
  BY <1>0, TrialType DEF FilesInv, FilesOK
<1>2. /\ \A a \in Arm \ {h} : Readable(a)' = Readable(a) /\ FilesOf(a)' = FilesOf(a)
      /\ \A i \in 1 .. Size[h] : trials'[h][i] = IF i = at THEN t ELSE trials[h][i]
  <2>1. \A a \in Arm \ {h} : Readable(a)' = Readable(a) /\ FilesOf(a)' = FilesOf(a)
    BY <1>1 DEF Readable, FilesOf
  <2>2. \A i \in 1 .. Size[h] : trials'[h][i] = IF i = at THEN t ELSE trials[h][i]
    <3>1. trials'[h] = [trials[h] EXCEPT ![at] = t] /\ DOMAIN trials[h] = 1 .. Size[h]
      BY <1>1
    <3>2. trials'[h] = [i \in 1 .. Size[h] |-> IF i = at THEN t ELSE trials[h][i]]
      BY <3>1
    <3> QED BY <3>2
  <2> QED BY <2>1, <2>2
<1>3. t # None /\ (t = Torn \/ t \notin {None, Torn})
  BY KeptFact, TornAssumption
<1>4. FilesOf(h)' = FilesOf(h) \cup {at}
  <2>1. \A i \in 1 .. Size[h] : trials'[h][i] # None <=> i = at \/ trials[h][i] # None
    BY <1>2, <1>3
  <2> QED BY <1>0, <2>1 DEF FilesOf
<1>5. Readable(h)' = IF t = Torn THEN Readable(h) \ {at} ELSE Readable(h) \cup {at}
  <2>1. \A i \in 1 .. Size[h] : trials'[h][i] \notin {None, Torn} <=>
          IF i = at THEN t # Torn ELSE trials[h][i] \notin {None, Torn}
    BY <1>2, <1>3
  <2>2. CASE t = Torn
    BY <1>0, <2>1, <2>2 DEF Readable
  <2>3. CASE t # Torn
    BY <1>0, <2>1, <2>3 DEF Readable
  <2> QED BY <2>2, <2>3
<1>6. Readable(h) \subseteq FilesOf(h)
  BY TornAssumption DEF Readable, FilesOf
<1>7. at \notin Readable(h) /\ FilesOf(h)' = 1 .. at
  <2>1. CASE Now \in Trusting
    <3>1. Readable(h) = 1 .. at - 1
      BY <1>0, <2>1 DEF FilesInv, AtNextTrial
    <3>2. PICK m \in 0 .. Size[h] : Readable(h) = 1 .. m /\ FilesOf(h) \subseteq 1 .. m + 1
      BY <1>0, <2>1 DEF FilesInv, OnDisk
    <3>3. m = at - 1
      BY <1>0, <3>1, <3>2, Interval
    <3>4. FilesOf(h) \cup {at} = 1 .. at
      BY <1>0, <1>6, <3>1, <3>2, <3>3
    <3>5. at \notin 1 .. at - 1
      BY <1>0
    <3> QED BY <1>4, <3>1, <3>4, <3>5
  <2>2. CASE Now \notin Trusting
    <3>1. FilesOf(h) = 1 .. at - 1
      BY <1>0, <2>2 DEF FilesInv, AtNextTrial
    <3>2. at \notin 1 .. at - 1 /\ (1 .. at - 1) \cup {at} = 1 .. at
      BY <1>0
    <3> QED BY <1>4, <1>6, <3>1, <3>2
  <2> QED BY <2>1, <2>2
<1>8. Readable(h)' = IF t = Torn THEN Readable(h) ELSE Readable(h) \cup {at}
  BY <1>5, <1>7
<1>9. Now \in Trusting => Readable(h) = 1 .. at - 1
  BY <1>0 DEF FilesInv, AtNextTrial
<1>10. ASSUME NEW a \in Arm PROVE OnDisk(a)'
  <2>1. CASE a = h
    <3>1. at \in 0 .. Size[a] /\ FilesOf(a)' = 1 .. at
      BY <1>0, <1>7, <2>1
    <3>2. a \in TrustedArm => \E m \in 0 .. Size[a] : Readable(a)' = 1 .. m /\ FilesOf(a)' \subseteq 1 .. m + 1
      <4> SUFFICES ASSUME a \in TrustedArm
                   PROVE  \E m \in 0 .. Size[a] : Readable(a)' = 1 .. m /\ FilesOf(a)' \subseteq 1 .. m + 1
        OBVIOUS
      <4>1. Readable(h) = 1 .. at - 1
        BY <1>0, <1>9, <2>1
      <4>2. CASE t = Torn
        <5>1. at - 1 \in 0 .. Size[a] /\ Readable(a)' = 1 .. at - 1 /\ FilesOf(a)' \subseteq 1 .. (at - 1) + 1
          BY <1>0, <1>8, <2>1, <3>1, <4>1, <4>2
        <5> QED BY <5>1
      <4>3. CASE t # Torn
        <5>1. Readable(a)' = 1 .. at /\ FilesOf(a)' \subseteq 1 .. at + 1
          <6>1. (1 .. at - 1) \cup {at} = 1 .. at /\ 1 .. at \subseteq 1 .. at + 1
            BY <1>0
          <6> QED BY <1>8, <2>1, <3>1, <4>1, <4>3, <6>1
        <5> QED BY <3>1, <5>1
      <4> QED BY <4>2, <4>3
    <3> QED BY <3>1, <3>2 DEF OnDisk, TrustedArm, Trusting
  <2>2. CASE a # h
    BY <1>2, <2>2 DEF FilesInv, OnDisk, TrustedArm, Trusting
  <2> QED BY <2>1, <2>2
<1> QED BY <1>0, <1>1, <1>2, <1>7, <1>8, <1>9, <1>10

(* A step saves a trial, tears one, or leaves all of them as they are.     *)
LEMMA TrialsStep ==
  ASSUME FilesInv, [Next]_vars
  PROVE  \/ trials' = trials
         \/ /\ InTrial
            /\ \E t \in Kept \cup {Torn} : trials' = [trials EXCEPT ![Head(armTodo)][at] = t]
            /\ RunTrial \/ Off
<1> USE DEF files, loop, inside, bounds
<1>1. CASE RunTrial
  <2>1. PICK r \in IF Now = "exp6p1" THEN Session ELSE {<< >>} :
          trials' = [trials EXCEPT ![Head(armTodo)][at] =
               Trial(IF Head(armTodo) \in Defended THEN budget ELSE None, r)]
    BY <1>1 DEF RunTrial
  <2>2. InTrial /\ TypeInv
    BY <1>1 DEF RunTrial, FilesInv
  <2> QED BY <1>1, <2>1, <2>2, SavedType
<1>2. CASE Crash
  BY <1>2 DEF Crash
<1>3. CASE (\E o \in Option : Start(o)) \/ SkipStep \/ RunPlain \/ Record \/ Abort \/ EndRun
  BY <1>3 DEF Start, SkipStep, RunPlain, Record, Abort, EndRun
<1>4. CASE BeginGates \/ WaiveGate \/ PassGate \/ FailGate \/ GatesDone
  BY <1>4 DEF BeginGates, WaiveGate, PassGate, NextGate, FailGate, GatesDone
<1>5. CASE BeginArms \/ EnterArm \/ TrialError \/ EndArm \/ Calibrate
  BY <1>5 DEF BeginArms, EnterArm, TrialError, EndArm, Calibrate
<1>6. CASE UNCHANGED vars
  BY <1>6 DEF vars
<1> QED BY <1>1, <1>2, <1>3, <1>4, <1>5, <1>6 DEF Next, Inside

(* What is readable stays readable.                                        *)
LEMMA ReadableGrows ==
  ASSUME FilesInv, [Next]_vars, NEW a \in Arm
  PROVE  /\ Readable(a) \subseteq Readable(a)' /\ Readable(a)' \subseteq 1 .. Size[a]
         /\ OnDisk(a)'
<1>1. CASE trials' = trials
  BY <1>1 DEF Readable, FilesOf, FilesInv, OnDisk, TrustedArm, Trusting
<1>2. CASE InTrial /\ \E t \in Kept \cup {Torn} : trials' = [trials EXCEPT ![Head(armTodo)][at] = t]
  <2>1. PICK h \in Arm, t \in Kept \cup {Torn} : h = Head(armTodo) /\ trials' = [trials EXCEPT ![h][at] = t]
    BY <1>2, InTrialFact DEF FilesInv
  <2>2. /\ Readable(h)' = IF t = Torn THEN Readable(h) ELSE Readable(h) \cup {at}
        /\ \A b \in Arm \ {h} : Readable(b)' = Readable(b)
        /\ OnDisk(a)'
    BY <1>2, <2>1, Written
  <2>3. Readable(a)' \subseteq 1 .. Size[a]
    BY DEF Readable
  <2> QED BY <2>2, <2>3
<1> QED BY <1>1, <1>2, TrialsStep

LEMMA FilesStep == FilesInv /\ [Next]_vars => FilesInv'
<1> SUFFICES ASSUME FilesInv, [Next]_vars PROVE FilesInv'
  OBVIOUS
<1> USE DEF files, loop, inside, bounds
<1>1. TypeInv' /\ \A a \in Arm : OnDisk(a)'
  BY TypeStep, ReadableGrows DEF FilesInv
<1> SUFFICES AtNextTrial'
  BY <1>1 DEF FilesInv
<1>2. ASSUME pc' # "trials" \/ at' = 0 PROVE AtNextTrial'
  <2>1. at' \in Nat
    BY <1>1 DEF TypeInv, TypeOK, RunnerOK
  <2> QED BY <1>2, <2>1 DEF AtNextTrial
<1>3. CASE (\E o \in Option : Start(o)) \/ SkipStep \/ RunPlain \/ Record \/ Abort \/ EndRun
  BY <1>2, <1>3 DEF Start, SkipStep, RunPlain, Record, Abort, EndRun, EndStep, Off
<1>4. CASE BeginGates \/ WaiveGate \/ PassGate \/ FailGate \/ GatesDone
  BY <1>2, <1>4 DEF BeginGates, WaiveGate, PassGate, FailGate, GatesDone, EndStep, Off,
                    AtGate, NextGate
<1>5. CASE BeginArms \/ TrialError \/ EndArm \/ Calibrate \/ Crash
  <2>1. pc' # "trials" \/ at' = 0
    BY <1>5 DEF BeginArms, TrialError, EndArm, Calibrate, Crash, EndStep, Off
  <2> QED BY <1>2, <2>1
<1>6. CASE EnterArm
  <2>1. CASE EndStep("FAILED", "torn")
    BY <1>2, <2>1 DEF EndStep
  <2>2. CASE ~EndStep("FAILED", "torn")
    <3>1. PICK h \in Arm : /\ h = Head(armTodo) /\ at' = ResumeAt(Now, h)
                           /\ trials' = trials /\ UNCHANGED <<loop, armTodo>>
                           /\ h \in TrustedArm <=> Now \in Trusting
                           /\ Now \in Step /\ OnDisk(h)
      BY <1>6, <2>2, ArmsOfNow DEF EnterArm, FilesInv
    <3>2. Head(armTodo') = h /\ Now' = Now
      BY <3>1 DEF Now
    <3>3. Readable(h)' = Readable(h) /\ FilesOf(h)' = FilesOf(h)
      BY <3>1 DEF Readable, FilesOf
    <3>4. Size[h] \in Nat
      BY WaveAssumption
    <3>5. CASE Now \in Trusting
      <4>1. PICK m \in 0 .. Size[h] : Readable(h) = 1 .. m
        BY <3>1, <3>5 DEF OnDisk
      <4>2. m \in Nat /\ Cardinality(Readable(h)) = m
        BY <3>4, <4>1, FS_Interval
      <4>3. ResumeAt(Now, h) = m + 1
        BY <3>5, <4>2 DEF ResumeAt, Trusting
      <4>4. Readable(h)' = 1 .. at' - 1
        BY <3>1, <3>3, <4>1, <4>2, <4>3
      <4>5. Readable(Head(armTodo))' = 1 .. at' - 1
        BY <3>2, <4>4 DEF Readable
      <4>6. Now' \in Trusting
        BY <3>2, <3>5
      <4> QED BY <4>5, <4>6 DEF AtNextTrial, Trusting
    <3>6. CASE Now \notin Trusting
      <4>1. PICK k \in 0 .. Size[h] : FilesOf(h) = 1 .. k
        BY <3>1 DEF OnDisk
      <4>2. k \in Nat /\ Cardinality(FilesOf(h)) = k
        BY <3>4, <4>1, FS_Interval
      <4>3. ResumeAt(Now, h) = k + 1
        BY <3>1, <3>6, <4>2 DEF ResumeAt, Trusting
      <4>4. FilesOf(h)' = 1 .. at' - 1
        BY <3>1, <3>3, <4>1, <4>2, <4>3
      <4>5. FilesOf(Head(armTodo))' = 1 .. at' - 1
        BY <3>2, <4>4 DEF FilesOf
      <4>6. Now' \notin Trusting
        BY <3>2, <3>6
      <4> QED BY <4>5, <4>6 DEF AtNextTrial, Trusting
    <3> QED BY <3>5, <3>6
  <2> QED BY <2>1, <2>2
<1>7. CASE RunTrial
  <2>1. InTrial /\ at' = at + 1 /\ UNCHANGED <<loop, armTodo>>
    BY <1>7 DEF RunTrial
  <2>2. PICK r \in IF Now = "exp6p1" THEN Session ELSE {<< >>} :
          trials' = [trials EXCEPT ![Head(armTodo)][at] =
               Trial(IF Head(armTodo) \in Defended THEN budget ELSE None, r)]
    BY <1>7 DEF RunTrial
  <2>3. PICK t \in Kept : trials' = [trials EXCEPT ![Head(armTodo)][at] = t]
    BY <2>1, <2>2, SavedType DEF FilesInv
  <2>4. PICK h : h = Head(armTodo)
    OBVIOUS
  <2>5. /\ h \in Arm /\ at \in Nat
        /\ FilesOf(h)' = 1 .. at /\ Readable(h)' = Readable(h) \cup {at}
        /\ Now \in Trusting => Readable(h) = 1 .. at - 1
    <3>1. t # Torn
      BY KeptFact
    <3>2. at \in Nat
      BY DEF FilesInv, TypeInv, TypeOK, RunnerOK
    <3> QED BY <2>1, <2>3, <2>4, <3>1, <3>2, Written
  <2>6. at' - 1 = at /\ Head(armTodo') = h /\ Now' = Now
    BY <2>1, <2>4, <2>5 DEF Now
  <2>7. FilesOf(Head(armTodo))' = 1 .. at
    BY <2>5, <2>6 DEF FilesOf
  <2>8. Now \in Trusting => Readable(Head(armTodo))' = 1 .. at
    <3>1. (1 .. at - 1) \cup {at} = 1 .. at \/ at = 0
      BY <2>5
    <3>2. at > 0
      BY <2>1 DEF InTrial
    <3>3. Readable(Head(armTodo))' = Readable(h)'
      BY <2>6 DEF Readable
    <3>4. Now \in Trusting => Readable(h)' = (1 .. at - 1) \cup {at}
      BY <2>5
    <3>5. (1 .. at - 1) \cup {at} = 1 .. at
      BY <2>5, <3>1, <3>2
    <3> QED BY <3>3, <3>4, <3>5
  <2> QED BY <2>6, <2>7, <2>8 DEF AtNextTrial, Trusting
<1>8. CASE UNCHANGED vars
  BY <1>8 DEF vars, FilesInv, AtNextTrial, Now, Readable, FilesOf
<1> QED BY <1>3, <1>4, <1>5, <1>6, <1>7, <1>8 DEF Next, Inside

LEMMA FilesInit == Init => FilesInv
<1> SUFFICES ASSUME Init PROVE FilesInv
  OBVIOUS
<1>1. ASSUME NEW a \in Arm PROVE OnDisk(a)
  <2>1. Size[a] \in Nat /\ Readable(a) = {} /\ FilesOf(a) = {}
    BY WaveAssumption DEF Init, Readable, FilesOf
  <2>2. 0 \in 0 .. Size[a] /\ FilesOf(a) = 1 .. 0 /\ Readable(a) = 1 .. 0 /\ FilesOf(a) \subseteq 1 .. 0 + 1
    BY <2>1
  <2> QED BY <2>2 DEF OnDisk
<1> QED BY <1>1, TypeInit DEF FilesInv, AtNextTrial, Init

LEMMA AlwaysFiled == Spec => []FilesInv
  BY FilesInit, FilesStep, PTL DEF Spec

(* Resuming by counting the readable files is right: they are always the   *)
(* first ones, with at most one torn file behind them.                     *)
THEOREM ReadableAlwaysFirst == Spec => []ReadablePrefix
<1>1. FilesInv => ReadablePrefix
  <2> SUFFICES ASSUME FilesInv, NEW s \in Trusting, NEW a \in ArmsIn(s)
               PROVE  \E m \in 0 .. Size[a] : Readable(a) = 1 .. m /\ FilesOf(a) \subseteq 1 .. m + 1
    BY DEF ReadablePrefix
  <2>1. a \in Arm /\ a \in TrustedArm
    BY DEF Arm, TrustedArm, Trusting
  <2> QED BY <2>1 DEF FilesInv, OnDisk
<1> QED BY <1>1, AlwaysFiled, PTL

-----------------------------------------------------------------------------
(* The results of an arm are a log.                                        *)

LEMMA LeadingIs ==
  ASSUME NEW n \in Nat, NEW I \in SUBSET (1 .. n), NEW m \in 0 .. n, 1 .. m \subseteq I, m + 1 \notin I
  PROVE  Greatest({i \in 0 .. n : 1 .. i \subseteq I}) = m
<1> DEFINE S == {i \in 0 .. n : 1 .. i \subseteq I}
<1>1. m \in S /\ S \in SUBSET Int
  OBVIOUS
<1>2. ASSUME NEW y \in S, y > m PROVE FALSE
  <2>1. m + 1 \in 1 .. y
    BY <1>2
  <2> QED BY <2>1
<1>3. \A y \in S : m >= y
  BY <1>2
<1> QED BY <1>1, <1>3, GreatestIs

LEMMA LeadingFact ==
  ASSUME NEW n \in Nat, NEW I \in SUBSET (1 .. n)
  PROVE  \E m \in 0 .. n : 1 .. m \subseteq I /\ m + 1 \notin I
<1> DEFINE S == {i \in 0 .. n : 1 .. i \subseteq I}
<1>1. S \in SUBSET Nat /\ 0 \in S /\ \A i \in S : i <= n
  OBVIOUS
<1>2. Greatest(S) \in S /\ \A i \in S : Greatest(S) >= i
  BY <1>1, GreatestFact
<1> DEFINE m == Greatest(S)
<1>3. m \in 0 .. n /\ 1 .. m \subseteq I
  BY <1>2
<1>4. ASSUME m + 1 \in I PROVE FALSE
  <2>1. m + 1 \in 0 .. n /\ 1 .. (m + 1) = (1 .. m) \cup {m + 1}
    BY <1>3, <1>4
  <2>2. m + 1 \in S
    BY <1>3, <1>4, <2>1
  <2> QED BY <1>2, <1>3, <2>2
<1> QED BY <1>3, <1>4

(* A trial that is saved is a new result at the end of its arm, or lies    *)
(* behind a hole; one that is torn changes no result.                      *)
LEMMA LogStep ==
  ASSUME FilesInv, [Next]_vars
  PROVE  [Log!Next]_[a \in Arm |-> Results(a)]
<1> DEFINE before == [a \in Arm |-> Results(a)]
           after  == [a \in Arm |-> Results(a)']
<1> SUFFICES Log!Next \/ after = before
  OBVIOUS
<1>1. CASE trials' = trials
  <2>1. \A a \in Arm : Results(a)' = Results(a)
    BY <1>1 DEF Results, Readable
  <2> QED BY <2>1
<1>2. CASE InTrial /\ \E t \in Kept \cup {Torn} : trials' = [trials EXCEPT ![Head(armTodo)][at] = t]
  <2>1. PICK h \in Arm, t \in Kept \cup {Torn} : h = Head(armTodo) /\ trials' = [trials EXCEPT ![h][at] = t]
    BY <1>2, InTrialFact DEF FilesInv
  <2>2. /\ at \in 1 .. Size[h] /\ at \notin Readable(h) /\ FilesOf(h)' = 1 .. at
        /\ Readable(h)' = IF t = Torn THEN Readable(h) ELSE Readable(h) \cup {at}
        /\ trials'[h] = [trials[h] EXCEPT ![at] = t]
        /\ \A a \in Arm \ {h} : trials'[a] = trials[a] /\ Readable(a)' = Readable(a)
    BY <1>2, <2>1, Written
  <2>3. ASSUME NEW a \in Arm \ {h} PROVE Results(a)' = Results(a)
    <3>1. trials'[a] = trials[a] /\ Readable(a)' = Readable(a)
      BY <2>2
    <3> QED BY <3>1 DEF Results
  <2>4. Size[h] \in Nat /\ Readable(h) \in SUBSET (1 .. Size[h]) /\ Readable(h)' \in SUBSET (1 .. Size[h])
    BY WaveAssumption DEF Readable
  <2>5. PICK m \in 0 .. Size[h] : 1 .. m \subseteq Readable(h) /\ m + 1 \notin Readable(h)
    BY <2>4, LeadingFact
  <2>6. Results(h) = [i \in 1 .. m |-> trials[h][i]]
    BY <2>4, <2>5, LeadingIs DEF Results
  <2>7. \A i \in 1 .. Size[h] : i # at => trials'[h][i] = trials[h][i]
    BY <2>2
  <2>8. at \notin 1 .. m
    BY <2>2, <2>5
  <2>9. CASE t # Torn /\ at = m + 1
    <3>1. 1 .. at \subseteq Readable(h)' /\ at + 1 \notin Readable(h)'
      <4>1. Readable(h)' \subseteq FilesOf(h)'
        BY TornAssumption DEF Readable, FilesOf
      <4>2. at + 1 \notin 1 .. at /\ 1 .. at = (1 .. m) \cup {at}
        BY <2>2, <2>9
      <4> QED BY <2>2, <2>5, <2>9, <4>1, <4>2
    <3>2. Results(h)' = [i \in 1 .. at |-> trials'[h][i]]
      <4>1. at \in 0 .. Size[h]
        BY <2>2
      <4>2. Greatest({i \in 0 .. Size[h] : 1 .. i \subseteq Readable(h)'}) = at
        BY <2>4, <3>1, <4>1, LeadingIs
      <4> QED BY <4>2 DEF Results
    <3>3. Results(h)' = Append(Results(h), t)
      <4>1. DOMAIN trials[h] = 1 .. Size[h]
        BY DEF FilesInv, TypeInv, TypeOK, FilesOK
      <4>2. trials'[h][at] = t
        BY <2>2, <4>1
      <4>3. Results(h) \in Seq(Kept) /\ Len(Results(h)) = m
        <5>1. \A i \in 1 .. m : trials[h][i] \in Kept
          <6>1. trials[h] \in [1 .. Size[h] -> Kept \cup {None, Torn}]
            BY DEF FilesInv, TypeInv, TypeOK, FilesOK
          <6>2. \A i \in 1 .. m : i \in 1 .. Size[h] /\ trials[h][i] \notin {None, Torn}
            BY <2>5 DEF Readable
          <6> QED BY <6>1, <6>2
        <5>2. Results(h) \in [1 .. m -> Kept] /\ m \in Nat
          BY <2>4, <2>6, <5>1
        <5> QED BY <5>2, SeqDef
      <4>4. /\ Append(Results(h), t) \in Seq(Kept) /\ Len(Append(Results(h), t)) = m + 1
            /\ Append(Results(h), t)[m + 1] = t
            /\ \A i \in 1 .. m : Append(Results(h), t)[i] = Results(h)[i]
        BY <2>9, <4>3, AppendProperties
      <4>5. Results(h)' \in [1 .. at -> Kept] /\ at \in Nat
        <5>1. \A i \in 1 .. at : i # at => i \in 1 .. m
          BY <2>2, <2>9
        <5>2. \A i \in 1 .. at : trials'[h][i] = IF i = at THEN t ELSE Results(h)[i]
          BY <2>2, <2>6, <2>7, <2>9, <4>2, <5>1
        <5>3. \A i \in 1 .. m : Results(h)[i] \in Kept
          BY <4>3
        <5> QED BY <2>2, <2>9, <3>2, <5>1, <5>2, <5>3
      <4>6. Results(h)' \in Seq(Kept) /\ Len(Results(h)') = at
        BY <4>5, SeqDef
      <4>7. \A i \in 1 .. at : Results(h)'[i] = Append(Results(h), t)[i]
        <5>1. \A i \in 1 .. at : i = at \/ i \in 1 .. m
          BY <2>2, <2>9
        <5>2. \A i \in 1 .. m : Results(h)[i] = trials[h][i] /\ i \in 1 .. Size[h] /\ i # at
          BY <2>4, <2>5, <2>6, <2>8
        <5> QED BY <2>7, <2>9, <3>2, <4>2, <4>4, <5>1, <5>2
      <4> QED BY <2>9, <4>4, <4>6, <4>7, SeqEqual
    <3>4. after = [before EXCEPT ![h] = Append(before[h], t)]
      BY <2>3, <3>3
    <3>5. Len(before[h]) < Size[h] /\ t \in Kept
      <4>1. before[h] \in [1 .. m -> Kept \cup {None, Torn}] /\ m \in Nat
        BY <2>4, <2>6 DEF FilesInv, TypeInv, TypeOK, FilesOK
      <4>2. Len(before[h]) = m
        BY <4>1, SeqDef
      <4>3. m < Size[h] /\ t \in Kept
        BY <2>2, <2>4, <2>9
      <4> QED BY <4>2, <4>3
    <3> QED BY <3>4, <3>5 DEF Log!Next, Log!Add
  <2>10. CASE t = Torn \/ at # m + 1
    <3>1. 1 .. m \subseteq Readable(h)' /\ m + 1 \notin Readable(h)'
      BY <2>2, <2>5, <2>10
    <3>2. Results(h)' = [i \in 1 .. m |-> trials'[h][i]]
      BY <2>4, <2>5, <3>1, LeadingIs DEF Results
    <3>3. \A i \in 1 .. m : trials'[h][i] = trials[h][i]
      BY <2>5, <2>7, <2>8, <2>4
    <3>4. Results(h)' = Results(h)
      BY <2>6, <3>2, <3>3
    <3> QED BY <2>3, <3>4
  <2> QED BY <2>9, <2>10
<1> QED BY <1>1, <1>2, TrialsStep

(* Through kills, torn files, errors and restarts, the results of an arm   *)
(* only grow, by one trial at a time at the end.                           *)
THEOREM CampaignImplementsLog == Spec => ImplementsLog
<1>1. Init => Log!Init
  <2> SUFFICES ASSUME Init PROVE Log!Init
    OBVIOUS
  <2>1. ASSUME NEW a \in Arm PROVE Results(a) = << >>
    <3>1. Size[a] \in Nat /\ Readable(a) = {}
      BY WaveAssumption DEF Init, Readable
    <3>2. Greatest({i \in 0 .. Size[a] : 1 .. i \subseteq Readable(a)}) = 0
      <4>1. 0 \in 0 .. Size[a] /\ 1 .. 0 \subseteq Readable(a)
        BY <3>1
      <4> QED BY <3>1, <4>1, LeadingIs
    <3>3. Results(a) = [i \in 1 .. 0 |-> trials[a][i]]
      BY <3>2 DEF Results
    <3> QED BY <3>3
  <2> QED BY <2>1 DEF Log!Init
<1>2. FilesInv /\ [Next]_vars => [Log!Next]_[a \in Arm |-> Results(a)]
  BY LogStep
<1>3. Spec => Log!Init
  BY <1>1, PTL DEF Spec
<1>4. Spec => [][Next]_vars
  BY PTL DEF Spec
<1>5. Spec => [][Log!Next]_[a \in Arm |-> Results(a)]
  BY <1>2, <1>4, AlwaysFiled, PTL
<1> QED BY <1>3, <1>5, PTL DEF ImplementsLog, Log!Spec

-----------------------------------------------------------------------------
(* A step that is ok is complete.                                          *)

Whole(a) == Readable(a) = 1 .. Size[a]

OkIsWhole(status) == \A s \in Trusting : status[s] = "ok" => Complete(s)

DoneInv ==
  /\ FilesInv
  /\ progress # Torn => OkIsWhole(progress)
  /\ OkIsWhole(completed)
  /\ pc = "trials" /\ Now \in Trusting => \A a \in ArmsIn(Now) : a \in Pending(armTodo) \/ Whole(a)
  /\ pc = "calibrate" /\ Now \in Trusting => Complete(Now)

LEMMA WholeStays ==
  ASSUME FilesInv, [Next]_vars
  PROVE  /\ \A a \in Arm : Whole(a) => Whole(a)'
         /\ \A s \in Step : Complete(s) => Complete(s)'
<1>1. ASSUME NEW a \in Arm, Readable(a) = 1 .. Size[a] PROVE Readable(a)' = 1 .. Size[a]
  BY <1>1, ReadableGrows
<1>2. \A s \in Step : ArmsIn(s) \subseteq Arm
  BY DEF Arm
<1> QED BY <1>1, <1>2 DEF Whole, Complete

(* An arm whose last trial is behind the runner.                           *)
LEMMA ArmDone ==
  ASSUME DoneInv, pc = "trials", at > 0, ~InTrial, Now \in Trusting
  PROVE  Whole(Head(armTodo))
<1>1. /\ Head(armTodo) \in Arm /\ at \in Nat /\ at <= Size[Head(armTodo)] + 1
      /\ ~(at <= Size[Head(armTodo)]) /\ Readable(Head(armTodo)) = 1 .. at - 1
  BY ArmsOfNow DEF DoneInv, FilesInv, TypeInv, TypeOK, RunnerOK, Place, InTrial, AtNextTrial
<1>2. Size[Head(armTodo)] \in Nat
  BY <1>1, WaveAssumption
<1>3. at - 1 = Size[Head(armTodo)]
  BY <1>1, <1>2
<1> QED BY <1>1, <1>3 DEF Whole

LEMMA DoneStep == DoneInv /\ [Next]_vars => DoneInv'
<1> SUFFICES ASSUME DoneInv, [Next]_vars PROVE DoneInv'
  OBVIOUS
<1> USE DEF files, loop, inside, bounds
<1>0. /\ FilesInv' /\ FilesInv /\ TypeInv /\ TypeInv' /\ Trusting \subseteq Step /\ Trusting' = Trusting
      /\ progress \in [Step -> Status] \cup {Torn} /\ completed \in [Step -> Status]
      /\ Torn \notin [Step -> Status]
  BY FilesStep, TypeStep, TornAssumption
     DEF DoneInv, FilesInv, TypeInv, TypeOK, FilesOK, RunnerOK, Trusting
<1>1. /\ \A a \in Arm : Whole(a) => Whole(a)'
      /\ \A s \in Step : Complete(s) => Complete(s)'
  BY <1>0, WholeStays
<1>2. \A f : OkIsWhole(f) => \A s \in Trusting : f[s] = "ok" => Complete(s)'
  BY <1>0, <1>1 DEF OkIsWhole
<1> DEFINE OkWhole(f) == \A s \in Trusting : f[s] = "ok" => Complete(s)'
           Arms == pc' = "trials" /\ Now' \in Trusting
                     => \A a \in ArmsIn(Now') : a \in Pending(armTodo') \/ Whole(a)'
           Last == pc' = "calibrate" /\ Now' \in Trusting => \A a \in ArmsIn(Now') : Whole(a)'
<1> SUFFICES /\ progress' # Torn => OkWhole(progress')
             /\ OkWhole(completed') /\ Arms /\ Last
  BY <1>0 DEF DoneInv, OkIsWhole, Complete, Whole
<1>3. /\ progress # Torn => OkWhole(progress)
      /\ OkWhole(completed)
  BY <1>2 DEF DoneInv
<1>4. OkWhole([s \in Step |-> "none"])
  BY <1>0
<1>5. ASSUME NEW status, NEW reason, EndStep(status, reason),
             status = "ok" /\ Now \in Trusting => Complete(Now)
      PROVE  OkWhole(completed') /\ pc' = "record"
  <2>1. completed' = [completed EXCEPT ![Now] = status] /\ pc' = "record"
    BY <1>5 DEF EndStep
  <2>2. ASSUME NEW s \in Trusting, completed'[s] = "ok" PROVE Complete(s)'
    <3>1. CASE s = Now
      <4>1. status = "ok"
        BY <1>0, <2>1, <2>2, <3>1
      <4> QED BY <1>0, <1>1, <1>5, <3>1, <4>1
    <3>2. CASE s # Now
      BY <1>0, <1>3, <2>1, <2>2, <3>2
    <3> QED BY <3>1, <3>2
  <2> QED BY <2>1, <2>2
<1>6. ASSUME Off PROVE OkWhole(completed') /\ pc' = "off"
  BY <1>4, <1>6 DEF Off
<1>7. CASE \E o \in Option : Start(o)
  <2>1. completed' = Recorded /\ pc' = "loop" /\ progress' = progress
    BY <1>7 DEF Start, Seed
  <2>2. OkWhole(Recorded)
    BY <1>3, <1>4 DEF Recorded
  <2> QED BY <1>3, <2>1, <2>2
<1>8. CASE SkipStep
  <2>1. completed' = [completed EXCEPT ![Now] = "skipped"] /\ pc' = "loop" /\ progress' = progress
    BY <1>8 DEF SkipStep
  <2>2. \A s \in Trusting : completed'[s] = "ok" => completed[s] = "ok"
    BY <1>0, <2>1
  <2> QED BY <1>3, <2>1, <2>2
<1>9. CASE RunPlain
  <2>1. PICK status, reason : EndStep(status, reason) /\ ArmsOf[Now] = << >> /\ progress' = progress
    <3>1. \E status \in {"ok", "FAILED"}, reason \in {"none", "error"} :
            EndStep(status, reason) /\ ArmsOf[Now] = << >> /\ progress' = progress
      BY <1>9 DEF RunPlain, Enter
    <3> QED BY <3>1
  <2>2. Complete(Now)
    BY <2>1 DEF Complete, ArmsIn
  <2> QED BY <1>3, <1>5, <2>1, <2>2
<1>10. CASE Record
  <2>1. progress' = completed /\ completed' = completed /\ pc' = "loop"
    BY <1>10 DEF Record
  <2> QED BY <1>3, <2>1
<1>11. CASE Abort \/ EndRun \/ FailGate
  <2>1. Off /\ progress' = progress
    BY <1>11 DEF Abort, EndRun, FailGate
  <2> QED BY <1>3, <1>6, <2>1
<1>12. CASE BeginGates \/ WaiveGate \/ PassGate
  <2>1. progress' = progress /\ completed' = completed /\ pc' = "gates"
    BY <1>12 DEF BeginGates, WaiveGate, PassGate, AtGate, NextGate
  <2> QED BY <1>3, <2>1
<1>13. CASE GatesDone
  <2>1. /\ Now = "gates" /\ progress' = progress
        /\ \E status \in Status, reason \in {"none", "error"} : EndStep(status, reason)
    BY <1>0, <1>13 DEF GatesDone, TypeInv, Place, Status
  <2>2. Complete(Now)
    BY <2>1, WaveAssumption DEF Complete, ArmsIn
  <2> QED BY <1>3, <1>5, <2>1, <2>2
<1>14. CASE BeginArms
  <2>1. CASE EndStep("FAILED", "torn")
    <3>1. progress' = progress
      BY <1>14 DEF BeginArms
    <3> QED BY <1>3, <1>5, <2>1, <3>1
  <2>2. CASE ~EndStep("FAILED", "torn")
    <3>1. PICK s \in Step :
            /\ Now = s /\ pc' = "trials" /\ armTodo' = ArmsOf[s]
            /\ UNCHANGED <<todo, completed, progress>>
      BY <1>14, <2>2 DEF BeginArms, Enter
    <3>2. Arms
      BY <3>1 DEF Pending, ArmsIn, Now
    <3> QED BY <1>3, <3>1, <3>2
  <2> QED BY <2>1, <2>2
<1>15. ASSUME pc = "trials", pc' = "trials", UNCHANGED <<todo, armTodo>> PROVE Arms
  <2>1. Now' = Now
    BY <1>15 DEF Now
  <2>2. ASSUME Now \in Trusting PROVE \A a \in ArmsIn(Now) : a \in Pending(armTodo) \/ Whole(a)'
    BY <1>0, <1>1, <1>15, <2>2 DEF DoneInv, Arm
  <2> QED BY <1>15, <2>1, <2>2
<1>16. CASE EnterArm
  <2>1. CASE EndStep("FAILED", "torn")
    <3>1. progress' = progress
      BY <1>16 DEF EnterArm
    <3> QED BY <1>3, <1>5, <2>1, <3>1
  <2>2. CASE ~EndStep("FAILED", "torn")
    <3>1. pc = "trials" /\ UNCHANGED <<pc, todo, armTodo, completed, progress>>
      BY <1>16, <2>2 DEF EnterArm
    <3> QED BY <1>3, <1>15, <3>1
  <2> QED BY <2>1, <2>2
<1>17. CASE RunTrial
  <2>1. pc = "trials" /\ UNCHANGED <<pc, todo, armTodo, completed, progress>>
    BY <1>17 DEF RunTrial, InTrial
  <2> QED BY <1>3, <1>15, <2>1
<1>18. CASE TrialError
  <2>1. EndStep("FAILED", "error") /\ progress' = progress
    BY <1>18 DEF TrialError
  <2> QED BY <1>3, <1>5, <2>1
<1>19. CASE EndArm
  <2>0. /\ pc = "trials" /\ at > 0 /\ ~InTrial /\ progress' = progress
        /\ armTodo \in Seq(Arm) /\ armTodo # << >>
    BY <1>0, <1>19 DEF EndArm, TypeInv, TypeOK, RunnerOK, Place
  <2>1. Now \in Trusting => \A a \in ArmsIn(Now) : a \in Pending(Tail(armTodo)) \/ Whole(a)
    <3>1. Now \in Trusting => \A a \in ArmsIn(Now) : a \in Pending(armTodo) \/ Whole(a)
      BY <2>0 DEF DoneInv
    <3>2. Now \in Trusting => Whole(Head(armTodo))
      BY <2>0, ArmDone
    <3> QED BY <2>0, <3>1, <3>2, PendingTail
  <2>2. CASE Len(armTodo) = 1
    <3>1. Pending(Tail(armTodo)) = {}
      <4>1. DOMAIN Tail(armTodo) = {}
        <5>1. Tail(armTodo) \in Seq(Arm) /\ Len(Tail(armTodo)) = 0
          BY <2>0, <2>2, PendingTail
        <5>2. DOMAIN Tail(armTodo) = 1 .. 0
          BY <5>1, LenProperties
        <5> QED BY <5>2
      <4> QED BY <4>1 DEF Pending
    <3>2. Now \in Trusting => Complete(Now)
      BY <2>1, <3>1 DEF Complete, Whole
    <3>3. CASE EndStep("ok", "none")
      BY <1>3, <1>5, <2>0, <3>2, <3>3
    <3>4. CASE pc' = "calibrate" /\ UNCHANGED <<todo, completed>>
      <4>1. Last
        <5>1. Now' = Now
          BY <3>4 DEF Now
        <5>2. Now \in Trusting => \A a \in ArmsIn(Now) : Whole(a)'
          BY <1>0, <1>1, <3>2 DEF Complete, Whole, Arm
        <5> QED BY <5>1, <5>2
      <4> QED BY <1>3, <2>0, <3>4, <4>1
    <3> QED BY <1>19, <2>2, <3>3, <3>4 DEF EndArm
  <2>3. CASE Len(armTodo) # 1
    <3>1. pc' = "trials" /\ armTodo' = Tail(armTodo) /\ UNCHANGED <<todo, completed>>
      BY <1>19, <2>0, <2>3 DEF EndArm
    <3>2. Arms
      <4>1. Now' = Now
        BY <3>1 DEF Now
      <4>2. Now \in Trusting => \A a \in ArmsIn(Now) : a \in Pending(Tail(armTodo)) \/ Whole(a)'
        BY <1>0, <1>1, <2>1 DEF Arm
      <4> QED BY <3>1, <4>1, <4>2
    <3> QED BY <1>3, <2>0, <3>1, <3>2
  <2> QED BY <2>2, <2>3
<1>20. CASE Calibrate
  <2>1. progress' = progress /\ \E status \in {"ok", "FAILED"}, reason \in {"none", "no data"} : EndStep(status, reason)
    BY <1>20 DEF Calibrate
  <2>2. Now \in Trusting => Complete(Now)
    BY <1>20 DEF Calibrate, DoneInv
  <2> QED BY <1>3, <1>5, <2>1, <2>2
<1>21. CASE Crash
  <2>1. Off /\ (progress' = progress \/ progress' = Torn)
    BY <1>21 DEF Crash
  <2> QED BY <1>3, <1>6, <2>1
<1>22. CASE UNCHANGED vars
  <2>1. UNCHANGED <<pc, todo, armTodo, completed, progress>>
    BY <1>22 DEF vars
  <2>2. Last
    <3>1. Now' = Now
      BY <2>1 DEF Now
    <3>2. pc = "calibrate" /\ Now \in Trusting => \A a \in ArmsIn(Now) : Whole(a)'
      BY <1>0, <1>1 DEF DoneInv, Complete, Whole, Arm
    <3> QED BY <2>1, <3>1, <3>2
  <2>3. Arms
    BY <1>15, <2>1
  <2> QED BY <1>3, <2>1, <2>2, <2>3
<1> QED
  BY <1>7, <1>8, <1>9, <1>10, <1>11, <1>12, <1>13, <1>14, <1>16, <1>17, <1>18, <1>19, <1>20, <1>21, <1>22
     DEF Next, Inside

(* A step recorded as ok has every trial of its arms on disk, whatever     *)
(* kills, errors, torn files and manual starts came before.                *)
THEOREM OkAlwaysComplete == Spec => []OkMeansComplete
<1>1. Init => DoneInv
  <2> SUFFICES ASSUME Init PROVE DoneInv
    OBVIOUS
  <2>1. \A s \in Trusting : progress[s] # "ok" /\ completed[s] # "ok"
    BY DEF Init, Trusting
  <2> QED BY <2>1, FilesInit DEF DoneInv, OkIsWhole, Init
<1>2. DoneInv => OkMeansComplete
  BY DEF DoneInv, OkIsWhole, OkMeansComplete
<1> QED BY <1>1, <1>2, DoneStep, PTL DEF Spec

-----------------------------------------------------------------------------
(***************************************************************************)
(* The gates come before the trials, in a wave that begins with them.      *)
(***************************************************************************)
GatesFirst == Len(StepOrder) >= 1 /\ StepOrder[1] = "gates"

(* What lets a process write trials.                                       *)
Admitted == cleared = Gate \/ completed["gates"] = "ok" \/ RoundTheGates(opt)

ToTheGates == todo # << >> /\ Now = "gates"

(* The process is admitted, at the gates, or about to enter them.          *)
GatesInv ==
  /\ TypeInv
  /\ pc = "gates" => Gate \subseteq cleared \cup Pending(gateTodo)
  /\ pc \in {"trials", "calibrate", "record"} => Admitted
  /\ pc = "loop" => Admitted \/ ToTheGates

LEMMA StartAtGates ==
  ASSUME GatesFirst, TypeInv, NEW o \in Option, Start(o)
  PROVE  (Admitted \/ ToTheGates)'
<1>0. /\ todo' = Todo(o) /\ opt' = o /\ completed' = Recorded /\ Todo(o) # << >>
      /\ StepOrder \in Seq(Step) /\ "gates" \in Step
      /\ DOMAIN StepOrder = 1 .. Len(StepOrder) /\ Len(StepOrder) \in Nat
  BY WaveAssumption, LenProperties DEF Start, Seed
<1>1. CASE RoundTheGates(o) \/ Recorded["gates"] = "ok"
  BY <1>0, <1>1 DEF Admitted, RoundTheGates
<1>2. CASE ~RoundTheGates(o) /\ Recorded["gates"] # "ok"
  <2>0. o.only = None /\ o.from \in {None, "gates"}
    BY <1>2 DEF RoundTheGates
  <2>1. ASSUME todo' = StepsFrom(1) PROVE ToTheGates'
    <3>1. /\ Len(StepsFrom(1)) = Len(StepOrder)
          /\ StepsFrom(1)[1] = "gates" /\ StepsFrom(1) \in Seq(Step)
      <4>1. 1 \in 1 .. Len(StepOrder) + 1 /\ \A i \in 1 .. Len(StepOrder) : StepOrder[i] \in Step
        BY <1>0, ElementOfSeq DEF GatesFirst
      <4>2. /\ StepsFrom(1) \in Seq(Step) /\ Len(StepsFrom(1)) = Len(StepOrder)
            /\ \A i \in 1 .. Len(StepOrder) : StepsFrom(1)[i] = StepOrder[i]
        BY <1>0, <4>1, SubSeqProperties DEF StepsFrom, GatesFirst
      <4> QED BY <1>0, <4>2 DEF GatesFirst
    <3>2. Head(todo') = "gates"
      BY <1>0, <2>1, <3>1, PendingTail
    <3> QED BY <1>0, <3>2 DEF ToTheGates, Now
  <2>2. CASE o.from = "gates"
    <3> DEFINE I == {i \in DOMAIN StepOrder : StepOrder[i] = "gates"}
    <3>1. I \in SUBSET Int /\ 1 \in I /\ \A i \in I : 1 <= i
      BY <1>0 DEF GatesFirst
    <3>2. Least(I) = 1
      BY <3>1, LeastIs
    <3>3. o.from # None
      BY <1>0, <2>2, TornAssumption
    <3> QED BY <1>0, <2>0, <2>1, <2>2, <3>2, <3>3 DEF Todo
  <2>3. CASE o.from = None
    <3>1. Open \in SUBSET Int /\ 1 \in Open /\ \A i \in Open : 1 <= i
      BY <1>0, <1>2 DEF GatesFirst, Open
    <3>2. Least(Open) = 1
      BY <3>1, LeastIs
    <3> QED BY <1>0, <2>0, <2>1, <2>3, <3>1, <3>2 DEF Todo
  <2> QED BY <2>0, <2>2, <2>3
<1> QED BY <1>1, <1>2

LEMMA GatesStep == GatesFirst /\ GatesInv /\ [Next]_vars => GatesInv'
<1> SUFFICES ASSUME GatesFirst, GatesInv, [Next]_vars PROVE GatesInv'
  OBVIOUS
<1> USE DEF files, loop, inside, bounds
<1> DEFINE Counted == pc' = "gates" => Gate \subseteq cleared' \cup Pending(gateTodo')
           Behind == pc' \in {"trials", "calibrate", "record"} => Admitted'
           Ahead == pc' = "loop" => Admitted' \/ ToTheGates'
<1>0. /\ TypeInv /\ TypeInv' /\ "gates" \in Step /\ cleared' \subseteq Gate
      /\ completed \in [Step -> Status] /\ todo \in Seq(Step) /\ gateTodo \in Seq(Gate)
  BY TypeStep, WaveAssumption DEF GatesInv, TypeInv, TypeOK, RunnerOK
<1> SUFFICES Counted /\ Behind /\ Ahead
  <2>1. Pending(gateTodo)' = Pending(gateTodo')
    BY DEF Pending
  <2> QED BY <1>0, <2>1 DEF GatesInv
<1>1. /\ pc = "gates" => Gate \subseteq cleared \cup Pending(gateTodo)
      /\ pc \in {"trials", "calibrate", "record"} => Admitted
      /\ pc = "loop" => Admitted \/ ToTheGates
  BY DEF GatesInv
<1>2. ASSUME Off PROVE Counted /\ Behind /\ Ahead
  BY <1>2 DEF Off
<1>3. ASSUME UNCHANGED <<cleared, completed, opt>>, Admitted PROVE Admitted'
  BY <1>3 DEF Admitted
<1>4. ASSUME NEW status, NEW reason, EndStep(status, reason), Admitted, Now # "gates"
      PROVE  Counted /\ Behind /\ Ahead
  <2>1. /\ completed' = [completed EXCEPT ![Now] = status] /\ pc' = "record"
        /\ opt' = opt /\ cleared' = cleared
    BY <1>4 DEF EndStep
  <2>2. completed'["gates"] = completed["gates"]
    BY <1>0, <1>4, <2>1
  <2> QED BY <1>4, <2>1, <2>2 DEF Admitted
<1>5. pc \in {"trials", "calibrate"} => Now # "gates"
  <2>1. ArmsIn("gates") = {} /\ "exp6p1" # "gates"
    BY WaveAssumption DEF ArmsIn
  <2>2. pc = "trials" => ArmsIn(Now) # {}
    <3>1. pc = "trials" => armTodo \in Seq(Arm) /\ armTodo # << >> /\ Pending(armTodo) \subseteq ArmsIn(Now)
      BY <1>0 DEF TypeInv, TypeOK, RunnerOK, Place
    <3>2. pc = "trials" => Head(armTodo) \in Pending(armTodo)
      BY <3>1, PendingTail
    <3> QED BY <3>1, <3>2
  <2> QED BY <1>0, <2>1, <2>2 DEF TypeInv, Place
<1>6. CASE \E o \in Option : Start(o)
  <2>1. PICK o \in Option : Start(o)
    BY <1>6
  <2>2. (Admitted \/ ToTheGates)' /\ pc' = "loop"
    BY <1>0, <2>1, StartAtGates DEF Start
  <2> QED BY <2>2
<1>7. CASE SkipStep
  <2>1. /\ pc = "loop" /\ pc' = "loop" /\ Now \in opt.skip /\ UNCHANGED <<opt, cleared>>
        /\ completed' = [completed EXCEPT ![Now] = "skipped"]
    BY <1>7 DEF SkipStep
  <2>2. Admitted'
    <3>1. CASE Now = "gates"
      BY <2>1, <3>1 DEF Admitted, RoundTheGates
    <3>2. CASE Now # "gates"
      BY <1>0, <1>1, <2>1, <3>2 DEF Admitted, ToTheGates
    <3> QED BY <3>1, <3>2
  <2> QED BY <2>1, <2>2
<1>8. CASE RunPlain
  <2>1. \E status \in {"ok", "FAILED"}, reason \in {"none", "error"} : EndStep(status, reason)
    BY <1>8 DEF RunPlain
  <2>2. Admitted /\ Now # "gates"
    BY <1>1, <1>8 DEF RunPlain, Enter, ToTheGates
  <2> QED BY <1>4, <2>1, <2>2
<1>9. CASE Record
  <2>1. pc = "record" /\ pc' = "loop" /\ UNCHANGED <<cleared, completed, opt>>
    BY <1>9 DEF Record
  <2> QED BY <1>1, <1>3, <2>1
<1>10. CASE Abort \/ EndRun \/ FailGate \/ Crash
  BY <1>2, <1>10 DEF Abort, EndRun, FailGate, Crash
<1>11. CASE BeginGates
  BY <1>11 DEF BeginGates, Gate, Pending
<1>12. CASE WaiveGate \/ PassGate
  <2>1. PICK g : AtGate(g) /\ NextGate /\ cleared' = cleared \cup {g}
    BY <1>12 DEF WaiveGate, PassGate
  <2>2. /\ pc = "gates" /\ pc' = "gates" /\ gateTodo # << >> /\ g = Head(gateTodo)
        /\ gateTodo' = Tail(gateTodo)
    BY <2>1 DEF AtGate, NextGate
  <2>3. Pending(gateTodo) = {g} \cup Pending(gateTodo')
    BY <1>0, <2>2, PendingTail
  <2> QED BY <1>1, <2>1, <2>2, <2>3
<1>13. CASE GatesDone
  <2>1. pc = "gates" /\ gateTodo = << >> /\ pc' = "record" /\ cleared' = cleared
    BY <1>13 DEF GatesDone, EndStep
  <2>2. Pending(gateTodo) = {}
    BY <2>1 DEF Pending
  <2>3. cleared' = Gate
    BY <1>0, <1>1, <2>1, <2>2
  <2> QED BY <2>1, <2>3 DEF Admitted
<1>14. CASE BeginArms
  <2>1. PICK s \in Step : ArmsOf[s] # << >> /\ pc = "loop" /\ Now = s
    BY <1>14 DEF BeginArms, Enter
  <2>2. Admitted /\ Now # "gates"
    BY <1>1, <2>1, WaveAssumption DEF ToTheGates
  <2>3. CASE EndStep("FAILED", "torn")
    BY <1>4, <2>2, <2>3
  <2>4. CASE ~EndStep("FAILED", "torn")
    <3>1. pc' = "trials" /\ UNCHANGED <<cleared, completed, opt>>
      BY <1>14, <2>4 DEF BeginArms
    <3> QED BY <1>3, <2>2, <3>1
  <2> QED BY <2>3, <2>4
<1>15. CASE EnterArm \/ RunTrial \/ TrialError \/ EndArm \/ Calibrate
  <2>1. Admitted /\ Now # "gates"
    BY <1>1, <1>5, <1>15 DEF EnterArm, RunTrial, InTrial, TrialError, EndArm, Calibrate
  <2>2. \/ \E status \in Status, reason \in {"none", "torn", "error", "no data"} : EndStep(status, reason)
        \/ pc' \in {"trials", "calibrate"} /\ UNCHANGED <<cleared, completed, opt>>
    BY <1>15 DEF EnterArm, RunTrial, InTrial, TrialError, EndArm, Calibrate, Status
  <2> QED BY <1>3, <1>4, <2>1, <2>2
<1>16. CASE UNCHANGED vars
  <2>1. UNCHANGED <<loop, inside, cleared>>
    BY <1>16 DEF vars
  <2> QED BY <1>1, <2>1 DEF Admitted, ToTheGates, Now
<1> QED
  BY <1>6, <1>7, <1>8, <1>9, <1>10, <1>11, <1>12, <1>13, <1>14, <1>15, <1>16 DEF Next, Inside

(* In a wave that begins with the gates, whatever the options of the       *)
(* operator: a process writes a trial only when it has itself had every    *)
(* gate pass or be waived, unless it found them all waived or was sent     *)
(* round them.  No kill, no failed gate and no exception leads past them.  *)
THEOREM GatesAlwaysBeforeTrials == GatesFirst /\ Spec => GatesBeforeTrials
<1>1. GatesFirst /\ Init => GatesInv
  BY TypeInit DEF Init, GatesInv
<1>2. GatesInv /\ FilesInv /\ [Next]_vars => [trials' # trials => Admitted]_vars
  <2> SUFFICES ASSUME GatesInv, FilesInv, [Next]_vars, trials' # trials PROVE Admitted
    OBVIOUS
  <2>1. pc = "trials"
    BY TrialsStep DEF InTrial
  <2> QED BY <2>1 DEF GatesInv
<1>3. GatesFirst /\ Spec => []GatesInv
  <2> SUFFICES ASSUME GatesFirst PROVE Spec => []GatesInv
    OBVIOUS
  <2>1. Init => GatesInv
    BY <1>1
  <2>2. GatesInv /\ [Next]_vars => GatesInv'
    BY GatesStep
  <2> QED BY <2>1, <2>2, PTL DEF Spec
<1>4. [][trials' # trials => Admitted]_vars => GatesBeforeTrials
  BY PTL DEF GatesBeforeTrials, Admitted
<1> QED BY <1>2, <1>3, <1>4, AlwaysFiled, PTL DEF Spec

-----------------------------------------------------------------------------
(***************************************************************************)
(* The budget of the defended arms, in a wave whose calibration has one    *)
(* arm, resumed by its readable files, and whose defended arms belong to   *)
(* steps that load k*.                                                     *)
(***************************************************************************)
OneCalibration ==
  /\ Len(ArmsOf["exp6p1"]) = 1 /\ Resume["exp6p1"] # "count"
  /\ Defended \subseteq UNION {ArmsIn(s) : s \in NeedsKStar}

(* Before the first k* there is the default only; with a k*, a trial under *)
(* another budget came before and k* is that of the files.                 *)
Settled(a) ==
  /\ kstar = None => \A i \in Readable(a) : trials[a][i].budget = DefaultKStar
  /\ kstar \notin {None, Torn} =>
       \A i \in Readable(a) : trials[a][i].budget \notin {DefaultKStar, kstar} => kstar = KStar(Filed)
  /\ \A i, j \in Readable(a) :
       i < j /\ trials[a][i].budget \notin {DefaultKStar, trials[a][j].budget}
         => trials[a][j].budget = KStar(Filed)

(* Once there is a k*, the files it was computed from are complete, and a  *)
(* calibration that is repeated computes with them alone.                  *)
SettleInv ==
  /\ DoneInv
  /\ kstar # None => Complete("exp6p1")
  /\ ((pc = "trials" /\ at > 0) \/ pc = "calibrate") /\ Now = "exp6p1" /\ kstar # None => mem = Filed
  /\ pc = "trials" /\ Now \in NeedsKStar =>
       kstar # Torn /\ budget = IF kstar = None THEN DefaultKStar ELSE kstar
  /\ \A a \in Defended : Settled(a)

LEMMA TheCalibration ==
  ASSUME OneCalibration
  PROVE  /\ Calibration \in Arm /\ ArmsIn("exp6p1") = {Calibration} /\ Calibration \notin Defended
         /\ Size[Calibration] \in Nat \ {0} /\ "exp6p1" \in Trusting /\ "exp6p1" \notin NeedsKStar
         /\ ArmsOf["exp6p1"] # << >> /\ "exp6p1" \in Step
         /\ \A s \in Step, a \in Defended : a \in ArmsIn(s) => s \in NeedsKStar
<1>1. "exp6p1" \in Step /\ ArmsOf["exp6p1"] \in Seq(Arm) /\ Len(ArmsOf["exp6p1"]) = 1
  BY WaveAssumption DEF OneCalibration
<1>2. DOMAIN ArmsOf["exp6p1"] = {1} /\ ArmsOf["exp6p1"][1] \in Arm
  BY <1>1, LenProperties, ElementOfSeq
<1>3. ArmsIn("exp6p1") = {Calibration} /\ Calibration \in Arm
  BY <1>2 DEF ArmsIn, Calibration
<1>4. Calibration \notin Defended /\ Size[Calibration] \in Nat \ {0} /\ "exp6p1" \notin NeedsKStar
  BY <1>3, WaveAssumption
<1>5. "exp6p1" \in Trusting
  BY <1>1 DEF Trusting, OneCalibration
<1>6. ArmsOf["exp6p1"] # << >>
  BY <1>1, EmptySeq
<1>7. ASSUME NEW s \in Step, NEW a \in Defended, a \in ArmsIn(s) PROVE s \in NeedsKStar
  <2>1. PICK t \in NeedsKStar : a \in ArmsIn(t)
    BY DEF OneCalibration
  <2>2. t \in Step
    BY WaveAssumption
  <2> QED BY <1>7, <2>1, <2>2, WaveAssumption
<1> QED BY <1>1, <1>3, <1>4, <1>5, <1>6, <1>7

(* What is loaded from files that are readable up to the m-th.             *)
LEMMA LoadedFirst ==
  ASSUME FilesOK, NEW a \in Arm, NEW m \in 0 .. Size[a], Readable(a) = 1 .. m
  PROVE  /\ Loaded(a) = [i \in 1 .. m |-> trials[a][i].steps]
         /\ Cardinality(Readable(a)) = m
<1> DEFINE X == Kept \cup {None, Torn}
           s == trials[a]
           f == [k \in 0 .. Size[a] |-> IF k <= m THEN [i \in 1 .. k |-> s[i]] ELSE [i \in 1 .. m |-> s[i]]]
<1>1. s \in Seq(X) /\ Len(s) = Size[a] /\ Size[a] \in Nat /\ \A i \in 1 .. Size[a] : s[i] \in X
  BY Indices, ElementOfSeq
<1> HIDE DEF s, X
<1>2. ASSUME NEW k \in 0 .. m PROVE [i \in 1 .. k |-> s[i]] \in Seq(X) /\ Len([i \in 1 .. k |-> s[i]]) = k
  <2>1. [i \in 1 .. k |-> s[i]] \in [1 .. k -> X] /\ k \in Nat
    BY <1>1
  <2> QED BY <2>1, SeqDef
<1>3. f[0] = << >>
  <2>1. f[0] = [i \in 1 .. 0 |-> s[i]] /\ 0 \in 0 .. m
    BY <1>1
  <2> QED BY <1>2, <2>1, EmptySeq
<1>4. \A k \in 0 .. Len(s) : f[k] \in Seq(X)
  <2>1. \A k \in 0 .. Size[a] : (IF k <= m THEN k ELSE m) \in 0 .. m
    BY <1>1
  <2> QED BY <1>1, <1>2, <2>1
<1>5. ASSUME NEW k \in 1 .. Len(s)
      PROVE  f[k] = IF k \in 1 .. m THEN Append(f[k - 1], s[k]) ELSE f[k - 1]
  <2>0. k \in 0 .. Size[a] /\ k - 1 \in 0 .. Size[a]
    BY <1>1
  <2>1. CASE k <= m
    <3> DEFINE g == [i \in 1 .. k - 1 |-> s[i]]
               h == [i \in 1 .. k |-> s[i]]
    <3>1. k - 1 \in 0 .. m /\ k \in 0 .. m /\ k \in 1 .. m
      BY <1>1, <2>1
    <3>2. f[k] = h /\ f[k - 1] = g
      BY <2>0, <2>1
    <3>3. g \in Seq(X) /\ Len(g) = k - 1 /\ h \in Seq(X) /\ Len(h) = k /\ s[k] \in X
      BY <1>1, <1>2, <3>1
    <3>4. /\ Append(g, s[k]) \in Seq(X) /\ Len(Append(g, s[k])) = k
          /\ Append(g, s[k])[k] = s[k] /\ \A i \in 1 .. k - 1 : Append(g, s[k])[i] = g[i]
      BY <3>3, AppendProperties
    <3>5. \A i \in 1 .. k : h[i] = Append(g, s[k])[i]
      <4>1. \A i \in 1 .. k : i = k \/ i \in 1 .. k - 1
        OBVIOUS
      <4> QED BY <3>4, <4>1
    <3>6. h = Append(g, s[k])
      BY <3>3, <3>4, <3>5, SeqEqual
    <3> QED BY <3>1, <3>2, <3>6
  <2>2. CASE ~(k <= m)
    <3>1. k \notin 1 .. m /\ f[k] = [i \in 1 .. m |-> s[i]]
      BY <2>0, <2>2
    <3>2. f[k - 1] = [i \in 1 .. m |-> s[i]]
      <4>1. CASE k - 1 = m
        BY <2>0, <4>1
      <4>2. CASE k - 1 # m
        <5>1. ~(k - 1 <= m)
          BY <2>2, <4>2
        <5> QED BY <2>0, <5>1
      <4> QED BY <4>1, <4>2
    <3> QED BY <3>1, <3>2
  <2> QED BY <2>1, <2>2
<1>6. f[Size[a]] = [i \in 1 .. m |-> s[i]]
  <2>1. CASE m = Size[a]
    BY <1>1, <2>1
  <2>2. CASE m # Size[a]
    BY <1>1, <2>2
  <2> QED BY <2>1, <2>2
<1> HIDE DEF f
<1>7. Part(s, 1 .. m) = [i \in 1 .. m |-> s[i]]
  <2>1. \A k \in 1 .. Len(s) : f[k] = IF k \in 1 .. m THEN Append(f[k - 1], s[k]) ELSE f[k - 1]
    BY <1>5
  <2>2. Part(s, 1 .. m) = f[Len(s)]
    BY <1>1, <1>3, <1>4, <2>1, PartComputed
  <2> QED BY <1>1, <1>6, <2>2
<1>8. Loaded(a) = [i \in 1 .. m |-> trials[a][i].steps]
  BY <1>7 DEF Loaded, s
<1>9. Cardinality(1 .. m) = m
  BY FS_Interval
<1> QED BY <1>8, <1>9

(* The files of a complete calibration are not written again.              *)
LEMMA FiledStays ==
  ASSUME OneCalibration, DoneInv, [Next]_vars, Complete("exp6p1")
  PROVE  Complete("exp6p1")' /\ Filed' = Filed
<1>1. FilesInv /\ "exp6p1" \in Step /\ Calibration \in Arm /\ Readable(Calibration) = 1 .. Size[Calibration]
  BY TheCalibration DEF DoneInv, Complete
<1>2. Complete("exp6p1")'
  BY <1>1, WholeStays
<1>3. CASE trials' = trials
  BY <1>2, <1>3 DEF Filed, Calibration
<1>4. CASE InTrial /\ \E t \in Kept \cup {Torn} : trials' = [trials EXCEPT ![Head(armTodo)][at] = t]
  <2>1. PICK h \in Arm, t \in Kept \cup {Torn} : h = Head(armTodo) /\ trials' = [trials EXCEPT ![h][at] = t]
    BY <1>1, <1>4, InTrialFact DEF FilesInv
  <2>2. at \in 1 .. Size[h] /\ at \notin Readable(h) /\ \A a \in Arm \ {h} : trials'[a] = trials[a]
    BY <1>1, <1>4, <2>1, Written
  <2>3. h # Calibration
    BY <1>1, <2>2
  <2> QED BY <1>1, <1>2, <2>2, <2>3 DEF Filed, Calibration
<1> QED BY <1>1, <1>3, <1>4, TrialsStep

(* What a trial that is written, or torn, does to a defended arm.          *)
LEMMA DefendedWritten ==
  ASSUME OneCalibration, SettleInv, [Next]_vars, kstar' = kstar, InTrial,
         NEW h, h = Head(armTodo), NEW t \in Kept \cup {Torn},
         trials' = [trials EXCEPT ![h][at] = t],
         t # Torn /\ h \in Defended => t.budget = budget
  PROVE  \A a \in Defended : Settled(a)'
<1>0. /\ DoneInv /\ FilesInv /\ TypeInv /\ Now \in Step /\ h \in ArmsIn(Now) /\ pc = "trials"
      /\ Defended \subseteq Arm
  BY InTrialFact, WaveAssumption DEF SettleInv, DoneInv, FilesInv, InTrial
<1>1. /\ h \in Arm /\ at \in 1 .. Size[h] /\ at \notin Readable(h) /\ FilesOf(h)' = 1 .. at
      /\ Readable(h)' = IF t = Torn THEN Readable(h) ELSE Readable(h) \cup {at}
      /\ trials'[h] = [trials[h] EXCEPT ![at] = t]
      /\ \A a \in Arm \ {h} : trials'[a] = trials[a] /\ Readable(a)' = Readable(a)
  BY <1>0, Written
<1>2. DOMAIN trials[h] = 1 .. Size[h]
  BY <1>0, <1>1 DEF TypeInv, TypeOK, FilesOK
<1>3. kstar # None => Filed' = Filed
  BY <1>0, FiledStays DEF SettleInv
<1>4. ASSUME NEW a \in Defended, a # h PROVE Settled(a)'
  <2>1. trials'[a] = trials[a] /\ Readable(a)' = Readable(a) /\ Settled(a)
    BY <1>0, <1>1, <1>4 DEF SettleInv
  <2>2. CASE kstar # None
    BY <1>3, <2>1, <2>2 DEF Settled
  <2>3. CASE kstar = None
    BY <2>1, <2>3 DEF Settled
  <2> QED BY <2>2, <2>3
<1>5. ASSUME h \in Defended PROVE Settled(h)'
  <2>1. kstar # Torn /\ budget = (IF kstar = None THEN DefaultKStar ELSE kstar) /\ Settled(h)
    BY <1>0, <1>5, TheCalibration DEF SettleInv
  <2>2. /\ \A i \in Readable(h)' : \/ i = at /\ trials'[h][i].budget = budget
                                   \/ i \in Readable(h) /\ trials'[h][i] = trials[h][i] /\ i <= at
        /\ Readable(h)' \subseteq 1 .. at
    <3>1. Readable(h)' \subseteq FilesOf(h)'
      BY TornAssumption DEF Readable, FilesOf
    <3>2. Readable(h)' \subseteq 1 .. at
      BY <1>1, <3>1
    <3>3. ASSUME NEW i \in Readable(h)', i # at
          PROVE  i \in Readable(h) /\ trials'[h][i] = trials[h][i] /\ i <= at
      <4>1. i \in Readable(h) /\ i \in 1 .. Size[h]
        BY <1>1, <3>3 DEF Readable
      <4> QED BY <1>1, <1>2, <3>2, <3>3, <4>1
    <3>4. at \in Readable(h)' => trials'[h][at].budget = budget
      BY <1>1, <1>2, <1>5
    <3> QED BY <3>2, <3>3, <3>4
  <2>3. CASE kstar = None
    <3>1. \A i \in Readable(h)' : trials'[h][i].budget = DefaultKStar
      BY <2>1, <2>2, <2>3 DEF Settled
    <3> QED BY <2>3, <3>1 DEF Settled
  <2>4. CASE kstar # None
    <3>1. budget = kstar /\ Filed' = Filed /\ at \in Nat
      BY <1>1, <1>3, <2>1, <2>4
    <3>2. ASSUME NEW i \in Readable(h)', trials'[h][i].budget \notin {DefaultKStar, kstar}
          PROVE  kstar = KStar(Filed) /\ i \in Readable(h) /\ trials'[h][i] = trials[h][i]
      <4>1. i \in Readable(h) /\ trials'[h][i] = trials[h][i]
        BY <2>2, <3>1, <3>2
      <4> QED BY <2>1, <2>4, <3>2, <4>1 DEF Settled
    <3>3. ASSUME NEW i \in Readable(h)', NEW j \in Readable(h)', i < j,
                 trials'[h][i].budget \notin {DefaultKStar, trials'[h][j].budget}
          PROVE  trials'[h][j].budget = KStar(Filed)
      <4>1. CASE j = at
        <5>1. trials'[h][j].budget = kstar
          BY <1>1, <2>2, <3>1, <4>1
        <5> QED BY <3>2, <3>3, <5>1
      <4>2. CASE j # at
        <5>1. j \in Readable(h) /\ trials'[h][j] = trials[h][j] /\ j \in 1 .. at
          BY <2>2, <4>2
        <5>2. i # at
          BY <3>1, <3>3, <5>1
        <5>3. i \in Readable(h) /\ trials'[h][i] = trials[h][i]
          BY <2>2, <5>2
        <5> QED BY <2>1, <3>3, <5>1, <5>3 DEF Settled
      <4> QED BY <4>1, <4>2
    <3> QED BY <2>4, <3>1, <3>2, <3>3 DEF Settled
  <2> QED BY <2>3, <2>4
<1> QED BY <1>4, <1>5

LEMMA SettleStep == OneCalibration /\ SettleInv /\ [Next]_vars => SettleInv'
<1> SUFFICES ASSUME OneCalibration, SettleInv, [Next]_vars PROVE SettleInv'
  OBVIOUS
<1> USE DEF files, loop, inside, bounds
<1> DEFINE Mem == ((pc' = "trials" /\ at' > 0) \/ pc' = "calibrate") /\ Now' = "exp6p1" /\ kstar' # None
                    => mem' = Filed'
           Budget == pc' = "trials" /\ Now' \in NeedsKStar =>
                       kstar' # Torn /\ budget' = IF kstar' = None THEN DefaultKStar ELSE kstar'
           Defend == \A a \in Defended : Settled(a)'
           Good == (kstar' # None => Complete("exp6p1")') /\ Mem /\ Budget /\ Defend
<1>0. /\ DoneInv /\ DoneInv' /\ FilesInv /\ TypeInv /\ TypeInv' /\ FilesOK
      /\ "exp6p1" \in Step /\ Calibration \in Arm /\ mem \in Seq(Recording)
  BY DoneStep, TheCalibration DEF SettleInv, DoneInv, FilesInv, TypeInv, TypeOK, FilesOK, RunnerOK
<1> SUFFICES Good
  BY <1>0 DEF SettleInv
<1>1. /\ kstar # None => Complete("exp6p1")
      /\ ((pc = "trials" /\ at > 0) \/ pc = "calibrate") /\ Now = "exp6p1" /\ kstar # None => mem = Filed
      /\ pc = "trials" /\ Now \in NeedsKStar =>
           kstar # Torn /\ budget = IF kstar = None THEN DefaultKStar ELSE kstar
      /\ \A a \in Defended : Settled(a)
  BY DEF SettleInv
<1>2. Complete("exp6p1") => Complete("exp6p1")' /\ Filed' = Filed
  BY <1>0, FiledStays
<1>3. ASSUME UNCHANGED <<trials, kstar>> PROVE Defend /\ (kstar' # None => Complete("exp6p1")')
  BY <1>1, <1>2, <1>3 DEF Settled, Readable, Filed, Calibration
<1>4. ASSUME UNCHANGED <<trials, kstar>>, pc' \in {"off", "loop", "gates", "record"} PROVE Good
  BY <1>3, <1>4
<1>5. CASE (\E o \in Option : Start(o)) \/ SkipStep \/ RunPlain \/ Record \/ Abort \/ EndRun
  BY <1>4, <1>5 DEF Start, SkipStep, RunPlain, Record, Abort, EndRun, EndStep, Off
<1>6. CASE BeginGates \/ WaiveGate \/ PassGate \/ FailGate \/ GatesDone
  BY <1>4, <1>6 DEF BeginGates, WaiveGate, PassGate, FailGate, GatesDone, AtGate, NextGate, EndStep, Off
<1>7. CASE TrialError
  BY <1>4, <1>7 DEF TrialError, EndStep
<1>8. CASE BeginArms
  <2>1. UNCHANGED files
    BY <1>8 DEF BeginArms
  <2>2. CASE EndStep("FAILED", "torn")
    BY <1>4, <2>1, <2>2 DEF EndStep
  <2>3. CASE ~EndStep("FAILED", "torn")
    <3>1. PICK s \in Step :
            /\ Now = s /\ ~(s \in NeedsKStar /\ kstar = Torn) /\ pc' = "trials" /\ at' = 0
            /\ budget' = IF s \notin NeedsKStar THEN None
                         ELSE IF kstar = None THEN DefaultKStar ELSE kstar
            /\ todo' = todo
      BY <1>8, <2>3 DEF BeginArms, Enter
    <3>2. Now' = Now
      BY <3>1 DEF Now
    <3>3. Budget
      BY <2>1, <3>1, <3>2
    <3>4. Mem
      BY <3>1
    <3> QED BY <1>3, <2>1, <3>3, <3>4
  <2> QED BY <2>2, <2>3
<1>9. ASSUME pc = "trials", UNCHANGED <<todo, kstar, budget>> PROVE Budget
  BY <1>1, <1>9 DEF Now
<1>10. pc = "trials" /\ Now = "exp6p1" => Head(armTodo) = Calibration
  BY <1>0, ArmsOfNow, TheCalibration
<1>11. CASE EnterArm
  <2>0. pc = "trials" /\ UNCHANGED files
    BY <1>11 DEF EnterArm
  <2>1. CASE EndStep("FAILED", "torn")
    BY <1>4, <2>0, <2>1 DEF EndStep
  <2>2. CASE ~EndStep("FAILED", "torn")
    <3>1. /\ mem' = IF Now = "exp6p1" THEN Loaded(Head(armTodo)) ELSE << >>
          /\ UNCHANGED <<pc, todo, budget>>
      BY <1>11, <2>2 DEF EnterArm
    <3>2. Mem
      <4> SUFFICES ASSUME Now = "exp6p1", kstar # None PROVE mem' = Filed'
        BY <2>0, <3>1 DEF Now
      <4>1. Readable(Calibration) = 1 .. Size[Calibration] /\ Size[Calibration] \in Nat
        BY <1>1, TheCalibration DEF Complete
      <4>2. Loaded(Calibration) = [i \in 1 .. Size[Calibration] |-> trials[Calibration][i].steps]
        BY <1>0, <4>1, LoadedFirst
      <4>3. mem' = Filed
        BY <1>10, <2>0, <3>1, <4>2 DEF Filed
      <4> QED BY <1>1, <1>2, <4>3
    <3>3. Budget
      BY <1>9, <2>0, <3>1
    <3> QED BY <1>3, <2>0, <3>2, <3>3
  <2> QED BY <2>1, <2>2
<1>12. CASE RunTrial
  <2>1. PICK r \in IF Now = "exp6p1" THEN Session ELSE {<< >>} :
          trials' = [trials EXCEPT ![Head(armTodo)][at] =
               Trial(IF Head(armTodo) \in Defended THEN budget ELSE None, r)]
    BY <1>12 DEF RunTrial
  <2> DEFINE h == Head(armTodo)
             t == Trial(IF Head(armTodo) \in Defended THEN budget ELSE None, r)
  <2>2. InTrial /\ pc = "trials" /\ UNCHANGED <<kstar, pc, todo, budget>>
    BY <1>12 DEF RunTrial, InTrial
  <2>3. t \in Kept /\ (h \in Defended => t.budget = budget)
    BY <1>0, <2>1, <2>2, SavedType DEF Trial
  <2>4. Defend
    BY <2>1, <2>2, <2>3, DefendedWritten
  <2>5. Mem
    <3> SUFFICES ASSUME Now = "exp6p1", kstar # None PROVE FALSE
      BY <2>2 DEF Now
    <3>1. Readable(Calibration) = 1 .. Size[Calibration] /\ h = Calibration
      BY <1>1, <1>10, <2>2, TheCalibration DEF Complete
    <3>2. at \in 1 .. Size[h] /\ at \notin Readable(h)
      BY <1>0, <2>1, <2>2, <2>3, Written
    <3> QED BY <3>1, <3>2
  <2> QED BY <1>1, <1>2, <1>9, <2>2, <2>4, <2>5
<1>13. CASE EndArm
  <2>0. pc = "trials" /\ at > 0 /\ UNCHANGED files
    BY <1>13 DEF EndArm
  <2>1. CASE at' = 0 /\ UNCHANGED <<pc, todo, budget>>
    BY <1>3, <1>9, <2>0, <2>1
  <2>2. CASE pc' = "calibrate" /\ UNCHANGED <<todo, mem>>
    <3>1. Mem
      BY <1>1, <1>2, <2>0, <2>2 DEF Now
    <3> QED BY <1>3, <2>0, <2>2, <3>1
  <2>3. CASE EndStep("ok", "none")
    BY <1>4, <2>0, <2>3 DEF EndStep
  <2> QED BY <1>13, <2>1, <2>2, <2>3 DEF EndArm
<1>14. ASSUME pc = "calibrate" PROVE Now = "exp6p1" /\ Complete("exp6p1")
  BY <1>0, <1>14, TheCalibration DEF DoneInv, TypeInv, Place
<1>15. CASE Calibrate
  <2>0. pc = "calibrate" /\ trials' = trials /\ pc' = "record"
    BY <1>15 DEF Calibrate, EndStep
  <2>1. CASE kstar' = kstar
    BY <1>4, <2>0, <2>1
  <2>2. CASE KStar(mem) # None /\ kstar' = KStar(mem)
    <3>1. kstar' \notin {None, Torn}
      BY <1>0, <2>2, KStarFact, SessionAssumption, TornAssumption
    <3>2. Complete("exp6p1")' /\ Filed' = Filed
      BY <1>2, <1>14, <2>0
    <3>3. ASSUME NEW a \in Defended PROVE Settled(a)'
      <4>1. Settled(a) /\ Readable(a)' = Readable(a)
        BY <1>1, <2>0 DEF Readable
      <4>2. CASE kstar = None
        <5>1. \A i \in Readable(a) : trials[a][i].budget = DefaultKStar
          BY <4>1, <4>2 DEF Settled
        <5> QED BY <2>0, <3>1, <4>1, <5>1 DEF Settled
      <4>3. CASE kstar # None
        <5>1. kstar' = KStar(Filed)
          BY <1>1, <1>14, <2>0, <2>2, <4>3
        <5> QED BY <2>0, <3>1, <3>2, <4>1, <5>1 DEF Settled
      <4> QED BY <4>2, <4>3
    <3> QED BY <2>0, <3>2, <3>3
  <2> QED BY <1>15, <2>1, <2>2 DEF Calibrate
<1>16. CASE Crash
  <2>0. pc' = "off"
    BY <1>16 DEF Crash, Off
  <2>1. CASE UNCHANGED <<trials, kstar>>
    BY <1>4, <2>0, <2>1
  <2>2. CASE InTrial /\ trials' = [trials EXCEPT ![Head(armTodo)][at] = Torn] /\ kstar' = kstar
    <3>1. Defend
      BY <2>2, DefendedWritten
    <3> QED BY <1>1, <1>2, <2>0, <2>2, <3>1
  <2>3. CASE pc = "calibrate" /\ kstar' = Torn /\ trials' = trials
    <3>1. Complete("exp6p1")' /\ Filed' = Filed /\ Torn # None
      BY <1>2, <1>14, <2>3, TornAssumption
    <3>2. ASSUME NEW a \in Defended PROVE Settled(a)'
      <4>1. Settled(a) /\ Readable(a)' = Readable(a)
        BY <1>1, <2>3 DEF Readable
      <4> QED BY <2>3, <3>1, <4>1 DEF Settled
    <3> QED BY <2>0, <3>1, <3>2
  <2> QED BY <1>16, <2>1, <2>2, <2>3 DEF Crash
<1>17. CASE UNCHANGED vars
  <2>1. UNCHANGED <<files, loop, inside>>
    BY <1>17 DEF vars
  <2>2. Now' = Now /\ Filed' = Filed
    BY <2>1 DEF Now, Filed, Calibration
  <2> QED BY <1>1, <1>3, <2>1, <2>2
<1> QED
  BY <1>5, <1>6, <1>7, <1>8, <1>11, <1>12, <1>13, <1>15, <1>16, <1>17 DEF Next, Inside

LEMMA DoneInit == Init => DoneInv
<1> SUFFICES ASSUME Init PROVE DoneInv
  OBVIOUS
<1>1. \A s \in Trusting : progress[s] # "ok" /\ completed[s] # "ok"
  BY DEF Init, Trusting
<1> QED BY <1>1, FilesInit DEF DoneInv, OkIsWhole, Init

LEMMA SettleInit == Init => SettleInv
<1> SUFFICES ASSUME Init PROVE SettleInv
  OBVIOUS
<1>1. \A a \in Defended : Readable(a) = {}
  BY WaveAssumption DEF Init, Readable
<1> QED BY <1>1, DoneInit DEF Init, SettleInv, Settled

LEMMA AlwaysSettled == OneCalibration /\ Spec => []SettleInv
<1> SUFFICES ASSUME OneCalibration PROVE Spec => []SettleInv
  OBVIOUS
<1>1. SettleInv /\ [Next]_vars => SettleInv'
  BY SettleStep
<1> QED BY <1>1, SettleInit, PTL DEF Spec

(* Whatever the options, the sessions and what rounding does to them: the  *)
(* budget of the trials of a defended arm never goes back, from the        *)
(* default at most to the k* of the measured sessions and from there at    *)
(* most to the k* of the sessions in the files, which every later          *)
(* calibration finds again.                                                *)
THEOREM BudgetAlwaysSettles == OneCalibration /\ Spec => []BudgetSettles
<1>1. SettleInv => BudgetSettles
  BY DEF SettleInv, Settled, BudgetSettles
<1> QED BY <1>1, AlwaysSettled, PTL

-----------------------------------------------------------------------------
(***************************************************************************)
(* The calibration comes before the defended trials, when the operator     *)
(* does not use --from, --only or --skip to go round it.                   *)
(***************************************************************************)
(* Every step that loads k* comes behind the calibration.                  *)
Calibrates(steps, skip) ==
  \A j \in DOMAIN steps : steps[j] \in NeedsKStar =>
    "exp6p1" \notin skip /\ \E i \in 1 .. j - 1 : steps[i] = "exp6p1"

CalibrationFirst ==
  /\ OneCalibration
  /\ \A o \in Option :
       \/ o.only \in Step \ NeedsKStar
       \/ /\ o.only = None /\ Calibrates(StepOrder, o.skip)
          /\ \A i, j \in DOMAIN StepOrder :
               StepOrder[i] = o.from /\ StepOrder[j] \in NeedsKStar /\ i <= j
                 => \E l \in i .. j - 1 : StepOrder[l] = "exp6p1"

(* There is a k*, or the calibration lies ahead of every step that loads   *)
(* one.                                                                    *)
CalibrationInv ==
  /\ SettleInv
  /\ progress # Torn /\ progress["exp6p1"] = "ok" => kstar # None
  /\ completed["exp6p1"] = "ok" => kstar # None
  /\ pc = "trials" /\ Now \in NeedsKStar => kstar # None
  /\ pc # "off" => kstar # None \/ Calibrates(todo, opt.skip)
  /\ pc = "record" /\ Now = "exp6p1" => completed[Now] \in {"ok", "FAILED"}
  /\ \A a \in Defended : FilesOf(a) # {} => kstar # None

LEMMA CalibratesTail ==
  ASSUME NEW steps \in Seq(Step), steps # << >>, NEW skip, Calibrates(steps, skip),
         "exp6p1" \notin skip => Head(steps) # "exp6p1"
  PROVE  Calibrates(Tail(steps), skip)
<1>0. /\ Head(steps) = steps[1] /\ Tail(steps) \in Seq(Step) /\ Len(Tail(steps)) = Len(steps) - 1
      /\ Len(steps) \in Nat /\ Len(steps) >= 1
      /\ \A i \in 1 .. Len(steps) - 1 : Tail(steps)[i] = steps[i + 1]
      /\ DOMAIN steps = 1 .. Len(steps) /\ DOMAIN Tail(steps) = 1 .. Len(steps) - 1
  BY PendingTail, LenProperties
<1>1. ASSUME NEW j \in 1 .. Len(steps) - 1, Tail(steps)[j] \in NeedsKStar
      PROVE  "exp6p1" \notin skip /\ \E i \in 1 .. j - 1 : Tail(steps)[i] = "exp6p1"
  <2>1. steps[j + 1] \in NeedsKStar /\ j + 1 \in DOMAIN steps
    BY <1>0, <1>1
  <2>2. PICK i \in 1 .. (j + 1) - 1 : steps[i] = "exp6p1"
    BY <2>1 DEF Calibrates
  <2>3. "exp6p1" \notin skip
    BY <2>1 DEF Calibrates
  <2>4. i # 1
    BY <1>0, <2>2, <2>3
  <2>5. i - 1 \in 1 .. j - 1 /\ Tail(steps)[i - 1] = "exp6p1"
    BY <1>0, <2>2, <2>4
  <2> QED BY <2>3, <2>5
<1> QED BY <1>0, <1>1 DEF Calibrates

LEMMA StartCalibrates ==
  ASSUME CalibrationFirst, CalibrationInv, NEW o \in Option, Todo(o) # << >>
  PROVE  kstar # None \/ Calibrates(Todo(o), o.skip)
<1>0. /\ StepOrder \in Seq(Step) /\ "exp6p1" \in Step
      /\ DOMAIN StepOrder = 1 .. Len(StepOrder) /\ Len(StepOrder) \in Nat
      /\ \A i \in 1 .. Len(StepOrder) : StepOrder[i] \in Step
  BY WaveAssumption, LenProperties, ElementOfSeq
<1>1. CASE o.only \in Step \ NeedsKStar
  <2>1. Todo(o) = << o.only >>
    BY <1>1, TornAssumption DEF Todo
  <2>2. DOMAIN << o.only >> = {1} /\ << o.only >>[1] = o.only
    OBVIOUS
  <2> QED BY <1>1, <2>1, <2>2 DEF Calibrates
<1>2. CASE /\ o.only = None /\ Calibrates(StepOrder, o.skip)
           /\ \A i, j \in DOMAIN StepOrder :
                StepOrder[i] = o.from /\ StepOrder[j] \in NeedsKStar /\ i <= j
                  => \E l \in i .. j - 1 : StepOrder[l] = "exp6p1"
  <2>1. ASSUME NEW b \in 1 .. Len(StepOrder),
               \A j \in b .. Len(StepOrder) : StepOrder[j] \in NeedsKStar =>
                 \E l \in b .. j - 1 : StepOrder[l] = "exp6p1"
        PROVE  Calibrates(StepsFrom(b), o.skip)
    <3>1. /\ StepsFrom(b) \in Seq(Step) /\ Len(StepsFrom(b)) = Len(StepOrder) - b + 1
          /\ \A i \in 1 .. Len(StepOrder) - b + 1 : StepsFrom(b)[i] = StepOrder[b + i - 1]
      BY <1>0, SubSeqProperties DEF StepsFrom
    <3>2. DOMAIN StepsFrom(b) = 1 .. Len(StepOrder) - b + 1
      BY <3>1, LenProperties
    <3>3. ASSUME NEW j \in 1 .. Len(StepOrder) - b + 1, StepsFrom(b)[j] \in NeedsKStar
          PROVE  "exp6p1" \notin o.skip /\ \E i \in 1 .. j - 1 : StepsFrom(b)[i] = "exp6p1"
      <4>1. b + j - 1 \in b .. Len(StepOrder) /\ StepOrder[b + j - 1] \in NeedsKStar
            /\ b + j - 1 \in DOMAIN StepOrder
        BY <1>0, <3>1, <3>3
      <4>2. PICK l \in b .. (b + j - 1) - 1 : StepOrder[l] = "exp6p1"
        BY <2>1, <4>1
      <4>3. l - b + 1 \in 1 .. j - 1 /\ StepsFrom(b)[l - b + 1] = "exp6p1"
        <5>1. l - b + 1 \in 1 .. j - 1 /\ l - b + 1 \in 1 .. Len(StepOrder) - b + 1
              /\ b + (l - b + 1) - 1 = l
          BY <1>0
        <5> QED BY <3>1, <4>2, <5>1
      <4>4. "exp6p1" \notin o.skip
        BY <1>2, <4>1 DEF Calibrates
      <4> QED BY <4>3, <4>4
    <3> QED BY <3>2, <3>3 DEF Calibrates
  <2>2. CASE o.from # None
    <3> DEFINE I == {i \in DOMAIN StepOrder : StepOrder[i] = o.from}
    <3>1. o.from \in Step
      BY <2>2, WaveAssumption
    <3>2. I \in SUBSET Nat /\ I # {}
      <4>1. \E i \in DOMAIN StepOrder : StepOrder[i] = o.from
        BY <3>1 DEF Step
      <4>2. I \in SUBSET DOMAIN StepOrder /\ DOMAIN StepOrder \subseteq Nat
        BY <1>0
      <4> QED BY <4>1, <4>2
    <3>3. Least(I) \in I
      BY <3>2, LeastFact
    <3>4. Calibrates(StepsFrom(Least(I)), o.skip)
      BY <1>0, <1>2, <2>1, <3>3
    <3> QED BY <1>2, <2>2, <3>4 DEF Todo
  <2>3. CASE o.from = None
    <3>1. Open # {} /\ Todo(o) = StepsFrom(Least(Open))
      BY <1>2, <2>3 DEF Todo
    <3>2. Open \in SUBSET Nat
      BY <1>0 DEF Open
    <3>3. Least(Open) \in Open /\ \A y \in Open : Least(Open) <= y
      BY <3>1, <3>2, LeastFact
    <3>4. CASE \E l \in DOMAIN StepOrder : StepOrder[l] = "exp6p1" /\ ~(Least(Open) <= l)
      <4>1. Recorded["exp6p1"] = "ok"
        BY <3>3, <3>4 DEF Open
      <4>2. progress # Torn /\ progress["exp6p1"] = "ok"
        BY <1>0, <4>1 DEF Recorded
      <4> QED BY <4>2 DEF CalibrationInv
    <3>5. CASE \A l \in DOMAIN StepOrder : StepOrder[l] = "exp6p1" => Least(Open) <= l
      <4>1. Least(Open) \in 1 .. Len(StepOrder)
        BY <1>0, <3>3 DEF Open
      <4>2. ASSUME NEW j \in Least(Open) .. Len(StepOrder), StepOrder[j] \in NeedsKStar
            PROVE  \E l \in Least(Open) .. j - 1 : StepOrder[l] = "exp6p1"
        <5>1. j \in DOMAIN StepOrder
          BY <1>0, <4>1
        <5>2. PICK l \in 1 .. j - 1 : StepOrder[l] = "exp6p1"
          BY <1>2, <4>2, <5>1 DEF Calibrates
        <5>3. l \in DOMAIN StepOrder
          BY <1>0, <5>1
        <5>4. Least(Open) <= l
          BY <3>5, <5>2, <5>3
        <5>5. l \in Least(Open) .. j - 1
          BY <4>1, <5>4
        <5> QED BY <5>2, <5>5
      <4> QED BY <2>1, <3>1, <4>1, <4>2
    <3> QED BY <3>4, <3>5
  <2> QED BY <2>2, <2>3
<1> QED BY <1>1, <1>2 DEF CalibrationFirst

LEMMA CalibrationStep == CalibrationFirst /\ CalibrationInv /\ [Next]_vars => CalibrationInv'
<1> SUFFICES ASSUME CalibrationFirst, CalibrationInv, [Next]_vars PROVE CalibrationInv'
  OBVIOUS
<1> USE DEF files, loop, inside, bounds
<1> DEFINE Saved == progress' # Torn /\ progress'["exp6p1"] = "ok" => kstar' # None
           Noted == completed'["exp6p1"] = "ok" => kstar' # None
           Loads == pc' = "trials" /\ Now' \in NeedsKStar => kstar' # None
           Ahead == pc' # "off" => kstar' # None \/ Calibrates(todo', opt'.skip)
           Ends == pc' = "record" /\ Now' = "exp6p1" => completed'[Now'] \in {"ok", "FAILED"}
           Defend == \A a \in Defended : FilesOf(a)' # {} => kstar' # None
           Good == Saved /\ Noted /\ Loads /\ Ahead /\ Ends /\ Defend
<1>0. /\ OneCalibration /\ SettleInv /\ SettleInv' /\ DoneInv /\ FilesInv /\ TypeInv /\ "exp6p1" \in Step
      /\ completed \in [Step -> Status] /\ progress \in [Step -> Status] \cup {Torn}
      /\ Torn \notin [Step -> Status] /\ todo \in Seq(Step) /\ mem \in Seq(Recording)
  BY SettleStep, TornAssumption, TheCalibration
     DEF CalibrationFirst, CalibrationInv, SettleInv, DoneInv, FilesInv, TypeInv, TypeOK, FilesOK, RunnerOK
<1> SUFFICES Good
  <2>1. Calibrates(todo, opt.skip)' = Calibrates(todo', opt'.skip)
    BY DEF Calibrates
  <2> QED BY <1>0, <2>1 DEF CalibrationInv
<1>1. /\ progress # Torn /\ progress["exp6p1"] = "ok" => kstar # None
      /\ completed["exp6p1"] = "ok" => kstar # None
      /\ pc = "trials" /\ Now \in NeedsKStar => kstar # None
      /\ pc # "off" => kstar # None \/ Calibrates(todo, opt.skip)
      /\ pc = "record" /\ Now = "exp6p1" => completed[Now] \in {"ok", "FAILED"}
      /\ \A a \in Defended : FilesOf(a) # {} => kstar # None
  BY DEF CalibrationInv
<1>2. ASSUME kstar # None => kstar' # None, trials' = trials PROVE Defend
  BY <1>1, <1>2 DEF FilesOf
<1>3. ASSUME Off PROVE Noted /\ Loads /\ Ahead /\ Ends
  <2>1. completed'["exp6p1"] = "none" /\ pc' = "off"
    BY <1>0, <1>3 DEF Off
  <2> QED BY <2>1
<1>4. ASSUME NEW status \in {"ok", "FAILED"}, NEW reason, EndStep(status, reason), pc # "off",
             kstar # None => kstar' # None, Now = "exp6p1" /\ status = "ok" => kstar' # None
      PROVE  Noted /\ Loads /\ Ahead /\ Ends
  <2>1. /\ completed' = [completed EXCEPT ![Now] = status] /\ pc' = "record"
        /\ todo' = todo /\ opt' = opt
    BY <1>4 DEF EndStep
  <2>2. completed'["exp6p1"] = IF Now = "exp6p1" THEN status ELSE completed["exp6p1"]
    BY <1>0, <2>1
  <2>3. Noted
    BY <1>1, <1>4, <2>2
  <2>4. Ends
    BY <1>4, <2>1, <2>2 DEF Now
  <2>5. Ahead
    BY <1>1, <1>4, <2>1
  <2> QED BY <2>1, <2>3, <2>4, <2>5
<1>5. ASSUME UNCHANGED <<kstar, progress, completed, todo, opt>>, pc # "off", pc' # "record" PROVE
        Saved /\ Noted /\ Ahead /\ Ends
  BY <1>1, <1>5
<1>6. CASE \E o \in Option : Start(o)
  <2>1. PICK o \in Option : Start(o)
    BY <1>6
  <2>2. /\ Todo(o) # << >> /\ pc' = "loop" /\ opt' = o /\ todo' = Todo(o) /\ completed' = Recorded
        /\ UNCHANGED files
    BY <2>1 DEF Start, Seed
  <2>3. Ahead
    BY <2>2, StartCalibrates
  <2>4. Noted /\ Saved
    BY <1>0, <1>1, <2>2 DEF Recorded
  <2> QED BY <1>2, <2>2, <2>3, <2>4
<1>7. CASE SkipStep
  <2>1. /\ pc = "loop" /\ pc' = "loop" /\ todo # << >> /\ Now \in opt.skip /\ opt' = opt
        /\ completed' = [completed EXCEPT ![Now] = "skipped"] /\ todo' = Tail(todo)
        /\ UNCHANGED files
    BY <1>7 DEF SkipStep
  <2>2. Noted /\ Saved
    BY <1>0, <1>1, <2>1
  <2>3. Ahead
    BY <1>0, <1>1, <2>1, CalibratesTail DEF Now
  <2> QED BY <1>2, <2>1, <2>2, <2>3
<1>8. CASE RunPlain
  <2>1. PICK status \in {"ok", "FAILED"}, reason \in {"none", "error"} :
          EndStep(status, reason) /\ ArmsOf[Now] = << >>
    BY <1>8 DEF RunPlain, Enter
  <2>2. pc = "loop" /\ UNCHANGED files
    BY <1>8 DEF RunPlain, Enter
  <2>3. Now # "exp6p1"
    BY <1>0, <2>1, TheCalibration
  <2>4. Noted /\ Loads /\ Ahead /\ Ends
    BY <1>4, <2>1, <2>2, <2>3
  <2> QED BY <1>1, <1>2, <2>2, <2>4
<1>9. CASE Record
  <2>1. /\ pc = "record" /\ pc' = "loop" /\ ~Fatal /\ progress' = completed /\ completed' = completed
        /\ todo' = Tail(todo) /\ todo # << >> /\ opt' = opt
        /\ UNCHANGED <<trials, kstar>>
    BY <1>0, <1>9 DEF Record, TypeInv, Place
  <2>2. Now = "exp6p1" => kstar # None
    BY <1>1, <2>1 DEF Fatal
  <2>3. Ahead
    BY <1>0, <1>1, <2>1, <2>2, CalibratesTail DEF Now
  <2> QED BY <1>1, <1>2, <2>1, <2>3
<1>10. CASE Abort \/ EndRun \/ FailGate
  <2>1. Off /\ UNCHANGED files
    BY <1>10 DEF Abort, EndRun, FailGate
  <2> QED BY <1>1, <1>2, <1>3, <2>1
<1>11. CASE BeginGates \/ WaiveGate \/ PassGate
  <2>1. UNCHANGED <<files, completed, todo, opt>> /\ pc # "off" /\ pc' = "gates"
    BY <1>11 DEF BeginGates, WaiveGate, PassGate, AtGate, NextGate, Enter
  <2> QED BY <1>2, <1>5, <2>1
<1>12. CASE GatesDone
  <2>1. /\ \E status \in {"ok", "FAILED"}, reason \in {"none", "error"} : EndStep(status, reason)
        /\ pc = "gates" /\ Now = "gates" /\ UNCHANGED files
    BY <1>0, <1>12 DEF GatesDone, TypeInv, Place
  <2>2. Noted /\ Loads /\ Ahead /\ Ends
    BY <1>4, <2>1
  <2> QED BY <1>1, <1>2, <2>1, <2>2
<1>13. CASE BeginArms
  <2>0. pc = "loop" /\ todo # << >> /\ UNCHANGED files
    BY <1>13 DEF BeginArms, Enter
  <2>1. Now \in NeedsKStar => kstar # None
    <3> SUFFICES ASSUME Now \in NeedsKStar, Calibrates(todo, opt.skip) PROVE FALSE
      BY <1>1, <2>0
    <3>1. 1 \in DOMAIN todo /\ todo[1] \in NeedsKStar
      BY <1>0, <2>0, PendingTail, LenProperties DEF Now
    <3>2. \E i \in 1 .. 1 - 1 : todo[i] = "exp6p1"
      BY <3>1 DEF Calibrates
    <3> QED BY <3>2
  <2>2. CASE EndStep("FAILED", "torn")
    <3>1. Noted /\ Loads /\ Ahead /\ Ends
      BY <1>4, <2>0, <2>2
    <3> QED BY <1>1, <1>2, <2>0, <3>1
  <2>3. CASE ~EndStep("FAILED", "torn")
    <3>1. pc' = "trials" /\ UNCHANGED <<opt, todo, completed>>
      BY <1>13, <2>3 DEF BeginArms
    <3>2. Loads
      BY <2>0, <2>1, <3>1 DEF Now
    <3> QED BY <1>2, <1>5, <2>0, <3>1, <3>2
  <2> QED BY <2>2, <2>3
<1>14. ASSUME pc = "trials", UNCHANGED <<kstar, todo>> PROVE Loads
  BY <1>1, <1>14 DEF Now
<1>15. CASE EnterArm
  <2>0. pc = "trials" /\ UNCHANGED files
    BY <1>15 DEF EnterArm
  <2>1. CASE EndStep("FAILED", "torn")
    <3>1. Noted /\ Loads /\ Ahead /\ Ends
      BY <1>4, <2>0, <2>1
    <3> QED BY <1>1, <1>2, <2>0, <3>1
  <2>2. CASE UNCHANGED loop
    <3>1. Loads
      BY <1>14, <2>0, <2>2
    <3> QED BY <1>2, <1>5, <2>0, <2>2, <3>1
  <2> QED BY <1>15, <2>1, <2>2 DEF EnterArm
<1>16. ASSUME InTrial, kstar' = kstar, NEW t \in Kept \cup {Torn},
              trials' = [trials EXCEPT ![Head(armTodo)][at] = t]
       PROVE  Defend
  <2>1. PICK h \in Arm : h = Head(armTodo) /\ h \in ArmsIn(Now) /\ Now \in Step /\ pc = "trials"
    BY <1>0, <1>16, InTrialFact DEF InTrial
  <2>2. \A a \in Arm \ {h} : trials'[a] = trials[a]
    BY <1>0, <1>16, <2>1, Written
  <2>3. ASSUME NEW a \in Defended, FilesOf(a)' # {} PROVE kstar # None
    <3>1. CASE a = h
      BY <1>0, <1>1, <2>1, <3>1, TheCalibration
    <3>2. CASE a # h
      <4>1. FilesOf(a)' = FilesOf(a)
        BY <2>2, <3>2, WaveAssumption DEF FilesOf
      <4> QED BY <1>1, <2>3, <4>1
    <3> QED BY <3>1, <3>2
  <2> QED BY <1>16, <2>3
<1>17. CASE RunTrial
  <2>1. PICK r \in IF Now = "exp6p1" THEN Session ELSE {<< >>} :
          trials' = [trials EXCEPT ![Head(armTodo)][at] =
            Trial(IF Head(armTodo) \in Defended THEN budget ELSE None, r)]
    BY <1>17 DEF RunTrial
  <2>2. /\ InTrial /\ pc = "trials" /\ UNCHANGED <<kstar, progress, pc, opt, todo, completed>>
    BY <1>17 DEF RunTrial, InTrial
  <2>3. Trial(IF Head(armTodo) \in Defended THEN budget ELSE None, r) \in Kept
    BY <1>0, <2>1, <2>2, SavedType
  <2>4. Defend
    BY <1>16, <2>1, <2>2, <2>3
  <2> QED BY <1>5, <1>14, <2>2, <2>4
<1>18. CASE TrialError
  <2>1. EndStep("FAILED", "error") /\ pc = "trials" /\ UNCHANGED files
    BY <1>18 DEF TrialError
  <2>2. Noted /\ Loads /\ Ahead /\ Ends
    BY <1>4, <2>1
  <2> QED BY <1>1, <1>2, <2>1, <2>2
<1>19. CASE EndArm
  <2>0. pc = "trials" /\ UNCHANGED files
    BY <1>19 DEF EndArm
  <2>1. CASE UNCHANGED loop \/ (pc' = "calibrate" /\ UNCHANGED <<opt, todo, completed>>)
    <3>1. Loads
      BY <1>14, <2>0, <2>1
    <3> QED BY <1>2, <1>5, <2>0, <2>1, <3>1
  <2>2. CASE Now # "exp6p1" /\ EndStep("ok", "none")
    <3>1. Noted /\ Loads /\ Ahead /\ Ends
      BY <1>4, <2>0, <2>2
    <3> QED BY <1>1, <1>2, <2>0, <3>1
  <2> QED BY <1>19, <2>1, <2>2 DEF EndArm
<1>20. CASE Calibrate
  <2>0. pc = "calibrate" /\ UNCHANGED <<trials, progress>>
    BY <1>20 DEF Calibrate
  <2>1. CASE EndStep("FAILED", "no data") /\ UNCHANGED kstar
    <3>1. Noted /\ Loads /\ Ahead /\ Ends
      BY <1>4, <2>0, <2>1
    <3> QED BY <1>1, <1>2, <2>0, <2>1, <3>1
  <2>2. CASE EndStep("ok", "none") /\ kstar' # None
    <3>1. Noted /\ Loads /\ Ahead /\ Ends
      BY <1>4, <2>0, <2>2
    <3> QED BY <2>2, <3>1
  <2> QED BY <1>20, <2>1, <2>2 DEF Calibrate
<1>21. CASE Crash
  <2>0. Off /\ progress' \in {progress, Torn}
    BY <1>21 DEF Crash
  <2>1. Noted /\ Loads /\ Ahead /\ Ends
    BY <1>3, <2>0
  <2>2. CASE kstar' = kstar /\ trials' = trials
    BY <1>1, <1>2, <2>0, <2>1, <2>2
  <2>3. CASE InTrial /\ trials' = [trials EXCEPT ![Head(armTodo)][at] = Torn] /\ kstar' = kstar
    <3>1. Defend
      BY <1>16, <2>3
    <3> QED BY <1>1, <2>0, <2>1, <2>3, <3>1
  <2>4. CASE kstar' = Torn
    BY <2>1, <2>4, TornAssumption
  <2> QED BY <1>21, <2>2, <2>3, <2>4 DEF Crash
<1>22. CASE UNCHANGED vars
  <2>1. UNCHANGED <<files, loop>>
    BY <1>22 DEF vars
  <2> QED BY <1>1, <1>2, <2>1 DEF Now
<1> QED
  BY <1>6, <1>7, <1>8, <1>9, <1>10, <1>11, <1>12, <1>13, <1>15, <1>17, <1>18, <1>19, <1>20, <1>21, <1>22
     DEF Next, Inside

LEMMA CalibrationInit == CalibrationFirst /\ Init => CalibrationInv
<1> SUFFICES ASSUME CalibrationFirst, Init PROVE CalibrationInv
  OBVIOUS
<1>1. "exp6p1" \in Step
  BY WaveAssumption
<1>2. progress["exp6p1"] = "none" /\ completed["exp6p1"] = "none"
  BY <1>1 DEF Init
<1>3. \A a \in Defended : FilesOf(a) = {}
  BY WaveAssumption DEF Init, FilesOf
<1> QED BY <1>2, <1>3, SettleInit DEF Init, CalibrationInv

LEMMA AlwaysCalibrated == CalibrationFirst /\ Spec => []CalibrationInv
<1> SUFFICES ASSUME CalibrationFirst PROVE Spec => []CalibrationInv
  OBVIOUS
<1>1. Init => CalibrationInv
  BY CalibrationInit
<1>2. CalibrationInv /\ [Next]_vars => CalibrationInv'
  BY CalibrationStep
<1> QED BY <1>1, <1>2, PTL DEF Spec

(* If the operator's --only, --from and --skip never send a wave to a step *)
(* that loads k* past its calibration, no trial of a defended arm exists   *)
(* before the calibration is complete and a result of it is saved, whole   *)
(* or torn: no defended trial runs under the default budget.               *)
THEOREM CalibratedAlwaysFirst == CalibrationFirst /\ Spec => []CalibratedFirst
<1>1. CalibrationInv => CalibratedFirst
  BY DEF CalibrationInv, SettleInv, CalibratedFirst
<1> QED BY <1>1, AlwaysCalibrated, PTL

=============================================================================
