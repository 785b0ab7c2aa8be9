------------------------- MODULE ExperimentHost_proofs -------------------------
(***************************************************************************)
(* Theorems about the experiments on one host: a program beside the        *)
(* daemon, whatever cycles are under way and whatever fails.               *)
(***************************************************************************)
EXTENDS ExperimentHost, SequenceParts_proofs, FiniteSetTheorems

(***************************************************************************)
(* The circuit: the records, and the cycles under way among them.          *)
(***************************************************************************)
Values == Rate \cup {0} \cup Collector

SlotsOnce(s) == \A k, l \in 1 .. Len(s) : s[k] = s[l] /\ s[k] \in Collector => k = l

Has(s, c) == \E k \in 1 .. Len(s) : s[k] = c

CircuitInv ==
  /\ smf \in Seq(Values) /\ Len(smf) <= MaxRecords /\ SlotsOnce(smf)
  /\ seen \in [Collector -> Rate \cup {0, None}]
  /\ \A c \in Collector : seen[c] # None => Has(smf, c)

(* t is s without some entries, g says where the entries of t were, and    *)
(* the entries of S are all kept.                                          *)
Keeps(t, s, S, g) ==
  /\ g \in [1 .. Len(t) -> 1 .. Len(s)]
  /\ \A k, l \in 1 .. Len(t) : k < l => g[k] < g[l]
  /\ \A k \in 1 .. Len(t) : t[k] = s[g[k]]
  /\ \A m \in 1 .. Len(s) : s[m] \in S => \E k \in 1 .. Len(t) : g[k] = m

(* The newest record is kept, or one behind it.                            *)
KeepsNewest(t, s, g) ==
  \A m \in 1 .. Len(s) : s[m] \notin Collector =>
    \E k \in 1 .. Len(t) : t[k] \notin Collector /\ g[k] >= m

LEMMA ValuesApart ==
  /\ Daemon \in Collector /\ Tick \in Collector /\ Daemon # Tick
  /\ \A c \in Collector : c = Daemon \/ c = Tick
  /\ \A r \in Rate : r \in Nat /\ r # 0 /\ r \notin Collector /\ r # None
  /\ 0 \notin Collector /\ 0 # None /\ None \notin Collector /\ Baseline \in Rate
BY CircuitAssumption DEF Collector

LEMMA PartKeeps ==
  ASSUME NEW X, NEW s \in Seq(X), NEW I, NEW S, \A m \in 1 .. Len(s) : s[m] \in S => m \in I
  PROVE  /\ Part(s, I) \in Seq(X)
         /\ \E g : Keeps(Part(s, I), s, S, g) /\ \A k \in 1 .. Len(Part(s, I)) : g[k] \in I
<1>1. PICK g : Thins(Part(s, I), s, I, g)
  BY PartThins
<1> QED BY <1>1, PartType DEF Thins, Keeps

(* Fewer entries, or one more at the end.                                  *)
LEMMA KeepsOnce ==
  ASSUME NEW s, NEW t, NEW S, NEW g, Keeps(t, s, S, g), SlotsOnce(s), Len(t) \in Nat
  PROVE  /\ SlotsOnce(t)
         /\ \A c \in S : Has(s, c) => Has(t, c)
         /\ \A c : Has(t, c) => Has(s, c)
<1>1. SlotsOnce(t)
  <2> SUFFICES ASSUME NEW k \in 1 .. Len(t), NEW l \in 1 .. Len(t), t[k] = t[l], t[k] \in Collector
               PROVE  k = l
    BY DEF SlotsOnce
  <2>1. g[k] = g[l] /\ g[k] \in 1 .. Len(s) /\ g[l] \in 1 .. Len(s)
    BY DEF Keeps, SlotsOnce
  <2>2. ~(k < l) /\ ~(l < k)
    BY <2>1 DEF Keeps
  <2> QED BY <2>2
<1>2. ASSUME NEW c \in S, Has(s, c) PROVE Has(t, c)
  <2>1. PICK m \in 1 .. Len(s) : s[m] = c
    BY <1>2 DEF Has
  <2>2. PICK k \in 1 .. Len(t) : g[k] = m
    BY <2>1 DEF Keeps
  <2> QED BY <2>1, <2>2 DEF Keeps, Has
<1>3. ASSUME NEW c, Has(t, c) PROVE Has(s, c)
  <2>1. PICK k \in 1 .. Len(t) : t[k] = c
    BY <1>3 DEF Has
  <2>2. g[k] \in 1 .. Len(s) /\ s[g[k]] = c
    BY <2>1 DEF Keeps
  <2> QED BY <2>2 DEF Has
<1> QED BY <1>1, <1>2, <1>3

LEMMA KeepsHas ==
  ASSUME NEW s, NEW t, NEW S, NEW g, Keeps(t, s, S, g), NEW c \in S
  PROVE  Has(t, c) <=> Has(s, c)
<1>1. ASSUME NEW k \in 1 .. Len(t), t[k] = c PROVE Has(s, c)
  <2>1. g[k] \in 1 .. Len(s) /\ s[g[k]] = c
    BY <1>1 DEF Keeps
  <2> QED BY <2>1 DEF Has
<1>2. ASSUME NEW m \in 1 .. Len(s), s[m] = c PROVE Has(t, c)
  <2>1. PICK k \in 1 .. Len(t) : g[k] = m
    BY <1>2 DEF Keeps
  <2>2. t[k] = c
    BY <1>2, <2>1 DEF Keeps
  <2> QED BY <2>2 DEF Has
<1> QED BY <1>1, <1>2 DEF Has

LEMMA KeepsShorter ==
  ASSUME NEW s, NEW t, NEW S, NEW g, Keeps(t, s, S, g), Len(s) \in Nat, Len(t) \in Nat
  PROVE  Len(t) <= Len(s)
<1> DEFINE Low == {k \in 1 .. Len(t) : g[k] < k}
<1>1. ASSUME Low # {} PROVE FALSE
  <2>1. PICK k \in Low : \A j \in Low : k <= j
    <3>1. Low \in SUBSET Nat
      OBVIOUS
    <3> HIDE DEF Low
    <3> QED BY <1>1, <3>1, LeastNumber
  <2>2. k \in 1 .. Len(t) /\ g[k] < k /\ g[k] \in 1 .. Len(s)
    BY <2>1 DEF Keeps
  <2>3. k - 1 \in 1 .. Len(t) /\ k - 1 \notin Low
    BY <2>1, <2>2
  <2>4. g[k - 1] \in 1 .. Len(s) /\ g[k - 1] < g[k] /\ g[k - 1] >= k - 1
    BY <2>2, <2>3 DEF Keeps
  <2> QED BY <2>2, <2>4
<1>2. CASE Len(t) = 0
  BY <1>2
<1>3. CASE Len(t) # 0
  <2>1. Len(t) \in 1 .. Len(t) /\ Len(t) \notin Low
    BY <1>1, <1>3
  <2> QED BY <2>1 DEF Keeps
<1> QED BY <1>2, <1>3

LEMMA MinOf ==
  ASSUME NEW S \in SUBSET Nat, S # {} PROVE Min(S) \in S /\ \A n \in S : Min(S) <= n
<1>1. PICK n \in S : \A m \in S : n <= m
  BY LeastNumber
<1> QED BY <1>1 DEF Min

LEMMA BoundedKeeps ==
  ASSUME NEW s \in Seq(Values), Len(s) <= MaxRecords + 1, SlotsOnce(s)
  PROVE  /\ Bounded(s) \in Seq(Values) /\ Len(Bounded(s)) <= MaxRecords
         /\ \E g : Keeps(Bounded(s), s, Collector, g) /\ KeepsNewest(Bounded(s), s, g)
<1>0. MaxRecords \in Nat /\ MaxRecords > 2 /\ Len(s) \in Nat /\ DOMAIN s = 1 .. Len(s)
  BY CircuitAssumption
<1> DEFINE records == {k \in DOMAIN s : s[k] \notin Collector}
<1>1. Len(s) > MaxRecords =>
        \E k, l \in 1 .. 4 : k < l /\ s[k] \notin Collector /\ s[l] \notin Collector
  <2> SUFFICES ASSUME Len(s) > MaxRecords
               PROVE  \E k, l \in 1 .. 4 : k < l /\ s[k] \notin Collector /\ s[l] \notin Collector
    OBVIOUS
  <2>1. {1, 2, 3, 4} \subseteq 1 .. Len(s) /\ \A k \in {1, 2, 3, 4} : k \in 1 .. 4
    BY <1>0
  <2>2. \A k, l \in {1, 2, 3, 4} : s[k] = s[l] /\ s[k] \in Collector => k = l
    BY <2>1 DEF SlotsOnce
  <2>3. \A k, l \in {1, 2, 3, 4} : k < l => s[k] \notin Collector \/ s[l] \notin Collector \/ s[k] # s[l]
    BY <2>2
  <2>4. \A k \in {1, 2, 3, 4} : s[k] \in Collector => s[k] = Daemon \/ s[k] = Tick
    BY DEF Collector
  <2>5. \E k, l \in {1, 2, 3, 4} : k < l /\ s[k] \notin Collector /\ s[l] \notin Collector
    <3>1. s[1] \notin Collector \/ s[2] \notin Collector \/ s[3] \notin Collector
      BY <2>2, <2>4
    <3>2. s[1] \notin Collector \/ s[2] \notin Collector \/ s[4] \notin Collector
      BY <2>2, <2>4
    <3>3. s[1] \notin Collector \/ s[3] \notin Collector \/ s[4] \notin Collector
      BY <2>2, <2>4
    <3>4. s[2] \notin Collector \/ s[3] \notin Collector \/ s[4] \notin Collector
      BY <2>2, <2>4
    <3> QED BY <3>1, <3>2, <3>3, <3>4
  <2> QED BY <2>1, <2>5
<1>2. CASE Len(s) <= MaxRecords
  <2>1. Bounded(s) = s
    BY <1>2 DEF Bounded
  <2> DEFINE g == [k \in 1 .. Len(s) |-> k]
  <2>2. Keeps(s, s, Collector, g) /\ KeepsNewest(s, s, g)
    BY <1>0 DEF Keeps, KeepsNewest
  <2> QED BY <1>2, <2>1, <2>2
<1>3. CASE Len(s) > MaxRecords
  <2>1. PICK k \in 1 .. 4, l \in 1 .. 4 : k < l /\ s[k] \notin Collector /\ s[l] \notin Collector
    BY <1>1, <1>3
  <2>2. Len(s) = MaxRecords + 1 /\ 4 <= Len(s)
    <3> DEFINE n == Len(s)
    <3>1. n \in Nat /\ n <= MaxRecords + 1 /\ n > MaxRecords /\ MaxRecords \in Nat /\ MaxRecords > 2
      BY <1>0, <1>3
    <3> HIDE DEF n
    <3>2. n = MaxRecords + 1 /\ 4 <= n
      BY <3>1
    <3> QED BY <3>2 DEF n
  <2>3. k \in records /\ l \in records /\ records \in SUBSET Nat
    BY <1>0, <2>1, <2>2
  <2> DEFINE m == Min(records)
  <2>4. m \in records /\ \A n \in records : m <= n
    <3> HIDE DEF records
    <3> QED BY <2>3, MinOf
  <2>5. m \in 1 .. Len(s) /\ s[m] \notin Collector /\ m < l
    <3>1. m \in 1 .. Len(s) /\ s[m] \notin Collector
      BY <1>0, <2>4
    <3> HIDE DEF records, m
    <3> QED BY <2>1, <2>3, <2>4, <3>1
  <2>6. Bounded(s) = Part(s, DOMAIN s \ {m})
    BY <1>0, <1>3, <2>3 DEF Bounded
  <2> HIDE DEF m
  <2> DEFINE t == [j \in 1 .. Len(s) - 1 |-> IF j < m THEN s[j] ELSE s[j + 1]]
             g == [j \in 1 .. Len(s) - 1 |-> IF j < m THEN j ELSE j + 1]
  <2>7. Bounded(s) = t
    BY <2>5, <2>6, PartWithout
  <2>8. t \in Seq(Values) /\ Len(t) = Len(s) - 1 /\ Len(t) \in Nat
    <3>1. \A j \in 1 .. Len(s) - 1 : (IF j < m THEN s[j] ELSE s[j + 1]) \in Values
      BY <1>0, <2>5
    <3>2. Len(s) - 1 \in Nat /\ t \in [1 .. Len(s) - 1 -> Values]
      BY <1>0, <2>2, <3>1
    <3> HIDE DEF t
    <3> QED BY <3>2, LenProperties
  <2>9. Keeps(t, s, Collector, g)
    <3>1. /\ g \in [1 .. Len(t) -> 1 .. Len(s)]
          /\ \A j, n \in 1 .. Len(t) : j < n => g[j] < g[n]
          /\ \A j \in 1 .. Len(t) : t[j] = s[g[j]]
      BY <1>0, <2>5, <2>8
    <3>2. ASSUME NEW n \in 1 .. Len(s), s[n] \in Collector
          PROVE  \E j \in 1 .. Len(t) : g[j] = n
      <4>1. CASE n < m
        BY <1>0, <2>5, <2>8, <4>1
      <4>2. CASE n > m
        <5>1. n - 1 \in 1 .. Len(t) /\ ~(n - 1 < m) /\ n - 1 + 1 = n
          BY <1>0, <2>5, <2>8, <4>2
        <5>2. g[n - 1] = n
          BY <2>8, <5>1
        <5> QED BY <5>1, <5>2
      <4>3. n # m /\ n \in Int /\ m \in Int
        BY <1>0, <2>5, <3>2
      <4>4. n < m \/ n > m
        BY <4>3
      <4> QED BY <4>1, <4>2, <4>4
    <3> QED BY <3>1, <3>2 DEF Keeps
  <2>10. KeepsNewest(t, s, g)
    <3> SUFFICES ASSUME NEW n \in 1 .. Len(s), s[n] \notin Collector
                 PROVE  \E j \in 1 .. Len(t) : t[j] \notin Collector /\ g[j] >= n
      BY DEF KeepsNewest
    <3>1. n \in records
      BY <1>0
    <3>2. m <= n
      <4> HIDE DEF records
      <4> QED BY <2>4, <3>1
    <3>3. CASE n = m
      <4>1. l - 1 \in 1 .. Len(t) /\ ~(l - 1 < m) /\ l - 1 + 1 = l /\ l >= n
        BY <1>0, <2>1, <2>2, <2>5, <2>8, <3>3
      <4>2. g[l - 1] = l /\ t[l - 1] = s[l]
        BY <2>8, <4>1
      <4> QED BY <2>1, <4>1, <4>2
    <3>4. CASE n > m
      <4>1. n - 1 \in 1 .. Len(t) /\ ~(n - 1 < m) /\ n - 1 + 1 = n /\ n >= n
        BY <1>0, <2>5, <2>8, <3>4
      <4>2. g[n - 1] = n /\ t[n - 1] = s[n]
        BY <2>8, <4>1
      <4> QED BY <4>1, <4>2
    <3>5. n \in Int /\ m \in Int
      BY <1>0, <2>5
    <3>6. n = m \/ n > m
      BY <3>2, <3>5
    <3> QED BY <3>3, <3>4, <3>6
  <2> HIDE DEF t, g
  <2> QED BY <1>0, <2>2, <2>7, <2>8, <2>9, <2>10
<1> QED BY <1>0, <1>2, <1>3

-----------------------------------------------------------------------------
(* The steps of a cycle.                                                   *)

(* Every entry from some place on shows a rate of V, or will show it; if   *)
(* pub, there is a record among them; the cycles of out are not before it. *)
Fresh(s, sn, V, pub, out) ==
  \E t \in 1 .. Len(s) + 1 :
    /\ \A k \in t .. Len(s) : IF s[k] \in Collector THEN sn[s[k]] \in V \cup {None} ELSE s[k] \in V
    /\ pub => \E k \in t .. Len(s) : s[k] \notin Collector
    /\ \A k \in 1 .. t - 1 : s[k] \notin out

LEMMA FreshNow ==
  ASSUME NEW s, NEW sn, NEW V, NEW out, Len(s) \in Nat, \A c \in out : ~Has(s, c)
  PROVE  Fresh(s, sn, V, FALSE, out)
<1>1. Len(s) + 1 \in 1 .. Len(s) + 1 /\ \A k \in Len(s) + 1 .. Len(s) : FALSE
  OBVIOUS
<1>2. \A k \in 1 .. Len(s) + 1 - 1 : s[k] \notin out
  BY DEF Has
<1> QED BY <1>1, <1>2 DEF Fresh

LEMMA FreshLess ==
  ASSUME NEW s, NEW sn, NEW V, NEW W, V \subseteq W, NEW out, NEW less, less \subseteq out,
         NEW pub \in BOOLEAN, NEW weak \in BOOLEAN, weak => pub, Fresh(s, sn, V, pub, out)
  PROVE  Fresh(s, sn, W, weak, less)
BY DEF Fresh

LEMMA KeepsFresh ==
  ASSUME NEW s, NEW t, NEW S, NEW g, Keeps(t, s, S, g), Len(s) \in Nat, Len(t) \in Nat,
         NEW sn, NEW new, \A c \in Collector : Has(t, c) => new[c] = sn[c],
         NEW V, NEW pub \in BOOLEAN, NEW out, pub => KeepsNewest(t, s, g), Fresh(s, sn, V, pub, out)
  PROVE  Fresh(t, new, V, pub, out)
<1>1. PICK e \in 1 .. Len(s) + 1 :
        /\ \A k \in e .. Len(s) : IF s[k] \in Collector THEN sn[s[k]] \in V \cup {None} ELSE s[k] \in V
        /\ pub => \E k \in e .. Len(s) : s[k] \notin Collector
        /\ \A k \in 1 .. e - 1 : s[k] \notin out
  BY DEF Fresh
<1> DEFINE Behind == {k \in 1 .. Len(t) + 1 : k = Len(t) + 1 \/ g[k] >= e}
<1>2. PICK a \in Behind : \A k \in Behind : a <= k
  <2>1. Len(t) + 1 \in Behind /\ Behind \in SUBSET Nat
    OBVIOUS
  <2> HIDE DEF Behind
  <2> QED BY <2>1, LeastNumber
<1>3. \A k \in 1 .. Len(t) : /\ g[k] \in 1 .. Len(s) /\ t[k] = s[g[k]]
                             /\ k >= a => g[k] >= e
                             /\ k < a => g[k] < e
  <2> SUFFICES ASSUME NEW k \in 1 .. Len(t)
               PROVE  /\ g[k] \in 1 .. Len(s) /\ t[k] = s[g[k]]
                      /\ k >= a => g[k] >= e
                      /\ k < a => g[k] < e
    OBVIOUS
  <2>1. g[k] \in 1 .. Len(s) /\ t[k] = s[g[k]] /\ a \in 1 .. Len(t) + 1 /\ e \in Int
    BY <1>2 DEF Keeps
  <2>2. ASSUME k > a PROVE g[k] >= e
    <3>1. a \in 1 .. Len(t) /\ g[a] \in 1 .. Len(s)
      <4>1. a \in 1 .. Len(t)
        BY <2>1, <2>2
      <4> QED BY <4>1 DEF Keeps
    <3>2. g[a] < g[k] /\ g[a] >= e
      BY <1>2, <2>2, <3>1 DEF Keeps
    <3> QED BY <2>1, <3>1, <3>2
  <2>3. ASSUME k = a PROVE g[k] >= e
    BY <1>2, <2>3
  <2>4. ASSUME k < a, ~(g[k] < e) PROVE FALSE
    <3>1. k \in Behind
      BY <2>1, <2>4
    <3> QED BY <1>2, <2>1, <2>4, <3>1
  <2> QED BY <2>1, <2>2, <2>3, <2>4
<1>4. a \in 1 .. Len(t) + 1
  BY <1>2
<1> HIDE DEF Behind
<1>5. ASSUME NEW k \in a .. Len(t)
      PROVE  IF t[k] \in Collector THEN new[t[k]] \in V \cup {None} ELSE t[k] \in V
  <2>1. k \in 1 .. Len(t) /\ g[k] \in e .. Len(s) /\ t[k] = s[g[k]]
    BY <1>1, <1>3, <1>4
  <2>2. t[k] \in Collector => new[t[k]] = sn[t[k]]
    BY <2>1 DEF Has
  <2> QED BY <1>1, <2>1, <2>2
<1>6. ASSUME pub PROVE \E k \in a .. Len(t) : t[k] \notin Collector
  <2>1. PICK m \in e .. Len(s) : s[m] \notin Collector
    BY <1>1, <1>6
  <2>2. m \in 1 .. Len(s)
    BY <1>1
  <2>3. PICK k \in 1 .. Len(t) : t[k] \notin Collector /\ g[k] >= m
    BY <1>6, <2>1, <2>2 DEF KeepsNewest
  <2>4. k \in a .. Len(t)
    BY <1>1, <1>3, <1>4, <2>1, <2>3
  <2> QED BY <2>3, <2>4
<1>7. ASSUME NEW k \in 1 .. a - 1 PROVE t[k] \notin out
  <2>1. k \in 1 .. Len(t) /\ k < a
    BY <1>4
  <2>2. g[k] \in 1 .. e - 1 /\ t[k] = s[g[k]]
    BY <1>1, <1>3, <2>1
  <2> QED BY <1>1, <2>2
<1> QED BY <1>4, <1>5, <1>6, <1>7 DEF Fresh

LEMMA RunningHas == CircuitInv => \A c : Running(c) <=> Has(smf, c)
BY LenProperties DEF CircuitInv, Running, Has

LEMMA StampStep ==
  ASSUME CircuitInv, NEW c \in Collector, Stamp(c)
  PROVE  /\ CircuitInv'
         /\ \E g : Keeps(smf', Append(smf, c), Collector, g)
         /\ \A V : \A out \in SUBSET Collector : \A pub \in BOOLEAN :
              Fresh(smf, seen, V, pub, out) => Fresh(smf', seen', V, pub, out \cup {c})
<1> DEFINE s == Append(smf, c)
<1>1. /\ ~Has(smf, c) /\ seen[c] = None /\ smf' = Bounded(s) /\ seen' = seen
      /\ smf \in Seq(Values) /\ Len(smf) \in Nat /\ Len(smf) <= MaxRecords /\ MaxRecords \in Nat
  BY RunningHas, CircuitAssumption, LenProperties DEF Stamp, CircuitInv
<1>2. /\ s \in Seq(Values) /\ Len(s) = Len(smf) + 1 /\ s[Len(smf) + 1] = c
      /\ \A k \in 1 .. Len(smf) : s[k] = smf[k]
  BY <1>1, AppendProperties DEF Values
<1> HIDE DEF s
<1>3. SlotsOnce(s) /\ \A d : Has(s, d) <=> Has(smf, d) \/ d = c
  <2>1. \A k \in 1 .. Len(s) : k \in 1 .. Len(smf) \/ k = Len(smf) + 1
    BY <1>1, <1>2
  <2>2. \A k \in 1 .. Len(smf) : smf[k] # c /\ k \in 1 .. Len(s)
    BY <1>1, <1>2 DEF Has
  <2>3. \A k, l \in 1 .. Len(smf) : smf[k] = smf[l] /\ smf[k] \in Collector => k = l
    BY DEF CircuitInv, SlotsOnce
  <2>4. SlotsOnce(s)
    BY <1>2, <2>1, <2>2, <2>3 DEF SlotsOnce
  <2>5. Len(smf) + 1 \in 1 .. Len(s)
    BY <1>1, <1>2
  <2> QED BY <1>2, <2>1, <2>2, <2>4, <2>5 DEF Has
<1>4. PICK g : /\ smf' \in Seq(Values) /\ Len(smf') <= MaxRecords
               /\ Keeps(smf', s, Collector, g) /\ KeepsNewest(smf', s, g)
  <2>1. Len(s) <= MaxRecords + 1
    BY <1>1, <1>2
  <2> QED BY <1>1, <1>2, <1>3, <2>1, BoundedKeeps
<1>5. Len(smf') \in Nat /\ Len(s) \in Nat
  BY <1>2, <1>4, LenProperties
<1>6. SlotsOnce(smf') /\ \A d \in Collector : Has(s, d) => Has(smf', d)
  BY <1>3, <1>4, <1>5, KeepsOnce
<1>7. CircuitInv'
  BY <1>1, <1>3, <1>4, <1>6 DEF CircuitInv
<1>8. ASSUME NEW V, NEW out \in SUBSET Collector, NEW pub \in BOOLEAN, Fresh(smf, seen, V, pub, out)
      PROVE  Fresh(smf', seen', V, pub, out \cup {c})
  <2>1. PICK t \in 1 .. Len(smf) + 1 :
          /\ \A k \in t .. Len(smf) : IF smf[k] \in Collector THEN seen[smf[k]] \in V \cup {None} ELSE smf[k] \in V
          /\ pub => \E k \in t .. Len(smf) : smf[k] \notin Collector
          /\ \A k \in 1 .. t - 1 : smf[k] \notin out
    BY <1>8 DEF Fresh
  <2>2. t \in 1 .. Len(s) + 1
    BY <1>1, <1>2
  <2>3. \A k \in t .. Len(s) : IF s[k] \in Collector THEN seen[s[k]] \in V \cup {None} ELSE s[k] \in V
    <3> SUFFICES ASSUME NEW k \in t .. Len(s)
                 PROVE  IF s[k] \in Collector THEN seen[s[k]] \in V \cup {None} ELSE s[k] \in V
      OBVIOUS
    <3>1. CASE k = Len(smf) + 1
      BY <1>1, <1>2, <3>1
    <3>2. CASE k # Len(smf) + 1
      <4>1. k \in t .. Len(smf) /\ k \in 1 .. Len(smf)
        BY <1>1, <1>2, <3>2
      <4> QED BY <1>2, <2>1, <4>1
    <3> QED BY <3>1, <3>2
  <2>4. pub => \E k \in t .. Len(s) : s[k] \notin Collector
    <3>1. \A k \in t .. Len(smf) : k \in t .. Len(s) /\ s[k] = smf[k]
      BY <1>1, <1>2
    <3> QED BY <2>1, <3>1
  <2>5. \A k \in 1 .. t - 1 : s[k] \notin out \cup {c}
    <3>1. \A k \in 1 .. t - 1 : k \in 1 .. Len(smf)
      BY <1>1
    <3>2. \A k \in 1 .. Len(smf) : smf[k] # c
      BY <1>1 DEF Has
    <3> QED BY <1>2, <2>1, <3>1, <3>2
  <2>6. Fresh(s, seen, V, pub, out \cup {c})
    BY <2>2, <2>3, <2>4, <2>5 DEF Fresh
  <2> QED BY <1>1, <1>4, <1>5, <2>6, KeepsFresh
<1> QED BY <1>4, <1>7, <1>8 DEF s

(* What a read may see.                                                    *)
LEMMA ReadStep ==
  ASSUME CircuitInv, ambr \in Rate, faults \in Nat, NEW c \in Collector, ReadSessions(c)
  PROVE  /\ CircuitInv' /\ smf' = smf
         /\ \E r \in {ambr, 0} : /\ seen' = [seen EXCEPT ![c] = r]
                                 /\ r = 0 => faults' = faults + 1
         /\ \A V : \A out \in SUBSET Collector : \A pub \in BOOLEAN :
              /\ ambr \in V /\ (faults' # faults => 0 \in V)
              /\ Fresh(smf, seen, V, pub, out)
              => Fresh(smf', seen', V, pub, out)
<1>1. PICK r \in {ambr, 0} :
        /\ smf' = smf /\ seen' = [seen EXCEPT ![c] = r]
        /\ r = 0 => faults' = faults + 1
        /\ r = ambr \/ faults' = faults + 1
  BY ValuesApart DEF ReadSessions, Sessions, Fails
<1>2. CircuitInv'
  <2>1. Has(smf, c)
    BY RunningHas DEF ReadSessions
  <2> QED BY <1>1, <2>1 DEF CircuitInv
<1>3. ASSUME NEW V, NEW out \in SUBSET Collector, NEW pub \in BOOLEAN, ambr \in V, faults' # faults => 0 \in V,
             Fresh(smf, seen, V, pub, out)
      PROVE  Fresh(smf', seen', V, pub, out)
  <2>1. r \in V
    BY <1>1, <1>3
  <2>2. \A d \in Collector : seen[d] \in V \cup {None} => seen'[d] \in V \cup {None}
    BY <1>1, <2>1 DEF CircuitInv
  <2> QED BY <1>1, <1>3, <2>2 DEF Fresh
<1> QED BY <1>1, <1>2, <1>3

(* The end of a cycle, with a record or without one.                       *)
LEMMA InsertStep ==
  ASSUME CircuitInv, NEW c \in Collector, Running(c), seen[c] # None,
         smf' = Inserted(c), seen' = [seen EXCEPT ![c] = None]
  PROVE  /\ CircuitInv' /\ ~Has(smf', c)
         /\ \E m \in 1 .. Len(smf) :
              /\ smf[m] = c /\ Len(smf') = Len(smf) /\ smf'[m] = seen[c] /\ seen[c] \in Rate \cup {0}
              /\ \A k \in 1 .. Len(smf) : k # m => smf'[k] = smf[k] /\ smf[k] # c
         /\ \A V : \A out \in SUBSET Collector : \A pub \in BOOLEAN :
              Fresh(smf, seen, V, pub, out) =>
                /\ Fresh(smf', seen', V, pub, out \cup {c})
                /\ c \in out => Fresh(smf', seen', V, TRUE, out)
<1>1. /\ smf \in Seq(Values) /\ Len(smf) \in Nat /\ Len(smf) <= MaxRecords /\ DOMAIN smf = 1 .. Len(smf)
      /\ \A k \in 1 .. Len(smf) : smf[k] \in Values
      /\ seen[c] \in Rate \cup {0} /\ seen[c] \in Values /\ seen[c] \notin Collector
  BY ValuesApart, LenProperties DEF CircuitInv, Values
<1>2. PICK m \in 1 .. Len(smf) : smf[m] = c
  BY RunningHas DEF Has
<1>3. \A k \in 1 .. Len(smf) : k # m => smf[k] # c
  BY <1>2 DEF CircuitInv, SlotsOnce
<1>4. smf' = [k \in 1 .. Len(smf) |-> IF smf[k] = c THEN seen[c] ELSE smf[k]]
  BY <1>1 DEF Inserted
<1>5. smf' \in Seq(Values) /\ Len(smf') = Len(smf)
  <2>1. smf' \in [1 .. Len(smf) -> Values]
    BY <1>1, <1>4
  <2> QED BY <1>1, <2>1, LenProperties
<1>6. smf'[m] = seen[c] /\ \A k \in 1 .. Len(smf) : k # m => smf'[k] = smf[k] /\ smf[k] # c
  BY <1>2, <1>3, <1>4
<1>7. ~Has(smf', c)
  BY <1>1, <1>5, <1>6 DEF Has
<1>8. CircuitInv'
  <2>1. SlotsOnce(smf')
    BY <1>1, <1>5, <1>6 DEF CircuitInv, SlotsOnce
  <2>2. \A d \in Collector : d # c /\ Has(smf, d) => Has(smf', d)
    BY <1>2, <1>5, <1>6 DEF Has
  <2>3. seen' \in [Collector -> Rate \cup {0, None}] /\ \A d \in Collector : seen'[d] # None => d # c /\ seen[d] # None
    BY DEF CircuitInv
  <2> QED BY <1>1, <1>5, <2>1, <2>2, <2>3 DEF CircuitInv
<1>9. ASSUME NEW V, NEW out \in SUBSET Collector, NEW pub \in BOOLEAN, Fresh(smf, seen, V, pub, out)
      PROVE  /\ Fresh(smf', seen', V, pub, out \cup {c})
             /\ c \in out => Fresh(smf', seen', V, TRUE, out)
  <2>1. PICK t \in 1 .. Len(smf) + 1 :
          /\ \A k \in t .. Len(smf) : IF smf[k] \in Collector THEN seen[smf[k]] \in V \cup {None} ELSE smf[k] \in V
          /\ pub => \E k \in t .. Len(smf) : smf[k] \notin Collector
          /\ \A k \in 1 .. t - 1 : smf[k] \notin out
    BY <1>9 DEF Fresh
  <2>2. \A k \in t .. Len(smf) : IF smf'[k] \in Collector THEN seen'[smf'[k]] \in V \cup {None} ELSE smf'[k] \in V
    <3> SUFFICES ASSUME NEW k \in t .. Len(smf)
                 PROVE  IF smf'[k] \in Collector THEN seen'[smf'[k]] \in V \cup {None} ELSE smf'[k] \in V
      OBVIOUS
    <3>1. k \in 1 .. Len(smf)
      BY <1>1
    <3>2. CASE k = m
      <4>1. seen[c] \in V \cup {None}
        BY <1>2, <2>1, <3>2
      <4> QED BY <1>1, <1>6, <3>2, <4>1
    <3>3. CASE k # m
      <4>1. smf'[k] = smf[k] /\ smf[k] # c
        BY <1>6, <3>1, <3>3
      <4>2. smf[k] \in Collector => seen'[smf[k]] = seen[smf[k]]
        BY <4>1 DEF CircuitInv
      <4> QED BY <2>1, <4>1, <4>2
    <3> QED BY <3>2, <3>3
  <2>3. \A k \in t .. Len(smf) : smf[k] \notin Collector => smf'[k] \notin Collector
    BY <1>1, <1>6
  <2>4. \A k \in 1 .. t - 1 : smf'[k] \notin out \cup {c}
    <3>1. \A k \in 1 .. t - 1 : k \in 1 .. Len(smf)
      BY <1>1
    <3> QED BY <1>1, <1>6, <2>1, <3>1
  <2>5. Fresh(smf', seen', V, pub, out \cup {c})
    <3>1. pub => \E k \in t .. Len(smf') : smf'[k] \notin Collector
      BY <1>5, <2>1, <2>3
    <3> QED BY <1>5, <2>2, <2>4, <3>1 DEF Fresh
  <2>6. ASSUME c \in out PROVE Fresh(smf', seen', V, TRUE, out)
    <3>1. m \in t .. Len(smf)
      BY <1>1, <1>2, <2>1, <2>6
    <3>2. \E k \in t .. Len(smf') : smf'[k] \notin Collector
      BY <1>1, <1>5, <1>6, <3>1
    <3> QED BY <1>5, <2>2, <2>4, <3>2 DEF Fresh
  <2> QED BY <2>5, <2>6
<1> QED BY <1>1, <1>2, <1>5, <1>6, <1>7, <1>8, <1>9

LEMMA WithoutStep ==
  ASSUME CircuitInv, NEW c \in Collector, smf' = Without(c), seen' = [seen EXCEPT ![c] = None]
  PROVE  /\ CircuitInv' /\ ~Has(smf', c)
         /\ \E g : Keeps(smf', smf, Values \ {c}, g)
         /\ \A V : \A out \in SUBSET Collector : \A pub \in BOOLEAN :
              Fresh(smf, seen, V, pub, out) => Fresh(smf', seen', V, pub, out \cup {c})
<1>1. /\ smf \in Seq(Values) /\ Len(smf) \in Nat /\ Len(smf) <= MaxRecords /\ DOMAIN smf = 1 .. Len(smf)
      /\ \A k \in 1 .. Len(smf) : smf[k] \in Values
  BY LenProperties DEF CircuitInv, Values
<1> DEFINE I == {k \in DOMAIN smf : smf[k] # c}
<1>2. PICK g : /\ smf' \in Seq(Values) /\ Keeps(smf', smf, Values \ {c}, g)
               /\ \A k \in 1 .. Len(smf') : g[k] \in I
  <2>1. smf' = Part(smf, I) /\ \A m \in 1 .. Len(smf) : smf[m] \in Values \ {c} => m \in I
    BY <1>1 DEF Without
  <2> HIDE DEF I
  <2>2. /\ Part(smf, I) \in Seq(Values)
        /\ \E g : Keeps(Part(smf, I), smf, Values \ {c}, g) /\ \A k \in 1 .. Len(Part(smf, I)) : g[k] \in I
    BY <1>1, <2>1, PartKeeps
  <2> QED BY <2>1, <2>2
<1>3. Len(smf') \in Nat
  BY <1>2, LenProperties
<1>4. SlotsOnce(smf') /\ (\A d \in Collector : d # c /\ Has(smf, d) => Has(smf', d))
  BY <1>2, <1>3, KeepsOnce DEF CircuitInv, Values
<1>5. ~Has(smf', c)
  BY <1>2 DEF Has, Keeps
<1>6. KeepsNewest(smf', smf, g)
  <2> SUFFICES ASSUME NEW m \in 1 .. Len(smf), smf[m] \notin Collector
               PROVE  \E k \in 1 .. Len(smf') : smf'[k] \notin Collector /\ g[k] >= m
    BY DEF KeepsNewest
  <2>1. smf[m] \in Values \ {c} /\ m >= m
    BY <1>1
  <2>2. PICK k \in 1 .. Len(smf') : g[k] = m
    BY <1>2, <2>1 DEF Keeps
  <2> QED BY <1>2, <2>1, <2>2 DEF Keeps
<1>7. Len(smf') <= Len(smf)
  BY <1>1, <1>2, <1>3, KeepsShorter
<1>8. CircuitInv'
  <2>1. seen' \in [Collector -> Rate \cup {0, None}] /\ \A d \in Collector : seen'[d] # None => d # c /\ seen[d] # None
    BY DEF CircuitInv
  <2>2. Len(smf') <= MaxRecords
    BY <1>1, <1>3, <1>7, CircuitAssumption
  <2> QED BY <1>2, <1>4, <2>1, <2>2 DEF CircuitInv
<1>9. ASSUME NEW V, NEW out \in SUBSET Collector, NEW pub \in BOOLEAN, Fresh(smf, seen, V, pub, out)
      PROVE  Fresh(smf', seen', V, pub, out \cup {c})
  <2>1. \A d \in Collector : Has(smf', d) => seen'[d] = seen[d]
    BY <1>5 DEF CircuitInv
  <2>2. Fresh(smf', seen', V, pub, out)
    <3>1. Keeps(smf', smf, {}, g) /\ Len(smf) \in Nat
      BY <1>1, <1>2 DEF Keeps
    <3> DEFINE old == smf
               new == smf'
               sn == seen
               sn2 == seen'
    <3>2. /\ Keeps(new, old, {}, g) /\ Len(old) \in Nat /\ Len(new) \in Nat
          /\ \A d \in Collector : Has(new, d) => sn2[d] = sn[d]
          /\ pub => KeepsNewest(new, old, g)
          /\ Fresh(old, sn, V, pub, out)
      BY <1>3, <1>6, <1>9, <2>1, <3>1
    <3> HIDE DEF old, new, sn, sn2
    <3>3. Fresh(new, sn2, V, pub, out)
      BY <3>2, KeepsFresh
    <3> QED BY <3>3 DEF new, sn2
  <2>3. \A k \in 1 .. Len(smf') : smf'[k] # c
    BY <1>5 DEF Has
  <2> QED BY <1>3, <2>2, <2>3 DEF Fresh
<1> QED BY <1>2, <1>5, <1>8, <1>9

(* Records are deleted; the slots of the cycles under way stay.            *)
LEMMA PurgeStep ==
  ASSUME CircuitInv, NEW I, smf' = Part(smf, I), seen' = seen,
         \A k \in 1 .. Len(smf) : smf[k] \in Collector => k \in I
  PROVE  /\ CircuitInv'
         /\ \A c \in Collector : Has(smf', c) <=> Has(smf, c)
         /\ \E g : Keeps(smf', smf, Collector, g) /\ \A k \in 1 .. Len(smf') : g[k] \in I
         /\ \A V : \A out \in SUBSET Collector :
              Fresh(smf, seen, V, FALSE, out) => Fresh(smf', seen', V, FALSE, out)
<1>1. smf \in Seq(Values) /\ Len(smf) \in Nat /\ Len(smf) <= MaxRecords /\ MaxRecords \in Nat
  BY LenProperties, CircuitAssumption DEF CircuitInv
<1>2. PICK g : /\ smf' \in Seq(Values) /\ Keeps(smf', smf, Collector, g)
               /\ \A k \in 1 .. Len(smf') : g[k] \in I
  BY <1>1, PartKeeps
<1>3. Len(smf') \in Nat
  BY <1>2, LenProperties
<1>4. /\ SlotsOnce(smf') /\ Len(smf') <= Len(smf)
      /\ \A c \in Collector : Has(smf', c) <=> Has(smf, c)
  BY <1>1, <1>2, <1>3, KeepsOnce, KeepsShorter DEF CircuitInv
<1>5. CircuitInv'
  BY <1>1, <1>2, <1>3, <1>4 DEF CircuitInv
<1>6. ASSUME NEW V, NEW out \in SUBSET Collector, Fresh(smf, seen, V, FALSE, out)
      PROVE  Fresh(smf', seen', V, FALSE, out)
  <2> DEFINE old == smf
             new == smf'
             sn == seen
             sn2 == seen'
  <2>1. /\ Keeps(new, old, Collector, g) /\ Len(old) \in Nat /\ Len(new) \in Nat
        /\ \A d \in Collector : Has(new, d) => sn2[d] = sn[d]
        /\ Fresh(old, sn, V, FALSE, out)
    BY <1>1, <1>2, <1>3, <1>6
  <2> HIDE DEF old, new, sn, sn2
  <2>2. Fresh(new, sn2, V, FALSE, out)
    BY <2>1, KeepsFresh
  <2> QED BY <2>2 DEF new, sn2
<1> QED BY <1>2, <1>4, <1>5, <1>6

LEMMA FlushStep ==
  ASSUME CircuitInv, smf' = UnderWay, seen' = seen
  PROVE  /\ CircuitInv' /\ \A k \in 1 .. Len(smf') : smf'[k] \in Collector
         /\ \A c \in Collector : Has(smf', c) <=> Has(smf, c)
<1> DEFINE I == {k \in DOMAIN smf : smf[k] \in Collector}
<1>1. smf' = Part(smf, I) /\ \A k \in 1 .. Len(smf) : smf[k] \in Collector => k \in I
  BY LenProperties DEF UnderWay, CircuitInv
<1>2. \A k \in I : smf[k] \in Collector
  OBVIOUS
<1> HIDE DEF I
<1>3. PICK g : Keeps(smf', smf, Collector, g) /\ \A k \in 1 .. Len(smf') : g[k] \in I
  BY <1>1, PurgeStep
<1>4. \A k \in 1 .. Len(smf') : smf'[k] \in Collector
  BY <1>2, <1>3 DEF Keeps
<1> QED BY <1>1, <1>4, PurgeStep

(* What one step of the daemon does, or its death.                         *)
LEMMA DaemonStep ==
  ASSUME CircuitInv, ambr \in Rate, faults \in Nat, DaemonCycle \/ KillDaemon
  PROVE  /\ CircuitInv' /\ ambr' = ambr /\ faults' \in {faults, faults + 1}
         /\ daemon' # daemon => daemon \in {"up", "stopped"} /\ daemon' = "none" /\ faults' # faults
         /\ seen'[Tick] = seen[Tick] /\ (Has(smf', Tick) <=> Has(smf, Tick))
         /\ \A V : \A out \in SUBSET Collector : \A pub \in BOOLEAN :
              /\ ambr \in V /\ (faults' # faults => 0 \in V)
              /\ Fresh(smf, seen, V, pub, out)
              => /\ Fresh(smf', seen', V, pub, out)
                 /\ seen[Daemon] # None /\ seen'[Daemon] = None =>
                      /\ Fresh(smf', seen', V, pub, out \cup {Daemon})
                      /\ Daemon \in out => faults' # faults \/ Fresh(smf', seen', V, TRUE, out)
<1> USE ValuesApart
<1>0. /\ seen \in [Collector -> Rate \cup {0, None}]
      /\ (Has(smf, Tick) <=> Has(smf, Tick))
  BY DEF CircuitInv
<1>1. CASE daemon = "up" /\ Stamp(Daemon)
  <2>1. /\ CircuitInv' /\ ambr' = ambr /\ faults' = faults /\ daemon' = daemon /\ seen' = seen
    BY <1>1, StampStep DEF Stamp
  <2>2. PICK g : Keeps(smf', Append(smf, Daemon), Collector, g)
    BY <1>1, StampStep
  <2>3. Has(smf', Tick) <=> Has(smf, Tick)
    <3>1. /\ Len(smf') \in Nat /\ SlotsOnce(smf') /\ smf \in Seq(Values) /\ Daemon \in Values
      BY <2>1, LenProperties DEF CircuitInv, Values
    <3>2. Has(Append(smf, Daemon), Tick) <=> Has(smf, Tick)
      BY <3>1, AppendProperties DEF Has
    <3>3. Has(smf', Tick) <=> Has(Append(smf, Daemon), Tick)
      <4> DEFINE old == Append(smf, Daemon)
                 new == smf'
      <4> HIDE DEF old, new
      <4>1. Keeps(new, old, Collector, g)
        BY <2>2 DEF old, new
      <4>2. Has(new, Tick) <=> Has(old, Tick)
        BY <4>1, KeepsHas
      <4> QED BY <4>2 DEF old, new
    <3> QED BY <3>2, <3>3
  <2>4. ASSUME NEW V, NEW out \in SUBSET Collector, NEW pub \in BOOLEAN, Fresh(smf, seen, V, pub, out)
        PROVE  Fresh(smf', seen', V, pub, out)
    <3>1. Fresh(smf', seen', V, pub, out \cup {Daemon})
      BY <1>1, <2>4, StampStep
    <3> QED BY <3>1, FreshLess
  <2>5. seen[Daemon] = seen'[Daemon]
    BY <2>1
  <2> QED BY <2>1, <2>3, <2>4, <2>5
<1>2. CASE daemon = "up" /\ ReadSessions(Daemon)
  <2>1. /\ CircuitInv' /\ ambr' = ambr /\ daemon' = daemon /\ smf' = smf
        /\ \E r \in {ambr, 0} : seen' = [seen EXCEPT ![Daemon] = r]
    BY <1>2, ReadStep DEF ReadSessions
  <2>2. faults' \in {faults, faults + 1} /\ seen[Daemon] = None
    BY <1>2 DEF ReadSessions, Fails
  <2>3. seen'[Tick] = seen[Tick]
    BY <1>0, <2>1
  <2>4. ASSUME NEW V, NEW out \in SUBSET Collector, NEW pub \in BOOLEAN, Fresh(smf, seen, V, pub, out),
               ambr \in V, faults' # faults => 0 \in V
        PROVE  Fresh(smf', seen', V, pub, out)
    BY <1>2, <2>4, ReadStep
  <2>5. \A V : \A out \in SUBSET Collector : \A pub \in BOOLEAN :
              /\ ambr \in V /\ (faults' # faults => 0 \in V)
              /\ Fresh(smf, seen, V, pub, out)
              => /\ Fresh(smf', seen', V, pub, out)
                 /\ seen[Daemon] # None /\ seen'[Daemon] = None =>
                      /\ Fresh(smf', seen', V, pub, out \cup {Daemon})
                      /\ Daemon \in out => faults' # faults \/ Fresh(smf', seen', V, TRUE, out)
    BY <2>2, <2>4
  <2> QED BY <2>1, <2>2, <2>3, <2>5
<1>3. CASE daemon = "up" /\ Insert(Daemon, FALSE)
  <2>1. /\ Running(Daemon) /\ seen[Daemon] # None /\ smf' = Inserted(Daemon)
        /\ seen' = [seen EXCEPT ![Daemon] = None] /\ ambr' = ambr /\ faults' = faults /\ daemon' = daemon
    BY <1>3 DEF Insert
  <2>2. seen'[Tick] = seen[Tick]
    BY <1>0, <2>1
  <2>3. Has(smf', Tick) <=> Has(smf, Tick)
    <3>1. PICK m \in 1 .. Len(smf) :
            /\ smf[m] = Daemon /\ Len(smf') = Len(smf) /\ smf'[m] = seen[Daemon] /\ seen[Daemon] \in Rate \cup {0}
            /\ \A k \in 1 .. Len(smf) : k # m => smf'[k] = smf[k] /\ smf[k] # Daemon
      BY <2>1, InsertStep
    <3> QED BY <3>1 DEF Has
  <2>4. \A V : \A out \in SUBSET Collector : \A pub \in BOOLEAN :
               Fresh(smf, seen, V, pub, out) =>
                 /\ Fresh(smf', seen', V, pub, out \cup {Daemon})
                 /\ Daemon \in out => Fresh(smf', seen', V, TRUE, out)
    BY <2>1, InsertStep
  <2>5. ASSUME NEW V, NEW out \in SUBSET Collector, NEW pub \in BOOLEAN, Fresh(smf, seen, V, pub, out)
        PROVE  /\ Fresh(smf', seen', V, pub, out) /\ Fresh(smf', seen', V, pub, out \cup {Daemon})
               /\ Daemon \in out => Fresh(smf', seen', V, TRUE, out)
    <3>1. /\ Fresh(smf', seen', V, pub, out \cup {Daemon})
          /\ Daemon \in out => Fresh(smf', seen', V, TRUE, out)
      BY <2>5, <2>4
    <3>2. Fresh(smf', seen', V, pub, out)
      BY <3>1, FreshLess
    <3> QED BY <3>1, <3>2
  <2>6. CircuitInv'
    BY <2>1, InsertStep
  <2> QED BY <2>1, <2>2, <2>3, <2>5, <2>6
<1>4. CASE (daemon = "up" /\ CycleFails(Daemon)) \/ KillDaemon
  <2>1. /\ smf' = Without(Daemon) /\ seen' = [seen EXCEPT ![Daemon] = None]
        /\ ambr' = ambr /\ faults' = faults + 1
        /\ daemon' # daemon => daemon \in {"up", "stopped"} /\ daemon' = "none" /\ faults' # faults
    BY <1>4 DEF CycleFails, KillDaemon, Fails
  <2>2. seen'[Tick] = seen[Tick]
    BY <1>0, <2>1
  <2>3. Has(smf', Tick) <=> Has(smf, Tick)
    <3>1. PICK g : Keeps(smf', smf, Values \ {Daemon}, g)
      BY <2>1, WithoutStep
    <3>2. Tick \in Values \ {Daemon}
      BY ValuesApart DEF Values
    <3> QED BY <3>1, <3>2, KeepsHas
  <2>4. \A V : \A out \in SUBSET Collector : \A pub \in BOOLEAN :
               Fresh(smf, seen, V, pub, out) =>
               Fresh(smf', seen', V, pub, out \cup {Daemon})
    BY <2>1, WithoutStep
  <2>5. ASSUME NEW V, NEW out \in SUBSET Collector, NEW pub \in BOOLEAN, Fresh(smf, seen, V, pub, out)
        PROVE  Fresh(smf', seen', V, pub, out) /\ Fresh(smf', seen', V, pub, out \cup {Daemon})
    <3>1. Fresh(smf', seen', V, pub, out \cup {Daemon})
      BY <2>5, <2>4
    <3> QED BY <3>1, FreshLess
  <2>6. CircuitInv'
    BY <2>1, WithoutStep
  <2>7. faults' # faults
    BY <2>1
  <2>8. \A V : \A out \in SUBSET Collector : \A pub \in BOOLEAN :
              /\ ambr \in V /\ (faults' # faults => 0 \in V)
              /\ Fresh(smf, seen, V, pub, out)
              => /\ Fresh(smf', seen', V, pub, out)
                 /\ seen[Daemon] # None /\ seen'[Daemon] = None =>
                      /\ Fresh(smf', seen', V, pub, out \cup {Daemon})
                      /\ Daemon \in out => faults' # faults \/ Fresh(smf', seen', V, TRUE, out)
    BY <2>5, <2>7
  <2> QED BY <2>1, <2>2, <2>3, <2>6, <2>8
<1> QED BY <1>1, <1>2, <1>3, <1>4 DEF DaemonCycle

(***************************************************************************)
(* The suites: what is known at each operation of a program.  own and rate *)
(* say what the rate kept and the rate of the slice are, sure that the rate*)
(* to restore is kept, that the cooldown is over, and that no records were *)
(* taken out or put back since the last write; todo which operation comes  *)
(* next.                                                                   *)
(***************************************************************************)
SuiteOp ==
  {"find", "pause", "base", "look", "sweep", "keep", "judge", "step", "put", "check", "cycle",
   "agent", "session", "leap", "raise", "wait", "tick", "mask", "unmask", "read", "flush",
   "reset", "climb", "probe", "restore", "compare"}

Knowledge ==
  [own : {"none", "rate", "base"}, rate : {"launch", "base", "grown", "any"},
   sure : SUBSET {"found", "calm", "fresh"}, todo : {"any", "step", "pause"}]

Writes == {"base", "put", "raise", "leap", "step", "probe", "restore", "reset", "climb"}

Changes == Writes \cup {"agent", "session"}

Needs(s, a, op) ==
  /\ op \in {"put", "raise", "leap", "climb"} => a.own # "none"
  /\ op \in {"restore", "compare"} \/ (op = "sweep" /\ s = "v4") => "found" \in a.sure
  /\ op \in {"sweep", "judge", "check"} => "calm" \in a.sure
  /\ op \in {"agent", "read", "judge"} => "fresh" \in a.sure
  /\ op = "agent" => a.rate = IF s = "cross_1" THEN "grown" ELSE "base"
  /\ op = "keep" /\ s \in {"v4", "all_v4", "v4_llm"} => a.rate = "base"
  /\ op = "find" => a.rate = "launch"
  /\ op = "sweep" => s \in {"v4", "all_v4"}
  /\ a.todo = "any" => op # "step"
  /\ a.todo # "any" => op = a.todo

Grants(a, op, c) ==
  /\ c.own # "none" => a.own # "none" \/ op \in {"keep", "reset"}
  /\ c.own = "base" => \/ op = "reset"
                       \/ op = "keep" /\ a.rate = "base"
                       \/ op \notin {"keep", "climb"} /\ a.own = "base"
  /\ c.rate = "launch" => \/ op = "restore"
                          \/ op \notin Changes /\ a.rate = "launch"
  /\ c.rate = "base" => \/ op \in {"reset", "base"}
                        \/ op = "put" /\ a.own = "base"
                        \/ op \notin Changes /\ a.rate = "base"
  /\ c.rate = "grown" => \/ op = "climb" /\ a.own = "base"
                         \/ op \notin Changes /\ a.rate = "grown"
  /\ "found" \in c.sure => op = "find" \/ "found" \in a.sure
  /\ "calm" \in c.sure => \/ op = "pause"
                          \/ op \notin Changes /\ "calm" \in a.sure
  /\ "fresh" \in c.sure => \/ op \in Writes
                           \/ op \notin {"mask", "unmask", "flush"} /\ "fresh" \in a.sure
  /\ c.todo = CASE op = "judge" -> "step" [] op = "step" -> "pause" [] OTHER -> "any"

Moves(s) ==
  {m \in Knowledge \X SuiteOp \X Knowledge : Needs(s, m[1], m[2]) /\ Grants(m[1], m[2], m[3])}

K(kept, rate, sure, todo) ==
  [own |-> kept, rate |-> rate, sure |-> sure, todo |-> todo]

Runs(s, tasks, from, to) == tasks \in Seq(SuiteOp) /\ Leads(Moves(s), tasks, from, to)

LEMMA RunsOn ==
  ASSUME NEW s, NEW first, NEW second, NEW from, NEW mid, NEW to,
         Runs(s, first, from, mid), Runs(s, second, mid, to)
  PROVE  Runs(s, first \o second, from, to)
BY LeadsOn, ConcatProperties DEF Runs

LEMMA RunsOver ==
  ASSUME NEW s, NEW n \in Nat, NEW tasks, NEW at, Runs(s, tasks, at, at)
  PROVE  Runs(s, Times(n, tasks), at, at)
BY LeadsOver DEF Runs

LEMMA RunsNowhere == ASSUME NEW s, NEW at PROVE Runs(s, << >>, at, at)
BY LeadsNowhere DEF Runs

(* What is known at the launch of the suites that restore, and of others.  *)
Launched == K("none", "launch", {}, "any")
Unknown  == K("none", "any", {}, "any")

LEMMA ThresholdLeads ==
  ASSUME NEW s, s \in {"v4", "all_v4"}
  PROVE  Runs(s, Threshold, K("none", "launch", {}, "any"),
              K("none", "base", {"found", "calm", "fresh"}, "any"))
<1>1. <<K("none", "launch", {}, "any"), "find", K("none", "launch", {"found"}, "any")>> \in Moves(s)
  BY DEF Moves, Needs, Grants, K, Knowledge, SuiteOp, Writes, Changes
<1>2. <<K("none", "launch", {"found"}, "any"), "pause", K("none", "launch", {"found", "calm"}, "any")>> \in Moves(s)
  BY DEF Moves, Needs, Grants, K, Knowledge, SuiteOp, Writes, Changes
<1>3. <<K("none", "launch", {"found", "calm"}, "any"), "base", K("none", "base", {"found", "fresh"}, "any")>> \in Moves(s)
  BY DEF Moves, Needs, Grants, K, Knowledge, SuiteOp, Writes, Changes
<1>4. <<K("none", "base", {"found", "fresh"}, "any"), "look", K("none", "base", {"found", "fresh"}, "any")>> \in Moves(s)
  BY DEF Moves, Needs, Grants, K, Knowledge, SuiteOp, Writes, Changes
<1>5. <<K("none", "base", {"found", "fresh"}, "any"), "pause", K("none", "base", {"found", "calm", "fresh"}, "any")>> \in Moves(s)
  BY DEF Moves, Needs, Grants, K, Knowledge, SuiteOp, Writes, Changes
<1>6. <<K("none", "base", {"found", "calm", "fresh"}, "any"), "sweep", K("none", "base", {"found", "calm", "fresh"}, "any")>> \in Moves(s)
  BY DEF Moves, Needs, Grants, K, Knowledge, SuiteOp, Writes, Changes
<1>7. <<"find", "pause", "base", "look", "pause", "sweep">> \in Seq(SuiteOp)
  BY DEF SuiteOp
<1> QED BY <1>1, <1>2, <1>3, <1>4, <1>5, <1>6, <1>7, Leads6 DEF Runs, Threshold

LEMMA StepLeads ==
  ASSUME NEW s
  PROVE  Runs(s, <<"judge", "step", "pause", "look">>, K("base", "any", {"found", "calm", "fresh"}, "any"),
              K("base", "any", {"found", "calm", "fresh"}, "any"))
<1>1. <<K("base", "any", {"found", "calm", "fresh"}, "any"), "judge", K("base", "any", {"found", "calm", "fresh"}, "step")>> \in Moves(s)
  BY DEF Moves, Needs, Grants, K, Knowledge, SuiteOp, Writes, Changes
<1>2. <<K("base", "any", {"found", "calm", "fresh"}, "step"), "step", K("base", "any", {"found", "fresh"}, "pause")>> \in Moves(s)
  BY DEF Moves, Needs, Grants, K, Knowledge, SuiteOp, Writes, Changes
<1>3. <<K("base", "any", {"found", "fresh"}, "pause"), "pause", K("base", "any", {"found", "calm", "fresh"}, "any")>> \in Moves(s)
  BY DEF Moves, Needs, Grants, K, Knowledge, SuiteOp, Writes, Changes
<1>4. <<K("base", "any", {"found", "calm", "fresh"}, "any"), "look", K("base", "any", {"found", "calm", "fresh"}, "any")>> \in Moves(s)
  BY DEF Moves, Needs, Grants, K, Knowledge, SuiteOp, Writes, Changes
<1>5. <<"judge", "step", "pause", "look">> \in Seq(SuiteOp)
  BY DEF SuiteOp
<1> QED BY <1>1, <1>2, <1>3, <1>4, <1>5, Leads4 DEF Runs

LEMMA KeepLeads ==
  ASSUME NEW s
  PROVE  Runs(s, <<"keep">>, K("none", "base", {"found", "calm", "fresh"}, "any"),
              K("base", "any", {"found", "calm", "fresh"}, "any"))
<1>1. <<K("none", "base", {"found", "calm", "fresh"}, "any"), "keep", K("base", "any", {"found", "calm", "fresh"}, "any")>> \in Moves(s)
  BY DEF Moves, Needs, Grants, K, Knowledge, SuiteOp, Writes, Changes
<1>2. <<"keep">> \in Seq(SuiteOp)
  BY DEF SuiteOp
<1> QED BY <1>1, <1>2, Leads1 DEF Runs

LEMMA PutLeads ==
  ASSUME NEW s
  PROVE  Runs(s, <<"put">>, K("base", "any", {"found", "calm", "fresh"}, "any"),
              K("base", "base", {"found", "fresh"}, "any"))
<1>1. <<K("base", "any", {"found", "calm", "fresh"}, "any"), "put", K("base", "base", {"found", "fresh"}, "any")>> \in Moves(s)
  BY DEF Moves, Needs, Grants, K, Knowledge, SuiteOp, Writes, Changes
<1>2. <<"put">> \in Seq(SuiteOp)
  BY DEF SuiteOp
<1> QED BY <1>1, <1>2, Leads1 DEF Runs

LEMMA ControlLeads ==
  ASSUME NEW s
  PROVE  Runs(s, Control, K("base", "base", {"found", "fresh"}, "any"),
              K("base", "base", {"found", "calm", "fresh"}, "any"))
<1>1. <<K("base", "base", {"found", "fresh"}, "any"), "keep", K("base", "base", {"found", "fresh"}, "any")>> \in Moves(s)
  BY DEF Moves, Needs, Grants, K, Knowledge, SuiteOp, Writes, Changes
<1>2. <<K("base", "base", {"found", "fresh"}, "any"), "pause", K("base", "base", {"found", "calm", "fresh"}, "any")>> \in Moves(s)
  BY DEF Moves, Needs, Grants, K, Knowledge, SuiteOp, Writes, Changes
<1>3. <<K("base", "base", {"found", "calm", "fresh"}, "any"), "check", K("base", "base", {"found", "calm", "fresh"}, "any")>> \in Moves(s)
  BY DEF Moves, Needs, Grants, K, Knowledge, SuiteOp, Writes, Changes
<1>4. <<"keep", "pause", "check">> \in Seq(SuiteOp)
  BY DEF SuiteOp
<1> QED BY <1>1, <1>2, <1>3, <1>4, Leads3 DEF Runs, Control

LEMMA TruthLeads ==
  ASSUME NEW s
  PROVE  Runs(s, Truth, K("base", "base", {"found", "calm", "fresh"}, "any"),
              K("base", "base", {"found", "fresh"}, "any"))
<1>1. <<K("base", "base", {"found", "calm", "fresh"}, "any"), "keep", K("base", "base", {"found", "calm", "fresh"}, "any")>> \in Moves(s)
  BY DEF Moves, Needs, Grants, K, Knowledge, SuiteOp, Writes, Changes
<1>2. <<K("base", "base", {"found", "calm", "fresh"}, "any"), "pause", K("base", "base", {"found", "calm", "fresh"}, "any")>> \in Moves(s)
  BY DEF Moves, Needs, Grants, K, Knowledge, SuiteOp, Writes, Changes
<1>3. <<K("base", "base", {"found", "calm", "fresh"}, "any"), "leap", K("base", "any", {"found", "fresh"}, "any")>> \in Moves(s)
  BY DEF Moves, Needs, Grants, K, Knowledge, SuiteOp, Writes, Changes
<1>4. <<K("base", "any", {"found", "fresh"}, "any"), "put", K("base", "base", {"found", "fresh"}, "any")>> \in Moves(s)
  BY DEF Moves, Needs, Grants, K, Knowledge, SuiteOp, Writes, Changes
<1>5. <<"keep", "pause", "leap", "put">> \in Seq(SuiteOp)
  BY DEF SuiteOp
<1> QED BY <1>1, <1>2, <1>3, <1>4, <1>5, Leads4 DEF Runs, Truth

LEMMA RestoreLeads ==
  ASSUME NEW s
  PROVE  Runs(s, <<"pause", "restore">>, K("base", "base", {"found", "fresh"}, "any"),
              K("base", "launch", {"found", "fresh"}, "any"))
<1>1. <<K("base", "base", {"found", "fresh"}, "any"), "pause", K("base", "base", {"found", "calm", "fresh"}, "any")>> \in Moves(s)
  BY DEF Moves, Needs, Grants, K, Knowledge, SuiteOp, Writes, Changes
<1>2. <<K("base", "base", {"found", "calm", "fresh"}, "any"), "restore", K("base", "launch", {"found", "fresh"}, "any")>> \in Moves(s)
  BY DEF Moves, Needs, Grants, K, Knowledge, SuiteOp, Writes, Changes
<1>3. <<"pause", "restore">> \in Seq(SuiteOp)
  BY DEF SuiteOp
<1> QED BY <1>1, <1>2, <1>3, Leads2 DEF Runs

LEMMA GiveUpLeads ==
  ASSUME NEW s
  PROVE  Runs(s, <<"pause", "restore">>, K("none", "any", {"found"}, "any"),
              K("none", "launch", {"found"}, "any"))
<1>1. <<K("none", "any", {"found"}, "any"), "pause", K("none", "any", {"found"}, "any")>> \in Moves(s)
  BY DEF Moves, Needs, Grants, K, Knowledge, SuiteOp, Writes, Changes
<1>2. <<K("none", "any", {"found"}, "any"), "restore", K("none", "launch", {"found"}, "any")>> \in Moves(s)
  BY DEF Moves, Needs, Grants, K, Knowledge, SuiteOp, Writes, Changes
<1>3. <<"pause", "restore">> \in Seq(SuiteOp)
  BY DEF SuiteOp
<1> QED BY <1>1, <1>2, <1>3, Leads2 DEF Runs

LEMMA FindLeads ==
  ASSUME NEW s
  PROVE  Runs(s, <<"find", "base", "look", "pause">>, K("none", "launch", {}, "any"),
              K("none", "base", {"found", "calm", "fresh"}, "any"))
<1>1. <<K("none", "launch", {}, "any"), "find", K("none", "launch", {"found"}, "any")>> \in Moves(s)
  BY DEF Moves, Needs, Grants, K, Knowledge, SuiteOp, Writes, Changes
<1>2. <<K("none", "launch", {"found"}, "any"), "base", K("none", "base", {"found", "fresh"}, "any")>> \in Moves(s)
  BY DEF Moves, Needs, Grants, K, Knowledge, SuiteOp, Writes, Changes
<1>3. <<K("none", "base", {"found", "fresh"}, "any"), "look", K("none", "base", {"found", "fresh"}, "any")>> \in Moves(s)
  BY DEF Moves, Needs, Grants, K, Knowledge, SuiteOp, Writes, Changes
<1>4. <<K("none", "base", {"found", "fresh"}, "any"), "pause", K("none", "base", {"found", "calm", "fresh"}, "any")>> \in Moves(s)
  BY DEF Moves, Needs, Grants, K, Knowledge, SuiteOp, Writes, Changes
<1>5. <<"find", "base", "look", "pause">> \in Seq(SuiteOp)
  BY DEF SuiteOp
<1> QED BY <1>1, <1>2, <1>3, <1>4, <1>5, Leads4 DEF Runs

LEMMA OwnLeads ==
  ASSUME NEW s
  PROVE  Runs(s, <<"keep">>, K("none", "base", {"found", "calm", "fresh"}, "any"),
              K("base", "any", {"found", "fresh"}, "any"))
<1>1. <<K("none", "base", {"found", "calm", "fresh"}, "any"), "keep", K("base", "any", {"found", "fresh"}, "any")>> \in Moves(s)
  BY DEF Moves, Needs, Grants, K, Knowledge, SuiteOp, Writes, Changes
<1>2. <<"keep">> \in Seq(SuiteOp)
  BY DEF SuiteOp
<1> QED BY <1>1, <1>2, Leads1 DEF Runs

LEMMA AgentsLead ==
  ASSUME NEW s, s = "v4_llm"
  PROVE  Runs(s, <<"put", "cycle", "agent">>, K("base", "any", {"found", "fresh"}, "any"),
              K("base", "any", {"found", "fresh"}, "any"))
<1>1. <<K("base", "any", {"found", "fresh"}, "any"), "put", K("base", "base", {"found", "fresh"}, "any")>> \in Moves(s)
  BY DEF Moves, Needs, Grants, K, Knowledge, SuiteOp, Writes, Changes
<1>2. <<K("base", "base", {"found", "fresh"}, "any"), "cycle", K("base", "base", {"found", "fresh"}, "any")>> \in Moves(s)
  BY DEF Moves, Needs, Grants, K, Knowledge, SuiteOp, Writes, Changes
<1>3. <<K("base", "base", {"found", "fresh"}, "any"), "agent", K("base", "any", {"found", "fresh"}, "any")>> \in Moves(s)
  BY DEF Moves, Needs, Grants, K, Knowledge, SuiteOp, Writes, Changes
<1>4. <<"put", "cycle", "agent">> \in Seq(SuiteOp)
  BY DEF SuiteOp
<1> QED BY <1>1, <1>2, <1>3, <1>4, Leads3 DEF Runs

LEMMA OwnPutLeads ==
  ASSUME NEW s
  PROVE  Runs(s, <<"put">>, K("base", "any", {"found", "fresh"}, "any"),
              K("base", "base", {"found", "fresh"}, "any"))
<1>1. <<K("base", "any", {"found", "fresh"}, "any"), "put", K("base", "base", {"found", "fresh"}, "any")>> \in Moves(s)
  BY DEF Moves, Needs, Grants, K, Knowledge, SuiteOp, Writes, Changes
<1>2. <<"put">> \in Seq(SuiteOp)
  BY DEF SuiteOp
<1> QED BY <1>1, <1>2, Leads1 DEF Runs

LEMMA Feedback1Restored ==
  ASSUME NEW s, s \in {"v7", "all_v7"}
  PROVE  Runs(s, <<"keep", "raise", "wait", "pause", "mask", "unmask">>, K("none", "launch", {"found"}, "any"),
              K("rate", "any", {"found"}, "any"))
<1>1. <<K("none", "launch", {"found"}, "any"), "keep", K("rate", "any", {"found"}, "any")>> \in Moves(s)
  BY DEF Moves, Needs, Grants, K, Knowledge, SuiteOp, Writes, Changes
<1>2. <<K("rate", "any", {"found"}, "any"), "raise", K("rate", "any", {"found", "fresh"}, "any")>> \in Moves(s)
  BY DEF Moves, Needs, Grants, K, Knowledge, SuiteOp, Writes, Changes
<1>3. <<K("rate", "any", {"found", "fresh"}, "any"), "wait", K("rate", "any", {"found", "fresh"}, "any")>> \in Moves(s)
  BY DEF Moves, Needs, Grants, K, Knowledge, SuiteOp, Writes, Changes
<1>4. <<K("rate", "any", {"found", "fresh"}, "any"), "pause", K("rate", "any", {"found", "fresh"}, "any")>> \in Moves(s)
  BY DEF Moves, Needs, Grants, K, Knowledge, SuiteOp, Writes, Changes
<1>5. <<K("rate", "any", {"found", "fresh"}, "any"), "mask", K("rate", "any", {"found"}, "any")>> \in Moves(s)
  BY DEF Moves, Needs, Grants, K, Knowledge, SuiteOp, Writes, Changes
<1>6. <<K("rate", "any", {"found"}, "any"), "unmask", K("rate", "any", {"found"}, "any")>> \in Moves(s)
  BY DEF Moves, Needs, Grants, K, Knowledge, SuiteOp, Writes, Changes
<1>7. <<"keep", "raise", "wait", "pause", "mask", "unmask">> \in Seq(SuiteOp)
  BY DEF SuiteOp
<1> QED BY <1>1, <1>2, <1>3, <1>4, <1>5, <1>6, <1>7, Leads6 DEF Runs

LEMMA Feedback2Restored ==
  ASSUME NEW s, s \in {"v7", "all_v7"}
  PROVE  Runs(s, <<"pause">>, K("rate", "any", {"found"}, "any"),
              K("rate", "any", {"found"}, "any"))
<1>1. <<K("rate", "any", {"found"}, "any"), "pause", K("rate", "any", {"found"}, "any")>> \in Moves(s)
  BY DEF Moves, Needs, Grants, K, Knowledge, SuiteOp, Writes, Changes
<1>2. <<"pause">> \in Seq(SuiteOp)
  BY DEF SuiteOp
<1> QED BY <1>1, <1>2, Leads1 DEF Runs

LEMMA Feedback3Restored ==
  ASSUME NEW s, s \in {"v7", "all_v7"}
  PROVE  Runs(s, <<"keep", "raise", "wait", "read", "put", "pause">>, K("rate", "any", {"found"}, "any"),
              K("rate", "any", {"found", "fresh"}, "any"))
<1>1. <<K("rate", "any", {"found"}, "any"), "keep", K("rate", "any", {"found"}, "any")>> \in Moves(s)
  BY DEF Moves, Needs, Grants, K, Knowledge, SuiteOp, Writes, Changes
<1>2. <<K("rate", "any", {"found"}, "any"), "raise", K("rate", "any", {"found", "fresh"}, "any")>> \in Moves(s)
  BY DEF Moves, Needs, Grants, K, Knowledge, SuiteOp, Writes, Changes
<1>3. <<K("rate", "any", {"found", "fresh"}, "any"), "wait", K("rate", "any", {"found", "fresh"}, "any")>> \in Moves(s)
  BY DEF Moves, Needs, Grants, K, Knowledge, SuiteOp, Writes, Changes
<1>4. <<K("rate", "any", {"found", "fresh"}, "any"), "read", K("rate", "any", {"found", "fresh"}, "any")>> \in Moves(s)
  BY DEF Moves, Needs, Grants, K, Knowledge, SuiteOp, Writes, Changes
<1>5. <<K("rate", "any", {"found", "fresh"}, "any"), "put", K("rate", "any", {"found", "fresh"}, "any")>> \in Moves(s)
  BY DEF Moves, Needs, Grants, K, Knowledge, SuiteOp, Writes, Changes
<1>6. <<K("rate", "any", {"found", "fresh"}, "any"), "pause", K("rate", "any", {"found", "fresh"}, "any")>> \in Moves(s)
  BY DEF Moves, Needs, Grants, K, Knowledge, SuiteOp, Writes, Changes
<1>7. <<"keep", "raise", "wait", "read", "put", "pause">> \in Seq(SuiteOp)
  BY DEF SuiteOp
<1> QED BY <1>1, <1>2, <1>3, <1>4, <1>5, <1>6, <1>7, Leads6 DEF Runs

LEMMA Isolation1Restored ==
  ASSUME NEW s, s \in {"v7", "all_v7"}
  PROVE  Runs(s, <<"keep", "raise">>, K("rate", "any", {"found", "fresh"}, "any"),
              K("rate", "any", {"found", "fresh"}, "any"))
<1>1. <<K("rate", "any", {"found", "fresh"}, "any"), "keep", K("rate", "any", {"found", "fresh"}, "any")>> \in Moves(s)
  BY DEF Moves, Needs, Grants, K, Knowledge, SuiteOp, Writes, Changes
<1>2. <<K("rate", "any", {"found", "fresh"}, "any"), "raise", K("rate", "any", {"found", "fresh"}, "any")>> \in Moves(s)
  BY DEF Moves, Needs, Grants, K, Knowledge, SuiteOp, Writes, Changes
<1>3. <<"keep", "raise">> \in Seq(SuiteOp)
  BY DEF SuiteOp
<1> QED BY <1>1, <1>2, <1>3, Leads2 DEF Runs

LEMMA Isolation2Restored ==
  ASSUME NEW s, s \in {"v7", "all_v7"}
  PROVE  Runs(s, <<"put", "pause", "raise">>, K("rate", "any", {"found", "fresh"}, "any"),
              K("rate", "any", {"found", "fresh"}, "any"))
<1>1. <<K("rate", "any", {"found", "fresh"}, "any"), "put", K("rate", "any", {"found", "fresh"}, "any")>> \in Moves(s)
  BY DEF Moves, Needs, Grants, K, Knowledge, SuiteOp, Writes, Changes
<1>2. <<K("rate", "any", {"found", "fresh"}, "any"), "pause", K("rate", "any", {"found", "fresh"}, "any")>> \in Moves(s)
  BY DEF Moves, Needs, Grants, K, Knowledge, SuiteOp, Writes, Changes
<1>3. <<K("rate", "any", {"found", "fresh"}, "any"), "raise", K("rate", "any", {"found", "fresh"}, "any")>> \in Moves(s)
  BY DEF Moves, Needs, Grants, K, Knowledge, SuiteOp, Writes, Changes
<1>4. <<"put", "pause", "raise">> \in Seq(SuiteOp)
  BY DEF SuiteOp
<1> QED BY <1>1, <1>2, <1>3, <1>4, Leads3 DEF Runs

LEMMA Isolation3Restored ==
  ASSUME NEW s, s \in {"v7", "all_v7"}
  PROVE  Runs(s, <<"put", "pause">>, K("rate", "any", {"found", "fresh"}, "any"),
              K("rate", "any", {"found", "fresh"}, "any"))
<1>1. <<K("rate", "any", {"found", "fresh"}, "any"), "put", K("rate", "any", {"found", "fresh"}, "any")>> \in Moves(s)
  BY DEF Moves, Needs, Grants, K, Knowledge, SuiteOp, Writes, Changes
<1>2. <<K("rate", "any", {"found", "fresh"}, "any"), "pause", K("rate", "any", {"found", "fresh"}, "any")>> \in Moves(s)
  BY DEF Moves, Needs, Grants, K, Knowledge, SuiteOp, Writes, Changes
<1>3. <<"put", "pause">> \in Seq(SuiteOp)
  BY DEF SuiteOp
<1> QED BY <1>1, <1>2, <1>3, Leads2 DEF Runs

LEMMA Isolation4Restored ==
  ASSUME NEW s, s \in {"v7", "all_v7"}
  PROVE  Runs(s, <<"wait">>, K("rate", "any", {"found", "fresh"}, "any"),
              K("rate", "any", {"found", "fresh"}, "any"))
<1>1. <<K("rate", "any", {"found", "fresh"}, "any"), "wait", K("rate", "any", {"found", "fresh"}, "any")>> \in Moves(s)
  BY DEF Moves, Needs, Grants, K, Knowledge, SuiteOp, Writes, Changes
<1>2. <<"wait">> \in Seq(SuiteOp)
  BY DEF SuiteOp
<1> QED BY <1>1, <1>2, Leads1 DEF Runs

LEMMA LatencyLeadsRestored ==
  ASSUME NEW s, s \in {"v7", "all_v7"}
  PROVE  Runs(s, Latency, K("rate", "any", {"found", "fresh"}, "any"),
              K("rate", "any", {"found", "fresh"}, "any"))
<1>1. <<K("rate", "any", {"found", "fresh"}, "any"), "keep", K("rate", "any", {"found", "fresh"}, "any")>> \in Moves(s)
  BY DEF Moves, Needs, Grants, K, Knowledge, SuiteOp, Writes, Changes
<1>2. <<K("rate", "any", {"found", "fresh"}, "any"), "raise", K("rate", "any", {"found", "fresh"}, "any")>> \in Moves(s)
  BY DEF Moves, Needs, Grants, K, Knowledge, SuiteOp, Writes, Changes
<1>3. <<K("rate", "any", {"found", "fresh"}, "any"), "wait", K("rate", "any", {"found", "fresh"}, "any")>> \in Moves(s)
  BY DEF Moves, Needs, Grants, K, Knowledge, SuiteOp, Writes, Changes
<1>4. <<K("rate", "any", {"found", "fresh"}, "any"), "put", K("rate", "any", {"found", "fresh"}, "any")>> \in Moves(s)
  BY DEF Moves, Needs, Grants, K, Knowledge, SuiteOp, Writes, Changes
<1>5. <<"keep", "raise", "wait", "put">> \in Seq(SuiteOp)
  BY DEF SuiteOp
<1> QED BY <1>1, <1>2, <1>3, <1>4, <1>5, Leads4 DEF Runs, Latency

LEMMA Feedback1 ==
  ASSUME NEW s, s \in {"v7", "all_v7"}
  PROVE  Runs(s, <<"keep", "raise", "tick", "pause", "mask", "unmask">>, K("none", "any", {}, "any"),
              K("rate", "any", {}, "any"))
<1>1. <<K("none", "any", {}, "any"), "keep", K("rate", "any", {}, "any")>> \in Moves(s)
  BY DEF Moves, Needs, Grants, K, Knowledge, SuiteOp, Writes, Changes
<1>2. <<K("rate", "any", {}, "any"), "raise", K("rate", "any", {"fresh"}, "any")>> \in Moves(s)
  BY DEF Moves, Needs, Grants, K, Knowledge, SuiteOp, Writes, Changes
<1>3. <<K("rate", "any", {"fresh"}, "any"), "tick", K("rate", "any", {"fresh"}, "any")>> \in Moves(s)
  BY DEF Moves, Needs, Grants, K, Knowledge, SuiteOp, Writes, Changes
<1>4. <<K("rate", "any", {"fresh"}, "any"), "pause", K("rate", "any", {"fresh"}, "any")>> \in Moves(s)
  BY DEF Moves, Needs, Grants, K, Knowledge, SuiteOp, Writes, Changes
<1>5. <<K("rate", "any", {"fresh"}, "any"), "mask", K("rate", "any", {}, "any")>> \in Moves(s)
  BY DEF Moves, Needs, Grants, K, Knowledge, SuiteOp, Writes, Changes
<1>6. <<K("rate", "any", {}, "any"), "unmask", K("rate", "any", {}, "any")>> \in Moves(s)
  BY DEF Moves, Needs, Grants, K, Knowledge, SuiteOp, Writes, Changes
<1>7. <<"keep", "raise", "tick", "pause", "mask", "unmask">> \in Seq(SuiteOp)
  BY DEF SuiteOp
<1> QED BY <1>1, <1>2, <1>3, <1>4, <1>5, <1>6, <1>7, Leads6 DEF Runs

LEMMA Feedback3 ==
  ASSUME NEW s, s \in {"v7", "all_v7"}
  PROVE  Runs(s, <<"keep", "raise", "tick", "read", "put", "pause">>, K("rate", "any", {}, "any"),
              K("rate", "any", {"fresh"}, "any"))
<1>1. <<K("rate", "any", {}, "any"), "keep", K("rate", "any", {}, "any")>> \in Moves(s)
  BY DEF Moves, Needs, Grants, K, Knowledge, SuiteOp, Writes, Changes
<1>2. <<K("rate", "any", {}, "any"), "raise", K("rate", "any", {"fresh"}, "any")>> \in Moves(s)
  BY DEF Moves, Needs, Grants, K, Knowledge, SuiteOp, Writes, Changes
<1>3. <<K("rate", "any", {"fresh"}, "any"), "tick", K("rate", "any", {"fresh"}, "any")>> \in Moves(s)
  BY DEF Moves, Needs, Grants, K, Knowledge, SuiteOp, Writes, Changes
<1>4. <<K("rate", "any", {"fresh"}, "any"), "read", K("rate", "any", {"fresh"}, "any")>> \in Moves(s)
  BY DEF Moves, Needs, Grants, K, Knowledge, SuiteOp, Writes, Changes
<1>5. <<K("rate", "any", {"fresh"}, "any"), "put", K("rate", "any", {"fresh"}, "any")>> \in Moves(s)
  BY DEF Moves, Needs, Grants, K, Knowledge, SuiteOp, Writes, Changes
<1>6. <<K("rate", "any", {"fresh"}, "any"), "pause", K("rate", "any", {"fresh"}, "any")>> \in Moves(s)
  BY DEF Moves, Needs, Grants, K, Knowledge, SuiteOp, Writes, Changes
<1>7. <<"keep", "raise", "tick", "read", "put", "pause">> \in Seq(SuiteOp)
  BY DEF SuiteOp
<1> QED BY <1>1, <1>2, <1>3, <1>4, <1>5, <1>6, <1>7, Leads6 DEF Runs

LEMMA Isolation1 ==
  ASSUME NEW s, s \in {"v7", "all_v7"}
  PROVE  Runs(s, <<"keep", "raise">>, K("rate", "any", {"fresh"}, "any"),
              K("rate", "any", {"fresh"}, "any"))
<1>1. <<K("rate", "any", {"fresh"}, "any"), "keep", K("rate", "any", {"fresh"}, "any")>> \in Moves(s)
  BY DEF Moves, Needs, Grants, K, Knowledge, SuiteOp, Writes, Changes
<1>2. <<K("rate", "any", {"fresh"}, "any"), "raise", K("rate", "any", {"fresh"}, "any")>> \in Moves(s)
  BY DEF Moves, Needs, Grants, K, Knowledge, SuiteOp, Writes, Changes
<1>3. <<"keep", "raise">> \in Seq(SuiteOp)
  BY DEF SuiteOp
<1> QED BY <1>1, <1>2, <1>3, Leads2 DEF Runs

LEMMA Isolation2 ==
  ASSUME NEW s, s \in {"v7", "all_v7"}
  PROVE  Runs(s, <<"put", "pause", "raise">>, K("rate", "any", {"fresh"}, "any"),
              K("rate", "any", {"fresh"}, "any"))
<1>1. <<K("rate", "any", {"fresh"}, "any"), "put", K("rate", "any", {"fresh"}, "any")>> \in Moves(s)
  BY DEF Moves, Needs, Grants, K, Knowledge, SuiteOp, Writes, Changes
<1>2. <<K("rate", "any", {"fresh"}, "any"), "pause", K("rate", "any", {"fresh"}, "any")>> \in Moves(s)
  BY DEF Moves, Needs, Grants, K, Knowledge, SuiteOp, Writes, Changes
<1>3. <<K("rate", "any", {"fresh"}, "any"), "raise", K("rate", "any", {"fresh"}, "any")>> \in Moves(s)
  BY DEF Moves, Needs, Grants, K, Knowledge, SuiteOp, Writes, Changes
<1>4. <<"put", "pause", "raise">> \in Seq(SuiteOp)
  BY DEF SuiteOp
<1> QED BY <1>1, <1>2, <1>3, <1>4, Leads3 DEF Runs

LEMMA Isolation3 ==
  ASSUME NEW s, s \in {"v7", "all_v7"}
  PROVE  Runs(s, <<"put", "pause">>, K("rate", "any", {"fresh"}, "any"),
              K("rate", "any", {"fresh"}, "any"))
<1>1. <<K("rate", "any", {"fresh"}, "any"), "put", K("rate", "any", {"fresh"}, "any")>> \in Moves(s)
  BY DEF Moves, Needs, Grants, K, Knowledge, SuiteOp, Writes, Changes
<1>2. <<K("rate", "any", {"fresh"}, "any"), "pause", K("rate", "any", {"fresh"}, "any")>> \in Moves(s)
  BY DEF Moves, Needs, Grants, K, Knowledge, SuiteOp, Writes, Changes
<1>3. <<"put", "pause">> \in Seq(SuiteOp)
  BY DEF SuiteOp
<1> QED BY <1>1, <1>2, <1>3, Leads2 DEF Runs

LEMMA Isolation4 ==
  ASSUME NEW s, s \in {"v7", "all_v7"}
  PROVE  Runs(s, <<"tick">>, K("rate", "any", {"fresh"}, "any"),
              K("rate", "any", {"fresh"}, "any"))
<1>1. <<K("rate", "any", {"fresh"}, "any"), "tick", K("rate", "any", {"fresh"}, "any")>> \in Moves(s)
  BY DEF Moves, Needs, Grants, K, Knowledge, SuiteOp, Writes, Changes
<1>2. <<"tick">> \in Seq(SuiteOp)
  BY DEF SuiteOp
<1> QED BY <1>1, <1>2, Leads1 DEF Runs

LEMMA LatencyLeads ==
  ASSUME NEW s, s \in {"v7", "all_v7"}
  PROVE  Runs(s, Latency, K("rate", "any", {"fresh"}, "any"),
              K("rate", "any", {"fresh"}, "any"))
<1>1. <<K("rate", "any", {"fresh"}, "any"), "keep", K("rate", "any", {"fresh"}, "any")>> \in Moves(s)
  BY DEF Moves, Needs, Grants, K, Knowledge, SuiteOp, Writes, Changes
<1>2. <<K("rate", "any", {"fresh"}, "any"), "raise", K("rate", "any", {"fresh"}, "any")>> \in Moves(s)
  BY DEF Moves, Needs, Grants, K, Knowledge, SuiteOp, Writes, Changes
<1>3. <<K("rate", "any", {"fresh"}, "any"), "wait", K("rate", "any", {"fresh"}, "any")>> \in Moves(s)
  BY DEF Moves, Needs, Grants, K, Knowledge, SuiteOp, Writes, Changes
<1>4. <<K("rate", "any", {"fresh"}, "any"), "put", K("rate", "any", {"fresh"}, "any")>> \in Moves(s)
  BY DEF Moves, Needs, Grants, K, Knowledge, SuiteOp, Writes, Changes
<1>5. <<"keep", "raise", "wait", "put">> \in Seq(SuiteOp)
  BY DEF SuiteOp
<1> QED BY <1>1, <1>2, <1>3, <1>4, <1>5, Leads4 DEF Runs, Latency

LEMMA FirstLeads ==
  ASSUME NEW s
  PROVE  Runs(s, <<"find">>, K("none", "launch", {}, "any"),
              K("none", "launch", {"found"}, "any"))
<1>1. <<K("none", "launch", {}, "any"), "find", K("none", "launch", {"found"}, "any")>> \in Moves(s)
  BY DEF Moves, Needs, Grants, K, Knowledge, SuiteOp, Writes, Changes
<1>2. <<"find">> \in Seq(SuiteOp)
  BY DEF SuiteOp
<1> QED BY <1>1, <1>2, Leads1 DEF Runs

LEMMA CompareLeads ==
  ASSUME NEW s
  PROVE  Runs(s, <<"compare", "pause", "restore">>, K("rate", "any", {"found", "fresh"}, "any"),
              K("rate", "launch", {"found", "fresh"}, "any"))
<1>1. <<K("rate", "any", {"found", "fresh"}, "any"), "compare", K("rate", "any", {"found", "fresh"}, "any")>> \in Moves(s)
  BY DEF Moves, Needs, Grants, K, Knowledge, SuiteOp, Writes, Changes
<1>2. <<K("rate", "any", {"found", "fresh"}, "any"), "pause", K("rate", "any", {"found", "fresh"}, "any")>> \in Moves(s)
  BY DEF Moves, Needs, Grants, K, Knowledge, SuiteOp, Writes, Changes
<1>3. <<K("rate", "any", {"found", "fresh"}, "any"), "restore", K("rate", "launch", {"found", "fresh"}, "any")>> \in Moves(s)
  BY DEF Moves, Needs, Grants, K, Knowledge, SuiteOp, Writes, Changes
<1>4. <<"compare", "pause", "restore">> \in Seq(SuiteOp)
  BY DEF SuiteOp
<1> QED BY <1>1, <1>2, <1>3, <1>4, Leads3 DEF Runs

LEMMA UpfLeads ==
  ASSUME NEW s, s = "upf"
  PROVE  Runs(s, <<"keep", "probe", "put">>, K("none", "any", {}, "any"),
              K("rate", "any", {}, "any"))
<1>1. <<K("none", "any", {}, "any"), "keep", K("rate", "any", {}, "any")>> \in Moves(s)
  BY DEF Moves, Needs, Grants, K, Knowledge, SuiteOp, Writes, Changes
<1>2. <<K("rate", "any", {}, "any"), "probe", K("rate", "any", {}, "any")>> \in Moves(s)
  BY DEF Moves, Needs, Grants, K, Knowledge, SuiteOp, Writes, Changes
<1>3. <<K("rate", "any", {}, "any"), "put", K("rate", "any", {}, "any")>> \in Moves(s)
  BY DEF Moves, Needs, Grants, K, Knowledge, SuiteOp, Writes, Changes
<1>4. <<"keep", "probe", "put">> \in Seq(SuiteOp)
  BY DEF SuiteOp
<1> QED BY <1>1, <1>2, <1>3, <1>4, Leads3 DEF Runs

LEMMA CleanLeads ==
  ASSUME NEW s
  PROVE  Runs(s, <<"flush", "tick">>, K("none", "any", {}, "any"),
              K("none", "any", {}, "any"))
<1>1. <<K("none", "any", {}, "any"), "flush", K("none", "any", {}, "any")>> \in Moves(s)
  BY DEF Moves, Needs, Grants, K, Knowledge, SuiteOp, Writes, Changes
<1>2. <<K("none", "any", {}, "any"), "tick", K("none", "any", {}, "any")>> \in Moves(s)
  BY DEF Moves, Needs, Grants, K, Knowledge, SuiteOp, Writes, Changes
<1>3. <<"flush", "tick">> \in Seq(SuiteOp)
  BY DEF SuiteOp
<1> QED BY <1>1, <1>2, <1>3, Leads2 DEF Runs

LEMMA ResetLeads ==
  ASSUME NEW s
  PROVE  Runs(s, <<"reset">>, K("none", "any", {}, "any"),
              K("none", "any", {}, "any"))
<1>1. <<K("none", "any", {}, "any"), "reset", K("none", "any", {}, "any")>> \in Moves(s)
  BY DEF Moves, Needs, Grants, K, Knowledge, SuiteOp, Writes, Changes
<1>2. <<"reset">> \in Seq(SuiteOp)
  BY DEF SuiteOp
<1> QED BY <1>1, <1>2, Leads1 DEF Runs

LEMMA Proxy1 ==
  ASSUME NEW s
  PROVE  Runs(s, <<"reset", "pause", "tick", "read">>, K("none", "any", {}, "any"),
              K("rate", "any", {"fresh"}, "any"))
<1>1. <<K("none", "any", {}, "any"), "reset", K("base", "base", {"fresh"}, "any")>> \in Moves(s)
  BY DEF Moves, Needs, Grants, K, Knowledge, SuiteOp, Writes, Changes
<1>2. <<K("base", "base", {"fresh"}, "any"), "pause", K("base", "base", {"fresh"}, "any")>> \in Moves(s)
  BY DEF Moves, Needs, Grants, K, Knowledge, SuiteOp, Writes, Changes
<1>3. <<K("base", "base", {"fresh"}, "any"), "tick", K("base", "base", {"fresh"}, "any")>> \in Moves(s)
  BY DEF Moves, Needs, Grants, K, Knowledge, SuiteOp, Writes, Changes
<1>4. <<K("base", "base", {"fresh"}, "any"), "read", K("rate", "any", {"fresh"}, "any")>> \in Moves(s)
  BY DEF Moves, Needs, Grants, K, Knowledge, SuiteOp, Writes, Changes
<1>5. <<"reset", "pause", "tick", "read">> \in Seq(SuiteOp)
  BY DEF SuiteOp
<1> QED BY <1>1, <1>2, <1>3, <1>4, <1>5, Leads4 DEF Runs

LEMMA Proxy2 ==
  ASSUME NEW s
  PROVE  Runs(s, <<"climb", "pause", "tick">>, K("rate", "any", {"fresh"}, "any"),
              K("rate", "any", {"fresh"}, "any"))
<1>1. <<K("rate", "any", {"fresh"}, "any"), "climb", K("rate", "any", {"fresh"}, "any")>> \in Moves(s)
  BY DEF Moves, Needs, Grants, K, Knowledge, SuiteOp, Writes, Changes
<1>2. <<K("rate", "any", {"fresh"}, "any"), "pause", K("rate", "any", {"fresh"}, "any")>> \in Moves(s)
  BY DEF Moves, Needs, Grants, K, Knowledge, SuiteOp, Writes, Changes
<1>3. <<K("rate", "any", {"fresh"}, "any"), "tick", K("rate", "any", {"fresh"}, "any")>> \in Moves(s)
  BY DEF Moves, Needs, Grants, K, Knowledge, SuiteOp, Writes, Changes
<1>4. <<"climb", "pause", "tick">> \in Seq(SuiteOp)
  BY DEF SuiteOp
<1> QED BY <1>1, <1>2, <1>3, <1>4, Leads3 DEF Runs

LEMMA Proxy3 ==
  ASSUME NEW s
  PROVE  Runs(s, <<"read", "reset">>, K("rate", "any", {"fresh"}, "any"),
              K("none", "any", {}, "any"))
<1>1. <<K("rate", "any", {"fresh"}, "any"), "read", K("rate", "any", {"fresh"}, "any")>> \in Moves(s)
  BY DEF Moves, Needs, Grants, K, Knowledge, SuiteOp, Writes, Changes
<1>2. <<K("rate", "any", {"fresh"}, "any"), "reset", K("none", "any", {}, "any")>> \in Moves(s)
  BY DEF Moves, Needs, Grants, K, Knowledge, SuiteOp, Writes, Changes
<1>3. <<"read", "reset">> \in Seq(SuiteOp)
  BY DEF SuiteOp
<1> QED BY <1>1, <1>2, <1>3, Leads2 DEF Runs

LEMMA TemperatureLeads ==
  ASSUME NEW s, s # "cross_1"
  PROVE  Runs(s, <<"reset", "pause", "agent">>, K("none", "any", {}, "any"),
              K("none", "any", {}, "any"))
<1>1. <<K("none", "any", {}, "any"), "reset", K("base", "base", {"fresh"}, "any")>> \in Moves(s)
  BY DEF Moves, Needs, Grants, K, Knowledge, SuiteOp, Writes, Changes
<1>2. <<K("base", "base", {"fresh"}, "any"), "pause", K("base", "base", {"fresh"}, "any")>> \in Moves(s)
  BY DEF Moves, Needs, Grants, K, Knowledge, SuiteOp, Writes, Changes
<1>3. <<K("base", "base", {"fresh"}, "any"), "agent", K("none", "any", {}, "any")>> \in Moves(s)
  BY DEF Moves, Needs, Grants, K, Knowledge, SuiteOp, Writes, Changes
<1>4. <<"reset", "pause", "agent">> \in Seq(SuiteOp)
  BY DEF SuiteOp
<1> QED BY <1>1, <1>2, <1>3, <1>4, Leads3 DEF Runs

LEMMA AmplifiedLeads ==
  ASSUME NEW s, s = "cross_1"
  PROVE  Runs(s, <<"reset", "pause", "climb", "tick", "agent">>, K("none", "any", {}, "any"),
              K("none", "any", {}, "any"))
<1>1. <<K("none", "any", {}, "any"), "reset", K("base", "base", {"fresh"}, "any")>> \in Moves(s)
  BY DEF Moves, Needs, Grants, K, Knowledge, SuiteOp, Writes, Changes
<1>2. <<K("base", "base", {"fresh"}, "any"), "pause", K("base", "base", {"fresh"}, "any")>> \in Moves(s)
  BY DEF Moves, Needs, Grants, K, Knowledge, SuiteOp, Writes, Changes
<1>3. <<K("base", "base", {"fresh"}, "any"), "climb", K("rate", "grown", {"fresh"}, "any")>> \in Moves(s)
  BY DEF Moves, Needs, Grants, K, Knowledge, SuiteOp, Writes, Changes
<1>4. <<K("rate", "grown", {"fresh"}, "any"), "tick", K("rate", "grown", {"fresh"}, "any")>> \in Moves(s)
  BY DEF Moves, Needs, Grants, K, Knowledge, SuiteOp, Writes, Changes
<1>5. <<K("rate", "grown", {"fresh"}, "any"), "agent", K("none", "any", {}, "any")>> \in Moves(s)
  BY DEF Moves, Needs, Grants, K, Knowledge, SuiteOp, Writes, Changes
<1>6. <<"reset", "pause", "climb", "tick", "agent">> \in Seq(SuiteOp)
  BY DEF SuiteOp
<1> QED BY <1>1, <1>2, <1>3, <1>4, <1>5, <1>6, Leads5 DEF Runs

LEMMA ChainedLeads ==
  ASSUME NEW s, s # "cross_1"
  PROVE  Runs(s, <<"reset", "pause", "agent", "tick">>, K("none", "any", {}, "any"),
              K("none", "any", {}, "any"))
<1>1. <<K("none", "any", {}, "any"), "reset", K("base", "base", {"fresh"}, "any")>> \in Moves(s)
  BY DEF Moves, Needs, Grants, K, Knowledge, SuiteOp, Writes, Changes
<1>2. <<K("base", "base", {"fresh"}, "any"), "pause", K("base", "base", {"fresh"}, "any")>> \in Moves(s)
  BY DEF Moves, Needs, Grants, K, Knowledge, SuiteOp, Writes, Changes
<1>3. <<K("base", "base", {"fresh"}, "any"), "agent", K("none", "any", {}, "any")>> \in Moves(s)
  BY DEF Moves, Needs, Grants, K, Knowledge, SuiteOp, Writes, Changes
<1>4. <<K("none", "any", {}, "any"), "tick", K("none", "any", {}, "any")>> \in Moves(s)
  BY DEF Moves, Needs, Grants, K, Knowledge, SuiteOp, Writes, Changes
<1>5. <<"reset", "pause", "agent", "tick">> \in Seq(SuiteOp)
  BY DEF SuiteOp
<1> QED BY <1>1, <1>2, <1>3, <1>4, <1>5, Leads4 DEF Runs

LEMMA DecomposeRuns ==
  ASSUME NEW s, s \in {"v4", "all_v4"}
  PROVE  Runs(s, Decomposition, Launched, K("base", "base", {"found", "fresh"}, "any"))
<1> DEFINE kept == K("base", "any", {"found", "calm", "fresh"}, "any")
           done == K("base", "base", {"found", "fresh"}, "any")
           sure == K("none", "base", {"found", "calm", "fresh"}, "any")
<1>1. Runs(s, Times(Steps, <<"judge", "step", "pause", "look">>), kept, kept)
  BY StepLeads, RunsOver, SuiteAssumption
<1>2. Runs(s, <<"keep">> \o Times(Steps, <<"judge", "step", "pause", "look">>), sure, kept)
  BY <1>1, KeepLeads, RunsOn
<1>3. Runs(s, Decompose, sure, done)
  BY <1>2, PutLeads, RunsOn DEF Decompose
<1>4. Runs(s, Threshold \o Decompose, Launched, done)
  BY <1>3, ThresholdLeads, RunsOn DEF Launched
<1>5. Runs(s, Threshold \o Decompose \o Control, Launched, K("base", "base", {"found", "calm", "fresh"}, "any"))
  BY <1>4, ControlLeads, RunsOn
<1> QED BY <1>5, TruthLeads, RunsOn DEF Decomposition

LEMMA AutonomousRuns ==
  ASSUME NEW s, s = "v4_llm"
  PROVE  Runs(s, <<"find", "base", "look", "pause">> \o Autonomous \o <<"pause", "restore">>,
              Launched, K("base", "launch", {"found", "fresh"}, "any"))
<1> DEFINE kept == K("base", "any", {"found", "fresh"}, "any")
           done == K("base", "base", {"found", "fresh"}, "any")
           sure == K("none", "base", {"found", "calm", "fresh"}, "any")
<1>1. Runs(s, Times(Repeats, <<"put", "cycle", "agent">>), kept, kept)
  BY AgentsLead, RunsOver, WaveTrialsAssumption
<1>2. Runs(s, <<"keep">> \o Times(Repeats, <<"put", "cycle", "agent">>), sure, kept)
  BY <1>1, OwnLeads, RunsOn
<1>3. Runs(s, Autonomous, sure, done)
  BY <1>2, OwnPutLeads, RunsOn DEF Autonomous
<1>4. Runs(s, <<"find", "base", "look", "pause">> \o Autonomous, Launched, done)
  BY <1>3, FindLeads, RunsOn DEF Launched
<1> QED BY <1>4, RestoreLeads, RunsOn

LEMMA FeedbackRestoredRuns ==
  ASSUME NEW s, s \in {"v7", "all_v7"}
  PROVE  Runs(s, Feedback("wait", <<"pause">>), K("none", "launch", {"found"}, "any"), K("rate", "any", {"found", "fresh"}, "any"))
<1> DEFINE loose == K("rate", "any", {"found"}, "any")
           at == K("rate", "any", {"found", "fresh"}, "any")
<1>1. Runs(s, <<"keep", "raise", "wait", "pause", "mask", "unmask">>, K("none", "launch", {"found"}, "any"), loose)
  BY Feedback1Restored
<1>2. Runs(s, <<"pause">>, loose, loose)
  BY Feedback2Restored
<1>3. Runs(s, <<"keep", "raise", "wait", "read", "put", "pause">>, loose, at)
  BY Feedback3Restored
<1>4. Runs(s, <<"keep", "raise", "wait", "pause", "mask", "unmask">> \o <<"pause">>, K("none", "launch", {"found"}, "any"), loose)
  BY <1>1, <1>2, RunsOn
<1> QED BY <1>3, <1>4, RunsOn DEF Feedback

LEMMA IsolationRestoredRuns ==
  ASSUME NEW s, s \in {"v7", "all_v7"}
  PROVE  Runs(s, Isolation(<< >>, <<"wait">>), K("rate", "any", {"found", "fresh"}, "any"),
              K("rate", "any", {"found", "fresh"}, "any"))
<1> DEFINE at == K("rate", "any", {"found", "fresh"}, "any")
<1>1. Runs(s, <<"keep", "raise">>, at, at)
  BY Isolation1Restored
<1>2. Runs(s, << >>, at, at)
  BY RunsNowhere
<1>3. Runs(s, <<"put", "pause", "raise">>, at, at)
  BY Isolation2Restored
<1>4. Runs(s, <<"wait">>, at, at)
  BY Isolation4Restored
<1>5. Runs(s, <<"put", "pause">>, at, at)
  BY Isolation3Restored
<1> HIDE DEF at
<1>6. Runs(s, <<"keep", "raise">> \o << >> \o <<"put", "pause", "raise">>, at, at)
  BY <1>1, <1>2, <1>3, RunsOn
<1>7. Runs(s, Isolation(<< >>, <<"wait">>), at, at)
  BY <1>4, <1>5, <1>6, RunsOn DEF Isolation
<1> QED BY <1>7 DEF at

LEMMA FeedbackRuns ==
  ASSUME NEW s, s \in {"v7", "all_v7"}
  PROVE  Runs(s, Feedback("tick", << >>), Unknown, K("rate", "any", {"fresh"}, "any"))
<1> DEFINE loose == K("rate", "any", {}, "any")
           at == K("rate", "any", {"fresh"}, "any")
<1>1. Runs(s, <<"keep", "raise", "tick", "pause", "mask", "unmask">>, Unknown, loose)
  BY Feedback1 DEF Unknown
<1>2. Runs(s, << >>, loose, loose)
  BY RunsNowhere
<1>3. Runs(s, <<"keep", "raise", "tick", "read", "put", "pause">>, loose, at)
  BY Feedback3
<1>4. Runs(s, <<"keep", "raise", "tick", "pause", "mask", "unmask">> \o << >>, Unknown, loose)
  BY <1>1, <1>2, RunsOn
<1> QED BY <1>3, <1>4, RunsOn DEF Feedback

LEMMA IsolationRuns ==
  ASSUME NEW s, s \in {"v7", "all_v7"}
  PROVE  Runs(s, Isolation(<<"tick">>, << >>), K("rate", "any", {"fresh"}, "any"),
              K("rate", "any", {"fresh"}, "any"))
<1> DEFINE at == K("rate", "any", {"fresh"}, "any")
<1>1. Runs(s, <<"keep", "raise">>, at, at)
  BY Isolation1
<1>2. Runs(s, <<"tick">>, at, at)
  BY Isolation4
<1>3. Runs(s, <<"put", "pause", "raise">>, at, at)
  BY Isolation2
<1>4. Runs(s, << >>, at, at)
  BY RunsNowhere
<1>5. Runs(s, <<"put", "pause">>, at, at)
  BY Isolation3
<1> HIDE DEF at
<1>6. Runs(s, <<"keep", "raise">> \o <<"tick">> \o <<"put", "pause", "raise">>, at, at)
  BY <1>1, <1>2, <1>3, RunsOn
<1>7. Runs(s, Isolation(<<"tick">>, << >>), at, at)
  BY <1>4, <1>5, <1>6, RunsOn DEF Isolation
<1> QED BY <1>7 DEF at

LEMMA ProxyRuns == ASSUME NEW s PROVE Runs(s, Proxy, Unknown, Unknown)
<1> DEFINE inner == K("rate", "any", {"fresh"}, "any")
<1>1. Runs(s, Times(Steps, <<"climb", "pause", "tick">>), inner, inner)
  BY Proxy2, RunsOver, SuiteAssumption
<1>2. Runs(s, <<"reset", "pause", "tick", "read">> \o Times(Steps, <<"climb", "pause", "tick">>), Unknown, inner)
  BY <1>1, Proxy1, RunsOn DEF Unknown
<1>3. Runs(s, <<"reset", "pause", "tick", "read">> \o Times(Steps, <<"climb", "pause", "tick">>) \o <<"read", "reset">>,
           Unknown, Unknown)
  BY <1>2, Proxy3, RunsOn DEF Unknown
<1>4. Repeats \in Nat /\ Runs(s, <<"flush", "tick">>, Unknown, Unknown)
  BY CleanLeads, WaveTrialsAssumption DEF Unknown
<1> HIDE DEF inner
<1> QED BY <1>3, <1>4, RunsOn, RunsOver DEF Proxy

LEMMA TemperatureRuns == ASSUME NEW s, s # "cross_1" PROVE Runs(s, Temperature, Unknown, Unknown)
<1>1. /\ Repeats \in Nat /\ Runs(s, <<"reset", "pause", "agent">>, Unknown, Unknown)
      /\ Runs(s, <<"reset">>, Unknown, Unknown)
  BY TemperatureLeads, ResetLeads, WaveTrialsAssumption DEF Unknown
<1> QED BY <1>1, RunsOn, RunsOver DEF Temperature

LEMMA CrossRuns ==
  ASSUME NEW s
  PROVE  /\ s = "cross_1" => Runs(s, Amplified, Unknown, Unknown)
         /\ s = "cross_2" => Runs(s, Chained, Unknown, Unknown)
<1>1. /\ Repeats \in Nat /\ Runs(s, <<"flush", "tick">>, Unknown, Unknown)
      /\ Runs(s, <<"reset">>, Unknown, Unknown)
      /\ s = "cross_1" => Runs(s, <<"reset", "pause", "climb", "tick", "agent">>, Unknown, Unknown)
      /\ s = "cross_2" => Runs(s, <<"reset", "pause", "agent", "tick">>, Unknown, Unknown)
  BY CleanLeads, ResetLeads, AmplifiedLeads, ChainedLeads, WaveTrialsAssumption DEF Unknown
<1>2. ASSUME s = "cross_1" PROVE Runs(s, Amplified, Unknown, Unknown)
  BY <1>1, <1>2, RunsOn, RunsOver DEF Amplified
<1>3. ASSUME s = "cross_2" PROVE Runs(s, Chained, Unknown, Unknown)
  BY <1>1, <1>3, RunsOn, RunsOver DEF Chained
<1> QED BY <1>2, <1>3

Restores == {"v4", "v4_llm", "v7"}

AtLaunch(s) == IF s \in GivesBack THEN Launched ELSE Unknown

(* What is known when the operations are done.                             *)
AtEnd(s, e) == e \in Knowledge /\ e.todo = "any" /\ (s \in Restores => e.rate = "launch")

LEMMA ProgramsRun ==
  ASSUME NEW s \in DOMAIN Programs, NEW p \in Programs[s]
  PROVE  \E e : AtEnd(s, e) /\ Runs(s, p, AtLaunch(s), e)
<1>1. s \in {"v4", "v4_llm", "v7", "all_v4", "all_v7", "upf", "proxy", "autonomy", "cross_1", "cross_2"}
  BY DEF Programs
<1> DEFINE launch == K("rate", "launch", {"found", "fresh"}, "any")
           rated == K("rate", "any", {"found", "fresh"}, "any")
<1>2. CASE s = "v4"
  <2>1. p = Decomposition \o <<"pause", "restore">>
    BY <1>2 DEF Programs
  <2>2. Runs(s, p, Launched, K("base", "launch", {"found", "fresh"}, "any"))
    BY <1>2, <2>1, DecomposeRuns, RestoreLeads, RunsOn
  <2>3. AtEnd(s, K("base", "launch", {"found", "fresh"}, "any"))
    BY DEF AtEnd, K, Knowledge
  <2> QED BY <1>2, <2>2, <2>3 DEF AtLaunch, GivesBack
<1>3. CASE s = "v4_llm"
  <2>1. p = <<"find", "base", "look", "pause">> \o Autonomous \o <<"pause", "restore">>
    BY <1>3 DEF Programs
  <2>2. Runs(s, p, Launched, K("base", "launch", {"found", "fresh"}, "any"))
    BY <1>3, <2>1, AutonomousRuns
  <2>3. AtEnd(s, K("base", "launch", {"found", "fresh"}, "any"))
    BY DEF AtEnd, K, Knowledge
  <2> QED BY <1>3, <2>2, <2>3 DEF AtLaunch, GivesBack
<1>4. CASE s = "v7"
  <2>1. PICK e \in {<< >>, Isolation(<< >>, <<"wait">>)} :
          p = <<"find">> \o Feedback("wait", <<"pause">>) \o e \o Latency \o <<"compare", "pause", "restore">>
    BY <1>4 DEF Programs
  <2>2. Runs(s, <<"find">> \o Feedback("wait", <<"pause">>), Launched, rated)
    BY <1>4, FirstLeads, FeedbackRestoredRuns, RunsOn DEF Launched
  <2>3. Runs(s, e, rated, rated)
    BY <1>4, <2>1, IsolationRestoredRuns, RunsNowhere
  <2>4. Runs(s, Latency, rated, rated) /\ Runs(s, <<"compare", "pause", "restore">>, rated, launch)
    BY <1>4, LatencyLeadsRestored, CompareLeads
  <2>5. AtEnd(s, launch)
    BY DEF AtEnd, K, Knowledge
  <2> HIDE DEF launch, rated
  <2>6. Runs(s, p, Launched, launch)
    BY <2>1, <2>2, <2>3, <2>4, RunsOn
  <2> QED BY <1>4, <2>5, <2>6 DEF AtLaunch, GivesBack
<1>5. CASE s = "all_v4"
  <2>1. p = Decomposition
    BY <1>5 DEF Programs
  <2>2. Runs(s, p, Launched, K("base", "base", {"found", "fresh"}, "any"))
    BY <1>5, <2>1, DecomposeRuns
  <2>3. AtEnd(s, K("base", "base", {"found", "fresh"}, "any"))
    BY <1>5 DEF AtEnd, K, Knowledge, Restores
  <2> QED BY <1>5, <2>2, <2>3 DEF AtLaunch, GivesBack
<1>6. CASE s = "all_v7"
  <2> DEFINE at == K("rate", "any", {"fresh"}, "any")
  <2>1. PICK e \in {<< >>, Isolation(<<"tick">>, << >>)} : p = Feedback("tick", << >>) \o e \o Latency
    BY <1>6 DEF Programs
  <2>2. Runs(s, Feedback("tick", << >>), Unknown, at) /\ Runs(s, Latency, at, at)
    BY <1>6, FeedbackRuns, LatencyLeads
  <2>3. Runs(s, e, at, at)
    BY <1>6, <2>1, IsolationRuns, RunsNowhere
  <2>4. AtEnd(s, at)
    BY <1>6 DEF AtEnd, K, Knowledge, Restores
  <2> HIDE DEF at
  <2>5. Runs(s, p, Unknown, at)
    BY <2>1, <2>2, <2>3, RunsOn
  <2> QED BY <1>6, <2>4, <2>5 DEF AtLaunch, GivesBack
<1>7. CASE s \in {"upf", "proxy", "autonomy", "cross_1", "cross_2"}
  <2>1. /\ s = "upf" => p = <<"keep", "probe", "put">>
        /\ s = "proxy" => p = Proxy
        /\ s = "autonomy" => p = Temperature
        /\ s = "cross_1" => p = Amplified
        /\ s = "cross_2" => p = Chained
    BY <1>7 DEF Programs
  <2>2. AtEnd(s, Unknown) /\ AtEnd(s, K("rate", "any", {}, "any")) /\ AtLaunch(s) = Unknown
    BY <1>7 DEF AtEnd, AtLaunch, GivesBack, Unknown, K, Knowledge, Restores
  <2>3. s = "upf" => Runs(s, p, Unknown, K("rate", "any", {}, "any"))
    BY <2>1, UpfLeads DEF Unknown
  <2>4. s # "upf" => Runs(s, p, Unknown, Unknown)
    BY <1>7, <2>1, ProxyRuns, TemperatureRuns, CrossRuns
  <2> QED BY <2>2, <2>3, <2>4
<1> QED BY <1>1, <1>2, <1>3, <1>4, <1>5, <1>6, <1>7

(* The policy tool finds a rate to round to.                               *)
LEMMA GrownIsRate ==
  ASSUME NEW r \in Rate, NEW p \in Nat PROVE Grown(r, p) \in Rate
<1> DEFINE most == r * (100 + p)
           Fits == {q \in Rate : 100 * q <= r * (100 + p)}
           Room == {n \in Nat : \E q \in Fits : n = most - q}
<1>0. r \in Nat /\ Rate \subseteq Nat /\ most \in Nat
  BY CircuitAssumption
<1>1. 100 * r <= r * (100 + p)
  <2>1. r * (100 + p) = r * 100 + r * p /\ r * p \in Nat
    BY <1>0
  <2> QED BY <1>0, <2>1
<1>2. \A q \in Fits : q \in Nat /\ q <= most /\ most - q \in Room
  BY <1>0
<1>3. r \in Fits
  BY <1>1
<1> HIDE DEF Fits, most
<1>4. PICK n \in Room : \A m \in Room : n <= m
  <2>1. most - r \in Room /\ Room \in SUBSET Nat
    BY <1>2, <1>3
  <2> HIDE DEF Room
  <2> QED BY <2>1, LeastNumber
<1>5. PICK q \in Fits : n = most - q
  BY <1>4
<1>6. \A s \in Fits : q >= s
  <2> SUFFICES ASSUME NEW s \in Fits PROVE q >= s
    OBVIOUS
  <2>1. most - q <= most - s
    BY <1>2, <1>4, <1>5
  <2> QED BY <1>0, <1>2, <2>1
<1>7. Max(Fits) \in Fits
  BY <1>5, <1>6 DEF Max
<1> QED BY <1>7 DEF Grown, Fits

(* What is known is true.                                                  *)
Holds(a) ==
  /\ a \in Knowledge
  /\ a.own # "none" => own \in Rate
  /\ "found" \in a.sure => found \in Rate
  /\ "calm" \in a.sure => ~cooling
  /\ ~refused =>
       /\ a.own = "base" => own = Baseline
       /\ a.rate = "base" => ambr = Baseline
       /\ a.rate = "grown" => ambr = Grown(Baseline, Small)
       /\ suite \in GivesBack =>
            /\ a.rate = "launch" => ambr = ended[2]
            /\ "found" \in a.sure => found = ended[2]

SuiteInv ==
  /\ refused \in BOOLEAN /\ cooling \in BOOLEAN
  /\ On => /\ program = "suite" /\ ended[1] = "none"
           /\ \E a, e : Holds(a) /\ AtEnd(suite, e) /\ Runs(suite, ops, a, e)
  /\ ~On /\ program = "suite" => ops = << >>
  /\ ended[1] \in Restores => ~On /\ ambr = ended[2]

LEMMA NextOperation ==
  ASSUME NEW tasks, NEW a, NEW e, Runs(suite, tasks, a, e), tasks # << >>
  PROVE  /\ Head(tasks) \in SuiteOp
         /\ \E c : /\ c \in Knowledge /\ Runs(suite, Tail(tasks), c, e)
                   /\ Needs(suite, a, Head(tasks)) /\ Grants(a, Head(tasks), c)
<1>1. tasks \in Seq(SuiteOp) /\ Leads(Moves(suite), tasks, a, e)
  BY DEF Runs
<1>2. /\ Tail(tasks) \in Seq(SuiteOp) /\ Head(tasks) \in SuiteOp
      /\ \E c : <<a, Head(tasks), c>> \in Moves(suite) /\ Leads(Moves(suite), Tail(tasks), c, e)
  BY <1>1, LeadsFirst
<1> QED BY <1>2 DEF Runs, Moves

(* What is next is done, if something is to be done next.                  *)
LEMMA NextIsDone ==
  ASSUME NEW tasks, NEW a, NEW e, Runs(suite, tasks, a, e), AtEnd(suite, e), a.todo # "any"
  PROVE  /\ tasks # << >> /\ Head(tasks) = a.todo
         /\ \E c \in Knowledge : Runs(suite, Tail(tasks), c, e) /\ Grants(a, a.todo, c)
<1>1. ASSUME tasks = << >> PROVE FALSE
  <2>1. a = e
    BY <1>1 DEF Runs, Leads
  <2> QED BY <2>1 DEF AtEnd
<1>2. PICK c \in Knowledge :
        Runs(suite, Tail(tasks), c, e) /\ Needs(suite, a, Head(tasks)) /\ Grants(a, Head(tasks), c)
  BY <1>1, NextOperation
<1>3. Head(tasks) = a.todo
  BY <1>2 DEF Needs
<1> QED BY <1>1, <1>2, <1>3

LEMMA NoOperation ==
  ASSUME NEW a, NEW e, Runs(suite, << >>, a, e) PROVE a = e
BY DEF Runs, Leads

(* An operation that is done: what it grants holds.                        *)
LEMMA OperationDone ==
  ASSUME SuiteInv, On, Goes, suite' = suite, ended' = ended, program' = program,
         refused' \in BOOLEAN, cooling' \in BOOLEAN,
         NEW e, NEW c, AtEnd(suite, e), Runs(suite, Tail(ops), c, e), Holds(c)'
  PROVE  SuiteInv'
<1>1. ops' = Tail(ops)
  BY DEF Goes, Then
<1>2. Runs(suite', ops', c, e) /\ AtEnd(suite', e)
  BY <1>1
<1> QED BY <1>2 DEF SuiteInv, On, Restores

LEMMA WriteHolds ==
  ASSUME NEW op \in Writes, NEW a, NEW c \in Knowledge, Holds(a), Needs(suite, a, op), Grants(a, op, c),
         ambr \in Rate, faults \in Nat, refused \in BOOLEAN, NEW r, Apply(op, r), ended[1] = "none",
         op = "base" \/ op = "reset" => r = Baseline,
         op = "put" => r = own,
         op = "climb" => r = Grown(own, Small),
         op = "restore" => r = found,
         r \in Rate, own' = IF op \in {"reset", "climb"} THEN r ELSE own
  PROVE  Holds(c)' /\ refused' \in BOOLEAN
<1>1. suite' = suite /\ found' = found /\ ended' = ended /\ cooling' = TRUE
  BY DEF Apply
<1>2. refused' = (refused \/ faults' # faults) /\ Write(r)
  BY DEF Apply
<1>3. refused' \in BOOLEAN /\ (~refused' => ~refused /\ faults' = faults)
  BY <1>2
<1>4. faults' = faults => ambr' = r
  BY <1>2 DEF Write, Fails
<1>5. op \in {"base", "put", "raise", "leap", "step", "probe", "restore", "reset", "climb"} /\ op \in Changes
  BY DEF Writes, Changes
<1>6. c.own # "none" => own' \in Rate
  <2>1. CASE op \in {"reset", "climb"}
    BY <2>1
  <2>2. CASE op \notin {"reset", "climb"}
    BY <1>5, <2>2 DEF Holds, Grants
  <2> QED BY <2>1, <2>2
<1>7. "found" \in c.sure => found' \in Rate
  BY <1>1, <1>5 DEF Holds, Grants
<1>8. "calm" \in c.sure => ~cooling'
  BY <1>5 DEF Grants
<1>9. ASSUME ~refused'
      PROVE  /\ c.own = "base" => own' = Baseline
             /\ c.rate = "base" => ambr' = Baseline
             /\ c.rate = "grown" => ambr' = Grown(Baseline, Small)
             /\ suite' \in GivesBack =>
                 /\ c.rate = "launch" => ambr' = ended'[2]
                 /\ "found" \in c.sure => found' = ended'[2]
  <2>0. ~refused /\ ambr' = r
    BY <1>3, <1>4, <1>9
  <2>1. c.own = "base" => own' = Baseline
    BY <1>5, <2>0 DEF Grants, Holds
  <2>2. c.rate = "base" => ambr' = Baseline
    BY <1>5, <2>0 DEF Grants, Holds
  <2>3. c.rate = "grown" => ambr' = Grown(Baseline, Small)
    BY <1>5, <2>0 DEF Grants, Holds
  <2>4. suite \in GivesBack /\ c.rate = "launch" => ambr' = ended[2]
    BY <1>5, <2>0 DEF Grants, Holds, Needs
  <2>5. suite \in GivesBack /\ "found" \in c.sure => found = ended[2]
    BY <1>5, <2>0 DEF Grants, Holds
  <2> QED BY <1>1, <2>1, <2>2, <2>3, <2>4, <2>5
<1> QED BY <1>3, <1>6, <1>7, <1>8, <1>9 DEF Holds

LEMMA SuiteWritesOn ==
  ASSUME SuiteInv, ambr \in Rate, faults \in Nat, program' = program, SuiteWrite
  PROVE  SuiteInv' /\ ambr' \in Rate
<1>0. On /\ ops # << >> /\ refused \in BOOLEAN /\ ended[1] = "none"
  BY DEF SuiteWrite, Apply, SuiteInv, At
<1>1. PICK a, e : Holds(a) /\ AtEnd(suite, e) /\ Runs(suite, ops, a, e)
  BY <1>0 DEF SuiteInv
<1> DEFINE op == Head(ops)
<1>2. PICK c \in Knowledge : Runs(suite, Tail(ops), c, e) /\ Needs(suite, a, op) /\ Grants(a, op, c)
  BY <1>0, <1>1, NextOperation
<1>3. PICK r :
        /\ Apply(op, r) /\ op \in Writes /\ own' = IF op \in {"reset", "climb"} THEN r ELSE own
        /\ \/ op \in {"base", "reset"} /\ r = Baseline
           \/ op = "put" /\ r = own
           \/ op = "raise" /\ r = Grown(own, Small)
           \/ op = "leap" /\ r = Grown(own, Large)
           \/ op = "step" /\ r = Grown(ambr, Small)
           \/ op = "probe" /\ r = Probe
           \/ op = "restore" /\ r = found
           \/ op = "climb" /\ r = Grown(own, Small)
  BY DEF SuiteWrite, Apply, At, Writes
<1>4. r \in Rate
  <2>1. op \in {"put", "raise", "leap", "climb"} => own \in Rate
    BY <1>1, <1>2 DEF Needs, Holds
  <2>2. op = "restore" => found \in Rate
    BY <1>1, <1>2 DEF Needs, Holds
  <2>3. Baseline \in Rate /\ Probe \in Rate /\ Small \in Nat /\ Large \in Nat
    BY CircuitAssumption, WaveTrialsAssumption, SuiteAssumption
  <2> HIDE DEF op
  <2> QED BY <1>3, <2>1, <2>2, <2>3, GrownIsRate
<1>5. ambr' \in Rate
  BY <1>3, <1>4 DEF Apply, Write, Fails
<1>6. Holds(c)' /\ refused' \in BOOLEAN
  <2> HIDE DEF op
  <2> QED BY <1>0, <1>1, <1>2, <1>3, <1>4, WriteHolds
<1>7. Goes /\ suite' = suite /\ ended' = ended /\ cooling' \in BOOLEAN
  BY <1>3 DEF Apply
<1> QED BY <1>0, <1>1, <1>2, <1>5, <1>6, <1>7, OperationDone

(* Operations that write no rate.                                          *)
LEMMA OtherHolds ==
  ASSUME NEW op \in SuiteOp \ Changes, NEW a, NEW c \in Knowledge, Holds(a),
         Needs(suite, a, op), Grants(a, op, c), ambr \in Rate,
         UNCHANGED <<suite, ended, refused, ambr>>,
         found' = (IF op = "find" THEN ambr ELSE found),
         own' = (IF op = "keep" THEN ambr ELSE own),
         cooling' = (IF op = "pause" THEN FALSE ELSE cooling)
  PROVE  Holds(c)'
<1>1. op \notin {"reset", "climb", "base", "put", "restore", "raise", "leap", "step", "probe"}
  BY DEF Changes, Writes
<1>2. c.own # "none" => own' \in Rate
  BY <1>1 DEF Holds, Grants
<1>3. "found" \in c.sure => found' \in Rate
  BY DEF Holds, Grants
<1>4. "calm" \in c.sure => ~cooling'
  BY DEF Holds, Grants
<1>5. ASSUME ~refused
      PROVE  /\ c.own = "base" => own' = Baseline
             /\ c.rate = "base" => ambr = Baseline
             /\ c.rate = "grown" => ambr = Grown(Baseline, Small)
             /\ suite \in GivesBack =>
                 /\ c.rate = "launch" => ambr = ended[2]
                 /\ "found" \in c.sure => found' = ended[2]
  <2>1. c.own = "base" => own' = Baseline
    BY <1>1, <1>5 DEF Grants, Holds
  <2>2. /\ c.rate = "base" => ambr = Baseline
        /\ c.rate = "grown" => ambr = Grown(Baseline, Small)
        /\ suite \in GivesBack /\ c.rate = "launch" => ambr = ended[2]
    BY <1>1, <1>5 DEF Grants, Holds
  <2>3. suite \in GivesBack /\ "found" \in c.sure => found' = ended[2]
    BY <1>1, <1>5 DEF Grants, Holds, Needs
  <2> QED BY <2>1, <2>2, <2>3
<1> QED BY <1>2, <1>3, <1>4, <1>5 DEF Holds

LEMMA SuiteWorksOn ==
  ASSUME SuiteInv, ambr \in Rate, program' = program, On, ops # << >>, Head(ops) \notin Changes, Goes,
         UNCHANGED <<suite, ended, refused, ambr>>,
         found' = (IF Head(ops) = "find" THEN ambr ELSE found),
         own' = (IF Head(ops) = "keep" THEN ambr ELSE own),
         cooling' = (IF Head(ops) = "pause" THEN FALSE ELSE cooling)
  PROVE  SuiteInv'
<1>1. PICK a, e : Holds(a) /\ AtEnd(suite, e) /\ Runs(suite, ops, a, e)
  BY DEF SuiteInv
<1> DEFINE op == Head(ops)
<1>2. PICK c \in Knowledge : Runs(suite, Tail(ops), c, e) /\ Needs(suite, a, op) /\ Grants(a, op, c) /\ op \in SuiteOp
  BY <1>1, NextOperation
<1>3. Holds(c)'
  <2> HIDE DEF op
  <2>1. op \in SuiteOp \ Changes
    BY <1>2 DEF op
  <2>2. /\ found' = (IF op = "find" THEN ambr ELSE found)
        /\ own' = (IF op = "keep" THEN ambr ELSE own)
        /\ cooling' = (IF op = "pause" THEN FALSE ELSE cooling)
    BY DEF op
  <2> QED BY <1>1, <1>2, <2>1, <2>2, OtherHolds
<1>4. refused' \in BOOLEAN /\ cooling' \in BOOLEAN
  BY DEF SuiteInv
<1> QED BY <1>1, <1>2, <1>3, <1>4, OperationDone

(* A session writes, and goes on; a session that ends.                     *)
LEMMA SessionWritesOn ==
  ASSUME SuiteInv, On, SessionWrite, cooling' = TRUE, program' = program,
         UNCHANGED <<suite, found, own, ended, refused>>
  PROVE  SuiteInv' /\ ambr' \in Rate
<1>0. ops # << >> /\ Head(ops) \in {"agent", "session"} /\ ops' = <<"session">> \o Tail(ops)
  BY DEF SessionWrite, At
<1>1. PICK a, e : Holds(a) /\ AtEnd(suite, e) /\ Runs(suite, ops, a, e)
  BY DEF SuiteInv
<1>2. PICK c \in Knowledge :
        Runs(suite, Tail(ops), c, e) /\ Needs(suite, a, Head(ops)) /\ Grants(a, Head(ops), c)
  BY <1>0, <1>1, NextOperation
<1> DEFINE b2 == [a EXCEPT !.rate = "any", !.sure = @ \ {"calm"}]
<1>3. b2 \in Knowledge /\ Holds(b2)'
  <2>1. a \in Knowledge
    BY <1>1 DEF Holds
  <2>2. /\ b2 \in Knowledge /\ b2.own = a.own /\ b2.rate = "any" /\ "calm" \notin b2.sure
        /\ ("found" \in b2.sure <=> "found" \in a.sure) /\ b2.todo = a.todo
    BY <2>1 DEF Knowledge
  <2> HIDE DEF b2
  <2> QED BY <1>1, <2>2 DEF Holds
<1>4. <<b2, "session", c>> \in Moves(suite)
  <2>1. a \in Knowledge
    BY <1>1 DEF Holds
  <2>2. Needs(suite, b2, "session")
    BY <1>0, <1>2, <2>1 DEF Needs, Knowledge
  <2>3. Grants(b2, "session", c)
    BY <1>0, <1>2, <2>1 DEF Grants, Knowledge, Changes, Writes
  <2> HIDE DEF b2
  <2> QED BY <1>2, <1>3, <2>2, <2>3 DEF Moves, SuiteOp
<1>5. Runs(suite, <<"session">>, b2, c)
  <2> HIDE DEF b2
  <2> QED BY <1>4, Leads1 DEF Runs, SuiteOp
<1> HIDE DEF b2
<1>6. Runs(suite', ops', b2, e)
  BY <1>0, <1>2, <1>5, RunsOn
<1>7. ambr' \in Rate
  BY WaveTrialsAssumption DEF SessionWrite
<1> QED BY <1>0, <1>1, <1>3, <1>6, <1>7 DEF SuiteInv, On

LEMMA SessionEndsOn ==
  ASSUME SuiteInv, On, At("agent") \/ At("session"), Goes, program' = program,
         UNCHANGED <<suite, found, own, ended, refused, cooling, ambr>>
  PROVE  SuiteInv'
<1>0. ops # << >> /\ Head(ops) \in {"agent", "session"}
  BY DEF At
<1>1. PICK a, e : Holds(a) /\ AtEnd(suite, e) /\ Runs(suite, ops, a, e)
  BY DEF SuiteInv
<1>2. PICK c \in Knowledge :
        Runs(suite, Tail(ops), c, e) /\ Needs(suite, a, Head(ops)) /\ Grants(a, Head(ops), c)
  BY <1>0, <1>1, NextOperation
<1>3. Holds(c)'
  BY <1>0, <1>1, <1>2 DEF Grants, Holds, Changes, Writes, Knowledge
<1>4. refused' \in BOOLEAN /\ cooling' \in BOOLEAN
  BY DEF SuiteInv
<1> QED BY <1>1, <1>2, <1>3, <1>4, OperationDone

LEMMA ThreeTails ==
  ASSUME NEW X, NEW s \in Seq(X), s # << >>, Tail(s) # << >>, Tail(Tail(s)) # << >>
  PROVE  Tail(Tail(Tail(s))) = SubSeq(s, 4, Len(s))
<1>1. /\ Tail(s) \in Seq(X) /\ Len(s) \in Nat /\ Len(Tail(s)) = Len(s) - 1
      /\ \A k \in 1 .. Len(Tail(s)) : Tail(s)[k] = s[k + 1]
  BY HeadTailProperties, LenProperties
<1> DEFINE t == Tail(s)
           u == Tail(t)
           v == Tail(u)
           w == SubSeq(s, 4, Len(s))
<1>2. u \in Seq(X) /\ Len(u) = Len(s) - 2 /\ Len(u) \in Nat /\ \A k \in 1 .. Len(u) : u[k] = s[k + 2]
  <2> HIDE DEF t
  <2>1. t \in Seq(X) /\ t # << >> /\ Len(t) = Len(s) - 1 /\ \A k \in 1 .. Len(t) : t[k] = s[k + 1]
    BY <1>1 DEF t
  <2>2. u \in Seq(X) /\ Len(u) = Len(t) - 1 /\ Len(u) \in Nat /\ \A k \in 1 .. Len(u) : u[k] = t[k + 1]
    BY <2>1, HeadTailProperties, LenProperties
  <2>3. Len(u) = Len(s) - 2
    <3> HIDE DEF u
    <3> QED BY <1>1, <2>1, <2>2
  <2>4. ASSUME NEW k \in 1 .. Len(u) PROVE u[k] = s[k + 2]
    <3>1. k + 1 \in 1 .. Len(t) /\ k + 1 + 1 = k + 2
      BY <1>1, <2>1, <2>2
    <3> QED BY <2>1, <2>2, <3>1
  <2> QED BY <2>2, <2>3, <2>4
<1>3. v \in Seq(X) /\ Len(v) = Len(s) - 3 /\ Len(v) \in Nat /\ \A k \in 1 .. Len(v) : v[k] = s[k + 3]
  <2> HIDE DEF u
  <2>1. u # << >>
    BY DEF u
  <2>2. v \in Seq(X) /\ Len(v) = Len(u) - 1 /\ Len(v) \in Nat /\ \A k \in 1 .. Len(v) : v[k] = u[k + 1]
    BY <1>2, <2>1, HeadTailProperties, LenProperties
  <2>3. Len(v) = Len(s) - 3
    <3> HIDE DEF v
    <3> QED BY <1>1, <1>2, <2>2
  <2>4. ASSUME NEW k \in 1 .. Len(v) PROVE v[k] = s[k + 3]
    <3>1. k + 1 \in 1 .. Len(u) /\ k + 1 + 2 = k + 3
      BY <1>2, <2>2
    <3> QED BY <1>2, <2>2, <3>1
  <2> QED BY <2>2, <2>3, <2>4
<1> HIDE DEF v
<1>4. w \in Seq(X) /\ Len(w) = Len(s) - 3 /\ \A k \in 1 .. Len(s) - 3 : w[k] = s[k + 3]
  <2>1. 4 \in Int /\ Len(s) \in Int /\ \A k \in 4 .. Len(s) : s[k] \in X
    BY <1>1, LenProperties
  <2>2. /\ w \in Seq(X) /\ Len(w) = IF 4 <= Len(s) THEN Len(s) - 4 + 1 ELSE 0
        /\ \A k \in 1 .. Len(s) - 4 + 1 : w[k] = s[4 + k - 1]
    BY <2>1, SubSeqProperties
  <2> HIDE DEF w
  <2>3. Len(s) - 4 + 1 = Len(s) - 3 /\ Len(w) = Len(s) - 3
    <3>1. Len(s) >= 3
      BY <1>1, <1>3
    <3>2. CASE 4 <= Len(s)
      BY <1>1, <2>2, <3>2
    <3>3. CASE ~(4 <= Len(s))
      BY <1>1, <2>2, <3>1, <3>3
    <3> QED BY <3>2, <3>3
  <2>4. \A k \in 1 .. Len(s) - 3 : 4 + k - 1 = k + 3
    BY <1>1
  <2> QED BY <2>2, <2>3, <2>4
<1> HIDE DEF w
<1>5. v = w
  BY <1>3, <1>4, SeqEqual
<1> QED BY <1>5 DEF v, w

(* The checker refuses a step, or the whole sweep.                         *)
LEMMA JudgedOn ==
  ASSUME SuiteInv, On, Judge, program' = program, ambr' = ambr PROVE SuiteInv'
<1>0. ops # << >> /\ Head(ops) = "judge" /\ suiteVars' = suiteVars
  BY DEF Judge, At
<1>1. PICK a, e : Holds(a) /\ AtEnd(suite, e) /\ Runs(suite, ops, a, e)
  BY DEF SuiteInv
<1>2. PICK c \in Knowledge :
        Runs(suite, Tail(ops), c, e) /\ Needs(suite, a, "judge") /\ Grants(a, "judge", c)
  BY <1>0, <1>1, NextOperation
<1>3. CASE ops' = Tail(ops)
  <2>1. Holds(c)'
    BY <1>0, <1>1, <1>2 DEF Grants, Holds, Changes, Writes, Knowledge, suiteVars
  <2> QED BY <1>0, <1>1, <1>2, <1>3, <2>1 DEF SuiteInv, On, suiteVars
<1>4. CASE ops' = SubSeq(ops, 4, Len(ops))
  <2> DEFINE second == Tail(ops)
             third == Tail(second)
  <2>1. c.todo = "step" /\ "step" # "any"
    BY <1>2 DEF Grants
  <2>2. PICK d \in Knowledge : Runs(suite, third, d, e) /\ Grants(c, "step", d) /\ second # << >>
    <3> HIDE DEF second
    <3>1. Runs(suite, second, c, e)
      BY <1>2 DEF second
    <3> QED BY <1>1, <2>1, <3>1, NextIsDone
  <2>3. d.todo = "pause" /\ "pause" # "any"
    BY <2>2 DEF Grants
  <2>4. PICK f \in Knowledge : Runs(suite, Tail(third), f, e) /\ Grants(d, "pause", f) /\ third # << >>
    <3> HIDE DEF third
    <3> QED BY <1>1, <2>2, <2>3, NextIsDone
  <2>5. ops' = Tail(third)
    <3>1. ops \in Seq(SuiteOp)
      BY <1>1 DEF Runs
    <3>2. Tail(third) = SubSeq(ops, 4, Len(ops))
      BY <1>0, <2>2, <2>4, <3>1, ThreeTails
    <3> QED BY <1>4, <3>2
  <2>6. Holds(f)'
    BY <1>0, <1>1, <1>2, <2>2, <2>4 DEF Grants, Needs, Holds, Changes, Writes, Knowledge, suiteVars
  <2> QED BY <1>0, <1>1, <2>4, <2>5, <2>6 DEF SuiteInv, On, suiteVars
<1> QED BY <1>3, <1>4 DEF Judge, Then

LEMMA SweptOn ==
  ASSUME SuiteInv, On, Sweep, program' = program, ambr' = ambr PROVE SuiteInv'
<1>0. ops # << >> /\ Head(ops) = "sweep" /\ suiteVars' = suiteVars
  BY DEF Sweep, At
<1>1. PICK a, e : Holds(a) /\ AtEnd(suite, e) /\ Runs(suite, ops, a, e)
  BY DEF SuiteInv
<1>2. PICK c \in Knowledge :
        Runs(suite, Tail(ops), c, e) /\ Needs(suite, a, "sweep") /\ Grants(a, "sweep", c)
  BY <1>0, <1>1, NextOperation
<1>3. CASE ops' = Tail(ops)
  <2>1. Holds(c)'
    BY <1>0, <1>1, <1>2 DEF Grants, Holds, Changes, Writes, Knowledge, suiteVars
  <2> QED BY <1>0, <1>1, <1>2, <1>3, <2>1 DEF SuiteInv, On, suiteVars
<1>4. CASE suite = "v4" /\ ops' = <<"pause", "restore">>
  <2> DEFINE from == K("none", "any", {"found"}, "any")
             to == K("none", "launch", {"found"}, "any")
  <2>1. Holds(from)' /\ AtEnd(suite, to)
    <3>1. "found" \in a.sure
      BY <1>2, <1>4 DEF Needs
    <3> QED BY <1>0, <1>1, <3>1 DEF Holds, K, Knowledge, AtEnd, suiteVars
  <2>2. Runs(suite, ops', from, to)
    BY <1>4, GiveUpLeads
  <2> HIDE DEF from, to
  <2> QED BY <1>0, <2>1, <2>2 DEF SuiteInv, On, suiteVars
<1>5. CASE suite # "v4" /\ ops' = << >>
  <2> DEFINE at == K("none", "any", {}, "any")
  <2>1. Holds(at)' /\ AtEnd(suite, at)
    <3>1. suite = "all_v4"
      BY <1>2, <1>5 DEF Needs
    <3> QED BY <3>1 DEF Holds, K, Knowledge, AtEnd, Restores
  <2>2. Runs(suite, ops', at, at)
    BY <1>5, RunsNowhere
  <2> HIDE DEF at
  <2> QED BY <1>0, <2>1, <2>2 DEF SuiteInv, On, suiteVars
<1> QED BY <1>3, <1>4, <1>5 DEF Sweep, Then

LEMMA ComparedOn ==
  ASSUME SuiteInv, On, Compare, program' = program, ambr' = ambr PROVE SuiteInv'
<1>0. ops # << >> /\ Head(ops) = "compare" /\ suiteVars' = suiteVars
  BY DEF Compare, At
<1>1. PICK a, e : Holds(a) /\ AtEnd(suite, e) /\ Runs(suite, ops, a, e)
  BY DEF SuiteInv
<1>2. PICK c \in Knowledge :
        Runs(suite, Tail(ops), c, e) /\ Needs(suite, a, "compare") /\ Grants(a, "compare", c)
  BY <1>0, <1>1, NextOperation
<1>3. CASE ops' = Tail(ops)
  <2>1. Holds(c)'
    BY <1>0, <1>1, <1>2 DEF Grants, Holds, Changes, Writes, Knowledge, suiteVars
  <2> QED BY <1>0, <1>1, <1>2, <1>3, <2>1 DEF SuiteInv, On, suiteVars
<1>4. CASE ambr = found /\ ops' = << >>
  <2> DEFINE at == K("none", "launch", {}, "any")
  <2>1. Holds(at)' /\ AtEnd(suite, at)
    <3>1. "found" \in a.sure
      BY <1>2 DEF Needs
    <3> QED BY <1>0, <1>1, <1>4, <3>1 DEF Holds, K, Knowledge, AtEnd, suiteVars
  <2>2. Runs(suite, ops', at, at)
    BY <1>4, RunsNowhere
  <2> HIDE DEF at
  <2> QED BY <1>0, <2>1, <2>2 DEF SuiteInv, On, suiteVars
<1> QED BY <1>3, <1>4 DEF Compare, Then

LEMMA LaunchedOn ==
  ASSUME SuiteInv, LaunchSuite, program = "suite", program' = program PROVE SuiteInv'
<1>1. PICK s \in Suites : \E p \in Programs[s] :
        suite' = s /\ ops' = p /\ ended' = <<"none", IF s \in GivesBack THEN ambr ELSE None>>
  BY DEF LaunchSuite, Then
<1>2. s \in DOMAIN Programs
  BY SuiteAssumption
<1>3. PICK p \in Programs[s] :
        suite' = s /\ ops' = p /\ ended' = <<"none", IF s \in GivesBack THEN ambr ELSE None>>
  BY <1>1
<1>4. PICK e : AtEnd(s, e) /\ Runs(s, p, AtLaunch(s), e)
  BY <1>2, ProgramsRun
<1>5. UNCHANGED <<ambr, refused, cooling>>
  BY DEF LaunchSuite
<1>6. Holds(AtLaunch(s))'
  BY <1>3, <1>5 DEF Holds, AtLaunch, Launched, Unknown, K, Knowledge
<1>7. s # "off" /\ ended'[1] = "none" /\ "none" \notin Restores
  BY <1>2, <1>3 DEF Programs, Restores
<1> QED BY <1>4, <1>3, <1>5, <1>6, <1>7 DEF SuiteInv, On

LEMMA LeftOver ==
  ASSUME SuiteInv, NEW as, Leave(as), program' = program,
         as[1] \in Restores => ambr' = as[2]
  PROVE  SuiteInv'
BY DEF SuiteInv, Leave, Then, On

LEMMA SuiteStep ==
  ASSUME SuiteInv, ambr \in Rate, faults \in Nat, Suite PROVE SuiteInv' /\ ambr' \in Rate
<1>0. program = "suite" /\ program' = program /\ NextSuite
  BY DEF Suite
<1> USE DEF suiteVars, circuit
<1>1. CASE LaunchSuite
  BY <1>0, <1>1, LaunchedOn DEF LaunchSuite
<1>2. CASE Find
  BY <1>0, <1>2, SuiteWorksOn DEF Find, At, Changes, Writes
<1>3. CASE Keep
  BY <1>0, <1>3, SuiteWorksOn DEF Keep, At, Changes, Writes
<1>4. CASE SuiteWrite
  BY <1>0, <1>4, SuiteWritesOn
<1>5. CASE Compare
  BY <1>0, <1>5, ComparedOn DEF Compare
<1>6. CASE Sweep
  BY <1>0, <1>6, SweptOn DEF Sweep
<1>7. CASE Judge
  BY <1>0, <1>7, JudgedOn DEF Judge
<1>8. CASE Observe
  BY <1>0, <1>8, SuiteWorksOn DEF Observe, At, Changes, Writes
<1>9. CASE Sleep
  <2>1. /\ On /\ ops # << >> /\ Head(ops) \in {"wait", "cycle", "pause"} /\ Goes
        /\ UNCHANGED <<suite, found, own, ended, refused, ambr>>
        /\ cooling' = (cooling /\ ~(Head(ops) = "pause"))
    BY <1>9 DEF Sleep, WaitOver, At
  <2>2. cooling' = (IF Head(ops) = "pause" THEN FALSE ELSE cooling)
    BY <2>1 DEF SuiteInv
  <2> QED BY <1>0, <2>1, <2>2, SuiteWorksOn DEF Changes, Writes
<1>10. CASE SuiteTick
  <2>1. On /\ ops # << >> /\ Head(ops) = "tick" /\ UNCHANGED suiteVars /\ ambr' = ambr
    BY <1>10 DEF SuiteTick, At, Stamp, ReadSessions, Insert, CycleFails
  <2>2. CASE Goes
    BY <1>0, <2>1, <2>2, SuiteWorksOn DEF Changes, Writes
  <2>3. CASE UNCHANGED ops
    BY <1>0, <2>1, <2>3 DEF SuiteInv, On, Holds
  <2> QED BY <1>10, <2>2, <2>3 DEF SuiteTick
<1>11. CASE Purges
  BY <1>0, <1>11, SuiteWorksOn DEF Purges, DeleteRecords, At, Changes, Writes
<1>12. CASE Mask \/ Unmask
  BY <1>0, <1>12, SuiteWorksOn DEF Mask, Unmask, At, Changes, Writes
<1>13. CASE SuiteSession
  BY <1>0, <1>13, SessionWritesOn, SessionEndsOn DEF SuiteSession, EndOfSession
<1>14. CASE SuiteOver
  <2>1. PICK a, e : Holds(a) /\ AtEnd(suite, e) /\ Runs(suite, << >>, a, e)
    BY <1>14 DEF SuiteOver, SuiteInv
  <2>2. a = e
    BY <2>1, NoOperation
  <2>3. ~refused /\ suite \in Restores => ambr = ended[2]
    BY <2>1, <2>2 DEF Holds, AtEnd, Restores, GivesBack
  <2> DEFINE as == IF refused THEN NoEnd ELSE <<suite, ended[2]>>
  <2>4. as[1] \in Restores => ambr' = as[2]
    BY <1>14, <2>3 DEF SuiteOver, NoEnd, Restores
  <2>5. Leave(as) /\ ambr' = ambr
    BY <1>14 DEF SuiteOver
  <2> HIDE DEF as
  <2> QED BY <1>0, <2>4, <2>5, LeftOver
<1>15. CASE SessionRaises
  BY <1>0, <1>15, SessionEndsOn DEF SessionRaises
<1>16. CASE StoreRaises \/ KillSuite
  <2>1. NoEnd[1] \notin Restores
    BY DEF NoEnd, Restores
  <2>2. Leave(NoEnd) /\ ambr' = ambr
    BY <1>16 DEF StoreRaises, KillSuite
  <2> QED BY <1>0, <2>1, <2>2, LeftOver
<1> QED BY <1>0, <1>1, <1>2, <1>3, <1>4, <1>5, <1>6, <1>7, <1>8, <1>9, <1>10, <1>11, <1>12, <1>13,
           <1>14, <1>15, <1>16 DEF NextSuite

(***************************************************************************)
(* The waves: whether the rate is known to be the one a session starts at, *)
(* "start", or not, "any".                                                 *)
(***************************************************************************)
WaveOp ==
  {"agent", "session", "wait", "cycle", "reset", "probe", "poll", "congest", "flush", "trim"}

WaveMoves(step) ==
  {m \in {"start", "any"} \X WaveOp \X {"start", "any"} :
     /\ m[2] = "agent" /\ step # "gates" => m[1] = "start"
     /\ m[2] = "poll" => step = "exp9"
     /\ m[3] = "start" => \/ m[2] = "reset" /\ step # "exp13"
                          \/ m[2] = "congest" /\ step = "exp13"
                          \/ m[2] \in {"wait", "cycle", "poll", "flush", "trim"} /\ m[1] = "start"}

WaveRuns(step, tasks, from, to) == tasks \in Seq(WaveOp) /\ Leads(WaveMoves(step), tasks, from, to)

StepNames == {"gates", "exp9", "exp14", "exp10bc", "exp2", "exp1", "exp13", "mm"}

(* What is known between the trials of a step.                             *)
Between(step) == IF step \in {"exp2", "exp1", "mm"} THEN "start" ELSE "any"

LEMMA WaveRunsOn ==
  ASSUME NEW step, NEW first, NEW second, NEW from, NEW mid, NEW to,
         WaveRuns(step, first, from, mid), WaveRuns(step, second, mid, to)
  PROVE  WaveRuns(step, first \o second, from, to)
BY LeadsOn, ConcatProperties DEF WaveRuns

LEMMA WaveRunsNowhere == ASSUME NEW step, NEW at PROVE WaveRuns(step, << >>, at, at)
BY LeadsNowhere DEF WaveRuns

LEMMA TrialRuns ==
  ASSUME NEW step \in StepNames, NEW p \in Protocols[step]
  PROVE  WaveRuns(step, p, Between(step), Between(step))
<1> USE DEF WaveMoves, WaveOp
<1>1. CASE step = "gates"
  <2>1. p = <<"agent">> \/ p = <<"reset", "cycle", "agent">>
    BY <1>1 DEF Protocols, GateTrials
  <2>2. Leads(WaveMoves(step), <<"agent">>, "any", "any")
    BY <1>1, Leads1
  <2>3. Leads(WaveMoves(step), <<"reset", "cycle", "agent">>, "any", "any")
    BY <1>1, Leads3
  <2>4. <<"agent">> \in Seq(WaveOp) /\ <<"reset", "cycle", "agent">> \in Seq(WaveOp) /\ Between(step) = "any"
    BY <1>1 DEF Between
  <2> HIDE DEF WaveMoves, WaveOp
  <2> QED BY <2>1, <2>2, <2>3, <2>4 DEF WaveRuns
<1>2. CASE step = "exp9"
  <2>1. p = <<"probe", "poll", "reset", "wait">> \/ p = <<"probe", "cycle", "reset", "wait">>
    BY <1>2 DEF Protocols, PollTrial, HoldTrial
  <2>2. Leads(WaveMoves(step), <<"probe", "poll", "reset", "wait">>, "any", "any")
    BY <1>2, Leads4
  <2>3. Leads(WaveMoves(step), <<"probe", "cycle", "reset", "wait">>, "any", "any")
    BY <1>2, Leads4
  <2>4. /\ <<"probe", "poll", "reset", "wait">> \in Seq(WaveOp)
        /\ <<"probe", "cycle", "reset", "wait">> \in Seq(WaveOp) /\ Between(step) = "any"
    BY <1>2 DEF Between
  <2> HIDE DEF WaveMoves, WaveOp
  <2> QED BY <2>1, <2>2, <2>3, <2>4 DEF WaveRuns
<1>3. CASE step = "exp14"
  <2>1. p = <<"probe", "cycle", "reset", "wait">>
    BY <1>3 DEF Protocols, TaxonomyTrial
  <2>2. Leads(WaveMoves(step), <<"probe", "cycle", "reset", "wait">>, "any", "any")
    BY <1>3, Leads4
  <2> QED BY <1>3, <2>1, <2>2 DEF WaveRuns, Between
<1>4. CASE step = "exp10bc"
  <2>1. p = <<"probe", "reset">>
    BY <1>4 DEF Protocols, BenchmarkTrial
  <2>2. Leads(WaveMoves(step), <<"probe", "reset">>, "any", "any")
    BY <1>4, Leads2
  <2> QED BY <1>4, <2>1, <2>2 DEF WaveRuns, Between
<1>5. CASE step \in {"exp2", "mm"}
  <2>1. p = <<"agent", "reset", "wait">>
    BY <1>5 DEF Protocols, PlainTrial, ApiTrial
  <2>2. Leads(WaveMoves(step), <<"agent", "reset", "wait">>, "start", "start")
    <3>1. /\ <<"start", "agent", "any">> \in WaveMoves(step)
          /\ <<"any", "reset", "start">> \in WaveMoves(step)
          /\ <<"start", "wait", "start">> \in WaveMoves(step)
      BY <1>5
    <3> QED BY <3>1, Leads3
  <2> QED BY <1>5, <2>1, <2>2 DEF WaveRuns, Between
<1>6. CASE step = "exp1"
  <2>1. p = <<"agent", "wait", "reset">>
    BY <1>6 DEF Protocols, LateResetTrial
  <2>2. Leads(WaveMoves(step), <<"agent", "wait", "reset">>, "start", "start")
    <3>1. /\ <<"start", "agent", "any">> \in WaveMoves(step)
          /\ <<"any", "wait", "any">> \in WaveMoves(step)
          /\ <<"any", "reset", "start">> \in WaveMoves(step)
      BY <1>6
    <3> QED BY <3>1, Leads3
  <2> QED BY <1>6, <2>1, <2>2 DEF WaveRuns, Between
<1>7. CASE step = "exp13"
  <2>1. p = <<"congest", "wait", "agent", "reset", "wait">>
    BY <1>7 DEF Protocols, RecoveryTrial
  <2>2. Leads(WaveMoves(step), <<"congest", "wait", "agent", "reset", "wait">>, "any", "any")
    <3>1. /\ <<"any", "congest", "start">> \in WaveMoves(step)
          /\ <<"start", "wait", "start">> \in WaveMoves(step)
          /\ <<"start", "agent", "any">> \in WaveMoves(step)
          /\ <<"any", "reset", "any">> \in WaveMoves(step)
          /\ <<"any", "wait", "any">> \in WaveMoves(step)
      BY <1>7
    <3> QED BY <3>1, Leads5
  <2> QED BY <1>7, <2>1, <2>2 DEF WaveRuns, Between
<1> QED BY <1>1, <1>2, <1>3, <1>4, <1>5, <1>6, <1>7 DEF StepNames

LEMMA CleanRuns ==
  ASSUME NEW step \in StepNames
  PROVE  /\ WaveRuns(step, CleanBefore(step), "any", Between(step))
         /\ WaveRuns(step, <<"reset", "wait", "flush">>, "any", "any")
<1> USE DEF WaveMoves, WaveOp
<1> DEFINE Cleaned == WaveRuns(step, CleanBefore(step), "any", Between(step))
<1>1. ASSUME step = "mm" PROVE Cleaned
  <2>1. /\ <<"any", "flush", "any">> \in WaveMoves(step)
        /\ <<"any", "reset", "start">> \in WaveMoves(step)
        /\ <<"start", "wait", "start">> \in WaveMoves(step)
    BY <1>1
  <2>2. Leads(WaveMoves(step), <<"flush", "reset", "wait", "wait">>, "any", "start")
    BY <2>1, Leads4
  <2>3. CleanBefore(step) = <<"flush", "reset", "wait", "wait">> /\ Between(step) = "start"
    BY <1>1 DEF CleanBefore, Between
  <2> QED BY <2>2, <2>3 DEF WaveRuns
<1>2. ASSUME step \in {"gates", "exp9", "exp14", "exp10bc"} PROVE Cleaned
  BY <1>2, WaveRunsNowhere DEF Between, CleanBefore
<1>3. ASSUME step \in {"exp2", "exp1"} PROVE Cleaned
  <2>1. /\ <<"any", "reset", "start">> \in WaveMoves(step)
        /\ <<"start", "wait", "start">> \in WaveMoves(step)
        /\ <<"start", "trim", "start">> \in WaveMoves(step)
    BY <1>3
  <2>2. Leads(WaveMoves(step), <<"reset", "wait", "trim">>, "any", "start")
    BY <2>1, Leads3
  <2>3. CleanBefore(step) = <<"reset", "wait", "trim">> /\ Between(step) = "start"
    BY <1>3 DEF CleanBefore, Between
  <2> QED BY <2>2, <2>3 DEF WaveRuns
<1>4. ASSUME step = "exp13" PROVE Cleaned
  <2>1. /\ <<"any", "reset", "any">> \in WaveMoves(step)
        /\ <<"any", "wait", "any">> \in WaveMoves(step)
        /\ <<"any", "trim", "any">> \in WaveMoves(step)
    BY <1>4
  <2>2. Leads(WaveMoves(step), <<"reset", "wait", "trim">>, "any", "any")
    BY <2>1, Leads3
  <2>3. CleanBefore(step) = <<"reset", "wait", "trim">> /\ Between(step) = "any"
    BY <1>4 DEF CleanBefore, Between
  <2> QED BY <2>2, <2>3 DEF WaveRuns
<1>5. WaveRuns(step, <<"reset", "wait", "flush">>, "any", "any")
  <2>1. /\ <<"any", "reset", "any">> \in WaveMoves(step)
        /\ <<"any", "wait", "any">> \in WaveMoves(step)
        /\ <<"any", "flush", "any">> \in WaveMoves(step)
    OBVIOUS
  <2> QED BY <2>1, Leads3 DEF WaveRuns
<1> QED BY <1>1, <1>2, <1>3, <1>4, <1>5 DEF StepNames

AtStart(step) == calm = "unset" \/ ambr = IF step = "exp13" THEN Congested ELSE Baseline

WaveInv ==
  /\ wpc = "on" =>
       /\ program = "wave" /\ wave \in Seq(StepNames) /\ wave # << >>
       /\ \E a \in {"start", "any"} :
            /\ a = "start" => AtStart(Head(wave))
            /\ WaveRuns(Head(wave), ops, a, Between(Head(wave)))
  /\ ops # << >> => wpc = "on" \/ On

LEMMA WaveOperation ==
  ASSUME NEW step, NEW tasks, NEW a, NEW e, WaveRuns(step, tasks, a, e), tasks # << >>
  PROVE  /\ Head(tasks) \in WaveOp
         /\ \E c \in {"start", "any"} : /\ <<a, Head(tasks), c>> \in WaveMoves(step)
                                      /\ WaveRuns(step, Tail(tasks), c, e)
<1>1. tasks \in Seq(WaveOp) /\ Leads(WaveMoves(step), tasks, a, e)
  BY DEF WaveRuns
<1>2. /\ Tail(tasks) \in Seq(WaveOp) /\ Head(tasks) \in WaveOp
      /\ \E c : <<a, Head(tasks), c>> \in WaveMoves(step) /\ Leads(WaveMoves(step), Tail(tasks), c, e)
  BY <1>1, LeadsFirst
<1>3. \A c : <<a, Head(tasks), c>> \in WaveMoves(step) => c \in {"start", "any"}
  BY DEF WaveMoves
<1> QED BY <1>2, <1>3 DEF WaveRuns

(* The run goes on with other steps, or is over.                           *)
LEMMA BegunOn ==
  ASSUME NEW sts \in Seq(StepNames), NEW before \in {<< >>, <<"reset", "wait", "flush">>},
         Begin(sts, before), program = "wave", program' = program
  PROVE  WaveInv'
<1>1. CASE sts = << >>
  BY <1>1 DEF Begin, Then, WaveInv
<1>2. CASE sts # << >>
  <2> DEFINE step == Head(sts)
  <2>1. step \in StepNames
    BY <1>2, HeadTailProperties
  <2>2. PICK p \in Protocols[step] :
          wpc' = "on" /\ wave' = sts /\ ops' = before \o CleanBefore(step) \o p
    BY <1>2 DEF Begin, Then
  <2>3. WaveRuns(step, before, "any", "any")
    BY <2>1, CleanRuns, WaveRunsNowhere
  <2>4. WaveRuns(step, p, Between(step), Between(step)) /\ WaveRuns(step, CleanBefore(step), "any", Between(step))
    BY <2>1, CleanRuns, TrialRuns
  <2> HIDE DEF step
  <2>5. WaveRuns(step, before \o CleanBefore(step), "any", Between(step))
    BY <2>3, <2>4, WaveRunsOn
  <2>6. WaveRuns(step, before \o CleanBefore(step) \o p, "any", Between(step))
    BY <2>4, <2>5, WaveRunsOn
  <2>7. WaveRuns(Head(wave'), ops', "any", Between(Head(wave')))
    BY <2>2, <2>6 DEF step
  <2> QED BY <1>2, <2>2, <2>7 DEF WaveInv
<1> QED BY <1>1, <1>2

LEMMA WaveGoesOn ==
  ASSUME WaveInv, wpc = "on", UNCHANGED <<wpc, wave, program>>, NEW c \in {"start", "any"},
         WaveRuns(Head(wave), ops', c, Between(Head(wave))), c = "start" => AtStart(Head(wave))'
  PROVE  WaveInv'
<1>1. AtStart(Head(wave))' <=> (calm' = "unset" \/ ambr' = IF Head(wave') = "exp13" THEN Congested ELSE Baseline)
  BY DEF AtStart
<1> QED BY <1>1 DEF WaveInv, AtStart

LEMMA WaveStep ==
  ASSUME WaveInv, ambr \in Rate, faults \in Nat, ~On, Wave PROVE WaveInv' /\ ambr' \in Rate
<1>0. /\ program = "wave" /\ program' = program /\ suiteVars' = suiteVars /\ NextWave
      /\ Baseline \in Rate /\ Congested \in Rate /\ Probe \in Rate /\ SessionRate \subseteq Rate
  BY WaveTrialsAssumption, CircuitAssumption DEF Wave
<1> DEFINE step == Head(wave)
           Goal == WaveInv' /\ ambr' \in Rate
<1>1. ASSUME LaunchWave PROVE Goal
  <2>1. PICK w \in Waves : \E k \in DOMAIN w :
          Begin(SubSeq(w, k, Len(w)), IF w[k] = "mm" THEN << >> ELSE <<"reset", "wait", "flush">>)
    BY <1>1 DEF LaunchWave
  <2>2. PICK k \in DOMAIN w :
          Begin(SubSeq(w, k, Len(w)), IF w[k] = "mm" THEN << >> ELSE <<"reset", "wait", "flush">>)
    BY <2>1
  <2>3. w \in Seq(StepNames)
    <3>1. DOMAIN Protocols = StepNames
      BY DEF Protocols, StepNames
    <3> QED BY <3>1, WaveTrialsAssumption
  <2>4. SubSeq(w, k, Len(w)) \in Seq(StepNames)
    <3>1. Len(w) \in Nat /\ k \in 1 .. Len(w) /\ \A m \in 1 .. Len(w) : w[m] \in StepNames
      BY <2>3, LenProperties
    <3>2. k \in Int /\ Len(w) \in Int /\ \A m \in k .. Len(w) : w[m] \in StepNames
      BY <3>1
    <3> QED BY <3>2, SubSeqProperties
  <2>5. WaveInv'
    <3>1. (IF w[k] = "mm" THEN << >> ELSE <<"reset", "wait", "flush">>) \in {<< >>, <<"reset", "wait", "flush">>}
      OBVIOUS
    <3> QED BY <1>0, <2>2, <2>4, <3>1, BegunOn
  <2> QED BY <1>1, <2>5 DEF LaunchWave
<1>2. ASSUME NextTrial PROVE Goal
  <2>0. wpc = "on" /\ ops = << >> /\ ambr' = ambr /\ calm' = calm
    BY <1>2 DEF NextTrial, circuit
  <2>1. PICK a \in {"start", "any"} :
          (a = "start" => AtStart(step)) /\ WaveRuns(step, << >>, a, Between(step))
    BY <2>0 DEF WaveInv
  <2>2. a = Between(step) /\ step \in StepNames /\ Tail(wave) \in Seq(StepNames)
    BY <2>0, <2>1, HeadTailProperties DEF WaveRuns, Leads, WaveInv
  <2>3. CASE nthTrial < Repeats
    <3>1. PICK p \in Protocols[step] : ops' = p /\ UNCHANGED <<wpc, wave>>
      BY <1>2, <2>3 DEF NextTrial, Then
    <3>2. WaveRuns(step, p, a, Between(step))
      BY <2>2, TrialRuns
    <3>3. a = "start" => AtStart(step)'
      BY <2>0, <2>1, <3>1 DEF AtStart
    <3> QED BY <1>0, <2>0, <3>1, <3>2, <3>3, WaveGoesOn
  <2>4. CASE ~(nthTrial < Repeats)
    BY <1>0, <1>2, <2>0, <2>2, <2>4, BegunOn DEF NextTrial
  <2> QED BY <2>3, <2>4
<1>3. ASSUME ops # << >>, wpc = "on"
      PROVE  \E a, c \in {"start", "any"} :
               /\ a = "start" => AtStart(step)
               /\ <<a, Head(ops), c>> \in WaveMoves(step)
               /\ WaveRuns(step, Tail(ops), c, Between(step))
  <2>1. PICK a \in {"start", "any"} :
          (a = "start" => AtStart(step)) /\ WaveRuns(step, ops, a, Between(step))
    BY <1>3 DEF WaveInv
  <2> HIDE DEF step
  <2> QED BY <1>3, <2>1, WaveOperation
<1>4. ops # << >> => wpc = "on"
  BY DEF WaveInv
<1>5. ASSUME Goes, ops # << >>, ambr' \in Rate,
             \/ UNCHANGED <<ambr, calm>> /\ ~At("reset") /\ ~At("congest")
             \/ At("agent") \/ At("session") \/ At("probe")
             \/ (At("reset") /\ (calm' = "unset" \/ ambr' = Baseline))
             \/ (At("congest") /\ (calm' = "unset" \/ ambr' = Congested))
             \/ (ambr' = ambr /\ calm # "unset" /\ calm' # "unset" /\ ~At("reset") /\ ~At("congest"))
      PROVE  Goal
  <2>1. PICK a \in {"start", "any"}, c \in {"start", "any"} :
          /\ a = "start" => AtStart(step)
          /\ <<a, Head(ops), c>> \in WaveMoves(step)
          /\ WaveRuns(step, Tail(ops), c, Between(step))
    BY <1>3, <1>4, <1>5
  <2>2. c = "start" => AtStart(step)'
    <3> DEFINE op == Head(ops)
    <3>0. wave' = wave /\ op = Head(ops)
      BY <1>5 DEF Goes
    <3> HIDE DEF op
    <3>1. AtStart(step)' <=> (calm' = "unset" \/ ambr' = IF step = "exp13" THEN Congested ELSE Baseline)
      BY <3>0 DEF AtStart
    <3>2. c = "start" => /\ \/ op = "reset" /\ step # "exp13"
                            \/ op = "congest" /\ step = "exp13"
                            \/ a = "start"
                         /\ op \in {"agent", "session", "probe"} => FALSE
                         /\ op = "reset" => step # "exp13"
                         /\ op = "congest" => step = "exp13"
      <4> HIDE DEF step
      <4>1. <<a, op, c>> \in WaveMoves(step)
        BY <2>1, <3>0
      <4> QED BY <4>1 DEF WaveMoves
    <3>3. CASE /\ ambr' = ambr /\ ((calm # "unset" /\ calm' # "unset") \/ calm' = calm)
               /\ ~At("reset") /\ ~At("congest")
      <4>1. ASSUME c = "start", op # "reset", op # "congest" PROVE AtStart(step)'
        <5>1. AtStart(step)
          BY <2>1, <3>2, <4>1
        <5> QED BY <3>1, <3>3, <5>1 DEF AtStart
      <4>2. ASSUME c = "start", op \in {"reset", "congest"} PROVE AtStart(step)'
        BY <1>5, <3>0, <3>1, <3>2, <3>3, <4>2 DEF At
      <4> QED BY <4>1, <4>2
    <3>4. CASE At("agent") \/ At("session") \/ At("probe")
      BY <3>0, <3>2, <3>4 DEF At
    <3>5. CASE At("reset") /\ (calm' = "unset" \/ ambr' = Baseline)
      BY <3>0, <3>1, <3>2, <3>5 DEF At
    <3>6. CASE At("congest") /\ (calm' = "unset" \/ ambr' = Congested)
      BY <3>0, <3>1, <3>2, <3>6 DEF At
    <3> QED BY <1>5, <3>3, <3>4, <3>5, <3>6
  <2>3. wpc = "on" /\ ops' = Tail(ops) /\ UNCHANGED <<wpc, wave, program>>
    BY <1>0, <1>4, <1>5 DEF Goes, Then
  <2> QED BY <1>5, <2>1, <2>2, <2>3, WaveGoesOn
<1>6. ASSUME NEW op \in {"reset", "congest"}, SetRate(op, IF op = "reset" THEN Baseline ELSE Congested) PROVE Goal
  <2>1. faults' = faults \/ faults' = faults + 1
    BY <1>6 DEF SetRate, Write, Fails
  <2>2. calm' = "unset" \/ ambr' = IF op = "reset" THEN Baseline ELSE Congested
    BY <1>6, <2>1 DEF SetRate, Write, Fails
  <2>3. ambr' \in Rate
    BY <1>0, <1>6 DEF SetRate, Write
  <2> QED BY <1>5, <1>6, <2>2, <2>3 DEF SetRate, At
<1>7. ASSUME ProbeWrite PROVE Goal
  BY <1>0, <1>5, <1>7 DEF ProbeWrite, Write, At
<1>8. ASSUME Poll PROVE Goal
  <2>1. ops # << >> /\ Head(ops) = "poll" /\ UNCHANGED <<ambr, calm, wpc, wave, nthTrial>>
    BY <1>8 DEF Poll, At, circuit
  <2>2. CASE Then(Tail(ops))
    BY <1>0, <1>5, <2>1, <2>2 DEF Goes, At
  <2>3. CASE Then(<< >>)
    <3>1. step = "exp9" /\ wpc = "on"
      BY <1>3, <1>4, <2>1 DEF WaveMoves
    <3>2. WaveRuns(step, << >>, "any", Between(step))
      BY <3>1, WaveRunsNowhere DEF Between
    <3> QED BY <1>0, <2>1, <2>3, <3>1, <3>2, WaveGoesOn DEF Then
  <2> QED BY <1>8, <2>2, <2>3 DEF Poll
<1>9. ASSUME SessionWrite PROVE Goal
  <2>1. /\ ops # << >> /\ Head(ops) \in {"agent", "session"} /\ ambr' \in Rate
        /\ ops' = <<"session">> \o Tail(ops) /\ UNCHANGED <<wpc, wave>>
    BY <1>0, <1>9 DEF SessionWrite, At
  <2>2. PICK c \in {"start", "any"} :
          c = "any" /\ WaveRuns(step, Tail(ops), c, Between(step))
    BY <1>3, <1>4, <2>1 DEF WaveMoves
  <2>3. WaveRuns(step, <<"session">>, "any", "any")
    <3>1. <<"any", "session", "any">> \in WaveMoves(step) /\ <<"session">> \in Seq(WaveOp)
      BY DEF WaveMoves, WaveOp
    <3> HIDE DEF step
    <3> QED BY <3>1, Leads1 DEF WaveRuns
  <2>4. WaveRuns(step, ops', "any", Between(step))
    <3> HIDE DEF step
    <3> QED BY <2>1, <2>2, <2>3, WaveRunsOn
  <2> QED BY <1>0, <1>4, <2>1, <2>4, WaveGoesOn
<1>10. ASSUME EndOfSession PROVE Goal
  BY <1>5, <1>10 DEF EndOfSession, At, circuit
<1>11. ASSUME WaitOver PROVE Goal
  BY <1>5, <1>11 DEF WaitOver, At, circuit
<1>12. ASSUME DeleteRecords PROVE Goal
  BY <1>5, <1>12 DEF DeleteRecords, At
<1>13. ASSUME TrialRaisesInWave PROVE Goal
  <2>0. wpc = "on" /\ ops # << >> /\ ambr' = ambr
    BY <1>13 DEF TrialRaisesInWave, TrialUnderWay
  <2>1. CASE wpc' = "off" /\ ops' = << >>
    BY <2>0, <2>1 DEF WaveInv
  <2>2. CASE Head(wave) = "mm" /\ Then(<<"wait">>) /\ calm' = "unset" /\ UNCHANGED <<wpc, wave>>
    <3>1. WaveRuns(step, <<"wait">>, "start", Between(step))
      <4>1. <<"start", "wait", "start">> \in WaveMoves(step) /\ <<"wait">> \in Seq(WaveOp) /\ Between(step) = "start"
        BY <2>2 DEF WaveMoves, WaveOp, Between
      <4> HIDE DEF step
      <4> QED BY <4>1, Leads1 DEF WaveRuns
    <3>2. AtStart(step)'
      BY <2>2 DEF AtStart
    <3> QED BY <1>0, <2>0, <2>2, <3>1, <3>2, WaveGoesOn DEF Then
  <2>3. CASE Begin(Tail(wave), << >>)
    <3>1. Tail(wave) \in Seq(StepNames)
      BY <2>0, HeadTailProperties DEF WaveInv
    <3> QED BY <1>0, <2>0, <2>3, <3>1, BegunOn
  <2> QED BY <1>13, <2>1, <2>2, <2>3 DEF TrialRaisesInWave, Then
<1>14. ASSUME KillWave \/ WaveEnded PROVE Goal
  BY <1>14 DEF KillWave, WaveEnded, WaveInv, Then, circuit, waveVars
<1> HIDE DEF Goal
<1>15. Goal
  BY <1>0, <1>1, <1>2, <1>6, <1>7, <1>8, <1>9, <1>10, <1>11, <1>12, <1>13, <1>14 DEF NextWave
<1> QED BY <1>15 DEF Goal

(***************************************************************************)
(* The host: what holds whatever program runs.                             *)
(***************************************************************************)
(* The records, and the newest one.                                        *)
LEMMA RecordsAre ==
  ASSUME CircuitInv
  PROVE  /\ Records \in Seq(Rate \cup {0})
         /\ \A k \in 1 .. Len(Records) :
              \E m \in 1 .. Len(smf) : Records[k] = smf[m] /\ smf[m] \notin Collector
<1> DEFINE I == {k \in DOMAIN smf : smf[k] \notin Collector}
<1>1. smf \in Seq(Values) /\ DOMAIN smf = 1 .. Len(smf) /\ \A k \in 1 .. Len(smf) : smf[k] \in Values
  BY LenProperties DEF CircuitInv
<1>2. Records = Part(smf, I) /\ \A k \in I : k \in 1 .. Len(smf) /\ smf[k] \notin Collector
  BY <1>1 DEF Records
<1> HIDE DEF I
<1>3. PICK g : Thins(Part(smf, I), smf, I, g)
  BY <1>1, PartThins
<1>4. \A k \in 1 .. Len(Records) : g[k] \in I /\ Records[k] = smf[g[k]]
  BY <1>2, <1>3 DEF Thins
<1>5. \A k \in 1 .. Len(Records) : Records[k] \in Rate \cup {0}
  BY <1>1, <1>2, <1>4 DEF Values
<1>6. Records \in Seq(Values)
  BY <1>1, <1>2, PartType
<1>7. Len(Records) \in Nat /\ Records \in [1 .. Len(Records) -> Rate \cup {0}]
  BY <1>5, <1>6, LenProperties
<1> DEFINE r == Records
<1> HIDE DEF r
<1>8. r \in Seq(Rate \cup {0})
  BY <1>7, SeqDef DEF r
<1> QED BY <1>2, <1>4, <1>8 DEF r

LEMMA LatestIs ==
  ASSUME CircuitInv
  PROVE  \/ /\ \A k \in 1 .. Len(smf) : smf[k] \in Collector
            /\ Records = << >> /\ Latest = None
         \/ \E m \in 1 .. Len(smf) :
              /\ smf[m] \notin Collector /\ \A k \in m + 1 .. Len(smf) : smf[k] \in Collector
              /\ Records # << >> /\ Latest = smf[m]
<1> DEFINE I == {k \in DOMAIN smf : smf[k] \notin Collector}
<1>1. smf \in Seq(Values) /\ DOMAIN smf = 1 .. Len(smf) /\ Len(smf) \in Nat
  BY LenProperties DEF CircuitInv
<1>2. Records = Part(smf, I) /\ \A k \in 1 .. Len(smf) : k \in I <=> smf[k] \notin Collector
  BY <1>1 DEF Records
<1>3. I \in SUBSET (1 .. Len(smf))
  BY <1>1
<1> HIDE DEF I
<1>4. CASE I = {}
  <2>1. \A k \in 1 .. Len(smf) : k \notin I
    BY <1>4
  <2>2. Part(smf, I) = << >>
    BY <1>1, <2>1, PartNone
  <2> QED BY <1>2, <2>1, <2>2 DEF Latest
<1>5. CASE I # {}
  <2>1. PICK m \in I : \A k \in m + 1 .. Len(smf) : k \notin I
    BY <1>1, <1>3, <1>5, LargestIndex
  <2>2. m \in 1 .. Len(smf)
    BY <1>3
  <2>3. Part(smf, I) # << >> /\ Part(smf, I)[Len(Part(smf, I))] = smf[m]
    BY <1>1, <2>1, <2>2, PartLast
  <2>4. Latest = smf[m]
    BY <1>2, <2>3 DEF Latest, Last
  <2>5. \A k \in m + 1 .. Len(smf) : k \in 1 .. Len(smf)
    BY <1>1, <2>2
  <2> QED BY <1>2, <2>1, <2>2, <2>3, <2>4, <2>5
<1> QED BY <1>4, <1>5

(* Records that are put back come before all others.                       *)
LEMMA UnmaskStep ==
  ASSUME CircuitInv, NEW old \in Seq(Rate \cup {0}), seen' = seen,
         smf' = LET s == old \o smf IN SubSeq(s, Max({1, Len(s) - MaxRecords + 1}), Len(s))
  PROVE  CircuitInv' /\ \A c \in Collector : Has(smf', c) <=> Has(smf, c)
<1> DEFINE s == old \o smf
           n == Len(s)
           d == Len(old)
           l == Len(smf)
           a == Max({1, n - MaxRecords + 1})
<1>1. /\ smf \in Seq(Values) /\ l \in Nat /\ l <= MaxRecords /\ MaxRecords \in Nat /\ MaxRecords > 2
      /\ d \in Nat /\ \A k \in 1 .. d : old[k] \in Rate \cup {0}
  BY CircuitAssumption, LenProperties, ElementOfSeq DEF CircuitInv
<1>2. old \in Seq(Values)
  BY SeqMonotonic DEF Values
<1>3. /\ s \in Seq(Values) /\ n = d + l
      /\ \A k \in 1 .. d + l : s[k] = IF k <= d THEN old[k] ELSE smf[k - d]
  BY <1>1, <1>2, ConcatProperties
<1>4. smf' = SubSeq(s, a, n)
  OBVIOUS
<1> HIDE DEF s, d, l
<1>5. a = IF n - MaxRecords + 1 > 1 THEN n - MaxRecords + 1 ELSE 1
  <2>1. n - MaxRecords + 1 \in Int
    BY <1>1, <1>3
  <2> HIDE DEF n
  <2>2. \E x \in {1, n - MaxRecords + 1} : \A y \in {1, n - MaxRecords + 1} : x >= y
    BY <2>1
  <2>3. a \in {1, n - MaxRecords + 1} /\ \A y \in {1, n - MaxRecords + 1} : a >= y
    BY <2>2 DEF Max
  <2> QED BY <2>1, <2>3
<1> HIDE DEF n, a
<1>6. a \in 1 .. d + 1 /\ n - a + 1 \in Nat /\ n - a + 1 <= MaxRecords /\ n \in Nat
  BY <1>1, <1>3, <1>5
<1>7. /\ n = d + l /\ d \in Int /\ l \in Int /\ a \in Int /\ n \in Int
      /\ 0 <= d /\ 0 <= l /\ 1 <= a /\ a <= d + 1
  BY <1>1, <1>3, <1>6
<1>8. \A k \in a .. n : s[k] \in Values
  <2>1. \A k \in 1 .. n : s[k] \in Values
    BY <1>3, ElementOfSeq DEF n
  <2> QED BY <1>6, <2>1
<1>9. /\ smf' \in Seq(Values) /\ Len(smf') = n - a + 1
      /\ \A k \in 1 .. n - a + 1 : smf'[k] = s[a + k - 1]
  <2>1. a \in Int /\ n \in Int
    BY <1>6
  <2>2. /\ SubSeq(s, a, n) \in Seq(Values) /\ Len(SubSeq(s, a, n)) = IF a <= n THEN n - a + 1 ELSE 0
        /\ \A k \in 1 .. n - a + 1 : SubSeq(s, a, n)[k] = s[a + k - 1]
    BY <1>8, <2>1, SubSeqProperties
  <2>3. (IF a <= n THEN n - a + 1 ELSE 0) = n - a + 1
    BY <1>6
  <2> QED BY <1>4, <2>2, <2>3
<1>10. \A m \in 1 .. l : m + d \in 1 .. d + l /\ s[m + d] = smf[m]
  <2> SUFFICES ASSUME NEW m \in 1 .. l PROVE m + d \in 1 .. d + l /\ s[m + d] = smf[m]
    OBVIOUS
  <2> DEFINE q == m + d
  <2>1. q \in 1 .. d + l /\ ~(q <= d) /\ q - d = m
    BY <1>7
  <2> HIDE DEF q
  <2>2. s[q] = smf[m]
    BY <1>3, <2>1
  <2> QED BY <2>1, <2>2 DEF q
(* Where a slot is.                                                        *)
<1>11. \A k \in 1 .. n - a + 1 : smf'[k] \in Collector =>
        \E m \in 1 .. l : m + d = a + k - 1 /\ smf'[k] = smf[m]
  <2> SUFFICES ASSUME NEW k \in 1 .. n - a + 1, smf'[k] \in Collector
               PROVE  \E m \in 1 .. l : m + d = a + k - 1 /\ smf'[k] = smf[m]
    OBVIOUS
  <2>0. k \in Int /\ 1 <= k /\ k <= n - a + 1
    BY <1>7
  <2>1. a + k - 1 \in 1 .. d + l /\ smf'[k] = s[a + k - 1]
    <3>1. a + k - 1 \in 1 .. d + l
      BY <1>7, <2>0
    <3> QED BY <1>9, <3>1
  <2>2. ~(a + k - 1 <= d)
    <3>1. ASSUME a + k - 1 <= d PROVE FALSE
      <4>1. a + k - 1 \in 1 .. d /\ s[a + k - 1] = old[a + k - 1]
        BY <1>1, <1>3, <2>1, <3>1
      <4> QED BY <1>1, <2>1, <4>1, ValuesApart
    <3> QED BY <3>1
  <2>3. PICK m \in 1 .. l : m + d = a + k - 1
    <3>1. a + k - 1 - d \in 1 .. l
      BY <1>7, <2>0, <2>2
    <3>2. PICK m \in 1 .. l : m = a + k - 1 - d
      BY <3>1
    <3>3. m + d = a + k - 1
      BY <1>7, <2>0, <3>2
    <3> QED BY <3>3
  <2>4. smf'[k] = smf[m]
    BY <1>10, <2>1, <2>3
  <2> QED BY <2>3, <2>4
<1>12. \A m \in 1 .. l : m + d - a + 1 \in 1 .. n - a + 1 /\ smf'[m + d - a + 1] = smf[m]
  <2> SUFFICES ASSUME NEW m \in 1 .. l
               PROVE  m + d - a + 1 \in 1 .. n - a + 1 /\ smf'[m + d - a + 1] = smf[m]
    OBVIOUS
  <2>1. m + d - a + 1 \in 1 .. n - a + 1 /\ a + (m + d - a + 1) - 1 = m + d /\ m + d \in 1 .. d + l
        /\ ~(m + d <= d) /\ m + d - d = m
    BY <1>7
  <2> DEFINE j == m + d - a + 1
  <2>2. j \in 1 .. n - a + 1 /\ a + j - 1 = m + d
    BY <2>1
  <2>3. s[m + d] = smf[m]
    BY <1>10
  <2> HIDE DEF j
  <2>4. smf'[j] = smf[m]
    BY <1>9, <2>2, <2>3
  <2> QED BY <2>2, <2>4 DEF j
<1>13. SlotsOnce(smf')
  <2> SUFFICES ASSUME NEW k \in 1 .. n - a + 1, NEW m \in 1 .. n - a + 1,
                      smf'[k] = smf'[m], smf'[k] \in Collector
               PROVE  k = m
    BY <1>9 DEF SlotsOnce
  <2>1. PICK v \in 1 .. l : v + d = a + k - 1 /\ smf'[k] = smf[v]
    BY <1>11
  <2>2. PICK w \in 1 .. l : w + d = a + m - 1 /\ smf'[m] = smf[w]
    BY <1>11
  <2>3. v = w
    BY <2>1, <2>2 DEF CircuitInv, SlotsOnce, l
  <2> QED BY <1>7, <2>1, <2>2, <2>3
<1>14. \A c \in Collector : Has(smf', c) <=> Has(smf, c)
  <2> SUFFICES ASSUME NEW c \in Collector PROVE Has(smf', c) <=> Has(smf, c)
    OBVIOUS
  <2>1. ASSUME Has(smf', c) PROVE Has(smf, c)
    <3>1. PICK k \in 1 .. n - a + 1 : smf'[k] = c
      BY <1>9, <2>1 DEF Has
    <3> QED BY <1>11, <3>1 DEF Has, l
  <2>2. ASSUME Has(smf, c) PROVE Has(smf', c)
    <3>1. PICK m \in 1 .. l : smf[m] = c
      BY <2>2 DEF Has, l
    <3> DEFINE j == m + d - a + 1
    <3>2. j \in 1 .. n - a + 1 /\ smf'[j] = c
      BY <1>12, <3>1
    <3> HIDE DEF j
    <3> QED BY <1>9, <3>2 DEF Has
  <2> QED BY <2>1, <2>2
<1> QED BY <1>6, <1>9, <1>13, <1>14 DEF CircuitInv

(* One program runs, and a cycle of its own only where it runs it.         *)
AloneInv ==
  /\ pc # "off" => program = "chain"
  /\ spc # "none" => program = "script"
  /\ bpc # "none" => program = "arms"
  /\ program # "suite" => ~On /\ ended[1] = "none"

TickPlace ==
  spc = "tick" \/ (bpc \in {"seed", "show"} /\ left > 0) \/ (On /\ At("tick"))

TickHome == Has(smf, Tick) => TickPlace

ScriptInv == b \in Rate /\ target \in Rate /\ steps \in Nat

ArmsInv ==
  /\ left \in Nat
  /\ bpc \in {"none", "arm", "purge", "seed", "reset", "raise", "show", "judge", "last", "resume"}

MaskInv == masked \in Seq(Rate \cup {0})

ProgramInv == AloneInv /\ ScriptInv /\ ArmsInv /\ MaskInv /\ WaveInv /\ SuiteInv

HostInv == ambr \in Rate /\ faults \in Nat /\ CircuitInv /\ TickHome /\ ProgramInv

LEMMA HostInit == ASSUME Init PROVE HostInv
<1>1. CircuitInv /\ ambr \in Rate /\ faults \in Nat /\ ~Has(smf, Tick)
  <2>1. ambr \in Rate /\ faults = 0 /\ seen = [c \in Collector |-> None]
    BY DEF Init, InitCircuit
  <2>2. CASE smf = << >>
    <3>1. smf \in Seq(Values) /\ Len(smf) = 0
      BY <2>2
    <3> QED BY <2>1, <3>1, CircuitAssumption DEF CircuitInv, SlotsOnce, Has
  <2>3. ASSUME NEW r \in Rate, smf = <<r, r>> PROVE CircuitInv /\ ~Has(smf, Tick)
    <3>1. smf \in Seq(Values) /\ Len(smf) = 2 /\ smf[1] = r /\ smf[2] = r /\ r \notin Collector
      BY <2>3, ValuesApart DEF Values
    <3>2. \A k \in 1 .. Len(smf) : smf[k] \notin Collector
      BY <3>1
    <3> QED BY <2>1, <3>1, <3>2, CircuitAssumption, ValuesApart DEF CircuitInv, SlotsOnce, Has
  <2> QED BY <2>1, <2>2, <2>3 DEF Init, InitCircuit
<1>2. AloneInv /\ ScriptInv /\ ArmsInv /\ MaskInv
  <2>1. << >> \in Seq(Rate \cup {0})
    OBVIOUS
  <2> QED BY <2>1, ValuesApart DEF Init, InitCampaign, InitScript, InitArms, InitSuite, AloneInv,
             ScriptInv, ArmsInv, MaskInv, On, NoEnd
<1>3. WaveInv /\ SuiteInv
  BY DEF Init, InitWave, InitSuite, WaveInv, SuiteInv, On, NoEnd, Restores
<1> QED BY <1>1, <1>2, <1>3 DEF HostInv, ProgramInv, TickHome

(* The records stay, or only the slots of cycles under way do.             *)
LEMMA CircuitStays ==
  ASSUME CircuitInv, seen' = seen, smf' = smf \/ smf' = UnderWay
  PROVE  CircuitInv' /\ \A c : c \in Collector => (Has(smf', c) <=> Has(smf, c))
<1>1. CASE smf' = smf
  BY <1>1 DEF CircuitInv, Has, SlotsOnce
<1>2. CASE smf' = UnderWay
  BY <1>2, FlushStep
<1> QED BY <1>1, <1>2

(* A cycle of a program's own collector.                                   *)
LEMMA TickStep ==
  ASSUME CircuitInv, ambr \in Rate, faults \in Nat,
         \/ Stamp(Tick) \/ ReadSessions(Tick) \/ CycleFails(Tick) \/ Insert(Tick, FALSE) \/ Insert(Tick, TRUE)
  PROVE  /\ CircuitInv' /\ ambr' = ambr /\ daemon' = daemon /\ faults' \in {faults, faults + 1}
         /\ Stamp(Tick) \/ ReadSessions(Tick) \/ ~Has(smf', Tick)
<1>1. CASE Stamp(Tick)
  BY <1>1, ValuesApart, StampStep DEF Stamp
<1>2. CASE ReadSessions(Tick)
  BY <1>2, ValuesApart, ReadStep DEF ReadSessions, Fails
<1>3. CASE CycleFails(Tick) \/ Insert(Tick, TRUE)
  BY <1>3, ValuesApart, WithoutStep DEF CycleFails, Insert, Fails
<1>4. CASE Insert(Tick, FALSE)
  <2>1. /\ Running(Tick) /\ seen[Tick] # None /\ smf' = Inserted(Tick)
        /\ seen' = [seen EXCEPT ![Tick] = None] /\ UNCHANGED <<ambr, daemon, faults>>
    BY <1>4 DEF Insert
  <2> QED BY <2>1, ValuesApart, InsertStep
<1> QED BY <1>1, <1>2, <1>3, <1>4

LEMMA ProgramOff ==
  ASSUME ProgramInv, UNCHANGED <<suiteVars, program>>, program # "suite"
  PROVE  /\ (wpc' = wpc /\ ops' = ops /\ program # "wave") => WaveInv'
         /\ SuiteInv' /\ MaskInv' /\ ~On' /\ ended'[1] = "none"
<1>1. ~On /\ ended[1] = "none" /\ "none" \notin Restores
  BY DEF ProgramInv, AloneInv, Restores
<1>2. UNCHANGED <<suite, found, own, cooling, masked, ended, refused>>
  BY DEF suiteVars
<1>3. SuiteInv'
  BY <1>1, <1>2 DEF ProgramInv, SuiteInv, On
<1>4. ASSUME wpc' = wpc, ops' = ops, program # "wave" PROVE WaveInv'
  BY <1>1, <1>2, <1>4 DEF ProgramInv, WaveInv, On
<1> QED BY <1>1, <1>2, <1>3, <1>4 DEF ProgramInv, MaskInv, On

LEMMA WriteIsRate ==
  ASSUME ambr \in Rate, faults \in Nat, NEW r \in Rate, Write(r)
  PROVE  ambr' \in Rate /\ faults' \in Nat
BY DEF Write, Fails

LEMMA CampaignHost == ASSUME HostInv, Campaigns PROVE HostInv'
<1>0. /\ program = "chain" /\ program' = program /\ NextCampaign
      /\ UNCHANGED <<script, arms, waveVars, suiteVars>> /\ ambr \in Rate /\ faults \in Nat
      /\ Baseline \in Rate /\ TrialRate \subseteq Rate
  BY CampaignAssumption, CircuitAssumption DEF Campaigns, HostInv
<1>1. ambr' \in Rate /\ faults' \in Nat /\ seen' = seen /\ (smf' = smf \/ smf' = UnderWay)
  <2> USE <1>0 DEF circuit
  <2>1. CASE Launch \/ EndStage
    BY <2>1 DEF Launch, EndStage, EnsureCollector, Fails
  <2>2. CASE Check \/ PausedAtCell \/ Cached \/ BeginCell \/ BeginTrial \/ Save \/ Pause \/ Unpause
    BY <2>2 DEF Check, PausedAtCell, Cached, BeginCell, BeginTrial, Save, Pause, Unpause
  <2>3. CASE Reset
    BY <2>3, WriteIsRate DEF Reset
  <2>4. CASE Flush \/ TrialWrite \/ EndTrial \/ CrashCampaign
    BY <2>4 DEF Flush, TrialWrite, EndTrial, CrashCampaign, Fails
  <2> QED BY <2>1, <2>2, <2>3, <2>4 DEF NextCampaign, Advance
<1>2. UNCHANGED <<spc, arm, steps, b, target, bpc, cond, nth, left, wpc, wave, ops, suite>>
  BY <1>0 DEF script, arms, waveVars, suiteVars
<1>3. CircuitInv' /\ (Has(smf', Tick) <=> Has(smf, Tick))
  BY <1>1, CircuitStays, ValuesApart DEF HostInv
<1>4. TickHome'
  BY <1>2, <1>3 DEF HostInv, TickHome, TickPlace, On, At
<1>5. WaveInv' /\ SuiteInv' /\ MaskInv' /\ ~On' /\ ended'[1] = "none"
  BY <1>0, <1>2, ProgramOff DEF HostInv
<1>6. AloneInv' /\ ScriptInv' /\ ArmsInv'
  BY <1>0, <1>2, <1>5 DEF HostInv, ProgramInv, AloneInv, ScriptInv, ArmsInv
<1> QED BY <1>1, <1>3, <1>4, <1>5, <1>6 DEF HostInv, ProgramInv

LEMMA ScriptHost == ASSUME HostInv, Scripted PROVE HostInv'
<1>0. /\ program = "script" /\ program' = program /\ NextScript
      /\ UNCHANGED <<campaign, arms, waveVars, suiteVars>> /\ ambr \in Rate /\ faults \in Nat /\ CircuitInv
      /\ Baseline \in Rate /\ b \in Rate /\ target \in Rate /\ steps \in Nat
      /\ bpc = "none" /\ ~On /\ (Has(smf, Tick) => spc = "tick")
  BY CircuitAssumption DEF Scripted, HostInv, ProgramInv, AloneInv, ScriptInv, TickHome, TickPlace
<1>1. UNCHANGED <<pc, bpc, cond, nth, left, wpc, wave, ops, suite>>
  BY <1>0 DEF campaign, place, arms, waveVars, suiteVars
<1>2. Target \in Rate
  BY <1>0, ScriptAssumption DEF Target
<1> DEFINE Goal == /\ ambr' \in Rate /\ faults' \in Nat /\ CircuitInv' /\ (Has(smf', Tick) => spc' = "tick")
                   /\ b' \in Rate /\ target' \in Rate /\ steps' \in Nat
<1>3. ASSUME UNCHANGED <<smf, seen>>, ambr' \in Rate, faults' \in Nat, spc # "tick",
             b' \in Rate, target' \in Rate, steps' \in Nat
      PROVE  Goal
  BY <1>0, <1>3, CircuitStays, ValuesApart
<1>4. ASSUME StartScript PROVE Goal
  <2>1. faults' \in Nat
    BY <1>0, <1>4 DEF StartScript, EnsureCollector, Fails
  <2> QED BY <1>0, <1>3, <1>4, <2>1 DEF StartScript
<1>5. ASSUME StartSession PROVE Goal
  <2>1. ambr' \in Rate /\ faults' \in Nat
    BY <1>0, <1>5, WriteIsRate DEF StartSession
  <2> QED BY <1>0, <1>3, <1>5, <2>1 DEF StartSession
<1>6. ASSUME ScriptWrite PROVE Goal
  BY <1>0, <1>2, <1>3, <1>6 DEF ScriptWrite, Fails
<1>7. ASSUME ScriptTick PROVE Goal
  <2>0. \/ Stamp(Tick) \/ ReadSessions(Tick) \/ CycleFails(Tick)
        \/ Insert(Tick, FALSE) \/ Insert(Tick, TRUE)
    BY <1>7 DEF ScriptTick, Isolated
  <2>1. /\ CircuitInv' /\ ambr' = ambr /\ faults' \in Nat
        /\ b' = b /\ target' = target /\ steps' = steps
    <3>1. CircuitInv' /\ ambr' = ambr /\ faults' \in {faults, faults + 1}
      BY <1>0, <2>0, TickStep
    <3> QED BY <1>0, <1>7, <3>1 DEF ScriptTick
  <2>2. Has(smf', Tick) => spc' = "tick"
    <3>1. CASE (Stamp(Tick) \/ ReadSessions(Tick)) /\ UNCHANGED spc
      BY <1>7, <3>1 DEF ScriptTick
    <3>2. CASE Insert(Tick, Isolated) \/ CycleFails(Tick)
      <4>1. Insert(Tick, TRUE) \/ Insert(Tick, FALSE) \/ CycleFails(Tick)
        BY <3>2 DEF Isolated
      <4>2. ~(Stamp(Tick) \/ ReadSessions(Tick))
        BY <4>1 DEF Insert, CycleFails, ReadSessions, Stamp
      <4> QED BY <1>0, <4>1, <4>2, TickStep
    <3> QED BY <1>7, <3>1, <3>2 DEF ScriptTick
  <2> QED BY <1>0, <2>1, <2>2
<1>8. ASSUME ReadBack PROVE Goal
  BY <1>0, <1>3, <1>8 DEF ReadBack, circuit
<1>9. ASSUME EndScript PROVE Goal
  <2>1. ambr' \in Rate /\ faults' \in Nat
    BY <1>0, <1>9, WriteIsRate DEF EndScript
  <2> QED BY <1>0, <1>3, <1>9, <2>1 DEF EndScript
<1>10. ASSUME CrashScript PROVE Goal
  <2>1. CircuitInv' /\ ~Has(smf', Tick)
    BY <1>0, <1>10, WithoutStep, ValuesApart DEF CrashScript
  <2> QED BY <1>0, <1>10, <2>1 DEF CrashScript, Fails
<1> HIDE DEF Goal
<1>11. Goal
  BY <1>0, <1>4, <1>5, <1>6, <1>7, <1>8, <1>9, <1>10 DEF NextScript
<1>12. WaveInv' /\ SuiteInv' /\ MaskInv' /\ ~On' /\ ended'[1] = "none"
  BY <1>0, <1>1, ProgramOff DEF HostInv
<1>13. AloneInv' /\ ScriptInv' /\ ArmsInv' /\ TickHome'
  BY <1>0, <1>1, <1>11, <1>12 DEF HostInv, ProgramInv, AloneInv, ScriptInv, ArmsInv, TickHome, TickPlace, Goal
<1> QED BY <1>11, <1>12, <1>13 DEF HostInv, ProgramInv, Goal

LEMMA ArmsHost == ASSUME HostInv, Behavioural PROVE HostInv'
<1>0. /\ program = "arms" /\ program' = program /\ NextArms
      /\ UNCHANGED <<campaign, script, waveVars, suiteVars>> /\ ambr \in Rate /\ faults \in Nat /\ CircuitInv
      /\ Baseline \in Rate /\ Raised \in Rate /\ AgentRate \subseteq Rate
      /\ SeedCycles \in Nat /\ ShowCycles \in Nat
      /\ ArmsInv /\ spc = "none" /\ ~On
      /\ (Has(smf, Tick) => bpc \in {"seed", "show"} /\ left > 0)
  BY CircuitAssumption, ArmsAssumption
     DEF Behavioural, HostInv, ProgramInv, AloneInv, TickHome, TickPlace
<1>1. UNCHANGED <<pc, spc, arm, steps, b, target, wpc, wave, ops, suite>>
  BY <1>0 DEF campaign, place, script, waveVars, suiteVars
<1> DEFINE Goal == /\ ambr' \in Rate /\ faults' \in Nat /\ CircuitInv' /\ ArmsInv'
                   /\ (Has(smf', Tick) => bpc' \in {"seed", "show"} /\ left' > 0)
<1>2. ASSUME seen' = seen, smf' = smf \/ smf' = UnderWay, ambr' \in Rate, faults' \in Nat, ArmsInv',
             bpc \notin {"seed", "show"} \/ left = 0
      PROVE  Goal
  <2>1. ~Has(smf, Tick)
    BY <1>0, <1>2
  <2>2. CircuitInv' /\ ~Has(smf', Tick)
    BY <1>0, <1>2, <2>1, CircuitStays, ValuesApart
  <2> QED BY <1>2, <2>2
<1>3. ASSUME StartArms PROVE Goal
  <2>1. faults' \in Nat
    BY <1>0, <1>3 DEF StartArms, EnsureCollector, Fails
  <2> QED BY <1>0, <1>2, <1>3, <2>1 DEF StartArms, ArmsInv
<1>4. ASSUME PauseCollectors PROVE Goal
  <2>1. faults' \in Nat
    BY <1>0, <1>4 DEF PauseCollectors, Fails
  <2> QED BY <1>0, <1>2, <1>4, <2>1 DEF PauseCollectors, ArmsInv
<1>5. ASSUME Purge PROVE Goal
  BY <1>0, <1>2, <1>5 DEF Purge, ArmsInv, Fails
<1>6. ASSUME RunCycle PROVE Goal
  <2>0. \/ Stamp(Tick) \/ ReadSessions(Tick) \/ CycleFails(Tick)
        \/ Insert(Tick, FALSE) \/ Insert(Tick, TRUE)
    BY <1>6 DEF RunCycle, Clean
  <2>1. /\ CircuitInv' /\ ambr' = ambr /\ faults' \in {faults, faults + 1}
        /\ Stamp(Tick) \/ ReadSessions(Tick) \/ ~Has(smf', Tick)
    BY <1>0, <2>0, TickStep
  <2>2. ArmsInv' /\ bpc' = bpc /\ bpc \in {"seed", "show"} /\ left > 0
    BY <1>0, <1>6 DEF RunCycle, ArmsInv
  <2>3. left' = left \/ ~Has(smf', Tick)
    <3>1. CASE Stamp(Tick) \/ ReadSessions(Tick)
      BY <1>6, <3>1 DEF RunCycle, Insert, CycleFails, Stamp, ReadSessions
    <3> QED BY <2>1, <3>1
  <2> QED BY <1>0, <2>1, <2>2, <2>3
<1>7. ASSUME Seeded \/ BeginJudging PROVE Goal
  BY <1>0, <1>2, <1>7 DEF Seeded, BeginJudging, ArmsInv, circuit
<1>8. ASSUME ResetTrial \/ LastReset PROVE Goal
  <2>1. ambr' \in Rate /\ faults' \in Nat
    BY <1>0, <1>8, WriteIsRate DEF ResetTrial, LastReset
  <2> QED BY <1>0, <1>2, <1>8, <2>1 DEF ResetTrial, LastReset, ArmsInv
<1>9. ASSUME RaiseTarget PROVE Goal
  <2>1. ambr' \in Rate /\ faults' \in Nat
    BY <1>0, <1>9, WriteIsRate DEF RaiseTarget
  <2> QED BY <1>0, <1>2, <1>9, <2>1 DEF RaiseTarget, ArmsInv
<1>10. ASSUME AgentWrite PROVE Goal
  BY <1>0, <1>2, <1>10 DEF AgentWrite, ArmsInv
<1>11. ASSUME EndTrialOfArm PROVE Goal
  BY <1>0, <1>2, <1>11 DEF EndTrialOfArm, ArmsInv, circuit
<1>12. ASSUME ResumeCollectors PROVE Goal
  BY <1>0, <1>2, <1>12 DEF ResumeCollectors, ArmsInv
<1>13. ASSUME TrialRaises PROVE Goal
  BY <1>0, <1>2, <1>13 DEF TrialRaises, ArmsInv, Fails
<1>14. ASSUME KillArms PROVE Goal
  <2>1. CircuitInv' /\ ~Has(smf', Tick)
    BY <1>0, <1>14, WithoutStep, ValuesApart DEF KillArms
  <2> QED BY <1>0, <1>14, <2>1 DEF KillArms, Fails, ArmsInv
<1> HIDE DEF Goal
<1>15. Goal
  BY <1>0, <1>3, <1>4, <1>5, <1>6, <1>7, <1>8, <1>9, <1>10, <1>11, <1>12, <1>13, <1>14 DEF NextArms
<1>16. WaveInv' /\ SuiteInv' /\ MaskInv' /\ ~On' /\ ended'[1] = "none"
  BY <1>0, <1>1, ProgramOff DEF HostInv
<1>17. AloneInv' /\ ScriptInv' /\ TickHome'
  BY <1>0, <1>1, <1>15, <1>16 DEF HostInv, ProgramInv, AloneInv, ScriptInv, TickHome, TickPlace, Goal
<1> QED BY <1>15, <1>16, <1>17 DEF HostInv, ProgramInv, Goal

(* Records are deleted by a wave or a suite.                               *)
LEMMA DeleteStep ==
  ASSUME CircuitInv, faults \in Nat, DeleteRecords
  PROVE  CircuitInv' /\ faults' \in Nat /\ \A c \in Collector : Has(smf', c) <=> Has(smf, c)
<1>0. seen' = seen
  BY DEF DeleteRecords
<1>1. CASE Fails("mongo") /\ UNCHANGED smf
  BY <1>0, <1>1, CircuitStays DEF Fails
<1>2. CASE faults' = faults /\ \E n \in IF At("trim") THEN 0 .. Len(smf) ELSE {Len(smf)} :
             smf' = Part(smf, {k \in DOMAIN smf : k > n \/ smf[k] \in Collector})
  <2>1. PICK n : smf' = Part(smf, {k \in DOMAIN smf : k > n \/ smf[k] \in Collector})
    BY <1>2
  <2> DEFINE I == {k \in DOMAIN smf : k > n \/ smf[k] \in Collector}
  <2>2. \A k \in 1 .. Len(smf) : smf[k] \in Collector => k \in I
    BY LenProperties DEF CircuitInv
  <2>3. smf' = Part(smf, I)
    BY <2>1
  <2> HIDE DEF I
  <2>4. CircuitInv' /\ \A c \in Collector : Has(smf', c) <=> Has(smf, c)
    BY <1>0, <2>2, <2>3, PurgeStep
  <2> QED BY <1>2, <2>4
<1> QED BY <1>1, <1>2 DEF DeleteRecords

LEMMA WaveHost == ASSUME HostInv, Wave PROVE HostInv'
<1>0. /\ program = "wave" /\ program' = program /\ NextWave
      /\ UNCHANGED <<campaign, script, arms, suiteVars>> /\ ambr \in Rate /\ faults \in Nat /\ CircuitInv
      /\ spc = "none" /\ bpc = "none" /\ ~On /\ ~Has(smf, Tick) /\ WaveInv
  BY DEF Wave, HostInv, ProgramInv, AloneInv, TickHome, TickPlace
<1>1. UNCHANGED <<pc, spc, arm, steps, b, target, bpc, cond, nth, left, suite>>
  BY <1>0 DEF campaign, place, script, arms, suiteVars
<1>2. WaveInv' /\ ambr' \in Rate
  BY <1>0, WaveStep
<1>3. CircuitInv' /\ ~Has(smf', Tick) /\ faults' \in Nat
  <2>1. CASE DeleteRecords
    BY <1>0, <2>1, DeleteStep, ValuesApart
  <2>2. CASE smf' = smf /\ seen' = seen /\ faults' \in Nat
    BY <1>0, <2>2, CircuitStays, ValuesApart
  <2>3. ASSUME LaunchWave PROVE smf' = smf /\ seen' = seen /\ faults' \in Nat
    BY <1>0, <2>3 DEF LaunchWave, EnsureCollector, Fails
  <2>4. ASSUME SetRate("reset", Baseline) \/ SetRate("congest", Congested) \/ ProbeWrite
        PROVE  smf' = smf /\ seen' = seen /\ faults' \in Nat
    BY <1>0, <2>4 DEF SetRate, ProbeWrite, Write, Fails
  <2>5. ASSUME NextTrial \/ Poll \/ SessionWrite \/ EndOfSession \/ WaitOver
        PROVE  smf' = smf /\ seen' = seen /\ faults' \in Nat
    BY <1>0, <2>5 DEF NextTrial, Poll, SessionWrite, EndOfSession, WaitOver, circuit
  <2>6. ASSUME TrialRaisesInWave \/ KillWave \/ WaveEnded
        PROVE  smf' = smf /\ seen' = seen /\ faults' \in Nat
    BY <1>0, <2>6 DEF TrialRaisesInWave, KillWave, WaveEnded, Fails, circuit
  <2> QED BY <1>0, <2>1, <2>2, <2>3, <2>4, <2>5, <2>6 DEF NextWave
<1>4. SuiteInv' /\ MaskInv' /\ ~On' /\ ended'[1] = "none"
  BY <1>0, ProgramOff DEF HostInv
<1>5. AloneInv' /\ ScriptInv' /\ ArmsInv' /\ TickHome'
  BY <1>0, <1>1, <1>3, <1>4
     DEF HostInv, ProgramInv, AloneInv, ScriptInv, ArmsInv, TickHome, TickPlace
<1> QED BY <1>2, <1>3, <1>4, <1>5 DEF HostInv, ProgramInv

LEMMA SuiteHost == ASSUME HostInv, Suite PROVE HostInv'
<1>0. /\ program = "suite" /\ program' = program /\ NextSuite
      /\ UNCHANGED <<campaign, script, arms>> /\ ambr \in Rate /\ faults \in Nat /\ CircuitInv
      /\ spc = "none" /\ bpc = "none" /\ (Has(smf, Tick) => On /\ At("tick")) /\ SuiteInv
      /\ MaskInv /\ (~On => ops = << >>)
  BY DEF Suite, HostInv, ProgramInv, AloneInv, TickHome, TickPlace, SuiteInv
<1>1. UNCHANGED <<pc, spc, arm, steps, b, target, bpc, cond, nth, left>>
  BY <1>0 DEF campaign, place, script, arms
<1>2. SuiteInv' /\ ambr' \in Rate
  BY <1>0, SuiteStep
<1> DEFINE Goal == /\ CircuitInv' /\ faults' \in Nat /\ MaskInv' /\ wpc' = wpc
                   /\ (Has(smf', Tick) => On' /\ At("tick")')
<1>3. ASSUME seen' = seen, smf' = smf, faults' \in Nat, wpc' = wpc, masked' = masked \/ masked' = << >>,
             ~At("tick")
      PROVE  Goal
  <2>1. MaskInv'
    BY <1>0, <1>3, EmptySeq DEF MaskInv
  <2> QED BY <1>0, <1>3, <2>1, CircuitStays, ValuesApart
<1>4. ASSUME LaunchSuite PROVE Goal
  <2>1. faults' \in Nat
    BY <1>0, <1>4 DEF LaunchSuite, EnsureCollector, Fails
  <2> QED BY <1>0, <1>3, <1>4, <2>1 DEF LaunchSuite, At
<1>5. ASSUME Find \/ Keep PROVE Goal
  BY <1>0, <1>3, <1>5 DEF Find, Keep, Goes, At, circuit
<1>6. ASSUME NEW op \in {"base", "put", "raise", "leap", "step", "probe", "restore", "reset", "climb"},
             NEW r, Apply(op, r)
      PROVE  Goal
  BY <1>0, <1>3, <1>6 DEF Apply, Goes, At, Write, Fails
<1>7. ASSUME SuiteWrite PROVE Goal
  BY <1>6, <1>7 DEF SuiteWrite
<1>8. ASSUME Compare \/ Sweep \/ Judge \/ Observe PROVE Goal
  BY <1>0, <1>3, <1>8 DEF Compare, Sweep, Judge, Observe, Goes, At, circuit, suiteVars
<1>9. ASSUME Sleep PROVE Goal
  BY <1>0, <1>3, <1>9 DEF Sleep, WaitOver, Goes, At, circuit
<1>10. ASSUME SuiteTick PROVE Goal
  <2>0. Stamp(Tick) \/ ReadSessions(Tick) \/ CycleFails(Tick) \/ Insert(Tick, FALSE)
    BY <1>10 DEF SuiteTick
  <2>1. /\ CircuitInv' /\ faults' \in {faults, faults + 1}
        /\ Stamp(Tick) \/ ReadSessions(Tick) \/ ~Has(smf', Tick)
    BY <1>0, <2>0, TickStep
  <2>2. wpc' = wpc /\ suite' = suite /\ masked' = masked /\ On /\ At("tick")
    BY <1>10 DEF SuiteTick, Goes, suiteVars
  <2>3. CASE Stamp(Tick) \/ ReadSessions(Tick)
    <3>1. ops' = ops
      BY <1>10, <2>3 DEF SuiteTick, Insert, CycleFails, Stamp, ReadSessions
    <3>2. MaskInv'
      BY <1>0, <2>2 DEF MaskInv
    <3> QED BY <1>0, <2>1, <2>2, <3>1, <3>2 DEF On, At
  <2>4. CASE ~Has(smf', Tick)
    <3>1. MaskInv'
      BY <1>0, <2>2 DEF MaskInv
    <3> QED BY <1>0, <2>1, <2>2, <2>4, <3>1
  <2> QED BY <2>1, <2>3, <2>4
<1>11. ASSUME Purges PROVE Goal
  <2>1. MaskInv' /\ wpc' = wpc /\ ~At("tick")
    BY <1>0, <1>11 DEF Purges, DeleteRecords, MaskInv, Goes, At, suiteVars
  <2> QED BY <1>0, <1>11, <2>1, DeleteStep, ValuesApart DEF Purges
<1>12. ASSUME Mask PROVE Goal
  <2>1. masked' = Records /\ smf' = UnderWay /\ seen' = seen /\ faults' = faults /\ wpc' = wpc /\ ~At("tick")
    BY <1>12 DEF Mask, Goes, At
  <2>2. MaskInv'
    BY <1>0, <2>1, RecordsAre DEF MaskInv
  <2> QED BY <1>0, <2>1, <2>2, CircuitStays, ValuesApart
<1>13. ASSUME Unmask PROVE Goal
  <2>1. /\ masked' = << >> /\ seen' = seen /\ faults' = faults /\ wpc' = wpc /\ ~At("tick")
        /\ smf' = LET s == masked \o smf IN SubSeq(s, Max({1, Len(s) - MaxRecords + 1}), Len(s))
        /\ masked \in Seq(Rate \cup {0})
    BY <1>0, <1>13 DEF Unmask, Goes, At, MaskInv
  <2>2. CircuitInv' /\ \A c \in Collector : Has(smf', c) <=> Has(smf, c)
    BY <1>0, <2>1, UnmaskStep
  <2> QED BY <1>0, <2>1, <2>2, ValuesApart, EmptySeq DEF MaskInv
<1>14. ASSUME SuiteSession PROVE Goal
  BY <1>0, <1>3, <1>14 DEF SuiteSession, SessionWrite, EndOfSession, Goes, At, circuit
<1>15. ASSUME SuiteOver PROVE Goal
  BY <1>0, <1>3, <1>15 DEF SuiteOver, Leave, At, circuit
<1>16. ASSUME SessionRaises PROVE Goal
  BY <1>0, <1>3, <1>16 DEF SessionRaises, Goes, At, Fails, suiteVars
<1>17. ASSUME StoreRaises PROVE Goal
  BY <1>0, <1>3, <1>17 DEF StoreRaises, Leave, At, Fails
<1>18. ASSUME KillSuite PROVE Goal
  <2>1. CircuitInv' /\ ~Has(smf', Tick)
    BY <1>0, <1>18, WithoutStep, ValuesApart DEF KillSuite
  <2> QED BY <1>0, <1>18, <2>1 DEF KillSuite, Leave, Fails, MaskInv
<1> HIDE DEF Goal
<1>19. Goal
  BY <1>0, <1>4, <1>5, <1>7, <1>8, <1>9, <1>10, <1>11, <1>12, <1>13, <1>14, <1>15, <1>16, <1>17, <1>18
     DEF NextSuite
<1>20. WaveInv'
  <2>1. wpc # "on" /\ wpc' = wpc
    BY <1>0, <1>19 DEF HostInv, ProgramInv, WaveInv, Goal
  <2>2. ops' # << >> => On'
    BY <1>0, <1>2 DEF SuiteInv
  <2> QED BY <2>1, <2>2 DEF WaveInv
<1>21. AloneInv' /\ ScriptInv' /\ ArmsInv' /\ TickHome'
  BY <1>0, <1>1, <1>19
     DEF HostInv, ProgramInv, AloneInv, ScriptInv, ArmsInv, TickHome, TickPlace, Goal
<1> QED BY <1>2, <1>19, <1>20, <1>21 DEF HostInv, ProgramInv, Goal

LEMMA CollectsHost == ASSUME HostInv, Collects PROVE HostInv'
<1>0. /\ (DaemonCycle \/ KillDaemon) /\ Elapses /\ UNCHANGED <<campaign, script, arms, suiteVars, program>>
      /\ ambr \in Rate /\ faults \in Nat /\ CircuitInv
  BY DEF Collects, HostInv
<1>1. CircuitInv' /\ ambr' = ambr /\ faults' \in {faults, faults + 1} /\ (Has(smf', Tick) <=> Has(smf, Tick))
  BY <1>0, DaemonStep
<1>2. /\ UNCHANGED <<pc, spc, arm, steps, b, target, bpc, cond, nth, left>>
      /\ UNCHANGED <<suite, found, own, cooling, masked, ended, refused, wpc, wave, ops, program>>
      /\ calm = "unset" => calm' = "unset"
  BY <1>0 DEF campaign, place, script, arms, suiteVars, Elapses
<1>3. TickHome' /\ AloneInv' /\ ScriptInv' /\ ArmsInv' /\ MaskInv'
  BY <1>1, <1>2 DEF HostInv, ProgramInv, TickHome, TickPlace, AloneInv, ScriptInv, ArmsInv, MaskInv, On, At
<1>4. WaveInv'
  <2>1. \A name : AtStart(name) => AtStart(name)'
    BY <1>1, <1>2 DEF AtStart
  <2> QED BY <1>2, <2>1 DEF HostInv, ProgramInv, WaveInv, On
<1>5. SuiteInv'
  <2>1. \A a : Holds(a) => Holds(a)'
    BY <1>1, <1>2 DEF Holds
  <2> QED BY <1>1, <1>2, <2>1 DEF HostInv, ProgramInv, SuiteInv, On
<1> QED BY <1>0, <1>1, <1>3, <1>4, <1>5 DEF HostInv, ProgramInv

LEMMA HostStep == ASSUME HostInv, [Next]_vars PROVE HostInv'
<1>1. CASE Next
  BY <1>1, CollectsHost, CampaignHost, ScriptHost, ArmsHost, WaveHost, SuiteHost DEF Next
<1>2. CASE UNCHANGED vars
  <2>1. UNCHANGED <<circuit, campaign, script, arms, waveVars, suiteVars, program>>
    BY <1>2 DEF vars
  <2>2. /\ UNCHANGED <<ambr, smf, seen, daemon, faults, pc, spc, arm, steps, b, target, bpc, cond, nth, left>>
        /\ UNCHANGED <<suite, found, own, cooling, masked, ended, refused, wpc, wave, ops, program, calm>>
    BY <2>1 DEF circuit, campaign, place, script, arms, waveVars, suiteVars
  <2>3. CircuitInv' /\ (Has(smf', Tick) <=> Has(smf, Tick))
    BY <2>2, CircuitStays, ValuesApart DEF HostInv
  <2>4. TickHome' /\ AloneInv' /\ ScriptInv' /\ ArmsInv' /\ MaskInv'
    BY <2>2, <2>3 DEF HostInv, ProgramInv, TickHome, TickPlace, AloneInv, ScriptInv, ArmsInv, MaskInv, On, At
  <2>5. WaveInv'
    <3>1. \A name : AtStart(name) => AtStart(name)'
      BY <2>2 DEF AtStart
    <3> QED BY <2>2, <3>1 DEF HostInv, ProgramInv, WaveInv, On
  <2>6. SuiteInv'
    <3>1. \A a : Holds(a) => Holds(a)'
      BY <2>2 DEF Holds
    <3> QED BY <2>2, <3>1 DEF HostInv, ProgramInv, SuiteInv, On
  <2> QED BY <2>2, <2>3, <2>4, <2>5, <2>6 DEF HostInv, ProgramInv
<1> QED BY <1>1, <1>2

(* Whatever program runs beside the daemon and whatever fails: what is     *)
(* stored are rates, a cycle under way has one place among the records, a  *)
(* program runs cycles of its own only where it waits for them, and what a *)
(* wave or a suite knows at its next operation is true.                    *)
THEOREM HostAlways == Spec => []HostInv
BY HostInit, HostStep, PTL DEF Spec

(***************************************************************************)
(* What the invariant says of gates and stages.                            *)
(***************************************************************************)
(* What a suite needs at its next operation holds.                         *)
LEMMA SuiteKnows ==
  ASSUME HostInv, On, ops # << >>
  PROVE  Head(ops) \in SuiteOp /\ \E a : Holds(a) /\ Needs(suite, a, Head(ops))
<1>1. PICK a, e : Holds(a) /\ Runs(suite, ops, a, e)
  BY DEF HostInv, ProgramInv, SuiteInv
<1> QED BY <1>1, NextOperation

LEMMA WaveKnows ==
  ASSUME HostInv, wpc = "on", ops # << >>
  PROVE  /\ Head(ops) \in WaveOp
         /\ Head(ops) = "agent" /\ Head(wave) # "gates" => AtStart(Head(wave))
<1>1. PICK a \in {"start", "any"} :
        (a = "start" => AtStart(Head(wave))) /\ WaveRuns(Head(wave), ops, a, Between(Head(wave)))
  BY DEF HostInv, ProgramInv, WaveInv
<1> DEFINE step == Head(wave)
<1> HIDE DEF step
<1>2. /\ Head(ops) \in WaveOp
      /\ \E c \in {"start", "any"} : <<a, Head(ops), c>> \in WaveMoves(step)
  BY <1>1, WaveOperation DEF step
<1>3. Head(ops) = "agent" /\ step # "gates" => a = "start"
  BY <1>2 DEF WaveMoves
<1> QED BY <1>1, <1>2, <1>3 DEF step

LEMMA GatesHold == ASSUME HostInv PROVE GateJudgesRates
<1> SUFFICES ASSUME At("sweep") \/ At("judge") \/ At("check") PROVE ~cooling
  BY DEF GateJudgesRates
<1>1. ops # << >> /\ Head(ops) \in {"sweep", "judge", "check"}
  BY DEF At
<1>2. Head(ops) \notin WaveOp
  BY <1>1 DEF WaveOp
<1>3. On
  BY <1>1, <1>2, WaveKnows DEF HostInv, ProgramInv, WaveInv
<1>4. PICK a : Holds(a) /\ Needs(suite, a, Head(ops))
  BY <1>1, <1>3, SuiteKnows
<1> QED BY <1>1, <1>4 DEF Needs, Holds

LEMMA GivenBack == ASSUME HostInv PROVE RateGivenBack
BY DEF HostInv, ProgramInv, SuiteInv, Restores, RateGivenBack

LEMMA StagesAlike == ASSUME HostInv PROVE StagesStartAlike
<1> SUFFICES ASSUME On, ~refused
             PROVE  /\ At("agent") => ambr = IF suite = "cross_1" THEN Grown(Baseline, Small) ELSE Baseline
                    /\ At("keep") /\ suite \in {"v4", "all_v4", "v4_llm"} => ambr = Baseline
  BY DEF StagesStartAlike
<1>1. ASSUME ops # << >> PROVE \E a : Holds(a) /\ Needs(suite, a, Head(ops))
  BY <1>1, SuiteKnows
<1>2. ASSUME At("agent") PROVE ambr = IF suite = "cross_1" THEN Grown(Baseline, Small) ELSE Baseline
  <2>1. PICK a : Holds(a) /\ Needs(suite, a, "agent")
    BY <1>1, <1>2 DEF At
  <2>2. a.rate = IF suite = "cross_1" THEN "grown" ELSE "base"
    BY <2>1 DEF Needs
  <2> QED BY <2>1, <2>2 DEF Holds
<1>3. ASSUME At("keep"), suite \in {"v4", "all_v4", "v4_llm"} PROVE ambr = Baseline
  <2>1. PICK a : Holds(a) /\ Needs(suite, a, "keep")
    BY <1>1, <1>3 DEF At
  <2>2. a.rate = "base"
    BY <1>3, <2>1 DEF Needs
  <2> QED BY <2>1, <2>2 DEF Holds
<1> QED BY <1>2, <1>3

(* The feasibility checker is only asked, in any of the suites, when its   *)
(* cooldown is over: no answer that is reported is one of the cooldown.    *)
THEOREM GateAlwaysJudgesRates == Spec => []GateJudgesRates
BY HostAlways, GatesHold, PTL

(* A script of experiments_suite_v2 that ends with no write refused leaves *)
(* the rate it found, whichever way its sweeps and judgements went.        *)
THEOREM RateAlwaysGivenBack == Spec => []RateGivenBack
BY HostAlways, GivenBack, PTL

(* The stages of a decomposition and the sessions of a suite start at the  *)
(* baseline, or at a step above it in the first cross experiment, whatever *)
(* earlier ones wrote.                                                     *)
THEOREM StagesAlwaysStartAlike == Spec => []StagesStartAlike
BY HostAlways, StagesAlike, PTL

(***************************************************************************)
(* The chain of campaigns: the rows of a stage.                            *)
(***************************************************************************)
Working == {"reset", "flush", "settle", "trial", "after", "save"}

Rows == [cell : Cell, serial : Nat, error : BOOLEAN]

KeyAt(j) == [cell |-> Cells[j], rep |-> Cardinality({k \in 1 .. j - 1 : Cells[k] = Cells[j]})]

(* The place of the campaign.                                              *)
PlaceInv ==
  /\ pc \in Places /\ stage \in 1 .. Len(Chain) /\ i \in 1 .. Len(Cells) + 1
  /\ serial \in Nat /\ error \in BOOLEAN
  /\ pc \in Working => i \in 1 .. Len(Cells)

(* The files that parse: each holds the row of its own cell, from a trial  *)
(* of its own, and none that of the trial under way.                       *)
CkptInv ==
  /\ \A key \in DOMAIN ckpt : ckpt[key] # Torn =>
       ckpt[key] \in Rows /\ ckpt[key].cell = key.cell /\ ckpt[key].serial \in 1 .. serial
  /\ \A key, other \in DOMAIN ckpt :
       /\ ckpt[key] # Torn /\ ckpt[other] # Torn
       /\ ckpt[key].serial = ckpt[other].serial
       => key = other
  /\ pc \in {"trial", "after", "save"} =>
       /\ serial > 0
       /\ \A key \in DOMAIN ckpt : ckpt[key] # Torn => ckpt[key].serial # serial

(* The rows of the stage are what its files hold, cell by cell.            *)
RowsInv ==
  /\ results \in Seq(Rows) /\ Len(results) = i - 1
  /\ \A j \in 1 .. Len(results) :
       KeyAt(j) \in DOMAIN ckpt /\ ckpt[KeyAt(j)] # Torn /\ results[j] = ckpt[KeyAt(j)]

ChainInv == PlaceInv /\ CkptInv /\ RowsInv

LEMMA ChainLists ==
  /\ Len(Chain) \in Nat \ {0} /\ DOMAIN Chain = 1 .. Len(Chain)
  /\ \A s \in 1 .. Len(Chain) :
       /\ Chain[s] \in Seq(Cell) /\ Len(Chain[s]) \in Nat
       /\ DOMAIN Chain[s] = 1 .. Len(Chain[s])
       /\ \A j \in 1 .. Len(Chain[s]) : Chain[s][j] \in Cell
<1>1. Chain \in Seq(Seq(Cell)) /\ Chain # << >>
  BY CampaignAssumption
<1>2. Len(Chain) \in Nat \ {0} /\ DOMAIN Chain = 1 .. Len(Chain)
  BY <1>1, EmptySeq, LenProperties
<1>3. \A s \in 1 .. Len(Chain) : Chain[s] \in Seq(Cell)
  BY <1>1, ElementOfSeq
<1> QED BY <1>2, <1>3, ElementOfSeq, LenProperties

(* Repeats of one cell have different keys.                                *)
LEMMA KeysDiffer ==
  ASSUME stage \in 1 .. Len(Chain), NEW j \in Nat, NEW k \in Nat, 0 < j, j < k,
         k <= Len(Cells)
  PROVE  KeyAt(j) # KeyAt(k)
<1> SUFFICES ASSUME KeyAt(j) = KeyAt(k) PROVE FALSE
  OBVIOUS
<1> DEFINE Before(n) == {m \in 1 .. n - 1 : Cells[m] = Cells[j]}
<1>1. Cells[j] = Cells[k] /\ Cardinality(Before(j)) = Cardinality(Before(k))
  BY DEF KeyAt
<1>2. Before(j) \subseteq Before(k) /\ j \in Before(k) /\ j \notin Before(j)
  OBVIOUS
<1>3. IsFiniteSet(Before(k))
  <2>1. IsFiniteSet(1 .. k - 1)
    BY FS_Interval
  <2>2. Before(k) \subseteq 1 .. k - 1
    OBVIOUS
  <2> HIDE DEF Before
  <2> QED BY <2>1, <2>2, FS_Subset
<1> HIDE DEF Before
<1>4. Before(j) # Before(k)
  BY <1>2
<1> QED BY <1>1, <1>2, <1>3, <1>4, FS_Subset

LEMMA RowsAreOwn == ChainInv => ResultsAreOwn
<1> SUFFICES ASSUME ChainInv, NEW j \in DOMAIN results
             PROVE  /\ results[j].cell = Cells[j]
                    /\ \A k \in DOMAIN results : results[k].serial = results[j].serial => k = j
  BY DEF ResultsAreOwn
<1>0. /\ DOMAIN results = 1 .. Len(results) /\ Len(results) \in Nat
      /\ i \in Int /\ i <= Len(Cells) + 1 /\ Len(results) = i - 1 /\ Len(Cells) \in Nat
  BY ChainLists, LenProperties DEF ChainInv, PlaceInv, RowsInv, Cells
<1>1. \A k \in 1 .. Len(results) : /\ k \in Nat /\ 0 < k /\ k <= Len(Cells)
                                   /\ KeyAt(k) \in DOMAIN ckpt /\ ckpt[KeyAt(k)] # Torn
                                   /\ results[k] = ckpt[KeyAt(k)]
  BY <1>0 DEF ChainInv, RowsInv
<1>2. results[j].cell = Cells[j]
  BY <1>0, <1>1 DEF ChainInv, CkptInv, KeyAt
<1>3. ASSUME NEW k \in DOMAIN results, results[k].serial = results[j].serial, k # j
      PROVE  FALSE
  <2>1. KeyAt(j) = KeyAt(k)
    BY <1>0, <1>1, <1>3 DEF ChainInv, CkptInv
  <2>2. stage \in 1 .. Len(Chain)
    BY DEF ChainInv, PlaceInv
  <2>3. CASE j < k
    BY <1>0, <1>1, <2>1, <2>2, <2>3, KeysDiffer
  <2>4. CASE k < j
    BY <1>0, <1>1, <2>1, <2>2, <2>4, KeysDiffer
  <2> QED BY <1>0, <1>3, <2>3, <2>4
<1> QED BY <1>2, <1>3

LEMMA ChainInit == Init => ChainInv
<1> SUFFICES ASSUME Init PROVE ChainInv
  OBVIOUS
<1> USE DEF Init, InitCampaign
<1>1. PlaceInv
  <2>1. 1 \in 1 .. Len(Chain) /\ Len(Chain[1]) \in Nat
    BY ChainLists
  <2>2. i \in 1 .. Len(Cells) + 1
    BY <2>1 DEF Cells
  <2> QED BY <2>1, <2>2 DEF PlaceInv, Places, Working
<1>2. DOMAIN ckpt = {} /\ Len(results) = 0 /\ results \in Seq(Rows)
  BY EmptySeq
<1> QED BY <1>1, <1>2 DEF ChainInv, CkptInv, RowsInv

(* A step inside a stage that touches neither rows nor files.              *)
LEMMA StageGoesOn ==
  ASSUME ChainInv, UNCHANGED <<stage, i, ckpt, results>>,
         pc' \in Places, pc' \in Working => i \in 1 .. Len(Cells), error' \in BOOLEAN,
         \/ serial' = serial /\ (pc' \in {"trial", "after", "save"} => pc \in {"trial", "after", "save"})
         \/ serial' = serial + 1
  PROVE  ChainInv'
<1> USE DEF ChainInv
<1>0. Cells' = Cells /\ serial \in Nat /\ serial' \in Nat /\ serial <= serial'
  BY DEF Cells, PlaceInv
<1>1. PlaceInv'
  BY <1>0 DEF PlaceInv
<1>2. CkptInv'
  <2>1. ASSUME NEW key \in DOMAIN ckpt, ckpt[key] # Torn
        PROVE  /\ ckpt[key] \in Rows /\ ckpt[key].cell = key.cell /\ ckpt[key].serial \in 1 .. serial'
               /\ serial' = serial + 1 => ckpt[key].serial # serial'
    <3>1. ckpt[key] \in Rows /\ ckpt[key].cell = key.cell /\ ckpt[key].serial \in 1 .. serial
      BY <2>1 DEF CkptInv
    <3> QED BY <1>0, <3>1
  <2> QED BY <1>0, <2>1 DEF CkptInv
<1>3. RowsInv'
  <2>1. \A j : KeyAt(j)' = KeyAt(j)
    BY <1>0 DEF KeyAt
  <2> QED BY <2>1 DEF RowsInv
<1> QED BY <1>1, <1>2, <1>3

(* The campaign ends; files may have been lost.                            *)
LEMMA CampaignEnds ==
  ASSUME ChainInv, Exit, serial' = serial,
         \A key \in DOMAIN ckpt' : ckpt'[key] # Torn => key \in DOMAIN ckpt /\ ckpt[key] = ckpt'[key]
  PROVE  ChainInv'
<1>1. pc' = "off" /\ stage' = 1 /\ i' = 1 /\ results' = << >> /\ error' = FALSE
  BY DEF Exit, Rest
<1>2. PlaceInv'
  <2>1. 1 \in 1 .. Len(Chain) /\ Len(Chain[1]) \in Nat
    BY ChainLists
  <2>2. (i \in 1 .. Len(Cells) + 1)'
    BY <1>1, <2>1 DEF Cells
  <2> QED BY <1>1, <2>1, <2>2 DEF PlaceInv, Places, Working, ChainInv
<1>3. CkptInv'
  BY <1>1 DEF CkptInv, ChainInv
<1>4. RowsInv'
  <2>1. Len(results') = 0 /\ results' \in Seq(Rows)
    BY <1>1, EmptySeq
  <2> QED BY <1>1, <2>1 DEF RowsInv
<1> QED BY <1>2, <1>3, <1>4 DEF ChainInv

(* One row more.                                                           *)
LEMMA RowAdded ==
  ASSUME ChainInv, i \in 1 .. Len(Cells), NEW row \in Rows,
         results' = Append(results, row), i' = i + 1, stage' = stage,
         Key \in DOMAIN ckpt', ckpt'[Key] = row, row # Torn,
         \A key \in DOMAIN ckpt : key # Key => key \in DOMAIN ckpt' /\ ckpt'[key] = ckpt[key]
  PROVE  RowsInv'
<1>0. /\ results \in Seq(Rows) /\ Len(results) = i - 1 /\ i \in Nat /\ Len(Cells) \in Nat
      /\ Cells' = Cells /\ stage \in 1 .. Len(Chain)
  BY ChainLists DEF ChainInv, RowsInv, PlaceInv, Cells
<1>1. /\ results' \in Seq(Rows) /\ Len(results') = i /\ results'[i] = row
      /\ \A j \in 1 .. i - 1 : results'[j] = results[j]
  BY <1>0, AppendProperties
<1>2. \A j : KeyAt(j)' = KeyAt(j)
  BY <1>0 DEF KeyAt
<1>3. KeyAt(i) = Key
  BY DEF KeyAt, Key
<1>4. ASSUME NEW j \in 1 .. i
      PROVE  KeyAt(j) \in DOMAIN ckpt' /\ ckpt'[KeyAt(j)] # Torn /\ results'[j] = ckpt'[KeyAt(j)]
  <2>1. CASE j = i
    BY <1>1, <1>3, <2>1
  <2>2. CASE j # i
    <3>1. j \in 1 .. i - 1 /\ j \in Nat /\ 0 < j /\ j < i /\ i <= Len(Cells)
      BY <1>0, <2>2
    <3>2. KeyAt(j) # Key
      BY <1>0, <1>3, <3>1, KeysDiffer
    <3>3. KeyAt(j) \in DOMAIN ckpt /\ ckpt[KeyAt(j)] # Torn /\ results[j] = ckpt[KeyAt(j)]
      BY <1>0, <3>1 DEF ChainInv, RowsInv
    <3> QED BY <1>1, <3>1, <3>2, <3>3
  <2> QED BY <2>1, <2>2
<1> QED BY <1>0, <1>1, <1>2, <1>4 DEF RowsInv

LEMMA CachedRows == ASSUME ChainInv, Cached PROVE ChainInv'
<1>0. /\ pc = "next" /\ i <= Len(Cells) /\ i' = i + 1 /\ results' = Append(results, ckpt[Key])
      /\ Key \in DOMAIN ckpt /\ ckpt[Key] # Torn
      /\ UNCHANGED <<pc, stage, ckpt, serial, error>>
  BY DEF Cached, AtCell, Good, trial
<1>1. i \in 1 .. Len(Cells) /\ ckpt[Key] \in Rows /\ Len(Cells) \in Nat /\ Cells' = Cells
  BY <1>0, ChainLists DEF ChainInv, PlaceInv, CkptInv, Cells
<1>2. RowsInv'
  BY <1>0, <1>1, RowAdded
<1>3. PlaceInv'
  BY <1>0, <1>1 DEF ChainInv, PlaceInv, Working
<1>4. CkptInv'
  BY <1>0 DEF ChainInv, CkptInv
<1> QED BY <1>2, <1>3, <1>4 DEF ChainInv

LEMMA SavedRows == ASSUME ChainInv, Save PROVE ChainInv'
<1>0. /\ pc = "save" /\ pc' = "next" /\ i' = i + 1 /\ error' = FALSE
      /\ ckpt' = Filed(Row) /\ results' = Append(results, Row)
      /\ stage' = stage /\ serial' = serial
  BY DEF Save, Rest
<1>1. i \in 1 .. Len(Cells) /\ Len(Cells) \in Nat /\ Cells' = Cells /\ serial \in Nat /\ serial > 0
  BY <1>0, ChainLists DEF ChainInv, PlaceInv, CkptInv, Working, Cells
<1>2. Row \in Rows /\ Row # Torn /\ Row.cell = Key.cell /\ Row.serial = serial
  <2>1. Cells[i] \in Cell
    BY <1>1, ChainLists DEF ChainInv, PlaceInv, Cells
  <2>2. Row \in Rows /\ Row.cell = Key.cell /\ Row.serial = serial
    BY <1>1, <2>1 DEF Row, Rows, Key, ChainInv, PlaceInv
  <2> QED BY <2>2, CampaignAssumption DEF Rows
<1>3. /\ DOMAIN ckpt' = {Key} \cup DOMAIN ckpt /\ ckpt'[Key] = Row
      /\ \A key \in DOMAIN ckpt : key # Key => ckpt'[key] = ckpt[key]
  BY <1>0 DEF Filed
<1>4. RowsInv'
  BY <1>0, <1>1, <1>2, <1>3, RowAdded
<1>5. PlaceInv'
  <2>1. i' \in 1 .. Len(Cells) + 1
    BY <1>0, <1>1
  <2> QED BY <1>0, <1>1, <2>1 DEF ChainInv, PlaceInv, Working, Places
<1>6. CkptInv'
  <2>1. \A key \in DOMAIN ckpt : ckpt[key] # Torn =>
          /\ ckpt[key] \in Rows /\ ckpt[key].cell = key.cell
          /\ ckpt[key].serial \in 1 .. serial /\ ckpt[key].serial # serial
    BY <1>0 DEF ChainInv, CkptInv
  <2>2. \A key \in DOMAIN ckpt' : key = Key \/ (key \in DOMAIN ckpt /\ ckpt'[key] = ckpt[key])
    BY <1>3
  <2>3. \A key \in DOMAIN ckpt' : ckpt'[key] # Torn =>
          ckpt'[key] \in Rows /\ ckpt'[key].cell = key.cell /\ ckpt'[key].serial \in 1 .. serial
    BY <1>1, <1>2, <1>3, <2>1, <2>2
  <2>4. ASSUME NEW key \in DOMAIN ckpt', NEW other \in DOMAIN ckpt',
               ckpt'[key] # Torn, ckpt'[other] # Torn, ckpt'[key].serial = ckpt'[other].serial
        PROVE  key = other
    <3>1. CASE key = Key /\ other # Key
      BY <1>2, <1>3, <2>1, <2>2, <2>4, <3>1
    <3>2. CASE key # Key /\ other = Key
      BY <1>2, <1>3, <2>1, <2>2, <2>4, <3>2
    <3>3. CASE key # Key /\ other # Key
      BY <2>2, <2>4, <3>3 DEF ChainInv, CkptInv
    <3> QED BY <3>1, <3>2, <3>3
  <2> QED BY <1>0, <2>3, <2>4 DEF CkptInv
<1> QED BY <1>4, <1>5, <1>6 DEF ChainInv

LEMMA ChainStep == ChainInv /\ [Next]_vars => ChainInv'
<1> SUFFICES ASSUME ChainInv, [Next]_vars PROVE ChainInv'
  OBVIOUS
<1> USE DEF place, trial, campaign, circuit
<1>1. CASE UNCHANGED campaign
  <2>1. Cells' = Cells
    BY <1>1 DEF Cells
  <2>2. \A j : KeyAt(j)' = KeyAt(j)
    BY <2>1 DEF KeyAt
  <2> QED BY <1>1, <2>1, <2>2 DEF ChainInv, PlaceInv, CkptInv, RowsInv
<1>2. CASE NextCampaign
  <2>0. pc \in Places /\ error \in BOOLEAN /\ (pc \in Working => i \in 1 .. Len(Cells))
    BY DEF ChainInv, PlaceInv
  <2>1. CASE Launch \/ BeginTrial \/ TrialWrite \/ EndTrial \/ Pause \/ Unpause
    BY <2>0, <2>1, StageGoesOn
       DEF Launch, BeginTrial, TrialWrite, EndTrial, Pause, Unpause, Places, Working
  <2>2. CASE Check
    BY <2>0, <2>2, StageGoesOn, CampaignEnds DEF Check, Places, Working
  <2>3. CASE PausedAtCell
    BY <2>3, CampaignEnds DEF PausedAtCell
  <2>4. CASE Cached
    BY <2>4, CachedRows
  <2>5. CASE BeginCell
    <3>1. i \in 1 .. Len(Cells)
      BY <2>5, ChainLists DEF BeginCell, AtCell, ChainInv, PlaceInv, Cells
    <3> QED BY <2>0, <2>5, <3>1, StageGoesOn DEF BeginCell, Places, Working
  <2>6. CASE Reset \/ Flush
    BY <2>0, <2>6, StageGoesOn DEF Reset, Flush, Places, Working
  <2>7. CASE Save
    BY <2>7, SavedRows
  <2>8. CASE EndStage
    <3>1. CASE stage < Len(Chain)
      <4>1. /\ pc' = "check" /\ stage' = stage + 1 /\ i' = 1 /\ results' = << >>
            /\ UNCHANGED <<ckpt, serial, error>>
        BY <2>8, <3>1 DEF EndStage
      <4>2. stage + 1 \in 1 .. Len(Chain) /\ Len(Chain[stage + 1]) \in Nat
        BY <3>1, ChainLists DEF ChainInv, PlaceInv
      <4>3. (i \in 1 .. Len(Cells) + 1)'
        BY <4>1, <4>2 DEF Cells
      <4>4. PlaceInv'
        BY <4>1, <4>2, <4>3 DEF ChainInv, PlaceInv, Places, Working
      <4>5. CkptInv'
        BY <4>1 DEF ChainInv, CkptInv
      <4>6. RowsInv'
        <5>1. Len(results') = 0 /\ results' \in Seq(Rows)
          BY <4>1, EmptySeq
        <5> QED BY <4>1, <5>1 DEF RowsInv
      <4> QED BY <4>4, <4>5, <4>6 DEF ChainInv
    <3>2. CASE ~(stage < Len(Chain))
      BY <2>8, <3>2, CampaignEnds DEF EndStage
    <3> QED BY <3>1, <3>2
  <2>9. CASE CrashCampaign
    <3>1. CASE UNCHANGED ckpt
      BY <2>9, <3>1, CampaignEnds DEF CrashCampaign
    <3>2. CASE ckpt' = Filed(Torn)
      <4>1. \A key \in DOMAIN ckpt' : ckpt'[key] # Torn => key \in DOMAIN ckpt /\ ckpt[key] = ckpt'[key]
        BY <3>2 DEF Filed
      <4> QED BY <2>9, <4>1, CampaignEnds DEF CrashCampaign
    <3> QED BY <2>9, <3>1, <3>2 DEF CrashCampaign
  <2> QED BY <1>2, <2>1, <2>2, <2>3, <2>4, <2>5, <2>6, <2>7, <2>8, <2>9 DEF NextCampaign, Advance
<1> QED BY <1>1, <1>2 DEF Next, vars, Collects, Campaigns, Scripted, Behavioural, Wave, Suite

(* The rows of a stage are its own cells', in order, each from a trial of  *)
(* its own, however stages overlap and wherever the chain was killed.      *)
THEOREM ResultsAlwaysOwn == Spec => []ResultsAreOwn
BY ChainInit, ChainStep, RowsAreOwn, PTL DEF Spec

(***************************************************************************)
(* The records of a settled trial and of a clean arm.                      *)
(***************************************************************************)
(* Every record and every cycle under way shows a rate of V.               *)
AllIn(s, sn, V) ==
  /\ \A k \in 1 .. Len(s) : s[k] \in V \cup Collector
  /\ \A c \in Collector : sn[c] \in V \cup {None}

(* All but one do: the cycle that was under way, and then its record.      *)
AllButOne(s, sn, V) ==
  /\ \A k, l \in 1 .. Len(s) : s[k] \notin V \cup Collector /\ s[l] \notin V \cup Collector => k = l
  /\ sn[Tick] \in V \cup {None}
  /\ sn[Daemon] \notin V \cup {None} => \A k \in 1 .. Len(s) : s[k] \in Collector

LEMMA KeepsIn ==
  ASSUME NEW s, NEW t, NEW S, NEW g, Keeps(t, s, S, g), NEW W
  PROVE  /\ (\A k \in 1 .. Len(s) : s[k] \in W) => \A k \in 1 .. Len(t) : t[k] \in W
         /\ (\A k, l \in 1 .. Len(s) : s[k] \notin W /\ s[l] \notin W => k = l) =>
              ((Len(t) \in Nat) => \A k, l \in 1 .. Len(t) : t[k] \notin W /\ t[l] \notin W => k = l)
<1>1. \A k \in 1 .. Len(t) : g[k] \in 1 .. Len(s) /\ t[k] = s[g[k]]
  BY DEF Keeps
<1>2. ASSUME \A k, l \in 1 .. Len(s) : s[k] \notin W /\ s[l] \notin W => k = l, Len(t) \in Nat,
             NEW k \in 1 .. Len(t), NEW l \in 1 .. Len(t), t[k] \notin W, t[l] \notin W
      PROVE  k = l
  <2>1. g[k] = g[l] /\ g[k] \in 1 .. Len(s)
    BY <1>1, <1>2
  <2>2. ~(k < l) /\ ~(l < k)
    BY <2>1 DEF Keeps
  <2> QED BY <1>2, <2>2
<1> QED BY <1>1, <1>2

(* What a step of the daemon does to the records, by its parts.            *)
LEMMA DaemonMoves ==
  ASSUME CircuitInv, ambr \in Rate, faults \in Nat, DaemonCycle \/ KillDaemon
  PROVE  /\ seen[Daemon] # None => Has(smf, Daemon)
         /\ \/ /\ seen' = seen /\ seen[Daemon] = None
               /\ \E g : Keeps(smf', Append(smf, Daemon), Collector, g)
            \/ /\ smf' = smf /\ seen[Daemon] = None
               /\ \E r \in {ambr, 0} : /\ seen' = [seen EXCEPT ![Daemon] = r]
                                       /\ r = 0 => faults' # faults
            \/ /\ seen' = [seen EXCEPT ![Daemon] = None] /\ seen[Daemon] # None /\ Len(smf') = Len(smf)
               /\ \E m \in 1 .. Len(smf) :
                    smf'[m] = seen[Daemon] /\ \A k \in 1 .. Len(smf) : k # m => smf'[k] = smf[k]
            \/ /\ seen' = [seen EXCEPT ![Daemon] = None]
               /\ \E g : Keeps(smf', smf, Values \ {Daemon}, g)
<1> USE ValuesApart
<1>1. CASE Stamp(Daemon)
  BY <1>1, StampStep, RunningHas DEF Stamp, CircuitInv
<1>2. CASE ReadSessions(Daemon)
  BY <1>2, ReadStep DEF ReadSessions, CircuitInv
<1>3. CASE Insert(Daemon, FALSE)
  <2>1. /\ Running(Daemon) /\ seen[Daemon] # None /\ smf' = Inserted(Daemon)
        /\ seen' = [seen EXCEPT ![Daemon] = None]
    BY <1>3 DEF Insert
  <2>2. \E m \in 1 .. Len(smf) :
          /\ smf[m] = Daemon /\ Len(smf') = Len(smf) /\ smf'[m] = seen[Daemon] /\ seen[Daemon] \in Rate \cup {0}
          /\ \A k \in 1 .. Len(smf) : k # m => smf'[k] = smf[k] /\ smf[k] # Daemon
    BY <2>1, InsertStep
  <2> QED BY <2>1, <2>2 DEF CircuitInv
<1>4. CASE CycleFails(Daemon) \/ KillDaemon
  <2>1. smf' = Without(Daemon) /\ seen' = [seen EXCEPT ![Daemon] = None]
    BY <1>4 DEF CycleFails, KillDaemon
  <2>2. \E g : Keeps(smf', smf, Values \ {Daemon}, g)
    BY <2>1, WithoutStep
  <2> QED BY <2>1, <2>2 DEF CircuitInv
<1> QED BY <1>1, <1>2, <1>3, <1>4 DEF DaemonCycle

LEMMA AppendedIn ==
  ASSUME NEW s \in Seq(Values), NEW c \in Collector
  PROVE  /\ Len(s) \in Nat /\ Len(Append(s, c)) = Len(s) + 1
         /\ \A k \in 1 .. Len(s) + 1 : Append(s, c)[k] = IF k = Len(s) + 1 THEN c ELSE s[k]
<1>1. c \in Values
  BY DEF Values
<1> QED BY <1>1, AppendProperties

LEMMA DaemonIn ==
  ASSUME CircuitInv, ambr \in Rate, faults \in Nat, DaemonCycle \/ KillDaemon,
         NEW V, ambr \in V, faults' # faults => 0 \in V
  PROVE  /\ AllIn(smf, seen, V) => AllIn(smf', seen', V)
         /\ AllButOne(smf, seen, V) => AllButOne(smf', seen', V)
<1> USE ValuesApart
<1>0. /\ smf \in Seq(Values) /\ Len(smf) \in Nat /\ CircuitInv' /\ Len(smf') \in Nat
      /\ seen \in [Collector -> Rate \cup {0, None}] /\ seen[Daemon] # None => Has(smf, Daemon)
  BY DaemonStep, DaemonMoves, LenProperties DEF CircuitInv
<1> DEFINE W == V \cup Collector
           Goal == /\ AllIn(smf, seen, V) => AllIn(smf', seen', V)
                   /\ AllButOne(smf, seen, V) => AllButOne(smf', seen', V)
<1>1. ASSUME seen' = seen, seen[Daemon] = None, NEW g, Keeps(smf', Append(smf, Daemon), Collector, g)
      PROVE  Goal
  <2> DEFINE s == Append(smf, Daemon)
  <2>1. /\ Len(s) = Len(smf) + 1
        /\ \A k \in 1 .. Len(smf) + 1 : s[k] = IF k = Len(smf) + 1 THEN Daemon ELSE smf[k]
    BY <1>0, AppendedIn
  <2> HIDE DEF s
  <2>2. /\ (\A k \in 1 .. Len(smf) : smf[k] \in W) => \A k \in 1 .. Len(s) : s[k] \in W
        /\ (\A k, l \in 1 .. Len(smf) : smf[k] \notin W /\ smf[l] \notin W => k = l) =>
             \A k, l \in 1 .. Len(s) : s[k] \notin W /\ s[l] \notin W => k = l
    BY <1>0, <2>1
  <2> DEFINE t == smf'
  <2>3. Keeps(t, s, Collector, g) /\ Len(t) \in Nat
    BY <1>0, <1>1 DEF s
  <2> HIDE DEF t, W
  <2>4. /\ (\A k \in 1 .. Len(s) : s[k] \in W) => \A k \in 1 .. Len(t) : t[k] \in W
        /\ (\A k, l \in 1 .. Len(s) : s[k] \notin W /\ s[l] \notin W => k = l) =>
              \A k, l \in 1 .. Len(t) : t[k] \notin W /\ t[l] \notin W => k = l
    BY <2>3, KeepsIn
  <2> QED BY <1>1, <2>2, <2>4 DEF AllIn, AllButOne, t, W
<1>2. ASSUME smf' = smf, seen[Daemon] = None, NEW r \in {ambr, 0}, seen' = [seen EXCEPT ![Daemon] = r],
             r = 0 => faults' # faults
      PROVE  Goal
  BY <1>0, <1>2 DEF AllIn, AllButOne
<1>3. ASSUME seen' = [seen EXCEPT ![Daemon] = None], seen[Daemon] # None, Len(smf') = Len(smf),
             NEW m \in 1 .. Len(smf), smf'[m] = seen[Daemon],
             \A k \in 1 .. Len(smf) : k # m => smf'[k] = smf[k]
      PROVE  Goal
  <2>1. seen'[Daemon] = None /\ seen'[Tick] = seen[Tick]
    BY <1>3 DEF CircuitInv
  <2>2. AllIn(smf, seen, V) => AllIn(smf', seen', V)
    BY <1>0, <1>3, <2>1 DEF AllIn
  <2>3. AllButOne(smf, seen, V) => AllButOne(smf', seen', V)
    <3> SUFFICES ASSUME AllButOne(smf, seen, V) PROVE AllButOne(smf', seen', V)
      OBVIOUS
    <3>1. CASE seen[Daemon] \in V
      BY <1>3, <2>1, <3>1 DEF AllButOne
    <3>2. CASE seen[Daemon] \notin V
      <4>1. \A k \in 1 .. Len(smf) : smf[k] \in Collector
        BY <1>3, <3>2 DEF AllButOne
      <4> QED BY <1>3, <2>1, <4>1 DEF AllButOne
    <3> QED BY <3>1, <3>2
  <2> QED BY <2>2, <2>3
<1>4. ASSUME seen' = [seen EXCEPT ![Daemon] = None], NEW g, Keeps(smf', smf, Values \ {Daemon}, g)
      PROVE  Goal
  <2>1. seen'[Daemon] = None /\ seen'[Tick] = seen[Tick]
    BY <1>4 DEF CircuitInv
  <2> DEFINE t == smf'
             s == smf
  <2>2. Keeps(t, s, Values \ {Daemon}, g) /\ Len(t) \in Nat
    BY <1>0, <1>4
  <2> HIDE DEF t, W, s
  <2>3. /\ (\A k \in 1 .. Len(s) : s[k] \in W) => \A k \in 1 .. Len(t) : t[k] \in W
        /\ (\A k, l \in 1 .. Len(s) : s[k] \notin W /\ s[l] \notin W => k = l) =>
              \A k, l \in 1 .. Len(t) : t[k] \notin W /\ t[l] \notin W => k = l
    BY <2>2, KeepsIn
  <2> QED BY <2>1, <2>3 DEF AllIn, AllButOne, t, s, W
<1> HIDE DEF Goal
<1>5. Goal
  BY <1>1, <1>2, <1>3, <1>4, DaemonMoves
<1> QED BY <1>5 DEF Goal

(***************************************************************************)
(* A settled trial.  A cycle of the daemon that was under way at the flush *)
(* may still insert one record of an earlier rate; that a trial wants two  *)
(* records at least is what makes the wait see a later one.                *)
(***************************************************************************)
SettleInv ==
  /\ pc = "settle" /\ flushed => AllButOne(smf, seen, {ambr, 0})
  /\ pc = "trial" /\ flushed /\ settled =>
       ambr \in {Baseline} \cup wrote /\ AllIn(smf, seen, {Baseline, 0} \cup wrote)

LEMMA RecordsOf ==
  ASSUME CircuitInv
  PROVE  /\ Len(Records) \in Nat /\ DOMAIN Records = 1 .. Len(Records)
         /\ \E g : Keeps(Records, smf, Rate \cup {0}, g) /\ \A k \in 1 .. Len(Records) : Records[k] \notin Collector
<1> DEFINE I == {k \in DOMAIN smf : smf[k] \notin Collector}
<1>1. smf \in Seq(Values) /\ DOMAIN smf = 1 .. Len(smf) /\ Records = Part(smf, I)
  BY LenProperties DEF CircuitInv, Records
<1>2. \A m \in 1 .. Len(smf) : smf[m] \in Rate \cup {0} => m \in I
  BY <1>1, ValuesApart
<1>3. \A k \in I : smf[k] \notin Collector
  OBVIOUS
<1> HIDE DEF I
<1>4. /\ Part(smf, I) \in Seq(Values)
      /\ \E g : Keeps(Part(smf, I), smf, Rate \cup {0}, g) /\ \A k \in 1 .. Len(Part(smf, I)) : g[k] \in I
  BY <1>1, <1>2, PartKeeps
<1>5. PICK g : Keeps(Records, smf, Rate \cup {0}, g) /\ \A k \in 1 .. Len(Records) : g[k] \in I
  BY <1>1, <1>4
<1>6. \A k \in 1 .. Len(Records) : Records[k] \notin Collector
  BY <1>3, <1>5 DEF Keeps
<1> QED BY <1>1, <1>4, <1>5, <1>6, LenProperties

LEMMA SettledMeans ==
  ASSUME CircuitInv, ambr \in Rate, AllBaseline, AllButOne(smf, seen, {ambr, 0})
  PROVE  ambr = Baseline /\ AllIn(smf, seen, {Baseline, 0})
<1> USE ValuesApart
<1>1. PICK g : Keeps(Records, smf, Rate \cup {0}, g) /\ \A k \in 1 .. Len(Records) : Records[k] \notin Collector
  BY RecordsOf
<1>2. Samples \in Nat /\ Samples >= 2
  BY CampaignAssumption, CircuitAssumption
<1>3. Len(Records) \in Nat /\ Len(Records) >= 2 /\ \A k \in 1 .. Len(Records) : Records[k] = Baseline
  BY <1>2, RecordsOf DEF AllBaseline
<1>4. /\ g[1] \in 1 .. Len(smf) /\ g[2] \in 1 .. Len(smf) /\ g[1] < g[2]
      /\ smf[g[1]] = Baseline /\ smf[g[2]] = Baseline
  <2>1. 1 \in 1 .. Len(Records) /\ 2 \in 1 .. Len(Records)
    BY <1>3
  <2> QED BY <1>1, <1>3, <2>1 DEF Keeps
<1>5. ambr = Baseline
  <2>1. ASSUME Baseline \notin {ambr, 0} PROVE FALSE
    <3>1. g[1] = g[2]
      BY <1>4, <2>1 DEF AllButOne
    <3> QED BY <1>4, <3>1
  <2> QED BY <2>1
<1>6. \A m \in 1 .. Len(smf) : smf[m] \in {Baseline, 0} \cup Collector
  <2> SUFFICES ASSUME NEW m \in 1 .. Len(smf), smf[m] \notin Collector PROVE smf[m] = Baseline
    OBVIOUS
  <2>1. smf[m] \in Rate \cup {0}
    BY LenProperties DEF CircuitInv, Values
  <2>2. PICK k \in 1 .. Len(Records) : g[k] = m
    BY <1>1, <2>1 DEF Keeps
  <2> QED BY <1>1, <1>3, <2>2 DEF Keeps
<1>7. \A c \in Collector : seen[c] \in {Baseline, 0} \cup {None}
  BY <1>4, <1>5 DEF AllButOne
<1> QED BY <1>5, <1>6, <1>7 DEF AllIn

LEMMA AllInMore ==
  ASSUME NEW s, NEW sn, NEW V, NEW W, V \subseteq W, AllIn(s, sn, V) PROVE AllIn(s, sn, W)
BY DEF AllIn

LEMMA SettleStep == ASSUME HostInv, SettleInv, [Next]_vars PROVE SettleInv'
<1> USE ValuesApart
<1>0. CircuitInv /\ ambr \in Rate /\ faults \in Nat
  BY DEF HostInv
<1>1. ASSUME pc' # "settle", pc' # "trial" PROVE SettleInv'
  BY <1>1 DEF SettleInv
<1>2. ASSUME UNCHANGED <<ambr, smf, seen, pc, flushed, settled, wrote>> PROVE SettleInv'
  BY <1>2 DEF SettleInv
<1>3. ASSUME Collects PROVE SettleInv'
  <2>1. /\ DaemonCycle \/ KillDaemon
        /\ UNCHANGED <<pc, flushed, settled, wrote>>
    BY <1>3 DEF Collects, campaign, place, trial
  <2>2. ambr' = ambr
    BY <1>0, <2>1, DaemonStep
  <2>3. /\ AllButOne(smf, seen, {ambr, 0}) => AllButOne(smf', seen', {ambr, 0})
        /\ ambr \in {Baseline} \cup wrote /\ AllIn(smf, seen, {Baseline, 0} \cup wrote)
             => AllIn(smf', seen', {Baseline, 0} \cup wrote)
    <3>1. AllButOne(smf, seen, {ambr, 0}) => AllButOne(smf', seen', {ambr, 0})
      BY <1>0, <2>1, DaemonIn
    <3>2. ASSUME ambr \in {Baseline} \cup wrote, AllIn(smf, seen, {Baseline, 0} \cup wrote)
          PROVE  AllIn(smf', seen', {Baseline, 0} \cup wrote)
      <4> DEFINE V == {Baseline, 0} \cup wrote
      <4>1. ambr \in V /\ 0 \in V /\ AllIn(smf, seen, V)
        BY <3>2
      <4> HIDE DEF V
      <4>2. AllIn(smf', seen', V)
        BY <1>0, <2>1, <4>1, DaemonIn
      <4> QED BY <4>2 DEF V
    <3> QED BY <3>1, <3>2
  <2> QED BY <2>1, <2>2, <2>3 DEF SettleInv
<1>4. ASSUME Scripted \/ Behavioural \/ Wave \/ Suite PROVE SettleInv'
  <2>1. pc = "off" /\ pc' = pc
    BY <1>4 DEF Scripted, Behavioural, Wave, Suite, HostInv, ProgramInv, AloneInv, campaign, place
  <2> QED BY <1>1, <2>1
<1>5. ASSUME Campaigns PROVE SettleInv'
  <2>0. NextCampaign /\ seen[Tick] = None
    <3>1. program = "chain" /\ NextCampaign
      BY <1>5 DEF Campaigns
    <3>2. ~Has(smf, Tick)
      BY <3>1 DEF HostInv, ProgramInv, AloneInv, TickHome, TickPlace
    <3> QED BY <3>1, <3>2 DEF HostInv, CircuitInv
  <2> USE DEF circuit, place, trial, Exit
  <2>1. CASE Launch \/ Check \/ PausedAtCell \/ Cached \/ BeginCell \/ Reset \/ EndTrial \/ Save \/ EndStage \/ CrashCampaign
    BY <1>1, <2>1 DEF Launch, Check, PausedAtCell, Cached, AtCell, BeginCell, Reset, EndTrial, Save,
                      EndStage, CrashCampaign
  <2>2. CASE Pause \/ Unpause
    BY <1>2, <2>2 DEF Pause, Unpause
  <2>3. CASE Flush
    <3>1. ambr' = ambr /\ seen' = seen /\ pc' = "settle" /\ (flushed' => smf' = UnderWay)
      BY <2>3 DEF Flush
    <3>2. ASSUME smf' = UnderWay PROVE AllButOne(smf', seen', {ambr, 0})
      <4>1. \A k \in 1 .. Len(smf') : smf'[k] \in Collector
        BY <1>0, <3>1, <3>2, FlushStep
      <4> QED BY <2>0, <3>1, <4>1 DEF AllButOne
    <3> QED BY <3>1, <3>2 DEF SettleInv
  <2>4. CASE BeginTrial
    <3>1. /\ pc = "settle" /\ pc' = "trial" /\ settled' \in {FALSE, AllBaseline}
          /\ UNCHANGED <<ambr, smf, seen, flushed, wrote>>
      BY <2>4 DEF BeginTrial
    <3>2. settled' => AllBaseline
      BY <3>1
    <3>3. ASSUME flushed', settled'
          PROVE  ambr \in {Baseline} \cup wrote /\ AllIn(smf, seen, {Baseline, 0} \cup wrote)
      <4>1. flushed
        BY <3>1, <3>3
      <4>2. AllButOne(smf, seen, {ambr, 0}) /\ AllBaseline
        BY <3>1, <3>2, <3>3, <4>1 DEF SettleInv
      <4>3. ambr = Baseline /\ AllIn(smf, seen, {Baseline, 0})
        BY <1>0, <4>2, SettledMeans
      <4> DEFINE V == {Baseline, 0} \cup wrote
      <4>4. {Baseline, 0} \subseteq V
        OBVIOUS
      <4> HIDE DEF V
      <4>5. AllIn(smf, seen, V)
        BY <4>3, <4>4, AllInMore
      <4> QED BY <4>3, <4>5 DEF V
    <3> QED BY <3>1, <3>3 DEF SettleInv
  <2>5. CASE TrialWrite
    <3>1. PICK r \in TrialRate : ambr' = r /\ wrote' = wrote \cup {r}
      BY <2>5 DEF TrialWrite
    <3>2. UNCHANGED <<smf, seen, pc, flushed, settled>> /\ pc = "trial"
      BY <2>5 DEF TrialWrite
    <3> DEFINE V == {Baseline, 0} \cup wrote
               W == {Baseline, 0} \cup wrote'
    <3>3. V \subseteq W /\ ambr' \in {Baseline} \cup wrote'
      BY <3>1
    <3>4. AllIn(smf, seen, V) => AllIn(smf, seen, W)
      <4> HIDE DEF V, W
      <4> QED BY <3>3, AllInMore
    <3> QED BY <3>2, <3>3, <3>4 DEF SettleInv
  <2> QED BY <2>0, <2>1, <2>2, <2>3, <2>4, <2>5 DEF NextCampaign, Advance
<1>6. ASSUME UNCHANGED vars PROVE SettleInv'
  BY <1>2, <1>6 DEF vars, circuit, campaign, place, trial
<1> QED BY <1>3, <1>4, <1>5, <1>6 DEF Next

LEMMA SettledIsClean == ASSUME HostInv, SettleInv PROVE SettledTrialIsClean
<1> SUFFICES ASSUME pc = "trial", flushed, settled
             PROVE  /\ \A k \in DOMAIN Records : Records[k] \in {Baseline, 0} \cup wrote
                    /\ \A c \in Collector : seen[c] \in {Baseline, 0, None} \cup wrote
  BY DEF SettledTrialIsClean
<1>1. AllIn(smf, seen, {Baseline, 0} \cup wrote) /\ CircuitInv
  BY DEF SettleInv, HostInv
<1>2. PICK g : Keeps(Records, smf, Rate \cup {0}, g) /\ \A k \in 1 .. Len(Records) : Records[k] \notin Collector
  BY <1>1, RecordsOf
<1>3. \A k \in 1 .. Len(Records) : Records[k] \in {Baseline, 0} \cup wrote
  BY <1>1, <1>2 DEF Keeps, AllIn
<1> QED BY <1>1, <1>3, RecordsOf DEF AllIn

(* A trial of a campaign whose flush and wait succeeded reads no rate of   *)
(* an earlier trial, also from a cycle that was under way at the flush.    *)
THEOREM SettledTrialAlwaysClean == Spec => []SettledTrialIsClean
<1>1. Init => SettleInv
  BY DEF Init, InitCampaign, SettleInv
<1>2. HostInv /\ SettleInv /\ [Next]_vars => SettleInv'
  BY SettleStep
<1>3. HostInv /\ SettleInv => SettledTrialIsClean
  BY SettledIsClean
<1> QED BY <1>1, <1>2, <1>3, HostAlways, PTL DEF Spec

(***************************************************************************)
(* The arms: what a purge leaves clean, and the daemon that is stopped.    *)
(***************************************************************************)
Slots(s) == \A k \in 1 .. Len(s) : s[k] \in Collector

(* No record comes back into an arm that was sealed.                       *)
SealInv ==
  /\ sealed \in BOOLEAN /\ (bpc \in {"none", "arm", "purge"} => ~sealed)
  /\ sealed /\ Clean => daemon # "up" /\ Slots(smf)

(* The daemon is stopped in an isolated arm that will resume it.           *)
StopInv ==
  /\ pids \in BOOLEAN /\ killed \in BOOLEAN
  /\ daemon = "stopped" => killed \/ (bpc \notin {"none", "arm"} /\ Clean /\ pids)

LEMMA SlotsStay ==
  ASSUME NEW s \in Seq(Values), NEW t, NEW c \in Collector, NEW S, NEW g,
         Keeps(t, s, S, g) \/ Keeps(t, Append(s, c), S, g), Slots(s)
  PROVE  Slots(t)
<1>1. ASSUME NEW u, Keeps(t, u, S, g), Slots(u) PROVE Slots(t)
  BY <1>1, KeepsIn DEF Slots
<1>2. Slots(Append(s, c))
  BY AppendedIn DEF Slots
<1> QED BY <1>1, <1>2

LEMMA OthersKeepDaemon ==
  ASSUME [Next]_vars, ~Behavioural
  PROVE  /\ UNCHANGED <<bpc, cond, pids, sealed, killed>>
         /\ daemon' = "stopped" => daemon = "stopped"
<1>1. ASSUME Collects PROVE UNCHANGED arms /\ (daemon' = "stopped" => daemon = "stopped")
  BY <1>1 DEF Collects, DaemonCycle, Stamp, ReadSessions, Insert, CycleFails, KillDaemon
<1>2. ASSUME Campaigns PROVE UNCHANGED arms /\ (daemon' = "stopped" => daemon = "stopped")
  <2>1. NextCampaign /\ UNCHANGED arms
    BY <1>2 DEF Campaigns
  <2>2. CASE Launch \/ EndStage \/ Check \/ PausedAtCell \/ Cached \/ BeginCell \/ Reset \/ Flush
    BY <2>1, <2>2 DEF Launch, EndStage, Check, PausedAtCell, Cached, BeginCell, Reset, Flush,
                      EnsureCollector, circuit
  <2>3. CASE BeginTrial \/ EndTrial \/ Save \/ Pause \/ Unpause \/ TrialWrite \/ CrashCampaign
    BY <2>1, <2>3 DEF BeginTrial, EndTrial, Save, Pause, Unpause, TrialWrite, CrashCampaign, circuit
  <2> QED BY <2>1, <2>2, <2>3 DEF NextCampaign, Advance
<1>3. ASSUME Scripted PROVE UNCHANGED arms /\ (daemon' = "stopped" => daemon = "stopped")
  <2>1. NextScript /\ UNCHANGED arms
    BY <1>3 DEF Scripted
  <2> QED BY <2>1 DEF NextScript, StartScript, StartSession, ScriptWrite, ScriptTick, ReadBack, EndScript,
                      CrashScript, EnsureCollector, Stamp, ReadSessions, Insert, CycleFails, circuit
<1>4. ASSUME Wave PROVE UNCHANGED arms /\ (daemon' = "stopped" => daemon = "stopped")
  <2>1. NextWave /\ UNCHANGED arms
    BY <1>4 DEF Wave
  <2>2. CASE LaunchWave \/ NextTrial \/ SetRate("reset", Baseline) \/ SetRate("congest", Congested) \/ ProbeWrite
    BY <2>1, <2>2 DEF LaunchWave, NextTrial, SetRate, ProbeWrite, EnsureCollector, circuit
  <2>3. CASE Poll \/ SessionWrite \/ EndOfSession \/ WaitOver
    BY <2>1, <2>3 DEF Poll, SessionWrite, EndOfSession, WaitOver, circuit
  <2>4. CASE DeleteRecords \/ TrialRaisesInWave \/ KillWave \/ WaveEnded
    BY <2>1, <2>4 DEF DeleteRecords, TrialRaisesInWave, KillWave, WaveEnded, circuit
  <2> QED BY <2>1, <2>2, <2>3, <2>4 DEF NextWave
<1>5. ASSUME Suite PROVE UNCHANGED arms /\ (daemon' = "stopped" => daemon = "stopped")
  <2>1. NextSuite /\ UNCHANGED arms
    BY <1>5 DEF Suite
  <2>2. CASE LaunchSuite \/ Find \/ Keep \/ Compare \/ Sweep \/ Judge \/ Observe
    BY <2>1, <2>2 DEF LaunchSuite, Find, Keep, Compare, Sweep, Judge, Observe, EnsureCollector, circuit
  <2>3. CASE SuiteWrite
    BY <2>1, <2>3 DEF SuiteWrite, Apply
  <2>4. CASE Sleep \/ SuiteTick \/ Purges \/ Mask \/ Unmask
    BY <2>1, <2>4 DEF Sleep, WaitOver, SuiteTick, Stamp, ReadSessions, Insert, CycleFails, Purges,
                      DeleteRecords, Mask, Unmask, circuit
  <2>5. CASE SuiteSession \/ SuiteOver \/ SessionRaises \/ StoreRaises \/ KillSuite
    BY <2>1, <2>5 DEF SuiteSession, SessionWrite, EndOfSession, SuiteOver, SessionRaises, StoreRaises,
                      KillSuite, circuit
  <2> QED BY <2>1, <2>2, <2>3, <2>4, <2>5 DEF NextSuite
<1>6. ASSUME UNCHANGED vars PROVE UNCHANGED arms /\ (daemon' = "stopped" => daemon = "stopped")
  BY <1>6 DEF vars, circuit
<1> QED BY <1>1, <1>2, <1>3, <1>4, <1>5, <1>6 DEF Next, arms

LEMMA StopStep == ASSUME HostInv, StopInv, [Next]_vars PROVE StopInv'
<1>1. CASE ~Behavioural
  BY <1>1, OthersKeepDaemon DEF StopInv, Clean
<1>2. CASE Behavioural
  <2>1. NextArms
    BY <1>2 DEF Behavioural
  <2> USE DEF StopInv, Clean, circuit
  <2>2. CASE StartArms
    BY <2>2 DEF StartArms, EnsureCollector
  <2>3. CASE PauseCollectors
    BY <2>3 DEF PauseCollectors
  <2>4. CASE Purge \/ RunCycle \/ Seeded \/ ResetTrial \/ RaiseTarget
    <3>1. UNCHANGED <<daemon, cond, pids, killed>> /\ bpc \notin {"none", "arm"} /\ bpc' \notin {"none", "arm"}
      BY <2>4 DEF Purge, RunCycle, Stamp, ReadSessions, Insert, CycleFails, Seeded, ResetTrial, RaiseTarget
    <3> QED BY <3>1
  <2>5. CASE BeginJudging \/ AgentWrite \/ EndTrialOfArm \/ LastReset
    <3>1. UNCHANGED <<daemon, cond, pids, killed>> /\ bpc \notin {"none", "arm"} /\ bpc' \notin {"none", "arm"}
      BY <2>5 DEF BeginJudging, AgentWrite, EndTrialOfArm, LastReset
    <3> QED BY <3>1
  <2>6. CASE ResumeCollectors \/ TrialRaises
    <3>1. daemon' = Resumed /\ pids' = FALSE /\ killed' = (killed /\ daemon' = "stopped")
      BY <2>6 DEF ResumeCollectors, TrialRaises
    <3>2. pids' \in BOOLEAN /\ killed' \in BOOLEAN
      BY <3>1
    <3>3. daemon' = "stopped" => killed'
      <4>1. ASSUME daemon' = "stopped" PROVE killed
        BY <3>1, <4>1 DEF Resumed
      <4> QED BY <3>1, <4>1
    <3> QED BY <3>2, <3>3
  <2>7. CASE KillArms
    <3>1. daemon' = daemon /\ pids' = FALSE /\ killed' = (daemon = "stopped")
      BY <2>7 DEF KillArms
    <3>2. pids' \in BOOLEAN /\ killed' \in BOOLEAN /\ (daemon' = "stopped" => killed')
      BY <3>1
    <3> QED BY <3>2
  <2> QED BY <2>1, <2>2, <2>3, <2>4, <2>5, <2>6, <2>7 DEF NextArms
<1> QED BY <1>1, <1>2

LEMMA SealStep == ASSUME HostInv, SealInv, [Next]_vars PROVE SealInv'
<1> USE ValuesApart
<1>0. CircuitInv /\ smf \in Seq(Values) /\ ambr \in Rate /\ faults \in Nat
  BY DEF HostInv, CircuitInv
<1>1. ASSUME sealed' = FALSE PROVE SealInv'
  BY <1>1 DEF SealInv
<1>2. ASSUME UNCHANGED <<sealed, cond>>, bpc' \in {"none", "arm", "purge"} => bpc \in {"none", "arm", "purge"},
             daemon' = "up" => daemon = "up", Slots(smf) /\ daemon # "up" => Slots(smf')
      PROVE  SealInv'
  BY <1>2 DEF SealInv, Clean
<1>3. CASE ~Behavioural /\ ~Collects
  <2>1. UNCHANGED <<bpc, cond, sealed>>
    BY <1>3, OthersKeepDaemon
  <2>2. CASE UNCHANGED vars
    BY <1>2, <2>1, <2>2 DEF vars, circuit
  <2>3. CASE Campaigns \/ Scripted \/ Wave \/ Suite
    <3>1. bpc = "none"
      BY <2>3 DEF Campaigns, Scripted, Wave, Suite, HostInv, ProgramInv, AloneInv
    <3>2. sealed' = FALSE
      BY <2>1, <3>1 DEF SealInv
    <3> QED BY <1>1, <3>2
  <2> QED BY <1>3, <2>2, <2>3 DEF Next
<1>4. CASE Collects
  <2>1. (DaemonCycle \/ KillDaemon) /\ UNCHANGED <<bpc, cond, sealed>>
    BY <1>4 DEF Collects, arms
  <2>2. daemon' = "up" => daemon = "up"
    BY <1>0, <2>1, DaemonStep
  <2>3. ASSUME Slots(smf), daemon # "up" PROVE Slots(smf')
    <3>1. smf' = Without(Daemon) /\ seen' = [seen EXCEPT ![Daemon] = None]
      BY <2>1, <2>3 DEF DaemonCycle, KillDaemon
    <3>2. PICK g : Keeps(smf', smf, Values \ {Daemon}, g)
      BY <1>0, <3>1, WithoutStep
    <3> QED BY <1>0, <2>3, <3>2, SlotsStay
  <2> QED BY <1>2, <2>1, <2>2, <2>3
<1>5. CASE Behavioural
  <2>1. NextArms
    BY <1>5 DEF Behavioural
  <2> USE DEF circuit
  <2>2. CASE StartArms
    <3>1. bpc = "none" /\ sealed' = sealed
      BY <2>2 DEF StartArms
    <3> QED BY <1>1, <3>1 DEF SealInv
  <2>3. CASE PauseCollectors
    <3>1. bpc = "arm" /\ sealed' = sealed
      BY <2>3 DEF PauseCollectors
    <3> QED BY <1>1, <3>1 DEF SealInv
  <2>4. CASE Purge
    <3>1. CASE smf' = UnderWay /\ sealed' = (daemon # "up")
      <4>1. seen' = seen /\ daemon' = daemon /\ cond' = cond /\ bpc' = "seed"
        BY <2>4 DEF Purge
      <4>2. Slots(smf')
        BY <1>0, <3>1, <4>1, FlushStep DEF Slots
      <4>3. sealed' \in BOOLEAN /\ (sealed' => daemon # "up")
        BY <3>1
      <4> QED BY <4>1, <4>2, <4>3 DEF SealInv, Clean
    <3>2. CASE sealed' = FALSE
      BY <1>1, <3>2
    <3> QED BY <2>4, <3>1, <3>2 DEF Purge
  <2>5. CASE RunCycle
    <3>0. UNCHANGED <<bpc, cond, sealed, daemon>>
      BY <2>5 DEF RunCycle, Stamp, ReadSessions, Insert, CycleFails
    <3>1. ASSUME Slots(smf), Clean PROVE Slots(smf')
      <4>1. CASE Stamp(Tick)
        <5>1. PICK g : Keeps(smf', Append(smf, Tick), Collector, g)
          BY <1>0, <4>1, StampStep
        <5> QED BY <1>0, <3>1, <5>1, SlotsStay
      <4>2. CASE ReadSessions(Tick)
        BY <3>1, <4>2 DEF ReadSessions, Slots
      <4>3. CASE Insert(Tick, Clean) \/ CycleFails(Tick)
        <5>1. smf' = Without(Tick) /\ seen' = [seen EXCEPT ![Tick] = None]
          BY <3>1, <4>3 DEF Insert, CycleFails
        <5>2. PICK g : Keeps(smf', smf, Values \ {Tick}, g)
          BY <1>0, <5>1, WithoutStep
        <5> QED BY <1>0, <3>1, <5>2, SlotsStay
      <4> QED BY <2>5, <4>1, <4>2, <4>3 DEF RunCycle
    <3> QED BY <3>0, <3>1 DEF SealInv, Clean
  <2>6. CASE Seeded \/ ResetTrial \/ RaiseTarget \/ BeginJudging \/ AgentWrite \/ EndTrialOfArm \/ LastReset
    <3>1. UNCHANGED <<smf, daemon, cond, sealed>> /\ bpc' \notin {"none", "arm", "purge"}
      BY <2>6 DEF Seeded, ResetTrial, RaiseTarget, BeginJudging, AgentWrite, EndTrialOfArm, LastReset
    <3> QED BY <1>2, <3>1
  <2>7. CASE ResumeCollectors \/ TrialRaises \/ KillArms
    BY <1>1, <2>7 DEF ResumeCollectors, TrialRaises, KillArms
  <2> QED BY <2>1, <2>2, <2>3, <2>4, <2>5, <2>6, <2>7 DEF NextArms
<1> QED BY <1>3, <1>4, <1>5

(* The agent of an isolated arm finds no record, although cycles of the    *)
(* daemon may have been under way when it was stopped.                     *)
THEOREM CleanArmAlwaysClean == Spec => []CleanArmIsClean
<1>1. Init => SealInv
  BY DEF Init, InitArms, SealInv
<1>2. HostInv /\ SealInv /\ [Next]_vars => SealInv'
  BY SealStep
<1>3. HostInv /\ SealInv => CleanArmIsClean
  <2> SUFFICES ASSUME HostInv, SealInv, bpc = "judge", Clean, sealed PROVE Records = << >>
    BY DEF CleanArmIsClean
  <2>1. CircuitInv /\ Slots(smf)
    BY DEF HostInv, SealInv
  <2> QED BY <2>1, LatestIs DEF Slots
<1> QED BY <1>1, <1>2, <1>3, HostAlways, PTL DEF Spec

(* The arms resume the daemon they stopped, also when a trial raises, and  *)
(* the suites restore the rate they found.                                 *)
THEOREM AlwaysPutBack == Spec => []PutBack
<1>1. Init => StopInv
  BY DEF Init, InitArms, InitCircuit, StopInv
<1>2. HostInv /\ StopInv /\ [Next]_vars => StopInv'
  BY StopStep
<1>3. HostInv /\ StopInv => PutBack
  BY GivenBack DEF PutBack, StopInv, CollectorsResumed
<1> QED BY <1>1, <1>2, <1>3, HostAlways, PTL DEF Spec

(***************************************************************************)
(* What the newest record shows.                                           *)
(***************************************************************************)
LEMMA FreshLatest ==
  ASSUME CircuitInv, NEW V, NEW out, Fresh(smf, seen, V, TRUE, out) PROVE Latest \in V
<1>1. PICK t \in 1 .. Len(smf) + 1 :
        /\ \A k \in t .. Len(smf) : IF smf[k] \in Collector THEN seen[smf[k]] \in V \cup {None} ELSE smf[k] \in V
        /\ \E k \in t .. Len(smf) : smf[k] \notin Collector
  BY DEF Fresh
<1>2. PICK n \in t .. Len(smf) : smf[n] \notin Collector
  BY <1>1
<1>3. Len(smf) \in Nat /\ n \in 1 .. Len(smf)
  BY <1>1, <1>2, LenProperties DEF CircuitInv
<1>4. PICK m \in 1 .. Len(smf) :
        /\ smf[m] \notin Collector /\ \A k \in m + 1 .. Len(smf) : smf[k] \in Collector
        /\ Latest = smf[m]
  BY <1>2, <1>3, LatestIs
<1>5. n \notin m + 1 .. Len(smf)
  BY <1>2, <1>4
<1>6. m \in t .. Len(smf)
  BY <1>2, <1>3, <1>5
<1> QED BY <1>1, <1>4, <1>6

LEMMA AllInLatest ==
  ASSUME CircuitInv, NEW V, AllIn(smf, seen, V) PROVE Latest \in V \cup {None}
BY LatestIs DEF AllIn

LEMMA FreshSeen ==
  ASSUME NEW s, Len(s) \in Nat, NEW sn, NEW V, NEW pub, NEW out, Fresh(s, sn, V, pub, out),
         NEW c \in Collector, c \in out, Has(s, c)
  PROVE  sn[c] \in V \cup {None}
<1>1. PICK t \in 1 .. Len(s) + 1 :
        /\ \A k \in t .. Len(s) : IF s[k] \in Collector THEN sn[s[k]] \in V \cup {None} ELSE s[k] \in V
        /\ \A k \in 1 .. t - 1 : s[k] \notin out
  BY DEF Fresh
<1>2. PICK k \in 1 .. Len(s) : s[k] = c
  BY DEF Has
<1>3. k \notin 1 .. t - 1
  BY <1>1, <1>2
<1>4. k \in t .. Len(s)
  BY <1>1, <1>3
<1> QED BY <1>1, <1>2, <1>4

(* A cycle of a program's own collector, as its freshness goes.            *)
LEMMA TickFresh ==
  ASSUME CircuitInv, ambr \in Rate, faults \in Nat,
         NEW V, ambr \in V, faults' # faults => 0 \in V, NEW pub \in BOOLEAN, NEW out \in SUBSET Collector,
         Fresh(smf, seen, V, pub, out),
         \/ Stamp(Tick) \/ ReadSessions(Tick) \/ Insert(Tick, FALSE)
         \/ Insert(Tick, TRUE) \/ CycleFails(Tick)
  PROVE  /\ Fresh(smf', seen', V, pub, out)
         /\ Insert(Tick, FALSE) /\ Tick \in out => Fresh(smf', seen', V, TRUE, out)
<1> USE ValuesApart
<1>1. ASSUME Fresh(smf', seen', V, pub, out \cup {Tick}) PROVE Fresh(smf', seen', V, pub, out)
  BY <1>1, FreshLess
<1>2. CASE Stamp(Tick)
  <2>1. \A W : \A less \in SUBSET Collector : \A p \in BOOLEAN :
              Fresh(smf, seen, W, p, less) => Fresh(smf', seen', W, p, less \cup {Tick})
    BY <1>2, StampStep
  <2>2. Fresh(smf', seen', V, pub, out)
    BY <1>1, <2>1
  <2>3. ~Insert(Tick, FALSE)
    BY <1>2 DEF Stamp, Insert
  <2> QED BY <2>2, <2>3
<1>3. CASE ReadSessions(Tick)
  BY <1>3, ReadStep DEF Insert, ReadSessions
<1>4. CASE Insert(Tick, FALSE)
  <2>1. /\ Running(Tick) /\ seen[Tick] # None /\ smf' = Inserted(Tick)
        /\ seen' = [seen EXCEPT ![Tick] = None]
    BY <1>4 DEF Insert
  <2>2. \A W : \A less \in SUBSET Collector : \A p \in BOOLEAN :
              Fresh(smf, seen, W, p, less) =>
                /\ Fresh(smf', seen', W, p, less \cup {Tick})
                /\ Tick \in less => Fresh(smf', seen', W, TRUE, less)
    BY <2>1, InsertStep
  <2> QED BY <1>1, <2>2
<1>5. CASE Insert(Tick, TRUE) \/ CycleFails(Tick)
  <2>1. smf' = Without(Tick) /\ seen' = [seen EXCEPT ![Tick] = None]
    BY <1>5 DEF Insert, CycleFails
  <2>2. \A W : \A less \in SUBSET Collector : \A p \in BOOLEAN :
              Fresh(smf, seen, W, p, less) => Fresh(smf', seen', W, p, less \cup {Tick})
    BY <2>1, WithoutStep
  <2>3. Fresh(smf', seen', V, pub, out)
    BY <1>1, <2>2
  <2>4. CASE Insert(Tick, FALSE)
    BY <1>4, <2>4
  <2> QED BY <2>3, <2>4
<1> QED BY <1>2, <1>3, <1>4, <1>5

(***************************************************************************)
(* The scripted controller.                                                *)
(***************************************************************************)
ShownInv ==
  /\ spc \in {"tick", "readback"} /\ steps > 0 => ambr = target
  /\ spc = "tick" /\ steps > 0 => Fresh(smf, seen, {target, 0}, FALSE, {Tick})
  /\ spc = "readback" => steps > 0 /\ (~Isolated => Fresh(smf, seen, {target, 0}, TRUE, {}))

LEMMA DaemonFresh ==
  ASSUME CircuitInv, ambr \in Rate, faults \in Nat, DaemonCycle \/ KillDaemon,
         NEW V, ambr \in V, faults' # faults => 0 \in V, NEW pub \in BOOLEAN, NEW out \in SUBSET Collector,
         Fresh(smf, seen, V, pub, out)
  PROVE  Fresh(smf', seen', V, pub, out)
BY DaemonStep

LEMMA ShownStep == ASSUME HostInv, ShownInv, [Next]_vars PROVE ShownInv'
<1> USE ValuesApart
<1>0. /\ CircuitInv /\ ambr \in Rate /\ faults \in Nat /\ target \in Rate /\ steps \in Nat
      /\ Len(smf) \in Nat
  BY LenProperties DEF HostInv, ProgramInv, ScriptInv, CircuitInv
<1>1. ASSUME spc' \notin {"tick", "readback"} PROVE ShownInv'
  BY <1>1 DEF ShownInv
<1>2. ASSUME UNCHANGED <<ambr, smf, seen, spc, steps, target, arm>> PROVE ShownInv'
  BY <1>2 DEF ShownInv, Isolated
<1>3. ASSUME Collects PROVE ShownInv'
  <2>1. (DaemonCycle \/ KillDaemon) /\ UNCHANGED <<spc, steps, target, arm>>
    BY <1>3 DEF Collects, script
  <2>2. ambr' = ambr
    BY <1>0, <2>1, DaemonStep
  <2>3. ASSUME NEW pub \in BOOLEAN, NEW out \in SUBSET Collector, ambr = target,
               Fresh(smf, seen, {target, 0}, pub, out)
        PROVE  Fresh(smf', seen', {target, 0}, pub, out)
    BY <1>0, <2>1, <2>3, DaemonFresh
  <2> QED BY <1>0, <2>1, <2>2, <2>3 DEF ShownInv, Isolated
<1>4. ASSUME Campaigns \/ Behavioural \/ Wave \/ Suite PROVE ShownInv'
  <2>1. spc = "none" /\ spc' = spc
    BY <1>4 DEF Campaigns, Behavioural, Wave, Suite, HostInv, ProgramInv, AloneInv, script
  <2> QED BY <1>1, <2>1
<1>5. ASSUME Scripted PROVE ShownInv'
  <2>0. NextScript /\ (Has(smf, Tick) => spc = "tick")
    BY <1>5 DEF Scripted, HostInv, ProgramInv, AloneInv, TickHome, TickPlace
  <2> USE DEF circuit
  <2>1. CASE StartScript \/ ReadBack \/ EndScript \/ CrashScript
    BY <1>1, <2>1 DEF StartScript, ReadBack, EndScript, CrashScript
  <2>2. CASE StartSession
    BY <2>2 DEF StartSession, ShownInv
  <2>3. CASE ScriptWrite
    <3>1. CASE spc' = "idle"
      BY <1>1, <3>1
    <3>2. CASE ambr' = Target /\ spc' = "tick"
      <4>1. /\ ambr' = target' /\ smf' = smf /\ seen' = seen
        BY <2>3, <3>2 DEF ScriptWrite
      <4>2. ~Has(smf, Tick)
        BY <2>0, <2>3 DEF ScriptWrite
      <4>3. Fresh(smf', seen', {target', 0}, FALSE, {Tick})
        BY <1>0, <4>1, <4>2, FreshNow
      <4> QED BY <3>2, <4>1, <4>3 DEF ShownInv
    <3> QED BY <2>3, <3>1, <3>2 DEF ScriptWrite
  <2>4. CASE ScriptTick
    <3>0. /\ spc = "tick" /\ UNCHANGED <<arm, steps, target>>
          /\ \/ Stamp(Tick) \/ ReadSessions(Tick) \/ Insert(Tick, FALSE)
             \/ Insert(Tick, TRUE) \/ CycleFails(Tick)
      BY <2>4 DEF ScriptTick, Isolated
    <3>1. ambr' = ambr
      BY <3>0 DEF Stamp, ReadSessions, Insert, CycleFails
    <3>2. ASSUME steps > 0
          PROVE  /\ Fresh(smf', seen', {target, 0}, FALSE, {Tick})
                 /\ Insert(Tick, FALSE) => Fresh(smf', seen', {target, 0}, TRUE, {})
      <4>1. ambr = target /\ Fresh(smf, seen, {target, 0}, FALSE, {Tick})
        BY <3>0, <3>2 DEF ShownInv
      <4>2. /\ Fresh(smf', seen', {target, 0}, FALSE, {Tick})
            /\ Insert(Tick, FALSE) => Fresh(smf', seen', {target, 0}, TRUE, {Tick})
        BY <1>0, <3>0, <4>1, TickFresh
      <4>3. Fresh(smf', seen', {target, 0}, TRUE, {Tick}) => Fresh(smf', seen', {target, 0}, TRUE, {})
        BY FreshLess
      <4> QED BY <4>2, <4>3
    <3>3. CASE (Stamp(Tick) \/ ReadSessions(Tick)) /\ UNCHANGED spc
      BY <1>0, <3>0, <3>1, <3>2, <3>3 DEF ShownInv, Isolated
    <3>4. CASE Insert(Tick, Isolated) /\ spc' = IF steps = 0 THEN "write" ELSE "readback"
      <4>1. ~Isolated => Insert(Tick, FALSE)
        BY <3>4 DEF Isolated
      <4>2. CASE steps = 0
        BY <1>1, <3>4, <4>2
      <4>3. CASE steps > 0
        <5>1. /\ spc' = "readback" /\ steps' = steps /\ target' = target /\ arm' = arm
              /\ ambr' = target'
          BY <3>0, <3>1, <3>4, <4>3 DEF ShownInv
        <5>2. ~Isolated' => Fresh(smf', seen', {target', 0}, TRUE, {})
          BY <3>2, <4>1, <4>3, <5>1 DEF Isolated
        <5> QED BY <4>3, <5>1, <5>2 DEF ShownInv
      <4> QED BY <1>0, <4>2, <4>3
    <3>5. CASE spc' = "none"
      BY <1>1, <3>5
    <3> QED BY <2>4, <3>3, <3>4, <3>5 DEF ScriptTick
  <2> QED BY <2>0, <2>1, <2>2, <2>3, <2>4 DEF NextScript
<1>6. ASSUME UNCHANGED vars PROVE ShownInv'
  BY <1>2, <1>6 DEF vars, circuit, script
<1> QED BY <1>3, <1>4, <1>5, <1>6 DEF Next

LEMMA ReadbackIsFresh == ASSUME HostInv, ShownInv PROVE FreshReadback
<1> SUFFICES ASSUME spc = "readback", ~Isolated, ReadR \notin {None, 0} PROVE Confirms(ReadR, target)
  BY DEF FreshReadback
<1>1. CircuitInv /\ target \in Nat /\ target # 0 /\ target # None
  BY ValuesApart DEF HostInv, ProgramInv, ScriptInv
<1>2. Latest \in {target, 0}
  BY <1>1, FreshLatest DEF ShownInv
<1>3. ReadR = target
  BY <1>2 DEF ReadR
<1>4. 20 * (target - target) \in 1 - target .. target - 1
  BY <1>1
<1> QED BY <1>1, <1>3, <1>4 DEF Confirms

(***************************************************************************)
(* The behavioural arms.                                                   *)
(***************************************************************************)
RaiseInv ==
  /\ shown \in BOOLEAN
  /\ bpc = "show" => Fresh(smf, seen, {ambr, 0}, FALSE, {Tick})
  /\ bpc \in {"show", "judge"} /\ shown =>
       ambr = Raised /\ (~Clean => Fresh(smf, seen, {ambr, 0}, TRUE, {}))

LEMMA RaiseStep == ASSUME HostInv, RaiseInv, [Next]_vars PROVE RaiseInv'
<1> USE ValuesApart
<1>0. /\ CircuitInv /\ ambr \in Rate /\ faults \in Nat /\ Len(smf) \in Nat /\ Raised \in Rate
  BY LenProperties, ArmsAssumption DEF HostInv, CircuitInv
<1>1. ASSUME bpc' \notin {"show", "judge"}, shown' \in BOOLEAN PROVE RaiseInv'
  BY <1>1 DEF RaiseInv
<1>2. ASSUME UNCHANGED <<ambr, smf, seen, bpc, cond, shown>> PROVE RaiseInv'
  BY <1>2 DEF RaiseInv, Clean
<1>3. ASSUME Collects PROVE RaiseInv'
  <2>1. (DaemonCycle \/ KillDaemon) /\ UNCHANGED <<bpc, cond, shown>>
    BY <1>3 DEF Collects, arms
  <2>2. ambr' = ambr
    BY <1>0, <2>1, DaemonStep
  <2>3. ASSUME NEW pub \in BOOLEAN, NEW out \in SUBSET Collector, Fresh(smf, seen, {ambr, 0}, pub, out)
        PROVE  Fresh(smf', seen', {ambr, 0}, pub, out)
    BY <1>0, <2>1, <2>3, DaemonFresh
  <2> QED BY <2>1, <2>2, <2>3 DEF RaiseInv, Clean
<1>4. ASSUME Campaigns \/ Scripted \/ Wave \/ Suite PROVE RaiseInv'
  <2>1. bpc = "none" /\ bpc' = bpc /\ shown' = shown
    BY <1>4 DEF Campaigns, Scripted, Wave, Suite, HostInv, ProgramInv, AloneInv, arms
  <2> QED BY <1>1, <2>1 DEF RaiseInv
<1>5. ASSUME Behavioural PROVE RaiseInv'
  <2>0. NextArms /\ (Has(smf, Tick) => bpc \in {"seed", "show"}) /\ shown \in BOOLEAN
    BY <1>5 DEF Behavioural, HostInv, ProgramInv, AloneInv, TickHome, TickPlace, RaiseInv
  <2> USE DEF circuit
  <2>1. CASE StartArms \/ PauseCollectors \/ Purge \/ Seeded \/ ResetTrial
    BY <1>1, <2>0, <2>1 DEF StartArms, PauseCollectors, Purge, Seeded, ResetTrial
  <2>2. CASE EndTrialOfArm \/ LastReset \/ ResumeCollectors \/ TrialRaises \/ KillArms
    BY <1>1, <2>0, <2>2 DEF EndTrialOfArm, LastReset, ResumeCollectors, TrialRaises, KillArms
  <2>3. CASE RaiseTarget
    <3>1. ~Has(smf, Tick) /\ bpc' = "show" /\ shown' = FALSE /\ smf' = smf /\ seen' = seen
      BY <2>0, <2>3 DEF RaiseTarget
    <3>2. Fresh(smf', seen', {ambr', 0}, FALSE, {Tick})
      BY <1>0, <3>1, FreshNow
    <3> QED BY <3>1, <3>2 DEF RaiseInv
  <2>4. CASE BeginJudging
    BY <2>4 DEF BeginJudging, RaiseInv, Clean
  <2>5. CASE AgentWrite
    BY <2>5 DEF AgentWrite, RaiseInv
  <2>6. CASE RunCycle
    <3>0. /\ UNCHANGED <<bpc, cond, ambr>> /\ bpc \in {"seed", "show"}
          /\ \/ Stamp(Tick) \/ ReadSessions(Tick) \/ Insert(Tick, FALSE)
             \/ Insert(Tick, TRUE) \/ CycleFails(Tick)
      BY <2>6 DEF RunCycle, Clean, Stamp, ReadSessions, Insert, CycleFails
    <3>1. shown' = shown \/ (Insert(Tick, Clean) /\ shown' = (shown \/ seen[Tick] = Raised))
      BY <2>6 DEF RunCycle
    <3>2. shown' \in BOOLEAN
      BY <2>0, <3>1
    <3>3. CASE bpc = "seed"
      BY <1>1, <3>0, <3>2, <3>3
    <3>4. CASE bpc = "show"
      <4>1. Fresh(smf, seen, {ambr, 0}, FALSE, {Tick})
        BY <3>4 DEF RaiseInv
      <4>2. /\ Fresh(smf', seen', {ambr, 0}, FALSE, {Tick})
            /\ Insert(Tick, FALSE) => Fresh(smf', seen', {ambr, 0}, TRUE, {})
        <5>1. /\ Fresh(smf', seen', {ambr, 0}, FALSE, {Tick})
              /\ Insert(Tick, FALSE) => Fresh(smf', seen', {ambr, 0}, TRUE, {Tick})
          BY <1>0, <3>0, <4>1, TickFresh
        <5>2. Fresh(smf', seen', {ambr, 0}, TRUE, {Tick}) => Fresh(smf', seen', {ambr, 0}, TRUE, {})
          BY FreshLess
        <5> QED BY <5>1, <5>2
      <4>3. ASSUME shown PROVE ambr = Raised /\ (~Clean => Fresh(smf', seen', {ambr, 0}, TRUE, {}))
        <5>1. ambr = Raised /\ (~Clean => Fresh(smf, seen, {ambr, 0}, TRUE, {}))
          BY <3>4, <4>3 DEF RaiseInv
        <5>2. Fresh(smf, seen, {ambr, 0}, TRUE, {}) => Fresh(smf', seen', {ambr, 0}, TRUE, {})
          BY <1>0, <3>0, TickFresh
        <5> QED BY <5>1, <5>2
      <4>4. ASSUME Insert(Tick, Clean), seen[Tick] = Raised
            PROVE  ambr = Raised /\ (~Clean => Fresh(smf', seen', {ambr, 0}, TRUE, {}))
        <5>1. Has(smf, Tick)
          BY <1>0, <4>4, RunningHas DEF Insert
        <5>2. seen[Tick] \in {ambr, 0} \cup {None}
          BY <1>0, <4>1, <5>1, FreshSeen
        <5>3. ~Clean => Insert(Tick, FALSE)
          BY <4>4 DEF Clean
        <5> QED BY <1>0, <4>2, <4>4, <5>2, <5>3
      <4>5. shown' => ambr = Raised /\ (~Clean => Fresh(smf', seen', {ambr, 0}, TRUE, {}))
        BY <3>1, <4>3, <4>4
      <4> QED BY <3>0, <3>2, <4>2, <4>5 DEF RaiseInv, Clean
    <3> QED BY <3>0, <3>3, <3>4
  <2> QED BY <2>0, <2>1, <2>2, <2>3, <2>4, <2>5, <2>6 DEF NextArms
<1>6. ASSUME UNCHANGED vars PROVE RaiseInv'
  BY <1>2, <1>6 DEF vars, circuit, arms
<1> QED BY <1>3, <1>4, <1>5, <1>6 DEF Next

LEMMA RaiseIsShown == ASSUME HostInv, RaiseInv PROVE TargetIsShown
<1> SUFFICES ASSUME bpc = "judge", ~Clean, shown PROVE Latest \in {Raised, 0}
  BY DEF TargetIsShown
<1>1. CircuitInv /\ ambr = Raised /\ Fresh(smf, seen, {ambr, 0}, TRUE, {})
  BY DEF HostInv, RaiseInv
<1> QED BY <1>1, FreshLatest

(***************************************************************************)
(* The newest record in a wave and in a suite.                             *)
(***************************************************************************)
(* What is left of a program can only run where no records were taken out  *)
(* or put back since the last write.                                       *)
NeedsFresh(s, tasks) == \A a, e : Runs(s, tasks, a, e) => "fresh" \in a.sure

(* A cycle of the daemon that was under way at a write ends in the first   *)
(* round of a wait, and the next cycle publishes the rate.                 *)
Waiting ==
  calm = "set" /\ (At("wait") \/ At("pause")) =>
    /\ waits < WaitCycles => Fresh(smf, seen, {ambr}, FALSE, {Daemon})
    /\ waits < WaitCycles - 1 => Fresh(smf, seen, {ambr}, TRUE, {Daemon})

OwnCycle ==
  calm = "set" /\ At("tick") /\ Has(smf, Tick) /\ seen[Tick] \in {None, ambr} =>
    Fresh(smf, seen, {ambr}, FALSE, {Tick})

Settled ==
  calm = "rested" =>
    /\ program = "wave" => Fresh(smf, seen, {ambr}, TRUE, {Daemon}) \/ AllIn(smf, seen, {ambr})
    /\ On /\ NeedsFresh(suite, ops) => Fresh(smf, seen, {ambr}, TRUE, {})

CalmInv ==
  /\ waits \in Nat /\ Waiting /\ OwnCycle /\ Settled
  /\ program = "suite" /\ ~On => calm = "unset"

(* The readers need it, and only writes bring it about.                    *)
LEMMA ReaderNeeds ==
  ASSUME NEW tasks, tasks # << >>, Head(tasks) \in {"agent", "read", "judge"}
  PROVE  NeedsFresh(suite, tasks)
<1> SUFFICES ASSUME NEW a, NEW e, Runs(suite, tasks, a, e) PROVE "fresh" \in a.sure
  BY DEF NeedsFresh
<1>1. Needs(suite, a, Head(tasks))
  BY NextOperation
<1> QED BY <1>1 DEF Needs

LEMMA NeededBefore ==
  ASSUME NEW tasks, tasks # << >>, Head(tasks) \notin Writes, NeedsFresh(suite, Tail(tasks))
  PROVE  NeedsFresh(suite, tasks)
<1> SUFFICES ASSUME NEW a, NEW e, Runs(suite, tasks, a, e) PROVE "fresh" \in a.sure
  BY DEF NeedsFresh
<1>1. PICK c : Runs(suite, Tail(tasks), c, e) /\ Grants(a, Head(tasks), c)
  BY NextOperation
<1>2. "fresh" \in c.sure
  BY <1>1 DEF NeedsFresh
<1> QED BY <1>1, <1>2 DEF Grants

LEMMA NotAfterExchange ==
  ASSUME SuiteInv, On, ops # << >>, Head(ops) \in {"mask", "unmask", "flush"}
  PROVE  ~NeedsFresh(suite, Tail(ops))
<1> SUFFICES ASSUME NeedsFresh(suite, Tail(ops)) PROVE FALSE
  OBVIOUS
<1>1. PICK a, e : Runs(suite, ops, a, e)
  BY DEF SuiteInv
<1>2. PICK c : Runs(suite, Tail(ops), c, e) /\ Grants(a, Head(ops), c)
  BY <1>1, NextOperation
<1>3. "fresh" \in c.sure
  BY <1>2 DEF NeedsFresh
<1> QED BY <1>2, <1>3 DEF Grants, Writes

LEMMA NotAtTheEnd ==
  ASSUME NEW s PROVE ~NeedsFresh(s, << >>) /\ ~NeedsFresh(s, <<"pause", "restore">>)
<1>1. "fresh" \notin K("none", "any", {}, "any").sure /\ "fresh" \notin K("none", "any", {"found"}, "any").sure
  BY DEF K
<1>2. ~NeedsFresh(s, << >>)
  BY <1>1, RunsNowhere DEF NeedsFresh
<1>3. ~NeedsFresh(s, <<"pause", "restore">>)
  BY <1>1, GiveUpLeads DEF NeedsFresh
<1> QED BY <1>2, <1>3

(* A wait that begins.                                                     *)
LEMMA ThenWaits ==
  ASSUME NEW rest, Then(rest)
  PROVE  /\ ops' = rest /\ waits' \in Nat
         /\ At("wait")' \/ At("pause")' => waits' = WaitCycles
BY WaveTrialsAssumption DEF Then, At

LEMMA CalmGone ==
  ASSUME waits' \in Nat, calm' \notin {"set", "rested"}, program' = "suite" /\ ~On' => calm' = "unset"
  PROVE  CalmInv'
BY DEF CalmInv, Waiting, OwnCycle, Settled

LEMMA CalmSet ==
  ASSUME NEW rest, Then(rest), calm' \in {"set", "unset"}, ~Has(smf', Tick), program' = "suite" => On'
  PROVE  CalmInv'
<1>1. waits' \in Nat /\ (At("wait")' \/ At("pause")' => waits' = WaitCycles) /\ WaitCycles \in Nat
  BY ThenWaits, WaveTrialsAssumption
<1>2. At("wait")' \/ At("pause")' => ~(waits' < WaitCycles) /\ ~(waits' < WaitCycles - 1)
  BY <1>1
<1>3. Waiting'
  BY <1>2 DEF Waiting
<1> QED BY <1>1, <1>3 DEF CalmInv, OwnCycle, Settled

(* An operation is over that leaves the rate, and the records fresh where  *)
(* they must be.                                                           *)
LEMMA CalmStays ==
  ASSUME CalmInv, NEW rest, Then(rest), calm' = calm, ~Has(smf', Tick), UNCHANGED <<program, suite>>,
         On \/ program # "suite", calm = "rested" => Settled'
  PROVE  CalmInv'
<1>1. waits' \in Nat /\ (At("wait")' \/ At("pause")' => waits' = WaitCycles) /\ WaitCycles \in Nat
  BY ThenWaits, WaveTrialsAssumption
<1>2. At("wait")' \/ At("pause")' => ~(waits' < WaitCycles) /\ ~(waits' < WaitCycles - 1)
  BY <1>1
<1>3. Waiting'
  BY <1>2 DEF Waiting
<1>4. Settled'
  BY DEF Settled
<1> QED BY <1>1, <1>3, <1>4 DEF CalmInv, OwnCycle, On

LEMMA CalmQuiet ==
  ASSUME CalmInv, NEW rest, Then(rest), UNCHANGED <<ambr, smf, seen, calm, program, suite>>,
         ~Has(smf, Tick), On \/ program # "suite",
         On /\ NeedsFresh(suite, rest) => NeedsFresh(suite, ops)
  PROVE  CalmInv'
<1>1. ops' = rest
  BY ThenWaits
<1>2. calm = "rested" => Settled'
  BY <1>1 DEF CalmInv, Settled, On
<1> QED BY <1>2, CalmStays

(***************************************************************************)
(* A step of the daemon.                                                   *)
(***************************************************************************)
LEMMA CalmCollects == ASSUME HostInv, CalmInv, Collects PROVE CalmInv'
<1> USE ValuesApart
<1>0. /\ CircuitInv /\ ambr \in Rate /\ faults \in Nat /\ (DaemonCycle \/ KillDaemon)
      /\ UNCHANGED <<wpc, wave, ops, suite, program>>
      /\ waits' = IF waits > 0 /\ seen[Daemon] # None /\ seen'[Daemon] = None THEN waits - 1 ELSE waits
      /\ calm' = IF faults' # faults /\ calm \in {"set", "rested"} THEN "shaken" ELSE calm
  BY DEF Collects, HostInv, Elapses, suiteVars
<1>1. /\ ambr' = ambr /\ seen'[Tick] = seen[Tick] /\ (Has(smf', Tick) <=> Has(smf, Tick))
  BY <1>0, DaemonStep
<1>2. waits' \in Nat
  BY <1>0 DEF CalmInv
<1>3. CASE calm' \notin {"set", "rested"}
  <2>1. program' = "suite" /\ ~On' => calm' = "unset"
    BY <1>0 DEF CalmInv, On
  <2> QED BY <1>2, <1>3, <2>1, CalmGone
<1>4. CASE calm' \in {"set", "rested"}
  <2>0. calm' = calm /\ faults' = faults
    BY <1>0, <1>4
  <2>1. \A V : \A out \in SUBSET Collector : \A pub \in BOOLEAN :
              /\ ambr \in V /\ (faults' # faults => 0 \in V)
              /\ Fresh(smf, seen, V, pub, out)
              => /\ Fresh(smf', seen', V, pub, out)
                 /\ seen[Daemon] # None /\ seen'[Daemon] = None =>
                      /\ Fresh(smf', seen', V, pub, out \cup {Daemon})
                      /\ Daemon \in out => faults' # faults \/ Fresh(smf', seen', V, TRUE, out)
    BY <1>0, DaemonStep
  <2>2. ASSUME NEW out \in SUBSET Collector, NEW pub \in BOOLEAN, Fresh(smf, seen, {ambr}, pub, out)
        PROVE  /\ Fresh(smf', seen', {ambr}, pub, out)
               /\ seen[Daemon] # None /\ seen'[Daemon] = None =>
                    /\ Fresh(smf', seen', {ambr}, pub, out \cup {Daemon})
                    /\ Daemon \in out => Fresh(smf', seen', {ambr}, TRUE, out)
    BY <2>0, <2>1, <2>2
  <2>3. OwnCycle'
    BY <1>0, <1>1, <2>0, <2>2 DEF CalmInv, OwnCycle, At
  <2>4. Settled'
    <3>1. AllIn(smf, seen, {ambr}) => AllIn(smf', seen', {ambr})
      BY <1>0, <2>0, DaemonIn
    <3>2. NeedsFresh(suite, ops)' <=> NeedsFresh(suite, ops)
      BY <1>0
    <3> QED BY <1>0, <1>1, <2>0, <2>2, <3>1, <3>2 DEF CalmInv, Settled, On
  <2>5. Waiting'
    <3>1. SUFFICES ASSUME calm = "set", At("wait") \/ At("pause")
                   PROVE  /\ waits' < WaitCycles => Fresh(smf', seen', {ambr}, FALSE, {Daemon})
                          /\ waits' < WaitCycles - 1 => Fresh(smf', seen', {ambr}, TRUE, {Daemon})
      BY <1>0, <1>1, <2>0 DEF Waiting, At
    <3>2. /\ waits < WaitCycles => Fresh(smf, seen, {ambr}, FALSE, {Daemon})
          /\ waits < WaitCycles - 1 => Fresh(smf, seen, {ambr}, TRUE, {Daemon})
          /\ waits \in Nat /\ WaitCycles \in Nat
      BY <3>1, WaveTrialsAssumption DEF CalmInv, Waiting
    <3>3. CASE waits' = waits
      BY <2>2, <3>2, <3>3
    <3>4. CASE waits' = waits - 1 /\ seen[Daemon] # None /\ seen'[Daemon] = None
      <4>1. Fresh(smf, seen, {ambr}, FALSE, {})
        <5>1. Len(smf) \in Nat
          BY <1>0, LenProperties DEF CircuitInv
        <5> QED BY <5>1, FreshNow
      <4>2. Fresh(smf', seen', {ambr}, FALSE, {} \cup {Daemon})
        BY <2>2, <3>4, <4>1
      <4>3. {} \cup {Daemon} = {Daemon}
        OBVIOUS
      <4>4. Fresh(smf', seen', {ambr}, FALSE, {Daemon})
        BY <4>2, <4>3
      <4>5. waits' < WaitCycles - 1 => waits < WaitCycles
        BY <3>2, <3>4
      <4>6. Fresh(smf, seen, {ambr}, FALSE, {Daemon}) => Fresh(smf', seen', {ambr}, TRUE, {Daemon})
        BY <2>2, <3>4
      <4> QED BY <3>2, <4>4, <4>5, <4>6
    <3> QED BY <1>0, <3>3, <3>4
  <2>6. program' = "suite" /\ ~On' => calm' = "unset"
    BY <1>0, <2>0 DEF CalmInv, On
  <2> QED BY <1>2, <2>3, <2>4, <2>5, <2>6 DEF CalmInv
<1> QED BY <1>3, <1>4

(***************************************************************************)
(* A wave.                                                                 *)
(***************************************************************************)
LEMMA BeginWaits ==
  ASSUME NEW sts, NEW before, Begin(sts, before) PROVE \E rest : Then(rest)
BY DEF Begin

(* The wait is over: the newest record shows the rate that was set.        *)
LEMMA RestedIsFresh ==
  ASSUME CalmInv, WaitOver, calm' = "rested"
  PROVE  calm = "rested" \/ Fresh(smf, seen, {ambr}, TRUE, {Daemon})
<1>1. CASE calm # "rested"
  <2>1. calm = "set" /\ (At("wait") \/ At("pause")) /\ waits = 0
    BY <1>1 DEF WaitOver
  <2>2. 0 < WaitCycles - 1
    BY WaveTrialsAssumption
  <2> QED BY <2>1, <2>2 DEF CalmInv, Waiting
<1> QED BY <1>1

(* Deleting records, old ones or all, leaves the newest one or none of an  *)
(* earlier rate.                                                           *)
LEMMA TrimmedIsFresh ==
  ASSUME CircuitInv, ~Has(smf, Tick), seen' = seen, NEW n \in Nat, ambr \in Rate,
         smf' = Part(smf, {k \in DOMAIN smf : k > n \/ smf[k] \in Collector}),
         Fresh(smf, seen, {ambr}, TRUE, {Daemon}) \/ AllIn(smf, seen, {ambr})
  PROVE  Fresh(smf', seen', {ambr}, TRUE, {Daemon}) \/ AllIn(smf', seen', {ambr})
<1> USE ValuesApart
<1> DEFINE I == {k \in DOMAIN smf : k > n \/ smf[k] \in Collector}
           V == {ambr}
           old == smf
           new == smf'
           sn == seen
           sn2 == seen'
<1>0. /\ \A k \in 1 .. Len(smf) : k \in I <=> k > n \/ smf[k] \in Collector
      /\ Len(smf) \in Nat /\ smf' = Part(smf, I) /\ seen \in [Collector -> Rate \cup {0, None}]
      /\ \A c \in Collector : seen[c] # None => Has(smf, c)
  BY LenProperties DEF CircuitInv
<1> HIDE DEF I
<1>1. PICK g : /\ Keeps(smf', smf, Collector, g) /\ \A k \in 1 .. Len(smf') : g[k] \in I
               /\ \A m \in 1 .. Len(smf) : m \in I => \E k \in 1 .. Len(smf') : g[k] = m
  <2>1. smf \in Seq(Values)
    BY DEF CircuitInv
  <2>2. \E g : Thins(Part(smf, I), smf, I, g)
    BY <2>1, PartThins
  <2>3. PICK g : Thins(smf', smf, I, g)
    BY <1>0, <2>2
  <2>4. Keeps(smf', smf, Collector, g)
    BY <1>0, <2>3 DEF Thins, Keeps
  <2>5. \A k \in 1 .. Len(smf') : g[k] \in I
    BY <2>3 DEF Thins
  <2>6. \A m \in 1 .. Len(smf) : m \in I => \E k \in 1 .. Len(smf') : g[k] = m
    BY <2>3 DEF Thins
  <2> QED BY <2>4, <2>5, <2>6
<1>2. CircuitInv' /\ Len(smf') \in Nat
  BY <1>0, PurgeStep, LenProperties DEF CircuitInv
<1> HIDE DEF V, old, new, sn, sn2
<1>3. Keeps(new, old, Collector, g) /\ sn2 = sn /\ Len(old) \in Nat /\ Len(new) \in Nat
  BY <1>0, <1>1, <1>2 DEF old, new, sn, sn2
<1>4. CASE AllIn(smf, seen, {ambr})
  <2>1. (\A k \in 1 .. Len(old) : old[k] \in V \cup Collector) /\ \A c \in Collector : sn[c] \in V \cup {None}
    BY <1>4 DEF AllIn, old, sn, V
  <2>2. \A k \in 1 .. Len(new) : new[k] \in V \cup Collector
    BY <1>3, <2>1, KeepsIn
  <2>3. AllIn(new, sn2, V)
    BY <1>3, <2>1, <2>2 DEF AllIn
  <2> QED BY <2>3 DEF new, sn2, V
<1>5. CASE Fresh(smf, seen, {ambr}, TRUE, {Daemon})
  <2>1. PICK t \in 1 .. Len(smf) + 1 :
          /\ \A k \in t .. Len(smf) : IF smf[k] \in Collector THEN seen[smf[k]] \in {ambr} \cup {None} ELSE smf[k] \in {ambr}
          /\ \E k \in t .. Len(smf) : smf[k] \notin Collector
          /\ \A k \in 1 .. t - 1 : smf[k] \notin {Daemon}
    BY <1>5 DEF Fresh
  <2>2. \A k \in 1 .. t - 1 : smf[k] \notin Collector
    BY <1>0, <2>1 DEF Has
  <2>3. CASE n >= t - 1
    <3>1. ASSUME NEW k \in 1 .. Len(smf') PROVE smf'[k] \in {ambr} \cup Collector
      <4>1. g[k] \in 1 .. Len(smf) /\ smf'[k] = smf[g[k]] /\ g[k] \in I
        BY <1>1 DEF Keeps
      <4>2. g[k] > n \/ smf[g[k]] \in Collector
        BY <1>0, <4>1
      <4>3. g[k] \in t .. Len(smf)
        BY <1>0, <2>1, <2>2, <2>3, <4>1, <4>2
      <4> QED BY <2>1, <4>1, <4>3
    <3>2. ASSUME NEW c \in Collector PROVE seen[c] \in {ambr} \cup {None}
      <4>1. CASE seen[c] # None
        <5>1. PICK k \in 1 .. Len(smf) : smf[k] = c
          BY <1>0, <4>1 DEF Has
        <5>2. k \in t .. Len(smf)
          BY <1>0, <2>1, <2>2, <5>1
        <5> QED BY <2>1, <5>1, <5>2
      <4> QED BY <4>1
    <3> QED BY <3>1, <3>2 DEF AllIn
  <2>4. CASE n < t - 1
    <3>1. ASSUME NEW m \in 1 .. Len(smf), smf[m] \notin Collector
          PROVE  \E k \in 1 .. Len(smf') : smf'[k] \notin Collector /\ g[k] >= m
      <4>1. PICK j \in t .. Len(smf) : smf[j] \notin Collector
        BY <2>1
      <4>2. PICK l \in 1 .. Len(smf) : smf[l] \notin Collector /\ l >= m /\ l > n
        BY <1>0, <2>1, <2>4, <3>1, <4>1
      <4>3. PICK k \in 1 .. Len(smf') : g[k] = l
        BY <1>0, <1>1, <4>2
      <4>4. smf'[k] = smf[l]
        BY <1>1, <4>3 DEF Keeps
      <4> QED BY <4>2, <4>3, <4>4
    <3>2. KeepsNewest(new, old, g)
      BY <3>1 DEF KeepsNewest, new, old
    <3>3. Fresh(old, sn, V, TRUE, {Daemon})
      BY <1>5 DEF old, sn, V
    <3>4. Fresh(new, sn2, V, TRUE, {Daemon})
      BY <1>3, <3>2, <3>3, KeepsFresh
    <3> QED BY <3>4 DEF new, sn2, V
  <2>5. t \in Nat /\ (n >= t - 1 \/ n < t - 1)
    BY <1>0, <2>1
  <2> QED BY <2>3, <2>4, <2>5
<1> QED BY <1>4, <1>5

LEMMA CalmWave == ASSUME HostInv, CalmInv, Wave PROVE CalmInv'
<1> USE ValuesApart
<1>0. /\ program = "wave" /\ program' = program /\ NextWave /\ suite' = suite
      /\ ambr \in Rate /\ faults \in Nat /\ CircuitInv /\ ~On /\ ~On' /\ ~Has(smf, Tick)
  BY DEF Wave, HostInv, ProgramInv, AloneInv, TickHome, TickPlace, suiteVars, On
<1>1. ASSUME NEW rest, Then(rest), UNCHANGED <<ambr, smf, seen, calm>> PROVE CalmInv'
  BY <1>0, <1>1, CalmQuiet
<1>2. ASSUME NEW rest, Then(rest), calm' \in {"set", "unset"}, smf' = smf PROVE CalmInv'
  BY <1>0, <1>2, CalmSet
<1>3. ASSUME NEW rest, Then(rest), calm' = Disturbed PROVE CalmInv'
  BY <1>0, <1>3, CalmGone, ThenWaits DEF Disturbed
<1>4. CASE LaunchWave
  <2>1. \E rest : Then(rest)
    BY <1>4, BeginWaits DEF LaunchWave
  <2> QED BY <1>1, <1>4, <2>1 DEF LaunchWave
<1>5. CASE NextTrial
  <2>1. \E rest : Then(rest)
    BY <1>5, BeginWaits DEF NextTrial
  <2> QED BY <1>1, <1>5, <2>1 DEF NextTrial, circuit
<1>6. CASE SetRate("reset", Baseline) \/ SetRate("congest", Congested)
  BY <1>2, <1>6 DEF SetRate, Goes
<1>7. CASE ProbeWrite
  BY <1>3, <1>7 DEF ProbeWrite, Goes
<1>8. CASE Poll
  BY <1>1, <1>8 DEF Poll, circuit
<1>9. CASE SessionWrite
  <2>1. waits' \in Nat /\ calm' \notin {"set", "rested"}
    BY <1>9 DEF SessionWrite, Disturbed, CalmInv
  <2> QED BY <1>0, <2>1, CalmGone
<1>10. CASE EndOfSession
  BY <1>1, <1>10 DEF EndOfSession, Goes, circuit
<1>11. CASE WaitOver
  <2>1. Then(Tail(ops)) /\ UNCHANGED <<ambr, smf, seen>>
    BY <1>11 DEF WaitOver, Goes, circuit
  <2>2. CASE calm' = calm
    BY <1>1, <2>1, <2>2
  <2>3. CASE calm' = "rested" /\ calm # "rested"
    <3>1. Fresh(smf', seen', {ambr'}, TRUE, {Daemon})
      BY <1>11, <2>1, <2>3, RestedIsFresh
    <3>2. waits' \in Nat
      BY <2>1, ThenWaits
    <3> QED BY <1>0, <2>3, <3>1, <3>2 DEF CalmInv, Waiting, OwnCycle, Settled
  <2> QED BY <1>11, <2>2, <2>3 DEF WaitOver
<1>12. CASE DeleteRecords
  <2>1. Then(Tail(ops)) /\ UNCHANGED <<ambr, seen, calm>>
    BY <1>12 DEF DeleteRecords, Goes
  <2>2. ~Has(smf', Tick)
    BY <1>0, <1>12, DeleteStep
  <2>3. CASE smf' = smf
    BY <1>1, <2>1, <2>3
  <2>4. ASSUME NEW n \in Nat, smf' = Part(smf, {k \in DOMAIN smf : k > n \/ smf[k] \in Collector})
        PROVE  CalmInv'
    <3>1. ASSUME calm = "rested" PROVE Settled'
      <4>1. Fresh(smf, seen, {ambr}, TRUE, {Daemon}) \/ AllIn(smf, seen, {ambr})
        BY <1>0, <3>1 DEF CalmInv, Settled
      <4>2. Fresh(smf', seen', {ambr}, TRUE, {Daemon}) \/ AllIn(smf', seen', {ambr})
        BY <1>0, <2>1, <2>4, <4>1, TrimmedIsFresh
      <4> QED BY <1>0, <2>1, <4>2 DEF Settled
    <3> QED BY <1>0, <2>1, <2>2, <3>1, CalmStays
  <2>5. Len(smf) \in Nat
    BY <1>0, LenProperties DEF CircuitInv
  <2>6. ASSUME NEW n \in IF At("trim") THEN 0 .. Len(smf) ELSE {Len(smf)} PROVE n \in Nat
    BY <2>5, <2>6
  <2>7. \/ smf' = smf
        \/ \E n \in IF At("trim") THEN 0 .. Len(smf) ELSE {Len(smf)} :
             smf' = Part(smf, {k \in DOMAIN smf : k > n \/ smf[k] \in Collector})
    BY <1>12 DEF DeleteRecords
  <2> QED BY <2>3, <2>4, <2>6, <2>7
<1>13. CASE TrialRaisesInWave
  <2>1. \E rest : Then(rest)
    BY <1>13, BeginWaits DEF TrialRaisesInWave
  <2>2. UNCHANGED <<ambr, smf, seen>> /\ calm' \in {calm, "unset"}
    BY <1>13 DEF TrialRaisesInWave
  <2> QED BY <1>1, <1>2, <2>1, <2>2
<1>14. CASE KillWave
  BY <1>1, <1>14 DEF KillWave
<1>15. CASE WaveEnded
  BY <1>0, <1>15 DEF WaveEnded, circuit, waveVars, CalmInv, Waiting, OwnCycle, Settled, At
<1> QED BY <1>0, <1>4, <1>5, <1>6, <1>7, <1>8, <1>9, <1>10, <1>11, <1>12, <1>13, <1>14, <1>15 DEF NextWave

(***************************************************************************)
(* A suite.                                                                *)
(***************************************************************************)
(* A cycle of its own.                                                     *)
LEMMA CalmTick == ASSUME HostInv, CalmInv, On, SuiteTick, program = "suite", program' = program PROVE CalmInv'
<1> USE ValuesApart
<1>0. /\ CircuitInv /\ ambr \in Rate /\ faults \in Nat /\ On /\ At("tick") /\ suite' = suite /\ On'
      /\ ops # << >> /\ Head(ops) \notin Writes
  BY DEF HostInv, SuiteTick, suiteVars, On, At, Writes
<1>1. ASSUME NEW V, ambr \in V, faults' # faults => 0 \in V, NEW pub \in BOOLEAN, NEW out \in SUBSET Collector,
             Fresh(smf, seen, V, pub, out),
             \/ Stamp(Tick) \/ ReadSessions(Tick) \/ Insert(Tick, FALSE)
             \/ Insert(Tick, TRUE) \/ CycleFails(Tick)
      PROVE  /\ Fresh(smf', seen', V, pub, out)
             /\ Insert(Tick, FALSE) /\ Tick \in out => Fresh(smf', seen', V, TRUE, out)
  BY <1>0, <1>1, TickFresh
<1>2. NeedsFresh(suite, Tail(ops)) => NeedsFresh(suite, ops)
  BY <1>0, NeededBefore
<1>3. CASE /\ Stamp(Tick) \/ ReadSessions(Tick)
           /\ calm' = IF faults' # faults /\ calm = "rested" THEN "shaken" ELSE calm
           /\ UNCHANGED <<ops, waits, wpc, wave, nthTrial>>
  <2>0. ambr' = ambr /\ ops' = ops /\ waits' = waits
    BY <1>3 DEF Stamp, ReadSessions
  <2>1. Waiting'
    BY <1>0, <2>0 DEF Waiting, At
  <2>2. ASSUME calm' = "rested" PROVE Settled'
    <3>1. calm = "rested" /\ faults' = faults
      BY <1>3, <2>2
    <3>2. NeedsFresh(suite, ops) => Fresh(smf, seen, {ambr}, TRUE, {})
      BY <1>0, <3>1 DEF CalmInv, Settled
    <3>3. Fresh(smf, seen, {ambr}, TRUE, {}) => Fresh(smf', seen', {ambr}, TRUE, {})
      BY <1>1, <1>3, <3>1
    <3> QED BY <1>0, <2>0, <3>2, <3>3 DEF Settled
  <2>3. Settled'
    BY <2>2 DEF Settled
  <2>4. OwnCycle'
    <3>1. SUFFICES ASSUME calm' = "set", seen'[Tick] \in {None, ambr}
                   PROVE  Fresh(smf', seen', {ambr}, FALSE, {Tick})
      BY <2>0 DEF OwnCycle
    <3>2. calm = "set"
      BY <1>3, <3>1
    <3>3. CASE Stamp(Tick)
      <4>1. Len(smf) \in Nat
        BY <1>0, LenProperties DEF CircuitInv
      <4>2. Fresh(smf, seen, {ambr}, FALSE, {})
        BY <4>1, FreshNow
      <4>3. \A W : \A less \in SUBSET Collector : \A p \in BOOLEAN :
                  Fresh(smf, seen, W, p, less) => Fresh(smf', seen', W, p, less \cup {Tick})
        BY <1>0, <3>3, StampStep
      <4>4. Fresh(smf', seen', {ambr}, FALSE, {} \cup {Tick})
        BY <4>2, <4>3
      <4>5. {} \cup {Tick} = {Tick}
        OBVIOUS
      <4> QED BY <4>4, <4>5
    <3>4. CASE ReadSessions(Tick)
      <4>1. Running(Tick) /\ seen[Tick] = None /\ seen \in [Collector -> Rate \cup {0, None}]
        BY <1>0, <3>4 DEF ReadSessions, CircuitInv
      <4>2. Has(smf, Tick)
        BY <1>0, <4>1, RunningHas
      <4>3. Fresh(smf, seen, {ambr}, FALSE, {Tick})
        BY <1>0, <3>2, <4>1, <4>2 DEF CalmInv, OwnCycle
      <4>4. faults' = faults
        <5>1. ASSUME seen' = [seen EXCEPT ![Tick] = 0] PROVE FALSE
          BY <1>0, <3>1, <4>1, <5>1
        <5> QED BY <3>4, <5>1 DEF ReadSessions
      <4> QED BY <1>1, <1>3, <4>3, <4>4
    <3> QED BY <1>3, <3>3, <3>4
  <2> QED BY <1>0, <2>0, <2>1, <2>3, <2>4 DEF CalmInv
<1>4. CASE /\ Insert(Tick, FALSE) /\ Goes
           /\ calm' = IF calm = "set" /\ seen[Tick] = ambr THEN "rested" ELSE calm
  <2>0. /\ Then(Tail(ops)) /\ ambr' = ambr /\ faults' = faults /\ ops' = Tail(ops)
        /\ Running(Tick) /\ seen[Tick] # None
    BY <1>4, ThenWaits DEF Insert, Goes
  <2>1. ~Has(smf', Tick)
    BY <1>0, <1>4, TickStep DEF Stamp, ReadSessions, Insert
  <2>2. Fresh(smf, seen, {ambr}, TRUE, {}) => Fresh(smf', seen', {ambr}, TRUE, {})
    BY <1>1, <1>4, <2>0
  <2>3. CASE calm' = calm
    <3>1. ASSUME calm = "rested" PROVE Settled'
      BY <1>0, <1>2, <2>0, <2>2, <3>1 DEF CalmInv, Settled
    <3> QED BY <1>0, <2>0, <2>1, <2>3, <3>1, CalmStays
  <2>4. CASE calm = "set" /\ seen[Tick] = ambr /\ calm' = "rested"
    <3>1. Has(smf, Tick)
      BY <1>0, <2>0, RunningHas
    <3>2. Fresh(smf, seen, {ambr}, FALSE, {Tick})
      BY <1>0, <2>4, <3>1 DEF CalmInv, OwnCycle
    <3>3. Fresh(smf', seen', {ambr}, TRUE, {Tick})
      BY <1>1, <1>4, <2>0, <3>2
    <3>4. Fresh(smf', seen', {ambr}, TRUE, {})
      BY <3>3, FreshLess
    <3>5. waits' \in Nat
      BY <2>0, ThenWaits
    <3> QED BY <1>0, <2>0, <2>4, <3>4, <3>5 DEF CalmInv, Waiting, OwnCycle, Settled
  <2> QED BY <1>4, <2>3, <2>4
<1>5. CASE CycleFails(Tick) /\ Goes /\ UNCHANGED calm
  <2>0. /\ Then(Tail(ops)) /\ ambr' = ambr /\ ops' = Tail(ops)
        /\ smf' = Without(Tick) /\ seen' = [seen EXCEPT ![Tick] = None]
    BY <1>5, ThenWaits DEF CycleFails, Goes
  <2>1. ~Has(smf', Tick)
    BY <1>0, <2>0, WithoutStep
  <2>2. \A V : \A out \in SUBSET Collector : \A pub \in BOOLEAN :
              Fresh(smf, seen, V, pub, out) => Fresh(smf', seen', V, pub, out \cup {Tick})
    BY <1>0, <2>0, WithoutStep
  <2>3. Fresh(smf, seen, {ambr}, TRUE, {}) => Fresh(smf', seen', {ambr}, TRUE, {} \cup {Tick})
    BY <2>2
  <2>4. Fresh(smf, seen, {ambr}, TRUE, {}) => Fresh(smf', seen', {ambr}, TRUE, {})
    BY <2>3, FreshLess
  <2>5. ASSUME calm = "rested" PROVE Settled'
    BY <1>0, <1>2, <1>5, <2>0, <2>4, <2>5 DEF CalmInv, Settled
  <2> QED BY <1>0, <1>5, <2>0, <2>1, <2>5, CalmStays
<1> QED BY <1>3, <1>4, <1>5 DEF SuiteTick

LEMMA CalmSuite == ASSUME HostInv, CalmInv, Suite PROVE CalmInv'
<1> USE ValuesApart
<1>0. /\ program = "suite" /\ program' = program /\ NextSuite
      /\ ambr \in Rate /\ faults \in Nat /\ CircuitInv /\ (Has(smf, Tick) => On /\ At("tick")) /\ SuiteInv
  BY DEF Suite, HostInv, ProgramInv, AloneInv, TickHome, TickPlace
(* Most operations leave the records as they are.                          *)
<1>1. ASSUME On, ops # << >>, Head(ops) # "tick", NEW rest, Then(rest),
             UNCHANGED <<ambr, smf, seen, calm, suite>>,
             NeedsFresh(suite, rest) => NeedsFresh(suite, ops)
      PROVE  CalmInv'
  BY <1>0, <1>1, CalmQuiet DEF At
<1>2. ASSUME On, ops # << >>, Head(ops) \notin Writes \cup {"tick"}, Then(Tail(ops)),
             UNCHANGED <<ambr, smf, seen, calm, suite>>
      PROVE  CalmInv'
  BY <1>1, <1>2, NeededBefore
<1>3. ASSUME On, ops # << >>, Head(ops) \in {"flush", "mask", "unmask"}, Then(Tail(ops)),
             UNCHANGED <<calm, suite>>, Has(smf', Tick) => Has(smf, Tick)
      PROVE  CalmInv'
  <2>1. ~NeedsFresh(suite, Tail(ops))
    BY <1>0, <1>3, NotAfterExchange
  <2>2. ops' = Tail(ops)
    BY <1>3, ThenWaits
  <2>3. Settled'
    BY <1>0, <1>3, <2>1, <2>2 DEF Settled
  <2>4. ~Has(smf', Tick)
    BY <1>0, <1>3 DEF At
  <2> QED BY <1>0, <1>3, <2>3, <2>4, CalmStays
<1>4. ASSUME waits' \in Nat, calm' = "unset" PROVE CalmInv'
  BY <1>4, CalmGone
<1>5. CASE LaunchSuite
  <2>1. waits' \in Nat
    BY <1>5, ThenWaits DEF LaunchSuite
  <2>2. calm' = "unset"
    BY <1>0, <1>5 DEF LaunchSuite, CalmInv
  <2> QED BY <1>4, <2>1, <2>2
<1>6. CASE Find \/ Keep
  BY <1>2, <1>6 DEF Find, Keep, Goes, At, Writes, circuit
<1>7. CASE SuiteWrite
  <2>1. ASSUME NEW op \in Writes, NEW r, Apply(op, r) PROVE CalmInv'
    <3>1. On /\ At(op) /\ Then(Tail(ops)) /\ smf' = smf /\ calm' \in {"set", "unset"} /\ suite' = suite
      BY <2>1 DEF Apply, Goes
    <3>2. ~At("tick")
      BY <3>1 DEF At, Writes
    <3>3. ~Has(smf', Tick) /\ On'
      BY <1>0, <3>1, <3>2 DEF On
    <3> QED BY <3>1, <3>3, CalmSet
  <2> QED BY <1>7, <2>1 DEF SuiteWrite, Writes
<1>8. CASE Compare
  <2>1. /\ On /\ At("compare") /\ (Then(<< >>) \/ Then(Tail(ops)))
        /\ UNCHANGED <<ambr, smf, seen, calm, suite>>
    BY <1>8 DEF Compare, circuit, suiteVars
  <2>2. CASE Then(<< >>)
    BY <1>1, <2>1, <2>2, NotAtTheEnd DEF At
  <2>3. CASE Then(Tail(ops))
    BY <1>2, <2>1, <2>3 DEF At, Writes
  <2> QED BY <2>1, <2>2, <2>3
<1>9. CASE Sweep
  <2>1. /\ On /\ At("sweep") /\ UNCHANGED <<ambr, smf, seen, calm, suite>>
        /\ Then(<< >>) \/ Then(<<"pause", "restore">>) \/ Then(Tail(ops))
    BY <1>9 DEF Sweep, circuit, suiteVars
  <2>2. CASE Then(<< >>) \/ Then(<<"pause", "restore">>)
    BY <1>1, <2>1, <2>2, NotAtTheEnd DEF At
  <2>3. CASE Then(Tail(ops))
    BY <1>2, <2>1, <2>3 DEF At, Writes
  <2> QED BY <2>1, <2>2, <2>3
<1>10. CASE Judge
  <2>1. /\ On /\ At("judge") /\ UNCHANGED <<ambr, smf, seen, calm, suite>>
        /\ \E rest : Then(rest)
    BY <1>10 DEF Judge, circuit, suiteVars
  <2>2. NeedsFresh(suite, ops)
    BY <2>1, ReaderNeeds DEF At
  <2> QED BY <1>1, <2>1, <2>2 DEF At
<1>11. CASE Observe
  BY <1>2, <1>11 DEF Observe, Goes, At, Writes, circuit, suiteVars
<1>12. CASE Sleep
  <2>1. /\ On /\ WaitOver /\ Then(Tail(ops)) /\ UNCHANGED <<ambr, smf, seen, suite>>
        /\ ops # << >> /\ Head(ops) \in {"wait", "cycle", "pause"}
    BY <1>12 DEF Sleep, WaitOver, Goes, circuit, At
  <2>2. CASE calm' = calm
    BY <1>2, <2>1, <2>2 DEF Writes
  <2>3. CASE calm' = "rested" /\ calm # "rested"
    <3>1. Fresh(smf, seen, {ambr}, TRUE, {Daemon})
      BY <2>1, <2>3, RestedIsFresh
    <3>2. Fresh(smf, seen, {ambr}, TRUE, {})
      BY <3>1, FreshLess
    <3>3. Fresh(smf', seen', {ambr'}, TRUE, {})
      BY <2>1, <3>2
    <3>4. waits' \in Nat
      BY <2>1, ThenWaits
    <3> QED BY <1>0, <2>1, <2>3, <3>3, <3>4 DEF CalmInv, Waiting, OwnCycle, Settled, On
  <2> QED BY <2>1, <2>2, <2>3 DEF WaitOver
<1>13. CASE SuiteTick
  <2>1. On
    BY <1>13 DEF SuiteTick
  <2> QED BY <1>0, <1>13, <2>1, CalmTick
<1>14. CASE Purges
  <2>1. On /\ DeleteRecords /\ Then(Tail(ops)) /\ UNCHANGED <<calm, suite>>
        /\ ops # << >> /\ Head(ops) \in {"flush", "trim"}
    BY <1>14 DEF Purges, DeleteRecords, Goes, At, suiteVars
  <2>2. Head(ops) # "trim"
    BY <1>0, <2>1, SuiteKnows DEF SuiteOp
  <2>3. Has(smf', Tick) => Has(smf, Tick)
    BY <1>0, <2>1, DeleteStep
  <2> QED BY <1>3, <2>1, <2>2, <2>3
<1>15. CASE Mask
  <2>1. On /\ At("mask") /\ Then(Tail(ops)) /\ smf' = UnderWay /\ UNCHANGED <<seen, calm, suite>>
    BY <1>15 DEF Mask, Goes
  <2>2. Has(smf', Tick) => Has(smf, Tick)
    BY <1>0, <2>1, CircuitStays
  <2> QED BY <1>3, <2>1, <2>2 DEF At
<1>16. CASE Unmask
  <2>1. /\ On /\ At("unmask") /\ Then(Tail(ops)) /\ UNCHANGED <<seen, calm, suite>>
        /\ smf' = LET s == masked \o smf IN SubSeq(s, Max({1, Len(s) - MaxRecords + 1}), Len(s))
    BY <1>16 DEF Unmask, Goes
  <2>2. masked \in Seq(Rate \cup {0})
    BY DEF HostInv, ProgramInv, MaskInv
  <2>3. Has(smf', Tick) => Has(smf, Tick)
    BY <1>0, <2>1, <2>2, UnmaskStep
  <2> QED BY <1>3, <2>1, <2>3 DEF At
<1>17. CASE SuiteSession
  <2>1. CASE SessionWrite
    <3>1. /\ waits' \in Nat /\ calm' \notin {"set", "rested"} /\ On'
      BY <1>17, <2>1 DEF SuiteSession, SessionWrite, Disturbed, CalmInv, On
    <3> QED BY <3>1, CalmGone
  <2>2. CASE EndOfSession
    BY <1>2, <1>17, <2>2 DEF SuiteSession, EndOfSession, Goes, At, Writes, circuit
  <2> QED BY <1>17, <2>1, <2>2 DEF SuiteSession
<1>18. CASE SuiteOver \/ StoreRaises \/ KillSuite
  <2>1. \E as : Leave(as)
    BY <1>18 DEF SuiteOver, StoreRaises, KillSuite
  <2> QED BY <1>4, <2>1, ThenWaits DEF Leave
<1>19. CASE SessionRaises
  BY <1>2, <1>19 DEF SessionRaises, Goes, At, Writes, suiteVars
<1> QED BY <1>0, <1>5, <1>6, <1>7, <1>8, <1>9, <1>10, <1>11, <1>12, <1>13, <1>14, <1>15, <1>16,
           <1>17, <1>18, <1>19 DEF NextSuite

LEMMA CalmInit == ASSUME Init PROVE CalmInv
BY DEF Init, InitWave, CalmInv, Waiting, OwnCycle, Settled

LEMMA CalmStep == ASSUME HostInv, CalmInv, [Next]_vars PROVE CalmInv'
<1>1. ASSUME UNCHANGED <<circuit, waveVars, suite, program>> PROVE CalmInv'
  BY <1>1 DEF circuit, waveVars, CalmInv, Waiting, OwnCycle, Settled, At, On
<1>2. CASE Campaigns \/ Scripted \/ Behavioural
  <2>1. /\ UNCHANGED <<wpc, wave, ops, waits, calm, suite, program>>
        /\ program \notin {"wave", "suite"}
    BY <1>2 DEF Campaigns, Scripted, Behavioural, waveVars, suiteVars
  <2>2. ops = << >> /\ ~On
    BY <2>1 DEF HostInv, ProgramInv, AloneInv, WaveInv
  <2> QED BY <2>1, <2>2 DEF CalmInv, Waiting, OwnCycle, Settled, At, On
<1>3. CASE UNCHANGED vars
  BY <1>1, <1>3 DEF vars, suiteVars
<1> QED BY <1>2, <1>3, CalmCollects, CalmWave, CalmSuite DEF Next

(***************************************************************************)
(* What readers find.                                                      *)
(***************************************************************************)
LEMMA CalmReads == ASSUME HostInv, CalmInv PROVE ReadsAreFresh
<1> SUFFICES ASSUME On, At("agent") \/ At("read"), calm = "rested" PROVE Latest = ambr
  BY DEF ReadsAreFresh
<1>1. NeedsFresh(suite, ops)
  BY ReaderNeeds DEF At
<1>2. Fresh(smf, seen, {ambr}, TRUE, {})
  BY <1>1 DEF CalmInv, Settled
<1>3. Latest \in {ambr}
  BY <1>2, FreshLatest DEF HostInv
<1> QED BY <1>3

LEMMA CalmStarts == ASSUME HostInv, CalmInv PROVE TrialsStartAsSet
<1> SUFFICES ASSUME wpc = "on", At("agent"), Head(wave) # "gates"
             PROVE  /\ calm # "unset" => ambr = StartRate
                    /\ calm = "rested" => Latest \in {None, StartRate}
  BY DEF TrialsStartAsSet
<1>1. AtStart(Head(wave)) /\ program = "wave" /\ CircuitInv
  BY WaveKnows DEF At, HostInv, ProgramInv, WaveInv
<1>2. calm # "unset" => ambr = StartRate
  BY <1>1 DEF AtStart, StartRate
<1>3. ASSUME calm = "rested" PROVE Latest \in {ambr} \cup {None}
  <2>1. Fresh(smf, seen, {ambr}, TRUE, {Daemon}) \/ AllIn(smf, seen, {ambr})
    BY <1>1, <1>3 DEF CalmInv, Settled
  <2> QED BY <1>1, <2>1, FreshLatest, AllInLatest
<1> QED BY <1>2, <1>3

LEMMA ShownInit == ASSUME Init PROVE ShownInv /\ RaiseInv
BY DEF Init, InitScript, InitArms, ShownInv, RaiseInv

(* What the script, the arms and the suites read back is the rate that was *)
(* written, although a cycle that began earlier may still insert its       *)
(* record.                                                                 *)
THEOREM WritesAlwaysShown == Spec => []WritesAreShown
<1>1. Spec => []ShownInv
  BY HostAlways, ShownInit, ShownStep, PTL DEF Spec
<1>2. Spec => []RaiseInv
  BY HostAlways, ShownInit, RaiseStep, PTL DEF Spec
<1>3. Spec => []CalmInv
  BY HostAlways, CalmInit, CalmStep, PTL DEF Spec
<1>4. HostInv /\ ShownInv /\ RaiseInv /\ CalmInv => WritesAreShown
  BY ReadbackIsFresh, RaiseIsShown, CalmReads DEF WritesAreShown
<1> QED BY <1>1, <1>2, <1>3, <1>4, HostAlways, PTL

(* A session of a wave or a suite starts at the rate its protocol sets,    *)
(* and the newest record shows no other after a whole wait.                *)
THEOREM SessionsAlwaysStartAsSet == Spec => []SessionsStartAsSet
<1>1. Spec => []CalmInv
  BY HostAlways, CalmInit, CalmStep, PTL DEF Spec
<1>2. HostInv /\ CalmInv => SessionsStartAsSet
  BY CalmStarts, StagesAlike DEF SessionsStartAsSet
<1> QED BY <1>1, <1>2, HostAlways, PTL

=============================================================================
