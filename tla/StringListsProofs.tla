------------------------- MODULE StringListsProofs -------------------------
(* What string_join makes of a list of any length, and what string_split    *)
(* makes of that.  Both are recursive functions; induction is done over the *)
(* least number for which a claim would fail.                               *)
EXTENDS StringLists, SequenceTheorems, WellFoundedInduction, TLAPS

LEMMA LeastNumber ==
    ASSUME NEW S, S \subseteq Nat, S # {}
    PROVE  \E m \in S : \A k \in S : m <= k
<1>1. PICK m \in S : \A k \in S : <<k, m>> \notin OpToRel(<, Nat)
  BY ONLY S \subseteq Nat, S # {}, NatLessThanWellFounded, WFMin
<1>2. ASSUME NEW k \in S PROVE ~(k < m)
  <2>1. OpToRel(<, Nat) = {ss \in Nat \X Nat : ss[1] < ss[2]}
    BY ONLY ZenonT(10) DEF OpToRel
  <2>2. <<k, m>> \in Nat \X Nat /\ <<k, m>>[1] = k /\ <<k, m>>[2] = m
    OBVIOUS
  <2>3. <<k, m>> \notin {ss \in Nat \X Nat : ss[1] < ss[2]}
    BY ONLY <1>1, <2>1, Zenon
  <2> QED
    BY ONLY <2>2, <2>3, Zenon
<1>3. \A k \in S : m <= k
  BY <1>2
<1> QED
  BY <1>3

\* A set of numbers that has with every number its successor, up to a bound, and the
\* first number, has them all.
LEMMA Stepwise ==
    ASSUME NEW a \in Nat, NEW N \in Nat, NEW S,
           a \in S, \A k \in a + 1 .. N : k - 1 \in S => k \in S
    PROVE  \A k \in a .. N : k \in S
<1> DEFINE Missing == {k \in a .. N : k \notin S}
<1>1. SUFFICES ASSUME Missing # {} PROVE FALSE
  OBVIOUS
<1>2. Missing \subseteq Nat
  OBVIOUS
<1>3. PICK m \in Missing : \A k \in Missing : m <= k
  <2> HIDE DEF Missing
  <2> QED
    BY <1>1, <1>2, LeastNumber
<1>4. m \in a .. N /\ m # a /\ m \notin S
  BY <1>3
<1>5. m \in a + 1 .. N /\ m - 1 \in a .. N /\ ~(m <= m - 1)
  BY <1>4
<1>6. m - 1 \in S
  BY <1>3, <1>5
<1> QED
  BY <1>4, <1>5, <1>6

\* Steps that do not lead out of a set, and what comes of m of them.
Stay(nx, S, N) == \A k \in 1 .. N : \A x \in S : nx[k][x] \in S
RunsOf(nx, S, h, m) ==
    {f \in [0 .. m -> S] : f[0] = h /\ \A k \in 1 .. m : f[k] = nx[k][f[k - 1]]}

\* Any number of steps can be taken.
LEMMA Iteration ==
    ASSUME NEW S, NEW N \in Nat, NEW h \in S, NEW nx, Stay(nx, S, N)
    PROVE  RunsOf(nx, S, h, N) # {}
<1> DEFINE Runs(m) == RunsOf(nx, S, h, m)
           Good == {m \in 0 .. N : Runs(m) # {}}
<1> USE DEF Stay, RunsOf
<1>1. 0 \in Good
  <2>1. [k \in 0 .. 0 |-> h] \in Runs(0)
    OBVIOUS
  <2> QED
    BY <2>1
<1>2. ASSUME NEW m \in 0 + 1 .. N, m - 1 \in Good PROVE m \in Good
  <2>1. PICK f \in Runs(m - 1) : TRUE
    BY <1>2
  <2> DEFINE g == [k \in 0 .. m |-> IF k < m THEN f[k] ELSE nx[m][f[m - 1]]]
  <2>2. /\ f \in [0 .. m - 1 -> S] /\ f[0] = h
        /\ \A k \in 1 .. m - 1 : f[k] = nx[k][f[k - 1]]
    BY <2>1
  <2>3. m \in 1 .. N /\ m - 1 \in 0 .. m - 1 /\ 0 \in 0 .. m - 1
    OBVIOUS
  <2>4. nx[m][f[m - 1]] \in S
    BY <2>2, <2>3
  <2>5. ASSUME NEW k \in 0 .. m PROVE g[k] \in S
    <3>1. CASE k < m
      BY <2>2, <3>1
    <3>2. CASE ~(k < m)
      BY <2>4, <3>2
    <3> QED
      BY <3>1, <3>2
  <2>6. g[0] = h
    BY <2>2
  <2>7. ASSUME NEW k \in 1 .. m PROVE g[k] = nx[k][g[k - 1]]
    <3>1. k - 1 \in 0 .. m /\ k - 1 < m /\ k \in 0 .. m
      OBVIOUS
    <3>2. g[k - 1] = f[k - 1]
      BY <3>1
    <3>3. CASE k < m
      BY <2>2, <3>1, <3>2, <3>3
    <3>4. CASE ~(k < m)
      <4>1. k = m
        BY <3>4
      <4> QED
        BY <3>1, <3>2, <4>1
    <3> QED
      BY <3>3, <3>4
  <2>8. g \in [0 .. m -> S]
    BY <2>5
  <2> HIDE DEF g
  <2>9. g \in Runs(m)
    BY <2>6, <2>7, <2>8
  <2> QED
    BY <2>9
<1>3. N \in Good
  <2> HIDE DEF Good
  <2> QED
    BY <1>1, <1>2, Stepwise
<1> QED
  BY <1>3

---------------------------------------------------------------------------
\* strchr, from anywhere up to the end of the text.
LEMMA NextCutIs ==
    ASSUME NEW C, NEW t \in Seq(C), NEW p \in 0 .. Len(t) + 1
    PROVE  /\ NextCut(t, p) \in 0 .. Len(t) + 1
           /\ p <= Len(t) => NextCut(t, p) > p
           /\ NextCut(t, p) # Len(t) + 1 => NextCut(t, p) > p /\ t[NextCut(t, p)] = Sep
           /\ \A i \in p + 1 .. Len(t) : i < NextCut(t, p) => t[i] # Sep
<1> DEFINE S == {i \in p + 1 .. Len(t) : t[i] = Sep} \cup {Len(t) + 1}
<1>1. Len(t) \in Nat
  BY LenProperties
<1>2. S \subseteq Nat /\ S # {}
  BY <1>1
<1>3. PICK m \in S : \A k \in S : m <= k
  <2> HIDE DEF S
  <2> QED
    BY <1>2, LeastNumber
<1>4. Min(S) \in S /\ \A k \in S : Min(S) <= k
  <2> HIDE DEF S
  <2> QED
    BY <1>3 DEF Min
<1>5. NextCut(t, p) = Min(S)
  BY DEF NextCut
<1> DEFINE n == Min(S)
<1>6. \/ n = Len(t) + 1
      \/ n \in p + 1 .. Len(t) /\ t[n] = Sep
  BY <1>4
<1>7. \A i \in p + 1 .. Len(t) : t[i] = Sep => n <= i
  BY <1>4
<1> HIDE DEF n
<1>8. n \in 0 .. Len(t) + 1 /\ (p <= Len(t) => n > p) /\ (n # Len(t) + 1 => n > p /\ t[n] = Sep)
  BY <1>1, <1>6
<1>9. \A i \in p + 1 .. Len(t) : i < n => t[i] # Sep
  BY <1>1, <1>7, <1>8
<1> QED
  BY <1>5, <1>8, <1>9 DEF n

\* It is known by what it finds.
LEMMA NextCutAt ==
    ASSUME NEW C, NEW t \in Seq(C), NEW p \in 0 .. Len(t), NEW q \in p + 1 .. Len(t) + 1,
           q # Len(t) + 1 => t[q] = Sep, \A i \in p + 1 .. q - 1 : t[i] # Sep
    PROVE  NextCut(t, p) = q
<1> DEFINE n == NextCut(t, p)
<1>1. /\ Len(t) \in Nat /\ n \in 0 .. Len(t) + 1 /\ n > p
      /\ n # Len(t) + 1 => t[n] = Sep
      /\ \A i \in p + 1 .. Len(t) : i < n => t[i] # Sep
  BY NextCutIs, LenProperties
<1> HIDE DEF n
<1>2. ~(n < q)
  <2>1. SUFFICES ASSUME n < q PROVE FALSE
    OBVIOUS
  <2>2. n \in p + 1 .. q - 1 /\ n # Len(t) + 1
    BY <1>1, <2>1
  <2> QED
    BY <1>1, <2>2
<1>3. ~(q < n)
  <2>1. SUFFICES ASSUME q < n PROVE FALSE
    OBVIOUS
  <2>2. q \in p + 1 .. Len(t) /\ q # Len(t) + 1
    BY <1>1, <2>1
  <2> QED
    BY <1>1, <2>1, <2>2
<1> QED
  BY <1>1, <1>2, <1>3 DEF n

LEMMA NoCutBehind ==
    ASSUME NEW C, NEW t \in Seq(C)
    PROVE  NextCut(t, Len(t) + 1) = Len(t) + 1
<1>1. Len(t) \in Nat /\ Len(t) + 1 \in 0 .. Len(t) + 1
  BY LenProperties
<1> DEFINE n == NextCut(t, Len(t) + 1)
<1>2. n \in 0 .. Len(t) + 1 /\ (n # Len(t) + 1 => n > Len(t) + 1)
  BY <1>1, NextCutIs
<1> QED
  BY <1>1, <1>2

\* The cuts of string_split.
CutStep(t, cut) == [k \in 0 .. Len(t) + 1 |-> IF k = 0 THEN 0 ELSE NextCut(t, cut[k - 1])]
Cuts(t) == CHOOSE cut : cut = CutStep(t, cut)

LEMMA SplitIs ==
    ASSUME NEW t, t # Null
    PROVE  Split(t) = [k \in {i \in 1 .. Len(t) + 1 : Cuts(t)[i - 1] <= Len(t)} |->
                         SubSeq(t, Cuts(t)[k - 1] + 1, Cuts(t)[k] - 1)]
BY DEF Split, Cuts, CutStep

LEMMA CutsAre ==
    ASSUME NEW C, NEW t \in Seq(C)
    PROVE  /\ Len(t) \in Nat
           /\ \A k \in 0 .. Len(t) + 1 : Cuts(t)[k] \in 0 .. Len(t) + 1
           /\ Cuts(t)[0] = 0
           /\ \A k \in 1 .. Len(t) + 1 : Cuts(t)[k] = NextCut(t, Cuts(t)[k - 1])
<1> DEFINE L == Len(t) + 1
           next == [p \in 0 .. L |-> NextCut(t, p)]
           nx == [k \in 1 .. L |-> next]
<1>1. Len(t) \in Nat /\ L \in Nat /\ 0 \in 0 .. L
  BY LenProperties
<1>2. \A p \in 0 .. L : NextCut(t, p) \in 0 .. L
  BY NextCutIs
<1>3. \A k \in 1 .. L : \A p \in 0 .. L : nx[k][p] = NextCut(t, p)
  OBVIOUS
<1> HIDE DEF L, nx
<1>4. PICK f \in [0 .. L -> 0 .. L] : f[0] = 0 /\ \A k \in 1 .. L : f[k] = nx[k][f[k - 1]]
  <2>1. Stay(nx, 0 .. L, L)
    BY <1>2, <1>3 DEF Stay
  <2>2. RunsOf(nx, 0 .. L, 0, L) # {}
    BY <1>1, <2>1, Iteration
  <2> QED
    BY <2>2 DEF RunsOf
<1>5. f = CutStep(t, f)
  <2>1. ASSUME NEW k \in 0 .. L PROVE f[k] = IF k = 0 THEN 0 ELSE NextCut(t, f[k - 1])
    <3>1. CASE k = 0
      BY <1>4, <3>1
    <3>2. CASE k # 0
      <4>1. k \in 1 .. L /\ k - 1 \in 0 .. L
        BY <1>1, <3>2
      <4>2. f[k - 1] \in 0 .. L
        BY <1>4, <4>1
      <4> QED
        BY <1>3, <1>4, <3>2, <4>1, <4>2
    <3> QED
      BY <3>1, <3>2
  <2> QED
    BY <1>4, <2>1 DEF CutStep, L
<1> DEFINE cut == Cuts(t)
<1>6. cut = CutStep(t, cut)
  BY <1>5 DEF Cuts
<1> HIDE DEF cut
<1>7. \A k \in 0 .. L : cut[k] = IF k = 0 THEN 0 ELSE NextCut(t, cut[k - 1])
  BY <1>6 DEF CutStep, L
<1> DEFINE Good == {k \in 0 .. L : cut[k] \in 0 .. L}
<1>8. 0 \in Good
  BY <1>1, <1>7
<1>9. ASSUME NEW k \in 0 + 1 .. L, k - 1 \in Good PROVE k \in Good
  <2>1. k \in 0 .. L /\ k # 0 /\ cut[k - 1] \in 0 .. L
    BY <1>9
  <2> QED
    BY <1>2, <1>7, <2>1
<1>10. \A k \in 0 .. L : k \in Good
  <2> HIDE DEF Good
  <2> QED
    BY <1>1, <1>8, <1>9, Stepwise
<1>11. \A k \in 1 .. L : cut[k] = NextCut(t, cut[k - 1])
  BY <1>1, <1>7
<1>12. cut[0] = 0 /\ \A k \in 0 .. L : cut[k] \in 0 .. L
  BY <1>1, <1>7, <1>10
<1> QED
  BY <1>1, <1>11, <1>12 DEF cut, L

\* No item has a separator in it, and there is a first one.
LEMMA SplitItems ==
    ASSUME NEW C, NEW t \in Seq(C), t # Null
    PROVE  /\ 1 \in DOMAIN Split(t)
           /\ \A k \in DOMAIN Split(t) : Sep \notin ToSet(Split(t)[k])
<1> DEFINE cut == Cuts(t)
           D == {i \in 1 .. Len(t) + 1 : cut[i - 1] <= Len(t)}
<1>1. /\ Len(t) \in Nat
      /\ \A k \in 0 .. Len(t) + 1 : cut[k] \in 0 .. Len(t) + 1
      /\ cut[0] = 0
      /\ \A k \in 1 .. Len(t) + 1 : cut[k] = NextCut(t, cut[k - 1])
  BY CutsAre
<1>2. Split(t) = [k \in D |-> SubSeq(t, cut[k - 1] + 1, cut[k] - 1)]
  BY SplitIs
<1> HIDE DEF cut
<1>3. 1 \in D
  BY <1>1
<1>4. ASSUME NEW k \in D PROVE Sep \notin ToSet(SubSeq(t, cut[k - 1] + 1, cut[k] - 1))
  <2> DEFINE p == cut[k - 1]
             q == cut[k]
             s == SubSeq(t, p + 1, q - 1)
  <2>1. k \in 1 .. Len(t) + 1 /\ k - 1 \in 0 .. Len(t) + 1 /\ k \in 0 .. Len(t) + 1
    BY <1>1, <1>4
  <2>2. p \in 0 .. Len(t) + 1 /\ p <= Len(t) /\ q \in 0 .. Len(t) + 1 /\ q = NextCut(t, p)
    BY <1>1, <1>4, <2>1
  <2>3. \A i \in p + 1 .. Len(t) : i < q => t[i] # Sep
    BY <2>2, NextCutIs
  <2> HIDE DEF p, q
  <2>4. \A i \in p + 1 .. q - 1 : t[i] # Sep /\ t[i] \in C \ {Sep}
    <3>1. ASSUME NEW i \in p + 1 .. q - 1 PROVE i \in p + 1 .. Len(t) /\ i < q /\ i \in 1 .. Len(t)
      BY <1>1, <2>2
    <3> QED
      BY <2>3, <3>1, ElementOfSeq
  <2>5. s \in Seq(C \ {Sep})
    BY <2>2, <2>4, SubSeqProperties
  <2> HIDE DEF s
  <2>6. Sep \notin ToSet(s)
    BY <2>5 DEF ToSet
  <2> QED
    BY <2>6 DEF s, p, q
<1> HIDE DEF D
<1> QED
  BY <1>2, <1>3, <1>4

\* The places e of the cuts of a text into n items: the first n - 1 are at separators,
\* the last is behind the text, and there are no other separators.
CutsAt(t, e, n) ==
    /\ n \in Nat \ {0} /\ e \in [0 .. n -> 0 .. Len(t) + 1]
    /\ e[0] = 0 /\ e[n] = Len(t) + 1
    /\ \A k \in 1 .. n :
          /\ e[k - 1] < e[k]
          /\ k # n => t[e[k]] = Sep
          /\ \A i \in e[k - 1] + 1 .. e[k] - 1 : t[i] # Sep

\* These are the cuts that string_split makes.
LEMMA SplitOfCuts ==
    ASSUME NEW C, NEW t \in Seq(C), t # Null, NEW n, NEW e, CutsAt(t, e, n)
    PROVE  Split(t) = [k \in 1 .. n |-> SubSeq(t, e[k - 1] + 1, e[k] - 1)]
<1> DEFINE L == Len(t) + 1
           cut == Cuts(t)
<1>1. /\ Len(t) \in Nat /\ L = Len(t) + 1 /\ L \in Nat
      /\ \A k \in 0 .. L : cut[k] \in 0 .. L
      /\ cut[0] = 0
      /\ \A k \in 1 .. L : cut[k] = NextCut(t, cut[k - 1])
  BY CutsAre
<1>2. /\ n \in Nat /\ n > 0 /\ e[0] = 0 /\ e[n] = L
      /\ \A k \in 0 .. n : e[k] \in 0 .. L
      /\ \A k \in 1 .. n : /\ e[k - 1] < e[k]
                           /\ k # n => t[e[k]] = Sep
                           /\ \A i \in e[k - 1] + 1 .. e[k] - 1 : t[i] # Sep
  BY <1>1 DEF CutsAt
<1>3. Split(t) = [k \in {i \in 1 .. L : cut[i - 1] <= Len(t)} |->
                    SubSeq(t, cut[k - 1] + 1, cut[k] - 1)]
  BY SplitIs
<1> HIDE DEF L, cut
<1>4. \A k \in 0 .. n : k <= e[k]
  <2> DEFINE Good == {k \in 0 .. n : k <= e[k]}
  <2>1. 0 \in Good
    BY <1>2
  <2>2. ASSUME NEW k \in 0 + 1 .. n, k - 1 \in Good PROVE k \in Good
    <3>1. k \in 1 .. n /\ k \in 0 .. n /\ k - 1 \in 0 .. n /\ k - 1 <= e[k - 1]
      BY <1>2, <2>2
    <3>2. e[k - 1] < e[k] /\ e[k - 1] \in Nat /\ e[k] \in Nat
      BY <1>2, <3>1
    <3> QED
      BY <3>1, <3>2
  <2>3. \A k \in 0 .. n : k \in Good
    <3> HIDE DEF Good
    <3> QED
      BY <1>2, <2>1, <2>2, Stepwise
  <2> QED
    BY <2>3
<1>5. n <= L
  BY <1>2, <1>4
<1>6. \A k \in 0 .. n : cut[k] = e[k]
  <2> DEFINE Good == {k \in 0 .. n : cut[k] = e[k]}
  <2>1. 0 \in Good
    BY <1>1, <1>2
  <2>2. ASSUME NEW k \in 0 + 1 .. n, k - 1 \in Good PROVE k \in Good
    <3>1. k \in 1 .. n /\ k \in 1 .. L /\ k \in 0 .. n /\ k - 1 \in 0 .. n
      BY <1>1, <1>2, <1>5
    <3>2. cut[k - 1] = e[k - 1] /\ cut[k] = NextCut(t, e[k - 1])
      BY <1>1, <2>2, <3>1
    <3> DEFINE p == e[k - 1]
               q == e[k]
    <3>3. p \in 0 .. L /\ q \in 0 .. L /\ p < q /\ (k # n => t[q] = Sep)
          /\ \A i \in p + 1 .. q - 1 : t[i] # Sep
      BY <1>2, <3>1
    <3>4. k = n => q = L
      BY <1>2
    <3> HIDE DEF p, q
    <3>5. p \in 0 .. Len(t) /\ q \in p + 1 .. Len(t) + 1 /\ (q # Len(t) + 1 => t[q] = Sep)
      BY <1>1, <3>3, <3>4 DEF L
    <3>6. NextCut(t, p) = q
      BY <3>3, <3>5, NextCutAt
    <3> QED
      BY <3>1, <3>2, <3>6 DEF p, q
  <2>3. \A k \in 0 .. n : k \in Good
    <3> HIDE DEF Good
    <3> QED
      BY <1>2, <2>1, <2>2, Stepwise
  <2> QED
    BY <2>3
<1>7. \A k \in n .. L : cut[k] = L
  <2> DEFINE Good == {k \in n .. L : cut[k] = L}
  <2>1. n \in Good
    BY <1>1, <1>2, <1>5, <1>6
  <2>2. ASSUME NEW k \in n + 1 .. L, k - 1 \in Good PROVE k \in Good
    <3>1. k \in 1 .. L /\ k \in n .. L /\ cut[k - 1] = L
      BY <1>1, <1>2, <2>2
    <3>2. cut[k] = NextCut(t, L)
      BY <1>1, <3>1
    <3>3. NextCut(t, L) = L
      BY NoCutBehind DEF L
    <3> QED
      BY <3>1, <3>2, <3>3
  <2>3. \A k \in n .. L : k \in Good
    <3> HIDE DEF Good
    <3> QED
      BY <1>1, <1>2, <2>1, <2>2, Stepwise
  <2> QED
    BY <2>3
<1>8. {i \in 1 .. L : cut[i - 1] <= Len(t)} = 1 .. n
  <2>1. ASSUME NEW i \in 1 .. L, i <= n PROVE cut[i - 1] <= Len(t)
    <3>1. i \in 1 .. n /\ i - 1 \in 0 .. n /\ i \in 0 .. n
      BY <1>1, <1>2, <2>1
    <3>2. cut[i - 1] = e[i - 1] /\ e[i - 1] < e[i] /\ e[i] \in 0 .. L /\ e[i - 1] \in 0 .. L
      BY <1>2, <1>6, <3>1
    <3> QED
      BY <1>1, <3>2
  <2>2. ASSUME NEW i \in 1 .. L, ~(i <= n) PROVE ~(cut[i - 1] <= Len(t))
    <3>1. i - 1 \in n .. L
      BY <1>1, <1>2, <2>2
    <3> QED
      BY <1>1, <1>7, <3>1
  <2> QED
    BY <1>1, <1>2, <1>5, <2>1, <2>2
<1>9. \A k \in 1 .. n : cut[k - 1] = e[k - 1] /\ cut[k] = e[k]
  <2>1. \A k \in 1 .. n : k - 1 \in 0 .. n /\ k \in 0 .. n
    BY <1>2
  <2> QED
    BY <1>6, <2>1
<1>10. Split(t) = [k \in 1 .. n |-> SubSeq(t, cut[k - 1] + 1, cut[k] - 1)]
  BY <1>3, <1>8
<1> QED
  BY <1>9, <1>10

---------------------------------------------------------------------------
\* The copying of string_join: f[k] is what has been written after k items.
Growth(f, seqs, C) ==
    /\ f \in [0 .. Len(seqs) -> Seq(C)] /\ f[0] = <<>>
    /\ \A k \in 1 .. Len(seqs) : f[k] = f[k - 1] \o seqs[k]

LEMMA FlattenIs ==
    ASSUME NEW C, NEW seqs \in Seq(Seq(C)), seqs # <<>>
    PROVE  \E f : Growth(f, seqs, C) /\ FlattenSeq(seqs) = f[Len(seqs)]
<1> DEFINE n == Len(seqs)
           nx == [k \in 1 .. n |-> [s \in Seq(C) |-> s \o seqs[k]]]
           step(g) == [i \in 1 .. n |-> IF i = 1 THEN seqs[i] ELSE g[i - 1] \o seqs[i]]
           flat == CHOOSE g : g = step(g)
<1>1. n \in Nat /\ n > 0 /\ n # 0 /\ \A k \in 1 .. n : seqs[k] \in Seq(C)
  BY EmptySeq, LenProperties, ElementOfSeq
<1>2. \A k \in 1 .. n : \A s \in Seq(C) : nx[k][s] = s \o seqs[k]
  OBVIOUS
<1>3. FlattenSeq(seqs) = flat[n]
  BY <1>1 DEF FlattenSeq
<1> HIDE DEF n, nx
<1>4. PICK f \in [0 .. n -> Seq(C)] : f[0] = <<>> /\ \A k \in 1 .. n : f[k] = nx[k][f[k - 1]]
  <2>1. Stay(nx, Seq(C), n)
    BY <1>1, <1>2, ConcatProperties DEF Stay
  <2>2. <<>> \in Seq(C)
    OBVIOUS
  <2>3. RunsOf(nx, Seq(C), <<>>, n) # {}
    BY <1>1, <2>1, <2>2, Iteration
  <2> QED
    BY <2>3 DEF RunsOf
<1>5. \A k \in 1 .. n : f[k] = f[k - 1] \o seqs[k]
  <2>1. \A k \in 1 .. n : k - 1 \in 0 .. n
    BY <1>1
  <2> QED
    BY <1>2, <1>4, <2>1
<1> DEFINE walk == [i \in 1 .. n |-> f[i]]
<1>6. walk = step(walk)
  <2>1. ASSUME NEW i \in 1 .. n
        PROVE  walk[i] = IF i = 1 THEN seqs[i] ELSE walk[i - 1] \o seqs[i]
    <3>1. CASE i = 1
      <4>3. f[i] = f[i - 1] \o seqs[i]
        BY <1>5
      <4>4. i - 1 = 0 /\ seqs[i] \in Seq(C)
        BY <1>1, <3>1
      <4>1. f[1] = f[0] \o seqs[1] /\ seqs[1] \in Seq(C)
        BY <3>1, <4>3, <4>4
      <4>2. <<>> \o seqs[1] = seqs[1]
        BY <4>1, ConcatEmptySeq
      <4> QED
        BY <1>4, <3>1, <4>1, <4>2
    <3>2. CASE i # 1
      <4>1. i - 1 \in 1 .. n
        BY <1>1, <3>2
      <4> QED
        BY <1>5, <3>2, <4>1
    <3> QED
      BY <3>1, <3>2
  <2> QED
    BY <2>1
<1>7. flat = step(flat)
  BY <1>6
<1> HIDE DEF flat, walk
<1>8. \A i \in 1 .. n : flat[i] = IF i = 1 THEN seqs[i] ELSE flat[i - 1] \o seqs[i]
  BY <1>7
<1>9. \A i \in 1 .. n : walk[i] = IF i = 1 THEN seqs[i] ELSE walk[i - 1] \o seqs[i]
  BY <1>6
<1>10. \A i \in 1 .. n : flat[i] = walk[i]
  <2> DEFINE Good == {i \in 1 .. n : flat[i] = walk[i]}
  <2>1. 1 \in Good
    BY <1>1, <1>8, <1>9
  <2>2. ASSUME NEW k \in 1 + 1 .. n, k - 1 \in Good PROVE k \in Good
    <3>1. k \in 1 .. n /\ k # 1 /\ flat[k - 1] = walk[k - 1]
      BY <1>1, <2>2
    <3> QED
      BY <1>8, <1>9, <3>1
  <2>3. \A k \in 1 .. n : k \in Good
    <3> HIDE DEF Good
    <3> QED
      BY <1>1, <2>1, <2>2, Stepwise
  <2> QED
    BY <2>3
<1>11. FlattenSeq(seqs) = f[n]
  BY <1>1, <1>3, <1>10 DEF walk
<1> QED
  BY <1>4, <1>5, <1>11 DEF Growth, n

\* What has been written stays, and the next item comes behind it.
LEMMA GrowthKeeps ==
    ASSUME NEW C, NEW seqs \in Seq(Seq(C)), NEW f, Growth(f, seqs, C),
           NEW j \in 0 .. Len(seqs)
    PROVE  \A i \in j .. Len(seqs) :
              /\ Len(f[j]) <= Len(f[i])
              /\ \A p \in 1 .. Len(f[j]) : f[i][p] = f[j][p]
<1> DEFINE n == Len(seqs)
           Good == {i \in j .. n : /\ Len(f[j]) <= Len(f[i])
                                   /\ \A p \in 1 .. Len(f[j]) : f[i][p] = f[j][p]}
<1>1. /\ n \in Nat /\ \A k \in 1 .. n : seqs[k] \in Seq(C)
      /\ \A k \in 0 .. n : f[k] \in Seq(C) /\ Len(f[k]) \in Nat
      /\ \A k \in 1 .. n : f[k] = f[k - 1] \o seqs[k]
  BY LenProperties, ElementOfSeq DEF Growth
<1>2. j \in Good
  BY <1>1
<1>3. ASSUME NEW k \in j + 1 .. n, k - 1 \in Good PROVE k \in Good
  <2>1. k \in 1 .. n /\ k - 1 \in 0 .. n /\ k \in j .. n
    BY <1>1
  <2> DEFINE u == f[k - 1]
  <2>2. u \in Seq(C) /\ f[k] = u \o seqs[k] /\ seqs[k] \in Seq(C)
    BY <1>1, <2>1
  <2>3. Len(f[j]) <= Len(u) /\ \A p \in 1 .. Len(f[j]) : u[p] = f[j][p]
    BY <1>3
  <2>4. Len(u) \in Nat /\ Len(seqs[k]) \in Nat /\ Len(f[j]) \in Nat
    BY <1>1, <2>2, LenProperties
  <2> HIDE DEF u
  <2>5. /\ Len(f[k]) = Len(u) + Len(seqs[k])
        /\ \A i \in 1 .. Len(u) + Len(seqs[k]) :
              f[k][i] = IF i <= Len(u) THEN u[i] ELSE seqs[k][i - Len(u)]
    BY <2>2, ConcatProperties
  <2>6. \A p \in 1 .. Len(f[j]) : f[k][p] = f[j][p]
    <3>1. ASSUME NEW p \in 1 .. Len(f[j])
          PROVE  p \in 1 .. Len(u) + Len(seqs[k]) /\ p <= Len(u)
      BY <2>3, <2>4
    <3> QED
      BY <2>3, <2>5, <3>1
  <2> QED
    BY <2>1, <2>3, <2>4, <2>5, <2>6
<1>4. \A i \in j .. n : i \in Good
  <2>1. j \in Nat
    BY <1>1
  <2> HIDE DEF Good
  <2> QED
    BY <1>1, <1>2, <1>3, <2>1, Stepwise
<1> QED
  BY <1>4

\* Where the items of a list are in a text: item k ends before e[k], and there is a
\* separator behind every item but the last.
JoinedAt(t, list, e) ==
    LET n == Len(list)
    IN  /\ e \in [0 .. n -> 0 .. Len(t) + 1]
        /\ e[0] = 0 /\ e[n] = Len(t) + 1
        /\ \A k \in 1 .. n :
              /\ e[k] = e[k - 1] + Len(list[k]) + 1
              /\ k # n => t[e[k]] = Sep
              /\ \A i \in 1 .. Len(list[k]) : t[e[k - 1] + i] = list[k][i]

\* What string_join returns.
LEMMA JoinIs ==
    ASSUME NEW C, NEW list \in Seq(Seq(C)), list # <<>>, list # Null
    PROVE  Join(list) \in Seq(C \cup {Sep}) /\ \E e : JoinedAt(Join(list), list, e)
<1> DEFINE D == C \cup {Sep}
           n == Len(list)
           seqs == [i \in DOMAIN list |-> Append(list[i], Sep)]
<1>1. /\ n \in Nat /\ n > 0 /\ DOMAIN list = 1 .. n
      /\ \A k \in 1 .. n : /\ list[k] \in Seq(C) /\ list[k] \in Seq(D) /\ Len(list[k]) \in Nat
  <2>1. n \in Nat /\ n > 0 /\ DOMAIN list = 1 .. n
    BY EmptySeq, LenProperties
  <2>2. ASSUME NEW k \in 1 .. n
        PROVE  list[k] \in Seq(C) /\ list[k] \in Seq(D) /\ Len(list[k]) \in Nat
    <3>1. list[k] \in Seq(C)
      BY ElementOfSeq
    <3> QED
      BY <3>1, SeqMonotonic, LenProperties
  <2> QED
    BY <2>1, <2>2
<1>2. ASSUME NEW k \in 1 .. n
      PROVE  /\ seqs[k] \in Seq(D) /\ Len(seqs[k]) = Len(list[k]) + 1
             /\ \A i \in 1 .. Len(list[k]) : seqs[k][i] = list[k][i]
             /\ seqs[k][Len(list[k]) + 1] = Sep
  <2>1. list[k] \in Seq(D) /\ Sep \in D /\ seqs[k] = Append(list[k], Sep)
    BY <1>1
  <2> HIDE DEF D, seqs
  <2> QED
    BY <2>1, AppendProperties
<1>3. seqs \in Seq(Seq(D)) /\ Len(seqs) = n /\ seqs # <<>>
  <2>1. seqs \in [1 .. n -> Seq(D)]
    BY <1>1, <1>2
  <2> HIDE DEF seqs, D, n
  <2> QED
    BY <1>1, <2>1
<1>4. Join(list) = Front(FlattenSeq(seqs))
  BY DEF Join
<1> HIDE DEF D, n, seqs
<1>5. PICK f : Growth(f, seqs, D) /\ FlattenSeq(seqs) = f[n]
  BY <1>3, FlattenIs
<1> DEFINE e == [k \in 0 .. n |-> Len(f[k])]
           F == f[n]
           t == SubSeq(F, 1, Len(F) - 1)
<1>6. /\ f[0] = <<>> /\ \A k \in 0 .. n : f[k] \in Seq(D) /\ Len(f[k]) \in Nat
      /\ \A k \in 1 .. n : f[k] = f[k - 1] \o seqs[k]
  BY <1>3, <1>5, LenProperties DEF Growth
<1>7. \A j \in 0 .. n : \A i \in j .. n :
         /\ Len(f[j]) <= Len(f[i])
         /\ \A p \in 1 .. Len(f[j]) : f[i][p] = f[j][p]
  BY <1>3, <1>5, GrowthKeeps
<1>8. e[0] = 0 /\ e[n] = Len(F)
  BY <1>1, <1>6, EmptySeq
<1>9. \A k \in 0 .. n : e[k] \in 0 .. Len(F)
  <2>1. \A k \in 0 .. n : n \in k .. n /\ e[k] = Len(f[k])
    BY <1>1
  <2> QED
    BY <1>1, <1>6, <1>7, <2>1
<1>10. ASSUME NEW k \in 1 .. n
       PROVE  /\ e[k - 1] \in Nat /\ e[k] = e[k - 1] + Len(list[k]) + 1
              /\ F[e[k]] = Sep
              /\ \A i \in 1 .. Len(list[k]) : F[e[k - 1] + i] = list[k][i]
  <2> DEFINE u == f[k - 1]
             v == f[k]
             s == seqs[k]
  <2>1. k - 1 \in 0 .. n /\ k \in 0 .. n /\ n \in k .. n
    BY <1>1
  <2>2. e[k - 1] = Len(u) /\ e[k] = Len(v)
    BY <2>1
  <2>3. /\ u \in Seq(D) /\ v \in Seq(D) /\ Len(u) \in Nat /\ Len(v) \in Nat
        /\ v = u \o s
    BY <1>6, <2>1
  <2>4. \A p \in 1 .. Len(v) : F[p] = v[p]
    BY <1>7, <2>1
  <2>5. /\ s \in Seq(D) /\ Len(s) = Len(list[k]) + 1 /\ Len(list[k]) \in Nat
        /\ \A i \in 1 .. Len(list[k]) : s[i] = list[k][i]
        /\ s[Len(list[k]) + 1] = Sep
    BY <1>1, <1>2
  <2> HIDE DEF e, F, u, v, s
  <2>6. /\ Len(v) = Len(u) + Len(s)
        /\ \A i \in 1 .. Len(u) + Len(s) : v[i] = IF i <= Len(u) THEN u[i] ELSE s[i - Len(u)]
    <3>1. /\ Len(u \o s) = Len(u) + Len(s)
          /\ \A i \in 1 .. Len(u) + Len(s) :
                (u \o s)[i] = IF i <= Len(u) THEN u[i] ELSE s[i - Len(u)]
      <4>1. u \in Seq(D) /\ s \in Seq(D)
        BY <2>3, <2>5
      <4> QED
        BY ONLY <4>1, ConcatProperties
    <3> QED
      BY ONLY <2>3, <3>1
  <2>7. ASSUME NEW i \in 1 .. Len(list[k]) + 1 PROVE F[Len(u) + i] = s[i]
    <3>1. Len(u) + i \in 1 .. Len(u) + Len(s) /\ ~(Len(u) + i <= Len(u))
          /\ (Len(u) + i) - Len(u) = i
      BY <2>3, <2>5
    <3>2. v[Len(u) + i] = s[i]
      BY <2>6, <3>1
    <3> QED
      BY <2>4, <2>6, <3>1, <3>2
  <2>8. Len(v) = Len(u) + (Len(list[k]) + 1) /\ Len(list[k]) + 1 \in 1 .. Len(list[k]) + 1
    BY <2>3, <2>5, <2>6
  <2>9. F[Len(v)] = Sep
    BY <2>5, <2>7, <2>8
  <2>10. \A i \in 1 .. Len(list[k]) : F[Len(u) + i] = list[k][i]
    <3>1. \A i \in 1 .. Len(list[k]) : i \in 1 .. Len(list[k]) + 1
      BY <2>5
    <3> QED
      BY <2>5, <2>7, <3>1
  <2>11. Len(v) = Len(u) + Len(list[k]) + 1
    BY <2>3, <2>5, <2>8
  <2> QED
    BY <2>2, <2>3, <2>9, <2>10, <2>11
<1>11. Join(list) = t
  BY <1>4, <1>5 DEF Front
<1>12. F \in Seq(D) /\ Len(F) \in Nat
  BY <1>1, <1>6
<1> HIDE DEF e, F
<1>13. /\ t \in Seq(D) /\ Len(t) = Len(F) - 1
       /\ \A p \in 1 .. Len(F) - 1 : t[p] = F[p]
  <2>1. PICK m \in Nat : Len(F) = m + 1
    <3>1. n \in 1 .. n /\ n - 1 \in 0 .. n
      BY <1>1
    <3>2. e[n] = e[n - 1] + Len(list[n]) + 1 /\ e[n - 1] \in Nat /\ Len(list[n]) \in Nat
      BY <1>1, <1>10, <3>1
    <3>3. e[n - 1] + Len(list[n]) \in Nat /\ Len(F) = (e[n - 1] + Len(list[n])) + 1
      BY <1>8, <3>2
    <3> QED
      BY <3>3
  <2>2. Len(F) - 1 = m /\ \A p \in 1 .. m : F[p] \in D
    <3>1. Len(F) - 1 = m /\ \A p \in 1 .. m : p \in 1 .. Len(F)
      BY <2>1
    <3> QED
      BY <1>12, <3>1, ElementOfSeq
  <2>3. t = SubSeq(F, 1, m)
    BY <2>2
  <2> HIDE DEF t
  <2>4. /\ t \in Seq(D) /\ Len(t) = IF 1 <= m THEN m - 1 + 1 ELSE 0
        /\ \A i \in 1 .. m - 1 + 1 : t[i] = F[1 + i - 1]
    BY <2>2, <2>3, SubSeqProperties
  <2>5. Len(t) = m
    BY <2>4
  <2>6. ASSUME NEW p \in 1 .. m PROVE t[p] = F[p]
    <3>1. p \in 1 .. m - 1 + 1 /\ 1 + p - 1 = p
      OBVIOUS
    <3> QED
      BY <2>4, <3>1
  <2> QED
    BY <2>2, <2>4, <2>5, <2>6
<1> HIDE DEF t
<1>14. JoinedAt(t, list, e)
  <2>1. e \in [0 .. n -> 0 .. Len(t) + 1]
    BY <1>9, <1>12, <1>13 DEF e
  <2>2. e[0] = 0 /\ e[n] = Len(t) + 1
    BY <1>8, <1>12, <1>13
  <2>3. ASSUME NEW k \in 1 .. n
        PROVE  /\ e[k] = e[k - 1] + Len(list[k]) + 1
               /\ k # n => t[e[k]] = Sep
               /\ \A i \in 1 .. Len(list[k]) : t[e[k - 1] + i] = list[k][i]
    <3>1. /\ e[k - 1] \in Nat /\ e[k] = e[k - 1] + Len(list[k]) + 1 /\ F[e[k]] = Sep
          /\ \A i \in 1 .. Len(list[k]) : F[e[k - 1] + i] = list[k][i]
          /\ Len(list[k]) \in Nat
      BY <1>1, <1>10
    <3>2. e[k] \in 0 .. Len(F)
      BY <1>1, <1>9
    <3>3. ASSUME k # n PROVE e[k] \in 1 .. Len(F) - 1
      <4>1. k + 1 \in 1 .. n /\ (k + 1) - 1 = k /\ k + 1 \in 0 .. n
        BY <1>1, <3>3
      <4>2. e[k + 1] = e[k] + Len(list[k + 1]) + 1 /\ Len(list[k + 1]) \in Nat
            /\ e[k + 1] \in 0 .. Len(F)
        BY <1>1, <1>9, <1>10, <4>1
      <4> DEFINE x == e[k]
                 y == e[k + 1]
                 l == Len(list[k + 1])
                 m == Len(list[k])
                 z == e[k - 1]
      <4>3. /\ y = x + l + 1 /\ l \in Nat /\ y \in 0 .. Len(F) /\ Len(F) \in Nat
            /\ x = z + m + 1 /\ z \in Nat /\ m \in Nat
        BY <1>12, <3>1, <4>2
      <4> HIDE DEF x, y, l, m, z
      <4>4. x \in 1 .. Len(F) - 1
        BY ONLY <4>3
      <4> QED
        BY <4>4 DEF x
    <3>4. \A i \in 1 .. Len(list[k]) : e[k - 1] + i \in 1 .. Len(F) - 1
      BY <1>12, <3>1, <3>2
    <3> QED
      BY <1>13, <3>1, <3>3, <3>4
  <2> QED
    BY <2>1, <2>2, <2>3 DEF JoinedAt, n
<1> QED
  BY <1>11, <1>13, <1>14 DEF D

\* No item has the separator in it.
NoSepIn(list) == \A k \in DOMAIN list : Sep \notin ToSet(list[k])

LEMMA CutsOfJoined ==
    ASSUME NEW C, NEW D, NEW list \in Seq(Seq(C)), list # <<>>,
           NEW t \in Seq(D), NEW e, JoinedAt(t, list, e), NoSepIn(list)
    PROVE  CutsAt(t, e, Len(list))
<1> DEFINE n == Len(list)
<1>1. n \in Nat \ {0} /\ DOMAIN list = 1 .. n /\ Len(t) \in Nat
  BY EmptySeq, LenProperties
<1>2. /\ e \in [0 .. n -> 0 .. Len(t) + 1]
      /\ e[0] = 0 /\ e[n] = Len(t) + 1
      /\ \A k \in 1 .. n :
            /\ e[k] = e[k - 1] + Len(list[k]) + 1
            /\ k # n => t[e[k]] = Sep
            /\ \A i \in 1 .. Len(list[k]) : t[e[k - 1] + i] = list[k][i]
  BY DEF JoinedAt
<1>3. ASSUME NEW k \in 1 .. n
      PROVE  /\ e[k - 1] < e[k]
             /\ \A i \in e[k - 1] + 1 .. e[k] - 1 : t[i] # Sep
  <2> DEFINE l == list[k]
             x == e[k - 1]
             y == e[k]
  <2>1. l \in Seq(C) /\ Sep \notin ToSet(l)
    BY <1>1, ElementOfSeq DEF NoSepIn
  <2>2. Len(l) \in Nat /\ \A i \in 1 .. Len(l) : l[i] # Sep
    BY <2>1, LenProperties DEF ToSet
  <2>3. x \in Nat /\ y = x + Len(l) + 1 /\ \A i \in 1 .. Len(l) : t[x + i] = l[i]
    <3>1. k - 1 \in 0 .. n
      BY <1>1
    <3>2. x \in 0 .. Len(t) + 1
      BY <1>2, <3>1
    <3>3. x \in Nat
      BY <1>1, <3>2
    <3>4. y = x + Len(l) + 1 /\ \A i \in 1 .. Len(l) : t[x + i] = l[i]
      BY <1>2
    <3> QED
      BY <3>3, <3>4
  <2> HIDE DEF l, x, y
  <2>4. ASSUME NEW i \in x + 1 .. y - 1 PROVE t[i] # Sep
    <3>1. i - x \in 1 .. Len(l) /\ x + (i - x) = i
      BY <2>2, <2>3
    <3> QED
      BY <2>2, <2>3, <3>1
  <2>5. x < y
    BY <2>2, <2>3
  <2> QED
    BY <2>4, <2>5 DEF x, y
<1> HIDE DEF n
<1>4. CutsAt(t, e, n)
  BY <1>1, <1>2, <1>3 DEF CutsAt
<1> QED
  BY <1>4 DEF n

LEMMA ItemsOfJoined ==
    ASSUME NEW C, NEW D, NEW list \in Seq(Seq(C)), NEW t \in Seq(D), NEW e,
           JoinedAt(t, list, e), NEW k \in 1 .. Len(list)
    PROVE  SubSeq(t, e[k - 1] + 1, e[k] - 1) = list[k]
<1> DEFINE l == list[k]
           x == e[k - 1]
           y == e[k]
           s == SubSeq(t, x + 1, y - 1)
<1>1. l \in Seq(C) /\ Len(l) \in Nat
  BY ElementOfSeq, LenProperties
<1>2. x \in Nat /\ y = x + Len(l) + 1 /\ \A i \in 1 .. Len(l) : t[x + i] = l[i]
  <2>1. k - 1 \in 0 .. Len(list) /\ Len(t) \in Nat
    BY LenProperties
  <2>2. x \in 0 .. Len(t) + 1
    BY <2>1 DEF JoinedAt
  <2> QED
    BY <2>1, <2>2 DEF JoinedAt
<1> HIDE DEF l, x, y
<1>3. y - 1 = x + Len(l) /\ y - 1 \in Int /\ x + 1 \in Int
  BY <1>1, <1>2
<1>4. \A i \in x + 1 .. y - 1 : t[i] \in C
  <2>1. ASSUME NEW i \in x + 1 .. y - 1 PROVE t[i] \in C
    <3>1. i - x \in 1 .. Len(l) /\ x + (i - x) = i
      BY <1>1, <1>2, <1>3
    <3>2. t[i] = l[i - x] /\ l[i - x] \in C
      BY <1>1, <1>2, <3>1, ElementOfSeq
    <3> QED
      BY <3>2
  <2> QED
    BY <2>1
<1>5. /\ s \in Seq(C)
      /\ Len(s) = IF x + 1 <= y - 1 THEN (y - 1) - (x + 1) + 1 ELSE 0
      /\ \A i \in 1 .. (y - 1) - (x + 1) + 1 : s[i] = t[(x + 1) + i - 1]
  BY <1>3, <1>4, SubSeqProperties
<1> HIDE DEF s
<1>6. Len(s) = Len(l)
  BY <1>1, <1>2, <1>3, <1>5
<1>7. ASSUME NEW i \in 1 .. Len(l) PROVE s[i] = l[i]
  <2>1. i \in 1 .. (y - 1) - (x + 1) + 1 /\ (x + 1) + i - 1 = x + i
    BY <1>1, <1>2
  <2> QED
    BY <1>2, <1>5, <2>1
<1>8. s = l
  BY <1>1, <1>5, <1>6, <1>7, SeqEqual
<1> QED
  BY <1>8 DEF s, l, x, y

\* string_split undoes string_join, for lists of any length with items of any length,
\* exactly if no item has the separator in it.
THEOREM SplitOfJoin ==
    ASSUME NEW C, NEW list \in Seq(Seq(C)), list # <<>>, list # Null, Join(list) # Null
    PROVE  Split(Join(list)) = list <=> NoSepIn(list)
<1> DEFINE t == Join(list)
           n == Len(list)
<1>1. n \in Nat /\ DOMAIN list = 1 .. n /\ list = [k \in 1 .. n |-> list[k]]
  BY LenProperties
<1>2. t \in Seq(C \cup {Sep}) /\ \E e : JoinedAt(t, list, e)
  BY JoinIs
<1>3. t # Null
  OBVIOUS
<1> HIDE DEF t, n
<1>4. ASSUME NoSepIn(list) PROVE Split(t) = list
  <2>1. PICK e : JoinedAt(t, list, e)
    BY <1>2
  <2>2. CutsAt(t, e, n)
    BY <1>2, <1>4, <2>1, CutsOfJoined DEF n
  <2>3. Split(t) = [k \in 1 .. n |-> SubSeq(t, e[k - 1] + 1, e[k] - 1)]
    BY <1>2, <1>3, <2>2, SplitOfCuts
  <2>4. \A k \in 1 .. n : SubSeq(t, e[k - 1] + 1, e[k] - 1) = list[k]
    BY <1>2, <2>1, ItemsOfJoined DEF n
  <2> QED
    BY <1>1, <2>3, <2>4
<1>5. ASSUME Split(t) = list PROVE NoSepIn(list)
  BY <1>2, <1>3, <1>5, SplitItems DEF NoSepIn
<1> QED
  BY <1>4, <1>5 DEF t
=============================================================================
