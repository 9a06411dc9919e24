-------------------------- MODULE ContainersProofs --------------------------
(* The pointers of Containers are a list and a dictionary, for any heap,    *)
(* keys and values.                                                         *)
EXTENDS Containers, FiniteSetTheorems, SequenceTheorems, WellFoundedInduction, TLAPS

\* The sequence s is what a walk from h along nx runs through: every cell once.
Linked(s, nx, h) ==
    /\ s \in Seq(Cell)
    /\ \A i, j \in DOMAIN s : s[i] = s[j] => i = j
    /\ \A i \in DOMAIN s : nx[s[i]] = IF i = Len(s) THEN None ELSE s[i + 1]
    /\ h = IF s = <<>> THEN None ELSE s[1]

HeadOf(container) == IF container = None THEN None ELSE container.head

Lists == [head : Cell \union {None}, size : Nat, frees : BOOLEAN]
Dicts == [head : Cell \union {None}, frees : BOOLEAN]

\* The heap: every allocated cell is in one of the two chains, the cells of the list
\* have values or copies of keys, and those of the dictionary a value and a key each.
ShapeInv ==
    /\ next \in [Cell -> Cell \union {None}]
    /\ key \in [Cell -> Key \union {None}]
    /\ value \in [Cell -> Value \union Key \union {None}]
    /\ list \in Lists \union {None}
    /\ dict \in Dicts \union {None}
    /\ released \subseteq Value
    /\ Linked(ListCells, next, HeadOf(list))
    /\ Linked(DictCells, next, HeadOf(dict))
    /\ CellsOf(ListCells) \intersect CellsOf(DictCells) = {}
    /\ live = CellsOf(ListCells) \union CellsOf(DictCells)
    /\ list # None => list.size = Len(ListCells)

\* What the cells hold: no value twice, no released value, no key twice.
ContentInv ==
    /\ \A n \in live : value[n] # None /\ value[n] \notin released
    /\ \A n \in CellsOf(DictCells) : value[n] \in Value /\ key[n] \in Key
    /\ \A m, n \in live : value[m] = value[n] /\ value[m] \in Value => m = n
    /\ \A m, n \in CellsOf(DictCells) : key[m] = key[n] => m = n

IInv == ShapeInv /\ ContentInv

---------------------------------------------------------------------------
(* Chains.                                                                  *)

LEMMA LeastNumber ==
    ASSUME NEW S, S \subseteq Nat, S # {}
    PROVE  \E m \in S : \A k \in S : m <= k
<1>1. PICK m \in S : \A k \in S : <<k, m>> \notin OpToRel(<, Nat)
  BY ONLY S \subseteq Nat, S # {}, NatLessThanWellFounded, WFMin
<1>2. ASSUME NEW k \in S PROVE ~(k < m)
  <2>1. OpToRel(<, Nat) = {ss \in Nat \X Nat : ss[1] < ss[2]}
    BY ONLY ZenonT(10) DEF OpToRel
  <2>2. <<k, m>> \in Nat \X Nat /\ <<k, m>>[1] = k /\ <<k, m>>[2] = m
    OBVIOUS
  <2>3. <<k, m>> \notin {ss \in Nat \X Nat : ss[1] < ss[2]}
    BY ONLY <1>1, <2>1, Zenon
  <2> QED
    BY ONLY <2>2, <2>3, Zenon
<1>3. \A k \in S : m <= k
  BY <1>2
<1> QED
  BY <1>3

\* A chain has no more cells than there are, and as many as it is long.
LEMMA LinkedLength ==
    ASSUME NEW nx, NEW s, NEW h, Linked(s, nx, h)
    PROVE  /\ Len(s) \in Nat /\ Len(s) <= Cardinality(Cell)
           /\ IsFiniteSet(CellsOf(s)) /\ Cardinality(CellsOf(s)) = Len(s)
           /\ CellsOf(s) \subseteq Cell
<1>1. Len(s) \in Nat /\ DOMAIN s = 1 .. Len(s) /\ s \in [1 .. Len(s) -> Cell]
  BY LenProperties DEF Linked
<1>2. s \in Bijection(1 .. Len(s), CellsOf(s))
  BY <1>1 DEF Linked, CellsOf, Bijection, Injection, Surjection, IsInjective
<1>3. IsFiniteSet(1 .. Len(s)) /\ Cardinality(1 .. Len(s)) = Len(s)
  BY <1>1, FS_Interval
<1>4. IsFiniteSet(CellsOf(s)) /\ Cardinality(CellsOf(s)) = Len(s)
  BY <1>2, <1>3, FS_Bijection DEF ExistsBijection
<1>5. CellsOf(s) \in SUBSET Cell
  BY <1>1 DEF CellsOf
<1> QED
  BY <1>1, <1>4, <1>5, FS_Subset, ContainersAssumption

\* The walk from the head runs through the chain.
LEMMA ChainIs ==
    ASSUME NEW nx, NEW s, NEW h, Linked(s, nx, h)
    PROVE  Chain(nx, h) = s
<1> DEFINE N == Cardinality(Cell)
           step(f) == [k \in 0 .. N |->
                          IF k = 0 THEN h ELSE IF f[k - 1] = None THEN None ELSE nx[f[k - 1]]]
           walk == [k \in 0 .. N |-> IF k < Len(s) THEN s[k + 1] ELSE None]
           at == CHOOSE f : f = step(f)
<1>1. /\ N \in Nat /\ Len(s) \in 0 .. N /\ DOMAIN s = 1 .. Len(s)
      /\ \A i \in 1 .. Len(s) : s[i] \in Cell /\ s[i] # None
  <2>1. Len(s) \in Nat /\ Len(s) <= N /\ N \in Nat
    BY LinkedLength, ContainersAssumption, FS_CardinalityType
  <2> QED
    BY <2>1, ContainersAssumption DEF Linked
<1>2. \A i \in 1 .. Len(s) : nx[s[i]] = IF i = Len(s) THEN None ELSE s[i + 1]
  BY <1>1 DEF Linked
<1>3. h = IF Len(s) = 0 THEN None ELSE s[1]
  BY <1>1, EmptySeq DEF Linked
<1> HIDE DEF N
<1>4. walk = step(walk)
  <2>1. ASSUME NEW k \in 0 .. N
        PROVE  walk[k] = IF k = 0 THEN h
                         ELSE IF walk[k - 1] = None THEN None ELSE nx[walk[k - 1]]
    <3>1. CASE k = 0
      BY <1>1, <1>3, <3>1
    <3>2. CASE k # 0 /\ k - 1 < Len(s)
      <4>1. k \in 1 .. Len(s) /\ k - 1 \in 0 .. N /\ (k - 1) + 1 = k
        BY <1>1, <3>2
      <4>2. walk[k - 1] = s[k] /\ s[k] # None
        BY <1>1, <3>2, <4>1
      <4>3. nx[s[k]] = IF k = Len(s) THEN None ELSE s[k + 1]
        BY <1>2, <4>1
      <4>4. walk[k] = IF k < Len(s) THEN s[k + 1] ELSE None
        OBVIOUS
      <4>5. k < Len(s) <=> k # Len(s)
        <5>1. Len(s) \in Int /\ k \in 1 .. Len(s)
          BY <1>1, <4>1
        <5> QED
          BY ONLY <5>1
      <4> QED
        BY <3>2, <4>2, <4>3, <4>4, <4>5
    <3>3. CASE k # 0 /\ ~(k - 1 < Len(s))
      <4>1. k - 1 \in 0 .. N /\ ~(k < Len(s))
        BY <1>1, <3>3
      <4> QED
        BY <3>3, <4>1
    <3> QED
      BY <3>1, <3>2, <3>3
  <2> HIDE DEF walk
  <2>2. DOMAIN walk = 0 .. N /\ walk = [k \in 0 .. N |-> walk[k]]
    BY DEF walk
  <2> QED
    BY <2>1, <2>2
<1>5. at = step(at)
  BY <1>4
<1>6. ASSUME NEW k \in 0 .. N PROVE at[k] = walk[k]
  <2> DEFINE Differ == {i \in 0 .. N : at[i] # walk[i]}
  <2>1. SUFFICES ASSUME Differ # {} PROVE FALSE
    OBVIOUS
  <2>2. PICK m \in Differ : \A i \in Differ : m <= i
    <3>1. Differ \subseteq Nat
      OBVIOUS
    <3> HIDE DEF Differ
    <3> QED
      BY <2>1, <3>1, LeastNumber
  <2>3. /\ at[m] = IF m = 0 THEN h ELSE IF at[m - 1] = None THEN None ELSE nx[at[m - 1]]
        /\ walk[m] = IF m = 0 THEN h ELSE IF walk[m - 1] = None THEN None ELSE nx[walk[m - 1]]
    <3> HIDE DEF at, walk
    <3> QED
      BY <1>4, <1>5
  <2>4. m # 0
    BY <2>2, <2>3
  <2>5. at[m - 1] = walk[m - 1]
    <3>1. m - 1 \in 0 .. N /\ ~(m <= m - 1)
      BY <1>1, <2>4
    <3> QED
      BY <2>2, <3>1
  <2> QED
    BY <2>2, <2>3, <2>4, <2>5
<1>7. {j \in DOMAIN at : at[j] # None} = 0 .. Len(s) - 1
  <2>1. DOMAIN at = 0 .. N
    <3> HIDE DEF at
    <3> QED
      BY <1>5
  <2>2. \A j \in 0 .. N : walk[j] # None <=> j < Len(s)
    BY <1>1
  <2> HIDE DEF at, walk
  <2> QED
    BY <1>1, <1>6, <2>1, <2>2
<1>8. Cardinality({j \in DOMAIN at : at[j] # None}) = Len(s)
  <2>1. Cardinality(0 .. Len(s) - 1) = Len(s)
    <3>1. 0 \in Int /\ Len(s) - 1 \in Int /\ (Len(s) - 1) - 0 + 1 = Len(s)
          /\ (0 > Len(s) - 1 <=> Len(s) = 0)
      BY <1>1
    <3> QED
      BY <3>1, FS_Interval
  <2> QED
    BY <1>7, <2>1
<1>9. Chain(nx, h) = [k \in 1 .. Cardinality({j \in DOMAIN at : at[j] # None}) |-> at[k - 1]]
  BY DEF Chain, N
<1>10. Chain(nx, h) = [k \in 1 .. Len(s) |-> at[k - 1]]
  BY <1>8, <1>9
<1>11. ASSUME NEW k \in 1 .. Len(s) PROVE at[k - 1] = s[k]
  <2>1. k - 1 \in 0 .. N /\ k - 1 < Len(s) /\ (k - 1) + 1 = k
    BY <1>1
  <2>2. walk[k - 1] = s[k]
    BY <2>1
  <2> QED
    BY <1>6, <2>1, <2>2
<1>12. s = [k \in 1 .. Len(s) |-> s[k]]
  BY <1>1, LenProperties DEF Linked
<1> HIDE DEF at
<1> QED
  BY <1>10, <1>11, <1>12

LEMMA LinkedNone == ASSUME NEW nx PROVE Linked(<<>>, nx, None) /\ CellsOf(<<>>) = {}
BY EmptySeq DEF Linked, CellsOf

\* Other cells' pointers do not matter.
LEMMA LinkedElsewhere ==
    ASSUME NEW nx, NEW mx, NEW s, NEW h, Linked(s, nx, h),
           \A n \in CellsOf(s) : mx[n] = nx[n]
    PROVE  Linked(s, mx, h)
BY DEF Linked, CellsOf

LEMMA LinkedAppend ==
    ASSUME NEW nx, NEW mx, NEW s, NEW h, Linked(s, nx, h), NEW n \in Cell \ CellsOf(s),
           mx[n] = None,
           \A i \in DOMAIN s : mx[s[i]] = IF i = Len(s) THEN n ELSE nx[s[i]]
    PROVE  /\ Linked(Append(s, n), mx, IF s = <<>> THEN n ELSE h)
           /\ CellsOf(Append(s, n)) = CellsOf(s) \union {n}
           /\ Len(Append(s, n)) = Len(s) + 1
<1> DEFINE t == Append(s, n)
<1>1. s \in Seq(Cell) /\ Len(s) \in Nat /\ DOMAIN s = 1 .. Len(s)
  BY DEF Linked
<1>2. /\ t \in Seq(Cell) /\ t # <<>> /\ Len(t) = Len(s) + 1 /\ DOMAIN t = 1 .. Len(s) + 1
      /\ \A i \in 1 .. Len(s) : t[i] = s[i]
      /\ t[Len(s) + 1] = n
  <2>1. /\ t \in Seq(Cell) /\ t # <<>> /\ Len(t) = Len(s) + 1
        /\ \A i \in 1 .. Len(s) : t[i] = s[i]
        /\ t[Len(s) + 1] = n
    BY <1>1, AppendProperties
  <2> QED
    BY <2>1, LenProperties
<1> HIDE DEF t
<1>3. \A i \in 1 .. Len(s) : s[i] # n
  BY <1>1 DEF CellsOf
<1>4. \A i, j \in DOMAIN t : t[i] = t[j] => i = j
  <2>1. \A i, j \in 1 .. Len(s) : s[i] = s[j] => i = j
    BY <1>1 DEF Linked
  <2>2. \A i \in DOMAIN t : i \in 1 .. Len(s) \/ i = Len(s) + 1
    BY <1>1, <1>2
  <2> QED
    BY <1>2, <1>3, <2>1, <2>2
<1>5. ASSUME NEW i \in DOMAIN t PROVE mx[t[i]] = IF i = Len(t) THEN None ELSE t[i + 1]
  <2>1. CASE i = Len(s) + 1
    BY <1>2, <2>1
  <2>2. CASE i = Len(s) /\ i \in 1 .. Len(s)
    BY <1>1, <1>2, <2>2
  <2>3. CASE i # Len(s) /\ i \in 1 .. Len(s)
    <3>1. i + 1 \in 1 .. Len(s) /\ i # Len(t)
      BY <1>1, <1>2, <2>3
    <3>2. mx[s[i]] = s[i + 1]
      BY <1>1, <2>3 DEF Linked
    <3> QED
      BY <1>2, <2>3, <3>1, <3>2
  <2> QED
    BY <1>1, <1>2, <2>1, <2>2, <2>3
<1>6. (IF s = <<>> THEN n ELSE h) = t[1]
  <2>1. CASE s = <<>>
    BY <1>2, <2>1, EmptySeq
  <2>2. CASE s # <<>>
    BY <1>1, <1>2, <2>2, EmptySeq DEF Linked
  <2> QED
    BY <2>1, <2>2
<1>7. CellsOf(t) = CellsOf(s) \union {n}
  BY <1>1, <1>2 DEF CellsOf
<1> QED
  BY <1>2, <1>4, <1>5, <1>6, <1>7 DEF Linked, t

\* The sequence s, its item at p taken out.
Without(s, p) == SubSeq(s, 1, p - 1) \o SubSeq(s, p + 1, Len(s))

LEMMA WithoutIs ==
    ASSUME NEW S, NEW s \in Seq(S), NEW p \in DOMAIN s
    PROVE  /\ Without(s, p) \in Seq(S)
           /\ Len(Without(s, p)) = Len(s) - 1
           /\ \A i \in 1 .. Len(s) - 1 : Without(s, p)[i] = IF i < p THEN s[i] ELSE s[i + 1]
<1> DEFINE a == SubSeq(s, 1, p - 1)
           b == SubSeq(s, p + 1, Len(s))
<1>1. p \in 1 .. Len(s) /\ Len(s) \in Nat /\ \A i \in 1 .. Len(s) : s[i] \in S
  OBVIOUS
<1>2. a \in Seq(S) /\ Len(a) = p - 1 /\ \A i \in 1 .. p - 1 : a[i] = s[i]
  BY <1>1, SubSeqProperties
<1>3. b \in Seq(S) /\ Len(b) = Len(s) - p /\ \A i \in 1 .. Len(s) - p : b[i] = s[p + i]
  BY <1>1, SubSeqProperties
<1>4. /\ a \o b \in Seq(S) /\ Len(a \o b) = Len(a) + Len(b)
      /\ \A i \in 1 .. Len(a) + Len(b) : (a \o b)[i] = IF i <= Len(a) THEN a[i] ELSE b[i - Len(a)]
  BY <1>2, <1>3, ConcatProperties
<1>5. Without(s, p) = a \o b
  BY DEF Without
<1> HIDE DEF a, b
<1>6. Len(a \o b) = Len(s) - 1
  BY <1>1, <1>2, <1>3, <1>4
<1>7. ASSUME NEW i \in 1 .. Len(s) - 1 PROVE (a \o b)[i] = IF i < p THEN s[i] ELSE s[i + 1]
  <2>1. i \in 1 .. Len(a) + Len(b)
    BY <1>1, <1>2, <1>3
  <2>2. CASE i < p
    BY <1>1, <1>2, <1>4, <2>1, <2>2
  <2>3. CASE ~(i < p)
    <3>1. i - (p - 1) \in 1 .. Len(s) - p /\ p + (i - (p - 1)) = i + 1
      BY <1>1, <2>3
    <3>2. i - Len(a) \in 1 .. Len(s) - p /\ ~(i <= Len(a))
      BY <1>1, <1>2, <2>3
    <3>3. (a \o b)[i] = b[i - (p - 1)]
      BY <1>2, <1>4, <2>1, <3>2
    <3>4. b[i - (p - 1)] = s[p + (i - (p - 1))]
      BY <1>3, <3>1
    <3> QED
      BY <2>3, <3>1, <3>3, <3>4
  <2> QED
    BY <2>2, <2>3
<1> QED
  BY <1>4, <1>5, <1>6, <1>7

\* The place that the item at i had before the one at p was taken out, and the place
\* whose pointer it has now.
Back(i, p) == IF i < p THEN i ELSE i + 1
Heir(i, p) == IF Back(i, p) = p - 1 THEN p ELSE Back(i, p)

LEMMA BackIs ==
    ASSUME NEW L \in Nat, NEW p \in 1 .. L
    PROVE  /\ \A i \in 1 .. L - 1 : Back(i, p) \in 1 .. L /\ Back(i, p) # p
           /\ \A i, j \in 1 .. L - 1 : Back(i, p) = Back(j, p) => i = j
           /\ \A j \in 1 .. L : j # p => \E i \in 1 .. L - 1 : Back(i, p) = j
           /\ \A i \in 1 .. L - 1 : Heir(i, p) \in 1 .. L
           /\ \A i \in 1 .. L - 1 : Heir(i, p) = L <=> i = L - 1
           /\ \A i \in 1 .. L - 1 : i # L - 1 => Heir(i, p) + 1 = Back(i + 1, p)
<1>1. ASSUME NEW j \in 1 .. L, j # p PROVE \E i \in 1 .. L - 1 : Back(i, p) = j
  <2>1. CASE j < p
    BY <2>1 DEF Back
  <2>2. CASE j > p
    <3>1. j - 1 \in 1 .. L - 1 /\ Back(j - 1, p) = j
      BY <2>2 DEF Back
    <3> QED
      BY <3>1
  <2> QED
    BY <1>1, <2>1, <2>2
<1> QED
  BY <1>1 DEF Back, Heir

\* The pointers mx lead past the cell at p, nx do not.
Past(nx, mx, s, p) ==
    \A i \in DOMAIN s : i # p => mx[s[i]] = nx[s[IF i = p - 1 THEN p ELSE i]]

HeadPast(nx, s, p, h) == IF p = 1 THEN nx[s[1]] ELSE h

LEMMA LinkedWithout ==
    ASSUME NEW nx, NEW mx, NEW s, NEW h, Linked(s, nx, h), NEW p \in 1 .. Len(s),
           Past(nx, mx, s, p)
    PROVE  /\ Linked(Without(s, p), mx, HeadPast(nx, s, p, h))
           /\ CellsOf(Without(s, p)) = CellsOf(s) \ {s[p]}
           /\ Len(Without(s, p)) = Len(s) - 1
<1> DEFINE t == Without(s, p)
           L == Len(s)
           g == HeadPast(nx, s, p, h)
<1>1. s \in Seq(Cell) /\ L \in Nat /\ DOMAIN s = 1 .. L /\ p \in 1 .. L
  BY LenProperties DEF Linked
<1>2. \A i, j \in 1 .. L : s[i] = s[j] => i = j
  BY <1>1 DEF Linked
<1>3. \A i \in 1 .. L : nx[s[i]] = IF i = L THEN None ELSE s[i + 1]
  BY <1>1 DEF Linked
<1>4. L # 0 /\ s # <<>> /\ h = s[1]
  BY <1>1, EmptySeq DEF Linked
<1>5. /\ t \in Seq(Cell) /\ Len(t) = L - 1 /\ DOMAIN t = 1 .. L - 1
      /\ \A i \in 1 .. L - 1 : t[i] = s[Back(i, p)]
  <2>1. /\ t \in Seq(Cell) /\ Len(t) = L - 1
        /\ \A i \in 1 .. L - 1 : t[i] = IF i < p THEN s[i] ELSE s[i + 1]
    BY ONLY <1>1, WithoutIs
  <2>2. DOMAIN t = 1 .. L - 1
    BY ONLY <2>1, LenProperties
  <2>3. \A i \in 1 .. L - 1 : s[Back(i, p)] = IF i < p THEN s[i] ELSE s[i + 1]
    BY ONLY Zenon DEF Back
  <2> QED
    BY ONLY <2>1, <2>2, <2>3
<1>6. \A i \in 1 .. L - 1 : mx[t[i]] = nx[s[Heir(i, p)]]
  BY <1>1, <1>5, BackIs DEF Heir, Past
<1> HIDE DEF t, L
<1>b. /\ \A i \in 1 .. L - 1 : Back(i, p) \in 1 .. L /\ Back(i, p) # p
      /\ \A i, j \in 1 .. L - 1 : Back(i, p) = Back(j, p) => i = j
      /\ \A j \in 1 .. L : j # p => \E i \in 1 .. L - 1 : Back(i, p) = j
  BY ONLY <1>1, BackIs
<1>h. /\ \A i \in 1 .. L - 1 : Heir(i, p) \in 1 .. L
      /\ \A i \in 1 .. L - 1 : Heir(i, p) = L <=> i = L - 1
      /\ \A i \in 1 .. L - 1 : i # L - 1 => Heir(i, p) + 1 = Back(i + 1, p)
  BY ONLY <1>1, BackIs
<1>7. \A i, j \in DOMAIN t : t[i] = t[j] => i = j
  BY ONLY <1>2, <1>5, <1>b
<1>8. ASSUME NEW i \in DOMAIN t PROVE mx[t[i]] = IF i = Len(t) THEN None ELSE t[i + 1]
  <2>1. i \in 1 .. L - 1 /\ mx[t[i]] = nx[s[Heir(i, p)]] /\ Heir(i, p) \in 1 .. L
    BY ONLY <1>5, <1>6, <1>8, <1>h
  <2>2. nx[s[Heir(i, p)]] = IF Heir(i, p) = L THEN None ELSE s[Heir(i, p) + 1]
    BY ONLY <1>3, <2>1
  <2>3. Heir(i, p) = L <=> i = L - 1
    BY ONLY <2>1, <1>h
  <2>4. ASSUME i # L - 1 PROVE s[Heir(i, p) + 1] = t[i + 1]
    <3>1. Heir(i, p) + 1 = Back(i + 1, p)
      BY ONLY <2>1, <2>4, <1>h
    <3>2. i + 1 \in 1 .. L - 1
      BY ONLY <1>1, <2>1, <2>4
    <3> QED
      BY ONLY <1>5, <3>1, <3>2
  <2> QED
    BY ONLY <1>5, <2>1, <2>2, <2>3, <2>4
<1>9. g = IF t = <<>> THEN None ELSE t[1]
  <2>1. CASE L = 1
    <3>1. p = 1 /\ nx[s[1]] = None
      BY ONLY <1>1, <1>3, <2>1
    <3>2. t = <<>>
      BY ONLY <1>5, <2>1, EmptySeq
    <3> QED
      BY <3>1, <3>2 DEF HeadPast
  <2>2. CASE L # 1
    <3>1. 1 \in 1 .. L - 1 /\ 1 \in 1 .. L
      BY ONLY <1>1, <1>4, <2>2
    <3>2. t # <<>>
      BY ONLY <1>5, <3>1, EmptySeq
    <3>3. Back(1, p) = IF p = 1 THEN 2 ELSE 1
      BY ONLY <1>1 DEF Back
    <3>4. nx[s[1]] = s[2]
      BY ONLY <1>3, <2>2, <3>1
    <3> QED
      BY ONLY <1>4, <1>5, <3>1, <3>2, <3>3, <3>4 DEF HeadPast
  <2> QED
    BY <2>1, <2>2
<1>10. CellsOf(t) = CellsOf(s) \ {s[p]}
  <2>1. CellsOf(t) = {s[Back(i, p)] : i \in 1 .. L - 1}
    BY ONLY <1>5 DEF CellsOf
  <2>2. CellsOf(s) = {s[i] : i \in 1 .. L}
    BY ONLY <1>1 DEF CellsOf
  <2>3. \A j \in 1 .. L : j # p => s[j] # s[p]
    BY ONLY <1>1, <1>2
  <2>4. ASSUME NEW n \in CellsOf(t) PROVE n \in CellsOf(s) \ {s[p]}
    BY ONLY <2>1, <2>2, <2>3, <2>4, <1>b
  <2>5. ASSUME NEW n \in CellsOf(s) \ {s[p]} PROVE n \in CellsOf(t)
    BY ONLY <2>1, <2>2, <2>5, <1>b
  <2> QED
    BY ONLY <2>4, <2>5
<1> QED
  BY <1>5, <1>7, <1>8, <1>9, <1>10 DEF Linked, t, L

---------------------------------------------------------------------------
(* The two chains of a state.                                               *)

LEMMA NoneIsNoCell == None \notin Cell /\ None \notin Key /\ None \notin Value
BY ContainersAssumption

LEMMA ChainsOf ==
    ASSUME NEW nx, NEW s, NEW h, Linked(s, nx, h)
    PROVE  /\ (s = <<>>) <=> (h = None)
           /\ (s = <<>>) <=> (Len(s) = 0)
           /\ s # <<>> => h = s[1] /\ Len(s) \in 1 .. Len(s)
           /\ DOMAIN s = 1 .. Len(s) /\ Len(s) \in Nat
           /\ CellsOf(s) \subseteq Cell /\ None \notin CellsOf(s)
           /\ \A i \in 1 .. Len(s) : s[i] \in CellsOf(s)
<1>1. s \in Seq(Cell) /\ Len(s) \in Nat /\ DOMAIN s = 1 .. Len(s)
  BY LenProperties DEF Linked
<1>2. s = <<>> <=> Len(s) = 0
  BY <1>1, EmptySeq
<1>3. h = IF s = <<>> THEN None ELSE s[1]
  BY DEF Linked
<1>4. \A i \in 1 .. Len(s) : s[i] \in Cell
  BY <1>1
<1>5. CellsOf(s) = {s[i] : i \in 1 .. Len(s)}
  BY <1>1 DEF CellsOf
<1>6. s # <<>> => 1 \in 1 .. Len(s) /\ Len(s) \in 1 .. Len(s)
  BY <1>1, <1>2
<1> QED
  BY <1>1, <1>2, <1>3, <1>4, <1>5, <1>6, NoneIsNoCell

\* A state is described by the sequences its chains are.
LEMMA ShapeNext ==
    ASSUME NEW s, NEW t,
           next' \in [Cell -> Cell \union {None}],
           key' \in [Cell -> Key \union {None}],
           value' \in [Cell -> Value \union Key \union {None}],
           list' \in Lists \union {None}, dict' \in Dicts \union {None},
           released' \subseteq Value,
           Linked(s, next', HeadOf(list')), Linked(t, next', HeadOf(dict')),
           CellsOf(s) \intersect CellsOf(t) = {}, live' = CellsOf(s) \union CellsOf(t),
           list' # None => list'.size = Len(s)
    PROVE  ShapeInv' /\ ListCells' = s /\ DictCells' = t
<1>1. ListCells' = s
  <2>1. CASE list' = None
    BY <2>1, ChainsOf DEF ListCells, HeadOf
  <2>2. CASE list' # None
    BY <2>2, ChainIs DEF ListCells, HeadOf
  <2> QED
    BY <2>1, <2>2
<1>2. DictCells' = t
  <2>1. CASE dict' = None
    BY <2>1, ChainsOf DEF DictCells, HeadOf
  <2>2. CASE dict' # None
    BY <2>2, ChainIs DEF DictCells, HeadOf
  <2> QED
    BY <2>1, <2>2
<1>3. Linked(ListCells, next, HeadOf(list))' /\ Linked(DictCells, next, HeadOf(dict))'
  BY <1>1, <1>2 DEF Linked, HeadOf
<1> QED
  BY <1>1, <1>2, <1>3 DEF ShapeInv

\* The two chains: their facts at one place.
LEMMA ShapeIs ==
    ASSUME ShapeInv
    PROVE  /\ Linked(ListCells, next, HeadOf(list)) /\ Linked(DictCells, next, HeadOf(dict))
           /\ CellsOf(ListCells) \subseteq live /\ CellsOf(DictCells) \subseteq live
           /\ live = CellsOf(ListCells) \union CellsOf(DictCells)
           /\ live \subseteq Cell
           /\ CellsOf(ListCells) \intersect CellsOf(DictCells) = {}
BY ChainsOf DEF ShapeInv

LEMMA FreshIs ==
    ASSUME live \subseteq Cell, live # Cell PROVE Fresh \in Cell \ live
<1> DEFINE rest == Cell \ live
<1>1. rest # {} /\ rest \subseteq Nat
  BY ContainersAssumption
<1> HIDE DEF rest
<1>2. \E n \in rest : \A m \in rest : n <= m
  BY <1>1, LeastNumber
<1>3. Fresh = CHOOSE n \in rest : \A m \in rest : n <= m
  BY DEF Fresh, rest
<1> QED
  BY <1>2, <1>3 DEF rest

\* What a cell added to a chain does to both: Last(s) is None for the empty chain.
EndOf(s) == IF s = <<>> THEN None ELSE s[Len(s)]

LEMMA LinkedByLink ==
    ASSUME next \in [Cell -> Cell \union {None}],
           NEW s, NEW h, Linked(s, next, h), NEW t, NEW g, Linked(t, next, g),
           CellsOf(s) \intersect CellsOf(t) = {},
           NEW n \in Cell, n \notin CellsOf(s), n \notin CellsOf(t),
           NEW k, NEW v, Link(n, k, v, EndOf(s))
    PROVE  /\ Linked(Append(s, n), next', IF s = <<>> THEN n ELSE h)
           /\ CellsOf(Append(s, n)) = CellsOf(s) \union {n}
           /\ Len(Append(s, n)) = Len(s) + 1
           /\ Linked(t, next', g)
           /\ next' \in [Cell -> Cell \union {None}]
<1> DEFINE e == EndOf(s)
<1>1. next' = [m \in Cell |-> IF m = n THEN None ELSE IF m = e THEN n ELSE next[m]]
  BY DEF Link
<1>2. next' \in [Cell -> Cell \union {None}]
  BY <1>1
<1>3. e = None \/ e \in CellsOf(s)
  BY ChainsOf DEF EndOf
<1>4. next'[n] = None
  BY <1>1
<1>5. ASSUME NEW i \in DOMAIN s PROVE next'[s[i]] = IF i = Len(s) THEN n ELSE next[s[i]]
  <2>1. s[i] \in Cell /\ s[i] # n /\ s # <<>> /\ e = s[Len(s)]
    BY ChainsOf DEF CellsOf, EndOf
  <2>2. s[i] = s[Len(s)] <=> i = Len(s)
    BY <2>1, ChainsOf DEF Linked
  <2> QED
    BY <1>1, <2>1, <2>2
<1>6. \A m \in CellsOf(t) : next'[m] = next[m]
  BY <1>1, <1>3, ChainsOf
<1>7. Linked(t, next', g)
  BY <1>6, LinkedElsewhere
<1> QED
  BY <1>2, <1>4, <1>5, <1>7, LinkedAppend

LEMMA LinkedByBypass ==
    ASSUME next \in [Cell -> Cell \union {None}],
           NEW s, NEW h, Linked(s, next, h), NEW t, NEW g, Linked(t, next, g),
           CellsOf(s) \intersect CellsOf(t) = {},
           NEW p \in 1 .. Len(s),
           next' = Bypass(s[p], IF p = 1 THEN None ELSE s[p - 1])
    PROVE  /\ Linked(Without(s, p), next', HeadPast(next, s, p, h))
           /\ CellsOf(Without(s, p)) = CellsOf(s) \ {s[p]}
           /\ Len(Without(s, p)) = Len(s) - 1
           /\ Linked(t, next', g)
           /\ next' \in [Cell -> Cell \union {None}]
<1> DEFINE e == IF p = 1 THEN None ELSE s[p - 1]
<1>1. /\ Len(s) \in Nat /\ DOMAIN s = 1 .. Len(s) /\ p \in 1 .. Len(s)
      /\ \A i \in 1 .. Len(s) : s[i] \in Cell /\ s[i] \in CellsOf(s)
  BY ChainsOf
<1>2. \A i, j \in 1 .. Len(s) : s[i] = s[j] => i = j
  BY <1>1 DEF Linked
<1>3. next' = [m \in Cell |-> IF m = s[p] THEN None ELSE IF m = e THEN next[s[p]] ELSE next[m]]
  BY DEF Bypass
<1>4. p # 1 => p - 1 \in 1 .. Len(s)
  BY <1>1
<1>5. e = None \/ e \in CellsOf(s)
  BY <1>1, <1>4
<1>6. next' \in [Cell -> Cell \union {None}]
  BY <1>1, <1>3
<1>7. ASSUME NEW i \in DOMAIN s, i # p
      PROVE  next'[s[i]] = next[s[IF i = p - 1 THEN p ELSE i]]
  <2>1. s[i] # s[p] /\ s[i] \in Cell
    BY <1>1, <1>2, <1>7
  <2>2. s[i] = e <=> i = p - 1
    BY <1>1, <1>2, <1>4, NoneIsNoCell
  <2> QED
    BY <1>3, <2>1, <2>2
<1>8. \A m \in CellsOf(t) : next'[m] = next[m]
  BY <1>1, <1>3, <1>5, ChainsOf
<1>9. Linked(t, next', g)
  BY <1>8, LinkedElsewhere
<1>10. Past(next, next', s, p)
  BY <1>7 DEF Past
<1>11. /\ Linked(Without(s, p), next', HeadPast(next, s, p, h))
       /\ CellsOf(Without(s, p)) = CellsOf(s) \ {s[p]}
       /\ Len(Without(s, p)) = Len(s) - 1
  BY ONLY <1>10, Linked(s, next, h), p \in 1 .. Len(s), LinkedWithout
<1> QED
  BY <1>6, <1>9, <1>11

---------------------------------------------------------------------------
(* What each action does to the two chains.                                 *)

LEMMA ListCreateShape ==
    ASSUME ShapeInv, NEW frees \in BOOLEAN, ListCreate(frees)
    PROVE  /\ ShapeInv' /\ ListCells' = <<>> /\ DictCells' = DictCells
           /\ list # list' /\ list = None /\ list' # None
<1>1. list' \in Lists /\ list' # None /\ HeadOf(list') = None /\ list'.size = 0
  BY NoneIsNoContainer DEF ListCreate, Lists, HeadOf
<1>2. Linked(<<>>, next', HeadOf(list')) /\ CellsOf(<<>>) = {} /\ Len(<<>>) = 0
  BY <1>1, LinkedNone
<1>3. /\ next' = next /\ key' = key /\ value' = value /\ live' = live
      /\ dict' = dict /\ released' = released /\ list = None
  BY DEF ListCreate, cells
<1>4. CellsOf(ListCells) = {}
  BY <1>3, LinkedNone DEF ListCells
<1>5. Linked(DictCells, next', HeadOf(dict'))
  BY <1>3, ShapeIs
<1>6. live' = CellsOf(<<>>) \union CellsOf(DictCells)
  BY <1>2, <1>3, <1>4, ShapeIs
<1> HIDE DEF HeadOf
<1>7. ShapeInv' /\ ListCells' = <<>> /\ DictCells' = DictCells
  BY <1>1, <1>2, <1>3, <1>5, <1>6, ShapeNext DEF ShapeInv
<1> QED
  BY <1>1, <1>3, <1>7

LEMMA DictCreateShape ==
    ASSUME ShapeInv, NEW frees \in BOOLEAN, DictCreate(frees)
    PROVE  /\ ShapeInv' /\ ListCells' = ListCells /\ DictCells' = <<>>
           /\ dict = None /\ dict' # None
<1>1. dict' \in Dicts /\ dict' # None /\ HeadOf(dict') = None
  BY NoneIsNoContainer DEF DictCreate, Dicts, HeadOf
<1>2. Linked(<<>>, next', HeadOf(dict')) /\ CellsOf(<<>>) = {}
  BY <1>1, LinkedNone
<1>3. /\ next' = next /\ key' = key /\ value' = value /\ live' = live
      /\ list' = list /\ released' = released /\ dict = None
  BY DEF DictCreate, cells
<1>4. CellsOf(DictCells) = {}
  BY <1>3, LinkedNone DEF DictCells
<1>5. Linked(ListCells, next', HeadOf(list'))
  BY <1>3, ShapeIs
<1>6. live' = CellsOf(ListCells) \union CellsOf(<<>>)
  BY <1>2, <1>3, <1>4, ShapeIs
<1>7. ShapeInv' /\ ListCells' = ListCells /\ DictCells' = <<>>
  BY <1>1, <1>2, <1>3, <1>5, <1>6, ShapeNext DEF ShapeInv
<1> QED
  BY <1>1, <1>3, <1>7

LEMMA ListAddShape ==
    ASSUME ShapeInv, NEW v \in Value, ListAdd(v)
    PROVE  /\ Fresh \in Cell /\ Fresh \notin live
           /\ ShapeInv' /\ ListCells' = Append(ListCells, Fresh) /\ DictCells' = DictCells
           /\ live' = live \union {Fresh}
           /\ key' = [key EXCEPT ![Fresh] = None] /\ value' = [value EXCEPT ![Fresh] = v]
           /\ released' = released /\ dict' = dict /\ list # None /\ list' # None
<1> DEFINE n == Fresh
           L == ListCells
<1>1. n \in Cell /\ n \notin live
  BY ShapeIs, FreshIs DEF ListAdd
<1> HIDE DEF n
<1>2. list \in Lists /\ list # None /\ HeadOf(list) = list.head /\ list.size = Len(L)
  BY DEF ListAdd, ShapeInv, HeadOf
<1>3. L = <<>> <=> list.head = None
  BY <1>2, ShapeIs, ChainsOf
<1>4. Link(n, None, v, EndOf(L))
  BY <1>3 DEF ListAdd, EndOf, n
<1>5. list' = [list EXCEPT !.head = IF L = <<>> THEN n ELSE @, !.size = @ + 1]
  BY <1>2, <1>3 DEF ListAdd, Lists, n
<1>6. /\ list' \in Lists /\ list' # None /\ list'.size = Len(L) + 1
      /\ HeadOf(list') = IF L = <<>> THEN n ELSE HeadOf(list)
  <2>1. list' \in Lists /\ list'.size = Len(L) + 1
        /\ list'.head = IF L = <<>> THEN n ELSE list.head
    <3> DEFINE h == IF L = <<>> THEN n ELSE list.head
    <3>1. h \in Cell \union {None} /\ list.size + 1 \in Nat
      BY <1>1, <1>2 DEF Lists
    <3>2. list' = [list EXCEPT !.head = h, !.size = @ + 1]
      BY <1>5
    <3> HIDE DEF h
    <3>3. list' \in Lists /\ list'.size = list.size + 1 /\ list'.head = h
      BY <1>2, <3>1, <3>2 DEF Lists
    <3> QED
      BY <1>2, <3>3 DEF h
  <2>2. list' # None
    BY <2>1, NoneIsNoContainer DEF Lists
  <2> QED
    BY <1>2, <2>1, <2>2 DEF HeadOf
<1>7. dict' = dict /\ released' = released
  BY DEF ListAdd
<1>8. n \notin CellsOf(L) /\ n \notin CellsOf(DictCells)
  BY <1>1, ShapeIs
<1>9. next \in [Cell -> Cell \union {None}]
  BY DEF ShapeInv
<1>10. /\ Linked(Append(L, n), next', HeadOf(list'))
       /\ CellsOf(Append(L, n)) = CellsOf(L) \union {n}
       /\ Len(Append(L, n)) = Len(L) + 1
       /\ Linked(DictCells, next', HeadOf(dict))
       /\ next' \in [Cell -> Cell \union {None}]
  BY <1>1, <1>4, <1>6, <1>8, <1>9, ShapeIs, LinkedByLink
<1>11. /\ live' = live \union {n}
       /\ key' = [key EXCEPT ![n] = None] /\ value' = [value EXCEPT ![n] = v]
  BY <1>4 DEF Link
<1>12. /\ key' \in [Cell -> Key \union {None}]
       /\ value' \in [Cell -> Value \union Key \union {None}]
  BY <1>11 DEF ShapeInv
<1>13. /\ CellsOf(Append(L, n)) \intersect CellsOf(DictCells) = {}
       /\ live' = CellsOf(Append(L, n)) \union CellsOf(DictCells)
  BY <1>8, <1>10, <1>11, ShapeIs
<1>14. dict' \in Dicts \union {None} /\ released' \subseteq Value
  BY <1>7 DEF ShapeInv
<1>15. ShapeInv' /\ ListCells' = Append(L, n) /\ DictCells' = DictCells
  BY <1>6, <1>7, <1>10, <1>12, <1>13, <1>14, ShapeNext
<1> QED
  BY <1>1, <1>2, <1>6, <1>7, <1>11, <1>15 DEF n

\* The effect of Free on the members.
LEMMA FreeType ==
    ASSUME ShapeInv, NEW gone, Free(gone)
    PROVE  /\ key' \in [Cell -> Key \union {None}]
           /\ value' \in [Cell -> Value \union Key \union {None}]
           /\ \A n \in Cell \ gone : key'[n] = key[n] /\ value'[n] = value[n]
           /\ live' = live \ gone
BY DEF Free, ShapeInv

LEMMA ListDelShape ==
    ASSUME ShapeInv, NEW pos, ListDel(pos)
    PROVE  /\ pos + 1 \in 1 .. Len(ListCells)
           /\ ShapeInv' /\ ListCells' = Without(ListCells, pos + 1) /\ DictCells' = DictCells
           /\ live' = live \ {ListCells[pos + 1]}
           /\ \A n \in Cell \ {ListCells[pos + 1]} : key'[n] = key[n] /\ value'[n] = value[n]
           /\ released' = released /\ dict' = dict /\ list # None /\ list' # None
<1> DEFINE L == ListCells
           p == pos + 1
           n == L[p]
<1>1. list \in Lists /\ list # None /\ HeadOf(list) = list.head /\ list.size = Len(L)
  BY DEF ListDel, ShapeInv, HeadOf
<1>2. Len(L) \in Nat /\ pos \in 0 .. Len(L) - 1
  BY <1>1, ShapeIs, ChainsOf DEF ListDel
<1>3. p \in 1 .. Len(L) /\ (p = 1 <=> pos = 0) /\ p - 1 = pos
  BY <1>2
<1>4. next \in [Cell -> Cell \union {None}]
  BY DEF ShapeInv
<1>5. /\ Linked(L, next, HeadOf(list)) /\ L # <<>> /\ list.head = L[1]
      /\ \A i \in 1 .. Len(L) : L[i] \in Cell
  <2>1. Linked(L, next, HeadOf(list))
    BY ShapeIs
  <2>2. Len(L) # 0
    BY <1>2
  <2>3. /\ L = <<>> <=> Len(L) = 0
        /\ L # <<>> => HeadOf(list) = L[1]
        /\ \A i \in 1 .. Len(L) : L[i] \in CellsOf(L)
        /\ CellsOf(L) \subseteq Cell
    BY <2>1, ChainsOf
  <2> QED
    BY <1>1, <2>1, <2>2, <2>3
<1>6. pos # 0 => next[L[pos]] = n
  BY <1>2, <1>3, <1>5 DEF Linked
<1>7. Unlink(n, IF p = 1 THEN None ELSE L[p - 1])
  <2>1. CASE pos = 0
    BY <1>3, <1>5, <2>1 DEF ListDel
  <2>2. CASE pos # 0
    BY <1>3, <1>6, <2>2 DEF ListDel
  <2> QED
    BY <2>1, <2>2
<1>8. list' = [list EXCEPT !.head = IF p = 1 THEN next[L[1]] ELSE @, !.size = @ - 1]
  <2>1. CASE pos = 0
    BY <1>3, <1>5, <2>1 DEF ListDel
  <2>2. CASE pos # 0
    BY <1>1, <1>3, <2>2 DEF ListDel, Lists
  <2> QED
    BY <2>1, <2>2
<1>9. next[L[1]] \in Cell \union {None}
  BY <1>2, <1>4, <1>5
<1>10. /\ list' \in Lists /\ list' # None /\ list'.size = Len(L) - 1
       /\ HeadOf(list') = HeadPast(next, L, p, HeadOf(list))
  <2>1. Len(L) - 1 \in Nat
    BY <1>2
  <2>2. list' \in Lists /\ list'.size = Len(L) - 1
        /\ list'.head = IF p = 1 THEN next[L[1]] ELSE list.head
    BY <1>1, <1>8, <1>9, <2>1 DEF Lists
  <2>3. list' # None
    BY <2>2, NoneIsNoContainer DEF Lists
  <2> QED
    BY <1>1, <2>2, <2>3 DEF HeadOf, HeadPast
<1>11. dict' = dict /\ released' = released /\ Free({n})
       /\ next' = Bypass(n, IF p = 1 THEN None ELSE L[p - 1])
  BY <1>7 DEF Unlink
<1>12. /\ Linked(Without(L, p), next', HeadOf(list'))
       /\ CellsOf(Without(L, p)) = CellsOf(L) \ {n}
       /\ Len(Without(L, p)) = Len(L) - 1
       /\ Linked(DictCells, next', HeadOf(dict))
       /\ next' \in [Cell -> Cell \union {None}]
  <2>1. next' = Bypass(L[p], IF p = 1 THEN None ELSE L[p - 1])
    BY <1>11
  <2>2. CellsOf(L) \intersect CellsOf(DictCells) = {} /\ Linked(DictCells, next, HeadOf(dict))
    BY ShapeIs
  <2> HIDE DEF L, p
  <2> QED
    BY <1>3, <1>4, <1>5, <1>10, <2>1, <2>2, LinkedByBypass DEF n
<1>13. /\ key' \in [Cell -> Key \union {None}]
       /\ value' \in [Cell -> Value \union Key \union {None}]
       /\ \A m \in Cell \ {n} : key'[m] = key[m] /\ value'[m] = value[m]
       /\ live' = live \ {n}
  BY <1>11, FreeType
<1>14. n \in CellsOf(L)
  BY <1>3, <1>5, ChainsOf
<1> HIDE DEF L, p, n
<1>15. /\ CellsOf(Without(L, p)) \intersect CellsOf(DictCells) = {}
       /\ live' = CellsOf(Without(L, p)) \union CellsOf(DictCells)
  <2>1. /\ CellsOf(L) \intersect CellsOf(DictCells) = {}
        /\ live = CellsOf(L) \union CellsOf(DictCells)
    BY ShapeIs DEF L
  <2> QED
    BY ONLY <1>12, <1>13, <1>14, <2>1
<1>16. dict' \in Dicts \union {None} /\ released' \subseteq Value
  BY <1>11 DEF ShapeInv
<1>17. ShapeInv' /\ ListCells' = Without(L, p) /\ DictCells' = DictCells
  BY <1>10, <1>11, <1>12, <1>13, <1>15, <1>16, ShapeNext
<1> QED
  BY <1>1, <1>3, <1>10, <1>11, <1>13, <1>17 DEF n, p, L

\* A chain that is given up as a whole, and the other one.
LEMMA LinkedByClearing ==
    ASSUME next \in [Cell -> Cell \union {None}], NEW gone, NEW t, NEW g, Linked(t, next, g),
           gone \intersect CellsOf(t) = {}, next' = Cleared(gone)
    PROVE  Linked(t, next', g) /\ next' \in [Cell -> Cell \union {None}]
<1>1. next' = [m \in Cell |-> IF m \in gone THEN None ELSE next[m]]
  BY DEF Cleared
<1>2. \A m \in CellsOf(t) : next'[m] = next[m]
  BY <1>1, ChainsOf
<1> QED
  BY <1>1, <1>2, LinkedElsewhere

LEMMA ListFreeShape ==
    ASSUME ShapeInv, ListFree
    PROVE  /\ ShapeInv' /\ ListCells' = <<>> /\ DictCells' = DictCells
           /\ live' = live \ CellsOf(ListCells)
           /\ \A n \in Cell \ CellsOf(ListCells) : key'[n] = key[n] /\ value'[n] = value[n]
           /\ released' \subseteq released
                 \union ({value[n] : n \in CellsOf(ListCells)} \intersect Value)
           /\ dict' = dict /\ list # None /\ list' = None
<1> DEFINE L == ListCells
<1>1. /\ list # None /\ list' = None /\ dict' = dict
      /\ Free(CellsOf(L)) /\ next' = Cleared(CellsOf(L))
      /\ released' \subseteq released \union ({value[n] : n \in CellsOf(L)} \intersect Value)
  BY DEF ListFree, FreeList
<1>2. Linked(<<>>, next', HeadOf(list')) /\ CellsOf(<<>>) = {}
  BY <1>1, LinkedNone DEF HeadOf
<1>3. Linked(DictCells, next', HeadOf(dict')) /\ next' \in [Cell -> Cell \union {None}]
  BY <1>1, ShapeIs, LinkedByClearing DEF ShapeInv
<1>4. /\ key' \in [Cell -> Key \union {None}]
      /\ value' \in [Cell -> Value \union Key \union {None}]
      /\ \A n \in Cell \ CellsOf(L) : key'[n] = key[n] /\ value'[n] = value[n]
      /\ live' = live \ CellsOf(L)
  BY <1>1, FreeType
<1>5. live' = CellsOf(<<>>) \union CellsOf(DictCells)
  BY <1>2, <1>4, ShapeIs
<1>6. /\ dict' \in Dicts \union {None} /\ released' \subseteq Value
      /\ list' \in Lists \union {None}
  BY <1>1 DEF ShapeInv
<1>7. ShapeInv' /\ ListCells' = <<>> /\ DictCells' = DictCells
  BY <1>1, <1>2, <1>3, <1>4, <1>5, <1>6, ShapeNext
<1> QED
  BY <1>1, <1>4, <1>7

LEMMA DictFreeShape ==
    ASSUME ShapeInv, DictFree, \A n \in CellsOf(DictCells) : value[n] \in Value
    PROVE  /\ ShapeInv' /\ ListCells' = ListCells /\ DictCells' = <<>>
           /\ live' = live \ CellsOf(DictCells)
           /\ \A n \in Cell \ CellsOf(DictCells) : key'[n] = key[n] /\ value'[n] = value[n]
           /\ released' \subseteq released \union {value[n] : n \in CellsOf(DictCells)}
           /\ list' = list /\ dict # None /\ dict' = None
<1> DEFINE D == DictCells
<1>1. /\ dict # None /\ dict' = None /\ list' = list
      /\ Free(CellsOf(D)) /\ next' = Cleared(CellsOf(D))
      /\ released' \subseteq released \union {value[n] : n \in CellsOf(D)}
  BY DEF DictFree, ValuesOf
<1>2. Linked(<<>>, next', HeadOf(dict')) /\ CellsOf(<<>>) = {}
  BY <1>1, LinkedNone DEF HeadOf
<1>3. Linked(ListCells, next', HeadOf(list')) /\ next' \in [Cell -> Cell \union {None}]
  BY <1>1, ShapeIs, LinkedByClearing DEF ShapeInv
<1>4. /\ key' \in [Cell -> Key \union {None}]
      /\ value' \in [Cell -> Value \union Key \union {None}]
      /\ \A n \in Cell \ CellsOf(D) : key'[n] = key[n] /\ value'[n] = value[n]
      /\ live' = live \ CellsOf(D)
  BY <1>1, FreeType
<1>5. live' = CellsOf(ListCells) \union CellsOf(<<>>)
  BY <1>2, <1>4, ShapeIs
<1>6. /\ dict' \in Dicts \union {None} /\ released' \subseteq Value
      /\ list' \in Lists \union {None} /\ (list' # None => list'.size = Len(ListCells))
  BY <1>1 DEF ShapeInv
<1>7. ShapeInv' /\ ListCells' = ListCells /\ DictCells' = <<>>
  BY <1>1, <1>2, <1>3, <1>4, <1>5, <1>6, ShapeNext
<1> QED
  BY <1>1, <1>4, <1>7

\* The walk of the dictionary's operations ends at the cell of the key, if there is one.
LEMMA FindIs ==
    ASSUME ShapeInv, NEW k
    PROVE  \/ Find(k) = None /\ \A n \in CellsOf(DictCells) : key[n] # k
           \/ \E p \in 1 .. Len(DictCells) :
                 /\ Find(k) = DictCells[p] /\ key[DictCells[p]] = k
                 /\ DictCells[p] \in CellsOf(DictCells) /\ Find(k) # None
<1> DEFINE D == DictCells
           at == {i \in DOMAIN D : key[D[i]] = k}
<1>1. /\ DOMAIN D = 1 .. Len(D) /\ Len(D) \in Nat
      /\ \A i \in 1 .. Len(D) : D[i] \in CellsOf(D)
      /\ None \notin CellsOf(D)
  BY ShapeIs, ChainsOf
<1>2. Find(k) = IF at = {} THEN None ELSE D[CHOOSE i \in at : \A j \in at : i <= j]
  BY DEF Find
<1>3. CASE at = {}
  BY <1>1, <1>2, <1>3 DEF CellsOf
<1>4. CASE at # {}
  <2>1. at \subseteq Nat
    BY <1>1
  <2> HIDE DEF at
  <2>2. \E i \in at : \A j \in at : i <= j
    BY <1>4, <2>1, LeastNumber
  <2>3. PICK p \in at : Find(k) = D[p]
    BY <1>2, <1>4, <2>2
  <2>4. p \in 1 .. Len(D) /\ key[D[p]] = k
    BY <1>1 DEF at
  <2> QED
    BY <1>1, <2>3, <2>4
<1> QED
  BY <1>3, <1>4

LEMMA BeforeIs ==
    ASSUME ShapeInv, NEW p \in 1 .. Len(DictCells), p # 1
    PROVE  Before(DictCells[p]) = DictCells[p - 1]
<1> DEFINE D == DictCells
<1>1. Linked(D, next, HeadOf(dict))
  BY ShapeIs
<1>2. /\ DOMAIN D = 1 .. Len(D) /\ Len(D) \in Nat
      /\ \A i \in 1 .. Len(D) : D[i] \in CellsOf(D) /\ D[i] # None
  BY <1>1, ChainsOf
<1>3. /\ \A i, j \in 1 .. Len(D) : D[i] = D[j] => i = j
      /\ \A i \in 1 .. Len(D) : next[D[i]] = IF i = Len(D) THEN None ELSE D[i + 1]
  BY <1>1, <1>2 DEF Linked
<1> HIDE DEF D
<1>p. p \in 1 .. Len(D)
  BY DEF D
<1>4. p - 1 \in 1 .. Len(D) /\ p - 1 # Len(D) /\ (p - 1) + 1 = p
  BY <1>2, <1>p
<1>5. D[p - 1] \in CellsOf(D) /\ next[D[p - 1]] = D[p]
  BY <1>2, <1>3, <1>4
<1>6. ASSUME NEW m \in CellsOf(D), next[m] = D[p] PROVE m = D[p - 1]
  <2>1. PICK j \in 1 .. Len(D) : m = D[j]
    BY <1>2 DEF CellsOf
  <2>2. j # Len(D) /\ D[j + 1] = D[p]
    BY <1>2, <1>3, <1>p, <1>6, <2>1
  <2>3. j + 1 \in 1 .. Len(D)
    <3>1. Len(D) \in Nat /\ j \in 1 .. Len(D)
      BY <1>2
    <3> QED
      BY ONLY <2>2, <3>1
  <2>4. j + 1 = p
    BY <1>3, <1>p, <2>2, <2>3
  <2> QED
    BY <2>1, <2>4
<1>7. Before(D[p]) = CHOOSE m \in CellsOf(D) : next[m] = D[p]
  BY DEF Before, D
<1> QED
  BY <1>5, <1>6, <1>7 DEF D

\* dict_set of a new key.
LEMMA ExtendShape ==
    ASSUME ShapeInv, NEW k \in Key, NEW v \in Value, dict # None, Extend(k, v), list' = list
    PROVE  /\ Fresh \in Cell /\ Fresh \notin live
           /\ ShapeInv' /\ ListCells' = ListCells /\ DictCells' = Append(DictCells, Fresh)
           /\ CellsOf(Append(DictCells, Fresh)) = CellsOf(DictCells) \union {Fresh}
           /\ live' = live \union {Fresh}
           /\ key' = [key EXCEPT ![Fresh] = k] /\ value' = [value EXCEPT ![Fresh] = v]
           /\ released' = released /\ dict' # None
<1> DEFINE n == Fresh
           D == DictCells
<1>1. n \in Cell /\ n \notin live
  BY ShapeIs, FreshIs DEF Extend
<1> HIDE DEF n
<1>2. dict \in Dicts /\ HeadOf(dict) = dict.head
  BY DEF ShapeInv, HeadOf
<1>3. D = <<>> <=> dict.head = None
  BY <1>2, ShapeIs, ChainsOf
<1>4. Link(n, k, v, EndOf(D)) /\ released' = released
  BY <1>3 DEF Extend, EndOf, n
<1>5. /\ dict' \in Dicts /\ dict' # None
      /\ HeadOf(dict') = IF D = <<>> THEN n ELSE HeadOf(dict)
  <2>1. CASE D = <<>>
    <3>1. dict' = [dict EXCEPT !.head = n]
      BY <1>3, <2>1 DEF Extend, n
    <3>2. dict' \in Dicts /\ dict'.head = n
      BY <1>1, <1>2, <3>1 DEF Dicts
    <3> QED
      BY <2>1, <3>2, NoneIsNoContainer DEF Dicts, HeadOf
  <2>2. CASE D # <<>>
    BY <1>2, <1>3, <2>2 DEF Extend
  <2> QED
    BY <2>1, <2>2
<1>8. n \notin CellsOf(D) /\ n \notin CellsOf(ListCells)
  BY <1>1, ShapeIs
<1>9. next \in [Cell -> Cell \union {None}]
  BY DEF ShapeInv
<1>10. /\ Linked(Append(D, n), next', HeadOf(dict'))
       /\ CellsOf(Append(D, n)) = CellsOf(D) \union {n}
       /\ Linked(ListCells, next', HeadOf(list))
       /\ next' \in [Cell -> Cell \union {None}]
  BY <1>1, <1>4, <1>5, <1>8, <1>9, ShapeIs, LinkedByLink
<1>11. /\ live' = live \union {n}
       /\ key' = [key EXCEPT ![n] = k] /\ value' = [value EXCEPT ![n] = v]
  BY <1>4 DEF Link
<1>12. /\ key' \in [Cell -> Key \union {None}]
       /\ value' \in [Cell -> Value \union Key \union {None}]
  BY <1>11 DEF ShapeInv
<1>13. /\ CellsOf(ListCells) \intersect CellsOf(Append(D, n)) = {}
       /\ live' = CellsOf(ListCells) \union CellsOf(Append(D, n))
  BY <1>8, <1>10, <1>11, ShapeIs
<1>14. /\ list' \in Lists \union {None} /\ released' \subseteq Value
       /\ (list' # None => list'.size = Len(ListCells))
  BY <1>4 DEF ShapeInv
<1>15. ShapeInv' /\ ListCells' = ListCells /\ DictCells' = Append(D, n)
  BY <1>5, <1>10, <1>12, <1>13, <1>14, ShapeNext
<1> QED
  BY <1>1, <1>4, <1>5, <1>10, <1>11, <1>15 DEF n

\* dict_set of a key that is there.
LEMMA ReplaceShape ==
    ASSUME ShapeInv, NEW v \in Value, NEW n \in CellsOf(DictCells),
           value' = [value EXCEPT ![n] = v], released' \subseteq Value,
           UNCHANGED <<next, key, live, dict, list>>
    PROVE  ShapeInv' /\ ListCells' = ListCells /\ DictCells' = DictCells
<1>1. value' \in [Cell -> Value \union Key \union {None}]
  BY DEF ShapeInv
<1>2. /\ Linked(ListCells, next', HeadOf(list')) /\ Linked(DictCells, next', HeadOf(dict'))
      /\ live' = CellsOf(ListCells) \union CellsOf(DictCells)
      /\ CellsOf(ListCells) \intersect CellsOf(DictCells) = {}
  BY ShapeIs
<1>3. /\ next' \in [Cell -> Cell \union {None}] /\ key' \in [Cell -> Key \union {None}]
      /\ list' \in Lists \union {None} /\ dict' \in Dicts \union {None}
      /\ (list' # None => list'.size = Len(ListCells))
  BY DEF ShapeInv
<1> QED
  BY <1>1, <1>2, <1>3, ShapeNext

LEMMA DictDelShape ==
    ASSUME ShapeInv, \A n \in CellsOf(DictCells) : value[n] \in Value, NEW k, DictDel(k)
    PROVE  \E p \in 1 .. Len(DictCells) :
              /\ DictCells[p] = Find(k) /\ key[DictCells[p]] = k
              /\ DictCells[p] \in CellsOf(DictCells)
              /\ ShapeInv' /\ ListCells' = ListCells /\ DictCells' = Without(DictCells, p)
              /\ CellsOf(Without(DictCells, p)) = CellsOf(DictCells) \ {DictCells[p]}
              /\ live' = live \ {DictCells[p]}
              /\ \A n \in Cell \ {DictCells[p]} : key'[n] = key[n] /\ value'[n] = value[n]
              /\ released' \subseteq released \union {value[DictCells[p]]}
              /\ list' = list /\ dict # None /\ dict' # None
<1> DEFINE D == DictCells
<1>1. dict \in Dicts /\ dict # None /\ HeadOf(dict) = dict.head /\ Find(k) # None
  BY DEF DictDel, ShapeInv, HeadOf
<1>2. PICK p \in 1 .. Len(D) : Find(k) = D[p] /\ key[D[p]] = k /\ D[p] \in CellsOf(D)
  BY <1>1, FindIs
<1> DEFINE n == D[p]
<1>3. n = Find(k)
  BY <1>2
<1>4. next \in [Cell -> Cell \union {None}]
  BY DEF ShapeInv
<1>5. /\ Linked(D, next, HeadOf(dict)) /\ D # <<>> /\ dict.head = D[1]
      /\ Len(D) \in Nat /\ 1 \in 1 .. Len(D)
      /\ \A i \in 1 .. Len(D) : D[i] \in Cell
      /\ \A i, j \in 1 .. Len(D) : D[i] = D[j] => i = j
  <2>1. Linked(D, next, HeadOf(dict))
    BY ShapeIs
  <2>2. /\ D = <<>> <=> Len(D) = 0
        /\ D # <<>> => HeadOf(dict) = D[1]
        /\ DOMAIN D = 1 .. Len(D) /\ Len(D) \in Nat
        /\ \A i \in 1 .. Len(D) : D[i] \in CellsOf(D)
        /\ CellsOf(D) \subseteq Cell
    BY <2>1, ChainsOf
  <2>3. Len(D) # 0 /\ 1 \in 1 .. Len(D)
    BY <1>2, <2>2
  <2> QED
    BY <1>1, <2>1, <2>2, <2>3 DEF Linked
<1>6. n = dict.head <=> p = 1
  BY <1>2, <1>5
<1>7. /\ next' = Bypass(n, IF p = 1 THEN None ELSE D[p - 1])
      /\ dict' = IF p = 1 THEN [dict EXCEPT !.head = next[D[1]]] ELSE dict
  <2>1. CASE p = 1
    BY <1>3, <1>6, <2>1 DEF DictDel
  <2>2. CASE p # 1
    <3>1. Before(n) = D[p - 1]
      BY <1>2, <2>2, BeforeIs
    <3> QED
      BY <1>3, <1>6, <2>2, <3>1 DEF DictDel
  <2> QED
    BY <2>1, <2>2
<1>8. next[D[1]] \in Cell \union {None}
  BY <1>4, <1>5
<1>9. /\ dict' \in Dicts /\ dict' # None
      /\ HeadOf(dict') = HeadPast(next, D, p, HeadOf(dict))
  <2>1. CASE p = 1
    <3>1. dict' \in Dicts /\ dict'.head = next[D[1]]
      BY <1>1, <1>7, <1>8, <2>1 DEF Dicts
    <3> QED
      BY <2>1, <3>1, NoneIsNoContainer DEF Dicts, HeadOf, HeadPast
  <2>2. CASE p # 1
    BY <1>1, <1>7, <2>2 DEF HeadPast
  <2> QED
    BY <2>1, <2>2
<1>10. Free({n}) /\ list' = list /\ released' \subseteq released \union {value[n]}
  BY <1>3 DEF DictDel
<1>11. /\ Linked(Without(D, p), next', HeadOf(dict'))
       /\ CellsOf(Without(D, p)) = CellsOf(D) \ {n}
       /\ Linked(ListCells, next', HeadOf(list))
       /\ next' \in [Cell -> Cell \union {None}]
  <2>1. CellsOf(D) \intersect CellsOf(ListCells) = {} /\ Linked(ListCells, next, HeadOf(list))
    BY ShapeIs
  <2>2. next' = Bypass(D[p], IF p = 1 THEN None ELSE D[p - 1])
    BY <1>7
  <2> HIDE DEF D
  <2> QED
    BY <1>2, <1>4, <1>5, <1>9, <2>1, <2>2, LinkedByBypass
<1>12. /\ key' \in [Cell -> Key \union {None}]
       /\ value' \in [Cell -> Value \union Key \union {None}]
       /\ \A m \in Cell \ {n} : key'[m] = key[m] /\ value'[m] = value[m]
       /\ live' = live \ {n}
  BY <1>10, FreeType
<1>13. n \in CellsOf(D) /\ value[n] \in Value
  BY <1>2
<1> HIDE DEF n, D
<1>14. /\ CellsOf(ListCells) \intersect CellsOf(Without(D, p)) = {}
       /\ live' = CellsOf(ListCells) \union CellsOf(Without(D, p))
  <2>1. /\ CellsOf(ListCells) \intersect CellsOf(D) = {}
        /\ live = CellsOf(ListCells) \union CellsOf(D)
    BY ShapeIs DEF D
  <2> QED
    BY ONLY <1>11, <1>12, <1>13, <2>1
<1>15. /\ list' \in Lists \union {None} /\ released' \subseteq Value
       /\ (list' # None => list'.size = Len(ListCells))
  BY <1>10, <1>13 DEF ShapeInv
<1>16. ShapeInv' /\ ListCells' = ListCells /\ DictCells' = Without(D, p)
  BY <1>9, <1>10, <1>11, <1>12, <1>14, <1>15, ShapeNext
<1> QED
  BY <1>1, <1>2, <1>9, <1>10, <1>11, <1>12, <1>13, <1>16 DEF n, D

\* The list of keys: its cells are the new ones.
LEMMA DictListShape ==
    ASSUME ShapeInv, \A n \in CellsOf(DictCells) : key[n] \in Key, DictList
    PROVE  /\ ShapeInv' /\ DictCells' = DictCells /\ Len(ListCells') = Len(DictCells)
           /\ CellsOf(ListCells') \intersect live = {}
           /\ live' = live \union CellsOf(ListCells')
           /\ \A i \in 1 .. Len(DictCells) : value'[ListCells'[i]] = key[DictCells[i]]
           /\ \A n \in live : key'[n] = key[n] /\ value'[n] = value[n]
           /\ list = None /\ list' # None /\ dict' = dict /\ dict # None /\ released' = released
           /\ ListCells' \in Seq(Cell)
<1> DEFINE D == DictCells
           N == Len(D)
<1>1. PICK new \in [1 .. N -> Cell \ live] :
        /\ \A i, j \in DOMAIN new : i < j => new[i] < new[j]
        /\ live' = live \union CellsOf(new)
        /\ next' = [n \in Cell |->
              IF \E i \in DOMAIN new : new[i] = n
              THEN LET i == CHOOSE i \in DOMAIN new : new[i] = n
                   IN  IF i = Len(new) THEN None ELSE new[i + 1]
              ELSE next[n]]
        /\ value' = [n \in Cell |->
              IF n \in CellsOf(new) THEN key[D[CHOOSE i \in DOMAIN new : new[i] = n]]
              ELSE value[n]]
        /\ key' = [n \in Cell |-> IF n \in CellsOf(new) THEN None ELSE key[n]]
        /\ list' = [head |-> IF new = <<>> THEN None ELSE new[1],
                    size |-> Len(new), frees |-> TRUE]
  BY DEF DictList
<1>2. N \in Nat /\ \A i \in 1 .. N : D[i] \in CellsOf(D)
  BY ShapeIs, ChainsOf
<1>3. new \in Seq(Cell) /\ Len(new) = N /\ DOMAIN new = 1 .. N
  <2>1. new \in [1 .. N -> Cell]
    OBVIOUS
  <2> HIDE DEF N
  <2> QED
    BY <1>2, <2>1
<1>4. \A i \in 1 .. N : new[i] \in Cell /\ new[i] \notin live /\ new[i] \in Nat
  BY ContainersAssumption
<1>5. \A i, j \in 1 .. N : new[i] = new[j] => i = j
  <2> SUFFICES ASSUME NEW i \in 1 .. N, NEW j \in 1 .. N, i < j PROVE new[i] # new[j]
    BY <1>2
  <2>1. new[i] < new[j]
    BY <1>1, <1>3
  <2> QED
    BY <1>4, <2>1
<1> HIDE DEF N, D
<1>6. \A i \in 1 .. N : (CHOOSE j \in DOMAIN new : new[j] = new[i]) = i
  BY <1>3, <1>5
<1>7. CellsOf(new) = {new[i] : i \in 1 .. N}
  BY <1>3 DEF CellsOf
<1>8. ASSUME NEW i \in 1 .. N
      PROVE  /\ next'[new[i]] = IF i = Len(new) THEN None ELSE new[i + 1]
             /\ value'[new[i]] = key[D[i]]
             /\ i # Len(new) => new[i + 1] \in Cell
  <2>1. new[i] \in Cell /\ new[i] \in CellsOf(new) /\ i \in DOMAIN new
    BY <1>3, <1>4, <1>7
  <2>2. (CHOOSE j \in DOMAIN new : new[j] = new[i]) = i
    BY <1>6
  <2>3. next'[new[i]] = IF i = Len(new) THEN None ELSE new[i + 1]
    BY <1>1, <2>1, <2>2
  <2>4. value'[new[i]] = key[D[i]]
    BY <1>1, <2>1, <2>2
  <2>5. i # Len(new) => i + 1 \in 1 .. N
    BY <1>2, <1>3
  <2> QED
    BY <1>4, <2>3, <2>4, <2>5
<1>9. ASSUME NEW n \in Cell, n \notin CellsOf(new)
      PROVE  next'[n] = next[n] /\ value'[n] = value[n] /\ key'[n] = key[n]
  <2>1. ~\E i \in DOMAIN new : new[i] = n
    BY <1>3, <1>7, <1>9
  <2> QED
    BY <1>1, <1>9, <2>1
<1>10. next' \in [Cell -> Cell \union {None}]
  <2>1. ASSUME NEW n \in Cell PROVE next'[n] \in Cell \union {None}
    <3>1. CASE n \in CellsOf(new)
      <4>1. PICK i \in 1 .. N : n = new[i]
        BY <1>7, <3>1
      <4> QED
        BY <1>8, <4>1
    <3>2. CASE n \notin CellsOf(new)
      BY <1>9, <3>2 DEF ShapeInv
    <3> QED
      BY <3>1, <3>2
  <2>2. next' = [n \in Cell |-> next'[n]]
    BY <1>1
  <2> QED
    BY <2>1, <2>2
<1>11. value' \in [Cell -> Value \union Key \union {None}]
  <2>1. ASSUME NEW n \in Cell PROVE value'[n] \in Value \union Key \union {None}
    <3>1. CASE n \in CellsOf(new)
      <4>1. PICK i \in 1 .. N : n = new[i]
        BY <1>7, <3>1
      <4> QED
        BY <1>2, <1>8, <4>1 DEF D
    <3>2. CASE n \notin CellsOf(new)
      BY <1>9, <3>2 DEF ShapeInv
    <3> QED
      BY <3>1, <3>2
  <2>2. value' = [n \in Cell |-> value'[n]]
    BY <1>1
  <2> QED
    BY <2>1, <2>2
<1>12. key' \in [Cell -> Key \union {None}]
  BY <1>1 DEF ShapeInv
<1>13. /\ list' \in Lists /\ list' # None /\ list'.size = Len(new)
       /\ HeadOf(list') = IF new = <<>> THEN None ELSE new[1]
  <2>1. new # <<>> => new[1] \in Cell
    <3>1. new # <<>> => 1 \in 1 .. N
      BY <1>2, <1>3, EmptySeq
    <3> QED
      BY <1>4, <3>1
  <2> DEFINE h == IF new = <<>> THEN None ELSE new[1]
  <2>2. h \in Cell \union {None}
    BY <2>1
  <2>3. list' = [head |-> h, size |-> Len(new), frees |-> TRUE]
    BY <1>1
  <2> HIDE DEF h
  <2>4. list' \in Lists /\ list'.size = Len(new) /\ list'.head = h
    BY <1>2, <1>3, <2>2, <2>3 DEF Lists
  <2>5. list' # None
    BY <2>4, NoneIsNoContainer DEF Lists
  <2> QED
    BY <2>4, <2>5 DEF HeadOf, h
<1>14. Linked(new, next', HeadOf(list'))
  BY <1>3, <1>5, <1>8, <1>13 DEF Linked
<1>15. dict' = dict /\ released' = released /\ list = None /\ dict # None
  BY DEF DictList
<1>16. CellsOf(new) \intersect live = {} /\ live' = live \union CellsOf(new)
  BY <1>1, <1>4, <1>7
<1>17. /\ live = CellsOf(D) /\ CellsOf(D) \subseteq Cell /\ Linked(D, next, HeadOf(dict))
  <2>1. CellsOf(ListCells) = {}
    BY <1>15, LinkedNone DEF ListCells
  <2> QED
    BY <2>1, ShapeIs DEF D
<1>18. Linked(D, next', HeadOf(dict'))
  <2>1. \A n \in CellsOf(D) : next'[n] = next[n]
    BY <1>9, <1>16, <1>17
  <2> QED
    BY <1>15, <1>17, <2>1, LinkedElsewhere
<1>19. /\ CellsOf(new) \intersect CellsOf(D) = {} /\ live' = CellsOf(new) \union CellsOf(D)
       /\ dict' \in Dicts \union {None} /\ released' \subseteq Value
  BY <1>15, <1>16, <1>17 DEF ShapeInv
<1>20. ShapeInv' /\ ListCells' = new /\ DictCells' = D
  BY <1>10, <1>11, <1>12, <1>13, <1>14, <1>18, <1>19, ShapeNext
<1>21. \A n \in live : key'[n] = key[n] /\ value'[n] = value[n]
  BY <1>9, <1>16, <1>17
<1> QED
  BY <1>3, <1>8, <1>13, <1>15, <1>16, <1>20, <1>21 DEF D, N

---------------------------------------------------------------------------
(* What the cells hold.                                                     *)

LEMMA HeldIs == ASSUME ShapeInv PROVE Held = {value[n] : n \in live}
BY ShapeIs DEF Held, ValuesOf

\* The contents of the next state.
ContentOf(lv, dcells, vl, ky, rel) ==
    /\ \A n \in lv : vl[n] # None /\ vl[n] \notin rel
    /\ \A n \in dcells : vl[n] \in Value /\ ky[n] \in Key
    /\ \A m, n \in lv : vl[m] = vl[n] /\ vl[m] \in Value => m = n
    /\ \A m, n \in dcells : ky[m] = ky[n] => m = n

LEMMA ContentIs ==
    /\ ContentInv <=> ContentOf(live, CellsOf(DictCells), value, key, released)
    /\ ContentInv' <=> ContentOf(live', CellsOf(DictCells'), value', key', released')
BY DEF ContentInv, ContentOf

LEMMA ContentOfRest ==
    ASSUME IInv, NEW gone, live' \subseteq live, live' \intersect gone = {},
           CellsOf(DictCells') \subseteq CellsOf(DictCells) \intersect live',
           \A n \in live' : key'[n] = key[n] /\ value'[n] = value[n],
           released' \subseteq released \union ({value[n] : n \in gone} \intersect Value),
           gone \subseteq live
    PROVE  ContentInv'
<1>1. ContentOf(live, CellsOf(DictCells), value, key, released)
  BY ContentIs DEF IInv
<1>2. ContentOf(live', CellsOf(DictCells'), value', key', released')
  BY <1>1 DEF ContentOf
<1> QED
  BY <1>2, ContentIs

LEMMA ContentWithOneMore ==
    ASSUME IInv, NEW n, n \notin live, live' = live \union {n}, NEW v \in Value,
           v \notin Held, v \notin released, released' = released,
           n \in Cell, value' = [value EXCEPT ![n] = v], NEW k, key' = [key EXCEPT ![n] = k],
           \/ CellsOf(DictCells') = CellsOf(DictCells)
           \/ /\ CellsOf(DictCells') = CellsOf(DictCells) \union {n}
              /\ k \in Key /\ \A m \in CellsOf(DictCells) : key[m] # k
    PROVE  ContentInv'
<1>1. ContentOf(live, CellsOf(DictCells), value, key, released)
  BY ContentIs DEF IInv
<1>2. /\ value \in [Cell -> Value \union Key \union {None}]
      /\ key \in [Cell -> Key \union {None}]
      /\ live \subseteq Cell /\ CellsOf(DictCells) \subseteq live
      /\ \A m \in live : value[m] # v
  BY ShapeIs, HeldIs DEF IInv, ShapeInv
<1>3. /\ value'[n] = v /\ key'[n] = k /\ v # None
      /\ \A m \in live : value'[m] = value[m] /\ key'[m] = key[m] /\ m # n
  BY <1>2, NoneIsNoCell
<1>4. ContentOf(live', CellsOf(DictCells'), value', key', released')
  <2>1. /\ \A m \in live' : value'[m] # None /\ value'[m] \notin released'
        /\ \A l, m \in live' : value'[l] = value'[m] /\ value'[l] \in Value => l = m
    BY <1>1, <1>2, <1>3 DEF ContentOf
  <2>2. /\ \A m \in CellsOf(DictCells') : value'[m] \in Value /\ key'[m] \in Key
        /\ \A l, m \in CellsOf(DictCells') : key'[l] = key'[m] => l = m
    BY <1>1, <1>2, <1>3 DEF ContentOf
  <2> QED
    BY <2>1, <2>2 DEF ContentOf
<1> QED
  BY <1>4, ContentIs

LEMMA ListCreateInv == ASSUME IInv, NEW frees \in BOOLEAN, ListCreate(frees) PROVE IInv'
<1>1. ShapeInv' /\ DictCells' = DictCells
  BY ListCreateShape DEF IInv
<1>2. UNCHANGED <<key, value, live, released>>
  BY DEF ListCreate, cells
<1> QED
  BY <1>1, <1>2, ContentIs DEF IInv

LEMMA DictCreateInv == ASSUME IInv, NEW frees \in BOOLEAN, DictCreate(frees) PROVE IInv'
<1>1. ShapeInv' /\ DictCells' = <<>> /\ CellsOf(<<>>) = {}
  BY DictCreateShape, LinkedNone DEF IInv
<1>2. UNCHANGED <<key, value, live, released>>
  BY DEF DictCreate, cells
<1>3. ContentInv'
  <2>1. ContentOf(live, CellsOf(DictCells), value, key, released)
    BY ContentIs DEF IInv
  <2>2. ContentOf(live', CellsOf(DictCells'), value', key', released')
    BY <1>1, <1>2, <2>1 DEF ContentOf
  <2> QED
    BY <2>2, ContentIs
<1> QED
  BY <1>1, <1>3 DEF IInv

LEMMA ListAddInv == ASSUME IInv, NEW v \in Value, ListAdd(v) PROVE IInv'
<1>1. /\ Fresh \in Cell /\ Fresh \notin live
      /\ ShapeInv' /\ DictCells' = DictCells
      /\ live' = live \union {Fresh}
      /\ key' = [key EXCEPT ![Fresh] = None] /\ value' = [value EXCEPT ![Fresh] = v]
      /\ released' = released
  BY ListAddShape DEF IInv
<1>2. v \notin Held /\ v \notin released
  BY DEF ListAdd
<1>3. ContentInv'
  BY <1>1, <1>2, ContentWithOneMore
<1> QED
  BY <1>1, <1>3 DEF IInv

LEMMA ListDelInv == ASSUME IInv, NEW pos, ListDel(pos) PROVE IInv'
<1> DEFINE n == ListCells[pos + 1]
<1>1. /\ ShapeInv' /\ DictCells' = DictCells /\ live' = live \ {n}
      /\ \A m \in Cell \ {n} : key'[m] = key[m] /\ value'[m] = value[m]
      /\ released' = released /\ pos + 1 \in 1 .. Len(ListCells)
  BY ListDelShape DEF IInv
<1>2. n \in CellsOf(ListCells)
  BY <1>1, ShapeIs, ChainsOf DEF IInv
<1>3. /\ live \subseteq Cell /\ CellsOf(DictCells) \subseteq live
      /\ n \notin CellsOf(DictCells)
  BY <1>2, ShapeIs DEF IInv
<1> HIDE DEF n
<1>4. ContentInv'
  <2>1. ContentOf(live, CellsOf(DictCells), value, key, released)
    BY ContentIs DEF IInv
  <2>2. ContentOf(live', CellsOf(DictCells'), value', key', released')
    BY <1>1, <1>3, <2>1 DEF ContentOf
  <2> QED
    BY <2>2, ContentIs
<1> QED
  BY <1>1, <1>4 DEF IInv

LEMMA ListFreeInv == ASSUME IInv, ListFree PROVE IInv'
<1> DEFINE gone == CellsOf(ListCells)
<1>1. /\ ShapeInv' /\ DictCells' = DictCells /\ live' = live \ gone
      /\ \A n \in Cell \ gone : key'[n] = key[n] /\ value'[n] = value[n]
      /\ released' \subseteq released \union ({value[n] : n \in gone} \intersect Value)
  BY ListFreeShape DEF IInv
<1>2. /\ live \subseteq Cell /\ CellsOf(DictCells) \subseteq live
      /\ gone \subseteq live /\ gone \intersect CellsOf(DictCells) = {}
  BY ShapeIs DEF IInv
<1> HIDE DEF gone
<1>3. ContentInv'
  BY <1>1, <1>2, ContentOfRest
<1> QED
  BY <1>1, <1>3 DEF IInv

LEMMA DictFreeInv == ASSUME IInv, DictFree PROVE IInv'
<1> DEFINE gone == CellsOf(DictCells)
<1>0. \A n \in gone : value[n] \in Value
  BY DEF IInv, ContentInv
<1>1. /\ ShapeInv' /\ DictCells' = <<>> /\ CellsOf(<<>>) = {} /\ live' = live \ gone
      /\ \A n \in Cell \ gone : key'[n] = key[n] /\ value'[n] = value[n]
      /\ released' \subseteq released \union {value[n] : n \in gone}
  BY <1>0, DictFreeShape, LinkedNone DEF IInv
<1>2. live \subseteq Cell /\ gone \subseteq live
  BY ShapeIs DEF IInv
<1>3. released' \subseteq released \union ({value[n] : n \in gone} \intersect Value)
  BY <1>0, <1>1
<1> HIDE DEF gone
<1>4. ContentInv'
  BY <1>1, <1>2, <1>3, ContentOfRest
<1> QED
  BY <1>1, <1>4 DEF IInv

LEMMA DictDelInv == ASSUME IInv, NEW k, DictDel(k) PROVE IInv'
<1>0. \A n \in CellsOf(DictCells) : value[n] \in Value
  BY DEF IInv, ContentInv
<1>1. PICK p \in 1 .. Len(DictCells) :
              /\ DictCells[p] \in CellsOf(DictCells)
              /\ ShapeInv' /\ DictCells' = Without(DictCells, p)
              /\ CellsOf(Without(DictCells, p)) = CellsOf(DictCells) \ {DictCells[p]}
              /\ live' = live \ {DictCells[p]}
              /\ \A n \in Cell \ {DictCells[p]} : key'[n] = key[n] /\ value'[n] = value[n]
              /\ released' \subseteq released \union {value[DictCells[p]]}
  BY <1>0, DictDelShape DEF IInv
<1> DEFINE gone == {DictCells[p]}
<1>2. live \subseteq Cell /\ gone \subseteq live /\ CellsOf(DictCells) \subseteq live
  BY <1>1, ShapeIs DEF IInv
<1>3. released' \subseteq released \union ({value[n] : n \in gone} \intersect Value)
  BY <1>0, <1>1
<1>4. CellsOf(DictCells') = CellsOf(DictCells) \ gone /\ live' = live \ gone
      /\ \A n \in Cell \ gone : key'[n] = key[n] /\ value'[n] = value[n]
  BY <1>1
<1> HIDE DEF gone
<1>5. ContentInv'
  BY <1>2, <1>3, <1>4, ContentOfRest
<1> QED
  BY <1>1, <1>5 DEF IInv

LEMMA DictSetInv == ASSUME IInv, NEW k \in Key, NEW v \in Value, DictSet(k, v) PROVE IInv'
<1>1. /\ dict # None /\ v \notin Held /\ v \notin released /\ list' = list
  BY DEF DictSet
<1>2. CASE Find(k) = None
  <2>1. Extend(k, v)
    BY <1>2 DEF DictSet
  <2>2. /\ Fresh \in Cell /\ Fresh \notin live
        /\ ShapeInv'
        /\ CellsOf(DictCells') = CellsOf(DictCells) \union {Fresh}
        /\ live' = live \union {Fresh}
        /\ key' = [key EXCEPT ![Fresh] = k] /\ value' = [value EXCEPT ![Fresh] = v]
        /\ released' = released
    BY <1>1, <2>1, ExtendShape DEF IInv
  <2>3. \A m \in CellsOf(DictCells) : key[m] # k
    BY <1>2, FindIs DEF IInv
  <2>4. ContentInv'
    BY <1>1, <2>2, <2>3, ContentWithOneMore
  <2> QED
    BY <2>2, <2>4 DEF IInv
<1>3. CASE Find(k) # None
  <2> DEFINE n == Find(k)
  <2>1. n \in CellsOf(DictCells)
    BY <1>3, FindIs DEF IInv
  <2>2. /\ value' = [value EXCEPT ![n] = v] /\ released' \subseteq released \union {value[n]}
        /\ UNCHANGED <<next, key, live, dict, list>>
    BY <1>3 DEF DictSet
  <2>3. n \in live /\ live \subseteq Cell /\ CellsOf(DictCells) \subseteq live
    BY <2>1, ShapeIs DEF IInv
  <2>4. ContentOf(live, CellsOf(DictCells), value, key, released)
    BY ContentIs DEF IInv
  <2>5. released' \subseteq Value
    BY <2>1, <2>2, <2>4 DEF ContentOf, IInv, ShapeInv
  <2>6. ShapeInv' /\ DictCells' = DictCells
    BY <2>1, <2>2, <2>5, ReplaceShape DEF IInv
  <2>7. \A m \in live : value[m] # v
    BY <1>1, HeldIs DEF IInv
  <2>8. value'[n] = v /\ v # None /\ \A m \in live : m # n => value'[m] = value[m]
    BY <2>2, <2>3, NoneIsNoCell DEF IInv, ShapeInv
  <2>9. value[n] \in Value
    BY <2>1, <2>4 DEF ContentOf
  <2> HIDE DEF n
  <2>10. ContentOf(live', CellsOf(DictCells'), value', key', released')
    <3>1. UNCHANGED <<live, key>> /\ DictCells' = DictCells
      BY <2>2, <2>6
    <3>2. \A m \in live : value'[m] # None /\ value'[m] \notin released'
      <4>1. v \notin released'
        BY <1>1, <2>2, <2>3, <2>7
      <4>2. \A m \in live : m # n => value[m] # value[n]
        BY <2>3, <2>4, <2>9 DEF ContentOf
      <4> QED
        BY <2>2, <2>4, <2>8, <4>1, <4>2 DEF ContentOf
    <3>3. \A l, m \in live : value'[l] = value'[m] /\ value'[l] \in Value => l = m
      BY <2>4, <2>7, <2>8 DEF ContentOf
    <3>4. \A m \in CellsOf(DictCells) : value'[m] \in Value
      BY <2>3, <2>4, <2>8 DEF ContentOf
    <3> QED
      BY <2>4, <3>1, <3>2, <3>3, <3>4 DEF ContentOf
  <2> QED
    BY <2>6, <2>10, ContentIs DEF IInv
<1> QED
  BY <1>2, <1>3

LEMMA DictListInv == ASSUME IInv, DictList PROVE IInv'
<1> DEFINE new == ListCells'
           D == DictCells
<1>0. ContentOf(live, CellsOf(D), value, key, released)
  BY ContentIs DEF IInv
<1>1. /\ ShapeInv' /\ DictCells' = D /\ Len(new) = Len(D)
      /\ CellsOf(new) \intersect live = {}
      /\ live' = live \union CellsOf(new)
      /\ \A i \in 1 .. Len(D) : value'[new[i]] = key[D[i]]
      /\ \A n \in live : key'[n] = key[n] /\ value'[n] = value[n]
      /\ released' = released /\ new \in Seq(Cell)
  BY <1>0, DictListShape DEF IInv, ContentOf
<1>2. \A i \in 1 .. Len(D) : D[i] \in CellsOf(D)
  BY ShapeIs, ChainsOf DEF IInv
<1>3. \A n \in CellsOf(new) : value'[n] \in Key
  <2>1. CellsOf(new) = {new[i] : i \in 1 .. Len(D)}
    BY <1>1 DEF CellsOf
  <2> HIDE DEF new, D
  <2> QED
    BY <1>0, <1>1, <1>2, <2>1 DEF ContentOf
<1>4. CellsOf(D) \subseteq live /\ released \subseteq Value
  BY ShapeIs DEF IInv, ShapeInv
<1>5. \A x \in Key : x # None /\ x \notin Value
  BY ContainersAssumption
<1> HIDE DEF new, D
<1>6. ContentOf(live', CellsOf(DictCells'), value', key', released')
  <2>1. \A n \in live' : value'[n] # None /\ value'[n] \notin released'
    BY <1>0, <1>1, <1>3, <1>4, <1>5 DEF ContentOf
  <2>2. \A m, n \in live' : value'[m] = value'[n] /\ value'[m] \in Value => m = n
    BY <1>0, <1>1, <1>3, <1>5 DEF ContentOf
  <2>3. /\ \A n \in CellsOf(D) : value'[n] \in Value /\ key'[n] \in Key
        /\ \A m, n \in CellsOf(D) : key'[m] = key'[n] => m = n
    BY <1>0, <1>1, <1>4 DEF ContentOf
  <2> QED
    BY <1>1, <2>1, <2>2, <2>3 DEF ContentOf
<1> QED
  BY <1>1, <1>6, ContentIs DEF IInv

---------------------------------------------------------------------------
(* The invariant, and what it implies.                                      *)

LEMMA IInvInit == Init => IInv
<1> SUFFICES ASSUME Init PROVE IInv
  OBVIOUS
<1>1. list = None /\ dict = None /\ live = {} /\ released = {}
  BY DEF Init
<1>2. ListCells = <<>> /\ DictCells = <<>> /\ HeadOf(list) = None /\ HeadOf(dict) = None
  BY <1>1 DEF ListCells, DictCells, HeadOf
<1>3. Linked(<<>>, next, None) /\ CellsOf(<<>>) = {}
  BY LinkedNone
<1>4. /\ next \in [Cell -> Cell \union {None}] /\ key \in [Cell -> Key \union {None}]
      /\ value \in [Cell -> Value \union Key \union {None}]
  BY DEF Init
<1> QED
  BY <1>1, <1>2, <1>3, <1>4 DEF IInv, ShapeInv, ContentInv

LEMMA IInvNext == IInv /\ [Next]_vars => IInv'
<1> SUFFICES ASSUME IInv, [Next]_vars PROVE IInv'
  OBVIOUS
<1>1. CASE UNCHANGED vars
  <2>1. UNCHANGED <<next, key, value, live, list, dict, released>>
    BY <1>1 DEF vars, cells
  <2>2. ListCells' = ListCells /\ DictCells' = DictCells
    BY <2>1 DEF ListCells, DictCells
  <2>3. ShapeInv'
    BY <2>1, <2>2 DEF IInv, ShapeInv
  <2>4. ContentInv'
    BY <2>1, <2>2, ContentIs DEF IInv
  <2> QED
    BY <2>3, <2>4 DEF IInv
<1>2. ASSUME NEW frees \in BOOLEAN, ListCreate(frees) PROVE IInv'
  BY <1>2, ListCreateInv
<1>3. ASSUME NEW frees \in BOOLEAN, DictCreate(frees) PROVE IInv'
  BY <1>3, DictCreateInv
<1>4. ASSUME NEW v \in Value, ListAdd(v) PROVE IInv'
  BY <1>4, ListAddInv
<1>5. ASSUME NEW v \in Value, NEW k \in Key, DictSet(k, v) PROVE IInv'
  BY <1>5, DictSetInv
<1>6. ASSUME NEW pos \in 0 .. Cardinality(Cell), ListDel(pos) PROVE IInv'
  BY <1>6, ListDelInv
<1>7. ASSUME NEW k \in Key, DictDel(k) PROVE IInv'
  BY <1>7, DictDelInv
<1>8. CASE ListFree
  BY <1>8, ListFreeInv
<1>9. CASE DictFree
  BY <1>9, DictFreeInv
<1>10. CASE DictList
  BY <1>10, DictListInv
<1> QED
  BY <1>1, <1>2, <1>3, <1>4, <1>5, <1>6, <1>7, <1>8, <1>9, <1>10 DEF Next

LEMMA IInvAlways == Spec => []IInv
BY IInvInit, IInvNext, PTL DEF Spec

LEMMA IInvTypes == IInv => TypeOK
<1> SUFFICES ASSUME IInv PROVE TypeOK
  OBVIOUS
<1>1. live \subseteq Cell
  BY ShapeIs DEF IInv
<1>2. list # None => list.head \in Cell \union {None} /\ list.size \in Nat
  BY DEF IInv, ShapeInv, Lists
<1>3. dict # None => dict.head \in Cell \union {None}
  BY DEF IInv, ShapeInv, Dicts
<1> QED
  BY <1>1, <1>2, <1>3 DEF IInv, ShapeInv, TypeOK

LEMMA IInvCells == IInv => CellsAccounted
<1> SUFFICES ASSUME IInv PROVE CellsAccounted
  OBVIOUS
<1> DEFINE L == CellsOf(ListCells)
           D == CellsOf(DictCells)
<1>1. live = L \union D /\ L \intersect D = {}
  BY ShapeIs DEF IInv
<1>2. /\ IsFiniteSet(L) /\ Cardinality(L) = Len(ListCells) /\ Len(ListCells) \in Nat
      /\ IsFiniteSet(D) /\ Cardinality(D) = Len(DictCells) /\ Len(DictCells) \in Nat
  BY ShapeIs, LinkedLength DEF IInv
<1> HIDE DEF L, D
<1>3. Cardinality(L \union D) = Cardinality(L) + Cardinality(D) - Cardinality(L \intersect D)
  BY <1>2, FS_Union
<1>4. Cardinality(L \intersect D) = 0
  BY <1>1, FS_EmptySet
<1>5. Cardinality(live) = Len(ListCells) + Len(DictCells)
  BY <1>1, <1>2, <1>3, <1>4
<1> QED
  BY <1>1, <1>5 DEF CellsAccounted, L, D

LEMMA IInvSize == IInv => SizeIsLength
<1> SUFFICES ASSUME IInv, list # None PROVE SizeIsLength
  BY DEF SizeIsLength
<1>1. list.size = Len(ListCells)
  BY DEF IInv, ShapeInv
<1>2. Len(ListCells) \in Nat /\ \A i \in 1 .. Len(ListCells) : ListCells[i] \in live
  BY ShapeIs, ChainsOf DEF IInv
<1>3. \A i \in 1 .. Len(ListCells) : value[ListCells[i]] # None
  BY <1>2 DEF IInv, ContentInv
<1>4. Cardinality(Cell) \in Nat
  BY ContainersAssumption, FS_CardinalityType
<1>5. ASSUME NEW pos \in -1 .. Cardinality(Cell)
      PROVE  (ListGet(pos) # None) <=> (pos \in 0 .. Len(ListCells) - 1)
  <2>1. CASE pos < 0 \/ pos >= list.size
    <3>1. pos \notin 0 .. Len(ListCells) - 1
      BY <1>1, <1>2, <1>4, <2>1
    <3> QED
      BY <2>1, <3>1 DEF ListGet
  <2>2. CASE ~(pos < 0 \/ pos >= list.size)
    <3>1. pos \in 0 .. Len(ListCells) - 1 /\ pos + 1 \in 1 .. Len(ListCells)
      BY <1>1, <1>2, <1>4, <2>2
    <3>2. ListGet(pos) = value[ListCells[pos + 1]]
      BY <2>2 DEF ListGet
    <3> QED
      BY <1>3, <3>1, <3>2
  <2> QED
    BY <2>1, <2>2
<1> QED
  BY <1>1, <1>5 DEF SizeIsLength

LEMMA IInvReleased == IInv => NoReleasedEntry
BY HeldIs DEF IInv, ContentInv, NoReleasedEntry

\* The pointers, members and sizes of list and dictionary stay within their types, and
\* what is released is a value.
THEOREM ContainersTypeCorrect == Spec => []TypeOK
BY IInvAlways, IInvTypes, PTL

\* list_add, list_del, dict_set, dict_del and the frees lose no cell, share none
\* between the two containers, close no cycle and leave no pointer to a freed cell.
THEOREM NoCellLost == Spec => []CellsAccounted
BY IInvAlways, IInvCells, PTL

\* The size that list_size, list_get and list_del rely on is the length of the chain.
THEOREM SizeAgrees == Spec => []SizeIsLength
BY IInvAlways, IInvSize, PTL

\* Nothing that was given to the callback is in a container.
THEOREM NothingReleasedIsHeld == Spec => []NoReleasedEntry
BY IInvAlways, IInvReleased, PTL

---------------------------------------------------------------------------
(* The sequence and the partial function of the contract.                   *)

Mapped(vl, s) == [i \in DOMAIN s |-> vl[s[i]]]

LEMMA MappedWithout ==
    ASSUME NEW S, NEW s \in Seq(S), NEW p \in 1 .. Len(s), NEW vl, NEW wl,
           \A i \in 1 .. Len(s) : i # p => wl[s[i]] = vl[s[i]]
    PROVE  Mapped(wl, Without(s, p)) = Without(Mapped(vl, s), p)
<1> DEFINE L == Len(s)
           t == Without(s, p)
           m == Mapped(vl, s)
           R == {vl[s[i]] : i \in 1 .. L}
<1>1. L \in Nat /\ DOMAIN s = 1 .. L /\ p \in DOMAIN s
  BY LenProperties
<1>2. m \in Seq(R) /\ Len(m) = L /\ DOMAIN m = 1 .. L /\ \A i \in 1 .. L : m[i] = vl[s[i]]
  <2>1. m = [i \in 1 .. L |-> vl[s[i]]]
    BY <1>1 DEF Mapped
  <2>2. m \in [1 .. L -> R]
    BY <2>1
  <2> HIDE DEF m, L, R
  <2> QED
    BY <1>1, <2>1, <2>2
<1>3. /\ Len(t) = L - 1 /\ DOMAIN t = 1 .. L - 1
      /\ \A i \in 1 .. L - 1 : t[i] = IF i < p THEN s[i] ELSE s[i + 1]
  <2>1. /\ t \in Seq(S) /\ Len(t) = L - 1
        /\ \A i \in 1 .. L - 1 : t[i] = IF i < p THEN s[i] ELSE s[i + 1]
    BY <1>1, WithoutIs
  <2> QED
    BY <2>1, LenProperties
<1>4. /\ Without(m, p) = [i \in 1 .. L - 1 |-> Without(m, p)[i]]
      /\ \A i \in 1 .. L - 1 : Without(m, p)[i] = IF i < p THEN m[i] ELSE m[i + 1]
  <2> HIDE DEF m, R, L
  <2>1. p \in DOMAIN m
    BY <1>1, <1>2
  <2>2. /\ Without(m, p) \in Seq(R) /\ Len(Without(m, p)) = L - 1
        /\ \A i \in 1 .. L - 1 : Without(m, p)[i] = IF i < p THEN m[i] ELSE m[i + 1]
    BY <1>2, <2>1, WithoutIs
  <2>3. Without(m, p) \in [1 .. L - 1 -> R]
    BY <2>2, LenProperties
  <2> QED
    BY <2>2, <2>3
<1>5. Mapped(wl, t) = [i \in 1 .. L - 1 |-> wl[t[i]]]
  BY <1>3 DEF Mapped
<1> HIDE DEF m, t
<1>6. ASSUME NEW i \in 1 .. L - 1 PROVE wl[t[i]] = Without(m, p)[i]
  <2>1. i \in 1 .. L /\ i + 1 \in 1 .. L
    BY <1>1
  <2>2. CASE i < p
    <3>1. i # p
      BY <1>1, <2>1, <2>2
    <3>2. wl[s[i]] = vl[s[i]] /\ m[i] = vl[s[i]]
      BY <1>2, <2>1, <3>1
    <3>3. t[i] = s[i] /\ Without(m, p)[i] = m[i]
      BY ONLY <1>3, <1>4, <1>6, <2>2
    <3> QED
      BY <3>2, <3>3
  <2>3. CASE ~(i < p)
    <3>1. i + 1 # p
      BY <1>1, <2>3
    <3>2. wl[s[i + 1]] = vl[s[i + 1]] /\ m[i + 1] = vl[s[i + 1]]
      BY <1>2, <2>1, <3>1
    <3>3. t[i] = s[i + 1] /\ Without(m, p)[i] = m[i + 1]
      BY ONLY <1>3, <1>4, <1>6, <2>3
    <3> QED
      BY <3>2, <3>3
  <2> QED
    BY <2>2, <2>3
<1> QED
  BY <1>4, <1>5, <1>6 DEF m, t

LEMMA ItemsIs ==
    /\ list # None => Items = Mapped(value, ListCells)
    /\ list = None => Items = None
    /\ list' # None => Items' = Mapped(value', ListCells')
    /\ list' = None => Items' = None
BY DEF Items, Mapped

LEMMA ItemsType ==
    ASSUME ShapeInv, ContentInv, list # None
    PROVE  /\ Items \in Seq(Key \union Value) /\ Len(Items) = Len(ListCells)
           /\ DOMAIN Items = 1 .. Len(ListCells)
           /\ Items # None
<1> DEFINE L == ListCells
           n == Len(L)
<1>1. /\ n \in 0 .. Cardinality(Cell) /\ n \in Nat /\ DOMAIN L = 1 .. n
      /\ \A i \in 1 .. n : L[i] \in live
  <2>1. Linked(L, next, HeadOf(list))
    BY ShapeIs
  <2>2. n \in Nat /\ n <= Cardinality(Cell) /\ Cardinality(Cell) \in Nat
    BY <2>1, LinkedLength, ContainersAssumption, FS_CardinalityType
  <2>3. n \in 0 .. Cardinality(Cell)
    BY <2>2
  <2>4. \A i \in 1 .. n : L[i] \in live
    BY <2>1, ChainsOf, ShapeIs
  <2> QED
    BY <2>1, <2>2, <2>3, <2>4, ChainsOf
<1>2. \A m \in live : value[m] \in Key \union Value
  BY ShapeIs DEF ShapeInv, ContentInv
<1> HIDE DEF n
<1>3. Items = [i \in 1 .. n |-> value[L[i]]]
  BY <1>1 DEF Items
<1>4. Items \in [1 .. n -> Key \union Value]
  BY <1>1, <1>2, <1>3
<1>5. Items # None
  BY <1>1, <1>4, NoneIsNoContainer
<1>6. Items \in Seq(Key \union Value) /\ Len(Items) = n
  BY <1>1, <1>4
<1> QED
  BY <1>4, <1>5, <1>6 DEF n

LEMMA ListDelItems ==
    ASSUME IInv, NEW pos, ListDel(pos)
    PROVE  /\ pos + 1 \in DOMAIN Items /\ pos \in Nat
           /\ Items' = SubSeq(Items, 1, pos) \o SubSeq(Items, pos + 2, Len(Items))
<1> DEFINE L == ListCells
           p == pos + 1
<1>1. /\ p \in 1 .. Len(L) /\ L' = Without(L, p)
      /\ \A n \in Cell \ {L[p]} : value'[n] = value[n]
      /\ list # None /\ list' # None
  BY ListDelShape DEF IInv
<1>2. pos \in Nat
  BY DEF ListDel, IInv, ShapeInv, Lists
<1>3. L \in Seq(Cell) /\ \A i \in 1 .. Len(L) : i # p => L[i] \in Cell \ {L[p]}
  <2>1. Linked(L, next, HeadOf(list)) /\ DOMAIN L = 1 .. Len(L)
    BY ShapeIs, ChainsOf DEF IInv
  <2> QED
    BY <1>1, <2>1 DEF Linked
<1>4. Mapped(value', Without(L, p)) = Without(Mapped(value, L), p)
  <2>1. \A i \in 1 .. Len(L) : i # p => value'[L[i]] = value[L[i]]
    BY <1>1, <1>3
  <2> HIDE DEF L, p
  <2> QED
    BY <1>1, <1>3, <2>1, MappedWithout
<1>5. Items' = Without(Items, p)
  BY <1>1, <1>4, ItemsIs
<1>6. p - 1 = pos /\ p + 1 = pos + 2
  BY <1>2
<1>7. DOMAIN Items = 1 .. Len(L)
  BY <1>1, ItemsType DEF IInv
<1> QED
  BY <1>1, <1>2, <1>5, <1>6, <1>7 DEF Without

\* list_del takes out the entry at the position it was given and leaves the others in
\* their order, wherever in the list that is.
THEOREM DelTakesOne == Spec => DelTakesItsPosition
<1>1. IInv => \A pos \in 0 .. Cardinality(Cell) : ListDel(pos) =>
          Items' = SubSeq(Items, 1, pos) \o SubSeq(Items, pos + 2, Len(Items))
  BY ListDelItems
<1> QED
  BY <1>1, IInvAlways, PTL DEF DelTakesItsPosition

HeldKeys(ky, dcells) == {ky[n] : n \in dcells}

\* What Entries is, of this state and of the next.
EntriesAre ==
    /\ Entries \in [HeldKeys(key, CellsOf(DictCells)) -> Value]
    /\ \A n \in CellsOf(DictCells) : Entries[key[n]] = value[n]
    /\ HeldKeys(key, CellsOf(DictCells)) \subseteq Key
    /\ Entries # None

LEMMA EntriesIs == IInv /\ dict # None => EntriesAre
<1> SUFFICES ASSUME IInv, dict # None PROVE EntriesAre
  OBVIOUS
<1> DEFINE C == CellsOf(DictCells)
           keys == HeldKeys(key, C)
<1>1. /\ \A n \in C : value[n] \in Value /\ key[n] \in Key
      /\ \A m, n \in C : key[m] = key[n] => m = n
  BY DEF IInv, ContentInv
<1>2. ASSUME NEW n \in C PROVE Find(key[n]) = n /\ n # None
  BY <1>1, FindIs DEF IInv
<1>3. \A n \in C : DictGet(key[n]) = value[n]
  BY <1>2 DEF DictGet
<1>4. Entries = [k \in keys |-> DictGet(k)]
  BY DEF Entries, HeldKeys
<1>5. \A k \in keys : DictGet(k) \in Value
  BY <1>1, <1>3 DEF HeldKeys
<1>6. keys \in SUBSET Key
  BY <1>1 DEF HeldKeys
<1>7. Entries \in [keys -> Value]
  BY <1>4, <1>5
<1>8. Entries # None
  BY <1>6, <1>7, NoneIsNoContainer
<1>9. \A n \in C : Entries[key[n]] = value[n]
  BY <1>3, <1>4 DEF HeldKeys
<1> QED
  BY <1>6, <1>7, <1>8, <1>9 DEF EntriesAre

EntriesKnown == IInv /\ dict # None => EntriesAre

LEMMA EntriesIsNext == IInv' /\ dict' # None => EntriesAre'
<1>1. EntriesKnown
  BY EntriesIs DEF EntriesKnown
<1>2. EntriesKnown'
  BY <1>1, PTL
<1> QED
  BY <1>2 DEF EntriesKnown

LEMMA EntriesNone == (dict = None => Entries = None) /\ (dict' = None => Entries' = None)
BY DEF Entries

\* A partial function is known by its domain and its values at the keys of the cells.
LEMMA EntriesEqual ==
    ASSUME NEW C, NEW ky, NEW vl, NEW f, NEW g,
           DOMAIN f = HeldKeys(ky, C), f = [k \in DOMAIN f |-> f[k]],
           DOMAIN g = HeldKeys(ky, C), g = [k \in DOMAIN g |-> g[k]],
           \A n \in C : f[ky[n]] = vl[n], \A n \in C : g[ky[n]] = vl[n]
    PROVE  f = g
<1>1. \A k \in HeldKeys(ky, C) : f[k] = g[k]
  BY DEF HeldKeys
<1> QED
  BY <1>1

LEMMA EntriesSame ==
    ASSUME IInv, IInv', UNCHANGED dict, DictCells' = DictCells,
           \A n \in CellsOf(DictCells) : key'[n] = key[n] /\ value'[n] = value[n]
    PROVE  Entries' = Entries
<1>1. CASE dict = None
  BY <1>1, EntriesNone
<1>2. CASE dict # None
  <2>1. EntriesAre /\ EntriesAre'
    BY <1>2, EntriesIs, EntriesIsNext
  <2> DEFINE C == CellsOf(DictCells)
             f == Entries
             g == Entries'
  <2>2. HeldKeys(key', C) = HeldKeys(key, C)
    BY DEF HeldKeys
  <2>3. /\ f \in [HeldKeys(key, C) -> Value] /\ g \in [HeldKeys(key, C) -> Value]
        /\ \A n \in C : f[key[n]] = value[n]
        /\ \A n \in C : g[key[n]] = value[n]
    BY <2>1, <2>2 DEF EntriesAre
  <2> HIDE DEF f, g, C
  <2>4. f = g
    BY <2>3, EntriesEqual
  <2> QED
    BY <2>4 DEF f, g
<1> QED
  BY <1>1, <1>2

LEMMA ItemsSame ==
    ASSUME ShapeInv, UNCHANGED list, ListCells' = ListCells,
           \A n \in CellsOf(ListCells) : value'[n] = value[n]
    PROVE  Items' = Items
<1>1. CASE list = None
  BY <1>1, ItemsIs
<1>2. CASE list # None
  <2>1. \A i \in DOMAIN ListCells : ListCells[i] \in CellsOf(ListCells)
    BY DEF CellsOf
  <2>2. Mapped(value', ListCells) = Mapped(value, ListCells)
    BY <2>1 DEF Mapped
  <2> QED
    BY <1>2, <2>2, ItemsIs
<1> QED
  BY <1>1, <1>2

---------------------------------------------------------------------------
(* Each action is a step of the contract.                                   *)

LEMMA ListCreateMeets ==
    ASSUME IInv, IInv', NEW frees \in BOOLEAN, ListCreate(frees) PROVE Contract!ListStep
<1>1. /\ ListCells' = <<>> /\ DictCells' = DictCells /\ list = None /\ list' # None
  BY ListCreateShape DEF IInv
<1>2. UNCHANGED <<key, value, dict>>
  BY DEF ListCreate, cells
<1>3. Entries' = Entries
  BY <1>1, <1>2, EntriesSame
<1>4. Items = None /\ Items' = <<>>
  BY <1>1, ItemsIs DEF Mapped
<1> QED
  BY <1>3, <1>4 DEF Contract!ListStep

LEMMA ListAddMeets ==
    ASSUME IInv, IInv', NEW v \in Value, ListAdd(v) PROVE Contract!ListStep
<1> DEFINE L == ListCells
           n == Fresh
<1>1. /\ n \in Cell /\ n \notin live
      /\ L' = Append(L, n) /\ DictCells' = DictCells
      /\ key' = [key EXCEPT ![n] = None] /\ value' = [value EXCEPT ![n] = v]
      /\ dict' = dict /\ list # None /\ list' # None
  BY ListAddShape DEF IInv
<1> HIDE DEF n
<1>2. /\ live \subseteq Cell /\ CellsOf(DictCells) \subseteq live /\ CellsOf(L) \subseteq live
      /\ L \in Seq(Cell) /\ DOMAIN L = 1 .. Len(L) /\ Len(L) \in Nat
      /\ \A i \in 1 .. Len(L) : L[i] \in live
  BY ShapeIs, ChainsOf DEF IInv, Linked
<1>3. /\ \A m \in live : key'[m] = key[m] /\ value'[m] = value[m]
      /\ value'[n] = v
  BY <1>1, <1>2 DEF IInv, ShapeInv
<1>4. Entries' = Entries
  BY <1>1, <1>2, <1>3, EntriesSame
<1>5. /\ Items = Mapped(value, L) /\ Items' = Mapped(value', Append(L, n))
      /\ Items \in Seq(Key \union Value) /\ Len(Items) = Len(L) /\ Items # None
  BY <1>1, ItemsIs, ItemsType DEF IInv
<1>6. /\ Append(L, n) \in Seq(Cell) /\ Len(Append(L, n)) = Len(L) + 1
      /\ \A i \in 1 .. Len(L) : Append(L, n)[i] = L[i]
      /\ Append(L, n)[Len(L) + 1] = n
  BY <1>1, <1>2, AppendProperties
<1>7. Mapped(value', Append(L, n)) = [i \in 1 .. Len(L) + 1 |-> value'[Append(L, n)[i]]]
  BY <1>2, <1>6, LenProperties DEF Mapped
<1>8. /\ Append(Items, v) \in Seq(Key \union Value) /\ Len(Append(Items, v)) = Len(L) + 1
      /\ \A i \in 1 .. Len(L) : Append(Items, v)[i] = Items[i]
      /\ Append(Items, v)[Len(L) + 1] = v
  <2>1. v \in Key \union Value
    OBVIOUS
  <2> QED
    BY <1>5, <2>1, AppendProperties
<1>9. Append(Items, v) = [i \in 1 .. Len(L) + 1 |-> Append(Items, v)[i]]
  BY <1>8, LenProperties
<1>10. ASSUME NEW i \in 1 .. Len(L) + 1 PROVE value'[Append(L, n)[i]] = Append(Items, v)[i]
  <2>1. CASE i = Len(L) + 1
    BY <1>3, <1>6, <1>8, <2>1
  <2>2. CASE i # Len(L) + 1
    <3>1. i \in 1 .. Len(L)
      BY <1>2, <2>2
    <3>2. Items[i] = value[L[i]]
      BY <1>2, <1>5, <3>1 DEF Mapped
    <3> QED
      BY <1>2, <1>3, <1>6, <1>8, <3>1, <3>2
  <2> QED
    BY <2>1, <2>2
<1>11. Items' = Append(Items, v)
  BY <1>5, <1>7, <1>9, <1>10
<1> QED
  BY <1>4, <1>5, <1>11 DEF Contract!ListStep

LEMMA ListDelMeets ==
    ASSUME IInv, IInv', NEW pos, ListDel(pos) PROVE Contract!ListStep
<1> DEFINE n == ListCells[pos + 1]
<1>1. /\ DictCells' = DictCells /\ dict' = dict /\ list # None
      /\ \A m \in Cell \ {n} : key'[m] = key[m] /\ value'[m] = value[m]
      /\ pos + 1 \in 1 .. Len(ListCells)
  BY ListDelShape DEF IInv
<1>2. n \in CellsOf(ListCells)
  BY <1>1, ShapeIs, ChainsOf DEF IInv
<1>3. CellsOf(DictCells) \subseteq Cell \ {n}
  BY <1>2, ShapeIs, ChainsOf DEF IInv
<1>4. Entries' = Entries
  BY <1>1, <1>3, EntriesSame
<1>5. /\ pos + 1 \in DOMAIN Items /\ pos \in Nat
      /\ Items' = SubSeq(Items, 1, pos) \o SubSeq(Items, pos + 2, Len(Items))
  BY ListDelItems
<1>6. (pos + 1) - 1 = pos /\ (pos + 1) + 1 = pos + 2
  BY <1>5
<1>7. Items' = SubSeq(Items, 1, (pos + 1) - 1) \o SubSeq(Items, (pos + 1) + 1, Len(Items))
  BY <1>5, <1>6
<1>8. Items # None
  BY <1>1, ItemsType DEF IInv
<1> QED
  BY <1>4, <1>5, <1>7, <1>8 DEF Contract!ListStep, Contract!RemoveAt

LEMMA ListFreeMeets ==
    ASSUME IInv, IInv', ListFree PROVE Contract!ListStep
<1>1. /\ DictCells' = DictCells /\ dict' = dict /\ list # None /\ list' = None
      /\ \A n \in Cell \ CellsOf(ListCells) : key'[n] = key[n] /\ value'[n] = value[n]
  BY ListFreeShape DEF IInv
<1>2. CellsOf(DictCells) \subseteq Cell \ CellsOf(ListCells)
  BY ShapeIs, ChainsOf DEF IInv
<1>3. Entries' = Entries
  BY <1>1, <1>2, EntriesSame
<1>4. Items # None /\ Items' = None
  BY <1>1, ItemsType, ItemsIs DEF IInv
<1> QED
  BY <1>3, <1>4 DEF Contract!ListStep

LEMMA DictCreateMeets ==
    ASSUME IInv, IInv', NEW frees \in BOOLEAN, DictCreate(frees) PROVE Contract!DictStep
<1>1. ListCells' = ListCells /\ DictCells' = <<>> /\ dict = None /\ dict' # None
  BY DictCreateShape DEF IInv
<1>2. UNCHANGED <<value, list>>
  BY DEF DictCreate, cells
<1>3. Items' = Items
  BY <1>1, <1>2, ItemsSame DEF IInv
<1>4. Entries = None /\ EntriesAre'
  BY <1>1, EntriesNone, EntriesIsNext
<1>5. HeldKeys(key', {}) = {}
  BY DEF HeldKeys
<1>6. Entries' \in [{} -> Value]
  BY <1>1, <1>4, <1>5, LinkedNone DEF EntriesAre
<1>7. Entries' = [k \in {} |-> None]
  BY <1>6
<1> QED
  BY <1>3, <1>4, <1>7 DEF Contract!DictStep

LEMMA DictFreeMeets ==
    ASSUME IInv, IInv', DictFree PROVE Contract!DictStep
<1>1. /\ ListCells' = ListCells /\ list' = list /\ dict # None /\ dict' = None
      /\ \A n \in Cell \ CellsOf(DictCells) : value'[n] = value[n]
  BY DictFreeShape DEF IInv, ContentInv
<1>2. CellsOf(ListCells) \subseteq Cell \ CellsOf(DictCells)
  BY ShapeIs, ChainsOf DEF IInv
<1>3. Items' = Items
  BY <1>1, <1>2, ItemsSame DEF IInv
<1>4. Entries # None /\ Entries' = None
  BY <1>1, EntriesIs, EntriesNone DEF EntriesAre
<1> QED
  BY <1>3, <1>4 DEF Contract!DictStep

LEMMA DictSetMeets ==
    ASSUME IInv, IInv', NEW k \in Key, NEW v \in Value, DictSet(k, v) PROVE Contract!DictStep
<1> DEFINE C == CellsOf(DictCells)
           keys == HeldKeys(key, C)
           g == [j \in keys \union {k} |-> IF j = k THEN v ELSE Entries[j]]
<1>1. dict # None /\ list' = list
  BY DEF DictSet
<1>2. EntriesAre
  BY <1>1, EntriesIs
<1>3. /\ CellsOf(ListCells) \intersect C = {} /\ CellsOf(ListCells) \subseteq live
      /\ C \subseteq live /\ live \subseteq Cell
      /\ value \in [Cell -> Value \union Key \union {None}]
      /\ key \in [Cell -> Key \union {None}]
      /\ \A m, n \in C : key[m] = key[n] => m = n
  BY ShapeIs DEF IInv, ShapeInv, ContentInv
<1>4. CASE Find(k) = None
  <2> DEFINE n == Fresh
             E == CellsOf(DictCells')
  <2>1. Extend(k, v) /\ \A m \in C : key[m] # k
    BY <1>4, FindIs DEF DictSet, IInv
  <2>2. /\ n \in Cell /\ n \notin live /\ ListCells' = ListCells /\ E = C \union {n}
        /\ key' = [key EXCEPT ![n] = k] /\ value' = [value EXCEPT ![n] = v]
        /\ dict' # None
    BY <1>1, <2>1, ExtendShape DEF IInv
  <2> HIDE DEF n, E
  <2>3. /\ \A m \in live : key'[m] = key[m] /\ value'[m] = value[m] /\ m # n
        /\ key'[n] = k /\ value'[n] = v
    BY <1>3, <2>2
  <2>4. Items' = Items
    BY <1>1, <1>3, <2>2, <2>3, ItemsSame DEF IInv
  <2> HIDE DEF C
  <2>5. HeldKeys(key', E) = keys \union {k}
    BY <1>3, <2>2, <2>3 DEF HeldKeys
  <2>6. /\ \A m \in E : g[key'[m]] = value'[m]
    <3>1. \A m \in C : key[m] \in keys /\ Entries[key[m]] = value[m]
      BY <1>2 DEF EntriesAre, HeldKeys, C
    <3> QED
      BY <1>3, <2>1, <2>2, <2>3, <3>1
  <2>7. EntriesAre'
    BY <2>2, EntriesIsNext
  <2>8. /\ Entries' \in [HeldKeys(key', E) -> Value]
        /\ \A m \in E : Entries'[key'[m]] = value'[m]
    BY <2>7 DEF EntriesAre, E
  <2> DEFINE f == Entries'
  <2>9. /\ DOMAIN f = HeldKeys(key', E) /\ f = [j \in DOMAIN f |-> f[j]]
        /\ \A m \in E : f[key'[m]] = value'[m]
    BY <2>8
  <2>10. /\ DOMAIN g = HeldKeys(key', E) /\ g = [j \in DOMAIN g |-> g[j]]
    BY <2>5
  <2> HIDE DEF f, g
  <2>11. f = g
    BY <2>6, <2>9, <2>10, EntriesEqual
  <2>12. DOMAIN Entries = keys /\ Entries # None
    BY <1>2 DEF EntriesAre, C
  <2> QED
    BY <2>4, <2>11, <2>12 DEF Contract!DictStep, f, g
<1>5. CASE Find(k) # None
  <2> DEFINE n == Find(k)
  <2>1. n \in C /\ key[n] = k
    BY <1>5, FindIs DEF IInv
  <2>2. /\ value' = [value EXCEPT ![n] = v]
        /\ UNCHANGED <<next, key, live, dict, list>>
    BY <1>5 DEF DictSet
  <2> HIDE DEF n
  <2>3. ListCells' = ListCells /\ DictCells' = DictCells
    BY <2>2 DEF ListCells, DictCells
  <2>4. value'[n] = v /\ \A m \in live : m # n => value'[m] = value[m]
    BY <1>3, <2>1, <2>2
  <2>5. Items' = Items
    BY <1>3, <2>1, <2>2, <2>3, <2>4, ItemsSame DEF IInv
  <2>6. EntriesAre' /\ key' = key /\ CellsOf(DictCells') = C
    BY <1>1, <2>2, <2>3, EntriesIsNext
  <2>7. /\ Entries' \in [keys -> Value]
        /\ \A m \in C : Entries'[key[m]] = value'[m]
    BY <2>6 DEF EntriesAre
  <2>8. k \in keys /\ keys \union {k} = keys
    BY <2>1 DEF HeldKeys
  <2>9. \A m \in C : g[key[m]] = value'[m]
    <3>1. \A m \in C : key[m] \in keys /\ Entries[key[m]] = value[m]
      BY <1>2 DEF EntriesAre, HeldKeys
    <3> HIDE DEF C, keys
    <3> QED
      BY <1>3, <2>1, <2>4, <2>8, <3>1
  <2> DEFINE f == Entries'
  <2>10. /\ DOMAIN f = HeldKeys(key, C) /\ f = [j \in DOMAIN f |-> f[j]]
         /\ \A m \in C : f[key[m]] = value'[m]
         /\ DOMAIN g = HeldKeys(key, C) /\ g = [j \in DOMAIN g |-> g[j]]
    BY <2>7, <2>8
  <2> HIDE DEF f, g, C
  <2>11. f = g
    BY <2>9, <2>10, EntriesEqual
  <2>12. DOMAIN Entries = keys /\ Entries # None
    BY <1>2 DEF EntriesAre, C
  <2> QED
    BY <2>5, <2>11, <2>12 DEF Contract!DictStep, f, g
<1> QED
  BY <1>4, <1>5

LEMMA DictDelMeets ==
    ASSUME IInv, IInv', NEW k, DictDel(k) PROVE Contract!DictStep
<1> DEFINE C == CellsOf(DictCells)
           keys == HeldKeys(key, C)
           g == [j \in keys \ {k} |-> Entries[j]]
<1>1. PICK p \in 1 .. Len(DictCells) :
              /\ key[DictCells[p]] = k
              /\ DictCells[p] \in C
              /\ ListCells' = ListCells /\ DictCells' = Without(DictCells, p)
              /\ CellsOf(Without(DictCells, p)) = C \ {DictCells[p]}
              /\ \A n \in Cell \ {DictCells[p]} : key'[n] = key[n] /\ value'[n] = value[n]
              /\ list' = list /\ dict # None /\ dict' # None
  BY DictDelShape DEF IInv, ContentInv
<1> DEFINE n == DictCells[p]
           E == CellsOf(DictCells')
<1>2. /\ n \in C /\ key[n] = k /\ E = C \ {n}
      /\ \A m \in Cell \ {n} : key'[m] = key[m] /\ value'[m] = value[m]
  BY <1>1
<1> HIDE DEF n, E
<1>3. /\ CellsOf(ListCells) \intersect C = {} /\ CellsOf(ListCells) \subseteq Cell
      /\ C \subseteq Cell
      /\ \A l, m \in C : key[l] = key[m] => l = m
  BY ShapeIs, ChainsOf DEF IInv, ContentInv
<1>4. Items' = Items
  BY <1>1, <1>2, <1>3, ItemsSame DEF IInv
<1>5. EntriesAre /\ EntriesAre'
  BY <1>1, EntriesIs, EntriesIsNext
<1>6. /\ \A m \in C : key[m] \in keys /\ Entries[key[m]] = value[m]
      /\ DOMAIN Entries = keys /\ Entries # None
  BY <1>5 DEF EntriesAre, HeldKeys
<1>7. /\ Entries' \in [HeldKeys(key', E) -> Value]
      /\ \A m \in E : Entries'[key'[m]] = value'[m]
  BY <1>5 DEF EntriesAre, E
<1> HIDE DEF C
<1>8. \A m \in E : m \in C /\ m # n /\ key'[m] = key[m] /\ value'[m] = value[m] /\ key[m] # k
  BY <1>2, <1>3
<1>9. HeldKeys(key', E) = keys \ {k}
  <2>1. ASSUME NEW x \in keys \ {k} PROVE x \in HeldKeys(key', E)
    <3>1. PICK m \in C : x = key[m]
      BY <2>1 DEF HeldKeys
    <3>2. m \in E
      BY <1>2, <2>1, <3>1
    <3> QED
      BY <1>8, <3>1, <3>2 DEF HeldKeys
  <2>2. ASSUME NEW x \in HeldKeys(key', E) PROVE x \in keys \ {k}
    <3>1. PICK m \in E : x = key'[m]
      BY <2>2 DEF HeldKeys
    <3> QED
      BY <1>8, <3>1 DEF HeldKeys
  <2> QED
    BY <2>1, <2>2
<1> HIDE DEF keys
<1>10. \A m \in E : g[key'[m]] = value'[m]
  BY <1>6, <1>8
<1> DEFINE f == Entries'
<1>11. /\ DOMAIN f = HeldKeys(key', E) /\ f = [j \in DOMAIN f |-> f[j]]
       /\ \A m \in E : f[key'[m]] = value'[m]
       /\ DOMAIN g = HeldKeys(key', E) /\ g = [j \in DOMAIN g |-> g[j]]
  BY <1>7, <1>9
<1>12. k \in keys
  BY <1>2, <1>6
<1> HIDE DEF f, g
<1>13. f = g
  BY <1>10, <1>11, EntriesEqual
<1> QED
  BY <1>4, <1>6, <1>12, <1>13 DEF Contract!DictStep, f, g

LEMMA DictListMeets ==
    ASSUME IInv, IInv', DictList PROVE Contract!DictList
<1> DEFINE D == DictCells
           C == CellsOf(D)
           N == Len(D)
           keys == HeldKeys(key, C)
           f == [i \in 1 .. N |-> key[D[i]]]
<1>1. /\ DictCells' = D /\ Len(ListCells') = N
      /\ \A i \in 1 .. N : value'[ListCells'[i]] = key[D[i]]
      /\ \A n \in live : key'[n] = key[n] /\ value'[n] = value[n]
      /\ list = None /\ list' # None /\ dict' = dict /\ dict # None
      /\ ListCells' \in Seq(Cell)
  BY DictListShape DEF IInv, ContentInv
<1>2. /\ N \in Nat /\ DOMAIN D = 1 .. N
      /\ \A i, j \in 1 .. N : D[i] = D[j] => i = j
      /\ C \subseteq live /\ \A i \in 1 .. N : D[i] \in C
  <2>1. Linked(D, next, HeadOf(dict))
    BY ShapeIs DEF IInv
  <2> QED
    BY <2>1, ShapeIs, ChainsOf DEF IInv, Linked
<1>3. Entries' = Entries
  BY <1>1, <1>2, EntriesSame
<1>4. DOMAIN Entries = keys /\ Entries # None
  BY <1>1, EntriesIs DEF EntriesAre
<1>5. Items = None
  BY <1>1, ItemsIs
<1>6. Items' = f
  <2>1. DOMAIN ListCells' = 1 .. N
    BY <1>1, LenProperties
  <2>2. Items' = [i \in 1 .. N |-> value'[ListCells'[i]]]
    BY <1>1, <2>1, ItemsIs DEF Mapped
  <2> QED
    BY <1>1, <2>2
<1>7. \A m, n \in C : key[m] = key[n] => m = n
  BY DEF IInv, ContentInv
<1>8. f \in [1 .. N -> keys]
  BY <1>2 DEF HeldKeys
<1>9. \A i, j \in 1 .. N : f[i] = f[j] => i = j
  BY <1>2, <1>7
<1>10. \A x \in keys : \E i \in 1 .. N : f[i] = x
  BY <1>2 DEF HeldKeys, CellsOf
<1> HIDE DEF f, keys, N, C, D
<1>11. f \in Bijection(1 .. N, keys)
  BY <1>8, <1>9, <1>10 DEF Bijection, Injection, Surjection, IsInjective
<1>12. Cardinality(keys) = N
  <2>1. IsFiniteSet(1 .. N) /\ Cardinality(1 .. N) = N
    BY <1>2, FS_Interval
  <2> QED
    BY <1>11, <2>1, FS_Bijection DEF ExistsBijection
<1>13. f \in Contract!SetToSeqs(keys)
  <2>1. \A i, j \in 1 .. N : i # j => f[i] # f[j]
    BY <1>9
  <2>2. Contract!Cardinality(keys) = Cardinality(keys)
    BY ONLY ZenonT(10) DEF Contract!Cardinality, Cardinality
  <2>3. f \in [1 .. Contract!Cardinality(keys) -> keys]
    BY <1>8, <1>12, <2>2
  <2>4. \A i, j \in 1 .. Contract!Cardinality(keys) : i # j => f[i] # f[j]
    BY <1>12, <2>1, <2>2
  <2> QED
    BY ONLY <2>3, <2>4 DEF Contract!SetToSeqs
<1> QED
  BY <1>3, <1>4, <1>5, <1>6, <1>13 DEF Contract!DictList

LEMMA StepMeets ==
    ASSUME IInv, IInv', [Next]_vars
    PROVE  [Contract!ListStep \/ Contract!DictList \/ Contract!DictStep]_<<Items, Entries>>
<1>1. CASE UNCHANGED vars
  <2>1. UNCHANGED <<next, key, value, list, dict>>
    BY <1>1 DEF vars, cells
  <2>2. ListCells' = ListCells /\ DictCells' = DictCells
    BY <2>1 DEF ListCells, DictCells
  <2>3. Items' = Items
    BY <2>1, <2>2, ItemsSame DEF IInv
  <2>4. Entries' = Entries
    BY <2>1, <2>2, EntriesSame
  <2> QED
    BY <2>3, <2>4
<1>2. CASE Next
  <2>1. \/ \E frees \in BOOLEAN : ListCreate(frees) \/ DictCreate(frees)
        \/ \E v \in Value : ListAdd(v) \/ \E k \in Key : DictSet(k, v)
        \/ \E pos \in 0 .. Cardinality(Cell) : ListDel(pos)
        \/ \E k \in Key : DictDel(k)
        \/ ListFree \/ DictFree \/ DictList
    BY <1>2 DEF Next
  <2>2. Contract!ListStep \/ Contract!DictList \/ Contract!DictStep
    BY <2>1, ListCreateMeets, DictCreateMeets, ListAddMeets, DictSetMeets, ListDelMeets,
       DictDelMeets, ListFreeMeets, DictFreeMeets, DictListMeets
  <2> QED
    BY <2>2
<1> QED
  BY <1>1, <1>2

LEMMA InitMeets == Init => Contract!Init
BY DEF Init, Contract!Init, Items, Entries

\* The cells and pointers implement what drmaa2.h promises: a sequence that grows at
\* its end, and a partial function.
THEOREM PointersMeetContract == Spec => MeetsContract
<1>1. IInv /\ IInv' /\ [Next]_vars =>
        [Contract!ListStep \/ Contract!DictList \/ Contract!DictStep]_<<Items, Entries>>
  BY StepMeets
<1> QED
  BY <1>1, IInvAlways, InitMeets, PTL DEF Spec, MeetsContract, Contract!Spec
=============================================================================
