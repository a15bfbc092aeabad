--------------------------- MODULE RgaOrder_proofs ---------------------------
(***************************************************************************)
(* What Snapshot and Text list, for every finite document, and what an     *)
(* operation does to the two ends of a connection.  Loops and              *)
(* recursions are functions of the number of steps; what holds of their    *)
(* results is shown by induction on that number, which rests on the fact   *)
(* that a set of natural numbers has a least element.                      *)
(***************************************************************************)
EXTENDS RgaOrder, Integers, FiniteSetTheorems, WellFoundedInduction, TLAPS

LEMMA LeastNumber ==
  ASSUME NEW S, S \subseteq Nat, S # {}
  PROVE  \E n \in S : \A m \in S : n <= m
<1>1. PICK less : less = OpToRel(<, Nat)
  BY Zenon
<1>2. IsWellFoundedOn(less, Nat)
  BY <1>1, NatLessThanWellFounded, Zenon
<1>3. PICK n \in S : \A m \in S : ~(<<m, n>> \in less)
  BY <1>2, WFMin, Zenon
<1>4. \A m \in S : m < n => <<m, n>> \in less
  BY <1>1 DEF OpToRel
<1>5. \A a, b \in Nat : ~(a < b) => b <= a
  OBVIOUS
<1>6. QED
  BY <1>3, <1>4, <1>5, Zenon

(* Induction up to n; S are the numbers of which the claim holds. *)
LEMMA Induction ==
  ASSUME NEW n \in Nat, NEW S, 0 \in S, \A i \in 0..(n - 1) : i \in S => i + 1 \in S
  PROVE  \A i \in 0..n : i \in S
<1>1. SUFFICES ASSUME NEW k \in 0..n, k \notin S PROVE FALSE
  BY Zenon
<1>2. PICK T : T = {i \in 0..n : i \notin S}
  BY Zenon
<1>3. T \subseteq Nat /\ T # {}
  BY <1>1, <1>2
<1>4. PICK i \in T : \A m \in T : i <= m
  BY <1>3, LeastNumber, Zenon
<1>5. i # 0 /\ i - 1 \in 0..(n - 1) /\ i - 1 \in 0..n /\ ~(i <= i - 1) /\ (i - 1) + 1 = i
  BY <1>2, <1>4
<1>6. i - 1 \in S
  BY <1>2, <1>4, <1>5, Zenon
<1>7. QED
  BY <1>2, <1>4, <1>5, <1>6
(* A loop of n steps, of which step i takes the value v to G[i][v]. *)
IsLoop(f, n, V, a, G) ==
  f \in [0..n -> V] /\ f[0] = a /\ \A i \in 1..n : f[i] = G[i][f[i - 1]]

LEMMA Recursion ==
  ASSUME NEW n \in Nat, NEW V, NEW a \in V, NEW G,
         \A i \in 1..n : \A v \in V : G[i][v] \in V
  PROVE  \E f : IsLoop(f, n, V, a, G)
<1>1. PICK D : D = {m \in 0..n : \E f \in [0..m -> V] :
                      f[0] = a /\ \A i \in 1..m : f[i] = G[i][f[i - 1]]}
  BY Zenon
<1>2. 0 \in D
  <2>1. PICK f : f = [i \in 0..0 |-> a]
    BY Zenon
  <2>2. f \in [0..0 -> V] /\ f[0] = a /\ \A i \in 1..0 : f[i] = G[i][f[i - 1]]
    BY <2>1
  <2>3. 0 \in 0..n
    OBVIOUS
  <2>4. QED
    BY <1>1, <2>2, <2>3, Zenon
<1>3. ASSUME NEW m \in 0..(n - 1), m \in D PROVE m + 1 \in D
  <2>1. PICK f \in [0..m -> V] : f[0] = a /\ \A i \in 1..m : f[i] = G[i][f[i - 1]]
    BY <1>1, <1>3, Zenon
  <2>2. m \in 0..m /\ m + 1 \in 1..n /\ m + 1 \in 0..n
    OBVIOUS
  <2>3. PICK e \in V : e = G[m + 1][f[m]]
    BY <2>2, Zenon
  <2>4. PICK g : g = [i \in 0..(m + 1) |-> IF i = m + 1 THEN e ELSE f[i]]
    BY Zenon
  <2>5. g \in [0..(m + 1) -> V] /\ g[0] = a
    BY <2>1, <2>4
  <2>6. /\ g[m + 1] = e /\ g[(m + 1) - 1] = f[m]
        /\ \A i \in 1..m : g[i] = f[i] /\ g[i - 1] = f[i - 1]
        /\ \A i \in 1..(m + 1) : i \in 1..m \/ i = m + 1
    BY <2>4
  <2>7. \A i \in 1..(m + 1) : g[i] = G[i][g[i - 1]]
    BY <2>1, <2>3, <2>6, Zenon
  <2>8. QED
    BY <1>1, <2>2, <2>5, <2>7, Zenon
<1>4. \A i \in 0..n : i \in D
  BY <1>2, <1>3, Induction, Zenon
<1>5. n \in 0..n
  OBVIOUS
<1>6. QED
  BY <1>1, <1>4, <1>5, Zenon DEF IsLoop
-----------------------------------------------------------------------------
(***************************************************************************)
(* Lists without repetitions.                                              *)
(***************************************************************************)
Distinct(s) == \A i, j \in DOMAIN s : s[i] = s[j] => i = j

LEMMA ListFacts ==
  ASSUME NEW X, NEW s \in Seq(X)
  PROVE  /\ Len(s) \in Nat /\ DOMAIN s = 1..Len(s) /\ s \in [1..Len(s) -> X]
         /\ s # <<>> => Len(s) > 0
  OBVIOUS

LEMMA EmptyList ==
  ASSUME NEW X
  PROVE  <<>> \in Seq(X) /\ Range(<<>>) = {} /\ Distinct(<<>>) /\ Len(<<>>) = 0
<1>1. <<>> \in Seq(X) /\ DOMAIN <<>> = {} /\ Len(<<>>) = 0
  OBVIOUS
<1>2. QED
  BY <1>1, Zenon DEF Range, Distinct

LEMMA ListRange ==
  ASSUME NEW X, NEW s \in Seq(X)
  PROVE  /\ Len(s) \in Nat /\ DOMAIN s = 1..Len(s) /\ Range(s) \subseteq X
         /\ \A i \in 1..Len(s) : s[i] \in Range(s)
         /\ s \in Seq(Range(s))
<1>1. Len(s) \in Nat /\ DOMAIN s = 1..Len(s) /\ \A i \in 1..Len(s) : s[i] \in X
  OBVIOUS
<1>2. Range(s) \subseteq X /\ \A i \in 1..Len(s) : s[i] \in Range(s)
  BY <1>1, Zenon DEF Range
<1>3. s \in Seq(Range(s))
  BY <1>1, <1>2
<1>4. QED
  BY <1>1, <1>2, <1>3, Zenon

LEMMA AppendList ==
  ASSUME NEW X, NEW s \in Seq(X), NEW x \in X
  PROVE  /\ Append(s, x) \in Seq(X) /\ Len(Append(s, x)) = Len(s) + 1
         /\ Range(Append(s, x)) = Range(s) \cup {x}
         /\ \A i \in 1..Len(s) : Append(s, x)[i] = s[i]
         /\ Append(s, x)[Len(s) + 1] = x
         /\ Distinct(s) /\ x \notin Range(s) => Distinct(Append(s, x))
<1>1. PICK r : r = Append(s, x)
  BY Zenon
<1>2. /\ r \in Seq(X) /\ Len(r) = Len(s) + 1 /\ r[Len(s) + 1] = x
      /\ \A i \in 1..Len(s) : r[i] = s[i]
      /\ DOMAIN s = 1..Len(s) /\ DOMAIN r = 1..Len(s) \cup {Len(s) + 1}
  BY <1>1
<1>3. Range(r) = Range(s) \cup {x}
  BY <1>2 DEF Range
<1>4. Distinct(s) /\ x \notin Range(s) => Distinct(r)
  BY <1>2 DEF Range, Distinct
<1>5. QED
  BY <1>1, <1>2, <1>3, <1>4

LEMMA ConcatList ==
  ASSUME NEW X, NEW s \in Seq(X), NEW t \in Seq(X)
  PROVE  /\ s \o t \in Seq(X) /\ Len(s \o t) = Len(s) + Len(t)
         /\ Range(s \o t) = Range(s) \cup Range(t)
         /\ \A i \in 1..Len(s) : (s \o t)[i] = s[i]
         /\ \A i \in 1..Len(t) : (s \o t)[Len(s) + i] = t[i]
         /\ Distinct(s) /\ Distinct(t) /\ Range(s) \cap Range(t) = {} => Distinct(s \o t)
<1>1. PICK r : r = s \o t
  BY Zenon
<1>2. /\ r \in Seq(X) /\ Len(r) = Len(s) + Len(t) /\ Len(s) \in Nat /\ Len(t) \in Nat
      /\ \A i \in 1..Len(s) : r[i] = s[i]
      /\ \A i \in 1..Len(t) : r[Len(s) + i] = t[i]
      /\ DOMAIN s = 1..Len(s) /\ DOMAIN t = 1..Len(t) /\ DOMAIN r = 1..(Len(s) + Len(t))
  BY <1>1
<1>3. \A i \in DOMAIN r : i \in DOMAIN s \/ \E j \in DOMAIN t : i = Len(s) + j
  <2>1. \A i \in DOMAIN r : i \in DOMAIN s \/ (i - Len(s) \in DOMAIN t /\ i = Len(s) + (i - Len(s)))
    BY <1>2
  <2>2. QED
    BY <2>1, Zenon
<1>4. (\A i \in DOMAIN s : i \in DOMAIN r) /\ \A j \in DOMAIN t : Len(s) + j \in DOMAIN r
  BY <1>2
<1>5. Range(r) = Range(s) \cup Range(t)
  <2>1. Range(r) \subseteq Range(s) \cup Range(t)
    BY <1>2, <1>3 DEF Range
  <2>2. Range(s) \subseteq Range(r) /\ Range(t) \subseteq Range(r)
    BY <1>2, <1>4, ZenonT(60) DEF Range
  <2>3. QED
    BY <2>1, <2>2, Zenon
<1>6. ASSUME Distinct(s), Distinct(t), Range(s) \cap Range(t) = {} PROVE Distinct(r)
  <2>1. \A i \in DOMAIN s, j \in DOMAIN t : s[i] # t[j]
    BY <1>6, Zenon DEF Range
  <2>2. QED
    BY <1>2, <1>3, <1>6, <2>1, SMTT(30) DEF Distinct
<1>7. QED
  BY <1>1, <1>2, <1>5, <1>6

LEMMA ConcatAppend ==
  ASSUME NEW X, NEW s \in Seq(X), NEW t \in Seq(X), NEW x \in X
  PROVE  s \o Append(t, x) = Append(s \o t, x)
<1>1. PICK u : u = <<x>>
  BY Zenon
<1>2. u \in Seq(X) /\ s \o t \in Seq(X)
  BY <1>1
<1>3. Append(t, x) = t \o u
  BY <1>1
<1>4. Append(s \o t, x) = (s \o t) \o u
  BY <1>1, <1>2
<1>5. (s \o t) \o u = s \o (t \o u)
  <2>1. PICK l, r : l = (s \o t) \o u /\ r = s \o (t \o u)
    BY Zenon
  <2>2. l \in Seq(X) /\ r \in Seq(X)
    BY <1>2, <2>1
  <2>3. Len(l) = Len(r) /\ \A i \in 1..Len(l) : l[i] = r[i]
    BY <1>2, <2>1
  <2>4. l = [i \in 1..Len(l) |-> l[i]] /\ r = [i \in 1..Len(r) |-> r[i]]
    BY <2>2
  <2>5. QED
    BY <2>1, <2>3, <2>4, Zenon
<1>6. QED
  BY <1>3, <1>4, <1>5, Zenon

-----------------------------------------------------------------------------
(***************************************************************************)
(* Filter.                                                                 *)
(***************************************************************************)
(* f[m] is what the loop has kept of the first m members of s. *)
IsFilter(f, X, s, S) ==
  \A m \in 0..Len(s) : /\ f[m] \in Seq(X)
                       /\ Range(f[m]) = {s[i] : i \in 1..m} \cap S
                       /\ Distinct(s) => Distinct(f[m])

Filtering(f, s, S) ==
  /\ f[0] = <<>>
  /\ \A n \in 1..Len(s) : f[n] = IF s[n] \in S THEN Append(f[n - 1], s[n]) ELSE f[n - 1]

LEMMA FilterSteps ==
  \A X : \A s \in Seq(X) : \A S :
    \E f : Filtering(f, s, S) /\ Filter(s, S) = f[Len(s)] /\ IsFilter(f, X, s, S)
<1>1. ASSUME NEW X, NEW s \in Seq(X), NEW S
      PROVE  \E f : Filtering(f, s, S) /\ Filter(s, S) = f[Len(s)]
  <2>1. PICK l, V, e : l = Len(s) /\ V = Seq(X) /\ e = <<>> /\ l \in Nat /\ e \in V
    <3>1. Len(s) \in Nat /\ <<>> \in Seq(X)
      OBVIOUS
    <3>2. QED
      BY <3>1, Zenon
  <2>2. \A n \in 1..l : s[n] \in X
    BY <2>1
  <2>3. PICK G : G = [n \in 1..l |-> [v \in V |-> IF s[n] \in S THEN Append(v, s[n]) ELSE v]]
    BY Zenon
  <2>4. \A n \in 1..l : \A v \in V : G[n][v] \in V
    BY <2>1, <2>2, <2>3
  <2>5. PICK f \in [0..l -> V] : f[0] = e /\ \A n \in 1..l : f[n] = G[n][f[n - 1]]
    <3>1. l \in Nat /\ e \in V
      BY <2>1, Zenon
    <3>2. \E f : IsLoop(f, l, V, e, G)
      BY <2>4, <3>1, Recursion, Zenon
    <3>3. QED
      BY <3>2, Zenon DEF IsLoop
  <2>6. \A n \in 0..l : f[n] = IF n = 0 THEN <<>>
                                ELSE IF s[n] \in S THEN Append(f[n - 1], s[n]) ELSE f[n - 1]
    <3>1. f[0] = <<>>
      BY <2>1, <2>5, Zenon
    <3>2. \A n \in 1..l : f[n - 1] \in V
      <4>1. \A n \in 1..l : n - 1 \in 0..l
        BY <2>1
      <4>2. QED
        BY <2>5, <4>1, Zenon
    <3>3. \A n \in 1..l : f[n] = IF s[n] \in S THEN Append(f[n - 1], s[n]) ELSE f[n - 1]
      BY <2>3, <2>5, <3>2, Zenon
    <3>4. \A n \in 0..l : n = 0 \/ (n \in 1..l /\ n # 0)
      BY <2>1
    <3>5. QED
      BY <3>1, <3>3, <3>4, Zenon
  <2>7. f = [n \in 0..l |-> IF n = 0 THEN <<>>
                            ELSE IF s[n] \in S THEN Append(f[n - 1], s[n]) ELSE f[n - 1]]
    BY <2>6
  <2>8. PICK g : /\ g = [n \in 0..Len(s) |-> IF n = 0 THEN <<>>
                         ELSE IF s[n] \in S THEN Append(g[n - 1], s[n]) ELSE g[n - 1]]
                 /\ Filter(s, S) = g[Len(s)]
    BY <2>1, <2>7, Zenon DEF Filter
  <2>9. \A n \in 0..Len(s) : g[n] = IF n = 0 THEN <<>>
                         ELSE IF s[n] \in S THEN Append(g[n - 1], s[n]) ELSE g[n - 1]
    BY <2>8, Zenon
  <2>10. 0 \in 0..Len(s) /\ \A n \in 1..Len(s) : n \in 0..Len(s) /\ n # 0
    BY <2>1
  <2>11. Filtering(g, s, S)
    BY <2>9, <2>10, Zenon DEF Filtering
  <2>12. QED
    BY <2>8, <2>11, Zenon
<1>2. ASSUME NEW X, NEW s \in Seq(X), NEW S
      PROVE  \E f : Filtering(f, s, S) /\ Filter(s, S) = f[Len(s)] /\ IsFilter(f, X, s, S)
  <2>1. PICK f : Filtering(f, s, S) /\ Filter(s, S) = f[Len(s)]
    BY <1>1, Zenon
  <2>2. Len(s) \in Nat /\ DOMAIN s = 1..Len(s) /\ \A i \in 1..Len(s) : s[i] \in X
    OBVIOUS
  <2>3. PICK D : D = {m \in 0..Len(s) : /\ f[m] \in Seq(X)
                                        /\ Range(f[m]) = {s[i] : i \in 1..m} \cap S
                                        /\ Distinct(s) => Distinct(f[m])}
    BY Zenon
  <2>5. 0 \in D
    <3>1. {s[i] : i \in 1..0} \cap S = {} /\ 0 \in 0..Len(s)
      BY <2>2
    <3>2. QED
      BY <2>1, <2>3, <3>1, EmptyList, Zenon DEF Filtering
  <2>6. ASSUME NEW m \in 0..(Len(s) - 1), m \in D PROVE m + 1 \in D
    <3>1. /\ m + 1 \in 0..Len(s) /\ m + 1 \in 1..Len(s)
          /\ \A i \in 1..m : i \in 1..Len(s) /\ i # m + 1
          /\ {s[i] : i \in 1..(m + 1)} = {s[i] : i \in 1..m} \cup {s[m + 1]}
      BY <2>2
    <3>2. f[m + 1] = IF s[m + 1] \in S THEN Append(f[m], s[m + 1]) ELSE f[m]
      <4>1. (m + 1) - 1 = m
        BY <2>2
      <4>2. QED
        BY <2>1, <3>1, <4>1, Zenon DEF Filtering
    <3>3. /\ f[m] \in Seq(X) /\ Range(f[m]) = {s[i] : i \in 1..m} \cap S
          /\ Distinct(s) => Distinct(f[m])
      BY <2>3, <2>6, Zenon
    <3>4. CASE s[m + 1] \notin S
      <4>1. f[m + 1] = f[m] /\ {s[i] : i \in 1..(m + 1)} \cap S = {s[i] : i \in 1..m} \cap S
        BY <3>1, <3>2, <3>4, Zenon
      <4>2. QED
        BY <2>3, <3>1, <3>3, <4>1, Zenon
    <3>5. CASE s[m + 1] \in S
      <4>1. PICK e : e = s[m + 1] /\ f[m + 1] = Append(f[m], e) /\ e \in X
        BY <2>2, <3>1, <3>2, <3>5, Zenon
      <4>2. {s[i] : i \in 1..(m + 1)} \cap S = ({s[i] : i \in 1..m} \cap S) \cup {e}
        BY <3>1, <3>5, <4>1, Zenon
      <4>3. Distinct(s) => e \notin {s[i] : i \in 1..m}
        BY <2>2, <3>1, <4>1, Zenon DEF Distinct
      <4>4. PICK v, w : v = f[m] /\ w = f[m + 1]
        BY Zenon
      <4>5. /\ w \in Seq(X) /\ Range(w) = Range(v) \cup {e}
            /\ Distinct(v) /\ e \notin Range(v) => Distinct(w)
        <5>1. v \in Seq(X) /\ e \in X /\ w = Append(v, e)
          BY <3>3, <4>1, <4>4, Zenon
        <5>2. QED
          BY <5>1, AppendList
      <4>6. QED
        BY <2>3, <3>1, <3>3, <4>2, <4>3, <4>4, <4>5, Zenon
    <3>6. QED
      BY <3>4, <3>5, Zenon
  <2>7. \A i \in 0..Len(s) : i \in D
    BY <2>2, <2>5, <2>6, Induction, Zenon
  <2>8. IsFilter(f, X, s, S)
    BY <2>3, <2>7, Zenon DEF IsFilter
  <2>9. QED
    BY <2>1, <2>8, Zenon
<1>3. QED
  BY <1>2, Zenon

LEMMA FilterList ==
  ASSUME NEW X, NEW s \in Seq(X), NEW S, NEW r, r = Filter(s, S)
  PROVE  /\ r \in Seq(X) /\ Range(r) = Range(s) \cap S
         /\ Distinct(s) => Distinct(r)
<1>1. PICK f : r = f[Len(s)] /\ IsFilter(f, X, s, S)
  BY FilterSteps, Zenon
<1>2. Len(s) \in 0..Len(s) /\ DOMAIN s = 1..Len(s)
  OBVIOUS
<1>3. Range(s) = {s[i] : i \in 1..Len(s)}
  BY <1>2, Zenon DEF Range
<1>4. QED
  BY <1>1, <1>2, <1>3, Zenon DEF IsFilter

-----------------------------------------------------------------------------
(***************************************************************************)
(* Children.                                                               *)
(***************************************************************************)

Ranking(kids, rank) ==
  /\ Cardinality(kids) \in Nat
  /\ \A i \in 1..Cardinality(kids) : \E k \in kids : rank[k] = i - 1
  /\ \A k \in kids : rank[k] + 1 \in 1..Cardinality(kids) /\ rank[k] \in Nat
  /\ \A a, b \in kids : rank[a] = rank[b] => a = b

LEMMA ChildrenList ==
  \A d, p :
    DOMAIN d \subseteq CharID /\ IsFiniteSet(DOMAIN d)
    => /\ Children(d, p) \in Seq(DOMAIN d) /\ Distinct(Children(d, p))
       /\ Range(Children(d, p)) = Kids(d, p)
<1>1. /\ \A a \in CharID : ~LessCharID(a, a)
      /\ \A a, b \in CharID : a # b => LessCharID(a, b) \/ LessCharID(b, a)
      /\ \A a, b, c \in CharID : LessCharID(a, b) /\ LessCharID(b, c) => LessCharID(a, c)
  <2>1. \A a, b \in CharID : a # b => a.siteID # b.siteID \/ a.counter # b.counter
    BY DEF CharID
  <2>2. \A a \in CharID : a.siteID \in Nat /\ a.counter \in Nat
    BY DEF CharID
  <2>3. \A a \in CharID : ~LessCharID(a, a)
    BY <2>2 DEF LessCharID
  <2>4. \A a, b \in CharID : a # b => LessCharID(a, b) \/ LessCharID(b, a)
    BY <2>1, <2>2 DEF LessCharID
  <2>5. \A a, b, c \in CharID : LessCharID(a, b) /\ LessCharID(b, c) => LessCharID(a, c)
    BY <2>2 DEF LessCharID
  <2>6. QED
    BY <2>3, <2>4, <2>5, Zenon
(* The rank of an ID among finitely many is the number of smaller ones. *)
<1>2. ASSUME NEW kids, kids \subseteq CharID, IsFiniteSet(kids),
             NEW rank, rank = [k \in kids |-> Cardinality({j \in kids : LessCharID(j, k)})]
      PROVE  Ranking(kids, rank)
  <2> USE <1>2
  <2>1. PICK n : n = Cardinality(kids) /\ n \in Nat
    BY FS_CardinalityType, Zenon
  <2>2. ASSUME NEW k \in kids, NEW B, B = {j \in kids : LessCharID(j, k)}
        PROVE  IsFiniteSet(B) /\ Cardinality(B) \in 0..(n - 1)
    <3>1. k \notin B /\ B \subseteq kids \ {k}
      BY <2>2, <1>1, Zenon
    <3>2. IsFiniteSet(kids \ {k}) /\ Cardinality(kids \ {k}) = n - 1
      BY <2>1, FS_RemoveElement
    <3>3. IsFiniteSet(B) /\ Cardinality(B) <= Cardinality(kids \ {k})
      BY <3>1, <3>2, FS_Subset
    <3>4. Cardinality(B) \in Nat
      BY <3>3, FS_CardinalityType, Zenon
    <3>5. QED
      BY <2>1, <3>2, <3>3, <3>4
  <2>3. ASSUME NEW a \in kids, NEW b \in kids, LessCharID(a, b) PROVE rank[a] # rank[b]
    <3>1. PICK A, B : /\ A = {j \in kids : LessCharID(j, a)} /\ rank[a] = Cardinality(A)
                      /\ B = {j \in kids : LessCharID(j, b)} /\ rank[b] = Cardinality(B)
      BY Zenon
    <3>2. a \in B /\ A \subseteq B \ {a}
      BY <2>3, <3>1, <1>1, Zenon
    <3>3. IsFiniteSet(A) /\ Cardinality(A) \in 0..(n - 1)
      BY <2>2, <3>1, Zenon
    <3>4. IsFiniteSet(B) /\ Cardinality(B) \in 0..(n - 1)
      BY <2>2, <3>1, Zenon
    <3>5. IsFiniteSet(B \ {a}) /\ Cardinality(B \ {a}) = Cardinality(B) - 1
      BY <3>2, <3>4, FS_RemoveElement
    <3>6. Cardinality(A) <= Cardinality(B \ {a})
      BY <3>2, <3>5, FS_Subset
    <3>7. QED
      BY <2>1, <3>1, <3>3, <3>4, <3>5, <3>6
  <2>4. rank \in [kids -> 0..(n - 1)]
    BY <2>2, Zenon
  <2>5. rank \in Injection(kids, 0..(n - 1))
    <3>1. \A a, b \in kids : a # b => rank[a] # rank[b]
      BY <2>3, <1>1, Zenon
    <3>2. QED
      BY <2>4, <3>1, ZenonT(60) DEF Injection, IsInjective
  <2>6. IsFiniteSet(0..(n - 1)) /\ Cardinality(0..(n - 1)) = n
    <3>1. 0 \in Int /\ n - 1 \in Int
      BY <2>1
    <3>2. /\ IsFiniteSet(0..(n - 1))
          /\ Cardinality(0..(n - 1)) = IF 0 > n - 1 THEN 0 ELSE (n - 1) - 0 + 1
      BY <3>1, FS_Interval, Zenon
    <3>3. QED
      BY <2>1, <3>2
  <2>7. rank \in Surjection(kids, 0..(n - 1))
    BY <2>1, <2>5, <2>6, FS_Injection, Zenon
  <2>8. \A i \in 0..(n - 1) : \E k \in kids : rank[k] = i
    BY <2>7, Zenon DEF Surjection
  <2>9. \A i \in 1..n : i - 1 \in 0..(n - 1)
    BY <2>1
  <2>10. \A k \in kids : rank[k] + 1 \in 1..n /\ rank[k] \in Nat
    BY <2>1, <2>4
  <2>11. \A a, b \in kids : rank[a] = rank[b] => a = b
    BY <2>3, <1>1, Zenon
  <2>12. QED
    BY <2>1, <2>8, <2>9, <2>10, <2>11, Zenon DEF Ranking
<1>3. ASSUME NEW kids, kids \subseteq CharID, IsFiniteSet(kids)
      PROVE  /\ ByID(kids) \in Seq(kids) /\ Distinct(ByID(kids)) /\ Range(ByID(kids)) = kids
  <2> USE <1>3
  <2>1. PICK r : r = ByID(kids)
    BY Zenon
  <2>2. PICK rank : rank = [k \in kids |-> Cardinality({j \in kids : LessCharID(j, k)})]
    BY Zenon
  <2>3. PICK n : n = Cardinality(kids)
    BY Zenon
  <2>4. /\ n \in Nat
        /\ \A i \in 1..n : \E k \in kids : rank[k] = i - 1
        /\ \A k \in kids : rank[k] + 1 \in 1..n /\ rank[k] \in Nat
        /\ \A a, b \in kids : rank[a] = rank[b] => a = b
    <3>1. Ranking(kids, rank)
      BY <2>2, <1>2, Zenon
    <3>2. QED
      BY <2>3, <3>1, Zenon DEF Ranking
  <2>5. r = [i \in 1..n |-> CHOOSE k \in kids : Cardinality({j \in kids : LessCharID(j, k)}) = i - 1]
    BY <2>1, <2>3, Zenon DEF ByID
  <2>6. \A i \in 1..n : r[i] \in kids /\ rank[r[i]] = i - 1
    <3>1. SUFFICES ASSUME NEW i \in 1..n PROVE r[i] \in kids /\ rank[r[i]] = i - 1
      BY Zenon
    <3>2. \E k \in kids : Cardinality({j \in kids : LessCharID(j, k)}) = i - 1
      BY <2>2, <2>4, Zenon
    <3>3. r[i] \in kids /\ Cardinality({j \in kids : LessCharID(j, r[i])}) = i - 1
      BY <2>5, <3>2, Zenon
    <3>4. QED
      BY <2>2, <3>3, Zenon
  <2>7. DOMAIN r = 1..n /\ r \in Seq(kids)
    <3>1. r \in [1..n -> kids]
      BY <2>5, <2>6, Zenon
    <3>2. QED
      BY <2>4, <3>1
  <2>8. Distinct(r)
    <3>1. \A i, j \in 1..n : i - 1 = j - 1 => i = j
      BY <2>4
    <3>2. QED
      BY <2>6, <2>7, <3>1, ZenonT(60) DEF Distinct
  <2>9. Range(r) = kids
    <3>1. \A k \in kids : (rank[k] + 1) - 1 = rank[k]
      BY <2>4
    <3>2. ASSUME NEW k \in kids PROVE rank[k] + 1 \in 1..n /\ r[rank[k] + 1] = k
      <4>1. PICK i : i = rank[k] + 1
        BY Zenon
      <4>2. i \in 1..n /\ i - 1 = rank[k]
        BY <2>4, <3>1, <4>1, Zenon
      <4>3. r[i] \in kids /\ rank[r[i]] = rank[k]
        BY <2>6, <4>2, Zenon
      <4>4. QED
        BY <2>4, <4>1, <4>2, <4>3, Zenon
    <3>3. QED
      BY <2>6, <2>7, <3>2, Zenon DEF Range
  <2>10. QED
    BY <2>1, <2>7, <2>8, <2>9, Zenon
<1>4. ASSUME NEW d, DOMAIN d \subseteq CharID, IsFiniteSet(DOMAIN d), NEW p
      PROVE  /\ Children(d, p) \in Seq(DOMAIN d) /\ Distinct(Children(d, p))
             /\ Range(Children(d, p)) = Kids(d, p)
  <2> USE <1>4
  <2>1. PICK kids, r : kids = Kids(d, p) /\ r = Children(d, p) /\ r = ByID(kids)
    BY Zenon DEF Children
  <2>2. kids \subseteq CharID /\ kids \subseteq DOMAIN d /\ IsFiniteSet(kids)
    <3>1. kids \subseteq DOMAIN d
      BY <2>1, Zenon DEF Kids
    <3>2. QED
      BY <3>1, FS_Subset, Zenon
  <2>3. ByID(kids) \in Seq(kids) /\ Distinct(ByID(kids)) /\ Range(ByID(kids)) = kids
    BY <2>2, <1>3
  <2>4. r \in Seq(DOMAIN d)
    BY <2>1, <2>2, <2>3
  <2>5. QED
    BY <2>1, <2>3, <2>4, Zenon
<1>5. QED
  BY <1>4, Zenon

-----------------------------------------------------------------------------
(***************************************************************************)
(* Base.                                                                   *)
(***************************************************************************)
IsTree(d) == DOMAIN d \subseteq CharID /\ IsFiniteSet(DOMAIN d)

ParentsFirst(d, l) ==
  \A i \in DOMAIN l : d[l[i]].leftID \in {l[j] : j \in 1..(i - 1)} \cup {NoID}

LEMMA ParentsFirstAppend ==
  ASSUME NEW X, NEW l \in Seq(X), NEW h \in X, NEW d, ParentsFirst(d, l),
         d[h].leftID \in Range(l) \cup {NoID}
  PROVE  ParentsFirst(d, Append(l, h))
<1>1. PICK r, m : r = Append(l, h) /\ m = Len(l)
  BY Zenon
<1>2. /\ m \in Nat /\ DOMAIN l = 1..m /\ DOMAIN r = 1..(m + 1)
      /\ \A i \in 1..m : r[i] = l[i]
      /\ r[m + 1] = h
  BY <1>1
<1>3. SUFFICES ASSUME NEW i \in 1..(m + 1)
               PROVE  d[r[i]].leftID \in {r[j] : j \in 1..(i - 1)} \cup {NoID}
  BY <1>1, <1>2, ZenonT(60) DEF ParentsFirst
<1>4. CASE i = m + 1
  <2>1. i - 1 = m
    BY <1>2, <1>4
  <2>2. QED
    BY <1>2, <1>4, <2>1, ZenonT(60) DEF Range
<1>5. CASE i # m + 1
  <2>1. i \in 1..m /\ \A j \in 1..(i - 1) : j \in 1..m
    BY <1>2, <1>5
  <2>2. d[l[i]].leftID \in {l[j] : j \in 1..(i - 1)} \cup {NoID}
    BY <1>2, <2>1, Zenon DEF ParentsFirst
  <2>3. QED
    BY <1>2, <2>1, <2>2, ZenonT(60)
<1>6. QED
  BY <1>4, <1>5, Zenon

(* What holds after n visits: l are listed, st have yet to be. *)
Walk(d, l, st, n) ==
  /\ l \in Seq(DOMAIN d) /\ st \in Seq(DOMAIN d)
  /\ Distinct(l) /\ Distinct(st) /\ Range(l) \cap Range(st) = {}
  /\ ParentsFirst(d, l)
  /\ \A x \in Range(st) : d[x].leftID \in Range(l) \cup {NoID}
  /\ \A x \in DOMAIN d : d[x].leftID \in Range(l) \cup {NoID} => x \in Range(l) \cup Range(st)
  /\ st # <<>> => Len(l) = n

(* The visits that the recursion of Base makes. *)
VisitStep(d, w) ==
  IF w.stack = <<>> THEN w
  ELSE [listed |-> Append(w.listed, Head(w.stack)),
        stack |-> Children(d, Head(w.stack)) \o Tail(w.stack)]

(* Base lists every character reached from the root once, after its parent. *)
LEMMA BaseList ==
  \A d :
    IsTree(d)
    => /\ Base(d) \in Seq(DOMAIN d) /\ Distinct(Base(d)) /\ Range(Base(d)) = Reachable(d)
       /\ ParentsFirst(d, Base(d))
<1>1. ASSUME NEW X, NEW s \in Seq(X), s # <<>>
      PROVE  /\ Head(s) \in X /\ Tail(s) \in Seq(X) /\ Range(s) = Range(Tail(s)) \cup {Head(s)}
             /\ Distinct(s) => Distinct(Tail(s)) /\ Head(s) \notin Range(Tail(s))
  <2> USE <1>1
  <2>1. PICK h, r : h = Head(s) /\ r = Tail(s)
    BY Zenon
  <2>2. /\ h \in X /\ r \in Seq(X) /\ h = s[1] /\ 1 \in DOMAIN s
        /\ \A i \in DOMAIN r : i + 1 \in DOMAIN s /\ i + 1 # 1 /\ r[i] = s[i + 1]
        /\ \A i \in DOMAIN s : i = 1 \/ (i - 1 \in DOMAIN r /\ r[i - 1] = s[i])
        /\ \A i, j \in DOMAIN r : i + 1 = j + 1 => i = j
    BY <2>1
  <2>3. Range(s) = Range(r) \cup {h}
    <3>1. Range(r) \cup {h} \subseteq Range(s)
      BY <2>2 DEF Range
    <3>2. Range(s) \subseteq Range(r) \cup {h}
      <4>1. \A i \in DOMAIN s : s[i] = h \/ \E j \in DOMAIN r : r[j] = s[i]
        BY <2>2, Zenon
      <4>2. QED
        BY <4>1, Zenon DEF Range
    <3>3. QED
      BY <3>1, <3>2, Zenon
  <2>4. Distinct(s) => h \notin Range(r)
    BY <2>2 DEF Range, Distinct
  <2>5. Distinct(s) => Distinct(r)
    BY <2>2 DEF Distinct
  <2>6. QED
    BY <2>1, <2>2, <2>3, <2>4, <2>5, Zenon
<1>2. ASSUME NEW d, IsTree(d), NEW l, NEW st, NEW n \in Nat, Walk(d, l, st, n), st # <<>>
      PROVE  Walk(d, Append(l, Head(st)), Children(d, Head(st)) \o Tail(st), n + 1)
  <2> USE <1>2
  <2>1. PICK h, rest, kids, l2, st2 :
          /\ h = Head(st) /\ rest = Tail(st) /\ kids = Children(d, h)
          /\ l2 = Append(l, h) /\ st2 = kids \o rest
    BY Zenon
  <2>2. PICK X : X = DOMAIN d
    BY Zenon
  <2>3. l \in Seq(X) /\ st \in Seq(X)
    BY <2>2, Zenon DEF Walk
  <2>4. /\ h \in X /\ rest \in Seq(X) /\ Range(st) = Range(rest) \cup {h}
        /\ Distinct(rest) /\ h \notin Range(rest)
    <3>1. /\ Head(st) \in X /\ Tail(st) \in Seq(X) /\ Range(st) = Range(Tail(st)) \cup {Head(st)}
          /\ Distinct(st) => Distinct(Tail(st)) /\ Head(st) \notin Range(Tail(st))
      BY <2>3, <1>1
    <3>2. QED
      BY <2>1, <3>1, Zenon DEF Walk
  <2>5. /\ kids \in Seq(X) /\ Distinct(kids)
        /\ \A x : x \in Range(kids) <=> x \in X /\ d[x].leftID = h
    <3>1. /\ Children(d, h) \in Seq(DOMAIN d) /\ Distinct(Children(d, h))
          /\ Range(Children(d, h)) = Kids(d, h)
      BY ChildrenList DEF IsTree
    <3>2. QED
      BY <2>1, <2>2, <3>1, Zenon DEF Kids
  <2>6. h \in Range(st) /\ h \notin Range(l) /\ h # NoID
    BY <2>2, <2>4, NoIDAssumption, Zenon DEF Walk, IsTree
  <2>7. /\ l2 \in Seq(X) /\ Len(l2) = Len(l) + 1 /\ Range(l2) = Range(l) \cup {h}
        /\ Distinct(l2)
    <3>1. /\ Append(l, h) \in Seq(X) /\ Len(Append(l, h)) = Len(l) + 1
          /\ Range(Append(l, h)) = Range(l) \cup {h}
          /\ Distinct(l) /\ h \notin Range(l) => Distinct(Append(l, h))
      BY <2>3, <2>4, AppendList
    <3>2. QED
      BY <2>1, <2>6, <3>1, Zenon DEF Walk
  <2>8. Range(kids) \cap Range(rest) = {} /\ Range(kids) \cap Range(l2) = {}
    <3>1. \A x \in Range(l) \cup Range(st) : d[x].leftID # h
      <4>1. \A x \in Range(st) : d[x].leftID # h
        BY <2>6, Zenon DEF Walk
      <4>2. \A x \in Range(l) : d[x].leftID \in Range(l) \cup {NoID}
        <5>1. \A i \in DOMAIN l : \A j \in 1..(i - 1) : j \in DOMAIN l
          BY <2>3
        <5>2. QED
          BY <5>1, ZenonT(60) DEF Range, Walk, ParentsFirst
      <4>3. QED
        BY <2>6, <4>1, <4>2, Zenon
    <3>2. QED
      BY <2>4, <2>5, <2>6, <2>7, <3>1, ZenonT(60)
  <2>9. /\ st2 \in Seq(X) /\ Range(st2) = Range(kids) \cup Range(rest) /\ Distinct(st2)
    <3>1. /\ kids \o rest \in Seq(X) /\ Range(kids \o rest) = Range(kids) \cup Range(rest)
          /\ Distinct(kids) /\ Distinct(rest) /\ Range(kids) \cap Range(rest) = {}
               => Distinct(kids \o rest)
      BY <2>4, <2>5, ConcatList
    <3>2. QED
      BY <2>1, <2>4, <2>5, <2>8, <3>1, Zenon
  <2>10. Range(l2) \cap Range(st2) = {}
    BY <2>4, <2>6, <2>7, <2>8, <2>9, Zenon DEF Walk
  <2>11. ParentsFirst(d, l2)
    <3>1. d[h].leftID \in Range(l) \cup {NoID} /\ ParentsFirst(d, l)
      BY <2>6, Zenon DEF Walk
    <3>2. QED
      BY <2>1, <2>3, <2>4, <3>1, ParentsFirstAppend, Zenon
  <2>12. \A x \in Range(st2) : d[x].leftID \in Range(l2) \cup {NoID}
    BY <2>4, <2>5, <2>7, <2>9, Zenon DEF Walk
  <2>13. ASSUME NEW x \in DOMAIN d, d[x].leftID \in Range(l2) \cup {NoID}
         PROVE  x \in Range(l2) \cup Range(st2)
    BY <2>2, <2>4, <2>5, <2>7, <2>9, <2>13, Zenon DEF Walk
  <2>14. Len(l2) = n + 1
    BY <2>7 DEF Walk
  <2>15. Walk(d, l2, st2, n + 1)
    BY <2>2, <2>7, <2>9, <2>10, <2>11, <2>12, <2>13, <2>14, Zenon DEF Walk
  <2>16. QED
    BY <2>1, <2>15, Zenon
<1>3. ASSUME NEW d, IsTree(d)
      PROVE  \E f : /\ f[0] = [listed |-> <<>>, stack |-> Children(d, NoID)]
                    /\ \A n \in 1..Cardinality(DOMAIN d) : f[n] = VisitStep(d, f[n - 1])
                    /\ Base(d) = f[Cardinality(DOMAIN d)].listed
  <2> USE <1>3
  <2>1. PICK size, X : size = Cardinality(DOMAIN d) /\ X = DOMAIN d
    BY Zenon
  <2>2. size \in Nat
    BY <2>1, FS_CardinalityType, Zenon DEF IsTree
  <2>3. \A p : Children(d, p) \in Seq(X)
    <3>1. ASSUME NEW p PROVE Children(d, p) \in Seq(DOMAIN d)
      BY ChildrenList DEF IsTree
    <3>2. QED
      BY <2>1, <3>1, Zenon
  <2>4. PICK V : V = [listed : Seq(X), stack : Seq(X)]
    BY Zenon
  <2>5. PICK e : e = [listed |-> <<>>, stack |-> Children(d, NoID)]
    BY Zenon
  <2>6. e \in V
    BY <2>3, <2>4, <2>5
  <2>7. PICK G : G = [n \in 1..size |-> [w \in V |-> VisitStep(d, w)]]
    BY Zenon
  <2>8. \A w \in V : VisitStep(d, w) \in V
    <3>1. SUFFICES ASSUME NEW w \in V, w.stack # <<>> PROVE VisitStep(d, w) \in V
      BY Zenon DEF VisitStep
    <3>2. PICK h, r, l : h = Head(w.stack) /\ r = Tail(w.stack) /\ l = Append(w.listed, h)
      BY Zenon
    <3>3. w.listed \in Seq(X) /\ w.stack \in Seq(X)
      BY <2>4
    <3>4. h \in X /\ r \in Seq(X) /\ l \in Seq(X)
      BY <3>1, <3>2, <3>3
    <3>5. Children(d, h) \o r \in Seq(X)
      <4>1. PICK k : k = Children(d, h) /\ k \in Seq(X)
        BY <2>3, Zenon
      <4>2. k \o r \in Seq(X)
        BY <3>4, <4>1
      <4>3. QED
        BY <4>1, <4>2, Zenon
    <3>6. [listed |-> l, stack |-> Children(d, h) \o r] \in V
      BY <2>4, <3>4, <3>5
    <3>7. QED
      BY <3>1, <3>2, <3>6, Zenon DEF VisitStep
  <2>9. \A n \in 1..size : \A w \in V : G[n][w] = VisitStep(d, w) /\ G[n][w] \in V
    BY <2>7, <2>8, Zenon
  <2>10. PICK f : IsLoop(f, size, V, e, G)
    BY <2>2, <2>6, <2>9, Recursion, Zenon
  <2>11. \A n \in 1..size : f[n - 1] \in V /\ f[n] = VisitStep(d, f[n - 1])
    <3>1. \A n \in 1..size : n - 1 \in 0..size
      BY <2>2
    <3>2. QED
      BY <2>9, <2>10, <3>1, Zenon DEF IsLoop
  <2>12. \A n \in 0..size : f[n] = IF n = 0 THEN e ELSE VisitStep(d, f[n - 1])
    <3>1. \A n \in 0..size : n = 0 \/ (n \in 1..size /\ n # 0)
      BY <2>2
    <3>2. QED
      BY <2>10, <2>11, <3>1, Zenon DEF IsLoop
  <2>13. f = [n \in 0..size |-> IF n = 0 THEN e ELSE VisitStep(d, f[n - 1])]
    BY <2>10, <2>12, Zenon DEF IsLoop
  <2>14. PICK g : /\ g = [n \in 0..Cardinality(DOMAIN d) |->
                            IF n = 0 THEN [listed |-> <<>>, stack |-> Children(d, NoID)]
                            ELSE VisitStep(d, g[n - 1])]
                  /\ Base(d) = g[Cardinality(DOMAIN d)].listed
    BY <2>1, <2>5, <2>13, ZenonT(60) DEF Base, VisitStep
  <2>15. \A n \in 0..size : g[n] = IF n = 0 THEN e ELSE VisitStep(d, g[n - 1])
    BY <2>1, <2>5, <2>14, Zenon
  <2>16. 0 \in 0..size /\ \A n \in 1..size : n \in 0..size /\ n # 0
    BY <2>2
  <2>17. g[0] = e /\ \A n \in 1..size : g[n] = VisitStep(d, g[n - 1])
    BY <2>15, <2>16, Zenon
  <2>18. QED
    BY <2>1, <2>5, <2>14, <2>17, Zenon
<1>4. ASSUME NEW d, IsTree(d)
      PROVE  \E st : Walk(d, Base(d), st, Cardinality(DOMAIN d))
  <2> USE <1>4
  <2>1. PICK f : /\ f[0] = [listed |-> <<>>, stack |-> Children(d, NoID)]
                 /\ \A n \in 1..Cardinality(DOMAIN d) : f[n] = VisitStep(d, f[n - 1])
                 /\ Base(d) = f[Cardinality(DOMAIN d)].listed
    BY <1>3
  <2>2. PICK size : size = Cardinality(DOMAIN d) /\ size \in Nat
    BY FS_CardinalityType, Zenon DEF IsTree
  <2>3. PICK D : D = {n \in 0..size : Walk(d, f[n].listed, f[n].stack, n)}
    BY Zenon
  <2>4. 0 \in D
    <3>1. PICK st : st = Children(d, NoID)
      BY Zenon
    <3>2. /\ st \in Seq(DOMAIN d) /\ Distinct(st)
          /\ \A x : x \in Range(st) <=> x \in DOMAIN d /\ d[x].leftID = NoID
      <4>1. /\ Children(d, NoID) \in Seq(DOMAIN d) /\ Distinct(Children(d, NoID))
            /\ Range(Children(d, NoID)) = Kids(d, NoID)
        BY ChildrenList DEF IsTree
      <4>2. QED
        BY <3>1, <4>1, Zenon DEF Kids
    <3>3. PICK e : e = <<>> /\ e \in Seq(DOMAIN d) /\ Range(e) = {} /\ Distinct(e) /\ Len(e) = 0
      BY EmptyList, Zenon
    <3>4. DOMAIN e = {}
      BY <3>3
    <3>5. ParentsFirst(d, e)
      BY <3>4, Zenon DEF ParentsFirst
    <3>6. Walk(d, e, st, 0)
      BY <3>2, <3>3, <3>5, Zenon DEF Walk
    <3>7. f[0].listed = e /\ f[0].stack = st /\ 0 \in 0..size
      BY <2>1, <2>2, <3>1, <3>3
    <3>8. QED
      BY <2>3, <3>6, <3>7, Zenon
  <2>5. ASSUME NEW n \in 0..(size - 1), n \in D PROVE n + 1 \in D
    <3>1. n \in Nat /\ n + 1 \in 0..size /\ n + 1 \in 1..size /\ (n + 1) - 1 = n
      BY <2>2
    <3>2. PICK w, v : w = f[n] /\ v = f[n + 1]
      BY Zenon
    <3>3. v = VisitStep(d, w)
      BY <2>1, <2>2, <3>1, <3>2, Zenon
    <3>4. Walk(d, w.listed, w.stack, n)
      BY <2>3, <2>5, <3>2, Zenon
    <3>5. CASE w.stack = <<>>
      <4>1. v = w
        BY <3>3, <3>5, Zenon DEF VisitStep
      <4>2. Walk(d, v.listed, v.stack, n + 1)
        BY <3>4, <3>5, <4>1, Zenon DEF Walk
      <4>3. QED
        BY <2>3, <3>1, <3>2, <4>2, Zenon
    <3>6. CASE w.stack # <<>>
      <4>1. Walk(d, Append(w.listed, Head(w.stack)),
                 Children(d, Head(w.stack)) \o Tail(w.stack), n + 1)
        BY <3>1, <3>4, <3>6, <1>2, Zenon
      <4>2. /\ v.listed = Append(w.listed, Head(w.stack))
            /\ v.stack = Children(d, Head(w.stack)) \o Tail(w.stack)
        BY <3>3, <3>6, Zenon DEF VisitStep
      <4>3. QED
        BY <2>3, <3>1, <3>2, <4>1, <4>2, Zenon
    <3>7. QED
      BY <3>5, <3>6, Zenon
  <2>6. size \in D
    <3>1. \A i \in 0..size : i \in D
      BY <2>2, <2>4, <2>5, Induction, Zenon
    <3>2. size \in 0..size
      BY <2>2
    <3>3. QED
      BY <3>1, <3>2, Zenon
  <2>7. QED
    BY <2>1, <2>2, <2>3, <2>6, Zenon
<1>5. ASSUME NEW d, IsTree(d)
      PROVE  /\ Base(d) \in Seq(DOMAIN d) /\ Distinct(Base(d)) /\ Range(Base(d)) = Reachable(d)
             /\ ParentsFirst(d, Base(d))
  <2> USE <1>5
  <2>1. PICK st : Walk(d, Base(d), st, Cardinality(DOMAIN d))
    BY <1>4, Zenon
  <2>2. PICK l, size : l = Base(d) /\ size = Cardinality(DOMAIN d)
    BY Zenon
  <2>3. /\ l \in Seq(DOMAIN d) /\ Distinct(l) /\ ParentsFirst(d, l) /\ size \in Nat
        /\ st \in Seq(DOMAIN d) /\ Walk(d, l, st, size)
    BY <2>1, <2>2, FS_CardinalityType, Zenon DEF Walk, IsTree
  <2>4. Len(l) \in Nat /\ DOMAIN l = 1..Len(l)
    BY <2>3
  <2>5. st = <<>>
    <3>1. SUFFICES ASSUME st # <<>> PROVE FALSE
      BY Zenon
    <3>2. PICK h : h \in DOMAIN d /\ h \in Range(st)
      <4>1. Head(st) \in DOMAIN d /\ Range(st) = Range(Tail(st)) \cup {Head(st)}
        BY <2>3, <3>1, <1>1
      <4>2. QED
        BY <4>1, Zenon
    <3>3. Len(l) = size /\ h \notin Range(l)
      BY <2>3, <3>1, <3>2, Zenon DEF Walk
    <3>4. l \in Injection(1..size, DOMAIN d)
      <4>1. l \in [1..size -> DOMAIN d]
        BY <2>3, <3>3
      <4>2. QED
        BY <2>3, <4>1, Zenon DEF Injection, IsInjective, Distinct
    <3>5. Cardinality(1..size) = size
      <4>1. 1 \in Int /\ size \in Int
        BY <2>3
      <4>2. Cardinality(1..size) = IF 1 > size THEN 0 ELSE size - 1 + 1
        BY <4>1, FS_Interval, Zenon
      <4>3. QED
        BY <2>3, <4>2
    <3>6. l \in Surjection(1..size, DOMAIN d)
      BY <2>2, <3>4, <3>5, FS_Injection, Zenon DEF IsTree
    <3>7. \E i \in 1..size : l[i] = h
      BY <3>2, <3>6, Zenon DEF Surjection
    <3>8. QED
      BY <2>4, <3>3, <3>7, Zenon DEF Range
  <2>6. Range(st) = {}
    BY <2>5, EmptyList, Zenon
  <2>7. Range(l) \subseteq DOMAIN d
    BY <2>3, ListRange, Zenon
  <2>8. Reachable(d) \subseteq Range(l)
    <3>1. ClosedUnderChildren(d, Range(l))
      BY <2>3, <2>6, Zenon DEF Walk, ClosedUnderChildren
    <3>2. QED
      BY <2>7, <3>1, Zenon DEF Reachable
  <2>9. ASSUME NEW S \in SUBSET DOMAIN d, ClosedUnderChildren(d, S) PROVE Range(l) \subseteq S
    <3>1. SUFFICES ASSUME NEW j \in DOMAIN l, l[j] \notin S PROVE FALSE
      BY Zenon DEF Range
    <3>2. PICK T : T = {i \in DOMAIN l : l[i] \notin S}
      BY Zenon
    <3>3. T \subseteq Nat /\ T # {}
      BY <2>4, <3>1, <3>2
    <3>4. PICK i \in T : \A m \in T : i <= m
      BY <3>3, LeastNumber, Zenon
    <3>5. \A m \in 1..(i - 1) : m \in DOMAIN l /\ ~(i <= m)
      BY <2>4, <3>2, <3>4
    <3>6. \A m \in 1..(i - 1) : l[m] \in S
      BY <3>2, <3>4, <3>5, Zenon
    <3>7. i \in DOMAIN l /\ l[i] \notin S /\ l[i] \in DOMAIN d
      BY <2>3, <3>2, <3>4
    <3>8. d[l[i]].leftID \in S \cup {NoID}
      BY <2>3, <3>6, <3>7, Zenon DEF ParentsFirst
    <3>9. QED
      BY <2>9, <3>7, <3>8, Zenon DEF ClosedUnderChildren
  <2>10. Range(l) = Reachable(d)
    BY <2>7, <2>8, <2>9, Zenon DEF Reachable
  <2>11. QED
    BY <2>2, <2>3, <2>10, Zenon
<1>6. QED
  BY <1>5, Zenon

-----------------------------------------------------------------------------
(***************************************************************************)
(* Sorted.                                                                 *)
(***************************************************************************)
ReadyAt(base, edges, out) ==
  {i \in 1..Len(base) : /\ base[i] \notin out
                        /\ \A e \in edges : e[2] = base[i] => e[1] \in out}

FirstOf(next) == CHOOSE i \in next : \A j \in next : i <= j

SortStep(base, edges, out) ==
  IF ReadyAt(base, edges, Range(out)) = {} THEN out
  ELSE Append(out, base[FirstOf(ReadyAt(base, edges, Range(out)))])

(* A list of distinct members that is as long as another list of all of    *)
(* them has them all.                                                      *)
LEMMA FullList ==
  \A B : \A base, v \in Seq(B) :
    B = Range(base) /\ Distinct(v) /\ Len(v) = Len(base) => Range(v) = B
<1> SUFFICES ASSUME NEW B, NEW base \in Seq(B), NEW v \in Seq(B),
                    B = Range(base), Distinct(v), Len(v) = Len(base)
             PROVE  Range(v) = B
  BY Zenon
<1>1. PICK l \in Nat : l = Len(v) /\ DOMAIN v = 1..l /\ DOMAIN base = 1..l
  OBVIOUS
<1>2. IsFiniteSet(1..l) /\ Cardinality(1..l) = l
  BY FS_Interval, SMT, SMTT(30)
<1>3. base \in Surjection(1..l, B)
  BY <1>1 DEF Surjection, Range
<1>4. IsFiniteSet(B) /\ Cardinality(B) <= l
  BY <1>2, <1>3, FS_Surjection
<1>5. v \in Bijection(1..l, Range(v))
  <2>1. v \in [1..l -> Range(v)] /\ \A y \in Range(v) : \E i \in 1..l : v[i] = y
    BY <1>1 DEF Range
  <2>2. \A i, j \in 1..l : v[i] = v[j] => i = j
    BY <1>1, Zenon DEF Distinct
  <2>3. QED
    BY <2>1, <2>2, Zenon DEF Bijection, Injection, Surjection, IsInjective
<1>6. IsFiniteSet(Range(v)) /\ Cardinality(Range(v)) = l
  BY <1>2, <1>5, FS_Bijection DEF ExistsBijection
<1>7. Range(v) \subseteq B
  BY <1>1 DEF Range
<1>8. Cardinality(Range(v)) <= Cardinality(B) /\ (Cardinality(Range(v)) = Cardinality(B) => Range(v) = B)
  BY <1>4, <1>7, FS_Subset, Zenon
<1>9. Cardinality(B) \in Nat
  BY <1>4, FS_CardinalityType, Zenon
<1>10. QED
  BY <1>4, <1>6, <1>8, <1>9

EdgesRespected(edges, list) ==
  \A i \in DOMAIN list : \A e \in edges : e[2] = list[i] => \E j \in 1..(i - 1) : list[j] = e[1]

IsSorting(d, edges, B, v) ==
  v \in Seq(B) /\ Distinct(v) /\ ParentsFirst(d, v) /\ EdgesRespected(edges, v)

UpTo(n, base, edges, v) == ReadyAt(base, edges, Range(v)) = {} \/ Len(v) = n

(* Sorted lists members of base once each, behind their predecessors, and  *)
(* leaves out only those that wait for another one it left out.            *)
LEMMA SortedList ==
  \A d, X : \A base \in Seq(X) :
    ParentsFirst(d, base)
    => /\ Sorted(d, base) \in Seq(Range(base)) /\ Distinct(Sorted(d, base))
       /\ ParentsFirst(d, Sorted(d, base))
       /\ EdgesRespected(Edges(d, base), Sorted(d, base))
       /\ ReadyAt(base, Edges(d, base), Range(Sorted(d, base))) = {}
<1>1. ASSUME NEW base, NEW edges, NEW out, Len(base) \in Nat, ReadyAt(base, edges, out) # {}
      PROVE  FirstOf(ReadyAt(base, edges, out)) \in ReadyAt(base, edges, out)
  <2> USE <1>1
  <2>1. PICK next : next = ReadyAt(base, edges, out)
    BY Zenon
  <2>2. next \subseteq Nat
    BY <2>1 DEF ReadyAt
  <2>3. \E i \in next : \A j \in next : i <= j
    BY <2>1, <2>2, LeastNumber, Zenon
  <2>4. QED
    BY <2>1, <2>3, Zenon DEF FirstOf
<1>2. ASSUME NEW d, NEW X, NEW base \in Seq(X)
      PROVE  \E f : /\ f[0] = <<>>
                    /\ \A n \in 1..Len(base) : f[n] = SortStep(base, Edges(d, base), f[n - 1])
                    /\ Sorted(d, base) = f[Len(base)]
  <2>1. PICK l, V, a : l = Len(base) /\ V = Seq(X) /\ a = <<>> /\ l \in Nat /\ a \in V
    <3>1. Len(base) \in Nat /\ <<>> \in Seq(X)
      OBVIOUS
    <3>2. QED
      BY <3>1, Zenon
  <2>2. PICK edges : edges = Edges(d, base)
    BY Zenon
  <2>3. PICK G : G = [n \in 1..l |-> [v \in V |-> SortStep(base, edges, v)]]
    BY Zenon
  <2>4. \A v \in V : SortStep(base, edges, v) \in V
    <3>1. SUFFICES ASSUME NEW v \in V, ReadyAt(base, edges, Range(v)) # {}
                   PROVE  SortStep(base, edges, v) \in V
      BY Zenon DEF SortStep
    <3>2. PICK i : i = FirstOf(ReadyAt(base, edges, Range(v)))
      BY Zenon
    <3>3. i \in 1..Len(base)
      <4>1. Len(base) \in Nat
        BY <2>1, Zenon
      <4>2. i \in ReadyAt(base, edges, Range(v))
        BY <3>1, <3>2, <4>1, <1>1, Zenon
      <4>3. QED
        BY <4>2, Zenon DEF ReadyAt
    <3>4. Append(v, base[i]) \in V
      BY <2>1, <3>3
    <3>5. QED
      BY <3>1, <3>2, <3>4, Zenon DEF SortStep
  <2>5. \A n \in 1..l : \A v \in V : G[n][v] = SortStep(base, edges, v) /\ G[n][v] \in V
    BY <2>3, <2>4, Zenon
  <2>6. PICK f : IsLoop(f, l, V, a, G)
    <3>1. l \in Nat /\ a \in V
      BY <2>1, Zenon
    <3>2. QED
      BY <2>5, <3>1, Recursion, Zenon
  <2>7. \A n \in 0..l : f[n] = IF n = 0 THEN a ELSE SortStep(base, edges, f[n - 1])
    <3>1. \A n \in 0..l : n = 0 \/ (n \in 1..l /\ n # 0 /\ n - 1 \in 0..l)
      BY <2>1
    <3>2. QED
      BY <2>5, <2>6, <3>1, ZenonT(60) DEF IsLoop
  <2>8. f = [n \in 0..l |-> IF n = 0 THEN a ELSE SortStep(base, edges, f[n - 1])]
    BY <2>6, <2>7, Zenon DEF IsLoop
  <2>9. PICK g : /\ g = [n \in 0..Len(base) |-> IF n = 0 THEN <<>>
                           ELSE SortStep(base, Edges(d, base), g[n - 1])]
                 /\ Sorted(d, base) = g[Len(base)]
    <3>1. f = [n \in 0..Len(base) |-> IF n = 0 THEN <<>>
                 ELSE SortStep(base, Edges(d, base), f[n - 1])]
      BY <2>1, <2>2, <2>8, Zenon
    <3>2. Sorted(d, base) =
            (CHOOSE g : g = [n \in 0..Len(base) |-> IF n = 0 THEN <<>>
                               ELSE SortStep(base, Edges(d, base), g[n - 1])])[Len(base)]
      BY Zenon DEF Sorted, SortStep, ReadyAt, FirstOf
    <3>3. QED
      BY <3>1, <3>2, Zenon
  <2>10. \A n \in 0..Len(base) : g[n] = IF n = 0 THEN <<>>
                                       ELSE SortStep(base, Edges(d, base), g[n - 1])
    BY <2>9, Zenon
  <2>11. 0 \in 0..Len(base) /\ \A n \in 1..Len(base) : n \in 0..Len(base) /\ n # 0
    BY <2>1
  <2>12. QED
    BY <2>9, <2>10, <2>11, Zenon
<1>3. ASSUME NEW d, NEW X, NEW base \in Seq(X), ParentsFirst(d, base)
      PROVE  /\ Sorted(d, base) \in Seq(Range(base)) /\ Distinct(Sorted(d, base))
             /\ ParentsFirst(d, Sorted(d, base))
             /\ EdgesRespected(Edges(d, base), Sorted(d, base))
             /\ ReadyAt(base, Edges(d, base), Range(Sorted(d, base))) = {}
  <2> USE <1>3
  <2>1. PICK B, l : B = Range(base) /\ l = Len(base)
    BY Zenon
  <2>2. base \in Seq(B) /\ l \in Nat /\ DOMAIN base = 1..l
    BY <2>1, ListRange, Zenon
  <2>3. PICK edges : edges = Edges(d, base)
    BY Zenon
  <2>4. PICK f : /\ f[0] = <<>>
                 /\ \A n \in 1..l : f[n] = SortStep(base, edges, f[n - 1])
                 /\ Sorted(d, base) = f[l]
    BY <2>1, <2>3, <1>2, Zenon
  <2>5. \A x \in B : d[x].leftID \in B \cup {NoID}
    <3>1. \A i \in 1..l : \A j \in 1..(i - 1) : j \in 1..l
      BY <2>2
    <3>2. QED
      <4>1. ASSUME NEW x \in B PROVE d[x].leftID \in B \cup {NoID}
        <5>1. PICK i \in 1..l : x = base[i]
          BY <2>1, <2>2, Zenon DEF Range
        <5>2. d[base[i]].leftID # NoID => \E j \in 1..(i - 1) : base[j] = d[base[i]].leftID
          BY <2>2, Zenon DEF ParentsFirst
        <5>3. \A j \in 1..l : base[j] \in B
          BY <2>1, <2>2, Zenon DEF Range
        <5>4. QED
          BY <3>1, <5>1, <5>2, <5>3, Zenon
      <4>2. QED
        BY <4>1, Zenon
  <2>6. \A x \in B : d[x].leftID \in B => \E e \in edges : e[1] = d[x].leftID /\ e[2] = x
    <3>1. \A x \in B : d[x].leftID \in B => <<d[x].leftID, x>> \in edges
      BY <2>1, <2>3, Zenon DEF Edges
    <3>2. \A a, b : <<a, b>>[1] = a /\ <<a, b>>[2] = b
      OBVIOUS
    <3>3. QED
      BY <3>1, <3>2, Zenon
  <2>7. PICK D : D = {n \in 0..l : IsSorting(d, edges, B, f[n]) /\ UpTo(n, base, edges, f[n])}
    BY Zenon
  <2>8. 0 \in D
    <3>1. PICK e : e = <<>> /\ e \in Seq(B) /\ Distinct(e)
      BY EmptyList, Zenon
    <3>2. DOMAIN e = {} /\ Len(e) = 0 /\ 0 \in 0..l
      BY <2>2, <3>1
    <3>3. ParentsFirst(d, e) /\ EdgesRespected(edges, e)
      BY <3>2, Zenon DEF ParentsFirst, EdgesRespected
    <3>4. IsSorting(d, edges, B, e) /\ UpTo(0, base, edges, e)
      BY <3>1, <3>2, <3>3, Zenon DEF IsSorting, UpTo
    <3>5. f[0] = e
      BY <2>4, <3>1, Zenon
    <3>6. QED
      BY <2>7, <3>2, <3>4, <3>5, Zenon
  <2>9. ASSUME NEW n \in 0..(l - 1), n \in D PROVE n + 1 \in D
    <3>1. n + 1 \in 0..l /\ n + 1 \in 1..l /\ (n + 1) - 1 = n
      BY <2>2
    <3>2. PICK v, w : v = f[n] /\ w = f[n + 1]
      BY Zenon
    <3>3. /\ w = SortStep(base, edges, v) /\ v \in Seq(B) /\ Distinct(v) /\ ParentsFirst(d, v)
          /\ EdgesRespected(edges, v) /\ (ReadyAt(base, edges, Range(v)) = {} \/ Len(v) = n)
      <4>1. IsSorting(d, edges, B, v) /\ UpTo(n, base, edges, v)
        BY <2>7, <2>9, <3>2, Zenon
      <4>2. w = SortStep(base, edges, v)
        BY <2>4, <3>1, <3>2, Zenon
      <4>3. QED
        BY <4>1, <4>2, Zenon DEF IsSorting, UpTo
    <3>4. CASE ReadyAt(base, edges, Range(v)) = {}
      <4>1. w = v
        BY <3>3, <3>4, Zenon DEF SortStep
      <4>2. IsSorting(d, edges, B, w) /\ UpTo(n + 1, base, edges, w)
        BY <3>3, <3>4, <4>1, Zenon DEF IsSorting, UpTo
      <4>3. QED
        BY <2>7, <3>1, <3>2, <4>2, Zenon
    <3>5. CASE ReadyAt(base, edges, Range(v)) # {}
      <4>1. PICK i : i = FirstOf(ReadyAt(base, edges, Range(v)))
        BY Zenon
      <4>2. i \in ReadyAt(base, edges, Range(v))
        <5>1. Len(base) \in Nat
          BY <2>1, <2>2, Zenon
        <5>2. QED
          BY <3>5, <4>1, <5>1, <1>1, Zenon
      <4>3. PICK x : x = base[i]
        BY Zenon
      <4>4. /\ x \in B /\ x \notin Range(v) /\ \A e \in edges : e[2] = x => e[1] \in Range(v)
        BY <2>1, <2>2, <4>2, <4>3, Zenon DEF ReadyAt, Range
      <4>5. w = Append(v, x)
        BY <3>3, <3>5, <4>1, <4>3, ZenonT(60) DEF SortStep
      <4>6. Append(v, x) \in Seq(B) /\ Distinct(Append(v, x))
        BY <3>3, <4>4, AppendList
      <4>7. d[x].leftID \in Range(v) \cup {NoID}
        BY <2>5, <2>6, <4>4, Zenon
      <4>8. ParentsFirst(d, Append(v, x))
        BY <3>3, <4>4, <4>7, ParentsFirstAppend, Zenon
      <4>9. /\ Len(Append(v, x)) = n + 1
            /\ DOMAIN Append(v, x) = DOMAIN v \cup {n + 1} /\ Append(v, x)[n + 1] = x
            /\ \A k \in DOMAIN v : Append(v, x)[k] = v[k] /\ k \in 1..n /\ 1..(k - 1) \subseteq DOMAIN v
            /\ DOMAIN v = 1..((n + 1) - 1)
        <5>1. v \in Seq(B) /\ Len(v) = n /\ n \in Nat
          BY <2>2, <3>3, <3>5
        <5>2. QED
          BY <5>1
      <4>10. EdgesRespected(edges, Append(v, x))
        <5>1. ASSUME NEW k \in DOMAIN v, NEW e \in edges, e[2] = Append(v, x)[k]
              PROVE  \E j \in 1..(k - 1) : Append(v, x)[j] = e[1]
          <6>1. e[2] = v[k]
            BY <4>9, <5>1, Zenon
          <6>2. PICK j \in 1..(k - 1) : v[j] = e[1]
            BY <3>3, <6>1, Zenon DEF EdgesRespected
          <6>3. j \in DOMAIN v
            BY <4>9, <6>2, Zenon
          <6>4. Append(v, x)[j] = e[1]
            BY <4>9, <6>2, <6>3, Zenon
          <6>5. QED
            BY <6>2, <6>4, Zenon
        <5>2. ASSUME NEW e \in edges, e[2] = x
              PROVE  \E j \in 1..((n + 1) - 1) : Append(v, x)[j] = e[1]
          <6>1. PICK j \in DOMAIN v : v[j] = e[1]
            BY <4>4, <5>2, Zenon DEF Range
          <6>2. Append(v, x)[j] = e[1] /\ j \in 1..((n + 1) - 1)
            BY <4>9, <6>1, Zenon
          <6>3. QED
            BY <6>2, Zenon
        <5>3. QED
          BY <4>9, <5>1, <5>2, ZenonT(60) DEF EdgesRespected
      <4>11. IsSorting(d, edges, B, w) /\ UpTo(n + 1, base, edges, w)
        BY <4>5, <4>6, <4>8, <4>9, <4>10, Zenon DEF IsSorting, UpTo
      <4>12. QED
        BY <2>7, <3>1, <3>2, <4>11, Zenon
    <3>6. QED
      BY <3>4, <3>5, Zenon
  <2>10. l \in D
    <3>1. \A i \in 0..l : i \in D
      BY <2>2, <2>8, <2>9, Induction, Zenon
    <3>2. l \in 0..l
      BY <2>2
    <3>3. QED
      BY <3>1, <3>2, Zenon
  <2>11. PICK v : v = f[l] /\ IsSorting(d, edges, B, v) /\ UpTo(l, base, edges, v)
    BY <2>7, <2>10, Zenon
  <2>12. ASSUME Len(v) = l PROVE ReadyAt(base, edges, Range(v)) = {}
    <3>1. v \in Seq(B) /\ Distinct(v)
      BY <2>11, Zenon DEF IsSorting
    <3>2. Range(v) = B
      BY <2>1, <2>2, <2>12, <3>1, FullList, Zenon
    <3>3. QED
      BY <2>1, <2>2, <3>2, Zenon DEF ReadyAt, Range
  <2>13. ReadyAt(base, edges, Range(v)) = {}
    BY <2>11, <2>12, Zenon DEF UpTo
  <2>14. v = Sorted(d, base)
    BY <2>4, <2>11, Zenon
  <2>15. QED
    BY <2>1, <2>3, <2>11, <2>13, <2>14, Zenon DEF IsSorting
<1>4. QED
  BY <1>3, Zenon

-----------------------------------------------------------------------------
(***************************************************************************)
(* Snapshot and Text.                                                      *)
(***************************************************************************)
(* The members of cycles, in base order, also follow their parents. *)
LEMMA UnsortedParents ==
  ASSUME NEW d, NEW X, NEW base \in Seq(X), NEW sorted \in Seq(X),
         ParentsFirst(d, base), ParentsFirst(d, sorted)
  PROVE  ParentsFirst(d, sorted \o Unsorted(base, sorted))
<1>1. PICK S, l : S = Range(base) \ Range(sorted) /\ l = Len(base)
  BY Zenon
<1>2. PICK f : /\ f[0] = <<>> /\ Unsorted(base, sorted) = f[l] /\ IsFilter(f, X, base, S)
               /\ \A n \in 1..l :
                    f[n] = IF base[n] \in S THEN Append(f[n - 1], base[n]) ELSE f[n - 1]
  <2>1. PICK f : /\ Filtering(f, base, S) /\ Filter(base, S) = f[Len(base)]
                 /\ IsFilter(f, X, base, S)
    BY FilterSteps, Zenon
  <2>2. Unsorted(base, sorted) = f[l]
    BY <1>1, <2>1, Zenon DEF Unsorted
  <2>3. QED
    BY <1>1, <2>1, <2>2, Zenon DEF Filtering
<1>3. l \in Nat /\ DOMAIN base = 1..l /\ \A i \in 1..l : base[i] \in X
  BY <1>1
<1>4. PICK D : D = {n \in 0..l : ParentsFirst(d, sorted \o f[n])}
  BY Zenon
<1>5. 0 \in D
  <2>1. sorted \o <<>> = sorted /\ 0 \in 0..l
    BY <1>3
  <2>2. QED
    BY <1>2, <1>4, <2>1, Zenon
<1>6. ASSUME NEW n \in 0..(l - 1), n \in D PROVE n + 1 \in D
  <2>1. n \in 0..l /\ n + 1 \in 0..l /\ n + 1 \in 1..l /\ (n + 1) - 1 = n
    BY <1>3
  <2>2. PICK v, x : v = f[n] /\ x = base[n + 1] /\ x \in X
    BY <1>3, <2>1, Zenon
  <2>3. /\ f[n + 1] = IF x \in S THEN Append(v, x) ELSE v
        /\ v \in Seq(X) /\ Range(v) = {base[i] : i \in 1..n} \cap S
        /\ ParentsFirst(d, sorted \o v)
    BY <1>1, <1>2, <1>4, <1>6, <2>1, <2>2, Zenon DEF IsFilter
  <2>4. CASE x \notin S
    BY <1>4, <2>1, <2>3, <2>4, Zenon
  <2>5. CASE x \in S
    <3>1. d[x].leftID \in {base[i] : i \in 1..n} \cup {NoID}
      BY <1>3, <2>1, <2>2, Zenon DEF ParentsFirst
    <3>2. {base[i] : i \in 1..n} \subseteq Range(base)
      <4>1. \A i \in 1..n : i \in 1..l
        BY <1>3
      <4>2. QED
        BY <1>3, <4>1, Zenon DEF Range
    <3>3. d[x].leftID \in Range(sorted) \cup Range(v) \cup {NoID}
      BY <1>1, <2>3, <3>1, <3>2, Zenon
    <3>4. PICK r : r = sorted \o v /\ r \in Seq(X) /\ Range(r) = Range(sorted) \cup Range(v)
      <4>1. sorted \o v \in Seq(X) /\ Range(sorted \o v) = Range(sorted) \cup Range(v)
        BY <2>3, ConcatList
      <4>2. QED
        BY <4>1, Zenon
    <3>5. sorted \o Append(v, x) = Append(r, x)
      <4>1. v \in Seq(X) /\ x \in X
        BY <2>2, <2>3, Zenon
      <4>2. sorted \o Append(v, x) = Append(sorted \o v, x)
        BY <4>1, ConcatAppend, SMTT(30)
      <4>3. QED
        BY <3>4, <4>2, Zenon
    <3>6. ParentsFirst(d, r) /\ d[x].leftID \in Range(r) \cup {NoID}
      BY <2>3, <3>3, <3>4, Zenon
    <3>7. r \in Seq(X) /\ x \in X
      BY <2>2, <3>4, Zenon
    <3>8. ParentsFirst(d, Append(r, x))
      BY <3>6, <3>7, ParentsFirstAppend, Zenon
    <3>9. QED
      BY <1>4, <2>1, <2>3, <2>5, <3>5, <3>8, Zenon
  <2>6. QED
    BY <2>4, <2>5, Zenon
<1>7. \A i \in 0..l : i \in D
  BY <1>3, <1>5, <1>6, Induction, Zenon
<1>8. l \in 0..l
  BY <1>3
<1>9. QED
  BY <1>2, <1>4, <1>7, <1>8, Zenon

(* Snapshot lists the characters reached from the root, each once and      *)
(* after its left anchor, whatever the right anchors say.                  *)
THEOREM SnapshotList ==
  ASSUME NEW d, IsTree(d)
  PROVE  /\ Snapshot(d) \in Seq(DOMAIN d) /\ Distinct(Snapshot(d))
         /\ Range(Snapshot(d)) = Reachable(d) /\ ParentsFirst(d, Snapshot(d))
<1>1. PICK base, X : base = Base(d) /\ X = DOMAIN d
  BY Zenon
<1>2. base \in Seq(X) /\ Distinct(base) /\ Range(base) = Reachable(d) /\ ParentsFirst(d, base)
  BY <1>1, BaseList, Zenon
<1>3. PICK sorted, B : sorted = Sorted(d, base) /\ B = Range(base)
  BY Zenon
<1>4. sorted \in Seq(B) /\ Distinct(sorted) /\ ParentsFirst(d, sorted)
  BY <1>2, <1>3, SortedList, Zenon
<1>5. B \subseteq X /\ Range(sorted) \subseteq B
  BY <1>2, <1>3, <1>4, ListRange, Zenon
<1>6. sorted \in Seq(X)
  BY <1>4, <1>5
<1>7. PICK rest : rest = Unsorted(base, sorted)
  BY Zenon
<1>8. /\ rest \in Seq(X) /\ Range(rest) = B \ Range(sorted) /\ Distinct(rest)
  <2>1. PICK S : S = Range(base) \ Range(sorted) /\ rest = Filter(base, S)
    BY <1>7, Zenon DEF Unsorted
  <2>2. rest = Filter(base, S)
    BY <2>1, Zenon
  <2>3. rest \in Seq(X) /\ Range(rest) = Range(base) \cap S /\ (Distinct(base) => Distinct(rest))
    BY <1>2, <2>2, FilterList
  <2>4. QED
    BY <1>2, <1>3, <2>1, <2>3, Zenon
<1>9. /\ sorted \o rest \in Seq(X) /\ Range(sorted \o rest) = Range(sorted) \cup Range(rest)
      /\ Distinct(sorted \o rest)
  <2>1. Range(sorted) \cap Range(rest) = {}
    BY <1>8, Zenon
  <2>2. QED
    BY <1>4, <1>6, <1>8, <2>1, ConcatList
<1>10. ParentsFirst(d, sorted \o rest)
  BY <1>2, <1>4, <1>6, <1>7, UnsortedParents, Zenon
<1>11. Snapshot(d) = sorted \o rest
  BY <1>1, <1>3, <1>7, Zenon DEF Snapshot
<1>12. Range(sorted) \cup Range(rest) = Reachable(d)
  BY <1>2, <1>3, <1>5, <1>8, Zenon
<1>13. QED
  BY <1>1, <1>9, <1>10, <1>11, <1>12, Zenon

(***************************************************************************)
(* A set of listed characters each of which has to follow another one of   *)
(* the set: its left anchor, or one that names it as its right anchor.     *)
(***************************************************************************)
Cyclic(d, S) ==
  /\ S \subseteq Reachable(d)
  /\ \A x \in S : \E y \in S : d[x].leftID = y \/ d[y].rightID = x

(***************************************************************************)
(* Snapshot puts a character before its right anchor, unless the anchor is *)
(* on a circle of characters that wait for each other, or behind one: then *)
(* no order obeys all the anchors (the loop over the heap of Snapshot, and *)
(* the fallback for what it leaves out).                                   *)
(***************************************************************************)
THEOREM RightAnchorsRespected ==
  ASSUME NEW d, IsTree(d), NEW i \in DOMAIN Snapshot(d), NEW j \in DOMAIN Snapshot(d),
         d[Snapshot(d)[i]].rightID = Snapshot(d)[j]
  PROVE  i < j \/ \E S : Cyclic(d, S) /\ Snapshot(d)[j] \in S
<1>1. PICK base, X : base = Base(d) /\ X = DOMAIN d
  BY Zenon
<1>2. base \in Seq(X) /\ Range(base) = Reachable(d) /\ ParentsFirst(d, base)
  BY <1>1, BaseList, Zenon
<1>3. PICK sorted, rest, edges, B : /\ sorted = Sorted(d, base) /\ B = Range(base)
                                    /\ rest = Unsorted(base, sorted) /\ edges = Edges(d, base)
  BY Zenon
<1>4. /\ sorted \in Seq(B) /\ EdgesRespected(edges, sorted)
      /\ ReadyAt(base, edges, Range(sorted)) = {}
  BY <1>2, <1>3, SortedList, Zenon
<1>5. PICK s, x, y : s = Snapshot(d) /\ x = s[i] /\ y = s[j]
  BY Zenon
<1>6. /\ s = sorted \o rest /\ s \in Seq(X) /\ Distinct(s) /\ Range(s) = B /\ DOMAIN s = DOMAIN Snapshot(d)
  BY <1>1, <1>2, <1>3, <1>5, SnapshotList, Zenon DEF Snapshot
<1>7. x \in B /\ y \in B /\ d[x].rightID = y
  BY <1>5, <1>6, Zenon DEF Range
<1>8. \A a, b : a \in B /\ b \in B /\ (d[b].leftID = a \/ d[a].rightID = b) <=> <<a, b>> \in edges
  BY <1>3 DEF Edges
<1>9. CASE y \in Range(sorted)
  <2>1. PICK k \in DOMAIN sorted : sorted[k] = y
    BY <1>9, Zenon DEF Range
  <2>2. PICK e \in edges : e[1] = x /\ e[2] = y
    <3>1. <<x, y>> \in edges /\ <<x, y>>[1] = x /\ <<x, y>>[2] = y
      BY <1>7, <1>8
    <3>2. QED
      BY <3>1, Zenon
  <2>3. PICK m \in 1..(k - 1) : sorted[m] = x
    BY <1>4, <2>1, <2>2, Zenon DEF EdgesRespected
  <2>4. rest \in Seq(X)
    BY <1>2, <1>3, FilterList, Zenon DEF Unsorted
  <2>5. k \in Nat /\ m \in Nat /\ m < k /\ k \in DOMAIN s /\ m \in DOMAIN s /\ s[k] = y /\ s[m] = x
    BY <1>4, <1>6, <2>1, <2>3, <2>4, SMTT(30)
  <2>6. k = j /\ m = i
    BY <1>5, <1>6, <2>5, Zenon DEF Distinct
  <2>7. QED
    BY <2>5, <2>6, Zenon
<1>10. CASE y \notin Range(sorted)
  <2>1. PICK S : S = B \ Range(sorted)
    BY Zenon
  <2>2. ASSUME NEW b \in S PROVE \E a \in S : d[b].leftID = a \/ d[a].rightID = b
    <3>1. PICK n \in 1..Len(base) : base[n] = b
      <4>1. DOMAIN base = 1..Len(base)
        BY <1>2
      <4>2. QED
        BY <1>3, <2>1, <2>2, <4>1, Zenon DEF Range
    <3>2. PICK e \in edges : e[2] = b /\ e[1] \notin Range(sorted)
      BY <1>4, <2>1, <3>1, Zenon DEF ReadyAt
    <3>3. PICK a, c : e = <<a, c>> /\ a \in B /\ c \in B /\ (d[c].leftID = a \/ d[a].rightID = c)
      <4>1. PICK a, c : e = <<a, c>>
        BY <1>3, <3>2, Zenon DEF Edges
      <4>2. <<a, c>> \in edges
        BY <3>2, <4>1, Zenon
      <4>3. a \in B /\ c \in B /\ (d[c].leftID = a \/ d[a].rightID = c)
        BY <1>8, <4>2, Zenon
      <4>4. QED
        BY <4>1, <4>3, Zenon
    <3>4. e[1] = a /\ e[2] = c
      BY <3>3
    <3>5. QED
      BY <2>1, <3>2, <3>3, <3>4, Zenon
  <2>3. Cyclic(d, S) /\ y \in S
    BY <1>2, <1>3, <1>7, <1>10, <2>1, <2>2, Zenon DEF Cyclic
  <2>4. QED
    BY <1>5, <2>3, Zenon
<1>11. QED
  BY <1>9, <1>10, Zenon

(* Text lists the visible characters reached from the root, each once. *)
THEOREM TextList ==
  ASSUME NEW d, IsTree(d)
  PROVE  /\ Text(d) \in Seq(DOMAIN d) /\ Distinct(Text(d))
         /\ Range(Text(d)) = Reachable(d) \ Tombstones(d)
<1>1. PICK s, r, S, X : /\ s = Snapshot(d) /\ X = DOMAIN d /\ S = DOMAIN d \ Tombstones(d)
                        /\ r = Filter(s, S)
  BY Zenon
<1>2. s \in Seq(X) /\ Distinct(s) /\ Range(s) = Reachable(d)
  BY <1>1, SnapshotList, Zenon
<1>3. r \in Seq(X) /\ Range(r) = Range(s) \cap S /\ (Distinct(s) => Distinct(r))
  <2>1. r = Filter(s, S)
    BY <1>1, Zenon
  <2>2. QED
    BY <1>2, <2>1, FilterList
<1>4. Reachable(d) \cap S = Reachable(d) \ Tombstones(d)
  BY <1>1, Zenon DEF Reachable
<1>5. QED
  BY <1>1, <1>2, <1>3, <1>4, Zenon DEF Text

-----------------------------------------------------------------------------
(***************************************************************************)
(* Replaying a snapshot.                                                   *)
(***************************************************************************)
IsEntry(c) ==
  /\ c = [value |-> c.value, leftID |-> c.leftID, rightID |-> c.rightID, deleted |-> c.deleted]
  /\ c.leftID \in Anchor /\ c.rightID \in Anchor /\ c.deleted \in BOOLEAN

(* A document whose characters Apply would accept. *)
Sound(d) ==
  /\ IsTree(d) /\ d = [id \in DOMAIN d |-> d[id]]
  /\ \A id \in DOMAIN d : /\ ValidID(id) /\ IsEntry(d[id])
                          /\ ~LeftInvalid(InsertOf(d, id)) /\ ~RightInvalid(InsertOf(d, id))

LEMMA NewInsertAccepted ==
  ASSUME NEW b, NEW op, op.type = "insert", ValidID(op.id), op.id \notin DOMAIN b,
         op.leftID \in DOMAIN b \cup {NoID}, ~LeftInvalid(op), ~RightInvalid(op)
  PROVE  Accepts(b, op)
<1>1. ~LeftMissing(b, op)
  BY Zenon DEF LeftMissing
<1>2. InsertOutcome(b, op) = "ok"
  BY <1>1 DEF InsertOutcome
<1>3. QED
  BY <1>2, Zenon DEF Accepts, Outcome

LEMMA DeleteAccepted ==
  ASSUME NEW b, NEW op, op.type = "delete", ValidID(op.id), op.id \in DOMAIN b
  PROVE  Accepts(b, op)
<1>1. op.type # "insert" /\ DeleteOutcome(b, op) = "ok"
  BY DEF DeleteOutcome
<1>2. QED
  BY <1>1, Zenon DEF Accepts, Outcome

(* A list of characters without repetitions, parents first, replays. *)
LEMMA ReplayList ==
  \A d : \A l \in Seq(DOMAIN d) :
    Sound(d) /\ Distinct(l) /\ ParentsFirst(d, l)
    => ReplaySnapshot(d, l) = {[id \in Range(l) |-> d[id]]}
<1>1. ASSUME NEW d, Sound(d), NEW S, S \subseteq DOMAIN d, NEW x \in DOMAIN d, x \notin S,
             d[x].leftID \in S \cup {NoID}, NEW b, b = [id \in S |-> d[id]]
      PROVE  Restore({b}, d, x) = {[id \in S \cup {x} |-> d[id]]}
  <2> USE <1>1
  <2>1. PICK op : op = InsertOf(d, x)
    BY Zenon
  <2>2. /\ op.type = "insert" /\ op.id = x /\ op.value = d[x].value
        /\ op.leftID = d[x].leftID /\ op.rightID = d[x].rightID
    BY <2>1 DEF InsertOf
  <2>3. DOMAIN b = S
    BY Zenon
  <2>4. Accepts(b, op)
    <3>1. ValidID(op.id) /\ ~LeftInvalid(op) /\ ~RightInvalid(op)
      BY <2>1, <2>2, Zenon DEF Sound
    <3>2. op.id \notin DOMAIN b /\ op.leftID \in DOMAIN b \cup {NoID}
      BY <2>2, <2>3, Zenon
    <3>3. QED
      BY <2>2, <3>1, <3>2, NewInsertAccepted, Zenon
  <2>5. PICK e : e = Apply(b, op)
    BY Zenon
  <2>6. e = [id \in S \cup {x} |-> IF id \in S THEN d[id] ELSE InsertedChar(op)]
    <3>1. e = ApplyInsert(b, op)
      BY <2>2, <2>4, <2>5, Zenon DEF Apply
    <3>2. QED
      BY <2>2, <2>3, <3>1 DEF ApplyInsert
  <2>7. PICK c : c = d[x]
    BY Zenon
  <2>8. IsEntry(c)
    BY <2>7, Zenon DEF Sound
  <2>9. InsertedChar(op) = [value |-> c.value, leftID |-> c.leftID, rightID |-> c.rightID,
                            deleted |-> FALSE]
    BY <2>2, <2>7, Zenon DEF InsertedChar
  <2>10. PICK del : del = DeleteOf(x)
    BY Zenon
  <2>11. del.type = "delete" /\ del.id = x /\ del.type # "insert"
    BY <2>10 DEF DeleteOf
  <2>12. Accepts(e, del)
    <3>1. ValidID(del.id) /\ del.id \in DOMAIN e
      BY <2>6, <2>11, Zenon DEF Sound
    <3>2. QED
      BY <2>11, <3>1, DeleteAccepted, Zenon
  <2>13. Restored(b, d, x) = IF c.deleted THEN ApplyDelete(e, del) ELSE e
    BY <2>1, <2>5, <2>7, <2>10, <2>11, <2>12, Zenon DEF Restored, Apply
  <2>14. Restored(b, d, x) = [id \in S \cup {x} |-> d[id]]
    <3>1. CASE c.deleted
      <4>1. ApplyDelete(e, del) = [e EXCEPT ![x].deleted = TRUE]
        BY <2>11, Zenon DEF ApplyDelete
      <4>2. [InsertedChar(op) EXCEPT !.deleted = TRUE] = c
        BY <2>8, <2>9, <3>1 DEF IsEntry
      <4>3. [e EXCEPT ![x].deleted = TRUE] = [id \in S \cup {x} |-> d[id]]
        BY <2>6, <2>7, <4>2, Zenon
      <4>4. QED
        BY <2>13, <3>1, <4>1, <4>3, Zenon
    <3>2. CASE ~c.deleted
      <4>1. InsertedChar(op) = c
        BY <2>8, <2>9, <3>2 DEF IsEntry
      <4>2. QED
        BY <2>6, <2>7, <2>13, <3>2, <4>1, SMTT(30)
    <3>3. QED
      BY <3>1, <3>2, Zenon
  <2>15. QED
    BY <2>1, <2>4, <2>14, Zenon DEF Restore
<1>2. ASSUME NEW d, Sound(d), NEW l \in Seq(DOMAIN d), Distinct(l), ParentsFirst(d, l)
      PROVE  ReplaySnapshot(d, l) = {[id \in Range(l) |-> d[id]]}
  <2> USE <1>2
  <2>1. PICK n : n = Len(l) /\ n \in Nat /\ DOMAIN l = 1..n /\ \A i \in 1..n : l[i] \in DOMAIN d
    <3>1. Len(l) \in Nat /\ DOMAIN l = 1..Len(l) /\ \A i \in 1..Len(l) : l[i] \in DOMAIN d
      OBVIOUS
    <3>2. QED
      BY <3>1, Zenon
  <2>2. PICK f : f = [m \in 0..n |-> {[id \in {l[i] : i \in 1..m} |-> d[id]]}]
    BY Zenon
  <2>3. f[0] = {New}
    <3>1. 0 \in 0..n /\ {l[i] : i \in 1..0} = {}
      BY <2>1
    <3>2. [id \in {} |-> d[id]] = New
      BY DEF New
    <3>3. f[0] = {[id \in {l[i] : i \in 1..0} |-> d[id]]}
      BY <2>2, <3>1, Zenon
    <3>4. QED
      BY <3>1, <3>2, <3>3, Zenon
  <2>4. ASSUME NEW m \in 1..n PROVE f[m] = Restore(f[m - 1], d, l[m])
    <3>1. PICK k, S, x, b : /\ k = m - 1 /\ S = {l[i] : i \in 1..k} /\ x = l[m]
                            /\ b = [id \in S |-> d[id]]
      BY Zenon
    <3>2. /\ k \in 0..n /\ m \in 0..n /\ m = k + 1 /\ m \in 1..m
          /\ \A i \in 1..m : i \in 1..k \/ i = m
          /\ \A i \in 1..k : i \in 1..n /\ i \in 1..m /\ i # m
      BY <2>1, <3>1
    <3>3. f[k] = {b}
      BY <2>2, <3>1, <3>2, Zenon
    <3>4. S \cup {x} = {l[i] : i \in 1..m}
      BY <3>1, <3>2, Zenon
    <3>5. x \in DOMAIN d /\ S \subseteq DOMAIN d
      BY <2>1, <3>1, <3>2, Zenon
    <3>6. x \notin S
      BY <2>1, <3>1, <3>2, Zenon DEF Distinct
    <3>7. d[x].leftID \in S \cup {NoID}
      BY <2>1, <3>1, Zenon DEF ParentsFirst
    <3>8. b = [id \in S |-> d[id]]
      BY <3>1, Zenon
    <3>9. Restore({b}, d, x) = {[id \in S \cup {x} |-> d[id]]}
      BY <3>5, <3>6, <3>7, <3>8, <1>1, ZenonT(60)
    <3>10. f[m] = {[id \in S \cup {x} |-> d[id]]}
      BY <2>2, <3>2, <3>4, Zenon
    <3>11. QED
      BY <3>1, <3>3, <3>9, <3>10, Zenon
  <2>5. \A m \in 0..n : m = 0 \/ (m \in 1..n /\ m # 0)
    BY <2>1
  <2>6. f = [m \in 0..n |-> IF m = 0 THEN {New} ELSE Restore(f[m - 1], d, l[m])]
    <3>1. \A m \in 0..n : f[m] = IF m = 0 THEN {New} ELSE Restore(f[m - 1], d, l[m])
      BY <2>3, <2>4, <2>5, Zenon
    <3>2. QED
      BY <2>2, <3>1, Zenon
  <2>7. PICK g : /\ g = [m \in 0..n |-> IF m = 0 THEN {New} ELSE Restore(g[m - 1], d, l[m])]
                 /\ ReplaySnapshot(d, l) = g[n]
    BY <2>1, <2>6, Zenon DEF ReplaySnapshot
  <2>8. PICK D : D = {m \in 0..n : g[m] = f[m]}
    BY Zenon
  <2>9. 0 \in D
    <3>1. 0 \in 0..n
      BY <2>1
    <3>2. QED
      BY <2>3, <2>7, <2>8, <3>1, Zenon
  <2>10. ASSUME NEW m \in 0..(n - 1), m \in D PROVE m + 1 \in D
    <3>1. m + 1 \in 0..n /\ m + 1 \in 1..n /\ (m + 1) - 1 = m /\ m + 1 # 0
      BY <2>1
    <3>2. PICK k : k = m + 1
      BY Zenon
    <3>3. k \in 0..n /\ k \in 1..n /\ k - 1 = m /\ k # 0 /\ g[m] = f[m]
      BY <2>8, <2>10, <3>1, <3>2, Zenon
    <3>4. g[k] = Restore(g[k - 1], d, l[k]) /\ f[k] = Restore(f[k - 1], d, l[k])
      BY <2>4, <2>7, <3>3, Zenon
    <3>5. QED
      BY <2>8, <3>2, <3>3, <3>4, Zenon
  <2>11. \A m \in 0..n : m \in D
    BY <2>1, <2>9, <2>10, Induction, Zenon
  <2>12. n \in 0..n
    BY <2>1
  <2>13. ReplaySnapshot(d, l) = {[id \in {l[i] : i \in 1..n} |-> d[id]]}
    BY <2>2, <2>7, <2>8, <2>11, <2>12, Zenon
  <2>14. Range(l) = {l[i] : i \in 1..n}
    BY <2>1, Zenon DEF Range
  <2>15. QED
    BY <2>13, <2>14, Zenon
<1>3. QED
  BY <1>2, Zenon

(* A snapshot of a sound document restores what it listed. *)
THEOREM SnapshotRestores ==
  ASSUME NEW d, Sound(d)
  PROVE  /\ ReplaySnapshot(d, Snapshot(d)) = {SnapshotChars(d)}
         /\ Len(Snapshot(d)) = Cardinality(Reachable(d))
<1>1. PICK l : l = Snapshot(d)
  BY Zenon
<1>2. l \in Seq(DOMAIN d) /\ Distinct(l) /\ Range(l) = Reachable(d) /\ ParentsFirst(d, l)
  BY <1>1, SnapshotList, Zenon DEF Sound
<1>3. ReplaySnapshot(d, l) = {[id \in Range(l) |-> d[id]]}
  BY <1>2, ReplayList, Zenon
<1>4. ReplaySnapshot(d, l) = {SnapshotChars(d)}
  BY <1>2, <1>3, Zenon DEF SnapshotChars
<1>5. Len(l) \in Nat /\ DOMAIN l = 1..Len(l)
  BY <1>2
<1>6. l \in Bijection(1..Len(l), Reachable(d))
  <2>1. \A i \in 1..Len(l) : l[i] \in Reachable(d)
    BY <1>2, <1>5, Zenon DEF Range
  <2>2. l \in [1..Len(l) -> Reachable(d)]
    BY <1>2, <1>5, <2>1
  <2>3. \A x \in Reachable(d) : \E i \in 1..Len(l) : l[i] = x
    BY <1>2, <1>5, Zenon DEF Range
  <2>4. QED
    BY <1>2, <1>5, <2>2, <2>3, Zenon DEF Bijection, Injection, IsInjective, Surjection, Distinct
<1>7. Cardinality(Reachable(d)) = Len(l)
  BY <1>5, <1>6, FS_CountingElements, Zenon DEF ExistsBijection
<1>8. QED
  BY <1>1, <1>4, <1>7, Zenon
-----------------------------------------------------------------------------
(***************************************************************************)
(* What tabs and room do to each other's documents, one connection at a    *)
(* time.  Of a connection with site s, V is what its tab shows (or will    *)
(* show once it has handled the sync message), n the counter of the next   *)
(* character it types, U and D what is under way to the room and to the    *)
(* tab, c the document of the room and K every character the room has      *)
(* ever held.                                                              *)
(***************************************************************************)
InsAt(U, i) == i \in DOMAIN U /\ U[i].type = "insert"
DelAt(U, i) == i \in DOMAIN U /\ U[i].type = "delete"
InsIn(D, i) == i \in DOMAIN D /\ D[i].type = "op" /\ D[i].op.type = "insert"
DelIn(D, i) == i \in DOMAIN D /\ D[i].type = "op" /\ D[i].op.type = "delete"

SameEntry(a, b) == a.value = b.value /\ a.leftID = b.leftID /\ a.rightID = b.rightID

(* The characters on their way up are new to the room and numbered in order. *)
Own(s, U, K) ==
  \A i \in DOMAIN U : U[i].type = "insert" =>
    /\ U[i].id.siteID = s
    /\ \A id \in K : id.siteID = s => id.counter < U[i].id.counter
    /\ \A j \in DOMAIN U : j < i /\ U[j].type = "insert" => U[j].id.counter < U[i].id.counter

(* The counter of the tab is ahead of all characters of its site. *)
Fresh(s, n, V, U, K) ==
  /\ \A id \in DOMAIN V \cup K : id.siteID = s => id.counter < n
  /\ \A i \in DOMAIN U : U[i].type = "insert" => U[i].id.counter < n

(* What the tab did not type itself it has from the room. *)
Known(s, V, K) == \A id \in DOMAIN V : id.siteID = s \/ id \in K

(* A deletion of id is under way, also one behind the insertion at place i. *)
DelUp(U, id) == \E j \in DOMAIN U : DelAt(U, j) /\ U[j].id = id
DelDown(D, id) == \E j \in DOMAIN D : DelIn(D, j) /\ D[j].op.id = id
InsDown(D, id) == \E j \in DOMAIN D : InsIn(D, j) /\ D[j].op.id = id
AfterUp(U, i) == \E j \in DOMAIN U : i < j /\ DelAt(U, j) /\ U[j].id = U[i].id
AfterDown(D, i) == \E j \in DOMAIN D : i < j /\ DelIn(D, j) /\ D[j].op.id = D[i].op.id

(* The tab has applied what it sent. *)
SentOne(V, U, i) ==
  /\ U[i].id \in DOMAIN V
  /\ U[i].type = "insert" => /\ SameEntry(V[U[i].id], U[i])
                             /\ V[U[i].id].deleted => AfterUp(U, i)
  /\ U[i].type = "delete" => V[U[i].id].deleted

Sent(V, U) == \A i \in DOMAIN U : SentOne(V, U, i)

(* The room has applied what is under way to the tab, and the tab has not. *)
ComingOne(s, V, D, c, K, i) ==
  /\ D[i].op.id \in K
  /\ D[i].op.type = "insert" =>
       /\ D[i].op.id.siteID # s /\ D[i].op.id \notin DOMAIN V
       /\ D[i].op.id \in DOMAIN c => /\ SameEntry(c[D[i].op.id], D[i].op)
                                     /\ c[D[i].op.id].deleted => AfterDown(D, i)
       /\ \A j \in DOMAIN D : InsIn(D, j) /\ D[j].op.id = D[i].op.id => j = i
  /\ D[i].op.type = "delete" =>
       (D[i].op.id \in DOMAIN c => c[D[i].op.id].deleted)

Coming(s, V, D, c, K) ==
  \A i \in DOMAIN D : D[i].type = "op" => ComingOne(s, V, D, c, K, i)

(* Tab and room differ in deletions that are under way and in nothing else. *)
AgreeOne(V, U, D, c, id) ==
  /\ SameEntry(V[id], c[id])
  /\ V[id].deleted => c[id].deleted \/ DelUp(U, id)
  /\ c[id].deleted => V[id].deleted \/ DelDown(D, id)

Agree(V, U, D, c) == \A id \in DOMAIN V \cap DOMAIN c : AgreeOne(V, U, D, c, id)

Earlier(D, i) == {D[j].op.id : j \in {k \in DOMAIN D : k < i /\ InsIn(D, k)}}

(* What the room would put in a snapshot, the tab has or will accept. *)
ReachOne(V, D, i) == D[i].op.leftID \in DOMAIN V \cup Earlier(D, i) \cup {NoID}

Reach(V, D, c) ==
  /\ \A id \in Reachable(c) : id \in DOMAIN V \/ InsDown(D, id)
  /\ \A i \in DOMAIN D : InsIn(D, i) /\ D[i].op.id \in Reachable(c) => ReachOne(V, D, i)

Link(s, n, V, U, D, c, K) ==
  /\ Fresh(s, n, V, U, K) /\ Known(s, V, K) /\ Sent(V, U)
  /\ Coming(s, V, D, c, K) /\ Agree(V, U, D, c) /\ Reach(V, D, c)

(* As long as nothing was compacted, what an operation refers to is in the *)
(* document it goes to, or inserted before it.                             *)
InsUp(U, id) == \E j \in DOMAIN U : InsAt(U, j) /\ U[j].id = id
EarlierUp(U, i) == {U[j].id : j \in {k \in DOMAIN U : k < i /\ InsAt(U, k)}}

RefUp(U, c, i) ==
  /\ U[i].type = "insert" => U[i].leftID \in DOMAIN c \cup EarlierUp(U, i) \cup {NoID}
  /\ U[i].type = "delete" => U[i].id \in DOMAIN c \cup EarlierUp(U, i)

RefsUp(U, c) == \A i \in DOMAIN U : RefUp(U, c, i)

RefDown(V, D, i) ==
  /\ D[i].type = "op"
  /\ D[i].op.type = "delete" => D[i].op.id \in DOMAIN V \cup Earlier(D, i)

RefsDown(V, D) == \A i \in DOMAIN D : RefDown(V, D, i)

Covered(V, U, c) == \A id \in DOMAIN V : id \in DOMAIN c \/ InsUp(U, id)

Lossless(V, U, D, c) == RefsDown(V, D) /\ Covered(V, U, c)
-----------------------------------------------------------------------------
(***************************************************************************)
(* Documents, operations and messages.  A rune is a number here, as Input  *)
(* makes them.                                                             *)
(***************************************************************************)
Entry == [value : Nat, leftID : Anchor, rightID : Anchor, deleted : BOOLEAN]

Docs == {d \in UNION {[S -> Entry] : S \in SUBSET CharID} : Sound(d)}

Inserts == {op \in [type : {"insert"}, id : CharID, value : Nat, leftID : Anchor, rightID : Anchor] :
              ValidID(op.id) /\ ~LeftInvalid(op) /\ ~RightInvalid(op)}

Deletes == {op \in [type : {"delete"}, id : CharID] : ValidID(op.id)}

Ops == Inserts \cup Deletes

Messages == [type : {"sync"}, snapshot : Docs] \cup [type : {"op"}, op : Ops] \cup [type : {"error"}]

Carrying(op) == [type |-> "op", op |-> op]

(* e is d after the insertion, and after the deletion, of op. *)
Grows(d, e, op) ==
  /\ op.id \notin DOMAIN d /\ DOMAIN e = DOMAIN d \cup {op.id}
  /\ \A id \in DOMAIN d : e[id] = d[id]
  /\ SameEntry(e[op.id], op) /\ ~e[op.id].deleted

Marks(d, e, op) ==
  /\ op.id \in DOMAIN d /\ DOMAIN e = DOMAIN d
  /\ \A id \in DOMAIN d : id # op.id => e[id] = d[id]
  /\ SameEntry(e[op.id], d[op.id]) /\ e[op.id].deleted

LEMMA InDocs ==
  ASSUME NEW d, Sound(d), \A id \in DOMAIN d : d[id] \in Entry
  PROVE  d \in Docs
<1>1. DOMAIN d \in SUBSET CharID /\ d \in [DOMAIN d -> Entry]
  BY Zenon DEF Sound, IsTree
<1>2. QED
  BY <1>1, Zenon DEF Docs

LEMMA DocsFacts ==
  ASSUME NEW d \in Docs
  PROVE  Sound(d) /\ DOMAIN d \subseteq CharID /\ \A id \in DOMAIN d : d[id] \in Entry
<1>1. PICK S \in SUBSET CharID : d \in [S -> Entry]
  BY Zenon DEF Docs
<1>2. Sound(d)
  BY Zenon DEF Docs
<1>3. QED
  BY <1>1, <1>2, Zenon

LEMMA OpFacts ==
  /\ "insert" # "delete"
  /\ \A op \in Inserts : /\ op.type = "insert" /\ op.id \in CharID /\ ValidID(op.id)
                         /\ op.value \in Nat /\ op.leftID \in Anchor /\ op.rightID \in Anchor
                         /\ ~LeftInvalid(op) /\ ~RightInvalid(op)
  /\ \A op \in Deletes : op.type = "delete" /\ op.id \in CharID /\ ValidID(op.id)
<1>1. "insert" # "delete"
  OBVIOUS
<1>2. \A op \in Inserts : /\ op.type = "insert" /\ op.id \in CharID /\ ValidID(op.id)
                          /\ op.value \in Nat /\ op.leftID \in Anchor /\ op.rightID \in Anchor
                          /\ ~LeftInvalid(op) /\ ~RightInvalid(op)
  BY DEF Inserts
<1>3. \A op \in Deletes : op.type = "delete" /\ op.id \in CharID /\ ValidID(op.id)
  BY DEF Deletes
<1>4. QED
  BY <1>1, <1>2, <1>3, Zenon

(* A character is sound whatever its flag and whatever else there is. *)
LEMMA SoundEntry ==
  ASSUME NEW d, NEW e, NEW id, Sound(d), id \in DOMAIN d, IsEntry(e[id]), SameEntry(e[id], d[id])
  PROVE  /\ ValidID(id) /\ ~LeftInvalid(InsertOf(e, id)) /\ ~RightInvalid(InsertOf(e, id))
<1>1. InsertOf(e, id) = InsertOf(d, id)
  BY Zenon DEF InsertOf, SameEntry
<1>2. QED
  BY <1>1, Zenon DEF Sound

LEMMA EntryFacts ==
  ASSUME NEW c \in Entry
  PROVE  IsEntry(c)
  BY DEF Entry, IsEntry

LEMMA GrowsDocs ==
  ASSUME NEW d \in Docs, NEW op \in Inserts, op.id \notin DOMAIN d, NEW e, e = ApplyInsert(d, op)
  PROVE  e \in Docs /\ Grows(d, e, op)
<1>1. PICK x, k : x = op.id /\ k = InsertedChar(op)
  BY Zenon
<1>2. /\ k.value = op.value /\ k.leftID = op.leftID /\ k.rightID = op.rightID
      /\ k.deleted = FALSE /\ k \in Entry
  BY <1>1, OpFacts DEF InsertedChar, Entry
<1>3. e = [id \in DOMAIN d \cup {x} |-> IF id \in DOMAIN d THEN d[id] ELSE k]
  BY <1>1, Zenon DEF ApplyInsert
<1>4. DOMAIN e = DOMAIN d \cup {x} /\ e[x] = k /\ \A id \in DOMAIN d : e[id] = d[id]
  BY <1>1, <1>3, Zenon
<1>5. Grows(d, e, op)
  BY <1>1, <1>2, <1>4, Zenon DEF Grows, SameEntry
<1>6. Sound(d) /\ DOMAIN d \subseteq CharID /\ \A id \in DOMAIN d : d[id] \in Entry
  BY DocsFacts, Zenon
<1>7. \A id \in DOMAIN e : e[id] \in Entry
  BY <1>2, <1>4, <1>6, Zenon
<1>8. IsTree(e) /\ e = [id \in DOMAIN e |-> e[id]]
  <2>1. IsFiniteSet(DOMAIN d \cup {x})
    BY <1>6, FS_AddElement, Zenon DEF Sound, IsTree
  <2>2. DOMAIN e \subseteq CharID
    BY <1>1, <1>4, <1>6, OpFacts, Zenon
  <2>3. QED
    BY <1>3, <1>4, <2>1, <2>2, Zenon DEF IsTree
<1>9. ASSUME NEW id \in DOMAIN e
      PROVE  /\ ValidID(id) /\ ~LeftInvalid(InsertOf(e, id)) /\ ~RightInvalid(InsertOf(e, id))
  <2>1. CASE id \in DOMAIN d
    <3>1. IsEntry(e[id]) /\ SameEntry(e[id], d[id])
      BY <1>4, <1>7, <2>1, EntryFacts, Zenon DEF SameEntry
    <3>2. QED
      BY <1>6, <2>1, <3>1, SoundEntry, Zenon
  <2>2. CASE id = x
    <3>1. InsertOf(e, x) = op
      BY <1>1, <1>2, <1>4 DEF InsertOf, Inserts
    <3>2. QED
      BY <1>1, <2>2, <3>1, OpFacts, Zenon
  <2>3. QED
    BY <1>4, <2>1, <2>2, Zenon
<1>10. Sound(e)
  BY <1>7, <1>8, <1>9, EntryFacts, Zenon DEF Sound
<1>11. QED
  BY <1>5, <1>7, <1>10, InDocs, Zenon

LEMMA MarksDocs ==
  ASSUME NEW d \in Docs, NEW op \in Deletes, op.id \in DOMAIN d, NEW e, e = ApplyDelete(d, op)
  PROVE  e \in Docs /\ Marks(d, e, op)
<1>1. PICK x, k : x = op.id /\ k = [d[x] EXCEPT !.deleted = TRUE]
  BY Zenon
<1>2. Sound(d) /\ DOMAIN d \subseteq CharID /\ \A id \in DOMAIN d : d[id] \in Entry
  BY DocsFacts, Zenon
<1>3. k \in Entry /\ k.deleted = TRUE /\ SameEntry(k, d[x])
  <2>1. d[x] \in Entry
    BY <1>1, <1>2, Zenon
  <2>2. QED
    BY <1>1, <2>1 DEF Entry, SameEntry
<1>4. e = [d EXCEPT ![x] = k]
  BY <1>1, Zenon DEF ApplyDelete
<1>5. /\ DOMAIN e = DOMAIN d /\ e[x] = k /\ \A id \in DOMAIN d : id # x => e[id] = d[id]
      /\ e = [id \in DOMAIN e |-> e[id]]
  BY <1>1, <1>4, Zenon
<1>6. Marks(d, e, op)
  BY <1>1, <1>3, <1>5, Zenon DEF Marks
<1>7. \A id \in DOMAIN e : e[id] \in Entry
  BY <1>2, <1>3, <1>5, Zenon
<1>8. IsTree(e)
  BY <1>2, <1>5, Zenon DEF Sound, IsTree
<1>9. ASSUME NEW id \in DOMAIN e
      PROVE  /\ ValidID(id) /\ ~LeftInvalid(InsertOf(e, id)) /\ ~RightInvalid(InsertOf(e, id))
  <2>1. IsEntry(e[id]) /\ SameEntry(e[id], d[id])
    BY <1>3, <1>5, <1>7, EntryFacts, Zenon DEF SameEntry
  <2>2. QED
    BY <1>2, <1>5, <2>1, SoundEntry, Zenon
<1>10. Sound(e)
  BY <1>5, <1>7, <1>8, <1>9, EntryFacts, Zenon DEF Sound
<1>11. QED
  BY <1>6, <1>7, <1>10, InDocs, Zenon

LEMMA RestrictDocs ==
  ASSUME NEW d \in Docs, NEW S, S \subseteq DOMAIN d, NEW e, e = [id \in S |-> d[id]]
  PROVE  e \in Docs
<1>1. Sound(d) /\ DOMAIN d \subseteq CharID /\ \A id \in DOMAIN d : d[id] \in Entry
  BY DocsFacts, Zenon
<1>2. DOMAIN e = S /\ e = [id \in DOMAIN e |-> e[id]] /\ \A id \in S : e[id] = d[id]
  BY Zenon
<1>3. \A id \in DOMAIN e : e[id] \in Entry
  BY <1>1, <1>2, Zenon
<1>4. IsTree(e)
  <2>1. IsFiniteSet(S)
    BY <1>1, FS_Subset, Zenon DEF Sound, IsTree
  <2>2. QED
    BY <1>1, <1>2, <2>1, Zenon DEF IsTree
<1>5. ASSUME NEW id \in DOMAIN e
      PROVE  /\ ValidID(id) /\ ~LeftInvalid(InsertOf(e, id)) /\ ~RightInvalid(InsertOf(e, id))
  <2>1. IsEntry(e[id]) /\ SameEntry(e[id], d[id])
    BY <1>2, <1>3, EntryFacts, Zenon DEF SameEntry
  <2>2. QED
    BY <1>1, <1>2, <2>1, SoundEntry, Zenon
<1>6. Sound(e)
  BY <1>2, <1>3, <1>4, <1>5, EntryFacts, Zenon DEF Sound
<1>7. QED
  BY <1>3, <1>6, InDocs, Zenon

(* What a tab does with an operation. *)
LEMMA TabInserts ==
  ASSUME NEW d \in Docs, NEW op \in Inserts, op.id \notin DOMAIN d, NEW e, e = BrowserApply(d, op)
  PROVE  /\ e \in Docs
         /\ BrowserAccepts(d, op) <=> op.leftID \in DOMAIN d \cup {NoID}
         /\ BrowserAccepts(d, op) => Grows(d, e, op)
         /\ ~BrowserAccepts(d, op) => e = d
<1>1. op.type = "insert" /\ op.type # "delete"
  BY OpFacts, Zenon
<1>2. BrowserAccepts(d, op) <=> op.leftID \in DOMAIN d \cup {NoID}
  BY <1>1, OpFacts, Zenon DEF BrowserAccepts, LeftInvalid, RightInvalid
<1>3. BrowserAccepts(d, op) => e = ApplyInsert(d, op)
  BY <1>1, Zenon DEF BrowserApply
<1>4. ~BrowserAccepts(d, op) => e = d
  BY Zenon DEF BrowserApply
<1>5. QED
  BY <1>2, <1>3, <1>4, GrowsDocs, Zenon

LEMMA TabDeletes ==
  ASSUME NEW d \in Docs, NEW op \in Deletes, NEW e, e = BrowserApply(d, op)
  PROVE  /\ e \in Docs
         /\ BrowserAccepts(d, op) <=> op.id \in DOMAIN d
         /\ BrowserAccepts(d, op) => Marks(d, e, op)
         /\ ~BrowserAccepts(d, op) => e = d
<1>1. op.type = "delete" /\ op.type # "insert"
  BY OpFacts, Zenon
<1>2. BrowserAccepts(d, op) <=> op.id \in DOMAIN d
  BY <1>1, OpFacts, Zenon DEF BrowserAccepts
<1>3. BrowserAccepts(d, op) => e = ApplyDelete(d, op)
  BY <1>1, Zenon DEF BrowserApply
<1>4. ~BrowserAccepts(d, op) => e = d
  BY Zenon DEF BrowserApply
<1>5. QED
  BY <1>2, <1>3, <1>4, MarksDocs, Zenon

-----------------------------------------------------------------------------
(***************************************************************************)
(* What is reached from the root.                                          *)
(***************************************************************************)
LEMMA ReachClosed ==
  ASSUME NEW d
  PROVE  ClosedUnderChildren(d, Reachable(d)) /\ Reachable(d) \subseteq DOMAIN d
  BY Zenon DEF ClosedUnderChildren, Reachable

LEMMA ReachGrows ==
  ASSUME NEW c, NEW e, NEW op, Grows(c, e, op), \A id \in DOMAIN c : c[id].leftID # op.id
  PROVE  /\ Reachable(e) \subseteq Reachable(c) \cup {op.id}
         /\ op.id \in Reachable(e) => op.leftID \in Reachable(c) \cup {NoID}
         /\ Reachable(c) = DOMAIN c /\ op.leftID \in DOMAIN c \cup {NoID} => Reachable(e) = DOMAIN e
<1>1. PICK x, R : x = op.id /\ R = Reachable(c)
  BY Zenon
<1>2. /\ x \notin DOMAIN c /\ DOMAIN e = DOMAIN c \cup {x}
      /\ \A id \in DOMAIN c : e[id] = c[id] /\ c[id].leftID # x
      /\ e[x].leftID = op.leftID
  BY <1>1, Zenon DEF Grows, SameEntry
<1>3. ClosedUnderChildren(c, R) /\ R \subseteq DOMAIN c
  BY <1>1, ReachClosed, Zenon
<1>4. Reachable(e) \subseteq R \cup {x}
  <2>1. ClosedUnderChildren(e, R \cup {x})
    BY <1>2, <1>3, Zenon DEF ClosedUnderChildren
  <2>2. R \cup {x} \in SUBSET DOMAIN e
    BY <1>2, <1>3, Zenon
  <2>3. QED
    BY <2>1, <2>2, Zenon DEF Reachable
<1>5. ASSUME op.leftID \notin R \cup {NoID} PROVE x \notin Reachable(e)
  <2>1. ClosedUnderChildren(e, R)
    BY <1>2, <1>3, <1>5, Zenon DEF ClosedUnderChildren
  <2>2. R \in SUBSET DOMAIN e /\ x \notin R
    BY <1>2, <1>3, Zenon
  <2>3. QED
    BY <2>1, <2>2, Zenon DEF Reachable
<1>6. ASSUME R = DOMAIN c, op.leftID \in DOMAIN c \cup {NoID} PROVE Reachable(e) = DOMAIN e
  <2>1. SUFFICES ASSUME NEW S \in SUBSET DOMAIN e, ClosedUnderChildren(e, S)
                 PROVE  DOMAIN e \subseteq S
    BY Zenon DEF Reachable
  <2>2. ClosedUnderChildren(c, S \cap DOMAIN c)
    BY <1>2, <2>1, Zenon DEF ClosedUnderChildren
  <2>3. DOMAIN c \subseteq S
    <3>1. S \cap DOMAIN c \in SUBSET DOMAIN c
      BY Zenon
    <3>2. R \subseteq S \cap DOMAIN c
      BY <1>1, <2>2, <3>1, Zenon DEF Reachable
    <3>3. QED
      BY <1>6, <3>2, Zenon
  <2>4. x \in S
    BY <1>2, <1>6, <2>1, <2>3, Zenon DEF ClosedUnderChildren
  <2>5. QED
    BY <1>2, <2>3, <2>4, Zenon
<1>7. QED
  BY <1>1, <1>4, <1>5, <1>6, Zenon

LEMMA ReachMarks ==
  ASSUME NEW c, NEW e, NEW op, Marks(c, e, op)
  PROVE  Reachable(e) = Reachable(c)
<1>1. DOMAIN e = DOMAIN c /\ \A id \in DOMAIN c : e[id].leftID = c[id].leftID
  BY Zenon DEF Marks, SameEntry
<1>2. \A S : ClosedUnderChildren(e, S) <=> ClosedUnderChildren(c, S)
  BY <1>1, Zenon DEF ClosedUnderChildren
<1>3. QED
  BY <1>1, <1>2, Zenon DEF Reachable

-----------------------------------------------------------------------------
(***************************************************************************)
(* Queues: t is s with x at its end, place k, and t is s without its first *)
(* element.                                                                *)
(***************************************************************************)
IsAppend(s, t, x, k) ==
  /\ k \notin DOMAIN s /\ DOMAIN t = DOMAIN s \cup {k}
  /\ t[k] = x /\ ~(k < k)
  /\ \A i \in DOMAIN s : t[i] = s[i] /\ i < k /\ ~(k < i)

IsTail(s, t) ==
  /\ 1 \in DOMAIN s
  /\ \A i \in DOMAIN s : ~(i < 1) /\ (i = 1 \/ \E j \in DOMAIN t : i = j + 1)
  /\ \A i \in DOMAIN t : i + 1 \in DOMAIN s /\ t[i] = s[i + 1] /\ i + 1 # 1 /\ 1 < i + 1
  /\ \A i, j \in DOMAIN t : (i + 1 < j + 1 <=> i < j) /\ (i + 1 = j + 1 => i = j)

LEMMA AppendFacts ==
  ASSUME NEW T, NEW s \in Seq(T), NEW x \in T
  PROVE  Append(s, x) \in Seq(T) /\ IsAppend(s, Append(s, x), x, Len(s) + 1)
  BY DEF IsAppend

LEMMA TailFacts ==
  ASSUME NEW T, NEW s \in Seq(T), s # <<>>
  PROVE  Tail(s) \in Seq(T) /\ Head(s) \in T /\ Head(s) = s[1] /\ IsTail(s, Tail(s))
<1>1. PICK l \in Nat : l = Len(s)
  BY ListFacts
<1>2. DOMAIN s = 1..l /\ l > 0
  BY <1>1, ListFacts
<1>3. Tail(s) \in Seq(T) /\ DOMAIN Tail(s) = 1..(l - 1) /\ Head(s) = s[1] /\ Head(s) \in T
  BY <1>1, <1>2
<1>4. \A i \in 1..(l - 1) : Tail(s)[i] = s[i + 1]
  BY <1>1, <1>2
<1>5. ASSUME NEW i \in 1..l PROVE ~(i < 1) /\ (i = 1 \/ \E j \in 1..(l - 1) : i = j + 1)
  <2>1. i # 1 => i - 1 \in 1..(l - 1) /\ i = (i - 1) + 1
    BY <1>5
  <2>2. QED
    BY <1>5, <2>1
<1>6. 1 \in 1..l /\ \A i \in 1..(l - 1) : i + 1 \in 1..l /\ i + 1 # 1 /\ 1 < i + 1
  BY <1>1, <1>2
<1>7. \A i, j \in 1..(l - 1) : (i + 1 < j + 1 <=> i < j) /\ (i + 1 = j + 1 => i = j)
  BY <1>1
<1>8. IsTail(s, Tail(s))
  BY <1>2, <1>3, <1>4, <1>5, <1>6, <1>7, Zenon DEF IsTail
<1>9. QED
  BY <1>3, <1>8, Zenon

LEMMA Kinds ==
  /\ "insert" # "delete" /\ "op" # "error" /\ "op" # "sync" /\ "error" # "sync"
  OBVIOUS

-----------------------------------------------------------------------------
(***************************************************************************)
(* A connection, step by step.                                             *)
(*                                                                         *)
(* The tab types a character: V becomes W, U becomes T.                    *)
(***************************************************************************)

(***************************************************************************)
(* The room accepts what the tab sent: c becomes e, U becomes T.           *)
(***************************************************************************)
LEMMA UpTaken ==
  ASSUME NEW U, NEW T, IsTail(U, T)
  PROVE  /\ 1 \in DOMAIN U
         /\ \A i \in DOMAIN T : i + 1 \in DOMAIN U /\ T[i] = U[i + 1]
         /\ \A i \in DOMAIN T : AfterUp(U, i + 1) => AfterUp(T, i)
         /\ \A id : DelUp(U, id) => DelUp(T, id) \/ (U[1].type = "delete" /\ U[1].id = id)
         /\ AfterUp(U, 1) => DelUp(T, U[1].id)
<1>1. /\ 1 \in DOMAIN U
      /\ \A i \in DOMAIN U : ~(i < 1) /\ (i = 1 \/ \E j \in DOMAIN T : i = j + 1)
      /\ \A i \in DOMAIN T : i + 1 \in DOMAIN U /\ T[i] = U[i + 1] /\ i + 1 # 1
      /\ \A i, j \in DOMAIN T : i + 1 < j + 1 => i < j
  BY Zenon DEF IsTail
<1>2. \A j \in DOMAIN T : DelAt(U, j + 1) => DelAt(T, j)
  BY <1>1, Zenon DEF DelAt
<1>3. \A i \in DOMAIN T : AfterUp(U, i + 1) => AfterUp(T, i)
  <2>1. SUFFICES ASSUME NEW i \in DOMAIN T, AfterUp(U, i + 1) PROVE AfterUp(T, i)
    BY Zenon
  <2>2. PICK j \in DOMAIN U : i + 1 < j /\ DelAt(U, j) /\ U[j].id = U[i + 1].id
    BY <2>1, Zenon DEF AfterUp
  <2>3. j # 1
    BY <1>1, <2>1, <2>2, Zenon
  <2>4. PICK l \in DOMAIN T : j = l + 1
    BY <1>1, <2>3, Zenon
  <2>5. i < l /\ DelAt(T, l) /\ T[l].id = T[i].id
    BY <1>1, <1>2, <2>1, <2>2, <2>4, ZenonT(60)
  <2>6. QED
    BY <2>4, <2>5, Zenon DEF AfterUp
<1>4. ASSUME NEW j \in DOMAIN U, DelAt(U, j), j # 1 PROVE DelUp(T, U[j].id)
  <2>1. PICK l \in DOMAIN T : j = l + 1
    BY <1>1, <1>4, Zenon
  <2>2. DelAt(T, l) /\ T[l].id = U[j].id
    BY <1>1, <1>2, <1>4, <2>1, Zenon
  <2>3. QED
    BY <2>1, <2>2, Zenon DEF DelUp
<1>5. \A id : DelUp(U, id) => DelUp(T, id) \/ (U[1].type = "delete" /\ U[1].id = id)
  <2>1. SUFFICES ASSUME NEW id, DelUp(U, id), ~DelUp(T, id) PROVE U[1].type = "delete" /\ U[1].id = id
    BY Zenon
  <2>2. PICK j \in DOMAIN U : DelAt(U, j) /\ U[j].id = id
    BY <2>1, Zenon DEF DelUp
  <2>3. j = 1
    BY <1>4, <2>1, <2>2, Zenon
  <2>4. QED
    BY <2>2, <2>3, Zenon DEF DelAt
<1>6. AfterUp(U, 1) => DelUp(T, U[1].id)
  <2>1. SUFFICES ASSUME AfterUp(U, 1) PROVE DelUp(T, U[1].id)
    BY Zenon
  <2>2. PICK j \in DOMAIN U : 1 < j /\ DelAt(U, j) /\ U[j].id = U[1].id
    BY <2>1, Zenon DEF AfterUp
  <2>3. j # 1
    BY <1>1, <2>2, Zenon
  <2>4. DelUp(T, U[j].id)
    BY <1>4, <2>2, <2>3, Zenon
  <2>5. QED
    BY <2>2, <2>4, Zenon
<1>7. QED
  BY <1>1, <1>3, <1>5, <1>6, Zenon

LEMMA OwnTaken ==
  ASSUME NEW s, NEW U, NEW T, NEW K, NEW x, Own(s, U, K), IsTail(U, T), U[1].type = "insert" => x = U[1].id
  PROVE  /\ Own(s, T, K)
         /\ U[1].type = "insert" => Own(s, T, K \cup {x})
<1>1. /\ 1 \in DOMAIN U
      /\ \A i \in DOMAIN T : i + 1 \in DOMAIN U /\ T[i] = U[i + 1] /\ 1 < i + 1
      /\ \A i, j \in DOMAIN T : i < j => i + 1 < j + 1
  BY Zenon DEF IsTail
<1>2. Own(s, T, K)
  BY <1>1, ZenonT(60) DEF Own
<1>3. U[1].type = "insert" => Own(s, T, K \cup {x})
  BY <1>1, <1>2, ZenonT(60) DEF Own
<1>4. QED
  BY <1>2, <1>3, Zenon

(***************************************************************************)
(* The room accepts what another client sent: c becomes e, D becomes T.    *)
(***************************************************************************)

(***************************************************************************)
(* The room refuses what the tab sent: U becomes T, D becomes E.           *)
(***************************************************************************)

(***************************************************************************)
(* The tab takes a message: D becomes T, and V, for an operation, W.       *)
(***************************************************************************)
LEMMA DownTaken ==
  ASSUME NEW D, NEW T, IsTail(D, T)
  PROVE  /\ 1 \in DOMAIN D
         /\ \A i \in DOMAIN T : i + 1 \in DOMAIN D /\ T[i] = D[i + 1] /\ (InsIn(T, i) => InsIn(D, i + 1))
         /\ \A i \in DOMAIN T : AfterDown(D, i + 1) => AfterDown(T, i)
         /\ AfterDown(D, 1) => DelDown(T, D[1].op.id)
         /\ \A id : DelDown(D, id) => DelDown(T, id) \/ (DelIn(D, 1) /\ D[1].op.id = id)
         /\ \A id : InsDown(D, id) => InsDown(T, id) \/ (InsIn(D, 1) /\ D[1].op.id = id)
         /\ \A i \in DOMAIN T : \A id \in Earlier(D, i + 1) :
              id \in Earlier(T, i) \/ (InsIn(D, 1) /\ D[1].op.id = id)
         /\ \A id : id \notin Earlier(D, 1)
<1>1. /\ 1 \in DOMAIN D
      /\ \A i \in DOMAIN D : ~(i < 1) /\ (i = 1 \/ \E j \in DOMAIN T : i = j + 1)
      /\ \A i \in DOMAIN T : i + 1 \in DOMAIN D /\ T[i] = D[i + 1] /\ i + 1 # 1
      /\ \A i, j \in DOMAIN T : i + 1 < j + 1 => i < j
  BY Zenon DEF IsTail
<1>2. \A j \in DOMAIN T : (DelIn(D, j + 1) => DelIn(T, j)) /\ (InsIn(D, j + 1) <=> InsIn(T, j))
  BY <1>1, Zenon DEF DelIn, InsIn
<1>3. \A i \in DOMAIN T : AfterDown(D, i + 1) => AfterDown(T, i)
  <2>1. SUFFICES ASSUME NEW i \in DOMAIN T, AfterDown(D, i + 1) PROVE AfterDown(T, i)
    BY Zenon
  <2>2. PICK j \in DOMAIN D : i + 1 < j /\ DelIn(D, j) /\ D[j].op.id = D[i + 1].op.id
    BY <2>1, Zenon DEF AfterDown
  <2>3. j # 1
    BY <1>1, <2>1, <2>2, Zenon
  <2>4. PICK l \in DOMAIN T : j = l + 1
    BY <1>1, <2>3, Zenon
  <2>5. i < l /\ DelIn(T, l) /\ T[l].op.id = T[i].op.id
    BY <1>1, <1>2, <2>1, <2>2, <2>4, Zenon
  <2>6. QED
    BY <2>4, <2>5, Zenon DEF AfterDown
<1>4. ASSUME NEW j \in DOMAIN D, DelIn(D, j), j # 1 PROVE DelDown(T, D[j].op.id)
  <2>1. PICK l \in DOMAIN T : j = l + 1
    BY <1>1, <1>4, Zenon
  <2>2. DelIn(T, l) /\ T[l].op.id = D[j].op.id
    BY <1>1, <1>2, <1>4, <2>1, Zenon
  <2>3. QED
    BY <2>1, <2>2, Zenon DEF DelDown
<1>5. \A id : DelDown(D, id) => DelDown(T, id) \/ (DelIn(D, 1) /\ D[1].op.id = id)
  BY <1>4, Zenon DEF DelDown
<1>6. AfterDown(D, 1) => DelDown(T, D[1].op.id)
  <2>1. SUFFICES ASSUME AfterDown(D, 1) PROVE DelDown(T, D[1].op.id)
    BY Zenon
  <2>2. PICK j \in DOMAIN D : 1 < j /\ DelIn(D, j) /\ D[j].op.id = D[1].op.id
    BY <2>1, Zenon DEF AfterDown
  <2>3. j # 1
    BY <1>1, <2>2, Zenon
  <2>4. DelDown(T, D[j].op.id)
    BY <1>4, <2>2, <2>3, Zenon
  <2>5. QED
    BY <2>2, <2>4, Zenon
<1>7. ASSUME NEW j \in DOMAIN D, InsIn(D, j), j # 1 PROVE InsDown(T, D[j].op.id)
  <2>1. PICK l \in DOMAIN T : j = l + 1
    BY <1>1, <1>7, Zenon
  <2>2. InsIn(T, l) /\ T[l].op.id = D[j].op.id
    BY <1>1, <1>2, <1>7, <2>1, Zenon
  <2>3. QED
    BY <2>1, <2>2, Zenon DEF InsDown
<1>8. \A id : InsDown(D, id) => InsDown(T, id) \/ (InsIn(D, 1) /\ D[1].op.id = id)
  BY <1>7, Zenon DEF InsDown
<1>9. ASSUME NEW i \in DOMAIN T, NEW id \in Earlier(D, i + 1)
      PROVE  id \in Earlier(T, i) \/ (InsIn(D, 1) /\ D[1].op.id = id)
  <2>1. PICK j \in DOMAIN D : j < i + 1 /\ InsIn(D, j) /\ id = D[j].op.id
    BY <1>9, Zenon DEF Earlier
  <2>2. CASE j = 1
    BY <2>1, <2>2, Zenon
  <2>3. CASE j # 1
    <3>1. PICK l \in DOMAIN T : j = l + 1
      BY <1>1, <2>1, <2>3, Zenon
    <3>2. l < i /\ InsIn(T, l) /\ id = T[l].op.id
      BY <1>1, <1>2, <1>9, <2>1, <3>1, Zenon
    <3>3. QED
      BY <3>1, <3>2, Zenon DEF Earlier
  <2>4. QED
    BY <2>2, <2>3, Zenon
<1>10. \A id : id \notin Earlier(D, 1)
  BY <1>1, Zenon DEF Earlier
<1>11. QED
  BY <1>1, <1>2, <1>3, <1>5, <1>6, <1>8, <1>9, <1>10, ZenonT(60)

LEMMA ComingTaken ==
  ASSUME NEW s, NEW V, NEW W, NEW D, NEW T, NEW c, NEW K, IsTail(D, T), Coming(s, V, D, c, K),
         \A id \in DOMAIN W : id \in DOMAIN V \/ (InsIn(D, 1) /\ D[1].op.id = id)
  PROVE  Coming(s, W, T, c, K)
<1>1. SUFFICES ASSUME NEW i \in DOMAIN T, T[i].type = "op" PROVE ComingOne(s, W, T, c, K, i)
  BY Zenon DEF Coming
<1>2. i + 1 \in DOMAIN D /\ T[i] = D[i + 1]
  BY <1>1, Zenon DEF IsTail
<1>3. ComingOne(s, V, D, c, K, i + 1)
  BY <1>1, <1>2, Zenon DEF Coming
<1>4. AfterDown(D, i + 1) => AfterDown(T, i)
  BY <1>1, DownTaken, Zenon
<1>5. T[i].op.type = "insert" => \A j \in DOMAIN T : InsIn(T, j) /\ T[j].op.id = T[i].op.id => j = i
  <2>1. SUFFICES ASSUME T[i].op.type = "insert", NEW j \in DOMAIN T, InsIn(T, j), T[j].op.id = T[i].op.id
                 PROVE  j = i
    BY Zenon
  <2>2. j + 1 \in DOMAIN D /\ T[j] = D[j + 1] /\ InsIn(D, j + 1)
    BY <2>1, Zenon DEF IsTail, InsIn
  <2>3. j + 1 = i + 1
    BY <1>2, <1>3, <2>1, <2>2, Zenon DEF ComingOne
  <2>4. QED
    BY <1>1, <2>1, <2>3, Zenon DEF IsTail
<1>6. T[i].op.type = "insert" => T[i].op.id \notin DOMAIN W
  <2>1. SUFFICES ASSUME T[i].op.type = "insert", InsIn(D, 1), D[1].op.id = T[i].op.id PROVE FALSE
    BY <1>2, <1>3, Zenon DEF ComingOne
  <2>2. 1 \in DOMAIN D /\ i + 1 # 1
    BY <1>1, Zenon DEF IsTail
  <2>3. QED
    BY <1>2, <1>3, <2>1, <2>2, Zenon DEF ComingOne
<1>7. QED
  BY <1>2, <1>3, <1>4, <1>5, <1>6, Zenon DEF ComingOne

LEMMA TookNothing ==
  \A s, n, V, U, D, T, c, K :
    Link(s, n, V, U, D, c, K) /\ IsTail(D, T) /\ (DelIn(D, 1) => D[1].op.id \notin DOMAIN V) /\
    (InsIn(D, 1) => D[1].op.id # NoID /\ D[1].op.leftID \notin DOMAIN V \cup {NoID})
    => Link(s, n, V, U, T, c, K)
<1>1. ASSUME NEW d, NEW x \in Reachable(d)
      PROVE  x \in DOMAIN d /\ d[x].leftID \in Reachable(d) \cup {NoID}
  <2>1. PICK R : R = Reachable(d)
    BY Zenon
  <2>2. ClosedUnderChildren(d, R) /\ R \subseteq DOMAIN d
    BY <2>1, ReachClosed, Zenon
  <2>3. SUFFICES ASSUME d[x].leftID \notin R \cup {NoID}
                 PROVE  FALSE
    BY <2>1, <2>2, Zenon
  <2>4. ClosedUnderChildren(d, R \ {x}) /\ R \ {x} \in SUBSET DOMAIN d
    BY <2>2, <2>3, Zenon DEF ClosedUnderChildren
  <2>5. QED
    BY <2>1, <2>4, Zenon DEF Reachable
<1> TAKE s, n, V, U, D, T, c, K
<1> HAVE Link(s, n, V, U, D, c, K) /\ IsTail(D, T) /\ (DelIn(D, 1) => D[1].op.id \notin DOMAIN V) /\
         (InsIn(D, 1) => D[1].op.id # NoID /\ D[1].op.leftID \notin DOMAIN V \cup {NoID})
<1>2. /\ Fresh(s, n, V, U, K) /\ Known(s, V, K) /\ Sent(V, U)
      /\ Coming(s, V, D, c, K) /\ Agree(V, U, D, c) /\ Reach(V, D, c)
  BY Zenon DEF Link
<1>3. Coming(s, V, T, c, K)
  BY <1>2, ComingTaken, Zenon
<1>4. Agree(V, U, T, c)
  <2>1. SUFFICES ASSUME NEW id \in DOMAIN V \cap DOMAIN c PROVE AgreeOne(V, U, T, c, id)
    BY Zenon DEF Agree
  <2>2. AgreeOne(V, U, D, c, id)
    BY <1>2, <2>1, Zenon DEF Agree
  <2>3. DelDown(D, id) => DelDown(T, id) \/ (DelIn(D, 1) /\ D[1].op.id = id)
    BY DownTaken, ZenonT(60)
  <2>4. QED
    BY <2>1, <2>2, <2>3, Zenon DEF AgreeOne
<1>5. InsIn(D, 1) => D[1].op.id \notin Reachable(c)
  <2>1. SUFFICES ASSUME InsIn(D, 1), D[1].op.id \in Reachable(c) PROVE FALSE
    BY Zenon
  <2>2. ReachOne(V, D, 1)
    BY <1>2, <2>1, Zenon DEF Reach, InsIn
  <2>3. D[1].op.leftID \notin Earlier(D, 1)
    BY DownTaken, ZenonT(60)
  <2>4. QED
    BY <2>1, <2>2, <2>3, Zenon DEF ReachOne
<1>6. Reach(V, T, c)
  <2>1. \A id \in Reachable(c) : id \in DOMAIN V \/ InsDown(T, id)
    <3>1. SUFFICES ASSUME NEW id \in Reachable(c), id \notin DOMAIN V PROVE InsDown(T, id)
      BY Zenon
    <3>2. InsDown(D, id)
      BY <1>2, <3>1, Zenon DEF Reach
    <3>3. InsDown(T, id) \/ (InsIn(D, 1) /\ D[1].op.id = id)
      BY <3>2, DownTaken, ZenonT(60)
    <3>4. QED
      BY <1>5, <3>1, <3>3, Zenon
  <2>2. ASSUME NEW i \in DOMAIN T, InsIn(T, i), T[i].op.id \in Reachable(c)
        PROVE  ReachOne(V, T, i)
    <3>1. i + 1 \in DOMAIN D /\ InsIn(D, i + 1) /\ T[i] = D[i + 1]
      BY <2>2, DownTaken, Zenon
    <3>2. ReachOne(V, D, i + 1)
      BY <1>2, <2>2, <3>1, Zenon DEF Reach
    <3>3. ComingOne(s, V, D, c, K, i + 1)
      BY <1>2, <3>1, Zenon DEF Coming, InsIn
    <3>4. T[i].op.id \in DOMAIN c /\ c[T[i].op.id].leftID \in Reachable(c) \cup {NoID}
      BY <2>2, <1>1, Zenon
    <3>5. c[T[i].op.id].leftID = T[i].op.leftID
      BY <3>1, <3>3, <3>4, Zenon DEF ComingOne, SameEntry, InsIn
    <3>6. ~(InsIn(D, 1) /\ D[1].op.id = T[i].op.leftID)
      BY <1>5, <3>4, <3>5, Zenon
    <3>7. \A id \in Earlier(D, i + 1) : id \in Earlier(T, i) \/ (InsIn(D, 1) /\ D[1].op.id = id)
      BY <2>2, DownTaken, Zenon
    <3>8. QED
      BY <3>1, <3>2, <3>6, <3>7, Zenon DEF ReachOne
  <2>3. QED
    BY <2>1, <2>2, Zenon DEF Reach
<1>7. QED
  BY <1>2, <1>3, <1>4, <1>6, Zenon DEF Link

(***************************************************************************)
(* The room forgets characters, and a new connection.                      *)
(***************************************************************************)

-----------------------------------------------------------------------------
(***************************************************************************)
(* The same steps as long as nothing was compacted.                        *)
(***************************************************************************)

(* The room accepts the first operation of U. *)
LEMMA OwnRefs ==
  ASSUME NEW U, NEW T, NEW c, NEW e, NEW x, IsTail(U, T), RefsUp(U, c),
         x = U[1].id, DOMAIN e = DOMAIN c \cup {x}
  PROVE  /\ RefsUp(T, e)
         /\ \A V : Covered(V, U, c) => Covered(V, T, e)
<1>1. /\ 1 \in DOMAIN U
      /\ \A i \in DOMAIN U : ~(i < 1) /\ (i = 1 \/ \E j \in DOMAIN T : i = j + 1)
      /\ \A i \in DOMAIN T : i + 1 \in DOMAIN U /\ T[i] = U[i + 1] /\ i + 1 # 1
      /\ \A i, j \in DOMAIN T : i + 1 < j + 1 => i < j
  BY Zenon DEF IsTail
<1>2. \A j \in DOMAIN T : InsAt(U, j + 1) => InsAt(T, j)
  BY <1>1, Zenon DEF InsAt
<1>3. ASSUME NEW i \in DOMAIN T PROVE RefUp(T, e, i)
  <2>1. ASSUME NEW id \in EarlierUp(U, i + 1) PROVE id \in EarlierUp(T, i) \cup {x}
    <3>1. PICK j \in DOMAIN U : j < i + 1 /\ InsAt(U, j) /\ id = U[j].id
      BY <2>1, Zenon DEF EarlierUp
    <3>2. CASE j = 1
      BY <3>1, <3>2, Zenon
    <3>3. CASE j # 1
      <4>1. PICK l \in DOMAIN T : j = l + 1
        BY <1>1, <3>1, <3>3, Zenon
      <4>2. l < i /\ InsAt(T, l) /\ id = T[l].id
        BY <1>1, <1>2, <1>3, <3>1, <4>1, Zenon
      <4>3. QED
        BY <4>1, <4>2, Zenon DEF EarlierUp
    <3>4. QED
      BY <3>2, <3>3, Zenon
  <2>2. RefUp(U, c, i + 1) /\ T[i] = U[i + 1]
    BY <1>1, <1>3, Zenon DEF RefsUp
  <2>3. QED
    BY <2>1, <2>2, Zenon DEF RefUp
<1>4. ASSUME NEW V, Covered(V, U, c) PROVE Covered(V, T, e)
  <2>1. SUFFICES ASSUME NEW id \in DOMAIN V, id \notin DOMAIN e PROVE InsUp(T, id)
    BY Zenon DEF Covered
  <2>2. PICK j \in DOMAIN U : InsAt(U, j) /\ U[j].id = id
    BY <1>4, <2>1, Zenon DEF Covered, InsUp
  <2>3. j # 1
    BY <2>1, <2>2, Zenon
  <2>4. PICK l \in DOMAIN T : j = l + 1
    BY <1>1, <2>3, Zenon
  <2>5. InsAt(T, l) /\ T[l].id = id
    BY <1>1, <1>2, <2>2, <2>4, Zenon
  <2>6. QED
    BY <2>4, <2>5, Zenon DEF InsUp
<1>5. QED
  BY <1>3, <1>4, Zenon DEF RefsUp

LEMMA GrownRefs ==
  ASSUME NEW c, NEW e, DOMAIN c \subseteq DOMAIN e
  PROVE  /\ \A U : RefsUp(U, c) => RefsUp(U, e)
         /\ \A V, U : Covered(V, U, c) => Covered(V, U, e)
<1>1. \A U, i : RefUp(U, c, i) => RefUp(U, e, i)
  BY Zenon DEF RefUp
<1>2. QED
  BY <1>1, Zenon DEF RefsUp, Covered

LEMMA TabApplies ==
  ASSUME NEW d \in Docs, NEW op \in Ops
  PROVE  BrowserApply(d, op) \in Docs
<1>1. CASE op \in Deletes
  BY <1>1, TabDeletes, Zenon
<1>2. CASE op \in Inserts /\ op.id \notin DOMAIN d
  BY <1>2, TabInserts, Zenon
<1>3. CASE op \in Inserts /\ op.id \in DOMAIN d
  <2>1. d = [id \in DOMAIN d |-> d[id]]
    BY DocsFacts, Zenon DEF Sound
  <2>2. DOMAIN d \cup {op.id} = DOMAIN d
    BY <1>3, Zenon
  <2>3. ApplyInsert(d, op) = d
    BY <2>1, <2>2, Zenon DEF ApplyInsert
  <2>4. op.type = "insert"
    BY <1>3, OpFacts, Zenon
  <2>5. QED
    BY <2>3, <2>4, Zenon DEF BrowserApply
<1>4. QED
  BY <1>1, <1>2, <1>3, Zenon DEF Ops

-----------------------------------------------------------------------------
(***************************************************************************)
(* A tab on its connection, before and after the sync message, and what a  *)
(* connection, open or closed, still carries to the room.  N is what       *)
(* compaction has removed.                                                 *)
(***************************************************************************)
Live(s, n, V, U, D, c, K, N) ==
  /\ Link(s, n, V, U, D, c, K)
  /\ N = {} => Lossless(V, U, D, c)
  /\ \A i \in DOMAIN D : D[i].type # "sync"

Conn(rd, s, d, n, U, Q, c, K, N) ==
  /\ rd => Live(s, n, d, U, Q, c, K, N)
  /\ ~rd => /\ U = <<>> /\ Q # <<>> /\ Q[1].type = "sync"
            /\ Live(s, 1, Q[1].snapshot, U, Tail(Q), c, K, N)

Queue(s, U, c, K, N) == Own(s, U, K) /\ (N = {} => RefsUp(U, c))

(* The document of the room and all characters it ever held. *)
Room(c, K, N, sites) ==
  /\ N \cap DOMAIN c = {} /\ K = DOMAIN c \cup N
  /\ \A id \in DOMAIN c : c[id].leftID \in K \cup {NoID}
  /\ \A id \in K : id.siteID \in sites
  /\ N = {} => Reachable(c) = DOMAIN c

(* op has been applied to c, with e as the result. *)
Applied(c, e, K, op) ==
  \/ /\ op.type = "insert" /\ op.id \notin K /\ Grows(c, e, op)
     /\ op.leftID \in DOMAIN c \cup {NoID} /\ (\A id \in DOMAIN c : c[id].leftID # op.id)
  \/ op.type = "delete" /\ Marks(c, e, op)

LEMMA OwnNew ==
  ASSUME NEW s, NEW U \in Seq(Ops), NEW K, Own(s, U, K)
  PROVE  \A i \in DOMAIN U : U[i].type = "insert" => U[i].id \notin K
<1>1. \A i \in DOMAIN U : U[i] \in Ops
  OBVIOUS
<1>2. \A x \in CharID : ~(x.counter < x.counter)
  BY DEF CharID
<1>3. \A i \in DOMAIN U : U[i].id \in CharID
  BY <1>1, OpFacts, Zenon DEF Ops
<1>4. QED
  BY <1>2, <1>3, Zenon DEF Own

LEMMA RoomAccepts ==
  \A c \in Docs : \A K, N, sites : \A op \in Ops :
    Room(c, K, N, sites) /\ Accepts(c, op) /\ (op.type = "insert" => op.id \notin K)
    => /\ Apply(c, op) \in Docs
       /\ Applied(c, Apply(c, op), K, op)
(* What the room does with an operation it accepts. *)
<1>1. ASSUME NEW d \in Docs, NEW op \in Ops, Accepts(d, op), op \in Inserts => op.id \notin DOMAIN d,
             NEW e, e = Apply(d, op)
      PROVE  /\ e \in Docs
             /\ op \in Inserts => Grows(d, e, op) /\ op.leftID \in DOMAIN d \cup {NoID}
             /\ op \in Deletes => Marks(d, e, op)
  <2> USE <1>1
  <2>1. CASE op \in Inserts
    <3>1. op.type = "insert" /\ op.type # "delete" /\ op \notin Deletes
      BY <2>1, OpFacts, Zenon
    <3>2. e = ApplyInsert(d, op)
      BY <3>1, Zenon DEF Apply
    <3>3. op.leftID \in DOMAIN d \cup {NoID}
      <4>1. InsertOutcome(d, op) = "ok"
        BY <3>1, Zenon DEF Accepts, Outcome
      <4>2. ~LeftMissing(d, op)
        BY <2>1, <4>1 DEF InsertOutcome
      <4>3. QED
        BY <4>2, Zenon DEF LeftMissing
    <3>4. QED
      BY <2>1, <3>1, <3>2, <3>3, GrowsDocs, Zenon
  <2>2. CASE op \in Deletes
    <3>1. op.type = "delete" /\ op.type # "insert" /\ op \notin Inserts
      BY <2>2, OpFacts, Zenon
    <3>2. e = ApplyDelete(d, op)
      BY <3>1, Zenon DEF Apply
    <3>3. op.id \in DOMAIN d
      <4>1. DeleteOutcome(d, op) = "ok"
        BY <3>1, Zenon DEF Accepts, Outcome
      <4>2. QED
        BY <4>1 DEF DeleteOutcome
    <3>4. QED
      BY <2>2, <3>1, <3>2, <3>3, MarksDocs, Zenon
  <2>3. QED
    BY <2>1, <2>2, Zenon DEF Ops
<1> TAKE c \in Docs
<1> TAKE K, N, sites
<1> TAKE op \in Ops
<1> HAVE Room(c, K, N, sites) /\ Accepts(c, op) /\ (op.type = "insert" => op.id \notin K)
<1>2. PICK e : e = Apply(c, op)
  BY Zenon
<1>3. DOMAIN c \subseteq K /\ \A id \in DOMAIN c : c[id].leftID \in K \cup {NoID}
  BY Zenon DEF Room
<1>4. op \in Inserts => op.id \notin DOMAIN c /\ op.type = "insert"
  BY <1>3, OpFacts, Zenon
<1>5. /\ e \in Docs
      /\ op \in Inserts => Grows(c, e, op) /\ op.leftID \in DOMAIN c \cup {NoID}
      /\ op \in Deletes => Marks(c, e, op)
  BY <1>2, <1>4, <1>1, Zenon
<1>6. CASE op \in Inserts
  <2>1. op.id # NoID
    BY <1>6, OpFacts, NoIDAssumption, Zenon
  <2>2. \A id \in DOMAIN c : c[id].leftID # op.id
    BY <1>3, <1>4, <1>6, <2>1, Zenon
  <2>3. Applied(c, e, K, op)
    BY <1>4, <1>5, <1>6, <2>2, ZenonT(60) DEF Applied
  <2>4. QED
    BY <1>2, <1>5, <2>3, Zenon
<1>7. CASE op \in Deletes
  <2>1. Applied(c, e, K, op)
    BY <1>5, <1>7, OpFacts, Zenon DEF Applied
  <2>2. QED
    BY <1>2, <1>5, <2>1, Zenon
<1>8. QED
  BY <1>6, <1>7, Zenon DEF Ops

LEMMA RoomApplied ==
  ASSUME NEW c, NEW e, NEW K, NEW N, NEW sites, NEW op, Room(c, K, N, sites), Applied(c, e, K, op),
         op.type = "insert" => op.id.siteID \in sites
  PROVE  /\ Room(e, K \cup {op.id}, N, sites) /\ K \cup {op.id} = DOMAIN e \cup N
         /\ DOMAIN e = DOMAIN c \cup {op.id}
<1>1. PICK x : x = op.id
  BY Zenon
<1>2. /\ N \cap DOMAIN c = {} /\ K = DOMAIN c \cup N
      /\ \A id \in DOMAIN c : c[id].leftID \in K \cup {NoID}
      /\ \A id \in K : id.siteID \in sites
      /\ N = {} => Reachable(c) = DOMAIN c
  BY Zenon DEF Room
<1>3. CASE /\ op.type = "insert" /\ op.id \notin K /\ Grows(c, e, op)
           /\ op.leftID \in DOMAIN c \cup {NoID} /\ \A id \in DOMAIN c : c[id].leftID # op.id
  <2>1. /\ DOMAIN e = DOMAIN c \cup {x} /\ x \notin K
        /\ \A id \in DOMAIN c : e[id] = c[id]
        /\ e[x].leftID = op.leftID
    BY <1>1, <1>3, Zenon DEF Grows, SameEntry
  <2>2. N = {} => Reachable(e) = DOMAIN e
    BY <1>2, <1>3, ReachGrows, Zenon
  <2>3. \A id \in DOMAIN e : e[id].leftID \in K \cup {x} \cup {NoID}
    BY <1>2, <1>3, <2>1, ZenonT(60)
  <2>4. N \cap DOMAIN e = {} /\ K \cup {x} = DOMAIN e \cup N /\ \A id \in K \cup {x} : id.siteID \in sites
    BY <1>1, <1>2, <1>3, <2>1, Zenon
  <2>5. Room(e, K \cup {x}, N, sites)
    BY <2>2, <2>3, <2>4, Zenon DEF Room
  <2>6. QED
    BY <1>1, <2>1, <2>4, <2>5, ZenonT(60)
<1>4. CASE op.type = "delete" /\ Marks(c, e, op)
  <2>1. /\ DOMAIN e = DOMAIN c /\ x \in DOMAIN c
        /\ \A id \in DOMAIN c : e[id].leftID = c[id].leftID
    BY <1>1, <1>4, Zenon DEF Marks, SameEntry
  <2>2. Reachable(e) = Reachable(c)
    BY <1>4, ReachMarks, Zenon
  <2>3. DOMAIN c \cup {x} = DOMAIN c /\ K \cup {x} = K
    BY <1>2, <2>1, Zenon
  <2>4. Room(e, K, N, sites)
    BY <1>2, <2>1, <2>2, Zenon DEF Room
  <2>5. QED
    BY <1>1, <1>2, <2>1, <2>3, <2>4, Zenon
<1>5. QED
  BY <1>3, <1>4, Zenon DEF Applied

(***************************************************************************)
(* The room accepts an operation: of the tab, and of another one.          *)
(***************************************************************************)
LEMMA QueueOwn ==
  ASSUME NEW s, NEW U \in Seq(Ops), NEW c, NEW e, NEW K, NEW N, NEW op, U # <<>>, op = Head(U),
         Queue(s, U, c, K, N), Applied(c, e, K, op), DOMAIN c \subseteq K, DOMAIN e = DOMAIN c \cup {op.id}
  PROVE  Queue(s, Tail(U), e, K \cup {op.id}, N)
<1>1. IsTail(U, Tail(U)) /\ op = U[1]
  BY TailFacts, Zenon
<1>2. Own(s, U, K) /\ (N = {} => RefsUp(U, c))
  BY Zenon DEF Queue
<1>3. Own(s, Tail(U), K \cup {op.id})
  <2>1. U[1].type = "insert" => op.id = U[1].id
    BY <1>1, Zenon
  <2>2. Own(s, Tail(U), K) /\ (U[1].type = "insert" => Own(s, Tail(U), K \cup {op.id}))
    BY <1>1, <1>2, <2>1, OwnTaken, Zenon
  <2>3. CASE op.type = "insert"
    BY <1>1, <2>2, <2>3, Zenon
  <2>4. CASE op.type # "insert"
    <3>1. op.id \in DOMAIN c
      BY <2>4, Zenon DEF Applied, Marks
    <3>2. K \cup {op.id} = K
      BY <3>1, Zenon
    <3>3. QED
      BY <2>2, <3>2, Zenon
  <2>5. QED
    BY <2>3, <2>4, Zenon
<1>4. N = {} => RefsUp(Tail(U), e)
  <2>1. op.id = U[1].id
    BY <1>1, Zenon
  <2>2. QED
    BY <1>1, <1>2, <2>1, OwnRefs, Zenon
<1>5. QED
  BY <1>3, <1>4, Zenon DEF Queue

LEMMA ConnOwn ==
  \A rd, s, d, n : \A U \in Seq(Ops) : \A Q, c, e, K, N, op :
    U # <<>> /\ op = Head(U) /\ Conn(rd, s, d, n, U, Q, c, K, N) /\ Queue(s, U, c, K, N) /\
    Applied(c, e, K, op) /\ DOMAIN c \subseteq K /\ DOMAIN e = DOMAIN c \cup {op.id}
    => Conn(rd, s, d, n, Tail(U), Q, e, K \cup {op.id}, N)
<1>1. ASSUME NEW s, NEW n, NEW V, NEW U, NEW T, NEW D, NEW c, NEW e, NEW K, NEW op,
             Own(s, U, K), Link(s, n, V, U, D, c, K), IsTail(U, T), op = U[1],
             DOMAIN c \subseteq K, \A id \in DOMAIN c : c[id].leftID # op.id,
             op.type = "insert", op.id \notin K, Grows(c, e, op)
      PROVE  Own(s, T, K \cup {op.id}) /\ Link(s, n, V, T, D, e, K \cup {op.id})
  <2> USE <1>1
  <2> USE Kinds
  <2>1. /\ 1 \in DOMAIN U /\ \A i \in DOMAIN T : i + 1 \in DOMAIN U /\ T[i] = U[i + 1]
    BY UpTaken, Zenon
  <2>2. /\ op.id \notin DOMAIN c /\ DOMAIN e = DOMAIN c \cup {op.id}
        /\ \A id \in DOMAIN c : e[id] = c[id]
        /\ SameEntry(e[op.id], op) /\ ~e[op.id].deleted
    BY Zenon DEF Grows
  <2>3. /\ Fresh(s, n, V, U, K) /\ Known(s, V, K) /\ Sent(V, U)
        /\ Coming(s, V, D, c, K) /\ Agree(V, U, D, c) /\ Reach(V, D, c)
    BY Zenon DEF Link
  <2>4. SentOne(V, U, 1) /\ op.id \in DOMAIN V
    BY <2>1, <2>3, Zenon DEF Sent, SentOne
  <2>5. Own(s, T, K \cup {op.id})
    BY OwnTaken, Zenon
  <2>6. op.id.siteID = s
    BY <2>1, Zenon DEF Own
  <2>7. Fresh(s, n, V, T, K \cup {op.id})
    BY <2>1, <2>3, Zenon DEF Fresh
  <2>8. Known(s, V, K \cup {op.id})
    BY <2>3, Zenon DEF Known
  <2>9. Sent(V, T)
    <3>1. SUFFICES ASSUME NEW i \in DOMAIN T PROVE SentOne(V, T, i)
      BY Zenon DEF Sent
    <3>2. SentOne(V, U, i + 1) /\ T[i] = U[i + 1] /\ (AfterUp(U, i + 1) => AfterUp(T, i))
      BY <2>1, <2>3, UpTaken, Zenon DEF Sent
    <3>3. QED
      BY <3>2, Zenon DEF SentOne
  <2>10. Coming(s, V, D, e, K \cup {op.id})
    <3>1. SUFFICES ASSUME NEW i \in DOMAIN D, D[i].type = "op"
                   PROVE  ComingOne(s, V, D, e, K \cup {op.id}, i)
      BY Zenon DEF Coming
    <3>2. ComingOne(s, V, D, c, K, i)
      BY <2>3, <3>1, Zenon DEF Coming
    <3>3. D[i].op.id \in K /\ D[i].op.id # op.id
      BY <3>2, Zenon DEF ComingOne
    <3>4. /\ D[i].op.id \in DOMAIN e <=> D[i].op.id \in DOMAIN c
          /\ D[i].op.id \in DOMAIN e => e[D[i].op.id] = c[D[i].op.id]
      BY <2>2, <3>3, Zenon
    <3>5. QED
      BY <3>2, <3>3, <3>4, Zenon DEF ComingOne
  <2>11. Agree(V, T, D, e)
    <3>1. SUFFICES ASSUME NEW id \in DOMAIN V \cap DOMAIN e PROVE AgreeOne(V, T, D, e, id)
      BY Zenon DEF Agree
    <3>2. CASE id = op.id
      <4>1. SameEntry(V[id], e[id])
        BY <2>2, <2>4, <3>2, Zenon DEF SentOne, SameEntry
      <4>2. V[id].deleted => DelUp(T, id)
        BY <2>4, <3>2, UpTaken, Zenon DEF SentOne
      <4>3. QED
        BY <2>2, <3>2, <4>1, <4>2, Zenon DEF AgreeOne
    <3>3. CASE id # op.id
      <4>1. id \in DOMAIN V \cap DOMAIN c /\ e[id] = c[id]
        BY <2>2, <3>1, <3>3, Zenon
      <4>2. AgreeOne(V, U, D, c, id)
        BY <2>3, <4>1, Zenon DEF Agree
      <4>3. DelUp(U, id) => DelUp(T, id)
        BY <3>3, UpTaken, Zenon
      <4>4. QED
        BY <4>1, <4>2, <4>3, Zenon DEF AgreeOne
    <3>4. QED
      BY <3>2, <3>3, Zenon
  <2>12. Reach(V, D, e)
    <3>1. Reachable(e) \subseteq Reachable(c) \cup {op.id}
      BY ReachGrows, Zenon
    <3>2. ASSUME NEW i \in DOMAIN D, InsIn(D, i) PROVE D[i].op.id # op.id
      <4>1. ComingOne(s, V, D, c, K, i)
        BY <2>3, <3>2, Zenon DEF Coming, InsIn
      <4>2. QED
        BY <4>1, Zenon DEF ComingOne
    <3>3. QED
      BY <2>3, <2>4, <3>1, <3>2, Zenon DEF Reach
  <2>13. QED
    BY <2>5, <2>7, <2>8, <2>9, <2>10, <2>11, <2>12, ZenonT(60) DEF Link
<1>2. ASSUME NEW s, NEW n, NEW V, NEW U, NEW T, NEW D, NEW c, NEW e, NEW K, NEW op,
             Own(s, U, K), Link(s, n, V, U, D, c, K), IsTail(U, T), op = U[1],
             op.type = "delete", Marks(c, e, op)
      PROVE  Own(s, T, K) /\ Link(s, n, V, T, D, e, K)
  <2> USE <1>2
  <2> USE Kinds
  <2>1. /\ 1 \in DOMAIN U /\ \A i \in DOMAIN T : i + 1 \in DOMAIN U /\ T[i] = U[i + 1]
    BY UpTaken, Zenon
  <2>2. /\ op.id \in DOMAIN c /\ DOMAIN e = DOMAIN c
        /\ \A id \in DOMAIN c : SameEntry(e[id], c[id]) /\ (id # op.id => e[id] = c[id])
        /\ e[op.id].deleted
    BY Zenon DEF Marks, SameEntry
  <2>3. /\ Fresh(s, n, V, U, K) /\ Known(s, V, K) /\ Sent(V, U)
        /\ Coming(s, V, D, c, K) /\ Agree(V, U, D, c) /\ Reach(V, D, c)
    BY Zenon DEF Link
  <2>4. op.id \in DOMAIN V /\ V[op.id].deleted
    BY <2>1, <2>3, Zenon DEF Sent, SentOne
  <2>5. Own(s, T, K)
    BY OwnTaken, Zenon
  <2>7. Fresh(s, n, V, T, K)
    BY <2>1, <2>3, Zenon DEF Fresh
  <2>9. Sent(V, T)
    <3>1. SUFFICES ASSUME NEW i \in DOMAIN T PROVE SentOne(V, T, i)
      BY Zenon DEF Sent
    <3>2. SentOne(V, U, i + 1) /\ T[i] = U[i + 1] /\ (AfterUp(U, i + 1) => AfterUp(T, i))
      BY <2>1, <2>3, UpTaken, Zenon DEF Sent
    <3>3. QED
      BY <3>2, Zenon DEF SentOne
  <2>10. Coming(s, V, D, e, K)
    <3>1. SUFFICES ASSUME NEW i \in DOMAIN D, D[i].type = "op"
                   PROVE  ComingOne(s, V, D, e, K, i)
      BY Zenon DEF Coming
    <3>2. ComingOne(s, V, D, c, K, i)
      BY <2>3, <3>1, Zenon DEF Coming
    <3>3. CASE D[i].op.type = "insert"
      <4>1. D[i].op.id # op.id
        BY <2>4, <3>2, <3>3, Zenon DEF ComingOne
      <4>2. D[i].op.id \in DOMAIN c => e[D[i].op.id] = c[D[i].op.id]
        BY <2>2, <4>1, Zenon
      <4>3. QED
        BY <2>2, <3>2, <3>3, <4>2, Zenon DEF ComingOne
    <3>4. CASE D[i].op.type # "insert"
      <4>1. D[i].op.id \in DOMAIN c /\ c[D[i].op.id].deleted => e[D[i].op.id].deleted
        BY <2>2, Zenon
      <4>2. QED
        BY <2>2, <3>2, <3>4, <4>1, Zenon DEF ComingOne
    <3>5. QED
      BY <3>3, <3>4, Zenon
  <2>11. Agree(V, T, D, e)
    <3>1. SUFFICES ASSUME NEW id \in DOMAIN V \cap DOMAIN e PROVE AgreeOne(V, T, D, e, id)
      BY Zenon DEF Agree
    <3>2. AgreeOne(V, U, D, c, id) /\ id \in DOMAIN c
      BY <2>2, <2>3, <3>1, Zenon DEF Agree
    <3>3. SameEntry(V[id], e[id])
      BY <2>2, <3>2, Zenon DEF AgreeOne, SameEntry
    <3>4. CASE id = op.id
      BY <2>2, <2>4, <3>3, <3>4, Zenon DEF AgreeOne
    <3>5. CASE id # op.id
      <4>1. e[id] = c[id]
        BY <2>2, <3>2, <3>5, Zenon
      <4>2. DelUp(U, id) => DelUp(T, id)
        BY <3>5, UpTaken, ZenonT(60)
      <4>3. QED
        BY <3>2, <3>3, <4>1, <4>2, Zenon DEF AgreeOne
    <3>6. QED
      BY <3>4, <3>5, Zenon
  <2>12. Reach(V, D, e)
    BY <2>3, ReachMarks, Zenon DEF Reach
  <2>13. QED
    BY <2>3, <2>5, <2>7, <2>9, <2>10, <2>11, <2>12, ZenonT(60) DEF Link
<1> TAKE rd, s, d, n
<1> TAKE U \in Seq(Ops)
<1> TAKE Q, c, e, K, N, op
<1> HAVE U # <<>> /\ op = Head(U) /\ Conn(rd, s, d, n, U, Q, c, K, N) /\ Queue(s, U, c, K, N) /\
         Applied(c, e, K, op) /\ DOMAIN c \subseteq K /\ DOMAIN e = DOMAIN c \cup {op.id}
<1>3. IsTail(U, Tail(U)) /\ op = U[1]
  BY TailFacts, Zenon
<1>4. Own(s, U, K) /\ (N = {} => RefsUp(U, c))
  BY Zenon DEF Queue
<1>5. rd /\ Live(s, n, d, U, Q, c, K, N)
  BY Zenon DEF Conn
<1>6. Link(s, n, d, U, Q, c, K) /\ (N = {} => Lossless(d, U, Q, c))
  BY <1>5, Zenon DEF Live
<1>7. Link(s, n, d, Tail(U), Q, e, K \cup {op.id})
  <2>1. CASE op.type = "insert"
    <3>1. op.id \notin K /\ Grows(c, e, op) /\ \A id \in DOMAIN c : c[id].leftID # op.id
      BY <2>1, Kinds, Zenon DEF Applied
    <3>2. QED
      BY <1>3, <1>4, <1>6, <2>1, <3>1, <1>1, Zenon
  <2>2. CASE op.type # "insert"
    <3>1. op.type = "delete" /\ Marks(c, e, op) /\ op.id \in DOMAIN c
      BY <2>2, Zenon DEF Applied, Marks
    <3>2. K \cup {op.id} = K
      BY <3>1, Zenon
    <3>3. Link(s, n, d, Tail(U), Q, e, K)
      BY <1>3, <1>4, <1>6, <3>1, <1>2, Zenon
    <3>4. QED
      BY <3>2, <3>3, Zenon
  <2>3. QED
    BY <2>1, <2>2, Zenon
<1>8. N = {} => Lossless(d, Tail(U), Q, e)
  <2>1. SUFFICES ASSUME N = {} PROVE Lossless(d, Tail(U), Q, e)
    BY Zenon
  <2>2. RefsDown(d, Q) /\ Covered(d, U, c)
    BY <1>6, <2>1, Zenon DEF Lossless
  <2>3. op.id = U[1].id
    BY <1>3, Zenon
  <2>4. Covered(d, Tail(U), e)
    BY <1>3, <1>4, <2>1, <2>2, <2>3, OwnRefs, Zenon
  <2>5. QED
    BY <2>2, <2>4, Zenon DEF Lossless
<1>9. QED
  BY <1>5, <1>7, <1>8, Zenon DEF Conn, Live

LEMMA QueueOther ==
  ASSUME NEW s, NEW U, NEW c, NEW e, NEW K, NEW N, NEW op, Queue(s, U, c, K, N),
         Applied(c, e, K, op), op.type = "insert" => op.id.siteID # s,
         DOMAIN c \subseteq K, DOMAIN e = DOMAIN c \cup {op.id}
  PROVE  Queue(s, U, e, K \cup {op.id}, N)
<1>1. Own(s, U, K) /\ (N = {} => RefsUp(U, c))
  BY Zenon DEF Queue
<1>2. op.id \in K \/ op.id.siteID # s
  BY Zenon DEF Applied, Marks
<1>3. Own(s, U, K \cup {op.id})
  BY <1>1, <1>2, Zenon DEF Own
<1>4. N = {} => RefsUp(U, e)
  <2>1. DOMAIN c \subseteq DOMAIN e
    BY Zenon
  <2>2. QED
    BY <1>1, <2>1, GrownRefs, Zenon
<1>5. QED
  BY <1>3, <1>4, Zenon DEF Queue

LEMMA ConnOther ==
  \A rd, s, d, n, U : \A Q \in Seq(Messages) : \A c, e, K, N : \A op \in Ops :
    Conn(rd, s, d, n, U, Q, c, K, N) /\ Queue(s, U, c, K, N) /\ Applied(c, e, K, op) /\
    (op.type = "insert" => op.id.siteID # s) /\ DOMAIN c \subseteq K /\
    DOMAIN e = DOMAIN c \cup {op.id} /\ (N = {} => Reachable(c) = DOMAIN c)
    => Conn(rd, s, d, n, U, Append(Q, Carrying(op)), e, K \cup {op.id}, N)
<1>1. \A s, n, V, U : \A D \in Seq(Messages) : \A c, e, K, N : \A op \in Ops :
        Live(s, n, V, U, D, c, K, N) /\ Queue(s, U, c, K, N) /\ Applied(c, e, K, op) /\
        (op.type = "insert" => op.id.siteID # s) /\ DOMAIN c \subseteq K /\
        DOMAIN e = DOMAIN c \cup {op.id} /\ (N = {} => Reachable(c) = DOMAIN c)
        => Live(s, n, V, U, Append(D, Carrying(op)), e, K \cup {op.id}, N)
  <2>1. ASSUME NEW D, NEW T, NEW k, NEW op, IsAppend(D, T, Carrying(op), k)
        PROVE  /\ T[k].type = "op" /\ T[k].op = op
               /\ \A i \in DOMAIN D : T[i] = D[i] /\ (InsIn(T, i) => InsIn(D, i))
               /\ op.type = "insert" => InsIn(T, k) /\ InsDown(T, op.id)
               /\ op.type = "delete" => ~InsIn(T, k)
               /\ \A id : DelDown(D, id) => DelDown(T, id)
               /\ \A id : InsDown(D, id) => InsDown(T, id) /\ id \in Earlier(T, k)
               /\ \A i \in DOMAIN D : AfterDown(D, i) => AfterDown(T, i)
               /\ \A i \in DOMAIN D : Earlier(D, i) \subseteq Earlier(T, i)
               /\ op.type = "delete" => /\ DelDown(T, op.id)
                                        /\ \A i \in DOMAIN D : D[i].op.id = op.id => AfterDown(T, i)
    <3> USE <2>1
    <3>1. /\ k \notin DOMAIN D /\ DOMAIN T = DOMAIN D \cup {k} /\ T[k] = Carrying(op)
          /\ \A i \in DOMAIN D : T[i] = D[i] /\ i < k /\ ~(k < i)
      BY Zenon DEF IsAppend
    <3>2. T[k].type = "op" /\ T[k].op = op
      BY <3>1 DEF Carrying
    <3>3. \A j \in DOMAIN D : (DelIn(D, j) => DelIn(T, j)) /\ (InsIn(D, j) <=> InsIn(T, j))
      BY <3>1, Zenon DEF DelIn, InsIn
    <3>4. /\ op.type = "delete" => DelIn(T, k)
          /\ op.type = "insert" => InsIn(T, k)
          /\ op.type = "delete" => ~InsIn(T, k)
      BY <3>1, <3>2, Kinds, Zenon DEF DelIn, InsIn
    <3>5. \A id : DelDown(D, id) => DelDown(T, id)
      BY <3>1, <3>3, Zenon DEF DelDown
    <3>6. \A id : InsDown(D, id) => InsDown(T, id)
      BY <3>1, <3>3, Zenon DEF InsDown
    <3>7. \A id : InsDown(D, id) => id \in Earlier(T, k)
      BY <3>1, <3>3, Zenon DEF InsDown, Earlier
    <3>8. \A i \in DOMAIN D : AfterDown(D, i) => AfterDown(T, i)
      BY <3>1, <3>3, Zenon DEF AfterDown
    <3>9. \A i \in DOMAIN D : Earlier(D, i) \subseteq Earlier(T, i)
      BY <3>1, <3>3, Zenon DEF Earlier
    <3>10. op.type = "delete" => DelDown(T, op.id)
      BY <3>1, <3>2, <3>4, Zenon DEF DelDown
    <3>11. op.type = "delete" => \A i \in DOMAIN D : D[i].op.id = op.id => AfterDown(T, i)
      BY <3>1, <3>2, <3>4, Zenon DEF AfterDown
    <3>12. op.type = "insert" => InsDown(T, op.id)
      BY <3>1, <3>2, <3>4, Zenon DEF InsDown
    <3>13. QED
      BY <3>1, <3>2, <3>3, <3>4, <3>5, <3>6, <3>7, <3>8, <3>9, <3>10, <3>11, <3>12, ZenonT(60)
  <2>2. ASSUME NEW s, NEW n, NEW V, NEW U, NEW D, NEW T, NEW k, NEW c, NEW e, NEW K, NEW op,
               Own(s, U, K), Link(s, n, V, U, D, c, K), IsAppend(D, T, Carrying(op), k),
               DOMAIN c \subseteq K, \A id \in DOMAIN c : c[id].leftID # op.id,
               op.type = "insert", op.id \notin K, op.id.siteID # s, Grows(c, e, op)
        PROVE  Own(s, U, K \cup {op.id}) /\ Link(s, n, V, U, T, e, K \cup {op.id})
    <3> USE <2>2
    <3> USE Kinds
    <3>1. /\ DOMAIN T = DOMAIN D \cup {k} /\ T[k].type = "op" /\ T[k].op = op
          /\ \A i \in DOMAIN D : T[i] = D[i] /\ (InsIn(T, i) => InsIn(D, i))
          /\ InsIn(T, k)
      <4>1. DOMAIN T = DOMAIN D \cup {k}
        BY Zenon DEF IsAppend
      <4>2. T[k].type = "op" /\ T[k].op = op
        BY <2>1
      <4>3. \A i \in DOMAIN D : T[i] = D[i] /\ (InsIn(T, i) => InsIn(D, i))
        BY <2>1, Zenon
      <4>4. InsIn(T, k)
        BY <2>1
      <4>5. QED
        BY <4>1, <4>2, <4>3, <4>4, Zenon
    <3>2. /\ op.id \notin DOMAIN c /\ DOMAIN e = DOMAIN c \cup {op.id}
          /\ \A id \in DOMAIN c : e[id] = c[id]
          /\ SameEntry(e[op.id], op) /\ ~e[op.id].deleted
      BY Zenon DEF Grows
    <3>3. /\ Fresh(s, n, V, U, K) /\ Known(s, V, K) /\ Sent(V, U)
          /\ Coming(s, V, D, c, K) /\ Agree(V, U, D, c) /\ Reach(V, D, c)
      BY Zenon DEF Link
    <3>4. op.id \notin DOMAIN V
      BY <3>3, Zenon DEF Known
    <3>5. Own(s, U, K \cup {op.id}) /\ Fresh(s, n, V, U, K \cup {op.id}) /\ Known(s, V, K \cup {op.id})
      BY <3>3, Zenon DEF Own, Fresh, Known
    <3>6. ASSUME NEW i \in DOMAIN D, D[i].type = "op"
          PROVE  ComingOne(s, V, D, c, K, i) /\ D[i].op.id \in K /\ D[i].op.id # op.id
      BY <3>3, <3>6, Zenon DEF Coming, ComingOne
    <3>7. Coming(s, V, T, e, K \cup {op.id})
      <4>1. ASSUME NEW i \in DOMAIN D, D[i].type = "op"
            PROVE  ComingOne(s, V, T, e, K \cup {op.id}, i)
        <5>1. ComingOne(s, V, D, c, K, i) /\ D[i].op.id \in K /\ D[i].op.id # op.id
          BY <3>6, <4>1, Zenon
        <5>2. /\ D[i].op.id \in DOMAIN e <=> D[i].op.id \in DOMAIN c
              /\ D[i].op.id \in DOMAIN e => e[D[i].op.id] = c[D[i].op.id]
          BY <3>2, <5>1, Zenon
        <5>3. AfterDown(D, i) => AfterDown(T, i)
          BY <4>1, <2>1, Zenon
        <5>4. T[i] = D[i]
          BY <3>1, <4>1, Zenon
        <5>5. D[i].op.type = "insert" => \A j \in DOMAIN T : InsIn(T, j) /\ T[j].op.id = D[i].op.id => j = i
          BY <3>1, <5>1, Zenon DEF ComingOne
        <5>6. QED
          BY <5>1, <5>2, <5>3, <5>4, <5>5, Zenon DEF ComingOne
      <4>2. ComingOne(s, V, T, e, K \cup {op.id}, k)
        <5>1. \A j \in DOMAIN T : InsIn(T, j) /\ T[j].op.id = op.id => j = k
          BY <3>1, <3>6, Zenon DEF InsIn
        <5>2. QED
          BY <3>1, <3>2, <3>4, <5>1, Zenon DEF ComingOne
      <4>3. QED
        BY <3>1, <4>1, <4>2, Zenon DEF Coming
    <3>8. Agree(V, U, T, e)
      <4>1. SUFFICES ASSUME NEW id \in DOMAIN V \cap DOMAIN e PROVE AgreeOne(V, U, T, e, id)
        BY Zenon DEF Agree
      <4>2. id \in DOMAIN V \cap DOMAIN c /\ e[id] = c[id]
        BY <3>2, <3>4, <4>1, Zenon
      <4>3. AgreeOne(V, U, D, c, id)
        BY <3>3, <4>2, Zenon DEF Agree
      <4>4. DelDown(D, id) => DelDown(T, id)
        BY <2>1, Zenon
      <4>5. QED
        BY <4>2, <4>3, <4>4, Zenon DEF AgreeOne
    <3>9. Reach(V, T, e)
      <4>1. /\ Reachable(e) \subseteq Reachable(c) \cup {op.id}
            /\ op.id \in Reachable(e) => op.leftID \in Reachable(c) \cup {NoID}
        BY ReachGrows, Zenon
      <4>2. \A id \in Reachable(c) : id \in DOMAIN V \/ InsDown(D, id)
        BY <3>3, Zenon DEF Reach
      <4>3. \A id : InsDown(D, id) => InsDown(T, id) /\ id \in Earlier(T, k)
        BY <2>1, Zenon
      <4>4. \A id \in Reachable(e) : id \in DOMAIN V \/ InsDown(T, id)
        <5>1. InsDown(T, op.id)
          BY <2>1, Zenon
        <5>2. QED
          BY <4>1, <4>2, <4>3, <5>1, Zenon
      <4>5. ASSUME NEW i \in DOMAIN D, InsIn(T, i), T[i].op.id \in Reachable(e)
            PROVE  ReachOne(V, T, i)
        <5>1. InsIn(D, i) /\ T[i] = D[i] /\ D[i].op.id # op.id
          BY <3>1, <3>6, <4>5, Zenon DEF InsIn
        <5>2. ReachOne(V, D, i)
          BY <3>3, <4>1, <4>5, <5>1, Zenon DEF Reach
        <5>3. Earlier(D, i) \subseteq Earlier(T, i)
          BY <4>5, <2>1, Zenon
        <5>4. QED
          BY <5>1, <5>2, <5>3, Zenon DEF ReachOne
      <4>6. ASSUME T[k].op.id \in Reachable(e) PROVE ReachOne(V, T, k)
        BY <3>1, <4>1, <4>2, <4>3, <4>6, Zenon DEF ReachOne
      <4>7. QED
        BY <3>1, <4>4, <4>5, <4>6, Zenon DEF Reach
    <3>10. QED
      BY <3>3, <3>5, <3>7, <3>8, <3>9, Zenon DEF Link
  <2>3. ASSUME NEW s, NEW n, NEW V, NEW U, NEW D, NEW T, NEW k, NEW c, NEW e, NEW K, NEW op,
               Link(s, n, V, U, D, c, K), IsAppend(D, T, Carrying(op), k),
               DOMAIN c \subseteq K, op.type = "delete", Marks(c, e, op)
        PROVE  Link(s, n, V, U, T, e, K)
    <3> USE <2>3
    <3> USE Kinds
    <3>1. /\ DOMAIN T = DOMAIN D \cup {k} /\ T[k].type = "op" /\ T[k].op = op
          /\ \A i \in DOMAIN D : T[i] = D[i] /\ (InsIn(T, i) => InsIn(D, i))
          /\ ~InsIn(T, k)
      <4>1. DOMAIN T = DOMAIN D \cup {k}
        BY Zenon DEF IsAppend
      <4>2. T[k].type = "op" /\ T[k].op = op
        BY <2>1
      <4>3. \A i \in DOMAIN D : T[i] = D[i] /\ (InsIn(T, i) => InsIn(D, i))
        BY <2>1, Zenon
      <4>4. ~InsIn(T, k)
        BY <2>1
      <4>5. QED
        BY <4>1, <4>2, <4>3, <4>4, Zenon
    <3>2. /\ op.id \in DOMAIN c /\ DOMAIN e = DOMAIN c
          /\ \A id \in DOMAIN c : SameEntry(e[id], c[id]) /\ (id # op.id => e[id] = c[id])
          /\ e[op.id].deleted
      BY Zenon DEF Marks, SameEntry
    <3>3. /\ Fresh(s, n, V, U, K) /\ Known(s, V, K) /\ Sent(V, U)
          /\ Coming(s, V, D, c, K) /\ Agree(V, U, D, c) /\ Reach(V, D, c)
      BY Zenon DEF Link
    <3>4. Coming(s, V, T, e, K)
      <4>1. ASSUME NEW i \in DOMAIN D, D[i].type = "op"
            PROVE  ComingOne(s, V, T, e, K, i)
        <5>1. ComingOne(s, V, D, c, K, i)
          BY <3>3, <4>1, Zenon DEF Coming
        <5>2. T[i] = D[i]
          BY <3>1, <4>1, Zenon
        <5>3. AfterDown(D, i) => AfterDown(T, i)
          BY <4>1, <2>1, ZenonT(60)
        <5>4. D[i].op.id = op.id => AfterDown(T, i)
          BY <4>1, <2>1
        <5>5. D[i].op.type = "insert" => \A j \in DOMAIN T : InsIn(T, j) /\ T[j].op.id = D[i].op.id => j = i
          BY <3>1, <5>1, Zenon DEF ComingOne
        <5>6. D[i].op.type = "insert" /\ D[i].op.id \in DOMAIN e =>
                SameEntry(e[D[i].op.id], D[i].op) /\ (e[D[i].op.id].deleted => AfterDown(T, i))
          BY <3>2, <5>1, <5>3, <5>4, Zenon DEF ComingOne, SameEntry
        <5>7. D[i].op.type = "delete" /\ D[i].op.id \in DOMAIN e => e[D[i].op.id].deleted
          BY <3>2, <5>1, Zenon DEF ComingOne
        <5>8. QED
          BY <5>1, <5>2, <5>5, <5>6, <5>7, Zenon DEF ComingOne
      <4>2. ComingOne(s, V, T, e, K, k)
        BY <3>1, <3>2, Zenon DEF ComingOne
      <4>3. QED
        BY <3>1, <4>1, <4>2, Zenon DEF Coming
    <3>5. Agree(V, U, T, e)
      <4>1. SUFFICES ASSUME NEW id \in DOMAIN V \cap DOMAIN e PROVE AgreeOne(V, U, T, e, id)
        BY Zenon DEF Agree
      <4>2. AgreeOne(V, U, D, c, id) /\ id \in DOMAIN c
        BY <3>2, <3>3, <4>1, Zenon DEF Agree
      <4>3. SameEntry(V[id], e[id])
        BY <3>2, <4>2, Zenon DEF AgreeOne, SameEntry
      <4>4. CASE id = op.id
        <5>1. DelDown(T, op.id)
          BY <2>1
        <5>2. QED
          BY <3>2, <4>3, <4>4, <5>1, ZenonT(60) DEF AgreeOne
      <4>5. CASE id # op.id
        <5>1. DelDown(D, id) => DelDown(T, id)
          BY <2>1, Zenon
        <5>2. e[id] = c[id]
          BY <3>2, <4>2, <4>5, Zenon
        <5>3. QED
          BY <4>2, <4>3, <5>1, <5>2, Zenon DEF AgreeOne
      <4>6. QED
        BY <4>4, <4>5, Zenon
    <3>6. Reach(V, T, e)
      <4>1. Reachable(e) = Reachable(c)
        BY ReachMarks, Zenon
      <4>2. \A id \in Reachable(c) : id \in DOMAIN V \/ InsDown(T, id)
        <5>1. \A id : InsDown(D, id) => InsDown(T, id)
          BY <2>1, Zenon
        <5>2. QED
          BY <3>3, <5>1, Zenon DEF Reach
      <4>3. ASSUME NEW i \in DOMAIN T, InsIn(T, i), T[i].op.id \in Reachable(c)
            PROVE  ReachOne(V, T, i)
        <5>1. i \in DOMAIN D /\ InsIn(D, i) /\ T[i] = D[i]
          BY <3>1, <4>3, Zenon
        <5>2. ReachOne(V, D, i)
          BY <3>3, <4>3, <5>1, Zenon DEF Reach
        <5>3. Earlier(D, i) \subseteq Earlier(T, i)
          BY <5>1, <2>1, Zenon
        <5>4. QED
          BY <5>1, <5>2, <5>3, Zenon DEF ReachOne
      <4>4. QED
        BY <4>1, <4>2, <4>3, Zenon DEF Reach
    <3>7. QED
      BY <3>3, <3>4, <3>5, <3>6, Zenon DEF Link
  <2>4. ASSUME NEW V, NEW D, NEW T, NEW k, NEW op, RefsDown(V, D), IsAppend(D, T, Carrying(op), k),
               op.type = "delete" => op.id \in DOMAIN V \/ InsDown(D, op.id)
        PROVE  RefsDown(V, T)
    <3> USE <2>4
    <3>1. DOMAIN T = DOMAIN D \cup {k} /\ \A i \in DOMAIN D : T[i] = D[i]
      BY Zenon DEF IsAppend
    <3>2. T[k].type = "op" /\ T[k].op = op
      BY <2>1
    <3>3. \A id : InsDown(D, id) => id \in Earlier(T, k)
      BY <2>1, Zenon
    <3>4. \A i \in DOMAIN D : Earlier(D, i) \subseteq Earlier(T, i)
      BY <2>1, Zenon
    <3>5. RefDown(V, T, k)
      BY <3>2, <3>3, Zenon DEF RefDown
    <3>6. \A i \in DOMAIN D : RefDown(V, T, i)
      BY <3>1, <3>4, Zenon DEF RefsDown, RefDown
    <3>7. QED
      BY <3>1, <3>5, <3>6, Zenon DEF RefsDown
  <2> TAKE s, n, V, U
  <2> TAKE D \in Seq(Messages)
  <2> TAKE c, e, K, N
  <2> TAKE op \in Ops
  <2> HAVE Live(s, n, V, U, D, c, K, N) /\ Queue(s, U, c, K, N) /\ Applied(c, e, K, op) /\
           (op.type = "insert" => op.id.siteID # s) /\ DOMAIN c \subseteq K /\
           DOMAIN e = DOMAIN c \cup {op.id} /\ (N = {} => Reachable(c) = DOMAIN c)
  <2>5. PICK T, k : T = Append(D, Carrying(op)) /\ k = Len(D) + 1
    BY Zenon
  <2>6. IsAppend(D, T, Carrying(op), k) /\ Carrying(op).type = "op"
    <3>1. Carrying(op) \in Messages /\ Carrying(op).type = "op"
      BY DEF Messages, Carrying
    <3>2. QED
      BY <2>5, <3>1, AppendFacts, ZenonT(60)
  <2>7. /\ Link(s, n, V, U, D, c, K) /\ (N = {} => Lossless(V, U, D, c))
        /\ \A i \in DOMAIN D : D[i].type # "sync"
    BY Zenon DEF Live
  <2>8. Own(s, U, K) /\ (N = {} => RefsUp(U, c))
    BY Zenon DEF Queue
  <2>9. Link(s, n, V, U, T, e, K \cup {op.id})
    <3>1. CASE op.type = "insert"
      <4>1. op.id \notin K /\ Grows(c, e, op) /\ \A id \in DOMAIN c : c[id].leftID # op.id
        BY <3>1, Kinds, Zenon DEF Applied
      <4>2. QED
        BY <2>6, <2>7, <2>8, <3>1, <4>1, <2>2, ZenonT(60)
    <3>2. CASE op.type # "insert"
      <4>1. op.type = "delete" /\ Marks(c, e, op) /\ op.id \in DOMAIN c
        BY <3>2, Zenon DEF Applied, Marks
      <4>2. K \cup {op.id} = K
        BY <4>1, Zenon
      <4>3. Link(s, n, V, U, T, e, K)
        BY <2>6, <2>7, <4>1, <2>3, Zenon
      <4>4. QED
        BY <4>2, <4>3, Zenon
    <3>3. QED
      BY <3>1, <3>2, Zenon
  <2>10. N = {} => Lossless(V, U, T, e)
    <3>1. SUFFICES ASSUME N = {} PROVE Lossless(V, U, T, e)
      BY Zenon
    <3>2. RefsDown(V, D) /\ Covered(V, U, c)
      BY <2>7, <3>1, Zenon DEF Lossless
    <3>3. op.type = "delete" => op.id \in DOMAIN V \/ InsDown(D, op.id)
      <4>1. op.type = "delete" => op.id \in Reachable(c)
        BY <3>1, Kinds, Zenon DEF Applied, Marks
      <4>2. QED
        BY <2>7, <4>1, Zenon DEF Link, Reach
    <3>4. RefsDown(V, T)
      BY <2>6, <3>2, <3>3, <2>4, Zenon
    <3>5. Covered(V, U, e)
      <4>1. DOMAIN c \subseteq DOMAIN e
        BY Zenon
      <4>2. QED
        BY <3>2, <4>1, GrownRefs, Zenon
    <3>6. QED
      BY <3>4, <3>5, Zenon DEF Lossless
  <2>11. \A i \in DOMAIN T : T[i].type # "sync"
    BY <2>6, <2>7, Kinds, Zenon DEF IsAppend
  <2>12. Live(s, n, V, U, T, e, K \cup {op.id}, N)
    BY <2>9, <2>10, <2>11, Zenon DEF Live
  <2>13. QED
    BY <2>5, <2>12, Zenon
<1>2. ASSUME NEW X, NEW s \in Seq(X), NEW x \in X, s # <<>>
      PROVE  /\ Tail(s) \in Seq(X) /\ Tail(Append(s, x)) = Append(Tail(s), x)
             /\ Append(s, x)[1] = s[1] /\ Append(s, x) # <<>>
  BY <1>2, SMTT(30)
<1> TAKE rd, s, d, n, U
<1> TAKE Q \in Seq(Messages)
<1> TAKE c, e, K, N
<1> TAKE op \in Ops
<1> HAVE Conn(rd, s, d, n, U, Q, c, K, N) /\ Queue(s, U, c, K, N) /\ Applied(c, e, K, op) /\
         (op.type = "insert" => op.id.siteID # s) /\ DOMAIN c \subseteq K /\
         DOMAIN e = DOMAIN c \cup {op.id} /\ (N = {} => Reachable(c) = DOMAIN c)
<1>3. CASE rd
  <2>1. Live(s, n, d, U, Q, c, K, N)
    BY <1>3, Zenon DEF Conn
  <2>2. Live(s, n, d, U, Append(Q, Carrying(op)), e, K \cup {op.id}, N)
    BY <2>1, <1>1, Zenon
  <2>3. QED
    BY <1>3, <2>2, Zenon DEF Conn
<1>4. CASE ~rd
  <2>1. /\ U = <<>> /\ Q # <<>> /\ Q[1].type = "sync"
        /\ Live(s, 1, Q[1].snapshot, U, Tail(Q), c, K, N)
    BY <1>4, ZenonT(60) DEF Conn
  <2>2. Carrying(op) \in Messages
    BY SMTT(30) DEF Messages, Carrying
  <2>3. /\ Tail(Q) \in Seq(Messages) /\ Tail(Append(Q, Carrying(op))) = Append(Tail(Q), Carrying(op))
        /\ Append(Q, Carrying(op))[1] = Q[1] /\ Append(Q, Carrying(op)) # <<>>
    BY <2>1, <2>2, <1>2, SMTT(30)
  <2>4. Live(s, 1, Q[1].snapshot, U, Append(Tail(Q), Carrying(op)), e, K \cup {op.id}, N)
    BY <2>1, <2>3, <1>1, Zenon
  <2>5. QED
    BY <1>4, <2>1, <2>3, <2>4, Zenon DEF Conn
<1>5. QED
  BY <1>3, <1>4, Zenon
=============================================================================
