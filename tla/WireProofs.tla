------------------------------ MODULE WireProofs ------------------------------
(* What is read from the bytes that RadioWire writes, for any phones: all of  *)
(* them from the bytes of a list, those before the cut when the end is cut    *)
(* off, and the same phones first when anything follows.                      *)
EXTENDS RadioWire, SequenceTheorems, WellFoundedInduction,
        TLAPS

-----------------------------------------------------------------------------
(* Induction over numbers, through the least number for which what is to be   *)
(* shown would not hold, and functions that are defined by it.                *)

\* Numbers have a least one.
LEMMA HasLeast ==
  ASSUME NEW S, S \subseteq Nat, S # {}
  PROVE  \E i \in S : \A j \in S : i <= j
<1> DEFINE Less == {ss \in Nat \X Nat : ss[1] < ss[2]}
<1>1. IsWellFoundedOn(Less, Nat)
  BY NatLessThanWellFounded DEF OpToRel, Less
<1>2. \A i, j \in S : <<j, i>> \in Less <=> j < i OBVIOUS
<1> HIDE DEF Less
<1>3. \E x \in S : \A y \in S : ~(<<y, x>> \in Less)
  BY ONLY <1>1, WFMin, S \subseteq Nat, S # {}
<1>4. PICK i \in S : \A j \in S : ~(<<j, i>> \in Less)
  BY <1>3
<1>5. ASSUME NEW j \in S PROVE i <= j
  <2>1. ~(j < i) BY <1>2, <1>4
  <2>2. i \in Nat /\ j \in Nat OBVIOUS
  <2> QED BY <2>1, <2>2
<1> QED BY <1>5

\* What Min of FiniteSetsExt chooses.
LEMMA LeastIsMin ==
  ASSUME NEW S, NEW i \in S, S \subseteq Nat, \A j \in S : i <= j
  PROVE  Min(S) = i
<1>1. \A j \in S : (\A k \in S : j <= k) => j = i OBVIOUS
<1> QED BY <1>1 DEF Min

\* g and h are the same below n.
Same(g, h, n) == \A i \in 0..(n - 1) : g[i] = h[i]

\* What G makes of a function at n depends only on its values below n.
LooksBack(G, V) ==
  \A n \in Nat : \A g, h \in [Nat -> V] : Same(g, h, n) => G[n][g] = G[n][h]

\* f has the values that G makes of it, below n.
Solves(f, G, n) == \A i \in 0..(n - 1) : f[i] = G[i][f]

LEMMA SolvesSome ==
  ASSUME NEW V, NEW G \in [Nat -> [[Nat -> V] -> V]], NEW h \in [Nat -> V],
         LooksBack(G, V), NEW n \in Nat
  PROVE  \E f \in [Nat -> V] : Solves(f, G, n)
<1> DEFINE No == {m \in Nat : ~\E f \in [Nat -> V] : Solves(f, G, m)}
<1>1. No = {}
  <2> SUFFICES ASSUME No # {} PROVE FALSE OBVIOUS
  <2>0. No \subseteq Nat OBVIOUS
  <2>1. 0 \notin No BY DEF Solves
  <2> HIDE DEF No
  <2>2. PICK m \in No : \A j \in No : m <= j BY <2>0, HasLeast
  <2>3. m \in Nat /\ m # 0 BY <2>0, <2>1, <2>2
  <2>4. PICK k \in Nat : k = m - 1 BY <2>3
  <2>5. k \notin No BY <2>2, <2>3, <2>4
  <2>6. PICK f \in [Nat -> V] : Solves(f, G, k) BY <2>5 DEF No
  <2> DEFINE g == [f EXCEPT ![k] = G[k][f]]
  <2>7. g \in [Nat -> V] /\ g[k] = G[k][f] /\ \A i \in 0..(k - 1) : g[i] = f[i]
    BY <2>4
  <2> HIDE DEF g
  <2>8. ASSUME NEW i \in 0..(m - 1) PROVE g[i] = G[i][g]
    <3>1. i \in Nat /\ Same(f, g, i) BY <2>3, <2>4, <2>7 DEF Same
    <3>2. G[i][f] = G[i][g] BY <2>7, <3>1 DEF LooksBack
    <3>3. CASE i = k BY <2>7, <3>2, <3>3
    <3>4. CASE i # k
      <4>1. i \in 0..(k - 1) BY <2>4, <3>4
      <4> QED BY <2>6, <2>7, <3>2, <4>1 DEF Solves
    <3> QED BY <3>3, <3>4
  <2> QED BY <2>2, <2>7, <2>8 DEF No, Solves
<1> QED BY <1>1

LEMMA SolvesOne ==
  ASSUME NEW V, NEW G \in [Nat -> [[Nat -> V] -> V]], LooksBack(G, V),
         NEW n \in Nat, NEW m \in Nat, n <= m,
         NEW f \in [Nat -> V], NEW g \in [Nat -> V],
         Solves(f, G, n), Solves(g, G, m)
  PROVE  Same(f, g, n)
<1> DEFINE No == {i \in 0..(n - 1) : f[i] # g[i]}
<1> SUFFICES ASSUME No # {} PROVE FALSE BY DEF Same
<1>0. No \subseteq Nat /\ No \subseteq 0..(n - 1) OBVIOUS
<1> HIDE DEF No
<1>1. PICK i \in No : \A j \in No : i <= j BY <1>0, HasLeast
<1>2. i \in 0..(n - 1) /\ i \in 0..(m - 1) /\ i \in Nat BY <1>0, <1>1
<1>3. ASSUME NEW j \in 0..(i - 1) PROVE f[j] = g[j]
  <2>1. j \in 0..(n - 1) /\ ~(i <= j) BY <1>2
  <2> QED BY <1>1, <2>1 DEF No
<1>4. Same(f, g, i) BY <1>3 DEF Same
<1>5. G[i][f] = G[i][g] BY <1>2, <1>4 DEF LooksBack
<1>6. f[i] = g[i] BY <1>2, <1>5 DEF Solves
<1> QED BY <1>1, <1>6 DEF No

\* There is a function that has these values everywhere.
Defines(G, V) ==
  /\ G \in [Nat -> [[Nat -> V] -> V]]
  /\ LooksBack(G, V)
  /\ \E h \in [Nat -> V] : TRUE

LEMMA Recursion ==
  ASSUME NEW V, NEW G, Defines(G, V)
  PROVE  \E f \in [Nat -> V] : \A n \in Nat : f[n] = G[n][f]
<1>0. G \in [Nat -> [[Nat -> V] -> V]] /\ LooksBack(G, V) BY DEF Defines
<1> PICK h \in [Nat -> V] : TRUE BY DEF Defines
<1> DEFINE part == [n \in Nat |-> CHOOSE f \in [Nat -> V] : Solves(f, G, n)]
           all == [n \in Nat |-> part[n + 1][n]]
<1>1. ASSUME NEW n \in Nat PROVE part[n] \in [Nat -> V] /\ Solves(part[n], G, n)
  BY <1>0, SolvesSome
<1> HIDE DEF part
<1>2. all \in [Nat -> V] BY <1>1
<1>3. ASSUME NEW n \in Nat PROVE all[n] = G[n][all]
  <2>1. n + 1 \in Nat /\ n \in 0..((n + 1) - 1) OBVIOUS
  <2>2. all[n] = G[n][part[n + 1]] BY <1>1, <2>1 DEF Solves
  <2>3. ASSUME NEW i \in 0..(n - 1) PROVE part[n + 1][i] = all[i]
    <3>1. /\ i \in Nat /\ i + 1 \in Nat /\ i + 1 <= n + 1
          /\ i \in 0..((i + 1) - 1)
      OBVIOUS
    <3>2. Same(part[i + 1], part[n + 1], i + 1)
      BY <1>0, <1>1, <2>1, <3>1, SolvesOne
    <3> QED BY <3>1, <3>2 DEF Same
  <2>4. Same(part[n + 1], all, n) BY <2>3 DEF Same
  <2>5. part[n + 1] \in [Nat -> V] BY <1>1, <2>1
  <2> HIDE DEF all
  <2>6. G[n][part[n + 1]] = G[n][all] BY <1>0, <1>2, <2>4, <2>5 DEF LooksBack
  <2> QED BY <2>2, <2>6
<1> HIDE DEF all
<1> QED BY <1>2, <1>3

-----------------------------------------------------------------------------
(* Folds over sequences: FoldLeft takes the greatest of a set of places, then *)
(* that of the others, and so on.                                             *)

LEMMA GreatestIsMax ==
  ASSUME NEW S, NEW i \in S, S \subseteq Nat, \A j \in S : j <= i
  PROVE  Max(S) = i
<1>1. \A j \in S : (\A k \in S : k <= j) => j = i OBVIOUS
<1> QED BY <1>1 DEF Max

LEMMA MaxInSet ==
  ASSUME NEW n \in Nat, NEW S \in SUBSET (1..n), S # {}
  PROVE  Max(S) \in S
<1> DEFINE T == {n - i : i \in S}
<1>1. T \subseteq Nat /\ T # {} OBVIOUS
<1>2. PICK k \in T : \A j \in T : k <= j
  <2> HIDE DEF T
  <2> QED BY <1>1, HasLeast
<1>3. PICK i \in S : k = n - i OBVIOUS
<1>4. ASSUME NEW j \in S PROVE j <= i
  <2>1. k <= n - j BY <1>2
  <2> QED BY <1>3, <2>1
<1>5. S \subseteq Nat OBVIOUS
<1> QED BY <1>3, <1>4, <1>5, GreatestIsMax

LEMMA UpTo ==
  ASSUME NEW n \in Nat, n # 0
  PROVE  /\ 1..n # {} /\ Max(1..n) = n
         /\ (1..n) \ {n} = 1..(n - 1)
<1>1. n \in 1..n /\ 1..n \subseteq Nat /\ \A j \in 1..n : j <= n OBVIOUS
<1>2. Max(1..n) = n BY <1>1, GreatestIsMax
<1>3. (1..n) \ {n} = 1..(n - 1) OBVIOUS
<1> QED BY <1>1, <1>2, <1>3

Iterates(g, G, b, n) ==
  \A s \in SUBSET (1..n) :
    g[s] = IF s = {} THEN b ELSE G[Max(s)][g[s \ {Max(s)}]]

LEMMA IteratesOneMore ==
  ASSUME NEW n \in Nat, NEW V, NEW b \in V, NEW k \in 0..(n - 1),
         NEW G \in [1..n -> [V -> V]],
         NEW g \in [SUBSET (1..k) -> V], Iterates(g, G, b, k)
  PROVE  \E h \in [SUBSET (1..(k + 1)) -> V] : Iterates(h, G, b, k + 1)
<1>1. PICK m \in 1..n : m = k + 1 OBVIOUS
<1>2. k \in Nat /\ m \notin 1..k /\ (1..m) \ {m} = 1..k
      /\ 1..k \subseteq 1..m
  BY <1>1
<1> DEFINE h == [s \in SUBSET (1..m) |->
                   IF m \notin s THEN g[s] ELSE G[m][g[s \ {m}]]]
<1>3. ASSUME NEW s \in SUBSET (1..m) PROVE s \ {m} \in SUBSET (1..k)
  BY <1>2
<1>4. h \in [SUBSET (1..m) -> V]
  <2> SUFFICES ASSUME NEW s \in SUBSET (1..m)
               PROVE  (IF m \notin s THEN g[s] ELSE G[m][g[s \ {m}]]) \in V
    OBVIOUS
  <2>1. m \notin s => s = s \ {m} OBVIOUS
  <2> QED BY <1>3, <2>1
<1>5. ASSUME NEW s \in SUBSET (1..m)
      PROVE  h[s] = IF s = {} THEN b ELSE G[Max(s)][h[s \ {Max(s)}]]
  <2>1. CASE m \notin s
    <3>1. s \in SUBSET (1..k) /\ h[s] = g[s] BY <1>3, <2>1
    <3>2. g[s] = IF s = {} THEN b ELSE G[Max(s)][g[s \ {Max(s)}]]
      BY <3>1 DEF Iterates
    <3>3. h[s \ {Max(s)}] = g[s \ {Max(s)}] BY <2>1
    <3> QED BY <3>1, <3>2, <3>3
  <2>2. CASE m \in s
    <3>1. Max(s) = m
      <4>1. s \subseteq Nat /\ \A j \in s : j <= m OBVIOUS
      <4> QED BY <2>2, <4>1, GreatestIsMax
    <3>2. h[s] = G[m][g[s \ {m}]] BY <2>2
    <3>3. s \ {m} \in SUBSET (1..m) /\ m \notin s \ {m} OBVIOUS
    <3>4. h[s \ {m}] = g[s \ {m}] BY <3>3
    <3> QED BY <2>2, <3>1, <3>2, <3>4
  <2> QED BY <2>1, <2>2
<1> HIDE DEF h
<1>6. Iterates(h, G, b, m) BY <1>5 DEF Iterates
<1> QED BY <1>1, <1>4, <1>6

LEMMA IteratesAll ==
  ASSUME NEW n \in Nat, NEW V, NEW b \in V, NEW G \in [1..n -> [V -> V]]
  PROVE  \E g \in [SUBSET (1..n) -> V] : Iterates(g, G, b, n)
<1> DEFINE Yes(m) == \E g \in [SUBSET (1..m) -> V] : Iterates(g, G, b, m)
           No == {m \in 0..n : ~Yes(m)}
<1>1. Yes(0)
  <2> DEFINE g == [s \in SUBSET (1..0) |-> b]
  <2>1. \A s \in SUBSET (1..0) : s = {} OBVIOUS
  <2>2. g \in [SUBSET (1..0) -> V] /\ Iterates(g, G, b, 0)
    BY <2>1 DEF Iterates
  <2> QED BY <2>2
<1>2. No = {}
  <2> SUFFICES ASSUME No # {} PROVE FALSE OBVIOUS
  <2>0. No \subseteq Nat /\ No \subseteq 0..n OBVIOUS
  <2> HIDE DEF No, Yes
  <2>1. PICK m \in No : \A j \in No : m <= j BY <2>0, HasLeast
  <2>2. m \in 0..n /\ m # 0 BY <1>1, <2>0, <2>1 DEF No
  <2>3. PICK k \in 0..(n - 1) : k = m - 1 BY <2>2
  <2>4. k \in 0..n /\ k \notin No BY <2>1, <2>2, <2>3
  <2>5. PICK g \in [SUBSET (1..k) -> V] : Iterates(g, G, b, k)
    BY <2>4 DEF No, Yes
  <2>6. \E h \in [SUBSET (1..(k + 1)) -> V] : Iterates(h, G, b, k + 1)
    BY ONLY n \in Nat, b \in V, k \in 0..(n - 1), G \in [1..n -> [V -> V]],
            g \in [SUBSET (1..k) -> V], <2>5, IteratesOneMore
  <2>7. k + 1 = m BY <2>2, <2>3
  <2> QED BY <2>1, <2>6, <2>7 DEF No, Yes
<1>3. n \in 0..n OBVIOUS
<1> QED BY <1>2, <1>3

\* Each operator that is folded stays in V, and f has what the fold has after
\* each element.  The five lemmas are one, for each operator.
PhoneFold(f, t, n, b, V) ==
  /\ \A v \in V : \A k \in 1..n : SetField(v, t[k]) \in V
  /\ f[0] = b /\ \A k \in 1..n : f[k] = SetField(f[k - 1], t[k])

SecondsFold(f, t, n, b, V) ==
  /\ \A v \in V : \A k \in 1..n : SetSeconds(v, t[k]) \in V
  /\ f[0] = b /\ \A k \in 1..n : f[k] = SetSeconds(f[k - 1], t[k])

PhonesFold(f, t, n, b, V) ==
  /\ \A v \in V : \A k \in 1..n : AddPhone(v, t[k]) \in V
  /\ f[0] = b /\ \A k \in 1..n : f[k] = AddPhone(f[k - 1], t[k])

BytesFold(f, t, n, b, V) ==
  /\ \A v \in V : \A k \in 1..n : WritePhone(v, t[k]) \in V
  /\ f[0] = b /\ \A k \in 1..n : f[k] = WritePhone(f[k - 1], t[k])

SizesFold(f, t, n, b, V) ==
  /\ \A v \in V : \A k \in 1..n : AddSize(v, t[k]) \in V
  /\ f[0] = b /\ \A k \in 1..n : f[k] = AddSize(f[k - 1], t[k])

LEMMA FoldPhone ==
  ASSUME NEW n \in Nat, NEW t, DOMAIN t = 1..n, NEW V, NEW b \in V,
         NEW f, PhoneFold(f, t, n, b, V)
  PROVE  FoldLeft(SetField, b, t) = f[n]
<1>0. /\ \A v \in V : \A k \in 1..n : SetField(v, t[k]) \in V
      /\ f[0] = b /\ \A k \in 1..n : f[k] = SetField(f[k - 1], t[k])
  BY DEF PhoneFold
<1> DEFINE Iter(g) ==
             g = [s \in SUBSET DOMAIN t |->
                    IF s = {} THEN b ELSE SetField(g[s \ {Max(s)}], t[Max(s)])]
<1>1. \E g : Iter(g)
  <2> DEFINE G == [k \in 1..n |-> [v \in V |-> SetField(v, t[k])]]
  <2>1. G \in [1..n -> [V -> V]] BY <1>0
  <2>2. ASSUME NEW k \in 1..n, NEW v \in V PROVE G[k][v] = SetField(v, t[k])
    BY <1>0
  <2> HIDE DEF G
  <2>3. PICK g \in [SUBSET (1..n) -> V] : Iterates(g, G, b, n)
    BY <2>1, IteratesAll
  <2>4. ASSUME NEW s \in SUBSET (1..n)
        PROVE  g[s] = IF s = {} THEN b
                      ELSE SetField(g[s \ {Max(s)}], t[Max(s)])
    <3>1. CASE s = {} BY <2>3, <3>1 DEF Iterates
    <3>2. CASE s # {}
      <4>1. PICK k : k = Max(s) OBVIOUS
      <4>2. k \in s BY <3>2, <4>1, MaxInSet
      <4>3. k \in 1..n /\ g[s \ {k}] \in V BY <4>2
      <4>4. g[s] = G[k][g[s \ {k}]] BY <2>3, <3>2, <4>1 DEF Iterates
      <4>5. g[s] = SetField(g[s \ {k}], t[k]) BY <2>2, <4>3, <4>4
      <4> QED BY <3>2, <4>1, <4>5
    <3> QED BY <3>1, <3>2
  <2>5. Iter(g) BY <2>4
  <2> QED BY <2>5
<1>2. ASSUME NEW g, Iter(g) PROVE g[1..n] = f[n]
  <2> DEFINE No == {k \in 0..n : g[1..k] # f[k]}
  <2>1. ASSUME NEW s \in SUBSET (1..n)
        PROVE  g[s] = IF s = {} THEN b
                      ELSE SetField(g[s \ {Max(s)}], t[Max(s)])
    BY <1>2
  <2> HIDE DEF Iter
  <2>2. No = {}
    <3> SUFFICES ASSUME No # {} PROVE FALSE OBVIOUS
    <3>0. No \subseteq Nat /\ No \subseteq 0..n OBVIOUS
    <3>1. 0 \notin No
      <4>1. 1..0 = {} OBVIOUS
      <4>2. g[{}] = b BY <2>1
      <4> QED BY <1>0, <4>1, <4>2
    <3> HIDE DEF No
    <3>2. PICK k \in No : \A j \in No : k <= j BY <3>0, HasLeast
    <3>3. k \in Nat /\ k # 0 /\ k \in 1..n BY <3>0, <3>1, <3>2
    <3>4. k - 1 \in 0..n /\ k - 1 \notin No BY <3>2, <3>3
    <3>5. g[1..(k - 1)] = f[k - 1] BY <3>4 DEF No
    <3>6. /\ 1..k # {} /\ Max(1..k) = k /\ (1..k) \ {k} = 1..(k - 1)
          /\ 1..k \in SUBSET (1..n)
      BY ONLY <3>3, n \in Nat, UpTo
    <3>7. g[1..k] = SetField(g[1..(k - 1)], t[k]) BY <2>1, <3>6
    <3> QED BY <1>0, <3>2, <3>3, <3>5, <3>7 DEF No
  <2> QED BY <2>2
<1> DEFINE iter == CHOOSE g : Iter(g)
<1>3. FoldLeft(SetField, b, t) = iter[1..n]
  BY DEF FoldLeft, MapThenFoldSet
<1>4. Iter(iter) BY <1>1
<1> HIDE DEF Iter, iter
<1> QED BY <1>2, <1>3, <1>4

LEMMA FoldSeconds ==
  ASSUME NEW n \in Nat, NEW t, DOMAIN t = 1..n, NEW V, NEW b \in V,
         NEW f, SecondsFold(f, t, n, b, V)
  PROVE  FoldLeft(SetSeconds, b, t) = f[n]
<1>0. /\ \A v \in V : \A k \in 1..n : SetSeconds(v, t[k]) \in V
      /\ f[0] = b /\ \A k \in 1..n : f[k] = SetSeconds(f[k - 1], t[k])
  BY DEF SecondsFold
<1> DEFINE Iter(g) ==
             g = [s \in SUBSET DOMAIN t |->
                    IF s = {} THEN b
                    ELSE SetSeconds(g[s \ {Max(s)}], t[Max(s)])]
<1>1. \E g : Iter(g)
  <2> DEFINE G == [k \in 1..n |-> [v \in V |-> SetSeconds(v, t[k])]]
  <2>1. G \in [1..n -> [V -> V]] BY <1>0
  <2>2. ASSUME NEW k \in 1..n, NEW v \in V PROVE G[k][v] = SetSeconds(v, t[k])
    BY <1>0
  <2> HIDE DEF G
  <2>3. PICK g \in [SUBSET (1..n) -> V] : Iterates(g, G, b, n)
    BY <2>1, IteratesAll
  <2>4. ASSUME NEW s \in SUBSET (1..n)
        PROVE  g[s] = IF s = {} THEN b
                      ELSE SetSeconds(g[s \ {Max(s)}], t[Max(s)])
    <3>1. CASE s = {} BY <2>3, <3>1 DEF Iterates
    <3>2. CASE s # {}
      <4>1. PICK k : k = Max(s) OBVIOUS
      <4>2. k \in s BY <3>2, <4>1, MaxInSet
      <4>3. k \in 1..n /\ g[s \ {k}] \in V BY <4>2
      <4>4. g[s] = G[k][g[s \ {k}]] BY <2>3, <3>2, <4>1 DEF Iterates
      <4>5. g[s] = SetSeconds(g[s \ {k}], t[k]) BY <2>2, <4>3, <4>4
      <4> QED BY <3>2, <4>1, <4>5
    <3> QED BY <3>1, <3>2
  <2>5. Iter(g) BY <2>4
  <2> QED BY <2>5
<1>2. ASSUME NEW g, Iter(g) PROVE g[1..n] = f[n]
  <2> DEFINE No == {k \in 0..n : g[1..k] # f[k]}
  <2>1. ASSUME NEW s \in SUBSET (1..n)
        PROVE  g[s] = IF s = {} THEN b
                      ELSE SetSeconds(g[s \ {Max(s)}], t[Max(s)])
    BY <1>2
  <2> HIDE DEF Iter
  <2>2. No = {}
    <3> SUFFICES ASSUME No # {} PROVE FALSE OBVIOUS
    <3>0. No \subseteq Nat /\ No \subseteq 0..n OBVIOUS
    <3>1. 0 \notin No
      <4>1. 1..0 = {} OBVIOUS
      <4>2. g[{}] = b BY <2>1
      <4> QED BY <1>0, <4>1, <4>2
    <3> HIDE DEF No
    <3>2. PICK k \in No : \A j \in No : k <= j BY <3>0, HasLeast
    <3>3. k \in Nat /\ k # 0 /\ k \in 1..n BY <3>0, <3>1, <3>2
    <3>4. k - 1 \in 0..n /\ k - 1 \notin No BY <3>2, <3>3
    <3>5. g[1..(k - 1)] = f[k - 1] BY <3>4 DEF No
    <3>6. /\ 1..k # {} /\ Max(1..k) = k /\ (1..k) \ {k} = 1..(k - 1)
          /\ 1..k \in SUBSET (1..n)
      BY ONLY <3>3, n \in Nat, UpTo
    <3>7. g[1..k] = SetSeconds(g[1..(k - 1)], t[k]) BY <2>1, <3>6
    <3> QED BY <1>0, <3>2, <3>3, <3>5, <3>7 DEF No
  <2> QED BY <2>2
<1> DEFINE iter == CHOOSE g : Iter(g)
<1>3. FoldLeft(SetSeconds, b, t) = iter[1..n]
  BY DEF FoldLeft, MapThenFoldSet
<1>4. Iter(iter) BY <1>1
<1> HIDE DEF Iter, iter
<1> QED BY <1>2, <1>3, <1>4

LEMMA FoldPhones ==
  ASSUME NEW n \in Nat, NEW t, DOMAIN t = 1..n, NEW V, NEW b \in V,
         NEW f, PhonesFold(f, t, n, b, V)
  PROVE  FoldLeft(AddPhone, b, t) = f[n]
<1>0. /\ \A v \in V : \A k \in 1..n : AddPhone(v, t[k]) \in V
      /\ f[0] = b /\ \A k \in 1..n : f[k] = AddPhone(f[k - 1], t[k])
  BY DEF PhonesFold
<1> DEFINE Iter(g) ==
             g = [s \in SUBSET DOMAIN t |->
                    IF s = {} THEN b ELSE AddPhone(g[s \ {Max(s)}], t[Max(s)])]
<1>1. \E g : Iter(g)
  <2> DEFINE G == [k \in 1..n |-> [v \in V |-> AddPhone(v, t[k])]]
  <2>1. G \in [1..n -> [V -> V]] BY <1>0
  <2>2. ASSUME NEW k \in 1..n, NEW v \in V PROVE G[k][v] = AddPhone(v, t[k])
    BY <1>0
  <2> HIDE DEF G
  <2>3. PICK g \in [SUBSET (1..n) -> V] : Iterates(g, G, b, n)
    BY <2>1, IteratesAll
  <2>4. ASSUME NEW s \in SUBSET (1..n)
        PROVE  g[s] = IF s = {} THEN b
                      ELSE AddPhone(g[s \ {Max(s)}], t[Max(s)])
    <3>1. CASE s = {} BY <2>3, <3>1 DEF Iterates
    <3>2. CASE s # {}
      <4>1. PICK k : k = Max(s) OBVIOUS
      <4>2. k \in s BY <3>2, <4>1, MaxInSet
      <4>3. k \in 1..n /\ g[s \ {k}] \in V BY <4>2
      <4>4. g[s] = G[k][g[s \ {k}]] BY <2>3, <3>2, <4>1 DEF Iterates
      <4>5. g[s] = AddPhone(g[s \ {k}], t[k]) BY <2>2, <4>3, <4>4
      <4> QED BY <3>2, <4>1, <4>5
    <3> QED BY <3>1, <3>2
  <2>5. Iter(g) BY <2>4
  <2> QED BY <2>5
<1>2. ASSUME NEW g, Iter(g) PROVE g[1..n] = f[n]
  <2> DEFINE No == {k \in 0..n : g[1..k] # f[k]}
  <2>1. ASSUME NEW s \in SUBSET (1..n)
        PROVE  g[s] = IF s = {} THEN b
                      ELSE AddPhone(g[s \ {Max(s)}], t[Max(s)])
    BY <1>2
  <2> HIDE DEF Iter
  <2>2. No = {}
    <3> SUFFICES ASSUME No # {} PROVE FALSE OBVIOUS
    <3>0. No \subseteq Nat /\ No \subseteq 0..n OBVIOUS
    <3>1. 0 \notin No
      <4>1. 1..0 = {} OBVIOUS
      <4>2. g[{}] = b BY <2>1
      <4> QED BY <1>0, <4>1, <4>2
    <3> HIDE DEF No
    <3>2. PICK k \in No : \A j \in No : k <= j BY <3>0, HasLeast
    <3>3. k \in Nat /\ k # 0 /\ k \in 1..n BY <3>0, <3>1, <3>2
    <3>4. k - 1 \in 0..n /\ k - 1 \notin No BY <3>2, <3>3
    <3>5. g[1..(k - 1)] = f[k - 1] BY <3>4 DEF No
    <3>6. /\ 1..k # {} /\ Max(1..k) = k /\ (1..k) \ {k} = 1..(k - 1)
          /\ 1..k \in SUBSET (1..n)
      BY ONLY <3>3, n \in Nat, UpTo
    <3>7. g[1..k] = AddPhone(g[1..(k - 1)], t[k]) BY <2>1, <3>6
    <3> QED BY <1>0, <3>2, <3>3, <3>5, <3>7 DEF No
  <2> QED BY <2>2
<1> DEFINE iter == CHOOSE g : Iter(g)
<1>3. FoldLeft(AddPhone, b, t) = iter[1..n]
  BY DEF FoldLeft, MapThenFoldSet
<1>4. Iter(iter) BY <1>1
<1> HIDE DEF Iter, iter
<1> QED BY <1>2, <1>3, <1>4

LEMMA FoldBytes ==
  ASSUME NEW n \in Nat, NEW t, DOMAIN t = 1..n, NEW V, NEW b \in V,
         NEW f, BytesFold(f, t, n, b, V)
  PROVE  FoldLeft(WritePhone, b, t) = f[n]
<1>0. /\ \A v \in V : \A k \in 1..n : WritePhone(v, t[k]) \in V
      /\ f[0] = b /\ \A k \in 1..n : f[k] = WritePhone(f[k - 1], t[k])
  BY DEF BytesFold
<1> DEFINE Iter(g) ==
             g = [s \in SUBSET DOMAIN t |->
                    IF s = {} THEN b ELSE WritePhone(g[s \ {Max(s)}], t[Max(s)])]
<1>1. \E g : Iter(g)
  <2> DEFINE G == [k \in 1..n |-> [v \in V |-> WritePhone(v, t[k])]]
  <2>1. G \in [1..n -> [V -> V]] BY <1>0
  <2>2. ASSUME NEW k \in 1..n, NEW v \in V PROVE G[k][v] = WritePhone(v, t[k])
    BY <1>0
  <2> HIDE DEF G
  <2>3. PICK g \in [SUBSET (1..n) -> V] : Iterates(g, G, b, n)
    BY <2>1, IteratesAll
  <2>4. ASSUME NEW s \in SUBSET (1..n)
        PROVE  g[s] = IF s = {} THEN b
                      ELSE WritePhone(g[s \ {Max(s)}], t[Max(s)])
    <3>1. CASE s = {} BY <2>3, <3>1 DEF Iterates
    <3>2. CASE s # {}
      <4>1. PICK k : k = Max(s) OBVIOUS
      <4>2. k \in s BY <3>2, <4>1, MaxInSet
      <4>3. k \in 1..n /\ g[s \ {k}] \in V BY <4>2
      <4>4. g[s] = G[k][g[s \ {k}]] BY <2>3, <3>2, <4>1 DEF Iterates
      <4>5. g[s] = WritePhone(g[s \ {k}], t[k]) BY <2>2, <4>3, <4>4
      <4> QED BY <3>2, <4>1, <4>5
    <3> QED BY <3>1, <3>2
  <2>5. Iter(g) BY <2>4
  <2> QED BY <2>5
<1>2. ASSUME NEW g, Iter(g) PROVE g[1..n] = f[n]
  <2> DEFINE No == {k \in 0..n : g[1..k] # f[k]}
  <2>1. ASSUME NEW s \in SUBSET (1..n)
        PROVE  g[s] = IF s = {} THEN b
                      ELSE WritePhone(g[s \ {Max(s)}], t[Max(s)])
    BY <1>2
  <2> HIDE DEF Iter
  <2>2. No = {}
    <3> SUFFICES ASSUME No # {} PROVE FALSE OBVIOUS
    <3>0. No \subseteq Nat /\ No \subseteq 0..n OBVIOUS
    <3>1. 0 \notin No
      <4>1. 1..0 = {} OBVIOUS
      <4>2. g[{}] = b BY <2>1
      <4> QED BY <1>0, <4>1, <4>2
    <3> HIDE DEF No
    <3>2. PICK k \in No : \A j \in No : k <= j BY <3>0, HasLeast
    <3>3. k \in Nat /\ k # 0 /\ k \in 1..n BY <3>0, <3>1, <3>2
    <3>4. k - 1 \in 0..n /\ k - 1 \notin No BY <3>2, <3>3
    <3>5. g[1..(k - 1)] = f[k - 1] BY <3>4 DEF No
    <3>6. /\ 1..k # {} /\ Max(1..k) = k /\ (1..k) \ {k} = 1..(k - 1)
          /\ 1..k \in SUBSET (1..n)
      BY ONLY <3>3, n \in Nat, UpTo
    <3>7. g[1..k] = WritePhone(g[1..(k - 1)], t[k]) BY <2>1, <3>6
    <3> QED BY <1>0, <3>2, <3>3, <3>5, <3>7 DEF No
  <2> QED BY <2>2
<1> DEFINE iter == CHOOSE g : Iter(g)
<1>3. FoldLeft(WritePhone, b, t) = iter[1..n]
  BY DEF FoldLeft, MapThenFoldSet
<1>4. Iter(iter) BY <1>1
<1> HIDE DEF Iter, iter
<1> QED BY <1>2, <1>3, <1>4

LEMMA FoldSizes ==
  ASSUME NEW n \in Nat, NEW t, DOMAIN t = 1..n, NEW V, NEW b \in V,
         NEW f, SizesFold(f, t, n, b, V)
  PROVE  FoldLeft(AddSize, b, t) = f[n]
<1>0. /\ \A v \in V : \A k \in 1..n : AddSize(v, t[k]) \in V
      /\ f[0] = b /\ \A k \in 1..n : f[k] = AddSize(f[k - 1], t[k])
  BY DEF SizesFold
<1> DEFINE Iter(g) ==
             g = [s \in SUBSET DOMAIN t |->
                    IF s = {} THEN b ELSE AddSize(g[s \ {Max(s)}], t[Max(s)])]
<1>1. \E g : Iter(g)
  <2> DEFINE G == [k \in 1..n |-> [v \in V |-> AddSize(v, t[k])]]
  <2>1. G \in [1..n -> [V -> V]] BY <1>0
  <2>2. ASSUME NEW k \in 1..n, NEW v \in V PROVE G[k][v] = AddSize(v, t[k])
    BY <1>0
  <2> HIDE DEF G
  <2>3. PICK g \in [SUBSET (1..n) -> V] : Iterates(g, G, b, n)
    BY <2>1, IteratesAll
  <2>4. ASSUME NEW s \in SUBSET (1..n)
        PROVE  g[s] = IF s = {} THEN b
                      ELSE AddSize(g[s \ {Max(s)}], t[Max(s)])
    <3>1. CASE s = {} BY <2>3, <3>1 DEF Iterates
    <3>2. CASE s # {}
      <4>1. PICK k : k = Max(s) OBVIOUS
      <4>2. k \in s BY <3>2, <4>1, MaxInSet
      <4>3. k \in 1..n /\ g[s \ {k}] \in V BY <4>2
      <4>4. g[s] = G[k][g[s \ {k}]] BY <2>3, <3>2, <4>1 DEF Iterates
      <4>5. g[s] = AddSize(g[s \ {k}], t[k]) BY <2>2, <4>3, <4>4
      <4> QED BY <3>2, <4>1, <4>5
    <3> QED BY <3>1, <3>2
  <2>5. Iter(g) BY <2>4
  <2> QED BY <2>5
<1>2. ASSUME NEW g, Iter(g) PROVE g[1..n] = f[n]
  <2> DEFINE No == {k \in 0..n : g[1..k] # f[k]}
  <2>1. ASSUME NEW s \in SUBSET (1..n)
        PROVE  g[s] = IF s = {} THEN b
                      ELSE AddSize(g[s \ {Max(s)}], t[Max(s)])
    BY <1>2
  <2> HIDE DEF Iter
  <2>2. No = {}
    <3> SUFFICES ASSUME No # {} PROVE FALSE OBVIOUS
    <3>0. No \subseteq Nat /\ No \subseteq 0..n OBVIOUS
    <3>1. 0 \notin No
      <4>1. 1..0 = {} OBVIOUS
      <4>2. g[{}] = b BY <2>1
      <4> QED BY <1>0, <4>1, <4>2
    <3> HIDE DEF No
    <3>2. PICK k \in No : \A j \in No : k <= j BY <3>0, HasLeast
    <3>3. k \in Nat /\ k # 0 /\ k \in 1..n BY <3>0, <3>1, <3>2
    <3>4. k - 1 \in 0..n /\ k - 1 \notin No BY <3>2, <3>3
    <3>5. g[1..(k - 1)] = f[k - 1] BY <3>4 DEF No
    <3>6. /\ 1..k # {} /\ Max(1..k) = k /\ (1..k) \ {k} = 1..(k - 1)
          /\ 1..k \in SUBSET (1..n)
      BY ONLY <3>3, n \in Nat, UpTo
    <3>7. g[1..k] = AddSize(g[1..(k - 1)], t[k]) BY <2>1, <3>6
    <3> QED BY <1>0, <3>2, <3>3, <3>5, <3>7 DEF No
  <2> QED BY <2>2
<1> DEFINE iter == CHOOSE g : Iter(g)
<1>3. FoldLeft(AddSize, b, t) = iter[1..n]
  BY DEF FoldLeft, MapThenFoldSet
<1>4. Iter(iter) BY <1>1
<1> HIDE DEF Iter, iter
<1> QED BY <1>2, <1>3, <1>4

-----------------------------------------------------------------------------
(* Varints.                                                                   *)

LEMMA VarintIs ==
  \A n \in Nat :
    /\ Varint[n] \in Seq(Nat)
    /\ Varint[n] = IF n < 128 THEN <<n>>
                   ELSE <<128 + (n % 128)>> \o Varint[n \div 128]
<1> DEFINE V == Seq(Nat)
           G == [n \in Nat |-> [h \in [Nat -> V] |->
                   IF n < 128 THEN <<n>>
                   ELSE <<128 + (n % 128)>> \o h[n \div 128]]]
<1> HIDE DEF V
<1>0. ASSUME NEW n \in Nat
      PROVE  /\ n \div 128 \in Nat /\ 128 + (n % 128) \in Nat
             /\ n >= 128 => n \div 128 \in 0..(n - 1)
  OBVIOUS
<1>1. G \in [Nat -> [[Nat -> V] -> V]]
  <2> SUFFICES ASSUME NEW n \in Nat, NEW h \in [Nat -> V]
               PROVE  (IF n < 128 THEN <<n>>
                       ELSE <<128 + (n % 128)>> \o h[n \div 128]) \in V
    OBVIOUS
  <2> USE DEF V
  <2>1. h[n \div 128] \in Seq(Nat) BY <1>0
  <2>2. <<128 + (n % 128)>> \in Seq(Nat) BY <1>0
  <2>3. <<n>> \in Seq(Nat) OBVIOUS
  <2> QED BY <2>1, <2>2, <2>3
<1>2. ASSUME NEW n \in Nat, NEW h \in [Nat -> V]
      PROVE  G[n][h] = IF n < 128 THEN <<n>>
                       ELSE <<128 + (n % 128)>> \o h[n \div 128]
  OBVIOUS
<1>3. LooksBack(G, V)
  <2> HIDE DEF G
  <2> SUFFICES ASSUME NEW n \in Nat, NEW g \in [Nat -> V], NEW h \in [Nat -> V],
                      Same(g, h, n)
               PROVE  G[n][g] = G[n][h]
    BY DEF LooksBack
  <2>1. n >= 128 => g[n \div 128] = h[n \div 128]
    <3> SUFFICES ASSUME n >= 128 PROVE g[n \div 128] = h[n \div 128] OBVIOUS
    <3>1. PICK k \in 0..(n - 1) : k = n \div 128 BY <1>0
    <3> QED BY <3>1 DEF Same
  <2>2. G[n][g] = IF n < 128 THEN <<n>>
                  ELSE <<128 + (n % 128)>> \o g[n \div 128]
    BY <1>2
  <2>3. G[n][h] = IF n < 128 THEN <<n>>
                  ELSE <<128 + (n % 128)>> \o h[n \div 128]
    BY <1>2
  <2>4. n < 128 \/ n >= 128 OBVIOUS
  <2> QED BY <2>1, <2>2, <2>3, <2>4, Zenon
<1>4. PICK some \in [Nat -> V] : TRUE
  <2>1. [n \in Nat |-> <<>>] \in [Nat -> V] BY DEF V
  <2> QED BY <2>1
<1> HIDE DEF G
<1>5. PICK f \in [Nat -> V] : \A n \in Nat : f[n] = G[n][f]
  <2>1. Defines(G, V) BY <1>1, <1>3, <1>4 DEF Defines
  <2> QED BY <2>1, Recursion
<1>6. f = [n \in Nat |-> IF n < 128 THEN <<n>>
                         ELSE <<128 + (n % 128)>> \o f[n \div 128]]
  <2>1. ASSUME NEW n \in Nat
        PROVE  f[n] = IF n < 128 THEN <<n>>
                      ELSE <<128 + (n % 128)>> \o f[n \div 128]
    <3>1. f[n] = G[n][f] BY <1>5
    <3>2. G[n][f] = IF n < 128 THEN <<n>>
                    ELSE <<128 + (n % 128)>> \o f[n \div 128]
      BY <1>2
    <3> QED BY ONLY <3>1, <3>2, Zenon
  <2>2. f = [n \in Nat |-> f[n]] BY ONLY f \in [Nat -> V]
  <2> QED BY <2>1, <2>2
<1>7. Varint = [n \in Nat |-> IF n < 128 THEN <<n>>
                              ELSE <<128 + (n % 128)>> \o Varint[n \div 128]]
  <2> DEFINE Equals(x) ==
               x = [n \in Nat |-> IF n < 128 THEN <<n>>
                                   ELSE <<128 + (n % 128)>> \o x[n \div 128]]
  <2>1. Equals(f) BY ONLY <1>6, Zenon
  <2>2. Varint = CHOOSE x : Equals(x) BY ONLY Zenon DEF Varint
  <2>3. Equals(Varint)
    <3> HIDE DEF Equals
    <3> QED BY ONLY <2>1, <2>2, Zenon
  <2> QED BY ONLY <2>3, Zenon
<1>8. ASSUME NEW n \in Nat
      PROVE  Varint[n] = IF n < 128 THEN <<n>>
                         ELSE <<128 + (n % 128)>> \o Varint[n \div 128]
  BY <1>7
<1> DEFINE No == {n \in Nat : Varint[n] \notin Seq(Nat)}
<1>9. No = {}
  <2> SUFFICES ASSUME No # {} PROVE FALSE OBVIOUS
  <2>0. No \subseteq Nat OBVIOUS
  <2> HIDE DEF No
  <2>1. PICK n \in No : \A j \in No : n <= j BY <2>0, HasLeast
  <2>2. n \in Nat BY <2>0
  <2>3. n >= 128 => Varint[n \div 128] \in Seq(Nat)
    <3> SUFFICES ASSUME n >= 128 PROVE Varint[n \div 128] \in Seq(Nat) OBVIOUS
    <3>1. PICK k \in 0..(n - 1) : k = n \div 128 BY <1>0, <2>2
    <3>2. k \in Nat /\ k \notin No BY <2>1, <2>2
    <3> QED BY <3>1, <3>2 DEF No
  <2>4. <<n>> \in Seq(Nat) /\ <<128 + (n % 128)>> \in Seq(Nat) BY <1>0, <2>2
  <2>5. CASE n < 128
    <3>1. Varint[n] = <<n>> BY <1>8, <2>2, <2>5
    <3> QED BY <2>1, <2>4, <3>1 DEF No
  <2>6. CASE n >= 128
    <3>0. ~(n < 128) BY <2>2, <2>6
    <3>1. Varint[n] = <<128 + (n % 128)>> \o Varint[n \div 128]
      BY <1>8, <2>2, <3>0, Zenon
    <3>2. PICK a \in Seq(Nat) : a = <<128 + (n % 128)>> BY <2>4
    <3>3. PICK v \in Seq(Nat) : v = Varint[n \div 128] BY <2>3, <2>6
    <3>4. Varint[n] = a \o v /\ a \o v \in Seq(Nat) BY <3>1, <3>2, <3>3
    <3> QED BY <2>1, <3>4 DEF No
  <2> QED BY <2>2, <2>5, <2>6
<1> QED BY <1>8, <1>9

LEMMA VarintSizeIs ==
  \A n \in Nat :
    VarintSize[n] = IF n < 128 THEN 1 ELSE 1 + VarintSize[n \div 128]
<1> DEFINE V == Nat
           G == [n \in Nat |-> [h \in [Nat -> V] |->
                   IF n < 128 THEN 1 ELSE 1 + h[n \div 128]]]
<1> HIDE DEF V
<1>0. ASSUME NEW n \in Nat
      PROVE  n \div 128 \in Nat /\ (n >= 128 => n \div 128 \in 0..(n - 1))
  OBVIOUS
<1>1. G \in [Nat -> [[Nat -> V] -> V]] BY <1>0 DEF V
<1>2. ASSUME NEW n \in Nat, NEW h \in [Nat -> V]
      PROVE  G[n][h] = IF n < 128 THEN 1 ELSE 1 + h[n \div 128]
  OBVIOUS
<1>3. LooksBack(G, V)
  <2> HIDE DEF G
  <2> SUFFICES ASSUME NEW n \in Nat, NEW g \in [Nat -> V], NEW h \in [Nat -> V],
                      Same(g, h, n)
               PROVE  G[n][g] = G[n][h]
    BY DEF LooksBack
  <2>1. n >= 128 => g[n \div 128] = h[n \div 128]
    <3> SUFFICES ASSUME n >= 128 PROVE g[n \div 128] = h[n \div 128] OBVIOUS
    <3>1. PICK k \in 0..(n - 1) : k = n \div 128 BY <1>0
    <3> QED BY <3>1 DEF Same
  <2> QED BY <1>2, <2>1
<1>4. PICK some \in [Nat -> V] : TRUE
  <2>1. [n \in Nat |-> 0] \in [Nat -> V] BY DEF V
  <2> QED BY <2>1
<1> HIDE DEF G
<1>5. PICK f \in [Nat -> V] : \A n \in Nat : f[n] = G[n][f]
  <2>1. Defines(G, V) BY <1>1, <1>3, <1>4 DEF Defines
  <2> QED BY <2>1, Recursion
<1>6. f = [n \in Nat |-> IF n < 128 THEN 1 ELSE 1 + f[n \div 128]]
  <2>1. ASSUME NEW n \in Nat
        PROVE  f[n] = IF n < 128 THEN 1 ELSE 1 + f[n \div 128]
    BY <1>2, <1>5
  <2>2. f = [n \in Nat |-> f[n]] OBVIOUS
  <2> QED BY <2>1, <2>2
<1>7. VarintSize =
        [n \in Nat |-> IF n < 128 THEN 1 ELSE 1 + VarintSize[n \div 128]]
  BY <1>6 DEF VarintSize
<1> QED BY <1>7

\* The last byte of a varint is the only one below 128.
EndsLow(v) ==
  Len(v) > 0 /\ v[Len(v)] < 128 /\ \A j \in 1..(Len(v) - 1) : v[j] >= 128

LEMMA VarintForm ==
  ASSUME NEW n \in Nat
  PROVE  /\ Varint[n] \in Seq(Nat) /\ EndsLow(Varint[n])
         /\ VarintSize[n] = Len(Varint[n])
<1> DEFINE Yes(m) == EndsLow(Varint[m]) /\ VarintSize[m] = Len(Varint[m])
           No == {m \in Nat : ~Yes(m)}
<1>1. No = {}
  <2> SUFFICES ASSUME No # {} PROVE FALSE OBVIOUS
  <2>0. No \subseteq Nat OBVIOUS
  <2> HIDE DEF No
  <2>1. PICK m \in No : \A j \in No : m <= j BY <2>0, HasLeast
  <2>2. m \in Nat BY <2>0
  <2>3. CASE m < 128
    <3>1. Varint[m] = <<m>> BY <2>2, <2>3, VarintIs
    <3>2. VarintSize[m] = 1 BY <2>2, <2>3, VarintSizeIs
    <3>3. EndsLow(<<m>>) /\ Len(<<m>>) = 1 BY <2>2, <2>3 DEF EndsLow
    <3> QED BY <2>1, <3>1, <3>2, <3>3 DEF No
  <2>4. CASE m >= 128
    <3>1. PICK k \in Nat : k = m \div 128 /\ k < m BY <2>2, <2>4
    <3>2. k \notin No BY <2>1, <2>2, <3>1
    <3>3. EndsLow(Varint[k]) /\ VarintSize[k] = Len(Varint[k])
      BY <3>1, <3>2 DEF No
    <3>4. PICK b \in Nat : b = 128 + (m % 128) BY <2>2
    <3>5. b >= 128 BY <2>2, <3>4
    <3>6. Varint[m] = <<b>> \o Varint[k] /\ VarintSize[m] = 1 + VarintSize[k]
      <4>1. ~(m < 128) BY <2>2, <2>4
      <4>2. Varint[m] = <<128 + (m % 128)>> \o Varint[m \div 128]
        BY <2>2, <4>1, VarintIs
      <4>3. VarintSize[m] = 1 + VarintSize[m \div 128]
        BY <2>2, <4>1, VarintSizeIs
      <4> QED BY <3>1, <3>4, <4>2, <4>3
    <3>7. Varint[k] \in Seq(Nat) BY <3>1, VarintIs
    <3>8. PICK v \in Seq(Nat) : v = Varint[k] BY <3>7
    <3>9. Len(v) \in Nat /\ Len(<<b>> \o v) = Len(v) + 1
          /\ \A j \in 1..(Len(v) + 1) :
               (<<b>> \o v)[j] = IF j = 1 THEN b ELSE v[j - 1]
      OBVIOUS
    <3>10. EndsLow(<<b>> \o v)
      <4>1. \A j \in 1..Len(v) : j = 1 \/ j - 1 \in 1..(Len(v) - 1)
        OBVIOUS
      <4>2. Len(v) > 0 BY <3>3, <3>8 DEF EndsLow
      <4> QED BY <3>3, <3>5, <3>8, <3>9, <4>1, <4>2 DEF EndsLow
    <3>11. Varint[m] = <<b>> \o v /\ VarintSize[m] = 1 + Len(v)
      BY <3>3, <3>6, <3>8
    <3>12. VarintSize[m] = Len(Varint[m]) BY <3>9, <3>11
    <3>13. EndsLow(Varint[m]) BY <3>10, <3>11
    <3> QED BY <2>1, <3>12, <3>13 DEF No
  <2> QED BY <2>2, <2>3, <2>4
<1> QED BY <1>1, VarintIs

-----------------------------------------------------------------------------
(* Reading a varint.                                                          *)

\* t is what s has from place i on.
Has(s, i, t) ==
  i + Len(t) <= Len(s) + 1 /\ \A j \in 1..Len(t) : s[(i - 1) + j] = t[j]

LEMMA Joined ==
  ASSUME NEW a \in Seq(Nat), NEW b \in Seq(Nat)
  PROVE  /\ a \o b \in Seq(Nat)
         /\ Len(a) \in Nat /\ Len(b) \in Nat /\ Len(a \o b) = Len(a) + Len(b)
         /\ \A j \in 1..Len(a) : (a \o b)[j] = a[j]
         /\ \A j \in 1..Len(b) : (a \o b)[Len(a) + j] = b[j]
OBVIOUS

LEMMA JoinedLength ==
  ASSUME NEW a \in Seq(Nat), NEW b \in Seq(Nat)
  PROVE  a \o b \in Seq(Nat) /\ Len(a \o b) = Len(a) + Len(b)
OBVIOUS

LEMMA HasJoined ==
  ASSUME NEW s \in Seq(Nat), NEW i \in Nat \ {0}, NEW a \in Seq(Nat),
         NEW b \in Seq(Nat)
  PROVE  Has(s, i, a \o b) <=> Has(s, i, a) /\ Has(s, i + Len(a), b)
<1>1. PICK c : c = a \o b OBVIOUS
<1>2. PICK la \in Nat : la = Len(a) OBVIOUS
<1>3. PICK lb \in Nat : lb = Len(b) OBVIOUS
<1>4. /\ Len(s) \in Nat /\ Len(c) = la + lb
      /\ \A j \in 1..la : c[j] = a[j]
      /\ \A j \in 1..lb : c[la + j] = b[j]
  BY <1>1, <1>2, <1>3, Joined
<1>5. ASSUME Has(s, i, c) PROVE Has(s, i, a) /\ Has(s, i + la, b)
  <2>1. ASSUME NEW j \in 1..la PROVE s[(i - 1) + j] = a[j]
    <3>1. j \in 1..Len(c) BY <1>4
    <3> QED BY <1>4, <1>5, <3>1 DEF Has
  <2>2. ASSUME NEW j \in 1..lb PROVE s[((i + la) - 1) + j] = b[j]
    <3>1. la + j \in 1..Len(c) BY <1>4
    <3>2. s[(i - 1) + (la + j)] = c[la + j] BY <1>5, <3>1 DEF Has
    <3>3. (i - 1) + (la + j) = ((i + la) - 1) + j OBVIOUS
    <3> QED BY <1>4, <3>2, <3>3
  <2>3. i + la <= Len(s) + 1 /\ (i + la) + lb <= Len(s) + 1
    BY <1>4, <1>5 DEF Has
  <2> QED BY <1>2, <1>3, <2>1, <2>2, <2>3 DEF Has
<1>6. ASSUME Has(s, i, a), Has(s, i + la, b) PROVE Has(s, i, c)
  <2>1. ASSUME NEW j \in 1..Len(c) PROVE s[(i - 1) + j] = c[j]
    <3>1. CASE j <= la
      <4>1. j \in 1..la BY <1>4, <3>1
      <4> QED BY <1>2, <1>4, <1>6, <4>1 DEF Has
    <3>2. CASE j > la
      <4>1. PICK k \in 1..lb : j = la + k
        <5>1. j - la \in 1..lb /\ j = la + (j - la) BY <1>4, <3>2
        <5> QED BY <5>1
      <4>2. s[((i + la) - 1) + k] = b[k] BY <1>3, <1>6 DEF Has
      <4>3. (i - 1) + j = ((i + la) - 1) + k BY <4>1
      <4>4. c[j] = b[k] BY <1>4, <4>1
      <4> QED BY <4>2, <4>3, <4>4
    <3> QED BY <1>4, <3>1, <3>2
  <2>2. i + Len(c) <= Len(s) + 1 BY <1>3, <1>4, <1>6 DEF Has
  <2> QED BY <2>1, <2>2 DEF Has
<1> QED BY <1>1, <1>2, <1>5, <1>6

\* v is the function that VarintTo computes values with.
Values(v, s, i, last) ==
  v = [j \in i..last |->
         IF j = last THEN s[j] ELSE s[j] - 128 + 128 * v[j + 1]]

LEMMA ValuesOneMore ==
  ASSUME NEW s, NEW i \in Nat \ {0}, NEW last \in Nat, i < last,
         NEW v, Values(v, s, i + 1, last)
  PROVE  \E w : Values(w, s, i, last)
<1> DEFINE w == [j \in i..last |-> IF j = i THEN s[i] - 128 + 128 * v[i + 1]
                                   ELSE v[j]]
<1>1. ASSUME NEW j \in i..last
      PROVE  w[j] = IF j = last THEN s[j] ELSE s[j] - 128 + 128 * w[j + 1]
  <2>1. CASE j = i
    <3>1. i + 1 \in i..last /\ i + 1 # i /\ j # last BY <2>1
    <3> QED BY <2>1, <3>1
  <2>2. CASE j # i
    <3>1. j \in (i + 1)..last BY <2>2
    <3>2. v[j] = IF j = last THEN s[j] ELSE s[j] - 128 + 128 * v[j + 1]
      BY <3>1 DEF Values
    <3>3. w[j] = v[j] BY <2>2
    <3>4. j # last => j + 1 \in i..last /\ j + 1 # i BY <3>1
    <3>5. j # last => w[j + 1] = v[j + 1] BY <3>4
    <3> QED BY <3>2, <3>3, <3>5
  <2> QED BY <2>1, <2>2
<1>2. w = [j \in i..last |-> w[j]] OBVIOUS
<1> HIDE DEF w
<1>3. Values(w, s, i, last) BY <1>1, <1>2 DEF Values
<1> QED BY <1>3

LEMMA SomeValues ==
  ASSUME NEW s, NEW i \in Nat \ {0}, NEW last \in Nat, i <= last
  PROVE  \E v : Values(v, s, i, last)
<1> DEFINE No == {m \in 0..(last - i) : ~\E v : Values(v, s, last - m, last)}
<1>1. No = {}
  <2> SUFFICES ASSUME No # {} PROVE FALSE OBVIOUS
  <2>0. No \subseteq Nat /\ No \subseteq 0..(last - i) OBVIOUS
  <2>1. 0 \notin No
    <3>1. \A j \in last..last : j = last OBVIOUS
    <3>2. Values([j \in last..last |-> s[j]], s, last, last)
      BY <3>1 DEF Values
    <3>3. last - 0 = last OBVIOUS
    <3> QED BY <3>2, <3>3
  <2> HIDE DEF No
  <2>2. PICK m \in No : \A k \in No : m <= k BY <2>0, HasLeast
  <2>3. m \in 0..(last - i) /\ m # 0 BY <2>0, <2>1, <2>2
  <2>4. m - 1 \in 0..(last - i) /\ m - 1 \notin No BY <2>2, <2>3
  <2>5. PICK j \in i..(last - 1) : j = last - m BY <2>3
  <2>6. last - (m - 1) = j + 1 /\ j \in Nat \ {0} /\ j < last BY <2>3, <2>5
  <2>7. PICK v : Values(v, s, j + 1, last) BY <2>4, <2>6 DEF No
  <2>8. \E w : Values(w, s, j, last) BY ONLY <2>6, <2>7, last \in Nat, ValuesOneMore
  <2> QED BY <2>2, <2>5, <2>8 DEF No
<1>2. last - i \in 0..(last - i) /\ last - (last - i) = i OBVIOUS
<1> QED BY <1>1, <1>2

\* Bytes that another one follows.
High(s, i, k) == \A j \in i..(k - 1) : s[j] >= 128

LEMMA ValuesNat ==
  ASSUME NEW s \in Seq(Nat), NEW i \in Nat \ {0}, NEW last \in i..Len(s),
         High(s, i, last), NEW v, Values(v, s, i, last)
  PROVE  v[i] \in Nat
<1> DEFINE No == {m \in 0..(last - i) : v[last - m] \notin Nat}
<1>0. Len(s) \in Nat /\ last \in Nat OBVIOUS
<1>1. No = {}
  <2> SUFFICES ASSUME No # {} PROVE FALSE OBVIOUS
  <2>0. No \subseteq Nat /\ No \subseteq 0..(last - i) BY <1>0
  <2> HIDE DEF No
  <2>1. PICK m \in No : \A k \in No : m <= k BY <2>0, HasLeast
  <2>2. PICK j \in i..last : j = last - m BY <1>0, <2>0
  <2>3. v[j] = IF j = last THEN s[j] ELSE s[j] - 128 + 128 * v[j + 1]
    BY DEF Values
  <2>4. PICK b \in Nat : b = s[j] BY <1>0
  <2>5. CASE j = last BY <2>1, <2>2, <2>3, <2>4, <2>5 DEF No
  <2>6. CASE j # last
    <3>1. m \in 0..(last - i) /\ m # 0 BY <1>0, <2>0, <2>1, <2>2, <2>6
    <3>2. m - 1 \in 0..(last - i) /\ last - (m - 1) = j + 1
      BY <1>0, <2>2, <3>1
    <3>3. m - 1 \notin No BY <2>1, <3>1
    <3>4. v[j + 1] \in Nat BY <3>2, <3>3 DEF No
    <3>5. PICK x \in Nat : x = v[j + 1] BY <3>4
    <3>6. j \in i..(last - 1) BY <1>0, <2>6
    <3>7. b >= 128 BY <2>4, <3>6 DEF High
    <3>8. b - 128 + 128 * x \in Nat BY ONLY b \in Nat, x \in Nat, <3>7
    <3>9. v[j] = b - 128 + 128 * x BY <2>3, <2>4, <2>6, <3>5
    <3> QED BY <2>1, <2>2, <3>8, <3>9 DEF No
  <2> QED BY <2>5, <2>6
<1>2. last - i \in 0..(last - i) /\ last - (last - i) = i BY <1>0
<1> QED BY <1>1, <1>2

LEMMA ReadWhole ==
  ASSUME NEW s \in Seq(Nat), NEW i \in Nat \ {0}, NEW last \in i..Len(s),
         High(s, i, last), s[last] < 128
  PROVE  \E v : /\ Values(v, s, i, last)
                /\ ReadVarint(s, i) = [value |-> v[i], next |-> last + 1]
<1>0. Len(s) \in Nat /\ last \in Nat /\ last # 0 OBVIOUS
<1> DEFINE low == {j \in i..Len(s) : s[j] < 128}
<1>1. low # {} /\ Min(low) = last
  <2>1. last \in low BY <1>0
  <2>2. low \subseteq Nat BY <1>0
  <2>3. ASSUME NEW j \in low PROVE last <= j
    <3>1. j \in i..Len(s) /\ s[j] < 128 /\ s[j] \in Nat BY <1>0
    <3>2. j < last => j \in i..(last - 1) BY <1>0, <3>1
    <3>3. ~(j < last) BY <3>1, <3>2 DEF High
    <3> QED BY <1>0, <3>1, <3>3
  <2> HIDE DEF low
  <2> QED BY <2>1, <2>2, <2>3, LeastIsMin
<1>2. SelectInSubSeq(s, i, Len(s), LAMBDA b : b < 128) = last
  BY <1>1 DEF SelectInSubSeq
<1>3. ReadVarint(s, i) = VarintTo(s, i, last) BY <1>2 DEF ReadVarint
<1> DEFINE v == CHOOSE w : Values(w, s, i, last)
<1>4. Values(v, s, i, last)
  <2>1. i <= last BY <1>0
  <2>2. \E w : Values(w, s, i, last) BY <1>0, <2>1, SomeValues
  <2> QED BY <2>2
<1>5. VarintTo(s, i, last) = [value |-> v[i], next |-> last + 1]
  BY <1>0 DEF VarintTo, Values
<1> HIDE DEF v
<1> QED BY <1>3, <1>4, <1>5

LEMMA ReadCut ==
  ASSUME NEW s \in Seq(Nat), NEW i \in Nat \ {0},
         \A j \in i..Len(s) : s[j] >= 128
  PROVE  ReadVarint(s, i) = [value |-> 0, next |-> Len(s) + 2]
<1>1. \A j \in i..Len(s) : s[j] \in Nat /\ ~(s[j] < 128) OBVIOUS
<1>2. {j \in i..Len(s) : s[j] < 128} = {} BY <1>1
<1>3. SelectInSubSeq(s, i, Len(s), LAMBDA b : b < 128) = 0
  BY <1>2 DEF SelectInSubSeq
<1> QED BY <1>3 DEF ReadVarint, VarintTo

\* What is read at any place is a number.
LEMMA VarintType ==
  ASSUME NEW s \in Seq(Nat), NEW i \in 1..(Len(s) + 1)
  PROVE  /\ ReadVarint(s, i).value \in Nat
         /\ ReadVarint(s, i).next \in Nat /\ ReadVarint(s, i).next > i
<1>0. Len(s) \in Nat /\ i \in Nat \ {0} OBVIOUS
<1> DEFINE low == {j \in i..Len(s) : s[j] < 128}
<1>1. CASE low = {}
  <2>1. \A j \in i..Len(s) : s[j] >= 128
    <3>1. \A j \in i..Len(s) : s[j] \in Nat BY <1>0
    <3> QED BY <1>1, <3>1
  <2>2. ReadVarint(s, i) = [value |-> 0, next |-> Len(s) + 2]
    BY <1>0, <2>1, ReadCut
  <2> QED BY <1>0, <2>2
<1>2. CASE low # {}
  <2>0. low \subseteq Nat BY <1>0
  <2>1. PICK last \in low : \A j \in low : last <= j
    <3> HIDE DEF low
    <3> QED BY <1>2, <2>0, HasLeast
  <2>2. last \in i..Len(s) /\ s[last] < 128 OBVIOUS
  <2>3. High(s, i, last)
    <3> SUFFICES ASSUME NEW j \in i..(last - 1) PROVE s[j] >= 128
      BY DEF High
    <3>1. j \in i..Len(s) /\ j < last BY <1>0, <2>2
    <3>2. s[j] \in Nat BY <1>0, <3>1
    <3>3. ~(s[j] < 128) BY <1>0, <2>1, <2>2, <3>1
    <3> QED BY <3>2, <3>3
  <2>4. PICK v : /\ Values(v, s, i, last)
                 /\ ReadVarint(s, i) = [value |-> v[i], next |-> last + 1]
    BY <1>0, <2>2, <2>3, ReadWhole
  <2>5. v[i] \in Nat BY <1>0, <2>2, <2>3, <2>4, ValuesNat
  <2> QED BY <1>0, <2>2, <2>4, <2>5
<1> QED BY <1>1, <1>2

LEMMA ValueOf ==
  ASSUME NEW s \in Seq(Nat), NEW i \in Nat \ {0}, NEW last \in i..Len(s),
         NEW v, Values(v, s, i, last)
  PROVE  \A n \in Nat : \A k \in i..last :
           Has(s, k, Varint[n]) /\ k + Len(Varint[n]) = last + 1 => v[k] = n
<1> DEFINE Yes(n) == \A k \in i..last :
             Has(s, k, Varint[n]) /\ k + Len(Varint[n]) = last + 1 => v[k] = n
           No == {n \in Nat : ~Yes(n)}
<1>0. Len(s) \in Nat /\ last \in Nat OBVIOUS
<1>1. No = {}
  <2> SUFFICES ASSUME No # {} PROVE FALSE OBVIOUS
  <2>0. No \subseteq Nat OBVIOUS
  <2> HIDE DEF No
  <2>1. PICK n \in No : \A m \in No : n <= m BY <2>0, HasLeast
  <2>2. n \in Nat BY <2>0
  <2>3. PICK k \in i..last : /\ Has(s, k, Varint[n])
                             /\ k + Len(Varint[n]) = last + 1 /\ v[k] # n
    BY <2>1 DEF No
  <2>4. v[k] = IF k = last THEN s[k] ELSE s[k] - 128 + 128 * v[k + 1]
    BY DEF Values
  <2>5. CASE n < 128
    <3>1. Varint[n] = <<n>> BY <2>2, <2>5, VarintIs
    <3>2. Len(<<n>>) = 1 /\ <<n>>[1] = n OBVIOUS
    <3>3. k = last BY <1>0, <2>3, <3>1, <3>2
    <3>4. s[(k - 1) + 1] = n BY <2>3, <3>1, <3>2 DEF Has
    <3>5. (k - 1) + 1 = k BY <1>0
    <3> QED BY <2>3, <2>4, <3>3, <3>4, <3>5
  <2>6. CASE ~(n < 128)
    <3>1. PICK m \in Nat : m = n \div 128 BY <2>2
    <3>2. PICK b \in Nat : b = 128 + (n % 128) BY <2>2
    <3>3. m < n /\ b - 128 + 128 * m = n BY <2>2, <2>6, <3>1, <3>2
    <3>4. Varint[n] = <<b>> \o Varint[m] BY <2>2, <2>6, <3>1, <3>2, VarintIs
    <3>5. PICK w \in Seq(Nat) : w = Varint[m] BY VarintIs
    <3>6. EndsLow(w) BY <3>5, VarintForm
    <3>7. Len(w) \in Nat /\ Len(w) > 0 BY <3>6 DEF EndsLow
    <3>8. PICK a \in Seq(Nat) : a = <<b>> /\ Len(a) = 1 /\ a[1] = b
      <4>1. <<b>> \in Seq(Nat) /\ Len(<<b>>) = 1 /\ <<b>>[1] = b OBVIOUS
      <4> QED BY <4>1
    <3>9. k \in Nat \ {0} BY <1>0
    <3>10. Has(s, k, a) /\ Has(s, k + 1, w)
      <4>1. Has(s, k, a \o w) BY <2>3, <3>4, <3>5, <3>8
      <4>2. Has(s, k, a) /\ Has(s, k + Len(a), w)
        BY ONLY <4>1, s \in Seq(Nat), a \in Seq(Nat), w \in Seq(Nat), <3>9,
                HasJoined
      <4> QED BY <3>8, <4>2
    <3>11. Len(Varint[n]) = 1 + Len(w)
      <4>1. Len(a \o w) = Len(a) + Len(w) BY JoinedLength
      <4> QED BY <3>4, <3>5, <3>8, <4>1
    <3>12. k + 1 \in i..last /\ (k + 1) + Len(w) = last + 1 /\ k # last
      <4>1. k + (1 + Len(w)) = last + 1 BY <2>3, <3>11
      <4> QED BY <1>0, <3>7, <4>1
    <3>13. m \notin No BY <2>1, <2>2, <3>3
    <3>14. v[k + 1] = m BY <3>5, <3>10, <3>12, <3>13 DEF No
    <3>15. s[(k - 1) + 1] = b BY <3>8, <3>10 DEF Has
    <3>16. (k - 1) + 1 = k BY <3>9
    <3>17. v[k] = b - 128 + 128 * m BY <2>4, <3>12, <3>14, <3>15, <3>16
    <3> QED BY <2>3, <3>3, <3>17
  <2> QED BY <2>5, <2>6
<1> QED BY <1>1

\* A number that was written is read.
LEMMA VarintRead ==
  ASSUME NEW s \in Seq(Nat), NEW i \in Nat \ {0}, NEW n \in Nat,
         Has(s, i, Varint[n])
  PROVE  ReadVarint(s, i) = [value |-> n, next |-> i + Len(Varint[n])]
<1>1. PICK w \in Seq(Nat) : w = Varint[n] BY VarintIs
<1>2. EndsLow(w) /\ Has(s, i, w) BY <1>1, VarintForm
<1>3. PICK l \in Nat : l = Len(w) OBVIOUS
<1>4. PICK last : last = i + l - 1 OBVIOUS
<1>5. Len(s) \in Nat /\ l > 0 /\ i + l <= Len(s) + 1
  BY <1>2, <1>3 DEF EndsLow, Has
<1>6. last \in i..Len(s) /\ last = (i - 1) + l /\ last + 1 = i + l
  BY <1>3, <1>4, <1>5
<1>7. s[last] < 128
  <2>1. l \in 1..l BY <1>5
  <2>2. s[(i - 1) + l] = w[l] /\ w[l] < 128
    BY <1>2, <1>3, <2>1 DEF Has, EndsLow
  <2> QED BY <1>6, <2>2
<1>8. High(s, i, last)
  <2> SUFFICES ASSUME NEW j \in i..(last - 1) PROVE s[j] >= 128 BY DEF High
  <2>1. PICK k \in 1..(l - 1) : j = (i - 1) + k
    <3>1. j - (i - 1) \in 1..(l - 1) /\ j = (i - 1) + (j - (i - 1))
      BY <1>3, <1>4, <1>5
    <3> QED BY <3>1
  <2>2. k \in 1..l BY <1>5
  <2>3. s[(i - 1) + k] = w[k] /\ w[k] >= 128
    BY <1>2, <1>3, <2>2 DEF Has, EndsLow
  <2> QED BY <2>1, <2>3
<1>9. PICK v : /\ Values(v, s, i, last)
               /\ ReadVarint(s, i) = [value |-> v[i], next |-> last + 1]
  BY <1>6, <1>7, <1>8, ReadWhole
<1>10. v[i] = n
  <2>1. i \in i..last BY <1>6
  <2>2. i + Len(Varint[n]) = last + 1 BY <1>1, <1>3, <1>6
  <2>3. \A m \in Nat : \A k \in i..last :
          Has(s, k, Varint[m]) /\ k + Len(Varint[m]) = last + 1 => v[k] = m
    <3>1. Values(v, s, i, last) /\ last \in i..Len(s) BY <1>6, <1>9
    <3> QED
      BY ONLY <3>1, s \in Seq(Nat), i \in Nat \ {0}, ValueOf
  <2> QED BY <2>1, <2>2, <2>3
<1> QED BY <1>1, <1>3, <1>6, <1>9, <1>10

-----------------------------------------------------------------------------
(* Reading fields.                                                            *)

\* The field whose tag is at s[i], and what follows from it.
TagAt(s, i)   == ReadVarint(s, i)
FieldAt(s, i) == ReadField(s, TagAt(s, i).next, TagAt(s, i).value)

\* f has what is read from each place from i on.
Reads(f, s, i) ==
  f = [j \in i..(Len(s) + 1) |->
         IF j = Len(s) + 1 THEN Ended("limit")
         ELSE FromTag(s, TagAt(s, j), FieldAt(s, j), f[FieldAt(s, j).next])]

\* The field's end, unless it cannot be read.
LEMMA FieldNext ==
  ASSUME NEW s \in Seq(Nat), NEW i \in 1..Len(s), TagAt(s, i).next <= Len(s) + 1
  PROVE  /\ FieldAt(s, i).next \in Nat /\ FieldAt(s, i).next > i
         /\ FieldAt(s, i).number \in Nat /\ FieldAt(s, i).wire \in Nat
<1>0. Len(s) \in Nat /\ i \in 1..(Len(s) + 1) OBVIOUS
<1>1. PICK tag \in Nat : tag = TagAt(s, i).value
  BY <1>0, VarintType DEF TagAt
<1>2. PICK k \in Nat : k = TagAt(s, i).next /\ k > i
  BY <1>0, VarintType DEF TagAt
<1>3. k \in 1..(Len(s) + 1) BY <1>0, <1>2
<1>4. PICK n : n = ReadVarint(s, k) OBVIOUS
<1>5. n.value \in Nat /\ n.next \in Nat /\ n.next > k
  BY <1>3, <1>4, VarintType
<1>6. FieldAt(s, i) = FieldWith(s, k, tag, n)
  BY <1>1, <1>2, <1>4 DEF FieldAt, ReadField
<1>7. PICK wire \in Nat : wire = tag % 8 OBVIOUS
<1>8. PICK x \in Nat : x = n.value BY <1>5
<1>9. PICK y \in Nat : y = n.next /\ y > k BY <1>5
<1> DEFINE end == CASE wire = WireVarint -> n.next
                    [] wire = 1 -> k + 8
                    [] wire = WireBytes -> n.next + n.value
                    [] wire = 5 -> k + 4
                    [] OTHER -> Len(s) + 2
<1>10. FieldWith(s, k, tag, n).next = end BY <1>7 DEF FieldWith
<1>11. end \in Nat /\ end > i
  <2>1. CASE wire = 0
    <3>1. end = y BY <1>9, <2>1 DEF WireVarint, WireBytes
    <3> HIDE DEF end
    <3> QED BY ONLY <1>2, <1>9, <3>1, k \in Nat, y \in Nat, i \in 1..Len(s)
  <2>2. CASE wire = 1
    <3>1. end = k + 8 BY <2>2 DEF WireVarint, WireBytes
    <3> HIDE DEF end
    <3> QED BY ONLY <1>2, <3>1, k \in Nat, i \in 1..Len(s)
  <2>3. CASE wire = 2
    <3>1. end = y + x BY <1>8, <1>9, <2>3 DEF WireVarint, WireBytes
    <3> HIDE DEF end
    <3> QED BY ONLY <1>2, <1>9, <3>1, k \in Nat, x \in Nat, y \in Nat,
                    i \in 1..Len(s)
  <2>4. CASE wire = 5
    <3>1. end = k + 4 BY <2>4 DEF WireVarint, WireBytes
    <3> HIDE DEF end
    <3> QED BY ONLY <1>2, <3>1, k \in Nat, i \in 1..Len(s)
  <2>5. CASE wire # 0 /\ wire # 1 /\ wire # 2 /\ wire # 5
    <3>1. end = Len(s) + 2 BY <2>5 DEF WireVarint, WireBytes
    <3> HIDE DEF end
    <3> QED BY ONLY <1>0, <3>1, i \in 1..Len(s)
  <2> QED BY ONLY <2>1, <2>2, <2>3, <2>4, <2>5
<1>12. /\ FieldWith(s, k, tag, n).number = tag \div 8
       /\ FieldWith(s, k, tag, n).wire = wire
  BY <1>7 DEF FieldWith
<1>13. tag \div 8 \in Nat OBVIOUS
<1> QED BY <1>6, <1>10, <1>11, <1>12, <1>13

LEMMA ReadsOneMore ==
  ASSUME NEW s \in Seq(Nat), NEW i \in 1..Len(s), NEW f, Reads(f, s, i + 1)
  PROVE  \E g : Reads(g, s, i)
<1>0. Len(s) \in Nat OBVIOUS
<1> DEFINE Here(h, j) ==
             FromTag(s, TagAt(s, j), FieldAt(s, j), h[FieldAt(s, j).next])
           g == [j \in i..(Len(s) + 1) |-> IF j = i THEN Here(f, i) ELSE f[j]]
<1>1. ASSUME NEW j \in i..(Len(s) + 1), j # i PROVE g[j] = f[j] BY <1>1
<1>2. g[i] = Here(f, i) BY <1>0
<1>3. ASSUME NEW j \in i..Len(s) PROVE Here(f, j) = Here(g, j)
  <2>1. CASE TagAt(s, j).next > Len(s) + 1
    BY <2>1 DEF FromTag
  <2>2. CASE ~(TagAt(s, j).next > Len(s) + 1)
    <3>1. j \in 1..Len(s) /\ j \in 1..(Len(s) + 1) BY <1>0
    <3>2. TagAt(s, j).next \in Nat BY <3>1, VarintType DEF TagAt
    <3>3. TagAt(s, j).next <= Len(s) + 1 BY <1>0, <2>2, <3>2
    <3>4. PICK k \in Nat : k = FieldAt(s, j).next /\ k > j
      BY <3>1, <3>3, FieldNext
    <3>5. CASE k > Len(s) + 1 BY <3>4, <3>5 DEF FromTag
    <3>6. CASE ~(k > Len(s) + 1)
      <4>1. k \in i..(Len(s) + 1) /\ k # i BY <1>0, <3>4, <3>6
      <4>2. f[k] = g[k] BY <1>1, <4>1
      <4> HIDE DEF g
      <4> QED BY <3>4, <4>2
    <3> QED BY <3>5, <3>6
  <2> QED BY <2>1, <2>2
<1>4. ASSUME NEW j \in i..(Len(s) + 1)
      PROVE  g[j] = IF j = Len(s) + 1 THEN Ended("limit") ELSE Here(g, j)
  <2>1. CASE j = i
    <3>1. j # Len(s) + 1 /\ j \in i..Len(s) BY <1>0, <2>1
    <3>2. g[j] = Here(f, j) BY <1>2, <2>1
    <3> HIDE DEF g, Here
    <3> QED BY <1>3, <3>1, <3>2
  <2>2. CASE j # i
    <3>1. j \in (i + 1)..(Len(s) + 1) BY <1>0, <2>2
    <3>2. f[j] = IF j = Len(s) + 1 THEN Ended("limit") ELSE Here(f, j)
      BY <3>1 DEF Reads
    <3>3. j # Len(s) + 1 => j \in i..Len(s) BY <1>0
    <3>4. g[j] = f[j] BY <1>1, <2>2
    <3> HIDE DEF g, Here
    <3> QED BY <1>3, <3>2, <3>3, <3>4
  <2> QED BY <2>1, <2>2
<1>5. g = [j \in i..(Len(s) + 1) |-> g[j]] OBVIOUS
<1> HIDE DEF g
<1>6. Reads(g, s, i) BY <1>4, <1>5 DEF Reads
<1> QED BY <1>6

LEMMA FieldsRead ==
  ASSUME NEW s \in Seq(Nat)
  PROVE  \E f : Reads(f, s, 1) /\ Fields(s) = f[1]
<1>0. PICK n \in Nat : n = Len(s) OBVIOUS
<1> DEFINE No == {m \in 0..n : ~\E f : Reads(f, s, (n + 1) - m)}
<1>1. No = {}
  <2> SUFFICES ASSUME No # {} PROVE FALSE OBVIOUS
  <2>0. No \subseteq Nat /\ No \subseteq 0..n OBVIOUS
  <2>1. 0 \notin No
    <3>1. \A j \in (n + 1)..(n + 1) : j = n + 1 OBVIOUS
    <3>2. Reads([j \in (n + 1)..(n + 1) |-> Ended("limit")], s, n + 1)
      BY <1>0, <3>1 DEF Reads
    <3>3. (n + 1) - 0 = n + 1 OBVIOUS
    <3> QED BY <3>2, <3>3
  <2> HIDE DEF No
  <2>2. PICK m \in No : \A k \in No : m <= k BY <2>0, HasLeast
  <2>3. m \in 0..n /\ m # 0 BY <2>0, <2>1, <2>2
  <2>4. m - 1 \in 0..n /\ m - 1 \notin No BY <2>2, <2>3
  <2>5. PICK j \in 1..n : j = (n + 1) - m BY <2>3
  <2>6. (n + 1) - (m - 1) = j + 1 BY <2>3, <2>5
  <2>7. PICK f : Reads(f, s, j + 1) BY <2>4, <2>6 DEF No
  <2>8. j \in 1..Len(s) BY <1>0
  <2>9. \E g : Reads(g, s, j) BY ONLY <2>7, <2>8, s \in Seq(Nat), ReadsOneMore
  <2> QED BY <2>2, <2>5, <2>9 DEF No
<1>2. n \in 0..n /\ (n + 1) - n = 1 OBVIOUS
<1>3. \E f : Reads(f, s, 1) BY <1>1, <1>2
<1> DEFINE f == CHOOSE g : Reads(g, s, 1)
<1>4. Reads(f, s, 1) BY <1>3
<1>5. Fields(s) = f[1] BY DEF Fields, Reads, TagAt, FieldAt
<1> QED BY <1>4, <1>5

LEMMA HasCut ==
  ASSUME NEW s \in Seq(Nat), NEW v \in Seq(Nat), NEW k \in Nat \ {0},
         Has(s, k, v)
  PROVE  SubSeq(s, k, (k + Len(v)) - 1) = v
<1>1. PICK n \in Nat : n = Len(v) OBVIOUS
<1>2. PICK m \in Int : m = (k + n) - 1 OBVIOUS
<1>3. Len(s) \in Nat /\ m <= Len(s) /\ (m - k) + 1 = n /\ (k <= m <=> n # 0)
  BY <1>1, <1>2 DEF Has
<1>4. \A j \in k..m : s[j] \in Nat
  <2>1. \A j \in k..m : j \in 1..Len(s) BY <1>3
  <2> QED BY <2>1
<1>5. /\ SubSeq(s, k, m) \in Seq(Nat)
      /\ Len(SubSeq(s, k, m)) = IF k <= m THEN (m - k) + 1 ELSE 0
      /\ \A j \in 1..((m - k) + 1) : SubSeq(s, k, m)[j] = s[(k + j) - 1]
  BY <1>4, SubSeqProperties
<1>6. PICK u \in Seq(Nat) : u = SubSeq(s, k, m) /\ Len(u) = n
  BY <1>3, <1>5
<1>7. ASSUME NEW j \in 1..n PROVE u[j] = v[j]
  <2>1. (k + j) - 1 = (k - 1) + j OBVIOUS
  <2>2. u[j] = s[(k - 1) + j] BY <1>3, <1>5, <1>6, <2>1
  <2>3. s[(k - 1) + j] = v[j]
    <3>1. \A h \in 1..Len(v) : s[(k - 1) + h] = v[h] BY DEF Has
    <3>2. j \in 1..Len(v) BY <1>1
    <3> QED BY <3>1, <3>2, Zenon
  <2> QED BY <2>2, <2>3
<1>8. u = v
  <2>4. u \in [1..n -> Nat] BY ONLY <1>6, u \in Seq(Nat), LenProperties
  <2>5. v \in [1..n -> Nat] BY ONLY <1>1, v \in Seq(Nat), LenProperties
  <2>1. u = [j \in 1..n |-> u[j]] BY ONLY <2>4, Zenon
  <2>2. v = [j \in 1..n |-> v[j]] BY ONLY <2>5, Zenon
  <2>3. [j \in 1..n |-> u[j]] = [j \in 1..n |-> v[j]] BY <1>7
  <2> QED BY <2>1, <2>2, <2>3, Zenon
<1> QED BY <1>1, <1>2, <1>6, <1>8

\* A tag has one byte.
LEMMA TagRead ==
  ASSUME NEW s \in Seq(Nat), NEW i \in Nat \ {0}, NEW tag \in 0..127,
         Has(s, i, <<tag>>)
  PROVE  TagAt(s, i) = [value |-> tag, next |-> i + 1]
<1>1. Varint[tag] = <<tag>> /\ tag \in Nat
  <2>1. tag \in Nat /\ tag < 128 OBVIOUS
  <2> QED BY <2>1, VarintIs
<1>2. Len(<<tag>>) = 1 OBVIOUS
<1>3. ReadVarint(s, i) = [value |-> tag, next |-> i + Len(Varint[tag])]
  BY <1>1, VarintRead
<1> QED BY <1>1, <1>2, <1>3 DEF TagAt

LEMMA TagParts ==
  ASSUME NEW number \in 1..15, NEW wire \in {WireVarint, WireBytes}
  PROVE  /\ Tag(number, wire) \in 1..127
         /\ Tag(number, wire) \div 8 = number /\ Tag(number, wire) % 8 = wire
BY DEF Tag, WireVarint, WireBytes

\* What a field gives that can be read.
LEMMA OneField ==
  ASSUME NEW s \in Seq(Nat), NEW i \in 1..Len(s), NEW f, Reads(f, s, 1),
         NEW number \in 1..15, NEW wire \in {WireVarint, WireBytes},
         TagAt(s, i) = [value |-> Tag(number, wire), next |-> i + 1],
         FieldAt(s, i).number = number
  PROVE  f[i] = IF FieldAt(s, i).next > Len(s) + 1 THEN Ended("failure")
                ELSE After(FieldAt(s, i), f[FieldAt(s, i).next])
<1>0. Len(s) \in Nat /\ i \in 1..(Len(s) + 1) /\ i # Len(s) + 1 OBVIOUS
<1>1. f[i] = FromTag(s, TagAt(s, i), FieldAt(s, i), f[FieldAt(s, i).next])
  BY <1>0 DEF Reads
<1>2. PICK tag \in 1..127 : tag = Tag(number, wire) /\ tag % 8 = wire
  BY TagParts
<1>3. ~(i + 1 > Len(s) + 1) BY <1>0
<1>4. ~(tag = 0 \/ tag % 8 = 4)
  <2>1. wire # 4 BY DEF WireVarint, WireBytes
  <2>2. tag # 0 OBVIOUS
  <2> QED BY <1>2, <2>1, <2>2, Zenon
<1>5. number # 0 OBVIOUS
<1> DEFINE x == FieldAt(s, i)
<1>9. x.number = number OBVIOUS
<1> HIDE DEF x
<1>6. PICK t : t = TagAt(s, i) /\ t.value = tag /\ t.next = i + 1 BY <1>2
<1>7. FromTag(s, t, x, f[x.next])
        = IF x.next > Len(s) + 1 THEN Ended("failure") ELSE After(x, f[x.next])
  BY <1>3, <1>4, <1>5, <1>6, <1>9, Zenon DEF FromTag
<1> QED BY <1>1, <1>6, <1>7 DEF x

Field(number, wire, value, next) ==
  [number |-> number, wire |-> wire, next |-> next, value |-> value]

LEMMA NextOfField ==
  \A number, wire, value, next : Field(number, wire, value, next).next = next
BY DEF Field

\* x is read from place i on, and f[x.next] follows.
ReadAs(f, s, i, x) ==
  x.next \in 1..(Len(s) + 1) /\ f[i] = After(x, f[x.next])

LEMMA NumberRead ==
  ASSUME NEW s \in Seq(Nat), NEW i \in Nat \ {0}, NEW f, Reads(f, s, 1),
         NEW number \in 1..15, NEW n \in Nat \ {0},
         Has(s, i, WriteNumber(number, n))
  PROVE  ReadAs(f, s, i, Field(number, WireVarint, n,
                               i + Len(WriteNumber(number, n))))
<1> DEFINE next == i + Len(WriteNumber(number, n))
<1>1. PICK tag \in 1..127 : /\ tag = Tag(number, WireVarint)
                            /\ tag \div 8 = number /\ tag % 8 = WireVarint
  BY TagParts
<1>2. PICK a \in Seq(Nat) : a = <<tag>> /\ Len(a) = 1
  <2>1. <<tag>> \in Seq(Nat) /\ Len(<<tag>>) = 1 OBVIOUS
  <2> QED BY <2>1
<1>3. PICK w \in Seq(Nat) : w = Varint[n] BY VarintIs
<1>4. WriteNumber(number, n) = a \o w
  BY <1>1, <1>2, <1>3 DEF WriteNumber
<1>5. Has(s, i, a) /\ Has(s, i + 1, w)
  <2>1. Has(s, i, a \o w) BY <1>4
  <2>2. Has(s, i, a) /\ Has(s, i + Len(a), w)
    BY ONLY <2>1, s \in Seq(Nat), a \in Seq(Nat), w \in Seq(Nat),
            i \in Nat \ {0}, HasJoined
  <2> QED BY <1>2, <2>2
<1>6. PICK l \in Nat : l = Len(w) OBVIOUS
<1>7. next = i + 1 + l
  <2>1. Len(a \o w) = Len(a) + Len(w) BY JoinedLength
  <2>2. next = i + (1 + l) BY <1>2, <1>4, <1>6, <2>1
  <2> HIDE DEF next
  <2> QED BY <2>2
<1>8. Len(s) \in Nat /\ i + 1 + l <= Len(s) + 1 BY <1>5, <1>6 DEF Has
<1>9. next \in 1..(Len(s) + 1) /\ ~(next > Len(s) + 1) /\ i \in 1..Len(s)
  <2>1. i + 1 + l \in 1..(Len(s) + 1) /\ ~(i + 1 + l > Len(s) + 1)
        /\ i \in 1..Len(s)
    BY <1>8
  <2> HIDE DEF next
  <2> QED BY <1>7, <2>1
<1>10. TagAt(s, i) = [value |-> tag, next |-> i + 1]
  <2>1. Has(s, i, <<tag>>) /\ tag \in 0..127 BY <1>2, <1>5
  <2> QED BY <2>1, TagRead
<1>11. ReadVarint(s, i + 1) = [value |-> n, next |-> next]
  <2>1. i + 1 \in Nat \ {0} /\ Has(s, i + 1, Varint[n]) BY <1>3, <1>5
  <2>2. ReadVarint(s, i + 1) = [value |-> n, next |-> i + 1 + Len(Varint[n])]
    BY <2>1, VarintRead
  <2> QED BY <1>3, <1>6, <1>7, <2>2
<1> HIDE DEF next
<1>12. FieldAt(s, i) = Field(number, WireVarint, n, next)
  <2>1. PICK r : r = ReadVarint(s, i + 1) /\ r.value = n /\ r.next = next
    BY <1>11
  <2>2. FieldAt(s, i) = FieldWith(s, i + 1, tag, r)
    BY <1>10, <2>1 DEF FieldAt, ReadField
  <2>3. FieldWith(s, i + 1, tag, r) = Field(number, WireVarint, n, next)
    BY <1>1, <2>1 DEF FieldWith, Field, WireVarint, WireBytes
  <2> QED BY <2>2, <2>3
<1>13. FieldAt(s, i).number = number /\ FieldAt(s, i).next = next
  BY <1>12 DEF Field
<1>14. f[i] = IF FieldAt(s, i).next > Len(s) + 1 THEN Ended("failure")
              ELSE After(FieldAt(s, i), f[FieldAt(s, i).next])
  BY <1>1, <1>9, <1>10, <1>13, OneField
<1>15. f[i] = After(Field(number, WireVarint, n, next), f[next])
  BY <1>9, <1>12, <1>13, <1>14, Zenon
<1>16. PICK x : x = Field(number, WireVarint, n, next) /\ x.next = next
  BY NextOfField
<1>17. ReadAs(f, s, i, x) BY <1>9, <1>15, <1>16 DEF ReadAs
<1> QED BY <1>16, <1>17 DEF next

LEMMA BytesRead ==
  ASSUME NEW s \in Seq(Nat), NEW i \in Nat \ {0}, NEW f, Reads(f, s, 1),
         NEW number \in 1..15, NEW v \in Seq(Nat),
         Has(s, i, WriteBytes(number, v))
  PROVE  ReadAs(f, s, i, Field(number, WireBytes, v,
                               i + Len(WriteBytes(number, v))))
<1> DEFINE next == i + Len(WriteBytes(number, v))
<1>1. PICK tag \in 1..127 : /\ tag = Tag(number, WireBytes)
                            /\ tag \div 8 = number /\ tag % 8 = WireBytes
  BY TagParts
<1>2. PICK a \in Seq(Nat) : a = <<tag>> /\ Len(a) = 1
  <2>1. <<tag>> \in Seq(Nat) /\ Len(<<tag>>) = 1 OBVIOUS
  <2> QED BY <2>1
<1>3. PICK n \in Nat : n = Len(v) OBVIOUS
<1>4. PICK w \in Seq(Nat) : w = Varint[n] BY VarintIs
<1>5. PICK l \in Nat : l = Len(w) OBVIOUS
<1>6. PICK aw \in Seq(Nat) : aw = a \o w /\ Len(aw) = 1 + l
  <2>1. a \o w \in Seq(Nat) /\ Len(a \o w) = Len(a) + Len(w)
    BY ONLY a \in Seq(Nat), w \in Seq(Nat), JoinedLength
  <2>2. Len(a \o w) = 1 + l BY <1>2, <1>5, <2>1
  <2> QED BY <2>1, <2>2
<1>7. WriteBytes(number, v) = aw \o v
  BY <1>1, <1>2, <1>3, <1>4, <1>6 DEF WriteBytes
<1>8. Has(s, i, a) /\ Has(s, i + 1, w) /\ Has(s, i + 1 + l, v)
  <2>1. Has(s, i, aw \o v) BY <1>7
  <2>2. Has(s, i, aw) /\ Has(s, i + Len(aw), v)
    BY ONLY <2>1, s \in Seq(Nat), aw \in Seq(Nat), v \in Seq(Nat),
            i \in Nat \ {0}, HasJoined
  <2>3. Has(s, i, a \o w) BY <1>6, <2>2
  <2>4. Has(s, i, a) /\ Has(s, i + Len(a), w)
    BY ONLY <2>3, s \in Seq(Nat), a \in Seq(Nat), w \in Seq(Nat),
            i \in Nat \ {0}, HasJoined
  <2>5. i + (1 + l) = i + 1 + l OBVIOUS
  <2> QED BY <1>2, <1>6, <2>2, <2>4, <2>5
<1>9. next = i + 1 + l + n
  <2>1. Len(aw \o v) = Len(aw) + Len(v) BY JoinedLength
  <2>2. next = i + (1 + l + n) BY <1>3, <1>6, <1>7, <2>1
  <2> HIDE DEF next
  <2> QED BY <2>2
<1>10. Len(s) \in Nat /\ i + 1 + l + n <= Len(s) + 1
  BY <1>3, <1>8 DEF Has
<1>11. /\ next \in 1..(Len(s) + 1) /\ ~(next > Len(s) + 1)
       /\ next <= Len(s) + 1 /\ i \in 1..Len(s)
  <2>1. i + 1 + l + n \in 1..(Len(s) + 1) /\ ~(i + 1 + l + n > Len(s) + 1)
        /\ i + 1 + l + n <= Len(s) + 1 /\ i \in 1..Len(s)
    BY <1>10
  <2> HIDE DEF next
  <2> QED BY <1>9, <2>1
<1>12. TagAt(s, i) = [value |-> tag, next |-> i + 1]
  <2>1. Has(s, i, <<tag>>) /\ tag \in 0..127 BY <1>2, <1>8
  <2> QED BY <2>1, TagRead
<1>13. ReadVarint(s, i + 1) = [value |-> n, next |-> i + 1 + l]
  <2>1. i + 1 \in Nat \ {0} /\ Has(s, i + 1, Varint[n]) BY <1>4, <1>8
  <2>2. ReadVarint(s, i + 1) = [value |-> n, next |-> i + 1 + Len(Varint[n])]
    BY <2>1, VarintRead
  <2> QED BY <1>4, <1>5, <2>2
<1> HIDE DEF next
<1>14. SubSeq(s, i + 1 + l, next - 1) = v
  <2>1. PICK k \in Nat \ {0} : k = i + 1 + l OBVIOUS
  <2>2. Has(s, k, v) /\ next - 1 = (k + Len(v)) - 1
    BY <1>3, <1>8, <1>9, <2>1
  <2>3. SubSeq(s, k, (k + Len(v)) - 1) = v
    BY ONLY <2>2, s \in Seq(Nat), v \in Seq(Nat), k \in Nat \ {0}, HasCut
  <2> QED BY <2>1, <2>2, <2>3
<1>15. FieldAt(s, i) = Field(number, WireBytes, v, next)
  <2>1. PICK r : /\ r = ReadVarint(s, i + 1) /\ r.value = n
                 /\ r.next = i + 1 + l
    BY <1>13
  <2>2. FieldAt(s, i) = FieldWith(s, i + 1, tag, r)
    BY <1>12, <2>1 DEF FieldAt, ReadField
  <2>3. r.next + r.value = next BY <1>9, <2>1
  <2>4. PICK k : k = r.next /\ SubSeq(s, k, next - 1) = v
    BY <1>14, <2>1
  <2>5. FieldWith(s, i + 1, tag, r) = Field(number, WireBytes, v, next)
    <3> DEFINE wire == tag % 8
               end == CASE wire = WireVarint -> r.next
                        [] wire = 1 -> (i + 1) + 8
                        [] wire = WireBytes -> r.next + r.value
                        [] wire = 5 -> (i + 1) + 4
                        [] OTHER -> Len(s) + 2
               value == IF wire = WireBytes /\ end <= Len(s) + 1
                        THEN SubSeq(s, r.next, end - 1) ELSE r.value
    <3>1. FieldWith(s, i + 1, tag, r)
            = [number |-> tag \div 8, wire |-> wire, next |-> end,
               value |-> value]
      BY DEF FieldWith
    <3>2. wire = WireBytes /\ wire = 2 BY <1>1 DEF WireBytes
    <3> HIDE DEF wire
    <3>3. end = next BY <2>3, <3>2 DEF WireVarint
    <3> HIDE DEF end
    <3>4. value = v BY <1>11, <2>4, <3>2, <3>3, Zenon
    <3> HIDE DEF value
    <3> QED BY <1>1, <3>1, <3>2, <3>3, <3>4 DEF Field
  <2> QED BY <2>2, <2>5
<1>16. FieldAt(s, i).number = number /\ FieldAt(s, i).next = next
  BY <1>15 DEF Field
<1>17. f[i] = IF FieldAt(s, i).next > Len(s) + 1 THEN Ended("failure")
              ELSE After(FieldAt(s, i), f[FieldAt(s, i).next])
  BY <1>1, <1>11, <1>12, <1>16, OneField
<1>18. f[i] = After(Field(number, WireBytes, v, next), f[next])
  BY <1>11, <1>15, <1>16, <1>17, Zenon
<1>19. PICK x : x = Field(number, WireBytes, v, next) /\ x.next = next
  BY NextOfField
<1>20. ReadAs(f, s, i, x) BY <1>11, <1>18, <1>19 DEF ReadAs
<1> QED BY <1>19, <1>20 DEF next

LEMMA HasSelf ==
  ASSUME NEW s \in Seq(Nat)
  PROVE  Has(s, 1, s)
<1>1. Len(s) \in Nat OBVIOUS
<1>2. \A j \in 1..Len(s) : (1 - 1) + j = j BY <1>1
<1> QED BY <1>1, <1>2 DEF Has

LEMMA ReadsEnd ==
  ASSUME NEW s \in Seq(Nat), NEW f, Reads(f, s, 1)
  PROVE  f[Len(s) + 1] = [fields |-> <<>>, end |-> "limit"]
<1>1. Len(s) + 1 \in 1..(Len(s) + 1) OBVIOUS
<1> QED BY <1>1 DEF Reads, Ended

LEMMA WriteTypes ==
  ASSUME NEW number \in 1..15
  PROVE  /\ \A n \in Nat : WriteNumber(number, n) \in Seq(Nat)
         /\ \A v \in Seq(Nat) : WriteBytes(number, v) \in Seq(Nat)
<1>1. ASSUME NEW wire \in {WireVarint, WireBytes}
      PROVE  <<Tag(number, wire)>> \in Seq(Nat)
  <2>1. PICK tag \in 1..127 : tag = Tag(number, wire) BY TagParts
  <2>2. <<tag>> \in Seq(Nat) OBVIOUS
  <2> QED BY <2>1, <2>2
<1>2. ASSUME NEW n \in Nat PROVE WriteNumber(number, n) \in Seq(Nat)
  <2>1. PICK a \in Seq(Nat) : a = <<Tag(number, WireVarint)>> BY <1>1
  <2>2. PICK w \in Seq(Nat) : w = Varint[n] BY VarintIs
  <2>3. a \o w \in Seq(Nat) /\ <<>> \in Seq(Nat) OBVIOUS
  <2> QED BY <2>1, <2>2, <2>3 DEF WriteNumber
<1>3. ASSUME NEW v \in Seq(Nat) PROVE WriteBytes(number, v) \in Seq(Nat)
  <2>1. PICK a \in Seq(Nat) : a = <<Tag(number, WireBytes)>> BY <1>1
  <2>2. PICK n \in Nat : n = Len(v) OBVIOUS
  <2>3. PICK w \in Seq(Nat) : w = Varint[n] BY VarintIs
  <2>4. PICK aw \in Seq(Nat) : aw = a \o w BY Joined
  <2>5. aw \o v \in Seq(Nat) BY Joined
  <2> QED BY <2>1, <2>2, <2>3, <2>4, <2>5 DEF WriteBytes
<1> QED BY <1>2, <1>3

-----------------------------------------------------------------------------
(* A Timestamp, and a phone.                                                  *)

LEMMA NoSeconds ==
  ASSUME NEW old \in Nat
  PROVE  FoldLeft(SetSeconds, old, <<>>) = old
<1>1. PICK t : t = <<>> OBVIOUS
<1>0. PICK n \in Nat : n = 0 OBVIOUS
<1>9. PICK V : V = Nat OBVIOUS
<1>10. old \in V BY <1>9
<1>2. DOMAIN t = 1..n BY <1>0, <1>1
<1>3. PICK f : f = [k \in 0..0 |-> old] OBVIOUS
<1>4. f[0] = old BY <1>3
<1>5. \A k \in 1..n : f[k] = SetSeconds(f[k - 1], t[k]) BY <1>0
<1>6. \A v \in V : \A k \in 1..n : SetSeconds(v, t[k]) \in V BY <1>0
<1>8. SecondsFold(f, t, n, old, V) BY <1>4, <1>5, <1>6 DEF SecondsFold
<1>7. FoldLeft(SetSeconds, old, t) = f[n]
  BY ONLY <1>2, <1>8, <1>10, n \in Nat, FoldSeconds
<1> QED BY <1>0, <1>1, <1>4, <1>7

LEMMA OneSeconds ==
  ASSUME NEW old \in Nat, NEW n \in Nat, NEW x, x = Field(1, WireVarint, n, x.next)
  PROVE  FoldLeft(SetSeconds, old, <<x>>) = n
<1>1. PICK t : t = <<x>> OBVIOUS
<1>0. PICK m \in Nat : m = 1 OBVIOUS
<1>11. PICK V : V = Nat OBVIOUS
<1>10. old \in V BY <1>11
<1>2. DOMAIN t = 1..m /\ t[1] = x BY <1>0, <1>1
<1>3. PICK f : f = [k \in 0..1 |-> IF k = 0 THEN old ELSE n] OBVIOUS
<1>4. f[0] = old /\ f[1] = n BY <1>3
<1>5. \A v : SetSeconds(v, x) = n BY DEF SetSeconds, Is, Field
<1>6. \A k \in 1..m : k = 1 /\ k - 1 = 0 BY <1>0
<1>7. \A k \in 1..m : f[k] = SetSeconds(f[k - 1], t[k]) BY <1>2, <1>4, <1>5, <1>6
<1>8. \A v \in V : \A k \in 1..m : SetSeconds(v, t[k]) \in V
  BY <1>2, <1>5, <1>6, <1>11
<1>12. SecondsFold(f, t, m, old, V) BY <1>4, <1>7, <1>8 DEF SecondsFold
<1>9. FoldLeft(SetSeconds, old, t) = f[m]
  BY ONLY <1>2, <1>10, <1>12, m \in Nat, FoldSeconds
<1> QED BY <1>0, <1>1, <1>4, <1>9

LEMMA TimestampRead ==
  ASSUME NEW n \in Nat, NEW old \in Nat
  PROVE  ReadTimestamp(WriteTimestamp(n), old)
           = [ok |-> TRUE, seconds |-> IF n = 0 THEN old ELSE n]
<1>1. PICK s \in Seq(Nat) : s = WriteNumber(1, n) BY WriteTypes
<1>2. PICK f : Reads(f, s, 1) /\ Fields(s) = f[1] BY FieldsRead
<1>3. f[Len(s) + 1] = [fields |-> <<>>, end |-> "limit"] BY <1>2, ReadsEnd
<1>4. CASE n = 0
  <2>1. s = <<>> /\ Len(s) + 1 = 1 BY <1>1, <1>4 DEF WriteNumber
  <2>2. Fields(s) = [fields |-> <<>>, end |-> "limit"] BY <1>2, <1>3, <2>1
  <2>3. PICK m : m = Fields(s) /\ m.fields = <<>> /\ m.end = "limit"
    BY <2>2
  <2>4. ReadTimestamp(s, old)
          = [ok |-> TRUE, seconds |-> FoldLeft(SetSeconds, old, m.fields)]
    <3>1. (m.end = "limit") = TRUE BY <2>3
    <3> QED BY <2>3, <3>1, Zenon DEF ReadTimestamp
  <2>5. FoldLeft(SetSeconds, old, m.fields) = old BY <2>3, NoSeconds, Zenon
  <2> QED BY <1>1, <1>4, <2>4, <2>5 DEF WriteTimestamp
<1>5. CASE n # 0
  <2>1. n \in Nat \ {0} /\ 1 \in Nat \ {0} /\ 1 \in 1..15 BY <1>5
  <2>2. Has(s, 1, WriteNumber(1, n)) BY <1>1, HasSelf
  <2>3. PICK next : next = 1 + Len(WriteNumber(1, n)) OBVIOUS
  <2>4. next = Len(s) + 1 BY <1>1, <2>3
  <2>6. PICK x : x = Field(1, WireVarint, n, next) /\ x.next = next
    BY NextOfField
  <2>5. ReadAs(f, s, 1, x) BY <1>2, <2>1, <2>2, <2>3, <2>6, NumberRead
  <2>7. x = Field(1, WireVarint, n, x.next) BY <2>6
  <2>8. <<x>> \o <<>> = <<x>> OBVIOUS
  <2>9. f[1] = [fields |-> <<x>>, end |-> "limit"]
    <3>1. f[x.next] = [fields |-> <<>>, end |-> "limit"]
      BY <1>3, <2>4, <2>6
    <3>2. f[1] = After(x, f[x.next]) BY <2>5 DEF ReadAs
    <3> QED BY <2>8, <3>1, <3>2 DEF After
  <2>10. FoldLeft(SetSeconds, old, <<x>>) = n BY <2>7, OneSeconds
  <2>11. PICK m : m = Fields(s) /\ m.fields = <<x>> /\ m.end = "limit"
    BY <1>2, <2>9
  <2>12. ReadTimestamp(s, old)
           = [ok |-> TRUE, seconds |-> FoldLeft(SetSeconds, old, m.fields)]
    <3>1. (m.end = "limit") = TRUE BY <2>11
    <3> QED BY <2>11, <3>1, Zenon DEF ReadTimestamp
  <2>13. FoldLeft(SetSeconds, old, m.fields) = n BY <2>10, <2>11, Zenon
  <2> QED BY <1>1, <1>5, <2>12, <2>13 DEF WriteTimestamp
<1> QED BY <1>4, <1>5

\* The fields that a phone is written as.
PhoneFields ==
  {x \in [number : Nat, wire : Nat, next : Nat, value : Nat \cup Seq(Nat)] :
     \/ x.wire = WireVarint /\ x.number \in {1, 3, 4, 5} /\ x.value \in Nat
     \/ x.wire = WireBytes /\ x.number = 2 /\ x.value \in Seq(0..127)
     \/ x.wire = WireBytes /\ x.number = 6
        /\ \E n \in Nat : x.value = WriteTimestamp(n)}

LEMMA SetFieldType ==
  ASSUME NEW b \in Phones, NEW x \in PhoneFields
  PROVE  SetField(b, x) \in Phones /\ Readable(x)
<1>1. CASE x.wire = WireVarint /\ x.number \in {1, 3, 4, 5} /\ x.value \in Nat
  <2>1. CASE x.number = 1
    BY <1>1, <2>1 DEF SetField, Is, Phones, Readable, WireVarint, WireBytes
  <2>2. CASE x.number = 3
    BY <1>1, <2>2 DEF SetField, Is, Phones, Readable, WireVarint, WireBytes
  <2>3. CASE x.number = 4
    <3>1. PICK a \in BOOLEAN : a = (x.value # 0) OBVIOUS
    <3>2. SetField(b, x) = [b EXCEPT !.active = a]
      BY <1>1, <2>3, <3>1 DEF SetField, Is, WireVarint, WireBytes
    <3> QED
      BY <1>1, <2>3, <3>2 DEF Is, Phones, Readable, WireVarint, WireBytes
  <2>4. CASE x.number = 5
    BY <1>1, <2>4 DEF SetField, Is, Phones, Readable, WireVarint, WireBytes
  <2> QED BY <1>1, <2>1, <2>2, <2>3, <2>4
<1>2. CASE x.wire = WireBytes /\ x.number = 2 /\ x.value \in Seq(0..127)
  <2>1. \A j \in DOMAIN x.value : x.value[j] < 128
    <3>1. ASSUME NEW j \in DOMAIN x.value PROVE x.value[j] < 128
      <4>1. PICK v \in Seq(0..127) : v = x.value BY <1>2
      <4>2. DOMAIN v = 1..Len(v) OBVIOUS
      <4>3. j \in 1..Len(v) BY <4>1, <4>2
      <4>4. v[j] \in 0..127 BY <4>3, ElementOfSeq
      <4>5. v[j] < 128
        <5>1. \A y \in 0..127 : y < 128 OBVIOUS
        <5> QED BY <4>4, <5>1
      <4> QED BY <4>1, <4>5
    <3> QED BY <3>1
  <2> QED
    BY <1>2, <2>1 DEF SetField, Is, Phones, Readable, WireVarint, WireBytes
<1>3. CASE /\ x.wire = WireBytes /\ x.number = 6
           /\ \E n \in Nat : x.value = WriteTimestamp(n)
  <2>1. PICK n \in Nat : x.value = WriteTimestamp(n) BY <1>3
  <2>2. PICK old \in Nat : old = IF b.created = NoTime THEN 0
                                 ELSE b.created - 1
    BY DEF Phones, NoTime
  <2>3. ReadTimestamp(x.value, old)
          = [ok |-> TRUE, seconds |-> IF n = 0 THEN old ELSE n]
    BY <2>1, TimestampRead
  <2>4. PICK c \in Nat : c = 1 + ReadTimestamp(x.value, old).seconds
    BY <2>3
  <2>5. SetField(b, x) = [b EXCEPT !.created = c]
    BY <1>3, <2>2, <2>4 DEF SetField, Is, WireVarint, WireBytes
  <2>6. SetField(b, x) \in Phones BY <2>5 DEF Phones
  <2>7. ReadTimestamp(x.value, 0).ok
    <3>1. 0 \in Nat OBVIOUS
    <3>2. ReadTimestamp(x.value, 0)
            = [ok |-> TRUE, seconds |-> IF n = 0 THEN 0 ELSE n]
      BY <2>1, <3>1, TimestampRead
    <3> QED BY <3>2
  <2> QED BY <1>3, <2>6, <2>7 DEF Readable, Is, WireVarint, WireBytes
<1> QED BY <1>1, <1>2, <1>3 DEF PhoneFields

\* A fold's values one after the other.
Follows(f, G, b, n) == f[0] = b /\ \A k \in 1..n : f[k] = G[k][f[k - 1]]

LEMMA FoldValues ==
  ASSUME NEW n \in Nat, NEW V, NEW b \in V, NEW G \in [1..n -> [V -> V]]
  PROVE  \E f \in [0..n -> V] : Follows(f, G, b, n)
<1>1. PICK g \in [SUBSET (1..n) -> V] : Iterates(g, G, b, n) BY IteratesAll
<1> DEFINE f == [k \in 0..n |-> g[1..k]]
<1>2. ASSUME NEW k \in 0..n PROVE 1..k \in SUBSET (1..n) /\ k \in Nat OBVIOUS
<1>3. f \in [0..n -> V] BY <1>2
<1>4. f[0] = b
  <2>1. 1..0 = {} /\ 0 \in 0..n OBVIOUS
  <2>2. g[{}] = b BY <1>1 DEF Iterates
  <2> QED BY <2>1, <2>2
<1>5. ASSUME NEW k \in 1..n PROVE f[k] = G[k][f[k - 1]]
  <2>1. k \in Nat /\ k # 0 /\ k \in 0..n /\ k - 1 \in 0..n OBVIOUS
  <2>2. 1..k # {} /\ Max(1..k) = k /\ (1..k) \ {k} = 1..(k - 1)
    BY <2>1, UpTo
  <2>3. g[1..k] = G[k][g[1..(k - 1)]]
    BY <1>1, <1>2, <2>1, <2>2 DEF Iterates
  <2> QED BY <2>1, <2>3
<1> HIDE DEF f
<1> QED BY <1>3, <1>4, <1>5 DEF Follows

LEMMA FieldAndRest ==
  ASSUME NEW q \in Phones, NEW x \in PhoneFields, NEW t \in Seq(PhoneFields)
  PROVE  FoldLeft(SetField, q, <<x>> \o t) = FoldLeft(SetField, SetField(q, x), t)
<1>1. PICK n \in Nat : n = Len(t) /\ DOMAIN t = 1..n OBVIOUS
<1>2. \A k \in 1..n : t[k] \in PhoneFields BY <1>1
<1>3. PICK u : u = <<x>> \o t OBVIOUS
<1>4. DOMAIN u = 1..(n + 1) /\ u[1] = x /\ \A k \in 2..(n + 1) : u[k] = t[k - 1]
  BY <1>1, <1>3
<1>5. PICK b \in Phones : b = SetField(q, x) BY SetFieldType
<1> DEFINE G == [k \in 1..n |-> [v \in Phones |-> SetField(v, t[k])]]
<1>6. G \in [1..n -> [Phones -> Phones]] BY <1>2, SetFieldType
<1>7. ASSUME NEW k \in 1..n, NEW v \in Phones PROVE G[k][v] = SetField(v, t[k])
  OBVIOUS
<1> HIDE DEF G
<1>8. PICK f \in [0..n -> Phones] : Follows(f, G, b, n)
  BY ONLY n \in Nat, b \in Phones, <1>6, FoldValues
<1>9. \A k \in 1..n : f[k] = SetField(f[k - 1], t[k])
  <2> SUFFICES ASSUME NEW k \in 1..n PROVE f[k] = SetField(f[k - 1], t[k])
    OBVIOUS
  <2>1. k - 1 \in 0..n BY <1>1
  <2>2. f[k - 1] \in Phones BY <1>8, <2>1
  <2> QED BY <1>7, <1>8, <2>2 DEF Follows
<1>10. FoldLeft(SetField, b, t) = f[n]
  <2>1. \A v \in Phones : \A k \in 1..n : SetField(v, t[k]) \in Phones
    BY <1>2, SetFieldType
  <2>2. PhoneFold(f, t, n, b, Phones)
    BY <1>8, <1>9, <2>1 DEF Follows, PhoneFold
  <2> QED BY ONLY n \in Nat, b \in Phones, <1>1, <2>2, FoldPhone
<1>11. PICK g : g = [k \in 0..(n + 1) |-> IF k = 0 THEN q ELSE f[k - 1]] OBVIOUS
<1>12. g[0] = q /\ \A k \in 1..(n + 1) : g[k] = f[k - 1] BY <1>11
<1>13. \A k \in 1..(n + 1) : g[k] = SetField(g[k - 1], u[k])
  <2> SUFFICES ASSUME NEW k \in 1..(n + 1)
               PROVE  g[k] = SetField(g[k - 1], u[k])
    OBVIOUS
  <2>1. CASE k = 1 BY <1>4, <1>5, <1>8, <1>12, <2>1 DEF Follows
  <2>2. CASE k # 1
    <3>1. k \in 2..(n + 1) /\ k - 1 \in 1..n /\ k - 1 \in 1..(n + 1)
      BY <1>1, <2>2
    <3>2. f[k - 1] = SetField(f[(k - 1) - 1], t[k - 1]) BY <1>9, <3>1
    <3>3. g[k] = f[k - 1] /\ g[k - 1] = f[(k - 1) - 1] /\ u[k] = t[k - 1]
      BY <1>4, <1>12, <3>1
    <3> QED BY <3>2, <3>3, Zenon
  <2> QED BY <2>1, <2>2
<1>14. FoldLeft(SetField, q, u) = g[n + 1]
  <2>1. \A v \in Phones : \A k \in 1..(n + 1) : SetField(v, u[k]) \in Phones
    <3> SUFFICES ASSUME NEW k \in 1..(n + 1) PROVE u[k] \in PhoneFields
      BY SetFieldType
    <3>1. k = 1 \/ (k \in 2..(n + 1) /\ k - 1 \in 1..n) BY <1>1
    <3> QED BY <1>2, <1>4, <3>1
  <2>2. PhoneFold(g, u, n + 1, q, Phones) BY <1>12, <1>13, <2>1 DEF PhoneFold
  <2>3. n + 1 \in Nat /\ DOMAIN u = 1..(n + 1) BY <1>4
  <2> QED BY ONLY q \in Phones, <2>2, <2>3, FoldPhone
<1>15. g[n + 1] = f[n]
  <2>1. n + 1 \in 1..(n + 1) /\ (n + 1) - 1 = n OBVIOUS
  <2> QED BY <1>12, <2>1
<1> QED BY <1>3, <1>5, <1>10, <1>14, <1>15

\* The fields from place i on make of q the phone p, and nothing is wrong.
Makes(f, i, q, p) ==
  \E t \in Seq(PhoneFields) :
    f[i] = [fields |-> t, end |-> "limit"] /\ FoldLeft(SetField, q, t) = p

LEMMA Prepended ==
  ASSUME NEW x \in PhoneFields, NEW t \in Seq(PhoneFields)
  PROVE  <<x>> \o t \in Seq(PhoneFields)
OBVIOUS

LEMMA OneMakes ==
  ASSUME NEW s, NEW f, NEW i, NEW x \in PhoneFields, NEW q \in Phones, NEW p,
         ReadAs(f, s, i, x), Makes(f, x.next, SetField(q, x), p)
  PROVE  Makes(f, i, q, p)
<1>1. PICK t \in Seq(PhoneFields) :
        /\ f[x.next] = [fields |-> t, end |-> "limit"]
        /\ FoldLeft(SetField, SetField(q, x), t) = p
  BY DEF Makes
<1>2. PICK u \in Seq(PhoneFields) : u = <<x>> \o t BY Prepended
<1>3. f[i] = [fields |-> u, end |-> "limit"]
  <2>1. PICK y : y = f[x.next] /\ y = [fields |-> t, end |-> "limit"]
    BY <1>1, Zenon
  <2>2. f[i] = After(x, y) BY <2>1 DEF ReadAs
  <2>3. y.fields = t BY <2>1
  <2>4. After(x, y) = [y EXCEPT !.fields = u]
    BY <1>2, <2>3, Zenon DEF After
  <2>5. [y EXCEPT !.fields = u] = [fields |-> u, end |-> "limit"]
    BY ONLY <2>1
  <2> QED BY <2>2, <2>4, <2>5, Zenon
<1>4. FoldLeft(SetField, q, <<x>> \o t)
        = FoldLeft(SetField, SetField(q, x), t)
  BY FieldAndRest
<1>5. FoldLeft(SetField, q, u) = p BY <1>1, <1>2, <1>4, Zenon
<1> QED BY <1>3, <1>5 DEF Makes

\* Reading the number n as this field makes of the phone q the phone r.
Sets(q, number, n, r) ==
  (n = 0 /\ q = r)
  \/ (n # 0 /\ \A next : SetField(q, Field(number, WireVarint, n, next)) = r)

\* Reading the bytes v as this field makes of the phone q the phone r.
SetsBytes(q, number, v, r) ==
  /\ number = 2 => v \in Seq(0..127)
  /\ number = 6 => \E n \in Nat : v = WriteTimestamp(n)
  /\ \A next : SetField(q, Field(number, WireBytes, v, next)) = r

LEMMA NumberMakes ==
  ASSUME NEW s \in Seq(Nat), NEW i \in Nat \ {0}, NEW f, Reads(f, s, 1),
         NEW number \in {1, 3, 4, 5}, NEW n \in Nat,
         Has(s, i, WriteNumber(number, n)),
         NEW q \in Phones, NEW r \in Phones, NEW p, Sets(q, number, n, r),
         Makes(f, i + Len(WriteNumber(number, n)), r, p)
  PROVE  Makes(f, i, q, p)
<1>0. number \in 1..15 OBVIOUS
<1>1. CASE n = 0
  <2>1. Len(WriteNumber(number, n)) = 0 BY <1>1 DEF WriteNumber
  <2>2. i + Len(WriteNumber(number, n)) = i BY <2>1
  <2>3. q = r BY <1>1 DEF Sets
  <2> QED BY <2>2, <2>3
<1>2. CASE n # 0
  <2>1. PICK next : next = i + Len(WriteNumber(number, n)) OBVIOUS
  <2>2. n \in Nat \ {0} BY <1>2
  <2>4. PICK x : x = Field(number, WireVarint, n, next) /\ x.next = next
    BY NextOfField
  <2>3. ReadAs(f, s, i, x)
    BY ONLY s \in Seq(Nat), i \in Nat \ {0}, Reads(f, s, 1), <1>0, <2>1, <2>2,
            <2>4, Has(s, i, WriteNumber(number, n)), NumberRead
  <2>5. x \in PhoneFields
    <3>1. next \in Nat BY <2>3, <2>4 DEF ReadAs
    <3> QED BY <2>4, <3>1 DEF PhoneFields, Field, WireVarint
  <2>6. SetField(q, x) = r BY <1>2, <2>4 DEF Sets
  <2>7. Makes(f, x.next, SetField(q, x), p) BY <2>1, <2>4, <2>6
  <2> QED BY <2>3, <2>5, <2>7, OneMakes
<1> QED BY <1>1, <1>2

LEMMA BytesMakes ==
  ASSUME NEW s \in Seq(Nat), NEW i \in Nat \ {0}, NEW f, Reads(f, s, 1),
         NEW number \in {2, 6}, NEW v \in Seq(Nat),
         Has(s, i, WriteBytes(number, v)),
         NEW q \in Phones, NEW r \in Phones, NEW p,
         SetsBytes(q, number, v, r),
         Makes(f, i + Len(WriteBytes(number, v)), r, p)
  PROVE  Makes(f, i, q, p)
<1>0. number \in 1..15 OBVIOUS
<1>1. PICK next : next = i + Len(WriteBytes(number, v)) OBVIOUS
<1>3. PICK x : x = Field(number, WireBytes, v, next) /\ x.next = next
  BY NextOfField
<1>2. ReadAs(f, s, i, x)
  BY ONLY s \in Seq(Nat), i \in Nat \ {0}, Reads(f, s, 1), <1>0, <1>1, <1>3,
          v \in Seq(Nat), Has(s, i, WriteBytes(number, v)), BytesRead
<1>4. x \in PhoneFields
  <2>1. next \in Nat BY <1>2, <1>3 DEF ReadAs
  <2>2. /\ x.number = number /\ x.wire = WireBytes /\ x.value = v
        /\ x \in [number : Nat, wire : Nat, next : Nat, value : Nat \cup Seq(Nat)]
    BY <1>3, <2>1 DEF Field, WireBytes
  <2>3. number = 2 \/ number = 6 OBVIOUS
  <2> QED BY <2>2, <2>3 DEF PhoneFields, SetsBytes
<1>5. SetField(q, x) = r BY <1>3 DEF SetsBytes
<1>6. Makes(f, x.next, SetField(q, x), p) BY <1>1, <1>3, <1>5
<1> QED BY <1>2, <1>4, <1>6, OneMakes

\* The phones that come into being while p is read.
Part(p, n) ==
  [id      |-> IF n >= 1 THEN p.id ELSE 0,
   name    |-> IF n >= 2 THEN p.name ELSE <<>>,
   network |-> IF n >= 3 THEN p.network ELSE 0,
   active  |-> IF n >= 4 THEN p.active ELSE FALSE,
   type    |-> IF n >= 5 THEN p.type ELSE 0,
   created |-> IF n >= 6 THEN p.created ELSE NoTime]

LEMMA PartType ==
  ASSUME NEW p \in Phones
  PROVE  /\ \A n \in 0..6 : Part(p, n) \in Phones
         /\ Part(p, 0) = NewPhone /\ Part(p, 6) = p
<1>1. <<>> \in Seq(0..127) OBVIOUS
<1>2. \A n \in 0..6 : Part(p, n) \in Phones
  BY <1>1 DEF Part, Phones, NoTime
<1>3. Part(p, 0) = NewPhone BY DEF Part, NewPhone
<1>4. Part(p, 6) = p BY DEF Part, Phones
<1> QED BY <1>2, <1>3, <1>4

LEMMA FieldSets ==
  \A q, v, next :
    /\ SetField(q, Field(1, WireVarint, v, next)) = [q EXCEPT !.id = v]
    /\ SetField(q, Field(2, WireBytes, v, next)) = [q EXCEPT !.name = v]
    /\ SetField(q, Field(3, WireVarint, v, next)) = [q EXCEPT !.network = v]
    /\ SetField(q, Field(4, WireVarint, v, next)) = [q EXCEPT !.active = v # 0]
    /\ SetField(q, Field(5, WireVarint, v, next)) = [q EXCEPT !.type = v]
    /\ SetField(q, Field(6, WireBytes, v, next))
         = [q EXCEPT !.created =
              1 + ReadTimestamp(v, IF q.created = NoTime THEN 0
                                   ELSE q.created - 1).seconds]
<1> SUFFICES ASSUME NEW q, NEW v, NEW next
             PROVE
    /\ SetField(q, Field(1, WireVarint, v, next)) = [q EXCEPT !.id = v]
    /\ SetField(q, Field(2, WireBytes, v, next)) = [q EXCEPT !.name = v]
    /\ SetField(q, Field(3, WireVarint, v, next)) = [q EXCEPT !.network = v]
    /\ SetField(q, Field(4, WireVarint, v, next)) = [q EXCEPT !.active = v # 0]
    /\ SetField(q, Field(5, WireVarint, v, next)) = [q EXCEPT !.type = v]
    /\ SetField(q, Field(6, WireBytes, v, next))
         = [q EXCEPT !.created =
              1 + ReadTimestamp(v, IF q.created = NoTime THEN 0
                                   ELSE q.created - 1).seconds]
  OBVIOUS
<1>1. SetField(q, Field(1, WireVarint, v, next)) = [q EXCEPT !.id = v]
  BY DEF SetField, Field, Is, WireVarint, WireBytes
<1>2. SetField(q, Field(2, WireBytes, v, next)) = [q EXCEPT !.name = v]
  BY DEF SetField, Field, Is, WireVarint, WireBytes
<1>3. SetField(q, Field(3, WireVarint, v, next)) = [q EXCEPT !.network = v]
  BY DEF SetField, Field, Is, WireVarint, WireBytes
<1>4. SetField(q, Field(4, WireVarint, v, next)) = [q EXCEPT !.active = v # 0]
  <2>1. PICK a \in BOOLEAN : a = (v # 0) OBVIOUS
  <2>2. SetField(q, Field(4, WireVarint, v, next)) = [q EXCEPT !.active = a]
    BY <2>1 DEF SetField, Field, Is, WireVarint, WireBytes
  <2> QED BY <2>1, <2>2, Zenon
<1>5. SetField(q, Field(5, WireVarint, v, next)) = [q EXCEPT !.type = v]
  BY DEF SetField, Field, Is, WireVarint, WireBytes
<1>6. SetField(q, Field(6, WireBytes, v, next))
         = [q EXCEPT !.created =
              1 + ReadTimestamp(v, IF q.created = NoTime THEN 0
                                   ELSE q.created - 1).seconds]
  BY DEF SetField, Field, Is, WireVarint, WireBytes
<1> QED BY <1>1, <1>2, <1>3, <1>4, <1>5, <1>6, Zenon

LEMMA PartSteps ==
  ASSUME NEW p \in Phones
  PROVE  /\ [Part(p, 0) EXCEPT !.id = p.id] = Part(p, 1)
         /\ [Part(p, 1) EXCEPT !.name = p.name] = Part(p, 2)
         /\ [Part(p, 2) EXCEPT !.network = p.network] = Part(p, 3)
         /\ [Part(p, 3) EXCEPT !.active = p.active] = Part(p, 4)
         /\ [Part(p, 4) EXCEPT !.type = p.type] = Part(p, 5)
         /\ [Part(p, 5) EXCEPT !.created = p.created] = Part(p, 6)
         /\ p.id = 0 => Part(p, 0) = Part(p, 1)
         /\ p.name = <<>> => Part(p, 1) = Part(p, 2)
         /\ p.network = 0 => Part(p, 2) = Part(p, 3)
         /\ p.active = FALSE => Part(p, 3) = Part(p, 4)
         /\ p.type = 0 => Part(p, 4) = Part(p, 5)
         /\ p.created = NoTime => Part(p, 5) = Part(p, 6)
         /\ Part(p, 5).created = NoTime
<1>0. p.active \in BOOLEAN BY DEF Phones
<1> PICK no \in BOOLEAN : no = FALSE OBVIOUS
<1>1. Part(p, 0) = [id |-> 0, name |-> <<>>, network |-> 0,
                    active |-> no, type |-> 0, created |-> NoTime]
  <2>1. Part(p, 0) = [id |-> 0, name |-> <<>>, network |-> 0,
                      active |-> FALSE, type |-> 0, created |-> NoTime]
    BY DEF Part
  <2> QED BY <2>1, no = FALSE, Zenon
<1>2. Part(p, 1) = [id |-> p.id, name |-> <<>>, network |-> 0,
                    active |-> no, type |-> 0, created |-> NoTime]
  <2>1. Part(p, 1) = [id |-> p.id, name |-> <<>>, network |-> 0,
                      active |-> FALSE, type |-> 0, created |-> NoTime]
    BY DEF Part
  <2> QED BY <2>1, no = FALSE, Zenon
<1>3. Part(p, 2) = [id |-> p.id, name |-> p.name, network |-> 0,
                    active |-> no, type |-> 0, created |-> NoTime]
  <2>1. Part(p, 2) = [id |-> p.id, name |-> p.name, network |-> 0,
                      active |-> FALSE, type |-> 0, created |-> NoTime]
    BY DEF Part
  <2> QED BY <2>1, no = FALSE, Zenon
<1>4. Part(p, 3) = [id |-> p.id, name |-> p.name, network |-> p.network,
                    active |-> no, type |-> 0, created |-> NoTime]
  <2>1. Part(p, 3) = [id |-> p.id, name |-> p.name, network |-> p.network,
                      active |-> FALSE, type |-> 0, created |-> NoTime]
    BY DEF Part
  <2> QED BY <2>1, no = FALSE, Zenon
<1>5. Part(p, 4) = [id |-> p.id, name |-> p.name, network |-> p.network,
                    active |-> p.active, type |-> 0, created |-> NoTime]
  BY DEF Part
<1>6. Part(p, 5) = [id |-> p.id, name |-> p.name, network |-> p.network,
                    active |-> p.active, type |-> p.type, created |-> NoTime]
  BY DEF Part
<1>7. Part(p, 6) = [id |-> p.id, name |-> p.name, network |-> p.network,
                    active |-> p.active, type |-> p.type, created |-> p.created]
  BY DEF Part
<1>11. [Part(p, 0) EXCEPT !.id = p.id] = Part(p, 1)
  BY <1>1, <1>2
<1>12. [Part(p, 1) EXCEPT !.name = p.name] = Part(p, 2)
  BY <1>2, <1>3
<1>13. [Part(p, 2) EXCEPT !.network = p.network] = Part(p, 3)
  BY <1>3, <1>4
<1>14. [Part(p, 3) EXCEPT !.active = p.active] = Part(p, 4)
  BY <1>4, <1>5
<1>15. [Part(p, 4) EXCEPT !.type = p.type] = Part(p, 5)
  BY <1>5, <1>6
<1>16. [Part(p, 5) EXCEPT !.created = p.created] = Part(p, 6)
  BY <1>6, <1>7
<1>21. p.id = 0 => Part(p, 0) = Part(p, 1)
  BY <1>0, <1>1, <1>2
<1>22. p.name = <<>> => Part(p, 1) = Part(p, 2)
  BY <1>0, <1>2, <1>3
<1>23. p.network = 0 => Part(p, 2) = Part(p, 3)
  BY <1>0, <1>3, <1>4
<1>24. p.active = FALSE => Part(p, 3) = Part(p, 4)
  BY <1>0, <1>4, <1>5
<1>25. p.type = 0 => Part(p, 4) = Part(p, 5)
  BY <1>0, <1>5, <1>6
<1>26. p.created = NoTime => Part(p, 5) = Part(p, 6)
  BY <1>0, <1>6, <1>7
<1>30. Part(p, 5).created = NoTime BY <1>6
<1> QED
  BY <1>11, <1>12, <1>13, <1>14, <1>15, <1>16, <1>21, <1>22, <1>23, <1>24, <1>25, <1>26, <1>30

\* What a phone is written as, field by field.
Written(p, n) ==
  CASE n = 1 -> WriteNumber(1, p.id)
    [] n = 2 -> IF p.name = <<>> THEN <<>> ELSE WriteBytes(2, p.name)
    [] n = 3 -> WriteNumber(3, p.network)
    [] n = 4 -> WriteNumber(4, IF p.active THEN 1 ELSE 0)
    [] n = 5 -> WriteNumber(5, p.type)
    [] n = 6 -> IF p.created = NoTime THEN <<>>
                ELSE WriteBytes(6, WriteTimestamp(p.created - 1))

LEMMA LowBytes ==
  ASSUME NEW v \in Seq(0..127)
  PROVE  v \in Seq(Nat)
<1>1. PICK l \in Nat : l = Len(v) OBVIOUS
<1>2. ASSUME NEW j \in 1..l PROVE v[j] \in Nat
  <2>1. v[j] \in 0..127 BY <1>1, ElementOfSeq
  <2>2. 0..127 \subseteq Nat OBVIOUS
  <2> QED BY <2>1, <2>2
<1>3. v = [j \in 1..l |-> v[j]] BY <1>1
<1>4. [j \in 1..l |-> v[j]] \in Seq(Nat) BY <1>2
<1> QED BY <1>3, <1>4

LEMMA WrittenIs ==
  ASSUME NEW p
  PROVE  /\ Written(p, 1) = WriteNumber(1, p.id)
         /\ Written(p, 2) = IF p.name = <<>> THEN <<>> ELSE WriteBytes(2, p.name)
         /\ Written(p, 3) = WriteNumber(3, p.network)
         /\ Written(p, 4) = WriteNumber(4, IF p.active THEN 1 ELSE 0)
         /\ Written(p, 5) = WriteNumber(5, p.type)
         /\ Written(p, 6) = IF p.created = NoTime THEN <<>>
                            ELSE WriteBytes(6, WriteTimestamp(p.created - 1))
BY DEF Written

LEMMA WrittenType ==
  ASSUME NEW p \in Phones
  PROVE  /\ \A n \in 1..6 : Written(p, n) \in Seq(Nat)
         /\ SerializePhone(p)
              = Written(p, 1) \o Written(p, 2) \o Written(p, 3)
                \o Written(p, 4) \o Written(p, 5) \o Written(p, 6)
<1>1. /\ p.id \in Nat /\ p.network \in Nat /\ p.type \in Nat
      /\ p.created \in Nat /\ p.name \in Seq(0..127)
  BY DEF Phones
<1>2. p.name \in Seq(Nat) BY <1>1, LowBytes
<1>3. <<>> \in Seq(Nat) OBVIOUS
<1>4. Written(p, 1) \in Seq(Nat)
  <2>1. PICK n \in Nat : n = p.id BY <1>1
  <2>2. WriteNumber(1, n) \in Seq(Nat) BY WriteTypes
  <2> QED BY <2>1, <2>2 DEF Written
<1>5. Written(p, 2) \in Seq(Nat) BY <1>2, <1>3, WriteTypes DEF Written
<1>6. Written(p, 3) \in Seq(Nat)
  <2>1. PICK n \in Nat : n = p.network BY <1>1
  <2>2. WriteNumber(3, n) \in Seq(Nat) BY WriteTypes
  <2> QED BY <2>1, <2>2 DEF Written
<1>7. Written(p, 4) \in Seq(Nat)
  <2>1. PICK n \in Nat : n = IF p.active THEN 1 ELSE 0 OBVIOUS
  <2>2. WriteNumber(4, n) \in Seq(Nat) BY WriteTypes
  <2> QED BY <2>1, <2>2 DEF Written
<1>8. Written(p, 5) \in Seq(Nat)
  <2>1. PICK n \in Nat : n = p.type BY <1>1
  <2>2. WriteNumber(5, n) \in Seq(Nat) BY WriteTypes
  <2> QED BY <2>1, <2>2 DEF Written
<1>9. Written(p, 6) \in Seq(Nat)
  <2>1. CASE p.created = NoTime BY <1>3, <2>1 DEF Written
  <2>2. CASE p.created # NoTime
    <3>1. PICK n \in Nat : n = p.created - 1 BY <1>1, <2>2 DEF NoTime
    <3>2. PICK v \in Seq(Nat) : v = WriteTimestamp(n)
      BY WriteTypes DEF WriteTimestamp
    <3>3. WriteBytes(6, v) \in Seq(Nat) BY WriteTypes
    <3> QED BY <2>2, <3>1, <3>2, <3>3 DEF Written
  <2> QED BY <2>1, <2>2
<1>10. \A n \in 1..6 : Written(p, n) \in Seq(Nat)
  <2>1. \A n \in 1..6 : n = 1 \/ n = 2 \/ n = 3 \/ n = 4 \/ n = 5 \/ n = 6
    OBVIOUS
  <2> QED BY <1>4, <1>5, <1>6, <1>7, <1>8, <1>9, <2>1
<1>11. SerializePhone(p)
         = Written(p, 1) \o Written(p, 2) \o Written(p, 3)
           \o Written(p, 4) \o Written(p, 5) \o Written(p, 6)
  BY WrittenIs, Zenon DEF SerializePhone
<1> QED BY <1>10, <1>11

\* The fields of a phone, each at its place.
LEMMA PhonePlaces ==
  ASSUME NEW p \in Phones, NEW s \in Seq(Nat), s = SerializePhone(p)
  PROVE  \E at \in [1..7 -> Nat \ {0}] :
           /\ at[1] = 1 /\ at[7] = Len(s) + 1
           /\ \A n \in 1..6 : Has(s, at[n], Written(p, n))
           /\ at[2] = at[1] + Len(Written(p, 1))
           /\ at[3] = at[2] + Len(Written(p, 2))
           /\ at[4] = at[3] + Len(Written(p, 3))
           /\ at[5] = at[4] + Len(Written(p, 4))
           /\ at[6] = at[5] + Len(Written(p, 5))
           /\ at[7] = at[6] + Len(Written(p, 6))
<1>1. PICK w1 \in Seq(Nat) : w1 = Written(p, 1) BY WrittenType
<1>2. PICK w2 \in Seq(Nat) : w2 = Written(p, 2) BY WrittenType
<1>3. PICK w3 \in Seq(Nat) : w3 = Written(p, 3) BY WrittenType
<1>4. PICK w4 \in Seq(Nat) : w4 = Written(p, 4) BY WrittenType
<1>5. PICK w5 \in Seq(Nat) : w5 = Written(p, 5) BY WrittenType
<1>6. PICK w6 \in Seq(Nat) : w6 = Written(p, 6) BY WrittenType
<1>7. PICK x2 \in Seq(Nat) : x2 = w1 \o w2 BY Joined
<1>8. PICK x3 \in Seq(Nat) : x3 = x2 \o w3 BY Joined
<1>9. PICK x4 \in Seq(Nat) : x4 = x3 \o w4 BY Joined
<1>10. PICK x5 \in Seq(Nat) : x5 = x4 \o w5 BY Joined
<1>11. s = x5 \o w6
  BY <1>1, <1>2, <1>3, <1>4, <1>5, <1>6, <1>7, <1>8, <1>9, <1>10, WrittenType
<1>12. /\ Len(w1) \in Nat /\ Len(w2) \in Nat /\ Len(w3) \in Nat
       /\ Len(w4) \in Nat /\ Len(w5) \in Nat /\ Len(w6) \in Nat
       /\ Len(x2) = Len(w1) + Len(w2) /\ Len(x3) = Len(x2) + Len(w3)
       /\ Len(x4) = Len(x3) + Len(w4) /\ Len(x5) = Len(x4) + Len(w5)
       /\ Len(s) = Len(x5) + Len(w6)
  BY <1>7, <1>8, <1>9, <1>10, <1>11, Joined
<1>13. 1 \in Nat \ {0} OBVIOUS
<1>14. Has(s, 1, x5) /\ Has(s, 1 + Len(x5), w6)
  <2>1. Has(s, 1, x5 \o w6) BY <1>11, HasSelf
  <2> QED
    BY ONLY <1>13, <2>1, s \in Seq(Nat), x5 \in Seq(Nat), w6 \in Seq(Nat),
            HasJoined
<1>15. Has(s, 1, x4) /\ Has(s, 1 + Len(x4), w5)
  <2>1. Has(s, 1, x4 \o w5) BY <1>10, <1>14
  <2> QED
    BY ONLY <1>13, <2>1, s \in Seq(Nat), x4 \in Seq(Nat), w5 \in Seq(Nat),
            HasJoined
<1>16. Has(s, 1, x3) /\ Has(s, 1 + Len(x3), w4)
  <2>1. Has(s, 1, x3 \o w4) BY <1>9, <1>15
  <2> QED
    BY ONLY <1>13, <2>1, s \in Seq(Nat), x3 \in Seq(Nat), w4 \in Seq(Nat),
            HasJoined
<1>17. Has(s, 1, x2) /\ Has(s, 1 + Len(x2), w3)
  <2>1. Has(s, 1, x2 \o w3) BY <1>8, <1>16
  <2> QED
    BY ONLY <1>13, <2>1, s \in Seq(Nat), x2 \in Seq(Nat), w3 \in Seq(Nat),
            HasJoined
<1>18. Has(s, 1, w1) /\ Has(s, 1 + Len(w1), w2)
  <2>1. Has(s, 1, w1 \o w2) BY <1>7, <1>17
  <2> QED
    BY ONLY <1>13, <2>1, s \in Seq(Nat), w1 \in Seq(Nat), w2 \in Seq(Nat),
            HasJoined
<1> DEFINE at == [n \in 1..7 |-> CASE n = 1 -> 1
                                   [] n = 2 -> 1 + Len(w1)
                                   [] n = 3 -> 1 + Len(x2)
                                   [] n = 4 -> 1 + Len(x3)
                                   [] n = 5 -> 1 + Len(x4)
                                   [] n = 6 -> 1 + Len(x5)
                                   [] n = 7 -> Len(s) + 1]
<1>19. /\ at[1] = 1 /\ at[2] = 1 + Len(w1) /\ at[3] = 1 + Len(x2)
       /\ at[4] = 1 + Len(x3) /\ at[5] = 1 + Len(x4) /\ at[6] = 1 + Len(x5)
       /\ at[7] = Len(s) + 1
  OBVIOUS
<1>20. \A n \in 1..7 : n = 1 \/ n = 2 \/ n = 3 \/ n = 4 \/ n = 5 \/ n = 6 \/ n = 7
  OBVIOUS
<1>21. at = [n \in 1..7 |-> at[n]] OBVIOUS
<1> HIDE DEF at
<1>22. at \in [1..7 -> Nat \ {0}]
  <2>2. \A l \in Nat : 1 + l \in Nat \ {0} /\ l + 1 \in Nat \ {0} OBVIOUS
  <2>3. /\ Len(x2) \in Nat /\ Len(x3) \in Nat /\ Len(x4) \in Nat
        /\ Len(x5) \in Nat /\ Len(s) \in Nat
    OBVIOUS
  <2>4. /\ at[1] \in Nat \ {0} /\ at[2] \in Nat \ {0} /\ at[3] \in Nat \ {0}
        /\ at[4] \in Nat \ {0} /\ at[5] \in Nat \ {0} /\ at[6] \in Nat \ {0}
        /\ at[7] \in Nat \ {0}
    BY <1>12, <1>13, <1>19, <2>2, <2>3
  <2>1. \A n \in 1..7 : at[n] \in Nat \ {0} BY <1>20, <2>4
  <2> QED BY <1>21, <2>1
<1>23. \A n \in 1..6 : Has(s, at[n], Written(p, n))
  <2>1. \A n \in 1..6 : n = 1 \/ n = 2 \/ n = 3 \/ n = 4 \/ n = 5 \/ n = 6
    OBVIOUS
  <2>2. /\ Has(s, at[1], Written(p, 1)) /\ Has(s, at[2], Written(p, 2))
        /\ Has(s, at[3], Written(p, 3)) /\ Has(s, at[4], Written(p, 4))
        /\ Has(s, at[5], Written(p, 5)) /\ Has(s, at[6], Written(p, 6))
    BY <1>1, <1>2, <1>3, <1>4, <1>5, <1>6, <1>14, <1>15, <1>16, <1>17, <1>18,
       <1>19
  <2> QED BY <2>1, <2>2
<1>24. /\ at[2] = at[1] + Len(w1) /\ at[3] = at[2] + Len(w2)
       /\ at[4] = at[3] + Len(w3) /\ at[5] = at[4] + Len(w4)
       /\ at[6] = at[5] + Len(w5) /\ at[7] = at[6] + Len(w6)
  BY <1>12, <1>19
<1> QED BY <1>1, <1>2, <1>3, <1>4, <1>5, <1>6, <1>19, <1>22, <1>23, <1>24

LEMMA LastMakes ==
  ASSUME NEW f, NEW i, NEW q \in Phones,
         f[i] = [fields |-> <<>>, end |-> "limit"]
  PROVE  Makes(f, i, q, q)
<1>1. PICK t \in Seq(PhoneFields) : t = <<>>
  <2>1. <<>> \in Seq(PhoneFields) OBVIOUS
  <2> QED BY <2>1
<1>2. PICK n \in Nat : n = 0 OBVIOUS
<1>3. PICK g : g = [k \in 0..0 |-> q] OBVIOUS
<1>4. PhoneFold(g, t, n, q, Phones) BY <1>2, <1>3 DEF PhoneFold
<1>5. DOMAIN t = 1..n BY <1>1, <1>2
<1>6. FoldLeft(SetField, q, t) = g[n]
  BY ONLY q \in Phones, n \in Nat, <1>4, <1>5, FoldPhone
<1>7. g[n] = q BY <1>2, <1>3
<1> QED BY <1>1, <1>6, <1>7 DEF Makes

LEMMA Part1Makes ==
  ASSUME NEW p \in Phones, NEW s \in Seq(Nat), NEW f, Reads(f, s, 1),
         NEW i \in Nat \ {0}, Has(s, i, Written(p, 1)),
         Makes(f, i + Len(Written(p, 1)), Part(p, 1), p)
  PROVE  Makes(f, i, Part(p, 0), p)
<1>1. PICK n \in Nat : n = p.id BY DEF Phones
<1>2. Written(p, 1) = WriteNumber(1, n) BY <1>1, WrittenIs, Zenon
<1>3. PICK q \in Phones : q = Part(p, 0) BY PartType
<1>4. PICK r \in Phones : r = Part(p, 1) BY PartType
<1>5. n = 0 => q = r
  BY <1>1, <1>3, <1>4, PartSteps
<1>6. \A next : SetField(q, Field(1, WireVarint, n, next)) = r
  <2>1. [q EXCEPT !.id = n] = r BY <1>1, <1>3, <1>4, PartSteps, Zenon
  <2>2. \A next : SetField(q, Field(1, WireVarint, n, next))
                   = [q EXCEPT !.id = n]
    BY FieldSets, Zenon
  <2> QED BY <2>1, <2>2, Zenon
<1>7. PICK number \in {1, 3, 4, 5} : number = 1 OBVIOUS
<1>8. Has(s, i, WriteNumber(number, n)) BY <1>2, <1>7
<1>9. Makes(f, i + Len(WriteNumber(number, n)), r, p) BY <1>2, <1>4, <1>7
<1>10. Sets(q, number, n, r) BY <1>5, <1>6, <1>7 DEF Sets
<1>11. Makes(f, i, q, p)
  BY ONLY s \in Seq(Nat), i \in Nat \ {0}, n \in Nat, Reads(f, s, 1),
          number \in {1, 3, 4, 5}, q \in Phones, r \in Phones,
          <1>8, <1>9, <1>10, NumberMakes
<1> QED BY <1>3, <1>11

LEMMA Part2Makes ==
  ASSUME NEW p \in Phones, NEW s \in Seq(Nat), NEW f, Reads(f, s, 1),
         NEW i \in Nat \ {0}, Has(s, i, Written(p, 2)),
         Makes(f, i + Len(Written(p, 2)), Part(p, 2), p)
  PROVE  Makes(f, i, Part(p, 1), p)
<1>1. PICK v \in Seq(0..127) : v = p.name BY DEF Phones
<1>2. CASE v = <<>>
  <2>1. Written(p, 2) = <<>> BY <1>1, <1>2, WrittenIs, Zenon
  <2>2. i + Len(Written(p, 2)) = i BY <2>1
  <2>3. Part(p, 1) = Part(p, 2) BY <1>1, <1>2, PartSteps
  <2> QED BY <2>2, <2>3
<1>3. CASE v # <<>>
  <2>1. Written(p, 2) = WriteBytes(2, v) BY <1>1, <1>3, WrittenIs, Zenon
  <2>2. v \in Seq(Nat) BY LowBytes
  <2>3. PICK q \in Phones : q = Part(p, 1) BY PartType
  <2>4. PICK r \in Phones : r = Part(p, 2) BY PartType
  <2>5. \A next : SetField(q, Field(2, WireBytes, v, next)) = r
    <3>1. [q EXCEPT !.name = v] = r BY <1>1, <2>3, <2>4, PartSteps, Zenon
    <3>2. \A next : SetField(q, Field(2, WireBytes, v, next))
                     = [q EXCEPT !.name = v]
      BY FieldSets, Zenon
    <3> QED BY <3>1, <3>2, Zenon
  <2>6. PICK number \in {2, 6} : number = 2 OBVIOUS
  <2>7. Has(s, i, WriteBytes(number, v)) BY <2>1, <2>6
  <2>8. Makes(f, i + Len(WriteBytes(number, v)), r, p) BY <2>1, <2>4, <2>6
  <2>9. SetsBytes(q, number, v, r) BY <2>5, <2>6 DEF SetsBytes
  <2>11. Makes(f, i, q, p)
    BY ONLY s \in Seq(Nat), i \in Nat \ {0}, Reads(f, s, 1),
            number \in {2, 6}, q \in Phones, r \in Phones,
            <2>2, <2>7, <2>8, <2>9, BytesMakes
  <2> QED BY <2>3, <2>11
<1> QED BY <1>2, <1>3

LEMMA Part3Makes ==
  ASSUME NEW p \in Phones, NEW s \in Seq(Nat), NEW f, Reads(f, s, 1),
         NEW i \in Nat \ {0}, Has(s, i, Written(p, 3)),
         Makes(f, i + Len(Written(p, 3)), Part(p, 3), p)
  PROVE  Makes(f, i, Part(p, 2), p)
<1>1. PICK n \in Nat : n = p.network BY DEF Phones
<1>2. Written(p, 3) = WriteNumber(3, n) BY <1>1, WrittenIs, Zenon
<1>3. PICK q \in Phones : q = Part(p, 2) BY PartType
<1>4. PICK r \in Phones : r = Part(p, 3) BY PartType
<1>5. n = 0 => q = r
  BY <1>1, <1>3, <1>4, PartSteps
<1>6. \A next : SetField(q, Field(3, WireVarint, n, next)) = r
  <2>1. [q EXCEPT !.network = n] = r BY <1>1, <1>3, <1>4, PartSteps, Zenon
  <2>2. ASSUME NEW next
        PROVE  SetField(q, Field(3, WireVarint, n, next)) = [q EXCEPT !.network = n]
    BY ONLY FieldSets
  <2> QED BY <2>1, <2>2, Zenon
<1>7. PICK number \in {1, 3, 4, 5} : number = 3 OBVIOUS
<1>8. Has(s, i, WriteNumber(number, n)) BY <1>2, <1>7
<1>9. Makes(f, i + Len(WriteNumber(number, n)), r, p) BY <1>2, <1>4, <1>7
<1>10. Sets(q, number, n, r) BY <1>5, <1>6, <1>7 DEF Sets
<1>11. Makes(f, i, q, p)
  BY ONLY s \in Seq(Nat), i \in Nat \ {0}, n \in Nat, Reads(f, s, 1),
          number \in {1, 3, 4, 5}, q \in Phones, r \in Phones,
          <1>8, <1>9, <1>10, NumberMakes
<1> QED BY <1>3, <1>11

LEMMA Part4Makes ==
  ASSUME NEW p \in Phones, NEW s \in Seq(Nat), NEW f, Reads(f, s, 1),
         NEW i \in Nat \ {0}, Has(s, i, Written(p, 4)),
         Makes(f, i + Len(Written(p, 4)), Part(p, 4), p)
  PROVE  Makes(f, i, Part(p, 3), p)
<1>1. PICK n \in Nat : n = IF p.active THEN 1 ELSE 0 OBVIOUS
<1>2. Written(p, 4) = WriteNumber(4, n) BY <1>1, WrittenIs, Zenon
<1>3. PICK q \in Phones : q = Part(p, 3) BY PartType
<1>4. PICK r \in Phones : r = Part(p, 4) BY PartType
<1>5. n = 0 => q = r
  <2>1. p.active \in BOOLEAN BY DEF Phones
  <2>2. n = 0 => p.active = FALSE BY <1>1, <2>1
  <2> QED BY <1>3, <1>4, <2>2, PartSteps
<1>6. \A next : SetField(q, Field(4, WireVarint, n, next)) = r
  <2>1. p.active \in BOOLEAN BY DEF Phones
  <2>2. (n # 0) = p.active BY <1>1, <2>1
  <2>3. [q EXCEPT !.active = p.active] = r BY <1>3, <1>4, PartSteps, Zenon
  <2>4. [q EXCEPT !.active = n # 0] = r BY <2>2, <2>3, Zenon
  <2>5. \A next : SetField(q, Field(4, WireVarint, n, next))
                   = [q EXCEPT !.active = n # 0]
    BY FieldSets
  <2> QED BY <2>4, <2>5, Zenon
<1>7. PICK number \in {1, 3, 4, 5} : number = 4 OBVIOUS
<1>8. Has(s, i, WriteNumber(number, n)) BY <1>2, <1>7
<1>9. Makes(f, i + Len(WriteNumber(number, n)), r, p) BY <1>2, <1>4, <1>7
<1>10. Sets(q, number, n, r) BY <1>5, <1>6, <1>7 DEF Sets
<1>11. Makes(f, i, q, p)
  BY ONLY s \in Seq(Nat), i \in Nat \ {0}, n \in Nat, Reads(f, s, 1),
          number \in {1, 3, 4, 5}, q \in Phones, r \in Phones,
          <1>8, <1>9, <1>10, NumberMakes
<1> QED BY <1>3, <1>11

LEMMA Part5Makes ==
  ASSUME NEW p \in Phones, NEW s \in Seq(Nat), NEW f, Reads(f, s, 1),
         NEW i \in Nat \ {0}, Has(s, i, Written(p, 5)),
         Makes(f, i + Len(Written(p, 5)), Part(p, 5), p)
  PROVE  Makes(f, i, Part(p, 4), p)
<1>1. PICK n \in Nat : n = p.type BY DEF Phones
<1>2. Written(p, 5) = WriteNumber(5, n) BY <1>1, WrittenIs, Zenon
<1>3. PICK q \in Phones : q = Part(p, 4) BY PartType
<1>4. PICK r \in Phones : r = Part(p, 5) BY PartType
<1>5. n = 0 => q = r
  BY <1>1, <1>3, <1>4, PartSteps
<1>6. \A next : SetField(q, Field(5, WireVarint, n, next)) = r
  <2>1. [q EXCEPT !.type = n] = r BY <1>1, <1>3, <1>4, PartSteps, Zenon
  <2>2. \A next : SetField(q, Field(5, WireVarint, n, next))
                   = [q EXCEPT !.type = n]
    BY FieldSets
  <2> QED BY <2>1, <2>2, Zenon
<1>7. PICK number \in {1, 3, 4, 5} : number = 5 OBVIOUS
<1>8. Has(s, i, WriteNumber(number, n)) BY <1>2, <1>7
<1>9. Makes(f, i + Len(WriteNumber(number, n)), r, p) BY <1>2, <1>4, <1>7
<1>10. Sets(q, number, n, r) BY <1>5, <1>6, <1>7 DEF Sets
<1>11. Makes(f, i, q, p)
  BY ONLY s \in Seq(Nat), i \in Nat \ {0}, n \in Nat, Reads(f, s, 1),
          number \in {1, 3, 4, 5}, q \in Phones, r \in Phones,
          <1>8, <1>9, <1>10, NumberMakes
<1> QED BY <1>3, <1>11

LEMMA Part6Makes ==
  ASSUME NEW p \in Phones, NEW s \in Seq(Nat), NEW f, Reads(f, s, 1),
         NEW i \in Nat \ {0}, Has(s, i, Written(p, 6)),
         Makes(f, i + Len(Written(p, 6)), Part(p, 6), p)
  PROVE  Makes(f, i, Part(p, 5), p)
<1>1. PICK c \in Nat : c = p.created BY DEF Phones
<1>2. CASE c = NoTime
  <2>1. Written(p, 6) = <<>> BY <1>1, <1>2, WrittenIs, Zenon
  <2>2. i + Len(Written(p, 6)) = i BY <2>1
  <2>3. Part(p, 5) = Part(p, 6) BY <1>1, <1>2, PartSteps
  <2> QED BY <2>2, <2>3
<1>3. CASE c # NoTime
  <2>0. PICK n \in Nat : n = c - 1 /\ 1 + n = c BY <1>3 DEF NoTime
  <2>1. PICK v \in Seq(Nat) : v = WriteTimestamp(n)
    <3>1. 1 \in 1..15 OBVIOUS
    <3>2. WriteNumber(1, n) \in Seq(Nat) BY <3>1, WriteTypes
    <3> QED BY <3>2 DEF WriteTimestamp
  <2>2. Written(p, 6) = WriteBytes(6, v)
    BY <1>1, <1>3, <2>0, <2>1, WrittenIs, Zenon
  <2>3. PICK q \in Phones : q = Part(p, 5) BY PartType
  <2>4. PICK r \in Phones : r = Part(p, 6) BY PartType
  <2>5. \A next : SetField(q, Field(6, WireBytes, v, next)) = r
    <3>1. 0 \in Nat OBVIOUS
    <3>2. ReadTimestamp(v, 0)
            = [ok |-> TRUE, seconds |-> IF n = 0 THEN 0 ELSE n]
      BY <2>1, <3>1, TimestampRead
    <3>3. ReadTimestamp(v, 0).seconds = n BY <3>2
    <3>4. 1 + ReadTimestamp(v, 0).seconds = c BY <2>0, <3>3
    <3>5. q.created = NoTime BY <2>3, PartSteps
    <3>6. (IF q.created = NoTime THEN 0 ELSE q.created - 1) = 0
      BY <3>5, Zenon
    <3>7. \A next : SetField(q, Field(6, WireBytes, v, next))
                     = [q EXCEPT !.created =
                          1 + ReadTimestamp(v, IF q.created = NoTime THEN 0
                                               ELSE q.created - 1).seconds]
      BY FieldSets, Zenon
    <3>8. \A next : SetField(q, Field(6, WireBytes, v, next))
                     = [q EXCEPT !.created = c]
      BY <3>4, <3>6, <3>7, Zenon
    <3> QED BY <1>1, <2>3, <2>4, <3>8, PartSteps, Zenon
  <2>6. PICK number \in {2, 6} : number = 6 OBVIOUS
  <2>7. Has(s, i, WriteBytes(number, v)) BY <2>2, <2>6
  <2>8. Makes(f, i + Len(WriteBytes(number, v)), r, p) BY <2>2, <2>4, <2>6
  <2>9. SetsBytes(q, number, v, r) BY <2>1, <2>5, <2>6 DEF SetsBytes
  <2>11. Makes(f, i, q, p)
    BY ONLY s \in Seq(Nat), v \in Seq(Nat), i \in Nat \ {0}, Reads(f, s, 1),
            number \in {2, 6}, q \in Phones, r \in Phones,
            <2>7, <2>8, <2>9, BytesMakes
  <2> QED BY <2>3, <2>11
<1> QED BY <1>2, <1>3

\* A phone is read as it was written.
LEMMA PhoneRead ==
  ASSUME NEW p \in Phones
  PROVE  /\ SerializePhone(p) \in Seq(Nat)
         /\ ParsePhone(SerializePhone(p)) = [ok |-> TRUE, phone |-> p]
<1>1. PICK s \in Seq(Nat) : s = SerializePhone(p)
  <2>1. PICK w1 \in Seq(Nat) : w1 = Written(p, 1) BY WrittenType
  <2>2. PICK w2 \in Seq(Nat) : w2 = Written(p, 2) BY WrittenType
  <2>3. PICK w3 \in Seq(Nat) : w3 = Written(p, 3) BY WrittenType
  <2>4. PICK w4 \in Seq(Nat) : w4 = Written(p, 4) BY WrittenType
  <2>5. PICK w5 \in Seq(Nat) : w5 = Written(p, 5) BY WrittenType
  <2>6. PICK w6 \in Seq(Nat) : w6 = Written(p, 6) BY WrittenType
  <2>7. w1 \o w2 \o w3 \o w4 \o w5 \o w6 \in Seq(Nat) OBVIOUS
  <2> QED BY <2>1, <2>2, <2>3, <2>4, <2>5, <2>6, <2>7, WrittenType
<1>2. PICK f : Reads(f, s, 1) /\ Fields(s) = f[1] BY FieldsRead
<1>3. PICK at \in [1..7 -> Nat \ {0}] :
        /\ at[1] = 1 /\ at[7] = Len(s) + 1
        /\ \A n \in 1..6 : Has(s, at[n], Written(p, n))
        /\ at[2] = at[1] + Len(Written(p, 1))
        /\ at[3] = at[2] + Len(Written(p, 2))
        /\ at[4] = at[3] + Len(Written(p, 3))
        /\ at[5] = at[4] + Len(Written(p, 4))
        /\ at[6] = at[5] + Len(Written(p, 5))
        /\ at[7] = at[6] + Len(Written(p, 6))
  BY <1>1, PhonePlaces
<1>4. /\ at[1] \in Nat \ {0} /\ at[2] \in Nat \ {0} /\ at[3] \in Nat \ {0}
      /\ at[4] \in Nat \ {0} /\ at[5] \in Nat \ {0} /\ at[6] \in Nat \ {0}
      /\ at[7] \in Nat \ {0}
  OBVIOUS
<1>7. NewPhone \in Phones /\ p = Part(p, 6) /\ NewPhone = Part(p, 0)
  BY PartType
<1>17. Makes(f, at[7], Part(p, 6), p)
  <2>1. f[at[7]] = [fields |-> <<>>, end |-> "limit"]
    BY <1>2, <1>3, ReadsEnd
  <2>2. Makes(f, at[7], p, p) BY <2>1, LastMakes
  <2> QED BY <1>7, <2>2
<1>16. Makes(f, at[6], Part(p, 5), p)
  <2>1. Makes(f, at[6] + Len(Written(p, 6)), Part(p, 6), p) BY <1>3, <1>17
  <2>2. Has(s, at[6], Written(p, 6)) BY <1>3
  <2>3. at[6] \in Nat \ {0} BY <1>4
  <2>4. Reads(f, s, 1) BY <1>2
  <2> QED
    BY ONLY p \in Phones, s \in Seq(Nat), <2>1, <2>2, <2>3, <2>4, Part6Makes
<1>15. Makes(f, at[5], Part(p, 4), p)
  <2>1. Makes(f, at[5] + Len(Written(p, 5)), Part(p, 5), p) BY <1>3, <1>16
  <2>2. Has(s, at[5], Written(p, 5)) BY <1>3
  <2>3. at[5] \in Nat \ {0} BY <1>4
  <2>4. Reads(f, s, 1) BY <1>2
  <2> QED
    BY ONLY p \in Phones, s \in Seq(Nat), <2>1, <2>2, <2>3, <2>4, Part5Makes
<1>14. Makes(f, at[4], Part(p, 3), p)
  <2>1. Makes(f, at[4] + Len(Written(p, 4)), Part(p, 4), p) BY <1>3, <1>15
  <2>2. Has(s, at[4], Written(p, 4)) BY <1>3
  <2>3. at[4] \in Nat \ {0} BY <1>4
  <2>4. Reads(f, s, 1) BY <1>2
  <2> QED
    BY ONLY p \in Phones, s \in Seq(Nat), <2>1, <2>2, <2>3, <2>4, Part4Makes
<1>13. Makes(f, at[3], Part(p, 2), p)
  <2>1. Makes(f, at[3] + Len(Written(p, 3)), Part(p, 3), p) BY <1>3, <1>14
  <2>2. Has(s, at[3], Written(p, 3)) BY <1>3
  <2>3. at[3] \in Nat \ {0} BY <1>4
  <2>4. Reads(f, s, 1) BY <1>2
  <2> QED
    BY ONLY p \in Phones, s \in Seq(Nat), <2>1, <2>2, <2>3, <2>4, Part3Makes
<1>12. Makes(f, at[2], Part(p, 1), p)
  <2>1. Makes(f, at[2] + Len(Written(p, 2)), Part(p, 2), p) BY <1>3, <1>13
  <2>2. Has(s, at[2], Written(p, 2)) BY <1>3
  <2>3. at[2] \in Nat \ {0} BY <1>4
  <2>4. Reads(f, s, 1) BY <1>2
  <2> QED
    BY ONLY p \in Phones, s \in Seq(Nat), <2>1, <2>2, <2>3, <2>4, Part2Makes
<1>11. Makes(f, at[1], Part(p, 0), p)
  <2>1. Makes(f, at[1] + Len(Written(p, 1)), Part(p, 1), p) BY <1>3, <1>12
  <2>2. Has(s, at[1], Written(p, 1)) BY <1>3
  <2>3. at[1] \in Nat \ {0} BY <1>4
  <2>4. Reads(f, s, 1) BY <1>2
  <2> QED
    BY ONLY p \in Phones, s \in Seq(Nat), <2>1, <2>2, <2>3, <2>4, Part1Makes
<1>18. PICK new \in Phones : new = NewPhone BY <1>7
<1>19. Makes(f, 1, new, p)
  <2>1. Makes(f, 1, NewPhone, p) BY <1>3, <1>7, <1>11
  <2> QED BY <1>18, <2>1, Zenon
<1>20. PICK t \in Seq(PhoneFields) :
         /\ f[1] = [fields |-> t, end |-> "limit"]
         /\ FoldLeft(SetField, new, t) = p
  BY ONLY <1>19 DEF Makes
<1>21. PICK m : m = Fields(s) /\ m.fields = t /\ m.end = "limit"
  <2>1. PICK m : m = [fields |-> t, end |-> "limit"] /\ m = Fields(s)
    BY <1>2, <1>20, Zenon
  <2>2. m.fields = t /\ m.end = "limit" BY <2>1
  <2> QED BY <2>1, <2>2, Zenon
<1>22. FirstBad(t, Readable) = 0
  <2>1. ASSUME NEW j \in 1..Len(t) PROVE Readable(t[j])
    <3>1. t[j] \in PhoneFields BY ONLY t \in Seq(PhoneFields), j \in 1..Len(t)
    <3> QED BY <1>7, <3>1, SetFieldType
  <2>2. {j \in 1..Len(t) : ~Readable(t[j])} = {} BY <2>1
  <2> QED BY <2>2 DEF FirstBad, SelectInSeq
<1>23. PhoneOf(m, 0) = [ok |-> TRUE, phone |-> p]
  <2>1. FoldLeft(SetField, NewPhone, m.fields) = p
    BY <1>18, <1>20, <1>21, Zenon
  <2>2. (m.end = "limit" /\ 0 = 0) = TRUE BY <1>21
  <2> QED BY <2>1, <2>2, Zenon DEF PhoneOf
<1>24. ParsePhone(s) = PhoneOf(m, FirstBad(m.fields, Readable))
  BY <1>21 DEF ParsePhone
<1>25. FirstBad(m.fields, Readable) = 0 BY <1>21, <1>22, Zenon
<1> QED BY <1>1, <1>23, <1>24, <1>25

-----------------------------------------------------------------------------
(* Lists of phones: writing.                                                  *)

LEMMA PhoneBytes ==
  \A p \in Phones : WriteBytes(1, SerializePhone(p)) \in Seq(Nat)
<1>1. 1 \in 1..15 OBVIOUS
<1> QED BY <1>1, PhoneRead, WriteTypes

LEMMA SerializeEmpty == Serialize(<<>>) = <<>>
<1>1. PICK t \in Seq(Phones) : t = <<>>
  <2>1. <<>> \in Seq(Phones) OBVIOUS
  <2> QED BY <2>1
<1>2. PICK n \in Nat : n = 0 OBVIOUS
<1>3. PICK b \in Seq(Nat) : b = <<>>
  <2>1. <<>> \in Seq(Nat) OBVIOUS
  <2> QED BY <2>1
<1>4. PICK f : f = [k \in 0..0 |-> b] OBVIOUS
<1>5. PICK V : V = Seq(Nat) OBVIOUS
<1>6. BytesFold(f, t, n, b, V) BY <1>2, <1>4 DEF BytesFold
<1>7. DOMAIN t = 1..n /\ b \in V BY <1>1, <1>2, <1>5
<1>8. FoldLeft(WritePhone, b, t) = f[n]
  BY ONLY n \in Nat, <1>6, <1>7, FoldBytes
<1>9. f[n] = b BY <1>2, <1>4
<1> QED BY <1>1, <1>3, <1>8, <1>9, Zenon DEF Serialize

\* A list that is not empty is another one and its last phone.
LEMMA ListParts ==
  ASSUME NEW l \in Seq(Phones), l # <<>>
  PROVE  \E x \in Seq(Phones), p \in Phones :
           l = Append(x, p) /\ Len(l) = Len(x) + 1
<1>1. PICK x \in Seq(Phones), p \in Phones : l = Append(x, p)
  BY SequenceEmptyOrAppend
<1>2. Len(l) = Len(x) + 1 BY <1>1, AppendProperties
<1> QED BY <1>1, <1>2

LEMMA SerializeAppend ==
  ASSUME NEW l \in Seq(Phones), NEW p \in Phones
  PROVE  /\ Serialize(l) \in Seq(Nat)
         /\ Serialize(Append(l, p))
              = Serialize(l) \o WriteBytes(1, SerializePhone(p))
<1>1. PICK n \in Nat : n = Len(l) /\ DOMAIN l = 1..n OBVIOUS
<1>2. PICK m \in Nat : m = n + 1 OBVIOUS
<1>3. PICK u \in Seq(Phones) : u = Append(l, p)
  <2>1. Append(l, p) \in Seq(Phones) BY AppendProperties
  <2> QED BY <2>1
<1>4. DOMAIN u = 1..m /\ u[m] = p /\ \A k \in 1..n : u[k] = l[k]
  BY <1>1, <1>2, <1>3
<1>5. PICK V : V = Seq(Nat) OBVIOUS
<1>6. PICK b \in V : b = <<>>
  <2>1. <<>> \in Seq(Nat) OBVIOUS
  <2> QED BY <1>5, <2>1
<1>7. \A v \in V : \A k \in 1..m : WritePhone(v, u[k]) \in V
  <2> SUFFICES ASSUME NEW v \in V, NEW k \in 1..m
               PROVE  WritePhone(v, u[k]) \in V
    OBVIOUS
  <2>1. u[k] \in Phones BY <1>4
  <2>2. PICK w \in Seq(Nat) : w = WriteBytes(1, SerializePhone(u[k]))
    BY <2>1, PhoneBytes
  <2>3. v \o w \in Seq(Nat) BY <1>5
  <2> QED BY <1>5, <2>2, <2>3 DEF WritePhone
<1> DEFINE G == [k \in 1..m |-> [v \in V |-> WritePhone(v, u[k])]]
<1>8. G \in [1..m -> [V -> V]] BY <1>7
<1>9. ASSUME NEW k \in 1..m, NEW v \in V PROVE G[k][v] = WritePhone(v, u[k])
  OBVIOUS
<1> HIDE DEF G
<1>10. PICK f \in [0..m -> V] : Follows(f, G, b, m)
  BY ONLY m \in Nat, b \in V, <1>8, FoldValues
<1>11. f[0] = b /\ \A k \in 1..m : f[k] = WritePhone(f[k - 1], u[k])
  <2> SUFFICES ASSUME NEW k \in 1..m PROVE f[k] = WritePhone(f[k - 1], u[k])
    BY <1>10 DEF Follows
  <2>1. f[k - 1] \in V OBVIOUS
  <2> QED BY <1>9, <1>10, <2>1 DEF Follows
<1>12. BytesFold(f, u, m, b, V) BY <1>7, <1>11 DEF BytesFold
<1>13. FoldLeft(WritePhone, b, u) = f[m]
  BY ONLY b \in V, m \in Nat, <1>4, <1>12, FoldBytes
<1>14. BytesFold(f, l, n, b, V)
  <2>1. \A k \in 1..n : k \in 1..m /\ u[k] = l[k] BY <1>2, <1>4
  <2> QED BY <1>7, <1>11, <2>1 DEF BytesFold
<1>15. FoldLeft(WritePhone, b, l) = f[n]
  BY ONLY b \in V, n \in Nat, <1>1, <1>14, FoldBytes
<1>16. Serialize(u) = f[m] /\ Serialize(l) = f[n]
  BY <1>6, <1>13, <1>15, Zenon DEF Serialize
<1>17. m \in 1..m /\ m - 1 = n /\ n \in 0..m BY <1>2
<1>18. f[m] = WritePhone(f[n], p) BY <1>4, <1>11, <1>17
<1>19. f[n] \in Seq(Nat) BY <1>5, <1>17
<1> QED BY <1>3, <1>16, <1>18, <1>19 DEF WritePhone

LEMMA SizeAppend ==
  ASSUME NEW l \in Seq(Phones), NEW p \in Phones,
         \A q \in Phones : LengthDelimited(PhoneSize(q)) \in Nat
  PROVE  /\ ListSize(l) \in Nat
         /\ ListSize(Append(l, p)) = ListSize(l) + LengthDelimited(PhoneSize(p))
<1>1. PICK n \in Nat : n = Len(l) /\ DOMAIN l = 1..n OBVIOUS
<1>2. PICK m \in Nat : m = n + 1 OBVIOUS
<1>3. PICK u \in Seq(Phones) : u = Append(l, p)
  <2>1. Append(l, p) \in Seq(Phones) BY AppendProperties
  <2> QED BY <2>1
<1>4. DOMAIN u = 1..m /\ u[m] = p /\ \A k \in 1..n : u[k] = l[k]
  BY <1>1, <1>2, <1>3
<1>5. PICK V : V = Nat OBVIOUS
<1>6. PICK b \in V : b = 0 BY <1>5
<1>7. \A v \in V : \A k \in 1..m : AddSize(v, u[k]) \in V
  <2> SUFFICES ASSUME NEW v \in V, NEW k \in 1..m PROVE AddSize(v, u[k]) \in V
    OBVIOUS
  <2>1. u[k] \in Phones BY <1>4
  <2>2. PICK w \in Nat : w = LengthDelimited(PhoneSize(u[k])) BY <2>1
  <2> QED BY <1>5, <2>2 DEF AddSize
<1> DEFINE G == [k \in 1..m |-> [v \in V |-> AddSize(v, u[k])]]
<1>8. G \in [1..m -> [V -> V]] BY <1>7
<1>9. ASSUME NEW k \in 1..m, NEW v \in V PROVE G[k][v] = AddSize(v, u[k])
  OBVIOUS
<1> HIDE DEF G
<1>10. PICK f \in [0..m -> V] : Follows(f, G, b, m)
  BY ONLY m \in Nat, b \in V, <1>8, FoldValues
<1>11. f[0] = b /\ \A k \in 1..m : f[k] = AddSize(f[k - 1], u[k])
  <2> SUFFICES ASSUME NEW k \in 1..m PROVE f[k] = AddSize(f[k - 1], u[k])
    BY <1>10 DEF Follows
  <2>1. f[k - 1] \in V OBVIOUS
  <2> QED BY <1>9, <1>10, <2>1 DEF Follows
<1>12. SizesFold(f, u, m, b, V) BY <1>7, <1>11 DEF SizesFold
<1>13. FoldLeft(AddSize, b, u) = f[m]
  BY ONLY b \in V, m \in Nat, <1>4, <1>12, FoldSizes
<1>14. SizesFold(f, l, n, b, V)
  <2>1. \A k \in 1..n : k \in 1..m /\ u[k] = l[k] BY <1>2, <1>4
  <2> QED BY <1>7, <1>11, <2>1 DEF SizesFold
<1>15. FoldLeft(AddSize, b, l) = f[n]
  BY ONLY b \in V, n \in Nat, <1>1, <1>14, FoldSizes
<1>16. ListSize(u) = f[m] /\ ListSize(l) = f[n]
  BY <1>6, <1>13, <1>15, Zenon DEF ListSize
<1>17. m \in 1..m /\ m - 1 = n /\ n \in 0..m BY <1>2
<1>18. f[m] = AddSize(f[n], p) BY <1>4, <1>11, <1>17
<1>19. f[n] \in Nat BY <1>5, <1>17
<1> QED BY <1>3, <1>16, <1>18, <1>19 DEF AddSize

LEMMA SizeEmpty == ListSize(<<>>) = 0
<1>1. PICK t \in Seq(Phones) : t = <<>>
  <2>1. <<>> \in Seq(Phones) OBVIOUS
  <2> QED BY <2>1
<1>2. PICK n \in Nat : n = 0 OBVIOUS
<1>4. PICK f : f = [k \in 0..0 |-> n] OBVIOUS
<1>5. PICK V : V = Nat OBVIOUS
<1>6. SizesFold(f, t, n, n, V) BY <1>2, <1>4 DEF SizesFold
<1>7. DOMAIN t = 1..n /\ n \in V BY <1>1, <1>2, <1>5
<1>8. FoldLeft(AddSize, n, t) = f[n]
  BY ONLY n \in Nat, <1>6, <1>7, FoldSizes
<1>9. f[n] = n BY <1>2, <1>4
<1> QED BY <1>1, <1>2, <1>8, <1>9, Zenon DEF ListSize

LEMMA NumberSize ==
  ASSUME NEW number \in 1..15, NEW n \in Nat
  PROVE  Len(WriteNumber(number, n)) = SizePlusOne(n)
<1>1. CASE n = 0
  <2>1. WriteNumber(number, n) = <<>> /\ SizePlusOne(n) = 0
    BY <1>1 DEF WriteNumber, SizePlusOne
  <2> QED BY <2>1
<1>2. CASE n # 0
  <2>0. PICK tag \in 1..127 : tag = Tag(number, WireVarint) BY TagParts
  <2>1. PICK a \in Seq(Nat) : a = <<tag>> /\ Len(a) = 1
    <3>1. <<tag>> \in Seq(Nat) /\ Len(<<tag>>) = 1 OBVIOUS
    <3> QED BY <3>1
  <2>2. PICK w \in Seq(Nat) : w = Varint[n] /\ VarintSize[n] = Len(w)
    BY VarintForm
  <2>3. WriteNumber(number, n) = a \o w
    BY <1>2, <2>0, <2>1, <2>2 DEF WriteNumber
  <2>4. Len(a \o w) = 1 + Len(w)
    <3>1. Len(a \o w) = Len(a) + Len(w)
      BY ONLY a \in Seq(Nat), w \in Seq(Nat), JoinedLength
    <3> QED BY <2>1, <3>1
  <2> QED BY <1>2, <2>2, <2>3, <2>4 DEF SizePlusOne
<1> QED BY <1>1, <1>2

LEMMA BytesSize ==
  ASSUME NEW number \in 1..15, NEW v \in Seq(Nat)
  PROVE  Len(WriteBytes(number, v)) = LengthDelimited(Len(v))
<1>1. PICK n \in Nat : n = Len(v) OBVIOUS
<1>0. PICK tag \in 1..127 : tag = Tag(number, WireBytes) BY TagParts
<1>2. PICK a \in Seq(Nat) : a = <<tag>> /\ Len(a) = 1
  <2>1. <<tag>> \in Seq(Nat) /\ Len(<<tag>>) = 1 OBVIOUS
  <2> QED BY <2>1
<1>3. PICK w \in Seq(Nat) : w = Varint[n] /\ VarintSize[n] = Len(w)
  BY VarintForm
<1>4. PICK aw \in Seq(Nat) : aw = a \o w /\ Len(aw) = 1 + Len(w)
  <2>1. a \o w \in Seq(Nat) /\ Len(a \o w) = Len(a) + Len(w)
    BY ONLY a \in Seq(Nat), w \in Seq(Nat), JoinedLength
  <2>2. Len(a \o w) = 1 + Len(w) BY <1>2, <2>1
  <2> QED BY <2>1, <2>2
<1>5. WriteBytes(number, v) = aw \o v BY <1>0, <1>1, <1>2, <1>3, <1>4 DEF WriteBytes
<1>6. Len(aw \o v) = 1 + Len(w) + n
  <2>1. Len(aw \o v) = Len(aw) + Len(v)
    BY ONLY aw \in Seq(Nat), v \in Seq(Nat), JoinedLength
  <2> QED BY <1>1, <1>4, <2>1
<1> QED BY <1>1, <1>3, <1>5, <1>6 DEF LengthDelimited

LEMMA PhoneSizeIs ==
  ASSUME NEW p \in Phones
  PROVE  PhoneSize(p) = Len(SerializePhone(p))
<1>1. PICK w1 \in Seq(Nat) : w1 = Written(p, 1) BY WrittenType
<1>2. PICK w2 \in Seq(Nat) : w2 = Written(p, 2) BY WrittenType
<1>3. PICK w3 \in Seq(Nat) : w3 = Written(p, 3) BY WrittenType
<1>4. PICK w4 \in Seq(Nat) : w4 = Written(p, 4) BY WrittenType
<1>5. PICK w5 \in Seq(Nat) : w5 = Written(p, 5) BY WrittenType
<1>6. PICK w6 \in Seq(Nat) : w6 = Written(p, 6) BY WrittenType
<1>7. Len(SerializePhone(p))
        = Len(w1) + Len(w2) + Len(w3) + Len(w4) + Len(w5) + Len(w6)
  <2>1. SerializePhone(p) = w1 \o w2 \o w3 \o w4 \o w5 \o w6
    BY <1>1, <1>2, <1>3, <1>4, <1>5, <1>6, WrittenType
  <2> QED BY <2>1
<1>8. Len(w1) = SizePlusOne(p.id)
  <2>1. PICK n \in Nat : n = p.id BY DEF Phones
  <2>2. w1 = WriteNumber(1, n) BY <1>1, <2>1, WrittenIs, Zenon
  <2>3. Len(w1) = SizePlusOne(n) BY <2>2, NumberSize
  <2> QED BY <2>1, <2>3
<1>9. Len(w2) = IF p.name = <<>> THEN 0 ELSE LengthDelimited(Len(p.name))
  <2>1. PICK v \in Seq(0..127) : v = p.name BY DEF Phones
  <2>2. v \in Seq(Nat) BY LowBytes
  <2>3. CASE v = <<>>
    <3>1. w2 = <<>> BY <1>2, <2>1, <2>3, WrittenIs, Zenon
    <3> QED BY <2>1, <2>3, <3>1
  <2>4. CASE v # <<>>
    <3>1. w2 = WriteBytes(2, v) BY <1>2, <2>1, <2>4, WrittenIs, Zenon
    <3>2. Len(w2) = LengthDelimited(Len(v)) BY <2>2, <3>1, BytesSize
    <3> QED BY <2>1, <2>4, <3>2
  <2> QED BY <2>3, <2>4
<1>10. Len(w3) = SizePlusOne(p.network)
  <2>1. PICK n \in Nat : n = p.network BY DEF Phones
  <2>2. w3 = WriteNumber(3, n) BY <1>3, <2>1, WrittenIs, Zenon
  <2>3. Len(w3) = SizePlusOne(n) BY <2>2, NumberSize
  <2> QED BY <2>1, <2>3
<1>11. Len(w4) = IF p.active THEN 2 ELSE 0
  <2>1. PICK n \in Nat : n = IF p.active THEN 1 ELSE 0 OBVIOUS
  <2>2. w4 = WriteNumber(4, n) BY <1>4, <2>1, WrittenIs, Zenon
  <2>3. Len(w4) = SizePlusOne(n) BY <2>2, NumberSize
  <2>4. CASE p.active
    <3>1. n = 1 BY <2>1, <2>4
    <3>2. VarintSize[1] = 1 BY VarintSizeIs
    <3> QED BY <2>3, <2>4, <3>1, <3>2 DEF SizePlusOne
  <2>5. CASE ~p.active
    <3>1. n = 0 BY <2>1, <2>5
    <3> QED BY <2>3, <2>5, <3>1 DEF SizePlusOne
  <2> QED BY <2>4, <2>5
<1>12. Len(w5) = SizePlusOne(p.type)
  <2>1. PICK n \in Nat : n = p.type BY DEF Phones
  <2>2. w5 = WriteNumber(5, n) BY <1>5, <2>1, WrittenIs, Zenon
  <2>3. Len(w5) = SizePlusOne(n) BY <2>2, NumberSize
  <2> QED BY <2>1, <2>3
<1>13. Len(w6) = IF p.created = NoTime THEN 0
                 ELSE LengthDelimited(SizePlusOne(p.created - 1))
  <2>1. PICK c \in Nat : c = p.created BY DEF Phones
  <2>2. CASE c = NoTime
    <3>1. w6 = <<>> BY <1>6, <2>1, <2>2, WrittenIs, Zenon
    <3> QED BY <2>1, <2>2, <3>1
  <2>3. CASE c # NoTime
    <3>1. PICK n \in Nat : n = c - 1 BY <2>3 DEF NoTime
    <3>2. PICK v \in Seq(Nat) : v = WriteTimestamp(n)
      BY WriteTypes DEF WriteTimestamp
    <3>3. w6 = WriteBytes(6, v)
      BY <1>6, <2>1, <2>3, <3>1, <3>2, WrittenIs, Zenon
    <3>4. Len(v) = SizePlusOne(n) BY <3>2, NumberSize DEF WriteTimestamp
    <3>5. Len(w6) = LengthDelimited(Len(v)) BY <3>3, BytesSize
    <3> QED BY <2>1, <2>3, <3>1, <3>4, <3>5
  <2> QED BY <2>2, <2>3
<1>14. /\ Len(w1) \in Nat /\ Len(w2) \in Nat /\ Len(w3) \in Nat
       /\ Len(w4) \in Nat /\ Len(w5) \in Nat /\ Len(w6) \in Nat
  OBVIOUS
<1>15. PhoneSize(p)
         = Len(w2) + Len(w6) + Len(w1) + Len(w3) + Len(w4) + Len(w5)
  BY <1>8, <1>9, <1>10, <1>11, <1>12, <1>13, Zenon DEF PhoneSize
<1> QED BY <1>7, <1>14, <1>15

\* The size of a list, which is computed first, is the one it has.
LEMMA ListSizeIs ==
  ASSUME NEW l \in Seq(Phones)
  PROVE  ListSize(l) = Len(Serialize(l))
<1> DEFINE Yes(x) == ListSize(x) = Len(Serialize(x))
           No == {m \in Nat : \E x \in Seq(Phones) : Len(x) = m /\ ~Yes(x)}
<1>0. ASSUME NEW q \in Phones
      PROVE  LengthDelimited(PhoneSize(q)) = Len(WriteBytes(1, SerializePhone(q)))
             /\ LengthDelimited(PhoneSize(q)) \in Nat
  <2>1. PICK v \in Seq(Nat) : v = SerializePhone(q) BY PhoneRead
  <2>2. PICK w \in Seq(Nat) : w = WriteBytes(1, v) BY <2>1, PhoneBytes
  <2>3. Len(w) = LengthDelimited(Len(v)) BY <2>2, BytesSize
  <2>4. PhoneSize(q) = Len(v) BY <2>1, PhoneSizeIs
  <2> QED BY <2>1, <2>2, <2>3, <2>4
<1>1. No = {}
  <2> SUFFICES ASSUME No # {} PROVE FALSE OBVIOUS
  <2>0. No \subseteq Nat OBVIOUS
  <2> HIDE DEF No, Yes
  <2>1. PICK m \in No : \A j \in No : m <= j BY <2>0, HasLeast
  <2>2. PICK x \in Seq(Phones) : Len(x) = m /\ ~Yes(x) BY <2>1 DEF No
  <2>3. CASE x = <<>>
    <3>1. Yes(x) BY <2>3, SizeEmpty, SerializeEmpty DEF Yes
    <3> QED BY <2>2, <3>1
  <2>4. CASE x # <<>>
    <3>1. PICK y \in Seq(Phones), q \in Phones :
            x = Append(y, q) /\ Len(x) = Len(y) + 1
      BY <2>4, ListParts
    <3>2. Len(y) \in Nat /\ ~(m <= Len(y)) BY <2>2, <3>1
    <3>3. Yes(y) BY <2>1, <3>2 DEF No
    <3>4. ListSize(y) \in Nat
          /\ ListSize(x) = ListSize(y) + LengthDelimited(PhoneSize(q))
      BY <1>0, <3>1, SizeAppend
    <3>5. PICK a \in Seq(Nat) : a = Serialize(y) BY SerializeAppend
    <3>6. PICK w \in Seq(Nat) : w = WriteBytes(1, SerializePhone(q))
      BY PhoneBytes
    <3>7. Serialize(x) = a \o w BY <3>1, <3>5, <3>6, SerializeAppend
    <3>8. Len(a \o w) = Len(a) + Len(w) BY JoinedLength
    <3>9. Yes(x) BY <1>0, <3>3, <3>4, <3>5, <3>6, <3>7, <3>8 DEF Yes
    <3> QED BY <2>2, <3>9
  <2> QED BY <2>3, <2>4
<1>2. Len(l) \in Nat OBVIOUS
<1> QED BY <1>1, <1>2

-----------------------------------------------------------------------------
(* Lists of phones: the fields that are read.                                 *)

\* The fields of any message, and how reading one may end.
AnyFields == [number : Nat, wire : Nat, next : Nat, value : Nat \cup Seq(Nat)]
Ends == {"failure", "tag", "limit"}

IsRead(x) ==
  \E t \in Seq(AnyFields), h \in Ends : x = [fields |-> t, end |-> h]

LEMMA EndedRead ==
  ASSUME NEW h \in Ends
  PROVE  IsRead(Ended(h))
<1>1. <<>> \in Seq(AnyFields) OBVIOUS
<1> QED BY <1>1 DEF IsRead, Ended

LEMMA AfterIs ==
  ASSUME NEW x \in AnyFields, NEW t \in Seq(AnyFields), NEW h
  PROVE  After(x, [fields |-> t, end |-> h]) = [fields |-> <<x>> \o t, end |-> h]
<1>1. PICK u : u = <<x>> \o t OBVIOUS
<1>2. PICK r : r = [fields |-> t, end |-> h] OBVIOUS
<1>5. r.fields = t BY <1>2
<1>3. After(x, r) = [r EXCEPT !.fields = u] BY <1>1, <1>5, Zenon DEF After
<1>4. [r EXCEPT !.fields = u] = [fields |-> u, end |-> h] BY <1>2
<1> QED BY <1>1, <1>2, <1>3, <1>4, Zenon

LEMMA AfterRead ==
  ASSUME NEW x \in AnyFields, NEW r, IsRead(r)
  PROVE  IsRead(After(x, r))
<1>1. PICK t \in Seq(AnyFields), h \in Ends : r = [fields |-> t, end |-> h]
  BY DEF IsRead
<1>2. PICK u \in Seq(AnyFields) : u = <<x>> \o t
  <2>1. <<x>> \o t \in Seq(AnyFields) OBVIOUS
  <2> QED BY <2>1
<1>3. After(x, r) = [fields |-> u, end |-> h] BY <1>1, <1>2, AfterIs, Zenon
<1> QED BY <1>3 DEF IsRead

LEMMA FieldType ==
  ASSUME NEW s \in Seq(Nat), NEW i \in 1..Len(s), TagAt(s, i).next <= Len(s) + 1,
         FieldAt(s, i).next <= Len(s) + 1
  PROVE  FieldAt(s, i) \in AnyFields
<1>0. PICK len \in Nat : len = Len(s) OBVIOUS
<1>1. i \in 1..(len + 1) BY <1>0
<1>2. PICK tag \in Nat : tag = TagAt(s, i).value
  BY <1>0, <1>1, VarintType DEF TagAt
<1>3. PICK k \in Nat : k = TagAt(s, i).next /\ k > i
  BY <1>0, <1>1, VarintType DEF TagAt
<1>4. k \in 1..(len + 1) BY <1>0, <1>1, <1>3
<1>5. PICK n : n = ReadVarint(s, k) OBVIOUS
<1>6. n.value \in Nat /\ n.next \in Nat /\ n.next > k
  BY <1>0, <1>4, <1>5, VarintType
<1>7. PICK y \in Nat : y = n.next /\ y > k BY <1>6
<1>8. PICK z \in Nat : z = n.value BY <1>6
<1>9. PICK x : x = FieldAt(s, i) OBVIOUS
<1>10. x = FieldWith(s, k, tag, n)
  BY <1>2, <1>3, <1>5, <1>9 DEF FieldAt, ReadField
<1>11. PICK number \in Nat, wire \in Nat, end \in Nat :
         x.number = number /\ x.wire = wire /\ x.next = end
  BY <1>9, FieldNext
<1>12. end <= len + 1 BY <1>0, <1>9, <1>11
<1>13. PICK cut : cut = SubSeq(s, y, end - 1) OBVIOUS
<1>14. cut \in Seq(Nat)
  <2>1. ASSUME NEW j \in y..(end - 1) PROVE s[j] \in Nat
    <3>1. j \in 1..Len(s) BY <1>0, <1>4, <1>7, <1>12
    <3> QED BY <3>1
  <2>2. SubSeq(s, y, end - 1) \in Seq(Nat) BY <2>1, SubSeqProperties
  <2> QED BY <1>13, <2>2
<1> DEFINE wx == tag % 8
           ex == CASE wx = WireVarint -> n.next
                   [] wx = 1 -> k + 8
                   [] wx = WireBytes -> n.next + n.value
                   [] wx = 5 -> k + 4
                   [] OTHER -> Len(s) + 2
           vx == IF wx = WireBytes /\ ex <= Len(s) + 1
                 THEN SubSeq(s, n.next, ex - 1) ELSE n.value
<1>19. x = [number |-> tag \div 8, wire |-> wx, next |-> ex, value |-> vx]
  BY <1>10 DEF FieldWith
<1> HIDE DEF wx
<1>20. vx = SubSeq(s, n.next, ex - 1) \/ vx = n.value OBVIOUS
<1> HIDE DEF ex, vx
<1>21. ex = end /\ x.value = vx BY <1>11, <1>19
<1>15. x.value = cut \/ x.value = z
  BY <1>7, <1>8, <1>13, <1>20, <1>21, Zenon
<1>17. x = [number |-> number, wire |-> wire, next |-> end, value |-> x.value]
  BY <1>11, <1>19
<1>18. x.value \in Nat \cup Seq(Nat) BY <1>14, <1>15
<1> QED BY <1>9, <1>17, <1>18 DEF AnyFields

\* Whatever the bytes are, what is read from each place is fields and an end.
LEMMA ReadsType ==
  ASSUME NEW s \in Seq(Nat), NEW f, Reads(f, s, 1)
  PROVE  \A j \in 1..(Len(s) + 1) : IsRead(f[j])
<1>0. PICK n \in Nat : n = Len(s) OBVIOUS
<1> DEFINE No == {m \in 0..n : ~IsRead(f[(n + 1) - m])}
<1>1. No = {}
  <2> SUFFICES ASSUME No # {} PROVE FALSE OBVIOUS
  <2>0. No \subseteq Nat /\ No \subseteq 0..n OBVIOUS
  <2> HIDE DEF No
  <2>1. PICK m \in No : \A j \in No : m <= j BY <2>0, HasLeast
  <2>2. PICK i \in 1..(n + 1) : i = (n + 1) - m BY <2>0, <2>1
  <2>3. ~IsRead(f[i]) BY <2>1, <2>2 DEF No
  <2>4. ASSUME NEW j \in (i + 1)..(n + 1) PROVE IsRead(f[j])
    <3>1. PICK k \in 0..n : k = (n + 1) - j BY <2>2
    <3>2. ~(m <= k) /\ (n + 1) - k = j BY <2>0, <2>1, <2>2, <3>1
    <3> QED BY <2>1, <3>1, <3>2 DEF No
  <2>5. \A h \in Ends : f[i] # Ended(h) BY <2>3, EndedRead, Zenon
  <2>6. i \in 1..n
    <3>1. f[n + 1] = Ended("limit") BY <1>0, ReadsEnd DEF Ended
    <3>2. i # n + 1 BY <2>5, <3>1 DEF Ends
    <3> QED BY <3>2
  <2>7. PICK tag, x, r :
          /\ tag = TagAt(s, i) /\ x = FieldAt(s, i)
          /\ r = f[x.next] /\ f[i] = FromTag(s, tag, x, r)
    <3>1. f[i] = FromTag(s, TagAt(s, i), FieldAt(s, i), f[FieldAt(s, i).next])
      <4>1. i \in 1..(Len(s) + 1) /\ i # Len(s) + 1 BY <1>0, <2>6
      <4> QED BY <4>1 DEF Reads
    <3> QED BY <3>1
  <2>8. /\ tag.next <= n + 1 /\ x.next <= n + 1
        /\ f[i] = After(x, r)
    <3>1. tag.next \in Nat
      <4>1. i \in 1..(Len(s) + 1) BY <1>0, <2>6
      <4> QED BY <2>7, <4>1, VarintType DEF TagAt
    <3>2. ~(tag.next > n + 1)
      <4>1. tag.next > n + 1 => f[i] = Ended("failure")
        BY <1>0, <2>7 DEF FromTag
      <4> QED BY <2>5, <4>1 DEF Ends
    <3>3. tag.next <= n + 1 BY <3>1, <3>2
    <3>4. x.next \in Nat BY <1>0, <2>6, <2>7, <3>3, FieldNext
    <3>5. ~(x.next > n + 1) /\ f[i] = After(x, r)
      <4>1. \/ f[i] = Ended("failure") \/ f[i] = Ended("tag")
            \/ ~(x.next > n + 1) /\ f[i] = After(x, r)
        BY <1>0, <2>7 DEF FromTag
      <4> QED BY <2>5, <4>1 DEF Ends
    <3> QED BY <3>3, <3>4, <3>5
  <2>9. x \in AnyFields BY <1>0, <2>6, <2>7, <2>8, FieldType
  <2>10. x.next \in (i + 1)..(n + 1)
    <3>1. x.next \in Nat /\ x.next > i BY <1>0, <2>6, <2>7, <2>8, FieldNext
    <3> QED BY <2>8, <3>1
  <2>11. IsRead(r) BY <2>4, <2>7, <2>10
  <2>12. IsRead(After(x, r)) BY ONLY <2>9, <2>11, AfterRead
  <2> QED BY <2>3, <2>8, <2>12, Zenon
<1>2. ASSUME NEW j \in 1..(Len(s) + 1) PROVE IsRead(f[j])
  <2>0. j \in 1..(n + 1) BY <1>0
  <2>1. PICK m \in 0..n : m = (n + 1) - j
    <3>1. (n + 1) - j \in 0..n BY <2>0
    <3> QED BY <3>1
  <2>2. (n + 1) - m = j BY <1>0, <2>1
  <2> QED BY <1>1, <2>1, <2>2
<1> QED BY <1>2

-----------------------------------------------------------------------------
(* Lists of phones: reading.                                                  *)

\* The fields in t are the phones of l.
Gives(t, l) ==
  /\ Len(t) = Len(l)
  /\ \A k \in 1..Len(l) : /\ t[k].number = 1 /\ t[k].wire = WireBytes
                          /\ t[k].value = SerializePhone(l[k])

\* What is read is the phones of l, and then what is read from place e on.
Begins(f, l, e) ==
  \E t \in Seq(AnyFields), r \in Seq(AnyFields), h \in Ends :
    /\ Gives(t, l)
    /\ f[e] = [fields |-> r, end |-> h]
    /\ f[1] = [fields |-> t \o r, end |-> h]

LEMMA GivesOneMore ==
  ASSUME NEW t \in Seq(AnyFields), NEW l \in Seq(Phones), Gives(t, l),
         NEW p \in Phones, NEW x \in AnyFields,
         x.number = 1, x.wire = WireBytes, x.value = SerializePhone(p)
  PROVE  Gives(Append(t, x), Append(l, p))
<1>1. PICK n \in Nat : n = Len(l) OBVIOUS
<1>2. PICK u : u = Append(t, x) OBVIOUS
<1>3. PICK y : y = Append(l, p) OBVIOUS
<1>4. Len(t) = n BY <1>1 DEF Gives
<1>5. Len(u) = n + 1 /\ u[n + 1] = x /\ \A k \in 1..n : u[k] = t[k]
  BY <1>2, <1>4, AppendProperties
<1>6. Len(y) = n + 1 /\ y[n + 1] = p /\ \A k \in 1..n : y[k] = l[k]
  BY <1>1, <1>3, AppendProperties
<1>7. ASSUME NEW k \in 1..(n + 1)
      PROVE  /\ u[k].number = 1 /\ u[k].wire = WireBytes
             /\ u[k].value = SerializePhone(y[k])
  <2>1. CASE k = n + 1 BY <1>5, <1>6, <2>1
  <2>2. CASE k # n + 1
    <3>1. k \in 1..n BY <2>2
    <3>2. u[k] = t[k] /\ y[k] = l[k] BY <1>5, <1>6, <3>1
    <3>3. /\ t[k].number = 1 /\ t[k].wire = WireBytes
          /\ t[k].value = SerializePhone(l[k])
      BY <1>1, <3>1 DEF Gives
    <3> QED BY <3>2, <3>3
  <2> QED BY <2>1, <2>2
<1> QED BY <1>2, <1>3, <1>5, <1>6, <1>7 DEF Gives

LEMMA FieldsJoined ==
  ASSUME NEW t \in Seq(AnyFields), NEW x \in AnyFields, NEW r \in Seq(AnyFields)
  PROVE  /\ Append(t, x) \in Seq(AnyFields)
         /\ t \o (<<x>> \o r) = Append(t, x) \o r
<1>1. <<x>> \in Seq(AnyFields) OBVIOUS
<1>2. Append(t, x) = t \o <<x>> BY AppendIsConcat
<1>3. t \o (<<x>> \o r) = (t \o <<x>>) \o r BY <1>1, ConcatAssociative
<1> QED BY <1>2, <1>3, AppendProperties

\* What was written of a list is read first.
LEMMA ListBegins ==
  ASSUME NEW s \in Seq(Nat), NEW f, Reads(f, s, 1),
         NEW l \in Seq(Phones), Has(s, 1, Serialize(l))
  PROVE  Begins(f, l, Len(Serialize(l)) + 1)
<1> DEFINE Yes(x) == Has(s, 1, Serialize(x))
                       => Begins(f, x, Len(Serialize(x)) + 1)
           No == {m \in Nat : \E x \in Seq(Phones) : Len(x) = m /\ ~Yes(x)}
<1>1. No = {}
  <2> SUFFICES ASSUME No # {} PROVE FALSE OBVIOUS
  <2>0. No \subseteq Nat OBVIOUS
  <2> HIDE DEF No, Yes
  <2>1. PICK m \in No : \A j \in No : m <= j BY <2>0, HasLeast
  <2>2. PICK x \in Seq(Phones) : Len(x) = m /\ ~Yes(x) BY <2>1 DEF No
  <2>3. CASE x = <<>>
    <3>1. Len(Serialize(x)) + 1 = 1 BY <2>3, SerializeEmpty
    <3>2. 1 \in 1..(Len(s) + 1) OBVIOUS
    <3>3. IsRead(f[1]) BY <3>2, ReadsType
    <3>4. PICK r \in Seq(AnyFields), h \in Ends :
            f[1] = [fields |-> r, end |-> h]
      BY <3>3 DEF IsRead
    <3>5. PICK t \in Seq(AnyFields) : t = <<>>
      <4>1. <<>> \in Seq(AnyFields) OBVIOUS
      <4> QED BY <4>1
    <3>6. t \o r = r BY <3>5
    <3>7. Gives(t, x) BY <2>3, <3>5 DEF Gives
    <3>8. f[1] = [fields |-> t \o r, end |-> h] BY <3>4, <3>6, Zenon
    <3>9. Begins(f, x, 1) BY <3>4, <3>7, <3>8 DEF Begins
    <3> QED BY <2>2, <3>1, <3>9 DEF Yes
  <2>4. CASE x # <<>>
    <3>1. PICK y \in Seq(Phones), q \in Phones :
            x = Append(y, q) /\ Len(x) = Len(y) + 1
      BY <2>4, ListParts
    <3>2. Len(y) \in Nat /\ ~(m <= Len(y)) BY <2>2, <3>1
    <3>3. Yes(y) BY <2>1, <3>2 DEF No
    <3>4. PICK a \in Seq(Nat) : a = Serialize(y) BY SerializeAppend
    <3>5. PICK v \in Seq(Nat) : v = SerializePhone(q) BY PhoneRead
    <3>6. PICK w \in Seq(Nat) : w = WriteBytes(1, v) BY <3>5, PhoneBytes
    <3>7. Serialize(x) = a \o w BY <3>1, <3>4, <3>5, <3>6, SerializeAppend
    <3>8. Has(s, 1, a \o w) BY <2>2, <3>7 DEF Yes
    <3>9. PICK i \in Nat \ {0} : i = 1 + Len(a) OBVIOUS
    <3>10. Has(s, 1, a) /\ Has(s, i, w)
      <4>1. 1 \in Nat \ {0} OBVIOUS
      <4>2. Has(s, 1, a) /\ Has(s, 1 + Len(a), w)
        BY ONLY <3>8, <4>1, s \in Seq(Nat), a \in Seq(Nat), w \in Seq(Nat),
                HasJoined
      <4> QED BY <3>9, <4>2
    <3>11. Len(Serialize(y)) + 1 = i BY <3>4, <3>9
    <3>12. Begins(f, y, i) BY <3>3, <3>4, <3>10, <3>11 DEF Yes
    <3>13. PICK t \in Seq(AnyFields), r \in Seq(AnyFields), h \in Ends :
             /\ Gives(t, y)
             /\ f[i] = [fields |-> r, end |-> h]
             /\ f[1] = [fields |-> t \o r, end |-> h]
      BY <3>12 DEF Begins
    <3>14. PICK number \in 1..15 : number = 1 OBVIOUS
    <3>15. PICK next : next = i + Len(WriteBytes(number, v)) OBVIOUS
    <3>16. PICK z : z = Field(number, WireBytes, v, next) /\ z.next = next
      BY NextOfField
    <3>17. ReadAs(f, s, i, z)
      <4>1. Has(s, i, WriteBytes(number, v)) BY <3>6, <3>10, <3>14
      <4> QED
        BY ONLY <3>15, <3>16, <4>1, s \in Seq(Nat), v \in Seq(Nat),
                i \in Nat \ {0}, number \in 1..15, Reads(f, s, 1), BytesRead
    <3>18. next \in 1..(Len(s) + 1) /\ f[i] = After(z, f[next])
      BY <3>16, <3>17 DEF ReadAs
    <3>19. /\ z.number = 1 /\ z.wire = WireBytes /\ z.value = v
           /\ z \in AnyFields
      BY <3>14, <3>16, <3>18 DEF Field, AnyFields, WireBytes
    <3>20. PICK r2 \in Seq(AnyFields), h2 \in Ends :
             f[next] = [fields |-> r2, end |-> h2]
      <4>1. IsRead(f[next]) BY <3>18, ReadsType
      <4> QED BY <4>1 DEF IsRead
    <3>21. f[i] = [fields |-> <<z>> \o r2, end |-> h2]
      <4>1. After(z, [fields |-> r2, end |-> h2])
              = [fields |-> <<z>> \o r2, end |-> h2]
        BY <3>19, AfterIs
      <4> QED BY <3>18, <3>20, <4>1, Zenon
    <3>22. r = <<z>> \o r2 /\ h = h2
      <4>1. [fields |-> r, end |-> h] = [fields |-> <<z>> \o r2, end |-> h2]
        BY <3>13, <3>21, Zenon
      <4>2. PICK g : g = <<z>> \o r2 OBVIOUS
      <4> HIDE <3>21
      <4>3. [fields |-> r, end |-> h] = [fields |-> g, end |-> h2]
        BY <4>1, <4>2, Zenon
      <4>4. r = g /\ h = h2 BY ONLY <4>3
      <4> QED BY <4>2, <4>4
    <3>23. PICK t2 \in Seq(AnyFields) : t2 = Append(t, z)
      BY <3>19, FieldsJoined
    <3>24. t \o r = t2 \o r2 BY <3>19, <3>22, <3>23, FieldsJoined
    <3>25. Gives(t2, x)
      BY <3>1, <3>5, <3>13, <3>19, <3>23, GivesOneMore
    <3>26. f[1] = [fields |-> t2 \o r2, end |-> h2]
      BY <3>13, <3>22, <3>24, Zenon
    <3>27. Begins(f, x, next) BY <3>20, <3>25, <3>26 DEF Begins
    <3>28. Len(a \o w) = Len(a) + Len(w) BY JoinedLength
    <3>29. Len(Serialize(x)) + 1 = next
      BY <3>6, <3>7, <3>9, <3>14, <3>15, <3>28
    <3> QED BY <2>2, <3>27, <3>29 DEF Yes
  <2> QED BY <2>3, <2>4
<1>2. Len(l) \in Nat OBVIOUS
<1> QED BY <1>1, <1>2

LEMMA FirstPhones ==
  ASSUME NEW l \in Seq(Phones), NEW k \in 1..Len(l)
  PROVE  /\ SubSeq(l, 1, k - 1) \in Seq(Phones)
         /\ SubSeq(l, 1, k) = Append(SubSeq(l, 1, k - 1), l[k])
<1>1. PICK n \in Nat : n = Len(l) OBVIOUS
<1>2. PICK i \in 0..n : i = k - 1 BY <1>1
<1>3. \A j \in 1..k : l[j] \in Phones BY <1>1
<1>4. PICK x \in Seq(Phones) :
        /\ x = SubSeq(l, 1, i) /\ Len(x) = i
        /\ \A j \in 1..i : x[j] = l[j]
  <2>1. \A j \in 1..i : l[j] \in Phones BY <1>1, <1>2
  <2>5. PICK a \in Int : a = 1 OBVIOUS
  <2>6. \A j \in a..i : l[j] \in Phones BY <2>1, <2>5
  <2>7. /\ SubSeq(l, a, i) \in Seq(Phones)
        /\ Len(SubSeq(l, a, i)) = IF a <= i THEN (i - a) + 1 ELSE 0
        /\ \A j \in 1..((i - a) + 1) : SubSeq(l, a, i)[j] = l[(a + j) - 1]
    BY <2>6, SubSeqProperties
  <2>2. PICK w \in Seq(Phones) :
          /\ w = SubSeq(l, 1, i)
          /\ Len(w) = IF a <= i THEN (i - a) + 1 ELSE 0
          /\ \A j \in 1..((i - a) + 1) : w[j] = l[(a + j) - 1]
    BY <2>5, <2>7
  <2>3. Len(w) = i /\ (i - a) + 1 = i BY <2>2, <2>5
  <2>4. \A j \in 1..i : w[j] = l[j]
    <3>1. \A j \in 1..i : (a + j) - 1 = j BY <2>5
    <3> QED BY <2>2, <2>3, <3>1
  <2> QED BY <2>2, <2>3, <2>4
<1>5. PICK y \in Seq(Phones) :
        /\ y = SubSeq(l, 1, k) /\ Len(y) = k
        /\ \A j \in 1..k : y[j] = l[j]
  <2>5. PICK a \in Int : a = 1 OBVIOUS
  <2>6. \A j \in a..k : l[j] \in Phones BY <1>3, <2>5
  <2>7. /\ SubSeq(l, a, k) \in Seq(Phones)
        /\ Len(SubSeq(l, a, k)) = IF a <= k THEN (k - a) + 1 ELSE 0
        /\ \A j \in 1..((k - a) + 1) : SubSeq(l, a, k)[j] = l[(a + j) - 1]
    BY <2>6, SubSeqProperties
  <2>2. PICK w \in Seq(Phones) :
          /\ w = SubSeq(l, 1, k)
          /\ Len(w) = IF a <= k THEN (k - a) + 1 ELSE 0
          /\ \A j \in 1..((k - a) + 1) : w[j] = l[(a + j) - 1]
    BY <2>5, <2>7
  <2>3. Len(w) = k /\ (k - a) + 1 = k BY <2>2, <2>5
  <2>4. \A j \in 1..k : w[j] = l[j]
    <3>1. \A j \in 1..k : (a + j) - 1 = j BY <2>5
    <3> QED BY <2>2, <2>3, <3>1
  <2> QED BY <2>2, <2>3, <2>4
<1>6. PICK p \in Phones : p = l[k] BY <1>3
<1>7. PICK z \in Seq(Phones) : z = Append(x, p) BY AppendProperties
<1>8. Len(z) = k /\ \A j \in 1..k : z[j] = y[j]
  <2>1. Len(z) = i + 1 /\ z[i + 1] = p /\ \A j \in 1..i : z[j] = x[j]
    BY <1>4, <1>7, AppendProperties
  <2>2. i + 1 = k BY <1>2
  <2>3. ASSUME NEW j \in 1..k PROVE z[j] = y[j]
    <3>1. CASE j = k BY <1>5, <1>6, <2>1, <2>2, <3>1
    <3>2. CASE j # k
      <4>1. j \in 1..i BY <1>2, <3>2
      <4> QED BY <1>4, <1>5, <2>1, <4>1
    <3> QED BY <3>1, <3>2
  <2> QED BY <2>1, <2>2, <2>3
<1>9. z = y BY <1>5, <1>8, SeqEqual
<1> QED BY <1>2, <1>4, <1>5, <1>6, <1>7, <1>9

LEMMA SerializeType ==
  \A l \in Seq(Phones) : Serialize(l) \in Seq(Nat)
<1>1. NewPhone \in Phones BY DEF NewPhone, Phones, NoTime
<1> QED BY <1>1, SerializeAppend

\* The phones are added as they were written.
LEMMA PhonesAdded ==
  ASSUME NEW l \in Seq(Phones), NEW t \in Seq(AnyFields), Gives(t, l)
  PROVE  /\ FoldLeft(AddPhone, <<>>, t) = l
         /\ \A k \in 1..Len(t) : ReadablePhone(t[k])
<1>1. PICK n \in Nat : n = Len(l) /\ DOMAIN l = 1..n OBVIOUS
<1>2. DOMAIN t = 1..n /\ Len(t) = n BY <1>1 DEF Gives
<1>3. PICK V : V = Seq(Phones) OBVIOUS
<1>4. PICK b \in V : b = <<>>
  <2>1. <<>> \in Seq(Phones) OBVIOUS
  <2> QED BY <1>3, <2>1
<1>5. ASSUME NEW k \in 1..n
      PROVE  /\ Is(t[k], 1, WireBytes) /\ l[k] \in Phones
             /\ ParsePhone(t[k].value) = [ok |-> TRUE, phone |-> l[k]]
  <2>1. /\ t[k].number = 1 /\ t[k].wire = WireBytes
        /\ t[k].value = SerializePhone(l[k])
    BY <1>1 DEF Gives
  <2>2. l[k] \in Phones BY <1>1
  <2>3. ParsePhone(SerializePhone(l[k])) = [ok |-> TRUE, phone |-> l[k]]
    BY <2>2, PhoneRead
  <2>4. Is(t[k], 1, WireBytes) BY <2>1 DEF Is
  <2> QED BY <2>1, <2>2, <2>3, <2>4, Zenon
<1>6. ASSUME NEW k \in 1..n, NEW v
      PROVE  AddPhone(v, t[k]) = Append(v, l[k])
  <2>1. PICK r : r = ParsePhone(t[k].value) /\ r = [ok |-> TRUE, phone |-> l[k]]
    BY <1>5, Zenon
  <2>2. r.phone = l[k] BY <2>1
  <2> QED BY <1>5, <2>1, <2>2, Zenon DEF AddPhone
<1>7. PICK f : f = [k \in 0..n |-> SubSeq(l, 1, k)] OBVIOUS
<1>8. f[0] = b BY <1>1, <1>4, <1>7
<1>9. ASSUME NEW k \in 1..n PROVE f[k] = AddPhone(f[k - 1], t[k])
  <2>0. PICK i \in 0..n : i = k - 1 OBVIOUS
  <2>1. f[k] = SubSeq(l, 1, k) /\ f[i] = SubSeq(l, 1, i)
    <3>1. k \in 0..n OBVIOUS
    <3> QED BY <1>7, <2>0, <3>1
  <2>2. PICK x : x = SubSeq(l, 1, i) OBVIOUS
  <2>3. SubSeq(l, 1, k) = Append(x, l[k])
    <3>1. k \in 1..Len(l) BY <1>1
    <3> QED BY <2>0, <2>2, <3>1, FirstPhones
  <2> QED BY <1>6, <2>0, <2>1, <2>2, <2>3
<1>10. \A v \in V : \A k \in 1..n : AddPhone(v, t[k]) \in V
  <2> SUFFICES ASSUME NEW v \in V, NEW k \in 1..n PROVE AddPhone(v, t[k]) \in V
    OBVIOUS
  <2>1. Append(v, l[k]) \in Seq(Phones) BY <1>3, <1>5, AppendProperties
  <2> QED BY <1>3, <1>6, <2>1
<1>11. PhonesFold(f, t, n, b, V) BY <1>8, <1>9, <1>10 DEF PhonesFold
<1>12. FoldLeft(AddPhone, b, t) = f[n]
  BY ONLY n \in Nat, b \in V, <1>2, <1>11, FoldPhones
<1>13. f[n] = l BY <1>1, <1>7
<1>14. ASSUME NEW k \in 1..n PROVE ReadablePhone(t[k])
  <2>1. PICK r : r = ParsePhone(t[k].value) /\ r = [ok |-> TRUE, phone |-> l[k]]
    BY <1>5, Zenon
  <2>2. r.ok = TRUE BY <2>1
  <2> QED BY <2>1, <2>2, Zenon DEF ReadablePhone
<1> QED BY <1>2, <1>4, <1>12, <1>13, <1>14

\* A list is read as it was written.
LEMMA ListRead ==
  ASSUME NEW l \in Seq(Phones)
  PROVE  Parse(Serialize(l)) = [ok |-> TRUE, list |-> l]
<1>1. PICK s \in Seq(Nat) : s = Serialize(l) BY SerializeType
<1>2. PICK f : Reads(f, s, 1) /\ Fields(s) = f[1] BY FieldsRead
<1>3. Has(s, 1, Serialize(l)) BY <1>1, HasSelf
<1>4. PICK e : e = Len(s) + 1 OBVIOUS
<1>5. Begins(f, l, e) BY <1>1, <1>2, <1>3, <1>4, ListBegins
<1>6. PICK t \in Seq(AnyFields), r \in Seq(AnyFields), h \in Ends :
        /\ Gives(t, l)
        /\ f[e] = [fields |-> r, end |-> h]
        /\ f[1] = [fields |-> t \o r, end |-> h]
  BY <1>5 DEF Begins
<1>7. f[e] = [fields |-> <<>>, end |-> "limit"] BY <1>2, <1>4, ReadsEnd
<1>8. r = <<>> /\ h = "limit" BY <1>6, <1>7
<1>9. t \o r = t BY <1>8
<1>10. Fields(s) = [fields |-> t, end |-> "limit"]
  BY <1>2, <1>6, <1>8, <1>9, Zenon
<1>11. PICK m : m = Fields(s) /\ m = [fields |-> t, end |-> "limit"]
  BY <1>10, Zenon
<1>12. m.fields = t /\ m.end = "limit" BY <1>11
<1>13. FirstBad(t, ReadablePhone) = 0
  <2>1. \A k \in 1..Len(t) : ReadablePhone(t[k]) BY <1>6, PhonesAdded
  <2>2. {j \in 1..Len(t) : ~ReadablePhone(t[j])} = {} BY <2>1
  <2> QED BY <2>2 DEF FirstBad, SelectInSeq
<1>14. ListOf(m, 0) = [ok |-> TRUE, list |-> l]
  <2>0. FoldLeft(AddPhone, <<>>, t) = l BY <1>6, PhonesAdded
  <2>1. FoldLeft(AddPhone, <<>>, m.fields) = l BY <1>12, <2>0, Zenon
  <2>2. (m.end = "limit" /\ 0 = 0) = TRUE BY <1>12
  <2> QED BY <2>1, <2>2, Zenon DEF ListOf
<1>15. Parse(s) = ListOf(m, FirstBad(m.fields, ReadablePhone))
  BY <1>11 DEF Parse
<1>16. FirstBad(m.fields, ReadablePhone) = 0 BY <1>12, <1>13, Zenon
<1> QED BY <1>1, <1>14, <1>15, <1>16

-----------------------------------------------------------------------------
(* The beginning of what was written.                                         *)

LEMMA HasFirst ==
  ASSUME NEW a \in Seq(Nat), NEW w \in Seq(Nat)
  PROVE  Has(a \o w, 1, a)
<1>1. a \o w \in Seq(Nat) /\ 1 \in Nat \ {0} BY Joined
<1>2. Has(a \o w, 1, a \o w) BY <1>1, HasSelf
<1> QED BY ONLY <1>1, <1>2, a \in Seq(Nat), w \in Seq(Nat), HasJoined

LEMMA HasTrans ==
  ASSUME NEW a \in Seq(Nat), NEW b \in Seq(Nat), NEW c \in Seq(Nat),
         Has(a, 1, b), Has(b, 1, c)
  PROVE  Has(a, 1, c)
<1>1. Len(a) \in Nat /\ Len(b) \in Nat /\ Len(c) \in Nat OBVIOUS
<1>2. Len(b) <= Len(a) /\ Len(c) <= Len(b) BY <1>1 DEF Has
<1>3. ASSUME NEW j \in 1..Len(c) PROVE a[(1 - 1) + j] = c[j]
  <2>1. j \in 1..Len(b) /\ (1 - 1) + j = j BY <1>1, <1>2
  <2>2. b[j] = c[j] BY <2>1 DEF Has
  <2>3. a[j] = b[j] BY <2>1 DEF Has
  <2> QED BY <2>1, <2>2, <2>3
<1> QED BY <1>1, <1>2, <1>3 DEF Has

\* s ends, from place i on, within w.
Within(s, i, w) ==
  /\ i <= Len(s) /\ Len(s) + 1 < i + Len(w)
  /\ \A j \in 1..((Len(s) + 1) - i) : s[(i - 1) + j] = w[j]

\* A field that is cut off cannot be read.
LEMMA CutFails ==
  ASSUME NEW s \in Seq(Nat), NEW i \in Nat \ {0}, NEW f, Reads(f, s, 1),
         NEW number \in 1..15, NEW v \in Seq(Nat),
         Within(s, i, WriteBytes(number, v))
  PROVE  f[i] = Ended("failure")
<1>1. PICK tag \in 1..127 : /\ tag = Tag(number, WireBytes)
                            /\ tag \div 8 = number /\ tag % 8 = WireBytes
  BY TagParts
<1>2. PICK a \in Seq(Nat) : a = <<tag>> /\ Len(a) = 1 /\ a[1] = tag
  <2>1. <<tag>> \in Seq(Nat) /\ Len(<<tag>>) = 1 /\ <<tag>>[1] = tag OBVIOUS
  <2> QED BY <2>1
<1>3. PICK n \in Nat : n = Len(v) OBVIOUS
<1>4. PICK w \in Seq(Nat) : w = Varint[n] BY VarintIs
<1>5. PICK l \in Nat : l = Len(w) OBVIOUS
<1>6. PICK aw \in Seq(Nat) : aw = a \o w /\ Len(aw) = 1 + l
  <2>1. a \o w \in Seq(Nat) /\ Len(a \o w) = Len(a) + Len(w)
    BY ONLY a \in Seq(Nat), w \in Seq(Nat), JoinedLength
  <2>2. Len(a \o w) = 1 + l BY <1>2, <1>5, <2>1
  <2> QED BY <2>1, <2>2
<1>7. PICK c \in Seq(Nat) : c = aw \o v /\ Len(c) = 1 + l + n
  <2>1. aw \o v \in Seq(Nat) /\ Len(aw \o v) = Len(aw) + Len(v) BY JoinedLength
  <2>2. Len(aw \o v) = 1 + l + n BY <1>3, <1>6, <2>1
  <2> QED BY <2>1, <2>2
<1>8. WriteBytes(number, v) = c
  BY <1>1, <1>2, <1>3, <1>4, <1>6, <1>7 DEF WriteBytes
<1>9. c[1] = tag /\ \A j \in 1..l : c[1 + j] = w[j]
  <2>1. \A j \in 1..(1 + l) : c[j] = aw[j] BY <1>6, <1>7, Joined
  <2>2. aw[1] = tag
    <3>1. 1 \in 1..Len(a) BY <1>2
    <3>2. aw[1] = a[1] BY <1>6, <3>1, Joined
    <3> QED BY <1>2, <3>2
  <2>3. \A j \in 1..l : aw[1 + j] = w[j] BY <1>2, <1>5, <1>6, Joined
  <2>4. \A j \in 1..l : 1 + j \in 1..(1 + l) /\ 1 \in 1..(1 + l) OBVIOUS
  <2>5. 1 \in 1..(1 + l) OBVIOUS
  <2> QED BY <2>1, <2>2, <2>3, <2>4, <2>5
<1>10. PICK m \in Nat : m = Len(s) OBVIOUS
<1>11. /\ i <= m /\ m + 1 < i + (1 + l + n)
       /\ \A j \in 1..((m + 1) - i) : s[(i - 1) + j] = c[j]
  BY <1>7, <1>8, <1>10 DEF Within
<1>12. TagAt(s, i) = [value |-> tag, next |-> i + 1]
  <2>1. s[(i - 1) + 1] = tag
    <3>1. 1 \in 1..((m + 1) - i) BY <1>11
    <3> QED BY <1>9, <1>11, <3>1
  <2>2. \A j \in 1..1 : j = 1 OBVIOUS
  <2>3. i + 1 <= m + 1 BY <1>11
  <2>4. Has(s, i, a) BY <1>2, <1>10, <2>1, <2>2, <2>3 DEF Has
  <2>5. Has(s, i, <<tag>>) /\ tag \in 0..127 BY <1>2, <2>4
  <2> QED BY <2>5, TagRead
<1>13. PICK k \in Nat \ {0} : k = i + 1 OBVIOUS
<1>14. EndsLow(w) BY <1>4, VarintForm
<1>15. \A j \in 1..((m + 1) - k) : s[(k - 1) + j] = c[1 + j]
  <2> SUFFICES ASSUME NEW j \in 1..((m + 1) - k)
               PROVE  s[(k - 1) + j] = c[1 + j]
    OBVIOUS
  <2>1. 1 + j \in 1..((m + 1) - i) /\ (k - 1) + j = (i - 1) + (1 + j)
    BY <1>13
  <2> QED BY <1>11, <2>1
<1>16. PICK r : /\ r = ReadVarint(s, k)
                /\ r.value \in Nat /\ r.next \in Nat /\ r.next + r.value > m + 1
  <2>1. CASE k + l <= m + 1
    <3>1. \A j \in 1..l : s[(k - 1) + j] = w[j]
      <4>1. \A j \in 1..l : j \in 1..((m + 1) - k) BY <2>1
      <4> QED BY <1>9, <1>15, <4>1
    <3>2. Has(s, k, w) BY <1>5, <1>10, <2>1, <3>1 DEF Has
    <3>3. Has(s, k, Varint[n]) BY <1>4, <3>2
    <3>4. ReadVarint(s, k) = [value |-> n, next |-> k + Len(Varint[n])]
      BY <3>3, VarintRead
    <3>5. ReadVarint(s, k) = [value |-> n, next |-> k + l]
      BY <1>4, <1>5, <3>4
    <3>6. (k + l) + n > m + 1
      BY ONLY <1>11, <1>13, i \in Nat \ {0}, k \in Nat \ {0}, l \in Nat,
              n \in Nat, m \in Nat
    <3>7. PICK r : r = ReadVarint(s, k) /\ r.value = n /\ r.next = k + l
      <4>1. PICK r : r = ReadVarint(s, k) /\ r = [value |-> n, next |-> k + l]
        BY <3>5, Zenon
      <4>2. r.value = n /\ r.next = k + l BY ONLY <4>1
      <4> QED BY <4>1, <4>2
    <3>8. r.next + r.value > m + 1 /\ r.next \in Nat BY <3>6, <3>7
    <3> QED BY <3>7, <3>8
  <2>2. CASE ~(k + l <= m + 1)
    <3>1. ASSUME NEW j \in k..Len(s) PROVE s[j] >= 128
      <4>1. PICK h \in 1..((m + 1) - k) : j = (k - 1) + h
        <5>1. j - (k - 1) \in 1..((m + 1) - k) /\ j = (k - 1) + (j - (k - 1))
          BY <1>10
        <5> QED BY <5>1
      <4>2. h \in 1..(l - 1) /\ h \in 1..l BY <2>2
      <4>3. w[h] >= 128 BY <1>5, <1>14, <4>2 DEF EndsLow
      <4>4. s[(k - 1) + h] = w[h] BY <1>9, <1>15, <4>2
      <4> QED BY <4>1, <4>3, <4>4
    <3>2. ReadVarint(s, k) = [value |-> 0, next |-> Len(s) + 2]
      BY <3>1, ReadCut
    <3>3. ReadVarint(s, k) = [value |-> 0, next |-> m + 2]
      BY <1>10, <3>2
    <3>4. PICK r : r = ReadVarint(s, k) /\ r.value = 0 /\ r.next = m + 2
      <4>1. PICK r : r = ReadVarint(s, k) /\ r = [value |-> 0, next |-> m + 2]
        BY <3>3, Zenon
      <4>2. r.value = 0 /\ r.next = m + 2 BY ONLY <4>1
      <4> QED BY <4>1, <4>2
    <3>5. r.next + r.value > m + 1 /\ r.next \in Nat /\ r.value \in Nat
      BY <3>4
    <3> QED BY <3>4, <3>5
  <2> QED BY <2>1, <2>2
<1>17. PICK x : x = FieldAt(s, i) /\ x.number = number
                /\ x.next = r.next + r.value
  <2>1. FieldAt(s, i) = FieldWith(s, k, tag, r)
    BY <1>12, <1>13, <1>16 DEF FieldAt, ReadField
  <2> DEFINE wire == tag % 8
             end == CASE wire = WireVarint -> r.next
                      [] wire = 1 -> k + 8
                      [] wire = WireBytes -> r.next + r.value
                      [] wire = 5 -> k + 4
                      [] OTHER -> Len(s) + 2
  <2>2. /\ FieldWith(s, k, tag, r).number = tag \div 8
        /\ FieldWith(s, k, tag, r).next = end
    BY DEF FieldWith
  <2>3. wire = WireBytes /\ wire = 2 BY <1>1 DEF WireBytes
  <2> HIDE DEF wire
  <2>4. end = r.next + r.value BY <2>3 DEF WireVarint
  <2> HIDE DEF end
  <2> QED BY <1>1, <2>1, <2>2, <2>4
<1>18. x.next > Len(s) + 1 BY <1>10, <1>16, <1>17
<1>19. f[i] = IF FieldAt(s, i).next > Len(s) + 1 THEN Ended("failure")
              ELSE After(FieldAt(s, i), f[FieldAt(s, i).next])
  <2>1. i \in 1..Len(s) BY <1>10, <1>11
  <2>2. PICK j \in 1..Len(s) : j = i BY <2>1
  <2>3. TagAt(s, j) = [value |-> Tag(number, WireBytes), next |-> j + 1]
    BY <1>1, <1>12, <2>2
  <2>4. FieldAt(s, j).number = number BY <1>17, <2>2
  <2>5. f[j] = IF FieldAt(s, j).next > Len(s) + 1 THEN Ended("failure")
               ELSE After(FieldAt(s, j), f[FieldAt(s, j).next])
    BY <2>3, <2>4, OneField
  <2> QED BY ONLY <2>2, <2>5, Zenon
<1> QED BY <1>17, <1>18, <1>19, Zenon

\* x is the first phones of l.
Leads(x, l) == Len(x) <= Len(l) /\ \A k \in 1..Len(x) : x[k] = l[k]

LEMMA OkIsLimit ==
  ASSUME NEW s, Parse(s).ok
  PROVE  Fields(s).end = "limit"
<1>1. PICK m : m = Fields(s) OBVIOUS
<1>2. PICK bad : bad = FirstBad(m.fields, ReadablePhone) OBVIOUS
<1>3. Parse(s) = ListOf(m, bad) BY <1>1, <1>2 DEF Parse
<1>4. ListOf(m, bad).ok = (m.end = "limit" /\ bad = 0) BY DEF ListOf
<1>5. m.end = "limit" BY <1>3, <1>4
<1> QED BY <1>1, <1>5

LEMMA LeadsAppend ==
  ASSUME NEW y \in Seq(Phones), NEW p \in Phones
  PROVE  /\ Append(y, p) \in Seq(Phones)
         /\ Leads(y, Append(y, p))
         /\ \A x \in Seq(Phones) : Leads(x, y) => Leads(x, Append(y, p))
         /\ \A x \in Seq(Phones) :
              Leads(x, Append(y, p)) => Leads(x, y) \/ x = Append(y, p)
<1>1. PICK n \in Nat : n = Len(y) OBVIOUS
<1>2. PICK z \in Seq(Phones) : z = Append(y, p) BY AppendProperties
<1>3. Len(z) = n + 1 /\ z[n + 1] = p /\ \A k \in 1..n : z[k] = y[k]
  BY <1>1, <1>2, AppendProperties
<1>4. Leads(y, z) BY <1>1, <1>3 DEF Leads
<1>5. ASSUME NEW x \in Seq(Phones), Leads(x, y) PROVE Leads(x, z)
  <2>1. PICK m \in Nat : m = Len(x) OBVIOUS
  <2>2. m <= n /\ \A k \in 1..m : x[k] = y[k] BY <1>1, <1>5, <2>1 DEF Leads
  <2>3. \A k \in 1..m : k \in 1..n BY <2>2
  <2>4. \A k \in 1..m : x[k] = z[k] BY <1>3, <2>2, <2>3
  <2>5. m <= n + 1 BY <2>2
  <2> QED BY <1>3, <2>1, <2>4, <2>5 DEF Leads
<1>6. ASSUME NEW x \in Seq(Phones), Leads(x, z) PROVE Leads(x, y) \/ x = z
  <2>1. PICK m \in Nat : m = Len(x) OBVIOUS
  <2>2. m <= n + 1 /\ \A k \in 1..m : x[k] = z[k]
    BY <1>3, <1>6, <2>1 DEF Leads
  <2>3. CASE m = n + 1
    <3>1. Len(x) = Len(z) /\ \A k \in 1..Len(x) : x[k] = z[k]
      BY <1>3, <2>1, <2>2, <2>3
    <3> QED BY <3>1, SeqEqual
  <2>4. CASE m # n + 1
    <3>1. m <= n BY <2>2, <2>4
    <3>2. \A k \in 1..m : k \in 1..n BY <3>1
    <3>3. \A k \in 1..m : x[k] = y[k] BY <1>3, <2>2, <3>2
    <3> QED BY <1>1, <2>1, <3>1, <3>3 DEF Leads
  <2> QED BY <2>3, <2>4
<1> QED BY <1>2, <1>4, <1>5, <1>6

\* The first phones are written first.
LEMMA WrittenFirst ==
  ASSUME NEW x \in Seq(Phones), NEW l \in Seq(Phones), Leads(x, l)
  PROVE  Has(Serialize(l), 1, Serialize(x))
<1> DEFINE Yes(y) == Leads(x, y) => Has(Serialize(y), 1, Serialize(x))
           No == {m \in Nat : \E y \in Seq(Phones) : Len(y) = m /\ ~Yes(y)}
<1>1. No = {}
  <2> SUFFICES ASSUME No # {} PROVE FALSE OBVIOUS
  <2>0. No \subseteq Nat OBVIOUS
  <2> HIDE DEF No, Yes
  <2>1. PICK m \in No : \A j \in No : m <= j BY <2>0, HasLeast
  <2>2. PICK y \in Seq(Phones) : Len(y) = m /\ ~Yes(y) BY <2>1 DEF No
  <2>3. Leads(x, y) /\ ~Has(Serialize(y), 1, Serialize(x))
    BY <2>2 DEF Yes
  <2>4. PICK b \in Seq(Nat) : b = Serialize(x) BY SerializeType
  <2>5. x # y BY <2>3, <2>4, HasSelf
  <2>6. y # <<>>
    <3> SUFFICES ASSUME y = <<>> PROVE FALSE OBVIOUS
    <3>1. Len(x) = 0 BY <2>3 DEF Leads
    <3>2. x = <<>> BY <3>1
    <3> QED BY <2>5, <3>2
  <2>7. PICK z \in Seq(Phones), q \in Phones :
          y = Append(z, q) /\ Len(y) = Len(z) + 1
    BY <2>6, ListParts
  <2>8. Leads(x, z) BY <2>3, <2>5, <2>7, LeadsAppend
  <2>9. Len(z) \in Nat /\ ~(m <= Len(z)) BY <2>2, <2>7
  <2>10. Yes(z) BY <2>1, <2>9 DEF No
  <2>11. PICK a \in Seq(Nat) : a = Serialize(z) BY SerializeType
  <2>12. PICK w \in Seq(Nat) : w = WriteBytes(1, SerializePhone(q))
    BY PhoneBytes
  <2>13. PICK c \in Seq(Nat) : c = a \o w BY Joined
  <2>14. Serialize(y) = c BY <2>7, <2>11, <2>12, <2>13, SerializeAppend
  <2>15. Has(a, 1, b) BY <2>4, <2>8, <2>10, <2>11 DEF Yes
  <2>16. Has(c, 1, a) BY <2>13, HasFirst
  <2>17. Has(c, 1, b) BY <2>15, <2>16, HasTrans
  <2> QED BY <2>3, <2>4, <2>14, <2>17
<1>2. Len(l) \in Nat OBVIOUS
<1> QED BY <1>1, <1>2

\* What is left of a list that is cut off is read without an error only when it
\* was cut off between two phones.
LEMMA WholeOrCut ==
  ASSUME NEW s \in Seq(Nat), Parse(s).ok, NEW l \in Seq(Phones),
         Has(Serialize(l), 1, s)
  PROVE  \E x \in Seq(Phones) : Leads(x, l) /\ s = Serialize(x)
<1> DEFINE Yes(y) == Has(Serialize(y), 1, s)
                       => \E x \in Seq(Phones) : Leads(x, y) /\ s = Serialize(x)
           No == {m \in Nat : \E y \in Seq(Phones) : Len(y) = m /\ ~Yes(y)}
<1>1. No = {}
  <2> SUFFICES ASSUME No # {} PROVE FALSE OBVIOUS
  <2>0. No \subseteq Nat OBVIOUS
  <2> HIDE DEF No, Yes
  <2>1. PICK m \in No : \A j \in No : m <= j BY <2>0, HasLeast
  <2>2. PICK y \in Seq(Phones) : Len(y) = m /\ ~Yes(y) BY <2>1 DEF No
  <2>3. /\ Has(Serialize(y), 1, s)
        /\ ~\E x \in Seq(Phones) : Leads(x, y) /\ s = Serialize(x)
    BY <2>2 DEF Yes
  <2>4. s # Serialize(y)
    <3>1. Leads(y, y) BY DEF Leads
    <3> QED BY <2>3, <3>1
  <2>5. PICK n \in Nat : n = Len(s) OBVIOUS
  <2>6. y # <<>>
    <3> SUFFICES ASSUME y = <<>> PROVE FALSE OBVIOUS
    <3>1. Serialize(y) = <<>> BY SerializeEmpty
    <3>2. Len(Serialize(y)) = 0 BY <3>1
    <3>3. n = 0 BY <2>3, <2>5, <3>2 DEF Has
    <3>5. Len(s) = 0 BY <2>5, <3>3
    <3>4. s = <<>> BY <3>5
    <3> QED BY <2>4, <3>1, <3>4
  <2>7. PICK z \in Seq(Phones), q \in Phones :
          y = Append(z, q) /\ Len(y) = Len(z) + 1
    BY <2>6, ListParts
  <2>8. Len(z) \in Nat /\ ~(m <= Len(z)) BY <2>2, <2>7
  <2>9. Yes(z) BY <2>1, <2>8 DEF No
  <2>10. ~Has(Serialize(z), 1, s)
    <3> SUFFICES ASSUME Has(Serialize(z), 1, s) PROVE FALSE OBVIOUS
    <3>1. PICK x \in Seq(Phones) : Leads(x, z) /\ s = Serialize(x)
      BY <2>9 DEF Yes
    <3>2. Leads(x, y) BY <2>7, <3>1, LeadsAppend
    <3> QED BY <2>3, <3>1, <3>2
  <2>11. PICK a \in Seq(Nat) : a = Serialize(z) BY SerializeType
  <2>12. PICK v \in Seq(Nat) : v = SerializePhone(q) BY PhoneRead
  <2>13. PICK number \in 1..15 : number = 1 OBVIOUS
  <2>14. PICK w \in Seq(Nat) : w = WriteBytes(number, v)
    BY <2>12, <2>13, PhoneBytes
  <2>15. PICK c \in Seq(Nat) : c = a \o w BY Joined
  <2>16. Serialize(y) = c
    BY <2>7, <2>11, <2>12, <2>13, <2>14, <2>15, SerializeAppend
  <2>17. PICK la \in Nat : la = Len(a) OBVIOUS
  <2>18. PICK lw \in Nat : lw = Len(w) OBVIOUS
  <2>19. /\ Len(c) = la + lw
         /\ \A j \in 1..la : c[j] = a[j]
         /\ \A j \in 1..lw : c[la + j] = w[j]
    BY <2>15, <2>17, <2>18, Joined
  <2>20. n <= la + lw /\ \A j \in 1..n : c[j] = s[j]
    <3>1. Has(c, 1, s) BY <2>3, <2>16
    <3>2. \A j \in 1..n : (1 - 1) + j = j OBVIOUS
    <3> QED BY <2>5, <2>19, <3>1, <3>2 DEF Has
  <2>21. n > la
    <3> SUFFICES ASSUME n <= la PROVE FALSE OBVIOUS
    <3>1. \A j \in 1..n : j \in 1..la /\ (1 - 1) + j = j OBVIOUS
    <3>2. \A j \in 1..n : a[(1 - 1) + j] = s[j] BY <2>19, <2>20, <3>1
    <3>3. Has(a, 1, s) BY <2>5, <2>17, <3>2 DEF Has
    <3> QED BY <2>10, <2>11, <3>3
  <2>22. n < la + lw
    <3> SUFFICES ASSUME n = la + lw PROVE FALSE BY <2>20
    <3>1. Len(s) = Len(c) /\ \A j \in 1..Len(s) : s[j] = c[j]
      BY <2>5, <2>19, <2>20
    <3>2. s = c BY <3>1, SeqEqual
    <3> QED BY <2>4, <2>16, <3>2
  <2>23. PICK f : Reads(f, s, 1) /\ Fields(s) = f[1] BY FieldsRead
  <2>24. Has(s, 1, a)
    <3>1. \A j \in 1..la : j \in 1..n /\ (1 - 1) + j = j BY <2>21
    <3>2. \A j \in 1..la : s[(1 - 1) + j] = a[j] BY <2>19, <2>20, <3>1
    <3> QED BY <2>5, <2>17, <2>21, <3>2 DEF Has
  <2>25. PICK i \in Nat \ {0} : i = Len(Serialize(z)) + 1 /\ i = la + 1
    BY <2>11, <2>17
  <2>26. Begins(f, z, i) BY <2>11, <2>23, <2>24, <2>25, ListBegins
  <2>27. Within(s, i, WriteBytes(number, v))
    <3>1. i <= n /\ n + 1 < i + lw BY <2>21, <2>22, <2>25
    <3>2. ASSUME NEW j \in 1..((n + 1) - i) PROVE s[(i - 1) + j] = w[j]
      <4>0. i = la + 1 /\ n < la + lw BY <2>22, <2>25
      <4>1. la + j \in 1..n /\ j \in 1..lw /\ (i - 1) + j = la + j
        BY ONLY <4>0, la \in Nat, lw \in Nat, n \in Nat, j \in 1..((n + 1) - i)
      <4> QED BY <2>19, <2>20, <4>1
    <3> QED BY <2>5, <2>14, <2>18, <3>1, <3>2 DEF Within
  <2>28. f[i] = Ended("failure") BY <2>23, <2>27, CutFails
  <2>29. f[1].end = "failure"
    <3>1. PICK t \in Seq(AnyFields), r \in Seq(AnyFields), h \in Ends :
            /\ f[i] = [fields |-> r, end |-> h]
            /\ f[1] = [fields |-> t \o r, end |-> h]
      BY <2>26 DEF Begins
    <3>2. h = "failure"
      <4>1. [fields |-> r, end |-> h] = [fields |-> <<>>, end |-> "failure"]
        BY <2>28, <3>1, Zenon DEF Ended
      <4> QED BY ONLY <4>1
    <3>3. PICK u : u = t \o r OBVIOUS
    <3>4. PICK g : g = f[1] /\ g = [fields |-> u, end |-> h]
      BY <3>1, <3>3, Zenon
    <3>5. g.end = h BY ONLY <3>4
    <3> QED BY <3>2, <3>4, <3>5, Zenon
  <2>30. Fields(s).end = "limit" BY OkIsLimit
  <2> QED BY <2>23, <2>29, <2>30
<1>2. Len(l) \in Nat OBVIOUS
<1> QED BY <1>1, <1>2

-----------------------------------------------------------------------------
(* What is read when anything follows.                                        *)

LEMMA LeadsPrefix ==
  ASSUME NEW l \in Seq(Phones), NEW x, Leads(l, x)
  PROVE  IsPrefix(l, x)
<1>1. PICK n \in Nat : n = Len(l) OBVIOUS
<1>2. n <= Len(x) /\ \A k \in 1..n : l[k] = x[k] BY <1>1 DEF Leads
<1>3. PICK a \in Int : a = 1 OBVIOUS
<1>4. \A k \in a..n : l[k] \in Phones /\ x[k] \in Phones BY <1>1, <1>2, <1>3
<1>5. PICK v \in Seq(Phones) :
        /\ v = SubSeq(l, a, n)
        /\ Len(v) = IF a <= n THEN (n - a) + 1 ELSE 0
        /\ \A k \in 1..((n - a) + 1) : v[k] = l[(a + k) - 1]
  <2>1. /\ SubSeq(l, a, n) \in Seq(Phones)
        /\ Len(SubSeq(l, a, n)) = IF a <= n THEN (n - a) + 1 ELSE 0
        /\ \A k \in 1..((n - a) + 1) : SubSeq(l, a, n)[k] = l[(a + k) - 1]
    BY <1>4, SubSeqProperties
  <2> QED BY <2>1
<1>6. PICK w \in Seq(Phones) :
        /\ w = SubSeq(x, a, n)
        /\ Len(w) = IF a <= n THEN (n - a) + 1 ELSE 0
        /\ \A k \in 1..((n - a) + 1) : w[k] = x[(a + k) - 1]
  <2>1. /\ SubSeq(x, a, n) \in Seq(Phones)
        /\ Len(SubSeq(x, a, n)) = IF a <= n THEN (n - a) + 1 ELSE 0
        /\ \A k \in 1..((n - a) + 1) : SubSeq(x, a, n)[k] = x[(a + k) - 1]
    BY <1>4, SubSeqProperties
  <2> QED BY <2>1
<1>7. Len(v) = n /\ Len(w) = n /\ (n - a) + 1 = n BY <1>3, <1>5, <1>6
<1>8. \A k \in 1..n : v[k] = w[k]
  <2>1. \A k \in 1..n : (a + k) - 1 = k BY <1>3
  <2> QED BY <1>2, <1>5, <1>6, <1>7, <2>1
<1>9. v = w BY <1>7, <1>8, SeqEqual
<1>10. SubSeq(l, 1, n) = SubSeq(x, 1, n) BY <1>3, <1>5, <1>6, <1>9, Zenon
<1> QED BY <1>1, <1>2, <1>10 DEF IsPrefix

\* u begins with the fields that give l.
GivesFirst(u, l) ==
  /\ Len(l) <= Len(u)
  /\ \A k \in 1..Len(l) : /\ u[k].number = 1 /\ u[k].wire = WireBytes
                          /\ u[k].value = SerializePhone(l[k])

LEMMA PhonesFirst ==
  ASSUME NEW l \in Seq(Phones), NEW u \in Seq(AnyFields), GivesFirst(u, l)
  PROVE  Leads(l, FoldLeft(AddPhone, <<>>, u))
<1>1. PICK n \in Nat : n = Len(u) /\ DOMAIN u = 1..n OBVIOUS
<1>2. PICK m \in Nat : m = Len(l) /\ m <= n BY <1>1 DEF GivesFirst
<1> DEFINE Phone(k) == ParsePhone(u[k].value).phone
           Given == {Phone(k) : k \in 1..n}
<1>3. \A k \in 1..n : Phone(k) \in Given OBVIOUS
<1>4. \A v, k : AddPhone(v, u[k]) = Append(v, Phone(k)) \/ AddPhone(v, u[k]) = v
  BY DEF AddPhone
<1>5. ASSUME NEW k \in 1..m
      PROVE  Phone(k) = l[k] /\ \A v : AddPhone(v, u[k]) = Append(v, Phone(k))
  <2>1. /\ u[k].number = 1 /\ u[k].wire = WireBytes
        /\ u[k].value = SerializePhone(l[k])
    BY <1>2 DEF GivesFirst
  <2>2. l[k] \in Phones BY <1>2
  <2>3. ParsePhone(SerializePhone(l[k])) = [ok |-> TRUE, phone |-> l[k]]
    BY <2>2, PhoneRead
  <2>4. PICK r : r = ParsePhone(u[k].value) /\ r = [ok |-> TRUE, phone |-> l[k]]
    BY <2>1, <2>3, Zenon
  <2>5. r.phone = l[k] BY ONLY <2>4
  <2>6. Is(u[k], 1, WireBytes) BY <2>1 DEF Is
  <2>7. \A v : AddPhone(v, u[k]) = Append(v, ParsePhone(u[k].value).phone)
    BY <2>6, Zenon DEF AddPhone
  <2> QED BY <2>4, <2>5, <2>7, Zenon
<1> HIDE DEF Given, Phone
<1>6. PICK V : V = Seq(Given) OBVIOUS
<1>7. PICK b \in V : b = <<>>
  <2>1. <<>> \in Seq(Given) OBVIOUS
  <2> QED BY <1>6, <2>1
<1>8. ASSUME NEW v \in V, NEW k \in 1..n PROVE AddPhone(v, u[k]) \in V
  <2>1. v \in Seq(Given) /\ Phone(k) \in Given BY <1>3, <1>6
  <2>2. Append(v, Phone(k)) \in Seq(Given) BY <2>1, AppendProperties
  <2> QED BY <1>4, <1>6, <2>1, <2>2, Zenon
<1>9. PICK G : G = [k \in 1..n |-> [v \in V |-> AddPhone(v, u[k])]] OBVIOUS
<1>10. G \in [1..n -> [V -> V]] BY <1>8, <1>9
<1>11. PICK f \in [0..n -> V] : Follows(f, G, b, n)
  BY <1>10, FoldValues
<1>12. ASSUME NEW k \in 1..n PROVE f[k] = AddPhone(f[k - 1], u[k])
  <2>1. f[k - 1] \in V OBVIOUS
  <2>2. f[k] = G[k][f[k - 1]] BY <1>11 DEF Follows
  <2> QED BY <1>9, <2>1, <2>2
<1>13. f[0] = b BY <1>11 DEF Follows
<1>14. PhonesFold(f, u, n, b, V) BY <1>8, <1>12, <1>13 DEF PhonesFold
<1>15. FoldLeft(AddPhone, b, u) = f[n]
  BY ONLY n \in Nat, b \in V, <1>1, <1>14, FoldPhones
<1> DEFINE Yes(k) == /\ k <= m => Len(f[k]) = k
                     /\ k >= m => Len(f[k]) >= m
                     /\ \A j \in 1..m : j <= k => f[k][j] = l[j]
           No == {k \in 0..n : ~Yes(k)}
<1>16. No = {}
  <2> SUFFICES ASSUME No # {} PROVE FALSE OBVIOUS
  <2>0. No \subseteq Nat /\ No \subseteq 0..n OBVIOUS
  <2> HIDE DEF No, Yes
  <2>1. PICK k \in No : \A j \in No : k <= j BY <2>0, HasLeast
  <2>2. k \in 0..n /\ ~Yes(k) BY <2>0, <2>1 DEF No
  <2>3. k # 0
    <3> SUFFICES ASSUME k = 0 PROVE FALSE OBVIOUS
    <3>1. Len(f[0]) = 0 BY <1>7, <1>13
    <3>2. Yes(0) BY <3>1 DEF Yes
    <3> QED BY <2>2, <3>2
  <2>4. PICK i \in 0..n : i = k - 1 /\ i < k BY <2>2, <2>3
  <2>5. Yes(i) BY <2>1, <2>4 DEF No
  <2>6. PICK v \in Seq(Given) : v = f[i] BY <1>6
  <2>7. PICK p \in Given : p = Phone(k) BY <1>3, <2>2, <2>3
  <2>8. f[k] = AddPhone(v, u[k]) BY <1>12, <2>2, <2>3, <2>4, <2>6
  <2>9. PICK h \in Nat : h = Len(v) OBVIOUS
  <2>10. /\ i <= m => h = i
         /\ i >= m => h >= m
         /\ \A j \in 1..m : j <= i => v[j] = l[j]
    BY <2>5, <2>6, <2>9 DEF Yes
  <2>11. CASE f[k] = Append(v, p)
    <3>1. /\ Len(f[k]) = h + 1 /\ f[k][h + 1] = p
          /\ \A j \in 1..h : f[k][j] = v[j]
      BY <2>9, <2>11, AppendProperties
    <3>0. k = i + 1 /\ i \in Nat BY <2>2, <2>4
    <3>2. k <= m => Len(f[k]) = k
      <4>1. k <= m => h + 1 = k BY <2>10, <3>0
      <4> QED BY <3>1, <4>1
    <3>3. k >= m => Len(f[k]) >= m
      <4>1. k >= m => h + 1 >= m BY <2>10, <3>0
      <4> QED BY <3>1, <4>1
    <3>4. ASSUME NEW j \in 1..m, j <= k PROVE f[k][j] = l[j]
      <4>1. CASE j <= i
        <5>1. j \in 1..h BY <2>10, <4>1
        <5> QED BY <2>10, <3>1, <4>1, <5>1
      <4>2. CASE ~(j <= i)
        <5>1. j = k /\ h + 1 = k BY <2>10, <3>0, <3>4, <4>2
        <5>2. p = l[k] BY <1>5, <2>7, <5>1
        <5> QED BY <3>1, <5>1, <5>2
      <4> QED BY <4>1, <4>2
    <3>5. Yes(k) BY <3>2, <3>3, <3>4 DEF Yes
    <3> QED BY <2>2, <3>5
  <2>12. CASE f[k] # Append(v, p)
    <3>1. f[k] = v BY <1>4, <2>7, <2>8, <2>12
    <3>2. ~(k <= m)
      <4> SUFFICES ASSUME k <= m PROVE FALSE OBVIOUS
      <4>1. k \in 1..m BY <2>2, <2>3
      <4>2. AddPhone(v, u[k]) = Append(v, Phone(k)) BY <1>5, <4>1
      <4> QED BY <2>7, <2>8, <2>12, <4>2
    <3>3. i >= m BY <2>2, <2>4, <3>2
    <3>4. \A j \in 1..m : j <= i BY <3>3
    <3>5. Len(f[k]) >= m BY <2>9, <2>10, <3>1, <3>3
    <3>6. \A j \in 1..m : f[k][j] = l[j] BY <2>10, <3>1, <3>4
    <3>7. Yes(k) BY <3>2, <3>5, <3>6 DEF Yes
    <3> QED BY <2>2, <3>7
  <2> QED BY <2>11, <2>12
<1>17. Yes(n)
  <2>1. n \in 0..n OBVIOUS
  <2> HIDE DEF Yes
  <2> QED BY <1>16, <2>1
<1>18. m <= Len(f[n]) /\ \A j \in 1..m : l[j] = f[n][j]
  <2>1. \A j \in 1..m : j <= n BY <1>2
  <2> QED BY <1>2, <1>17, <2>1
<1>19. Leads(l, f[n]) BY <1>2, <1>18 DEF Leads
<1> QED BY <1>7, <1>15, <1>19

\* However the bytes of a list go on, and whether or not what follows can be
\* read, the phones of the list come first.
LEMMA ReadFirst ==
  ASSUME NEW s \in Seq(Nat), NEW l \in Seq(Phones), Has(s, 1, Serialize(l))
  PROVE  IsPrefix(l, Parse(s).list)
<1>1. PICK f : Reads(f, s, 1) /\ Fields(s) = f[1] BY FieldsRead
<1>2. PICK e : e = Len(Serialize(l)) + 1 OBVIOUS
<1>3. Begins(f, l, e) BY <1>1, <1>2, ListBegins
<1>4. PICK t \in Seq(AnyFields), r \in Seq(AnyFields), h \in Ends :
        Gives(t, l) /\ f[1] = [fields |-> t \o r, end |-> h]
  BY <1>3 DEF Begins
<1>5. PICK u \in Seq(AnyFields) : u = t \o r
  <2>1. t \o r \in Seq(AnyFields) BY ConcatProperties
  <2> QED BY <2>1
<1>6. PICK m : m = Fields(s) /\ m = [fields |-> u, end |-> h]
  BY <1>1, <1>4, <1>5, Zenon
<1>7. m.fields = u BY ONLY <1>6
<1>8. PICK n \in Nat : n = Len(l) OBVIOUS
<1>9. PICK k \in Nat : k = Len(u) OBVIOUS
<1>10. Len(t) = n BY <1>4, <1>8 DEF Gives
<1>11. n <= k /\ \A j \in 1..n : u[j] = t[j] BY <1>5, <1>9, <1>10
<1>12. \A j \in 1..n : u[j].number = 1 /\ u[j].wire = WireBytes
                       /\ u[j].value = SerializePhone(l[j])
  BY <1>4, <1>8, <1>11 DEF Gives
<1>13. GivesFirst(u, l) BY <1>8, <1>9, <1>11, <1>12 DEF GivesFirst
<1>14. \A j \in 1..n : ReadablePhone(u[j])
  <2>1. \A j \in 1..Len(t) : ReadablePhone(t[j]) BY <1>4, PhonesAdded
  <2> QED BY <1>10, <1>11, <2>1, Zenon
<1>15. PICK bad : bad = FirstBad(m.fields, ReadablePhone) OBVIOUS
<1>16. Parse(s) = ListOf(m, bad) BY <1>6, <1>15 DEF Parse
<1>17. ListOf(m, bad).list
         = FoldLeft(AddPhone, <<>>, IF bad = 0 THEN m.fields
                                    ELSE SubSeq(m.fields, 1, bad))
  BY DEF ListOf
<1>18. CASE bad = 0
  <2>1. ListOf(m, bad).list = FoldLeft(AddPhone, <<>>, u)
    BY <1>7, <1>17, <1>18, Zenon
  <2>2. Leads(l, FoldLeft(AddPhone, <<>>, u)) BY <1>13, PhonesFirst
  <2>3. Leads(l, Parse(s).list) BY <1>16, <2>1, <2>2, Zenon
  <2> QED BY <2>3, LeadsPrefix
<1>19. CASE bad # 0
  <2> DEFINE Bads == {j \in 1..Len(u) : ~ReadablePhone(u[j])}
  <2>1. bad = IF Bads # {} THEN Min(Bads) ELSE 0
    <3>1. FirstBad(u, ReadablePhone) = IF Bads # {} THEN Min(Bads) ELSE 0
      BY DEF FirstBad, SelectInSeq
    <3> HIDE DEF Bads
    <3> QED BY <1>7, <1>15, <3>1, Zenon
  <2>2. Bads \subseteq Nat /\ Bads \subseteq 1..k BY <1>9
  <2>3. \A j \in Bads : ~ReadablePhone(u[j]) OBVIOUS
  <2> HIDE DEF Bads
  <2>4. Bads # {} /\ bad = Min(Bads) BY <1>19, <2>1
  <2>5. PICK i \in Bads : \A j \in Bads : i <= j BY <2>2, <2>4, HasLeast
  <2>6. bad = i BY <2>2, <2>4, <2>5, LeastIsMin
  <2>7. i \in 1..k /\ ~(i \in 1..n) BY <1>14, <2>2, <2>3, <2>5
  <2>8. n < i /\ i \in Nat BY <2>7
  <2>9. PICK a \in Int : a = 1 OBVIOUS
  <2>10. \A j \in a..i : u[j] \in AnyFields
    <3>1. \A j \in a..i : j \in 1..k BY <2>7, <2>9
    <3> QED BY <1>9, <3>1
  <2>11. PICK w \in Seq(AnyFields) :
           /\ w = SubSeq(u, a, i)
           /\ Len(w) = IF a <= i THEN (i - a) + 1 ELSE 0
           /\ \A j \in 1..((i - a) + 1) : w[j] = u[(a + j) - 1]
    <3>1. /\ SubSeq(u, a, i) \in Seq(AnyFields)
          /\ Len(SubSeq(u, a, i)) = IF a <= i THEN (i - a) + 1 ELSE 0
          /\ \A j \in 1..((i - a) + 1) : SubSeq(u, a, i)[j] = u[(a + j) - 1]
      BY <2>8, <2>10, SubSeqProperties
    <3> QED BY <3>1
  <2>12. Len(w) = i /\ (i - a) + 1 = i BY <2>8, <2>9, <2>11
  <2>13. \A j \in 1..n : w[j] = u[j]
    <3>1. \A j \in 1..n : j \in 1..i /\ (a + j) - 1 = j BY <2>8, <2>9
    <3> QED BY <2>11, <2>12, <3>1
  <2>14. GivesFirst(w, l)
    <3>1. \A j \in 1..n : w[j].number = 1 /\ w[j].wire = WireBytes
                          /\ w[j].value = SerializePhone(l[j])
      BY <1>12, <2>13
    <3> QED BY <1>8, <2>8, <2>12, <3>1 DEF GivesFirst
  <2>15. ListOf(m, bad).list = FoldLeft(AddPhone, <<>>, w)
    <3>1. SubSeq(m.fields, 1, bad) = w BY <1>7, <2>6, <2>9, <2>11, Zenon
    <3> QED BY <1>17, <1>19, <3>1, Zenon
  <2>16. Leads(l, FoldLeft(AddPhone, <<>>, w)) BY <2>14, PhonesFirst
  <2>17. Leads(l, Parse(s).list) BY <1>16, <2>15, <2>16, Zenon
  <2> QED BY <2>17, LeadsPrefix
<1> QED BY <1>18, <1>19
=============================================================================
