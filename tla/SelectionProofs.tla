----------------------------- MODULE SelectionProofs ---------------------------
(***************************************************************************)
(* What the selector promises: which evidence an assessment is based on,   *)
(* for every candidate; that the objective is a strict total order on      *)
(* candidates with different links; and, over every set of candidates a    *)
(* request can list (Selection), that the loop finds its maximum.          *)
(***************************************************************************)
EXTENDS Selection, FiniteSetTheorems, NaturalsInduction, WellFoundedInduction, TLAPS

\* Every set of numbers has a least one.
LEMMA LeastOf ==
  ASSUME NEW S \in SUBSET Nat, S # {}
  PROVE  Min(S) \in S /\ \A y \in S : Min(S) <= y
  <1>1. PICK x \in S : \A y \in S : ~(<<y, x>> \in OpToRel(<, Nat))
    BY NatLessThanWellFounded, WFMin
  <1>2. \A y \in S : ~(y < x)
    BY <1>1, Zenon DEF OpToRel
  <1>3. \A y \in S : x <= y
    BY <1>2
  <1> QED BY <1>3 DEF Min

\* The first of the tests that holds decides: all before it have failed.
LEMMA FirstTestDecides ==
  ASSUME NEW c
  PROVE  LET verdict == Assess(c).verdict IN
         \/ verdict = "Eligible" /\ \A i \in 1..12 : ~Tests(c)[i][1]
         \/ \E i \in 1..12 : /\ verdict = Tests(c)[i][2] /\ Assess(c).reason = Tests(c)[i][3]
                             /\ Tests(c)[i][1] /\ \A j \in 1..(i - 1) : ~Tests(c)[j][1]
  <1> DEFINE hits == {i \in DOMAIN Tests(c) : Tests(c)[i][1]}
  <1>1. DOMAIN Tests(c) = 1..12
    BY DEF Tests
  <1>2. CASE hits = {}
    BY <1>1, <1>2 DEF Assess
  <1>3. CASE hits # {}
    <2>1. Min(hits) \in hits /\ \A y \in hits : Min(hits) <= y
      <3>1. hits \in SUBSET Nat
        BY <1>1
      <3> HIDE DEF hits
      <3> QED BY <1>3, <3>1, LeastOf
    <2> DEFINE m == Min(hits)
    <2>2. m \in 1..12 /\ Tests(c)[m][1]
      BY <1>1, <2>1
    <2>3. Assess(c).verdict = Tests(c)[m][2] /\ Assess(c).reason = Tests(c)[m][3]
      BY <1>3 DEF Assess
    <2>4. ASSUME NEW j \in 1..(m - 1) PROVE ~Tests(c)[j][1]
      <3>1. j \in 1..12 /\ ~(m <= j)
        <4> HIDE DEF m
        <4> QED BY <2>2
      <3> QED BY <1>1, <2>1, <3>1
    <2> HIDE DEF m
    <2> QED BY <2>2, <2>3, <2>4
  <1> QED BY <1>2, <1>3

\* The candidate is known, by evidence that counts, not to be an alternate.
Against(c) ==
    \/ c.link = Subject
    \/ /\ c.present /\ c.matched /\ ~c.conflicted
       /\ c.freshness \notin {"PriorIncarnation", "Expired", "Future"}
       /\ ~(c.confidence < MinConfidence)
       /\ \/ c.state \in {"Down", "Unusable"}
          \/ c.state = "Degraded" /\ ~AllowsDegraded
          \/ c.state # "Unknown" /\ (c.capacity < MinCapacity \/ (NeedsAdjacency /\ ~c.adjacent))

\* The candidate is known, by evidence that counts, to be one.
For(c) ==
    /\ c.link # Subject /\ c.present /\ c.matched /\ ~c.conflicted
    /\ c.freshness \notin {"PriorIncarnation", "Expired", "Future"}
    /\ ~(c.confidence < MinConfidence)
    /\ c.state \notin {"Unknown", "Down", "Unusable"} /\ (c.state = "Degraded" => AllowsDegraded)
    /\ ~(c.capacity < MinCapacity) /\ (NeedsAdjacency => c.adjacent)

\* assess_candidate is sound: it calls a candidate eligible or disproven only on
\* matching, agreeing, current evidence of the confidence required, and everything
\* else indeterminate.
THEOREM AssessmentSound ==
  ASSUME NEW c
  PROVE  /\ Assess(c).verdict \in {"Eligible", "Disproven", "Indeterminate"}
         /\ Assess(c).verdict = "Eligible" => For(c)
         /\ Assess(c).verdict = "Disproven" => Against(c) /\ reason_is_conclusive(Assess(c).reason)
  <1>1. CASE Assess(c).verdict = "Eligible" /\ \A i \in 1..12 : ~Tests(c)[i][1]
    <2>1. ~Tests(c)[1][1] /\ ~Tests(c)[2][1] /\ ~Tests(c)[3][1] /\ ~Tests(c)[4][1] /\ ~Tests(c)[5][1]
          /\ ~Tests(c)[6][1] /\ ~Tests(c)[7][1] /\ ~Tests(c)[8][1] /\ ~Tests(c)[9][1]
          /\ ~Tests(c)[10][1] /\ ~Tests(c)[11][1] /\ ~Tests(c)[12][1]
      BY <1>1
    <2> QED BY <1>1, <2>1 DEF Tests, For
  <1>2. ASSUME NEW i \in 1..12, Assess(c).verdict = Tests(c)[i][2], Assess(c).reason = Tests(c)[i][3],
               Tests(c)[i][1], \A j \in 1..(i - 1) : ~Tests(c)[j][1]
        PROVE  /\ Assess(c).verdict \in {"Disproven", "Indeterminate"}
               /\ Assess(c).verdict = "Disproven" => Against(c) /\ reason_is_conclusive(Assess(c).reason)
    <2>1. CASE i = 1
      <3>1. /\ Tests(c)[1][1] <=> c.link = Subject
            /\ Tests(c)[1][2] = "Disproven" /\ Tests(c)[1][3] = "ReplacementIsSubject"
        BY DEF Tests
      <3> QED BY <1>2, <2>1, <3>1 DEF Against, reason_is_conclusive
    <2>2. CASE i \in 2..8
      <3>1. \A n \in 2..8 : Tests(c)[n][2] = "Indeterminate"
        BY DEF Tests
      <3> QED BY <1>2, <2>2, <3>1
    <2>3. CASE i \in 9..12
      <3>1. ~Tests(c)[1][1] /\ ~Tests(c)[2][1] /\ ~Tests(c)[3][1] /\ ~Tests(c)[4][1] /\ ~Tests(c)[5][1]
            /\ ~Tests(c)[6][1] /\ ~Tests(c)[7][1] /\ ~Tests(c)[8][1]
        BY <1>2, <2>3
      <3>2. CASE i = 9
        BY <1>2, <3>1, <3>2 DEF Tests, Against, reason_is_conclusive
      <3>3. CASE i = 10
        BY <1>2, <3>1, <3>3 DEF Tests, Against, reason_is_conclusive
      <3>4. CASE i = 11
        BY <1>2, <3>1, <3>4 DEF Tests, Against, reason_is_conclusive
      <3>5. CASE i = 12
        BY <1>2, <3>1, <3>5 DEF Tests, Against, reason_is_conclusive
      <3> QED BY <2>3, <3>2, <3>3, <3>4, <3>5
    <2> QED BY <2>1, <2>2, <2>3
  <1> QED BY <1>1, <1>2, FirstTestDecides

--------------------------------------------------------------------------------
(* The objective *)

\* The keys are seven numbers, the last of them the link.
LEMMA KeyTyped ==
  ASSUME NEW c \in ResolvedCandidate
  PROVE  /\ DOMAIN ObjectiveKey(c) = 1..7 /\ \A i \in 1..7 : ObjectiveKey(c)[i] \in Int
         /\ ObjectiveKey(c)[7] = -c.link
  BY DEF ObjectiveKey, ResolvedCandidate

\* The first difference of two keys decides, and there is one.
LEMMA FirstDifference ==
  ASSUME NEW j, NEW k, DOMAIN j = 1..7, DOMAIN k = 1..7, j[7] # k[7]
  PROVE  \E i \in 1..7 : j[i] # k[i] /\ \A h \in 1..(i - 1) : j[h] = k[h]
  <1> DEFINE D == {i \in 1..7 : j[i] # k[i]}
  <1>1. D \in SUBSET Nat /\ D # {}
    OBVIOUS
  <1> DEFINE m == Min(D)
  <1>2. m \in D /\ \A y \in D : m <= y
    <2> HIDE DEF D
    <2> QED BY <1>1, LeastOf
  <1>3. m \in 1..7 /\ j[m] # k[m]
    BY <1>2
  <1>4. \A h \in 1..(m - 1) : j[h] = k[h]
    <2> TAKE h \in 1..(m - 1)
    <2>1. h \in 1..7 /\ ~(m <= h)
      <3> HIDE DEF m
      <3> QED BY <1>3
    <2> QED BY <1>2, <2>1
  <1> HIDE DEF m
  <1> QED BY <1>3, <1>4

\* Of two candidates with different links one is better, and not both.
LEMMA ObjectiveDecides ==
  ASSUME NEW a \in ResolvedCandidate, NEW b \in ResolvedCandidate, a.link # b.link
  PROVE  /\ objective_better(a, b) \/ objective_better(b, a)
         /\ ~(objective_better(a, b) /\ objective_better(b, a))
  <1> DEFINE j == ObjectiveKey(a)
             k == ObjectiveKey(b)
  <1>1. /\ DOMAIN j = 1..7 /\ \A i \in 1..7 : j[i] \in Int
        /\ DOMAIN k = 1..7 /\ \A i \in 1..7 : k[i] \in Int
    BY KeyTyped
  <1>2. j[7] # k[7]
    BY KeyTyped DEF ResolvedCandidate
  <1>3. /\ objective_better(a, b) <=> \E i \in 1..7 : j[i] > k[i] /\ \A h \in 1..(i - 1) : j[h] = k[h]
        /\ objective_better(b, a) <=> \E i \in 1..7 : k[i] > j[i] /\ \A h \in 1..(i - 1) : k[h] = j[h]
    BY <1>1 DEF objective_better
  <1> HIDE DEF j, k
  <1>4. PICK i \in 1..7 : j[i] # k[i] /\ \A h \in 1..(i - 1) : j[h] = k[h]
    BY <1>1, <1>2, FirstDifference
  <1>5. j[i] > k[i] \/ k[i] > j[i]
    BY <1>1, <1>4
  <1>6. objective_better(a, b) \/ objective_better(b, a)
    BY <1>3, <1>4, <1>5
  <1>7. ASSUME NEW x \in 1..7, j[x] > k[x], \A h \in 1..(x - 1) : j[h] = k[h],
               NEW y \in 1..7, k[y] > j[y], \A h \in 1..(y - 1) : k[h] = j[h]
        PROVE  FALSE
    <2>1. CASE x < y
      BY <1>1, <1>7, <2>1
    <2>2. CASE y < x
      BY <1>1, <1>7, <2>2
    <2>3. CASE x = y
      BY <1>1, <1>7, <2>3
    <2> QED BY <2>1, <2>2, <2>3
  <1> QED BY <1>3, <1>6, <1>7

\* No candidate is better than itself.
LEMMA ObjectiveIrreflexive ==
  ASSUME NEW c \in ResolvedCandidate
  PROVE  ~objective_better(c, c)
  <1> DEFINE k == ObjectiveKey(c)
  <1>1. DOMAIN k = 1..7 /\ \A i \in 1..7 : k[i] \in Int
    BY KeyTyped
  <1>2. objective_better(c, c) => \E i \in 1..7 : k[i] > k[i]
    BY <1>1 DEF objective_better
  <1> HIDE DEF k
  <1> QED BY <1>1, <1>2

\* Better than a better one is better.
LEMMA ObjectiveTransitive ==
  ASSUME NEW a \in ResolvedCandidate, NEW b \in ResolvedCandidate, NEW c \in ResolvedCandidate,
         objective_better(a, b), objective_better(b, c)
  PROVE  objective_better(a, c)
  <1> DEFINE j == ObjectiveKey(a)
             k == ObjectiveKey(b)
             l == ObjectiveKey(c)
  <1>1. /\ DOMAIN j = 1..7 /\ \A i \in 1..7 : j[i] \in Int
        /\ DOMAIN k = 1..7 /\ \A i \in 1..7 : k[i] \in Int
        /\ DOMAIN l = 1..7 /\ \A i \in 1..7 : l[i] \in Int
    BY KeyTyped
  <1>2. PICK x \in 1..7 : j[x] > k[x] /\ \A h \in 1..(x - 1) : j[h] = k[h]
    BY <1>1 DEF objective_better
  <1>3. PICK y \in 1..7 : k[y] > l[y] /\ \A h \in 1..(y - 1) : k[h] = l[h]
    BY <1>1 DEF objective_better
  <1> SUFFICES \E i \in 1..7 : j[i] > l[i] /\ \A h \in 1..(i - 1) : j[h] = l[h]
    BY <1>1 DEF objective_better
  <1> HIDE DEF j, k, l
  <1>4. CASE x <= y
    <2>1. j[x] > l[x]
      BY <1>1, <1>2, <1>3, <1>4
    <2>2. \A h \in 1..(x - 1) : j[h] = l[h]
      BY <1>2, <1>3, <1>4
    <2> QED BY <2>1, <2>2
  <1>5. CASE y < x
    <2>1. j[y] > l[y]
      BY <1>1, <1>2, <1>3, <1>5
    <2>2. \A h \in 1..(y - 1) : j[h] = l[h]
      BY <1>2, <1>3, <1>5
    <2> QED BY <2>1, <2>2
  <1> QED BY <1>4, <1>5

--------------------------------------------------------------------------------
(* The loop *)

\* Candidates with different links can be listed in link order, and the list has all
\* of them: a candidate's place is one more than the number of links before its own.
LEMMA ListedInOrder ==
  ASSUME NEW S \in SUBSET ResolvedCandidate, IsFiniteSet(S),
         \A a, b \in S : a # b => a.link # b.link
  PROVE  LET o == LinkOrder(S) IN
         /\ o \in [1..Cardinality(S) -> S]
         /\ \A c \in S : \E i \in 1..Cardinality(S) : o[i] = c
  <1> DEFINE n == Cardinality(S)
             Below(c) == {b \in S : b.link < c.link}
             r == [c \in S |-> Cardinality(Below(c)) + 1]
             Sorted(o) == \A i, j \in DOMAIN o : i < j => o[i].link < o[j].link
  <1>1. n \in Nat /\ \A c \in S : c.link \in Nat
    BY FS_CardinalityType DEF ResolvedCandidate
  <1>2. \A c \in S : Below(c) \in SUBSET S /\ IsFiniteSet(Below(c)) /\ Cardinality(Below(c)) \in Nat
    BY FS_Subset, FS_CardinalityType
  <1>3. ASSUME NEW c \in S PROVE Cardinality(Below(c)) < n
    <2>1. Below(c) # S
      BY <1>1
    <2>2. Cardinality(Below(c)) <= n /\ n # Cardinality(Below(c))
      BY <1>1, <1>2, <2>1, FS_Subset
    <2>3. Cardinality(Below(c)) \in Nat
      BY <1>2
    <2> HIDE DEF Below, n
    <2> QED BY <1>1, <2>2, <2>3
  <1>4. ASSUME NEW b \in S, NEW c \in S, b.link < c.link
        PROVE  Cardinality(Below(b)) < Cardinality(Below(c))
    <2>1. Below(b) \in SUBSET Below(c)
      BY <1>1, <1>4
    <2>2. Below(b) # Below(c)
      BY <1>1, <1>4
    <2>3. IsFiniteSet(Below(c)) /\ Cardinality(Below(c)) \in Nat /\ Cardinality(Below(b)) \in Nat
      BY <1>2
    <2> HIDE DEF Below
    <2>4. Cardinality(Below(b)) <= Cardinality(Below(c)) /\ Cardinality(Below(c)) # Cardinality(Below(b))
      BY <2>1, <2>2, <2>3, FS_Subset
    <2> QED BY <2>3, <2>4
  <1> HIDE DEF Below, n
  <1>5. r \in [S -> 1..n]
    <2>1. \A c \in S : Cardinality(Below(c)) + 1 \in 1..n
      BY <1>1, <1>2, <1>3
    <2> QED BY <2>1
  <1>6. \A b, c \in S : b.link < c.link => r[b] < r[c]
    BY <1>2, <1>4
  <1>7. \A c \in S : r[c] \in Nat
    BY <1>1, <1>5
  <1> HIDE DEF r
  <1>8. \A b, c \in S : (r[b] < r[c] => b.link < c.link) /\ (r[b] = r[c] => b = c)
    BY <1>1, <1>6, <1>7
  <1>9. \A i \in 1..n : \E c \in S : r[c] = i
    <2>1. r \in Injection(S, 1..n)
      BY <1>5, <1>8 DEF Injection, IsInjective
    <2>2. IsFiniteSet(1..n) /\ Cardinality(1..n) = n
      BY <1>1, FS_Interval
    <2>3. r \in Surjection(S, 1..n)
      BY <2>1, <2>2, FS_Injection DEF n
    <2> QED BY <2>3 DEF Surjection
  <1> DEFINE p == [i \in 1..n |-> CHOOSE c \in S : r[c] = i]
  <1>10. \A i \in 1..n : p[i] \in S /\ r[p[i]] = i
    BY <1>9
  <1>11. p \in [1..n -> S]
    BY <1>10
  <1>12. Sorted(p)
    BY <1>8, <1>10, <1>11
  <1> HIDE DEF p
  <1> DEFINE o == CHOOSE f \in [1..n -> S] : Sorted(f)
  <1>13. o \in [1..n -> S] /\ Sorted(o)
    BY <1>11, <1>12
  <1>14. LinkOrder(S) = o
    BY DEF LinkOrder, n
  <1> HIDE DEF o
  <1>15. o \in Injection(1..n, S)
    <2>1. \A i, j \in 1..n : i < j => o[i].link < o[j].link
      BY <1>13
    <2>2. \A i, j \in 1..n : o[i] = o[j] => i = j
      <3> SUFFICES ASSUME NEW i \in 1..n, NEW j \in 1..n, i < j PROVE o[i] # o[j]
        BY <1>1
      <3>1. o[i].link < o[j].link /\ o[i].link \in Nat
        BY <1>1, <1>13, <2>1
      <3> QED BY <3>1
    <2> QED BY <1>13, <2>2 DEF Injection, IsInjective
  <1>16. o \in Surjection(1..n, S)
    <2>1. IsFiniteSet(1..n) /\ Cardinality(1..n) = n
      BY <1>1, FS_Interval
    <2> QED BY <1>15, <2>1, FS_Injection DEF n
  <1>17. \A c \in S : \E i \in 1..n : o[i] = c
    BY <1>16 DEF Surjection
  <1> QED BY <1>13, <1>14, <1>17 DEF n

\* One turn of the loop over the list o, with what the turns before chose.
Turn(o, g, i) == IF i = 1 \/ objective_better(o[i], g[i - 1]) THEN o[i] ELSE g[i - 1]

\* The loop has a result: what its first turns choose does not depend on the later.
LEMMA TurnsExist ==
  ASSUME NEW S, NEW n \in Nat, NEW o \in [1..n -> S]
  PROVE  \E g \in [1..n -> S] : \A i \in 1..n : g[i] = Turn(o, g, i)
  <1> DEFINE Chosen(m) == \E g \in [1..m -> S] : \A i \in 1..m : g[i] = Turn(o, g, i)
             Bad == {m \in 0..n : ~Chosen(m)}
  <1> SUFFICES ASSUME Bad # {} PROVE FALSE
    BY DEF Bad
  <1>1. Bad \in SUBSET Nat
    OBVIOUS
  <1> DEFINE m == Min(Bad)
  <1>2. m \in Bad /\ \A y \in Bad : m <= y
    <2> HIDE DEF Bad
    <2> QED BY <1>1, LeastOf
  <1> HIDE DEF m
  <1>3. m \in 0..n /\ ~Chosen(m)
    BY <1>2
  <1>4. m # 0
    <2>1. [i \in 1..0 |-> o[i]] \in [1..0 -> S]
      OBVIOUS
    <2>2. \A i \in 1..0 : FALSE
      OBVIOUS
    <2>3. Chosen(0)
      BY <2>1, <2>2, Zenon
    <2> QED BY <1>3, <2>3
  <1>5. m - 1 \in 0..n /\ ~(m <= m - 1)
    BY <1>3, <1>4
  <1>6. Chosen(m - 1)
    BY <1>2, <1>5
  <1>7. PICK g \in [1..(m - 1) -> S] : \A i \in 1..(m - 1) : g[i] = Turn(o, g, i)
    BY <1>6
  <1> DEFINE h == [i \in 1..m |-> IF i = m THEN Turn(o, g, m) ELSE g[i]]
  <1>8. m \in 1..n /\ o[m] \in S /\ (m # 1 => g[m - 1] \in S)
    BY <1>3, <1>4, <1>7
  <1>9. Turn(o, g, m) \in S
    BY <1>8 DEF Turn
  <1>10. h \in [1..m -> S]
    BY <1>3, <1>8, <1>9
  <1>11. ASSUME NEW i \in 1..m PROVE h[i] = Turn(o, h, i)
    <2>1. i # 1 => i - 1 \in 1..(m - 1) /\ h[i - 1] = g[i - 1]
      BY <1>8
    <2>2. Turn(o, h, i) = Turn(o, g, i)
      BY <2>1 DEF Turn
    <2>3. h[i] = IF i = m THEN Turn(o, g, m) ELSE g[i]
      OBVIOUS
    <2>4. i # m => i \in 1..(m - 1)
      BY <1>8
    <2> HIDE DEF h
    <2> QED BY <1>7, <2>2, <2>3, <2>4
  <1> HIDE DEF h
  <1>12. Chosen(m)
    BY <1>10, <1>11
  <1> QED BY <1>3, <1>12

\* After every turn the choice is no worse than any candidate seen so far.
LEMMA TurnsKeepBest ==
  ASSUME NEW S \in SUBSET ResolvedCandidate, \A a, b \in S : a # b => a.link # b.link,
         NEW n \in Nat, NEW o \in [1..n -> S], NEW g \in [1..n -> S],
         \A i \in 1..n : g[i] = Turn(o, g, i)
  PROVE  \A i \in 1..n : \A j \in 1..i : ~objective_better(o[j], g[i])
  <1> DEFINE Good(m) == \A j \in 1..m : ~objective_better(o[j], g[m])
             Bad == {m \in 1..n : ~Good(m)}
  <1> SUFFICES ASSUME Bad # {} PROVE FALSE
    BY DEF Bad
  <1>1. Bad \in SUBSET Nat
    OBVIOUS
  <1> DEFINE m == Min(Bad)
  <1>2. m \in Bad /\ \A y \in Bad : m <= y
    <2> HIDE DEF Bad
    <2> QED BY <1>1, LeastOf
  <1> HIDE DEF m
  <1>3. m \in 1..n /\ ~Good(m)
    BY <1>2
  <1>4. \A i \in 1..n : o[i] \in ResolvedCandidate /\ g[i] \in ResolvedCandidate /\ o[i] \in S /\ g[i] \in S
    OBVIOUS
  <1>5. \A a \in ResolvedCandidate : ~objective_better(a, a)
    BY ObjectiveIrreflexive
  <1>6. \A a, b \in S : objective_better(a, b) => ~objective_better(b, a)
    BY <1>5, ObjectiveDecides
  <1>7. g[m] = o[m] \/ (m # 1 /\ g[m] = g[m - 1] /\ ~objective_better(o[m], g[m - 1]))
    BY <1>3 DEF Turn
  <1>8. ~objective_better(o[m], g[m])
    BY <1>3, <1>4, <1>5, <1>7
  <1>9. m # 1
    BY <1>3, <1>8
  <1>10. m - 1 \in 1..n /\ ~(m <= m - 1)
    BY <1>3, <1>9
  <1>11. Good(m - 1)
    BY <1>2, <1>10
  <1>12. PICK j \in 1..m : objective_better(o[j], g[m])
    BY <1>3
  <1>13. j \in 1..(m - 1) /\ j \in 1..n
    BY <1>3, <1>8, <1>12
  <1>14. ~objective_better(o[j], g[m - 1])
    BY <1>11, <1>13
  <1>15. g[m] = o[m] /\ objective_better(o[m], g[m - 1])
    BY <1>3, <1>7, <1>9, <1>12, <1>14 DEF Turn
  <1>16. objective_better(o[j], g[m - 1])
    BY <1>3, <1>4, <1>10, <1>12, <1>13, <1>15, ObjectiveTransitive
  <1> QED BY <1>14, <1>16

\* The loop finds one of the candidates, and none is better.
LEMMA ScanFindsBest ==
  ASSUME NEW S \in SUBSET ResolvedCandidate, IsFiniteSet(S), S # {},
         \A a, b \in S : a # b => a.link # b.link
  PROVE  Scan(S) \in S /\ \A c \in S : ~objective_better(c, Scan(S))
  <1> DEFINE n == Cardinality(S)
             o == LinkOrder(S)
             Is(g) == g = [i \in DOMAIN o |-> Turn(o, g, i)]
             best == CHOOSE g : Is(g)
  <1>1. n \in Nat /\ n # 0
    BY FS_CardinalityType, FS_EmptySet
  <1>2. o \in [1..n -> S] /\ \A c \in S : \E i \in 1..n : o[i] = c
    BY ListedInOrder
  <1>3. Scan(S) = best[n]
    BY DEF Scan, Turn
  <1> HIDE DEF n, o
  <1>4. PICK g \in [1..n -> S] : \A i \in 1..n : g[i] = Turn(o, g, i)
    BY <1>1, <1>2, TurnsExist
  <1>5. Is(g)
    BY <1>2, <1>4
  <1>6. Is(best)
    BY <1>5
  <1> HIDE DEF best
  <1>7. DOMAIN best = 1..n /\ \A i \in 1..n : best[i] = Turn(o, best, i)
    BY <1>2, <1>6
  <1>8. best \in [1..n -> S]
    <2> DEFINE Bad == {m \in 1..n : best[m] \notin S}
    <2> SUFFICES ASSUME Bad # {} PROVE FALSE
      BY <1>6, <1>7
    <2>1. Bad \in SUBSET Nat
      OBVIOUS
    <2> DEFINE m == Min(Bad)
    <2>2. m \in Bad /\ \A y \in Bad : m <= y
      <3> HIDE DEF Bad
      <3> QED BY <2>1, LeastOf
    <2> HIDE DEF m
    <2>3. m \in 1..n /\ best[m] \notin S
      BY <2>2
    <2>4. m # 1 => m - 1 \in 1..n /\ ~(m <= m - 1)
      BY <1>1, <2>3
    <2>5. m # 1 => best[m - 1] \in S
      BY <2>2, <2>4
    <2> QED BY <1>2, <1>7, <2>3, <2>5 DEF Turn
  <1>9. \A i \in 1..n : \A j \in 1..i : ~objective_better(o[j], best[i])
    BY <1>1, <1>2, <1>7, <1>8, TurnsKeepBest
  <1>10. n \in 1..n
    BY <1>1
  <1> QED BY <1>2, <1>3, <1>8, <1>9, <1>10

--------------------------------------------------------------------------------
(* The requests *)

\* The engine resolves candidates, no two of them with the same link.
SelectionInv ==
    /\ offered \subseteq ResolvedCandidate /\ IsFiniteSet(offered)
    /\ \A a, b \in offered : a # b => a.link # b.link

\* The candidates are as the assessment made them, throughout.
LEMMA SelectionInvHolds == SelectionSpec => []SelectionInv
  <1>1. SelectionInit => SelectionInv
    BY FS_EmptySet DEF SelectionInit, SelectionInv
  <1>2. SelectionInv /\ [SelectionNext]_offered => SelectionInv'
    BY CandidatesAssumption, FS_AddElement DEF SelectionInv, SelectionNext, Offer
  <1> QED BY <1>1, <1>2, PTL DEF SelectionSpec

\* On the candidates of any request the objective is a strict total order
\* (objective_better), so that the maximum is unique whatever order they came in.
THEOREM ObjectiveIsTotal == SelectionSpec => []ObjectiveTotal
  <1>1. SelectionInv => ObjectiveTotal
    <2> SUFFICES ASSUME SelectionInv PROVE ObjectiveTotal
      OBVIOUS
    <2>1. ASSUME NEW a \in offered, NEW b \in offered, a # b
          PROVE  /\ objective_better(a, b) \/ objective_better(b, a)
                 /\ ~(objective_better(a, b) /\ objective_better(b, a))
      BY <2>1, ObjectiveDecides DEF SelectionInv
    <2>2. ASSUME NEW a \in offered, NEW b \in offered, NEW c \in offered,
                 objective_better(a, b), objective_better(b, c)
          PROVE  objective_better(a, c)
      BY <2>2, ObjectiveTransitive DEF SelectionInv
    <2> QED BY <2>1, <2>2 DEF ObjectiveTotal
  <1> QED BY SelectionInvHolds, <1>1, PTL

\* ProvenInfeasible is answered only with current evidence against every alternate
\* (select_replacement and assess_candidate).
THEOREM InfeasibleIsCertified == SelectionSpec => []InfeasibleCertified
  <1>1. SelectionInv => InfeasibleCertified
    <2> SUFFICES ASSUME SelectionInv, select_replacement(offered).status = "ProvenInfeasible",
                        NEW c \in offered
                 PROVE  RuledOut(c)
      BY DEF InfeasibleCertified
    <2>1. Assess(c).verdict \notin {"Eligible", "Indeterminate"}
      BY DEF select_replacement
    <2>2. Against(c)
      BY <2>1, AssessmentSound
    <2>3. c \in ResolvedCandidate
      BY DEF SelectionInv
    <2>4. c.freshness \in Freshness /\ c.confidence \in Nat
      BY <2>3 DEF ResolvedCandidate
    <2> QED BY <2>2, <2>4, SelectorAssumption DEF Against, RuledOut, Freshness
  <1> QED BY SelectionInvHolds, <1>1, PTL

\* What select_replacement answers passes the engine's own check (validate_selection),
\* for every request of any length: the loop's choice is eligible and none of the
\* eligible is better, and every other answer has the verdicts it needs.
THEOREM SelectionIsValidated == SelectionSpec => []SelectionValidated
  <1>1. SelectionInv => SelectionValidated
    <2> SUFFICES ASSUME SelectionInv PROVE SelectionValidated
      OBVIOUS
    <2> DEFINE with(v) == {c \in offered : Assess(c).verdict = v}
               outcome == select_replacement(offered)
    <2>1. \A c \in offered :
             /\ Assess(c).verdict \in {"Eligible", "Disproven", "Indeterminate"}
             /\ Assess(c).verdict = "Eligible" => c.link # Subject
             /\ Assess(c).verdict = "Disproven" => reason_is_conclusive(Assess(c).reason)
      BY AssessmentSound DEF For
    <2>2. \/ outcome = [status |-> "EmptyCandidateSet", chosen |-> {}] /\ offered = {}
          \/ outcome = [status |-> "Selected", chosen |-> {Scan(with("Eligible"))}] /\ with("Eligible") # {}
          \/ /\ outcome = [status |-> "ProvenInfeasible", chosen |-> {}]
             /\ with("Eligible") = {} /\ with("Indeterminate") = {}
          \/ outcome = [status |-> "Indeterminate", chosen |-> {}] /\ with("Eligible") = {}
      BY DEF select_replacement
    <2>3. ASSUME with("Eligible") # {}
          PROVE  /\ Scan(with("Eligible")) \in with("Eligible")
                 /\ \A c \in with("Eligible") : ~objective_better(c, Scan(with("Eligible")))
      <3>1. /\ with("Eligible") \in SUBSET ResolvedCandidate /\ IsFiniteSet(with("Eligible"))
            /\ \A a, b \in with("Eligible") : a # b => a.link # b.link
        BY FS_Subset DEF SelectionInv
      <3> HIDE DEF with
      <3> QED BY <2>3, <3>1, ScanFindsBest
    <2> DEFINE s == Scan(with("Eligible"))
    <2>4. with("Eligible") # {} => /\ s \in offered /\ Assess(s).verdict = "Eligible" /\ s.link # Subject
                                   /\ \A c \in offered : Assess(c).verdict = "Eligible" => ~objective_better(c, s)
      BY <2>1, <2>3
    <2> HIDE DEF s, outcome
    <2>5. /\ outcome.status = "EmptyCandidateSet" => offered = {}
          /\ outcome.status = "ProvenInfeasible" => \A c \in offered : Assess(c).verdict = "Disproven"
          /\ outcome.status = "Indeterminate" => \A c \in offered : Assess(c).verdict # "Eligible"
      BY <2>1, <2>2
    <2>6. outcome.status = "Selected" => s \in outcome.chosen /\ with("Eligible") # {}
      BY <2>2 DEF s
    <2> HIDE DEF with
    <2> QED BY <2>1, <2>4, <2>5, <2>6 DEF SelectionValidated, validate_selection, outcome
  <1> QED BY SelectionInvHolds, <1>1, PTL

=============================================================================
