--------------------------- MODULE AlbRulesProofs ---------------------------
(***************************************************************************)
(* The rules of the load balancer, for any applications, paths, hosts,     *)
(* secrets, limit of rules, updates and failing calls.                     *)
(*                                                                         *)
(* A step makes its calls one by one and may break off between any two.    *)
(* The invariant speaks of two tables: of the rules as they are, and of    *)
(* what they come to when the calls of the step are made.                  *)
(***************************************************************************)
EXTENDS AlbRules, FiniteSetTheorems, SequenceTheorems, TLAPS

-----------------------------------------------------------------------------
(* Priorities and sequences.                                               *)

LEMMA IntervalSize ==
    ASSUME NEW a \in Int, NEW b \in Int, a <= b + 1
    PROVE  IsFiniteSet(a..b) /\ Cardinality(a..b) = b - a + 1
<1>1. IsFiniteSet(a..b) /\ Cardinality(a..b) = IF a > b THEN 0 ELSE b - a + 1
  BY FS_Interval
<1>. QED BY <1>1

LEMMA Priorities ==
    /\ Cardinality(AppId) \in Nat
    /\ IsFiniteSet(Priority) /\ Priority \subseteq Nat \ {0}
    /\ 1..4 \subseteq Priority
    /\ AppPriority \subseteq Priority /\ Priority = (1..4) \cup AppPriority
    /\ (1..4) \cap AppPriority = {}
    /\ IsFiniteSet(AppPriority) /\ Cardinality(AppPriority) = 2 * Cardinality(AppId)
<1>1. Cardinality(AppId) \in Nat BY AlbRulesAssumption, FS_CardinalityType
<1>2. IsFiniteSet(Priority) /\ Cardinality(Priority) = 4 + 2 * Cardinality(AppId)
  BY <1>1, FS_Interval, SMTT(30) DEF Priority
<1>3. AppPriority = 5..(4 + 2 * Cardinality(AppId)) BY <1>1 DEF AppPriority, Priority
<1>4. /\ IsFiniteSet(AppPriority)
      /\ Cardinality(AppPriority) = 2 * Cardinality(AppId)
  <2>. DEFINE b == 4 + 2 * Cardinality(AppId)
  <2>1. b \in Int /\ b = 4 + 2 * Cardinality(AppId) BY <1>1
  <2>2. AppPriority = 5..b BY <1>3
  <2>. HIDE DEF b
  <2>. DEFINE a == 5
  <2>3. a \in Int /\ b \in Int /\ a <= b + 1 BY <1>1, <2>1
  <2>. HIDE DEF a
  <2>4. IsFiniteSet(a..b) /\ Cardinality(a..b) = b - a + 1 BY ONLY <2>3, IntervalSize
  <2>. USE DEF a
  <2>. QED BY <1>1, <2>1, <2>2, <2>4
<1>5. /\ Priority \subseteq Nat \ {0} /\ 1..4 \subseteq Priority
      /\ Priority = (1..4) \cup AppPriority
  BY <1>1 DEF AppPriority, Priority
<1>. QED BY <1>1, <1>2, <1>4, <1>5 DEF AppPriority

\* SetToSeq lists every element of a finite set once.
LEMMA SeqOfSet ==
    ASSUME NEW S, IsFiniteSet(S)
    PROVE  /\ Cardinality(S) \in Nat
           /\ SetToSeq(S) \in [1..Cardinality(S) -> S]
           /\ \A i, j \in 1..Cardinality(S) : SetToSeq(S)[i] = SetToSeq(S)[j] => i = j
           /\ \A x \in S : \E i \in 1..Cardinality(S) : SetToSeq(S)[i] = x
<1>. DEFINE n == Cardinality(S)
            s == SetToSeq(S)
<1>1. n \in Nat /\ ExistsBijection(1..n, S) BY FS_CardinalityType
<1>2. \E f \in [1..n -> S] : IsInjective(f)
  BY <1>1 DEF ExistsBijection, Bijection, Injection
<1>3. s \in [1..n -> S] /\ IsInjective(s)
  BY <1>2 DEF SetToSeq
<1>4. s \in Injection(1..n, S) BY <1>3 DEF Injection
<1>5. Cardinality(1..n) = n /\ IsFiniteSet(1..n) BY <1>1, FS_Interval
<1>6. s \in Surjection(1..n, S) BY <1>4, <1>5, FS_Injection
<1>. QED BY <1>1, <1>3, <1>6 DEF IsInjective, Surjection

\* So does InOrder: the number of elements below one is an injection of the set
\* into as many numbers as it has elements.
LEMMA InOrderLists ==
    ASSUME NEW S, IsFiniteSet(S), S \subseteq Nat
    PROVE  /\ Cardinality(S) \in Nat
           /\ InOrder(S) \in [1..Cardinality(S) -> S]
           /\ \A i, j \in 1..Cardinality(S) : InOrder(S)[i] = InOrder(S)[j] => i = j
           /\ \A n \in S : \E i \in 1..Cardinality(S) : InOrder(S)[i] = n
<1>. DEFINE c == Cardinality(S)
            Below(n) == {m \in S : m < n}
            rank == [n \in S |-> Cardinality(Below(n))]
<1>1. c \in Nat BY FS_CardinalityType
<1>2. ASSUME NEW n \in S
      PROVE  IsFiniteSet(Below(n)) /\ Cardinality(Below(n)) \in 0..(c - 1)
  <2>1. Below(n) \in SUBSET S /\ n \notin Below(n) BY <1>2
  <2>2. IsFiniteSet(Below(n)) /\ Cardinality(Below(n)) <= c /\ Cardinality(Below(n)) # c
    BY <2>1, FS_Subset
  <2>3. Cardinality(Below(n)) \in Nat BY <2>2, FS_CardinalityType
  <2>. QED BY <1>1, <2>2, <2>3
<1>3. ASSUME NEW m \in S, NEW n \in S, m < n
      PROVE  Cardinality(Below(m)) # Cardinality(Below(n))
  <2>1. m \in Nat /\ n \in Nat OBVIOUS
  <2>2. \A l \in S : l < m => l < n BY <1>3, <2>1
  <2>3. Below(m) \in SUBSET Below(n) BY <2>2
  <2>4. m \in Below(n) /\ m \notin Below(m) BY <1>3, <2>1
  <2>. QED BY <2>3, <2>4, <1>2, FS_Subset
<1>4. rank \in Injection(S, 0..(c - 1))
  <2>. HIDE DEF Below
  <2>1. rank \in [S -> 0..(c - 1)] BY <1>2
  <2>2. ASSUME NEW m \in S, NEW n \in S, rank[m] = rank[n] PROVE m = n
    <3>1. m \in Int /\ n \in Int OBVIOUS
    <3>2. Cardinality(Below(m)) = Cardinality(Below(n)) BY <2>2
    <3>. QED BY <3>1, <3>2, <1>3
  <2>. QED BY <2>1, <2>2 DEF Injection, IsInjective
<1>5. IsFiniteSet(0..(c - 1)) /\ Cardinality(0..(c - 1)) = c
  <2>. HIDE DEF c
  <2>1. IsFiniteSet(0..(c - 1)) /\ Cardinality(0..(c - 1)) = c - 1 - 0 + 1
    BY <1>1, IntervalSize
  <2>. QED BY <1>1, <2>1
<1>6. rank \in Surjection(S, 0..(c - 1))
  <2>. HIDE DEF rank, c
  <2>. QED BY <1>4, <1>5, FS_Injection DEF c
<1>7. ASSUME NEW i \in 1..c PROVE \E n \in S : Cardinality(Below(n)) = i - 1
  <2>1. i - 1 \in 0..(c - 1) BY <1>1
  <2>2. PICK n \in S : rank[n] = i - 1
    <3>. HIDE DEF rank, c
    <3>. QED BY <2>1, <1>6 DEF Surjection
  <2>. QED BY <2>2
<1>8. \A i \in 1..c : InOrder(S)[i] \in S /\ Cardinality(Below(InOrder(S)[i])) = i - 1
  BY <1>7 DEF InOrder
<1>9. InOrder(S) \in [1..c -> S] BY <1>8 DEF InOrder
<1>10. \A i, j \in 1..c : InOrder(S)[i] = InOrder(S)[j] => i = j
  <2>. HIDE DEF Below
  <2>. QED BY <1>1, <1>8
<1>11. ASSUME NEW n \in S PROVE \E i \in 1..c : InOrder(S)[i] = n
  <2>. DEFINE i == Cardinality(Below(n)) + 1
  <2>1. i \in 1..c BY <1>1, <1>2
  <2>2. Cardinality(Below(InOrder(S)[i])) = Cardinality(Below(n)) /\ InOrder(S)[i] \in S
    <3>. HIDE DEF Below
    <3>. QED BY <1>1, <1>2, <1>8, <2>1
  <2>3. InOrder(S)[i] = n
    <3>1. rank[InOrder(S)[i]] = rank[n]
      <4>. HIDE DEF Below, i
      <4>. QED BY <2>2
    <3>. HIDE DEF i, rank
    <3>. QED BY <3>1, <2>2, <1>4 DEF Injection, IsInjective
  <2>. QED BY <2>1, <2>3
<1>. QED BY <1>1, <1>9, <1>10, <1>11

-----------------------------------------------------------------------------
(* The calls of a step, and what they make of the rules.                   *)

\* No two calls of s are for one priority.
Apart(s) == \A i, j \in 1..Len(s) : s[i].at = s[j].at => i = j

\* The table that t becomes by the calls of s.
Made(s, t) ==
    [n \in Priority |-> IF \E i \in 1..Len(s) : s[i].at = n
                        THEN s[CHOOSE i \in 1..Len(s) : s[i].at = n].rule
                        ELSE t[n]]

\* The calls of s are of one kind, one for each priority of S, and give it the
\* rule of q.
Plan(s, kind, S, q) ==
    /\ s \in Seq(Call) /\ Apart(s)
    /\ \A i \in 1..Len(s) : s[i] = [do |-> kind, at |-> s[i].at, rule |-> q[s[i].at]]
                            /\ s[i].at \in S
    /\ \A n \in S : \E i \in 1..Len(s) : s[i].at = n

Kinds == {"create", "modify", "delete"}

LEMMA SameTable ==
    ASSUME NEW t \in [Priority -> Rule], NEW u \in [Priority -> Rule],
           \A n \in Priority : t[n] = u[n]
    PROVE  t = u
OBVIOUS

LEMMA MadeAt ==
    ASSUME NEW s \in Seq(Call), NEW t \in [Priority -> Rule], Apart(s)
    PROVE  /\ Made(s, t) \in [Priority -> Rule]
           /\ \A i \in 1..Len(s) : Made(s, t)[s[i].at] = s[i].rule
           /\ \A n \in Priority : (\A i \in 1..Len(s) : s[i].at # n) => Made(s, t)[n] = t[n]
<1>1. \A i \in 1..Len(s) : s[i] \in Call BY ElementOfSeq
<1>2. ASSUME NEW i \in 1..Len(s) PROVE s[i].at \in Priority /\ s[i].rule \in Rule
  BY <1>1 DEF Call
<1>3. ASSUME NEW n \in Priority PROVE Made(s, t)[n] \in Rule
  <2>1. CASE \E i \in 1..Len(s) : s[i].at = n
    <3>. DEFINE j == CHOOSE i \in 1..Len(s) : s[i].at = n
    <3>1. j \in 1..Len(s) BY <2>1
    <3>2. Made(s, t)[n] = s[j].rule BY <2>1 DEF Made
    <3>. QED BY <3>1, <3>2, <1>2
  <2>2. CASE \A i \in 1..Len(s) : s[i].at # n BY <2>2 DEF Made
  <2>. QED BY <2>1, <2>2
<1>4. ASSUME NEW i \in 1..Len(s) PROVE Made(s, t)[s[i].at] = s[i].rule
  <2>. DEFINE j == CHOOSE k \in 1..Len(s) : s[k].at = s[i].at
  <2>1. j \in 1..Len(s) /\ s[j].at = s[i].at OBVIOUS
  <2>2. j = i BY <2>1 DEF Apart
  <2>3. Made(s, t)[s[i].at] = s[j].rule BY <1>2 DEF Made
  <2>. QED BY <2>2, <2>3
<1>5. Made(s, t) \in [Priority -> Rule] BY <1>3 DEF Made
<1>. QED BY <1>4, <1>5 DEF Made

LEMMA MadeNone ==
    ASSUME NEW t \in [Priority -> Rule]
    PROVE  Made(<< >>, t) = t /\ Apart(<< >>)
BY DEF Made, Apart

\* When the first call has been made, the rest leads to the same table.
LEMMA MadeFirst ==
    ASSUME NEW s \in Seq(Call), NEW t \in [Priority -> Rule], Apart(s), s # << >>,
           NEW u, u = [t EXCEPT ![Head(s).at] = Head(s).rule]
    PROVE  /\ Head(s) \in Call /\ Head(s) = s[1]
           /\ Tail(s) \in Seq(Call) /\ Apart(Tail(s))
           /\ u \in [Priority -> Rule]
           /\ \A n \in Priority : u[n] = IF n = Head(s).at THEN Made(s, t)[n] ELSE t[n]
           /\ Made(Tail(s), u) = Made(s, t)
           /\ \A i \in 1..Len(Tail(s)) : /\ i + 1 \in 1..Len(s) /\ Tail(s)[i] = s[i + 1]
                                         /\ Tail(s)[i].at # Head(s).at
<1>. DEFINE c == Head(s)
            r == Tail(s)
<1>1. /\ c \in Call /\ c = s[1] /\ Len(s) \in Nat /\ Len(s) > 0
      /\ r \in Seq(Call) /\ Len(r) = Len(s) - 1
      /\ \A i \in 1..Len(r) : r[i] = s[i + 1]
  BY HeadTailProperties
<1>2. 1 \in 1..Len(s) /\ \A i \in 1..Len(r) : i + 1 \in 1..Len(s) BY <1>1
<1>3. c.at \in Priority /\ c.rule \in Rule BY <1>1 DEF Call
<1>4. u \in [Priority -> Rule] /\ \A n \in Priority : u[n] = IF n = c.at THEN c.rule ELSE t[n]
  BY <1>3
<1>5. \A i \in 1..Len(r) : r[i].at # c.at
  <2>1. ASSUME NEW i \in 1..Len(r) PROVE i + 1 # 1 BY <1>1
  <2>. QED BY <2>1, <1>1, <1>2 DEF Apart
<1>6. Apart(r)
  <2>. SUFFICES ASSUME NEW i \in 1..Len(r), NEW j \in 1..Len(r), r[i].at = r[j].at
                PROVE  i = j
    BY DEF Apart
  <2>1. i + 1 = j + 1 BY <1>1, <1>2 DEF Apart
  <2>. QED BY <2>1, <1>1
<1>7. Made(s, t)[c.at] = c.rule BY <1>1, <1>2, MadeAt
<1>8. Made(s, t) \in [Priority -> Rule] /\ Made(r, u) \in [Priority -> Rule]
  BY <1>1, <1>4, <1>6, MadeAt
<1>9. ASSUME NEW n \in Priority PROVE Made(r, u)[n] = Made(s, t)[n]
  <2>1. CASE \E i \in 1..Len(r) : r[i].at = n
    <3>1. PICK i \in 1..Len(r) : r[i].at = n BY <2>1
    <3>2. Made(r, u)[n] = r[i].rule
      <4>. HIDE DEF r
      <4>1. r \in Seq(Call) /\ u \in [Priority -> Rule] /\ Apart(r) BY <1>1, <1>4, <1>6
      <4>2. \A j \in 1..Len(r) : Made(r, u)[r[j].at] = r[j].rule BY ONLY <4>1, MadeAt
      <4>. QED BY <4>2, <3>1
    <3>3. Made(s, t)[s[i + 1].at] = s[i + 1].rule BY <1>2, MadeAt
    <3>. QED BY <3>1, <3>2, <3>3, <1>1
  <2>2. CASE n = c.at
    <3>1. Made(r, u)[n] = u[n] BY <2>2, <1>5, <1>1, <1>4, <1>6, MadeAt, ZenonT(60)
    <3>. QED BY <2>2, <3>1, <1>4, <1>7
  <2>3. CASE n # c.at /\ \A i \in 1..Len(r) : r[i].at # n
    <3>1. Made(r, u)[n] = t[n] BY <2>3, <1>1, <1>4, <1>6, MadeAt, ZenonT(60)
    <3>2. ASSUME NEW i \in 1..Len(s) PROVE s[i].at # n
      <4>1. CASE i = 1 BY <4>1, <2>3, <1>1
      <4>2. CASE i # 1
        <5>1. i - 1 \in 1..Len(r) /\ (i - 1) + 1 = i BY <4>2, <1>1
        <5>2. r[i - 1] = s[i] BY <5>1, <1>1
        <5>. QED BY <5>1, <5>2, <2>3
      <4>. QED BY <4>1, <4>2
    <3>3. Made(s, t)[n] = t[n] BY <3>2, MadeAt
    <3>. QED BY <3>1, <3>3
  <2>. QED BY <2>1, <2>2, <2>3
<1>10. Made(r, u) = Made(s, t)
  <2>. HIDE DEF r
  <2>. QED BY <1>8, <1>9, SameTable
<1>. QED BY <1>1, <1>2, <1>4, <1>5, <1>6, <1>7, <1>10

LEMMA MadePlan ==
    ASSUME NEW s, NEW kind \in Kinds, NEW S \in SUBSET Priority, NEW q, Plan(s, kind, S, q),
           NEW t \in [Priority -> Rule]
    PROVE  Made(s, t) = [n \in Priority |-> IF n \in S THEN q[n] ELSE t[n]]
<1>1. s \in Seq(Call) /\ Apart(s) BY DEF Plan
<1>2. Made(s, t) \in [Priority -> Rule] BY <1>1, MadeAt
<1>3. ASSUME NEW n \in S PROVE Made(s, t)[n] = q[n]
  <2>1. PICK i \in 1..Len(s) : s[i].at = n BY DEF Plan
  <2>2. Made(s, t)[n] = s[i].rule BY <1>1, <2>1, MadeAt
  <2>3. s[i] = [do |-> kind, at |-> s[i].at, rule |-> q[s[i].at]] BY DEF Plan
  <2>4. s[i].rule = q[s[i].at] BY <2>3
  <2>. QED BY <2>1, <2>2, <2>4
<1>4. ASSUME NEW n \in Priority \ S PROVE Made(s, t)[n] = t[n]
  <2>1. \A i \in 1..Len(s) : s[i].at # n BY DEF Plan
  <2>. QED BY <1>1, <2>1, MadeAt
<1>. QED BY <1>2, <1>3, <1>4

LEMMA PlanCalls ==
    ASSUME NEW s, NEW kind, NEW S, NEW q, Plan(s, kind, S, q)
    PROVE  \A i \in 1..Len(s) : s[i].at \in S /\ s[i].do = kind /\ s[i].rule = q[s[i].at]
<1>1. ASSUME NEW i \in 1..Len(s)
      PROVE  s[i].at \in S /\ s[i].do = kind /\ s[i].rule = q[s[i].at]
  <2>1. s[i] = [do |-> kind, at |-> s[i].at, rule |-> q[s[i].at]] /\ s[i].at \in S
    BY DEF Plan
  <2>. DEFINE a == s[i].at
              r == q[s[i].at]
  <2>2. s[i] = [do |-> kind, at |-> a, rule |-> r] /\ a \in S BY <2>1
  <2>. HIDE DEF a, r
  <2>3. s[i].do = kind /\ s[i].rule = r BY ONLY <2>2
  <2>. QED BY <2>1, <2>3 DEF r
<1>. QED BY <1>1

-----------------------------------------------------------------------------
(* The plan of each step.                                                  *)

LEMMA PlanNone ==
    ASSUME NEW kind \in Kinds, NEW q
    PROVE  Plan(<< >>, kind, {}, q)
BY DEF Plan, Apart

LEMMA PlanBoth ==
    ASSUME NEW kind \in Kinds, NEW S, NEW T, NEW q, NEW s, NEW u,
           Plan(s, kind, S, q), Plan(u, kind, T, q), S \cap T = {}
    PROVE  Plan(s \o u, kind, S \cup T, q)
<1>. DEFINE w == s \o u
<1>1. /\ s \in Seq(Call) /\ u \in Seq(Call) /\ w \in Seq(Call)
      /\ Len(s) \in Nat /\ Len(u) \in Nat /\ Len(w) = Len(s) + Len(u)
      /\ \A i \in 1..(Len(s) + Len(u)) : w[i] = IF i <= Len(s) THEN s[i] ELSE u[i - Len(s)]
  BY ConcatProperties, LenProperties DEF Plan
<1>. HIDE DEF w
<1>2. ASSUME NEW i \in 1..Len(s)
      PROVE  i \in 1..Len(w) /\ w[i] = s[i] /\ s[i].at \in S
  <2>1. s[i].at \in S BY DEF Plan
  <2>2. i \in 1..(Len(s) + Len(u)) /\ i <= Len(s) BY <1>1
  <2>. QED BY <2>1, <2>2, <1>1
<1>3. ASSUME NEW i \in 1..Len(u)
      PROVE  /\ i + Len(s) \in 1..Len(w) /\ w[i + Len(s)] = u[i] /\ u[i].at \in T
  <2>1. i + Len(s) \in 1..(Len(s) + Len(u)) /\ ~(i + Len(s) <= Len(s))
        /\ (i + Len(s)) - Len(s) = i
    BY <1>1
  <2>2. w[i + Len(s)] = u[i] BY <2>1, <1>1
  <2>. QED BY <2>1, <2>2, <1>1 DEF Plan
<1>4. ASSUME NEW i \in 1..Len(w)
      PROVE  \/ i \in 1..Len(s) /\ w[i] = s[i]
             \/ i - Len(s) \in 1..Len(u) /\ w[i] = u[i - Len(s)]
  BY <1>1
<1>5. ASSUME NEW i \in 1..Len(w)
      PROVE  /\ w[i] = [do |-> kind, at |-> w[i].at, rule |-> q[w[i].at]]
             /\ w[i].at \in S \cup T
  <2>1. CASE i \in 1..Len(s) /\ w[i] = s[i] BY <2>1 DEF Plan
  <2>2. CASE i - Len(s) \in 1..Len(u) /\ w[i] = u[i - Len(s)]
    <3>. DEFINE j == i - Len(s)
    <3>1. j \in 1..Len(u) /\ w[i] = u[j] BY <2>2
    <3>. HIDE DEF j
    <3>. QED BY <3>1 DEF Plan
  <2>. QED BY <2>1, <2>2, <1>4
<1>6. ASSUME NEW i \in 1..Len(w), NEW j \in 1..Len(w), w[i].at = w[j].at
      PROVE  i = j
  <2>1. CASE i \in 1..Len(s) /\ j \in 1..Len(s)
    BY <2>1, <1>2, <1>6 DEF Plan, Apart
  <2>2. CASE i \in 1..Len(s) /\ j \notin 1..Len(s)
    <3>1. w[i].at \in S BY <2>2, <1>2
    <3>2. w[j].at \in T BY <2>2, <1>3, <1>4
    <3>. QED BY <3>1, <3>2, <1>6
  <2>3. CASE i \notin 1..Len(s) /\ j \in 1..Len(s)
    <3>1. w[j].at \in S BY <2>3, <1>2
    <3>2. w[i].at \in T BY <2>3, <1>3, <1>4
    <3>. QED BY <3>1, <3>2, <1>6
  <2>4. CASE i \notin 1..Len(s) /\ j \notin 1..Len(s)
    <3>1. /\ i - Len(s) \in 1..Len(u) /\ w[i] = u[i - Len(s)]
          /\ j - Len(s) \in 1..Len(u) /\ w[j] = u[j - Len(s)]
      BY <2>4, <1>4
    <3>2. i - Len(s) = j - Len(s) BY <3>1, <1>6 DEF Plan, Apart
    <3>. QED BY <3>2, <1>1
  <2>. QED BY <2>1, <2>2, <2>3, <2>4
<1>7. ASSUME NEW n \in S \cup T PROVE \E i \in 1..Len(w) : w[i].at = n
  <2>1. CASE n \in S
    <3>1. PICK i \in 1..Len(s) : s[i].at = n BY <2>1 DEF Plan
    <3>. QED BY <3>1, <1>2
  <2>2. CASE n \in T
    <3>1. PICK i \in 1..Len(u) : u[i].at = n BY <2>2 DEF Plan
    <3>. QED BY <3>1, <1>3
  <2>. QED BY <2>1, <2>2
<1>8. Plan(w, kind, S \cup T, q) BY <1>1, <1>5, <1>6, <1>7 DEF Plan, Apart
<1>. QED BY <1>8 DEF w

\* One call for each priority of a set, in their order.
LEMMA PlanEach ==
    ASSUME NEW kind \in Kinds, NEW S \in SUBSET Priority,
           NEW q, \A n \in S : q[n] \in Rule,
           NEW s, s = [i \in 1..Cardinality(S) |-> s[i]],
           \A i \in 1..Cardinality(S) : InOrder(S)[i] \in S =>
               s[i] = [do |-> kind, at |-> InOrder(S)[i], rule |-> q[InOrder(S)[i]]]
    PROVE  Plan(s, kind, S, q)
<1>1. IsFiniteSet(S) /\ S \subseteq Nat BY Priorities, FS_Subset
<1>2. /\ Cardinality(S) \in Nat
      /\ InOrder(S) \in [1..Cardinality(S) -> S]
      /\ \A i, j \in 1..Cardinality(S) : InOrder(S)[i] = InOrder(S)[j] => i = j
      /\ \A n \in S : \E i \in 1..Cardinality(S) : InOrder(S)[i] = n
  BY <1>1, InOrderLists
<1>3. ASSUME NEW i \in 1..Cardinality(S)
      PROVE  /\ InOrder(S)[i] \in S /\ s[i].at = InOrder(S)[i]
             /\ s[i] = [do |-> kind, at |-> s[i].at, rule |-> q[s[i].at]]
             /\ s[i] \in Call
  <2>1. InOrder(S)[i] \in S BY <1>2
  <2>. QED BY <2>1 DEF Call, Kinds
<1>4. s \in Seq(Call) /\ Len(s) = Cardinality(S)
  <2>1. s \in [1..Cardinality(S) -> Call] BY <1>3
  <2>. DEFINE n == Cardinality(S)
  <2>2. n \in Nat /\ s \in [1..n -> Call] BY <2>1, <1>2
  <2>. HIDE DEF n
  <2>3. s \in Seq(Call) /\ Len(s) = n BY ONLY <2>2, SeqDef
  <2>. QED BY <2>3 DEF n
<1>5. Apart(s) BY <1>2, <1>3, <1>4 DEF Apart
<1>6. \A n \in S : \E i \in 1..Len(s) : s[i].at = n BY <1>2, <1>3, <1>4
<1>. QED BY <1>3, <1>4, <1>5, <1>6 DEF Plan

LEMMA PlanOne ==
    ASSUME NEW kind \in Kinds, NEW n \in Priority, NEW q, q[n] \in Rule
    PROVE  Plan(<< [do |-> kind, at |-> n, rule |-> q[n]] >>, kind, {n}, q)
<1>1. [do |-> kind, at |-> n, rule |-> q[n]] \in Call BY DEF Call, Kinds
<1>. QED BY <1>1 DEF Plan, Apart

LEMMA PlanTwo ==
    ASSUME NEW kind \in Kinds, NEW m \in Priority, NEW n \in Priority, m # n,
           NEW q, q[m] \in Rule, q[n] \in Rule
    PROVE  Plan(<< [do |-> kind, at |-> m, rule |-> q[m]],
                   [do |-> kind, at |-> n, rule |-> q[n]] >>, kind, {m, n}, q)
<1>1. /\ [do |-> kind, at |-> m, rule |-> q[m]] \in Call
      /\ [do |-> kind, at |-> n, rule |-> q[n]] \in Call
  BY DEF Call, Kinds
<1>. DEFINE s == << [do |-> kind, at |-> m, rule |-> q[m]],
                    [do |-> kind, at |-> n, rule |-> q[n]] >>
<1>2. s \in Seq(Call) /\ Len(s) = 2 BY <1>1
<1>3. \A i \in 1..Len(s) : i = 1 \/ i = 2 BY <1>2
<1>4. s[1].at = m /\ s[2].at = n OBVIOUS
<1>5. /\ s[1] = [do |-> kind, at |-> m, rule |-> q[m]]
      /\ s[2] = [do |-> kind, at |-> n, rule |-> q[n]]
  OBVIOUS
<1>. HIDE DEF s
<1>6. Apart(s) BY <1>3, <1>4 DEF Apart
<1>7. \A l \in {m, n} : \E i \in 1..Len(s) : s[i].at = l
  <2>1. 1 \in 1..Len(s) /\ 2 \in 1..Len(s) BY <1>2
  <2>. QED BY <2>1, <1>4
<1>8. Plan(s, kind, {m, n}, q) BY <1>2, <1>3, <1>4, <1>5, <1>6, <1>7 DEF Plan
<1>. QED BY <1>8 DEF s

-----------------------------------------------------------------------------
(* The invariant.                                                          *)

AlbTypeOK ==
    /\ rules \in [Priority -> Rule]
    /\ stage \in {"Create", "Update", "Updated", "Rollback", "RollbackFailed", "Settled",
                  "Delete", "Gone"}
    /\ old \in Properties /\ want \in Properties
    /\ step \in Steps
    /\ calls \in Seq(Call)
    /\ halved \in SUBSET AppId
    /\ updates \in Nat /\ errors \in Nat

\* The listener has its rules, or is getting them.
Live == stage \notin {"Delete", "Gone"}

\* The resource is updated, or was and has not settled.
Changing == stage \in {"Update", "Updated", "Rollback", "RollbackFailed"}

\* The steps that the operation may be at.
Stages ==
    /\ SameListener(old, want)
    /\ stage = "Create" => /\ old = want /\ halved = {}
                           /\ step \in {"begin", "default", "apps", "reset", "remove",
                                        "fallback"}
    /\ stage = "Create" /\ step = "begin" => rules = [n \in Priority |-> NoRule]
    /\ stage \in {"Update", "Rollback"} => step \notin {"default", "clear"}
    /\ stage \in {"Updated", "Settled"} => step = "fallback"
    /\ stage = "RollbackFailed" => step = "begin"
    /\ stage = "Delete" => step \in {"begin", "reset", "remove", "clear", "fallback"}
    /\ stage = "Gone" => step \in {"begin", "fallback"}
    /\ Live /\ ~want.sdk => step \notin {"apps", "reset", "remove", "clear"}
    /\ step \in {"begin", "fallback"} => calls = << >>

\* Calls of a step are for different priorities; one that creates a rule finds
\* the priority free, and no other call creates one.
CallsInv ==
    /\ Apart(calls)
    /\ \A i \in 1..Len(calls) : calls[i].do # "create" /\ rules[calls[i].at] = NoRule =>
          calls[i].rule = NoRule
    /\ \A i \in 1..Len(calls) : calls[i].do = "create" =>
          /\ rules[calls[i].at] = NoRule /\ calls[i].rule # NoRule
          /\ step \in {"default", "apps", "reset"}
          /\ calls[i].at \in AppPriority => step = "apps"

\* What the rules come to in this step.
Result == Made(calls, rules)

\* Two rules of one application and one kind, to the endpoint or to the ping path.
SameKind(r, q) == r.app = q.app /\ (r.path = "ping" <=> q.path = "ping")

\* What step s makes of rule r of priority n.
Changed(s, n, r, q) ==
    \/ s \in {"path", "ping", "secret"} /\ r # NoRule /\ q # NoRule /\ SameKind(r, q)
    \/ s \in {"default", "reset"} /\ r = NoRule /\ q # NoRule /\ n \in 1..4
    \/ s = "apps" /\ r = NoRule /\ q # NoRule /\ n \in AppPriority /\ q.app \in want.apps
    \/ s = "remove" /\ q = NoRule /\ (n \in 1..3 \/ (n \in AppPriority /\ r.app \notin want.apps))

StepInv == \A n \in Priority : Result[n] = rules[n] \/ Changed(step, n, rules[n], Result[n])

\* The steps that are done before step s.
Done(s) ==
    CASE s = "ping" -> {"path"}
      [] s = "secret" -> {"path", "ping"}
      [] s = "apps" -> {"default", "path", "ping", "secret"}
      [] s = "reset" -> {"default", "path", "ping", "secret", "apps"}
      [] s = "remove" -> {"default", "path", "ping", "secret", "apps", "reset"}
      [] s = "fallback" -> {"default", "path", "ping", "secret", "apps", "reset", "remove"}
      [] OTHER -> {}

\* Priorities 1 to 4 have rules of their own, the others rules of applications.
Placed(n, r) ==
    \/ r = NoRule
    \/ n = 1 /\ r = FixedResponse
    \/ n = 2 /\ r.app = "any" /\ r.path \in Path
    \/ n = 3 /\ r.app = "any" /\ r.path = "ping"
    \/ n = 4 /\ r.app = "any" /\ r.path = "/login" /\ r.host = NoHost
    \/ n \in AppPriority /\ r.app \in AppId /\ r.path \in Path \cup {"ping"}

Asked(s, D) == IF s \in D THEN {want} ELSE {old, want}

\* Once a step is done, what it sets is as the properties want it, and until
\* then as the old ones or the new ones have it.
Follows(t, D) ==
    \A n \in Priority :
        /\ Placed(n, t[n])
        /\ t[n].path \in Path =>
              \E c \in Asked("path", D) : t[n].path = c.path /\ t[n].host = c.host
        /\ t[n].path = "ping" => \E c \in Asked("ping", D) : t[n].host = c.host
        /\ t[n].path \in Path \cup {"ping", "/login"} =>
              \E c \in Asked("secret", D) : t[n].secret = c.secret

\* The rules for no application.
Fixed(t, D) ==
    /\ stage # "Create" \/ "default" \in D =>
          /\ (t[4] # NoRule) = (want.secret # NoSecret)
          /\ ~want.sdk => t[2] # NoRule /\ t[3] # NoRule
    /\ ~want.sdk => t[1] = NoRule /\ \A n \in AppPriority : t[n] = NoRule
    /\ old.apps # {} /\ want.apps # {} => t[1] = NoRule
    /\ want.sdk /\ want.apps = {} /\ "reset" \in D => t[1] # NoRule
    /\ want.sdk /\ want.apps # {} /\ "remove" \in D => \A n \in 1..3 : t[n] = NoRule

None(a, t) == \A n \in AppPriority : t[n].app # a

Pair(a, t) ==
    \E m, n \in AppPriority : /\ t[m].app = a /\ t[m].path = "ping"
                              /\ t[n].app = a /\ t[n].path # "ping"

\* The rules of applications: one of each kind, if any.
Single(t) ==
    \A m, n \in AppPriority : t[m] # NoRule /\ t[n] # NoRule /\ SameKind(t[m], t[n]) => m = n

\* Applications that an update keeps are whole throughout, those it removes
\* until it removes them.  Those it adds, or a rollback returns, are whole or
\* have no rule until their rules are created.
Kept(t, D) ==
    /\ Changing => \A a \in (old.apps \cap want.apps) \ halved : Pair(a, t)
    /\ stage # "Settled" => \A a \in AppId \ (old.apps \cup want.apps \cup halved) : None(a, t)
    /\ stage = "Update" /\ "reset" \notin D => \A a \in old.apps \ halved : Pair(a, t)
    /\ "secret" \notin D => \A a \in want.apps \ halved : Pair(a, t) \/ None(a, t)
    /\ "apps" \in D => \A a \in want.apps : ~None(a, t) /\ (a \notin halved => Pair(a, t))
    /\ "remove" \in D => \A a \in AppId \ want.apps : None(a, t)

Good(t, D) == Follows(t, D) /\ Fixed(t, D) /\ (want.sdk => Single(t) /\ Kept(t, D))

Taken(S, t) == {n \in S : t[n] # NoRule}

\* There is room for the rules of both properties at once.
Room(t) ==
    Cardinality(Taken(1..4, t)) + 2 * Cardinality(old.apps \cup want.apps) <= RuleLimit

\* The listener is never overfull; and a rollback that has to create rules has
\* room for them, because they were there beside the new ones before the update
\* began to remove rules.
Limited(t) ==
    /\ Cardinality(Taken(Priority, t)) <= RuleLimit
    /\ want.sdk /\ halved = {} =>
          /\ (stage = "Update" /\ step \in {"remove", "fallback"}) \/ stage = "Updated" => Room(t)
          /\ /\ stage \in {"Rollback", "RollbackFailed"}
             /\ (step = "apps" /\ calls # << >>) \/ \E a \in want.apps : None(a, t)
             => Room(t)

LiveInv ==
    /\ StepInv
    /\ Good(rules, Done(step)) /\ Good(Result, Done(step) \cup {step})

AlbInv ==
    /\ AlbTypeOK /\ Stages /\ CallsInv /\ Limited(rules)
    /\ Live => LiveInv

-----------------------------------------------------------------------------
(* The calls of each step, planned.                                        *)

LEMMA Names ==
    /\ NoRule \in Rule /\ FixedResponse \in Rule /\ FixedResponse # NoRule
    /\ \A c \in Properties, a \in AppId \cup {"any"}, p \in Path \cup {"ping"} :
          Forward(c, a, p) \in Rule /\ Forward(c, a, p) # NoRule
    /\ \A c \in Properties : AuthLogin(c) \in Rule /\ AuthLogin(c) # NoRule
    /\ {"none", "ping", "/*", "/login"} \cap Path = {}
    /\ {"none", "any"} \cap AppId = {}
BY AlbRulesAssumption
   DEF NoRule, FixedResponse, Forward, AuthLogin, Rule, Properties

\* A table that says what the rules of path, host and secret become.
Moved == [n \in Priority |-> [rules[n] EXCEPT !.path = want.path, !.host = want.host]]
Rehosted == [n \in Priority |-> [rules[n] EXCEPT !.host = want.host]]
Resecured == [n \in Priority |-> [rules[n] EXCEPT !.secret = want.secret]]
Emptied == [n \in Priority |-> NoRule]

Renewed == [n \in Priority |-> CASE n = 1 -> FixedResponse
                                 [] n = 2 -> DefaultForward(want)
                                 [] n = 3 -> DefaultPing(want)
                                 [] OTHER -> AuthLogin(want)]

LEMMA NewTables ==
    ASSUME AlbTypeOK
    PROVE  /\ Moved \in [Priority -> Rule] /\ Rehosted \in [Priority -> Rule]
           /\ Resecured \in [Priority -> Rule] /\ Emptied \in [Priority -> Rule]
           /\ Renewed \in [Priority -> Rule]
           /\ \A n \in Priority : Renewed[n] # NoRule
<1>1. want \in Properties /\ rules \in [Priority -> Rule] BY DEF AlbTypeOK
<1>2. /\ want.path \in Path /\ want.host \in Host \cup {NoHost}
      /\ want.secret \in Secret \cup {NoSecret}
  BY <1>1 DEF Properties
<1>3. /\ Moved \in [Priority -> Rule] /\ Rehosted \in [Priority -> Rule]
      /\ Resecured \in [Priority -> Rule]
  BY <1>1, <1>2, ZenonT(60) DEF Moved, Rehosted, Resecured, Rule
<1>4. Emptied \in [Priority -> Rule] BY Names DEF Emptied
<1>5. /\ DefaultForward(want) \in Rule \ {NoRule} /\ DefaultPing(want) \in Rule \ {NoRule}
      /\ AuthLogin(want) \in Rule \ {NoRule} /\ FixedResponse \in Rule \ {NoRule}
  BY <1>1, <1>2, Names DEF DefaultForward, DefaultPing
<1>6. \A n \in Priority : Renewed[n] \in Rule \ {NoRule} BY <1>5 DEF Renewed
<1>7. Renewed \in [Priority -> Rule] BY <1>6 DEF Renewed
<1>. QED BY <1>3, <1>4, <1>6, <1>7

MovedAt ==
    IF want.path = old.path /\ want.host = old.host THEN {}
    ELSE {n \in Existing(Priority) : rules[n].path = old.path}
RehostedAt ==
    IF want.host = old.host THEN {} ELSE {n \in Existing(Priority) : rules[n].path = "ping"}
ResecuredAt ==
    IF want.secret = old.secret THEN {}
    ELSE {n \in Existing(Priority) : rules[n].secret # NoSecret}
RenewedAt ==
    IF want.apps # {} THEN {}
    ELSE (IF rules[1] = NoRule THEN {1} ELSE {})
         \cup (IF Existing({2, 3}) = {} THEN {2, 3} ELSE {})
RemovedAt ==
    (IF stage \in {"Create", "Delete"} THEN {} ELSE RemovedRules)
    \cup (IF want.apps = {} THEN {} ELSE Existing(1..3))

LEMMA PlanPath ==
    ASSUME AlbTypeOK PROVE Plan(PathCalls, "modify", MovedAt, Moved)
<1>. DEFINE S == {n \in Existing(Priority) : rules[n].path = old.path}
<1>1. S \in SUBSET Priority BY DEF Existing
<1>2. CASE want.path = old.path /\ want.host = old.host
  BY <1>2, PlanNone DEF PathCalls, MovedAt, Kinds
<1>3. CASE ~(want.path = old.path /\ want.host = old.host)
  <2>1. PathCalls = [i \in 1..Cardinality(S) |->
            ModifyRule(InOrder(S)[i], [rules[InOrder(S)[i]] EXCEPT !.path = want.path,
                                                                   !.host = want.host])]
    BY <1>3 DEF PathCalls, ForEach
  <2>2. ASSUME NEW i \in 1..Cardinality(S), InOrder(S)[i] \in S
        PROVE  PathCalls[i] = [do |-> "modify", at |-> InOrder(S)[i],
                               rule |-> Moved[InOrder(S)[i]]]
    BY <2>1, <2>2, <1>1 DEF ModifyRule, Moved
  <2>3. PathCalls = [i \in 1..Cardinality(S) |-> PathCalls[i]] BY <2>1
  <2>4. \A n \in S : Moved[n] \in Rule BY <1>1, NewTables
  <2>5. MovedAt = S BY <1>3 DEF MovedAt
  <2>. HIDE DEF S
  <2>. QED BY <1>1, <2>2, <2>3, <2>4, <2>5, PlanEach DEF Kinds
<1>. QED BY <1>2, <1>3

LEMMA PlanPing ==
    ASSUME AlbTypeOK PROVE Plan(PingCalls, "modify", RehostedAt, Rehosted)
<1>. DEFINE S == {n \in Existing(Priority) : rules[n].path = "ping"}
<1>1. S \in SUBSET Priority BY DEF Existing
<1>2. CASE want.host = old.host
  BY <1>2, PlanNone DEF PingCalls, RehostedAt, Kinds
<1>3. CASE want.host # old.host
  <2>1. PingCalls = [i \in 1..Cardinality(S) |->
            ModifyRule(InOrder(S)[i], [rules[InOrder(S)[i]] EXCEPT !.host = want.host])]
    BY <1>3 DEF PingCalls, ForEach
  <2>2. ASSUME NEW i \in 1..Cardinality(S), InOrder(S)[i] \in S
        PROVE  PingCalls[i] = [do |-> "modify", at |-> InOrder(S)[i],
                               rule |-> Rehosted[InOrder(S)[i]]]
    BY <2>1, <2>2, <1>1 DEF ModifyRule, Rehosted
  <2>3. PingCalls = [i \in 1..Cardinality(S) |-> PingCalls[i]] BY <2>1
  <2>4. \A n \in S : Rehosted[n] \in Rule BY <1>1, NewTables
  <2>5. RehostedAt = S BY <1>3 DEF RehostedAt
  <2>. HIDE DEF S
  <2>. QED BY <1>1, <2>2, <2>3, <2>4, <2>5, PlanEach DEF Kinds
<1>. QED BY <1>2, <1>3

LEMMA PlanSecret ==
    ASSUME AlbTypeOK PROVE Plan(SecretCalls, "modify", ResecuredAt, Resecured)
<1>. DEFINE S == {n \in Existing(Priority) : rules[n].secret # NoSecret}
<1>1. S \in SUBSET Priority BY DEF Existing
<1>2. CASE want.secret = old.secret
  BY <1>2, PlanNone DEF SecretCalls, ResecuredAt, Kinds
<1>3. CASE want.secret # old.secret
  <2>1. SecretCalls = [i \in 1..Cardinality(S) |->
            ModifyRule(InOrder(S)[i], [rules[InOrder(S)[i]] EXCEPT !.secret = want.secret])]
    BY <1>3 DEF SecretCalls, ForEach
  <2>2. ASSUME NEW i \in 1..Cardinality(S), InOrder(S)[i] \in S
        PROVE  SecretCalls[i] = [do |-> "modify", at |-> InOrder(S)[i],
                                 rule |-> Resecured[InOrder(S)[i]]]
    BY <2>1, <2>2, <1>1 DEF ModifyRule, Resecured
  <2>3. SecretCalls = [i \in 1..Cardinality(S) |-> SecretCalls[i]] BY <2>1
  <2>4. \A n \in S : Resecured[n] \in Rule BY <1>1, NewTables
  <2>5. ResecuredAt = S BY <1>3 DEF ResecuredAt
  <2>. HIDE DEF S
  <2>. QED BY <1>1, <2>2, <2>3, <2>4, <2>5, PlanEach DEF Kinds
<1>. QED BY <1>2, <1>3

LEMMA PlanDeletions ==
    ASSUME AlbTypeOK, NEW S \in SUBSET Priority
    PROVE  Plan(ForEach(S, DeleteRule), "delete", S, Emptied)
<1>. DEFINE s == ForEach(S, DeleteRule)
<1>1. s = [i \in 1..Cardinality(S) |-> DeleteRule(InOrder(S)[i])] BY DEF ForEach
<1>2. ASSUME NEW i \in 1..Cardinality(S), InOrder(S)[i] \in S
      PROVE  s[i] = [do |-> "delete", at |-> InOrder(S)[i], rule |-> Emptied[InOrder(S)[i]]]
  <2>1. InOrder(S)[i] \in Priority BY <1>2
  <2>2. s[i] = DeleteRule(InOrder(S)[i]) BY <1>1
  <2>. QED BY <2>1, <2>2 DEF DeleteRule, Emptied
<1>3. s = [i \in 1..Cardinality(S) |-> s[i]] BY <1>1
<1>4. \A n \in S : Emptied[n] \in Rule BY NewTables
<1>. HIDE DEF s
<1>5. Plan(s, "delete", S, Emptied) BY <1>2, <1>3, <1>4, PlanEach DEF Kinds
<1>. QED BY <1>5 DEF s

LEMMA PlanClear ==
    ASSUME AlbTypeOK PROVE Plan(ClearCalls, "delete", Existing(Priority), Emptied)
BY PlanDeletions DEF ClearCalls, Existing

LEMMA PlanRemove ==
    ASSUME AlbTypeOK PROVE Plan(RemoveCalls, "delete", RemovedAt, Emptied)
<1>. DEFINE A == IF stage \in {"Create", "Delete"} THEN {} ELSE RemovedRules
            B == IF want.apps = {} THEN {} ELSE Existing(1..3)
            s == IF stage \in {"Create", "Delete"} THEN << >>
                 ELSE ForEach(RemovedRules, DeleteRule)
            u == IF want.apps = {} THEN << >> ELSE ForEach(Existing(1..3), DeleteRule)
<1>1. RemovedRules \in SUBSET AppPriority /\ Existing(1..3) \in SUBSET (1..3)
      /\ 1..3 \subseteq 1..4
  BY DEF RemovedRules, Existing
<1>2. RemovedRules \in SUBSET Priority /\ Existing(1..3) \in SUBSET Priority
      /\ A \cap B = {}
  BY <1>1, Priorities
<1>3. Plan(s, "delete", A, Emptied)
  BY <1>2, PlanDeletions, PlanNone DEF Kinds
<1>4. Plan(u, "delete", B, Emptied)
  BY <1>2, PlanDeletions, PlanNone DEF Kinds
<1>5. RemoveCalls = s \o u BY DEF RemoveCalls
<1>6. RemovedAt = A \cup B BY DEF RemovedAt
<1>. HIDE DEF A, B, s, u
<1>. QED BY <1>2, <1>3, <1>4, <1>5, <1>6, PlanBoth DEF Kinds

LEMMA PlanReset ==
    ASSUME AlbTypeOK PROVE Plan(ResetCalls, "create", RenewedAt, Renewed)
<1>1. 1 \in Priority /\ 2 \in Priority /\ 3 \in Priority BY Priorities
<1>2. Renewed[1] = FixedResponse /\ Renewed[2] = DefaultForward(want)
      /\ Renewed[3] = DefaultPing(want)
  BY <1>1 DEF Renewed
<1>3. Renewed[1] \in Rule /\ Renewed[2] \in Rule /\ Renewed[3] \in Rule
  BY <1>1, NewTables
<1>4. Plan(<< CreateRule(1, FixedResponse) >>, "create", {1}, Renewed)
  BY <1>1, <1>2, <1>3, PlanOne DEF CreateRule, Kinds
<1>5. Plan(<< CreateRule(2, DefaultForward(want)), CreateRule(3, DefaultPing(want)) >>,
           "create", {2, 3}, Renewed)
  BY <1>1, <1>2, <1>3, PlanTwo DEF CreateRule, Kinds
<1>6. CASE want.apps # {}
  BY <1>6, PlanNone DEF ResetCalls, RenewedAt, Kinds
<1>7. CASE want.apps = {}
  <2>. DEFINE A == IF rules[1] = NoRule THEN {1} ELSE {}
              B == IF Existing({2, 3}) = {} THEN {2, 3} ELSE {}
              s == IF rules[1] = NoRule THEN << CreateRule(1, FixedResponse) >> ELSE << >>
              u == IF Existing({2, 3}) = {}
                   THEN << CreateRule(2, DefaultForward(want)),
                           CreateRule(3, DefaultPing(want)) >>
                   ELSE << >>
  <2>1. ResetCalls = s \o u BY <1>7 DEF ResetCalls
  <2>2. RenewedAt = A \cup B BY <1>7 DEF RenewedAt
  <2>3. Plan(s, "create", A, Renewed) BY <1>4, PlanNone DEF Kinds
  <2>4. Plan(u, "create", B, Renewed) BY <1>5, PlanNone DEF Kinds
  <2>5. A \cap B = {} OBVIOUS
  <2>. HIDE DEF A, B, s, u
  <2>. QED BY <2>1, <2>2, <2>3, <2>4, <2>5, PlanBoth DEF Kinds
<1>. QED BY <1>6, <1>7

LEMMA PlanDefault ==
    ASSUME AlbTypeOK
    PROVE  Plan(DefaultCalls, "create",
                {2, 3} \cup (IF want.secret = NoSecret THEN {} ELSE {4}), Renewed)
<1>1. 2 \in Priority /\ 3 \in Priority /\ 4 \in Priority BY Priorities
<1>2. Renewed[2] = DefaultForward(want) /\ Renewed[3] = DefaultPing(want)
      /\ Renewed[4] = AuthLogin(want)
  BY <1>1 DEF Renewed
<1>3. Renewed[2] \in Rule /\ Renewed[3] \in Rule /\ Renewed[4] \in Rule
  BY <1>1, NewTables
<1>4. Plan(<< CreateRule(2, DefaultForward(want)), CreateRule(3, DefaultPing(want)) >>,
           "create", {2, 3}, Renewed)
  BY <1>1, <1>2, <1>3, PlanTwo DEF CreateRule, Kinds
<1>5. Plan(<< CreateRule(4, AuthLogin(want)) >>, "create", {4}, Renewed)
  BY <1>1, <1>2, <1>3, PlanOne DEF CreateRule, Kinds
<1>. DEFINE B == IF want.secret = NoSecret THEN {} ELSE {4}
            s == << CreateRule(2, DefaultForward(want)), CreateRule(3, DefaultPing(want)) >>
            u == IF want.secret = NoSecret THEN << >> ELSE << CreateRule(4, AuthLogin(want)) >>
<1>6. DefaultCalls = s \o u BY DEF DefaultCalls
<1>7. Plan(u, "create", B, Renewed) BY <1>5, PlanNone DEF Kinds
<1>8. {2, 3} \cap B = {} OBVIOUS
<1>. HIDE DEF B, s, u
<1>9. Plan(s, "create", {2, 3}, Renewed) BY <1>4 DEF s
<1>10. Plan(s \o u, "create", {2, 3} \cup B, Renewed)
  BY <1>7, <1>8, <1>9, PlanBoth DEF Kinds
<1>. QED BY <1>6, <1>10 DEF B

\* A table with one rule of each kind for an application has at most two rules
\* for each of A, and no fewer if it has one of each kind for each of them.
KindOf(r) == <<r.app, IF r.path = "ping" THEN 1 ELSE 2>>

LEMMA TwoKinds ==
    ASSUME NEW A \in SUBSET AppId
    PROVE  /\ IsFiniteSet(A) /\ Cardinality(A) \in Nat
           /\ IsFiniteSet(A \X (1..2)) /\ Cardinality(A \X (1..2)) = 2 * Cardinality(A)
<1>1. IsFiniteSet(A) BY AlbRulesAssumption, FS_Subset
<1>2. Cardinality(A) \in Nat BY <1>1, FS_CardinalityType
<1>3. IsFiniteSet(1..2) /\ Cardinality(1..2) = 2
  <2>. DEFINE a == 1
              b == 2
  <2>1. a \in Int /\ b \in Int /\ a <= b + 1 /\ b - a + 1 = 2 OBVIOUS
  <2>. HIDE DEF a, b
  <2>2. IsFiniteSet(a..b) /\ Cardinality(a..b) = 2 BY ONLY <2>1, IntervalSize
  <2>. QED BY <2>2 DEF a, b
<1>4. /\ IsFiniteSet(A \X (1..2))
      /\ Cardinality(A \X (1..2)) = Cardinality(A) * Cardinality(1..2)
  BY <1>1, <1>3, FS_Product
<1>. QED BY <1>1, <1>2, <1>3, <1>4

LEMMA AtMostTwo ==
    ASSUME NEW t \in [Priority -> Rule], Single(t), NEW A \in SUBSET AppId,
           \A n \in Taken(AppPriority, t) : t[n].app \in A
    PROVE  /\ Cardinality(Taken(AppPriority, t)) \in Nat
           /\ Cardinality(Taken(AppPriority, t)) <= 2 * Cardinality(A)
           /\ Cardinality(Taken(AppPriority, t)) = 2 * Cardinality(A) =>
                 \A k \in A \X (1..2) : \E n \in Taken(AppPriority, t) : KindOf(t[n]) = k
<1>. DEFINE S == Taken(AppPriority, t)
            f == [n \in S |-> KindOf(t[n])]
<1>1. f \in [S -> A \X (1..2)] BY DEF KindOf
<1>2. ASSUME NEW m \in S, NEW n \in S, f[m] = f[n] PROVE m = n
  <2>1. t[m].app = t[n].app /\ (t[m].path = "ping" <=> t[n].path = "ping")
    BY <1>2 DEF KindOf
  <2>. QED BY <2>1 DEF Single, SameKind, Taken
<1>3. f \in Injection(S, A \X (1..2)) BY <1>1, <1>2 DEF Injection, IsInjective
<1>4. IsFiniteSet(A \X (1..2)) /\ Cardinality(A \X (1..2)) = 2 * Cardinality(A)
  BY TwoKinds
<1>5. /\ IsFiniteSet(S) /\ Cardinality(S) <= 2 * Cardinality(A)
      /\ Cardinality(S) = 2 * Cardinality(A) => f \in Surjection(S, A \X (1..2))
  <2>. HIDE DEF f, S
  <2>. QED BY <1>3, <1>4, FS_Injection
<1>6. Cardinality(S) \in Nat BY <1>5, FS_CardinalityType
<1>7. ASSUME Cardinality(S) = 2 * Cardinality(A), NEW k \in A \X (1..2)
      PROVE  \E n \in S : KindOf(t[n]) = k
  <2>1. PICK n \in S : f[n] = k
    <3>. HIDE DEF f, S
    <3>. QED BY <1>5, <1>7 DEF Surjection
  <2>. QED BY <2>1
<1>. QED BY <1>5, <1>6, <1>7

LEMMA AtLeastTwo ==
    ASSUME NEW t \in [Priority -> Rule], NEW A \in SUBSET AppId, \A a \in A : Pair(a, t)
    PROVE  /\ Cardinality(Taken(AppPriority, t)) \in Nat
           /\ 2 * Cardinality(A) <= Cardinality(Taken(AppPriority, t))
<1>. DEFINE T == Taken(AppPriority, t)
            S == {n \in T : t[n].app \in A}
            f == [n \in S |-> KindOf(t[n])]
<1>1. IsFiniteSet(T) /\ S \in SUBSET T BY Priorities, FS_Subset DEF Taken
<1>2. f \in [S -> A \X (1..2)] BY DEF KindOf
<1>3. ASSUME NEW a \in A, NEW i \in 1..2 PROVE \E n \in S : f[n] = <<a, i>>
  <2>1. PICK m \in AppPriority, n \in AppPriority :
               /\ t[m].app = a /\ t[m].path = "ping"
               /\ t[n].app = a /\ t[n].path # "ping"
    BY DEF Pair
  <2>2. a # "none" BY Names
  <2>3. m \in S /\ n \in S BY <2>1, <2>2 DEF Taken, NoRule
  <2>4. f[m] = <<a, 1>> /\ f[n] = <<a, 2>> BY <2>1, <2>3 DEF KindOf
  <2>. QED BY <2>3, <2>4
<1>4. f \in Surjection(S, A \X (1..2))
  <2>1. ASSUME NEW k \in A \X (1..2) PROVE \E n \in S : f[n] = k
    <3>1. PICK a \in A, i \in 1..2 : k = <<a, i>> OBVIOUS
    <3>. HIDE DEF f, S
    <3>. QED BY <3>1, <1>3
  <2>. QED BY <1>2, <2>1 DEF Surjection
<1>5. IsFiniteSet(S) /\ Cardinality(S) <= Cardinality(T)
  BY <1>1, FS_Subset
<1>6. Cardinality(A \X (1..2)) <= Cardinality(S)
  <2>. HIDE DEF f, S
  <2>. QED BY <1>4, <1>5, FS_Surjection
<1>7. Cardinality(S) \in Nat /\ Cardinality(T) \in Nat BY <1>1, <1>5, FS_CardinalityType
<1>8. Cardinality(A) \in Nat /\ Cardinality(A \X (1..2)) = 2 * Cardinality(A) BY TwoKinds
<1>. QED BY <1>5, <1>6, <1>7, <1>8

\* The applications without rules, and the priorities that are free for them.
Missing == want.apps \ ExistingAppIds
Free == AppPriority \ Existing(AppPriority)

\* There are enough: an application has two rules at most, so the ones that have
\* some leave two priorities for each of the others.
LEMMA EnoughFree ==
    ASSUME AlbTypeOK, Single(rules), \A n \in Priority : Placed(n, rules[n])
    PROVE  /\ IsFiniteSet(Missing) /\ Cardinality(Missing) \in Nat
           /\ IsFiniteSet(Free) /\ Free \subseteq Nat
           /\ 2 * Cardinality(Missing) <= Cardinality(Free)
<1>. DEFINE T == Taken(AppPriority, rules)
            E == ExistingAppIds
<1>1. rules \in [Priority -> Rule] /\ want.apps \in SUBSET AppId
  BY DEF AlbTypeOK, Properties
<1>2. Existing(AppPriority) = T BY DEF Existing, Taken
<1>3. \A n \in T : rules[n].app \in AppId
  <2>1. ASSUME NEW n \in T
        PROVE  n \in AppPriority /\ n \in Priority /\ n \notin 1..4 /\ rules[n] # NoRule
    BY Priorities DEF Taken
  <2>. QED BY <2>1 DEF Placed
<1>4. E \in SUBSET AppId BY <1>2, <1>3 DEF ExistingAppIds
<1>5. \A n \in T : rules[n].app \in E BY <1>2 DEF ExistingAppIds
<1>6. Cardinality(T) \in Nat /\ Cardinality(T) <= 2 * Cardinality(E)
  <2>. HIDE DEF E
  <2>. QED BY <1>1, <1>4, <1>5, AtMostTwo
<1>7. IsFiniteSet(AppPriority) /\ Cardinality(AppPriority) = 2 * Cardinality(AppId)
      /\ AppPriority \subseteq Nat
  BY Priorities
<1>8. T \in SUBSET AppPriority BY DEF Taken
<1>9. Free = AppPriority \ T BY <1>2 DEF Free
<1>10. /\ IsFiniteSet(Free)
       /\ Cardinality(Free) = Cardinality(AppPriority) - Cardinality(T)
  <2>1. AppPriority \cap T = T /\ IsFiniteSet(T) BY <1>7, <1>8, FS_Subset
  <2>. HIDE DEF T
  <2>. QED BY <1>7, <1>9, <2>1, FS_Difference
<1>11. /\ IsFiniteSet(AppId) /\ Cardinality(AppId) \in Nat
       /\ IsFiniteSet(E) /\ Cardinality(E) \in Nat
  BY <1>4, TwoKinds, AlbRulesAssumption, Priorities
<1>12. /\ IsFiniteSet(AppId \ E)
       /\ Cardinality(AppId \ E) = Cardinality(AppId) - Cardinality(E)
  <2>1. AppId \cap E = E BY <1>4
  <2>. HIDE DEF E
  <2>. QED BY <1>11, <2>1, FS_Difference
<1>13. IsFiniteSet(Missing) /\ Cardinality(Missing) <= Cardinality(AppId \ E)
       /\ Cardinality(Missing) \in Nat
  <2>1. Missing \in SUBSET (AppId \ E) BY <1>1 DEF Missing
  <2>. HIDE DEF E
  <2>. QED BY <1>12, <2>1, FS_Subset, FS_CardinalityType
<1>14. Free \subseteq Nat BY <1>7, <1>9
<1>. QED BY <1>6, <1>7, <1>10, <1>11, <1>12, <1>13, <1>14

\* The rules of a, to the endpoint and to the ping path.
RuleFor(a, i) == Forward(want, a, IF i % 2 = 1 THEN want.path ELSE "ping")

\* Two rules for every missing application, and each in a free priority.
PlansApps(s, S, q) ==
    /\ Plan(s, "create", S, q) /\ S \subseteq Free
    /\ \A n \in S : \E a \in Missing, i \in 1..2 : q[n] = RuleFor(a, i)
    /\ \A m, n \in S : SameKind(q[m], q[n]) => m = n
    /\ \A a \in Missing, i \in 1..2 : \E n \in S : q[n] = RuleFor(a, i)

LEMMA PlanApps ==
    ASSUME AlbTypeOK, Single(rules), \A n \in Priority : Placed(n, rules[n])
    PROVE  \E S \in SUBSET Priority : \E q : PlansApps(AppCalls, S, q)
<1>. DEFINE k == Cardinality(Missing)
            list == SetToSeq(Missing)
            at == InOrder(Free)
            new == [i \in 1..(2 * k) |-> RuleFor(list[(i + 1) \div 2], i)]
            S == {at[i] : i \in 1..(2 * k)}
            q == [n \in S |-> new[CHOOSE i \in 1..(2 * k) : at[i] = n]]
            s == AppCalls
<1>1. /\ k \in Nat /\ 2 * k <= Cardinality(Free) /\ Cardinality(Free) \in Nat
      /\ IsFiniteSet(Missing) /\ IsFiniteSet(Free) /\ Free \subseteq Nat
  BY EnoughFree, FS_CardinalityType
<1>2. /\ list \in [1..k -> Missing]
      /\ \A i, j \in 1..k : list[i] = list[j] => i = j
      /\ \A a \in Missing : \E i \in 1..k : list[i] = a
  BY <1>1, SeqOfSet
<1>3. /\ at \in [1..Cardinality(Free) -> Free]
      /\ \A i, j \in 1..Cardinality(Free) : at[i] = at[j] => i = j
  BY <1>1, InOrderLists
<1>4. Len(list) = k
  <2>. HIDE DEF list, k
  <2>. QED BY <1>1, <1>2, SeqDef
<1>5. \A i \in 1..(2 * k) : i \in 1..Cardinality(Free) /\ (i + 1) \div 2 \in 1..k
  BY <1>1
<1>6. s = [i \in 1..(2 * k) |-> CreateRule(at[i], new[i])]
  <2>1. s = [i \in 1..(2 * k) |->
                CreateRule(CreatePriority(i),
                           Forward(want, list[(i + 1) \div 2],
                                   IF i % 2 = 1 THEN want.path ELSE "ping"))]
    <3>. HIDE DEF k
    <3>. QED BY <1>4 DEF AppCalls, Missing
  <2>2. \A i \in 1..(2 * k) : CreatePriority(i) = at[i]
    BY DEF CreatePriority, Free
  <2>3. \A i \in 1..(2 * k) :
            new[i] = Forward(want, list[(i + 1) \div 2],
                             IF i % 2 = 1 THEN want.path ELSE "ping")
    BY DEF RuleFor
  <2>. HIDE DEF k, list, at, new
  <2>. QED BY <2>1, <2>2, <2>3
<1>7. S \subseteq Free /\ Free \subseteq AppPriority /\ S \in SUBSET Priority
  BY <1>3, <1>5, Priorities, ZenonT(60) DEF Free
<1>8. \A i \in 1..(2 * k) : at[i] \in S /\ q[at[i]] = new[i]
  <2>. SUFFICES ASSUME NEW i \in 1..(2 * k) PROVE at[i] \in S /\ q[at[i]] = new[i]
    OBVIOUS
  <2>1. at[i] \in S OBVIOUS
  <2>. DEFINE j == CHOOSE l \in 1..(2 * k) : at[l] = at[i]
  <2>2. j \in 1..(2 * k) /\ at[j] = at[i]
    <3>. HIDE DEF at, k
    <3>. QED OBVIOUS
  <2>3. i = j
    <3>. HIDE DEF at, j, k
    <3>. QED BY <2>2, <1>3, <1>5
  <2>4. q[at[i]] = new[j]
    <3>. HIDE DEF at, k, new
    <3>. QED BY <2>1
  <2>. QED BY <2>1, <2>3, <2>4
<1>9. \A i \in 1..(2 * k) :
         /\ list[(i + 1) \div 2] \in Missing
         /\ new[i] = RuleFor(list[(i + 1) \div 2], i)
  <2>. HIDE DEF list, k
  <2>. QED BY <1>2, <1>5
<1>10. \A i \in 1..(2 * k) : new[i] \in Rule
  <2>1. want \in Properties BY DEF AlbTypeOK
  <2>2. want.path \in Path /\ Missing \subseteq AppId BY <2>1 DEF Properties, Missing
  <2>3. \A a \in Missing, j \in Nat : RuleFor(a, j) \in Rule
    BY <2>1, <2>2, Names DEF RuleFor
  <2>. HIDE DEF list, new, k
  <2>. QED BY <1>1, <1>9, <2>3
<1>. HIDE DEF s, S, at, new, list, k
<1>11. \A i \in 1..(2 * k) : /\ s[i] = [do |-> "create", at |-> at[i], rule |-> q[at[i]]]
                            /\ at[i] \in S
  BY <1>6, <1>8 DEF CreateRule
<1>12. s \in Seq(Call) /\ Len(s) = 2 * k
  <2>1. \A i \in 1..(2 * k) : s[i] \in Call
    BY <1>6, <1>7, <1>8, <1>10 DEF CreateRule, Call
  <2>2. s \in [1..(2 * k) -> Call] BY <1>6, <2>1
  <2>. DEFINE n == 2 * k
  <2>3. n \in Nat /\ s \in [1..n -> Call] BY <1>1, <2>2
  <2>. HIDE DEF n
  <2>4. s \in Seq(Call) /\ Len(s) = n BY ONLY <2>3, SeqDef
  <2>. QED BY <2>4 DEF n
<1>. HIDE DEF q
<1>13. Plan(s, "create", S, q)
  <2>1. Apart(s) BY <1>3, <1>5, <1>11, <1>12 DEF Apart
  <2>2. \A n \in S : \E i \in 1..Len(s) : s[i].at = n
    BY <1>11, <1>12 DEF S
  <2>. QED BY <1>11, <1>12, <2>1, <2>2 DEF Plan
<1>14. \A n \in S : \E i \in 1..(2 * k) : n = at[i] /\ q[n] = new[i]
  BY <1>8 DEF S
<1>15. ASSUME NEW n \in S PROVE \E a \in Missing, i \in 1..2 : q[n] = RuleFor(a, i)
  <2>1. PICK i \in 1..(2 * k) : q[n] = new[i] BY <1>14
  <2>2. q[n] = RuleFor(list[(i + 1) \div 2], i) /\ list[(i + 1) \div 2] \in Missing
    BY <2>1, <1>9
  <2>3. i % 2 = 1 \/ i % 2 = 0 BY <1>1
  <2>4. CASE i % 2 = 1
    <3>1. RuleFor(list[(i + 1) \div 2], i) = RuleFor(list[(i + 1) \div 2], 1)
      BY <2>4 DEF RuleFor
    <3>. QED BY <3>1, <2>2
  <2>5. CASE i % 2 = 0
    <3>1. RuleFor(list[(i + 1) \div 2], i) = RuleFor(list[(i + 1) \div 2], 2)
      BY <2>5 DEF RuleFor
    <3>. QED BY <3>1, <2>2
  <2>. QED BY <2>3, <2>4, <2>5
<1>16. ASSUME NEW m \in S, NEW n \in S, SameKind(q[m], q[n]) PROVE m = n
  <2>1. PICK i \in 1..(2 * k) : m = at[i] /\ q[m] = new[i] BY <1>14
  <2>2. PICK j \in 1..(2 * k) : n = at[j] /\ q[n] = new[j] BY <1>14
  <2>. DEFINE a == list[(i + 1) \div 2]
              b == list[(j + 1) \div 2]
  <2>3. q[m] = RuleFor(a, i) /\ q[n] = RuleFor(b, j) BY <2>1, <2>2, <1>9
  <2>4. want.path # "ping" BY Names DEF AlbTypeOK, Properties
  <2>5. a = b /\ (i % 2 = 1 <=> j % 2 = 1)
    <3>. HIDE DEF a, b
    <3>. QED BY <1>16, <2>3, <2>4 DEF SameKind, RuleFor, Forward
  <2>6. (i + 1) \div 2 = (j + 1) \div 2 BY <2>5, <1>2, <1>5
  <2>7. i = j BY <2>5, <2>6, <1>1
  <2>. QED BY <2>1, <2>2, <2>7
<1>17. ASSUME NEW a \in Missing, NEW i \in 1..2
       PROVE  \E n \in S : q[n] = RuleFor(a, i)
  <2>1. PICK j \in 1..k : list[j] = a BY <1>2
  <2>. DEFINE l == IF i = 1 THEN 2 * j - 1 ELSE 2 * j
  <2>2. l \in 1..(2 * k) /\ (l + 1) \div 2 = j /\ (l % 2 = 1 <=> i % 2 = 1)
    BY <1>1
  <2>. HIDE DEF l
  <2>3. new[l] = RuleFor(a, l) BY <2>1, <2>2, <1>9
  <2>4. RuleFor(a, l) = RuleFor(a, i) BY <2>2 DEF RuleFor
  <2>. QED BY <2>2, <2>3, <2>4, <1>8
<1>18. PlansApps(s, S, q) BY <1>7, <1>13, <1>15, <1>16, <1>17 DEF PlansApps
<1>. QED BY <1>7, <1>18 DEF s

-----------------------------------------------------------------------------
(* What each step makes of a good table.                                   *)

\* Where table t has rules in table u, of the same applications and kinds.
Alike(t, u) ==
    \A n \in Priority : u[n] = t[n] \/ (t[n] # NoRule /\ u[n] # NoRule /\ SameKind(t[n], u[n]))

LEMMA AlikeKeeps ==
    ASSUME NEW t \in [Priority -> Rule], NEW u \in [Priority -> Rule], Alike(t, u),
           NEW D, NEW s \in {"path", "ping", "secret"}
    PROVE  /\ Fixed(t, D) => Fixed(u, D \cup {s})
           /\ Single(t) => Single(u)
           /\ Kept(t, D) => Kept(u, D \cup {s})
<1>1. \A n \in Priority : (t[n] # NoRule) = (u[n] # NoRule) /\ SameKind(t[n], u[n])
  BY DEF Alike, SameKind
<1>2. 1..4 \subseteq Priority /\ AppPriority \subseteq Priority BY Priorities
<1>3. Fixed(t, D) => Fixed(u, D \cup {s})
  BY <1>1, <1>2 DEF Fixed
<1>4. Single(t) => Single(u)
  BY <1>1, <1>2 DEF Single, SameKind
<1>5. ASSUME NEW a PROVE (None(a, t) <=> None(a, u)) /\ (Pair(a, t) <=> Pair(a, u))
  BY <1>1, <1>2 DEF None, Pair, SameKind
<1>6. /\ "reset" \in D \cup {s} <=> "reset" \in D
      /\ "apps" \in D \cup {s} <=> "apps" \in D
      /\ "remove" \in D \cup {s} <=> "remove" \in D
      /\ "secret" \notin D \cup {s} => "secret" \notin D
  OBVIOUS
<1>7. Kept(t, D) => Kept(u, D \cup {s})
  BY <1>5, <1>6 DEF Kept
<1>. QED BY <1>3, <1>4, <1>7

\* updateEndpointPathAndHostHeader, first half.
LEMMA AimPath ==
    ASSUME AlbTypeOK, Good(rules, {}),
           NEW u, u = [n \in Priority |-> IF n \in MovedAt THEN Moved[n] ELSE rules[n]]
    PROVE  Good(u, {"path"}) /\ Alike(rules, u)
<1>1. rules \in [Priority -> Rule] /\ want \in Properties /\ old \in Properties
  BY DEF AlbTypeOK
<1>2. u \in [Priority -> Rule] BY <1>1, NewTables
<1>3. ASSUME NEW n \in Priority
      PROVE  /\ u[n] = rules[n]
                \/ /\ rules[n] # NoRule /\ rules[n].path = old.path /\ n \in MovedAt
                   /\ u[n] = [rules[n] EXCEPT !.path = want.path, !.host = want.host]
             /\ rules[n] # NoRule /\ rules[n].path = old.path =>
                   u[n].path = want.path /\ u[n].host = want.host
  <2>1. Moved[n] = [rules[n] EXCEPT !.path = want.path, !.host = want.host]
    BY DEF Moved
  <2>2. CASE n \in MovedAt
    <3>1. rules[n] # NoRule /\ rules[n].path = old.path BY <2>2 DEF MovedAt, Existing
    <3>2. u[n] = [rules[n] EXCEPT !.path = want.path, !.host = want.host]
      BY <2>1, <2>2
    <3>3. u[n].path = want.path /\ u[n].host = want.host BY <3>2, <1>1, ZenonT(60) DEF Rule
    <3>. QED BY <2>2, <3>1, <3>2, <3>3
  <2>3. CASE n \notin MovedAt
    <3>1. u[n] = rules[n] BY <2>3
    <3>2. CASE want.path = old.path /\ want.host = old.host
      <4>. SUFFICES ASSUME rules[n] # NoRule, rules[n].path = old.path
                    PROVE  rules[n].host = want.host
        BY <3>1, <3>2
      <4>1. \E c \in {old, want} : rules[n].path = c.path /\ rules[n].host = c.host
        BY <1>1 DEF Good, Follows, Asked, Properties
      <4>. QED BY <4>1, <3>2
    <3>3. CASE ~(want.path = old.path /\ want.host = old.host)
      <4>1. ~(rules[n] # NoRule /\ rules[n].path = old.path)
        BY <2>3, <3>3 DEF MovedAt, Existing
      <4>. QED BY <3>1, <4>1
    <3>. QED BY <3>2, <3>3
  <2>. QED BY <2>2, <2>3
<1>4. want.path \in Path /\ old.path \in Path BY <1>1 DEF Properties
<1>5. "ping" \notin Path /\ "none" \notin Path /\ "/*" \notin Path /\ "/login" \notin Path
  BY Names
<1>6. Alike(rules, u)
  <2>. SUFFICES ASSUME NEW n \in Priority
                PROVE  \/ u[n] = rules[n]
                       \/ rules[n] # NoRule /\ u[n] # NoRule /\ SameKind(rules[n], u[n])
    BY DEF Alike
  <2>1. CASE u[n] = rules[n] BY <2>1
  <2>2. CASE /\ rules[n] # NoRule /\ rules[n].path = old.path
             /\ u[n] = [rules[n] EXCEPT !.path = want.path, !.host = want.host]
    <3>. DEFINE r == rules[n]
                v == u[n]
    <3>1. r \in Rule /\ v = [r EXCEPT !.path = want.path, !.host = want.host]
      BY <2>2, <1>1
    <3>. HIDE DEF r, v
    <3>2. v.app = r.app /\ v.path = want.path BY ONLY <3>1 DEF Rule
    <3>. USE DEF r, v
    <3>3. u[n] # NoRule BY <3>2, <1>4, <1>5 DEF NoRule
    <3>. QED BY <2>2, <3>2, <3>3, <1>4, <1>5 DEF SameKind
  <2>. QED BY <2>1, <2>2, <1>3
<1>7. Follows(u, {"path"})
  <2>. SUFFICES ASSUME NEW n \in Priority
                PROVE  /\ Placed(n, u[n])
                       /\ u[n].path \in Path => u[n].path = want.path /\ u[n].host = want.host
                       /\ u[n].path = "ping" => \E c \in {old, want} : u[n].host = c.host
                       /\ u[n].path \in Path \cup {"ping", "/login"} =>
                             \E c \in {old, want} : u[n].secret = c.secret
    BY DEF Follows, Asked
  <2>1. /\ Placed(n, rules[n])
        /\ rules[n].path \in Path =>
             \E c \in {old, want} : rules[n].path = c.path /\ rules[n].host = c.host
        /\ rules[n].path = "ping" => \E c \in {old, want} : rules[n].host = c.host
        /\ rules[n].path \in Path \cup {"ping", "/login"} =>
              \E c \in {old, want} : rules[n].secret = c.secret
    BY DEF Good, Follows, Asked
  <2>2. CASE u[n] = rules[n]
    <3>1. rules[n].path = old.path => rules[n] # NoRule BY <1>4, <1>5 DEF NoRule
    <3>. QED BY <2>1, <2>2, <3>1, <1>3
  <2>3. CASE /\ rules[n] # NoRule /\ rules[n].path = old.path
             /\ u[n] = [rules[n] EXCEPT !.path = want.path, !.host = want.host]
    <3>. DEFINE r == rules[n]
                v == u[n]
    <3>0. r \in Rule /\ v = [r EXCEPT !.path = want.path, !.host = want.host]
      BY <2>3, <1>1
    <3>. HIDE DEF r, v
    <3>1. /\ v.app = r.app /\ v.secret = r.secret
          /\ v.path = want.path /\ v.host = want.host
      BY ONLY <3>0 DEF Rule
    <3>. USE DEF r, v
    <3>2. Placed(n, u[n]) BY <2>1, <2>3, <3>1, <1>4, <1>5 DEF Placed, FixedResponse
    <3>. QED BY <2>1, <2>3, <3>1, <3>2, <1>4, <1>5
  <2>. QED BY <2>2, <2>3, <1>3
<1>8. {} \cup {"path"} = {"path"} OBVIOUS
<1>. QED BY <1>1, <1>2, <1>6, <1>7, <1>8, AlikeKeeps DEF Good

\* updateEndpointPathAndHostHeader, second half.
LEMMA AimPing ==
    ASSUME AlbTypeOK, Good(rules, {"path"}),
           NEW u, u = [n \in Priority |-> IF n \in RehostedAt THEN Rehosted[n] ELSE rules[n]]
    PROVE  Good(u, {"path", "ping"}) /\ Alike(rules, u)
<1>1. rules \in [Priority -> Rule] /\ want \in Properties /\ old \in Properties
  BY DEF AlbTypeOK
<1>2. u \in [Priority -> Rule] BY <1>1, NewTables
<1>3. "ping" \notin Path /\ "none" \notin Path BY Names
<1>4. ASSUME NEW n \in Priority
      PROVE  /\ u[n].app = rules[n].app /\ u[n].path = rules[n].path
             /\ u[n].secret = rules[n].secret
             /\ IF rules[n].path = "ping" THEN u[n].host = want.host ELSE u[n] = rules[n]
  <2>. DEFINE r == rules[n]
              v == u[n]
  <2>1. r \in Rule BY <1>1
  <2>2. CASE n \in RehostedAt
    <3>1. v = [r EXCEPT !.host = want.host] BY <2>2 DEF Rehosted
    <3>2. rules[n].path = "ping" BY <2>2 DEF RehostedAt
    <3>. HIDE DEF r, v
    <3>3. v.app = r.app /\ v.path = r.path /\ v.secret = r.secret /\ v.host = want.host
      BY ONLY <3>1, <2>1 DEF Rule
    <3>. QED BY <3>2, <3>3 DEF r, v
  <2>3. CASE n \notin RehostedAt
    <3>1. u[n] = rules[n] BY <2>3
    <3>2. CASE want.host = old.host
      <4>1. rules[n].path = "ping" => \E c \in {old, want} : rules[n].host = c.host
        BY DEF Good, Follows, Asked
      <4>. QED BY <3>1, <3>2, <4>1
    <3>3. CASE want.host # old.host
      <4>1. ~(rules[n] # NoRule /\ rules[n].path = "ping")
        BY <2>3, <3>3 DEF RehostedAt, Existing
      <4>. QED BY <3>1, <4>1 DEF NoRule
    <3>. QED BY <3>2, <3>3
  <2>. QED BY <2>2, <2>3
<1>5. Alike(rules, u)
  <2>. SUFFICES ASSUME NEW n \in Priority
                PROVE  \/ u[n] = rules[n]
                       \/ rules[n] # NoRule /\ u[n] # NoRule /\ SameKind(rules[n], u[n])
    BY DEF Alike
  <2>1. CASE rules[n].path = "ping"
    <3>1. u[n] # NoRule /\ rules[n] # NoRule BY <2>1, <1>4 DEF NoRule
    <3>. QED BY <3>1, <1>4 DEF SameKind
  <2>. QED BY <2>1, <1>4
<1>6. Follows(u, {"path", "ping"})
  <2>. SUFFICES ASSUME NEW n \in Priority
                PROVE  /\ Placed(n, u[n])
                       /\ u[n].path \in Path => u[n].path = want.path /\ u[n].host = want.host
                       /\ u[n].path = "ping" => u[n].host = want.host
                       /\ u[n].path \in Path \cup {"ping", "/login"} =>
                             \E c \in {old, want} : u[n].secret = c.secret
    BY DEF Follows, Asked
  <2>1. /\ Placed(n, rules[n])
        /\ rules[n].path \in Path => rules[n].path = want.path /\ rules[n].host = want.host
        /\ rules[n].path \in Path \cup {"ping", "/login"} =>
              \E c \in {old, want} : rules[n].secret = c.secret
    BY DEF Good, Follows, Asked
  <2>2. CASE rules[n].path = "ping"
    <3>1. Placed(n, u[n]) BY <2>1, <2>2, <1>3, <1>4 DEF Placed, FixedResponse, NoRule
    <3>. QED BY <2>1, <2>2, <3>1, <1>3, <1>4
  <2>3. CASE rules[n].path # "ping"
    <3>1. u[n] = rules[n] BY <2>3, <1>4
    <3>. QED BY <2>1, <2>3, <3>1
  <2>. QED BY <2>2, <2>3
<1>7. {"path"} \cup {"ping"} = {"path", "ping"} OBVIOUS
<1>. QED BY <1>1, <1>2, <1>5, <1>6, <1>7, AlikeKeeps DEF Good

\* updateAuthenticationSecretArn.  A listener has a secret or none for good.
LEMMA AimSecret ==
    ASSUME AlbTypeOK, SameListener(old, want), Good(rules, {"path", "ping"}),
           NEW u, u = [n \in Priority |-> IF n \in ResecuredAt THEN Resecured[n] ELSE rules[n]]
    PROVE  Good(u, {"path", "ping", "secret"}) /\ Alike(rules, u)
<1>1. rules \in [Priority -> Rule] /\ want \in Properties /\ old \in Properties
  BY DEF AlbTypeOK
<1>2. u \in [Priority -> Rule] BY <1>1, NewTables
<1>3. "ping" \notin Path /\ "none" \notin Path /\ "/*" \notin Path BY Names
<1>4. (old.secret = NoSecret) = (want.secret = NoSecret) BY DEF SameListener
<1>5. ASSUME NEW n \in Priority
      PROVE  /\ u[n].app = rules[n].app /\ u[n].path = rules[n].path
             /\ u[n].host = rules[n].host
             /\ rules[n].path \in Path \cup {"ping", "/login"} => u[n].secret = want.secret
             /\ rules[n].path \notin Path \cup {"ping", "/login"} => u[n] = rules[n]
  <2>. DEFINE r == rules[n]
              v == u[n]
  <2>1. r \in Rule BY <1>1
  <2>2. rules[n].path \in Path \cup {"ping", "/login"} =>
              \E c \in {old, want} : rules[n].secret = c.secret
    BY DEF Good, Follows, Asked
  <2>3. rules[n].path \notin Path \cup {"ping", "/login"} => rules[n].secret = NoSecret
    <3>1. Placed(n, rules[n]) BY DEF Good, Follows
    <3>. QED BY <3>1 DEF Placed, FixedResponse, NoRule
  <2>4. CASE n \in ResecuredAt
    <3>1. v = [r EXCEPT !.secret = want.secret] BY <2>4 DEF Resecured
    <3>2. rules[n].secret # NoSecret BY <2>4 DEF ResecuredAt
    <3>. HIDE DEF r, v
    <3>3. v.app = r.app /\ v.path = r.path /\ v.secret = want.secret /\ v.host = r.host
      BY ONLY <3>1, <2>1 DEF Rule
    <3>. QED BY <2>3, <3>2, <3>3 DEF r, v
  <2>5. CASE n \notin ResecuredAt
    <3>1. u[n] = rules[n] BY <2>5
    <3>2. CASE want.secret = old.secret BY <3>1, <3>2, <2>2
    <3>3. CASE want.secret # old.secret
      <4>1. ~(rules[n] # NoRule /\ rules[n].secret # NoSecret)
        BY <2>5, <3>3 DEF ResecuredAt, Existing
      <4>2. rules[n].secret = NoSecret BY <4>1 DEF NoRule
      <4>3. old.secret # NoSecret /\ want.secret # NoSecret BY <3>3, <1>4
      <4>. QED BY <2>2, <3>1, <4>2, <4>3
    <3>. QED BY <3>2, <3>3
  <2>. QED BY <2>4, <2>5
<1>6. Alike(rules, u)
  <2>. SUFFICES ASSUME NEW n \in Priority
                PROVE  \/ u[n] = rules[n]
                       \/ rules[n] # NoRule /\ u[n] # NoRule /\ SameKind(rules[n], u[n])
    BY DEF Alike
  <2>1. CASE rules[n].path \in Path \cup {"ping", "/login"}
    <3>1. u[n] # NoRule /\ rules[n] # NoRule BY <2>1, <1>3, <1>5 DEF NoRule
    <3>. QED BY <3>1, <1>5 DEF SameKind
  <2>. QED BY <2>1, <1>5
<1>7. Follows(u, {"path", "ping", "secret"})
  <2>. SUFFICES ASSUME NEW n \in Priority
                PROVE  /\ Placed(n, u[n])
                       /\ u[n].path \in Path => u[n].path = want.path /\ u[n].host = want.host
                       /\ u[n].path = "ping" => u[n].host = want.host
                       /\ u[n].path \in Path \cup {"ping", "/login"} =>
                             u[n].secret = want.secret
    BY DEF Follows, Asked
  <2>1. /\ Placed(n, rules[n])
        /\ rules[n].path \in Path => rules[n].path = want.path /\ rules[n].host = want.host
        /\ rules[n].path = "ping" => rules[n].host = want.host
    BY DEF Good, Follows, Asked
  <2>2. CASE rules[n].path \in Path \cup {"ping", "/login"}
    <3>1. Placed(n, u[n]) BY <2>1, <2>2, <1>3, <1>5 DEF Placed, FixedResponse, NoRule
    <3>. QED BY <2>1, <2>2, <3>1, <1>5
  <2>3. CASE rules[n].path \notin Path \cup {"ping", "/login"}
    <3>1. u[n] = rules[n] BY <2>3, <1>5
    <3>. QED BY <2>1, <2>3, <3>1
  <2>. QED BY <2>2, <2>3
<1>8. {"path", "ping"} \cup {"secret"} = {"path", "ping", "secret"} OBVIOUS
<1>. QED BY <1>1, <1>2, <1>6, <1>7, <1>8, AlikeKeeps DEF Good

\* handleCreate: the rules for no application and the login.
LEMMA AimDefault ==
    ASSUME AlbTypeOK, stage = "Create", old = want, halved = {},
           rules = [n \in Priority |-> NoRule],
           NEW u, u = [n \in Priority |->
                         IF n \in {2, 3} \cup (IF want.secret = NoSecret THEN {} ELSE {4})
                         THEN Renewed[n] ELSE rules[n]]
    PROVE  Good(u, {"default"})
<1>1. want \in Properties /\ want.path \in Path BY DEF AlbTypeOK, Properties
<1>2. {"none", "ping", "/*", "/login"} \cap Path = {} /\ {"none", "any"} \cap AppId = {} BY Names
<1>3. /\ 1 \in Priority /\ 2 \in Priority /\ 3 \in Priority /\ 4 \in Priority
      /\ \A n \in AppPriority : n \in Priority /\ n \notin 1..4
  BY Priorities
<1>4. /\ u[1] = NoRule /\ u[2] = DefaultForward(want) /\ u[3] = DefaultPing(want)
      /\ u[4] = IF want.secret = NoSecret THEN NoRule ELSE AuthLogin(want)
      /\ \A n \in AppPriority : u[n] = NoRule
  BY <1>3 DEF Renewed
<1>5. /\ DefaultForward(want) # NoRule /\ DefaultPing(want) # NoRule
      /\ AuthLogin(want) # NoRule
  BY <1>1, Names DEF DefaultForward, DefaultPing
<1>6. Follows(u, {"default"})
  <2>. SUFFICES ASSUME NEW n \in Priority
                PROVE  /\ Placed(n, u[n])
                       /\ u[n].path \in Path => u[n].path = want.path /\ u[n].host = want.host
                       /\ u[n].path = "ping" => u[n].host = want.host
                       /\ u[n].path \in Path \cup {"ping", "/login"} =>
                             u[n].secret = want.secret
    BY DEF Follows, Asked
  <2>1. CASE u[n] = NoRule BY <2>1, <1>2 DEF NoRule, Placed
  <2>2. CASE n = 2
    BY <2>2, <1>1, <1>2, <1>4 DEF Placed, DefaultForward, Forward
  <2>3. CASE n = 3
    BY <2>3, <1>1, <1>2, <1>4 DEF Placed, DefaultPing, Forward
  <2>4. CASE n = 4 /\ u[n] = AuthLogin(want)
    BY <2>4, <1>1, <1>2, <1>4 DEF Placed, AuthLogin
  <2>5. n = 1 \/ n = 2 \/ n = 3 \/ n = 4 \/ n \in AppPriority
    BY Priorities
  <2>. QED BY <2>1, <2>2, <2>3, <2>4, <2>5, <1>4
<1>7. Fixed(u, {"default"})
  BY <1>4, <1>5, Priorities DEF Fixed
<1>8. Single(u) BY <1>4 DEF Single
<1>9. \A a \in AppId : None(a, u) BY <1>2, <1>4 DEF None, NoRule
<1>10. Kept(u, {"default"})
  <2>1. want.apps \in SUBSET AppId BY <1>1 DEF Properties
  <2>. QED BY <1>9, <2>1 DEF Kept, Changing
<1>. QED BY <1>6, <1>7, <1>8, <1>10 DEF Good

BeforeApps == {"default", "path", "ping", "secret"}

LEMMA AimApps ==
    ASSUME AlbTypeOK, want.sdk, stage # "Settled", Good(rules, BeforeApps),
           \A a \in want.apps \ halved : Pair(a, rules) \/ None(a, rules),
           NEW s, NEW S \in SUBSET Priority, NEW q, PlansApps(s, S, q),
           NEW u, u = [n \in Priority |-> IF n \in S THEN q[n] ELSE rules[n]]
    PROVE  /\ Good(u, BeforeApps \cup {"apps"})
           /\ \A n \in S : /\ n \in AppPriority /\ rules[n] = NoRule
                           /\ q[n] # NoRule /\ q[n].app \in want.apps
<1>. DEFINE D == BeforeApps \cup {"apps"}
<1>1. /\ rules \in [Priority -> Rule] /\ want \in Properties /\ want.path \in Path
      /\ want.apps \in SUBSET AppId
  BY DEF AlbTypeOK, Properties
<1>2. {"none", "ping", "/*", "/login"} \cap Path = {} /\ {"none", "any"} \cap AppId = {} BY Names
<1>3. \A n \in AppPriority : n \in Priority /\ n \notin 1..4 BY Priorities
<1>4. Missing \subseteq want.apps
      /\ \A a \in Missing : \A n \in AppPriority : rules[n] # NoRule => rules[n].app # a
  BY DEF Missing, ExistingAppIds, Existing
<1>5. \A n \in S : n \in AppPriority /\ rules[n] = NoRule
  BY <1>3 DEF PlansApps, Free, Existing
<1>6. ASSUME NEW n \in S
      PROVE  /\ q[n].app \in Missing /\ q[n] # NoRule /\ q[n].app # "none"
             /\ q[n].path \in {want.path, "ping"} /\ q[n].host = want.host
             /\ q[n].secret = want.secret
  <2>1. PICK a \in Missing, i \in 1..2 : q[n] = RuleFor(a, i) BY DEF PlansApps
  <2>2. /\ q[n].app = a /\ q[n].path \in {want.path, "ping"} /\ q[n].host = want.host
        /\ q[n].secret = want.secret
    BY <2>1 DEF RuleFor, Forward
  <2>3. a # "none" BY <1>1, <1>2, <1>4
  <2>. QED BY <2>2, <2>3 DEF NoRule
<1>7. \A n \in Priority : u[n] = IF n \in S THEN q[n] ELSE rules[n] OBVIOUS
<1>. HIDE DEF D
<1>8. Follows(u, D)
  <2>. SUFFICES ASSUME NEW n \in Priority
                PROVE  /\ Placed(n, u[n])
                       /\ u[n].path \in Path => u[n].path = want.path /\ u[n].host = want.host
                       /\ u[n].path = "ping" => u[n].host = want.host
                       /\ u[n].path \in Path \cup {"ping", "/login"} =>
                             u[n].secret = want.secret
    BY DEF Follows, Asked, D, BeforeApps
  <2>1. /\ Placed(n, rules[n])
        /\ rules[n].path \in Path => rules[n].path = want.path /\ rules[n].host = want.host
        /\ rules[n].path = "ping" => rules[n].host = want.host
        /\ rules[n].path \in Path \cup {"ping", "/login"} => rules[n].secret = want.secret
    BY DEF Good, Follows, Asked, BeforeApps
  <2>2. CASE n \in S
    <3>1. u[n] = q[n] BY <2>2
    <3>2. Placed(n, q[n]) BY <2>2, <1>1, <1>4, <1>5, <1>6 DEF Placed
    <3>. QED BY <2>2, <3>1, <3>2, <1>2, <1>6
  <2>3. CASE n \notin S BY <2>1, <2>3
  <2>. QED BY <2>2, <2>3
<1>9. Fixed(u, D)
  <2>1. \A n \in 1..4 : u[n] = rules[n] BY <1>3, <1>5, <1>7, Priorities
  <2>2. Fixed(rules, BeforeApps) BY DEF Good
  <2>. QED BY <2>1, <2>2 DEF Fixed, D, BeforeApps
<1>10. Single(u)
  <2>. SUFFICES ASSUME NEW m \in AppPriority, NEW n \in AppPriority,
                       u[m] # NoRule, u[n] # NoRule, SameKind(u[m], u[n])
                PROVE  m = n
    BY DEF Single
  <2>1. m \in Priority /\ n \in Priority BY <1>3
  <2>2. CASE m \in S /\ n \in S
    BY <2>1, <2>2, <1>7 DEF PlansApps
  <2>3. CASE m \in S /\ n \notin S
    <3>1. u[m] = q[m] /\ u[n] = rules[n] BY <2>1, <2>3, <1>7
    <3>2. rules[n].app = q[m].app BY <3>1 DEF SameKind
    <3>. QED BY <2>3, <3>1, <3>2, <1>4, <1>6
  <2>4. CASE m \notin S /\ n \in S
    <3>1. u[m] = rules[m] /\ u[n] = q[n] BY <2>1, <2>4, <1>7
    <3>2. rules[m].app = q[n].app BY <3>1 DEF SameKind
    <3>. QED BY <2>4, <3>1, <3>2, <1>4, <1>6
  <2>5. CASE m \notin S /\ n \notin S
    BY <2>1, <2>5, <1>7 DEF Good, Single
  <2>. QED BY <2>2, <2>3, <2>4, <2>5
<1>11. ASSUME NEW a \in AppId
       PROVE  /\ Pair(a, rules) => Pair(a, u)
              /\ a \notin want.apps /\ None(a, rules) => None(a, u)
  <2>1. \A n \in AppPriority : rules[n].app = a => n \notin S /\ u[n] = rules[n]
    BY <1>2, <1>3, <1>5, <1>7 DEF NoRule
  <2>2. \A n \in AppPriority : n \in S => u[n].app \in want.apps
    BY <1>3, <1>4, <1>6, <1>7
  <2>3. \A n \in AppPriority : n \notin S => u[n] = rules[n] BY <1>3, <1>7
  <2>4. Pair(a, rules) => Pair(a, u) BY <2>1, ZenonT(60) DEF Pair
  <2>5. a \notin want.apps /\ None(a, rules) => None(a, u) BY <2>2, <2>3 DEF None
  <2>. QED BY <2>4, <2>5
<1>12. ASSUME NEW a \in Missing PROVE Pair(a, u)
  <2>1. PICK m \in S : q[m] = RuleFor(a, 2) BY DEF PlansApps
  <2>2. PICK n \in S : q[n] = RuleFor(a, 1) BY DEF PlansApps
  <2>3. /\ q[m].app = a /\ q[m].path = "ping" /\ q[n].app = a /\ q[n].path = want.path
    BY <2>1, <2>2 DEF RuleFor, Forward
  <2>4. u[m] = q[m] /\ u[n] = q[n] /\ m \in AppPriority /\ n \in AppPriority
    BY <1>5, <1>7
  <2>5. want.path # "ping" BY <1>1, <1>2
  <2>. QED BY <2>3, <2>4, <2>5 DEF Pair
<1>13. ASSUME NEW a \in want.apps
       PROVE  ~None(a, u) /\ (a \notin halved => Pair(a, u))
  <2>0. a \in AppId BY <1>1
  <2>1. CASE a \in Missing
    <3>1. Pair(a, u) BY <2>1, <1>12
    <3>. QED BY <3>1 DEF Pair, None
  <2>2. CASE a \notin Missing
    <3>1. PICK n \in AppPriority : rules[n] # NoRule /\ rules[n].app = a
      BY <2>2 DEF Missing, ExistingAppIds, Existing
    <3>2. u[n] = rules[n] BY <3>1, <1>3, <1>5, <1>7
    <3>3. ~None(a, rules) /\ ~None(a, u) BY <3>1, <3>2 DEF None
    <3>. QED BY <3>3, <2>0, <1>11
  <2>. QED BY <2>1, <2>2
<1>14. Kept(u, D)
  <2>1. Kept(rules, BeforeApps) BY DEF Good
  <2>2. "reset" \notin D /\ "remove" \notin D /\ "secret" \in D /\ "reset" \notin BeforeApps
    BY DEF D, BeforeApps
  <2>3. old.apps \in SUBSET AppId BY DEF AlbTypeOK, Properties
  <2>. QED BY <2>1, <2>2, <2>3, <1>1, <1>11, <1>13 DEF Kept
<1>15. Good(u, D) BY <1>8, <1>9, <1>10, <1>14 DEF Good
<1>. QED BY <1>4, <1>5, <1>6, <1>15 DEF D

LEMMA SameApp ==
    ASSUME NEW a, NEW t, NEW u,
           \A n \in AppPriority : t[n].app = a \/ u[n].app = a => u[n] = t[n]
    PROVE  (None(a, u) <=> None(a, t)) /\ (Pair(a, u) <=> Pair(a, t))
<1>1. None(a, u) <=> None(a, t) BY DEF None
<1>2. Pair(a, t) => Pair(a, u)
  <2>. HAVE Pair(a, t)
  <2>1. PICK m \in AppPriority, n \in AppPriority :
               /\ t[m].app = a /\ t[m].path = "ping"
               /\ t[n].app = a /\ t[n].path # "ping"
    BY DEF Pair
  <2>2. u[m] = t[m] /\ u[n] = t[n] BY <2>1
  <2>. QED BY <2>1, <2>2 DEF Pair
<1>3. Pair(a, u) => Pair(a, t)
  <2>. HAVE Pair(a, u)
  <2>1. PICK m \in AppPriority, n \in AppPriority :
               /\ u[m].app = a /\ u[m].path = "ping"
               /\ u[n].app = a /\ u[n].path # "ping"
    BY DEF Pair
  <2>2. u[m] = t[m] /\ u[n] = t[n] BY <2>1
  <2>. QED BY <2>1, <2>2 DEF Pair
<1>. QED BY <1>1, <1>2, <1>3

\* handleReset and the start of an update without applications: only priorities
\* 1 to 3 are touched.
LEMMA AimReset ==
    ASSUME AlbTypeOK, want.sdk, Good(rules, Done("reset")),
           NEW u, u = [n \in Priority |-> IF n \in RenewedAt THEN Renewed[n] ELSE rules[n]]
    PROVE  Good(u, Done("reset") \cup {"reset"})
<1>. DEFINE E == Done("reset")
            D == Done("reset") \cup {"reset"}
<1>1. /\ want \in Properties /\ want.path \in Path /\ old.apps \in SUBSET AppId
      /\ want.apps \in SUBSET AppId
  BY DEF AlbTypeOK, Properties
<1>2. {"none", "ping", "/*", "/login"} \cap Path = {} BY Names
<1>3. /\ 1 \in Priority /\ 2 \in Priority /\ 3 \in Priority /\ 4 \in Priority
      /\ \A n \in AppPriority : n \in Priority /\ n \notin 1..4
  BY Priorities
<1>4. RenewedAt \subseteq {1, 2, 3} BY DEF RenewedAt
<1>5. /\ \A n \in Priority : n \notin RenewedAt => u[n] = rules[n]
      /\ 1 \in RenewedAt => u[1] = FixedResponse
      /\ 2 \in RenewedAt => u[2] = DefaultForward(want)
      /\ 3 \in RenewedAt => u[3] = DefaultPing(want)
  BY <1>3 DEF Renewed
<1>6. \A n \in AppPriority : u[n] = rules[n]
  <2>1. \A n \in AppPriority : n \in Priority /\ n \notin RenewedAt
    <3>1. {1, 2, 3} \subseteq 1..4 OBVIOUS
    <3>. QED BY <3>1, <1>3, <1>4
  <2>. QED BY <2>1, <1>5
<1>7. /\ \A s \in {"default", "path", "ping", "secret", "apps"} : s \in D /\ s \in E
      /\ "reset" \in D /\ "reset" \notin E /\ "remove" \notin D
  BY DEF Done
<1>. HIDE DEF E, D
<1>8. Follows(u, D)
  <2>. SUFFICES ASSUME NEW n \in Priority
                PROVE  /\ Placed(n, u[n])
                       /\ u[n].path \in Path => u[n].path = want.path /\ u[n].host = want.host
                       /\ u[n].path = "ping" => u[n].host = want.host
                       /\ u[n].path \in Path \cup {"ping", "/login"} =>
                             u[n].secret = want.secret
    BY <1>7 DEF Follows, Asked
  <2>1. CASE n \notin RenewedAt
    <3>1. Follows(rules, E) BY DEF Good, E
    <3>. QED BY <2>1, <3>1, <1>5, <1>7 DEF Follows, Asked
  <2>2. CASE n = 1 /\ n \in RenewedAt
    BY <2>2, <1>2, <1>5 DEF Placed, FixedResponse
  <2>3. CASE n = 2 /\ n \in RenewedAt
    BY <2>3, <1>1, <1>2, <1>5 DEF Placed, DefaultForward, Forward
  <2>4. CASE n = 3 /\ n \in RenewedAt
    BY <2>4, <1>1, <1>2, <1>5 DEF Placed, DefaultPing, Forward
  <2>. QED BY <2>1, <2>2, <2>3, <2>4, <1>4
<1>9. Fixed(u, D)
  <2>1. Fixed(rules, E) BY DEF Good, E
  <2>2. u[4] = rules[4] BY <1>3, <1>4, <1>5
  <2>3. want.apps # {} => RenewedAt = {} BY DEF RenewedAt
  <2>4. want.apps = {} => u[1] # NoRule
    <3>1. CASE rules[1] = NoRule /\ want.apps = {}
      <4>1. 1 \in RenewedAt BY <3>1 DEF RenewedAt
      <4>. QED BY <4>1, <1>5, Names
    <3>2. CASE rules[1] # NoRule /\ want.apps = {}
      <4>1. 1 \notin RenewedAt BY <3>2 DEF RenewedAt
      <4>. QED BY <3>2, <4>1, <1>3, <1>5
    <3>. QED BY <3>1, <3>2
  <2>. QED BY <2>1, <2>2, <2>3, <2>4, <1>3, <1>5, <1>7 DEF Fixed
<1>10. Single(u) BY <1>6 DEF Good, Single
<1>11. \A a \in AppId : (None(a, u) <=> None(a, rules)) /\ (Pair(a, u) <=> Pair(a, rules))
  BY <1>6, SameApp
<1>12. Kept(u, D)
  <2>1. Kept(rules, E) BY DEF Good, E
  <2>. QED BY <2>1, <1>1, <1>7, <1>11 DEF Kept
<1>13. Good(u, D) BY <1>8, <1>9, <1>10, <1>12 DEF Good
<1>. QED BY <1>13 DEF D

\* getDeleteAppIdRules: the applications that are wanted keep their rules.
LEMMA AimRemove ==
    ASSUME AlbTypeOK, want.sdk, Good(rules, Done("remove")),
           stage \in {"Create", "Update", "Rollback"},
           stage = "Create" => old = want /\ halved = {},
           NEW u, u = [n \in Priority |-> IF n \in RemovedAt THEN Emptied[n] ELSE rules[n]]
    PROVE  /\ Good(u, Done("remove") \cup {"remove"})
           /\ \A n \in RemovedAt : n \in 1..3 \/ (n \in AppPriority /\ rules[n].app \notin want.apps)
<1>. DEFINE E == Done("remove")
            D == Done("remove") \cup {"remove"}
<1>1. /\ want.apps \in SUBSET AppId /\ old.apps \in SUBSET AppId
      /\ rules \in [Priority -> Rule]
  BY DEF AlbTypeOK, Properties
<1>2. {"none", "ping", "/*", "/login"} \cap Path = {} /\ {"none", "any"} \cap AppId = {}
  BY Names
<1>3. /\ 1 \in Priority /\ 2 \in Priority /\ 3 \in Priority /\ 4 \in Priority
      /\ \A n \in AppPriority : n \in Priority /\ n \notin 1..4
  BY Priorities
<1>4. \A n \in Priority : u[n] = IF n \in RemovedAt THEN NoRule ELSE rules[n]
  BY DEF Emptied
<1>5. \A n \in RemovedAt : n \in 1..3 \/ (n \in AppPriority /\ rules[n].app \notin want.apps)
  BY DEF RemovedAt, RemovedRules, Existing
<1>6. /\ 4 \notin RemovedAt
      /\ want.apps # {} => \A n \in 1..3 : n \in RemovedAt \/ rules[n] = NoRule
      /\ want.apps = {} => 1 \notin RemovedAt
  BY <1>3 DEF RemovedAt, RemovedRules, Existing
<1>7. /\ \A s \in {"default", "path", "ping", "secret", "apps", "reset"} : s \in D /\ s \in E
      /\ "remove" \in D /\ "remove" \notin E
  BY DEF Done
<1>. HIDE DEF E, D
<1>8. Follows(u, D)
  <2>. SUFFICES ASSUME NEW n \in Priority
                PROVE  /\ Placed(n, u[n])
                       /\ u[n].path \in Path => u[n].path = want.path /\ u[n].host = want.host
                       /\ u[n].path = "ping" => u[n].host = want.host
                       /\ u[n].path \in Path \cup {"ping", "/login"} =>
                             u[n].secret = want.secret
    BY <1>7 DEF Follows, Asked
  <2>1. CASE n \notin RemovedAt
    <3>1. Follows(rules, E) BY DEF Good, E
    <3>. QED BY <2>1, <3>1, <1>4, <1>7 DEF Follows, Asked
  <2>2. CASE n \in RemovedAt
    BY <2>2, <1>2, <1>4 DEF Placed, NoRule
  <2>. QED BY <2>1, <2>2
<1>9. Fixed(u, D)
  <2>1. Fixed(rules, E) BY DEF Good, E
  <2>2. u[4] = rules[4] BY <1>3, <1>4, <1>6
  <2>3. old.apps # {} /\ want.apps # {} => u[1] = NoRule
    BY <2>1, <1>3, <1>4 DEF Fixed
  <2>4. want.apps = {} => u[1] # NoRule BY <2>1, <1>3, <1>4, <1>6, <1>7 DEF Fixed
  <2>5. want.apps # {} => \A n \in 1..3 : u[n] = NoRule
    BY <1>3, <1>4, <1>6, Priorities
  <2>. QED BY <2>1, <2>2, <2>3, <2>4, <2>5, <1>7 DEF Fixed
<1>10. \A n \in AppPriority : u[n] # NoRule => u[n] = rules[n] BY <1>3, <1>4
<1>11. Single(u) BY <1>10 DEF Good, Single
<1>12. ASSUME NEW a \in want.apps
       PROVE  (None(a, u) <=> None(a, rules)) /\ (Pair(a, u) <=> Pair(a, rules))
  <2>1. a # "none" BY <1>1, <1>2
  <2>2. \A n \in AppPriority : rules[n].app = a => u[n] = rules[n]
    BY <1>3, <1>4, <1>5
  <2>3. \A n \in AppPriority : u[n].app = a => u[n] = rules[n]
    BY <2>1, <1>10 DEF NoRule
  <2>. QED BY <2>2, <2>3, SameApp
<1>13. ASSUME NEW a \in AppId \ want.apps PROVE None(a, u)
  <2>1. a # "none" BY <1>2
  <2>2. CASE stage = "Create"
    <3>1. None(a, rules)
      BY <2>2 DEF Good, Kept
    <3>2. \A n \in AppPriority : u[n].app = a => u[n] = rules[n]
      BY <2>1, <1>10 DEF NoRule
    <3>. QED BY <3>1, <3>2 DEF None
  <2>3. CASE stage # "Create"
    <3>. SUFFICES ASSUME NEW n \in AppPriority, u[n].app = a PROVE FALSE
      BY DEF None
    <3>1. u[n] # NoRule /\ u[n] = rules[n] /\ n \in Priority
      BY <2>1, <1>3, <1>10 DEF NoRule
    <3>2. n \in RemovedAt BY <2>3, <3>1 DEF RemovedAt, RemovedRules, Existing
    <3>. QED BY <3>1, <3>2, <1>4
  <2>. QED BY <2>2, <2>3
<1>14. Kept(u, D)
  <2>1. Kept(rules, E) BY DEF Good, E
  <2>. QED BY <2>1, <1>1, <1>7, <1>12, <1>13 DEF Kept
<1>15. Good(u, D) BY <1>8, <1>9, <1>11, <1>14 DEF Good
<1>. QED BY <1>5, <1>15 DEF D

-----------------------------------------------------------------------------
(* Between two calls of a step.                                            *)

LEMMA DoneIsPrefix ==
    ASSUME NEW t, NEW s, Follows(t, Done(step) \cup {s}), Fixed(t, Done(step) \cup {s})
    PROVE  Follows(t, Done(step)) /\ Fixed(t, Done(step))
<1>. DEFINE D == Done(step)
            E == Done(step) \cup {s}
<1>1. \A x : x \in D => x \in E OBVIOUS
<1>2. \A x : Asked(x, E) \subseteq Asked(x, D) BY <1>1 DEF Asked
<1>3. Follows(t, E) /\ Fixed(t, E) OBVIOUS
<1>. HIDE DEF D, E
<1>4. Follows(t, D) BY <1>2, <1>3 DEF Follows
<1>5. Fixed(t, D) BY <1>1, <1>3 DEF Fixed
<1>. QED BY <1>4, <1>5 DEF D

\* A table between the rules and what the step makes of them.
Between(t) ==
    /\ t \in [Priority -> Rule]
    /\ \A n \in Priority : t[n] = rules[n] \/ t[n] = Result[n]

Within(t, u) == \A n \in AppPriority : t[n] # NoRule => u[n] # NoRule /\ SameKind(t[n], u[n])

LEMMA WithinApp ==
    ASSUME NEW t \in [Priority -> Rule], NEW u \in [Priority -> Rule], Within(t, u),
           NEW a \in AppId
    PROVE  /\ Pair(a, t) => Pair(a, u)
           /\ ~None(a, t) => ~None(a, u)
<1>1. a # "none" BY Names
<1>2. \A n \in AppPriority : t[n].app = a => t[n] # NoRule BY <1>1 DEF NoRule
<1>3. Pair(a, t) => Pair(a, u)
  <2>. HAVE Pair(a, t)
  <2>1. PICK m \in AppPriority, n \in AppPriority :
               /\ t[m].app = a /\ t[m].path = "ping"
               /\ t[n].app = a /\ t[n].path # "ping"
    BY DEF Pair
  <2>2. SameKind(t[m], u[m]) /\ SameKind(t[n], u[n]) BY <2>1, <1>2 DEF Within
  <2>3. /\ u[m].app = a /\ u[m].path = "ping" /\ u[n].app = a /\ u[n].path # "ping"
    BY <2>1, <2>2 DEF SameKind
  <2>. QED BY <2>3 DEF Pair
<1>4. ~None(a, t) => ~None(a, u) BY <1>2 DEF None, Within, SameKind
<1>. QED BY <1>3, <1>4

LEMMA WithinSingle ==
    ASSUME NEW t, NEW u, Within(t, u), Single(u)
    PROVE  Single(t)
BY DEF Single, Within, SameKind

LEMMA BetweenApps ==
    ASSUME AlbTypeOK, Stages, StepInv, step \notin {"clear"}, NEW t, Between(t)
    PROVE  /\ Within(t, rules) \/ Within(t, Result)
           /\ Within(rules, t) \/ Within(Result, t)
           /\ step \notin {"apps", "remove"} => Within(t, rules) /\ Within(rules, t)
<1>1. \A n \in AppPriority : n \in Priority /\ n \notin 1..4 /\ n \notin 1..3
  BY Priorities
<1>2. \A n \in AppPriority :
         /\ t[n] = rules[n] \/ t[n] = Result[n]
         /\ Result[n] = rules[n] \/ Changed(step, n, rules[n], Result[n])
  BY <1>1 DEF Between, StepInv
<1>3. CASE step = "apps"
  <2>1. \A n \in AppPriority : rules[n] # NoRule => Result[n] = rules[n]
    BY <1>2, <1>3 DEF Changed
  <2>. QED BY <1>2, <1>3, <2>1 DEF Within, SameKind
<1>4. CASE step = "remove"
  <2>1. \A n \in AppPriority : Result[n] # NoRule => Result[n] = rules[n]
    BY <1>2, <1>4 DEF Changed
  <2>. QED BY <1>2, <1>4, <2>1 DEF Within, SameKind
<1>5. CASE step \notin {"apps", "remove"}
  <2>1. \A n \in AppPriority :
            \/ t[n] = rules[n]
            \/ t[n] # NoRule /\ rules[n] # NoRule /\ SameKind(rules[n], t[n])
    BY <1>1, <1>2, <1>5 DEF Changed
  <2>2. Within(t, rules) /\ Within(rules, t) BY <2>1 DEF Within, SameKind
  <2>. QED BY <2>2
<1>. QED BY <1>3, <1>4, <1>5

\* Whatever calls of the step have been made, the table is as good as before it.
LEMMA GoodBetween ==
    ASSUME AlbTypeOK, Stages, CallsInv, Live, LiveInv, NEW t, Between(t)
    PROVE  Good(t, Done(step))
<1>. DEFINE D == Done(step)
<1>1. /\ rules \in [Priority -> Rule] /\ calls \in Seq(Call) /\ Apart(calls)
      /\ want.apps \in SUBSET AppId /\ old.apps \in SUBSET AppId
  BY DEF AlbTypeOK, CallsInv, Properties
<1>2. Result \in [Priority -> Rule] BY <1>1, MadeAt DEF Result
<1>3. t \in [Priority -> Rule] /\ \A n \in Priority : t[n] = rules[n] \/ t[n] = Result[n]
  BY DEF Between
<1>4. /\ Follows(rules, D) /\ Follows(Result, D) /\ Fixed(rules, D) /\ Fixed(Result, D)
  BY DoneIsPrefix DEF LiveInv, Good
<1>5. /\ 1 \in Priority /\ 2 \in Priority /\ 3 \in Priority /\ 4 \in Priority
      /\ \A n \in AppPriority : n \in Priority
      /\ \A n \in 1..3 : n \in Priority
  BY Priorities
<1>6. Follows(t, D)
  <2>. HIDE DEF D
  <2>. QED BY <1>3, <1>4 DEF Follows
<1>7. Fixed(t, D)
  <2>. HIDE DEF D
  <2>. QED BY <1>3, <1>4, <1>5 DEF Fixed
<1>8. ASSUME want.sdk PROVE Single(t) /\ Kept(t, D)
  <2>1. /\ Single(rules) /\ Kept(rules, D)
        /\ Single(Result) /\ Kept(Result, D \cup {step})
    BY <1>8 DEF LiveInv, Good
  <2>2. StepInv /\ step \notin {"clear"}
    BY DEF LiveInv, Stages, Live, AlbTypeOK
  <2>3. /\ Within(t, rules) \/ Within(t, Result)
        /\ Within(rules, t) \/ Within(Result, t)
        /\ step \notin {"apps", "remove"} => Within(t, rules) /\ Within(rules, t)
    BY <2>2, BetweenApps
  <2>4. ASSUME NEW a \in AppId
        PROVE  /\ Pair(a, rules) /\ Pair(a, Result) => Pair(a, t)
               /\ ~None(a, rules) /\ ~None(a, Result) => ~None(a, t)
               /\ None(a, rules) /\ None(a, Result) => None(a, t)
               /\ step \notin {"apps", "remove"} =>
                     (Pair(a, rules) => Pair(a, t)) /\ (None(a, rules) => None(a, t))
    <3>1. Pair(a, rules) /\ Pair(a, Result) => Pair(a, t)
      BY <1>1, <1>2, <1>3, <2>3, WithinApp
    <3>2. ~None(a, rules) /\ ~None(a, Result) => ~None(a, t)
      BY <1>1, <1>2, <1>3, <2>3, WithinApp
    <3>3. None(a, rules) /\ None(a, Result) => None(a, t)
      BY <1>3, <1>5 DEF None
    <3>4. step \notin {"apps", "remove"} => (Pair(a, rules) => Pair(a, t))
      BY <1>1, <1>3, <2>3, WithinApp
    <3>5. step \notin {"apps", "remove"} => (None(a, rules) => None(a, t))
      BY <1>1, <1>3, <2>3, WithinApp
    <3>. QED BY <3>1, <3>2, <3>3, <3>4, <3>5
  <2>5. Single(t) BY <2>1, <2>3, WithinSingle
  <2>6. \A x : x \in D => x \in D \cup {step} OBVIOUS
  <2>7. /\ step = "reset" => step \notin {"apps", "remove"}
        /\ "secret" \notin D => step \notin {"apps", "remove"}
    BY DEF Done
  <2>8. "reset" \notin D /\ step # "reset" => "reset" \notin D \cup {step} OBVIOUS
  <2>. HIDE DEF D
  <2>9. Changing => \A a \in (old.apps \cap want.apps) \ halved : Pair(a, t)
    BY <1>1, <2>1, <2>4 DEF Kept
  <2>10. stage # "Settled" => \A a \in AppId \ (old.apps \cup want.apps \cup halved) : None(a, t)
    BY <2>1, <2>4 DEF Kept
  <2>11. stage = "Update" /\ "reset" \notin D => \A a \in old.apps \ halved : Pair(a, t)
    <3>1. CASE step = "reset" BY <3>1, <1>1, <2>1, <2>4, <2>7 DEF Kept
    <3>2. CASE step # "reset" BY <3>2, <1>1, <2>1, <2>4, <2>8 DEF Kept
    <3>. QED BY <3>1, <3>2
  <2>12. "secret" \notin D => \A a \in want.apps \ halved : Pair(a, t) \/ None(a, t)
    BY <1>1, <2>1, <2>4, <2>7 DEF Kept
  <2>13. "apps" \in D => \A a \in want.apps : ~None(a, t) /\ (a \notin halved => Pair(a, t))
    BY <1>1, <2>1, <2>4, <2>6 DEF Kept
  <2>14. "remove" \in D => \A a \in AppId \ want.apps : None(a, t)
    BY <1>1, <2>1, <2>4, <2>6 DEF Kept
  <2>15. Kept(t, D) BY <2>9, <2>10, <2>11, <2>12, <2>13, <2>14 DEF Kept
  <2>. QED BY <2>5, <2>15
<1>. QED BY <1>6, <1>7, <1>8 DEF Good

\* An application has no rule, one, or one of each kind.
LEMMA WholeOrHalf ==
    ASSUME NEW t \in [Priority -> Rule], Single(t), NEW a \in AppId,
           Cardinality(RulesOf(a, t)) # 1
    PROVE  Pair(a, t) \/ None(a, t)
<1>. SUFFICES ASSUME ~None(a, t) PROVE Pair(a, t)
  OBVIOUS
<1>1. PICK n \in AppPriority : t[n].app = a BY DEF None
<1>2. RulesOf(a, t) # {n}
  <2>1. Cardinality({n}) = 1 BY FS_Singleton
  <2>. QED BY <2>1
<1>3. n \in RulesOf(a, t) BY <1>1 DEF RulesOf
<1>4. PICK m \in AppPriority : m # n /\ t[m].app = a BY <1>2, <1>3 DEF RulesOf
<1>5. t[m] # NoRule /\ t[n] # NoRule BY <1>1, <1>4, Names DEF NoRule
<1>6. ~(t[m].path = "ping" <=> t[n].path = "ping")
  BY <1>1, <1>4, <1>5 DEF Single, SameKind
<1>. QED BY <1>1, <1>4, <1>6 DEF Pair

LEMMA PairIsTwo ==
    ASSUME NEW t \in [Priority -> Rule], Single(t), NEW a \in AppId, Pair(a, t)
    PROVE  Cardinality(RulesOf(a, t)) = 2
<1>1. PICK m \in AppPriority, n \in AppPriority :
             /\ t[m].app = a /\ t[m].path = "ping"
             /\ t[n].app = a /\ t[n].path # "ping"
  BY DEF Pair
<1>2. m # n BY <1>1
<1>3. a # "none" BY Names
<1>4. RulesOf(a, t) = {m, n}
  <2>1. ASSUME NEW l \in AppPriority, t[l].app = a PROVE l = m \/ l = n
    <3>1. t[l] # NoRule /\ t[m] # NoRule /\ t[n] # NoRule BY <1>1, <1>3, <2>1 DEF NoRule
    <3>. QED BY <1>1, <2>1, <3>1 DEF Single, SameKind
  <2>. QED BY <1>1, <2>1 DEF RulesOf
<1>5. IsFiniteSet({m}) /\ Cardinality({m}) = 1 BY FS_Singleton
<1>6. Cardinality({m} \cup {n}) = 1 + 1 BY <1>2, <1>5, FS_AddElement
<1>7. {m, n} = {m} \cup {n} OBVIOUS
<1>. QED BY <1>4, <1>6, <1>7

LEMMA TakenSizes ==
    ASSUME NEW t
    PROVE  /\ IsFiniteSet(Taken(Priority, t)) /\ Cardinality(Taken(Priority, t)) \in Nat
           /\ IsFiniteSet(Taken(1..4, t)) /\ Cardinality(Taken(1..4, t)) \in Nat
           /\ Cardinality(Taken(Priority, t)) =
                 Cardinality(Taken(1..4, t)) + Cardinality(Taken(AppPriority, t))
<1>. DEFINE A == Taken(1..4, t)
            B == Taken(AppPriority, t)
<1>1. A \in SUBSET Priority /\ B \in SUBSET Priority /\ Taken(Priority, t) = A \cup B
      /\ A \cap B = {}
  BY Priorities DEF Taken
<1>2. IsFiniteSet(A) /\ IsFiniteSet(B) BY <1>1, Priorities, FS_Subset
<1>. HIDE DEF A, B
<1>3. /\ IsFiniteSet(A \cup B)
      /\ Cardinality(A \cup B) = Cardinality(A) + Cardinality(B) - Cardinality(A \cap B)
  BY <1>2, FS_Union
<1>4. Cardinality({}) = 0 BY FS_EmptySet
<1>5. /\ Cardinality(A) \in Nat /\ Cardinality(B) \in Nat
      /\ Cardinality(A \cup B) \in Nat
  BY <1>2, <1>3, FS_CardinalityType
<1>6. Cardinality(A \cup B) = Cardinality(A) + Cardinality(B)
  BY <1>1, <1>3, <1>4, <1>5
<1>7. Taken(Priority, t) = A \cup B BY <1>1
<1>8. IsFiniteSet(Taken(Priority, t)) /\ Cardinality(Taken(Priority, t)) = Cardinality(A \cup B)
  BY <1>3, <1>7
<1>. QED BY <1>2, <1>5, <1>6, <1>8 DEF A, B

\* A call leads to a table between the rules and the step's, within the limit.
LEMMA FirstCall ==
    ASSUME AlbTypeOK, CallsInv, Limited(rules), calls # << >>, ~Refused(Head(calls)),
           NEW t, t = RulesAfter(Head(calls))
    PROVE  /\ Between(t)
           /\ Made(Tail(calls), t) = Result
           /\ Tail(calls) \in Seq(Call) /\ Apart(Tail(calls))
           /\ \A i \in 1..Len(Tail(calls)) : /\ i + 1 \in 1..Len(calls)
                                            /\ Tail(calls)[i] = calls[i + 1]
                                            /\ t[calls[i + 1].at] = rules[calls[i + 1].at]
           /\ Cardinality(Taken(Priority, t)) <= RuleLimit
<1>. DEFINE c == Head(calls)
<1>1. /\ rules \in [Priority -> Rule] /\ calls \in Seq(Call) /\ Apart(calls)
  BY DEF AlbTypeOK, CallsInv
<1>2. t = [rules EXCEPT ![c.at] = c.rule] BY DEF RulesAfter
<1>3. /\ c \in Call /\ c = calls[1]
      /\ Tail(calls) \in Seq(Call) /\ Apart(Tail(calls))
      /\ t \in [Priority -> Rule]
      /\ \A n \in Priority : t[n] = IF n = c.at THEN Result[n] ELSE rules[n]
      /\ Made(Tail(calls), t) = Result
      /\ \A i \in 1..Len(Tail(calls)) : /\ i + 1 \in 1..Len(calls)
                                       /\ Tail(calls)[i] = calls[i + 1]
                                       /\ Tail(calls)[i].at # c.at
  BY <1>1, <1>2, MadeFirst DEF Result
<1>4. Between(t) BY <1>3 DEF Between
<1>5. \A i \in 1..Len(Tail(calls)) : t[calls[i + 1].at] = rules[calls[i + 1].at]
  <2>. SUFFICES ASSUME NEW i \in 1..Len(Tail(calls))
                PROVE  t[calls[i + 1].at] = rules[calls[i + 1].at]
    OBVIOUS
  <2>1. i + 1 \in 1..Len(calls) /\ calls[i + 1].at # c.at BY <1>3
  <2>2. calls[i + 1] \in Call BY <1>1, <2>1, ElementOfSeq
  <2>3. calls[i + 1].at \in Priority BY <2>2 DEF Call
  <2>. QED BY <2>1, <2>3, <1>3
<1>6. c.at \in Priority /\ c.rule \in Rule /\ t[c.at] = c.rule
  BY <1>1, <1>2, <1>3 DEF Call
<1>7. Cardinality(Taken(Priority, t)) <= RuleLimit
  <2>. DEFINE T == Taken(Priority, rules)
  <2>1. /\ IsFiniteSet(T) /\ Cardinality(T) \in Nat /\ Cardinality(T) <= RuleLimit
        /\ RuleLimit \in Nat
    BY TakenSizes, AlbRulesAssumption DEF Limited
  <2>2. T = Existing(Priority) BY DEF Taken, Existing
  <2>3. CASE c.do = "create"
    <3>1. ~(Cardinality(T) >= RuleLimit) BY <2>2, <2>3 DEF Refused
    <3>2. Taken(Priority, t) \in SUBSET (T \cup {c.at}) BY <1>3 DEF Taken
    <3>3. IsFiniteSet(T \cup {c.at}) /\ Cardinality(T \cup {c.at}) <= Cardinality(T) + 1
      <4>. HIDE DEF T, c
      <4>1. /\ IsFiniteSet(T \cup {c.at})
            /\ Cardinality(T \cup {c.at}) =
                  IF c.at \in T THEN Cardinality(T) ELSE Cardinality(T) + 1
        BY <2>1, FS_AddElement
      <4>. QED BY <2>1, <4>1
    <3>4. /\ Cardinality(Taken(Priority, t)) <= Cardinality(T \cup {c.at})
          /\ Cardinality(Taken(Priority, t)) \in Nat /\ Cardinality(T \cup {c.at}) \in Nat
      <4>. HIDE DEF T, c
      <4>. QED BY <3>2, <3>3, FS_Subset, FS_CardinalityType
    <3>. QED BY <2>1, <3>1, <3>3, <3>4
  <2>4. CASE c.do # "create"
    <3>1. 1 \in 1..Len(calls) BY <1>1, HeadTailProperties
    <3>2. rules[c.at] = NoRule => c.rule = NoRule BY <1>3, <2>4, <3>1 DEF CallsInv
    <3>3. Taken(Priority, t) \in SUBSET T BY <1>3, <1>6, <3>2 DEF Taken
    <3>4. /\ Cardinality(Taken(Priority, t)) <= Cardinality(T)
          /\ Cardinality(Taken(Priority, t)) \in Nat
      <4>. HIDE DEF T, c
      <4>. QED BY <3>3, <2>1, FS_Subset, TakenSizes
    <3>. QED BY <2>1, <3>4
  <2>. QED BY <2>3, <2>4
<1>. QED BY <1>3, <1>4, <1>5, <1>7

\* The room for both properties is kept while the rules of no application are
\* only changed or removed.
LEMMA RoomBetween ==
    ASSUME AlbTypeOK, LiveInv, step \notin {"default", "reset"}, NEW t, Between(t), Room(rules)
    PROVE  Room(t)
<1>. DEFINE A == Taken(1..4, t)
            B == Taken(1..4, rules)
            c == Cardinality(old.apps \cup want.apps)
<1>1. A \in SUBSET B
  <2>. SUFFICES ASSUME NEW n \in 1..4, t[n] # NoRule, rules[n] = NoRule PROVE FALSE
    BY DEF Taken
  <2>1. n \in Priority /\ n \notin AppPriority BY Priorities
  <2>2. t[n] = Result[n] /\ Changed(step, n, rules[n], Result[n])
    BY <2>1 DEF Between, LiveInv, StepInv
  <2>. QED BY <2>1, <2>2 DEF Changed
<1>2. IsFiniteSet(B) /\ Cardinality(B) \in Nat /\ Cardinality(A) \in Nat BY TakenSizes
<1>3. Cardinality(A) <= Cardinality(B)
  <2>. HIDE DEF A, B
  <2>. QED BY <1>1, <1>2, FS_Subset
<1>4. c \in Nat
  <2>1. old.apps \cup want.apps \in SUBSET AppId BY DEF AlbTypeOK, Properties
  <2>. QED BY <2>1, TwoKinds
<1>5. RuleLimit \in Nat BY AlbRulesAssumption
<1>6. Cardinality(B) + 2 * c <= RuleLimit BY DEF Room
<1>. HIDE DEF A, B, c
<1>7. Cardinality(A) + 2 * c <= RuleLimit BY <1>2, <1>3, <1>4, <1>5, <1>6
<1>. QED BY <1>7 DEF Room, A, c

LEMMA RoomStays ==
    ASSUME AlbInv, Live, want.sdk, halved = {}, NEW t, Between(t)
    PROVE  /\ (stage = "Update" /\ step \in {"remove", "fallback"}) \/ stage = "Updated" => Room(t)
           /\ stage \in {"Rollback", "RollbackFailed"} /\ (\E a \in want.apps : None(a, t)) => Room(t)
           /\ stage \in {"Rollback", "RollbackFailed"} /\ step = "apps" /\ calls # << >> => Room(t)
<1>1. AlbTypeOK /\ Stages /\ CallsInv /\ LiveInv /\ Limited(rules) BY DEF AlbInv
<1>2. ASSUME (stage = "Update" /\ step \in {"remove", "fallback"}) \/ stage = "Updated"
      PROVE  Room(t)
  <2>1. Room(rules) BY <1>1, <1>2 DEF Limited
  <2>2. step \notin {"default", "reset"} BY <1>1, <1>2 DEF Stages
  <2>. QED BY <1>1, <2>1, <2>2, RoomBetween
<1>3. ASSUME stage \in {"Rollback", "RollbackFailed"}, step = "apps", calls # << >>
      PROVE  Room(t)
  <2>1. Room(rules) BY <1>1, <1>3 DEF Limited
  <2>. QED BY <1>1, <1>3, <2>1, RoomBetween
<1>4. ASSUME stage \in {"Rollback", "RollbackFailed"}, NEW a \in want.apps, None(a, t)
      PROVE  Room(t)
  <2>1. a \in AppId BY <1>1 DEF AlbTypeOK, Properties
  <2>2. CASE calls = << >>
    <3>1. Result = rules BY <1>1, <2>2, MadeNone DEF Result, AlbTypeOK
    <3>2. t = rules BY <1>1, <3>1, SameTable DEF Between, AlbTypeOK
    <3>. QED BY <1>1, <1>4, <3>2 DEF Limited
  <2>3. CASE step = "apps" /\ calls # << >> BY <1>3, <1>4, <2>3
  <2>4. CASE calls # << >> /\ step # "apps"
    <3>1. step \in {"path", "ping", "secret", "reset", "remove"}
      BY <1>1, <1>4, <2>4 DEF Stages, AlbTypeOK, Steps
    <3>2. CASE step \in {"reset", "remove"}
      <4>1. Kept(t, Done(step)) BY <1>1, GoodBetween DEF Good
      <4>2. "apps" \in Done(step) BY <3>2 DEF Done
      <4>. QED BY <1>4, <4>1, <4>2 DEF Kept
    <3>3. CASE step \in {"path", "ping", "secret"}
      <4>1. Within(rules, t) BY <1>1, <3>3, BetweenApps DEF LiveInv
      <4>2. t \in [Priority -> Rule] /\ rules \in [Priority -> Rule]
        BY <1>1 DEF Between, AlbTypeOK
      <4>3. None(a, rules) BY <1>4, <2>1, <4>1, <4>2, WithinApp
      <4>4. Room(rules) BY <1>1, <1>4, <4>3 DEF Limited
      <4>. QED BY <1>1, <3>3, <4>4, RoomBetween
    <3>. QED BY <3>1, <3>2, <3>3
  <2>. QED BY <2>2, <2>3, <2>4
<1>. QED BY <1>2, <1>3, <1>4

\* What is good stays good while neither the properties nor the stage change.
LEMMA GoodNext ==
    ASSUME NEW t, NEW D, Good(t, D), UNCHANGED <<stage, old, want, halved>>
    PROVE  /\ rules' = t /\ Done(step)' = D => Good(rules, Done(step))'
           /\ Result' = t /\ (Done(step) \cup {step})' = D =>
                 Good(Result, Done(step) \cup {step})'
<1>1. ASSUME rules' = t, Done(step)' = D PROVE Good(rules, Done(step))'
  <2>. HIDE DEF Done
  <2>1. Follows(rules, Done(step))' BY <1>1 DEF Good, Follows, Asked, Placed
  <2>2. Fixed(rules, Done(step))' BY <1>1 DEF Good, Fixed
  <2>3. want'.sdk => Single(rules)' /\ Kept(rules, Done(step))'
    BY <1>1 DEF Good, Single, Kept, Changing, Pair, None
  <2>. QED BY <2>1, <2>2, <2>3 DEF Good
<1>2. ASSUME Result' = t, (Done(step) \cup {step})' = D
      PROVE  Good(Result, Done(step) \cup {step})'
  <2>1. Follows(Result, Done(step) \cup {step})' BY <1>2 DEF Good, Follows, Asked, Placed
  <2>2. Fixed(Result, Done(step) \cup {step})' BY <1>2 DEF Good, Fixed
  <2>3. want'.sdk => Single(Result)' /\ Kept(Result, Done(step) \cup {step})'
    BY <1>2 DEF Good, Single, Kept, Changing, Pair, None
  <2>. QED BY <2>1, <2>2, <2>3 DEF Good
<1>. QED BY <1>1, <1>2

-----------------------------------------------------------------------------
(* The handler's next step.                                                *)

\* A step that begins: from the plan of its calls and what it makes of the
\* rules follows what the invariant says of it.
LEMMA Enters ==
    ASSUME AlbTypeOK, NextStep,
           NEW kind \in Kinds, NEW S \in SUBSET Priority, NEW q, Plan(calls', kind, S, q),
           NEW u, u = [n \in Priority |-> IF n \in S THEN q[n] ELSE rules[n]],
           \A n \in S : IF kind = "create"
                        THEN /\ rules[n] = NoRule /\ q[n] # NoRule
                             /\ step' \in {"default", "apps", "reset"}
                             /\ n \in AppPriority => step' = "apps"
                        ELSE rules[n] # NoRule \/ q[n] = NoRule
    PROVE  /\ calls' \in Seq(Call) /\ CallsInv' /\ Result' = u
           /\ /\ Good(rules, Done(step')) /\ Good(u, Done(step') \cup {step'})
              /\ \A n \in Priority : u[n] = rules[n] \/ Changed(step', n, rules[n], u[n])
              => LiveInv'
<1>1. /\ rules' = rules /\ rules \in [Priority -> Rule]
      /\ UNCHANGED <<stage, old, want, halved>>
  BY DEF NextStep, AlbTypeOK
<1>2. calls' \in Seq(Call) /\ Apart(calls') BY DEF Plan
<1>3. Made(calls', rules) = u BY <1>1, MadePlan
<1>4. Result' = u
  <2>1. Result' = Made(calls', rules') BY DEF Result
  <2>. QED BY <1>1, <1>3, <2>1
<1>5. CallsInv'
  <2>1. ASSUME NEW i \in 1..Len(calls')
        PROVE  /\ calls'[i].at \in S /\ calls'[i].do = kind
               /\ calls'[i].rule = q[calls'[i].at]
    BY PlanCalls
  <2>2. ASSUME NEW i \in 1..Len(calls'), kind # "create", rules[calls'[i].at] = NoRule
        PROVE  calls'[i].rule = NoRule
    BY <2>1, <2>2
  <2>3. ASSUME NEW i \in 1..Len(calls'), kind = "create"
        PROVE  /\ rules[calls'[i].at] = NoRule /\ calls'[i].rule # NoRule
               /\ step' \in {"default", "apps", "reset"}
               /\ calls'[i].at \in AppPriority => step' = "apps"
    BY <2>1, <2>3
  <2>. QED BY <1>1, <1>2, <2>1, <2>2, <2>3 DEF CallsInv
<1>6. ASSUME Good(rules, Done(step')), Good(u, Done(step') \cup {step'}),
             \A n \in Priority : u[n] = rules[n] \/ Changed(step', n, rules[n], u[n])
      PROVE  LiveInv'
  <2>1. Good(rules, Done(step))'
    <3>1. Done(step)' = Done(step') BY DEF Done
    <3>. HIDE DEF Done
    <3>. QED BY <1>1, <1>6, <3>1, GoodNext
  <2>2. Good(Result, Done(step) \cup {step})'
    <3>1. (Done(step) \cup {step})' = Done(step') \cup {step'} BY DEF Done
    <3>. HIDE DEF Done
    <3>. QED BY <1>1, <1>4, <1>6, <3>1, GoodNext
  <2>3. StepInv' BY <1>1, <1>4, <1>6 DEF StepInv, Changed
  <2>. QED BY <2>1, <2>2, <2>3 DEF LiveInv
<1>. QED BY <1>2, <1>4, <1>5, <1>6

\* Before the applications' rules, the path, the host and the secret are done.
LEMMA BeforeAppsGood ==
    ASSUME AlbTypeOK, Stages, Live, LiveInv, calls = << >>,
           step \in {"default", "secret"}
    PROVE  /\ Good(rules, BeforeApps)
           /\ want.sdk => \A a \in want.apps \ halved : Pair(a, rules) \/ None(a, rules)
<1>1. Result = rules BY MadeNone DEF Result, AlbTypeOK
<1>2. Good(rules, Done(step)) /\ Good(rules, Done(step) \cup {step}) BY <1>1 DEF LiveInv
<1>3. "secret" \notin Done(step) BY DEF Done
<1>4. want.sdk => \A a \in want.apps \ halved : Pair(a, rules) \/ None(a, rules)
  BY <1>2, <1>3 DEF Good, Kept
<1>. DEFINE D == Done(step) \cup {step}
            E == BeforeApps
<1>5. /\ "reset" \notin D /\ "reset" \notin E /\ "apps" \notin D /\ "apps" \notin E
      /\ "remove" \notin D /\ "remove" \notin E
      /\ "default" \in E /\ "secret" \in E
  BY DEF Done, BeforeApps
<1>6. stage = "Create" => "default" \in D BY DEF Stages, Done
<1>7. \A s \in {"path", "ping", "secret"} : Asked(s, D) = Asked(s, E)
  <2>1. CASE step = "default"
    <3>1. old = want BY <2>1 DEF Stages, Live, AlbTypeOK
    <3>. QED BY <3>1 DEF Asked
  <2>2. CASE step = "secret" BY <2>2 DEF Asked, Done, BeforeApps
  <2>. QED BY <2>1, <2>2
<1>8. Good(rules, D) BY <1>2
<1>. HIDE DEF D, E
<1>9. Follows(rules, E) BY <1>7, <1>8 DEF Good, Follows
<1>10. Fixed(rules, E) BY <1>5, <1>6, <1>8 DEF Good, Fixed
<1>11. want.sdk => Single(rules) /\ Kept(rules, E) BY <1>5, <1>8 DEF Good, Kept
<1>12. Good(rules, E) BY <1>9, <1>10, <1>11 DEF Good
<1>. QED BY <1>4, <1>12 DEF E

\* The steps in their order, by what the operation is.
LEMMA StepOrder ==
    ASSUME AlbTypeOK, Stages, NextStep
    PROVE  LET Setting == stage \in {"Create", "Update", "Rollback"} IN
           \/ step = "begin" /\ stage = "Create" /\ step' = "default" /\ calls' = DefaultCalls
           \/ /\ step = "begin" /\ stage \in {"Update", "Rollback"}
              /\ step' = "path" /\ calls' = PathCalls
           \/ /\ step = "path" /\ stage \in {"Update", "Rollback"}
              /\ step' = "ping" /\ calls' = PingCalls
           \/ /\ step = "ping" /\ stage \in {"Update", "Rollback"}
              /\ step' = "secret" /\ calls' = SecretCalls
           \/ /\ step \in {"default", "secret"} /\ Setting /\ want.sdk
              /\ step' = "apps" /\ calls' = AppCalls
           \/ /\ step \in {"default", "secret"} /\ Setting /\ ~want.sdk
              /\ step' = "fallback" /\ calls' = << >>
           \/ step = "apps" /\ Setting /\ want.sdk /\ step' = "reset" /\ calls' = ResetCalls
           \/ step = "begin" /\ stage = "Delete" /\ step' = "reset" /\ calls' = ResetCalls
           \/ /\ step = "reset" /\ (stage = "Delete" \/ (Setting /\ want.sdk))
              /\ step' = "remove" /\ calls' = RemoveCalls
           \/ step \in {"begin", "remove"} /\ stage = "Delete" /\ step' = "clear" /\ calls' = ClearCalls
           \/ step = "remove" /\ Setting /\ want.sdk /\ step' = "fallback" /\ calls' = << >>
           \/ step = "clear" /\ stage = "Delete" /\ step' = "fallback" /\ calls' = << >>
<1>1. /\ step # "fallback" /\ step \in Steps /\ stage \in {"Create", "Update", "Rollback", "Delete"}
      /\ step' = After(step) /\ calls' = Calls(After(step))
  BY DEF AlbTypeOK, NextStep, Running
<1>2. CASE stage = "Delete"
  <2>1. step \in {"begin", "reset", "remove", "clear"} BY <1>1, <1>2 DEF Stages
  <2>. QED BY <2>1, <1>1, <1>2 DEF After, FirstStep, Calls
<1>3. CASE stage = "Create"
  <2>1. step \in {"begin", "default", "apps", "reset", "remove"} BY <1>1, <1>3 DEF Stages
  <2>2. ~want.sdk => step \notin {"apps", "reset", "remove"} BY <1>3 DEF Stages, Live
  <2>. QED BY <2>1, <2>2, <1>1, <1>3 DEF After, FirstStep, Calls
<1>4. CASE stage \in {"Update", "Rollback"}
  <2>1. step \in {"begin", "path", "ping", "secret", "apps", "reset", "remove"}
    BY <1>1, <1>4 DEF Stages, Steps
  <2>2. ~want.sdk => step \notin {"apps", "reset", "remove"} BY <1>4 DEF Stages, Live
  <2>3. CASE step = "begin"
    BY <2>3, <1>1, <1>4 DEF After, FirstStep, Calls
  <2>4. CASE step \in {"path", "ping"}
    BY <2>4, <1>1, <1>4 DEF After, Calls
  <2>5. CASE step = "secret" /\ want.sdk
    BY <2>5, <1>1, <1>4 DEF After, Calls
  <2>6. CASE step = "secret" /\ ~want.sdk
    BY <2>6, <1>1, <1>4 DEF After, Calls
  <2>7. CASE step = "apps"
    BY <2>7, <2>2, <1>1, <1>4 DEF After, Calls
  <2>8. CASE step \in {"reset", "remove"}
    BY <2>8, <2>2, <1>1, <1>4 DEF After, Calls
  <2>. QED BY ONLY <2>1, <2>3, <2>4, <2>5, <2>6, <2>7, <2>8
<1>. QED BY <1>1, <1>2, <1>3, <1>4

\* The calls of the step that begins, and what they make of the rules.
LEMMA NextCalls ==
    ASSUME AlbInv, NextStep
    PROVE  calls' \in Seq(Call) /\ CallsInv' /\ (Live => LiveInv')
<1>1. /\ AlbTypeOK /\ Stages /\ CallsInv /\ Limited(rules) /\ (Live => LiveInv)
      /\ calls = << >> /\ rules \in [Priority -> Rule]
      /\ UNCHANGED <<rules, stage, old, want, halved>>
  BY DEF AlbInv, NextStep, AlbTypeOK
<1>2. Result = rules BY <1>1, MadeNone DEF Result
<1>3. Live => Good(rules, Done(step)) /\ Good(rules, Done(step) \cup {step})
  BY <1>1, <1>2 DEF LiveInv
<1>4. /\ 1 \in Priority /\ 2 \in Priority /\ 3 \in Priority /\ 4 \in Priority
      /\ 1 \notin AppPriority /\ 2 \notin AppPriority /\ 3 \notin AppPriority
      /\ 4 \notin AppPriority
  BY Priorities
<1>5. CASE step = "begin" /\ stage = "Create" /\ step' = "default" /\ calls' = DefaultCalls
  <2>. DEFINE S == {2, 3} \cup (IF want.secret = NoSecret THEN {} ELSE {4})
              u == [n \in Priority |-> IF n \in S THEN Renewed[n] ELSE rules[n]]
  <2>1. Plan(calls', "create", S, Renewed) /\ S \in SUBSET Priority
    BY <1>1, <1>4, <1>5, PlanDefault
  <2>2. rules = [n \in Priority |-> NoRule] /\ old = want /\ halved = {}
    BY <1>1, <1>5 DEF Stages
  <2>3. Good(u, {"default"}) BY <1>1, <1>5, <2>2, AimDefault
  <2>4. S \subseteq 1..4 /\ S \cap AppPriority = {} BY <1>4
  <2>5. \A n \in S : /\ rules[n] = NoRule /\ Renewed[n] # NoRule /\ n \notin AppPriority
                     /\ step' \in {"default", "apps", "reset"}
    BY <1>1, <1>5, <2>1, <2>2, <2>4, NewTables
  <2>6. \A n \in Priority : u[n] = rules[n] \/ Changed(step', n, rules[n], u[n])
    BY <1>1, <1>5, <2>4, <2>5 DEF Changed
  <2>. HIDE DEF S
  <2>7. /\ calls' \in Seq(Call) /\ CallsInv' /\ Result' = u
        /\ /\ Good(rules, Done(step')) /\ Good(u, Done(step') \cup {step'})
           /\ \A n \in Priority : u[n] = rules[n] \/ Changed(step', n, rules[n], u[n])
           => LiveInv'
    BY <1>1, <2>1, <2>5, Enters DEF Kinds
  <2>8. Done(step') = {} /\ Done(step') \cup {step'} = {"default"} BY <1>5 DEF Done
  <2>9. Good(rules, {})
    <3>1. Good(rules, Done(step)) BY <1>3, <1>5 DEF Live
    <3>2. Done(step) = {} BY <1>5 DEF Done
    <3>. QED BY <3>1, <3>2
  <2>. HIDE DEF u
  <2>. QED BY <2>3, <2>6, <2>7, <2>8, <2>9
<1>6. CASE /\ step = "begin" /\ stage \in {"Update", "Rollback"}
           /\ step' = "path" /\ calls' = PathCalls
  <2>. DEFINE S == MovedAt
              u == [n \in Priority |-> IF n \in S THEN Moved[n] ELSE rules[n]]
  <2>1. Plan(calls', "modify", S, Moved) BY <1>1, <1>6, PlanPath
  <2>2. \A n \in S : n \in Priority /\ rules[n] # NoRule BY DEF MovedAt, Existing
  <2>3. Good(rules, {})
    <3>1. Good(rules, Done(step)) BY <1>3, <1>6 DEF Live
    <3>2. Done(step) = {} BY <1>6 DEF Done
    <3>. QED BY <3>1, <3>2
  <2>4. Good(u, {"path"}) /\ Alike(rules, u) BY <1>1, <2>3, AimPath
  <2>5. \A n \in Priority : u[n] = rules[n] \/ Changed(step', n, rules[n], u[n])
    BY <1>1, <1>6, <2>4 DEF Alike, Changed
  <2>. HIDE DEF S
  <2>6. /\ calls' \in Seq(Call) /\ CallsInv' /\ Result' = u
        /\ /\ Good(rules, Done(step')) /\ Good(u, Done(step') \cup {step'})
           /\ \A n \in Priority : u[n] = rules[n] \/ Changed(step', n, rules[n], u[n])
           => LiveInv'
    BY <1>1, <2>1, <2>2, Enters, ZenonT(60) DEF Kinds
  <2>7. Done(step') = {} /\ Done(step') \cup {step'} = {"path"} BY <1>6 DEF Done
  <2>. HIDE DEF u
  <2>. QED BY <2>3, <2>4, <2>5, <2>6, <2>7
<1>7. CASE /\ step = "path" /\ stage \in {"Update", "Rollback"}
           /\ step' = "ping" /\ calls' = PingCalls
  <2>. DEFINE S == RehostedAt
              u == [n \in Priority |-> IF n \in S THEN Rehosted[n] ELSE rules[n]]
  <2>1. Plan(calls', "modify", S, Rehosted) BY <1>1, <1>7, PlanPing
  <2>2. \A n \in S : n \in Priority /\ rules[n] # NoRule BY DEF RehostedAt, Existing
  <2>3. Good(rules, {"path"})
    <3>1. Good(rules, Done(step) \cup {step}) BY <1>3, <1>7 DEF Live
    <3>2. Done(step) \cup {step} = {"path"} BY <1>7 DEF Done
    <3>. QED BY <3>1, <3>2
  <2>4. Good(u, {"path", "ping"}) /\ Alike(rules, u) BY <1>1, <2>3, AimPing
  <2>5. \A n \in Priority : u[n] = rules[n] \/ Changed(step', n, rules[n], u[n])
    BY <1>1, <1>7, <2>4 DEF Alike, Changed
  <2>. HIDE DEF S
  <2>6. /\ calls' \in Seq(Call) /\ CallsInv' /\ Result' = u
        /\ /\ Good(rules, Done(step')) /\ Good(u, Done(step') \cup {step'})
           /\ \A n \in Priority : u[n] = rules[n] \/ Changed(step', n, rules[n], u[n])
           => LiveInv'
    BY <1>1, <2>1, <2>2, Enters, ZenonT(60) DEF Kinds
  <2>7. Done(step') = {"path"} /\ Done(step') \cup {step'} = {"path", "ping"}
    BY <1>7 DEF Done
  <2>. HIDE DEF u
  <2>. QED BY <2>3, <2>4, <2>5, <2>6, <2>7
<1>8. CASE /\ step = "ping" /\ stage \in {"Update", "Rollback"}
           /\ step' = "secret" /\ calls' = SecretCalls
  <2>. DEFINE S == ResecuredAt
              u == [n \in Priority |-> IF n \in S THEN Resecured[n] ELSE rules[n]]
  <2>1. Plan(calls', "modify", S, Resecured) BY <1>1, <1>8, PlanSecret
  <2>2. \A n \in S : n \in Priority /\ rules[n] # NoRule BY DEF ResecuredAt, Existing
  <2>3. Good(rules, {"path", "ping"})
    <3>1. Good(rules, Done(step) \cup {step}) BY <1>3, <1>8 DEF Live
    <3>2. Done(step) \cup {step} = {"path", "ping"} BY <1>8 DEF Done
    <3>. QED BY <3>1, <3>2
  <2>4. Good(u, {"path", "ping", "secret"}) /\ Alike(rules, u)
    BY <1>1, <2>3, AimSecret DEF Stages
  <2>5. \A n \in Priority : u[n] = rules[n] \/ Changed(step', n, rules[n], u[n])
    BY <1>1, <1>8, <2>4 DEF Alike, Changed
  <2>. HIDE DEF S
  <2>6. /\ calls' \in Seq(Call) /\ CallsInv' /\ Result' = u
        /\ /\ Good(rules, Done(step')) /\ Good(u, Done(step') \cup {step'})
           /\ \A n \in Priority : u[n] = rules[n] \/ Changed(step', n, rules[n], u[n])
           => LiveInv'
    BY <1>1, <2>1, <2>2, Enters, ZenonT(60) DEF Kinds
  <2>7. Done(step') = {"path", "ping"} /\ Done(step') \cup {step'} = {"path", "ping", "secret"}
    BY <1>8 DEF Done
  <2>. HIDE DEF u
  <2>. QED BY <2>3, <2>4, <2>5, <2>6, <2>7
<1>9. CASE /\ step \in {"default", "secret"} /\ stage \in {"Create", "Update", "Rollback"}
           /\ want.sdk /\ step' = "apps" /\ calls' = AppCalls
  <2>1. /\ Good(rules, BeforeApps)
        /\ \A a \in want.apps \ halved : Pair(a, rules) \/ None(a, rules)
    BY <1>1, <1>9, BeforeAppsGood DEF Live
  <2>2. Single(rules) /\ \A n \in Priority : Placed(n, rules[n])
    BY <1>9, <2>1 DEF Good, Follows
  <2>3. PICK S \in SUBSET Priority : \E q : PlansApps(AppCalls, S, q)
    BY <1>1, <2>2, PlanApps
  <2>4. PICK q : PlansApps(AppCalls, S, q) BY <2>3
  <2>. DEFINE u == [n \in Priority |-> IF n \in S THEN q[n] ELSE rules[n]]
  <2>5. stage # "Settled" BY <1>9
  <2>6. /\ Good(u, BeforeApps \cup {"apps"})
        /\ \A n \in S : /\ n \in AppPriority /\ rules[n] = NoRule
                        /\ q[n] # NoRule /\ q[n].app \in want.apps
    BY <1>1, <1>9, <2>1, <2>4, <2>5, AimApps
  <2>7. Plan(calls', "create", S, q) BY <1>9, <2>4 DEF PlansApps
  <2>8. \A n \in Priority : u[n] = rules[n] \/ Changed(step', n, rules[n], u[n])
    BY <1>1, <1>9, <2>6 DEF Changed
  <2>9. /\ calls' \in Seq(Call) /\ CallsInv' /\ Result' = u
        /\ /\ Good(rules, Done(step')) /\ Good(u, Done(step') \cup {step'})
           /\ \A n \in Priority : u[n] = rules[n] \/ Changed(step', n, rules[n], u[n])
           => LiveInv'
    BY <1>1, <1>9, <2>6, <2>7, Enters DEF Kinds
  <2>10. /\ Done(step') = BeforeApps
         /\ Done(step') \cup {step'} = BeforeApps \cup {"apps"}
    BY <1>9 DEF Done, BeforeApps
  <2>. HIDE DEF u
  <2>. QED BY <2>1, <2>6, <2>8, <2>9, <2>10
<1>10. CASE step' = "reset" /\ calls' = ResetCalls
            /\ \/ step = "apps" /\ stage \in {"Create", "Update", "Rollback"} /\ want.sdk
               \/ step = "begin" /\ stage = "Delete"
  <2>. DEFINE S == RenewedAt
              u == [n \in Priority |-> IF n \in S THEN Renewed[n] ELSE rules[n]]
  <2>1. Plan(calls', "create", S, Renewed) BY <1>1, <1>10, PlanReset
  <2>2. S \subseteq {1, 2, 3} BY DEF RenewedAt
  <2>3. \A n \in S : n \in 1..4 /\ n \in Priority /\ n \notin AppPriority
    BY <1>4, <2>2
  <2>4. \A n \in S : rules[n] = NoRule
    BY DEF RenewedAt, Existing
  <2>5. \A n \in S : Renewed[n] # NoRule BY <1>1, <2>3, NewTables
  <2>6. \A n \in Priority : u[n] = rules[n] \/ Changed(step', n, rules[n], u[n])
    BY <1>1, <1>10, <2>3, <2>4, <2>5 DEF Changed
  <2>7. Live => Good(rules, Done("reset")) /\ Good(u, Done("reset") \cup {"reset"})
    <3>. SUFFICES ASSUME Live
                  PROVE  Good(rules, Done("reset")) /\ Good(u, Done("reset") \cup {"reset"})
      OBVIOUS
    <3>1. step = "apps" /\ want.sdk BY <1>10 DEF Live
    <3>2. Done(step) \cup {step} = Done("reset") BY <3>1 DEF Done
    <3>3. Good(rules, Done("reset")) BY <1>3, <3>2
    <3>. QED BY <1>1, <3>1, <3>3, AimReset
  <2>8. S \in SUBSET Priority BY <2>3
  <2>. HIDE DEF S
  <2>9. /\ calls' \in Seq(Call) /\ CallsInv' /\ Result' = u
        /\ /\ Good(rules, Done(step')) /\ Good(u, Done(step') \cup {step'})
           /\ \A n \in Priority : u[n] = rules[n] \/ Changed(step', n, rules[n], u[n])
           => LiveInv'
    BY <1>1, <1>10, <2>1, <2>3, <2>4, <2>5, <2>8, Enters DEF Kinds
  <2>. HIDE DEF u
  <2>. QED BY <1>10, <2>6, <2>7, <2>9
<1>11. CASE step' = "remove" /\ calls' = RemoveCalls /\ step = "reset"
            /\ \/ stage = "Delete"
               \/ stage \in {"Create", "Update", "Rollback"} /\ want.sdk
  <2>. DEFINE S == RemovedAt
              u == [n \in Priority |-> IF n \in S THEN Emptied[n] ELSE rules[n]]
  <2>1. Plan(calls', "delete", S, Emptied) BY <1>1, <1>11, PlanRemove
  <2>2. S \in SUBSET Priority
    <3>1. 1..3 \subseteq Priority /\ AppPriority \subseteq Priority
      BY Priorities
    <3>. QED BY <3>1 DEF RemovedAt, RemovedRules, Existing
  <2>3. \A n \in S : Emptied[n] = NoRule BY <2>2 DEF Emptied
  <2>4. /\ Live => Good(rules, Done("remove")) /\ Good(u, Done("remove") \cup {"remove"})
        /\ Live => \A n \in S :
                      n \in 1..3 \/ (n \in AppPriority /\ rules[n].app \notin want.apps)
    <3>. SUFFICES ASSUME Live
                  PROVE  /\ Good(rules, Done("remove")) /\ Good(u, Done("remove") \cup {"remove"})
                         /\ \A n \in S :
                              n \in 1..3 \/ (n \in AppPriority /\ rules[n].app \notin want.apps)
      OBVIOUS
    <3>1. stage \in {"Create", "Update", "Rollback"} /\ want.sdk BY <1>11 DEF Live
    <3>2. Done(step) \cup {step} = Done("remove") BY <1>11 DEF Done
    <3>3. Good(rules, Done("remove")) BY <1>3, <3>2
    <3>4. stage = "Create" => old = want /\ halved = {} BY <1>1 DEF Stages
    <3>. QED BY <1>1, <3>1, <3>3, <3>4, AimRemove
  <2>5. Live => \A n \in Priority : u[n] = rules[n] \/ Changed(step', n, rules[n], u[n])
    BY <1>1, <1>11, <2>3, <2>4 DEF Changed
  <2>. HIDE DEF S
  <2>6. /\ calls' \in Seq(Call) /\ CallsInv' /\ Result' = u
        /\ /\ Good(rules, Done(step')) /\ Good(u, Done(step') \cup {step'})
           /\ \A n \in Priority : u[n] = rules[n] \/ Changed(step', n, rules[n], u[n])
           => LiveInv'
    BY <1>1, <2>1, <2>2, <2>3, Enters DEF Kinds
  <2>. HIDE DEF u
  <2>. QED BY <1>11, <2>4, <2>5, <2>6
<1>12. CASE stage = "Delete" /\ step' = "clear" /\ calls' = ClearCalls
  <2>1. Plan(calls', "delete", Existing(Priority), Emptied) /\ Existing(Priority) \in SUBSET Priority
    BY <1>1, <1>12, PlanClear DEF Existing
  <2>2. \A n \in Existing(Priority) : Emptied[n] = NoRule BY <2>1 DEF Emptied
  <2>3. calls' \in Seq(Call) /\ CallsInv' BY <1>1, <2>1, <2>2, Enters DEF Kinds
  <2>. QED BY <1>12, <2>3 DEF Live
<1>13. CASE /\ step' = "fallback" /\ calls' = << >>
            /\ \/ stage = "Delete"
               \/ /\ stage \in {"Create", "Update", "Rollback"}
                  /\ \/ step = "remove"
                     \/ step \in {"default", "secret"} /\ ~want.sdk
  <2>. DEFINE S == {n \in Priority : FALSE}
              u == [n \in Priority |-> IF n \in S THEN Emptied[n] ELSE rules[n]]
  <2>1. Plan(calls', "delete", S, Emptied) /\ S \in SUBSET Priority /\ \A n \in S : FALSE
    <3>1. S = {} OBVIOUS
    <3>2. Plan(<< >>, "delete", {}, Emptied) BY PlanNone DEF Kinds
    <3>. QED BY <1>13, <3>1, <3>2
  <2>2. u = rules BY <1>1
  <2>. HIDE DEF S
  <2>3. /\ calls' \in Seq(Call) /\ CallsInv' /\ Result' = u
        /\ /\ Good(rules, Done(step')) /\ Good(u, Done(step') \cup {step'})
           /\ \A n \in Priority : u[n] = rules[n] \/ Changed(step', n, rules[n], u[n])
           => LiveInv'
    BY <1>1, <2>1, Enters DEF Kinds
  <2>. DEFINE D == Done(step')
              E == Done(step') \cup {step'}
  <2>4. /\ \A s \in {"default", "path", "ping", "secret", "apps", "reset", "remove"} :
              s \in D /\ s \in E
    BY <1>13 DEF Done
  <2>5. Live => Good(rules, D) /\ Good(rules, E)
    <3>. SUFFICES ASSUME Live PROVE Good(rules, D) /\ Good(rules, E)
      OBVIOUS
    <3>1. CASE step = "remove" /\ stage # "Delete"
      <4>. DEFINE F == Done(step) \cup {step}
      <4>1. Good(rules, F) BY <1>3
      <4>2. \A s \in {"default", "path", "ping", "secret", "apps", "reset", "remove"} : s \in F
        BY <3>1 DEF Done
      <4>. HIDE DEF D, E, F
      <4>3. Follows(rules, D) /\ Follows(rules, E)
        BY <2>4, <4>1, <4>2 DEF Good, Follows, Asked
      <4>4. Fixed(rules, D) /\ Fixed(rules, E) BY <2>4, <4>1, <4>2 DEF Good, Fixed
      <4>5. want.sdk => Kept(rules, D) /\ Kept(rules, E) /\ Single(rules)
        BY <2>4, <4>1, <4>2 DEF Good, Kept
      <4>. QED BY <4>3, <4>4, <4>5 DEF Good
    <3>2. CASE step \in {"default", "secret"} /\ ~want.sdk
      <4>1. Good(rules, BeforeApps) BY <1>1, <3>2, BeforeAppsGood
      <4>2. \A s \in {"default", "path", "ping", "secret"} : s \in BeforeApps
        BY DEF BeforeApps
      <4>. HIDE DEF D, E
      <4>3. Follows(rules, D) /\ Follows(rules, E)
        BY <2>4, <4>1, <4>2 DEF Good, Follows, Asked
      <4>4. Fixed(rules, D) /\ Fixed(rules, E) BY <2>4, <3>2, <4>1, <4>2 DEF Good, Fixed
      <4>. QED BY <3>2, <4>3, <4>4 DEF Good
    <3>. QED BY <1>13, <3>1, <3>2 DEF Live
  <2>. HIDE DEF D, E
  <2>6. Live => LiveInv' BY <2>2, <2>3, <2>5 DEF D, E
  <2>. QED BY <2>3, <2>6
<1>. QED
  BY <1>1, <1>5, <1>6, <1>7, <1>8, <1>9, <1>10, <1>11, <1>12, <1>13, StepOrder

\* Rules are removed once the rules of both properties are there side by side;
\* an application whose rules a rollback has to create has none.
LEMMA NextLimited ==
    ASSUME AlbInv, NextStep
    PROVE  Limited(rules)'
<1>1. /\ AlbTypeOK /\ Stages /\ Limited(rules) /\ (Live => LiveInv) /\ calls = << >>
      /\ rules \in [Priority -> Rule]
      /\ stage \in {"Create", "Update", "Rollback", "Delete"}
      /\ UNCHANGED <<rules, stage, old, want, halved>>
  BY DEF AlbInv, NextStep, AlbTypeOK, Running
<1>2. Cardinality(Taken(Priority, rules))' <= RuleLimit
  BY <1>1 DEF Limited, Taken
<1>3. ASSUME want.sdk, halved = {}, stage = "Update", step' \in {"remove", "fallback"}
      PROVE  Room(rules)
  <2>1. step \in {"reset", "remove"} BY <1>1, <1>3, StepOrder
  <2>2. CASE step = "remove" BY <1>1, <1>3, <2>2 DEF Limited
  <2>3. CASE step = "reset"
    <3>1. Kept(rules, Done(step)) BY <1>1, <1>3 DEF LiveInv, Good, Live
    <3>2. "apps" \in Done(step) /\ "reset" \notin Done(step) BY <2>3 DEF Done
    <3>3. \A a \in old.apps \cup want.apps : Pair(a, rules)
      BY <1>3, <3>1, <3>2 DEF Kept
    <3>4. old.apps \cup want.apps \in SUBSET AppId BY <1>1 DEF AlbTypeOK, Properties
    <3>. DEFINE c == 2 * Cardinality(old.apps \cup want.apps)
                b == Cardinality(Taken(AppPriority, rules))
                d == Cardinality(Taken(1..4, rules))
                e == Cardinality(Taken(Priority, rules))
    <3>5. b \in Nat /\ c <= b BY <1>1, <3>3, <3>4, AtLeastTwo
    <3>6. c \in Nat
      <4>1. Cardinality(old.apps \cup want.apps) \in Nat BY <3>4, TwoKinds
      <4>. QED BY <4>1
    <3>7. d \in Nat /\ e \in Nat /\ e = d + b BY TakenSizes
    <3>8. e <= RuleLimit /\ RuleLimit \in Nat BY <1>1, AlbRulesAssumption DEF Limited
    <3>. HIDE DEF b, c, d, e
    <3>9. d + c <= RuleLimit BY <3>5, <3>6, <3>7, <3>8
    <3>. QED BY <3>9 DEF Room, c, d
  <2>. QED BY <2>1, <2>2, <2>3
<1>4. ASSUME want.sdk, halved = {}, stage = "Rollback", step' = "apps", calls' # << >>
      PROVE  Room(rules)
  <2>1. step \in {"default", "secret"} /\ calls' = AppCalls BY <1>1, <1>4, StepOrder
  <2>2. Good(rules, BeforeApps) BY <1>1, <1>4, <2>1, BeforeAppsGood DEF Live
  <2>3. Single(rules) /\ \A n \in Priority : Placed(n, rules[n])
    BY <1>4, <2>2 DEF Good, Follows
  <2>4. PICK S \in SUBSET Priority : \E q : PlansApps(AppCalls, S, q)
    BY <1>1, <2>3, PlanApps
  <2>5. PICK q : PlansApps(AppCalls, S, q) BY <2>4
  <2>6. Plan(calls', "create", S, q) BY <2>1, <2>5 DEF PlansApps
  <2>7. 1 \in 1..Len(calls')
    <3>1. calls' \in Seq(Call) BY <2>6 DEF Plan
    <3>. QED BY <1>4, <3>1, HeadTailProperties
  <2>8. calls'[1].at \in S BY <2>6, <2>7 DEF Plan
  <2>9. PICK a \in Missing : TRUE BY <2>5, <2>8 DEF PlansApps
  <2>10. a \in want.apps /\ a # "none" BY <1>1, <2>9, Names DEF Missing, AlbTypeOK, Properties
  <2>11. None(a, rules)
    BY <2>9, <2>10 DEF Missing, ExistingAppIds, Existing, None, NoRule
  <2>. QED BY <1>1, <1>4, <2>10, <2>11 DEF Limited
<1>5. ASSUME want.sdk, halved = {}, stage = "Rollback", NEW a \in want.apps, None(a, rules)
      PROVE  Room(rules)
  BY <1>1, <1>5 DEF Limited
<1>6. /\ Room(rules)' <=> Room(rules)
      /\ \A a : None(a, rules)' <=> None(a, rules)
  BY <1>1 DEF Room, None, Taken
<1>. QED BY <1>1, <1>2, <1>3, <1>4, <1>5, <1>6 DEF Limited

LEMMA NextStepKeeps ==
    ASSUME AlbInv, NextStep
    PROVE  AlbInv'
<1>1. /\ AlbTypeOK /\ Stages /\ CallsInv /\ step # "fallback"
      /\ UNCHANGED <<rules, stage, old, want, halved, updates, errors>>
  BY DEF AlbInv, NextStep
<1>2. calls' \in Seq(Call) /\ CallsInv' /\ (Live => LiveInv') BY NextCalls
<1>3. Limited(rules)' BY NextLimited
<1>4. step' \in Steps /\ step' # "begin" BY <1>1, StepOrder DEF Steps
<1>5. AlbTypeOK' BY <1>1, <1>2, <1>4 DEF AlbTypeOK
<1>6. Stages'
  <2>1. calls' = << >> \/ step' # "fallback" BY <1>1, StepOrder
  <2>. QED BY <1>1, <1>4, <2>1, StepOrder DEF Stages, Live, SameListener
<1>7. Live' <=> Live BY <1>1 DEF Live
<1>. QED BY <1>2, <1>3, <1>5, <1>6, <1>7 DEF AlbInv

-----------------------------------------------------------------------------
(* A call that is made.                                                    *)

LEMMA MakeCallKeeps ==
    ASSUME AlbInv, MakeCall
    PROVE  AlbInv'
<1>. DEFINE t == RulesAfter(Head(calls))
<1>1. /\ AlbTypeOK /\ Stages /\ CallsInv /\ Limited(rules) /\ (Live => LiveInv)
      /\ calls # << >> /\ ~Refused(Head(calls)) /\ rules' = t /\ calls' = Tail(calls)
      /\ stage \in {"Create", "Update", "Rollback", "Delete"}
      /\ UNCHANGED <<stage, old, want, step, halved, updates, errors>>
  BY DEF AlbInv, MakeCall, Running
<1>2. /\ Between(t) /\ Made(Tail(calls), t) = Result
      /\ Tail(calls) \in Seq(Call) /\ Apart(Tail(calls))
      /\ \A i \in 1..Len(Tail(calls)) : /\ i + 1 \in 1..Len(calls)
                                       /\ Tail(calls)[i] = calls[i + 1]
                                       /\ t[calls[i + 1].at] = rules[calls[i + 1].at]
      /\ Cardinality(Taken(Priority, t)) <= RuleLimit
  BY <1>1, FirstCall
<1>. HIDE DEF t
<1>3. AlbTypeOK' BY <1>1, <1>2 DEF AlbTypeOK, Between
<1>4. Stages' BY <1>1 DEF Stages, Live, SameListener
<1>5. CallsInv' BY <1>1, <1>2 DEF CallsInv
<1>6. Result' = Result BY <1>1, <1>2 DEF Result
<1>7. ASSUME Live PROVE LiveInv'
  <2>1. Good(t, Done(step)) BY <1>1, <1>2, <1>7, GoodBetween
  <2>2. Good(rules, Done(step))'
    <3>1. Done(step)' = Done(step) BY <1>1 DEF Done
    <3>. HIDE DEF Done
    <3>. QED BY <1>1, <2>1, <3>1, GoodNext
  <2>3. Good(Result, Done(step) \cup {step})'
    <3>1. (Done(step) \cup {step})' = Done(step) \cup {step} BY <1>1 DEF Done
    <3>2. Good(Result, Done(step) \cup {step}) BY <1>1, <1>7 DEF LiveInv
    <3>. HIDE DEF Done, Result
    <3>. QED BY <1>1, <1>6, <3>1, <3>2, GoodNext
  <2>4. \A n \in Priority : Result[n] = t[n] \/ Changed(step, n, t[n], Result[n])
    BY <1>1, <1>2, <1>7 DEF LiveInv, StepInv, Between
  <2>5. StepInv' BY <1>1, <1>6, <2>4 DEF StepInv, Changed
  <2>. QED BY <2>2, <2>3, <2>5 DEF LiveInv
<1>8. Live' <=> Live BY <1>1 DEF Live
<1>9. Limited(rules)'
  <2>1. Cardinality(Taken(Priority, rules))' <= RuleLimit BY <1>1, <1>2 DEF Taken
  <2>2. /\ Room(rules)' <=> Room(t)
        /\ \A a : None(a, rules)' <=> None(a, t)
    BY <1>1 DEF Room, None, Taken
  <2>3. want.sdk /\ halved = {} /\ stage \in {"Update", "Rollback"} =>
           /\ stage = "Update" /\ step \in {"remove", "fallback"} => Room(t)
           /\ stage = "Rollback" /\ (\E a \in want.apps : None(a, t)) => Room(t)
           /\ stage = "Rollback" /\ step = "apps" => Room(t)
    BY <1>1, <1>2, RoomStays DEF Live
  <2>. QED BY <1>1, <2>1, <2>2, <2>3 DEF Limited
<1>. QED BY <1>3, <1>4, <1>5, <1>7, <1>8, <1>9 DEF AlbInv

-----------------------------------------------------------------------------
(* Operations that end or begin.                                           *)

\* At the beginning and at the end of an operation no call is under way.
LEMMA Idle ==
    ASSUME step' \in {"begin", "fallback"}, calls' = << >>, rules' \in [Priority -> Rule],
           Good(rules, Done(step))'
    PROVE  LiveInv' /\ CallsInv'
<1>1. Result' = rules' BY MadeNone DEF Result
<1>2. Apart(calls') /\ Len(calls') = 0 BY MadeNone
<1>3. CallsInv' BY <1>2 DEF CallsInv
<1>4. StepInv' BY <1>1 DEF StepInv
<1>5. \A s \in {"default", "path", "ping", "secret", "apps", "reset", "remove"} :
         s \in Done(step)' <=> s \in (Done(step) \cup {step})'
  BY DEF Done
<1>6. Good(rules, Done(step) \cup {step})'
  <2>. HIDE DEF Done
  <2>1. Follows(rules, Done(step) \cup {step})'
    BY <1>5 DEF Good, Follows, Asked, Placed
  <2>2. Fixed(rules, Done(step) \cup {step})' BY <1>5 DEF Good, Fixed
  <2>3. want'.sdk => Single(rules)' /\ Kept(rules, Done(step) \cup {step})'
    BY <1>5 DEF Good, Kept
  <2>. QED BY <2>1, <2>2, <2>3 DEF Good
<1>7. Good(Result, Done(step) \cup {step})'
  <2>. HIDE DEF Done
  <2>1. Follows(Result, Done(step) \cup {step})'
    BY <1>1, <1>6 DEF Good, Follows, Asked, Placed
  <2>2. Fixed(Result, Done(step) \cup {step})' BY <1>1, <1>6 DEF Good, Fixed
  <2>3. want'.sdk => Single(Result)' /\ Kept(Result, Done(step) \cup {step})'
    BY <1>1, <1>6 DEF Good, Single, Kept, Pair, None
  <2>. QED BY <2>1, <2>2, <2>3 DEF Good
<1>. QED BY <1>3, <1>4, <1>7 DEF LiveInv

\* An update is rolled back, from wherever it has come to.
LEMMA RollbackBegins ==
    ASSUME AlbInv, stage \in {"Update", "Updated"}, NEW t, Between(t), rules' = t,
           Cardinality(Taken(Priority, t)) <= RuleLimit,
           Begin("Rollback"), old' = want, want' = old,
           halved' \in SUBSET AppId, halved \subseteq halved',
           step = "remove" => \A a \in AppId \ halved' : Cardinality(RulesOf(a, t)) # 1,
           updates' \in Nat, errors' \in Nat
    PROVE  AlbInv'
<1>1. /\ AlbTypeOK /\ Stages /\ CallsInv /\ LiveInv /\ Live
      /\ stage' = "Rollback" /\ step' = "begin" /\ calls' = << >>
      /\ t \in [Priority -> Rule] /\ SameListener(old, want)
      /\ old \in Properties /\ want \in Properties
      /\ old.apps \in SUBSET AppId /\ want.apps \in SUBSET AppId
  BY DEF AlbInv, Live, Begin, Between, Stages, AlbTypeOK, Properties
<1>2. Good(t, Done(step)) BY <1>1, GoodBetween
<1>. DEFINE D == Done(step)
<1>3. /\ step \in {"remove", "fallback"} \/ "reset" \notin D
      /\ step = "fallback" => "apps" \in D /\ "remove" \in D
  BY <1>1 DEF Done, AlbTypeOK, Steps
<1>. HIDE DEF D
<1>4. Follows(t, D) /\ Fixed(t, D) /\ (want.sdk => Single(t) /\ Kept(t, D))
  BY <1>2 DEF Good, D
<1>5. Follows(rules, {})'
  <2>1. \A s : Asked(s, D) \subseteq {old, want} BY DEF Asked
  <2>2. \A s : Asked(s, {})' = {old, want} BY DEF Asked
  <2>. QED BY <1>1, <1>4, <2>1, <2>2 DEF Follows, Placed
<1>6. Fixed(rules, {})'
  BY <1>1, <1>4 DEF Fixed, SameListener
<1>7. want'.sdk => Single(rules)' /\ Kept(rules, {})'
  <2>. SUFFICES ASSUME want'.sdk PROVE Single(rules)' /\ Kept(rules, {})'
    OBVIOUS
  <2>1. want.sdk BY <1>1 DEF SameListener
  <2>2. Single(t) /\ Kept(t, D) BY <1>4, <2>1
  <2>3. ASSUME NEW a \in old.apps \ halved' PROVE Pair(a, t) \/ None(a, t)
    <3>1. a \in AppId /\ a \notin halved BY <1>1, <2>3
    <3>2. CASE step = "remove"
      <4>1. Cardinality(RulesOf(a, t)) # 1 BY <3>1, <3>2, <2>3
      <4>. QED BY <4>1, <3>1, <1>1, <2>2, WholeOrHalf
    <3>3. CASE "reset" \notin D /\ stage = "Update"
      BY <3>1, <3>3, <2>2, <2>3 DEF Kept
    <3>4. CASE step = "fallback"
      BY <3>1, <3>4, <1>3, <2>2 DEF Kept
    <3>5. stage = "Updated" => step = "fallback" BY <1>1 DEF Stages
    <3>. QED BY <3>2, <3>3, <3>4, <3>5, <1>3
  <2>4. \A a : (Pair(a, rules)' <=> Pair(a, t)) /\ (None(a, rules)' <=> None(a, t))
    BY DEF Pair, None
  <2>5. Kept(rules, {})'
    <3>1. \A a \in (old.apps \cap want.apps) \ halved' : Pair(a, t)
      BY <2>2 DEF Kept, Changing
    <3>2. \A a \in AppId \ (old.apps \cup want.apps \cup halved') : None(a, t)
      BY <2>2 DEF Kept
    <3>. QED BY <1>1, <2>3, <2>4, <3>1, <3>2 DEF Kept
  <2>6. Single(rules)' BY <2>2 DEF Single
  <2>. QED BY <2>5, <2>6
<1>8. Good(rules, {})' BY <1>5, <1>6, <1>7 DEF Good
<1>9. LiveInv' /\ CallsInv'
  <2>1. Done(step)' = {} BY <1>1 DEF Done
  <2>2. Good(rules, Done(step))'
    <3>. HIDE DEF Done
    <3>. QED BY <1>8, <2>1 DEF Good, Follows, Fixed, Kept, Asked
  <2>. QED BY <1>1, <2>2, Idle
<1>10. AlbTypeOK' BY <1>1 DEF AlbTypeOK, Steps
<1>11. Stages' BY <1>1 DEF Stages, SameListener
<1>12. Limited(rules)'
  <2>1. Cardinality(Taken(Priority, rules))' <= RuleLimit BY DEF Taken
  <2>2. (Room(rules)' <=> Room(t)) /\ \A a : None(a, rules)' <=> None(a, t)
    <3>1. old'.apps \cup want'.apps = old.apps \cup want.apps OBVIOUS
    <3>. QED BY <3>1 DEF Room, None, Taken
  <2>3. ASSUME want'.sdk, halved' = {}, NEW a \in want'.apps, None(a, t) PROVE Room(t)
    <3>1. want.sdk /\ halved = {} /\ a \in old.apps BY <1>1, <2>3 DEF SameListener
    <3>2. CASE "reset" \notin D /\ stage = "Update"
      <4>1. Pair(a, t) BY <1>4, <3>1, <3>2 DEF Kept
      <4>. QED BY <2>3, <4>1 DEF Pair, None
    <3>3. CASE step \in {"remove", "fallback"} /\ stage = "Update"
      BY <3>1, <3>3, <1>1, RoomStays
    <3>4. CASE stage = "Updated" BY <3>1, <3>4, <1>1, RoomStays
    <3>. QED BY <3>2, <3>3, <3>4, <1>3
  <2>. QED BY <1>1, <2>1, <2>2, <2>3 DEF Limited
<1>. QED BY <1>9, <1>10, <1>11, <1>12 DEF AlbInv

\* A rollback that fails leaves rules as good as those it found.
LEMMA RollbackFails ==
    ASSUME AlbInv, stage = "Rollback", NEW t, Between(t), rules' = t,
           Cardinality(Taken(Priority, t)) <= RuleLimit,
           Begin("RollbackFailed"), UNCHANGED <<old, want>>,
           halved' \in SUBSET AppId, halved \subseteq halved',
           \A a \in AppId \ halved' : Cardinality(RulesOf(a, t)) # 1,
           updates' \in Nat, errors' \in Nat
    PROVE  AlbInv'
<1>1. /\ AlbTypeOK /\ Stages /\ CallsInv /\ LiveInv /\ Live
      /\ stage' = "RollbackFailed" /\ step' = "begin" /\ calls' = << >>
      /\ t \in [Priority -> Rule] /\ SameListener(old, want)
      /\ old \in Properties /\ want \in Properties
      /\ old.apps \in SUBSET AppId /\ want.apps \in SUBSET AppId
  BY DEF AlbInv, Live, Begin, Between, Stages, AlbTypeOK, Properties
<1>2. Good(t, Done(step)) BY <1>1, GoodBetween
<1>. DEFINE D == Done(step)
<1>. HIDE DEF D
<1>3. Follows(t, D) /\ Fixed(t, D) /\ (want.sdk => Single(t) /\ Kept(t, D))
  BY <1>2 DEF Good, D
<1>4. Follows(rules, {})'
  <2>1. \A s : Asked(s, D) \subseteq {old, want} BY DEF Asked
  <2>2. \A s : Asked(s, {})' = {old, want} BY DEF Asked
  <2>. QED BY <1>1, <1>3, <2>1, <2>2 DEF Follows, Placed
<1>5. Fixed(rules, {})' BY <1>1, <1>3 DEF Fixed
<1>6. want'.sdk => Single(rules)' /\ Kept(rules, {})'
  <2>. SUFFICES ASSUME want.sdk PROVE Single(rules)' /\ Kept(rules, {})'
    OBVIOUS
  <2>1. Single(t) /\ Kept(t, D) BY <1>3
  <2>2. \A a \in want.apps \ halved' : Pair(a, t) \/ None(a, t)
    BY <1>1, <2>1, WholeOrHalf
  <2>3. \A a : (Pair(a, rules)' <=> Pair(a, t)) /\ (None(a, rules)' <=> None(a, t))
    BY DEF Pair, None
  <2>4. Kept(rules, {})'
    <3>1. \A a \in (old.apps \cap want.apps) \ halved' : Pair(a, t)
      BY <1>1, <2>1 DEF Kept, Changing
    <3>2. \A a \in AppId \ (old.apps \cup want.apps \cup halved') : None(a, t)
      BY <1>1, <2>1 DEF Kept
    <3>. QED BY <1>1, <2>2, <2>3, <3>1, <3>2 DEF Kept
  <2>5. Single(rules)' BY <2>1 DEF Single
  <2>. QED BY <2>4, <2>5
<1>7. Good(rules, {})' BY <1>4, <1>5, <1>6 DEF Good
<1>8. LiveInv' /\ CallsInv'
  <2>1. Done(step)' = {} BY <1>1 DEF Done
  <2>2. Good(rules, Done(step))'
    <3>. HIDE DEF Done
    <3>. QED BY <1>7, <2>1 DEF Good, Follows, Fixed, Kept, Asked
  <2>. QED BY <1>1, <2>2, Idle
<1>9. AlbTypeOK' BY <1>1 DEF AlbTypeOK, Steps
<1>10. Stages' BY <1>1 DEF Stages, SameListener
<1>11. Limited(rules)'
  <2>1. Cardinality(Taken(Priority, rules))' <= RuleLimit BY DEF Taken
  <2>2. (Room(rules)' <=> Room(t)) /\ \A a : None(a, rules)' <=> None(a, t)
    BY DEF Room, None, Taken
  <2>3. ASSUME want.sdk, halved' = {}, NEW a \in want.apps, None(a, t) PROVE Room(t)
    <3>1. halved = {} BY <2>3
    <3>. QED BY <3>1, <1>1, <2>3, RoomStays
  <2>. QED BY <1>1, <2>1, <2>2, <2>3 DEF Limited
<1>. QED BY <1>8, <1>9, <1>10, <1>11 DEF AlbInv

\* Once the listener is to go, nothing is promised but that calls do not clash.
LEMMA GoneKeeps ==
    ASSUME AlbInv, rules' \in [Priority -> Rule],
           Cardinality(Taken(Priority, rules)') <= RuleLimit,
           \/ Begin("Gone") \/ Begin("Delete")
           \/ stage' = "Gone" /\ step' = "fallback" /\ calls' = << >>,
           UNCHANGED <<old, want>>,
           halved' \in SUBSET AppId, updates' \in Nat, errors' \in Nat
    PROVE  AlbInv'
<1>1. /\ AlbTypeOK /\ Stages /\ SameListener(old, want) BY DEF AlbInv, Stages
<1>2. /\ stage' \in {"Delete", "Gone"} /\ calls' = << >> /\ step' \in {"begin", "fallback"}
  BY DEF Begin
<1>3. AlbTypeOK' BY <1>1, <1>2 DEF AlbTypeOK, Steps
<1>4. Stages' BY <1>1, <1>2 DEF Stages, SameListener, Live
<1>5. CallsInv'
  <2>1. Apart(calls') /\ Len(calls') = 0 BY <1>2, MadeNone
  <2>. QED BY <2>1 DEF CallsInv
<1>6. Limited(rules)' BY <1>2 DEF Limited
<1>7. ~Live' BY <1>2 DEF Live
<1>. QED BY <1>3, <1>4, <1>5, <1>6, <1>7 DEF AlbInv

\* A call fails, is refused, or the load balancer carries it out and it fails.
LEMMA FailKeeps ==
    ASSUME AlbInv, Running, Fail, NEW t, Between(t), rules' = t,
           Cardinality(Taken(Priority, t)) <= RuleLimit, halved' = HalvedBy(t),
           updates' \in Nat, errors' \in Nat
    PROVE  AlbInv'
<1>1. halved \in SUBSET AppId /\ t \in [Priority -> Rule]
  BY DEF AlbInv, AlbTypeOK, Between
<1>2. /\ halved' \in SUBSET AppId /\ halved \subseteq halved'
      /\ step = "remove" \/ stage = "Rollback" =>
            \A a \in AppId \ halved' : Cardinality(RulesOf(a, t)) # 1
  BY <1>1 DEF HalvedBy
<1>3. Cardinality(Taken(Priority, rules)') <= RuleLimit BY DEF Taken
<1>4. CASE stage = "Create" BY <1>1, <1>2, <1>3, <1>4, GoneKeeps DEF Fail
<1>5. CASE stage = "Update" BY <1>2, <1>5, RollbackBegins DEF Fail
<1>6. CASE stage = "Rollback" BY <1>2, <1>6, RollbackFails DEF Fail
<1>7. CASE stage = "Delete" BY <1>1, <1>2, <1>3, <1>7, GoneKeeps DEF Fail
<1>. QED BY <1>4, <1>5, <1>6, <1>7 DEF Running

LEMMA Unmoved ==
    ASSUME AlbInv
    PROVE  Between(rules) /\ Cardinality(Taken(Priority, rules)) <= RuleLimit
BY DEF AlbInv, AlbTypeOK, Between, Limited

LEMMA CallRefusedKeeps ==
    ASSUME AlbInv, CallRefused
    PROVE  AlbInv'
<1>1. /\ Running /\ Fail /\ rules' = rules /\ halved' = HalvedBy(rules)
      /\ updates' \in Nat /\ errors' \in Nat
  BY DEF CallRefused, AlbInv, AlbTypeOK
<1>. QED BY <1>1, Unmoved, FailKeeps

LEMMA CallFailsKeeps ==
    ASSUME AlbInv, CallFails
    PROVE  AlbInv'
<1>1. /\ Running /\ Fail /\ halved' = HalvedBy(rules')
      /\ updates' \in Nat /\ errors' \in Nat
  BY DEF CallFails, Error, AlbInv, AlbTypeOK
<1>2. CASE rules' = rules BY <1>1, <1>2, Unmoved, FailKeeps
<1>3. CASE calls # << >> /\ ~Refused(Head(calls)) /\ rules' = RulesAfter(Head(calls))
  <2>1. AlbTypeOK /\ CallsInv /\ Limited(rules) BY DEF AlbInv
  <2>2. /\ Between(RulesAfter(Head(calls)))
        /\ Cardinality(Taken(Priority, RulesAfter(Head(calls)))) <= RuleLimit
    BY <1>3, <2>1, FirstCall
  <2>. QED BY <1>1, <1>3, <2>2, FailKeeps
<1>. QED BY <1>2, <1>3 DEF CallFails

LEMMA StackFailsKeeps ==
    ASSUME AlbInv, StackFails
    PROVE  AlbInv'
<1>1. /\ stage = "Updated" /\ rules' = rules /\ Begin("Rollback") /\ old' = want /\ want' = old
      /\ halved' = halved /\ halved \in SUBSET AppId /\ updates' \in Nat /\ errors' \in Nat
      /\ step # "remove"
  BY DEF StackFails, Error, AlbInv, AlbTypeOK, Stages
<1>. QED BY <1>1, Unmoved, RollbackBegins

\* What is left halved when the resource settles has one rule; the rest is whole.
LEMMA SettlesKeeps ==
    ASSUME AlbInv, stage \in {"Create", "Rollback", "Updated"}, step = "fallback",
           stage' = "Settled", halved' = StillHalved,
           UNCHANGED <<rules, old, want, step, calls, updates, errors>>
    PROVE  AlbInv'
<1>1. /\ AlbTypeOK /\ Stages /\ LiveInv /\ Limited(rules)
      /\ rules \in [Priority -> Rule] /\ calls = << >>
      /\ want.apps \in SUBSET AppId /\ old.apps \in SUBSET AppId
  BY DEF AlbInv, Live, Stages, AlbTypeOK, Properties
<1>. DEFINE D == Done(step)
<1>2. Good(rules, D) BY <1>1 DEF LiveInv
<1>3. /\ \A s \in {"default", "path", "ping", "secret", "apps", "reset", "remove"} : s \in D
      /\ Done(step)' = D
  BY DEF Done
<1>. HIDE DEF D
<1>4. halved' \in SUBSET AppId BY <1>1 DEF StillHalved, AlbTypeOK
<1>5. Follows(rules, D)' BY <1>2, <1>3 DEF Good, Follows, Asked, Placed, D
<1>6. Fixed(rules, D)' BY <1>2, <1>3 DEF Good, Fixed, D
<1>7. want'.sdk => Single(rules)' /\ Kept(rules, D)'
  <2>. SUFFICES ASSUME want.sdk PROVE Single(rules)' /\ Kept(rules, D)'
    OBVIOUS
  <2>1. Single(rules) /\ Kept(rules, D) BY <1>2 DEF Good
  <2>2. ASSUME NEW a \in want.apps PROVE ~None(a, rules) /\ (a \notin halved' => Pair(a, rules))
    <3>1. ~None(a, rules) /\ (a \notin halved => Pair(a, rules)) BY <1>3, <2>1 DEF Kept
    <3>2. ASSUME a \in halved, a \notin halved' PROVE Pair(a, rules)
      <4>1. Cardinality(RulesOf(a, rules)) # 1 BY <3>2 DEF StillHalved
      <4>. QED BY <1>1, <2>1, <3>1, <4>1, WholeOrHalf
    <3>. QED BY <3>1, <3>2
  <2>3. \A a \in AppId \ want.apps : None(a, rules) BY <1>3, <2>1 DEF Kept
  <2>4. Kept(rules, D)'
    <3>1. \A a : (Pair(a, rules)' <=> Pair(a, rules)) /\ (None(a, rules)' <=> None(a, rules))
      BY DEF Pair, None
    <3>. QED BY <1>3, <2>2, <2>3, <3>1 DEF Kept, Changing, D
  <2>5. Single(rules)' BY <2>1 DEF Single
  <2>. QED BY <2>4, <2>5
<1>8. LiveInv' /\ CallsInv'
  <2>1. Good(rules, Done(step))' BY <1>3, <1>5, <1>6, <1>7 DEF Good, D
  <2>. QED BY <1>1, <2>1, Idle
<1>9. AlbTypeOK' BY <1>1, <1>4 DEF AlbTypeOK
<1>10. Stages' BY <1>1 DEF Stages, SameListener
<1>11. Limited(rules)' BY <1>1 DEF Limited, Taken
<1>. QED BY <1>8, <1>9, <1>10, <1>11 DEF AlbInv

LEMMA FinishKeeps ==
    ASSUME AlbInv, Finish
    PROVE  AlbInv'
<1>1. /\ stage \in {"Create", "Update", "Rollback", "Delete"} /\ calls = << >> /\ step = "fallback"
      /\ UNCHANGED <<rules, old, want, step, calls, updates, errors>>
      /\ AlbTypeOK /\ Stages /\ CallsInv /\ Limited(rules) /\ (Live => LiveInv)
  BY DEF Finish, Running, AlbInv
<1>2. CASE stage \in {"Create", "Rollback"} BY <1>1, <1>2, SettlesKeeps DEF Finish
<1>3. CASE stage = "Update"
  <2>1. stage' = "Updated" /\ halved' = halved BY <1>3 DEF Finish
  <2>. DEFINE D == Done(step)
  <2>2. Good(rules, D) /\ Done(step)' = D BY <1>1, <1>3 DEF LiveInv, Live, Done
  <2>3. "reset" \in D BY <1>1 DEF Done
  <2>4. rules \in [Priority -> Rule] BY <1>1 DEF AlbTypeOK
  <2>5. Good(rules, D)'
    <3>1. D' = D BY <1>1 DEF Done
    <3>. HIDE DEF D
    <3>2. Follows(rules, D)' BY <1>1, <2>2, <3>1 DEF Good, Follows, Asked, Placed
    <3>3. Fixed(rules, D)' BY <1>1, <1>3, <2>1, <2>2, <3>1 DEF Good, Fixed
    <3>4. want'.sdk => Single(rules)' /\ Kept(rules, D)'
      BY <1>1, <1>3, <2>1, <2>2, <2>3, <3>1 DEF Good, Single, Kept, Changing, Pair, None
    <3>. QED BY <3>2, <3>3, <3>4 DEF Good
  <2>6. LiveInv' /\ CallsInv' BY <1>1, <2>4, <2>5, Idle
  <2>7. AlbTypeOK' BY <1>1, <2>1 DEF AlbTypeOK
  <2>8. Stages' BY <1>1, <1>3, <2>1 DEF Stages, SameListener, Live
  <2>9. Limited(rules)'
    <3>1. (Room(rules)' <=> Room(rules)) /\ Taken(Priority, rules)' = Taken(Priority, rules)
      BY <1>1 DEF Room, Taken
    <3>. QED BY <1>1, <1>3, <2>1, <3>1 DEF Limited
  <2>. QED BY <2>6, <2>7, <2>8, <2>9 DEF AlbInv
<1>4. CASE stage = "Delete"
  <2>1. stage' = "Gone" /\ halved' = StillHalved /\ step' = "fallback" /\ calls' = << >>
    BY <1>1, <1>4 DEF Finish
  <2>2. halved' \in SUBSET AppId /\ updates' \in Nat /\ errors' \in Nat
        /\ rules' \in [Priority -> Rule]
    BY <1>1, <2>1 DEF StillHalved, AlbTypeOK
  <2>3. Cardinality(Taken(Priority, rules)') <= RuleLimit BY <1>1 DEF Limited, Taken
  <2>. QED BY <1>1, <2>1, <2>2, <2>3, GoneKeeps
<1>. QED BY <1>1, <1>2, <1>3, <1>4

LEMMA StackSettlesKeeps ==
    ASSUME AlbInv, StackSettles
    PROVE  AlbInv'
<1>1. stage = "Updated" => step = "fallback" BY DEF AlbInv, Stages
<1>. QED BY <1>1, SettlesKeeps DEF StackSettles

\* An update begins from rules that are as the old properties want them.
LEMMA UpdateKeeps ==
    ASSUME AlbInv, NEW c \in Properties, Update(c)
    PROVE  AlbInv'
<1>1. /\ AlbTypeOK /\ Stages /\ LiveInv /\ Limited(rules)
      /\ rules \in [Priority -> Rule] /\ step = "fallback" /\ SameListener(c, want)
      /\ want.apps \in SUBSET AppId /\ c.apps \in SUBSET AppId /\ want \in Properties
      /\ stage = "Settled" /\ stage' = "Update" /\ step' = "begin" /\ calls' = << >>
      /\ old' = want /\ want' = c /\ updates' = updates + 1
      /\ UNCHANGED <<rules, halved, errors>>
  BY DEF AlbInv, Live, Stages, AlbTypeOK, Properties, Update, Begin
<1>. DEFINE D == Done(step)
<1>2. Good(rules, D) BY <1>1 DEF LiveInv
<1>3. \A s \in {"default", "path", "ping", "secret", "apps", "reset", "remove"} : s \in D
  BY <1>1 DEF Done
<1>. HIDE DEF D
<1>4. Follows(rules, {})'
  <2>1. \A s \in {"path", "ping", "secret"} : Asked(s, D) = {want} BY <1>3 DEF Asked
  <2>2. \A s : Asked(s, {})' = {want, c} BY <1>1 DEF Asked
  <2>. QED BY <1>1, <1>2, <2>1, <2>2 DEF Good, Follows, Placed
<1>5. Fixed(rules, {})'
  <2>1. 1 \in 1..3 OBVIOUS
  <2>. QED BY <1>1, <1>2, <1>3, <2>1 DEF Good, Fixed, SameListener
<1>6. want'.sdk => Single(rules)' /\ Kept(rules, {})'
  <2>. SUFFICES ASSUME want'.sdk PROVE Single(rules)' /\ Kept(rules, {})'
    OBVIOUS
  <2>1. Single(rules) /\ Kept(rules, D) BY <1>1, <1>2 DEF Good, SameListener
  <2>2. /\ \A a \in want.apps \ halved : Pair(a, rules)
        /\ \A a \in AppId \ want.apps : None(a, rules)
    BY <1>3, <2>1 DEF Kept
  <2>3. \A a : (Pair(a, rules)' <=> Pair(a, rules)) /\ (None(a, rules)' <=> None(a, rules))
    BY <1>1 DEF Pair, None
  <2>4. Kept(rules, {})' BY <1>1, <2>2, <2>3 DEF Kept
  <2>5. Single(rules)' BY <1>1, <2>1 DEF Single
  <2>. QED BY <2>4, <2>5
<1>7. Good(rules, {})' BY <1>4, <1>5, <1>6 DEF Good
<1>8. LiveInv' /\ CallsInv'
  <2>1. Done(step)' = {} BY <1>1 DEF Done
  <2>2. Good(rules, Done(step))'
    <3>. HIDE DEF Done
    <3>. QED BY <1>7, <2>1 DEF Good, Follows, Fixed, Kept, Asked
  <2>. QED BY <1>1, <2>2, Idle
<1>9. AlbTypeOK' BY <1>1 DEF AlbTypeOK, Steps
<1>10. Stages' BY <1>1 DEF Stages, SameListener
<1>11. Limited(rules)' BY <1>1 DEF Limited, Taken
<1>. QED BY <1>8, <1>9, <1>10, <1>11 DEF AlbInv

LEMMA ContinueRollbackKeeps ==
    ASSUME AlbInv, ContinueRollback
    PROVE  AlbInv'
<1>1. /\ AlbTypeOK /\ Stages /\ LiveInv /\ Limited(rules)
      /\ rules \in [Priority -> Rule] /\ step = "begin"
      /\ stage = "RollbackFailed" /\ stage' = "Rollback" /\ step' = "begin" /\ calls' = << >>
      /\ UNCHANGED <<rules, old, want, halved, updates, errors>>
  BY DEF AlbInv, Live, Stages, AlbTypeOK, ContinueRollback, Begin
<1>2. Good(rules, {}) BY <1>1 DEF LiveInv, Done
<1>3. Good(rules, {})'
  <2>1. Follows(rules, {})' BY <1>1, <1>2 DEF Good, Follows, Asked, Placed
  <2>2. Fixed(rules, {})' BY <1>1, <1>2 DEF Good, Fixed
  <2>3. want'.sdk => Single(rules)' /\ Kept(rules, {})'
    BY <1>1, <1>2 DEF Good, Single, Kept, Changing, Pair, None
  <2>. QED BY <2>1, <2>2, <2>3 DEF Good
<1>4. LiveInv' /\ CallsInv'
  <2>1. Done(step)' = {} BY <1>1 DEF Done
  <2>2. Good(rules, Done(step))'
    <3>. HIDE DEF Done
    <3>. QED BY <1>3, <2>1 DEF Good, Follows, Fixed, Kept, Asked
  <2>. QED BY <1>1, <2>2, Idle
<1>5. AlbTypeOK' BY <1>1 DEF AlbTypeOK, Steps
<1>6. Stages' BY <1>1 DEF Stages, SameListener
<1>7. Limited(rules)'
  <2>1. /\ (Room(rules)' <=> Room(rules)) /\ Taken(Priority, rules)' = Taken(Priority, rules)
        /\ \A a : None(a, rules)' <=> None(a, rules)
    BY <1>1 DEF Room, Taken, None
  <2>. QED BY <1>1, <2>1 DEF Limited
<1>. QED BY <1>4, <1>5, <1>6, <1>7 DEF AlbInv

LEMMA DeleteKeeps ==
    ASSUME AlbInv, Delete
    PROVE  AlbInv'
<1>1. /\ Begin("Delete") /\ rules' \in [Priority -> Rule] /\ UNCHANGED <<old, want>>
      /\ halved' \in SUBSET AppId /\ updates' \in Nat /\ errors' \in Nat
  BY DEF AlbInv, AlbTypeOK, Delete
<1>2. Cardinality(Taken(Priority, rules)') <= RuleLimit
  BY DEF AlbInv, Limited, Delete, Taken
<1>. QED BY <1>1, <1>2, GoneKeeps

LEMMA AlbInitInv == AlbInit => AlbInv
<1>. SUFFICES ASSUME AlbInit PROVE AlbInv
  OBVIOUS
<1>1. /\ rules \in [Priority -> Rule] /\ want \in Properties /\ old = want
      /\ \A n \in Priority : rules[n] = NoRule
      /\ stage = "Create" /\ step = "begin" /\ calls = << >> /\ halved = {}
      /\ want.apps \in SUBSET AppId
  BY Names DEF AlbInit, Properties
<1>2. AlbTypeOK BY <1>1 DEF AlbInit, AlbTypeOK, Steps
<1>3. Stages BY <1>1 DEF AlbInit, Stages, SameListener, Live
<1>4. Result = rules /\ Apart(calls) /\ Len(calls) = 0 BY <1>1, MadeNone DEF Result
<1>5. CallsInv BY <1>4 DEF CallsInv
<1>6. /\ 1 \in Priority /\ 2 \in Priority /\ 3 \in Priority /\ 4 \in Priority
      /\ \A n \in AppPriority : n \in Priority
      /\ \A n \in 1..3 : n \in Priority
  BY Priorities
<1>7. {"none", "ping", "/*", "/login"} \cap Path = {} /\ {"none", "any"} \cap AppId = {} BY Names
<1>8. ASSUME NEW D \in {{}, {"begin"}} PROVE Good(rules, D)
  <2>1. \A s \in {"default", "path", "ping", "secret", "apps", "reset", "remove"} : s \notin D
    OBVIOUS
  <2>2. Follows(rules, D) BY <1>1, <1>7 DEF Follows, Placed, NoRule
  <2>3. Fixed(rules, D) BY <1>1, <1>6, <2>1 DEF Fixed
  <2>4. Single(rules) BY <1>1, <1>6 DEF Single
  <2>5. \A a \in AppId : None(a, rules) BY <1>1, <1>6, <1>7 DEF None, NoRule
  <2>6. Kept(rules, D) BY <1>1, <2>1, <2>5 DEF Kept, Changing
  <2>. QED BY <2>2, <2>3, <2>4, <2>6 DEF Good
<1>9. LiveInv
  <2>1. Done(step) = {} /\ Done(step) \cup {step} = {"begin"} BY <1>1 DEF Done
  <2>. QED BY <1>4, <1>8, <2>1 DEF LiveInv, StepInv
<1>10. Limited(rules)
  <2>1. Taken(Priority, rules) = {} BY <1>1 DEF Taken
  <2>2. Cardinality(Taken(Priority, rules)) = 0 BY <2>1, FS_EmptySet
  <2>. QED BY <1>1, <2>2, AlbRulesAssumption DEF Limited
<1>. QED BY <1>2, <1>3, <1>5, <1>9, <1>10 DEF AlbInv

-----------------------------------------------------------------------------
(* The theorems.                                                           *)

LEMMA AlbInvUnchanged ==
    ASSUME AlbInv, UNCHANGED albVars
    PROVE  AlbInv'
<1>1. /\ AlbTypeOK /\ Stages /\ CallsInv /\ Limited(rules) /\ (Live => LiveInv)
      /\ UNCHANGED <<rules, stage, old, want, step, calls, halved, updates, errors>>
  BY DEF AlbInv, albVars
<1>2. AlbTypeOK' /\ Stages' BY <1>1 DEF AlbTypeOK, Stages, SameListener, Live
<1>3. Result' = Result BY <1>1 DEF Result
<1>4. CallsInv' BY <1>1 DEF CallsInv
<1>5. Limited(rules)'
  <2>1. /\ (Room(rules)' <=> Room(rules)) /\ Taken(Priority, rules)' = Taken(Priority, rules)
        /\ \A a : None(a, rules)' <=> None(a, rules)
    BY <1>1 DEF Room, Taken, None
  <2>. QED BY <1>1, <2>1 DEF Limited
<1>6. ASSUME Live PROVE LiveInv'
  <2>1. StepInv' BY <1>1, <1>3, <1>6 DEF LiveInv, StepInv, Changed
  <2>2. Done(step)' = Done(step) /\ (Done(step) \cup {step})' = Done(step) \cup {step}
    BY <1>1 DEF Done
  <2>3. Good(rules, Done(step)) /\ Good(Result, Done(step) \cup {step})
    BY <1>1, <1>6 DEF LiveInv
  <2>. HIDE DEF Done, Result
  <2>4. Good(rules, Done(step))' BY <1>1, <2>2, <2>3, GoodNext
  <2>5. Good(Result, Done(step) \cup {step})' BY <1>1, <1>3, <2>2, <2>3, GoodNext
  <2>. QED BY <2>1, <2>4, <2>5 DEF LiveInv
<1>7. Live' <=> Live BY <1>1 DEF Live
<1>. QED BY <1>1, <1>2, <1>4, <1>5, <1>6, <1>7 DEF AlbInv

\* The invariant: the rules are good at every instant, and become good in the
\* step's way by the calls that it has yet to make (the handler of
\* custom-resource/update-alb-rules, and CloudFormation that calls it).
THEOREM AlbInvariant == AlbSpec => []AlbInv
<1>1. AlbInit => AlbInv BY AlbInitInv
<1>2. AlbInv /\ [AlbNext]_albVars => AlbInv'
  <2>. SUFFICES ASSUME AlbInv, [AlbNext]_albVars PROVE AlbInv'
    OBVIOUS
  <2>1. CASE NextStep BY <2>1, NextStepKeeps
  <2>2. CASE MakeCall BY <2>2, MakeCallKeeps
  <2>3. CASE Finish BY <2>3, FinishKeeps
  <2>4. CASE CallRefused BY <2>4, CallRefusedKeeps
  <2>5. CASE CallFails BY <2>5, CallFailsKeeps
  <2>6. CASE StackFails BY <2>6, StackFailsKeeps
  <2>7. CASE StackSettles BY <2>7, StackSettlesKeeps
  <2>8. ASSUME NEW c \in Properties, Update(c) PROVE AlbInv' BY <2>8, UpdateKeeps
  <2>9. CASE ContinueRollback BY <2>9, ContinueRollbackKeeps
  <2>10. CASE Delete BY <2>10, DeleteKeeps
  <2>11. CASE UNCHANGED albVars BY <2>11, AlbInvUnchanged
  <2>. QED BY <2>1, <2>2, <2>3, <2>4, <2>5, <2>6, <2>7, <2>8, <2>9, <2>10, <2>11 DEF AlbNext
<1>. QED BY <1>1, <1>2, PTL DEF AlbSpec

\* Once an operation has ended, updates and rollbacks from any point included,
\* applications are routed if and only if they are registered, as the properties
\* have it, and nothing else is forwarded.
THEOREM RoutesAreSettled == AlbSpec => []RoutesSettled
<1>1. AlbInv => RoutesSettled
  <2>. SUFFICES ASSUME AlbInv, stage = "Settled"
                PROVE  /\ want.sdk =>
                            /\ \A a \in AppId \ halved :
                                 IF a \in want.apps THEN Routed(a, want) ELSE RulesOf(a, rules) = {}
                            /\ (rules[1] # NoRule) = (want.apps = {})
                            /\ want.apps # {} => rules[2] = NoRule /\ rules[3] = NoRule
                       /\ ~want.sdk => /\ rules[2] = DefaultForward(want)
                                       /\ rules[3] = DefaultPing(want)
                       /\ rules[4] = IF want.secret = NoSecret THEN NoRule ELSE AuthLogin(want)
    BY DEF RoutesSettled
  <2>1. /\ AlbTypeOK /\ step = "fallback" /\ LiveInv
        /\ rules \in [Priority -> Rule] /\ want.path \in Path
    BY DEF AlbInv, Stages, Live, AlbTypeOK, Properties
  <2>. DEFINE D == Done(step)
  <2>2. \A s \in {"default", "path", "ping", "secret", "apps", "reset", "remove"} : s \in D
    BY <2>1 DEF Done
  <2>3. Good(rules, D) BY <2>1 DEF LiveInv
  <2>. HIDE DEF D
  <2>4. /\ 1 \in Priority /\ 2 \in Priority /\ 3 \in Priority /\ 4 \in Priority
        /\ 1 \notin AppPriority /\ 2 \notin AppPriority /\ 3 \notin AppPriority
        /\ 4 \notin AppPriority /\ 1 \in 1..3 /\ 2 \in 1..3 /\ 3 \in 1..3
        /\ \A n \in AppPriority : n \in Priority
    BY Priorities
  <2>5. {"none", "ping", "/*", "/login"} \cap Path = {} /\ {"none", "any"} \cap AppId = {}
    BY Names
  <2>6. \A s \in {"path", "ping", "secret"} : Asked(s, D) = {want} BY <2>2 DEF Asked
  <2>7. ASSUME NEW n \in Priority
        PROVE  /\ Placed(n, rules[n])
               /\ rules[n].path \in Path => rules[n] = Forward(want, rules[n].app, want.path)
               /\ rules[n].path = "ping" => rules[n] = Forward(want, rules[n].app, "ping")
               /\ rules[n].path = "/login" => rules[n].secret = want.secret
    <3>. DEFINE r == rules[n]
    <3>1. /\ Placed(n, r)
          /\ r.path \in Path => r.path = want.path /\ r.host = want.host
          /\ r.path = "ping" => r.host = want.host
          /\ r.path \in Path \cup {"ping", "/login"} => r.secret = want.secret
      BY <2>3, <2>6 DEF Good, Follows
    <3>2. r \in Rule BY <2>1
    <3>. HIDE DEF r
    <3>3. r = [app |-> r.app, path |-> r.path, host |-> r.host, secret |-> r.secret]
      BY <3>2 DEF Rule
    <3>. QED BY <3>1, <3>3 DEF Forward, r
  <2>8. ASSUME want.sdk, NEW a \in AppId \ halved
        PROVE  IF a \in want.apps THEN Routed(a, want) ELSE RulesOf(a, rules) = {}
    <3>1. Single(rules) /\ Kept(rules, D) BY <2>3, <2>8 DEF Good
    <3>2. CASE a \in want.apps
      <4>1. Pair(a, rules) BY <2>2, <2>8, <3>1, <3>2 DEF Kept
      <4>2. Cardinality(RulesOf(a, rules)) = 2 BY <2>1, <3>1, <4>1, PairIsTwo
      <4>3. PICK m \in AppPriority, n \in AppPriority :
                   /\ rules[m].app = a /\ rules[m].path = "ping"
                   /\ rules[n].app = a /\ rules[n].path # "ping"
        BY <4>1 DEF Pair
      <4>4. rules[m] = Forward(want, a, "ping") BY <2>4, <2>7, <4>3
      <4>5. rules[n].path \in Path
        <5>1. rules[n] # NoRule BY <2>5, <2>8, <4>3 DEF NoRule
        <5>2. Placed(n, rules[n]) /\ n \notin {1, 2, 3, 4} BY <2>4, <2>7
        <5>. QED BY <4>3, <5>1, <5>2 DEF Placed
      <4>6. rules[n] = Forward(want, a, want.path) BY <2>4, <2>7, <4>3, <4>5
      <4>. QED BY <3>2, <4>2, <4>4, <4>6 DEF Routed
    <3>3. CASE a \notin want.apps
      <4>1. None(a, rules) BY <2>2, <2>8, <3>1, <3>3 DEF Kept
      <4>. QED BY <3>3, <4>1 DEF None, RulesOf
    <3>. QED BY <3>2, <3>3
  <2>9. ASSUME want.sdk
        PROVE  /\ (rules[1] # NoRule) = (want.apps = {})
               /\ want.apps # {} => rules[2] = NoRule /\ rules[3] = NoRule
    <3>1. Fixed(rules, D) BY <2>3 DEF Good
    <3>2. want.apps = {} => rules[1] # NoRule BY <2>2, <2>9, <3>1 DEF Fixed
    <3>3. want.apps # {} => rules[1] = NoRule /\ rules[2] = NoRule /\ rules[3] = NoRule
      BY <2>2, <2>4, <2>9, <3>1 DEF Fixed
    <3>. QED BY <3>2, <3>3
  <2>10. ASSUME ~want.sdk
         PROVE  rules[2] = DefaultForward(want) /\ rules[3] = DefaultPing(want)
    <3>1. rules[2] # NoRule /\ rules[3] # NoRule BY <2>2, <2>3, <2>10 DEF Good, Fixed
    <3>2. /\ rules[2].app = "any" /\ rules[2].path \in Path
          /\ rules[3].app = "any" /\ rules[3].path = "ping"
      <4>1. Placed(2, rules[2]) /\ Placed(3, rules[3]) BY <2>4, <2>7
      <4>. QED BY <2>4, <3>1, <4>1 DEF Placed
    <3>. QED BY <2>4, <2>7, <3>2 DEF DefaultForward, DefaultPing
  <2>11. rules[4] = IF want.secret = NoSecret THEN NoRule ELSE AuthLogin(want)
    <3>1. (rules[4] # NoRule) = (want.secret # NoSecret) BY <2>2, <2>3 DEF Good, Fixed
    <3>2. CASE rules[4] # NoRule
      <4>. DEFINE r == rules[4]
      <4>1. Placed(4, r) BY <2>4, <2>7
      <4>2. r.app = "any" /\ r.path = "/login" /\ r.host = NoHost
        BY <2>4, <3>2, <4>1 DEF Placed
      <4>3. r.secret = want.secret BY <2>4, <2>7, <4>2
      <4>4. r \in Rule BY <2>1, <2>4
      <4>. HIDE DEF r
      <4>5. r = [app |-> "any", path |-> "/login", host |-> NoHost, secret |-> want.secret]
        BY <4>2, <4>3, <4>4 DEF Rule
      <4>. QED BY <3>1, <3>2, <4>5 DEF AuthLogin, r
    <3>. QED BY <3>1, <3>2
  <2>. QED BY <2>8, <2>9, <2>10, <2>11
<1>. QED BY <1>1, AlbInvariant, PTL

\* No update interrupts an application that it keeps: between any two calls, and
\* through failures and rollbacks, its endpoint is there and is not refused.
THEOREM KeptAppsStayRouted == AlbSpec => []KeptApps
<1>1. AlbInv => KeptApps
  <2>. SUFFICES ASSUME AlbInv, want.sdk, Changing,
                       NEW a \in (old.apps \cap want.apps) \ halved
                PROVE  /\ rules[1] = NoRule
                       /\ \E n \in AppPriority :
                            /\ rules[n].app = a
                            /\ \/ rules[n].path = old.path /\ rules[n].host = old.host
                               \/ rules[n].path = want.path /\ rules[n].host = want.host
    BY DEF KeptApps, Changing
  <2>. DEFINE D == Done(step)
  <2>1. AlbTypeOK /\ LiveInv /\ old.apps \in SUBSET AppId
    BY DEF AlbInv, Live, Changing, AlbTypeOK, Properties
  <2>2. Good(rules, D) BY <2>1 DEF LiveInv
  <2>. HIDE DEF D
  <2>3. Follows(rules, D) /\ Fixed(rules, D) /\ Kept(rules, D) BY <2>2 DEF Good
  <2>4. rules[1] = NoRule BY <2>3 DEF Fixed
  <2>5. Pair(a, rules) BY <2>3 DEF Kept
  <2>6. PICK n \in AppPriority : rules[n].app = a /\ rules[n].path # "ping"
    BY <2>5 DEF Pair
  <2>7. n \in Priority /\ n \notin 1..4 BY Priorities
  <2>8. rules[n] # NoRule BY <2>1, <2>6, Names DEF NoRule
  <2>9. rules[n].path \in Path
    <3>1. Placed(n, rules[n]) BY <2>3, <2>7 DEF Follows
    <3>. QED BY <2>6, <2>7, <2>8, <3>1 DEF Placed
  <2>10. \E c \in Asked("path", D) : rules[n].path = c.path /\ rules[n].host = c.host
    BY <2>3, <2>7, <2>9 DEF Follows
  <2>. QED BY <2>4, <2>6, <2>10 DEF Asked
<1>. QED BY <1>1, AlbInvariant, PTL

\* A rule is created under a free priority, and a rollback that creates rules of
\* an application again does not find the listener full.
THEOREM CreatesAreAccepted == AlbSpec => []CreatesSucceed
<1>1. AlbInv => CreatesSucceed
  <2>. SUFFICES ASSUME AlbInv, Running, calls # << >>, Refused(Head(calls))
                PROVE  /\ rules[Head(calls).at] = NoRule
                       /\ stage = "Rollback" /\ Head(calls).at \in AppPriority => halved # {}
    BY DEF CreatesSucceed
  <2>1. /\ AlbTypeOK /\ Stages /\ CallsInv /\ Limited(rules) /\ (Live => LiveInv)
        /\ rules \in [Priority -> Rule] /\ calls \in Seq(Call) /\ Apart(calls)
        /\ old.apps \in SUBSET AppId /\ want.apps \in SUBSET AppId
    BY DEF AlbInv, CallsInv, AlbTypeOK, Properties
  <2>. DEFINE n == Head(calls).at
  <2>2. 1 \in 1..Len(calls) /\ Head(calls) = calls[1] BY <2>1, HeadTailProperties
  <2>3. Head(calls).do = "create" BY DEF Refused
  <2>4. /\ rules[n] = NoRule /\ calls[1].rule # NoRule
        /\ n \in AppPriority => step = "apps"
    BY <2>1, <2>2, <2>3 DEF CallsInv
  <2>5. ASSUME stage = "Rollback", n \in AppPriority, halved = {} PROVE FALSE
    <3>1. step = "apps" /\ Live /\ want.sdk BY <2>1, <2>4, <2>5 DEF Stages, Live
    <3>2. Room(rules) BY <2>1, <2>5, <3>1 DEF Limited
    <3>. DEFINE A == old.apps \cup want.apps
                T == Taken(AppPriority, rules)
                U == Taken(AppPriority, Result)
    <3>3. A \in SUBSET AppId BY <2>1
    <3>4. Result \in [Priority -> Rule] /\ Result[n] = calls[1].rule
      BY <2>1, <2>2, MadeAt DEF Result
    <3>5. Good(Result, Done(step) \cup {step}) /\ StepInv BY <2>1, <3>1 DEF LiveInv
    <3>6. \A m \in AppPriority : m \in Priority /\ m \notin 1..4 BY Priorities
    <3>7. T \in SUBSET U /\ n \in U /\ n \notin T
      <4>1. \A m \in AppPriority : rules[m] # NoRule => Result[m] = rules[m]
        BY <3>1, <3>5, <3>6 DEF StepInv, Changed
      <4>. QED BY <2>4, <2>5, <3>4, <4>1 DEF Taken
    <3>8. ASSUME NEW m \in U PROVE Result[m].app \in A
      <4>1. m \in AppPriority /\ Result[m] # NoRule BY DEF Taken
      <4>2. Result[m].app \in AppId
        <5>1. Placed(m, Result[m]) BY <3>5, <3>6, <4>1 DEF Good, Follows
        <5>. QED BY <3>6, <4>1, <5>1 DEF Placed
      <4>3. Result[m].app \notin AppId \ (old.apps \cup want.apps \cup halved)
        BY <2>5, <3>1, <3>5, <4>1 DEF Good, Kept, None
      <4>. QED BY <2>5, <4>2, <4>3
    <3>9. Single(Result) BY <3>1, <3>5 DEF Good
    <3>10. Cardinality(U) \in Nat /\ Cardinality(U) <= 2 * Cardinality(A)
      <4>. HIDE DEF A
      <4>. QED BY <3>3, <3>4, <3>8, <3>9, AtMostTwo
    <3>11. IsFiniteSet(U) BY Priorities, FS_Subset DEF Taken
    <3>. DEFINE c == Cardinality(T)
                d == Cardinality(Taken(1..4, rules))
                e == Cardinality(Taken(Priority, rules))
                k == Cardinality(A)
    <3>12. c \in Nat /\ c < Cardinality(U)
      <4>. HIDE DEF T, U
      <4>1. IsFiniteSet(T) /\ Cardinality(T) <= Cardinality(U) /\ Cardinality(T) # Cardinality(U)
        BY <3>7, <3>11, FS_Subset
      <4>2. Cardinality(T) \in Nat BY <4>1, FS_CardinalityType
      <4>. QED BY <3>10, <4>1, <4>2
    <3>13. d \in Nat /\ e \in Nat /\ e = d + c BY TakenSizes
    <3>14. k \in Nat BY <3>3, TwoKinds
    <3>15. d + 2 * k <= RuleLimit /\ RuleLimit \in Nat
      BY <3>2, AlbRulesAssumption DEF Room
    <3>16. e >= RuleLimit
      <4>1. Taken(Priority, rules) = Existing(Priority) BY DEF Taken, Existing
      <4>2. Cardinality(Existing(Priority)) >= RuleLimit BY <2>4 DEF Refused
      <4>. QED BY <4>1, <4>2
    <3>17. Cardinality(U) <= 2 * k BY <3>10
    <3>. HIDE DEF T, U, A, c, d, e, k
    <3>. QED BY <3>10, <3>12, <3>13, <3>14, <3>15, <3>16, <3>17
  <2>. QED BY <2>4, <2>5
<1>. QED BY <1>1, AlbInvariant, PTL
=====
