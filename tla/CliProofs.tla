------------------------------ MODULE CliProofs ------------------------------
(***************************************************************************)
(* What the walk over a command line comes to, for words and command lines *)
(* without bound: each word goes to nocruft or to the child as the whole   *)
(* line says it should, in order.                                          *)
(***************************************************************************)
EXTENDS Cli, FiniteSetTheorems, TLAPS

(* Induction over numbers, as a least member: of the sets 0..n some is not *)
(* above any other.                                                        *)
LEMMA LeastNatural ==
  ASSUME NEW S, S \subseteq Nat, S # {}
  PROVE  \E n \in S : \A m \in S : n <= m
<1> DEFINE Upto == {0..n : n \in S}
<1>1. IsWellFoundedOn(StrictSubsetOrdering(Nat), FiniteSubsetsOf(Nat))
  BY FS_StrictSubsetOrderingWellFounded
<1>2. \A n \in S : IsFiniteSet(0..n) /\ 0..n \subseteq Nat
  BY FS_Interval
<1>3. Upto \subseteq FiniteSubsetsOf(Nat) /\ Upto # {}
  BY <1>2 DEF FiniteSubsetsOf
<1>4. PICK least \in Upto : \A up \in Upto : ~(<<up, least>> \in StrictSubsetOrdering(Nat))
  BY <1>1, <1>3, WFMin
<1>5. PICK n \in S : least = 0..n
  BY <1>4
<1>6. ASSUME NEW m \in S, m < n PROVE FALSE
  <2>1. 0..m \subseteq 0..n /\ n \in 0..n /\ n \notin 0..m
    BY <1>6
  <2>2. <<0..m, 0..n>> \in StrictSubsetOrdering(Nat)
    BY <1>2, <2>1 DEF StrictSubsetOrdering
  <2> QED
    BY <1>4, <1>5, <2>2
<1> QED
  BY <1>6

-----------------------------------------------------------------------------
(* The walk, step by step.                                                 *)

Entry == [tok : Token, values : Seq(Token)]
WalkState ==
  [nc_bucket : Seq(Entry), child_bucket : Seq(Token),
   after_separator : BOOLEAN, pending : BOOLEAN]

(* The function that Passed defines, as far as n tokens                    *)
IsWalk(argv, n, after) ==
  after = [k \in 0..n |-> IF k = 0 THEN NothingSeen ELSE Route(after[k - 1], argv[k])]

LEMMA WalkExists ==
  ASSUME NEW argv, NEW len \in Nat
  PROVE  \E after : IsWalk(argv, len, after)
<1> DEFINE Bad == {n \in Nat : ~\E after : IsWalk(argv, n, after)}
<1> SUFFICES ASSUME Bad # {} PROVE FALSE
  OBVIOUS
<1>1. PICK n \in Bad : \A m \in Bad : n <= m
  BY LeastNatural
<1>2. IsWalk(argv, 0, [k \in 0..0 |-> NothingSeen])
  BY DEF IsWalk
<1>3. n - 1 \in Nat /\ n - 1 \notin Bad
  BY <1>1, <1>2
<1>4. PICK before : IsWalk(argv, n - 1, before)
  BY <1>3
<1> DEFINE after == [k \in 0..n |-> IF k = n THEN Route(before[n - 1], argv[n]) ELSE before[k]]
<1>5. ASSUME NEW k \in 0..n
      PROVE  after[k] = IF k = 0 THEN NothingSeen ELSE Route(after[k - 1], argv[k])
  <2>1. k # 0 => k - 1 \in 0..n /\ k - 1 # n
    BY <1>3
  <2>2. k # 0 => after[k - 1] = before[k - 1]
    BY <2>1
  <2>3. k # n => k \in 0..n - 1
    BY <1>3
  <2>4. k # n => before[k] = IF k = 0 THEN NothingSeen ELSE Route(before[k - 1], argv[k])
    BY <1>4, <2>3 DEF IsWalk
  <2> QED
    BY <1>3, <2>2, <2>4
<1>6. IsWalk(argv, n, after)
  BY <1>5 DEF IsWalk
<1> QED
  BY <1>1, <1>6

LEMMA WalkSteps ==
  ASSUME NEW argv \in Seq(Token)
  PROVE  /\ Passed(argv)[0] = NothingSeen
         /\ \A n \in 1..Len(argv) : Passed(argv)[n] = Route(Passed(argv)[n - 1], argv[n])
<1>1. Len(argv) \in Nat
  OBVIOUS
<1>2. \E after : IsWalk(argv, Len(argv), after)
  BY <1>1, WalkExists
<1>3. Passed(argv) = CHOOSE after : IsWalk(argv, Len(argv), after)
  BY DEF Passed, IsWalk
<1>4. IsWalk(argv, Len(argv), Passed(argv))
  BY <1>2, <1>3
<1> QED
  BY <1>1, <1>4 DEF IsWalk

-----------------------------------------------------------------------------
(* Runs of flags that take a value.                                        *)

(* The run that ends at i - 1 starts at k.                                 *)
Run(argv, k, i) ==
  /\ \A j \in k..i - 1 : TakesNext(argv[j])
  /\ k = 1 \/ ~TakesNext(argv[k - 1])

LEMMA OneRun ==
  ASSUME NEW argv, NEW i \in Nat, NEW n \in Nat, NEW k \in 1..i - 1, NEW m \in 1..n - 1,
         i - 1 <= n, n <= i, Run(argv, k, i), Run(argv, m, n)
  PROVE  k = m
<1>1. CASE k < m
  <2>1. m - 1 \in k..i - 1 /\ m # 1
    BY <1>1
  <2> QED
    BY <2>1 DEF Run
<1>2. CASE m < k
  <2>1. k - 1 \in m..n - 1 /\ k # 1
    BY <1>2
  <2> QED
    BY <2>1 DEF Run
<1> QED
  BY <1>1, <1>2

LEMMA SomeRun ==
  ASSUME NEW argv, NEW i \in Nat, i > 1, TakesNext(argv[i - 1])
  PROVE  \E k \in 1..i - 1 : Run(argv, k, i)
<1> DEFINE S == {k \in 1..i - 1 : \A j \in k..i - 1 : TakesNext(argv[j])}
<1>1. i - 1 \in S
  OBVIOUS
<1>2. PICK k \in S : \A m \in S : k <= m
  <2>1. S \subseteq Nat /\ S # {}
    BY <1>1
  <2> HIDE DEF S
  <2> QED
    BY <2>1, LeastNatural
<1>3. ASSUME k # 1, TakesNext(argv[k - 1]) PROVE k - 1 \in S
  <2>1. k - 1 \in 1..i - 1
    BY <1>3
  <2>2. \A j \in k - 1..i - 1 : j = k - 1 \/ j \in k..i - 1
    BY <2>1
  <2> QED
    BY <1>3, <2>1, <2>2
<1> QED
  BY <1>2, <1>3 DEF Run

(* A word is a value when the one before it takes a value and is not one   *)
(* itself, which is what the walk goes by.                                 *)
LEMMA SwallowedStep ==
  ASSUME NEW argv \in Seq(Token), NEW i \in 1..Len(argv)
  PROVE  i \in Swallowed(argv) <=>
           i > 1 /\ TakesNext(argv[i - 1]) /\ i - 1 \notin Swallowed(argv)
<1>1. \A n \in 1..Len(argv) :
        n \in Swallowed(argv) <=> \E k \in 1..n - 1 : Run(argv, k, n) /\ (n - k) % 2 = 1
  BY DEF Swallowed, Run
<1>2. ASSUME i \in Swallowed(argv)
      PROVE  i > 1 /\ TakesNext(argv[i - 1]) /\ i - 1 \notin Swallowed(argv)
  <2>1. PICK k \in 1..i - 1 : Run(argv, k, i) /\ (i - k) % 2 = 1
    BY <1>1, <1>2
  <2>2. i > 1 /\ TakesNext(argv[i - 1])
    BY <2>1 DEF Run
  <2>3. ASSUME i - 1 \in Swallowed(argv) PROVE FALSE
    <3>1. PICK m \in 1..(i - 1) - 1 : Run(argv, m, i - 1) /\ ((i - 1) - m) % 2 = 1
      BY <1>1, <2>2, <2>3
    <3>2. m = k
      BY <2>1, <2>2, <3>1, OneRun
    <3> QED
      BY <2>1, <3>1, <3>2
  <2> QED
    BY <2>2, <2>3
<1>3. ASSUME i > 1, TakesNext(argv[i - 1]), i \notin Swallowed(argv)
      PROVE  i - 1 \in Swallowed(argv)
  <2>1. PICK k \in 1..i - 1 : Run(argv, k, i)
    BY <1>3, SomeRun
  <2>2. (i - k) % 2 # 1
    BY <1>1, <1>3, <2>1
  <2>3. k # i - 1 /\ ((i - 1) - k) % 2 = 1
    BY <2>2
  <2>4. k \in 1..(i - 1) - 1 /\ Run(argv, k, i - 1)
    BY <2>1, <2>3 DEF Run
  <2> QED
    BY <1>1, <1>3, <2>3, <2>4
<1> QED
  BY <1>2, <1>3

-----------------------------------------------------------------------------
(* Ranks.                                                                  *)

LEMMA RankStep ==
  ASSUME NEW len \in Nat, NEW S, \A j \in S : j \in 1..len
  PROVE  /\ Rank(S, 0) = 0 /\ Rank(S, len) = Cardinality(S)
         /\ \A n \in 0..len : Rank(S, n) \in 0..n
         /\ \A n \in 1..len :
              Rank(S, n) = IF n \in S THEN Rank(S, n - 1) + 1 ELSE Rank(S, n - 1)
<1>1. \A n \in 0..len : IsFiniteSet({j \in S : j <= n}) /\ {j \in S : j <= n} \subseteq 1..n
  <2> SUFFICES ASSUME NEW n \in 0..len PROVE IsFiniteSet({j \in S : j <= n}) /\ {j \in S : j <= n} \subseteq 1..n
    OBVIOUS
  <2>1. \A j \in S : j <= n => j \in 1..n
    OBVIOUS
  <2>2. {j \in S : j <= n} \in SUBSET (1..n)
    BY <2>1
  <2>3. IsFiniteSet(1..n)
    BY FS_Interval
  <2> QED
    BY <2>2, <2>3, FS_Subset
<1>2. Rank(S, 0) = 0
  <2>1. {j \in S : j <= 0} = {}
    OBVIOUS
  <2> QED
    BY <2>1, FS_EmptySet DEF Rank
<1>3. Rank(S, len) = Cardinality(S)
  <2>1. {j \in S : j <= len} = S
    OBVIOUS
  <2> QED
    BY <2>1 DEF Rank
<1>4. ASSUME NEW n \in 0..len PROVE Rank(S, n) \in 0..n
  <2>1. IsFiniteSet(1..n) /\ Cardinality(1..n) = n
    BY FS_Interval
  <2>2. Cardinality({j \in S : j <= n}) <= n
    BY <1>1, <2>1, FS_Subset
  <2>3. Cardinality({j \in S : j <= n}) \in Nat
    BY <1>1, FS_CardinalityType
  <2> QED
    BY <2>2, <2>3 DEF Rank
<1>5. ASSUME NEW n \in 1..len
      PROVE  Rank(S, n) = IF n \in S THEN Rank(S, n - 1) + 1 ELSE Rank(S, n - 1)
  <2> DEFINE U == {j \in S : j <= n - 1}
  <2>1. IsFiniteSet(U) /\ n \notin U
    BY <1>1
  <2>2. CASE n \in S
    <3>1. \A j \in S : j <= n <=> j <= n - 1 \/ j = n
      OBVIOUS
    <3>2. {j \in S : j <= n} = U \cup {n}
      BY <2>2, <3>1
    <3>3. Cardinality(U \cup {n}) = Cardinality(U) + 1
      BY <2>1, FS_AddElement
    <3> QED
      BY <2>2, <3>2, <3>3 DEF Rank
  <2>3. CASE n \notin S
    <3>1. {j \in S : j <= n} = U
      BY <2>3
    <3> QED
      BY <2>3, <3>1 DEF Rank
  <2> QED
    BY <2>2, <2>3
<1> QED
  BY <1>2, <1>3, <1>4, <1>5

(* Every rank belongs to exactly one member.                               *)
LEMMA RankOnto ==
  ASSUME NEW len \in Nat, NEW S, \A j \in S : j \in 1..len, NEW k \in 1..Cardinality(S)
  PROVE  \E i \in S : Rank(S, i) = k
<1> DEFINE Full == {n \in 0..len : Rank(S, n) >= k}
<1>0. /\ Rank(S, 0) = 0 /\ Rank(S, len) = Cardinality(S)
      /\ \A n \in 0..len : Rank(S, n) \in 0..n
      /\ \A n \in 1..len :
           Rank(S, n) = IF n \in S THEN Rank(S, n - 1) + 1 ELSE Rank(S, n - 1)
  BY RankStep
<1>1. len \in Full
  BY <1>0
<1>2. PICK i \in Full : \A n \in Full : i <= n
  <2>1. Full \subseteq Nat /\ Full # {}
    BY <1>1
  <2> HIDE DEF Full
  <2> QED
    BY <2>1, LeastNatural
<1>3. i # 0 /\ i \in 1..len /\ i - 1 \in 0..len
  BY <1>0, <1>2
<1>4. Rank(S, i - 1) < k /\ Rank(S, i - 1) \in Nat
  <2>1. i - 1 \notin Full
    BY <1>2, <1>3
  <2>2. Rank(S, i - 1) \in 0..i - 1
    BY <1>0, <1>3
  <2> QED
    BY <1>3, <2>1, <2>2
<1>5. Rank(S, i) = IF i \in S THEN Rank(S, i - 1) + 1 ELSE Rank(S, i - 1)
  BY <1>0, <1>3
<1> QED
  BY <1>2, <1>4, <1>5

LEMMA RankRises ==
  ASSUME NEW len \in Nat, NEW S, \A j \in S : j \in 1..len, NEW i \in S, NEW j \in S, i < j
  PROVE  Rank(S, i) < Rank(S, j)
<1> DEFINE U == {m \in S : m <= i}
           V == {m \in S : m <= j}
<1>1. V \in SUBSET (1..len)
  OBVIOUS
<1>2. IsFiniteSet(V)
  <2>1. IsFiniteSet(1..len)
    BY FS_Interval
  <2> QED
    BY <1>1, <2>1, FS_Subset
<1>3. U \in SUBSET V /\ j \in V /\ j \notin U
  OBVIOUS
<1>4. Cardinality(U) <= Cardinality(V) /\ Cardinality(U) # Cardinality(V)
  BY <1>2, <1>3, FS_Subset
<1>5. IsFiniteSet(U) /\ Cardinality(U) \in Nat /\ Cardinality(V) \in Nat
  BY <1>2, <1>3, FS_Subset, FS_CardinalityType
<1> QED
  BY <1>4, <1>5 DEF Rank

-----------------------------------------------------------------------------
(* Where each word goes.                                                   *)

Kept(argv) == (1..Len(argv)) \ Removed(argv)
Crossed(argv, n) == \E s \in Separators(argv) : s <= n

(* The members of S as far as n have left a trace each, in order.          *)
Holds(bucket, S, n, trace) ==
  /\ Len(bucket) = Rank(S, n)
  /\ \A i \in S : i <= n => bucket[Rank(S, i)] = trace[i]

(* The entry of each word, when n words have been read                     *)
Entries(argv, n) ==
  [i \in 1..Len(argv) |->
     [tok |-> argv[i],
      values |-> IF TakesNext(argv[i]) /\ i < n THEN <<argv[i + 1]>> ELSE <<>>]]

(* What the first n words of the line have made of the walk's state: both  *)
(* buckets hold the words that are theirs, the last flag perhaps still     *)
(* without its value.                                                      *)
Follows(argv, n, st) ==
  /\ st \in WalkState
  /\ st.after_separator <=> Crossed(argv, n)
  /\ st.pending <=> n \in Own(argv) /\ TakesNext(argv[n])
  /\ Holds(st.child_bucket, Kept(argv), n, argv)
  /\ Holds(st.nc_bucket, Own(argv), n, Entries(argv, n))

LEMMA Positions ==
  ASSUME NEW argv
  PROVE  /\ \A i \in Own(argv) : i \in 1..Len(argv)
         /\ \A i \in Kept(argv) : i \in 1..Len(argv)
         /\ \A i \in Separators(argv) : i \in 1..Len(argv)
BY DEF Own, Kept, Separators

LEMMA CrossedStep ==
  ASSUME NEW argv \in Seq(Token), NEW n \in 1..Len(argv)
  PROVE  /\ Before(argv, n) <=> ~Crossed(argv, n)
         /\ Crossed(argv, n) <=> Crossed(argv, n - 1) \/ n \in Separators(argv)
<1>1. \A s \in Separators(argv) : s \in 1..Len(argv)
  BY Positions
<1>2. \A s \in Separators(argv) : n < s <=> ~(s <= n)
  BY <1>1
<1>3. \A s \in Separators(argv) : s <= n <=> s <= n - 1 \/ s = n
  BY <1>1
<1>4. n \in Separators(argv) => Crossed(argv, n)
  BY DEF Crossed
<1> QED
  BY <1>2, <1>3, <1>4 DEF Before, Crossed

(* What becomes of the next word depends on the state alone, and is what   *)
(* the whole line says of it.                                              *)
LEMMA Classified ==
  ASSUME NEW argv \in Seq(Token), NEW n \in 1..Len(argv), NEW st,
         st.after_separator <=> Crossed(argv, n - 1),
         st.pending <=> n - 1 \in Own(argv) /\ TakesNext(argv[n - 1])
  PROVE  /\ st.pending =>
              n \notin Own(argv) /\ n \notin Kept(argv) /\ n \notin Separators(argv)
         /\ ~st.pending /\ ~st.after_separator /\ argv[n] = SEPARATOR =>
              n \notin Own(argv) /\ n \notin Kept(argv) /\ n \in Separators(argv)
         /\ IsOurs(st, argv[n]) /\ argv[n] # SEPARATOR =>
              n \in Own(argv) /\ n \notin Kept(argv) /\ n \notin Separators(argv)
         /\ ~st.pending /\ ~IsOurs(st, argv[n]) /\ (st.after_separator \/ argv[n] # SEPARATOR) =>
              /\ n \notin Own(argv) /\ n \in Kept(argv)
              /\ st.after_separator \/ n \notin Separators(argv)
<1> USE DEF IsOurs
<1>1. n \in Separators(argv) <=> argv[n] = SEPARATOR /\ n \notin Swallowed(argv)
  BY DEF Separators
<1>2. n \in Own(argv) <=>
        n \notin Swallowed(argv) /\ Before(argv, n) /\ argv[n] \in BARE_NC_FLAGS \cup NcToken
  BY DEF Own
<1>3. n \notin Kept(argv) <=>
        n \in FirstSeparator(argv) \/ n \in Own(argv) \/ (n \in Swallowed(argv) /\ Before(argv, n))
  BY DEF Kept, Removed
<1>4. n \in Swallowed(argv) <=>
        n > 1 /\ TakesNext(argv[n - 1]) /\ n - 1 \notin Swallowed(argv)
  BY SwallowedStep
<1>5. /\ Before(argv, n) <=> ~Crossed(argv, n)
      /\ Crossed(argv, n) <=> Crossed(argv, n - 1) \/ n \in Separators(argv)
  BY CrossedStep
<1>6. n - 1 \in Own(argv) <=>
        /\ n > 1 /\ n - 1 \notin Swallowed(argv) /\ ~Crossed(argv, n - 1)
        /\ argv[n - 1] \in BARE_NC_FLAGS \cup NcToken
  <2>1. CASE n = 1
    BY <2>1, Positions
  <2>2. CASE n > 1
    <3>1. n - 1 \in 1..Len(argv)
      BY <2>2
    <3>2. Before(argv, n - 1) <=> ~Crossed(argv, n - 1)
      BY <3>1, CrossedStep
    <3> QED
      BY <2>2, <3>1, <3>2 DEF Own
  <2> QED
    BY <2>1, <2>2
<1>7. n \in FirstSeparator(argv) <=> n \in Separators(argv) /\ ~Crossed(argv, n - 1)
  <2>1. \A s \in Separators(argv) : s \in 1..Len(argv)
    BY Positions
  <2>2. \A s \in Separators(argv) : n <= s <=> ~(s <= n - 1)
    BY <2>1
  <2> QED
    BY <2>2 DEF FirstSeparator, Crossed
<1>8. \A tok : TakesNext(tok) => tok \in NcToken
  BY DEF TakesNext
<1>9. CASE st.pending
  <2>1. n \in Swallowed(argv)
    BY <1>4, <1>6, <1>9
  <2> QED
    BY <1>1, <1>2, <1>3, <1>5, <1>6, <1>9, <2>1
<1>10. CASE ~st.pending /\ ~st.after_separator
  <2>1. n \notin Swallowed(argv)
    BY <1>4, <1>6, <1>8, <1>10
  <2>2. CASE argv[n] = SEPARATOR
    BY <1>1, <1>2, <1>3, <1>5, <1>7, <1>10, <2>1, <2>2
  <2>3. CASE argv[n] # SEPARATOR
    BY <1>1, <1>2, <1>3, <1>5, <1>7, <1>10, <2>1, <2>3
  <2> QED
    BY <2>2, <2>3
<1>11. CASE ~st.pending /\ st.after_separator
  BY <1>1, <1>2, <1>3, <1>5, <1>7, <1>11
<1> QED
  BY <1>9, <1>10, <1>11

LEMMA HoldsAppend ==
  ASSUME NEW X, NEW bucket \in Seq(X), NEW len \in Nat, NEW S, \A j \in S : j \in 1..len,
         NEW n \in S, NEW trace, NEW x \in X, trace[n] = x, Holds(bucket, S, n - 1, trace)
  PROVE  Holds(Append(bucket, x), S, n, trace)
<1>1. /\ \A m \in 0..len : Rank(S, m) \in 0..m
      /\ \A m \in 1..len :
           Rank(S, m) = IF m \in S THEN Rank(S, m - 1) + 1 ELSE Rank(S, m - 1)
  BY RankStep
<1>2. n \in 1..len /\ n - 1 \in 0..len
  OBVIOUS
<1>3. Rank(S, n) = Len(bucket) + 1
  BY <1>1, <1>2 DEF Holds
<1>4. ASSUME NEW i \in S, i <= n
      PROVE  Append(bucket, x)[Rank(S, i)] = trace[i]
  <2>1. CASE i = n
    BY <1>3, <2>1
  <2>2. CASE i # n
    <3>1. i < n /\ i <= n - 1 /\ i \in 1..len
      BY <1>2, <1>4, <2>2
    <3>2. Rank(S, i) < Rank(S, n)
      BY <3>1, RankRises
    <3>3. Rank(S, i) = Rank(S, i - 1) + 1 /\ Rank(S, i - 1) \in Nat
      BY <1>1, <3>1
    <3>4. Rank(S, i) \in 1..Len(bucket)
      BY <1>3, <3>2, <3>3
    <3>5. bucket[Rank(S, i)] = trace[i]
      BY <3>1 DEF Holds
    <3> QED
      BY <3>4, <3>5
  <2> QED
    BY <2>1, <2>2
<1>5. Len(Append(bucket, x)) = Rank(S, n)
  BY <1>3
<1> QED
  BY <1>4, <1>5 DEF Holds

LEMMA HoldsSkip ==
  ASSUME NEW bucket, NEW len \in Nat, NEW S, \A j \in S : j \in 1..len,
         NEW n \in 1..len, n \notin S, NEW trace, Holds(bucket, S, n - 1, trace)
  PROVE  Holds(bucket, S, n, trace)
<1>1. Rank(S, n) = Rank(S, n - 1)
  BY RankStep
<1>2. \A i \in S : i <= n => i <= n - 1
  OBVIOUS
<1> QED
  BY <1>1, <1>2 DEF Holds

(* A value fills the last entry.                                           *)
LEMMA HoldsValue ==
  ASSUME NEW bucket \in Seq(Entry), NEW len \in Nat, NEW S, \A j \in S : j \in 1..len,
         NEW n \in 1..len, n \notin S, n - 1 \in S, NEW trace, NEW filled, NEW v,
         Holds(bucket, S, n - 1, trace),
         filled[n - 1] = [trace[n - 1] EXCEPT !.values = v],
         \A i \in S : i < n - 1 => filled[i] = trace[i]
  PROVE  Holds([bucket EXCEPT ![Len(bucket)].values = v], S, n, filled)
<1> DEFINE after == [bucket EXCEPT ![Len(bucket)].values = v]
<1>1. /\ \A m \in 0..len : Rank(S, m) \in 0..m
      /\ \A m \in 1..len :
           Rank(S, m) = IF m \in S THEN Rank(S, m - 1) + 1 ELSE Rank(S, m - 1)
  BY RankStep
<1>2. n - 1 \in 1..len
  OBVIOUS
<1>3. Rank(S, n) = Len(bucket) /\ Rank(S, n - 1) = Len(bucket)
  BY <1>1, <1>2 DEF Holds
<1>4. ASSUME NEW i \in S PROVE Rank(S, i) = Rank(S, i - 1) + 1 /\ Rank(S, i - 1) \in Nat
  <2>1. i \in 1..len /\ i - 1 \in 0..len
    OBVIOUS
  <2> QED
    BY <1>1, <2>1
<1>5. Len(bucket) \in 1..Len(bucket)
  BY <1>3, <1>4
<1>6. DOMAIN bucket = 1..Len(bucket) /\ Len(after) = Len(bucket)
  OBVIOUS
<1>7. ASSUME NEW i \in S, i <= n
      PROVE  after[Rank(S, i)] = filled[i]
  <2>1. CASE i = n - 1
    <3>1. bucket[Len(bucket)] = trace[n - 1]
      BY <1>2, <1>3 DEF Holds
    <3> QED
      BY <1>3, <1>5, <1>6, <2>1, <3>1
  <2>2. CASE i # n - 1
    <3>1. i < n - 1 /\ i <= n - 1
      BY <1>2, <1>7, <2>2
    <3>2. Rank(S, i) < Rank(S, n - 1)
      BY <3>1, RankRises
    <3>3. Rank(S, i) \in 1..Len(bucket) /\ Rank(S, i) # Len(bucket)
      BY <1>3, <1>4, <3>2
    <3>4. bucket[Rank(S, i)] = trace[i]
      BY <3>1 DEF Holds
    <3> QED
      BY <1>6, <3>1, <3>3, <3>4
  <2> QED
    BY <2>1, <2>2
<1> QED
  BY <1>3, <1>6, <1>7 DEF Holds

LEMMA EntriesStep ==
  ASSUME NEW argv \in Seq(Token), NEW n \in 1..Len(argv), NEW bucket,
         ~(n - 1 \in Own(argv) /\ TakesNext(argv[n - 1])),
         Holds(bucket, Own(argv), n - 1, Entries(argv, n - 1))
  PROVE  Holds(bucket, Own(argv), n - 1, Entries(argv, n))
<1>1. ASSUME NEW i \in Own(argv), i <= n - 1
      PROVE  Entries(argv, n)[i] = Entries(argv, n - 1)[i]
  <2>1. i \in 1..Len(argv)
    BY Positions
  <2>2. i = n - 1 \/ (i < n - 1 /\ i < n)
    BY <1>1, <2>1
  <2> QED
    BY <2>1, <2>2 DEF Entries
<1> QED
  BY <1>1 DEF Holds

LEMMA FollowStep ==
  ASSUME NEW argv \in Seq(Token), NEW n \in 1..Len(argv), NEW st, Follows(argv, n - 1, st)
  PROVE  Follows(argv, n, Route(st, argv[n]))
<1> DEFINE tok == argv[n]
<1>1. /\ st \in WalkState /\ tok \in Token /\ Len(argv) \in Nat
      /\ st.after_separator <=> Crossed(argv, n - 1)
      /\ st.pending <=> n - 1 \in Own(argv) /\ TakesNext(argv[n - 1])
      /\ Holds(st.child_bucket, Kept(argv), n - 1, argv)
      /\ Holds(st.nc_bucket, Own(argv), n - 1, Entries(argv, n - 1))
  BY DEF Follows
<1>2. /\ st.pending =>
           n \notin Own(argv) /\ n \notin Kept(argv) /\ n \notin Separators(argv)
      /\ ~st.pending /\ ~st.after_separator /\ argv[n] = SEPARATOR =>
           n \notin Own(argv) /\ n \notin Kept(argv) /\ n \in Separators(argv)
      /\ IsOurs(st, argv[n]) /\ argv[n] # SEPARATOR =>
           n \in Own(argv) /\ n \notin Kept(argv) /\ n \notin Separators(argv)
      /\ ~st.pending /\ ~IsOurs(st, argv[n]) /\ (st.after_separator \/ argv[n] # SEPARATOR) =>
           /\ n \notin Own(argv) /\ n \in Kept(argv)
           /\ st.after_separator \/ n \notin Separators(argv)
  BY <1>1, Classified
<1>3. Crossed(argv, n) <=> Crossed(argv, n - 1) \/ n \in Separators(argv)
  BY CrossedStep
<1>4. /\ st.nc_bucket \in Seq(Entry) /\ st.child_bucket \in Seq(Token)
      /\ st.pending \in BOOLEAN /\ st.after_separator \in BOOLEAN
  BY <1>1 DEF WalkState
<1>5. /\ \A i \in Own(argv) : i \in 1..Len(argv)
      /\ \A i \in Kept(argv) : i \in 1..Len(argv)
  BY Positions
<1>6. n \notin Kept(argv) => Holds(st.child_bucket, Kept(argv), n, argv)
  BY <1>1, <1>5, HoldsSkip
<1>7. ~st.pending /\ n \notin Own(argv) =>
        Holds(st.nc_bucket, Own(argv), n, Entries(argv, n))
  BY <1>1, <1>5, EntriesStep, HoldsSkip
<1> HIDE DEF tok
<1>8. CASE st.pending
  <2> DEFINE filled == [st.nc_bucket EXCEPT ![Len(st.nc_bucket)].values = <<tok>>]
  <2>1. Route(st, tok) = [st EXCEPT !.nc_bucket = filled, !.pending = FALSE]
    BY <1>8 DEF Route, IsOurs
  <2>2. /\ n - 1 \in Own(argv) /\ TakesNext(argv[n - 1]) /\ n - 1 \in 1..Len(argv)
        /\ n \notin Own(argv) /\ n \notin Kept(argv) /\ n \notin Separators(argv)
    BY <1>1, <1>2, <1>5, <1>8
  <2>3. filled \in Seq(Entry)
    <3>1. <<tok>> \in Seq(Token)
      BY <1>1
    <3>2. \A e \in Entry : [e EXCEPT !.values = <<tok>>] \in Entry
      BY <3>1, Zenon DEF Entry
    <3>3. \A j \in 1..Len(st.nc_bucket) : st.nc_bucket[j] \in Entry
      BY <1>4
    <3>4. DOMAIN st.nc_bucket = 1..Len(st.nc_bucket)
      BY <1>4
    <3>5. \A j \in 1..Len(st.nc_bucket) : filled[j] \in Entry
      BY <3>2, <3>3, <3>4, Zenon
    <3>6. filled = [j \in 1..Len(st.nc_bucket) |-> filled[j]]
      BY <3>4, Zenon
    <3> HIDE DEF filled
    <3>7. [j \in 1..Len(st.nc_bucket) |-> filled[j]] \in Seq(Entry)
      BY <1>4, <3>5
    <3> QED
      BY <3>6, <3>7
  <2>4. Entries(argv, n)[n - 1] = [Entries(argv, n - 1)[n - 1] EXCEPT !.values = <<tok>>]
    BY <2>2 DEF Entries, tok
  <2>5. \A i \in Own(argv) : i < n - 1 => Entries(argv, n)[i] = Entries(argv, n - 1)[i]
    <3> SUFFICES ASSUME NEW i \in Own(argv), i < n - 1
                 PROVE  Entries(argv, n)[i] = Entries(argv, n - 1)[i]
      OBVIOUS
    <3>1. i \in 1..Len(argv) /\ i < n
      BY <1>5
    <3> QED
      BY <3>1 DEF Entries
  <2>6. Holds(filled, Own(argv), n, Entries(argv, n))
    BY <1>1, <1>4, <1>5, <2>2, <2>4, <2>5, HoldsValue
  <2> HIDE DEF filled
  <2>7. Route(st, tok) \in WalkState
    BY <1>1, <2>1, <2>3 DEF WalkState
  <2>8. /\ Route(st, tok).nc_bucket = filled
        /\ Route(st, tok).child_bucket = st.child_bucket
        /\ Route(st, tok).after_separator = st.after_separator
        /\ Route(st, tok).pending = FALSE
    BY <1>1, <2>1 DEF WalkState
  <2> QED
    BY <1>1, <1>3, <1>6, <2>2, <2>6, <2>7, <2>8 DEF Follows, tok
<1>9. CASE ~st.pending /\ ~st.after_separator /\ tok = SEPARATOR
  <2>1. Route(st, tok) = [st EXCEPT !.after_separator = TRUE]
    <3>1. ~IsOurs(st, tok)
      BY <1>9, TokenAssumption DEF IsOurs, SEPARATOR, BARE_NC_FLAGS
    <3> QED
      BY <1>9, <3>1 DEF Route, Cross
  <2>2. n \notin Own(argv) /\ n \notin Kept(argv) /\ n \in Separators(argv)
    BY <1>2, <1>9 DEF tok
  <2>3. /\ Route(st, tok) \in WalkState
        /\ Route(st, tok).nc_bucket = st.nc_bucket
        /\ Route(st, tok).child_bucket = st.child_bucket
        /\ Route(st, tok).after_separator = TRUE
        /\ Route(st, tok).pending = st.pending
    BY <1>1, <2>1 DEF WalkState
  <2> QED
    BY <1>3, <1>6, <1>7, <1>9, <2>2, <2>3 DEF Follows, tok
<1>10. CASE IsOurs(st, tok) /\ tok # SEPARATOR
  <2> DEFINE entry == [tok |-> tok, values |-> <<>>]
  <2>0. ~st.pending
    BY <1>10 DEF IsOurs
  <2>1. Route(st, tok) = [st EXCEPT !.nc_bucket = Append(@, entry), !.pending = TakesNext(tok)]
    BY <1>10 DEF Route, ToNocruft, IsOurs
  <2>2. n \in Own(argv) /\ n \notin Kept(argv) /\ n \notin Separators(argv)
    BY <1>2, <1>10 DEF tok
  <2>3. entry \in Entry /\ entry = Entries(argv, n)[n] /\ TakesNext(tok) \in BOOLEAN
    BY <1>1 DEF Entry, Entries, TakesNext, tok
  <2>4. Holds(Append(st.nc_bucket, entry), Own(argv), n, Entries(argv, n))
    <3>1. Holds(st.nc_bucket, Own(argv), n - 1, Entries(argv, n))
      BY <1>1, <2>0, EntriesStep
    <3> HIDE DEF entry
    <3> QED
      BY <1>1, <1>4, <1>5, <2>2, <2>3, <3>1, HoldsAppend
  <2> HIDE DEF entry
  <2>5. /\ Route(st, tok) \in WalkState
        /\ Route(st, tok).nc_bucket = Append(st.nc_bucket, entry)
        /\ Route(st, tok).child_bucket = st.child_bucket
        /\ Route(st, tok).after_separator = st.after_separator
        /\ Route(st, tok).pending = TakesNext(tok)
    <3>1. Append(st.nc_bucket, entry) \in Seq(Entry)
      BY <1>4, <2>3
    <3> QED
      BY <1>1, <2>1, <2>3, <3>1, Zenon DEF WalkState
  <2> QED
    BY <1>1, <1>3, <1>6, <2>2, <2>4, <2>5 DEF Follows, tok
<1>11. CASE ~st.pending /\ ~IsOurs(st, tok) /\ (st.after_separator \/ tok # SEPARATOR)
  <2>1. Route(st, tok) = [st EXCEPT !.child_bucket = Append(@, tok)]
    BY <1>11 DEF Route, ToChild
  <2>2. /\ n \notin Own(argv) /\ n \in Kept(argv)
        /\ st.after_separator \/ n \notin Separators(argv)
    BY <1>2, <1>11 DEF tok
  <2>3. Holds(Append(st.child_bucket, tok), Kept(argv), n, argv)
    BY <1>1, <1>4, <1>5, <2>2, HoldsAppend DEF tok
  <2>4. /\ Route(st, tok) \in WalkState
        /\ Route(st, tok).nc_bucket = st.nc_bucket
        /\ Route(st, tok).child_bucket = Append(st.child_bucket, tok)
        /\ Route(st, tok).after_separator = st.after_separator
        /\ Route(st, tok).pending = st.pending
    <3>1. Append(st.child_bucket, tok) \in Seq(Token)
      BY <1>1, <1>4
    <3> QED
      BY <1>1, <2>1, <3>1, Zenon DEF WalkState
  <2> QED
    BY <1>1, <1>3, <1>7, <1>11, <2>2, <2>3, <2>4 DEF Follows, tok
<1> QED
  BY <1>4, <1>8, <1>9, <1>10, <1>11 DEF IsOurs, tok

(* The state after each number of words                                    *)
LEMMA WalkFollows ==
  ASSUME NEW argv \in Seq(Token)
  PROVE  \A n \in 0..Len(argv) : Follows(argv, n, Passed(argv)[n])
<1> DEFINE Bad == {n \in 0..Len(argv) : ~Follows(argv, n, Passed(argv)[n])}
<1> SUFFICES ASSUME Bad # {} PROVE FALSE
  OBVIOUS
<1>1. PICK n \in Bad : \A m \in Bad : n <= m
  <2>1. Bad \subseteq Nat
    OBVIOUS
  <2> HIDE DEF Bad
  <2> QED
    BY <2>1, LeastNatural
<1>2. Follows(argv, 0, NothingSeen)
  <2>1. /\ \A i \in Own(argv) : i \in 1..Len(argv)
        /\ \A i \in Kept(argv) : i \in 1..Len(argv)
        /\ \A i \in Separators(argv) : i \in 1..Len(argv)
    BY Positions
  <2>2. Rank(Own(argv), 0) = 0 /\ Rank(Kept(argv), 0) = 0
    <3>1. Len(argv) \in Nat
      OBVIOUS
    <3> QED
      BY <2>1, <3>1, RankStep
  <2>3. NothingSeen \in WalkState
    BY DEF NothingSeen, WalkState
  <2> QED
    BY <2>1, <2>2, <2>3 DEF Follows, NothingSeen, Holds, Crossed
<1>3. CASE n = 0
  BY <1>1, <1>2, <1>3, WalkSteps
<1>4. CASE n # 0
  <2>1. n \in 1..Len(argv) /\ n - 1 \in 0..Len(argv) /\ n - 1 \notin Bad
    BY <1>1, <1>4
  <2>2. Follows(argv, n, Route(Passed(argv)[n - 1], argv[n]))
    BY <2>1, FollowStep
  <2> QED
    BY <1>1, <2>1, <2>2, WalkSteps
<1> QED
  BY <1>3, <1>4

-----------------------------------------------------------------------------
(* What the whole line comes to.                                           *)

LEMMA WalkEnds ==
  ASSUME NEW argv \in Seq(Token)
  PROVE  /\ Follows(argv, Len(argv), Walk(argv)) /\ Walk(argv) \in WalkState
         /\ Len(Walk(argv).child_bucket) = Cardinality(Kept(argv))
         /\ Len(Walk(argv).nc_bucket) = Cardinality(Own(argv))
<1>1. Len(argv) \in 0..Len(argv) /\ Len(argv) \in Nat
  OBVIOUS
<1>2. Follows(argv, Len(argv), Walk(argv))
  BY <1>1, WalkFollows DEF Walk
<1>3. /\ \A i \in Own(argv) : i \in 1..Len(argv)
      /\ \A i \in Kept(argv) : i \in 1..Len(argv)
  BY Positions
<1>4. /\ Rank(Own(argv), Len(argv)) = Cardinality(Own(argv))
      /\ Rank(Kept(argv), Len(argv)) = Cardinality(Kept(argv))
  BY <1>1, <1>3, RankStep
<1> QED
  BY <1>2, <1>4 DEF Follows, Holds

(* The child's bucket is the rest of the line, in order (cli.rs:153).      *)
LEMMA ChildBucket ==
  ASSUME NEW argv \in Seq(Token)
  PROVE  Walk(argv).child_bucket = Rest(argv)
<1> DEFINE bucket == Walk(argv).child_bucket
           size == Cardinality(Kept(argv))
           At(k) == CHOOSE i \in Kept(argv) : Rank(Kept(argv), i) = k
<1>1. bucket \in Seq(Token) /\ Len(bucket) = size /\ Holds(bucket, Kept(argv), Len(argv), argv)
  BY WalkEnds DEF WalkState, Follows
<1>2. Rest(argv) = [k \in 1..size |-> argv[At(k)]]
  BY DEF Rest, Kept
<1>3. ASSUME NEW k \in 1..size
      PROVE  bucket[k] = argv[At(k)]
  <2>1. Len(argv) \in Nat /\ \A i \in Kept(argv) : i \in 1..Len(argv)
    BY Positions
  <2>2. \E i \in Kept(argv) : Rank(Kept(argv), i) = k
    BY <2>1, RankOnto
  <2>3. At(k) \in Kept(argv) /\ Rank(Kept(argv), At(k)) = k
    BY <2>2
  <2> HIDE DEF At
  <2>4. At(k) <= Len(argv)
    BY <2>1, <2>3
  <2> QED
    BY <1>1, <2>3, <2>4 DEF Holds
<1>4. bucket = [k \in 1..size |-> bucket[k]]
  BY <1>1
<1> QED
  BY <1>2, <1>3, <1>4

(* One word more is one step more.                                         *)
LEMMA WalkAppend ==
  ASSUME NEW argv \in Seq(Token), NEW tok \in Token
  PROVE  Walk(Append(argv, tok)) = Route(Walk(argv), tok)
<1> DEFINE longer == Append(argv, tok)
           Bad == {n \in 0..Len(argv) : Passed(longer)[n] # Passed(argv)[n]}
<1>1. /\ longer \in Seq(Token) /\ Len(longer) = Len(argv) + 1 /\ longer[Len(argv) + 1] = tok
      /\ \A i \in 1..Len(argv) : longer[i] = argv[i]
      /\ Len(argv) \in Nat
  OBVIOUS
<1>2. /\ Passed(longer)[0] = NothingSeen
      /\ \A n \in 1..Len(longer) : Passed(longer)[n] = Route(Passed(longer)[n - 1], longer[n])
  BY <1>1, WalkSteps
<1>3. /\ Passed(argv)[0] = NothingSeen
      /\ \A n \in 1..Len(argv) : Passed(argv)[n] = Route(Passed(argv)[n - 1], argv[n])
  BY WalkSteps
<1> HIDE DEF longer
<1>4. ASSUME Bad # {} PROVE FALSE
  <2>1. PICK n \in Bad : \A m \in Bad : n <= m
    <3>1. Bad \subseteq Nat
      BY <1>1
    <3> HIDE DEF Bad
    <3> QED
      BY <1>4, <3>1, LeastNatural
  <2>2. n # 0
    BY <1>2, <1>3, <2>1
  <2>3. n \in 1..Len(argv) /\ n \in 1..Len(longer) /\ n - 1 \in 0..Len(argv) /\ n - 1 \notin Bad
    BY <1>1, <2>1, <2>2
  <2> QED
    BY <1>1, <1>2, <1>3, <2>1, <2>3
<1>5. Passed(longer)[Len(argv)] = Passed(argv)[Len(argv)]
  BY <1>1, <1>4
<1>6. Len(longer) \in 1..Len(longer) /\ Len(longer) - 1 = Len(argv)
  BY <1>1
<1> QED
  BY <1>1, <1>2, <1>5, <1>6 DEF Walk, longer

(* Behind the separator the state takes every word to the child.           *)
LEMMA BehindSeparator ==
  ASSUME NEW argv \in Seq(Token), Separators(argv) # {}, NEW tok \in Token
  PROVE  /\ Walk(argv) \in WalkState /\ ~Walk(argv).pending
         /\ Walk(Append(argv, tok)) = [Walk(argv) EXCEPT !.child_bucket = Append(@, tok)]
<1>1. Follows(argv, Len(argv), Walk(argv)) /\ Walk(argv) \in WalkState
  BY WalkEnds
<1>2. Crossed(argv, Len(argv))
  <2>1. \A s \in Separators(argv) : s <= Len(argv)
    BY Positions
  <2> QED
    BY <2>1 DEF Crossed
<1>3. Walk(argv).after_separator
  BY <1>1, <1>2 DEF Follows
<1>4. ~Walk(argv).pending
  <2>1. SUFFICES ASSUME Len(argv) \in Own(argv) PROVE FALSE
    BY <1>1 DEF Follows
  <2>2. Len(argv) \in 1..Len(argv) /\ Before(argv, Len(argv))
    BY <2>1, Positions DEF Own
  <2> QED
    BY <1>2, <2>2, CrossedStep
<1>5. Route(Walk(argv), tok) = ToChild(Walk(argv), tok)
  BY <1>3, <1>4 DEF Route, IsOurs
<1> QED
  BY <1>1, <1>4, <1>5, WalkAppend DEF ToChild

(* What an accepted line is given back as                                  *)
SwitchesOf(nc) == {Key(nc[i].tok) : i \in 1..Len(nc)} \cap SWITCHES
Prog(exec) == IF exec = {} THEN "nix-shell" ELSE CHOOSE prog \in exec : TRUE
Accepted(w) ==
  [rejected |-> FALSE,
   flags |-> SwitchesOf(w.nc_bucket),
   includes |-> ValuesFor(w.nc_bucket, "--nc-include"),
   excludes |-> ValuesFor(w.nc_bucket, "--nc-exclude"),
   child_args |-> w.child_bucket,
   child_prog |-> Prog(ValuesFor(w.nc_bucket, "--nc-exec"))]

Refuses(w) ==
  \/ w.pending
  \/ ~ClapAccepts(w.nc_bucket)
  \/ ~Compiles(ValuesFor(w.nc_bucket, "--nc-include") \cup ValuesFor(w.nc_bucket, "--nc-exclude"))

LEMMA ParseCases ==
  ASSUME NEW argv
  PROVE  parse_argv(argv) = IF Refuses(Walk(argv)) THEN Rejected ELSE Accepted(Walk(argv))
BY DEF parse_argv, Refuses, Accepted, SwitchesOf, Prog

LEMMA ParseAccepted ==
  ASSUME NEW argv, ~parse_argv(argv).rejected
  PROVE  ~Refuses(Walk(argv)) /\ parse_argv(argv) = Accepted(Walk(argv))
BY ParseCases DEF Rejected

LEMMA ParseChild ==
  ASSUME NEW argv \in Seq(Token), ~parse_argv(argv).rejected
  PROVE  parse_argv(argv).child_args = Rest(argv)
<1>1. parse_argv(argv) = Accepted(Walk(argv))
  BY ParseAccepted
<1> QED
  BY <1>1, ChildBucket DEF Accepted

LEMMA ParseShield ==
  ASSUME NEW argv \in Seq(Token), Separators(argv) # {}, NEW tok \in Token
  PROVE  LET p == parse_argv(argv)
         IN  parse_argv(Append(argv, tok)) =
               IF p.rejected THEN p ELSE [p EXCEPT !.child_args = Append(@, tok)]
<1> DEFINE w == Walk(argv)
           v == Walk(Append(argv, tok))
<1>1. /\ w \in WalkState /\ v = [w EXCEPT !.child_bucket = Append(@, tok)]
  BY BehindSeparator
<1>2. /\ v.pending = w.pending /\ v.nc_bucket = w.nc_bucket
      /\ v.child_bucket = Append(w.child_bucket, tok)
  BY <1>1 DEF WalkState
<1> HIDE DEF w, v
<1>3. Refuses(v) <=> Refuses(w)
  BY <1>2 DEF Refuses
<1>4. Accepted(v) = [Accepted(w) EXCEPT !.child_args = Append(@, tok)]
  <2>1. Accepted(w).child_args = w.child_bucket
    BY DEF Accepted
  <2>2. /\ Accepted(v).rejected = Accepted(w).rejected
        /\ Accepted(v).flags = Accepted(w).flags
        /\ Accepted(v).includes = Accepted(w).includes
        /\ Accepted(v).excludes = Accepted(w).excludes
        /\ Accepted(v).child_prog = Accepted(w).child_prog
        /\ Accepted(v).child_args = v.child_bucket
    BY <1>2, Zenon DEF Accepted
  <2>3. \A u : Accepted(u) = [rejected |-> Accepted(u).rejected, flags |-> Accepted(u).flags,
                              includes |-> Accepted(u).includes, excludes |-> Accepted(u).excludes,
                              child_args |-> Accepted(u).child_args,
                              child_prog |-> Accepted(u).child_prog]
    BY DEF Accepted
  <2> QED
    BY <1>2, <2>1, <2>2, <2>3
<1>5. /\ parse_argv(argv) = IF Refuses(w) THEN Rejected ELSE Accepted(w)
      /\ parse_argv(Append(argv, tok)) = IF Refuses(v) THEN Rejected ELSE Accepted(v)
  BY ParseCases DEF w, v
<1>6. Rejected.rejected = TRUE /\ Accepted(w).rejected = FALSE
  BY DEF Rejected, Accepted
<1> QED
  BY <1>3, <1>4, <1>5, <1>6

LEMMA ParseSwitches ==
  ASSUME NEW argv, ~parse_argv(argv).rejected
  PROVE  parse_argv(argv).flags \subseteq SWITCHES
BY ParseAccepted DEF Accepted, SwitchesOf

(* The entries of nocruft's bucket are its own words, with their values.   *)
LEMMA NocruftBucket ==
  ASSUME NEW argv \in Seq(Token)
  PROVE  LET nc == Walk(argv).nc_bucket
             entries == Entries(argv, Len(argv))
         IN  /\ \A k \in 1..Len(nc) : \E i \in Own(argv) : nc[k] = entries[i]
             /\ \A i \in Own(argv) : \E k \in 1..Len(nc) : nc[k] = entries[i]
<1> DEFINE nc == Walk(argv).nc_bucket
           entries == Entries(argv, Len(argv))
<1>1. /\ nc \in Seq(Entry) /\ Len(nc) = Cardinality(Own(argv))
      /\ Holds(nc, Own(argv), Len(argv), entries)
  BY WalkEnds DEF WalkState, Follows
<1>2. Len(argv) \in Nat /\ \A i \in Own(argv) : i \in 1..Len(argv)
  BY Positions
<1>3. \A i \in Own(argv) : nc[Rank(Own(argv), i)] = entries[i]
  BY <1>1, <1>2 DEF Holds
<1>4. ASSUME NEW k \in 1..Len(nc) PROVE \E i \in Own(argv) : nc[k] = entries[i]
  <2>1. \E i \in Own(argv) : Rank(Own(argv), i) = k
    BY <1>1, <1>2, RankOnto
  <2> QED
    BY <1>3, <2>1
<1>5. ASSUME NEW i \in Own(argv) PROVE Rank(Own(argv), i) \in 1..Len(nc)
  <2>1. /\ Rank(Own(argv), i) = Rank(Own(argv), i - 1) + 1
        /\ Rank(Own(argv), i - 1) \in Nat
        /\ Rank(Own(argv), Len(argv)) = Len(nc)
    BY <1>1, <1>2, RankStep
  <2>2. Rank(Own(argv), i) <= Cardinality(Own(argv))
    <3>1. IsFiniteSet(1..Len(argv)) /\ Own(argv) \in SUBSET (1..Len(argv))
      BY <1>2, FS_Interval
    <3>2. IsFiniteSet(Own(argv)) /\ {j \in Own(argv) : j <= i} \in SUBSET Own(argv)
      BY <3>1, FS_Subset
    <3> QED
      BY <3>2, FS_Subset DEF Rank
  <2> QED
    BY <1>1, <2>1, <2>2
<1> QED
  BY <1>3, <1>4, <1>5

(* The values clap finds with a flag that takes one are those that the     *)
(* line gives with it.                                                     *)
LEMMA ValuesGiven ==
  ASSUME NEW argv \in Seq(Token), ClapAccepts(Walk(argv).nc_bucket), NEW key \in VALUE_FLAGS
  PROVE  ValuesFor(Walk(argv).nc_bucket, key) = Given(argv, key)
<1> DEFINE nc == Walk(argv).nc_bucket
           entries == Entries(argv, Len(argv))
           Value(i) == IF argv[i] \in DOMAIN Inline THEN Inline[argv[i]].value ELSE argv[i + 1]
<1>1. /\ \A k \in 1..Len(nc) : \E i \in Own(argv) : nc[k] = entries[i]
      /\ \A i \in Own(argv) : \E k \in 1..Len(nc) : nc[k] = entries[i]
  BY NocruftBucket
<1>2. ASSUME NEW i \in Own(argv), NEW k \in 1..Len(nc), nc[k] = entries[i], Key(argv[i]) = key
      PROVE  Key(nc[k].tok) = key /\ ValuesOf(nc[k])[1] = Value(i)
  <2>1. i \in 1..Len(argv) /\ argv[i] \in Token
    BY Positions
  <2>2. nc[k] = [tok |-> argv[i],
                 values |-> IF TakesNext(argv[i]) /\ i < Len(argv) THEN <<argv[i + 1]>> ELSE <<>>]
    BY <1>2, <2>1 DEF Entries
  <2>3. Key(nc[k].tok) = key
    BY <1>2, <2>2
  <2>4. Len(ValuesOf(nc[k])) = 1
    BY <2>3 DEF ClapAccepts
  <2>5. CASE argv[i] \in DOMAIN Inline
    <3>1. nc[k].tok = argv[i] /\ nc[k].values = <<>>
      BY <2>2, <2>5 DEF TakesNext
    <3>2. ValuesOf(nc[k]) = <<Inline[argv[i]].value>> \o <<>>
      BY <2>5, <3>1 DEF ValuesOf
    <3>3. <<Inline[argv[i]].value>> \o <<>> = <<Inline[argv[i]].value>>
      BY <2>5, TokenAssumption
    <3> QED
      BY <2>3, <2>5, <3>2, <3>3
  <2>6. CASE argv[i] \notin DOMAIN Inline
    <3>1. ValuesOf(nc[k]) = <<>> \o nc[k].values
      BY <2>2, <2>6 DEF ValuesOf
    <3>2. CASE TakesNext(argv[i]) /\ i < Len(argv)
      <4>1. nc[k].values = <<argv[i + 1]>> /\ argv[i + 1] \in Token
        BY <2>1, <2>2, <3>2
      <4>2. ValuesOf(nc[k]) = <<argv[i + 1]>>
        BY <3>1, <4>1
      <4> QED
        BY <2>3, <2>6, <4>2
    <3>3. CASE ~(TakesNext(argv[i]) /\ i < Len(argv))
      <4>1. nc[k].values = <<>>
        BY <2>2, <3>3
      <4>2. Len(ValuesOf(nc[k])) = 0
        BY <3>1, <4>1
      <4> QED
        BY <2>4, <4>2
    <3> QED
      BY <3>2, <3>3
  <2> QED
    BY <2>5, <2>6
<1>3. \A i \in Own(argv) : entries[i].tok = argv[i]
  BY Positions DEF Entries
<1>4. ValuesFor(nc, key) = {ValuesOf(nc[k])[1] : k \in {j \in 1..Len(nc) : Key(nc[j].tok) = key}}
  BY DEF ValuesFor, Named
<1>5. Given(argv, key) = {Value(i) : i \in {j \in Own(argv) : Key(argv[j]) = key}}
  BY DEF Given
<1> HIDE DEF nc, entries, Value
<1>6. ASSUME NEW k \in 1..Len(nc), Key(nc[k].tok) = key
      PROVE  ValuesOf(nc[k])[1] \in Given(argv, key)
  <2>1. PICK i \in Own(argv) : nc[k] = entries[i]
    BY <1>1
  <2> QED
    BY <1>2, <1>3, <1>5, <1>6, <2>1
<1>7. ASSUME NEW i \in Own(argv), Key(argv[i]) = key
      PROVE  Value(i) \in ValuesFor(nc, key)
  <2>1. PICK k \in 1..Len(nc) : nc[k] = entries[i]
    BY <1>1
  <2> QED
    BY <1>2, <1>4, <1>7, <2>1
<1>8. ValuesFor(nc, key) \subseteq Given(argv, key)
  BY <1>4, <1>6
<1>9. Given(argv, key) \subseteq ValuesFor(nc, key)
  BY <1>5, <1>7
<1> QED
  BY <1>8, <1>9 DEF nc

(* The switches clap finds are the words that name one.                    *)
LEMMA SwitchesGiven ==
  ASSUME NEW argv \in Seq(Token), ClapAccepts(Walk(argv).nc_bucket)
  PROVE  SwitchesOf(Walk(argv).nc_bucket) = {argv[i] : i \in Own(argv)} \cap SWITCHES
<1> DEFINE nc == Walk(argv).nc_bucket
           entries == Entries(argv, Len(argv))
<1>1. /\ \A k \in 1..Len(nc) : \E i \in Own(argv) : nc[k] = entries[i]
      /\ \A i \in Own(argv) : \E k \in 1..Len(nc) : nc[k] = entries[i]
  BY NocruftBucket
<1>2. ASSUME NEW i \in Own(argv), NEW k \in 1..Len(nc), nc[k] = entries[i]
      PROVE  /\ Key(nc[k].tok) \in SWITCHES => Key(nc[k].tok) = argv[i]
             /\ argv[i] \in SWITCHES => Key(nc[k].tok) = argv[i]
  <2>1. i \in 1..Len(argv) /\ argv[i] \in Token
    BY Positions
  <2>2. nc[k] = [tok |-> argv[i],
                 values |-> IF TakesNext(argv[i]) /\ i < Len(argv) THEN <<argv[i + 1]>> ELSE <<>>]
    BY <1>2, <2>1 DEF Entries
  <2>3. CASE argv[i] \notin DOMAIN Inline
    BY <2>2, <2>3 DEF Key
  <2>4. CASE argv[i] \in DOMAIN Inline
    <3>1. argv[i] \notin SWITCHES
      BY <2>4, TokenAssumption
    <3>2. nc[k].tok = argv[i] /\ nc[k].values = <<>>
      BY <2>2, <2>4 DEF TakesNext
    <3>3. ValuesOf(nc[k]) = <<Inline[argv[i]].value>> \o <<>>
      BY <2>4, <3>2 DEF ValuesOf
    <3>4. Len(ValuesOf(nc[k])) = 1
      BY <2>4, <3>3, TokenAssumption
    <3>5. Key(nc[k].tok) \notin SWITCHES
      <4>1. \A key \in SWITCHES : key \notin VALUE_FLAGS
        BY DEF SWITCHES, VALUE_FLAGS
      <4>2. Len(ValuesOf(nc[k])) = IF Key(nc[k].tok) \in VALUE_FLAGS THEN 1 ELSE 0
        BY DEF ClapAccepts
      <4>3. Key(nc[k].tok) \in SWITCHES => Len(ValuesOf(nc[k])) = 0
        BY <4>1, <4>2, Zenon
      <4> QED
        BY <3>4, <4>3
    <3> QED
      BY <3>1, <3>5
  <2> QED
    BY <2>3, <2>4
<1>3. SwitchesOf(nc) = {Key(nc[k].tok) : k \in 1..Len(nc)} \cap SWITCHES
  BY DEF SwitchesOf
<1> HIDE DEF nc, entries
<1>4. ASSUME NEW k \in 1..Len(nc), Key(nc[k].tok) \in SWITCHES
      PROVE  Key(nc[k].tok) \in {argv[i] : i \in Own(argv)}
  <2>1. PICK i \in Own(argv) : nc[k] = entries[i]
    BY <1>1
  <2> QED
    BY <1>2, <1>4, <2>1
<1>5. ASSUME NEW i \in Own(argv), argv[i] \in SWITCHES
      PROVE  argv[i] \in {Key(nc[k].tok) : k \in 1..Len(nc)}
  <2>1. PICK k \in 1..Len(nc) : nc[k] = entries[i]
    BY <1>1
  <2> QED
    BY <1>2, <1>5, <2>1
<1>6. {Key(nc[k].tok) : k \in 1..Len(nc)} \cap SWITCHES \subseteq {argv[i] : i \in Own(argv)}
  BY <1>4
<1>7. {argv[i] : i \in Own(argv)} \cap SWITCHES \subseteq {Key(nc[k].tok) : k \in 1..Len(nc)}
  BY <1>5
<1> QED
  BY <1>3, <1>6, <1>7 DEF nc

LEMMA ParseOwn ==
  ASSUME NEW argv \in Seq(Token), ~parse_argv(argv).rejected
  PROVE  LET p == parse_argv(argv)
             exec == Given(argv, "--nc-exec")
         IN  /\ p.flags = {argv[i] : i \in Own(argv)} \cap SWITCHES
             /\ p.includes = Given(argv, "--nc-include")
             /\ p.excludes = Given(argv, "--nc-exclude")
             /\ p.child_prog \in IF exec = {} THEN {"nix-shell"} ELSE exec
<1>1. ~Refuses(Walk(argv)) /\ parse_argv(argv) = Accepted(Walk(argv))
  BY ParseAccepted
<1>2. ClapAccepts(Walk(argv).nc_bucket)
  BY <1>1 DEF Refuses
<1>3. /\ ValuesFor(Walk(argv).nc_bucket, "--nc-exec") = Given(argv, "--nc-exec")
      /\ ValuesFor(Walk(argv).nc_bucket, "--nc-include") = Given(argv, "--nc-include")
      /\ ValuesFor(Walk(argv).nc_bucket, "--nc-exclude") = Given(argv, "--nc-exclude")
  BY <1>2, ValuesGiven DEF VALUE_FLAGS
<1>4. \A exec : Prog(exec) \in IF exec = {} THEN {"nix-shell"} ELSE exec
  BY DEF Prog
<1>5. SwitchesOf(Walk(argv).nc_bucket) = {argv[i] : i \in Own(argv)} \cap SWITCHES
  BY <1>2, SwitchesGiven
<1> QED
  BY <1>1, <1>3, <1>4, <1>5 DEF Accepted
==============================================================================
