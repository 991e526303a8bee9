--------------------------- MODULE LoadTestProofs ---------------------------
(***************************************************************************)
(* What LoadTest guarantees for any number of VUs, iterations and          *)
(* repetitions.                                                            *)
(*                                                                         *)
(* Counts are sums over bags, so the proofs begin with sums: the library's *)
(* fold is a function that CHOOSE picks, and what it adds up follows by    *)
(* induction over a finite set.  Then the scripts: which labels an answer  *)
(* with a cause may get.  Labels that cover some answers (Covers) never    *)
(* count fewer than there were, labels that select some (Selects) never    *)
(* more; labels that do both (Fits) count exactly.  This is inductive, for *)
(* all labels and causes at once, and so is Flow: what is counted on its   *)
(* way into some steps has been counted on its way out, or waits there.    *)
(* What each script counts, claims and explains follows from its table.    *)
(***************************************************************************)
EXTENDS LoadTest, FiniteSetTheorems, WellFoundedInduction, TLAPS

-----------------------------------------------------------------------------
(* Sums.                                                                   *)

\* Induction over a finite set, for a property that is given as a set.
LEMMA SubsetInduction ==
  ASSUME NEW S, IsFiniteSet(S), NEW Good,
         \A T \in SUBSET S : (\A U \in SUBSET T : U # T => U \in Good) => T \in Good
  PROVE  S \in Good
<1> SUFFICES ASSUME S \notin Good PROVE FALSE
  OBVIOUS
<1> DEFINE Bad == {T \in SUBSET S : T \notin Good}
<1>1. Bad \subseteq FiniteSubsetsOf(S) /\ Bad # {}
  BY FS_Subset DEF FiniteSubsetsOf
<1>2. IsWellFoundedOn(StrictSubsetOrdering(S), FiniteSubsetsOf(S))
  BY FS_StrictSubsetOrderingWellFounded
<1>3. PICK T \in Bad : \A U \in Bad : <<U, T>> \notin StrictSubsetOrdering(S)
  <2> HIDE DEF Bad
  <2> QED
    BY <1>1, <1>2, WFMin
<1>4. ASSUME NEW U \in SUBSET T, U # T
      PROVE  U \in Good
  <2> DEFINE pair == <<U, T>>
  <2>1. pair[1] = U /\ pair[2] = T /\ pair \in (SUBSET S) \X (SUBSET S)
    BY <1>3
  <2>2. pair \in StrictSubsetOrdering(S)
    BY <1>4, <2>1 DEF StrictSubsetOrdering
  <2> QED
    BY <1>3, <2>2
<1> QED
  BY <1>3, <1>4

\* Induction over the natural numbers, likewise.
LEMMA NatInduct ==
  ASSUME NEW Good, 0 \in Good, \A n \in Nat : n \in Good => n + 1 \in Good
  PROVE  Nat \subseteq Good
<1> SUFFICES ASSUME NEW n \in Nat PROVE n \in Good
  OBVIOUS
<1> DEFINE Sized == {T \in SUBSET (1 .. n) : Cardinality(T) \in Good}
<1>1. IsFiniteSet(1 .. n) /\ Cardinality(1 .. n) = n
  BY FS_Interval
<1>2. ASSUME NEW T \in SUBSET (1 .. n), \A U \in SUBSET T : U # T => U \in Sized
      PROVE  T \in Sized
  <2>1. CASE T = {}
    BY <2>1, FS_EmptySet
  <2>2. CASE T # {}
    <3>1. PICK x \in T : TRUE
      BY <2>2
    <3>2. IsFiniteSet(T) /\ Cardinality(T) \in Nat
      BY <1>1, FS_Subset, FS_CardinalityType
    <3>3. IsFiniteSet(T \ {x}) /\ Cardinality(T \ {x}) = Cardinality(T) - 1
      BY <3>2, FS_RemoveElement
    <3>4. Cardinality(T \ {x}) \in Nat /\ Cardinality(T) = Cardinality(T \ {x}) + 1
      BY <3>2, <3>3, FS_CardinalityType
    <3>5. Cardinality(T \ {x}) \in Good
      BY <1>2
    <3> QED
      BY <3>4, <3>5
  <2> QED
    BY <2>1, <2>2
<1>3. 1 .. n \in Sized
  <2> DEFINE I == 1 .. n
  <2>1. \A T \in SUBSET I : (\A U \in SUBSET T : U # T => U \in Sized) => T \in Sized
    BY <1>2
  <2>2. IsFiniteSet(I)
    BY <1>1
  <2> HIDE DEF Sized, I
  <2>3. I \in Sized
    BY <2>1, <2>2, SubsetInduction
  <2> QED
    BY <2>3 DEF I
<1> QED
  BY <1>1, <1>3

Pick(s) == CHOOSE x \in s : TRUE

IsIter(f, bag, S) ==
  f = [s \in SUBSET S |-> IF s = {} THEN 0 ELSE bag[Pick(s)] + f[s \ {Pick(s)}]]

\* A sum is computed by a function on the subsets, ...
LEMMA SumByIter ==
  ASSUME NEW bag, NEW S
  PROVE  Sum(bag, S) = (CHOOSE f : IsIter(f, bag, S))[S]
BY DEF Sum, MapThenSumSet, MapThenFoldSet, IsIter, Pick

Body(f, bag, s) == IF s = {} THEN 0 ELSE bag[Pick(s)] + f[s \ {Pick(s)}]

\* ... which exists, ...
LEMMA IterExists ==
  ASSUME NEW S, IsFiniteSet(S), NEW bag
  PROVE  \E f : IsIter(f, bag, S)
<1> DEFINE Good == {n \in Nat : \E f : /\ f = [s \in SUBSET S |-> f[s]]
                                     /\ \A s \in SUBSET S : Cardinality(s) <= n => f[s] = Body(f, bag, s)}
<1>1. 0 \in Good
  <2> DEFINE f == [s \in SUBSET S |-> 0]
  <2>1. f = [s \in SUBSET S |-> f[s]]
    OBVIOUS
  <2>2. ASSUME NEW s \in SUBSET S, Cardinality(s) <= 0
        PROVE  f[s] = Body(f, bag, s)
    <3>1. s = {}
      BY <2>2, FS_Subset, FS_CardinalityType, FS_EmptySet
    <3> QED
      BY <3>1 DEF Body
  <2> QED
    BY <2>1, <2>2
<1>2. ASSUME NEW n \in Nat, n \in Good
      PROVE  n + 1 \in Good
  <2>1. PICK f : /\ f = [s \in SUBSET S |-> f[s]]
                 /\ \A s \in SUBSET S : Cardinality(s) <= n => f[s] = Body(f, bag, s)
    BY <1>2
  <2> DEFINE g == [s \in SUBSET S |-> Body(f, bag, s)]
  <2>2. g = [s \in SUBSET S |-> g[s]]
    OBVIOUS
  <2>3. ASSUME NEW s \in SUBSET S, Cardinality(s) <= n
        PROVE  g[s] = f[s]
    BY <2>1, <2>3
  <2>4. ASSUME NEW s \in SUBSET S, Cardinality(s) <= n + 1
        PROVE  g[s] = Body(g, bag, s)
    <3>1. CASE s = {}
      BY <3>1 DEF Body
    <3>2. CASE s # {}
      <4>1. Pick(s) \in s
        BY <3>2 DEF Pick
      <4>2. IsFiniteSet(s) /\ Cardinality(s) \in Nat
        BY FS_Subset, FS_CardinalityType
      <4>3. Cardinality(s \ {Pick(s)}) <= n
        <5>1. Cardinality(s \ {Pick(s)}) = Cardinality(s) - 1
          BY <4>1, <4>2, FS_RemoveElement
        <5> QED
          BY <2>4, <4>2, <5>1
      <4>4. g[s \ {Pick(s)}] = f[s \ {Pick(s)}]
        BY <2>3, <4>3
      <4> QED
        BY <3>2, <4>4 DEF Body
    <3> QED
      BY <3>1, <3>2
  <2> HIDE DEF g
  <2> QED
    BY <2>2, <2>4
<1>3. Cardinality(S) \in Good
  <2> HIDE DEF Good
  <2> QED
    BY <1>1, <1>2, NatInduct, FS_CardinalityType
<1>4. PICK f : /\ f = [s \in SUBSET S |-> f[s]]
               /\ \A s \in SUBSET S : Cardinality(s) <= Cardinality(S) => f[s] = Body(f, bag, s)
  BY <1>3
<1>5. \A s \in SUBSET S : f[s] = Body(f, bag, s)
  BY <1>4, FS_Subset
<1>6. f = [s \in SUBSET S |-> Body(f, bag, s)]
  BY <1>4, <1>5
<1> QED
  BY <1>6 DEF IsIter, Body

\* What is known of the function that Sum chooses.
Iter(bag, S) == CHOOSE f : IsIter(f, bag, S)

\* ... and does on each subset what its equation says.
LEMMA IterIs ==
  ASSUME NEW S, IsFiniteSet(S), NEW bag
  PROVE  \A s \in SUBSET S : Iter(bag, S)[s] = Body(Iter(bag, S), bag, s)
<1>1. IsIter(Iter(bag, S), bag, S)
  BY IterExists DEF Iter
<1> QED
  BY <1>1 DEF IsIter, Body

\* It is the same for all sets, as far as they have subsets in common, and for all
\* bags that agree on the set.
LEMMA IterAgree ==
  ASSUME NEW S, NEW T, IsFiniteSet(S), IsFiniteSet(T), NEW a, NEW b,
         NEW s \in SUBSET (S \cap T), \A x \in s : a[x] = b[x]
  PROVE  Iter(a, S)[s] = Iter(b, T)[s]
<1> DEFINE f == Iter(a, S)
           g == Iter(b, T)
           Good == {u \in SUBSET s : f[u] = g[u]}
<1>1. \A u \in SUBSET s : f[u] = Body(f, a, u) /\ g[u] = Body(g, b, u)
  BY IterIs
<1> HIDE DEF f, g
<1>2. ASSUME NEW u \in SUBSET s, \A v \in SUBSET u : v # u => v \in Good
      PROVE  u \in Good
  <2>1. CASE u = {}
    BY <1>1, <2>1 DEF Body
  <2>2. CASE u # {}
    <3>1. Pick(u) \in u
      BY <2>2 DEF Pick
    <3>2. u \ {Pick(u)} \in Good
      BY <1>2, <3>1
    <3>3. a[Pick(u)] = b[Pick(u)]
      BY <3>1
    <3> QED
      BY <1>1, <2>2, <3>2, <3>3 DEF Body
  <2> QED
    BY <2>1, <2>2
<1>3. s \in Good
  <2>1. IsFiniteSet(s)
    BY FS_Subset
  <2> HIDE DEF Good
  <2> QED
    BY <1>2, <2>1, SubsetInduction
<1> QED
  BY <1>3 DEF f, g

\* A sum depends on the summands only.
LEMMA SumSame ==
  ASSUME NEW S, IsFiniteSet(S), NEW a, NEW b, \A x \in S : a[x] = b[x]
  PROVE  Sum(a, S) = Sum(b, S)
<1>1. Iter(a, S)[S] = Iter(b, S)[S]
  BY IterAgree
<1> QED
  BY <1>1, SumByIter DEF Iter

\* The empty sum, ...
LEMMA SumEmpty ==
  ASSUME NEW bag
  PROVE  Sum(bag, {}) = 0
BY IterIs, SumByIter, FS_EmptySet DEF Iter, Body

\* ... one with a summand, ...
LEMMA SumPick ==
  ASSUME NEW S, IsFiniteSet(S), S # {}, NEW bag
  PROVE  Pick(S) \in S /\ Sum(bag, S) = bag[Pick(S)] + Sum(bag, S \ {Pick(S)})
<1> DEFINE T == S \ {Pick(S)}
<1>1. Pick(S) \in S
  BY DEF Pick
<1>2. Iter(bag, S)[S] = bag[Pick(S)] + Iter(bag, S)[T]
  BY IterIs DEF Body
<1>3. IsFiniteSet(T) /\ T \in SUBSET (S \cap T)
  BY FS_Subset
<1>4. Iter(bag, S)[T] = Iter(bag, T)[T]
  BY <1>3, IterAgree
<1> QED
  BY <1>1, <1>2, <1>4, SumByIter DEF Iter

\* ... and the sum of natural numbers.
LEMMA SumNat ==
  ASSUME NEW S, IsFiniteSet(S), NEW bag, \A x \in S : bag[x] \in Nat
  PROVE  Sum(bag, S) \in Nat
<1> DEFINE Good == {s \in SUBSET S : Sum(bag, s) \in Nat}
<1>1. ASSUME NEW s \in SUBSET S, \A u \in SUBSET s : u # s => u \in Good
      PROVE  s \in Good
  <2>1. CASE s = {}
    BY <2>1, SumEmpty
  <2>2. CASE s # {}
    <3>1. Pick(s) \in s /\ Sum(bag, s) = bag[Pick(s)] + Sum(bag, s \ {Pick(s)})
      BY <2>2, SumPick, FS_Subset
    <3>2. s \ {Pick(s)} \in Good /\ bag[Pick(s)] \in Nat
      BY <1>1, <3>1
    <3> QED
      BY <3>1, <3>2
  <2> QED
    BY <2>1, <2>2
<1>2. S \in Good
  <2> HIDE DEF Good
  <2> QED
    BY <1>1, SubsetInduction
<1> QED
  BY <1>2

\* An element may be taken out first, whichever it is.
LEMMA SumElement ==
  ASSUME NEW S, IsFiniteSet(S), NEW bag, \A x \in S : bag[x] \in Nat, NEW e \in S
  PROVE  Sum(bag, S) = bag[e] + Sum(bag, S \ {e})
<1> DEFINE Good == {s \in SUBSET S : \A x \in s : Sum(bag, s) = bag[x] + Sum(bag, s \ {x})}
<1>1. ASSUME NEW s \in SUBSET S, \A u \in SUBSET s : u # s => u \in Good
      PROVE  s \in Good
  <2>1. ASSUME NEW x \in s
        PROVE  Sum(bag, s) = bag[x] + Sum(bag, s \ {x})
    <3> DEFINE p == Pick(s)
    <3>1. p \in s /\ Sum(bag, s) = bag[p] + Sum(bag, s \ {p})
      BY SumPick, FS_Subset
    <3> HIDE DEF p
    <3>2. CASE x = p
      BY <3>1, <3>2
    <3>3. CASE x # p
      <4> DEFINE rest == (s \ {p}) \ {x}
      <4>1. rest = (s \ {x}) \ {p}
        OBVIOUS
      <4>2. Sum(bag, s \ {p}) = bag[x] + Sum(bag, rest)
        BY <1>1, <3>1, <3>3
      <4>3. Sum(bag, s \ {x}) = bag[p] + Sum(bag, rest)
        BY <1>1, <3>1, <3>3, <4>1
      <4>4. Sum(bag, rest) \in Nat
        BY FS_Subset, SumNat
      <4> QED
        BY <3>1, <4>2, <4>3, <4>4
    <3> QED
      BY <3>2, <3>3
  <2> QED
    BY <2>1
<1>2. S \in Good
  <2> HIDE DEF Good
  <2> QED
    BY <1>1, SubsetInduction
<1> QED
  BY <1>2

\* Fewer summands have no larger sum.
LEMMA SumSubset ==
  ASSUME NEW S, IsFiniteSet(S), NEW bag, \A x \in S : bag[x] \in Nat, NEW T \in SUBSET S
  PROVE  Sum(bag, T) \in Nat /\ Sum(bag, T) <= Sum(bag, S)
<1> DEFINE Good == {s \in SUBSET S : T \subseteq s => Sum(bag, T) <= Sum(bag, s)}
<1>0. Sum(bag, T) \in Nat
  BY FS_Subset, SumNat
<1>1. ASSUME NEW s \in SUBSET S, \A u \in SUBSET s : u # s => u \in Good
      PROVE  s \in Good
  <2>1. CASE s = T
    BY <1>0, <2>1
  <2>2. CASE T \subseteq s /\ s # T
    <3>1. PICK x \in s \ T : TRUE
      BY <2>2
    <3>2. Sum(bag, s) = bag[x] + Sum(bag, s \ {x})
      BY FS_Subset, SumElement
    <3>3. Sum(bag, T) <= Sum(bag, s \ {x})
      BY <1>1, <2>2, <3>1
    <3>4. bag[x] \in Nat /\ Sum(bag, s \ {x}) \in Nat
      BY FS_Subset, SumNat
    <3> QED
      BY <1>0, <3>2, <3>3, <3>4
  <2> QED
    BY <2>1, <2>2
<1>2. S \in Good
  <2> HIDE DEF Good
  <2> QED
    BY <1>1, SubsetInduction
<1> QED
  BY <1>0, <1>2

\* Sums of a bag over the parts of a set, and of a union of bags.
LEMMA SumParts ==
  ASSUME NEW S, IsFiniteSet(S), NEW bag, \A x \in S : bag[x] \in Nat, NEW A
  PROVE  Sum(bag, S) = Sum(bag, S \cap A) + Sum(bag, S \ A)
<1> DEFINE Good == {s \in SUBSET S : Sum(bag, s) = Sum(bag, s \cap A) + Sum(bag, s \ A)}
<1>1. ASSUME NEW s \in SUBSET S, \A u \in SUBSET s : u # s => u \in Good
      PROVE  s \in Good
  <2>1. CASE s = {}
    <3>1. s \cap A = {} /\ s \ A = {}
      BY <2>1
    <3> QED
      BY <2>1, <3>1, SumEmpty
  <2>2. CASE s # {}
    <3>1. PICK x \in s : TRUE
      BY <2>2
    <3> DEFINE u == s \ {x}
    <3>2. Sum(bag, s) = bag[x] + Sum(bag, u)
      BY FS_Subset, SumElement
    <3>3. Sum(bag, u) = Sum(bag, u \cap A) + Sum(bag, u \ A)
      BY <1>1, <3>1
    <3>4. Sum(bag, u \cap A) \in Nat /\ Sum(bag, u \ A) \in Nat /\ bag[x] \in Nat
      BY FS_Subset, SumNat
    <3>5. CASE x \in A
      <4>1. u \ A = s \ A /\ u \cap A = (s \cap A) \ {x}
        BY <3>5
      <4>2. Sum(bag, s \cap A) = bag[x] + Sum(bag, u \cap A)
        BY <3>5, <4>1, FS_Subset, SumElement
      <4> QED
        BY <3>2, <3>3, <3>4, <4>1, <4>2
    <3>6. CASE x \notin A
      <4>1. u \cap A = s \cap A /\ u \ A = (s \ A) \ {x}
        BY <3>6
      <4>2. Sum(bag, s \ A) = bag[x] + Sum(bag, u \ A)
        BY <3>6, <4>1, FS_Subset, SumElement
      <4> QED
        BY <3>2, <3>3, <3>4, <4>1, <4>2
    <3> QED
      BY <3>5, <3>6
  <2> QED
    BY <2>1, <2>2
<1>2. S \in Good
  <2> HIDE DEF Good
  <2> QED
    BY <1>1, SubsetInduction
<1> QED
  BY <1>2

Counted(bag) == IsFiniteSet(DOMAIN bag) /\ \A x \in DOMAIN bag : bag[x] \in Nat

\* The sum of two bags is a bag, ...
LEMMA PlusCounted ==
  ASSUME NEW a, NEW b, Counted(a), Counted(b)
  PROVE  Counted(a (+) b) /\ DOMAIN (a (+) b) = DOMAIN a \cup DOMAIN b
<1>1. DOMAIN (a (+) b) = DOMAIN a \cup DOMAIN b
  BY DEF (+)
<1>2. IsFiniteSet(DOMAIN a \cup DOMAIN b)
  BY FS_Union DEF Counted
<1>3. \A x \in DOMAIN a \cup DOMAIN b : (a (+) b)[x] \in Nat
  BY DEF (+), Counted
<1> QED
  BY <1>1, <1>2, <1>3 DEF Counted

\* ... and counts what both count.
LEMMA SumPlus ==
  ASSUME NEW a, NEW b, Counted(a), Counted(b), NEW S \in SUBSET (DOMAIN a \cup DOMAIN b)
  PROVE  Sum(a (+) b, S) = Sum(a, S \cap DOMAIN a) + Sum(b, S \cap DOMAIN b)
<1> DEFINE c == a (+) b
           A == DOMAIN a
           B == DOMAIN b
           Good == {s \in SUBSET S : Sum(c, s) = Sum(a, s \cap A) + Sum(b, s \cap B)}
<1>1. /\ IsFiniteSet(S)
      /\ \A x \in S : c[x] \in Nat
      /\ \A x \in A : a[x] \in Nat
      /\ \A x \in B : b[x] \in Nat
  BY PlusCounted, FS_Subset DEF Counted
<1>2. \A x \in S : c[x] = (IF x \in A THEN a[x] ELSE 0) + (IF x \in B THEN b[x] ELSE 0)
  BY DEF (+)
<1> HIDE DEF c, A, B
<1>3. ASSUME NEW s \in SUBSET S, \A u \in SUBSET s : u # s => u \in Good
      PROVE  s \in Good
  <2>1. CASE s = {}
    <3>1. s \cap A = {} /\ s \cap B = {}
      BY <2>1
    <3> QED
      BY <2>1, <3>1, SumEmpty
  <2>2. CASE s # {}
    <3>1. PICK x \in s : TRUE
      BY <2>2
    <3> DEFINE u == s \ {x}
    <3>2. IsFiniteSet(s) /\ IsFiniteSet(u)
      BY <1>1, FS_Subset
    <3>3. Sum(c, s) = c[x] + Sum(c, u)
      BY <1>1, <3>2, SumElement
    <3>4. Sum(c, u) = Sum(a, u \cap A) + Sum(b, u \cap B)
      BY <1>3, <3>1
    <3>5. ASSUME NEW f, NEW D, \A y \in D : f[y] \in Nat
          PROVE  /\ Sum(f, u \cap D) \in Nat
                 /\ Sum(f, s \cap D) = (IF x \in D THEN f[x] ELSE 0) + Sum(f, u \cap D)
      <4>1. IsFiniteSet(s \cap D) /\ IsFiniteSet(u \cap D)
        BY <3>2, FS_Subset
      <4>2. Sum(f, u \cap D) \in Nat
        BY <3>5, <4>1, SumNat
      <4>3. CASE x \in D
        <5>1. u \cap D = (s \cap D) \ {x}
          OBVIOUS
        <5> QED
          BY <3>5, <4>1, <4>2, <4>3, <5>1, SumElement
      <4>4. CASE x \notin D
        <5>1. u \cap D = s \cap D
          BY <4>4
        <5> QED
          BY <4>2, <4>4, <5>1
      <4> QED
        BY <4>2, <4>3, <4>4
    <3>6. /\ Sum(a, u \cap A) \in Nat
          /\ Sum(a, s \cap A) = (IF x \in A THEN a[x] ELSE 0) + Sum(a, u \cap A)
      BY <1>1, <3>5
    <3>7. /\ Sum(b, u \cap B) \in Nat
          /\ Sum(b, s \cap B) = (IF x \in B THEN b[x] ELSE 0) + Sum(b, u \cap B)
      BY <1>1, <3>5
    <3> QED
      BY <1>1, <1>2, <3>3, <3>4, <3>6, <3>7
  <2> QED
    BY <2>1, <2>2
<1>4. S \in Good
  <2> HIDE DEF Good
  <2> QED
    BY <1>1, <1>3, SubsetInduction
<1> QED
  BY <1>4 DEF c, A, B

-----------------------------------------------------------------------------
(* Counts.                                                                 *)

\* Counts are natural numbers.
LEMMA CountNat ==
  ASSUME NEW bag, Counted(bag), NEW phases, NEW labels
  PROVE  Count(bag, phases, labels) \in Nat
BY FS_Subset, SumNat DEF Count, Counted

\* So is what happened.
LEMMA HappenedNat ==
  ASSUME NEW bag, Counted(bag), NEW phases, NEW steps, NEW causes
  PROVE  Happened(bag, phases, steps, causes) \in Nat
BY FS_Subset, SumNat DEF Happened, Counted

\* More phases and labels count no less.
LEMMA CountMore ==
  ASSUME NEW bag, Counted(bag), NEW phases, NEW labels,
         NEW p \in SUBSET phases, NEW l \in SUBSET labels
  PROVE  Count(bag, p, l) <= Count(bag, phases, labels)
<1> DEFINE few == {entry \in DOMAIN bag : entry[1] \in p /\ entry[2] \in l}
           all == {entry \in DOMAIN bag : entry[1] \in phases /\ entry[2] \in labels}
<1>1. few \in SUBSET all /\ all \in SUBSET DOMAIN bag
  OBVIOUS
<1> HIDE DEF few, all
<1>2. Sum(bag, few) <= Sum(bag, all)
  BY <1>1, FS_Subset, SumSubset DEF Counted
<1> QED
  BY <1>2 DEF Count, few, all

\* Labels counted apart or together.
LEMMA CountParts ==
  ASSUME NEW bag, Counted(bag), NEW phases, NEW a, NEW b, a \cap b = {}
  PROVE  Count(bag, phases, a \cup b) = Count(bag, phases, a) + Count(bag, phases, b)
<1> DEFINE ab == {entry \in DOMAIN bag : entry[1] \in phases /\ entry[2] \in a \cup b}
           as == {entry \in DOMAIN bag : entry[1] \in phases /\ entry[2] \in a}
           bs == {entry \in DOMAIN bag : entry[1] \in phases /\ entry[2] \in b}
<1>1. ab \cap as = as /\ ab \ as = bs /\ ab \in SUBSET DOMAIN bag
  OBVIOUS
<1> HIDE DEF ab, as, bs
<1>2. IsFiniteSet(ab) /\ \A x \in ab : bag[x] \in Nat
  BY <1>1, FS_Subset DEF Counted
<1>3. Sum(bag, ab) = Sum(bag, ab \cap as) + Sum(bag, ab \ as)
  BY <1>2, SumParts
<1>4. Sum(bag, ab) = Sum(bag, as) + Sum(bag, bs)
  BY <1>1, <1>3
<1> QED
  BY <1>4 DEF Count, ab, as, bs

\* What happened in two disjoint ways.
LEMMA HappenedParts ==
  ASSUME NEW bag, Counted(bag), NEW phases, NEW s, NEW t, NEW a, NEW b,
         (s = t /\ a \cap b = {}) \/ (a = b /\ s \cap t = {})
  PROVE  Happened(bag, phases, s \cup t, a \cup b)
             = Happened(bag, phases, s, a) + Happened(bag, phases, t, b)
<1> DEFINE ab == {entry \in DOMAIN bag : entry[1] \in phases /\ entry[2] \in s \cup t /\ entry[3] \in a \cup b}
           as == {entry \in DOMAIN bag : entry[1] \in phases /\ entry[2] \in s /\ entry[3] \in a}
           bs == {entry \in DOMAIN bag : entry[1] \in phases /\ entry[2] \in t /\ entry[3] \in b}
<1>1. ab \cap as = as /\ ab \ as = bs /\ ab \in SUBSET DOMAIN bag
  OBVIOUS
<1> HIDE DEF ab, as, bs
<1>2. IsFiniteSet(ab) /\ \A x \in ab : bag[x] \in Nat
  BY <1>1, FS_Subset DEF Counted
<1>3. Sum(bag, ab) = Sum(bag, ab \cap as) + Sum(bag, ab \ as)
  BY <1>2, SumParts
<1>4. Sum(bag, ab) = Sum(bag, as) + Sum(bag, bs)
  BY <1>1, <1>3
<1> QED
  BY <1>4 DEF Happened, ab, as, bs

\* What an answer adds to a count.
LEMMA TalliedCounted ==
  ASSUME NEW p, NEW L, IsFiniteSet(L), NEW n \in Nat
  PROVE  Counted(Tallied(p, L, n)) /\ DOMAIN Tallied(p, L, n) = {p} \X L
<1>1. IsFiniteSet({p} \X L)
  BY FS_Singleton, FS_Product
<1> QED
  BY <1>1 DEF Tallied, Counted

Matching(entries, phases, labels) ==
    {entry \in entries : entry[1] \in phases /\ entry[2] \in labels}

\* Counting an answer adds to the counts of its labels, ...
LEMMA CountPlus ==
  ASSUME NEW bag, Counted(bag), NEW p, NEW L, IsFiniteSet(L), NEW n \in Nat, NEW phases, NEW labels
  PROVE  /\ Count(bag (+) Tallied(p, L, n), phases, labels)
                = Count(bag, phases, labels) + Sum(Tallied(p, L, n), Matching({p} \X L, phases, labels))
         /\ IsFiniteSet(Matching({p} \X L, phases, labels))
<1> DEFINE b == Tallied(p, L, n)
           c == bag (+) b
           S == Matching(DOMAIN c, phases, labels)
           A == Matching(DOMAIN bag, phases, labels)
           B == Matching(DOMAIN b, phases, labels)
<1>1. Counted(b) /\ DOMAIN b = {p} \X L
  BY TalliedCounted
<1>2. Counted(c) /\ DOMAIN c = DOMAIN bag \cup DOMAIN b
  BY <1>1, PlusCounted
<1>3. S \cap DOMAIN bag = A /\ S \cap DOMAIN b = B /\ S \in SUBSET (DOMAIN bag \cup DOMAIN b)
  BY <1>2 DEF Matching
<1>4. IsFiniteSet(B) /\ B \in SUBSET DOMAIN b
  BY <1>1, FS_Subset DEF Counted, Matching
<1> HIDE DEF b, c, S, A, B
<1>5. Sum(c, S) = Sum(bag, A) + Sum(b, B)
  BY <1>1, <1>3, SumPlus DEF c
<1>6. Count(bag, phases, labels) = Sum(bag, A) /\ Count(c, phases, labels) = Sum(c, S)
  BY DEF Count, A, S, Matching
<1>7. B = Matching({p} \X L, phases, labels)
  BY <1>1 DEF B
<1> QED
  BY <1>4, <1>5, <1>6, <1>7 DEF b, c

\* ... to no other count, ...
LEMMA CountMisses ==
  ASSUME NEW bag, Counted(bag), NEW p, NEW L, IsFiniteSet(L), NEW n \in Nat, NEW phases, NEW labels,
         p \notin phases \/ L \cap labels = {}
  PROVE  Count(bag (+) Tallied(p, L, n), phases, labels) = Count(bag, phases, labels)
<1>1. Matching({p} \X L, phases, labels) = {}
  BY DEF Matching
<1>2. Count(bag (+) Tallied(p, L, n), phases, labels)
          = Count(bag, phases, labels) + Sum(Tallied(p, L, n), Matching({p} \X L, phases, labels))
  BY CountPlus
<1>3. Count(bag, phases, labels) \in Nat
  BY CountNat
<1> QED
  <2>1. Sum(Tallied(p, L, n), Matching({p} \X L, phases, labels)) = 0
    BY <1>1, SumEmpty
  <2> QED
    BY <1>2, <1>3, <2>1

\* ... as often as the iteration is repeated, once if one label fits, ...
LEMMA CountHits ==
  ASSUME NEW bag, Counted(bag), NEW p, NEW L, IsFiniteSet(L), NEW n \in Nat, NEW phases, NEW labels,
         p \in phases, NEW x \in L \cap labels
  PROVE  /\ Count(bag (+) Tallied(p, L, n), phases, labels) >= Count(bag, phases, labels) + n
         /\ L \cap labels = {x} =>
                Count(bag (+) Tallied(p, L, n), phases, labels) = Count(bag, phases, labels) + n
<1> DEFINE b == Tallied(p, L, n)
           B == Matching({p} \X L, phases, labels)
           e == <<p, x>>
           new == Count(bag (+) b, phases, labels)
           old == Count(bag, phases, labels)
<1>1. e \in B
  BY DEF Matching
<1>2. L \cap labels = {x} => B \ {e} = {}
  BY DEF Matching
<1>3. new = old + Sum(b, B) /\ IsFiniteSet(B) /\ \A y \in B : b[y] = n
  <2>1. new = old + Sum(b, B)
    BY CountPlus
  <2>2. IsFiniteSet(B)
    BY CountPlus
  <2>3. \A y \in B : b[y] = n
    BY DEF Matching, Tallied
  <2> QED
    BY <2>1, <2>2, <2>3
<1>4. old \in Nat
  BY CountNat
<1> HIDE DEF b, B, e, new, old
<1>5. \A y \in B : b[y] \in Nat
  BY <1>3
<1>6. Sum(b, B) = n + Sum(b, B \ {e})
  BY <1>1, <1>3, <1>5, SumElement
<1>7. IsFiniteSet(B \ {e}) /\ \A y \in B \ {e} : b[y] \in Nat
  BY <1>3, <1>5, FS_Subset
<1>8. Sum(b, B \ {e}) \in Nat
  BY <1>7, SumNat
<1>9. new >= old + n
  BY <1>3, <1>4, <1>6, <1>8
<1>10. ASSUME L \cap labels = {x} PROVE new = old + n
  <2>1. Sum(b, B \ {e}) = 0
    BY <1>2, <1>10, SumEmpty
  <2> QED
    BY <1>3, <1>4, <1>6, <2>1
<1> QED
  BY <1>9, <1>10 DEF new, old, b

\* ... and never takes anything away.
LEMMA CountGrows ==
  ASSUME NEW bag, Counted(bag), NEW p, NEW L, IsFiniteSet(L), NEW n \in Nat, NEW phases, NEW labels
  PROVE  Count(bag (+) Tallied(p, L, n), phases, labels) >= Count(bag, phases, labels)
<1>1. Count(bag, phases, labels) \in Nat
  BY CountNat
<1>2. CASE p \notin phases \/ L \cap labels = {}
  BY <1>1, <1>2, CountMisses
<1>3. CASE p \in phases /\ \E x : x \in L \cap labels
  <2>1. PICK x \in L \cap labels : TRUE
    BY <1>3
  <2>2. Count(bag (+) Tallied(p, L, n), phases, labels) >= Count(bag, phases, labels) + n
    BY <1>3, CountHits
  <2>3. Counted(bag (+) Tallied(p, L, n))
    BY TalliedCounted, PlusCounted
  <2>4. Count(bag (+) Tallied(p, L, n), phases, labels) \in Nat
    BY <2>3, CountNat
  <2> QED
    BY <1>1, <2>2, <2>4
<1> QED
  BY <1>2, <1>3

Once(name, step, cause, n) == [entry \in {<<name, step, cause>>} |-> n]

\* What happens is remembered once.
LEMMA HappenedPlus ==
  ASSUME NEW bag, Counted(bag), NEW name, NEW step, NEW cause, NEW n \in Nat,
         NEW phases, NEW steps, NEW causes
  PROVE  /\ Counted(bag (+) Once(name, step, cause, n))
         /\ Happened(bag (+) Once(name, step, cause, n), phases, steps, causes)
                = Happened(bag, phases, steps, causes)
                  + (IF name \in phases /\ step \in steps /\ cause \in causes THEN n ELSE 0)
<1> DEFINE b == Once(name, step, cause, n)
           c == bag (+) b
           e == <<name, step, cause>>
           S == {entry \in DOMAIN c : entry[1] \in phases /\ entry[2] \in steps /\ entry[3] \in causes}
           A == {entry \in DOMAIN bag : entry[1] \in phases /\ entry[2] \in steps /\ entry[3] \in causes}
           B == {entry \in DOMAIN b : entry[1] \in phases /\ entry[2] \in steps /\ entry[3] \in causes}
<1>1. DOMAIN b = {e} /\ b[e] = n
  BY DEF Once
<1>2. Counted(b)
  <2>1. IsFiniteSet(DOMAIN b)
    BY <1>1, FS_Singleton
  <2>2. \A x \in DOMAIN b : b[x] \in Nat
    BY <1>1
  <2> QED
    BY <2>1, <2>2 DEF Counted
<1>3. Counted(c) /\ DOMAIN c = DOMAIN bag \cup DOMAIN b
  BY <1>2, PlusCounted
<1>4. S \cap DOMAIN bag = A /\ S \cap DOMAIN b = B /\ S \in SUBSET (DOMAIN bag \cup DOMAIN b)
  BY <1>3
<1>5. B = IF name \in phases /\ step \in steps /\ cause \in causes THEN {e} ELSE {}
  BY <1>1
<1> HIDE DEF b, c, e, S, A, B
<1>6. Sum(c, S) = Sum(bag, A) + Sum(b, B)
  BY <1>2, <1>4, SumPlus DEF c
<1>7. Sum(b, {e}) = n
  <2>1. IsFiniteSet({e}) /\ {e} \ {e} = {} /\ \A x \in {e} : b[x] \in Nat
    BY <1>1, FS_Singleton
  <2>2. Sum(b, {e}) = b[e] + Sum(b, {})
    BY <2>1, SumElement
  <2> QED
    BY <1>1, <2>2, SumEmpty
<1>8. Sum(b, B) = IF name \in phases /\ step \in steps /\ cause \in causes THEN n ELSE 0
  BY <1>5, <1>7, SumEmpty
<1>9. Happened(bag, phases, steps, causes) = Sum(bag, A) /\ Happened(c, phases, steps, causes) = Sum(c, S)
  BY DEF Happened, A, S
<1> QED
  BY <1>3, <1>6, <1>8, <1>9 DEF c, b

-----------------------------------------------------------------------------
(* Answers.                                                                *)

\* The fields of an answer.
LEMMA AnswerIs ==
  ASSUME NEW cause, NEW statuses, NEW texts, NEW problems,
         NEW r \in Answer(cause, statuses, texts, problems)
  PROVE  /\ r.cause = cause /\ r.status \in statuses /\ r.text \in texts /\ r.problem \in problems
         /\ r.took \in {"quick", "slow", "late"}
BY DEF Answer

Gives(r, cause, statuses) == r.cause = cause /\ r.status \in statuses

\* What the gateway answers by itself, and what any answer is.
FromGateway(r) ==
    \/ Gives(r, "limiter", {429})
    \/ Gives(r, "bulkhead", {503}) /\ r.text = Busy
    \/ Gives(r, "fallback", {503}) /\ r.text = Unavailable
    \/ Gives(r, "lost", {0}) \/ Gives(r, "error", {502, 504})

FromService(r) ==
    \/ Gives(r, "served", {200}) \/ Gives(r, "refused", {400, 401, 404, 409})
    \/ Gives(r, "error", {500})

\* What the gateway answers is one of these, ...
LEMMA GatewayAnswersAre ==
  ASSUME NEW r \in GatewayAnswers
  PROVE  FromGateway(r) /\ r.took \in {"quick", "slow", "late"}
<1>1. CASE r \in Answer("limiter", {429}, {"other"}, {TRUE})
  BY <1>1, AnswerIs DEF FromGateway, Gives
<1>2. CASE r \in Answer("bulkhead", {503}, {Busy}, {TRUE})
  BY <1>2, AnswerIs DEF FromGateway, Gives
<1>3. CASE r \in Answer("fallback", {503}, {Unavailable}, {TRUE})
  BY <1>3, AnswerIs DEF FromGateway, Gives
<1>4. CASE r \in Answer("error", {502, 504}, {"other"}, BOOLEAN)
  BY <1>4, AnswerIs DEF FromGateway, Gives
<1>5. CASE r \in Answer("lost", {0}, {"other"}, {FALSE})
  BY <1>5, AnswerIs DEF FromGateway, Gives
<1> QED
  BY <1>1, <1>2, <1>3, <1>4, <1>5, Zenon DEF GatewayAnswers

\* ... and so is what a service answers.
LEMMA ServiceAnswersAre ==
  ASSUME NEW r \in ServiceAnswers
  PROVE  FromService(r) /\ r.took \in {"quick", "slow", "late"}
<1>1. CASE r \in Answer("served", {200}, {"other", "tokenId", "unreadable"}, {FALSE})
  BY <1>1, AnswerIs DEF FromService, Gives
<1>2. CASE r \in Answer("refused", {400, 401, 404, 409}, {"other"}, {TRUE})
  BY <1>2, AnswerIs DEF FromService, Gives
<1>3. CASE r \in Answer("error", {500}, {"other"}, {TRUE})
  BY <1>3, AnswerIs DEF FromService, Gives
<1> QED
  BY <1>1, <1>2, <1>3, Zenon DEF ServiceAnswers

\* A reservation of a seat, and a payment or a place in the queue.
OfReservation(r) ==
    FromGateway(r) \/ Gives(r, "served", {201}) \/ Gives(r, "error", {500})
    \/ Gives(r, "refused", {400, 401, 404, 409, 429})

OfCreation(r) == FromGateway(r) \/ FromService(r) \/ Gives(r, "served", {201})

Reserves(phase, step) ==
    script \in {"seat", "invariant"} \/ (script = "journey" /\ step = Journey!Reserve)

Creates(phase, step) ==
    \/ script = "idempotency" \/ (script = "saga" /\ phase # "recovery")
    \/ script = "journey" /\ step \in {Journey!Join, Journey!Pay}

\* Each request of a script gets one of these answers.
LEMMA AnswersAre ==
  ASSUME NEW phase, NEW step, NEW r \in Answers(phase, step)
  PROVE  /\ r.took \in {"quick", "slow", "late"}
         /\ IF Reserves(phase, step) THEN OfReservation(r)
            ELSE IF Creates(phase, step) THEN OfCreation(r)
            ELSE FromGateway(r) \/ FromService(r)
<1>1. Journey!Reserve \notin {Journey!Join, Journey!Pay}
  BY DEF Journey!Reserve, Journey!Join, Journey!Pay, Journey!MaxPolls
<1>2. CASE r \in GatewayAnswers
  BY <1>2, GatewayAnswersAre DEF OfReservation, OfCreation
<1>3. CASE r \in ServiceAnswers /\ ~ Reserves(phase, step)
  BY <1>3, ServiceAnswersAre DEF OfCreation
<1>4. CASE r \in Answer("lost", {0}, {"other"}, {FALSE})
  BY <1>4, AnswerIs DEF FromGateway, Gives, OfReservation, OfCreation
<1>5. CASE r \in Creations /\ (Reserves(phase, step) \/ Creates(phase, step))
  BY <1>5, AnswerIs DEF Creations, Gives, OfReservation, OfCreation
<1>6. CASE r \in ReservationAnswers /\ Reserves(phase, step)
  <2>1. CASE r \in Answer("refused", {429}, {"other"}, {TRUE})
    BY <1>6, <2>1, AnswerIs DEF Gives, OfReservation
  <2>2. CASE r \in ServiceAnswers /\ r.status # 200
    BY <1>6, <2>2, ServiceAnswersAre DEF FromService, Gives, OfReservation
  <2> QED
    BY <1>5, <1>6, <2>1, <2>2, Zenon DEF ReservationAnswers
<1>7. \/ r \in GatewayAnswers \/ r \in Answer("lost", {0}, {"other"}, {FALSE})
      \/ r \in ServiceAnswers /\ ~ Reserves(phase, step)
      \/ r \in Creations /\ (Reserves(phase, step) \/ Creates(phase, step))
      \/ r \in ReservationAnswers /\ Reserves(phase, step)
  <2>1. CASE script = "latency"
    BY <2>1 DEF Answers, Reserves
  <2>2. CASE Reserves(phase, step)
    BY <1>1, <2>2 DEF Answers, Reserves
  <2>3. CASE Creates(phase, step)
    <3>1. ~ Reserves(phase, step) /\ script # "latency"
      BY <1>1, <2>3 DEF Reserves, Creates
    <3> QED
      BY <2>3, <3>1 DEF Answers, Reserves, Creates
  <2>4. CASE script # "latency" /\ ~ Reserves(phase, step) /\ ~ Creates(phase, step)
    BY <2>4 DEF Answers, Reserves, Creates
  <2> QED
    BY <2>1, <2>2, <2>3, <2>4
<1> QED
  BY <1>2, <1>3, <1>4, <1>5, <1>6, <1>7, Zenon

-----------------------------------------------------------------------------
(* The shape of the state.                                                 *)

\* What a VU may remember, and the steps an iteration may be at.
Seen == {"saw_fallback", "saw_rejection", "recovered"}
StepsOf == IF script = "soak" THEN Soak!Kinds ELSE Steps

LoadOK ==
    /\ script \in Scripts
    /\ vu \in [VUs -> [phase : DOMAIN Phases \cup {0}, step : StepsOf, repeats : Nat \ {0},
                       memory : SUBSET Seen]]
    /\ Counted(tally) /\ Counted(heard)

\* As long as the script is the same, so is all that depends on it.
LEMMA ScriptStays ==
  ASSUME script' = script
  PROVE  /\ Phases' = Phases /\ StepsOf' = StepsOf
         /\ \A p, s, r : Labels(p, s, r)' = Labels(p, s, r)
         /\ \A p, s : Answers(p, s)' = Answers(p, s)
         /\ \A p, s : Matters(p, s)' = Matters(p, s)
<1>1. Phases' = Phases
  BY DEF Phases
<1>2. StepsOf' = StepsOf
  BY DEF StepsOf
<1>3. \A p, s, r : Labels(p, s, r)' = Labels(p, s, r)
  BY DEF Labels
<1>4. \A p, s : Answers(p, s)' = Answers(p, s)
  BY DEF Answers
<1>5. \A p, s : Matters(p, s)' = Matters(p, s)
  BY DEF Matters
<1> QED
  BY <1>1, <1>2, <1>3, <1>4, <1>5

\* A script has up to three phases.
LEMMA PhasesAre ==
  ASSUME script \in AllScripts
  PROVE  /\ DOMAIN Phases \subseteq 1 .. 3
         /\ script \in {"breaker"} => DOMAIN Phases = 1 .. 3
BY DEF AllScripts, Phases, Limiter!Phases, Breaker!Phases, Bulkhead!Phases, Latency!Phases, Soak!Phases,
       Seat!Phases, Journey!Phases, Idempotency!Phases, Saga!Phases, Resilience!Phases, Invariant!Phases

\* The next step of an iteration is a step.
LEMMA AfterIs ==
  ASSUME script \in AllScripts, NEW phase, NEW step \in StepsOf, NEW r
  PROVE  After(phase, step, r) \in StepsOf \cup {0}
BY DEF AllScripts, After, StepsOf, Soak!Kinds, Steps, Journey!After, Saga!After, Journey!Join, Journey!Polls,
       Journey!Reserve, Journey!Pay, Journey!Confirm, Journey!MaxPolls

\* A VU forgets nothing.
LEMMA RememberIs ==
  ASSUME NEW memory \in SUBSET Seen, NEW phase, NEW r
  PROVE  Remember(memory, phase, r) \in SUBSET Seen /\ memory \subseteq Remember(memory, phase, r)
<1>1. CASE script = "breaker"
  BY <1>1 DEF Remember, Breaker!Remember, Seen
<1>2. CASE script = "bulkhead"
  BY <1>2 DEF Remember, Bulkhead!Remember, Seen
<1>3. CASE script \notin {"breaker", "bulkhead"}
  BY <1>3 DEF Remember
<1> QED
  BY <1>1, <1>2, <1>3

-----------------------------------------------------------------------------
(* Which labels the answers have.                                          *)

\* Small sets are finite.
LEMMA FewFinite ==
  /\ \A a : IsFiniteSet({a})
  /\ \A a, b : IsFiniteSet({a, b})
  /\ \A a, b, c : IsFiniteSet({a, b, c})
<1>1. \A a : IsFiniteSet({a})
  BY FS_Singleton
<1>2. ASSUME NEW a, NEW b PROVE IsFiniteSet({a, b})
  <2>1. IsFiniteSet({a} \cup {b})
    BY <1>1, FS_Union
  <2>2. {a} \cup {b} = {a, b}
    OBVIOUS
  <2> QED
    BY <2>1, <2>2
<1>3. ASSUME NEW a, NEW b, NEW c PROVE IsFiniteSet({a, b, c})
  <2>1. IsFiniteSet({a, b}) /\ IsFiniteSet({c})
    BY <1>1, <1>2
  <2>2. IsFiniteSet({a, b} \cup {c})
    BY <2>1, FS_Union
  <2>3. {a, b} \cup {c} = {a, b, c}
    OBVIOUS
  <2> QED
    BY <2>2, <2>3
<1> QED
  BY <1>1, <1>2, <1>3

\* The statuses an answer may have.
LEMMA StatusIs ==
  ASSUME NEW phase, NEW step, NEW r \in Answers(phase, step)
  PROVE  r.status \in {0, 200, 201, 400, 401, 404, 409, 429, 500, 502, 503, 504}
<1>1. OfReservation(r) \/ OfCreation(r) \/ FromGateway(r) \/ FromService(r)
  BY AnswersAre
<1> QED
  BY <1>1 DEF OfReservation, OfCreation, FromGateway, FromService, Gives

\* The two kinds of 503 of the gateway.
LEMMA Rejections ==
  ASSUME NEW r, OfReservation(r) \/ OfCreation(r) \/ FromGateway(r) \/ FromService(r)
  PROVE  /\ (r.status = 503 /\ r.text = Busy) <=> r.cause = "bulkhead"
         /\ (r.status = 503 /\ r.text = Unavailable) <=> r.cause = "fallback"
<1>1. Busy # Unavailable
  BY DEF Busy, Unavailable
<1>2. CASE FromGateway(r)
  BY <1>1, <1>2 DEF FromGateway, Gives
<1>3. CASE ~ FromGateway(r)
  <2>1. r.status # 503 /\ r.cause \notin {"bulkhead", "fallback"}
    BY <1>3 DEF FromService, OfReservation, OfCreation, Gives
  <2> QED
    BY <2>1
<1> QED
  BY <1>2, <1>3

\* Which labels an answer with a cause may have.
OfLimiter(cause, labels) ==
    \/ cause = "limiter" /\ labels \in {{"limited"}, {"limited", "slow"}}
    \/ cause \in {"bulkhead", "fallback", "served"} /\ labels = {"allowed"}
    \/ cause = "refused" /\ labels \in {{"allowed"}, {"unexpected"}}
    \/ cause \in {"error", "lost"} /\ labels = {"unexpected"}

\* scenario1-rate-limiter.js.
LEMMA LimiterLabels ==
  ASSUME script = "limiter", NEW name, NEW step, NEW r \in Answers(name, step)
  PROVE  OfLimiter(r.cause, Labels(name, step, r))
<1>1. FromGateway(r) \/ FromService(r)
  BY AnswersAre DEF Reserves, Creates
<1>2. Labels(name, step, r) = Limiter!Labels(r)
  BY DEF Labels
<1> QED
  BY <1>1, <1>2 DEF FromGateway, FromService, Gives, Limiter!Labels, OfLimiter

OfBreaker(cause, labels) ==
    \/ cause = "limiter" /\ labels = {"limited"}
    \/ cause \in {"bulkhead", "error"} /\ labels = {"error"}
    \/ cause = "fallback" /\ labels \in {{"fallback", "transition"}, {"fallback", "pure", "slow"},
                                         {"fallback", "pure"}}
    \/ cause = "served" /\ labels = {"closed"}
    \/ cause = "refused" /\ labels \in {{"closed"}, {"unexpected"}}
    \/ cause = "lost" /\ labels = {"unexpected"}

\* scenario2-circuit-breaker.js.
LEMMA BreakerLabels ==
  ASSUME script = "breaker", NEW name, NEW step, NEW r \in Answers(name, step)
  PROVE  OfBreaker(r.cause, Labels(name, step, r))
<1>1. (FromGateway(r) \/ FromService(r)) /\ r.took \in {"quick", "slow", "late"}
  BY AnswersAre DEF Reserves, Creates
<1>2. Labels(name, step, r) = Breaker!Labels(r)
  BY DEF Labels
<1>3. Breaker!IsFallback(r) <=> r.cause = "fallback"
  BY <1>1, Rejections DEF Breaker!IsFallback, Unavailable, Breaker!Unavailable
<1>4. CASE r.cause = "fallback"
  <2>1. r.status = 503
    BY <1>1, <1>4 DEF FromGateway, FromService, Gives
  <2>2. CASE r.took = "quick"
    BY <1>2, <1>3, <1>4, <2>1, <2>2 DEF Breaker!Labels, OfBreaker
  <2>3. CASE r.took = "slow"
    BY <1>2, <1>3, <1>4, <2>1, <2>3 DEF Breaker!Labels, OfBreaker
  <2>4. CASE r.took = "late"
    BY <1>2, <1>3, <1>4, <2>1, <2>4 DEF Breaker!Labels, OfBreaker
  <2> QED
    BY <1>1, <2>2, <2>3, <2>4
<1>5. CASE r.cause # "fallback"
  BY <1>1, <1>2, <1>3, <1>5 DEF FromGateway, FromService, Gives, Breaker!Labels, OfBreaker
<1> QED
  BY <1>4, <1>5

OfBulkhead(cause, labels) ==
    \/ cause = "limiter" /\ labels = {"limited"}
    \/ cause = "bulkhead" /\ labels \in {{"rejected"}, {"rejected", "slow"}}
    \/ cause = "fallback" /\ labels = {"fallback", "passed"}
    \/ cause = "served" /\ labels = {"success", "passed"}
    \/ cause = "refused" /\ labels \in {{"success", "passed"}, {"unexpected"}}
    \/ cause \in {"error", "lost"} /\ labels = {"unexpected"}

\* scenario3-bulkhead.js.
LEMMA BulkheadLabels ==
  ASSUME script = "bulkhead", NEW name, NEW step, NEW r \in Answers(name, step)
  PROVE  OfBulkhead(r.cause, Labels(name, step, r))
<1>1. FromGateway(r) \/ FromService(r)
  BY AnswersAre DEF Reserves, Creates
<1>2. Labels(name, step, r) = Bulkhead!Labels(r)
  BY DEF Labels
<1>3. /\ Bulkhead!IsRejected(r) <=> r.cause = "bulkhead"
      /\ Bulkhead!IsCbFallback(r) <=> r.cause = "fallback"
  BY <1>1, Rejections
  DEF Bulkhead!IsRejected, Bulkhead!IsCbFallback, Busy, Unavailable, Bulkhead!Busy, Bulkhead!Unavailable
<1>4. CASE r.cause \in {"bulkhead", "fallback"}
  <2>1. r.status = 503
    BY <1>1, <1>4 DEF FromGateway, FromService, Gives
  <2> QED
    BY <1>2, <1>3, <1>4, <2>1 DEF Bulkhead!Labels, OfBulkhead
<1>5. CASE r.cause \notin {"bulkhead", "fallback"}
  BY <1>1, <1>2, <1>3, <1>5 DEF FromGateway, FromService, Gives, Bulkhead!Labels, OfBulkhead
<1> QED
  BY <1>4, <1>5

OfLatency(cause, labels) ==
    \E took \in {"quick", "slow", "late"} :
        labels = {IF cause = "served" THEN "success" ELSE "error", took}

\* scenario4-filter-latency.js.
LEMMA LatencyLabels ==
  ASSUME script = "latency", NEW name, NEW step, NEW r \in Answers(name, step)
  PROVE  OfLatency(r.cause, Labels(name, step, r))
<1>1. (FromGateway(r) \/ FromService(r)) /\ r.took \in {"quick", "slow", "late"}
  BY AnswersAre DEF Reserves, Creates
<1>2. Labels(name, step, r) = Latency!Labels(r)
  BY DEF Labels
<1>3. r.status = 200 <=> r.cause = "served"
  BY <1>1 DEF FromGateway, FromService, Gives
<1> QED
  BY <1>1, <1>2, <1>3 DEF Latency!Labels, OfLatency

OfSoak(kind, cause, labels) ==
    IF kind = Soak!BadRequest THEN labels = {"request"}
    ELSE \E late \in {{}, {"late"}} :
            \/ cause = "limiter" /\ labels = {"request"} \cup {"sampled", "limited"} \cup late
            \/ /\ cause \in {"bulkhead", "fallback", "error"}
               /\ labels = {"request"} \cup {"sampled", "error", "service_error"} \cup late
            \/ cause \in {"served", "refused"} /\ labels = {"request"} \cup {"sampled"} \cup late
            \/ /\ cause \in {"refused", "lost"}
               /\ labels = {"request"} \cup {"sampled", "error", "unexpected"} \cup late

\* scenario6-soak.js.
LEMMA SoakLabels ==
  ASSUME script = "soak", NEW name, NEW step, NEW r \in Answers(name, step)
  PROVE  OfSoak(step, r.cause, Labels(name, step, r))
<1>1. FromGateway(r) \/ FromService(r)
  BY AnswersAre DEF Reserves, Creates
<1> DEFINE late == IF r.took = "late" THEN {"late"} ELSE {}
           class == Soak!Classify(r)
<1>2. /\ late \in {{}, {"late"}}
      /\ Labels(name, step, r) = IF step = Soak!BadRequest THEN {"request"}
                                 ELSE {"request"} \cup class \cup late
  BY DEF Labels, Soak!Labels
<1>3. \/ r.cause = "limiter" /\ class = {"sampled", "limited"}
      \/ r.cause \in {"bulkhead", "fallback", "error"} /\ class = {"sampled", "error", "service_error"}
      \/ r.cause \in {"served", "refused"} /\ class = {"sampled"}
      \/ r.cause \in {"refused", "lost"} /\ class = {"sampled", "error", "unexpected"}
  <2>1. CASE r.status \in {200, 404, 429}
    BY <1>1, <2>1 DEF FromGateway, FromService, Gives, Soak!Classify
  <2>2. CASE r.status \in {500, 502, 503, 504}
    BY <1>1, <2>2 DEF FromGateway, FromService, Gives, Soak!Classify
  <2>3. CASE r.status \in {0, 400, 401, 409}
    BY <1>1, <2>3 DEF FromGateway, FromService, Gives, Soak!Classify
  <2> QED
    BY <1>1, <2>1, <2>2, <2>3 DEF FromGateway, FromService, Gives
<1> HIDE DEF late, class
<1> QED
  BY <1>2, <1>3 DEF OfSoak

OfSeat(phase, cause, labels) ==
    IF phase # "contention" THEN labels = {}
    ELSE \/ cause = "limiter" /\ labels = {"rate_limit"}
         \/ cause = "bulkhead" /\ labels = {"bulkhead"}
         \/ cause \in {"fallback", "error"} /\ labels = {"server_error"}
         \/ cause = "served" /\ labels = {"success"}
         \/ cause = "refused" /\ labels \in {{"conflict"}, {"rate_limit"}, {"other"}}
         \/ cause = "lost" /\ labels = {"other"}

\* scenario8-seat-concurrency.js.
LEMMA SeatLabels ==
  ASSUME script = "seat", NEW name, NEW step, NEW r \in Answers(name, step)
  PROVE  OfSeat(name, r.cause, Labels(name, step, r))
<1>1. OfReservation(r)
  BY AnswersAre DEF Reserves
<1>2. Labels(name, step, r) = IF name = "contention" THEN Seat!ContentionLabels(r) ELSE {}
  BY DEF Labels, Seat!Labels
<1>3. Seat!IsBusy(r) <=> r.cause = "bulkhead"
  BY <1>1, Rejections DEF Seat!IsBusy, Busy, Seat!Busy
<1>4. CASE r.status \in {201, 409, 429}
  BY <1>1, <1>2, <1>3, <1>4 DEF OfReservation, FromGateway, Gives, Seat!ContentionLabels, OfSeat
<1>5. CASE r.status \in {500, 502, 503, 504}
  BY <1>1, <1>2, <1>3, <1>5 DEF OfReservation, FromGateway, Gives, Seat!ContentionLabels, OfSeat
<1>6. CASE r.status \in {0, 400, 401, 404}
  BY <1>1, <1>2, <1>3, <1>6 DEF OfReservation, FromGateway, Gives, Seat!ContentionLabels, OfSeat
<1> QED
  BY <1>1, <1>4, <1>5, <1>6 DEF OfReservation, FromGateway, Gives

Ends(label, labels) == labels \in {{label, "incomplete"}, {label, "incomplete", "server_error"}}

OfJourney(step, cause, labels) ==
    /\ step = Journey!Join =>
           IF cause = "served" THEN labels = {"step_1"} ELSE Ends("stopped_1", labels)
    /\ step \in Journey!Polls => labels \in {{}, {"step_2"}}
    /\ step = Journey!Reserve =>
           IF cause = "served" THEN labels = {"step_3"} ELSE Ends("stopped_3", labels)
    /\ step = Journey!Pay =>
           IF cause = "served" THEN labels = {"step_4", "complete"} ELSE Ends("stopped_4", labels)
    /\ step = Journey!Confirm => labels \in {{"step_5"}, {"stopped_5"}}

\* scenario9-e2e-ticketing-flow.js.
LEMMA JourneyLabels ==
  ASSUME script = "journey", NEW name, NEW step \in Steps, NEW r \in Answers(name, step)
  PROVE  OfJourney(step, r.cause, Labels(name, step, r))
<1>0. /\ Journey!Join = 1 /\ Journey!Polls = 2 .. 6
      /\ Journey!Reserve = 7 /\ Journey!Pay = 8 /\ Journey!Confirm = 9
  BY DEF Journey!Join, Journey!Polls, Journey!Reserve, Journey!Pay, Journey!Confirm, Journey!MaxPolls
<1>1. Labels(name, step, r) = Journey!Labels(step, r)
  BY DEF Labels
<1>2. \A label : Ends(label, Journey!Stopped(label, r))
  BY DEF Ends, Journey!Stopped
<1>3. CASE step \in {Journey!Join, Journey!Pay}
  <2>1. OfCreation(r)
    BY <1>0, <1>3, AnswersAre DEF Reserves, Creates
  <2>2. Journey!Accepted(r) <=> r.cause = "served"
    BY <2>1 DEF OfCreation, FromGateway, FromService, Gives, Journey!Accepted
  <2>3. CASE step = Journey!Join
    BY <1>0, <1>1, <1>2, <2>2, <2>3 DEF Journey!Labels, OfJourney
  <2>4. CASE step = Journey!Pay
    BY <1>0, <1>1, <1>2, <2>2, <2>4 DEF Journey!Labels, OfJourney
  <2> QED
    BY <1>3, <2>3, <2>4
<1>4. CASE step = Journey!Reserve
  <2>1. OfReservation(r)
    BY <1>4, AnswersAre DEF Reserves
  <2>2. r.status = 201 <=> r.cause = "served"
    BY <2>1 DEF OfReservation, FromGateway, Gives
  <2> QED
    BY <1>0, <1>1, <1>2, <1>4, <2>2 DEF Journey!Labels, OfJourney
<1>5. CASE step \in Journey!Polls
  <2>1. Journey!Labels(step, r) = IF Journey!After(step, r) = Journey!Reserve THEN {"step_2"} ELSE {}
    BY <1>0, <1>5 DEF Journey!Labels
  <2>2. Labels(name, step, r) \in {{}, {"step_2"}}
    BY <1>1, <2>1
  <2> QED
    BY <1>0, <1>5, <2>2 DEF OfJourney
<1>6. CASE step = Journey!Confirm
  BY <1>0, <1>1, <1>6 DEF Journey!Labels, OfJourney
<1> QED
  BY <1>0, <1>3, <1>4, <1>5, <1>6 DEF Steps

OfIdempotency(cause, labels) ==
    \E rest \in {{}, {"conflict"}, {"other"}, {"fail"}} :
        \/ cause = "served" /\ labels = {"sampled", "success"}
        \/ cause \in {"bulkhead", "fallback", "error"} /\ labels = {"sampled", "server_error"} \cup rest
        \/ cause \in {"limiter", "refused", "lost"} /\ labels = {"sampled"} \cup rest

\* scenario10-payment-idempotency.js.
LEMMA IdempotencyLabels ==
  ASSUME script = "idempotency", NEW name \in {"concurrent", "retry", "unique"}, NEW step,
         NEW r \in Answers(name, step)
  PROVE  OfIdempotency(r.cause, Labels(name, step, r))
<1>1. OfCreation(r)
  BY AnswersAre DEF Reserves, Creates
<1>2. Idempotency!Success(r) <=> r.cause = "served"
  BY <1>1 DEF OfCreation, FromGateway, FromService, Gives, Idempotency!Success
<1>3. Labels(name, step, r) = Idempotency!Labels(name, r)
  BY DEF Labels
<1>4. CASE r.cause = "served"
  BY <1>1, <1>2, <1>3, <1>4 DEF OfCreation, FromGateway, FromService, Gives, Idempotency!Labels, OfIdempotency
<1>5. CASE r.cause # "served" /\ r.status >= 500
  BY <1>1, <1>2, <1>3, <1>5 DEF OfCreation, FromGateway, FromService, Gives, Idempotency!Labels, OfIdempotency
<1>6. CASE r.cause # "served" /\ ~ (r.status >= 500)
  BY <1>1, <1>2, <1>3, <1>6 DEF OfCreation, FromGateway, FromService, Gives, Idempotency!Labels, OfIdempotency
<1> QED
  BY <1>4, <1>5, <1>6

OfSaga(phase, cause, labels) ==
    IF phase = "recovery" THEN labels = {}
    ELSE \/ cause = "served" /\ labels = {"requested", "complete"}
         \/ cause \in {"bulkhead", "fallback", "error"} /\ labels = {"incomplete", "server_error"}
         \/ cause \in {"limiter", "refused", "lost"} /\ labels = {"incomplete"}

\* scenario11-saga-compensation.js.
LEMMA SagaLabels ==
  ASSUME script = "saga", NEW name \in {"normal", "stress", "recovery"}, NEW step,
         NEW r \in Answers(name, step)
  PROVE  OfSaga(name, r.cause, Labels(name, step, r))
<1>1. Labels(name, step, r) = Saga!Labels(name, r)
  BY DEF Labels
<1>2. CASE name = "recovery"
  BY <1>1, <1>2 DEF Saga!Labels, Saga!Flow, OfSaga
<1>3. CASE name # "recovery"
  <2>1. OfCreation(r)
    BY <1>3, AnswersAre DEF Reserves, Creates
  <2>2. Saga!Success(r) <=> r.cause = "served"
    BY <2>1 DEF OfCreation, FromGateway, FromService, Gives, Saga!Success
  <2> QED
    BY <1>1, <1>3, <2>1, <2>2 DEF OfCreation, FromGateway, FromService, Gives, Saga!Labels, Saga!Flow, OfSaga
<1> QED
  BY <1>2, <1>3

OfResilience(phase, cause, labels) ==
    IF phase = "probe"
    THEN \/ "timeout" \in labels /\ labels \subseteq {"timeout", "timeout_in_format"}
         \/ "fallback" \in labels /\ labels \subseteq {"fallback", "fallback_in_format", "open"}
    ELSE \/ cause \in {"limiter", "served", "refused"} /\ labels = {"normal", "normal_ok"}
         \/ cause \notin {"limiter", "served"} /\ labels = {"normal"}

\* scenario13-gateway-resilience.js.
LEMMA ResilienceLabels ==
  ASSUME script = "resilience", NEW name, NEW step, NEW r \in Answers(name, step)
  PROVE  OfResilience(name, r.cause, Labels(name, step, r))
<1>1. FromGateway(r) \/ FromService(r)
  BY AnswersAre DEF Reserves, Creates
<1>2. Labels(name, step, r) = IF name = "probe" THEN Resilience!ProbeLabels(r) ELSE Resilience!NormalLabels(r)
  BY DEF Labels, Resilience!Labels
<1>3. CASE name = "probe"
  <2>1. r.status \in {200, 502, 503, 504} \/ r.status \notin {200, 502, 503, 504}
    OBVIOUS
  <2> QED
    BY <1>2, <1>3, <2>1 DEF Resilience!ProbeLabels, OfResilience
<1>4. CASE name # "probe"
  BY <1>1, <1>2, <1>4 DEF FromGateway, FromService, Gives, Resilience!NormalLabels, OfResilience
<1> QED
  BY <1>3, <1>4

OfInvariant(cause, labels) ==
    \/ cause = "limiter" /\ labels = {"lock_fail"}
    \/ cause \in {"bulkhead", "fallback"} /\ labels = {"bulkhead"}
    \/ cause = "error" /\ labels = {"server_error"}
    \/ cause = "served" /\ labels = {"success"}
    \/ cause = "refused" /\ labels \in {{"conflict"}, {"lock_fail"}, {"other"}}
    \/ cause = "lost" /\ labels = {"other"}

\* scenario14-seat-consistency.js.
LEMMA InvariantLabels ==
  ASSUME script = "invariant", NEW name, NEW step, NEW r \in Answers(name, step)
  PROVE  OfInvariant(r.cause, Labels(name, step, r))
<1>1. OfReservation(r)
  BY AnswersAre DEF Reserves
<1>2. Labels(name, step, r) = Invariant!Labels(r)
  BY DEF Labels
<1> QED
  BY <1>1, <1>2 DEF OfReservation, FromGateway, Gives, Invariant!Labels, OfInvariant

\* The labels that some script counts.
AllLabels ==
    {"limited", "slow", "allowed"} \cup {"unexpected", "closed", "fallback"}
    \cup {"transition", "pure", "error"} \cup {"rejected", "passed", "success"}
    \cup {"quick", "late", "sampled"} \cup {"request", "service_error", "conflict"}
    \cup {"lock_fail", "rate_limit", "bulkhead"} \cup {"server_error", "other", "fail"}
    \cup {"step_1", "step_2", "step_3"} \cup {"step_4", "step_5", "complete"}
    \cup {"stopped_1", "stopped_3", "stopped_4"} \cup {"stopped_5", "incomplete", "requested"}
    \cup {"fallback_in_format", "timeout_in_format", "timeout"} \cup {"open", "normal", "normal_ok"}

\* There are finitely many.
LEMMA AllLabelsFinite == IsFiniteSet(AllLabels)
BY FewFinite, FS_Union, Zenon DEF AllLabels

NameOf(i) == Phases[i].name

\* The labels of an answer are among them.
LEMMA LabelsKnown ==
  ASSUME script \in AllScripts, NEW i \in DOMAIN Phases, NEW step \in StepsOf,
         NEW r \in Answers(NameOf(i), step)
  PROVE  Labels(NameOf(i), step, r) \in SUBSET AllLabels
<1> DEFINE labels == Labels(NameOf(i), step, r)
<1>1. CASE script = "limiter"
  BY <1>1, LimiterLabels DEF OfLimiter, AllLabels
<1>2. CASE script = "breaker"
  BY <1>2, BreakerLabels DEF OfBreaker, AllLabels
<1>3. CASE script = "bulkhead"
  BY <1>3, BulkheadLabels DEF OfBulkhead, AllLabels
<1>4. CASE script = "latency"
  BY <1>4, LatencyLabels DEF OfLatency, AllLabels
<1>5. CASE script = "soak"
  BY <1>5, SoakLabels DEF OfSoak, AllLabels
<1>6. CASE script = "seat"
  BY <1>6, SeatLabels DEF OfSeat, AllLabels
<1>7. CASE script = "journey"
  <2>1. OfJourney(step, r.cause, labels) /\ step \in Steps
    BY <1>7, JourneyLabels DEF StepsOf
  <2>2. step \in {Journey!Join, Journey!Reserve, Journey!Pay, Journey!Confirm} \cup Journey!Polls
    BY <2>1 DEF Steps, Journey!Join, Journey!Polls, Journey!Reserve, Journey!Pay, Journey!Confirm, Journey!MaxPolls
  <2> HIDE DEF labels
  <2>3. labels \in SUBSET AllLabels
    BY <2>1, <2>2 DEF OfJourney, Ends, AllLabels
  <2> QED
    BY <2>3 DEF labels
<1>8. CASE script = "idempotency"
  <2>1. NameOf(i) \in {"concurrent", "retry", "unique"}
    BY <1>8 DEF NameOf, Phases, Idempotency!Phases, Idempotency!Phase
  <2> QED
    BY <1>8, <2>1, IdempotencyLabels DEF OfIdempotency, AllLabels
<1>9. CASE script = "saga"
  <2>1. NameOf(i) \in {"normal", "stress", "recovery"}
    BY <1>9 DEF NameOf, Phases, Saga!Phases, Saga!Phase
  <2> QED
    BY <1>9, <2>1, SagaLabels DEF OfSaga, AllLabels
<1>10. CASE script = "resilience"
  BY <1>10, ResilienceLabels DEF OfResilience, AllLabels
<1>11. CASE script = "invariant"
  BY <1>11, InvariantLabels DEF OfInvariant, AllLabels
<1> QED
  BY <1>1, <1>2, <1>3, <1>4, <1>5, <1>6, <1>7, <1>8, <1>9, <1>10, <1>11 DEF AllScripts

\* What is counted when an iteration begins.
LEMMA BeginsAre ==
  ASSUME script \in AllScripts, NEW i \in DOMAIN Phases
  PROVE  Begins(NameOf(i)) \in {{}, {"attempt"}}
BY DEF AllScripts, Begins, Journey!Begins, Saga!Begins

\* A VU remembers finitely much.
LEMMA SeenFinite ==
  ASSUME NEW M \in SUBSET Seen
  PROVE  IsFiniteSet(M)
<1>1. IsFiniteSet(Seen)
  BY FewFinite, Zenon DEF Seen
<1> QED
  BY <1>1, FS_Subset

\* The script that runs is known, and iterations are repeated some number of times.
LEMMA Known == LoadOK => script \in AllScripts /\ Repeats[script] \in SUBSET (Nat \ {0})
BY ScriptsAssumption DEF LoadOK

\* What an answer changes.
LEMMA RespondCounts ==
  ASSUME LoadOK, NEW v \in VUs, vu[v].phase # 0,
         NEW r \in Answers(NameOf(vu[v].phase), vu[v].step), Respond(v, r)
  PROVE  LET name == NameOf(vu[v].phase)
             step == vu[v].step
             n    == vu[v].repeats
             L    == Labels(name, step, r)
         IN  /\ Counted(tally') /\ Counted(heard')
             /\ \A phases, labels :
                    /\ Count(tally', phases, labels) >= Count(tally, phases, labels)
                    /\ name \in phases /\ L \cap labels # {} =>
                           Count(tally', phases, labels) >= Count(tally, phases, labels) + n
                    /\ labels \cap Seen = {} /\ (name \notin phases \/ L \cap labels = {}) =>
                           Count(tally', phases, labels) = Count(tally, phases, labels)
             /\ \A phases, labels, x :
                    labels \cap Seen = {} /\ name \in phases /\ L \cap labels = {x} =>
                        Count(tally', phases, labels) = Count(tally, phases, labels) + n
             /\ \A phases, steps, causes :
                    Happened(heard', phases, steps, causes)
                        = Happened(heard, phases, steps, causes)
                          + (IF Matters(name, step) /\ name \in phases /\ step \in steps /\ r.cause \in causes
                             THEN n ELSE 0)
<1> DEFINE name == NameOf(vu[v].phase)
           step == vu[v].step
           n    == vu[v].repeats
           L    == Labels(name, step, r)
           M    == Remember(vu[v].memory, name, r) \ vu[v].memory
           mid  == tally (+) Tallied(name, L, n)
<1>1. /\ vu[v].phase \in DOMAIN Phases /\ step \in StepsOf /\ n \in Nat /\ vu[v].memory \in SUBSET Seen
      /\ Counted(tally) /\ Counted(heard)
  BY DEF LoadOK
<1>2. IsFiniteSet(L)
  BY <1>1, Known, LabelsKnown, AllLabelsFinite, FS_Subset
<1>3. M \in SUBSET Seen /\ IsFiniteSet(M)
  BY <1>1, RememberIs, SeenFinite
<1>4. tally' = mid (+) Tallied(name, M, 1)
  BY DEF Respond, NameOf
<1>5. heard' = IF Matters(name, step) THEN heard (+) Once(name, step, r.cause, n) ELSE heard
  BY DEF Respond, NameOf, Once
<1> HIDE DEF name, step, n, L, M
<1>6. Counted(mid)
  BY <1>1, <1>2, TalliedCounted, PlusCounted
<1>7. Counted(tally')
  BY <1>3, <1>4, <1>6, TalliedCounted, PlusCounted
<1>8. Counted(heard')
  BY <1>1, <1>5, HappenedPlus
<1>9. ASSUME NEW phases, NEW labels, NEW x
      PROVE  /\ Count(tally', phases, labels) >= Count(tally, phases, labels)
             /\ name \in phases /\ L \cap labels # {} =>
                    Count(tally', phases, labels) >= Count(tally, phases, labels) + n
             /\ labels \cap Seen = {} /\ (name \notin phases \/ L \cap labels = {}) =>
                    Count(tally', phases, labels) = Count(tally, phases, labels)
             /\ labels \cap Seen = {} /\ name \in phases /\ L \cap labels = {x} =>
                    Count(tally', phases, labels) = Count(tally, phases, labels) + n
  <2>1. Count(mid, phases, labels) >= Count(tally, phases, labels)
    BY <1>1, <1>2, CountGrows
  <2>2. name \in phases => \A label \in L \cap labels :
            /\ Count(mid, phases, labels) >= Count(tally, phases, labels) + n
            /\ L \cap labels = {label} => Count(mid, phases, labels) = Count(tally, phases, labels) + n
    BY <1>1, <1>2, CountHits
  <2>2a. name \notin phases \/ L \cap labels = {} =>
            Count(mid, phases, labels) = Count(tally, phases, labels)
    BY <1>1, <1>2, CountMisses
  <2> HIDE DEF mid
  <2>2b. Count(tally', phases, labels) >= Count(mid, phases, labels)
    BY <1>3, <1>4, <1>6, CountGrows
  <2>2c. M \cap labels = {} => Count(tally', phases, labels) = Count(mid, phases, labels)
    BY <1>3, <1>4, <1>6, CountMisses
  <2>3. labels \cap Seen = {} => M \cap labels = {}
    BY <1>3
  <2>4. /\ Count(tally, phases, labels) \in Nat /\ Count(mid, phases, labels) \in Nat
        /\ Count(tally', phases, labels) \in Nat
    BY <1>1, <1>6, <1>7, CountNat
  <2> QED
    BY <1>1, <2>1, <2>2, <2>2a, <2>2b, <2>2c, <2>3, <2>4
<1>10. ASSUME NEW phases, NEW steps, NEW causes
       PROVE  Happened(heard', phases, steps, causes)
                  = Happened(heard, phases, steps, causes)
                    + (IF Matters(name, step) /\ name \in phases /\ step \in steps /\ r.cause \in causes
                       THEN n ELSE 0)
  <2>1. Happened(heard, phases, steps, causes) \in Nat
    BY <1>1, HappenedNat
  <2>2. CASE Matters(name, step)
    BY <1>1, <1>5, <2>2, HappenedPlus
  <2>3. CASE ~ Matters(name, step)
    BY <1>5, <2>1, <2>3
  <2> QED
    BY <2>2, <2>3
<1> QED
  BY <1>7, <1>8, <1>9, <1>10 DEF name, step, n, L

\* What the beginning of an iteration changes.
LEMMA BeginCounts ==
  ASSUME LoadOK, NEW v \in VUs, NEW i \in DOMAIN Phases, NEW step \in Starts, NEW n \in Repeats[script],
         Begin(v, i, step, n)
  PROVE  /\ Counted(tally')
         /\ \A phases, labels :
                /\ Count(tally', phases, labels) >= Count(tally, phases, labels)
                /\ NameOf(i) \in phases /\ Begins(NameOf(i)) \cap labels # {} =>
                       Count(tally', phases, labels) >= Count(tally, phases, labels) + n
                /\ "attempt" \notin labels => Count(tally', phases, labels) = Count(tally, phases, labels)
<1> DEFINE B == Begins(NameOf(i))
<1>1. Counted(tally) /\ n \in Nat /\ script \in AllScripts
  BY Known DEF LoadOK
<1>2. B \in {{}, {"attempt"}}
  BY <1>1, BeginsAre
<1>3. tally' = tally (+) Tallied(NameOf(i), B, n)
  BY DEF Begin, NameOf
<1> HIDE DEF B
<1>4. IsFiniteSet(B)
  BY <1>2, FewFinite, FS_EmptySet
<1>5. Counted(tally')
  BY <1>1, <1>3, <1>4, TalliedCounted, PlusCounted
<1>6. ASSUME NEW phases, NEW labels
      PROVE  /\ Count(tally', phases, labels) >= Count(tally, phases, labels)
             /\ NameOf(i) \in phases /\ B \cap labels # {} =>
                    Count(tally', phases, labels) >= Count(tally, phases, labels) + n
             /\ "attempt" \notin labels => Count(tally', phases, labels) = Count(tally, phases, labels)
  <2>1. "attempt" \notin labels => B \cap labels = {}
    BY <1>2
  <2> QED
    BY <1>1, <1>3, <1>4, <2>1, CountGrows, CountHits, CountMisses
<1> QED
  BY <1>5, <1>6 DEF B

\* The shape of the state holds at first, ...
LEMMA LoadTypeInit == LoadInit => LoadOK
<1> SUFFICES ASSUME LoadInit PROVE LoadOK
  OBVIOUS
<1>1. script \in AllScripts
  BY ScriptsAssumption DEF LoadInit
<1>2. 1 \in StepsOf
  BY DEF StepsOf, Soak!Kinds, Soak!WaitingRoom, Steps
<1>3. Counted(EmptyBag)
  <2>1. DOMAIN EmptyBag = {}
    BY DEF EmptyBag, SetToBag
  <2> QED
    BY <2>1, FS_EmptySet DEF Counted
<1>4. vu \in [VUs -> [phase : DOMAIN Phases \cup {0}, step : StepsOf, repeats : Nat \ {0}, memory : SUBSET Seen]]
  BY <1>2 DEF LoadInit, Idle
<1> QED
  BY <1>3, <1>4 DEF LoadInit, LoadOK

\* ... iterations start at a step, ...
LEMMA StartsAre == Starts \subseteq StepsOf
BY DEF Starts, StepsOf, Steps

\* ... and every step of the test keeps it.
LEMMA LoadTypeStep == LoadOK /\ [LoadNext]_loadVars => LoadOK'
<1> SUFFICES ASSUME LoadOK, [LoadNext]_loadVars PROVE LoadOK'
  OBVIOUS
<1> DEFINE Vu == [phase : DOMAIN Phases \cup {0}, step : StepsOf, repeats : Nat \ {0}, memory : SUBSET Seen]
<1>1. script' = script
  BY DEF LoadNext, loadVars, Setup, NextGroup, End, Begin, Respond, Interrupt
<1>2. Vu' = Vu
  BY <1>1, ScriptStays
<1>3. script \in AllScripts /\ Repeats[script] \in SUBSET (Nat \ {0}) /\ 1 \in StepsOf
  BY Known DEF StepsOf, Soak!Kinds, Soak!WaitingRoom, Steps
<1>4. vu \in [VUs -> Vu] /\ Counted(tally) /\ Counted(heard) /\ script \in Scripts
  BY DEF LoadOK
<1> SUFFICES vu' \in [VUs -> Vu] /\ Counted(tally') /\ Counted(heard')
  BY <1>1, <1>2, <1>4 DEF LoadOK
<1> HIDE DEF Vu
<1>5. CASE Setup \/ NextGroup \/ End \/ UNCHANGED loadVars
  BY <1>4, <1>5 DEF Setup, NextGroup, End, loadVars
<1>6. ASSUME NEW v \in VUs, NEW i \in DOMAIN Phases, NEW step \in Starts, NEW n \in Repeats[script],
             Begin(v, i, step, n)
      PROVE  vu' \in [VUs -> Vu] /\ Counted(tally') /\ Counted(heard')
  <2>1. Counted(tally') /\ heard' = heard
    BY <1>6, BeginCounts DEF Begin
  <2>2. [phase |-> i, step |-> step, repeats |-> n, memory |-> vu[v].memory] \in Vu
    BY <1>3, <1>4, StartsAre DEF Vu
  <2>3. vu' \in [VUs -> Vu]
    BY <1>4, <1>6, <2>2 DEF Begin
  <2> QED
    BY <1>4, <2>1, <2>3
<1>7. ASSUME NEW v \in VUs, vu[v].phase # 0, NEW r \in Answers(NameOf(vu[v].phase), vu[v].step), Respond(v, r)
      PROVE  vu' \in [VUs -> Vu] /\ Counted(tally') /\ Counted(heard')
  <2> DEFINE memory == Remember(vu[v].memory, NameOf(vu[v].phase), r)
             next   == After(NameOf(vu[v].phase), vu[v].step, r)
  <2>1. Counted(tally') /\ Counted(heard')
    BY <1>7, RespondCounts
  <2>2. vu[v] \in Vu
    BY <1>4
  <2>3. memory \in SUBSET Seen
    BY <2>2, RememberIs DEF Vu
  <2>4. next \in StepsOf \cup {0}
    BY <1>3, <2>2, AfterIs DEF Vu
  <2>5. vu' = [vu EXCEPT ![v] = IF next = 0 THEN [Idle EXCEPT !.memory = memory]
                                ELSE [vu[v] EXCEPT !.step = next, !.memory = memory]]
    BY <1>4, <1>7 DEF Respond, NameOf
  <2> HIDE DEF memory, next
  <2>6. [Idle EXCEPT !.memory = memory] \in Vu
    BY <1>3, <2>3 DEF Idle, Vu
  <2>7. next # 0 => [vu[v] EXCEPT !.step = next, !.memory = memory] \in Vu
    BY <2>2, <2>3, <2>4 DEF Vu
  <2> QED
    BY <1>4, <2>1, <2>5, <2>6, <2>7
<1>8. ASSUME NEW v \in VUs, Interrupt(v)
      PROVE  vu' \in [VUs -> Vu] /\ Counted(tally') /\ Counted(heard')
  <2>1. [Idle EXCEPT !.memory = vu[v].memory] \in Vu
    BY <1>3, <1>4 DEF Idle, Vu
  <2> QED
    BY <1>4, <1>8, <2>1 DEF Interrupt
<1> QED
  BY <1>5, <1>6, <1>7, <1>8 DEF LoadNext, NameOf

-----------------------------------------------------------------------------
(* What is counted and what happened.                                      *)

\* Every answer of these phases, steps and causes has one of the labels, ...
Covers(cp, labels, hp, steps, causes) ==
    \A i \in DOMAIN Phases, step \in StepsOf : \A r \in Answers(NameOf(i), step) :
        NameOf(i) \in hp /\ step \in steps /\ r.cause \in causes =>
            NameOf(i) \in cp /\ \E x \in labels : x \in Labels(NameOf(i), step, r)

\* ... and no other one has, nor any answer two of them.
Selects(cp, labels, hp, steps, causes) ==
    /\ labels \cap (Seen \cup {"attempt"}) = {}
    /\ \A i \in DOMAIN Phases, step \in StepsOf : \A r \in Answers(NameOf(i), step) :
           \A x \in labels : NameOf(i) \in cp /\ x \in Labels(NameOf(i), step, r) =>
               /\ NameOf(i) \in hp /\ step \in steps /\ r.cause \in causes /\ Matters(NameOf(i), step)
               /\ \A y \in labels : y \in Labels(NameOf(i), step, r) => y = x

AtLeast == \A cp, labels, hp, steps, causes :
    Covers(cp, labels, hp, steps, causes) =>
        Count(tally, cp, labels) >= Happened(heard, hp, steps, causes)

AtMost == \A cp, labels, hp, steps, causes :
    Selects(cp, labels, hp, steps, causes) =>
        Count(tally, cp, labels) <= Happened(heard, hp, steps, causes)

\* Whether labels fit answers depends on the script alone.
LEMMA FitsStay ==
  ASSUME script' = script, NEW cp, NEW labels, NEW hp, NEW steps, NEW causes
  PROVE  /\ Covers(cp, labels, hp, steps, causes)' => Covers(cp, labels, hp, steps, causes)
         /\ Selects(cp, labels, hp, steps, causes)' => Selects(cp, labels, hp, steps, causes)
<1>1. Phases' = Phases /\ StepsOf' = StepsOf
  BY ScriptStays
<1>2. \A p, s, r : Labels(p, s, r)' = Labels(p, s, r)
  BY ScriptStays
<1>3. \A p, s : Answers(p, s)' = Answers(p, s)
  BY ScriptStays
<1>4. \A p, s : Matters(p, s)' = Matters(p, s)
  BY ScriptStays
<1>5. ASSUME Covers(cp, labels, hp, steps, causes)' PROVE Covers(cp, labels, hp, steps, causes)
  BY <1>1, <1>2, <1>3, <1>5 DEF Covers, NameOf
<1>6. ASSUME Selects(cp, labels, hp, steps, causes)' PROVE Selects(cp, labels, hp, steps, causes)
  BY <1>1, <1>2, <1>3, <1>4, <1>6 DEF Selects, NameOf
<1> QED
  BY <1>5, <1>6

\* No label that covers some answers counts fewer of them than there were, and none
\* that selects some counts more: at first, and after every step.
LEMMA Agreement ==
  /\ LoadInit => AtLeast /\ AtMost
  /\ LoadOK /\ AtLeast /\ AtMost /\ [LoadNext]_loadVars => (AtLeast /\ AtMost)'
<1>1. ASSUME LoadInit PROVE AtLeast /\ AtMost
  <2>1. DOMAIN EmptyBag = {}
    BY DEF EmptyBag, SetToBag
  <2>2. \A cp, labels : Count(tally, cp, labels) = 0
    <3>1. ASSUME NEW cp, NEW labels PROVE Count(tally, cp, labels) = 0
      <4>1. {entry \in DOMAIN tally : entry[1] \in cp /\ entry[2] \in labels} = {}
        BY <1>1, <2>1 DEF LoadInit
      <4> QED
        BY <4>1, SumEmpty DEF Count
    <3> QED
      BY <3>1
  <2>3. \A hp, steps, causes : Happened(heard, hp, steps, causes) = 0
    <3>1. ASSUME NEW hp, NEW steps, NEW causes PROVE Happened(heard, hp, steps, causes) = 0
      <4>1. {entry \in DOMAIN heard : entry[1] \in hp /\ entry[2] \in steps /\ entry[3] \in causes} = {}
        BY <1>1, <2>1 DEF LoadInit
      <4> QED
        BY <4>1, SumEmpty DEF Happened
    <3> QED
      BY <3>1
  <2> QED
    BY <2>2, <2>3 DEF AtLeast, AtMost
<1>2. ASSUME LoadOK, AtLeast, AtMost, [LoadNext]_loadVars PROVE (AtLeast /\ AtMost)'
  <2> SUFFICES ASSUME NEW cp, NEW labels, NEW hp, NEW steps, NEW causes
               PROVE  /\ Covers(cp, labels, hp, steps, causes)' =>
                             Count(tally', cp, labels) >= Happened(heard', hp, steps, causes)
                      /\ Selects(cp, labels, hp, steps, causes)' =>
                             Count(tally', cp, labels) <= Happened(heard', hp, steps, causes)
    BY DEF AtLeast, AtMost
  <2>1. script' = script
    BY <1>2 DEF LoadNext, loadVars, Setup, NextGroup, End, Begin, Respond, Interrupt
  <2> DEFINE covers  == Covers(cp, labels, hp, steps, causes)
             selects == Selects(cp, labels, hp, steps, causes)
             new  == Count(tally', cp, labels)
             old  == Count(tally, cp, labels)
             now  == Happened(heard', hp, steps, causes)
             then == Happened(heard, hp, steps, causes)
  <2>2. (covers' => covers) /\ (selects' => selects)
    BY <2>1, FitsStay
  <2>3. (covers => old >= then) /\ (selects => old <= then)
    BY <1>2 DEF AtLeast, AtMost
  <2>4. old \in Nat /\ then \in Nat
    BY <1>2, CountNat, HappenedNat DEF LoadOK
  <2> SUFFICES (covers => new >= now) /\ (selects => new <= now)
    BY <2>2
  <2>5. CASE tally' = tally /\ heard' = heard
    BY <2>3, <2>5
  <2>6. ASSUME NEW v \in VUs, NEW i \in DOMAIN Phases, NEW step \in Starts, NEW n \in Repeats[script],
               Begin(v, i, step, n)
        PROVE  (covers => new >= now) /\ (selects => new <= now)
    <3>1. now = then
      BY <2>6 DEF Begin
    <3>2. new >= old /\ ("attempt" \notin labels => new = old) /\ Counted(tally')
      BY <1>2, <2>6, BeginCounts
    <3>3. selects => "attempt" \notin labels
      BY DEF Selects
    <3>4. new \in Nat
      BY <3>2, CountNat
    <3> HIDE DEF covers, selects, new, old, now, then
    <3> QED
      BY <2>3, <2>4, <3>1, <3>2, <3>3, <3>4
  <2>7. ASSUME NEW v \in VUs, vu[v].phase # 0, NEW r \in Answers(NameOf(vu[v].phase), vu[v].step), Respond(v, r)
        PROVE  (covers => new >= now) /\ (selects => new <= now)
    <3> DEFINE i == vu[v].phase
               name == NameOf(i)
               step == vu[v].step
               n == vu[v].repeats
               L == Labels(name, step, r)
               happens == name \in hp /\ step \in steps /\ r.cause \in causes
    <3>1. i \in DOMAIN Phases /\ step \in StepsOf /\ n \in Nat
      BY <1>2, <2>7 DEF LoadOK
    <3>2. now = then + (IF Matters(name, step) /\ happens THEN n ELSE 0)
      BY <1>2, <2>7, RespondCounts
    <3>3. new >= old /\ (name \in cp /\ L \cap labels # {} => new >= old + n)
      BY <1>2, <2>7, RespondCounts
    <3>4. labels \cap Seen = {} /\ (name \notin cp \/ L \cap labels = {}) => new = old
      BY <1>2, <2>7, RespondCounts
    <3>5. ASSUME labels \cap Seen = {}, name \in cp, NEW x, L \cap labels = {x} PROVE new = old + n
      <4>1. LET name_ == NameOf(vu[v].phase)
                L_ == Labels(name_, vu[v].step, r)
            IN  \A phases_, labels_, x_ :
                    labels_ \cap Seen = {} /\ name_ \in phases_ /\ L_ \cap labels_ = {x_} =>
                        Count(tally', phases_, labels_) = Count(tally, phases_, labels_) + vu[v].repeats
        BY <1>2, <2>7, RespondCounts
      <4> QED
        BY <3>5, <4>1, Zenon
    <3>6. Counted(tally') /\ Counted(heard')
      BY <1>2, <2>7, RespondCounts
    <3>7. new \in Nat /\ now \in Nat
      BY <3>6, CountNat, HappenedNat
    <3>8. covers /\ happens => name \in cp /\ L \cap labels # {}
      BY <2>7, <3>1 DEF Covers
    <3>9. ASSUME selects
          PROVE  /\ labels \cap Seen = {}
                 /\ name \in cp => \A x \in L \cap labels :
                        happens /\ Matters(name, step) /\ L \cap labels = {x}
      <4>1. /\ labels \cap Seen = {}
            /\ \A x \in labels : name \in cp /\ x \in L =>
                   happens /\ Matters(name, step) /\ \A y \in labels : y \in L => y = x
        BY <2>7, <3>1, <3>9 DEF Selects
      <4> HIDE DEF L, happens, name, step
      <4> QED
        BY <4>1
    <3> HIDE DEF covers, selects, new, old, now, then, name, step, n, L, happens, i
    <3>10. ASSUME covers PROVE new >= now
      BY <2>3, <2>4, <3>1, <3>2, <3>3, <3>7, <3>8, <3>10
    <3>11. ASSUME selects PROVE new <= now
      <4>1. CASE name \notin cp \/ L \cap labels = {}
        BY <2>3, <2>4, <3>1, <3>2, <3>4, <3>7, <3>9, <3>11, <4>1
      <4>2. CASE name \in cp /\ L \cap labels # {}
        <5>0. PICK x \in L \cap labels : TRUE
          BY <4>2
        <5>1. new = old + n
          BY <3>5, <3>9, <3>11, <4>2, <5>0
        <5>2. now = then + n
          BY <3>2, <3>9, <3>11, <4>2, <5>0
        <5> QED
          BY <2>3, <2>4, <3>1, <3>11, <5>1, <5>2
      <4> QED
        BY <4>1, <4>2
    <3> QED
      BY <3>10, <3>11
  <2>8. \/ tally' = tally /\ heard' = heard
        \/ \E v \in VUs : \E i \in DOMAIN Phases, step \in Starts, n \in Repeats[script] : Begin(v, i, step, n)
        \/ \E v \in VUs : vu[v].phase # 0 /\ \E r \in Answers(NameOf(vu[v].phase), vu[v].step) : Respond(v, r)
    BY <1>2 DEF LoadNext, loadVars, Setup, NextGroup, End, Interrupt, NameOf
  <2> HIDE DEF covers, selects, new, old, now, then
  <2> QED
    BY <2>5, <2>6, <2>7, <2>8
<1> QED
  BY <1>1, <1>2

-----------------------------------------------------------------------------
(* What the labels of the scripts stand for.                               *)

\* Every answer has a cause.
LEMMA CauseIs ==
  ASSUME NEW name, NEW step, NEW r \in Answers(name, step)
  PROVE  r.cause \in Causes
<1>1. OfReservation(r) \/ OfCreation(r) \/ FromGateway(r) \/ FromService(r)
  BY AnswersAre
<1> QED
  BY <1>1 DEF OfReservation, OfCreation, FromGateway, FromService, Gives, Causes

\* Every step is one of the steps.
LEMMA StepIs == StepsOf \subseteq Steps
BY DEF StepsOf, Steps, Soak!Kinds, Soak!WaitingRoom, Soak!Concert, Soak!Payment, Soak!BadRequest

Agrees == LoadOK /\ AtLeast /\ AtMost

\* Labels that cover and select some answers count them.
Fits(cp, labels, hp, steps, causes) ==
    Covers(cp, labels, hp, steps, causes) /\ Selects(cp, labels, hp, steps, causes)

\* What fits is counted exactly.
LEMMA Exact ==
  ASSUME Agrees, NEW cp, NEW labels, NEW hp, NEW steps, NEW causes, Fits(cp, labels, hp, steps, causes)
  PROVE  Count(tally, cp, labels) = Happened(heard, hp, steps, causes)
<1>1. /\ Count(tally, cp, labels) >= Happened(heard, hp, steps, causes)
      /\ Count(tally, cp, labels) <= Happened(heard, hp, steps, causes)
  BY DEF Agrees, AtLeast, AtMost, Fits
<1>2. Count(tally, cp, labels) \in Nat /\ Happened(heard, hp, steps, causes) \in Nat
  BY CountNat, HappenedNat DEF Agrees, LoadOK
<1> QED
  BY <1>1, <1>2

\* What the labels of each script stand for, in the order of the scenarios.
LEMMA LimiterFits ==
  ASSUME script = "limiter", NEW cp
  PROVE  Fits(cp, {"limited"}, cp, Steps, {"limiter"}) /\ Fits(cp, Limiter!Classes, cp, Steps, Causes)
<1>1. \A i \in DOMAIN Phases, step \in StepsOf : \A r \in Answers(NameOf(i), step) :
          /\ OfLimiter(r.cause, Labels(NameOf(i), step, r))
          /\ r.cause \in Causes /\ step \in Steps /\ Matters(NameOf(i), step)
  BY LimiterLabels, CauseIs, StepIs DEF Matters
<1>2. \A cause, labels : OfLimiter(cause, labels) =>
          /\ "limited" \in labels <=> cause = "limiter"
          /\ \E x \in Limiter!Classes : x \in labels
          /\ \A x, y \in Limiter!Classes : x \in labels /\ y \in labels => x = y
  BY DEF OfLimiter, Limiter!Classes
<1>3. {"limited"} \cap (Seen \cup {"attempt"}) = {} /\ Limiter!Classes \cap (Seen \cup {"attempt"}) = {}
  BY DEF Seen, Limiter!Classes
<1> QED
  BY <1>1, <1>2, <1>3 DEF Fits, Covers, Selects

LEMMA BreakerFits ==
  ASSUME script = "breaker", NEW cp
  PROVE  Fits(cp, {"fallback"}, cp, Steps, {"fallback"}) /\ Fits(cp, Breaker!Classes, cp, Steps, Causes)
<1>1. \A i \in DOMAIN Phases, step \in StepsOf : \A r \in Answers(NameOf(i), step) :
          /\ OfBreaker(r.cause, Labels(NameOf(i), step, r))
          /\ r.cause \in Causes /\ step \in Steps /\ Matters(NameOf(i), step)
  BY BreakerLabels, CauseIs, StepIs DEF Matters
<1>2. \A cause, labels : OfBreaker(cause, labels) =>
          /\ "fallback" \in labels <=> cause = "fallback"
          /\ \E x \in Breaker!Classes : x \in labels
          /\ \A x, y \in Breaker!Classes : x \in labels /\ y \in labels => x = y
  BY DEF OfBreaker, Breaker!Classes
<1>3. {"fallback"} \cap (Seen \cup {"attempt"}) = {} /\ Breaker!Classes \cap (Seen \cup {"attempt"}) = {}
  BY DEF Seen, Breaker!Classes
<1> QED
  BY <1>1, <1>2, <1>3 DEF Fits, Covers, Selects

LEMMA BulkheadFits ==
  ASSUME script = "bulkhead", NEW cp
  PROVE  /\ Fits(cp, {"rejected"}, cp, Steps, {"bulkhead"}) /\ Fits(cp, {"fallback"}, cp, Steps, {"fallback"})
         /\ Fits(cp, Bulkhead!Classes, cp, Steps, Causes)
<1>1. \A i \in DOMAIN Phases, step \in StepsOf : \A r \in Answers(NameOf(i), step) :
          /\ OfBulkhead(r.cause, Labels(NameOf(i), step, r))
          /\ r.cause \in Causes /\ step \in Steps /\ Matters(NameOf(i), step)
  BY BulkheadLabels, CauseIs, StepIs DEF Matters
<1>2. \A cause, labels : OfBulkhead(cause, labels) =>
          /\ "rejected" \in labels <=> cause = "bulkhead"
          /\ "fallback" \in labels <=> cause = "fallback"
          /\ \E x \in Bulkhead!Classes : x \in labels
          /\ \A x, y \in Bulkhead!Classes : x \in labels /\ y \in labels => x = y
  BY DEF OfBulkhead, Bulkhead!Classes
<1>3. /\ {"rejected"} \cap (Seen \cup {"attempt"}) = {} /\ {"fallback"} \cap (Seen \cup {"attempt"}) = {}
      /\ Bulkhead!Classes \cap (Seen \cup {"attempt"}) = {}
  BY DEF Seen, Bulkhead!Classes
<1> QED
  BY <1>1, <1>2, <1>3 DEF Fits, Covers, Selects

LEMMA LatencyFits ==
  ASSUME script = "latency", NEW cp
  PROVE  /\ Fits(cp, {"success"}, cp, Steps, {"served"})
         /\ Fits(cp, {"success", "error"}, cp, Steps, Causes)
<1>1. \A i \in DOMAIN Phases, step \in StepsOf : \A r \in Answers(NameOf(i), step) :
          /\ OfLatency(r.cause, Labels(NameOf(i), step, r))
          /\ r.cause \in Causes /\ step \in Steps /\ Matters(NameOf(i), step)
  BY LatencyLabels, CauseIs, StepIs DEF Matters
<1>2. \A cause, labels : OfLatency(cause, labels) =>
          /\ "success" \in labels <=> cause = "served"
          /\ \E x \in {"success", "error"} : x \in labels
          /\ \A x, y \in {"success", "error"} : x \in labels /\ y \in labels => x = y
  BY DEF OfLatency
<1>3. {"success"} \cap (Seen \cup {"attempt"}) = {} /\ {"success", "error"} \cap (Seen \cup {"attempt"}) = {}
  BY DEF Seen
<1> QED
  BY <1>1, <1>2, <1>3 DEF Fits, Covers, Selects

LEMMA SoakFits ==
  ASSUME script = "soak"
  PROVE  LET right == Soak!Kinds \ {Soak!BadRequest} IN
         /\ Fits({"soak"}, {"limited"}, {"soak"}, right, {"limiter"})
         /\ Fits({"soak"}, {"service_error"}, {"soak"}, right, {"bulkhead", "fallback", "error"})
         /\ Fits({"soak"}, {"sampled"}, {"soak"}, right, Causes)
         /\ Covers({"soak"}, {"error"}, {"soak"}, right, {"bulkhead", "fallback", "error", "lost"})
<1> DEFINE right == Soak!Kinds \ {Soak!BadRequest}
<1>1. \A i \in DOMAIN Phases, step \in StepsOf : \A r \in Answers(NameOf(i), step) :
          /\ OfSoak(step, r.cause, Labels(NameOf(i), step, r)) /\ NameOf(i) = "soak"
          /\ r.cause \in Causes /\ step \in Soak!Kinds /\ Matters(NameOf(i), step)
  BY SoakLabels, CauseIs DEF Matters, StepsOf, NameOf, Phases, Soak!Phases, Soak!Phase
<1>2. \A step \in Soak!Kinds : \A cause, labels : OfSoak(step, cause, labels) =>
          /\ "limited" \in labels <=> step \in right /\ cause = "limiter"
          /\ "service_error" \in labels <=> step \in right /\ cause \in {"bulkhead", "fallback", "error"}
          /\ "sampled" \in labels <=> step \in right
          /\ step \in right /\ cause \in {"bulkhead", "fallback", "error", "lost"} => "error" \in labels
  BY DEF OfSoak
<1>3. /\ {"limited"} \cap (Seen \cup {"attempt"}) = {} /\ {"service_error"} \cap (Seen \cup {"attempt"}) = {}
      /\ {"sampled"} \cap (Seen \cup {"attempt"}) = {}
  BY DEF Seen
<1> HIDE DEF right
<1>4. /\ Fits({"soak"}, {"limited"}, {"soak"}, right, {"limiter"})
      /\ Fits({"soak"}, {"service_error"}, {"soak"}, right, {"bulkhead", "fallback", "error"})
      /\ Fits({"soak"}, {"sampled"}, {"soak"}, right, Causes)
      /\ Covers({"soak"}, {"error"}, {"soak"}, right, {"bulkhead", "fallback", "error", "lost"})
  BY <1>1, <1>2, <1>3 DEF Fits, Covers, Selects
<1> QED
  BY <1>4 DEF right

LEMMA SeatFits ==
  ASSUME script = "seat"
  PROVE  /\ Fits({"contention"}, {"bulkhead"}, {"contention"}, Steps, {"bulkhead"})
         /\ Fits({"contention"}, {"server_error"}, {"contention"}, Steps, {"fallback", "error"})
         /\ Fits({"contention"}, {"success"}, {"contention"}, Steps, {"served"})
         /\ Fits({"contention"}, Seat!Classes, {"contention"}, Steps, Causes)
<1>1. \A i \in DOMAIN Phases, step \in StepsOf : \A r \in Answers(NameOf(i), step) :
          /\ OfSeat(NameOf(i), r.cause, Labels(NameOf(i), step, r))
          /\ r.cause \in Causes /\ step \in Steps /\ Matters(NameOf(i), step)
  BY SeatLabels, CauseIs, StepIs DEF Matters
<1>2. \A cause, labels : OfSeat("contention", cause, labels) =>
          /\ "bulkhead" \in labels <=> cause = "bulkhead"
          /\ "server_error" \in labels <=> cause \in {"fallback", "error"}
          /\ "success" \in labels <=> cause = "served"
          /\ \E x \in Seat!Classes : x \in labels
          /\ \A x, y \in Seat!Classes : x \in labels /\ y \in labels => x = y
  BY DEF OfSeat, Seat!Classes
<1>3. \A labels \in {{"bulkhead"}, {"server_error"}, {"success"}, Seat!Classes} :
          labels \cap (Seen \cup {"attempt"}) = {}
  BY DEF Seen, Seat!Classes
<1> QED
  BY <1>1, <1>2, <1>3 DEF Fits, Covers, Selects

LEMMA IdempotencyFits ==
  ASSUME script = "idempotency", NEW cp
  PROVE  /\ Fits(cp, {"success"}, cp, Steps, {"served"})
         /\ Fits(cp, {"server_error"}, cp, Steps, {"bulkhead", "fallback", "error"})
         /\ Fits(cp, {"sampled"}, cp, Steps, Causes)
<1>0. \A i \in DOMAIN Phases : NameOf(i) \in {"concurrent", "retry", "unique"}
  BY DEF NameOf, Phases, Idempotency!Phases, Idempotency!Phase
<1>1. \A i \in DOMAIN Phases, step \in StepsOf : \A r \in Answers(NameOf(i), step) :
          /\ OfIdempotency(r.cause, Labels(NameOf(i), step, r))
          /\ r.cause \in Causes /\ step \in Steps /\ Matters(NameOf(i), step)
  BY <1>0, IdempotencyLabels, CauseIs, StepIs DEF Matters
<1>2. \A cause, labels : OfIdempotency(cause, labels) =>
          /\ "success" \in labels <=> cause = "served"
          /\ "server_error" \in labels <=> cause \in {"bulkhead", "fallback", "error"}
          /\ "sampled" \in labels
  BY DEF OfIdempotency
<1>3. \A labels \in {{"server_error"}, {"success"}, {"sampled"}} : labels \cap (Seen \cup {"attempt"}) = {}
  BY DEF Seen
<1> QED
  BY <1>1, <1>2, <1>3 DEF Fits, Covers, Selects

LEMMA SagaFits ==
  ASSUME script = "saga"
  PROVE  /\ Fits(Saga!Flow, {"complete"}, Saga!Flow, Steps, {"served"})
         /\ Fits(Saga!Flow, {"server_error"}, Saga!Flow, Steps, {"bulkhead", "fallback", "error"})
         /\ Fits(Saga!Flow, {"complete", "incomplete"}, Saga!Flow, Steps, Causes)
<1>0. \A i \in DOMAIN Phases : NameOf(i) \in {"normal", "stress", "recovery"}
  BY DEF NameOf, Phases, Saga!Phases, Saga!Phase
<1>1. \A i \in DOMAIN Phases, step \in StepsOf : \A r \in Answers(NameOf(i), step) :
          /\ OfSaga(NameOf(i), r.cause, Labels(NameOf(i), step, r))
          /\ r.cause \in Causes /\ step \in Steps /\ (NameOf(i) \in Saga!Flow => Matters(NameOf(i), step))
  BY <1>0, SagaLabels, CauseIs, StepIs DEF Matters, Saga!Flow
<1>2. \A name \in Saga!Flow : \A cause, labels : OfSaga(name, cause, labels) =>
          /\ "complete" \in labels <=> cause = "served"
          /\ "server_error" \in labels <=> cause \in {"bulkhead", "fallback", "error"}
          /\ "complete" \in labels \/ "incomplete" \in labels
          /\ ~ ("complete" \in labels /\ "incomplete" \in labels)
  BY DEF OfSaga, Saga!Flow
<1>3. \A labels \in {{"server_error"}, {"complete"}, {"complete", "incomplete"}} :
          labels \cap (Seen \cup {"attempt"}) = {}
  BY DEF Seen
<1> QED
  BY <1>1, <1>2, <1>3 DEF Fits, Covers, Selects

LEMMA ResilienceFits ==
  ASSUME script = "resilience"
  PROVE  /\ Fits({"probe", "normal"}, {"normal"}, {"normal"}, Steps, Causes)
         /\ Selects({"probe", "normal"}, {"normal_ok"}, {"normal"}, Steps, {"limiter", "served", "refused"})
         /\ Fits({"probe", "normal"}, {"timeout", "fallback"}, {"probe"}, Steps, Causes)
<1>0. \A i \in DOMAIN Phases : NameOf(i) \in {"probe", "normal"}
  BY DEF NameOf, Phases, Resilience!Phases, Resilience!Phase
<1>1. \A i \in DOMAIN Phases, step \in StepsOf : \A r \in Answers(NameOf(i), step) :
          /\ OfResilience(NameOf(i), r.cause, Labels(NameOf(i), step, r))
          /\ r.cause \in Causes /\ step \in Steps /\ Matters(NameOf(i), step)
  BY ResilienceLabels, CauseIs, StepIs DEF Matters
<1>2. \A name \in {"probe", "normal"} : \A cause, labels : OfResilience(name, cause, labels) =>
          /\ "normal" \in labels <=> name = "normal"
          /\ "normal_ok" \in labels => name = "normal" /\ cause \in {"limiter", "served", "refused"}
          /\ ("timeout" \in labels \/ "fallback" \in labels) <=> name = "probe"
          /\ ~ ("timeout" \in labels /\ "fallback" \in labels)
  BY DEF OfResilience
<1>3. \A labels \in {{"normal"}, {"normal_ok"}, {"timeout", "fallback"}} :
          labels \cap (Seen \cup {"attempt"}) = {}
  BY DEF Seen
<1> QED
  BY <1>0, <1>1, <1>2, <1>3 DEF Fits, Covers, Selects

LEMMA InvariantFits ==
  ASSUME script = "invariant"
  PROVE  /\ Fits({"contention"}, {"bulkhead"}, {"contention"}, Steps, {"bulkhead", "fallback"})
         /\ Fits({"contention"}, {"server_error"}, {"contention"}, Steps, {"error"})
         /\ Fits({"contention"}, {"success"}, {"contention"}, Steps, {"served"})
<1>1. \A i \in DOMAIN Phases, step \in StepsOf : \A r \in Answers(NameOf(i), step) :
          /\ OfInvariant(r.cause, Labels(NameOf(i), step, r))
          /\ r.cause \in Causes /\ step \in Steps /\ Matters(NameOf(i), step)
  BY InvariantLabels, CauseIs, StepIs DEF Matters
<1>2. \A cause, labels : OfInvariant(cause, labels) =>
          /\ "bulkhead" \in labels <=> cause \in {"bulkhead", "fallback"}
          /\ "server_error" \in labels <=> cause = "error"
          /\ "success" \in labels <=> cause = "served"
  BY DEF OfInvariant
<1>3. \A labels \in {{"bulkhead"}, {"server_error"}, {"success"}} : labels \cap (Seen \cup {"attempt"}) = {}
  BY DEF Seen
<1> QED
  BY <1>1, <1>2, <1>3 DEF Fits, Covers, Selects

\* The steps of a journey.
LEMMA JourneySteps ==
  /\ Journey!Join = 1 /\ Journey!Polls = 2 .. 6
  /\ Journey!Reserve = 7 /\ Journey!Pay = 8 /\ Journey!Confirm = 9
BY DEF Journey!Join, Journey!Polls, Journey!Reserve, Journey!Pay, Journey!Confirm, Journey!MaxPolls

LEMMA JourneyFits ==
  ASSUME script = "journey"
  PROVE  /\ Fits({"journey"}, {"step_4"}, {"journey"}, {Journey!Pay}, {"served"})
         /\ Fits({"journey"}, {"complete"}, {"journey"}, {Journey!Pay}, {"served"})
         /\ Fits({"journey"}, {"incomplete"}, {"journey"}, {Journey!Join, Journey!Reserve, Journey!Pay},
                 Causes \ {"served"})
<1>1. \A i \in DOMAIN Phases, step \in StepsOf : \A r \in Answers(NameOf(i), step) :
          /\ OfJourney(step, r.cause, Labels(NameOf(i), step, r))
          /\ NameOf(i) = "journey" /\ r.cause \in Causes /\ step \in 1 .. 9
  BY JourneyLabels, CauseIs, StepIs DEF StepsOf, Steps, NameOf, Phases, Journey!Phases, Journey!Phase
<1>2. \A step \in 1 .. 9 : \A cause, labels : OfJourney(step, cause, labels) =>
          /\ "step_4" \in labels <=> step = 8 /\ cause = "served"
          /\ "complete" \in labels <=> step = 8 /\ cause = "served"
          /\ "incomplete" \in labels <=> step \in {1, 7, 8} /\ cause # "served"
  <2>1. SUFFICES ASSUME NEW step \in 1 .. 9, NEW cause, NEW labels, OfJourney(step, cause, labels)
                 PROVE  /\ "step_4" \in labels <=> step = 8 /\ cause = "served"
                        /\ "complete" \in labels <=> step = 8 /\ cause = "served"
                        /\ "incomplete" \in labels <=> step \in {1, 7, 8} /\ cause # "served"
    OBVIOUS
  <2>2. CASE step = 1
    BY <2>1, <2>2, JourneySteps DEF OfJourney, Ends
  <2>3. CASE step \in 2 .. 6
    BY <2>1, <2>3, JourneySteps DEF OfJourney, Ends
  <2>4. CASE step = 7
    BY <2>1, <2>4, JourneySteps DEF OfJourney, Ends
  <2>5. CASE step = 8
    BY <2>1, <2>5, JourneySteps DEF OfJourney, Ends
  <2>6. CASE step = 9
    BY <2>1, <2>6, JourneySteps DEF OfJourney, Ends
  <2> QED
    BY <2>2, <2>3, <2>4, <2>5, <2>6
<1>3. \A labels \in {{"step_4"}, {"complete"}, {"incomplete"}} : labels \cap (Seen \cup {"attempt"}) = {}
  BY DEF Seen
<1>4. \A name, step : step \in {1, 7, 8} => Matters(name, step)
  BY JourneySteps DEF Matters
<1> QED
  BY <1>1, <1>2, <1>3, <1>4, JourneySteps DEF Fits, Covers, Selects

-----------------------------------------------------------------------------
(* What the scripts count.                                                 *)

\* The scripts count as K6 does.
LEMMA LimiterSame ==
  /\ \A t, p, l : Limiter!Count(t, p, l) = Count(t, p, l)
  /\ \A h, p, s, c : Limiter!Happened(h, p, s, c) = Happened(h, p, s, c)
  /\ Limiter!Steps = Steps /\ Limiter!Causes = Causes
BY DEF Limiter!Count, Limiter!Happened, Limiter!Sum, Limiter!MapThenSumSet, Limiter!MapThenFoldSet,
       Limiter!Steps, Limiter!Causes, Count, Happened, Sum, MapThenSumSet, MapThenFoldSet, Steps, Causes

LEMMA BreakerSame ==
  /\ \A t, p, l : Breaker!Count(t, p, l) = Count(t, p, l)
  /\ \A h, p, s, c : Breaker!Happened(h, p, s, c) = Happened(h, p, s, c)
  /\ Breaker!Steps = Steps /\ Breaker!Causes = Causes
BY DEF Breaker!Count, Breaker!Happened, Breaker!Sum, Breaker!MapThenSumSet, Breaker!MapThenFoldSet,
       Breaker!Steps, Breaker!Causes, Count, Happened, Sum, MapThenSumSet, MapThenFoldSet, Steps, Causes

LEMMA BulkheadSame ==
  /\ \A t, p, l : Bulkhead!Count(t, p, l) = Count(t, p, l)
  /\ \A h, p, s, c : Bulkhead!Happened(h, p, s, c) = Happened(h, p, s, c)
  /\ Bulkhead!Steps = Steps /\ Bulkhead!Causes = Causes
BY DEF Bulkhead!Count, Bulkhead!Happened, Bulkhead!Sum, Bulkhead!MapThenSumSet, Bulkhead!MapThenFoldSet,
       Bulkhead!Steps, Bulkhead!Causes, Count, Happened, Sum, MapThenSumSet, MapThenFoldSet, Steps, Causes

LEMMA LatencySame ==
  /\ \A t, p, l : Latency!Count(t, p, l) = Count(t, p, l)
  /\ \A h, p, s, c : Latency!Happened(h, p, s, c) = Happened(h, p, s, c)
  /\ Latency!Steps = Steps /\ Latency!Causes = Causes
BY DEF Latency!Count, Latency!Happened, Latency!Sum, Latency!MapThenSumSet, Latency!MapThenFoldSet,
       Latency!Steps, Latency!Causes, Count, Happened, Sum, MapThenSumSet, MapThenFoldSet, Steps, Causes

LEMMA SoakSame ==
  /\ \A t, p, l : Soak!Count(t, p, l) = Count(t, p, l)
  /\ \A h, p, s, c : Soak!Happened(h, p, s, c) = Happened(h, p, s, c)
  /\ Soak!Steps = Steps /\ Soak!Causes = Causes
BY DEF Soak!Count, Soak!Happened, Soak!Sum, Soak!MapThenSumSet, Soak!MapThenFoldSet,
       Soak!Steps, Soak!Causes, Count, Happened, Sum, MapThenSumSet, MapThenFoldSet, Steps, Causes

LEMMA SeatSame ==
  /\ \A t, p, l : Seat!Count(t, p, l) = Count(t, p, l)
  /\ \A h, p, s, c : Seat!Happened(h, p, s, c) = Happened(h, p, s, c)
  /\ Seat!Steps = Steps /\ Seat!Causes = Causes
BY DEF Seat!Count, Seat!Happened, Seat!Sum, Seat!MapThenSumSet, Seat!MapThenFoldSet,
       Seat!Steps, Seat!Causes, Count, Happened, Sum, MapThenSumSet, MapThenFoldSet, Steps, Causes

LEMMA JourneySame ==
  /\ \A t, p, l : Journey!Count(t, p, l) = Count(t, p, l)
  /\ \A h, p, s, c : Journey!Happened(h, p, s, c) = Happened(h, p, s, c)
  /\ Journey!Steps = Steps /\ Journey!Causes = Causes
BY DEF Journey!Count, Journey!Happened, Journey!Sum, Journey!MapThenSumSet, Journey!MapThenFoldSet,
       Journey!Steps, Journey!Causes, Count, Happened, Sum, MapThenSumSet, MapThenFoldSet, Steps, Causes

LEMMA IdempotencySame ==
  /\ \A t, p, l : Idempotency!Count(t, p, l) = Count(t, p, l)
  /\ \A h, p, s, c : Idempotency!Happened(h, p, s, c) = Happened(h, p, s, c)
  /\ Idempotency!Steps = Steps /\ Idempotency!Causes = Causes
BY DEF Idempotency!Count, Idempotency!Happened, Idempotency!Sum, Idempotency!MapThenSumSet, Idempotency!MapThenFoldSet,
       Idempotency!Steps, Idempotency!Causes, Count, Happened, Sum, MapThenSumSet, MapThenFoldSet, Steps, Causes

LEMMA SagaSame ==
  /\ \A t, p, l : Saga!Count(t, p, l) = Count(t, p, l)
  /\ \A h, p, s, c : Saga!Happened(h, p, s, c) = Happened(h, p, s, c)
  /\ Saga!Steps = Steps /\ Saga!Causes = Causes
BY DEF Saga!Count, Saga!Happened, Saga!Sum, Saga!MapThenSumSet, Saga!MapThenFoldSet,
       Saga!Steps, Saga!Causes, Count, Happened, Sum, MapThenSumSet, MapThenFoldSet, Steps, Causes

LEMMA ResilienceSame ==
  /\ \A t, p, l : Resilience!Count(t, p, l) = Count(t, p, l)
  /\ \A h, p, s, c : Resilience!Happened(h, p, s, c) = Happened(h, p, s, c)
  /\ Resilience!Steps = Steps /\ Resilience!Causes = Causes
BY DEF Resilience!Count, Resilience!Happened, Resilience!Sum, Resilience!MapThenSumSet, Resilience!MapThenFoldSet,
       Resilience!Steps, Resilience!Causes, Count, Happened, Sum, MapThenSumSet, MapThenFoldSet, Steps, Causes

LEMMA InvariantSame ==
  /\ \A t, p, l : Invariant!Count(t, p, l) = Count(t, p, l)
  /\ \A h, p, s, c : Invariant!Happened(h, p, s, c) = Happened(h, p, s, c)
  /\ Invariant!Steps = Steps /\ Invariant!Causes = Causes
BY DEF Invariant!Count, Invariant!Happened, Invariant!Sum, Invariant!MapThenSumSet, Invariant!MapThenFoldSet,
       Invariant!Steps, Invariant!Causes, Count, Happened, Sum, MapThenSumSet, MapThenFoldSet, Steps, Causes

\* What each script counts is what happened.
LEMMA LimiterAgrees ==
  ASSUME Agrees, script = "limiter"
  PROVE  Limiter!CountsAgree(tally, heard)
BY LimiterFits, Exact, LimiterSame DEF Limiter!CountsAgree

LEMMA BreakerAgrees ==
  ASSUME Agrees, script = "breaker"
  PROVE  Breaker!CountsAgree(tally, heard)
BY BreakerFits, Exact, BreakerSame DEF Breaker!CountsAgree

LEMMA BulkheadAgrees ==
  ASSUME Agrees, script = "bulkhead"
  PROVE  Bulkhead!CountsAgree(tally, heard)
BY BulkheadFits, Exact, BulkheadSame DEF Bulkhead!CountsAgree

LEMMA LatencyAgrees ==
  ASSUME Agrees, script = "latency"
  PROVE  Latency!CountsAgree(tally, heard)
BY LatencyFits, Exact, LatencySame DEF Latency!CountsAgree, Latency!Requests

LEMMA SoakAgrees ==
  ASSUME Agrees, script = "soak"
  PROVE  Soak!CountsAgree(tally, heard)
BY SoakFits, Exact, SoakSame DEF Soak!CountsAgree, Soak!All

LEMMA SeatAgrees ==
  ASSUME Agrees, script = "seat"
  PROVE  Seat!CountsAgree(tally, heard)
BY SeatFits, Exact, SeatSame DEF Seat!CountsAgree, Seat!All

LEMMA IdempotencyAgrees ==
  ASSUME Agrees, script = "idempotency"
  PROVE  Idempotency!CountsAgree(tally, heard)
BY IdempotencyFits, Exact, IdempotencySame DEF Idempotency!CountsAgree

LEMMA InvariantAgrees ==
  ASSUME Agrees, script = "invariant"
  PROVE  Invariant!CountsAgree(tally, heard)
BY InvariantFits, Exact, InvariantSame DEF Invariant!CountsAgree, Invariant!All

LEMMA ResilienceAgrees ==
  ASSUME Agrees, script = "resilience"
  PROVE  Resilience!CountsAgree(tally, heard)
<1>1. /\ Count(tally, {"probe", "normal"}, {"normal"}) = Happened(heard, {"normal"}, Steps, Causes)
      /\ Count(tally, {"probe", "normal"}, {"timeout", "fallback"}) = Happened(heard, {"probe"}, Steps, Causes)
  BY ResilienceFits, Exact
<1>2. {"timeout", "fallback"} = {"timeout"} \cup {"fallback"} /\ {"timeout"} \cap {"fallback"} = {}
  OBVIOUS
<1>3. Counted(tally)
  BY DEF Agrees, LoadOK
<1>4. Count(tally, {"probe", "normal"}, {"timeout", "fallback"})
          = Count(tally, {"probe", "normal"}, {"timeout"}) + Count(tally, {"probe", "normal"}, {"fallback"})
  BY <1>2, <1>3, CountParts
<1> QED
  BY <1>1, <1>4, ResilienceSame DEF Resilience!CountsAgree, Resilience!All

-----------------------------------------------------------------------------
(* Channels: what comes in goes out, or waits.                             *)

\* The iterations of these phases that are at one of these steps.
Weight(u, names, steps) ==
    IF u.phase # 0 /\ NameOf(u.phase) \in names /\ u.step \in steps THEN u.repeats ELSE 0
Weights(names, steps) == [v \in VUs |-> Weight(vu[v], names, steps)]
Waiting(names, steps) == Sum(Weights(names, steps), VUs)

\* An iteration that comes to one of these steps is counted by one of the labels
\* "in", and only one that leaves them is counted by a label "out", once.
Channel(names, in, out, steps) ==
    /\ out \cap (Seen \cup {"attempt"}) = {} /\ 0 \notin steps
    /\ \A i \in DOMAIN Phases : NameOf(i) \in names /\ Starts \cap steps # {} =>
           \E x \in Begins(NameOf(i)) : x \in in
    /\ \A i \in DOMAIN Phases, step \in StepsOf : \A r \in Answers(NameOf(i), step) :
           NameOf(i) \in names =>
               /\ step \notin steps /\ After(NameOf(i), step, r) \in steps =>
                      \E x \in in : x \in Labels(NameOf(i), step, r)
               /\ \A x \in out : x \in Labels(NameOf(i), step, r) =>
                      /\ step \in steps /\ After(NameOf(i), step, r) \notin steps
                      /\ \A y \in out : y \in Labels(NameOf(i), step, r) => y = x

\* Whether labels are a channel depends on the script alone.
LEMMA ChannelStays ==
  ASSUME script' = script, NEW names, NEW in, NEW out, NEW steps
  PROVE  Channel(names, in, out, steps)' => Channel(names, in, out, steps)
<1>1. Phases' = Phases /\ StepsOf' = StepsOf
  BY ScriptStays
<1>2. \A p, s, r : Labels(p, s, r)' = Labels(p, s, r)
  BY ScriptStays
<1>3. \A p, s : Answers(p, s)' = Answers(p, s)
  BY ScriptStays
<1>4. Starts' = Starts
  BY DEF Starts
<1>5. \A p : Begins(p)' = Begins(p)
  BY DEF Begins
<1>6. \A p, s, r : After(p, s, r)' = After(p, s, r)
  BY DEF After
<1> SUFFICES ASSUME Channel(names, in, out, steps)' PROVE Channel(names, in, out, steps)
  OBVIOUS
<1>7. /\ out \cap (Seen \cup {"attempt"}) = {} /\ 0 \notin steps
  BY DEF Channel
<1>8. \A i \in DOMAIN Phases : NameOf(i) \in names /\ Starts \cap steps # {} =>
           \E x \in Begins(NameOf(i)) : x \in in
  BY <1>1, <1>4, <1>5 DEF Channel, NameOf
<1>9. \A i \in DOMAIN Phases, step \in StepsOf : \A r \in Answers(NameOf(i), step) :
           NameOf(i) \in names =>
               /\ step \notin steps /\ After(NameOf(i), step, r) \in steps =>
                      \E x \in in : x \in Labels(NameOf(i), step, r)
               /\ \A x \in out : x \in Labels(NameOf(i), step, r) =>
                      /\ step \in steps /\ After(NameOf(i), step, r) \notin steps
                      /\ \A y \in out : y \in Labels(NameOf(i), step, r) => y = x
  BY <1>1, <1>2, <1>3, <1>6 DEF Channel, NameOf
<1> QED
  BY <1>7, <1>8, <1>9 DEF Channel

\* How many iterations wait is a natural number.
LEMMA WeightNat ==
  ASSUME LoadOK, NEW names, NEW steps
  PROVE  /\ \A v \in VUs : Weights(names, steps)[v] \in Nat
         /\ Waiting(names, steps) \in Nat
<1>1. \A v \in VUs : Weights(names, steps)[v] \in Nat
  BY DEF LoadOK, Weights, Weight
<1> QED
  BY <1>1, SumNat, ScriptsAssumption DEF Waiting

\* What happens to one VU.
LEMMA OneWaits ==
  ASSUME LoadOK, LoadOK', script' = script, NEW names, NEW steps, NEW v \in VUs,
         \A w \in VUs : w # v => vu'[w] = vu[w]
  PROVE  Waiting(names, steps)' + Weights(names, steps)[v]
             = Waiting(names, steps) + Weights(names, steps)'[v]
<1> DEFINE a == Weights(names, steps)
           b == Weights(names, steps)'
           rest == VUs \ {v}
<1>1. (\A w \in VUs : a[w] \in Nat) /\ (\A w \in VUs : b[w] \in Nat)
  <2>1. \A w \in VUs : a[w] \in Nat
    BY WeightNat
  <2>2. \A w \in VUs : b[w] \in Nat
    BY DEF LoadOK, Weights, Weight
  <2> QED
    BY <2>1, <2>2
<1>2. \A w \in rest : a[w] = b[w]
  <2>1. Phases' = Phases
    BY ScriptStays
  <2> QED
    BY <2>1 DEF Weights, Weight, NameOf
<1>3. Waiting(names, steps) = Sum(a, VUs) /\ Waiting(names, steps)' = Sum(b, VUs)
  BY DEF Waiting
<1>4. IsFiniteSet(VUs) /\ IsFiniteSet(rest)
  BY ScriptsAssumption, FS_Subset
<1> HIDE DEF a, b
<1>5. Sum(a, VUs) = a[v] + Sum(a, rest) /\ Sum(b, VUs) = b[v] + Sum(b, rest)
  BY <1>1, <1>4, SumElement
<1>6. Sum(a, rest) = Sum(b, rest) /\ Sum(a, rest) \in Nat
  BY <1>1, <1>2, <1>4, SumSame, SumNat
<1>7. a[v] \in Nat /\ b[v] \in Nat
  BY <1>1
<1>8. Waiting(names, steps)' + a[v] = Waiting(names, steps) + b[v]
  BY <1>3, <1>5, <1>6, <1>7
<1> QED
  BY <1>8 DEF a, b

\* What comes in is counted, and either waits or was counted when it went out.
Flow == \A names, in, out, steps :
    Channel(names, in, out, steps) =>
        Count(tally, names, in) >= Count(tally, names, out) + Waiting(names, steps)

\* At first nobody has come in, ...
LEMMA FlowInit == LoadInit => Flow
<1> SUFFICES ASSUME LoadInit, NEW names, NEW in, NEW out, NEW steps
             PROVE  Count(tally, names, in) >= Count(tally, names, out) + Waiting(names, steps)
  BY DEF Flow
<1>1. DOMAIN EmptyBag = {}
  BY DEF EmptyBag, SetToBag
<1>2. \A cp, labels : Count(tally, cp, labels) = 0
  <2>1. ASSUME NEW cp, NEW labels PROVE Count(tally, cp, labels) = 0
    <3>1. {entry \in DOMAIN tally : entry[1] \in cp /\ entry[2] \in labels} = {}
      BY <1>1 DEF LoadInit
    <3> QED
      BY <3>1, SumEmpty DEF Count
  <2> QED
    BY <2>1
<1>3. \A v \in VUs : Weights(names, steps)[v] = 0
  BY DEF LoadInit, Weights, Weight, Idle
<1>4. Waiting(names, steps) = 0
  <2> DEFINE w == Weights(names, steps)
             Good == {s \in SUBSET VUs : Sum(w, s) = 0}
  <2>0. \A x \in VUs : w[x] = 0
    BY <1>3
  <2> HIDE DEF w
  <2>1. ASSUME NEW s \in SUBSET VUs, \A u \in SUBSET s : u # s => u \in Good
        PROVE  s \in Good
    <3>1. CASE s = {}
      BY <3>1, SumEmpty
    <3>2. CASE s # {}
      <4>1. IsFiniteSet(s)
        BY ScriptsAssumption, FS_Subset
      <4>2. Pick(s) \in s /\ Sum(w, s) = w[Pick(s)] + Sum(w, s \ {Pick(s)})
        BY <3>2, <4>1, SumPick
      <4>3. s \ {Pick(s)} \in Good
        BY <2>1, <4>2
      <4> QED
        BY <2>0, <4>2, <4>3
    <3> QED
      BY <3>1, <3>2
  <2>2. VUs \in Good
    <3> HIDE DEF Good
    <3> QED
      BY <2>1, SubsetInduction, ScriptsAssumption
  <2> QED
    BY <2>2 DEF Waiting, w
<1> QED
  BY <1>2, <1>4

\* ... and every step keeps the balance: whoever comes in waits, and whoever goes out has waited.
LEMMA FlowStep == LoadOK /\ Flow /\ [LoadNext]_loadVars => Flow'
<1> SUFFICES ASSUME LoadOK, Flow, [LoadNext]_loadVars, NEW names, NEW in, NEW out, NEW steps,
                    Channel(names, in, out, steps)'
             PROVE  Count(tally', names, in) >= Count(tally', names, out) + Waiting(names, steps)'
  BY DEF Flow
<1>0. LoadOK'
  BY LoadTypeStep
<1>1. script' = script
  BY DEF LoadNext, loadVars, Setup, NextGroup, End, Begin, Respond, Interrupt
<1>2. Channel(names, in, out, steps)
  BY <1>1, ChannelStays
<1> DEFINE in0  == Count(tally, names, in)
           in1  == Count(tally', names, in)
           out0 == Count(tally, names, out)
           out1 == Count(tally', names, out)
           wait0 == Waiting(names, steps)
           wait1 == Waiting(names, steps)'
<1>3. in0 >= out0 + wait0
  BY <1>2 DEF Flow
<1>4. /\ in0 \in Nat /\ in1 \in Nat /\ out0 \in Nat /\ out1 \in Nat /\ wait0 \in Nat
  BY <1>0, CountNat, WeightNat DEF LoadOK
<1>4a. wait1 \in Nat
  <2>1. (wait0 \in Nat)'
    BY <1>0, WeightNat, PTL
  <2> QED
    BY <2>1
<1>5. Phases' = Phases
  BY <1>1, ScriptStays
<1> SUFFICES in1 >= out1 + wait1
  OBVIOUS
<1>6. CASE Setup \/ NextGroup \/ End \/ UNCHANGED loadVars
  <2>1. tally' = tally /\ vu' = vu
    BY <1>6 DEF Setup, NextGroup, End, loadVars
  <2>2. wait1 = wait0
    BY <1>5, <2>1 DEF Waiting, Weights, Weight, NameOf
  <2> QED
    BY <1>3, <2>1, <2>2
<1>7. ASSUME NEW v \in VUs, NEW i \in DOMAIN Phases, NEW step \in Starts, NEW n \in Repeats[script],
             Begin(v, i, step, n)
      PROVE  in1 >= out1 + wait1
  <2> DEFINE w0 == Weights(names, steps)[v]
             w1 == Weights(names, steps)'[v]
             enters == NameOf(i) \in names /\ step \in steps
  <2>1. wait1 + w0 = wait0 + w1
    <3>1. \A w \in VUs : w # v => vu'[w] = vu[w]
      BY <1>7 DEF Begin, LoadOK
    <3> QED
      BY <1>0, <1>1, <3>1, OneWaits
  <2>2. w0 = 0
    BY <1>7 DEF Begin, Weights, Weight
  <2>3. n \in Nat /\ 0 \notin DOMAIN Phases /\ script \in AllScripts
    <3>1. script \in AllScripts /\ n \in Nat
      BY Known
    <3>2. DOMAIN Phases \subseteq 1 .. 3
      BY <3>1, PhasesAre
    <3> QED
      BY <3>1, <3>2
  <2>4. w1 = IF enters THEN n ELSE 0
    <3>1. vu'[v] = [phase |-> i, step |-> step, repeats |-> n, memory |-> vu[v].memory]
      BY <1>7 DEF Begin, LoadOK
    <3>2. w1 = Weight(vu'[v], names, steps)
      BY <1>5 DEF Weights, Weight, NameOf
    <3> QED
      BY <2>3, <3>1, <3>2 DEF Weight
  <2>5. out1 = out0
    <3>1. "attempt" \notin out
      BY <1>2 DEF Channel
    <3> QED
      BY <1>7, <3>1, BeginCounts
  <2>6. in1 >= in0 /\ (enters => in1 >= in0 + n)
    <3>1. enters => Begins(NameOf(i)) \cap in # {}
      BY <1>2 DEF Channel
    <3> QED
      BY <1>7, <3>1, BeginCounts
  <2> HIDE DEF in0, in1, out0, out1, wait0, wait1, w0, w1, enters
  <2> QED
    BY <1>3, <1>4, <1>4a, <2>1, <2>2, <2>3, <2>4, <2>5, <2>6
<1>8. ASSUME NEW v \in VUs, vu[v].phase # 0, NEW r \in Answers(NameOf(vu[v].phase), vu[v].step), Respond(v, r)
      PROVE  in1 >= out1 + wait1
  <2> DEFINE w0 == Weights(names, steps)[v]
             w1 == Weights(names, steps)'[v]
             i == vu[v].phase
             name == NameOf(i)
             step == vu[v].step
             n == vu[v].repeats
             L == Labels(name, step, r)
             next == After(name, step, r)
  <2>1. wait1 + w0 = wait0 + w1
    <3>1. \A w \in VUs : w # v => vu'[w] = vu[w]
      BY <1>8 DEF Respond, LoadOK
    <3> QED
      BY <1>0, <1>1, <3>1, OneWaits
  <2>2. i \in DOMAIN Phases /\ step \in StepsOf /\ n \in Nat
    BY <1>8 DEF LoadOK
  <2>3. w0 = IF name \in names /\ step \in steps THEN n ELSE 0
    BY <1>8 DEF Weights, Weight
  <2>4. w1 = IF name \in names /\ next \in steps THEN n ELSE 0
    <3> DEFINE memory == Remember(vu[v].memory, name, r)
    <3>0. vu' = [vu EXCEPT ![v] = IF next = 0 THEN [Idle EXCEPT !.memory = memory]
                                  ELSE [vu[v] EXCEPT !.step = next, !.memory = memory]]
      BY <1>8 DEF Respond, LoadOK, NameOf
    <3>1. vu'[v] = IF next = 0 THEN [Idle EXCEPT !.memory = memory]
                   ELSE [vu[v] EXCEPT !.step = next, !.memory = memory]
      BY <3>0 DEF LoadOK
    <3>2. w1 = Weight(vu'[v], names, steps)
      BY <1>5 DEF Weights, Weight, NameOf
    <3>3. 0 \notin steps
      BY <1>2 DEF Channel
    <3>4. vu[v] \in [phase : DOMAIN Phases \cup {0}, step : StepsOf, repeats : Nat \ {0}, memory : SUBSET Seen]
      BY DEF LoadOK
    <3> HIDE DEF memory, next
    <3>5. CASE next = 0
      BY <3>1, <3>2, <3>3, <3>5 DEF Weight, Idle
    <3>6. CASE next # 0
      <4>1. vu'[v].phase = i /\ vu'[v].step = next /\ vu'[v].repeats = n
        BY <3>1, <3>4, <3>6
      <4> QED
        BY <1>8, <3>2, <4>1 DEF Weight
    <3> QED
      BY <3>5, <3>6
  <2>5. /\ out \cap Seen = {}
        /\ name \in names =>
               /\ step \notin steps /\ next \in steps => L \cap in # {}
               /\ \A x \in L \cap out : step \in steps /\ next \notin steps /\ L \cap out = {x}
    <3>1. /\ out \cap Seen = {}
          /\ name \in names =>
               /\ step \notin steps /\ next \in steps => \E x \in in : x \in L
               /\ \A x \in out : x \in L =>
                      /\ step \in steps /\ next \notin steps
                      /\ \A y \in out : y \in L => y = x
      BY <1>2, <1>8, <2>2 DEF Channel
    <3> HIDE DEF name, step, next, L
    <3> QED
      BY <3>1
  <2>6. /\ in1 >= in0 /\ (name \in names /\ L \cap in # {} => in1 >= in0 + n)
        /\ name \notin names \/ L \cap out = {} => out1 = out0
    BY <1>8, <2>5, RespondCounts
  <2>7. ASSUME name \in names, NEW x, L \cap out = {x} PROVE out1 = out0 + n
    <3>1. LET name_ == NameOf(vu[v].phase)
              L_ == Labels(name_, vu[v].step, r)
          IN  \A phases_, labels_, x_ :
                  labels_ \cap Seen = {} /\ name_ \in phases_ /\ L_ \cap labels_ = {x_} =>
                      Count(tally', phases_, labels_) = Count(tally, phases_, labels_) + vu[v].repeats
      BY <1>8, RespondCounts
    <3> QED
      BY <2>5, <2>7, <3>1, Zenon
  <2> HIDE DEF in0, in1, out0, out1, wait0, wait1, w0, w1, i, name, step, n, L, next
  <2>8. CASE name \notin names \/ L \cap out = {}
    BY <1>3, <1>4, <1>4a, <2>1, <2>2, <2>3, <2>4, <2>5, <2>6, <2>8
  <2>9. CASE name \in names /\ L \cap out # {}
    <3>0. PICK x \in L \cap out : TRUE
      BY <2>9
    <3>1. out1 = out0 + n /\ step \in steps /\ next \notin steps
      BY <2>5, <2>7, <2>9, <3>0
    <3> QED
      BY <1>3, <1>4, <1>4a, <2>1, <2>2, <2>3, <2>4, <2>6, <2>9, <3>1
  <2> QED
    BY <2>8, <2>9
<1>9. ASSUME NEW v \in VUs, Interrupt(v)
      PROVE  in1 >= out1 + wait1
  <2> DEFINE w0 == Weights(names, steps)[v]
             w1 == Weights(names, steps)'[v]
  <2>1. wait1 + w0 = wait0 + w1
    <3>1. \A w \in VUs : w # v => vu'[w] = vu[w]
      BY <1>9 DEF Interrupt, LoadOK
    <3> QED
      BY <1>0, <1>1, <3>1, OneWaits
  <2>2. w0 \in Nat
    BY WeightNat
  <2>3. w1 = 0
    <3>1. vu'[v].phase = 0
      BY <1>9 DEF Interrupt, LoadOK, Idle
    <3> QED
      BY <3>1 DEF Weights, Weight
  <2>4. tally' = tally
    BY <1>9 DEF Interrupt
  <2> QED
    BY <1>3, <1>4, <1>4a, <2>1, <2>2, <2>3, <2>4
<1> QED
  BY <1>6, <1>7, <1>8, <1>9 DEF LoadNext, NameOf

\* The next step of a journey and what is counted for it.
Moves(step, labels, next) ==
    /\ step = 1 => \/ labels = {"step_1"} /\ next = 2
                   \/ Ends("stopped_1", labels) /\ next = 0
    /\ step \in 2 .. 6 => \/ labels = {} /\ next \in 3 .. 6
                          \/ labels = {"step_2"} /\ next = 7
    /\ step = 7 => \/ labels = {"step_3"} /\ next = 8
                   \/ Ends("stopped_3", labels) /\ next = 0
    /\ step = 8 => \/ labels = {"step_4", "complete"} /\ next = 9
                   \/ Ends("stopped_4", labels) /\ next = 0
    /\ step = 9 => labels \in {{"step_5"}, {"stopped_5"}} /\ next = 0

\* The labels of an answer say where the journey goes.
LEMMA JourneyMoves ==
  ASSUME script = "journey", NEW name, NEW step \in 1 .. 9, NEW r
  PROVE  Moves(step, Labels(name, step, r), After(name, step, r))
<1>1. Labels(name, step, r) = Journey!Labels(step, r) /\ After(name, step, r) = Journey!After(step, r)
  BY DEF Labels, After
<1>2. \A label : Ends(label, Journey!Stopped(label, r))
  BY DEF Ends, Journey!Stopped
<1>3. CASE step = 1
  BY <1>1, <1>2, <1>3, JourneySteps DEF Moves, Journey!Labels, Journey!After
<1>4. CASE step \in 2 .. 6
  BY <1>1, <1>2, <1>4, JourneySteps DEF Moves, Journey!Labels, Journey!After
<1>5. CASE step = 7
  BY <1>1, <1>2, <1>5, JourneySteps DEF Moves, Journey!Labels, Journey!After
<1>6. CASE step = 8
  BY <1>1, <1>2, <1>6, JourneySteps DEF Moves, Journey!Labels, Journey!After
<1>7. CASE step = 9
  BY <1>1, <1>2, <1>7, JourneySteps DEF Moves, Journey!Labels, Journey!After
<1> QED
  BY <1>3, <1>4, <1>5, <1>6, <1>7

\* The funnel of a journey.
LEMMA JourneyChannels ==
  ASSUME script = "journey"
  PROVE  /\ Channel({"journey"}, {"attempt"}, {"step_1", "stopped_1"}, {1})
         /\ Channel({"journey"}, {"step_1"}, {"step_2"}, 2 .. 6)
         /\ Channel({"journey"}, {"step_2"}, {"step_3", "stopped_3"}, {7})
         /\ Channel({"journey"}, {"step_3"}, {"step_4", "stopped_4"}, {8})
         /\ Channel({"journey"}, {"complete"}, {"step_5", "stopped_5"}, {9})
<1>1. \A i \in DOMAIN Phases, step \in StepsOf : \A r \in Answers(NameOf(i), step) :
          step \in 1 .. 9 /\ Moves(step, Labels(NameOf(i), step, r), After(NameOf(i), step, r))
  BY JourneyMoves DEF StepsOf, Steps
<1>2. Starts = {1} /\ \A i \in DOMAIN Phases : Begins(NameOf(i)) = {"attempt"}
  BY DEF Starts, Begins, Journey!Begins
<1>3. \A labels \in {{"step_1", "stopped_1"}, {"step_2"}, {"step_3", "stopped_3"}, {"step_4", "stopped_4"},
                     {"step_5", "stopped_5"}} : labels \cap (Seen \cup {"attempt"}) = {}
  BY DEF Seen
<1>4. ASSUME NEW step \in 1 .. 9, NEW L, NEW next, Moves(step, L, next)
      PROVE  /\ "step_1" \in L <=> step = 1 /\ next = 2
             /\ "stopped_1" \in L <=> step = 1 /\ next # 2
             /\ step = 1 => next \in {0, 2}
             /\ "step_2" \in L <=> step \in 2 .. 6 /\ next = 7
             /\ step \in 2 .. 6 => next \in 3 .. 7
             /\ "step_3" \in L <=> step = 7 /\ next = 8
             /\ "stopped_3" \in L <=> step = 7 /\ next # 8
             /\ step = 7 => next \in {0, 8}
             /\ "step_4" \in L <=> step = 8 /\ next = 9
             /\ "complete" \in L <=> step = 8 /\ next = 9
             /\ "stopped_4" \in L <=> step = 8 /\ next # 9
             /\ step = 8 => next \in {0, 9}
             /\ "step_5" \in L \/ "stopped_5" \in L => step = 9
             /\ ~ ("step_5" \in L /\ "stopped_5" \in L)
             /\ step = 9 => next = 0
  <2>1. CASE step = 1
    BY <1>4, <2>1 DEF Moves, Ends
  <2>2. CASE step \in 2 .. 6
    BY <1>4, <2>2 DEF Moves, Ends
  <2>3. CASE step = 7
    BY <1>4, <2>3 DEF Moves, Ends
  <2>4. CASE step = 8
    BY <1>4, <2>4 DEF Moves, Ends
  <2>5. CASE step = 9
    BY <1>4, <2>5 DEF Moves, Ends
  <2> QED
    BY <2>1, <2>2, <2>3, <2>4, <2>5
<1>5. Channel({"journey"}, {"attempt"}, {"step_1", "stopped_1"}, {1})
  BY <1>1, <1>2, <1>3, <1>4 DEF Channel
<1>6. Channel({"journey"}, {"step_1"}, {"step_2"}, 2 .. 6)
  BY <1>1, <1>2, <1>3, <1>4 DEF Channel
<1>7. Channel({"journey"}, {"step_2"}, {"step_3", "stopped_3"}, {7})
  BY <1>1, <1>2, <1>3, <1>4 DEF Channel
<1>8. Channel({"journey"}, {"step_3"}, {"step_4", "stopped_4"}, {8})
  BY <1>1, <1>2, <1>3, <1>4 DEF Channel
<1>9. Channel({"journey"}, {"complete"}, {"step_5", "stopped_5"}, {9})
  BY <1>1, <1>2, <1>3, <1>4 DEF Channel
<1> QED
  BY <1>5, <1>6, <1>7, <1>8, <1>9

\* An attempt of a payment is counted before its answer.
LEMMA SagaChannel ==
  ASSUME script = "saga"
  PROVE  Channel(Saga!Flow, {"attempt"}, {"complete", "incomplete"}, Steps)
<1>1. \A i \in DOMAIN Phases : NameOf(i) \in {"normal", "stress", "recovery"}
  BY DEF NameOf, Phases, Saga!Phases, Saga!Phase
<1>2. Starts = {1} /\ \A name \in Saga!Flow : Begins(name) = {"attempt"}
  BY DEF Starts, Begins, Saga!Begins
<1>3. {"complete", "incomplete"} \cap (Seen \cup {"attempt"}) = {}
  BY DEF Seen
<1>4. \A name \in Saga!Flow : \A step, r : After(name, step, r) = 0
  BY DEF After, Saga!After, Saga!Flow
<1>5. \A i \in DOMAIN Phases, step \in StepsOf : \A r \in Answers(NameOf(i), step) :
          OfSaga(NameOf(i), r.cause, Labels(NameOf(i), step, r))
  BY <1>1, SagaLabels
<1>6. \A name \in Saga!Flow : \A cause, labels : OfSaga(name, cause, labels) =>
          ~ ("complete" \in labels /\ "incomplete" \in labels)
  BY DEF OfSaga, Saga!Flow
<1> QED
  BY <1>2, <1>3, <1>4, <1>5, <1>6 DEF Channel, StepsOf, Steps

\* Nothing is counted on its way out that was not counted on its way in.
LEMMA FlowIs ==
  ASSUME LoadOK, Flow, NEW names, NEW in, NEW out, NEW steps, Channel(names, in, out, steps)
  PROVE  Count(tally, names, in) >= Count(tally, names, out)
<1>1. Count(tally, names, in) >= Count(tally, names, out) + Waiting(names, steps)
  BY DEF Flow
<1> QED
  BY <1>1, WeightNat, CountNat DEF LoadOK

-----------------------------------------------------------------------------
(* What is counted is what happened.                                       *)

LoadInv == Agrees /\ Flow

\* The count of two labels.
LEMMA TwoCounts ==
  ASSUME LoadInv, NEW names, NEW a, NEW b, a # b
  PROVE  /\ Count(tally, names, {a, b}) = Count(tally, names, {a}) + Count(tally, names, {b})
         /\ Count(tally, names, {a}) \in Nat /\ Count(tally, names, {b}) \in Nat
<1>1. {a, b} = {a} \cup {b} /\ {a} \cap {b} = {}
  OBVIOUS
<1>2. Counted(tally)
  BY DEF LoadInv, Agrees, LoadOK
<1>3. Count(tally, names, {a} \cup {b}) = Count(tally, names, {a}) + Count(tally, names, {b})
  BY <1>1, <1>2, CountParts
<1> QED
  BY <1>1, <1>2, <1>3, CountNat

\* The journey's funnel, ...
LEMMA JourneyAgrees ==
  ASSUME LoadInv, script = "journey"
  PROVE  Journey!CountsAgree(tally, heard)
<1> DEFINE all(label) == Count(tally, {"journey"}, {label})
<1>1. /\ all("step_4") = Happened(heard, {"journey"}, {Journey!Pay}, {"served"})
      /\ all("complete") = Happened(heard, {"journey"}, {Journey!Pay}, {"served"})
  BY JourneyFits, Exact DEF LoadInv
<1>2. /\ all("attempt") >= Count(tally, {"journey"}, {"step_1", "stopped_1"})
      /\ all("step_1") >= all("step_2")
      /\ all("step_2") >= Count(tally, {"journey"}, {"step_3", "stopped_3"})
      /\ all("step_3") >= Count(tally, {"journey"}, {"step_4", "stopped_4"})
      /\ all("complete") >= Count(tally, {"journey"}, {"step_5", "stopped_5"})
  BY JourneyChannels, FlowIs DEF LoadInv, Agrees
<1>3. /\ Count(tally, {"journey"}, {"step_1", "stopped_1"}) = all("step_1") + all("stopped_1")
      /\ Count(tally, {"journey"}, {"step_3", "stopped_3"}) = all("step_3") + all("stopped_3")
      /\ Count(tally, {"journey"}, {"step_4", "stopped_4"}) = all("step_4") + all("stopped_4")
      /\ Count(tally, {"journey"}, {"step_5", "stopped_5"}) = all("step_5") + all("stopped_5")
  BY TwoCounts
<1> QED
  BY <1>1, <1>2, <1>3, JourneySame DEF Journey!CountsAgree, Journey!All

\* ... and the attempts of the saga.
LEMMA SagaAgrees ==
  ASSUME LoadInv, script = "saga"
  PROVE  Saga!CountsAgree(tally, heard)
<1>1. /\ Count(tally, Saga!Flow, {"complete"}) = Happened(heard, Saga!Flow, Steps, {"served"})
      /\ Count(tally, Saga!Flow, {"server_error"})
             = Happened(heard, Saga!Flow, Steps, {"bulkhead", "fallback", "error"})
      /\ Count(tally, Saga!Flow, {"complete", "incomplete"}) = Happened(heard, Saga!Flow, Steps, Causes)
  BY SagaFits, Exact DEF LoadInv
<1>2. Count(tally, Saga!Flow, {"attempt"}) >= Count(tally, Saga!Flow, {"complete", "incomplete"})
  BY SagaChannel, FlowIs DEF LoadInv, Agrees
<1>3. /\ Count(tally, Saga!Flow, {"attempt"}) \in Nat
      /\ Count(tally, Saga!Flow, {"complete", "incomplete"}) \in Nat
  BY CountNat DEF LoadInv, Agrees, LoadOK
<1> QED
  BY <1>1, <1>2, <1>3, SagaSame DEF Saga!CountsAgree, Saga!All, Saga!Sampled

\* Every script counts what happened.
LEMMA CountsHold == LoadInv => CountsAgree
<1> SUFFICES ASSUME LoadInv PROVE CountsAgree
  OBVIOUS
<1>0. Agrees /\ script \in AllScripts
  BY Known DEF LoadInv, Agrees
<1>1. CASE script = "limiter"
  BY <1>0, <1>1, LimiterAgrees, Zenon DEF CountsAgree
<1>2. CASE script = "breaker"
  BY <1>0, <1>2, BreakerAgrees, Zenon DEF CountsAgree
<1>3. CASE script = "bulkhead"
  BY <1>0, <1>3, BulkheadAgrees, Zenon DEF CountsAgree
<1>4. CASE script = "latency"
  BY <1>0, <1>4, LatencyAgrees, Zenon DEF CountsAgree
<1>5. CASE script = "soak"
  BY <1>0, <1>5, SoakAgrees, Zenon DEF CountsAgree
<1>6. CASE script = "seat"
  BY <1>0, <1>6, SeatAgrees, Zenon DEF CountsAgree
<1>7. CASE script = "journey"
  BY <1>0, <1>7, JourneyAgrees, Zenon DEF CountsAgree
<1>8. CASE script = "idempotency"
  BY <1>0, <1>8, IdempotencyAgrees, Zenon DEF CountsAgree
<1>9. CASE script = "saga"
  BY <1>0, <1>9, SagaAgrees, Zenon DEF CountsAgree
<1>10. CASE script = "resilience"
  BY <1>0, <1>10, ResilienceAgrees, Zenon DEF CountsAgree
<1>11. CASE script = "invariant"
  BY <1>0, <1>11, InvariantAgrees, Zenon DEF CountsAgree
<1> QED
  BY <1>0, <1>1, <1>2, <1>3, <1>4, <1>5, <1>6, <1>7, <1>8, <1>9, <1>10, <1>11 DEF AllScripts

\* All of this holds in every state.
LEMMA LoadInvHolds == LoadSpec => []LoadInv
<1>1. LoadInit => LoadInv
  BY LoadTypeInit, Agreement, FlowInit DEF LoadInv, Agrees
<1>2. LoadInv /\ [LoadNext]_loadVars => LoadInv'
  BY LoadTypeStep, Agreement, FlowStep DEF LoadInv, Agrees
<1> QED
  BY <1>1, <1>2, PTL DEF LoadSpec

\* What a script counts is what happened, with any number of VUs, iterations and
\* repetitions: no answer counts for another phase or twice, the two kinds of 503
\* are not confused, and a journey is counted at no step it has not reached
\* (classifyResponse of the scenarios).
THEOREM CountsAlwaysAgree == LoadSpec => []CountsAgree
BY LoadInvHolds, CountsHold, PTL

-----------------------------------------------------------------------------
(* PASS.                                                                   *)

\* A script whose criteria all hold is right in what it claims.
LEMMA LimiterEarned ==
  ASSUME LoadInv, script = "limiter", Limiter!Failed(tally) = {}
  PROVE  Limiter!Claim(heard)
<1>1. /\ Limiter!Above(Limiter!Count(tally, {"burst"}, {"limited"}),
                       Limiter!Count(tally, {"burst"}, Limiter!Classes), 50)
      /\ Limiter!Below(Limiter!Count(tally, {"baseline"}, {"limited"}),
                       Limiter!Count(tally, {"baseline"}, Limiter!Classes), 1)
      /\ Limiter!Below(Limiter!Count(tally, {"recovery"}, {"limited"}),
                       Limiter!Count(tally, {"recovery"}, Limiter!Classes), 10)
  BY Zenon DEF Limiter!Failed
<1>2. \A p : /\ Count(tally, p, {"limited"}) = Happened(heard, p, Steps, {"limiter"})
             /\ Count(tally, p, Limiter!Classes) = Happened(heard, p, Steps, Causes)
  BY LimiterFits, Exact DEF LoadInv
<1> QED
  BY <1>1, <1>2, LimiterSame DEF Limiter!Claim

LEMMA BreakerEarned ==
  ASSUME LoadInv, script = "breaker", Breaker!Failed(tally) = {}
  PROVE  Breaker!Claim(heard)
<1>1. /\ Breaker!Above(Breaker!Count(tally, {"fault"}, {"fallback"}),
                       Breaker!Count(tally, {"fault"}, Breaker!Classes), 30)
      /\ Breaker!Below(Breaker!Count(tally, {"baseline"}, {"fallback"}),
                       Breaker!Count(tally, {"baseline"}, Breaker!Classes), 1)
  BY Zenon DEF Breaker!Failed
<1>2. \A p : /\ Count(tally, p, {"fallback"}) = Happened(heard, p, Steps, {"fallback"})
             /\ Count(tally, p, Breaker!Classes) = Happened(heard, p, Steps, Causes)
  BY BreakerFits, Exact DEF LoadInv
<1> QED
  BY <1>1, <1>2, BreakerSame DEF Breaker!Claim

LEMMA BulkheadEarned ==
  ASSUME LoadInv, script = "bulkhead", Bulkhead!Failed(tally) = {}
  PROVE  Bulkhead!Claim(heard)
<1>1. /\ Bulkhead!Count(tally, Bulkhead!Names, {"rejected"}) # 0
      /\ Bulkhead!Below(Bulkhead!Count(tally, {"baseline"}, {"rejected"}),
                        Bulkhead!Count(tally, {"baseline"}, Bulkhead!Classes), 1)
  BY Zenon DEF Bulkhead!Failed
<1>2. \A p : /\ Count(tally, p, {"rejected"}) = Happened(heard, p, Steps, {"bulkhead"})
             /\ Count(tally, p, Bulkhead!Classes) = Happened(heard, p, Steps, Causes)
  BY BulkheadFits, Exact DEF LoadInv
<1>3. Happened(heard, Bulkhead!Names, Steps, {"bulkhead"}) \in Nat
  BY HappenedNat DEF LoadInv, Agrees, LoadOK
<1> QED
  BY <1>1, <1>2, <1>3, BulkheadSame DEF Bulkhead!Claim

LEMMA LatencyEarned ==
  ASSUME LoadInv, script = "latency", Latency!Failed(tally) = {}
  PROVE  Latency!Claim(heard)
<1>1. \A phase \in {"scg", "direct"} :
          Latency!Above(Latency!Successes(tally, phase), Latency!Requests(tally, phase), 99)
  BY Zenon DEF Latency!Failed
<1>2. \A p : /\ Count(tally, p, {"success"}) = Happened(heard, p, Steps, {"served"})
             /\ Count(tally, p, {"success", "error"}) = Happened(heard, p, Steps, Causes)
  BY LatencyFits, Exact DEF LoadInv
<1> QED
  BY <1>1, <1>2, LatencySame DEF Latency!Claim, Latency!Successes, Latency!Requests

LEMMA SoakEarned ==
  ASSUME LoadInv, script = "soak", Soak!Failed(tally) = {}
  PROVE  Soak!Claim(heard)
<1> DEFINE right == Soak!Kinds \ {Soak!BadRequest}
           bad   == {"bulkhead", "fallback", "error", "lost"}
           errors == Count(tally, {"soak"}, {"error"})
           sampled == Count(tally, {"soak"}, {"sampled"})
           wrong == Happened(heard, {"soak"}, right, bad)
<1>1. Soak!Below(Soak!All(tally, "error"), Soak!All(tally, "sampled"), 1)
  BY Zenon DEF Soak!Failed
<1>2. sampled = 0 \/ 100 * errors < 1 * sampled
  BY <1>1, SoakSame DEF Soak!Below, Soak!All
<1>3. sampled = Happened(heard, {"soak"}, right, Causes)
  BY SoakFits, Exact DEF LoadInv
<1>4. errors >= wrong
  BY SoakFits DEF LoadInv, Agrees, AtLeast
<1>5. errors \in Nat /\ sampled \in Nat /\ wrong \in Nat
  BY CountNat, HappenedNat DEF LoadInv, Agrees, LoadOK
<1> HIDE DEF errors, sampled, wrong
<1>6. sampled = 0 \/ 100 * wrong < 1 * sampled
  BY <1>2, <1>4, <1>5
<1> QED
  BY <1>3, <1>6, SoakSame DEF Soak!Claim, Soak!Below, wrong

LEMMA SeatEarned ==
  ASSUME LoadInv, script = "seat", Seat!Failed(tally) = {}
  PROVE  Seat!Claim(heard)
<1>1. /\ ~ (Seat!All(tally, "success") < 1)
      /\ ~ (100 * Seat!All(tally, "server_error") >= 5 * Seat!Total(tally))
  BY Zenon DEF Seat!Failed
<1>2. /\ Count(tally, {"contention"}, {"success"}) = Happened(heard, {"contention"}, Steps, {"served"})
      /\ Count(tally, {"contention"}, {"server_error"})
             = Happened(heard, {"contention"}, Steps, {"fallback", "error"})
      /\ Count(tally, {"contention"}, Seat!Classes) = Happened(heard, {"contention"}, Steps, Causes)
  BY SeatFits, Exact DEF LoadInv
<1>3. \A causes : Happened(heard, {"contention"}, Steps, causes) \in Nat
  BY HappenedNat DEF LoadInv, Agrees, LoadOK
<1> QED
  BY <1>1, <1>2, <1>3, SeatSame DEF Seat!Claim, Seat!Below, Seat!All, Seat!Total

LEMMA JourneyEarned ==
  ASSUME LoadInv, script = "journey", Journey!Failed(tally) = {}
  PROVE  Journey!Claim(heard)
<1>1. Journey!Above(Journey!All(tally, "complete"), Journey!Ended(tally), 50)
  BY Zenon DEF Journey!Failed
<1>2. /\ Count(tally, {"journey"}, {"complete"}) = Happened(heard, {"journey"}, {Journey!Pay}, {"served"})
      /\ Count(tally, {"journey"}, {"incomplete"})
             = Happened(heard, {"journey"}, {Journey!Join, Journey!Reserve, Journey!Pay}, Causes \ {"served"})
  BY JourneyFits, Exact DEF LoadInv
<1>3. Count(tally, {"journey"}, {"complete", "incomplete"})
          = Count(tally, {"journey"}, {"complete"}) + Count(tally, {"journey"}, {"incomplete"})
  BY TwoCounts
<1> QED
  BY <1>1, <1>2, <1>3, JourneySame DEF Journey!Claim, Journey!All, Journey!Ended

LEMMA IdempotencyEarned ==
  ASSUME LoadInv, script = "idempotency", Idempotency!Failed(tally) = {}
  PROVE  Idempotency!Claim(heard)
<1>1. Idempotency!Below(Idempotency!All(tally, "server_error"), Idempotency!All(tally, "sampled"), 10)
  BY Zenon DEF Idempotency!Failed
<1>2. \A p : /\ Count(tally, p, {"server_error"}) = Happened(heard, p, Steps, {"bulkhead", "fallback", "error"})
             /\ Count(tally, p, {"sampled"}) = Happened(heard, p, Steps, Causes)
  BY IdempotencyFits, Exact DEF LoadInv
<1> QED
  BY <1>1, <1>2, IdempotencySame DEF Idempotency!Claim, Idempotency!All

LEMMA SagaEarned ==
  ASSUME LoadInv, script = "saga", Saga!Failed(tally) = {}
  PROVE  Saga!Claim(heard)
<1>1. Saga!Above(Saga!All(tally, "complete"), Saga!Sampled(tally), 50)
  BY Zenon DEF Saga!Failed
<1>2. /\ Count(tally, Saga!Flow, {"complete"}) = Happened(heard, Saga!Flow, Steps, {"served"})
      /\ Count(tally, Saga!Flow, {"complete", "incomplete"}) = Happened(heard, Saga!Flow, Steps, Causes)
  BY SagaFits, Exact DEF LoadInv
<1> QED
  BY <1>1, <1>2, SagaSame DEF Saga!Claim, Saga!All, Saga!Sampled

LEMMA ResilienceEarned ==
  ASSUME LoadInv, script = "resilience", Resilience!Failed(tally) = {}
  PROVE  Resilience!Claim(heard)
<1> DEFINE good == {"limiter", "served", "refused"}
           bad  == {"fallback", "bulkhead", "error", "lost"}
           both == {"probe", "normal"}
<1>1. ~ (Resilience!All(tally, "normal_ok") < Resilience!All(tally, "normal"))
  BY Zenon DEF Resilience!Failed
<1>2. /\ Count(tally, both, {"normal"}) = Happened(heard, {"normal"}, Steps, Causes)
      /\ Count(tally, both, {"normal_ok"}) <= Happened(heard, {"normal"}, Steps, good)
  BY ResilienceFits, Exact DEF LoadInv, Agrees, AtMost
<1>3. Counted(heard) /\ Counted(tally)
  BY DEF LoadInv, Agrees, LoadOK
<1>4. good \cup bad = Causes /\ good \cap bad = {} /\ Steps \cup Steps = Steps
  BY DEF Causes
<1> HIDE DEF good, bad
<1>5. Happened(heard, {"normal"}, Steps \cup Steps, good \cup bad)
          = Happened(heard, {"normal"}, Steps, good) + Happened(heard, {"normal"}, Steps, bad)
  BY <1>3, <1>4, HappenedParts
<1>6. /\ Happened(heard, {"normal"}, Steps, good) \in Nat /\ Happened(heard, {"normal"}, Steps, bad) \in Nat
      /\ Count(tally, both, {"normal"}) \in Nat /\ Count(tally, both, {"normal_ok"}) \in Nat
  BY <1>3, HappenedNat, CountNat
<1>7. ~ (Count(tally, both, {"normal_ok"}) < Count(tally, both, {"normal"}))
  BY <1>1, ResilienceSame DEF Resilience!All
<1> DEFINE happened(causes) == Happened(heard, {"normal"}, Steps, causes)
<1>8. happened(Causes) = happened(good) + happened(bad)
  BY <1>4, <1>5
<1>9. /\ Count(tally, both, {"normal"}) = happened(Causes)
      /\ Count(tally, both, {"normal_ok"}) <= happened(good)
  BY <1>2
<1> HIDE DEF both
<1>10. happened(bad) = 0
  BY <1>6, <1>7, <1>8, <1>9
<1> QED
  BY <1>10, ResilienceSame DEF Resilience!Claim, bad

LEMMA InvariantEarned ==
  ASSUME LoadInv, script = "invariant", Invariant!Failed(tally) = {}
  PROVE  Invariant!Claim(heard)
<1>1. Invariant!All(tally, "server_error") = 0
  BY DEF Invariant!Failed
<1>2. Count(tally, {"contention"}, {"server_error"}) = Happened(heard, {"contention"}, Steps, {"error"})
  BY InvariantFits, Exact DEF LoadInv
<1> QED
  BY <1>1, <1>2, InvariantSame DEF Invariant!Claim, Invariant!All

\* So PASS is earned.
LEMMA PassHolds == LoadInv => PassIsEarned
<1> SUFFICES ASSUME LoadInv, Failed = {} PROVE PassIsEarned
  BY Zenon DEF PassIsEarned, Passes
<1>0. script \in AllScripts
  BY Known DEF LoadInv, Agrees
<1>1. CASE script = "limiter"
  BY <1>1, LimiterEarned, Zenon DEF PassIsEarned, Failed
<1>2. CASE script = "breaker"
  BY <1>2, BreakerEarned, Zenon DEF PassIsEarned, Failed
<1>3. CASE script = "bulkhead"
  BY <1>3, BulkheadEarned, Zenon DEF PassIsEarned, Failed
<1>4. CASE script = "latency"
  BY <1>4, LatencyEarned, Zenon DEF PassIsEarned, Failed
<1>5. CASE script = "soak"
  BY <1>5, SoakEarned, Zenon DEF PassIsEarned, Failed
<1>6. CASE script = "seat"
  BY <1>6, SeatEarned, Zenon DEF PassIsEarned, Failed
<1>7. CASE script = "journey"
  BY <1>7, JourneyEarned, Zenon DEF PassIsEarned, Failed
<1>8. CASE script = "idempotency"
  BY <1>8, IdempotencyEarned, Zenon DEF PassIsEarned, Failed
<1>9. CASE script = "saga"
  BY <1>9, SagaEarned, Zenon DEF PassIsEarned, Failed
<1>10. CASE script = "resilience"
  BY <1>10, ResilienceEarned, Zenon DEF PassIsEarned, Failed
<1>11. CASE script = "invariant"
  BY <1>11, InvariantEarned, Zenon DEF PassIsEarned, Failed
<1> QED
  BY <1>0, <1>1, <1>2, <1>3, <1>4, <1>5, <1>6, <1>7, <1>8, <1>9, <1>10, <1>11 DEF AllScripts

\* Whatever the system did and however much load there was, what a script claims by
\* PASS is true of what happened (thresholds and overallPass of handleSummary).
THEOREM PassIsAlwaysEarned == LoadSpec => []PassIsEarned
BY LoadInvHolds, PassHolds, PTL

-----------------------------------------------------------------------------
(* Recoveries.                                                             *)

PhaseNames == {Phases[i].name : i \in DOMAIN Phases}
Recovered  == {v \in VUs : "recovered" \in vu[v].memory}
Losses     == Happened(heard, PhaseNames, Steps, {"fallback", "bulkhead"})
Successes  == Happened(heard, PhaseNames, Steps, {"served", "refused"})
Saw        == {"saw_fallback", "saw_rejection"}

Remembers ==
    script \in {"breaker", "bulkhead"} =>
        /\ Count(tally, PhaseNames, {"recovered"}) = Cardinality(Recovered)
        /\ \A v \in VUs :
              /\ vu[v].memory \cap Saw # {} => Losses > 0
              /\ "recovered" \in vu[v].memory => vu[v].memory \cap Saw # {} /\ Successes > 0

\* What the VUs remember implies that recoveries follow losses.
LEMMA RecoveryHolds == Remembers => RecoveryFollowsLoss
BY DEF Remembers, RecoveryFollowsLoss, PhaseNames, Recovered, Losses, Successes

\* What is seen for the first time.
LEMMA RecoveryCounts ==
  ASSUME LoadOK, script \in {"breaker", "bulkhead"}, NEW v \in VUs, vu[v].phase # 0,
         NEW r \in Answers(NameOf(vu[v].phase), vu[v].step), Respond(v, r)
  PROVE  Count(tally', PhaseNames, {"recovered"})
             = Count(tally, PhaseNames, {"recovered"})
               + (IF "recovered" \in Remember(vu[v].memory, NameOf(vu[v].phase), r) \ vu[v].memory
                  THEN 1 ELSE 0)
<1> DEFINE name == NameOf(vu[v].phase)
           step == vu[v].step
           n    == vu[v].repeats
           L    == Labels(name, step, r)
           M    == Remember(vu[v].memory, name, r) \ vu[v].memory
           mid  == tally (+) Tallied(name, L, n)
<1>1. /\ vu[v].phase \in DOMAIN Phases /\ step \in StepsOf /\ n \in Nat /\ vu[v].memory \in SUBSET Seen
      /\ Counted(tally)
  BY DEF LoadOK
<1>2. IsFiniteSet(L)
  BY <1>1, Known, LabelsKnown, AllLabelsFinite, FS_Subset
<1>3. M \in SUBSET Seen /\ IsFiniteSet(M)
  BY <1>1, RememberIs, SeenFinite
<1>4. tally' = mid (+) Tallied(name, M, 1)
  BY DEF Respond, NameOf
<1>5. L \cap {"recovered"} = {}
  <2>1. CASE script = "breaker"
    <3>1. OfBreaker(r.cause, L)
      BY <2>1, BreakerLabels
    <3> HIDE DEF L
    <3> QED
      BY <3>1 DEF OfBreaker
  <2>2. CASE script = "bulkhead"
    <3>1. OfBulkhead(r.cause, L)
      BY <2>2, BulkheadLabels
    <3> HIDE DEF L
    <3> QED
      BY <3>1 DEF OfBulkhead
  <2> QED
    BY <2>1, <2>2
<1>6. name \in PhaseNames
  BY <1>1 DEF PhaseNames, NameOf
<1> HIDE DEF name, step, n, L, M
<1>7. Counted(mid) /\ Count(mid, PhaseNames, {"recovered"}) = Count(tally, PhaseNames, {"recovered"})
  <2>1. Counted(mid)
    BY <1>1, <1>2, TalliedCounted, PlusCounted
  <2>2. Count(mid, PhaseNames, {"recovered"}) = Count(tally, PhaseNames, {"recovered"})
    BY <1>1, <1>2, <1>5, CountMisses
  <2> QED
    BY <2>1, <2>2
<1>8. Count(tally, PhaseNames, {"recovered"}) \in Nat
  BY <1>1, CountNat
<1> HIDE DEF mid
<1>9. CASE "recovered" \in M
  <2>1. M \cap {"recovered"} = {"recovered"}
    BY <1>9
  <2>2. Count(tally', PhaseNames, {"recovered"}) = Count(mid, PhaseNames, {"recovered"}) + 1
    BY <1>3, <1>4, <1>6, <1>7, <2>1, CountHits
  <2> QED
    BY <1>7, <1>9, <2>2 DEF M, name
<1>10. CASE "recovered" \notin M
  <2>1. M \cap {"recovered"} = {}
    BY <1>10
  <2>2. Count(tally', PhaseNames, {"recovered"}) = Count(mid, PhaseNames, {"recovered"})
    BY <1>3, <1>4, <1>7, <2>1, CountMisses
  <2> QED
    BY <1>7, <1>8, <1>10, <2>2 DEF M, name
<1> QED
  BY <1>9, <1>10

\* A VU remembers what it has met, and a recovery only after a loss.
LEMMA RememberedIs ==
  ASSUME script \in {"breaker", "bulkhead"}, NEW memory \in SUBSET Seen, NEW name, NEW step,
         NEW r \in Answers(name, step)
  PROVE  LET new == Remember(memory, name, r) IN
         /\ new \cap Saw # {} => memory \cap Saw # {} \/ r.cause \in {"fallback", "bulkhead"}
         /\ "recovered" \in new =>
                \/ "recovered" \in memory
                \/ memory \cap Saw # {} /\ r.cause \in {"served", "refused"}
<1>1. FromGateway(r) \/ FromService(r)
  BY AnswersAre DEF Reserves, Creates
<1>2. r.status \in {200, 404} => r.cause \in {"served", "refused"}
  BY <1>1 DEF FromGateway, FromService, Gives
<1>3. /\ (r.status = 503 /\ r.text = Busy) <=> r.cause = "bulkhead"
      /\ (r.status = 503 /\ r.text = Unavailable) <=> r.cause = "fallback"
  BY <1>1, Rejections
<1>4. CASE script = "breaker"
  <2>1. Breaker!IsFallback(r) <=> r.cause = "fallback"
    BY <1>3 DEF Breaker!IsFallback, Breaker!Unavailable, Unavailable
  <2>2. Remember(memory, name, r) = Breaker!Remember(memory, name, r)
    BY <1>4 DEF Remember
  <2> QED
    BY <1>2, <2>1, <2>2 DEF Breaker!Remember, Saw
<1>5. CASE script = "bulkhead"
  <2>1. Bulkhead!IsRejected(r) <=> r.cause = "bulkhead"
    BY <1>3 DEF Bulkhead!IsRejected, Bulkhead!Busy, Busy
  <2>2. Remember(memory, name, r) = Bulkhead!Remember(memory, name, r)
    BY <1>5 DEF Remember
  <2> QED
    BY <1>2, <2>1, <2>2 DEF Bulkhead!Remember, Saw
<1> QED
  BY <1>4, <1>5

\* At first nobody remembers anything, ...
LEMMA RemembersInit == LoadInit => Remembers
<1> SUFFICES ASSUME LoadInit PROVE Remembers
  OBVIOUS
<1>1. DOMAIN EmptyBag = {}
  BY DEF EmptyBag, SetToBag
<1>2. {entry \in DOMAIN tally : entry[1] \in PhaseNames /\ entry[2] \in {"recovered"}} = {}
  BY <1>1 DEF LoadInit
<1>3. Count(tally, PhaseNames, {"recovered"}) = 0
  BY <1>2, SumEmpty DEF Count
<1>4. \A v \in VUs : vu[v].memory = {}
  BY DEF LoadInit, Idle
<1>5. Recovered = {} /\ Cardinality({}) = 0
  BY <1>4, FS_EmptySet DEF Recovered
<1> QED
  BY <1>3, <1>4, <1>5 DEF Remembers

\* ... and every step keeps the memories true.
LEMMA RemembersStep == LoadOK /\ Remembers /\ [LoadNext]_loadVars => Remembers'
<1> SUFFICES ASSUME LoadOK, Remembers, [LoadNext]_loadVars, script' \in {"breaker", "bulkhead"}
             PROVE  /\ Count(tally', PhaseNames', {"recovered"}) = Cardinality(Recovered')
                    /\ \A v \in VUs :
                          /\ vu'[v].memory \cap Saw # {} => Losses' > 0
                          /\ "recovered" \in vu'[v].memory => vu'[v].memory \cap Saw # {} /\ Successes' > 0
  BY DEF Remembers
<1>1. script' = script
  BY DEF LoadNext, loadVars, Setup, NextGroup, End, Begin, Respond, Interrupt
<1>2. Phases' = Phases /\ PhaseNames' = PhaseNames
  <2>1. Phases' = Phases
    BY <1>1, ScriptStays
  <2> QED
    BY <2>1 DEF PhaseNames
<1>3. /\ Count(tally, PhaseNames, {"recovered"}) = Cardinality(Recovered)
      /\ \A v \in VUs :
            /\ vu[v].memory \cap Saw # {} => Losses > 0
            /\ "recovered" \in vu[v].memory => vu[v].memory \cap Saw # {} /\ Successes > 0
  BY <1>1 DEF Remembers
\* A step in which nobody learns anything.
<1>4. ASSUME \A v \in VUs : vu'[v].memory = vu[v].memory, heard' = heard,
             Count(tally', PhaseNames, {"recovered"}) = Count(tally, PhaseNames, {"recovered"})
      PROVE  /\ Count(tally', PhaseNames', {"recovered"}) = Cardinality(Recovered')
             /\ \A v \in VUs :
                   /\ vu'[v].memory \cap Saw # {} => Losses' > 0
                   /\ "recovered" \in vu'[v].memory => vu'[v].memory \cap Saw # {} /\ Successes' > 0
  <2>1. Recovered' = Recovered
    BY <1>4 DEF Recovered
  <2>2. Losses' = Losses /\ Successes' = Successes
    BY <1>2, <1>4 DEF Losses, Successes
  <2> QED
    BY <1>2, <1>3, <1>4, <2>1, <2>2
<1>5. CASE Setup \/ NextGroup \/ End \/ UNCHANGED loadVars
  <2>1. vu' = vu /\ tally' = tally /\ heard' = heard
    BY <1>5 DEF Setup, NextGroup, End, loadVars
  <2> QED
    BY <1>4, <2>1
<1>6. ASSUME NEW v \in VUs, NEW i \in DOMAIN Phases, NEW step \in Starts, NEW n \in Repeats[script],
             Begin(v, i, step, n)
      PROVE  /\ \A w \in VUs : vu'[w].memory = vu[w].memory
             /\ heard' = heard
             /\ Count(tally', PhaseNames, {"recovered"}) = Count(tally, PhaseNames, {"recovered"})
  <2>1. vu' = [vu EXCEPT ![v] = [phase |-> i, step |-> step, repeats |-> n, memory |-> vu[v].memory]]
    BY <1>6 DEF Begin
  <2>2. \A w \in VUs : vu'[w].memory = vu[w].memory
    BY <2>1 DEF LoadOK
  <2>3. "attempt" \notin {"recovered"}
    OBVIOUS
  <2>4. Count(tally', PhaseNames, {"recovered"}) = Count(tally, PhaseNames, {"recovered"})
    BY <1>6, <2>3, BeginCounts
  <2> QED
    BY <1>6, <2>2, <2>4 DEF Begin
<1>7. ASSUME NEW v \in VUs, Interrupt(v)
      PROVE  /\ \A w \in VUs : vu'[w].memory = vu[w].memory
             /\ heard' = heard
             /\ Count(tally', PhaseNames, {"recovered"}) = Count(tally, PhaseNames, {"recovered"})
  <2>1. vu' = [vu EXCEPT ![v] = [Idle EXCEPT !.memory = vu[v].memory]]
    BY <1>7 DEF Interrupt
  <2>2. \A w \in VUs : vu'[w].memory = vu[w].memory
    BY <2>1 DEF LoadOK, Idle
  <2> QED
    BY <1>7, <2>2 DEF Interrupt
<1>8. ASSUME NEW v \in VUs, vu[v].phase # 0, NEW r \in Answers(NameOf(vu[v].phase), vu[v].step), Respond(v, r)
      PROVE  /\ Count(tally', PhaseNames', {"recovered"}) = Cardinality(Recovered')
             /\ \A w \in VUs :
                   /\ vu'[w].memory \cap Saw # {} => Losses' > 0
                   /\ "recovered" \in vu'[w].memory => vu'[w].memory \cap Saw # {} /\ Successes' > 0
  <2> DEFINE name == NameOf(vu[v].phase)
             step == vu[v].step
             n    == vu[v].repeats
             old  == vu[v].memory
             new  == Remember(old, name, r)
             next == After(name, step, r)
  <2>1. /\ vu[v].phase \in DOMAIN Phases /\ step \in StepsOf /\ n \in Nat \ {0} /\ old \in SUBSET Seen
        /\ name \in PhaseNames /\ script \in {"breaker", "bulkhead"} /\ step \in Steps
    BY <1>1, <1>8 DEF LoadOK, PhaseNames, NameOf, StepsOf
  <2>2. (\A w \in VUs \ {v} : vu'[w] = vu[w]) /\ vu'[v].memory = new
    <3>1. vu' = [vu EXCEPT ![v] = IF next = 0 THEN [Idle EXCEPT !.memory = new]
                                  ELSE [vu[v] EXCEPT !.step = next, !.memory = new]]
      BY <1>8 DEF Respond, LoadOK, NameOf
    <3>2. vu[v] \in [phase : DOMAIN Phases \cup {0}, step : StepsOf, repeats : Nat \ {0}, memory : SUBSET Seen]
      BY DEF LoadOK
    <3> HIDE DEF new, next
    <3>3. vu'[v] = IF next = 0 THEN [Idle EXCEPT !.memory = new]
                   ELSE [vu[v] EXCEPT !.step = next, !.memory = new]
      BY <3>1 DEF LoadOK
    <3>4. vu'[v].memory = new
      BY <3>2, <3>3 DEF Idle
    <3> QED
      BY <3>1, <3>4 DEF LoadOK
  <2>3. old \subseteq new
    BY <2>1, RememberIs
  <2>4. /\ new \cap Saw # {} => old \cap Saw # {} \/ r.cause \in {"fallback", "bulkhead"}
        /\ "recovered" \in new => "recovered" \in old \/ (old \cap Saw # {} /\ r.cause \in {"served", "refused"})
    BY <1>8, <2>1, RememberedIs
  <2>5. /\ Losses' = Losses + (IF r.cause \in {"fallback", "bulkhead"} THEN n ELSE 0)
        /\ Successes' = Successes + (IF r.cause \in {"served", "refused"} THEN n ELSE 0)
        /\ Losses \in Nat /\ Successes \in Nat
    <3>1. Matters(name, step)
      BY <2>1 DEF Matters
    <3>2. \A causes : Happened(heard', PhaseNames, Steps, causes)
                          = Happened(heard, PhaseNames, Steps, causes) + (IF r.cause \in causes THEN n ELSE 0)
      BY <1>8, <2>1, <3>1, RespondCounts
    <3>3. \A causes : Happened(heard, PhaseNames, Steps, causes) \in Nat
      BY HappenedNat DEF LoadOK
    <3> HIDE DEF name, step, n
    <3> QED
      BY <1>2, <3>2, <3>3 DEF Losses, Successes
  <2>6. Count(tally', PhaseNames, {"recovered"})
            = Count(tally, PhaseNames, {"recovered"}) + (IF "recovered" \in new \ old THEN 1 ELSE 0)
    BY <1>8, <2>1, RecoveryCounts
  <2> HIDE DEF name, step, n, new, next
  <2>7. ASSUME NEW w \in VUs
        PROVE  /\ vu'[w].memory \cap Saw # {} => Losses' > 0
               /\ "recovered" \in vu'[w].memory => vu'[w].memory \cap Saw # {} /\ Successes' > 0
    <3>1. CASE w # v
      BY <1>3, <2>1, <2>2, <2>5, <3>1
    <3>2. CASE w = v
      BY <1>3, <2>1, <2>2, <2>3, <2>4, <2>5, <3>2
    <3> QED
      BY <3>1, <3>2
  <2>8. Recovered' = IF "recovered" \in new \ old THEN Recovered \cup {v} ELSE Recovered
    <3>1. \A w \in VUs : "recovered" \in vu'[w].memory
                             <=> "recovered" \in vu[w].memory \/ (w = v /\ "recovered" \in new \ old)
      BY <2>2, <2>3
    <3>2. Recovered' = {w \in VUs : "recovered" \in vu'[w].memory}
      BY DEF Recovered
    <3> HIDE DEF old
    <3> QED
      BY <3>1, <3>2 DEF Recovered
  <2>9. Cardinality(Recovered') = Cardinality(Recovered) + (IF "recovered" \in new \ old THEN 1 ELSE 0)
    <3>1. IsFiniteSet(Recovered) /\ Cardinality(Recovered) \in Nat
      <4>1. IsFiniteSet(Recovered)
        BY ScriptsAssumption, FS_Subset DEF Recovered
      <4> QED
        BY <4>1, FS_CardinalityType
    <3>2. "recovered" \in new \ old => v \notin Recovered
      BY DEF Recovered
    <3>3. v \notin Recovered => Cardinality(Recovered \cup {v}) = Cardinality(Recovered) + 1
      BY <3>1, FS_AddElement
    <3> HIDE DEF old
    <3> QED
      BY <2>8, <3>1, <3>2, <3>3
  <2> QED
    BY <1>2, <1>3, <2>6, <2>7, <2>9
<1> QED
  BY <1>4, <1>5, <1>6, <1>7, <1>8 DEF LoadNext, NameOf

\* However many VUs there are, each reports one recovery at most, and only after a
\* loss that was counted and with a success that was (vuFirstRecovery).
THEOREM RecoveryAlwaysFollowsLoss == LoadSpec => []RecoveryFollowsLoss
<1>1. LoadInit => LoadOK /\ Remembers
  BY LoadTypeInit, RemembersInit
<1>2. LoadOK /\ Remembers /\ [LoadNext]_loadVars => (LoadOK /\ Remembers)'
  BY LoadTypeStep, RemembersStep
<1>3. Remembers => RecoveryFollowsLoss
  BY RecoveryHolds
<1> QED
  BY <1>1, <1>2, <1>3, PTL DEF LoadSpec

-----------------------------------------------------------------------------
(* FAIL.                                                                   *)

\* Each script explains the criteria that failed, but for those it forgets.
LEMMA LimiterExplains ==
  ASSUME script = "limiter"
  PROVE  Unexplained(Limiter!Diagnoses(tally), Itself) = {}
<1>1. Limiter!Failed(tally) \subseteq {"burst", "baseline", "recovery", "blocked", "unexpected"}
  BY Zenon DEF Limiter!Failed
<1>2. \A rule \in {"baseline", "recovery", "blocked"} :
          rule \in Limiter!Failed(tally) => rule \in Limiter!Diagnoses(tally)
  BY Zenon DEF Limiter!Diagnoses
<1>3. "burst" \in Limiter!Failed(tally) => "burst" \in Limiter!Diagnoses(tally)
  BY Zenon DEF Limiter!Diagnoses
<1>4. "unexpected" \in Limiter!Failed(tally) => "unexpected" \in Limiter!Diagnoses(tally)
  BY Zenon DEF Limiter!Diagnoses
<1>5. Failed = Limiter!Failed(tally)
  BY Zenon DEF Failed
<1> QED
  BY <1>1, <1>2, <1>3, <1>4, <1>5 DEF Unexplained, Itself

LEMMA BreakerExplains ==
  ASSUME LoadOK, script = "breaker"
  PROVE  Unexplained(Breaker!Diagnoses(tally), Breaker!Explains) = Failed \cap Breaker!Unexplained(tally)
<1> DEFINE fallbacks(phases) == Count(tally, phases, {"fallback"})
<1>1. Breaker!Failed(tally) \subseteq {"baseline", "fault", "pure", "none", "unexpected"}
  BY Zenon DEF Breaker!Failed
<1>2. \A rule \in {"baseline", "unexpected"} :
          rule \in Breaker!Failed(tally) => rule \in Breaker!Diagnoses(tally)
  BY Zenon DEF Breaker!Diagnoses
<1>3. "fault" \in Breaker!Failed(tally) => "fault" \in Breaker!Diagnoses(tally)
  BY Zenon DEF Breaker!Diagnoses
<1>4. "pure" \notin Breaker!Diagnoses(tally)
  BY Zenon DEF Breaker!Diagnoses
<1>5. "none" \in Breaker!Failed(tally) => "fault" \in Breaker!Failed(tally)
  <2>1. "none" \in Breaker!Failed(tally) => Breaker!Count(tally, Breaker!Names, {"fallback"}) = 0
    BY Zenon DEF Breaker!Failed
  <2>2. "fault" \notin Breaker!Failed(tally) =>
            Breaker!Above(Breaker!Count(tally, {"fault"}, {"fallback"}),
                          Breaker!Count(tally, {"fault"}, Breaker!Classes), 30)
    BY Zenon DEF Breaker!Failed
  <2>3. fallbacks({"fault"}) <= fallbacks(Breaker!Names)
    BY CountMore DEF LoadOK, Breaker!Names
  <2>4. /\ fallbacks({"fault"}) \in Nat /\ fallbacks(Breaker!Names) \in Nat
        /\ Count(tally, {"fault"}, Breaker!Classes) \in Nat
    BY CountNat DEF LoadOK
  <2>5. fallbacks(Breaker!Names) = 0 =>
            ~ Breaker!Above(fallbacks({"fault"}), Count(tally, {"fault"}, Breaker!Classes), 30)
    BY <2>3, <2>4 DEF Breaker!Above
  <2> QED
    BY <2>1, <2>2, <2>5, BreakerSame
<1>6. Failed = Breaker!Failed(tally)
  BY Zenon DEF Failed
<1> QED
  BY <1>1, <1>2, <1>3, <1>4, <1>5, <1>6 DEF Unexplained, Breaker!Explains, Breaker!Unexplained

LEMMA BulkheadExplains ==
  ASSUME script = "bulkhead"
  PROVE  Unexplained(Bulkhead!Diagnoses(tally), Itself) = Failed \cap Bulkhead!Unexplained(tally)
<1> DEFINE many == Bulkhead!Sent(tally) > 20
           none == Bulkhead!Count(tally, Bulkhead!Names, {"rejected"}) = 0
<1>1. Bulkhead!Failed(tally) \subseteq {"baseline", "none", "slow", "unexpected"}
  BY Zenon DEF Bulkhead!Failed
<1>2. \A rule \in {"baseline", "slow", "unexpected"} :
          rule \in Bulkhead!Failed(tally) => rule \in Bulkhead!Diagnoses(tally)
  BY Zenon DEF Bulkhead!Diagnoses
<1>3. "none" \in Bulkhead!Failed(tally) <=> none
  BY Zenon DEF Bulkhead!Failed
<1>4. "none" \in Bulkhead!Diagnoses(tally) <=> none /\ many
  BY Zenon DEF Bulkhead!Diagnoses
<1>5. Failed = Bulkhead!Failed(tally)
  BY Zenon DEF Failed
<1>6. Bulkhead!Unexplained(tally) = IF many THEN {} ELSE {"none"}
  BY DEF Bulkhead!Unexplained
<1> HIDE DEF many, none
<1> QED
  BY <1>1, <1>2, <1>3, <1>4, <1>5, <1>6 DEF Unexplained, Itself

LEMMA LatencyExplains ==
  ASSUME LoadOK, script = "latency"
  PROVE  Unexplained(Latency!Diagnoses(tally), Itself) = Failed \cap Latency!Unexplained(tally)
<1> DEFINE over == Latency!Overhead(tally)
           scg    == Latency!Successes(tally, "scg")
           direct == Latency!Successes(tally, "direct")
<1>1. Latency!Failed(tally) \subseteq {"overhead", "scg", "direct"}
  BY Zenon DEF Latency!Failed
<1>2. "overhead" \in Latency!Failed(tally) <=> over >= 1
  BY Zenon DEF Latency!Failed
<1>3. "overhead" \in Latency!Diagnoses(tally) <=> over > 1 /\ scg > 0 /\ direct > 0
  BY Zenon DEF Latency!Diagnoses
<1>4. "scg" \notin Latency!Diagnoses(tally) /\ "direct" \notin Latency!Diagnoses(tally)
  BY Zenon DEF Latency!Diagnoses
<1>5. scg \in Nat /\ direct \in Nat
  BY LatencySame, CountNat DEF LoadOK, Latency!Successes
<1>6. over \in Int
  <2>1. \A phase : Latency!P95(tally, phase) \in {0, 1, 2}
    BY DEF Latency!P95
  <2> QED
    BY <2>1 DEF Latency!Overhead
<1>7. Failed = Latency!Failed(tally)
  BY Zenon DEF Failed
<1>8. Latency!Unexplained(tally)
          = {"scg", "direct"} \cup (IF over = 1 \/ scg * direct = 0 THEN {"overhead"} ELSE {})
  BY DEF Latency!Unexplained
<1> HIDE DEF over, scg, direct
<1>9. scg * direct = 0 <=> scg = 0 \/ direct = 0
  BY <1>5
<1>10. over >= 1 => (~ (over > 1 /\ scg > 0 /\ direct > 0) <=> over = 1 \/ scg * direct = 0)
  BY <1>5, <1>6, <1>9
<1> QED
  BY <1>1, <1>2, <1>3, <1>4, <1>7, <1>8, <1>10 DEF Unexplained, Itself

LEMMA SoakExplains ==
  ASSUME script = "soak"
  PROVE  Unexplained(Soak!Diagnoses(tally), Itself) = Failed \cap Soak!Unexplained(tally)
<1>1. Soak!Failed(tally) \subseteq {"p95", "error", "unexpected"}
  BY Zenon DEF Soak!Failed
<1>2. Failed = Soak!Failed(tally)
  BY Zenon DEF Failed
<1> QED
  BY <1>1, <1>2 DEF Unexplained, Itself, Soak!Diagnoses, Soak!Unexplained

LEMMA SeatExplains ==
  ASSUME LoadOK, script = "seat"
  PROVE  Unexplained(Seat!Diagnoses(tally), Itself) = Failed \cap Seat!Unexplained(tally)
<1> DEFINE errors == Seat!All(tally, "server_error")
           total  == Seat!Total(tally)
<1>1. Seat!Failed(tally) \subseteq {"duplicate", "success", "server_error"}
  BY Zenon DEF Seat!Failed
<1>2. \A rule \in {"duplicate", "success"} : rule \in Seat!Failed(tally) => rule \in Seat!Diagnoses(tally)
  BY Zenon DEF Seat!Diagnoses
<1>3. "server_error" \in Seat!Failed(tally) <=> 100 * errors >= 5 * total
  BY Zenon DEF Seat!Failed
<1>4. "server_error" \in Seat!Diagnoses(tally) <=> Seat!Above(errors, total, 5)
  BY Zenon DEF Seat!Diagnoses
<1>5. errors \in Nat /\ total \in Nat
  BY SeatSame, CountNat DEF LoadOK, Seat!All, Seat!Total
<1>6. Failed = Seat!Failed(tally)
  BY Zenon DEF Failed
<1>7. Seat!Unexplained(tally) = IF 100 * errors = 5 * total THEN {"server_error"} ELSE {}
  BY DEF Seat!Unexplained
<1> HIDE DEF errors, total
<1>8. 100 * errors >= 5 * total => (~ Seat!Above(errors, total, 5) <=> 100 * errors = 5 * total)
  BY <1>5 DEF Seat!Above
<1> QED
  BY <1>1, <1>2, <1>3, <1>4, <1>6, <1>7, <1>8 DEF Unexplained, Itself

LEMMA JourneyExplains ==
  ASSUME script = "journey"
  PROVE  Unexplained(Journey!Diagnoses(tally), Itself) = Failed \cap Journey!Unexplained(tally)
<1>1. Journey!Failed(tally) \subseteq {"complete", "server_error"}
  BY Zenon DEF Journey!Failed
<1>2. Failed = Journey!Failed(tally)
  BY Zenon DEF Failed
<1> QED
  BY <1>1, <1>2 DEF Unexplained, Itself, Journey!Diagnoses, Journey!Unexplained

LEMMA IdempotencyExplains ==
  ASSUME script = "idempotency"
  PROVE  Unexplained(Idempotency!Diagnoses(tally), Itself) = Failed \cap Idempotency!Unexplained(tally)
<1>1. Idempotency!Failed(tally) \subseteq {"duplicate", "server_error"}
  BY Zenon DEF Idempotency!Failed
<1>2. Failed = Idempotency!Failed(tally)
  BY Zenon DEF Failed
<1> QED
  BY <1>1, <1>2 DEF Unexplained, Itself, Idempotency!Diagnoses, Idempotency!Unexplained

LEMMA SagaExplains ==
  ASSUME script = "saga"
  PROVE  Unexplained(Saga!Diagnoses(tally), Itself) = Failed \cap Saga!Unexplained(tally)
<1>1. Saga!Failed(tally) \subseteq {"complete", "server_error"}
  BY Zenon DEF Saga!Failed
<1>2. Failed = Saga!Failed(tally)
  BY Zenon DEF Failed
<1> QED
  BY <1>1, <1>2 DEF Unexplained, Itself, Saga!Diagnoses, Saga!Unexplained

LEMMA ResilienceExplains ==
  ASSUME script = "resilience", Resilience!HasData(tally)
  PROVE  Unexplained(Resilience!Diagnoses(tally), Itself) = Failed \cap Resilience!Unexplained(tally)
<1>1. Resilience!Failed(tally) \subseteq {"timeout", "fallback", "normal"}
  BY Zenon DEF Resilience!Failed
<1>2. Failed = Resilience!Failed(tally)
  BY Zenon DEF Failed
<1> QED
  BY <1>1, <1>2 DEF Unexplained, Itself, Resilience!Diagnoses, Resilience!Unexplained

LEMMA InvariantExplains ==
  ASSUME script = "invariant"
  PROVE  Unexplained(Invariant!Diagnoses(tally), Itself) = {}
<1>1. Failed = Invariant!Failed(tally)
  BY Zenon DEF Failed
<1> QED
  BY <1>1 DEF Unexplained, Itself, Invariant!Diagnoses

\* So FAIL is explained.
LEMMA FailHolds == LoadOK => FailIsExplained
<1> SUFFICES ASSUME LoadOK PROVE FailIsExplained
  OBVIOUS
<1>0. script \in AllScripts
  BY Known
<1>1. CASE script = "limiter"
  BY <1>1, LimiterExplains, Zenon DEF FailIsExplained
<1>2. CASE script = "breaker"
  BY <1>2, BreakerExplains, Zenon DEF FailIsExplained
<1>3. CASE script = "bulkhead"
  BY <1>3, BulkheadExplains, Zenon DEF FailIsExplained
<1>4. CASE script = "latency"
  BY <1>4, LatencyExplains, Zenon DEF FailIsExplained
<1>5. CASE script = "soak"
  BY <1>5, SoakExplains, Zenon DEF FailIsExplained
<1>6. CASE script = "seat"
  BY <1>6, SeatExplains, Zenon DEF FailIsExplained
<1>7. CASE script = "journey"
  BY <1>7, JourneyExplains, Zenon DEF FailIsExplained
<1>8. CASE script = "idempotency"
  BY <1>8, IdempotencyExplains, Zenon DEF FailIsExplained
<1>9. CASE script = "saga"
  BY <1>9, SagaExplains, Zenon DEF FailIsExplained
<1>10. CASE script = "resilience"
  BY <1>10, ResilienceExplains, Zenon DEF FailIsExplained
<1>11. CASE script = "invariant"
  BY <1>11, InvariantExplains, Zenon DEF FailIsExplained
<1> QED
  BY <1>0, <1>1, <1>2, <1>3, <1>4, <1>5, <1>6, <1>7, <1>8, <1>9, <1>10, <1>11 DEF AllScripts

\* A report that says FAIL explains every criterion that failed, but for the ones
\* that its script forgets, whatever was counted (diagnostics of handleSummary).
THEOREM FailIsAlwaysExplained == LoadSpec => []FailIsExplained
<1>1. LoadInit => LoadOK
  BY LoadTypeInit
<1>2. LoadOK /\ [LoadNext]_loadVars => LoadOK'
  BY LoadTypeStep
<1> QED
  BY <1>1, <1>2, FailHolds, PTL DEF LoadSpec
=============================================================================
