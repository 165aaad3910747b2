---------------------------- MODULE CountingProofs ----------------------------
(***************************************************************************)
(* Lemmas about numbers and sequences that the proofs of several           *)
(* components need: induction and recursion up to a number, places in an   *)
(* order, ascending lists and concatenations.                              *)
(***************************************************************************)
EXTENDS Integers, Sequences, FiniteSets, SequencesExt, Ordering, FiniteSetTheorems,
        FunctionTheorems, SequenceTheorems, WellFoundedInduction, TLAPS

LEMMA HasLeast ==
  ASSUME NEW S \in SUBSET Nat, S # {}
  PROVE  \E i \in S : \A j \in S : i <= j
<1> DEFINE Below == {p \in Nat \X Nat : p[1] < p[2]}
<1>1. IsWellFoundedOn(Below, Nat)
  BY NatLessThanWellFounded DEF OpToRel
<1>2. \A i, j \in S : j < i => <<j, i>> \in Below
  OBVIOUS
<1> HIDE DEF Below
<1>3. \E i \in S : \A j \in S : <<j, i>> \notin Below
  BY <1>1, WFMin
<1>4. PICK i \in S : \A j \in S : <<j, i>> \notin Below
  BY <1>3
<1>5. \A j \in S : ~(j < i)
  BY <1>2, <1>4
<1>6. QED
  BY <1>5

(* A set that holds 0, and with a number the next one, up to a last one.   *)
LEMMA InductionUpTo ==
  ASSUME NEW last \in Nat, NEW S, 0 \in S,
         \A n \in 0 .. last : n \in S /\ n < last => n + 1 \in S
  PROVE  \A n \in 0 .. last : n \in S
<1> DEFINE missing == {n \in 0 .. last : n \notin S}
<1>1. SUFFICES ASSUME missing # {}
               PROVE  FALSE
  OBVIOUS
<1>2. missing \in SUBSET Nat
  OBVIOUS
<1>3. PICK n \in missing : \A k \in missing : n <= k
  <2> HIDE DEF missing
  <2>1. QED
    BY <1>1, <1>2, HasLeast
<1>4. n \in 0 .. last /\ n \notin S /\ n # 0
  BY <1>3
<1>5. n - 1 \in 0 .. last /\ n - 1 < last /\ (n - 1) + 1 = n
  BY <1>4
<1>6. n - 1 \in S
  BY <1>3, <1>5
<1>7. QED
  BY <1>4, <1>5, <1>6

(* A function that is given by its first value and by a step exists.       *)
Follows(f, last, first, step) ==
    f[0] = first /\ \A n \in 1 .. last : f[n] = step[<<n, f[n - 1]>>]

LEMMA RecursionUpTo ==
  ASSUME NEW last \in Nat, NEW State, NEW first \in State,
         NEW step \in [(1 .. last) \X State -> State]
  PROVE  \E f \in [0 .. last -> State] : Follows(f, last, first, step)
<1> DEFINE IsUpTo(f, n) == /\ f \in [0 .. n -> State]
                           /\ f[0] = first
                           /\ \A m \in 1 .. n : f[m] = step[<<m, f[m - 1]>>]
           S == {n \in 0 .. last : \E f : IsUpTo(f, n)}
<1>1. 0 \in S
  <2>1. IsUpTo([m \in 0 .. 0 |-> first], 0)
    OBVIOUS
  <2> HIDE DEF IsUpTo
  <2>2. (\E f : IsUpTo(f, 0)) /\ 0 \in 0 .. last
    BY <2>1
  <2>3. QED
    BY <2>2
<1>2. ASSUME NEW n \in 0 .. last, n \in S, n < last
      PROVE  n + 1 \in S
  <2>1. PICK f : IsUpTo(f, n)
    BY <1>2
  <2> DEFINE g == [m \in 0 .. n + 1 |-> IF m = n + 1 THEN step[<<n + 1, f[n]>>] ELSE f[m]]
  <2>2. n + 1 \in 1 .. last /\ n \in 0 .. n /\ n \in Nat
    BY <1>2
  <2>3. step[<<n + 1, f[n]>>] \in State
    BY <2>1, <2>2
  <2>4. /\ g \in [0 .. n + 1 -> State]
        /\ \A m \in 0 .. n : g[m] = f[m]
        /\ g[n + 1] = step[<<n + 1, f[n]>>]
    BY <2>1, <2>2, <2>3
  <2> HIDE DEF g
  <2>5. g[0] = first
    BY <2>1, <2>2, <2>4
  <2>6. ASSUME NEW m \in 1 .. n + 1
        PROVE  g[m] = step[<<m, g[m - 1]>>]
    <3>1. CASE m = n + 1
      BY <2>2, <2>4, <3>1
    <3>2. CASE m \in 1 .. n
      <4>1. m - 1 \in 0 .. n /\ m \in 0 .. n
        BY <2>2, <3>2
      <4>2. QED
        BY <2>1, <2>4, <3>2, <4>1
    <3>3. QED
      BY <2>2, <3>1, <3>2
  <2>7. IsUpTo(g, n + 1)
    BY <2>4, <2>5, <2>6
  <2> HIDE DEF IsUpTo
  <2>8. (\E h : IsUpTo(h, n + 1)) /\ n + 1 \in 0 .. last
    BY <2>2, <2>7
  <2>9. QED
    BY <2>8
<1>3. last \in S
  <2> HIDE DEF S
  <2>1. \A n \in 0 .. last : n \in S
    BY <1>1, <1>2, InductionUpTo
  <2>2. QED
    BY <2>1
<1>4. PICK f : IsUpTo(f, last)
  BY <1>3
<1>5. Follows(f, last, first, step)
  BY <1>4 DEF Follows
<1>6. QED
  BY <1>4, <1>5

-----------------------------------------------------------------------------
(* Sums of numbers, whatever the order they are added in.                  *)

IsSum(sum, last, size) ==
    /\ sum \in [SUBSET (1 .. last) -> Nat]
    /\ sum[{}] = 0
    /\ \A set \in SUBSET (1 .. last) : \A n \in set : sum[set] = sum[set \ {n}] + size[n]

LEMMA SumExists ==
  ASSUME NEW last \in Nat, NEW size \in [1 .. last -> Nat]
  PROVE  \E sum : IsSum(sum, last, size)
<1> DEFINE Sets == SUBSET (1 .. last)
           State == [Sets -> Nat]
           Add(q, n) == [set \in Sets |-> IF n \in set THEN q[set] + size[n] ELSE q[set]]
           step == [x \in (1 .. last) \X State |-> Add(x[2], x[1])]
           none == [set \in Sets |-> 0]
<1>1. ASSUME NEW q \in State, NEW n \in 1 .. last
      PROVE  Add(q, n) \in State
  <2>1. ASSUME NEW set \in Sets
        PROVE  (IF n \in set THEN q[set] + size[n] ELSE q[set]) \in Nat
    <3>1. q[set] \in Nat /\ size[n] \in Nat
      OBVIOUS
    <3>2. QED
      BY <3>1
  <2>2. QED
    BY <2>1
<1>2. step \in [(1 .. last) \X State -> State]
  <2> HIDE DEF Add, State
  <2>1. QED
    BY <1>1
<1>3. none \in State
  OBVIOUS
<1>4. \A n \in 1 .. last, q \in State : step[<<n, q>>] = Add(q, n)
  <2> HIDE DEF Add, State
  <2>1. QED
    OBVIOUS
<1>5. PICK sums \in [0 .. last -> State] : Follows(sums, last, none, step)
  <2> HIDE DEF Add, State, none, step
  <2>1. QED
    BY <1>2, <1>3, RecursionUpTo
<1>6. \A n \in 1 .. last : sums[n - 1] \in State
  <2> HIDE DEF State
  <2>1. \A n \in 1 .. last : n - 1 \in 0 .. last
    OBVIOUS
  <2>2. QED
    BY <2>1
<1>7. /\ \A set \in Sets : sums[0][set] = 0
      /\ \A n \in 1 .. last : \A set \in Sets :
             /\ sums[n - 1][set] \in Nat
             /\ sums[n][set] = IF n \in set THEN sums[n - 1][set] + size[n] ELSE sums[n - 1][set]
  <2>1. sums[0] = none /\ \A n \in 1 .. last : sums[n] = Add(sums[n - 1], n)
    <3> HIDE DEF Add, State, none, step
    <3>1. QED
      BY <1>4, <1>5, <1>6 DEF Follows
  <2>2. \A set \in Sets : sums[0][set] = 0
    BY <2>1
  <2>3. ASSUME NEW n \in 1 .. last, NEW set \in Sets
        PROVE  /\ sums[n - 1][set] \in Nat
               /\ sums[n][set] = IF n \in set THEN sums[n - 1][set] + size[n] ELSE sums[n - 1][set]
    <3>1. sums[n - 1] \in State /\ sums[n] = Add(sums[n - 1], n)
      BY <1>6, <2>1
    <3>2. QED
      BY <3>1
  <2>4. QED
    BY <2>2, <2>3
<1> HIDE DEF step, none, Add
(* What is added by the number that is left out. *)
<1>8. ASSUME NEW set \in Sets, NEW x \in set
      PROVE  sums[last][set] = sums[last][set \ {x}] + size[x]
  <2> DEFINE Good(n) == sums[n][set] = sums[n][set \ {x}] + IF x <= n THEN size[x] ELSE 0
             good == {n \in 0 .. last : Good(n)}
  <2>1. set \ {x} \in Sets /\ x \in 1 .. last /\ size[x] \in Nat
    OBVIOUS
  <2>2. Good(0)
    <3>1. ~(x <= 0)
      BY <2>1
    <3>2. QED
      BY <1>7, <2>1, <3>1
  <2>3. ASSUME NEW n \in 1 .. last, Good(n - 1)
        PROVE  Good(n)
    <3> DEFINE all == sums[n - 1][set]
               but == sums[n - 1][set \ {x}]
    <3>1. /\ all \in Nat /\ but \in Nat
          /\ sums[n][set] = IF n \in set THEN all + size[n] ELSE all
          /\ sums[n][set \ {x}] = IF n \in set \ {x} THEN but + size[n] ELSE but
      <4>1. set \in Sets /\ set \ {x} \in Sets
        BY <2>1
      <4> HIDE DEF Sets, good, Good, all, but
      <4>2. \A s \in Sets : /\ sums[n - 1][s] \in Nat
                            /\ sums[n][s] = IF n \in s THEN sums[n - 1][s] + size[n]
                                            ELSE sums[n - 1][s]
        BY <1>7
      <4>3. QED
        BY <4>1, <4>2 DEF all, but
    <3>2. all = but + IF x <= n - 1 THEN size[x] ELSE 0
      BY <2>3
    <3>3. size[n] \in Nat
      OBVIOUS
    <3> HIDE DEF all, but
    <3>4. CASE n = x
      <4>1. ~(x <= n - 1) /\ x <= n /\ n \notin set \ {x} /\ n \in set
        BY <2>1, <3>4
      <4>2. QED
        BY <3>1, <3>2, <3>3, <3>4, <4>1
    <3>5. CASE n # x
      <4>1. (x <= n - 1 <=> x <= n) /\ (n \in set \ {x} <=> n \in set)
        BY <2>1, <3>5
      <4>2. QED
        BY <2>1, <3>1, <3>2, <3>3, <4>1
    <3>6. QED
      BY <3>4, <3>5
  <2> HIDE DEF Good
  <2>4. 0 \in good
    BY <2>2
  <2>5. ASSUME NEW n \in 0 .. last, n \in good /\ n < last
        PROVE  n + 1 \in good
    <3>1. n + 1 \in 1 .. last /\ n + 1 \in 0 .. last /\ (n + 1) - 1 = n
      BY <2>5
    <3>2. Good((n + 1) - 1)
      BY <2>5, <3>1
    <3>3. Good(n + 1)
      BY <2>3, <3>1, <3>2
    <3>4. QED
      BY <3>1, <3>3
  <2>6. \A n \in 0 .. last : n \in good
    <3> HIDE DEF good
    <3>1. QED
      BY <2>4, <2>5, InductionUpTo
  <2>7. Good(last)
    BY <2>6
  <2>8. QED
    BY <2>1, <2>7 DEF Good
<1>9. sums[last] \in [SUBSET (1 .. last) -> Nat] /\ sums[last][{}] = 0
  <2>1. sums[last] \in State
    <3> HIDE DEF State
    <3>1. last \in 0 .. last
      OBVIOUS
    <3>2. QED
      BY <3>1
  <2> DEFINE good == {n \in 0 .. last : sums[n][{}] = 0}
  <2>2. 0 \in good
    BY <1>7
  <2>3. ASSUME NEW n \in 0 .. last, n \in good /\ n < last
        PROVE  n + 1 \in good
    <3>1. n + 1 \in 1 .. last /\ n + 1 \in 0 .. last /\ (n + 1) - 1 = n
      BY <2>3
    <3>2. sums[n + 1][{}] = sums[n][{}]
      <4>1. {} \in Sets /\ n + 1 \notin {}
        OBVIOUS
      <4> HIDE DEF Sets, good
      <4>2. QED
        BY <1>7, <3>1, <4>1
    <3>3. QED
      BY <2>3, <3>1, <3>2
  <2>4. \A n \in 0 .. last : n \in good
    <3> HIDE DEF good
    <3>1. QED
      BY <2>2, <2>3, InductionUpTo
  <2>5. QED
    BY <2>1, <2>4
<1>10. IsSum(sums[last], last, size)
  BY <1>8, <1>9 DEF IsSum
<1>11. QED
  BY <1>10

-----------------------------------------------------------------------------
(* The number of elements that must precede an element is its place, and   *)
(* every place is taken once.  The sorts of the models are defined by such *)
(* counting (Ordering).                                                    *)

(* before[j] is the set of the elements of a finite set that precede j, in *)
(* a strict order that is total.                                           *)
IsRanking(before, set) ==
    /\ before \in [set -> SUBSET set]
    /\ \A j \in set : j \notin before[j]
    /\ \A i, j \in set : i # j => i \in before[j] \/ j \in before[i]
    /\ \A i, j \in set : i \in before[j] => before[i] \subseteq before[j]

PlaceIn(before, j) == Cardinality(before[j]) + 1

(* An element that precedes another has the smaller place.                 *)
LEMMA PlacesGrow ==
  ASSUME NEW set, IsFiniteSet(set), NEW before, IsRanking(before, set),
         NEW i \in set, NEW j \in set, i \in before[j]
  PROVE  PlaceIn(before, i) < PlaceIn(before, j)
<1>1. before[i] \in SUBSET before[j] /\ before[i] # before[j] /\ before[j] \in SUBSET set
  BY DEF IsRanking
<1>2. IsFiniteSet(before[j]) /\ IsFiniteSet(before[i])
  BY <1>1, FS_Subset
<1>3. Cardinality(before[i]) <= Cardinality(before[j])
      /\ Cardinality(before[i]) # Cardinality(before[j])
  BY <1>1, <1>2, FS_Subset
<1>4. Cardinality(before[i]) \in Nat /\ Cardinality(before[j]) \in Nat
  BY <1>2, FS_CardinalityType
<1>5. QED
  BY <1>3, <1>4 DEF PlaceIn

(* The places are the numbers from 1 to the number of elements, and each   *)
(* is the place of exactly one element.                                    *)
LEMMA PlacesAreTaken ==
  ASSUME NEW set, IsFiniteSet(set), NEW before, IsRanking(before, set)
  PROVE  /\ Cardinality(set) \in Nat
         /\ \A j \in set : PlaceIn(before, j) \in 1 .. Cardinality(set)
         /\ \A i, j \in set : PlaceIn(before, i) = PlaceIn(before, j) => i = j
         /\ \A n \in 1 .. Cardinality(set) : \E j \in set : PlaceIn(before, j) = n
<1> DEFINE count == Cardinality(set)
           place == [j \in set |-> PlaceIn(before, j)]
<1>1. count \in Nat
  BY FS_CardinalityType
<1>2. ASSUME NEW j \in set
      PROVE  PlaceIn(before, j) \in 1 .. count
  <2>1. before[j] \in SUBSET set /\ before[j] # set
    BY DEF IsRanking
  <2>2. IsFiniteSet(before[j]) /\ Cardinality(before[j]) <= count /\ Cardinality(before[j]) # count
    BY <2>1, FS_Subset
  <2>3. Cardinality(before[j]) \in Nat
    BY <2>2, FS_CardinalityType
  <2>4. QED
    BY <1>1, <2>2, <2>3 DEF PlaceIn
<1>3. ASSUME NEW i \in set, NEW j \in set, PlaceIn(before, i) = PlaceIn(before, j)
      PROVE  i = j
  <2>1. SUFFICES ASSUME i # j
                 PROVE  FALSE
    OBVIOUS
  <2>2. i \in before[j] \/ j \in before[i]
    BY <2>1 DEF IsRanking
  <2>3. PlaceIn(before, i) < PlaceIn(before, j) \/ PlaceIn(before, j) < PlaceIn(before, i)
    BY <2>2, PlacesGrow
  <2>4. PlaceIn(before, i) \in Int /\ PlaceIn(before, j) \in Int
    BY <1>1, <1>2
  <2>5. QED
    BY <1>3, <2>3, <2>4
<1>4. place \in Injection(set, 1 .. count)
  BY <1>2, <1>3, Fun_IsInj
<1>5. IsFiniteSet(1 .. count) /\ Cardinality(1 .. count) = count
  BY <1>1, FS_Interval
<1>6. place \in Surjection(set, 1 .. count)
  BY <1>4, <1>5, FS_Injection
<1>7. \A n \in 1 .. count : \E j \in set : place[j] = n
  BY <1>6 DEF Surjection
<1>8. QED
  BY <1>1, <1>2, <1>3, <1>7

(* Ascending lists every number of a finite set once, the smaller first.   *)
LEMMA AscendingListsTheSet ==
  ASSUME NEW set \in SUBSET Nat, IsFiniteSet(set)
  PROVE  /\ Cardinality(set) \in Nat
         /\ Ascending(set) \in [1 .. Cardinality(set) -> set]
         /\ \A k \in set : \E n \in 1 .. Cardinality(set) : Ascending(set)[n] = k
         /\ \A i, j \in 1 .. Cardinality(set) : Ascending(set)[i] = Ascending(set)[j] => i = j
         /\ \A i, j \in 1 .. Cardinality(set) : i < j => Ascending(set)[i] < Ascending(set)[j]
<1> DEFINE count == Cardinality(set)
           smaller == [k \in set |-> {i \in set : i < k}]
<1>1. IsRanking(smaller, set)
  <2>1. smaller \in [set -> SUBSET set]
    OBVIOUS
  <2>2. \A j \in set : smaller[j] = {i \in set : i < j}
    OBVIOUS
  <2>3. \A j \in set : j \notin smaller[j]
    BY <2>2
  <2>4. \A i, j \in set : i # j => i \in smaller[j] \/ j \in smaller[i]
    BY <2>2
  <2>5. ASSUME NEW i \in set, NEW j \in set, i \in smaller[j]
        PROVE  smaller[i] \subseteq smaller[j]
    <3>1. i < j
      BY <2>2, <2>5
    <3>2. \A k \in set : k < i => k < j
      BY <3>1
    <3> HIDE DEF smaller
    <3>3. QED
      BY <2>2, <3>2
  <2> HIDE DEF smaller
  <2>6. QED
    BY <2>1, <2>3, <2>4, <2>5 DEF IsRanking
<1>2. /\ count \in Nat
      /\ \A k \in set : PlaceIn(smaller, k) \in 1 .. count
      /\ \A i, j \in set : PlaceIn(smaller, i) = PlaceIn(smaller, j) => i = j
      /\ \A n \in 1 .. count : \E k \in set : PlaceIn(smaller, k) = n
  <2> HIDE DEF smaller
  <2>1. \A before : IsRanking(before, set) =>
            /\ Cardinality(set) \in Nat
            /\ \A k \in set : PlaceIn(before, k) \in 1 .. Cardinality(set)
            /\ \A i, j \in set : PlaceIn(before, i) = PlaceIn(before, j) => i = j
            /\ \A n \in 1 .. Cardinality(set) : \E k \in set : PlaceIn(before, k) = n
    BY PlacesAreTaken, Zenon
  <2>2. QED
    BY <1>1, <2>1, Zenon
<1>3. ASSUME NEW k \in set
      PROVE  /\ PlaceIn(smaller, k) = Cardinality({i \in set : i < k}) + 1
             /\ Cardinality({i \in set : i < k}) \in Nat
  <2>1. {i \in set : i < k} \in SUBSET set
    OBVIOUS
  <2>2. IsFiniteSet({i \in set : i < k})
    BY <2>1, FS_Subset
  <2>3. smaller[k] = {i \in set : i < k}
    OBVIOUS
  <2> HIDE DEF smaller
  <2>4. QED
    BY <2>2, <2>3, FS_CardinalityType DEF PlaceIn
<1>4. ASSUME NEW n \in 1 .. count
      PROVE  Ascending(set)[n] \in set /\ PlaceIn(smaller, Ascending(set)[n]) = n
  <2> DEFINE AtPlace(k) == Cardinality({i \in set : i < k}) = n - 1
  <2>1. PICK k \in set : PlaceIn(smaller, k) = n
    BY <1>2
  <2>2. AtPlace(k)
    BY <1>3, <2>1
  <2>3. Ascending(set)[n] = CHOOSE j \in set : AtPlace(j)
    BY DEF Ascending
  <2>4. Ascending(set)[n] \in set /\ AtPlace(Ascending(set)[n])
    <3> HIDE DEF AtPlace
    <3>1. QED
      BY <2>2, <2>3
  <2> HIDE DEF smaller
  <2>5. Ascending(set)[n] \in set
    BY <2>4
  <2>6. PlaceIn(smaller, Ascending(set)[n]) = (n - 1) + 1
    BY <1>3, <2>4, <2>5
  <2>7. QED
    BY <1>2, <2>5, <2>6
<1>5. DOMAIN Ascending(set) = 1 .. count
  BY DEF Ascending
<1>6. Ascending(set) \in [1 .. count -> set]
  BY <1>4, <1>5 DEF Ascending
<1>7. ASSUME NEW k \in set
      PROVE  Ascending(set)[PlaceIn(smaller, k)] = k
  <2> HIDE DEF smaller
  <2>1. QED
    BY <1>2, <1>4
<1>8. ASSUME NEW i \in 1 .. count, NEW j \in 1 .. count, i < j
      PROVE  Ascending(set)[i] < Ascending(set)[j]
  <2> DEFINE x == Ascending(set)[i]
             y == Ascending(set)[j]
  <2>1. x \in set /\ y \in set /\ PlaceIn(smaller, x) = i /\ PlaceIn(smaller, y) = j
    BY <1>4
  <2>2. y \in smaller[x] => y < x
    BY <2>1
  <2>3. y < x => y \in smaller[x]
    BY <2>1
  <2> HIDE DEF smaller, x, y
  <2>4. y \notin smaller[x]
    <3>1. SUFFICES ASSUME y \in smaller[x]
                   PROVE  FALSE
      OBVIOUS
    <3>2. PlaceIn(smaller, y) < PlaceIn(smaller, x)
      BY <1>1, <2>1, <3>1, PlacesGrow
    <3>3. QED
      BY <1>2, <1>8, <2>1, <3>2
  <2>5. x # y /\ x \in Nat /\ y \in Nat
    BY <1>8, <2>1
  <2>6. x < y
    BY <2>3, <2>4, <2>5
  <2>7. QED
    BY <2>6 DEF x, y
<1>9. QED
  <2> HIDE DEF smaller
  <2>1. \A i, j \in 1 .. count : Ascending(set)[i] = Ascending(set)[j] => i = j
    BY <1>4
  <2>2. \A k \in set : \E n \in 1 .. count : Ascending(set)[n] = k
    BY <1>2, <1>7
  <2>3. QED
    BY <1>2, <1>6, <1>8, <2>1, <2>2

-----------------------------------------------------------------------------
(* FlattenSeq is the last of its prefixes.                                 *)
LEMMA FlattenPrefixes ==
  ASSUME NEW S, NEW seqs \in Seq(Seq(S))
  PROVE  \E f \in [0 .. Len(seqs) -> Seq(S)] :
             /\ f[0] = <<>>
             /\ \A n \in 1 .. Len(seqs) : f[n] = f[n - 1] \o seqs[n]
             /\ FlattenSeq(seqs) = f[Len(seqs)]
<1> DEFINE last == Len(seqs)
           State == Seq(S)
           step == [x \in (1 .. last) \X State |-> x[2] \o seqs[x[1]]]
<1>1. last \in Nat /\ \A n \in 1 .. last : seqs[n] \in State
  OBVIOUS
<1>2. <<>> \in State /\ \A q, r \in State : q \o r \in State
  OBVIOUS
<1>3. \A n \in 1 .. last, q \in State : step[<<n, q>>] = q \o seqs[n]
  <2> HIDE DEF State
  <2>1. QED
    OBVIOUS
<1>4. step \in [(1 .. last) \X State -> State]
  <2> HIDE DEF State, last
  <2>1. QED
    BY <1>1, <1>2
<1>5. PICK f \in [0 .. last -> State] : Follows(f, last, <<>>, step)
  <2> HIDE DEF State, step, last
  <2>1. QED
    BY <1>1, <1>2, <1>4, RecursionUpTo
<1>6. f[0] = <<>> /\ \A n \in 1 .. last : f[n] = f[n - 1] \o seqs[n]
  <2> HIDE DEF State, step, last
  <2>1. \A n \in 1 .. last : n - 1 \in 0 .. last
    BY <1>1
  <2>2. QED
    BY <1>3, <1>5, <2>1 DEF Follows
<1>7. FlattenSeq(seqs) = f[last]
  <2>1. CASE last = 0
    BY <1>6, <2>1 DEF FlattenSeq
  <2>2. CASE last # 0
    <3> DEFINE Body(g) == [i \in 1 .. last |-> IF i = 1 THEN seqs[i] ELSE g[i - 1] \o seqs[i]]
               flatten == CHOOSE g : g = Body(g)
               prefixes == [i \in 1 .. last |-> f[i]]
    <3>1. FlattenSeq(seqs) = flatten[last]
      BY <2>2 DEF FlattenSeq
    <3> HIDE DEF State, last
    <3>2. f[1] = seqs[1]
      <4>1. 1 \in 1 .. last /\ 1 - 1 = 0
        BY <1>1, <2>2
      <4>2. f[1] = <<>> \o seqs[1] /\ seqs[1] \in Seq(S)
        BY <1>1, <1>6, <4>1 DEF State
      <4>3. QED
        BY <4>2
    <3>3. prefixes = Body(prefixes)
      <4>1. ASSUME NEW i \in 1 .. last
            PROVE  f[i] = IF i = 1 THEN seqs[i] ELSE prefixes[i - 1] \o seqs[i]
        <5>1. i # 1 => i - 1 \in 1 .. last
          BY <1>1
        <5>2. QED
          BY <1>6, <3>2, <5>1
      <4>2. QED
        BY <4>1
    <3>4. flatten = Body(flatten)
      <4> HIDE DEF Body, prefixes
      <4>1. QED
        BY <3>3
    <3> HIDE DEF flatten
    <3>5. \A i \in 1 .. last :
              flatten[i] = IF i = 1 THEN seqs[i] ELSE flatten[i - 1] \o seqs[i]
      <4>1. \A i \in 1 .. last : flatten[i] = Body(flatten)[i]
        BY <3>4
      <4>2. QED
        BY <4>1
    <3> DEFINE good == {n \in 0 .. last : n = 0 \/ flatten[n] = f[n]}
    <3>6. 0 \in good
      BY <1>1
    <3>7. ASSUME NEW n \in 0 .. last, n \in good /\ n < last
          PROVE  n + 1 \in good
      <4>1. n + 1 \in 1 .. last /\ n + 1 \in 0 .. last /\ (n + 1) - 1 = n
        BY <1>1, <3>7
      <4>2. CASE n = 0
        BY <3>2, <3>5, <4>1, <4>2
      <4>3. CASE n # 0
        <5>1. flatten[n] = f[n] /\ n + 1 # 1
          BY <1>1, <3>7, <4>3
        <5>2. flatten[n + 1] = flatten[n] \o seqs[n + 1]
          BY <3>5, <4>1, <5>1
        <5>3. f[n + 1] = f[n] \o seqs[n + 1]
          BY <1>6, <4>1
        <5>4. QED
          BY <4>1, <5>1, <5>2, <5>3
      <4>4. QED
        BY <4>2, <4>3
    <3>8. \A n \in 0 .. last : n \in good
      <4> HIDE DEF good
      <4>1. QED
        BY <1>1, <3>6, <3>7, InductionUpTo
    <3>9. last \in 0 .. last
      BY <1>1
    <3>10. QED
      BY <2>2, <3>1, <3>8, <3>9
  <2>3. QED
    BY <2>1, <2>2
<1>8. QED
  BY <1>5, <1>6, <1>7

LEMMA FlattenType ==
  ASSUME NEW S, NEW seqs \in Seq(Seq(S))
  PROVE  FlattenSeq(seqs) \in Seq(S)
<1>1. PICK f \in [0 .. Len(seqs) -> Seq(S)] : FlattenSeq(seqs) = f[Len(seqs)]
  BY FlattenPrefixes
<1>2. Len(seqs) \in 0 .. Len(seqs)
  OBVIOUS
<1>3. QED
  BY <1>1, <1>2

LEMMA TailIs ==
  ASSUME NEW S, NEW s \in Seq(S), s # <<>>
  PROVE  Tail(s) = [k \in 1 .. Len(s) - 1 |-> s[k + 1]]
<1> DEFINE t == Tail(s)
<1>1. t \in Seq(S) /\ Len(t) = Len(s) - 1 /\ \A k \in 1 .. Len(t) : t[k] = s[k + 1]
  OBVIOUS
<1> HIDE DEF t
<1>2. t = [k \in 1 .. Len(t) |-> t[k]]
  BY <1>1
<1>3. t = [k \in 1 .. Len(s) - 1 |-> s[k + 1]]
  BY <1>1, <1>2
<1>4. QED
  BY <1>3 DEF t

LEMMA FlattenNothing == FlattenSeq(<<>>) = <<>>
  BY DEF FlattenSeq

(* The first of the sequences, and the others.                             *)
LEMMA FlattenHead ==
  ASSUME NEW S, NEW seqs \in Seq(Seq(S)), seqs # <<>>
  PROVE  FlattenSeq(seqs) = Head(seqs) \o FlattenSeq(Tail(seqs))
<1> DEFINE others == Tail(seqs)
           last == Len(others)
<1>1. /\ last \in Nat /\ Len(seqs) = last + 1
      /\ others \in Seq(Seq(S))
      /\ \A n \in 1 .. last : others[n] = seqs[n + 1] /\ seqs[n + 1] \in Seq(S)
      /\ seqs[1] \in Seq(S) /\ Head(seqs) = seqs[1]
  OBVIOUS
<1> HIDE DEF others
<1>2. PICK f \in [0 .. Len(seqs) -> Seq(S)] :
          /\ f[0] = <<>>
          /\ \A n \in 1 .. Len(seqs) : f[n] = f[n - 1] \o seqs[n]
          /\ FlattenSeq(seqs) = f[Len(seqs)]
  BY FlattenPrefixes
<1>3. PICK g \in [0 .. last -> Seq(S)] :
          /\ g[0] = <<>>
          /\ \A n \in 1 .. last : g[n] = g[n - 1] \o others[n]
          /\ FlattenSeq(others) = g[last]
  BY <1>1, FlattenPrefixes
<1> HIDE DEF last
<1> DEFINE good == {n \in 0 .. last : f[n + 1] = seqs[1] \o g[n]}
<1>4. 0 \in good
  <2>1. 0 \in 0 .. last /\ 1 \in 1 .. Len(seqs) /\ 0 + 1 = 1 /\ 1 - 1 = 0
    BY <1>1
  <2>2. f[1] = <<>> \o seqs[1]
    BY <1>2, <2>1
  <2>3. <<>> \o seqs[1] = seqs[1] /\ seqs[1] \o <<>> = seqs[1]
    BY <1>1
  <2>4. QED
    BY <1>3, <2>1, <2>2, <2>3
<1>5. ASSUME NEW n \in 0 .. last, n \in good /\ n < last
      PROVE  n + 1 \in good
  <2>1. /\ n + 1 \in 1 .. last /\ n + 1 \in 0 .. last /\ (n + 1) - 1 = n
        /\ (n + 1) + 1 \in 1 .. Len(seqs) /\ ((n + 1) + 1) - 1 = n + 1
    BY <1>1, <1>5
  <2>2. f[(n + 1) + 1] = f[n + 1] \o others[n + 1]
    BY <1>1, <1>2, <2>1
  <2>3. g[n + 1] = g[n] \o others[n + 1]
    BY <1>3, <2>1
  <2>4. f[n + 1] = seqs[1] \o g[n]
    BY <1>5
  <2>5. g[n] \in Seq(S) /\ others[n + 1] \in Seq(S) /\ seqs[1] \in Seq(S)
    BY <1>1, <1>3, <2>1
  <2>6. (seqs[1] \o g[n]) \o others[n + 1] = seqs[1] \o (g[n] \o others[n + 1])
    <3> DEFINE x == seqs[1]
               y == g[n]
               z == others[n + 1]
    <3>2. x \in Seq(S) /\ y \in Seq(S) /\ z \in Seq(S)
      BY <2>5
    <3> HIDE DEF x, y, z
    <3>3. (x \o y) \o z = x \o (y \o z)
      BY <3>2
    <3>4. QED
      BY <3>3 DEF x, y, z
  <2>7. QED
    BY <2>1, <2>2, <2>3, <2>4, <2>6
<1>6. \A n \in 0 .. last : n \in good
  <2> HIDE DEF good
  <2>1. QED
    BY <1>1, <1>4, <1>5, InductionUpTo
<1>7. f[last + 1] = seqs[1] \o g[last]
  BY <1>1, <1>6
<1>8. QED
  BY <1>1, <1>2, <1>3, <1>7 DEF others

(* What stands in one of the sequences stands in their concatenation.      *)
LEMMA FlattenHas ==
  ASSUME NEW S, NEW seqs \in Seq(Seq(S)), NEW k \in 1 .. Len(seqs), NEW i \in 1 .. Len(seqs[k])
  PROVE  \E p \in 1 .. Len(FlattenSeq(seqs)) : FlattenSeq(seqs)[p] = seqs[k][i]
<1> DEFINE last == Len(seqs)
<1>1. PICK f \in [0 .. last -> Seq(S)] :
          /\ f[0] = <<>>
          /\ \A n \in 1 .. last : f[n] = f[n - 1] \o seqs[n]
          /\ FlattenSeq(seqs) = f[last]
  BY FlattenPrefixes
<1>2. last \in Nat /\ \A n \in 1 .. last : seqs[n] \in Seq(S)
  OBVIOUS
<1> DEFINE Has(n) == \E p \in 1 .. Len(f[n]) : f[n][p] = seqs[k][i]
           G == {n \in 0 .. last : n < k \/ Has(n)}
<1> HIDE DEF last
<1>3. 0 \in G
  BY <1>2 DEF last
<1>4. ASSUME NEW n \in 0 .. last, n \in G, n < last
      PROVE  n + 1 \in G
  <2>1. /\ n + 1 \in 1 .. last /\ (n + 1) - 1 = n /\ n + 1 \in 0 .. last
        /\ f[n] \in Seq(S) /\ seqs[n + 1] \in Seq(S)
    BY <1>2, <1>4
  <2>2. f[n + 1] = f[n] \o seqs[n + 1]
    BY <1>1, <2>1
  <2> DEFINE a == f[n]
             b == seqs[n + 1]
  <2>3. /\ Len(a) \in Nat /\ Len(b) \in Nat /\ Len(a \o b) = Len(a) + Len(b)
        /\ \A j \in 1 .. Len(a) + Len(b) :
               (a \o b)[j] = IF j <= Len(a) THEN a[j] ELSE b[j - Len(a)]
    BY <2>1, ConcatProperties
  <2>4. CASE n + 1 < k
    BY <2>1, <2>4
  <2>5. CASE n + 1 = k
    <3> HIDE DEF a, Has
    <3>1. Len(a) + i \in 1 .. Len(a) + Len(b) /\ ~(Len(a) + i <= Len(a)) /\ Len(a) + i - Len(a) = i
      BY <2>3, <2>5
    <3>2. (a \o b)[Len(a) + i] = seqs[k][i]
      BY <2>3, <2>5, <3>1
    <3>3. Has(n + 1)
      BY <2>2, <2>3, <3>1, <3>2 DEF Has, a
    <3>4. QED
      BY <2>1, <3>3
  <2>6. CASE ~(n < k)
    <3>1. PICK p \in 1 .. Len(a) : a[p] = seqs[k][i]
      BY <1>4, <2>6
    <3> HIDE DEF a, b, Has
    <3>2. p \in 1 .. Len(a) + Len(b) /\ p <= Len(a)
      BY <2>3
    <3>3. (a \o b)[p] = seqs[k][i]
      BY <2>3, <3>1, <3>2
    <3>4. Has(n + 1)
      BY <2>2, <2>3, <3>2, <3>3 DEF Has, a, b
    <3>5. QED
      BY <2>1, <3>4
  <2>7. QED
    BY <1>2, <2>4, <2>5, <2>6
<1>5. \A n \in 0 .. last : n \in G
  <2> HIDE DEF G
  <2>1. QED
    BY <1>2, <1>3, <1>4, InductionUpTo
<1>6. last \in 0 .. last /\ ~(last < k)
  BY <1>2 DEF last
<1>7. Has(last)
  BY <1>5, <1>6
<1>8. QED
  BY <1>1, <1>7

(* The concatenation of the first sequences, and of one more.              *)
LEMMA FlattenOneMore ==
  ASSUME NEW S, NEW seqs \in Seq(Seq(S)), NEW n \in 0 .. Len(seqs)
  PROVE  /\ FlattenSeq(SubSeq(seqs, 1, n)) \in Seq(S)
         /\ n < Len(seqs) =>
                FlattenSeq(SubSeq(seqs, 1, n + 1)) = FlattenSeq(SubSeq(seqs, 1, n)) \o seqs[n + 1]
<1> DEFINE last == Len(seqs)
<1>1. PICK f \in [0 .. last -> Seq(S)] :
          /\ f[0] = <<>>
          /\ \A m \in 1 .. last : f[m] = f[m - 1] \o seqs[m]
  BY FlattenPrefixes
<1>2. last \in Nat /\ \A m \in 1 .. last : seqs[m] \in Seq(S)
  OBVIOUS
<1>3. ASSUME NEW m \in 0 .. last
      PROVE  FlattenSeq(SubSeq(seqs, 1, m)) = f[m]
  <2> DEFINE first == SubSeq(seqs, 1, m)
  <2>1. \A j \in 1 .. m : seqs[j] \in Seq(S)
    BY <1>2
  <2>2. first \in Seq(Seq(S)) /\ Len(first) = m /\ \A j \in 1 .. m : first[j] = seqs[j]
    BY <1>2, <2>1, SubSeqProperties
  <2> HIDE DEF first
  <2>3. PICK g \in [0 .. m -> Seq(S)] :
            /\ g[0] = <<>>
            /\ \A j \in 1 .. m : g[j] = g[j - 1] \o first[j]
            /\ FlattenSeq(first) = g[m]
    BY <2>2, FlattenPrefixes
  <2> DEFINE G == {j \in 0 .. m : g[j] = f[j]}
  <2>4. 0 \in G
    BY <1>1, <1>2, <2>3
  <2>5. ASSUME NEW j \in 0 .. m, j \in G, j < m
        PROVE  j + 1 \in G
    <3>1. j + 1 \in 1 .. m /\ j + 1 \in 0 .. m /\ (j + 1) - 1 = j /\ j + 1 \in 1 .. last
      BY <1>2, <2>5
    <3>2. g[j + 1] = g[j] \o seqs[j + 1] /\ f[j + 1] = f[j] \o seqs[j + 1]
      BY <1>1, <2>2, <2>3, <3>1
    <3>3. QED
      BY <2>5, <3>1, <3>2
  <2>6. m \in Nat
    BY <1>2
  <2>7. \A j \in 0 .. m : j \in G
    <3> HIDE DEF G
    <3>1. QED
      BY <2>4, <2>5, <2>6, InductionUpTo
  <2>8. QED
    BY <2>3, <2>6, <2>7 DEF first
<1>4. n < last => n + 1 \in 0 .. last /\ n + 1 \in 1 .. last /\ (n + 1) - 1 = n
  BY <1>2
<1> HIDE DEF last
<1>5. QED
  BY <1>1, <1>3, <1>4 DEF last

(* A list of the numbers of a set is a sequence, and that of one number    *)
(* holds that number.                                                      *)
LEMMA AscendingIsSeq ==
  ASSUME NEW set \in SUBSET Nat, IsFiniteSet(set)
  PROVE  /\ Ascending(set) \in Seq(set)
         /\ set # {} => Ascending(set) # <<>>
<1>1. Cardinality(set) \in Nat /\ Ascending(set) \in [1 .. Cardinality(set) -> set]
  BY AscendingListsTheSet
<1>2. set # {} => 1 .. Cardinality(set) # {}
  BY AscendingListsTheSet
<1>3. QED
  BY <1>1, <1>2

LEMMA AscendingOne ==
  ASSUME NEW m \in Nat
  PROVE  Ascending({m}) = <<m>>
<1>1. IsFiniteSet({m}) /\ Cardinality({m}) = 1 /\ {m} \in SUBSET Nat
  BY FS_Singleton
<1>2. Ascending({m}) \in [1 .. 1 -> {m}]
  <2> DEFINE set == {m}
  <2>1. set \in SUBSET Nat /\ IsFiniteSet(set) /\ Cardinality(set) = 1
    BY <1>1
  <2> HIDE DEF set
  <2>2. Ascending(set) \in [1 .. Cardinality(set) -> set]
    BY <2>1, AscendingListsTheSet
  <2>3. QED
    BY <2>1, <2>2 DEF set
<1>3. QED
  BY <1>2

(* There is one way to list a set in ascending order. *)
LEMMA AscendingIs ==
  ASSUME NEW set \in SUBSET Nat, NEW count \in Nat, NEW list \in [1 .. count -> set],
         \A k \in set : \E n \in 1 .. count : list[n] = k,
         \A i, j \in 1 .. count : i < j => list[i] < list[j]
  PROVE  IsFiniteSet(set) /\ Cardinality(set) = count /\ Ascending(set) = list
<1> DEFINE asc == Ascending(set)
<1>1. \A i, j \in 1 .. count : list[i] = list[j] => i = j
  <2>1. SUFFICES ASSUME NEW i \in 1 .. count, NEW j \in 1 .. count, list[i] = list[j], i # j
                 PROVE  FALSE
    OBVIOUS
  <2>2. list[i] \in Nat /\ list[j] \in Nat /\ (i < j \/ j < i)
    <3>1. list[i] \in set /\ list[j] \in set
      OBVIOUS
    <3>2. i < j \/ j < i
      BY <2>1
    <3>3. QED
      BY <3>1, <3>2
  <2>3. list[i] < list[j] \/ list[j] < list[i]
    BY <2>2
  <2>4. QED
    BY <2>1, <2>2, <2>3
<1>2. IsFiniteSet(set) /\ Cardinality(set) = count
  <2>1. list \in Bijection(1 .. count, set)
    <3>1. list \in Injection(1 .. count, set)
      BY <1>1, Fun_IsInj
    <3>2. list \in Surjection(1 .. count, set)
      BY Fun_IsSurj
    <3>3. QED
      BY <3>1, <3>2 DEF Bijection
  <2>2. ExistsBijection(1 .. count, set)
    BY <2>1 DEF ExistsBijection
  <2>3. IsFiniteSet(1 .. count) /\ Cardinality(1 .. count) = count
    <3>1. IF 1 > count THEN Cardinality(1 .. count) = 0
                       ELSE Cardinality(1 .. count) = count - 1 + 1
      BY FS_Interval
    <3>2. IsFiniteSet(1 .. count)
      BY FS_Interval
    <3>3. QED
      BY <3>1, <3>2
  <2>4. QED
    BY <2>2, <2>3, FS_Bijection
<1>3. /\ asc \in [1 .. count -> set]
      /\ \A k \in set : \E n \in 1 .. count : asc[n] = k
      /\ \A i, j \in 1 .. count : asc[i] = asc[j] => i = j
      /\ \A i, j \in 1 .. count : i < j => asc[i] < asc[j]
  BY <1>2, AscendingListsTheSet
<1> HIDE DEF asc
<1> DEFINE S == {n \in 0 .. count : \A i \in 1 .. n : asc[i] = list[i]}
<1>4. 0 \in S
  OBVIOUS
<1>5. ASSUME NEW n \in 0 .. count, n \in S, n < count
      PROVE  n + 1 \in S
  <2>1. n + 1 \in 1 .. count /\ n + 1 \in 0 .. count /\ n \in Nat
    BY <1>5
  <2>2. \A i \in 1 .. n : asc[i] = list[i]
    BY <1>5
  <2>3. \A i \in 1 .. count : i \in 1 .. n \/ i = n + 1 \/ n + 1 < i
    BY <2>1
  <2>4. \A i \in 1 .. n : i \in 1 .. count /\ i # n + 1
    BY <2>1
  <2>5. /\ asc[n + 1] \in set /\ list[n + 1] \in set
        /\ asc[n + 1] \in Nat /\ list[n + 1] \in Nat
    BY <1>3, <2>1
  <2>6. PICK i \in 1 .. count : asc[i] = list[n + 1]
    BY <1>3, <2>5
  <2>7. i \notin 1 .. n
    BY <1>1, <2>1, <2>2, <2>4, <2>6
  <2>8. asc[n + 1] <= list[n + 1]
    BY <1>3, <2>1, <2>3, <2>5, <2>6, <2>7
  <2>9. PICK j \in 1 .. count : list[j] = asc[n + 1]
    BY <2>5
  <2>10. j \notin 1 .. n
    BY <1>3, <2>1, <2>2, <2>4, <2>9
  <2>11. list[n + 1] <= asc[n + 1]
    BY <2>1, <2>3, <2>5, <2>9, <2>10
  <2>12. asc[n + 1] = list[n + 1]
    BY <2>5, <2>8, <2>11
  <2>13. \A m \in 1 .. n + 1 : m \in 1 .. n \/ m = n + 1
    BY <2>1
  <2>14. QED
    BY <2>1, <2>2, <2>12, <2>13
<1>6. count \in S
  <2> HIDE DEF S
  <2>1. \A n \in 0 .. count : n \in S
    BY <1>4, <1>5, InductionUpTo
  <2>2. QED
    BY <2>1
<1>7. \A i \in 1 .. count : asc[i] = list[i]
  BY <1>6
<1>8. asc = list
  BY <1>3, <1>7
<1>9. QED
  BY <1>2, <1>8 DEF asc

LEMMA AscendingAll ==
  ASSUME NEW count \in Nat
  PROVE  Ascending(1 .. count) = [i \in 1 .. count |-> i]
<1> DEFINE list == [i \in 1 .. count |-> i]
           set == 1 .. count
<1>1. set \in SUBSET Nat /\ list \in [1 .. count -> set]
  OBVIOUS
<1>2. \A i \in 1 .. count : list[i] = i
  OBVIOUS
<1>3. \A k \in set : \E n \in 1 .. count : list[n] = k
  BY <1>2
<1>4. \A i, j \in 1 .. count : i < j => list[i] < list[j]
  BY <1>2
<1> HIDE DEF list, set
<1>5. Ascending(set) = list
  BY <1>1, <1>3, <1>4, AscendingIs
<1>6. QED
  BY <1>5 DEF list, set

(* The numbers of a set, and behind them those of another one. *)
LEMMA AscendingJoin ==
  ASSUME NEW first \in SUBSET Nat, IsFiniteSet(first), NEW second \in SUBSET Nat,
         IsFiniteSet(second), NEW shift \in Nat, \A k \in first : k <= shift,
         \A k \in second : k > 0
  PROVE  LET both == first \cup {k + shift : k \in second}
             a == Cardinality(first)
             b == Cardinality(second)
         IN  /\ a \in Nat /\ b \in Nat /\ IsFiniteSet(both)
             /\ Cardinality(both) = a + b
             /\ \A i \in 1 .. a + b : Ascending(both)[i] =
                    IF i <= a THEN Ascending(first)[i] ELSE Ascending(second)[i - a] + shift
<1> DEFINE both == first \cup {k + shift : k \in second}
           a == Cardinality(first)
           b == Cardinality(second)
           f == Ascending(first)
           s == Ascending(second)
           list == [i \in 1 .. a + b |-> IF i <= a THEN f[i] ELSE s[i - a] + shift]
<1>1. /\ a \in Nat /\ f \in [1 .. a -> first]
      /\ \A k \in first : \E n \in 1 .. a : f[n] = k
      /\ \A i, j \in 1 .. a : i < j => f[i] < f[j]
  BY AscendingListsTheSet
<1>2. /\ b \in Nat /\ s \in [1 .. b -> second]
      /\ \A k \in second : \E n \in 1 .. b : s[n] = k
      /\ \A i, j \in 1 .. b : i < j => s[i] < s[j]
  BY AscendingListsTheSet
<1> HIDE DEF a, b, f, s
<1>3. \A i \in 1 .. a + b :
          \/ i \in 1 .. a /\ list[i] = f[i]
          \/ i > a /\ i - a \in 1 .. b /\ list[i] = s[i - a] + shift
  BY <1>1, <1>2
<1>4. \A i \in 1 .. a : i \in 1 .. a + b /\ list[i] = f[i]
  BY <1>1, <1>2
<1>5. \A i \in 1 .. b : i + a \in 1 .. a + b /\ list[i + a] = s[i] + shift
  <2>1. ASSUME NEW i \in 1 .. b
        PROVE  i + a \in 1 .. a + b /\ ~(i + a <= a) /\ (i + a) - a = i
    BY <1>1, <1>2
  <2>2. QED
    BY <2>1
<1>6. \A k \in second : k + shift \in both /\ k + shift \in Nat /\ k + shift > shift
  OBVIOUS
<1>7. both \in SUBSET Nat /\ first \subseteq both
  BY <1>6
<1>8. \A k \in both : k \in first \/ \E m \in second : k = m + shift
  OBVIOUS
<1> DEFINE count == a + b
<1>9. count \in Nat /\ list = [i \in 1 .. count |-> list[i]]
  BY <1>1, <1>2
<1> HIDE DEF both, list
<1>10. \A i \in 1 .. count : list[i] \in both
  BY <1>1, <1>2, <1>3, <1>6, <1>7
<1>11. list \in [1 .. count -> both]
  BY <1>9, <1>10
<1>12. ASSUME NEW k \in both
       PROVE  \E n \in 1 .. count : list[n] = k
  <2>1. CASE k \in first
    BY <1>1, <1>4, <2>1
  <2>2. CASE \E m \in second : k = m + shift
    <3>1. PICK m \in second : k = m + shift
      BY <2>2
    <3>2. PICK n \in 1 .. b : s[n] = m
      BY <1>2
    <3>3. n + a \in 1 .. count /\ list[n + a] = k
      BY <1>5, <3>1, <3>2
    <3>4. QED
      BY <3>3
  <2>3. QED
    BY <1>8, <2>1, <2>2
<1>13. ASSUME NEW i \in 1 .. count, NEW j \in 1 .. count, i < j
       PROVE  list[i] < list[j]
  <2>1. CASE i \in 1 .. a /\ list[i] = f[i] /\ j \in 1 .. a /\ list[j] = f[j]
    BY <1>1, <1>13, <2>1
  <2>2. CASE i \in 1 .. a /\ list[i] = f[i] /\ j - a \in 1 .. b /\ list[j] = s[j - a] + shift
    <3>1. f[i] \in first /\ f[i] \in Nat /\ f[i] <= shift
      BY <1>1, <2>2
    <3>2. s[j - a] \in second /\ s[j - a] \in Nat /\ s[j - a] > 0
      BY <1>2, <2>2
    <3>3. QED
      BY <2>2, <3>1, <3>2
  <2>3. CASE /\ i > a /\ i - a \in 1 .. b /\ list[i] = s[i - a] + shift
             /\ j - a \in 1 .. b /\ list[j] = s[j - a] + shift
    <3>1. i - a < j - a
      BY <1>1, <1>13
    <3>2. s[i - a] < s[j - a] /\ s[i - a] \in Nat /\ s[j - a] \in Nat
      BY <1>2, <2>3, <3>1
    <3>3. QED
      BY <2>3, <3>2
  <2>4. i > a /\ j \in 1 .. a => FALSE
    BY <1>1, <1>13
  <2>5. QED
    BY <1>3, <2>1, <2>2, <2>3, <2>4
<1> HIDE DEF count
<1>14. IsFiniteSet(both) /\ Cardinality(both) = count /\ Ascending(both) = list
  BY <1>7, <1>9, <1>11, <1>12, <1>13, AscendingIs
<1>15. \A i \in 1 .. a + b : Ascending(both)[i] = IF i <= a THEN f[i] ELSE s[i - a] + shift
  BY <1>14 DEF list
<1>16. QED
  BY <1>1, <1>2, <1>14, <1>15 DEF both, a, b, f, s, count
=============================================================================
