----------------------------- MODULE FormProofs -----------------------------
(*****************************************************************************)
(* Type correctness of the form handler and its JSON parser, that            *)
(* everything the parser allocates is owned, that it reads strings as JSON   *)
(* says, and that the tree it builds is the one of its text.                 *)
(*                                                                           *)
(* The heap is at any time cut into the regions that hang from the root      *)
(* and from the heads of the open lists (Hung), each string has one item     *)
(* (Owned), and the item that is filled in has nothing to lose               *)
(* (ListsOpen).                                                              *)
(*                                                                           *)
(* parse_string never writes past what it allocated, whatever the bytes: a   *)
(* piece of a string and the characters it stands for are weighed against    *)
(* the budget that the count of the backslashes left (IsBudget).  And it     *)
(* reads JSON: a reading of the first k characters is what the second pass   *)
(* has written of them (Agrees).                                             *)
(*                                                                           *)
(* The tree: to the heap the proofs add the items of each list, in their     *)
(* order, and where each item stands in the text (IsGhost).  TreeInv says    *)
(* that the pointers are those of that order and that every item that is     *)
(* complete stands on a value of the text; ReadInv that what is before the   *)
(* place reached is all that a value, or a list, can begin with, so that     *)
(* the parser gives up on no text that is JSON.                              *)
(*****************************************************************************)
EXTENDS Form, TLAPS, WellFoundedInduction, SequenceTheorems, FiniteSetTheorems

(* Induction along an interval: a set that holds 0, and with each number   *)
(* the next, holds the interval.                                            *)
LEMMA UpTo ==
  ASSUME NEW n \in Nat, NEW T, 0 \in T, \A i \in 1 .. n : i - 1 \in T => i \in T
  PROVE  0 .. n \subseteq T
<1> DEFINE R == {ss \in Nat \X Nat : ss[1] < ss[2]}
           Missing == {i \in 0 .. n : i \notin T}
<1> SUFFICES ASSUME Missing # {} PROVE FALSE
  OBVIOUS
<1>1. IsWellFoundedOn(R, Nat)
  BY NatLessThanWellFounded DEF OpToRel
<1>2. Missing \subseteq Nat
  OBVIOUS
<1> HIDE DEF R, Missing
<1>3. PICK i \in Missing : \A j \in Missing : ~(<<j, i>> \in R)
  BY <1>1, <1>2, WFMin
<1>4. i \in 1 .. n /\ i - 1 \in Nat /\ i \in Nat /\ i - 1 < i
  BY DEF Missing
<1>5. <<i - 1, i>> \in R
  <2>1. <<i - 1, i>> \in Nat \X Nat /\ <<i - 1, i>>[1] < <<i - 1, i>>[2]
    BY <1>4
  <2> QED BY <2>1 DEF R
<1>6. i - 1 \in T
  BY <1>3, <1>4, <1>5 DEF Missing
<1> QED BY <1>4, <1>6 DEF Missing

(* The results of n steps from the first, one after the other. *)
Iterations(n, S, first, step) ==
  {f \in [0 .. n -> S] : f[0] = first /\ \A i \in 1 .. n : f[i] = step[i][f[i - 1]]}

(* There is a function to define by recursion.                              *)
LEMMA Recursion ==
  ASSUME NEW n \in Nat, NEW S, NEW first \in S, NEW step \in [1 .. n -> [S -> S]]
  PROVE  Iterations(n, S, first, step) # {}
<1> DEFINE Is(f, m) == f[0] = first /\ \A i \in 1 .. m : f[i] = step[i][f[i - 1]]
           T == {m \in 0 .. n : \E f \in [0 .. m -> S] : Is(f, m)}
<1>1. 0 \in T
  <2> DEFINE g == [i \in 0 .. 0 |-> first]
  <2>1. g \in [0 .. 0 -> S]
    OBVIOUS
  <2>2. Is(g, 0)
    OBVIOUS
  <2> HIDE DEF g
  <2> QED BY <2>1, <2>2
<1>2. ASSUME NEW m \in 1 .. n, m - 1 \in T PROVE m \in T
  <2>1. PICK f \in [0 .. m - 1 -> S] : Is(f, m - 1)
    BY <1>2
  <2> DEFINE g == [i \in 0 .. m |-> IF i = m THEN step[m][f[m - 1]] ELSE f[i]]
  <2>2. m \in 0 .. n /\ m - 1 \in 0 .. m - 1 /\ f[m - 1] \in S /\ m # 0
    OBVIOUS
  <2>3. g \in [0 .. m -> S]
    BY <2>2
  <2>4. g[0] = first
    BY <2>1, <2>2
  <2>5. ASSUME NEW i \in 1 .. m PROVE g[i] = step[i][g[i - 1]]
    <3>1. i - 1 \in 0 .. m /\ i - 1 # m /\ i \in 0 .. m
      OBVIOUS
    <3>2. i # m => i \in 1 .. m - 1
      OBVIOUS
    <3> QED BY <2>1, <3>1, <3>2
  <2>6. Is(g, m)
    BY <2>4, <2>5
  <2> HIDE DEF g, Is
  <2> QED BY <2>2, <2>3, <2>6
<1> HIDE DEF T
<1>3. 0 .. n \subseteq T
  BY <1>1, <1>2, UpTo
<1>4. n \in T
  BY <1>3
<1> QED BY <1>4 DEF T, Iterations

(* What a function gives that is defined by recursion from above: at each   *)
(* place by step, which looks at later places only.                         *)
Descents(n, S, step) == {f \in [1 .. n -> S] : \A i \in 1 .. n : f[i] = step[i][f]}

LooksAhead(n, S, step) ==
  \A i \in 1 .. n, f, g \in [1 .. n -> S] :
    (\A j \in i + 1 .. n : f[j] = g[j]) => step[i][f] = step[i][g]

(* There is a function to define by recursion from above.                   *)
LEMMA Backwards ==
  ASSUME NEW n \in Nat, NEW S, NEW s0 \in S, NEW step \in [1 .. n -> [[1 .. n -> S] -> S]],
         LooksAhead(n, S, step)
  PROVE  Descents(n, S, step) # {}
<1> DEFINE Is(f, m) == \A i \in 1 .. n : i > n - m => f[i] = step[i][f]
           T == {m \in 0 .. n : \E f \in [1 .. n -> S] : Is(f, m)}
<1>1. 0 \in T
  <2> DEFINE g == [i \in 1 .. n |-> s0]
  <2>1. g \in [1 .. n -> S]
    OBVIOUS
  <2>2. Is(g, 0)
    OBVIOUS
  <2> HIDE DEF g
  <2> QED BY <2>1, <2>2
<1>2. ASSUME NEW m \in 1 .. n, m - 1 \in T PROVE m \in T
  <2>1. PICK f \in [1 .. n -> S] : Is(f, m - 1)
    BY <1>2
  <2>2. PICK k \in 1 .. n : k = n - m + 1
    OBVIOUS
  <2>3. PICK v \in S : v = step[k][f]
    OBVIOUS
  <2>4. PICK g : g = [f EXCEPT ![k] = v]
    OBVIOUS
  <2>5. g \in [1 .. n -> S] /\ g[k] = v /\ \A j \in 1 .. n : j # k => g[j] = f[j]
    BY <2>3, <2>4
  <2>6. ASSUME NEW i \in 1 .. n, i > n - m PROVE g[i] = step[i][g]
    <3>1. \A j \in i + 1 .. n : f[j] = g[j]
      <4>1. \A j \in i + 1 .. n : j \in 1 .. n /\ j # k
        BY <2>2, <2>6
      <4> QED BY <2>5, <4>1
    <3>2. step[i][f] = step[i][g]
      BY <2>5, <3>1 DEF LooksAhead
    <3>3. CASE i = k
      BY <2>3, <2>5, <3>2, <3>3
    <3>4. CASE i # k
      <4>1. i > n - (m - 1)
        BY <2>2, <2>6, <3>4
      <4>2. f[i] = step[i][f]
        BY <2>1, <4>1
      <4> QED BY <2>5, <3>2, <3>4, <4>2
    <3> QED BY <3>3, <3>4
  <2>7. m \in 0 .. n
    OBVIOUS
  <2> QED BY <2>5, <2>6, <2>7
<1> HIDE DEF T
<1>3. 0 .. n \subseteq T
  BY <1>1, <1>2, UpTo
<1>4. n \in T
  BY <1>3
<1>5. PICK f \in [1 .. n -> S] : Is(f, n)
  BY <1>4 DEF T
<1>6. \A i \in 1 .. n : i > n - n
  OBVIOUS
<1> QED BY <1>5, <1>6 DEF Descents

(* What a function gives that is defined by recursion from below: at each   *)
(* place by step, which looks at earlier places only.                       *)
Ascents(n, S, first, step) ==
  {f \in [0 .. n -> S] : f[0] = first /\ \A i \in 1 .. n : f[i] = step[i][f]}

LooksBack(n, S, step) ==
  \A i \in 1 .. n, f, g \in [0 .. n -> S] :
    (\A j \in 0 .. i - 1 : f[j] = g[j]) => step[i][f] = step[i][g]

(* There is a function to define by recursion from below.                   *)
LEMMA Forwards ==
  ASSUME NEW n \in Nat, NEW S, NEW first \in S, NEW step \in [1 .. n -> [[0 .. n -> S] -> S]],
         LooksBack(n, S, step)
  PROVE  Ascents(n, S, first, step) # {}
<1> DEFINE Is(f, m) == f[0] = first /\ \A i \in 1 .. m : f[i] = step[i][f]
           T == {m \in 0 .. n : \E f \in [0 .. n -> S] : Is(f, m)}
<1>1. 0 \in T
  <2> DEFINE g == [i \in 0 .. n |-> first]
  <2>1. g \in [0 .. n -> S]
    OBVIOUS
  <2>2. Is(g, 0)
    OBVIOUS
  <2> HIDE DEF g
  <2> QED BY <2>1, <2>2
<1>2. ASSUME NEW m \in 1 .. n, m - 1 \in T PROVE m \in T
  <2>1. PICK f \in [0 .. n -> S] : Is(f, m - 1)
    BY <1>2
  <2>2. PICK v \in S : v = step[m][f]
    OBVIOUS
  <2>3. PICK g : g = [f EXCEPT ![m] = v]
    OBVIOUS
  <2>4. m \in 0 .. n /\ 0 \in 0 .. n /\ m # 0
    OBVIOUS
  <2>5. g \in [0 .. n -> S] /\ g[m] = v /\ \A j \in 0 .. n : j # m => g[j] = f[j]
    BY <2>2, <2>3, <2>4
  <2>6. ASSUME NEW i \in 1 .. m PROVE g[i] = step[i][g]
    <3>1. \A j \in 0 .. i - 1 : f[j] = g[j]
      <4>1. \A j \in 0 .. i - 1 : j \in 0 .. n /\ j # m
        OBVIOUS
      <4> QED BY <2>5, <4>1
    <3>2. i \in 1 .. n /\ i \in 0 .. n
      OBVIOUS
    <3>3. step[i][f] = step[i][g]
      BY <2>5, <3>1, <3>2 DEF LooksBack
    <3>4. i # m => i \in 1 .. m - 1
      OBVIOUS
    <3> QED BY <2>1, <2>2, <2>5, <3>2, <3>3, <3>4
  <2>7. g[0] = first
    BY <2>1, <2>4, <2>5
  <2> QED BY <2>4, <2>5, <2>6, <2>7
<1> HIDE DEF T
<1>3. 0 .. n \subseteq T
  BY <1>1, <1>2, UpTo
<1>4. n \in T
  BY <1>3
<1> QED BY <1>4 DEF T, Ascents

(* A set of addresses has a least one. *)
LEMMA LeastOf ==
  ASSUME NEW S \in SUBSET Nat, S # {}
  PROVE  Min(S) \in S
<1> DEFINE R == {ss \in Nat \X Nat : ss[1] < ss[2]}
<1>1. IsWellFoundedOn(R, Nat)
  BY NatLessThanWellFounded DEF OpToRel
<1>0. \A x, y \in Nat : y < x => <<y, x>> \in R
  OBVIOUS
<1> HIDE DEF R
<1>2. PICK x \in S : \A y \in S : ~(<<y, x>> \in R)
  BY <1>1, WFMin
<1>3. ASSUME NEW y \in S PROVE x =< y
  <2>1. x \in Nat /\ y \in Nat /\ ~(y < x)
    BY <1>0, <1>2
  <2> QED BY <2>1
<1> QED BY <1>3 DEF Min

(* malloc gives an address that is free, and not NULL. *)
LEMMA FreshIs ==
  ASSUME NEW heap, IsFiniteSet(DOMAIN heap)
  PROVE  Fresh(heap) \in Nat \ {NULL} /\ Fresh(heap) \notin DOMAIN heap
<1> DEFINE n == Cardinality(DOMAIN heap)
           S == {a \in 1 .. n + 1 : a \notin DOMAIN heap}
<1>1. n \in Nat
  BY FS_CardinalityType
<1>2. S # {}
  <2> SUFFICES ASSUME 1 .. n + 1 \subseteq DOMAIN heap PROVE FALSE
    OBVIOUS
  <2>1. Cardinality(1 .. n + 1) <= n
    BY FS_Subset
  <2>2. Cardinality(1 .. n + 1) = n + 1
    BY <1>1, FS_Interval
  <2> HIDE DEF n
  <2> QED BY <1>1, <2>1, <2>2
<1>3. S \subseteq Nat
  BY <1>1
<1>4. Fresh(heap) = Min(S)
  BY DEF Fresh
<1>5. Min(S) \in S
  BY <1>2, <1>3, LeastOf
<1> QED BY <1>1, <1>4, <1>5 DEF NULL

(* What an item's pointers lead to. *)
Follows(heap, n) == {heap[n].next, heap[n].child} \cap DOMAIN heap
IsClosed(heap, S) == \A n \in S \cap DOMAIN heap : Follows(heap, n) \subseteq S

(* What cJSON_Delete reaches is all that hangs together from an item on. *)
LEMMA ReachedIs ==
  ASSUME NEW heap, IsFiniteSet(DOMAIN heap), NEW x
  PROVE  /\ Reached(heap, x) \subseteq DOMAIN heap
         /\ x \in DOMAIN heap => x \in Reached(heap, x)
         /\ IsClosed(heap, Reached(heap, x))
         /\ \A S : (x \in DOMAIN heap => x \in S) /\ IsClosed(heap, S) => Reached(heap, x) \subseteq S
<1> DEFINE D == DOMAIN heap
           N == Cardinality(D)
           From(T) == UNION {{n, heap[n].next, heap[n].child} : n \in T \cap D}
           U == {x} \cup From(D)
           Is(f) == f = [k \in 0 .. N |-> IF k = 0 THEN {x} ELSE From(f[k - 1])]
           f0 == CHOOSE f : Is(f)
           A(k) == f0[k] \cap D
<1>1. N \in Nat
  BY FS_CardinalityType
<1>2. Reached(heap, x) = A(N)
  BY DEF Reached
<1> DEFINE go == [k \in 1 .. N |-> [T \in SUBSET U |-> From(T)]]
<1>3. go \in [1 .. N -> [SUBSET U -> SUBSET U]]
  OBVIOUS
<1>4. {x} \in SUBSET U
  OBVIOUS
<1>5. \A k \in 1 .. N, T \in SUBSET U : go[k][T] = From(T)
  OBVIOUS
<1> HIDE DEF go, U, From
<1>6. PICK f \in [0 .. N -> SUBSET U] : f[0] = {x} /\ \A k \in 1 .. N : f[k] = go[k][f[k - 1]]
  <2> HIDE DEF N
  <2>1. Iterations(N, SUBSET U, {x}, go) # {}
    BY <1>1, <1>3, <1>4, Recursion
  <2> QED BY <2>1 DEF Iterations
<1> HIDE DEF N
<1>7. Is(f)
  <2>2. ASSUME NEW k \in 0 .. N PROVE f[k] = IF k = 0 THEN {x} ELSE From(f[k - 1])
    <3>1. CASE k = 0
      BY <1>6, <3>1
    <3>2. CASE k # 0
      <4>1. k \in 1 .. N /\ k - 1 \in 0 .. N
        BY <1>1, <3>2
      <4> QED BY <1>5, <1>6, <3>2, <4>1
    <3> QED BY <3>1, <3>2
  <2>3. f = [k \in 0 .. N |-> f[k]]
    OBVIOUS
  <2> QED BY <2>2, <2>3
<1> HIDE DEF Is
<1>8. Is(f0)
  BY <1>7
<1> HIDE DEF f0
<1>9. f0[0] = {x} /\ \A k \in 1 .. N : f0[k] = From(f0[k - 1])
  <2>1. f0[0] = {x}
    BY <1>1, <1>8 DEF Is
  <2>2. ASSUME NEW k \in 1 .. N PROVE f0[k] = From(f0[k - 1])
    <3>1. k \in 0 .. N /\ k # 0
      BY <1>1
    <3> QED BY <1>8, <3>1 DEF Is
  <2> QED BY <2>1, <2>2
<1>10. A(0) = {x} \cap D
  BY <1>9
<1>11. ASSUME NEW k \in 1 .. N
       PROVE  A(k) = A(k - 1) \cup UNION {Follows(heap, n) : n \in A(k - 1)}
  BY <1>9 DEF From, Follows
<1> HIDE DEF A
<1>12. \A k \in 0 .. N : A(k) \subseteq D
  BY DEF A
<1>13. ASSUME x \in D PROVE x \in A(N)
  <2> DEFINE T == {k \in 0 .. N : x \in A(k)}
  <2>1. 0 \in T
    BY <1>1, <1>10, <1>13
  <2>2. ASSUME NEW k \in 1 .. N, k - 1 \in T PROVE k \in T
    BY <1>1, <1>11, <2>2
  <2> HIDE DEF T
  <2>3. 0 .. N \subseteq T
    BY <1>1, <2>1, <2>2, UpTo
  <2>4. N \in T
    BY <1>1, <2>3
  <2> QED BY <2>4 DEF T
<1>14. ASSUME NEW S, x \in D => x \in S, IsClosed(heap, S) PROVE A(N) \subseteq S
  <2> DEFINE T == {k \in 0 .. N : A(k) \subseteq S}
  <2>1. 0 \in T
    BY <1>1, <1>10, <1>14
  <2>2. ASSUME NEW k \in 1 .. N, k - 1 \in T PROVE k \in T
    <3>1. A(k - 1) \subseteq S /\ k - 1 \in 0 .. N /\ k \in 0 .. N
      BY <1>1, <2>2
    <3>2. A(k - 1) \subseteq D
      BY <1>12, <3>1
    <3>3. \A n \in A(k - 1) : Follows(heap, n) \subseteq S
      BY <1>14, <3>1, <3>2 DEF IsClosed
    <3> QED BY <1>11, <3>1, <3>3
  <2> HIDE DEF T
  <2>3. 0 .. N \subseteq T
    BY <1>1, <2>1, <2>2, UpTo
  <2>4. N \in T
    BY <1>1, <2>3
  <2> QED BY <2>4 DEF T
<1>15. IsClosed(heap, A(N))
  <2> DEFINE T == {k \in 0 .. N : IsClosed(heap, A(k)) \/ Cardinality(A(k)) >= k + 1}
  <2>0. ASSUME NEW k \in 0 .. N PROVE IsFiniteSet(A(k)) /\ Cardinality(A(k)) \in Nat /\ Cardinality(A(k)) <= N
    BY <1>1, <1>12, FS_Subset, FS_CardinalityType DEF N
  <2>1. 0 \in T
    <3>1. CASE x \in D
      <4>1. A(0) = {x}
        BY <1>10, <3>1
      <4>2. Cardinality(A(0)) = 1
        BY <4>1, FS_Singleton
      <4> QED BY <1>1, <4>2
    <3>2. CASE x \notin D
      <4>1. A(0) = {}
        BY <1>10, <3>2
      <4> QED BY <1>1, <4>1 DEF IsClosed
    <3> QED BY <3>1, <3>2
  <2>2. ASSUME NEW k \in 1 .. N, k - 1 \in T PROVE k \in T
    <3>1. k - 1 \in 0 .. N /\ k \in 0 .. N /\ A(k - 1) \subseteq D
      BY <1>1, <1>12
    <3>2. CASE IsClosed(heap, A(k - 1))
      <4>1. A(k) = A(k - 1)
        BY <1>11, <3>1, <3>2 DEF IsClosed
      <4> QED BY <3>1, <3>2, <4>1
    <3>3. CASE ~IsClosed(heap, A(k - 1))
      <4>1. PICK n \in A(k - 1) \cap D : \E y \in Follows(heap, n) : y \notin A(k - 1)
        BY <3>3 DEF IsClosed
      <4>0. PICK y \in Follows(heap, n) : y \notin A(k - 1)
        BY <4>1
      <4>2. A(k - 1) \cup {y} \subseteq A(k)
        BY <1>11, <4>0, <4>1
      <4>3. Cardinality(A(k - 1)) >= k
        BY <1>1, <2>2, <3>3
      <4>4. IsFiniteSet(A(k - 1)) /\ IsFiniteSet(A(k)) /\ Cardinality(A(k)) \in Nat /\ Cardinality(A(k - 1)) \in Nat
        BY <2>0, <3>1
      <4>5. Cardinality(A(k - 1) \cup {y}) = Cardinality(A(k - 1)) + 1
        BY <4>0, <4>4, FS_AddElement
      <4>6. Cardinality(A(k - 1) \cup {y}) <= Cardinality(A(k))
        BY <4>2, <4>4, FS_Subset
      <4> QED BY <1>1, <3>1, <4>3, <4>4, <4>5, <4>6
    <3> QED BY <3>2, <3>3
  <2> HIDE DEF T
  <2>3. 0 .. N \subseteq T
    BY <1>1, <2>1, <2>2, UpTo
  <2>4. N \in T /\ N \in 0 .. N
    BY <1>1, <2>3
  <2>5. ~(Cardinality(A(N)) >= N + 1)
    BY <1>1, <2>0, <2>4
  <2> QED BY <2>4, <2>5 DEF T
<1> QED BY <1>1, <1>2, <1>12, <1>13, <1>14, <1>15
-----------------------------------------------------------------------------
(* The types and pointers an item can have.                                 *)
Kinds == {"invalid", "string", "number"} \cup Literals \cup Opening

Fields == [type : Kinds, next : Nat, prev : Nat, child : Nat, string : Nat, valuestring : Nat]

(* A heap: its addresses, and that no item is at NULL. *)
IsHeap(heap) == IsFiniteSet(DOMAIN heap) /\ NULL \notin DOMAIN heap

(* The items an item points to.                                             *)
Links(heap, n) == {heap[n].next, heap[n].prev, heap[n].child}

(* The items that hang from each of the starting points 0 .. K are all the  *)
(* items there are, and no link leads from one of these regions to another. *)
Shape(heap, K, start) ==
  /\ \A j, k \in 0 .. K : j # k => Reached(heap, start[j]) \cap Reached(heap, start[k]) = {}
  /\ \A n \in DOMAIN heap : \E k \in 0 .. K : n \in Reached(heap, start[k])
  /\ \A k \in 0 .. K : \A n \in Reached(heap, start[k]) :
       Links(heap, n) \subseteq Reached(heap, start[k]) \cup {NULL}
  /\ \A k \in 0 .. K : start[k] \in DOMAIN heap \cup {NULL}

(* What ReachedIs says, for a heap, in the words the proofs use.            *)
LEMMA Reaches ==
  ASSUME NEW heap, IsHeap(heap), NEW x
  PROVE  /\ Reached(heap, x) \subseteq DOMAIN heap
         /\ x \in DOMAIN heap => x \in Reached(heap, x)
         /\ x \notin DOMAIN heap => Reached(heap, x) = {}
         /\ \A y \in Reached(heap, x) : Reached(heap, y) \subseteq Reached(heap, x)
         /\ \A n \in Reached(heap, x) : Follows(heap, n) \subseteq Reached(heap, x)
<1>1. IsFiniteSet(DOMAIN heap)
  BY DEF IsHeap
<1>2. /\ Reached(heap, x) \subseteq DOMAIN heap
      /\ x \in DOMAIN heap => x \in Reached(heap, x)
      /\ IsClosed(heap, Reached(heap, x))
      /\ \A S : (x \in DOMAIN heap => x \in S) /\ IsClosed(heap, S) => Reached(heap, x) \subseteq S
  BY <1>1, ReachedIs
<1>3. ASSUME x \notin DOMAIN heap PROVE Reached(heap, x) = {}
  <2>1. IsClosed(heap, {})
    BY DEF IsClosed
  <2> QED BY <1>2, <1>3, <2>1
<1>4. ASSUME NEW y \in Reached(heap, x) PROVE Reached(heap, y) \subseteq Reached(heap, x)
  BY <1>1, <1>2, ReachedIs
<1>5. \A n \in Reached(heap, x) : Follows(heap, n) \subseteq Reached(heap, x)
  BY <1>2 DEF IsClosed
<1> QED BY <1>2, <1>3, <1>4, <1>5

(* A set that holds the item and all its items follow. *)
LEMMA Within ==
  ASSUME NEW heap, IsHeap(heap), NEW x, NEW S,
         x \in DOMAIN heap => x \in S,
         \A n \in S \cap DOMAIN heap : Follows(heap, n) \subseteq S
  PROVE  Reached(heap, x) \subseteq S
<1>1. IsClosed(heap, S)
  BY DEF IsClosed
<1>2. IsFiniteSet(DOMAIN heap)
  BY DEF IsHeap
<1> QED BY <1>1, <1>2, ReachedIs

(* With more links, no less is reached. *)
LEMMA ReachesMore ==
  ASSUME NEW h, IsHeap(h), NEW g, IsHeap(g), NEW x,
         DOMAIN h \subseteq DOMAIN g,
         \A n \in DOMAIN h : Follows(h, n) \subseteq Follows(g, n)
  PROVE  Reached(h, x) \subseteq Reached(g, x)
<1> DEFINE S == Reached(g, x)
<1>1. /\ x \in DOMAIN g => x \in S
      /\ \A n \in S : Follows(g, n) \subseteq S
  BY Reaches
<1> HIDE DEF S
<1>2. x \in DOMAIN h => x \in S
  BY <1>1
<1>3. \A n \in S \cap DOMAIN h : Follows(h, n) \subseteq S
  BY <1>1
<1>4. Reached(h, x) \subseteq S
  BY <1>2, <1>3, Within
<1> QED BY <1>4 DEF S

(* What is reached depends on the items that are reached, not on others. *)
LEMMA ReachesSame ==
  ASSUME NEW h, IsHeap(h), NEW g, IsHeap(g), NEW x,
         x \in DOMAIN h \cup {NULL},
         Reached(h, x) \subseteq DOMAIN g,
         \A n \in Reached(h, x) : /\ Links(h, n) \subseteq Reached(h, x) \cup {NULL}
                                  /\ g[n].next = h[n].next /\ g[n].child = h[n].child
  PROVE  Reached(g, x) = Reached(h, x)
<1> DEFINE S == Reached(h, x)
           T == Reached(g, x)
<1>1. /\ S \subseteq DOMAIN h
      /\ x \in DOMAIN h => x \in S
      /\ \A n \in S : Follows(h, n) \subseteq S
  BY Reaches
<1>2. /\ T \subseteq DOMAIN g
      /\ x \in DOMAIN g => x \in T
      /\ \A n \in T : Follows(g, n) \subseteq T
  BY Reaches
<1>3. NULL \notin DOMAIN g
  BY DEF IsHeap
<1>4. ASSUME NEW n \in S PROVE Follows(g, n) \subseteq S /\ Follows(h, n) \subseteq Follows(g, n)
  BY <1>1, <1>3 DEF Follows, Links, IsHeap
<1> HIDE DEF S, T
<1>5. x \in DOMAIN g => x \in S
  BY <1>1, <1>3
<1>6. Reached(g, x) \subseteq S
  BY <1>4, <1>5, Within
<1>7. x \in DOMAIN h => x \in S \cap T
  BY <1>1, <1>2 DEF S
<1>8. \A n \in (S \cap T) \cap DOMAIN h : Follows(h, n) \subseteq S \cap T
  BY <1>1, <1>2, <1>4
<1>9. Reached(h, x) \subseteq S \cap T
  BY <1>7, <1>8, Within
<1> QED BY <1>6, <1>9 DEF S, T

(* What Shape says of one of its regions.                                   *)
LEMMA ShapeGives ==
  ASSUME NEW h, IsHeap(h), NEW K \in Nat, NEW start, Shape(h, K, start),
         NEW k \in 0 .. K
  PROVE  /\ Reached(h, start[k]) \subseteq DOMAIN h
         /\ start[k] \in DOMAIN h => start[k] \in Reached(h, start[k])
         /\ start[k] \notin DOMAIN h => Reached(h, start[k]) = {}
         /\ \A n \in Reached(h, start[k]) : Links(h, n) \subseteq Reached(h, start[k]) \cup {NULL}
BY Reaches DEF Shape

(* Nothing changes when no link does. *)
LEMMA ShapeSame ==
  ASSUME NEW h, IsHeap(h), NEW K \in Nat, NEW start, Shape(h, K, start),
         NEW g, DOMAIN g = DOMAIN h,
         \A n \in DOMAIN h : g[n].next = h[n].next /\ g[n].prev = h[n].prev /\ g[n].child = h[n].child
  PROVE  /\ IsHeap(g) /\ Shape(g, K, start)
         /\ \A k \in 0 .. K : Reached(g, start[k]) = Reached(h, start[k])
<1>1. IsHeap(g)
  BY DEF IsHeap
<1>2. ASSUME NEW k \in 0 .. K PROVE Reached(g, start[k]) = Reached(h, start[k])
  <2>1. Reached(h, start[k]) \subseteq DOMAIN h
    BY Reaches
  <2>2. start[k] \in DOMAIN h \cup {NULL}
    BY DEF Shape
  <2>3. \A n \in Reached(h, start[k]) : Links(h, n) \subseteq Reached(h, start[k]) \cup {NULL}
    BY DEF Shape
  <2> QED BY <1>1, <2>1, <2>2, <2>3, ReachesSame
<1>3. \A n \in DOMAIN h : Links(g, n) = Links(h, n)
  BY DEF Links
<1>4. \A k \in 0 .. K : Reached(h, start[k]) \subseteq DOMAIN h
  BY Reaches
<1> QED BY <1>1, <1>2, <1>3, <1>4 DEF Shape

(* One more list, still empty. *)
LEMMA ShapeOpen ==
  ASSUME NEW h, IsHeap(h), NEW K \in Nat, NEW start, Shape(h, K, start),
         NEW begin, \A k \in 0 .. K : begin[k] = start[k], begin[K + 1] = NULL
  PROVE  Shape(h, K + 1, begin)
<1>1. Reached(h, begin[K + 1]) = {}
  BY Reaches DEF IsHeap
<1>2. \A k \in 0 .. K + 1 : k = K + 1 \/ k \in 0 .. K
  OBVIOUS
<1>3. 0 .. K \subseteq 0 .. K + 1
  OBVIOUS
<1> QED BY <1>1, <1>2, <1>3 DEF Shape

(* A region is taken away, the last. *)
LEMMA ShapeDrop ==
  ASSUME NEW h, IsHeap(h), NEW K \in Nat \ {0}, NEW start, Shape(h, K, start),
         NEW g, g = [n \in DOMAIN h \ Reached(h, start[K]) |-> h[n]]
  PROVE  /\ IsHeap(g) /\ Shape(g, K - 1, start)
         /\ \A k \in 0 .. K - 1 : Reached(g, start[k]) = Reached(h, start[k])
<1>1. IsHeap(g)
  <2>1. DOMAIN g \subseteq DOMAIN h
    OBVIOUS
  <2> QED BY <2>1, FS_Subset DEF IsHeap
<1>2. \A k \in 0 .. K - 1 : k \in 0 .. K /\ k # K
  OBVIOUS
<1>0. K \in 0 .. K
  OBVIOUS
<1>3. ASSUME NEW k \in 0 .. K - 1
      PROVE /\ Reached(h, start[k]) \subseteq DOMAIN g
            /\ Reached(g, start[k]) = Reached(h, start[k])
            /\ \A n \in Reached(h, start[k]) : Links(h, n) \subseteq Reached(h, start[k]) \cup {NULL}
            /\ start[k] \in DOMAIN g \cup {NULL}
  <2>1. Reached(h, start[k]) \subseteq DOMAIN h
    BY Reaches
  <2>2. Reached(h, start[k]) \cap Reached(h, start[K]) = {}
    BY <1>0, <1>2 DEF Shape
  <2>3. Reached(h, start[k]) \subseteq DOMAIN g
    BY <2>1, <2>2
  <2>4. start[k] \in DOMAIN h \cup {NULL}
    BY <1>2 DEF Shape
  <2>5. \A n \in Reached(h, start[k]) : Links(h, n) \subseteq Reached(h, start[k]) \cup {NULL}
    BY <1>2 DEF Shape
  <2>6. \A n \in DOMAIN g : g[n] = h[n]
    OBVIOUS
  <2>7. Reached(g, start[k]) = Reached(h, start[k])
    BY <1>1, <2>3, <2>4, <2>5, <2>6, ReachesSame
  <2>8. start[k] \in DOMAIN h => start[k] \in Reached(h, start[k])
    BY Reaches
  <2> QED BY <2>3, <2>4, <2>5, <2>7, <2>8
<1>4. \A n \in DOMAIN g : g[n] = h[n] /\ Links(g, n) = Links(h, n)
  BY DEF Links
<1>5. \A j, k \in 0 .. K - 1 : j # k => Reached(g, start[j]) \cap Reached(g, start[k]) = {}
  <2>1. \A j, k \in 0 .. K - 1 : j # k => Reached(h, start[j]) \cap Reached(h, start[k]) = {}
    BY <1>2 DEF Shape
  <2> QED BY <1>3, <2>1
<1>6. \A n \in DOMAIN g : \E k \in 0 .. K - 1 : n \in Reached(g, start[k])
  <2> SUFFICES ASSUME NEW n \in DOMAIN g PROVE \E k \in 0 .. K - 1 : n \in Reached(g, start[k])
    OBVIOUS
  <2>1. n \in DOMAIN h /\ n \notin Reached(h, start[K])
    OBVIOUS
  <2>2. PICK k \in 0 .. K : n \in Reached(h, start[k])
    BY <2>1 DEF Shape
  <2>3. k \in 0 .. K - 1
    BY <2>1, <2>2
  <2> QED BY <1>3, <2>2, <2>3
<1>7. \A k \in 0 .. K - 1 : \A n \in Reached(g, start[k]) : Links(g, n) \subseteq Reached(g, start[k]) \cup {NULL}
  BY <1>3, <1>4
<1>8. \A k \in 0 .. K - 1 : start[k] \in DOMAIN g \cup {NULL}
  BY <1>3
<1> QED BY <1>1, <1>3, <1>5, <1>6, <1>7, <1>8 DEF Shape

(* The only region is taken away. *)
LEMMA ShapeDropAll ==
  ASSUME NEW h, IsHeap(h), NEW start, Shape(h, 0, start),
         NEW g, g = [n \in DOMAIN h \ Reached(h, start[0]) |-> h[n]]
  PROVE  DOMAIN g = {}
<1>1. \A k \in 0 .. 0 : k = 0
  OBVIOUS
<1> QED BY <1>1 DEF Shape

(* A heap of no items. *)
LEMMA ShapeOfNone ==
  ASSUME NEW h, DOMAIN h = {}, NEW start, start[0] = NULL
  PROVE  IsHeap(h) /\ Shape(h, 0, start)
<1>1. IsHeap(h)
  BY FS_EmptySet DEF IsHeap
<1>2. Reached(h, start[0]) = {}
  BY <1>1, Reaches
<1>3. \A k \in 0 .. 0 : k = 0
  OBVIOUS
<1> QED BY <1>1, <1>2, <1>3 DEF Shape

(* The regions below the J-th are as they were; the J-th is as said, and    *)
(* what was above is in it or gone.                                         *)
LEMMA ShapeUpTo ==
  ASSUME NEW h, IsHeap(h), NEW K \in Nat, NEW start, Shape(h, K, start),
         NEW g, IsHeap(g), NEW J \in 0 .. K, NEW begin,
         \A k \in 0 .. J - 1 : begin[k] = start[k],
         \A k \in 0 .. J - 1 : \A n \in Reached(h, start[k]) :
           /\ n \in DOMAIN g
           /\ g[n].next = h[n].next /\ g[n].prev = h[n].prev /\ g[n].child = h[n].child,
         begin[J] \in DOMAIN g \cup {NULL},
         NEW S, Reached(g, begin[J]) = S,
         \A k \in 0 .. J - 1 : Reached(h, start[k]) \cap S = {},
         \A n \in DOMAIN g : n \in S \/ \E k \in 0 .. J - 1 : n \in Reached(h, start[k]),
         \A n \in S : Links(g, n) \subseteq S \cup {NULL}
  PROVE  Shape(g, J, begin) /\ \A k \in 0 .. J - 1 : Reached(g, begin[k]) = Reached(h, start[k])
<1>0. \A k \in 0 .. J - 1 : k \in 0 .. K /\ k # J
  OBVIOUS
<1>1. ASSUME NEW k \in 0 .. J - 1
      PROVE  /\ Reached(g, begin[k]) = Reached(h, start[k])
             /\ \A n \in Reached(h, start[k]) : Links(g, n) \subseteq Reached(h, start[k]) \cup {NULL}
             /\ begin[k] \in DOMAIN g \cup {NULL}
  <2>1. begin[k] = start[k] /\ start[k] \in DOMAIN h \cup {NULL}
    BY <1>0 DEF Shape
  <2>2. \A n \in Reached(h, start[k]) : Links(h, n) \subseteq Reached(h, start[k]) \cup {NULL}
    BY <1>0 DEF Shape
  <2>3. Reached(h, start[k]) \subseteq DOMAIN g
    OBVIOUS
  <2>4. Reached(g, start[k]) = Reached(h, start[k])
    BY <2>1, <2>2, <2>3, ReachesSame
  <2>5. \A n \in Reached(h, start[k]) : Links(g, n) = Links(h, n)
    BY DEF Links
  <2>6. start[k] \in DOMAIN h => start[k] \in Reached(h, start[k])
    BY Reaches
  <2> QED BY <2>1, <2>2, <2>3, <2>4, <2>5, <2>6
<1>2. \A k \in 0 .. J : k = J \/ k \in 0 .. J - 1
  OBVIOUS
<1>3. \A j, k \in 0 .. J - 1 : j # k => Reached(h, start[j]) \cap Reached(h, start[k]) = {}
  BY <1>0 DEF Shape
<1>4. \A j, k \in 0 .. J : j # k => Reached(g, begin[j]) \cap Reached(g, begin[k]) = {}
  <2> SUFFICES ASSUME NEW j \in 0 .. J, NEW k \in 0 .. J, j # k
               PROVE  Reached(g, begin[j]) \cap Reached(g, begin[k]) = {}
    OBVIOUS
  <2>1. CASE j = J
    BY <1>1, <1>2, <2>1
  <2>2. CASE k = J
    BY <1>1, <1>2, <2>2
  <2>3. CASE j # J /\ k # J
    BY <1>1, <1>2, <1>3, <2>3
  <2> QED BY <2>1, <2>2, <2>3
<1>5. \A n \in DOMAIN g : \E k \in 0 .. J : n \in Reached(g, begin[k])
  <2>1. J \in 0 .. J /\ 0 .. J - 1 \subseteq 0 .. J
    OBVIOUS
  <2> QED BY <1>1, <2>1
<1>6. \A k \in 0 .. J : \A n \in Reached(g, begin[k]) : Links(g, n) \subseteq Reached(g, begin[k]) \cup {NULL}
  BY <1>1, <1>2
<1>7. \A k \in 0 .. J : begin[k] \in DOMAIN g \cup {NULL}
  BY <1>1, <1>2
<1> QED BY <1>1, <1>4, <1>5, <1>6, <1>7 DEF Shape

(* The last region has one item more, and its begin may have changed; the   *)
(* others are as they were.                                                 *)
LastGrows(h, K, start, n, g, begin) ==
  /\ IsHeap(g) /\ Shape(g, K, begin)
  /\ Reached(g, begin[K]) = Reached(h, start[K]) \cup {n}
  /\ \A k \in 0 .. K - 1 : Reached(g, begin[k]) = Reached(h, start[k])

(* The last region is now part of the one before it. *)
LastJoins(h, K, start, g) ==
  /\ IsHeap(g) /\ Shape(g, K - 1, start)
  /\ Reached(g, start[K - 1]) = Reached(h, start[K - 1]) \cup Reached(h, start[K])
  /\ \A k \in 0 .. K - 2 : Reached(g, start[k]) = Reached(h, start[k])

(* A new item at the end of the last list. *)
LEMMA ShapeAttach ==
  ASSUME NEW h, IsHeap(h), NEW K \in Nat, NEW start, NEW n, NEW last, NEW g,
         Shape(h, K, start),
         n \notin DOMAIN h, n # NULL,
         last \in Reached(h, start[K]), h[last].next = NULL,
         DOMAIN g = DOMAIN h \cup {n},
         g[n].next = NULL, g[n].prev = last, g[n].child = NULL,
         g[last].next = n,
         \A m \in DOMAIN h : /\ m # last => g[m].next = h[m].next
                             /\ g[m].prev = h[m].prev /\ g[m].child = h[m].child
  PROVE  LastGrows(h, K, start, n, g, start)
<1> DEFINE R == Reached(h, start[K])
           S == Reached(g, start[K])
<1>1. IsHeap(g)
  BY FS_AddElement DEF IsHeap
<1>2. K \in 0 .. K /\ \A k \in 0 .. K - 1 : k \in 0 .. K /\ k # K
  OBVIOUS
<1>3. /\ R \subseteq DOMAIN h
      /\ \A m \in R : Links(h, m) \subseteq R \cup {NULL}
      /\ start[K] \in DOMAIN h => start[K] \in R
      /\ start[K] \in DOMAIN h \cup {NULL}
      /\ start[K] \notin DOMAIN h => R = {}
  BY <1>2, Reaches DEF Shape
<1>4. start[K] \in DOMAIN h
  BY <1>3
<1>5. \A k \in 0 .. K - 1 : Reached(h, start[k]) \cap R = {} /\ Reached(h, start[k]) \subseteq DOMAIN h
  BY <1>2, Reaches DEF Shape
<1>6. last \in DOMAIN h /\ NULL \notin DOMAIN h
  BY <1>3 DEF IsHeap
<1>7. S \subseteq R \cup {n}
  <2>1. ASSUME NEW m \in R PROVE Follows(g, m) \subseteq R \cup {n}
    <3>1. Links(h, m) \subseteq R \cup {NULL}
      BY <1>3
    <3>2. {g[m].next, g[m].child} \subseteq R \cup {NULL, n}
      BY <1>3, <3>1 DEF Links
    <3> QED BY <1>1, <3>2 DEF Follows, IsHeap
  <2>2. Follows(g, n) = {}
    BY <1>1 DEF Follows, IsHeap
  <2> HIDE DEF R
  <2>3. \A m \in (R \cup {n}) \cap DOMAIN g : Follows(g, m) \subseteq R \cup {n}
    BY <2>1, <2>2
  <2>4. start[K] \in DOMAIN g => start[K] \in R \cup {n}
    BY <1>3, <1>4
  <2> QED BY <1>1, <2>3, <2>4, Within
<1>8. R \subseteq S
  <2>1. \A m \in DOMAIN h : Follows(h, m) \subseteq Follows(g, m)
    <3> SUFFICES ASSUME NEW m \in DOMAIN h PROVE Follows(h, m) \subseteq Follows(g, m)
      OBVIOUS
    <3>1. CASE m = last
      BY <1>6, <3>1 DEF Follows
    <3>2. CASE m # last
      BY <3>2 DEF Follows
    <3> QED BY <3>1, <3>2
  <2> QED BY <1>1, <2>1, ReachesMore
<1>9. n \in S
  <2>1. last \in S /\ n \in Follows(g, last)
    BY <1>8 DEF Follows
  <2> QED BY <1>1, <2>1, Reaches
<1>10. S = R \cup {n}
  BY <1>7, <1>8, <1>9
<1>11. \A m \in S : Links(g, m) \subseteq S \cup {NULL}
  <2> SUFFICES ASSUME NEW m \in S PROVE Links(g, m) \subseteq S \cup {NULL}
    OBVIOUS
  <2>1. CASE m = n
    BY <1>8, <2>1 DEF Links
  <2>2. CASE m \in R
    <3>1. Links(h, m) \subseteq R \cup {NULL} /\ m \in DOMAIN h
      BY <1>3, <2>2
    <3> QED BY <1>10, <3>1 DEF Links
  <2> QED BY <1>10, <2>1, <2>2
<1>12. \A m \in DOMAIN g : m \in S \/ \E k \in 0 .. K - 1 : m \in Reached(h, start[k])
  <2> SUFFICES ASSUME NEW m \in DOMAIN h, m \notin R PROVE \E k \in 0 .. K - 1 : m \in Reached(h, start[k])
    BY <1>10
  <2>1. PICK k \in 0 .. K : m \in Reached(h, start[k])
    BY DEF Shape
  <2>2. k \in 0 .. K - 1
    BY <2>1
  <2> QED BY <2>1, <2>2
<1>13. \A k \in 0 .. K - 1 : Reached(h, start[k]) \cap S = {}
  BY <1>5, <1>10
<1>14. \A k \in 0 .. K - 1 : \A m \in Reached(h, start[k]) :
         m \in DOMAIN g /\ g[m].next = h[m].next /\ g[m].prev = h[m].prev /\ g[m].child = h[m].child
  BY <1>5
<1>15. start[K] \in DOMAIN g \cup {NULL}
  BY <1>4
<1> HIDE DEF R, S
<1>16. Reached(g, start[K]) = S
  BY DEF S
<1>17. Shape(g, K, start) /\ \A k \in 0 .. K - 1 : Reached(g, start[k]) = Reached(h, start[k])
  BY <1>1, <1>2, <1>11, <1>12, <1>13, <1>14, <1>15, <1>16, ShapeUpTo
<1> QED BY <1>1, <1>10, <1>16, <1>17 DEF R, LastGrows

(* The first item of the last list. *)
LEMMA ShapeFirst ==
  ASSUME NEW h, IsHeap(h), NEW K \in Nat, NEW start, NEW begin, NEW n, NEW g,
         Shape(h, K, start), start[K] = NULL,
         \A k \in 0 .. K - 1 : begin[k] = start[k], begin[K] = n,
         n \notin DOMAIN h, n # NULL, DOMAIN g = DOMAIN h \cup {n},
         g[n].next = NULL, g[n].prev = NULL, g[n].child = NULL,
         \A m \in DOMAIN h : g[m].next = h[m].next /\ g[m].prev = h[m].prev /\ g[m].child = h[m].child
  PROVE  LastGrows(h, K, start, n, g, begin)
<1>1. IsHeap(g)
  BY FS_AddElement DEF IsHeap
<1>2. K \in 0 .. K /\ \A k \in 0 .. K - 1 : k \in 0 .. K /\ k # K
  OBVIOUS
<1>3. Reached(g, n) = {n}
  <2>1. Follows(g, n) = {}
    BY <1>1 DEF Follows, IsHeap
  <2>2. \A m \in {n} \cap DOMAIN g : Follows(g, m) \subseteq {n}
    BY <2>1
  <2>3. Reached(g, n) \subseteq {n}
    BY <1>1, <2>2, Within
  <2> QED BY <1>1, <2>3, Reaches
<1>4. \A k \in 0 .. K - 1 : Reached(h, start[k]) \subseteq DOMAIN h
  BY Reaches
<1>5. Reached(h, start[K]) = {}
  BY Reaches DEF IsHeap
<1>6. \A m \in DOMAIN g : m \in {n} \/ \E k \in 0 .. K - 1 : m \in Reached(h, start[k])
  <2> SUFFICES ASSUME NEW m \in DOMAIN h PROVE \E k \in 0 .. K - 1 : m \in Reached(h, start[k])
    OBVIOUS
  <2>1. PICK k \in 0 .. K : m \in Reached(h, start[k])
    BY DEF Shape
  <2>2. k \in 0 .. K - 1
    BY <1>5, <2>1
  <2> QED BY <2>1, <2>2
<1>7. \A k \in 0 .. K - 1 : Reached(h, start[k]) \cap {n} = {}
  BY <1>4
<1>8. \A k \in 0 .. K - 1 : \A m \in Reached(h, start[k]) :
        m \in DOMAIN g /\ g[m].next = h[m].next /\ g[m].prev = h[m].prev /\ g[m].child = h[m].child
  BY <1>4
<1>9. \A m \in {n} : Links(g, m) \subseteq {n} \cup {NULL}
  BY DEF Links
<1>10. Reached(g, begin[K]) = {n} /\ begin[K] \in DOMAIN g \cup {NULL}
  BY <1>3
<1>11. Shape(g, K, begin) /\ \A k \in 0 .. K - 1 : Reached(g, begin[k]) = Reached(h, start[k])
  BY <1>1, <1>2, <1>6, <1>7, <1>8, <1>9, <1>10, ShapeUpTo
<1> QED BY <1>1, <1>5, <1>10, <1>11 DEF LastGrows

(* The last list becomes the children of an item of the list before it. *)
LEMMA ShapeJoin ==
  ASSUME NEW h, IsHeap(h), NEW K \in Nat \ {0}, NEW start, NEW o, NEW g,
         Shape(h, K, start),
         o \in Reached(h, start[K - 1]), h[o].child = NULL,
         DOMAIN g = DOMAIN h,
         g[o].child = start[K],
         \A m \in DOMAIN h : /\ g[m].next = h[m].next
                             /\ m # o => g[m].child = h[m].child
                             /\ m # start[K] => g[m].prev = h[m].prev,
         start[K] # NULL => g[start[K]].prev \in Reached(h, start[K]) \cup {NULL}
  PROVE  LastJoins(h, K, start, g)
<1> DEFINE R == Reached(h, start[K - 1])
           Q == Reached(h, start[K])
           S == Reached(g, start[K - 1])
<1>1. IsHeap(g)
  BY DEF IsHeap
<1>2. /\ K \in 0 .. K /\ K - 1 \in 0 .. K /\ K - 1 # K /\ K \in Nat
      /\ \A k \in 0 .. K - 2 : k \in 0 .. K /\ k # K /\ k # K - 1
      /\ \A k \in 0 .. K : k = K \/ k = K - 1 \/ k \in 0 .. K - 2
  OBVIOUS
<1>3. /\ R \subseteq DOMAIN h
      /\ \A m \in R : Links(h, m) \subseteq R \cup {NULL}
      /\ start[K - 1] \in DOMAIN h \cup {NULL}
      /\ start[K - 1] \in DOMAIN h => start[K - 1] \in R
      /\ start[K - 1] \notin DOMAIN h => R = {}
  BY <1>2, Reaches DEF Shape
<1>4. /\ Q \subseteq DOMAIN h
      /\ \A m \in Q : Links(h, m) \subseteq Q \cup {NULL}
      /\ start[K] \in DOMAIN h => start[K] \in Q
      /\ start[K] \in DOMAIN h \cup {NULL}
      /\ Q \cap R = {}
  BY <1>2, Reaches DEF Shape
<1>5. \A k \in 0 .. K - 2 : /\ Reached(h, start[k]) \cap R = {} /\ Reached(h, start[k]) \cap Q = {}
                            /\ Reached(h, start[k]) \subseteq DOMAIN h
  BY <1>2, Reaches DEF Shape
<1>6. NULL \notin DOMAIN h /\ o \in DOMAIN h /\ start[K - 1] \in DOMAIN h
  BY <1>3 DEF IsHeap
<1>7. \A m \in DOMAIN h : Follows(h, m) \subseteq Follows(g, m)
  <2> SUFFICES ASSUME NEW m \in DOMAIN h PROVE Follows(h, m) \subseteq Follows(g, m)
    OBVIOUS
  <2>1. CASE m = o
    BY <1>6, <2>1 DEF Follows
  <2>2. CASE m # o
    BY <2>2 DEF Follows
  <2> QED BY <2>1, <2>2
<1>8. R \subseteq S
  BY <1>1, <1>7, ReachesMore
<1>9. Q \subseteq S
  <2>1. CASE start[K] \in DOMAIN h
    <3>1. o \in S /\ start[K] \in Follows(g, o)
      BY <1>8, <2>1 DEF Follows
    <3>2. start[K] \in S
      BY <1>1, <3>1, Reaches
    <3>3. Reached(g, start[K]) \subseteq S
      BY <1>1, <3>2, Reaches
    <3>4. Q \subseteq Reached(g, start[K])
      BY <1>1, <1>7, ReachesMore
    <3> QED BY <3>3, <3>4
  <2>2. CASE start[K] \notin DOMAIN h
    BY <2>2, Reaches
  <2> QED BY <2>1, <2>2
<1>10. \A m \in R : Links(g, m) \subseteq R \cup Q \cup {NULL}
  <2> SUFFICES ASSUME NEW m \in R PROVE Links(g, m) \subseteq R \cup Q \cup {NULL}
    OBVIOUS
  <2>1. m \in DOMAIN h /\ Links(h, m) \subseteq R \cup {NULL} /\ m # start[K]
    BY <1>3, <1>4, <1>6
  <2>2. CASE m = o
    BY <1>4, <2>1, <2>2 DEF Links
  <2>3. CASE m # o
    BY <2>1, <2>3 DEF Links
  <2> QED BY <2>2, <2>3
<1>11. \A m \in Q : Links(g, m) \subseteq R \cup Q \cup {NULL}
  <2> SUFFICES ASSUME NEW m \in Q PROVE Links(g, m) \subseteq R \cup Q \cup {NULL}
    OBVIOUS
  <2>1. m \in DOMAIN h /\ Links(h, m) \subseteq Q \cup {NULL} /\ m # o
    BY <1>4
  <2>2. g[m].next \in Q \cup {NULL} /\ g[m].child \in Q \cup {NULL}
    BY <2>1 DEF Links
  <2>3. g[m].prev \in Q \cup {NULL}
    <3>1. CASE m = start[K]
      <4>1. start[K] # NULL
        BY <1>6, <2>1, <3>1
      <4> QED BY <3>1, <4>1
    <3>2. CASE m # start[K]
      BY <2>1, <3>2 DEF Links
    <3> QED BY <3>1, <3>2
  <2> QED BY <2>2, <2>3 DEF Links
<1> HIDE DEF R, Q
<1>12. S \subseteq R \cup Q
  <2>1. \A m \in (R \cup Q) \cap DOMAIN g : Follows(g, m) \subseteq R \cup Q
    BY <1>1, <1>10, <1>11 DEF Follows, Links, IsHeap
  <2>2. start[K - 1] \in DOMAIN g => start[K - 1] \in R \cup Q
    BY <1>3
  <2> DEFINE U == R \cup Q
  <2> HIDE DEF U
  <2>3. Reached(g, start[K - 1]) \subseteq U
    <3>1. \A m \in U \cap DOMAIN g : Follows(g, m) \subseteq U
      BY <2>1 DEF U
    <3>2. start[K - 1] \in DOMAIN g => start[K - 1] \in U
      BY <2>2 DEF U
    <3>3. PICK x : x = start[K - 1]
      OBVIOUS
    <3>5. IsHeap(g) /\ (x \in DOMAIN g => x \in U)
      BY <1>1, <3>2, <3>3
    <3>4. Reached(g, x) \subseteq U
      BY ONLY <3>5, <3>1, Within
    <3> QED BY <3>3, <3>4
  <2> QED BY <2>3 DEF S, U
<1> HIDE DEF S
<1>13. S = R \cup Q
  BY <1>8, <1>9, <1>12
<1>14. \A m \in S : Links(g, m) \subseteq S \cup {NULL}
  BY <1>10, <1>11, <1>13
<1>15. \A m \in DOMAIN g : m \in S \/ \E k \in 0 .. (K - 1) - 1 : m \in Reached(h, start[k])
  <2> SUFFICES ASSUME NEW m \in DOMAIN h, m \notin R, m \notin Q
               PROVE  \E k \in 0 .. K - 2 : m \in Reached(h, start[k])
    BY <1>13
  <2>1. PICK k \in 0 .. K : m \in Reached(h, start[k])
    BY DEF Shape
  <2>2. k \in 0 .. K - 2
    BY <1>2, <2>1 DEF R, Q
  <2> QED BY <2>1, <2>2
<1>16. \A k \in 0 .. (K - 1) - 1 : Reached(h, start[k]) \cap S = {}
  BY <1>5, <1>13
<1>17. \A k \in 0 .. (K - 1) - 1 : \A m \in Reached(h, start[k]) :
         m \in DOMAIN g /\ g[m].next = h[m].next /\ g[m].prev = h[m].prev /\ g[m].child = h[m].child
  <2> SUFFICES ASSUME NEW k \in 0 .. K - 2, NEW m \in Reached(h, start[k])
               PROVE m \in DOMAIN g /\ g[m].next = h[m].next /\ g[m].prev = h[m].prev /\ g[m].child = h[m].child
    OBVIOUS
  <2>1. m \in DOMAIN h /\ m \notin R /\ m \notin Q
    BY <1>5
  <2>2. m # o
    BY <2>1 DEF R
  <2>3. m # start[K]
    BY <1>4, <2>1
  <2> QED BY <2>1, <2>2, <2>3
<1>18. Reached(g, start[K - 1]) = S /\ start[K - 1] \in DOMAIN g \cup {NULL}
  BY <1>6 DEF S
<1>19. Shape(g, K - 1, start) /\ \A k \in 0 .. (K - 1) - 1 : Reached(g, start[k]) = Reached(h, start[k])
  BY <1>1, <1>2, <1>14, <1>15, <1>16, <1>17, <1>18, ShapeUpTo
<1> QED BY <1>1, <1>13, <1>18, <1>19 DEF R, Q, LastJoins
-----------------------------------------------------------------------------
(* The strings of an item. *)
StringsIn(heap, n) == {heap[n].string, heap[n].valuestring}

(* The strings there are belong to the items, each to one. *)
Owned(heap, strs) ==
  /\ NULL \notin DOMAIN strs
  /\ \A n \in DOMAIN heap : StringsIn(heap, n) \subseteq DOMAIN strs \cup {NULL}
  /\ \A s \in DOMAIN strs : \E n \in DOMAIN heap : s \in StringsIn(heap, n)
  /\ \A m, n \in DOMAIN heap : m # n => StringsIn(heap, m) \cap StringsIn(heap, n) \subseteq {NULL}

(* Strings change hands only where an item's pointers to them do.           *)
LEMMA OwnedSame ==
  ASSUME NEW h, NEW g, NEW strs, Owned(h, strs), DOMAIN g = DOMAIN h,
         \A n \in DOMAIN h : g[n].string = h[n].string /\ g[n].valuestring = h[n].valuestring
  PROVE  Owned(g, strs)
<1>1. \A n \in DOMAIN h : StringsIn(g, n) = StringsIn(h, n)
  BY DEF StringsIn
<1> QED BY <1>1 DEF Owned

(* A new item has no strings yet.                                           *)
LEMMA OwnedGrown ==
  ASSUME NEW h, NEW g, NEW strs, Owned(h, strs), NEW a, a \notin DOMAIN h, DOMAIN g = DOMAIN h \cup {a},
         g[a].string = NULL, g[a].valuestring = NULL,
         \A n \in DOMAIN h : g[n].string = h[n].string /\ g[n].valuestring = h[n].valuestring
  PROVE  Owned(g, strs)
<1>1. \A n \in DOMAIN h : StringsIn(g, n) = StringsIn(h, n)
  BY DEF StringsIn
<1>2. StringsIn(g, a) = {NULL}
  BY DEF StringsIn
<1> QED BY <1>1, <1>2 DEF Owned

(* A new string goes to an item that had none in that field.                *)
LEMMA OwnedHolding ==
  ASSUME NEW h, NEW g, NEW strs, NEW more, NEW i \in DOMAIN h, NEW a,
         Owned(h, strs), DOMAIN g = DOMAIN h,
         a \notin DOMAIN strs, a # NULL, DOMAIN more = DOMAIN strs \cup {a},
         \/ h[i].string = NULL /\ g[i].string = a /\ g[i].valuestring = h[i].valuestring
         \/ h[i].valuestring = NULL /\ g[i].valuestring = a /\ g[i].string = h[i].string,
         \A n \in DOMAIN h \ {i} : g[n] = h[n]
  PROVE  Owned(g, more)
<1>1. \A n \in DOMAIN h \ {i} : StringsIn(g, n) = StringsIn(h, n)
  BY DEF StringsIn
<1>2. StringsIn(g, i) \subseteq StringsIn(h, i) \cup {a} /\ StringsIn(h, i) \subseteq StringsIn(g, i) \cup {NULL}
  BY DEF StringsIn
<1>3. a \in StringsIn(g, i)
  BY DEF StringsIn
<1>4. NULL \notin DOMAIN more
  BY DEF Owned
<1>5. \A n \in DOMAIN g : StringsIn(g, n) \subseteq DOMAIN more \cup {NULL}
  BY <1>1, <1>2 DEF Owned
<1>6. \A s \in DOMAIN more : \E n \in DOMAIN g : s \in StringsIn(g, n)
  BY <1>1, <1>2, <1>3 DEF Owned
<1>7. \A m, n \in DOMAIN g : m # n => StringsIn(g, m) \cap StringsIn(g, n) \subseteq {NULL}
  <2> SUFFICES ASSUME NEW m \in DOMAIN h, NEW n \in DOMAIN h, m # n, m # i
               PROVE  StringsIn(g, m) \cap StringsIn(g, n) \subseteq {NULL}
    OBVIOUS
  <2>1. StringsIn(g, m) = StringsIn(h, m) /\ a \notin StringsIn(h, m)
    BY <1>1 DEF Owned
  <2>2. StringsIn(g, n) \subseteq StringsIn(h, n) \cup {a}
    BY <1>1, <1>2
  <2>3. StringsIn(h, m) \cap StringsIn(h, n) \subseteq {NULL}
    BY DEF Owned
  <2> QED BY <2>1, <2>2, <2>3
<1> QED BY <1>4, <1>5, <1>6, <1>7 DEF Owned

(* What is left without some items, or strings; the strings of some items. *)
Without(h, S) == [n \in DOMAIN h \ S |-> h[n]]
HeldBy(h, S) == {h[n].string : n \in S} \cup {h[n].valuestring : n \in S}

(* Items go with their strings: nobody else had them.                       *)
LEMMA OwnedDrop ==
  ASSUME NEW h, NEW strs, NEW S \in SUBSET DOMAIN h, Owned(h, strs)
  PROVE  Owned(Without(h, S), Without(strs, HeldBy(h, S)))
<1>g. PICK g : g = Without(h, S)
  OBVIOUS
<1>f. PICK fewer : fewer = Without(strs, HeldBy(h, S))
  OBVIOUS
<1>1. \A s : s \in DOMAIN fewer <=> s \in DOMAIN strs /\ \A n \in S : s \notin StringsIn(h, n)
  BY <1>f DEF StringsIn, HeldBy, Without
<1>2. \A n \in DOMAIN g : n \in DOMAIN h /\ n \notin S /\ StringsIn(g, n) = StringsIn(h, n)
  BY <1>g DEF StringsIn, Without
<1>3. \A n \in DOMAIN h : n \notin S => n \in DOMAIN g
  BY <1>g DEF Without
<1> HIDE DEF StringsIn
<1>4. NULL \notin DOMAIN fewer
  BY <1>1 DEF Owned
<1>5. \A n \in DOMAIN g : StringsIn(g, n) \subseteq DOMAIN fewer \cup {NULL}
  <2> SUFFICES ASSUME NEW n \in DOMAIN g, NEW s \in StringsIn(g, n), s # NULL PROVE s \in DOMAIN fewer
    OBVIOUS
  <2>1. n \in DOMAIN h /\ n \notin S /\ s \in StringsIn(h, n)
    BY <1>2
  <2>2. s \in DOMAIN strs
    BY <2>1 DEF Owned
  <2>3. \A m \in S : s \notin StringsIn(h, m)
    BY <2>1 DEF Owned
  <2> QED BY <1>1, <2>2, <2>3
<1>6. \A s \in DOMAIN fewer : \E n \in DOMAIN g : s \in StringsIn(g, n)
  <2> SUFFICES ASSUME NEW s \in DOMAIN fewer PROVE \E n \in DOMAIN g : s \in StringsIn(g, n)
    OBVIOUS
  <2>1. PICK n \in DOMAIN h : s \in StringsIn(h, n)
    BY <1>1 DEF Owned
  <2> QED BY <1>1, <1>2, <1>3, <2>1
<1>7. \A m, n \in DOMAIN g : m # n => StringsIn(g, m) \cap StringsIn(g, n) \subseteq {NULL}
  <2> SUFFICES ASSUME NEW m \in DOMAIN g, NEW n \in DOMAIN g, m # n
               PROVE  StringsIn(g, m) \cap StringsIn(g, n) \subseteq {NULL}
    OBVIOUS
  <2>1. m \in DOMAIN h /\ n \in DOMAIN h /\ StringsIn(g, m) = StringsIn(h, m) /\ StringsIn(g, n) = StringsIn(h, n)
    BY <1>2
  <2>2. StringsIn(h, m) \cap StringsIn(h, n) \subseteq {NULL}
    BY <2>1 DEF Owned
  <2> QED BY <2>1, <2>2
<1>8. Owned(g, fewer)
  BY <1>4, <1>5, <1>6, <1>7 DEF Owned
<1> QED BY <1>f, <1>g, <1>8
-----------------------------------------------------------------------------
(* What an open list is known by.                                           *)
Frame == [head : Nat, current : Nat, open : Opening]

(* Where the regions start: at the root, and at the head of each open list. *)
Starts(r, s) == [k \in 0 .. Len(s) |-> IF k = 0 THEN r ELSE s[k].head]

(* The item whose list the k-th open list will be.                          *)
(* The item an open list will belong to.                                    *)
OwnerOf(r, s, k) == IF k = 1 THEN r ELSE s[k - 1].current

(* An open list hangs from its head to the item that is filled in, which is *)
(* its last, and its owner has no children yet.                             *)
ListOpen(h, r, s, k) ==
  /\ OwnerOf(r, s, k) \in Reached(h, Starts(r, s)[k - 1])
  /\ h[OwnerOf(r, s, k)].child = NULL
  /\ s[k].head = NULL => s[k].current = NULL
  /\ s[k].head # NULL => s[k].current \in Reached(h, s[k].head) /\ h[s[k].current].next = NULL

Open(h, r, s) == r \in DOMAIN h /\ \A k \in 1 .. Len(s) : ListOpen(h, r, s, k)

(* The heap with the root and the open lists it belongs to. *)
Hung(h, r, s) == IsHeap(h) /\ Shape(h, Len(s), Starts(r, s))

(* The item that is filled in: the last of the innermost open list.         *)
LastItem(r, s) == IF s = <<>> THEN r ELSE s[Len(s)].current

(* The root, and the heads of the open lists.                               *)
LEMMA StartsAre ==
  ASSUME NEW r, NEW s \in Seq(Frame)
  PROVE  /\ Len(s) \in Nat
         /\ Starts(r, s)[0] = r
         /\ \A k \in 1 .. Len(s) : Starts(r, s)[k] = s[k].head /\ s[k] \in Frame
<1>1. Len(s) \in Nat
  OBVIOUS
<1>2. Starts(r, s)[0] = r
  BY <1>1 DEF Starts
<1>3. ASSUME NEW k \in 1 .. Len(s) PROVE Starts(r, s)[k] = s[k].head /\ s[k] \in Frame
  <2>1. k \in 0 .. Len(s) /\ k # 0
    BY <1>1
  <2> QED BY <2>1 DEF Starts
<1> QED BY <1>1, <1>2, <1>3

(* The lists are as they were when no link changed. *)
LEMMA HungSame ==
  ASSUME NEW h, NEW r, NEW s \in Seq(Frame), Hung(h, r, s), NEW g, DOMAIN g = DOMAIN h,
         \A n \in DOMAIN h : g[n].next = h[n].next /\ g[n].prev = h[n].prev /\ g[n].child = h[n].child
  PROVE  Hung(g, r, s) /\ (Open(h, r, s) => Open(g, r, s))
<1> DEFINE K == Len(s)
           start == Starts(r, s)
<1>0. K \in Nat /\ IsHeap(h) /\ Shape(h, K, start)
  BY DEF Hung
<1>s. \A k \in 1 .. K : start[k] = s[k].head
  BY StartsAre
<1> HIDE DEF K, start
<1>1. IsHeap(g) /\ Shape(g, K, start) /\ \A k \in 0 .. K : Reached(g, start[k]) = Reached(h, start[k])
  BY <1>0, ShapeSame
<1>2. ASSUME Open(h, r, s), NEW k \in 1 .. K PROVE ListOpen(g, r, s, k)
  <2>1. k \in 0 .. K /\ k - 1 \in 0 .. K
    BY <1>0
  <2>2. Reached(g, start[k]) = Reached(h, start[k]) /\ Reached(g, start[k - 1]) = Reached(h, start[k - 1])
    BY <1>1, <2>1
  <2>3. Reached(h, start[k]) \subseteq DOMAIN h /\ Reached(h, start[k - 1]) \subseteq DOMAIN h
    BY <1>0, Reaches
  <2>4. ListOpen(h, r, s, k)
    BY <1>2 DEF Open, K
  <2>5. start[k] = s[k].head
    BY <1>s
  <2> QED BY <2>2, <2>3, <2>4, <2>5 DEF ListOpen, start
<1> QED BY <1>1, <1>2 DEF Hung, Open, K, start

(* A list is opened in the item that is filled in. *)
LEMMA HungOpened ==
  ASSUME NEW h, NEW r, NEW s \in Seq(Frame), Hung(h, r, s), Open(h, r, s),
         LastItem(r, s) \in DOMAIN h, h[LastItem(r, s)].child = NULL,
         NEW f \in Frame, f.head = NULL, f.current = NULL
  PROVE  Hung(h, r, Append(s, f)) /\ Open(h, r, Append(s, f))
<1> DEFINE K == Len(s)
           t == Append(s, f)
           start == Starts(r, s)
           begin == Starts(r, t)
<1>0. K \in Nat /\ IsHeap(h) /\ Shape(h, K, start)
  BY DEF Hung
<1>1. t \in Seq(Frame) /\ Len(t) = K + 1 /\ t[K + 1] = f /\ \A k \in 1 .. K : t[k] = s[k]
  OBVIOUS
<1>2. start[0] = r /\ \A k \in 1 .. K : start[k] = s[k].head
  BY StartsAre
<1> HIDE DEF t
<1>3. begin[0] = r /\ \A k \in 1 .. K + 1 : begin[k] = t[k].head
  BY <1>1, StartsAre
<1> HIDE DEF start, begin
<1>4. s # <<>> => K # 0
  BY DEF K
<1>5. s = <<>> => K = 0
  BY DEF K
<1>6. \A k \in 0 .. K : begin[k] = start[k]
  BY <1>0, <1>1, <1>2, <1>3
<1>7. begin[K + 1] = NULL
  BY <1>0, <1>1, <1>3
<1> HIDE DEF K
<1>8. Shape(h, K + 1, begin)
  BY <1>0, <1>6, <1>7, ShapeOpen
<1>9. ASSUME NEW k \in 1 .. K + 1 PROVE ListOpen(h, r, t, k)
  <2>1. CASE k # K + 1
    <3>1. k \in 1 .. K /\ k - 1 \in 0 .. K /\ (k # 1 => k - 1 \in 1 .. K)
      BY <1>0, <2>1
    <3>2. ListOpen(h, r, s, k)
      BY <3>1 DEF Open, K
    <3>3. begin[k - 1] = start[k - 1] /\ t[k] = s[k] /\ (k # 1 => t[k - 1] = s[k - 1])
      BY <1>1, <1>6, <3>1
    <3>4. OwnerOf(r, t, k) = OwnerOf(r, s, k)
      BY <3>3 DEF OwnerOf
    <3> QED BY <3>2, <3>3, <3>4 DEF ListOpen, begin, start
  <2>2. CASE k = K + 1
    <3>1. OwnerOf(r, t, k) = LastItem(r, s)
      <4>1. CASE K = 0
        BY <1>4, <2>2, <4>1 DEF OwnerOf, LastItem
      <4>2. CASE K # 0
        <5>1. k # 1 /\ k - 1 = K /\ K \in 1 .. K
          BY <1>0, <2>2, <4>2
        <5> QED BY <1>1, <1>5, <4>2, <5>1 DEF OwnerOf, LastItem, K
      <4> QED BY <4>1, <4>2
    <3>2. LastItem(r, s) \in Reached(h, begin[K])
      <4>1. CASE K = 0
        <5>1. LastItem(r, s) = r /\ begin[K] = r
          BY <1>3, <1>4, <4>1 DEF LastItem
        <5> QED BY <1>0, <5>1, Reaches
      <4>2. CASE K # 0
        <5>1. K \in 1 .. K /\ K \in 0 .. K
          BY <1>0, <4>2
        <5>2. ListOpen(h, r, s, K)
          BY <5>1 DEF Open, K
        <5>3. LastItem(r, s) = s[K].current /\ begin[K] = s[K].head
          BY <1>2, <1>5, <1>6, <4>2, <5>1 DEF LastItem, K
        <5>4. s[K].current # NULL
          BY <1>0, <5>3 DEF IsHeap
        <5> QED BY <5>2, <5>3, <5>4 DEF ListOpen
      <4> QED BY <4>1, <4>2
    <3>3. k - 1 = K
      BY <1>0, <2>2
    <3>4. t[k] = f
      BY <1>1, <2>2
    <3> QED BY <3>1, <3>2, <3>3, <3>4 DEF ListOpen, begin
  <2> QED BY <2>1, <2>2
<1>10. Open(h, r, t)
  BY <1>1, <1>9 DEF Open
<1>11. Hung(h, r, t)
  BY <1>0, <1>1, <1>8 DEF Hung, begin
<1> QED BY <1>10, <1>11 DEF t

(* A new item (cJSON.c:242-251): nothing hangs from it.                     *)
LEMMA ZeroedIs ==
  ASSUME NEW p \in Nat, NEW z, z = [Zeroed EXCEPT !.prev = p]
  PROVE  /\ z \in Fields /\ z.next = NULL /\ z.prev = p /\ z.child = NULL
         /\ z.string = NULL /\ z.valuestring = NULL
<1>1. NULL \in Nat
  BY DEF NULL
<1>2. Zeroed \in Fields
  BY <1>1 DEF Zeroed, Fields, Kinds
<1>3. z \in Fields
  BY <1>1 DEF Zeroed, Fields, Kinds
<1> QED BY <1>3 DEF Zeroed

(* The heap with a new item, and the item before it told of it. *)
IsAttached(h, n, last, g) ==
  /\ DOMAIN g = DOMAIN h \cup {n} /\ g \in [DOMAIN h \cup {n} -> Fields]
  /\ g[n].next = NULL /\ g[n].prev = last /\ g[n].child = NULL
  /\ g[n].string = NULL /\ g[n].valuestring = NULL
  /\ last # NULL => g[last].next = n
  /\ \A m \in DOMAIN h :
       /\ m # last => g[m].next = h[m].next
       /\ g[m].prev = h[m].prev /\ g[m].child = h[m].child /\ g[m].type = h[m].type
       /\ g[m].string = h[m].string /\ g[m].valuestring = h[m].valuestring

(* What NextItem does to the heap.                                          *)
LEMMA AttachedIs ==
  ASSUME NEW h, NEW n \in Nat, NEW last \in Nat, NEW with, NEW g,
         h \in [DOMAIN h -> Fields], n \notin DOMAIN h, last # NULL => last \in DOMAIN h,
         with = Grown(h, n, [Zeroed EXCEPT !.prev = last]),
         g = IF last = NULL THEN with ELSE [with EXCEPT ![last].next = n]
  PROVE  IsAttached(h, n, last, g)
<1>1. PICK z : z = [Zeroed EXCEPT !.prev = last]
  OBVIOUS
<1>2. /\ z \in Fields /\ z.next = NULL /\ z.prev = last /\ z.child = NULL
      /\ z.string = NULL /\ z.valuestring = NULL
  BY <1>1, ZeroedIs
<1>3. /\ with = [x \in DOMAIN h \cup {n} |-> IF x = n THEN z ELSE h[x]]
  BY <1>1 DEF Grown
<1>4. with \in [DOMAIN h \cup {n} -> Fields] /\ with[n] = z /\ \A m \in DOMAIN h : with[m] = h[m]
  BY <1>2, <1>3
<1>5. CASE last = NULL
  <2>1. g = with
    BY <1>5
  <2> QED BY <1>2, <1>4, <1>5, <2>1 DEF IsAttached
<1>6. CASE last # NULL
  <2>1. g = [with EXCEPT ![last].next = n] /\ last \in DOMAIN h /\ last # n
    BY <1>6
  <2>2. PICK y : y = [h[last] EXCEPT !.next = n]
    OBVIOUS
  <2>3. y \in Fields /\ y.next = n /\ y.prev = h[last].prev /\ y.child = h[last].child
        /\ y.type = h[last].type /\ y.string = h[last].string /\ y.valuestring = h[last].valuestring
    BY <2>1, <2>2 DEF Fields
  <2>4. g = [with EXCEPT ![last] = y]
    BY <1>4, <2>1, <2>2
  <2>5. g \in [DOMAIN h \cup {n} -> Fields] /\ g[n] = z /\ g[last] = y /\ \A m \in DOMAIN h : m # last => g[m] = h[m]
    BY <1>4, <2>1, <2>3, <2>4
  <2>6. DOMAIN g = DOMAIN h \cup {n}
    BY <2>5
  <2>7. ASSUME NEW m \in DOMAIN h
        PROVE  /\ m # last => g[m].next = h[m].next
               /\ g[m].prev = h[m].prev /\ g[m].child = h[m].child /\ g[m].type = h[m].type
               /\ g[m].string = h[m].string /\ g[m].valuestring = h[m].valuestring
    BY <2>3, <2>5
  <2>8. /\ g[n].next = NULL /\ g[n].prev = last /\ g[n].child = NULL
        /\ g[n].string = NULL /\ g[n].valuestring = NULL /\ g[last].next = n
    BY <1>2, <2>3, <2>5
  <2> QED BY <2>5, <2>6, <2>7, <2>8 DEF IsAttached
<1> QED BY <1>5, <1>6

(* The open lists with the new item in the innermost. *)
IsPushed(s, n, t) ==
  /\ t \in Seq(Frame) /\ Len(t) = Len(s) /\ \A k \in 1 .. Len(s) : k # Len(s) => t[k] = s[k]
  /\ t[Len(s)].current = n
  /\ t[Len(s)].head = IF s[Len(s)].head = NULL THEN n ELSE s[Len(s)].head
  /\ t[Len(s)].open = s[Len(s)].open

(* What NextItem does to the innermost open list.                           *)
LEMMA PushedIs ==
  ASSUME NEW s \in Seq(Frame), NEW n \in Nat, NEW t, s # <<>>,
         t = [s EXCEPT ![Len(s)] =
               [@ EXCEPT !.current = n, !.head = IF s[Len(s)].head = NULL THEN n ELSE s[Len(s)].head]]
  PROVE  IsPushed(s, n, t)
<1>1. PICK K \in Nat \ {0} : K = Len(s) /\ K \in 1 .. K
  OBVIOUS
<1>2. s[K] \in Frame
  BY <1>1
<1>3. PICK f : f = [s[K] EXCEPT !.current = n, !.head = IF s[K].head = NULL THEN n ELSE s[K].head]
  OBVIOUS
<1>4. /\ f \in Frame /\ f.current = n /\ f.head = IF s[K].head = NULL THEN n ELSE s[K].head
      /\ f.open = s[K].open
  BY <1>2, <1>3 DEF Frame
<1>5. t = [s EXCEPT ![K] = f]
  BY <1>1, <1>3
<1>6. t \in Seq(Frame) /\ Len(t) = K /\ t[K] = f /\ \A k \in 1 .. K : k # K => t[k] = s[k]
  <2>1. K \in 1 .. Len(s)
    BY <1>1
  <2>2. /\ [s EXCEPT ![K] = f] \in Seq(Frame) /\ Len([s EXCEPT ![K] = f]) = Len(s)
        /\ \A j \in 1 .. Len(s) : [s EXCEPT ![K] = f][j] = IF j = K THEN f ELSE s[j]
    BY <1>4, <2>1, ExceptSeq
  <2> QED BY <1>1, <1>5, <2>1, <2>2
<1> QED BY <1>1, <1>4, <1>6 DEF IsPushed

(* The new item is the last of the innermost list. *)
LEMMA HungAttached ==
  ASSUME NEW h, NEW r, NEW s \in Seq(Frame), NEW n \in Nat, NEW last, NEW g, NEW t,
         s # <<>>, n # NULL, n \notin DOMAIN h, last = s[Len(s)].current,
         Hung(h, r, s), Open(h, r, s),
         IsAttached(h, n, last, g), IsPushed(s, n, t)
  PROVE  Hung(g, r, t) /\ Open(g, r, t)
<1>i. /\ DOMAIN g = DOMAIN h \cup {n}
      /\ g[n].next = NULL /\ g[n].prev = last /\ g[n].child = NULL
      /\ last # NULL => g[last].next = n
      /\ \A m \in DOMAIN h : /\ m # last => g[m].next = h[m].next
                             /\ g[m].prev = h[m].prev /\ g[m].child = h[m].child
  BY DEF IsAttached
<1>j. /\ t \in Seq(Frame) /\ Len(t) = Len(s) /\ \A k \in 1 .. Len(s) : k # Len(s) => t[k] = s[k]
      /\ t[Len(s)].current = n
      /\ t[Len(s)].head = IF s[Len(s)].head = NULL THEN n ELSE s[Len(s)].head
  BY DEF IsPushed
<1>k. PICK K \in Nat \ {0} : K = Len(s) /\ K \in 1 .. K /\ K \in Nat /\ K \in 0 .. K
  OBVIOUS
<1> DEFINE start == Starts(r, s)
           begin == Starts(r, t)
<1>0. K \in Nat \ {0} /\ IsHeap(h) /\ Shape(h, K, start) /\ K \in 1 .. K /\ K \in Nat /\ K \in 0 .. K
  BY <1>k DEF Hung
<1>1. ListOpen(h, r, s, K) /\ r \in DOMAIN h
  BY <1>k DEF Open
<1>2. last = s[K].current
  BY <1>k
<1>4. PICK f \in Frame : f = t[K]
  BY <1>j, <1>k
<1>5. f.current = n /\ f.head = IF s[K].head = NULL THEN n ELSE s[K].head
  BY <1>j, <1>k, <1>4
<1>6. t[K] = f /\ Len(t) = K /\ \A k \in 1 .. K : k # K => t[k] = s[k]
  BY <1>j, <1>k, <1>4
<1>7. start[0] = r /\ \A k \in 1 .. K : start[k] = s[k].head
  BY <1>k, StartsAre
<1>8. begin[0] = r /\ \A k \in 1 .. K : begin[k] = t[k].head
  BY <1>6, <1>j, StartsAre
<1> HIDE DEF start, begin
<1>9. /\ s[K].head = NULL => last = NULL
      /\ s[K].head # NULL => last \in Reached(h, start[K]) /\ h[last].next = NULL
  BY <1>0, <1>1, <1>2, <1>7 DEF ListOpen
<1>10. Reached(h, start[K]) \subseteq DOMAIN h /\ NULL \notin DOMAIN h
  BY <1>0, Reaches DEF IsHeap
<1>11. last # NULL => last \in DOMAIN h
  BY <1>9, <1>10
<1>12. s[K].head # NULL => last # NULL
  BY <1>9, <1>10
<1>13. /\ n \notin DOMAIN h /\ n # NULL /\ DOMAIN g = DOMAIN h \cup {n}
       /\ g[n].next = NULL /\ g[n].prev = last /\ g[n].child = NULL
       /\ \A m \in DOMAIN h : /\ m # last => g[m].next = h[m].next
                              /\ g[m].prev = h[m].prev /\ g[m].child = h[m].child
  BY <1>i
<1>14. \A k \in 0 .. K - 1 : begin[k] = start[k]
  BY <1>0, <1>6, <1>7, <1>8
<1>15. begin[K] = f.head
  BY <1>0, <1>6, <1>8
<1>16. /\ IsHeap(g) /\ Shape(g, K, begin)
       /\ Reached(g, begin[K]) = Reached(h, start[K]) \cup {n}
       /\ \A k \in 0 .. K - 1 : Reached(g, begin[k]) = Reached(h, start[k])
  <2>1. CASE s[K].head = NULL
    <3>1. start[K] = NULL /\ begin[K] = n /\ last = NULL
      BY <1>0, <1>5, <1>7, <1>9, <1>15, <2>1
    <3>2. \A m \in DOMAIN h : g[m].next = h[m].next /\ g[m].prev = h[m].prev /\ g[m].child = h[m].child
      BY <1>10, <1>13, <3>1
    <3>3. K \in Nat /\ IsHeap(h) /\ Shape(h, K, start)
      BY <1>0
    <3>4. LastGrows(h, K, start, n, g, begin)
      BY <1>13, <1>14, <3>1, <3>2, <3>3, ShapeFirst
    <3> QED BY <3>4 DEF LastGrows
  <2>2. CASE s[K].head # NULL
    <3>1. begin[K] = start[K] /\ last # NULL
      BY <1>0, <1>5, <1>7, <1>12, <1>15, <2>2
    <3>2. LastGrows(h, K, start, n, g, start)
      <4>1. K \in Nat /\ IsHeap(h) /\ Shape(h, K, start)
        BY <1>0
      <4>2. last \in Reached(h, start[K]) /\ h[last].next = NULL /\ g[last].next = n
        BY <1>9, <1>i, <2>2, <3>1
      <4> QED BY <1>13, <4>1, <4>2, ShapeAttach
    <3>3. \A k \in 0 .. K : begin[k] = start[k]
      BY <1>0, <1>14, <3>1
    <3>4. Shape(g, K, begin)
      BY <3>2, <3>3 DEF Shape, LastGrows
    <3> QED BY <1>0, <3>2, <3>3, <3>4 DEF LastGrows
  <2> QED BY <2>1, <2>2
<1>17. ASSUME NEW k \in 1 .. K PROVE ListOpen(g, r, t, k)
  <2>1. k - 1 \in 0 .. K - 1 /\ k - 1 \in 0 .. K /\ k \in 0 .. K /\ k - 1 # K /\ (k # 1 => k - 1 \in 1 .. K)
    BY <1>0
  <2>2. ListOpen(h, r, s, k)
    BY <1>k DEF Open
  <2>3. OwnerOf(r, t, k) = OwnerOf(r, s, k)
    BY <1>6, <2>1 DEF OwnerOf
  <2>4. Reached(g, begin[k - 1]) = Reached(h, start[k - 1]) /\ Reached(h, start[k - 1]) \subseteq DOMAIN h
    BY <1>0, <1>16, <2>1, Reaches
  <2>5. OwnerOf(r, t, k) \in Reached(g, begin[k - 1]) /\ g[OwnerOf(r, t, k)].child = NULL
    BY <1>13, <2>2, <2>3, <2>4 DEF ListOpen, start
  <2>6. CASE k = K
    <3>1. t[k].head = begin[K] /\ t[k].current = n /\ t[k].head # NULL
      BY <1>5, <1>6, <1>15, <2>6
    <3>2. n \in Reached(g, begin[K])
      BY <1>16
    <3> QED BY <1>13, <2>5, <3>1, <3>2 DEF ListOpen, begin
  <2>7. CASE k # K
    <3>1. t[k] = s[k] /\ k \in 0 .. K - 1 /\ start[k] = s[k].head
      BY <1>6, <1>7, <1>0, <2>7
    <3>2. Reached(g, s[k].head) = Reached(h, s[k].head)
      BY <1>14, <1>16, <3>1
    <3>3. ASSUME s[k].head # NULL PROVE g[s[k].current].next = NULL
      <4>1. s[k].current \in Reached(h, start[k]) /\ h[s[k].current].next = NULL
        BY <2>2, <3>1, <3>3 DEF ListOpen
      <4>2. Reached(h, start[k]) \cap Reached(h, start[K]) = {}
        BY <1>0, <2>1, <2>7 DEF Shape
      <4>3. Reached(h, start[k]) \subseteq DOMAIN h
        BY <1>0, Reaches
      <4>4. s[k].current # last
        BY <1>9, <1>10, <4>1, <4>2, <4>3
      <4> QED BY <1>13, <4>1, <4>3, <4>4
    <3> QED BY <2>2, <2>5, <3>1, <3>2, <3>3 DEF ListOpen, begin
  <2> QED BY <2>6, <2>7
<1>18. Open(g, r, t)
  BY <1>1, <1>6, <1>13, <1>17 DEF Open
<1>19. Hung(g, r, t)
  BY <1>6, <1>16 DEF Hung, begin
<1> QED BY <1>18, <1>19

(* The heap with the innermost list in its owner. *)
IsHanded(h, o, f, g) ==
  /\ DOMAIN g = DOMAIN h /\ g \in [DOMAIN h -> Fields]
  /\ g[o].child = f.head /\ g[o].type = f.open
  /\ f.head # NULL => g[f.head].prev = f.current
  /\ \A m \in DOMAIN h :
       /\ g[m].next = h[m].next
       /\ m # o => g[m].child = h[m].child /\ g[m].type = h[m].type
       /\ m # f.head => g[m].prev = h[m].prev
       /\ g[m].string = h[m].string /\ g[m].valuestring = h[m].valuestring

(* What CloseList does to the heap.                                         *)
LEMMA ClosedIs ==
  ASSUME NEW h, NEW o \in DOMAIN h, NEW f \in Frame, NEW owned, NEW g,
         h \in [DOMAIN h -> Fields], f.head # NULL => f.head \in DOMAIN h,
         owned = [h EXCEPT ![o].type = f.open, ![o].child = f.head],
         g = IF f.head = NULL THEN owned ELSE [owned EXCEPT ![f.head].prev = f.current]
  PROVE  IsHanded(h, o, f, g)
<1>1. PICK y : y = [h[o] EXCEPT !.type = f.open, !.child = f.head]
  OBVIOUS
<1>2. h[o] \in Fields /\ f.head \in Nat /\ f.current \in Nat /\ f.open \in Kinds
  BY DEF Frame, Kinds
<1>3. /\ y \in Fields /\ y.next = h[o].next /\ y.prev = h[o].prev /\ y.child = f.head /\ y.type = f.open
      /\ y.string = h[o].string /\ y.valuestring = h[o].valuestring
  BY <1>1, <1>2 DEF Fields
<1>4. owned = [h EXCEPT ![o] = y]
  BY <1>1
<1>5. owned \in [DOMAIN h -> Fields] /\ owned[o] = y /\ \A m \in DOMAIN h : m # o => owned[m] = h[m]
  BY <1>3, <1>4
<1>6. CASE f.head = NULL
  <2>1. g = owned
    BY <1>6
  <2> QED BY <1>3, <1>5, <1>6, <2>1 DEF IsHanded
<1>7. CASE f.head # NULL
  <2>1. f.head \in DOMAIN h /\ g = [owned EXCEPT ![f.head].prev = f.current]
    BY <1>7
  <2>2. PICK p : p = owned[f.head]
    OBVIOUS
  <2>3. p \in Fields
    BY <1>5, <2>1, <2>2
  <2>4. PICK q : q = [p EXCEPT !.prev = f.current]
    OBVIOUS
  <2>5. /\ q \in Fields /\ q.next = p.next /\ q.prev = f.current /\ q.child = p.child /\ q.type = p.type
        /\ q.string = p.string /\ q.valuestring = p.valuestring
    BY <1>2, <2>3, <2>4 DEF Fields
  <2>6. g = [owned EXCEPT ![f.head] = q]
    BY <2>1, <2>2, <2>4
  <2>7. g \in [DOMAIN h -> Fields] /\ g[f.head] = q /\ \A m \in DOMAIN h : m # f.head => g[m] = owned[m]
    BY <1>5, <2>1, <2>5, <2>6
  <2>8. CASE o = f.head
    BY <1>3, <1>5, <2>2, <2>5, <2>7, <2>8 DEF IsHanded
  <2>9. CASE o # f.head
    BY <1>3, <1>5, <2>1, <2>2, <2>5, <2>7, <2>9 DEF IsHanded
  <2> QED BY <2>8, <2>9
<1> QED BY <1>6, <1>7

(* The open lists without the innermost.                                    *)
IsShorter(s, t) ==
  t \in Seq(Frame) /\ Len(t) = Len(s) - 1 /\ \A k \in 1 .. Len(s) - 1 : t[k] = s[k]

(* What CloseList does to the open lists.                                   *)
LEMMA FrontIs ==
  ASSUME NEW s \in Seq(Frame), s # <<>>
  PROVE  IsShorter(s, Front(s))
<1>1. PICK K \in Nat \ {0} : K = Len(s)
  OBVIOUS
<1>2. 1 \in 1 .. Len(s) + 1 /\ Len(s) - 1 \in 1 - 1 .. Len(s)
  BY <1>1
<1>3. /\ SubSeq(s, 1, Len(s) - 1) \in Seq(Frame)
      /\ Len(SubSeq(s, 1, Len(s) - 1)) = Len(s) - 1
      /\ \A k \in 1 .. Len(s) - 1 : SubSeq(s, 1, Len(s) - 1)[k] = s[k]
  BY <1>1, <1>2, SubSeqProperties
<1> QED BY <1>3 DEF Front, IsShorter

(* The innermost list is the list of its owner. *)
LEMMA HungClosed ==
  ASSUME NEW h, NEW r, NEW s \in Seq(Frame), NEW o, NEW g, NEW t,
         s # <<>>, Hung(h, r, s), Open(h, r, s),
         o = OwnerOf(r, s, Len(s)), IsHanded(h, o, s[Len(s)], g), IsShorter(s, t)
  PROVE  Hung(g, r, t) /\ Open(g, r, t)
<1>i. /\ DOMAIN g = DOMAIN h
      /\ g[o].child = s[Len(s)].head
      /\ s[Len(s)].head # NULL => g[s[Len(s)].head].prev = s[Len(s)].current
      /\ \A m \in DOMAIN h : /\ g[m].next = h[m].next
                             /\ m # o => g[m].child = h[m].child
                             /\ m # s[Len(s)].head => g[m].prev = h[m].prev
  BY DEF IsHanded
<1>j. t \in Seq(Frame) /\ Len(t) = Len(s) - 1 /\ \A k \in 1 .. Len(s) - 1 : t[k] = s[k]
  BY DEF IsShorter
<1>k. PICK K \in Nat \ {0} : K = Len(s) /\ K \in 1 .. K /\ K \in Nat /\ K \in 0 .. K /\ K - 1 \in 0 .. K - 1 /\ K - 1 \in Nat
  OBVIOUS
<1> DEFINE start == Starts(r, s)
           begin == Starts(r, t)
<1>0. IsHeap(h) /\ Shape(h, K, start)
  BY <1>k DEF Hung
<1>1. ListOpen(h, r, s, K) /\ r \in DOMAIN h
  BY <1>k DEF Open
<1>6. Len(t) = K - 1 /\ \A k \in 1 .. K - 1 : t[k] = s[k]
  BY <1>j, <1>k
<1>7. start[0] = r /\ \A k \in 1 .. K : start[k] = s[k].head
  BY <1>k, StartsAre
<1>8. begin[0] = r /\ \A k \in 1 .. K - 1 : begin[k] = t[k].head
  BY <1>6, <1>j, StartsAre
<1>9. o \in Reached(h, start[K - 1]) /\ h[o].child = NULL
  BY <1>1, <1>k DEF ListOpen
<1> HIDE DEF start, begin
<1>10. \A k \in 0 .. K - 1 : begin[k] = start[k]
  BY <1>k, <1>6, <1>7, <1>8
<1>11. start[K] = s[K].head
  BY <1>k, <1>7
<1>12. start[K] # NULL => g[start[K]].prev \in Reached(h, start[K]) \cup {NULL}
  BY <1>1, <1>i, <1>k, <1>11 DEF ListOpen
<1>13. LastJoins(h, K, start, g)
  <2>1. g[o].child = start[K] /\ DOMAIN g = DOMAIN h
    BY <1>11, <1>i, <1>k
  <2>2. \A m \in DOMAIN h : /\ g[m].next = h[m].next
                            /\ m # o => g[m].child = h[m].child
                            /\ m # start[K] => g[m].prev = h[m].prev
    BY <1>11, <1>i, <1>k
  <2> QED BY ONLY <1>0, <1>9, <1>12, <2>1, <2>2, K \in Nat \ {0}, ShapeJoin
<1>14. IsHeap(g) /\ Shape(g, K - 1, begin)
  <2>1. K - 1 \in 0 .. K - 1
    BY <1>k
  <2> QED BY <1>10, <1>13 DEF LastJoins, Shape
<1>15. \A k \in 0 .. K - 1 : Reached(h, start[k]) \subseteq Reached(g, begin[k])
  <2> SUFFICES ASSUME NEW k \in 0 .. K - 1 PROVE Reached(h, start[k]) \subseteq Reached(g, begin[k])
    OBVIOUS
  <2>1. k = K - 1 \/ k \in 0 .. K - 2
    BY <1>k
  <2> QED BY <1>10, <1>13, <2>1 DEF LastJoins
<1>16. ASSUME NEW k \in 1 .. K - 1 PROVE ListOpen(g, r, t, k)
  <2>1. /\ k - 1 \in 0 .. K - 2 /\ k - 1 \in 0 .. K - 1 /\ k - 1 \in 0 .. K /\ k \in 0 .. K /\ k \in 0 .. K - 1
        /\ k - 1 # K - 1 /\ K - 1 \in 0 .. K /\ (k # 1 => k - 1 \in 1 .. K - 1) /\ k \in 1 .. K /\ k # K
    BY <1>k
  <2>2. ListOpen(h, r, s, k)
    BY <1>k, <2>1 DEF Open
  <2>3. OwnerOf(r, t, k) = OwnerOf(r, s, k) /\ t[k] = s[k]
    BY <1>6, <2>1 DEF OwnerOf
  <2>4. Reached(h, start[k - 1]) \subseteq Reached(g, begin[k - 1]) /\ Reached(h, start[k]) \subseteq Reached(g, begin[k])
    BY <1>15, <2>1
  <2>5. OwnerOf(r, s, k) \in Reached(h, start[k - 1]) /\ h[OwnerOf(r, s, k)].child = NULL
    BY <2>2 DEF ListOpen, start
  <2>6. Reached(h, start[k - 1]) \cap Reached(h, start[K - 1]) = {}
    BY <1>0, <2>1 DEF Shape
  <2>7. Reached(h, start[k - 1]) \subseteq DOMAIN h /\ Reached(h, start[k]) \subseteq DOMAIN h
    BY <1>0, Reaches
  <2>8. g[OwnerOf(r, s, k)].child = NULL
    BY <1>9, <1>i, <2>5, <2>6, <2>7
  <2>9. start[k] = s[k].head /\ begin[k] = t[k].head
    BY <1>7, <1>8, <2>1
  <2>10. s[k].head # NULL => s[k].current \in Reached(g, t[k].head) /\ g[s[k].current].next = NULL
    BY <1>i, <2>2, <2>4, <2>7, <2>9 DEF ListOpen
  <2> QED BY <2>2, <2>3, <2>4, <2>5, <2>8, <2>10 DEF ListOpen, begin
<1>17. Open(g, r, t)
  BY <1>1, <1>6, <1>i, <1>16 DEF Open
<1>18. Hung(g, r, t)
  BY <1>6, <1>14 DEF Hung, begin
<1> QED BY <1>17, <1>18

(* The innermost list is taken down. *)
LEMMA HungDropped ==
  ASSUME NEW h, NEW r, NEW s \in Seq(Frame), NEW t,
         s # <<>>, Hung(h, r, s), IsShorter(s, t)
  PROVE  Hung(Without(h, Reached(h, s[Len(s)].head)), r, t)
<1>g. PICK g : g = Without(h, Reached(h, s[Len(s)].head))
  OBVIOUS
<1>j. t \in Seq(Frame) /\ Len(t) = Len(s) - 1 /\ \A k \in 1 .. Len(s) - 1 : t[k] = s[k]
  BY DEF IsShorter
<1>k. PICK K \in Nat \ {0} : K = Len(s) /\ K \in 1 .. K
  OBVIOUS
<1> DEFINE start == Starts(r, s)
           begin == Starts(r, t)
<1>0. IsHeap(h) /\ Shape(h, K, start)
  BY <1>k DEF Hung
<1>6. Len(t) = K - 1 /\ \A k \in 1 .. K - 1 : t[k] = s[k]
  BY <1>j, <1>k
<1>7. start[0] = r /\ \A k \in 1 .. K : start[k] = s[k].head
  BY <1>k, StartsAre
<1>8. begin[0] = r /\ \A k \in 1 .. K - 1 : begin[k] = t[k].head
  BY <1>6, <1>j, StartsAre
<1> HIDE DEF start, begin
<1>10. \A k \in 0 .. K - 1 : begin[k] = start[k]
  BY <1>k, <1>6, <1>7, <1>8
<1>11. g = [n \in DOMAIN h \ Reached(h, start[K]) |-> h[n]]
  BY <1>7, <1>g, <1>k DEF Without
<1>12. IsHeap(g) /\ Shape(g, K - 1, start)
  BY ONLY <1>0, <1>11, K \in Nat \ {0}, ShapeDrop
<1>13. Shape(g, K - 1, begin)
  BY <1>10, <1>12 DEF Shape
<1>14. Hung(g, r, t)
  BY <1>6, <1>12, <1>13 DEF Hung, begin
<1> QED BY <1>g, <1>14

(* The root is taken down, and there is nothing left. *)
LEMMA HungGone ==
  ASSUME NEW h, NEW r, NEW g, Hung(h, r, <<>>), g = Without(h, Reached(h, r))
  PROVE  DOMAIN g = {} /\ Hung(g, NULL, <<>>)
<1>1. <<>> \in Seq(Frame) /\ Len(<<>>) = 0
  OBVIOUS
<1>2. Starts(r, <<>>)[0] = r /\ Starts(NULL, <<>>)[0] = NULL
  BY <1>1, StartsAre
<1>3. IsHeap(h) /\ Shape(h, 0, Starts(r, <<>>))
  BY <1>1 DEF Hung
<1>4. g = [n \in DOMAIN h \ Reached(h, Starts(r, <<>>)[0]) |-> h[n]]
  BY <1>2 DEF Without
<1>5. DOMAIN g = {}
  BY ONLY <1>3, <1>4, ShapeDropAll
<1>6. IsHeap(g) /\ Shape(g, 0, Starts(NULL, <<>>))
  BY ONLY <1>2, <1>5, ShapeOfNone
<1> QED BY <1>1, <1>5, <1>6 DEF Hung
-----------------------------------------------------------------------------
(* Where the parser has a root to fill in, and has not failed.              *)
Building == {"value", "name", "colon", "first", "next"}

(* The types of the parser's variables.                                     *)
Typed ==
  /\ text \in Texts \cup {<<>>} /\ at \in 1 .. Len(text) + 1 /\ depth \in 0 .. NestingLimit
  /\ nodes \in [DOMAIN nodes -> Fields]
  /\ IsFiniteSet(DOMAIN strings) /\ strings \in [DOMAIN strings -> Strings]
  /\ stack \in Seq(Frame) /\ root \in Nat /\ starved \in BOOLEAN

(* While the parser is at work its lists are open, and the item it fills in *)
(* has neither children nor a string for a value yet, nor a name before it  *)
(* has been read.                                                           *)
ListsOpen ==
  /\ pc \in Building => Open(nodes, root, stack) /\ depth = Len(stack)
  /\ pc \in {"value", "name", "colon"} =>
       /\ Item \in DOMAIN nodes
       /\ nodes[Item].child = NULL /\ nodes[Item].valuestring = NULL
  /\ pc = "name" => nodes[Item].string = NULL
  /\ pc \in {"name", "colon", "first"} => stack # <<>>
  /\ pc \notin Building \cup {"fail"} => stack = <<>>

(* Before the parser and after the answer there is no tree.                 *)
Outside ==
  /\ pc \in {"idle", "parse", "answered"} => root = NULL
  /\ pc = "idle" => text = <<>> /\ at = 1
  /\ message # NULL => pc = "answered" /\ text = <<>>

(* The types of the handler's variables.                                    *)
Tables ==
  /\ DOMAIN ram = Keys /\ DOMAIN flash = Keys /\ DOMAIN before = Keys
  /\ message \in {NULL, Block} /\ valid_json \in BOOLEAN
  /\ response_status \in {"none", "ok", "bad request"}

(* The inductive invariant.                                                 *)
FormInv ==
  /\ Typed
  /\ Hung(nodes, root, stack)
  /\ Owned(nodes, strings)
  /\ ListsOpen
  /\ Outside
  /\ Tables

(* The item that is filled in, by root and open lists.                      *)
LEMMA ItemIs == Item = LastItem(root, stack)
BY DEF Item, LastItem, Last

(* Where there is something to read, the next place is still in the text.   *)
LEMMA PeekIs ==
  ASSUME Typed
  PROVE  /\ Len(text) \in Nat /\ at \in 1 .. Len(text) + 1
         /\ Peek # "end" => at + 1 \in 1 .. Len(text) + 1
         /\ "end" \notin Strings
<1>0. <<>> \in Seq(Strings \cup Marks)
  OBVIOUS
<1>1. text \in Seq(Strings \cup Marks)
  BY <1>0, FormAssumption DEF Typed
<1>2. Len(text) \in Nat /\ at \in 1 .. Len(text) + 1
  BY <1>1 DEF Typed
<1>3. Peek # "end" => at + 1 \in 1 .. Len(text) + 1
  BY <1>2 DEF Peek
<1>4. "end" \notin Strings
  BY FormAssumption DEF Marks
<1> QED BY <1>2, <1>3, <1>4

(* A change of what no link and no string is: type, or a string. *)
LEMMA HoldingIs ==
  ASSUME NEW n \in Fields, NEW field \in {"string", "valuestring"}, NEW s \in Nat,
         NEW m, m = Holding(n, field, s)
  PROVE  /\ m \in Fields /\ m.next = n.next /\ m.prev = n.prev /\ m.child = n.child
         /\ field = "string" => m.string = s /\ m.valuestring = n.valuestring
         /\ field = "valuestring" => m.valuestring = s /\ m.string = n.string
<1>1. CASE field = "string"
  <2>1. m = [n EXCEPT !.type = "string", !.string = s]
    BY <1>1 DEF Holding
  <2>2. "string" \in Kinds
    BY DEF Kinds
  <2>3. m \in Fields
    BY <2>1, <2>2 DEF Fields
  <2> QED BY <1>1, <2>1, <2>3 DEF Fields
<1>2. CASE field = "valuestring"
  <2>1. m = [n EXCEPT !.type = "string", !.valuestring = s]
    BY <1>2 DEF Holding
  <2>2. "string" \in Kinds
    BY DEF Kinds
  <2>3. m \in Fields
    BY <2>1, <2>2 DEF Fields
  <2> QED BY <1>2, <2>1, <2>3 DEF Fields
<1> QED BY <1>1, <1>2

(* Steps that leave the heap as it is. *)
LEMMA QuietStep ==
  ASSUME FormInv, UNCHANGED <<nodes, strings, stack, root>>,
         text' \in Texts \cup {<<>>}, at' \in 1 .. Len(text') + 1, depth' \in 0 .. NestingLimit,
         starved' \in BOOLEAN, ListsOpen', Outside', Tables'
  PROVE  FormInv'
<1>1. Typed'
  BY DEF FormInv, Typed
<1>2. Hung(nodes, root, stack)' /\ Owned(nodes, strings)'
  BY DEF FormInv
<1> QED BY <1>1, <1>2 DEF FormInv

(* The parser leaves the handler's variables alone.                         *)
LEMMA TablesStay ==
  ASSUME FormInv, UNCHANGED formVars PROVE Tables'
BY DEF FormInv, Tables, formVars

(* A failure is noticed, and nothing is taken down yet. *)
LEMMA Failing ==
  ASSUME FormInv, pc \in Building, pc' = "fail",
         UNCHANGED <<text, nodes, strings, stack, root, formVars>>,
         at' \in 1 .. Len(text) + 1, depth' \in 0 .. NestingLimit, starved' \in BOOLEAN
  PROVE  FormInv'
<1>1. Tables'
  BY TablesStay
<1>2. ListsOpen'
  BY DEF ListsOpen, Building
<1>3. Outside'
  BY DEF FormInv, Outside, Building, formVars
<1>4. text' \in Texts \cup {<<>>} /\ at' \in 1 .. Len(text') + 1
  BY DEF FormInv, Typed
<1>5. UNCHANGED <<nodes, strings, stack, root>>
  OBVIOUS
<1> QED BY <1>1, <1>2, <1>3, <1>4, <1>5, QuietStep
-----------------------------------------------------------------------------
(* Nothing that begins a value: nothing changes but where the parser is.    *)
LEMMA NoValueStep ==
  ASSUME FormInv, NoValue, UNCHANGED formVars
  PROVE  FormInv'
<1>1. pc \in Building /\ pc' = "fail" /\ UNCHANGED <<text, nodes, strings, stack, root, formVars>>
  BY DEF NoValue, parserVars, Building
<1>2. at' \in 1 .. Len(text) + 1 /\ depth' \in 0 .. NestingLimit /\ starved' \in BOOLEAN
  BY DEF NoValue, parserVars, FormInv, Typed
<1> QED BY <1>1, <1>2, Failing

(* Neither a comma nor the end of the list.                                 *)
LEMMA NoSeparatorStep ==
  ASSUME FormInv, NoSeparator, UNCHANGED formVars
  PROVE  FormInv'
<1>1. pc \in Building /\ pc' = "fail" /\ UNCHANGED <<text, nodes, strings, stack, root, formVars>>
  BY DEF NoSeparator, parserVars, Building
<1>2. at' \in 1 .. Len(text) + 1 /\ depth' \in 0 .. NestingLimit /\ starved' \in BOOLEAN
  BY DEF NoSeparator, parserVars, FormInv, Typed
<1> QED BY <1>1, <1>2, Failing

(* The colon between a name and its value.                                  *)
LEMMA ParseColonStep ==
  ASSUME FormInv, ParseColon, UNCHANGED formVars
  PROVE  FormInv'
<1>0. pc = "colon" /\ pc \in Building /\ UNCHANGED <<text, depth, stack, nodes, strings, root, starved, formVars>>
  BY DEF ParseColon, Building
<1>1. depth' \in 0 .. NestingLimit /\ starved' \in BOOLEAN /\ text' \in Texts \cup {<<>>}
  BY <1>0 DEF FormInv, Typed
<1>2. CASE Peek = ":"
  <2>1. pc' = "value" /\ at' = at + 1
    BY <1>2 DEF ParseColon
  <2>2. at' \in 1 .. Len(text') + 1
    BY <1>0, <1>2, <2>1, PeekIs DEF FormInv
  <2>3. Item' = Item
    BY <1>0 DEF Item
  <2>4. ListsOpen'
    BY <1>0, <2>1, <2>3 DEF FormInv, ListsOpen, Building
  <2>5. Outside'
    BY <1>0, <2>1 DEF FormInv, Outside, formVars
  <2> QED BY <1>0, <1>1, <2>2, <2>4, <2>5, TablesStay, QuietStep
<1>3. CASE Peek # ":"
  <2>1. pc' = "fail" /\ at' = at
    BY <1>3 DEF ParseColon
  <2>2. at' \in 1 .. Len(text) + 1
    BY <2>1, PeekIs DEF FormInv
  <2> QED BY <1>0, <1>1, <2>1, <2>2, Failing
<1> QED BY <1>2, <1>3

(* The value of the root is complete, and no list is open.                  *)
LEMMA SucceedStep ==
  ASSUME FormInv, Succeed, UNCHANGED formVars
  PROVE  FormInv'
<1>0. pc = "next" /\ stack = <<>> /\ pc' = "parsed" /\ UNCHANGED <<text, at, depth, stack, nodes, strings, root, starved, formVars>>
  BY DEF Succeed, parserVars
<1>1. /\ depth' \in 0 .. NestingLimit /\ starved' \in BOOLEAN /\ text' \in Texts \cup {<<>>}
      /\ at' \in 1 .. Len(text') + 1
  BY <1>0 DEF FormInv, Typed
<1>2. ListsOpen'
  BY <1>0 DEF ListsOpen, Building
<1>3. Outside'
  BY <1>0 DEF FormInv, Outside, formVars
<1> QED BY <1>0, <1>1, <1>2, <1>3, TablesStay, QuietStep

(* A list is opened: the heap stays, and the item it will belong to is one  *)
(* without children.                                                        *)
LEMMA OpenListStep ==
  ASSUME FormInv, OpenList, UNCHANGED formVars
  PROVE  FormInv'
<1>0. /\ pc = "value" /\ pc \in Building /\ Peek \in Opening
      /\ UNCHANGED <<text, nodes, strings, root, starved, formVars>>
  BY DEF OpenList, Building
<1>1. starved' \in BOOLEAN /\ text' \in Texts \cup {<<>>}
  BY <1>0 DEF FormInv, Typed
<1>2. CASE TooDeep
  <2>1. pc' = "fail" /\ UNCHANGED <<at, depth, stack>>
    BY <1>2 DEF OpenList
  <2>2. at' \in 1 .. Len(text) + 1 /\ depth' \in 0 .. NestingLimit
    BY <2>1 DEF FormInv, Typed
  <2> QED BY <1>0, <1>1, <2>1, <2>2, Failing
<1>3. CASE ~TooDeep
  <2> DEFINE f == [head |-> NULL, current |-> NULL, open |-> Peek]
  <2>1. depth' = depth + 1 /\ stack' = Append(stack, f) /\ at' = at + 1 /\ pc' = "first"
    BY <1>3 DEF OpenList
  <2>2. f \in Frame /\ f.head = NULL /\ f.current = NULL
    BY <1>0 DEF Frame, NULL
  <2> HIDE DEF f
  <2>3. stack \in Seq(Frame) /\ depth \in 0 .. NestingLimit /\ depth = Len(stack)
    BY <1>0 DEF FormInv, Typed, ListsOpen
  <2>4. /\ Hung(nodes, root, stack) /\ Open(nodes, root, stack)
        /\ LastItem(root, stack) \in DOMAIN nodes /\ nodes[LastItem(root, stack)].child = NULL
    BY <1>0, ItemIs DEF FormInv, ListsOpen
  <2>5. Hung(nodes, root, Append(stack, f)) /\ Open(nodes, root, Append(stack, f))
    BY <2>2, <2>3, <2>4, HungOpened
  <2>6. stack' \in Seq(Frame) /\ Len(stack') = Len(stack) + 1 /\ stack' # <<>>
    BY <2>1, <2>2, <2>3
  <2>7. at' \in 1 .. Len(text') + 1
    <3>1. Peek # "end"
      BY <1>0 DEF Opening
    <3> QED BY <1>0, <2>1, <3>1, PeekIs DEF FormInv
  <2>8. depth' \in 0 .. NestingLimit /\ depth' = Len(stack')
    BY <1>3, <2>1, <2>3, <2>6, FormAssumption DEF TooDeep
  <2>9. Typed'
    BY <1>0, <1>1, <2>6, <2>7, <2>8 DEF FormInv, Typed
  <2>10. ListsOpen'
    BY <1>0, <2>1, <2>5, <2>6, <2>8 DEF ListsOpen, Building
  <2>11. Hung(nodes, root, stack)' /\ Owned(nodes, strings)'
    BY <1>0, <2>1, <2>5 DEF FormInv
  <2>12. Outside'
    BY <1>0, <2>1 DEF FormInv, Outside, formVars
  <2> QED BY <1>0, <2>9, <2>10, <2>11, <2>12, TablesStay DEF FormInv
<1> QED BY <1>2, <1>3

(* The item is filled in, and its links stay. *)
LEMMA Filling ==
  ASSUME FormInv, pc \in {"value", "name"}, UNCHANGED <<stack, root>>,
         NEW y \in Fields, nodes' = [nodes EXCEPT ![Item] = y],
         y.next = nodes[Item].next, y.prev = nodes[Item].prev, y.child = nodes[Item].child
  PROVE  /\ DOMAIN nodes' = DOMAIN nodes /\ nodes' \in [DOMAIN nodes' -> Fields]
         /\ Item \in DOMAIN nodes /\ Item' = Item
         /\ nodes'[Item] = y /\ \A n \in DOMAIN nodes \ {Item} : nodes'[n] = nodes[n]
         /\ Hung(nodes, root, stack)' /\ Open(nodes, root, stack)'
<1>1. Item \in DOMAIN nodes /\ Open(nodes, root, stack)
  BY DEF FormInv, ListsOpen, Building
<1>2. /\ nodes \in [DOMAIN nodes -> Fields] /\ stack \in Seq(Frame) /\ Hung(nodes, root, stack)
  BY DEF FormInv, Typed
<1>3. Item' = Item
  BY DEF Item
<1>4. /\ DOMAIN nodes' = DOMAIN nodes /\ nodes' \in [DOMAIN nodes -> Fields]
      /\ nodes'[Item] = y /\ \A n \in DOMAIN nodes \ {Item} : nodes'[n] = nodes[n]
  BY <1>1, <1>2
<1>5. \A n \in DOMAIN nodes : /\ nodes'[n].next = nodes[n].next /\ nodes'[n].prev = nodes[n].prev
                              /\ nodes'[n].child = nodes[n].child
  BY <1>4
<1>6. Hung(nodes', root, stack) /\ Open(nodes', root, stack)
  BY <1>1, <1>2, <1>4, <1>5, HungSame
<1> QED BY <1>1, <1>3, <1>4, <1>6

(* An item without children or string gets its type.                        *)
LEMMA TypeGiven ==
  ASSUME FormInv, pc = "value", pc' = "next", Peek \in Literals \cup {"number"},
         nodes' = [nodes EXCEPT ![Item].type = Peek], at' = at + 1,
         UNCHANGED <<text, depth, stack, strings, root, starved, formVars>>
  PROVE  FormInv'
<1>1. Item \in DOMAIN nodes /\ nodes \in [DOMAIN nodes -> Fields]
  BY DEF FormInv, ListsOpen, Typed
<1>2. PICK y : y = [nodes[Item] EXCEPT !.type = Peek]
  OBVIOUS
<1>3. /\ y \in Fields /\ y.next = nodes[Item].next /\ y.prev = nodes[Item].prev /\ y.child = nodes[Item].child
      /\ y.string = nodes[Item].string /\ y.valuestring = nodes[Item].valuestring
  <2>1. Peek \in Kinds /\ nodes[Item] \in Fields
    BY <1>1 DEF Kinds
  <2> QED BY <1>2, <2>1 DEF Fields
<1>4. nodes' = [nodes EXCEPT ![Item] = y]
  BY <1>2
<1>5. /\ DOMAIN nodes' = DOMAIN nodes /\ nodes' \in [DOMAIN nodes' -> Fields]
      /\ nodes'[Item] = y /\ \A n \in DOMAIN nodes \ {Item} : nodes'[n] = nodes[n]
      /\ Hung(nodes, root, stack)' /\ Open(nodes, root, stack)'
  BY <1>3, <1>4, Filling
<1>6. Owned(nodes', strings)
  <2>1. \A n \in DOMAIN nodes : nodes'[n].string = nodes[n].string /\ nodes'[n].valuestring = nodes[n].valuestring
    BY <1>3, <1>5
  <2>2. Owned(nodes, strings)
    BY DEF FormInv
  <2> QED BY <1>5, <2>1, <2>2, OwnedSame
<1>7. at' \in 1 .. Len(text') + 1
  <2>1. Peek # "end"
    BY DEF Literals
  <2> QED BY <2>1, PeekIs DEF FormInv
<1>8. Typed'
  BY <1>5, <1>7 DEF FormInv, Typed
<1>9. ListsOpen'
  BY <1>5 DEF FormInv, ListsOpen, Building
<1>10. Outside'
  BY DEF FormInv, Outside, formVars
<1> QED BY <1>5, <1>6, <1>8, <1>9, <1>10, TablesStay DEF FormInv

(* null, true and false.                                                    *)
LEMMA ParseLiteralStep ==
  ASSUME FormInv, ParseLiteral, UNCHANGED formVars
  PROVE  FormInv'
BY TypeGiven DEF ParseLiteral

(* A number, or a minus sign with no number behind it.                      *)
LEMMA ParseNumberStep ==
  ASSUME FormInv, ParseNumber, UNCHANGED formVars
  PROVE  FormInv'
<1>1. CASE Peek = "number"
  BY <1>1, TypeGiven DEF ParseNumber
<1>2. CASE Peek # "number"
  <2>1. /\ pc \in Building /\ pc' = "fail"
        /\ UNCHANGED <<text, at, depth, stack, nodes, strings, root, starved, formVars>>
    BY <1>2 DEF ParseNumber, Building
  <2>2. at' \in 1 .. Len(text) + 1 /\ depth' \in 0 .. NestingLimit /\ starved' \in BOOLEAN
    BY <2>1 DEF FormInv, Typed
  <2> QED BY <2>1, <2>2, Failing
<1> QED BY <1>1, <1>2

(* A string is put where there was none, or there is no memory for it, or   *)
(* it is none.                                                              *)
LEMMA parse_stringStep ==
  ASSUME FormInv, NEW field \in {"string", "valuestring"}, NEW then \in {"next", "colon"},
         parse_string(field, then), UNCHANGED <<text, depth, stack, root, formVars>>,
         \/ pc = "value" /\ field = "valuestring" /\ then = "next"
         \/ pc = "name" /\ field = "string" /\ then = "colon"
  PROVE  FormInv'
<1>0. pc \in Building /\ depth' \in 0 .. NestingLimit
  BY DEF FormInv, Typed, Building
<1>1. CASE /\ Peek \in Strings
           /\ strings' = Grown(strings, Fresh(strings), Peek)
           /\ nodes' = [nodes EXCEPT ![Item] = Holding(@, field, Fresh(strings))]
           /\ at' = at + 1 /\ pc' = then /\ UNCHANGED starved
  <2>1. /\ Item \in DOMAIN nodes /\ nodes \in [DOMAIN nodes -> Fields] /\ nodes[Item] \in Fields
        /\ nodes[Item].child = NULL /\ nodes[Item].valuestring = NULL
        /\ pc = "name" => nodes[Item].string = NULL
        /\ IsFiniteSet(DOMAIN strings) /\ strings \in [DOMAIN strings -> Strings]
    BY DEF FormInv, ListsOpen, Typed
  <2>2. PICK a : a = Fresh(strings)
    OBVIOUS
  <2>3. a \in Nat /\ a # NULL /\ a \notin DOMAIN strings
    BY <2>1, <2>2, FreshIs
  <2>4. /\ DOMAIN strings' = DOMAIN strings \cup {a} /\ IsFiniteSet(DOMAIN strings')
        /\ strings' \in [DOMAIN strings' -> Strings]
    <3>1. strings' = [x \in DOMAIN strings \cup {a} |-> IF x = a THEN Peek ELSE strings[x]]
      BY <1>1, <2>2 DEF Grown
    <3>2. IsFiniteSet(DOMAIN strings \cup {a})
      BY <2>1, FS_AddElement
    <3> QED BY <1>1, <2>1, <3>1, <3>2
  <2>5. PICK y : y = Holding(nodes[Item], field, a)
    OBVIOUS
  <2>6. /\ y \in Fields /\ y.next = nodes[Item].next /\ y.prev = nodes[Item].prev /\ y.child = nodes[Item].child
        /\ field = "string" => y.string = a /\ y.valuestring = nodes[Item].valuestring
        /\ field = "valuestring" => y.valuestring = a /\ y.string = nodes[Item].string
    BY <2>1, <2>3, <2>5, HoldingIs
  <2>7. nodes' = [nodes EXCEPT ![Item] = y]
    BY <1>1, <2>2, <2>5
  <2>8. /\ DOMAIN nodes' = DOMAIN nodes /\ nodes' \in [DOMAIN nodes' -> Fields] /\ Item' = Item
        /\ nodes'[Item] = y /\ \A n \in DOMAIN nodes \ {Item} : nodes'[n] = nodes[n]
        /\ Hung(nodes, root, stack)' /\ Open(nodes, root, stack)'
    BY <2>6, <2>7, Filling
  <2>9. Owned(nodes', strings')
    <3>1. \/ nodes[Item].string = NULL /\ nodes'[Item].string = a /\ nodes'[Item].valuestring = nodes[Item].valuestring
          \/ nodes[Item].valuestring = NULL /\ nodes'[Item].valuestring = a /\ nodes'[Item].string = nodes[Item].string
      BY <2>1, <2>6, <2>8
    <3>2. Owned(nodes, strings)
      BY DEF FormInv
    <3> QED BY ONLY <2>1, <2>3, <2>4, <2>8, <3>1, <3>2, OwnedHolding
  <2>10. at' \in 1 .. Len(text') + 1
    <3>1. Peek # "end"
      BY <1>1, PeekIs DEF FormInv
    <3> QED BY <1>1, <3>1, PeekIs DEF FormInv
  <2>11. Typed'
    BY <1>1, <2>4, <2>8, <2>10 DEF FormInv, Typed
  <2>12. ListsOpen'
    BY <1>1, <2>1, <2>6, <2>8 DEF FormInv, ListsOpen, Building
  <2>13. Outside'
    BY <1>1 DEF FormInv, Outside, formVars
  <2> QED BY <2>8, <2>9, <2>11, <2>12, <2>13, TablesStay DEF FormInv
<1>2. CASE /\ starved' = TRUE \/ (Peek \notin Strings /\ UNCHANGED starved)
           /\ pc' = "fail" /\ UNCHANGED <<at, nodes, strings>>
  <2>1. at' \in 1 .. Len(text) + 1 /\ starved' \in BOOLEAN
    BY <1>2 DEF FormInv, Typed
  <2> QED BY <1>0, <1>2, <2>1, Failing
<1> QED BY <1>1, <1>2 DEF parse_string

(* A string that is a value.                                                *)
LEMMA ParseStringStep ==
  ASSUME FormInv, ParseString, UNCHANGED formVars
  PROVE  FormInv'
BY parse_stringStep DEF ParseString

(* A string that is a name.                                                 *)
LEMMA ParseNameStep ==
  ASSUME FormInv, ParseName, UNCHANGED formVars
  PROVE  FormInv'
BY parse_stringStep DEF ParseName

(* What NextItem does when there is memory.                                 *)
LEMMA Attaching ==
  ASSUME FormInv, stack # <<>>, pc \in Building, NEW n, n = Fresh(nodes), NEW last, last = stack[Len(stack)].current,
         nodes' = Attached(Fresh(nodes)),
         stack' = [stack EXCEPT ![Len(stack)] =
           [@ EXCEPT !.current = Fresh(nodes),
                     !.head = IF Last(stack).head = NULL THEN Fresh(nodes) ELSE Last(stack).head]]
  PROVE  /\ n \in Nat /\ n # NULL /\ n \notin DOMAIN nodes
         /\ IsAttached(nodes, n, last, nodes') /\ IsPushed(stack, n, stack')
<1>0. Open(nodes, root, stack)
  BY DEF FormInv, ListsOpen
<1>1. PICK with : with = Grown(nodes, n, [Zeroed EXCEPT !.prev = last])
  OBVIOUS
<1>2. stack \in Seq(Frame) /\ nodes \in [DOMAIN nodes -> Fields] /\ Hung(nodes, root, stack) /\ IsHeap(nodes)
  BY DEF FormInv, Typed, Hung
<1>3. n \in Nat /\ n # NULL /\ n \notin DOMAIN nodes
  BY <1>2, FreshIs DEF IsHeap
<1>4. last \in Nat /\ (last # NULL => last \in DOMAIN nodes)
  <2>1. PICK K : K = Len(stack) /\ K \in 1 .. Len(stack)
    BY <1>2
  <2>2. stack[K] \in Frame /\ Starts(root, stack)[K] = stack[K].head
    BY <1>2, <2>1, StartsAre
  <2>3. ListOpen(nodes, root, stack, K)
    BY <1>0, <2>1 DEF Open
  <2>4. Reached(nodes, stack[K].head) \subseteq DOMAIN nodes
    BY <1>2, Reaches
  <2>5. stack[K].current \in Nat
    BY <2>2 DEF Frame
  <2> QED BY <2>1, <2>3, <2>4, <2>5 DEF ListOpen
<1>5. nodes' = IF last = NULL THEN with ELSE [with EXCEPT ![last].next = n]
  BY <1>1 DEF Attached, Last
<1>6. stack' = [stack EXCEPT ![Len(stack)] =
        [@ EXCEPT !.current = n, !.head = IF stack[Len(stack)].head = NULL THEN n ELSE stack[Len(stack)].head]]
  BY DEF Last
<1>7. IsAttached(nodes, n, last, nodes')
  BY ONLY <1>1, <1>2, <1>3, <1>4, <1>5, AttachedIs
<1>8. stack # <<>>
  OBVIOUS
<1>9. IsPushed(stack, n, stack')
  BY ONLY <1>2, <1>3, <1>6, <1>8, PushedIs
<1> QED BY <1>3, <1>7, <1>9

(* The heap with an item at the end of the innermost list, as Hung.         *)
LEMMA NextItemStep ==
  ASSUME FormInv, NextItem, UNCHANGED formVars
  PROVE  FormInv'
<1>0. /\ stack # <<>> /\ pc \in {"first", "next"} /\ pc \in Building
      /\ UNCHANGED <<text, depth, strings, root, formVars>>
      /\ depth' \in 0 .. NestingLimit /\ depth = Len(stack) /\ Open(nodes, root, stack)
  BY DEF NextItem, Building, FormInv, Typed, ListsOpen
<1>1. at' \in 1 .. Len(text) + 1
  <2>1. at' = at \/ (Peek = "," /\ at' = at + 1)
    BY DEF NextItem
  <2>2. Peek = "," => Peek # "end"
    OBVIOUS
  <2> QED BY <2>1, <2>2, PeekIs DEF FormInv
<1>2. CASE pc' = "fail" /\ starved' = TRUE /\ UNCHANGED <<nodes, stack>>
  <2>1. starved' \in BOOLEAN
    BY <1>2
  <2> QED BY <1>0, <1>1, <1>2, <2>1, Failing
<1>3. CASE /\ nodes' = Attached(Fresh(nodes))
           /\ stack' = [stack EXCEPT ![Len(stack)] =
                [@ EXCEPT !.current = Fresh(nodes),
                          !.head = IF Last(stack).head = NULL THEN Fresh(nodes) ELSE Last(stack).head]]
           /\ pc' = IF Last(stack).open = "[" THEN "value" ELSE "name"
           /\ UNCHANGED starved
  <2>1. PICK n : n = Fresh(nodes)
    OBVIOUS
  <2>2. PICK last : last = stack[Len(stack)].current
    OBVIOUS
  <2>4. stack \in Seq(Frame) /\ Hung(nodes, root, stack)
    BY DEF FormInv, Typed
  <2>5. n \in Nat /\ n # NULL /\ n \notin DOMAIN nodes
    BY <1>0, <1>3, <2>1, <2>2, Attaching
  <2>9. IsAttached(nodes, n, last, nodes')
    BY <1>0, <1>3, <2>1, <2>2, Attaching
  <2>10. IsPushed(stack, n, stack')
    BY <1>0, <1>3, <2>1, <2>2, Attaching
  <2>11. Hung(nodes', root, stack') /\ Open(nodes', root, stack')
    BY ONLY <1>0, <2>2, <2>4, <2>5, <2>9, <2>10, HungAttached
  <2>12. Owned(nodes', strings)
    <3>1. Owned(nodes, strings)
      BY DEF FormInv
    <3> QED BY ONLY <2>5, <2>9, <3>1, OwnedGrown DEF IsAttached
  <2>13. stack' # <<>> /\ Item' = n
    <3>1. stack' # <<>>
      BY <1>0, <2>4, <2>10 DEF IsPushed
    <3> QED BY <2>10, <3>1 DEF Item, Last, IsPushed
  <2>14. pc' \in {"value", "name"}
    BY <1>3
  <2>15. Typed'
    BY <1>0, <1>1, <1>3, <2>9, <2>10 DEF FormInv, Typed, IsAttached, IsPushed
  <2>16. ListsOpen'
    BY <1>0, <2>9, <2>10, <2>11, <2>13, <2>14 DEF ListsOpen, Building, IsAttached, IsPushed
  <2>17. Outside'
    BY <1>0, <2>14 DEF FormInv, Outside, formVars
  <2> QED BY <1>0, <2>11, <2>12, <2>15, <2>16, <2>17, TablesStay DEF FormInv
<1> QED BY <1>2, <1>3 DEF NextItem

(* The lists that are left are one fewer.                                   *)
LEMMA ShorterSeq ==
  ASSUME NEW s \in Seq(Frame), NEW t, s # <<>>, IsShorter(s, t)
  PROVE  /\ t \in Seq(Frame) /\ Len(t) = Len(s) - 1
         /\ Len(s) \in Nat \ {0} /\ Len(s) \in 1 .. Len(s)
<1>1. PICK K \in Nat \ {0} : K = Len(s) /\ K \in 1 .. K
  OBVIOUS
<1> QED BY <1>1 DEF IsShorter

(* What CloseList does, to the heap and to the open lists.                  *)
LEMMA Handing ==
  ASSUME FormInv, CloseList, NEW o, o = OwnerOf(root, stack, Len(stack)), NEW f, f = stack[Len(stack)]
  PROVE  /\ f \in Frame /\ o \in DOMAIN nodes /\ (f.head # NULL => f.head \in DOMAIN nodes)
         /\ IsHanded(nodes, o, f, nodes') /\ IsShorter(stack, stack')
<1>0. stack # <<>> /\ pc \in Building
  BY DEF CloseList, Building
<1>1. /\ stack \in Seq(Frame) /\ nodes \in [DOMAIN nodes -> Fields] /\ Hung(nodes, root, stack) /\ IsHeap(nodes)
      /\ Open(nodes, root, stack)
  BY <1>0 DEF FormInv, Typed, Hung, ListsOpen
<1>3. IsShorter(stack, stack')
  BY <1>0, <1>1, FrontIs DEF CloseList
<1>4. Len(stack) \in Nat \ {0} /\ Len(stack) \in 1 .. Len(stack)
  BY <1>0, <1>1, <1>3, ShorterSeq
<1>5. PICK K : K = Len(stack)
  OBVIOUS
<1>7. f \in Frame /\ f = Last(stack) /\ Starts(root, stack)[K] = f.head
  BY <1>1, <1>4, <1>5, StartsAre DEF Last
<1>8. ListOpen(nodes, root, stack, K)
  BY <1>1, <1>4, <1>5 DEF Open
<1>10. o = Owner
  BY <1>5 DEF Owner, OwnerOf
<1>11. o \in DOMAIN nodes
  <2>1. o \in Reached(nodes, Starts(root, stack)[K - 1])
    BY <1>5, <1>8 DEF ListOpen
  <2>2. PICK x : x = Starts(root, stack)[K - 1]
    OBVIOUS
  <2>3. Reached(nodes, x) \subseteq DOMAIN nodes
    BY <1>1, Reaches
  <2> QED BY <2>1, <2>2, <2>3
<1>12. f.head # NULL => f.head \in DOMAIN nodes
  <2>1. Shape(nodes, K, Starts(root, stack)) /\ K \in 0 .. K
    BY <1>1, <1>4, <1>5 DEF Hung
  <2>2. Starts(root, stack)[K] \in DOMAIN nodes \cup {NULL}
    BY <2>1 DEF Shape
  <2> QED BY <1>7, <2>2
<1>13. IsHanded(nodes, o, f, nodes')
  <2>1. PICK owned : owned = [nodes EXCEPT ![o].type = f.open, ![o].child = f.head]
    OBVIOUS
  <2>2. nodes' = IF f.head = NULL THEN owned ELSE [owned EXCEPT ![f.head].prev = f.current]
    BY <1>7, <1>10, <2>1 DEF CloseList, Closed
  <2> QED BY ONLY <1>1, <1>7, <1>11, <1>12, <2>1, <2>2, ClosedIs
<1> QED BY <1>3, <1>7, <1>11, <1>12, <1>13

(* The innermost list is complete. *)
LEMMA CloseListStep ==
  ASSUME FormInv, CloseList, UNCHANGED formVars
  PROVE  FormInv'
<1>0. /\ stack # <<>> /\ pc \in {"first", "next"} /\ pc' = "next" /\ Peek = ClosingOf(Last(stack).open)
      /\ UNCHANGED <<text, strings, root, starved, formVars>> /\ at' = at + 1 /\ depth' = depth - 1
  BY DEF CloseList
<1>1. /\ stack \in Seq(Frame) /\ nodes \in [DOMAIN nodes -> Fields] /\ Hung(nodes, root, stack) /\ IsHeap(nodes)
      /\ Open(nodes, root, stack) /\ depth = Len(stack) /\ depth \in 0 .. NestingLimit
  BY <1>0 DEF FormInv, Typed, Hung, ListsOpen, Building
<1>2. PICK t : t = stack' /\ t = Front(stack)
  BY DEF CloseList
<1>3. IsShorter(stack, t)
  BY <1>0, <1>1, <1>2, FrontIs
<1>4. /\ t \in Seq(Frame) /\ Len(t) = Len(stack) - 1 /\ Len(stack) \in Nat \ {0} /\ Len(stack) \in 1 .. Len(stack)
  BY <1>0, <1>1, <1>3, ShorterSeq
<1>5. PICK K : K = Len(stack)
  OBVIOUS
<1>6. PICK f : f = stack[K]
  OBVIOUS
<1>9. PICK o : o = OwnerOf(root, stack, K)
  OBVIOUS
<1>13. IsHanded(nodes, o, f, nodes')
  BY <1>5, <1>6, <1>9, Handing
<1>14. Hung(nodes', root, t) /\ Open(nodes', root, t)
  <2>1. o = OwnerOf(root, stack, Len(stack)) /\ IsHanded(nodes, o, stack[Len(stack)], nodes')
    BY <1>5, <1>6, <1>9, <1>13
  <2> QED BY ONLY <1>0, <1>1, <1>3, <2>1, HungClosed
<1>15. Owned(nodes', strings)
  <2>1. Owned(nodes, strings)
    BY DEF FormInv
  <2> QED BY ONLY <1>13, <2>1, OwnedSame DEF IsHanded
<1>16. at' \in 1 .. Len(text') + 1
  <2>1. Peek # "end"
    BY <1>0 DEF ClosingOf
  <2> QED BY <1>0, <2>1, PeekIs DEF FormInv
<1>17. depth' \in 0 .. NestingLimit /\ depth' = Len(t)
  BY <1>0, <1>1, <1>4, FormAssumption
<1>18. Typed'
  <2>1. nodes' \in [DOMAIN nodes' -> Fields]
    BY <1>13 DEF IsHanded
  <2> QED BY <1>0, <1>2, <1>4, <1>16, <1>17, <2>1 DEF FormInv, Typed
<1>19. ListsOpen'
  BY <1>0, <1>2, <1>14, <1>17 DEF ListsOpen, Building
<1>20. Outside'
  BY <1>0 DEF FormInv, Outside, formVars
<1> QED BY <1>0, <1>2, <1>14, <1>15, <1>18, <1>19, <1>20, TablesStay DEF FormInv

(* What cJSON_Delete leaves. *)
LEMMA Deleted ==
  ASSUME FormInv, NEW x, cJSON_Delete(x)
  PROVE  /\ Owned(nodes', strings')
         /\ nodes' = Without(nodes, Reached(nodes, x))
         /\ nodes' \in [DOMAIN nodes' -> Fields]
         /\ IsFiniteSet(DOMAIN strings') /\ strings' \in [DOMAIN strings' -> Strings]
<1>1. nodes' = Without(nodes, Reached(nodes, x))
  BY DEF cJSON_Delete, Without
<1>2. PICK S : S = Reached(nodes, x)
  OBVIOUS
<1>3. S \in SUBSET DOMAIN nodes /\ Owned(nodes, strings)
  BY <1>2, Reaches DEF FormInv, Hung
<1>4. strings' = Without(strings, HeldBy(nodes, S))
  BY <1>2 DEF cJSON_Delete, StringsOf, HeldBy, Without
<1>5. Owned(nodes', strings')
  BY <1>1, <1>2, <1>3, <1>4, OwnedDrop
<1>6. nodes' \in [DOMAIN nodes' -> Fields]
  BY <1>1 DEF FormInv, Typed, Without
<1>7. IsFiniteSet(DOMAIN strings')
  <2>1. DOMAIN strings' \subseteq DOMAIN strings
    BY <1>4 DEF Without
  <2> QED BY <2>1, FS_Subset DEF FormInv, Typed
<1>8. strings' \in [DOMAIN strings' -> Strings]
  BY <1>4 DEF FormInv, Typed, Without
<1> QED BY <1>1, <1>5, <1>6, <1>7, <1>8

(* A failure takes one list down, or at last the root. *)
LEMMA FailStep ==
  ASSUME FormInv, Fail, UNCHANGED formVars
  PROVE  FormInv'
<1>0. pc = "fail" /\ UNCHANGED <<text, at, depth, starved, formVars>>
  BY DEF Fail
<1>1. /\ stack \in Seq(Frame) /\ Hung(nodes, root, stack)
      /\ text' \in Texts \cup {<<>>} /\ at' \in 1 .. Len(text') + 1 /\ depth' \in 0 .. NestingLimit
      /\ starved' \in BOOLEAN /\ root \in Nat
  BY <1>0 DEF FormInv, Typed
<1>2. CASE stack # <<>>
  <2>1. cJSON_Delete(Last(stack).head) /\ UNCHANGED <<root, pc>>
    BY <1>2 DEF Fail
  <2>2. PICK t : t = stack' /\ t = Front(stack)
    BY <1>2 DEF Fail
  <2>3. IsShorter(stack, t)
    BY <1>1, <1>2, <2>2, FrontIs
  <2>4. nodes' = Without(nodes, Reached(nodes, stack[Len(stack)].head))
    BY <2>1, Deleted DEF Last
  <2>5. Hung(nodes', root, t)
    BY ONLY <1>1, <1>2, <2>3, <2>4, HungDropped
  <2>6. Typed'
    BY <1>1, <2>1, <2>2, <2>3, Deleted DEF Typed, IsShorter
  <2>7. ListsOpen'
    BY <1>0, <2>1 DEF ListsOpen, Building
  <2>8. Outside'
    BY <1>0, <2>1 DEF FormInv, Outside, formVars
  <2> QED BY <2>1, <2>2, <2>5, <2>6, <2>7, <2>8, Deleted, TablesStay DEF FormInv
<1>3. CASE stack = <<>>
  <2>1. cJSON_Delete(root) /\ root' = NULL /\ pc' = "parsed" /\ UNCHANGED stack
    BY <1>3 DEF Fail
  <2>2. nodes' = Without(nodes, Reached(nodes, root))
    BY <2>1, Deleted
  <2>3. Hung(nodes', NULL, <<>>)
    BY <1>1, <1>3, <2>2, HungGone
  <2>4. Typed'
    BY <1>1, <2>1, Deleted DEF Typed, NULL
  <2>5. ListsOpen'
    BY <1>3, <2>1 DEF ListsOpen, Building
  <2>6. Outside'
    BY <1>0, <2>1 DEF FormInv, Outside, formVars
  <2> QED BY <1>3, <2>1, <2>3, <2>4, <2>5, <2>6, Deleted, TablesStay DEF FormInv
<1> QED BY <1>2, <1>3

(* The root is a heap of its own. *)
LEMMA HungRoot ==
  ASSUME NEW h, NEW n, NEW g, Hung(h, NULL, <<>>), n \notin DOMAIN h, n # NULL,
         g = Grown(h, n, Zeroed)
  PROVE  Hung(g, n, <<>>) /\ Open(g, n, <<>>)
<1>1. <<>> \in Seq(Frame) /\ Len(<<>>) = 0
  OBVIOUS
<1>2. PICK start : start = Starts(NULL, <<>>)
  OBVIOUS
<1>3. PICK begin : begin = Starts(n, <<>>)
  OBVIOUS
<1>4. start[0] = NULL /\ begin[0] = n
  BY <1>1, <1>2, <1>3, StartsAre
<1>5. IsHeap(h) /\ Shape(h, 0, start)
  BY <1>1, <1>2 DEF Hung
<1>6. g = [x \in DOMAIN h \cup {n} |-> IF x = n THEN Zeroed ELSE h[x]]
  BY DEF Grown
<1>7. /\ DOMAIN g = DOMAIN h \cup {n} /\ g[n] = Zeroed /\ \A m \in DOMAIN h : g[m] = h[m]
  BY <1>6
<1>8. g[n].next = NULL /\ g[n].prev = NULL /\ g[n].child = NULL
  BY <1>7 DEF Zeroed
<1>9. \A m \in DOMAIN h : g[m].next = h[m].next /\ g[m].prev = h[m].prev /\ g[m].child = h[m].child
  BY <1>7
<1>10. LastGrows(h, 0, start, n, g, begin)
  <2>1. \A k \in 0 .. 0 - 1 : begin[k] = start[k]
    OBVIOUS
  <2> QED BY <1>4, <1>5, <1>7, <1>8, <1>9, <2>1, ShapeFirst
<1>11. Hung(g, n, <<>>)
  BY <1>1, <1>3, <1>10 DEF LastGrows, Hung
<1>12. Open(g, n, <<>>)
  BY <1>1, <1>7 DEF Open
<1> QED BY <1>11, <1>12

(* The parser begins, with the root's item if there is memory for it.       *)
LEMMA cJSON_ParseStep ==
  ASSUME FormInv, cJSON_Parse, UNCHANGED formVars
  PROVE  FormInv'
<1>0. /\ pc = "parse" /\ UNCHANGED <<text, strings, formVars>> /\ depth' = 0 /\ stack' = <<>> /\ stack = <<>>
      /\ root = NULL /\ message = NULL
  BY DEF cJSON_Parse, FormInv, ListsOpen, Outside, Building
<1>1. Hung(nodes, NULL, <<>>) /\ Owned(nodes, strings) /\ IsFiniteSet(DOMAIN nodes)
      /\ nodes \in [DOMAIN nodes -> Fields]
  BY <1>0 DEF FormInv, Typed, Hung, IsHeap
<1>2. at' \in 1 .. Len(text') + 1 /\ depth' \in 0 .. NestingLimit /\ text' \in Texts \cup {<<>>}
  <2>1. at' = IF text # <<>> /\ text[1] = "bom" THEN 2 ELSE 1
    BY DEF cJSON_Parse
  <2>2. text \in Seq(Strings \cup Marks)
    <3>1. <<>> \in Seq(Strings \cup Marks)
      OBVIOUS
    <3> QED BY <3>1, FormAssumption DEF FormInv, Typed
  <2>3. text # <<>> => Len(text) >= 1
    BY <2>2
  <2>4. at' \in 1 .. Len(text) + 1
    BY <2>1, <2>2, <2>3
  <2> QED BY <1>0, <2>4, FormAssumption DEF FormInv, Typed
<1>3. stack' \in Seq(Frame) /\ Len(stack') = 0
  BY <1>0
<1>4. CASE root' = NULL /\ starved' = TRUE /\ pc' = "parsed" /\ UNCHANGED nodes
  <2>1. Typed'
    BY <1>0, <1>2, <1>3, <1>4 DEF FormInv, Typed, NULL
  <2>2. ListsOpen' /\ Outside'
    BY <1>0, <1>4 DEF ListsOpen, Outside, Building, formVars
  <2>3. Hung(nodes, root, stack)' /\ Owned(nodes, strings)'
    BY <1>0, <1>1, <1>4
  <2> QED BY <1>0, <2>1, <2>2, <2>3, TablesStay DEF FormInv
<1>5. CASE /\ root' = Fresh(nodes) /\ nodes' = Grown(nodes, Fresh(nodes), Zeroed)
           /\ starved' = FALSE /\ pc' = "value"
  <2>1. PICK n : n = Fresh(nodes)
    OBVIOUS
  <2>2. n \in Nat /\ n # NULL /\ n \notin DOMAIN nodes
    BY <1>1, <2>1, FreshIs
  <2>3. nodes' = Grown(nodes, n, Zeroed) /\ root' = n
    BY <1>5, <2>1
  <2>4. Hung(nodes', n, <<>>) /\ Open(nodes', n, <<>>)
    BY ONLY <1>1, <2>2, <2>3, HungRoot
  <2>5. Zeroed \in Fields
    <3>1. NULL \in Nat
      BY DEF NULL
    <3> QED BY <3>1 DEF Zeroed, Fields, Kinds
  <2>6. /\ DOMAIN nodes' = DOMAIN nodes \cup {n} /\ nodes' \in [DOMAIN nodes' -> Fields]
        /\ nodes'[n] = Zeroed /\ \A m \in DOMAIN nodes : nodes'[m] = nodes[m]
    <3>1. nodes' = [x \in DOMAIN nodes \cup {n} |-> IF x = n THEN Zeroed ELSE nodes[x]]
      BY <2>3 DEF Grown
    <3> QED BY <1>1, <2>2, <2>5, <3>1
  <2>7. /\ nodes'[n].child = NULL /\ nodes'[n].string = NULL /\ nodes'[n].valuestring = NULL
    BY <2>6 DEF Zeroed
  <2>8. Owned(nodes', strings)
    <3>1. \A m \in DOMAIN nodes : nodes'[m].string = nodes[m].string /\ nodes'[m].valuestring = nodes[m].valuestring
      BY <2>6
    <3> QED BY ONLY <1>1, <2>2, <2>6, <2>7, <3>1, OwnedGrown
  <2>9. Typed'
    BY <1>0, <1>2, <1>3, <1>5, <2>2, <2>3, <2>6 DEF FormInv, Typed
  <2>10. Item' = n
    BY <1>0, <2>3 DEF Item
  <2>11. ListsOpen'
    BY <1>0, <1>3, <1>5, <2>3, <2>4, <2>6, <2>7, <2>10 DEF ListsOpen, Building
  <2>12. Outside'
    BY <1>0, <1>5 DEF Outside, formVars
  <2> QED BY <1>0, <2>3, <2>4, <2>8, <2>9, <2>11, <2>12, TablesStay DEF FormInv
<1> QED BY <1>4, <1>5 DEF cJSON_Parse

(* Every step of the parser keeps the invariant.                            *)
LEMMA ParseSteps ==
  ASSUME FormInv, ParseStep
  PROVE  FormInv'
<1> USE DEF ParseStep
<1>1. CASE cJSON_Parse
  BY <1>1, cJSON_ParseStep
<1>2. CASE ParseLiteral
  BY <1>2, ParseLiteralStep
<1>3. CASE ParseNumber
  BY <1>3, ParseNumberStep
<1>4. CASE ParseString
  BY <1>4, ParseStringStep
<1>5. CASE OpenList
  BY <1>5, OpenListStep
<1>6. CASE NoValue
  BY <1>6, NoValueStep
<1>7. CASE NextItem
  BY <1>7, NextItemStep
<1>8. CASE ParseName
  BY <1>8, ParseNameStep
<1>9. CASE ParseColon
  BY <1>9, ParseColonStep
<1>10. CASE CloseList
  BY <1>10, CloseListStep
<1>11. CASE NoSeparator
  BY <1>11, NoSeparatorStep
<1>12. CASE Fail
  BY <1>12, FailStep
<1>13. CASE Succeed
  BY <1>13, SucceedStep
<1> QED BY <1>1, <1>2, <1>3, <1>4, <1>5, <1>6, <1>7, <1>8, <1>9, <1>10, <1>11, <1>12, <1>13 DEF Parse

(* Before the parser: the request comes, or there is none that could be     *)
(* parsed.                                                                  *)
LEMMA ReceiveSteps ==
  ASSUME FormInv, Receive \/ ReceiveNone \/ ReceiveBad
  PROVE  FormInv'
<1>0. /\ pc = "idle" /\ stack = <<>> /\ root = NULL /\ at = 1 /\ message = NULL /\ text = <<>>
      /\ depth \in 0 .. NestingLimit /\ starved \in BOOLEAN
  BY DEF Receive, ReceiveNone, ReceiveBad, FormInv, Typed, ListsOpen, Outside, Building
<1>1. UNCHANGED <<at, depth, stack, nodes, strings, root, starved, ram, flash, before, valid_json>>
  BY DEF Receive, ReceiveNone, ReceiveBad, parserVars, formVars
<1>2. /\ text' \in Texts \cup {<<>>} /\ pc' \in {"parse", "answered"}
      /\ message' \in {NULL, Block} /\ (message' # NULL => pc' = "answered" /\ text' = <<>>)
      /\ (pc' = "parse" => message' = NULL)
  BY <1>0 DEF Receive, ReceiveNone, ReceiveBad, formVars
<1>3. response_status' \in {"none", "ok", "bad request"}
  BY DEF Receive, ReceiveNone, ReceiveBad, formVars, FormInv, Tables
<1>4. at' \in 1 .. Len(text') + 1
  <2>1. text' \in Seq(Strings \cup Marks)
    <3>1. <<>> \in Seq(Strings \cup Marks)
      OBVIOUS
    <3> QED BY <1>2, <3>1, FormAssumption
  <2> QED BY <1>0, <1>1, <2>1
<1>5. Tables'
  BY <1>1, <1>2, <1>3 DEF FormInv, Tables
<1>6. ListsOpen'
  BY <1>0, <1>1, <1>2 DEF ListsOpen, Building
<1>7. Outside'
  BY <1>0, <1>1, <1>2 DEF Outside
<1> QED BY <1>0, <1>1, <1>2, <1>4, <1>5, <1>6, <1>7, QuietStep

(* The loop over the items of the form. *)
LEMMA LoopSteps ==
  ASSUME FormInv, NotJson \/ FirstItem \/ NextOfForm
  PROVE  FormInv'
<1>0. /\ pc \in {"parsed", "items"} /\ stack = <<>> /\ message = NULL
  BY DEF NotJson, FirstItem, NextOfForm, FormInv, ListsOpen, Outside, Building
<1>1. UNCHANGED <<text, at, depth, stack, nodes, strings, root, starved, flash, before, message>>
  BY DEF NotJson, FirstItem, NextOfForm, parserVars
<1>2. pc' \in {"items", "answered"} /\ (pc' = "answered" => root = NULL)
  BY DEF NotJson, FirstItem, NextOfForm
<1>3. Tables'
  <2>1. CASE NotJson \/ FirstItem
    BY <1>1, <2>1 DEF NotJson, FirstItem, FormInv, Tables
  <2>2. CASE NextOfForm
    <3>1. DOMAIN ram' = DOMAIN ram
      <4>1. \A table, key, value : DOMAIN Put(table, key, value) = DOMAIN table
        BY DEF Put
      <4> QED BY <2>2, <4>1 DEF NextOfForm, PutItem
    <3>2. /\ valid_json' \in BOOLEAN /\ response_status' \in {"none", "ok", "bad request"}
      BY <2>2 DEF NextOfForm, PutItem, FormInv, Tables
    <3> QED BY <1>1, <3>1, <3>2 DEF FormInv, Tables
  <2> QED BY <2>1, <2>2
<1>4. ListsOpen' /\ Outside'
  BY <1>0, <1>1, <1>2 DEF ListsOpen, Outside, Building
<1>5. /\ text' \in Texts \cup {<<>>} /\ at' \in 1 .. Len(text') + 1 /\ depth' \in 0 .. NestingLimit
      /\ starved' \in BOOLEAN
  BY <1>1 DEF FormInv, Typed
<1> QED BY <1>1, <1>3, <1>4, <1>5, QuietStep

(* The tree is freed. *)
LEMMA EndOfFormStep ==
  ASSUME FormInv, EndOfForm
  PROVE  FormInv'
<1>0. /\ pc = "items" /\ pc' = "answered" /\ stack = <<>> /\ message = NULL /\ root' = NULL
      /\ UNCHANGED <<text, at, depth, stack, starved, valid_json, before, message>> /\ cJSON_Delete(root)
  BY DEF EndOfForm, FormInv, ListsOpen, Outside, Building
<1>1. Hung(nodes', NULL, <<>>)
  <2>1. nodes' = Without(nodes, Reached(nodes, root))
    BY <1>0, Deleted
  <2>2. Hung(nodes, root, <<>>)
    BY <1>0 DEF FormInv
  <2> QED BY <2>1, <2>2, HungGone
<1>2. Typed'
  BY <1>0, Deleted DEF FormInv, Typed, NULL
<1>3. ListsOpen' /\ Outside'
  BY <1>0 DEF ListsOpen, Outside, Building
<1>4. Tables'
  <2>1. DOMAIN ram' = DOMAIN ram
    <3>1. \A table, key, value : DOMAIN Put(table, key, value) = DOMAIN table
      BY DEF Put
    <3> QED BY <3>1 DEF EndOfForm
  <2>2. flash' = ram' \/ flash' = flash
    BY DEF EndOfForm, SavedAs
  <2>3. response_status' \in {"none", "ok", "bad request"}
    BY DEF EndOfForm, SavedAs, FormInv, Tables
  <2> QED BY <1>0, <2>1, <2>2, <2>3 DEF FormInv, Tables
<1> QED BY <1>0, <1>1, <1>2, <1>3, <1>4, Deleted DEF FormInv
-----------------------------------------------------------------------------
(* The invariant holds at first: there is no tree.                          *)
LEMMA FormInit == Init => FormInv
<1> SUFFICES ASSUME Init PROVE FormInv
  OBVIOUS
<1> USE DEF Init
<1>1. DOMAIN nodes = {} /\ DOMAIN strings = {} /\ Len(stack) = 0
  OBVIOUS
<1>2. Hung(nodes, root, stack)
  <2>1. stack \in Seq(Frame)
    OBVIOUS
  <2>2. Starts(root, stack)[0] = NULL
    BY <2>1, StartsAre
  <2> QED BY <1>1, <2>2, ShapeOfNone DEF Hung
<1>3. Owned(nodes, strings)
  BY <1>1 DEF Owned
<1>4. Typed
  <2>1. nodes \in [DOMAIN nodes -> Fields] /\ strings \in [DOMAIN strings -> Strings]
    BY <1>1
  <2>2. IsFiniteSet(DOMAIN strings)
    BY <1>1, FS_EmptySet
  <2>3. at \in 1 .. Len(text) + 1
    OBVIOUS
  <2>4. stack \in Seq(Frame)
    OBVIOUS
  <2>5. root \in Nat /\ starved \in BOOLEAN
    BY DEF NULL
  <2>6. text \in Texts \cup {<<>>} /\ depth \in 0 .. NestingLimit
    BY FormAssumption
  <2> QED BY ONLY <2>1, <2>2, <2>3, <2>4, <2>5, <2>6 DEF Typed
<1>5. ListsOpen /\ Outside
  BY DEF ListsOpen, Outside, Building
<1>6. Tables
  BY FormAssumption DEF Tables
<1> QED BY <1>2, <1>3, <1>4, <1>5, <1>6 DEF FormInv

(* Every step of parser and handler keeps the invariant.                    *)
LEMMA FormStep == FormInv /\ [Next]_vars => FormInv'
<1> SUFFICES ASSUME FormInv, [Next]_vars PROVE FormInv'
  OBVIOUS
<1>1. CASE ParseStep
  BY <1>1, ParseSteps
<1>2. CASE Receive \/ ReceiveNone \/ ReceiveBad
  BY <1>2, ReceiveSteps
<1>3. CASE NotJson \/ FirstItem \/ NextOfForm
  BY <1>3, LoopSteps
<1>4. CASE EndOfForm
  BY <1>4, EndOfFormStep
<1>5. CASE UNCHANGED vars
  BY <1>5 DEF vars, parserVars, formVars, FormInv, Typed, ListsOpen, Outside, Tables, Item
<1> QED BY <1>1, <1>2, <1>3, <1>4, <1>5 DEF Next, Handle

(* The invariant says that everything is owned.                             *)
LEMMA InvAllOwned == FormInv => AllOwned
<1> SUFFICES ASSUME FormInv PROVE AllOwned
  OBVIOUS
<1> DEFINE starts == {root} \cup {stack[k].head : k \in DOMAIN stack}
           owned == UNION {Reached(nodes, n) : n \in starts}
<1>1. /\ stack \in Seq(Frame) /\ IsHeap(nodes) /\ Shape(nodes, Len(stack), Starts(root, stack))
      /\ Owned(nodes, strings)
  BY DEF FormInv, Typed, Hung
<1>2. Starts(root, stack)[0] = root /\ \A k \in 1 .. Len(stack) : Starts(root, stack)[k] = stack[k].head
  BY <1>1, StartsAre
<1>3. DOMAIN stack = 1 .. Len(stack) /\ Len(stack) \in Nat
  BY <1>1
<1>4. owned = DOMAIN nodes
  <2>1. owned \subseteq DOMAIN nodes
    BY <1>1, Reaches
  <2>2. ASSUME NEW n \in DOMAIN nodes PROVE n \in owned
    <3>1. PICK k \in 0 .. Len(stack) : n \in Reached(nodes, Starts(root, stack)[k])
      BY <1>1 DEF Shape
    <3>2. k = 0 \/ k \in 1 .. Len(stack)
      BY <1>3
    <3>3. Starts(root, stack)[k] \in starts
      BY <1>2, <1>3, <3>2
    <3> QED BY <3>1, <3>3
  <2> QED BY <2>1, <2>2
<1>5. StringsOf(DOMAIN nodes) \ {NULL} = DOMAIN strings
  <2>1. \A s : s \in StringsOf(DOMAIN nodes) <=> \E n \in DOMAIN nodes : s \in StringsIn(nodes, n)
    BY DEF StringsIn, StringsOf
  <2>2. \A s \in DOMAIN strings : s # NULL /\ \E n \in DOMAIN nodes : s \in StringsIn(nodes, n)
    BY <1>1 DEF Owned
  <2>3. \A n \in DOMAIN nodes : StringsIn(nodes, n) \subseteq DOMAIN strings \cup {NULL}
    BY <1>1 DEF Owned
  <2> QED BY <2>1, <2>2, <2>3
<1>6. \A m, n \in DOMAIN nodes : m # n => StringsOf({m}) \cap StringsOf({n}) \subseteq {NULL}
  <2>1. \A n \in DOMAIN nodes : StringsOf({n}) = StringsIn(nodes, n)
    BY DEF StringsIn, StringsOf
  <2> QED BY <1>1, <2>1 DEF Owned
<1>7. \A n \in DOMAIN nodes :
        {nodes[n].next, nodes[n].prev, nodes[n].child} \subseteq DOMAIN nodes \cup {NULL}
  <2> SUFFICES ASSUME NEW n \in DOMAIN nodes PROVE Links(nodes, n) \subseteq DOMAIN nodes \cup {NULL}
    BY DEF Links
  <2>1. PICK k \in 0 .. Len(stack) : n \in Reached(nodes, Starts(root, stack)[k])
    BY <1>1 DEF Shape
  <2>2. PICK x : x = Starts(root, stack)[k]
    OBVIOUS
  <2>3. Links(nodes, n) \subseteq Reached(nodes, x) \cup {NULL}
    BY <1>1, <2>1, <2>2 DEF Shape
  <2> QED BY <1>1, <2>3, Reaches
<1>8. pc = "answered" => nodes = <<>> /\ (message # NULL => text = <<>>)
  <2> SUFFICES ASSUME pc = "answered" PROVE nodes = <<>> /\ (message # NULL => text = <<>>)
    OBVIOUS
  <2>1. stack = <<>> /\ root = NULL
    BY DEF FormInv, ListsOpen, Outside, Building
  <2>2. DOMAIN nodes = {}
    <3>1. \A n \in starts : n = NULL
      BY <1>3, <2>1
    <3>2. Reached(nodes, NULL) = {}
      BY <1>1, Reaches DEF IsHeap
    <3> QED BY <1>4, <3>1, <3>2
  <2>3. nodes = <<>>
    <3>1. nodes \in [DOMAIN nodes -> Fields]
      BY DEF FormInv, Typed
    <3>2. nodes = [n \in {} |-> nodes[n]]
      BY <2>2, <3>1
    <3> QED BY <3>2
  <2> QED BY <2>3 DEF FormInv, Outside
<1> HIDE DEF owned, starts
<1> QED BY <1>4, <1>5, <1>6, <1>7, <1>8 DEF AllOwned, owned, starts

(* Type correctness of the form handler and its parser: the place in the    *)
(* text is never more than one past its end, the nesting counter stays in   *)
(* 0 .. NestingLimit, and the tables keep their keys (cJSON.c:1342-1396,    *)
(* 1500-1760, mngr_httpd.c:262-386).                                        *)
THEOREM FormTypeCorrect == Spec => []FormTypeOK
<1>1. FormInv => FormTypeOK
  BY DEF FormInv, Typed, Tables, FormTypeOK, Zeroed, Fields
<1> QED BY <1>1, FormInit, FormStep, PTL DEF Spec

(* Wherever the parser is, also when an allocation has just failed, each    *)
(* item hangs from the root or from exactly one open list and each string   *)
(* belongs to exactly one item, so that cJSON_Delete frees all of it and    *)
(* nothing twice; after the answer nothing is left (cJSON.c:254-278,        *)
(* 1547-1553, 1728-1734, mngr_httpd.c:291-294, 372).                        *)
THEOREM EverythingIsOwned == Spec => []AllOwned
BY FormInit, FormStep, InvAllOwned, PTL DEF Spec
-----------------------------------------------------------------------------
(* What four hex digits can say. *)
Units == {unit \in Nat : unit < Supplementary}

(* Four digits make a number below 65536. *)
LEMMA FourDigits ==
  ASSUME NEW a \in 0 .. 15, NEW b \in 0 .. 15, NEW c \in 0 .. 15, NEW d \in 0 .. 15,
         NEW h, h = 16 * (16 * (16 * a + b) + c) + d
  PROVE  h \in Units
<1>1. 16 * (16 * (16 * a + b) + c) + d < 256 * 256
  OBVIOUS
<1>2. 16 * (16 * (16 * a + b) + c) + d \in Nat
  OBVIOUS
<1> QED BY <1>1, <1>2 DEF Units, Supplementary

(* parse_hex4 returns 16 bits (cJSON.c:634-668). *)
LEMMA HexIs ==
  ASSUME NEW s, NEW i \in Int
  PROVE  parse_hex4(s, i) \in Units
<1>1. \A c : HexDigit(c) \in -1 .. 15
  <2> SUFFICES ASSUME NEW c PROVE HexDigit(c) \in -1 .. 15
    OBVIOUS
  <2>1. CASE c \in 48 .. 57
    BY <2>1 DEF HexDigit
  <2>2. CASE c \in 65 .. 70
    BY <2>2 DEF HexDigit
  <2>3. CASE c \in 97 .. 102
    BY <2>3 DEF HexDigit
  <2>4. CASE ~(c \in 48 .. 57) /\ ~(c \in 65 .. 70) /\ ~(c \in 97 .. 102)
    BY <2>4 DEF HexDigit
  <2> QED BY <2>1, <2>2, <2>3, <2>4
<1>2. CASE AllHex(s, i)
  <2>1. i \in i .. i + 3 /\ i + 1 \in i .. i + 3 /\ i + 2 \in i .. i + 3 /\ i + 3 \in i .. i + 3
    OBVIOUS
  <2>2. \A k \in i .. i + 3 : HexDigit(s[k]) \in 0 .. 15
    BY <1>1, <1>2 DEF AllHex
  <2>3. PICK a \in 0 .. 15 : a = HexDigit(s[i])
    BY <2>1, <2>2
  <2>4. PICK b \in 0 .. 15 : b = HexDigit(s[i + 1])
    BY <2>1, <2>2
  <2>5. PICK c \in 0 .. 15 : c = HexDigit(s[i + 2])
    BY <2>1, <2>2
  <2>6. PICK d \in 0 .. 15 : d = HexDigit(s[i + 3])
    BY <2>1, <2>2
  <2>7. PICK h : h = parse_hex4(s, i)
    OBVIOUS
  <2>8. h = 16 * (16 * (16 * a + b) + c) + d
    BY <1>2, <2>3, <2>4, <2>5, <2>6, <2>7 DEF parse_hex4
  <2>9. h \in Units
    BY <2>8, FourDigits
  <2> QED BY <2>7, <2>9
<1>3. CASE ~AllHex(s, i)
  <2>1. parse_hex4(s, i) = 0
    BY <1>3 DEF parse_hex4
  <2> QED BY ONLY <2>1 DEF Units, Supplementary
<1> QED BY <1>2, <1>3

(* A piece takes so many characters that its output never has more bytes    *)
(* than half of them, but for one character as it is.                       *)
IsPiece(p, s, i, end) ==
  /\ p.length \in Nat /\ p.codes \in Seq(Nat) /\ p.size \in Nat
  /\ \/ p.length = 0
     \/ p.length = 1 /\ p.size = 1 /\ s[i] # Backslash
     \/ p.length = 2 /\ p.size = 1
     \/ p.length = 6 /\ p.size <= 3 /\ i + 6 <= end
     \/ p.length = 12 /\ p.size <= 4 /\ i + 12 <= end

(* The pieces that are one character or one escape. *)
LEMMA PlainIs ==
  ASSUME NEW s, NEW end, NEW i
  PROVE  /\ \A c \in Nat : IsPiece(Piece(2, c, 1), s, i, end)
         /\ \A c \in Nat : s[i] # Backslash => IsPiece(Piece(1, c, 1), s, i, end)
         /\ \A c \in Nat, z \in 1 .. 3 : i + 6 <= end => IsPiece(Piece(6, c, z), s, i, end)
         /\ \A c \in Nat, z \in 1 .. 4 : i + 12 <= end => IsPiece(Piece(12, c, z), s, i, end)
         /\ IsPiece(Failure, s, i, end)
<1>1. \A c \in Nat : <<c>> \in Seq(Nat)
  OBVIOUS
<1>2. <<>> \in Seq(Nat)
  OBVIOUS
<1>3. ASSUME NEW c \in Nat, NEW k \in Nat, NEW z \in Nat
      PROVE  /\ Piece(k, c, z).length = k /\ Piece(k, c, z).size = z
             /\ Piece(k, c, z).codes = <<c>> /\ Piece(k, c, z).codes \in Seq(Nat)
  BY <1>1 DEF Piece
<1>4. Failure.length = 0 /\ Failure.size = 0 /\ Failure.codes \in Seq(Nat)
  BY <1>2 DEF Failure
<1>5. 1 .. 3 \subseteq Nat /\ 1 .. 4 \subseteq Nat
  OBVIOUS
<1>6. IsPiece(Failure, s, i, end)
  BY ONLY <1>4 DEF IsPiece
<1>7. ASSUME NEW c \in Nat PROVE IsPiece(Piece(2, c, 1), s, i, end)
  BY ONLY <1>3, 2 \in Nat, 1 \in Nat DEF IsPiece
<1>8. ASSUME NEW c \in Nat, s[i] # Backslash PROVE IsPiece(Piece(1, c, 1), s, i, end)
  BY ONLY <1>8, <1>3, 1 \in Nat DEF IsPiece
<1>9. ASSUME NEW c \in Nat, NEW z \in 1 .. 3, i + 6 <= end PROVE IsPiece(Piece(6, c, z), s, i, end)
  <2>1. z \in Nat /\ z <= 3 /\ 6 \in Nat
    OBVIOUS
  <2>2. PICK p : p = Piece(6, c, z)
    OBVIOUS
  <2>3. p.length = 6 /\ p.size = z /\ p.codes \in Seq(Nat)
    BY <1>3, <2>1, <2>2
  <2>4. IsPiece(p, s, i, end)
    BY ONLY <2>1, <2>3, <1>9 DEF IsPiece
  <2> QED BY <2>2, <2>4
<1>10. ASSUME NEW c \in Nat, NEW z \in 1 .. 4, i + 12 <= end PROVE IsPiece(Piece(12, c, z), s, i, end)
  <2>1. z \in Nat /\ z <= 4 /\ 12 \in Nat
    OBVIOUS
  <2> QED BY ONLY <2>1, <1>10, <1>3 DEF IsPiece
<1> QED BY <1>6, <1>7, <1>8, <1>9, <1>10

(* Whatever bytes there are at a place, the piece is one of these. *)
LEMMA PieceIs ==
  ASSUME NEW s, NEW end \in Nat, NEW i \in Nat, s[i] \in Byte, s[i + 1] \in Byte
  PROVE  IsPiece(PieceAt(s, i, end), s, i, end)
<1>1. s[i] \in Nat /\ s[i + 1] \in Nat
  BY DEF Byte
<1>2. PICK first \in Units : first = parse_hex4(s, i + 2)
  BY HexIs
<1>3. PICK second \in Units : second = parse_hex4(s, i + 8)
  BY HexIs
<1>4. IsPiece(utf16_literal_to_utf8(s, i, end), s, i, end)
  <2>1. CASE utf16_literal_to_utf8(s, i, end) = Failure
    BY <2>1, PlainIs
  <2>2. CASE /\ utf16_literal_to_utf8(s, i, end) = Piece(6, first, Bytes(first))
             /\ ~(end - i < 6)
    <3>1. Bytes(first) \in 1 .. 3
      <4>1. first < Supplementary
        BY DEF Units
      <4> QED BY ONLY <4>1 DEF Bytes
    <3>2. i + 6 <= end /\ first \in Nat
      BY <2>2 DEF Units
    <3> QED BY ONLY <2>2, <3>1, <3>2, PlainIs
  <2>3. CASE /\ utf16_literal_to_utf8(s, i, end) = Pair(first, second)
             /\ ~(end - (i + 6) < 6) /\ HighHalf(first) /\ LowHalf(second)
    <3>1. PICK code \in Nat : code = Joined(first, second)
      <4>1. Supplementary \in Nat /\ first \in Nat /\ second \in Nat
        BY DEF Supplementary, Units
      <4>2. first % 1024 \in Nat /\ second % 1024 \in Nat
        BY <4>1
      <4>3. Joined(first, second) \in Nat
        BY <4>1, <4>2 DEF Joined
      <4> QED BY <4>3
    <3>2. Bytes(code) \in 1 .. 4
      BY DEF Bytes
    <3>3. Pair(first, second) = Piece(12, code, Bytes(code))
      BY <3>1 DEF Pair
    <3>4. i + 12 <= end
      BY <2>3
    <3> QED BY ONLY <2>3, <3>1, <3>2, <3>3, <3>4, PlainIs
  <2>4. \/ utf16_literal_to_utf8(s, i, end) = Failure
        \/ utf16_literal_to_utf8(s, i, end) = Piece(6, first, Bytes(first)) /\ ~(end - i < 6)
        \/ /\ utf16_literal_to_utf8(s, i, end) = Pair(first, second)
           /\ ~(end - (i + 6) < 6) /\ HighHalf(first) /\ LowHalf(second)
    BY ONLY <1>2, <1>3, Zenon DEF utf16_literal_to_utf8
  <2> QED BY ONLY <2>1, <2>2, <2>3, <2>4
<1>5. \/ \E c \in Nat : PieceAt(s, i, end) = Piece(2, c, 1)
      \/ s[i] # Backslash /\ PieceAt(s, i, end) = Piece(1, s[i], 1)
      \/ PieceAt(s, i, end) = utf16_literal_to_utf8(s, i, end)
      \/ PieceAt(s, i, end) = Failure
  BY <1>1 DEF PieceAt, Letters
<1> QED BY ONLY <1>1, <1>4, <1>5, PlainIs

(* The two passes as functions of the place they begin at. *)
EndsOf(s, f) ==
  [i \in 1 .. Len(s) + 2 |->
     IF i > Len(s) THEN NoQuote
     ELSE IF s[i] = Quote THEN i
     ELSE f[IF s[i] = Backslash THEN i + 2 ELSE i + 1]]
EndsFrom(s) == CHOOSE f : f = EndsOf(s, f)

SkippedOf(s, f) ==
  [i \in 1 .. Len(s) + 2 |->
     IF i > Len(s) THEN 0
     ELSE IF s[i] = Quote THEN 0
     ELSE IF s[i] = Backslash THEN 1 + f[i + 2] ELSE f[i + 1]]
SkippedFrom(s) == CHOOSE f : f = SkippedOf(s, f)

WrittenOf(s, end, f) ==
  [i \in 1 .. Len(s) + 2 |->
     IF i >= end THEN Written(TRUE, <<>>, 0)
     ELSE LET piece == PieceAt(s, i, end)
              rest == f[i + piece.length]
          IN  IF piece.length = 0 THEN Written(FALSE, <<>>, 0)
              ELSE Written(rest.ok, piece.codes \o rest.codes, piece.size + rest.size)]
WrittenFrom(s) == CHOOSE f : f = WrittenOf(s, Ends(s), f)

(* The search for the quote begins at the first place. *)
LEMMA EndsByPlace == ASSUME NEW s PROVE Ends(s) = EndsFrom(s)[1]
BY DEF Ends, EndsFrom, EndsOf

(* So does the count of the backslashes. *)
LEMMA SkippedByPlace == ASSUME NEW s PROVE Skipped(s) = SkippedFrom(s)[1]
BY DEF Skipped, SkippedFrom, SkippedOf

(* And the second pass, if there is a quote. *)
LEMMA WrittenByPlace == ASSUME NEW s, Ends(s) # NoQuote PROVE Unescape(s) = WrittenFrom(s)[1]
BY DEF Unescape, WrittenFrom, WrittenOf

(* The search is well defined: it only looks further on. *)
LEMMA EndsExists ==
  ASSUME NEW s, Len(s) \in Nat
  PROVE  EndsFrom(s) = EndsOf(s, EndsFrom(s))
<1>1. PICK n \in Nat : n = Len(s) + 2
  OBVIOUS
<1> DEFINE Next1(i) == IF s[i] = Backslash THEN i + 2 ELSE i + 1
           At(i, f) == IF i > Len(s) THEN NoQuote ELSE IF s[i] = Quote THEN i ELSE f[Next1(i)]
           step == [i \in 1 .. n |-> [f \in [1 .. n -> Nat] |-> At(i, f)]]
<1>2. ASSUME NEW i \in 1 .. n, i <= Len(s) PROVE Next1(i) \in i + 1 .. n
  BY <1>1, <1>2
<1> HIDE DEF Next1
<1>3. ASSUME NEW i \in 1 .. n, NEW f \in [1 .. n -> Nat] PROVE At(i, f) \in Nat
  <2>1. i <= Len(s) => Next1(i) \in 1 .. n
    BY <1>1, <1>2
  <2> QED BY <2>1 DEF NoQuote
<1>4. \A i \in 1 .. n, f \in [1 .. n -> Nat] : step[i][f] = At(i, f)
  OBVIOUS
<1>5. ASSUME NEW i \in 1 .. n, NEW f, NEW g, \A j \in i + 1 .. n : f[j] = g[j] PROVE At(i, f) = At(i, g)
  <2>1. CASE i <= Len(s)
    <3>1. f[Next1(i)] = g[Next1(i)]
      BY <1>2, <1>5, <2>1
    <3> QED BY <3>1
  <2>2. CASE ~(i <= Len(s))
    BY <1>1, <2>2
  <2> QED BY <2>1, <2>2
<1> HIDE DEF At
<1>6. step \in [1 .. n -> [[1 .. n -> Nat] -> Nat]]
  BY <1>3
<1> HIDE DEF step
<1>7. LooksAhead(n, Nat, step)
  BY <1>4, <1>5 DEF LooksAhead
<1>8. Descents(n, Nat, step) # {}
  <2>1. 0 \in Nat
    OBVIOUS
  <2> QED BY <1>6, <1>7, <2>1, Backwards
<1>9. PICK f \in [1 .. n -> Nat] : \A i \in 1 .. n : f[i] = step[i][f]
  BY <1>8 DEF Descents
<1>10. f = EndsOf(s, f)
  <2>1. \A i \in 1 .. n : f[i] = At(i, f)
    BY <1>4, <1>9
  <2>2. f = [i \in 1 .. n |-> At(i, f)]
    BY <2>1
  <2> QED BY <1>1, <2>2 DEF EndsOf, At, Next1
<1> QED BY <1>10 DEF EndsFrom

(* So is the count. *)
LEMMA SkippedExists ==
  ASSUME NEW s, Len(s) \in Nat
  PROVE  SkippedFrom(s) = SkippedOf(s, SkippedFrom(s))
<1>1. PICK n \in Nat : n = Len(s) + 2
  OBVIOUS
<1> DEFINE At(i, f) == IF i > Len(s) THEN 0
                       ELSE IF s[i] = Quote THEN 0
                       ELSE IF s[i] = Backslash THEN 1 + f[i + 2] ELSE f[i + 1]
           step == [i \in 1 .. n |-> [f \in [1 .. n -> Nat] |-> At(i, f)]]
<1>2. ASSUME NEW i \in 1 .. n, i <= Len(s) PROVE i + 1 \in i + 1 .. n /\ i + 2 \in i + 1 .. n
  BY <1>1, <1>2
<1>3. ASSUME NEW i \in 1 .. n, NEW f \in [1 .. n -> Nat] PROVE At(i, f) \in Nat
  <2>1. i <= Len(s) => i + 1 \in 1 .. n /\ i + 2 \in 1 .. n
    BY <1>1, <1>2
  <2>2. i <= Len(s) => f[i + 1] \in Nat /\ f[i + 2] \in Nat
    BY <2>1
  <2> QED BY <2>2
<1>4. \A i \in 1 .. n, f \in [1 .. n -> Nat] : step[i][f] = At(i, f)
  OBVIOUS
<1>5. ASSUME NEW i \in 1 .. n, NEW f, NEW g, \A j \in i + 1 .. n : f[j] = g[j] PROVE At(i, f) = At(i, g)
  <2>1. CASE i <= Len(s)
    <3>1. f[i + 1] = g[i + 1] /\ f[i + 2] = g[i + 2]
      BY <1>2, <1>5, <2>1
    <3> QED BY <3>1
  <2>2. CASE ~(i <= Len(s))
    BY <1>1, <2>2
  <2> QED BY <2>1, <2>2
<1> HIDE DEF At
<1>6. step \in [1 .. n -> [[1 .. n -> Nat] -> Nat]]
  BY <1>3
<1> HIDE DEF step
<1>7. LooksAhead(n, Nat, step)
  BY <1>4, <1>5 DEF LooksAhead
<1>8. Descents(n, Nat, step) # {}
  <2>1. 0 \in Nat
    OBVIOUS
  <2> QED BY <1>6, <1>7, <2>1, Backwards
<1>9. PICK f \in [1 .. n -> Nat] : \A i \in 1 .. n : f[i] = step[i][f]
  BY <1>8 DEF Descents
<1>10. f = SkippedOf(s, f)
  <2>1. \A i \in 1 .. n : f[i] = At(i, f)
    BY <1>4, <1>9
  <2>2. f = [i \in 1 .. n |-> At(i, f)]
    BY <2>1
  <2> QED BY <1>1, <2>2 DEF SkippedOf, At
<1> QED BY <1>10 DEF SkippedFrom

(* The first pass, place by place. *)
FirstPass(s, en, sk) ==
  \A i \in 1 .. Len(s) + 2 :
    /\ i > Len(s) => en[i] = NoQuote /\ sk[i] = 0
    /\ i <= Len(s) /\ s[i] = Quote => en[i] = i /\ sk[i] = 0
    /\ i <= Len(s) /\ s[i] = Backslash => en[i] = en[i + 2] /\ sk[i] = 1 + sk[i + 2]
    /\ i <= Len(s) /\ s[i] \notin {Quote, Backslash} => en[i] = en[i + 1] /\ sk[i] = sk[i + 1]

(* The two are a first pass over the text. *)
LEMMA FirstPassIs ==
  ASSUME NEW s, Len(s) \in Nat
  PROVE  FirstPass(s, EndsFrom(s), SkippedFrom(s))
<1>1. PICK en : en = EndsFrom(s)
  OBVIOUS
<1>2. PICK sk : sk = SkippedFrom(s)
  OBVIOUS
<1>3. en = EndsOf(s, en) /\ sk = SkippedOf(s, sk)
  BY <1>1, <1>2, EndsExists, SkippedExists
<1>4. Quote # Backslash
  BY DEF Quote, Backslash
<1>5. ASSUME NEW i \in 1 .. Len(s) + 2
      PROVE  en[i] = IF i > Len(s) THEN NoQuote
                     ELSE IF s[i] = Quote THEN i
                     ELSE en[IF s[i] = Backslash THEN i + 2 ELSE i + 1]
  BY <1>3 DEF EndsOf
<1>6. ASSUME NEW i \in 1 .. Len(s) + 2
      PROVE  sk[i] = IF i > Len(s) THEN 0
                     ELSE IF s[i] = Quote THEN 0
                     ELSE IF s[i] = Backslash THEN 1 + sk[i + 2] ELSE sk[i + 1]
  BY <1>3 DEF SkippedOf
<1>7. ASSUME NEW i \in 1 .. Len(s) + 2
      PROVE  /\ i > Len(s) => en[i] = NoQuote /\ sk[i] = 0
             /\ i <= Len(s) /\ s[i] = Quote => en[i] = i /\ sk[i] = 0
             /\ i <= Len(s) /\ s[i] = Backslash => en[i] = en[i + 2] /\ sk[i] = 1 + sk[i + 2]
             /\ i <= Len(s) /\ s[i] \notin {Quote, Backslash} => en[i] = en[i + 1] /\ sk[i] = sk[i + 1]
  <2>1. CASE i > Len(s)
    BY <1>5, <1>6, <2>1
  <2>2. CASE i <= Len(s)
    <3>1. ~(i > Len(s))
      BY <2>2
    <3> QED BY <1>4, <1>5, <1>6, <3>1
  <2> QED BY <2>1, <2>2
<1> QED BY <1>1, <1>2, <1>7 DEF FirstPass

(* The search ends at a quote of the text, or at none. *)
LEMMA EndsAtQuote ==
  ASSUME NEW s, Len(s) \in Nat, NEW en, NEW sk, FirstPass(s, en, sk),
         NEW i \in 1 .. Len(s) + 2
  PROVE  /\ sk[i] \in Nat
         /\ en[i] # NoQuote => en[i] \in i .. Len(s) /\ s[en[i]] = Quote
<1>1. PICK n \in Nat : n = Len(s) + 2
  OBVIOUS
<1> DEFINE P(j) == sk[j] \in Nat /\ (en[j] # NoQuote => en[j] \in j .. Len(s) /\ s[en[j]] = Quote)
           T == {m \in 0 .. n : \A j \in 1 .. n : j > n - m => P(j)}
<1> HIDE DEF P
<1>2. 0 \in T
  OBVIOUS
<1>3. ASSUME NEW m \in 1 .. n, m - 1 \in T PROVE m \in T
  <2>1. PICK k \in 1 .. n : k = n - m + 1
    OBVIOUS
  <2>2. \A j \in k + 1 .. n : P(j)
    BY <1>3, <2>1
  <2>3. P(k)
    <3>1. CASE k > Len(s)
      BY <1>1, <3>1 DEF P, FirstPass
    <3>2. CASE k <= Len(s) /\ s[k] = Quote
      BY <1>1, <3>2 DEF P, FirstPass
    <3>3. CASE k <= Len(s) /\ s[k] = Backslash
      <4>1. k + 2 \in k + 1 .. n
        BY <1>1, <3>3
      <4>2. P(k + 2)
        BY <2>2, <4>1
      <4>3. en[k] = en[k + 2] /\ sk[k] = 1 + sk[k + 2]
        BY <1>1, <3>3 DEF FirstPass
      <4>4. k + 2 .. Len(s) \subseteq k .. Len(s)
        OBVIOUS
      <4> QED BY <4>2, <4>3, <4>4 DEF P
    <3>4. CASE k <= Len(s) /\ s[k] \notin {Quote, Backslash}
      <4>1. k + 1 \in k + 1 .. n
        BY <1>1, <3>4
      <4>2. P(k + 1)
        BY <2>2, <4>1
      <4>3. en[k] = en[k + 1] /\ sk[k] = sk[k + 1]
        BY <1>1, <3>4 DEF FirstPass
      <4>4. k + 1 .. Len(s) \subseteq k .. Len(s)
        OBVIOUS
      <4> QED BY <4>2, <4>3, <4>4 DEF P
    <3> QED BY <3>1, <3>2, <3>3, <3>4
  <2>4. \A j \in 1 .. n : j > n - m => j = k \/ j \in k + 1 .. n
    BY <2>1
  <2>5. \A j \in 1 .. n : j > n - m => P(j)
    BY <2>2, <2>3, <2>4
  <2> QED BY <2>5
<1> HIDE DEF T
<1>4. 0 .. n \subseteq T
  BY <1>2, <1>3, UpTo
<1>5. n \in T
  BY <1>4
<1>6. i \in 1 .. n /\ i > n - n
  BY <1>1
<1>7. P(i)
  BY <1>5, <1>6 DEF T
<1> QED BY <1>7 DEF P

(* What the second pass has to show. *)
Outputs == [ok : BOOLEAN, codes : Seq(Nat), size : Nat]

(* The parts of an output. *)
LEMMA WrittenIsOutput ==
  ASSUME NEW ok \in BOOLEAN, NEW codes \in Seq(Nat), NEW size \in Nat, NEW w, w = Written(ok, codes, size)
  PROVE  w \in Outputs /\ w.size = size
BY DEF Written, Outputs

(* A place before the closing quote, and what can be read from there on. *)
QuotedAt(s, end) ==
  /\ Len(s) \in Nat /\ end \in 1 .. Len(s) /\ s[end] = Quote
  /\ \A i \in 1 .. Len(s) : s[i] \in Byte

(* No piece reaches further than two places past the text. *)
LEMMA PieceStays ==
  ASSUME NEW s, NEW end, QuotedAt(s, end), NEW i \in 1 .. Len(s) + 2, i < end,
         NEW p, p = PieceAt(s, i, end)
  PROVE  /\ IsPiece(p, s, i, end)
         /\ p.length # 0 => i + p.length \in i + 1 .. Len(s) + 2
<1>1. i \in Nat /\ end \in Nat /\ i \in 1 .. Len(s) /\ i + 1 \in 1 .. Len(s)
  BY DEF QuotedAt
<1>2. s[i] \in Byte /\ s[i + 1] \in Byte
  BY <1>1 DEF QuotedAt
<1>3. IsPiece(p, s, i, end)
  BY ONLY <1>1, <1>2, PieceIs, p = PieceAt(s, i, end)
<1>4. /\ p.length \in Nat
      /\ p.length \in {0, 1, 2} \/ (p.length = 6 /\ i + 6 <= end) \/ (p.length = 12 /\ i + 12 <= end)
  BY <1>3 DEF IsPiece
<1>5. p.length # 0 => i + p.length \in i + 1 .. Len(s) + 2
  BY <1>1, <1>4 DEF QuotedAt
<1> QED BY <1>3, <1>5

(* The second pass is well defined. *)
LEMMA WrittenExists ==
  ASSUME NEW s, NEW end, QuotedAt(s, end), end = Ends(s)
  PROVE  WrittenFrom(s) = WrittenOf(s, end, WrittenFrom(s))
<1>1. PICK n \in Nat : n = Len(s) + 2
  BY DEF QuotedAt
<1> DEFINE At(i, f) ==
             IF i >= end THEN Written(TRUE, <<>>, 0)
             ELSE IF PieceAt(s, i, end).length = 0 THEN Written(FALSE, <<>>, 0)
             ELSE Written(f[i + PieceAt(s, i, end).length].ok,
                          PieceAt(s, i, end).codes \o f[i + PieceAt(s, i, end).length].codes,
                          PieceAt(s, i, end).size + f[i + PieceAt(s, i, end).length].size)
           step == [i \in 1 .. n |-> [f \in [1 .. n -> Outputs] |-> At(i, f)]]
<1>0. Written(TRUE, <<>>, 0) \in Outputs /\ Written(FALSE, <<>>, 0) \in Outputs
  <2>1. <<>> \in Seq(Nat) /\ 0 \in Nat /\ TRUE \in BOOLEAN /\ FALSE \in BOOLEAN
    OBVIOUS
  <2> QED BY ONLY <2>1, WrittenIsOutput
<1>2. ASSUME NEW i \in 1 .. n, ~(i >= end), PieceAt(s, i, end).length # 0
      PROVE  /\ i + PieceAt(s, i, end).length \in i + 1 .. n
             /\ i + PieceAt(s, i, end).length \in 1 .. n
             /\ PieceAt(s, i, end).codes \in Seq(Nat) /\ PieceAt(s, i, end).size \in Nat
  <2>1. PICK p : p = PieceAt(s, i, end)
    OBVIOUS
  <2>2. i < end /\ i \in 1 .. Len(s) + 2 /\ i \in Nat
    BY <1>1, <1>2 DEF QuotedAt
  <2>3. IsPiece(p, s, i, end) /\ (p.length # 0 => i + p.length \in i + 1 .. Len(s) + 2)
    BY <2>1, <2>2, PieceStays
  <2>4. PICK k : k = i + p.length
    OBVIOUS
  <2>5. k \in i + 1 .. n
    BY <1>1, <1>2, <2>1, <2>3, <2>4
  <2>6. k \in 1 .. n
    BY <1>1, <2>2, <2>5
  <2> QED BY <2>1, <2>3, <2>4, <2>5, <2>6 DEF IsPiece
<1>3. ASSUME NEW i \in 1 .. n, NEW f \in [1 .. n -> Outputs] PROVE At(i, f) \in Outputs
  <2>1. CASE i >= end \/ PieceAt(s, i, end).length = 0
    BY <1>0, <2>1
  <2>2. CASE ~(i >= end) /\ PieceAt(s, i, end).length # 0
    <3>1. PICK p : p = PieceAt(s, i, end)
      OBVIOUS
    <3>2. PICK r \in Outputs : r = f[i + PieceAt(s, i, end).length]
      BY <1>2, <2>2
    <3>3. p.codes \in Seq(Nat) /\ p.size \in Nat
      BY <1>2, <2>2, <3>1
    <3>4. p.codes \o r.codes \in Seq(Nat) /\ p.size + r.size \in Nat /\ r.ok \in BOOLEAN
      BY <3>2, <3>3 DEF Outputs
    <3>5. At(i, f) = Written(r.ok, p.codes \o r.codes, p.size + r.size)
      BY <2>2, <3>1, <3>2
    <3>6. PICK c \in Seq(Nat), z \in Nat : c = p.codes \o r.codes /\ z = p.size + r.size
      BY <3>4
    <3>7. Written(r.ok, c, z) \in Outputs
      BY <3>4, WrittenIsOutput
    <3> HIDE DEF At
    <3> QED BY <3>5, <3>6, <3>7
  <2> QED BY <2>1, <2>2
<1>4. \A i \in 1 .. n, f \in [1 .. n -> Outputs] : step[i][f] = At(i, f)
  OBVIOUS
<1>5. ASSUME NEW i \in 1 .. n, NEW f, NEW g, \A j \in i + 1 .. n : f[j] = g[j] PROVE At(i, f) = At(i, g)
  <2>1. CASE i >= end \/ PieceAt(s, i, end).length = 0
    BY <2>1
  <2>2. CASE ~(i >= end) /\ PieceAt(s, i, end).length # 0
    <3>1. f[i + PieceAt(s, i, end).length] = g[i + PieceAt(s, i, end).length]
      BY <1>2, <1>5, <2>2
    <3> QED BY <3>1
  <2> QED BY <2>1, <2>2
<1> HIDE DEF At
<1>6. step \in [1 .. n -> [[1 .. n -> Outputs] -> Outputs]]
  BY <1>3
<1> HIDE DEF step
<1>7. LooksAhead(n, Outputs, step)
  BY <1>4, <1>5 DEF LooksAhead
<1>8. Descents(n, Outputs, step) # {}
  BY <1>0, <1>6, <1>7, Backwards
<1>9. PICK f \in [1 .. n -> Outputs] : \A i \in 1 .. n : f[i] = step[i][f]
  BY <1>8 DEF Descents
<1>10. f = WrittenOf(s, end, f)
  <2>1. \A i \in 1 .. n : f[i] = At(i, f)
    BY <1>4, <1>9
  <2>2. f = [i \in 1 .. n |-> At(i, f)]
    BY <2>1
  <2>3. WrittenOf(s, end, f) = [i \in 1 .. Len(s) + 2 |-> At(i, f)]
    BY DEF WrittenOf, At
  <2> QED BY <1>1, <2>2, <2>3
<1> QED BY <1>10 DEF WrittenFrom

(* The second pass, place by place. *)
SecondPass(s, end, wr) ==
  \A i \in 1 .. Len(s) + 2 :
    /\ i >= end => wr[i] = Written(TRUE, <<>>, 0)
    /\ i < end /\ PieceAt(s, i, end).length = 0 => wr[i] = Written(FALSE, <<>>, 0)
    /\ i < end /\ PieceAt(s, i, end).length # 0 =>
         LET piece == PieceAt(s, i, end)
             rest == wr[i + piece.length]
         IN  wr[i] = Written(rest.ok, piece.codes \o rest.codes, piece.size + rest.size)

(* It is a second pass, place by place. *)
LEMMA SecondPassIs ==
  ASSUME NEW s, NEW end, QuotedAt(s, end), end = Ends(s)
  PROVE  SecondPass(s, end, WrittenFrom(s))
<1>1. PICK wr : wr = WrittenFrom(s)
  OBVIOUS
<1>2. wr = WrittenOf(s, end, wr)
  BY <1>1, WrittenExists
<1>3. ASSUME NEW i \in 1 .. Len(s) + 2
      PROVE  wr[i] = IF i >= end THEN Written(TRUE, <<>>, 0)
                     ELSE LET piece == PieceAt(s, i, end)
                              rest == wr[i + piece.length]
                          IN  IF piece.length = 0 THEN Written(FALSE, <<>>, 0)
                              ELSE Written(rest.ok, piece.codes \o rest.codes, piece.size + rest.size)
  BY <1>2 DEF WrittenOf
<1>4. \A i \in 1 .. Len(s) + 2 : i < end <=> ~(i >= end)
  BY DEF QuotedAt
<1> QED BY <1>1, <1>3, <1>4 DEF SecondPass

(* What the buffer has left for the characters from a place on: one byte    *)
(* for each that the first pass did not skip, whether it came to this place *)
(* or jumped over it from the backslash before.                             *)
IsBudget(en, sk, end, i, b) ==
  \/ en[i] = end /\ b = end - i - sk[i]
  \/ i < end /\ en[i + 1] = end /\ b = end - i - sk[i + 1]

(* The text with its closing quote and the first pass over it. *)
Passed(s, end, en, sk) == QuotedAt(s, end) /\ FirstPass(s, en, sk)

(* A character as it is takes one byte of the budget. *)
LEMMA BudgetOfOne ==
  ASSUME NEW s, NEW end, NEW en, NEW sk, Passed(s, end, en, sk),
         NEW i \in 1 .. Len(s), i < end, NEW b \in Int, IsBudget(en, sk, end, i, b), s[i] # Backslash
  PROVE  IsBudget(en, sk, end, i + 1, b - 1)
<1>1. /\ Len(s) \in Nat /\ end \in 1 .. Len(s)
      /\ i \in 1 .. Len(s) + 2 /\ i + 1 \in 1 .. Len(s) + 2
  BY DEF Passed, QuotedAt
<1>2. sk[i] \in Nat /\ sk[i + 1] \in Nat
  BY <1>1, EndsAtQuote DEF Passed
<1>3. CASE en[i] = end /\ b = end - i - sk[i]
  <2>1. s[i] # Quote
    <3>1. s[i] = Quote => en[i] = i
      BY <1>1 DEF Passed, FirstPass
    <3> QED BY <1>1, <1>3, <3>1
  <2>2. en[i] = en[i + 1] /\ sk[i] = sk[i + 1]
    BY <1>1, <2>1 DEF Passed, FirstPass
  <2>3. b - 1 = end - (i + 1) - sk[i + 1]
    BY <1>1, <1>2, <1>3, <2>2
  <2> QED BY <1>3, <2>2, <2>3 DEF IsBudget
<1>4. CASE i < end /\ en[i + 1] = end /\ b = end - i - sk[i + 1]
  <2>1. b - 1 = end - (i + 1) - sk[i + 1]
    BY <1>1, <1>2, <1>4
  <2> QED BY <1>4, <2>1 DEF IsBudget
<1> QED BY <1>3, <1>4 DEF IsBudget

(* Of two characters one at most was skipped. *)
LEMMA BudgetOfTwo ==
  ASSUME NEW s, NEW end, NEW en, NEW sk, Passed(s, end, en, sk),
         NEW i \in 1 .. Len(s), i + 2 <= end, NEW b \in Int, IsBudget(en, sk, end, i, b)
  PROVE  \E d \in Int : d <= b - 1 /\ IsBudget(en, sk, end, i + 2, d)
<1>1. /\ Len(s) \in Nat /\ end \in 1 .. Len(s) /\ i < end
      /\ i + 1 \in 1 .. Len(s) /\ i + 2 \in 1 .. Len(s)
      /\ i \in 1 .. Len(s) + 2 /\ i + 1 \in 1 .. Len(s) + 2 /\ i + 2 \in 1 .. Len(s) + 2
  BY DEF Passed, QuotedAt
<1>2. sk[i] \in Nat /\ sk[i + 1] \in Nat /\ sk[i + 2] \in Nat
  BY <1>1, EndsAtQuote DEF Passed
<1>0. end \in Int
  BY <1>1
<1>3. end # NoQuote
  BY <1>1 DEF NoQuote
<1>4. ASSUME en[i + 1] = end, NEW c \in Int, c = end - (i + 1) - sk[i + 1], c <= b - 1,
             s[i + 1] # Backslash \/ c <= b - 1
      PROVE  \E d \in Int : d <= b - 1 /\ IsBudget(en, sk, end, i + 2, d)
  <2>1. s[i + 1] # Quote
    <3>1. s[i + 1] = Quote => en[i + 1] = i + 1
      BY <1>1 DEF Passed, FirstPass
    <3> QED BY <1>1, <1>4, <3>1
  <2>2. CASE s[i + 1] # Backslash
    <3>1. en[i + 1] = en[i + 2] /\ sk[i + 1] = sk[i + 2]
      <4>1. (i + 1) + 1 = i + 2
        BY <1>1
      <4> QED BY <1>1, <2>1, <2>2, <4>1 DEF Passed, FirstPass
    <3>2. PICK d \in Int : d = end - (i + 2) - sk[i + 2]
      BY <1>1, <1>2
    <3>3. d <= b - 1
      <4>1. PICK x \in Nat : x = sk[i + 2] /\ x = sk[i + 1]
        BY <1>2, <3>1
      <4>2. d = end - (i + 2) - x /\ c = end - (i + 1) - x
        BY <1>4, <3>2, <4>1
      <4> QED BY ONLY <4>2, <1>4, i \in Int, <1>0, x \in Int, c \in Int, d \in Int, b \in Int
    <3>4. IsBudget(en, sk, end, i + 2, d)
      BY <1>4, <3>1, <3>2 DEF IsBudget
    <3> QED BY <3>3, <3>4
  <2>3. CASE s[i + 1] = Backslash
    <3>1. PICK k \in Nat : k = i + 3 /\ k = (i + 1) + 2 /\ k = (i + 2) + 1 /\ k \in 1 .. Len(s) + 2
      BY <1>1
    <3>2. en[i + 1] = en[k] /\ sk[i + 1] = 1 + sk[k]
      BY <1>1, <2>3, <3>1 DEF Passed, FirstPass
    <3>3. sk[k] \in Nat /\ (en[k] # NoQuote => en[k] \in k .. Len(s))
      BY <1>1, <3>1, EndsAtQuote DEF Passed
    <3>4. k <= end
      <4>1. en[k] = end
        BY <1>4, <3>2
      <4> QED BY <1>1, <1>3, <3>3, <4>1
    <3>5. PICK d \in Int : d = end - (i + 2) - sk[k]
      BY <1>1, <3>3
    <3>6. d <= b - 1
      <4>1. PICK x \in Nat : x = sk[k]
        BY <3>3
      <4>2. d = end - (i + 2) - x /\ c = end - (i + 1) - (1 + x)
        BY <1>4, <3>2, <3>5, <4>1
      <4> QED BY ONLY <4>2, <1>4, i \in Int, <1>0, x \in Int, c \in Int, d \in Int, b \in Int
    <3>7. IsBudget(en, sk, end, i + 2, d)
      <4>1. i + 2 < end
        BY ONLY <3>1, <3>4, i \in Int, <1>0, k \in Int
      <4>2. en[(i + 2) + 1] = end /\ d = end - (i + 2) - sk[(i + 2) + 1]
        BY <1>4, <3>1, <3>2, <3>5
      <4> QED BY <4>1, <4>2 DEF IsBudget
    <3> QED BY <3>6, <3>7
  <2> QED BY <2>2, <2>3
<1>5. PICK c \in Int : c = end - (i + 1) - sk[i + 1]
  BY <1>1, <1>2
<1>6. CASE en[i] = end /\ b = end - i - sk[i]
  <2>1. s[i] # Quote
    <3>1. s[i] = Quote => en[i] = i
      BY <1>1 DEF Passed, FirstPass
    <3> QED BY <1>1, <1>6, <3>1
  <2>2. CASE s[i] = Backslash
    <3>1. en[i] = en[i + 2] /\ sk[i] = 1 + sk[i + 2]
      BY <1>1, <2>2 DEF Passed, FirstPass
    <3>2. PICK d \in Int : d = end - (i + 2) - sk[i + 2]
      BY <1>1, <1>2
    <3>3. d <= b - 1
      <4>1. PICK x \in Nat : x = sk[i + 2]
        BY <1>2
      <4>2. d = end - (i + 2) - x /\ b = end - i - (1 + x)
        BY <1>6, <3>1, <3>2, <4>1
      <4> QED BY ONLY <4>2, i \in Int, <1>0, x \in Int, d \in Int, b \in Int
    <3>4. IsBudget(en, sk, end, i + 2, d)
      BY <1>6, <3>1, <3>2 DEF IsBudget
    <3> QED BY <3>3, <3>4
  <2>3. CASE s[i] # Backslash
    <3>1. en[i] = en[i + 1] /\ sk[i] = sk[i + 1]
      BY <1>1, <2>1, <2>3 DEF Passed, FirstPass
    <3>2. c <= b - 1
      BY <1>1, <1>2, <1>5, <1>6, <3>1
    <3> QED BY <1>4, <1>5, <1>6, <3>1, <3>2
  <2> QED BY <2>2, <2>3
<1>7. CASE en[i + 1] = end /\ b = end - i - sk[i + 1]
  <2>1. c <= b - 1
    BY <1>1, <1>2, <1>5, <1>7
  <2> QED BY <1>4, <1>5, <1>7, <2>1
<1> QED BY <1>6, <1>7 DEF IsBudget

(* An escape leaves at least half of its characters to the budget. *)
LEMMA BudgetOfSix ==
  ASSUME NEW s, NEW end, NEW en, NEW sk, Passed(s, end, en, sk),
         NEW i \in 1 .. Len(s), i + 6 <= end, NEW b \in Int, IsBudget(en, sk, end, i, b)
  PROVE  \E d \in Int : d <= b - 3 /\ IsBudget(en, sk, end, i + 6, d)
<1>1. Len(s) \in Nat /\ end \in 1 .. Len(s)
  BY DEF Passed, QuotedAt
<1>2. PICK j \in 1 .. Len(s) : j = i + 2
  BY <1>1
<1>3. PICK k \in 1 .. Len(s) : k = i + 4
  BY <1>1
<1>4. i + 2 <= end /\ j + 2 <= end /\ k + 2 <= end /\ j + 2 = k /\ k + 2 = i + 6
  BY <1>1, <1>2, <1>3
<1>5. PICK c \in Int : c <= b - 1 /\ IsBudget(en, sk, end, j, c)
  BY <1>2, <1>4, BudgetOfTwo
<1>6. PICK d \in Int : d <= c - 1 /\ IsBudget(en, sk, end, k, d)
  BY <1>4, <1>5, BudgetOfTwo
<1>7. PICK e \in Int : e <= d - 1 /\ IsBudget(en, sk, end, i + 6, e)
  BY <1>4, <1>6, BudgetOfTwo
<1>8. e <= b - 3
  BY <1>5, <1>6, <1>7
<1> QED BY <1>7, <1>8

(* At the quote, and one character before it. *)
LEMMA BudgetAtEnd ==
  ASSUME NEW s, NEW end, NEW en, NEW sk, Passed(s, end, en, sk), NEW b \in Int
  PROVE  /\ IsBudget(en, sk, end, end, b) => b = 0
         /\ end # 1 /\ IsBudget(en, sk, end, end - 1, b) /\ s[end - 1] = Backslash => b = 1
<1>1. Len(s) \in Nat /\ end \in 1 .. Len(s) /\ end \in 1 .. Len(s) + 2 /\ end \in Nat /\ s[end] = Quote
  BY DEF Passed, QuotedAt
<1>2. en[end] = end /\ sk[end] = 0
  BY <1>1 DEF Passed, FirstPass
<1>3. IsBudget(en, sk, end, end, b) => b = 0
  BY <1>1, <1>2 DEF IsBudget
<1>4. ASSUME end # 1, IsBudget(en, sk, end, end - 1, b), s[end - 1] = Backslash PROVE b = 1
  <2>1. PICK i \in 1 .. Len(s) : i = end - 1 /\ i + 1 = end /\ i \in 1 .. Len(s) + 2
    BY <1>1, <1>4
  <2>2. i + 2 \in 1 .. Len(s) + 2 /\ i + 2 > end
    BY <1>1, <2>1
  <2>3. en[i] # end
    <3>1. en[i] = en[i + 2]
      BY <1>1, <1>4, <2>1 DEF Passed, FirstPass
    <3>2. en[i + 2] # NoQuote => en[i + 2] \in i + 2 .. Len(s)
      BY <1>1, <2>2, EndsAtQuote DEF Passed
    <3> QED BY <1>1, <2>2, <3>1, <3>2 DEF NoQuote
  <2>4. b = end - i - sk[i + 1]
    BY <1>4, <2>1, <2>3 DEF IsBudget
  <2> QED BY <1>1, <1>2, <2>1, <2>4
<1> QED BY <1>3, <1>4

(* What is written from a place on stays within every budget of the place. *)
InBudget(wr, en, sk, end, i) ==
  /\ wr[i] \in Outputs
  /\ i >= end => wr[i].size = 0
  /\ i <= end => \A b \in Int : IsBudget(en, sk, end, i, b) => 0 <= b /\ wr[i].size <= b

(* At the quote or behind it nothing more is written. *)
LEMMA WithinAfter ==
  ASSUME NEW s, NEW end, NEW en, NEW sk, Passed(s, end, en, sk), NEW wr, SecondPass(s, end, wr),
         NEW i \in 1 .. Len(s) + 2, i >= end
  PROVE  InBudget(wr, en, sk, end, i)
<1>1. end \in 1 .. Len(s) /\ Len(s) \in Nat
  BY DEF Passed, QuotedAt
<1>2. wr[i] = Written(TRUE, <<>>, 0)
  BY DEF SecondPass
<1>3. wr[i] \in Outputs /\ wr[i].size = 0
  <2>1. <<>> \in Seq(Nat) /\ 0 \in Nat /\ TRUE \in BOOLEAN
    OBVIOUS
  <2> QED BY ONLY <1>2, <2>1, WrittenIsOutput
<1>4. ASSUME i <= end, NEW b \in Int, IsBudget(en, sk, end, i, b) PROVE b = 0
  <2>1. i = end
    BY <1>1, <1>4
  <2> QED BY <1>4, <2>1, BudgetAtEnd
<1> QED BY <1>3, <1>4 DEF InBudget

(* Before the quote a piece takes no more than it leaves. *)
LEMMA WithinBefore ==
  ASSUME NEW s, NEW end, NEW en, NEW sk, Passed(s, end, en, sk), NEW wr, SecondPass(s, end, wr),
         NEW i \in 1 .. Len(s), i < end,
         \A j \in i + 1 .. Len(s) + 2 : InBudget(wr, en, sk, end, j)
  PROVE  InBudget(wr, en, sk, end, i)
<1>1. end \in 1 .. Len(s) /\ Len(s) \in Nat /\ end \in Int /\ i \in Int /\ i \in 1 .. Len(s) + 2
      /\ QuotedAt(s, end)
  BY DEF Passed, QuotedAt
<1>2. PICK p : p = PieceAt(s, i, end)
  OBVIOUS
<1>3. IsPiece(p, s, i, end) /\ (p.length # 0 => i + p.length \in i + 1 .. Len(s) + 2)
  BY <1>1, <1>2, PieceStays
<1>4. PICK k : k = i + p.length
  OBVIOUS
<1>5. p.length \in Nat /\ p.codes \in Seq(Nat) /\ p.size \in Nat
  BY <1>3 DEF IsPiece
<1>6. CASE p.length = 0
  <2>1. wr[i] = Written(FALSE, <<>>, 0)
    BY <1>1, <1>2, <1>6 DEF SecondPass
  <2>2. wr[i] \in Outputs /\ wr[i].size = 0
    <3>1. <<>> \in Seq(Nat) /\ 0 \in Nat /\ FALSE \in BOOLEAN
      OBVIOUS
    <3> QED BY ONLY <2>1, <3>1, WrittenIsOutput
  <2>3. ASSUME NEW b \in Int, IsBudget(en, sk, end, i, b) PROVE 0 <= b
    <3>1. CASE s[i] # Backslash
      <4>1. PICK j \in i + 1 .. Len(s) + 2 : j = i + 1 /\ j <= end
        BY <1>1
      <4>2. IsBudget(en, sk, end, j, b - 1) /\ b - 1 \in Int
        BY <2>3, <3>1, <4>1, BudgetOfOne
      <4>3. 0 <= b - 1
        BY <4>1, <4>2 DEF InBudget
      <4> QED BY <4>3
    <3>2. CASE s[i] = Backslash /\ i + 2 <= end
      <4>1. PICK d \in Int : d <= b - 1 /\ IsBudget(en, sk, end, i + 2, d)
        BY <2>3, <3>2, BudgetOfTwo
      <4>2. PICK j \in i + 1 .. Len(s) + 2 : j = i + 2 /\ j <= end
        BY <1>1, <3>2
      <4>3. 0 <= d
        BY <4>1, <4>2 DEF InBudget
      <4> QED BY <4>1, <4>3
    <3>3. CASE s[i] = Backslash /\ ~(i + 2 <= end)
      <4>1. i = end - 1 /\ end # 1
        BY <1>1, <3>3
      <4>2. b = 1
        BY <2>3, <3>3, <4>1, BudgetAtEnd
      <4> QED BY <4>2
    <3> QED BY <3>1, <3>2, <3>3
  <2> QED BY <1>1, <2>2, <2>3 DEF InBudget
<1>7. CASE p.length # 0
  <2>1. k \in i + 1 .. Len(s) + 2 /\ k \in Int
    BY <1>1, <1>3, <1>4, <1>7
  <2>2. InBudget(wr, en, sk, end, k)
    BY <2>1
  <2>3. PICK r \in Outputs : r = wr[k]
    BY <2>2 DEF InBudget
  <2>4. wr[i] = Written(r.ok, p.codes \o r.codes, p.size + r.size)
    BY <1>1, <1>2, <1>4, <1>7, <2>3 DEF SecondPass
  <2>5. PICK c \in Seq(Nat), z \in Nat : c = p.codes \o r.codes /\ z = p.size + r.size
    <3>1. r.codes \in Seq(Nat) /\ r.size \in Nat
      BY DEF Outputs
    <3>2. p.codes \o r.codes \in Seq(Nat) /\ p.size + r.size \in Nat
      BY <1>5, <3>1
    <3> QED BY <3>2
  <2>6. wr[i] \in Outputs /\ wr[i].size = z
    <3>1. r.ok \in BOOLEAN
      BY DEF Outputs
    <3>2. wr[i] = Written(r.ok, c, z)
      BY <2>4, <2>5
    <3> QED BY <3>1, <3>2, WrittenIsOutput
  <2>7. PICK x \in Nat, y \in Nat : x = p.size /\ y = r.size /\ z = x + y
    BY <1>5, <2>5 DEF Outputs
  <2>8. k >= end => y = 0
    BY <2>2, <2>3, <2>7 DEF InBudget
  <2>9. \A d \in Int : k <= end /\ IsBudget(en, sk, end, k, d) => 0 <= d /\ y <= d
    BY <2>2, <2>3, <2>7 DEF InBudget
  <2>10. ASSUME NEW b \in Int, IsBudget(en, sk, end, i, b) PROVE 0 <= b /\ z <= b
    <3>1. CASE p.length = 1 /\ x = 1 /\ s[i] # Backslash
      <4>1. k = i + 1 /\ k <= end
        BY <1>1, <1>4, <3>1
      <4>2. IsBudget(en, sk, end, k, b - 1) /\ b - 1 \in Int
        BY <2>10, <3>1, <4>1, BudgetOfOne
      <4>3. 0 <= b - 1 /\ y <= b - 1
        BY <2>9, <4>1, <4>2
      <4> QED BY <2>7, <3>1, <4>3
    <3>2. CASE p.length = 2 /\ x = 1 /\ i + 2 <= end
      <4>1. PICK d \in Int : d <= b - 1 /\ IsBudget(en, sk, end, i + 2, d)
        BY <2>10, <3>2, BudgetOfTwo
      <4>2. k = i + 2 /\ k <= end
        BY <1>1, <1>4, <3>2
      <4>3. 0 <= d /\ y <= d
        BY <2>9, <4>1, <4>2
      <4> QED BY <2>7, <3>2, <4>1, <4>3
    <3>3. CASE p.length = 2 /\ x = 1 /\ ~(i + 2 <= end) /\ s[i] = Backslash
      <4>1. i = end - 1 /\ end # 1 /\ k >= end
        BY <1>1, <1>4, <3>3
      <4>2. b = 1
        BY <2>10, <3>3, <4>1, BudgetAtEnd
      <4> QED BY <2>7, <2>8, <3>3, <4>1, <4>2
    <3>4. CASE p.length = 6 /\ x <= 3 /\ i + 6 <= end
      <4>1. PICK d \in Int : d <= b - 3 /\ IsBudget(en, sk, end, i + 6, d)
        BY <2>10, <3>4, BudgetOfSix
      <4>2. k = i + 6 /\ k <= end
        BY <1>1, <1>4, <3>4
      <4>3. 0 <= d /\ y <= d
        BY <2>9, <4>1, <4>2
      <4> QED BY <2>7, <3>4, <4>1, <4>3
    <3>5. CASE p.length = 12 /\ x <= 4 /\ i + 12 <= end
      <4>1. PICK j \in 1 .. Len(s) : j = i + 6 /\ j + 6 = i + 12 /\ i + 6 <= end
        BY <1>1, <3>5
      <4>2. PICK d \in Int : d <= b - 3 /\ IsBudget(en, sk, end, j, d)
        BY <2>10, <4>1, BudgetOfSix
      <4>3. PICK e \in Int : e <= d - 3 /\ IsBudget(en, sk, end, j + 6, e)
        BY <3>5, <4>1, <4>2, BudgetOfSix
      <4>4. k = j + 6 /\ k <= end
        BY <1>1, <1>4, <3>5, <4>1
      <4>5. 0 <= e /\ y <= e
        BY <2>9, <4>3, <4>4
      <4> QED BY <2>7, <3>5, <4>2, <4>3, <4>5
    <3>6. p.length = 2 => s[i] = Backslash
      <4>1. s[i] # Backslash => p.length = 1
        BY <1>2 DEF PieceAt, Piece
      <4> QED BY <4>1
    <3> QED BY <1>3, <1>7, <2>7, <3>1, <3>2, <3>3, <3>4, <3>5, <3>6 DEF IsPiece
  <2> QED BY <1>1, <2>6, <2>10 DEF InBudget
<1> QED BY <1>6, <1>7

(* From the last place to the first.                                       *)
LEMMA WithinAll ==
  ASSUME NEW s, NEW end, NEW en, NEW sk, Passed(s, end, en, sk), NEW wr, SecondPass(s, end, wr)
  PROVE  \A j \in 1 .. Len(s) + 2 : InBudget(wr, en, sk, end, j)
<1>1. Len(s) \in Nat /\ end \in 1 .. Len(s)
  BY DEF Passed, QuotedAt
<1>2. PICK n \in Nat : n = Len(s) + 2
  BY <1>1
<1> DEFINE T == {m \in 0 .. n : \A j \in 1 .. n : j > n - m => InBudget(wr, en, sk, end, j)}
<1>3. 0 \in T
  OBVIOUS
<1>4. ASSUME NEW m \in 1 .. n, m - 1 \in T PROVE m \in T
  <2>1. PICK i \in 1 .. n : i = n - m + 1
    OBVIOUS
  <2>2. \A j \in i + 1 .. n : InBudget(wr, en, sk, end, j)
    BY <1>4, <2>1
  <2>3. InBudget(wr, en, sk, end, i)
    <3>1. CASE i >= end
      BY <1>2, <3>1, WithinAfter
    <3>2. CASE i < end
      <4>1. i \in 1 .. Len(s)
        BY <1>1, <3>2
      <4> QED BY <1>2, <2>2, <3>2, <4>1, WithinBefore
    <3> QED BY <1>1, <3>1, <3>2
  <2>4. \A j \in 1 .. n : j > n - m => j = i \/ j \in i + 1 .. n
    BY <2>1
  <2> QED BY <2>2, <2>3, <2>4
<1> HIDE DEF T
<1>5. n \in T
  <2>1. 0 .. n \subseteq T
    BY <1>3, <1>4, UpTo
  <2> QED BY <2>1
<1>6. \A j \in 1 .. n : j > n - n
  BY <1>1, <1>2
<1> QED BY <1>2, <1>5, <1>6 DEF T

(* For every sequence of bytes: one byte is even left over, that of the     *)
(* opening quote.                                                           *)
LEMMA NeverOutgrown ==
  ASSUME NEW s \in Seq(Byte), Ends(s) # NoQuote
  PROVE  /\ Unescape(s).size + 2 <= Allocated(s)
         /\ Unescape(s).size \in Nat /\ Allocated(s) \in Nat
<1>1. PICK en, sk, wr, end : /\ en = EndsFrom(s) /\ sk = SkippedFrom(s) /\ wr = WrittenFrom(s)
                             /\ end = Ends(s)
  OBVIOUS
<1>2. Len(s) \in Nat /\ 1 \in 1 .. Len(s) + 2
  OBVIOUS
<1>3. en[1] = end /\ end # NoQuote /\ sk[1] = Skipped(s) /\ wr[1] = Unescape(s)
  BY <1>1, EndsByPlace, SkippedByPlace, WrittenByPlace
<1>4. FirstPass(s, en, sk)
  BY <1>1, <1>2, FirstPassIs
<1>5. end \in 1 .. Len(s) /\ s[end] = Quote /\ sk[1] \in Nat
  BY <1>2, <1>3, <1>4, EndsAtQuote
<1>6. QuotedAt(s, end)
  BY <1>2, <1>5 DEF QuotedAt
<1>7. SecondPass(s, end, wr)
  BY <1>1, <1>6, SecondPassIs
<1>8. InBudget(wr, en, sk, end, 1)
  BY <1>2, <1>4, <1>6, <1>7, WithinAll DEF Passed
<1>9. PICK b \in Int : b = end - 1 - sk[1]
  BY <1>5
<1>10. IsBudget(en, sk, end, 1, b)
  BY <1>3, <1>9 DEF IsBudget
<1>11. wr[1].size <= b /\ wr[1].size \in Nat
  BY <1>2, <1>5, <1>8, <1>10 DEF InBudget, Outputs
<1>12. PICK x \in Nat, y \in Nat : x = Skipped(s) /\ y = Unescape(s).size
  BY <1>3, <1>5, <1>11
<1>13. Allocated(s) = end - x + 1 /\ b = end - 1 - x /\ y <= b
  BY <1>1, <1>3, <1>9, <1>11, <1>12 DEF Allocated
<1> QED BY <1>5, <1>12, <1>13

-----------------------------------------------------------------------------
(* The readings as a function of the number of characters.                  *)
ReadOf(s, n, f) == [k \in 0 .. n |-> IF k = 0 THEN {<<>>} ELSE Longer(s, k, f)]
ReadFrom(s, n) == CHOOSE f : f = ReadOf(s, n, f)

(* The readings are those of all characters. *)
LEMMA ReadByPlace == ASSUME NEW s, NEW n PROVE Readings(s, n) = ReadFrom(s, n)[n]
BY DEF Readings, ReadFrom, ReadOf

(* A piece of so many characters ends at k and stands for a code.           *)
EndsPiece(s, k, length, code) ==
  \/ length = 1 /\ EndsPlain(s, k) /\ code = s[k]
  \/ length = 2 /\ EndsEscape(s, k) /\ code = Meaning(s[k])
  \/ length = 6 /\ EndsUnit(s, k) /\ code = Unit(s, k - 5)
  \/ length = 12 /\ EndsPair(s, k) /\ code = Joined(Unit(s, k - 11), Unit(s, k - 5))

(* A reading is one of fewer characters and a piece. *)
LEMMA LongerIs ==
  ASSUME NEW s, NEW k, NEW to, NEW r
  PROVE  r \in Longer(s, k, to) <=>
           \E length \in {1, 2, 6, 12} : \E code : EndsPiece(s, k, length, code) /\ r \in Then(to[k - length], code)
<1>1. r \in Longer(s, k, to) <=>
        \/ EndsPlain(s, k) /\ r \in Then(to[k - 1], s[k])
        \/ EndsEscape(s, k) /\ r \in Then(to[k - 2], Meaning(s[k]))
        \/ EndsUnit(s, k) /\ r \in Then(to[k - 6], Unit(s, k - 5))
        \/ EndsPair(s, k) /\ r \in Then(to[k - 12], Joined(Unit(s, k - 11), Unit(s, k - 5)))
  BY DEF Longer
<1>2. \A length \in {1, 2, 6, 12} : length = 1 \/ length = 2 \/ length = 6 \/ length = 12
  OBVIOUS
<1>3. ASSUME NEW length \in {1, 2, 6, 12}, NEW code, EndsPiece(s, k, length, code), r \in Then(to[k - length], code)
      PROVE  r \in Longer(s, k, to)
  BY <1>1, <1>3 DEF EndsPiece
<1>4. ASSUME r \in Longer(s, k, to)
      PROVE  \E length \in {1, 2, 6, 12} : \E code : EndsPiece(s, k, length, code) /\ r \in Then(to[k - length], code)
  <2>1. CASE EndsPlain(s, k) /\ r \in Then(to[k - 1], s[k])
    <3>1. EndsPiece(s, k, 1, s[k])
      BY <2>1 DEF EndsPiece
    <3> QED BY <2>1, <3>1
  <2>2. CASE EndsEscape(s, k) /\ r \in Then(to[k - 2], Meaning(s[k]))
    <3>1. EndsPiece(s, k, 2, Meaning(s[k]))
      BY <2>2 DEF EndsPiece
    <3> QED BY <2>2, <3>1
  <2>3. CASE EndsUnit(s, k) /\ r \in Then(to[k - 6], Unit(s, k - 5))
    <3>1. EndsPiece(s, k, 6, Unit(s, k - 5))
      BY <2>3 DEF EndsPiece
    <3> QED BY <2>3, <3>1
  <2>4. CASE EndsPair(s, k) /\ r \in Then(to[k - 12], Joined(Unit(s, k - 11), Unit(s, k - 5)))
    <3>1. EndsPiece(s, k, 12, Joined(Unit(s, k - 11), Unit(s, k - 5)))
      BY <2>4 DEF EndsPiece
    <3> QED BY <2>4, <3>1
  <2> QED BY <1>1, <1>4, <2>1, <2>2, <2>3, <2>4
<1> QED BY <1>3, <1>4

(* A piece is no longer than what there is, and stands for a number. *)
LEMMA PieceEnds ==
  ASSUME NEW s \in Seq(Byte), NEW k \in 1 .. Len(s), NEW length \in {1, 2, 6, 12}, NEW code,
         EndsPiece(s, k, length, code)
  PROVE  code \in Nat /\ length <= k
<1>1. s[k] \in Nat /\ s[k] \in Byte
  <2>1. s[k] \in Byte
    OBVIOUS
  <2>2. \A x \in Byte : x \in Nat
    BY DEF Byte
  <2> QED BY ONLY <2>1, <2>2
<1>2. Meaning(s[k]) \in Nat
  BY <1>1 DEF Meaning
<1>3. Unit(s, k - 5) \in Units /\ Unit(s, k - 11) \in Units
  BY HexIs DEF Unit
<1>4. Joined(Unit(s, k - 11), Unit(s, k - 5)) \in Nat
  <2>1. PICK h \in Nat, l \in Nat : h = Unit(s, k - 11) /\ l = Unit(s, k - 5)
    BY <1>3 DEF Units
  <2>2. h % 1024 \in Nat /\ l % 1024 \in Nat /\ Supplementary \in Nat
    BY DEF Supplementary
  <2>3. Supplementary + 1024 * (h % 1024) + (l % 1024) \in Nat
    BY <2>2
  <2> QED BY <2>1, <2>3 DEF Joined
<1> QED BY <1>1, <1>2, <1>3, <1>4 DEF EndsPiece, EndsEscape, EndsUnit, EndsPair, Units

(* A reading of k characters depends on those of fewer.                     *)
LEMMA LongerLocal ==
  ASSUME NEW s \in Seq(Byte), NEW k \in 1 .. Len(s), NEW f, NEW g, \A j \in 0 .. k - 1 : f[j] = g[j]
  PROVE  Longer(s, k, f) = Longer(s, k, g)
<1>1. ASSUME NEW length \in {1, 2, 6, 12}, NEW code, EndsPiece(s, k, length, code)
      PROVE  f[k - length] = g[k - length]
  <2>1. length <= k
    BY <1>1, PieceEnds
  <2>2. k - length \in 0 .. k - 1
    BY <2>1
  <2> QED BY <2>2
<1>2. \A r : r \in Longer(s, k, f) <=> r \in Longer(s, k, g)
  <2> SUFFICES ASSUME NEW r PROVE r \in Longer(s, k, f) <=> r \in Longer(s, k, g)
    OBVIOUS
  <2>1. r \in Longer(s, k, f) <=>
          \E length \in {1, 2, 6, 12} : \E code : EndsPiece(s, k, length, code) /\ r \in Then(f[k - length], code)
    BY LongerIs
  <2>2. r \in Longer(s, k, g) <=>
          \E length \in {1, 2, 6, 12} : \E code : EndsPiece(s, k, length, code) /\ r \in Then(g[k - length], code)
    BY LongerIs
  <2> QED BY <1>1, <2>1, <2>2
<1> QED BY <1>2

(* The readings are well defined: a reading is one of fewer characters and  *)
(* a piece.                                                                 *)
LEMMA ReadExists ==
  ASSUME NEW s \in Seq(Byte), NEW n \in 0 .. Len(s)
  PROVE  ReadFrom(s, n) = ReadOf(s, n, ReadFrom(s, n))
<1> DEFINE S == SUBSET Seq(Nat)
           step == [k \in 1 .. n |-> [f \in [0 .. n -> S] |-> Longer(s, k, f)]]
<1>1. n \in Nat /\ 1 .. n \subseteq 1 .. Len(s)
  OBVIOUS
<1>2. {<<>>} \in S
  <2>1. <<>> \in Seq(Nat)
    OBVIOUS
  <2> QED BY <2>1
<1>3. ASSUME NEW k \in 1 .. n, NEW f \in [0 .. n -> S] PROVE Longer(s, k, f) \in S
  <2> SUFFICES ASSUME NEW r \in Longer(s, k, f) PROVE r \in Seq(Nat)
    OBVIOUS
  <2>1. PICK length \in {1, 2, 6, 12} : \E code : EndsPiece(s, k, length, code) /\ r \in Then(f[k - length], code)
    BY LongerIs
  <2>2. PICK code : EndsPiece(s, k, length, code) /\ r \in Then(f[k - length], code)
    BY <2>1
  <2>3. code \in Nat /\ length <= k
    BY <1>1, <2>2, PieceEnds
  <2>4. k - length \in 0 .. n
    BY <2>3
  <2>5. PICK r0 \in f[k - length] : r = Append(r0, code)
    BY <2>2 DEF Then
  <2>6. r0 \in Seq(Nat)
    BY <2>4, <2>5
  <2> QED BY <2>3, <2>5, <2>6
<1>4. ASSUME NEW k \in 1 .. n, NEW f, NEW g, \A j \in 0 .. k - 1 : f[j] = g[j]
      PROVE  Longer(s, k, f) = Longer(s, k, g)
  BY <1>1, <1>4, LongerLocal
<1>5. \A k \in 1 .. n, f \in [0 .. n -> S] : step[k][f] = Longer(s, k, f)
  OBVIOUS
<1>6. step \in [1 .. n -> [[0 .. n -> S] -> S]]
  BY <1>3
<1> HIDE DEF step
<1>7. LooksBack(n, S, step)
  <2> SUFFICES ASSUME NEW i \in 1 .. n, NEW f \in [0 .. n -> S], NEW g \in [0 .. n -> S],
                      \A j \in 0 .. i - 1 : f[j] = g[j]
               PROVE  step[i][f] = step[i][g]
    BY DEF LooksBack
  <2>1. step[i][f] = Longer(s, i, f) /\ step[i][g] = Longer(s, i, g)
    BY <1>5
  <2>2. Longer(s, i, f) = Longer(s, i, g)
    BY <1>4
  <2> QED BY <2>1, <2>2
<1> HIDE DEF S
<1>8. Ascents(n, S, {<<>>}, step) # {}
  BY <1>1, <1>2, <1>6, <1>7, Forwards
<1>9. PICK f \in [0 .. n -> S] : f[0] = {<<>>} /\ \A i \in 1 .. n : f[i] = step[i][f]
  BY <1>8 DEF Ascents
<1>10. f = ReadOf(s, n, f)
  <2>1. \A k \in 0 .. n : f[k] = IF k = 0 THEN {<<>>} ELSE Longer(s, k, f)
    <3>1. \A k \in 0 .. n : k # 0 => k \in 1 .. n
      OBVIOUS
    <3> QED BY <1>5, <1>9, <3>1
  <2>2. f = [k \in 0 .. n |-> IF k = 0 THEN {<<>>} ELSE Longer(s, k, f)]
    BY <2>1
  <2> QED BY <2>2 DEF ReadOf
<1> QED BY <1>10 DEF ReadFrom

(* The readings, number by number. *)
LEMMA ReadIs ==
  ASSUME NEW s \in Seq(Byte), NEW n \in 0 .. Len(s), NEW to, to = ReadFrom(s, n)
  PROVE  to[0] = {<<>>} /\ \A k \in 1 .. n : to[k] = Longer(s, k, to)
<1>1. to = ReadOf(s, n, to)
  BY ReadExists
<1>2. \A k \in 0 .. n : to[k] = IF k = 0 THEN {<<>>} ELSE Longer(s, k, to)
  BY <1>1 DEF ReadOf
<1>3. 0 \in 0 .. n /\ \A k \in 1 .. n : k \in 0 .. n /\ k # 0
  OBVIOUS
<1> QED BY <1>2, <1>3

(* A hexadecimal digit is neither a quote nor a backslash.                  *)
LEMMA HexIsPlain ==
  ASSUME NEW s, NEW i \in Int, AllHex(s, i), NEW j \in i .. i + 3
  PROVE  s[j] \notin {Quote, Backslash}
<1>1. HexDigit(s[j]) >= 0
  BY DEF AllHex
<1>2. ~(HexDigit(Quote) >= 0) /\ ~(HexDigit(Backslash) >= 0)
  BY DEF HexDigit, Quote, Backslash
<1> QED BY <1>1, <1>2

(* A piece that ends at k is skipped by the first pass as a whole.          *)
LEMMA PieceIsSkipped ==
  ASSUME NEW s, Len(s) \in Nat, NEW en, NEW sk, FirstPass(s, en, sk),
         NEW k \in 1 .. Len(s), NEW length \in {1, 2, 6, 12}, NEW code,
         EndsPiece(s, k, length, code), length <= k
  PROVE  en[k - length + 1] = en[k + 1]
<1>1. ASSUME NEW i \in 1 .. Len(s), i + 5 <= Len(s), IsUnit(s, i) PROVE en[i] = en[i + 6]
  <2>1. /\ i \in 1 .. Len(s) + 2 /\ i + 2 \in 1 .. Len(s) /\ i + 3 \in 1 .. Len(s)
        /\ i + 4 \in 1 .. Len(s) /\ i + 5 \in 1 .. Len(s)
        /\ i + 2 \in i + 2 .. (i + 2) + 3 /\ i + 3 \in i + 2 .. (i + 2) + 3
        /\ i + 4 \in i + 2 .. (i + 2) + 3 /\ i + 5 \in i + 2 .. (i + 2) + 3
        /\ i + 2 \in Int
    BY <1>1
  <2>2. en[i] = en[i + 2]
    BY <1>1, <2>1 DEF FirstPass, IsUnit
  <2>3. ASSUME NEW j \in 1 .. Len(s), j \in i + 2 .. (i + 2) + 3 PROVE en[j] = en[j + 1]
    <3>1. s[j] \notin {Quote, Backslash}
      BY <1>1, <2>1, <2>3, HexIsPlain DEF IsUnit
    <3>2. j \in 1 .. Len(s) + 2 /\ j <= Len(s)
      OBVIOUS
    <3> QED BY <3>1, <3>2 DEF FirstPass
  <2>4. (i + 2) + 1 = i + 3 /\ (i + 3) + 1 = i + 4 /\ (i + 4) + 1 = i + 5 /\ (i + 5) + 1 = i + 6
    OBVIOUS
  <2>5. en[i + 2] = en[i + 3] /\ en[i + 3] = en[i + 4] /\ en[i + 4] = en[i + 5] /\ en[i + 5] = en[i + 6]
    BY <2>1, <2>3, <2>4
  <2> QED BY <2>2, <2>5
<1>2. CASE length = 1 /\ EndsPlain(s, k)
  <2>1. k \in 1 .. Len(s) + 2 /\ k - length + 1 = k
    BY <1>2
  <2> QED BY <1>2, <2>1 DEF FirstPass, EndsPlain
<1>3. CASE length = 2 /\ EndsEscape(s, k)
  <2>1. PICK i \in 1 .. Len(s) : i = k - 1 /\ i = k - length + 1 /\ i + 2 = k + 1 /\ i \in 1 .. Len(s) + 2
    BY <1>3
  <2>2. s[i] = Backslash
    BY <1>3, <2>1 DEF EndsEscape
  <2> QED BY <2>1, <2>2 DEF FirstPass
<1>4. CASE length = 6 /\ EndsUnit(s, k)
  <2>1. PICK i \in 1 .. Len(s) : i = k - 5 /\ i = k - length + 1 /\ i + 6 = k + 1 /\ i + 5 <= Len(s)
    BY <1>4
  <2>2. IsUnit(s, i)
    BY <1>4, <2>1 DEF EndsUnit
  <2>3. en[i] = en[i + 6]
    BY <1>1, <2>1, <2>2
  <2> QED BY <2>1, <2>3
<1>5. CASE length = 12 /\ EndsPair(s, k)
  <2>1. PICK i \in 1 .. Len(s), j \in 1 .. Len(s) :
          /\ i = k - 11 /\ i = k - length + 1 /\ i + 6 = j /\ j = k - 5 /\ j + 6 = k + 1
          /\ i + 5 <= Len(s) /\ j + 5 <= Len(s)
    <3>1. k - 11 \in 1 .. Len(s) /\ k - 5 \in 1 .. Len(s)
      BY <1>5
    <3> QED BY <1>5, <3>1
  <2>2. IsUnit(s, i) /\ IsUnit(s, j)
    BY <1>5, <2>1 DEF EndsPair
  <2>3. en[i] = en[i + 6] /\ en[j] = en[j + 6]
    BY <1>1, <2>1, <2>2
  <2> QED BY <2>1, <2>3
<1> QED BY <1>2, <1>3, <1>4, <1>5 DEF EndsPiece

(* A piece that ends before the quote is what the second pass takes.        *)
LEMMA PieceIsTaken ==
  ASSUME NEW s \in Seq(Byte), NEW end \in 1 .. Len(s), NEW k \in 1 .. Len(s), k < end,
         NEW length \in {1, 2, 6, 12}, NEW code, EndsPiece(s, k, length, code), length <= k,
         NEW i \in Nat, i = k - length + 1
  PROVE  PieceAt(s, i, end).length = length /\ PieceAt(s, i, end).codes = <<code>>
<1>1. \A l, c, z : Piece(l, c, z).length = l /\ Piece(l, c, z).codes = <<c>>
  BY DEF Piece
<1>2. CASE length = 1 /\ EndsPlain(s, k) /\ code = s[k]
  <2>1. s[i] # Backslash /\ s[i] = code
    BY <1>2 DEF EndsPlain
  <2>2. PieceAt(s, i, end) = Piece(1, code, 1)
    BY <2>1 DEF PieceAt
  <2> QED BY <1>1, <1>2, <2>2
<1>3. CASE length = 2 /\ EndsEscape(s, k) /\ code = Meaning(s[k])
  <2>1. i = k - 1 /\ i + 1 = k
    BY <1>3
  <2>2. PICK c : c = s[i + 1]
    OBVIOUS
  <2>3. s[i] = Backslash /\ c \in Escaped /\ code = Meaning(c)
    BY <1>3, <2>1, <2>2 DEF EndsEscape
  <2>4. /\ Letters.b = 98 /\ Letters.f = 102 /\ Letters.n = 110 /\ Letters.r = 114
        /\ Letters.t = 116 /\ Letters.u = 117 /\ Quote = 34 /\ Backslash = 92
    BY DEF Letters, Quote, Backslash
  <2>5. c = 98 \/ c = 102 \/ c = 110 \/ c = 114 \/ c = 116 \/ c = 34 \/ c = 92 \/ c = 47
    BY <2>3, <2>4 DEF Escaped
  <2>6. PieceAt(s, i, end) = Piece(2, Meaning(c), 1)
    <3>1. PieceAt(s, i, end) =
            CASE c = 98 -> Piece(2, 8, 1) [] c = 102 -> Piece(2, 12, 1) [] c = 110 -> Piece(2, 10, 1)
              [] c = 114 -> Piece(2, 13, 1) [] c = 116 -> Piece(2, 9, 1)
              [] c \in {34, 92, 47} -> Piece(2, c, 1)
              [] c = 117 -> utf16_literal_to_utf8(s, i, end) [] OTHER -> Failure
      BY <2>2, <2>3, <2>4 DEF PieceAt
    <3>2. CASE c \in {34, 92, 47}
      <4>1. Meaning(c) = c
        BY <3>2 DEF Meaning
      <4>2. PieceAt(s, i, end) = Piece(2, c, 1)
        BY <3>1, <3>2
      <4> QED BY <4>1, <4>2
    <3>3. CASE c \in {98, 102, 110, 114, 116}
      BY <3>1, <3>3 DEF Meaning
    <3> QED BY <2>5, <3>2, <3>3
  <2> QED BY <1>1, <1>3, <2>3, <2>6
<1>4. ASSUME IsUnit(s, i)
      PROVE  PieceAt(s, i, end) = utf16_literal_to_utf8(s, i, end)
  <2>1. s[i] = Backslash /\ s[i + 1] = 117
    BY <1>4 DEF IsUnit, Letters
  <2>2. 117 \notin {Quote, Backslash, 47}
    BY DEF Quote, Backslash
  <2> QED BY <2>1, <2>2 DEF PieceAt, Letters
<1>5. CASE length = 6 /\ EndsUnit(s, k) /\ code = Unit(s, k - 5)
  <2>1. i = k - 5 /\ ~(end - i < 6)
    BY <1>5
  <2>2. IsUnit(s, i) /\ code = parse_hex4(s, i + 2) /\ ~LowHalf(code) /\ ~HighHalf(code)
    BY <1>5, <2>1 DEF EndsUnit, Unit
  <2>3. utf16_literal_to_utf8(s, i, end) = Piece(6, code, Bytes(code))
    BY <2>1, <2>2, Zenon DEF utf16_literal_to_utf8
  <2> QED BY <1>1, <1>4, <1>5, <2>2, <2>3
<1>6. CASE length = 12 /\ EndsPair(s, k) /\ code = Joined(Unit(s, k - 11), Unit(s, k - 5))
  <2>1. i = k - 11 /\ i + 6 = k - 5 /\ i + 7 = k - 4 /\ (k - 5) + 1 = k - 4 /\ (k - 5) + 2 = i + 8
        /\ ~(end - i < 6) /\ ~(end - (i + 6) < 6)
    BY <1>6
  <2>2. PICK a, b : a = parse_hex4(s, i + 2) /\ b = parse_hex4(s, i + 8)
    OBVIOUS
  <2>3. IsUnit(s, i) /\ IsUnit(s, k - 5) /\ Unit(s, k - 11) = a /\ Unit(s, k - 5) = b
    BY <1>6, <2>1, <2>2 DEF EndsPair, Unit
  <2>4. HighHalf(a) /\ LowHalf(b) /\ code = Joined(a, b)
    BY <1>6, <2>3 DEF EndsPair
  <2>5. s[i + 6] = Backslash /\ s[i + 7] = Letters.u
    BY <2>1, <2>3 DEF IsUnit
  <2>6. ~LowHalf(a)
    BY <2>4 DEF LowHalf, HighHalf
  <2>7. utf16_literal_to_utf8(s, i, end) = Pair(a, b)
    BY <2>1, <2>2, <2>4, <2>5, <2>6, Zenon DEF utf16_literal_to_utf8
  <2>8. PieceAt(s, i, end) = Piece(12, Joined(a, b), Bytes(Joined(a, b)))
    BY <1>4, <2>3, <2>7 DEF Pair
  <2> QED BY <1>1, <1>6, <2>4, <2>8
<1> QED BY <1>2, <1>3, <1>5, <1>6 DEF EndsPiece

(* The second pass of a text that has a quote, with outputs at every place. *)
Reads(s, end, wr) == SecondPass(s, end, wr) /\ \A j \in 1 .. Len(s) + 2 : wr[j] \in Outputs

(* Putting sequences together is associative.                               *)
LEMMA Associative ==
  ASSUME NEW t \in Seq(Nat), NEW u \in Seq(Nat), NEW v \in Seq(Nat)
  PROVE  (t \o u) \o v = t \o (u \o v)
OBVIOUS

(* What a reading of the first k characters says of the two passes: the     *)
(* first comes to the next character, the second has written the reading.   *)
Agrees(en, wr, k, r) ==
  /\ r \in Seq(Nat)
  /\ en[k + 1] = en[1]
  /\ en[1] # NoQuote => wr[1].codes = r \o wr[k + 1].codes /\ wr[1].ok = wr[k + 1].ok

(* The reading of no characters agrees. *)
LEMMA AgreesAtFirst ==
  ASSUME NEW s, NEW en, NEW wr, Len(s) \in Nat, en[1] # NoQuote => Reads(s, en[1], wr)
  PROVE  Agrees(en, wr, 0, <<>>)
<1>1. <<>> \in Seq(Nat) /\ 0 + 1 = 1 /\ 1 \in 1 .. Len(s) + 2
  OBVIOUS
<1>2. en[1] # NoQuote => wr[1].codes \in Seq(Nat)
  BY <1>1 DEF Reads, Outputs
<1>3. en[1] # NoQuote => wr[1].codes = <<>> \o wr[1].codes
  BY <1>2, ConcatEmptySeq
<1> QED BY <1>1, <1>3 DEF Agrees

(* A piece more, and it still does. *)
LEMMA AgreesNext ==
  ASSUME NEW s \in Seq(Byte), NEW en, NEW sk, NEW wr, FirstPass(s, en, sk),
         en[1] # NoQuote => Reads(s, en[1], wr),
         NEW k \in 1 .. Len(s), NEW length \in {1, 2, 6, 12}, NEW code, EndsPiece(s, k, length, code),
         length <= k, NEW r, Agrees(en, wr, k - length, r)
  PROVE  Agrees(en, wr, k, Append(r, code))
<1>1. code \in Nat /\ r \in Seq(Nat) /\ Len(s) \in Nat
  BY PieceEnds DEF Agrees
<1>2. Append(r, code) \in Seq(Nat) /\ Append(r, code) = r \o <<code>> /\ <<code>> \in Seq(Nat)
  BY <1>1, AppendIsConcat
<1>3. PICK i \in Nat : i = k - length + 1 /\ i \in 1 .. Len(s) /\ i + length = k + 1
  OBVIOUS
<1>4. k + 1 \in 1 .. Len(s) + 2 /\ 1 \in 1 .. Len(s) + 2 /\ i \in 1 .. Len(s) + 2
  BY <1>1, <1>3
<1>5. en[i] = en[k + 1] /\ en[i] = en[1]
  BY <1>1, <1>3, PieceIsSkipped DEF Agrees
<1>6. ASSUME en[1] # NoQuote
      PROVE  wr[1].codes = Append(r, code) \o wr[k + 1].codes /\ wr[1].ok = wr[k + 1].ok
  <2>1. PICK end : end = en[1]
    OBVIOUS
  <2>2. end \in k + 1 .. Len(s) /\ end \in 1 .. Len(s)
    BY <1>1, <1>4, <1>5, <1>6, <2>1, EndsAtQuote
  <2>3. k < end /\ i < end
    BY <1>3, <2>2
  <2>4. PICK p : p = PieceAt(s, i, end)
    OBVIOUS
  <2>5. p.length = length /\ p.codes = <<code>>
    BY <1>3, <2>2, <2>3, <2>4, PieceIsTaken
  <2>6. PICK rest \in Outputs : rest = wr[k + 1]
    BY <1>4, <1>6 DEF Reads
  <2>7. wr[i] = Written(rest.ok, <<code>> \o rest.codes, p.size + rest.size)
    <3>1. p.length # 0 /\ wr[i + p.length] = rest
      BY <1>3, <2>5, <2>6
    <3>2. SecondPass(s, end, wr)
      BY <1>6, <2>1 DEF Reads
    <3> QED BY <1>4, <2>3, <2>4, <2>5, <3>1, <3>2 DEF SecondPass
  <2>8. wr[i].ok = rest.ok /\ wr[i].codes = <<code>> \o rest.codes
    BY <2>7 DEF Written
  <2>9. wr[1].codes = r \o wr[i].codes /\ wr[1].ok = wr[i].ok
    <3>1. (k - length) + 1 = i
      BY <1>3
    <3> QED BY <1>6, <3>1 DEF Agrees
  <2>10. rest.codes \in Seq(Nat)
    <3>1. \A x \in Outputs : x.codes \in Seq(Nat)
      BY DEF Outputs
    <3> QED BY <3>1
  <2>11. r \o (<<code>> \o rest.codes) = (r \o <<code>>) \o rest.codes
    BY ONLY <1>1, <1>2, <2>10, Associative
  <2> QED BY <1>2, <2>6, <2>8, <2>9, <2>11
<1> QED BY <1>2, <1>5, <1>6 DEF Agrees

(* Every reading agrees with the two passes.                                *)
LEMMA AllAgree ==
  ASSUME NEW s \in Seq(Byte), NEW en, NEW sk, NEW wr, FirstPass(s, en, sk),
         en[1] # NoQuote => Reads(s, en[1], wr),
         NEW n \in 0 .. Len(s), NEW r \in Readings(s, n)
  PROVE  Agrees(en, wr, n, r)
<1>1. PICK to : to = ReadFrom(s, n)
  OBVIOUS
<1>2. n \in Nat /\ Len(s) \in Nat /\ 1 .. n \subseteq 1 .. Len(s)
  OBVIOUS
<1>3. to[0] = {<<>>} /\ \A k \in 1 .. n : to[k] = Longer(s, k, to)
  BY <1>1, ReadIs
<1> DEFINE T == {m \in 0 .. n : \A k \in 0 .. m : \A x \in to[k] : Agrees(en, wr, k, x)}
<1>4. 0 \in T
  <2>1. \A k \in 0 .. 0 : k = 0
    OBVIOUS
  <2>2. Agrees(en, wr, 0, <<>>)
    BY <1>2, AgreesAtFirst
  <2> QED BY <1>2, <1>3, <2>1, <2>2
<1>5. ASSUME NEW m \in 1 .. n, m - 1 \in T PROVE m \in T
  <2>1. ASSUME NEW x \in to[m] PROVE Agrees(en, wr, m, x)
    <3>1. x \in Longer(s, m, to)
      BY <1>3, <2>1
    <3>2. PICK length \in {1, 2, 6, 12} : \E code : EndsPiece(s, m, length, code) /\ x \in Then(to[m - length], code)
      BY <3>1, LongerIs
    <3>3. PICK code : EndsPiece(s, m, length, code) /\ x \in Then(to[m - length], code)
      BY <3>2
    <3>4. length <= m /\ m \in 1 .. Len(s)
      BY <1>2, <3>3, PieceEnds
    <3>5. PICK y \in to[m - length] : x = Append(y, code)
      BY <3>3 DEF Then
    <3>6. m - length \in 0 .. m - 1
      BY <3>4
    <3>7. Agrees(en, wr, m - length, y)
      BY <1>5, <3>5, <3>6
    <3> QED BY <3>3, <3>4, <3>5, <3>7, AgreesNext
  <2>2. \A k \in 0 .. m : k = m \/ k \in 0 .. m - 1
    OBVIOUS
  <2>3. \A k \in 0 .. m - 1 : \A x \in to[k] : Agrees(en, wr, k, x)
    BY <1>5
  <2>4. m \in 0 .. n
    OBVIOUS
  <2> QED BY <2>1, <2>2, <2>3, <2>4
<1> HIDE DEF T
<1>6. n \in T
  <2>1. 0 .. n \subseteq T
    BY <1>2, <1>4, <1>5, UpTo
  <2> QED BY <1>2, <2>1
<1>7. r \in to[n]
  BY <1>1, ReadByPlace
<1> QED BY <1>2, <1>6, <1>7 DEF T

(* A \u that has four characters to come, and not all are hexadecimal.      *)
IsBroken(s, i) == s[i] = Backslash /\ s[i + 1] = Letters.u /\ ~AllHex(s, i + 2)

(* A piece the second pass takes is one of JSON's, but for a broken \u and  *)
(* for control characters.                                                  *)
LEMMA TakenEnds ==
  ASSUME NEW s \in Seq(Byte), NEW end \in 1 .. Len(s), s[end] = Quote, NEW en, NEW sk,
         FirstPass(s, en, sk), NEW i \in 1 .. Len(s), i < end, en[i] = end,
         \A j \in 1 .. Len(s) - 5 : ~IsBroken(s, j), ~IsControl(s[i]),
         PieceAt(s, i, end).length # 0
  PROVE  \E length \in {1, 2, 6, 12} : \E code :
           i + length <= end /\ EndsPiece(s, i + length - 1, length, code)
<1>1. Len(s) \in Nat /\ i \in 1 .. Len(s) + 2 /\ i <= Len(s) /\ end \in Nat /\ end <= Len(s)
  OBVIOUS
<1>2. s[i] # Quote
  <2>1. s[i] = Quote => en[i] = i
    BY <1>1 DEF FirstPass
  <2> QED BY <2>1
<1>3. \A l, c, z : Piece(l, c, z).length = l
  BY DEF Piece
<1>4. Failure.length = 0
  BY DEF Failure
<1>5. CASE s[i] # Backslash
  <2>1. i + 1 <= end /\ i + 1 - 1 = i
    OBVIOUS
  <2>2. EndsPiece(s, i + 1 - 1, 1, s[i])
    BY <1>2, <1>5, <2>1 DEF EndsPiece, EndsPlain
  <2> QED BY <2>1, <2>2
<1>6. ASSUME s[i] = Backslash PROVE i + 2 <= end
  <2>1. en[i] = en[i + 2]
    BY <1>1, <1>6 DEF FirstPass
  <2>2. i + 2 \in 1 .. Len(s) + 2
    BY <1>1
  <2>3. en[i + 2] # NoQuote
    BY <1>1, <2>1 DEF NoQuote
  <2> QED BY <1>1, <2>1, <2>2, <2>3, EndsAtQuote
<1>7. CASE s[i] = Backslash /\ s[i + 1] \in Escaped
  <2>1. PICK k \in Nat : k = i + 1 /\ k = i + 2 - 1 /\ k - 1 = i /\ k >= 2
    OBVIOUS
  <2>2. EndsPiece(s, k, 2, Meaning(s[k]))
    BY <1>7, <2>1 DEF EndsPiece, EndsEscape
  <2> QED BY <1>6, <1>7, <2>1, <2>2
<1>8. CASE s[i] = Backslash /\ s[i + 1] = Letters.u
  <2>1. PieceAt(s, i, end) = utf16_literal_to_utf8(s, i, end)
    <3>1. 117 \notin {Quote, Backslash, 47}
      BY DEF Quote, Backslash
    <3> QED BY <1>8, <3>1 DEF PieceAt, Letters
  <2>2. PICK a, b : a = parse_hex4(s, i + 2) /\ b = parse_hex4(s, i + 8)
    OBVIOUS
  <2>3. ~(end - i < 6) /\ ~LowHalf(a)
    BY <1>4, <2>1, <2>2, Zenon DEF utf16_literal_to_utf8
  <2>4. ASSUME NEW j \in 1 .. Len(s), j + 6 <= end, s[j] = Backslash, s[j + 1] = Letters.u
        PROVE  IsUnit(s, j)
    <3>1. j \in 1 .. Len(s) - 5 /\ j + 5 <= Len(s)
      BY <1>1, <2>4
    <3>2. AllHex(s, j + 2)
      BY <2>4, <3>1 DEF IsBroken
    <3> QED BY <2>4, <3>1, <3>2 DEF IsUnit
  <2>5. i + 6 <= end /\ IsUnit(s, i)
    BY <1>1, <1>8, <2>3, <2>4
  <2>6. CASE ~HighHalf(a)
    <3>1. PICK k \in Nat : k = i + 6 - 1 /\ k - 5 = i /\ k >= 6
      OBVIOUS
    <3>2. EndsPiece(s, k, 6, Unit(s, k - 5))
      BY <2>2, <2>3, <2>5, <2>6, <3>1 DEF EndsPiece, EndsUnit, Unit
    <3> QED BY <2>5, <3>1, <3>2
  <2>7. CASE HighHalf(a)
    <3>1. /\ ~(end - (i + 6) < 6) /\ s[i + 6] = Backslash /\ s[i + 7] = Letters.u
          /\ LowHalf(b)
      BY <1>4, <2>1, <2>2, <2>3, <2>7, Zenon DEF utf16_literal_to_utf8
    <3>7. Len(s) \in Nat /\ end \in 1 .. Len(s) /\ i \in 1 .. Len(s) /\ ~(end - (i + 6) < 6)
      BY <3>1
    <3>2. PICK j \in 1 .. Len(s) : j = i + 6 /\ j + 1 = i + 7 /\ j + 2 = i + 8 /\ j + 6 <= end
      BY ONLY <3>7
    <3>3. IsUnit(s, j)
      BY <2>4, <3>1, <3>2
    <3>4. PICK k \in Nat : k = i + 12 - 1 /\ k - 11 = i /\ k - 5 = j /\ k >= 12
      BY <3>2
    <3>5. EndsPiece(s, k, 12, Joined(Unit(s, k - 11), Unit(s, k - 5)))
      BY <2>2, <2>5, <2>7, <3>1, <3>2, <3>3, <3>4 DEF EndsPiece, EndsPair, Unit
    <3>6. i + 12 <= end
      BY <3>2
    <3> QED BY <3>4, <3>5, <3>6
  <2> QED BY <2>6, <2>7
<1>9. s[i] = Backslash => s[i + 1] \in Escaped \/ s[i + 1] = Letters.u
  <2> SUFFICES ASSUME s[i] = Backslash, s[i + 1] \notin Escaped, s[i + 1] # Letters.u
               PROVE  PieceAt(s, i, end) = Failure
    BY <1>4
  <2> QED BY DEF PieceAt, Letters, Escaped
<1> QED BY <1>5, <1>7, <1>8, <1>9

(* How far one reads changes nothing in what was read.                      *)
LEMMA SameReadings ==
  ASSUME NEW s \in Seq(Byte), NEW n \in 0 .. Len(s), NEW m \in 0 .. n
  PROVE  ReadFrom(s, n)[m] = Readings(s, m)
<1>1. PICK f, g : f = ReadFrom(s, n) /\ g = ReadFrom(s, m)
  OBVIOUS
<1>2. m \in Nat /\ m \in 0 .. Len(s)
  OBVIOUS
<1>3. f[0] = {<<>>} /\ \A k \in 1 .. n : f[k] = Longer(s, k, f)
  BY <1>1, ReadIs
<1>4. g[0] = {<<>>} /\ \A k \in 1 .. m : g[k] = Longer(s, k, g)
  BY <1>1, <1>2, ReadIs
<1> DEFINE T == {j \in 0 .. m : \A i \in 0 .. j : f[i] = g[i]}
<1>5. 0 \in T
  <2>1. \A i \in 0 .. 0 : i = 0
    OBVIOUS
  <2>2. 0 \in 0 .. m /\ f[0] = g[0]
    BY <1>2, <1>3, <1>4
  <2> QED BY <2>1, <2>2
<1>6. ASSUME NEW j \in 1 .. m, j - 1 \in T PROVE j \in T
  <2>1. j \in 1 .. n /\ j \in 1 .. Len(s) /\ j \in 0 .. m
    OBVIOUS
  <2>2. \A i \in 0 .. j - 1 : f[i] = g[i]
    BY <1>6
  <2>3. f[j] = g[j]
    BY <1>3, <1>4, <2>1, <2>2, LongerLocal
  <2>4. \A i \in 0 .. j : i = j \/ i \in 0 .. j - 1
    OBVIOUS
  <2> QED BY <2>1, <2>2, <2>3, <2>4
<1> HIDE DEF T
<1>7. m \in T
  <2>1. 0 .. m \subseteq T
    BY <1>2, <1>5, <1>6, UpTo
  <2> QED BY <1>2, <2>1
<1>8. f[m] = g[m]
  BY <1>2, <1>7 DEF T
<1> QED BY <1>1, <1>8, ReadByPlace

(* A text that the second pass accepts, and that has neither a broken \u    *)
(* nor a control character, can be read to its quote.                       *)
LEMMA AcceptedIsRead ==
  ASSUME NEW s \in Seq(Byte), NEW end \in 1 .. Len(s), s[end] = Quote, NEW en, NEW sk, NEW wr,
         FirstPass(s, en, sk), en[1] = end, Reads(s, end, wr), wr[1].ok,
         \A j \in 1 .. Len(s) - 5 : ~IsBroken(s, j), \A j \in 1 .. end - 1 : ~IsControl(s[j])
  PROVE  Readings(s, end - 1) # {}
<1>1. PICK n \in Nat : n = Len(s) /\ n \in 0 .. Len(s) /\ end \in Nat /\ 1 \in 1 .. end /\ end - 1 \in 0 .. n
  OBVIOUS
<1>2. PICK to : to = ReadFrom(s, n)
  OBVIOUS
<1>3. to[0] = {<<>>} /\ \A k \in 1 .. n : to[k] = Longer(s, k, to)
  BY <1>1, <1>2, ReadIs
<1> DEFINE G == {i \in 1 .. end : to[i - 1] # {} /\ wr[i].ok /\ en[i] = end}
<1>4. ASSUME NEW i \in G, i # end PROVE \E j \in G : i < j
  <2>1. i \in 1 .. Len(s) /\ i < end /\ i \in 1 .. Len(s) + 2 /\ i \in Nat
    BY <1>1, <1>4
  <2>2. SecondPass(s, end, wr) /\ wr[i].ok /\ en[i] = end /\ to[i - 1] # {}
    BY <1>4 DEF Reads
  <2>3. PieceAt(s, i, end).length # 0
    <3>1. PieceAt(s, i, end).length = 0 => wr[i] = Written(FALSE, <<>>, 0)
      BY <2>1, <2>2 DEF SecondPass
    <3>2. ~Written(FALSE, <<>>, 0).ok
      BY DEF Written
    <3> QED BY <2>2, <3>1, <3>2
  <2>14. ~IsControl(s[i])
    <3>1. i \in 1 .. end - 1
      BY <1>1, <2>1
    <3> QED BY <3>1
  <2>4. PICK length \in {1, 2, 6, 12} : \E code : i + length <= end /\ EndsPiece(s, i + length - 1, length, code)
    BY <2>1, <2>2, <2>3, <2>14, TakenEnds
  <2>5. PICK code : i + length <= end /\ EndsPiece(s, i + length - 1, length, code)
    BY <2>4
  <2>6. PICK k \in Nat : /\ k = i + length - 1 /\ i = k - length + 1 /\ k + 1 = i + length
                         /\ k - length = i - 1 /\ k \in 1 .. Len(s) /\ k < end
                         /\ length <= k /\ k \in 1 .. n
    BY <1>1, <2>1, <2>5
  <2>13. EndsPiece(s, k, length, code)
    BY <2>5, <2>6
  <2>7. PieceAt(s, i, end).length = length
    BY ONLY s \in Seq(Byte), end \in 1 .. Len(s), <2>1, <2>6, <2>13, PieceIsTaken
  <2>8. en[k + 1] = end
    <3>1. Len(s) \in Nat
      OBVIOUS
    <3>2. en[k - length + 1] = en[k + 1]
      <4>1. /\ FirstPass(s, en, sk) /\ k \in 1 .. Len(s) /\ length \in {1, 2, 6, 12}
            /\ EndsPiece(s, k, length, code) /\ length <= k
        BY <2>6, <2>13
      <4> QED BY ONLY <3>1, <4>1, PieceIsSkipped
    <3> QED BY <2>2, <2>6, <3>2
  <2>9. wr[k + 1].ok
    <3>1. PICK p : p = PieceAt(s, i, end)
      OBVIOUS
    <3>2. p.length # 0 /\ i + p.length = k + 1
      BY <2>3, <2>6, <2>7, <3>1
    <3>3. wr[i] = Written(wr[k + 1].ok, p.codes \o wr[k + 1].codes, p.size + wr[k + 1].size)
      BY <2>1, <2>2, <3>1, <3>2 DEF SecondPass
    <3> QED BY <2>2, <3>3 DEF Written
  <2>10. to[k] # {}
    <3>1. PICK y : y \in to[k - length]
      BY <2>2, <2>6
    <3>2. Append(y, code) \in Then(to[k - length], code)
      BY <3>1 DEF Then
    <3>3. Append(y, code) \in Longer(s, k, to)
      BY ONLY <2>13, <3>2, LongerIs
    <3> QED BY <1>3, <2>6, <3>3
  <2>11. k + 1 \in 1 .. end /\ i < k + 1 /\ (k + 1) - 1 = k
    <3>1. length > 0 /\ length \in Nat
      OBVIOUS
    <3> QED BY ONLY <1>1, <2>1, <2>6, <3>1, k \in Nat
  <2>12. k + 1 \in G
    BY <2>8, <2>9, <2>10, <2>11
  <2> QED BY <2>11, <2>12
<1>5. 1 \in G
  <2>1. 1 - 1 = 0 /\ to[0] # {}
    BY <1>3
  <2> QED BY <1>1, <2>1
<1>6. G \subseteq 1 .. end
  OBVIOUS
<1>7. end \in G => to[end - 1] # {}
  OBVIOUS
<1> HIDE DEF G
<1>8. end \in G
  <2> SUFFICES ASSUME end \notin G PROVE FALSE
    OBVIOUS
  <2> DEFINE T == {m \in 0 .. end : \A i \in 1 .. end : i >= end - m => i \notin G}
  <2>1. 0 \in T
    <3>1. \A i \in 1 .. end : i >= end - 0 => i = end
      OBVIOUS
    <3> QED BY <1>1, <3>1
  <2>2. ASSUME NEW m \in 1 .. end, m - 1 \in T PROVE m \in T
    <3>1. ASSUME NEW i \in 1 .. end, i >= end - m, i \in G PROVE FALSE
      <4>1. i # end
        BY <3>1
      <4>2. PICK j \in G : i < j
        BY <1>4, <3>1, <4>1
      <4>3. j \in 1 .. end /\ j >= end - (m - 1)
        BY <1>1, <1>6, <3>1, <4>2
      <4> QED BY <2>2, <4>3
    <3>2. m \in 0 .. end
      OBVIOUS
    <3> QED BY <3>1, <3>2
  <2> HIDE DEF T
  <2>3. 0 .. end \subseteq T
    BY <1>1, <2>1, <2>2, UpTo
  <2>4. end \in T
    BY <1>1, <2>3
  <2>5. 1 >= end - end
    BY <1>1
  <2> QED BY <1>1, <1>5, <2>4, <2>5 DEF T
<1> QED BY <1>1, <1>2, <1>7, <1>8, SameReadings

-----------------------------------------------------------------------------
(* What is decoded of one text, as EachDecodes asks.                        *)
Decodes(s) ==
  LET quotes == {q \in DOMAIN s : s[q] = Quote /\ Readings(s, q - 1) # {}}
  IN  IF quotes # {}
      THEN quotes = {Ends(s)} /\ Unescape(s).ok
           /\ Readings(s, Ends(s) - 1) = {Unescape(s).codes}
      ELSE Unescape(s).ok =>
           \/ \E i \in 1 .. Ends(s) - 1 : IsControl(s[i])
           \/ \E i \in 1 .. Len(s) - 5 : s[i] = Backslash /\ s[i + 1] = Letters.u /\ ~AllHex(s, i + 2)

(* It holds of every string of bytes. *)
LEMMA AlwaysDecodes ==
  ASSUME NEW s \in Seq(Byte)
  PROVE  Decodes(s)
<1>1. PICK en, sk, wr, end : /\ en = EndsFrom(s) /\ sk = SkippedFrom(s) /\ wr = WrittenFrom(s)
                             /\ end = Ends(s)
  OBVIOUS
<1>2. Len(s) \in Nat /\ 1 \in 1 .. Len(s) + 2 /\ DOMAIN s = 1 .. Len(s)
  OBVIOUS
<1>3. en[1] = end /\ FirstPass(s, en, sk)
  BY <1>1, <1>2, EndsByPlace, FirstPassIs
<1>4. ASSUME end # NoQuote
      PROVE  /\ end \in 1 .. Len(s) /\ s[end] = Quote /\ wr[1] = Unescape(s) /\ Reads(s, end, wr)
             /\ wr[end].codes = <<>> /\ wr[end].ok
  <2>1. end \in 1 .. Len(s) /\ s[end] = Quote /\ wr[1] = Unescape(s)
    BY <1>1, <1>2, <1>3, <1>4, EndsAtQuote, WrittenByPlace
  <2>2. QuotedAt(s, end)
    <3>1. \A i \in 1 .. Len(s) : s[i] \in Byte
      OBVIOUS
    <3> QED BY <1>2, <2>1, <3>1 DEF QuotedAt
  <2>3. SecondPass(s, end, wr)
    BY <1>1, <2>2, SecondPassIs
  <2>4. \A j \in 1 .. Len(s) + 2 : wr[j] \in Outputs
    <3>1. \A j \in 1 .. Len(s) + 2 : InBudget(wr, en, sk, end, j)
      BY <1>3, <2>2, <2>3, WithinAll DEF Passed
    <3> QED BY <3>1 DEF InBudget
  <2>5. wr[end] = Written(TRUE, <<>>, 0)
    <3>1. end \in 1 .. Len(s) + 2 /\ end >= end
      BY <1>2, <2>1
    <3> QED BY <2>3, <3>1 DEF SecondPass
  <2>6. wr[end].codes = <<>> /\ wr[end].ok
    BY <2>5 DEF Written
  <2> QED BY <2>1, <2>3, <2>4, <2>6 DEF Reads
<1>5. end = NoQuote => ~Unescape(s).ok
  BY <1>1 DEF Unescape, Written
<1> DEFINE quotes == {q \in DOMAIN s : s[q] = Quote /\ Readings(s, q - 1) # {}}
<1>6. ASSUME NEW q \in 1 .. Len(s), s[q] = Quote, NEW r \in Readings(s, q - 1)
      PROVE  q = end /\ r = Unescape(s).codes /\ Unescape(s).ok
  <2>1. PICK m \in 0 .. Len(s) : m = q - 1 /\ m + 1 = q
    BY <1>2
  <2>2. en[1] # NoQuote => Reads(s, en[1], wr)
    BY <1>3, <1>4
  <2>3. Agrees(en, wr, m, r)
    BY <1>3, <1>6, <2>1, <2>2, AllAgree
  <2>4. en[q] = q
    <3>1. q \in 1 .. Len(s) + 2 /\ q <= Len(s)
      BY <1>2
    <3> QED BY <1>3, <1>6, <3>1 DEF FirstPass
  <2>5. q = end
    BY <1>3, <2>1, <2>3, <2>4 DEF Agrees
  <2>6. end # NoQuote
    BY <1>2, <2>5 DEF NoQuote
  <2>7. r \in Seq(Nat) /\ wr[1].codes = r \o wr[end].codes /\ wr[1].ok = wr[end].ok
    BY <1>3, <2>1, <2>3, <2>5, <2>6 DEF Agrees
  <2>8. r \o <<>> = r
    BY <2>7
  <2> QED BY <1>4, <2>5, <2>6, <2>7, <2>8
<1>7. CASE quotes # {}
  <2>1. quotes \subseteq {end}
    BY <1>2, <1>6
  <2>2. quotes = {end}
    BY <1>7, <2>1
  <2>3. end \in 1 .. Len(s) /\ s[end] = Quote /\ Readings(s, end - 1) # {}
    BY <1>2, <2>2
  <2>4. Readings(s, end - 1) \subseteq {Unescape(s).codes} /\ Unescape(s).ok
    BY <1>6, <2>3
  <2>5. Readings(s, end - 1) = {Unescape(s).codes}
    BY <2>3, <2>4
  <2> HIDE DEF quotes
  <2>6. Ends(s) = end
    BY <1>1
  <2> QED BY <1>7, <2>2, <2>4, <2>5, <2>6 DEF Decodes, quotes
<1>8. CASE quotes = {}
  <2>1. ASSUME Unescape(s).ok, \A i \in 1 .. Len(s) - 5 : ~IsBroken(s, i),
               \A i \in 1 .. end - 1 : ~IsControl(s[i])
        PROVE  FALSE
    <3>1. end # NoQuote
      BY <1>5, <2>1
    <3>2. Readings(s, end - 1) # {}
      BY <1>3, <1>4, <2>1, <3>1, AcceptedIsRead
    <3> QED BY <1>2, <1>4, <1>8, <3>1, <3>2
  <2> HIDE DEF quotes
  <2>2. Ends(s) = end
    BY <1>1
  <2> QED BY <1>8, <2>1, <2>2 DEF Decodes, quotes, IsBroken
<1> QED BY <1>7, <1>8

(* The buffer of parse_string, allocated from the count of the backslashes  *)
(* alone, holds what the second pass writes and its terminating zero, for   *)
(* every string of bytes, whether it parses or not (cJSON.c:792-926).       *)
THEOREM NeverOutgrows == EachFits
<1>1. \A s \in Raws : s \in Seq(Byte)
  BY RawsAssumption
<1>2. ASSUME NEW s \in Raws, Ends(s) # NoQuote PROVE Unescape(s).size + 1 <= Allocated(s)
  <2>1. s \in Seq(Byte)
    BY <1>1
  <2>2. Unescape(s).size + 2 <= Allocated(s) /\ Unescape(s).size \in Nat /\ Allocated(s) \in Nat
    BY <1>2, <2>1, NeverOutgrown
  <2> QED BY <2>2
<1> QED BY <1>2 DEF EachFits

(* parse_string reads every JSON string to its own closing quote and makes  *)
(* of it what JSON says it means, no other quote ends one, and what it      *)
(* accepts beyond JSON has a control character as it is or a \u without     *)
(* four hexadecimal digits, for every string of bytes (cJSON.c:617-926).    *)
THEOREM StringsMeanJson == Spec => []DecodesJson
<1>1. EachDecodes
  <2>1. \A s \in Raws : Decodes(s)
    BY RawsAssumption, AlwaysDecodes
  <2> QED BY <2>1 DEF EachDecodes, Decodes
<1>2. DecodesJson
  BY <1>1, NeverOutgrows DEF DecodesJson
<1> QED BY <1>2, PTL

-----------------------------------------------------------------------------
(* The values of a text, as spans of it, and what cuts them.               *)

(* The least of a set of places. *)
LEMMA LeastIs ==
  ASSUME NEW S \in SUBSET Nat, S # {}
  PROVE  Min(S) \in S /\ \A y \in S : Min(S) <= y
<1> DEFINE R == {ss \in Nat \X Nat : ss[1] < ss[2]}
<1>1. IsWellFoundedOn(R, Nat)
  BY NatLessThanWellFounded DEF OpToRel
<1>0. \A x, y \in Nat : y < x => <<y, x>> \in R
  OBVIOUS
<1> HIDE DEF R
<1>2. PICK x \in S : \A y \in S : ~(<<y, x>> \in R)
  BY <1>1, WFMin
<1>3. ASSUME NEW y \in S PROVE x <= y
  <2>1. x \in Nat /\ y \in Nat /\ ~(y < x)
    BY <1>0, <1>2
  <2> QED BY <2>1
<1> QED BY <1>3 DEF Min

(* The first place of a set after a place. *)
LEMMA NextIs ==
  ASSUME NEW S \in SUBSET Nat, NEW p \in Nat, NEW z \in S, p < z, NEW n, n = FirstAfter(S, p)
  PROVE  n \in S /\ n \in Nat /\ p < n /\ \A q \in S : p < q => n <= q
<1> DEFINE A == {q \in S : q > p}
<1>1. A \in SUBSET Nat /\ z \in A
  OBVIOUS
<1>2. n \in A /\ \A y \in A : n <= y
  BY <1>1, LeastIs DEF FirstAfter
<1> QED BY <1>2

(* The next place of a set is known by what it is. *)
LEMMA NextKnown ==
  ASSUME NEW S \in SUBSET Nat, NEW p \in Nat, NEW n \in S, p < n, \A q \in S : p < q => n <= q
  PROVE  FirstAfter(S, p) = n
<1> PICK m : m = FirstAfter(S, p)
  OBVIOUS
<1>1. m \in S /\ m \in Nat /\ p < m /\ \A q \in S : p < q => m <= q
  BY NextIs
<1>2. m <= n /\ n <= m
  BY <1>1
<1> QED BY <1>1, <1>2

(* The last place of a set before a place. *)
LEMMA LastBefore ==
  ASSUME NEW S \in SUBSET Nat, NEW a \in S, NEW w \in Nat, a < w
  PROVE  \E p \in S : p < w /\ \A x \in S : x < w => x <= p
<1> DEFINE G == {g \in Nat : \E x \in S : x < w /\ g = w - x}
<1>1. G \in SUBSET Nat
  OBVIOUS
<1>2. w - a \in G
  OBVIOUS
<1>3. PICK g : g = Min(G)
  OBVIOUS
<1>4. g \in G /\ \A y \in G : g <= y
  BY <1>1, <1>2, <1>3, LeastIs
<1>5. PICK p \in S : p < w /\ g = w - p
  BY <1>4
<1>6. ASSUME NEW x \in S, x < w PROVE x <= p
  <2>1. w - x \in G
    BY <1>6
  <2>2. g <= w - x
    BY <1>4, <2>1
  <2> QED BY <1>5, <2>2
<1> QED BY <1>5, <1>6
-----------------------------------------------------------------------------
(* The tokens by names, for the provers.                                    *)
Comma == ","

(* The commas that cut what is between two places into elements. *)
IsCut(t, C, a, z, E) ==
  /\ C \in SUBSET Nat /\ \A p \in C : a < p /\ p < z /\ t[p] = Comma
  /\ \A p \in C \cup {a} : <<p + 1, FirstAfter(C \cup {z}, p) - 1>> \in E

(* A list's items stand between its brackets if they can be cut at commas.  *)
LEMMA BetweenIs ==
  ASSUME NEW t, NEW a \in Nat, NEW z \in Nat, NEW E
  PROVE  Between(t, a, z, E) <=> (z = a + 1 \/ \E C : IsCut(t, C, a, z, E))
<1> DEFINE P == {p \in a + 1 .. z - 1 : t[p] = Comma}
<1>1. ASSUME NEW C PROVE C \in SUBSET P <=> C \in SUBSET Nat /\ \A p \in C : a < p /\ p < z /\ t[p] = Comma
  <2>1. \A p \in P : p \in Nat /\ a < p /\ p < z /\ t[p] = Comma
    OBVIOUS
  <2>2. \A p \in Nat : a < p /\ p < z /\ t[p] = Comma => p \in P
    OBVIOUS
  <2> HIDE DEF P
  <2> QED BY <2>1, <2>2
<1>2. Between(t, a, z, E) <=>
        z = a + 1 \/ \E C \in SUBSET P : \A p \in C \cup {a} : <<p + 1, FirstAfter(C \cup {z}, p) - 1>> \in E
  <2>1. {p \in a + 1 .. z - 1 : t[p] = ","} = P
    BY DEF Comma
  <2> HIDE DEF P
  <2> QED BY <2>1 DEF Between
<1> HIDE DEF P
<1> QED BY <1>1, <1>2 DEF IsCut

(* One element, and one more behind a comma. *)
LEMMA CutOne ==
  ASSUME NEW t, NEW a \in Nat, NEW z \in Nat, a < z, NEW E, <<a + 1, z - 1>> \in E
  PROVE  IsCut(t, {}, a, z, E)
<1>1. PICK S : S = {} \cup {z}
  OBVIOUS
<1>2. S \in SUBSET Nat /\ z \in S /\ \A q \in S : a < q => z <= q
  BY <1>1
<1>3. FirstAfter(S, a) = z
  BY <1>2, NextKnown
<1> QED BY <1>1, <1>3 DEF IsCut

(* One more item behind a comma makes one more cut.                         *)
LEMMA CutGrows ==
  ASSUME NEW t, NEW a \in Nat, NEW c \in Nat, NEW z \in Nat, a < c, c < z, NEW E, NEW C,
         IsCut(t, C, a, c, E), t[c] = Comma, <<c + 1, z - 1>> \in E
  PROVE  IsCut(t, C \cup {c}, a, z, E)
<1>1. C \in SUBSET Nat /\ \A p \in C : a < p /\ p < c /\ t[p] = Comma
  BY DEF IsCut
<1>2. C \cup {c} \in SUBSET Nat /\ \A p \in C \cup {c} : a < p /\ p < z /\ t[p] = Comma
  <2>1. \A p \in C : p \in Nat /\ p < c /\ p < z
    BY <1>1
  <2> QED BY <1>1, <2>1
<1>3. PICK X : X = C \cup {c}
  OBVIOUS
<1>4. PICK Y : Y = (C \cup {c}) \cup {z}
  OBVIOUS
<1>5. X \in SUBSET Nat /\ c \in X /\ Y \in SUBSET Nat /\ z \in Y
  BY <1>1, <1>3, <1>4
<1>6. ASSUME NEW p \in C \cup {a} PROVE <<p + 1, FirstAfter(Y, p) - 1>> \in E
  <2>1. PICK n : n = FirstAfter(X, p)
    OBVIOUS
  <2>2. <<p + 1, n - 1>> \in E
    BY <1>3, <2>1 DEF IsCut
  <2>3. p \in Nat /\ p < c
    BY <1>1
  <2>4. n \in X /\ n \in Nat /\ p < n /\ \A q \in X : p < q => n <= q
    BY <1>5, <2>1, <2>3, NextIs
  <2>5. n \in Y /\ n <= z /\ \A q \in Y : p < q => n <= q
    <3>1. n \in Y /\ n <= z
      <4>1. \A p1 \in C : p1 \in Nat /\ p1 <= z
        BY <1>1
      <4> QED BY <1>3, <1>4, <2>4, <4>1
    <3>2. \A q \in Y : q \in X \/ q = z
      BY <1>3, <1>4
    <3> QED BY <2>4, <3>1, <3>2
  <2>6. FirstAfter(Y, p) = n
    BY <1>5, <2>3, <2>4, <2>5, NextKnown
  <2> QED BY <2>2, <2>6
<1>7. FirstAfter(Y, c) = z
  <2>1. \A p \in C : p \in Nat /\ ~(c < p)
    BY <1>1
  <2>2. \A q \in Y : c < q => z <= q
    BY <1>4, <2>1
  <2> QED BY <1>5, <2>2, NextKnown
<1>8. \A p \in (C \cup {c}) \cup {a} : <<p + 1, FirstAfter(Y, p) - 1>> \in E
  BY <1>6, <1>7
<1> QED BY <1>2, <1>4, <1>8 DEF IsCut

(* No two spans of a set begin at the same place. *)
OneEnd(E) == \A i, j, k : <<i, j>> \in E /\ <<i, k>> \in E => j = k

(* Two cuts from the same place go through the same places, until one ends. *)
LEMMA CutsMeet ==
  ASSUME NEW t, NEW a \in Nat, NEW c \in Nat, NEW z \in Nat, a < c, a < z, c # z, NEW E \in SUBSET (Nat \X Nat), OneEnd(E),
         NEW C, IsCut(t, C, a, c, E), NEW D, IsCut(t, D, a, z, E)
  PROVE  c \in D \/ z \in C
<1> SUFFICES ASSUME c \notin D, z \notin C PROVE FALSE
  OBVIOUS
<1>1. /\ C \in SUBSET Nat /\ \A p \in C : a < p /\ p < c
      /\ D \in SUBSET Nat /\ \A p \in D : a < p /\ p < z
  BY DEF IsCut
<1>2. PICK X : X = C \cup {c}
  OBVIOUS
<1>3. PICK Y : Y = D \cup {z}
  OBVIOUS
<1>4. X \in SUBSET Nat /\ Y \in SUBSET Nat /\ \A x \in X \cup Y : a < x
  BY <1>1, <1>2, <1>3
<1>5. c \in X /\ c \notin Y
  BY <1>2, <1>3
<1>6. PICK W : W = (X \ Y) \cup (Y \ X)
  OBVIOUS
<1>7. PICK w : w = Min(W)
  OBVIOUS
<1>8. w \in W /\ w \in Nat /\ \A y \in W : w <= y
  BY <1>4, <1>5, <1>6, <1>7, LeastIs
<1>9. a < w
  BY <1>4, <1>6, <1>8
<1>10. PICK p \in X \cup {a} : p < w /\ \A x \in X \cup {a} : x < w => x <= p
  <2>1. X \cup {a} \in SUBSET Nat /\ a \in X \cup {a}
    BY <1>4
  <2> QED BY <1>8, <1>9, <2>1, LastBefore
<1>11. p \in Nat
  BY <1>4
<1>12. \A x \in X \cup Y : x < w => x \in X \cap Y
  <2> SUFFICES ASSUME NEW x \in X \cup Y, x < w, x \notin X \cap Y PROVE FALSE
    OBVIOUS
  <2>1. x \in W /\ x \in Nat
    BY <1>4, <1>6
  <2> QED BY <1>8, <2>1
<1>13. p # a => p \in X \cap Y
  BY <1>10, <1>12
<1>14. p \in C \cup {a} /\ p \in D \cup {a}
  BY <1>2, <1>3, <1>5, <1>13
<1>15. p < c /\ p < z
  BY <1>1, <1>14
<1>16. PICK m : m = FirstAfter(X, p)
  OBVIOUS
<1>17. PICK n : n = FirstAfter(Y, p)
  OBVIOUS
<1>18. m \in X /\ m \in Nat /\ p < m /\ \A q \in X : p < q => m <= q
  BY <1>4, <1>5, <1>11, <1>15, <1>16, NextIs
<1>19. n \in Y /\ n \in Nat /\ p < n /\ \A q \in Y : p < q => n <= q
  <2>1. z \in Y
    BY <1>3
  <2> QED BY <1>4, <1>11, <1>15, <1>17, <2>1, NextIs
<1>20. <<p + 1, m - 1>> \in E /\ <<p + 1, n - 1>> \in E
  BY <1>2, <1>3, <1>14, <1>16, <1>17 DEF IsCut
<1>21. m = n
  <2>1. m - 1 = n - 1
    BY <1>20 DEF OneEnd
  <2> QED BY <1>18, <1>19, <2>1
<1>22. \A x \in X \cup Y : x < w => x <= p
  BY <1>10, <1>12
<1>23. m = w
  <2>1. w \in X \cup Y
    BY <1>6, <1>8
  <2>2. w <= m
    <3>1. ~(m < w)
      BY <1>18, <1>22
    <3> QED BY <1>8, <1>18, <3>1
  <2>3. m <= w
    BY <1>10, <1>18, <1>19, <1>21, <2>1
  <2> QED BY <1>8, <1>18, <2>2, <2>3
<1> QED BY <1>6, <1>8, <1>18, <1>19, <1>21, <1>23
-----------------------------------------------------------------------------
(* The values of at most d open lists, by d.                                *)
ValuesOf(t, f) ==
  [d \in 0 .. NestingLimit |->
     IF d = 0 THEN Scalars(t) ELSE LET inner == f[d - 1] IN inner \cup Lists(t, inner)]
ValuesFrom(t) == CHOOSE f : f = ValuesOf(t, f)

(* The elements of a list that begins with the bracket open. *)
Elements(t, open, E) == IF open = "[" THEN E ELSE NamedSpans(t, E)

IsText(t) == t \in Seq(Strings \cup Marks)

(* The values of a text, list by list from inside.                          *)
LEMMA ValuesByPlace == ASSUME NEW t PROVE Values(t) = ValuesFrom(t)[NestingLimit]
BY DEF Values, ValuesFrom, ValuesOf

(* The tokens of a text and its places.                                     *)
LEMMA TextIs ==
  ASSUME NEW t, IsText(t)
  PROVE  Len(t) \in Nat /\ DOMAIN t = 1 .. Len(t) /\ \A i \in 1 .. Len(t) : t[i] \in Strings \cup Marks
BY DEF IsText

(* A span begins and ends in the text.                                      *)
LEMMA SpansAre ==
  ASSUME NEW t, IsText(t), NEW i, NEW j
  PROVE  <<i, j>> \in Spans(t) <=> i \in 1 .. Len(t) /\ j \in 1 .. Len(t) /\ i <= j
<1>1. DOMAIN t = 1 .. Len(t)
  BY TextIs
<1>2. ASSUME <<i, j>> \in Spans(t) PROVE i \in DOMAIN t /\ j \in DOMAIN t /\ i <= j
  BY <1>2 DEF Spans
<1>3. ASSUME i \in DOMAIN t, j \in DOMAIN t, i <= j PROVE <<i, j>> \in Spans(t)
  <2>1. PICK D : D = DOMAIN t
    OBVIOUS
  <2>2. <<i, j>> \in D \X D
    BY <1>3, <2>1
  <2>3. <<i, j>>[1] = i /\ <<i, j>>[2] = j
    OBVIOUS
  <2>4. <<i, j>> \in D \X D /\ <<i, j>>[1] <= <<i, j>>[2]
    BY <1>3, <2>2, <2>3
  <2>5. Spans(t) = {span \in D \X D : span[1] <= span[2]}
    BY <2>1 DEF Spans
  <2> QED BY <2>4, <2>5
<1> QED BY <1>1, <1>2, <1>3

(* A named span is a name, a colon and a value.                             *)
LEMMA NamedSpansAre ==
  ASSUME NEW t, NEW E, NEW i, NEW j
  PROVE  <<i, j>> \in NamedSpans(t, E) <=>
           <<i, j>> \in Spans(t) /\ t[i] \in Strings /\ i + 2 <= j /\ t[i + 1] = ":" /\ <<i + 2, j>> \in E
<1>1. <<i, j>> \in NamedSpans(t, E) <=>
        /\ <<i, j>> \in Spans(t) /\ t[<<i, j>>[1]] \in Strings /\ <<i, j>>[1] + 2 <= <<i, j>>[2]
        /\ t[<<i, j>>[1] + 1] = ":" /\ <<<<i, j>>[1] + 2, <<i, j>>[2]>> \in E
  BY DEF NamedSpans
<1>2. <<i, j>>[1] = i /\ <<i, j>>[2] = j
  OBVIOUS
<1> QED BY <1>1, <1>2

(* A scalar is one token.                                                   *)
LEMMA ScalarsAre ==
  ASSUME NEW t, IsText(t), NEW i, NEW j
  PROVE  <<i, j>> \in Scalars(t) <=>
           i \in 1 .. Len(t) /\ i = j /\ t[i] \in Literals \cup {"number"} \cup Strings
<1>1. DOMAIN t = 1 .. Len(t)
  BY TextIs
<1> QED BY <1>1 DEF Scalars

(* A list is brackets with its elements between.                            *)
LEMMA ListsAre ==
  ASSUME NEW t, NEW E, NEW i, NEW j
  PROVE  <<i, j>> \in Lists(t, E) <=>
           /\ <<i, j>> \in Spans(t)
           /\ t[i] \in Opening /\ t[j] = ClosingOf(t[i]) /\ Between(t, i, j, Elements(t, t[i], E))
<1>1. <<i, j>> \in Lists(t, E) <=>
        /\ <<i, j>> \in Spans(t)
        /\ \/ t[<<i, j>>[1]] = "[" /\ t[<<i, j>>[2]] = "]" /\ Between(t, <<i, j>>[1], <<i, j>>[2], E)
           \/ t[<<i, j>>[1]] = "{" /\ t[<<i, j>>[2]] = "}" /\ Between(t, <<i, j>>[1], <<i, j>>[2], NamedSpans(t, E))
  BY DEF Lists
<1>2. <<i, j>>[1] = i /\ <<i, j>>[2] = j
  OBVIOUS
<1>3. <<i, j>> \in Lists(t, E) <=>
        /\ <<i, j>> \in Spans(t)
        /\ \/ t[i] = "[" /\ t[j] = "]" /\ Between(t, i, j, E)
           \/ t[i] = "{" /\ t[j] = "}" /\ Between(t, i, j, NamedSpans(t, E))
  BY <1>1, <1>2
<1>4. "[" # "{"
  OBVIOUS
<1>5. CASE t[i] = "["
  <2>1. ClosingOf(t[i]) = "]" /\ Elements(t, t[i], E) = E /\ t[i] \in Opening
    BY <1>5 DEF ClosingOf, Elements, Opening
  <2> QED BY <1>3, <1>4, <1>5, <2>1
<1>6. CASE t[i] = "{"
  <2>1. ClosingOf(t[i]) = "}" /\ Elements(t, t[i], E) = NamedSpans(t, E) /\ t[i] \in Opening
    BY <1>4, <1>6 DEF ClosingOf, Elements, Opening
  <2> QED BY <1>3, <1>4, <1>6, <2>1
<1>7. CASE t[i] \notin Opening
  <2>1. t[i] # "[" /\ t[i] # "{"
    BY <1>7 DEF Opening
  <2> QED BY <1>3, <1>7, <2>1
<1>8. t[i] \in Opening => t[i] = "[" \/ t[i] = "{"
  BY DEF Opening
<1> QED BY <1>5, <1>6, <1>7, <1>8

(* The recursion of Values, in steps.                                       *)
IsValues(t, V) ==
  /\ V[0] = Scalars(t)
  /\ \A d \in 1 .. NestingLimit : V[d] = V[d - 1] \cup Lists(t, V[d - 1])
  /\ \A d \in 0 .. NestingLimit : V[d] \subseteq Spans(t)

(* The values are well defined at every depth.                              *)
LEMMA ValuesExist ==
  ASSUME NEW t, IsText(t)
  PROVE  IsValues(t, ValuesFrom(t))
<1> DEFINE S == SUBSET Spans(t)
           step == [d \in 1 .. NestingLimit |-> [s \in S |-> s \cup Lists(t, s)]]
<1>0. NestingLimit \in Nat
  BY FormAssumption
<1>1. Scalars(t) \in S
  <2>1. ASSUME NEW span \in Scalars(t) PROVE span \in Spans(t)
    <3>1. PICK i \in DOMAIN t : span = <<i, i>>
      BY <2>1 DEF Scalars
    <3>2. i \in 1 .. Len(t) /\ i <= i /\ Len(t) \in Nat
      BY <3>1, TextIs
    <3> QED BY <3>1, <3>2, SpansAre
  <2> QED BY <2>1
<1>2. \A s : Lists(t, s) \subseteq Spans(t)
  BY DEF Lists
<1>3. step \in [1 .. NestingLimit -> [S -> S]]
  BY <1>2
<1>4. \A d \in 1 .. NestingLimit, s \in S : step[d][s] = s \cup Lists(t, s)
  OBVIOUS
<1> HIDE DEF S, step
<1>5. Iterations(NestingLimit, S, Scalars(t), step) # {}
  BY <1>0, <1>1, <1>3, Recursion
<1>6. PICK f : f \in Iterations(NestingLimit, S, Scalars(t), step)
  BY <1>5
<1>7. f \in [0 .. NestingLimit -> S] /\ f[0] = Scalars(t)
      /\ \A d \in 1 .. NestingLimit : f[d] = step[d][f[d - 1]]
  BY <1>6 DEF Iterations
<1>8. \A d \in 1 .. NestingLimit : f[d] = f[d - 1] \cup Lists(t, f[d - 1])
  <2> SUFFICES ASSUME NEW d \in 1 .. NestingLimit PROVE f[d] = f[d - 1] \cup Lists(t, f[d - 1])
    OBVIOUS
  <2>1. d - 1 \in 0 .. NestingLimit
    BY <1>0
  <2>2. f[d - 1] \in S
    BY <1>7, <2>1
  <2> QED BY <1>4, <1>7, <2>2
<1>9. f = ValuesOf(t, f)
  <2>1. f = [d \in 0 .. NestingLimit |-> f[d]]
    BY <1>7
  <2>2. ASSUME NEW d \in 0 .. NestingLimit
        PROVE  f[d] = IF d = 0 THEN Scalars(t) ELSE f[d - 1] \cup Lists(t, f[d - 1])
    <3>1. d # 0 => d \in 1 .. NestingLimit
      BY <1>0
    <3> QED BY <1>7, <1>8, <3>1
  <2> QED BY <2>1, <2>2 DEF ValuesOf
<1>10. PICK g : g = ValuesFrom(t)
  OBVIOUS
<1>11. g = ValuesOf(t, g)
  BY <1>9, <1>10 DEF ValuesFrom
<1>12. \A d \in 0 .. NestingLimit : g[d] = IF d = 0 THEN Scalars(t) ELSE g[d - 1] \cup Lists(t, g[d - 1])
  BY <1>11 DEF ValuesOf
<1>13. g[0] = Scalars(t) /\ \A d \in 1 .. NestingLimit : g[d] = g[d - 1] \cup Lists(t, g[d - 1])
  <2>1. 0 \in 0 .. NestingLimit /\ \A d \in 1 .. NestingLimit : d \in 0 .. NestingLimit /\ d # 0
    BY <1>0
  <2> QED BY <1>12, <2>1
<1>14. \A d \in 0 .. NestingLimit : g[d] \subseteq Spans(t)
  <2> DEFINE T == {d \in 0 .. NestingLimit : g[d] \subseteq Spans(t)}
  <2>1. 0 \in T
    BY <1>0, <1>1, <1>13 DEF S
  <2>2. \A d \in 1 .. NestingLimit : d - 1 \in T => d \in T
    BY <1>0, <1>2, <1>13
  <2> HIDE DEF T
  <2>3. 0 .. NestingLimit \subseteq T
    BY <1>0, <2>1, <2>2, UpTo
  <2> QED BY <2>3 DEF T
<1> QED BY <1>10, <1>13, <1>14 DEF IsValues
-----------------------------------------------------------------------------
(* What a value may begin with. *)
Atoms == Literals \cup {"number"} \cup Strings
Beginnings == Atoms \cup Opening

(* No token that begins a value closes a list or separates items.           *)
LEMMA TokensDiffer ==
  /\ Comma \notin Beginnings /\ ":" \notin Beginnings /\ ":" # Comma
  /\ Atoms \cap Opening = {}
  /\ \A open \in Opening :
       ClosingOf(open) \notin Beginnings /\ ClosingOf(open) # Comma /\ ClosingOf(open) # ":"
<1>1. /\ "," \in Marks /\ ":" \in Marks /\ "[" \in Marks /\ "{" \in Marks /\ "]" \in Marks /\ "}" \in Marks
      /\ Strings \cap Marks = {}
  BY FormAssumption DEF Marks, Opening
<1>2. /\ "," \notin Literals \cup {"number"} /\ ":" \notin Literals \cup {"number"}
      /\ "[" \notin Literals \cup {"number"} /\ "{" \notin Literals \cup {"number"}
      /\ "]" \notin Literals \cup {"number"} /\ "}" \notin Literals \cup {"number"}
  BY DEF Literals
<1>3. /\ "," \notin Opening /\ ":" \notin Opening /\ "]" \notin Opening /\ "}" \notin Opening
      /\ "," # ":" /\ "]" # "," /\ "}" # "," /\ "]" # ":" /\ "}" # ":"
  BY DEF Opening
<1>4. \A open : ClosingOf(open) = "]" \/ ClosingOf(open) = "}"
  BY DEF ClosingOf
<1>5. Comma \notin Beginnings /\ ":" \notin Beginnings /\ ":" # Comma
  BY <1>1, <1>2, <1>3 DEF Comma, Beginnings, Atoms
<1>6. Atoms \cap Opening = {}
  <2>1. \A x \in Opening : x = "[" \/ x = "{"
    BY DEF Opening
  <2>2. "[" \notin Atoms /\ "{" \notin Atoms
    BY <1>1, <1>2 DEF Atoms
  <2> QED BY <2>1, <2>2
<1>7. "]" \notin Beginnings /\ "}" \notin Beginnings
  BY <1>1, <1>2, <1>3 DEF Beginnings, Atoms
<1>8. \A open \in Opening :
        ClosingOf(open) \notin Beginnings /\ ClosingOf(open) # Comma /\ ClosingOf(open) # ":"
  BY <1>3, <1>4, <1>7 DEF Comma
<1> QED BY <1>5, <1>6, <1>8

(* More spans, more lists of them. *)
LEMMA ListsMore ==
  ASSUME NEW t, IsText(t), NEW E, NEW F, E \subseteq F, F \subseteq Spans(t), NEW i, NEW j, <<i, j>> \in Lists(t, E)
  PROVE  <<i, j>> \in Lists(t, F)
<1>1. /\ <<i, j>> \in Spans(t)
      /\ t[i] \in Opening /\ t[j] = ClosingOf(t[i]) /\ Between(t, i, j, Elements(t, t[i], E))
  BY ListsAre
<1>2. i \in Nat /\ j \in Nat
  BY <1>1, SpansAre
<1>3. Elements(t, t[i], E) \subseteq Elements(t, t[i], F)
  BY DEF Elements, NamedSpans
<1>4. j = i + 1 \/ \E C : IsCut(t, C, i, j, Elements(t, t[i], E))
  BY <1>1, <1>2, BetweenIs
<1>5. \A C : IsCut(t, C, i, j, Elements(t, t[i], E)) => IsCut(t, C, i, j, Elements(t, t[i], F))
  BY <1>3 DEF IsCut
<1>6. Between(t, i, j, Elements(t, t[i], F))
  BY <1>2, <1>4, <1>5, BetweenIs
<1> QED BY <1>1, <1>6, ListsAre

(* What is a value is one too where more lists may be open.                 *)
LEMMA ValuesMore ==
  ASSUME NEW t, NEW V, IsValues(t, V), NEW e \in 0 .. NestingLimit, NEW d \in 0 .. e
  PROVE  V[d] \subseteq V[e]
<1> DEFINE T == {x \in 0 .. NestingLimit : d <= x => V[d] \subseteq V[x]}
<1>0. NestingLimit \in Nat
  BY FormAssumption
<1>1. 0 \in T
  BY <1>0
<1>2. ASSUME NEW x \in 1 .. NestingLimit, x - 1 \in T PROVE x \in T
  <2>1. V[x - 1] \subseteq V[x]
    BY DEF IsValues
  <2>2. d <= x => d = x \/ d <= x - 1
    BY <1>0
  <2>3. x \in 0 .. NestingLimit
    BY <1>0
  <2> QED BY <1>2, <2>1, <2>2, <2>3
<1> HIDE DEF T
<1>3. 0 .. NestingLimit \subseteq T
  BY <1>0, <1>1, <1>2, UpTo
<1> QED BY <1>0, <1>3 DEF T

(* A value is an atom, or a list of values of one open list less. *)
LEMMA ValueIs ==
  ASSUME NEW t, IsText(t), NEW V, IsValues(t, V), NEW d \in 0 .. NestingLimit, NEW i, NEW j, <<i, j>> \in V[d]
  PROVE  /\ i \in 1 .. Len(t) /\ j \in 1 .. Len(t) /\ i <= j
         /\ \/ t[i] \in Atoms /\ i = j
            \/ t[i] \in Opening /\ d # 0 /\ <<i, j>> \in Lists(t, V[d - 1])
<1>0. NestingLimit \in Nat
  BY FormAssumption
<1>1. i \in 1 .. Len(t) /\ j \in 1 .. Len(t) /\ i <= j
  BY SpansAre DEF IsValues
<1> DEFINE Q(x) == \/ t[i] \in Atoms /\ i = j
                   \/ t[i] \in Opening /\ x # 0 /\ <<i, j>> \in Lists(t, V[x - 1])
           T == {x \in 0 .. NestingLimit : <<i, j>> \in V[x] => Q(x)}
<1>2. 0 \in T
  <2>1. <<i, j>> \in V[0] => t[i] \in Atoms /\ i = j
    BY ScalarsAre DEF IsValues, Atoms
  <2> QED BY <1>0, <2>1
<1>3. ASSUME NEW x \in 1 .. NestingLimit, x - 1 \in T PROVE x \in T
  <2>0. x \in 0 .. NestingLimit /\ x - 1 \in 0 .. NestingLimit /\ x # 0
    BY <1>0
  <2>1. CASE <<i, j>> \in Lists(t, V[x - 1])
    <3>1. t[i] \in Opening
      BY <2>1, ListsAre
    <3> QED BY <2>0, <2>1, <3>1
  <2>2. CASE <<i, j>> \in V[x - 1]
    <3>1. Q(x - 1)
      BY <1>3, <2>2
    <3>2. CASE t[i] \in Atoms /\ i = j
      BY <2>0, <3>2
    <3>3. CASE t[i] \in Opening /\ x - 1 # 0 /\ <<i, j>> \in Lists(t, V[x - 1 - 1])
      <4>1. PICK y \in 0 .. NestingLimit : y = x - 1 - 1 /\ y \in 0 .. x - 1
        BY <1>0, <2>0, <3>3
      <4>2. V[y] \subseteq V[x - 1] /\ V[x - 1] \subseteq Spans(t)
        BY <2>0, <4>1, ValuesMore DEF IsValues
      <4>3. <<i, j>> \in Lists(t, V[x - 1])
        BY <3>3, <4>1, <4>2, ListsMore
      <4> QED BY <2>0, <3>3, <4>3
    <3> QED BY <3>1, <3>2, <3>3
  <2>3. <<i, j>> \in V[x] => <<i, j>> \in V[x - 1] \/ <<i, j>> \in Lists(t, V[x - 1])
    BY DEF IsValues
  <2> HIDE DEF Q
  <2> QED BY <2>0, <2>1, <2>2, <2>3
<1> HIDE DEF T, Q
<1>4. 0 .. NestingLimit \subseteq T
  BY <1>0, <1>2, <1>3, UpTo
<1>5. Q(d)
  BY <1>4 DEF T
<1> QED BY <1>1, <1>5 DEF Q
-----------------------------------------------------------------------------
(* Spans to make lists of: in the text, one for a place, and no bracket of  *)
(* another list nor a comma at the beginning.                               *)
Solid(t, E) ==
  /\ E \subseteq Spans(t) /\ OneEnd(E)
  /\ \A i, j : <<i, j>> \in E => t[i] \in Beginnings

(* The elements of a list are solid if the values are.                      *)
LEMMA ElementsSolid ==
  ASSUME NEW t, IsText(t), NEW E, Solid(t, E), NEW open
  PROVE  Solid(t, Elements(t, open, E)) /\ Elements(t, open, E) \in SUBSET (Nat \X Nat)
<1>1. Spans(t) \in SUBSET (Nat \X Nat)
  <2>1. DOMAIN t \subseteq Nat
    BY TextIs
  <2> QED BY <2>1 DEF Spans
<1>2. CASE open = "["
  <2>1. Elements(t, open, E) = E
    BY <1>2 DEF Elements
  <2> QED BY <1>1, <2>1 DEF Solid
<1>3. CASE open # "["
  <2>1. Elements(t, open, E) = NamedSpans(t, E)
    BY <1>3 DEF Elements
  <2>2. PICK M : M = NamedSpans(t, E)
    OBVIOUS
  <2>3. \A i, j : <<i, j>> \in M => <<i, j>> \in Spans(t) /\ t[i] \in Strings /\ <<i + 2, j>> \in E
    BY <2>2, NamedSpansAre
  <2>4. M \subseteq Spans(t)
    BY <2>2 DEF NamedSpans
  <2>5. OneEnd(M)
    BY <2>3 DEF OneEnd, Solid
  <2>6. \A i, j : <<i, j>> \in M => t[i] \in Beginnings
    BY <2>3 DEF Beginnings, Atoms
  <2> QED BY <1>1, <2>1, <2>2, <2>4, <2>5, <2>6 DEF Solid
<1> QED BY <1>2, <1>3

(* The first element of a list. *)
LEMMA FirstElement ==
  ASSUME NEW t, NEW E, NEW C, NEW a \in Nat, NEW z, IsCut(t, C, a, z, E), Solid(t, E)
  PROVE  t[a + 1] \in Beginnings
<1>1. <<a + 1, FirstAfter(C \cup {z}, a) - 1>> \in E
  BY DEF IsCut
<1> QED BY <1>1 DEF Solid

(* A list has one end if its elements have.                                 *)
LEMMA ListsOneEnd ==
  ASSUME NEW t, IsText(t), NEW E, Solid(t, E), NEW i, NEW j, NEW k, <<i, j>> \in Lists(t, E), <<i, k>> \in Lists(t, E)
  PROVE  j = k
<1> SUFFICES ASSUME j # k PROVE FALSE
  OBVIOUS
<1>1. PICK F : F = Elements(t, t[i], E)
  OBVIOUS
<1>2. Solid(t, F) /\ F \in SUBSET (Nat \X Nat) /\ OneEnd(F)
  BY <1>1, ElementsSolid DEF Solid
<1>3. /\ <<i, j>> \in Spans(t) /\ <<i, k>> \in Spans(t)
      /\ t[i] \in Opening /\ t[j] = ClosingOf(t[i]) /\ t[k] = ClosingOf(t[i])
      /\ Between(t, i, j, F) /\ Between(t, i, k, F)
  BY <1>1, ListsAre
<1>4. i \in Nat /\ j \in Nat /\ k \in Nat /\ i <= j /\ i <= k
  BY <1>3, SpansAre
<1>5. t[j] \notin Beginnings /\ t[k] \notin Beginnings /\ t[j] # Comma /\ t[k] # Comma
  BY <1>3, TokensDiffer
<1>6. i # j /\ i # k
  BY <1>3, <1>5 DEF Beginnings
<1>7. CASE j = i + 1
  <2>1. PICK C : IsCut(t, C, i, k, F)
    BY <1>3, <1>4, <1>7, BetweenIs
  <2> QED BY <1>2, <1>4, <1>5, <1>7, <2>1, FirstElement
<1>8. CASE k = i + 1
  <2>1. PICK C : IsCut(t, C, i, j, F)
    BY <1>3, <1>4, <1>8, BetweenIs
  <2> QED BY <1>2, <1>4, <1>5, <1>8, <2>1, FirstElement
<1>9. CASE j # i + 1 /\ k # i + 1
  <2>1. PICK C : IsCut(t, C, i, j, F)
    BY <1>3, <1>4, <1>9, BetweenIs
  <2>2. PICK D : IsCut(t, D, i, k, F)
    BY <1>3, <1>4, <1>9, BetweenIs
  <2>3. i < j /\ i < k
    BY <1>4, <1>6
  <2>4. j \in D \/ k \in C
    BY <1>2, <1>4, <2>1, <2>2, <2>3, CutsMeet
  <2>5. t[j] = Comma \/ t[k] = Comma
    BY <2>1, <2>2, <2>4 DEF IsCut
  <2> QED BY <1>5, <2>5
<1> QED BY <1>7, <1>8, <1>9

(* A value ends at one place. *)
LEMMA ValuesSolid ==
  ASSUME NEW t, IsText(t), NEW V, IsValues(t, V), NEW d \in 0 .. NestingLimit
  PROVE  Solid(t, V[d])
<1>0. NestingLimit \in Nat
  BY FormAssumption
<1>1. \A x \in 0 .. NestingLimit : \A i, j : <<i, j>> \in V[x] => t[i] \in Beginnings
  BY ValueIs DEF Beginnings
<1> DEFINE T == {x \in 0 .. NestingLimit : Solid(t, V[x])}
<1>2. ASSUME NEW x \in 0 .. NestingLimit, x # 0 => x - 1 \in T PROVE OneEnd(V[x])
  <2> SUFFICES ASSUME NEW i, NEW j, NEW k, <<i, j>> \in V[x], <<i, k>> \in V[x] PROVE j = k
    BY DEF OneEnd
  <2>1. \/ t[i] \in Atoms /\ i = j
        \/ t[i] \in Opening /\ x # 0 /\ <<i, j>> \in Lists(t, V[x - 1])
    BY ValueIs
  <2>2. \/ t[i] \in Atoms /\ i = k
        \/ t[i] \in Opening /\ x # 0 /\ <<i, k>> \in Lists(t, V[x - 1])
    BY ValueIs
  <2>3. ~(t[i] \in Atoms /\ t[i] \in Opening)
    BY TokensDiffer
  <2>4. CASE x # 0 /\ <<i, j>> \in Lists(t, V[x - 1]) /\ <<i, k>> \in Lists(t, V[x - 1])
    <3>1. Solid(t, V[x - 1])
      BY <1>2, <2>4
    <3> QED BY <2>4, <3>1, ListsOneEnd
  <2> QED BY <2>1, <2>2, <2>3, <2>4
<1>3. \A x \in 0 .. NestingLimit : (x # 0 => x - 1 \in T) => x \in T
  BY <1>1, <1>2 DEF Solid, IsValues
<1> HIDE DEF T
<1>4. 0 \in T /\ \A x \in 1 .. NestingLimit : x - 1 \in T => x \in T
  BY <1>0, <1>3
<1>5. 0 .. NestingLimit \subseteq T
  BY <1>0, <1>4, UpTo
<1> QED BY <1>5 DEF T
-----------------------------------------------------------------------------
(* What is between a bracket and c is read: nothing, or some elements with  *)
(* commas behind them, the last of these at c.                              *)
IsRead(t, b, c, E) == c = b \/ (b < c /\ t[c] = Comma /\ \E C : IsCut(t, C, b, c, E))

(* With one more element, a comma or the closing bracket follows.           *)
LEMMA ReadMore ==
  ASSUME NEW t, NEW b \in Nat, NEW c \in Nat, NEW z \in Nat, NEW E, c < z,
         IsRead(t, b, c, E), <<c + 1, z - 1>> \in E
  PROVE  b < z /\ \E C : IsCut(t, C, b, z, E)
<1>1. CASE c = b
  BY <1>1, CutOne
<1>2. CASE c # b
  <2>1. b < c /\ t[c] = Comma
    BY <1>2 DEF IsRead
  <2>2. PICK C : IsCut(t, C, b, c, E)
    BY <1>2 DEF IsRead
  <2>3. IsCut(t, C \cup {c}, b, z, E)
    BY <2>1, <2>2, CutGrows
  <2> QED BY <2>1, <2>3
<1> QED BY <1>1, <1>2

(* A list that is read to its end. *)
LEMMA ListRead ==
  ASSUME NEW t, IsText(t), NEW E, NEW b \in 1 .. Len(t), NEW z \in 1 .. Len(t), b < z,
         t[b] \in Opening, t[z] = ClosingOf(t[b]),
         z = b + 1 \/ \E C : IsCut(t, C, b, z, Elements(t, t[b], E))
  PROVE  <<b, z>> \in Lists(t, E)
<1>1. b \in Nat /\ z \in Nat /\ b <= z
  OBVIOUS
<1>2. <<b, z>> \in Spans(t)
  BY <1>1, SpansAre
<1>3. Between(t, b, z, Elements(t, t[b], E))
  BY <1>1, BetweenIs
<1> QED BY <1>2, <1>3, ListsAre

(* What follows in a list of which a part is read: the end, if it is empty, *)
(* or an element, with a comma or the end behind it.                        *)
LEMMA ListGoesOn ==
  ASSUME NEW t, IsText(t), NEW E, Solid(t, E), NEW b, NEW j, <<b, j>> \in Lists(t, E), NEW c \in Nat,
         IsRead(t, b, c, Elements(t, t[b], E))
  PROVE  \/ c = b /\ j = b + 1 /\ t[b + 1] = ClosingOf(t[b])
         \/ \E n \in Nat : /\ c < n /\ n <= j /\ <<c + 1, n - 1>> \in Elements(t, t[b], E)
                           /\ t[n] = Comma \/ t[n] = ClosingOf(t[b])
<1>1. PICK F : F = Elements(t, t[b], E)
  OBVIOUS
<1>2. Solid(t, F) /\ F \in SUBSET (Nat \X Nat) /\ OneEnd(F)
  BY <1>1, ElementsSolid DEF Solid
<1>3. /\ <<b, j>> \in Spans(t)
      /\ t[b] \in Opening /\ t[j] = ClosingOf(t[b]) /\ Between(t, b, j, F)
  BY <1>1, ListsAre
<1>4. b \in Nat /\ j \in Nat /\ b <= j
  BY <1>3, SpansAre
<1>5. t[j] \notin Beginnings /\ t[j] # Comma
  BY <1>3, TokensDiffer
<1>6. b < j
  <2>1. b # j
    BY <1>3, <1>5 DEF Beginnings
  <2> QED BY <1>4, <2>1
<1>7. CASE j = b + 1
  <2>1. c = b
    <3> SUFFICES ASSUME c # b PROVE FALSE
      OBVIOUS
    <3>1. PICK C : IsCut(t, C, b, c, F)
      BY <1>1 DEF IsRead
    <3> QED BY <1>2, <1>4, <1>5, <1>7, <3>1, FirstElement
  <2> QED BY <1>3, <1>7, <2>1
<1>8. CASE j # b + 1
  <2>1. PICK D : IsCut(t, D, b, j, F)
    BY <1>3, <1>4, <1>8, BetweenIs
  <2>2. c \in D \cup {b}
    <3> SUFFICES ASSUME c # b PROVE c \in D
      OBVIOUS
    <3>1. PICK C : IsCut(t, C, b, c, F) /\ b < c /\ t[c] = Comma
      BY <1>1 DEF IsRead
    <3>2. c # j
      BY <1>5, <3>1
    <3>3. c \in D \/ j \in C
      BY <1>2, <1>4, <1>6, <2>1, <3>1, <3>2, CutsMeet
    <3>4. j \notin C
      BY <1>5, <3>1 DEF IsCut
    <3> QED BY <3>3, <3>4
  <2>3. D \in SUBSET Nat /\ \A p \in D : b < p /\ p < j /\ t[p] = Comma
    BY <2>1 DEF IsCut
  <2>4. PICK X : X = D \cup {j}
    OBVIOUS
  <2>5. PICK n : n = FirstAfter(X, c)
    OBVIOUS
  <2>6. <<c + 1, n - 1>> \in F
    BY <2>1, <2>2, <2>4, <2>5 DEF IsCut
  <2>7. X \in SUBSET Nat /\ j \in X /\ c < j
    BY <1>4, <1>6, <2>2, <2>3, <2>4
  <2>8. n \in X /\ n \in Nat /\ c < n /\ \A q \in X : c < q => n <= q
    BY <2>5, <2>7, NextIs
  <2>9. n <= j /\ (t[n] = Comma \/ t[n] = ClosingOf(t[b]))
    BY <1>3, <2>3, <2>4, <2>7, <2>8
  <2> QED BY <1>1, <2>6, <2>8, <2>9
<1> QED BY <1>7, <1>8

-----------------------------------------------------------------------------
(* The tree that is built stands on the text.                              *)

(* What the proofs add to the state: the items of each item, from the first *)
(* on; the places in the text where an item's value begins and ends; and    *)
(* how many lists it is in.                                                 *)
IsGhost(kids, from, to, lev) ==
  /\ kids \in [Nat -> Seq(Nat)] /\ from \in [Nat -> Nat \ {0}] /\ to \in [Nat -> Nat]
  /\ lev \in [Nat -> 0 .. NestingLimit]

(* Each item is in one place of one list, and the root in none. *)
Apart(D, r, kids) ==
  /\ D \subseteq Nat /\ r \in D
  /\ \A n \in D : \A i \in 1 .. Len(kids[n]) : kids[n][i] \in D /\ kids[n][i] # r
  /\ \A m, n \in D : \A i \in 1 .. Len(kids[m]), j \in 1 .. Len(kids[n]) :
       kids[m][i] = kids[n][j] => m = n /\ i = j

(* The items of n are linked to one another in their order. *)
Row(h, kids, n) ==
  \A i \in 1 .. Len(kids[n]) :
    /\ i < Len(kids[n]) => h[kids[n][i]].next = kids[n][i + 1]
    /\ i = Len(kids[n]) => h[kids[n][i]].next = NULL
    /\ i # 1 => h[kids[n][i]].prev = kids[n][i - 1]

(* They are children of n, the first one told of the last. *)
Parted(h, kids, n) ==
  /\ kids[n] = <<>> => h[n].child = NULL
  /\ kids[n] # <<>> => h[n].child = kids[n][1] /\ h[kids[n][1]].prev = kids[n][Len(kids[n])]

(* The separator before the i-th item of n, the bracket or a comma; and the *)
(* one after the last.                                                      *)
Before(kids, from, to, n, i) == IF i = 1 THEN from[n] ELSE to[kids[n][i - 1]] + 1
After(kids, from, to, n) == IF kids[n] = <<>> THEN from[n] + 1 ELSE to[kids[n][Len(kids[n])]] + 1
Width(open) == IF open = "[" THEN 1 ELSE 3

(* Where the items of n stand in the text. *)
Placed(t, kids, from, to, lev, n) ==
  /\ \A i \in 1 .. Len(kids[n]) :
       /\ from[kids[n][i]] = Before(kids, from, to, n, i) + Width(t[from[n]])
       /\ lev[kids[n][i]] = lev[n] + 1
       /\ i # 1 => t[Before(kids, from, to, n, i)] = Comma
  /\ kids[n] # <<>> /\ from[n] + 1 <= Len(t) => t[from[n] + 1] # ClosingOf(t[from[n]])

(* A member of an object has a name and a colon before it. *)
HasName(h, strs, t, from, c) ==
  h[c].string \in DOMAIN strs /\ strs[h[c].string] = t[from[c] - 2] /\ t[from[c] - 2] \in Strings
Named(h, strs, t, p, x, kids, from, n) ==
  \A i \in 1 .. Len(kids[n]) :
    /\ t[from[n]] = "[" => h[kids[n][i]].string = NULL
    /\ t[from[n]] # "[" /\ ~(p = "name" /\ kids[n][i] = x) => HasName(h, strs, t, from, kids[n][i])
    /\ t[from[n]] # "[" /\ ~(p \in {"name", "colon"} /\ kids[n][i] = x) => t[from[kids[n][i]] - 1] = ":"

(* A complete item: what it holds is what the text says from .. to. *)
HoldsList(h, t, kids, from, to, n) ==
  t[from[n]] = h[n].type /\ t[to[n]] = ClosingOf(h[n].type) /\ to[n] = After(kids, from, to, n)
HoldsAtom(h, strs, t, kids, from, to, n) ==
  /\ kids[n] = <<>> /\ to[n] = from[n]
  /\ h[n].type = "string" =>
       h[n].valuestring \in DOMAIN strs /\ strs[h[n].valuestring] = t[from[n]] /\ t[from[n]] \in Strings
  /\ h[n].type # "string" => h[n].type = t[from[n]] /\ h[n].type \in Literals \cup {"number"}
Complete(h, strs, t, kids, from, to, lev, n) ==
  /\ <<from[n], to[n]>> \in ValuesFrom(t)[NestingLimit - lev[n]]
  /\ h[n].type \in Opening => HoldsList(h, t, kids, from, to, n)
  /\ h[n].type \notin Opening => HoldsAtom(h, strs, t, kids, from, to, n)

(* The items whose lists are open, and the item that is being filled in.    *)
Filled == {"value", "name", "colon"}
IsOwner(r, s, n) == \E k \in 1 .. Len(s) : n = OwnerOf(r, s, k)
Pending(r, s, p, n) == IsOwner(r, s, n) \/ (p \in Filled /\ n = LastItem(r, s))

(* An open list has items, unless its bracket has just been read; the first *)
(* and the last of them are its head and its current item.                  *)
FrameIs(D, t, r, s, p, kids, from, lev, k) ==
  /\ OwnerOf(r, s, k) \in D /\ lev[OwnerOf(r, s, k)] = k - 1 /\ t[from[OwnerOf(r, s, k)]] = s[k].open
  /\ k = Len(s) /\ p = "first" => kids[OwnerOf(r, s, k)] = <<>> /\ s[k].head = NULL
  /\ ~(k = Len(s) /\ p = "first") =>
       /\ kids[OwnerOf(r, s, k)] # <<>>
       /\ s[k].head = kids[OwnerOf(r, s, k)][1]
       /\ s[k].current = kids[OwnerOf(r, s, k)][Len(kids[OwnerOf(r, s, k)])]

(* Where the parser is in the text. *)
Stands(t, r, s, p, a, from, to) ==
  /\ p = "value" => a = from[LastItem(r, s)]
  /\ p = "colon" => a + 1 = from[LastItem(r, s)]
  /\ p = "name" => a + 2 = from[LastItem(r, s)]
  /\ p = "first" => a = from[OwnerOf(r, s, Len(s))] + 1
  /\ p \notin Filled \cup {"first"} => a = to[LastItem(r, s)] + 1
  /\ p \in {"name", "colon"} => t[from[OwnerOf(r, s, Len(s))]] # "["

Tree(kids, from, to, lev) ==
  /\ IsGhost(kids, from, to, lev)
  /\ Apart(DOMAIN nodes, root, kids)
  /\ from[root] = Start(text) /\ lev[root] = 0
  /\ \A n \in DOMAIN nodes : Row(nodes, kids, n) /\ Placed(text, kids, from, to, lev, n)
  /\ \A n \in DOMAIN nodes : ~IsOwner(root, stack, n) => Parted(nodes, kids, n)
  /\ pc \in Filled => kids[LastItem(root, stack)] = <<>>
  /\ \A n \in DOMAIN nodes : ~Pending(root, stack, pc, n) =>
       Complete(nodes, strings, text, kids, from, to, lev, n)
  /\ \A n \in DOMAIN nodes : Named(nodes, strings, text, pc, LastItem(root, stack), kids, from, n)
  /\ \A k \in 1 .. Len(stack) : FrameIs(DOMAIN nodes, text, root, stack, pc, kids, from, lev, k)
  /\ Stands(text, root, stack, pc, at, from, to)
-----------------------------------------------------------------------------
(* What a tree says of open lists and of the item that is filled in. *)
LEMMA PendingAre ==
  ASSUME stack \in Seq(Frame), NEW kids, NEW from, NEW to, NEW lev, Tree(kids, from, to, lev)
  PROVE  /\ \A k \in 1 .. Len(stack) : OwnerOf(root, stack, k) \in DOMAIN nodes /\ lev[OwnerOf(root, stack, k)] = k - 1
         /\ pc # "first" =>
              /\ LastItem(root, stack) \in DOMAIN nodes /\ lev[LastItem(root, stack)] = Len(stack)
              /\ Len(stack) = 0 => LastItem(root, stack) = root
              /\ Len(stack) # 0 =>
                   \E o \in DOMAIN nodes :
                     /\ o = OwnerOf(root, stack, Len(stack)) /\ kids[o] # <<>>
                     /\ Len(kids[o]) \in Nat \ {0} /\ LastItem(root, stack) = kids[o][Len(kids[o])]
<1>0. PICK x : x = LastItem(root, stack)
  OBVIOUS
<1>1. \A k \in 1 .. Len(stack) : OwnerOf(root, stack, k) \in DOMAIN nodes /\ lev[OwnerOf(root, stack, k)] = k - 1
  BY DEF Tree, FrameIs
<1>2. Len(stack) \in Nat
  OBVIOUS
<1>3. ASSUME Len(stack) = 0 PROVE x = root /\ root \in DOMAIN nodes /\ lev[root] = 0
  <2>1. stack = <<>>
    BY <1>3
  <2> QED BY <1>0, <2>1 DEF LastItem, Tree, Apart
<1>4. ASSUME pc # "first", Len(stack) # 0
      PROVE  /\ x \in DOMAIN nodes /\ lev[x] = Len(stack)
             /\ \E o \in DOMAIN nodes : /\ o = OwnerOf(root, stack, Len(stack)) /\ kids[o] # <<>>
                                    /\ Len(kids[o]) \in Nat \ {0} /\ x = kids[o][Len(kids[o])]
  <2>1. PICK K : K = Len(stack) /\ K \in 1 .. Len(stack) /\ K \in Nat
    BY <1>2, <1>4
  <2>2. x = stack[K].current
    <3>1. stack # <<>>
      BY <1>4
    <3> QED BY <1>0, <2>1, <3>1 DEF LastItem
  <2>3. PICK o \in DOMAIN nodes : o = OwnerOf(root, stack, K)
    BY <1>1, <2>1
  <2>4. kids[o] # <<>> /\ stack[K].current = kids[o][Len(kids[o])] /\ lev[o] = K - 1
    BY <1>4, <2>1, <2>3 DEF Tree, FrameIs
  <2>5. o \in Nat /\ kids[o] \in Seq(Nat)
    BY DEF Tree, Apart, IsGhost
  <2>6. Len(kids[o]) \in Nat \ {0} /\ Len(kids[o]) \in 1 .. Len(kids[o])
    BY <2>4, <2>5
  <2>7. x \in DOMAIN nodes
    BY <2>2, <2>4, <2>6 DEF Tree, Apart
  <2>8. lev[x] = lev[o] + 1
    <3>1. Placed(text, kids, from, to, lev, o)
      BY DEF Tree
    <3> QED BY <2>2, <2>4, <2>6, <3>1 DEF Placed
  <2> QED BY <2>1, <2>2, <2>3, <2>4, <2>6, <2>7, <2>8
<1> QED BY <1>0, <1>1, <1>2, <1>3, <1>4

(* The item that is filled in is no owner, and no item but the last. *)
LEMMA LastIs ==
  ASSUME stack \in Seq(Frame), NEW kids, NEW from, NEW to, NEW lev, Tree(kids, from, to, lev),
         NEW x, x = LastItem(root, stack), pc # "first"
  PROVE  /\ x \in DOMAIN nodes /\ x \in Nat /\ lev[x] = Len(stack) /\ ~IsOwner(root, stack, x)
         /\ \A n \in DOMAIN nodes : \A i \in 1 .. Len(kids[n]) : i # 1 => kids[n][i - 1] # x
         /\ \A n \in DOMAIN nodes : kids[n] # <<>> /\ kids[n][Len(kids[n])] = x => IsOwner(root, stack, n)
<1>0. Len(stack) \in Nat
  OBVIOUS
<1>1. x \in DOMAIN nodes /\ lev[x] = Len(stack)
  BY PendingAre
<1>2. x \in Nat
  BY <1>1 DEF Tree, Apart
<1>3. ~IsOwner(root, stack, x)
  <2> SUFFICES ASSUME NEW k \in 1 .. Len(stack), x = OwnerOf(root, stack, k) PROVE FALSE
    BY DEF IsOwner
  <2>1. lev[x] = k - 1
    BY PendingAre
  <2> QED BY <1>0, <1>1, <2>1
<1>4. ASSUME NEW n \in DOMAIN nodes, NEW i \in 1 .. Len(kids[n]), kids[n][i] = x
      PROVE  i = Len(kids[n]) /\ IsOwner(root, stack, n)
  <2>1. Len(stack) # 0
    <3> SUFFICES ASSUME Len(stack) = 0 PROVE FALSE
      OBVIOUS
    <3>1. x = root
      BY PendingAre
    <3> QED BY <1>4, <3>1 DEF Tree, Apart
  <2>2. PICK o \in DOMAIN nodes : /\ o = OwnerOf(root, stack, Len(stack)) /\ kids[o] # <<>>
                              /\ Len(kids[o]) \in Nat \ {0} /\ x = kids[o][Len(kids[o])]
    BY <2>1, PendingAre
  <2>3. n = o /\ i = Len(kids[o])
    <3>1. Len(kids[o]) \in 1 .. Len(kids[o])
      BY <2>2
    <3> QED BY <1>4, <2>2, <3>1 DEF Tree, Apart
  <2>4. Len(stack) \in 1 .. Len(stack)
    BY <1>0, <2>1
  <2> QED BY <2>2, <2>3, <2>4 DEF IsOwner
<1>5. \A n \in DOMAIN nodes : n \in Nat /\ kids[n] \in Seq(Nat) /\ Len(kids[n]) \in Nat
  BY DEF Tree, Apart, IsGhost
<1>6. ASSUME NEW n \in DOMAIN nodes, NEW i \in 1 .. Len(kids[n]), i # 1 PROVE kids[n][i - 1] # x
  <2>1. i - 1 \in 1 .. Len(kids[n]) /\ i - 1 # Len(kids[n])
    BY <1>5, <1>6
  <2> QED BY <1>4, <2>1
<1>7. ASSUME NEW n \in DOMAIN nodes, kids[n] # <<>>, kids[n][Len(kids[n])] = x PROVE IsOwner(root, stack, n)
  <2>1. Len(kids[n]) \in 1 .. Len(kids[n])
    BY <1>5, <1>7
  <2> QED BY <1>4, <1>7, <2>1
<1> QED BY <1>1, <1>2, <1>3, <1>6, <1>7

(* A place is noted for an item that no other item of its list follows. *)
LEMMA PlacedSame ==
  ASSUME NEW D, NEW r, NEW t, NEW kids, NEW from, NEW to, NEW lev, NEW x, NEW a \in Nat, NEW until,
         IsGhost(kids, from, to, lev), Apart(D, r, kids), until = [to EXCEPT ![x] = a],
         \A n \in D : \A i \in 1 .. Len(kids[n]) : i # 1 => kids[n][i - 1] # x,
         NEW n \in D, Placed(t, kids, from, to, lev, n)
  PROVE  Placed(t, kids, from, until, lev, n)
<1>1. n \in Nat /\ Len(kids[n]) \in Nat /\ \A i \in 1 .. Len(kids[n]) : kids[n][i] \in Nat
  <2>1. n \in Nat
    BY DEF Apart
  <2>2. kids[n] \in Seq(Nat)
    BY <2>1 DEF IsGhost
  <2> QED BY <2>1, <2>2
<1>2. ASSUME NEW i \in 1 .. Len(kids[n]) PROVE Before(kids, from, until, n, i) = Before(kids, from, to, n, i)
  <2>1. CASE i = 1
    BY <2>1 DEF Before
  <2>2. CASE i # 1
    <3>1. i - 1 \in 1 .. Len(kids[n])
      BY <1>1, <2>2
    <3>2. PICK y \in Nat : y = kids[n][i - 1]
      BY <1>1, <3>1
    <3>3. y # x
      BY <2>2, <3>2
    <3>4. until[y] = to[y]
      BY <3>3 DEF IsGhost
    <3> QED BY <2>2, <3>2, <3>4 DEF Before
  <2> QED BY <2>1, <2>2
<1> QED BY <1>2 DEF Placed
-----------------------------------------------------------------------------
(* What stays said of an item when nothing of it changes. *)
LEMMA RowSame ==
  ASSUME NEW h, NEW g, NEW D, NEW r, NEW kids, Apart(D, r, kids), NEW n \in D, Row(h, kids, n),
         \A m \in D : g[m].next = h[m].next /\ g[m].prev = h[m].prev
  PROVE  Row(g, kids, n)
<1>1. \A i \in 1 .. Len(kids[n]) : kids[n][i] \in D
  BY DEF Apart
<1> QED BY <1>1 DEF Row

(* Names stay when neither the items' names nor their places change.        *)
LEMMA NamedSame ==
  ASSUME NEW h, NEW g, NEW strs, NEW more, NEW t, NEW p, NEW q, NEW x, NEW D, NEW r, NEW kids, NEW from,
         Apart(D, r, kids), NEW n \in D, Named(h, strs, t, p, x, kids, from, n),
         \A m \in D : g[m].string = h[m].string,
         \A s \in DOMAIN strs : s \in DOMAIN more /\ more[s] = strs[s],
         p # "name", p # "colon"
  PROVE  Named(g, more, t, q, x, kids, from, n)
<1>1. \A i \in 1 .. Len(kids[n]) : kids[n][i] \in D
  BY DEF Apart
<1> QED BY <1>1 DEF Named, HasName

(* An item that is complete stays so when it is not touched.                *)
LEMMA CompleteSame ==
  ASSUME NEW h, NEW g, NEW strs, NEW more, NEW t, NEW kids, NEW from, NEW to, NEW lev, NEW until, NEW x, NEW a, NEW n \in Nat,
         IsGhost(kids, from, to, lev), until = [to EXCEPT ![x] = a], n # x,
         kids[n] # <<>> => kids[n][Len(kids[n])] # x,
         Complete(h, strs, t, kids, from, to, lev, n),
         g[n].type = h[n].type, g[n].valuestring = h[n].valuestring,
         \A s \in DOMAIN strs : s \in DOMAIN more /\ more[s] = strs[s]
  PROVE  Complete(g, more, t, kids, from, until, lev, n)
<1>1. until[n] = to[n]
  BY DEF IsGhost
<1>2. kids[n] # <<>> => until[kids[n][Len(kids[n])]] = to[kids[n][Len(kids[n])]]
  <2> SUFFICES ASSUME kids[n] # <<>> PROVE until[kids[n][Len(kids[n])]] = to[kids[n][Len(kids[n])]]
    OBVIOUS
  <2>1. kids[n] \in Seq(Nat)
    BY DEF IsGhost
  <2>2. PICK y : y = kids[n][Len(kids[n])]
    OBVIOUS
  <2>3. y \in Nat /\ y # x
    BY <2>1, <2>2
  <2> QED BY <2>2, <2>3 DEF IsGhost
<1>3. After(kids, from, until, n) = After(kids, from, to, n)
  BY <1>2 DEF After
<1> QED BY <1>1, <1>3 DEF Complete, HoldsList, HoldsAtom

(* The item's value is an atom. *)
LEMMA TreeFilled ==
  ASSUME FormInv, NEW kids, NEW from, NEW to, NEW lev, Tree(kids, from, to, lev),
         pc = "value", pc' = "next", at' = at + 1, at <= Len(text), text[at] \in Atoms, UNCHANGED <<text, stack, root>>,
         NEW x, x = LastItem(root, stack), NEW until, until = [to EXCEPT ![x] = at],
         DOMAIN nodes' = DOMAIN nodes, \A n \in DOMAIN nodes \ {x} : nodes'[n] = nodes[n],
         nodes'[x].next = nodes[x].next, nodes'[x].prev = nodes[x].prev, nodes'[x].child = nodes[x].child,
         nodes'[x].string = nodes[x].string,
         \A s \in DOMAIN strings : s \in DOMAIN strings' /\ strings'[s] = strings[s],
         nodes'[x].type \notin Opening,
         nodes'[x].type = "string" =>
           nodes'[x].valuestring \in DOMAIN strings' /\ strings'[nodes'[x].valuestring] = text[at] /\ text[at] \in Strings,
         nodes'[x].type # "string" => nodes'[x].type = text[at] /\ nodes'[x].type \in Literals \cup {"number"}
  PROVE  Tree(kids, from, until, lev)'
<1>1. stack \in Seq(Frame) /\ at \in Nat
  BY DEF FormInv, Typed
<1>2. /\ x \in DOMAIN nodes /\ x \in Nat /\ lev[x] = Len(stack) /\ ~IsOwner(root, stack, x)
      /\ \A n \in DOMAIN nodes : \A i \in 1 .. Len(kids[n]) : i # 1 => kids[n][i - 1] # x
      /\ \A n \in DOMAIN nodes : kids[n] # <<>> /\ kids[n][Len(kids[n])] = x => IsOwner(root, stack, n)
  BY <1>1, LastIs
<1>3. /\ IsGhost(kids, from, to, lev) /\ Apart(DOMAIN nodes, root, kids) /\ kids[x] = <<>> /\ at = from[x]
  BY DEF Tree, Filled, Stands
<1>4. IsGhost(kids, from, until, lev) /\ until[x] = at
  BY <1>1, <1>2, <1>3 DEF IsGhost
<1>5. \A n \in DOMAIN nodes : /\ nodes'[n].next = nodes[n].next /\ nodes'[n].prev = nodes[n].prev
                              /\ nodes'[n].child = nodes[n].child /\ nodes'[n].string = nodes[n].string
  OBVIOUS
<1>6. ASSUME NEW n \in DOMAIN nodes PROVE Row(nodes', kids, n) /\ Placed(text, kids, from, until, lev, n)
  <2>1. Row(nodes, kids, n) /\ Placed(text, kids, from, to, lev, n)
    BY DEF Tree
  <2>2. Row(nodes', kids, n)
    <3>1. \A m \in DOMAIN nodes : nodes'[m].next = nodes[m].next /\ nodes'[m].prev = nodes[m].prev
      BY <1>5
    <3> QED BY ONLY <1>3, <2>1, <3>1, n \in DOMAIN nodes, RowSame
  <2>3. Placed(text, kids, from, until, lev, n)
    <3>1. until = [to EXCEPT ![x] = at]
      OBVIOUS
    <3> QED BY ONLY <1>1, <1>2, <1>3, <2>1, <3>1, n \in DOMAIN nodes, PlacedSame
  <2> QED BY <2>2, <2>3
<1>7. ASSUME NEW n \in DOMAIN nodes, ~IsOwner(root, stack, n) PROVE Parted(nodes', kids, n)
  <2>1. Parted(nodes, kids, n)
    BY <1>7 DEF Tree
  <2>2. kids[n] # <<>> => kids[n][1] \in DOMAIN nodes
    <3>1. kids[n] \in Seq(Nat)
      BY <1>3 DEF IsGhost, Apart
    <3>2. kids[n] # <<>> => 1 \in 1 .. Len(kids[n])
      BY <3>1
    <3> QED BY <1>3, <3>2 DEF Apart
  <2> QED BY <1>5, <2>1, <2>2 DEF Parted
<1>8. ASSUME NEW n \in DOMAIN nodes, ~IsOwner(root, stack, n)
      PROVE  Complete(nodes', strings', text, kids, from, until, lev, n)
  <2>1. CASE n = x
    <3>1. <<from[x], until[x]>> \in ValuesFrom(text)[NestingLimit - lev[x]]
      <4>1. IsText(text)
        <5>1. <<>> \in Seq(Strings \cup Marks)
          OBVIOUS
        <5> QED BY <5>1, FormAssumption DEF FormInv, Typed, IsText
      <4>2. PICK V : V = ValuesFrom(text)
        OBVIOUS
      <4>3. IsValues(text, V)
        BY <4>1, <4>2, ValuesExist
      <4>4. NestingLimit \in Nat /\ lev[x] \in 0 .. NestingLimit
        BY <1>2, <1>3, FormAssumption DEF IsGhost
      <4>5. PICK e : e = NestingLimit - lev[x]
        OBVIOUS
      <4>6. e \in 0 .. NestingLimit /\ 0 \in 0 .. e
        BY <4>4, <4>5
      <4>7. V[0] \subseteq V[e]
        BY <4>3, <4>6, ValuesMore
      <4>8. <<at, at>> \in V[0]
        <5>1. at \in 1 .. Len(text)
          BY DEF FormInv, Typed
        <5>2. <<at, at>> \in Scalars(text)
          BY <4>1, <5>1, ScalarsAre DEF Atoms
        <5> QED BY <4>3, <5>2 DEF IsValues
      <4> QED BY <1>3, <1>4, <4>2, <4>5, <4>7, <4>8
    <3> QED BY <1>3, <1>4, <2>1, <3>1 DEF Complete, HoldsAtom
  <2>2. CASE n # x
    <3>1. ~Pending(root, stack, pc, n)
      BY <1>8, <2>2 DEF Pending
    <3>2. Complete(nodes, strings, text, kids, from, to, lev, n)
      BY <3>1 DEF Tree
    <3>3. kids[n] # <<>> => kids[n][Len(kids[n])] # x
      BY <1>2, <1>8
    <3>4. nodes'[n] = nodes[n] /\ n \in Nat
      BY <1>3, <2>2 DEF Apart
    <3>5. until = [to EXCEPT ![x] = at] /\ \A s \in DOMAIN strings : s \in DOMAIN strings' /\ strings'[s] = strings[s]
      OBVIOUS
    <3>6. nodes'[n].type = nodes[n].type /\ nodes'[n].valuestring = nodes[n].valuestring
      BY <3>4
    <3> QED BY ONLY <1>3, <2>2, <3>2, <3>3, <3>4, <3>5, <3>6, CompleteSame
  <2> QED BY <2>1, <2>2
<1>9. ASSUME NEW n \in DOMAIN nodes PROVE Named(nodes', strings', text, "next", x, kids, from, n)
  <2>1. Named(nodes, strings, text, pc, x, kids, from, n)
    BY DEF Tree
  <2>2. pc # "name" /\ pc # "colon"
    OBVIOUS
  <2> QED BY <1>3, <1>5, <2>1, <2>2, NamedSame
<1>10. \A k \in 1 .. Len(stack) : FrameIs(DOMAIN nodes, text, root, stack, "next", kids, from, lev, k)
  <2>1. \A k \in 1 .. Len(stack) : FrameIs(DOMAIN nodes, text, root, stack, pc, kids, from, lev, k)
    BY DEF Tree
  <2> QED BY <2>1 DEF FrameIs
<1>11. Stands(text, root, stack, "next", at + 1, from, until)
  BY <1>4 DEF Stands, Filled
<1>12. \A n : Pending(root, stack, "next", n) <=> IsOwner(root, stack, n)
  BY DEF Pending, Filled
<1>13. from[root] = Start(text) /\ lev[root] = 0
  BY DEF Tree
<1> QED BY <1>3, <1>4, <1>6, <1>7, <1>8, <1>9, <1>10, <1>11, <1>12, <1>13 DEF Tree, Filled
-----------------------------------------------------------------------------
(* A member has its name and a colon before it. *)
Introduced(t, from, n, c) == t[from[n]] # "[" => t[from[c] - 2] \in Strings /\ t[from[c] - 1] = ":"

(* An element of a list, from behind the separator on. *)
LEMMA ElementIs ==
  ASSUME NEW t, IsText(t), NEW E, E \subseteq Spans(t), NEW b \in Nat, NEW open, NEW f, f = b + Width(open), NEW z,
         <<f, z>> \in E, open # "[" => t[f - 2] \in Strings /\ t[f - 1] = ":"
  PROVE  <<b + 1, z>> \in Elements(t, open, E) /\ z \in Nat /\ b < z
<1>1. f \in 1 .. Len(t) /\ z \in 1 .. Len(t) /\ f <= z
  BY SpansAre
<1>2. Len(t) \in Nat
  BY TextIs
<1>3. CASE open = "["
  <2>1. f = b + 1
    BY <1>3 DEF Width
  <2> QED BY <1>1, <1>2, <1>3, <2>1 DEF Elements
<1>4. CASE open # "["
  <2>1. f = b + 3
    BY <1>4 DEF Width
  <2>2. PICK i : i = b + 1
    OBVIOUS
  <2>3. i \in 1 .. Len(t) /\ i <= z /\ f = i + 2 /\ f - 2 = i /\ f - 1 = i + 1
    BY <1>1, <1>2, <2>1, <2>2
  <2>4. <<i, z>> \in Spans(t)
    BY <1>1, <2>3, SpansAre
  <2>5. <<i, z>> \in NamedSpans(t, E)
    BY <1>1, <1>4, <2>3, <2>4, NamedSpansAre
  <2> QED BY <1>1, <1>2, <1>4, <2>1, <2>2, <2>5 DEF Elements
<1> QED BY <1>3, <1>4

(* The first m items of n are values, with names where they need them. *)
AreValues(t, E, kids, from, to, n, m) ==
  \A i \in 1 .. m : <<from[kids[n][i]], to[kids[n][i]]>> \in E /\ Introduced(t, from, n, kids[n][i])

(* What is read of a list before one of its items, if all the items before  *)
(* it are values.                                                           *)
LEMMA KidsRead ==
  ASSUME NEW t, IsText(t), NEW E, E \subseteq Spans(t), NEW kids, NEW from, NEW to, NEW lev,
         IsGhost(kids, from, to, lev), NEW n \in Nat, Placed(t, kids, from, to, lev, n), NEW m \in Nat,
         m <= Len(kids[n]), AreValues(t, E, kids, from, to, n, m)
  PROVE  \A i \in 1 .. Len(kids[n]) : i <= m + 1 =>
           /\ Before(kids, from, to, n, i) \in Nat
           /\ IsRead(t, from[n], Before(kids, from, to, n, i), Elements(t, t[from[n]], E))
<1> DEFINE B(i) == Before(kids, from, to, n, i)
           F == Elements(t, t[from[n]], E)
           T == {j \in 0 .. m : j + 1 <= Len(kids[n]) => B(j + 1) \in Nat /\ IsRead(t, from[n], B(j + 1), F)}
<1>1. /\ kids[n] \in Seq(Nat) /\ Len(kids[n]) \in Nat /\ from[n] \in Nat
      /\ \A i \in 1 .. Len(kids[n]) : kids[n][i] \in Nat
  <2>1. kids[n] \in Seq(Nat) /\ from[n] \in Nat
    BY DEF IsGhost
  <2> QED BY <2>1
<1>2. 0 \in T
  <2>1. B(0 + 1) = from[n]
    BY DEF Before
  <2> QED BY <1>1, <2>1 DEF IsRead
<1>3. ASSUME NEW j \in 1 .. m, j - 1 \in T PROVE j \in T
  <2> SUFFICES ASSUME j + 1 <= Len(kids[n]) PROVE B(j + 1) \in Nat /\ IsRead(t, from[n], B(j + 1), F)
    OBVIOUS
  <2>1. j \in 1 .. Len(kids[n]) /\ (j - 1) + 1 = j /\ j + 1 \in 1 .. Len(kids[n]) /\ (j + 1) - 1 = j /\ j + 1 # 1
    BY <1>1
  <2>2. PICK c : c = B(j)
    OBVIOUS
  <2>3. c \in Nat /\ IsRead(t, from[n], c, F)
    BY <1>3, <2>1, <2>2
  <2>4. PICK x \in Nat : x = kids[n][j]
    BY <1>1, <2>1
  <2>5. PICK z : z = to[x] + 1
    OBVIOUS
  <2>6. B(j + 1) = z
    BY <2>1, <2>4, <2>5 DEF Before
  <2>7. from[x] = c + Width(t[from[n]])
    BY <2>1, <2>2, <2>4 DEF Placed
  <2>8. <<from[x], to[x]>> \in E /\ Introduced(t, from, n, x)
    BY <2>4 DEF AreValues
  <2>9. <<c + 1, to[x]>> \in F /\ to[x] \in Nat /\ c < to[x]
    <3>1. t[from[n]] # "[" => t[from[x] - 2] \in Strings /\ t[from[x] - 1] = ":"
      BY <2>8 DEF Introduced
    <3> QED BY ONLY IsText(t), E \subseteq Spans(t), <2>3, <2>7, <2>8, <3>1, ElementIs
  <2>10. t[z] = Comma
    BY <2>1, <2>6 DEF Placed
  <2>11. z \in Nat /\ c < z /\ z - 1 = to[x]
    BY <2>3, <2>5, <2>9
  <2>12. from[n] < z /\ \E C : IsCut(t, C, from[n], z, F)
    <3>1. <<c + 1, z - 1>> \in F
      BY <2>9, <2>11
    <3> HIDE DEF F
    <3> QED BY ONLY <1>1, <2>3, <2>11, <3>1, ReadMore
  <2>13. IsRead(t, from[n], z, F)
    BY <2>10, <2>12 DEF IsRead
  <2> QED BY <2>6, <2>11, <2>13
<1> HIDE DEF T
<1>4. 0 .. m \subseteq T
  BY <1>2, <1>3, UpTo
<1>5. ASSUME NEW i \in 1 .. Len(kids[n]), i <= m + 1
      PROVE  B(i) \in Nat /\ IsRead(t, from[n], B(i), F)
  <2>1. i - 1 \in T /\ (i - 1) + 1 = i
    BY <1>1, <1>4, <1>5
  <2> QED BY <1>1, <2>1 DEF T
<1> QED BY <1>5

(* A list of values is a value. *)
LEMMA ListComplete ==
  ASSUME NEW t, IsText(t), NEW E, E \subseteq Spans(t), NEW kids, NEW from, NEW to, NEW lev,
         IsGhost(kids, from, to, lev), NEW n \in Nat, Placed(t, kids, from, to, lev, n), t[from[n]] \in Opening,
         AreValues(t, E, kids, from, to, n, Len(kids[n])),
         NEW z \in 1 .. Len(t), z = After(kids, from, to, n), t[z] = ClosingOf(t[from[n]])
  PROVE  <<from[n], z>> \in Lists(t, E)
<1> DEFINE F == Elements(t, t[from[n]], E)
<1>1. /\ kids[n] \in Seq(Nat) /\ Len(kids[n]) \in Nat /\ from[n] \in Nat \ {0} /\ Len(t) \in Nat
      /\ \A i \in 1 .. Len(kids[n]) : kids[n][i] \in Nat
  <2>1. kids[n] \in Seq(Nat) /\ from[n] \in Nat \ {0}
    BY DEF IsGhost
  <2> QED BY <2>1, TextIs
<1>2. CASE kids[n] = <<>>
  <2>1. z = from[n] + 1 /\ from[n] \in 1 .. Len(t) /\ from[n] < z
    BY <1>1, <1>2 DEF After
  <2> QED BY <2>1, ListRead
<1>3. CASE kids[n] # <<>>
  <2>1. PICK L \in 1 .. Len(kids[n]) : L = Len(kids[n])
    BY <1>1, <1>3
  <2>2. PICK x \in Nat : x = kids[n][L]
    BY <1>1
  <2>3. z = to[x] + 1
    BY <1>3, <2>1, <2>2 DEF After
  <2>4. PICK c : c = Before(kids, from, to, n, L)
    OBVIOUS
  <2>5. c \in Nat /\ IsRead(t, from[n], c, F)
    <3>1. \A i \in 1 .. Len(kids[n]) : i <= Len(kids[n]) + 1 =>
           /\ Before(kids, from, to, n, i) \in Nat
           /\ IsRead(t, from[n], Before(kids, from, to, n, i), Elements(t, t[from[n]], E))
      <4>1. PICK m \in Nat : m = Len(kids[n]) /\ m <= Len(kids[n])
        BY <1>1
      <4>2. AreValues(t, E, kids, from, to, n, m)
        BY <4>1
      <4>3. /\ IsText(t) /\ E \subseteq Spans(t) /\ IsGhost(kids, from, to, lev) /\ n \in Nat
            /\ Placed(t, kids, from, to, lev, n)
        OBVIOUS
      <4>4. \A i \in 1 .. Len(kids[n]) : i <= m + 1 =>
             /\ Before(kids, from, to, n, i) \in Nat
             /\ IsRead(t, from[n], Before(kids, from, to, n, i), Elements(t, t[from[n]], E))
        BY ONLY <4>1, <4>2, <4>3, KidsRead
      <4> QED BY <4>1, <4>4
    <3>2. L <= Len(kids[n]) + 1
      BY <1>1
    <3> QED BY <2>1, <2>4, <3>1, <3>2
  <2>6. from[x] = c + Width(t[from[n]]) /\ <<from[x], to[x]>> \in E /\ Introduced(t, from, n, x)
    BY <2>1, <2>2, <2>4 DEF Placed, AreValues
  <2>7. <<c + 1, to[x]>> \in F /\ to[x] \in Nat /\ c < to[x]
    <3>1. t[from[n]] # "[" => t[from[x] - 2] \in Strings /\ t[from[x] - 1] = ":"
      BY <2>6 DEF Introduced
    <3> QED BY ONLY IsText(t), E \subseteq Spans(t), <2>5, <2>6, <3>1, ElementIs
  <2>8. c < z /\ z - 1 = to[x]
    BY <2>3, <2>5, <2>7
  <2>9. from[n] < z /\ \E C : IsCut(t, C, from[n], z, F)
    <3> HIDE DEF F
    <3>1. <<c + 1, z - 1>> \in F
      BY <2>7, <2>8
    <3>2. z \in Nat
      BY <1>1
    <3> QED BY ONLY <1>1, <2>5, <2>8, <3>1, <3>2, ReadMore
  <2>10. from[n] \in 1 .. Len(t)
    BY <1>1, <2>9
  <2> QED BY <2>9, <2>10, ListRead
<1> QED BY <1>2, <1>3
-----------------------------------------------------------------------------
(* The text is one, and what is read of it. *)
LEMMA TextOfForm ==
  ASSUME FormInv
  PROVE  /\ IsText(text) /\ IsValues(text, ValuesFrom(text)) /\ Len(text) \in Nat /\ at \in Nat
         /\ Peek # "end" => at \in 1 .. Len(text) /\ Peek = text[at]
         /\ NestingLimit \in Nat /\ stack \in Seq(Frame)
<1>1. IsText(text)
  <2>1. <<>> \in Seq(Strings \cup Marks)
    OBVIOUS
  <2> QED BY <2>1, FormAssumption DEF FormInv, Typed, IsText
<1>2. Len(text) \in Nat /\ at \in 1 .. Len(text) + 1
  BY PeekIs DEF FormInv
<1>3. Peek # "end" => at \in 1 .. Len(text) /\ Peek = text[at]
  BY <1>2 DEF Peek
<1> QED BY <1>1, <1>2, <1>3, ValuesExist, FormAssumption DEF FormInv, Typed

(* What is not empty has a last element. *)
LEMMA HasLast ==
  ASSUME NEW q \in Seq(Nat)
  PROVE  Len(q) \in Nat /\ DOMAIN q = 1 .. Len(q) /\ (q # <<>> => Len(q) \in 1 .. Len(q) /\ 1 \in 1 .. Len(q))
<1>1. Len(q) \in Nat /\ DOMAIN q = 1 .. Len(q)
  OBVIOUS
<1>2. q # <<>> => Len(q) # 0
  OBVIOUS
<1> QED BY <1>1, <1>2

(* The item of an open list is the last of the list around it. *)
LEMMA OwnerIsLast ==
  ASSUME stack \in Seq(Frame), NEW kids, NEW from, NEW to, NEW lev, Tree(kids, from, to, lev),
         NEW k \in 1 .. Len(stack), NEW x, x = OwnerOf(root, stack, k)
  PROVE  /\ x \in DOMAIN nodes /\ x \in Nat /\ lev[x] = k - 1
         /\ \A n \in DOMAIN nodes : \A i \in 1 .. Len(kids[n]) : kids[n][i] = x =>
              i = Len(kids[n]) /\ k # 1 /\ n = OwnerOf(root, stack, k - 1)
<1>1. x \in DOMAIN nodes /\ x \in Nat /\ lev[x] = k - 1
  BY PendingAre DEF Tree, Apart
<1>2. ASSUME NEW n \in DOMAIN nodes, NEW i \in 1 .. Len(kids[n]), kids[n][i] = x
      PROVE  i = Len(kids[n]) /\ k # 1 /\ n = OwnerOf(root, stack, k - 1)
  <2>1. k # 1
    <3> SUFFICES ASSUME k = 1 PROVE FALSE
      OBVIOUS
    <3>1. x = root
      BY DEF OwnerOf
    <3> QED BY <1>2, <3>1 DEF Tree, Apart
  <2>2. PICK j \in 1 .. Len(stack) : j = k - 1 /\ j # Len(stack)
    BY <2>1
  <2>3. PICK o \in DOMAIN nodes : o = OwnerOf(root, stack, j)
    BY PendingAre
  <2>4. kids[o] # <<>> /\ stack[j].current = kids[o][Len(kids[o])]
    BY <2>2, <2>3 DEF Tree, FrameIs
  <2>5. x = stack[j].current
    BY <2>1, <2>2 DEF OwnerOf
  <2>6. kids[o] \in Seq(Nat)
    <3>1. o \in Nat /\ IsGhost(kids, from, to, lev)
      BY DEF Tree, Apart
    <3> QED BY <3>1 DEF IsGhost
  <2>7. Len(kids[o]) \in 1 .. Len(kids[o])
    BY <2>4, <2>6, HasLast
  <2>8. n = o /\ i = Len(kids[o])
    <3>1. Apart(DOMAIN nodes, root, kids)
      BY DEF Tree
    <3>2. kids[n][i] = kids[o][Len(kids[o])]
      BY <1>2, <2>4, <2>5
    <3> QED BY <2>7, <3>1, <3>2 DEF Apart
  <2> QED BY <2>1, <2>2, <2>3, <2>8
<1> QED BY <1>1, <1>2

(* The items of the innermost list are complete, when a separator follows.  *)
LEMMA InnermostAre ==
  ASSUME FormInv, NEW kids, NEW from, NEW to, NEW lev, Tree(kids, from, to, lev),
         stack # <<>>, pc \in {"first", "next"}, NEW o, o = OwnerOf(root, stack, Len(stack))
  PROVE  /\ o \in DOMAIN nodes /\ o \in Nat /\ lev[o] = Len(stack) - 1 /\ Len(stack) \in 1 .. NestingLimit
         /\ text[from[o]] = stack[Len(stack)].open /\ text[from[o]] \in Opening
         /\ at = After(kids, from, to, o)
         /\ AreValues(text, ValuesFrom(text)[NestingLimit - Len(stack)], kids, from, to, o, Len(kids[o]))
<1>1. /\ IsText(text) /\ NestingLimit \in Nat /\ stack \in Seq(Frame)
  BY TextOfForm
<1>2. PICK K : K = Len(stack) /\ K \in Nat \ {0} /\ K \in 1 .. Len(stack)
  BY <1>1
<1>3. K \in 1 .. NestingLimit
  BY <1>1, <1>2 DEF FormInv, ListsOpen, Building, Typed
<1>4. o \in DOMAIN nodes /\ o \in Nat /\ lev[o] = K - 1
  BY <1>1, <1>2, OwnerIsLast
<1>5. text[from[o]] = stack[K].open /\ text[from[o]] \in Opening
  <2>1. text[from[o]] = stack[K].open
    BY <1>2 DEF Tree, FrameIs
  <2>2. stack[K] \in Frame
    BY <1>1, <1>2
  <2> QED BY <2>1, <2>2 DEF Frame
<1>6. /\ IsGhost(kids, from, to, lev) /\ Apart(DOMAIN nodes, root, kids) /\ Placed(text, kids, from, to, lev, o)
  BY <1>4 DEF Tree
<1>7. kids[o] \in Seq(Nat)
  BY <1>4, <1>6 DEF IsGhost
<1>8. at = After(kids, from, to, o)
  <2>1. CASE pc = "first"
    <3>1. kids[o] = <<>>
      BY <1>2, <2>1 DEF Tree, FrameIs
    <3>2. at = from[o] + 1
      BY <2>1 DEF Tree, Stands
    <3> QED BY <3>1, <3>2 DEF After
  <2>2. CASE pc = "next"
    <3>1. PICK x : x = LastItem(root, stack)
      OBVIOUS
    <3>2. kids[o] # <<>> /\ x = kids[o][Len(kids[o])]
      <4>1. Len(stack) # 0 /\ pc # "first"
        BY <1>2, <2>2
      <4> QED BY <1>1, <3>1, <4>1, PendingAre
    <3>3. at = to[x] + 1
      BY <2>2, <3>1 DEF Tree, Stands, Filled
    <3> QED BY <3>2, <3>3 DEF After
  <2> QED BY <2>1, <2>2
<1>9. ASSUME NEW i \in 1 .. Len(kids[o])
      PROVE  /\ <<from[kids[o][i]], to[kids[o][i]]>> \in ValuesFrom(text)[NestingLimit - K]
             /\ Introduced(text, from, o, kids[o][i])
  <2>1. PICK c : c = kids[o][i]
    OBVIOUS
  <2>2. c \in DOMAIN nodes
    BY <1>4, <1>6, <2>1 DEF Apart
  <2>3. lev[c] = K
    BY <1>4, <1>6, <2>1, <1>2 DEF Placed
  <2>4. ~IsOwner(root, stack, c)
    <3> SUFFICES ASSUME NEW k \in 1 .. Len(stack), c = OwnerOf(root, stack, k) PROVE FALSE
      BY DEF IsOwner
    <3>1. lev[c] = k - 1
      BY <1>1, PendingAre
    <3> QED BY <1>2, <2>3, <3>1
  <2>5. ~Pending(root, stack, pc, c)
    BY <2>4 DEF Pending, Filled
  <2>6. <<from[c], to[c]>> \in ValuesFrom(text)[NestingLimit - K]
    BY <2>2, <2>3, <2>5 DEF Tree, Complete
  <2>7. Named(nodes, strings, text, pc, LastItem(root, stack), kids, from, o)
    BY <1>4 DEF Tree
  <2>8. pc # "name" /\ pc \notin {"name", "colon"}
    OBVIOUS
  <2>9. Introduced(text, from, o, c)
    BY <2>1, <2>7, <2>8 DEF Named, HasName, Introduced
  <2> QED BY <2>1, <2>6, <2>9
<1> QED BY <1>2, <1>3, <1>4, <1>5, <1>8, <1>9 DEF AreValues

(* The innermost list is read. *)
LEMMA ListIsValue ==
  ASSUME FormInv, NEW kids, NEW from, NEW to, NEW lev, Tree(kids, from, to, lev),
         stack # <<>>, pc \in {"first", "next"}, NEW o, o = OwnerOf(root, stack, Len(stack)),
         at \in 1 .. Len(text), text[at] = ClosingOf(stack[Len(stack)].open)
  PROVE  <<from[o], at>> \in ValuesFrom(text)[NestingLimit - lev[o]]
<1>1. /\ o \in DOMAIN nodes /\ o \in Nat /\ lev[o] = Len(stack) - 1 /\ Len(stack) \in 1 .. NestingLimit
      /\ text[from[o]] = stack[Len(stack)].open /\ text[from[o]] \in Opening
      /\ at = After(kids, from, to, o)
      /\ AreValues(text, ValuesFrom(text)[NestingLimit - Len(stack)], kids, from, to, o, Len(kids[o]))
  BY InnermostAre
<1>2. PICK V : V = ValuesFrom(text)
  OBVIOUS
<1>3. IsText(text) /\ IsValues(text, V) /\ NestingLimit \in Nat
  BY <1>2, TextOfForm
<1>4. PICK d \in Nat : d = NestingLimit - Len(stack) /\ d \in 0 .. NestingLimit /\ d + 1 \in 1 .. NestingLimit
                       /\ NestingLimit - lev[o] = d + 1 /\ d + 1 - 1 = d
  BY <1>1, <1>3
<1>5. PICK E : E = V[d]
  OBVIOUS
<1>6. E \subseteq Spans(text) /\ V[d + 1] = E \cup Lists(text, E)
  BY <1>3, <1>4, <1>5 DEF IsValues
<1>7. /\ IsGhost(kids, from, to, lev) /\ Placed(text, kids, from, to, lev, o)
  BY <1>1 DEF Tree
<1>8. AreValues(text, E, kids, from, to, o, Len(kids[o])) /\ text[at] = ClosingOf(text[from[o]])
  BY <1>1, <1>2, <1>4, <1>5
<1>9. <<from[o], at>> \in Lists(text, E)
  BY ONLY at \in 1 .. Len(text), <1>1, <1>3, <1>6, <1>7, <1>8, ListComplete
<1> QED BY <1>2, <1>4, <1>6, <1>9
(* The innermost list becomes its item's. *)
LEMMA TreeClosed ==
  ASSUME FormInv, CloseList, NEW kids, NEW from, NEW to, NEW lev, Tree(kids, from, to, lev),
         NEW o, o = OwnerOf(root, stack, Len(stack)), NEW until, until = [to EXCEPT ![o] = at]
  PROVE  Tree(kids, from, until, lev)'
<1>0. /\ stack # <<>> /\ pc \in {"first", "next"} /\ pc' = "next" /\ Peek = ClosingOf(Last(stack).open)
      /\ UNCHANGED <<text, strings, root>> /\ at' = at + 1
  BY DEF CloseList
<1>1. /\ IsText(text) /\ NestingLimit \in Nat /\ stack \in Seq(Frame) /\ at \in Nat
      /\ IsHeap(nodes)
  BY TextOfForm DEF FormInv, Hung
<1>2. PICK K \in Nat \ {0} : K = Len(stack) /\ K \in 1 .. Len(stack)
  BY <1>0, <1>1
<1>3. PICK f : f = stack[K]
  OBVIOUS
<1>4. f \in Frame /\ IsHanded(nodes, o, f, nodes') /\ IsShorter(stack, stack')
  BY <1>2, <1>3, Handing
<1>5. /\ o \in DOMAIN nodes /\ o \in Nat /\ lev[o] = K - 1
      /\ text[from[o]] = f.open /\ text[from[o]] \in Opening
      /\ at = After(kids, from, to, o)
  BY <1>0, <1>2, <1>3, InnermostAre
<1>6. at \in 1 .. Len(text) /\ text[at] = ClosingOf(f.open)
  <2>1. Peek # "end"
    BY <1>0 DEF ClosingOf
  <2> QED BY <1>0, <1>2, <1>3, <2>1, TextOfForm DEF Last
<1>7. <<from[o], at>> \in ValuesFrom(text)[NestingLimit - lev[o]]
  BY <1>0, <1>2, <1>3, <1>6, ListIsValue
<1>8. /\ IsGhost(kids, from, to, lev) /\ Apart(DOMAIN nodes, root, kids)
  BY DEF Tree
<1>9. IsGhost(kids, from, until, lev) /\ until[o] = at
  BY <1>1, <1>5, <1>8 DEF IsGhost
<1>10. \A n \in DOMAIN nodes : \A i \in 1 .. Len(kids[n]) : kids[n][i] = o =>
         i = Len(kids[n]) /\ K # 1 /\ n = OwnerOf(root, stack, K - 1)
  BY <1>1, <1>2, OwnerIsLast
<1>11. /\ stack' \in Seq(Frame) /\ Len(stack') = K - 1
       /\ \A k \in 1 .. K - 1 : stack'[k] = stack[k] /\ OwnerOf(root, stack', k) = OwnerOf(root, stack, k)
  BY <1>2, <1>4 DEF IsShorter, OwnerOf
<1>12. \A n : IsOwner(root, stack, n) <=> n = o \/ IsOwner(root, stack', n)
  <2>1. \A n : IsOwner(root, stack', n) => IsOwner(root, stack, n)
    BY <1>2, <1>11 DEF IsOwner
  <2>2. \A n : IsOwner(root, stack, n) => n = o \/ IsOwner(root, stack', n)
    BY <1>2, <1>11 DEF IsOwner
  <2>3. IsOwner(root, stack, o)
    BY <1>2 DEF IsOwner
  <2> QED BY <2>1, <2>2, <2>3
<1>13. LastItem(root, stack') = o
  <2>1. CASE K = 1
    <3>1. stack' = <<>>
      BY <1>11, <2>1
    <3> QED BY <1>2, <2>1, <3>1 DEF LastItem, OwnerOf
  <2>2. CASE K # 1
    <3>1. stack' # <<>> /\ K - 1 \in 1 .. K - 1
      BY <1>2, <1>11, <2>2
    <3>2. LastItem(root, stack') = stack[K - 1].current
      BY <1>11, <3>1 DEF LastItem
    <3> QED BY <1>2, <2>2, <3>2 DEF OwnerOf
  <2> QED BY <2>1, <2>2
<1>14. \A n \in DOMAIN nodes : n \in Nat /\ kids[n] \in Seq(Nat)
  BY <1>8 DEF IsGhost, Apart
<1>15. /\ pc = "first" => kids[o] = <<>> /\ f.head = NULL
       /\ pc = "next" => kids[o] # <<>> /\ f.head = kids[o][1] /\ f.current = kids[o][Len(kids[o])] /\ f.head # NULL
  <2>1. FrameIs(DOMAIN nodes, text, root, stack, pc, kids, from, lev, K)
    BY <1>2 DEF Tree
  <2>2. kids[o] # <<>> => kids[o][1] \in DOMAIN nodes
    <3>1. kids[o] # <<>> => 1 \in 1 .. Len(kids[o])
      BY <1>5, <1>14, HasLast
    <3> QED BY <1>5, <1>8, <3>1 DEF Apart
  <2>3. kids[o] # <<>> => kids[o][1] # NULL
    BY <1>1, <2>2 DEF IsHeap
  <2> QED BY <1>2, <1>3, <2>1, <2>3 DEF FrameIs
<1>16. /\ DOMAIN nodes' = DOMAIN nodes
       /\ \A m \in DOMAIN nodes : /\ nodes'[m].next = nodes[m].next /\ nodes'[m].string = nodes[m].string
                                  /\ nodes'[m].valuestring = nodes[m].valuestring
                                  /\ m # o => nodes'[m].child = nodes[m].child /\ nodes'[m].type = nodes[m].type
                                  /\ m # f.head => nodes'[m].prev = nodes[m].prev
       /\ nodes'[o].child = f.head /\ nodes'[o].type = f.open
       /\ f.head # NULL => nodes'[f.head].prev = f.current
  BY <1>4 DEF IsHanded
<1>17. ASSUME NEW n \in DOMAIN nodes, NEW i \in 1 .. Len(kids[n]), kids[n][i] = f.head, f.head # NULL PROVE n = o /\ i = 1
  <2>1. kids[o] # <<>> /\ f.head = kids[o][1]
    BY <1>0, <1>15, <1>17
  <2>2. 1 \in 1 .. Len(kids[o])
    BY <1>5, <1>14, <2>1, HasLast
  <2> QED BY <1>5, <1>8, <1>17, <2>1, <2>2 DEF Apart
<1>18. ASSUME NEW n \in DOMAIN nodes PROVE Row(nodes', kids, n)
  <2>1. Row(nodes, kids, n)
    BY DEF Tree
  <2>2. \A i \in 1 .. Len(kids[n]) : kids[n][i] \in DOMAIN nodes /\ kids[n][i] # NULL
    BY <1>1, <1>8 DEF Apart, IsHeap
  <2>3. \A i \in 1 .. Len(kids[n]) : nodes'[kids[n][i]].next = nodes[kids[n][i]].next
    BY <1>16, <2>2
  <2>4. \A i \in 1 .. Len(kids[n]) : i # 1 => nodes'[kids[n][i]].prev = nodes[kids[n][i]].prev
    BY <1>16, <1>17, <2>2
  <2> QED BY <2>1, <2>3, <2>4 DEF Row
<1>19. ASSUME NEW n \in DOMAIN nodes PROVE Placed(text, kids, from, until, lev, n)
  <2>1. Placed(text, kids, from, to, lev, n)
    BY DEF Tree
  <2>2. \A m \in DOMAIN nodes : \A i \in 1 .. Len(kids[m]) : i # 1 => kids[m][i - 1] # o
    <3> SUFFICES ASSUME NEW m \in DOMAIN nodes, NEW i \in 1 .. Len(kids[m]), i # 1, kids[m][i - 1] = o PROVE FALSE
      OBVIOUS
    <3>1. Len(kids[m]) \in Nat
      BY <1>14, HasLast
    <3>2. i - 1 \in 1 .. Len(kids[m]) /\ i - 1 # Len(kids[m])
      BY <3>1
    <3> QED BY <1>10, <3>2
  <2>3. until = [to EXCEPT ![o] = at]
    OBVIOUS
  <2> QED BY ONLY <1>1, <1>8, <2>1, <2>2, <2>3, n \in DOMAIN nodes, PlacedSame
<1>20. ASSUME NEW n \in DOMAIN nodes, ~IsOwner(root, stack', n) PROVE Parted(nodes', kids, n)
  <2>1. CASE n = o
    <3>1. kids[o] = <<>> <=> pc = "first"
      BY <1>0, <1>15
    <3> QED BY <1>0, <1>15, <1>16, <2>1, <3>1 DEF Parted
  <2>2. CASE n # o
    <3>1. Parted(nodes, kids, n)
      BY <1>12, <1>20, <2>2 DEF Tree
    <3>2. nodes'[n].child = nodes[n].child
      BY <1>16, <2>2
    <3>3. kids[n] # <<>> => nodes'[kids[n][1]].prev = nodes[kids[n][1]].prev
      <4> SUFFICES ASSUME kids[n] # <<>> PROVE nodes'[kids[n][1]].prev = nodes[kids[n][1]].prev
        OBVIOUS
      <4>1. 1 \in 1 .. Len(kids[n])
        BY <1>14, HasLast
      <4>2. kids[n][1] \in DOMAIN nodes /\ kids[n][1] # NULL
        BY <1>1, <1>8, <4>1 DEF Apart, IsHeap
      <4>3. kids[n][1] # f.head
        BY <1>17, <2>2, <4>1, <4>2
      <4> QED BY <1>16, <4>2, <4>3
    <3> QED BY <3>1, <3>2, <3>3 DEF Parted
  <2> QED BY <2>1, <2>2
<1>21. ASSUME NEW n \in DOMAIN nodes, ~IsOwner(root, stack', n)
       PROVE  Complete(nodes', strings', text, kids, from, until, lev, n)
  <2>1. CASE n = o
    <3>1. After(kids, from, until, o) = After(kids, from, to, o)
      <4> SUFFICES ASSUME kids[o] # <<>> PROVE until[kids[o][Len(kids[o])]] = to[kids[o][Len(kids[o])]]
        BY DEF After
      <4>1. PICK y : y = kids[o][Len(kids[o])]
        OBVIOUS
      <4>2. Len(kids[o]) \in 1 .. Len(kids[o])
        BY <1>5, <1>14, HasLast
      <4>3. y \in Nat /\ lev[y] = lev[o] + 1
        <5>1. Placed(text, kids, from, to, lev, o)
          BY <1>5 DEF Tree
        <5>2. y \in DOMAIN nodes
          BY <1>5, <1>8, <4>1, <4>2 DEF Apart
        <5> QED BY <1>14, <4>1, <4>2, <5>1, <5>2 DEF Placed
      <4>4. y # o
        BY <1>5, <4>3
      <4> QED BY <1>8, <4>1, <4>3, <4>4 DEF IsGhost
    <3>2. HoldsList(nodes', text, kids, from, until, o)
      BY <1>5, <1>6, <1>9, <1>16, <3>1 DEF HoldsList
    <3>3. nodes'[o].type \in Opening
      BY <1>5, <1>16
    <3> QED BY <1>7, <1>9, <2>1, <3>2, <3>3 DEF Complete
  <2>2. CASE n # o
    <3>1. ~Pending(root, stack, pc, n)
      BY <1>0, <1>12, <1>21, <2>2 DEF Pending, Filled
    <3>2. Complete(nodes, strings, text, kids, from, to, lev, n)
      BY <3>1 DEF Tree
    <3>3. kids[n] # <<>> => kids[n][Len(kids[n])] # o
      <4> SUFFICES ASSUME kids[n] # <<>>, kids[n][Len(kids[n])] = o PROVE FALSE
        OBVIOUS
      <4>1. Len(kids[n]) \in 1 .. Len(kids[n])
        BY <1>14, HasLast
      <4>2. K # 1 /\ n = OwnerOf(root, stack, K - 1)
        BY <1>10, <4>1
      <4>3. K - 1 \in 1 .. K - 1
        BY <4>2
      <4> QED BY <1>11, <1>21, <4>2, <4>3 DEF IsOwner
    <3>4. n \in Nat
      BY <1>14
    <3>5. until = [to EXCEPT ![o] = at] /\ \A s \in DOMAIN strings : s \in DOMAIN strings' /\ strings'[s] = strings[s]
      BY <1>0
    <3>6. nodes'[n].type = nodes[n].type /\ nodes'[n].valuestring = nodes[n].valuestring
      BY <1>16, <2>2
    <3> QED BY ONLY <1>8, <2>2, <3>2, <3>3, <3>4, <3>5, <3>6, CompleteSame
  <2> QED BY <2>1, <2>2
<1>22. ASSUME NEW n \in DOMAIN nodes PROVE Named(nodes', strings', text, "next", o, kids, from, n)
  <2>1. PICK x : x = LastItem(root, stack)
    OBVIOUS
  <2>2. Named(nodes, strings, text, pc, x, kids, from, n)
    BY <2>1 DEF Tree
  <2>3. pc # "name" /\ pc # "colon"
    BY <1>0
  <2>4. \A m \in DOMAIN nodes : nodes'[m].string = nodes[m].string
    BY <1>16
  <2>5. \A s \in DOMAIN strings : s \in DOMAIN strings' /\ strings'[s] = strings[s]
    BY <1>0
  <2>6. Named(nodes', strings', text, "next", x, kids, from, n)
    BY ONLY <1>8, <2>2, <2>3, <2>4, <2>5, n \in DOMAIN nodes, NamedSame
  <2> QED BY <2>6 DEF Named
<1>23. \A k \in 1 .. K - 1 : FrameIs(DOMAIN nodes, text, root, stack', "next", kids, from, lev, k)
  <2> SUFFICES ASSUME NEW k \in 1 .. K - 1 PROVE FrameIs(DOMAIN nodes, text, root, stack', "next", kids, from, lev, k)
    OBVIOUS
  <2>1. k \in 1 .. Len(stack) /\ k # Len(stack)
    BY <1>2
  <2>2. FrameIs(DOMAIN nodes, text, root, stack, pc, kids, from, lev, k)
    BY <2>1 DEF Tree
  <2> QED BY <1>11, <2>1, <2>2 DEF FrameIs
<1>24. Stands(text, root, stack', "next", at + 1, from, until)
  BY <1>9, <1>13 DEF Stands, Filled
<1>25. \A n : Pending(root, stack', "next", n) <=> IsOwner(root, stack', n)
  BY DEF Pending, Filled
<1>26. from[root] = Start(text) /\ lev[root] = 0
  BY DEF Tree
<1> QED BY <1>0, <1>8, <1>9, <1>11, <1>13, <1>16, <1>18, <1>19, <1>20, <1>21, <1>22, <1>23, <1>24, <1>25, <1>26 DEF Tree, Filled
(* A list is opened. *)
LEMMA TreeOpened ==
  ASSUME FormInv, OpenList, ~TooDeep, NEW kids, NEW from, NEW to, NEW lev, Tree(kids, from, to, lev)
  PROVE  Tree(kids, from, to, lev)'
<1> DEFINE f == [head |-> NULL, current |-> NULL, open |-> Peek]
<1>0. /\ pc = "value" /\ pc' = "first" /\ Peek \in Opening /\ UNCHANGED <<text, nodes, strings, root>>
      /\ stack' = Append(stack, f) /\ at' = at + 1
  BY DEF OpenList
<1>1. /\ stack \in Seq(Frame) /\ at \in Nat
  BY TextOfForm
<1>2. PICK K \in Nat : K = Len(stack)
  BY <1>1
<1>3. f \in Frame /\ f.head = NULL /\ f.open = text[at]
  <2>1. Peek # "end"
    BY <1>0 DEF Opening
  <2> QED BY <1>0, <2>1, TextOfForm DEF Frame, NULL
<1> HIDE DEF f
<1>4. /\ stack' \in Seq(Frame) /\ Len(stack') = K + 1 /\ stack'[K + 1] = f /\ stack' # <<>>
      /\ \A k \in 1 .. K : stack'[k] = stack[k]
  BY <1>0, <1>1, <1>2, <1>3
<1>5. PICK x : x = LastItem(root, stack)
  OBVIOUS
<1>6. x \in DOMAIN nodes /\ lev[x] = K /\ kids[x] = <<>> /\ at = from[x]
  <2>1. pc # "first"
    BY <1>0
  <2>2. x \in DOMAIN nodes /\ lev[x] = K
    BY <1>1, <1>2, <1>5, <2>1, LastIs
  <2> QED BY <1>0, <1>5, <2>2 DEF Tree, Filled, Stands
<1>7. \A k \in 1 .. K : OwnerOf(root, stack', k) = OwnerOf(root, stack, k)
  <2> SUFFICES ASSUME NEW k \in 1 .. K PROVE OwnerOf(root, stack', k) = OwnerOf(root, stack, k)
    OBVIOUS
  <2>1. k # 1 => k - 1 \in 1 .. K
    OBVIOUS
  <2> QED BY <1>4, <2>1 DEF OwnerOf
<1>8. OwnerOf(root, stack', K + 1) = x
  <2>1. CASE K = 0
    <3>1. stack = <<>>
      <4>1. Len(stack) = 0
        BY <1>2, <2>1
      <4>2. stack \in Seq(Frame)
        BY <1>1
      <4> QED BY ONLY <4>1, <4>2
    <3>2. K + 1 = 1
      BY <2>1
    <3> QED BY <1>5, <3>1, <3>2 DEF OwnerOf, LastItem
  <2>2. CASE K # 0
    <3>1. stack # <<>> /\ K \in 1 .. K /\ K + 1 # 1 /\ (K + 1) - 1 = K
      BY <1>2, <2>2
    <3> QED BY <1>2, <1>4, <1>5, <3>1 DEF OwnerOf, LastItem
  <2> QED BY <2>1, <2>2
<1>9. \A n : IsOwner(root, stack', n) <=> n = x \/ IsOwner(root, stack, n)
  <2>1. \A k \in 1 .. K + 1 : k = K + 1 \/ k \in 1 .. K
    OBVIOUS
  <2>2. K + 1 \in 1 .. K + 1 /\ \A k \in 1 .. K : k \in 1 .. K + 1
    OBVIOUS
  <2>3. \A n : IsOwner(root, stack', n) => n = x \/ IsOwner(root, stack, n)
    BY <1>2, <1>4, <1>7, <1>8, <2>1 DEF IsOwner
  <2>4. \A n : n = x \/ IsOwner(root, stack, n) => IsOwner(root, stack', n)
    BY <1>2, <1>4, <1>7, <1>8, <2>2 DEF IsOwner
  <2> QED BY <2>3, <2>4
<1>10. \A n : ~IsOwner(root, stack', n) => ~IsOwner(root, stack, n) /\ ~Pending(root, stack, pc, n)
  BY <1>5, <1>9 DEF Pending
<1>11. ASSUME NEW n \in DOMAIN nodes PROVE Named(nodes, strings, text, "first", LastItem(root, stack'), kids, from, n)
  <2>1. Named(nodes, strings, text, pc, x, kids, from, n)
    BY <1>5 DEF Tree
  <2> QED BY <1>0, <2>1 DEF Named
<1>12. ASSUME NEW k \in 1 .. K + 1 PROVE FrameIs(DOMAIN nodes, text, root, stack', "first", kids, from, lev, k)
  <2>1. CASE k = K + 1
    BY <1>3, <1>4, <1>6, <1>8, <2>1 DEF FrameIs
  <2>2. CASE k # K + 1
    <3>1. k \in 1 .. K /\ k # K + 1
      BY <2>2
    <3>2. FrameIs(DOMAIN nodes, text, root, stack, pc, kids, from, lev, k)
      BY <1>2, <3>1 DEF Tree
    <3> QED BY <1>0, <1>4, <1>7, <3>1, <3>2 DEF FrameIs
  <2> QED BY <2>1, <2>2
<1>13. Stands(text, root, stack', "first", at + 1, from, to)
  BY <1>4, <1>6, <1>8 DEF Stands, Filled
<1>14. \A n : Pending(root, stack', "first", n) <=> IsOwner(root, stack', n)
  BY DEF Pending, Filled
<1>15. /\ IsGhost(kids, from, to, lev) /\ Apart(DOMAIN nodes, root, kids)
       /\ from[root] = Start(text) /\ lev[root] = 0
       /\ \A n \in DOMAIN nodes : Row(nodes, kids, n) /\ Placed(text, kids, from, to, lev, n)
       /\ \A n \in DOMAIN nodes : ~IsOwner(root, stack', n) => Parted(nodes, kids, n)
       /\ \A n \in DOMAIN nodes : ~IsOwner(root, stack', n) =>
            Complete(nodes, strings, text, kids, from, to, lev, n)
  BY <1>10 DEF Tree
<1> QED BY <1>0, <1>4, <1>11, <1>12, <1>13, <1>14, <1>15 DEF Tree, Filled

(* A name is read. *)
LEMMA TreeNamed ==
  ASSUME FormInv, NEW kids, NEW from, NEW to, NEW lev, Tree(kids, from, to, lev),
         pc = "name", pc' = "colon", at' = at + 1, at <= Len(text), text[at] \in Strings, UNCHANGED <<text, stack, root>>,
         NEW x, x = LastItem(root, stack),
         DOMAIN nodes' = DOMAIN nodes, \A n \in DOMAIN nodes \ {x} : nodes'[n] = nodes[n],
         nodes'[x].next = nodes[x].next, nodes'[x].prev = nodes[x].prev, nodes'[x].child = nodes[x].child,
         \A s \in DOMAIN strings : s \in DOMAIN strings' /\ strings'[s] = strings[s],
         nodes'[x].string \in DOMAIN strings', strings'[nodes'[x].string] = text[at]
  PROVE  Tree(kids, from, to, lev)'
<1>1. stack \in Seq(Frame) /\ at \in Nat
  BY TextOfForm
<1>2. /\ x \in DOMAIN nodes /\ x \in Nat /\ ~IsOwner(root, stack, x)
  <2>1. pc # "first"
    OBVIOUS
  <2> QED BY <1>1, <2>1, LastIs
<1>3. /\ IsGhost(kids, from, to, lev) /\ Apart(DOMAIN nodes, root, kids) /\ kids[x] = <<>> /\ at + 2 = from[x]
      /\ text[from[OwnerOf(root, stack, Len(stack))]] # "["
  BY DEF Tree, Filled, Stands
<1>4. \A n \in DOMAIN nodes : /\ nodes'[n].next = nodes[n].next /\ nodes'[n].prev = nodes[n].prev
                              /\ nodes'[n].child = nodes[n].child
  OBVIOUS
<1>5. ASSUME NEW n \in DOMAIN nodes PROVE Row(nodes', kids, n) /\ Placed(text, kids, from, to, lev, n)
  <2>1. Row(nodes, kids, n) /\ Placed(text, kids, from, to, lev, n)
    BY DEF Tree
  <2>2. \A m \in DOMAIN nodes : nodes'[m].next = nodes[m].next /\ nodes'[m].prev = nodes[m].prev
    BY <1>4
  <2>3. Row(nodes', kids, n)
    BY ONLY <1>3, <2>1, <2>2, n \in DOMAIN nodes, RowSame
  <2> QED BY <2>1, <2>3
<1>6. ASSUME NEW n \in DOMAIN nodes, ~IsOwner(root, stack, n) PROVE Parted(nodes', kids, n)
  <2>1. Parted(nodes, kids, n)
    BY <1>6 DEF Tree
  <2>2. kids[n] # <<>> => kids[n][1] \in DOMAIN nodes
    <3>1. kids[n] \in Seq(Nat)
      BY <1>3 DEF IsGhost, Apart
    <3>2. kids[n] # <<>> => 1 \in 1 .. Len(kids[n])
      BY <3>1, HasLast
    <3> QED BY <1>3, <3>2 DEF Apart
  <2> QED BY <1>4, <2>1, <2>2 DEF Parted
<1>7. ASSUME NEW n \in DOMAIN nodes, ~Pending(root, stack, "colon", n)
      PROVE  Complete(nodes', strings', text, kids, from, to, lev, n)
  <2>1. ~Pending(root, stack, pc, n) /\ n # x
    BY <1>7 DEF Pending, Filled
  <2>2. Complete(nodes, strings, text, kids, from, to, lev, n)
    BY <2>1 DEF Tree
  <2> QED BY <2>1, <2>2 DEF Complete, HoldsList, HoldsAtom
<1>8. ASSUME NEW n \in DOMAIN nodes PROVE Named(nodes', strings', text, "colon", x, kids, from, n)
  <2>1. Named(nodes, strings, text, "name", x, kids, from, n)
    BY DEF Tree
  <2> SUFFICES ASSUME NEW i \in 1 .. Len(kids[n]), NEW c, c = kids[n][i]
               PROVE  /\ text[from[n]] = "[" => nodes'[c].string = NULL
                      /\ text[from[n]] # "[" => HasName(nodes', strings', text, from, c)
                      /\ text[from[n]] # "[" /\ ~(c = x) => text[from[c] - 1] = ":"
    BY DEF Named
  <2>2. c \in DOMAIN nodes
    BY <1>3 DEF Apart
  <2>3. CASE c = x
    <3>1. text[from[n]] # "["
      <4>1. Len(stack) # 0 /\ pc # "first"
        BY <1>1 DEF FormInv, ListsOpen
      <4>2. PICK o \in DOMAIN nodes : /\ o = OwnerOf(root, stack, Len(stack)) /\ kids[o] # <<>>
                                      /\ Len(kids[o]) \in Nat \ {0} /\ x = kids[o][Len(kids[o])]
        BY <1>1, <4>1, PendingAre
      <4>3. Len(kids[o]) \in 1 .. Len(kids[o])
        BY <4>2
      <4>4. n = o
        <5>1. \A m, k \in DOMAIN nodes : \A j \in 1 .. Len(kids[m]), l \in 1 .. Len(kids[k]) :
                kids[m][j] = kids[k][l] => m = k /\ j = l
          BY <1>3 DEF Apart
        <5>2. kids[n][i] = kids[o][Len(kids[o])]
          BY <2>3, <4>2
        <5> QED BY <4>3, <5>1, <5>2
      <4> QED BY <1>3, <4>2, <4>4
    <3>2. HasName(nodes', strings', text, from, c)
      <4>1. from[x] - 2 = at
        BY <1>1, <1>3
      <4> QED BY <2>3, <4>1 DEF HasName
    <3> QED BY <2>3, <3>1, <3>2
  <2>4. CASE c # x
    <3>1. nodes'[c] = nodes[c]
      BY <2>2, <2>4
    <3>2. /\ text[from[n]] = "[" => nodes[c].string = NULL
          /\ text[from[n]] # "[" => HasName(nodes, strings, text, from, c) /\ text[from[c] - 1] = ":"
      BY <2>1, <2>4 DEF Named
    <3> QED BY <3>1, <3>2 DEF HasName
  <2> QED BY <2>3, <2>4
<1>9. \A k \in 1 .. Len(stack) : FrameIs(DOMAIN nodes, text, root, stack, "colon", kids, from, lev, k)
  <2>1. \A k \in 1 .. Len(stack) : FrameIs(DOMAIN nodes, text, root, stack, pc, kids, from, lev, k)
    BY DEF Tree
  <2> QED BY <2>1 DEF FrameIs
<1>10. Stands(text, root, stack, "colon", at + 1, from, to)
  <2>1. at + 1 + 1 = from[x]
    BY <1>1, <1>3
  <2> QED BY <1>3, <2>1 DEF Stands, Filled
<1>11. from[root] = Start(text) /\ lev[root] = 0
  BY DEF Tree
<1> QED BY <1>3, <1>5, <1>6, <1>7, <1>8, <1>9, <1>10, <1>11 DEF Tree, Filled

(* A colon is read. *)
LEMMA TreeColon ==
  ASSUME FormInv, ParseColon, Peek = ":", NEW kids, NEW from, NEW to, NEW lev, Tree(kids, from, to, lev)
  PROVE  Tree(kids, from, to, lev)'
<1>0. pc = "colon" /\ pc' = "value" /\ at' = at + 1 /\ UNCHANGED <<text, stack, nodes, strings, root>>
  BY DEF ParseColon
<1>1. stack \in Seq(Frame) /\ at \in Nat /\ text[at] = ":"
  <2>1. Peek # "end"
    OBVIOUS
  <2> QED BY <2>1, TextOfForm
<1>2. PICK x : x = LastItem(root, stack)
  OBVIOUS
<1>3. at + 1 = from[x] /\ from[x] - 1 = at
  <2>1. at + 1 = from[x]
    BY <1>0, <1>2 DEF Tree, Stands
  <2> QED BY <1>1, <2>1
<1>4. ASSUME NEW n \in DOMAIN nodes PROVE Named(nodes, strings, text, "value", x, kids, from, n)
  <2>1. Named(nodes, strings, text, "colon", x, kids, from, n)
    BY <1>0, <1>2 DEF Tree
  <2> QED BY <1>1, <1>3, <2>1 DEF Named
<1>5. \A k \in 1 .. Len(stack) : FrameIs(DOMAIN nodes, text, root, stack, "value", kids, from, lev, k)
  <2>1. \A k \in 1 .. Len(stack) : FrameIs(DOMAIN nodes, text, root, stack, pc, kids, from, lev, k)
    BY DEF Tree
  <2> QED BY <1>0, <2>1 DEF FrameIs
<1>6. Stands(text, root, stack, "value", at + 1, from, to)
  BY <1>2, <1>3 DEF Stands, Filled
<1>7. \A n : Pending(root, stack, "value", n) <=> Pending(root, stack, pc, n)
  BY <1>0 DEF Pending, Filled
<1>8. kids[x] = <<>>
  BY <1>0, <1>2 DEF Tree, Filled
<1>9. /\ IsGhost(kids, from, to, lev) /\ Apart(DOMAIN nodes, root, kids)
      /\ from[root] = Start(text) /\ lev[root] = 0
      /\ \A n \in DOMAIN nodes : Row(nodes, kids, n) /\ Placed(text, kids, from, to, lev, n)
      /\ \A n \in DOMAIN nodes : ~IsOwner(root, stack, n) => Parted(nodes, kids, n)
      /\ \A n \in DOMAIN nodes : ~Pending(root, stack, pc, n) =>
           Complete(nodes, strings, text, kids, from, to, lev, n)
  BY DEF Tree
<1> QED BY <1>0, <1>2, <1>4, <1>5, <1>6, <1>7, <1>8, <1>9 DEF Tree

(* The parser is done, or the handler walks over the items. *)
LEMMA TreeKept ==
  ASSUME NEW kids, NEW from, NEW to, NEW lev, Tree(kids, from, to, lev), stack = <<>>,
         UNCHANGED <<text, at, stack, nodes, strings, root>>,
         pc \in {"next", "parsed", "items"}, pc' \in {"parsed", "items"}
  PROVE  Tree(kids, from, to, lev)'
<1>1. \A n : Pending(root, stack, pc, n) <=> Pending(root, stack, pc', n)
  BY DEF Pending, Filled
<1>2. \A n \in DOMAIN nodes : Named(nodes, strings, text, pc', LastItem(root, stack), kids, from, n)
  <2>1. \A n \in DOMAIN nodes : Named(nodes, strings, text, pc, LastItem(root, stack), kids, from, n)
    BY DEF Tree
  <2> QED BY <2>1 DEF Named
<1>3. Stands(text, root, stack, pc', at, from, to)
  <2>1. Stands(text, root, stack, pc, at, from, to)
    BY DEF Tree
  <2> QED BY <2>1 DEF Stands, Filled
<1>4. \A k \in 1 .. Len(stack) : FALSE
  OBVIOUS
<1>5. /\ IsGhost(kids, from, to, lev) /\ Apart(DOMAIN nodes, root, kids)
      /\ from[root] = Start(text) /\ lev[root] = 0
      /\ \A n \in DOMAIN nodes : Row(nodes, kids, n) /\ Placed(text, kids, from, to, lev, n)
      /\ \A n \in DOMAIN nodes : ~IsOwner(root, stack, n) => Parted(nodes, kids, n)
      /\ \A n \in DOMAIN nodes : ~Pending(root, stack, pc, n) =>
           Complete(nodes, strings, text, kids, from, to, lev, n)
  BY DEF Tree
<1>6. pc' \notin Filled
  BY DEF Filled
<1> QED BY <1>1, <1>2, <1>3, <1>4, <1>5, <1>6 DEF Tree
-----------------------------------------------------------------------------
(* The items with a new one, n, at the end of the list of o.                *)
OneMore(D, kids, o, n, more) ==
  /\ more[n] = <<>> /\ \A m \in D \ {o} : more[m] = kids[m]
  /\ Len(more[o]) = Len(kids[o]) + 1 /\ more[o] # <<>> /\ more[o][Len(kids[o]) + 1] = n
  /\ \A i \in 1 .. Len(kids[o]) : more[o][i] = kids[o][i]

WithOneMore(kids, o, n) == [kids EXCEPT ![o] = Append(kids[o], n), ![n] = <<>>]

(* An item at the end of a list.                                            *)
LEMMA AppendIs ==
  ASSUME NEW q \in Seq(Nat), NEW n \in Nat
  PROVE  \E s \in Seq(Nat) : /\ s = Append(q, n) /\ Len(s) = Len(q) + 1 /\ s # <<>> /\ s[Len(q) + 1] = n
                            /\ \A i \in 1 .. Len(q) : s[i] = q[i]
<1>1. PICK s : s = Append(q, n)
  OBVIOUS
<1>2. /\ s \in Seq(Nat) /\ Len(s) = Len(q) + 1 /\ s # <<>> /\ s[Len(q) + 1] = n
      /\ \A i \in 1 .. Len(q) : s[i] = q[i]
  BY <1>1
<1> QED BY <1>1, <1>2

(* The list without items.                                                  *)
LEMMA EmptyIs == \E e : e = <<>> /\ e \in Seq(Nat)
<1>1. <<>> \in Seq(Nat)
  OBVIOUS
<1> QED BY <1>1

(* The lists after one more item: only its owner's has grown.               *)
LEMMA OneMoreIs ==
  ASSUME NEW D \in SUBSET Nat, NEW o \in D, NEW n \in Nat, n \notin D, NEW kids \in [Nat -> Seq(Nat)],
         NEW more, more = WithOneMore(kids, o, n)
  PROVE  more \in [Nat -> Seq(Nat)] /\ OneMore(D, kids, o, n, more)
<1>1. PICK q : q = kids[o] /\ q \in Seq(Nat)
  OBVIOUS
<1>2. q \in Seq(Nat) /\ n \in Nat
  BY <1>1
<1>3. PICK s \in Seq(Nat) : /\ s = Append(q, n) /\ Len(s) = Len(q) + 1 /\ s # <<>> /\ s[Len(q) + 1] = n
                          /\ \A i \in 1 .. Len(q) : s[i] = q[i]
  BY ONLY <1>2, AppendIs
<1>4. PICK e : e = <<>> /\ e \in Seq(Nat)
  BY ONLY EmptyIs
<1>5. more = [kids EXCEPT ![o] = s, ![n] = e]
  BY <1>1, <1>3, <1>4 DEF WithOneMore
<1>6. more \in [Nat -> Seq(Nat)]
  BY <1>3, <1>4, <1>5
<1>7. more[n] = e /\ more[o] = s /\ \A m \in D \ {o} : more[m] = kids[m]
  BY <1>5
<1>8. Len(more[o]) = Len(kids[o]) + 1 /\ more[o] # <<>> /\ more[o][Len(kids[o]) + 1] = n
  BY <1>1, <1>3, <1>7
<1>9. \A i \in 1 .. Len(kids[o]) : more[o][i] = kids[o][i]
  BY <1>1, <1>3, <1>7
<1>10. more[n] = <<>> /\ \A m \in D \ {o} : more[m] = kids[m]
  BY <1>4, <1>7
<1>11. OneMore(D, kids, o, n, more)
  BY ONLY <1>8, <1>9, <1>10 DEF OneMore
<1> QED BY <1>6, <1>11

(* An item of the longer lists is an old one, or the new one.               *)
LEMMA OneMoreAre ==
  ASSUME NEW D, NEW kids, NEW o, NEW n, NEW more, OneMore(D, kids, o, n, more), NEW m \in D,
         Len(kids[o]) \in Nat, NEW i \in 1 .. Len(more[m])
  PROVE  \/ i \in 1 .. Len(kids[m]) /\ more[m][i] = kids[m][i]
         \/ m = o /\ i = Len(kids[o]) + 1 /\ more[m][i] = n
<1>1. CASE m # o
  BY <1>1 DEF OneMore
<1>2. CASE m = o
  <2>1. i \in 1 .. Len(kids[o]) \/ i = Len(kids[o]) + 1
    BY <1>2 DEF OneMore
  <2> QED BY <1>2, <2>1 DEF OneMore
<1> QED BY <1>1, <1>2

(* A new item at the end of the innermost list. *)
LEMMA TreeAttached ==
  ASSUME FormInv, NEW kids, NEW from, NEW to, NEW lev, Tree(kids, from, to, lev),
         stack # <<>>, pc \in {"first", "next"},
         pc = "first" => Peek # ClosingOf(Last(stack).open) /\ at' = at,
         pc = "next" => Peek = Comma /\ at' = at + 1,
         nodes' = Attached(Fresh(nodes)),
         stack' = [stack EXCEPT ![Len(stack)] =
           [@ EXCEPT !.current = Fresh(nodes),
                     !.head = IF Last(stack).head = NULL THEN Fresh(nodes) ELSE Last(stack).head]],
         pc' = IF Last(stack).open = "[" THEN "value" ELSE "name",
         UNCHANGED <<text, strings, root>>,
         NEW o, o = OwnerOf(root, stack, Len(stack)), NEW n, n = Fresh(nodes),
         NEW more, more = WithOneMore(kids, o, n),
         NEW start, start = [from EXCEPT ![n] = Before(more, from, to, o, Len(kids[o]) + 1) + Width(Last(stack).open)],
         NEW deep, deep = [lev EXCEPT ![n] = Len(stack)]
  PROVE  Tree(more, start, to, deep)'
<1>1. /\ IsText(text) /\ NestingLimit \in Nat /\ stack \in Seq(Frame) /\ at \in Nat
      /\ IsHeap(nodes)
  BY TextOfForm DEF FormInv, Hung
<1>2. PICK K \in Nat \ {0} : K = Len(stack) /\ K \in 1 .. Len(stack)
  BY <1>1
<1>3. PICK f \in Frame : f = stack[K] /\ f = Last(stack)
  BY <1>1, <1>2 DEF Last
<1>4. /\ o \in DOMAIN nodes /\ o \in Nat /\ lev[o] = K - 1 /\ K \in 1 .. NestingLimit
      /\ text[from[o]] = f.open /\ f.open \in Opening
      /\ at = After(kids, from, to, o)
  BY <1>2, <1>3, InnermostAre
<1>5. PICK last : last = f.current
  OBVIOUS
<1>6. /\ n \in Nat /\ n # NULL /\ n \notin DOMAIN nodes
      /\ IsAttached(nodes, n, last, nodes') /\ IsPushed(stack, n, stack')
  <2>1. pc \in Building
    BY DEF Building
  <2>2. last = stack[Len(stack)].current
    BY <1>2, <1>3, <1>5
  <2> QED BY <2>1, <2>2, Attaching
<1>7. /\ IsGhost(kids, from, to, lev) /\ Apart(DOMAIN nodes, root, kids)
      /\ FrameIs(DOMAIN nodes, text, root, stack, pc, kids, from, lev, K)
  BY <1>2 DEF Tree
<1>8. \A m \in DOMAIN nodes : m \in Nat /\ kids[m] \in Seq(Nat) /\ m # n
  BY <1>6, <1>7 DEF IsGhost, Apart
<1>9. PICK L \in Nat : L = Len(kids[o]) /\ (L = 0 <=> kids[o] = <<>>)
  <2>1. kids[o] \in Seq(Nat)
    BY <1>4, <1>8
  <2> QED BY <2>1
<1>10. more \in [Nat -> Seq(Nat)] /\ OneMore(DOMAIN nodes, kids, o, n, more)
  <2>1. DOMAIN nodes \in SUBSET Nat /\ kids \in [Nat -> Seq(Nat)]
    BY <1>7 DEF Apart, IsGhost
  <2>2. o \in DOMAIN nodes /\ n \in Nat /\ n \notin DOMAIN nodes
    BY <1>4, <1>6
  <2>3. more = WithOneMore(kids, o, n)
    OBVIOUS
  <2> QED BY ONLY <2>1, <2>2, <2>3, OneMoreIs
<1>11. /\ L = 0 => pc = "first" /\ f.head = NULL /\ last = NULL
       /\ L # 0 => /\ pc = "next" /\ f.head = kids[o][1] /\ f.head # NULL /\ last = kids[o][L]
                   /\ L \in 1 .. L /\ last \in DOMAIN nodes
  <2>1. (kids[o] = <<>> <=> L = 0) /\ (L # 0 => 1 \in 1 .. L /\ L \in 1 .. L)
    BY <1>4, <1>8, <1>9, HasLast
  <2>2. /\ pc = "first" => kids[o] = <<>> /\ f.head = NULL
        /\ pc = "next" => kids[o] # <<>> /\ f.head = kids[o][1] /\ last = kids[o][L]
    BY <1>2, <1>3, <1>5, <1>7, <1>9 DEF FrameIs
  <2>3. L # 0 => kids[o][1] \in DOMAIN nodes /\ kids[o][L] \in DOMAIN nodes /\ kids[o][1] # NULL
    <3> SUFFICES ASSUME L # 0
                 PROVE  kids[o][1] \in DOMAIN nodes /\ kids[o][L] \in DOMAIN nodes /\ kids[o][1] # NULL
      OBVIOUS
    <3>1. 1 \in 1 .. Len(kids[o]) /\ L \in 1 .. Len(kids[o])
      BY <1>9, <2>1
    <3>2. kids[o][1] \in DOMAIN nodes /\ kids[o][L] \in DOMAIN nodes
      BY <1>4, <1>7, <3>1 DEF Apart
    <3> QED BY <1>1, <3>2 DEF IsHeap
  <2>4. f.head = NULL => last = NULL
    <3>1. Open(nodes, root, stack)
      BY DEF FormInv, ListsOpen, Building
    <3> QED BY <1>2, <1>3, <1>5, <3>1 DEF Open, ListOpen
  <2> QED BY <2>1, <2>2, <2>3, <2>4
<1>12. PICK b : b = Before(more, from, to, o, L + 1)
  OBVIOUS
<1>13. /\ b \in Nat /\ b + 1 = at'
       /\ L = 0 => b = from[o] /\ at' = at
       /\ L # 0 => b = to[last] + 1 /\ text[b] = Comma
  <2>1. CASE L = 0
    <3>1. b = from[o] /\ at' = at /\ kids[o] = <<>>
      <4>1. kids[o] = <<>>
        BY <1>9, <2>1
      <4>2. L + 1 = 1
        BY <2>1
      <4>3. b = from[o]
        BY <1>12, <4>2 DEF Before
      <4> QED BY <1>11, <2>1, <4>1, <4>3
    <3>2. from[o] \in Nat
      BY <1>4, <1>7 DEF IsGhost
    <3> QED BY <1>4, <2>1, <3>1, <3>2 DEF After
  <2>2. CASE L # 0
    <3>1. L + 1 # 1 /\ (L + 1) - 1 = L
      BY <2>2
    <3>2. more[o][L] = kids[o][L]
      BY <1>9, <1>10, <1>11, <2>2 DEF OneMore
    <3>3. b = to[last] + 1
      BY <1>11, <1>12, <2>2, <3>1, <3>2 DEF Before
    <3>4. kids[o] # <<>>
      BY <1>4, <1>8, <1>9, <2>2, HasLast
    <3>5. at = b
      BY <1>4, <1>9, <1>11, <2>2, <3>3, <3>4 DEF After
    <3>6. text[b] = Comma
      <4>1. Peek # "end"
        BY <1>11, <2>2 DEF Comma
      <4> QED BY <1>11, <2>2, <3>5, <4>1, TextOfForm
    <3> QED BY <1>1, <1>11, <2>2, <3>3, <3>5, <3>6
  <2> QED BY <2>1, <2>2
<1>14. /\ start[n] = b + Width(f.open) /\ start[n] \in Nat \ {0} /\ deep[n] = K
       /\ \A m \in DOMAIN nodes : start[m] = from[m] /\ deep[m] = lev[m]
  <2>1. Width(f.open) \in Nat \ {0}
    BY DEF Width
  <2>2. PICK w \in Nat \ {0} : w = b + Width(f.open)
    BY <1>13, <2>1
  <2>3. start = [from EXCEPT ![n] = w] /\ deep = [lev EXCEPT ![n] = K]
    BY <1>2, <1>3, <1>9, <1>12, <2>2
  <2> QED BY <1>6, <1>7, <1>8, <2>2, <2>3 DEF IsGhost
<1>15. IsGhost(more, start, to, deep)
  <2>1. PICK w \in Nat \ {0} : w = b + Width(f.open)
    <3>1. Width(f.open) \in Nat \ {0}
      BY DEF Width
    <3> QED BY <1>13, <3>1
  <2>2. start = [from EXCEPT ![n] = w] /\ deep = [lev EXCEPT ![n] = K]
    BY <1>2, <1>3, <1>9, <1>12, <2>1
  <2>3. K \in 0 .. NestingLimit
    BY <1>1, <1>4
  <2>4. from \in [Nat -> Nat \ {0}] /\ lev \in [Nat -> 0 .. NestingLimit] /\ to \in [Nat -> Nat]
    BY <1>7 DEF IsGhost
  <2>5. start \in [Nat -> Nat \ {0}]
    BY ONLY <2>2, <2>4, w \in Nat \ {0}
  <2>6. deep \in [Nat -> 0 .. NestingLimit]
    BY ONLY <2>2, <2>3, <2>4
  <2> QED BY <1>10, <2>4, <2>5, <2>6 DEF IsGhost
<1>16. /\ DOMAIN nodes' = DOMAIN nodes \cup {n}
       /\ nodes'[n].next = NULL /\ nodes'[n].prev = last /\ nodes'[n].child = NULL
       /\ nodes'[n].string = NULL
       /\ last # NULL => nodes'[last].next = n
       /\ \A m \in DOMAIN nodes :
            /\ m # last => nodes'[m].next = nodes[m].next
            /\ nodes'[m].prev = nodes[m].prev /\ nodes'[m].child = nodes[m].child /\ nodes'[m].type = nodes[m].type
            /\ nodes'[m].string = nodes[m].string /\ nodes'[m].valuestring = nodes[m].valuestring
  BY <1>6 DEF IsAttached
<1>17. ASSUME NEW m \in DOMAIN nodes, NEW i \in 1 .. Len(more[m])
       PROVE  \/ i \in 1 .. Len(kids[m]) /\ more[m][i] = kids[m][i] /\ more[m][i] \in DOMAIN nodes
              \/ m = o /\ i = L + 1 /\ more[m][i] = n
  <2>1. \/ i \in 1 .. Len(kids[m]) /\ more[m][i] = kids[m][i]
        \/ m = o /\ i = L + 1 /\ more[m][i] = n
    <3>1. OneMore(DOMAIN nodes, kids, o, n, more) /\ Len(kids[o]) \in Nat
      BY <1>9, <1>10
    <3>2. \/ i \in 1 .. Len(kids[m]) /\ more[m][i] = kids[m][i]
          \/ m = o /\ i = Len(kids[o]) + 1 /\ more[m][i] = n
      BY ONLY <3>1, m \in DOMAIN nodes, i \in 1 .. Len(more[m]), OneMoreAre
    <3> QED BY <1>9, <3>2
  <2> QED BY <1>7, <2>1 DEF Apart
<1>18. more[n] = <<>> /\ Len(more[n]) = 0
  BY <1>10 DEF OneMore
<1>19. Apart(DOMAIN nodes', root', more)
  <2>1. DOMAIN nodes' \subseteq Nat /\ root' \in DOMAIN nodes' /\ root # n /\ root' = root
    BY <1>6, <1>7, <1>16 DEF Apart
  <2>2. ASSUME NEW m \in DOMAIN nodes', NEW i \in 1 .. Len(more[m])
        PROVE  m \in DOMAIN nodes /\ more[m][i] \in DOMAIN nodes' /\ more[m][i] # root
    <3>1. m \in DOMAIN nodes
      BY <1>16, <1>18
    <3>2. \/ i \in 1 .. Len(kids[m]) /\ more[m][i] = kids[m][i] /\ more[m][i] \in DOMAIN nodes
          \/ more[m][i] = n
      BY <1>17, <3>1
    <3> QED BY <1>7, <1>16, <2>1, <3>1, <3>2 DEF Apart
  <2>3. ASSUME NEW m \in DOMAIN nodes', NEW k \in DOMAIN nodes', NEW i \in 1 .. Len(more[m]), NEW j \in 1 .. Len(more[k]),
               more[m][i] = more[k][j]
        PROVE  m = k /\ i = j
    <3>1. m \in DOMAIN nodes /\ k \in DOMAIN nodes
      BY <2>2
    <3>2. \/ i \in 1 .. Len(kids[m]) /\ more[m][i] = kids[m][i] /\ more[m][i] \in DOMAIN nodes
          \/ m = o /\ i = L + 1 /\ more[m][i] = n
      BY <1>17, <3>1
    <3>3. \/ j \in 1 .. Len(kids[k]) /\ more[k][j] = kids[k][j] /\ more[k][j] \in DOMAIN nodes
          \/ k = o /\ j = L + 1 /\ more[k][j] = n
      BY <1>17, <3>1
    <3>4. \A p, q \in DOMAIN nodes : \A v \in 1 .. Len(kids[p]), w \in 1 .. Len(kids[q]) :
            kids[p][v] = kids[q][w] => p = q /\ v = w
      BY <1>7 DEF Apart
    <3>5. CASE more[m][i] \in DOMAIN nodes
      <4>1. i \in 1 .. Len(kids[m]) /\ more[m][i] = kids[m][i]
        BY <1>6, <3>2, <3>5
      <4>2. j \in 1 .. Len(kids[k]) /\ more[k][j] = kids[k][j]
        BY <1>6, <2>3, <3>3, <3>5
      <4>3. kids[m][i] = kids[k][j]
        BY <2>3, <4>1, <4>2
      <4> QED BY <3>1, <3>4, <4>1, <4>2, <4>3
    <3>6. CASE more[m][i] \notin DOMAIN nodes
      BY <2>3, <3>2, <3>3, <3>6
    <3> QED BY <3>5, <3>6
  <2>4. \A m \in DOMAIN nodes' : \A i \in 1 .. Len(more[m]) : more[m][i] \in DOMAIN nodes' /\ more[m][i] # root'
    BY <2>1, <2>2
  <2>5. \A m, k \in DOMAIN nodes' : \A i \in 1 .. Len(more[m]), j \in 1 .. Len(more[k]) :
          more[m][i] = more[k][j] => m = k /\ i = j
    BY <2>3
  <2>6. root' \in DOMAIN nodes'
    BY <2>1
  <2> QED BY ONLY <2>1, <2>4, <2>5, <2>6 DEF Apart
<1>20. ASSUME NEW m \in DOMAIN nodes, NEW i \in 1 .. Len(kids[m]), kids[m][i] = last
       PROVE  m = o /\ i = L
  <2>1. last \in DOMAIN nodes /\ last # NULL
    BY <1>1, <1>7, <1>20 DEF Apart, IsHeap
  <2>2. last = kids[o][L] /\ L \in 1 .. Len(kids[o])
    BY <1>9, <1>11, <2>1
  <2>3. \A p, q \in DOMAIN nodes : \A v \in 1 .. Len(kids[p]), w \in 1 .. Len(kids[q]) :
          kids[p][v] = kids[q][w] => p = q /\ v = w
    BY <1>7 DEF Apart
  <2>4. kids[m][i] = kids[o][L]
    BY <1>20, <2>2
  <2> QED BY <1>4, <2>2, <2>3, <2>4
<1>21. ASSUME NEW m \in DOMAIN nodes' PROVE Row(nodes', more, m)
  <2>1. CASE m = n
    BY <1>18, <2>1 DEF Row
  <2>2. CASE m # n
    <3>1. m \in DOMAIN nodes
      BY <1>16, <2>2
    <3>2. Row(nodes, kids, m)
      BY <3>1 DEF Tree
    <3>3. \A i \in 1 .. Len(kids[m]) : kids[m][i] \in DOMAIN nodes
      BY <1>7, <3>1 DEF Apart
    <3>4. CASE m # o
      <4>1. more[m] = kids[m]
        BY <1>10, <3>1, <3>4 DEF OneMore
      <4>2. \A i \in 1 .. Len(kids[m]) : nodes'[kids[m][i]].next = nodes[kids[m][i]].next
                                         /\ nodes'[kids[m][i]].prev = nodes[kids[m][i]].prev
        BY <1>16, <1>20, <3>1, <3>3, <3>4
      <4> QED BY <3>2, <4>1, <4>2 DEF Row
    <3>5. CASE m = o
      <4>1. /\ Len(more[o]) = L + 1 /\ more[o][L + 1] = n
            /\ \A i \in 1 .. L : more[o][i] = kids[o][i]
        BY <1>9, <1>10 DEF OneMore
      <4> SUFFICES ASSUME NEW i \in 1 .. L + 1
                   PROVE  /\ i < L + 1 => nodes'[more[o][i]].next = more[o][i + 1]
                          /\ i = L + 1 => nodes'[more[o][i]].next = NULL
                          /\ i # 1 => nodes'[more[o][i]].prev = more[o][i - 1]
        <5>1. Len(more[m]) = L + 1 /\ more[m] = more[o]
          BY <3>5, <4>1
        <5> QED BY ONLY <5>1, \A i \in 1 .. L + 1 :
                                /\ i < L + 1 => nodes'[more[o][i]].next = more[o][i + 1]
                                /\ i = L + 1 => nodes'[more[o][i]].next = NULL
                                /\ i # 1 => nodes'[more[o][i]].prev = more[o][i - 1]
                        DEF Row
      <4>2. CASE i = L + 1
        <5>1. i # 1 => L # 0 /\ i - 1 = L /\ more[o][L] = last
          <6> SUFFICES ASSUME i # 1 PROVE L # 0 /\ i - 1 = L /\ more[o][L] = last
            OBVIOUS
          <6>1. L # 0 /\ i - 1 = L /\ L \in 1 .. L
            BY <1>9, <4>2
          <6> QED BY <1>11, <4>1, <6>1
        <5>2. more[o][i] = n /\ ~(i < L + 1)
          <6>1. more[o][i] = n
            BY <4>1, <4>2
          <6> QED BY <1>9, <4>2, <6>1
        <5>3. nodes'[more[o][i]].next = NULL /\ nodes'[more[o][i]].prev = last
          BY <1>16, <5>2
        <5> QED BY <5>1, <5>2, <5>3
      <4>3. CASE i # L + 1
        <5>1. i \in 1 .. L /\ (i # L => i + 1 \in 1 .. L) /\ (i # 1 => i - 1 \in 1 .. L)
          BY <4>3
        <5>2. PICK c \in DOMAIN nodes : c = kids[o][i] /\ c = more[o][i]
          BY <1>9, <3>3, <3>5, <4>1, <5>1
        <5>3. i # 1 => nodes'[c].prev = more[o][i - 1]
          <6>1. i # 1 => nodes[c].prev = kids[o][i - 1]
            BY <1>9, <3>2, <3>5, <5>1, <5>2 DEF Row
          <6> QED BY <1>16, <4>1, <5>1, <5>2, <6>1
        <5>4. i # L => nodes'[c].next = more[o][i + 1]
          <6>1. i # L => nodes[c].next = kids[o][i + 1]
            <7>1. Row(nodes, kids, o) /\ i \in 1 .. Len(kids[o]) /\ (i # L => i < Len(kids[o]))
              BY <1>9, <3>2, <3>5, <5>1
            <7> QED BY <5>2, <7>1 DEF Row
          <6>2. i # L => c # last
            BY <1>4, <1>9, <1>20, <5>1, <5>2
          <6> QED BY <1>16, <4>1, <5>1, <5>2, <6>1, <6>2
        <5>5. i = L => nodes'[c].next = more[o][i + 1]
          <6>1. i = L => c = last /\ last # NULL
            <7>1. L # 0
              BY <1>9, <5>1
            <7>2. i = L => c = last
              BY <1>11, <5>2, <7>1
            <7>3. last # NULL
              BY <1>1, <1>11, <7>1 DEF IsHeap
            <7> QED BY <7>2, <7>3
          <6> QED BY <1>16, <4>1, <6>1
        <5> QED BY <4>3, <5>2, <5>3, <5>4, <5>5
      <4> QED BY <4>2, <4>3
    <3> QED BY <3>4, <3>5
  <2> QED BY <2>1, <2>2
<1>22. ASSUME NEW m \in DOMAIN nodes, NEW i \in 1 .. Len(kids[m])
       PROVE  Before(more, start, to, m, i) = Before(kids, from, to, m, i)
  <2>1. CASE i = 1
    BY <1>14, <2>1 DEF Before
  <2>2. CASE i # 1
    <3>1. Len(kids[m]) \in Nat
      BY <1>8, HasLast
    <3>2. i - 1 \in 1 .. Len(kids[m])
      BY <2>2, <3>1
    <3>3. more[m][i - 1] = kids[m][i - 1]
      BY <1>9, <1>10, <3>2 DEF OneMore
    <3> QED BY <2>2, <3>3 DEF Before
  <2> QED BY <2>1, <2>2
<1>23. Before(more, start, to, o, L + 1) = b
  BY <1>4, <1>12, <1>14 DEF Before
<1>24. ASSUME NEW m \in DOMAIN nodes' PROVE Placed(text, more, start, to, deep, m)
  <2>1. CASE m = n
    BY <1>18, <2>1 DEF Placed
  <2>2. CASE m # n
    <3>1. m \in DOMAIN nodes
      BY <1>16, <2>2
    <3>2. Placed(text, kids, from, to, lev, m)
      BY <3>1 DEF Tree
    <3>3. ASSUME NEW i \in 1 .. Len(more[m])
          PROVE  /\ start[more[m][i]] = Before(more, start, to, m, i) + Width(text[start[m]])
                 /\ deep[more[m][i]] = deep[m] + 1
                 /\ i # 1 => text[Before(more, start, to, m, i)] = Comma
      <4>1. CASE i \in 1 .. Len(kids[m]) /\ more[m][i] = kids[m][i] /\ more[m][i] \in DOMAIN nodes
        <5>1. PICK c \in DOMAIN nodes : c = more[m][i] /\ c = kids[m][i]
          BY <4>1
        <5>2. /\ from[c] = Before(kids, from, to, m, i) + Width(text[from[m]])
              /\ lev[c] = lev[m] + 1
              /\ i # 1 => text[Before(kids, from, to, m, i)] = Comma
          BY <3>2, <4>1, <5>1 DEF Placed
        <5>3. start[c] = from[c] /\ start[m] = from[m] /\ deep[c] = lev[c] /\ deep[m] = lev[m]
          BY <1>14, <3>1
        <5>4. Before(more, start, to, m, i) = Before(kids, from, to, m, i)
          BY <1>22, <3>1, <4>1
        <5> QED BY <5>1, <5>2, <5>3, <5>4
      <4>2. CASE m = o /\ i = L + 1 /\ more[m][i] = n
        <5>1. deep[m] + 1 = K /\ start[m] = from[o]
          BY <1>4, <1>14, <4>2
        <5>2. i # 1 => L # 0
          BY <4>2
        <5> QED BY <1>4, <1>13, <1>14, <1>23, <4>2, <5>1, <5>2
      <4> QED BY <1>17, <3>1, <4>1, <4>2
    <3>4. more[m] # <<>> /\ start[m] + 1 <= Len(text) => text[start[m] + 1] # ClosingOf(text[start[m]])
      <4>1. CASE kids[m] # <<>>
        BY <1>14, <3>1, <3>2, <4>1 DEF Placed
      <4>2. CASE m # o
        <5>1. more[m] = kids[m]
          BY <1>10, <3>1, <4>2 DEF OneMore
        <5> QED BY <1>14, <3>1, <3>2, <5>1 DEF Placed
      <4>3. CASE m = o /\ kids[m] = <<>>
        <5>1. L = 0
          BY <1>9, <4>3
        <5>2. at = from[o] + 1 /\ Peek # ClosingOf(f.open)
          BY <1>3, <1>4, <1>11, <4>3, <5>1 DEF After
        <5>3. at <= Len(text) => Peek = text[at]
          BY DEF Peek
        <5> QED BY <1>4, <1>14, <4>3, <5>2, <5>3
      <4> QED BY <4>1, <4>2, <4>3
    <3> QED BY <3>3, <3>4 DEF Placed
  <2> QED BY <2>1, <2>2
<1>25. /\ stack' \in Seq(Frame) /\ Len(stack') = K /\ stack' # <<>>
       /\ \A k \in 1 .. K : k # K => stack'[k] = stack[k]
       /\ stack'[K].current = n /\ stack'[K].head = IF f.head = NULL THEN n ELSE f.head
       /\ stack'[K].open = f.open
  BY <1>2, <1>3, <1>6 DEF IsPushed
<1>26. /\ \A k \in 1 .. K : OwnerOf(root, stack', k) = OwnerOf(root, stack, k)
       /\ LastItem(root, stack') = n
  <2>1. ASSUME NEW k \in 1 .. K PROVE OwnerOf(root, stack', k) = OwnerOf(root, stack, k)
    <3>1. k # 1 => k - 1 \in 1 .. K /\ k - 1 # K
      BY <1>2
    <3> QED BY <1>25, <3>1 DEF OwnerOf
  <2> QED BY <1>25, <2>1 DEF LastItem
<1>27. \A m : IsOwner(root, stack', m) <=> IsOwner(root, stack, m)
  BY <1>2, <1>25, <1>26 DEF IsOwner
<1>28. IsOwner(root, stack, o) /\ \A m : IsOwner(root, stack, m) => m \in DOMAIN nodes /\ m # n
  <2>1. IsOwner(root, stack, o)
    BY <1>2 DEF IsOwner
  <2>2. \A k \in 1 .. Len(stack) : OwnerOf(root, stack, k) \in DOMAIN nodes
    BY <1>1, PendingAre
  <2> QED BY <1>8, <2>1, <2>2 DEF IsOwner
<1>29. ASSUME NEW m \in DOMAIN nodes', ~IsOwner(root, stack, m) PROVE Parted(nodes', more, m)
  <2>1. CASE m = n
    BY <1>16, <1>18, <2>1 DEF Parted
  <2>2. CASE m # n
    <3>1. m \in DOMAIN nodes /\ m # o
      BY <1>16, <1>28, <1>29, <2>2
    <3>2. Parted(nodes, kids, m) /\ more[m] = kids[m]
      BY <1>10, <1>29, <3>1 DEF Tree, OneMore
    <3>3. kids[m] # <<>> => kids[m][1] \in DOMAIN nodes
      <4>1. kids[m] # <<>> => 1 \in 1 .. Len(kids[m])
        BY <1>8, <3>1, HasLast
      <4> QED BY <1>7, <3>1, <4>1 DEF Apart
    <3> QED BY <1>16, <3>1, <3>2, <3>3 DEF Parted
  <2> QED BY <2>1, <2>2
<1>30. ASSUME NEW m \in DOMAIN nodes', ~Pending(root, stack', pc', m)
       PROVE  Complete(nodes', strings', text, more, start, to, deep, m)
  <2>1. pc' \in Filled
    BY DEF Filled
  <2>2. m # n /\ ~IsOwner(root, stack, m)
    BY <1>26, <1>27, <1>30, <2>1 DEF Pending
  <2>3. m \in DOMAIN nodes /\ m # o /\ ~Pending(root, stack, pc, m)
    BY <1>16, <1>28, <2>2 DEF Pending, Filled
  <2>4. Complete(nodes, strings, text, kids, from, to, lev, m)
    BY <2>3 DEF Tree
  <2>5. more[m] = kids[m] /\ start[m] = from[m] /\ deep[m] = lev[m]
    BY <1>10, <1>14, <2>3 DEF OneMore
  <2>6. After(more, start, to, m) = After(kids, from, to, m)
    BY <2>5 DEF After
  <2>7. nodes'[m].type = nodes[m].type /\ nodes'[m].valuestring = nodes[m].valuestring
    BY <1>16, <2>3
  <2> QED BY <2>4, <2>5, <2>6, <2>7 DEF Complete, HoldsList, HoldsAtom
<1>31. ASSUME NEW m \in DOMAIN nodes' PROVE Named(nodes', strings', text, pc', n, more, start, m)
  <2>1. CASE m = n
    BY <1>18, <2>1 DEF Named
  <2>2. CASE m # n
    <3>1. m \in DOMAIN nodes
      BY <1>16, <2>2
    <3>2. Named(nodes, strings, text, pc, LastItem(root, stack), kids, from, m)
      BY <3>1 DEF Tree
    <3> SUFFICES ASSUME NEW i \in 1 .. Len(more[m])
                 PROVE  /\ text[start[m]] = "[" => nodes'[more[m][i]].string = NULL
                        /\ text[start[m]] # "[" /\ ~(pc' = "name" /\ more[m][i] = n) =>
                             HasName(nodes', strings', text, start, more[m][i])
                        /\ text[start[m]] # "[" /\ ~(pc' \in {"name", "colon"} /\ more[m][i] = n) =>
                             text[start[more[m][i]] - 1] = ":"
      BY DEF Named
    <3>3. CASE i \in 1 .. Len(kids[m]) /\ more[m][i] = kids[m][i] /\ more[m][i] \in DOMAIN nodes
      <4>1. PICK c \in DOMAIN nodes : c = more[m][i] /\ c = kids[m][i]
        BY <3>3
      <4>2. pc # "name" /\ pc # "colon"
        OBVIOUS
      <4>3. /\ text[from[m]] = "[" => nodes[c].string = NULL
            /\ text[from[m]] # "[" => HasName(nodes, strings, text, from, c) /\ text[from[c] - 1] = ":"
        BY <3>2, <3>3, <4>1, <4>2 DEF Named
      <4>4. start[m] = from[m] /\ start[c] = from[c] /\ nodes'[c].string = nodes[c].string
        BY <1>14, <1>16, <3>1
      <4> QED BY <4>1, <4>3, <4>4 DEF HasName
    <3>4. CASE m = o /\ i = L + 1 /\ more[m][i] = n
      <4>1. start[m] = from[o] /\ (text[from[o]] # "[" => pc' = "name")
        BY <1>3, <1>4, <1>14, <3>4
      <4> QED BY <1>16, <3>4, <4>1
    <3> QED BY <1>17, <3>1, <3>3, <3>4
  <2> QED BY <2>1, <2>2
<1>32. ASSUME NEW k \in 1 .. K PROVE FrameIs(DOMAIN nodes', text, root, stack', pc', more, start, deep, k)
  <2>1. PICK x : x = OwnerOf(root, stack, k) /\ x = OwnerOf(root, stack', k)
    BY <1>26
  <2>2. FrameIs(DOMAIN nodes, text, root, stack, pc, kids, from, lev, k)
    BY <1>2 DEF Tree
  <2>3. x \in DOMAIN nodes /\ lev[x] = k - 1 /\ text[from[x]] = stack[k].open
    BY <2>1, <2>2 DEF FrameIs
  <2>4. x \in DOMAIN nodes' /\ deep[x] = k - 1 /\ start[x] = from[x]
    BY <1>14, <1>16, <2>3
  <2>5. pc' # "first"
    OBVIOUS
  <2>6. CASE k # K
    <3>1. k # Len(stack) /\ stack'[k] = stack[k]
      BY <1>2, <1>25, <2>6
    <3>2. x # o
      BY <1>4, <2>3, <2>6, <1>2
    <3>3. more[x] = kids[x]
      BY <1>10, <2>3, <3>2 DEF OneMore
    <3>4. kids[x] # <<>> /\ stack[k].head = kids[x][1] /\ stack[k].current = kids[x][Len(kids[x])]
      BY <2>1, <2>2, <3>1 DEF FrameIs
    <3> QED BY <2>1, <2>3, <2>4, <2>5, <3>1, <3>3, <3>4 DEF FrameIs
  <2>7. CASE k = K
    <3>1. x = o /\ stack'[k].open = stack[k].open
      BY <1>2, <1>3, <1>25, <2>1, <2>7
    <3>2. more[o] # <<>> /\ Len(more[o]) = L + 1 /\ more[o][L + 1] = n
      BY <1>9, <1>10 DEF OneMore
    <3>3. stack'[k].head = more[o][1]
      <4>1. CASE L = 0
        BY <1>11, <1>25, <2>7, <3>2, <4>1
      <4>2. CASE L # 0
        <5>1. 1 \in 1 .. Len(kids[o])
          BY <1>9, <4>2
        <5>2. more[o][1] = kids[o][1]
          BY <1>10, <5>1 DEF OneMore
        <5> QED BY <1>11, <1>25, <2>7, <4>2, <5>2
      <4> QED BY <4>1, <4>2
    <3>4. stack'[k].current = more[o][Len(more[o])]
      BY <1>25, <2>7, <3>2
    <3> QED BY <2>1, <2>3, <2>4, <2>5, <3>1, <3>2, <3>3, <3>4 DEF FrameIs
  <2> QED BY <2>6, <2>7
<1>33. Stands(text, root, stack', pc', at', start, to)
  <2>1. CASE f.open = "["
    <3>1. pc' = "value" /\ start[n] = at'
      BY <1>3, <1>13, <1>14, <2>1 DEF Width
    <3> QED BY <1>26, <3>1 DEF Stands, Filled
  <2>2. CASE f.open # "["
    <3>1. pc' = "name" /\ start[n] = at' + 2
      BY <1>3, <1>13, <1>14, <2>2 DEF Width
    <3>2. text[start[OwnerOf(root, stack', Len(stack'))]] # "["
      <4>1. OwnerOf(root, stack', Len(stack')) = o
        BY <1>2, <1>25, <1>26
      <4>2. start[o] = from[o]
        BY <1>4, <1>14
      <4> QED BY <1>4, <2>2, <4>1, <4>2
    <3> QED BY <1>26, <3>1, <3>2 DEF Stands, Filled
  <2> QED BY <2>1, <2>2
<1>34. start[root] = Start(text) /\ deep[root] = 0
  <2>1. from[root] = Start(text) /\ lev[root] = 0
    BY DEF Tree
  <2>2. root \in DOMAIN nodes
    BY <1>7 DEF Apart
  <2> QED BY <1>14, <2>1, <2>2
<1>35. more[LastItem(root, stack')] = <<>>
  BY <1>18, <1>26
<1> QED BY <1>15, <1>19, <1>21, <1>24, <1>25, <1>27, <1>29, <1>30, <1>31, <1>32, <1>33, <1>34, <1>35, <1>26 DEF Tree
-----------------------------------------------------------------------------
(* Without a root and without lists there are no items. *)
LEMMA NoItems ==
  ASSUME FormInv, root = NULL, stack = <<>>
  PROVE  DOMAIN nodes = {}
<1>1. PICK start : start = Starts(root, stack)
  OBVIOUS
<1>2. stack \in Seq(Frame) /\ Len(stack) = 0
  BY DEF FormInv, Typed
<1>3. start[0] = NULL /\ IsHeap(nodes) /\ Shape(nodes, 0, start)
  BY <1>1, <1>2, StartsAre DEF FormInv, Hung
<1>4. Reached(nodes, start[0]) = {}
  BY <1>3, Reaches DEF IsHeap
<1>5. \A k \in 0 .. 0 : k = 0
  OBVIOUS
<1> QED BY <1>3, <1>4, <1>5 DEF Shape

(* The root's item is there. *)
LEMMA TreeRoot ==
  ASSUME FormInv, cJSON_Parse, pc' # "parsed"
  PROVE  \E kids, from, to, lev : Tree(kids, from, to, lev)'
<1>0. /\ pc = "parse" /\ pc' = "value" /\ stack' = <<>> /\ stack = <<>> /\ root = NULL /\ text' = text /\ strings' = strings
      /\ root' = Fresh(nodes) /\ nodes' = Grown(nodes, Fresh(nodes), Zeroed)
      /\ at' = Start(text)
  BY DEF cJSON_Parse, FormInv, ListsOpen, Outside, Building, Start
<1>1. DOMAIN nodes = {} /\ IsFiniteSet(DOMAIN nodes)
  BY <1>0, NoItems, FS_EmptySet
<1>2. PICK n \in Nat : n = root' /\ n # NULL
  BY <1>0, <1>1, FreshIs
<1>3. DOMAIN nodes' = {n} /\ nodes'[n] = Zeroed
  <2>1. nodes' = [x \in DOMAIN nodes \cup {n} |-> IF x = n THEN Zeroed ELSE nodes[x]]
    BY <1>0, <1>2 DEF Grown
  <2> QED BY <1>1, <2>1
<1>4. nodes'[n].child = NULL
  BY <1>3 DEF Zeroed
<1>5. Start(text) \in Nat \ {0}
  BY DEF Start
<1>6. PICK e \in Seq(Nat) : e = <<>> /\ Len(e) = 0
  BY EmptyIs
<1>7. PICK kids : kids = [m \in Nat |-> e]
  OBVIOUS
<1>8. PICK from : from = [m \in Nat |-> Start(text)]
  OBVIOUS
<1>9. PICK to : to = [m \in Nat |-> 0]
  OBVIOUS
<1>10. PICK lev : lev = [m \in Nat |-> 0]
  OBVIOUS
<1>11. /\ kids[n] = <<>> /\ Len(kids[n]) = 0 /\ from[n] = Start(text) /\ lev[n] = 0
  BY <1>6, <1>7, <1>8, <1>10
<1>12. IsGhost(kids, from, to, lev)
  <2>1. 0 \in 0 .. NestingLimit
    BY FormAssumption
  <2>2. kids \in [Nat -> Seq(Nat)]
    BY <1>6, <1>7
  <2>3. from \in [Nat -> Nat \ {0}] /\ to \in [Nat -> Nat] /\ lev \in [Nat -> 0 .. NestingLimit]
    BY <1>5, <1>8, <1>9, <1>10, <2>1
  <2> QED BY <2>2, <2>3 DEF IsGhost
<1>13. \A i \in 1 .. 0 : FALSE
  OBVIOUS
<1>14. Apart({n}, n, kids) /\ Row(nodes', kids, n) /\ Placed(text, kids, from, to, lev, n)
       /\ Parted(nodes', kids, n) /\ Named(nodes', strings, text, "value", n, kids, from, n)
  BY <1>4, <1>11, <1>13 DEF Apart, Row, Placed, Parted, Named
<1>15. LastItem(n, <<>>) = n /\ Len(stack') = 0
  BY <1>0 DEF LastItem
<1>16. Pending(n, <<>>, "value", n)
  BY <1>15 DEF Pending, Filled
<1>17. Stands(text, n, <<>>, "value", Start(text), from, to)
  BY <1>11, <1>15 DEF Stands, Filled
<1>18. Tree(kids, from, to, lev)'
  BY <1>0, <1>2, <1>3, <1>11, <1>12, <1>13, <1>14, <1>15, <1>16, <1>17 DEF Tree
<1> QED BY <1>18

(* A string is read, as a value or as a name. *)
LEMMA TreeString ==
  ASSUME FormInv, NEW kids, NEW from, NEW to, NEW lev, Tree(kids, from, to, lev),
         ParseString \/ ParseName, pc' # "fail"
  PROVE  \E until : Tree(kids, from, until, lev)'
<1>1. PICK field \in {"string", "valuestring"}, then \in {"next", "colon"} :
        /\ parse_string(field, then) /\ UNCHANGED <<text, depth, stack, root>>
        /\ \/ pc = "value" /\ field = "valuestring" /\ then = "next"
           \/ pc = "name" /\ field = "string" /\ then = "colon"
  BY DEF ParseString, ParseName
<1>2. /\ Peek \in Strings
      /\ strings' = Grown(strings, Fresh(strings), Peek)
      /\ nodes' = [nodes EXCEPT ![Item] = Holding(@, field, Fresh(strings))]
      /\ at' = at + 1 /\ pc' = then
  BY <1>1 DEF parse_string
<1>3. PICK x : x = Item /\ x = LastItem(root, stack)
  BY ItemIs
<1>4. /\ x \in DOMAIN nodes /\ nodes \in [DOMAIN nodes -> Fields] /\ nodes[x] \in Fields
      /\ IsFiniteSet(DOMAIN strings) /\ strings \in [DOMAIN strings -> Strings]
  BY <1>1, <1>3 DEF FormInv, ListsOpen, Typed
<1>5. PICK a : a = Fresh(strings)
  OBVIOUS
<1>6. a \in Nat /\ a # NULL /\ a \notin DOMAIN strings
  BY <1>4, <1>5, FreshIs
<1>7. at \in 1 .. Len(text) /\ Peek = text[at] /\ text[at] \in Strings /\ at <= Len(text) /\ Len(text) \in Nat
  <2>1. Peek # "end"
    BY <1>2, PeekIs DEF FormInv
  <2>2. at \in 1 .. Len(text) /\ Peek = text[at] /\ Len(text) \in Nat
    BY <2>1, TextOfForm
  <2> QED BY <1>2, <2>2
<1>8. /\ DOMAIN strings' = DOMAIN strings \cup {a} /\ strings'[a] = text[at]
      /\ \A s \in DOMAIN strings : s \in DOMAIN strings' /\ strings'[s] = strings[s]
  <2>1. strings' = [s \in DOMAIN strings \cup {a} |-> IF s = a THEN Peek ELSE strings[s]]
    BY <1>2, <1>5 DEF Grown
  <2> QED BY <1>6, <1>7, <2>1
<1>9. PICK y : y = Holding(nodes[x], field, a)
  OBVIOUS
<1>10. /\ y.next = nodes[x].next /\ y.prev = nodes[x].prev /\ y.child = nodes[x].child
       /\ field = "string" => y.string = a /\ y.valuestring = nodes[x].valuestring
       /\ field = "valuestring" => y.valuestring = a /\ y.string = nodes[x].string
  BY <1>4, <1>6, <1>9, HoldingIs
<1>11. nodes' = [nodes EXCEPT ![x] = y]
  BY <1>2, <1>3, <1>5, <1>9
<1>12. DOMAIN nodes' = DOMAIN nodes /\ nodes'[x] = y /\ \A n \in DOMAIN nodes \ {x} : nodes'[n] = nodes[n]
  BY <1>4, <1>11
<1>13. CASE pc = "value"
  <2>1. field = "valuestring" /\ then = "next"
    BY <1>1, <1>13
  <2>2. y.type = "string"
    BY <1>4, <1>9, <2>1 DEF Holding, Fields
  <2>3. "string" \notin Opening
    BY DEF Opening
  <2>4. PICK until : until = [to EXCEPT ![x] = at]
    OBVIOUS
  <2>5. text[at] \in Atoms
    BY <1>7 DEF Atoms
  <2>6. /\ pc = "value" /\ pc' = "next" /\ at' = at + 1 /\ at <= Len(text) /\ text[at] \in Atoms
        /\ UNCHANGED <<text, stack, root>> /\ x = LastItem(root, stack)
    BY <1>1, <1>2, <1>3, <1>7, <1>13, <2>1, <2>5
  <2>7. /\ nodes'[x].next = nodes[x].next /\ nodes'[x].prev = nodes[x].prev /\ nodes'[x].child = nodes[x].child
        /\ nodes'[x].string = nodes[x].string
        /\ nodes'[x].type \notin Opening
        /\ nodes'[x].type = "string" =>
             nodes'[x].valuestring \in DOMAIN strings' /\ strings'[nodes'[x].valuestring] = text[at] /\ text[at] \in Strings
        /\ nodes'[x].type # "string" => nodes'[x].type = text[at] /\ nodes'[x].type \in Literals \cup {"number"}
    BY <1>7, <1>8, <1>10, <1>12, <2>1, <2>2, <2>3
  <2>8. Tree(kids, from, until, lev)'
    BY <1>8, <1>12, <2>4, <2>6, <2>7, TreeFilled
  <2> QED BY <2>8
<1>14. CASE pc = "name"
  <2>1. field = "string" /\ then = "colon"
    BY <1>1, <1>14
  <2>2. /\ pc' = "colon" /\ at' = at + 1 /\ at <= Len(text) /\ text[at] \in Strings
        /\ UNCHANGED <<text, stack, root>> /\ x = LastItem(root, stack)
    BY <1>1, <1>2, <1>3, <1>7, <2>1
  <2>3. /\ nodes'[x].next = nodes[x].next /\ nodes'[x].prev = nodes[x].prev /\ nodes'[x].child = nodes[x].child
        /\ nodes'[x].string \in DOMAIN strings' /\ strings'[nodes'[x].string] = text[at]
    BY <1>8, <1>10, <1>12, <2>1
  <2>4. Tree(kids, from, to, lev)'
    BY <1>8, <1>12, <1>14, <2>2, <2>3, TreeNamed
  <2> QED BY <2>4
<1> QED BY <1>1, <1>13, <1>14

(* A literal or a number is read. *)
LEMMA TreeScalar ==
  ASSUME FormInv, NEW kids, NEW from, NEW to, NEW lev, Tree(kids, from, to, lev),
         pc = "value", pc' = "next", Peek \in Literals \cup {"number"},
         nodes' = [nodes EXCEPT ![Item].type = Peek], at' = at + 1,
         UNCHANGED <<text, stack, strings, root>>
  PROVE  \E until : Tree(kids, from, until, lev)'
<1>1. PICK x : x = Item /\ x = LastItem(root, stack)
  BY ItemIs
<1>2. x \in DOMAIN nodes /\ nodes \in [DOMAIN nodes -> Fields] /\ nodes[x] \in Fields
  BY <1>1 DEF FormInv, ListsOpen, Typed
<1>3. PICK y : y = [nodes[x] EXCEPT !.type = Peek]
  OBVIOUS
<1>4. /\ y.next = nodes[x].next /\ y.prev = nodes[x].prev /\ y.child = nodes[x].child
      /\ y.string = nodes[x].string /\ y.type = Peek
  BY <1>2, <1>3 DEF Fields
<1>5. nodes' = [nodes EXCEPT ![x] = y]
  BY <1>1, <1>3
<1>6. DOMAIN nodes' = DOMAIN nodes /\ nodes'[x] = y /\ \A n \in DOMAIN nodes \ {x} : nodes'[n] = nodes[n]
  BY <1>2, <1>5
<1>7. Peek = text[at] /\ at <= Len(text)
  <2>1. Peek # "end"
    BY DEF Literals
  <2> QED BY <2>1, TextOfForm
<1>8. y.type \notin Opening /\ y.type # "string" /\ text[at] \in Atoms
  BY <1>4, <1>7 DEF Opening, Literals, Atoms
<1>9. PICK until : until = [to EXCEPT ![x] = at]
  OBVIOUS
<1>10. /\ nodes'[x].next = nodes[x].next /\ nodes'[x].prev = nodes[x].prev /\ nodes'[x].child = nodes[x].child
       /\ nodes'[x].string = nodes[x].string
       /\ nodes'[x].type \notin Opening
       /\ nodes'[x].type = "string" =>
            nodes'[x].valuestring \in DOMAIN strings' /\ strings'[nodes'[x].valuestring] = text[at] /\ text[at] \in Strings
       /\ nodes'[x].type # "string" => nodes'[x].type = text[at] /\ nodes'[x].type \in Literals \cup {"number"}
  BY <1>4, <1>6, <1>7, <1>8
<1>11. \A s \in DOMAIN strings : s \in DOMAIN strings' /\ strings'[s] = strings[s]
  OBVIOUS
<1>12. Tree(kids, from, until, lev)'
  BY <1>1, <1>6, <1>7, <1>8, <1>9, <1>10, <1>11, TreeFilled
<1> QED BY <1>12

(* There is a tree while the parser is at work and after it was accepted.   *)
HasTree == pc \in Building \/ (pc \in {"parsed", "items"} /\ root # NULL)
TreeInv == HasTree => \E kids, from, to, lev : Tree(kids, from, to, lev)

(* Every step of the parser makes a tree of a tree. *)
LEMMA TreeParse ==
  ASSUME FormInv, TreeInv, Parse
  PROVE  TreeInv'
<1> SUFFICES ASSUME HasTree' PROVE \E kids, from, to, lev : Tree(kids, from, to, lev)'
  BY DEF TreeInv
<1>1. pc' \in Building \/ (pc' = "parsed" /\ root' # NULL) \/ (pc' = "items" /\ root' # NULL)
  BY DEF HasTree
<1>2. pc' # "fail"
  BY <1>1 DEF Building
<1>3. CASE cJSON_Parse
  <2>1. pc' # "parsed"
    BY <1>1, <1>3 DEF cJSON_Parse, Building
  <2> QED BY <1>3, <2>1, TreeRoot
<1>4. CASE Fail
  BY <1>1, <1>2, <1>4 DEF Fail, Building
<1>5. CASE NoValue \/ NoSeparator
  BY <1>2, <1>5 DEF NoValue, NoSeparator
<1>6. ASSUME pc \in Building
      PROVE  \E kids, from, to, lev : Tree(kids, from, to, lev)
  BY <1>6 DEF TreeInv, HasTree
<1>7. CASE ParseLiteral
  <2>1. pc \in Building /\ pc = "value" /\ pc' = "next" /\ Peek \in Literals \cup {"number"}
        /\ nodes' = [nodes EXCEPT ![Item].type = Peek] /\ at' = at + 1
        /\ UNCHANGED <<text, stack, strings, root>>
    BY <1>7 DEF ParseLiteral, Building
  <2>2. PICK kids, from, to, lev : Tree(kids, from, to, lev)
    BY <1>6, <2>1
  <2> QED BY <2>1, <2>2, TreeScalar
<1>8. CASE ParseNumber
  <2>1. pc \in Building /\ pc = "value" /\ pc' = "next" /\ Peek \in Literals \cup {"number"}
        /\ nodes' = [nodes EXCEPT ![Item].type = Peek] /\ at' = at + 1
        /\ UNCHANGED <<text, stack, strings, root>>
    BY <1>2, <1>8 DEF ParseNumber, Building
  <2>2. PICK kids, from, to, lev : Tree(kids, from, to, lev)
    BY <1>6, <2>1
  <2> QED BY <2>1, <2>2, TreeScalar
<1>9. CASE ParseString \/ ParseName
  <2>1. pc \in Building
    BY <1>9 DEF ParseString, ParseName, Building
  <2>2. PICK kids, from, to, lev : Tree(kids, from, to, lev)
    BY <1>6, <2>1
  <2> QED BY <1>2, <1>9, <2>2, TreeString
<1>10. CASE OpenList
  <2>1. pc \in Building /\ ~TooDeep
    BY <1>2, <1>10 DEF OpenList, Building
  <2>2. PICK kids, from, to, lev : Tree(kids, from, to, lev)
    BY <1>6, <2>1
  <2> QED BY <1>10, <2>1, <2>2, TreeOpened
<1>11. CASE NextItem
  <2>1. /\ pc \in Building /\ stack # <<>> /\ pc \in {"first", "next"}
        /\ pc = "first" => Peek # ClosingOf(Last(stack).open) /\ at' = at
        /\ pc = "next" => Peek = Comma /\ at' = at + 1
    BY <1>11 DEF NextItem, Building, Comma
  <2>2. PICK kids, from, to, lev : Tree(kids, from, to, lev)
    BY <1>6, <2>1
  <2>3. /\ nodes' = Attached(Fresh(nodes))
        /\ stack' = [stack EXCEPT ![Len(stack)] =
             [@ EXCEPT !.current = Fresh(nodes),
                       !.head = IF Last(stack).head = NULL THEN Fresh(nodes) ELSE Last(stack).head]]
        /\ pc' = IF Last(stack).open = "[" THEN "value" ELSE "name"
        /\ UNCHANGED <<text, strings, root>>
    BY <1>2, <1>11 DEF NextItem
  <2>4. PICK o : o = OwnerOf(root, stack, Len(stack))
    OBVIOUS
  <2>5. PICK n : n = Fresh(nodes)
    OBVIOUS
  <2>6. PICK more : more = WithOneMore(kids, o, n)
    OBVIOUS
  <2>7. PICK start : start = [from EXCEPT ![n] = Before(more, from, to, o, Len(kids[o]) + 1) + Width(Last(stack).open)]
    OBVIOUS
  <2>8. PICK deep : deep = [lev EXCEPT ![n] = Len(stack)]
    OBVIOUS
  <2>9. Tree(more, start, to, deep)'
    BY <2>1, <2>2, <2>3, <2>4, <2>5, <2>6, <2>7, <2>8, TreeAttached
  <2> QED BY <2>9
<1>12. CASE ParseColon
  <2>1. pc \in Building /\ Peek = ":"
    BY <1>2, <1>12 DEF ParseColon, Building
  <2>2. PICK kids, from, to, lev : Tree(kids, from, to, lev)
    BY <1>6, <2>1
  <2> QED BY <1>12, <2>1, <2>2, TreeColon
<1>13. CASE CloseList
  <2>1. pc \in Building
    BY <1>13 DEF CloseList, Building
  <2>2. PICK kids, from, to, lev : Tree(kids, from, to, lev)
    BY <1>6, <2>1
  <2>3. PICK o : o = OwnerOf(root, stack, Len(stack))
    OBVIOUS
  <2>4. PICK until : until = [to EXCEPT ![o] = at]
    OBVIOUS
  <2>5. Tree(kids, from, until, lev)'
    BY <1>13, <2>2, <2>3, <2>4, TreeClosed
  <2> QED BY <2>5
<1>14. CASE Succeed
  <2>1. pc \in Building /\ pc = "next" /\ pc' = "parsed" /\ stack = <<>> /\ UNCHANGED <<text, at, stack, nodes, strings, root>>
    BY <1>14 DEF Succeed, Building, parserVars
  <2>2. PICK kids, from, to, lev : Tree(kids, from, to, lev)
    BY <1>6, <2>1
  <2>3. Tree(kids, from, to, lev)'
    BY <2>1, <2>2, TreeKept
  <2> QED BY <2>3
<1> QED BY <1>3, <1>4, <1>5, <1>7, <1>8, <1>9, <1>10, <1>11, <1>12, <1>13, <1>14 DEF Parse

(* The handler walks over the tree, and takes it away at the end. *)
LEMMA TreeStep ==
  ASSUME FormInv, TreeInv, [Next]_vars
  PROVE  TreeInv'
<1>1. CASE ParseStep
  BY <1>1, TreeParse DEF ParseStep
<1>2. CASE Receive \/ ReceiveNone \/ ReceiveBad \/ NotJson \/ EndOfForm
  BY <1>2 DEF Receive, ReceiveNone, ReceiveBad, NotJson, EndOfForm, TreeInv, HasTree, Building
<1>3. CASE FirstItem \/ NextOfForm
  <2>1. /\ pc \in {"parsed", "items"} /\ pc' \in {"parsed", "items"} /\ stack = <<>>
        /\ UNCHANGED <<text, at, stack, nodes, strings, root>>
    BY <1>3 DEF FirstItem, NextOfForm, parserVars, FormInv, ListsOpen, Building
  <2>2. HasTree' => HasTree
    BY <2>1 DEF HasTree, Building
  <2> SUFFICES ASSUME HasTree PROVE \E kids, from, to, lev : Tree(kids, from, to, lev)'
    BY <2>2 DEF TreeInv
  <2>3. PICK kids, from, to, lev : Tree(kids, from, to, lev)
    BY DEF TreeInv
  <2>4. Tree(kids, from, to, lev)'
    BY <2>1, <2>3, TreeKept
  <2> QED BY <2>4
<1>4. CASE UNCHANGED vars
  <2>1. UNCHANGED <<text, at, stack, nodes, strings, root, pc>>
    BY <1>4 DEF vars, parserVars
  <2>2. HasTree' => HasTree
    BY <2>1 DEF HasTree
  <2> SUFFICES ASSUME HasTree PROVE \E kids, from, to, lev : Tree(kids, from, to, lev)'
    BY <2>2 DEF TreeInv
  <2>3. PICK kids, from, to, lev : Tree(kids, from, to, lev)
    BY DEF TreeInv
  <2>4. Tree(kids, from, to, lev)'
    BY <2>1, <2>3 DEF Tree
  <2> QED BY <2>4
<1> QED BY <1>1, <1>2, <1>3, <1>4 DEF Next, Handle

-----------------------------------------------------------------------------
(* The parser gives up on no text that is JSON.                            *)

(* All the items of an open list but its last are values. *)
LEMMA OpenListIs ==
  ASSUME FormInv, NEW kids, NEW from, NEW to, NEW lev, Tree(kids, from, to, lev), pc \in Building,
         NEW k \in 1 .. Len(stack), ~(k = Len(stack) /\ pc = "first"), NEW o, o = OwnerOf(root, stack, k)
  PROVE  /\ o \in DOMAIN nodes /\ o \in Nat /\ lev[o] = k - 1 /\ k \in 1 .. NestingLimit
         /\ text[from[o]] = stack[k].open /\ text[from[o]] \in Opening
         /\ kids[o] # <<>> /\ stack[k].current = kids[o][Len(kids[o])]
         /\ \E m \in Nat : /\ m + 1 = Len(kids[o])
                           /\ AreValues(text, ValuesFrom(text)[NestingLimit - k], kids, from, to, o, m)
<1>1. /\ IsText(text) /\ NestingLimit \in Nat /\ stack \in Seq(Frame) /\ Len(stack) \in Nat
  <2>1. stack \in Seq(Frame)
    BY TextOfForm
  <2> QED BY <2>1, TextOfForm
<1>2. k \in 1 .. NestingLimit
  <2>1. Len(stack) = depth /\ depth \in 0 .. NestingLimit
    BY DEF FormInv, ListsOpen, Typed
  <2> QED BY <1>1, <2>1
<1>3. o \in DOMAIN nodes /\ o \in Nat /\ lev[o] = k - 1
  BY <1>1, OwnerIsLast
<1>4. FrameIs(DOMAIN nodes, text, root, stack, pc, kids, from, lev, k)
  BY DEF Tree
<1>5. text[from[o]] = stack[k].open /\ stack[k] \in Frame
  BY <1>1, <1>4 DEF FrameIs
<1>6. text[from[o]] \in Opening
  BY <1>5 DEF Frame
<1>7. kids[o] # <<>> /\ stack[k].current = kids[o][Len(kids[o])]
  BY <1>4 DEF FrameIs
<1>8. /\ IsGhost(kids, from, to, lev) /\ Apart(DOMAIN nodes, root, kids) /\ Placed(text, kids, from, to, lev, o)
      /\ Named(nodes, strings, text, pc, LastItem(root, stack), kids, from, o)
  BY <1>3 DEF Tree
<1>9. kids[o] \in Seq(Nat)
  BY <1>3, <1>8 DEF IsGhost
<1>10. PICK L \in Nat : L = Len(kids[o]) /\ L # 0
  BY <1>7, <1>9
<1>11. PICK m \in Nat : m + 1 = L
  BY <1>10
<1>12. ASSUME NEW i \in 1 .. m
       PROVE  /\ <<from[kids[o][i]], to[kids[o][i]]>> \in ValuesFrom(text)[NestingLimit - k]
              /\ Introduced(text, from, o, kids[o][i])
  <2>1. PICK c : c = kids[o][i]
    OBVIOUS
  <2>2. i \in 1 .. Len(kids[o]) /\ i # Len(kids[o])
    BY <1>10, <1>11
  <2>3. c \in DOMAIN nodes /\ lev[c] = k
    <3>1. c \in DOMAIN nodes
      BY <1>3, <1>8, <2>1, <2>2 DEF Apart
    <3>2. lev[c] = lev[o] + 1
      BY <1>8, <2>1, <2>2 DEF Placed
    <3> QED BY <1>3, <3>1, <3>2
  <2>4. ~IsOwner(root, stack, c)
    <3> SUFFICES ASSUME NEW j \in 1 .. Len(stack), c = OwnerOf(root, stack, j) PROVE FALSE
      BY DEF IsOwner
    <3>1. \A n \in DOMAIN nodes : \A l \in 1 .. Len(kids[n]) : kids[n][l] = c => l = Len(kids[n])
      BY <1>1, OwnerIsLast
    <3> QED BY <1>3, <2>1, <2>2, <3>1
  <2>5. pc # "first" => c # LastItem(root, stack)
    <3> SUFFICES ASSUME pc # "first", c = LastItem(root, stack) PROVE FALSE
      OBVIOUS
    <3>1. PICK x : x = LastItem(root, stack)
      OBVIOUS
    <3>2. i + 1 \in 1 .. Len(kids[o]) /\ i + 1 # 1 /\ (i + 1) - 1 = i
      BY <1>10, <1>11
    <3>3. kids[o][(i + 1) - 1] # x
      BY <1>1, <1>3, <3>1, <3>2, LastIs
    <3> QED BY <2>1, <3>1, <3>2, <3>3
  <2>6. ~Pending(root, stack, pc, c)
    BY <2>4, <2>5 DEF Pending, Filled
  <2>7. <<from[c], to[c]>> \in ValuesFrom(text)[NestingLimit - k]
    BY <2>3, <2>6 DEF Tree, Complete
  <2>8. pc \in {"name", "colon"} => c # LastItem(root, stack)
    BY <2>5
  <2>9. Introduced(text, from, o, c)
    BY <1>8, <2>1, <2>2, <2>8 DEF Named, HasName, Introduced
  <2> QED BY <2>1, <2>7, <2>9
<1> QED BY <1>2, <1>3, <1>5, <1>6, <1>7, <1>10, <1>11, <1>12 DEF AreValues

(* What the text must say where an item begins, and behind it. *)
IsDue(t, E, from, o, x) ==
  \E n \in Nat : /\ <<from[x], n - 1>> \in E /\ n \in 1 .. Len(t)
                 /\ t[n] = Comma \/ t[n] = ClosingOf(t[from[o]])
                 /\ t[from[o]] # "[" => t[from[x] - 2] \in Strings /\ t[from[x] - 1] = ":"

(* If the item of an open list is a value of the text, so is the last one   *)
(* in it.                                                                   *)
LEMMA LastIsDue ==
  ASSUME NEW t, IsText(t), NEW E, Solid(t, E), NEW kids, NEW from, NEW to, NEW lev, IsGhost(kids, from, to, lev),
         NEW o \in Nat, Placed(t, kids, from, to, lev, o), kids[o] # <<>>,
         NEW m \in Nat, m + 1 = Len(kids[o]), AreValues(t, E, kids, from, to, o, m),
         NEW j, <<from[o], j>> \in Lists(t, E), NEW x, x = kids[o][Len(kids[o])]
  PROVE  IsDue(t, E, from, o, x)
<1> DEFINE F == Elements(t, t[from[o]], E)
<1>1. /\ kids[o] \in Seq(Nat) /\ from[o] \in Nat \ {0} /\ Len(t) \in Nat
  BY TextIs DEF IsGhost
<1>2. PICK L \in Nat : L = Len(kids[o]) /\ L \in 1 .. Len(kids[o]) /\ L <= m + 1 /\ m <= Len(kids[o])
  BY <1>1
<1>3. PICK c : c = Before(kids, from, to, o, L)
  OBVIOUS
<1>4. E \subseteq Spans(t)
  BY DEF Solid
<1>5. c \in Nat /\ IsRead(t, from[o], c, F)
  <2>1. /\ IsText(t) /\ E \subseteq Spans(t) /\ IsGhost(kids, from, to, lev) /\ o \in Nat
        /\ Placed(t, kids, from, to, lev, o) /\ m \in Nat /\ m <= Len(kids[o])
        /\ AreValues(t, E, kids, from, to, o, m)
    BY <1>2, <1>4
  <2>2. \A i \in 1 .. Len(kids[o]) : i <= m + 1 =>
           /\ Before(kids, from, to, o, i) \in Nat
           /\ IsRead(t, from[o], Before(kids, from, to, o, i), Elements(t, t[from[o]], E))
    BY ONLY <2>1, KidsRead
  <2> QED BY <1>2, <1>3, <2>2
<1>6. from[x] = c + Width(t[from[o]])
  BY <1>2, <1>3 DEF Placed
<1>7. <<from[o], j>> \in Spans(t) /\ t[from[o]] \in Opening
  BY ListsAre
<1>8. from[o] \in 1 .. Len(t) /\ j \in 1 .. Len(t)
  BY <1>7, SpansAre
<1>9. ~(j = from[o] + 1 /\ t[from[o] + 1] = ClosingOf(t[from[o]]))
  BY <1>8 DEF Placed
<1>10. PICK n \in Nat : /\ c < n /\ n <= j /\ <<c + 1, n - 1>> \in F
                        /\ t[n] = Comma \/ t[n] = ClosingOf(t[from[o]])
  <2>1. /\ IsText(t) /\ Solid(t, E) /\ <<from[o], j>> \in Lists(t, E) /\ c \in Nat
        /\ IsRead(t, from[o], c, Elements(t, t[from[o]], E))
    BY <1>5
  <2>2. \/ c = from[o] /\ j = from[o] + 1 /\ t[from[o] + 1] = ClosingOf(t[from[o]])
        \/ \E n \in Nat : /\ c < n /\ n <= j /\ <<c + 1, n - 1>> \in Elements(t, t[from[o]], E)
                          /\ t[n] = Comma \/ t[n] = ClosingOf(t[from[o]])
    BY ONLY <2>1, ListGoesOn
  <2> QED BY <1>9, <2>2
<1>11. n \in 1 .. Len(t)
  BY <1>1, <1>5, <1>8, <1>10
<1>12. CASE t[from[o]] = "["
  <2>1. from[x] = c + 1 /\ F = E
    BY <1>6, <1>12 DEF Width, Elements
  <2> QED BY <1>10, <1>11, <1>12, <2>1 DEF IsDue
<1>13. CASE t[from[o]] # "["
  <2>1. from[x] = c + 3 /\ F = NamedSpans(t, E)
    BY <1>6, <1>13 DEF Width, Elements
  <2>2. PICK i \in Nat : i = c + 1
    BY <1>5
  <2>3. t[i] \in Strings /\ t[i + 1] = ":" /\ <<i + 2, n - 1>> \in E
    BY <1>10, <2>1, <2>2, NamedSpansAre
  <2>4. i + 2 = from[x] /\ from[x] - 2 = i /\ from[x] - 1 = i + 1
    BY <1>5, <2>1, <2>2
  <2> QED BY <1>10, <1>11, <1>13, <2>3, <2>4 DEF IsDue
<1> QED BY <1>12, <1>13

(* The same, of the k-th open list. *)
LEMMA DueIn ==
  ASSUME FormInv, NEW kids, NEW from, NEW to, NEW lev, Tree(kids, from, to, lev), pc \in Building,
         NEW k \in 1 .. Len(stack), ~(k = Len(stack) /\ pc = "first"), NEW o, o = OwnerOf(root, stack, k),
         \E j : <<from[o], j>> \in ValuesFrom(text)[NestingLimit - lev[o]]
  PROVE  IsDue(text, ValuesFrom(text)[NestingLimit - k], from, o, stack[k].current)
<1>1. IsText(text) /\ IsValues(text, ValuesFrom(text)) /\ NestingLimit \in Nat
  BY TextOfForm
<1>2. /\ o \in DOMAIN nodes /\ o \in Nat /\ lev[o] = k - 1 /\ k \in 1 .. NestingLimit
      /\ text[from[o]] = stack[k].open /\ text[from[o]] \in Opening
      /\ kids[o] # <<>> /\ stack[k].current = kids[o][Len(kids[o])]
  BY OpenListIs
<1>3. PICK m \in Nat : /\ m + 1 = Len(kids[o])
                       /\ AreValues(text, ValuesFrom(text)[NestingLimit - k], kids, from, to, o, m)
  BY OpenListIs
<1>4. PICK d \in 0 .. NestingLimit : d = NestingLimit - lev[o] /\ d - 1 = NestingLimit - k /\ d - 1 \in 0 .. NestingLimit
  BY <1>1, <1>2
<1>5. PICK E : E = ValuesFrom(text)[d - 1]
  OBVIOUS
<1>6. PICK j : <<from[o], j>> \in Lists(text, E)
  <2>1. PICK j : <<from[o], j>> \in ValuesFrom(text)[d]
    BY <1>4
  <2>2. text[from[o]] \notin Atoms
    BY <1>2, TokensDiffer
  <2>3. \/ text[from[o]] \in Atoms /\ from[o] = j
        \/ text[from[o]] \in Opening /\ d # 0 /\ <<from[o], j>> \in Lists(text, ValuesFrom(text)[d - 1])
    BY <1>1, <2>1, ValueIs
  <2> QED BY <1>5, <2>2, <2>3
<1>7. Solid(text, E)
  BY <1>1, <1>4, <1>5, ValuesSolid
<1>8. /\ IsGhost(kids, from, to, lev) /\ Placed(text, kids, from, to, lev, o)
  BY <1>2 DEF Tree
<1>9. AreValues(text, E, kids, from, to, o, m)
  BY <1>3, <1>4, <1>5
<1>10. PICK x : x = stack[k].current /\ x = kids[o][Len(kids[o])]
  BY <1>2
<1>11. IsDue(text, E, from, o, x)
  BY ONLY <1>1, <1>2, <1>3, <1>6, <1>7, <1>8, <1>9, <1>10, LastIsDue
<1> QED BY <1>4, <1>5, <1>10, <1>11

(* If the text begins with a value, the item of each open list is one.      *)
LEMMA OwnersAreDue ==
  ASSUME FormInv, NEW kids, NEW from, NEW to, NEW lev, Tree(kids, from, to, lev), pc \in Building, ReadsAsJson(text)
  PROVE  \A k \in 1 .. Len(stack) :
           \E j : <<from[OwnerOf(root, stack, k)], j>> \in ValuesFrom(text)[NestingLimit - lev[OwnerOf(root, stack, k)]]
<1> DEFINE P(k) == \E j : <<from[OwnerOf(root, stack, k)], j>> \in ValuesFrom(text)[NestingLimit - lev[OwnerOf(root, stack, k)]]
           T == {k \in 0 .. Len(stack) : k # 0 => P(k)}
<1> HIDE DEF P
<1>1. stack \in Seq(Frame) /\ Len(stack) \in Nat /\ NestingLimit \in Nat
  <2>1. stack \in Seq(Frame)
    BY TextOfForm
  <2> QED BY <2>1, TextOfForm
<1>2. 0 \in T
  BY <1>1
<1>3. ASSUME NEW k \in 1 .. Len(stack), k - 1 \in T PROVE k \in T
  <2>1. CASE k = 1
    <3>1. from[root] = Start(text) /\ lev[root] = 0 /\ OwnerOf(root, stack, k) = root
      BY <2>1 DEF Tree, OwnerOf
    <3>2. PICK j : <<Start(text), j>> \in ValuesFrom(text)[NestingLimit]
      BY ValuesByPlace DEF ReadsAsJson
    <3>3. NestingLimit - 0 = NestingLimit
      BY <1>1
    <3>4. P(k)
      BY <3>1, <3>2, <3>3 DEF P
    <3> QED BY <1>1, <3>4
  <2>2. CASE k # 1
    <3>1. PICK h \in 1 .. Len(stack) : h = k - 1 /\ h # Len(stack) /\ h # 0
      BY <1>1, <2>2
    <3>2. PICK o : o = OwnerOf(root, stack, h)
      OBVIOUS
    <3>3. \E j : <<from[o], j>> \in ValuesFrom(text)[NestingLimit - lev[o]]
      BY <1>3, <3>1, <3>2 DEF P
    <3>4. PICK x : x = stack[h].current
      OBVIOUS
    <3>5. IsDue(text, ValuesFrom(text)[NestingLimit - h], from, o, x)
      BY <3>1, <3>2, <3>3, <3>4, DueIn
    <3>6. x = OwnerOf(root, stack, k)
      BY <2>2, <3>1, <3>4 DEF OwnerOf
    <3>7. lev[x] = h
      BY <1>1, <3>1, <3>6, PendingAre
    <3>8. \E j : <<from[x], j>> \in ValuesFrom(text)[NestingLimit - h]
      BY <3>5 DEF IsDue
    <3>9. P(k)
      BY <3>6, <3>7, <3>8 DEF P
    <3> QED BY <1>1, <3>9
  <2> QED BY <2>1, <2>2
<1> HIDE DEF T
<1>4. 0 .. Len(stack) \subseteq T
  BY <1>1, <1>2, <1>3, UpTo
<1>5. ASSUME NEW k \in 1 .. Len(stack) PROVE P(k)
  <2>1. k \in T /\ k # 0
    BY <1>1, <1>4
  <2> QED BY <2>1 DEF T
<1> QED BY <1>5 DEF P

(* Where the item that is being filled in begins, the text has a value; in  *)
(* an open list, with what belongs around it.                               *)
LEMMA ValueDue ==
  ASSUME FormInv, NEW kids, NEW from, NEW to, NEW lev, Tree(kids, from, to, lev),
         pc \in Building, pc # "first", ReadsAsJson(text), NEW x, x = LastItem(root, stack)
  PROVE  /\ \E j : <<from[x], j>> \in ValuesFrom(text)[NestingLimit - Len(stack)]
         /\ stack # <<>> =>
              \E o : /\ text[from[o]] = stack[Len(stack)].open
                     /\ IsDue(text, ValuesFrom(text)[NestingLimit - Len(stack)], from, o, x)
<1>1. stack \in Seq(Frame) /\ Len(stack) \in Nat /\ NestingLimit \in Nat
  <2>1. stack \in Seq(Frame)
    BY TextOfForm
  <2> QED BY <2>1, TextOfForm
<1>2. CASE stack = <<>>
  <2>1. x = root /\ NestingLimit - Len(stack) = NestingLimit
    BY <1>1, <1>2 DEF LastItem
  <2>2. from[root] = Start(text)
    BY DEF Tree
  <2>3. PICK j : <<Start(text), j>> \in ValuesFrom(text)[NestingLimit]
    BY ValuesByPlace DEF ReadsAsJson
  <2> QED BY <1>2, <2>1, <2>2, <2>3
<1>3. CASE stack # <<>>
  <2>1. PICK k \in 1 .. Len(stack) : k = Len(stack)
    BY <1>1, <1>3
  <2>2. PICK o : o = OwnerOf(root, stack, k)
    OBVIOUS
  <2>3. \E j : <<from[o], j>> \in ValuesFrom(text)[NestingLimit - lev[o]]
    BY <2>2, OwnersAreDue
  <2>4. x = stack[k].current
    BY <1>3, <2>1 DEF LastItem
  <2>5. IsDue(text, ValuesFrom(text)[NestingLimit - k], from, o, x)
    BY <2>2, <2>3, <2>4, DueIn
  <2>6. \E j : <<from[x], j>> \in ValuesFrom(text)[NestingLimit - k]
    BY <2>5 DEF IsDue
  <2>7. text[from[o]] = stack[k].open
    BY <2>2, OpenListIs
  <2> QED BY <2>1, <2>5, <2>6, <2>7
<1> QED BY <1>2, <1>3

(* So a value is there where one is looked for, and not too deep; *)
LEMMA ValueThere ==
  ASSUME FormInv, NEW kids, NEW from, NEW to, NEW lev, Tree(kids, from, to, lev), pc = "value", ReadsAsJson(text)
  PROVE  Peek \in Beginnings /\ (Peek \in Opening => ~TooDeep)
<1>1. IsText(text) /\ IsValues(text, ValuesFrom(text)) /\ NestingLimit \in Nat
  BY TextOfForm
<1>2. pc \in Building /\ pc # "first"
  BY DEF Building
<1>3. Len(stack) = depth /\ depth \in 0 .. NestingLimit
  BY <1>2 DEF FormInv, ListsOpen, Typed
<1>4. PICK x : x = LastItem(root, stack)
  OBVIOUS
<1>5. at = from[x]
  BY <1>4 DEF Tree, Stands
<1>6. PICK j : <<from[x], j>> \in ValuesFrom(text)[NestingLimit - Len(stack)]
  BY <1>2, <1>4, ValueDue
<1>7. PICK d \in 0 .. NestingLimit : d = NestingLimit - Len(stack)
  BY <1>1, <1>3
<1>8. /\ at \in 1 .. Len(text)
      /\ text[at] \in Atoms \/ (text[at] \in Opening /\ d # 0)
  BY <1>1, <1>5, <1>6, <1>7, ValueIs
<1>9. Peek = text[at]
  BY <1>8 DEF Peek
<1>10. d # 0 => ~TooDeep
  BY <1>1, <1>3, <1>7 DEF TooDeep
<1>11. Peek \in Opening => Peek \notin Atoms
  BY TokensDiffer
<1> QED BY <1>8, <1>9, <1>10, <1>11 DEF Beginnings

(* a name and a colon where they are looked for, *)
LEMMA NameThere ==
  ASSUME FormInv, NEW kids, NEW from, NEW to, NEW lev, Tree(kids, from, to, lev), ReadsAsJson(text)
  PROVE  /\ pc = "name" => Peek \in Strings
         /\ pc = "colon" => Peek = ":"
<1> SUFFICES ASSUME pc \in {"name", "colon"}
             PROVE  (pc = "name" => Peek \in Strings) /\ (pc = "colon" => Peek = ":")
  OBVIOUS
<1>1. IsText(text) /\ Len(text) \in Nat /\ at \in Nat /\ at # 0
  BY TextOfForm, PeekIs DEF FormInv
<1>2. pc \in Building /\ pc # "first" /\ stack # <<>>
  BY DEF Building, FormInv, ListsOpen
<1>3. PICK x : x = LastItem(root, stack)
  OBVIOUS
<1>4. PICK o : /\ text[from[o]] = stack[Len(stack)].open
               /\ IsDue(text, ValuesFrom(text)[NestingLimit - Len(stack)], from, o, x)
  BY <1>2, <1>3, ValueDue
<1>5. PICK p : p = OwnerOf(root, stack, Len(stack))
  OBVIOUS
<1>6. text[from[p]] # "[" /\ (pc = "name" => at + 2 = from[x]) /\ (pc = "colon" => at + 1 = from[x])
  BY <1>3, <1>5 DEF Tree, Stands
<1>7. text[from[p]] = stack[Len(stack)].open
  <2>1. Len(stack) \in 1 .. Len(stack)
    <3>1. stack \in Seq(Frame)
      BY TextOfForm
    <3> QED BY <1>2, <3>1
  <2> QED BY <1>5, <2>1 DEF Tree, FrameIs
<1>8. text[from[x] - 2] \in Strings /\ text[from[x] - 1] = ":"
  BY <1>4, <1>6, <1>7 DEF IsDue
<1>9. from[x] \in 1 .. Len(text)
  <2>1. PICK j : <<from[x], j>> \in ValuesFrom(text)[NestingLimit - Len(stack)]
    BY <1>2, <1>3, ValueDue
  <2>2. Len(stack) = depth /\ depth \in 0 .. NestingLimit
    BY <1>2 DEF FormInv, ListsOpen, Typed
  <2>3. IsValues(text, ValuesFrom(text)) /\ NestingLimit \in Nat
    BY TextOfForm
  <2>4. PICK d \in 0 .. NestingLimit : d = NestingLimit - Len(stack)
    BY <2>2, <2>3
  <2> QED BY <1>1, <2>1, <2>3, <2>4, ValueIs
<1>10. CASE pc = "name"
  <2>1. at <= Len(text) /\ from[x] - 2 = at
    BY <1>1, <1>6, <1>9, <1>10
  <2> QED BY <1>8, <1>10, <2>1 DEF Peek
<1>11. CASE pc = "colon"
  <2>1. at <= Len(text) /\ from[x] - 1 = at
    BY <1>1, <1>6, <1>9, <1>11
  <2> QED BY <1>8, <1>11, <2>1 DEF Peek
<1> QED BY <1>10, <1>11

(* and a comma or the closing bracket behind the item of a list.            *)
LEMMA SeparatorThere ==
  ASSUME FormInv, NEW kids, NEW from, NEW to, NEW lev, Tree(kids, from, to, lev), pc = "next", stack # <<>>,
         ReadsAsJson(text)
  PROVE  Peek = Comma \/ Peek = ClosingOf(Last(stack).open)
<1>1. IsText(text) /\ IsValues(text, ValuesFrom(text)) /\ NestingLimit \in Nat /\ stack \in Seq(Frame)
  BY TextOfForm
<1>2. pc \in Building /\ pc # "first"
  BY DEF Building
<1>3. Len(stack) = depth /\ depth \in 0 .. NestingLimit
  BY <1>2 DEF FormInv, ListsOpen, Typed
<1>4. PICK x : x = LastItem(root, stack)
  OBVIOUS
<1>5. x \in DOMAIN nodes /\ x \in Nat /\ lev[x] = Len(stack) /\ ~IsOwner(root, stack, x)
  BY <1>1, <1>2, <1>4, LastIs
<1>6. ~Pending(root, stack, pc, x)
  BY <1>5 DEF Pending, Filled
<1>7. <<from[x], to[x]>> \in ValuesFrom(text)[NestingLimit - Len(stack)]
  BY <1>5, <1>6 DEF Tree, Complete
<1>8. at = to[x] + 1
  BY <1>4 DEF Tree, Stands, Filled
<1>9. PICK o : /\ text[from[o]] = stack[Len(stack)].open
               /\ IsDue(text, ValuesFrom(text)[NestingLimit - Len(stack)], from, o, x)
  BY <1>2, <1>4, ValueDue
<1>10. PICK n \in Nat : /\ <<from[x], n - 1>> \in ValuesFrom(text)[NestingLimit - Len(stack)] /\ n \in 1 .. Len(text)
                        /\ text[n] = Comma \/ text[n] = ClosingOf(text[from[o]])
  BY <1>9 DEF IsDue
<1>11. PICK d \in 0 .. NestingLimit : d = NestingLimit - Len(stack)
  BY <1>1, <1>3
<1>12. to[x] = n - 1
  <2>1. OneEnd(ValuesFrom(text)[d])
    BY <1>1, ValuesSolid DEF Solid
  <2> QED BY <1>7, <1>10, <1>11, <2>1 DEF OneEnd
<1>13. at = n
  BY <1>8, <1>10, <1>12
<1>14. Peek = text[n]
  BY <1>1, <1>10, <1>13, TextIs DEF Peek
<1>15. Last(stack) = stack[Len(stack)]
  BY DEF Last
<1> QED BY <1>9, <1>10, <1>14, <1>15

(* A tree is there only if no allocation failed.  When the parser gives up, *)
(* one did, or the text begins with no value.                               *)
ReadInv ==
  /\ HasTree => ~starved
  /\ pc = "fail" \/ (pc = "parsed" /\ root = NULL) => starved \/ ~ReadsAsJson(text)
  /\ pc = "items" => root # NULL

(* A tree that is complete is a value of the text. *)
LEMMA AcceptedReads ==
  ASSUME FormInv, NEW kids, NEW from, NEW to, NEW lev, Tree(kids, from, to, lev), pc \in {"parsed", "items"}
  PROVE  /\ ReadsAsJson(text) /\ <<from[root], to[root]>> \in Values(text)
         /\ root \in DOMAIN nodes /\ at = to[root] + 1
         /\ \A n \in DOMAIN nodes : Complete(nodes, strings, text, kids, from, to, lev, n)
<1>1. IsText(text) /\ IsValues(text, ValuesFrom(text)) /\ NestingLimit \in Nat
  BY TextOfForm
<1>2. stack = <<>>
  BY DEF FormInv, ListsOpen, Building
<1>3. \A n : ~Pending(root, stack, pc, n)
  <2>1. Len(stack) = 0
    BY <1>2
  <2>2. 1 .. Len(stack) = {}
    BY <2>1
  <2> QED BY <2>2 DEF Pending, IsOwner, Filled
<1>4. \A n \in DOMAIN nodes : Complete(nodes, strings, text, kids, from, to, lev, n)
  BY <1>3 DEF Tree
<1>5. root \in DOMAIN nodes /\ from[root] = Start(text) /\ lev[root] = 0
  BY DEF Tree, Apart
<1>6. <<from[root], to[root]>> \in ValuesFrom(text)[NestingLimit]
  <2>1. NestingLimit - 0 = NestingLimit
    BY <1>1
  <2> QED BY <1>4, <1>5, <2>1 DEF Complete
<1>7. to[root] \in DOMAIN text
  <2>1. NestingLimit \in 0 .. NestingLimit
    BY <1>1
  <2>2. to[root] \in 1 .. Len(text)
    BY <1>1, <1>6, <2>1, ValueIs
  <2> QED BY <1>1, <2>2, TextIs
<1>8. at = to[root] + 1
  BY <1>2 DEF Tree, Stands, Filled, LastItem
<1> QED BY <1>4, <1>5, <1>6, <1>7, <1>8, ValuesByPlace DEF ReadsAsJson

(* The parser gives up on no text that is JSON, unless it starves.          *)
LEMMA ReadFails ==
  ASSUME FormInv, TreeInv, ReadInv, pc \in Building, Parse, pc' = "fail"
  PROVE  starved' \/ ~ReadsAsJson(text)
<1> SUFFICES ASSUME ReadsAsJson(text), ~starved' PROVE FALSE
  OBVIOUS
<1>1. PICK kids, from, to, lev : Tree(kids, from, to, lev)
  BY DEF TreeInv, HasTree
<1>2. CASE ParseNumber \/ NoValue \/ OpenList \/ ParseString
  <2>1. pc = "value"
    BY <1>2 DEF ParseNumber, NoValue, OpenList, ParseString
  <2>2. Peek \in Beginnings /\ (Peek \in Opening => ~TooDeep)
    BY <1>1, <2>1, ValueThere
  <2>3. "-" \notin Beginnings /\ BadStrings \cap Beginnings = {}
    BY FormAssumption DEF Beginnings, Atoms, Literals, Opening, Marks, BadStrings
  <2>4. CASE ParseNumber
    BY <2>2, <2>3, <2>4 DEF ParseNumber
  <2>5. CASE NoValue
    BY <2>2, <2>5 DEF NoValue, Beginnings, Atoms
  <2>6. CASE OpenList
    BY <2>2, <2>6 DEF OpenList
  <2>7. CASE ParseString
    BY <2>2, <2>3, <2>7 DEF ParseString, parse_string
  <2> QED BY <1>2, <2>4, <2>5, <2>6, <2>7
<1>3. CASE ParseName
  <2>1. Peek \in Strings
    BY <1>1, <1>3, NameThere DEF ParseName
  <2> QED BY <1>3, <2>1 DEF ParseName, parse_string
<1>4. CASE ParseColon
  <2>1. Peek = ":"
    BY <1>1, <1>4, NameThere DEF ParseColon
  <2> QED BY <1>4, <2>1 DEF ParseColon
<1>5. CASE NoSeparator
  <2>1. Peek = Comma \/ Peek = ClosingOf(Last(stack).open)
    BY <1>1, <1>5, SeparatorThere DEF NoSeparator
  <2> QED BY <1>5, <2>1 DEF NoSeparator, Comma
<1>6. CASE NextItem
  BY <1>6 DEF NextItem
<1>7. CASE cJSON_Parse \/ ParseLiteral \/ CloseList \/ Fail \/ Succeed
  BY <1>7 DEF cJSON_Parse, ParseLiteral, CloseList, Fail, Succeed, Building
<1> QED BY <1>2, <1>3, <1>4, <1>5, <1>6, <1>7 DEF Parse

(* The parser's steps keep the invariant,                                   *)
LEMMA ReadParse ==
  ASSUME FormInv, TreeInv, ReadInv, Parse
  PROVE  ReadInv'
<1>1. CASE cJSON_Parse
  BY <1>1 DEF cJSON_Parse, ReadInv, HasTree, Building
<1>2. CASE Fail
  BY <1>2 DEF Fail, ReadInv, HasTree, Building
<1>3. CASE Succeed
  <2>1. root # NULL
    <3>1. PICK kids, from, to, lev : Tree(kids, from, to, lev)
      BY <1>3 DEF TreeInv, HasTree, Succeed, Building
    <3>2. root \in DOMAIN nodes
      BY <3>1 DEF Tree, Apart
    <3> QED BY <3>2 DEF FormInv, Hung, IsHeap
  <2> QED BY <1>3, <2>1 DEF Succeed, ReadInv, HasTree, Building, parserVars
<1>4. CASE ParseLiteral \/ ParseNumber \/ ParseString \/ OpenList \/ NoValue \/ NextItem
           \/ ParseName \/ ParseColon \/ CloseList \/ NoSeparator
  <2>1. /\ pc \in Building /\ UNCHANGED text /\ pc' \in Building \cup {"fail"}
        /\ pc' # "fail" => UNCHANGED starved
    BY <1>4 DEF ParseLiteral, ParseNumber, ParseString, OpenList, NoValue, NextItem, ParseName, ParseColon,
                CloseList, NoSeparator, parse_string, parserVars, Building
  <2>2. CASE pc' = "fail"
    <3>1. starved' \/ ~ReadsAsJson(text)
      BY <2>1, <2>2, ReadFails
    <3> QED BY <2>1, <2>2, <3>1 DEF ReadInv, HasTree, Building
  <2>3. CASE pc' # "fail"
    BY <2>1, <2>3 DEF ReadInv, HasTree, Building
  <2> QED BY <2>2, <2>3
<1> QED BY <1>1, <1>2, <1>3, <1>4 DEF Parse

(* and so does every step.                                                  *)
LEMMA ReadStep ==
  ASSUME FormInv, TreeInv, ReadInv, [Next]_vars
  PROVE  ReadInv'
<1>1. CASE ParseStep
  BY <1>1, ReadParse DEF ParseStep
<1>2. CASE Receive \/ ReceiveNone \/ ReceiveBad \/ NotJson \/ EndOfForm
  BY <1>2 DEF Receive, ReceiveNone, ReceiveBad, NotJson, EndOfForm, ReadInv, HasTree, Building
<1>3. CASE FirstItem \/ NextOfForm
  BY <1>3 DEF FirstItem, NextOfForm, parserVars, ReadInv, HasTree, Building
<1>4. CASE UNCHANGED vars
  BY <1>4 DEF vars, parserVars, ReadInv, HasTree
<1> QED BY <1>1, <1>2, <1>3, <1>4 DEF Next, Handle

(* The parser is right, with memory: what it accepts and what it refuses. *)
Accepts == pc = "parsed" => (root # NULL <=> ~starved /\ ReadsAsJson(text))

(* A text is accepted if and only if it is JSON and there was memory.       *)
LEMMA AcceptsRight == FormInv /\ TreeInv /\ ReadInv => Accepts
<1> SUFFICES ASSUME FormInv, TreeInv, ReadInv, pc = "parsed" PROVE root # NULL <=> ~starved /\ ReadsAsJson(text)
  BY DEF Accepts
<1>1. ASSUME root # NULL PROVE ~starved /\ ReadsAsJson(text)
  <2>1. PICK kids, from, to, lev : Tree(kids, from, to, lev)
    BY <1>1 DEF TreeInv, HasTree
  <2>2. ReadsAsJson(text)
    BY <2>1, AcceptedReads
  <2> QED BY <1>1, <2>2 DEF ReadInv, HasTree
<1>2. ASSUME root = NULL PROVE starved \/ ~ReadsAsJson(text)
  BY <1>2 DEF ReadInv
<1> QED BY <1>1, <1>2

TreeFormInv == FormInv /\ TreeInv /\ ReadInv

(* The invariant holds at first.                                            *)
LEMMA TreeFormInit == Init => TreeFormInv
<1>1. Init => TreeInv /\ ReadInv
  BY DEF Init, TreeInv, ReadInv, HasTree, Building
<1> QED BY <1>1, FormInit DEF TreeFormInv

(* Every step keeps it.                                                     *)
LEMMA TreeFormStep == TreeFormInv /\ [Next]_vars => TreeFormInv'
BY FormStep, TreeStep, ReadStep DEF TreeFormInv
=============================================================================
