----------------------------- MODULE JsonProofs -----------------------------
(*****************************************************************************)
(* What is parsed is the text, and what is saved is what the text asks       *)
(* for, on the invariant of FormProofs (TreeFormInv).                        *)
(*                                                                           *)
(* The tree that the parser hands over prints to the text it was made        *)
(* from: an item prints to the tokens between its two places (TreePrints),   *)
(* which with the invariant makes ParsesJson.                                *)
(*                                                                           *)
(* The handler looks at the tree, the specification at the text.  The        *)
(* level of a place is the number of lists that are open there (LevelIs);    *)
(* all items of a list stand at one level (ListLevels), and so what          *)
(* GetObjectItem finds is the first name of that level behind a bracket or   *)
(* a comma (MemberPlacesAre, ObjectsAgree).  LoopInv: after k items the      *)
(* table and the mode are what the first k items of the text ask for, and    *)
(* the form is bad if one of them is; with the last item that is             *)
(* SavedAsAsked.                                                             *)
(*****************************************************************************)
EXTENDS FormProofs

-----------------------------------------------------------------------------
(* The tree prints to its text.                                            *)

(* The items of n, as its next pointers go.                                 *)
ChildOf(h, n, f) ==
  [k \in 1 .. Cardinality(DOMAIN h) |->
     IF k = 1 THEN h[n].child
     ELSE [m \in DOMAIN h \cup {NULL} |-> IF m = NULL THEN NULL ELSE h[m].next][f[k - 1]]]
ChildFrom(h, n) == CHOOSE f : f = ChildOf(h, n, f)

(* The children, from the first on.                                         *)
LEMMA ChildrenByPlace ==
  ASSUME NEW n
  PROVE  Children(n) = [k \in {j \in DOMAIN ChildFrom(nodes, n) : ChildFrom(nodes, n)[j] # NULL} |->
                          ChildFrom(nodes, n)[k]]
BY Zenon DEF Children, ChildFrom, ChildOf

(* No more items than there are in the heap. *)
LEMMA FewItems ==
  ASSUME NEW D, IsFiniteSet(D), NEW r, NEW kids, Apart(D, r, kids), NEW n \in D, kids[n] \in Seq(Nat)
  PROVE  Len(kids[n]) \in Nat /\ Cardinality(D) \in Nat /\ Len(kids[n]) <= Cardinality(D)
<1>1. PICK L \in Nat : L = Len(kids[n])
  OBVIOUS
<1>2. PICK f : f = [i \in 1 .. L |-> kids[n][i]]
  OBVIOUS
<1>3. f \in [1 .. L -> D]
  BY <1>1, <1>2 DEF Apart
<1>4. \A i, j \in 1 .. Len(kids[n]) : kids[n][i] = kids[n][j] => i = j
  BY DEF Apart
<1>5. \A i, j \in 1 .. L : f[i] = f[j] => i = j
  BY <1>1, <1>2, <1>4
<1>6. f \in Injection(1 .. L, D)
  BY <1>3, <1>5 DEF Injection, IsInjective
<1>7. Cardinality(1 .. L) <= Cardinality(D)
  BY <1>6, FS_Injection
<1>8. Cardinality(1 .. L) = L
  BY <1>1, FS_Interval
<1> QED BY <1>1, <1>7, <1>8, FS_CardinalityType

(* Walking goes over the items in their order. *)
Walked(h, q, w) ==
  w = [k \in 1 .. Cardinality(DOMAIN h) |-> IF k <= Len(q) THEN q[k] ELSE NULL]

(* That walk is what the pointers give,                                     *)
LEMMA WalkIs ==
  ASSUME NEW h, IsHeap(h), NEW r, NEW kids, Apart(DOMAIN h, r, kids), NEW n \in DOMAIN h, NEW q, q = kids[n],
         q \in Seq(Nat), Row(h, kids, n), Parted(h, kids, n), NEW w, Walked(h, q, w)
  PROVE  w = ChildOf(h, n, w)
<1>1. Len(q) \in Nat /\ Cardinality(DOMAIN h) \in Nat /\ Len(q) <= Cardinality(DOMAIN h)
  BY FewItems DEF IsHeap
<1>2. PICK C \in Nat : C = Cardinality(DOMAIN h)
  BY <1>1
<1>3. PICK L \in Nat : L = Len(q) /\ L <= C
  BY <1>1, <1>2
<1>4. \A i \in 1 .. L : q[i] \in DOMAIN h /\ q[i] # NULL
  BY <1>3 DEF Apart, IsHeap
<1>5. w = [k \in 1 .. C |-> IF k <= L THEN q[k] ELSE NULL]
  BY <1>2, <1>3 DEF Walked
<1>6. PICK after : after = [m \in DOMAIN h \cup {NULL} |-> IF m = NULL THEN NULL ELSE h[m].next]
  OBVIOUS
<1>7. after[NULL] = NULL /\ \A m \in DOMAIN h : after[m] = h[m].next
  BY <1>6 DEF IsHeap
<1>8. ASSUME NEW k \in 1 .. C
      PROVE  w[k] = IF k = 1 THEN h[n].child ELSE after[w[k - 1]]
  <2>1. CASE k = 1
    <3>1. L = 0 => q = <<>>
      BY <1>3, EmptySeq
    <3>2. L # 0 => q # <<>>
      BY <1>3
    <3>3. L = 0 => w[k] = NULL
      BY <1>5, <2>1
    <3>4. L # 0 => w[k] = q[1]
      BY <1>5, <2>1
    <3> QED BY <2>1, <3>1, <3>2, <3>3, <3>4 DEF Parted
  <2>2. CASE k # 1
    <3>1. PICK i \in 1 .. C : i = k - 1 /\ i + 1 = k
      BY <2>2
    <3>2. CASE k <= L
      <4>1. w[k] = q[i + 1] /\ w[i] = q[i] /\ i \in 1 .. L /\ i < L
        BY <1>5, <3>1, <3>2
      <4>2. h[q[i]].next = q[i + 1]
        BY <1>3, <4>1 DEF Row
      <4>3. after[w[i]] = q[i + 1]
        BY <1>4, <1>7, <4>1, <4>2
      <4> QED BY <2>2, <3>1, <4>1, <4>3
    <3>3. CASE i = L
      <4>1. w[k] = NULL /\ w[i] = q[i] /\ i \in 1 .. L
        BY <1>5, <3>1, <3>3
      <4>2. h[q[i]].next = NULL
        BY <1>3, <3>3, <4>1 DEF Row
      <4>3. after[w[i]] = NULL
        BY <1>4, <1>7, <4>1, <4>2
      <4> QED BY <2>2, <3>1, <4>1, <4>3
    <3>4. CASE i > L
      <4>1. w[k] = NULL /\ w[i] = NULL
        BY <1>5, <3>1, <3>4
      <4> QED BY <1>7, <2>2, <3>1, <4>1
    <3> QED BY <3>1, <3>2, <3>3, <3>4
  <2> QED BY <2>1, <2>2
<1>9. w = [k \in 1 .. C |-> IF k = 1 THEN h[n].child ELSE after[w[k - 1]]]
  BY <1>5, <1>8
<1> QED BY <1>2, <1>6, <1>9 DEF ChildOf

(* There is one walk. *)
LEMMA OneWalk ==
  ASSUME NEW h, IsHeap(h), NEW n, NEW v, NEW w, v = ChildOf(h, n, v), w = ChildOf(h, n, w)
  PROVE  v = w
<1>1. PICK C \in Nat : C = Cardinality(DOMAIN h)
  BY FS_CardinalityType DEF IsHeap
<1>2. PICK after : after = [m \in DOMAIN h \cup {NULL} |-> IF m = NULL THEN NULL ELSE h[m].next]
  OBVIOUS
<1>3. /\ v = [k \in 1 .. C |-> IF k = 1 THEN h[n].child ELSE after[v[k - 1]]]
      /\ w = [k \in 1 .. C |-> IF k = 1 THEN h[n].child ELSE after[w[k - 1]]]
  <2>1. ASSUME NEW f PROVE ChildOf(h, n, f) = [k \in 1 .. C |-> IF k = 1 THEN h[n].child ELSE after[f[k - 1]]]
    BY <1>1, <1>2 DEF ChildOf
  <2> QED BY <2>1
<1> DEFINE T == {k \in 0 .. C : k # 0 => v[k] = w[k]}
<1>4. 0 \in T
  OBVIOUS
<1>5. \A k \in 1 .. C : k - 1 \in T => k \in T
  <2> SUFFICES ASSUME NEW k \in 1 .. C, k - 1 \in T PROVE v[k] = w[k]
    OBVIOUS
  <2>1. k # 1 => v[k - 1] = w[k - 1]
    OBVIOUS
  <2> HIDE DEF T
  <2>2. v[k] = IF k = 1 THEN h[n].child ELSE after[v[k - 1]]
    BY <1>3
  <2>3. w[k] = IF k = 1 THEN h[n].child ELSE after[w[k - 1]]
    BY <1>3
  <2> QED BY <2>1, <2>2, <2>3
<1> HIDE DEF T
<1>6. 0 .. C \subseteq T
  BY <1>4, <1>5, UpTo
<1>7. \A k \in 1 .. C : v[k] = w[k]
  BY <1>6 DEF T
<1>8. v = [k \in 1 .. C |-> v[k]] /\ w = [k \in 1 .. C |-> w[k]]
  BY <1>3
<1> QED BY <1>7, <1>8

(* and so the children are the items of the list.                           *)
LEMMA ChildrenOf ==
  ASSUME NEW r, NEW kids, IsHeap(nodes), Apart(DOMAIN nodes, r, kids), NEW n \in DOMAIN nodes, NEW q, q = kids[n],
         q \in Seq(Nat), Row(nodes, kids, n), Parted(nodes, kids, n)
  PROVE  Children(n) = q
<1>1. PICK w : w = [k \in 1 .. Cardinality(DOMAIN nodes) |-> IF k <= Len(q) THEN q[k] ELSE NULL]
  OBVIOUS
<1>2. w = ChildOf(nodes, n, w)
  BY <1>1, WalkIs DEF Walked
<1>3. PICK c : c = ChildFrom(nodes, n)
  OBVIOUS
<1>4. c = ChildOf(nodes, n, c)
  BY <1>2, <1>3 DEF ChildFrom
<1>5. c = w
  BY <1>2, <1>4, OneWalk
<1>6. Children(n) = [k \in {j \in DOMAIN w : w[j] # NULL} |-> w[k]]
  BY <1>3, <1>5, ChildrenByPlace
<1>7. Len(q) \in Nat /\ Cardinality(DOMAIN nodes) \in Nat /\ Len(q) <= Cardinality(DOMAIN nodes)
  BY FewItems DEF IsHeap
<1>8. \A i \in 1 .. Len(q) : q[i] # NULL
  BY DEF Apart, IsHeap
<1>9. {j \in DOMAIN w : w[j] # NULL} = 1 .. Len(q)
  BY <1>1, <1>7, <1>8
<1>10. Children(n) = [k \in 1 .. Len(q) |-> q[k]]
  BY <1>1, <1>6, <1>7, <1>9
<1>11. q = [k \in 1 .. Len(q) |-> q[k]]
  OBVIOUS
<1> QED BY <1>10, <1>11

(* The tree when the parser is done, item by item. *)
LEMMA ItemsAre ==
  ASSUME FormInv, NEW kids, NEW from, NEW to, NEW lev, Tree(kids, from, to, lev), pc \in {"parsed", "items"},
         NEW n \in DOMAIN nodes
  PROVE  /\ kids[n] \in Seq(Nat) /\ Children(n) = kids[n]
         /\ from[n] \in 1 .. Len(text) /\ to[n] \in 1 .. Len(text) /\ from[n] <= to[n]
         /\ lev[n] \in 0 .. NestingLimit
         /\ Row(nodes, kids, n) /\ Parted(nodes, kids, n)
         /\ Complete(nodes, strings, text, kids, from, to, lev, n)
<1>1. IsText(text) /\ IsValues(text, ValuesFrom(text)) /\ NestingLimit \in Nat
  BY TextOfForm
<1>2. Complete(nodes, strings, text, kids, from, to, lev, n)
  BY AcceptedReads
<1>3. IsGhost(kids, from, to, lev) /\ Apart(DOMAIN nodes, root, kids)
  BY DEF Tree
<1>4. n \in Nat
  BY <1>3 DEF Apart
<1>5. kids[n] \in Seq(Nat) /\ lev[n] \in 0 .. NestingLimit
  BY <1>3, <1>4 DEF IsGhost
<1>6. PICK d \in 0 .. NestingLimit : d = NestingLimit - lev[n]
  BY <1>1, <1>5
<1>7. from[n] \in 1 .. Len(text) /\ to[n] \in 1 .. Len(text) /\ from[n] <= to[n]
  BY <1>1, <1>2, <1>6, ValueIs DEF Complete
<1>8. stack = <<>>
  BY DEF FormInv, ListsOpen, Building
<1>9. ~IsOwner(root, stack, n)
  <2>1. Len(stack) = 0
    BY <1>8
  <2>2. 1 .. Len(stack) = {}
    BY <2>1
  <2> QED BY <2>2 DEF IsOwner
<1>10. Row(nodes, kids, n) /\ Parted(nodes, kids, n)
  BY <1>9 DEF Tree
<1>11. IsHeap(nodes)
  BY DEF FormInv, Hung
<1>12. PICK q : q = kids[n]
  OBVIOUS
<1>13. Children(n) = q
  BY <1>3, <1>5, <1>10, <1>11, <1>12, ChildrenOf
<1> QED BY <1>2, <1>5, <1>7, <1>10, <1>12, <1>13

(* The list can be walked back. *)
LEMMA WalkedBack ==
  ASSUME FormInv, NEW kids, NEW from, NEW to, NEW lev, Tree(kids, from, to, lev), pc \in {"parsed", "items"},
         NEW n \in DOMAIN nodes, NEW k \in DOMAIN Children(n)
  PROVE  nodes[Children(n)[k]].prev = Children(n)[IF k = 1 THEN Len(Children(n)) ELSE k - 1]
<1>1. PICK q : q = kids[n]
  OBVIOUS
<1>2. q \in Seq(Nat) /\ Children(n) = q /\ Row(nodes, kids, n) /\ Parted(nodes, kids, n)
  BY <1>1, ItemsAre
<1>3. k \in 1 .. Len(q) /\ q # <<>>
  <2>1. DOMAIN q = 1 .. Len(q)
    BY <1>2
  <2>2. k \in 1 .. Len(q)
    BY <1>2, <2>1
  <2>3. Len(q) # 0
    BY <1>2, <2>2
  <2>4. q # <<>>
    BY <2>3
  <2> QED BY <2>2, <2>4
<1>4. CASE k = 1
  <2>1. nodes[q[1]].prev = q[Len(q)]
    BY <1>1, <1>2, <1>3 DEF Parted
  <2> QED BY <1>2, <1>4, <2>1
<1>5. CASE k # 1
  <2>1. nodes[q[k]].prev = q[k - 1]
    BY <1>1, <1>2, <1>3, <1>5 DEF Row
  <2> QED BY <1>2, <1>5, <2>1
<1> QED BY <1>4, <1>5

(* Pieces of a text. *)
Tokens == Strings \cup Marks

(* One token,                                                               *)
LEMMA PieceOfOne ==
  ASSUME NEW t, IsText(t), NEW i \in 1 .. Len(t)
  PROVE  <<t[i]>> = SubSeq(t, i, i)
<1>1. t \in Seq(Tokens)
  BY DEF IsText, Tokens
<1>2. SubSeq(t, i, i) = <<t[i]>> \o SubSeq(t, i + 1, i)
  BY <1>1, SubSeqRecursiveFirst
<1>3. SubSeq(t, i + 1, i) = <<>>
  BY SubSeqEmpty
<1>4. <<t[i]>> \in Seq(Tokens)
  BY <1>1
<1> QED BY <1>2, <1>3, <1>4, ConcatEmptySeq

(* two pieces that meet,                                                    *)
LEMMA PiecesJoin ==
  ASSUME NEW t, IsText(t), NEW a \in Nat, NEW b \in Nat, NEW c \in Nat, NEW d \in Nat,
         a # 0, b + 1 = c, a <= c, b <= d, d <= Len(t)
  PROVE  SubSeq(t, a, b) \o SubSeq(t, c, d) = SubSeq(t, a, d)
<1>1. t \in Seq(Tokens)
  BY DEF IsText, Tokens
<1>2. /\ a \in 1 .. Len(t) + 1 /\ b \in a - 1 .. Len(t) /\ d \in b .. Len(t)
  BY <1>1
<1>3. SubSeq(t, a, b) \o SubSeq(t, b + 1, d) = SubSeq(t, a, d)
  BY <1>1, <1>2, ConcatAdjacentSubSeq
<1> QED BY <1>3

(* no token,                                                                *)
LEMMA PieceOfNone ==
  ASSUME NEW t, NEW a \in Nat, NEW b \in Nat, a = b + 1
  PROVE  <<>> = SubSeq(t, a, b)
BY SubSeqEmpty

(* two tokens one behind the other,                                         *)
LEMMA TwoOfOne ==
  ASSUME NEW S, NEW x \in S, NEW y \in S
  PROVE  <<x>> \o <<y>> = <<x, y>>
<1>1. <<x>> \in Seq(S) /\ Len(<<x>>) = 1 /\ <<x>>[1] = x
  OBVIOUS
<1>2. <<y>> \in Seq(S) /\ Len(<<y>>) = 1 /\ <<y>>[1] = y
  OBVIOUS
<1>3. <<x, y>> \in Seq(S) /\ Len(<<x, y>>) = 2 /\ <<x, y>>[1] = x /\ <<x, y>>[2] = y
  OBVIOUS
<1>4. PICK u : u = <<x>>
  OBVIOUS
<1>5. PICK v : v = <<y>>
  OBVIOUS
<1>6. PICK z : z = u \o v
  OBVIOUS
<1>7. /\ z \in Seq(S) /\ Len(z) = Len(u) + Len(v)
      /\ \A i \in 1 .. Len(u) + Len(v) : z[i] = IF i <= Len(u) THEN u[i] ELSE v[i - Len(u)]
  BY <1>1, <1>2, <1>4, <1>5, <1>6, ConcatProperties
<1>8. Len(z) = 2 /\ z[1] = x /\ z[2] = y
  BY <1>1, <1>2, <1>4, <1>5, <1>7
<1>9. \A k \in 1 .. 2 : z[k] = <<x, y>>[k]
  BY <1>3, <1>8
<1>10. z = <<x, y>>
  BY <1>3, <1>7, <1>8, <1>9, SeqEqual
<1> QED BY <1>4, <1>5, <1>6, <1>10

(* and two tokens of the text.                                              *)
LEMMA PieceOfTwo ==
  ASSUME NEW t, IsText(t), NEW i \in 1 .. Len(t), NEW j \in 1 .. Len(t), j = i + 1
  PROVE  <<t[i], t[j]>> = SubSeq(t, i, j)
<1>1. <<t[i]>> = SubSeq(t, i, i) /\ <<t[j]>> = SubSeq(t, j, j)
  BY PieceOfOne
<1>2. SubSeq(t, i, i) \o SubSeq(t, j, j) = SubSeq(t, i, j)
  BY PiecesJoin, TextIs
<1>3. <<t[i]>> \o <<t[j]>> = <<t[i], t[j]>>
  <2>1. t[i] \in Tokens /\ t[j] \in Tokens
    BY TextIs DEF Tokens
  <2> QED BY <2>1, TwoOfOne
<1> QED BY <1>1, <1>2, <1>3

(* Sequences one behind the other, up to the i-th.                          *)
FlatOf(q, f) == [i \in 1 .. Len(q) |-> IF i = 1 THEN q[i] ELSE f[i - 1] \o q[i]]
FlatFrom(q) == CHOOSE f : f = FlatOf(q, f)

(* The sequences joined, place by place.                                    *)
LEMMA FlatByPlace ==
  ASSUME NEW q
  PROVE  FlattenSeq(q) = IF Len(q) = 0 THEN q ELSE FlatFrom(q)[Len(q)]
BY Zenon DEF FlattenSeq, FlatFrom, FlatOf

(* They are well defined. *)
LEMMA FlatIs ==
  ASSUME NEW q, NEW n \in Nat, Len(q) = n, n # 0
  PROVE  \E f : /\ FlattenSeq(q) = f[n] /\ f[1] = q[1]
                /\ \A i \in 2 .. n : f[i] = f[i - 1] \o q[i]
<1> DEFINE Is(f, m) == f = [i \in 1 .. m |-> IF i = 1 THEN q[i] ELSE f[i - 1] \o q[i]]
           P(m) == \E f : Is(f, m)
           T == {m \in 0 .. n : P(m)}
<1> HIDE DEF P
<1>1. 0 \in T
  <2>1. PICK g : g = [i \in 1 .. 0 |-> 0]
    OBVIOUS
  <2>2. Is(g, 0)
    <3>1. 1 .. 0 = {}
      OBVIOUS
    <3>2. g = [i \in {} |-> 0]
      BY <2>1, <3>1
    <3>3. g = [i \in {} |-> IF i = 1 THEN q[i] ELSE g[i - 1] \o q[i]]
      BY <3>2
    <3> QED BY <3>1, <3>3
  <2>3. P(0)
    BY <2>2 DEF P
  <2> QED BY <2>3
<1>2. \A m \in 1 .. n : m - 1 \in T => m \in T
  <2> SUFFICES ASSUME NEW m \in 1 .. n, P(m - 1) PROVE P(m)
    OBVIOUS
  <2>1. PICK f : Is(f, m - 1)
    BY DEF P
  <2>2. PICK g : g = [i \in 1 .. m |-> IF i = 1 THEN q[i] ELSE f[i - 1] \o q[i]]
    OBVIOUS
  <2>3. ASSUME NEW i \in 1 .. m - 1 PROVE g[i] = f[i]
    <3>1. i \in 1 .. m
      OBVIOUS
    <3>2. f[i] = IF i = 1 THEN q[i] ELSE f[i - 1] \o q[i]
      BY <2>1
    <3> QED BY <2>2, <3>1, <3>2
  <2>4. ASSUME NEW i \in 1 .. m PROVE g[i] = IF i = 1 THEN q[i] ELSE g[i - 1] \o q[i]
    <3>1. i # 1 => i - 1 \in 1 .. m - 1
      OBVIOUS
    <3> QED BY <2>2, <2>3, <3>1
  <2>5. Is(g, m)
    <3>1. g = [i \in 1 .. m |-> g[i]]
      BY <2>2
    <3> QED BY <2>4, <3>1
  <2> QED BY <2>5 DEF P
<1> HIDE DEF T
<1>3. 0 .. n \subseteq T
  BY <1>1, <1>2, UpTo
<1>4. P(n)
  BY <1>3 DEF T
<1>5. PICK f : Is(f, n)
  BY <1>4 DEF P
<1>7. f = FlatOf(q, f)
  BY <1>5 DEF FlatOf
<1>8. PICK g : g = FlatFrom(q)
  OBVIOUS
<1>9. g = FlatOf(q, g)
  BY <1>7, <1>8 DEF FlatFrom
<1>10. \A i \in 1 .. n : g[i] = IF i = 1 THEN q[i] ELSE g[i - 1] \o q[i]
  BY <1>9 DEF FlatOf
<1>11. FlattenSeq(q) = g[n]
  BY <1>8, FlatByPlace
<1>12. g[1] = q[1]
  <2>1. 1 \in 1 .. n
    OBVIOUS
  <2> QED BY <1>10, <2>1
<1>13. \A i \in 2 .. n : g[i] = g[i - 1] \o q[i]
  <2>1. \A i \in 2 .. n : i \in 1 .. n /\ i # 1
    OBVIOUS
  <2> QED BY <1>10, <2>1
<1> QED BY <1>11, <1>12, <1>13

(* What is printed of an item, and of all items with one list more open.    *)
AtomOf(k) == IF nodes[k].type = "string" THEN <<StringAt(k)>> ELSE <<nodes[k].type>>
PartsOf(k, inner) ==
  [c \in DOMAIN Children(k) |->
     (IF c = 1 THEN <<>> ELSE <<",">>)
     \o (IF nodes[k].type = "[" THEN <<>> ELSE <<strings[nodes[Children(k)[c]].string], ":">>)
     \o inner[Children(k)[c]]]
ListOf(k, inner) == <<nodes[k].type>> \o FlattenSeq(PartsOf(k, inner)) \o <<ClosingOf(nodes[k].type)>>
PrintOf(f) ==
  [d \in 0 .. NestingLimit |->
     [k \in DOMAIN nodes |->
        IF nodes[k].type \notin Opening THEN AtomOf(k)
        ELSE IF d = 0 THEN <<>> ELSE ListOf(k, f[d - 1])]]
PrintFrom == CHOOSE f : f = PrintOf(f)

(* What is printed, list by list from inside.                               *)
LEMMA PrintedByPlace ==
  ASSUME NEW n
  PROVE  Printed(n) = PrintFrom[NestingLimit][n]
BY Zenon DEF Printed, PrintFrom, PrintOf, AtomOf, ListOf, PartsOf

(* It is well defined for every item.                                       *)
LEMMA PrintIs ==
  ASSUME NEW N, N = NestingLimit
  PROVE  \E f : /\ \A n : Printed(n) = f[N][n]
                /\ \A d \in 0 .. N : \A k \in DOMAIN nodes :
                     /\ nodes[k].type \notin Opening => f[d][k] = AtomOf(k)
                     /\ nodes[k].type \in Opening /\ d # 0 => f[d][k] = ListOf(k, f[d - 1])
<1> DEFINE Row1(d, x) == [k \in DOMAIN nodes |->
                            IF nodes[k].type \notin Opening THEN AtomOf(k)
                            ELSE IF d = 0 THEN <<>> ELSE ListOf(k, x)]
           Is(f, m) == f = [d \in 0 .. m |-> Row1(d, f[d - 1])]
           P(m) == \E f : Is(f, m)
           T == {m \in 0 .. NestingLimit : P(m)}
<1> HIDE DEF P, Row1
<1>0. NestingLimit \in Nat
  BY FormAssumption
<1>a. \A x, y : Row1(0, x) = Row1(0, y)
  BY DEF Row1
<1>1. 0 \in T
  <2>1. PICK g : g = [i \in 0 .. 0 |-> Row1(0, 0)]
    OBVIOUS
  <2>2. Is(g, 0)
    <3>1. \A d \in 0 .. 0 : g[d] = Row1(d, g[d - 1])
      BY <1>a, <2>1
    <3>2. g = [d \in 0 .. 0 |-> g[d]]
      BY <2>1
    <3> QED BY <3>1, <3>2
  <2>3. P(0)
    BY <2>2 DEF P
  <2> QED BY <1>0, <2>3
<1>2. \A m \in 1 .. NestingLimit : m - 1 \in T => m \in T
  <2> SUFFICES ASSUME NEW m \in 1 .. NestingLimit, P(m - 1) PROVE P(m)
    BY <1>0
  <2>1. PICK f : Is(f, m - 1)
    BY DEF P
  <2>2. PICK g : g = [d \in 0 .. m |-> Row1(d, f[d - 1])]
    OBVIOUS
  <2>3. ASSUME NEW d \in 0 .. m - 1 PROVE g[d] = f[d]
    <3>1. d \in 0 .. m
      OBVIOUS
    <3>2. f[d] = Row1(d, f[d - 1])
      BY <2>1
    <3> QED BY <2>2, <3>1, <3>2
  <2>4. ASSUME NEW d \in 0 .. m PROVE g[d] = Row1(d, g[d - 1])
    <3>1. CASE d = 0
      BY <1>a, <2>2, <3>1
    <3>2. CASE d # 0
      <4>1. d - 1 \in 0 .. m - 1
        BY <3>2
      <4>2. g[d - 1] = f[d - 1]
        BY <2>3, <4>1
      <4> QED BY <2>2, <4>2
    <3> QED BY <3>1, <3>2
  <2>5. Is(g, m)
    <3>1. g = [d \in 0 .. m |-> g[d]]
      BY <2>2
    <3> QED BY <2>4, <3>1
  <2> QED BY <2>5 DEF P
<1> HIDE DEF T
<1>3. 0 .. NestingLimit \subseteq T
  BY <1>0, <1>1, <1>2, UpTo
<1>4. P(NestingLimit)
  BY <1>0, <1>3 DEF T
<1>5. PICK f : Is(f, NestingLimit)
  BY <1>4 DEF P
<1>7. f = PrintOf(f)
  BY <1>5 DEF PrintOf, Row1
<1>8. PICK g : g = PrintFrom
  OBVIOUS
<1>9. g = PrintOf(g)
  BY <1>7, <1>8 DEF PrintFrom
<1>10. \A n : Printed(n) = g[NestingLimit][n]
  BY <1>8, PrintedByPlace
<1>11. ASSUME NEW d \in 0 .. NestingLimit, NEW k \in DOMAIN nodes
       PROVE  /\ nodes[k].type \notin Opening => g[d][k] = AtomOf(k)
              /\ nodes[k].type \in Opening /\ d # 0 => g[d][k] = ListOf(k, g[d - 1])
  <2>1. ASSUME NEW e
        PROVE  PrintOf(e)[d][k] = IF nodes[k].type \notin Opening THEN AtomOf(k)
                                  ELSE IF d = 0 THEN <<>> ELSE ListOf(k, e[d - 1])
    BY DEF PrintOf
  <2>2. g[d][k] = PrintOf(g)[d][k]
    BY <1>9
  <2> QED BY <2>1, <2>2
<1> QED BY <1>10, <1>11

(* The kind of a list and where its items stand. *)
LEMMA ListItems ==
  ASSUME FormInv, NEW kids, NEW from, NEW to, NEW lev, Tree(kids, from, to, lev), pc \in {"parsed", "items"},
         NEW n \in DOMAIN nodes, nodes[n].type \in Opening
  PROVE  /\ text[from[n]] = nodes[n].type /\ text[to[n]] = ClosingOf(nodes[n].type)
         /\ to[n] = After(kids, from, to, n)
         /\ lev[n] < NestingLimit
         /\ \A i \in 1 .. Len(kids[n]) :
              /\ kids[n][i] \in DOMAIN nodes /\ lev[kids[n][i]] = lev[n] + 1
              /\ from[kids[n][i]] = Before(kids, from, to, n, i) + Width(nodes[n].type)
              /\ i # 1 => text[Before(kids, from, to, n, i)] = Comma
              /\ nodes[n].type # "[" => /\ HasName(nodes, strings, text, from, kids[n][i])
                                        /\ text[from[kids[n][i]] - 1] = ":"
<1>1. Complete(nodes, strings, text, kids, from, to, lev, n) /\ lev[n] \in 0 .. NestingLimit
  BY ItemsAre
<1>2. /\ text[from[n]] = nodes[n].type /\ text[to[n]] = ClosingOf(nodes[n].type)
      /\ to[n] = After(kids, from, to, n)
  BY <1>1 DEF Complete, HoldsList
<1>3. lev[n] < NestingLimit
  <2>1. IsText(text) /\ IsValues(text, ValuesFrom(text)) /\ NestingLimit \in Nat
    BY TextOfForm
  <2>2. PICK d \in 0 .. NestingLimit : d = NestingLimit - lev[n]
    BY <1>1, <2>1
  <2>3. text[from[n]] \notin Atoms
    BY <1>2, TokensDiffer
  <2>4. d # 0
    BY <1>1, <2>1, <2>2, <2>3, ValueIs DEF Complete
  <2> QED BY <1>1, <2>1, <2>2, <2>4
<1>4. ASSUME NEW i \in 1 .. Len(kids[n]), NEW x, x = kids[n][i]
      PROVE  /\ x \in DOMAIN nodes /\ lev[x] = lev[n] + 1
             /\ from[x] = Before(kids, from, to, n, i) + Width(nodes[n].type)
             /\ i # 1 => text[Before(kids, from, to, n, i)] = Comma
             /\ nodes[n].type # "[" => HasName(nodes, strings, text, from, x) /\ text[from[x] - 1] = ":"
  <2>1. Apart(DOMAIN nodes, root, kids)
    BY DEF Tree
  <2>2. Placed(text, kids, from, to, lev, n)
    BY DEF Tree
  <2>3. Named(nodes, strings, text, pc, LastItem(root, stack), kids, from, n)
    BY DEF Tree
  <2>4. x \in DOMAIN nodes
    BY <1>4, <2>1 DEF Apart
  <2>5. /\ lev[x] = lev[n] + 1 /\ from[x] = Before(kids, from, to, n, i) + Width(nodes[n].type)
        /\ i # 1 => text[Before(kids, from, to, n, i)] = Comma
    BY <1>2, <1>4, <2>2 DEF Placed
  <2>6. nodes[n].type # "[" => HasName(nodes, strings, text, from, x) /\ text[from[x] - 1] = ":"
    BY <1>2, <1>4, <2>3 DEF Named
  <2> QED BY <2>4, <2>5, <2>6
<1> QED BY <1>2, <1>3, <1>4

(* Where what is printed of the i-th item begins: at the comma before it. *)
Begins(kids, from, to, n, i) == IF i = 1 THEN from[n] + 1 ELSE to[kids[n][i - 1]] + 1

(* What is printed of an item with its comma and its name is a piece of the *)
(* text.                                                                    *)
LEMMA PartIs ==
  ASSUME FormInv, NEW kids, NEW from, NEW to, NEW lev, Tree(kids, from, to, lev), pc \in {"parsed", "items"},
         NEW n \in DOMAIN nodes, nodes[n].type \in Opening, NEW i \in 1 .. Len(kids[n]), NEW x, x = kids[n][i],
         NEW inner, inner[x] = SubSeq(text, from[x], to[x]), NEW a, a = Begins(kids, from, to, n, i)
  PROVE  /\ PartsOf(n, inner)[i] = SubSeq(text, a, to[x])
         /\ a \in Nat /\ a # 0 /\ a <= to[x] /\ to[x] \in Nat /\ to[x] <= Len(text)
<1>1. IsText(text) /\ Len(text) \in Nat
  BY TextOfForm
<1>2. PICK q : q = kids[n] /\ q = Children(n) /\ q \in Seq(Nat)
  BY ItemsAre
<1>3. /\ x \in DOMAIN nodes
      /\ from[x] = Before(kids, from, to, n, i) + Width(nodes[n].type)
      /\ i # 1 => text[Before(kids, from, to, n, i)] = Comma
      /\ nodes[n].type # "[" => HasName(nodes, strings, text, from, x) /\ text[from[x] - 1] = ":"
  BY ListItems
<1>4. from[x] \in 1 .. Len(text) /\ to[x] \in 1 .. Len(text) /\ from[x] <= to[x]
  BY <1>3, ItemsAre
<1>5. PICK b : b = Before(kids, from, to, n, i)
  OBVIOUS
<1>6. b \in 1 .. Len(text)
  <2>1. CASE i = 1
    <3>1. from[n] \in 1 .. Len(text)
      BY ItemsAre
    <3> QED BY <1>5, <2>1, <3>1 DEF Before
  <2>2. CASE i # 1
    <3>1. PICK h \in 1 .. Len(q) : h = i - 1
      BY <1>2, <2>2
    <3>2. q[h] \in DOMAIN nodes
      BY <1>2, ListItems
    <3>3. to[q[h]] \in 1 .. Len(text)
      BY <3>2, ItemsAre
    <3>4. b = to[q[h]] + 1
      BY <1>2, <1>5, <2>2, <3>1 DEF Before
    <3>5. b <= from[x] /\ from[x] <= Len(text)
      BY <1>3, <1>4, <1>5, <3>3, <3>4 DEF Width
    <3> QED BY <1>1, <1>4, <3>3, <3>4, <3>5
  <2> QED BY <2>1, <2>2
<1>7. PICK sep : sep = IF i = 1 THEN <<>> ELSE <<Comma>>
  OBVIOUS
<1>8. PICK name : name = IF nodes[n].type = "[" THEN <<>> ELSE <<strings[nodes[x].string], ":">>
  OBVIOUS
<1>9. PartsOf(n, inner)[i] = (sep \o name) \o inner[x]
  <2>1. i \in DOMAIN Children(n) /\ Children(n)[i] = x
    BY <1>2
  <2>2. PartsOf(n, inner)[i] =
          (IF i = 1 THEN <<>> ELSE <<Comma>>)
          \o (IF nodes[n].type = "[" THEN <<>> ELSE <<strings[nodes[x].string], ":">>)
          \o inner[x]
    BY <2>1, Zenon DEF PartsOf, Comma
  <2> QED BY <1>7, <1>8, <2>2
<1>10. a \in Nat /\ a # 0 /\ a <= b + 1 /\ b <= a
  <2>1. i = 1 => a = b + 1
    BY <1>5 DEF Before, Begins
  <2>2. i # 1 => a = b
    BY <1>5 DEF Before, Begins
  <2> QED BY <1>6, <2>1, <2>2
<1>11. sep = SubSeq(text, a, b)
  <2>1. CASE i = 1
    <3>1. a = b + 1
      BY <1>5, <2>1 DEF Before, Begins
    <3> QED BY <1>6, <1>7, <1>10, <2>1, <3>1, PieceOfNone
  <2>2. CASE i # 1
    <3>1. a = b /\ text[b] = Comma
      BY <1>3, <1>5, <2>2 DEF Before, Begins
    <3>2. <<text[b]>> = SubSeq(text, b, b)
      BY <1>1, <1>6, PieceOfOne
    <3> QED BY <1>7, <2>2, <3>1, <3>2
  <2> QED BY <2>1, <2>2
<1>12. PICK c \in Nat : c + 1 = from[x] /\ b <= c /\ c <= Len(text) /\ name = SubSeq(text, b + 1, c)
  <2>1. CASE nodes[n].type = "["
    <3>1. from[x] = b + 1
      BY <1>3, <1>5, <2>1 DEF Width
    <3>2. name = SubSeq(text, b + 1, b)
      BY <1>6, <1>8, <2>1, PieceOfNone
    <3> QED BY <1>6, <3>1, <3>2
  <2>2. CASE nodes[n].type # "["
    <3>1. from[x] = b + 3
      BY <1>3, <1>5, <2>2 DEF Width
    <3>2. PICK i1 \in 1 .. Len(text), i2 \in 1 .. Len(text) :
            i1 = b + 1 /\ i2 = i1 + 1 /\ i2 = b + 2 /\ i1 = from[x] - 2 /\ i2 = from[x] - 1
      BY <1>1, <1>4, <1>6, <3>1
    <3>3. strings[nodes[x].string] = text[i1] /\ text[i2] = ":"
      BY <1>3, <2>2, <3>2 DEF HasName
    <3>4. <<text[i1], text[i2]>> = SubSeq(text, i1, i2)
      BY <1>1, <3>2, PieceOfTwo
    <3>5. name = SubSeq(text, i1, i2)
      BY <1>8, <2>2, <3>3, <3>4
    <3>6. i2 + 1 = from[x] /\ b <= i2 /\ i2 <= Len(text) /\ i2 \in Nat
      BY <1>6, <3>1, <3>2
    <3> QED BY <3>2, <3>5, <3>6
  <2> QED BY <2>1, <2>2
<1>13. sep \o name = SubSeq(text, a, c)
  <2>1. PICK b1 \in Nat : b1 = b + 1
    BY <1>6
  <2>2. /\ IsText(text) /\ a \in Nat /\ b \in Nat /\ b1 \in Nat /\ c \in Nat
        /\ a # 0 /\ b + 1 = b1 /\ a <= b1 /\ b <= c /\ c <= Len(text)
    BY <1>1, <1>6, <1>10, <1>12, <2>1
  <2>3. SubSeq(text, a, b) \o SubSeq(text, b1, c) = SubSeq(text, a, c)
    BY ONLY <2>2, PiecesJoin
  <2> QED BY <1>11, <1>12, <2>1, <2>3
<1>14. SubSeq(text, a, c) \o SubSeq(text, from[x], to[x]) = SubSeq(text, a, to[x])
  <2>1. from[x] \in Nat /\ to[x] \in Nat /\ a <= from[x] /\ c <= to[x] /\ to[x] <= Len(text)
    <3>1. from[x] \in Nat /\ to[x] \in Nat /\ to[x] <= Len(text) /\ from[x] <= to[x]
      BY <1>1, <1>4
    <3>2. a <= c + 1
      BY <1>6, <1>10, <1>12
    <3> QED BY <1>10, <1>12, <3>1, <3>2
  <2>2. PICK e \in Nat : e = from[x]
    BY <2>1
  <2>3. PICK f \in Nat : f = to[x]
    BY <2>1
  <2>4. /\ IsText(text) /\ a \in Nat /\ c \in Nat /\ e \in Nat /\ f \in Nat
        /\ a # 0 /\ c + 1 = e /\ a <= e /\ c <= f /\ f <= Len(text)
    BY <1>1, <1>10, <1>12, <2>1, <2>2, <2>3
  <2>5. SubSeq(text, a, c) \o SubSeq(text, e, f) = SubSeq(text, a, f)
    BY ONLY <2>4, PiecesJoin
  <2> QED BY <2>2, <2>3, <2>5
<1>15. a <= to[x] /\ to[x] \in Nat /\ to[x] <= Len(text)
  <2>1. a <= c + 1
    BY <1>6, <1>10, <1>12
  <2> QED BY <1>1, <1>4, <1>10, <1>12, <2>1
<1> QED BY <1>9, <1>10, <1>13, <1>14, <1>15

(* The parts together are what stands between the brackets. *)
LEMMA PartsJoin ==
  ASSUME FormInv, NEW kids, NEW from, NEW to, NEW lev, Tree(kids, from, to, lev), pc \in {"parsed", "items"},
         NEW n \in DOMAIN nodes, nodes[n].type \in Opening,
         NEW inner, \A i \in 1 .. Len(kids[n]) : inner[kids[n][i]] = SubSeq(text, from[kids[n][i]], to[kids[n][i]])
  PROVE  /\ FlattenSeq(PartsOf(n, inner)) = SubSeq(text, from[n] + 1, to[n] - 1)
         /\ from[n] < to[n]
<1>1. IsText(text) /\ Len(text) \in Nat
  BY TextOfForm
<1>2. PICK q : q = kids[n] /\ q = Children(n) /\ q \in Seq(Nat)
  BY ItemsAre
<1>3. PICK L \in Nat : L = Len(q)
  BY <1>2
<1>4. from[n] \in 1 .. Len(text) /\ to[n] \in 1 .. Len(text)
  BY ItemsAre
<1>5. to[n] = After(kids, from, to, n)
  BY ListItems
<1>6. PICK p : p = PartsOf(n, inner)
  OBVIOUS
<1>7. DOMAIN p = 1 .. L
  <2>1. DOMAIN Children(n) = 1 .. L
    BY <1>2, <1>3
  <2>2. DOMAIN PartsOf(n, inner) = DOMAIN Children(n)
    BY DEF PartsOf
  <2> QED BY <1>6, <2>1, <2>2
<1>8. \A i \in 1 .. L :
        LET a == Begins(kids, from, to, n, i)
        IN  /\ p[i] = SubSeq(text, a, to[q[i]])
            /\ a \in Nat /\ a # 0 /\ a <= to[q[i]] /\ to[q[i]] \in Nat /\ to[q[i]] <= Len(text)
  <2> SUFFICES ASSUME NEW i \in 1 .. L, NEW a, a = Begins(kids, from, to, n, i), NEW x, x = q[i]
               PROVE  /\ p[i] = SubSeq(text, a, to[x])
                      /\ a \in Nat /\ a # 0 /\ a <= to[x] /\ to[x] \in Nat /\ to[x] <= Len(text)
    OBVIOUS
  <2>1. i \in 1 .. Len(kids[n]) /\ x = kids[n][i]
    BY <1>2, <1>3
  <2>2. inner[x] = SubSeq(text, from[x], to[x])
    BY <2>1
  <2>3. PICK j \in 1 .. Len(kids[n]) : j = i /\ x = kids[n][j] /\ a = Begins(kids, from, to, n, j)
    BY <2>1
  <2>4. /\ PartsOf(n, inner)[j] = SubSeq(text, a, to[x])
        /\ a \in Nat /\ a # 0 /\ a <= to[x] /\ to[x] \in Nat /\ to[x] <= Len(text)
    <3>1. /\ FormInv /\ Tree(kids, from, to, lev) /\ pc \in {"parsed", "items"}
          /\ n \in DOMAIN nodes /\ nodes[n].type \in Opening /\ j \in 1 .. Len(kids[n]) /\ x = kids[n][j]
          /\ inner[x] = SubSeq(text, from[x], to[x]) /\ a = Begins(kids, from, to, n, j)
      BY <2>2, <2>3
    <3> QED BY ONLY <3>1, PartIs
  <2> QED BY <1>6, <2>3, <2>4
<1>9. Len(p) = L
  <2>1. p = [c \in 1 .. L |-> p[c]]
    BY <1>6, <1>7 DEF PartsOf
  <2> QED BY <1>7, <2>1
<1>10. CASE L = 0
  <2>1. q = <<>>
    BY <1>2, <1>3, <1>10, EmptySeq
  <2>2. to[n] = from[n] + 1
    BY <1>2, <1>5, <2>1 DEF After
  <2>3. p = <<>>
    <3>1. p \in Seq(Nat)
      <4>1. p = [c \in 1 .. 0 |-> 0]
        <5>1. p = [c \in 1 .. L |-> p[c]]
          BY <1>6, <1>7 DEF PartsOf
        <5>2. 1 .. L = {} /\ 1 .. 0 = {}
          BY <1>10
        <5> QED BY <5>1, <5>2
      <4>2. [c \in 1 .. 0 |-> 0] \in Seq(Nat)
        OBVIOUS
      <4> QED BY <4>1, <4>2
    <3> QED BY <1>9, <1>10, <3>1, EmptySeq
  <2>4. FlattenSeq(p) = <<>>
    BY <1>9, <1>10, <2>3 DEF FlattenSeq
  <2>5. PICK z \in Nat : z = from[n] + 1 /\ to[n] - 1 = from[n] /\ from[n] \in Nat
    BY <1>4, <2>2
  <2>6. <<>> = SubSeq(text, z, from[n])
    BY <2>5, PieceOfNone
  <2> QED BY <1>4, <1>6, <2>2, <2>4, <2>5, <2>6
<1>11. CASE L # 0
  <2>1. PICK f : /\ FlattenSeq(p) = f[L] /\ f[1] = p[1]
                 /\ \A i \in 2 .. L : f[i] = f[i - 1] \o p[i]
    BY <1>9, <1>11, FlatIs
  <2>2. PICK z \in Nat : z = from[n] + 1 /\ z # 0
    BY <1>4
  <2> DEFINE P(i) == f[i] = SubSeq(text, z, to[q[i]]) /\ z <= to[q[i]]
             T == {i \in 0 .. L : i # 0 => P(i)}
  <2> HIDE DEF P
  <2>3. 0 \in T
    OBVIOUS
  <2>4. \A i \in 1 .. L : i - 1 \in T => i \in T
    <3> SUFFICES ASSUME NEW i \in 1 .. L, i # 1 => P(i - 1) PROVE P(i)
      OBVIOUS
    <3>1. PICK a : a = Begins(kids, from, to, n, i)
      OBVIOUS
    <3>2. /\ p[i] = SubSeq(text, a, to[q[i]])
          /\ a \in Nat /\ a # 0 /\ a <= to[q[i]] /\ to[q[i]] \in Nat /\ to[q[i]] <= Len(text)
      BY <1>8, <3>1
    <3>3. CASE i = 1
      <4>1. a = z
        BY <2>2, <3>1, <3>3 DEF Begins
      <4> QED BY <2>1, <3>2, <3>3, <4>1 DEF P
    <3>4. CASE i # 1
      <4>1. PICK h \in 1 .. L : h = i - 1 /\ i \in 2 .. L
        BY <3>4
      <4>2. f[h] = SubSeq(text, z, to[q[h]]) /\ z <= to[q[h]]
        BY <3>4, <4>1 DEF P
      <4>3. to[q[h]] \in Nat
        BY <1>8
      <4>4. a = to[q[h]] + 1
        BY <1>2, <3>1, <3>4, <4>1 DEF Begins
      <4>5. PICK b \in Nat : b = to[q[h]]
        BY <4>3
      <4>6. PICK d \in Nat : d = to[q[i]]
        BY <3>2
      <4>7. /\ IsText(text) /\ z \in Nat /\ b \in Nat /\ a \in Nat /\ d \in Nat
            /\ z # 0 /\ b + 1 = a /\ z <= a /\ b <= d /\ d <= Len(text)
        <5>1. z <= b /\ a = b + 1 /\ a <= d
          BY <3>2, <4>2, <4>4, <4>5, <4>6
        <5>2. z <= a /\ b <= d
          BY <3>2, <5>1
        <5> QED BY <1>1, <2>2, <3>2, <4>6, <5>1, <5>2
      <4>8. SubSeq(text, z, b) \o SubSeq(text, a, d) = SubSeq(text, z, d)
        BY ONLY <4>7, PiecesJoin
      <4>9. f[i] = f[h] \o p[i]
        BY <2>1, <4>1
      <4>10. f[i] = SubSeq(text, z, d)
        BY <3>2, <4>2, <4>5, <4>6, <4>8, <4>9
      <4>11. z <= d
        BY <4>2, <4>5, <4>7
      <4> QED BY <4>6, <4>10, <4>11 DEF P
    <3> QED BY <3>3, <3>4
  <2> HIDE DEF T
  <2>5. 0 .. L \subseteq T
    BY <2>3, <2>4, UpTo
  <2>6. P(L)
    BY <1>11, <2>5 DEF T
  <2>7. f[L] = SubSeq(text, z, to[q[L]]) /\ z <= to[q[L]] /\ to[q[L]] \in Nat
    BY <1>8, <1>11, <2>6 DEF P
  <2>8. to[n] = to[q[L]] + 1
    <3>1. q # <<>>
      BY <1>3, <1>11
    <3> QED BY <1>2, <1>3, <1>5, <3>1 DEF After
  <2>9. to[n] - 1 = to[q[L]] /\ from[n] < to[n]
    <3>1. PICK u \in Nat, v \in Nat, w \in Nat : u = to[q[L]] /\ v = to[n] /\ w = from[n]
      BY <1>4, <2>7
    <3>2. z = w + 1 /\ z <= u /\ v = u + 1
      BY <2>2, <2>7, <2>8, <3>1
    <3>3. v - 1 = u /\ w < v
      BY <3>2
    <3> QED BY <3>1, <3>3
  <2> QED BY <1>6, <2>1, <2>2, <2>7, <2>9
<1> QED BY <1>10, <1>11

(* An item prints to the tokens it was made from. *)
LEMMA AtomPrints ==
  ASSUME FormInv, NEW kids, NEW from, NEW to, NEW lev, Tree(kids, from, to, lev), pc \in {"parsed", "items"},
         NEW n \in DOMAIN nodes, nodes[n].type \notin Opening
  PROVE  AtomOf(n) = SubSeq(text, from[n], to[n])
<1>1. /\ Complete(nodes, strings, text, kids, from, to, lev, n) /\ from[n] \in 1 .. Len(text)
  BY ItemsAre
<1>2. HoldsAtom(nodes, strings, text, kids, from, to, n)
  BY <1>1 DEF Complete
<1>3. to[n] = from[n] /\ AtomOf(n) = <<text[from[n]]>>
  BY <1>2 DEF HoldsAtom, AtomOf, StringAt
<1>4. <<text[from[n]]>> = SubSeq(text, from[n], from[n])
  BY <1>1, PieceOfOne, TextOfForm
<1> QED BY <1>3, <1>4

(* A list prints to the tokens it was made from if its items do,            *)
LEMMA ListPrints ==
  ASSUME FormInv, NEW kids, NEW from, NEW to, NEW lev, Tree(kids, from, to, lev), pc \in {"parsed", "items"},
         NEW n \in DOMAIN nodes, nodes[n].type \in Opening,
         NEW inner, \A i \in 1 .. Len(kids[n]) : inner[kids[n][i]] = SubSeq(text, from[kids[n][i]], to[kids[n][i]])
  PROVE  ListOf(n, inner) = SubSeq(text, from[n], to[n])
<1>1. IsText(text) /\ Len(text) \in Nat
  BY TextOfForm
<1>2. from[n] \in 1 .. Len(text) /\ to[n] \in 1 .. Len(text)
  BY ItemsAre
<1>3. PICK a \in 1 .. Len(text), z \in 1 .. Len(text) : a = from[n] /\ z = to[n]
  BY <1>2
<1>4. text[a] = nodes[n].type /\ text[z] = ClosingOf(nodes[n].type)
  BY <1>3, ListItems
<1>5. FlattenSeq(PartsOf(n, inner)) = SubSeq(text, from[n] + 1, to[n] - 1) /\ from[n] < to[n]
  <2>1. /\ FormInv /\ Tree(kids, from, to, lev) /\ pc \in {"parsed", "items"}
        /\ n \in DOMAIN nodes /\ nodes[n].type \in Opening
        /\ \A i \in 1 .. Len(kids[n]) : inner[kids[n][i]] = SubSeq(text, from[kids[n][i]], to[kids[n][i]])
    OBVIOUS
  <2> QED BY ONLY <2>1, PartsJoin
<1>6. PICK b \in Nat, y \in Nat : b = a + 1 /\ y = z - 1 /\ y + 1 = z /\ b <= z /\ a <= y /\ a \in Nat /\ z \in Nat
  <2>1. a \in Nat /\ z \in Nat /\ a < z
    BY <1>3, <1>5
  <2>2. a + 1 \in Nat /\ z - 1 \in Nat /\ (z - 1) + 1 = z /\ a + 1 <= z /\ a <= z - 1
    BY <2>1
  <2> QED BY <2>1, <2>2
<1>7. FlattenSeq(PartsOf(n, inner)) = SubSeq(text, b, y)
  BY <1>3, <1>5, <1>6
<1>8. <<text[a]>> = SubSeq(text, a, a) /\ <<text[z]>> = SubSeq(text, z, z)
  BY <1>1, PieceOfOne
<1>9. /\ IsText(text) /\ a \in Nat /\ b \in Nat /\ y \in Nat /\ z \in Nat
      /\ a # 0 /\ a + 1 = b /\ a <= b /\ a <= y /\ y <= Len(text) /\ y + 1 = z /\ a <= z /\ y <= z /\ z <= Len(text)
  BY <1>1, <1>6
<1>10. SubSeq(text, a, a) \o SubSeq(text, b, y) = SubSeq(text, a, y)
  BY ONLY <1>9, PiecesJoin
<1>11. SubSeq(text, a, y) \o SubSeq(text, z, z) = SubSeq(text, a, z)
  BY ONLY <1>9, PiecesJoin
<1>12. ListOf(n, inner) = (<<text[a]>> \o SubSeq(text, b, y)) \o <<text[z]>>
  BY <1>4, <1>7 DEF ListOf
<1> QED BY <1>3, <1>8, <1>10, <1>11, <1>12

(* and so every item of the tree does.                                      *)
LEMMA TreePrints ==
  ASSUME FormInv, NEW kids, NEW from, NEW to, NEW lev, Tree(kids, from, to, lev), pc \in {"parsed", "items"},
         NEW n \in DOMAIN nodes
  PROVE  Printed(n) = SubSeq(text, from[n], to[n])
<1>0. NestingLimit \in Nat
  BY TextOfForm
<1>1. PICK f : /\ \A k : Printed(k) = f[NestingLimit][k]
               /\ \A d \in 0 .. NestingLimit : \A k \in DOMAIN nodes :
                    /\ nodes[k].type \notin Opening => f[d][k] = AtomOf(k)
                    /\ nodes[k].type \in Opening /\ d # 0 => f[d][k] = ListOf(k, f[d - 1])
  BY PrintIs
<1> DEFINE P(d) == \A k \in DOMAIN nodes : lev[k] + d >= NestingLimit => f[d][k] = SubSeq(text, from[k], to[k])
           T == {d \in 0 .. NestingLimit : P(d)}
<1> HIDE DEF P
<1>2. ASSUME NEW d \in 0 .. NestingLimit, NEW k \in DOMAIN nodes, nodes[k].type \notin Opening
      PROVE  f[d][k] = SubSeq(text, from[k], to[k])
  <2>1. f[d][k] = AtomOf(k)
    BY <1>1, <1>2
  <2>2. AtomOf(k) = SubSeq(text, from[k], to[k])
    BY <1>2, AtomPrints
  <2> QED BY <2>1, <2>2
<1>3. 0 \in T
  <2>1. P(0)
    <3> SUFFICES ASSUME NEW k \in DOMAIN nodes, lev[k] + 0 >= NestingLimit
                 PROVE  f[0][k] = SubSeq(text, from[k], to[k])
      BY DEF P
    <3>1. lev[k] \in 0 .. NestingLimit
      BY ItemsAre
    <3>2. nodes[k].type \notin Opening
      <4> SUFFICES ASSUME nodes[k].type \in Opening PROVE FALSE
        OBVIOUS
      <4>1. lev[k] < NestingLimit
        BY ListItems
      <4> QED BY <1>0, <3>1, <4>1
    <3> QED BY <1>0, <1>2, <3>2
  <2> QED BY <1>0, <2>1
<1>4. \A d \in 1 .. NestingLimit : d - 1 \in T => d \in T
  <2> SUFFICES ASSUME NEW d \in 1 .. NestingLimit, P(d - 1) PROVE P(d)
    BY <1>0
  <2> SUFFICES ASSUME NEW k \in DOMAIN nodes, lev[k] + d >= NestingLimit
               PROVE  f[d][k] = SubSeq(text, from[k], to[k])
    BY DEF P
  <2>1. CASE nodes[k].type \notin Opening
    BY <1>2, <2>1
  <2>2. CASE nodes[k].type \in Opening
    <3>1. PICK inner : inner = f[d - 1]
      OBVIOUS
    <3>2. ASSUME NEW i \in 1 .. Len(kids[k]), NEW x, x = kids[k][i]
          PROVE  inner[x] = SubSeq(text, from[x], to[x])
      <4>1. x \in DOMAIN nodes /\ lev[x] = lev[k] + 1
        BY <2>2, <3>2, ListItems
      <4>2. lev[k] \in 0 .. NestingLimit
        BY ItemsAre
      <4>3. lev[x] + (d - 1) >= NestingLimit
        BY <1>0, <4>1, <4>2
      <4> QED BY <3>1, <4>1, <4>3 DEF P
    <3>3. ListOf(k, inner) = SubSeq(text, from[k], to[k])
      BY <2>2, <3>2, ListPrints
    <3>4. f[d][k] = ListOf(k, inner)
      BY <1>1, <2>2, <3>1
    <3> QED BY <3>3, <3>4
  <2> QED BY <2>1, <2>2
<1> HIDE DEF T
<1>5. 0 .. NestingLimit \subseteq T
  BY <1>0, <1>3, <1>4, UpTo
<1>6. P(NestingLimit)
  BY <1>0, <1>5 DEF T
<1>7. lev[n] + NestingLimit >= NestingLimit
  <2>1. lev[n] \in 0 .. NestingLimit
    BY ItemsAre
  <2> QED BY <1>0, <2>1
<1> QED BY <1>1, <1>6, <1>7 DEF P

(* The invariant and what it says of a parsed text.                         *)
LEMMA InvParsesJson == TreeFormInv => ParsesJson
<1> SUFFICES ASSUME FormInv, TreeInv, ReadInv, pc = "parsed"
             PROVE  /\ root # NULL <=> ~starved /\ ReadsAsJson(text)
                    /\ root # NULL =>
                         /\ Printed(root) = SubSeq(text, Start(text), at - 1)
                         /\ \A n \in DOMAIN nodes : \A k \in DOMAIN Children(n) :
                              nodes[Children(n)[k]].prev = Children(n)[IF k = 1 THEN Len(Children(n)) ELSE k - 1]
  BY DEF TreeFormInv, ParsesJson
<1>1. root # NULL <=> ~starved /\ ReadsAsJson(text)
  BY AcceptsRight DEF Accepts
<1>2. ASSUME root # NULL
      PROVE  /\ Printed(root) = SubSeq(text, Start(text), at - 1)
             /\ \A n \in DOMAIN nodes : \A k \in DOMAIN Children(n) :
                  nodes[Children(n)[k]].prev = Children(n)[IF k = 1 THEN Len(Children(n)) ELSE k - 1]
  <2>1. PICK kids, from, to, lev : Tree(kids, from, to, lev)
    BY <1>2 DEF TreeInv, HasTree
  <2>2. root \in DOMAIN nodes /\ at = to[root] + 1
    BY <2>1, AcceptedReads
  <2>3. from[root] = Start(text)
    BY <2>1 DEF Tree
  <2>4. Printed(root) = SubSeq(text, from[root], to[root])
    BY <2>1, <2>2, TreePrints
  <2>5. to[root] = at - 1
    <3>1. to[root] \in 1 .. Len(text)
      BY <2>1, <2>2, ItemsAre
    <3> QED BY <2>2, <3>1
  <2>6. ASSUME NEW n \in DOMAIN nodes, NEW k \in DOMAIN Children(n)
        PROVE  nodes[Children(n)[k]].prev = Children(n)[IF k = 1 THEN Len(Children(n)) ELSE k - 1]
    BY <2>1, WalkedBack
  <2> QED BY <2>3, <2>4, <2>5, <2>6
<1> QED BY <1>1, <1>2

(* With memory, a text is parsed if it begins with a value that is not too  *)
(* deep, and only then, and its tree says what the text said                *)
(* (cJSON.c:1111-1194, 1342-1396, 1500-1545, 1661-1726).                    *)
THEOREM TextIsParsed == Spec => []ParsesJson
<1>1. TreeFormInv /\ [Next]_vars => TreeFormInv'
  BY TreeFormStep
<1> QED BY TreeFormInit, <1>1, InvParsesJson, PTL DEF Spec

-----------------------------------------------------------------------------
(* The places of the items, by the level of the text.                      *)

(* The closing brackets are no part of a value's beginning and no separator. *)
Closings == {"]", "}"}

(* Brackets, separators and values are different tokens.                    *)
LEMMA ClosingsAre ==
  /\ \A open \in Opening : ClosingOf(open) \in Closings
  /\ Closings \cap Opening = {} /\ Closings \cap Atoms = {} /\ Closings \cap Strings = {}
  /\ Opening \cap Atoms = {} /\ Opening \cap Strings = {}
  /\ Comma \notin Closings /\ ":" \notin Closings /\ "bom" \notin Closings
  /\ Comma \notin Opening /\ ":" \notin Opening /\ "bom" \notin Opening
  /\ Comma \notin Strings /\ ":" \notin Strings /\ Comma \notin Atoms /\ ":" \notin Atoms
  /\ "[" \in Opening /\ ClosingOf("[") = "]" /\ "]" \in Closings /\ Strings \subseteq Atoms
  /\ "[" # ":" /\ "[" # Comma /\ Comma # ":"
<1>1. \A open \in Opening : ClosingOf(open) \in Closings
  BY Zenon DEF ClosingOf, Closings
<1>2. Closings \cap Opening = {}
  BY Zenon DEF Closings, Opening
<1>3. Closings \subseteq Marks /\ Strings \cap Marks = {} /\ Comma \in Marks /\ ":" \in Marks /\ Opening \subseteq Marks
  BY Zenon, FormAssumption DEF Closings, Marks, Comma
<1>4. Closings \cap Strings = {} /\ Opening \cap Strings = {} /\ Comma \notin Strings /\ ":" \notin Strings
  BY <1>3
<1>5. Closings \cap (Literals \cup {"number"}) = {}
  BY Zenon DEF Closings, Literals
<1>6. Closings \cap Atoms = {}
  BY <1>4, <1>5 DEF Atoms
<1>7. Comma \notin Closings /\ ":" \notin Closings /\ "bom" \notin Closings
  BY Zenon DEF Closings, Comma
<1>8. Comma \notin Opening /\ ":" \notin Opening /\ "bom" \notin Opening
  BY Zenon DEF Opening, Comma
<1>9. Comma \notin Atoms /\ ":" \notin Atoms /\ Opening \cap Atoms = {} /\ Strings \subseteq Atoms
  BY TokensDiffer DEF Beginnings, Atoms
<1>10. "[" \in Opening /\ ClosingOf("[") = "]" /\ "]" \in Closings
  BY Zenon DEF Opening, ClosingOf, Closings
<1>11. "[" # ":" /\ "[" # Comma /\ Comma # ":"
  BY Zenon DEF Comma
<1> QED BY <1>1, <1>2, <1>4, <1>6, <1>7, <1>8, <1>9, <1>10, <1>11

(* How many tokens of a set stand before a place. *)
Count(t, p, S) == Cardinality({q \in 1 .. p - 1 : t[q] \in S})

(* One place more counts one token more.                                    *)
LEMMA CountNext ==
  ASSUME NEW t, NEW p \in Nat \ {0}, NEW S
  PROVE  /\ Count(t, p, S) \in Nat
         /\ Count(t, p + 1, S) = Count(t, p, S) + IF t[p] \in S THEN 1 ELSE 0
<1>1. PICK A : A = {q \in 1 .. p - 1 : t[q] \in S}
  OBVIOUS
<1>2. IsFiniteSet(1 .. p - 1)
  BY FS_Interval
<1>3. IsFiniteSet(A)
  BY <1>1, <1>2, FS_Subset
<1>4. Cardinality(A) \in Nat
  BY <1>3, FS_CardinalityType
<1>5. p \notin A
  BY <1>1
<1>6. \A q : q \in 1 .. (p + 1) - 1 <=> q \in 1 .. p - 1 \/ q = p
  OBVIOUS
<1>7. CASE t[p] \in S
  <2>1. {q \in 1 .. (p + 1) - 1 : t[q] \in S} = A \cup {p}
    BY <1>1, <1>6, <1>7
  <2>2. Cardinality(A \cup {p}) = Cardinality(A) + 1
    BY <1>3, <1>5, FS_AddElement
  <2> QED BY <1>1, <1>4, <1>7, <2>1, <2>2 DEF Count
<1>8. CASE t[p] \notin S
  <2>1. {q \in 1 .. (p + 1) - 1 : t[q] \in S} = A
    BY <1>1, <1>6, <1>8
  <2> QED BY <1>1, <1>4, <1>8, <2>1 DEF Count
<1> QED BY <1>7, <1>8

(* The level is what has been opened less what has been closed.             *)
LEMMA LevelIs ==
  ASSUME NEW p
  PROVE  Level(p) = Count(text, p, Opening) - Count(text, p, Closings)
BY Zenon DEF Level, Count, Closings

(* How the level changes from one place to the next. *)
LEMMA LevelNext ==
  ASSUME NEW p \in Nat, p # 0
  PROVE  /\ Level(p) \in Int
         /\ text[p] \in Opening => Level(p + 1) = Level(p) + 1
         /\ text[p] \in Closings => Level(p + 1) = Level(p) - 1
         /\ text[p] \notin Opening /\ text[p] \notin Closings => Level(p + 1) = Level(p)
<1>1. PICK a, b, c, d :
        /\ a = Count(text, p, Opening) /\ b = Count(text, p, Closings)
        /\ c = Count(text, p + 1, Opening) /\ d = Count(text, p + 1, Closings)
  OBVIOUS
<1>2. a \in Nat /\ c = a + IF text[p] \in Opening THEN 1 ELSE 0
  BY <1>1, CountNext
<1>3. b \in Nat /\ d = b + IF text[p] \in Closings THEN 1 ELSE 0
  BY <1>1, CountNext
<1>4. Level(p) = a - b /\ Level(p + 1) = c - d
  BY <1>1, LevelIs
<1>5. ~(text[p] \in Opening /\ text[p] \in Closings)
  BY ClosingsAre
<1> QED BY <1>2, <1>3, <1>4, <1>5

(* No list is open where the root begins.                                   *)
LEMMA LevelAtStart == Level(Start(text)) = 0
<1>1. Level(1) = 0
  <2>1. \A S : {q \in 1 .. 1 - 1 : text[q] \in S} = {}
    OBVIOUS
  <2>2. \A S : Count(text, 1, S) = 0
    BY <2>1, FS_EmptySet DEF Count
  <2> QED BY <2>2, LevelIs
<1>2. CASE Start(text) = 1
  BY <1>1, <1>2
<1>3. CASE Start(text) # 1
  <2>1. text[1] = "bom" /\ Start(text) = 1 + 1
    BY <1>3 DEF Start
  <2>2. text[1] \notin Opening /\ text[1] \notin Closings
    BY <2>1, ClosingsAre
  <2>3. Level(1 + 1) = Level(1)
    BY <2>2, LevelNext
  <2> QED BY <1>1, <2>1, <2>3
<1> QED BY <1>2, <1>3

(* Between no brackets the level stays. *)
LEMMA LevelStays ==
  ASSUME NEW a \in Nat, a # 0, NEW z \in Nat, a <= z,
         \A p \in Nat : a <= p /\ p < z => text[p] \notin Opening /\ text[p] \notin Closings
  PROVE  \A p \in Nat : a <= p /\ p <= z => Level(p) = Level(a)
<1>1. PICK n \in Nat : n = z - a
  OBVIOUS
<1> DEFINE T == {k \in 0 .. n : Level(a + k) = Level(a)}
<1>2. 0 \in T
  <2>1. a + 0 = a
    OBVIOUS
  <2> QED BY <2>1
<1>3. \A k \in 1 .. n : k - 1 \in T => k \in T
  <2> SUFFICES ASSUME NEW k \in 1 .. n, Level(a + (k - 1)) = Level(a) PROVE Level(a + k) = Level(a)
    OBVIOUS
  <2>1. PICK p \in Nat : p = a + (k - 1) /\ p # 0 /\ p < z /\ a <= p /\ p + 1 = a + k
    BY <1>1
  <2>2. Level(p + 1) = Level(p)
    BY <2>1, LevelNext
  <2> QED BY <2>1, <2>2
<1> HIDE DEF T
<1>4. 0 .. n \subseteq T
  BY <1>2, <1>3, UpTo
<1> SUFFICES ASSUME NEW p \in Nat, a <= p, p <= z PROVE Level(p) = Level(a)
  OBVIOUS
<1>5. PICK k \in 0 .. n : k = p - a /\ a + k = p
  BY <1>1
<1>6. k \in T
  BY <1>4
<1> QED BY <1>5, <1>6 DEF T

(* Where the i-th item of a list stands. *)
Stood(q, from, to, n, x, i, e, f, g, w) ==
  /\ e = from[x] /\ f = to[x] /\ g = from[n] /\ w = Width(nodes[n].type)
  /\ w = 1 \/ w = 3
  /\ w = 3 <=> nodes[n].type # "["
  /\ 1 <= e /\ e <= f /\ f <= Len(text) /\ 1 <= g
  /\ i = 1 => e = g + w
  /\ i # 1 => /\ to[q[i - 1]] \in Nat /\ e = to[q[i - 1]] + 1 + w
              /\ text[to[q[i - 1]] + 1] = Comma
  /\ w = 3 => text[e - 2] \in Strings /\ text[e - 1] = ":"

(* Every item stands behind its bracket or comma, and its name.             *)
LEMMA ItemStands ==
  ASSUME FormInv, NEW kids, NEW from, NEW to, NEW lev, Tree(kids, from, to, lev), pc \in {"parsed", "items"},
         NEW n \in DOMAIN nodes, nodes[n].type \in Opening, NEW q, q = kids[n], NEW i \in 1 .. Len(q), NEW x, x = q[i]
  PROVE  x \in DOMAIN nodes /\ \E e, f, g, w \in Nat : Stood(q, from, to, n, x, i, e, f, g, w)
<1>1. IsText(text) /\ Len(text) \in Nat
  BY TextOfForm
<1>2. q \in Seq(Nat) /\ Len(q) \in Nat
  <2>1. q \in Seq(Nat)
    BY ItemsAre
  <2> QED BY <2>1
<1>3. /\ x \in DOMAIN nodes
      /\ from[x] = Before(kids, from, to, n, i) + Width(nodes[n].type)
      /\ i # 1 => text[Before(kids, from, to, n, i)] = Comma
      /\ nodes[n].type # "[" => HasName(nodes, strings, text, from, x) /\ text[from[x] - 1] = ":"
  BY ListItems
<1>4. from[x] \in 1 .. Len(text) /\ to[x] \in 1 .. Len(text) /\ from[x] <= to[x]
  BY <1>3, ItemsAre
<1>5. from[n] \in 1 .. Len(text)
  BY ItemsAre
<1>6. PICK w \in Nat : w = Width(nodes[n].type) /\ (w = 1 \/ w = 3) /\ (w = 3 <=> nodes[n].type # "[")
  BY DEF Width
<1>7. PICK e \in Nat : e = from[x]
  BY <1>4
<1>8. PICK f \in Nat : f = to[x]
  BY <1>4
<1>9. PICK g \in Nat : g = from[n]
  BY <1>5
<1>10. 1 <= e /\ e <= f /\ f <= Len(text) /\ 1 <= g
  BY <1>1, <1>4, <1>5, <1>7, <1>8, <1>9
<1>11. w = 3 => text[e - 2] \in Strings /\ text[e - 1] = ":"
  BY <1>3, <1>6, <1>7 DEF HasName
<1>12. i = 1 => e = g + w
  BY <1>3, <1>6, <1>7, <1>9 DEF Before
<1>13. i # 1 => /\ to[q[i - 1]] \in Nat /\ e = to[q[i - 1]] + 1 + w
                /\ text[to[q[i - 1]] + 1] = Comma
  <2> SUFFICES ASSUME i # 1
               PROVE  /\ to[q[i - 1]] \in Nat /\ e = to[q[i - 1]] + 1 + w
                      /\ text[to[q[i - 1]] + 1] = Comma
    OBVIOUS
  <2>1. PICK h \in 1 .. Len(q) : h = i - 1
    BY <1>2
  <2>2. PICK y : y = q[h] /\ y = kids[n][h] /\ h \in 1 .. Len(kids[n])
    OBVIOUS
  <2>3. y \in DOMAIN nodes
    BY <2>2, ListItems
  <2>4. to[y] \in Nat
    BY <2>3, ItemsAre
  <2>5. Before(kids, from, to, n, i) = to[y] + 1
    BY <2>1, <2>2 DEF Before
  <2> QED BY <1>3, <1>6, <1>7, <2>1, <2>2, <2>4, <2>5
<1>14. Stood(q, from, to, n, x, i, e, f, g, w)
  BY <1>6, <1>7, <1>8, <1>9, <1>10, <1>11, <1>12, <1>13 DEF Stood
<1> QED BY <1>3, <1>14

(* The items of a list stand inside it. *)
LEMMA ItemsInside ==
  ASSUME FormInv, NEW kids, NEW from, NEW to, NEW lev, Tree(kids, from, to, lev), pc \in {"parsed", "items"},
         NEW n \in DOMAIN nodes, nodes[n].type \in Opening, NEW q, q = kids[n]
  PROVE  \A i \in 1 .. Len(q) : from[n] < from[q[i]] /\ from[q[i]] <= to[q[i]]
<1>1. PICK L \in Nat : L = Len(q)
  <2>1. q \in Seq(Nat)
    BY ItemsAre
  <2> QED BY <2>1
<1> DEFINE P(i) == from[n] < from[q[i]] /\ from[q[i]] <= to[q[i]]
           T == {i \in 0 .. L : i # 0 => P(i)}
<1> HIDE DEF P
<1>2. 0 \in T
  OBVIOUS
<1>3. \A i \in 1 .. L : i - 1 \in T => i \in T
  <2> SUFFICES ASSUME NEW i \in 1 .. L, i # 1 => P(i - 1) PROVE P(i)
    OBVIOUS
  <2>1. PICK x : x = q[i]
    OBVIOUS
  <2>2. PICK e \in Nat, f \in Nat, g \in Nat, w \in Nat : Stood(q, from, to, n, x, i, e, f, g, w)
    BY <1>1, <2>1, ItemStands
  <2>3. e = from[x] /\ f = to[x] /\ g = from[n] /\ e <= f /\ (w = 1 \/ w = 3)
    BY <2>2 DEF Stood
  <2>4. g < e
    <3>1. CASE i = 1
      <4>1. e = g + w
        BY <2>2, <3>1 DEF Stood
      <4> QED BY <2>3, <4>1
    <3>2. CASE i # 1
      <4>1. PICK h : h = i - 1
        OBVIOUS
      <4>2. PICK u \in Nat : u = to[q[h]] /\ e = u + 1 + w
        BY <2>2, <3>2, <4>1 DEF Stood
      <4>3. PICK j \in 1 .. L : j = h /\ j # i
        BY <3>2, <4>1
      <4>4. PICK y : y = q[j]
        OBVIOUS
      <4>5. \E e2, f2, g2, w2 \in Nat : Stood(q, from, to, n, y, j, e2, f2, g2, w2)
        BY <1>1, <4>3, <4>4, ItemStands
      <4>6. from[y] \in Nat
        BY <4>5 DEF Stood
      <4>7. g < from[y] /\ from[y] <= u
        BY <2>3, <3>2, <4>1, <4>2, <4>3, <4>4 DEF P
      <4> QED BY <2>3, <4>2, <4>6, <4>7
    <3> QED BY <3>1, <3>2
  <2> QED BY <2>1, <2>3, <2>4 DEF P
<1> HIDE DEF T
<1>4. 0 .. L \subseteq T
  BY <1>2, <1>3, UpTo
<1>5. ASSUME NEW i \in 1 .. L PROVE P(i)
  <2>1. i \in T /\ i # 0
    BY <1>4
  <2> QED BY <2>1 DEF T
<1> QED BY <1>1, <1>5 DEF P

(* What stands before the i-th item of a list. *)
LEMMA AroundItem ==
  ASSUME FormInv, NEW kids, NEW from, NEW to, NEW lev, Tree(kids, from, to, lev), pc \in {"parsed", "items"},
         NEW n \in DOMAIN nodes, nodes[n].type \in Opening, NEW i \in 1 .. Len(kids[n]), NEW x, x = kids[n][i],
         NEW a, a = Begins(kids, from, to, n, i)
  PROVE  /\ x \in DOMAIN nodes
         /\ a \in Nat /\ a # 0 /\ from[x] \in Nat /\ to[x] \in Nat /\ from[n] \in Nat
         /\ from[n] < a /\ a <= from[x] /\ from[x] <= to[x] /\ to[x] <= Len(text)
         /\ i # 1 => text[a] = Comma /\ a < from[x]
         /\ nodes[n].type # "[" => text[from[x] - 2] \in Strings /\ text[from[x] - 1] = ":" /\ a <= from[x] - 2
         /\ \A p \in Nat : a <= p /\ p < from[x] =>
              \/ i # 1 /\ p = a
              \/ nodes[n].type # "[" /\ (p = from[x] - 2 \/ p = from[x] - 1)
<1>1. PICK q : q = kids[n]
  OBVIOUS
<1>2. x \in DOMAIN nodes
  BY <1>1, ItemStands
<1>3. PICK e \in Nat, f \in Nat, g \in Nat, w \in Nat : Stood(q, from, to, n, x, i, e, f, g, w)
  BY <1>1, ItemStands
<1>4. /\ e = from[x] /\ f = to[x] /\ g = from[n] /\ e <= f /\ (w = 1 \/ w = 3) /\ 1 <= e /\ f <= Len(text) /\ 1 <= g
      /\ w = 3 <=> nodes[n].type # "["
      /\ w = 3 => text[e - 2] \in Strings /\ text[e - 1] = ":"
  BY <1>3 DEF Stood
<1>5. CASE i = 1
  <2>1. a = g + 1 /\ e = g + w
    BY <1>3, <1>4, <1>5 DEF Begins, Stood
  <2>2. a \in Nat /\ a # 0 /\ g < a /\ a <= e /\ (w = 3 => a <= e - 2)
    BY <1>4, <2>1
  <2>3. ASSUME NEW p \in Nat, a <= p, p < e PROVE w = 3 /\ (p = e - 2 \/ p = e - 1)
    <3>1. CASE w = 1
      <4>1. e = a
        BY <2>1, <3>1
      <4> QED BY <2>2, <2>3, <4>1
    <3>2. CASE w = 3
      <4>1. e = a + 2 /\ e - 2 = a /\ e - 1 = a + 1
        BY <2>1, <2>2, <3>2
      <4>2. p = a \/ p = a + 1
        BY <2>2, <2>3, <4>1
      <4> QED BY <3>2, <4>1, <4>2
    <3> QED BY <1>4, <3>1, <3>2
  <2> QED BY <1>2, <1>4, <1>5, <2>2, <2>3
<1>6. CASE i # 1
  <2>1. PICK h : h = i - 1
    OBVIOUS
  <2>2. PICK u \in Nat : u = to[q[h]] /\ e = u + 1 + w /\ text[u + 1] = Comma
    BY <1>3, <1>6, <2>1 DEF Stood
  <2>3. a = u + 1
    BY <1>1, <1>6, <2>1, <2>2 DEF Begins
  <2>4. g <= u
    <3>1. h \in 1 .. Len(q)
      <4>1. q \in Seq(Nat)
        BY <1>1, ItemsAre
      <4> QED BY <1>1, <1>6, <2>1, <4>1
    <3>2. PICK y : y = q[h]
      OBVIOUS
    <3>3. g < from[y] /\ from[y] <= u
      BY <1>1, <1>4, <2>2, <3>1, <3>2, ItemsInside
    <3>4. from[y] \in Nat
      <4>1. y \in DOMAIN nodes
        BY <1>1, <3>1, <3>2, ListItems
      <4> QED BY <4>1, ItemsAre
    <3> QED BY <3>3, <3>4
  <2>5. a \in Nat /\ a # 0 /\ g < a /\ a < e /\ (w = 3 => a <= e - 2) /\ text[a] = Comma
    BY <1>4, <2>2, <2>3, <2>4
  <2>6. ASSUME NEW p \in Nat, a <= p, p < e PROVE p = a \/ (w = 3 /\ (p = e - 2 \/ p = e - 1))
    <3>1. CASE w = 1
      <4>1. e = a + 1
        BY <2>2, <2>3, <3>1
      <4> QED BY <2>5, <2>6, <4>1
    <3>2. CASE w = 3
      <4>1. e = a + 3 /\ e - 2 = a + 1 /\ e - 1 = a + 2
        BY <2>2, <2>3, <2>5, <3>2
      <4>2. p = a \/ p = a + 1 \/ p = a + 2
        BY <2>5, <2>6, <4>1
      <4> QED BY <3>2, <4>1, <4>2
    <3> QED BY <1>4, <3>1, <3>2
  <2> QED BY <1>2, <1>4, <1>6, <2>5, <2>6
<1> QED BY <1>5, <1>6

(* In an item the level is higher than before it, and behind it the same.   *)
Shut(from, to, n) ==
  /\ Level(to[n] + 1) = Level(from[n])
  /\ \A p \in Nat : from[n] < p /\ p <= to[n] => Level(p) >= Level(from[n]) + 1

(* An item without a list is one token.                                     *)
LEMMA AtomShut ==
  ASSUME FormInv, NEW kids, NEW from, NEW to, NEW lev, Tree(kids, from, to, lev), pc \in {"parsed", "items"},
         NEW n \in DOMAIN nodes, nodes[n].type \notin Opening
  PROVE  Shut(from, to, n) /\ to[n] = from[n] /\ text[from[n]] \in Atoms /\ kids[n] = <<>>
<1>1. Complete(nodes, strings, text, kids, from, to, lev, n) /\ from[n] \in 1 .. Len(text)
  BY ItemsAre
<1>2. HoldsAtom(nodes, strings, text, kids, from, to, n)
  BY <1>1 DEF Complete
<1>3. to[n] = from[n] /\ text[from[n]] \in Atoms /\ kids[n] = <<>>
  BY <1>2 DEF HoldsAtom, Atoms
<1>4. text[from[n]] \notin Opening /\ text[from[n]] \notin Closings
  BY <1>3, ClosingsAre
<1>5. from[n] \in Nat /\ from[n] # 0
  BY <1>1
<1>6. Level(from[n] + 1) = Level(from[n])
  BY <1>4, <1>5, LevelNext
<1>7. \A p \in Nat : ~(from[n] < p /\ p <= from[n])
  BY <1>5
<1> QED BY <1>3, <1>6, <1>7 DEF Shut

(* The levels of the i-th item and what is before it. *)
Flat(from, to, x, a, l) ==
  /\ \A p \in Nat : a <= p /\ p <= from[x] => Level(p) = l
  /\ \A p \in Nat : from[x] < p /\ p <= to[x] => Level(p) >= l + 1
  /\ Level(to[x] + 1) = l

(* Up to an item that is shut the level stays.                              *)
LEMMA ItemFlat ==
  ASSUME FormInv, NEW kids, NEW from, NEW to, NEW lev, Tree(kids, from, to, lev), pc \in {"parsed", "items"},
         NEW n \in DOMAIN nodes, nodes[n].type \in Opening, NEW i \in 1 .. Len(kids[n]), NEW x, x = kids[n][i],
         NEW a, a = Begins(kids, from, to, n, i), NEW l \in Int, Level(a) = l, Shut(from, to, x)
  PROVE  Flat(from, to, x, a, l)
<1>1. /\ a \in Nat /\ a # 0 /\ from[x] \in Nat
      /\ a <= from[x]
      /\ i # 1 => text[a] = Comma
      /\ nodes[n].type # "[" => text[from[x] - 2] \in Strings /\ text[from[x] - 1] = ":"
      /\ \A p \in Nat : a <= p /\ p < from[x] =>
           \/ i # 1 /\ p = a
           \/ nodes[n].type # "[" /\ (p = from[x] - 2 \/ p = from[x] - 1)
  BY AroundItem
<1>2. ASSUME NEW p \in Nat, a <= p, p < from[x] PROVE text[p] \notin Opening /\ text[p] \notin Closings
  <2>1. text[p] = Comma \/ text[p] \in Strings \/ text[p] = ":"
    BY <1>1, <1>2
  <2> QED BY <2>1, ClosingsAre
<1>3. PICK z \in Nat : z = from[x] /\ a <= z
  BY <1>1
<1>4. \A p \in Nat : a <= p /\ p <= z => Level(p) = Level(a)
  BY <1>1, <1>2, <1>3, LevelStays
<1>5. Level(from[x]) = l
  BY <1>3, <1>4
<1> QED BY <1>3, <1>4, <1>5 DEF Shut, Flat

(* The items of a list all stand at one level, one above that of the list.  *)
LEMMA ListLevels ==
  ASSUME FormInv, NEW kids, NEW from, NEW to, NEW lev, Tree(kids, from, to, lev), pc \in {"parsed", "items"},
         NEW n \in DOMAIN nodes, nodes[n].type \in Opening, NEW q, q = kids[n], NEW l, l = Level(from[n]) + 1,
         \A i \in 1 .. Len(q) : Shut(from, to, q[i])
  PROVE  /\ \A i \in 1 .. Len(q) : Flat(from, to, q[i], Begins(kids, from, to, n, i), l)
         /\ Level(to[n]) = l /\ Level(to[n] + 1) = Level(from[n]) /\ l \in Int
<1>1. PICK L \in Nat : L = Len(q)
  <2>1. q \in Seq(Nat)
    BY ItemsAre
  <2> QED BY <2>1
<1>2. /\ text[from[n]] = nodes[n].type /\ text[to[n]] = ClosingOf(nodes[n].type)
      /\ to[n] = After(kids, from, to, n)
  BY ListItems
<1>3. from[n] \in Nat /\ from[n] # 0 /\ to[n] \in Nat /\ to[n] # 0
  BY ItemsAre
<1>4. l \in Int /\ Level(from[n] + 1) = l
  BY <1>2, <1>3, LevelNext
<1> DEFINE P(i) == Flat(from, to, q[i], Begins(kids, from, to, n, i), l)
           T == {i \in 0 .. L : i # 0 => P(i)}
<1> HIDE DEF P
<1>5. 0 \in T
  OBVIOUS
<1>6. \A i \in 1 .. L : i - 1 \in T => i \in T
  <2> SUFFICES ASSUME NEW i \in 1 .. L, i # 1 => P(i - 1) PROVE P(i)
    OBVIOUS
  <2>1. PICK x : x = q[i]
    OBVIOUS
  <2>2. PICK a : a = Begins(kids, from, to, n, i)
    OBVIOUS
  <2>3. Level(a) = l
    <3>1. CASE i = 1
      <4>1. a = from[n] + 1
        BY <2>2, <3>1 DEF Begins
      <4> QED BY <1>4, <4>1
    <3>2. CASE i # 1
      <4>1. PICK h : h = i - 1
        OBVIOUS
      <4>2. a = to[q[h]] + 1
        BY <2>2, <3>2, <4>1 DEF Begins
      <4>3. Level(to[q[h]] + 1) = l
        BY <3>2, <4>1 DEF P, Flat
      <4> QED BY <4>2, <4>3
    <3> QED BY <3>1, <3>2
  <2>4. Shut(from, to, x) /\ i \in 1 .. Len(kids[n]) /\ x = kids[n][i]
    BY <1>1, <2>1
  <2>5. Flat(from, to, x, a, l)
    BY <1>4, <2>2, <2>3, <2>4, ItemFlat
  <2> QED BY <2>1, <2>2, <2>5 DEF P
<1> HIDE DEF T
<1>7. 0 .. L \subseteq T
  BY <1>5, <1>6, UpTo
<1>8. ASSUME NEW i \in 1 .. L PROVE P(i)
  <2>1. i \in T /\ i # 0
    BY <1>7
  <2> QED BY <2>1 DEF T
<1>9. Level(to[n]) = l
  <2>1. CASE L = 0
    <3>1. q = <<>>
      <4>1. q \in Seq(Nat)
        BY ItemsAre
      <4> QED BY <1>1, <2>1, <4>1, EmptySeq
    <3> QED BY <1>2, <1>4, <3>1 DEF After
  <2>2. CASE L # 0
    <3>1. q # <<>>
      BY <1>1, <2>2
    <3>2. P(L)
      BY <1>8, <2>2
    <3>3. to[n] = to[q[L]] + 1
      BY <1>1, <1>2, <3>1 DEF After
    <3> QED BY <3>2, <3>3 DEF P, Flat
  <2> QED BY <2>1, <2>2
<1>10. Level(to[n] + 1) = Level(from[n])
  <2>1. text[to[n]] \in Closings
    BY <1>2, ClosingsAre
  <2>2. Level(to[n] + 1) = Level(to[n]) - 1 /\ Level(from[n]) \in Int
    BY <1>3, <2>1, LevelNext
  <2> QED BY <1>9, <2>2
<1> QED BY <1>1, <1>4, <1>8, <1>9, <1>10 DEF P

(* Every place in a list is at its end, in an item, or before one.          *)
LEMMA PlacesInList ==
  ASSUME FormInv, NEW kids, NEW from, NEW to, NEW lev, Tree(kids, from, to, lev), pc \in {"parsed", "items"},
         NEW n \in DOMAIN nodes, nodes[n].type \in Opening, NEW q, q = kids[n]
  PROVE  \A p \in Nat : from[n] < p /\ p <= to[n] =>
           p = to[n] \/ \E i \in 1 .. Len(q) : Begins(kids, from, to, n, i) <= p /\ p <= to[q[i]]
<1>1. PICK L \in Nat : L = Len(q)
  <2>1. q \in Seq(Nat)
    BY ItemsAre
  <2> QED BY <2>1
<1>2. to[n] = After(kids, from, to, n)
  BY ListItems
<1>3. from[n] \in Nat /\ to[n] \in Nat
  BY ItemsAre
<1> SUFFICES ASSUME NEW p \in Nat, from[n] < p, p <= to[n], p # to[n]
             PROVE  \E i \in 1 .. L : Begins(kids, from, to, n, i) <= p /\ p <= to[q[i]]
  BY <1>1
<1> DEFINE T == {i \in 0 .. L : \/ \E j \in 1 .. L : Begins(kids, from, to, n, j) <= p /\ p <= to[q[j]]
                                \/ IF i = 0 THEN from[n] < p ELSE to[q[i]] < p}
<1>4. 0 \in T
  OBVIOUS
<1>5. \A i \in 1 .. L : i - 1 \in T => i \in T
  <2> SUFFICES ASSUME NEW i \in 1 .. L, IF i - 1 = 0 THEN from[n] < p ELSE to[q[i - 1]] < p
               PROVE  (Begins(kids, from, to, n, i) <= p /\ p <= to[q[i]]) \/ to[q[i]] < p
    OBVIOUS
  <2>1. PICK x : x = q[i] /\ x = kids[n][i] /\ i \in 1 .. Len(kids[n])
    BY <1>1
  <2>2. PICK a : a = Begins(kids, from, to, n, i)
    OBVIOUS
  <2>3. a \in Nat /\ to[x] \in Nat
    BY <2>1, <2>2, AroundItem
  <2>4. a <= p
    <3>1. CASE i = 1
      BY <1>3, <2>2, <3>1 DEF Begins
    <3>2. CASE i # 1
      <4>1. PICK h : h = i - 1 /\ h # 0
        BY <3>2
      <4>2. a = to[q[h]] + 1 /\ to[q[h]] < p
        BY <2>2, <3>2, <4>1 DEF Begins
      <4>3. to[q[h]] \in Nat
        <5>1. h \in 1 .. Len(kids[n]) /\ q[h] = kids[n][h]
          BY <1>1, <4>1
        <5>2. kids[n][h] \in DOMAIN nodes
          BY <5>1, ListItems
        <5> QED BY <5>1, <5>2, ItemsAre
      <4> QED BY <4>2, <4>3
    <3> QED BY <3>1, <3>2
  <2> QED BY <2>1, <2>2, <2>3, <2>4
<1> HIDE DEF T
<1>6. L \in T
  <2>1. 0 .. L \subseteq T
    BY <1>4, <1>5, UpTo
  <2> QED BY <2>1
<1>7. ~(IF L = 0 THEN from[n] < p ELSE to[q[L]] < p)
  <2>1. CASE L = 0
    <3>1. q = <<>>
      <4>1. q \in Seq(Nat)
        BY ItemsAre
      <4> QED BY <1>1, <2>1, <4>1, EmptySeq
    <3>2. to[n] = from[n] + 1
      BY <1>2, <3>1 DEF After
    <3> QED BY <1>3, <3>2
  <2>2. CASE L # 0
    <3>1. q # <<>>
      BY <1>1, <2>2
    <3>2. to[n] = to[q[L]] + 1
      BY <1>1, <1>2, <3>1 DEF After
    <3>3. to[q[L]] \in Nat
      <4>1. L \in 1 .. Len(kids[n]) /\ q[L] = kids[n][L]
        BY <1>1, <2>2
      <4>2. kids[n][L] \in DOMAIN nodes
        BY <4>1, ListItems
      <4> QED BY <4>1, <4>2, ItemsAre
    <3> QED BY <1>3, <2>2, <3>2, <3>3
  <2> QED BY <2>1, <2>2
<1> QED BY <1>6, <1>7 DEF T

(* So a list is shut if its items are, and all items are.                   *)
LEMMA ListShut ==
  ASSUME FormInv, NEW kids, NEW from, NEW to, NEW lev, Tree(kids, from, to, lev), pc \in {"parsed", "items"},
         NEW n \in DOMAIN nodes, nodes[n].type \in Opening, NEW q, q = kids[n],
         \A i \in 1 .. Len(q) : Shut(from, to, q[i])
  PROVE  Shut(from, to, n)
<1>1. PICK l : l = Level(from[n]) + 1
  OBVIOUS
<1>2. /\ \A i \in 1 .. Len(q) : Flat(from, to, q[i], Begins(kids, from, to, n, i), l)
      /\ Level(to[n]) = l /\ Level(to[n] + 1) = Level(from[n]) /\ l \in Int
  BY <1>1, ListLevels
<1>3. ASSUME NEW p \in Nat, from[n] < p, p <= to[n] PROVE Level(p) >= l
  <2>1. CASE p = to[n]
    BY <1>2, <2>1
  <2>2. CASE p # to[n]
    <3>1. PICK i \in 1 .. Len(q) : Begins(kids, from, to, n, i) <= p /\ p <= to[q[i]]
      BY <1>3, <2>2, PlacesInList
    <3>2. PICK x : x = q[i] /\ x = kids[n][i] /\ i \in 1 .. Len(kids[n])
      OBVIOUS
    <3>3. PICK a : a = Begins(kids, from, to, n, i)
      OBVIOUS
    <3>4. from[x] \in Nat
      BY <3>2, <3>3, AroundItem
    <3>5. Flat(from, to, x, a, l)
      BY <1>2, <3>2, <3>3
    <3>6. CASE p <= from[x]
      BY <1>2, <3>1, <3>3, <3>5, <3>6 DEF Flat
    <3>7. CASE from[x] < p
      <4>1. p <= to[x]
        BY <3>1, <3>2
      <4>2. Level(p) >= l + 1
        BY <3>5, <3>7, <4>1 DEF Flat
      <4>3. Level(p) \in Int
        <5>1. p # 0
          BY <3>4, <3>7
        <5> QED BY <5>1, LevelNext
      <4> QED BY <1>2, <4>2, <4>3
    <3> QED BY <3>4, <3>6, <3>7
  <2> QED BY <2>1, <2>2
<1> QED BY <1>1, <1>2, <1>3 DEF Shut

(* Every item of the tree is shut.                                          *)
LEMMA TreeShut ==
  ASSUME FormInv, NEW kids, NEW from, NEW to, NEW lev, Tree(kids, from, to, lev), pc \in {"parsed", "items"},
         NEW n \in DOMAIN nodes
  PROVE  Shut(from, to, n)
<1>0. NestingLimit \in Nat
  BY TextOfForm
<1> DEFINE P(d) == \A k \in DOMAIN nodes : lev[k] + d >= NestingLimit => Shut(from, to, k)
           T == {d \in 0 .. NestingLimit : P(d)}
<1> HIDE DEF P
<1>1. ASSUME NEW k \in DOMAIN nodes, nodes[k].type \notin Opening PROVE Shut(from, to, k)
  BY <1>1, AtomShut
<1>2. 0 \in T
  <2>1. P(0)
    <3> SUFFICES ASSUME NEW k \in DOMAIN nodes, lev[k] + 0 >= NestingLimit PROVE Shut(from, to, k)
      BY DEF P
    <3>1. lev[k] \in 0 .. NestingLimit
      BY ItemsAre
    <3>2. nodes[k].type \notin Opening
      <4> SUFFICES ASSUME nodes[k].type \in Opening PROVE FALSE
        OBVIOUS
      <4>1. lev[k] < NestingLimit
        BY ListItems
      <4> QED BY <1>0, <3>1, <4>1
    <3> QED BY <1>1, <3>2
  <2> QED BY <1>0, <2>1
<1>3. \A d \in 1 .. NestingLimit : d - 1 \in T => d \in T
  <2> SUFFICES ASSUME NEW d \in 1 .. NestingLimit, P(d - 1) PROVE P(d)
    BY <1>0
  <2> SUFFICES ASSUME NEW k \in DOMAIN nodes, lev[k] + d >= NestingLimit PROVE Shut(from, to, k)
    BY DEF P
  <2>1. CASE nodes[k].type \notin Opening
    BY <1>1, <2>1
  <2>2. CASE nodes[k].type \in Opening
    <3>1. PICK q : q = kids[k]
      OBVIOUS
    <3>2. ASSUME NEW i \in 1 .. Len(q), NEW x, x = q[i] PROVE Shut(from, to, x)
      <4>1. x \in DOMAIN nodes /\ lev[x] = lev[k] + 1
        BY <2>2, <3>1, <3>2, ListItems
      <4>2. lev[k] \in 0 .. NestingLimit
        BY ItemsAre
      <4>3. lev[x] + (d - 1) >= NestingLimit
        BY <1>0, <4>1, <4>2
      <4> QED BY <4>1, <4>3 DEF P
    <3> QED BY <2>2, <3>1, <3>2, ListShut
  <2> QED BY <2>1, <2>2
<1> HIDE DEF T
<1>4. 0 .. NestingLimit \subseteq T
  BY <1>0, <1>2, <1>3, UpTo
<1>5. P(NestingLimit)
  BY <1>0, <1>4 DEF T
<1>6. lev[n] + NestingLimit >= NestingLimit
  <2>1. lev[n] \in 0 .. NestingLimit
    BY ItemsAre
  <2> QED BY <1>0, <2>1
<1> QED BY <1>5, <1>6 DEF P

-----------------------------------------------------------------------------
(* What the handler takes from an item, and what it saves.                  *)

(* How an item begins and how it ends. *)
LEMMA EndsOfItem ==
  ASSUME FormInv, NEW kids, NEW from, NEW to, NEW lev, Tree(kids, from, to, lev), pc \in {"parsed", "items"},
         NEW n \in DOMAIN nodes
  PROVE  /\ text[from[n]] \in Beginnings /\ text[to[n]] \in Atoms \cup Closings
         /\ nodes[n].type \in Opening => text[from[n]] = nodes[n].type
         /\ nodes[n].type \notin Opening => text[from[n]] \in Atoms
<1>1. CASE nodes[n].type \in Opening
  <2>1. text[from[n]] = nodes[n].type /\ text[to[n]] = ClosingOf(nodes[n].type)
    BY <1>1, ListItems
  <2> QED BY <1>1, <2>1, ClosingsAre DEF Beginnings
<1>2. CASE nodes[n].type \notin Opening
  <2>1. to[n] = from[n] /\ text[from[n]] \in Atoms
    BY <1>2, AtomShut
  <2> QED BY <1>2, <2>1 DEF Beginnings
<1> QED BY <1>1, <1>2

(* What may lead to an item of a list. *)
Lead(open) == IF open = "[" THEN {"[", Comma} ELSE {":"}

(* No value ends with a token that leads to an item.                        *)
LEMMA LeadsAre ==
  /\ "[" \in Lead("[") /\ Comma \in Lead("[")
  /\ \A open \in Opening : Lead(open) \cap (Atoms \cup Closings) = {}
  /\ \A open : open # "[" => Lead(open) = {":"}
<1>1. Lead("[") = {"[", Comma}
  BY Zenon DEF Lead
<1>2. \A open : open # "[" => Lead(open) = {":"}
  BY Zenon DEF Lead
<1>3. "[" \notin Atoms \cup Closings /\ Comma \notin Atoms \cup Closings /\ ":" \notin Atoms \cup Closings
  BY ClosingsAre
<1> QED BY <1>1, <1>2, <1>3

(* Of the places before an item, only the last leads to it.                 *)
LEMMA LeadOfItem ==
  ASSUME FormInv, NEW kids, NEW from, NEW to, NEW lev, Tree(kids, from, to, lev), pc \in {"parsed", "items"},
         NEW n \in DOMAIN nodes, nodes[n].type \in Opening, NEW i \in 1 .. Len(kids[n]), NEW x, x = kids[n][i],
         NEW a, a = Begins(kids, from, to, n, i)
  PROVE  /\ text[from[x] - 1] \in Lead(nodes[n].type)
         /\ \A p \in Nat : a <= p /\ p < from[x] => text[p - 1] \notin Lead(nodes[n].type)
<1>1. PICK q : q = kids[n]
  OBVIOUS
<1>2. PICK e \in Nat, f \in Nat, g \in Nat, w \in Nat : Stood(q, from, to, n, x, i, e, f, g, w)
  BY <1>1, ItemStands
<1>3. PICK open : open = nodes[n].type
  OBVIOUS
<1>4. /\ e = from[x] /\ g = from[n] /\ (w = 1 \/ w = 3) /\ (w = 3 <=> open # "[")
      /\ w = 3 => text[e - 2] \in Strings /\ text[e - 1] = ":"
  BY <1>2, <1>3 DEF Stood
<1>5. text[g] = open /\ open \in Opening
  BY <1>3, <1>4, ListItems
<1>6. PICK u \in Nat : a = u + 1 /\ IF i = 1 THEN u = g /\ e = u + w
                                     ELSE u = to[q[i - 1]] /\ e = u + 1 + w /\ text[u + 1] = Comma
  <2>1. CASE i = 1
    BY <1>2, <1>4, <2>1 DEF Begins, Stood
  <2>2. CASE i # 1
    <3>1. PICK h : h = i - 1
      OBVIOUS
    <3>2. PICK u \in Nat : u = to[q[h]] /\ e = u + 1 + w /\ text[u + 1] = Comma
      BY <1>2, <2>2, <3>1 DEF Stood
    <3>3. a = u + 1
      BY <1>1, <2>2, <3>1, <3>2 DEF Begins
    <3> QED BY <2>2, <3>1, <3>2, <3>3
  <2> QED BY <2>1, <2>2
<1>7. CASE w = 1
  <2>1. open = "["
    BY <1>4, <1>7
  <2>2. text[e - 1] \in Lead("[")
    <3>1. CASE i = 1
      <4>1. e - 1 = g
        BY <1>6, <1>7, <3>1
      <4> QED BY <1>5, <2>1, <4>1, LeadsAre
    <3>2. CASE i # 1
      <4>1. e - 1 = u + 1 /\ text[u + 1] = Comma
        BY <1>6, <1>7, <3>2
      <4> QED BY <4>1, LeadsAre
    <3> QED BY <3>1, <3>2
  <2>3. ASSUME NEW p \in Nat, a <= p, p < e PROVE text[p - 1] \notin Lead("[")
    <3>1. i # 1 /\ p - 1 = u
      BY <1>6, <1>7, <2>3
    <3>2. text[u] \in Atoms \cup Closings
      <4>1. PICK h \in 1 .. Len(q) : h = i - 1
        <5>1. q \in Seq(Nat)
          BY <1>1, ItemsAre
        <5> QED BY <1>1, <3>1, <5>1
      <4>2. PICK y : y = q[h] /\ y = kids[n][h] /\ h \in 1 .. Len(kids[n])
        BY <1>1
      <4>3. y \in DOMAIN nodes
        BY <4>2, ListItems
      <4>4. text[to[y]] \in Atoms \cup Closings
        BY <4>3, EndsOfItem
      <4> QED BY <1>6, <3>1, <4>1, <4>2, <4>4
    <3> QED BY <1>5, <2>1, <3>1, <3>2, LeadsAre
  <2> QED BY <1>3, <1>4, <2>1, <2>2, <2>3
<1>8. CASE w = 3
  <2>1. open # "[" /\ Lead(open) = {":"}
    BY <1>4, <1>8, LeadsAre
  <2>2. text[e - 2] \in Strings /\ text[e - 1] = ":"
    BY <1>4, <1>8
  <2>3. ASSUME NEW p \in Nat, a <= p, p < e PROVE text[p - 1] # ":"
    <3>1. CASE p = e - 1
      <4>1. p - 1 = e - 2
        BY <3>1
      <4> QED BY <2>2, <4>1, ClosingsAre
    <3>2. CASE p # e - 1 /\ i = 1
      <4>1. p - 1 = g
        BY <1>6, <1>8, <2>3, <3>2
      <4> QED BY <1>5, <4>1, ClosingsAre
    <3>3. CASE p # e - 1 /\ i # 1
      <4>1. p - 1 = u \/ p - 1 = u + 1
        BY <1>6, <1>8, <2>3, <3>3
      <4>2. text[u + 1] = Comma
        BY <1>6, <3>3
      <4>3. text[u] \in Atoms \cup Closings
        <5>1. PICK h \in 1 .. Len(q) : h = i - 1
          <6>1. q \in Seq(Nat)
            BY <1>1, ItemsAre
          <6> QED BY <1>1, <3>3, <6>1
        <5>2. PICK y : y = q[h] /\ y = kids[n][h] /\ h \in 1 .. Len(kids[n])
          BY <1>1
        <5>3. y \in DOMAIN nodes
          BY <5>2, ListItems
        <5>4. text[to[y]] \in Atoms \cup Closings
          BY <5>3, EndsOfItem
        <5> QED BY <1>6, <3>3, <5>1, <5>2, <5>4
      <4> QED BY <4>1, <4>2, <4>3, ClosingsAre
    <3> QED BY <3>1, <3>2, <3>3
  <2> QED BY <1>3, <1>4, <2>1, <2>2, <2>3
<1> QED BY <1>4, <1>7, <1>8

(* The items stand one behind the other. *)
LEMMA ItemsInOrder ==
  ASSUME FormInv, NEW kids, NEW from, NEW to, NEW lev, Tree(kids, from, to, lev), pc \in {"parsed", "items"},
         NEW n \in DOMAIN nodes, nodes[n].type \in Opening, NEW q, q = kids[n]
  PROVE  /\ \A i, j \in 1 .. Len(q) : i < j => from[q[i]] < from[q[j]] /\ to[q[i]] < from[q[j]]
         /\ \A i \in 1 .. Len(q) : to[q[i]] < to[n]
<1>1. PICK L \in Nat : L = Len(q)
  <2>1. q \in Seq(Nat)
    BY ItemsAre
  <2> QED BY <2>1
<1>2. ASSUME NEW i \in 1 .. L
      PROVE  /\ from[q[i]] \in Nat /\ to[q[i]] \in Nat /\ from[q[i]] <= to[q[i]]
             /\ Begins(kids, from, to, n, i) \in Nat /\ Begins(kids, from, to, n, i) <= from[q[i]]
  <2>1. PICK x, a : x = q[i] /\ x = kids[n][i] /\ i \in 1 .. Len(kids[n]) /\ a = Begins(kids, from, to, n, i)
    BY <1>1
  <2> QED BY <2>1, AroundItem
<1> DEFINE P(k) == \A i \in 1 .. L : i < k => to[q[i]] < Begins(kids, from, to, n, k)
           T == {k \in 0 .. L : k # 0 => P(k)}
<1> HIDE DEF P
<1>3. 0 \in T
  OBVIOUS
<1>4. \A k \in 1 .. L : k - 1 \in T => k \in T
  <2> SUFFICES ASSUME NEW k \in 1 .. L, k # 1 => P(k - 1) PROVE P(k)
    OBVIOUS
  <2> SUFFICES ASSUME NEW i \in 1 .. L, i < k PROVE to[q[i]] < Begins(kids, from, to, n, k)
    BY DEF P
  <2>1. PICK h \in 1 .. L : h = k - 1
    OBVIOUS
  <2>2. Begins(kids, from, to, n, k) = to[q[h]] + 1
    BY <2>1 DEF Begins
  <2>3. to[q[i]] <= to[q[h]]
    <3>1. CASE i = h
      BY <1>2, <3>1
    <3>2. CASE i # h
      <4>1. i < h /\ k # 1
        BY <2>1, <3>2
      <4>2. to[q[i]] < Begins(kids, from, to, n, h)
        BY <2>1, <4>1 DEF P
      <4> QED BY <1>2, <4>2
    <3> QED BY <3>1, <3>2
  <2> QED BY <1>2, <2>2, <2>3
<1> HIDE DEF T
<1>5. 0 .. L \subseteq T
  BY <1>3, <1>4, UpTo
<1>6. ASSUME NEW k \in 1 .. L PROVE P(k)
  <2>1. k \in T /\ k # 0
    BY <1>5
  <2> QED BY <2>1 DEF T
<1>7. ASSUME NEW i \in 1 .. L, NEW j \in 1 .. L, i < j
      PROVE  from[q[i]] < from[q[j]] /\ to[q[i]] < from[q[j]]
  <2>1. to[q[i]] < Begins(kids, from, to, n, j)
    BY <1>6, <1>7 DEF P
  <2> QED BY <1>2, <2>1
<1>8. ASSUME NEW i \in 1 .. L PROVE to[q[i]] < to[n]
  <2>1. q # <<>> /\ L \in 1 .. L
    BY <1>1
  <2>2. to[n] = to[q[L]] + 1
    BY <1>1, <2>1, ListItems DEF After
  <2>3. to[q[i]] <= to[q[L]]
    <3>1. CASE i = L
      BY <1>2, <3>1
    <3>2. CASE i # L
      <4>1. to[q[i]] < from[q[L]]
        BY <1>7, <2>1, <3>2
      <4> QED BY <1>2, <2>1, <4>1
    <3> QED BY <3>1, <3>2
  <2> QED BY <1>2, <2>1, <2>2, <2>3
<1> QED BY <1>1, <1>7, <1>8

(* Places of a list's own level are at its end, or at an item or before it. *)
LEMMA ShallowPlaces ==
  ASSUME FormInv, NEW kids, NEW from, NEW to, NEW lev, Tree(kids, from, to, lev), pc \in {"parsed", "items"},
         NEW n \in DOMAIN nodes, nodes[n].type \in Opening, NEW q, q = kids[n],
         NEW p \in Nat, from[n] < p, p <= to[n]
  PROVE  /\ Level(p) = Level(from[n]) + 1 =>
              p = to[n] \/ \E i \in 1 .. Len(q) : Begins(kids, from, to, n, i) <= p /\ p <= from[q[i]]
         /\ \A i \in 1 .. Len(q) :
              Begins(kids, from, to, n, i) <= p /\ p <= from[q[i]] => Level(p) = Level(from[n]) + 1
<1>1. PICK l : l = Level(from[n]) + 1
  OBVIOUS
<1>2. \A i \in 1 .. Len(q) : Shut(from, to, q[i])
  BY ListItems, TreeShut
<1>3. l \in Int /\ \A i \in 1 .. Len(q) : Flat(from, to, q[i], Begins(kids, from, to, n, i), l)
  BY <1>1, <1>2, ListLevels
<1>4. ASSUME Level(p) = l, p # to[n]
      PROVE  \E i \in 1 .. Len(q) : Begins(kids, from, to, n, i) <= p /\ p <= from[q[i]]
  <2>1. PICK i \in 1 .. Len(q) : Begins(kids, from, to, n, i) <= p /\ p <= to[q[i]]
    BY <1>4, PlacesInList
  <2>2. PICK x, a : x = q[i] /\ x = kids[n][i] /\ i \in 1 .. Len(kids[n]) /\ a = Begins(kids, from, to, n, i)
    OBVIOUS
  <2>3. from[x] \in Nat
    BY <2>2, AroundItem
  <2>4. Flat(from, to, x, a, l)
    BY <1>3, <2>2
  <2>5. ~(from[x] < p)
    <3> SUFFICES ASSUME from[x] < p PROVE FALSE
      OBVIOUS
    <3>1. Level(p) >= l + 1
      BY <2>1, <2>2, <2>4 DEF Flat
    <3> QED BY <1>3, <1>4, <3>1
  <2> QED BY <2>1, <2>2, <2>3, <2>5
<1>5. ASSUME NEW i \in 1 .. Len(q), Begins(kids, from, to, n, i) <= p, p <= from[q[i]]
      PROVE  Level(p) = l
  BY <1>3, <1>5 DEF Flat
<1> QED BY <1>1, <1>4, <1>5

(* The places of the form's items, by what leads to them.                   *)
LEMMA PlacesAre ==
  ItemPlaces = {p \in Start(text) + 1 .. at - 1 :
                  text[p - 1] \in Lead(text[Start(text)]) /\ text[p] # "]" /\ Level(p) = 1}
BY Zenon DEF ItemPlaces, Lead, Comma

(* The places of the form's items are those of the root's children. *)
LEMMA ItemPlacesAre ==
  ASSUME FormInv, NEW kids, NEW from, NEW to, NEW lev, Tree(kids, from, to, lev), pc \in {"parsed", "items"},
         NEW q, q = kids[root]
  PROVE  ItemPlaces = {from[q[i]] : i \in 1 .. Len(q)}
<1>1. root \in DOMAIN nodes /\ at = to[root] + 1 /\ from[root] = Start(text)
  BY AcceptedReads DEF Tree
<1>2. PICK g \in Nat : g = from[root] /\ g # 0
  BY <1>1, ItemsAre
<1>3. PICK z \in Nat : z = to[root] /\ g <= z /\ at - 1 = z
  <2>1. to[root] \in Nat /\ from[root] <= to[root]
    BY <1>1, ItemsAre
  <2> QED BY <1>1, <1>2, <2>1
<1>4. PICK open : open = nodes[root].type
  OBVIOUS
<1>5. ItemPlaces = {p \in g + 1 .. z : text[p - 1] \in Lead(text[g]) /\ text[p] # "]" /\ Level(p) = 1}
  BY <1>1, <1>2, <1>3, PlacesAre
<1>6. CASE open \notin Opening
  <2>1. z = g /\ q = <<>>
    BY <1>1, <1>2, <1>3, <1>4, <1>6, AtomShut
  <2>2. g + 1 .. z = {} /\ Len(q) = 0
    BY <2>1
  <2>3. \A i : i \notin 1 .. Len(q)
    BY <2>2
  <2> QED BY <1>5, <2>2, <2>3
<1>7. CASE open \in Opening
  <2>1. text[g] = open /\ text[z] = ClosingOf(open)
    BY <1>1, <1>2, <1>3, <1>4, <1>7, ListItems
  <2>2. Level(g) = 0
    BY <1>1, <1>2, LevelAtStart
  <2>3. PICK L \in Nat : L = Len(q)
    <3>1. q \in Seq(Nat)
      BY <1>1, ItemsAre
    <3> QED BY <3>1
  <2>4. ASSUME NEW i \in 1 .. L PROVE from[q[i]] \in ItemPlaces
    <3>1. PICK x, a : x = q[i] /\ x = kids[root][i] /\ i \in 1 .. Len(kids[root]) /\ a = Begins(kids, from, to, root, i)
      BY <2>3
    <3>2. x \in DOMAIN nodes /\ a \in Nat /\ from[x] \in Nat /\ to[x] \in Nat /\ g < a /\ a <= from[x] /\ from[x] <= to[x]
      BY <1>1, <1>2, <1>4, <1>7, <3>1, AroundItem
    <3>3. to[x] < z
      BY <1>1, <1>3, <1>4, <1>7, <2>3, <3>1, ItemsInOrder
    <3>4. PICK e \in Nat : e = from[x]
      BY <3>2
    <3>5. g < e /\ e <= z
      BY <3>2, <3>3, <3>4
    <3>6. text[e - 1] \in Lead(text[g])
      BY <1>1, <1>4, <1>7, <2>1, <3>1, <3>4, LeadOfItem
    <3>7. text[e] # "]"
      <4>1. text[e] \in Beginnings
        BY <3>2, <3>4, EndsOfItem
      <4> QED BY <4>1, ClosingsAre DEF Beginnings
    <3>8. Level(e) = 1
      <4>1. from[root] < e /\ e <= to[root] /\ nodes[root].type \in Opening
        BY <1>2, <1>3, <1>4, <1>7, <3>5
      <4>2. i \in 1 .. Len(q) /\ Begins(kids, from, to, root, i) <= e /\ e <= from[q[i]]
        BY <2>3, <3>1, <3>2, <3>4
      <4>3. Level(e) = Level(from[root]) + 1
        BY <1>1, <4>1, <4>2, ShallowPlaces
      <4> QED BY <1>2, <2>2, <4>3
    <3>9. e \in g + 1 .. z
      BY <3>5
    <3> QED BY <1>5, <3>1, <3>4, <3>6, <3>7, <3>8, <3>9
  <2>5. ASSUME NEW p \in ItemPlaces PROVE \E i \in 1 .. L : p = from[q[i]]
    <3>1. p \in g + 1 .. z /\ text[p - 1] \in Lead(text[g]) /\ text[p] # "]" /\ Level(p) = 1
      BY <1>5
    <3>2. p \in Nat /\ g < p /\ p <= z
      BY <3>1
    <3>3. p # z
      <4> SUFFICES ASSUME p = z PROVE FALSE
        OBVIOUS
      <4>1. open # "["
        BY <2>1, <3>1, ClosingsAre
      <4>2. text[z - 1] = ":"
        BY <2>1, <3>1, <4>1, LeadsAre
      <4>3. CASE q = <<>>
        <5>1. z = g + 1
          <6>1. to[root] = After(kids, from, to, root)
            BY <1>1, <1>4, <1>7, ListItems
          <6> QED BY <1>2, <1>3, <4>3, <6>1 DEF After
        <5>2. text[z - 1] = open
          BY <2>1, <5>1
        <5> QED BY <1>7, <4>2, <5>2, ClosingsAre
      <4>4. CASE q # <<>>
        <5>1. L \in 1 .. L
          <6>1. q \in Seq(Nat)
            BY <1>1, ItemsAre
          <6>2. L # 0
            BY <2>3, <4>4, <6>1, EmptySeq
          <6> QED BY <6>2
        <5>2. PICK y : y = q[L] /\ y = kids[root][L]
          OBVIOUS
        <5>3. z = to[y] + 1
          BY <1>1, <1>3, <1>4, <1>7, <2>3, <4>4, <5>2, ListItems DEF After
        <5>4. y \in DOMAIN nodes
          BY <1>1, <1>4, <1>7, <2>3, <5>1, <5>2, ListItems
        <5>5. to[y] \in Nat
          BY <5>4, ItemsAre
        <5>6. z - 1 = to[y]
          BY <5>3, <5>5
        <5>7. text[z - 1] \in Atoms \cup Closings
          BY <5>4, <5>6, EndsOfItem
        <5> QED BY <4>2, <5>7, ClosingsAre
      <4> QED BY <4>3, <4>4
    <3>4. Level(p) = Level(from[root]) + 1
      BY <1>2, <2>2, <3>1
    <3>5. PICK i \in 1 .. L : Begins(kids, from, to, root, i) <= p /\ p <= from[q[i]]
      BY <1>1, <1>2, <1>3, <1>4, <1>7, <2>3, <3>2, <3>3, <3>4, ShallowPlaces
    <3>6. PICK x, a : x = q[i] /\ x = kids[root][i] /\ i \in 1 .. Len(kids[root]) /\ a = Begins(kids, from, to, root, i)
      BY <2>3
    <3>7. from[x] \in Nat
      BY <1>1, <1>4, <1>7, <3>6, AroundItem
    <3>8. ~(p < from[x])
      BY <1>1, <1>4, <1>7, <2>1, <3>1, <3>2, <3>5, <3>6, LeadOfItem
    <3> QED BY <3>2, <3>5, <3>6, <3>7, <3>8
  <2> QED BY <2>3, <2>4, <2>5
<1> QED BY <1>6, <1>7

(* The opening bracket of an object. *)
Brace == "{"

(* The brackets are this one and that of an array.                          *)
LEMMA BraceIs == Opening = {"[", Brace} /\ Brace # "[" /\ Brace \notin Atoms
<1>1. Opening = {"[", Brace} /\ Brace # "["
  BY Zenon DEF Opening, Brace
<1> QED BY <1>1, ClosingsAre

(* The item at a place has a string of that name.                           *)
LEMMA HasStringIs ==
  ASSUME NEW p, NEW name
  PROVE  HasString(p, name) <=> /\ text[p] = Brace /\ MemberPlaces(p, name) # {}
                                /\ text[Min(MemberPlaces(p, name)) + 2] \in Strings
BY Zenon DEF HasString, Brace

(* An item of an object, and where it stands in the text. *)
Member(from, to, x, y, e, f, g, z) ==
  e = from[y] /\ f = to[y] /\ g = from[x] /\ z = to[x] /\ g + 3 <= e /\ e <= f /\ f < z

(* An item of an object stands behind its name and its colon, inside the    *)
(* object.                                                                  *)
LEMMA MemberStands ==
  ASSUME FormInv, NEW kids, NEW from, NEW to, NEW lev, Tree(kids, from, to, lev), pc \in {"parsed", "items"},
         NEW x \in DOMAIN nodes, nodes[x].type = Brace, NEW k \in 1 .. Len(kids[x]), NEW y, y = kids[x][k],
         NEW a, a = Begins(kids, from, to, x, k)
  PROVE  \E e, f, g, z \in Nat : Member(from, to, x, y, e, f, g, z) /\ a \in Nat /\ g < a /\ a <= e - 2
<1>1. nodes[x].type \in Opening /\ nodes[x].type # "["
  BY BraceIs
<1>2. /\ y \in DOMAIN nodes
      /\ a \in Nat /\ from[y] \in Nat /\ to[y] \in Nat /\ from[x] \in Nat
      /\ from[x] < a /\ from[y] <= to[y] /\ a <= from[y] - 2
  BY <1>1, AroundItem
<1>3. to[y] < to[x]
  BY <1>1, ItemsInOrder
<1>4. to[x] \in Nat
  BY ItemsAre
<1>5. PICK e \in Nat, f \in Nat, g \in Nat, z \in Nat : e = from[y] /\ f = to[y] /\ g = from[x] /\ z = to[x]
  BY <1>2, <1>4
<1>6. g < a /\ a <= e - 2 /\ g + 3 <= e /\ e <= f /\ f < z
  BY <1>2, <1>3, <1>5
<1> QED BY <1>2, <1>5, <1>6 DEF Member

(* A string with a colon behind it is the name of an item.                  *)
LEMMA NameOfMember ==
  ASSUME FormInv, NEW kids, NEW from, NEW to, NEW lev, Tree(kids, from, to, lev), pc \in {"parsed", "items"},
         NEW x \in DOMAIN nodes, nodes[x].type = Brace, NEW k \in 1 .. Len(kids[x]), NEW y, y = kids[x][k],
         NEW p \in Nat, Begins(kids, from, to, x, k) <= p, p <= from[y], text[p + 1] = ":", text[p] \in Strings
  PROVE  p = from[y] - 2
<1>1. nodes[x].type \in Opening /\ nodes[x].type # "["
  BY BraceIs
<1>2. PICK a : a = Begins(kids, from, to, x, k)
  OBVIOUS
<1>3. PICK e \in Nat, f \in Nat, g \in Nat, z \in Nat :
        Member(from, to, x, y, e, f, g, z) /\ a \in Nat /\ g < a /\ a <= e - 2
  BY <1>2, MemberStands
<1>4. e = from[y] /\ f = to[y] /\ g = from[x] /\ z = to[x] /\ e <= f /\ f < z
  BY <1>3 DEF Member
<1>5. y \in DOMAIN nodes
  BY <1>1, ListItems
<1>6. CASE p < e
  <2>1. (k # 1 /\ p = a) \/ p = e - 2 \/ p = e - 1
    BY <1>1, <1>2, <1>4, <1>6, AroundItem
  <2>2. k # 1 => text[a] = Comma
    BY <1>1, <1>2, AroundItem
  <2>3. text[e - 1] = ":"
    BY <1>1, <1>2, <1>4, AroundItem
  <2> QED BY <1>4, <2>1, <2>2, <2>3, ClosingsAre
<1>7. CASE p = e
  <2>1. text[e] \in Strings
    BY <1>7
  <2>2. nodes[y].type \notin Opening
    <3> SUFFICES ASSUME nodes[y].type \in Opening PROVE FALSE
      OBVIOUS
    <3>1. text[e] = nodes[y].type
      BY <1>4, <1>5, EndsOfItem
    <3> QED BY <2>1, <3>1, ClosingsAre
  <2>3. f = e
    BY <1>4, <1>5, <2>2, AtomShut
  <2>4. PICK q : q = kids[x]
    OBVIOUS
  <2>5. PICK L \in Nat : L = Len(q)
    <3>1. q \in Seq(Nat)
      BY <2>4, ItemsAre
    <3> QED BY <3>1
  <2>6. CASE k = L
    <3>1. z = e + 1
      <4>1. q # <<>>
        BY <2>4, <2>5, <2>6
      <4>2. to[x] = After(kids, from, to, x)
        BY <1>1, ListItems
      <4>3. to[x] = to[q[L]] + 1
        BY <2>4, <2>5, <4>1, <4>2 DEF After
      <4> QED BY <1>4, <2>3, <2>4, <2>6, <4>3
    <3>2. text[z] \in Closings
      <4>1. text[z] = ClosingOf(nodes[x].type)
        BY <1>1, <1>4, ListItems
      <4> QED BY <1>1, <4>1, ClosingsAre
    <3> QED BY <1>7, <3>1, <3>2, ClosingsAre
  <2>7. CASE k # L
    <3>1. PICK j \in 1 .. L : j = k + 1 /\ j # 1 /\ k = j - 1
      BY <2>4, <2>5, <2>7
    <3>2. Before(kids, from, to, x, j) = e + 1
      BY <1>4, <2>3, <2>4, <3>1 DEF Before
    <3>3. text[Before(kids, from, to, x, j)] = Comma
      BY <1>1, <2>4, <2>5, <3>1, ListItems
    <3> QED BY <1>7, <3>2, <3>3, ClosingsAre
  <2> QED BY <2>6, <2>7
<1> QED BY <1>3, <1>4, <1>6, <1>7

(* The members of a name, of an object among the form's items.              *)
CalledSo(from, q, name) == {j \in 1 .. Len(q) : Folded[text[from[q[j]] - 2]] = name}
NamesOf(from, q, name) == {from[q[k]] - 2 : k \in CalledSo(from, q, name)}

(* They stand where the items' names are.                                   *)
LEMMA MemberPlacesAre ==
  ASSUME FormInv, NEW kids, NEW from, NEW to, NEW lev, Tree(kids, from, to, lev), pc \in {"parsed", "items"},
         NEW i \in 1 .. Len(kids[root]), NEW x, x = kids[root][i], nodes[x].type = Brace,
         NEW q, q = kids[x], NEW name
  PROVE  /\ x \in DOMAIN nodes
         /\ MemberPlaces(from[x], name) = NamesOf(from, q, name)
<1>1. root \in DOMAIN nodes /\ at = to[root] + 1 /\ from[root] = Start(text)
  BY AcceptedReads DEF Tree
<1>2. nodes[root].type \in Opening
  <2> SUFFICES ASSUME nodes[root].type \notin Opening PROVE FALSE
    OBVIOUS
  <2>1. kids[root] = <<>>
    BY <1>1, AtomShut
  <2> QED BY <2>1
<1>3. x \in DOMAIN nodes
  BY <1>1, <1>2, ListItems
<1>4. nodes[x].type \in Opening /\ nodes[x].type # "["
  BY BraceIs
<1>5. PICK g \in Nat : g = from[x]
  BY <1>3, ItemsAre
<1>6. PICK z \in Nat : z = to[x]
  BY <1>3, ItemsAre
<1>7. to[root] \in Nat /\ z < to[root] /\ at - 1 = to[root]
  <2>1. to[root] \in Nat
    BY <1>1, ItemsAre
  <2>2. to[x] < to[root]
    BY <1>1, <1>2, ItemsInOrder
  <2> QED BY <1>1, <1>6, <2>1, <2>2
<1>8. Level(g) = 1
  <2>1. g \in {from[kids[root][j]] : j \in 1 .. Len(kids[root])}
    BY <1>5
  <2>2. g \in ItemPlaces
    BY <2>1, ItemPlacesAre
  <2> QED BY <2>2, PlacesAre
<1>9. Level(z + 1) = 1 /\ \A p \in Nat : g < p /\ p <= z => Level(p) >= 2
  <2>1. Shut(from, to, x)
    BY <1>3, TreeShut
  <2> QED BY <1>5, <1>6, <1>8, <2>1 DEF Shut
<1>10. ASSUME NEW k \in 1 .. Len(q), Folded[text[from[q[k]] - 2]] = name
       PROVE  from[q[k]] - 2 \in MemberPlaces(g, name)
  <2>1. PICK y, a : y = q[k] /\ a = Begins(kids, from, to, x, k)
    OBVIOUS
  <2>2. \E e, f, g2, z2 \in Nat : Member(from, to, x, y, e, f, g2, z2) /\ a \in Nat /\ g2 < a /\ a <= e - 2
    BY <1>3, <2>1, MemberStands
  <2>3. PICK e \in Nat : e = from[y] /\ a \in Nat /\ g < a /\ a <= e - 2 /\ e < z
    BY <1>5, <1>6, <2>2 DEF Member
  <2>4. text[e - 2] \in Strings /\ text[e - 1] = ":"
    <3>1. k \in 1 .. Len(kids[x]) /\ y = kids[x][k]
      BY <2>1
    <3>2. text[from[y] - 2] \in Strings /\ text[from[y] - 1] = ":"
      BY <1>3, <1>4, <2>1, <3>1, AroundItem
    <3> QED BY <2>3, <3>2
  <2>5. PICK p \in Nat : p = e - 2 /\ p + 1 = e - 1 /\ g < p /\ p <= z /\ a <= p /\ p <= e
    BY <2>3
  <2>6. p \in g + 1 .. at - 2
    <3>1. PICK u \in Nat : u = to[root] /\ z < u /\ at = u + 1
      BY <1>1, <1>7
    <3>2. at - 2 = u - 1
      BY <3>1
    <3>3. p <= z
      BY <2>5
    <3>4. p \in g + 1 .. u - 1
      BY <2>5, <3>1, <3>3
    <3> QED BY <3>2, <3>4
  <2>7. Level(p) = 2
    <3>1. from[x] < p /\ p <= to[x] /\ Begins(kids, from, to, x, k) <= p /\ p <= from[q[k]]
      BY <1>5, <1>6, <2>1, <2>3, <2>5
    <3>2. Level(p) = Level(from[x]) + 1
      BY <1>3, <1>4, <3>1, ShallowPlaces
    <3> QED BY <1>5, <1>8, <3>2
  <2>8. \A r \in g + 1 .. p : Level(r) >= 2
    BY <1>9, <2>5
  <2>9. Folded[text[p]] = name /\ text[p] \in Strings /\ text[p + 1] = ":"
    BY <1>10, <2>1, <2>3, <2>4, <2>5
  <2>10. p \in MemberPlaces(g, name)
    BY <2>6, <2>7, <2>8, <2>9 DEF MemberPlaces
  <2> QED BY <2>1, <2>3, <2>5, <2>10
<1>11. ASSUME NEW p \in MemberPlaces(g, name)
       PROVE  \E k \in CalledSo(from, q, name) : p = from[q[k]] - 2
  <2>1. /\ p \in g + 1 .. at - 2 /\ text[p + 1] = ":" /\ text[p] \in Strings /\ Folded[text[p]] = name
        /\ Level(p) = 2 /\ \A r \in g + 1 .. p : Level(r) >= 2
    BY DEF MemberPlaces
  <2>2. p \in Nat /\ g < p
    BY <2>1
  <2>3. p <= z
    <3> SUFFICES ASSUME z < p PROVE FALSE
      BY <2>2
    <3>1. z + 1 \in g + 1 .. p
      <4>1. g <= z
        BY <1>3, <1>5, <1>6, ItemsAre
      <4> QED BY <2>2, <4>1
    <3>2. Level(z + 1) >= 2
      BY <2>1, <3>1
    <3> QED BY <1>9, <3>2
  <2>4. p # z
    <3>1. text[z] \in Closings
      <4>1. text[z] = ClosingOf(nodes[x].type)
        BY <1>3, <1>4, <1>6, ListItems
      <4> QED BY <1>4, <4>1, ClosingsAre
    <3> QED BY <2>1, <3>1, ClosingsAre
  <2>5. PICK k \in 1 .. Len(q) : Begins(kids, from, to, x, k) <= p /\ p <= from[q[k]]
    <3>1. from[x] < p /\ p <= to[x] /\ p # to[x] /\ Level(p) = Level(from[x]) + 1
      BY <1>5, <1>6, <1>8, <2>1, <2>2, <2>3, <2>4
    <3> QED BY <1>3, <1>4, <2>2, <3>1, ShallowPlaces
  <2>6. p = from[q[k]] - 2
    <3>1. PICK y : k \in 1 .. Len(kids[x]) /\ y = kids[x][k] /\ y = q[k]
      OBVIOUS
    <3>2. Begins(kids, from, to, x, k) <= p /\ p <= from[y] /\ text[p + 1] = ":" /\ text[p] \in Strings
      BY <2>1, <2>5, <3>1
    <3>3. /\ FormInv /\ Tree(kids, from, to, lev) /\ pc \in {"parsed", "items"}
          /\ x \in DOMAIN nodes /\ nodes[x].type = Brace /\ k \in 1 .. Len(kids[x]) /\ y = kids[x][k]
          /\ p \in Nat /\ Begins(kids, from, to, x, k) <= p /\ p <= from[y]
          /\ text[p + 1] = ":" /\ text[p] \in Strings
      BY <1>3, <2>2, <3>1, <3>2
    <3>4. p = from[y] - 2
      BY ONLY <3>3, NameOfMember
    <3> QED BY <3>1, <3>4
  <2> QED BY <2>1, <2>6 DEF CalledSo
<1>12. ASSUME NEW k \in CalledSo(from, q, name) PROVE from[q[k]] - 2 \in MemberPlaces(g, name)
  BY <1>10 DEF CalledSo
<1> QED BY <1>3, <1>5, <1>11, <1>12 DEF NamesOf

(* A bounded set of places has a last one. *)
LEMMA LastPlace ==
  ASSUME NEW N \in Nat, NEW S \in SUBSET (0 .. N), S # {}
  PROVE  Max(S) \in S /\ \A y \in S : y <= Max(S)
<1> DEFINE R == {k \in 0 .. N : N - k \in S}
<1>1. R \in SUBSET Nat /\ R # {}
  <2>1. PICK s : s \in S
    OBVIOUS
  <2>2. N - s \in 0 .. N /\ N - (N - s) = s
    BY <2>1
  <2> QED BY <2>1, <2>2
<1>2. Min(R) \in R /\ \A y \in R : Min(R) <= y
  BY <1>1, LeastIs
<1>3. PICK m \in 0 .. N : m = Min(R) /\ N - m \in S
  BY <1>2
<1>4. ASSUME NEW y \in S PROVE N - m >= y
  <2>1. N - y \in 0 .. N /\ N - (N - y) = y
    OBVIOUS
  <2>2. m <= N - y
    BY <1>2, <1>3, <2>1
  <2> QED BY <2>2
<1>5. \E x \in S : \A y \in S : x >= y
  BY <1>3, <1>4
<1>6. Max(S) \in S /\ \A y \in S : Max(S) >= y
  BY <1>5 DEF Max
<1> QED BY <1>6

(* The first and the last of a list's places that are in a set.             *)
LEMMA FirstAndLast ==
  ASSUME NEW L \in Nat, NEW F, \A i \in 1 .. L : F[i] \in Nat, \A i, j \in 1 .. L : i < j => F[i] < F[j],
         NEW I \in SUBSET (1 .. L), I # {}, NEW S, S = {F[i] : i \in I}
  PROVE  /\ Min(I) \in I /\ Min(S) = F[Min(I)]
         /\ Max(I) \in I /\ Max(S) = F[Max(I)] /\ \A i \in I : i <= Max(I)
<1>1. Min(I) \in I /\ \A y \in I : Min(I) <= y
  BY LeastIs
<1>2. I \in SUBSET (0 .. L)
  OBVIOUS
<1>3. Max(I) \in I /\ \A y \in I : y <= Max(I)
  BY <1>2, LastPlace
<1>4. PICK f \in 1 .. L : f = Min(I)
  BY <1>1
<1>5. PICK l \in 1 .. L : l = Max(I)
  BY <1>3
<1>6. \A i \in I : i \in 1 .. L /\ f <= i /\ i <= l
  BY <1>1, <1>3, <1>4, <1>5
<1>7. \A i \in I : F[i] \in Nat /\ F[f] <= F[i] /\ F[i] <= F[l]
  <2> SUFFICES ASSUME NEW i \in I PROVE F[i] \in Nat /\ F[f] <= F[i] /\ F[i] <= F[l]
    OBVIOUS
  <2>4. i \in 1 .. L /\ f <= i /\ i <= l
    BY <1>6
  <2>5. (f = i \/ f < i) /\ (i = l \/ i < l)
    BY <2>4
  <2>1. i \in 1 .. L /\ F[i] \in Nat /\ (f = i \/ f < i) /\ (i = l \/ i < l)
    BY <2>4, <2>5
  <2>2. F[f] <= F[i]
    BY <2>1
  <2>3. F[i] <= F[l]
    BY <2>1
  <2> QED BY <2>1, <2>2, <2>3
<1>8. F[f] \in S /\ F[l] \in S
  BY <1>1, <1>3, <1>4, <1>5
<1>9. S \in SUBSET Nat /\ S # {} /\ \A y \in S : F[f] <= y /\ y <= F[l]
  BY <1>7, <1>8
<1>10. Min(S) = F[f]
  <2>1. Min(S) \in S /\ \A y \in S : Min(S) <= y
    BY <1>9, LeastIs
  <2>2. Min(S) <= F[f] /\ F[f] <= Min(S) /\ Min(S) \in Nat /\ F[f] \in Nat
    BY <1>8, <1>9, <2>1
  <2> QED BY <2>2
<1>11. Max(S) = F[l]
  <2>1. F[l] \in Nat /\ S \in SUBSET (0 .. F[l])
    BY <1>8, <1>9
  <2>2. Max(S) \in S /\ \A y \in S : y <= Max(S)
    BY <1>9, <2>1, LastPlace
  <2>3. Max(S) <= F[l] /\ F[l] <= Max(S) /\ Max(S) \in Nat
    BY <1>8, <1>9, <2>2
  <2> QED BY <2>1, <2>3
<1> QED BY <1>1, <1>3, <1>4, <1>5, <1>10, <1>11

(* cJSON_GetObjectItem in terms of the tree. *)
NamedSo(q, name) == {k \in DOMAIN q : nodes[q[k]].string # NULL /\ Folded[strings[nodes[q[k]].string]] = name}

(* The first of the children of that name.                                  *)
LEMMA GetObjectItemIs ==
  ASSUME NEW x, NEW q, Children(x) = q, NEW name
  PROVE  GetObjectItem(x, name) = IF NamedSo(q, name) = {} THEN NULL ELSE q[Min(NamedSo(q, name))]
BY Zenon DEF GetObjectItem, NamedSo

(* A member of a form's item is a string if the text says so, and is that   *)
(* string.                                                                  *)
Agree(x, p, name) ==
  /\ HasString(p, name) <=> IsString(GetObjectItem(x, name))
  /\ HasString(p, name) => StringAt(GetObjectItem(x, name)) = StringIn(p, name)

(* An item that is no object has no member, in the tree and in the text.    *)
LEMMA OthersHaveNone ==
  ASSUME FormInv, NEW kids, NEW from, NEW to, NEW lev, Tree(kids, from, to, lev), pc \in {"parsed", "items"},
         NEW x \in DOMAIN nodes, nodes[x].type # Brace, NEW name
  PROVE  Agree(x, from[x], name)
<1>1. PICK q : q = kids[x] /\ q = Children(x)
  BY ItemsAre
<1>2. text[from[x]] # Brace
  <2>1. CASE nodes[x].type \in Opening
    BY <2>1, EndsOfItem
  <2>2. CASE nodes[x].type \notin Opening
    BY <2>2, EndsOfItem, BraceIs
  <2> QED BY <2>1, <2>2
<1>3. ~HasString(from[x], name)
  BY <1>2, HasStringIs
<1>4. NamedSo(q, name) = {}
  <2> SUFFICES ASSUME NEW k \in DOMAIN q PROVE nodes[q[k]].string = NULL
    BY DEF NamedSo
  <2>1. q \in Seq(Nat)
    BY <1>1, ItemsAre
  <2>2. k \in 1 .. Len(q)
    BY <2>1
  <2>3. nodes[x].type \in Opening
    <3> SUFFICES ASSUME nodes[x].type \notin Opening PROVE FALSE
      OBVIOUS
    <3>1. q = <<>>
      BY <1>1, AtomShut
    <3> QED BY <2>2, <3>1
  <2>4. nodes[x].type = "["
    BY <2>3, BraceIs
  <2>5. text[from[x]] = "["
    BY <2>3, <2>4, EndsOfItem
  <2>6. Named(nodes, strings, text, pc, LastItem(root, stack), kids, from, x)
    BY DEF Tree
  <2> QED BY <1>1, <2>2, <2>5, <2>6 DEF Named
<1>5. GetObjectItem(x, name) = NULL
  BY <1>1, <1>4, GetObjectItemIs
<1>6. ~IsString(GetObjectItem(x, name))
  BY <1>5 DEF IsString
<1> QED BY <1>3, <1>6 DEF Agree

(* In an object the first member of the name is the same in the tree and in *)
(* the text.                                                                *)
LEMMA ObjectsAgree ==
  ASSUME FormInv, NEW kids, NEW from, NEW to, NEW lev, Tree(kids, from, to, lev), pc \in {"parsed", "items"},
         NEW i \in 1 .. Len(kids[root]), NEW x, x = kids[root][i], nodes[x].type = Brace, NEW name
  PROVE  Agree(x, from[x], name)
<1>0. nodes[x].type \in Opening /\ nodes[x].type # "["
  BY BraceIs
<1>1. PICK q : q = kids[x]
  OBVIOUS
<1>2. PICK I : I = CalledSo(from, q, name)
  OBVIOUS
<1>3. x \in DOMAIN nodes /\ MemberPlaces(from[x], name) = {from[q[k]] - 2 : k \in I}
  <2>1. x \in DOMAIN nodes /\ MemberPlaces(from[x], name) = NamesOf(from, q, name)
    BY <1>1, MemberPlacesAre
  <2> QED BY <1>2, <2>1 DEF NamesOf
<1>4. q \in Seq(Nat) /\ Children(x) = q
  BY <1>1, <1>3, ItemsAre
<1>5. PICK L \in Nat : L = Len(q) /\ DOMAIN q = 1 .. L
  BY <1>4
<1>6. ASSUME NEW k \in 1 .. L
      PROVE  /\ q[k] \in DOMAIN nodes /\ from[q[k]] \in Nat /\ from[q[k]] - 2 \in Nat /\ from[q[k]] - 2 + 2 = from[q[k]]
             /\ nodes[q[k]].string # NULL /\ strings[nodes[q[k]].string] = text[from[q[k]] - 2]
  <2>1. PICK y, a : y = q[k] /\ y = kids[x][k] /\ k \in 1 .. Len(kids[x]) /\ a = Begins(kids, from, to, x, k)
    BY <1>1, <1>5
  <2>2. \E e, f, g, z \in Nat : Member(from, to, x, y, e, f, g, z) /\ a \in Nat /\ g < a /\ a <= e - 2
    BY <1>3, <2>1, MemberStands
  <2>3. PICK e \in Nat : e = from[y] /\ e >= 3
    BY <2>2 DEF Member
  <2>4. y \in DOMAIN nodes /\ HasName(nodes, strings, text, from, y)
    BY <1>0, <1>3, <2>1, ListItems
  <2>5. nodes[y].string # NULL
    BY <2>4 DEF HasName, FormInv, Owned
  <2>6. e - 2 \in Nat /\ (e - 2) + 2 = e
    BY <2>3
  <2> QED BY <2>1, <2>3, <2>4, <2>5, <2>6 DEF HasName
<1>7. NamedSo(q, name) = I
  BY <1>2, <1>5, <1>6 DEF NamedSo, CalledSo
<1>8. text[from[x]] = Brace
  BY <1>0, <1>3, EndsOfItem
<1>9. CASE I = {}
  <2>1. MemberPlaces(from[x], name) = {}
    BY <1>3, <1>9
  <2>2. ~HasString(from[x], name)
    BY <2>1, HasStringIs
  <2>3. GetObjectItem(x, name) = NULL
    BY <1>4, <1>7, <1>9, GetObjectItemIs
  <2> QED BY <2>2, <2>3 DEF Agree, IsString
<1>10. CASE I # {}
  <2> DEFINE F == [k \in 1 .. L |-> from[q[k]] - 2]
  <2>1. \A k \in 1 .. L : F[k] \in Nat
    BY <1>6
  <2>2. \A j, k \in 1 .. L : j < k => F[j] < F[k]
    <3> SUFFICES ASSUME NEW j \in 1 .. L, NEW k \in 1 .. L, j < k PROVE F[j] < F[k]
      OBVIOUS
    <3>1. from[q[j]] < from[q[k]]
      BY <1>0, <1>1, <1>3, <1>5, ItemsInOrder
    <3>2. from[q[j]] \in Nat /\ from[q[k]] \in Nat
      BY <1>6
    <3>3. from[q[j]] - 2 < from[q[k]] - 2
      BY <3>1, <3>2
    <3> QED BY <3>3
  <2>3. I \in SUBSET (1 .. L)
    BY <1>2, <1>5 DEF CalledSo
  <2>4. PICK S : S = MemberPlaces(from[x], name)
    OBVIOUS
  <2>5. S = {F[k] : k \in I}
    BY <1>3, <2>3, <2>4
  <2>6. \A k \in 1 .. L : F[k] = from[q[k]] - 2
    OBVIOUS
  <2> HIDE DEF F
  <2>7. Min(I) \in I /\ Min(S) = F[Min(I)]
    BY <1>10, <2>1, <2>2, <2>3, <2>5, FirstAndLast
  <2>8. PICK m \in 1 .. L : m = Min(I)
    BY <2>3, <2>7
  <2>9. PICK y : y = q[m]
    OBVIOUS
  <2>10. Min(S) + 2 = from[y] /\ y \in DOMAIN nodes
    BY <1>6, <2>6, <2>7, <2>8, <2>9
  <2>11. GetObjectItem(x, name) = y
    BY <1>4, <1>7, <1>10, <2>8, <2>9, GetObjectItemIs
  <2>12. S # {}
    BY <1>10, <2>5
  <2>13. HasString(from[x], name) <=> text[from[y]] \in Strings
    BY <1>8, <2>4, <2>10, <2>12, HasStringIs
  <2>14. StringIn(from[x], name) = text[from[y]]
    BY <2>4, <2>10 DEF StringIn
  <2>15. y # NULL
    <3>1. NULL \notin DOMAIN nodes
      BY DEF FormInv, Hung, IsHeap
    <3> QED BY <2>10, <3>1
  <2>16. CASE nodes[y].type \in Opening
    <3>1. text[from[y]] = nodes[y].type
      BY <2>10, <2>16, EndsOfItem
    <3>2. text[from[y]] \notin Strings
      BY <2>16, <3>1, ClosingsAre
    <3>3. nodes[y].type # "string"
      BY <2>16 DEF Opening
    <3> QED BY <2>11, <2>13, <3>2, <3>3 DEF Agree, IsString
  <2>17. CASE nodes[y].type \notin Opening
    <3>1. HoldsAtom(nodes, strings, text, kids, from, to, y)
      BY <2>10, <2>17, ItemsAre DEF Complete
    <3>2. CASE nodes[y].type = "string"
      <4>1. strings[nodes[y].valuestring] = text[from[y]] /\ text[from[y]] \in Strings
        BY <3>1, <3>2 DEF HoldsAtom
      <4> QED BY <2>11, <2>13, <2>14, <2>15, <3>2, <4>1 DEF Agree, IsString, StringAt
    <3>3. CASE nodes[y].type # "string"
      <4>1. text[from[y]] \in Literals \cup {"number"}
        BY <3>1, <3>3 DEF HoldsAtom
      <4>2. (Literals \cup {"number"}) \cap Strings = {}
        <5>1. Literals \cup {"number"} \subseteq Marks
          BY Zenon DEF Marks
        <5> QED BY <5>1, FormAssumption
      <4> QED BY <2>11, <2>13, <3>3, <4>1, <4>2 DEF Agree, IsString
    <3> QED BY <3>2, <3>3
  <2> QED BY <2>16, <2>17
<1> QED BY <1>9, <1>10

(* An item is put if and only if its text is a setting.                     *)
KindOf(x) == Folded[StringAt(GetObjectItem(x, "type"))]
NameOf(x) == StringAt(GetObjectItem(x, "name"))
ValueOf(x) == StringAt(GetObjectItem(x, "value"))
IsPut(x) ==
  /\ IsString(GetObjectItem(x, "name")) /\ IsString(GetObjectItem(x, "type"))
  /\ IsString(GetObjectItem(x, "value")) /\ KindOf(x) \in Types

(* So what is put is what the text says.                                    *)
LEMMA ItemsAgree ==
  ASSUME FormInv, NEW kids, NEW from, NEW to, NEW lev, Tree(kids, from, to, lev), pc \in {"parsed", "items"},
         NEW i \in 1 .. Len(kids[root]), NEW x, x = kids[root][i], NEW p, p = from[x]
  PROVE  /\ IsPut(x) <=> IsSetting(p)
         /\ IsPut(x) => /\ NameOf(x) = StringIn(p, "name") /\ KindOf(x) = Folded[StringIn(p, "type")]
                        /\ ValueOf(x) = StringIn(p, "value")
<1>1. ASSUME NEW name PROVE Agree(x, p, name)
  <2>1. CASE nodes[x].type = Brace
    BY <2>1, ObjectsAgree
  <2>2. CASE nodes[x].type # Brace
    <3>1. root \in DOMAIN nodes
      BY AcceptedReads
    <3>2. nodes[root].type \in Opening
      <4> SUFFICES ASSUME nodes[root].type \notin Opening PROVE FALSE
        OBVIOUS
      <4>1. kids[root] = <<>>
        BY <3>1, AtomShut
      <4> QED BY <4>1
    <3>3. x \in DOMAIN nodes
      BY <3>1, <3>2, ListItems
    <3> QED BY <2>2, <3>3, OthersHaveNone
  <2> QED BY <2>1, <2>2
<1>2. Agree(x, p, "name") /\ Agree(x, p, "type") /\ Agree(x, p, "value")
  BY <1>1
<1> QED BY <1>2 DEF Agree, IsPut, IsSetting, NameOf, KindOf, ValueOf

(* What the loop has put after the first m items of the form.               *)
PutsTo(x, key) == IsPut(x) /\ NameOf(x) = key
LastNamed(q, m, key, i) == PutsTo(q[i], key) /\ \A j \in i + 1 .. m : ~PutsTo(q[j], key)
PutLast(q, m, key) ==
  /\ (\A i \in 1 .. m : ~PutsTo(q[i], key)) => ram[key] = before[key]
  /\ \A i \in 1 .. m : LastNamed(q, m, key, i) => ram[key] = Converted(key, KindOf(q[i]), ValueOf(q[i]))

IsModeItem(x) == IsMode(NameOf(x)) /\ KindOf(x) = "int"
LastMode(q, m, i) == IsModeItem(q[i]) /\ \A j \in i + 1 .. m : ~IsModeItem(q[j])
ModeLast(q, m) ==
  /\ (\A i \in 1 .. m : ~IsModeItem(q[i])) => requested_mode = NoMode
  /\ \A i \in 1 .. m : LastMode(q, m, i) => requested_mode = Atoi[ValueOf(q[i])]

Loop(q, m) ==
  /\ item = IF m = Len(q) THEN NULL ELSE q[m + 1]
  /\ flash = Default
  /\ valid_json <=> \A i \in 1 .. m : IsPut(q[i])
  /\ ~valid_json => response_status = "bad request"
  /\ valid_json => ModeLast(q, m)
  /\ \A key \in Keys : PutLast(q, m, key)

LoopInv ==
  /\ pc \notin {"items", "answered"} =>
       ram = before /\ flash = Default /\ valid_json = TRUE /\ requested_mode = NoMode
  /\ pc = "items" => \E q : q = Children(root) /\ \E m \in 0 .. Len(q) : Loop(q, m)
  /\ SavedAsAsked

(* The operators about the tree stay when the heap does.                    *)
LEMMA HeapStays ==
  ASSUME UNCHANGED <<nodes, strings, root>>
  PROVE  /\ \A n : Children(n)' = Children(n)
         /\ \A x, name : GetObjectItem(x, name)' = GetObjectItem(x, name)
         /\ \A x : StringAt(x)' = StringAt(x) /\ (IsString(x)' <=> IsString(x))
<1>1. ASSUME NEW n PROVE Children(n)' = Children(n)
  <2>1. ChildFrom(nodes', n) = ChildFrom(nodes, n)
    OBVIOUS
  <2>2. Children(n) = [k \in {j \in DOMAIN ChildFrom(nodes, n) : ChildFrom(nodes, n)[j] # NULL} |->
                         ChildFrom(nodes, n)[k]]
    BY ChildrenByPlace
  <2>3. Children(n)' = [k \in {j \in DOMAIN ChildFrom(nodes', n) : ChildFrom(nodes', n)[j] # NULL} |->
                          ChildFrom(nodes', n)[k]]
    BY Zenon DEF Children, ChildFrom, ChildOf
  <2>4. PICK w : w = ChildFrom(nodes, n) /\ w = ChildFrom(nodes', n)
    BY <2>1
  <2> QED BY <2>2, <2>3, <2>4
<1>2. ASSUME NEW x, NEW name PROVE GetObjectItem(x, name)' = GetObjectItem(x, name)
  <2>1. PICK q : q = Children(x) /\ Children(x)' = q
    BY <1>1
  <2>2. GetObjectItem(x, name) = IF NamedSo(q, name) = {} THEN NULL ELSE q[Min(NamedSo(q, name))]
    BY <2>1, GetObjectItemIs
  <2>3. GetObjectItem(x, name)' =
          IF NamedSo(Children(x), name)' = {} THEN NULL ELSE Children(x)'[Min(NamedSo(Children(x), name)')]
    BY Zenon DEF GetObjectItem, NamedSo
  <2>4. NamedSo(Children(x), name)' = NamedSo(q, name)
    BY <2>1 DEF NamedSo
  <2> QED BY <2>1, <2>2, <2>3, <2>4
<1>3. ASSUME NEW x PROVE StringAt(x)' = StringAt(x) /\ (IsString(x)' <=> IsString(x))
  BY DEF StringAt, IsString
<1> QED BY <1>1, <1>2, <1>3

(* What the loop looks at in an item stays when the heap does.              *)
LEMMA ItemStays ==
  ASSUME UNCHANGED <<nodes, strings, root>>, NEW x
  PROVE  /\ NameOf(x)' = NameOf(x) /\ KindOf(x)' = KindOf(x) /\ ValueOf(x)' = ValueOf(x)
         /\ IsPut(x)' <=> IsPut(x)
         /\ IsModeItem(x)' <=> IsModeItem(x)
         /\ \A key : PutsTo(x, key)' <=> PutsTo(x, key)
<1>1. ASSUME NEW name
      PROVE  /\ StringAt(GetObjectItem(x, name))' = StringAt(GetObjectItem(x, name))
             /\ IsString(GetObjectItem(x, name))' <=> IsString(GetObjectItem(x, name))
  <2>1. PICK y : y = GetObjectItem(x, name) /\ y = GetObjectItem(x, name)'
    BY HeapStays
  <2> QED BY <2>1 DEF StringAt, IsString
<1>2. NameOf(x)' = NameOf(x)
  BY <1>1 DEF NameOf
<1>3. KindOf(x)' = KindOf(x)
  BY <1>1 DEF KindOf
<1>4. ValueOf(x)' = ValueOf(x)
  BY <1>1 DEF ValueOf
<1>5. IsPut(x)' <=> IsPut(x)
  BY <1>1, <1>3 DEF IsPut
<1>6. IsModeItem(x)' <=> IsModeItem(x)
  BY <1>2, <1>3 DEF IsModeItem, IsMode
<1>7. \A key : PutsTo(x, key)' <=> PutsTo(x, key)
  BY <1>2, <1>5 DEF PutsTo
<1> QED BY <1>2, <1>3, <1>4, <1>5, <1>6, <1>7

(* What has been put is kept, and the next item's word is the last.         *)
LEMMA PutGrows ==
  ASSUME UNCHANGED <<nodes, strings, root, before>>, NEW q, NEW m \in Nat, NEW x, x = q[m + 1], NEW key,
         PutLast(q, m, key),
         IF PutsTo(x, key) THEN ram'[key] = Converted(key, KindOf(x), ValueOf(x)) ELSE ram'[key] = ram[key]
  PROVE  PutLast(q, m + 1, key)'
<1>1. \A i : /\ PutsTo(q[i], key)' <=> PutsTo(q[i], key)
             /\ KindOf(q[i])' = KindOf(q[i]) /\ ValueOf(q[i])' = ValueOf(q[i])
  BY ItemStays
<1>2. \A a : a \in 1 .. m + 1 => a \in 1 .. m \/ a = m + 1
  OBVIOUS
<1>3. ASSUME \A i \in 1 .. m + 1 : ~PutsTo(q[i], key) PROVE ram'[key] = before[key]
  <2>1. m + 1 \in 1 .. m + 1 /\ \A i \in 1 .. m : i \in 1 .. m + 1
    OBVIOUS
  <2>2. ~PutsTo(x, key) /\ \A i \in 1 .. m : ~PutsTo(q[i], key)
    BY <1>3, <2>1
  <2> QED BY <2>2 DEF PutLast
<1>4. ASSUME NEW i \in 1 .. m + 1, PutsTo(q[i], key), \A j \in i + 1 .. m + 1 : ~PutsTo(q[j], key)
      PROVE  ram'[key] = Converted(key, KindOf(q[i]), ValueOf(q[i]))
  <2>1. CASE i = m + 1
    BY <1>4, <2>1
  <2>2. CASE i # m + 1
    <3>1. i \in 1 .. m /\ m + 1 \in i + 1 .. m + 1 /\ \A j \in i + 1 .. m : j \in i + 1 .. m + 1
      BY <2>2
    <3>2. ~PutsTo(x, key)
      BY <1>4, <3>1
    <3>3. LastNamed(q, m, key, i)
      BY <1>4, <3>1 DEF LastNamed
    <3>4. ram[key] = Converted(key, KindOf(q[i]), ValueOf(q[i]))
      BY <3>1, <3>3 DEF PutLast
    <3> QED BY <3>2, <3>4
  <2> QED BY <2>1, <2>2
<1>5. \A a, b, c : Converted(a, b, c)' = Converted(a, b, c)
  BY Zenon DEF Converted
<1> QED BY <1>1, <1>3, <1>4 DEF PutLast, LastNamed

(* The last word on the mode, too.                                          *)
LEMMA ModeGrows ==
  ASSUME UNCHANGED <<nodes, strings, root>>, NEW q, NEW m \in Nat, NEW x, x = q[m + 1],
         ModeLast(q, m),
         IF IsModeItem(x) THEN requested_mode' = Atoi[ValueOf(x)] ELSE requested_mode' = requested_mode
  PROVE  ModeLast(q, m + 1)'
<1>1. \A i : (IsModeItem(q[i])' <=> IsModeItem(q[i])) /\ ValueOf(q[i])' = ValueOf(q[i])
  BY ItemStays
<1>3. ASSUME \A i \in 1 .. m + 1 : ~IsModeItem(q[i]) PROVE requested_mode' = NoMode
  <2>1. m + 1 \in 1 .. m + 1 /\ \A i \in 1 .. m : i \in 1 .. m + 1
    OBVIOUS
  <2>2. ~IsModeItem(x) /\ \A i \in 1 .. m : ~IsModeItem(q[i])
    BY <1>3, <2>1
  <2> QED BY <2>2 DEF ModeLast
<1>4. ASSUME NEW i \in 1 .. m + 1, IsModeItem(q[i]), \A j \in i + 1 .. m + 1 : ~IsModeItem(q[j])
      PROVE  requested_mode' = Atoi[ValueOf(q[i])]
  <2>1. CASE i = m + 1
    BY <1>4, <2>1
  <2>2. CASE i # m + 1
    <3>1. i \in 1 .. m /\ m + 1 \in i + 1 .. m + 1 /\ \A j \in i + 1 .. m : j \in i + 1 .. m + 1
      BY <2>2
    <3>2. ~IsModeItem(x)
      BY <1>4, <3>1
    <3>3. LastMode(q, m, i)
      BY <1>4, <3>1 DEF LastMode
    <3>4. requested_mode = Atoi[ValueOf(q[i])]
      BY <3>1, <3>3 DEF ModeLast
    <3> QED BY <3>2, <3>4
  <2> QED BY <2>1, <2>2
<1> QED BY <1>1, <1>3, <1>4 DEF ModeLast, LastMode, NoMode

(* What a put leaves in the table. *)
LEMMA PutItemIs ==
  ASSUME DOMAIN ram = Keys, PutItem
  PROVE  /\ IsPut(item) =>
              /\ UNCHANGED <<valid_json, response_status>>
              /\ \A key \in Keys :
                   ram'[key] = IF NameOf(item) = key THEN Converted(key, KindOf(item), ValueOf(item)) ELSE ram[key]
              /\ requested_mode' = IF IsModeItem(item) THEN Atoi[ValueOf(item)] ELSE requested_mode
         /\ ~IsPut(item) => valid_json' = FALSE /\ response_status' = "bad request" /\ ram' = ram
<1>1. IF IsPut(item)
      THEN /\ ram' = Put(ram, NameOf(item), Converted(NameOf(item), KindOf(item), ValueOf(item)))
           /\ requested_mode' = IF KindOf(item) = "int" /\ IsMode(NameOf(item))
                                THEN Atoi[ValueOf(item)] ELSE requested_mode
           /\ UNCHANGED <<valid_json, response_status>>
      ELSE /\ valid_json' = FALSE /\ response_status' = "bad request"
           /\ UNCHANGED <<ram, requested_mode>>
  BY Zenon DEF PutItem, IsPut, NameOf, KindOf, ValueOf
<1>2. \A name, v : \A key \in Keys : Put(ram, name, v)[key] = IF name = key THEN v ELSE ram[key]
  <2> SUFFICES ASSUME NEW name, NEW v, NEW key \in Keys
               PROVE  Put(ram, name, v)[key] = IF name = key THEN v ELSE ram[key]
    OBVIOUS
  <2>1. CASE name \in Keys
    <3>1. Put(ram, name, v) = [ram EXCEPT ![name] = v]
      BY <2>1 DEF Put
    <3> QED BY <2>1, <3>1
  <2>2. CASE name \notin Keys
    BY <2>2 DEF Put
  <2> QED BY <2>1, <2>2
<1>3. CASE IsPut(item)
  <2>1. PICK v : v = Converted(NameOf(item), KindOf(item), ValueOf(item))
    OBVIOUS
  <2>2. ram' = Put(ram, NameOf(item), v)
    BY <1>1, <1>3, <2>1
  <2>3. \A key \in Keys : ram'[key] = IF NameOf(item) = key THEN v ELSE ram[key]
    BY <1>2, <2>2
  <2>4. \A key \in Keys :
          ram'[key] = IF NameOf(item) = key THEN Converted(key, KindOf(item), ValueOf(item)) ELSE ram[key]
    BY <2>1, <2>3
  <2>5. requested_mode' = IF IsModeItem(item) THEN Atoi[ValueOf(item)] ELSE requested_mode
    BY <1>1, <1>3 DEF IsModeItem
  <2> QED BY <1>1, <1>3, <2>4, <2>5
<1>4. CASE ~IsPut(item)
  BY <1>1, <1>4
<1> QED BY <1>3, <1>4

(* The loop's steps keep its invariant. *)
LEMMA LoopBegins ==
  ASSUME FormInv, TreeInv, ReadInv, LoopInv, FirstItem
  PROVE  \E q : q = Children(root)' /\ \E m \in 0 .. Len(q) : Loop(q, m)'
<1>0. /\ pc = "parsed" /\ root # NULL /\ item' = nodes[root].child
      /\ UNCHANGED <<nodes, strings, root, requested_mode, valid_json, ram, flash, before, response_status>>
      /\ ram = before /\ flash = Default /\ valid_json = TRUE /\ requested_mode = NoMode
  BY DEF FirstItem, LoopInv, parserVars
<1>1. PICK kids, from, to, lev : Tree(kids, from, to, lev)
  BY <1>0 DEF TreeInv, HasTree
<1>2. root \in DOMAIN nodes
  BY <1>0, <1>1, AcceptedReads
<1>3. PICK q : q = kids[root] /\ q = Children(root) /\ q \in Seq(Nat) /\ Parted(nodes, kids, root)
  BY <1>0, <1>1, <1>2, ItemsAre
<1>4. Children(root)' = q
  BY <1>0, <1>3, HeapStays
<1>5. item' = IF 0 = Len(q) THEN NULL ELSE q[0 + 1]
  BY <1>0, <1>3, EmptySeq DEF Parted
<1>6. 1 .. 0 = {}
  OBVIOUS
<1>7. ModeLast(q, 0)'
  BY <1>0, <1>6 DEF ModeLast, NoMode
<1>8. \A key \in Keys : PutLast(q, 0, key)'
  BY <1>0, <1>6 DEF PutLast
<1>9. valid_json' <=> \A i \in 1 .. 0 : IsPut(q[i])'
  BY <1>0, <1>6
<1>10. Loop(q, 0)'
  BY <1>0, <1>5, <1>7, <1>8, <1>9 DEF Loop, NULL
<1>11. 0 \in 0 .. Len(q)
  BY <1>3
<1> QED BY <1>4, <1>10, <1>11

(* A step from an item to the next: the new item has been put, or the form  *)
(* is bad.                                                                  *)
LEMMA LoopGoesOn ==
  ASSUME FormInv, TreeInv, ReadInv, LoopInv, NextOfForm
  PROVE  \E q : q = Children(root)' /\ \E m \in 0 .. Len(q) : Loop(q, m)'
<1>0. /\ pc = "items" /\ root # NULL /\ item # NULL /\ item' = nodes[item].next /\ PutItem
      /\ UNCHANGED <<nodes, strings, root, flash, before>>
  BY DEF NextOfForm, parserVars, ReadInv
<1>1. PICK kids, from, to, lev : Tree(kids, from, to, lev)
  BY <1>0 DEF TreeInv, HasTree
<1>2. root \in DOMAIN nodes
  BY <1>0, <1>1, AcceptedReads
<1>3. PICK q : q = kids[root] /\ q = Children(root) /\ q \in Seq(Nat) /\ Row(nodes, kids, root)
  BY <1>0, <1>1, <1>2, ItemsAre
<1>4. Children(root)' = q
  BY <1>0, <1>3, HeapStays
<1>5. PICK m \in 0 .. Len(q) : Loop(q, m)
  BY <1>0, <1>3 DEF LoopInv
<1>6. PICK L \in Nat : L = Len(q)
  BY <1>3
<1>7. m # L /\ item = q[m + 1] /\ m + 1 \in 1 .. L
  <2>1. item = IF m = L THEN NULL ELSE q[m + 1]
    BY <1>5, <1>6 DEF Loop
  <2>2. m \in 0 .. L
    BY <1>6
  <2>3. m # L
    BY <1>0, <2>1
  <2> QED BY <1>6, <2>1, <2>2, <2>3
<1>8. item' = IF m + 1 = L THEN NULL ELSE q[(m + 1) + 1]
  <2>1. PICK i \in 1 .. L : i = m + 1
    BY <1>7
  <2>2. /\ i < L => nodes[q[i]].next = q[i + 1]
        /\ i = L => nodes[q[i]].next = NULL
    BY <1>3, <1>6 DEF Row
  <2>3. i < L \/ i = L
    BY <1>6
  <2> QED BY <1>0, <1>7, <2>1, <2>2, <2>3
<1>9. DOMAIN ram = Keys
  BY DEF FormInv, Tables
<1>10. m \in Nat /\ UNCHANGED <<nodes, strings, root, before>>
  BY <1>0, <1>6
<1>11. \A i : IsPut(q[i])' <=> IsPut(q[i])
  BY <1>0, ItemStays
<1>12. \A i : i \in 1 .. m + 1 <=> i \in 1 .. m \/ i = m + 1
  BY <1>10
<1>13. flash' = Default
  BY <1>0, <1>5 DEF Loop
<1>14. ASSUME NEW key \in Keys PROVE PutLast(q, m + 1, key)'
  <2>1. PutLast(q, m, key)
    BY <1>5 DEF Loop
  <2>2. IF PutsTo(item, key) THEN ram'[key] = Converted(key, KindOf(item), ValueOf(item))
        ELSE ram'[key] = ram[key]
    <3>1. CASE IsPut(item)
      BY <1>0, <1>9, <3>1, PutItemIs DEF PutsTo
    <3>2. CASE ~IsPut(item)
      BY <1>0, <1>9, <3>2, PutItemIs DEF PutsTo
    <3> QED BY <3>1, <3>2
  <2> QED BY <1>7, <1>10, <2>1, <2>2, PutGrows
<1>15. CASE IsPut(item)
  <2>1. /\ UNCHANGED <<valid_json, response_status>>
        /\ requested_mode' = IF IsModeItem(item) THEN Atoi[ValueOf(item)] ELSE requested_mode
    BY <1>0, <1>9, <1>15, PutItemIs
  <2>2. valid_json' <=> \A i \in 1 .. m + 1 : IsPut(q[i])'
    <3>1. valid_json <=> \A i \in 1 .. m : IsPut(q[i])
      BY <1>5 DEF Loop
    <3>2. IsPut(q[m + 1])
      BY <1>7, <1>15
    <3>3. valid_json' = valid_json
      BY <2>1
    <3>4. (\A i \in 1 .. m + 1 : IsPut(q[i])) <=> \A i \in 1 .. m : IsPut(q[i])
      BY <1>12, <3>2
    <3> QED BY <1>11, <3>1, <3>3, <3>4
  <2>3. ASSUME valid_json' PROVE ModeLast(q, m + 1)'
    <3>1. ModeLast(q, m)
      BY <1>5, <2>1, <2>3 DEF Loop
    <3> QED BY <1>7, <1>10, <2>1, <3>1, ModeGrows
  <2>4. ~valid_json' => response_status' = "bad request"
    BY <1>5, <2>1 DEF Loop
  <2>5. Loop(q, m + 1)'
    BY <1>6, <1>8, <1>13, <1>14, <2>2, <2>3, <2>4 DEF Loop, NULL
  <2> QED BY <1>4, <1>6, <1>7, <2>5
<1>16. CASE ~IsPut(item)
  <2>1. valid_json' = FALSE /\ response_status' = "bad request"
    BY <1>0, <1>9, <1>16, PutItemIs
  <2>2. ~\A i \in 1 .. m + 1 : IsPut(q[i])'
    <3>1. ~IsPut(q[m + 1])
      BY <1>7, <1>16
    <3>2. m + 1 \in 1 .. m + 1
      BY <1>10
    <3> QED BY <1>11, <3>1, <3>2
  <2>3. Loop(q, m + 1)'
    BY <1>6, <1>8, <1>13, <1>14, <2>1, <2>2 DEF Loop, NULL
  <2> QED BY <1>4, <1>6, <1>7, <2>3
<1> QED BY <1>15, <1>16

(* The table that is asked for, of the places of a key and those of a mode. *)
Under(key) == {p \in ItemPlaces : IsSetting(p) /\ StringIn(p, "name") = key}
Modes == {p \in ItemPlaces : /\ Folded[StringIn(p, "name")] = Folded[Mode]
                             /\ Folded[StringIn(p, "type")] = "int"}

(* The table that is asked for, by these places.                            *)
LEMMA LastWordIs ==
  ASSUME NEW key
  PROVE  LastWord(key) =
           IF Under(key) = {} THEN before[key]
           ELSE Converted(key, Folded[StringIn(Max(Under(key)), "type")], StringIn(Max(Under(key)), "value"))
BY Zenon DEF LastWord, Under

LEMMA AskedIs ==
  ASSUME NEW key
  PROVE  Asked(key) =
           IF key = Mode /\ Modes # {} /\ Atoi[StringIn(Max(Modes), "value")] \in {"1", "2"}
           THEN Atoi[StringIn(Max(Modes), "value")]
           ELSE LastWord(key)
BY Zenon DEF Asked, Modes

(* The items of a form and their places: what both lemmas below are about.  *)
Items(q, L, F) ==
  /\ L \in Nat
  /\ \A i \in 1 .. L : F[i] \in Nat
  /\ \A i, j \in 1 .. L : i < j => F[i] < F[j]
  /\ ItemPlaces = {F[i] : i \in 1 .. L}
  /\ \A i \in 1 .. L : /\ IsPut(q[i]) <=> IsSetting(F[i])
                       /\ IsPut(q[i]) => /\ NameOf(q[i]) = StringIn(F[i], "name")
                                         /\ KindOf(q[i]) = Folded[StringIn(F[i], "type")]
                                         /\ ValueOf(q[i]) = StringIn(F[i], "value")

(* The root's children are the items of the text.                           *)
LEMMA ItemsOfForm ==
  ASSUME FormInv, NEW kids, NEW from, NEW to, NEW lev, Tree(kids, from, to, lev), pc \in {"parsed", "items"},
         NEW q, q = kids[root]
  PROVE  \E F : Items(q, Len(q), F)
<1>1. root \in DOMAIN nodes
  BY AcceptedReads
<1>2. q \in Seq(Nat)
  BY <1>1, ItemsAre
<1>3. PICK L \in Nat : L = Len(q)
  BY <1>2
<1> DEFINE F == [i \in 1 .. L |-> from[q[i]]]
<1>4. \A i \in 1 .. L : F[i] = from[q[i]]
  OBVIOUS
<1> HIDE DEF F
<1>5. ItemPlaces = {F[i] : i \in 1 .. L}
  <2>1. ItemPlaces = {from[q[i]] : i \in 1 .. Len(q)}
    BY ItemPlacesAre
  <2> QED BY <1>3, <1>4, <2>1
<1>6. CASE nodes[root].type \notin Opening
  <2>1. q = <<>>
    BY <1>1, <1>6, AtomShut
  <2>2. L = 0
    BY <1>3, <2>1
  <2>3. \A i : i \notin 1 .. L
    BY <2>2
  <2>4. Items(q, L, F)
    BY <1>5, <2>2, <2>3 DEF Items
  <2> QED BY <1>3, <2>4
<1>7. CASE nodes[root].type \in Opening
  <2>1. ASSUME NEW i \in 1 .. L PROVE F[i] \in Nat
    <3>1. PICK x : x = q[i] /\ x = kids[root][i] /\ i \in 1 .. Len(kids[root])
      BY <1>3
    <3>2. x \in DOMAIN nodes
      BY <1>1, <1>7, <3>1, ListItems
    <3>3. from[x] \in Nat
      BY <3>2, ItemsAre
    <3> QED BY <1>4, <3>1, <3>3
  <2>2. ASSUME NEW i \in 1 .. L, NEW j \in 1 .. L, i < j PROVE F[i] < F[j]
    <3>1. i \in 1 .. Len(q) /\ j \in 1 .. Len(q)
      BY <1>3
    <3>2. from[q[i]] < from[q[j]]
      BY <1>1, <1>7, <2>2, <3>1, ItemsInOrder
    <3> QED BY <1>4, <3>2
  <2>3. ASSUME NEW i \in 1 .. L
        PROVE  /\ IsPut(q[i]) <=> IsSetting(F[i])
               /\ IsPut(q[i]) => /\ NameOf(q[i]) = StringIn(F[i], "name")
                                 /\ KindOf(q[i]) = Folded[StringIn(F[i], "type")]
                                 /\ ValueOf(q[i]) = StringIn(F[i], "value")
    <3>1. PICK x, p : x = q[i] /\ x = kids[root][i] /\ i \in 1 .. Len(kids[root]) /\ p = from[x] /\ p = F[i]
      BY <1>3, <1>4
    <3>0. /\ FormInv /\ Tree(kids, from, to, lev) /\ pc \in {"parsed", "items"}
          /\ i \in 1 .. Len(kids[root]) /\ x = kids[root][i] /\ p = from[x]
      BY <3>1
    <3>2. /\ IsPut(x) <=> IsSetting(p)
          /\ IsPut(x) => /\ NameOf(x) = StringIn(p, "name") /\ KindOf(x) = Folded[StringIn(p, "type")]
                         /\ ValueOf(x) = StringIn(p, "value")
      BY ONLY <3>0, ItemsAgree
    <3> QED BY <3>1, <3>2
  <2>4. Items(q, L, F)
    BY <1>5, <2>1, <2>2, <2>3 DEF Items
  <2> QED BY <1>3, <2>4
<1> QED BY <1>6, <1>7

(* The last item of a property, and its place. *)
PlacesOf(F, I) == {F[i] : i \in I}

(* The last of some items stands at the last of their places.               *)
LEMMA LastItemOf ==
  ASSUME NEW q, NEW L, NEW F, Items(q, L, F), NEW I \in SUBSET (1 .. L), NEW S, S = PlacesOf(F, I), I # {}
  PROVE  \E l \in 1 .. L : l \in I /\ Max(S) = F[l] /\ \A j \in l + 1 .. L : j \notin I
<1>1. L \in Nat /\ (\A i \in 1 .. L : F[i] \in Nat) /\ \A i, j \in 1 .. L : i < j => F[i] < F[j]
  BY DEF Items
<1>2. Max(I) \in I /\ Max(S) = F[Max(I)] /\ \A i \in I : i <= Max(I)
  <2>1. S = {F[i] : i \in I}
    BY DEF PlacesOf
  <2> QED BY <1>1, <2>1, FirstAndLast
<1>3. PICK l \in 1 .. L : l = Max(I)
  BY <1>2
<1>4. \A j \in l + 1 .. L : j \notin I
  BY <1>1, <1>2, <1>3
<1> QED BY <1>2, <1>3, <1>4

(* After all items the table holds the text's last words,                   *)
LEMMA TableAsked ==
  ASSUME NEW q, NEW L, NEW F, Items(q, L, F), NEW key, PutLast(q, L, key)
  PROVE  ram[key] = LastWord(key)
<1>1. /\ L \in Nat /\ ItemPlaces = {F[i] : i \in 1 .. L}
      /\ \A i \in 1 .. L : IsPut(q[i]) <=> IsSetting(F[i])
      /\ \A i \in 1 .. L : IsPut(q[i]) => /\ NameOf(q[i]) = StringIn(F[i], "name")
                                           /\ KindOf(q[i]) = Folded[StringIn(F[i], "type")]
                                           /\ ValueOf(q[i]) = StringIn(F[i], "value")
  BY DEF Items
<1>2. PICK I : I = {i \in 1 .. L : PutsTo(q[i], key)}
  OBVIOUS
<1>3. PICK S : S = Under(key)
  OBVIOUS
<1>4. S = {F[i] : i \in I}
  <2>1. \A i \in 1 .. L : PutsTo(q[i], key) <=> IsSetting(F[i]) /\ StringIn(F[i], "name") = key
    BY <1>1 DEF PutsTo
  <2> QED BY <1>1, <1>2, <1>3, <2>1 DEF Under
<1>5. CASE I = {}
  <2>1. S = {} /\ \A i \in 1 .. L : ~PutsTo(q[i], key)
    BY <1>2, <1>4, <1>5
  <2> QED BY <1>3, <2>1, LastWordIs DEF PutLast
<1>6. CASE I # {}
  <2>1. I \in SUBSET (1 .. L)
    BY <1>2
  <2>2. PICK l \in 1 .. L : l \in I /\ Max(S) = F[l] /\ \A j \in l + 1 .. L : j \notin I
    <3>1. Items(q, L, F) /\ I \in SUBSET (1 .. L) /\ S = PlacesOf(F, I) /\ I # {}
      BY <1>4, <1>6, <2>1 DEF PlacesOf
    <3> QED BY ONLY <3>1, LastItemOf
  <2>3. PutsTo(q[l], key)
    BY <1>2, <2>2
  <2>4. \A j \in l + 1 .. L : ~PutsTo(q[j], key)
    <3>1. \A j \in l + 1 .. L : j \in 1 .. L
      BY <1>1
    <3> QED BY <1>2, <2>2, <3>1
  <2>5. LastNamed(q, L, key, l)
    BY <2>3, <2>4 DEF LastNamed
  <2>6. ram[key] = Converted(key, KindOf(q[l]), ValueOf(q[l]))
    BY <2>5 DEF PutLast
  <2>7. S # {}
    BY <1>4, <1>6
  <2>8. KindOf(q[l]) = Folded[StringIn(Max(S), "type")] /\ ValueOf(q[l]) = StringIn(Max(S), "value")
    BY <1>1, <2>2, <2>3 DEF PutsTo
  <2> QED BY <1>3, <2>6, <2>7, <2>8, LastWordIs
<1> QED BY <1>5, <1>6

(* and the mode is the one it asks for last.                                *)
LEMMA ModeAsked ==
  ASSUME NEW q, NEW L, NEW F, Items(q, L, F), \A i \in 1 .. L : IsPut(q[i]), ModeLast(q, L)
  PROVE  requested_mode = IF Modes = {} THEN NoMode ELSE Atoi[StringIn(Max(Modes), "value")]
<1>1. /\ L \in Nat /\ ItemPlaces = {F[i] : i \in 1 .. L}
      /\ \A i \in 1 .. L : /\ NameOf(q[i]) = StringIn(F[i], "name")
                           /\ KindOf(q[i]) = Folded[StringIn(F[i], "type")]
                           /\ ValueOf(q[i]) = StringIn(F[i], "value")
  BY DEF Items
<1>2. PICK I : I = {i \in 1 .. L : IsModeItem(q[i])}
  OBVIOUS
<1>3. PICK S : S = Modes
  OBVIOUS
<1>4. S = {F[i] : i \in I}
  BY <1>1, <1>2, <1>3 DEF Modes, IsModeItem, IsMode
<1>5. CASE I = {}
  <2>1. S = {} /\ \A i \in 1 .. L : ~IsModeItem(q[i])
    BY <1>2, <1>4, <1>5
  <2> QED BY <1>3, <2>1 DEF ModeLast
<1>6. CASE I # {}
  <2>1. I \in SUBSET (1 .. L)
    BY <1>2
  <2>2. PICK l \in 1 .. L : l \in I /\ Max(S) = F[l] /\ \A j \in l + 1 .. L : j \notin I
    <3>1. Items(q, L, F) /\ I \in SUBSET (1 .. L) /\ S = PlacesOf(F, I) /\ I # {}
      BY <1>4, <1>6, <2>1 DEF PlacesOf
    <3> QED BY ONLY <3>1, LastItemOf
  <2>3. IsModeItem(q[l])
    BY <1>2, <2>2
  <2>4. \A j \in l + 1 .. L : ~IsModeItem(q[j])
    <3>1. \A j \in l + 1 .. L : j \in 1 .. L
      BY <1>1
    <3> QED BY <1>2, <2>2, <3>1
  <2>5. LastMode(q, L, l)
    BY <2>3, <2>4 DEF LastMode
  <2>6. requested_mode = Atoi[ValueOf(q[l])]
    BY <2>5 DEF ModeLast
  <2>7. S # {} /\ ValueOf(q[l]) = StringIn(Max(S), "value")
    BY <1>1, <1>4, <1>6, <2>2
  <2> QED BY <1>3, <2>6, <2>7
<1> QED BY <1>5, <1>6

(* What a text asks for stays as long as the text does.                     *)
LEMMA AskedStays ==
  ASSUME UNCHANGED <<text, at, before>>
  PROVE  /\ ItemPlaces' = ItemPlaces
         /\ \A p : IsSetting(p)' <=> IsSetting(p)
         /\ \A key : LastWord(key)' = LastWord(key)
         /\ \A key : Asked(key)' = Asked(key)
<1>1. ASSUME NEW p PROVE Level(p)' = Level(p)
  <2>1. Level(p)' = Count(text', p, Opening) - Count(text', p, Closings)
    BY Zenon DEF Level, Count, Closings
  <2> QED BY <2>1, LevelIs
<1>2. ItemPlaces' = ItemPlaces
  <2>1. ItemPlaces' = {p \in Start(text') + 1 .. at' - 1 :
                         text'[p - 1] \in Lead(text'[Start(text')]) /\ text'[p] # "]" /\ Level(p)' = 1}
    BY Zenon DEF ItemPlaces, Lead, Comma
  <2>2. ItemPlaces = {p \in Start(text) + 1 .. at - 1 :
                        text[p - 1] \in Lead(text[Start(text)]) /\ text[p] # "]" /\ Level(p) = 1}
    BY PlacesAre
  <2> QED BY <1>1, <2>1, <2>2
<1>3. ASSUME NEW p, NEW name PROVE MemberPlaces(p, name)' = MemberPlaces(p, name)
  BY <1>1 DEF MemberPlaces
<1>4. ASSUME NEW p, NEW name
      PROVE  (HasString(p, name)' <=> HasString(p, name)) /\ StringIn(p, name)' = StringIn(p, name)
  <2>1. HasString(p, name)' <=> /\ text'[p] = Brace /\ MemberPlaces(p, name)' # {}
                                /\ text'[Min(MemberPlaces(p, name)') + 2] \in Strings
    BY Zenon DEF HasString, Brace
  <2>2. HasString(p, name) <=> /\ text[p] = Brace /\ MemberPlaces(p, name) # {}
                               /\ text[Min(MemberPlaces(p, name)) + 2] \in Strings
    BY HasStringIs
  <2>3. StringIn(p, name)' = StringIn(p, name)
    BY <1>3 DEF StringIn
  <2> QED BY <1>3, <2>1, <2>2, <2>3
<1>5. ASSUME NEW p PROVE IsSetting(p)' <=> IsSetting(p)
  BY <1>4 DEF IsSetting
<1>6. ASSUME NEW key PROVE LastWord(key)' = LastWord(key)
  <2>1. Under(key)' = Under(key)
    BY <1>2, <1>4, <1>5 DEF Under
  <2>2. LastWord(key)' =
          IF Under(key)' = {} THEN before'[key]
          ELSE Converted(key, Folded[StringIn(Max(Under(key)), "type")'], StringIn(Max(Under(key)), "value")')
    BY Zenon DEF LastWord, Under, Converted
  <2>3. PICK u : u = Max(Under(key)) /\ u = Max(Under(key))'
    BY <2>1 DEF Max
  <2>4. StringIn(Max(Under(key)), "type")' = StringIn(u, "type")
    BY <1>4, <2>3 DEF StringIn
  <2>5. StringIn(Max(Under(key)), "value")' = StringIn(u, "value")
    BY <1>4, <2>3 DEF StringIn
  <2> QED BY <2>1, <2>2, <2>3, <2>4, <2>5, LastWordIs
<1>7. ASSUME NEW key PROVE Asked(key)' = Asked(key)
  <2>1. Modes' = Modes
    BY <1>2, <1>4 DEF Modes
  <2>2. Asked(key)' =
          IF key = Mode /\ Modes' # {} /\ Atoi[StringIn(Max(Modes), "value")'] \in {"1", "2"}
          THEN Atoi[StringIn(Max(Modes), "value")']
          ELSE LastWord(key)'
    BY Zenon DEF Asked, Modes
  <2>3. PICK m : m = Max(Modes) /\ m = Max(Modes)'
    BY <2>1 DEF Max
  <2>4. StringIn(Max(Modes), "value")' = StringIn(m, "value")
    BY <1>4, <2>3 DEF StringIn
  <2> QED BY <1>6, <2>1, <2>2, <2>3, <2>4, AskedIs
<1> QED BY <1>2, <1>5, <1>6, <1>7

(* The answer the text asks for. *)
Saved(response, table, sector) ==
  LET reads == ~starved /\ ReadsAsJson(text)
  IN  IF reads /\ \A p \in ItemPlaces : IsSetting(p)
      THEN response = "ok" /\ table = sector /\ \A key \in Keys : sector[key] = Asked(key)
      ELSE /\ response = "bad request" /\ sector = Default
           /\ \A key \in Keys : table[key] = IF reads THEN LastWord(key) ELSE before[key]

(* An answered form is one with that answer.                                *)
LEMMA SavedIs == SavedAsAsked <=> (pc = "answered" => Saved(response_status, ram, flash))
BY Zenon DEF SavedAsAsked, Saved

(* The answer given in a step is the one of the state after it.             *)
LEMMA SavedStays ==
  ASSUME UNCHANGED <<text, at, starved, before>>, Saved(response_status', ram', flash')
  PROVE  SavedAsAsked'
<1>1. PICK r, t, f : r = response_status' /\ t = ram' /\ f = flash'
  OBVIOUS
<1>2. /\ ItemPlaces' = ItemPlaces
      /\ \A p : IsSetting(p)' <=> IsSetting(p)
      /\ \A key : Asked(key)' = Asked(key)
      /\ \A key : LastWord(key)' = LastWord(key)
  BY AskedStays
<1>3. (~starved /\ ReadsAsJson(text)) <=> (~starved' /\ ReadsAsJson(text)')
  BY DEF ReadsAsJson
<1>4. (\A p \in ItemPlaces : IsSetting(p)) <=> \A p \in ItemPlaces' : IsSetting(p)'
  BY <1>2
<1> QED BY <1>1, <1>2, <1>3, <1>4 DEF Saved, SavedAsAsked

(* The form ends: what the loop has put is what the text asks for.          *)
LEMMA EndAnswers ==
  ASSUME FormInv, TreeInv, ReadInv, LoopInv, EndOfForm
  PROVE  Saved(response_status', ram', flash')
<1>0. /\ pc = "items" /\ item = NULL /\ root # NULL
      /\ ram' = IF valid_json /\ requested_mode \in {"1", "2"} THEN Put(ram, Mode, requested_mode) ELSE ram
      /\ SavedAs(ram')
  BY DEF EndOfForm, ReadInv
<1>1. PICK kids, from, to, lev : Tree(kids, from, to, lev)
  BY <1>0 DEF TreeInv, HasTree
<1>2. root \in DOMAIN nodes /\ ReadsAsJson(text) /\ ~starved
  BY <1>0, <1>1, AcceptedReads DEF ReadInv, HasTree
<1>3. PICK q : q = kids[root] /\ q = Children(root) /\ q \in Seq(Nat)
  BY <1>0, <1>1, <1>2, ItemsAre
<1>4. PICK L \in Nat : L = Len(q)
  BY <1>3
<1>5. PICK m \in 0 .. L : Loop(q, m)
  BY <1>0, <1>3, <1>4 DEF LoopInv
<1>6. m = L
  <2> SUFFICES ASSUME m # L PROVE FALSE
    OBVIOUS
  <2>1. item = IF m = L THEN NULL ELSE q[m + 1]
    BY <1>4, <1>5 DEF Loop
  <2>2. m + 1 \in 1 .. Len(kids[root])
    BY <1>3, <1>4
  <2>3. nodes[root].type \in Opening
    <3> SUFFICES ASSUME nodes[root].type \notin Opening PROVE FALSE
      OBVIOUS
    <3>1. kids[root] = <<>>
      BY <1>0, <1>1, <1>2, AtomShut
    <3> QED BY <2>2, <3>1
  <2>4. q[m + 1] \in DOMAIN nodes
    <3>1. PICK i \in 1 .. Len(kids[root]) : i = m + 1
      BY <2>2
    <3>2. kids[root][i] \in DOMAIN nodes
      BY <1>0, <1>1, <1>2, <2>3, ListItems
    <3> QED BY <1>3, <3>1, <3>2
  <2>5. NULL \notin DOMAIN nodes
    BY DEF FormInv, Hung, IsHeap
  <2> QED BY <1>0, <2>1, <2>4, <2>5
<1>7. PICK F : Items(q, L, F)
  BY <1>0, <1>1, <1>3, <1>4, ItemsOfForm
<1>8. /\ flash = Default /\ (valid_json <=> \A i \in 1 .. L : IsPut(q[i]))
      /\ ~valid_json => response_status = "bad request"
      /\ valid_json => ModeLast(q, L)
      /\ \A key \in Keys : PutLast(q, L, key)
  BY <1>5, <1>6 DEF Loop
<1>9. valid_json <=> \A p \in ItemPlaces : IsSetting(p)
  <2>1. ItemPlaces = {F[i] : i \in 1 .. L} /\ \A i \in 1 .. L : IsPut(q[i]) <=> IsSetting(F[i])
    BY <1>7 DEF Items
  <2> QED BY <1>8, <2>1
<1>10. \A key \in Keys : ram[key] = LastWord(key)
  BY <1>7, <1>8, TableAsked
<1>11. CASE ~valid_json
  <2>1. response_status' = "bad request" /\ flash' = Default /\ ram' = ram
    BY <1>0, <1>8, <1>11 DEF SavedAs
  <2> QED BY <1>2, <1>9, <1>11, <1>10, <2>1 DEF Saved
<1>12. CASE valid_json
  <2>1. response_status' = "ok" /\ flash' = ram'
    BY <1>0, <1>12 DEF SavedAs
  <2>2. \A i \in 1 .. L : IsPut(q[i])
    BY <1>8, <1>12
  <2>3. requested_mode = IF Modes = {} THEN NoMode ELSE Atoi[StringIn(Max(Modes), "value")]
    BY <1>7, <1>8, <1>12, <2>2, ModeAsked
  <2>4. NoMode \notin {"1", "2"}
    BY DEF NoMode
  <2>5. requested_mode \in {"1", "2"} <=> Modes # {} /\ Atoi[StringIn(Max(Modes), "value")] \in {"1", "2"}
    BY <2>3, <2>4
  <2>6. DOMAIN ram = Keys /\ Mode \in Keys
    BY FormAssumption DEF FormInv, Tables
  <2>7. ASSUME NEW key \in Keys PROVE ram'[key] = Asked(key)
    <3>1. ram[key] = LastWord(key)
      BY <1>10
    <3>2. ram'[key] = IF key = Mode /\ requested_mode \in {"1", "2"} THEN requested_mode ELSE ram[key]
      <4>1. CASE requested_mode \in {"1", "2"}
        <5>1. ram' = [ram EXCEPT ![Mode] = requested_mode]
          BY <1>0, <1>12, <2>6, <4>1 DEF Put
        <5> QED BY <2>6, <4>1, <5>1
      <4>2. CASE requested_mode \notin {"1", "2"}
        BY <1>0, <4>2
      <4> QED BY <4>1, <4>2
    <3> QED BY <2>3, <2>5, <3>1, <3>2, AskedIs
  <2> QED BY <1>2, <1>9, <1>12, <2>1, <2>7 DEF Saved
<1> QED BY <1>11, <1>12

(* The parser neither begins the loop nor answers. *)
LEMMA ParsingIs ==
  ASSUME Parse
  PROVE  pc \notin {"items", "answered"} /\ pc' \notin {"items", "answered"}
<1>1. CASE cJSON_Parse \/ Fail \/ Succeed
  BY <1>1 DEF cJSON_Parse, Fail, Succeed
<1>2. CASE ParseLiteral \/ ParseNumber \/ ParseString \/ OpenList \/ NoValue \/ NextItem
           \/ ParseName \/ ParseColon \/ CloseList \/ NoSeparator
  <2>1. pc \in Building /\ pc' \in Building \cup {"fail"}
    BY <1>2 DEF ParseLiteral, ParseNumber, ParseString, OpenList, NoValue, NextItem, ParseName, ParseColon,
                CloseList, NoSeparator, parse_string, parserVars, Building
  <2> QED BY <2>1 DEF Building
<1> QED BY <1>1, <1>2 DEF Parse

(* The invariant of the loop holds at first,                                *)
LEMMA LoopInit == Init => LoopInv
BY DEF Init, LoopInv, SavedAsAsked

(* and every step keeps it.                                                 *)
LEMMA LoopStep ==
  ASSUME FormInv, TreeInv, ReadInv, LoopInv, [Next]_vars
  PROVE  LoopInv'
<1> DEFINE Early == pc' \notin {"items", "answered"} =>
                      ram' = before' /\ flash' = Default /\ valid_json' = TRUE /\ requested_mode' = NoMode
           Amid == pc' = "items" => \E q : q = Children(root)' /\ \E m \in 0 .. Len(q) : Loop(q, m)'
<1> SUFFICES Early /\ Amid /\ SavedAsAsked'
  BY DEF LoopInv, NoMode
<1>1. CASE ParseStep
  <2>1. pc \notin {"items", "answered"} /\ pc' \notin {"items", "answered"}
    BY <1>1, ParsingIs DEF ParseStep
  <2> QED BY <1>1, <2>1 DEF ParseStep, formVars, LoopInv, SavedAsAsked
<1>2. CASE Receive
  BY <1>2 DEF Receive, formVars, LoopInv, SavedAsAsked
<1>3. CASE ReceiveNone \/ ReceiveBad
  <2>1. /\ pc = "idle" /\ pc' = "answered" /\ response_status' = "bad request" /\ flash' = flash
        /\ UNCHANGED <<text, at, starved, ram, before>>
    BY <1>3 DEF ReceiveNone, ReceiveBad, parserVars
  <2>2. flash' = Default /\ ram' = before
    BY <2>1 DEF LoopInv
  <2>3. text = <<>>
    BY <2>1 DEF FormInv, Outside
  <2>4. ~ReadsAsJson(text)
    BY <2>3 DEF ReadsAsJson
  <2>5. Saved(response_status', ram', flash')
    BY <2>1, <2>2, <2>4 DEF Saved
  <2> QED BY <2>1, <2>5, SavedStays
<1>4. CASE NotJson
  <2>1. /\ pc = "parsed" /\ root = NULL /\ pc' = "answered" /\ response_status' = "bad request" /\ flash' = flash
        /\ UNCHANGED <<text, at, starved, ram, before>>
    BY <1>4 DEF NotJson, parserVars
  <2>2. flash' = Default /\ ram' = before /\ (starved \/ ~ReadsAsJson(text))
    BY <2>1 DEF LoopInv, ReadInv
  <2>3. Saved(response_status', ram', flash')
    BY <2>1, <2>2 DEF Saved
  <2> QED BY <2>1, <2>3, SavedStays
<1>5. CASE FirstItem
  <2>1. pc' = "items"
    BY <1>5 DEF FirstItem
  <2> QED BY <1>5, <2>1, LoopBegins DEF SavedAsAsked
<1>6. CASE NextOfForm
  <2>1. pc' = "items"
    BY <1>6 DEF NextOfForm
  <2> QED BY <1>6, <2>1, LoopGoesOn DEF SavedAsAsked
<1>7. CASE EndOfForm
  <2>1. pc' = "answered" /\ UNCHANGED <<text, at, starved, before>>
    BY <1>7 DEF EndOfForm
  <2>2. Saved(response_status', ram', flash')
    BY <1>7, EndAnswers
  <2> QED BY <2>1, <2>2, SavedStays
<1>8. CASE UNCHANGED vars
  <2>1. UNCHANGED <<text, at, depth, stack, nodes, strings, root, starved, pc, item, requested_mode, valid_json, ram,
                    flash, before, message, response_status>>
    BY <1>8 DEF vars, parserVars, formVars
  <2>2. CASE pc = "answered"
    <3>1. Saved(response_status, ram, flash)
      BY <2>2, SavedIs DEF LoopInv
    <3>2. Saved(response_status', ram', flash')
      BY <2>1, <3>1
    <3> QED BY <2>1, <2>2, <3>2, SavedStays
  <2>3. CASE pc = "items"
    <3>1. PICK q : q = Children(root) /\ \E m \in 0 .. Len(q) : Loop(q, m)
      BY <2>3 DEF LoopInv
    <3>2. PICK m \in 0 .. Len(q) : Loop(q, m)
      BY <3>1
    <3>3. Children(root)' = q
      BY <2>1, <3>1, HeapStays
    <3>4. Loop(q, m)'
      <4>1. \A i : /\ (IsPut(q[i])' <=> IsPut(q[i])) /\ (IsModeItem(q[i])' <=> IsModeItem(q[i]))
                   /\ NameOf(q[i])' = NameOf(q[i]) /\ KindOf(q[i])' = KindOf(q[i]) /\ ValueOf(q[i])' = ValueOf(q[i])
        BY <2>1, ItemStays
      <4>4. \A i, key : PutsTo(q[i], key)' <=> PutsTo(q[i], key)
        BY <2>1, ItemStays
      <4>2. ModeLast(q, m) => ModeLast(q, m)'
        BY <2>1, <4>1 DEF ModeLast, LastMode, NoMode
      <4>3. \A key : PutLast(q, m, key) => PutLast(q, m, key)'
        <5>1. \A a, b, c : Converted(a, b, c)' = Converted(a, b, c)
          BY Zenon DEF Converted
        <5> QED BY <2>1, <4>1, <4>4, <5>1 DEF PutLast, LastNamed
      <4> QED BY <2>1, <3>2, <4>1, <4>2, <4>3 DEF Loop, NULL
    <3> QED BY <2>1, <2>3, <3>2, <3>3, <3>4 DEF SavedAsAsked
  <2>4. CASE pc \notin {"items", "answered"}
    BY <2>1, <2>4 DEF LoopInv, SavedAsAsked
  <2> QED BY <2>2, <2>3, <2>4
<1> QED BY <1>1, <1>2, <1>3, <1>4, <1>5, <1>6, <1>7, <1>8 DEF Next, Handle

(* A form is saved if and only if each item of its text is a setting; flash *)
(* then holds what the text asks for, and else what RAM held, whatever      *)
(* refused forms have left there; and a refused form leaves its good items  *)
(* in RAM and nothing in flash (mngr_httpd.c:294-386).                      *)
THEOREM FormIsSavedAsAsked == Spec => []SavedAsAsked
<1> DEFINE AllInv == TreeFormInv /\ LoopInv
<1>1. Init => AllInv
  BY TreeFormInit, LoopInit
<1>2. AllInv /\ [Next]_vars => AllInv'
  BY TreeFormStep, LoopStep DEF TreeFormInv
<1>3. AllInv => SavedAsAsked
  BY DEF LoopInv
<1> QED BY <1>1, <1>2, <1>3, PTL DEF Spec
=============================================================================
