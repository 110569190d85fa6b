----------------------------- MODULE BoosterProofs -----------------------------
(***************************************************************************)
(* Proofs about the settings store, for any number of entries, any key     *)
(* lengths, any values and any interrupted erase, on any layout that keeps *)
(* the type and the value of an entry on one page; about the images that   *)
(* are copied to the board between two starts, for any two programs; and   *)
(* about the Booster on that store, for any set of forms and number of     *)
(* retries.  The argument of the last: every step of the firmware leaves   *)
(* the sector to the store, which only ever shortens a table               *)
(* (LoadShortened), and shortening keeps what the properties speak of.     *)
(***************************************************************************)
EXTENDS Booster, Install, TLAPS, WellFoundedInduction, SequenceTheorems

(* Induction along an interval: a set that holds 0, and with each number   *)
(* the next, holds the interval.                                            *)
LEMMA UpTo ==
  ASSUME NEW n \in Nat, NEW T, 0 \in T, \A i \in 1 .. n : i - 1 \in T => i \in T
  PROVE  0 .. n \subseteq T
<1> DEFINE R == {ss \in Nat \X Nat : ss[1] < ss[2]}
           Missing == {i \in 0 .. n : i \notin T}
<1> SUFFICES ASSUME Missing # {} PROVE FALSE
  OBVIOUS
<1>1. IsWellFoundedOn(R, Nat)
  BY NatLessThanWellFounded DEF OpToRel
<1>2. Missing \subseteq Nat
  OBVIOUS
<1> HIDE DEF R, Missing
<1>3. PICK i \in Missing : \A j \in Missing : ~(<<j, i>> \in R)
  BY <1>1, <1>2, WFMin
<1>4. i \in 1 .. n /\ i - 1 \in Nat /\ i \in Nat /\ i - 1 < i
  BY DEF Missing
<1>5. <<i - 1, i>> \in R
  <2>1. <<i - 1, i>> \in Nat \X Nat /\ <<i - 1, i>>[1] < <<i - 1, i>>[2]
    BY <1>4
  <2> QED BY <2>1 DEF R
<1>6. i - 1 \in T
  BY <1>3, <1>4, <1>5 DEF Missing
<1> QED BY <1>4, <1>6 DEF Missing

(* The results of n steps from the first, one after the other. *)
Iterations(n, S, first, step) ==
  {f \in [0 .. n -> S] : f[0] = first /\ \A i \in 1 .. n : f[i] = step[i][f[i - 1]]}

(* There is a function to define by recursion.                              *)
LEMMA Recursion ==
  ASSUME NEW n \in Nat, NEW S, NEW first \in S, NEW step \in [1 .. n -> [S -> S]]
  PROVE  Iterations(n, S, first, step) # {}
<1> DEFINE Is(f, m) == f[0] = first /\ \A i \in 1 .. m : f[i] = step[i][f[i - 1]]
           T == {m \in 0 .. n : \E f \in [0 .. m -> S] : Is(f, m)}
<1>1. 0 \in T
  <2> DEFINE g == [i \in 0 .. 0 |-> first]
  <2>1. g \in [0 .. 0 -> S]
    OBVIOUS
  <2>2. Is(g, 0)
    OBVIOUS
  <2> HIDE DEF g
  <2> QED BY <2>1, <2>2
<1>2. ASSUME NEW m \in 1 .. n, m - 1 \in T PROVE m \in T
  <2>1. PICK f \in [0 .. m - 1 -> S] : Is(f, m - 1)
    BY <1>2
  <2> DEFINE g == [i \in 0 .. m |-> IF i = m THEN step[m][f[m - 1]] ELSE f[i]]
  <2>2. m \in 0 .. n /\ m - 1 \in 0 .. m - 1 /\ f[m - 1] \in S /\ m # 0
    OBVIOUS
  <2>3. g \in [0 .. m -> S]
    BY <2>2
  <2>4. g[0] = first
    BY <2>1, <2>2
  <2>5. ASSUME NEW i \in 1 .. m PROVE g[i] = step[i][g[i - 1]]
    <3>1. i - 1 \in 0 .. m /\ i - 1 # m /\ i \in 0 .. m
      OBVIOUS
    <3>2. i # m => i \in 1 .. m - 1
      OBVIOUS
    <3> QED BY <2>1, <3>1, <3>2
  <2>6. Is(g, m)
    BY <2>4, <2>5
  <2> HIDE DEF g, Is
  <2> QED BY <2>2, <2>3, <2>6
<1> HIDE DEF T
<1>3. 0 .. n \subseteq T
  BY <1>1, <1>2, UpTo
<1>4. n \in T
  BY <1>3
<1> QED BY <1>4 DEF T, Iterations

(* Of finitely many numbers one is the greatest.                            *)
LEMMA Greatest ==
  ASSUME NEW n \in Nat \ {0}, NEW f \in [1 .. n -> Int]
  PROVE  \E m \in 1 .. n : \A k \in 1 .. n : f[k] <= f[m]
<1> DEFINE T == {j \in 0 .. n : j # 0 => \E m \in 1 .. j : \A k \in 1 .. j : f[k] <= f[m]}
<1>1. 0 \in T
  OBVIOUS
<1>2. ASSUME NEW j \in 1 .. n, j - 1 \in T PROVE j \in T
  <2>1. \E m \in 1 .. j : \A k \in 1 .. j : f[k] <= f[m]
    <3>1. CASE j = 1
      <4>1. \A k \in 1 .. j : k = j
        BY <3>1
      <4>2. f[j] <= f[j] /\ j \in 1 .. j
        OBVIOUS
      <4> QED BY <4>1, <4>2
    <3>2. CASE j # 1
      <4>1. PICK m \in 1 .. j - 1 : \A k \in 1 .. j - 1 : f[k] <= f[m]
        <5>1. j - 1 # 0
          BY <3>2
        <5> QED BY <1>2, <5>1
      <4>2. \A k \in 1 .. j : k = j \/ k \in 1 .. j - 1
        OBVIOUS
      <4>3. m \in 1 .. j /\ f[m] \in Int /\ f[j] \in Int
        OBVIOUS
      <4>4. CASE f[j] <= f[m]
        BY <4>1, <4>2, <4>3, <4>4
      <4>5. CASE ~(f[j] <= f[m])
        <5>1. ASSUME NEW k \in 1 .. j PROVE f[k] <= f[j]
          <6>1. f[k] \in Int
            OBVIOUS
          <6> QED BY <4>1, <4>2, <4>3, <4>5, <6>1
        <5> QED BY <5>1
      <4> QED BY <4>4, <4>5
    <3> QED BY <3>1, <3>2
  <2>2. j \in 0 .. n
    OBVIOUS
  <2> QED BY <2>1, <2>2
<1> HIDE DEF T
<1>3. 0 .. n \subseteq T
  BY <1>1, <1>2, UpTo
<1>4. n \in T
  BY <1>3
<1> QED BY <1>4 DEF T

(* And one is the least.                                                   *)
LEMMA Least ==
  ASSUME NEW n \in Nat \ {0}, NEW f \in [1 .. n -> Int]
  PROVE  \E m \in 1 .. n : \A k \in 1 .. n : f[m] <= f[k]
<1> DEFINE g == [k \in 1 .. n |-> 0 - f[k]]
<1>1. g \in [1 .. n -> Int]
  OBVIOUS
<1> HIDE DEF g
<1>2. PICK m \in 1 .. n : \A k \in 1 .. n : g[k] <= g[m]
  BY <1>1, Greatest
<1>3. ASSUME NEW k \in 1 .. n PROVE f[m] <= f[k]
  <2>1. g[k] = 0 - f[k] /\ g[m] = 0 - f[m] /\ f[k] \in Int /\ f[m] \in Int /\ g[k] <= g[m]
    BY <1>2 DEF g
  <2> QED BY <2>1
<1> QED BY <1>3


(* The sector as a save, an erase or a cut leaves it. *)
OneSector(f) ==
  /\ f \in [PageIds -> Tables \cup {Erased}]
  /\ \A p, q \in PageIds : f[p] # Erased /\ f[q] # Erased => f[p] = f[q]

(* The inductive invariant. *)
IInv == TypeOK /\ OneTable
-----------------------------------------------------------------------------
(* The layout of the firmware: 127-byte entries on 256-byte pages satisfy  *)
(* LayoutAssumption for the 32 entries a 4096-byte sector has room for     *)
(* (settings.h:66-67, settings.c:218), whatever the number in use.         *)
THEOREM FirmwareLayout ==
  \A i \in 0 .. 31 : (i * 127 + 30) \div 256 = ((i + 1) * 127 - 1) \div 256
BY SMT

LEMMA DivMonotone ==
  ASSUME NEW P \in Nat \ {0}, NEW a \in Nat, NEW b \in Nat, a <= b
  PROVE  a \div P \in Nat /\ b \div P \in Nat /\ a \div P <= b \div P
BY SMT

LEMMA DivBound ==
  ASSUME NEW P \in Nat \ {0}, NEW a \in Nat, NEW n \in Nat, a < n * P
  PROVE  a \div P \in 0 .. n - 1
BY SMT

(* Every byte of an entry lies in the sector, in the order of the struct. *)
LEMMA EntryLayout ==
  ASSUME NEW i \in Slots
  PROVE  /\ KeyAt(i) \in Nat /\ TypeAt(i) \in Nat /\ ValueAt(i) \in Nat
         /\ KeyAt(i + 1) - 1 \in Nat
         /\ KeyAt(i) + KeyLen[i] \in Nat /\ KeyAt(i) + KeyLen[i] < TypeAt(i)
         /\ TypeAt(i) <= ValueAt(i) - 1
         /\ ValueAt(i) <= KeyAt(i + 1) - 1
         /\ KeyAt(i + 1) - 1 < Pages * PageSize
<1>1. /\ i \in Nat /\ i + 1 <= NumEntries /\ EntrySize \in Nat /\ NumEntries \in Nat
      /\ KeyLen[i] \in 1 .. KeyMax - 1
  BY SizeAssumption DEF Slots, EntrySize
<1>2. KeyAt(i + 1) = KeyAt(i) + EntrySize /\ KeyAt(i) \in Nat
  BY <1>1, SMT DEF KeyAt
<1>3. KeyAt(i + 1) <= NumEntries * EntrySize
  BY <1>1, SMT DEF KeyAt
<1>4. NumEntries * EntrySize <= Pages * PageSize
  BY SizeAssumption DEF Fits
<1>5. NumEntries * EntrySize \in Nat /\ Pages * PageSize \in Nat
  BY SizeAssumption, <1>1, SMT
<1> QED
  BY <1>1, <1>2, <1>3, <1>4, <1>5, SizeAssumption DEF TypeAt, ValueAt, EntrySize

(* Type and value of an entry share one page of the sector; the pages of  *)
(* its key are pages of the sector too.                                   *)
LEMMA EntryPages ==
  ASSUME NEW i \in Slots
  PROVE  /\ PageOf(TypeAt(i)) \in PageIds
         /\ PageOf(ValueAt(i) - 1) = PageOf(TypeAt(i))
         /\ PageOf(ValueAt(i)) = PageOf(TypeAt(i))
         /\ PageOf(KeyAt(i + 1) - 1) = PageOf(TypeAt(i))
         /\ PageOf(KeyAt(i)) .. PageOf(KeyAt(i) + KeyLen[i]) \subseteq PageIds
<1>1. PageSize \in Nat \ {0} /\ Pages \in Nat
  BY SizeAssumption
<1>2. PageOf(KeyAt(i + 1) - 1) = PageOf(TypeAt(i))
  BY LayoutAssumption
<1>3. PageOf(KeyAt(i + 1) - 1) \in PageIds
  BY <1>1, EntryLayout, DivBound DEF PageOf, PageIds
<1>4. /\ PageOf(TypeAt(i)) <= PageOf(ValueAt(i) - 1)
      /\ PageOf(ValueAt(i) - 1) <= PageOf(ValueAt(i))
      /\ PageOf(ValueAt(i)) <= PageOf(KeyAt(i + 1) - 1)
      /\ PageOf(TypeAt(i)) \in Nat /\ PageOf(ValueAt(i) - 1) \in Nat /\ PageOf(ValueAt(i)) \in Nat
  <2>1. ValueAt(i) - 1 \in Nat /\ ValueAt(i) - 1 <= ValueAt(i)
    BY EntryLayout
  <2> QED BY <1>1, <2>1, EntryLayout, DivMonotone DEF PageOf
<1>5. /\ PageOf(KeyAt(i)) \in Nat /\ PageOf(KeyAt(i) + KeyLen[i]) \in Nat
      /\ PageOf(KeyAt(i) + KeyLen[i]) <= PageOf(TypeAt(i))
  <2>2. KeyAt(i) \in Nat /\ KeyAt(i) + KeyLen[i] \in Nat /\ TypeAt(i) \in Nat
    BY EntryLayout
  <2>1. KeyAt(i) + KeyLen[i] < TypeAt(i)
    BY EntryLayout
  <2>3. KeyAt(i) <= KeyAt(i)
    BY <2>2
  <2> QED BY <1>1, <2>1, <2>2, <2>3, DivMonotone DEF PageOf
<1> QED
  BY <1>1, <1>2, <1>3, <1>4, <1>5 DEF PageIds

(* A reached entry is read whole, from the page that holds its type. *)
LEMMA ReachedIsWhole ==
  ASSUME NEW f, OneSector(f), NEW i \in Slots, Reached(f, i)
  PROVE  /\ f[PageOf(TypeAt(i))] \in Tables
         /\ ReadValue(f, i) = f[PageOf(TypeAt(i))][i]
<1>1. checkTypeFormat(f, i)
  BY DEF Reached, Slots
<1>2. f[PageOf(TypeAt(i))] # Erased
  <2>1. PageOf(TypeAt(i)) \in PageOf(TypeAt(i)) .. PageOf(ValueAt(i) - 1)
    BY EntryPages DEF PageIds
  <2> QED BY <1>1, <2>1 DEF checkTypeFormat, Programmed
<1> QED
  BY <1>2, EntryPages DEF OneSector, ReadValue

(* A put changes one entry to a value, and never entry 0. *)
LEMMA PutKeepsTable ==
  ASSUME NEW t \in Tables, NEW w \in Puts
  PROVE  [t EXCEPT ![w[1]] = w[2]] \in Tables
<1>1. w[1] \in Slots /\ w[1] # 0 /\ w[2] \in Values
  BY ValueAssumption
<1>2. t \in [Slots -> Values] /\ t[0] = Magic /\ 0 \in Slots
  BY SizeAssumption DEF Tables, Slots
<1> QED
  BY <1>1, <1>2 DEF Tables

(* What a start loads is a table of whole values, the magic first. *)
LEMMA LoadIsTable ==
  ASSUME NEW f, OneSector(f)
  PROVE  Load(f) \in Tables
<1>1. ASSUME NEW i \in Slots PROVE Load(f)[i] \in Values
  <2>1. CASE MagicFound(f) /\ Reached(f, i)
    BY <2>1, ReachedIsWhole DEF Load, Tables
  <2>2. CASE ~ (MagicFound(f) /\ Reached(f, i))
    BY <2>2, ValueAssumption DEF Load
  <2> QED BY <2>1, <2>2
<1>2. 0 \in Slots
  BY SizeAssumption DEF Slots
<1>3. Load(f)[0] = Magic
  BY <1>2 DEF Load, MagicFound, Magic
<1> QED
  BY <1>1, <1>3 DEF Tables, Load

(* A reached entry stays reached, and reads the same, on a sector with more *)
(* pages; and the entries before a reached one are reached.                 *)
LEMMA ReachedMonotone ==
  ASSUME NEW f, NEW g, OneSector(f), OneSector(g),
         \A p \in PageIds : g[p] \in {f[p], Erased},
         NEW i \in Slots, Reached(g, i)
  PROVE  Reached(f, i) /\ ReadValue(f, i) = ReadValue(g, i)
<1>1. ASSUME NEW j \in 0 .. i PROVE checkKeyFormat(f, j) /\ checkTypeFormat(f, j)
  <2>1. j \in Slots
    BY SizeAssumption DEF Slots
  <2>2. checkKeyFormat(g, j) /\ checkTypeFormat(g, j)
    BY DEF Reached
  <2>3. PageOf(TypeAt(j)) .. PageOf(ValueAt(j) - 1) \subseteq PageIds
    BY <2>1, EntryPages DEF PageIds
  <2> QED
    BY <2>1, <2>2, <2>3, EntryPages DEF checkKeyFormat, checkTypeFormat, Programmed
<1>2. Reached(f, i)
  BY <1>1 DEF Reached
<1>3. g[PageOf(TypeAt(i))] # Erased
  BY ReachedIsWhole, ValueAssumption DEF Tables
<1> QED
  BY <1>2, <1>3, EntryPages, ReachedIsWhole

LEMMA ReachedDown ==
  ASSUME NEW f, NEW i \in Slots, NEW j \in i .. NumEntries - 1, Reached(f, j)
  PROVE  Reached(f, i)
BY SizeAssumption DEF Reached, Slots

(* An erased sector loads the defaults. *)
LEMMA LoadBlank == Load(Blank) = Defaults
<1>1. 0 \in Slots
  BY SizeAssumption DEF Slots
<1>2. ~ MagicFound(Blank)
  BY <1>1, EntryPages, ValueAssumption DEF MagicFound, ReadValue, Blank, Magic
<1> QED
  BY <1>2, ValueAssumption DEF Load

(* A sector programmed to its last page loads the table it was given. *)
LEMMA LoadFull ==
  ASSUME NEW t \in Tables
  PROVE  OneSector(Full(t)) /\ Load(Full(t)) = t
<1>1. OneSector(Full(t)) /\ t # Erased
  BY ValueAssumption DEF OneSector, Full, Tables
<1>2. ASSUME NEW i \in Slots PROVE Reached(Full(t), i) /\ ReadValue(Full(t), i) = t[i]
  <2>1. ASSUME NEW j \in 0 .. i
        PROVE  checkKeyFormat(Full(t), j) /\ checkTypeFormat(Full(t), j)
    <3>1. j \in Slots
      BY SizeAssumption DEF Slots
    <3>2. PageOf(TypeAt(j)) .. PageOf(ValueAt(j) - 1) \subseteq PageIds
      BY <3>1, EntryPages DEF PageIds
    <3> QED
      BY <1>1, <3>1, <3>2, EntryPages DEF checkKeyFormat, checkTypeFormat, Programmed, Full
  <2>2. Reached(Full(t), i)
    BY <2>1 DEF Reached
  <2> QED BY <1>1, <2>2, ReachedIsWhole, EntryPages DEF Full
<1>3. MagicFound(Full(t))
  BY <1>2, SizeAssumption DEF MagicFound, Tables, Slots
<1> QED
  BY <1>1, <1>2, <1>3 DEF Load, Tables

(* A sector with pages missing loads a shortened form of what it loaded.   *)
LEMMA LoadShortened ==
  ASSUME NEW f, NEW g, OneSector(f), OneSector(g),
         \A p \in PageIds : g[p] \in {f[p], Erased}
  PROVE  Load(g) \in Store!Shortened(Load(f))
<1>1. Load(g) \in [Slots -> Values]
  BY LoadIsTable DEF Tables
<1>2. ASSUME MagicFound(g) PROVE MagicFound(f)
  <2>1. 0 \in Slots
    BY SizeAssumption DEF Slots
  <2>2. g[PageOf(TypeAt(0))] # Erased /\ g[PageOf(TypeAt(0))][0] = Magic
    BY <1>2, <2>1, EntryPages, ValueAssumption DEF MagicFound, ReadValue, Magic
  <2> QED BY <2>1, <2>2, EntryPages, ValueAssumption DEF MagicFound, ReadValue
<1>3. ASSUME NEW i \in Slots, Load(g)[i] # Load(f)[i], NEW j \in i .. NumEntries - 1
      PROVE  Load(g)[j] = Defaults[j]
  <2>1. ~ (MagicFound(g) /\ Reached(g, i))
    BY <1>2, <1>3, ReachedMonotone DEF Load
  <2>2. j \in Slots
    BY SizeAssumption DEF Slots
  <2>3. ~ (MagicFound(g) /\ Reached(g, j))
    BY <2>1, ReachedDown
  <2> QED BY <2>2, <2>3 DEF Load
<1> QED
  BY <1>1, <1>3 DEF Store!Shortened, Store!Slots, Slots
-----------------------------------------------------------------------------
(* The invariant is inductive. *)

LEMMA InvInit == Init => IInv
<1> SUFFICES ASSUME Init PROVE IInv
  OBVIOUS
<1>1. PICK t \in Tables : flash = Full(t) \/ flash = Blank
  <2>1. Defaults \in Tables
    BY ValueAssumption, SizeAssumption DEF Tables, Magic, Slots
  <2>2. ASSUME NEW w \in Puts PROVE [Defaults EXCEPT ![w[1]] = w[2]] \in Tables
    BY <2>1, PutKeepsTable
  <2> QED BY <2>1, <2>2 DEF Init
<1>2. t # Erased
  BY ValueAssumption DEF Tables
<1> QED
  BY <1>1, <1>2, SizeAssumption DEF Init, IInv, TypeOK, OneTable, Full, Blank, Idle

LEMMA InvStep == IInv /\ [Next]_vars => IInv'
<1> SUFFICES ASSUME IInv, [Next]_vars PROVE IInv'
  OBVIOUS
<1> USE DEF IInv, TypeOK, OneTable, Idle
<1>0. Pages \in Nat \ {0}
  BY SizeAssumption
<1>1. CASE settings_init
  <2>1. Load(flash) \in Tables
    BY LoadIsTable DEF OneSector
  <2> QED BY <1>1, <2>1 DEF settings_init
<1>2. ASSUME NEW w \in Puts, settings_put(w[1], w[2])
      PROVE  IInv'
  <2>1. ram \in Tables
    BY <1>2 DEF settings_put
  <2>2. [ram EXCEPT ![w[1]] = w[2]] \in Tables
    BY <2>1, PutKeepsTable
  <2> QED BY <1>2, <2>2 DEF settings_put
<1>3. CASE settings_save
  <2>1. flash' = [p \in PageIds |-> Erased] /\ cursor' = 0 /\ ram' = ram /\ ram # NoTable
    BY <1>3 DEF settings_save, Blank
  <2>2. \A p \in PageIds : flash'[p] = IF p < cursor' THEN ram' ELSE Erased
    BY <2>1 DEF PageIds
  <2> QED BY <1>0, <2>1, <2>2
<1>4. CASE ProgramPage
  <2>1. ram \in Tables /\ ram # Erased
    BY <1>4, ValueAssumption DEF ProgramPage, Tables
  <2>2. cursor \in PageIds /\ cursor' = cursor + 1
    BY <1>0, <1>4 DEF ProgramPage, PageIds
  <2>3. flash' \in [PageIds -> Tables \cup {Erased}]
    BY <1>4, <2>1 DEF ProgramPage
  <2>4. \A p \in PageIds : flash'[p] = IF p < cursor' THEN ram ELSE Erased
    BY <1>4, <2>2 DEF ProgramPage, PageIds
  <2> QED BY <1>0, <1>4, <2>1, <2>2, <2>3, <2>4 DEF ProgramPage, PageIds
<1>5. CASE settings_deinit
  BY <1>5 DEF settings_deinit
<1>6. CASE settings_erase
  BY <1>6 DEF settings_erase, Blank
<1>7. CASE PowerLoss
  BY <1>0, <1>7 DEF PowerLoss
<1>8. CASE PowerLossInErase
  BY <1>8 DEF PowerLossInErase
<1>9. CASE UNCHANGED vars
  BY <1>9 DEF vars
<1> QED
  BY <1>1, <1>2, <1>3, <1>4, <1>5, <1>6, <1>7, <1>8, <1>9 DEF Next

(* The table in RAM and every page are tables of whole values, with the    *)
(* magic in entry 0 (settings.c:57-97, 358-384).                           *)
THEOREM TypeCorrect == Spec => []TypeOK
<1>1. IInv => TypeOK
  BY DEF IInv
<1> QED BY InvInit, InvStep, <1>1, PTL DEF Spec

(* The sector never mixes two tables (settings.c:307-310). *)
THEOREM NeverMixesTables == Spec => []OneTable
<1>1. IInv => OneTable
  BY DEF IInv
<1> QED BY InvInit, InvStep, <1>1, PTL DEF Spec

(* No power cut makes a start load a half-programmed value (settings.c:156-191). *)
THEOREM NeverTorn == Spec => []NoTornValue
<1>1. IInv => NoTornValue
  <2> SUFFICES ASSUME IInv PROVE NoTornValue
    OBVIOUS
  <2>1. Load(flash) \in Tables
    BY LoadIsTable DEF IInv, TypeOK, OneTable, OneSector
  <2> QED BY <2>1, ValueAssumption DEF NoTornValue, Tables
<1> QED BY InvInit, InvStep, <1>1, PTL DEF Spec
-----------------------------------------------------------------------------
(* Refinement: every step of the store is a step of ConfigStore, or stutters. *)

LEMMA StoreInit == Init => Store!Init
<1> SUFFICES ASSUME Init PROVE Store!Init
  OBVIOUS
<1>1. Load(flash) \in Tables
  BY InvInit, LoadIsTable DEF IInv, TypeOK, OneTable, OneSector
<1> QED
  BY <1>1 DEF Init, Store!Init, Store!Slots, Slots, Tables, Idle

LEMMA StoreStep == IInv /\ IInv' /\ [Next]_vars => [Store!Next]_(Store!vars)
<1> SUFFICES ASSUME IInv, IInv', [Next]_vars PROVE [Store!Next]_(Store!vars)
  OBVIOUS
<1> USE DEF Idle
<1>0. Pages \in Nat \ {0} /\ OneSector(flash) /\ OneSector(flash')
  BY SizeAssumption DEF IInv, TypeOK, OneTable, OneSector
<1>1. CASE settings_init
  BY <1>1 DEF settings_init, Store!Next, Store!Open
<1>2. ASSUME NEW w \in Puts, settings_put(w[1], w[2])
      PROVE  Store!Put
  <2>1. w[1] \in Store!Slots /\ w[2] \in Values
    BY ValueAssumption DEF Store!Slots, Slots
  <2> QED BY <1>2, <2>1 DEF settings_put, Store!Put
<1>3. CASE settings_save
  BY <1>0, <1>3, LoadBlank DEF settings_save, Store!Next, Store!BeginSave
<1>4. CASE ProgramPage
  <2>1. ram \in Tables /\ ram' = ram /\ ~Idle
    BY <1>0, <1>4, ValueAssumption DEF ProgramPage, IInv, TypeOK, OneTable
  <2>2. \A p \in PageIds : flash'[p] \in {ram, Erased}
    BY <1>4, <2>1 DEF ProgramPage, IInv, TypeOK, OneTable
  <2>3. CASE cursor + 1 = Pages
    <3>1. flash' = Full(ram)
      <4>1. \A p \in PageIds : flash'[p] = ram
        BY <1>0, <1>4, <2>1, <2>3 DEF ProgramPage, IInv, TypeOK, OneTable, PageIds
      <4> QED BY <4>1 DEF Full, IInv, TypeOK
    <3>2. Load(flash') = ram
      BY <2>1, <3>1, LoadFull
    <3> QED BY <1>4, <2>1, <2>3, <3>2 DEF ProgramPage, Store!Next, Store!EndSave
  <2>4. CASE cursor + 1 # Pages
    <3>1. Load(flash') \in Store!Shortened(Load(Full(ram)))
      BY <1>0, <2>1, <2>2, LoadFull, LoadShortened DEF Full
    <3> QED BY <1>4, <2>1, <2>4, <3>1, LoadFull DEF ProgramPage, Store!Next, Store!ContinueSave
  <2> QED BY <2>3, <2>4
<1>5. CASE settings_deinit
  BY <1>5 DEF settings_deinit, Store!Next, Store!Close
<1>6. CASE settings_erase
  BY <1>6, LoadBlank DEF settings_erase, Store!Next, Store!Erase
<1>7. CASE PowerLoss
  BY <1>7 DEF PowerLoss, Store!Next, Store!Crash
<1>8. CASE PowerLossInErase
  <2>1. \A p \in PageIds : flash'[p] \in {flash[p], Erased}
    BY <1>8 DEF PowerLossInErase
  <2>2. Load(flash') \in Store!Shortened(Load(flash))
    BY <1>0, <2>1, LoadShortened
  <2> QED BY <1>8, <2>2 DEF PowerLossInErase, Store!Next, Store!CrashInErase
<1>9. CASE UNCHANGED vars
  BY <1>9 DEF vars, Store!vars
<1> QED
  BY <1>1, <1>2, <1>3, <1>4, <1>5, <1>6, <1>7, <1>8, <1>9 DEF Next, Store!Next

(* The pages, erases and cuts of the store implement ConfigStore: a save is *)
(* all or nothing up to a shortening, and durable once its last page is in  *)
(* flash (settings.c:102-195, 288-335).                                     *)
THEOREM Refinement == Spec => ImplementsConfigStore
BY InvInit, InvStep, StoreInit, StoreStep, PTL DEF Spec, ImplementsConfigStore, Store!Spec
-----------------------------------------------------------------------------
(* The images of the UF2 tools: lists of blocks.                           *)

(* What the loops select: each chosen block, and no other. *)
LEMMA SelectedIs ==
  ASSUME NEW S, NEW file \in Seq(S), NEW chosen
  PROVE  /\ Selected(file, chosen) \in Seq(S)
         /\ \A j \in DOMAIN Selected(file, chosen) :
              \E k \in DOMAIN file \cap chosen : Selected(file, chosen)[j] = file[k]
         /\ \A k \in DOMAIN file \cap chosen :
              \E j \in DOMAIN Selected(file, chosen) : Selected(file, chosen)[j] = file[k]
<1> DEFINE n == Len(file)
           Is(f) == f = [k \in 0 .. n |->
                           IF k = 0 THEN <<>>
                           ELSE IF k \in chosen THEN Append(f[k - 1], file[k]) ELSE f[k - 1]]
           step == [k \in 1 .. n |->
                      [s \in Seq(S) |-> IF k \in chosen THEN Append(s, file[k]) ELSE s]]
           upTo == CHOOSE f : Is(f)
<1>1. n \in Nat /\ DOMAIN file = 1 .. n /\ \A k \in 1 .. n : file[k] \in S
  OBVIOUS
<1>2. Selected(file, chosen) = upTo[n]
  BY DEF Selected
<1> HIDE DEF n
<1>3. step \in [1 .. n -> [Seq(S) -> Seq(S)]]
  BY <1>1
<1> HIDE DEF step
<1>4. PICK f \in [0 .. n -> Seq(S)] : f[0] = <<>> /\ \A k \in 1 .. n : f[k] = step[k][f[k - 1]]
  <2>1. <<>> \in Seq(S)
    OBVIOUS
  <2>2. Iterations(n, Seq(S), <<>>, step) # {}
    BY <1>1, <1>3, <2>1, Recursion
  <2> QED BY <2>2 DEF Iterations
<1>5. Is(f)
  <2>1. ASSUME NEW k \in 1 .. n
        PROVE  f[k] = IF k \in chosen THEN Append(f[k - 1], file[k]) ELSE f[k - 1]
    <3>1. k - 1 \in 0 .. n /\ f[k - 1] \in Seq(S)
      BY <1>1
    <3> QED BY <1>4, <3>1 DEF step
  <2>2. ASSUME NEW k \in 0 .. n
        PROVE  f[k] = IF k = 0 THEN <<>>
                      ELSE IF k \in chosen THEN Append(f[k - 1], file[k]) ELSE f[k - 1]
    <3>1. k # 0 => k \in 1 .. n
      BY <1>1
    <3> QED BY <1>4, <2>1, <3>1
  <2>3. f = [k \in 0 .. n |-> f[k]]
    OBVIOUS
  <2> QED BY <2>2, <2>3
<1> HIDE DEF Is
<1>6. Is(upTo)
  BY <1>5
<1> HIDE DEF upTo
<1> USE DEF Is
<1>7. upTo[0] = <<>>
  BY <1>1, <1>6
<1>8. ASSUME NEW k \in 1 .. n
      PROVE  upTo[k] = IF k \in chosen THEN Append(upTo[k - 1], file[k]) ELSE upTo[k - 1]
  <2>1. k \in 0 .. n /\ k # 0
    BY <1>1
  <2> QED BY <1>6, <2>1
<1> HIDE DEF Is
<1> DEFINE Good(s, m) ==
             /\ s \in Seq(S)
             /\ \A j \in DOMAIN s : \E k \in 1 .. m : k \in chosen /\ s[j] = file[k]
             /\ \A k \in 1 .. m : k \in chosen => \E j \in DOMAIN s : s[j] = file[k]
           T == {m \in 0 .. n : Good(upTo[m], m)}
<1>9. 0 \in T
  <2>1. \A k \in 1 .. 0 : FALSE
    OBVIOUS
  <2>2. <<>> \in Seq(S) /\ DOMAIN <<>> = {}
    OBVIOUS
  <2>3. Good(<<>>, 0)
    BY <2>1, <2>2
  <2> QED BY <1>1, <1>7, <2>3
<1>10. ASSUME NEW m \in 1 .. n, m - 1 \in T PROVE m \in T
  <2> DEFINE s == upTo[m - 1]
  <2>1. Good(s, m - 1)
    BY <1>10
  <2> HIDE DEF s
  <2>2. Good(upTo[m], m)
    <3>1. CASE m \in chosen
      <4> DEFINE t == Append(s, file[m])
      <4>1. upTo[m] = t
        BY <1>8, <3>1 DEF s
      <4>2. /\ t \in Seq(S) /\ DOMAIN s = 1 .. Len(s) /\ DOMAIN t = 1 .. Len(s) + 1 /\ Len(s) \in Nat
            /\ t[Len(s) + 1] = file[m] /\ \A j \in DOMAIN s : t[j] = s[j]
        BY <1>1, <2>1
      <4> HIDE DEF t
      <4>3. ASSUME NEW j \in DOMAIN t PROVE \E k \in 1 .. m : k \in chosen /\ t[j] = file[k]
        <5>1. j = Len(s) + 1 \/ j \in DOMAIN s
          BY <4>2
        <5>2. CASE j = Len(s) + 1
          BY <3>1, <4>2, <5>2
        <5>3. CASE j \in DOMAIN s
          <6>1. PICK k \in 1 .. m - 1 : k \in chosen /\ s[j] = file[k]
            BY <2>1, <5>3
          <6>2. k \in 1 .. m
            OBVIOUS
          <6> QED BY <4>2, <5>3, <6>1, <6>2
        <5> QED BY <5>1, <5>2, <5>3
      <4>4. ASSUME NEW k \in 1 .. m, k \in chosen PROVE \E j \in DOMAIN t : t[j] = file[k]
        <5>1. k = m \/ k \in 1 .. m - 1
          OBVIOUS
        <5>2. CASE k = m
          <6>1. Len(s) + 1 \in DOMAIN t
            BY <4>2
          <6> QED BY <4>2, <5>2, <6>1
        <5>3. CASE k \in 1 .. m - 1
          <6>1. PICK j \in DOMAIN s : s[j] = file[k]
            BY <2>1, <4>4, <5>3
          <6>2. j \in DOMAIN t
            BY <4>2
          <6> QED BY <4>2, <6>1, <6>2
        <5> QED BY <5>1, <5>2, <5>3
      <4>5. Good(t, m)
        BY <4>2, <4>3, <4>4
      <4> QED BY <4>1, <4>5
    <3>2. CASE m \notin chosen
      <4>1. upTo[m] = s
        BY <1>8, <3>2 DEF s
      <4>2. ASSUME NEW j \in DOMAIN s PROVE \E k \in 1 .. m : k \in chosen /\ s[j] = file[k]
        <5>1. PICK k \in 1 .. m - 1 : k \in chosen /\ s[j] = file[k]
          BY <2>1
        <5>2. k \in 1 .. m
          OBVIOUS
        <5> QED BY <5>1, <5>2
      <4>3. ASSUME NEW k \in 1 .. m, k \in chosen PROVE \E j \in DOMAIN s : s[j] = file[k]
        <5>1. k \in 1 .. m - 1
          BY <3>2, <4>3
        <5> QED BY <2>1, <4>3, <5>1
      <4>4. Good(s, m)
        BY <2>1, <4>2, <4>3
      <4> QED BY <4>1, <4>4
    <3> QED BY <3>1, <3>2
  <2> HIDE DEF Good
  <2>3. m \in 0 .. n
    OBVIOUS
  <2> QED BY <2>2, <2>3
<1> HIDE DEF T, Good
<1>11. 0 .. n \subseteq T
  BY <1>1, <1>9, <1>10, UpTo
<1>12. Good(upTo[n], n)
  <2>1. n \in T
    BY <1>1, <1>11
  <2> QED BY <2>1 DEF T
<1> QED BY <1>1, <1>2, <1>12 DEF Good

(* The ends of a file. *)
LEMMA EndsIs ==
  ASSUME NEW s \in Seq(Block), s # <<>>
  PROVE  /\ Ends(s) \in Int /\ Starts(s) \in Nat
         /\ \A k \in DOMAIN s : LastOf(s[k]) \in Nat /\ LastOf(s[k]) <= Ends(s)
         /\ \A k \in DOMAIN s : s[k].at \in Nat /\ Starts(s) <= s[k].at /\ s[k].at <= LastOf(s[k])
         /\ \E k \in DOMAIN s : LastOf(s[k]) = Ends(s)
         /\ \E k \in DOMAIN s : s[k].at = Starts(s)
         /\ Starts(s) <= Ends(s)
<1> DEFINE n == Len(s)
           lasts == [k \in 1 .. n |-> LastOf(s[k])]
           ats == [k \in 1 .. n |-> s[k].at]
<1>1. n \in Nat \ {0} /\ DOMAIN s = 1 .. n /\ \A k \in 1 .. n : s[k] \in Block
  OBVIOUS
<1> HIDE DEF n
<1>2. \A k \in 1 .. n : /\ s[k].at \in Nat /\ s[k].size \in Nat \ {0} /\ LastOf(s[k]) \in Nat
                        /\ s[k].at <= LastOf(s[k])
  BY <1>1 DEF Block, LastOf
<1>3. lasts \in [1 .. n -> Int] /\ ats \in [1 .. n -> Int]
  BY <1>2
<1>4. \A k \in 1 .. n : lasts[k] = LastOf(s[k]) /\ ats[k] = s[k].at
  OBVIOUS
<1> HIDE DEF lasts, ats
<1>5. PICK m \in 1 .. n : \A k \in 1 .. n : lasts[k] <= lasts[m]
  BY <1>1, <1>3, Greatest
<1>6. PICK l \in 1 .. n : \A k \in 1 .. n : ats[l] <= ats[k]
  BY <1>1, <1>3, Least
<1>7. Ends(s) = LastOf(s[m])
  <2> DEFINE L == {LastOf(s[k]) : k \in DOMAIN s}
  <2>1. LastOf(s[m]) \in L
    BY <1>1
  <2>4. ASSUME NEW y \in L PROVE LastOf(s[m]) >= y /\ y \in Int
    <3>1. PICK k \in 1 .. n : y = LastOf(s[k])
      BY <1>1
    <3> QED BY <1>2, <1>4, <1>5, <3>1
  <2>2. Ends(s) = CHOOSE x \in L : \A y \in L : x >= y
    BY DEF Ends, Max
  <2> HIDE DEF L
  <2>3. Ends(s) \in L /\ \A y \in L : Ends(s) >= y
    BY <2>1, <2>2, <2>4
  <2> QED BY <1>2, <2>1, <2>3, <2>4
<1>8. Starts(s) = s[l].at
  <2> DEFINE L == {s[k].at : k \in DOMAIN s}
  <2>1. s[l].at \in L
    BY <1>1
  <2>4. ASSUME NEW y \in L PROVE s[l].at =< y /\ y \in Int
    <3>1. PICK k \in 1 .. n : y = s[k].at
      BY <1>1
    <3> QED BY <1>2, <1>4, <1>6, <3>1
  <2>2. Starts(s) = CHOOSE x \in L : \A y \in L : x =< y
    BY DEF Starts, Min
  <2> HIDE DEF L
  <2>3. Starts(s) \in L /\ \A y \in L : Starts(s) =< y
    BY <2>1, <2>2, <2>4
  <2> QED BY <1>2, <2>1, <2>3, <2>4
<1>9. \A k \in 1 .. n : LastOf(s[k]) <= Ends(s) /\ Starts(s) <= s[k].at
  BY <1>4, <1>5, <1>6, <1>7, <1>8
<1>10. Ends(s) \in Int /\ Starts(s) \in Nat /\ Starts(s) <= Ends(s)
  <2>1. s[l].at \in Nat /\ LastOf(s[m]) \in Nat /\ s[l].at <= LastOf(s[l]) /\ LastOf(s[l]) \in Nat
    BY <1>2
  <2>2. LastOf(s[l]) <= Ends(s)
    BY <1>9
  <2> QED BY <1>7, <1>8, <2>1, <2>2
<1>11. /\ \E k \in DOMAIN s : LastOf(s[k]) = Ends(s)
       /\ \E k \in DOMAIN s : s[k].at = Starts(s)
  BY <1>1, <1>7, <1>8
<1> HIDE DEF n
<1> QED BY <1>1, <1>2, <1>9, <1>10, <1>11

(* Quotients of any divisor.                                                *)
LEMMA Division ==
  ASSUME NEW P \in Nat \ {0}, NEW d \in Nat
  PROVE  /\ d \div P \in Nat
         /\ (d \div P) * P \in Nat
         /\ (d \div P) * P <= d /\ d < (d \div P) * P + P
BY SMT

LEMMA Product ==
  ASSUME NEW P \in Nat \ {0}, NEW a \in Nat, NEW b \in Nat, a < b
  PROVE  a * P \in Nat /\ b * P \in Nat /\ a * P + P <= b * P
BY SMT

(* The blocks of zeros cover an interval, each byte of it once. *)
LEMMA ZeroedIs ==
  ASSUME NEW first \in Nat, NEW last \in Nat, first <= last
  PROVE  /\ Zeroed(first, last) \in Seq(Block)
         /\ \A k \in DOMAIN Zeroed(first, last) : Zeroed(first, last)[k].zero
         /\ AllBytes(Zeroed(first, last)) = first .. last
         /\ AreApart(Zeroed(first, last))
<1> DEFINE P == PAYLOAD_SIZE
           n == (last - first) \div P + 1
           z == Zeroed(first, last)
           at(k) == first + (k - 1) * P
<1>1. P \in Nat \ {0} /\ last - first \in Nat
  BY InstallAssumption
<1>2. n \in Nat \ {0} /\ (n - 1) * P \in Nat /\ (n - 1) * P <= last - first /\ last - first < (n - 1) * P + P
  <2>1. n - 1 = (last - first) \div P
    BY <1>1, Division
  <2> QED BY <1>1, <2>1, Division
<1> HIDE DEF n
<1>3. ASSUME NEW k \in 1 .. n PROVE (k - 1) * P \in Nat /\ (k - 1) * P <= (n - 1) * P
  <2>1. k - 1 \in Nat /\ n - 1 \in Nat /\ (k = n \/ k - 1 < n - 1)
    BY <1>2
  <2> QED BY <1>1, <1>2, <2>1, Product
<1>4. ASSUME NEW x \in Int, NEW y \in Int PROVE Min({x, y}) = IF x <= y THEN x ELSE y
  <2>1. PICK m \in {x, y} : \A w \in {x, y} : m =< w
    OBVIOUS
  <2>2. Min({x, y}) \in {x, y} /\ \A w \in {x, y} : Min({x, y}) =< w
    BY <2>1 DEF Min
  <2> QED BY <2>2
<1>5. z = [k \in 1 .. n |->
             [at |-> at(k), size |-> Min({P, last - at(k) + 1}), start |-> TRUE, end |-> TRUE,
              zero |-> TRUE, num |-> 0, of |-> 0]]
  BY DEF Zeroed, n
<1>6. ASSUME NEW k \in 1 .. n
      PROVE  /\ at(k) \in Nat /\ first <= at(k) /\ at(k) <= last
             /\ z[k].at = at(k) /\ z[k].zero /\ z[k] \in Block
             /\ LastOf(z[k]) = IF at(k) + P - 1 <= last THEN at(k) + P - 1 ELSE last
  <2>1. at(k) \in Nat /\ first <= at(k) /\ at(k) <= last
    BY <1>1, <1>2, <1>3
  <2> HIDE DEF at
  <2>2. last - at(k) + 1 \in Nat \ {0}
    BY <2>1
  <2>3. Min({P, last - at(k) + 1}) = IF P <= last - at(k) + 1 THEN P ELSE last - at(k) + 1
    BY <1>1, <1>4, <2>2
  <2>4. z[k] = [at |-> at(k), size |-> Min({P, last - at(k) + 1}), start |-> TRUE, end |-> TRUE,
                zero |-> TRUE, num |-> 0, of |-> 0]
    BY <1>5
  <2> HIDE DEF z, P
  <2>5. z[k].size = (IF P <= last - at(k) + 1 THEN P ELSE last - at(k) + 1) /\ z[k].at = at(k) /\ z[k].zero
    BY <2>3, <2>4
  <2>6. z[k] \in Block
    BY <1>1, <2>1, <2>2, <2>3, <2>4 DEF Block
  <2> QED BY <1>1, <2>1, <2>5, <2>6 DEF LastOf
<1>7. DOMAIN z = 1 .. n /\ z \in Seq(Block)
  <2>1. DOMAIN z = 1 .. n /\ z = [k \in 1 .. n |-> z[k]]
    BY <1>5
  <2>2. \A k \in 1 .. n : z[k] \in Block
    BY <1>6
  <2> HIDE DEF z
  <2>3. z \in [1 .. n -> Block]
    BY <2>1, <2>2
  <2> QED BY <1>2, <2>1, <2>3, SeqDef
<1>8. ASSUME NEW x \in first .. last PROVE \E k \in 1 .. n : x \in Bytes(z[k])
  <2> DEFINE q == (x - first) \div P
  <2>1. x - first \in Nat
    OBVIOUS
  <2>2. q \in Nat /\ q * P \in Nat /\ q * P <= x - first /\ x - first < q * P + P
    BY <1>1, <2>1, Division
  <2> HIDE DEF q
  <2>3. q + 1 \in 1 .. n
    <3>1. CASE n - 1 < q
      <4>1. (n - 1) * P + P <= q * P
        BY <1>1, <1>2, <2>2, <3>1, Product
      <4> QED BY <1>1, <1>2, <2>2, <4>1
    <3>2. CASE ~(n - 1 < q)
      BY <1>2, <2>2, <3>2
    <3> QED BY <3>1, <3>2
  <2>4. at(q + 1) = first + q * P
    BY <2>2
  <2> HIDE DEF at, z, P
  <2>5. x \in Bytes(z[q + 1])
    BY <1>1, <1>6, <2>2, <2>3, <2>4 DEF Bytes
  <2> QED BY <2>3, <2>5
<1>9. ASSUME NEW k \in 1 .. n PROVE Bytes(z[k]) \subseteq first .. last
  <2> HIDE DEF at, z, P
  <2> QED BY <1>1, <1>6 DEF Bytes
<1>10. ASSUME NEW j \in 1 .. n, NEW k \in 1 .. n, j < k PROVE Bytes(z[j]) \cap Bytes(z[k]) = {}
  <2>1. at(j) + P <= at(k)
    <3>1. j - 1 \in Nat /\ k - 1 \in Nat /\ j - 1 < k - 1
      BY <1>2, <1>10
    <3>2. (j - 1) * P \in Nat /\ (k - 1) * P \in Nat /\ (j - 1) * P + P <= (k - 1) * P
      BY <1>1, <3>1, Product
    <3> QED BY <1>1, <3>2
  <2> HIDE DEF at, z, P
  <2> QED BY <1>1, <1>6, <2>1 DEF Bytes
<1> HIDE DEF z, at, P
<1>11. AllBytes(z) = first .. last
  BY <1>7, <1>8, <1>9 DEF AllBytes
<1>12. AreApart(z)
  <2> SUFFICES ASSUME NEW j \in 1 .. n, NEW k \in 1 .. n, j # k
               PROVE  Bytes(z[j]) \cap Bytes(z[k]) = {}
    BY <1>7 DEF AreApart
  <2> QED BY <1>10
<1>13. \A k \in DOMAIN z : z[k].zero
  BY <1>6, <1>7
<1> QED BY <1>7, <1>11, <1>12, <1>13 DEF z

(* What a list of blocks is made of.                                        *)
LEMMA AreBlocks ==
  ASSUME NEW s \in Seq(Block)
  PROVE  /\ Len(s) \in Nat /\ DOMAIN s = 1 .. Len(s)
         /\ \A k \in DOMAIN s : /\ s[k] \in Block /\ s[k].at \in Nat /\ s[k].size \in Nat \ {0}
                                /\ LastOf(s[k]) \in Nat /\ s[k].at <= LastOf(s[k])
         /\ \A k \in DOMAIN s : LastOf(s[k]) \in Bytes(s[k]) /\ Bytes(s[k]) \subseteq Nat
<1>1. Len(s) \in Nat /\ DOMAIN s = 1 .. Len(s) /\ \A k \in DOMAIN s : s[k] \in Block
  OBVIOUS
<1>2. ASSUME NEW k \in DOMAIN s
      PROVE  /\ s[k].at \in Nat /\ s[k].size \in Nat \ {0}
             /\ LastOf(s[k]) \in Nat /\ s[k].at <= LastOf(s[k])
  BY <1>1 DEF Block, LastOf
<1>3. ASSUME NEW k \in DOMAIN s
      PROVE  LastOf(s[k]) \in Bytes(s[k]) /\ Bytes(s[k]) \subseteq Nat
  BY <1>2 DEF Bytes
<1> QED BY <1>1, <1>2, <1>3

(* Numbering changes the numbers only. *)
LEMMA NumberedIs ==
  ASSUME NEW s \in Seq(Block)
  PROVE  LET r == Numbered(s)
         IN  /\ r \in Seq(Block) /\ DOMAIN r = DOMAIN s /\ Len(r) = Len(s)
             /\ \A k \in DOMAIN s :
                  /\ r[k].num = k - 1 /\ r[k].of = Len(s) /\ r[k].zero = s[k].zero
                  /\ LastOf(r[k]) = LastOf(s[k]) /\ Bytes(r[k]) = Bytes(s[k])
             /\ AllBytes(r) = AllBytes(s)
             /\ AreApart(s) => AreApart(r)
<1> DEFINE r == Numbered(s)
<1>1. Len(s) \in Nat /\ DOMAIN s = 1 .. Len(s) /\ \A k \in DOMAIN s : s[k] \in Block
  OBVIOUS
<1>2. r = [k \in 1 .. Len(s) |-> [s[k] EXCEPT !.num = k - 1, !.of = Len(s)]]
  BY <1>1 DEF Numbered
<1> HIDE DEF r
<1>4. ASSUME NEW k \in DOMAIN s
      PROVE  /\ r[k].num = k - 1 /\ r[k].of = Len(s) /\ r[k].zero = s[k].zero
             /\ r[k].at = s[k].at /\ r[k].size = s[k].size /\ r[k] \in Block
  <2>1. r[k] = [s[k] EXCEPT !.num = k - 1, !.of = Len(s)] /\ s[k] \in Block
    BY <1>1, <1>2
  <2>2. k - 1 \in Nat
    BY <1>1
  <2> QED BY <1>1, <2>1, <2>2 DEF Block
<1>3. r \in Seq(Block) /\ DOMAIN r = DOMAIN s /\ Len(r) = Len(s)
  <2>1. r = [k \in 1 .. Len(s) |-> r[k]] /\ DOMAIN r = 1 .. Len(s)
    BY <1>2
  <2>2. r \in [1 .. Len(s) -> Block]
    BY <1>1, <1>4, <2>1
  <2>3. r \in Seq(Block)
    BY <1>1, <2>2, SeqDef
  <2>4. Len(r) \in Nat /\ 1 .. Len(r) = 1 .. Len(s)
    BY <2>1, <2>3
  <2> QED BY <1>1, <2>1, <2>3, <2>4
<1>5. ASSUME NEW k \in DOMAIN s
      PROVE  LastOf(r[k]) = LastOf(s[k]) /\ Bytes(r[k]) = Bytes(s[k])
  BY <1>4 DEF LastOf, Bytes
<1>6. AllBytes(r) = AllBytes(s)
  BY <1>3, <1>5 DEF AllBytes
<1>7. AreApart(s) => AreApart(r)
  BY <1>3, <1>5 DEF AreApart
<1> QED BY <1>3, <1>4, <1>5, <1>6, <1>7 DEF r

(* One list of blocks after another. *)
LEMMA ConcatIs ==
  ASSUME NEW s \in Seq(Block), NEW t \in Seq(Block)
  PROVE  /\ s \o t \in Seq(Block)
         /\ \A k \in DOMAIN (s \o t) : \/ \E j \in DOMAIN s : (s \o t)[k] = s[j]
                                       \/ \E j \in DOMAIN t : (s \o t)[k] = t[j]
         /\ AllBytes(s \o t) = AllBytes(s) \cup AllBytes(t)
         /\ AreApart(s \o t) <=>
              AreApart(s) /\ AreApart(t) /\ AllBytes(s) \cap AllBytes(t) = {}
<1> DEFINE n == Len(s)
           m == Len(t)
           c == s \o t
<1>1. /\ n \in Nat /\ m \in Nat /\ DOMAIN s = 1 .. n /\ DOMAIN t = 1 .. m
      /\ c \in Seq(Block) /\ DOMAIN c = 1 .. n + m
  BY ConcatProperties
<1>2. /\ \A k \in 1 .. n : c[k] = s[k]
      /\ \A k \in n + 1 .. n + m : c[k] = t[k - n]
  BY ConcatProperties
<1> HIDE DEF c, n, m
<1>3. ASSUME NEW k \in 1 .. n PROVE k \in DOMAIN c /\ c[k] = s[k]
  BY <1>1, <1>2
<1>4. ASSUME NEW k \in 1 .. m PROVE n + k \in DOMAIN c /\ c[n + k] = t[k]
  <2>1. n + k \in n + 1 .. n + m /\ (n + k) - n = k
    BY <1>1
  <2>2. c[n + k] = t[(n + k) - n]
    BY <1>2, <2>1
  <2> QED BY <1>1, <2>1, <2>2
<1>5. ASSUME NEW k \in DOMAIN c
      PROVE  (k \in 1 .. n /\ c[k] = s[k]) \/ \E j \in 1 .. m : k = n + j /\ c[k] = t[j]
  <2>1. CASE k \in 1 .. n
    BY <1>3, <2>1
  <2>2. CASE k \notin 1 .. n
    <3>1. n \in Nat /\ m \in Nat /\ k \in 1 .. n + m /\ k \notin 1 .. n
      BY <1>1, <2>2
    <3>2. k \in n + 1 .. n + m /\ k - n \in 1 .. m /\ k = n + (k - n)
      BY ONLY <3>1
    <3>3. c[k] = t[k - n]
      BY <1>2, <3>2
    <3> QED BY <3>2, <3>3
  <2> QED BY <2>1, <2>2
<1>6. AllBytes(c) = AllBytes(s) \cup AllBytes(t)
  <2>1. AllBytes(c) \subseteq AllBytes(s) \cup AllBytes(t)
    <3> SUFFICES ASSUME NEW x, NEW k \in DOMAIN c, x \in Bytes(c[k])
                 PROVE  x \in AllBytes(s) \cup AllBytes(t)
      BY DEF AllBytes
    <3>1. CASE k \in 1 .. n /\ c[k] = s[k]
      BY <1>1, <3>1 DEF AllBytes
    <3>2. CASE \E j \in 1 .. m : k = n + j /\ c[k] = t[j]
      BY <1>1, <3>2 DEF AllBytes
    <3> QED BY <1>5, <3>1, <3>2
  <2>2. AllBytes(s) \subseteq AllBytes(c)
    BY <1>1, <1>3 DEF AllBytes
  <2>3. AllBytes(t) \subseteq AllBytes(c)
    <3> SUFFICES ASSUME NEW x, NEW k \in 1 .. m, x \in Bytes(t[k]) PROVE x \in AllBytes(c)
      BY <1>1 DEF AllBytes
    <3> QED BY <1>4 DEF AllBytes
  <2> QED BY <2>1, <2>2, <2>3
<1>7. ASSUME AreApart(c)
      PROVE  AreApart(s) /\ AreApart(t) /\ AllBytes(s) \cap AllBytes(t) = {}
  <2>1. AreApart(s)
    BY <1>1, <1>3, <1>7 DEF AreApart
  <2>2. ASSUME NEW j \in 1 .. m, NEW k \in 1 .. m, j # k
        PROVE  Bytes(t[j]) \cap Bytes(t[k]) = {}
    <3>1. n + j # n + k
      BY <1>1, <2>2
    <3>2. n + j \in DOMAIN c /\ n + k \in DOMAIN c /\ c[n + j] = t[j] /\ c[n + k] = t[k]
      BY <1>4
    <3> QED BY <1>7, <3>1, <3>2 DEF AreApart
  <2>3. ASSUME NEW j \in 1 .. n, NEW k \in 1 .. m
        PROVE  Bytes(s[j]) \cap Bytes(t[k]) = {}
    <3>1. j # n + k
      BY <1>1
    <3>2. j \in DOMAIN c /\ n + k \in DOMAIN c /\ c[j] = s[j] /\ c[n + k] = t[k]
      BY <1>3, <1>4
    <3> QED BY <1>7, <3>1, <3>2 DEF AreApart
  <2> QED BY <1>1, <2>1, <2>2, <2>3 DEF AreApart, AllBytes
<1>8. ASSUME AreApart(s), AreApart(t), AllBytes(s) \cap AllBytes(t) = {}
      PROVE  AreApart(c)
  <2>1. \A j \in 1 .. n, k \in 1 .. m : Bytes(s[j]) \cap Bytes(t[k]) = {}
    BY <1>1, <1>8 DEF AllBytes
  <2>2. /\ \A j, k \in 1 .. n : j # k => Bytes(s[j]) \cap Bytes(s[k]) = {}
        /\ \A j, k \in 1 .. m : j # k => Bytes(t[j]) \cap Bytes(t[k]) = {}
    BY <1>1, <1>8 DEF AreApart
  <2> SUFFICES ASSUME NEW j \in DOMAIN c, NEW k \in DOMAIN c, j # k
               PROVE  Bytes(c[j]) \cap Bytes(c[k]) = {}
    BY DEF AreApart
  <2>3. CASE j \in 1 .. n /\ c[j] = s[j]
    <3>1. CASE k \in 1 .. n /\ c[k] = s[k]
      BY <2>2, <2>3, <3>1
    <3>2. CASE \E l \in 1 .. m : k = n + l /\ c[k] = t[l]
      BY <2>1, <2>3, <3>2
    <3> QED BY <1>5, <3>1, <3>2
  <2>4. CASE \E i \in 1 .. m : j = n + i /\ c[j] = t[i]
    <3>0. PICK i \in 1 .. m : j = n + i /\ c[j] = t[i]
      BY <2>4
    <3>1. CASE k \in 1 .. n /\ c[k] = s[k]
      BY <2>1, <3>0, <3>1
    <3>2. CASE \E l \in 1 .. m : k = n + l /\ c[k] = t[l]
      <4>1. PICK l \in 1 .. m : k = n + l /\ c[k] = t[l]
        BY <3>2
      <4>2. i # l
        BY <3>0, <4>1
      <4> QED BY <2>2, <3>0, <4>1, <4>2
    <3> QED BY <1>5, <3>1, <3>2
  <2> QED BY <1>5, <2>3, <2>4
<1>9. \A k \in DOMAIN c : \/ \E j \in DOMAIN s : c[k] = s[j]
                          \/ \E j \in DOMAIN t : c[k] = t[j]
  BY <1>1, <1>5
<1> QED BY <1>1, <1>6, <1>7, <1>8, <1>9 DEF c

(* What MergeBlocks puts between the programs and after them. *)
LEMMA FillerIs ==
  ASSUME NEW first \in Nat, NEW last \in Nat, NEW s,
         s = IF first <= last THEN Zeroed(first, last) ELSE <<>>
  PROVE  /\ s \in Seq(Block)
         /\ \A k \in DOMAIN s : s[k].zero
         /\ AllBytes(s) = first .. last
         /\ AreApart(s)
<1>1. CASE first <= last
  BY <1>1, ZeroedIs
<1>2. CASE ~(first <= last)
  <2>1. s = <<>> /\ DOMAIN s = {} /\ first .. last = {} /\ s \in Seq(Block)
    BY <1>2
  <2> QED BY <2>1 DEF AllBytes, AreApart
<1> QED BY <1>1, <1>2

(* The bytes of a file lie between its ends. *)
LEMMA BytesWithin ==
  ASSUME NEW s \in Seq(Block), s # <<>>
  PROVE  /\ AllBytes(s) \subseteq Starts(s) .. Ends(s)
         /\ Ends(s) \in AllBytes(s) /\ Ends(s) \in Nat /\ Starts(s) \in Nat
         /\ Starts(s) <= Ends(s) /\ Starts(s) \in AllBytes(s)
<1>1. ASSUME NEW k \in DOMAIN s PROVE Bytes(s[k]) \subseteq Starts(s) .. Ends(s)
  <2>1. s[k].at \in Nat /\ Starts(s) \in Nat /\ Ends(s) \in Int /\ LastOf(s[k]) \in Nat
        /\ Starts(s) <= s[k].at /\ LastOf(s[k]) <= Ends(s)
    BY EndsIs
  <2> QED BY <2>1 DEF Bytes
<1>2. PICK k \in DOMAIN s : LastOf(s[k]) = Ends(s)
  BY EndsIs
<1>3. LastOf(s[k]) \in Bytes(s[k]) /\ LastOf(s[k]) \in Nat
  BY AreBlocks
<1>4. Ends(s) \in AllBytes(s)
  BY <1>2, <1>3 DEF AllBytes
<1>5. AllBytes(s) \subseteq Starts(s) .. Ends(s)
  BY <1>1 DEF AllBytes
<1>6. PICK j \in DOMAIN s : s[j].at = Starts(s)
  BY EndsIs
<1>7. s[j].at \in Bytes(s[j])
  <2>1. s[j].at \in Nat /\ LastOf(s[j]) \in Nat /\ s[j].at <= LastOf(s[j])
    BY EndsIs
  <2> QED BY <2>1 DEF Bytes
<1>8. Starts(s) \in AllBytes(s)
  BY <1>6, <1>7 DEF AllBytes
<1> QED BY <1>2, <1>3, <1>4, <1>5, <1>8, EndsIs

(* What a merge promises of the blocks it makes from those of two programs. *)
MergedWell(blocks, s, t) ==
  LET given == AllBytes(s \o t)
  IN  /\ AllBytes(blocks) = given \cup (Ends(s) .. Starts(t)) \cup (Ends(t) .. FLASH_END_ADDR)
      /\ \A k \in DOMAIN blocks : blocks[k].zero => Bytes(blocks[k]) \cap given = {}
      /\ AreApart(s \o t) => AreApart(blocks)

(* The blocks count themselves.                                             *)
NumberedWell(blocks) ==
  /\ blocks \in Seq(Block)
  /\ \A k \in DOMAIN blocks : blocks[k].num = k - 1 /\ blocks[k].of = Len(blocks)

LEMMA MergeBlocksIs ==
  ASSUME NEW s \in Seq(Block), NEW t \in Seq(Block), s # <<>>, t # <<>>,
         \A k \in DOMAIN s : ~s[k].zero,  \A k \in DOMAIN t : ~t[k].zero,
         Ends(s) < Starts(t), Ends(t) <= FLASH_END_ADDR
  PROVE  NumberedWell(MergeBlocks(s, t)) /\ MergedWell(MergeBlocks(s, t), s, t)
<1> DEFINE gap == IF Ends(s) + 1 <= Starts(t) - 1
                  THEN Zeroed(Ends(s) + 1, Starts(t) - 1) ELSE <<>>
           tail == IF Ends(t) < FLASH_END_ADDR
                   THEN Zeroed(Ends(t) + 1, FLASH_END_ADDR) ELSE <<>>
           c == s \o gap \o t \o tail
           r == Numbered(c)
           S == AllBytes(s)
           T == AllBytes(t)
           G == Ends(s) + 1 .. Starts(t) - 1
           W == Ends(t) + 1 .. FLASH_END_ADDR
<1>1. /\ Starts(s) \in Nat /\ Ends(s) \in Nat /\ Starts(t) \in Nat /\ Ends(t) \in Nat
      /\ Starts(s) <= Ends(s) /\ Starts(t) <= Ends(t) /\ FLASH_END_ADDR \in Nat
      /\ S \subseteq Starts(s) .. Ends(s) /\ T \subseteq Starts(t) .. Ends(t) /\ Ends(t) \in T
      /\ Ends(s) \in S /\ Starts(t) \in T
  BY BytesWithin, InstallAssumption
<1>2. gap \in Seq(Block) /\ (\A k \in DOMAIN gap : gap[k].zero) /\ AllBytes(gap) = G /\ AreApart(gap)
  <2>1. PICK a \in Nat, b \in Nat : a = Ends(s) + 1 /\ b = Starts(t) - 1
    BY <1>1
  <2>2. gap = IF a <= b THEN Zeroed(a, b) ELSE <<>>
    BY <2>1
  <2> HIDE DEF gap
  <2>3. gap \in Seq(Block) /\ (\A k \in DOMAIN gap : gap[k].zero) /\ AllBytes(gap) = a .. b /\ AreApart(gap)
    BY <2>2, FillerIs
  <2> QED BY <2>1, <2>3
<1>3. tail \in Seq(Block) /\ (\A k \in DOMAIN tail : tail[k].zero) /\ AllBytes(tail) = W /\ AreApart(tail)
  <2>1. PICK a \in Nat, b \in Nat : a = Ends(t) + 1 /\ b = FLASH_END_ADDR
    BY <1>1
  <2>2. Ends(t) < FLASH_END_ADDR <=> a <= b
    BY <1>1, <2>1
  <2>3. tail = IF a <= b THEN Zeroed(a, b) ELSE <<>>
    BY <2>1, <2>2
  <2> HIDE DEF tail
  <2>4. tail \in Seq(Block) /\ (\A k \in DOMAIN tail : tail[k].zero) /\ AllBytes(tail) = a .. b /\ AreApart(tail)
    BY <2>3, FillerIs
  <2> QED BY <2>1, <2>4
<1>4. MergeBlocks(s, t) = r
  BY DEF MergeBlocks
<1> HIDE DEF gap, tail
<1>5. S \cap G = {} /\ S \cap T = {} /\ S \cap W = {} /\ G \cap T = {} /\ G \cap W = {} /\ T \cap W = {}
  BY <1>1
<1> DEFINE c2 == s \o gap
           c3 == c2 \o t
<1>6. c2 \in Seq(Block) /\ AllBytes(c2) = S \cup G
  BY <1>2, ConcatIs
<1>7. AreApart(s) => AreApart(c2)
  BY <1>2, <1>5, ConcatIs
<1> HIDE DEF G, W, S, T
<1>8. \A k \in DOMAIN c2 : (\E j \in DOMAIN s : c2[k] = s[j]) \/ (\E j \in DOMAIN gap : c2[k] = gap[j])
  BY <1>2, ConcatIs
<1> HIDE DEF c2
<1>9. c3 \in Seq(Block) /\ AllBytes(c3) = S \cup G \cup T
  BY <1>6, ConcatIs DEF T
<1>10. AreApart(s) /\ AreApart(t) => AreApart(c3)
  <2>1. AllBytes(c2) \cap AllBytes(t) = {}
    BY <1>5, <1>6 DEF T
  <2> QED BY <1>6, <1>7, <2>1, ConcatIs
<1>11. \A k \in DOMAIN c3 : (\E j \in DOMAIN c2 : c3[k] = c2[j]) \/ (\E j \in DOMAIN t : c3[k] = t[j])
  BY <1>6, ConcatIs
<1>12. c = c3 \o tail
  BY DEF c2
<1> HIDE DEF c3, c
<1>13. c \in Seq(Block) /\ AllBytes(c) = S \cup G \cup T \cup W
  BY <1>3, <1>9, <1>12, ConcatIs
<1>14. AreApart(s) /\ AreApart(t) => AreApart(c)
  <2>1. AllBytes(c3) \cap AllBytes(tail) = {}
    BY <1>3, <1>5, <1>9
  <2> QED BY <1>3, <1>9, <1>10, <1>12, <2>1, ConcatIs
<1>15. \A k \in DOMAIN c : (\E j \in DOMAIN c3 : c[k] = c3[j]) \/ (\E j \in DOMAIN tail : c[k] = tail[j])
  BY <1>3, <1>9, <1>12, ConcatIs
<1>16. AllBytes(s \o t) = S \cup T
  BY ConcatIs DEF S, T
<1>17. AreApart(s \o t) => AreApart(s) /\ AreApart(t)
  BY ConcatIs
<1>18. /\ r \in Seq(Block) /\ DOMAIN r = DOMAIN c /\ AllBytes(r) = AllBytes(c) /\ (AreApart(c) => AreApart(r)) /\ Len(r) = Len(c)
       /\ \A k \in DOMAIN c : r[k].num = k - 1 /\ r[k].of = Len(c) /\ r[k].zero = c[k].zero
                              /\ Bytes(r[k]) = Bytes(c[k])
  BY <1>13, NumberedIs
<1> HIDE DEF r
<1>19. ASSUME NEW k \in DOMAIN r, r[k].zero PROVE Bytes(r[k]) \subseteq G \cup W
  <2>1. k \in DOMAIN c /\ c[k].zero /\ Bytes(r[k]) = Bytes(c[k])
    BY <1>18, <1>19
  <2>2. CASE \E j \in DOMAIN tail : c[k] = tail[j]
    BY <1>3, <2>1, <2>2 DEF AllBytes
  <2>3. CASE \E j \in DOMAIN c3 : c[k] = c3[j]
    <3>1. PICK j \in DOMAIN c3 : c[k] = c3[j]
      BY <2>3
    <3>2. ~(\E i \in DOMAIN t : c3[j] = t[i])
      BY <2>1, <3>1
    <3>3. PICK l \in DOMAIN c2 : c3[j] = c2[l]
      BY <1>11, <3>2
    <3>4. ~(\E i \in DOMAIN s : c2[l] = s[i])
      BY <2>1, <3>1, <3>3
    <3>5. PICK i \in DOMAIN gap : c2[l] = gap[i]
      BY <1>8, <3>4
    <3> QED BY <1>2, <2>1, <3>1, <3>3, <3>5 DEF AllBytes
  <2> QED BY <1>15, <2>1, <2>2, <2>3
<1>20. \A k \in DOMAIN r : r[k].zero => Bytes(r[k]) \cap (S \cup T) = {}
  BY <1>5, <1>19
<1>21. Ends(s) .. Starts(t) = G \cup {Ends(s), Starts(t)}
  <2>1. PICK a \in Nat, b \in Nat : a = Ends(s) /\ b = Starts(t) /\ a < b
    BY <1>1
  <2>2. a .. b = (a + 1 .. b - 1) \cup {a, b}
    BY <2>1
  <2> QED BY <2>1, <2>2 DEF G
<1>22. Ends(t) .. FLASH_END_ADDR = W \cup {Ends(t)}
  <2>1. PICK a \in Nat, b \in Nat : a = Ends(t) /\ b = FLASH_END_ADDR /\ a <= b
    BY <1>1
  <2>2. a .. b = (a + 1 .. b) \cup {a}
    BY <2>1
  <2> QED BY <2>1, <2>2 DEF W
<1>23. S \cup G \cup T \cup W = (S \cup T) \cup (Ends(s) .. Starts(t)) \cup (Ends(t) .. FLASH_END_ADDR)
  <2>1. Ends(s) \in S /\ Starts(t) \in T /\ Ends(t) \in T
    BY <1>1
  <2> QED BY ONLY <1>21, <1>22, <2>1
<1>24. NumberedWell(r)
  BY <1>18 DEF NumberedWell
<1>25. MergedWell(r, s, t)
  BY <1>13, <1>14, <1>16, <1>17, <1>18, <1>20, <1>23 DEF MergedWell
<1> QED BY <1>4, <1>24, <1>25

(* What a build without the erase region promises.                          *)
BuiltWell(blocks, from) ==
  LET bytes == AllBytes(blocks)
  IN  /\ bytes \subseteq AllBytes(from)
      /\ \A x \in bytes : x < ERASE_START_ADDRESS
      /\ \A k \in DOMAIN from : LastOf(from[k]) < ERASE_START_ADDRESS => Bytes(from[k]) \subseteq bytes

(* Blocks of a file, none of them made by the tool.                         *)
Given(s) == s \in Seq(Block) /\ \A k \in DOMAIN s : ~s[k].zero

LEMMA SelectedGiven ==
  ASSUME NEW s, Given(s), NEW chosen
  PROVE  Given(Selected(s, chosen))
<1>1. s \in Seq(Block)
  BY DEF Given
<1>2. /\ Selected(s, chosen) \in Seq(Block)
      /\ \A j \in DOMAIN Selected(s, chosen) :
           \E k \in DOMAIN s \cap chosen : Selected(s, chosen)[j] = s[k]
  BY <1>1, SelectedIs
<1> QED BY <1>2 DEF Given

LEMMA BuildIs ==
  ASSUME NEW s \in Seq(Block)
  PROVE  LET r == Numbered(Below(s, ERASE_START_ADDRESS))
         IN  NumberedWell(r) /\ BuiltWell(r, s)
<1> DEFINE chosen == {k \in DOMAIN s : LastOf(s[k]) < ERASE_START_ADDRESS}
           c == Selected(s, chosen)
           r == Numbered(c)
<1>1. /\ c \in Seq(Block)
      /\ \A j \in DOMAIN c : \E k \in DOMAIN s \cap chosen : c[j] = s[k]
      /\ \A k \in DOMAIN s \cap chosen : \E j \in DOMAIN c : c[j] = s[k]
  <2> HIDE DEF chosen
  <2> QED BY SelectedIs
<1>2. Below(s, ERASE_START_ADDRESS) = c
  BY DEF Below
<1> HIDE DEF c
<1>3. NumberedWell(r) /\ AllBytes(r) = AllBytes(c)
  <2>1. /\ r \in Seq(Block) /\ DOMAIN r = DOMAIN c /\ Len(r) = Len(c) /\ AllBytes(r) = AllBytes(c)
        /\ \A k \in DOMAIN c : r[k].num = k - 1 /\ r[k].of = Len(c)
    BY <1>1, NumberedIs
  <2> HIDE DEF r
  <2> QED BY <2>1 DEF NumberedWell
<1> HIDE DEF r
<1>4. AllBytes(c) \subseteq AllBytes(s)
  BY <1>1 DEF AllBytes
<1>5. ASSUME NEW x \in AllBytes(c) PROVE x < ERASE_START_ADDRESS
  <2>1. PICK j \in DOMAIN c : x \in Bytes(c[j])
    BY DEF AllBytes
  <2>2. PICK k \in DOMAIN s : c[j] = s[k] /\ LastOf(s[k]) < ERASE_START_ADDRESS
    BY <1>1
  <2>3. s[k].at \in Nat /\ LastOf(s[k]) \in Nat /\ ERASE_START_ADDRESS \in Nat
    BY AreBlocks, InstallAssumption
  <2> QED BY <2>1, <2>2, <2>3 DEF Bytes
<1>6. ASSUME NEW k \in DOMAIN s, LastOf(s[k]) < ERASE_START_ADDRESS
      PROVE  Bytes(s[k]) \subseteq AllBytes(c)
  <2>1. PICK j \in DOMAIN c : c[j] = s[k]
    BY <1>1, <1>6
  <2> QED BY <2>1 DEF AllBytes
<1>7. BuiltWell(r, s)
  BY <1>3, <1>4, <1>5, <1>6 DEF BuiltWell
<1> QED BY <1>2, <1>3, <1>7 DEF r

LEMMA EraseIs ==
  ASSUME NEW s \in Seq(Block)
  PROVE  LET r == Numbered(s \o Zeroed(ERASE_START_ADDRESS, ERASE_END_ADDRESS))
         IN  NumberedWell(r) /\ SectorFirst \in AllBytes(r)
<1>1. PICK a \in Nat, b \in Nat : a = ERASE_START_ADDRESS /\ b = ERASE_END_ADDRESS
  BY InstallAssumption
<1>2. a <= b /\ SectorFirst \in a .. b
  BY <1>1, InstallAssumption
<1>3. PICK z \in Seq(Block) : z = Zeroed(a, b) /\ AllBytes(z) = a .. b
  BY <1>2, ZeroedIs
<1>4. PICK c \in Seq(Block) : c = s \o z /\ AllBytes(c) = AllBytes(s) \cup AllBytes(z)
  BY ConcatIs
<1> DEFINE r == Numbered(c)
<1>5. /\ r \in Seq(Block) /\ DOMAIN r = DOMAIN c /\ Len(r) = Len(c) /\ AllBytes(r) = AllBytes(c)
      /\ \A k \in DOMAIN c : r[k].num = k - 1 /\ r[k].of = Len(c)
  BY <1>4, NumberedIs
<1>6. Numbered(s \o Zeroed(ERASE_START_ADDRESS, ERASE_END_ADDRESS)) = r
  BY <1>1, <1>3, <1>4
<1> HIDE DEF r
<1>7. NumberedWell(r) /\ SectorFirst \in AllBytes(r)
  BY <1>2, <1>3, <1>4, <1>5 DEF NumberedWell
<1> QED BY <1>6, <1>7

(* What each of the images is. *)
ImageIsWell(i) ==
  /\ NumberedWell(i.blocks)
  /\ i.tool \in {"build", "build --include-erase", "merge"}
  /\ i.tool = "merge" =>
       /\ MergedWell(i.blocks, i.from[1], i.from[2])
       /\ i.from[1] \in Seq(Block) /\ i.from[2] \in Seq(Block) /\ i.from[2] # <<>>
       /\ Ends(i.from[2]) <= FLASH_END_ADDR
  /\ i.tool = "build" => BuiltWell(i.blocks, i.from[1] \o i.from[2])
  /\ i.tool = "build --include-erase" => SectorFirst \in AllBytes(i.blocks)
  /\ i.blocks # <<>>

LEMMA ImagesAre ==
  ASSUME NEW i \in Images
  PROVE  ImageIsWell(i)
<1>1. PICK f \in Files : \/ i \in Built(f[1], f[2], FALSE)
                         \/ i \in Built(f[1], f[2], TRUE)
                         \/ i \in Merged(f[1], f[2])
  BY DEF Images
<1>2. PICK a, b : a = f[1] /\ b = f[2] /\ Given(a) /\ Given(b)
  BY FilesAssumption DEF Given
<1>3. PICK s, t : s = ReadForBuild(a) /\ t = ReadForBuild(b) /\ Given(s) /\ Given(t)
  BY <1>2, SelectedGiven DEF ReadForBuild
<1>4. PICK u, v : u = ReadForMerge(a) /\ v = ReadForMerge(b) /\ Given(u) /\ Given(v)
  BY <1>2, SelectedGiven DEF ReadForMerge
<1>5. PICK both \in Seq(Block) : both = s \o t
  BY <1>3, ConcatIs DEF Given
<1>6. CASE i \in Built(a, b, FALSE)
  <2> DEFINE r == Numbered(Below(both, ERASE_START_ADDRESS))
  <2>1. Build(a, b, FALSE) = r
    BY <1>3, <1>5 DEF Build
  <2>2. NumberedWell(r) /\ BuiltWell(r, both)
    BY BuildIs
  <2> HIDE DEF r
  <2>3. i = [blocks |-> r, from |-> <<s, t>>, tool |-> "build"] /\ IsValidFile(r)
    BY <1>3, <1>5, <1>6, <2>1 DEF Built
  <2>4. i.blocks = r /\ i.from[1] \o i.from[2] = both /\ i.tool = "build" /\ r # <<>>
    BY <1>5, <2>3 DEF IsValidFile
  <2> QED BY <2>2, <2>4 DEF ImageIsWell
<1>7. CASE i \in Built(a, b, TRUE)
  <2> DEFINE r == Numbered(both \o Zeroed(ERASE_START_ADDRESS, ERASE_END_ADDRESS))
  <2>1. Build(a, b, TRUE) = r
    BY <1>3, <1>5 DEF Build
  <2>2. NumberedWell(r) /\ SectorFirst \in AllBytes(r)
    BY EraseIs
  <2> HIDE DEF r
  <2>3. i = [blocks |-> r, from |-> <<s, t>>, tool |-> "build --include-erase"] /\ IsValidFile(r)
    BY <1>3, <1>5, <1>7, <2>1 DEF Built
  <2>4. i.blocks = r /\ i.from[1] \o i.from[2] = both /\ i.tool = "build --include-erase" /\ r # <<>>
    BY <1>5, <2>3 DEF IsValidFile
  <2> QED BY <2>2, <2>4 DEF ImageIsWell
<1>8. CASE i \in Merged(a, b)
  <2>1. i = [blocks |-> MergeBlocks(u, v), from |-> <<u, v>>, tool |-> "merge"] /\ ~IsRefused(u, v)
    BY <1>4, <1>8 DEF Merged, Merge, MayMerge
  <2>2. u # <<>> /\ v # <<>> /\ ~(Ends(u) >= Starts(v)) /\ ~(Ends(v) > FLASH_END_ADDR)
    BY <2>1 DEF IsRefused
  <2>3. Ends(u) < Starts(v) /\ Ends(v) <= FLASH_END_ADDR
    BY <1>4, <2>2, BytesWithin, InstallAssumption DEF Given
  <2>4. NumberedWell(MergeBlocks(u, v)) /\ MergedWell(MergeBlocks(u, v), u, v)
    BY <1>4, <2>2, <2>3, MergeBlocksIs DEF Given
  <2>5. i.blocks = MergeBlocks(u, v) /\ i.from[1] = u /\ i.from[2] = v /\ i.tool = "merge"
    BY <2>1
  <2>6. i.blocks # <<>>
    <3>1. Ends(v) \in Ends(v) .. FLASH_END_ADDR
      BY <1>4, <2>2, <2>3, BytesWithin, InstallAssumption DEF Given
    <3>2. Ends(v) \in AllBytes(i.blocks)
      BY <2>4, <2>5, <3>1 DEF MergedWell
    <3> QED BY <3>2 DEF AllBytes
  <2>7. u \in Seq(Block) /\ v \in Seq(Block)
    BY <1>4 DEF Given
  <2> QED BY <2>2, <2>3, <2>4, <2>5, <2>6, <2>7 DEF ImageIsWell
<1> QED BY <1>1, <1>2, <1>6, <1>7, <1>8

-----------------------------------------------------------------------------
(* The images copied to the board.  The inductive invariant: the store's,   *)
(* and that the image just copied is one the tools make.                    *)
InstallInv ==
  /\ IInv
  /\ image # NoImage =>
       \E i \in Images : image.blocks = i.blocks /\ image.from = i.from /\ image.tool = i.tool

LEMMA CopyKeepsStore ==
  ASSUME IInv, NEW i, NEW n, Copy(i, n)
  PROVE  IInv'
BY SizeAssumption DEF Copy, IInv, TypeOK, OneTable, Blank, Idle

LEMMA InstallInvHolds == InstallSpec => []InstallInv
<1>1. InstallInit => InstallInv
  BY InvInit DEF InstallInit, InstallInv
<1>2. InstallInv /\ [InstallNext]_installVars => InstallInv'
  <2> SUFFICES ASSUME InstallInv, [InstallNext]_installVars PROVE InstallInv'
    OBVIOUS
  <2>1. CASE Next /\ image' = NoImage
    <3>1. IInv'
      BY <2>1, InvStep DEF InstallInv
    <3> QED BY <2>1, <3>1 DEF InstallInv
  <2>2. ASSUME NEW i \in Images, NEW n, Copy(i, n) PROVE InstallInv'
    <3>1. IInv'
      BY <2>2, CopyKeepsStore DEF InstallInv
    <3>2. image'.blocks = i.blocks /\ image'.from = i.from /\ image'.tool = i.tool
      BY <2>2 DEF Copy
    <3> QED BY <3>1, <3>2 DEF InstallInv
  <2>3. CASE UNCHANGED installVars
    <3>1. IInv' /\ image' = image
      BY <2>3, InvStep DEF InstallInv, installVars, vars
    <3> QED BY <3>1 DEF InstallInv
  <2> QED BY <2>1, <2>2, <2>3 DEF InstallNext
<1> QED BY <1>1, <1>2, PTL DEF InstallSpec

(* An image holds what the code of the tool gives it, whatever the two      *)
(* programs: every byte of them where it belongs, once, and in a merged one *)
(* the zeros between them and up to FLASH_END_ADDR, and no other byte       *)
(* (merge_uf2.py:41, 149-205, build_uf2.py:80-94, 211-251).                 *)
THEOREM ImagesAreWhole == InstallSpec => []ImageIsWhole
<1>1. InstallInv => ImageIsWhole
  <2> SUFFICES ASSUME InstallInv, image # NoImage PROVE ImageIsWhole
    BY DEF ImageIsWhole
  <2>1. PICK i \in Images : image.blocks = i.blocks /\ image.from = i.from /\ image.tool = i.tool
    BY DEF InstallInv
  <2>2. ImageIsWell(i)
    BY ImagesAre
  <2> QED BY <2>1, <2>2 DEF ImageIsWhole, ImageIsWell, NumberedWell, MergedWell, BuiltWell
<1> QED BY <1>1, InstallInvHolds, PTL

LEMMA BytesWrite ==
  ASSUME NEW blocks \in Seq(Block), NEW x \in AllBytes(blocks), SectorFirst <= x, x <= SectorLast
  PROVE  \E k \in 1 .. Len(blocks) : WritesSector(blocks[k])
<1>1. PICK k \in DOMAIN blocks : x \in Bytes(blocks[k])
  BY DEF AllBytes
<1>2. SectorFirst \in Nat /\ SectorLast \in Nat
  BY InstallAssumption
<1>3. k \in 1 .. Len(blocks) /\ blocks[k].at \in Nat /\ LastOf(blocks[k]) \in Nat
  BY AreBlocks
<1> QED BY <1>1, <1>2, <1>3 DEF Bytes, WritesSector

(* Behind the second program the zeros of a merge begin. *)
LEMMA MergeWrites ==
  ASSUME NEW i \in Images, i.tool = "merge",
         \A k \in DOMAIN (i.from[1] \o i.from[2]) : LastOf((i.from[1] \o i.from[2])[k]) <= SectorLast
  PROVE  SectorLast \in AllBytes(i.blocks)
<1>1. PICK s \in Seq(Block), t \in Seq(Block) :
        /\ s = i.from[1] /\ t = i.from[2] /\ t # <<>>
        /\ Ends(t) .. FLASH_END_ADDR \subseteq AllBytes(i.blocks)
  BY ImagesAre DEF ImageIsWell, MergedWell
<1>2. SectorLast \in Nat /\ FLASH_END_ADDR \in Nat /\ SectorLast < FLASH_END_ADDR
  BY InstallAssumption
<1>3. PICK k \in DOMAIN t : LastOf(t[k]) = Ends(t) /\ Ends(t) \in Nat
  BY <1>1, EndsIs
<1>4. Len(s) + k \in DOMAIN (s \o t) /\ (s \o t)[Len(s) + k] = t[k]
  <2>1. /\ k \in 1 .. Len(t) /\ Len(s) \in Nat /\ Len(t) \in Nat
        /\ DOMAIN (s \o t) = 1 .. Len(s) + Len(t)
        /\ \A j \in Len(s) + 1 .. Len(s) + Len(t) : (s \o t)[j] = t[j - Len(s)]
    BY <1>3, ConcatProperties
  <2>2. Len(s) + k \in Len(s) + 1 .. Len(s) + Len(t) /\ (Len(s) + k) - Len(s) = k
    BY <2>1
  <2> QED BY <2>1, <2>2
<1>5. Ends(t) <= SectorLast
  BY <1>1, <1>3, <1>4
<1>6. SectorLast \in Ends(t) .. FLASH_END_ADDR
  BY <1>2, <1>3, <1>5
<1> QED BY <1>1, <1>6

(* An update writes below the sector, and the other images write to it.     *)
LEMMA WhatIsWritten ==
  ASSUME NEW i \in Images
  PROVE  /\ i.blocks \in Seq(Block) /\ i.blocks # <<>>
         /\ i.tool = "build" => \A k \in 1 .. Len(i.blocks) : ~WritesSector(i.blocks[k])
         /\ i.tool = "build --include-erase" => \E k \in 1 .. Len(i.blocks) : WritesSector(i.blocks[k])
         /\ i.tool = "merge" /\ (\A k \in DOMAIN (i.from[1] \o i.from[2]) :
                                 LastOf((i.from[1] \o i.from[2])[k]) <= SectorLast) =>
              \E k \in 1 .. Len(i.blocks) : WritesSector(i.blocks[k])
<1>1. ImageIsWell(i) /\ i.blocks \in Seq(Block) /\ i.blocks # <<>>
  BY ImagesAre DEF ImageIsWell, NumberedWell
<1>2. /\ SectorFirst \in Nat /\ SectorLast \in Nat /\ SectorFirst < SectorLast
      /\ ERASE_START_ADDRESS \in Nat /\ ERASE_START_ADDRESS <= SectorFirst
  BY InstallAssumption
<1>3. ASSUME i.tool = "build", NEW k \in 1 .. Len(i.blocks) PROVE ~WritesSector(i.blocks[k])
  <2>1. k \in DOMAIN i.blocks /\ LastOf(i.blocks[k]) \in Bytes(i.blocks[k]) /\ LastOf(i.blocks[k]) \in Nat
    BY <1>1, AreBlocks
  <2>2. LastOf(i.blocks[k]) \in AllBytes(i.blocks)
    BY <2>1 DEF AllBytes
  <2>3. LastOf(i.blocks[k]) < ERASE_START_ADDRESS
    BY <1>1, <1>3, <2>2 DEF ImageIsWell, BuiltWell
  <2> QED BY <1>2, <2>1, <2>3 DEF WritesSector
<1>4. ASSUME i.tool = "build --include-erase"
      PROVE  \E k \in 1 .. Len(i.blocks) : WritesSector(i.blocks[k])
  <2>1. SectorFirst \in AllBytes(i.blocks)
    BY <1>1, <1>4 DEF ImageIsWell
  <2>2. SectorFirst <= SectorFirst /\ SectorFirst <= SectorLast
    BY <1>2
  <2> QED BY <1>1, <2>1, <2>2, BytesWrite
<1>5. ASSUME i.tool = "merge",
             \A k \in DOMAIN (i.from[1] \o i.from[2]) : LastOf((i.from[1] \o i.from[2])[k]) <= SectorLast
      PROVE  \E k \in 1 .. Len(i.blocks) : WritesSector(i.blocks[k])
  <2>1. SectorLast \in AllBytes(i.blocks)
    BY <1>5, MergeWrites
  <2>2. SectorFirst <= SectorLast /\ SectorLast <= SectorLast
    BY <1>2
  <2> QED BY <1>1, <2>1, <2>2, BytesWrite
<1> QED BY <1>1, <1>3, <1>4, <1>5

(* An update keeps the settings wherever its copying is broken off, and the *)
(* other images clear them (build_uf2.py:80-94, 211-241,                    *)
(* merge_uf2.py:149-205, memmap_booster.ld).                                *)
THEOREM UpdateKeepsSettings == InstallSpec => KeptOrCleared
<1> DEFINE kept == Load(flash') = Load(flash)
           cleared == Load(flash') = Defaults
           from == image'.from[1] \o image'.from[2]
           Promised ==
             image' # NoImage =>
               /\ kept \/ cleared
               /\ image'.tool = "build" => kept
               /\ image'.tool = "build --include-erase" /\ image'.whole => cleared
               /\ image'.tool = "merge" /\ image'.whole
                    /\ (\A k \in DOMAIN from : LastOf(from[k]) <= SectorLast) => cleared
<1>1. [InstallNext]_installVars => [Promised]_installVars
  <2> SUFFICES ASSUME InstallNext, image' # NoImage PROVE Promised
    OBVIOUS
  <2>1. PICK i \in Images : \E n \in (BreakOffs \cap 1 .. Len(i.blocks)) \cup {Len(i.blocks)} : Copy(i, n)
    BY DEF InstallNext
  <2>2. PICK n \in (BreakOffs \cap 1 .. Len(i.blocks)) \cup {Len(i.blocks)} : Copy(i, n)
    BY <2>1
  <2>3. /\ flash' = IF \E k \in 1 .. n : WritesSector(i.blocks[k]) THEN Blank ELSE flash
        /\ image'.tool = i.tool /\ image'.from = i.from
        /\ image'.whole = (n = Len(i.blocks))
    BY <2>2 DEF Copy
  <2>4. kept \/ cleared
    BY <2>3, LoadBlank
  <2>5. 1 .. n \subseteq 1 .. Len(i.blocks)
    <3>1. i.blocks \in Seq(Block)
      BY WhatIsWritten
    <3> QED BY <3>1
  <2>6. ASSUME image'.tool = "build" PROVE kept
    BY <2>3, <2>5, <2>6, WhatIsWritten
  <2>7. ASSUME image'.tool = "build --include-erase", image'.whole PROVE cleared
    BY <2>3, <2>7, LoadBlank, WhatIsWritten
  <2>8. ASSUME image'.tool = "merge", image'.whole, \A k \in DOMAIN from : LastOf(from[k]) <= SectorLast
        PROVE  cleared
    BY <2>3, <2>8, LoadBlank, WhatIsWritten
  <2> QED BY <2>4, <2>6, <2>7, <2>8
<1> QED BY <1>1, PTL DEF InstallSpec, KeptOrCleared

(* The invariants of the store hold when images are copied between two      *)
(* starts, and broken off (settings.c:57-97, 156-191, 307-310).             *)
THEOREM InstallKeepsStore == InstallSpec => [](TypeOK /\ OneTable /\ NoTornValue)
<1>1. InstallInv => TypeOK /\ OneTable /\ NoTornValue
  <2> SUFFICES ASSUME InstallInv PROVE NoTornValue
    BY DEF InstallInv, IInv
  <2>1. Load(flash) \in Tables
    BY LoadIsTable DEF InstallInv, IInv, TypeOK, OneTable, OneSector
  <2> QED BY <2>1, ValueAssumption DEF NoTornValue, Tables
<1> QED BY <1>1, InstallInvHolds, PTL

(* A copy is an erase of the store, or nothing to it: the store with images *)
(* implements ConfigStore too (settings.c:102-195, 288-335).                *)
THEOREM InstallRefinement == InstallSpec => ImplementsConfigStore
<1>1. InstallInit => Store!Init
  BY StoreInit DEF InstallInit
<1>2. InstallInv /\ InstallInv' /\ [InstallNext]_installVars => [Store!Next]_(Store!vars)
  <2> SUFFICES ASSUME InstallInv, InstallInv', [InstallNext]_installVars
               PROVE  [Store!Next]_(Store!vars)
    OBVIOUS
  <2>1. CASE [Next]_vars
    BY <2>1, StoreStep DEF InstallInv
  <2>2. ASSUME NEW i, NEW n, Copy(i, n) PROVE [Store!Next]_(Store!vars)
    <3>1. CASE flash' = Blank
      BY <2>2, <3>1, LoadBlank DEF Copy, Store!Next, Store!Erase, Idle
    <3>2. CASE flash' = flash
      BY <2>2, <3>2 DEF Copy, Store!vars, Idle
    <3> QED BY <2>2, <3>1, <3>2 DEF Copy
  <2>3. CASE UNCHANGED installVars
    BY <2>1, <2>3 DEF installVars, vars
  <2> QED BY <2>1, <2>2, <2>3 DEF InstallNext
<1> QED BY <1>1, <1>2, InstallInvHolds, PTL DEF InstallSpec, ImplementsConfigStore, Store!Spec
-----------------------------------------------------------------------------
(* A table that names a network to join holds one form's credentials, but   *)
(* for some entries.                                                        *)
Together(t, but) ==
  t[WIFI_MODE] = STA /\ WIFI_MODE \notin but =>
    \E f \in Forms : /\ WifiEntries \subseteq DOMAIN f
                     /\ Accepted(f)
                     /\ \A i \in WifiEntries \ but : t[i] = f[i]

BeforeFeature == {"off", "first", "reload", "feature"}

(* The inductive invariant: the store's own, and for each point of the      *)
(* program what the table in RAM and the table in flash are known to hold.  *)
FInv ==
  /\ FirmwareTypeOK
  /\ OneTable
  /\ pc \notin BeforeFeature => ram[BOOT_FEATURE] = "IKBD"
  /\ pc \notin BeforeFeature \cup {"featureSave"} => Load(flash)[BOOT_FEATURE] = "IKBD"
  /\ pc \in {"fallbackSave", "wifiAp", "ap"} => ram[WIFI_MODE] # STA
  /\ pc = "joining" => retries > 0
  /\ pc # "halted"
  /\ At("reload") => MagicFound(flash)
  /\ ~At("serve") => unsaved = {}
  /\ ram # NoTable => Together(ram, strays \cup unsaved)
  /\ Together(Load(flash), strays)
-----------------------------------------------------------------------------
LEMMA Entries ==
  /\ BOOT_FEATURE \in Slots /\ WIFI_MODE \in Slots /\ WIFI_COUNTRY \in Slots
  /\ WifiEntries \subseteq Slots /\ BOOT_FEATURE \notin WifiEntries
  /\ WIFI_COUNTRY \notin WifiEntries /\ WIFI_MODE \in WifiEntries
  /\ \A i \in WifiEntries : i \in Nat /\ i # 0 /\ WIFI_MODE \in i .. NumEntries - 1
BY FirmwareAssumption, SizeAssumption
   DEF Slots, WifiEntries, BOOT_FEATURE, HOSTNAME, WIFI_AUTH, WIFI_COUNTRY, WIFI_PASSWORD, WIFI_SSID, WIFI_MODE

LEMMA DefaultsTable == Defaults \in Tables /\ \A but : Together(Defaults, but)
<1>1. Defaults \in Tables
  BY ValueAssumption, SizeAssumption DEF Tables, Magic, Slots
<1> QED
  BY <1>1, FirmwareAssumption DEF Together, STA, AP

LEMMA LessTogether ==
  ASSUME NEW t, NEW but, NEW more, Together(t, but)
  PROVE  Together(t, but \cup more)
BY DEF Together

(* Shortening a table loses neither the boot feature nor the unity of the   *)
(* credentials: WIFI_MODE is the last of their entries, and its default is  *)
(* not to join.                                                             *)
LEMMA ShortenedKeeps ==
  ASSUME NEW t, NEW d \in Store!Shortened(t)
  PROVE  /\ t[BOOT_FEATURE] = "IKBD" => d[BOOT_FEATURE] = "IKBD"
         /\ \A but : Together(t, but) => Together(d, but)
<1>1. \A i \in Slots : d[i] # t[i] => \A j \in i .. NumEntries - 1 : d[j] = Defaults[j]
  BY DEF Store!Shortened, Store!Slots, Slots
<1>2. t[BOOT_FEATURE] = "IKBD" => d[BOOT_FEATURE] = "IKBD"
  <2>1. BOOT_FEATURE \in BOOT_FEATURE .. NumEntries - 1
    BY Entries, SizeAssumption DEF Slots
  <2> QED BY <1>1, <2>1, Entries, FirmwareAssumption
<1>3. ASSUME d[WIFI_MODE] = STA
      PROVE  \A i \in WifiEntries : d[i] = t[i]
  <2> SUFFICES ASSUME NEW i \in WifiEntries, d[i] # t[i] PROVE FALSE
    OBVIOUS
  <2>1. d[WIFI_MODE] = Defaults[WIFI_MODE]
    BY <1>1, Entries
  <2> QED BY <1>3, <2>1, FirmwareAssumption DEF STA, AP
<1> QED
  BY <1>2, <1>3, Entries DEF Together

(* A page programmed, or the end of the save, shortens the table in RAM. *)
LEMMA PageShortens ==
  ASSUME IInv, ProgramPage
  PROVE  Load(flash') \in Store!Shortened(ram)
<1>1. IInv' /\ ram' = ram /\ ~Idle /\ ram \in Tables
  BY InvStep DEF Next, ProgramPage, Idle, IInv, TypeOK, OneTable
<1>2. \A p \in PageIds : flash'[p] \in {ram, Erased}
  BY <1>1 DEF ProgramPage, IInv, TypeOK, OneTable
<1>3. \A p \in PageIds : flash'[p] \in {Full(ram)[p], Erased}
  BY <1>2 DEF Full
<1>4. OneSector(flash')
  BY <1>1 DEF IInv, TypeOK, OneTable, OneSector
<1> QED
  BY <1>1, <1>3, <1>4, LoadFull, LoadShortened

LEMMA CutShortens ==
  ASSUME IInv, PowerLossInErase
  PROVE  Load(flash') \in Store!Shortened(Load(flash))
<1>1. IInv'
  BY InvStep DEF Next
<1>2. OneSector(flash) /\ OneSector(flash')
  BY <1>1 DEF IInv, TypeOK, OneTable, OneSector
<1>3. \A p \in PageIds : flash'[p] \in {flash[p], Erased}
  BY DEF PowerLossInErase, IInv, TypeOK
<1> QED
  BY <1>2, <1>3, LoadShortened
-----------------------------------------------------------------------------
LEMMA FInvInit == FirmwareInit => FInv
<1> SUFFICES ASSUME FirmwareInit PROVE FInv
  OBVIOUS
<1>1. PICK t \in Tables : (\A but : Together(t, but)) /\ (flash = Full(t) \/ flash = Blank)
  <2>1. CASE flash = Blank
    BY <2>1, DefaultsTable
  <2>2. ASSUME NEW c \in Countries,
               flash = Full([Defaults EXCEPT ![BOOT_FEATURE] = "CONFIG", ![WIFI_COUNTRY] = c])
        PROVE  \E t \in Tables : (\A but : Together(t, but)) /\ flash = Full(t)
    <3> DEFINE old == [Defaults EXCEPT ![BOOT_FEATURE] = "CONFIG", ![WIFI_COUNTRY] = c]
    <3>1. old \in [Slots -> Values]
      BY FirmwareAssumption, ValueAssumption
    <3>2. old[0] = Defaults[0] /\ old[WIFI_MODE] = Defaults[WIFI_MODE]
      BY Entries, ValueAssumption, SizeAssumption DEF Slots, BOOT_FEATURE, WIFI_COUNTRY, WIFI_MODE
    <3>3. old \in Tables /\ \A but : Together(old, but)
      BY <3>1, <3>2, FirmwareAssumption DEF Tables, Magic, Together, STA, AP
    <3> QED BY <2>2, <3>3
  <2> QED BY <2>1, <2>2 DEF FirmwareInit
<1>2. t # Erased /\ Pages \in Nat
  BY ValueAssumption, SizeAssumption DEF Tables
<1>3. TypeOK /\ OneTable
  BY <1>1, <1>2 DEF FirmwareInit, TypeOK, OneTable, Full, Blank, Idle
<1>4. \A but : Together(Load(flash), but)
  BY <1>1, LoadFull, LoadBlank, DefaultsTable
<1>5. /\ ram = NoTable /\ pc = "off" /\ retries = 0 /\ ap = NoAp /\ edited = FALSE
      /\ unsaved = {} /\ strays = {}
  BY DEF FirmwareInit
<1>6. FirmwareTypeOK
  <2>1. pc \in Points
    BY <1>5 DEF Points
  <2>2. retries \in 0 .. NumRetries
    BY <1>5, FirmwareAssumption
  <2>3. ap \in [host : Values, withId : BOOLEAN, password : Values, auth : Values] \cup {NoAp}
    BY <1>5
  <2>4. edited \in BOOLEAN
    BY <1>5, Zenon
  <2>5. unsaved \subseteq Slots /\ strays \subseteq Slots
    BY <1>5
  <2> QED BY <1>3, <1>5, <2>1, <2>2, <2>3, <2>4, <2>5 DEF FirmwareTypeOK
<1> QED
  BY <1>3, <1>4, <1>5, <1>6 DEF FInv, BeforeFeature, At

(* What a form puts keeps the table a table, *)
LEMMA WithKeeps ==
  ASSUME NEW t \in Tables, NEW f \in Forms, NEW g, DOMAIN g \subseteq DOMAIN f, \A i \in DOMAIN g : g[i] = f[i]
  PROVE  /\ With(t, g) \in Tables
         /\ With(t, g)[BOOT_FEATURE] = t[BOOT_FEATURE]
         /\ DOMAIN g \subseteq Slots
<1>1. f \in [DOMAIN f -> Values] /\ DOMAIN f \subseteq Slots \ {0} /\ BOOT_FEATURE \notin DOMAIN f
  BY FirmwareAssumption
<1>2. 0 \in Slots /\ 0 \notin DOMAIN g
  BY <1>1, SizeAssumption DEF Slots
<1>3. \A i \in DOMAIN g : g[i] \in Values
  BY <1>1
<1>4. With(t, g) \in Tables
  BY <1>1, <1>2, <1>3 DEF With, Tables
<1> QED BY <1>1, <1>4, Entries DEF With

(* and a saved one leaves the credentials of one form, its own or the one   *)
(* there before, but for what refused forms have put.                       *)
LEMMA FormKeeps ==
  ASSUME NEW t \in Tables, NEW f \in Forms, Accepted(f), NEW but, NEW own,
         Together(t, but \cup own)
  PROVE  Together(With(t, f), but \cup (own \ DOMAIN f))
<1>1. WifiEntries \subseteq DOMAIN f \/ DOMAIN f \cap WifiEntries = {}
  BY FirmwareAssumption
<1>2. CASE WifiEntries \subseteq DOMAIN f
  <2>1. \A i \in WifiEntries : With(t, f)[i] = f[i]
    BY <1>2, Entries DEF With
  <2> QED BY <1>2, <2>1 DEF Together
<1>3. CASE DOMAIN f \cap WifiEntries = {}
  <2>1. \A i \in WifiEntries : /\ With(t, f)[i] = t[i]
                               /\ i \in but \cup (own \ DOMAIN f) <=> i \in but \cup own
    BY <1>3, Entries DEF With
  <2>2. WIFI_MODE \in WifiEntries
    BY Entries
  <2>3. ASSUME With(t, f)[WIFI_MODE] = STA, WIFI_MODE \notin but \cup (own \ DOMAIN f)
        PROVE  \E h \in Forms : /\ WifiEntries \subseteq DOMAIN h
                                /\ Accepted(h)
                                /\ \A i \in WifiEntries \ (but \cup (own \ DOMAIN f)) : With(t, f)[i] = h[i]
    <3>1. t[WIFI_MODE] = STA /\ WIFI_MODE \notin but \cup own
      BY <2>1, <2>2, <2>3
    <3>2. PICK h \in Forms : /\ WifiEntries \subseteq DOMAIN h
                             /\ Accepted(h)
                             /\ \A i \in WifiEntries \ (but \cup own) : t[i] = h[i]
      BY <3>1 DEF Together
    <3>3. \A i \in WifiEntries \ (but \cup (own \ DOMAIN f)) : With(t, f)[i] = h[i]
      BY <2>1, <3>2
    <3> QED BY <3>2, <3>3
  <2> QED BY <2>3 DEF Together
<1> QED BY <1>1, <1>2, <1>3

(* A refused form adds its items to the entries that do not count.          *)
LEMMA RefusedKeeps ==
  ASSUME NEW t \in Tables, NEW g, NEW but, NEW own, Together(t, but \cup own)
  PROVE  Together(With(t, g), but \cup (own \cup DOMAIN g))
<1>1. \A i \in WifiEntries : i \notin DOMAIN g => With(t, g)[i] = t[i]
  BY Entries DEF With
<1>2. WIFI_MODE \in WifiEntries
  BY Entries
<1>3. ASSUME With(t, g)[WIFI_MODE] = STA, WIFI_MODE \notin but \cup (own \cup DOMAIN g)
      PROVE  \E h \in Forms : /\ WifiEntries \subseteq DOMAIN h
                              /\ Accepted(h)
                              /\ \A i \in WifiEntries \ (but \cup (own \cup DOMAIN g)) : With(t, g)[i] = h[i]
  <2>1. t[WIFI_MODE] = STA /\ WIFI_MODE \notin but \cup own
    BY <1>1, <1>2, <1>3
  <2>2. PICK h \in Forms : /\ WifiEntries \subseteq DOMAIN h
                           /\ Accepted(h)
                           /\ \A i \in WifiEntries \ (but \cup own) : t[i] = h[i]
    BY <2>1 DEF Together
  <2>3. \A i \in WifiEntries \ (but \cup (own \cup DOMAIN g)) : With(t, g)[i] = h[i]
    BY <1>1, <2>2
  <2> QED BY <2>2, <2>3
<1> QED BY <1>3 DEF Together

(* What mngr_init and network_wifiInit put keeps the table a table. *)
LEMMA PutsKeep ==
  ASSUME NEW t \in Tables
  PROVE  /\ [t EXCEPT ![BOOT_FEATURE] = "IKBD"] \in Tables
         /\ [t EXCEPT ![WIFI_COUNTRY] = CountryOf[@]] \in Tables
         /\ [t EXCEPT ![WIFI_MODE] = AP, ![HOSTNAME] = "croissant",
                      ![WIFI_PASSWORD] = "sidecart", ![WIFI_AUTH] = "5"] \in Tables
         /\ Filled(t) \in Tables
<1>1. t \in [Slots -> Values] /\ t[0] = Magic
  BY DEF Tables
<1>2. CountryOf[t[WIFI_COUNTRY]] \in Values /\ {"IKBD", "croissant", "sidecart", "5", AP} \subseteq Values
  BY <1>1, Entries, FirmwareAssumption
<1>3. ASSUME NEW u \in Tables, NEW i \in Slots \ {0}, NEW v \in Values
      PROVE  [u EXCEPT ![i] = v] \in Tables
  BY SizeAssumption DEF Tables, Slots
<1>4. {BOOT_FEATURE, HOSTNAME, WIFI_AUTH, WIFI_COUNTRY, WIFI_PASSWORD, WIFI_MODE} \subseteq Slots \ {0}
  BY FirmwareAssumption
  DEF BOOT_FEATURE, HOSTNAME, WIFI_AUTH, WIFI_COUNTRY, WIFI_PASSWORD, WIFI_SSID, WIFI_MODE
<1>5. [t EXCEPT ![WIFI_MODE] = AP, ![HOSTNAME] = "croissant",
                ![WIFI_PASSWORD] = "sidecart", ![WIFI_AUTH] = "5"] \in Tables
  BY <1>2, <1>3, <1>4
<1>6. Filled(t) \in Tables
  <2>1. /\ (IF t[HOSTNAME] = "" THEN "croissant" ELSE t[HOSTNAME]) \in Values
        /\ (IF t[WIFI_PASSWORD] = "" THEN "sidecart" ELSE t[WIFI_PASSWORD]) \in Values
        /\ (IF t[WIFI_AUTH] = "0" THEN "5" ELSE t[WIFI_AUTH]) \in Values
    BY <1>1, <1>2, <1>4
  <2>2. \A i \in Slots : Filled(t)[i] \in Values
    <3> SUFFICES ASSUME NEW i \in Slots PROVE Filled(t)[i] \in Values
      OBVIOUS
    <3>1. CASE i \notin {HOSTNAME, WIFI_PASSWORD, WIFI_AUTH}
      BY <1>1, <3>1 DEF Filled
    <3>2. CASE i = HOSTNAME
      BY <1>1, <2>1, <3>2 DEF Filled, HOSTNAME, WIFI_PASSWORD, WIFI_AUTH
    <3>3. CASE i = WIFI_PASSWORD
      BY <1>1, <2>1, <3>3 DEF Filled, HOSTNAME, WIFI_PASSWORD, WIFI_AUTH
    <3>4. CASE i = WIFI_AUTH
      BY <1>1, <2>1, <3>4 DEF Filled, HOSTNAME, WIFI_PASSWORD, WIFI_AUTH
    <3> QED BY <3>1, <3>2, <3>3, <3>4
  <2>3. Filled(t)[0] = Magic
    <3>1. 0 \in Slots
      BY SizeAssumption DEF Slots
    <3>2. 0 \notin {HOSTNAME, WIFI_PASSWORD, WIFI_AUTH}
      BY DEF HOSTNAME, WIFI_PASSWORD, WIFI_AUTH
    <3> QED BY <1>1, <3>1, <3>2 DEF Filled
  <2>4. Filled(t) = [i \in Slots |-> Filled(t)[i]]
    BY <1>1 DEF Filled
  <2>5. Filled(t) \in [Slots -> Values]
    BY <2>2, <2>4
  <2> QED BY <2>3, <2>5 DEF Tables
<1> QED
  BY <1>2, <1>3, <1>4, <1>5, <1>6
-----------------------------------------------------------------------------
(* The invariant is inductive.  Steps that write no page leave what flash    *)
(* loads as it is; a page written and an erase cut short only shorten it.    *)
LEMMA FInvStep == FInv /\ [FirmwareNext]_fwvars => FInv'
<1> SUFFICES ASSUME FInv, [FirmwareNext]_fwvars PROVE FInv'
  OBVIOUS
<1> USE DEF FInv, FirmwareTypeOK, BeforeFeature, At
<1> DEFINE Quiet == unsaved' = {} /\ strays' = strays /\ strays \cup unsaved = strays /\ strays' \cup unsaved' = strays
<1>0. /\ IInv /\ OneSector(flash) /\ Load(flash) \in Tables
      /\ NoTable \notin Tables /\ Pages \in Nat \ {0}
      /\ ram # NoTable => ram \in Tables
  BY LoadIsTable, ValueAssumption, SizeAssumption DEF IInv, TypeOK, OneTable, OneSector, Tables
<1>a. ASSUME flash' = flash, cursor' = cursor, Idle, ram' \in Tables
      PROVE  TypeOK' /\ OneTable' /\ Load(flash)' = Load(flash) /\ MagicFound(flash)' = MagicFound(flash)
  BY <1>a DEF TypeOK, OneTable, Idle
<1>q. ASSUME ~At("serve"), UNCHANGED refusals PROVE Quiet
  <2>1. unsaved = {} /\ unsaved' = unsaved /\ strays' = strays
    BY <1>q DEF refusals
  <2>2. strays \cup {} = strays
    OBVIOUS
  <2> QED BY <2>1, <2>2
<1>u. \A but : Together(Defaults, but)
  BY DefaultsTable
<1> HIDE DEF Quiet
<1>1. CASE PowerOn
  <2>1. /\ ram' = Load(flash) /\ flash' = flash /\ cursor' = cursor /\ Idle
        /\ pc' \in {"feature", "first"} /\ UNCHANGED <<retries, ap, edited>> /\ Quiet
    BY <1>q, <1>1 DEF PowerOn, settings_init
  <2> QED BY <1>0, <1>a, <2>1 DEF Points, AfterSave, Quiet
<1>2. CASE Reload
  <2>1. /\ ram' = Load(flash) /\ flash' = flash /\ cursor' = cursor /\ Idle
        /\ pc' = "feature" /\ UNCHANGED <<retries, ap, edited>> /\ Quiet
    BY <1>q, <1>2 DEF Reload
  <2> QED BY <1>0, <1>a, <2>1 DEF Points, Quiet
<1>3. CASE SetBootFeature
  <2>1. /\ ram \in Tables /\ ram' = [ram EXCEPT ![BOOT_FEATURE] = "IKBD"]
        /\ flash' = flash /\ cursor' = cursor /\ Idle
        /\ pc' = "featureSave" /\ UNCHANGED <<retries, ap, edited>> /\ Quiet
    BY <1>q, <1>0, <1>3 DEF SetBootFeature
  <2>2. ram' \in Tables
    BY <2>1, PutsKeep
  <2>4. ram'[BOOT_FEATURE] = "IKBD"
    BY <2>1, Entries DEF Tables
  <2>3. Together(ram', strays)
    <3>1. \A i \in WifiEntries : ram'[i] = ram[i]
      BY <2>1, Entries DEF Tables
    <3> QED BY <1>0, <2>1, <3>1, Entries DEF Together, Quiet
  <2> QED BY <1>0, <1>a, <2>1, <2>2, <2>3, <2>4 DEF Points, AfterSave, Quiet
<1>4. CASE StartSave
  <2>1. /\ ram \in Tables /\ ram' = ram /\ flash' = Blank /\ cursor' = 0
        /\ pc \in DOMAIN AfterSave /\ pc' = AfterSave[pc] /\ UNCHANGED <<retries, ap, edited>> /\ Quiet
    BY <1>q, <1>0, <1>4 DEF StartSave, settings_save, AfterSave
  <2>2. IInv'
    BY <1>0, <1>4, InvStep DEF StartSave, Next
  <2>3. Load(flash') = Defaults
    BY <2>1, LoadBlank
  <2>4. /\ pc' \in {"reload", "mngr", "wifiAp", "serve"}
        /\ pc' # "reload" => pc \notin BeforeFeature
        /\ pc' = "wifiAp" => pc = "fallbackSave"
    BY <2>1 DEF AfterSave
  <2>5. ~ Idle'
    BY <1>0, <2>1 DEF Idle
  <2> QED
    BY <1>0, <2>1, <2>2, <2>3, <2>4, <2>5, DefaultsTable, FirmwareAssumption DEF IInv, Points, Quiet
<1>5. CASE SavePage
  <2>1. /\ ram \in Tables /\ ram' = ram /\ ProgramPage /\ UNCHANGED <<pc, retries, ap, edited>> /\ Quiet
    BY <1>q, <1>0, <1>5 DEF SavePage, ProgramPage, TypeOK, OneTable, Idle
  <2>2. IInv'
    BY <1>0, <2>1, InvStep DEF Next
  <2>3. Load(flash') \in Store!Shortened(ram)
    BY <1>0, <2>1, PageShortens
  <2>4. pc \notin BeforeFeature => Load(flash')[BOOT_FEATURE] = "IKBD"
    BY <2>3, ShortenedKeeps
  <2>5. Together(Load(flash'), strays)
    <3>1. Together(ram, strays)
      <4>1. Together(ram, strays \cup unsaved) /\ strays \cup unsaved = strays
        BY <1>0, <2>1, ValueAssumption DEF Quiet
      <4> QED BY <4>1
    <3>2. \A but : Together(ram, but) => Together(Load(flash'), but)
      BY ONLY <2>3, ShortenedKeeps
    <3> QED BY ONLY <3>1, <3>2
  <2>6. Idle' => MagicFound(flash')
    <3>1. SUFFICES ASSUME Idle' PROVE MagicFound(flash')
      OBVIOUS
    <3>2. \A p \in PageIds : flash'[p] = ram
      BY <1>0, <2>1, <3>1 DEF ProgramPage, Idle, TypeOK, OneTable, PageIds
    <3>3. 0 \in Slots /\ ram # Erased
      BY <2>1, SizeAssumption, ValueAssumption DEF Slots, Tables
    <3> QED BY <2>1, <3>2, <3>3, EntryPages DEF MagicFound, ReadValue, Tables
  <2> QED BY <1>0, <2>1, <2>2, <2>4, <2>5, <2>6 DEF IInv, Quiet
<1>6. CASE ReadMode
  <2>1. /\ ram \in Tables /\ ram' = ram /\ flash' = flash /\ cursor' = cursor /\ Idle /\ pc = "mngr"
        /\ pc' \in {"wifiSta", "wifiAp"} /\ retries' = NumRetries /\ UNCHANGED <<ap, edited>> /\ Quiet
    BY <1>q, <1>0, <1>6 DEF ReadMode
  <2>2. pc' = "wifiAp" => ram[WIFI_MODE] # STA
    BY <1>6 DEF ReadMode
  <2>3. retries' \in 0 .. NumRetries
    BY <2>1, FirmwareAssumption
  <2> QED BY <1>0, <1>a, <2>1, <2>2, <2>3 DEF Points, Quiet
<1>7. ASSUME NEW point \in {"wifiSta", "wifiAp"}, NEW next,
             next = (IF point = "wifiSta" THEN "join" ELSE "ap"), StartChip(point, next)
      PROVE  FInv'
  <2>1. /\ ram \in Tables /\ ram' = [ram EXCEPT ![WIFI_COUNTRY] = CountryOf[@]]
        /\ flash' = flash /\ cursor' = cursor /\ Idle /\ pc = point
        /\ pc' \in {next, "dark"} /\ UNCHANGED <<retries, ap, edited>> /\ Quiet
    BY <1>q, <1>0, <1>7 DEF StartChip
  <2>2. ram' \in Tables
    BY <2>1, PutsKeep
  <2>3. \A i \in WifiEntries \cup {BOOT_FEATURE} : ram'[i] = ram[i]
    BY <2>1, Entries DEF Tables, BOOT_FEATURE, WIFI_COUNTRY
  <2>4. Together(ram', strays)
    BY <1>0, <2>1, <2>3, Entries DEF Together, Quiet
  <2> QED BY <1>0, <1>7, <1>a, <2>1, <2>2, <2>3, <2>4, Entries DEF Points, Quiet
<1>8. CASE StaStarts
  <2>1. /\ ram \in Tables /\ ram' = ram /\ flash' = flash /\ cursor' = cursor /\ Idle
        /\ pc = "join" /\ retries > 0 /\ pc' = "joining" /\ UNCHANGED <<retries, ap, edited>> /\ Quiet
    BY <1>q, <1>0, <1>8 DEF StaStarts
  <2> QED BY <1>0, <1>a, <2>1 DEF Points, Quiet
<1>9. CASE StaJoins
  <2>1. /\ ram \in Tables /\ ram' = ram /\ flash' = flash /\ cursor' = cursor /\ Idle
        /\ pc = "joining" /\ pc' = "serve" /\ edited' = FALSE /\ UNCHANGED <<retries, ap>> /\ Quiet
    BY <1>q, <1>0, <1>9 DEF StaJoins, Serve
  <2> QED BY <1>0, <1>a, <2>1 DEF Points, Quiet
<1>10. CASE StaFails
  <2>1. /\ ram \in Tables /\ ram' = ram /\ flash' = flash /\ cursor' = cursor /\ Idle
        /\ pc = "joining" /\ pc' = "join" /\ retries' = retries - 1 /\ UNCHANGED <<ap, edited>> /\ Quiet
    BY <1>q, <1>0, <1>10 DEF StaFails
  <2>2. retries' \in 0 .. NumRetries
    BY <2>1, FirmwareAssumption
  <2> QED BY <1>0, <1>a, <2>1, <2>2 DEF Points, Quiet
<1>11. CASE GiveUp
  <2>1. /\ ram \in Tables /\ flash' = flash /\ cursor' = cursor /\ Idle
        /\ ram' = [ram EXCEPT ![WIFI_MODE] = AP, ![HOSTNAME] = "croissant",
                              ![WIFI_PASSWORD] = "sidecart", ![WIFI_AUTH] = "5"]
        /\ pc = "join" /\ pc' = "fallbackSave" /\ UNCHANGED <<retries, ap, edited>> /\ Quiet
    BY <1>q, <1>0, <1>11 DEF GiveUp
  <2>2. ram' \in Tables
    BY <2>1, PutsKeep
  <2>3. ram'[WIFI_MODE] = AP /\ ram'[BOOT_FEATURE] = ram[BOOT_FEATURE]
    BY <2>1, Entries DEF Tables, BOOT_FEATURE, HOSTNAME, WIFI_AUTH, WIFI_PASSWORD, WIFI_MODE
  <2> QED BY <1>0, <1>a, <2>1, <2>2, <2>3 DEF Points, AfterSave, Together, AP, STA, Quiet
<1>12. CASE StartAp
  <2>1. /\ ram \in Tables /\ flash' = flash /\ cursor' = cursor /\ Idle
        /\ ram' = Filled(ram) /\ ap' = Announced(ram')
        /\ pc = "ap" /\ pc' \in {"serve", "apSave"} /\ edited' = FALSE /\ retries' = retries /\ Quiet
    BY <1>q, <1>0, <1>12 DEF StartAp, Serve
  <2>2. ram' \in Tables
    BY <2>1, PutsKeep
  <2>3. ram'[WIFI_MODE] = ram[WIFI_MODE] /\ ram'[BOOT_FEATURE] = ram[BOOT_FEATURE]
    <3>1. /\ WIFI_MODE \notin {HOSTNAME, WIFI_PASSWORD, WIFI_AUTH}
          /\ BOOT_FEATURE \notin {HOSTNAME, WIFI_PASSWORD, WIFI_AUTH}
      BY DEF BOOT_FEATURE, HOSTNAME, WIFI_AUTH, WIFI_PASSWORD, WIFI_MODE
    <3>2. ram \in [Slots -> Values]
      BY <2>1 DEF Tables
    <3> QED BY <2>1, <3>1, <3>2, Entries DEF Filled
  <2>4. ap' \in [host : Values, withId : BOOLEAN, password : Values, auth : Values]
    <3>1. ram' \in [Slots -> Values]
      BY <2>2 DEF Tables
    <3>2. ram'[HOSTNAME] \in Values /\ ram'[WIFI_AUTH] \in Values /\ Clipped[ram'[WIFI_PASSWORD]] \in Values
      BY <3>1, FirmwareAssumption
    <3>3. (ram'[HOSTNAME] = "croissant") \in BOOLEAN
      OBVIOUS
    <3> QED BY <2>1, <3>2, <3>3 DEF Announced
  <2> QED BY <1>0, <1>a, <2>1, <2>2, <2>3, <2>4 DEF Points, AfterSave, Together, Quiet
<1>13. CASE SaveForm
  <2>1. PICK f \in Forms : Accepted(f) /\ ram' = With(ram, f) /\ strays' = strays \cup (unsaved \ DOMAIN f)
    BY <1>13 DEF SaveForm
  <2>2. /\ ram \in Tables /\ flash' = flash /\ cursor' = cursor /\ Idle /\ unsaved' = {}
        /\ pc = "serve" /\ pc' = "formSave" /\ edited' = TRUE /\ UNCHANGED <<retries, ap>>
    BY <1>0, <1>13 DEF SaveForm
  <2>3. ram' \in Tables /\ ram'[BOOT_FEATURE] = ram[BOOT_FEATURE]
    BY <2>1, <2>2, WithKeeps
  <2>4. Together(ram', strays')
    BY <2>1, <2>2, FormKeeps
  <2>5. Together(Load(flash), strays')
    BY <2>1, LessTogether
  <2>6. strays' \subseteq Slots /\ strays' \cup unsaved' = strays'
    BY <2>1, <2>2
  <2> QED BY <1>0, <1>a, <2>2, <2>3, <2>4, <2>5, <2>6 DEF Points, AfterSave
<1>14. CASE RefuseForm
  <2>1. PICK g \in Refused : ram' = With(ram, g) /\ unsaved' = unsaved \cup DOMAIN g
    BY <1>14 DEF RefuseForm
  <2>2. /\ ram \in Tables /\ flash' = flash /\ cursor' = cursor /\ Idle
        /\ pc = "serve" /\ UNCHANGED <<pc, retries, ap, edited, strays>>
    BY <1>0, <1>14 DEF RefuseForm
  <2>3. PICK f \in Forms : DOMAIN g \subseteq DOMAIN f /\ \A i \in DOMAIN g : g[i] = f[i]
    BY FirmwareAssumption
  <2>4. ram' \in Tables /\ ram'[BOOT_FEATURE] = ram[BOOT_FEATURE] /\ DOMAIN g \subseteq Slots
    BY <2>1, <2>2, <2>3, WithKeeps
  <2>5. Together(ram', strays' \cup unsaved')
    BY <2>1, <2>2, RefusedKeeps
  <2>6. unsaved' \subseteq Slots /\ strays' \subseteq Slots
    BY <2>1, <2>2, <2>4
  <2>7. TypeOK' /\ OneTable' /\ Load(flash)' = Load(flash) /\ MagicFound(flash)' = MagicFound(flash)
    BY <1>a, <2>2, <2>4
  <2>b. pc \in Points /\ (pc = "off" <=> ram = NoTable) /\ ram' # NoTable
    BY <1>0, <2>2, <2>4
  <2>8. Together(Load(flash)', strays')
    BY <2>2, <2>7
  <2>9. FirmwareTypeOK'
    BY <2>2, <2>6, <2>7, <2>b
  <2>c. /\ pc' = "serve" /\ ram[BOOT_FEATURE] = "IKBD" /\ Load(flash)[BOOT_FEATURE] = "IKBD"
        /\ At("serve")'
    BY <2>2 DEF Idle
  <2>d. (pc \notin BeforeFeature \cup {"featureSave"} => Load(flash)[BOOT_FEATURE] = "IKBD")'
    BY <2>7, <2>c
  <2>e. (pc \notin BeforeFeature => ram[BOOT_FEATURE] = "IKBD")'
    BY <2>4, <2>c
  <2> QED BY <2>5, <2>7, <2>8, <2>9, <2>c, <2>d, <2>e
<1>15. CASE PowerCut
  <2>1. /\ ram' = NoTable /\ flash' = flash /\ cursor' = Pages
        /\ pc' = "off" /\ retries' = 0 /\ ap' = NoAp /\ edited' = FALSE
        /\ unsaved' = {} /\ strays' = strays
    BY <1>15 DEF PowerCut, PowerLoss, Off
  <2>2. IInv'
    BY <1>0, <1>15, InvStep DEF PowerCut, Next
  <2>3. retries' \in 0 .. NumRetries
    BY <2>1, FirmwareAssumption
  <2> QED BY <1>0, <2>1, <2>2, <2>3 DEF IInv, Points
<1>16. CASE PowerCutInErase
  <2>1. /\ ram' = NoTable /\ pc' = "off" /\ retries' = 0 /\ ap' = NoAp /\ edited' = FALSE
        /\ unsaved' = {} /\ strays' = strays
    BY <1>16 DEF PowerCutInErase, PowerLossInErase, Off
  <2>2. IInv'
    BY <1>0, <1>16, InvStep DEF PowerCutInErase, Next
  <2>3. Together(Load(flash'), strays)
    BY <1>0, <1>16, CutShortens, ShortenedKeeps DEF PowerCutInErase
  <2>4. retries' \in 0 .. NumRetries
    BY <2>1, FirmwareAssumption
  <2> QED BY <1>0, <2>1, <2>2, <2>3, <2>4 DEF IInv, Points
<1>17. CASE UNCHANGED fwvars
  BY <1>17 DEF fwvars, refusals, TypeOK, OneTable, Idle
<1> QED
  BY <1>1, <1>2, <1>3, <1>4, <1>5, <1>6, <1>7, <1>8, <1>9, <1>10, <1>11, <1>12, <1>13, <1>14,
     <1>15, <1>16, <1>17 DEF FirmwareNext, Progress
-----------------------------------------------------------------------------
(* The program points, the retries and the access point are what main and   *)
(* mngr_init make them, over the store's own types.                         *)
THEOREM FirmwareTypeCorrect == FirmwareSpec => []FirmwareTypeOK
<1>1. FInv => FirmwareTypeOK
  BY DEF FInv
<1> QED BY FInvInit, FInvStep, <1>1, PTL DEF FirmwareSpec

(* After main.c:104-105 every start finds IKBD, whatever is saved or cut    *)
(* afterwards in the session.                                               *)
THEOREM BootFeatureIsKept == FirmwareSpec => []BootFeatureSticks
<1>1. FInv => BootFeatureSticks
  BY DEF FInv, BootFeatureSticks, BeforeFeature
<1> QED BY FInvInit, FInvStep, <1>1, PTL DEF FirmwareSpec

(* No start joins a network with credentials of two submissions, or of      *)
(* none (mngr.c:23-52, settings.c:153-180).                                 *)
THEOREM CredentialsAreWhole == FirmwareSpec => []StaCredentialsTogether
<1>1. FInv => StaCredentialsTogether
  BY DEF FInv, StaCredentialsTogether, Together
<1> QED BY FInvInit, FInvStep, <1>1, PTL DEF FirmwareSpec
-----------------------------------------------------------------------------
(* What a served Booster keeps in flash: the table in use, and the access  *)
(* point it announces.  The argument follows one session: the table in RAM *)
(* and the one in flash part when something is put and meet again at the   *)
(* end of a save; in between only the country may differ, which the next   *)
(* start corrects to the same code.                                        *)

Corrected(t) == [t EXCEPT ![WIFI_COUNTRY] = CountryOf[@]]

CountrySet == {"join", "joining", "fallbackSave", "ap", "apSave", "serve", "formSave"}

(* A table that asks for the access point on the air. *)
Airs(t) == Filled(t) = t /\ ap = Announced(t) /\ t[WIFI_MODE] # STA

(* The inductive invariant, on top of FInv: where RAM and flash agree, and  *)
(* what the access point on the air was made from.                          *)
DurableInv ==
  /\ At("mngr") \/ At("wifiSta") \/ At("wifiAp") => Load(flash) = ram
  /\ At("join") \/ At("joining") \/ At("ap") => Corrected(Load(flash)) = ram
  /\ At("serve") => \A i \in Slots \ unsaved : Corrected(Load(flash))[i] = ram[i]
  /\ pc \in CountrySet => CountryOf[ram[WIFI_COUNTRY]] = ram[WIFI_COUNTRY]
  /\ pc \notin {"apSave", "serve", "formSave"} => ap = NoAp
  /\ pc = "formSave" => edited
  /\ ap # NoAp /\ ~edited => Airs(IF At("serve") THEN Corrected(Load(flash)) ELSE ram)
-----------------------------------------------------------------------------
LEMMA Distinct ==
  /\ {BOOT_FEATURE, HOSTNAME, WIFI_AUTH, WIFI_COUNTRY, WIFI_PASSWORD, WIFI_MODE} \subseteq Slots
  /\ WIFI_COUNTRY \notin {BOOT_FEATURE, HOSTNAME, WIFI_AUTH, WIFI_PASSWORD, WIFI_MODE}
  /\ WIFI_MODE \notin {HOSTNAME, WIFI_AUTH, WIFI_PASSWORD}
  /\ HOSTNAME # WIFI_AUTH /\ HOSTNAME # WIFI_PASSWORD /\ WIFI_AUTH # WIFI_PASSWORD
BY FirmwareAssumption
   DEF BOOT_FEATURE, HOSTNAME, WIFI_AUTH, WIFI_COUNTRY, WIFI_PASSWORD, WIFI_MODE

(* Correcting the country changes no other entry, and is done once for all. *)
LEMMA CorrectedAt ==
  ASSUME NEW t \in Tables
  PROVE  /\ \A i \in Slots \ {WIFI_COUNTRY} : Corrected(t)[i] = t[i]
         /\ Corrected(t)[WIFI_COUNTRY] = CountryOf[t[WIFI_COUNTRY]]
         /\ CountryOf[Corrected(t)[WIFI_COUNTRY]] = Corrected(t)[WIFI_COUNTRY]
<1>1. t \in [Slots -> Values] /\ WIFI_COUNTRY \in Slots
  BY Distinct DEF Tables
<1> QED BY <1>1, CountryAssumption DEF Corrected

LEMMA CorrectedSame ==
  ASSUME NEW t \in Tables, CountryOf[t[WIFI_COUNTRY]] = t[WIFI_COUNTRY]
  PROVE  Corrected(t) = t
BY Distinct DEF Corrected, Tables

(* What StartAp fills in, entry by entry. *)
LEMMA FilledAt ==
  ASSUME NEW t \in Tables
  PROVE  /\ DOMAIN Filled(t) = Slots
         /\ \A i \in Slots \ {HOSTNAME, WIFI_PASSWORD, WIFI_AUTH} : Filled(t)[i] = t[i]
         /\ Filled(t)[HOSTNAME] = IF t[HOSTNAME] = "" THEN "croissant" ELSE t[HOSTNAME]
         /\ Filled(t)[WIFI_PASSWORD] = IF t[WIFI_PASSWORD] = "" THEN "sidecart" ELSE t[WIFI_PASSWORD]
         /\ Filled(t)[WIFI_AUTH] = IF t[WIFI_AUTH] = "0" THEN "5" ELSE t[WIFI_AUTH]
<1>1. t \in [Slots -> Values]
  BY DEF Tables
<1> QED BY <1>1, Distinct DEF Filled

(* There is nothing to fill in twice. *)
LEMMA FilledOnce ==
  ASSUME NEW t \in Tables
  PROVE  Filled(Filled(t)) = Filled(t)
<1> DEFINE u == Filled(t)
<1>1. u \in Tables /\ Filled(u) \in Tables
  BY PutsKeep
<1>2. ASSUME NEW i \in Slots PROVE Filled(u)[i] = u[i]
  <2> HIDE DEF u
  <2>1. CASE i = HOSTNAME
    BY <1>1, <2>1, FilledAt DEF u
  <2>2. CASE i = WIFI_PASSWORD
    BY <1>1, <2>2, FilledAt DEF u
  <2>3. CASE i = WIFI_AUTH
    BY <1>1, <2>3, FilledAt DEF u
  <2>4. CASE i \notin {HOSTNAME, WIFI_PASSWORD, WIFI_AUTH}
    BY <1>1, <2>4, FilledAt
  <2> QED BY <2>1, <2>2, <2>3, <2>4
<1>3. Filled(u) = [i \in Slots |-> Filled(u)[i]] /\ u = [i \in Slots |-> u[i]]
  BY <1>1 DEF Tables
<1> QED BY <1>2, <1>3

(* The access point a table asks for does not depend on the country. *)
LEMMA AnnouncedSame ==
  ASSUME NEW t \in Tables, NEW u \in Tables,
         \A i \in {HOSTNAME, WIFI_PASSWORD, WIFI_AUTH} : t[i] = u[i]
  PROVE  Announced(Filled(t)) = Announced(Filled(u))
<1>1. \A i \in {HOSTNAME, WIFI_PASSWORD, WIFI_AUTH} : Filled(t)[i] = Filled(u)[i]
  BY FilledAt
<1> QED BY <1>1 DEF Announced
-----------------------------------------------------------------------------
LEMMA DurableInit == FirmwareInit => DurableInv
BY DEF FirmwareInit, DurableInv, CountrySet, At

(* A save that ends has left its own table in flash. *)
LEMMA SaveEnds ==
  ASSUME IInv, ProgramPage, Idle'
  PROVE  Load(flash') = ram
<1>1. ram \in Tables /\ Pages \in Nat \ {0} /\ cursor = Pages - 1
  BY SizeAssumption DEF IInv, TypeOK, OneTable, ProgramPage, Idle
<1>2. \A p \in PageIds : flash'[p] = ram
  BY <1>1 DEF ProgramPage, IInv, TypeOK, OneTable, Idle, PageIds
<1>3. flash' = [p \in PageIds |-> flash'[p]]
  BY <1>1 DEF ProgramPage, IInv, TypeOK
<1>4. flash' = Full(ram)
  BY <1>2, <1>3 DEF Full
<1> QED BY <1>1, <1>4, LoadFull

(* Every step keeps it: a put leaves the point where the tables agree, a     *)
(* save reaches the next one, a cut starts again.                           *)
LEMMA DurableStep == FInv /\ DurableInv /\ [FirmwareNext]_fwvars => DurableInv'
<1> SUFFICES ASSUME FInv, DurableInv, [FirmwareNext]_fwvars PROVE DurableInv'
  OBVIOUS
<1> USE DEF DurableInv, CountrySet, At
<1>0. /\ IInv /\ Load(flash) \in Tables /\ Pages \in Nat \ {0}
      /\ pc # "off" => ram \in Tables
      /\ pc = "ap" => ram[WIFI_MODE] # STA
      /\ ~At("serve") => unsaved = {}
  BY LoadIsTable, SizeAssumption
     DEF FInv, FirmwareTypeOK, IInv, TypeOK, OneTable, OneSector
<1>1. CASE PowerOn \/ Reload \/ SetBootFeature
  BY <1>1 DEF PowerOn, settings_init, Reload, SetBootFeature
<1>2. CASE StartSave
  <2>1. /\ ram' = ram /\ cursor' = 0 /\ UNCHANGED <<ap, edited>>
        /\ pc \in DOMAIN AfterSave /\ pc' = AfterSave[pc]
    BY <1>2 DEF StartSave, settings_save
  <2>2. ~Idle'
    BY <1>0, <2>1 DEF Idle
  <2>3. \/ pc \in {"apSave", "formSave"} /\ pc' = "serve"
        \/ pc \in {"first", "featureSave", "fallbackSave"} /\ pc' \in {"reload", "mngr", "wifiAp"}
    BY <2>1 DEF AfterSave
  <2> QED BY <2>1, <2>2, <2>3 DEF Airs
<1>3. CASE SavePage
  <2>1. ram' = ram /\ ~Idle /\ ProgramPage /\ UNCHANGED <<pc, ap, edited>>
    BY <1>0, <1>3 DEF SavePage, ProgramPage, IInv, TypeOK, Idle
  <2>2. Idle' => Load(flash') = ram /\ ram \in Tables
    BY <1>0, <2>1, SaveEnds DEF IInv, OneTable, TypeOK
  <2>3. Idle' /\ pc \in CountrySet => Corrected(ram) = ram
    BY <2>2, CorrectedSame
  <2> QED BY <2>1, <2>2, <2>3 DEF Airs
<1>4. CASE ReadMode
  <2>1. /\ ram' = ram /\ flash' = flash /\ cursor' = cursor /\ UNCHANGED <<ap, edited>>
        /\ At("mngr") /\ pc' \in {"wifiSta", "wifiAp"}
    BY <1>4 DEF ReadMode
  <2> QED BY <2>1 DEF Idle, Airs
<1>5. ASSUME NEW point \in {"wifiSta", "wifiAp"}, NEW next \in {"join", "ap"}, StartChip(point, next)
      PROVE  DurableInv'
  <2>1. /\ At(point) /\ pc' \in {next, "dark"} /\ UNCHANGED <<flash, cursor, ap, edited>>
        /\ ram' = Corrected(ram)
    BY <1>5 DEF StartChip, Corrected
  <2>2. Load(flash) = ram /\ ram \in Tables /\ ap = NoAp
    BY <1>0, <2>1
  <2>3. CountryOf[ram'[WIFI_COUNTRY]] = ram'[WIFI_COUNTRY]
    BY <2>1, <2>2, CorrectedAt
  <2> QED BY <2>1, <2>2, <2>3 DEF Idle, Airs
<1>6. CASE StaStarts \/ StaJoins \/ StaFails
  <2>1. /\ (At("join") \/ At("joining")) /\ pc' \in {"joining", "serve", "join"}
        /\ UNCHANGED <<ram, flash, cursor, ap>>
    BY <1>6 DEF StaStarts, StaJoins, StaFails, Serve
  <2> QED BY <2>1 DEF Idle, Airs
<1>7. CASE GiveUp
  <2>1. /\ At("join") /\ pc' = "fallbackSave" /\ UNCHANGED <<ap, edited>>
        /\ ram' = [ram EXCEPT ![WIFI_MODE] = AP, ![HOSTNAME] = "croissant",
                              ![WIFI_PASSWORD] = "sidecart", ![WIFI_AUTH] = "5"]
    BY <1>7 DEF GiveUp
  <2>2. ram'[WIFI_COUNTRY] = ram[WIFI_COUNTRY]
    BY <1>0, <2>1, Distinct DEF Tables
  <2> QED BY <2>1, <2>2
<1>8. CASE StartAp
  <2>1. /\ At("ap") /\ pc' \in {"serve", "apSave"} /\ ram' = Filled(ram) /\ ap' = Announced(ram')
        /\ pc' = "serve" => ram' = ram
        /\ edited' = FALSE /\ UNCHANGED <<flash, cursor>>
    BY <1>8 DEF StartAp, Serve
  <2>2. /\ ram'[WIFI_COUNTRY] = ram[WIFI_COUNTRY] /\ ram'[WIFI_MODE] = ram[WIFI_MODE]
        /\ Filled(ram') = ram'
    BY <1>0, <2>1, FilledAt, FilledOnce, Distinct
  <2> QED BY <1>0, <2>1, <2>2 DEF Idle, Airs
<1>9. CASE SaveForm
  <2>1. PICK f \in Forms : ram' = With(ram, f)
    BY <1>9 DEF SaveForm
  <2>2. /\ At("serve") /\ pc' = "formSave" /\ edited' = TRUE /\ UNCHANGED ap
    BY <1>9 DEF SaveForm
  <2>3. ram'[WIFI_COUNTRY] = ram[WIFI_COUNTRY]
    BY <2>1, Distinct, CountryAssumption DEF With
  <2> QED BY <2>2, <2>3
<1>10. CASE RefuseForm
  <2>1. PICK g \in Refused : ram' = With(ram, g) /\ unsaved' = unsaved \cup DOMAIN g
    BY <1>10 DEF RefuseForm
  <2>2. At("serve") /\ At("serve")' /\ UNCHANGED <<flash, cursor, ap, edited>>
    BY <1>10 DEF RefuseForm, Idle
  <2>3. WIFI_COUNTRY \notin DOMAIN g
    BY FirmwareAssumption, CountryAssumption
  <2>4. ram'[WIFI_COUNTRY] = ram[WIFI_COUNTRY]
    BY <2>1, <2>3, Distinct DEF With
  <2>5. \A i \in Slots \ unsaved' : i \in Slots \ unsaved /\ ram'[i] = ram[i]
    BY <2>1 DEF With
  <2> QED BY <2>2, <2>4, <2>5 DEF Airs
<1>11. CASE PowerCut \/ PowerCutInErase
  BY <1>11 DEF PowerCut, PowerCutInErase, Off
<1>12. CASE UNCHANGED fwvars
  BY <1>12 DEF fwvars, refusals, Idle, Airs
<1> QED
  BY <1>1, <1>2, <1>3, <1>4, <1>5, <1>6, <1>7, <1>8, <1>9, <1>10, <1>11, <1>12 DEF FirmwareNext, Progress
-----------------------------------------------------------------------------
(* While a server runs, a power cut loses nothing that is in use but what   *)
(* refused forms have put since the last save: the next start loads the     *)
(* table being served, the country code corrected (network.c:463-470,       *)
(* mngr_httpd.c:350-379).                                                   *)
THEOREM TableIsDurable == FirmwareSpec => []ServedTableIsDurable
<1>1. DurableInv => ServedTableIsDurable
  BY DEF DurableInv, ServedTableIsDurable, Corrected
<1> QED BY FInvInit, FInvStep, DurableInit, DurableStep, <1>1, PTL DEF FirmwareSpec

(* Without a form saved, the next start brings up the same access point: a  *)
(* fallback is not undone and nothing filled in is lost (mngr.c:56-76,      *)
(* network.c:490-569).                                                      *)
THEOREM ApOutlivesPower == FirmwareSpec => []SameApNextTime
<1>1. FInv /\ DurableInv => SameApNextTime
  <2> SUFFICES ASSUME FInv, DurableInv, At("serve"), ap # NoAp, ~edited
      PROVE  Load(flash)[WIFI_MODE] # STA /\ Announced(Filled(Load(flash))) = ap
    BY DEF SameApNextTime
  <2> DEFINE t == Load(flash)
  <2>1. t \in Tables /\ ram \in Tables
    BY LoadIsTable DEF FInv, FirmwareTypeOK, TypeOK, OneTable, OneSector, At
  <2> DEFINE u == Corrected(t)
  <2>2. Filled(u) = u /\ ap = Announced(u) /\ u[WIFI_MODE] # STA
    BY DEF DurableInv, Airs
  <2>5. u \in Tables
    BY <2>1, PutsKeep DEF Corrected
  <2> HIDE DEF t
  <2>3. \A i \in {HOSTNAME, WIFI_PASSWORD, WIFI_AUTH, WIFI_MODE} : t[i] = u[i]
    BY <2>1, CorrectedAt, Distinct
  <2> HIDE DEF u
  <2>4. Announced(Filled(t)) = ap /\ t[WIFI_MODE] # STA
    BY <2>1, <2>2, <2>3, <2>5, AnnouncedSame
  <2> QED BY <2>4 DEF t
<1> QED BY FInvInit, FInvStep, DurableInit, DurableStep, <1>1, PTL DEF FirmwareSpec
=============================================================================
