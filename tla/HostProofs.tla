------------------------------ MODULE HostProofs ------------------------------
(***************************************************************************)
(* Proofs about one host: the memory layout of a cell (MemoryMap), the     *)
(* forks of warm motes (Cells), the run of a cell and the mailbox of a     *)
(* parent (CellRun), the budgets of the egress broker (Broker), the bytes  *)
(* of a workspace (Workspace) and the registry of cells (CellRegistry).    *)
(* Each section has the parts of an inductive invariant, a lemma for each  *)
(* step, and the theorems that follow.                                     *)
(***************************************************************************)
EXTENDS MemoryMap, Cells, CellRun, Broker, Workspace, CellRegistry,
        FiniteSetTheorems, WellFoundedInduction, TLAPS

-------------------------------------------------------------------------------
(* The memory layout of a cell (MemoryMap).                                 *)

(* Every set of natural numbers that is not empty has a least element: the  *)
(* form of induction the lemmas on sums use.                                *)
LEMMA LeastOf ==
    ASSUME NEW T, T \subseteq Nat, T # {}
    PROVE  \E x \in T : \A y \in T : x =< y
  <1>1. \E x \in T : \A y \in T : ~(<<y, x>> \in OpToRel(<, Nat))
    BY NatLessThanWellFounded, WFMin, Zenon
  <1>2. PICK x \in T : \A y \in T : ~(<<y, x>> \in OpToRel(<, Nat))
    BY <1>1
  <1>3. \A y \in T : ~(y < x)
    BY <1>2 DEF OpToRel
  <1> QED
    BY <1>3

(* Division with remainder.                                                 *)
LEMMA Division ==
    ASSUME NEW a \in Nat, NEW b \in Nat \ {0}
    PROVE  /\ a \div b \in Nat /\ a % b \in 0..(b - 1)
           /\ a = b * (a \div b) + (a % b)
  <1>1. a % b \in 0..(b - 1)
    OBVIOUS
  <1>2. a = b * (a \div b) + (a % b)
    OBVIOUS
  <1>3. a \div b \in Int
    OBVIOUS
  <1>4. a \div b >= 0
    OBVIOUS
  <1> QED
    BY <1>1, <1>2, <1>3, <1>4

(* A multiple that is not zero is no less than the unit.                    *)
LEMMA Grows ==
    ASSUME NEW q \in Nat, NEW b \in Nat, q >= 1
    PROVE  b * q >= b
  OBVIOUS

(* A multiple leaves no remainder.                                          *)
LEMMA Multiple ==
    ASSUME NEW q \in Nat, NEW b \in Nat \ {0}
    PROVE  (b * q) % b = 0
  <1> DEFINE d == (b * q) \div b
             r == (b * q) % b
  <1>1. b * q \in Nat
    OBVIOUS
  <1>2. d \in Nat /\ r \in 0..(b - 1) /\ b * q = b * d + r
    BY <1>1, Division
  <1> HIDE DEF d, r
  <1>3. b * (q - d) = r /\ q - d \in Int
    BY <1>2
  <1>4. CASE q - d >= 1
    BY <1>3, <1>4, <1>2, Grows
  <1>5. CASE q - d =< -1
    <2>1. b * (d - q) >= b
      BY <1>5, <1>2, Grows
    <2>2. b * (d - q) = -r
      BY <1>3, <1>2
    <2> QED
      BY <2>1, <2>2, <1>2
  <1>6. CASE q - d = 0
    BY <1>3, <1>6 DEF r
  <1> QED
    BY <1>3, <1>4, <1>5, <1>6

Aligned(x) == \E q \in Nat : x = PmemAlign * q

(* Multiples of the alignment add up.                                       *)
LEMMA AlignedSum ==
    ASSUME NEW x \in Nat, NEW y \in Nat, Aligned(x), Aligned(y)
    PROVE  Aligned(x + y)
  <1>1. PICK p \in Nat : x = PmemAlign * p
    BY DEF Aligned
  <1>2. PICK q \in Nat : y = PmemAlign * q
    BY DEF Aligned
  <1>3. x + y = PmemAlign * (p + q) /\ p + q \in Nat
    BY <1>1, <1>2, LayoutAssumption
  <1> QED
    BY <1>3 DEF Aligned

(* An aligned address passes the check of its remainder, and the other way. *)
LEMMA AlignedMod ==
    ASSUME NEW x \in Nat
    PROVE  Aligned(x) <=> x % PmemAlign = 0
  <1>1. PmemAlign \in Nat \ {0}
    BY LayoutAssumption
  <1>2. ASSUME Aligned(x) PROVE x % PmemAlign = 0
    BY <1>1, <1>2, Multiple DEF Aligned
  <1>3. ASSUME x % PmemAlign = 0 PROVE Aligned(x)
    <2>1. x \div PmemAlign \in Nat /\ x = PmemAlign * (x \div PmemAlign) + 0
      BY <1>1, <1>3, Division
    <2>2. x = PmemAlign * (x \div PmemAlign)
      BY <2>1, <1>1
    <2> QED
      BY <2>1, <2>2 DEF Aligned
  <1> QED
    BY <1>2, <1>3

(* round_up to a unit: no less, and a multiple.                             *)
LEMMA RoundedUp ==
    ASSUME NEW n \in Nat, NEW u \in Nat \ {0}
    PROVE  /\ RoundUp(n, u) \in Nat /\ RoundUp(n, u) >= n
           /\ \E q \in Nat : RoundUp(n, u) = u * q
  <1>1. PICK a \in Nat : a = n + u - 1
    OBVIOUS
  <1>2. PICK d \in Nat : d = a \div u
    BY Division
  <1>3. a % u \in 0..(u - 1) /\ a = u * d + (a % u)
    BY <1>2, Division
  <1>4. u * d \in Nat /\ u * d >= n
    BY <1>1, <1>3
  <1>5. RoundUp(n, u) = u * d
    BY <1>1, <1>2 DEF RoundUp
  <1> QED
    BY <1>4, <1>5

(* It is the least multiple that is no less.                                *)
LEMMA RoundedLeast ==
    ASSUME NEW n \in Nat, NEW u \in Nat \ {0}, NEW k \in Nat, n =< u * k
    PROVE  RoundUp(n, u) =< u * k
  <1>1. PICK a \in Nat : a = n + u - 1
    OBVIOUS
  <1>2. PICK d \in Nat : d = a \div u
    BY Division
  <1>3. a % u \in 0..(u - 1) /\ a = u * d + (a % u)
    BY <1>2, Division
  <1>4. RoundUp(n, u) = u * d
    BY <1>1, <1>2 DEF RoundUp
  <1>5. CASE d =< k
    <2>1. u * (k - d) \in Nat
      BY <1>5
    <2>2. u * k = u * d + u * (k - d)
      BY <1>5
    <2> QED
      BY <2>1, <2>2, <1>4
  <1>6. CASE d > k
    <2>1. PICK j \in Nat : j = d - k /\ j >= 1
      BY <1>6
    <2>2. u * j >= u
      BY <2>1, Grows
    <2>3. u * d = u * k + u * j
      BY <2>1
    <2> QED
      BY <2>2, <2>3, <1>1, <1>3
  <1> QED
    BY <1>5, <1>6

(* The alignment is a number of pages.                                      *)
LEMMA PagesOf ==
    \E c \in Nat : c # 0 /\ PmemAlign = Page * c
  <1>1. PmemAlign \in Nat \ {0} /\ Page \in Nat \ {0} /\ PmemAlign % Page = 0
    BY LayoutAssumption
  <1>2. PICK c \in Nat : PmemAlign = Page * c + 0
    BY <1>1, Division
  <1> QED
    BY <1>1, <1>2

(* An aligned address is a whole page's.                                    *)
LEMMA AlignedPage ==
    ASSUME NEW x \in Nat, Aligned(x)
    PROVE  x % Page = 0
  <1>1. PICK c \in Nat : PmemAlign = Page * c
    BY PagesOf
  <1>2. PICK q \in Nat : x = PmemAlign * q
    BY DEF Aligned
  <1>3. PICK k \in Nat : k = c * q
    OBVIOUS
  <1>4. x = Page * k /\ Page \in Nat \ {0}
    BY <1>1, <1>2, <1>3, LayoutAssumption
  <1> QED
    BY <1>4, Multiple

(* The difference of two aligned addresses is aligned.                      *)
LEMMA AlignedGap ==
    ASSUME NEW x \in Nat, NEW y \in Nat, Aligned(x), Aligned(y), x =< y
    PROVE  \E k \in Nat : y - x = PmemAlign * k
  <1>1. PICK p \in Nat : x = PmemAlign * p
    BY DEF Aligned
  <1>2. PICK q \in Nat : y = PmemAlign * q
    BY DEF Aligned
  <1>3. PmemAlign \in Nat \ {0}
    BY LayoutAssumption
  <1>4. CASE p =< q
    <2>1. q - p \in Nat /\ y - x = PmemAlign * (q - p)
      BY <1>1, <1>2, <1>3, <1>4
    <2> QED
      BY <2>1
  <1>5. CASE p > q
    <2>1. PICK j \in Nat : j = p - q /\ j >= 1
      BY <1>5
    <2>2. PmemAlign * j >= PmemAlign
      BY <2>1, <1>3, Grows
    <2>3. x = y + PmemAlign * j
      BY <2>1, <1>1, <1>2, <1>3
    <2> QED
      BY <2>2, <2>3, <1>3
  <1> QED
    BY <1>4, <1>5

(* The extent of an image's bytes: no smaller than it, and aligned.         *)
LEMMA ExtentOf ==
    ASSUME NEW i \in Images
    PROVE  /\ ImageLength[i] \in Nat /\ PmemExtent(ImageLength[i]) \in Nat
           /\ PmemExtent(ImageLength[i]) >= ImageLength[i]
           /\ Aligned(PmemExtent(ImageLength[i]))
  <1>1. ImageLength[i] \in Nat /\ PmemAlign \in Nat \ {0}
    BY LayoutAssumption
  <1> QED
    BY <1>1, RoundedUp DEF PmemExtent, Aligned

(* What is mapped for an image: whole pages, one at least, no less than its *)
(* bytes, and no more than its extent.                                      *)
LEMMA MappedOf ==
    ASSUME NEW i \in Images
    PROVE  /\ MappedLength(i) \in Nat \ {0} /\ MappedLength(i) % Page = 0
           /\ MappedLength(i) >= ImageLength[i]
           /\ PmemExtent(MappedLength(i)) \in Nat /\ Aligned(PmemExtent(MappedLength(i)))
           /\ PmemExtent(MappedLength(i)) >= MappedLength(i)
  <1>1. ImageLength[i] \in Nat /\ PmemAlign \in Nat \ {0} /\ Page \in Nat \ {0}
    BY LayoutAssumption
  <1>2. MappedLength(i) \in Nat \ {0} /\ MappedLength(i) >= ImageLength[i]
        /\ \E q \in Nat : MappedLength(i) = Page * q
    <2>1. CASE ImageLength[i] = 0
      <3>1. MappedLength(i) = Page * 1
        BY <2>1, <1>1 DEF MappedLength
      <3> QED
        BY <3>1, <2>1, <1>1
    <2>2. CASE ImageLength[i] # 0
      <3>1. PICK n \in Nat \ {0} : n = ImageLength[i]
        BY <2>2, <1>1
      <3>2. RoundUp(n, Page) \in Nat /\ RoundUp(n, Page) >= n /\ \E q \in Nat : RoundUp(n, Page) = Page * q
        BY <1>1, RoundedUp
      <3>3. MappedLength(i) = RoundUp(n, Page)
        BY <2>2, <3>1 DEF MappedLength
      <3> QED
        BY <3>1, <3>2, <3>3
    <2> QED
      BY <2>1, <2>2
  <1>3. MappedLength(i) % Page = 0
    BY <1>1, <1>2, Multiple
  <1> QED
    BY <1>1, <1>2, <1>3, RoundedUp DEF PmemExtent, Aligned

(* The rounding to pages is lost in the rounding to the alignment, but for  *)
(* an empty image.                                                          *)
LEMMA SameExtent ==
    ASSUME NEW i \in Images, ImageLength[i] > 0
    PROVE  PmemExtent(MappedLength(i)) = PmemExtent(ImageLength[i])
  <1>1. PICK n \in Nat \ {0} : n = ImageLength[i]
    BY LayoutAssumption
  <1>2. PmemAlign \in Nat \ {0} /\ Page \in Nat \ {0}
    BY LayoutAssumption
  <1>3. PICK m \in Nat : m = MappedLength(i) /\ m = RoundUp(n, Page) /\ m >= n
    BY <1>1, <1>2, RoundedUp DEF MappedLength
  <1>4. PICK q \in Nat : RoundUp(n, PmemAlign) = PmemAlign * q /\ PmemAlign * q >= n
    BY <1>2, RoundedUp
  <1>5. PICK r \in Nat : RoundUp(m, PmemAlign) = PmemAlign * r /\ PmemAlign * r >= m
    BY <1>2, RoundedUp
  <1>6. m =< PmemAlign * q
    <2>1. PICK c \in Nat : PmemAlign = Page * c
      BY PagesOf
    <2>2. PICK k \in Nat : k = c * q
      OBVIOUS
    <2>3. PmemAlign * q = Page * k
      BY <2>1, <2>2, <1>2
    <2> QED
      BY <2>3, <1>2, <1>3, <1>4, RoundedLeast
  <1>7. RoundUp(m, PmemAlign) =< PmemAlign * q
    BY <1>2, <1>6, RoundedLeast
  <1>8. RoundUp(n, PmemAlign) =< PmemAlign * r
    <2>1. n =< PmemAlign * r /\ PmemAlign * r \in Nat
      BY <1>2, <1>3, <1>5
    <2> QED
      BY <2>1, <1>2, RoundedLeast
  <1> QED
    BY <1>1, <1>2, <1>3, <1>4, <1>5, <1>7, <1>8 DEF PmemExtent

-----------------------------------------------------------------------------
(* The partial sums of the extents of a sequence of images.                 *)
Sums(s, T) ==
    /\ T \in [0..Len(s) -> Nat] /\ T[0] = 0
    /\ \A n \in 1..Len(s) : T[n] = T[n - 1] + PmemExtent(ImageLength[s[n]])

(* They exist.                                                              *)
LEMMA SumsExist ==
    ASSUME NEW s \in Seq(Images)
    PROVE  \E T : Sums(s, T)
  <1> DEFINE Upto(n, F) == /\ F \in [0..n -> Nat] /\ F[0] = 0
                           /\ \A k \in 1..n : F[k] = F[k - 1] + PmemExtent(ImageLength[s[k]])
             Bad == {n \in 0..Len(s) : ~\E F : Upto(n, F)}
  <1>1. Len(s) \in Nat /\ \A k \in 1..Len(s) : s[k] \in Images
    OBVIOUS
  <1>2. Bad = {}
    <2>1. SUFFICES ASSUME Bad # {} PROVE FALSE
      OBVIOUS
    <2>2. PICK x \in Bad : \A y \in Bad : x =< y
      <3>1. Bad \subseteq Nat
        OBVIOUS
      <3> HIDE DEF Bad
      <3> QED
        BY <2>1, <3>1, LeastOf
    <2>3. x \in 0..Len(s) /\ ~\E F : Upto(x, F)
      OBVIOUS
    <2>4. x # 0
      <3>1. Upto(0, [k \in 0..0 |-> 0])
        OBVIOUS
      <3> QED
        BY <2>3, <3>1
    <2>5. x - 1 \in 0..Len(s) /\ x - 1 \notin Bad
      <3> HIDE DEF Bad
      <3> QED
        BY <2>2, <2>3, <2>4, <1>1
    <2>6. PICK F : Upto(x - 1, F)
      BY <2>5
    <2>7. PICK e \in Nat : e = PmemExtent(ImageLength[s[x]])
      BY <1>1, <2>3, <2>4, ExtentOf
    <2> DEFINE G == [k \in 0..x |-> IF k = x THEN F[x - 1] + e ELSE F[k]]
    <2>8. G \in [0..x -> Nat] /\ G[0] = 0 /\ G[x] = F[x - 1] + e
          /\ \A k \in 0..(x - 1) : G[k] = F[k]
      BY <2>3, <2>4, <2>6, <1>1
    <2> HIDE DEF G
    <2>9. \A k \in 1..x : G[k] = G[k - 1] + PmemExtent(ImageLength[s[k]])
      <3>1. ASSUME NEW k \in 1..x PROVE G[k] = G[k - 1] + PmemExtent(ImageLength[s[k]])
        <4>1. CASE k = x
          BY <4>1, <2>7, <2>8, <2>3, <2>4, <1>1
        <4>2. CASE k # x
          <5>1. k \in 1..(x - 1) /\ k \in 0..(x - 1) /\ k - 1 \in 0..(x - 1)
            BY <4>2, <2>3, <1>1
          <5> QED
            BY <5>1, <2>6, <2>8
        <4> QED
          BY <4>1, <4>2
      <3> QED
        BY <3>1
    <2>10. Upto(x, G)
      BY <2>8, <2>9
    <2> QED
      BY <2>3, <2>10
  <1>3. Len(s) \notin Bad /\ Len(s) \in 0..Len(s)
    BY <1>1, <1>2
  <1> QED
    BY <1>3 DEF Sums

(* Extents is the last of them.                                             *)
LEMMA ExtentsSum ==
    ASSUME NEW s \in Seq(Images), NEW T, Sums(s, T)
    PROVE  Extents(s) = T[Len(s)]
  <1> DEFINE Is(U) == U = [n \in 0..Len(s) |->
                              IF n = 0 THEN 0 ELSE U[n - 1] + PmemExtent(ImageLength[s[n]])]
             Z == CHOOSE U : Is(U)
  <1>1. Len(s) \in Nat
    OBVIOUS
  <1>2. Is(T)
    <2> DEFINE R == [n \in 0..Len(s) |->
                        IF n = 0 THEN 0 ELSE T[n - 1] + PmemExtent(ImageLength[s[n]])]
    <2>1. \A n \in 0..Len(s) : T[n] = R[n]
      BY <1>1 DEF Sums
    <2> QED
      BY <2>1 DEF Sums
  <1>3. Is(Z)
    BY <1>2
  <1>4. Extents(s) = Z[Len(s)]
    BY DEF Extents
  <1> HIDE DEF Z
  <1>5. Z[0] = 0 /\ \A n \in 1..Len(s) : Z[n] = Z[n - 1] + PmemExtent(ImageLength[s[n]])
    BY <1>1, <1>3
  <1> HIDE DEF Is
  <1> DEFINE Bad == {n \in 0..Len(s) : Z[n] # T[n]}
  <1>6. Bad = {}
    <2>1. SUFFICES ASSUME Bad # {} PROVE FALSE
      OBVIOUS
    <2>2. PICK x \in Bad : \A y \in Bad : x =< y
      <3>1. Bad \subseteq Nat
        OBVIOUS
      <3> HIDE DEF Bad
      <3> QED
        BY <2>1, <3>1, LeastOf
    <2>3. x # 0
      BY <1>5 DEF Sums
    <2>4. x \in 1..Len(s) /\ x - 1 \in 0..Len(s) /\ x - 1 \notin Bad
      BY <2>2, <2>3, <1>1
    <2> QED
      BY <2>2, <2>4, <1>5 DEF Sums
  <1> QED
    BY <1>1, <1>4, <1>6

(* The sums of the beginning of a sequence are the beginning of its sums.   *)
LEMMA SumsPrefix ==
    ASSUME NEW s \in Seq(Images), NEW T, Sums(s, T), NEW n \in 0..Len(s)
    PROVE  SubSeq(s, 1, n) \in Seq(Images) /\ Extents(SubSeq(s, 1, n)) = T[n]
  <1>1. PICK p \in Seq(Images) : p = SubSeq(s, 1, n)
    <2>1. SubSeq(s, 1, n) \in Seq(Images)
      OBVIOUS
    <2> QED
      BY <2>1, Zenon
  <1>2. Len(p) = n /\ \A k \in 1..n : p[k] = s[k]
    BY <1>1
  <1> DEFINE U == [k \in 0..n |-> T[k]]
  <1>3. U \in [0..n -> Nat] /\ U[0] = 0 /\ \A k \in 0..n : U[k] = T[k]
    BY DEF Sums
  <1> HIDE DEF U
  <1>4. \A k \in 1..n : U[k] = U[k - 1] + PmemExtent(ImageLength[p[k]])
    <2>1. ASSUME NEW k \in 1..n PROVE U[k] = U[k - 1] + PmemExtent(ImageLength[p[k]])
      <3>1. k \in 0..n /\ k - 1 \in 0..n /\ k \in 1..Len(s)
        OBVIOUS
      <3> QED
        BY <3>1, <1>2, <1>3 DEF Sums
    <2> QED
      BY <2>1
  <1>5. Sums(p, U)
    BY <1>2, <1>3, <1>4 DEF Sums
  <1> QED
    BY <1>1, <1>2, <1>3, <1>5, ExtentsSum

(* They never decrease, and each is aligned.                                *)
LEMMA SumsGrow ==
    ASSUME NEW s \in Seq(Images), NEW T, Sums(s, T),
           NEW m \in 0..Len(s), NEW n \in 0..Len(s), m =< n
    PROVE  T[m] =< T[n] /\ Aligned(T[n])
  <1>1. Len(s) \in Nat /\ \A k \in 0..Len(s) : T[k] \in Nat
    BY DEF Sums
  <1>2. \A k \in 1..Len(s) : PmemExtent(ImageLength[s[k]]) \in Nat
                             /\ Aligned(PmemExtent(ImageLength[s[k]]))
    <2>1. \A k \in 1..Len(s) : s[k] \in Images
      OBVIOUS
    <2> QED
      BY <2>1, ExtentOf
  <1>3. \A k \in 1..Len(s) : T[k] = T[k - 1] + PmemExtent(ImageLength[s[k]])
    BY DEF Sums
  <1> DEFINE Bad == {k \in 0..Len(s) : ~Aligned(T[k]) \/ (m =< k /\ ~(T[m] =< T[k]))}
  <1>4. Bad = {}
    <2>1. SUFFICES ASSUME Bad # {} PROVE FALSE
      OBVIOUS
    <2>2. PICK x \in Bad : \A y \in Bad : x =< y
      <3>1. Bad \subseteq Nat
        OBVIOUS
      <3> HIDE DEF Bad
      <3> QED
        BY <2>1, <3>1, LeastOf
    <2>3. x \in 0..Len(s) /\ (~Aligned(T[x]) \/ (m =< x /\ ~(T[m] =< T[x])))
      OBVIOUS
    <2>4. Aligned(0) /\ T[0] = 0
      <3>1. 0 = PmemAlign * 0
        BY LayoutAssumption
      <3> QED
        BY <3>1 DEF Aligned, Sums
    <2>5. x # 0
      <3>1. SUFFICES ASSUME x = 0 PROVE FALSE
        OBVIOUS
      <3>2. m =< 0 /\ ~(T[m] =< T[0])
        BY <2>3, <2>4, <3>1
      <3>3. m = 0
        BY <3>2
      <3> QED
        BY <3>2, <3>3, <2>4
    <2>6. x \in 1..Len(s) /\ x - 1 \in 0..Len(s) /\ x - 1 \notin Bad
      BY <2>2, <2>3, <2>5, <1>1
    <2>7. Aligned(T[x - 1]) /\ (m =< x - 1 => T[m] =< T[x - 1])
      BY <2>6
    <2> HIDE DEF Bad
    <2>8. Aligned(T[x])
      BY <2>6, <2>7, <1>1, <1>2, <1>3, AlignedSum
    <2>9. m =< x /\ ~(T[m] =< T[x])
      BY <2>3, <2>8
    <2>10. m =< x - 1
      <3>1. m # x
        BY <2>9, <1>1, <2>3
      <3> QED
        BY <3>1, <2>9, <2>6
    <2>11. PICK e \in Nat : T[x] = T[x - 1] + e
      BY <2>6, <1>2, <1>3
    <2> QED
      BY <2>6, <2>7, <2>9, <2>10, <2>11, <1>1
  <1> QED
    BY <1>4

-----------------------------------------------------------------------------
SlotType == [image : Images, gpa : Nat]
EndOf(slot) == slot.gpa + PmemExtent(MappedLength(slot.image))

(* What boot checked still holds, and the initrd is where it was put.       *)
BootChecked ==
    step \in {"booted", "unsealed"} => /\ KernelFits /\ InitrdFits
                                       /\ boot.hasInitrd => initrdAt = InitrdStart

(* The slots are stacked from the start of the window, at aligned           *)
(* addresses, and the next one goes above them, in the window.              *)
Stacked ==
    /\ WindowGpa =< nextGpa /\ nextGpa =< WindowEnd /\ Aligned(nextGpa)
    /\ \A m \in DOMAIN sealed :
        /\ WindowGpa =< sealed[m].gpa /\ Aligned(sealed[m].gpa)
        /\ EndOf(sealed[m]) =< nextGpa
        /\ \A k \in DOMAIN sealed : k < m => EndOf(sealed[k]) =< sealed[m].gpa

(* Without an empty image: some beginning of the images is sealed, and all  *)
(* that is sealed takes no more than it was declared to take.               *)
Room ==
    NoEmptyImage =>
        \E n \in 0..Len(boot.images) :
            /\ \A k \in 1..n : \E m \in DOMAIN sealed : sealed[m].image = boot.images[k]
            /\ nextGpa =< WindowGpa + Extents(SubSeq(boot.images, 1, n))

(* Images that differ and are not empty are sealed one after the other,     *)
(* each at its base.                                                        *)
InOrder ==
    IsInjective(boot.images) /\ NoEmptyImage =>
        /\ Len(sealed) =< Len(boot.images)
        /\ nextGpa = WindowGpa + Extents(SubSeq(boot.images, 1, Len(sealed)))
        /\ \A m \in DOMAIN sealed : /\ sealed[m].image = boot.images[m]
                                    /\ sealed[m].gpa = Namespace(m).from

(* KVM refuses nothing without an empty image.                              *)
NoRefusal == step = "unsealed" => ~NoEmptyImage

MapInv == MapTypeOK /\ BootChecked /\ Stacked /\ Room /\ InOrder /\ NoRefusal

(* The configurations boot is asked for, and the slots, in their types.     *)
LEMMA MapShapes ==
    ASSUME MapTypeOK
    PROVE  /\ boot.memory \in Nat /\ boot.kernel \in Nat /\ boot.initrd \in Nat
           /\ boot.images \in Seq(Images) /\ initrdAt \in Nat /\ nextGpa \in Nat
           /\ Len(boot.images) \in Nat /\ DOMAIN boot.images = 1..Len(boot.images)
           /\ \A n \in DOMAIN boot.images : boot.images[n] \in Images
           /\ sealed \in Seq(SlotType) /\ Len(sealed) \in Nat /\ DOMAIN sealed = 1..Len(sealed)
           /\ \A m \in DOMAIN sealed : sealed[m].image \in Images /\ sealed[m].gpa \in Nat
  <1>1. boot.images \in SeqOf(Images, MaxImages)
    BY DEF MapTypeOK, BootConfigs
  <1>2. PICK b \in 0..MaxImages : boot.images \in [1..b -> Images]
    BY <1>1 DEF SeqOf
  <1>3. boot.images \in Seq(Images)
    BY <1>2, LayoutAssumption
  <1>4. boot.memory \in Nat /\ boot.kernel \in Nat /\ boot.initrd \in Nat
    BY LayoutAssumption DEF MapTypeOK, BootConfigs
  <1>5. sealed \in Seq(SlotType)
    BY DEF MapTypeOK, SlotType
  <1>6. ASSUME NEW R, NEW s \in Seq(R)
        PROVE  /\ \A n \in DOMAIN s : s[n] \in R
               /\ Len(s) \in Nat /\ DOMAIN s = 1..Len(s)
    OBVIOUS
  <1>7. /\ \A m \in DOMAIN sealed : sealed[m] \in SlotType
        /\ Len(sealed) \in Nat /\ DOMAIN sealed = 1..Len(sealed)
    BY <1>5, <1>6, Zenon
  <1>8. \A m \in DOMAIN sealed : sealed[m].image \in Images /\ sealed[m].gpa \in Nat
    BY <1>7 DEF SlotType
  <1>9. /\ Len(boot.images) \in Nat /\ DOMAIN boot.images = 1..Len(boot.images)
        /\ \A n \in DOMAIN boot.images : boot.images[n] \in Images
    BY <1>3, <1>6, Zenon
  <1> QED
    BY <1>3, <1>4, <1>5, <1>7, <1>8, <1>9 DEF MapTypeOK

(* The window: aligned, and as wide as the declared extents at least.       *)
LEMMA WindowWide ==
    ASSUME MapTypeOK
    PROVE  /\ Window \in Nat /\ Extents(boot.images) \in Nat
           /\ Extents(boot.images) =< Window
           /\ WindowEnd \in Nat /\ WindowEnd = WindowGpa + Window /\ Aligned(WindowEnd)
           /\ Aligned(WindowGpa)
  <1>1. PICK T : Sums(boot.images, T)
    BY MapShapes, SumsExist
  <1>2. Extents(boot.images) \in Nat
    <2>1. Len(boot.images) \in 0..Len(boot.images)
      BY MapShapes
    <2>2. boot.images \in Seq(Images)
      BY MapShapes
    <2>3. Extents(boot.images) = T[Len(boot.images)]
      BY <1>1, <2>2, ExtentsSum
    <2>4. T \in [0..Len(boot.images) -> Nat]
      BY <1>1 DEF Sums
    <2> QED
      BY <2>1, <2>3, <2>4
  <1>3. PICK w \in Nat : /\ w = IF Extents(boot.images) > MinWindow
                                THEN Extents(boot.images) ELSE MinWindow
                         /\ w >= Extents(boot.images)
    BY <1>2, LayoutAssumption
  <1>4. Window = RoundUp(w, PmemAlign)
    BY <1>3 DEF Window, ToolWindowSize
  <1>5. RoundUp(w, PmemAlign) \in Nat /\ RoundUp(w, PmemAlign) >= w
        /\ Aligned(RoundUp(w, PmemAlign))
    BY RoundedUp, LayoutAssumption DEF Aligned
  <1>6. Aligned(WindowGpa) /\ WindowGpa \in Nat
    BY LayoutAssumption, AlignedMod
  <1>7. WindowEnd = WindowGpa + Window
    BY DEF WindowEnd
  <1> QED
    BY <1>2, <1>3, <1>4, <1>5, <1>6, <1>7, AlignedSum

(* The initrd starts no higher than its length below the top of RAM.        *)
LEMMA InitrdBelow ==
    ASSUME MapTypeOK, InitrdFits, boot.hasInitrd
    PROVE  InitrdStart \in Nat /\ InitrdStart + boot.initrd =< InitrdTop
  <1>1. PICK a \in Nat : a = InitrdTop - boot.initrd
    BY MapShapes, WindowWide DEF InitrdFits, InitrdTop
  <1>2. PICK d \in Nat : d = a \div Page
    BY Division, LayoutAssumption
  <1>3. a % Page \in 0..(Page - 1) /\ a = Page * d + (a % Page)
    BY <1>2, Division, LayoutAssumption
  <1>4. Page * d \in Nat /\ Page * d =< a
    BY <1>3, LayoutAssumption
  <1>5. InitrdStart = Page * d
    BY <1>1, <1>2, LayoutAssumption DEF InitrdStart
  <1> QED
    BY <1>1, <1>4, <1>5, MapShapes, WindowWide DEF InitrdTop

(* Before boot.                                                             *)
LEMMA MapStarts == MapInit => MapInv
  <1> SUFFICES ASSUME MapInit PROVE MapInv
    OBVIOUS
  <1>1. MapTypeOK /\ BootChecked /\ NoRefusal
    BY LayoutAssumption DEF MapInit, MapTypeOK, BootChecked, NoRefusal
  <1>2. WindowGpa \in Nat /\ nextGpa = WindowGpa
    BY LayoutAssumption DEF MapInit
  <1>3. Stacked
    BY <1>1, <1>2, WindowWide DEF MapInit, Stacked
  <1>4. PICK T : Sums(boot.images, T)
    BY <1>1, MapShapes, SumsExist
  <1>5. 0 \in 0..Len(boot.images) /\ Len(sealed) = 0
    BY <1>1, MapShapes DEF MapInit
  <1>6. Extents(SubSeq(boot.images, 1, 0)) = 0
    BY <1>1, <1>4, <1>5, MapShapes, SumsPrefix DEF Sums
  <1>7. Room
    <2>1. \A k \in 1..0 : \E m \in DOMAIN sealed : sealed[m].image = boot.images[k]
      OBVIOUS
    <2> QED
      BY <2>1, <1>2, <1>5, <1>6 DEF Room
  <1>8. InOrder
    <2>1. nextGpa = WindowGpa + Extents(SubSeq(boot.images, 1, Len(sealed)))
      BY <1>2, <1>5, <1>6
    <2>2. DOMAIN sealed = {}
      BY DEF MapInit
    <2> QED
      BY <2>1, <2>2, <1>1, <1>5, MapShapes DEF InOrder
  <1> QED
    BY <1>1, <1>3, <1>7, <1>8 DEF MapInv

(* boot checks the layout and places the initrd, or refuses.                *)
LEMMA BootMapKeeps ==
    ASSUME MapInv, BootMap \/ RefuseMap
    PROVE  MapInv'
  <1>1. boot' = boot /\ sealed' = sealed /\ nextGpa' = nextGpa
    BY DEF BootMap, RefuseMap
  <1>2. MapTypeOK'
    BY InitrdBelow DEF MapInv, MapTypeOK, BootMap, RefuseMap, BootFits
  <1>3. BootChecked'
    BY <1>1 DEF BootChecked, BootMap, RefuseMap, BootFits, KernelFits, InitrdFits, InitrdStart,
                InitrdTop, Window, WindowEnd
  <1>4. Stacked' /\ Room' /\ InOrder'
    BY <1>1 DEF MapInv, Stacked, Room, InOrder, Namespace, EndOf, WindowEnd, Window, NoEmptyImage
  <1>5. NoRefusal'
    BY DEF NoRefusal, BootMap, RefuseMap
  <1> QED
    BY <1>2, <1>3, <1>4, <1>5 DEF MapInv

(* Where the next slot goes, and what follows it.                           *)
LEMMA SlotFacts ==
    ASSUME MapInv, NEW n \in 1..MaxImages, NextToSeal(n)
    PROVE  /\ n \in 1..Len(boot.images) /\ boot.images[n] \in Images
           /\ NewSlot(n) \in SlotType
           /\ NewSlot(n).image = boot.images[n] /\ NewSlot(n).gpa = nextGpa
           /\ Slot(NewSlot(n)).from = nextGpa
           /\ Slot(NewSlot(n)).to = nextGpa + MappedLength(boot.images[n])
           /\ boot.memory > WindowGpa
  <1>1. n \in 1..Len(boot.images) /\ boot.images[n] \in Images /\ nextGpa \in Nat
    BY MapShapes DEF NextToSeal, MapInv
  <1>2. boot.memory > WindowGpa
    BY DEF NextToSeal, MapInv, BootChecked, KernelFits
  <1> QED
    BY <1>1, <1>2 DEF NewSlot, SlotType, Slot, Region

(* Without an empty image there is room for the extent of the next one.     *)
LEMMA RoomFor ==
    ASSUME MapInv, NoEmptyImage, NEW n \in 1..MaxImages, NextToSeal(n),
           NEW T, Sums(boot.images, T)
    PROVE  /\ PmemExtent(MappedLength(boot.images[n])) = T[n] - T[n - 1]
           /\ nextGpa + PmemExtent(MappedLength(boot.images[n])) =< WindowGpa + T[n]
           /\ WindowGpa + T[n] =< WindowEnd
           /\ T[n] \in Nat /\ T[n - 1] \in Nat
  <1> USE DEF MapInv
  <1>1. n \in 1..Len(boot.images) /\ n - 1 \in 0..Len(boot.images) /\ n \in 0..Len(boot.images)
        /\ Len(boot.images) \in 0..Len(boot.images)
    BY SlotFacts, MapShapes
  <1>2. PICK e \in Nat : /\ e = PmemExtent(MappedLength(boot.images[n]))
                         /\ e = PmemExtent(ImageLength[boot.images[n]])
    <2>1. ImageLength[boot.images[n]] > 0 /\ boot.images[n] \in Images
      BY <1>1, MapShapes, SlotFacts DEF NoEmptyImage
    <2> QED
      BY <2>1, SameExtent, MappedOf
  <1>3. T[n] = T[n - 1] + e /\ \A k \in 0..Len(boot.images) : T[k] \in Nat
    BY <1>1, <1>2 DEF Sums
  <1>4. PICK b \in 0..Len(boot.images) :
            /\ \A k \in 1..b : \E m \in DOMAIN sealed : sealed[m].image = boot.images[k]
            /\ nextGpa =< WindowGpa + T[b]
    <2>1. \A k \in 0..Len(boot.images) : Extents(SubSeq(boot.images, 1, k)) = T[k]
      BY MapShapes, SumsPrefix
    <2> QED
      BY <2>1 DEF Room
  <1>5. b =< n - 1
    <2>1. ~(n \in 1..b)
      BY <1>4 DEF NextToSeal
    <2> QED
      BY <2>1, <1>1, <1>4
  <1>6. T[b] =< T[n - 1]
    BY <1>1, <1>4, <1>5, MapShapes, SumsGrow
  <1>7. T[n] =< T[Len(boot.images)]
    <2>1. n =< Len(boot.images)
      BY <1>1
    <2> QED
      BY <2>1, <1>1, MapShapes, SumsGrow
  <1>8. T[Len(boot.images)] =< Window
    BY MapShapes, ExtentsSum, WindowWide
  <1>9. nextGpa \in Nat /\ WindowGpa \in Nat /\ Window \in Nat /\ WindowEnd = WindowGpa + Window
    BY MapShapes, WindowWide, LayoutAssumption
  <1>10. T[b] \in Nat /\ T[n] \in Nat /\ T[n - 1] \in Nat /\ T[Len(boot.images)] \in Nat
    BY <1>1, <1>3, <1>4
  <1>11. nextGpa + e =< WindowGpa + T[n]
    BY <1>3, <1>4, <1>6, <1>9, <1>10
  <1>12. WindowGpa + T[n] =< WindowEnd
    BY <1>7, <1>8, <1>9, <1>10
  <1>13. e = T[n] - T[n - 1]
    BY <1>3, <1>10
  <1> QED
    BY <1>2, <1>10, <1>11, <1>12, <1>13

(* seal_tool: the next slot goes on top of the others; KVM keeps it off the *)
(* RAM above the window.                                                    *)
LEMMA SealToolKeeps ==
    ASSUME MapInv, NEW n \in 1..MaxImages, SealTool(n)
    PROVE  MapInv'
  <1> USE DEF MapInv
  <1>0. NextToSeal(n) /\ SlotTaken(n)
    BY DEF SealTool
  <1>1. PICK i \in Images : i = boot.images[n]
    BY <1>0, SlotFacts
  <1>2. n \in 1..Len(boot.images) /\ Len(boot.images) \in Nat
    BY <1>0, SlotFacts, MapShapes
  <1>3. PICK e \in Nat : e = PmemExtent(MappedLength(i)) /\ Aligned(e)
    BY MappedOf
  <1>4. nextGpa \in Nat /\ WindowGpa \in Nat
    BY MapShapes, LayoutAssumption
  <1>5. PICK slot \in SlotType : slot = NewSlot(n) /\ slot.image = i /\ slot.gpa = nextGpa
    BY <1>0, <1>1, SlotFacts
  <1>6. sealed' = Append(sealed, slot) /\ nextGpa' = nextGpa + e /\ UNCHANGED <<boot, step, initrdAt>>
    BY <1>1, <1>3, <1>5 DEF SealTool
  <1>7. PICK L \in Nat : L = Len(sealed)
    BY MapShapes
  <1>8. /\ sealed' \in Seq(SlotType) /\ DOMAIN sealed' = 1..(L + 1) /\ DOMAIN sealed = 1..L
        /\ sealed'[L + 1] = slot /\ \A m \in 1..L : sealed'[m] = sealed[m]
        /\ Len(sealed') = L + 1
    BY <1>6, <1>7, MapShapes
  <1>9. MapTypeOK'
    BY <1>4, <1>6, <1>8 DEF MapTypeOK, SlotType
  <1>10. BootChecked' /\ NoRefusal'
    BY <1>6 DEF BootChecked, NoRefusal, NoEmptyImage, KernelFits, InitrdFits, InitrdStart, InitrdTop,
                Window, WindowEnd
  <1>11. nextGpa + e =< WindowEnd
    <2>1. PICK m \in Nat \ {0} : m = MappedLength(i)
      BY MappedOf
    <2>2. Apart(Slot(NewSlot(n)), HighRam)
      BY <1>0 DEF SlotTaken, KvmTakes
    <2>3. nextGpa + m =< WindowEnd \/ WindowEnd + (boot.memory - WindowGpa) =< nextGpa
      <3>1. Slot(NewSlot(n)).from = nextGpa /\ Slot(NewSlot(n)).to = nextGpa + m
        BY <1>0, <1>1, <2>1, SlotFacts
      <3>2. HighRam.from = WindowEnd /\ HighRam.to = WindowEnd + (boot.memory - WindowGpa)
        BY DEF HighRam, Region
      <3> QED
        BY <2>2, <3>1, <3>2 DEF Apart
    <2>4. nextGpa =< WindowEnd /\ boot.memory > WindowGpa /\ boot.memory \in Nat /\ WindowEnd \in Nat
      BY <1>0, SlotFacts, MapShapes, WindowWide DEF Stacked
    <2>5. nextGpa + m =< WindowEnd
      BY <2>3, <2>4, <1>4
    <2>6. PICK k \in Nat : WindowEnd - nextGpa = PmemAlign * k
      <3>1. Aligned(nextGpa) /\ Aligned(WindowEnd)
        BY WindowWide DEF Stacked
      <3> QED
        BY <3>1, <2>4, <1>4, AlignedGap
    <2>7. m =< PmemAlign * k
      BY <2>1, <2>4, <2>5, <2>6, <1>4
    <2>8. RoundUp(m, PmemAlign) =< PmemAlign * k
      BY <2>7, RoundedLeast, LayoutAssumption
    <2>9. e =< PmemAlign * k
      BY <2>1, <2>8, <1>3 DEF PmemExtent
    <2> QED
      BY <2>4, <2>6, <2>9, <1>4
  <1>12. Stacked'
    <2>1. ASSUME NEW m \in 1..L
          PROVE  /\ sealed[m].gpa \in Nat /\ EndOf(sealed[m]) \in Nat /\ EndOf(sealed[m]) =< nextGpa
                 /\ WindowGpa =< sealed[m].gpa /\ Aligned(sealed[m].gpa)
                 /\ \A k \in 1..L : k < m => EndOf(sealed[k]) =< sealed[m].gpa
      <3>1. m \in DOMAIN sealed
        BY <1>8
      <3>2. sealed[m].image \in Images /\ sealed[m].gpa \in Nat
        BY <3>1, MapShapes
      <3>3. PmemExtent(MappedLength(sealed[m].image)) \in Nat
        BY <3>2, MappedOf
      <3>4. EndOf(sealed[m]) \in Nat
        BY <3>2, <3>3 DEF EndOf
      <3> QED
        BY <3>1, <3>2, <3>4, <1>8 DEF Stacked
    <2>2. /\ slot.gpa = nextGpa /\ EndOf(slot) = nextGpa + e /\ Aligned(slot.gpa)
          /\ WindowGpa =< slot.gpa
      BY <1>3, <1>5 DEF EndOf, Stacked
    <2>3. ASSUME NEW m \in 1..(L + 1)
          PROVE  /\ WindowGpa =< sealed'[m].gpa /\ Aligned(sealed'[m].gpa)
                 /\ EndOf(sealed'[m]) =< nextGpa + e
                 /\ \A k \in 1..(L + 1) : k < m => EndOf(sealed'[k]) =< sealed'[m].gpa
      <3>1. CASE m = L + 1
        <4>1. \A k \in 1..(L + 1) : k < m => k \in 1..L /\ sealed'[k] = sealed[k]
          BY <3>1, <1>8
        <4> QED
          BY <3>1, <4>1, <2>1, <2>2, <1>4, <1>8
      <3>2. CASE m # L + 1
        <4>1. m \in 1..L /\ sealed'[m] = sealed[m]
          BY <3>2, <1>8
        <4>2. \A k \in 1..(L + 1) : k < m => k \in 1..L /\ sealed'[k] = sealed[k]
          BY <4>1, <1>8
        <4> QED
          BY <4>1, <4>2, <2>1, <1>4
      <3> QED
        BY <3>1, <3>2
    <2>4. WindowGpa =< nextGpa + e /\ Aligned(nextGpa + e)
      BY <1>3, <1>4, AlignedSum DEF Stacked
    <2>5. WindowEnd' = WindowEnd
      BY <1>6 DEF WindowEnd, Window
    <2> QED
      BY <2>3, <2>4, <2>5, <1>6, <1>8, <1>11 DEF Stacked, EndOf, Aligned
  <1>13. PICK T : Sums(boot.images, T)
    BY MapShapes, SumsExist
  <1>14. \A k \in 0..Len(boot.images) : Extents(SubSeq(boot.images, 1, k)) = T[k] /\ T[k] \in Nat
    BY <1>13, MapShapes, SumsPrefix DEF Sums
  <1>15. NoEmptyImage' <=> NoEmptyImage
    BY <1>6 DEF NoEmptyImage
  <1>16. Room'
    <2>1. SUFFICES ASSUME NoEmptyImage
                   PROVE  \E k \in 0..Len(boot.images) :
                              /\ \A j \in 1..k : \E m \in DOMAIN sealed' : sealed'[m].image = boot.images[j]
                              /\ nextGpa + e =< WindowGpa + Extents(SubSeq(boot.images, 1, k))
      BY <1>6, <1>15 DEF Room
    <2>2. nextGpa + e =< WindowGpa + T[n]
      BY <2>1, <1>0, <1>1, <1>3, <1>13, RoomFor
    <2>3. \A k \in 1..n : \E m \in DOMAIN sealed' : sealed'[m].image = boot.images[k]
      <3>1. ASSUME NEW k \in 1..n PROVE \E m \in DOMAIN sealed' : sealed'[m].image = boot.images[k]
        <4>1. CASE k = n
          BY <4>1, <1>1, <1>5, <1>8
        <4>2. CASE k # n
          <5>1. k \in 1..(n - 1)
            BY <4>2
          <5>2. PICK m \in DOMAIN sealed : sealed[m].image = boot.images[k]
            BY <5>1, <1>0 DEF NextToSeal
          <5>3. m \in DOMAIN sealed' /\ sealed'[m] = sealed[m]
            BY <1>8
          <5> QED
            BY <5>2, <5>3
        <4> QED
          BY <4>1, <4>2
      <3> QED
        BY <3>1
    <2>4. n \in 0..Len(boot.images)
      BY <1>2
    <2> QED
      BY <2>2, <2>3, <2>4, <1>14
  <1>17. InOrder'
    <2>1. SUFFICES ASSUME IsInjective(boot.images), NoEmptyImage
                   PROVE  /\ L + 1 =< Len(boot.images)
                          /\ nextGpa + e = WindowGpa + Extents(SubSeq(boot.images, 1, L + 1))
                          /\ \A m \in 1..(L + 1) : /\ sealed'[m].image = boot.images[m]
                                                   /\ sealed'[m].gpa = Namespace(m).from
      BY <1>6, <1>8, <1>15 DEF InOrder, Namespace, Region
    <2>2. /\ L =< Len(boot.images)
          /\ nextGpa = WindowGpa + Extents(SubSeq(boot.images, 1, L))
          /\ \A m \in 1..L : sealed[m].image = boot.images[m] /\ sealed[m].gpa = Namespace(m).from
      BY <2>1, <1>7, <1>8 DEF InOrder
    <2>3. n > L
      BY <2>2, <1>0, <1>2, <1>8 DEF NextToSeal
    <2>4. n - 1 =< L
      <3>1. CASE n = 1
        BY <3>1
      <3>2. CASE n # 1
        <4>1. n - 1 \in 1..(n - 1)
          BY <3>2
        <4>2. PICK m \in 1..L : sealed[m].image = boot.images[n - 1]
          BY <4>1, <1>0, <1>8 DEF NextToSeal
        <4>3. boot.images[m] = boot.images[n - 1]
          BY <4>2, <2>2
        <4>4. m \in DOMAIN boot.images /\ n - 1 \in DOMAIN boot.images
          BY <4>1, <4>2, <2>2, <1>2, MapShapes
        <4>5. m = n - 1
          BY <4>3, <4>4, <2>1 DEF IsInjective
        <4> QED
          BY <4>2, <4>5
      <3> QED
        BY <3>1, <3>2
    <2>5. n = L + 1
      BY <2>3, <2>4
    <2>6. slot.gpa = Namespace(n).from
      <3>1. n - 1 = L
        BY <2>5
      <3> QED
        BY <3>1, <2>2, <1>5 DEF Namespace, Region
    <2>7. nextGpa + e = WindowGpa + T[n]
      <3>1. e = T[n] - T[n - 1] /\ T[n] \in Nat /\ T[n - 1] \in Nat
        BY <2>1, <1>0, <1>1, <1>3, <1>13, RoomFor
      <3>2. nextGpa = WindowGpa + T[n - 1]
        <4>1. L \in 0..Len(boot.images) /\ n - 1 = L
          BY <2>2, <2>5, <1>2
        <4> QED
          BY <4>1, <2>2, <1>14
      <3> QED
        BY <3>1, <3>2, <1>4
    <2>8. ASSUME NEW m \in 1..(L + 1)
          PROVE  sealed'[m].image = boot.images[m] /\ sealed'[m].gpa = Namespace(m).from
      <3>1. CASE m = L + 1
        BY <3>1, <2>5, <2>6, <1>1, <1>5, <1>8
      <3>2. CASE m # L + 1
        <4>1. m \in 1..L
          BY <3>2
        <4> QED
          BY <4>1, <2>2, <1>8
      <3> QED
        BY <3>1, <3>2
    <2> QED
      BY <2>5, <2>7, <2>8, <1>2, <1>14
  <1> QED
    BY <1>9, <1>10, <1>12, <1>16, <1>17

(* A slot KVM refuses: only after an empty image.                           *)
LEMMA SealFailsKeeps ==
    ASSUME MapInv, NEW n \in 1..MaxImages, SealFails(n)
    PROVE  MapInv'
  <1> USE DEF MapInv
  <1>0. NextToSeal(n) /\ ~SlotTaken(n) /\ UNCHANGED <<boot, initrdAt, sealed, nextGpa>>
        /\ step' = "unsealed" /\ step = "booted"
    BY DEF SealFails, NextToSeal
  <1>1. MapTypeOK'
    BY <1>0 DEF MapTypeOK
  <1>2. BootChecked'
    BY <1>0 DEF BootChecked, KernelFits, InitrdFits, InitrdStart, InitrdTop, Window, WindowEnd
  <1>3. Stacked' /\ Room' /\ InOrder'
    BY <1>0 DEF Stacked, Room, InOrder, Namespace, EndOf, WindowEnd, Window, NoEmptyImage
  <1>4. ASSUME NoEmptyImage PROVE FALSE
    <2>1. PICK i \in Images : i = boot.images[n]
      BY <1>0, SlotFacts
    <2>2. PICK m \in Nat \ {0} : m = MappedLength(i) /\ m % Page = 0 /\ PmemExtent(m) \in Nat
                                 /\ m =< PmemExtent(m)
      BY MappedOf
    <2>3. PICK T : Sums(boot.images, T)
      BY MapShapes, SumsExist
    <2>4. nextGpa + m =< WindowEnd
      <3>1. nextGpa + PmemExtent(m) =< WindowGpa + T[n] /\ WindowGpa + T[n] =< WindowEnd /\ T[n] \in Nat
        BY <1>0, <1>4, <2>1, <2>2, <2>3, RoomFor
      <3>2. nextGpa \in Nat /\ WindowGpa \in Nat /\ WindowEnd \in Nat
        BY MapShapes, WindowWide, LayoutAssumption
      <3>3. nextGpa + PmemExtent(m) =< WindowEnd
        BY <3>1, <3>2, <2>2
      <3> QED
        BY <3>2, <3>3, <2>2
    <2>5. PICK r : r = Slot(NewSlot(n)) /\ r.from = nextGpa /\ r.to = nextGpa + m
      BY <1>0, <2>1, <2>2, SlotFacts
    <2>6. nextGpa \in Nat /\ nextGpa % Page = 0
      BY MapShapes, AlignedPage DEF Stacked
    <2>7. r.from % Page = 0 /\ (r.to - r.from) % Page = 0
      <3>1. (nextGpa + m) - nextGpa = m
        BY <2>2, <2>6
      <3> QED
        BY <3>1, <2>2, <2>5, <2>6
    <2>8. Apart(r, LowRam)
      <3>1. LowRam.to = WindowGpa
        BY LayoutAssumption DEF LowRam, Region
      <3> QED
        BY <3>1, <2>5 DEF Stacked, Apart
    <2>9. Apart(r, HighRam)
      <3>1. HighRam.from = WindowEnd
        BY DEF HighRam, Region
      <3> QED
        BY <3>1, <2>4, <2>5 DEF Apart
    <2>10. ASSUME NEW k \in DOMAIN sealed PROVE Apart(r, Slot(sealed[k]))
      <3>1. sealed[k].image \in Images /\ sealed[k].gpa \in Nat /\ EndOf(sealed[k]) =< nextGpa
        BY MapShapes DEF Stacked
      <3>2. Slot(sealed[k]).to =< EndOf(sealed[k]) /\ Slot(sealed[k]).to \in Nat /\ EndOf(sealed[k]) \in Nat
        BY <3>1, MappedOf DEF Slot, Region, EndOf
      <3> QED
        BY <3>1, <3>2, <2>5, <2>6 DEF Apart
    <2>11. SlotTaken(n)
      BY <2>5, <2>7, <2>8, <2>9, <2>10 DEF SlotTaken, KvmTakes
    <2> QED
      BY <2>11, <1>0
  <1>5. NoRefusal'
    BY <1>0, <1>4 DEF NoRefusal, NoEmptyImage
  <1> QED
    BY <1>1, <1>2, <1>3, <1>5

(* What boot checked, the stack and its room say that nothing overlaps.     *)
LEMMA MapSound == MapInv => RegionsApart
  <1> SUFFICES ASSUME MapInv, step \in {"booted", "unsealed"} PROVE RegionsApart
    BY DEF RegionsApart
  <1> USE DEF MapInv
  <1>1. Inside(Region(KernelGpa, boot.kernel), LowRam)
    BY MapShapes, LayoutAssumption DEF BootChecked, KernelFits, Inside, Region, LowRam
  <1>2. boot.hasInitrd => Inside(Region(initrdAt, boot.initrd), HighRam)
    <2>1. SUFFICES ASSUME boot.hasInitrd PROVE Inside(Region(initrdAt, boot.initrd), HighRam)
      OBVIOUS
    <2>2. initrdAt = InitrdStart /\ InitrdFits
      BY <2>1 DEF BootChecked
    <2>3. initrdAt >= WindowEnd /\ initrdAt + boot.initrd =< InitrdTop
      BY <2>1, <2>2, InitrdBelow DEF InitrdFits
    <2>4. WindowEnd + (boot.memory - WindowGpa) = InitrdTop
      BY MapShapes, WindowWide, LayoutAssumption DEF WindowEnd, InitrdTop
    <2> QED
      BY <2>3, <2>4 DEF Inside, Region, HighRam
  <1>3. nextGpa \in Nat /\ nextGpa =< WindowGpa + Window
    BY MapShapes, WindowWide DEF Stacked
  <1>4. ASSUME NEW m \in DOMAIN sealed
        PROVE  /\ sealed[m].gpa \in Nat /\ MappedLength(sealed[m].image) \in Nat
               /\ sealed[m].gpa + MappedLength(sealed[m].image) =< EndOf(sealed[m])
               /\ EndOf(sealed[m]) \in Nat
               /\ ImageLength[sealed[m].image] \in Nat
               /\ ImageLength[sealed[m].image] =< MappedLength(sealed[m].image)
    BY MapShapes, MappedOf, ExtentOf DEF EndOf
  <1>5. ASSUME NEW m \in DOMAIN sealed
        PROVE  /\ Inside(Slot(sealed[m]), Region(WindowGpa, Window))
               /\ sealed[m].gpa % PmemAlign = 0
               /\ \A k \in DOMAIN sealed : k # m => Apart(Slot(sealed[k]), Slot(sealed[m]))
               /\ IsInjective(boot.images) /\ NoEmptyImage =>
                     /\ sealed[m].gpa = Namespace(m).from
                     /\ Inside(Namespace(m), Slot(sealed[m]))
    <2>1. WindowGpa =< sealed[m].gpa /\ Aligned(sealed[m].gpa) /\ EndOf(sealed[m]) =< nextGpa
      BY DEF Stacked
    <2>2. Inside(Slot(sealed[m]), Region(WindowGpa, Window))
      BY <2>1, <1>3, <1>4, WindowWide, LayoutAssumption DEF Inside, Slot, Region
    <2>3. sealed[m].gpa % PmemAlign = 0
      BY <2>1, <1>4, AlignedMod
    <2>4. ASSUME NEW k \in DOMAIN sealed, k # m PROVE Apart(Slot(sealed[k]), Slot(sealed[m]))
      <3>1. k < m \/ m < k
        BY <2>4, MapShapes
      <3>2. CASE k < m
        <4>1. EndOf(sealed[k]) =< sealed[m].gpa
          BY <3>2 DEF Stacked
        <4> QED
          BY <4>1, <1>4 DEF Apart, Slot, Region
      <3>3. CASE m < k
        <4>1. EndOf(sealed[m]) =< sealed[k].gpa
          BY <3>3 DEF Stacked
        <4> QED
          BY <4>1, <1>4 DEF Apart, Slot, Region
      <3> QED
        BY <3>1, <3>2, <3>3
    <2>5. ASSUME IsInjective(boot.images), NoEmptyImage
          PROVE  sealed[m].gpa = Namespace(m).from /\ Inside(Namespace(m), Slot(sealed[m]))
      <3>1. sealed[m].image = boot.images[m] /\ sealed[m].gpa = Namespace(m).from
        BY <2>5 DEF InOrder
      <3>2. Namespace(m).to = sealed[m].gpa + ImageLength[sealed[m].image]
        BY <3>1 DEF Namespace, Region
      <3> QED
        BY <3>1, <3>2, <1>4 DEF Inside, Slot, Region
    <2> QED
      BY <2>2, <2>3, <2>4, <2>5
  <1>6. step = "unsealed" => ~NoEmptyImage
    BY DEF NoRefusal
  <1> QED
    BY <1>1, <1>2, <1>5, <1>6 DEF RegionsApart

(* The inductive invariant of LinuxCell::boot and seal_tool.                *)
THEOREM MapInvariant == MapSpec => []MapInv
  <1>1. MapInv /\ [MapNext]_mapVars => MapInv'
    <2> SUFFICES ASSUME MapInv, [MapNext]_mapVars PROVE MapInv'
      OBVIOUS
    <2>1. CASE BootMap \/ RefuseMap
      BY <2>1, BootMapKeeps
    <2>2. CASE \E n \in 1..MaxImages : SealTool(n) \/ SealFails(n)
      BY <2>2, SealToolKeeps, SealFailsKeeps
    <2>3. CASE UNCHANGED mapVars
      <3>1. boot' = boot /\ step' = step /\ initrdAt' = initrdAt /\ sealed' = sealed
            /\ nextGpa' = nextGpa
        BY <2>3 DEF mapVars
      <3> QED
        BY <3>1 DEF MapInv, MapTypeOK, BootChecked, Stacked, Room, InOrder, NoRefusal, KernelFits,
                    InitrdFits, InitrdStart, InitrdTop, Window, WindowEnd, Namespace, EndOf, NoEmptyImage
    <2> QED
      BY <2>1, <2>2, <2>3 DEF MapNext
  <1> QED
    BY <1>1, MapStarts, PTL DEF MapSpec

(* The layout keeps its types: no address goes below zero.                  *)
THEOREM MapTyped == MapSpec => []MapTypeOK
  <1>1. MapInv => MapTypeOK
    BY DEF MapInv
  <1> QED
    BY <1>1, MapInvariant, PTL

(* However large the memory, the kernel, the initrd and the images, whole   *)
(* pages or not, and whatever the alignment: what LinuxCell::boot accepted  *)
(* and seal_tool added overlaps nowhere and lies where it belongs.  Without *)
(* an empty image every slot is taken, and the Nth of different images      *)
(* lands on the Nth declared namespace and backs it.                        *)
THEOREM MapRegionsApart == MapSpec => []RegionsApart
  BY MapInvariant, MapSound, PTL

-------------------------------------------------------------------------------
(* Forks of warm motes (Cells).                                             *)

(* Where a worker is says what it holds: its key, its pin, and a machine    *)
(* that has not read a task before it runs.                                 *)
Stage(w) ==
    /\ at[w] # "idle" => key[w] \in Keys
    /\ at[w] \in {"parked", "publish", "checking", "pinned"} => pin[w] \in Motes
    /\ at[w] \in {"idle", "locking", "prepare", "template", "booting"} => pin[w] = Nothing
    /\ at[w] = "template" => vm[w].tool = ToolOf[key[w]]
    /\ at[w] \in {"template", "lending"} => vm[w].ram = {}
    /\ vm[w].ram \subseteq {w}

(* No parked memory holds data of a task.                                   *)
MotesClean == \A m \in Motes : mote[m].ram = {}

CellsInv == CellsTypeOK /\ MotesClean /\ ToolsHeld /\ \A w \in Workers : Stage(w)

(* The types of a machine.                                                  *)
Machine == [fork : Motes \cup {Nothing}, tool : Tools \cup {Nothing}, ram : SUBSET Workers,
            task : {"none", "given", "read"}, lent : BOOLEAN]

(* A worker without a machine holds no memory and no tool.                  *)
LEMMA NoMachine == NoVm \in Machine /\ NoVm.tool = Nothing /\ NoVm.ram = {} /\ NoVm.fork = Nothing
  BY DEF NoVm, Machine

(* Vec::remove of the cache.                                                *)
LEMMA RemoveAtFits ==
    ASSUME NEW M, NEW s \in Seq(M), NEW n \in DOMAIN s
    PROVE  /\ RemoveAt(s, n) \in Seq(M) /\ Len(RemoveAt(s, n)) = Len(s) - 1
           /\ \A k \in DOMAIN RemoveAt(s, n) : \E j \in DOMAIN s : RemoveAt(s, n)[k] = s[j]
  <1> DEFINE a == SubSeq(s, 1, n - 1)
             b == SubSeq(s, n + 1, Len(s))
  <1>1. n \in 1..Len(s) /\ Len(s) \in Nat /\ DOMAIN s = 1..Len(s)
    OBVIOUS
  <1>2. a \in Seq(M) /\ Len(a) = n - 1 /\ \A k \in 1..(n - 1) : a[k] = s[k]
    BY <1>1
  <1>3. b \in Seq(M) /\ Len(b) = Len(s) - n /\ \A k \in 1..(Len(s) - n) : b[k] = s[n + k]
    BY <1>1
  <1> HIDE DEF a, b
  <1>4. a \o b \in Seq(M) /\ Len(a \o b) = Len(a) + Len(b)
        /\ \A k \in 1..(Len(a) + Len(b)) :
              (a \o b)[k] = IF k =< Len(a) THEN a[k] ELSE b[k - Len(a)]
    BY <1>2, <1>3
  <1>5. PICK c \in Seq(M) :
           /\ RemoveAt(s, n) = c /\ Len(c) = Len(s) - 1 /\ DOMAIN c = 1..(Len(s) - 1)
           /\ \A k \in 1..(Len(s) - 1) : c[k] = IF k =< n - 1 THEN a[k] ELSE b[k - (n - 1)]
    <2>1. RemoveAt(s, n) = a \o b
      BY DEF RemoveAt, a, b
    <2> HIDE DEF a, b
    <2>2. Len(a) + Len(b) = Len(s) - 1
      BY <1>1, <1>2, <1>3
    <2>3. a \o b \in Seq(M) /\ Len(a \o b) = Len(s) - 1 /\ DOMAIN (a \o b) = 1..(Len(s) - 1)
      BY <2>2, <1>4
    <2>4. \A k \in 1..(Len(s) - 1) : (a \o b)[k] = IF k =< n - 1 THEN a[k] ELSE b[k - (n - 1)]
      BY <2>2, <1>2, <1>4
    <2> QED
      BY <2>1, <2>3, <2>4, Zenon
  <1>6. ASSUME NEW k \in 1..(Len(s) - 1) PROVE \E j \in 1..Len(s) : c[k] = s[j]
    <2>1. CASE k =< n - 1
      <3>1. k \in 1..(n - 1) /\ k \in 1..Len(s)
        BY <2>1, <1>1
      <3> QED
        BY <2>1, <3>1, <1>2, <1>5
    <2>2. CASE ~(k =< n - 1)
      <3>1. k - (n - 1) \in 1..(Len(s) - n) /\ n + (k - (n - 1)) \in 1..Len(s)
        BY <2>2, <1>1
      <3>2. c[k] = b[k - (n - 1)]
        BY <2>2, <1>5
      <3> QED
        BY <3>1, <3>2, <1>3
    <2> QED
      BY <2>1, <2>2
  <1> QED
    BY <1>1, <1>5, <1>6, Zenon

(* The entries of a sequence are no more than its length.                   *)
LEMMA EntriesBound ==
    ASSUME NEW M, NEW s \in Seq(M)
    PROVE  IsFiniteSet({s[n] : n \in DOMAIN s}) /\ Cardinality({s[n] : n \in DOMAIN s}) =< Len(s)
  <1> DEFINE R == {s[n] : n \in DOMAIN s}
  <1>1. s \in Surjection(1..Len(s), R)
    BY DEF Surjection
  <1>2. IsFiniteSet(1..Len(s)) /\ Cardinality(1..Len(s)) = Len(s)
    <2>1. Len(s) \in Nat /\ 1 \in Int /\ Len(s) \in Int
      OBVIOUS
    <2> QED
      BY <2>1, FS_Interval
  <1> QED
    BY <1>1, <1>2, FS_Surjection

(* Identities for parked memory suffice: while a worker parks it holds no   *)
(* pin, so the cache and the others leave one free.                         *)
LEMMA FreeMote ==
    ASSUME CellsTypeOK, NEW w \in Workers, pin[w] = Nothing
    PROVE  \E m \in Motes : m \notin Alive
  <1> DEFINE rest == Workers \ {w}
             others == {pin[x] : x \in rest}
             both == Cached \cup others
             g == [x \in rest |-> pin[x]]
  <1>1. IsFiniteSet(rest) /\ Cardinality(rest) = Cardinality(Workers) - 1
        /\ Cardinality(Workers) \in Nat
    BY FS_RemoveElement, FS_CardinalityType, CellsAssumption
  <1>2. g \in Surjection(rest, others)
    BY DEF Surjection
  <1>3. IsFiniteSet(others) /\ Cardinality(others) =< Cardinality(rest)
    BY <1>1, <1>2, FS_Surjection
  <1>4. IsFiniteSet(Cached) /\ Cardinality(Cached) =< WarmTemplates
    <2>1. cache \in Seq(Motes) /\ Len(cache) =< WarmTemplates /\ Len(cache) \in Nat
      BY DEF CellsTypeOK
    <2>2. IsFiniteSet(Cached) /\ Cardinality(Cached) =< Len(cache)
      BY <2>1, EntriesBound DEF Cached
    <2>3. Cardinality(Cached) \in Nat
      BY <2>2, FS_CardinalityType
    <2> QED
      BY <2>1, <2>2, <2>3, CellsAssumption
  <1>5. IsFiniteSet(both) /\ Cardinality(both) =< Cardinality(Cached) + Cardinality(others)
    <2>1. Cardinality(Cached \cap others) \in Nat /\ Cardinality(Cached) \in Nat
          /\ Cardinality(others) \in Nat
      BY <1>3, <1>4, FS_Intersection, FS_CardinalityType
    <2> HIDE DEF others
    <2>2. IsFiniteSet(Cached \cup others)
          /\ Cardinality(Cached \cup others)
                = Cardinality(Cached) + Cardinality(others) - Cardinality(Cached \cap others)
      BY <1>3, <1>4, FS_Union
    <2> QED
      BY <2>1, <2>2
  <1>6. Cardinality(both) < Cardinality(Motes)
    <2>1. Cardinality(both) \in Nat /\ Cardinality(Cached) \in Nat /\ Cardinality(others) \in Nat
          /\ Cardinality(Motes) \in Nat
      BY <1>3, <1>4, <1>5, FS_CardinalityType, CellsAssumption
    <2> QED
      BY <2>1, <1>1, <1>3, <1>4, <1>5, CellsAssumption
  <1>7. ~(Motes \subseteq both)
    <2>1. SUFFICES ASSUME Motes \subseteq both PROVE FALSE
      OBVIOUS
    <2>2. Cardinality(Motes) =< Cardinality(both)
      BY <1>5, <2>1, FS_Subset
    <2>3. Cardinality(both) \in Nat /\ Cardinality(Motes) \in Nat
      BY <1>5, FS_CardinalityType, CellsAssumption
    <2> QED
      BY <1>6, <2>2, <2>3
  <1>8. Alive \subseteq both \cup {Nothing}
    BY DEF Alive
  <1> QED
    BY <1>7, <1>8, CellsAssumption

(* The host before its first call.                                          *)
LEMMA CellsInitial == CellsInit => CellsInv
  <1> SUFFICES ASSUME CellsInit PROVE CellsInv
    OBVIOUS
  <1>1. CellsTypeOK
    <2>1. vm \in [Workers -> Machine]
      BY NoMachine DEF CellsInit
    <2>2. withdrawn \in [Workers -> BOOLEAN]
      BY Zenon DEF CellsInit
    <2>3. cache \in Seq(Motes) /\ Len(cache) =< WarmTemplates
      BY CellsAssumption DEF CellsInit
    <2> QED
      BY <2>1, <2>2, <2>3 DEF CellsInit, CellsTypeOK, Machine, Places
  <1>2. MotesClean
    BY DEF CellsInit, MotesClean
  <1>3. Alive \ {Nothing} = {}
    BY DEF CellsInit, Alive, Cached
  <1>4. ToolsHeld
    BY <1>3, NoMachine DEF CellsInit, ToolsHeld
  <1>5. \A w \in Workers : Stage(w)
    BY NoMachine DEF CellsInit, Stage
  <1> QED
    BY <1>1, <1>2, <1>4, <1>5 DEF CellsInv

(* Stage for given values.                                                  *)
StageOf(w, a, k, p, v) ==
    /\ a # "idle" => k \in Keys
    /\ a \in {"parked", "publish", "checking", "pinned"} => p \in Motes
    /\ a \in {"idle", "locking", "prepare", "template", "booting"} => p = Nothing
    /\ a = "template" => v.tool = ToolOf[k]
    /\ a \in {"template", "lending"} => v.ram = {}
    /\ v.ram \subseteq {w}

MoteType == [Motes -> [key : Keys \cup {Nothing}, ram : SUBSET Workers]]

(* The four variables of one worker change, and no other worker's.          *)
Becomes(w, a, k, p, v) ==
    /\ at' = [at EXCEPT ![w] = a] /\ key' = [key EXCEPT ![w] = k]
    /\ pin' = [pin EXCEPT ![w] = p] /\ vm' = [vm EXCEPT ![w] = v]

(* A step of one worker.                                                    *)
LEMMA WorkerStep ==
    ASSUME CellsInv, NEW w \in Workers, NEW a \in Places, NEW k \in Keys \cup {Nothing},
           NEW p \in Motes \cup {Nothing}, NEW v \in Machine, Becomes(w, a, k, p, v),
           StageOf(w, a, k, p, v),
           lock' \in Workers \cup {Nothing}, withdrawn' \in [Workers -> BOOLEAN],
           cache' \in Seq(Motes), Len(cache') =< WarmTemplates, registry' \subseteq Tools,
           mote' \in MoteType, MotesClean', ToolsHeld'
    PROVE  CellsInv'
  <1>1. /\ at \in [Workers -> Places] /\ key \in [Workers -> Keys \cup {Nothing}]
        /\ pin \in [Workers -> Motes \cup {Nothing}] /\ vm \in [Workers -> Machine]
    BY DEF CellsInv, CellsTypeOK, Machine
  <1>2. /\ at' \in [Workers -> Places] /\ key' \in [Workers -> Keys \cup {Nothing}]
        /\ pin' \in [Workers -> Motes \cup {Nothing}] /\ vm' \in [Workers -> Machine]
    BY <1>1 DEF Becomes
  <1>3. CellsTypeOK'
    BY <1>2 DEF CellsTypeOK, Machine, MoteType
  <1>4. ASSUME NEW x \in Workers PROVE Stage(x)'
    <2>1. CASE x = w
      <3>1. at'[x] = a /\ key'[x] = k /\ pin'[x] = p /\ vm'[x] = v
        BY <1>1, <2>1 DEF Becomes
      <3> QED
        BY <2>1, <3>1 DEF Stage, StageOf
    <2>2. CASE x # w
      <3>1. at'[x] = at[x] /\ key'[x] = key[x] /\ pin'[x] = pin[x] /\ vm'[x] = vm[x]
        BY <1>1, <2>2 DEF Becomes
      <3>2. Stage(x)
        BY DEF CellsInv
      <3> QED
        BY <3>1, <3>2 DEF Stage
    <2> QED
      BY <2>1, <2>2
  <1> QED
    BY <1>3, <1>4 DEF CellsInv

(* A step that neither parks a mote nor collects tools: what it comes to    *)
(* hold was held before, or is in the registry now.                         *)
LEMMA ToolsStep ==
    ASSUME CellsInv, NEW w \in Workers, NEW a, NEW k, NEW p, NEW v, Becomes(w, a, k, p, v),
           mote' = mote, registry \subseteq registry', Cached' \subseteq Cached,
           p = Nothing \/ p \in Alive,
           v.tool = Nothing \/ v.tool \in registry'
    PROVE  ToolsHeld'
  <1>1. vm \in [Workers -> Machine] /\ pin \in [Workers -> Motes \cup {Nothing}]
    BY DEF CellsInv, CellsTypeOK, Machine
  <1>2. \A x \in Workers : vm'[x] = IF x = w THEN v ELSE vm[x]
    BY <1>1 DEF Becomes
  <1>3. \A x \in Workers : pin'[x] = IF x = w THEN p ELSE pin[x]
    BY <1>1 DEF Becomes
  <1>4. Alive' \ {Nothing} \subseteq Alive \ {Nothing}
    BY <1>3 DEF Alive
  <1> QED
    BY <1>2, <1>4 DEF CellsInv, ToolsHeld

(* Steps that change only the four variables of one worker, the lock and    *)
(* its control.                                                             *)
LEMMA OwnStep ==
    ASSUME CellsInv, NEW w \in Workers, NEW a \in Places, NEW k \in Keys \cup {Nothing},
           NEW p \in Motes \cup {Nothing}, NEW v \in Machine, Becomes(w, a, k, p, v),
           StageOf(w, a, k, p, v), UNCHANGED <<cache, mote, registry>>,
           lock' \in Workers \cup {Nothing}, withdrawn' \in [Workers -> BOOLEAN],
           p = Nothing \/ p \in Alive, v.tool = Nothing \/ v.tool \in registry
    PROVE  CellsInv'
  <1>1. ToolsHeld'
    BY ToolsStep DEF Cached
  <1>2. MotesClean' /\ mote' \in MoteType
    BY DEF CellsInv, MotesClean, CellsTypeOK, MoteType
  <1>3. cache' \in Seq(Motes) /\ Len(cache') =< WarmTemplates /\ registry' \subseteq Tools
    BY DEF CellsInv, CellsTypeOK
  <1> QED
    BY <1>1, <1>2, <1>3, WorkerStep

(* What the invariant says of one worker.                                   *)
LEMMA WorkerFacts ==
    ASSUME CellsInv, NEW w \in Workers
    PROVE  /\ at[w] \in Places /\ key[w] \in Keys \cup {Nothing}
           /\ pin[w] \in Motes \cup {Nothing} /\ vm[w] \in Machine
           /\ StageOf(w, at[w], key[w], pin[w], vm[w])
           /\ pin[w] = Nothing \/ pin[w] \in Alive
           /\ vm[w].tool = Nothing \/ vm[w].tool \in registry
           /\ lock \in Workers \cup {Nothing} /\ withdrawn \in [Workers -> BOOLEAN]
           /\ at = [at EXCEPT ![w] = at[w]] /\ key = [key EXCEPT ![w] = key[w]]
           /\ pin = [pin EXCEPT ![w] = pin[w]] /\ vm = [vm EXCEPT ![w] = vm[w]]
  <1>1. Stage(w) /\ CellsTypeOK /\ ToolsHeld
    BY DEF CellsInv
  <1>2. /\ at[w] \in Places /\ key[w] \in Keys \cup {Nothing}
        /\ pin[w] \in Motes \cup {Nothing} /\ vm[w] \in Machine
    BY <1>1 DEF CellsTypeOK, Machine
  <1>3. StageOf(w, at[w], key[w], pin[w], vm[w])
    BY <1>1 DEF Stage, StageOf
  <1>4. pin[w] \in Alive
    BY DEF Alive
  <1>5. vm[w].tool = Nothing \/ vm[w].tool \in registry
    BY <1>1 DEF ToolsHeld
  <1>6. /\ at = [at EXCEPT ![w] = at[w]] /\ key = [key EXCEPT ![w] = key[w]]
        /\ pin = [pin EXCEPT ![w] = pin[w]] /\ vm = [vm EXCEPT ![w] = vm[w]]
    BY <1>1 DEF CellsTypeOK
  <1> QED
    BY <1>1, <1>2, <1>3, <1>4, <1>5, <1>6 DEF CellsTypeOK

(* A call ends: everything the worker owned is dropped.                     *)
LEMMA DropsKeeps ==
    ASSUME CellsInv, NEW w \in Workers, Drops(w)
    PROVE  CellsInv'
  <1>1. Becomes(w, "idle", Nothing, Nothing, NoVm) /\ UNCHANGED <<cache, mote, registry>>
    BY DEF Drops, Move, Becomes
  <1>2. StageOf(w, "idle", Nothing, Nothing, NoVm)
    BY NoMachine DEF StageOf
  <1>3. lock' \in Workers \cup {Nothing}
    BY WorkerFacts DEF Drops
  <1>4. withdrawn' \in [Workers -> BOOLEAN]
    BY WorkerFacts, Zenon DEF Drops
  <1> QED
    BY <1>1, <1>2, <1>3, <1>4, NoMachine, OwnStep DEF Places

(* pin and fork_from, up to the preparation of a template.                  *)
LEMMA AskKeeps ==
    ASSUME CellsInv, NEW w \in Workers, NEW k \in Keys, Ask(w, k)
    PROVE  CellsInv'
  <1>1. PICK place \in {"locking", "booting"} : at' = [at EXCEPT ![w] = place]
    BY DEF Ask, Move
  <1>2. Becomes(w, place, k, pin[w], vm[w]) /\ UNCHANGED <<warm, withdrawn>>
    BY <1>1, WorkerFacts DEF Ask, Becomes
  <1>3. StageOf(w, place, k, pin[w], vm[w])
    BY <1>1, WorkerFacts DEF StageOf, Ask
  <1>4. place \in Places /\ lock' = lock /\ UNCHANGED <<cache, mote, registry, withdrawn>>
    BY <1>1, <1>2 DEF Places, warm
  <1> QED
    BY <1>2, <1>3, <1>4, WorkerFacts, OwnStep

(* The cache lookup that finds the key: the entry moves to the end.         *)
LEMMA HitKeeps ==
    ASSUME CellsInv, NEW w \in Workers, Hit(w)
    PROVE  CellsInv'
  <1>1. PICK n \in DOMAIN cache :
           cache' = Append(RemoveAt(cache, n), cache[n]) /\ pin' = [pin EXCEPT ![w] = cache[n]]
    BY DEF Hit, HasKey, Cached
  <1>2. cache \in Seq(Motes) /\ Len(cache) =< WarmTemplates /\ cache[n] \in Motes /\ Len(cache) \in Nat
    BY DEF CellsInv, CellsTypeOK
  <1>3. PICK r \in Seq(Motes) :
           /\ r = RemoveAt(cache, n) /\ Len(r) = Len(cache) - 1
           /\ \A i \in DOMAIN r : \E j \in DOMAIN cache : r[i] = cache[j]
    BY <1>2, RemoveAtFits
  <1>4. cache' \in Seq(Motes) /\ Len(cache') =< WarmTemplates
        /\ \A i \in DOMAIN cache' : cache'[i] = cache[n] \/ (i \in DOMAIN r /\ cache'[i] = r[i])
    BY <1>1, <1>2, <1>3, CellsAssumption
  <1>5. Cached' \subseteq Cached
    BY <1>3, <1>4 DEF Cached
  <1>6. Becomes(w, "checking", key[w], cache[n], vm[w]) /\ UNCHANGED <<lock, mote, registry, withdrawn>>
    BY <1>1, WorkerFacts DEF Hit, Becomes, Move
  <1>7. StageOf(w, "checking", key[w], cache[n], vm[w])
    BY <1>2, WorkerFacts DEF StageOf, Hit
  <1>8. cache[n] \in Alive
    BY DEF Alive, Cached
  <1>9. ToolsHeld'
    BY <1>5, <1>6, <1>8, WorkerFacts, ToolsStep
  <1>10. MotesClean' /\ mote' \in MoteType /\ registry' \subseteq Tools
    BY <1>6 DEF CellsInv, MotesClean, CellsTypeOK, MoteType
  <1> QED
    BY <1>2, <1>4, <1>6, <1>7, <1>9, <1>10, WorkerFacts, WorkerStep DEF Places

(* The lookup that finds nothing keeps the lock and goes on to prepare.     *)
LEMMA MissKeeps ==
    ASSUME CellsInv, NEW w \in Workers, Miss(w)
    PROVE  CellsInv'
  <1>1. Becomes(w, "prepare", key[w], pin[w], vm[w]) /\ UNCHANGED <<cache, mote, registry, withdrawn>>
        /\ lock' = w
    BY WorkerFacts DEF Miss, Becomes, Move
  <1>2. StageOf(w, "prepare", key[w], pin[w], vm[w])
    BY WorkerFacts DEF StageOf, Miss
  <1> QED
    BY <1>1, <1>2, WorkerFacts, OwnStep DEF Places

(* LinuxCell::boot: the tool is in the registry when the machine holds it.  *)
LEMMA BootKeeps ==
    ASSUME CellsInv, NEW w \in Workers, Boot(w)
    PROVE  CellsInv'
  <1>1. key[w] \in Keys /\ pin[w] = Nothing
    BY WorkerFacts DEF StageOf, Boot
  <1> DEFINE new == [NoVm EXCEPT !.tool = ToolOf[key[w]]]
  <1>2. PICK v \in Machine : v = new /\ v.tool = ToolOf[key[w]] /\ v.ram = {} /\ ToolOf[key[w]] \in Tools
    <2>1. ToolOf[key[w]] \in Tools
      BY <1>1, CellsAssumption
    <2>2. new \in Machine /\ new.tool = ToolOf[key[w]] /\ new.ram = {}
      BY <2>1, NoMachine DEF Machine
    <2> QED
      BY <2>1, <2>2, Zenon
  <1>3. PICK a \in {"template", "lending"} : Becomes(w, a, key[w], pin[w], v)
    BY <1>2, WorkerFacts DEF Boot, Becomes, Move
  <1>4. StageOf(w, a, key[w], pin[w], v)
    BY <1>1, <1>2, <1>3 DEF StageOf
  <1>5. UNCHANGED <<lock, cache, mote, withdrawn>> /\ registry' = registry \cup {v.tool}
    BY <1>2 DEF Boot
  <1>6. ToolsHeld'
    BY <1>1, <1>3, <1>5, ToolsStep DEF Cached
  <1>7. MotesClean' /\ mote' \in MoteType /\ registry' \subseteq Tools
        /\ cache' \in Seq(Motes) /\ Len(cache') =< WarmTemplates
    BY <1>2, <1>5 DEF CellsInv, MotesClean, CellsTypeOK, MoteType
  <1>8. a \in Places
    BY <1>3 DEF Places
  <1> HIDE DEF new
  <1> QED
    BY <1>2, <1>3, <1>4, <1>5, <1>6, <1>7, <1>8, WorkerFacts, WorkerStep

(* park: the mote takes an identity nobody holds, a machine without data,   *)
(* and a tool that is in the registry.                                      *)
LEMMA ParkKeeps ==
    ASSUME CellsInv, NEW w \in Workers, Park(w)
    PROVE  CellsInv'
  <1>1. key[w] \in Keys /\ pin[w] = Nothing /\ vm[w].tool = ToolOf[key[w]] /\ vm[w].ram = {}
    BY WorkerFacts DEF StageOf, Park
  <1>2. \E m \in Motes : m \notin Alive
    BY <1>1, FreeMote DEF CellsInv
  <1>3. PICK m \in Motes :
           /\ m \notin Alive /\ mote' = [mote EXCEPT ![m] = [key |-> key[w], ram |-> {}]]
           /\ pin' = [pin EXCEPT ![w] = m]
    BY <1>1, <1>2 DEF Park
  <1>4. Becomes(w, "parked", key[w], m, vm[w]) /\ UNCHANGED <<lock, cache, registry, withdrawn>>
    BY <1>3, WorkerFacts DEF Park, Becomes, Move
  <1>5. StageOf(w, "parked", key[w], m, vm[w])
    BY <1>1 DEF StageOf
  <1>6. mote \in MoteType
    BY DEF CellsInv, CellsTypeOK, MoteType
  <1>7. mote' \in MoteType /\ MotesClean'
    <2>1. [key |-> key[w], ram |-> {}] \in [key : Keys \cup {Nothing}, ram : SUBSET Workers]
      BY <1>1
    <2> QED
      BY <1>3, <1>6, <2>1 DEF MoteType, MotesClean, CellsInv
  <1>8. ToolsHeld'
    <2>1. ToolOf[mote'[m].key] \in registry
      <3>1. ToolOf[key[w]] \in registry
        <4>1. ToolOf[key[w]] \in Tools
          BY <1>1, CellsAssumption
        <4> QED
          BY <1>1, <4>1, CellsAssumption, WorkerFacts
      <3> QED
        BY <1>3, <1>6, <3>1 DEF MoteType
    <2>2. ASSUME NEW x \in Alive' \ {Nothing}, x # m PROVE ToolOf[mote'[x].key] \in registry
      <3>1. pin \in [Workers -> Motes \cup {Nothing}]
        BY DEF CellsInv, CellsTypeOK
      <3>2. x \in Alive \ {Nothing}
        BY <1>4, <2>2, <3>1 DEF Alive, Cached, Becomes
      <3>3. mote'[x] = mote[x]
        BY <1>3, <1>6, <2>2 DEF MoteType
      <3> QED
        BY <3>2, <3>3 DEF CellsInv, ToolsHeld
    <2>3. vm' = vm
      BY DEF Park
    <2>4. \A x \in Workers : vm'[x].tool # Nothing => vm'[x].tool \in registry'
      BY <1>4, <2>3 DEF CellsInv, ToolsHeld
    <2>5. \A x \in Alive' \ {Nothing} : ToolOf[mote'[x].key] \in registry'
      BY <1>4, <2>1, <2>2
    <2> QED
      BY <2>4, <2>5 DEF ToolsHeld
  <1> QED
    BY <1>3, <1>4, <1>5, <1>7, <1>8, WorkerFacts, WorkerStep DEF Places, CellsInv, CellsTypeOK

(* The template's machine goes before its mote is published.                *)
LEMMA DropTemplateKeeps ==
    ASSUME CellsInv, NEW w \in Workers, DropTemplate(w)
    PROVE  CellsInv'
  <1>1. Becomes(w, "publish", key[w], pin[w], NoVm) /\ UNCHANGED <<warm, withdrawn>>
    BY WorkerFacts DEF DropTemplate, Becomes, Move
  <1>2. StageOf(w, "publish", key[w], pin[w], NoVm)
    BY WorkerFacts, NoMachine DEF StageOf, DropTemplate
  <1> QED
    BY <1>1, <1>2, NoMachine, WorkerFacts, OwnStep DEF Places, warm

(* Publication: a full cache loses its oldest entry, and the collection     *)
(* keeps every tool a machine, a cached or a pinned mote uses.              *)
LEMMA PublishKeeps ==
    ASSUME CellsInv, NEW w \in Workers, Publish(w)
    PROVE  CellsInv'
  <1>1. Becomes(w, "checking", key[w], pin[w], vm[w]) /\ UNCHANGED <<mote, withdrawn, vm, pin>>
        /\ lock' = Nothing
    BY WorkerFacts DEF Publish, Becomes, Move
  <1>2. StageOf(w, "checking", key[w], pin[w], vm[w]) /\ pin[w] \in Motes
    BY WorkerFacts DEF StageOf, Publish
  <1>3. cache \in Seq(Motes) /\ Len(cache) =< WarmTemplates /\ Len(cache) \in Nat
        /\ WarmTemplates \in Nat /\ WarmTemplates > 0
    BY CellsAssumption DEF CellsInv, CellsTypeOK
  <1>4. PICK r \in Seq(Motes) :
           /\ cache' = Append(r, pin[w]) /\ Len(r) < WarmTemplates
           /\ \A i \in DOMAIN r : \E j \in DOMAIN cache : r[i] = cache[j]
    <2>1. CASE Len(cache) >= WarmTemplates
      <3>1. cache' = Append(Tail(cache), pin[w])
        BY <2>1 DEF Publish
      <3>2. cache # <<>>
        BY <2>1, <1>3
      <3>3. Tail(cache) \in Seq(Motes) /\ Len(Tail(cache)) = Len(cache) - 1
            /\ \A i \in DOMAIN Tail(cache) : Tail(cache)[i] = cache[i + 1] /\ i + 1 \in DOMAIN cache
        BY <3>2, <1>3
      <3>4. \A i \in DOMAIN Tail(cache) : \E j \in DOMAIN cache : Tail(cache)[i] = cache[j]
        BY <3>3, Zenon
      <3>5. Len(Tail(cache)) < WarmTemplates
        BY <1>3, <3>3
      <3> QED
        BY <3>1, <3>3, <3>4, <3>5, Zenon
    <2>2. CASE ~(Len(cache) >= WarmTemplates)
      BY <1>3, <2>2 DEF Publish
    <2> QED
      BY <2>1, <2>2
  <1>5. cache' \in Seq(Motes) /\ Len(cache') =< WarmTemplates
        /\ \A i \in DOMAIN cache' : cache'[i] = pin[w] \/ (i \in DOMAIN r /\ cache'[i] = r[i])
    BY <1>2, <1>3, <1>4
  <1>6. Cached' \subseteq Alive
    BY <1>4, <1>5 DEF Cached, Alive
  <1>7. registry' = {t \in registry : Held(t, cache')}
    BY DEF Publish
  <1>8. ToolsHeld'
    <2>1. ASSUME NEW x \in Workers, vm[x].tool # Nothing PROVE vm[x].tool \in registry'
      <3>1. vm[x].tool \in registry
        BY <2>1 DEF CellsInv, ToolsHeld
      <3>2. Held(vm[x].tool, cache')
        BY DEF Held
      <3> QED
        BY <1>7, <3>1, <3>2
    <2>2. ASSUME NEW m \in Alive' \ {Nothing} PROVE ToolOf[mote[m].key] \in registry'
      <3>1. m \in Alive \ {Nothing}
        BY <1>1, <1>6 DEF Alive
      <3>2. ToolOf[mote[m].key] \in registry
        BY <3>1 DEF CellsInv, ToolsHeld
      <3>3. m \in (Range(cache') \cup {pin[x] : x \in Workers}) \ {Nothing}
        BY <1>1 DEF Alive, Cached, Range
      <3>4. Held(ToolOf[mote[m].key], cache')
        BY <3>3 DEF Held
      <3> QED
        BY <1>7, <3>2, <3>4
    <2> QED
      BY <1>1, <2>1, <2>2 DEF ToolsHeld
  <1>9. MotesClean' /\ mote' \in MoteType /\ registry' \subseteq Tools
    BY <1>1, <1>7 DEF CellsInv, MotesClean, CellsTypeOK, MoteType
  <1> QED
    BY <1>1, <1>2, <1>5, <1>8, <1>9, WorkerFacts, WorkerStep DEF Places

(* A worker whose mote was found sound holds its Arc and no lock.           *)
LEMMA PinnedKeeps ==
    ASSUME CellsInv, NEW w \in Workers, Pinned(w)
    PROVE  CellsInv'
  <1>1. Becomes(w, "pinned", key[w], pin[w], vm[w]) /\ UNCHANGED <<warm, withdrawn>>
    BY WorkerFacts DEF Pinned, Becomes, Move
  <1>2. StageOf(w, "pinned", key[w], pin[w], vm[w])
    BY WorkerFacts DEF StageOf, Pinned
  <1> QED
    BY <1>1, <1>2, WorkerFacts, OwnStep DEF Places, warm

(* fork_from: a private view without data, and the tool's host copy.        *)
LEMMA ForkKeeps ==
    ASSUME CellsInv, NEW w \in Workers, Fork(w)
    PROVE  CellsInv'
  <1> DEFINE tool == ToolOf[mote[pin[w]].key]
  <1>1. CASE tool \notin registry
    BY <1>1, DropsKeeps DEF Fork
  <1>2. CASE tool \in registry
    <2>1. pin[w] \in Motes /\ tool \in Tools
      BY <1>2, WorkerFacts DEF StageOf, Fork, CellsInv, CellsTypeOK
    <2> DEFINE new == [NoVm EXCEPT !.fork = pin[w], !.tool = tool]
    <2>2. PICK v \in Machine : v = new /\ v.tool = tool /\ v.ram = {}
      <3>1. new \in Machine /\ new.tool = tool /\ new.ram = {}
        <4> HIDE DEF tool
        <4> QED
          BY <2>1, NoMachine DEF Machine
      <3> QED
        BY <3>1, Zenon
    <2>3. Becomes(w, "lending", key[w], pin[w], v) /\ UNCHANGED <<warm, withdrawn>>
      BY <1>2, <2>2, WorkerFacts DEF Fork, Becomes, Move
    <2>4. StageOf(w, "lending", key[w], pin[w], v)
      BY <2>2, WorkerFacts DEF StageOf, Fork
    <2>5. "lending" \in Places /\ lock' = lock /\ UNCHANGED <<cache, mote, registry, withdrawn>>
      BY <2>3 DEF Places, warm
    <2> HIDE DEF tool, new
    <2> QED
      BY <1>2, <2>2, <2>3, <2>4, <2>5, WorkerFacts, OwnStep
  <1> QED
    BY <1>1, <1>2

(* What a cell is lent, its run and its return.                             *)
LEMMA LendKeeps ==
    ASSUME CellsInv, NEW w \in Workers, Lend(w)
    PROVE  CellsInv'
  <1>1. PICK l \in BOOLEAN : vm' = [vm EXCEPT ![w].task = "given", ![w].lent = l]
    BY DEF Lend
  <1> DEFINE new == [[vm[w] EXCEPT !.task = "given"] EXCEPT !.lent = l]
  <1>2. PICK v \in Machine : v = new /\ v.tool = vm[w].tool /\ v.ram = vm[w].ram
    <2>1. new \in Machine /\ new.tool = vm[w].tool /\ new.ram = vm[w].ram
      BY WorkerFacts DEF Machine
    <2> QED
      BY <2>1, Zenon
  <1>3. vm' = [vm EXCEPT ![w] = v]
    BY <1>1, <1>2 DEF CellsInv, CellsTypeOK
  <1>4. Becomes(w, "running", key[w], pin[w], v) /\ UNCHANGED <<warm, withdrawn>>
    BY <1>3, WorkerFacts DEF Lend, Becomes, Move
  <1>5. StageOf(w, "running", key[w], pin[w], v)
    BY <1>2, WorkerFacts DEF StageOf, Lend
  <1>6. "running" \in Places /\ lock' = lock /\ UNCHANGED <<cache, mote, registry, withdrawn>>
    BY <1>4 DEF Places, warm
  <1> HIDE DEF new
  <1> QED
    BY <1>2, <1>4, <1>5, <1>6, WorkerFacts, OwnStep

(* The guest reads its task: the memory of this fork alone is tainted.      *)
LEMMA ReadsKeeps ==
    ASSUME CellsInv, NEW w \in Workers, Reads(w)
    PROVE  CellsInv'
  <1>1. vm' = [vm EXCEPT ![w].task = "read", ![w].ram = @ \cup {w}]
    BY DEF Reads, ReadsTask
  <1> DEFINE new == [[vm[w] EXCEPT !.task = "read"] EXCEPT !.ram = vm[w].ram \cup {w}]
  <1>2. PICK v \in Machine : v = new /\ v.tool = vm[w].tool /\ v.ram = vm[w].ram \cup {w}
    <2>1. new \in Machine /\ new.tool = vm[w].tool /\ new.ram = vm[w].ram \cup {w}
      BY WorkerFacts DEF Machine
    <2> QED
      BY <2>1, Zenon
  <1>3. vm' = [vm EXCEPT ![w] = v]
    BY <1>1, <1>2 DEF CellsInv, CellsTypeOK
  <1>4. Becomes(w, at[w], key[w], pin[w], v) /\ UNCHANGED <<warm, withdrawn>>
    BY <1>3, WorkerFacts DEF Reads, ReadsTask, Becomes, warm
  <1>5. StageOf(w, at[w], key[w], pin[w], v)
    BY <1>2, WorkerFacts DEF StageOf, Reads
  <1>6. lock' = lock /\ UNCHANGED <<cache, mote, registry, withdrawn>>
    BY <1>4 DEF warm
  <1> HIDE DEF new
  <1> QED
    BY <1>2, <1>4, <1>5, <1>6, WorkerFacts, OwnStep

(* The cell of a task is dropped; the mote stays pinned.                    *)
LEMMA ReturnKeeps ==
    ASSUME CellsInv, NEW w \in Workers, Return(w)
    PROVE  CellsInv'
  <1>1. Becomes(w, "pinned", key[w], pin[w], NoVm) /\ UNCHANGED <<warm, withdrawn>>
    BY WorkerFacts DEF Return, Becomes, Move
  <1>2. StageOf(w, "pinned", key[w], pin[w], NoVm)
    BY WorkerFacts, NoMachine DEF StageOf, Return
  <1> QED
    BY <1>1, <1>2, NoMachine, WorkerFacts, OwnStep DEF Places, warm

(* The Control of a worker is withdrawn: nothing else changes.              *)
LEMMA CancelKeeps ==
    ASSUME CellsInv, NEW w \in Workers, Cancel(w)
    PROVE  CellsInv'
  <1>1. Becomes(w, at[w], key[w], pin[w], vm[w]) /\ UNCHANGED warm
    BY WorkerFacts DEF Cancel, Becomes
  <1>2. withdrawn' \in [Workers -> BOOLEAN]
    BY WorkerFacts, Zenon DEF Cancel
  <1> QED
    BY <1>1, <1>2, WorkerFacts, OwnStep DEF warm

(* The inductive invariant of the cells of a host.                          *)
THEOREM CellsInvariant == CellsSpec => []CellsInv
  <1>1. CellsInv /\ [CellsNext]_cellVars => CellsInv'
    <2> SUFFICES ASSUME CellsInv, [CellsNext]_cellVars PROVE CellsInv'
      OBVIOUS
    <2>1. CASE UNCHANGED cellVars
      BY <2>1 DEF cellVars, warm, CellsInv, CellsTypeOK, MotesClean, ToolsHeld, Alive, Cached, Stage
    <2>2. ASSUME NEW w \in Workers, NEW k \in Keys, Ask(w, k) PROVE CellsInv'
      BY <2>2, AskKeeps
    <2>3. ASSUME NEW w \in Workers, Refuse(w) PROVE CellsInv'
      BY <2>3, DropsKeeps DEF Refuse
    <2>4. ASSUME NEW w \in Workers, Hit(w) \/ Miss(w) \/ Boot(w) \/ Park(w) \/ DropTemplate(w)
                                    \/ Publish(w) \/ Pinned(w)
          PROVE  CellsInv'
      BY <2>4, HitKeeps, MissKeeps, BootKeeps, ParkKeeps, DropTemplateKeeps, PublishKeeps, PinnedKeeps
    <2>5. ASSUME NEW w \in Workers, Fork(w) \/ Lend(w) \/ Reads(w) \/ Return(w) \/ Cancel(w)
          PROVE  CellsInv'
      BY <2>5, ForkKeeps, LendKeeps, ReadsKeeps, ReturnKeeps, CancelKeeps
    <2> QED
      BY <2>1, <2>2, <2>3, <2>4, <2>5 DEF CellsNext
  <1> QED
    BY <1>1, CellsInitial, PTL DEF CellsSpec

(* Type correctness of the cache of warm motes, the tool registry and the   *)
(* machines; in particular the cache never exceeds WARM_TEMPLATES.          *)
THEOREM CellsTyped == CellsSpec => []CellsTypeOK
  <1>1. CellsInv => CellsTypeOK
    BY DEF CellsInv
  <1> QED
    BY <1>1, CellsInvariant, PTL

(* For every set of threads, keys, tools and every cache size: no guest     *)
(* sees data of another task, and the host copy of every tool in use stays  *)
(* in the registry (dispatch_warm.rs pin, boot.rs fork_from, kvm.rs         *)
(* collect_unused_tools).                                                   *)
THEOREM CellsForksSound == CellsSpec => []ForksSound
  <1>1. CellsInv => ForksSound
    <2> SUFFICES ASSUME CellsInv PROVE ForksSound
      OBVIOUS
    <2>1. ASSUME NEW w \in Workers PROVE Visible(w) \subseteq {w}
      <3>1. vm[w].fork = Nothing \/ mote[vm[w].fork].ram = {}
        BY WorkerFacts DEF CellsInv, MotesClean, Machine
      <3>2. vm[w].ram \subseteq {w}
        BY WorkerFacts DEF StageOf
      <3> QED
        BY <3>1, <3>2 DEF Visible
    <2> QED
      BY <2>1 DEF CellsInv, ForksSound, OwnTaskOnly
  <1> QED
    BY <1>1, CellsInvariant, PTL

-------------------------------------------------------------------------------
(* A parent's mailbox (CellRun).                                            *)

(* What a response under construction holds: chunks written for the frame   *)
(* of this exchange, after the guest had read all of it.                    *)
Written(out, n) == \A k \in DOMAIN out : out[k] = [exchange |-> n, unread |-> 0]

(* The mailbox of a parent that was not given a frame is empty, and a       *)
(* committed one that is not poisoned holds an answer.                      *)
BoxSound ==
    /\ Written(mailbox.output, exchange)
    /\ ~mailbox.active => mailbox.output = <<>>
    /\ mailbox.committed /\ ~mailbox.poisoned => mailbox.output # <<>>

(* Where the owner is, its thread and the number of responses agree; a run  *)
(* that parked left a commit behind.                                        *)
OwnerSound ==
    /\ vcpu # "off" => owner \in {"launching", "delivered"}
    /\ vcpu # "off" /\ end = "Parked" => mailbox.committed
    /\ owner = "taking" => mailbox.committed
    /\ owner \in {"launching", "ready"} => Len(answers) = exchange
    /\ owner \in {"delivered", "taking"} => Len(answers) + 1 = exchange

RunInv == RunTypeOK /\ BoxSound /\ OwnerSound /\ AnswersWhole

(* ParentMailbox: its records, and what each of its methods leaves.         *)
LEMMA BoxShape ==
    ASSUME RunTypeOK
    PROVE  /\ mailbox = [unread |-> mailbox.unread, output |-> mailbox.output,
                         active |-> mailbox.active, committed |-> mailbox.committed,
                         poisoned |-> mailbox.poisoned]
           /\ mailbox.unread \in 0..FrameReads /\ mailbox.output \in Seq(Chunk)
           /\ mailbox.active \in BOOLEAN /\ mailbox.committed \in BOOLEAN
           /\ mailbox.poisoned \in BOOLEAN
  BY DEF RunTypeOK

(* The bounds are positive.                                                 *)
LEMMA RunBounds ==
    /\ Signals \in Nat /\ Signals > 0 /\ FrameReads \in Nat /\ FrameReads > 0
    /\ MaxFrame \in Nat /\ MaxExchanges \in Nat /\ MaxExchanges > 0
  BY CellRunAssumption

(* A cell before its first run.                                             *)
LEMMA RunInitial == RunInit => RunInv
  <1> SUFFICES ASSUME RunInit PROVE RunInv
    OBVIOUS
  <1>1. RunTypeOK
    <2>1. stop \in BOOLEAN /\ cancelled \in BOOLEAN /\ due \in BOOLEAN
      BY Zenon DEF RunInit
    <2>2. mailbox \in [unread : 0..FrameReads, output : Seq(Chunk), active : BOOLEAN,
                       committed : BOOLEAN, poisoned : BOOLEAN]
      BY RunBounds DEF RunInit, EmptyBox
    <2>3. sent \in 0..Signals /\ exchange \in 0..MaxExchanges /\ answers \in Seq(Seq(Chunk))
      BY RunBounds DEF RunInit
    <2> QED
      BY <2>1, <2>2, <2>3 DEF RunInit, RunTypeOK
  <1>2. BoxSound /\ OwnerSound /\ AnswersWhole
    BY DEF RunInit, EmptyBox, BoxSound, Written, OwnerSound, AnswersWhole
  <1> QED
    BY <1>1, <1>2 DEF RunInv

(* Steps that leave the mailbox, the owner and its counts alone, and do not *)
(* invent a commit: the watchdog's, and most of the thread's.               *)
LEMMA QuietRun ==
    ASSUME RunInv, RunTypeOK',
           UNCHANGED <<owner, mailbox, exchange, answers>>,
           vcpu' # "off" => vcpu # "off" \/ owner \in {"launching", "delivered"},
           vcpu' # "off" /\ end' = "Parked" => vcpu # "off" /\ end = "Parked"
    PROVE  RunInv'
  BY DEF RunInv, BoxSound, Written, OwnerSound, AnswersWhole

(* The thread inside run, the watchdog, and the two events.                 *)
LEMMA ThreadKeeps ==
    ASSUME RunInv, Thread
    PROVE  RunInv'
  <1> USE RunBounds
  <1>1. CASE Top \/ Enter \/ BrokerAnswers \/ Interrupted \/ Leave
    <2>1. RunTypeOK'
      <3>1. CASE Top
        <4>1. stop' \in BOOLEAN
          BY <3>1, Zenon DEF RunInv, RunTypeOK, Top
        <4>2. vcpu' \in {"entering", "leaving"} /\ end' \in {end, "TimedOut"}
          BY <3>1 DEF Top
        <4> QED
          BY <3>1, <4>1, <4>2 DEF RunInv, RunTypeOK, Top, host
      <3>2. CASE Enter \/ BrokerAnswers \/ Interrupted \/ Leave
        <4>1. stop' \in BOOLEAN
          BY <3>2, Zenon DEF RunInv, RunTypeOK, Enter, BrokerAnswers, Interrupted, Leave
        <4> QED
          BY <3>2, <4>1 DEF RunInv, RunTypeOK, Enter, BrokerAnswers, Interrupted, Leave, host
      <3> QED
        BY <1>1, <3>1, <3>2
    <2>2. UNCHANGED <<owner, mailbox, exchange, answers>> /\ vcpu # "off"
          /\ (end' = "Parked" => end = "Parked")
      BY <1>1 DEF Top, Enter, BrokerAnswers, Interrupted, Leave, host
    <2> QED
      BY <2>1, <2>2, QuietRun
  <1>2. CASE Join
    <2>1. RunTypeOK'
      BY <1>2 DEF RunInv, RunTypeOK, Join, AfterRun
    <2>2. BoxSound' /\ AnswersWhole'
      BY <1>2 DEF RunInv, BoxSound, Written, AnswersWhole, Join
    <2>3. owner \in {"launching", "delivered"}
      BY <1>2 DEF RunInv, OwnerSound, Join
    <2>4. OwnerSound'
      BY <1>2, <2>3 DEF RunInv, RunTypeOK, OwnerSound, Join, AfterRun
    <2> QED
      BY <2>1, <2>2, <2>4 DEF RunInv
  <1> QED
    BY <1>1, <1>2 DEF Thread

(* The watchdog thread, a cancel and the timeout touch no mailbox.          *)
LEMMA WatchdogKeeps ==
    ASSUME RunInv, Watchdog \/ CancelRun \/ TimeoutPasses
    PROVE  RunInv'
  <1>1. RunTypeOK'
    <2>1. CASE DogReturns \/ DogFires
      <3>1. stop' \in BOOLEAN
        BY <2>1, Zenon DEF RunInv, RunTypeOK, DogReturns, DogFires
      <3> QED
        BY <2>1, <3>1 DEF RunInv, RunTypeOK, DogReturns, DogFires, host
    <2>2. CASE DogSignals
      BY <2>2, RunBounds DEF RunInv, RunTypeOK, DogSignals, host
    <2>3. CASE CancelRun \/ TimeoutPasses
      <3>1. cancelled' \in BOOLEAN /\ due' \in BOOLEAN
        BY <2>3, Zenon DEF RunInv, RunTypeOK, CancelRun, TimeoutPasses
      <3> QED
        BY <2>3, <3>1 DEF RunInv, RunTypeOK, CancelRun, TimeoutPasses
    <2> QED
      BY <2>1, <2>2, <2>3 DEF Watchdog
  <1>2. UNCHANGED <<owner, mailbox, exchange, answers, end>> /\ (vcpu' # "off" => vcpu # "off")
    BY DEF Watchdog, DogReturns, DogFires, DogSignals, CancelRun, TimeoutPasses, host
  <1> QED
    BY <1>1, <1>2, QuietRun

(* The guest's ports: an answer grows by a chunk for the frame it has read, *)
(* and a commit is recorded before the run parks.                           *)
LEMMA GuestKeeps ==
    ASSUME RunInv, GuestStep
    PROVE  RunInv'
  <1> USE RunBounds
  <1>1. CASE GuestExits \/ GuestPrintsMarker \/ GuestFetches \/ GuestEnds
    <2>1. RunTypeOK'
      BY <1>1 DEF RunInv, RunTypeOK, GuestExits, GuestPrintsMarker, GuestFetches, GuestEnds, host
    <2>2. UNCHANGED <<owner, mailbox, exchange, answers>> /\ vcpu # "off"
          /\ (end' = "Parked" => end = "Parked")
      BY <1>1 DEF GuestExits, GuestPrintsMarker, GuestFetches, GuestEnds, host
    <2> QED
      BY <2>1, <2>2, QuietRun
  <1> DEFINE out == mailbox.output
             chunk == [exchange |-> exchange, unread |-> mailbox.unread]
  <1>2. CASE GuestReads
    <2>1. UNCHANGED <<host, dog, sent, stop, end>> /\ vcpu = "guest" /\ vcpu' = "top"
      BY <1>2 DEF GuestReads
    <2>2. /\ mailbox'.output = out /\ mailbox'.active = mailbox.active
          /\ mailbox'.committed = mailbox.committed /\ mailbox'.poisoned = mailbox.poisoned
          /\ mailbox' \in [unread : 0..FrameReads, output : Seq(Chunk), active : BOOLEAN,
                           committed : BOOLEAN, poisoned : BOOLEAN]
      <3>1. CASE mailbox.poisoned \/ mailbox.unread = 0
        BY <1>2, <3>1 DEF GuestReads, MailboxRead, RunInv, RunTypeOK
      <3>2. CASE ~(mailbox.poisoned \/ mailbox.unread = 0)
        <4>1. mailbox' = [unread |-> mailbox.unread - 1, output |-> mailbox.output,
                         active |-> mailbox.active, committed |-> mailbox.committed,
                         poisoned |-> mailbox.poisoned]
          BY <1>2, <3>2, BoxShape DEF GuestReads, MailboxRead, RunInv
        <4> QED
          BY <4>1, <3>2, BoxShape DEF RunInv
      <3> QED
        BY <3>1, <3>2
    <2>3. RunTypeOK'
      BY <2>1, <2>2 DEF RunInv, RunTypeOK, host
    <2>4. BoxSound' /\ OwnerSound' /\ AnswersWhole'
      BY <2>1, <2>2 DEF RunInv, BoxSound, Written, OwnerSound, AnswersWhole, host
    <2> QED
      BY <2>3, <2>4 DEF RunInv
  <1>3. CASE GuestWrites
    <2>1. UNCHANGED <<host, dog, sent, stop, end>> /\ vcpu = "guest" /\ vcpu' = "top"
      BY <1>3 DEF GuestWrites
    <2>2. CASE mailbox.poisoned \/ ~mailbox.active \/ mailbox.committed \/ mailbox.unread > 0
               \/ Len(out) >= MaxFrame
      <3>1. mailbox' = [unread |-> mailbox.unread, output |-> mailbox.output,
                        active |-> mailbox.active, committed |-> mailbox.committed,
                        poisoned |-> TRUE]
        BY <1>3, <2>2, BoxShape DEF GuestWrites, MailboxWrite, RunInv
      <3>2. RunTypeOK'
        BY <2>1, <3>1, BoxShape DEF RunInv, RunTypeOK, host
      <3>3. BoxSound' /\ OwnerSound' /\ AnswersWhole'
        BY <2>1, <3>1 DEF RunInv, BoxSound, Written, OwnerSound, AnswersWhole, host
      <3> QED
        BY <3>2, <3>3 DEF RunInv
    <2>3. CASE ~(mailbox.poisoned \/ ~mailbox.active \/ mailbox.committed \/ mailbox.unread > 0
               \/ Len(out) >= MaxFrame)
      <3>1. mailbox' = [unread |-> mailbox.unread, output |-> Append(out, chunk),
                        active |-> mailbox.active, committed |-> mailbox.committed,
                        poisoned |-> mailbox.poisoned]
        BY <1>3, <2>3, BoxShape DEF GuestWrites, MailboxWrite, RunInv
      <3>2. chunk \in Chunk /\ chunk = [exchange |-> exchange, unread |-> 0]
            /\ out \in Seq(Chunk)
        BY <2>3, BoxShape DEF Chunk, RunInv, RunTypeOK
      <3> HIDE DEF chunk
      <3>3. Append(out, chunk) \in Seq(Chunk) /\ Append(out, chunk) # <<>>
            /\ DOMAIN out = 1..Len(out) /\ Len(out) \in Nat
            /\ DOMAIN Append(out, chunk) = 1..(Len(out) + 1)
            /\ Append(out, chunk)[Len(out) + 1] = chunk
            /\ \A k \in 1..Len(out) : Append(out, chunk)[k] = out[k]
        <4>1. \A s \in Seq(Chunk), c \in Chunk :
                 /\ Append(s, c) \in Seq(Chunk) /\ Append(s, c) # <<>>
                 /\ DOMAIN s = 1..Len(s) /\ Len(s) \in Nat
                 /\ DOMAIN Append(s, c) = 1..(Len(s) + 1)
                 /\ Append(s, c)[Len(s) + 1] = c
                 /\ \A k \in 1..Len(s) : Append(s, c)[k] = s[k]
          OBVIOUS
        <4> HIDE DEF out
        <4> QED
          BY <3>2, <4>1
      <3>4. RunTypeOK'
        BY <2>1, <3>1, <3>3, BoxShape DEF RunInv, RunTypeOK, host
      <3>5. Written(Append(out, chunk), exchange)
        BY <3>2, <3>3 DEF RunInv, BoxSound, Written
      <3>6. BoxSound'
        BY <2>1, <2>3, <3>1, <3>3, <3>5 DEF BoxSound, Written, host
      <3>7. OwnerSound' /\ AnswersWhole'
        BY <2>1, <3>1 DEF RunInv, OwnerSound, AnswersWhole, host
      <3> QED
        BY <3>4, <3>6, <3>7 DEF RunInv
    <2> QED
      BY <2>2, <2>3
  <1>4. CASE GuestCommits
    <2>1. UNCHANGED <<host, dog, sent, stop>> /\ vcpu = "guest" /\ vcpu' = "top"
          /\ end' = "Parked"
      BY <1>4 DEF GuestCommits
    <2>2. PICK p \in BOOLEAN :
             /\ mailbox' = [unread |-> mailbox.unread, output |-> mailbox.output,
                            active |-> mailbox.active, committed |-> TRUE, poisoned |-> p]
             /\ mailbox.output = <<>> => p
      BY <1>4, BoxShape DEF GuestCommits, MailboxCommit, RunInv
    <2>3. RunTypeOK'
      BY <2>1, <2>2, BoxShape DEF RunInv, RunTypeOK, host
    <2>4. BoxSound' /\ OwnerSound' /\ AnswersWhole'
      BY <2>1, <2>2 DEF RunInv, BoxSound, Written, OwnerSound, AnswersWhole, host
    <2> QED
      BY <2>3, <2>4 DEF RunInv
  <1> QED
    BY <1>1, <1>2, <1>3, <1>4 DEF GuestStep

(* The owner: a frame is delivered to an empty mailbox and numbers the next *)
(* response.                                                                *)
LEMMA OwnerKeeps ==
    ASSUME RunInv, Owner
    PROVE  RunInv'
  <1> USE RunBounds
  <1>1. CASE RunBegins
    <2>1. RunTypeOK'
      <3>1. stop' \in BOOLEAN /\ due' \in BOOLEAN
        BY <1>1, Zenon DEF RunInv, RunTypeOK, RunBegins
      <3> QED
        BY <1>1, <3>1 DEF RunInv, RunTypeOK, RunBegins
    <2>2. UNCHANGED <<owner, mailbox, exchange, answers>> /\ end' = "none"
          /\ owner \in {"launching", "delivered"}
      BY <1>1 DEF RunBegins
    <2> QED
      BY <2>1, <2>2, QuietRun
  <1>2. CASE DeliverRefused \/ RunRefused
    <2>0. vcpu = "off"
      BY <1>2 DEF RunInv, OwnerSound, DeliverRefused, RunRefused
    <2>1. RunTypeOK'
      BY <1>2 DEF RunInv, RunTypeOK, DeliverRefused, RunRefused
    <2>2. BoxSound' /\ OwnerSound' /\ AnswersWhole'
      BY <1>2, <2>0 DEF RunInv, BoxSound, Written, OwnerSound, AnswersWhole, DeliverRefused, RunRefused
    <2> QED
      BY <2>1, <2>2 DEF RunInv
  <1>3. CASE Deliver
    <2>0. vcpu = "off" /\ mailbox.output = <<>>
      BY <1>3 DEF RunInv, OwnerSound, BoxSound, Deliver
    <2>1. mailbox' = [unread |-> FrameReads, output |-> <<>>,
                      active |-> TRUE, committed |-> mailbox.committed,
                      poisoned |-> mailbox.poisoned]
      BY <1>3, <2>0, BoxShape DEF Deliver, MailboxDeliver, RunInv
    <2>2. RunTypeOK'
      BY <1>3, <2>1, BoxShape DEF RunInv, RunTypeOK, Deliver
    <2>3. BoxSound' /\ AnswersWhole'
      BY <1>3, <2>0, <2>1 DEF RunInv, BoxSound, Written, AnswersWhole, Deliver
    <2>4. OwnerSound'
      BY <1>3, <2>0, <2>1 DEF RunInv, RunTypeOK, OwnerSound, Deliver
    <2> QED
      BY <2>2, <2>3, <2>4 DEF RunInv
  <1>4. CASE Take
    <2>0. vcpu = "off" /\ mailbox.committed /\ Len(answers) + 1 = exchange
          /\ answers \in Seq(Seq(Chunk)) /\ mailbox.output \in Seq(Chunk) /\ owner = "taking"
      BY <1>4, BoxShape DEF RunInv, RunTypeOK, OwnerSound, Take
    <2>1. CASE mailbox.poisoned
      <3>1. owner' = "lost" /\ UNCHANGED <<kind, vcpu, dog, sent, stop, end, cancelled, due, exchange, mailbox, answers>>
        BY <1>4, <2>1 DEF Take
      <3> QED
        BY <2>0, <3>1 DEF RunInv, RunTypeOK, BoxSound, Written, OwnerSound, AnswersWhole
    <2>2. CASE ~mailbox.poisoned
      <3>1. /\ owner' = "ready" /\ answers' = Append(answers, mailbox.output)
            /\ UNCHANGED <<kind, vcpu, dog, sent, stop, end, cancelled, due, exchange>>
            /\ mailbox' = [unread |-> mailbox.unread, output |-> <<>>, active |-> FALSE,
                           committed |-> FALSE, poisoned |-> mailbox.poisoned]
        BY <1>4, <2>2, BoxShape DEF Take, MailboxTake, RunInv
      <3>2. RunTypeOK'
        BY <2>0, <3>1, BoxShape DEF RunInv, RunTypeOK
      <3>3. /\ Len(answers') = exchange
            /\ DOMAIN answers' = 1..exchange
            /\ answers'[exchange] = mailbox.output
            /\ \A n \in 1..exchange : n # exchange => n \in DOMAIN answers /\ answers'[n] = answers[n]
        BY <2>0, <3>1 DEF RunInv, RunTypeOK
      <3>4. mailbox.output # <<>> /\ Written(mailbox.output, exchange)
        BY <2>0, <2>2 DEF RunInv, BoxSound
      <3>5. AnswersWhole'
        BY <3>3, <3>4 DEF RunInv, AnswersWhole, Written
      <3>6. BoxSound'
        BY <3>1 DEF BoxSound, Written
      <3>7. OwnerSound'
        BY <2>0, <3>1, <3>3 DEF OwnerSound
      <3> QED
        BY <3>2, <3>5, <3>6, <3>7 DEF RunInv
    <2> QED
      BY <2>1, <2>2
  <1> QED
    BY <1>1, <1>2, <1>3, <1>4 DEF Owner

(* The inductive invariant of a cell's runs.                                *)
THEOREM RunInvariant == RunSpec => []RunInv
  <1>1. RunInv /\ [RunNext]_runVars => RunInv'
    <2> SUFFICES ASSUME RunInv, [RunNext]_runVars PROVE RunInv'
      OBVIOUS
    <2>1. CASE UNCHANGED runVars
      BY <2>1 DEF runVars, RunInv, RunTypeOK, BoxSound, Written, OwnerSound, AnswersWhole
    <2>2. CASE RunNext
      BY <2>2, ThreadKeeps, WatchdogKeeps, GuestKeeps, OwnerKeeps DEF RunNext
    <2> QED
      BY <2>1, <2>2
  <1> QED
    BY <1>1, RunInitial, PTL DEF RunSpec

(* Type correctness of LinuxCell::run, its watchdog and ParentMailbox.      *)
THEOREM RunTyped == RunSpec => []RunTypeOK
  <1>1. RunInv => RunTypeOK
    BY DEF RunInv
  <1> QED
    BY <1>1, RunInvariant, PTL

(* For every number of exchanges, frame length and burst: the nth response  *)
(* take_parent_response returns was written for the nth frame alone, after  *)
(* the guest had read all of it.                                            *)
THEOREM RunAnswersWhole == RunSpec => []AnswersWhole
  <1>1. RunInv => AnswersWhole
    BY DEF RunInv
  <1> QED
    BY <1>1, RunInvariant, PTL

-------------------------------------------------------------------------------
(* The budgets of the egress broker (Broker).                               *)

(* The sums a sequence of requests can have: Tokens is the last value of    *)
(* one of these functions, and all of them agree with a bound.              *)
IsTotal(asks, T) ==
    T = [n \in 0..Len(asks) |-> IF n = 0 THEN 0 ELSE T[n - 1] + asks[n].tokens]

TokensBelow(asks, b) ==
    /\ \E T : IsTotal(asks, T)
    /\ \A T : IsTotal(asks, T) => T[Len(asks)] \in Nat /\ T[Len(asks)] =< b

Asks == Seq([id : Nat, tokens : Nat])

(* The entries of a sequence of requests.                                   *)
LEMMA AskTypes ==
    ASSUME NEW asks \in Asks
    PROVE  /\ Len(asks) \in Nat /\ DOMAIN asks = 1..Len(asks)
           /\ \A n \in DOMAIN asks : asks[n].id \in Nat /\ asks[n].tokens \in Nat
  <1>1. \A n \in DOMAIN asks : asks[n] \in [id : Nat, tokens : Nat]
    <2>1. ASSUME NEW R, NEW s \in Seq(R) PROVE \A n \in DOMAIN s : s[n] \in R
      OBVIOUS
    <2> QED
      BY <2>1, Zenon DEF Asks
  <1> QED
    BY <1>1 DEF Asks

(* Tokens is one of the sums.                                               *)
LEMMA TokensIsTotal ==
    ASSUME NEW asks, NEW b, TokensBelow(asks, b)
    PROVE  Tokens(asks) \in Nat /\ Tokens(asks) =< b
  <1> DEFINE Z == CHOOSE T : IsTotal(asks, T)
  <1>1. IsTotal(asks, Z)
    BY DEF TokensBelow
  <1>2. Tokens(asks) = Z[Len(asks)]
    BY DEF Tokens, IsTotal
  <1> HIDE DEF Z
  <1> QED
    BY <1>1, <1>2 DEF TokensBelow

(* Nothing asked, nothing spent.                                            *)
LEMMA NoTokens == TokensBelow(<<>>, 0)
  <1> DEFINE Z == [n \in 0..0 |-> 0]
  <1>1. Len(<<>>) = 0
    OBVIOUS
  <1>2. IsTotal(<<>>, Z)
    <2>1. Z = [n \in 0..0 |-> IF n = 0 THEN 0 ELSE Z[n - 1] + <<>>[n].tokens]
      OBVIOUS
    <2> QED
      BY <1>1, <2>1 DEF IsTotal
  <1>3. ASSUME NEW T, IsTotal(<<>>, T) PROVE T[0] = 0
    BY <1>1, <1>3 DEF IsTotal
  <1> QED
    BY <1>1, <1>2, <1>3 DEF TokensBelow

(* A larger bound.                                                          *)
LEMMA TokensLoose ==
    ASSUME NEW asks, NEW b \in Nat, TokensBelow(asks, b), NEW c \in Nat, b =< c
    PROVE  TokensBelow(asks, c)
  BY DEF TokensBelow

(* One request more.                                                        *)
LEMMA TokensAppend ==
    ASSUME NEW asks \in Asks, NEW b \in Nat, TokensBelow(asks, b),
           NEW e \in [id : Nat, tokens : Nat]
    PROVE  TokensBelow(Append(asks, e), b + e.tokens)
  <1>1. PICK N \in Nat : N = Len(asks)
    BY DEF Asks
  <1>2. PICK more \in Asks : more = Append(asks, e)
    <2>1. Append(asks, e) \in Asks
      BY DEF Asks
    <2> QED
      BY <2>1, Zenon
  <1>3. /\ Len(more) = N + 1 /\ more[N + 1] = e
        /\ \A n \in 1..N : more[n] = asks[n]
    BY <1>1, <1>2 DEF Asks
  <1>4. e.tokens \in Nat
    OBVIOUS
  <1>5. \E T : IsTotal(more, T)
    <2>1. PICK T : IsTotal(asks, T)
      BY DEF TokensBelow
    <2>2. PICK S : S = [n \in 0..(N + 1) |-> IF n =< N THEN T[n] ELSE T[N] + e.tokens]
      OBVIOUS
    <2>3. ASSUME NEW n \in 0..(N + 1) PROVE S[n] = IF n = 0 THEN 0 ELSE S[n - 1] + more[n].tokens
      <3>1. CASE n = 0
        BY <1>1, <2>1, <2>2, <3>1 DEF IsTotal
      <3>2. CASE n \in 1..N
        <4>1. S[n] = T[n] /\ S[n - 1] = T[n - 1]
          BY <2>2, <3>2
        <4>2. T[n] = T[n - 1] + asks[n].tokens
          BY <1>1, <2>1, <3>2 DEF IsTotal
        <4> QED
          BY <1>3, <3>2, <4>1, <4>2
      <3>3. CASE n = N + 1
        <4>1. S[n] = T[N] + e.tokens /\ S[n - 1] = T[N] /\ more[n] = e
          BY <1>3, <2>2, <3>3
        <4> QED
          BY <3>3, <4>1
      <3> QED
        BY <3>1, <3>2, <3>3
    <2>4. S = [n \in 0..(N + 1) |-> IF n = 0 THEN 0 ELSE S[n - 1] + more[n].tokens]
      BY <2>2, <2>3
    <2> QED
      BY <1>3, <2>4 DEF IsTotal
  <1>6. ASSUME NEW S, IsTotal(more, S) PROVE S[N + 1] \in Nat /\ S[N + 1] =< b + e.tokens
    <2>1. S = [n \in 0..(N + 1) |-> IF n = 0 THEN 0 ELSE S[n - 1] + more[n].tokens]
      BY <1>3, <1>6 DEF IsTotal
    <2>2. PICK T : T = [n \in 0..N |-> S[n]]
      OBVIOUS
    <2>3. ASSUME NEW n \in 0..N PROVE T[n] = IF n = 0 THEN 0 ELSE T[n - 1] + asks[n].tokens
      <3>1. CASE n = 0
        BY <2>1, <2>2, <3>1
      <3>2. CASE n \in 1..N
        <4>1. T[n] = S[n] /\ T[n - 1] = S[n - 1]
          BY <2>2, <3>2
        <4>2. S[n] = S[n - 1] + more[n].tokens
          BY <2>1, <3>2
        <4> QED
          BY <1>3, <3>2, <4>1, <4>2
      <3> QED
        BY <3>1, <3>2
    <2>4. T = [n \in 0..N |-> IF n = 0 THEN 0 ELSE T[n - 1] + asks[n].tokens]
      BY <2>2, <2>3
    <2>5. T[N] \in Nat /\ T[N] =< b
      BY <1>1, <2>4 DEF TokensBelow, IsTotal
    <2>6. S[N + 1] = S[N] + e.tokens /\ T[N] = S[N]
      BY <1>3, <2>1, <2>2
    <2> QED
      BY <1>4, <2>5, <2>6
  <1> QED
    BY <1>2, <1>3, <1>5, <1>6 DEF TokensBelow

-----------------------------------------------------------------------------
(* The requests of the model that were charged: GETs count in both.         *)
Charges(sp) == sp.used - sp.gets
Spent == [used : Nat, gets : Nat, posts : Nat, tokens : Nat]
Loops == [asks : 0..MaxAsks, calls : 0..MaxCalls, pending : 0..MaxCalls, over : BOOLEAN,
          tool : BOOLEAN, diverted : BOOLEAN]
Stages == {"idle", "claimed", "lent", "running", "model", "charged", "sent", "hop", "hopping", "post"}

(* What a turn ever put on the wire fits its grant.                         *)
Fits(asks) ==
    /\ asks \in Asks /\ Len(asks) =< MaxRequests /\ TokensBelow(asks, total)
    /\ route = "scoped" => \A m, n \in DOMAIN asks : asks[m].id = asks[n].id => m = n

(* It was paid for before, and a request that is charged and not sent is    *)
(* paid for besides; the relay numbered no more than it has given out.      *)
Paid(asks, st, sp, rq, sq) ==
    /\ Len(asks) + (IF st = "charged" THEN 1 ELSE 0) =< Charges(sp)
    /\ sp.tokens >= (IF st = "charged" THEN rq ELSE 0)
    /\ TokensBelow(asks, sp.tokens - (IF st = "charged" THEN rq ELSE 0))
    /\ \A n \in DOMAIN asks : asks[n].id =< sq

(* The harness has a request of its own before the broker.                  *)
Due(st, lp) == IF st = "model" /\ ~lp.tool THEN 1 ELSE 0

(* The counters of the broker against the grant and the harness.            *)
Within(st, sp, rq, lp) ==
    /\ sp \in Spent /\ sp.gets =< sp.used /\ Charges(sp) =< MaxRequests /\ sp.tokens =< total
    /\ sp.tokens =< Charges(sp) * MaxOutput
    /\ get = "none" /\ route # "oneshot" => sp.gets = 0
    /\ harness = "loop" /\ ~lp.diverted => Charges(sp) + Due(st, lp) =< lp.asks
    /\ lp \in Loops /\ lp.calls + lp.pending =< MaxCalls
    /\ st \in {"model", "charged"} => rq \in 1..MaxOutput
    /\ harness = "loop" /\ st = "model" /\ ~lp.tool => rq = MaxOutput

(* A turn whose broker was not claimed asked for nothing.                   *)
Claimed ==
    /\ \A t \in TurnIds : t \notin claims => asked[t] = <<>>
    /\ stage # "idle" => turn \in TurnIds /\ turn \in claims
    /\ stage = "idle" => spent = Fresh /\ sequence = 0 /\ request = 0 /\ loop = NewLoop

BrokerInv ==
    /\ BrokerTypeOK /\ Claimed
    /\ \A t \in TurnIds : Fits(asked[t])
    /\ Within(stage, spent, request, loop)
    /\ stage # "idle" => Paid(asked[turn], stage, spent, request, sequence)

(* The limits of the grant.                                                 *)
LEMMA BrokerBounds ==
    /\ MaxAsks \in Nat /\ MaxAsks > 0 /\ MaxRequests \in Nat /\ MaxRequests > 0
    /\ MaxOutput \in Nat /\ MaxOutput > 0
    /\ MaxTotal \in Nat /\ MaxHops \in Nat /\ MaxCalls \in Nat /\ MaxGets \in Nat /\ MaxPosts \in Nat
    /\ MaxAsks =< MaxRequests
  BY BrokerAssumption

(* Products keep the order.                                                 *)
LEMMA Monotone ==
    ASSUME NEW a \in Nat, NEW b \in Nat, NEW m \in Nat, a =< b
    PROVE  a * m =< b * m /\ (a + 1) * m = a * m + m /\ a * m \in Nat
  <1>1. PICK d \in Nat : b = a + d
    <2>1. b - a \in Nat /\ b = a + (b - a)
      OBVIOUS
    <2> QED
      BY <2>1
  <1>2. b * m = a * m + d * m /\ d * m \in Nat /\ a * m \in Nat
    BY <1>1
  <1> QED
    BY <1>2

(* The counters of a new turn.                                              *)
LEMMA FreshWithin ==
    /\ total \in Nat => \A st \in Stages : st \notin {"model", "charged"} => Within(st, Fresh, 0, NewLoop)
    /\ \A st \in Stages : st # "charged" => Paid(<<>>, st, Fresh, 0, 0)
    /\ Fresh \in Spent /\ NewLoop \in Loops
  <1>1. Fresh \in Spent /\ NewLoop \in Loops /\ Fresh.used = 0 /\ Fresh.gets = 0 /\ Fresh.tokens = 0
        /\ NewLoop.asks = 0 /\ NewLoop.calls = 0 /\ NewLoop.pending = 0
    BY BrokerBounds DEF Fresh, NewLoop, Spent, Loops
  <1>2. Charges(Fresh) = 0 /\ 0 * MaxOutput = 0
    BY <1>1, BrokerBounds DEF Charges
  <1>3. ASSUME total \in Nat, NEW st \in Stages, st \notin {"model", "charged"}
        PROVE  Within(st, Fresh, 0, NewLoop)
    BY <1>1, <1>2, <1>3, BrokerBounds DEF Within, Due
  <1>4. Len(<<>>) = 0 /\ DOMAIN <<>> = {} /\ 0 - 0 = 0
    OBVIOUS
  <1>5. \A st \in Stages : st # "charged" => Paid(<<>>, st, Fresh, 0, 0)
    BY <1>1, <1>2, <1>4, NoTokens DEF Paid
  <1> QED
    BY <1>1, <1>3, <1>5

(* The start.                                                               *)
LEMMA BrokerInitial == BrokerInit => BrokerInv
  <1> SUFFICES ASSUME BrokerInit PROVE BrokerInv
    OBVIOUS
  <1>1. BrokerTypeOK
    <2>1. profile \in BOOLEAN /\ bearer \in BOOLEAN /\ expired \in BOOLEAN
      BY Zenon DEF BrokerInit
    <2>2. get \in {"none", "empty", "some"}
      BY DEF BrokerInit
    <2>3. spent \in Spent /\ loop \in Loops
      BY FreshWithin DEF BrokerInit
    <2>4. asked \in [TurnIds -> Seq([id : Nat, tokens : Nat])]
      BY DEF BrokerInit
    <2>5. total \in Nat
      BY BrokerBounds DEF BrokerInit
    <2> QED
      BY <2>1, <2>2, <2>3, <2>4, <2>5 DEF BrokerInit, BrokerTypeOK, Spent, Loops
  <1>2. Claimed
    BY DEF BrokerInit, Claimed
  <1>3. Fits(<<>>)
    <2>1. TokensBelow(<<>>, total)
      <3>1. total \in Nat /\ 0 =< total
        BY <1>1 DEF BrokerTypeOK
      <3> QED
        BY <3>1, NoTokens, TokensLoose
    <2>2. <<>> \in Asks /\ Len(<<>>) = 0 /\ DOMAIN <<>> = {}
      BY DEF Asks
    <2> QED
      BY <2>1, <2>2, BrokerBounds DEF Fits
  <1>4. Within(stage, spent, request, loop) /\ stage = "idle"
    BY <1>1, FreshWithin DEF BrokerInit, Stages, BrokerTypeOK
  <1> QED
    BY <1>1, <1>2, <1>3, <1>4 DEF BrokerInit, BrokerInv

(* A step that spends nothing and sends nothing.                            *)
LEMMA QuietBroker ==
    ASSUME BrokerInv, BrokerTypeOK', UNCHANGED <<route, get, harness, total, claims, spent, asked>>,
           stage # "idle" => turn' = turn, (stage = "idle") <=> (stage' = "idle"),
           sequence' >= sequence, stage = "idle" => UNCHANGED <<sequence, request, loop>>,
           stage' \in {"model", "charged"} => stage' = stage /\ request' = request,
           loop'.asks = loop.asks, loop'.calls + loop'.pending =< MaxCalls,
           loop'.diverted = loop.diverted, stage' = "model" => loop'.tool = loop.tool
    PROVE  BrokerInv'
  <1>1. Claimed'
    BY DEF BrokerInv, Claimed
  <1>2. \A t \in TurnIds : Fits(asked[t])'
    BY DEF BrokerInv, Fits
  <1>3. Within(stage, spent, request, loop)'
    <2>1. loop' \in Loops
      BY DEF BrokerTypeOK, Loops
    <2>2. Charges(spent) \in Int /\ loop.asks \in Int
      BY DEF BrokerInv, BrokerTypeOK, Charges
    <2>3. Within(stage, spent, request, loop)
      BY DEF BrokerInv
    <2>4. harness = "loop" /\ ~loop'.diverted => Charges(spent) + Due(stage', loop') =< loop'.asks
      <3>1. CASE stage' = "model"
        BY <2>3, <3>1 DEF Within, Due
      <3>2. CASE stage' # "model"
        <4>1. harness = "loop" /\ ~loop.diverted => Charges(spent) =< loop.asks
          BY <2>2, <2>3 DEF Within, Due
        <4>2. Due(stage', loop') = 0
          BY <3>2 DEF Due
        <4> QED
          BY <2>2, <3>2, <4>1, <4>2
      <3> QED
        BY <3>1, <3>2
    <2> HIDE DEF Charges
    <2> QED
      BY <2>1, <2>3, <2>4 DEF Within, Charges, Due
  <1>4. (stage # "idle" => Paid(asked[turn], stage, spent, request, sequence))'
    <2> SUFFICES ASSUME stage' # "idle" PROVE Paid(asked[turn], stage', spent, request', sequence')
      OBVIOUS
    <2>0. turn \in TurnIds /\ Paid(asked[turn], stage, spent, request, sequence)
      BY DEF BrokerInv, Claimed
    <2>1. \A n \in DOMAIN asked[turn] : asked[turn][n].id =< sequence'
      <3>1. asked[turn] \in Asks /\ sequence \in Nat /\ sequence' \in Nat
        BY <2>0 DEF BrokerInv, BrokerTypeOK, Asks
      <3>2. \A n \in DOMAIN asked[turn] : asked[turn][n].id \in Nat
        BY <3>1, AskTypes
      <3> QED
        BY <2>0, <3>1, <3>2 DEF Paid
    <2>2. CASE stage' = "charged"
      BY <2>0, <2>1, <2>2 DEF Paid
    <2>3. CASE stage' # "charged"
      <3>1. Charges(spent) \in Int /\ spent.tokens \in Nat /\ Len(asked[turn]) \in Nat
        BY <2>0 DEF BrokerInv, BrokerTypeOK, Charges
      <3>2. Len(asked[turn]) =< Charges(spent)
        <4>1. CASE stage = "charged"
          BY <2>0, <3>1, <4>1 DEF Paid
        <4>2. CASE stage # "charged"
          BY <2>0, <3>1, <4>2 DEF Paid
        <4> QED
          BY <4>1, <4>2
      <3>3. TokensBelow(asked[turn], spent.tokens)
        <4>1. CASE stage = "charged"
          <5>1. request \in Nat /\ spent.tokens >= request
                /\ TokensBelow(asked[turn], spent.tokens - request)
            BY <2>0, <4>1 DEF Paid, BrokerInv, BrokerTypeOK
          <5>2. spent.tokens - request \in Nat /\ spent.tokens - request =< spent.tokens
            BY <3>1, <5>1
          <5> QED
            BY <3>1, <5>1, <5>2, TokensLoose
        <4>2. CASE stage # "charged"
          <5>1. spent.tokens - 0 = spent.tokens
            BY <3>1
          <5> QED
            BY <2>0, <4>2, <5>1 DEF Paid
        <4> QED
          BY <4>1, <4>2
      <3>4. spent.tokens - 0 = spent.tokens /\ spent.tokens >= 0 /\ Len(asked[turn]) + 0 = Len(asked[turn])
        BY <3>1
      <3> QED
        BY <2>1, <2>3, <3>2, <3>3, <3>4 DEF Paid
    <2> QED
      BY <2>2, <2>3
  <1> QED
    BY <1>1, <1>2, <1>3, <1>4 DEF BrokerInv

(* The loop of the harness, and what the types say of a state.              *)
LEMMA LoopShape ==
    ASSUME BrokerInv
    PROVE  /\ loop \in Loops
           /\ loop = [asks |-> loop.asks, calls |-> loop.calls, pending |-> loop.pending, over |-> loop.over,
                      tool |-> loop.tool, diverted |-> loop.diverted]
           /\ loop.asks \in 0..MaxAsks /\ loop.calls \in 0..MaxCalls /\ loop.pending \in 0..MaxCalls
           /\ loop.over \in BOOLEAN /\ loop.tool \in BOOLEAN /\ loop.diverted \in BOOLEAN
           /\ total \in Nat /\ loop.calls + loop.pending =< MaxCalls
           /\ spent \in Spent /\ stage \in Stages /\ request \in Nat /\ sequence \in Nat
           /\ profile \in BOOLEAN /\ bearer \in BOOLEAN /\ expired \in BOOLEAN
           /\ claims \subseteq TurnIds /\ turn \in TurnIds \cup {NoTurn}
           /\ asked \in [TurnIds -> Asks]
  BY DEF BrokerInv, BrokerTypeOK, Loops, Spent, Stages, Asks, Within

(* Types are kept by steps that leave most of the state alone.              *)
LEMMA BrokerTypes ==
    ASSUME BrokerInv, UNCHANGED given,
           profile' \in BOOLEAN, bearer' \in BOOLEAN, expired' \in BOOLEAN,
           claims' \subseteq TurnIds, turn' \in TurnIds \cup {NoTurn}, stage' \in Stages,
           spent' \in Spent, sequence' \in Nat, request' \in Nat, loop' \in Loops,
           asked' \in [TurnIds -> Asks]
    PROVE  BrokerTypeOK'
  BY DEF BrokerInv, BrokerTypeOK, given, Loops, Spent, Stages, Asks

(* The broker is lent and the cell runs; the control and the profile.       *)
LEMMA LendingKeeps ==
    ASSUME BrokerInv, Supplied \/ Launch \/ Expire \/ WithdrawProfile \/ Redirected \/ AskGet \/ AskPost
    PROVE  BrokerInv'
  <1>1. profile' \in BOOLEAN /\ bearer' \in BOOLEAN /\ expired' \in BOOLEAN
    BY LoopShape, Zenon DEF Supplied, Launch, Expire, WithdrawProfile, Redirected, AskGet, AskPost, Serving
  <1>2. /\ UNCHANGED <<route, get, harness, total, claims, turn, spent, asked, sequence, loop>>
        /\ stage' \in Stages /\ request' \in Nat
        /\ (stage = "idle") <=> (stage' = "idle")
        /\ stage = "idle" => request' = request
        /\ stage' \in {"model", "charged"} => stage' = stage /\ request' = request
    <2>1. CASE Supplied \/ Launch \/ Redirected
      BY <2>1, LoopShape DEF Supplied, Launch, Redirected, given, Stages
    <2>2. CASE Expire \/ WithdrawProfile
      BY <2>2, LoopShape DEF Expire, WithdrawProfile, given
    <2>3. CASE AskGet \/ AskPost
      BY <2>3 DEF AskGet, AskPost, Serving, given, Stages
    <2> QED
      BY <2>1, <2>2, <2>3
  <1>3. BrokerTypeOK'
    BY <1>1, <1>2, LoopShape, BrokerTypes DEF given
  <1>4. sequence' >= sequence /\ loop'.asks = loop.asks /\ loop'.calls + loop'.pending =< MaxCalls
        /\ loop'.diverted = loop.diverted /\ loop'.tool = loop.tool
    BY <1>2, LoopShape
  <1> QED
    BY <1>2, <1>3, <1>4, QuietBroker

(* Answers that change nothing but the guest.                               *)
LEMMA ToldKeeps ==
    ASSUME BrokerInv, NEW model \in BOOLEAN, Told(model), stage # "idle"
    PROVE  BrokerInv'
  <1>1. PICK o \in BOOLEAN : loop' = [loop EXCEPT !.over = o, !.tool = FALSE]
    <2>1. PICK o : o = (loop.over \/ (model /\ harness = "loop" /\ ~loop.tool))
      OBVIOUS
    <2>2. o \in BOOLEAN
      BY <2>1, Zenon
    <2>3. loop' = [loop EXCEPT !.over = o, !.tool = FALSE]
      BY <2>1 DEF Told
    <2> QED
      BY <2>2, <2>3
  <1>2. loop' \in Loops /\ loop'.asks = loop.asks /\ loop'.calls = loop.calls /\ loop'.pending = loop.pending
        /\ loop'.diverted = loop.diverted
    BY <1>1, LoopShape DEF Loops
  <1>3. /\ UNCHANGED <<route, get, harness, total, profile, claims, turn, spent, sequence, bearer, expired, asked>>
        /\ stage' = "running" /\ request' = 0
    BY DEF Told, Answer, given
  <1>4. BrokerTypeOK'
    BY <1>2, <1>3, LoopShape, BrokerTypes DEF given, Stages
  <1>5. sequence' >= sequence /\ loop'.calls + loop'.pending =< MaxCalls
    BY <1>2, <1>3, LoopShape
  <1> QED
    BY <1>2, <1>3, <1>4, <1>5, QuietBroker

(* The provider's answer and the tools of its batch.                        *)
LEMMA ToolsKeep ==
    ASSUME BrokerInv, (\E n \in 0..MaxCalls : ResponseCalls(n)) \/ ToolReturns
    PROVE  BrokerInv'
  <1>1. CASE ToolReturns
    <2>1. loop.pending > 0 /\ loop' = [loop EXCEPT !.pending = @ - 1, !.calls = @ + 1]
      BY <1>1 DEF ToolReturns
    <2>2. loop' = [asks |-> loop.asks, calls |-> loop.calls + 1, pending |-> loop.pending - 1,
                   over |-> loop.over, tool |-> loop.tool, diverted |-> loop.diverted]
      BY <2>1, LoopShape
    <2>3. loop.calls + 1 \in 0..MaxCalls /\ loop.pending - 1 \in 0..MaxCalls
      BY <2>1, LoopShape, BrokerBounds
    <2>4. loop' \in Loops /\ loop'.asks = loop.asks /\ loop'.calls + loop'.pending =< MaxCalls
          /\ loop'.diverted = loop.diverted
      BY <2>2, <2>3, LoopShape DEF Loops
    <2>5. /\ UNCHANGED <<route, get, harness, total, profile, claims, turn, stage, spent, sequence, bearer, expired,
                         request, asked>>
          /\ stage = "running"
      BY <1>1 DEF ToolReturns, given
    <2>6. BrokerTypeOK'
      BY <2>4, <2>5, LoopShape, BrokerTypes DEF given
    <2>7. sequence' >= sequence
      BY <2>5, LoopShape
    <2> QED
      BY <2>4, <2>5, <2>6, <2>7, QuietBroker
  <1>2. ASSUME NEW n \in 0..MaxCalls, ResponseCalls(n) PROVE BrokerInv'
    <2>1. /\ UNCHANGED <<route, get, harness, total, profile, claims, turn, spent, sequence, bearer, expired, asked>>
          /\ stage = "sent" /\ stage' = "running" /\ request' = 0
      BY <1>2 DEF ResponseCalls, Answer, given
    <2>2. loop' \in Loops /\ loop'.asks = loop.asks /\ loop'.calls + loop'.pending =< MaxCalls
          /\ loop'.diverted = loop.diverted
      <3>1. CASE harness = "loop" /\ ~loop.tool
        <4>1. PICK o \in BOOLEAN : o = (n = 0)
          BY Zenon
        <4>2. loop' = [asks |-> loop.asks, calls |-> loop.calls, pending |-> n, over |-> o,
                       tool |-> loop.tool, diverted |-> loop.diverted]
          BY <1>2, <3>1, <4>1, LoopShape DEF ResponseCalls
        <4>3. n =< MaxCalls - loop.calls
          BY <1>2, <3>1 DEF ResponseCalls
        <4> QED
          BY <4>1, <4>2, <4>3, LoopShape, BrokerBounds DEF Loops
      <3>2. CASE ~(harness = "loop" /\ ~loop.tool)
        <4>1. loop' = [loop EXCEPT !.tool = FALSE]
          BY <1>2, <3>2 DEF ResponseCalls
        <4> QED
          BY <4>1, LoopShape DEF Loops
      <3> QED
        BY <3>1, <3>2
    <2>3. BrokerTypeOK'
      BY <2>1, <2>2, LoopShape, BrokerTypes DEF given, Stages
    <2>4. sequence' >= sequence
      BY <2>1, LoopShape
    <2> QED
      BY <2>1, <2>2, <2>3, <2>4, QuietBroker
  <1> QED
    BY <1>1, <1>2

(* The turn is over: what it put on the wire remains within its grant.      *)
LEMMA DroppedKeeps ==
    ASSUME BrokerInv, Dropped
    PROVE  BrokerInv'
  <1>1. bearer' \in BOOLEAN /\ expired' \in BOOLEAN
    BY Zenon DEF Dropped
  <1>2. /\ UNCHANGED <<route, get, harness, total, profile, claims, asked>> /\ stage' = "idle" /\ turn' = NoTurn
        /\ spent' = Fresh /\ sequence' = 0 /\ request' = 0 /\ loop' = NewLoop
    BY DEF Dropped, given
  <1>3. BrokerTypeOK'
    BY <1>1, <1>2, LoopShape, FreshWithin, BrokerTypes DEF given, Stages
  <1>4. Within(stage, spent, request, loop)'
    <2>1. Within("idle", Fresh, 0, NewLoop)
      BY FreshWithin, LoopShape DEF Stages
    <2> QED
      BY <1>2, <2>1 DEF Within, Due
  <1>5. Claimed' /\ \A t \in TurnIds : Fits(asked[t])'
    BY <1>2 DEF BrokerInv, Claimed, Fits
  <1> QED
    BY <1>2, <1>3, <1>4, <1>5 DEF BrokerInv

(* A turn claims its broker once, so it begins with nothing asked.          *)
LEMMA ClaimKeeps ==
    ASSUME BrokerInv, NEW t \in TurnIds, ClaimTurn(t)
    PROVE  BrokerInv'
  <1>0. spent = Fresh /\ sequence = 0 /\ request = 0 /\ loop = NewLoop
    BY DEF ClaimTurn, BrokerInv, Claimed
  <1>1. /\ UNCHANGED <<route, get, harness, total, profile, spent, sequence, bearer, expired, request, loop, asked>>
        /\ claims' = claims \cup {t} /\ turn' = t /\ stage' = "claimed" /\ t \notin claims
    BY DEF ClaimTurn, given
  <1>2. BrokerTypeOK'
    BY <1>1, LoopShape, BrokerTypes DEF given, Stages
  <1>3. Within(stage, spent, request, loop)'
    <2>1. Within("claimed", Fresh, 0, NewLoop)
      BY FreshWithin, LoopShape DEF Stages
    <2> QED
      BY <1>0, <1>1, <2>1 DEF Within, Due
  <1>4. asked[t] = <<>>
    BY <1>1 DEF BrokerInv, Claimed
  <1>5. Paid(asked[turn], stage, spent, request, sequence)'
    <2>1. Paid(<<>>, "claimed", Fresh, 0, 0)
      BY FreshWithin, LoopShape DEF Stages
    <2> QED
      BY <1>0, <1>1, <1>4, <2>1 DEF Paid
  <1>6. Claimed' /\ \A x \in TurnIds : Fits(asked[x])'
    BY <1>1 DEF BrokerInv, Claimed, Fits
  <1> QED
    BY <1>2, <1>3, <1>5, <1>6 DEF BrokerInv

(* The harness, or any guest, asks for the model: nothing is paid yet.      *)
LEMMA AskModelKeeps ==
    ASSUME BrokerInv, NEW tokens \in 1..MaxOutput, AskModel(tokens) \/ ToolAsksModel(tokens)
    PROVE  BrokerInv'
  <1>1. /\ UNCHANGED <<route, get, harness, total, profile, claims, turn, spent, sequence, bearer, expired, asked>>
        /\ stage = "running" /\ stage' = "model" /\ request' = tokens
    BY DEF AskModel, ToolAsksModel, Serving, given
  <1>2. PICK d \in {0, 1}, w \in BOOLEAN :
           /\ loop' = [asks |-> loop.asks + d, calls |-> loop.calls, pending |-> loop.pending, over |-> loop.over,
                       tool |-> w, diverted |-> loop.diverted]
           /\ loop.asks + d \in 0..MaxAsks
           /\ harness = "loop" /\ ~w => d = 1 /\ tokens = MaxOutput
    <2>0. CASE ToolAsksModel(tokens)
      <3>1. loop' = [asks |-> loop.asks, calls |-> loop.calls, pending |-> loop.pending, over |-> loop.over,
                     tool |-> TRUE, diverted |-> loop.diverted]
        BY <2>0, LoopShape DEF ToolAsksModel
      <3>2. loop.asks + 0 = loop.asks /\ TRUE \in BOOLEAN
        BY LoopShape
      <3> QED
        BY <3>1, <3>2, LoopShape
    <2>1. CASE AskModel(tokens) /\ harness = "loop"
      <3>1. loop' = [loop EXCEPT !.asks = @ + 1] /\ loop.asks < MaxAsks /\ tokens = MaxOutput
        BY <2>1 DEF AskModel
      <3>2. loop' = [asks |-> loop.asks + 1, calls |-> loop.calls, pending |-> loop.pending, over |-> loop.over,
                     tool |-> loop.tool, diverted |-> loop.diverted]
        BY <3>1, LoopShape
      <3>3. loop.asks + 1 \in 0..MaxAsks
        BY <3>1, LoopShape, BrokerBounds
      <3> QED
        BY <3>1, <3>2, <3>3, LoopShape
    <2>2. CASE AskModel(tokens) /\ harness # "loop"
      <3>1. loop' = loop /\ loop.asks + 0 = loop.asks
        BY <2>2, LoopShape DEF AskModel
      <3> QED
        BY <2>2, <3>1, LoopShape
    <2> QED
      BY <2>0, <2>1, <2>2
  <1>3. loop' \in Loops /\ loop'.asks = loop.asks + d /\ loop'.tool = w /\ loop'.diverted = loop.diverted
        /\ loop'.calls + loop'.pending =< MaxCalls
    BY <1>2, LoopShape DEF Loops
  <1>4. BrokerTypeOK'
    BY <1>1, <1>3, LoopShape, BrokerTypes, BrokerBounds DEF given, Stages
  <1>5. Within(stage, spent, request, loop)'
    <2>1. Within(stage, spent, request, loop)
      BY DEF BrokerInv
    <2>2. Charges(spent) \in Int /\ loop.asks \in Int
      BY LoopShape DEF Charges, Spent
    <2>3. harness = "loop" /\ ~loop'.diverted => Charges(spent) + Due(stage', loop') =< loop'.asks
      <3>1. harness = "loop" /\ ~loop.diverted => Charges(spent) =< loop.asks
        BY <1>1, <2>1, <2>2 DEF Within, Due
      <3>2. CASE w
        <4>1. Due(stage', loop') = 0
          BY <3>2, <1>3 DEF Due
        <4> QED
          BY <3>1, <4>1, <1>2, <1>3, <2>2
      <3>3. CASE ~w
        <4>1. Due(stage', loop') = 1
          BY <3>3, <1>1, <1>3 DEF Due
        <4> QED
          BY <3>1, <3>3, <4>1, <1>2, <1>3, <2>2
      <3> QED
        BY <3>2, <3>3
    <2> QED
      BY <1>1, <1>2, <1>3, <2>1, <2>3 DEF Within, Charges, Due
  <1>6. Paid(asked[turn], stage, spent, request, sequence)'
    <2>1. Paid(asked[turn], stage, spent, request, sequence)
      BY <1>1 DEF BrokerInv
    <2> QED
      BY <1>1, <2>1 DEF Paid
  <1>7. Claimed' /\ \A t \in TurnIds : Fits(asked[t])'
    BY <1>1 DEF BrokerInv, Claimed, Fits
  <1> QED
    BY <1>4, <1>5, <1>6, <1>7 DEF BrokerInv

(* Reserve: the request is paid for before it may leave the host.           *)
LEMMA ChargeKeeps ==
    ASSUME BrokerInv, ChargeModel
    PROVE  BrokerInv'
  <1>1. /\ UNCHANGED <<route, get, harness, total, profile, claims, turn, sequence, bearer, expired, request, asked>>
        /\ stage = "model" /\ stage' = "charged" /\ Affordable(request)
        /\ spent' = [spent EXCEPT !.used = @ + 1, !.tokens = @ + request]
    BY DEF ChargeModel, given
  <1>2. Within(stage, spent, request, loop) /\ Paid(asked[turn], stage, spent, request, sequence)
    BY <1>1 DEF BrokerInv
  <1>3. spent.used \in Nat /\ spent.gets \in Nat /\ spent.posts \in Nat /\ spent.tokens \in Nat
        /\ request \in 1..MaxOutput /\ spent.gets =< spent.used
    BY <1>1, <1>2 DEF Within, Spent
  <1>4. spent' = [used |-> spent.used + 1, gets |-> spent.gets, posts |-> spent.posts,
                  tokens |-> spent.tokens + request]
    BY <1>1, LoopShape DEF Spent
  <1>5. spent' \in Spent /\ spent'.used = spent.used + 1 /\ spent'.gets = spent.gets
        /\ spent'.tokens = spent.tokens + request
    BY <1>3, <1>4 DEF Spent
  <1>6. PICK c \in Nat : c = Charges(spent) /\ Charges(spent') = c + 1
    BY <1>3, <1>5 DEF Charges
  <1>7. c < MaxRequests /\ spent.tokens + request =< total
    BY <1>1, <1>3, <1>6, BrokerBounds DEF Affordable, ModelUsed, Charges
  <1>8. spent.tokens + request =< (c + 1) * MaxOutput
    <2>1. (c + 1) * MaxOutput = c * MaxOutput + MaxOutput /\ c * MaxOutput \in Nat
      BY Monotone, BrokerBounds
    <2>2. spent.tokens =< c * MaxOutput
      BY <1>2, <1>6 DEF Within
    <2> QED
      BY <1>3, <2>1, <2>2, BrokerBounds
  <1>0. PICK v \in BOOLEAN : /\ v <=> loop.diverted \/ loop.tool
                             /\ loop' = [asks |-> loop.asks, calls |-> loop.calls, pending |-> loop.pending,
                                         over |-> loop.over, tool |-> loop.tool, diverted |-> v]
    <2>1. PICK v : v = (loop.diverted \/ loop.tool)
      OBVIOUS
    <2>2. v \in BOOLEAN
      BY <2>1, Zenon
    <2>3. loop' = [loop EXCEPT !.diverted = v]
      BY <2>1 DEF ChargeModel
    <2>4. loop' = [asks |-> loop.asks, calls |-> loop.calls, pending |-> loop.pending,
                   over |-> loop.over, tool |-> loop.tool, diverted |-> v]
      BY <2>2, <2>3, LoopShape
    <2> QED
      BY <2>1, <2>2, <2>4
  <1>9a. loop' \in Loops /\ loop'.asks = loop.asks /\ loop'.calls + loop'.pending =< MaxCalls
         /\ loop'.diverted = v
    BY <1>0, LoopShape DEF Loops
  <1>9. BrokerTypeOK'
    BY <1>1, <1>5, <1>9a, LoopShape, BrokerTypes DEF given, Stages
  <1>10. harness = "loop" /\ ~v => c + 1 =< loop.asks
    BY <1>0, <1>1, <1>2, <1>6 DEF Within, Due
  <1>11. Within(stage, spent, request, loop)'
    <2>1. Charges(spent') =< MaxRequests /\ spent'.tokens =< total
          /\ spent'.tokens =< Charges(spent') * MaxOutput /\ spent'.gets =< spent'.used
      BY <1>3, <1>5, <1>6, <1>7, <1>8, BrokerBounds
    <2>2. harness = "loop" /\ ~v => Charges(spent') + Due(stage', loop') =< loop'.asks
      <3>1. Due(stage', loop') = 0
        BY <1>1 DEF Due
      <3> QED
        BY <1>6, <1>9a, <1>10, <3>1
    <2> QED
      BY <1>1, <1>2, <1>5, <1>9a, <2>1, <2>2 DEF Within, Charges, Due
  <1>12. turn \in TurnIds /\ asked[turn] \in Asks /\ Len(asked[turn]) \in Nat
    <2>1. turn \in TurnIds
      BY <1>1 DEF BrokerInv, Claimed
    <2> QED
      BY <2>1, LoopShape, AskTypes
  <1>13. Paid(asked[turn], stage, spent, request, sequence)'
    <2>1. Len(asked[turn]) =< c /\ TokensBelow(asked[turn], spent.tokens)
          /\ \A n \in DOMAIN asked[turn] : asked[turn][n].id =< sequence
      <3>1. spent.tokens - 0 = spent.tokens /\ Len(asked[turn]) + 0 = Len(asked[turn])
        BY <1>3, <1>12
      <3> QED
        BY <1>1, <1>2, <1>6, <3>1 DEF Paid
    <2>2. Len(asked[turn]) + 1 =< Charges(spent') /\ spent'.tokens >= request
          /\ spent'.tokens - request = spent.tokens
      BY <1>3, <1>5, <1>6, <1>12, <2>1
    <2> QED
      BY <1>1, <2>1, <2>2 DEF Paid
  <1>14. Claimed' /\ \A t \in TurnIds : Fits(asked[t])'
    BY <1>1 DEF BrokerInv, Claimed, Fits
  <1> QED
    BY <1>9, <1>11, <1>13, <1>14 DEF BrokerInv

(* A charged request is sent, under a number of its own when the relay      *)
(* sends it.                                                                *)
LEMMA SentKeeps ==
    ASSUME BrokerInv, stage = "charged", stage' = "sent", NEW id \in Nat, sequence' \in Nat,
           UNCHANGED <<route, get, harness, total, profile, claims, turn, spent, bearer, expired, request, loop>>,
           asked' = [asked EXCEPT ![turn] = Append(@, [id |-> id, tokens |-> request])],
           sequence' >= sequence, id =< sequence', route = "scoped" => id > sequence
    PROVE  BrokerInv'
  <1>1. Within(stage, spent, request, loop) /\ Paid(asked[turn], stage, spent, request, sequence)
        /\ turn \in TurnIds /\ turn \in claims
    BY DEF BrokerInv, Claimed
  <1>2. asked \in [TurnIds -> Asks] /\ request \in Nat /\ sequence \in Nat
    BY LoopShape
  <1>3. PICK e : e = [id |-> id, tokens |-> request]
    OBVIOUS
  <1>4. e \in [id : Nat, tokens : Nat] /\ e.id = id /\ e.tokens = request
    BY <1>2, <1>3
  <1>5. PICK old \in Asks : old = asked[turn]
    BY <1>1, <1>2
  <1>6. PICK new \in Asks : new = Append(old, e)
    <2>1. Append(old, e) \in Asks
      BY <1>4 DEF Asks
    <2> QED
      BY <2>1, Zenon
  <1>7. /\ asked' \in [TurnIds -> Asks] /\ asked'[turn] = new
        /\ \A t \in TurnIds : t # turn => asked'[t] = asked[t]
    BY <1>1, <1>2, <1>3, <1>5, <1>6
  <1>8. /\ Len(old) \in Nat /\ DOMAIN old = 1..Len(old)
        /\ Len(new) = Len(old) + 1 /\ DOMAIN new = 1..(Len(old) + 1)
        /\ new[Len(old) + 1] = e /\ \A n \in 1..Len(old) : new[n] = old[n]
        /\ \A n \in 1..Len(old) : old[n].id \in Nat
    <2>1. \A n \in DOMAIN old : old[n].id \in Nat
      BY AskTypes
    <2> QED
      BY <1>4, <1>6, <2>1 DEF Asks
  <1>9. BrokerTypeOK'
    BY <1>7, LoopShape, BrokerTypes DEF given, Stages
  <1>10. PICK b \in Nat : b = spent.tokens - request /\ spent.tokens = b + request
    <2>1. spent.tokens \in Nat /\ spent.tokens >= request
      BY <1>1, LoopShape DEF Paid, Spent
    <2> QED
      BY <1>2, <2>1
  <1>11. TokensBelow(new, spent.tokens)
    <2>1. TokensBelow(old, b)
      BY <1>1, <1>5, <1>10 DEF Paid
    <2> QED
      BY <1>4, <1>6, <1>10, <2>1, TokensAppend
  <1>12. Len(new) =< Charges(spent)
    BY <1>1, <1>5, <1>8 DEF Paid
  <1>13. \A n \in DOMAIN new : new[n].id =< sequence'
    <2>1. \A n \in 1..Len(old) : old[n].id =< sequence
      BY <1>1, <1>5, <1>8 DEF Paid
    <2>2. ASSUME NEW n \in DOMAIN new PROVE new[n].id =< sequence'
      <3>1. CASE n = Len(old) + 1
        BY <1>4, <1>8, <3>1
      <3>2. CASE n \in 1..Len(old)
        BY <1>2, <1>8, <2>1, <3>2
      <3> QED
        BY <1>8, <3>1, <3>2
    <2> QED
      BY <2>2
  <1>14. Fits(new)
    <2>1. Len(new) =< MaxRequests
      <3>1. Charges(spent) =< MaxRequests /\ Charges(spent) \in Int
        BY <1>1, LoopShape DEF Within, Charges, Spent
      <3> QED
        BY <1>8, <1>12, <3>1, BrokerBounds
    <2>2. TokensBelow(new, total)
      <3>1. spent.tokens =< total /\ spent.tokens \in Nat /\ total \in Nat
        BY <1>1, LoopShape DEF Within, Spent
      <3> QED
        BY <1>11, <3>1, TokensLoose, BrokerBounds
    <2>3. ASSUME route = "scoped", NEW m \in DOMAIN new, NEW n \in DOMAIN new, new[m].id = new[n].id
          PROVE  m = n
      <3>0. id > sequence
        BY <2>3
      <3>1. \A k \in 1..Len(old) : new[k].id =< sequence /\ new[k].id \in Nat
        BY <1>1, <1>5, <1>8 DEF Paid
      <3>2. CASE m \in 1..Len(old) /\ n \in 1..Len(old)
        <4>1. Fits(old)
          BY <1>1, <1>5 DEF BrokerInv
        <4> QED
          BY <1>8, <2>3, <3>2, <4>1 DEF Fits
      <3>3. CASE m = Len(old) + 1 /\ n \in 1..Len(old)
        BY <1>2, <1>4, <1>8, <2>3, <3>0, <3>1, <3>3
      <3>4. CASE n = Len(old) + 1 /\ m \in 1..Len(old)
        BY <1>2, <1>4, <1>8, <2>3, <3>0, <3>1, <3>4
      <3> QED
        BY <1>8, <3>2, <3>3, <3>4
    <2> QED
      BY <2>1, <2>2, <2>3 DEF Fits
  <1>15. \A t \in TurnIds : Fits(asked[t])'
    <2>1. \A t \in TurnIds : Fits(asked'[t])
      BY <1>7, <1>14 DEF BrokerInv
    <2> QED
      BY <2>1 DEF Fits
  <1>16. Claimed'
    BY <1>1, <1>7 DEF BrokerInv, Claimed
  <1>17. Within(stage, spent, request, loop)'
    <2>1. harness = "loop" /\ ~loop.diverted => Charges(spent) + 0 =< loop.asks
      BY <1>1 DEF Within, Due
    <2> QED
      BY <1>1, <2>1 DEF Within, Charges, Due
  <1>18. Paid(asked[turn], stage, spent, request, sequence)'
    <2>1. Len(new) + 0 = Len(new) /\ spent.tokens - 0 = spent.tokens /\ spent.tokens >= 0
      BY <1>2, <1>8, <1>10
    <2> QED
      BY <1>7, <1>11, <1>12, <1>13, <2>1 DEF Paid, Charges
  <1> QED
    BY <1>9, <1>15, <1>16, <1>17, <1>18 DEF BrokerInv

(* Relay and direct transport, and a relay whose context ended.             *)
LEMMA TransportKeeps ==
    ASSUME BrokerInv, InvokeRelay \/ SendDirect
    PROVE  BrokerInv'
  <1>1. CASE SendDirect
    <2>1. 0 \in Nat /\ sequence' \in Nat /\ sequence' >= sequence /\ 0 =< sequence'
      BY <1>1, LoopShape DEF SendDirect
    <2>2. /\ stage = "charged" /\ stage' = "sent" /\ route # "scoped"
          /\ UNCHANGED <<route, get, harness, total, profile, claims, turn, spent, bearer, expired, request, loop>>
          /\ asked' = [asked EXCEPT ![turn] = Append(@, [id |-> 0, tokens |-> request])]
      BY <1>1 DEF SendDirect, given
    <2> QED
      BY <2>1, <2>2, SentKeeps
  <1>2. CASE InvokeRelay /\ ~expired
    <2>1. sequence' = sequence + 1 /\ sequence \in Nat
      BY <1>2, LoopShape DEF InvokeRelay
    <2>2. sequence' \in Nat /\ sequence' >= sequence /\ sequence' =< sequence' /\ sequence' > sequence
      BY <2>1
    <2>3. /\ stage = "charged" /\ stage' = "sent"
          /\ UNCHANGED <<route, get, harness, total, profile, claims, turn, spent, bearer, expired, request, loop>>
          /\ asked' = [asked EXCEPT ![turn] = Append(@, [id |-> sequence', tokens |-> request])]
      BY <1>2 DEF InvokeRelay, given
    <2> QED
      BY <2>2, <2>3, SentKeeps
  <1>3. CASE InvokeRelay /\ expired
    <2>1. /\ UNCHANGED <<route, get, harness, total, profile, claims, turn, spent, expired, asked>>
          /\ sequence' = sequence + 1 /\ stage = "charged" /\ stage' = "running" /\ request' = 0
      BY <1>3 DEF InvokeRelay, Answer, given
    <2>2. bearer' \in BOOLEAN
      BY <1>3, Zenon DEF InvokeRelay
    <2>3. PICK o \in BOOLEAN : o = (loop.over \/ (harness = "loop" /\ ~loop.tool))
      BY Zenon
    <2>4. loop' = [asks |-> loop.asks, calls |-> loop.calls, pending |-> loop.pending, over |-> o,
                   tool |-> FALSE, diverted |-> loop.diverted]
      BY <1>3, <2>3, LoopShape DEF InvokeRelay
    <2>5. loop' \in Loops /\ loop'.asks = loop.asks /\ loop'.calls + loop'.pending =< MaxCalls
          /\ loop'.diverted = loop.diverted
      BY <2>3, <2>4, LoopShape DEF Loops
    <2>6. sequence' \in Nat /\ sequence' >= sequence
      BY <2>1, LoopShape
    <2>7. BrokerTypeOK'
      BY <2>1, <2>2, <2>5, <2>6, LoopShape, BrokerTypes DEF given, Stages
    <2> QED
      BY <2>1, <2>5, <2>6, <2>7, QuietBroker
  <1> QED
    BY <1>1, <1>2, <1>3

(* A hop of a fetch is paid from the GETs, a post from the posts: what the  *)
(* model was charged stays.                                                 *)
LEMMA WebKeeps ==
    ASSUME BrokerInv, Hop \/ PostPlain
    PROVE  BrokerInv'
  <1>1. PICK g \in {0, 1}, p \in {0, 1} :
           /\ spent' = [used |-> spent.used + g, gets |-> spent.gets + g, posts |-> spent.posts + p,
                        tokens |-> spent.tokens]
           /\ g = 1 => get # "none" \/ route = "oneshot"
    <2>1. CASE Hop
      <3>1. spent' = [spent EXCEPT !.used = @ + 1, !.gets = @ + 1] /\ GetAllowed
        BY <2>1 DEF Hop
      <3>2. spent' = [used |-> spent.used + 1, gets |-> spent.gets + 1, posts |-> spent.posts + 0,
                      tokens |-> spent.tokens]
        <4>1. spent.posts + 0 = spent.posts /\ spent = [used |-> spent.used, gets |-> spent.gets,
                                                       posts |-> spent.posts, tokens |-> spent.tokens]
          BY LoopShape DEF Spent
        <4>2. spent' = [used |-> spent.used + 1, gets |-> spent.gets + 1, posts |-> spent.posts,
                        tokens |-> spent.tokens]
          BY <3>1, <4>1
        <4> QED
          BY <4>1, <4>2
      <3>3. get # "none" \/ route = "oneshot"
        BY <3>1 DEF GetAllowed
      <3> QED
        BY <3>2, <3>3
    <2>2. CASE PostPlain
      <3>1. spent' = [used |-> spent.used + 0, gets |-> spent.gets + 0, posts |-> spent.posts + 1,
                      tokens |-> spent.tokens]
        BY <2>2, LoopShape DEF PostPlain, Spent
      <3> QED
        BY <3>1
    <2> QED
      BY <2>1, <2>2
  <1>2. /\ UNCHANGED <<route, get, harness, total, profile, claims, turn, sequence, bearer, expired, loop, asked>>
        /\ stage \in {"hop", "post"} /\ stage' \in {"hopping", "running"} /\ request' \in Nat
    BY LoopShape DEF Hop, PostPlain, Answer, given
  <1>3. spent.used \in Nat /\ spent.gets \in Nat /\ spent.posts \in Nat /\ spent.tokens \in Nat
    BY LoopShape DEF Spent
  <1>4. spent' \in Spent /\ spent'.used = spent.used + g /\ spent'.gets = spent.gets + g
        /\ spent'.tokens = spent.tokens
    BY <1>1, <1>3 DEF Spent
  <1>5. Charges(spent') = Charges(spent) /\ Charges(spent) \in Int
    BY <1>3, <1>4 DEF Charges
  <1>6. Within(stage, spent, request, loop) /\ Paid(asked[turn], stage, spent, request, sequence)
    BY <1>2 DEF BrokerInv
  <1>7. BrokerTypeOK'
    BY <1>2, <1>4, LoopShape, BrokerTypes DEF given, Stages
  <1>8. Within(stage, spent, request, loop)'
    <2>1. spent'.gets =< spent'.used
      BY <1>3, <1>4, <1>6 DEF Within
    <2>2. get = "none" /\ route # "oneshot" => spent'.gets = 0
      BY <1>1, <1>4, <1>6 DEF Within
    <2> HIDE DEF Charges
    <2> QED
      BY <1>2, <1>4, <1>5, <1>6, <2>1, <2>2 DEF Within, Due
  <1>9. Paid(asked[turn], stage, spent, request, sequence)'
    BY <1>2, <1>4, <1>5, <1>6 DEF Paid
  <1>10. Claimed' /\ \A t \in TurnIds : Fits(asked[t])'
    BY <1>2 DEF BrokerInv, Claimed, Fits
  <1> QED
    BY <1>7, <1>8, <1>9, <1>10 DEF BrokerInv

(* The inductive invariant of the broker of a turn.                         *)
THEOREM BrokerInvariant == BrokerSpec => []BrokerInv
  <1>1. BrokerInv /\ [BrokerNext]_brokerVars => BrokerInv'
    <2> SUFFICES ASSUME BrokerInv, [BrokerNext]_brokerVars PROVE BrokerInv'
      OBVIOUS
    <2>1. CASE UNCHANGED brokerVars
      <3>1. UNCHANGED <<route, get, harness, total, profile, claims, turn, stage, spent, sequence, bearer,
                        expired, request, loop, asked>>
        BY <2>1 DEF brokerVars
      <3>2. BrokerTypeOK'
        BY <3>1 DEF BrokerInv, BrokerTypeOK
      <3>3. sequence' >= sequence /\ loop'.calls + loop'.pending =< MaxCalls
        BY <3>1, LoopShape
      <3> QED
        BY <3>1, <3>2, <3>3, QuietBroker
    <2>2. ASSUME NEW t \in TurnIds, ClaimTurn(t) PROVE BrokerInv'
      BY <2>2, ClaimKeeps
    <2>3. CASE NotSupplied \/ NotLaunched \/ EndTurn
      BY <2>3, DroppedKeeps DEF NotSupplied, NotLaunched, EndTurn
    <2>4. CASE Supplied \/ Launch \/ Expire \/ WithdrawProfile \/ Redirected \/ AskGet \/ AskPost
      BY <2>4, LendingKeeps
    <2>5. ASSUME NEW tokens \in 1..MaxOutput, AskModel(tokens) \/ ToolAsksModel(tokens) PROVE BrokerInv'
      BY <2>5, AskModelKeeps
    <2>6. CASE ChargeModel
      BY <2>6, ChargeKeeps
    <2>7. CASE RefuseModel \/ NotSent \/ ResponseLost \/ GetEnds \/ RefusePost
      <3>1. PICK m \in BOOLEAN : Told(m)
        BY <2>7 DEF RefuseModel, NotSent, ResponseLost, GetEnds, RefusePost
      <3>2. stage # "idle"
        BY <2>7 DEF RefuseModel, NotSent, ResponseLost, GetEnds, RefusePost
      <3> QED
        BY <3>1, <3>2, ToldKeeps
    <2>8. CASE InvokeRelay \/ SendDirect
      BY <2>8, TransportKeeps
    <2>9. CASE (\E n \in 0..MaxCalls : ResponseCalls(n)) \/ ToolReturns
      BY <2>9, ToolsKeep
    <2>10. CASE Hop \/ PostPlain
      BY <2>10, WebKeeps
    <2> QED
      BY <2>1, <2>2, <2>3, <2>4, <2>5, <2>6, <2>7, <2>8, <2>9, <2>10 DEF BrokerNext
  <1> QED
    BY <1>1, BrokerInitial, PTL DEF BrokerSpec

(* Type correctness of the broker, the relay and the loop of the harness.   *)
THEOREM BrokerTyped == BrokerSpec => []BrokerTypeOK
  <1>1. BrokerInv => BrokerTypeOK
    BY DEF BrokerInv
  <1> QED
    BY <1>1, BrokerInvariant, PTL

(* For every grant: what a turn put on the wire fits its reservation and no *)
(* request id is used twice; and for every grant that funds the loop, until *)
(* a tool posts to the URL of the model, a worker that follows the harness  *)
(* is not refused for the budget (egress.rs, egress_post.rs,                *)
(* tenancy_model_relay.rs, json_harness.rs).                                *)
THEOREM BrokerBudgets == BrokerSpec => []BudgetsKept
  <1>1. BrokerInv => BudgetsKept
    <2> SUFFICES ASSUME BrokerInv PROVE BudgetsKept
      OBVIOUS
    <2>1. AskedWithinBudget
      BY TokensIsTotal DEF BrokerInv, Fits, AskedWithinBudget
    <2>2. NeverStarved
      <3> SUFFICES ASSUME stage = "model", harness = "loop", route # "oneshot", Funded,
                          ~loop.tool, ~loop.diverted
                   PROVE  Affordable(request)
        BY DEF NeverStarved
      <3>0. Due(stage, loop) = 1
        BY DEF Due
      <3>1. Within(stage, spent, request, loop)
        BY DEF BrokerInv
      <3>2. spent.used \in Nat /\ spent.gets \in Nat /\ spent.tokens \in Nat /\ spent.gets =< spent.used
            /\ request = MaxOutput /\ (get = "none" => spent.gets = 0)
        BY <3>1 DEF Within, Spent
      <3>3. PICK c \in Nat : c = Charges(spent) /\ c + 1 =< MaxAsks
        <4>1. Charges(spent) \in Nat
          BY <3>2 DEF Charges
        <4>2. Charges(spent) + 1 =< loop.asks /\ loop.asks =< MaxAsks /\ loop.asks \in Nat
          BY <3>0, <3>1, LoopShape, BrokerBounds DEF Within
        <4>3. Charges(spent) + 1 =< MaxAsks
          BY <4>1, <4>2, BrokerBounds
        <4> QED
          BY <4>1, <4>3
      <3>4. ModelUsed = c
        BY <3>2, <3>3 DEF ModelUsed, Charges
      <3>5. c * MaxOutput + MaxOutput =< total
        <4>1. (c + 1) * MaxOutput =< MaxAsks * MaxOutput /\ (c + 1) * MaxOutput \in Nat
          BY <3>3, Monotone, BrokerBounds
        <4>2. (c + 1) * MaxOutput = c * MaxOutput + MaxOutput
          BY <3>3, Monotone, BrokerBounds
        <4>3. MaxAsks * MaxOutput \in Nat
          BY Monotone, BrokerBounds
        <4> QED
          BY <4>1, <4>2, <4>3, BrokerBounds, LoopShape DEF Funded
      <3>6. spent.tokens =< c * MaxOutput /\ c * MaxOutput \in Nat
        BY <3>1, <3>3, Monotone, BrokerBounds DEF Within
      <3>7. spent.tokens + request =< total
        BY <3>2, <3>5, <3>6, BrokerBounds, LoopShape
      <3>8. c < MaxRequests
        BY <3>3, BrokerBounds
      <3> QED
        BY <3>4, <3>7, <3>8 DEF Affordable
    <2> QED
      BY <2>1, <2>2 DEF BudgetsKept
  <1> QED
    BY <1>1, BrokerInvariant, PTL

-------------------------------------------------------------------------------
(* The run data of a parent (Workspace).                                    *)

(* The sums over the sets of files of fs: Stored is the last of them.       *)
Pick(S) == CHOOSE f \in S : TRUE
IsSum(fs, Z) ==
    Z = [S \in SUBSET DOMAIN fs |-> IF S = {} THEN 0 ELSE fs[Pick(S)] + Z[S \ {Pick(S)}]]

(* Sets of at most n files, and the sums over them.                         *)
Small(fs, n) == {S \in SUBSET DOMAIN fs : Cardinality(S) =< n}
SumsTo(fs, n, F) ==
    F = [S \in Small(fs, n) |-> IF S = {} THEN 0 ELSE fs[Pick(S)] + F[S \ {Pick(S)}]]

(* Sets of files are finite, and one without an element is smaller.         *)
LEMMA Smaller ==
    ASSUME NEW D, IsFiniteSet(D), NEW S \in SUBSET D
    PROVE  /\ IsFiniteSet(S) /\ Cardinality(S) \in Nat /\ Cardinality(S) =< Cardinality(D)
           /\ Cardinality(S) = 0 <=> S = {}
           /\ \A x \in S : S \ {x} \in SUBSET D /\ Cardinality(S \ {x}) = Cardinality(S) - 1
  <1>1. IsFiniteSet(S) /\ Cardinality(S) =< Cardinality(D)
    BY FS_Subset
  <1>2. Cardinality(S) \in Nat /\ (Cardinality(S) = 0 <=> S = {})
    BY <1>1, FS_CardinalityType, FS_EmptySet
  <1>3. \A x \in S : Cardinality(S \ {x}) = Cardinality(S) - 1
    BY <1>1, FS_RemoveElement
  <1> QED
    BY <1>1, <1>2, <1>3

(* A set that is not empty has a first file.                                *)
LEMMA Picked == ASSUME NEW S, S # {} PROVE Pick(S) \in S
  BY DEF Pick

(* The sums exist, whatever the number of files.                            *)
LEMMA SumExists ==
    ASSUME NEW fs, IsFiniteSet(DOMAIN fs)
    PROVE  \E Z : IsSum(fs, Z)
  <1> DEFINE D == DOMAIN fs
             N == Cardinality(D)
             Bad == {n \in 0..N : ~\E F : SumsTo(fs, n, F)}
  <1>1. N \in Nat
    BY FS_CardinalityType
  <1>2. Bad = {}
    <2> SUFFICES ASSUME Bad # {} PROVE FALSE
      OBVIOUS
    <2>1. Bad \subseteq Nat
      BY <1>1
    <2>2. PICK x \in Bad : \A y \in Bad : x =< y
      <3> HIDE DEF Bad
      <3> QED
        BY <2>1, LeastOf
    <2>3. x \in 0..N /\ ~\E F : SumsTo(fs, x, F)
      OBVIOUS
    <2>4. x # 0
      <3>1. \A S \in Small(fs, 0) : S = {}
        BY Smaller DEF Small
      <3>2. SumsTo(fs, 0, [S \in Small(fs, 0) |-> 0])
        BY <3>1 DEF SumsTo
      <3> QED
        BY <2>3, <3>2
    <2>5. x - 1 \in 0..N /\ x - 1 \notin Bad
      BY <1>1, <2>2, <2>3, <2>4
    <2>6. PICK F : SumsTo(fs, x - 1, F)
      BY <2>5
    <2> DEFINE G == [S \in Small(fs, x) |-> IF S = {} THEN 0 ELSE fs[Pick(S)] + F[S \ {Pick(S)}]]
    <2>7. \A S \in Small(fs, x - 1) : S \in Small(fs, x) /\ G[S] = F[S]
      <3> TAKE S \in Small(fs, x - 1)
      <3>1. S \in Small(fs, x)
        BY <1>1, <2>3, Smaller DEF Small
      <3>2. F[S] = IF S = {} THEN 0 ELSE fs[Pick(S)] + F[S \ {Pick(S)}]
        BY <2>6 DEF SumsTo
      <3> QED
        BY <3>1, <3>2
    <2>8. \A S \in Small(fs, x) : S # {} => S \ {Pick(S)} \in Small(fs, x - 1)
      BY <1>1, <2>3, Smaller, Picked DEF Small
    <2>9. \A S \in Small(fs, x) : S # {} => G[S \ {Pick(S)}] = F[S \ {Pick(S)}]
      BY <2>7, <2>8
    <2>10. SumsTo(fs, x, G)
      <3>1. G = [S \in Small(fs, x) |-> IF S = {} THEN 0 ELSE fs[Pick(S)] + G[S \ {Pick(S)}]]
        BY <2>9
      <3> HIDE DEF G
      <3> QED
        BY <3>1 DEF SumsTo
    <2> HIDE DEF G
    <2> QED
      BY <2>3, <2>10
  <1>3. PICK F : SumsTo(fs, N, F)
    BY <1>1, <1>2
  <1>4. Small(fs, N) = SUBSET DOMAIN fs
    BY Smaller DEF Small
  <1> QED
    BY <1>3, <1>4 DEF SumsTo, IsSum

(* What a sum is, of no files and of some.                                  *)
LEMMA SumIs ==
    ASSUME NEW fs, NEW Z, IsSum(fs, Z), NEW S \in SUBSET DOMAIN fs
    PROVE  Z[S] = IF S = {} THEN 0 ELSE fs[Pick(S)] + Z[S \ {Pick(S)}]
  BY DEF IsSum

(* Stored is the sum over all files.                                        *)
LEMMA StoredIs ==
    ASSUME NEW fs, IsFiniteSet(DOMAIN fs)
    PROVE  \E Z : IsSum(fs, Z) /\ Stored(fs) = Z[DOMAIN fs]
  <1> DEFINE Z == CHOOSE Z : IsSum(fs, Z)
  <1>1. IsSum(fs, Z)
    BY SumExists
  <1>2. Stored(fs) = Z[DOMAIN fs]
    BY DEF Stored, IsSum, Pick
  <1> HIDE DEF Z
  <1> QED
    BY <1>1, <1>2

(* A sum of lengths is a length.                                            *)
LEMMA SumNat ==
    ASSUME NEW fs, IsFiniteSet(DOMAIN fs), fs \in [DOMAIN fs -> Nat], NEW Z, IsSum(fs, Z)
    PROVE  \A S \in SUBSET DOMAIN fs : Z[S] \in Nat
  <1> DEFINE Bad == {Cardinality(S) : S \in {T \in SUBSET DOMAIN fs : Z[T] \notin Nat}}
  <1> SUFFICES ASSUME NEW S0 \in SUBSET DOMAIN fs, Z[S0] \notin Nat PROVE FALSE
    OBVIOUS
  <1>1. Bad \subseteq Nat /\ Bad # {}
    BY Smaller
  <1>2. PICK x \in Bad : \A y \in Bad : x =< y
    <2> HIDE DEF Bad
    <2> QED
      BY <1>1, LeastOf
  <1>3. PICK S \in SUBSET DOMAIN fs : Z[S] \notin Nat /\ x = Cardinality(S)
    OBVIOUS
  <1>4. S # {} /\ Z[S] = fs[Pick(S)] + Z[S \ {Pick(S)}]
    BY <1>3, SumIs
  <1>5. Pick(S) \in S /\ fs[Pick(S)] \in Nat
    BY <1>4, Picked
  <1>6. S \ {Pick(S)} \in SUBSET DOMAIN fs /\ ~(x =< Cardinality(S \ {Pick(S)}))
    BY <1>3, <1>5, Smaller
  <1>7. Z[S \ {Pick(S)}] \in Nat
    BY <1>2, <1>6
  <1> QED
    BY <1>3, <1>4, <1>5, <1>7

(* Any file can be taken out of a sum first.                                *)
Splits(fs, Z) == \A S \in SUBSET DOMAIN fs : \A f \in S : Z[S] = fs[f] + Z[S \ {f}]

(* A sum is one of its lengths and the sum of the others, whichever it is.  *)
LEMMA SumRemove ==
    ASSUME NEW fs, IsFiniteSet(DOMAIN fs), fs \in [DOMAIN fs -> Nat], NEW Z, IsSum(fs, Z)
    PROVE  Splits(fs, Z)
  <1> DEFINE Fails(S) == \E f \in S : Z[S] # fs[f] + Z[S \ {f}]
             Bad == {Cardinality(S) : S \in {T \in SUBSET DOMAIN fs : Fails(T)}}
  <1> SUFFICES ASSUME NEW S0 \in SUBSET DOMAIN fs, Fails(S0) PROVE FALSE
    BY DEF Splits
  <1>1. Bad \subseteq Nat /\ Bad # {}
    <2> HIDE DEF Fails
    <2> QED
      BY Smaller
  <1>2. PICK x \in Bad : \A y \in Bad : x =< y
    <2> HIDE DEF Bad
    <2> QED
      BY <1>1, LeastOf
  <1>3. PICK S \in SUBSET DOMAIN fs : Fails(S) /\ x = Cardinality(S)
    <2> HIDE DEF Fails
    <2> QED
      OBVIOUS
  <1>4. \A T \in SUBSET DOMAIN fs : Cardinality(T) < x => ~Fails(T)
    <2> HIDE DEF Fails
    <2>1. \A T \in SUBSET DOMAIN fs : Fails(T) => x =< Cardinality(T)
      BY <1>2
    <2> QED
      BY <1>1, <1>3, <2>1, Smaller
  <1>5. PICK f \in S : Z[S] # fs[f] + Z[S \ {f}]
    BY <1>3
  <1> DEFINE p == Pick(S)
  <1>6. p \in S /\ Z[S] = fs[p] + Z[S \ {p}]
    BY <1>5, SumIs, Picked
  <1> HIDE DEF p
  <1>7. f # p
    BY <1>5, <1>6
  <1>8. /\ S \ {p} \in SUBSET DOMAIN fs /\ Cardinality(S \ {p}) < x
        /\ S \ {f} \in SUBSET DOMAIN fs /\ Cardinality(S \ {f}) < x
    BY <1>3, <1>5, <1>6, Smaller
  <1>9. Z[S \ {p}] = fs[f] + Z[(S \ {p}) \ {f}] /\ Z[S \ {f}] = fs[p] + Z[(S \ {f}) \ {p}]
    BY <1>4, <1>5, <1>6, <1>7, <1>8
  <1>10. (S \ {p}) \ {f} = (S \ {f}) \ {p} /\ (S \ {p}) \ {f} \in SUBSET DOMAIN fs
    OBVIOUS
  <1>11. fs[f] \in Nat /\ fs[p] \in Nat /\ Z[(S \ {p}) \ {f}] \in Nat
    BY <1>5, <1>6, <1>10, SumNat
  <1>12. PICK z : z = Z[(S \ {p}) \ {f}]
    OBVIOUS
  <1>13. z \in Nat /\ Z[S \ {p}] = fs[f] + z /\ Z[S \ {f}] = fs[p] + z
    BY <1>9, <1>10, <1>11, <1>12, Zenon
  <1>14. Z[S] = fs[p] + (fs[f] + z) /\ Z[S] # fs[f] + (fs[p] + z)
    BY <1>5, <1>6, <1>13, Zenon
  <1> QED
    BY <1>11, <1>13, <1>14

(* Files that are the same on a set have the same sum there.                *)
LEMMA SumAgrees ==
    ASSUME NEW fs, NEW gs, IsFiniteSet(DOMAIN fs), IsFiniteSet(DOMAIN gs),
           NEW Z, IsSum(fs, Z), NEW Y, IsSum(gs, Y), NEW U \in SUBSET DOMAIN fs, U \in SUBSET DOMAIN gs,
           \A f \in U : fs[f] = gs[f]
    PROVE  Z[U] = Y[U]
  <1> DEFINE Bad == {Cardinality(S) : S \in {T \in SUBSET U : Z[T] # Y[T]}}
  <1> SUFFICES ASSUME Z[U] # Y[U] PROVE FALSE
    OBVIOUS
  <1>0. IsFiniteSet(U)
    BY Smaller
  <1>1. Bad \subseteq Nat /\ Bad # {}
    BY <1>0, Smaller
  <1>2. PICK x \in Bad : \A y \in Bad : x =< y
    <2> HIDE DEF Bad
    <2> QED
      BY <1>1, LeastOf
  <1>3. PICK S \in SUBSET U : Z[S] # Y[S] /\ x = Cardinality(S)
    OBVIOUS
  <1>4. Z[S] = (IF S = {} THEN 0 ELSE fs[Pick(S)] + Z[S \ {Pick(S)}])
        /\ Y[S] = (IF S = {} THEN 0 ELSE gs[Pick(S)] + Y[S \ {Pick(S)}])
    BY SumIs
  <1>5. S # {}
    BY <1>3, <1>4
  <1>6. Pick(S) \in S /\ fs[Pick(S)] = gs[Pick(S)]
    BY <1>5, Picked
  <1>7. S \ {Pick(S)} \in SUBSET U /\ ~(x =< Cardinality(S \ {Pick(S)}))
    BY <1>0, <1>3, <1>6, Smaller
  <1>8. Z[S \ {Pick(S)}] = Y[S \ {Pick(S)}]
    BY <1>2, <1>7
  <1> QED
    BY <1>3, <1>4, <1>5, <1>6, <1>8

(* What is stored without a file.                                           *)
LEMMA StoredWithout ==
    ASSUME NEW fs, IsFiniteSet(DOMAIN fs), fs \in [DOMAIN fs -> Nat], NEW f \in DOMAIN fs
    PROVE  Stored(fs) = fs[f] + Stored([g \in DOMAIN fs \ {f} |-> fs[g]])
           /\ Stored([g \in DOMAIN fs \ {f} |-> fs[g]]) \in Nat
  <1> DEFINE gs == [g \in DOMAIN fs \ {f} |-> fs[g]]
  <1>1. DOMAIN gs = DOMAIN fs \ {f} /\ IsFiniteSet(DOMAIN gs) /\ gs \in [DOMAIN gs -> Nat]
        /\ \A g \in DOMAIN gs : gs[g] = fs[g]
    BY FS_RemoveElement
  <1> HIDE DEF gs
  <1>2. PICK Z : IsSum(fs, Z) /\ Stored(fs) = Z[DOMAIN fs]
    BY StoredIs
  <1>3. PICK Y : IsSum(gs, Y) /\ Stored(gs) = Y[DOMAIN gs]
    BY <1>1, StoredIs
  <1>4. Z[DOMAIN fs] = fs[f] + Z[DOMAIN fs \ {f}]
    <2>1. Splits(fs, Z)
      BY <1>2, SumRemove
    <2>2. DOMAIN fs \in SUBSET DOMAIN fs
      OBVIOUS
    <2> QED
      BY <2>1, <2>2, Zenon DEF Splits
  <1>5. Z[DOMAIN gs] = Y[DOMAIN gs]
    <2>1. DOMAIN gs \in SUBSET DOMAIN fs /\ \A g \in DOMAIN gs : fs[g] = gs[g]
      BY <1>1
    <2> QED
      BY <1>1, <1>2, <1>3, <2>1, SumAgrees
  <1>6. Y[DOMAIN gs] \in Nat
    BY <1>1, <1>3, SumNat
  <1>7. Stored(fs) = fs[f] + Stored(gs) /\ Stored(gs) \in Nat
    BY <1>1, <1>2, <1>3, <1>4, <1>5, <1>6
  <1> QED
    BY <1>7 DEF gs

(* No files, no bytes.                                                      *)
LEMMA StoredNone == ASSUME NEW fs, DOMAIN fs = {} PROVE Stored(fs) = 0
  <1>1. IsFiniteSet(DOMAIN fs)
    BY FS_EmptySet
  <1>2. PICK Z : IsSum(fs, Z) /\ Stored(fs) = Z[DOMAIN fs]
    BY <1>1, StoredIs
  <1> QED
    BY <1>2, SumIs

(* The limits of the files, with the finiteness their count needs, and the  *)
(* counter of their bytes.                                                  *)
FilesFit(fs, b) ==
    /\ DOMAIN fs \subseteq Names /\ fs \in [DOMAIN fs -> Nat] /\ IsFiniteSet(DOMAIN fs)
    /\ Cardinality(DOMAIN fs) =< MaxFiles
    /\ \A f \in DOMAIN fs : fs[f] =< FileBytes
    /\ b \in Int /\ b =< TotalBytes /\ b = Stored(fs)

(* A change that took effect names a revision that is gone, and none names  *)
(* a revision to come.                                                      *)
IntentPast(i, r) ==
    /\ i \in Intents \cup {NoIntent} /\ i.from =< r
    /\ i.applied \in {0, 1} /\ (i.applied = 1 => i.from < r)

WorkInv ==
    /\ FilesFit(files, bytes) /\ revision \in Nat /\ known \in Nat /\ known =< revision
    /\ begun \subseteq WorkTurns
    /\ grant \in [active : BOOLEAN, live : BOOLEAN, remaining : 0..MaxOperations]
    /\ IntentPast(intent, revision)

(* The limits are positive.                                                 *)
LEMMA WorkBounds ==
    /\ MaxFiles \in Nat /\ MaxFiles > 0 /\ FileBytes \in Nat /\ TotalBytes \in Nat
    /\ MaxOperations \in Nat /\ Sizes \subseteq Nat
  BY WorkspaceAssumption

(* No change is being made.                                                 *)
LEMMA NoIntentPast == ASSUME NEW r \in Nat PROVE IntentPast(NoIntent, r)
  BY DEF IntentPast, NoIntent

(* A new workspace.                                                         *)
LEMMA WorkInitial == WorkInit => WorkInv
  <1> SUFFICES ASSUME WorkInit PROVE WorkInv
    OBVIOUS
  <1>1. FilesFit(files, bytes)
    <2>1. DOMAIN files = {} /\ bytes = 0 /\ files \in [DOMAIN files -> Nat]
      BY DEF WorkInit
    <2>2. IsFiniteSet(DOMAIN files) /\ Cardinality(DOMAIN files) = 0 /\ bytes = Stored(files)
      BY <2>1, FS_EmptySet, StoredNone
    <2> QED
      BY <2>1, <2>2, WorkBounds DEF FilesFit
  <1>2. grant \in [active : BOOLEAN, live : BOOLEAN, remaining : 0..MaxOperations]
    BY WorkBounds DEF WorkInit
  <1> QED
    BY <1>1, <1>2, NoIntentPast DEF WorkInit, WorkInv

(* A grant that is spent, dropped or whose control ended.                   *)
LEMMA GrantedFits ==
    ASSUME WorkInv, Granted
    PROVE  grant' \in [active : BOOLEAN, live : BOOLEAN, remaining : 0..MaxOperations]
  BY WorkBounds DEF WorkInv, Granted

(* Workspace::write within the limits.                                      *)
LEMMA WriteFitsFiles ==
    ASSUME WorkInv, NEW f \in Names, NEW size \in Nat, WriteFits(f, size)
    PROVE  FilesFit(WriteData(f, size).files, WriteData(f, size).bytes)
           /\ WriteData(f, size).revision = revision + 1
  <1> DEFINE g == [h \in DOMAIN files \cup {f} |-> IF h = f THEN size ELSE files[h]]
  <1>1. WriteData(f, size).files = g /\ WriteData(f, size).bytes = NewBytes(f, size)
        /\ WriteData(f, size).revision = revision + 1
    BY DEF WriteData
  <1>2. FilesFit(files, bytes)
    BY DEF WorkInv
  <1>3. DOMAIN g = DOMAIN files \cup {f} /\ g \in [DOMAIN g -> Nat] /\ DOMAIN g \subseteq Names
    BY <1>2 DEF FilesFit
  <1>4. size =< FileBytes /\ NewBytes(f, size) =< TotalBytes
        /\ (f \in DOMAIN files \/ Cardinality(DOMAIN files) < MaxFiles)
    BY DEF WriteFits
  <1>5. \A h \in DOMAIN g : g[h] =< FileBytes
    BY <1>2, <1>3, <1>4 DEF FilesFit
  <1>6. NewBytes(f, size) \in Int
    BY <1>2 DEF NewBytes, LengthOf, FilesFit
  <1>7. IsFiniteSet(DOMAIN files \cup {f}) /\ Cardinality(DOMAIN files \cup {f}) =< MaxFiles
    <2>1. /\ IsFiniteSet(DOMAIN files \cup {f})
          /\ Cardinality(DOMAIN files \cup {f})
               = IF f \in DOMAIN files THEN Cardinality(DOMAIN files) ELSE Cardinality(DOMAIN files) + 1
          /\ Cardinality(DOMAIN files) \in Nat
      BY <1>2, FS_AddElement, FS_CardinalityType DEF FilesFit
    <2> QED
      BY <1>2, <1>4, <2>1, WorkBounds DEF FilesFit
  <1>8. NewBytes(f, size) = Stored(g)
    <2> DEFINE others == [h \in DOMAIN g \ {f} |-> g[h]]
    <2>1. Stored(g) = g[f] + Stored(others) /\ Stored(others) \in Nat /\ g[f] = size
      <3>1. IsFiniteSet(DOMAIN g) /\ f \in DOMAIN g /\ g[f] = size
        BY <1>3, <1>7
      <3> HIDE DEF g
      <3> QED
        BY <1>3, <3>1, StoredWithout
    <2>2. others = [h \in DOMAIN files \ {f} |-> files[h]]
      BY <1>3
    <2> HIDE DEF g, others
    <2>3. bytes = LengthOf(f) + Stored(others) /\ LengthOf(f) \in Nat
      <3>1. CASE f \in DOMAIN files
        <4>1. Stored(files) = files[f] + Stored(others)
          BY <1>2, <2>2, <3>1, StoredWithout DEF FilesFit
        <4> QED
          BY <1>2, <3>1, <4>1 DEF LengthOf, FilesFit
      <3>2. CASE f \notin DOMAIN files
        <4>1. others = files
          <5>1. DOMAIN files \ {f} = DOMAIN files
            BY <3>2
          <5> QED
            BY <1>2, <2>2, <5>1 DEF FilesFit
        <4> QED
          BY <1>2, <2>1, <3>2, <4>1 DEF LengthOf, FilesFit
      <3> QED
        BY <3>1, <3>2
    <2> QED
      BY <2>1, <2>3 DEF NewBytes
  <1> HIDE DEF g
  <1> QED
    BY <1>1, <1>3, <1>4, <1>5, <1>6, <1>7, <1>8 DEF FilesFit

(* Workspace::write and append, refused or not.                             *)
LEMMA WriteFit ==
    ASSUME WorkInv, NEW f \in Names, NEW size \in Nat
    PROVE  LET d == WriteData(f, size)
           IN  FilesFit(d.files, d.bytes) /\ d.revision \in {revision, revision + 1}
  <1>1. CASE WriteFits(f, size)
    BY <1>1, WriteFitsFiles
  <1>2. CASE ~WriteFits(f, size)
    BY <1>2 DEF WriteData, Data, WorkInv
  <1> QED
    BY <1>1, <1>2

(* Workspace::delete gives bytes and a place back.                          *)
LEMMA DeleteFit ==
    ASSUME WorkInv, NEW f \in Names
    PROVE  LET d == DeleteData(f)
           IN  FilesFit(d.files, d.bytes) /\ d.revision \in {revision, revision + 1}
  <1>1. CASE f \notin DOMAIN files
    BY <1>1 DEF DeleteData, Data, WorkInv
  <1>2. CASE f \in DOMAIN files
    <2> DEFINE g == [h \in DOMAIN files \ {f} |-> files[h]]
    <2>1. DeleteData(f).files = g /\ DeleteData(f).bytes = bytes - files[f]
          /\ DeleteData(f).revision = revision + 1
      BY <1>2 DEF DeleteData
    <2>2. FilesFit(files, bytes)
      BY DEF WorkInv
    <2>3. DOMAIN g = DOMAIN files \ {f} /\ g \in [DOMAIN g -> Nat] /\ DOMAIN g \subseteq Names
          /\ \A h \in DOMAIN g : g[h] =< FileBytes
      BY <2>2 DEF FilesFit
    <2>4. IsFiniteSet(DOMAIN files \ {f}) /\ Cardinality(DOMAIN files \ {f}) =< MaxFiles
      <3>1. /\ IsFiniteSet(DOMAIN files \ {f})
            /\ Cardinality(DOMAIN files \ {f}) = Cardinality(DOMAIN files) - 1
            /\ Cardinality(DOMAIN files) \in Nat
        BY <1>2, <2>2, FS_RemoveElement, FS_CardinalityType DEF FilesFit
      <3> QED
        BY <2>2, <3>1, WorkBounds DEF FilesFit
    <2>5. files[f] \in Nat
      BY <1>2, <2>2 DEF FilesFit
    <2>6. bytes - files[f] \in Int /\ bytes - files[f] =< TotalBytes
      BY <2>2, <2>5, WorkBounds DEF FilesFit
    <2>7. bytes - files[f] = Stored(g)
      <3>1. Stored(files) = files[f] + Stored(g) /\ Stored(g) \in Nat
        BY <1>2, <2>2, StoredWithout DEF FilesFit
      <3> HIDE DEF g
      <3> QED
        BY <2>2, <2>5, <3>1 DEF FilesFit
    <2> HIDE DEF g
    <2> QED
      BY <2>1, <2>3, <2>4, <2>6, <2>7 DEF FilesFit
  <1> QED
    BY <1>1, <1>2

(* Any change: within the limits, and nothing unless the revision is the    *)
(* one the caller names.                                                    *)
LEMMA AppliesFit ==
    ASSUME WorkInv, NEW i \in Intents
    PROVE  LET d == Applies(i)
           IN  /\ FilesFit(d.files, d.bytes) /\ d.revision \in {revision, revision + 1}
               /\ d.revision # revision => i.from = revision
  <1>0. i.op \in {"write", "append", "delete"} /\ i.name \in Names /\ i.size \in Nat
    BY DEF Intents, Operations
  <1>1. CASE i.from # revision
    BY <1>1 DEF Applies, Data, WorkInv
  <1>2. CASE i.from = revision
    <2>1. CASE i.op = "write"
      BY <1>0, <1>2, <2>1, WriteFit DEF Applies
    <2>2. CASE i.op = "append"
      <3>1. LengthOf(i.name) + i.size \in Nat
        BY <1>0 DEF LengthOf, WorkInv, FilesFit
      <3> QED
        BY <1>0, <1>2, <2>2, <3>1, WriteFit DEF Applies
    <2>3. CASE i.op = "delete"
      BY <1>0, <1>2, <2>3, DeleteFit DEF Applies
    <2> QED
      BY <1>0, <2>1, <2>2, <2>3
  <1> QED
    BY <1>1, <1>2

(* Grant::request with a change, new or repeated.                           *)
LEMMA ChangeKeeps ==
    ASSUME WorkInv, NEW i \in Intents, IntentPast(i, revision), Change(i)
    PROVE  WorkInv'
  <1> DEFINE d == Applies(i)
  <1>1. FilesFit(d.files, d.bytes) /\ d.revision \in {revision, revision + 1}
        /\ (d.revision # revision => i.from = revision)
    BY AppliesFit
  <1>2. /\ files' = d.files /\ bytes' = d.bytes /\ revision' = d.revision /\ begun' = begun
        /\ \/ /\ known' = IF d.revision # revision THEN d.revision ELSE known
              /\ intent' = NoIntent
           \/ /\ intent' = [i EXCEPT !.applied = i.applied + (IF d.revision # revision THEN 1 ELSE 0)]
              /\ known' = known
    BY DEF Change
  <1> HIDE DEF d
  <1>3. revision \in Nat /\ revision' \in Nat /\ revision' >= revision /\ known \in Nat /\ known =< revision
    BY <1>1, <1>2 DEF WorkInv
  <1>4. known' \in Nat /\ known' =< revision'
    BY <1>2, <1>3
  <1>5. IntentPast(intent', revision')
    <2>1. CASE intent' = NoIntent
      BY <1>3, <2>1, NoIntentPast
    <2>2. CASE intent' = [i EXCEPT !.applied = i.applied + (IF d.revision # revision THEN 1 ELSE 0)]
      <3>1. i.applied \in {0, 1} /\ (i.applied = 1 => i.from < revision) /\ i.from \in Nat /\ i.from =< revision
        BY DEF IntentPast, Intents
      <3>2. PICK n : n = i.applied + (IF d.revision # revision THEN 1 ELSE 0)
        OBVIOUS
      <3>3. n \in {0, 1} /\ (n = 1 => i.from < revision')
        BY <1>1, <1>2, <1>3, <3>1, <3>2
      <3>4. intent' = [i EXCEPT !.applied = n]
        BY <2>2, <3>2
      <3>5. intent' \in Intents /\ intent'.applied = n /\ intent'.from = i.from
        BY <3>3, <3>4 DEF Intents
      <3> QED
        BY <1>3, <3>1, <3>3, <3>5 DEF IntentPast
    <2> QED
      BY <1>2, <2>1, <2>2
  <1>6. Granted
    BY DEF Change
  <1> QED
    BY <1>1, <1>2, <1>3, <1>4, <1>5, <1>6, GrantedFits DEF WorkInv

(* The inductive invariant of a parent's run data.                          *)
THEOREM WorkInvariant == WorkSpec => []WorkInv
  <1>1. WorkInv /\ [WorkNext]_workVars => WorkInv'
    <2> SUFFICES ASSUME WorkInv, [WorkNext]_workVars PROVE WorkInv'
      OBVIOUS
    <2>1. CASE UNCHANGED workVars
      BY <2>1 DEF workVars, WorkInv
    <2>2. ASSUME NEW t \in WorkTurns, BeginWork(t) PROVE WorkInv'
      <3>1. grant' \in [active : BOOLEAN, live : BOOLEAN, remaining : 0..MaxOperations]
        BY <2>2, WorkBounds DEF BeginWork
      <3> QED
        BY <2>2, <3>1, NoIntentPast DEF BeginWork, WorkInv
    <2>3. CASE DropLease \/ ControlEnds
      <3>1. grant' \in [active : BOOLEAN, live : BOOLEAN, remaining : 0..MaxOperations]
        BY <2>3 DEF DropLease, ControlEnds, WorkInv
      <3> QED
        BY <2>3, <3>1 DEF DropLease, ControlEnds, WorkInv
    <2>4. CASE RequestDenied
      BY <2>4, GrantedFits DEF RequestDenied, WorkInv
    <2>5. CASE ReadData
      BY <2>5, GrantedFits, NoIntentPast DEF ReadData, WorkInv
    <2>6. CASE NewChange
      <3>1. PICK op \in Operations, f \in Names, size \in Sizes :
               Change([op |-> op, name |-> f, size |-> IF op = "delete" THEN 0 ELSE size,
                       from |-> known, applied |-> 0])
        BY <2>6 DEF NewChange
      <3>2. PICK i : i = [op |-> op, name |-> f, size |-> IF op = "delete" THEN 0 ELSE size,
                          from |-> known, applied |-> 0]
        OBVIOUS
      <3>3. i \in Intents /\ IntentPast(i, revision)
        BY <3>2, WorkBounds DEF Intents, IntentPast, WorkInv
      <3> QED
        BY <3>1, <3>2, <3>3, ChangeKeeps
    <2>7. CASE RepeatChange
      <3>1. intent \in Intents /\ IntentPast(intent, revision)
        BY <2>7 DEF RepeatChange, WorkInv, IntentPast
      <3> QED
        BY <2>7, <3>1, ChangeKeeps DEF RepeatChange
    <2> QED
      BY <2>1, <2>2, <2>3, <2>4, <2>5, <2>6, <2>7 DEF WorkNext
  <1> QED
    BY <1>1, WorkInitial, PTL DEF WorkSpec

(* Type correctness of a parent's run data and of the grants of its turns.  *)
THEOREM WorkTyped == WorkSpec => []WorkTypeOK
  <1>1. WorkInv => WorkTypeOK
    BY DEF WorkInv, WorkTypeOK, FilesFit, IntentPast
  <1> QED
    BY <1>1, WorkInvariant, PTL

(* For every set of names, sizes and every limit: the counter of bytes in   *)
(* celln-store workspace.rs is the sum of the artifacts' lengths, the quotas *)
(* hold, and a change repeated after a lost reply takes effect at most once. *)
THEOREM WorkSound == WorkSpec => []WorkspaceSound
  <1>1. WorkInv => WorkspaceSound
    BY DEF WorkInv, WorkspaceSound, FilesFit, IntentPast
  <1> QED
    BY <1>1, WorkInvariant, PTL

-------------------------------------------------------------------------------
(* The registry of cells (CellRegistry).                                    *)

(* The order of `celln ps`, and the rank of a record in it. *)

Above(r, rs) == {q \in rs : Newer(q, r)}

(* Newest first is a strict total order of records with different names.    *)
LEMMA NewerOrder ==
    ASSUME NEW a \in CellRecord, NEW b \in CellRecord, NEW c \in CellRecord
    PROVE  /\ ~Newer(a, a) /\ (Newer(a, b) /\ Newer(b, c) => Newer(a, c))
           /\ (a.id # b.id => Newer(a, b) \/ Newer(b, a))
  <1>1. /\ a.started \in Nat /\ b.started \in Nat /\ c.started \in Nat
        /\ a.id \in Nat /\ b.id \in Nat /\ c.id \in Nat
    <2>1. \A r \in CellRecord : r.started \in 0 .. MaxWall /\ r.id \in CellNames
      BY DEF CellRecord
    <2>2. CellNames \subseteq Nat /\ MaxWall \in Nat
      BY RegistryAssumption
    <2>3. \A r \in CellRecord : r.started \in Nat /\ r.id \in Nat
      <3>1. 0 .. MaxWall \subseteq Nat
        BY <2>2
      <3> QED
        BY <2>1, <2>2, <3>1, Zenon
    <2> QED
      BY <2>3, Zenon
  <1> QED
    BY <1>1 DEF Newer

(* A rank is a number, and at most the number of records.                   *)
LEMMA RankNat ==
    ASSUME NEW rs, IsFiniteSet(rs), NEW r
    PROVE  IsFiniteSet(Above(r, rs)) /\ Rank(r, rs) = Cardinality(Above(r, rs)) /\ Rank(r, rs) \in Nat
  <1>1. Above(r, rs) \subseteq rs
    BY DEF Above
  <1>2. IsFiniteSet(Above(r, rs)) /\ Cardinality(Above(r, rs)) \in Nat
    BY <1>1, FS_Subset, FS_CardinalityType
  <1> QED
    BY <1>2 DEF Rank, Above

(* Fewer records, no higher rank.                                           *)
LEMMA RankSubset ==
    ASSUME NEW rs, IsFiniteSet(rs), NEW sub \in SUBSET rs, NEW r
    PROVE  IsFiniteSet(sub) /\ Rank(r, sub) =< Rank(r, rs)
  <1>1. IsFiniteSet(sub)
    BY FS_Subset
  <1>2. Above(r, sub) \subseteq Above(r, rs)
    BY DEF Above
  <1> QED
    BY <1>1, <1>2, RankNat, FS_Subset

Unique(rs) == \A r, q \in rs : r.id = q.id => r = q

(* save: a record written over its own file, or in a new one, pushes no     *)
(* other up in the list.                                                    *)
LEMMA RankSaved ==
    ASSUME NEW rs \in SUBSET CellRecord, IsFiniteSet(rs), Unique(rs), NEW n \in CellRecord,
           \A q \in rs : q.id = n.id => q.started = n.started, NEW r \in CellRecord
    PROVE  LET new == {q \in rs : q.id # n.id} \cup {n}
           IN  IsFiniteSet(new) /\ new \subseteq CellRecord /\ Unique(new) /\ Rank(r, rs) =< Rank(r, new)
  <1> DEFINE new == {q \in rs : q.id # n.id} \cup {n}
             f == [q \in Above(r, rs) |-> IF q.id = n.id THEN n ELSE q]
  <1>1. IsFiniteSet(new)
    <2>1. IsFiniteSet({q \in rs : q.id # n.id})
      BY FS_Subset
    <2> QED
      BY <2>1, FS_AddElement
  <1>2. new \subseteq CellRecord /\ Unique(new)
    BY DEF Unique
  <1>3. f \in [Above(r, rs) -> Above(r, new)]
    <2>1. ASSUME NEW q \in Above(r, rs) PROVE (IF q.id = n.id THEN n ELSE q) \in Above(r, new)
      BY DEF Above, Newer
    <2> QED
      BY <2>1
  <1>4. \A a, b \in Above(r, rs) : f[a] = f[b] => a = b
    <2> SUFFICES ASSUME NEW a \in Above(r, rs), NEW b \in Above(r, rs), f[a] = f[b] PROVE a = b
      OBVIOUS
    <2>1. a \in rs /\ b \in rs
      BY DEF Above
    <2>2. a.id = b.id
      OBVIOUS
    <2> QED
      BY <2>1, <2>2 DEF Unique
  <1>5. f \in Injection(Above(r, rs), Above(r, new))
    <2> HIDE DEF f, new
    <2> QED
      BY <1>3, <1>4 DEF Injection, IsInjective
  <1> HIDE DEF f, new
  <1>6. Rank(r, rs) =< Rank(r, new)
    BY <1>1, <1>5, RankNat, FS_Injection
  <1> QED
    BY <1>1, <1>2, <1>6 DEF new

(* Every number below the size of a list is the rank of one of its records. *)
LEMMA RankOnto ==
    ASSUME NEW rs \in SUBSET CellRecord, IsFiniteSet(rs), Unique(rs)
    PROVE  [r \in rs |-> Rank(r, rs)] \in Bijection(rs, 0..(Cardinality(rs) - 1))
  <1> DEFINE N == Cardinality(rs)
             f == [r \in rs |-> Rank(r, rs)]
  <1>1. N \in Nat
    BY FS_CardinalityType
  <1>2. ASSUME NEW r \in rs PROVE Rank(r, rs) \in 0..(N - 1)
    <2>1. Above(r, rs) \subseteq rs /\ r \notin Above(r, rs)
      BY NewerOrder DEF Above
    <2>2. Cardinality(Above(r, rs)) =< N /\ Cardinality(Above(r, rs)) # N
      <3>1. Cardinality(Above(r, rs)) =< N
        BY <2>1, FS_Subset
      <3>2. ~(Cardinality(rs) = Cardinality(Above(r, rs)))
        BY <2>1, FS_Subset
      <3> QED
        BY <3>1, <3>2
    <2> QED
      BY <1>1, <2>2, RankNat
  <1>3. ASSUME NEW r \in rs, NEW q \in rs, r # q PROVE Rank(r, rs) # Rank(q, rs)
    <2>1. ASSUME NEW x \in rs, NEW y \in rs, Newer(x, y) PROVE Rank(x, rs) # Rank(y, rs)
      <3>1. Above(x, rs) \subseteq Above(y, rs)
        BY <2>1, NewerOrder DEF Above
      <3>2. x \in Above(y, rs) /\ x \notin Above(x, rs)
        BY <2>1, NewerOrder DEF Above
      <3>3. Cardinality(Above(x, rs)) # Cardinality(Above(y, rs))
        BY <3>1, <3>2, RankNat, FS_Subset
      <3> QED
        BY <3>3, RankNat
    <2>2. r.id # q.id
      BY <1>3 DEF Unique
    <2>3. Newer(r, q) \/ Newer(q, r)
      BY <2>2, NewerOrder
    <2> QED
      BY <2>1, <2>3
  <1>4. f \in Injection(rs, 0..(N - 1))
    <2>1. f \in [rs -> 0..(N - 1)]
      BY <1>2
    <2>2. \A a, b \in rs : f[a] = f[b] => a = b
      BY <1>3
    <2> HIDE DEF f, N
    <2> QED
      BY <2>1, <2>2 DEF Injection, IsInjective
  <1>5. IsFiniteSet(0..(N - 1)) /\ Cardinality(0..(N - 1)) = N
    <2>1. 0 \in Int /\ N - 1 \in Int
      BY <1>1
    <2>2. Cardinality(0..(N - 1)) = IF 0 > N - 1 THEN 0 ELSE N - 1 - 0 + 1
      BY <2>1, FS_Interval
    <2>3. IsFiniteSet(0..(N - 1))
      BY <2>1, FS_Interval
    <2> QED
      BY <1>1, <2>2, <2>3
  <1>6. f \in Surjection(rs, 0..(N - 1))
    BY <1>4, <1>5, FS_Injection
  <1> QED
    BY <1>4, <1>6 DEF Bijection

(* prune: the newest KEEP records stay, so one that KEEP were newer than    *)
(* before has KEEP newer ones afterwards.                                   *)
LEMMA RankPruned ==
    ASSUME NEW rs \in SUBSET CellRecord, IsFiniteSet(rs), Unique(rs), NEW r \in CellRecord,
           Rank(r, rs) >= Keep
    PROVE  Rank(r, {q \in rs : Rank(q, rs) < Keep}) >= Keep
  <1> DEFINE A == Above(r, rs)
             kept == {q \in rs : Rank(q, rs) < Keep}
             B == {q \in A : Rank(q, A) < Keep}
             f == [q \in A |-> Rank(q, A)]
             g == [q \in B |-> Rank(q, A)]
  <1>0. Keep \in Nat /\ Keep > 0
    BY RegistryAssumption
  <1>1. A \subseteq rs /\ IsFiniteSet(A) /\ Cardinality(A) >= Keep /\ Cardinality(A) \in Nat
    BY RankNat DEF Above
  <1>2. Unique(A)
    BY <1>1 DEF Unique
  <1>3. ASSUME NEW q \in A PROVE Rank(q, A) = Rank(q, rs)
    <2>1. Above(q, A) = Above(q, rs)
      BY NewerOrder DEF Above
    <2> QED
      BY <1>1, <2>1, RankNat
  <1>4. f \in Bijection(A, 0..(Cardinality(A) - 1))
    BY <1>1, <1>2, RankOnto
  <1>5. g \in Surjection(B, 0..(Keep - 1))
    <2>1. g \in [B -> 0..(Keep - 1)]
      <3>1. ASSUME NEW q \in B PROVE Rank(q, A) \in 0..(Keep - 1)
        BY <1>0, <1>1, RankNat
      <3> QED
        BY <3>1
    <2>2. ASSUME NEW k \in 0..(Keep - 1) PROVE \E q \in B : g[q] = k
      <3>1. k \in 0..(Cardinality(A) - 1)
        BY <1>0, <1>1
      <3>2. PICK q \in A : f[q] = k
        BY <1>4, <3>1 DEF Bijection, Surjection
      <3>3. Rank(q, A) = k /\ k < Keep
        BY <1>0, <3>2
      <3> QED
        BY <3>3
    <2> QED
      BY <2>1, <2>2 DEF Surjection
  <1>6. B \subseteq Above(r, kept)
    BY <1>1, <1>3 DEF Above
  <1>7. IsFiniteSet(B) /\ IsFiniteSet(kept)
    BY <1>1, FS_Subset
  <1>8. Cardinality(0..(Keep - 1)) = Keep
    <2>1. 0 \in Int /\ Keep - 1 \in Int
      BY <1>0
    <2>2. Cardinality(0..(Keep - 1)) = IF 0 > Keep - 1 THEN 0 ELSE Keep - 1 - 0 + 1
      BY <2>1, FS_Interval
    <2> QED
      BY <1>0, <2>2
  <1> HIDE DEF A, B, f, g, kept
  <1>9. Keep =< Cardinality(B)
    BY <1>5, <1>7, <1>8, FS_Surjection
  <1>10. IsFiniteSet(Above(r, kept)) /\ Rank(r, kept) = Cardinality(Above(r, kept))
         /\ Rank(r, kept) \in Nat
    BY <1>7, RankNat
  <1>11. Cardinality(B) =< Rank(r, kept)
    BY <1>6, <1>10, FS_Subset
  <1>12. Cardinality(B) \in Nat
    BY <1>7, FS_CardinalityType
  <1>13. Rank(r, kept) >= Keep
    BY <1>0, <1>9, <1>10, <1>11, <1>12
  <1> QED
    BY <1>13 DEF kept

-----------------------------------------------------------------------------
(* A command holds its cell from the record it saved to the record's        *)
(* close.                                                                   *)
Holding == {"begun", "recorded", "running", "dissolved", "failed", "refused"}
HoldsCell(c) == c # Gone /\ c.at \in Holding /\ c.record # Unrecorded
FateAt(point) == IF point \in {"begun", "recorded"} THEN "no cell" ELSE point

(* The files: one per name, of a cell that was begun, and true when closed. *)
FilesTrue(rs, f) ==
    /\ rs \subseteq CellRecord /\ IsFiniteSet(rs) /\ Unique(rs)
    /\ \A r \in rs : f[r.id] # "unused" /\ (r.status # "running" => f[r.id] = r.status)

(* A held cell: its fate is where its command is, its file, if there is     *)
(* one, is the record the command has, and there is one unless KEEP cells   *)
(* are newer.                                                               *)
HolderTrue(c, p, rs, f) ==
    HoldsCell(c) =>
        /\ c.record \in CellRecord /\ c.record.pid = p /\ c.record.status = "running"
        /\ f[c.record.id] = FateAt(c.at)
        /\ \A r \in rs : r.id = c.record.id => r = c.record
        /\ c.record \in rs \/ Rank(c.record, rs) >= Keep

(* No two commands hold a cell of the same name.                            *)
OneHolder(cmd) ==
    \A p, q \in Pids :
        p # q /\ HoldsCell(cmd[p]) /\ HoldsCell(cmd[q]) => cmd[p].record.id # cmd[q].record.id

RegInv ==
    /\ RegistryTypeOK /\ FilesTrue(records, fate)
    /\ \A p \in Pids : HolderTrue(command[p], p, records, fate)
    /\ OneHolder(command)

Fates == {"unused", "no cell", "running", "dissolved", "failed", "refused", "killed"}

(* The shape of a command, and that a moved one is a command.               *)
LEMMA CommandShape ==
    ASSUME RegInv, NEW p \in Pids, command[p] # Gone
    PROVE  /\ command[p] \in Commands
           /\ command[p] = [at |-> command[p].at, kind |-> command[p].kind, record |-> command[p].record]
           /\ command[p].at \in {"asking", "stopping", "idle"} \cup Holding
           /\ command[p].record \in CellRecord \cup {Unrecorded}
  <1>1. command[p] \in Commands
    BY DEF RegInv, RegistryTypeOK
  <1> QED
    BY <1>1 DEF Commands, Holding

(* A record is not the absence of one.                                      *)
LEMMA RecordShape ==
    ASSUME NEW r \in CellRecord
    PROVE  r # Unrecorded /\ r.id \in CellNames /\ r.pid \in Pids
           /\ r = [id |-> r.id, pid |-> r.pid, started |-> r.started, status |-> r.status]
  BY RegistryAssumption DEF CellRecord, Unrecorded

(* What a step of one command must leave.                                   *)
LEMMA CommandStep ==
    ASSUME RegInv, NEW p \in Pids, NEW c \in Commands \cup {Gone},
           command' = [command EXCEPT ![p] = c], wall' = wall,
           fate' \in [CellNames -> Fates], FilesTrue(records', fate'),
           HolderTrue(c, p, records', fate'),
           \A q \in Pids : q # p => HolderTrue(command[q], q, records', fate'),
           HoldsCell(c) =>
               \A q \in Pids : q # p /\ HoldsCell(command[q]) => command[q].record.id # c.record.id
    PROVE  RegInv'
  <1>1. command \in [Pids -> Commands \cup {Gone}]
    BY DEF RegInv, RegistryTypeOK
  <1>2. command' \in [Pids -> Commands \cup {Gone}]
        /\ \A q \in Pids : command'[q] = IF q = p THEN c ELSE command[q]
    BY <1>1
  <1>3. RegistryTypeOK'
    BY <1>2 DEF RegInv, RegistryTypeOK, FilesTrue, Fates
  <1>4. \A q \in Pids : HolderTrue(command'[q], q, records', fate')
    BY <1>2
  <1>5. OneHolder(command')
    <2> SUFFICES ASSUME NEW x \in Pids, NEW y \in Pids, x # y, HoldsCell(command'[x]), HoldsCell(command'[y])
                 PROVE  command'[x].record.id # command'[y].record.id
      BY DEF OneHolder
    <2>1. CASE x # p /\ y # p
      BY <1>2, <2>1 DEF RegInv, OneHolder
    <2>2. CASE x = p
      BY <1>2, <2>2
    <2>3. CASE y = p
      BY <1>2, <2>3
    <2> QED
      BY <2>1, <2>2, <2>3
  <1> QED
    BY <1>3, <1>4, <1>5 DEF RegInv

(* A command moves without touching a file or the fate of its cell.         *)
LEMMA MoveStep ==
    ASSUME RegInv, NEW p \in Pids, NEW c \in Commands \cup {Gone},
           command' = [command EXCEPT ![p] = c], UNCHANGED <<wall, records, fate>>,
           HoldsCell(c) => /\ HoldsCell(command[p]) /\ c.record = command[p].record
                           /\ FateAt(c.at) = FateAt(command[p].at)
    PROVE  RegInv'
  <1>1. FilesTrue(records', fate') /\ fate' \in [CellNames -> Fates]
    BY DEF RegInv, RegistryTypeOK, Fates
  <1>2. \A q \in Pids : HolderTrue(command[q], q, records', fate')
    BY DEF RegInv
  <1>3. HolderTrue(c, p, records', fate')
    BY <1>2 DEF HolderTrue
  <1>4. HoldsCell(c) =>
           \A q \in Pids : q # p /\ HoldsCell(command[q]) => command[q].record.id # c.record.id
    BY DEF RegInv, OneHolder
  <1> QED
    BY <1>1, <1>2, <1>3, <1>4, CommandStep

(* The fate of a held cell becomes known: only its holder is concerned, and *)
(* its file, if there is one, says that it runs.                            *)
LEMMA FateStep ==
    ASSUME RegInv, NEW p \in Pids, NEW c \in Commands \cup {Gone}, NEW how \in Fates, how # "unused",
           HoldsCell(command[p]), command' = [command EXCEPT ![p] = c],
           UNCHANGED <<wall, records>>, fate' = [fate EXCEPT ![command[p].record.id] = how],
           HoldsCell(c) => c.record = command[p].record /\ FateAt(c.at) = how
    PROVE  RegInv'
  <1> DEFINE own == command[p].record
  <1>1. /\ own \in CellRecord /\ own.status = "running" /\ own.pid = p
        /\ \A r \in records : r.id = own.id => r = own
        /\ own \in records \/ Rank(own, records) >= Keep
    BY DEF RegInv, HolderTrue
  <1>2. own.id \in CellNames /\ fate \in [CellNames -> Fates]
    BY <1>1, RecordShape DEF RegInv, RegistryTypeOK, Fates
  <1>3. fate' \in [CellNames -> Fates] /\ fate'[own.id] = how
        /\ \A n \in CellNames : n # own.id => fate'[n] = fate[n]
    BY <1>2
  <1>4. FilesTrue(records', fate')
    <2>1. ASSUME NEW r \in records
          PROVE  fate'[r.id] # "unused" /\ (r.status # "running" => fate'[r.id] = r.status)
      <3>1. r \in CellRecord /\ fate[r.id] # "unused" /\ (r.status # "running" => fate[r.id] = r.status)
        BY DEF RegInv, FilesTrue
      <3>2. r.id \in CellNames
        BY <3>1, RecordShape
      <3> QED
        BY <1>1, <1>3, <3>1, <3>2
    <2> QED
      BY <2>1 DEF RegInv, FilesTrue
  <1>5. ASSUME NEW q \in Pids, q # p PROVE HolderTrue(command[q], q, records', fate')
    <2>1. HolderTrue(command[q], q, records, fate)
      BY DEF RegInv
    <2>2. HoldsCell(command[q]) => command[q].record.id # own.id /\ command[q].record.id \in CellNames
      BY <1>5, <2>1, RecordShape DEF RegInv, OneHolder, HolderTrue
    <2> QED
      BY <1>3, <2>1, <2>2 DEF HolderTrue
  <1>6. HolderTrue(c, p, records', fate')
    BY <1>1, <1>3 DEF HolderTrue
  <1>7. HoldsCell(c) =>
           \A q \in Pids : q # p /\ HoldsCell(command[q]) => command[q].record.id # c.record.id
    BY DEF RegInv, OneHolder
  <1> QED
    BY <1>3, <1>4, <1>5, <1>6, <1>7, CommandStep

(* A command at another point.                                              *)
LEMMA MovedCommand ==
    ASSUME RegInv, NEW p \in Pids, command[p] # Gone, NEW point, Moves(p, point),
           point \in {"asking", "stopping", "idle"} \cup Holding
    PROVE  \E c \in Commands : /\ command' = [command EXCEPT ![p] = c] /\ c # Gone
                               /\ c.at = point /\ c.record = command[p].record
  <1> DEFINE c == [command[p] EXCEPT !.at = point]
  <1>1. command[p] \in Commands
    BY CommandShape
  <1>2. c \in Commands /\ c.at = point /\ c.record = command[p].record
    BY <1>1 DEF Commands, Holding
  <1>3. command' = [command EXCEPT ![p] = c]
    BY DEF Moves
  <1>4. c # Gone
    BY <1>2 DEF Gone, Holding
  <1> HIDE DEF c
  <1> QED
    BY <1>2, <1>3, <1>4, Zenon

(* A process that is gone holds nothing.                                    *)
LEMMA GoneHoldsNothing == ~HoldsCell(Gone)
  BY DEF HoldsCell

(* The steps of a command outside its cell.                                 *)
LEMMA OutsideKeeps ==
    ASSUME RegInv, NEW p \in Pids,
           \/ \E form \in Kinds : StartCommand(p, form)
           \/ Answered(p) \/ AskedToStop(p) \/ AgentGivesUp(p) \/ BeginUnsaved(p) \/ LeaveUnsealed(p)
    PROVE  RegInv'
  <1>1. ASSUME NEW form \in Kinds, StartCommand(p, form) PROVE RegInv'
    <2>1. PICK c : c = [at |-> IF form = "agent" THEN "asking" ELSE "idle", kind |-> form,
                        record |-> Unrecorded]
      OBVIOUS
    <2>2. c \in Commands /\ ~HoldsCell(c)
      BY <2>1 DEF Commands, HoldsCell
    <2>3. command' = [command EXCEPT ![p] = c] /\ UNCHANGED <<wall, records, fate>>
      BY <1>1, <2>1 DEF StartCommand
    <2> QED
      BY <2>2, <2>3, MoveStep
  <1>2. CASE Answered(p) \/ AskedToStop(p)
    <2>1. PICK point \in {"idle", "stopping"} : Moves(p, point)
      BY <1>2 DEF Answered, AskedToStop
    <2>2. command[p] # Gone /\ UNCHANGED <<wall, records, fate>>
      BY <1>2 DEF Answered, AskedToStop
    <2>3. PICK c \in Commands : command' = [command EXCEPT ![p] = c] /\ c.at = point
      BY <2>1, <2>2, MovedCommand
    <2>4. ~HoldsCell(c)
      BY <2>1, <2>3 DEF HoldsCell, Holding
    <2> QED
      BY <2>2, <2>3, <2>4, MoveStep
  <1>3. CASE AgentGivesUp(p) \/ LeaveUnsealed(p)
    <2>1. command' = [command EXCEPT ![p] = Gone] /\ UNCHANGED <<wall, records, fate>>
      BY <1>3 DEF AgentGivesUp, LeaveUnsealed, Exits
    <2> QED
      BY <2>1, GoneHoldsNothing, MoveStep
  <1>4. CASE BeginUnsaved(p)
    <2>1. command[p] \in Commands
      BY <1>4, CommandShape DEF BeginUnsaved
    <2>2. PICK c : c = [[command[p] EXCEPT !.at = "recorded"] EXCEPT !.record = Unrecorded]
      OBVIOUS
    <2>3. c \in Commands /\ c.record = Unrecorded
      BY <2>1, <2>2 DEF Commands
    <2>4. command' = [command EXCEPT ![p] = c] /\ UNCHANGED <<wall, records, fate>>
      BY <1>4, <2>2 DEF BeginUnsaved, RegInv, RegistryTypeOK
    <2> QED
      BY <2>3, <2>4, MoveStep DEF HoldsCell
  <1> QED
    BY <1>1, <1>2, <1>3, <1>4

(* seal, the end of a cell, and a kill: the fate of the cell, if it has a   *)
(* record.                                                                  *)
LEMMA FatesKeep ==
    ASSUME RegInv, NEW p \in Pids, Seal(p) \/ CellOver(p) \/ Killed(p)
    PROVE  RegInv'
  <1>0. command[p] # Gone /\ UNCHANGED <<wall, records>>
    BY DEF Seal, CellOver, Killed
  <1>1. CASE Seal(p) \/ CellOver(p)
    <2>1. PICK how \in {"running", "dissolved", "failed", "refused"} : Ended(p, how) /\ Moves(p, how)
      BY <1>1 DEF Seal, CellOver
    <2>2. command[p].at \in {"recorded", "running"}
      BY <1>1 DEF Seal, CellOver
    <2>3. PICK c \in Commands : command' = [command EXCEPT ![p] = c] /\ c # Gone /\ c.at = how
                                /\ c.record = command[p].record
      BY <1>0, <2>1, MovedCommand DEF Holding
    <2>4. CASE command[p].record = Unrecorded
      <3>1. fate' = fate /\ ~HoldsCell(c)
        BY <2>1, <2>3, <2>4 DEF Ended, HoldsCell
      <3> QED
        BY <1>0, <2>3, <3>1, MoveStep
    <2>5. CASE command[p].record # Unrecorded
      <3>1. HoldsCell(command[p]) /\ FateAt(c.at) = how
        BY <1>0, <2>1, <2>2, <2>3, <2>5 DEF HoldsCell, Holding, FateAt
      <3>2. fate' = [fate EXCEPT ![command[p].record.id] = how] /\ how \in Fates /\ how # "unused"
        BY <2>1, <2>5 DEF Ended, Fates
      <3> QED
        BY <1>0, <2>3, <3>1, <3>2, FateStep
    <2> QED
      BY <2>4, <2>5
  <1>2. CASE Killed(p)
    <2>1. command' = [command EXCEPT ![p] = Gone]
      BY <1>2 DEF Killed, Exits
    <2>2. CASE HoldsCell(command[p])
      <3>1. fate' = [fate EXCEPT ![command[p].record.id] = "killed"]
        BY <1>2, <2>2 DEF Killed, HoldsCell, Holding, Ended
      <3>2. "killed" \in Fates /\ "killed" # "unused"
        BY DEF Fates
      <3> QED
        BY <1>0, <2>1, <2>2, <3>1, <3>2, GoneHoldsNothing, FateStep
    <2>3. CASE ~HoldsCell(command[p])
      <3>1. fate' = fate
        BY <1>0, <1>2, <2>3 DEF Killed, HoldsCell, Holding, Ended
      <3> QED
        BY <1>0, <2>1, <3>1, GoneHoldsNothing, MoveStep
    <2> QED
      BY <2>2, <2>3
  <1> QED
    BY <1>1, <1>2

(* begin: the record of a new name is saved before the cell exists.         *)
LEMMA BeginKeeps ==
    ASSUME RegInv, NEW p \in Pids, NEW name \in CellNames, Begin(p, name)
    PROVE  RegInv'
  <1>1. PICK n : n = [id |-> name, pid |-> p, started |-> wall, status |-> "running"]
    OBVIOUS
  <1>2. n \in CellRecord /\ n.id = name /\ n.pid = p /\ n.status = "running"
    BY <1>1 DEF CellRecord, RegInv, RegistryTypeOK
  <1>3. /\ records' = {q \in records : q.id # n.id} \cup {n} /\ wall' = wall
        /\ command' = [command EXCEPT ![p].at = "begun", ![p].record = n]
        /\ fate' = [fate EXCEPT ![name] = "no cell"] /\ fate[name] = "unused" /\ command[p] # Gone
    BY <1>1 DEF Begin, Saved
  <1>4. PICK c : c = [[command[p] EXCEPT !.at = "begun"] EXCEPT !.record = n]
    OBVIOUS
  <1>5. c \in Commands /\ c.at = "begun" /\ c.record = n
    BY <1>2, <1>3, <1>4, CommandShape DEF Commands
  <1>6. command' = [command EXCEPT ![p] = c]
    BY <1>3, <1>4 DEF RegInv, RegistryTypeOK
  <1>7. records \in SUBSET CellRecord /\ IsFiniteSet(records) /\ Unique(records)
        /\ \A r \in records : fate[r.id] # "unused" /\ r.id \in CellNames
    BY RecordShape DEF RegInv, FilesTrue
  <1>8. \A q \in records : q.id # n.id
    BY <1>2, <1>3, <1>7
  <1>9. \A r \in CellRecord : /\ IsFiniteSet(records') /\ records' \subseteq CellRecord
                              /\ Unique(records') /\ Rank(r, records) =< Rank(r, records')
    BY <1>2, <1>3, <1>7, <1>8, RankSaved
  <1>10. fate \in [CellNames -> Fates] /\ fate' \in [CellNames -> Fates] /\ fate'[name] = "no cell"
         /\ \A m \in CellNames : m # name => fate'[m] = fate[m]
    BY <1>3 DEF RegInv, RegistryTypeOK, Fates
  <1>11. FilesTrue(records', fate')
    <2>1. ASSUME NEW r \in records'
          PROVE  fate'[r.id] # "unused" /\ (r.status # "running" => fate'[r.id] = r.status)
      <3>1. CASE r = n
        BY <1>2, <1>10, <3>1
      <3>2. CASE r \in records
        BY <1>2, <1>7, <1>8, <1>10, <3>2 DEF RegInv, FilesTrue
      <3> QED
        BY <1>3, <3>1, <3>2
    <2> QED
      BY <1>2, <1>9, <2>1 DEF FilesTrue
  <1>12. ASSUME NEW q \in Pids, q # p
         PROVE  HolderTrue(command[q], q, records', fate')
                /\ (HoldsCell(command[q]) => command[q].record.id # name)
    <2> SUFFICES ASSUME HoldsCell(command[q])
                 PROVE  HolderTrue(command[q], q, records', fate') /\ command[q].record.id # name
      BY DEF HolderTrue
    <2> DEFINE own == command[q].record
    <2>1. /\ own \in CellRecord /\ own.pid = q /\ own.status = "running"
          /\ fate[own.id] = FateAt(command[q].at)
          /\ \A r \in records : r.id = own.id => r = own
          /\ own \in records \/ Rank(own, records) >= Keep
      BY DEF RegInv, HolderTrue
    <2>2. own.id \in CellNames
      BY <2>1, RecordShape
    <2>3. own.id # name
      BY <1>3, <2>1 DEF FateAt, HoldsCell, Holding
    <2>4. fate'[own.id] = FateAt(command[q].at)
      BY <1>10, <2>1, <2>2, <2>3
    <2>5. \A r \in records' : r.id = own.id => r = own
      BY <1>2, <1>3, <2>1, <2>3
    <2>6. own \in records' \/ Rank(own, records') >= Keep
      <3>1. CASE own \in records
        BY <1>3, <1>8, <3>1
      <3>2. CASE Rank(own, records) >= Keep
        <4>1. Rank(own, records) =< Rank(own, records')
          BY <1>9, <2>1
        <4>2. Rank(own, records) \in Nat /\ Rank(own, records') \in Nat /\ Keep \in Nat
          BY <1>7, <1>9, <2>1, RankNat, RegistryAssumption
        <4> QED
          BY <3>2, <4>1, <4>2
      <3> QED
        BY <2>1, <3>1, <3>2
    <2> HIDE DEF own
    <2> QED
      BY <2>1, <2>3, <2>4, <2>5, <2>6 DEF own, HolderTrue
  <1>13. HolderTrue(c, p, records', fate')
    BY <1>2, <1>3, <1>5, <1>10 DEF HolderTrue, FateAt
  <1> QED
    BY <1>2, <1>3, <1>5, <1>6, <1>10, <1>11, <1>12, <1>13, CommandStep

(* prune: what is dropped has KEEP newer records, and still has afterwards. *)
LEMMA PruneKeeps ==
    ASSUME RegInv, NEW p \in Pids, Prune(p)
    PROVE  RegInv'
  <1>1. /\ command[p] # Gone /\ command[p].at = "begun" /\ Moves(p, "recorded")
        /\ records' = {r \in records : Rank(r, records) < Keep} /\ UNCHANGED <<wall, fate>>
    BY DEF Prune
  <1>2. PICK c \in Commands : command' = [command EXCEPT ![p] = c] /\ c # Gone /\ c.at = "recorded"
                              /\ c.record = command[p].record
    BY <1>1, MovedCommand DEF Holding
  <1>3. records \in SUBSET CellRecord /\ IsFiniteSet(records) /\ Unique(records)
        /\ \A r \in records : fate[r.id] # "unused" /\ (r.status # "running" => fate[r.id] = r.status)
    BY DEF RegInv, FilesTrue
  <1>4. FilesTrue(records', fate')
    <2>1. IsFiniteSet(records')
      BY <1>1, <1>3, FS_Subset
    <2> QED
      BY <1>1, <1>3, <2>1 DEF FilesTrue, Unique
  <1>5. ASSUME NEW q \in Pids, NEW d, HoldsCell(d), HoldsCell(command[q]), d.record = command[q].record,
               FateAt(d.at) = FateAt(command[q].at)
        PROVE  HolderTrue(d, q, records', fate')
    <2> DEFINE own == d.record
    <2>1. /\ own \in CellRecord /\ own.pid = q /\ own.status = "running"
          /\ fate[own.id] = FateAt(d.at)
          /\ \A r \in records : r.id = own.id => r = own
          /\ own \in records \/ Rank(own, records) >= Keep
      BY <1>5 DEF RegInv, HolderTrue
    <2>2. own \in records' \/ Rank(own, records') >= Keep
      <3>1. CASE Rank(own, records) >= Keep
        BY <1>1, <1>3, <2>1, <3>1, RankPruned
      <3>2. CASE ~(Rank(own, records) >= Keep)
        <4>1. Rank(own, records) \in Nat /\ Keep \in Nat
          BY <1>3, RankNat, RegistryAssumption
        <4> QED
          BY <1>1, <2>1, <3>2, <4>1
      <3> QED
        BY <3>1, <3>2
    <2> HIDE DEF own
    <2> QED
      BY <1>1, <2>1, <2>2 DEF own, HolderTrue
  <1>6. HolderTrue(c, p, records', fate')
    <2>1. CASE HoldsCell(c)
      <3>1. HoldsCell(command[p]) /\ FateAt(c.at) = FateAt(command[p].at)
        BY <1>1, <1>2, <2>1 DEF HoldsCell, Holding, FateAt
      <3> QED
        BY <1>2, <1>5, <2>1, <3>1
    <2> QED
      BY <2>1 DEF HolderTrue
  <1>7. \A q \in Pids : HolderTrue(command[q], q, records', fate')
    BY <1>5 DEF HolderTrue
  <1>8. HoldsCell(c) =>
           \A q \in Pids : q # p /\ HoldsCell(command[q]) => command[q].record.id # c.record.id
    BY <1>1, <1>2 DEF RegInv, OneHolder, HoldsCell, Holding
  <1>9. fate' \in [CellNames -> Fates]
    BY <1>1 DEF RegInv, RegistryTypeOK, Fates
  <1> QED
    BY <1>1, <1>2, <1>4, <1>6, <1>7, <1>8, <1>9, CommandStep

(* finish and refuse: the record says what became of the cell, in its own   *)
(* file or in a new one.                                                    *)
LEMMA CloseKeeps ==
    ASSUME RegInv, NEW p \in Pids, Close(p)
    PROVE  RegInv'
  <1>1. /\ command[p] # Gone /\ command[p].at \in {"dissolved", "failed", "refused"}
        /\ UNCHANGED <<wall, fate>> /\ Completes(p)
    BY DEF Close
  <1>2. PICK c \in Commands \cup {Gone} : command' = [command EXCEPT ![p] = c] /\ ~HoldsCell(c)
    <2>1. CASE Moves(p, "idle")
      <3>1. PICK c \in Commands : command' = [command EXCEPT ![p] = c] /\ c.at = "idle"
        BY <1>1, <2>1, MovedCommand
      <3> QED
        BY <3>1 DEF HoldsCell, Holding
    <2>2. CASE Exits(p)
      BY <2>2, GoneHoldsNothing DEF Exits
    <2> QED
      BY <1>1, <2>1, <2>2 DEF Completes
  <1>3. CASE records' = records
    BY <1>1, <1>2, <1>3, MoveStep
  <1>4. CASE command[p].record # Unrecorded /\ Saved([command[p].record EXCEPT !.status = command[p].at])
    <2> DEFINE own == command[p].record
    <2>1. HoldsCell(command[p])
      BY <1>1, <1>4 DEF HoldsCell, Holding
    <2>2. /\ own \in CellRecord /\ own.pid = p /\ own.status = "running"
          /\ fate[own.id] = FateAt(command[p].at)
          /\ \A r \in records : r.id = own.id => r = own
      BY <2>1 DEF RegInv, HolderTrue
    <2>3. PICK n : n = [own EXCEPT !.status = command[p].at]
      OBVIOUS
    <2>4. n \in CellRecord /\ n.id = own.id /\ n.started = own.started /\ n.status = command[p].at
      BY <1>1, <2>2, <2>3 DEF CellRecord
    <2>5. records' = {q \in records : q.id # n.id} \cup {n}
      BY <1>4, <2>3 DEF Saved
    <2>6. records \in SUBSET CellRecord /\ IsFiniteSet(records) /\ Unique(records)
          /\ \A r \in records : fate[r.id] # "unused" /\ (r.status # "running" => fate[r.id] = r.status)
      BY DEF RegInv, FilesTrue
    <2>7. \A q \in records : q.id = n.id => q.started = n.started
      BY <2>2, <2>4
    <2>8. \A r \in CellRecord : /\ IsFiniteSet(records') /\ records' \subseteq CellRecord
                                /\ Unique(records') /\ Rank(r, records) =< Rank(r, records')
      BY <2>4, <2>5, <2>6, <2>7, RankSaved
    <2>9. fate'[n.id] = n.status /\ n.status # "unused"
      BY <1>1, <2>2, <2>4 DEF FateAt
    <2>10. FilesTrue(records', fate')
      <3>1. \A r \in records' : fate'[r.id] # "unused" /\ (r.status # "running" => fate'[r.id] = r.status)
        BY <1>1, <2>5, <2>6, <2>9
      <3> QED
        BY <2>4, <2>8, <3>1 DEF FilesTrue
    <2>11. ASSUME NEW q \in Pids, q # p, HoldsCell(command[q])
           PROVE  HolderTrue(command[q], q, records', fate')
      <3> DEFINE his == command[q].record
      <3>1. /\ his \in CellRecord /\ his.pid = q /\ his.status = "running"
            /\ fate[his.id] = FateAt(command[q].at)
            /\ \A r \in records : r.id = his.id => r = his
            /\ his \in records \/ Rank(his, records) >= Keep
        BY <2>11 DEF RegInv, HolderTrue
      <3>2. his.id # n.id
        BY <2>1, <2>4, <2>11 DEF RegInv, OneHolder
      <3>3. \A r \in records' : r.id = his.id => r = his
        BY <2>5, <3>1, <3>2
      <3>4. his \in records' \/ Rank(his, records') >= Keep
        <4>1. CASE his \in records
          BY <2>5, <3>2, <4>1
        <4>2. CASE Rank(his, records) >= Keep
          <5>1. Rank(his, records) =< Rank(his, records')
            BY <2>8, <3>1
          <5>2. Rank(his, records) \in Nat /\ Rank(his, records') \in Nat /\ Keep \in Nat
            BY <2>6, <2>8, <3>1, RankNat, RegistryAssumption
          <5> QED
            BY <4>2, <5>1, <5>2
        <4> QED
          BY <3>1, <4>1, <4>2
      <3> HIDE DEF his
      <3> QED
        BY <1>1, <3>1, <3>3, <3>4 DEF his, HolderTrue
    <2>12. \A q \in Pids : q # p => HolderTrue(command[q], q, records', fate')
      BY <2>11 DEF HolderTrue
    <2>13. HolderTrue(c, p, records', fate') /\ fate' \in [CellNames -> Fates]
      BY <1>1, <1>2 DEF HolderTrue, RegInv, RegistryTypeOK, Fates
    <2> QED
      BY <1>1, <1>2, <2>10, <2>12, <2>13, CommandStep
  <1> QED
    BY <1>3, <1>4 DEF Close

(* The directory before the first command.                                  *)
LEMMA RegistryInitial == RegistryInit => RegInv
  <1> SUFFICES ASSUME RegistryInit PROVE RegInv
    OBVIOUS
  <1>1. RegistryTypeOK
    BY RegistryAssumption DEF RegistryInit, RegistryTypeOK
  <1>2. FilesTrue(records, fate)
    BY FS_EmptySet DEF RegistryInit, FilesTrue, Unique
  <1>3. \A p \in Pids : ~HoldsCell(command[p])
    BY GoneHoldsNothing DEF RegistryInit
  <1> QED
    BY <1>1, <1>2, <1>3 DEF RegInv, HolderTrue, OneHolder

(* The inductive invariant of the registry of cells.                        *)
THEOREM CellRegistryInvariant == RegistrySpec => []RegInv
  <1>1. RegInv /\ [RegistryNext]_registryVars => RegInv'
    <2> SUFFICES ASSUME RegInv, [RegistryNext]_registryVars PROVE RegInv'
      OBVIOUS
    <2>1. CASE UNCHANGED registryVars
      BY <2>1 DEF registryVars, RegInv, RegistryTypeOK
    <2>2. CASE WallTicks
      <3>1. wall' \in 0 .. MaxWall /\ UNCHANGED <<records, command, fate>>
        <4>1. MaxWall \in Nat /\ wall \in 0 .. MaxWall
          BY RegistryAssumption DEF RegInv, RegistryTypeOK
        <4> QED
          BY <2>2, <4>1 DEF WallTicks
      <3> QED
        BY <3>1 DEF RegInv, RegistryTypeOK
    <2>3. ASSUME NEW p \in Pids, NEW name \in CellNames, Begin(p, name) PROVE RegInv'
      BY <2>3, BeginKeeps
    <2>4. ASSUME NEW p \in Pids,
                 \/ \E form \in Kinds : StartCommand(p, form)
                 \/ Answered(p) \/ AskedToStop(p) \/ AgentGivesUp(p) \/ BeginUnsaved(p) \/ LeaveUnsealed(p)
          PROVE  RegInv'
      BY <2>4, OutsideKeeps
    <2>5. ASSUME NEW p \in Pids, Seal(p) \/ CellOver(p) \/ Killed(p) PROVE RegInv'
      BY <2>5, FatesKeep
    <2>6. ASSUME NEW p \in Pids, Close(p) \/ Prune(p) PROVE RegInv'
      BY <2>6, CloseKeeps, PruneKeeps
    <2> QED
      BY <2>1, <2>2, <2>3, <2>4, <2>5, <2>6 DEF RegistryNext
  <1> QED
    BY <1>1, RegistryInitial, PTL DEF RegistrySpec

(* Type correctness of the registry of cells and the commands that keep it. *)
THEOREM CellRegistryTyped == RegistrySpec => []RegistryTypeOK
  <1>1. RegInv => RegistryTypeOK
    BY DEF RegInv
  <1> QED
    BY <1>1, CellRegistryInvariant, PTL

(* For every number of processes, names and every KEEP: a cell that runs    *)
(* and could be recorded is reported as live and keeps its node from        *)
(* offering memory, unless KEEP cells started after it, and a closed record *)
(* is true (cells::begin, finish, prune, report).                           *)
THEOREM CellRegistryListed == RegistrySpec => []CellsListed
  <1>1. RegInv => CellsListed
    <2> SUFFICES ASSUME RegInv PROVE CellsListed
      OBVIOUS
    <2>1. ASSUME NEW p \in Pids, Running(p), ~(Rank(command[p].record, records) >= Keep)
          PROVE  /\ ~MemoryOffered
                 /\ command[p].record \in Reported([all |-> FALSE, limit |-> Keep])
      <3> DEFINE own == command[p].record
                 live == {r \in records : Live(r) = "running"}
      <3>1. command[p] # Gone /\ HoldsCell(command[p])
        BY <2>1 DEF Running, HoldsCell, Holding
      <3>2. own \in records /\ own.pid = p /\ own.status = "running"
        BY <2>1, <3>1 DEF RegInv, HolderTrue
      <3>3. own \in live
        BY <3>1, <3>2 DEF Live
      <3>4. IsFiniteSet(records) /\ live \in SUBSET records
        BY DEF RegInv, FilesTrue
      <3>5. IsFiniteSet(live) /\ Rank(own, live) =< Rank(own, records)
        BY <3>4, RankSubset
      <3>6. Rank(own, live) < Keep
        <4>1. Rank(own, live) \in Nat /\ Rank(own, records) \in Nat /\ Keep \in Nat
          BY <3>4, <3>5, RankNat, RegistryAssumption
        <4> QED
          BY <2>1, <3>5, <4>1
      <3>7. Reported([all |-> FALSE, limit |-> Keep]) = {r \in live : Rank(r, live) < Keep}
        BY DEF Reported
      <3>8. Cardinality(live) # 0
        BY <3>3, <3>5, FS_EmptySet
      <3> QED
        BY <3>3, <3>6, <3>7, <3>8 DEF MemoryOffered, LiveCount
    <2>2. \A r \in records : r.status # "running" => fate[r.id] = r.status
      BY DEF RegInv, FilesTrue
    <2> QED
      BY <2>1, <2>2 DEF CellsListed
  <1> QED
    BY <1>1, CellRegistryInvariant, PTL
===============================================================================
