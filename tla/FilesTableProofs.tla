-------------------------- MODULE FilesTableProofs --------------------------
(***************************************************************************)
(* What FilesTable promises, for any stores, directories, names, filters   *)
(* and orders of the names.                                                *)
(***************************************************************************)
EXTENDS FilesTable, FiniteSetTheorems, WellFoundedInduction, TLAPS

-----------------------------------------------------------------------------
(* The loops over a listing.                                                *)

\* The positions of S up to i.
Upto(S, i) == {j \in S : j <= i}

\* A set of positions is finite, and no larger than the listing.
LEMMA PositionsCount ==
  ASSUME NEW n \in Nat, NEW S, S \subseteq 1 .. n
  PROVE  /\ IsFiniteSet(S) /\ Cardinality(S) \in Nat /\ Cardinality(S) <= n
         /\ \A j \in S : j \in Nat /\ 1 <= j /\ j <= n
  <1>1. IsFiniteSet(1 .. n) /\ Cardinality(1 .. n) = n
    BY FS_Interval
  <1>2. IsFiniteSet(S) /\ Cardinality(S) <= n
    BY <1>1, FS_Subset
  <1>3. QED
    BY <1>2, FS_CardinalityType

\* So are those up to i.
LEMMA UptoCount ==
  ASSUME NEW n \in Nat, NEW S, S \subseteq 1 .. n
  PROVE  /\ \A i : IsFiniteSet(Upto(S, i)) /\ Cardinality(Upto(S, i)) \in Nat
         /\ Upto(S, n) = S
         /\ Cardinality(Upto(S, 0)) = 0
  <1>1. ASSUME NEW i PROVE IsFiniteSet(Upto(S, i)) /\ Cardinality(Upto(S, i)) \in Nat
    <2>1. Upto(S, i) \subseteq S
      BY DEF Upto
    <2>2. IsFiniteSet(Upto(S, i))
      BY <2>1, PositionsCount, FS_Subset
    <2>3. QED
      BY <2>2, FS_CardinalityType
  <1>2. \A j \in S : j \in Nat /\ j <= n /\ ~ (j <= 0)
    OBVIOUS
  <1>3. Upto(S, n) = S /\ Upto(S, 0) = {}
    BY <1>2 DEF Upto
  <1>4. QED
    BY <1>1, <1>3, FS_EmptySet

\* One more position counts one more if it is in S.
LEMMA UptoNext ==
  ASSUME NEW n \in Nat, NEW S, S \subseteq 1 .. n, NEW i \in Nat
  PROVE  Cardinality(Upto(S, i + 1)) =
           IF i + 1 \in S THEN Cardinality(Upto(S, i)) + 1 ELSE Cardinality(Upto(S, i))
  <1>1. \A j \in S : j <= i + 1 <=> (j <= i \/ j = i + 1)
    <2>1. \A j \in S : j \in Nat
      OBVIOUS
    <2>2. QED
      BY <2>1
  <1>2. ~ (i + 1 <= i)
    OBVIOUS
  <1>3. CASE i + 1 \in S
    <2>1. Upto(S, i + 1) = Upto(S, i) \cup {i + 1}
      BY <1>1, <1>3 DEF Upto
    <2>2. i + 1 \notin Upto(S, i)
      BY <1>2 DEF Upto
    <2>3. IsFiniteSet(Upto(S, i))
      BY UptoCount
    <2>4. Cardinality(Upto(S, i) \cup {i + 1}) = Cardinality(Upto(S, i)) + 1
      BY <2>2, <2>3, FS_AddElement
    <2>5. QED
      BY <1>3, <2>1, <2>4
  <1>4. CASE i + 1 \notin S
    <2>1. Upto(S, i + 1) = Upto(S, i)
      BY <1>1, <1>4 DEF Upto
    <2>2. QED
      BY <1>4, <2>1
  <1>5. QED
    BY <1>3, <1>4

\* Every number up to the size of S counts the positions up to one of them:
\* the least position up to which there are that many.
LEMMA CountsUp ==
  ASSUME NEW n \in Nat, NEW S, S \subseteq 1 .. n, NEW k \in 1 .. Cardinality(S)
  PROVE  \E i \in S : Cardinality(Upto(S, i)) = k
  <1> DEFINE T == {i \in Nat : Cardinality(Upto(S, i)) >= k}
  <1>1. Cardinality(S) \in Nat
    BY PositionsCount
  <1>2. k \in Nat /\ k >= 1 /\ k <= Cardinality(S)
    BY <1>1
  <1>3. n \in T
    <2>1. Upto(S, n) = S
      BY UptoCount
    <2>2. QED
      BY <1>1, <1>2, <2>1
  <1>4. PICK i \in T : \A j \in T : ~ (<<j, i>> \in OpToRel(<, Nat))
    <2> HIDE DEF T
    <2>1. T \subseteq Nat
      BY DEF T
    <2>2. QED
      BY <1>3, <2>1, NatLessThanWellFounded, WFMin
  <1>5. i \in Nat /\ Cardinality(Upto(S, i)) >= k
    OBVIOUS
  <1>6. \A j \in T : ~ (j < i)
    BY <1>4 DEF OpToRel
  <1>7. i # 0
    <2>1. Cardinality(Upto(S, 0)) = 0
      BY UptoCount
    <2>2. ~ (0 >= k)
      BY <1>2
    <2>3. QED
      BY <1>5, <2>1, <2>2
  <1>8. PICK j \in Nat : i = j + 1
    <2>1. i - 1 \in Nat /\ i = (i - 1) + 1
      BY <1>5, <1>7
    <2>2. QED
      BY <2>1
  <1>9. j \notin T
    BY <1>6, <1>8
  <1>10. Cardinality(Upto(S, j)) \in Nat /\ Cardinality(Upto(S, i)) \in Nat
    BY UptoCount
  <1>11. Cardinality(Upto(S, j)) < k
    BY <1>2, <1>9, <1>10
  <1>12. Cardinality(Upto(S, i)) =
           IF i \in S THEN Cardinality(Upto(S, j)) + 1 ELSE Cardinality(Upto(S, j))
    BY <1>8, UptoNext
  <1>13. QED
    BY <1>2, <1>5, <1>10, <1>11, <1>12

\* Upto counts more for a larger position of S.
LEMMA CountsGrow ==
  ASSUME NEW n \in Nat, NEW S, S \subseteq 1 .. n, NEW i \in S, NEW j \in S, i < j
  PROVE  Cardinality(Upto(S, i)) < Cardinality(Upto(S, j))
  <1>1. i \in Nat /\ j \in Nat
    BY PositionsCount
  <1>2. \A h \in S : h \in Nat /\ (h <= i => h <= j)
    <2>1. \A h \in S : h \in Nat
      BY PositionsCount
    <2>2. QED
      BY <1>1, <2>1
  <1>3. Upto(S, i) \subseteq Upto(S, j) /\ j \in Upto(S, j) /\ j \notin Upto(S, i)
    <2>1. j <= j /\ ~ (j <= i)
      BY <1>1
    <2>2. QED
      BY <1>2, <2>1 DEF Upto
  <1>4. /\ IsFiniteSet(Upto(S, j)) /\ Cardinality(Upto(S, j)) \in Nat
        /\ Cardinality(Upto(S, i)) \in Nat
    BY UptoCount
  <1>5. /\ Cardinality(Upto(S, i)) <= Cardinality(Upto(S, j))
        /\ Cardinality(Upto(S, i)) # Cardinality(Upto(S, j))
    BY <1>3, <1>4, FS_Subset
  <1>6. QED
    BY <1>4, <1>5

\* The k-th position of InOrder(S) is the one up to which S has k.
LEMMA InOrderCounts ==
  ASSUME NEW n \in Nat, NEW S, S \subseteq 1 .. n
  PROVE  /\ DOMAIN InOrder(S) = 1 .. Cardinality(S)
         /\ InOrder(S) \in [1 .. Cardinality(S) -> S]
         /\ \A k \in 1 .. Cardinality(S) : Cardinality(Upto(S, InOrder(S)[k])) = k
  <1> DEFINE m == Cardinality(S)
  <1>1. ASSUME NEW k \in 1 .. m
        PROVE  InOrder(S)[k] \in S /\ Cardinality(Upto(S, InOrder(S)[k])) = k
    <2>1. InOrder(S)[k] = CHOOSE i \in S : Cardinality(Upto(S, i)) = k
      BY DEF InOrder, Upto
    <2>2. \E i \in S : Cardinality(Upto(S, i)) = k
      BY CountsUp
    <2>3. QED
      BY <2>1, <2>2
  <1>2. DOMAIN InOrder(S) = 1 .. m /\ InOrder(S) = [k \in 1 .. m |-> InOrder(S)[k]]
    BY DEF InOrder
  <1>3. QED
    BY <1>1, <1>2

\* InOrder lists the positions of S, each once, in ascending order.
LEMMA InOrderLists ==
  ASSUME NEW n \in Nat, NEW S, S \subseteq 1 .. n
  PROVE  /\ \A i \in S : \E k \in 1 .. Cardinality(S) : InOrder(S)[k] = i
         /\ \A k, l \in 1 .. Cardinality(S) : k < l => InOrder(S)[k] < InOrder(S)[l]
  <1> DEFINE m == Cardinality(S)
             Nth(k) == InOrder(S)[k]
  <1>1. m \in Nat /\ \A i \in S : i \in Nat
    BY PositionsCount
  <1>2. \A k \in 1 .. m : Nth(k) \in S /\ Cardinality(Upto(S, Nth(k))) = k
    BY InOrderCounts
  <1> HIDE DEF m, Nth
  <1>3. ASSUME NEW i \in S PROVE \E k \in 1 .. m : Nth(k) = i
    <2> DEFINE k == Cardinality(Upto(S, i))
    <2>1. i \in Upto(S, i) /\ Upto(S, i) \subseteq S
      BY <1>1 DEF Upto
    <2>2. k \in Nat /\ IsFiniteSet(Upto(S, i))
      BY UptoCount
    <2>3. k <= m
      BY <2>1, PositionsCount, FS_Subset DEF m
    <2>4. k # 0
      BY <2>1, <2>2, FS_EmptySet
    <2> HIDE DEF k
    <2>5. k \in 1 .. m
      BY <1>1, <2>2, <2>3, <2>4
    <2>6. Nth(k) \in S /\ Cardinality(Upto(S, Nth(k))) = k
      BY <1>2, <2>5
    <2>7. ~ (Nth(k) < i)
      <3>1. ASSUME Nth(k) < i PROVE k < k
        BY <3>1, <2>6, CountsGrow DEF k
      <3>2. QED
        BY <2>2, <3>1
    <2>8. ~ (i < Nth(k))
      <3>1. ASSUME i < Nth(k) PROVE k < k
        BY <3>1, <2>6, CountsGrow DEF k
      <3>2. QED
        BY <2>2, <3>1
    <2>9. Nth(k) = i
      <3>1. i \in Nat /\ Nth(k) \in Nat
        BY <1>1, <2>6
      <3>2. QED
        BY <3>1, <2>7, <2>8
    <2>10. QED
      BY <2>5, <2>9
  <1>4. ASSUME NEW k \in 1 .. m, NEW l \in 1 .. m, k < l PROVE Nth(k) < Nth(l)
    <2>1. k \in Nat /\ l \in Nat
      BY <1>1
    <2>2. Nth(k) \in S /\ Nth(l) \in S
      BY <1>2
    <2>3. Nth(k) # Nth(l)
      BY <1>2, <1>4, <2>1
    <2>4. ~ (Nth(l) < Nth(k))
      <3>1. ASSUME Nth(l) < Nth(k) PROVE l < k
        BY <3>1, <1>2, <2>2, CountsGrow
      <3>2. QED
        BY <1>4, <2>1, <3>1
    <2>5. Nth(k) \in Nat /\ Nth(l) \in Nat
      BY <1>1, <2>2
    <2>6. QED
      BY <2>3, <2>4, <2>5
  <1>5. QED
    BY <1>3, <1>4 DEF m, Nth

\* If nothing is left out before a position, the k-th position is k.
LEMMA InOrderPrefix ==
  ASSUME NEW n \in Nat, NEW S, S \subseteq 1 .. n, S = 1 .. Cardinality(S),
         NEW k \in 1 .. Cardinality(S)
  PROVE  InOrder(S)[k] = k
  <1> DEFINE i == InOrder(S)[k]
  <1>1. i \in S /\ Cardinality(Upto(S, i)) = k
    BY InOrderCounts
  <1> HIDE DEF i
  <1>2. Cardinality(S) \in Nat /\ i \in Nat /\ 1 <= i /\ i <= Cardinality(S)
    <2>1. Cardinality(S) \in Nat
      BY PositionsCount
    <2>2. i \in 1 .. Cardinality(S)
      BY <1>1
    <2>3. QED
      BY <2>1, <2>2
  <1>3. \A j : j \in S /\ j <= i <=> j \in 1 .. i
    BY <1>2
  <1>4. Upto(S, i) = 1 .. i
    BY <1>3 DEF Upto
  <1>5. Cardinality(1 .. i) = i
    BY <1>2, FS_Interval
  <1>6. QED
    BY <1>1, <1>4, <1>5 DEF i

\* Pick is a new listing: of the entries at the positions S, in their order.
LEMMA PickLists ==
  ASSUME NEW T, NEW s \in Seq(T), NEW S, S \subseteq DOMAIN s
  PROVE  /\ Pick(s, S) \in Seq(T)
         /\ Len(Pick(s, S)) = Cardinality(S)
         /\ Cardinality(S) \in Nat /\ Len(Pick(s, S)) <= Len(s)
         /\ \A k \in 1 .. Cardinality(S) :
              InOrder(S)[k] \in S /\ Pick(s, S)[k] = s[InOrder(S)[k]]
  <1>1. Len(s) \in Nat /\ S \subseteq 1 .. Len(s)
    OBVIOUS
  <1>2. Cardinality(S) \in Nat /\ Cardinality(S) <= Len(s)
    BY <1>1, PositionsCount
  <1>3. DOMAIN InOrder(S) = 1 .. Cardinality(S) /\ InOrder(S) \in [1 .. Cardinality(S) -> S]
    BY <1>1, InOrderCounts
  <1>4. Pick(s, S) = [k \in 1 .. Cardinality(S) |-> s[InOrder(S)[k]]]
    BY <1>3 DEF Pick
  <1>5. \A k \in 1 .. Cardinality(S) : InOrder(S)[k] \in S /\ s[InOrder(S)[k]] \in T
    BY <1>3
  <1>6. Pick(s, S) \in [1 .. Cardinality(S) -> T]
    BY <1>4, <1>5
  <1>7. Pick(s, S) \in Seq(T) /\ Len(Pick(s, S)) = Cardinality(S)
    BY <1>2, <1>6
  <1>8. QED
    BY <1>2, <1>4, <1>5, <1>7

\* A loop that keeps only some entries of a listing without duplicates makes
\* one without duplicates.
LEMMA PickDistinct ==
  ASSUME NEW T, NEW s \in Seq(T), NEW S, S \subseteq DOMAIN s,
         \A i, j \in DOMAIN s : s[i] = s[j] => i = j
  PROVE  \A k, l \in DOMAIN Pick(s, S) : Pick(s, S)[k] = Pick(s, S)[l] => k = l
  <1> SUFFICES ASSUME NEW k \in DOMAIN Pick(s, S), NEW l \in DOMAIN Pick(s, S),
                      Pick(s, S)[k] = Pick(s, S)[l]
               PROVE  k = l
    OBVIOUS
  <1>1. Cardinality(S) \in Nat /\ k \in 1 .. Cardinality(S) /\ l \in 1 .. Cardinality(S)
    BY PickLists
  <1>2. InOrder(S)[k] = InOrder(S)[l]
    BY <1>1, PickLists
  <1>3. Len(s) \in Nat /\ S \subseteq 1 .. Len(s)
    OBVIOUS
  <1>4. /\ Cardinality(Upto(S, InOrder(S)[k])) = k
        /\ Cardinality(Upto(S, InOrder(S)[l])) = l
    BY <1>1, <1>3, InOrderCounts
  <1>5. QED
    BY <1>2, <1>4

-----------------------------------------------------------------------------
(* FileRows.                                                                *)

USE OrderAssumption, FilesTableAssumption

\* As long as nothing was hidden before a visible entry, an index means the
\* same entry everywhere.
OwnIndex(r) ==
  ~r.shifted =>
    /\ \A i \in DOMAIN r.visible : /\ r.visible[i] = r.all[i]
                                   /\ r.visual[i] \in {None, r.all[i]}
    /\ \A i \in DOMAIN r.all : r.infos[i] \in {None, r.all[i]}

\* NewFileRows makes rows that fit, without duplicates.
LEMMA NewRows ==
  ASSUME NEW s \in Store, NEW d \in Dir, NEW names, events' \in 1 .. MaxEvents
  PROVE  LET r == NewFileRows(s, d, names) IN
           /\ r \in FileRows /\ Fits(r) /\ OwnIndex(r)
           /\ r.id = events' /\ r.dir = d /\ r.from = s
           /\ \A i, j \in DOMAIN r.all : r.all[i] = r.all[j] => i = j
  <1> DEFINE S == {i \in DOMAIN Order : Order[i] \in names}
             all == Pick(Order, S)
             nothing == [i \in DOMAIN all |-> None]
             r == NewFileRows(s, d, names)
  <1>1. S \subseteq DOMAIN Order
    OBVIOUS
  <1>2. r = [id |-> events', from |-> s, dir |-> d, all |-> all, visible |-> all,
             infos |-> nothing, visual |-> nothing, shifted |-> FALSE]
    BY DEF NewFileRows
  <1> HIDE DEF S, r
  <1>3. all \in Seq(Name) /\ Len(all) <= Len(Order)
    BY <1>1, PickLists
  <1>4. \A i, j \in DOMAIN all : all[i] = all[j] => i = j
    BY <1>1, PickDistinct
  <1> HIDE DEF all
  <1>5. nothing \in Seq(Opt(Name)) /\ DOMAIN nothing = DOMAIN all
    BY <1>3 DEF Opt
  <1>6. \A i \in DOMAIN all : nothing[i] = None
    OBVIOUS
  <1> HIDE DEF nothing
  <1>7. r \in FileRows
    BY <1>2, <1>3, <1>5 DEF FileRows
  <1>8. Fits(r)
    BY <1>2, <1>3, <1>5 DEF Fits
  <1>9. OwnIndex(r)
    BY <1>2, <1>6 DEF OwnIndex
  <1>10. QED
    BY <1>2, <1>4, <1>7, <1>8, <1>9 DEF r

\* A filter keeps the listing, and what it leaves visible fits.
LEMMA FilteredRows ==
  ASSUME NEW r \in FileRows, Fits(r), OwnIndex(r), NEW f
  PROVE  LET t == SetFilter(r, f) IN
           /\ t \in FileRows /\ Fits(t) /\ OwnIndex(t)
           /\ t.id = r.id /\ t.dir = r.dir /\ t.from = r.from /\ t.all = r.all
  <1> DEFINE kept == {i \in DOMAIN r.all : IsVisible(r.all[i], f)}
             m == Cardinality(kept)
             t == SetFilter(r, f)
  <1>1. t = [r EXCEPT !.visible = Pick(r.all, kept), !.visual = Pick(r.infos, kept),
                      !.shifted = @ \/ kept # 1 .. m]
    BY DEF SetFilter
  <1>2. kept \subseteq DOMAIN r.all /\ kept \subseteq DOMAIN r.infos
    BY DEF Fits
  <1> HIDE DEF kept, t
  <1>3. r.all \in Seq(Name) /\ r.infos \in Seq(Opt(Name)) /\ r.shifted \in BOOLEAN
    BY DEF FileRows
  <1>4. /\ m \in Nat /\ m <= Len(r.all)
        /\ Pick(r.all, kept) \in Seq(Name) /\ Len(Pick(r.all, kept)) = m
        /\ Pick(r.infos, kept) \in Seq(Opt(Name)) /\ Len(Pick(r.infos, kept)) = m
    BY <1>2, <1>3, PickLists
  <1>5. /\ t.visible = Pick(r.all, kept) /\ t.visual = Pick(r.infos, kept)
        /\ t.shifted = (r.shifted \/ kept # 1 .. m)
        /\ t.id = r.id /\ t.dir = r.dir /\ t.from = r.from /\ t.all = r.all /\ t.infos = r.infos
    BY <1>1 DEF FileRows
  <1>6. t \in FileRows
    BY <1>1, <1>3, <1>4 DEF FileRows
  <1>7. Fits(t)
    BY <1>3, <1>4, <1>5 DEF Fits
  <1>8. OwnIndex(t)
    <2> SUFFICES ASSUME ~t.shifted PROVE OwnIndex(t)
      BY DEF OwnIndex
    <2>1. ~r.shifted /\ kept = 1 .. m
      BY <1>3, <1>5
    <2>2. ASSUME NEW i \in DOMAIN t.visible
          PROVE  t.visible[i] = r.all[i] /\ t.visual[i] = r.infos[i] /\ i \in DOMAIN r.all
      <3>1. i \in 1 .. m
        BY <1>4, <1>5
      <3>2. InOrder(kept)[i] = i
        <4>1. Len(r.all) \in Nat /\ kept \subseteq 1 .. Len(r.all)
          BY <1>2, <1>3
        <4>2. QED
          BY <2>1, <3>1, <4>1, InOrderPrefix
      <3>3. Pick(r.all, kept)[i] = r.all[i]
        <4>1. \A k \in 1 .. m : Pick(r.all, kept)[k] = r.all[InOrder(kept)[k]]
          BY <1>2, <1>3, PickLists
        <4>2. QED
          BY <3>1, <3>2, <4>1
      <3>4. Pick(r.infos, kept)[i] = r.infos[i]
        <4>1. \A k \in 1 .. m : Pick(r.infos, kept)[k] = r.infos[InOrder(kept)[k]]
          BY <1>2, <1>3, PickLists
        <4>2. QED
          BY <3>1, <3>2, <4>1
      <3>5. QED
        BY <1>2, <1>5, <2>1, <3>1, <3>3, <3>4
    <2>3. QED
      BY <1>5, <2>1, <2>2 DEF OwnIndex
  <1>9. QED
    BY <1>5, <1>6, <1>7, <1>8 DEF t

(* applyFilter (fs_records.go) shows every entry that the filter lets       *)
(* through and no other, each once and in the order of the listing, with    *)
(* the information that is kept for it.                                     *)
THEOREM FilterShowsVisible ==
  ASSUME NEW r \in FileRows, Fits(r), NEW f
  PROVE  LET t == SetFilter(r, f)
             kept == {i \in DOMAIN r.all : IsVisible(r.all[i], f)}
         IN \E at \in [DOMAIN t.visible -> kept] :
              /\ \A k \in DOMAIN t.visible : /\ t.visible[k] = r.all[at[k]]
                                             /\ t.visual[k] = r.infos[at[k]]
              /\ \A i \in kept : \E k \in DOMAIN t.visible : at[k] = i
              /\ \A k, l \in DOMAIN t.visible : k < l => at[k] < at[l]
  <1> DEFINE kept == {i \in DOMAIN r.all : IsVisible(r.all[i], f)}
             m == Cardinality(kept)
             t == SetFilter(r, f)
             at == InOrder(kept)
  <1>1. t = [r EXCEPT !.visible = Pick(r.all, kept), !.visual = Pick(r.infos, kept),
                      !.shifted = @ \/ kept # 1 .. m]
    BY DEF SetFilter
  <1>2. kept \subseteq DOMAIN r.all /\ kept \subseteq DOMAIN r.infos
    BY DEF Fits
  <1> HIDE DEF kept, t
  <1>3. r.all \in Seq(Name) /\ r.infos \in Seq(Opt(Name)) /\ Len(r.all) \in Nat
    BY DEF FileRows
  <1>4. t.visible = Pick(r.all, kept) /\ t.visual = Pick(r.infos, kept)
    BY <1>1 DEF FileRows
  <1>5. /\ Pick(r.all, kept) \in Seq(Name) /\ Len(Pick(r.all, kept)) = m /\ m \in Nat
        /\ \A k \in 1 .. m : Pick(r.all, kept)[k] = r.all[at[k]]
    BY <1>2, <1>3, PickLists
  <1>6. \A k \in 1 .. m : Pick(r.infos, kept)[k] = r.infos[at[k]]
    BY <1>2, <1>3, PickLists
  <1>7. DOMAIN t.visible = 1 .. m
    BY <1>4, <1>5
  <1>8. kept \subseteq 1 .. Len(r.all)
    BY <1>2, <1>3
  <1>9. at \in [1 .. m -> kept]
    BY <1>3, <1>8, InOrderCounts
  <1>10. /\ \A i \in kept : \E k \in 1 .. m : at[k] = i
         /\ \A k, l \in 1 .. m : k < l => at[k] < at[l]
    BY <1>3, <1>8, InOrderLists
  <1> HIDE DEF at, m
  <1>11. /\ \A k \in 1 .. m : /\ t.visible[k] = r.all[at[k]]
                              /\ t.visual[k] = r.infos[at[k]]
    BY <1>4, <1>5, <1>6
  <1>12. \E g \in [1 .. m -> kept] :
           /\ \A k \in 1 .. m : /\ t.visible[k] = r.all[g[k]]
                                /\ t.visual[k] = r.infos[g[k]]
           /\ \A i \in kept : \E k \in 1 .. m : g[k] = i
           /\ \A k, l \in 1 .. m : k < l => g[k] < g[l]
    BY <1>9, <1>10, <1>11
  <1>13. QED
    BY <1>7, <1>12 DEF t, kept

\* Drawing keeps the listing too, and fills the places of what is drawn.
LEMMA DrawnRows ==
  ASSUME NEW r \in FileRows, Fits(r), OwnIndex(r)
  PROVE  LET t == Drawn(r) IN
           /\ t \in FileRows /\ Fits(t) /\ OwnIndex(t)
           /\ t.id = r.id /\ t.dir = r.dir /\ t.from = r.from /\ t.all = r.all
           /\ t.visible = r.visible /\ t.shifted = r.shifted
  <1> DEFINE Info(i) == IF i \in DOMAIN r.visible /\ r.visual[i] = None
                        THEN r.visible[i] ELSE r.infos[i]
             infos == [i \in DOMAIN r.infos |-> Info(i)]
             t == Drawn(r)
  <1>1. t = [r EXCEPT !.infos = infos]
    BY DEF Drawn
  <1> HIDE DEF t
  <1>2. r.visible \in Seq(Name) /\ r.infos \in Seq(Opt(Name))
    BY DEF FileRows
  <1>3. \A i \in DOMAIN r.infos : Info(i) \in Opt(Name)
    BY <1>2 DEF Opt
  <1> HIDE DEF Info
  <1>4. infos \in Seq(Opt(Name)) /\ DOMAIN infos = DOMAIN r.infos
    <2>1. Len(r.infos) \in Nat /\ DOMAIN r.infos = 1 .. Len(r.infos)
      BY <1>2
    <2>2. infos \in [1 .. Len(r.infos) -> Opt(Name)]
      BY <1>3, <2>1
    <2>3. QED
      BY <2>1, <2>2
  <1>5. \A i \in DOMAIN r.infos : infos[i] = Info(i)
    OBVIOUS
  <1> HIDE DEF infos
  <1>6. /\ t.visible = r.visible /\ t.visual = r.visual /\ t.shifted = r.shifted
        /\ t.id = r.id /\ t.dir = r.dir /\ t.from = r.from /\ t.all = r.all /\ t.infos = infos
    BY <1>1 DEF FileRows
  <1>7. t \in FileRows
    BY <1>1, <1>4 DEF FileRows
  <1>8. Fits(t)
    BY <1>4, <1>6 DEF Fits
  <1>9. OwnIndex(t)
    BY <1>5, <1>6 DEF OwnIndex, Fits, Info
  <1>10. QED
    BY <1>6, <1>7, <1>8, <1>9 DEF t

\* The entry at an index, that of a row and that of the cursor are names of
\* entries or nothing.
LEMMA EntryTypes ==
  ASSUME NEW r \in FileRows, NEW i, NEW drawn
  PROVE  /\ EntryAt(r, i) \in Opt(Name)
         /\ DrawnAt(r, i) \in Opt(Name)
         /\ EntryFromRow(r, i, drawn) \in Opt(Name)
  <1>1. r.visible \in Seq(Name)
    BY DEF FileRows
  <1>2. \A j : EntryAt(r, j) \in Opt(Name)
    BY <1>1 DEF EntryAt, Opt
  <1>3. \A j : DrawnAt(r, j) \in Opt(Name)
    BY <1>2 DEF DrawnAt
  <1>4. QED
    BY <1>2, <1>3 DEF EntryFromRow, Opt

\* What the panel remembers is the name of a file, or nothing.
LEMMA RememberTypes ==
  ASSUME NEW r, NEW i, NEW row, NEW drawn, NEW before \in Opt(Name \ DirName)
  PROVE  /\ Remember(r, row, drawn, before) \in Opt(Name \ DirName)
         /\ RememberFound(r, i, row, drawn, before) \in Opt(Name \ DirName)
  BY DEF Remember, RememberFound, Opt

\* FindFile finds a listed name, and nothing else.
LEMMA FindFileFinds ==
  ASSUME NEW r \in FileRows, Fits(r), NEW n
  PROVE  /\ FindFile(r, n) \in 0 .. Len(Order)
         /\ n \in Range_(r.all) => FindFile(r, n) \in DOMAIN r.all /\ r.all[FindFile(r, n)] = n
  <1>1. r.all \in Seq(Name) /\ Len(r.all) \in Nat /\ Len(Order) \in Nat
        /\ Len(r.all) <= Len(Order)
    BY DEF FileRows, Fits
  <1>2. CASE n \in Range_(r.all)
    <2>1. \E i \in DOMAIN r.all : r.all[i] = n
      BY <1>2 DEF Range_
    <2>2. FindFile(r, n) = CHOOSE i \in DOMAIN r.all : r.all[i] = n
      BY <1>2 DEF FindFile, IndexIn
    <2>3. FindFile(r, n) \in DOMAIN r.all /\ r.all[FindFile(r, n)] = n
      BY <2>1, <2>2
    <2>4. QED
      BY <1>1, <2>3
  <1>3. CASE n \notin Range_(r.all)
    BY <1>1, <1>3 DEF FindFile, IndexIn
  <1>4. QED
    BY <1>2, <1>3

-----------------------------------------------------------------------------
(* The inductive invariant.  An index means one entry in the listing on the *)
(* screen; and an operation that F8 started on what the screen had drawn at *)
(* the cursor, below "/", is on that entry.                                 *)
RowsOwnIndex == rows # None => OwnIndex(rows)

SeenIsTarget == \A o \in deletes : o.seen # None /\ o.dir # Root => o.seen = o.name

TableInv == TypeOK /\ RowsOwnIndex /\ SeenIsTarget /\ TextsReachTheScreen

\* What SetRows leaves, from rows as NewFileRows makes them.
LEMMA SetRowsTypes ==
  ASSUME TypeOK, NEW r \in FileRows, Fits(r), OwnIndex(r), NEW showDirs, SetRows(r, showDirs)
  PROVE  /\ rows' \in FileRows /\ Fits(rows') /\ OwnIndex(rows')
         /\ cursor' \in 0 .. Len(Order)
         /\ current' \in Opt(Name \ DirName)
         /\ shown' = TRUE /\ texts' = {}
  <1> DEFINE f == [showDirs |-> showDirs, extensions |-> {}]
             new == SetFilter(r, f)
             known == IF rows = None THEN current ELSE Remember(rows, 0, shown, current)
             at == IF known = None THEN 0 ELSE FindFile(new, known)
  <1>1. /\ rows' = Drawn(new) /\ cursor' = Cursor(new, at, 0)
        /\ current' = RememberFound(new, at, 0, TRUE, known)
        /\ shown' = TRUE /\ texts' = {}
    BY DEF SetRows
  <1>2. new \in FileRows /\ Fits(new) /\ OwnIndex(new)
    BY FilteredRows
  <1>3. known \in Opt(Name \ DirName)
    BY RememberTypes DEF TypeOK
  <1> HIDE DEF new, known
  <1>4. 0 \in 0 .. Len(Order)
    <2>1. Len(Order) \in Nat
      OBVIOUS
    <2>2. QED
      BY <2>1
  <1>5. at \in 0 .. Len(Order)
    BY <1>2, <1>4, FindFileFinds
  <1> HIDE DEF at
  <1>6. cursor' \in 0 .. Len(Order)
    BY <1>1, <1>4, <1>5 DEF Cursor
  <1>7. current' \in Opt(Name \ DirName)
    BY <1>1, <1>3, RememberTypes
  <1>8. rows' \in FileRows /\ Fits(rows') /\ OwnIndex(rows')
    BY <1>1, <1>2, DrawnRows
  <1>9. QED
    BY <1>1, <1>6, <1>7, <1>8

\* An event is counted, within the bound.
LEMMA EventCounts ==
  ASSUME TypeOK, UserEvent
  PROVE  events' \in 1 .. MaxEvents /\ events' \in 0 .. MaxEvents
  <1>1. events \in Nat /\ events <= MaxEvents /\ events < MaxEvents /\ events' = events + 1
    BY DEF TypeOK, UserEvent
  <1>2. QED
    BY <1>1

Job == [rows : 1 .. MaxEvents, name : Name, at : {"asked", "set", "queued"}]

\* A request that goes on is the same request, further on.
LEMMA AdvanceTypes ==
  ASSUME TypeOK, NEW j \in jobs, NEW at \in {"set", "queued"}, Advance(j, at)
  PROVE  jobs' \subseteq Job
  <1>1. j \in Job /\ jobs \subseteq Job
    BY DEF TypeOK, Job
  <1>2. [j EXCEPT !.at = at] \in Job
    BY <1>1 DEF Job
  <1>3. QED
    BY <1>1, <1>2 DEF Advance

\* The invariant holds before anything is listed.
LEMMA TableInit == Init => TableInv
  <1> SUFFICES ASSUME Init PROVE TableInv
    OBVIOUS
  <1>1. 0 \in 0 .. Len(Order) /\ 0 \in 0 .. MaxEvents
    <2>1. Len(Order) \in Nat
      OBVIOUS
    <2>2. QED
      BY <2>1
  <1>2. disk \in [Store -> [Dir -> SUBSET Name]] /\ store \in Store
        /\ current \in Opt(Name \ DirName)
    BY DEF Init, Opt
  <1>3. TypeOK
    BY <1>1, <1>2 DEF Init, TypeOK
  <1>4. RowsOwnIndex /\ SeenIsTarget /\ TextsReachTheScreen
    BY DEF Init, RowsOwnIndex, SeenIsTarget, TextsReachTheScreen
  <1>5. QED
    BY <1>3, <1>4 DEF TableInv

\* Every step keeps the types, and the index of what it lists.
LEMMA TableTypesStep ==
  ASSUME TypeOK, RowsOwnIndex, [Next]_vars
  PROVE  TypeOK' /\ RowsOwnIndex'
  <1> USE DEF TypeOK, RowsOwnIndex
  <1>1. ASSUME NEW d \in Dir, NEW showDirs \in BOOLEAN, DataLoaded(d, showDirs)
        PROVE  TypeOK' /\ RowsOwnIndex'
    <2> DEFINE r == NewFileRows(store, d, disk[store][d])
    <2>1. UserEvent /\ SetRows(r, showDirs) /\ Paint
          /\ selectable' = TRUE /\ jobs' = jobs \cup JobsOf(r)
          /\ UNCHANGED <<disk, store, deletes, hung>>
      BY <1>1 DEF DataLoaded
    <2>2. events' \in 1 .. MaxEvents /\ events' \in 0 .. MaxEvents
      BY <2>1, EventCounts
    <2>3. r \in FileRows /\ Fits(r) /\ OwnIndex(r)
      BY <2>2, NewRows
    <2> HIDE DEF r
    <2>4. /\ rows' \in FileRows /\ Fits(rows') /\ OwnIndex(rows')
          /\ cursor' \in 0 .. Len(Order)
          /\ current' \in Opt(Name \ DirName)
          /\ shown' = TRUE /\ texts' = {}
      BY <2>1, <2>3, SetRowsTypes
    <2>5. JobsOf(r) \subseteq Job
      BY <2>3 DEF JobsOf, Job, FileRows
    <2>6. painted' \subseteq Name
      BY <2>1, <2>4 DEF Paint
    <2>7. QED
      BY <2>1, <2>2, <2>4, <2>5, <2>6 DEF Job
  <1>2. ASSUME NEW d \in Dir, NodeError(d) PROVE TypeOK' /\ RowsOwnIndex'
    <2> DEFINE r == NewFileRows(store, d, {})
    <2>1. UserEvent /\ SetRows(r, FALSE) /\ Paint
          /\ UNCHANGED <<disk, store, selectable, jobs, deletes, hung>>
      BY <1>2 DEF NodeError
    <2>2. events' \in 1 .. MaxEvents /\ events' \in 0 .. MaxEvents
      BY <2>1, EventCounts
    <2>3. r \in FileRows /\ Fits(r) /\ OwnIndex(r)
      BY <2>2, NewRows
    <2> HIDE DEF r
    <2>4. /\ rows' \in FileRows /\ Fits(rows') /\ OwnIndex(rows')
          /\ cursor' \in 0 .. Len(Order)
          /\ current' \in Opt(Name \ DirName)
          /\ shown' = TRUE /\ texts' = {}
      BY <2>1, <2>3, SetRowsTypes
    <2>5. painted' \subseteq Name
      BY <2>1, <2>4 DEF Paint
    <2>6. QED
      BY <2>1, <2>2, <2>4, <2>5
  <1>3. ASSUME NEW s \in Store, StoreChange(s) PROVE TypeOK' /\ RowsOwnIndex'
    BY <1>3, EventCounts DEF StoreChange, Paint
  <1>4. ASSUME NEW row \in 0 .. Len(Order), MoveCursor(row) PROVE TypeOK' /\ RowsOwnIndex'
    <2>1. current' \in Opt(Name \ DirName)
      BY <1>4, RememberTypes DEF MoveCursor
    <2>2. painted' \subseteq Name
      BY <1>4 DEF MoveCursor, Paint
    <2>3. events' \in 0 .. MaxEvents
      BY <1>4, EventCounts DEF MoveCursor
    <2>4. QED
      BY <1>4, <2>1, <2>2, <2>3 DEF MoveCursor
  <1>5. ASSUME NEW exts, FilterByExtensions(exts) PROVE TypeOK' /\ RowsOwnIndex'
    <2> DEFINE new == SetFilter(rows, [showDirs |-> FALSE, extensions |-> exts])
    <2>1. new \in FileRows /\ Fits(new) /\ OwnIndex(new)
      BY <1>5, FilteredRows DEF FilterByExtensions
    <2>2. rows' = Drawn(new) \/ rows' = new
      BY <1>5 DEF FilterByExtensions
    <2> HIDE DEF new
    <2>3. rows' \in FileRows /\ Fits(rows') /\ OwnIndex(rows')
      BY <2>1, <2>2, DrawnRows
    <2>4. painted' \subseteq Name
      BY <1>5 DEF FilterByExtensions, Paint
    <2>5. events' \in 0 .. MaxEvents
      BY <1>5, EventCounts DEF FilterByExtensions
    <2>6. QED
      BY <1>5, <2>3, <2>4, <2>5 DEF FilterByExtensions
  <1>6. ASSUME NEW j \in jobs, SetGitStatusText(j) PROVE TypeOK' /\ RowsOwnIndex'
    <2>1. jobs' \subseteq Job
      BY <1>6, AdvanceTypes DEF SetGitStatusText
    <2>2. texts' \subseteq Name
      BY <1>6 DEF SetGitStatusText
    <2>3. QED
      BY <1>6, <2>1, <2>2 DEF SetGitStatusText, Job
  <1>7. ASSUME NEW j \in jobs, QueueRedraw(j) PROVE TypeOK' /\ RowsOwnIndex'
    <2>1. jobs' \subseteq Job
      BY <1>7, AdvanceTypes DEF QueueRedraw
    <2>2. QED
      BY <1>7, <2>1 DEF QueueRedraw, Job
  <1>8. ASSUME NEW j \in jobs, Redraw(j) PROVE TypeOK' /\ RowsOwnIndex'
    <2>1. shown' \in BOOLEAN /\ painted' \subseteq Name
      BY <1>8 DEF Redraw, Paint
    <2>2. rows' = rows \/ (rows # None /\ rows' = Drawn(rows))
      BY <1>8 DEF Redraw
    <2>3. rows' # None => rows' \in FileRows /\ Fits(rows') /\ OwnIndex(rows')
      BY <2>2, DrawnRows
    <2>4. jobs' \subseteq Job
      BY <1>8 DEF Redraw, Job
    <2>5. QED
      BY <1>8, <2>1, <2>3, <2>4 DEF Redraw, Job
  <1>9. CASE Delete
    <2>1. CurrentEntry(rows, cursor) \in Opt(Name) /\ DrawnAt(rows, cursor) \in Opt(Name)
      BY <1>9, EntryTypes DEF Delete, CurrentEntry
    <2>2. events' \in 1 .. MaxEvents /\ events' \in 0 .. MaxEvents
      BY <1>9, EventCounts DEF Delete
    <2>3. painted' \subseteq Name
      BY <1>9 DEF Delete, Paint
    <2>4. CurrentEntry(rows, cursor) \in Name /\ rows.dir \in Dir /\ rows.from \in Store
      BY <1>9, <2>1 DEF Delete, Opt, FileRows
    <2>5. (IF shown THEN DrawnAt(rows, cursor) ELSE None) \in Opt(Name)
      BY <2>1 DEF Opt
    <2>6. QED
      BY <1>9, <2>2, <2>3, <2>4, <2>5 DEF Delete
  <1>10. ASSUME NEW o \in deletes, DeleteEntries(o) PROVE TypeOK' /\ RowsOwnIndex'
    <2>1. [o EXCEPT !.at = "stuck"] \in [id : 1 .. MaxEvents, at : {"spawned", "stuck"},
                                         name : Name, dir : Dir, from : Store, seen : Opt(Name)]
      OBVIOUS
    <2>2. disk' \in [Store -> [Dir -> SUBSET Name]]
      <3> DEFINE left == disk[Local][o.dir] \ {Target(o)}
                 dirs == [disk[Local] EXCEPT ![o.dir] = left]
      <3>1. disk' = [disk EXCEPT ![Local] = dirs] \/ disk' = disk
        BY <1>10 DEF DeleteEntries
      <3>2. Local \in Store /\ disk[Local] \in [Dir -> SUBSET Name] /\ o.dir \in Dir
        OBVIOUS
      <3>3. left \in SUBSET Name
        BY <3>2
      <3> HIDE DEF left
      <3>4. dirs \in [Dir -> SUBSET Name]
        BY <3>2, <3>3
      <3> HIDE DEF dirs
      <3>5. QED
        BY <3>1, <3>2, <3>4
    <2>3. QED
      BY <1>10, <2>1, <2>2 DEF DeleteEntries
  <1>11. ASSUME NEW d \in Dir, NEW n \in Name, CreateFile(d, n) PROVE TypeOK' /\ RowsOwnIndex'
    <2> DEFINE at == IF rows = None THEN 0 ELSE FindFile(rows, n)
    <2>1. at \in 0 .. Len(Order)
      <3>1. 0 \in 0 .. Len(Order)
        OBVIOUS
      <3>2. QED
        BY <3>1, FindFileFinds
    <2>2. n \in Opt(Name \ DirName) /\ disk' \in [Store -> [Dir -> SUBSET Name]]
      BY <1>11 DEF CreateFile, Opt
    <2>3. cursor' = Cursor(rows, at, cursor)
          /\ current' = RememberFound(rows, at, cursor, shown, n)
      BY <1>11 DEF CreateFile
    <2> HIDE DEF at
    <2>4. cursor' \in 0 .. Len(Order)
      BY <2>1, <2>3 DEF Cursor
    <2>5. current' \in Opt(Name \ DirName)
      BY <2>2, <2>3, RememberTypes
    <2>6. painted' \subseteq Name /\ events' \in 0 .. MaxEvents
      BY <1>11, EventCounts DEF CreateFile, Paint
    <2>7. QED
      BY <1>11, <2>2, <2>4, <2>5, <2>6 DEF CreateFile
  <1>12. ASSUME NEW d \in Dir, NEW n \in Name, CreateDir(d, n) PROVE TypeOK' /\ RowsOwnIndex'
    <2>1. disk' \in [Store -> [Dir -> SUBSET Name]] /\ events' \in 0 .. MaxEvents
      BY <1>12, EventCounts DEF CreateDir
    <2>2. QED
      BY <1>12, <2>1 DEF CreateDir
  <1>13. CASE UNCHANGED vars
    BY <1>13 DEF vars
  <1>14. QED
    BY <1>1, <1>2, <1>3, <1>4, <1>5, <1>6, <1>7, <1>8, <1>9, <1>10, <1>11, <1>12, <1>13 DEF Next

\* Every step keeps the target of an operation as the screen had it, and
\* leaves a redraw to come for a text that is not on the screen.
LEMMA TableStep == TableInv /\ [Next]_vars => TableInv'
  <1> SUFFICES ASSUME TableInv, [Next]_vars PROVE TableInv'
    OBVIOUS
  <1> USE DEF TableInv
  <1>1. TypeOK' /\ RowsOwnIndex'
    BY TableTypesStep
  <1>2. SeenIsTarget'
    <2>1. CASE Delete
      <3> DEFINE o == [id |-> events', at |-> "spawned", name |-> CurrentEntry(rows, cursor),
                       dir |-> rows.dir, from |-> rows.from,
                       seen |-> IF shown THEN DrawnAt(rows, cursor) ELSE None]
      <3>1. deletes' = deletes \cup {o}
        BY <2>1 DEF Delete
      <3>2. o.seen # None /\ o.dir # Root => o.seen = o.name
        BY DEF DrawnAt, CurrentEntry
      <3> HIDE DEF o
      <3>3. QED
        BY <3>1, <3>2 DEF SeenIsTarget
    <2>2. ASSUME NEW o \in deletes, DeleteEntries(o) PROVE SeenIsTarget'
      <3> DEFINE p == [o EXCEPT !.at = "stuck"]
      <3>1. deletes' = (deletes \ {o}) \cup {p}
        BY <2>2 DEF DeleteEntries
      <3>2. p.seen = o.seen /\ p.dir = o.dir /\ p.name = o.name
        BY DEF TypeOK
      <3> HIDE DEF p
      <3>3. QED
        BY <3>1, <3>2 DEF SeenIsTarget
    <2>3. CASE UNCHANGED deletes
      BY <2>3 DEF SeenIsTarget
    <2>4. QED
      BY <2>1, <2>2, <2>3 DEF Next, vars, DataLoaded, NodeError, StoreChange, MoveCursor,
         FilterByExtensions, SetGitStatusText, QueueRedraw, Redraw, CreateFile, CreateDir
  <1>3. TextsReachTheScreen'
    <2>1. CASE Paint
      BY <2>1 DEF Paint, TextsReachTheScreen
    <2>2. ASSUME NEW j \in jobs, SetGitStatusText(j) PROVE TextsReachTheScreen'
      <3> DEFINE k == [j EXCEPT !.at = "set"]
      <3>1. /\ j.at = "asked" /\ jobs' = (jobs \ {j}) \cup {k}
            /\ texts' = IF j.rows = rows.id THEN texts \cup {j.name} ELSE texts
            /\ UNCHANGED <<rows, shown, painted>>
        BY <2>2 DEF SetGitStatusText, Advance
      <3>2. k.rows = j.rows /\ k.name = j.name /\ k.at = "set"
        BY DEF TypeOK
      <3> HIDE DEF k
      <3>3. QED
        BY <3>1, <3>2 DEF TextsReachTheScreen
    <2>3. ASSUME NEW j \in jobs, QueueRedraw(j) PROVE TextsReachTheScreen'
      <3> DEFINE k == [j EXCEPT !.at = "queued"]
      <3>1. /\ jobs' = (jobs \ {j}) \cup {k}
            /\ UNCHANGED <<rows, shown, texts, painted>>
        BY <2>3 DEF QueueRedraw, Advance
      <3>2. k.rows = j.rows /\ k.name = j.name /\ k.at = "queued"
        BY DEF TypeOK
      <3> HIDE DEF k
      <3>3. QED
        BY <3>1, <3>2 DEF TextsReachTheScreen
    <2>4. CASE UNCHANGED <<rows, shown, texts, painted, jobs>>
      BY <2>4 DEF TextsReachTheScreen
    <2>5. QED
      BY <2>1, <2>2, <2>3, <2>4 DEF Next, vars, DataLoaded, NodeError, StoreChange, MoveCursor,
         FilterByExtensions, Redraw, Delete, DeleteEntries, CreateFile, CreateDir
  <1>4. QED
    BY <1>1, <1>2, <1>3

\* The invariant holds in every behaviour.
THEOREM FilesTableInvariant == Spec => []TableInv
  BY TableInit, TableStep, PTL DEF Spec

(* What the table keeps of a directory, its entries, their information, the *)
(* cursor and the requests is what the code's types say, and the cursor is  *)
(* never past the longest listing (files_ui.go, fs_records.go).             *)
THEOREM FilesTypes == Spec => []TypeOK
  <1>1. TableInv => TypeOK
    BY DEF TableInv
  <1>2. QED
    BY <1>1, FilesTableInvariant, PTL

(* A git status text that a worker has put into the rows on the screen is   *)
(* drawn, or its redraw is still to come (files_git.go), for any number of  *)
(* requests, listings and changes of store in between.                      *)
THEOREM FilesTextsReachTheScreen == Spec => []TextsReachTheScreen
  <1>1. TableInv => TextsReachTheScreen
    BY DEF TableInv
  <1>2. QED
    BY <1>1, FilesTableInvariant, PTL

(* As long as no filter has hidden an entry before a visible one, the size  *)
(* drawn for an entry is its own, though GetCell writes what it read at an  *)
(* index of one list and applyFilter reads it at one of another             *)
(* (fs_records.go).                                                         *)
THEOREM FilesSizesAreOwn == Spec => []SizesAreOwn
  <1>1. TableInv => SizesAreOwn
    BY DEF TableInv, RowsOwnIndex, OwnIndex, SizesAreOwn
  <1>2. QED
    BY <1>1, FilesTableInvariant, PTL

(* What F8 removes from the disk was drawn under the cursor when it was     *)
(* pressed, with the property's two exceptions, however late the operation  *)
(* runs and whatever the user does until then (nav_delete.go).              *)
THEOREM FilesDeletesWhatIsDrawn == Spec => DeletesWhatIsDrawn
  <1> DEFINE Deletes == \A d \in Dir, n \in Name : n \in disk[Local][d] \ disk'[Local][d] =>
       \E o \in deletes :
         /\ o.at = "spawned" /\ o.dir = d
         /\ \/ o.seen = n /\ o.from = Local
            \/ d = Root
            \/ o.seen = None \/ o.from # Local
  <1>1. TableInv /\ [Next]_vars => [Deletes]_vars
    <2> SUFFICES ASSUME TableInv, [Next]_vars,
                        NEW d \in Dir, NEW n \in Name, n \in disk[Local][d] \ disk'[Local][d]
                 PROVE  \E o \in deletes :
                          /\ o.at = "spawned" /\ o.dir = d
                          /\ \/ o.seen = n /\ o.from = Local
                             \/ d = Root
                             \/ o.seen = None \/ o.from # Local
      OBVIOUS
    <2>1. disk \in [Store -> [Dir -> SUBSET Name]] /\ Local \in Store
      BY DEF TableInv, TypeOK
    <2>2. ASSUME NEW e \in Dir, NEW x \in Name, disk' = [disk EXCEPT ![Local][e] = @ \cup {x}]
          PROVE  FALSE
      BY <2>1, <2>2
    <2>3. PICK o \in deletes : DeleteEntries(o)
      BY <2>2 DEF Next, vars, DataLoaded, NodeError, StoreChange, MoveCursor,
         FilterByExtensions, SetGitStatusText, QueueRedraw, Redraw, Delete, CreateFile, CreateDir
    <2>4. o.at = "spawned" /\ o.dir \in Dir
          /\ disk' = [disk EXCEPT ![Local][o.dir] = @ \ {o.name}]
      BY <2>3 DEF DeleteEntries, Target, TableInv, TypeOK
    <2>5. o.dir = d /\ o.name = n
      BY <2>1, <2>4
    <2>6. o.seen # None /\ o.dir # Root => o.seen = o.name
      BY DEF TableInv, SeenIsTarget
    <2>7. QED
      BY <2>4, <2>5, <2>6
  <1>2. QED
    BY <1>1, FilesTableInvariant, PTL DEF Spec, DeletesWhatIsDrawn

\* The listing that SetRows shows is the given one, and a file that was
\* current, if nothing is hidden before it, is under the cursor.
LEMMA SetRowsSelects ==
  ASSUME TableInv, NEW r \in FileRows, Fits(r), OwnIndex(r), NEW showDirs, SetRows(r, showDirs),
         \A i, j \in DOMAIN r.all : r.all[i] = r.all[j] => i = j,
         rows = None \/ rows.dir # Root, rows'.dir # Root, ~rows'.shifted,
         current \in Range_(rows'.visible)
  PROVE  DrawnAt(rows', cursor') = current
  <1> DEFINE f == [showDirs |-> showDirs, extensions |-> {}]
             new == SetFilter(r, f)
             known == IF rows = None THEN current ELSE Remember(rows, 0, shown, current)
             at == IF known = None THEN 0 ELSE FindFile(new, known)
  <1>1. rows' = Drawn(new) /\ cursor' = Cursor(new, at, 0)
    BY DEF SetRows
  <1>2. new \in FileRows /\ Fits(new) /\ OwnIndex(new) /\ new.all = r.all
    BY FilteredRows
  <1>3. known = current
    <2>1. CASE rows = None
      BY <2>1
    <2>2. CASE rows # None
      <3>1. rows \in FileRows /\ rows.dir # Root
        BY <2>2 DEF TableInv, TypeOK
      <3>2. 0 \notin DOMAIN rows.visible
        BY <3>1 DEF FileRows
      <3>3. EntryFromRow(rows, 0, shown) = None
        BY <3>1, <3>2 DEF EntryFromRow, DrawnAt, EntryAt
      <3>4. QED
        BY <2>2, <3>3 DEF Remember
    <2>3. QED
      BY <2>1, <2>2
  <1> HIDE DEF new, known
  <1>4. /\ rows' \in FileRows /\ OwnIndex(rows') /\ rows'.all = r.all /\ rows'.dir = new.dir
        /\ rows'.visible = new.visible /\ Fits(rows')
    BY <1>1, <1>2, DrawnRows
  <1>5. PICK k \in DOMAIN rows'.visible : rows'.visible[k] = current
    BY DEF Range_
  <1>6. k \in DOMAIN r.all /\ r.all[k] = current
    <2>1. rows'.visible \in Seq(Name) /\ rows'.all \in Seq(Name)
      BY <1>4 DEF FileRows
    <2>2. Len(rows'.visible) <= Len(rows'.all)
      BY <1>4 DEF Fits
    <2>3. k \in DOMAIN rows'.all
      BY <2>1, <2>2
    <2>4. rows'.visible[k] = rows'.all[k]
      BY <1>4 DEF OwnIndex
    <2>5. QED
      BY <1>4, <1>5, <2>3, <2>4
  <1>7. current \in Name /\ current # None /\ k # 0
    <2>1. r.all \in Seq(Name)
      BY DEF FileRows
    <2>2. QED
      BY <1>6, <2>1
  <1>8. FindFile(new, current) = k
    <2>1. current \in Range_(new.all)
      BY <1>2, <1>6 DEF Range_
    <2>2. /\ FindFile(new, current) \in DOMAIN r.all
          /\ r.all[FindFile(new, current)] = current
      BY <1>2, <2>1, FindFileFinds
    <2>3. QED
      BY <1>6, <2>2
  <1>9. cursor' = k
    BY <1>1, <1>3, <1>7, <1>8 DEF Cursor
  <1>10. QED
    BY <1>5, <1>9 DEF DrawnAt, EntryAt

(* A file that was current when its directory is listed again is under the  *)
(* cursor, though the cursor counts drawn rows, and selectCurrentFile all   *)
(* entries of the listing (files_selection.go).                             *)
THEOREM FilesRememberedIsSelected == Spec => RememberedIsSelected
  <1> DEFINE Selected == Relisted /\ rows'.dir # Root /\ ~rows'.shifted
                           /\ current \in Range_(rows'.visible)
                         => DrawnAt(rows', cursor') = current
  <1>1. TableInv /\ [Next]_vars => [Selected]_vars
    <2> SUFFICES ASSUME TableInv, [Next]_vars, Relisted, rows'.dir # Root, ~rows'.shifted,
                        current \in Range_(rows'.visible)
                 PROVE  DrawnAt(rows', cursor') = current
      OBVIOUS
    <2>1. store \in Store /\ TypeOK
      BY DEF TableInv, TypeOK
    <2>2. rows = None \/ rows.dir # Root
      BY DEF Relisted
    <2>3. ASSUME NEW d \in Dir, NEW names, NEW showDirs, UserEvent,
                 SetRows(NewFileRows(store, d, names), showDirs)
          PROVE  DrawnAt(rows', cursor') = current
      <3> DEFINE r == NewFileRows(store, d, names)
      <3>1. events' \in 1 .. MaxEvents
        BY <2>1, <2>3, EventCounts
      <3>2. /\ r \in FileRows /\ Fits(r) /\ OwnIndex(r)
            /\ \A i, j \in DOMAIN r.all : r.all[i] = r.all[j] => i = j
        BY <2>1, <3>1, NewRows
      <3> HIDE DEF r
      <3>3. SetRows(r, showDirs)
        BY <2>3 DEF r
      <3>4. QED
        BY <2>2, <3>2, <3>3, SetRowsSelects
    <2>4. ASSUME NEW exts, FilterByExtensions(exts) PROVE FALSE
      <3> DEFINE new == SetFilter(rows, [showDirs |-> FALSE, extensions |-> exts])
      <3>1. rows # None /\ (rows' = Drawn(new) \/ rows' = new)
        BY <2>4 DEF FilterByExtensions
      <3>2. rows \in FileRows /\ Fits(rows) /\ OwnIndex(rows)
        BY <3>1 DEF TableInv, TypeOK, RowsOwnIndex
      <3>3. new \in FileRows /\ Fits(new) /\ OwnIndex(new) /\ new.id = rows.id
        BY <3>2, FilteredRows
      <3> HIDE DEF new
      <3>4. rows'.id = rows.id
        BY <3>1, <3>3, DrawnRows
      <3>5. QED
        BY <3>1, <3>4 DEF Relisted
    <2>5. rows' # rows
      BY DEF Relisted
    <2>6. ASSUME NEW j \in jobs, Redraw(j) PROVE FALSE
      <3>1. rows # None /\ rows' = Drawn(rows)
        BY <2>5, <2>6 DEF Redraw
      <3>2. rows \in FileRows /\ Fits(rows) /\ OwnIndex(rows)
        BY <3>1 DEF TableInv, TypeOK, RowsOwnIndex
      <3>3. rows'.id = rows.id
        BY <3>1, <3>2, DrawnRows
      <3>4. QED
        BY <3>1, <3>3 DEF Relisted
    <2>7. QED
      BY <2>3, <2>4, <2>5, <2>6 DEF Next, vars, DataLoaded, NodeError, StoreChange, MoveCursor,
         SetGitStatusText, QueueRedraw, Delete, DeleteEntries, CreateFile, CreateDir
  <1>2. QED
    BY <1>1, FilesTableInvariant, PTL DEF Spec, RememberedIsSelected
=============================================================================
