--------------------------- MODULE SheetSyncProofs ---------------------------
(***************************************************************************)
(* The update of the shared sheet, for any sheets, audits and processes.   *)
(***************************************************************************)
EXTENDS SheetSync, FiniteSetTheorems, WellFoundedInduction, TLAPS

-----------------------------------------------------------------------------
(* Numbers and sequences. *)

(* A nonempty set of numbers up to L has a least one: n is least when the  *)
(* set of those before it is minimal.                                      *)
LEMMA LeastOfSet ==
    ASSUME NEW L \in Nat, NEW T \in SUBSET (0 .. L), T # {}
    PROVE  \E n \in T : \A k \in T : n <= k
<1> DEFINE Before(n) == {k \in T : k < n}
           Heads == {Before(n) : n \in T}
<1>1. IsFiniteSet(T)
  <2>1. 0 \in Int /\ L \in Int
    OBVIOUS
  <2>2. IsFiniteSet(0 .. L)
    BY <2>1, FS_Interval
  <2> QED BY <2>2, FS_Subset
<1>2. Heads \subseteq FiniteSubsetsOf(T) /\ Heads # {}
  <2>1. \A n \in T : Before(n) \in SUBSET T /\ IsFiniteSet(Before(n))
    BY <1>1, FS_Subset
  <2> QED BY <2>1 DEF FiniteSubsetsOf
<1>3. PICK H \in Heads : \A G \in Heads : <<G, H>> \notin StrictSubsetOrdering(T)
  BY <1>1, <1>2, WFMin, FS_StrictSubsetOrderingWellFounded
<1>4. PICK n \in T : H = Before(n)
  OBVIOUS
<1>5. \A k \in T : ~(k < n)
  <2> SUFFICES ASSUME NEW k \in T, k < n PROVE FALSE
    OBVIOUS
  <2>1. \A j \in T : j \in Nat
    OBVIOUS
  <2>2. (\A j \in T : j < k => j < n) /\ ~(k < k)
    BY <2>1
  <2>3. Before(k) \subseteq Before(n) /\ k \in Before(n) /\ k \notin Before(k)
    BY <2>2, Zenon
  <2>4. <<Before(k), Before(n)>> \in StrictSubsetOrdering(T)
    BY <2>3 DEF StrictSubsetOrdering
  <2> QED BY <2>4, <1>3, <1>4
<1>6. \A k \in T : n <= k
  BY <1>5
<1> QED BY <1>6

LEMMA GreatestOfSet ==
    ASSUME NEW L \in Nat, NEW T \in SUBSET (0 .. L), T # {}
    PROVE  \E n \in T : \A k \in T : n >= k
<1> DEFINE D == {L - n : n \in T}
<1>1. D \in SUBSET (0 .. L) /\ D # {}
  <2>1. \A n \in T : L - n \in 0 .. L /\ L - n \in D
    OBVIOUS
  <2>2. ASSUME NEW d \in D PROVE d \in 0 .. L
    BY <2>1
  <2> HIDE DEF D
  <2> QED BY <2>1, <2>2
<1>2. PICK d \in D : \A e \in D : d <= e
  <2> HIDE DEF D
  <2> QED BY <1>1, LeastOfSet
<1>3. PICK n \in T : d = L - n
  OBVIOUS
<1>4. ASSUME NEW k \in T PROVE n >= k
  <2>1. L - k \in D /\ L \in Nat /\ n \in Nat /\ k \in Nat
    OBVIOUS
  <2>2. L - n <= L - k
    BY <1>2, <1>3, <2>1
  <2> QED BY <2>1, <2>2
<1> QED BY <1>4

(* What holds at 0 and, with each number, at the next one, holds up to L.  *)
LEMMA UpTo ==
    ASSUME NEW L \in Nat, NEW T \in SUBSET (0 .. L), 0 \in T,
           \A n \in 1 .. L : n - 1 \in T => n \in T
    PROVE  T = 0 .. L
<1> SUFFICES ASSUME (0 .. L) \ T # {} PROVE FALSE
  OBVIOUS
<1>1. PICK n \in (0 .. L) \ T : \A k \in (0 .. L) \ T : n <= k
  BY LeastOfSet
<1>2. n \in 1 .. L /\ n - 1 \in 0 .. L /\ ~(n <= n - 1)
  BY <1>1
<1>3. n - 1 \in T
  BY <1>1, <1>2
<1> QED BY <1>1, <1>2, <1>3

LEMMA InsertedBetween ==
    ASSUME NEW S, NEW a \in Seq(S), NEW e \in S, NEW b \in Seq(S),
           NEW c, c = (a \o <<e>>) \o b
    PROVE  /\ c \in Seq(S) /\ Len(c) = Len(a) + 1 + Len(b)
           /\ c[Len(a) + 1] = e
           /\ \A k \in 1 .. Len(a) : c[k] = a[k]
           /\ \A k \in 1 .. Len(b) : c[Len(a) + 1 + k] = b[k]
<1>1. Len(a) \in Nat /\ Len(b) \in Nat
  OBVIOUS
<1>2. c \in Seq(S) /\ Len(c) = Len(a) + 1 + Len(b)
  OBVIOUS
<1>3. c[Len(a) + 1] = e
  OBVIOUS
<1>4. \A k \in 1 .. Len(a) : c[k] = a[k]
  OBVIOUS
<1>5. \A k \in 1 .. Len(b) : c[Len(a) + 1 + k] = b[k]
  OBVIOUS
<1> QED BY <1>2, <1>3, <1>4, <1>5

LEMMA Cut ==
    ASSUME NEW S, NEW s \in Seq(S), NEW i \in 1 .. Len(s) + 1
    PROVE  /\ SubSeq(s, 1, i - 1) \in Seq(S) /\ Len(SubSeq(s, 1, i - 1)) = i - 1
           /\ \A k \in 1 .. i - 1 : SubSeq(s, 1, i - 1)[k] = s[k]
           /\ SubSeq(s, i, Len(s)) \in Seq(S) /\ Len(SubSeq(s, i, Len(s))) = Len(s) - i + 1
           /\ \A k \in 1 .. Len(s) - i + 1 : SubSeq(s, i, Len(s))[k] = s[i + k - 1]
<1>1. Len(s) \in Nat /\ i \in Nat /\ i >= 1 /\ i <= Len(s) + 1
  OBVIOUS
<1>2. SubSeq(s, 1, i - 1) \in Seq(S) /\ Len(SubSeq(s, 1, i - 1)) = i - 1
  BY <1>1
<1>3. \A k \in 1 .. i - 1 : SubSeq(s, 1, i - 1)[k] = s[k]
  BY <1>1
<1>4. SubSeq(s, i, Len(s)) \in Seq(S) /\ Len(SubSeq(s, i, Len(s))) = Len(s) - i + 1
  BY <1>1
<1>5. \A k \in 1 .. Len(s) - i + 1 : SubSeq(s, i, Len(s))[k] = s[i + k - 1]
  BY <1>1
<1> QED BY <1>2, <1>3, <1>4, <1>5

(* What InsertAt returns: e in the i-th place, the others in their order.  *)
LEMMA Inserted ==
    ASSUME NEW S, NEW s \in Seq(S), NEW i \in 1 .. Len(s) + 1, NEW e \in S
    PROVE  /\ InsertAt(s, i, e) \in Seq(S) /\ Len(InsertAt(s, i, e)) = Len(s) + 1
           /\ InsertAt(s, i, e)[i] = e
           /\ \A k \in DOMAIN s : InsertAt(s, i, e)[IF k < i THEN k ELSE k + 1] = s[k]
<1>1. Len(s) \in Nat /\ i \in Nat /\ i >= 1 /\ i <= Len(s) + 1
  OBVIOUS
<1>2. PICK a : a = SubSeq(s, 1, i - 1)
  OBVIOUS
<1>3. PICK b : b = SubSeq(s, i, Len(s))
  OBVIOUS
<1>4. a \in Seq(S) /\ Len(a) = i - 1 /\ \A k \in 1 .. i - 1 : a[k] = s[k]
  BY <1>2, Cut
<1>5. b \in Seq(S) /\ Len(b) = Len(s) - i + 1 /\ \A k \in 1 .. Len(s) - i + 1 : b[k] = s[i + k - 1]
  BY <1>3, Cut
<1>6. InsertAt(s, i, e) = (a \o <<e>>) \o b
  BY <1>2, <1>3 DEF InsertAt
<1>7. PICK c : c = (a \o <<e>>) \o b
  OBVIOUS
<1>8. a \in Seq(S) /\ b \in Seq(S) /\ e \in S
  BY <1>4, <1>5
<1>9. c \in Seq(S)
  BY ONLY <1>8, <1>7, InsertedBetween
<1>10. Len(c) = Len(a) + 1 + Len(b)
  BY ONLY <1>8, <1>7, InsertedBetween
<1>11. c[Len(a) + 1] = e
  BY ONLY <1>8, <1>7, InsertedBetween
<1>12. \A k \in 1 .. Len(a) : c[k] = a[k]
  BY ONLY <1>8, <1>7, InsertedBetween
<1>13. \A k \in 1 .. Len(b) : c[Len(a) + 1 + k] = b[k]
  BY ONLY <1>8, <1>7, InsertedBetween
<1>14. c \in Seq(S) /\ Len(c) = Len(a) + 1 + Len(b) /\ c[Len(a) + 1] = e
               /\ (\A k \in 1 .. Len(a) : c[k] = a[k]) /\ \A k \in 1 .. Len(b) : c[Len(a) + 1 + k] = b[k]
  BY <1>9, <1>10, <1>11, <1>12, <1>13
<1>15. c = InsertAt(s, i, e)
  BY <1>6, <1>7
<1>16. c \in Seq(S) /\ Len(c) = Len(s) + 1 /\ c[i] = e
  BY <1>1, <1>4, <1>5, <1>14
<1>17. \A k \in 1 .. i - 1 : c[k] = s[k]
  BY <1>1, <1>4, <1>14
<1>18. ASSUME NEW k \in i .. Len(s) PROVE c[k + 1] = s[k]
  <2>1. k + 1 - i \in 1 .. Len(b) /\ Len(a) + 1 + (k + 1 - i) = k + 1 /\ i + (k + 1 - i) - 1 = k
    BY <1>1, <1>4, <1>5
  <2>2. c[Len(a) + 1 + (k + 1 - i)] = b[k + 1 - i]
    BY <1>14, <2>1
  <2>3. b[k + 1 - i] = s[i + (k + 1 - i) - 1]
    BY <1>5, <2>1
  <2> QED BY <2>1, <2>2, <2>3
<1>19. ASSUME NEW k \in 1 .. Len(s) PROVE c[IF k < i THEN k ELSE k + 1] = s[k]
  <2>1. CASE k < i
    <3>1. k \in 1 .. i - 1
      BY <1>1, <2>1
    <3> QED BY <1>17, <2>1, <3>1
  <2>2. CASE ~(k < i)
    <3>1. k \in i .. Len(s)
      BY <1>1, <2>2
    <3> QED BY <1>18, <2>2, <3>1
  <2> QED BY <2>1, <2>2
<1> QED BY <1>15, <1>16, <1>19

(* What RemoveAt returns: the others, in their order. *)
LEMMA Removed ==
    ASSUME NEW S, NEW s \in Seq(S), NEW i \in 1 .. Len(s)
    PROVE  /\ RemoveAt(s, i) \in Seq(S) /\ Len(RemoveAt(s, i)) = Len(s) - 1
           /\ \A k \in 1 .. Len(s) - 1 : RemoveAt(s, i)[k] = s[IF k < i THEN k ELSE k + 1]
<1>1. Len(s) \in Nat /\ i \in Nat /\ i >= 1 /\ i <= Len(s) /\ i \in 1 .. Len(s) + 1 /\ i + 1 \in 1 .. Len(s) + 1
  OBVIOUS
<1>2. PICK a : a = SubSeq(s, 1, i - 1)
  OBVIOUS
<1>3. PICK b : b = SubSeq(s, i + 1, Len(s))
  OBVIOUS
<1>4. a \in Seq(S) /\ Len(a) = i - 1 /\ \A k \in 1 .. i - 1 : a[k] = s[k]
  BY <1>1, <1>2, Cut
<1>5. b \in Seq(S) /\ Len(b) = Len(s) - (i + 1) + 1 /\ \A k \in 1 .. Len(s) - (i + 1) + 1 : b[k] = s[(i + 1) + k - 1]
  BY <1>1, <1>3, Cut
<1>6. PICK c : c = a \o b
  OBVIOUS
<1>7. RemoveAt(s, i) = c
  BY <1>2, <1>3, <1>6 DEF RemoveAt
<1>8. a \in Seq(S) /\ b \in Seq(S)
  BY <1>4, <1>5
<1>9. /\ c \in Seq(S) /\ Len(c) = Len(a) + Len(b)
      /\ \A k \in 1 .. Len(a) : c[k] = a[k]
      /\ \A k \in 1 .. Len(b) : c[Len(a) + k] = b[k]
  BY ONLY <1>6, <1>8
<1>10. c \in Seq(S) /\ Len(c) = Len(s) - 1
  BY <1>1, <1>4, <1>5, <1>9
<1>11. \A k \in 1 .. i - 1 : c[k] = s[k]
  BY <1>1, <1>4, <1>9
<1>12. ASSUME NEW k \in i .. Len(s) - 1 PROVE c[k] = s[k + 1]
  <2>1. k - i + 1 \in 1 .. Len(b) /\ Len(a) + (k - i + 1) = k /\ (i + 1) + (k - i + 1) - 1 = k + 1
        /\ k - i + 1 \in 1 .. Len(s) - (i + 1) + 1
    BY <1>1, <1>4, <1>5
  <2>2. c[Len(a) + (k - i + 1)] = b[k - i + 1]
    BY <1>9, <2>1
  <2>3. b[k - i + 1] = s[(i + 1) + (k - i + 1) - 1]
    BY <1>5, <2>1
  <2> QED BY <2>1, <2>2, <2>3
<1>13. ASSUME NEW k \in 1 .. Len(s) - 1 PROVE c[k] = s[IF k < i THEN k ELSE k + 1]
  <2>1. CASE k < i
    <3>1. k \in 1 .. i - 1
      BY <1>1, <2>1
    <3> QED BY <1>11, <2>1, <3>1
  <2>2. CASE ~(k < i)
    <3>1. k \in i .. Len(s) - 1
      BY <1>1, <2>2
    <3> QED BY <1>12, <2>2, <3>1
  <2> QED BY <2>1, <2>2
<1> QED BY <1>7, <1>10, <1>13

-----------------------------------------------------------------------------
(* Grids.  Below its last row a grid goes on with blank rows. *)

Place == Nat \ {0}

At(grid, p) == IF p <= Len(grid) THEN grid[p] ELSE BlankRow

Trimmed(grid) == grid # <<>> => grid[Len(grid)] # BlankRow

LEMMA BlankRowIsRow == BlankRow \in Row
BY ConstantsOK DEF BlankRow, Row, Label

LEMMA AtIsRow ==
    ASSUME NEW g \in Seq(Row), NEW p \in Place
    PROVE  At(g, p) \in Row
<1>1. p \in 1 .. Len(g) \/ ~(p <= Len(g))
  BY DEF Place
<1> QED BY <1>1, BlankRowIsRow DEF At

LEMMA PadFacts ==
    ASSUME NEW g \in Seq(Row), NEW n \in Nat
    PROVE  /\ Pad(g, n) \in Seq(Row) /\ Len(Pad(g, n)) = (IF n > Len(g) THEN n ELSE Len(g))
           /\ \A p \in Place : At(Pad(g, n), p) = At(g, p)
<1> DEFINE d == IF n > Len(g) THEN n - Len(g) ELSE 0
           b == [i \in 1 .. d |-> BlankRow]
<1>1. Len(g) \in Nat /\ d \in Nat /\ Len(g) + d = (IF n > Len(g) THEN n ELSE Len(g))
  OBVIOUS
<1>2. b \in Seq(Row) /\ Len(b) = d /\ \A i \in 1 .. d : b[i] = BlankRow
  <2> HIDE DEF d
  <2> QED BY <1>1, BlankRowIsRow
<1>3. Pad(g, n) = g \o b
  BY DEF Pad
<1> HIDE DEF b, d
<1>4. /\ g \o b \in Seq(Row) /\ Len(g \o b) = Len(g) + d
      /\ \A k \in 1 .. Len(g) : (g \o b)[k] = g[k]
      /\ \A k \in 1 .. d : (g \o b)[Len(g) + k] = b[k]
  BY <1>2
<1>5. ASSUME NEW p \in Place PROVE At(g \o b, p) = At(g, p)
  <2>1. CASE p <= Len(g)
    <3>1. p \in 1 .. Len(g) /\ p <= Len(g) + d
      BY <1>1, <2>1 DEF Place
    <3> QED BY <1>4, <2>1, <3>1 DEF At
  <2>2. CASE ~(p <= Len(g)) /\ p <= Len(g) + d
    <3>1. p - Len(g) \in 1 .. d /\ Len(g) + (p - Len(g)) = p
      BY <1>1, <2>2 DEF Place
    <3>2. (g \o b)[Len(g) + (p - Len(g))] = BlankRow
      BY <1>2, <1>4, <3>1
    <3> QED BY <1>4, <2>2, <3>1, <3>2 DEF At
  <2>3. CASE ~(p <= Len(g)) /\ ~(p <= Len(g) + d)
    BY <1>4, <2>3 DEF At
  <2> QED BY <2>1, <2>2, <2>3
<1> QED BY <1>1, <1>3, <1>4, <1>5

LEMMA MaxFacts ==
    ASSUME NEW L \in Nat, NEW T \in SUBSET (0 .. L), T # {}
    PROVE  Max(T) \in T /\ \A k \in T : Max(T) >= k
BY GreatestOfSet DEF Max

LEMMA MinFacts ==
    ASSUME NEW L \in Nat, NEW T \in SUBSET (0 .. L), T # {}
    PROVE  Min(T) \in T /\ \A k \in T : Min(T) <= k
BY LeastOfSet DEF Min

(* Trim leaves out nothing but blank rows. *)
LEMMA TrimFacts ==
    ASSUME NEW g \in Seq(Row)
    PROVE  /\ Trim(g) \in Seq(Row) /\ Trimmed(Trim(g))
           /\ \A p \in Place : At(Trim(g), p) = At(g, p)
<1> DEFINE I == {i \in 1 .. Len(g) : g[i] # BlankRow}
           n == SelectLastInSeq(g, LAMBDA row : row # BlankRow)
<1>0. Len(g) \in Nat
  OBVIOUS
<1>1. n = (IF I # {} THEN Max(I) ELSE 0)
  BY DEF SelectLastInSeq
<1>2. n \in 0 .. Len(g) /\ (n # 0 => n \in I) /\ \A p \in 1 .. Len(g) : p > n => g[p] = BlankRow
  <2>1. CASE I = {}
    <3>1. n = 0
      BY <1>1, <2>1
    <3> HIDE DEF n
    <3> QED BY <1>0, <2>1, <3>1
  <2>2. CASE I # {}
    <3>1. I \in SUBSET (0 .. Len(g))
      OBVIOUS
    <3>2. n \in I /\ \A k \in I : n >= k
      <4> HIDE DEF n, I
      <4> QED BY <1>0, <1>1, <2>2, <3>1, MaxFacts
    <3> HIDE DEF n
    <3> QED BY <1>0, <3>2
  <2> QED BY <2>1, <2>2
<1>3. Trim(g) = SubSeq(g, 1, n)
  BY DEF Trim
<1> HIDE DEF n
<1>4. n + 1 \in 1 .. Len(g) + 1 /\ (n + 1) - 1 = n /\ n \in Nat
  BY <1>0, <1>2
<1>5. SubSeq(g, 1, n) \in Seq(Row) /\ Len(SubSeq(g, 1, n)) = n /\ \A k \in 1 .. n : SubSeq(g, 1, n)[k] = g[k]
  BY <1>0, <1>4, Cut
<1>6. Trimmed(Trim(g))
  <2> SUFFICES ASSUME Trim(g) # <<>> PROVE Trim(g)[Len(Trim(g))] # BlankRow
    BY DEF Trimmed
  <2>1. n # 0
    BY <1>3, <1>5
  <2> QED BY <1>2, <1>3, <1>4, <1>5, <2>1
<1>7. ASSUME NEW p \in Place PROVE At(Trim(g), p) = At(g, p)
  <2>1. CASE p <= n
    <3>1. p \in 1 .. n /\ p <= Len(g)
      BY <1>0, <1>2, <1>4, <2>1 DEF Place
    <3> QED BY <1>3, <1>5, <3>1 DEF At
  <2>2. CASE ~(p <= n)
    <3>1. At(Trim(g), p) = BlankRow
      BY <1>3, <1>5, <2>2 DEF At
    <3>2. p <= Len(g) => p \in 1 .. Len(g) /\ p > n
      BY <1>0, <1>4, <2>2 DEF Place
    <3> QED BY <1>2, <3>1, <3>2 DEF At
  <2> QED BY <2>1, <2>2
<1> QED BY <1>3, <1>5, <1>6, <1>7

(* A trimmed grid is known by its rows. *)
LEMMA SameRowsSameGrid ==
    ASSUME NEW g \in Seq(Row), NEW h \in Seq(Row), Trimmed(g), Trimmed(h),
           \A p \in Place : At(g, p) = At(h, p)
    PROVE  g = h
<1>1. Len(g) \in Nat /\ Len(h) \in Nat
  OBVIOUS
<1>2. ASSUME NEW x \in Seq(Row), NEW y \in Seq(Row), Trimmed(x), \A p \in Place : At(x, p) = At(y, p)
      PROVE  Len(x) <= Len(y)
  <2> SUFFICES ASSUME ~(Len(x) <= Len(y)) PROVE FALSE
    OBVIOUS
  <2>1. Len(x) \in Place /\ x # <<>>
    BY DEF Place
  <2>2. At(x, Len(x)) = x[Len(x)] /\ At(y, Len(x)) = BlankRow
    BY <2>1 DEF At, Place
  <2> QED BY <1>2, <2>1, <2>2 DEF Trimmed
<1>3. Len(g) <= Len(h) /\ Len(h) <= Len(g)
  BY <1>2
<1>4. Len(g) = Len(h)
  BY <1>1, <1>3
<1>5. ASSUME NEW p \in 1 .. Len(g) PROVE g[p] = h[p]
  <2>1. p \in Place /\ p <= Len(g) /\ p <= Len(h)
    BY <1>1, <1>4 DEF Place
  <2> QED BY <2>1 DEF At
<1> QED BY <1>4, <1>5

-----------------------------------------------------------------------------
(* What the operations on rows do to a grid. *)

LEMMA InsertedAt ==
    ASSUME NEW s \in Seq(Row), NEW i \in 1 .. Len(s) + 1, NEW e \in Row, NEW p \in Place
    PROVE  At(InsertAt(s, i, e), p) =
               IF p < i THEN At(s, p) ELSE IF p = i THEN e ELSE At(s, p - 1)
<1> DEFINE t == InsertAt(s, i, e)
<1>1. Len(s) \in Nat /\ i \in Nat /\ i >= 1 /\ i <= Len(s) + 1 /\ p \in Nat /\ p >= 1
  BY DEF Place
<1>2. /\ t \in Seq(Row) /\ Len(t) = Len(s) + 1
      /\ t[i] = e
      /\ \A k \in DOMAIN s : t[IF k < i THEN k ELSE k + 1] = s[k]
  BY Inserted
<1>3. DOMAIN s = 1 .. Len(s)
  OBVIOUS
<1> HIDE DEF t
<1>4. CASE p < i
  <2>1. p \in DOMAIN s /\ p <= Len(s) /\ p <= Len(t)
    BY <1>1, <1>2, <1>3, <1>4
  <2>2. t[p] = s[p]
    BY <1>2, <1>4, <2>1
  <2> QED BY <1>4, <2>1, <2>2 DEF At, t
<1>5. CASE p = i
  BY <1>1, <1>2, <1>5 DEF At, t
<1>6. CASE p > i /\ p <= Len(s) + 1
  <2>1. p - 1 \in DOMAIN s /\ ~(p - 1 < i) /\ (p - 1) + 1 = p /\ p - 1 <= Len(s) /\ ~(p < i) /\ p # i
    BY <1>1, <1>3, <1>6
  <2>2. t[p] = s[p - 1]
    BY <1>2, <2>1
  <2> QED BY <1>2, <1>6, <2>1, <2>2 DEF At, t
<1>7. CASE p > i /\ ~(p <= Len(s) + 1)
  BY <1>1, <1>2, <1>7 DEF At, t
<1> QED BY <1>1, <1>4, <1>5, <1>6, <1>7

LEMMA RemovedAt ==
    ASSUME NEW s \in Seq(Row), NEW i \in 1 .. Len(s), NEW p \in Place
    PROVE  At(RemoveAt(s, i), p) = At(s, IF p < i THEN p ELSE p + 1)
<1> DEFINE t == RemoveAt(s, i)
<1>1. Len(s) \in Nat /\ i \in Nat /\ i >= 1 /\ i <= Len(s) /\ p \in Nat /\ p >= 1
  BY DEF Place
<1>2. /\ t \in Seq(Row) /\ Len(t) = Len(s) - 1
      /\ \A k \in 1 .. Len(s) - 1 : t[k] = s[IF k < i THEN k ELSE k + 1]
  BY Removed
<1> HIDE DEF t
<1>3. CASE p <= Len(s) - 1
  <2>1. p \in 1 .. Len(s) - 1 /\ (IF p < i THEN p ELSE p + 1) <= Len(s) /\ p <= Len(t)
    BY <1>1, <1>2, <1>3
  <2> QED BY <1>2, <2>1 DEF At, t
<1>4. CASE ~(p <= Len(s) - 1)
  <2>1. ~(p < i) /\ ~(p + 1 <= Len(s)) /\ ~(p <= Len(t))
    BY <1>1, <1>2, <1>4
  <2> QED BY <2>1 DEF At, t
<1> QED BY <1>3, <1>4

LEMMA ShiftFacts ==
    ASSUME NEW s \in Seq(Row), NEW i \in 1 .. Len(s), NEW j \in 1 .. Len(s), i < j
    PROVE  /\ Shift(s, j, i) \in Seq(Row) /\ Len(Shift(s, j, i)) = Len(s)
           /\ \A p \in Place : At(Shift(s, j, i), p) =
                  IF p < i \/ p > j THEN At(s, p) ELSE IF p = i THEN At(s, j) ELSE At(s, p - 1)
<1> DEFINE t == RemoveAt(s, j)
<1>1. Len(s) \in Nat /\ i \in Nat /\ i >= 1 /\ j \in Nat /\ j <= Len(s)
  OBVIOUS
<1>2. t \in Seq(Row) /\ Len(t) = Len(s) - 1
  BY Removed
<1>3. s[j] \in Row /\ At(s, j) = s[j]
  BY <1>1 DEF At
<1>4. \A p \in Place : At(t, p) = At(s, IF p < j THEN p ELSE p + 1)
  BY RemovedAt
<1>5. Shift(s, j, i) = InsertAt(t, i, s[j])
  BY DEF Shift
<1> HIDE DEF t
<1>6. i \in 1 .. Len(t) + 1
  BY <1>1, <1>2
<1>7. InsertAt(t, i, s[j]) \in Seq(Row) /\ Len(InsertAt(t, i, s[j])) = Len(t) + 1
  BY <1>2, <1>3, <1>6, Inserted
<1>8. ASSUME NEW p \in Place
      PROVE  At(InsertAt(t, i, s[j]), p) =
                 IF p < i \/ p > j THEN At(s, p) ELSE IF p = i THEN At(s, j) ELSE At(s, p - 1)
  <2>1. At(InsertAt(t, i, s[j]), p) = IF p < i THEN At(t, p) ELSE IF p = i THEN s[j] ELSE At(t, p - 1)
    BY <1>2, <1>3, <1>6, InsertedAt
  <2>2. p \in Nat /\ p >= 1
    BY DEF Place
  <2>3. CASE p < i
    <3>1. p < j
      BY <1>1, <2>2, <2>3
    <3> QED BY <1>4, <2>1, <2>3, <3>1
  <2>4. CASE p = i
    <3>1. ~(p < i) /\ ~(p > j)
      BY <1>1, <2>2, <2>4
    <3> QED BY <1>3, <2>1, <2>4, <3>1
  <2>5. CASE p > i /\ p <= j
    <3>1. p - 1 < j /\ p - 1 \in Place /\ ~(p < i) /\ ~(p > j) /\ p # i
      BY <1>1, <2>2, <2>5 DEF Place
    <3> QED BY <1>4, <2>1, <3>1
  <2>6. CASE p > j
    <3>1. ~(p - 1 < j) /\ p - 1 \in Place /\ ~(p < i) /\ p # i /\ (p - 1) + 1 = p
      BY <1>1, <2>2, <2>6 DEF Place
    <3> QED BY <1>4, <2>1, <2>6, <3>1
  <2> QED BY <1>1, <2>2, <2>3, <2>4, <2>5, <2>6
<1> QED BY <1>1, <1>2, <1>5, <1>7, <1>8

LEMMA InsertApplied ==
    ASSUME NEW g \in Seq(Row), NEW i \in Place
    PROVE  /\ ApplyOp(g, Insert(i)) \in Seq(Row)
           /\ \A p \in Place : At(ApplyOp(g, Insert(i)), p) =
                  IF p < i THEN At(g, p) ELSE IF p = i THEN BlankRow ELSE At(g, p - 1)
<1>1. PICK h : h = Pad(g, i)
  OBVIOUS
<1>2. h \in Seq(Row) /\ Len(h) = (IF i > Len(g) THEN i ELSE Len(g)) /\ \A p \in Place : At(h, p) = At(g, p)
  BY <1>1, PadFacts DEF Place
<1>3. i \in 1 .. Len(h) + 1 /\ BlankRow \in Row
  BY <1>2, BlankRowIsRow DEF Place
<1>4. ApplyOp(g, Insert(i)) = InsertAt(h, i, BlankRow)
  BY <1>1 DEF ApplyOp, Insert, Place
<1>5. InsertAt(h, i, BlankRow) \in Seq(Row)
  BY <1>2, <1>3, Inserted
<1>6. ASSUME NEW p \in Place
      PROVE  At(InsertAt(h, i, BlankRow), p) = IF p < i THEN At(g, p) ELSE IF p = i THEN BlankRow ELSE At(g, p - 1)
  <2>1. At(InsertAt(h, i, BlankRow), p) = IF p < i THEN At(h, p) ELSE IF p = i THEN BlankRow ELSE At(h, p - 1)
    BY <1>2, <1>3, InsertedAt
  <2>2. ~(p < i) /\ p # i => p - 1 \in Place
    BY DEF Place
  <2> QED BY <1>2, <2>1, <2>2
<1> QED BY <1>4, <1>5, <1>6

LEMMA DeleteApplied ==
    ASSUME NEW g \in Seq(Row), NEW i \in Place
    PROVE  /\ ApplyOp(g, Delete(i)) \in Seq(Row)
           /\ \A p \in Place : At(ApplyOp(g, Delete(i)), p) = At(g, IF p < i THEN p ELSE p + 1)
<1>1. PICK h : h = Pad(g, i)
  OBVIOUS
<1>2. h \in Seq(Row) /\ Len(h) = (IF i > Len(g) THEN i ELSE Len(g)) /\ \A p \in Place : At(h, p) = At(g, p)
  BY <1>1, PadFacts DEF Place
<1>3. i \in 1 .. Len(h)
  BY <1>2 DEF Place
<1>4. ApplyOp(g, Delete(i)) = RemoveAt(h, i)
  BY <1>1 DEF ApplyOp, Delete, Place
<1>5. RemoveAt(h, i) \in Seq(Row)
  BY <1>2, <1>3, Removed
<1>6. ASSUME NEW p \in Place
      PROVE  At(RemoveAt(h, i), p) = At(g, IF p < i THEN p ELSE p + 1)
  <2>1. At(RemoveAt(h, i), p) = At(h, IF p < i THEN p ELSE p + 1)
    BY <1>2, <1>3, RemovedAt
  <2>2. p + 1 \in Place
    BY DEF Place
  <2> QED BY <1>2, <2>1, <2>2
<1> QED BY <1>4, <1>5, <1>6

LEMMA MoveApplied ==
    ASSUME NEW g \in Seq(Row), NEW i \in Place, NEW j \in Place, i < j
    PROVE  /\ ApplyOp(g, Move(j, i)) \in Seq(Row)
           /\ \A p \in Place : At(ApplyOp(g, Move(j, i)), p) =
                  IF p < i \/ p > j THEN At(g, p) ELSE IF p = i THEN At(g, j) ELSE At(g, p - 1)
<1>1. PICK h : h = Pad(g, j)
  OBVIOUS
<1>2. h \in Seq(Row) /\ Len(h) = (IF j > Len(g) THEN j ELSE Len(g)) /\ \A p \in Place : At(h, p) = At(g, p)
  BY <1>1, PadFacts DEF Place
<1>3. i \in 1 .. Len(h) /\ j \in 1 .. Len(h) /\ j > i
  BY <1>2 DEF Place
<1>4. ApplyOp(g, Move(j, i)) = Shift(h, j, i)
  BY <1>1, <1>3 DEF ApplyOp, Move
<1>5. /\ Shift(h, j, i) \in Seq(Row) /\ Len(Shift(h, j, i)) = Len(h)
      /\ \A p \in Place : At(Shift(h, j, i), p) =
             IF p < i \/ p > j THEN At(h, p) ELSE IF p = i THEN At(h, j) ELSE At(h, p - 1)
  BY <1>2, <1>3, ShiftFacts
<1>6. ASSUME NEW p \in Place
      PROVE  At(Shift(h, j, i), p) = IF p < i \/ p > j THEN At(g, p) ELSE IF p = i THEN At(g, j) ELSE At(g, p - 1)
  <2>1. ~(p < i \/ p > j) /\ p # i => p - 1 \in Place
    BY DEF Place
  <2> QED BY <1>2, <1>5, <2>1
<1> QED BY <1>4, <1>5, <1>6

-----------------------------------------------------------------------------
(* Sequences of operations. *)

(* f is the grid after each of the first L operations. *)
Grids(f, grid, ops, L) == f[0] = grid /\ \A n \in 1 .. L : f[n] = ApplyOp(f[n - 1], ops[n])

LEMMA AppliedHasGrids ==
    ASSUME NEW grid, NEW ops, Len(ops) \in Nat
    PROVE  \E f : Grids(f, grid, ops, Len(ops)) /\ Applied(grid, ops) = f[Len(ops)]
<1> DEFINE L == Len(ops)
           Step(g, n) == IF n = 0 THEN grid ELSE ApplyOp(g[n - 1], ops[n])
           Upto(g, n) == g = [k \in 0 .. n |-> Step(g, k)]
           Good == {n \in 0 .. L : \E g : Upto(g, n)}
<1>1. L \in Nat
  OBVIOUS
<1>2. Good = 0 .. L
  <2>1. 0 \in Good
    <3>1. Upto([k \in 0 .. 0 |-> grid], 0)
      OBVIOUS
    <3>2. \E g : Upto(g, 0)
      <4> HIDE DEF Upto
      <4> QED BY <3>1
    <3> HIDE DEF Upto
    <3> QED BY <1>1, <3>2
  <2>2. ASSUME NEW n \in 1 .. L, n - 1 \in Good PROVE n \in Good
    <3>1. PICK g : Upto(g, n - 1)
      BY <2>2
    <3> DEFINE h == [k \in 0 .. n |-> IF k = n THEN Step(g, n) ELSE g[k]]
    <3>2. n \in Nat /\ n # 0 /\ n \in 0 .. L
      BY <1>1
    <3>3. \A k \in 0 .. n - 1 : h[k] = g[k]
      BY <3>2
    <3>4. \A k \in 0 .. n : Step(h, k) = Step(g, k)
      <4> SUFFICES ASSUME NEW k \in 0 .. n, k # 0 PROVE h[k - 1] = g[k - 1]
        OBVIOUS
      <4>1. k - 1 \in 0 .. n - 1
        BY <3>2
      <4> QED BY <4>1, <3>3
    <3>5. \A k \in 0 .. n : h[k] = Step(g, k)
      <4> SUFFICES ASSUME NEW k \in 0 .. n, k # n PROVE g[k] = Step(g, k)
        OBVIOUS
      <4>1. k \in 0 .. n - 1
        BY <3>2
      <4> QED BY <4>1, <3>1
    <3>6. Upto(h, n)
      <4>1. h = [k \in 0 .. n |-> h[k]]
        OBVIOUS
      <4> HIDE DEF h, Step
      <4> QED BY <4>1, <3>4, <3>5
    <3>7. \E f : Upto(f, n)
      <4> HIDE DEF Upto, h
      <4> QED BY <3>6
    <3> HIDE DEF Upto
    <3> QED BY <3>2, <3>7
  <2>3. Good \in SUBSET (0 .. L)
    OBVIOUS
  <2> HIDE DEF Good
  <2> QED BY <1>1, <2>1, <2>2, <2>3, UpTo
<1>3. \E g : Upto(g, L)
  <2>1. L \in Good
    <3> HIDE DEF Good
    <3> QED BY <1>1, <1>2
  <2> QED BY <2>1
<1>4. PICK f : f = CHOOSE g : Upto(g, L)
  OBVIOUS
<1>5. Applied(grid, ops) = f[L]
  BY <1>4 DEF Applied
<1> HIDE DEF Step, L
<1>6. Upto(f, L)
  BY <1>3, <1>4
<1>7. \A n \in 0 .. L : f[n] = Step(f, n)
  BY <1>6
<1>8. f[0] = grid
  BY <1>1, <1>7 DEF Step
<1>9. ASSUME NEW n \in 1 .. L PROVE f[n] = ApplyOp(f[n - 1], ops[n])
  BY <1>1, <1>7 DEF Step
<1> QED BY <1>5, <1>8, <1>9 DEF L, Grids

LEMMA AppliedIsLast ==
    ASSUME NEW grid, NEW ops, Len(ops) \in Nat, NEW f, Grids(f, grid, ops, Len(ops))
    PROVE  Applied(grid, ops) = f[Len(ops)]
<1>1. PICK h : Grids(h, grid, ops, Len(ops)) /\ Applied(grid, ops) = h[Len(ops)]
  BY AppliedHasGrids
<1> DEFINE T == {n \in 0 .. Len(ops) : f[n] = h[n]}
<1>2. 0 \in T
  BY <1>1 DEF Grids
<1>3. ASSUME NEW n \in 1 .. Len(ops), n - 1 \in T PROVE n \in T
  BY <1>1, <1>3 DEF Grids
<1>4. T \in SUBSET (0 .. Len(ops))
  OBVIOUS
<1>5. T = 0 .. Len(ops)
  <2> HIDE DEF T
  <2> QED BY <1>2, <1>3, <1>4, UpTo
<1>6. Len(ops) \in T
  <2> HIDE DEF T
  <2> QED BY <1>5
<1> QED BY <1>1, <1>6

LEMMA NothingApplied ==
    ASSUME NEW grid
    PROVE  Applied(grid, <<>>) = grid
<1>1. PICK f : Grids(f, grid, <<>>, Len(<<>>)) /\ Applied(grid, <<>>) = f[Len(<<>>)]
  BY AppliedHasGrids
<1> QED BY <1>1 DEF Grids

LEMMA OneApplied ==
    ASSUME NEW grid, NEW op
    PROVE  Applied(grid, <<op>>) = ApplyOp(grid, op)
<1>0. Len(<<op>>) = 1 /\ <<op>>[1] = op
  OBVIOUS
<1>1. PICK f : Grids(f, grid, <<op>>, Len(<<op>>)) /\ Applied(grid, <<op>>) = f[Len(<<op>>)]
  BY <1>0, AppliedHasGrids
<1>2. f[0] = grid /\ f[1] = ApplyOp(f[1 - 1], <<op>>[1])
  BY <1>0, <1>1 DEF Grids
<1> QED BY <1>0, <1>1, <1>2

LEMMA AppliedInTurn ==
    ASSUME NEW grid, NEW S, NEW a \in Seq(S), NEW b \in Seq(S)
    PROVE  Applied(grid, a \o b) = Applied(Applied(grid, a), b)
<1>1. Len(a) \in Nat /\ Len(b) \in Nat
  OBVIOUS
<1>2. PICK c : c = a \o b
  OBVIOUS
<1>3. /\ Len(c) = Len(a) + Len(b)
      /\ \A k \in 1 .. Len(a) : c[k] = a[k]
      /\ \A k \in 1 .. Len(b) : c[Len(a) + k] = b[k]
  BY <1>2
<1>4. PICK f : Grids(f, grid, a, Len(a)) /\ Applied(grid, a) = f[Len(a)]
  BY <1>1, AppliedHasGrids
<1>5. PICK h : Grids(h, Applied(grid, a), b, Len(b)) /\ Applied(Applied(grid, a), b) = h[Len(b)]
  BY <1>1, AppliedHasGrids
<1> DEFINE e == [n \in 0 .. Len(c) |-> IF n <= Len(a) THEN f[n] ELSE h[n - Len(a)]]
<1>6. \A n \in 0 .. Len(a) : e[n] = f[n]
  BY <1>1, <1>3
<1>7. ASSUME NEW n \in 0 .. Len(b) PROVE e[Len(a) + n] = h[n]
  <2>1. Len(a) + n \in 0 .. Len(c) /\ (Len(a) + n) - Len(a) = n /\ (Len(a) + n <= Len(a) => n = 0)
    BY <1>1, <1>3
  <2>2. n = 0 => f[Len(a) + n] = h[n]
    BY <1>1, <1>4, <1>5 DEF Grids
  <2> QED BY <2>1, <2>2
<1> HIDE DEF e
<1>8. ASSUME NEW n \in 1 .. Len(c) PROVE e[n] = ApplyOp(e[n - 1], c[n])
  <2>1. CASE n <= Len(a)
    <3>1. n \in 1 .. Len(a) /\ n \in 0 .. Len(a) /\ n - 1 \in 0 .. Len(a)
      BY <1>1, <2>1
    <3> QED BY <1>3, <1>4, <1>6, <3>1 DEF Grids
  <2>2. CASE ~(n <= Len(a))
    <3>1. PICK m \in 1 .. Len(b) : n = Len(a) + m
      <4>1. n - Len(a) \in 1 .. Len(b) /\ n = Len(a) + (n - Len(a))
        BY <1>1, <1>3, <2>2
      <4> QED BY <4>1
    <3>2. m \in 0 .. Len(b) /\ m - 1 \in 0 .. Len(b) /\ n - 1 = Len(a) + (m - 1)
      BY <1>1, <3>1
    <3>3. e[n] = h[m] /\ e[n - 1] = h[m - 1] /\ c[n] = b[m]
      BY <1>3, <1>7, <3>1, <3>2
    <3> QED BY <1>5, <3>3 DEF Grids
  <2> QED BY <2>1, <2>2
<1>9. e[0] = grid
  BY <1>1, <1>4, <1>6 DEF Grids
<1>10. Grids(e, grid, c, Len(c)) /\ Len(c) \in Nat
  BY <1>1, <1>3, <1>8, <1>9 DEF Grids
<1>11. Applied(grid, c) = e[Len(c)]
  BY <1>10, AppliedIsLast
<1>12. e[Len(c)] = h[Len(b)]
  BY <1>1, <1>3, <1>7
<1> QED BY <1>2, <1>5, <1>11, <1>12

LEMMA FirstApplied ==
    ASSUME NEW grid, NEW S, NEW op \in S, NEW b \in Seq(S)
    PROVE  Applied(grid, <<op>> \o b) = Applied(ApplyOp(grid, op), b)
<1>1. <<op>> \in Seq(S)
  OBVIOUS
<1>2. Applied(grid, <<op>> \o b) = Applied(Applied(grid, <<op>>), b)
  <2>1. PICK x : x = <<op>>
    OBVIOUS
  <2>2. x \in Seq(S) /\ b \in Seq(S)
    BY <1>1, <2>1
  <2>3. Applied(grid, x \o b) = Applied(Applied(grid, x), b)
    BY ONLY <2>2, AppliedInTurn
  <2> QED BY <2>1, <2>3
<1>3. Applied(grid, <<op>>) = ApplyOp(grid, op)
  BY OneApplied, Zenon
<1> QED BY <1>2, <1>3, Zenon

LEMMA LastApplied ==
    ASSUME NEW grid, NEW S, NEW op \in S, NEW a \in Seq(S)
    PROVE  Applied(grid, Append(a, op)) = ApplyOp(Applied(grid, a), op)
<1>1. <<op>> \in Seq(S) /\ Append(a, op) = a \o <<op>>
  OBVIOUS
<1>2. Applied(grid, a \o <<op>>) = Applied(Applied(grid, a), <<op>>)
  <2>1. PICK x : x = <<op>>
    OBVIOUS
  <2>2. a \in Seq(S) /\ x \in Seq(S)
    BY <1>1, <2>1
  <2>3. Applied(grid, a \o x) = Applied(Applied(grid, a), x)
    BY ONLY <2>2, AppliedInTurn
  <2> QED BY <2>1, <2>3
<1>3. Applied(Applied(grid, a), <<op>>) = ApplyOp(Applied(grid, a), op)
  BY OneApplied, Zenon
<1> QED BY <1>1, <1>2, <1>3, Zenon

-----------------------------------------------------------------------------
(* How often a key occurs. *)

LEMMA CountFacts ==
    ASSUME NEW rows, NEW k
    PROVE  /\ Count(rows, k, 0) = 0
           /\ \A n \in Nat : Count(rows, k, n) \in Nat
           /\ \A n \in Place : Count(rows, k, n) =
                  Count(rows, k, n - 1) + (IF rows[n].key = k THEN 1 ELSE 0)
<1> DEFINE S(n) == {j \in 1 .. n : rows[j].key = k}
<1>1. ASSUME NEW n \in Nat PROVE IsFiniteSet(S(n)) /\ Cardinality(S(n)) \in Nat
  <2>1. IsFiniteSet(1 .. n)
    <3>1. 1 \in Int /\ n \in Int
      OBVIOUS
    <3> QED BY <3>1, FS_Interval
  <2>2. S(n) \in SUBSET (1 .. n)
    OBVIOUS
  <2>3. IsFiniteSet(S(n))
    BY <2>1, <2>2, FS_Subset
  <2> QED BY <2>3, FS_CardinalityType
<1>2. Cardinality(S(0)) = 0
  <2>1. S(0) = {}
    OBVIOUS
  <2> QED BY <2>1, FS_EmptySet
<1>3. ASSUME NEW n \in Place
      PROVE  Cardinality(S(n)) = Cardinality(S(n - 1)) + (IF rows[n].key = k THEN 1 ELSE 0)
  <2>0. n \in Nat /\ n - 1 \in Nat /\ n \notin 1 .. n - 1
    BY DEF Place
  <2>1. CASE rows[n].key = k
    <3>1. S(n) = S(n - 1) \cup {n} /\ n \notin S(n - 1)
      BY <2>0, <2>1
    <3>2. IsFiniteSet(S(n - 1)) /\ Cardinality(S(n - 1)) \in Nat
      BY <1>1, <2>0
    <3> HIDE DEF S
    <3> QED BY <2>1, <3>1, <3>2, FS_AddElement
  <2>2. CASE rows[n].key # k
    <3>1. S(n) = S(n - 1)
      BY <2>0, <2>2
    <3>2. Cardinality(S(n - 1)) \in Nat
      BY <1>1, <2>0
    <3> HIDE DEF S
    <3> QED BY <2>2, <3>1, <3>2
  <2> QED BY <2>1, <2>2
<1> QED BY <1>1, <1>2, <1>3 DEF Count

LEMMA SameCount ==
    ASSUME NEW rows, NEW others, NEW k, NEW n \in Nat, \A j \in 1 .. n : rows[j] = others[j]
    PROVE  Count(rows, k, n) = Count(others, k, n)
<1>1. {j \in 1 .. n : rows[j].key = k} = {j \in 1 .. n : others[j].key = k}
  OBVIOUS
<1> QED BY <1>1 DEF Count

-----------------------------------------------------------------------------
(* The first pass of the planner: the rows that stay. *)

Op == {o \in [kind : {"insert", "delete", "move"}, at : Place, from : Nat] : o.kind = "move" => o.at < o.from}

NothingThinned == [slots |-> <<>>, ops |-> <<>>]

(* f is the plan after each of the previous rows. *)
ThinPlans(f, slots, audit, start) ==
    /\ f[0] = NothingThinned
    /\ \A n \in 1 .. Len(slots) : f[n] = Thin(f[n - 1], slots, audit, n, start)
    /\ Thinned(slots, audit, start) = f[Len(slots)]

LEMMA ThinPlansExist ==
    ASSUME NEW slots, NEW audit, NEW start, Len(slots) \in Nat
    PROVE  \E f : ThinPlans(f, slots, audit, start)
<1> DEFINE L == Len(slots)
           Step(g, n) == IF n = 0 THEN [slots |-> <<>>, ops |-> <<>>] ELSE Thin(g[n - 1], slots, audit, n, start)
           Upto(g, n) == g = [k \in 0 .. n |-> Step(g, k)]
           Good == {n \in 0 .. L : \E g : Upto(g, n)}
<1>1. L \in Nat
  OBVIOUS
<1>2. Good = 0 .. L
  <2>1. 0 \in Good
    <3>1. Upto([k \in 0 .. 0 |-> [slots |-> <<>>, ops |-> <<>>]], 0)
      OBVIOUS
    <3>2. \E g : Upto(g, 0)
      <4> HIDE DEF Upto
      <4> QED BY <3>1
    <3> HIDE DEF Upto
    <3> QED BY <1>1, <3>2
  <2>2. ASSUME NEW n \in 1 .. L, n - 1 \in Good PROVE n \in Good
    <3>1. PICK g : Upto(g, n - 1)
      BY <2>2
    <3> DEFINE h == [k \in 0 .. n |-> IF k = n THEN Step(g, n) ELSE g[k]]
    <3>2. n \in Nat /\ n # 0 /\ n \in 0 .. L
      BY <1>1
    <3>3. \A k \in 0 .. n - 1 : h[k] = g[k]
      BY <3>2
    <3>4. \A k \in 0 .. n : Step(h, k) = Step(g, k)
      <4> SUFFICES ASSUME NEW k \in 0 .. n, k # 0 PROVE h[k - 1] = g[k - 1]
        OBVIOUS
      <4>1. k - 1 \in 0 .. n - 1
        BY <3>2
      <4> QED BY <4>1, <3>3
    <3>5. \A k \in 0 .. n : h[k] = Step(g, k)
      <4> SUFFICES ASSUME NEW k \in 0 .. n, k # n PROVE g[k] = Step(g, k)
        OBVIOUS
      <4>1. k \in 0 .. n - 1
        BY <3>2
      <4> QED BY <4>1, <3>1
    <3>6. Upto(h, n)
      <4>1. h = [k \in 0 .. n |-> h[k]]
        OBVIOUS
      <4> HIDE DEF h, Step
      <4> QED BY <4>1, <3>4, <3>5
    <3>7. \E f : Upto(f, n)
      <4> HIDE DEF Upto, h
      <4> QED BY <3>6
    <3> HIDE DEF Upto
    <3> QED BY <3>2, <3>7
  <2>3. Good \in SUBSET (0 .. L)
    OBVIOUS
  <2> HIDE DEF Good
  <2> QED BY <1>1, <2>1, <2>2, <2>3, UpTo
<1>3. \E g : Upto(g, L)
  <2>1. L \in Good
    <3> HIDE DEF Good
    <3> QED BY <1>1, <1>2
  <2> QED BY <2>1
<1>4. PICK f : f = CHOOSE g : Upto(g, L)
  OBVIOUS
<1>5. Thinned(slots, audit, start) = f[L]
  BY <1>4 DEF Thinned
<1> HIDE DEF Step, L
<1>6. Upto(f, L)
  BY <1>3, <1>4
<1>7. \A n \in 0 .. L : f[n] = Step(f, n)
  BY <1>6
<1>8. f[0] = [slots |-> <<>>, ops |-> <<>>]
  BY <1>1, <1>7 DEF Step
<1>9. ASSUME NEW n \in 1 .. L PROVE f[n] = Thin(f[n - 1], slots, audit, n, start)
  BY <1>1, <1>7 DEF Step
<1> QED BY <1>5, <1>8, <1>9 DEF L, ThinPlans, NothingThinned

(* What Thin does, by cases. *)
LEMMA ThinStep ==
    ASSUME NEW plan, NEW slots, NEW audit, NEW i, NEW start
    PROVE  /\ Kept(slots, audit, i) =>
                  /\ Thin(plan, slots, audit, i, start).slots = Append(plan.slots, slots[i])
                  /\ Thin(plan, slots, audit, i, start).ops = plan.ops
           /\ ~Kept(slots, audit, i) =>
                  /\ Thin(plan, slots, audit, i, start).slots = plan.slots
                  /\ Thin(plan, slots, audit, i, start).ops = <<Delete(start + i)>> \o plan.ops
BY DEF Thin, DeleteOps

LEMMA DeleteIsOp ==
    ASSUME NEW i \in Place
    PROVE  Delete(i) \in Op
BY DEF Delete, Op

(* The rows that stay are rows that were there, and the operations are     *)
(* operations.                                                             *)
ThinTyped(plan, slots, n) ==
    /\ plan.slots \in Seq(Row)
    /\ plan.ops \in Seq(Op)
    /\ \A m \in 1 .. Len(plan.slots) :
           plan.slots[m].key # Blank /\ \E i \in 1 .. n : plan.slots[m] = slots[i]

LEMMA ThinKeepsTyped ==
    ASSUME NEW slots \in Seq(Row), NEW audit, NEW start \in Nat, NEW plan, NEW n \in 1 .. Len(slots),
           ThinTyped(plan, slots, n - 1)
    PROVE  ThinTyped(Thin(plan, slots, audit, n, start), slots, n)
<1>0. PICK next : next = Thin(plan, slots, audit, n, start)
  OBVIOUS
<1>a. /\ Kept(slots, audit, n) =>
             /\ next.slots = Append(plan.slots, slots[n])
             /\ next.ops = plan.ops
      /\ ~Kept(slots, audit, n) =>
             /\ next.slots = plan.slots
             /\ next.ops = <<Delete(start + n)>> \o plan.ops
  <2>1. /\ Kept(slots, audit, n) =>
               /\ Thin(plan, slots, audit, n, start).slots = Append(plan.slots, slots[n])
               /\ Thin(plan, slots, audit, n, start).ops = plan.ops
        /\ ~Kept(slots, audit, n) =>
               /\ Thin(plan, slots, audit, n, start).slots = plan.slots
               /\ Thin(plan, slots, audit, n, start).ops = <<Delete(start + n)>> \o plan.ops
    BY ONLY ThinStep
  <2> QED BY ONLY <1>0, <2>1
<1>1. CASE Kept(slots, audit, n)
  <2>1. PICK T : T = plan.slots
    OBVIOUS
  <2>2. T \in Seq(Row) /\ slots[n] \in Row /\ slots[n].key # Blank
    BY <1>1, <2>1 DEF ThinTyped, Kept
  <2>3. next.slots = Append(T, slots[n]) /\ next.ops = plan.ops
    BY <1>1, <1>a, <2>1
  <2>4. /\ Append(T, slots[n]) \in Seq(Row) /\ Len(Append(T, slots[n])) = Len(T) + 1
        /\ Append(T, slots[n])[Len(T) + 1] = slots[n]
        /\ \A m \in 1 .. Len(T) : Append(T, slots[n])[m] = T[m]
    BY <2>2
  <2>5. ASSUME NEW m \in 1 .. Len(next.slots)
        PROVE  next.slots[m].key # Blank /\ \E i \in 1 .. n : next.slots[m] = slots[i]
    <3>1. CASE m = Len(T) + 1
      <4>1. next.slots[m] = slots[n] /\ n \in 1 .. n
        BY <2>3, <2>4, <3>1
      <4> QED BY <2>2, <4>1
    <3>2. CASE m # Len(T) + 1
      <4>1. m \in 1 .. Len(T)
        BY <2>2, <2>3, <2>4, <3>2
      <4>2. next.slots[m] = T[m] /\ \A i \in 1 .. n - 1 : i \in 1 .. n
        BY <2>3, <2>4, <4>1
      <4> QED BY <2>1, <4>1, <4>2 DEF ThinTyped
    <3> QED BY <3>1, <3>2
  <2> QED BY <1>0, <2>3, <2>4, <2>5 DEF ThinTyped
<1>2. CASE ~Kept(slots, audit, n)
  <2>1. PICK O : O = plan.ops
    OBVIOUS
  <2>2. PICK d : d = Delete(start + n)
    OBVIOUS
  <2>3. O \in Seq(Op) /\ d \in Op
    <3>1. start + n \in Place
      BY DEF Place
    <3> QED BY <2>1, <2>2, <3>1, DeleteIsOp DEF ThinTyped
  <2>4. <<d>> \o O \in Seq(Op)
    BY <2>3
  <2>5. next.slots = plan.slots /\ next.ops = <<d>> \o O
    BY <1>2, <1>a, <2>1, <2>2
  <2>6. \A i \in 1 .. n - 1 : i \in 1 .. n
    OBVIOUS
  <2> QED BY <1>0, <2>4, <2>5, <2>6 DEF ThinTyped
<1> QED BY <1>1, <1>2

LEMMA ThinPlansTyped ==
    ASSUME NEW slots \in Seq(Row), NEW audit, NEW start \in Nat, NEW f, ThinPlans(f, slots, audit, start)
    PROVE  \A n \in 0 .. Len(slots) : ThinTyped(f[n], slots, n)
<1> DEFINE T == {n \in 0 .. Len(slots) : ThinTyped(f[n], slots, n)}
<1>1. 0 \in T
  <2>1. f[0].slots = <<>> /\ f[0].ops = <<>>
    BY DEF ThinPlans, NothingThinned
  <2>2. ThinTyped(f[0], slots, 0)
    BY <2>1 DEF ThinTyped
  <2> QED BY <2>2
<1>2. ASSUME NEW n \in 1 .. Len(slots), n - 1 \in T PROVE n \in T
  <2>1. ThinTyped(f[n - 1], slots, n - 1) /\ f[n] = Thin(f[n - 1], slots, audit, n, start)
    BY <1>2 DEF ThinPlans
  <2>2. ThinTyped(f[n], slots, n)
    BY <2>1, ThinKeepsTyped
  <2> QED BY <2>2
<1>3. T \in SUBSET (0 .. Len(slots)) /\ Len(slots) \in Nat
  OBVIOUS
<1>4. T = 0 .. Len(slots)
  <2> HIDE DEF T
  <2> QED BY <1>1, <1>2, <1>3, UpTo
<1> QED BY <1>4

(* The grid h holds rows below the first start rows, then what g holds     *)
(* from its n-th row on; above them it is as g.                            *)
Holds(h, rows, g, n, start) ==
    /\ h \in Seq(Row)
    /\ \A p \in Place : p <= start => At(h, p) = At(g, p)
    /\ \A m \in 1 .. Len(rows) : At(h, start + m) = rows[m]
    /\ \A q \in Place : At(h, start + Len(rows) + q) = At(g, start + n + q)

(* Applied to a grid that holds the first n previous rows, the operations  *)
(* of the plan leave the rows that stay, and nothing else changes.         *)
ThinApplies(plan, slots, n, start) ==
    \A g \in Seq(Row) :
        (\A i \in 1 .. n : At(g, start + i) = slots[i])
            => Holds(Applied(g, plan.ops), plan.slots, g, n, start)

LEMMA ThinKeepsApplies ==
    ASSUME NEW slots \in Seq(Row), NEW audit, NEW start \in Nat, NEW plan, NEW n \in 1 .. Len(slots),
           ThinTyped(plan, slots, n - 1), ThinApplies(plan, slots, n - 1, start)
    PROVE  ThinApplies(Thin(plan, slots, audit, n, start), slots, n, start)
<1>0. PICK next : next = Thin(plan, slots, audit, n, start)
  OBVIOUS
<1>a. /\ Kept(slots, audit, n) =>
             /\ next.slots = Append(plan.slots, slots[n])
             /\ next.ops = plan.ops
      /\ ~Kept(slots, audit, n) =>
             /\ next.slots = plan.slots
             /\ next.ops = <<Delete(start + n)>> \o plan.ops
  <2>1. /\ Kept(slots, audit, n) =>
               /\ Thin(plan, slots, audit, n, start).slots = Append(plan.slots, slots[n])
               /\ Thin(plan, slots, audit, n, start).ops = plan.ops
        /\ ~Kept(slots, audit, n) =>
               /\ Thin(plan, slots, audit, n, start).slots = plan.slots
               /\ Thin(plan, slots, audit, n, start).ops = <<Delete(start + n)>> \o plan.ops
    BY ONLY ThinStep
  <2> QED BY ONLY <1>0, <2>1
<1>n. n \in Nat /\ n >= 1 /\ n - 1 \in Nat /\ Len(slots) \in Nat
  OBVIOUS
<1> SUFFICES ASSUME NEW g \in Seq(Row), \A i \in 1 .. n : At(g, start + i) = slots[i]
             PROVE  Holds(Applied(g, next.ops), next.slots, g, n, start)
  BY <1>0 DEF ThinApplies
<1>1. CASE Kept(slots, audit, n)
  <2>1. PICK T : T = plan.slots
    OBVIOUS
  <2>2. PICK A : A = Applied(g, plan.ops)
    OBVIOUS
  <2>3. T \in Seq(Row) /\ slots[n] \in Row
    BY <2>1 DEF ThinTyped
  <2>4. Holds(A, T, g, n - 1, start)
    <3>1. \A i \in 1 .. n - 1 : At(g, start + i) = slots[i]
      BY <1>n
    <3> QED BY <2>1, <2>2, <3>1 DEF ThinApplies
  <2>5. next.slots = Append(T, slots[n]) /\ Applied(g, next.ops) = A
    BY <1>1, <1>a, <2>1, <2>2
  <2>6. PICK U : U = Append(T, slots[n])
    OBVIOUS
  <2>7. /\ Len(U) = Len(T) + 1 /\ U[Len(T) + 1] = slots[n] /\ \A m \in 1 .. Len(T) : U[m] = T[m]
        /\ Len(T) \in Nat
    BY <2>3, <2>6
  <2>8. ASSUME NEW m \in 1 .. Len(U) PROVE At(A, start + m) = U[m]
    <3>1. CASE m = Len(T) + 1
      <4>1. 1 \in Place /\ start + Len(T) + 1 = start + m /\ start + (n - 1) + 1 = start + n /\ n \in 1 .. n
        BY <1>n, <2>7, <3>1 DEF Place
      <4>2. At(A, start + Len(T) + 1) = At(g, start + (n - 1) + 1)
        BY <2>4, <4>1 DEF Holds
      <4> QED BY <2>7, <3>1, <4>1, <4>2
    <3>2. CASE m # Len(T) + 1
      <4>1. m \in 1 .. Len(T)
        BY <2>7, <3>2
      <4> QED BY <2>4, <2>7, <4>1 DEF Holds
    <3> QED BY <3>1, <3>2
  <2>9. ASSUME NEW q \in Place PROVE At(A, start + Len(U) + q) = At(g, start + n + q)
    <3>1. q + 1 \in Place /\ start + Len(U) + q = start + Len(T) + (q + 1) /\ start + n + q = start + (n - 1) + (q + 1)
      BY <1>n, <2>7 DEF Place
    <3> QED BY <2>4, <3>1 DEF Holds
  <2>10. Holds(A, U, g, n, start)
    BY <2>4, <2>8, <2>9 DEF Holds
  <2> QED BY <2>5, <2>6, <2>10
<1>2. CASE ~Kept(slots, audit, n)
  <2>1. PICK O : O = plan.ops
    OBVIOUS
  <2>2. start + n \in Place
    BY <1>n DEF Place
  <2>3. PICK d : d = Delete(start + n)
    OBVIOUS
  <2>4. O \in Seq(Op) /\ d \in Op
    BY <2>1, <2>2, <2>3, DeleteIsOp DEF ThinTyped
  <2>5. next.slots = plan.slots /\ next.ops = <<d>> \o O
    BY <1>2, <1>a, <2>1, <2>3
  <2>6. PICK h : h = ApplyOp(g, Delete(start + n))
    OBVIOUS
  <2>7. h \in Seq(Row) /\ \A p \in Place : At(h, p) = At(g, IF p < start + n THEN p ELSE p + 1)
    BY <2>2, <2>6, DeleteApplied
  <2>8. Applied(g, <<d>> \o O) = Applied(h, O)
    BY <2>3, <2>4, <2>6, FirstApplied
  <2>9. ASSUME NEW i \in 1 .. n - 1 PROVE At(h, start + i) = slots[i]
    <3>1. start + i \in Place /\ start + i < start + n /\ i \in 1 .. n
      BY <1>n DEF Place
    <3> QED BY <2>7, <3>1
  <2>10. Holds(Applied(h, O), plan.slots, h, n - 1, start)
    BY <2>1, <2>7, <2>9 DEF ThinApplies
  <2>11. ASSUME NEW p \in Place, p <= start PROVE At(h, p) = At(g, p)
    <3>1. p < start + n
      BY <1>n, <2>11 DEF Place
    <3> QED BY <2>7, <3>1
  <2>12. ASSUME NEW q \in Place PROVE At(h, start + (n - 1) + q) = At(g, start + n + q)
    <3>1. start + (n - 1) + q \in Place /\ ~(start + (n - 1) + q < start + n) /\ (start + (n - 1) + q) + 1 = start + n + q
      BY <1>n DEF Place
    <3> QED BY <2>7, <3>1
  <2>13. Holds(Applied(h, O), plan.slots, g, n, start)
    BY <2>10, <2>11, <2>12 DEF Holds
  <2> QED BY <2>5, <2>8, <2>13
<1> QED BY <1>1, <1>2

LEMMA ThinPlansApply ==
    ASSUME NEW slots \in Seq(Row), NEW audit, NEW start \in Nat, NEW f, ThinPlans(f, slots, audit, start)
    PROVE  \A n \in 0 .. Len(slots) : ThinApplies(f[n], slots, n, start)
<1> DEFINE T == {n \in 0 .. Len(slots) : ThinApplies(f[n], slots, n, start)}
<1>1. 0 \in T
  <2>1. f[0].slots = <<>> /\ f[0].ops = <<>>
    BY DEF ThinPlans, NothingThinned
  <2>2. ASSUME NEW g \in Seq(Row) PROVE Holds(Applied(g, <<>>), <<>>, g, 0, start)
    <3>1. Applied(g, <<>>) = g
      BY NothingApplied
    <3>2. Len(<<>>) = 0
      OBVIOUS
    <3>3. Holds(g, <<>>, g, 0, start)
      BY <3>2 DEF Holds
    <3> QED BY <3>1, <3>3
  <2>3. ThinApplies(f[0], slots, 0, start)
    BY <2>1, <2>2 DEF ThinApplies
  <2> QED BY <2>3
<1>2. ASSUME NEW n \in 1 .. Len(slots), n - 1 \in T PROVE n \in T
  <2>1. ThinApplies(f[n - 1], slots, n - 1, start) /\ f[n] = Thin(f[n - 1], slots, audit, n, start)
    BY <1>2 DEF ThinPlans
  <2>2. ThinTyped(f[n - 1], slots, n - 1)
    <3>1. n - 1 \in 0 .. Len(slots)
      OBVIOUS
    <3> QED BY <3>1, ThinPlansTyped
  <2>3. ThinApplies(f[n], slots, n, start)
    BY <2>1, <2>2, ThinKeepsApplies
  <2> QED BY <2>3
<1>3. T \in SUBSET (0 .. Len(slots)) /\ Len(slots) \in Nat
  OBVIOUS
<1>4. T = 0 .. Len(slots)
  <2> HIDE DEF T
  <2> QED BY <1>1, <1>2, <1>3, UpTo
<1> QED BY <1>4

(* Of no key do more rows stay than were audited. *)
ThinCounts(plan, slots, audit, n) ==
    \A k : k # Blank =>
        /\ Count(plan.slots, k, Len(plan.slots)) <= Count(slots, k, n)
        /\ Count(plan.slots, k, Len(plan.slots)) <= Count(audit, k, Len(audit))

(* The rows that Kept keeps stay; if it keeps them all, nothing is done. *)
ThinKeeps(plan, slots, audit, n) ==
    /\ \A i \in 1 .. n : Kept(slots, audit, i) => \E m \in 1 .. Len(plan.slots) : plan.slots[m] = slots[i]
    /\ (\A i \in 1 .. n : Kept(slots, audit, i)) =>
           /\ plan.ops = <<>>
           /\ Len(plan.slots) = n
           /\ \A i \in 1 .. n : plan.slots[i] = slots[i]

LEMMA ThinKeepsCounts ==
    ASSUME NEW slots \in Seq(Row), NEW audit, Len(audit) \in Nat, NEW start \in Nat, NEW plan, NEW n \in 1 .. Len(slots),
           ThinTyped(plan, slots, n - 1), ThinCounts(plan, slots, audit, n - 1)
    PROVE  ThinCounts(Thin(plan, slots, audit, n, start), slots, audit, n)
<1>0. PICK next : next = Thin(plan, slots, audit, n, start)
  OBVIOUS
<1>a. /\ Kept(slots, audit, n) =>
             /\ next.slots = Append(plan.slots, slots[n])
             /\ next.ops = plan.ops
      /\ ~Kept(slots, audit, n) =>
             /\ next.slots = plan.slots
             /\ next.ops = <<Delete(start + n)>> \o plan.ops
  <2>1. /\ Kept(slots, audit, n) =>
               /\ Thin(plan, slots, audit, n, start).slots = Append(plan.slots, slots[n])
               /\ Thin(plan, slots, audit, n, start).ops = plan.ops
        /\ ~Kept(slots, audit, n) =>
               /\ Thin(plan, slots, audit, n, start).slots = plan.slots
               /\ Thin(plan, slots, audit, n, start).ops = <<Delete(start + n)>> \o plan.ops
    BY ONLY ThinStep
  <2> QED BY ONLY <1>0, <2>1
<1>n. n \in Nat /\ n \in Place /\ n - 1 \in Nat /\ Len(slots) \in Nat
  BY DEF Place
<1>1. PICK T : T = plan.slots
  OBVIOUS
<1>2. T \in Seq(Row) /\ Len(T) \in Nat
  BY <1>1 DEF ThinTyped
<1> SUFFICES ASSUME NEW k, k # Blank
             PROVE  /\ Count(next.slots, k, Len(next.slots)) <= Count(slots, k, n)
                    /\ Count(next.slots, k, Len(next.slots)) <= Count(audit, k, Len(audit))
  BY <1>0 DEF ThinCounts
<1>3. Count(T, k, Len(T)) <= Count(slots, k, n - 1) /\ Count(T, k, Len(T)) <= Count(audit, k, Len(audit))
  BY <1>1 DEF ThinCounts
<1>4. /\ Count(slots, k, n) = Count(slots, k, n - 1) + (IF slots[n].key = k THEN 1 ELSE 0)
      /\ Count(slots, k, n) \in Nat /\ Count(slots, k, n - 1) \in Nat
      /\ Count(T, k, Len(T)) \in Nat /\ Count(audit, k, Len(audit)) \in Nat
  BY <1>n, <1>2, CountFacts
<1>5. CASE Kept(slots, audit, n)
  <2>1. PICK U : U = Append(T, slots[n])
    OBVIOUS
  <2>2. slots[n] \in Row
    OBVIOUS
  <2>3. Len(U) = Len(T) + 1 /\ U[Len(T) + 1] = slots[n] /\ \A m \in 1 .. Len(T) : U[m] = T[m]
    BY <1>2, <2>1, <2>2
  <2>4. Count(U, k, Len(T)) = Count(T, k, Len(T))
    BY <1>2, <2>3, SameCount
  <2>5. Len(T) + 1 \in Place /\ (Len(T) + 1) - 1 = Len(T)
    BY <1>2 DEF Place
  <2>6. Count(U, k, Len(T) + 1) = Count(U, k, (Len(T) + 1) - 1) + (IF U[Len(T) + 1].key = k THEN 1 ELSE 0)
    BY <2>5, CountFacts
  <2>7. Count(U, k, Len(U)) = Count(T, k, Len(T)) + (IF slots[n].key = k THEN 1 ELSE 0)
    BY <2>3, <2>4, <2>5, <2>6
  <2>8. slots[n].key = k => Count(slots, k, n) <= Count(audit, k, Len(audit))
    BY <1>5 DEF Kept
  <2>9. next.slots = U
    BY <1>1, <1>5, <1>a, <2>1
  <2>10. Count(U, k, Len(U)) <= Count(slots, k, n) /\ Count(U, k, Len(U)) <= Count(audit, k, Len(audit))
    BY <1>3, <1>4, <2>7, <2>8
  <2> QED BY <2>9, <2>10
<1>6. CASE ~Kept(slots, audit, n)
  <2>1. next.slots = T
    BY <1>1, <1>6, <1>a
  <2> QED BY <1>3, <1>4, <2>1
<1> QED BY <1>5, <1>6

LEMMA ThinKeepsKept ==
    ASSUME NEW slots \in Seq(Row), NEW audit, NEW start \in Nat, NEW plan, NEW n \in 1 .. Len(slots),
           ThinTyped(plan, slots, n - 1), ThinKeeps(plan, slots, audit, n - 1)
    PROVE  ThinKeeps(Thin(plan, slots, audit, n, start), slots, audit, n)
<1>0. PICK next : next = Thin(plan, slots, audit, n, start)
  OBVIOUS
<1>a. /\ Kept(slots, audit, n) =>
             /\ next.slots = Append(plan.slots, slots[n])
             /\ next.ops = plan.ops
      /\ ~Kept(slots, audit, n) =>
             /\ next.slots = plan.slots
             /\ next.ops = <<Delete(start + n)>> \o plan.ops
  <2>1. /\ Kept(slots, audit, n) =>
               /\ Thin(plan, slots, audit, n, start).slots = Append(plan.slots, slots[n])
               /\ Thin(plan, slots, audit, n, start).ops = plan.ops
        /\ ~Kept(slots, audit, n) =>
               /\ Thin(plan, slots, audit, n, start).slots = plan.slots
               /\ Thin(plan, slots, audit, n, start).ops = <<Delete(start + n)>> \o plan.ops
    BY ONLY ThinStep
  <2> QED BY ONLY <1>0, <2>1
<1>n. n \in Nat /\ n \in 1 .. n /\ n - 1 \in Nat /\ \A i \in 1 .. n : i = n \/ i \in 1 .. n - 1
  OBVIOUS
<1>1. PICK T : T = plan.slots
  OBVIOUS
<1>2. T \in Seq(Row) /\ Len(T) \in Nat
  BY <1>1 DEF ThinTyped
<1>3. CASE Kept(slots, audit, n)
  <2>1. PICK U : U = Append(T, slots[n])
    OBVIOUS
  <2>2. slots[n] \in Row
    OBVIOUS
  <2>3. Len(U) = Len(T) + 1 /\ U[Len(T) + 1] = slots[n] /\ \A m \in 1 .. Len(T) : U[m] = T[m]
    BY <1>2, <2>1, <2>2
  <2>4. next.slots = U /\ next.ops = plan.ops
    BY <1>1, <1>3, <1>a, <2>1
  <2>5. ASSUME NEW i \in 1 .. n, Kept(slots, audit, i) PROVE \E m \in 1 .. Len(U) : U[m] = slots[i]
    <3>1. CASE i = n
      <4>1. Len(T) + 1 \in 1 .. Len(U)
        BY <1>2, <2>3
      <4> QED BY <2>3, <3>1, <4>1
    <3>2. CASE i \in 1 .. n - 1
      <4>1. PICK m \in 1 .. Len(T) : T[m] = slots[i]
        BY <1>1, <2>5, <3>2 DEF ThinKeeps
      <4>2. m \in 1 .. Len(U) /\ U[m] = slots[i]
        BY <1>2, <2>3, <4>1
      <4> QED BY <4>2
    <3> QED BY <1>n, <3>1, <3>2
  <2>6. ASSUME \A i \in 1 .. n : Kept(slots, audit, i)
        PROVE  plan.ops = <<>> /\ Len(U) = n /\ \A i \in 1 .. n : U[i] = slots[i]
    <3>1. \A i \in 1 .. n - 1 : Kept(slots, audit, i)
      BY <1>n, <2>6
    <3>2. plan.ops = <<>> /\ Len(T) = n - 1 /\ \A i \in 1 .. n - 1 : T[i] = slots[i]
      BY <1>1, <3>1 DEF ThinKeeps
    <3>3. Len(U) = n /\ U[n] = slots[n] /\ \A i \in 1 .. n - 1 : U[i] = slots[i]
      BY <1>n, <2>3, <3>2
    <3> QED BY <1>n, <3>2, <3>3
  <2> QED BY <1>0, <2>4, <2>5, <2>6 DEF ThinKeeps
<1>4. CASE ~Kept(slots, audit, n)
  <2>1. next.slots = plan.slots
    BY <1>4, <1>a
  <2>2. ASSUME NEW i \in 1 .. n, Kept(slots, audit, i) PROVE \E m \in 1 .. Len(next.slots) : next.slots[m] = slots[i]
    <3>1. i \in 1 .. n - 1
      BY <1>4, <1>n, <2>2
    <3> QED BY <2>1, <2>2, <3>1 DEF ThinKeeps
  <2>3. ~\A i \in 1 .. n : Kept(slots, audit, i)
    BY <1>4, <1>n
  <2> QED BY <1>0, <2>2, <2>3 DEF ThinKeeps
<1> QED BY <1>3, <1>4

LEMMA ThinPlansKeep ==
    ASSUME NEW slots \in Seq(Row), NEW audit, Len(audit) \in Nat, NEW start \in Nat, NEW f,
           ThinPlans(f, slots, audit, start)
    PROVE  \A n \in 0 .. Len(slots) : ThinCounts(f[n], slots, audit, n) /\ ThinKeeps(f[n], slots, audit, n)
<1> DEFINE T == {n \in 0 .. Len(slots) : ThinCounts(f[n], slots, audit, n) /\ ThinKeeps(f[n], slots, audit, n)}
<1>1. 0 \in T
  <2>1. f[0].slots = <<>> /\ f[0].ops = <<>> /\ Len(<<>>) = 0
    BY DEF ThinPlans, NothingThinned
  <2>2. \A k : Count(<<>>, k, 0) = 0 /\ Count(slots, k, 0) = 0 /\ Count(audit, k, Len(audit)) \in Nat
    BY CountFacts
  <2>3. ThinCounts(f[0], slots, audit, 0)
    BY <2>1, <2>2 DEF ThinCounts
  <2>4. ThinKeeps(f[0], slots, audit, 0)
    BY <2>1 DEF ThinKeeps
  <2> QED BY <2>3, <2>4
<1>2. ASSUME NEW n \in 1 .. Len(slots), n - 1 \in T PROVE n \in T
  <2>1. /\ ThinCounts(f[n - 1], slots, audit, n - 1) /\ ThinKeeps(f[n - 1], slots, audit, n - 1)
        /\ f[n] = Thin(f[n - 1], slots, audit, n, start)
    BY <1>2 DEF ThinPlans
  <2>2. ThinTyped(f[n - 1], slots, n - 1)
    <3>1. n - 1 \in 0 .. Len(slots)
      OBVIOUS
    <3> QED BY <3>1, ThinPlansTyped
  <2>3. ThinCounts(f[n], slots, audit, n)
    BY <2>1, <2>2, ThinKeepsCounts
  <2>4. ThinKeeps(f[n], slots, audit, n)
    BY <2>1, <2>2, ThinKeepsKept
  <2> QED BY <2>3, <2>4
<1>3. T \in SUBSET (0 .. Len(slots)) /\ Len(slots) \in Nat
  OBVIOUS
<1>4. T = 0 .. Len(slots)
  <2> HIDE DEF T
  <2> QED BY <1>1, <1>2, <1>3, UpTo
<1> QED BY <1>4

(* The first pass as a whole. *)
LEMMA ThinnedFacts ==
    ASSUME NEW slots \in Seq(Row), NEW audit, Len(audit) \in Nat, NEW start \in Nat,
           NEW plan, plan = Thinned(slots, audit, start)
    PROVE  /\ ThinTyped(plan, slots, Len(slots))
           /\ ThinApplies(plan, slots, Len(slots), start)
           /\ ThinCounts(plan, slots, audit, Len(slots))
           /\ ThinKeeps(plan, slots, audit, Len(slots))
<1>1. Len(slots) \in Nat /\ Len(slots) \in 0 .. Len(slots)
  OBVIOUS
<1>2. PICK f : ThinPlans(f, slots, audit, start)
  BY <1>1, ThinPlansExist
<1>3. plan = f[Len(slots)]
  BY <1>2 DEF ThinPlans
<1> QED BY <1>1, <1>2, <1>3, ThinPlansTyped, ThinPlansApply, ThinPlansKeep

LEMMA CountGrows ==
    ASSUME NEW rows, NEW k, NEW L \in Nat, NEW n \in 0 .. L
    PROVE  Count(rows, k, n) <= Count(rows, k, L)
<1> DEFINE T == {m \in 0 .. L : n <= m => Count(rows, k, n) <= Count(rows, k, m)}
<1>a. \A m \in Nat : Count(rows, k, m) \in Nat
  BY CountFacts
<1>0. n \in Nat /\ \A m \in Nat : Count(rows, k, m) \in Nat
  BY <1>a
<1>1. 0 \in T
  <2>1. n <= 0 => n = 0
    BY <1>0
  <2>2. n <= 0 => Count(rows, k, n) <= Count(rows, k, 0)
    BY <1>0, <2>1
  <2> QED BY <2>2
<1>2. ASSUME NEW m \in 1 .. L, m - 1 \in T PROVE m \in T
  <2>1. m \in Place /\ m - 1 \in Nat /\ m \in Nat
    BY DEF Place
  <2>2. Count(rows, k, m) = Count(rows, k, m - 1) + (IF rows[m].key = k THEN 1 ELSE 0)
    BY <2>1, CountFacts
  <2>3. n <= m => n = m \/ n <= m - 1
    BY <1>0
  <2>4. n <= m - 1 => Count(rows, k, n) <= Count(rows, k, m - 1)
    BY <1>2
  <2>5. Count(rows, k, n) \in Nat /\ Count(rows, k, m) \in Nat /\ Count(rows, k, m - 1) \in Nat
    BY <1>0, <2>1
  <2>6. n <= m => Count(rows, k, n) <= Count(rows, k, m)
    <3>1. CASE n = m
      BY <2>5, <3>1
    <3>2. CASE n <= m - 1
      BY <2>2, <2>4, <2>5, <3>2
    <3> QED BY <2>3, <3>1, <3>2
  <2> QED BY <2>6
<1>3. T \in SUBSET (0 .. L)
  OBVIOUS
<1>4. T = 0 .. L
  <2> HIDE DEF T
  <2> QED BY <1>1, <1>2, <1>3, UpTo
<1>5. L \in T
  <2> HIDE DEF T
  <2> QED BY <1>4
<1> QED BY <1>5

LEMMA InsertedCount ==
    ASSUME NEW s \in Seq(Row), NEW i \in 1 .. Len(s) + 1, NEW e \in Row, NEW k, e.key # k
    PROVE  /\ Count(InsertAt(s, i, e), k, Len(s) + 1) = Count(s, k, Len(s))
           /\ Count(InsertAt(s, i, e), k, i) = Count(s, k, i - 1)
<1>0. PICK t : t = InsertAt(s, i, e)
  OBVIOUS
<1>1. Len(s) \in Nat /\ i \in Nat /\ i >= 1 /\ i <= Len(s) + 1 /\ i - 1 \in Nat /\ i \in Place
  BY DEF Place
<1>2. t[i] = e /\ \A m \in DOMAIN s : t[IF m < i THEN m ELSE m + 1] = s[m]
  BY <1>0, Inserted
<1>3. DOMAIN s = 1 .. Len(s)
  OBVIOUS
<1>4. \A m \in 1 .. i - 1 : t[m] = s[m]
  <2> SUFFICES ASSUME NEW m \in 1 .. i - 1 PROVE t[m] = s[m]
    OBVIOUS
  <2>1. m \in DOMAIN s /\ m < i
    BY <1>1, <1>3
  <2> QED BY <1>2, <2>1
<1>5. Count(t, k, i - 1) = Count(s, k, i - 1)
  BY <1>1, <1>4, SameCount
<1>6. Count(t, k, i) = Count(s, k, i - 1)
  <2>1. Count(t, k, i) = Count(t, k, i - 1) + (IF t[i].key = k THEN 1 ELSE 0)
    BY <1>1, CountFacts
  <2>2. Count(t, k, i - 1) \in Nat
    BY <1>1, CountFacts
  <2> QED BY <1>2, <1>5, <2>1, <2>2
<1> DEFINE T == {m \in 0 .. Len(s) : m >= i - 1 => Count(t, k, m + 1) = Count(s, k, m)}
<1>7. 0 \in T
  <2>1. 0 >= i - 1 => i = 1
    BY <1>1
  <2>2. 0 >= i - 1 => Count(t, k, 0 + 1) = Count(s, k, 0)
    BY <1>6, <2>1
  <2> QED BY <1>1, <2>2
<1>8. ASSUME NEW m \in 1 .. Len(s), m - 1 \in T PROVE m \in T
  <2>0. m \in Nat /\ m \in Place /\ m + 1 \in Place /\ (m + 1) - 1 = m /\ (m - 1) + 1 = m
    BY DEF Place
  <2>1. m >= i - 1 => m = i - 1 \/ (m - 1 >= i - 1 /\ ~(m < i))
    BY <1>1, <2>0
  <2>2. CASE m = i - 1
    <3>1. m + 1 = i
      BY <1>1, <2>0, <2>2
    <3> QED BY <1>6, <2>2, <3>1
  <2>3. CASE m - 1 >= i - 1 /\ ~(m < i)
    <3>a. m - 1 >= i - 1 => Count(t, k, (m - 1) + 1) = Count(s, k, m - 1)
      BY <1>8
    <3>1. Count(t, k, m) = Count(s, k, m - 1)
      BY <2>0, <2>3, <3>a
    <3>b. \A n \in Place : Count(t, k, n) = Count(t, k, n - 1) + (IF t[n].key = k THEN 1 ELSE 0)
      BY CountFacts
    <3>2. Count(t, k, m + 1) = Count(t, k, m) + (IF t[m + 1].key = k THEN 1 ELSE 0)
      BY <2>0, <3>b
    <3>3. Count(s, k, m) = Count(s, k, m - 1) + (IF s[m].key = k THEN 1 ELSE 0)
      BY <2>0, CountFacts
    <3>4. t[m + 1] = s[m]
      BY <1>2, <1>3, <2>3
    <3>5. Count(t, k, m + 1) = Count(s, k, m)
      BY <3>1, <3>2, <3>3, <3>4
    <3> QED BY <3>5
  <2>4. CASE ~(m >= i - 1)
    BY <2>4
  <2> QED BY <2>1, <2>2, <2>3, <2>4
<1>9. T \in SUBSET (0 .. Len(s))
  OBVIOUS
<1>10. T = 0 .. Len(s)
  <2> HIDE DEF T
  <2> QED BY <1>1, <1>7, <1>8, <1>9, UpTo
<1>11. Len(s) \in T /\ Len(s) >= i - 1
  <2> HIDE DEF T
  <2> QED BY <1>1, <1>10
<1>12. Count(t, k, Len(s) + 1) = Count(s, k, Len(s))
  BY <1>11
<1> QED BY <1>0, <1>6, <1>12

LEMMA ShiftedCount ==
    ASSUME NEW s \in Seq(Row), NEW i \in 1 .. Len(s), NEW j \in 1 .. Len(s), i < j, NEW k
    PROVE  /\ Count(Shift(s, j, i), k, Len(s)) = Count(s, k, Len(s))
           /\ Count(Shift(s, j, i), k, i) = Count(s, k, i - 1) + (IF s[j].key = k THEN 1 ELSE 0)
<1>0. PICK t : t = Shift(s, j, i)
  OBVIOUS
<1>1. Len(s) \in Nat /\ i \in Nat /\ i >= 1 /\ j \in Nat /\ j <= Len(s) /\ i - 1 \in Nat /\ i \in Place
  BY DEF Place
<1>2. /\ t \in Seq(Row) /\ Len(t) = Len(s)
      /\ \A p \in Place : At(t, p) =
             IF p < i \/ p > j THEN At(s, p) ELSE IF p = i THEN At(s, j) ELSE At(s, p - 1)
  BY <1>0, ShiftFacts
<1>3. ASSUME NEW p \in 1 .. Len(s)
      PROVE  t[p] = IF p < i \/ p > j THEN s[p] ELSE IF p = i THEN s[j] ELSE s[p - 1]
  <2>1. p \in Place /\ p <= Len(s) /\ p - 1 <= Len(s)
    BY <1>1 DEF Place
  <2> QED BY <1>1, <1>2, <2>1 DEF At
<1> DEFINE d == IF s[j].key = k THEN 1 ELSE 0
<1>4. Count(t, k, i - 1) = Count(s, k, i - 1)
  <2>1. \A m \in 1 .. i - 1 : t[m] = s[m]
    <3> SUFFICES ASSUME NEW m \in 1 .. i - 1 PROVE t[m] = s[m]
      OBVIOUS
    <3>1. m \in 1 .. Len(s) /\ m < i
      BY <1>1
    <3> QED BY <1>3, <3>1
  <2> QED BY <1>1, <2>1, SameCount
<1>5. Count(t, k, i) = Count(s, k, i - 1) + d
  <2>1. Count(t, k, i) = Count(t, k, i - 1) + (IF t[i].key = k THEN 1 ELSE 0)
    BY <1>1, CountFacts
  <2>2. t[i] = s[j]
    BY <1>1, <1>3
  <2> QED BY <1>4, <2>1, <2>2
<1> DEFINE T == {m \in 0 .. Len(s) :
                     /\ i <= m /\ m <= j => Count(t, k, m) = Count(s, k, m - 1) + d
                     /\ m >= j => Count(t, k, m) = Count(s, k, m)}
<1>6. d \in Nat
  OBVIOUS
<1> HIDE DEF d
<1>7. 0 \in T
  <2>1. ~(i <= 0) /\ ~(0 >= j)
    BY <1>1
  <2> QED BY <1>1, <2>1
<1>8. ASSUME NEW m \in 1 .. Len(s), m - 1 \in T PROVE m \in T
  <2>0. m \in Nat /\ m \in Place /\ m - 1 \in Nat /\ m \in 0 .. Len(s)
    BY DEF Place
  <2>1. Count(t, k, m) = Count(t, k, m - 1) + (IF t[m].key = k THEN 1 ELSE 0)
    BY <2>0, CountFacts
  <2>2. Count(s, k, m) = Count(s, k, m - 1) + (IF s[m].key = k THEN 1 ELSE 0)
    BY <2>0, CountFacts
  <2>3. /\ i <= m - 1 /\ m - 1 <= j => Count(t, k, m - 1) = Count(s, k, (m - 1) - 1) + d
        /\ m - 1 >= j => Count(t, k, m - 1) = Count(s, k, m - 1)
    BY <1>8
  <2>4. ASSUME i <= m, m <= j PROVE Count(t, k, m) = Count(s, k, m - 1) + d
    <3>1. CASE m = i
      BY <1>5, <3>1
    <3>2. CASE m # i
      <4>1. i <= m - 1 /\ m - 1 <= j /\ m - 1 \in Place /\ ~(m < i \/ m > j)
        BY <1>1, <2>0, <2>4, <3>2 DEF Place
      <4>2. Count(t, k, m - 1) = Count(s, k, (m - 1) - 1) + d
        BY <2>3, <4>1
      <4>3. t[m] = s[m - 1]
        BY <1>3, <3>2, <4>1
      <4>4. Count(s, k, m - 1) = Count(s, k, (m - 1) - 1) + (IF s[m - 1].key = k THEN 1 ELSE 0)
        BY <4>1, CountFacts
      <4>5. Count(s, k, (m - 1) - 1) \in Nat
        <5>1. (m - 1) - 1 \in Nat
          BY <4>1 DEF Place
        <5> QED BY <5>1, CountFacts
      <4> QED BY <1>6, <2>1, <4>2, <4>3, <4>4, <4>5
    <3> QED BY <3>1, <3>2
  <2>5. ASSUME m >= j PROVE Count(t, k, m) = Count(s, k, m)
    <3>1. CASE m = j
      <4>1. Count(t, k, j) = Count(s, k, j - 1) + d
        BY <1>1, <2>0, <2>4, <3>1
      <4> QED BY <2>2, <3>1, <4>1 DEF d
    <3>2. CASE m # j
      <4>1. m - 1 >= j /\ m > j
        BY <1>1, <2>0, <2>5, <3>2
      <4>2. t[m] = s[m]
        BY <1>3, <4>1
      <4> QED BY <2>1, <2>2, <2>3, <4>1, <4>2
    <3> QED BY <3>1, <3>2
  <2> QED BY <2>0, <2>4, <2>5
<1>9. T \in SUBSET (0 .. Len(s))
  OBVIOUS
<1>10. T = 0 .. Len(s)
  <2> HIDE DEF T
  <2> QED BY <1>1, <1>7, <1>8, <1>9, UpTo
<1>11. Len(s) \in T /\ Len(s) >= j
  <2> HIDE DEF T
  <2> QED BY <1>1, <1>10
<1>12. Count(t, k, Len(s)) = Count(s, k, Len(s))
  BY <1>11
<1> QED BY <1>0, <1>5, <1>12 DEF d

-----------------------------------------------------------------------------
(* The second pass: the rows in the order of the audit. *)

(* f is the plan after each of the audited endpoints. *)
AlignPlans(f, begin, desired, start) ==
    /\ f[0] = begin
    /\ \A n \in 1 .. Len(desired) : f[n] = AlignRow(f[n - 1], desired, n, start)
    /\ Aligned(begin, desired, start) = f[Len(desired)]

LEMMA AlignPlansExist ==
    ASSUME NEW begin, NEW desired, NEW start, Len(desired) \in Nat
    PROVE  \E f : AlignPlans(f, begin, desired, start)
<1> DEFINE L == Len(desired)
           Step(g, n) == IF n = 0 THEN begin ELSE AlignRow(g[n - 1], desired, n, start)
           Upto(g, n) == g = [k \in 0 .. n |-> Step(g, k)]
           Good == {n \in 0 .. L : \E g : Upto(g, n)}
<1>1. L \in Nat
  OBVIOUS
<1>2. Good = 0 .. L
  <2>1. 0 \in Good
    <3>1. Upto([k \in 0 .. 0 |-> begin], 0)
      OBVIOUS
    <3>2. \E g : Upto(g, 0)
      <4> HIDE DEF Upto
      <4> QED BY <3>1
    <3> HIDE DEF Upto
    <3> QED BY <1>1, <3>2
  <2>2. ASSUME NEW n \in 1 .. L, n - 1 \in Good PROVE n \in Good
    <3>1. PICK g : Upto(g, n - 1)
      BY <2>2
    <3> DEFINE h == [k \in 0 .. n |-> IF k = n THEN Step(g, n) ELSE g[k]]
    <3>2. n \in Nat /\ n # 0 /\ n \in 0 .. L
      BY <1>1
    <3>3. \A k \in 0 .. n - 1 : h[k] = g[k]
      BY <3>2
    <3>4. \A k \in 0 .. n : Step(h, k) = Step(g, k)
      <4> SUFFICES ASSUME NEW k \in 0 .. n, k # 0 PROVE h[k - 1] = g[k - 1]
        OBVIOUS
      <4>1. k - 1 \in 0 .. n - 1
        BY <3>2
      <4> QED BY <4>1, <3>3
    <3>5. \A k \in 0 .. n : h[k] = Step(g, k)
      <4> SUFFICES ASSUME NEW k \in 0 .. n, k # n PROVE g[k] = Step(g, k)
        OBVIOUS
      <4>1. k \in 0 .. n - 1
        BY <3>2
      <4> QED BY <4>1, <3>1
    <3>6. Upto(h, n)
      <4>1. h = [k \in 0 .. n |-> h[k]]
        OBVIOUS
      <4> HIDE DEF h, Step
      <4> QED BY <4>1, <3>4, <3>5
    <3>7. \E f : Upto(f, n)
      <4> HIDE DEF Upto, h
      <4> QED BY <3>6
    <3> HIDE DEF Upto
    <3> QED BY <3>2, <3>7
  <2>3. Good \in SUBSET (0 .. L)
    OBVIOUS
  <2> HIDE DEF Good
  <2> QED BY <1>1, <2>1, <2>2, <2>3, UpTo
<1>3. \E g : Upto(g, L)
  <2>1. L \in Good
    <3> HIDE DEF Good
    <3> QED BY <1>1, <1>2
  <2> QED BY <2>1
<1>4. PICK f : f = CHOOSE g : Upto(g, L)
  OBVIOUS
<1>5. Aligned(begin, desired, start) = f[L]
  BY <1>4 DEF Aligned
<1> HIDE DEF Step, L
<1>6. Upto(f, L)
  BY <1>3, <1>4
<1>7. \A n \in 0 .. L : f[n] = Step(f, n)
  BY <1>6
<1>8. f[0] = begin
  BY <1>1, <1>7 DEF Step
<1>9. ASSUME NEW n \in 1 .. L PROVE f[n] = AlignRow(f[n - 1], desired, n, start)
  BY <1>1, <1>7 DEF Step
<1> QED BY <1>5, <1>8, <1>9 DEF L, AlignPlans


(* What AlignRow does, by cases: the row is in its place, is new, or comes *)
(* from further down.                                                      *)
InPlace(next, plan, s, k, i) ==
    i \in 1 .. Len(s) /\ s[i].key = k /\ next = plan
New(next, plan, s, k, i, start) ==
    /\ \A p \in i .. Len(s) : s[p].key # k
    /\ next.slots = InsertAt(s, i, BlankRow)
    /\ next.ops = Append(plan.ops, Insert(start + i))
FromBelow(next, plan, s, k, i, start, j) ==
    /\ ~(i \in 1 .. Len(s) /\ s[i].key = k)
    /\ i < j
    /\ s[j].key = k
    /\ next.slots = Shift(s, j, i)
    /\ next.ops = Append(plan.ops, Move(start + j, start + i))

LEMMA AlignStep ==
    ASSUME NEW plan, plan.slots \in Seq(Row), NEW desired, NEW i \in 1 .. Len(plan.slots) + 1, NEW start,
           NEW next, next = AlignRow(plan, desired, i, start)
    PROVE  \/ InPlace(next, plan, plan.slots, desired[i].key, i)
           \/ New(next, plan, plan.slots, desired[i].key, i, start)
           \/ \E j \in 1 .. Len(plan.slots) : FromBelow(next, plan, plan.slots, desired[i].key, i, start, j)
<1> DEFINE I == {p \in i .. Len(plan.slots) : plan.slots[p].key = desired[i].key}
           j == SelectInSubSeq(plan.slots, i, Len(plan.slots), LAMBDA row : row.key = desired[i].key)
<1>0. Len(plan.slots) \in Nat /\ i \in Nat /\ i >= 1
  OBVIOUS
<1>1. j = (IF I # {} THEN Min(I) ELSE 0)
  BY DEF SelectInSubSeq
<1>2. next = IF j = i THEN plan
             ELSE IF j = 0 THEN
                 [slots |-> InsertAt(plan.slots, i, BlankRow), ops |-> Append(plan.ops, Insert(start + i))]
             ELSE
                 [slots |-> Shift(plan.slots, j, i), ops |-> Append(plan.ops, Move(start + j, start + i))]
  BY DEF AlignRow
<1>3. I # {} => j \in I /\ \A p \in I : j <= p
  <2> SUFFICES ASSUME I # {} PROVE j \in I /\ \A p \in I : j <= p
    OBVIOUS
  <2>1. I \in SUBSET (0 .. Len(plan.slots))
    BY <1>0
  <2> HIDE DEF I, j
  <2> QED BY <1>0, <1>1, <2>1, MinFacts
<1> HIDE DEF j
<1>4. CASE I = {}
  <2>1. j = 0 /\ j # i
    BY <1>0, <1>1, <1>4
  <2>2. next.slots = InsertAt(plan.slots, i, BlankRow) /\ next.ops = Append(plan.ops, Insert(start + i))
    BY <1>2, <2>1
  <2>3. \A p \in i .. Len(plan.slots) : plan.slots[p].key # desired[i].key
    BY <1>4
  <2> QED BY <2>2, <2>3 DEF New
<1>5. CASE I # {} /\ j = i
  <2>1. next = plan
    BY <1>2, <1>5
  <2>2. i \in I
    BY <1>3, <1>5
  <2>3. i \in 1 .. Len(plan.slots)
    BY <1>0, <2>2
  <2> QED BY <2>1, <2>2, <2>3 DEF InPlace
<1>6. CASE I # {} /\ j # i
  <2>1. j \in I /\ \A p \in I : j <= p
    BY <1>3, <1>6
  <2>2. j \in 1 .. Len(plan.slots) /\ i < j /\ j # 0 /\ plan.slots[j].key = desired[i].key
    BY <1>0, <1>6, <2>1
  <2>3. i \notin I
    BY <1>0, <2>1, <2>2
  <2>4. ~(i \in 1 .. Len(plan.slots) /\ plan.slots[i].key = desired[i].key)
    BY <1>0, <2>3
  <2>5. next.slots = Shift(plan.slots, j, i) /\ next.ops = Append(plan.ops, Move(start + j, start + i))
    BY <1>2, <1>6, <2>2
  <2>6. FromBelow(next, plan, plan.slots, desired[i].key, i, start, j)
    BY <2>2, <2>4, <2>5 DEF FromBelow
  <2> HIDE DEF I
  <2> QED BY <2>2, <2>6
<1> QED BY <1>4, <1>5, <1>6

(* The first n rows are in the order of the audit, but for those that are  *)
(* still to be filled in; the rows are those of the first pass and blank   *)
(* ones.                                                                   *)
AlignTyped(plan, rows, audit, n) ==
    /\ plan.slots \in Seq(Row)
    /\ plan.ops \in Seq(Op)
    /\ n <= Len(plan.slots)
    /\ \A m \in 1 .. n : plan.slots[m] = BlankRow \/ plan.slots[m].key = audit[m].key
    /\ \A m \in 1 .. Len(plan.slots) : m > n => plan.slots[m].key # Blank
    /\ \A m \in 1 .. Len(plan.slots) :
           plan.slots[m] = BlankRow \/ \E i \in 1 .. Len(rows) : plan.slots[m] = rows[i]
    /\ \A i \in 1 .. Len(rows) : \E m \in 1 .. Len(plan.slots) : plan.slots[m] = rows[i]

LEMMA OpsAreOps ==
    /\ \A i \in Place : Insert(i) \in Op
    /\ \A i \in Place, j \in Place : i < j => Move(j, i) \in Op
BY DEF Insert, Move, Op, Place

LEMMA AlignKeepsTyped ==
    ASSUME NEW rows, Len(rows) \in Nat, NEW audit, NEW start \in Nat, NEW plan, NEW n \in Place,
           AlignTyped(plan, rows, audit, n - 1)
    PROVE  AlignTyped(AlignRow(plan, audit, n, start), rows, audit, n)
<1>0. PICK next : next = AlignRow(plan, audit, n, start)
  OBVIOUS
<1>1. PICK s : s = plan.slots
  OBVIOUS
<1>2. PICK o : o = plan.ops
  OBVIOUS
<1>3. /\ s \in Seq(Row) /\ o \in Seq(Op) /\ n - 1 <= Len(s)
      /\ \A m \in 1 .. n - 1 : s[m] = BlankRow \/ s[m].key = audit[m].key
      /\ \A m \in 1 .. Len(s) : m > n - 1 => s[m].key # Blank
      /\ \A m \in 1 .. Len(s) : s[m] = BlankRow \/ \E i \in 1 .. Len(rows) : s[m] = rows[i]
      /\ \A i \in 1 .. Len(rows) : \E m \in 1 .. Len(s) : s[m] = rows[i]
  BY <1>1, <1>2 DEF AlignTyped
<1>4. n \in Nat /\ n >= 1 /\ Len(s) \in Nat /\ n \in 1 .. Len(s) + 1
  BY <1>3 DEF Place
<1>5. \/ InPlace(next, plan, s, audit[n].key, n)
      \/ New(next, plan, s, audit[n].key, n, start)
      \/ \E j \in 1 .. Len(s) : FromBelow(next, plan, s, audit[n].key, n, start, j)
  <2>1. plan.slots \in Seq(Row) /\ n \in 1 .. Len(plan.slots) + 1
    BY <1>1, <1>3, <1>4
  <2> QED BY <1>0, <1>1, <2>1, AlignStep
<1> SUFFICES AlignTyped(next, rows, audit, n)
  BY <1>0
<1>a. start + n \in Place /\ \A j \in 1 .. Len(s) : start + j \in Place
  BY <1>4 DEF Place
<1>6. CASE InPlace(next, plan, s, audit[n].key, n)
  <2>0. n \in 1 .. Len(s) /\ s[n].key = audit[n].key /\ next = plan
    BY <1>6 DEF InPlace
  <2>1. n <= Len(s) /\ (\A m \in 1 .. n : m = n \/ m \in 1 .. n - 1) /\ \A m \in 1 .. Len(s) : m > n => m > n - 1
    BY <1>4, <2>0
  <2>2. \A m \in 1 .. n : s[m] = BlankRow \/ s[m].key = audit[m].key
    BY <1>3, <2>0, <2>1
  <2>3. \A m \in 1 .. Len(s) : m > n => s[m].key # Blank
    BY <1>3, <2>1
  <2>4. next.slots = s /\ next.ops = o
    BY <1>1, <1>2, <2>0
  <2> QED BY <1>3, <2>1, <2>2, <2>3, <2>4 DEF AlignTyped
<1>7. CASE New(next, plan, s, audit[n].key, n, start)
  <2>0. next.slots = InsertAt(s, n, BlankRow) /\ next.ops = Append(o, Insert(start + n))
    BY <1>2, <1>7 DEF New
  <2>1. PICK t : t = InsertAt(s, n, BlankRow)
    OBVIOUS
  <2>2. /\ t \in Seq(Row) /\ Len(t) = Len(s) + 1
        /\ t[n] = BlankRow
        /\ \A k \in DOMAIN s : t[IF k < n THEN k ELSE k + 1] = s[k]
    BY <1>3, <1>4, <2>1, BlankRowIsRow, Inserted
  <2>3. DOMAIN s = 1 .. Len(s)
    BY <1>3
  <2>4. PICK op : op = Insert(start + n)
    OBVIOUS
  <2>5. Append(o, op) \in Seq(Op)
    BY <1>3, <1>a, <2>4, OpsAreOps
  <2>6. ASSUME NEW m \in 1 .. Len(t), m < n PROVE t[m] = s[m] /\ m \in 1 .. n - 1 /\ m \in 1 .. Len(s)
    <3>1. m \in DOMAIN s /\ m \in 1 .. n - 1
      BY <1>3, <1>4, <2>3, <2>6
    <3> QED BY <2>2, <2>3, <2>6, <3>1
  <2>7. ASSUME NEW m \in 1 .. Len(t), m > n PROVE t[m] = s[m - 1] /\ m - 1 \in 1 .. Len(s) /\ m - 1 > n - 1
    <3>1. m - 1 \in DOMAIN s /\ ~(m - 1 < n) /\ (m - 1) + 1 = m /\ m - 1 > n - 1
      BY <1>4, <2>2, <2>3, <2>7
    <3> QED BY <2>2, <2>3, <3>1
  <2>8. ASSUME NEW m \in 1 .. n PROVE t[m] = BlankRow \/ t[m].key = audit[m].key
    <3>1. CASE m = n
      BY <2>2, <3>1
    <3>2. CASE m # n
      <4>1. m < n /\ m \in 1 .. Len(t)
        BY <1>4, <2>2, <3>2
      <4> QED BY <1>3, <2>6, <4>1
    <3> QED BY <3>1, <3>2
  <2>9. ASSUME NEW m \in 1 .. Len(t), m > n PROVE t[m].key # Blank
    BY <1>3, <2>7, <2>9
  <2>10. ASSUME NEW m \in 1 .. Len(t) PROVE t[m] = BlankRow \/ \E i \in 1 .. Len(rows) : t[m] = rows[i]
    <3>1. CASE m < n
      <4>1. t[m] = s[m] /\ m \in 1 .. Len(s)
        BY <2>6, <3>1
      <4> QED BY <1>3, <4>1
    <3>2. CASE m = n
      BY <2>2, <3>2
    <3>3. CASE m > n
      <4>1. t[m] = s[m - 1] /\ m - 1 \in 1 .. Len(s)
        BY <2>7, <3>3
      <4> QED BY <1>3, <4>1
    <3> QED BY <1>4, <3>1, <3>2, <3>3
  <2>11. ASSUME NEW i \in 1 .. Len(rows) PROVE \E m \in 1 .. Len(t) : t[m] = rows[i]
    <3>1. PICK m \in 1 .. Len(s) : s[m] = rows[i]
      BY <1>3
    <3>2. (IF m < n THEN m ELSE m + 1) \in 1 .. Len(t) /\ t[IF m < n THEN m ELSE m + 1] = s[m]
      BY <1>4, <2>2, <2>3
    <3> QED BY <3>1, <3>2
  <2>12. n <= Len(t) /\ next.slots = t /\ next.ops = Append(o, op)
    BY <1>4, <2>0, <2>1, <2>2, <2>4
  <2> QED BY <2>2, <2>5, <2>8, <2>9, <2>10, <2>11, <2>12 DEF AlignTyped
<1>8. CASE \E j \in 1 .. Len(s) : FromBelow(next, plan, s, audit[n].key, n, start, j)
  <2>j. PICK j \in 1 .. Len(s) : FromBelow(next, plan, s, audit[n].key, n, start, j)
    BY <1>8
  <2>0. /\ n < j
        /\ s[j].key = audit[n].key
        /\ next.slots = Shift(s, j, n)
        /\ next.ops = Append(o, Move(start + j, start + n))
    BY <1>2, <2>j DEF FromBelow
  <2>1. PICK t : t = Shift(s, j, n)
    OBVIOUS
  <2>a. n \in 1 .. Len(s)
    BY <1>4, <2>0
  <2>2. /\ t \in Seq(Row) /\ Len(t) = Len(s)
        /\ \A p \in Place : At(t, p) =
               IF p < n \/ p > j THEN At(s, p) ELSE IF p = n THEN At(s, j) ELSE At(s, p - 1)
    <3>1. s \in Seq(Row) /\ n < j
      BY <1>3, <2>0
    <3>2. /\ Shift(s, j, n) \in Seq(Row) /\ Len(Shift(s, j, n)) = Len(s)
          /\ \A p \in Place : At(Shift(s, j, n), p) =
                 IF p < n \/ p > j THEN At(s, p) ELSE IF p = n THEN At(s, j) ELSE At(s, p - 1)
      BY ONLY <2>a, <3>1, j \in 1 .. Len(s), ShiftFacts
    <3> QED BY <2>1, <3>2
  <2>3. ASSUME NEW p \in 1 .. Len(s)
        PROVE  t[p] = IF p < n \/ p > j THEN s[p] ELSE IF p = n THEN s[j] ELSE s[p - 1]
    <3>1. p \in Place /\ p <= Len(s) /\ p - 1 <= Len(s) /\ j <= Len(s)
      BY <1>4 DEF Place
    <3> QED BY <2>2, <3>1 DEF At
  <2>4. PICK op : op = Move(start + j, start + n)
    OBVIOUS
  <2>5. Append(o, op) \in Seq(Op)
    <3>1. start + n < start + j
      BY <1>4, <2>0
    <3> QED BY <1>3, <1>a, <2>4, <3>1, OpsAreOps
  <2>6. ASSUME NEW m \in 1 .. n PROVE t[m] = BlankRow \/ t[m].key = audit[m].key
    <3>1. CASE m = n
      BY <2>0, <2>3, <2>a, <3>1
    <3>2. CASE m # n
      <4>1. m < n /\ m \in 1 .. Len(s) /\ m \in 1 .. n - 1
        BY <1>4, <2>a, <3>2
      <4> QED BY <1>3, <2>3, <4>1
    <3> QED BY <3>1, <3>2
  <2>7. ASSUME NEW m \in 1 .. Len(s) PROVE \E q \in 1 .. Len(s) : t[m] = s[q] /\ (m >= n => q >= n)
    <3>1. CASE m < n \/ m > j
      <4>1. t[m] = s[m]
        BY <2>3, <3>1
      <4> QED BY <4>1
    <3>2. CASE m = n
      <4>1. t[m] = s[j] /\ j >= n
        BY <1>4, <2>0, <2>3, <3>2
      <4> QED BY <4>1
    <3>3. CASE m > n /\ m <= j
      <4>1. m - 1 \in 1 .. Len(s) /\ m - 1 >= n /\ ~(m < n \/ m > j) /\ m # n
        BY <1>4, <3>3
      <4>2. t[m] = s[m - 1]
        BY <2>3, <4>1
      <4> QED BY <4>1, <4>2
    <3> QED BY <1>4, <3>1, <3>2, <3>3
  <2>8. ASSUME NEW m \in 1 .. Len(t), m > n PROVE t[m].key # Blank
    <3>1. m \in 1 .. Len(s) /\ m >= n
      BY <1>4, <2>2, <2>8
    <3>2. PICK q \in 1 .. Len(s) : t[m] = s[q] /\ q >= n
      BY <2>7, <3>1
    <3>3. q > n - 1
      BY <1>4, <3>2
    <3> QED BY <1>3, <3>2, <3>3
  <2>9. ASSUME NEW m \in 1 .. Len(t) PROVE t[m] = BlankRow \/ \E i \in 1 .. Len(rows) : t[m] = rows[i]
    <3>1. PICK q \in 1 .. Len(s) : t[m] = s[q]
      BY <2>2, <2>7
    <3> QED BY <1>3, <3>1
  <2>10. ASSUME NEW i \in 1 .. Len(rows) PROVE \E m \in 1 .. Len(t) : t[m] = rows[i]
    <3>1. PICK m \in 1 .. Len(s) : s[m] = rows[i]
      BY <1>3
    <3>2. CASE m < n \/ m > j
      <4>1. t[m] = s[m]
        BY <2>3, <3>2
      <4> QED BY <2>2, <3>1, <4>1
    <3>3. CASE m = j
      <4>1. t[n] = s[j]
        BY <1>4, <2>0, <2>3, <2>a
      <4> QED BY <2>2, <2>a, <3>1, <3>3, <4>1
    <3>4. CASE m >= n /\ m < j
      <4>1. m + 1 \in 1 .. Len(s) /\ ~(m + 1 < n \/ m + 1 > j) /\ m + 1 # n /\ (m + 1) - 1 = m
        BY <1>4, <3>4
      <4>2. t[m + 1] = s[m]
        BY <2>3, <4>1
      <4> QED BY <2>2, <3>1, <4>1, <4>2
    <3> QED BY <1>4, <3>2, <3>3, <3>4
  <2>11. n <= Len(t) /\ next.slots = t /\ next.ops = Append(o, op)
    BY <2>0, <2>1, <2>2, <2>4, <2>a
  <2> QED BY <2>2, <2>5, <2>6, <2>8, <2>9, <2>10, <2>11 DEF AlignTyped
<1> QED BY <1>5, <1>6, <1>7, <1>8

(* The grid h holds the rows, and nothing more, below the first start rows *)
(* of another grid.                                                        *)
Below(h, rows, above, start) ==
    /\ h \in Seq(Row)
    /\ \A p \in Place : p <= start => At(h, p) = At(above, p)
    /\ \A k \in Place : At(h, start + k) = At(rows, k)

LEMMA AlignKeepsBelow ==
    ASSUME NEW rows, Len(rows) \in Nat, NEW audit, NEW start \in Nat, NEW plan, NEW n \in Place,
           AlignTyped(plan, rows, audit, n - 1),
           NEW grid, NEW above, Below(Applied(grid, plan.ops), plan.slots, above, start),
           NEW next, next = AlignRow(plan, audit, n, start)
    PROVE  Below(Applied(grid, next.ops), next.slots, above, start)
<1>1. PICK s : s = plan.slots
  OBVIOUS
<1>2. PICK o : o = plan.ops
  OBVIOUS
<1>3. s \in Seq(Row) /\ o \in Seq(Op) /\ n - 1 <= Len(s)
  BY <1>1, <1>2 DEF AlignTyped
<1>4. n \in Nat /\ n >= 1 /\ Len(s) \in Nat /\ n \in 1 .. Len(s) + 1
  BY <1>3 DEF Place
<1>5. \/ InPlace(next, plan, s, audit[n].key, n)
      \/ New(next, plan, s, audit[n].key, n, start)
      \/ \E j \in 1 .. Len(s) : FromBelow(next, plan, s, audit[n].key, n, start, j)
  <2>1. plan.slots \in Seq(Row) /\ n \in 1 .. Len(plan.slots) + 1
    BY <1>1, <1>3, <1>4
  <2> QED BY <1>1, <2>1, AlignStep
<1>6. PICK h : h = Applied(grid, o)
  OBVIOUS
<1>7. /\ h \in Seq(Row)
      /\ \A p \in Place : p <= start => At(h, p) = At(above, p)
      /\ \A k \in Place : At(h, start + k) = At(s, k)
  BY <1>1, <1>2, <1>6 DEF Below
<1>8. start + n \in Place /\ \A k \in Place : start + k \in Place /\ k \in Nat
  BY <1>4 DEF Place
<1>9. CASE InPlace(next, plan, s, audit[n].key, n)
  <2>1. next = plan
    BY <1>9 DEF InPlace
  <2> QED BY <2>1
<1>10. CASE New(next, plan, s, audit[n].key, n, start)
  <2>1. PICK op : op = Insert(start + n)
    OBVIOUS
  <2>2. op \in Op
    BY <1>8, <2>1, OpsAreOps
  <2>3. next.slots = InsertAt(s, n, BlankRow) /\ next.ops = Append(o, op)
    BY <1>2, <1>10, <2>1 DEF New
  <2>4. PICK t : t = InsertAt(s, n, BlankRow)
    OBVIOUS
  <2>5. PICK u : u = ApplyOp(h, Insert(start + n))
    OBVIOUS
  <2>6. Applied(grid, Append(o, op)) = u
    BY <1>3, <1>6, <2>1, <2>2, <2>5, LastApplied
  <2>7. /\ u \in Seq(Row)
        /\ \A p \in Place : At(u, p) =
               IF p < start + n THEN At(h, p) ELSE IF p = start + n THEN BlankRow ELSE At(h, p - 1)
    BY <1>7, <1>8, <2>5, InsertApplied
  <2>8. \A p \in Place : At(t, p) = IF p < n THEN At(s, p) ELSE IF p = n THEN BlankRow ELSE At(s, p - 1)
    BY <1>3, <1>4, <2>4, BlankRowIsRow, InsertedAt
  <2>9. ASSUME NEW p \in Place, p <= start PROVE At(u, p) = At(above, p)
    <3>1. p < start + n
      BY <1>4, <2>9 DEF Place
    <3> QED BY <1>7, <2>7, <2>9, <3>1
  <2>10. ASSUME NEW k \in Place PROVE At(u, start + k) = At(t, k)
    <3>1. CASE k < n
      <4>1. start + k < start + n
        BY <1>4, <1>8, <3>1
      <4> QED BY <1>7, <1>8, <2>7, <2>8, <3>1, <4>1
    <3>2. CASE k = n
      <4>1. At(u, start + k) = BlankRow
        BY <1>4, <1>8, <2>7, <3>2
      <4>2. At(t, k) = BlankRow
        BY <1>4, <2>8, <3>2
      <4> QED BY <4>1, <4>2
    <3>3. CASE k > n
      <4>1. /\ ~(k < n) /\ k # n /\ ~(start + k < start + n) /\ start + k # start + n
            /\ k - 1 \in Place /\ (start + k) - 1 = start + (k - 1)
        BY <1>4, <1>8, <3>3 DEF Place
      <4>2. At(u, start + k) = At(h, start + (k - 1))
        BY <1>8, <2>7, <4>1
      <4>3. At(t, k) = At(s, k - 1)
        BY <2>8, <4>1
      <4> QED BY <1>7, <4>1, <4>2, <4>3
    <3> QED BY <1>4, <1>8, <3>1, <3>2, <3>3
  <2>11. Below(u, t, above, start)
    BY <2>7, <2>9, <2>10 DEF Below
  <2> QED BY <2>3, <2>4, <2>6, <2>11
<1>11. CASE \E j \in 1 .. Len(s) : FromBelow(next, plan, s, audit[n].key, n, start, j)
  <2>j. PICK j \in 1 .. Len(s) : FromBelow(next, plan, s, audit[n].key, n, start, j)
    BY <1>11
  <2>1. PICK op : op = Move(start + j, start + n)
    OBVIOUS
  <2>2. op \in Op /\ start + j \in Place /\ start + n < start + j /\ n < j /\ j \in Place /\ j \in Nat
    <3>1. n < j /\ j \in Place
      BY <2>j DEF FromBelow, Place
    <3> QED BY <1>4, <1>8, <2>1, <3>1, OpsAreOps
  <2>3. next.slots = Shift(s, j, n) /\ next.ops = Append(o, op)
    BY <1>2, <2>j, <2>1 DEF FromBelow
  <2>4. PICK t : t = Shift(s, j, n)
    OBVIOUS
  <2>5. PICK u : u = ApplyOp(h, Move(start + j, start + n))
    OBVIOUS
  <2>6. Applied(grid, Append(o, op)) = u
    BY <1>3, <1>6, <2>1, <2>2, <2>5, LastApplied
  <2>7. /\ u \in Seq(Row)
        /\ \A p \in Place : At(u, p) =
               IF p < start + n \/ p > start + j THEN At(h, p)
               ELSE IF p = start + n THEN At(h, start + j) ELSE At(h, p - 1)
    <3>1. h \in Seq(Row) /\ start + n \in Place /\ start + j \in Place /\ start + n < start + j
      BY <1>7, <1>8, <2>2
    <3>2. /\ ApplyOp(h, Move(start + j, start + n)) \in Seq(Row)
          /\ \A p \in Place : At(ApplyOp(h, Move(start + j, start + n)), p) =
                 IF p < start + n \/ p > start + j THEN At(h, p)
                 ELSE IF p = start + n THEN At(h, start + j) ELSE At(h, p - 1)
      BY ONLY <3>1, MoveApplied
    <3> QED BY <2>5, <3>2
  <2>8. \A p \in Place : At(t, p) =
               IF p < n \/ p > j THEN At(s, p) ELSE IF p = n THEN At(s, j) ELSE At(s, p - 1)
    <3>1. n \in 1 .. Len(s)
      BY <1>4, <2>2
    <3>2. /\ Shift(s, j, n) \in Seq(Row) /\ Len(Shift(s, j, n)) = Len(s)
          /\ \A p \in Place : At(Shift(s, j, n), p) =
                 IF p < n \/ p > j THEN At(s, p) ELSE IF p = n THEN At(s, j) ELSE At(s, p - 1)
      BY ONLY <1>3, <2>2, <3>1, j \in 1 .. Len(s), ShiftFacts
    <3> QED BY <2>4, <3>2
  <2>9. ASSUME NEW p \in Place, p <= start PROVE At(u, p) = At(above, p)
    <3>1. p < start + n
      BY <1>4, <2>9 DEF Place
    <3> QED BY <1>7, <2>7, <2>9, <3>1
  <2>10. ASSUME NEW k \in Place PROVE At(u, start + k) = At(t, k)
    <3>1. CASE k < n \/ k > j
      <4>1. start + k < start + n \/ start + k > start + j
        BY <1>4, <1>8, <2>2, <3>1
      <4>2. At(u, start + k) = At(h, start + k)
        BY <1>8, <2>7, <4>1
      <4>3. At(t, k) = At(s, k)
        BY <2>8, <3>1
      <4> QED BY <1>7, <4>2, <4>3
    <3>2. CASE k = n
      <4>1. ~(start + k < start + n \/ start + k > start + j) /\ ~(k < n \/ k > j) /\ start + k = start + n
        BY <1>4, <2>2, <3>2
      <4>2. At(u, start + k) = At(h, start + j)
        BY <1>8, <2>7, <4>1
      <4>3. At(t, k) = At(s, j)
        BY <2>8, <3>2, <4>1
      <4> QED BY <1>7, <2>2, <4>2, <4>3
    <3>3. CASE k > n /\ k <= j
      <4>1. /\ ~(k < n \/ k > j) /\ k # n /\ ~(start + k < start + n \/ start + k > start + j) /\ start + k # start + n
            /\ k - 1 \in Place /\ (start + k) - 1 = start + (k - 1)
        BY <1>4, <1>8, <2>2, <3>3 DEF Place
      <4>2. At(u, start + k) = At(h, start + (k - 1))
        BY <1>8, <2>7, <4>1
      <4>3. At(t, k) = At(s, k - 1)
        BY <2>8, <4>1
      <4> QED BY <1>7, <4>1, <4>2, <4>3
    <3> QED BY <1>4, <1>8, <2>2, <3>1, <3>2, <3>3
  <2>11. Below(u, t, above, start)
    BY <2>7, <2>9, <2>10 DEF Below
  <2> QED BY <2>3, <2>4, <2>6, <2>11
<1> QED BY <1>5, <1>9, <1>10, <1>11

(* Of no key are there more rows left to place than endpoints.             *)
AlignCounts(plan, audit, n) ==
    \A k : k # Blank =>
        Count(plan.slots, k, Len(plan.slots)) - Count(plan.slots, k, n)
            <= Count(audit, k, Len(audit)) - Count(audit, k, n)

LEMMA AlignKeepsCounts ==
    ASSUME NEW rows, Len(rows) \in Nat, NEW audit, Len(audit) \in Nat, NEW start \in Nat, NEW plan, NEW n \in 1 .. Len(audit),
           AlignTyped(plan, rows, audit, n - 1), AlignCounts(plan, audit, n - 1),
           NEW next, next = AlignRow(plan, audit, n, start)
    PROVE  AlignCounts(next, audit, n)
<1>1. PICK s : s = plan.slots
  OBVIOUS
<1>3. s \in Seq(Row) /\ n - 1 <= Len(s)
  BY <1>1 DEF AlignTyped
<1>4. /\ n \in Nat /\ n \in Place /\ n >= 1 /\ Len(s) \in Nat /\ n \in 1 .. Len(s) + 1 /\ n - 1 \in Nat
      /\ n - 1 \in 0 .. Len(s) /\ n \in 0 .. Len(audit)
  BY <1>3 DEF Place
<1>5. \/ InPlace(next, plan, s, audit[n].key, n)
      \/ New(next, plan, s, audit[n].key, n, start)
      \/ \E j \in 1 .. Len(s) : FromBelow(next, plan, s, audit[n].key, n, start, j)
  <2>1. plan.slots \in Seq(Row) /\ n \in 1 .. Len(plan.slots) + 1
    BY <1>1, <1>3, <1>4
  <2> QED BY <1>1, <2>1, AlignStep
<1> SUFFICES ASSUME NEW k, k # Blank
             PROVE  Count(next.slots, k, Len(next.slots)) - Count(next.slots, k, n)
                        <= Count(audit, k, Len(audit)) - Count(audit, k, n)
  BY DEF AlignCounts
<1> DEFINE S == Count(s, k, Len(s))
           B == Count(s, k, n - 1)
           A == Count(audit, k, Len(audit))
           D == Count(audit, k, n - 1)
           e == IF audit[n].key = k THEN 1 ELSE 0
<1>6. S - B <= A - D
  BY <1>1 DEF AlignCounts
<1>7. S \in Nat /\ B \in Nat /\ A \in Nat /\ D \in Nat /\ e \in Nat
  <2>1. S \in Nat /\ B \in Nat
    BY <1>4, CountFacts
  <2>2. A \in Nat /\ D \in Nat
    BY <1>4, CountFacts
  <2> QED BY <2>1, <2>2
<1>8. Count(audit, k, n) = D + e
  BY <1>4, CountFacts
<1>9. D + e <= A
  <2>1. Count(audit, k, n) <= A
    BY <1>4, CountGrows
  <2> QED BY <1>8, <2>1
<1>10. CASE InPlace(next, plan, s, audit[n].key, n)
  <2>1. n \in 1 .. Len(s) /\ s[n].key = audit[n].key /\ next.slots = s
    BY <1>1, <1>10 DEF InPlace
  <2>2. Count(s, k, n) = B + (IF s[n].key = k THEN 1 ELSE 0)
    BY <1>4, CountFacts
  <2>3. Count(s, k, n) = B + e
    BY <2>1, <2>2
  <2> HIDE DEF S, B, A, D, e
  <2>4. S - (B + e) <= A - (D + e)
    BY <1>6, <1>7
  <2> QED BY <1>8, <2>1, <2>3, <2>4 DEF S, A
<1>11. CASE New(next, plan, s, audit[n].key, n, start)
  <2>1. (\A p \in n .. Len(s) : s[p].key # audit[n].key) /\ next.slots = InsertAt(s, n, BlankRow)
    BY <1>11 DEF New
  <2>2. BlankRow \in Row /\ BlankRow.key # k
    BY BlankRowIsRow DEF BlankRow
  <2>3. /\ Count(next.slots, k, Len(s) + 1) = S
        /\ Count(next.slots, k, n) = B
    BY <1>3, <1>4, <2>1, <2>2, InsertedCount
  <2>4. Len(next.slots) = Len(s) + 1
    BY <1>3, <1>4, <2>1, <2>2, Inserted
  <2>5. e = 1 => S = B
    <3> SUFFICES ASSUME audit[n].key = k PROVE S = B
      OBVIOUS
    <3>1. {j \in 1 .. Len(s) : s[j].key = k} = {j \in 1 .. n - 1 : s[j].key = k}
      <4>1. \A j \in 1 .. Len(s) : s[j].key = k => j \in 1 .. n - 1
        BY <1>4, <2>1
      <4>2. \A j \in 1 .. n - 1 : j \in 1 .. Len(s)
        BY <1>4
      <4> QED BY <4>1, <4>2
    <3> QED BY <3>1 DEF Count
  <2>6. e = 0 \/ e = 1
    OBVIOUS
  <2> HIDE DEF S, B, A, D, e
  <2>7. S - B <= A - (D + e)
    BY <1>6, <1>7, <1>9, <2>5, <2>6
  <2> QED BY <1>8, <2>3, <2>4, <2>7 DEF A
<1>12. CASE \E j \in 1 .. Len(s) : FromBelow(next, plan, s, audit[n].key, n, start, j)
  <2>j. PICK j \in 1 .. Len(s) : FromBelow(next, plan, s, audit[n].key, n, start, j)
    BY <1>12
  <2>1. n < j /\ s[j].key = audit[n].key /\ next.slots = Shift(s, j, n) /\ n \in 1 .. Len(s)
    BY <1>4, <2>j DEF FromBelow
  <2>2. /\ Count(Shift(s, j, n), k, Len(s)) = Count(s, k, Len(s))
        /\ Count(Shift(s, j, n), k, n) = Count(s, k, n - 1) + (IF s[j].key = k THEN 1 ELSE 0)
    BY <1>3, <2>1, ShiftedCount
  <2>3. Len(next.slots) = Len(s)
    BY <1>3, <2>1, ShiftFacts
  <2>4. Count(next.slots, k, Len(next.slots)) = S /\ Count(next.slots, k, n) = B + e
    BY <2>1, <2>2, <2>3
  <2> HIDE DEF S, B, A, D, e
  <2>5. S - (B + e) <= A - (D + e)
    BY <1>6, <1>7
  <2> QED BY <1>8, <2>4, <2>5 DEF A
<1> QED BY <1>5, <1>10, <1>11, <1>12

(* The second pass as a whole. *)
LEMMA AlignedFacts ==
    ASSUME NEW rows, Len(rows) \in Nat, NEW audit, Len(audit) \in Nat, NEW start \in Nat, NEW begin,
           AlignTyped(begin, rows, audit, 0), AlignCounts(begin, audit, 0),
           NEW grid, NEW above, Below(Applied(grid, begin.ops), begin.slots, above, start),
           NEW plan, plan = Aligned(begin, audit, start)
    PROVE  /\ AlignTyped(plan, rows, audit, Len(audit))
           /\ AlignCounts(plan, audit, Len(audit))
           /\ Below(Applied(grid, plan.ops), plan.slots, above, start)
<1>1. PICK f : AlignPlans(f, begin, audit, start)
  BY AlignPlansExist
<1>2. /\ f[0] = begin /\ plan = f[Len(audit)]
      /\ \A n \in 1 .. Len(audit) : f[n] = AlignRow(f[n - 1], audit, n, start)
  BY <1>1 DEF AlignPlans
<1> DEFINE T == {n \in 0 .. Len(audit) : /\ AlignTyped(f[n], rows, audit, n)
                                         /\ AlignCounts(f[n], audit, n)
                                         /\ Below(Applied(grid, f[n].ops), f[n].slots, above, start)}
<1>3. 0 \in T
  BY <1>2
<1>4. ASSUME NEW n \in 1 .. Len(audit), n - 1 \in T PROVE n \in T
  <2>1. /\ AlignTyped(f[n - 1], rows, audit, n - 1)
        /\ AlignCounts(f[n - 1], audit, n - 1)
        /\ Below(Applied(grid, f[n - 1].ops), f[n - 1].slots, above, start)
    BY <1>4
  <2>2. f[n] = AlignRow(f[n - 1], audit, n, start) /\ n \in Place
    BY <1>2 DEF Place
  <2>3. AlignTyped(f[n], rows, audit, n)
    BY <2>1, <2>2, AlignKeepsTyped
  <2>4. AlignCounts(f[n], audit, n)
    BY <2>1, <2>2, AlignKeepsCounts
  <2>5. Below(Applied(grid, f[n].ops), f[n].slots, above, start)
    BY <2>1, <2>2, AlignKeepsBelow
  <2> QED BY <2>3, <2>4, <2>5
<1>5. T \in SUBSET (0 .. Len(audit))
  OBVIOUS
<1>6. T = 0 .. Len(audit)
  <2> HIDE DEF T
  <2> QED BY <1>3, <1>4, <1>5, UpTo
<1>7. Len(audit) \in T
  <2> HIDE DEF T
  <2> QED BY <1>6
<1> QED BY <1>2, <1>7

(* If every row is in its place, the second pass does nothing. *)
LEMMA NothingToAlign ==
    ASSUME NEW audit, Len(audit) \in Nat, NEW start \in Nat, NEW begin, begin.slots \in Seq(Row),
           Len(begin.slots) = Len(audit), \A m \in 1 .. Len(audit) : begin.slots[m].key = audit[m].key
    PROVE  Aligned(begin, audit, start) = begin
<1>1. PICK f : AlignPlans(f, begin, audit, start)
  BY AlignPlansExist
<1>2. /\ f[0] = begin /\ Aligned(begin, audit, start) = f[Len(audit)]
      /\ \A n \in 1 .. Len(audit) : f[n] = AlignRow(f[n - 1], audit, n, start)
  BY <1>1 DEF AlignPlans
<1> DEFINE T == {n \in 0 .. Len(audit) : f[n] = begin}
<1>3. 0 \in T
  BY <1>2
<1>4. ASSUME NEW n \in 1 .. Len(audit), n - 1 \in T PROVE n \in T
  <2>1. f[n] = AlignRow(begin, audit, n, start) /\ n \in 1 .. Len(begin.slots)
    BY <1>2, <1>4
  <2>2. n \in 1 .. Len(begin.slots) + 1 /\ n \in n .. Len(begin.slots)
    BY <2>1
  <2>3. begin.slots[n].key = audit[n].key
    OBVIOUS
  <2>4. \/ InPlace(f[n], begin, begin.slots, audit[n].key, n)
        \/ New(f[n], begin, begin.slots, audit[n].key, n, start)
        \/ \E j \in 1 .. Len(begin.slots) : FromBelow(f[n], begin, begin.slots, audit[n].key, n, start, j)
    BY <2>1, <2>2, AlignStep
  <2>5. f[n] = begin
    BY <2>1, <2>2, <2>3, <2>4 DEF InPlace, New, FromBelow
  <2> QED BY <2>5
<1>5. T \in SUBSET (0 .. Len(audit))
  OBVIOUS
<1>6. T = 0 .. Len(audit)
  <2> HIDE DEF T
  <2> QED BY <1>3, <1>4, <1>5, UpTo
<1>7. Len(audit) \in T
  <2> HIDE DEF T
  <2> QED BY <1>6
<1> QED BY <1>2, <1>7

(* In the end there is one row for each endpoint. *)
LEMMA OneRowEach ==
    ASSUME NEW rows, NEW audit, Len(audit) \in Nat, NEW plan,
           AlignTyped(plan, rows, audit, Len(audit)), AlignCounts(plan, audit, Len(audit))
    PROVE  Len(plan.slots) = Len(audit)
<1>1. PICK s : s = plan.slots
  OBVIOUS
<1>2. s \in Seq(Row) /\ Len(audit) <= Len(s) /\ \A m \in 1 .. Len(s) : m > Len(audit) => s[m].key # Blank
  BY <1>1 DEF AlignTyped
<1> SUFFICES ASSUME Len(s) # Len(audit) PROVE FALSE
  BY <1>1
<1>3. /\ Len(s) \in Nat /\ Len(audit) + 1 \in 1 .. Len(s) /\ Len(audit) + 1 > Len(audit)
      /\ Len(audit) + 1 \in Place /\ (Len(audit) + 1) - 1 = Len(audit) /\ Len(audit) + 1 \in 0 .. Len(s)
  BY <1>2 DEF Place
<1>4. PICK k : k = s[Len(audit) + 1].key
  OBVIOUS
<1>5. k # Blank
  BY <1>2, <1>3, <1>4
<1>6. Count(s, k, Len(s)) - Count(s, k, Len(audit)) <= Count(audit, k, Len(audit)) - Count(audit, k, Len(audit))
  BY <1>1, <1>5 DEF AlignCounts
<1>7. Count(s, k, Len(audit) + 1) = Count(s, k, (Len(audit) + 1) - 1) + (IF s[Len(audit) + 1].key = k THEN 1 ELSE 0)
  BY <1>3, CountFacts
<1>8. Count(s, k, Len(audit) + 1) = Count(s, k, Len(audit)) + 1
  BY <1>3, <1>4, <1>7
<1>9. Count(s, k, Len(audit) + 1) <= Count(s, k, Len(s))
  BY <1>3, CountGrows
<1>10. Count(s, k, Len(s)) \in Nat /\ Count(s, k, Len(audit)) \in Nat
  BY <1>3, CountFacts
<1>11. Count(audit, k, Len(audit)) \in Nat
  BY CountFacts
<1> QED BY <1>6, <1>8, <1>9, <1>10, <1>11

-----------------------------------------------------------------------------
(* The layout of a sheet. *)

LEMMA HeaderFacts ==
    ASSUME NEW rows \in Seq(Row)
    PROVE  /\ HeaderAt(rows) \in 0 .. Len(rows)
           /\ HeaderAt(rows) # 0 => rows[HeaderAt(rows)].header
           /\ \A p \in 1 .. Len(rows) : (HeaderAt(rows) = 0 \/ p < HeaderAt(rows)) => ~rows[p].header
<1> DEFINE I == {p \in 1 .. Len(rows) : rows[p].header}
           H == HeaderAt(rows)
<1>0. Len(rows) \in Nat
  OBVIOUS
<1>1. H = (IF I # {} THEN Min(I) ELSE 0)
  BY DEF HeaderAt, SelectInSeq
<1>2. I # {} => H \in I /\ \A p \in I : H <= p
  <2> SUFFICES ASSUME I # {} PROVE H \in I /\ \A p \in I : H <= p
    OBVIOUS
  <2>1. I \in SUBSET (0 .. Len(rows))
    BY <1>0
  <2> HIDE DEF I, H
  <2> QED BY <1>0, <1>1, <2>1, MinFacts
<1>3. CASE I = {}
  <2>1. H = 0 /\ \A p \in 1 .. Len(rows) : ~rows[p].header
    BY <1>1, <1>3
  <2> QED BY <1>0, <2>1
<1>4. CASE I # {}
  <2>1. H \in 1 .. Len(rows) /\ rows[H].header
    BY <1>2, <1>4
  <2>2. ASSUME NEW p \in 1 .. Len(rows), H = 0 \/ p < H PROVE ~rows[p].header
    BY <1>0, <1>2, <1>4, <2>1, <2>2
  <2> HIDE DEF H
  <2> QED BY <1>0, <2>1, <2>2 DEF H
<1> QED BY <1>3, <1>4

LEMMA HeaderIs ==
    ASSUME NEW rows \in Seq(Row), NEW h \in 1 .. Len(rows), rows[h].header,
           \A p \in 1 .. Len(rows) : p < h => ~rows[p].header
    PROVE  HeaderAt(rows) = h
<1> DEFINE H == HeaderAt(rows)
<1>1. /\ H \in 0 .. Len(rows)
      /\ H # 0 => rows[H].header
      /\ \A p \in 1 .. Len(rows) : (H = 0 \/ p < H) => ~rows[p].header
  BY HeaderFacts
<1> HIDE DEF H
<1>2. H # 0 /\ ~(h < H)
  BY <1>1
<1>3. H \in 1 .. Len(rows)
  BY <1>1, <1>2
<1>4. ~(H < h)
  BY <1>1, <1>2, <1>3
<1> QED BY <1>2, <1>3, <1>4 DEF H

LEMMA SlotsFacts ==
    ASSUME NEW rows \in Seq(Row)
    PROVE  /\ Slots(rows) \in Seq(Row) /\ Len(Slots(rows)) = Len(rows) - HeaderAt(rows)
           /\ \A k \in 1 .. Len(Slots(rows)) : Slots(rows)[k] = rows[HeaderAt(rows) + k]
           /\ \A k \in Place : At(Slots(rows), k) = At(rows, HeaderAt(rows) + k)
<1> DEFINE H == HeaderAt(rows)
<1>1. H \in 0 .. Len(rows) /\ Len(rows) \in Nat
  BY HeaderFacts
<1> HIDE DEF H
<1>2. H + 1 \in 1 .. Len(rows) + 1
  BY <1>1
<1>3. /\ SubSeq(rows, H + 1, Len(rows)) \in Seq(Row) /\ Len(SubSeq(rows, H + 1, Len(rows))) = Len(rows) - (H + 1) + 1
      /\ \A k \in 1 .. Len(rows) - (H + 1) + 1 : SubSeq(rows, H + 1, Len(rows))[k] = rows[(H + 1) + k - 1]
  BY <1>2, Cut
<1>4. PICK b : b = SubSeq(rows, H + 1, Len(rows))
  OBVIOUS
<1>5. b \in Seq(Row) /\ Len(b) = Len(rows) - H
  BY <1>1, <1>3, <1>4
<1>6. ASSUME NEW k \in 1 .. Len(b) PROVE b[k] = rows[H + k]
  <2>1. k \in 1 .. Len(rows) - (H + 1) + 1 /\ (H + 1) + k - 1 = H + k
    BY <1>1, <1>5
  <2> QED BY <1>3, <1>4, <2>1
<1>7. ASSUME NEW k \in Place PROVE At(b, k) = At(rows, H + k)
  <2>1. CASE k <= Len(b)
    <3>1. k \in 1 .. Len(b) /\ H + k <= Len(rows)
      BY <1>1, <1>5, <2>1 DEF Place
    <3> QED BY <1>6, <2>1, <3>1 DEF At
  <2>2. CASE ~(k <= Len(b))
    <3>1. ~(H + k <= Len(rows))
      BY <1>1, <1>5, <2>2 DEF Place
    <3> QED BY <2>2, <3>1 DEF At
  <2> QED BY <2>1, <2>2
<1>8. Slots(rows) = b
  BY <1>4 DEF Slots, H
<1> QED BY <1>5, <1>6, <1>7, <1>8 DEF H

(* Above the body are rows that are not the header and the header, if the  *)
(* sheet has one; if not, blank rows.  The first row is the first that was *)
(* read, unless others were put on top of it.                              *)
Above(g, rows, start) ==
    /\ \A p \in Place : p < start => ~At(g, p).header
    /\ HeaderAt(rows) # 0 => At(g, start).header
    /\ HeaderAt(rows) = 0 => \A p \in Place : p <= start => At(g, p) = BlankRow
    /\ TopRows(rows) = 0 /\ rows # <<>> => At(g, 1) = rows[1]

TopInserts(rows) == [i \in 1 .. TopRows(rows) |-> Insert(1)]

LEMMA InsertedOnTop ==
    ASSUME NEW g \in Seq(Row), NEW h, h = ApplyOp(g, Insert(1))
    PROVE  /\ h \in Seq(Row)
           /\ \A p \in Place : At(h, p) = IF p < 1 THEN At(g, p) ELSE IF p = 1 THEN BlankRow ELSE At(g, p - 1)
<1>1. PICK i : i = 1
  OBVIOUS
<1>2. i \in Place
  BY <1>1 DEF Place
<1>3. /\ ApplyOp(g, Insert(i)) \in Seq(Row)
      /\ \A p \in Place : At(ApplyOp(g, Insert(i)), p) =
             IF p < i THEN At(g, p) ELSE IF p = i THEN BlankRow ELSE At(g, p - 1)
  BY <1>2, InsertApplied
<1> QED BY <1>1, <1>3

LEMMA TopFacts ==
    ASSUME NEW rows \in Seq(Row), NEW start, start = BodyStart(rows), NEW g, g = Applied(rows, TopInserts(rows))
    PROVE  /\ start \in Nat /\ start > 1
           /\ TopInserts(rows) \in Seq(Op)
           /\ g \in Seq(Row)
           /\ Above(g, rows, start)
           /\ \A k \in Place : At(g, start + k) = At(Slots(rows), k)
<1>1. PICK H : H = HeaderAt(rows)
  OBVIOUS
<1>2. PICK top : top = TopInserts(rows)
  OBVIOUS
<1>3. /\ H \in 0 .. Len(rows)
      /\ H # 0 => rows[H].header
      /\ \A p \in 1 .. Len(rows) : (H = 0 \/ p < H) => ~rows[p].header
  BY <1>1, HeaderFacts
<1>4. Len(rows) \in Nat /\ H \in Nat
  BY <1>3
<1>5. \A k \in Place : At(Slots(rows), k) = At(rows, H + k)
  BY <1>1, SlotsFacts
<1>6. start = (IF H > 2 THEN H ELSE 2) /\ start \in Nat /\ start > 1
  BY <1>1, <1>4 DEF BodyStart
<1>7. TopRows(rows) = (IF H = 1 THEN 1 ELSE IF H = 0 /\ rows # <<>> THEN 2 ELSE 0)
  BY <1>1 DEF TopRows
<1>8. BlankRow.header = FALSE
  BY DEF BlankRow
<1>9. \A p \in Place : (H = 0 \/ p < H) => ~At(rows, p).header
  <2> SUFFICES ASSUME NEW p \in Place, H = 0 \/ p < H PROVE ~At(rows, p).header
    OBVIOUS
  <2>1. CASE p <= Len(rows)
    <3>1. p \in 1 .. Len(rows)
      BY <1>4, <2>1 DEF Place
    <3> QED BY <1>3, <2>1, <3>1 DEF At
  <2>2. CASE ~(p <= Len(rows))
    BY <1>8, <2>2 DEF At
  <2> QED BY <2>1, <2>2
<1>10. 1 \in Place /\ 2 \in Place
  BY DEF Place
<1>11. Insert(1) \in Op
  BY <1>10, OpsAreOps
<1>12. PICK op : op = Insert(1)
  OBVIOUS
<1>13. H # 0 => At(rows, H).header
  BY <1>3, <1>4 DEF At
<1>14. CASE H > 1 \/ rows = <<>>
  <2>1. TopRows(rows) = 0 /\ (rows = <<>> => H = 0)
    BY <1>3, <1>4, <1>7, <1>14
  <2>2. top = <<>>
    BY <1>2, <2>1 DEF TopInserts
  <2>3. g = rows /\ top \in Seq(Op)
    BY <1>2, <2>2, NothingApplied
  <2>4. CASE rows = <<>>
    <3>1. \A p \in Place : At(rows, p) = BlankRow
      BY <1>4, <2>4 DEF At, Place
    <3>2. \A k \in Place : H + k \in Place /\ start + k \in Place
      BY <1>4, <1>6 DEF Place
    <3>3. Above(g, rows, start)
      BY <1>1, <1>8, <2>1, <2>3, <2>4, <3>1 DEF Above
    <3> QED BY <1>2, <1>5, <1>6, <2>3, <3>1, <3>2, <3>3
  <2>5. CASE H > 1
    <3>1. start = H /\ H # 0
      BY <1>4, <1>6, <2>5
    <3>a. At(rows, 1) = rows[1]
      BY <1>3, <1>4, <2>5 DEF At
    <3>2. Above(g, rows, start)
      BY <1>1, <1>9, <1>13, <2>3, <3>1, <3>a DEF Above
    <3> QED BY <1>2, <1>5, <1>6, <2>3, <3>1, <3>2
  <2> QED BY <1>14, <2>4, <2>5
<1>15. CASE H = 1
  <2>1. TopRows(rows) = 1 /\ start = 2
    BY <1>6, <1>7, <1>15
  <2>2. top = <<op>>
    BY <1>2, <1>12, <2>1 DEF TopInserts
  <2>3. g = ApplyOp(rows, Insert(1)) /\ top \in Seq(Op)
    BY <1>2, <1>11, <1>12, <2>2, OneApplied
  <2>4. /\ g \in Seq(Row)
        /\ \A p \in Place : At(g, p) = IF p < 1 THEN At(rows, p) ELSE IF p = 1 THEN BlankRow ELSE At(rows, p - 1)
    BY <2>3, InsertedOnTop
  <2>5. At(g, 1) = BlankRow /\ At(g, 2) = At(rows, 1)
    BY <1>10, <2>4
  <2>6. ASSUME NEW k \in Place PROVE At(g, 2 + k) = At(rows, 1 + k)
    <3>1. 2 + k \in Place /\ ~(2 + k < 1) /\ 2 + k # 1 /\ (2 + k) - 1 = 1 + k
      BY DEF Place
    <3> QED BY <2>4, <3>1
  <2>7. \A p \in Place : p < 2 => p = 1
    BY DEF Place
  <2>8. Above(g, rows, start)
    BY <1>1, <1>8, <1>13, <1>15, <2>1, <2>5, <2>7 DEF Above
  <2> QED BY <1>2, <1>5, <1>6, <1>15, <2>1, <2>3, <2>4, <2>6, <2>8
<1>16. CASE H = 0 /\ rows # <<>>
  <2>1. TopRows(rows) = 2 /\ start = 2
    BY <1>6, <1>7, <1>16
  <2>2. top = Append(<<op>>, op)
    <3>1. top = [i \in 1 .. 2 |-> op]
      BY <1>2, <1>12, <2>1 DEF TopInserts
    <3> QED BY <3>1
  <2>3. PICK u : u = ApplyOp(rows, Insert(1))
    OBVIOUS
  <2>4. g = ApplyOp(u, Insert(1)) /\ top \in Seq(Op)
    <3>1. <<op>> \in Seq(Op) /\ op \in Op
      BY <1>11, <1>12
    <3>2. Applied(rows, <<op>>) = u
      BY <1>12, <2>3, OneApplied
    <3>3. Applied(rows, Append(<<op>>, op)) = ApplyOp(Applied(rows, <<op>>), op)
      <4>1. PICK a : a = <<op>>
        OBVIOUS
      <4>2. a \in Seq(Op)
        BY <3>1, <4>1
      <4>3. Applied(rows, Append(a, op)) = ApplyOp(Applied(rows, a), op)
        BY ONLY <3>1, <4>2, LastApplied
      <4> QED BY <4>1, <4>3
    <3> QED BY <1>2, <1>12, <2>2, <3>1, <3>2, <3>3
  <2>5. /\ u \in Seq(Row)
        /\ \A p \in Place : At(u, p) = IF p < 1 THEN At(rows, p) ELSE IF p = 1 THEN BlankRow ELSE At(rows, p - 1)
    BY <2>3, InsertedOnTop
  <2>6. /\ g \in Seq(Row)
        /\ \A p \in Place : At(g, p) = IF p < 1 THEN At(u, p) ELSE IF p = 1 THEN BlankRow ELSE At(u, p - 1)
    BY <2>4, <2>5, InsertedOnTop
  <2>7. At(g, 1) = BlankRow /\ At(g, 2) = BlankRow
    BY <1>10, <2>5, <2>6
  <2>8. ASSUME NEW k \in Place PROVE At(g, 2 + k) = At(rows, 0 + k)
    <3>1. /\ 2 + k \in Place /\ ~(2 + k < 1) /\ 2 + k # 1 /\ (2 + k) - 1 = 1 + k
          /\ 1 + k \in Place /\ ~(1 + k < 1) /\ 1 + k # 1 /\ (1 + k) - 1 = k /\ 0 + k = k
      BY DEF Place
    <3>2. At(g, 2 + k) = At(u, 1 + k)
      BY <2>6, <3>1
    <3>3. At(u, 1 + k) = At(rows, k)
      BY <2>5, <3>1
    <3> QED BY <3>1, <3>2, <3>3
  <2>9. \A p \in Place : p <= 2 => p = 1 \/ p = 2
    BY DEF Place
  <2>10. \A p \in Place : p < 2 => p <= 2
    BY DEF Place
  <2>11. Above(g, rows, start)
    BY <1>1, <1>8, <1>16, <2>1, <2>7, <2>9, <2>10 DEF Above
  <2> QED BY <1>2, <1>5, <1>6, <1>16, <2>1, <2>4, <2>6, <2>8, <2>11
<1>17. H > 1 \/ H = 1 \/ H = 0
  BY <1>4
<1> QED BY <1>14, <1>15, <1>16, <1>17

-----------------------------------------------------------------------------
(* The plan as a whole. *)

(* The rows after the plan's operations: one for each endpoint, in the     *)
(* order of the audit, an old row of the same key or a blank one; every    *)
(* row that Kept keeps is among them.                                      *)
Planned(slots, rows, audit) ==
    /\ slots \in Seq(Row)
    /\ Len(slots) = Len(audit)
    /\ \A m \in 1 .. Len(slots) : slots[m] = BlankRow \/ slots[m].key = audit[m].key
    /\ \A m \in 1 .. Len(slots) :
           slots[m] = BlankRow \/ \E i \in 1 .. Len(Slots(rows)) : slots[m] = Slots(rows)[i]
    /\ \A i \in 1 .. Len(Slots(rows)) :
           Kept(Slots(rows), audit, i) => \E m \in 1 .. Len(slots) : slots[m] = Slots(rows)[i]

LEMMA PlanFacts ==
    ASSUME NEW s, s.rows \in Seq(Row), Len(s.audit) \in Nat
    PROVE  /\ Plan(s).ops \in Seq(Op)
           /\ Planned(Plan(s).slots, s.rows, s.audit)
           /\ Applied(s.rows, Plan(s).ops) \in Seq(Row)
           /\ Above(Applied(s.rows, Plan(s).ops), s.rows, BodyStart(s.rows))
           /\ \A k \in Place : At(Applied(s.rows, Plan(s).ops), BodyStart(s.rows) + k) = At(Plan(s).slots, k)
<1>1. PICK rows : rows = s.rows
  OBVIOUS
<1>2. PICK audit : audit = s.audit
  OBVIOUS
<1>3. PICK start : start = BodyStart(rows)
  OBVIOUS
<1>4. PICK slots : slots = Slots(rows)
  OBVIOUS
<1>5. PICK thin : thin = Thinned(slots, audit, start)
  OBVIOUS
<1>6. PICK top : top = TopInserts(rows)
  OBVIOUS
<1>7. PICK begin : begin = [slots |-> thin.slots, ops |-> top \o thin.ops]
  OBVIOUS
<1>8. PICK plan : plan = Aligned(begin, audit, start)
  OBVIOUS
<1>9. Plan(s) = plan
  BY <1>1, <1>2, <1>3, <1>4, <1>5, <1>6, <1>7, <1>8 DEF Plan, TopInserts
<1>10. PICK g : g = Applied(rows, top)
  OBVIOUS
<1>11. rows \in Seq(Row) /\ Len(audit) \in Nat
  BY <1>1, <1>2
<1>12. /\ start \in Nat /\ start > 1
       /\ top \in Seq(Op)
       /\ g \in Seq(Row)
       /\ Above(g, rows, start)
       /\ \A k \in Place : At(g, start + k) = At(slots, k)
  BY <1>3, <1>4, <1>6, <1>10, <1>11, TopFacts
<1>13. slots \in Seq(Row)
  BY <1>4, <1>11, SlotsFacts
<1>14. /\ ThinTyped(thin, slots, Len(slots))
       /\ ThinApplies(thin, slots, Len(slots), start)
       /\ ThinCounts(thin, slots, audit, Len(slots))
       /\ ThinKeeps(thin, slots, audit, Len(slots))
  BY <1>5, <1>11, <1>12, <1>13, ThinnedFacts
<1>15. PICK rest : rest = thin.slots
  OBVIOUS
<1>16. PICK o : o = thin.ops
  OBVIOUS
<1>17. begin.slots = rest /\ begin.ops = top \o o /\ rest \in Seq(Row) /\ o \in Seq(Op)
  BY <1>7, <1>14, <1>15, <1>16 DEF ThinTyped
<1>18. AlignTyped(begin, rest, audit, 0)
  <2>1. top \o o \in Seq(Op)
    BY <1>12, <1>17
  <2>2. Len(rest) \in Nat /\ \A m \in 1 .. Len(rest) : rest[m].key # Blank
    BY <1>14, <1>15, <1>17 DEF ThinTyped
  <2>3. \A i \in 1 .. Len(rest) : \E m \in 1 .. Len(rest) : rest[m] = rest[i]
    OBVIOUS
  <2>4. 0 <= Len(rest) /\ 1 .. 0 = {}
    BY <2>2
  <2> QED BY <1>17, <2>1, <2>2, <2>3, <2>4 DEF AlignTyped
<1>19. AlignCounts(begin, audit, 0)
  <2> SUFFICES ASSUME NEW k, k # Blank
               PROVE  Count(rest, k, Len(rest)) - Count(rest, k, 0) <= Count(audit, k, Len(audit)) - Count(audit, k, 0)
    BY <1>17 DEF AlignCounts
  <2>1. Count(rest, k, Len(rest)) <= Count(audit, k, Len(audit))
    BY <1>14, <1>15 DEF ThinCounts
  <2>a. Count(rest, k, 0) = 0
    BY CountFacts
  <2>b. Count(audit, k, 0) = 0
    BY CountFacts
  <2>2. Count(rest, k, 0) = 0 /\ Count(audit, k, 0) = 0
    BY <2>a, <2>b
  <2>3. Count(rest, k, Len(rest)) \in Nat
    <3>1. Len(rest) \in Nat
      BY <1>17
    <3>2. \A n \in Nat : Count(rest, k, n) \in Nat
      BY CountFacts
    <3> QED BY <3>1, <3>2
  <2>4. Count(audit, k, Len(audit)) \in Nat
    BY <1>11, CountFacts
  <2> QED BY <2>1, <2>2, <2>3, <2>4
<1>20. PICK h : h = Applied(g, o)
  OBVIOUS
<1>21. Applied(rows, begin.ops) = h
  BY <1>10, <1>12, <1>17, <1>20, AppliedInTurn
<1>22. Below(h, rest, g, start)
  <2>1. Len(slots) \in Nat /\ Len(rest) \in Nat /\ start \in Nat
    BY <1>12, <1>13, <1>17
  <2>2. \A i \in 1 .. Len(slots) : At(g, start + i) = slots[i]
    <3> SUFFICES ASSUME NEW i \in 1 .. Len(slots) PROVE At(g, start + i) = slots[i]
      OBVIOUS
    <3>1. i \in Place /\ i <= Len(slots)
      BY <2>1 DEF Place
    <3> QED BY <1>12, <3>1 DEF At
  <2>3. Holds(h, rest, g, Len(slots), start)
    BY <1>12, <1>14, <1>15, <1>16, <1>20, <2>2 DEF ThinApplies
  <2>4. ASSUME NEW k \in Place PROVE At(h, start + k) = At(rest, k)
    <3>a. k \in Nat /\ k >= 1
      BY DEF Place
    <3>1. CASE k <= Len(rest)
      <4>1. k \in 1 .. Len(rest)
        BY <2>1, <3>1 DEF Place
      <4> QED BY <2>3, <3>1, <4>1 DEF Holds, At
    <3>2. CASE ~(k <= Len(rest))
      <4>1. k - Len(rest) \in Place /\ start + Len(rest) + (k - Len(rest)) = start + k
        BY <2>1, <3>a, <3>2 DEF Place
      <4>2. At(h, start + k) = At(g, start + Len(slots) + (k - Len(rest)))
        BY <2>3, <4>1 DEF Holds
      <4>3. /\ Len(slots) + (k - Len(rest)) \in Place /\ ~(Len(slots) + (k - Len(rest)) <= Len(slots))
            /\ start + Len(slots) + (k - Len(rest)) = start + (Len(slots) + (k - Len(rest)))
        BY <2>1, <3>a, <3>2 DEF Place
      <4>4. At(g, start + (Len(slots) + (k - Len(rest)))) = BlankRow
        BY <1>12, <4>3 DEF At
      <4> QED BY <3>2, <4>2, <4>3, <4>4 DEF At
    <3> QED BY <3>1, <3>2
  <2> QED BY <2>3, <2>4 DEF Holds, Below
<1>23. /\ AlignTyped(plan, rest, audit, Len(audit))
       /\ AlignCounts(plan, audit, Len(audit))
       /\ Below(Applied(rows, plan.ops), plan.slots, g, start)
  <2>1. Below(Applied(rows, begin.ops), begin.slots, g, start) /\ Len(rest) \in Nat
    BY <1>17, <1>21, <1>22
  <2> QED BY <1>8, <1>11, <1>12, <1>18, <1>19, <2>1, AlignedFacts
<1>24. Len(plan.slots) = Len(audit)
  BY <1>11, <1>23, OneRowEach
<1>25. Planned(plan.slots, rows, audit)
  <2>1. PICK final : final = plan.slots
    OBVIOUS
  <2>2. /\ final \in Seq(Row) /\ Len(final) = Len(audit)
        /\ \A m \in 1 .. Len(audit) : final[m] = BlankRow \/ final[m].key = audit[m].key
        /\ \A m \in 1 .. Len(final) : final[m] = BlankRow \/ \E i \in 1 .. Len(rest) : final[m] = rest[i]
        /\ \A i \in 1 .. Len(rest) : \E m \in 1 .. Len(final) : final[m] = rest[i]
    BY <1>23, <1>24, <2>1 DEF AlignTyped
  <2>3. \A m \in 1 .. Len(rest) : \E i \in 1 .. Len(slots) : rest[m] = slots[i]
    BY <1>14, <1>15 DEF ThinTyped
  <2>4. \A i \in 1 .. Len(slots) : Kept(slots, audit, i) => \E m \in 1 .. Len(rest) : rest[m] = slots[i]
    BY <1>14, <1>15 DEF ThinKeeps
  <2>5. ASSUME NEW m \in 1 .. Len(final) PROVE final[m] = BlankRow \/ \E i \in 1 .. Len(slots) : final[m] = slots[i]
    <3> SUFFICES ASSUME final[m] # BlankRow PROVE \E i \in 1 .. Len(slots) : final[m] = slots[i]
      OBVIOUS
    <3>1. PICK q \in 1 .. Len(rest) : final[m] = rest[q]
      BY <2>2
    <3> QED BY <2>3, <3>1
  <2>6. ASSUME NEW i \in 1 .. Len(slots), Kept(slots, audit, i) PROVE \E m \in 1 .. Len(final) : final[m] = slots[i]
    <3>1. PICK q \in 1 .. Len(rest) : rest[q] = slots[i]
      BY <2>4, <2>6
    <3>2. PICK m \in 1 .. Len(final) : final[m] = rest[q]
      BY <2>2
    <3> QED BY <3>1, <3>2
  <2> QED BY <1>4, <2>1, <2>2, <2>5, <2>6 DEF Planned
<1>26. Above(Applied(rows, plan.ops), rows, start)
  <2>1. PICK u : u = Applied(rows, plan.ops)
    OBVIOUS
  <2>2. \A p \in Place : p <= start => At(u, p) = At(g, p)
    BY <1>23, <2>1 DEF Below
  <2>3. start \in Place /\ start <= start /\ 1 \in Place /\ 1 <= start /\ \A p \in Place : p < start => p <= start
    BY <1>12 DEF Place
  <2> QED BY <1>12, <2>1, <2>2, <2>3 DEF Above
<1>27. Applied(rows, plan.ops) \in Seq(Row) /\ \A k \in Place : At(Applied(rows, plan.ops), start + k) = At(plan.slots, k)
  BY <1>23 DEF Below
<1>28. plan.ops \in Seq(Op)
  BY <1>23 DEF AlignTyped
<1> QED BY <1>1, <1>2, <1>3, <1>9, <1>25, <1>26, <1>27, <1>28

-----------------------------------------------------------------------------
(* The rows that are written. *)

(* The last previous row with an endpoint's key, or 0. *)
IsLastWith(slots, k, i) ==
    /\ i \in 0 .. Len(slots)
    /\ i # 0 => slots[i].key = k
    /\ \A p \in 1 .. Len(slots) : slots[p].key = k => i # 0 /\ p <= i

(* t is what an endpoint's row says, given its previous row. *)
Tracks(t, slots, cur, now, i) ==
    /\ t.key = cur.key
    /\ t.value = IF i # 0 /\ slots[i].value = NA THEN NA ELSE cur.value
    /\ t.info = IF i # 0 /\ slots[i].info = NA THEN NA ELSE cur.info
    /\ t.log = IF i # 0 /\ slots[i].value = t.value THEN slots[i].log ELSE now

LEMMA TrackedFacts ==
    ASSUME NEW slots \in Seq(Row), NEW cur \in Audited, NEW now
    PROVE  \E i : IsLastWith(slots, cur.key, i) /\ Tracks(Tracked(slots, cur, now), slots, cur, now, i)
<1> DEFINE I == {p \in 1 .. Len(slots) : slots[p].key = cur.key}
           i == SelectLastInSeq(slots, LAMBDA row : row.key = cur.key)
           kept == IF i = 0 THEN cur ELSE Override(slots[i], cur)
           same == i # 0 /\ slots[i].value = kept.value
<1>0. Len(slots) \in Nat
  OBVIOUS
<1>1. i = (IF I # {} THEN Max(I) ELSE 0)
  BY DEF SelectLastInSeq
<1>2. I # {} => i \in I /\ \A p \in I : i >= p
  <2> SUFFICES ASSUME I # {} PROVE i \in I /\ \A p \in I : i >= p
    OBVIOUS
  <2>1. I \in SUBSET (0 .. Len(slots))
    BY <1>0
  <2> HIDE DEF I, i
  <2> QED BY <1>0, <1>1, <2>1, MaxFacts
<1>3. Tracked(slots, cur, now) = Generated(kept, IF same THEN slots[i].log ELSE now)
  BY DEF Tracked
<1> HIDE DEF i
<1>4. IsLastWith(slots, cur.key, i)
  <2>1. CASE I = {}
    <3>1. i = 0
      BY <1>1, <2>1
    <3> QED BY <1>0, <2>1, <3>1 DEF IsLastWith
  <2>2. CASE I # {}
    <3>1. i \in 1 .. Len(slots) /\ slots[i].key = cur.key /\ i # 0 /\ i \in 0 .. Len(slots)
      BY <1>0, <1>2, <2>2
    <3>2. \A p \in 1 .. Len(slots) : slots[p].key = cur.key => p <= i
      BY <1>0, <1>2, <2>2, <3>1
    <3> QED BY <3>1, <3>2 DEF IsLastWith
  <2> QED BY <2>1, <2>2
<1>5. /\ kept = [key |-> cur.key, value |-> kept.value, info |-> kept.info]
      /\ kept.value = IF i # 0 /\ slots[i].value = NA THEN NA ELSE cur.value
      /\ kept.info = IF i # 0 /\ slots[i].info = NA THEN NA ELSE cur.info
  <2>1. CASE i = 0
    BY <2>1 DEF Audited
  <2>2. CASE i # 0
    <3>1. kept = [cur EXCEPT !.value = IF slots[i].value = NA THEN NA ELSE @,
                             !.info  = IF slots[i].info = NA THEN NA ELSE @]
      BY <2>2 DEF Override
    <3> HIDE DEF kept
    <3> QED BY <2>2, <3>1 DEF Audited
  <2> QED BY <2>1, <2>2
<1>6. PICK l : l = IF same THEN slots[i].log ELSE now
  OBVIOUS
<1>7. l = IF i # 0 /\ slots[i].value = kept.value THEN slots[i].log ELSE now
  BY <1>6
<1> HIDE DEF kept, same
<1>8. PICK t : t = Generated(kept, l)
  OBVIOUS
<1>9. t.key = cur.key /\ t.value = kept.value /\ t.info = kept.info /\ t.log = l
  BY <1>5, <1>8 DEF Generated
<1>10. Tracks(t, slots, cur, now, i)
  BY <1>5, <1>7, <1>9 DEF Tracks
<1> QED BY <1>3, <1>4, <1>6, <1>8, <1>10

(* Whatever grid they are applied to, operations give a grid. *)
LEMMA OpTyped ==
    ASSUME NEW g \in Seq(Row), NEW op \in Op
    PROVE  ApplyOp(g, op) \in Seq(Row)
<1>1. PICK n : n = IF op.from > op.at THEN op.from ELSE op.at
  OBVIOUS
<1>2. PICK h : h = Pad(g, n)
  OBVIOUS
<1>3. op.at \in Nat /\ op.at >= 1 /\ op.from \in Nat /\ op.kind \in {"insert", "delete", "move"}
      /\ (op.kind = "move" => op.at < op.from)
  BY DEF Op, Place
<1>4. n \in Nat /\ op.at <= n /\ op.from <= n
  BY <1>1, <1>3
<1>5. h \in Seq(Row) /\ Len(h) \in Nat /\ n <= Len(h)
  <2>1. h \in Seq(Row) /\ Len(h) = (IF n > Len(g) THEN n ELSE Len(g))
    BY <1>2, <1>4, PadFacts
  <2> QED BY <1>4, <2>1
<1>6. CASE op.kind = "insert"
  <2>1. ApplyOp(g, op) = InsertAt(h, op.at, BlankRow)
    BY <1>1, <1>2, <1>6 DEF ApplyOp
  <2>2. op.at \in 1 .. Len(h) + 1
    BY <1>3, <1>4, <1>5
  <2> QED BY <1>5, <2>1, <2>2, BlankRowIsRow, Inserted
<1>7. CASE op.kind = "delete"
  <2>1. ApplyOp(g, op) = RemoveAt(h, op.at)
    BY <1>1, <1>2, <1>7 DEF ApplyOp
  <2>2. op.at \in 1 .. Len(h)
    BY <1>3, <1>4, <1>5
  <2> QED BY <1>5, <2>1, <2>2, Removed
<1>8. CASE op.kind = "move"
  <2>1. ApplyOp(g, op) = Shift(h, op.from, op.at)
    BY <1>1, <1>2, <1>8 DEF ApplyOp
  <2>2. op.at \in 1 .. Len(h) /\ op.from \in 1 .. Len(h) /\ op.at < op.from
    BY <1>3, <1>4, <1>5, <1>8
  <2> QED BY <1>5, <2>1, <2>2, ShiftFacts
<1> QED BY <1>3, <1>6, <1>7, <1>8

LEMMA AppliedTyped ==
    ASSUME NEW g \in Seq(Row), NEW ops \in Seq(Op)
    PROVE  Applied(g, ops) \in Seq(Row)
<1>1. Len(ops) \in Nat
  OBVIOUS
<1>2. PICK f : Grids(f, g, ops, Len(ops)) /\ Applied(g, ops) = f[Len(ops)]
  BY <1>1, AppliedHasGrids
<1> DEFINE T == {n \in 0 .. Len(ops) : f[n] \in Seq(Row)}
<1>3. 0 \in T
  BY <1>1, <1>2 DEF Grids
<1>4. ASSUME NEW n \in 1 .. Len(ops), n - 1 \in T PROVE n \in T
  <2>1. f[n] = ApplyOp(f[n - 1], ops[n]) /\ f[n - 1] \in Seq(Row) /\ ops[n] \in Op
    BY <1>2, <1>4 DEF Grids
  <2>2. f[n] \in Seq(Row)
    BY <2>1, OpTyped
  <2> QED BY <2>2
<1>5. T \in SUBSET (0 .. Len(ops))
  OBVIOUS
<1>6. T = 0 .. Len(ops)
  <2> HIDE DEF T
  <2> QED BY <1>1, <1>3, <1>4, <1>5, UpTo
<1>7. Len(ops) \in T
  <2> HIDE DEF T
  <2> QED BY <1>1, <1>6
<1> QED BY <1>2, <1>7

(* What a run knows of the sheet and of the endpoints. *)
Known(s) ==
    /\ s.rows \in Seq(Row)
    /\ s.audit \in Seq(Audited)
    /\ s.now \in 0 .. MaxRuns

LEMMA DesiredFacts ==
    ASSUME NEW s, Known(s)
    PROVE  /\ Len(Desired(s)) = Len(s.audit)
           /\ \A m \in 1 .. Len(s.audit) :
                  /\ \E i : /\ IsLastWith(Slots(s.rows), s.audit[m].key, i)
                            /\ Tracks(Desired(s)[m], Slots(s.rows), s.audit[m], s.now, i)
                  /\ Desired(s)[m].key \in Key
                  /\ Desired(s)[m].value \in Value \cup {NA}
                  /\ Desired(s)[m].info \in Info \cup {NA}
                  /\ Desired(s)[m].log \in 0 .. MaxRuns
<1>1. PICK slots : slots = Slots(s.rows)
  OBVIOUS
<1>2. slots \in Seq(Row)
  BY <1>1, SlotsFacts DEF Known
<1>3. PICK audit : audit = s.audit
  OBVIOUS
<1>4. audit \in Seq(Audited) /\ Len(audit) \in Nat
  BY <1>3 DEF Known
<1>5. PICK d : d = [i \in 1 .. Len(audit) |-> Tracked(slots, audit[i], s.now)]
  OBVIOUS
<1>6. Desired(s) = d
  BY <1>1, <1>3, <1>5 DEF Desired
<1>7. Len(d) = Len(audit) /\ \A m \in 1 .. Len(audit) : d[m] = Tracked(slots, audit[m], s.now)
  BY <1>4, <1>5
<1>8. ASSUME NEW m \in 1 .. Len(audit)
      PROVE  /\ \E i : /\ IsLastWith(slots, audit[m].key, i)
                       /\ Tracks(d[m], slots, audit[m], s.now, i)
             /\ d[m].key \in Key
             /\ d[m].value \in Value \cup {NA}
             /\ d[m].info \in Info \cup {NA}
             /\ d[m].log \in 0 .. MaxRuns
  <2>1. audit[m] \in Audited
    BY <1>4
  <2>2. PICK i : IsLastWith(slots, audit[m].key, i) /\ Tracks(Tracked(slots, audit[m], s.now), slots, audit[m], s.now, i)
    BY <1>2, <2>1, TrackedFacts
  <2>3. Tracks(d[m], slots, audit[m], s.now, i)
    BY <1>7, <2>2
  <2>4. i # 0 => slots[i] \in Row
    BY <1>2, <2>2 DEF IsLastWith
  <2>5. d[m].key \in Key /\ d[m].value \in Value \cup {NA} /\ d[m].info \in Info \cup {NA}
    BY <2>1, <2>3 DEF Tracks, Audited
  <2>6. d[m].log \in 0 .. MaxRuns
    BY <2>3, <2>4 DEF Tracks, Row, Known
  <2> QED BY <2>2, <2>3, <2>5, <2>6
<1> QED BY <1>1, <1>3, <1>6, <1>7, <1>8

LEMMA PatchFacts ==
    ASSUME NEW row \in Row, NEW old, NEW new,
           new.key \in Key, new.value \in Value \cup {NA}, new.info \in Info \cup {NA}, new.log \in 0 .. MaxRuns
    PROVE  /\ Patch(row, old, new) \in Row
           /\ Patch(row, old, new).header = row.header
           /\ Patch(row, old, new).note = row.note
           /\ Patch(row, old, new).key = (IF old.key = new.key THEN row.key ELSE new.key)
           /\ Patch(row, old, new).value = (IF old.value = new.value THEN row.value ELSE new.value)
           /\ Patch(row, old, new).info = (IF old.info = new.info THEN row.info ELSE new.info)
           /\ Patch(row, old, new).log = (IF old.log = new.log THEN row.log ELSE new.log)
<1>1. PICK k : k = IF old.key = new.key THEN row.key ELSE new.key
  OBVIOUS
<1>2. PICK v : v = IF old.value = new.value THEN row.value ELSE new.value
  OBVIOUS
<1>3. PICK i : i = IF old.info = new.info THEN row.info ELSE new.info
  OBVIOUS
<1>4. PICK l : l = IF old.log = new.log THEN row.log ELSE new.log
  OBVIOUS
<1>5. /\ k \in Label /\ v \in Value \cup {NA, Blank} /\ i \in Info \cup {NA, Blank}
      /\ l \in 0 .. MaxRuns
  BY <1>1, <1>2, <1>3, <1>4 DEF Row, Label
<1>6. Patch(row, old, new) = [header |-> row.header, key |-> k, value |-> v, info |-> i, log |-> l, note |-> row.note]
  <2>1. row = [header |-> row.header, key |-> row.key, value |-> row.value, info |-> row.info, log |-> row.log, note |-> row.note]
    BY DEF Row
  <2>2. Patch(row, old, new) = [row EXCEPT !.key = k, !.value = v, !.info = i, !.log = l]
    BY <1>1, <1>2, <1>3, <1>4 DEF Patch
  <2> QED BY <2>1, <2>2
<1>7. row.header \in BOOLEAN /\ row.note \in Note \cup {Blank}
  BY DEF Row
<1> QED BY <1>1, <1>2, <1>3, <1>4, <1>5, <1>6, <1>7 DEF Row

LEMMA HeadedIsRow ==
    ASSUME NEW row \in Row
    PROVE  [row EXCEPT !.header = TRUE] \in Row /\ [row EXCEPT !.header = TRUE].header
BY DEF Row

(* Figures are numbers. *)
LEMMA StatsTyped ==
    ASSUME NEW n \in Nat, NEW rows, DOMAIN rows = 1 .. n
    PROVE  Stats(rows) \in [Figure -> Nat]
<1>1. ASSUME NEW f \in Figure
      PROVE  Cardinality({i \in DOMAIN rows : <<rows[i].value, rows[i].info>> \in f}) \in Nat
  <2>1. PICK I : I = {i \in DOMAIN rows : <<rows[i].value, rows[i].info>> \in f}
    OBVIOUS
  <2>2. I \subseteq 1 .. n
    BY <2>1
  <2>3. 1 \in Int /\ n \in Int
    OBVIOUS
  <2>4. IsFiniteSet(1 .. n)
    BY <2>3, FS_Interval
  <2>5. IsFiniteSet(I)
    BY <2>2, <2>4, FS_Subset
  <2>6. Cardinality(I) \in Nat
    BY <2>5, FS_CardinalityType
  <2> QED BY <2>1, <2>6
<1> QED BY <1>1 DEF Stats

(* Rows with the same cells have the same figures. *)
LEMMA SameStats ==
    ASSUME NEW n \in Nat, NEW a, NEW b, DOMAIN a = 1 .. n, DOMAIN b = 1 .. n,
           \A i \in 1 .. n : a[i].value = b[i].value /\ a[i].info = b[i].info
    PROVE  Stats(a) = Stats(b)
<1>1. ASSUME NEW f \in Figure
      PROVE  {i \in DOMAIN a : <<a[i].value, a[i].info>> \in f} = {i \in DOMAIN b : <<b[i].value, b[i].info>> \in f}
  OBVIOUS
<1> QED BY <1>1 DEF Stats

LEMMA SummaryTyped ==
    ASSUME NEW s, Known(s)
    PROVE  SummaryOf(s) \in Summary
<1>1. PICK slots : slots = Slots(s.rows)
  OBVIOUS
<1>2. PICK d : d = Desired(s)
  OBVIOUS
<1>3. slots \in Seq(Row) /\ Len(slots) \in Nat
  BY <1>1, SlotsFacts DEF Known
<1>4. DOMAIN slots = 1 .. Len(slots)
  BY <1>3
<1>5. Len(s.audit) \in Nat /\ DOMAIN d = 1 .. Len(s.audit)
  BY <1>2 DEF Known, Desired
<1>6. Stats(slots) \in [Figure -> Nat]
  BY <1>3, <1>4, StatsTyped
<1>7. Stats(d) \in [Figure -> Nat]
  BY <1>5, StatsTyped
<1>8. SummaryOf(s) = [now |-> Stats(d), was |-> Stats(slots)]
  BY <1>1, <1>2 DEF SummaryOf
<1> QED BY <1>6, <1>7, <1>8 DEF Summary

(* The first row with the summary filled in. *)
Topped(row, s) == [row EXCEPT !.key = SummaryCell(row.key, s)]

LEMMA ToppedFacts ==
    ASSUME NEW s, Known(s), NEW row \in Row
    PROVE  /\ Topped(row, s) \in Row
           /\ Topped(row, s).header = row.header
           /\ Topped(row, s).key = SummaryCell(row.key, s)
<1>1. PICK k : k = SummaryCell(row.key, s)
  OBVIOUS
<1>2. SummaryOf(s) \in Summary
  BY SummaryTyped
<1>3. k = row.key \/ k = SummaryOf(s)
  BY <1>1 DEF SummaryCell
<1>4. k \in Label
  BY <1>2, <1>3 DEF Label, Row
<1>5. Topped(row, s) = [row EXCEPT !.key = k]
  BY <1>1 DEF Topped
<1> QED BY <1>1, <1>4, <1>5 DEF Row

(* The grid after the cells are written. *)
LEMMA CellsFacts ==
    ASSUME NEW s, Known(s), NEW grid \in Seq(Row), NEW start, start = BodyStart(s.rows)
    PROVE  /\ CellsApplied(grid, s) \in Seq(Row)
           /\ Trimmed(CellsApplied(grid, s))
           /\ \A p \in Place : At(CellsApplied(grid, s), p) =
                  IF p \in start + 1 .. start + Len(s.audit)
                  THEN Patch(At(grid, p), Plan(s).slots[p - start], Desired(s)[p - start])
                  ELSE IF p = start /\ HeaderAt(s.rows) = 0 THEN [At(grid, p) EXCEPT !.header = TRUE]
                  ELSE IF p = 1 THEN Topped(At(grid, p), s)
                  ELSE At(grid, p)
<1>1. PICK d : d = Desired(s)
  OBVIOUS
<1>2. PICK slots : slots = Plan(s).slots
  OBVIOUS
<1>3. PICK n : n = Len(s.audit)
  OBVIOUS
<1>4. n \in Nat /\ Len(d) = n
  BY <1>1, <1>3, DesiredFacts DEF Known
<1>5. start \in Nat /\ start > 1
  BY TopFacts DEF Known
<1>6. PICK g : g = Pad(grid, start + n)
  OBVIOUS
<1>7. /\ g \in Seq(Row) /\ Len(g) = (IF start + n > Len(grid) THEN start + n ELSE Len(grid))
      /\ \A p \in Place : At(g, p) = At(grid, p)
  BY <1>4, <1>5, <1>6, PadFacts
<1> DEFINE Cell(row, p) == IF p \in start + 1 .. start + n THEN Patch(row, slots[p - start], d[p - start])
                           ELSE IF p = start /\ HeaderAt(s.rows) = 0 THEN [row EXCEPT !.header = TRUE]
                           ELSE IF p = 1 THEN Topped(row, s)
                           ELSE row
<1>8. PICK c : c = [p \in 1 .. Len(g) |-> Cell(g[p], p)]
  OBVIOUS
<1>9. CellsApplied(grid, s) = Trim(c)
  BY <1>1, <1>2, <1>4, <1>6, <1>8 DEF CellsApplied, Topped
<1>10. ASSUME NEW row \in Row, NEW p \in Nat PROVE Cell(row, p) \in Row
  <2>1. CASE p \in start + 1 .. start + n
    <3>1. p - start \in 1 .. n
      BY <1>4, <1>5, <2>1
    <3>2. /\ d[p - start].key \in Key /\ d[p - start].value \in Value \cup {NA}
          /\ d[p - start].info \in Info \cup {NA} /\ d[p - start].log \in 0 .. MaxRuns
      BY <1>1, <1>3, <3>1, DesiredFacts
    <3> QED BY <2>1, <3>2, PatchFacts
  <2>2. CASE ~(p \in start + 1 .. start + n)
    BY <2>2, HeadedIsRow, ToppedFacts
  <2> QED BY <2>1, <2>2
<1>11. ASSUME NEW p \in 1 .. Len(g) PROVE c[p] = Cell(At(grid, p), p)
  <2>1. p \in Place /\ p <= Len(g)
    BY <1>7 DEF Place
  <2>2. g[p] = At(grid, p)
    BY <1>7, <2>1 DEF At
  <2>3. c[p] = Cell(g[p], p)
    BY <1>8
  <2> HIDE DEF Cell
  <2> QED BY <2>2, <2>3
<1>12. c \in Seq(Row) /\ Len(c) = Len(g)
  <2>1. Len(g) \in Nat
    BY <1>7
  <2>2. \A p \in 1 .. Len(g) : Cell(g[p], p) \in Row
    BY <1>7, <1>10
  <2> HIDE DEF Cell
  <2> QED BY <1>8, <2>1, <2>2
<1>13. ASSUME NEW p \in Place PROVE At(c, p) = Cell(At(grid, p), p)
  <2>1. CASE p <= Len(g)
    <3>1. p \in 1 .. Len(g)
      BY <1>7, <2>1 DEF Place
    <3> HIDE DEF Cell
    <3> QED BY <1>11, <1>12, <2>1, <3>1 DEF At
  <2>2. CASE ~(p <= Len(g))
    <3>1. /\ p \in Nat /\ Len(grid) \in Nat /\ Len(g) \in Nat
          /\ start + n <= Len(g) /\ Len(grid) <= Len(g)
      BY <1>4, <1>5, <1>7 DEF Place
    <3>2. ~(p \in start + 1 .. start + n) /\ p # start /\ p # 1 /\ ~(p <= Len(grid))
      BY <1>4, <1>5, <2>2, <3>1
    <3> QED BY <1>12, <2>2, <3>2 DEF At
  <2> QED BY <2>1, <2>2
<1>14. /\ Trim(c) \in Seq(Row) /\ Trimmed(Trim(c))
       /\ \A p \in Place : At(Trim(c), p) = At(c, p)
  BY <1>12, TrimFacts
<1>15. \A p \in Place : At(CellsApplied(grid, s), p) = Cell(At(grid, p), p)
  <2> HIDE DEF Cell
  <2> QED BY <1>9, <1>13, <1>14
<1> QED BY <1>1, <1>2, <1>3, <1>9, <1>14, <1>15

(* The grid after the row operations, when nothing has changed it since.   *)
LEMMA RowsAppliedFacts ==
    ASSUME NEW s, Known(s), NEW start, start = BodyStart(s.rows), NEW g, g = RowsApplied(s.rows, s)
    PROVE  /\ g \in Seq(Row)
           /\ Trimmed(g)
           /\ Planned(Plan(s).slots, s.rows, s.audit)
           /\ Above(g, s.rows, start)
           /\ \A k \in Place : At(g, start + k) = At(Plan(s).slots, k)
<1>1. PICK h : h = Applied(s.rows, Plan(s).ops)
  OBVIOUS
<1>2. s.rows \in Seq(Row) /\ Len(s.audit) \in Nat
  BY DEF Known
<1>3. /\ Planned(Plan(s).slots, s.rows, s.audit)
      /\ h \in Seq(Row)
      /\ Above(h, s.rows, start)
      /\ \A k \in Place : At(h, start + k) = At(Plan(s).slots, k)
  BY <1>1, <1>2, PlanFacts
<1>4. start \in Nat /\ start > 1
  BY <1>2, TopFacts
<1>5. g = Trim(h)
  BY <1>1 DEF RowsApplied
<1>6. /\ g \in Seq(Row) /\ Trimmed(g)
      /\ \A p \in Place : At(g, p) = At(h, p)
  BY <1>3, <1>5, TrimFacts
<1>7. start \in Place /\ 1 \in Place /\ \A k \in Place : start + k \in Place
  BY <1>4 DEF Place
<1>8. Above(g, s.rows, start)
  BY <1>3, <1>6, <1>7 DEF Above
<1> QED BY <1>3, <1>6, <1>7, <1>8

-----------------------------------------------------------------------------
(* The invariant: the sheet and the runs keep their shape; a run that is   *)
(* under way has what it read, and has not reported success.               *)

Runs == [rows : {g \in Seq(Row) : Trimmed(g)}, audit : Seq(Audited), now : 0 .. MaxRuns]
Results == [ok : BOOLEAN, deletions : SUBSET Label]

GridInv == sheet \in Seq(Row) /\ Trimmed(sheet)
CountInv == runs \in 0 .. MaxRuns /\ edits \in 0 .. MaxEdits
RunInv ==
    /\ pc \in [Run -> {"idle", "rows", "cells"}]
    /\ seen \in [Run -> Runs]
    /\ result \in [Run -> Results]
    /\ \A r \in Run :
           /\ seen[r] = NotRun \/ seen[r].audit \in Audits
           /\ seen[r].now <= runs
           /\ pc[r] # "idle" => seen[r].audit \in Audits /\ ~result[r].ok

SheetInv == GridInv /\ CountInv /\ RunInv

LEMMA KnownRuns ==
    ASSUME SheetInv, NEW r \in Run
    PROVE  Known(seen[r]) /\ Trimmed(seen[r].rows)
BY DEF SheetInv, RunInv, Runs, Known

LEMMA SheetInvInit == Init => SheetInv
<1> SUFFICES ASSUME Init PROVE SheetInv
  OBVIOUS
<1>1. GridInv
  BY ConstantsOK DEF Init, GridInv, Trimmed
<1>2. CountInv
  BY ConstantsOK DEF Init, CountInv
<1>3. NotRun \in Runs
  BY ConstantsOK DEF NotRun, Runs, Trimmed
<1>4. None \in Results
  BY DEF None, Results
<1>5. NotRun.now = 0
  BY DEF NotRun
<1>6. RunInv
  BY <1>3, <1>4, <1>5 DEF Init, RunInv
<1> QED BY <1>1, <1>2, <1>6 DEF SheetInv

LEMMA DeletionsAreKeys ==
    ASSUME NEW s, Known(s)
    PROVE  Deletions(s) \in SUBSET Label
<1>1. PICK slots : slots = Slots(s.rows)
  OBVIOUS
<1>2. slots \in Seq(Row)
  BY <1>1, SlotsFacts DEF Known
<1>3. ASSUME NEW row \in ToSet(slots)
      PROVE  row.key \in Label
  <2>1. PICK i \in DOMAIN slots : row = slots[i]
    BY DEF ToSet
  <2>2. slots[i] \in Row
    BY <1>2
  <2> QED BY <2>1, <2>2 DEF Row
<1>4. Deletions(s) = {row.key : row \in ToSet(slots) \ {BlankRow}} \ {a.key : a \in ToSet(s.audit)}
  BY <1>1 DEF Deletions
<1> QED BY <1>3, <1>4

LEMMA RowReplaced ==
    ASSUME NEW g \in Seq(Row), Trimmed(g), NEW i \in 1 .. Len(g), NEW row \in Row, row # BlankRow
    PROVE  [g EXCEPT ![i] = row] \in Seq(Row) /\ Trimmed([g EXCEPT ![i] = row])
<1>1. PICK h : h = [g EXCEPT ![i] = row]
  OBVIOUS
<1>2. /\ h \in Seq(Row) /\ Len(h) = Len(g) /\ Len(g) \in Nat
      /\ \A p \in 1 .. Len(g) : h[p] = IF p = i THEN row ELSE g[p]
  BY <1>1
<1>3. Len(g) \in 1 .. Len(g) /\ g # <<>>
  BY <1>2
<1>4. g[Len(g)] # BlankRow
  BY <1>3 DEF Trimmed
<1>5. h[Len(h)] # BlankRow
  BY <1>2, <1>3, <1>4
<1> QED BY <1>1, <1>2, <1>5 DEF Trimmed

LEMMA EditKeepsGrid ==
    ASSUME SheetInv, WriteNote \/ MarkNA \/ AddRow \/ MoveRow \/ DeleteRow
    PROVE  GridInv'
<1>1. sheet \in Seq(Row) /\ Trimmed(sheet) /\ Len(sheet) \in Nat
  BY DEF SheetInv, GridInv
<1> SUFFICES sheet' \in Seq(Row) /\ Trimmed(sheet')
  BY DEF GridInv, Trimmed
<1>2. CASE WriteNote
  <2>1. PICK i \in 1 .. Len(sheet), n \in Note : sheet' = [sheet EXCEPT ![i].note = n]
    BY <1>2 DEF WriteNote
  <2>2. PICK row : row = [sheet[i] EXCEPT !.note = n]
    OBVIOUS
  <2>3. sheet[i] \in Row
    BY <1>1
  <2>4. row \in Row /\ row.note = n
    BY <2>2, <2>3 DEF Row
  <2>5. n # Blank
    BY ConstantsOK
  <2>6. row # BlankRow
    BY <2>4, <2>5 DEF BlankRow
  <2>7. sheet' = [sheet EXCEPT ![i] = row]
    BY <2>1, <2>2
  <2> QED BY <1>1, <2>4, <2>6, <2>7, RowReplaced
<1>3. CASE MarkNA
  <2>0. HeaderAt(sheet) \in 0 .. Len(sheet)
    BY <1>1, HeaderFacts
  <2>1. PICK i \in HeaderAt(sheet) + 1 .. Len(sheet) : sheet[i].key # Blank /\ sheet' = [sheet EXCEPT ![i].value = NA]
    BY <1>3 DEF MarkNA
  <2>2. PICK row : row = [sheet[i] EXCEPT !.value = NA]
    OBVIOUS
  <2>3. i \in 1 .. Len(sheet) /\ sheet[i] \in Row
    BY <1>1, <2>0
  <2>4. row \in Row /\ row.value = NA
    BY <2>2, <2>3 DEF Row
  <2>5. NA # Blank
    BY ConstantsOK
  <2>6. row # BlankRow
    BY <2>4, <2>5 DEF BlankRow
  <2>7. sheet' = [sheet EXCEPT ![i] = row]
    BY <2>1, <2>2
  <2> QED BY <1>1, <2>3, <2>4, <2>6, <2>7, RowReplaced
<1>4. CASE AddRow
  <2>1. PICK i \in 1 .. Len(sheet), n \in Note : sheet' = InsertAt(sheet, i, [BlankRow EXCEPT !.note = n])
    BY <1>4 DEF AddRow
  <2>2. PICK row : row = [BlankRow EXCEPT !.note = n]
    OBVIOUS
  <2>3. row \in Row
    BY <2>2, BlankRowIsRow DEF Row
  <2>4. PICK h : h = InsertAt(sheet, i, row)
    OBVIOUS
  <2>5. i \in 1 .. Len(sheet) + 1
    BY <1>1
  <2>6. /\ h \in Seq(Row) /\ Len(h) = Len(sheet) + 1
        /\ h[i] = row
        /\ \A k \in DOMAIN sheet : h[IF k < i THEN k ELSE k + 1] = sheet[k]
    BY <1>1, <2>3, <2>4, <2>5, Inserted
  <2>7. Len(sheet) \in DOMAIN sheet /\ ~(Len(sheet) < i) /\ sheet # <<>>
    BY <1>1
  <2>8. h[Len(h)] = sheet[Len(sheet)]
    BY <2>6, <2>7
  <2>9. Trimmed(h)
    BY <1>1, <2>7, <2>8 DEF Trimmed
  <2> QED BY <2>1, <2>2, <2>4, <2>6, <2>9
<1>5. CASE MoveRow
  <2>1. PICK i \in 1 .. Len(sheet), j \in 1 .. Len(sheet) : i < j /\ sheet' = Trim(Shift(sheet, j, i))
    BY <1>5 DEF MoveRow
  <2>2. Shift(sheet, j, i) \in Seq(Row)
    BY <1>1, <2>1, ShiftFacts
  <2> QED BY <2>1, <2>2, TrimFacts
<1>6. CASE DeleteRow
  <2>1. PICK i \in 1 .. Len(sheet) : sheet' = Trim(RemoveAt(sheet, i))
    BY <1>6 DEF DeleteRow
  <2>2. RemoveAt(sheet, i) \in Seq(Row)
    BY <1>1, Removed
  <2> QED BY <2>1, <2>2, TrimFacts
<1> QED BY <1>2, <1>3, <1>4, <1>5, <1>6

LEMMA CallKeepsGrid ==
    ASSUME SheetInv, NEW r \in Run, ApplyRows(r) \/ ApplyCells(r)
    PROVE  GridInv'
<1>1. sheet \in Seq(Row) /\ Trimmed(sheet) /\ Known(seen[r])
  BY KnownRuns DEF SheetInv, GridInv
<1> SUFFICES sheet' \in Seq(Row) /\ Trimmed(sheet')
  BY DEF GridInv, Trimmed
<1>2. CASE sheet' = RowsApplied(sheet, seen[r])
  <2>1. Plan(seen[r]).ops \in Seq(Op)
    BY <1>1, PlanFacts DEF Known
  <2>2. Applied(sheet, Plan(seen[r]).ops) \in Seq(Row)
    BY <1>1, <2>1, AppliedTyped
  <2> QED BY <1>2, <2>2, TrimFacts DEF RowsApplied
<1>3. CASE sheet' = CellsApplied(sheet, seen[r])
  BY <1>1, <1>3, CellsFacts
<1>4. CASE UNCHANGED sheet
  BY <1>1, <1>4
<1>5. sheet' = RowsApplied(sheet, seen[r]) \/ sheet' = CellsApplied(sheet, seen[r]) \/ UNCHANGED sheet
  BY DEF ApplyRows, ApplyCells
<1> QED BY <1>2, <1>3, <1>4, <1>5

LEMMA EditKeepsRest ==
    ASSUME SheetInv, Edit
    PROVE  CountInv' /\ RunInv'
<1>1. CountInv'
  <2>1. edits \in Nat /\ MaxEdits \in Nat /\ edits < MaxEdits /\ edits' = edits + 1 /\ runs' = runs
    BY ConstantsOK DEF SheetInv, CountInv, Edit
  <2> QED BY <2>1 DEF SheetInv, CountInv
<1>2. RunInv'
  BY DEF SheetInv, RunInv, Edit
<1> QED BY <1>1, <1>2

LEMMA ReadKeepsInv ==
    ASSUME SheetInv, NEW r \in Run, Read(r)
    PROVE  SheetInv'
<1>1. GridInv'
  BY DEF SheetInv, GridInv, Read, Trimmed
<1>2. runs \in Nat /\ MaxRuns \in Nat /\ runs < MaxRuns /\ runs' = runs + 1 /\ edits' = edits
  BY ConstantsOK DEF SheetInv, CountInv, Read
<1>3. CountInv'
  BY <1>2 DEF SheetInv, CountInv
<1>4. PICK a \in Audits : seen' = [seen EXCEPT ![r] = [rows |-> sheet, audit |-> a, now |-> runs']]
  BY DEF Read
<1>5. PICK s : s = [rows |-> sheet, audit |-> a, now |-> runs']
  OBVIOUS
<1>6. s \in Runs /\ s.audit \in Audits /\ s.now = runs'
  <2>1. a \in Seq(Audited)
    BY ConstantsOK
  <2>2. runs' \in 0 .. MaxRuns
    BY <1>2
  <2> QED BY <1>5, <2>1, <2>2 DEF SheetInv, GridInv, Runs
<1>7. /\ pc' = [pc EXCEPT ![r] = "rows"]
      /\ result' = [result EXCEPT ![r] = None]
      /\ seen' = [seen EXCEPT ![r] = s]
  BY <1>4, <1>5 DEF Read
<1>8. None \in Results /\ ~None.ok
  BY DEF None, Results
<1>9. /\ pc' \in [Run -> {"idle", "rows", "cells"}]
      /\ seen' \in [Run -> Runs]
      /\ result' \in [Run -> Results]
  BY <1>6, <1>7, <1>8 DEF SheetInv, RunInv
<1>10. ASSUME NEW q \in Run
       PROVE  /\ seen'[q] = NotRun \/ seen'[q].audit \in Audits
              /\ seen'[q].now <= runs'
              /\ pc'[q] # "idle" => seen'[q].audit \in Audits /\ ~result'[q].ok
  <2>1. CASE q = r
    <3>1. seen'[r] = s /\ result'[r] = None
      BY <1>7 DEF SheetInv, RunInv
    <3> QED BY <1>2, <1>6, <1>8, <2>1, <3>1
  <2>2. CASE q # r
    <3>1. seen'[q] = seen[q] /\ result'[q] = result[q] /\ pc'[q] = pc[q]
      BY <1>7, <2>2 DEF SheetInv, RunInv
    <3>2. seen[q].now \in Nat /\ seen[q].now <= runs
      BY DEF SheetInv, RunInv, Runs
    <3>3. seen[q].now <= runs'
      BY <1>2, <3>2
    <3> QED BY <3>1, <3>3 DEF SheetInv, RunInv
  <2> QED BY <2>1, <2>2
<1>11. RunInv'
  BY <1>9, <1>10 DEF RunInv
<1> QED BY <1>1, <1>3, <1>11 DEF SheetInv

LEMMA CallKeepsRuns ==
    ASSUME SheetInv, NEW r \in Run, ApplyRows(r) \/ ApplyCells(r)
    PROVE  CountInv' /\ RunInv'
<1>1. UNCHANGED <<runs, edits, seen>>
  BY DEF ApplyRows, ApplyCells
<1>2. CountInv'
  BY <1>1 DEF SheetInv, CountInv
<1>3. PICK done : done = [ok |-> TRUE, deletions |-> Deletions(seen[r])]
  OBVIOUS
<1>4. done \in Results
  BY <1>3, KnownRuns, DeletionsAreKeys DEF Results
<1>5. \/ pc' = [pc EXCEPT ![r] = "idle"] /\ result' = result
      \/ pc' = [pc EXCEPT ![r] = "cells"] /\ result' = result /\ pc[r] = "rows"
      \/ pc' = [pc EXCEPT ![r] = "idle"] /\ result' = [result EXCEPT ![r] = done]
  BY <1>3 DEF ApplyRows, ApplyCells, GiveUp
<1>6. pc' \in [Run -> {"idle", "rows", "cells"}] /\ result' \in [Run -> Results] /\ seen' \in [Run -> Runs]
  BY <1>1, <1>4, <1>5 DEF SheetInv, RunInv
<1>7. ASSUME NEW q \in Run
      PROVE  /\ seen'[q] = NotRun \/ seen'[q].audit \in Audits
             /\ seen'[q].now <= runs'
             /\ pc'[q] # "idle" => seen'[q].audit \in Audits /\ ~result'[q].ok
  <2>1. /\ seen[q] = NotRun \/ seen[q].audit \in Audits
        /\ seen[q].now <= runs
        /\ pc[q] # "idle" => seen[q].audit \in Audits /\ ~result[q].ok
    BY DEF SheetInv, RunInv
  <2>2. pc'[q] # "idle" => pc[q] # "idle" /\ result'[q] = result[q]
    BY <1>5 DEF SheetInv, RunInv
  <2> QED BY <1>1, <2>1, <2>2
<1>8. RunInv'
  BY <1>6, <1>7 DEF RunInv
<1> QED BY <1>2, <1>8

LEMMA SheetInvNext == SheetInv /\ [Next]_vars => SheetInv'
<1> SUFFICES ASSUME SheetInv, [Next]_vars PROVE SheetInv'
  OBVIOUS
<1>1. ASSUME NEW r \in Run, Read(r) PROVE SheetInv'
  BY <1>1, ReadKeepsInv
<1>2. ASSUME NEW r \in Run, ApplyRows(r) \/ ApplyCells(r) PROVE SheetInv'
  BY <1>2, CallKeepsGrid, CallKeepsRuns DEF SheetInv
<1>3. ASSUME WriteNote \/ MarkNA \/ AddRow \/ MoveRow \/ DeleteRow PROVE SheetInv'
  <2>1. Edit
    BY <1>3 DEF WriteNote, MarkNA, AddRow, MoveRow, DeleteRow
  <2> QED BY <1>3, <2>1, EditKeepsGrid, EditKeepsRest DEF SheetInv
<1>4. CASE UNCHANGED vars
  BY <1>4 DEF vars, SheetInv, GridInv, CountInv, RunInv, Trimmed
<1>5. CASE Next
  BY <1>1, <1>2, <1>3, <1>5 DEF Next
<1> QED BY <1>4, <1>5

(* SheetInv holds in every state of every behaviour. *)
LEMMA SheetInvHolds == Spec => []SheetInv
<1>1. Init => SheetInv
  BY SheetInvInit
<1>2. SheetInv /\ [Next]_vars => SheetInv'
  BY SheetInvNext
<1> QED BY <1>1, <1>2, PTL DEF Spec

(* Every variable keeps its shape, whatever the calls of a run hit: the    *)
(* sheet ends with a row that is not empty, what a run reports as deleted  *)
(* are keys (writeSheet, reconcileFromOpts and the edits of people).       *)
THEOREM SheetTypeCorrect == Spec => []TypeOK
<1>1. SheetInv => TypeOK
  <2> SUFFICES ASSUME SheetInv PROVE TypeOK
    OBVIOUS
  <2>1. sheet \in Seq(Row) /\ (sheet # <<>> => sheet[Len(sheet)] # BlankRow)
    BY DEF SheetInv, GridInv, Trimmed
  <2>2. ASSUME NEW r \in Run
        PROVE  /\ seen[r].rows \in Seq(Row)
               /\ seen[r] = NotRun \/ seen[r].audit \in Audits
               /\ seen[r].now \in 0 .. runs
               /\ result[r].deletions \subseteq Label
    <3>1. seen[r] \in Runs /\ result[r] \in Results /\ runs \in Nat
      BY ConstantsOK DEF SheetInv, RunInv, CountInv
    <3>2. seen[r].now <= runs /\ (seen[r] = NotRun \/ seen[r].audit \in Audits)
      BY DEF SheetInv, RunInv
    <3> QED BY <3>1, <3>2 DEF Runs, Results
  <2> QED BY <2>1, <2>2 DEF SheetInv, CountInv, RunInv, TypeOK
<1> QED BY <1>1, SheetInvHolds, PTL

-----------------------------------------------------------------------------
(* A run that nothing disturbs. *)

(* A row that is still as it was planned from says what is desired. *)
LEMMA PatchedRow ==
    ASSUME NEW row \in Row, NEW new,
           new.key \in Key, new.value \in Value \cup {NA}, new.info \in Info \cup {NA}, new.log \in 0 .. MaxRuns
    PROVE  /\ Patch(row, row, new) \in Row
           /\ Patch(row, row, new).header = row.header
           /\ Patch(row, row, new).note = row.note
           /\ Patch(row, row, new).key = new.key
           /\ Patch(row, row, new).value = new.value
           /\ Patch(row, row, new).info = new.info
           /\ Patch(row, row, new).log = new.log
<1>1. PICK old : old = row
  OBVIOUS
<1>2. PICK p : p = Patch(row, old, new)
  OBVIOUS
<1>3. /\ p \in Row
      /\ p.header = row.header
      /\ p.note = row.note
      /\ p.key = (IF old.key = new.key THEN row.key ELSE new.key)
      /\ p.value = (IF old.value = new.value THEN row.value ELSE new.value)
      /\ p.info = (IF old.info = new.info THEN row.info ELSE new.info)
      /\ p.log = (IF old.log = new.log THEN row.log ELSE new.log)
  BY <1>2, PatchFacts
<1> QED BY <1>1, <1>2, <1>3

(* The sheet that such a run leaves. *)
LEMMA WrittenFacts ==
    ASSUME NEW s, Known(s), NEW start, start = BodyStart(s.rows),
           NEW g, g = CellsApplied(RowsApplied(s.rows, s), s)
    PROVE  /\ g \in Seq(Row) /\ Trimmed(g)
           /\ start \in Nat /\ start > 1
           /\ Len(g) = start + Len(s.audit)
           /\ HeaderAt(g) = start
           /\ g[1].key = SummaryOf(s)
           /\ Len(Slots(g)) = Len(s.audit)
           /\ \A k \in 1 .. Len(s.audit) :
                  /\ Slots(g)[k].key = Desired(s)[k].key
                  /\ Slots(g)[k].value = Desired(s)[k].value
                  /\ Slots(g)[k].info = Desired(s)[k].info
                  /\ Slots(g)[k].log = Desired(s)[k].log
                  /\ Slots(g)[k].header = Plan(s).slots[k].header
                  /\ Slots(g)[k].note = Plan(s).slots[k].note
<1>1. PICK m : m = Len(s.audit)
  OBVIOUS
<1>2. PICK slots : slots = Plan(s).slots
  OBVIOUS
<1>3. PICK d : d = Desired(s)
  OBVIOUS
<1>4. PICK h : h = RowsApplied(s.rows, s)
  OBVIOUS
<1>5. s.rows \in Seq(Row) /\ m \in Nat
  BY <1>1 DEF Known
<1>6. start \in Nat /\ start > 1
  BY <1>5, TopFacts
<1>7. /\ h \in Seq(Row)
      /\ Planned(slots, s.rows, s.audit)
      /\ Above(h, s.rows, start)
      /\ \A k \in Place : At(h, start + k) = At(slots, k)
  BY <1>2, <1>4, RowsAppliedFacts
<1>8. slots \in Seq(Row) /\ Len(slots) = m
  BY <1>1, <1>7 DEF Planned
<1>9. /\ g \in Seq(Row)
      /\ Trimmed(g)
      /\ \A p \in Place : At(g, p) =
             IF p \in start + 1 .. start + m
             THEN Patch(At(h, p), slots[p - start], d[p - start])
             ELSE IF p = start /\ HeaderAt(s.rows) = 0 THEN [At(h, p) EXCEPT !.header = TRUE]
             ELSE IF p = 1 THEN Topped(At(h, p), s)
             ELSE At(h, p)
  <2>1. PICK c : c = CellsApplied(h, s)
    OBVIOUS
  <2>2. /\ c \in Seq(Row)
        /\ Trimmed(c)
        /\ \A p \in Place : At(c, p) =
               IF p \in start + 1 .. start + Len(s.audit)
               THEN Patch(At(h, p), Plan(s).slots[p - start], Desired(s)[p - start])
               ELSE IF p = start /\ HeaderAt(s.rows) = 0 THEN [At(h, p) EXCEPT !.header = TRUE]
               ELSE IF p = 1 THEN Topped(At(h, p), s)
               ELSE At(h, p)
    BY <1>7, <2>1, CellsFacts
  <2>3. g = c
    BY <1>4, <2>1
  <2> QED BY <1>1, <1>2, <1>3, <2>2, <2>3
<1>10. ASSUME NEW k \in 1 .. m
       PROVE  /\ At(g, start + k) = Patch(slots[k], slots[k], d[k])
              /\ slots[k] \in Row
  <2>1. PICK p : p = start + k
    OBVIOUS
  <2>2. p \in Place /\ p \in start + 1 .. start + m /\ p - start = k /\ k \in Place
    BY <1>5, <1>6, <2>1 DEF Place
  <2>3. At(g, p) = Patch(At(h, p), slots[k], d[k])
    BY <1>9, <2>2
  <2>4. At(h, p) = At(slots, k)
    BY <1>7, <2>1, <2>2
  <2>5. k <= Len(slots) /\ slots[k] \in Row
    BY <1>5, <1>8
  <2>6. At(slots, k) = slots[k]
    BY <2>5 DEF At
  <2> QED BY <2>1, <2>3, <2>4, <2>5, <2>6
<1>11. ASSUME NEW k \in 1 .. m
       PROVE  /\ d[k].key \in Key /\ d[k].value \in Value \cup {NA}
              /\ d[k].info \in Info \cup {NA} /\ d[k].log \in 0 .. MaxRuns
  BY <1>1, <1>3, DesiredFacts
<1>12. ASSUME NEW k \in 1 .. m
       PROVE  /\ At(g, start + k) \in Row
              /\ At(g, start + k).key = d[k].key
              /\ At(g, start + k).value = d[k].value
              /\ At(g, start + k).info = d[k].info
              /\ At(g, start + k).log = d[k].log
              /\ At(g, start + k).header = slots[k].header
              /\ At(g, start + k).note = slots[k].note
  BY <1>10, <1>11, PatchedRow
<1>13. At(g, start).header
  <2>1. start \in Place /\ ~(start \in start + 1 .. start + m)
    BY <1>5, <1>6 DEF Place
  <2>2. CASE HeaderAt(s.rows) = 0
    <3>1. At(h, start) \in Row
      BY <1>7, <2>1, AtIsRow
    <3>2. At(g, start) = [At(h, start) EXCEPT !.header = TRUE]
      BY <1>9, <2>1, <2>2
    <3> QED BY <3>1, <3>2, HeadedIsRow
  <2>3. CASE HeaderAt(s.rows) # 0
    <3>1. At(g, start) = At(h, start)
      BY <1>6, <1>9, <2>1, <2>3
    <3> QED BY <1>7, <2>3, <3>1 DEF Above
  <2> QED BY <2>2, <2>3
<1>14. ASSUME NEW p \in Place, p < start
       PROVE  ~At(g, p).header
  <2>1. ~(p \in start + 1 .. start + m) /\ p # start
    BY <1>5, <1>6, <1>14 DEF Place
  <2>2. At(g, p) = IF p = 1 THEN Topped(At(h, p), s) ELSE At(h, p)
    BY <1>9, <2>1
  <2>3. At(h, p) \in Row /\ ~At(h, p).header
    BY <1>7, <1>14, AtIsRow DEF Above
  <2>4. Topped(At(h, p), s).header = At(h, p).header
    BY <2>3, ToppedFacts
  <2> QED BY <2>2, <2>3, <2>4
<1>15. ASSUME NEW p \in Place, p > start + m
       PROVE  At(g, p) = BlankRow
  <2>1. ~(p \in start + 1 .. start + m) /\ p # start /\ p # 1
    BY <1>5, <1>6, <1>15 DEF Place
  <2>2. At(g, p) = At(h, p)
    BY <1>9, <2>1
  <2>3. PICK k : k = p - start
    OBVIOUS
  <2>4. k \in Place /\ p = start + k /\ k > m
    BY <1>5, <1>6, <1>15, <2>3 DEF Place
  <2>5. At(h, p) = At(slots, k)
    BY <1>7, <2>4
  <2>6. ~(k <= Len(slots))
    BY <1>5, <1>8, <2>4 DEF Place
  <2>7. At(slots, k) = BlankRow
    BY <2>6 DEF At
  <2> QED BY <2>2, <2>5, <2>7
<1>16. ~BlankRow.header /\ BlankRow.key = Blank
  BY DEF BlankRow
<1>17. Len(g) \in Nat
  BY <1>9
<1>18. Len(g) >= start
  <2>1. SUFFICES ASSUME ~(start <= Len(g)) PROVE FALSE
    BY <1>6, <1>17
  <2>2. At(g, start) = BlankRow
    BY <2>1 DEF At
  <2> QED BY <1>13, <1>16, <2>2
<1>19. Len(g) >= start + m
  <2>1. CASE m = 0
    BY <1>6, <1>18, <2>1
  <2>2. CASE m # 0
    <3>1. m \in 1 .. m
      BY <1>5, <2>2
    <3>2. At(g, start + m).key \in Key
      BY <1>11, <1>12, <3>1
    <3>3. At(g, start + m) # BlankRow
      BY <1>16, <3>2, ConstantsOK
    <3>4. SUFFICES ASSUME ~(start + m <= Len(g)) PROVE FALSE
      BY <1>5, <1>6, <1>17
    <3> QED BY <3>3, <3>4 DEF At
  <2> QED BY <2>1, <2>2
<1>20. Len(g) = start + m
  <2>1. SUFFICES ASSUME Len(g) > start + m PROVE FALSE
    BY <1>5, <1>6, <1>17, <1>19
  <2>2. Len(g) \in Place /\ g # <<>>
    BY <1>5, <1>6, <1>17, <2>1 DEF Place
  <2>3. At(g, Len(g)) = BlankRow
    BY <1>15, <2>1, <2>2
  <2>4. At(g, Len(g)) = g[Len(g)]
    BY <1>17 DEF At
  <2> QED BY <1>9, <2>2, <2>3, <2>4 DEF Trimmed
<1>21. HeaderAt(g) = start
  <2>1. start \in 1 .. Len(g)
    BY <1>6, <1>17, <1>18
  <2>2. ASSUME NEW p \in 1 .. Len(g) PROVE g[p] = At(g, p) /\ p \in Place
    BY <1>17 DEF At, Place
  <2>3. g[start].header
    BY <1>13, <2>1, <2>2
  <2>4. \A p \in 1 .. Len(g) : p < start => ~g[p].header
    BY <1>14, <2>2
  <2> QED BY <1>9, <2>1, <2>3, <2>4, HeaderIs
<1>22. /\ Len(Slots(g)) = Len(g) - HeaderAt(g)
       /\ \A k \in 1 .. Len(Slots(g)) : Slots(g)[k] = g[HeaderAt(g) + k]
  BY <1>9, SlotsFacts
<1>23. Len(Slots(g)) = m
  BY <1>5, <1>6, <1>20, <1>21, <1>22
<1>24. ASSUME NEW k \in 1 .. m PROVE Slots(g)[k] = At(g, start + k)
  <2>1. Slots(g)[k] = g[start + k]
    BY <1>21, <1>22, <1>23
  <2>2. start + k <= Len(g)
    BY <1>5, <1>6, <1>20
  <2> QED BY <2>1, <2>2 DEF At
<1>25. ASSUME NEW k \in 1 .. m
       PROVE  /\ Slots(g)[k].key = d[k].key
              /\ Slots(g)[k].value = d[k].value
              /\ Slots(g)[k].info = d[k].info
              /\ Slots(g)[k].log = d[k].log
              /\ Slots(g)[k].header = slots[k].header
              /\ Slots(g)[k].note = slots[k].note
  BY <1>12, <1>24
<1>26. g[1].key = SummaryOf(s)
  <2>1. 1 \in Place /\ ~(1 \in start + 1 .. start + m) /\ 1 # start /\ 1 <= Len(g)
    BY <1>5, <1>6, <1>17, <1>18 DEF Place
  <2>2. g[1] = Topped(At(h, 1), s)
    BY <1>9, <2>1 DEF At
  <2>3. At(h, 1) \in Row
    BY <1>7, <2>1, AtIsRow
  <2>4. g[1].key = SummaryCell(At(h, 1).key, s)
    BY <2>2, <2>3, ToppedFacts
  <2>5. TopRows(s.rows) = 0 /\ s.rows # <<>> => At(h, 1) = s.rows[1]
    BY <1>7 DEF Above
  <2> QED BY <2>4, <2>5 DEF SummaryCell
<1> QED BY <1>1, <1>2, <1>3, <1>6, <1>9, <1>20, <1>21, <1>23, <1>25, <1>26

LEMMA WrittenIsReconciled ==
    ASSUME NEW s, Known(s), NEW g, g = CellsApplied(RowsApplied(s.rows, s), s)
    PROVE  Reconciled(g, s.audit) /\ g[1].key.now = Stats(Slots(g))
<1>1. PICK start : start = BodyStart(s.rows)
  OBVIOUS
<1>2. PICK d : d = Desired(s)
  OBVIOUS
<1>3. /\ start \in Nat /\ start > 1
      /\ HeaderAt(g) = start
      /\ g \in Seq(Row) /\ g[1].key = SummaryOf(s)
      /\ Len(Slots(g)) = Len(s.audit)
      /\ \A k \in 1 .. Len(s.audit) :
             /\ Slots(g)[k].key = d[k].key
             /\ Slots(g)[k].value = d[k].value
             /\ Slots(g)[k].info = d[k].info
  BY <1>1, <1>2, WrittenFacts
<1>4. ASSUME NEW k \in 1 .. Len(s.audit)
      PROVE  /\ d[k].key = s.audit[k].key
             /\ d[k].value \in {s.audit[k].value, NA}
             /\ d[k].info \in {s.audit[k].info, NA}
  <2>1. PICK i : Tracks(d[k], Slots(s.rows), s.audit[k], s.now, i)
    BY <1>2, DesiredFacts
  <2> QED BY <2>1 DEF Tracks
<1>5. \A k \in 1 .. Len(Slots(g)) :
          /\ Slots(g)[k].key = s.audit[k].key
          /\ Slots(g)[k].value \in {s.audit[k].value, NA}
          /\ Slots(g)[k].info \in {s.audit[k].info, NA}
  BY <1>3, <1>4
<1>6. PICK b : b = Slots(g)
  OBVIOUS
<1>7. Len(s.audit) \in Nat /\ DOMAIN d = 1 .. Len(s.audit)
  BY <1>2 DEF Known, Desired
<1>8. DOMAIN b = 1 .. Len(s.audit)
  <2>1. b \in Seq(Row)
    BY <1>3, <1>6, SlotsFacts
  <2> QED BY <1>3, <1>6, <2>1
<1>9. \A k \in 1 .. Len(s.audit) : d[k].value = b[k].value /\ d[k].info = b[k].info
  BY <1>3, <1>6
<1>10. Stats(d) = Stats(b)
  BY <1>7, <1>8, <1>9, SameStats
<1>11. g[1].key.now = Stats(d)
  BY <1>2, <1>3 DEF SummaryOf
<1> QED BY <1>3, <1>5, <1>6, <1>10, <1>11 DEF Reconciled

LEMMA RepairNext == SheetInv /\ [Next]_vars => [RepairStep]_vars
<1> SUFFICES ASSUME SheetInv, Next, NEW r \in Run, pc[r] = "cells", Fresh(r), result'[r].ok
             PROVE  Reconciled(sheet', seen[r].audit) /\ sheet'[1].key.now = Stats(Slots(sheet'))
  BY DEF RepairStep
<1>1. ~result[r].ok /\ result \in [Run -> Results]
  BY DEF SheetInv, RunInv
<1>2. ASSUME NEW q \in Run, Read(q) PROVE FALSE
  <2>1. result'[r] = result[r]
    BY <1>1, <1>2 DEF Read
  <2> QED BY <1>1, <2>1
<1>3. ASSUME NEW q \in Run, ApplyRows(q) PROVE FALSE
  BY <1>1, <1>3 DEF ApplyRows, GiveUp
<1>4. ASSUME NEW q \in Run, ApplyCells(q) PROVE q = r /\ sheet' = CellsApplied(sheet, seen[r])
  BY <1>1, <1>4 DEF ApplyCells, GiveUp
<1>5. ASSUME Edit PROVE FALSE
  BY <1>1, <1>5 DEF Edit
<1>6. sheet' = CellsApplied(sheet, seen[r])
  BY <1>2, <1>3, <1>4, <1>5 DEF Next, WriteNote, MarkNA, AddRow, MoveRow, DeleteRow
<1>7. sheet = RowsApplied(seen[r].rows, seen[r])
  BY DEF Fresh
<1>8. Known(seen[r])
  BY KnownRuns
<1>9. PICK s : s = seen[r]
  OBVIOUS
<1>10. PICK g : g = CellsApplied(RowsApplied(s.rows, s), s)
  OBVIOUS
<1>11. sheet' = g /\ Known(s)
  BY <1>6, <1>7, <1>8, <1>9, <1>10
<1>12. Reconciled(g, s.audit) /\ g[1].key.now = Stats(Slots(g))
  BY ONLY <1>10, <1>11, WrittenIsReconciled
<1> QED BY <1>9, <1>11, <1>12

(* A run that nothing disturbs between its read and its writes leaves the  *)
(* sheet saying what its audit said, in its order, with its header and a   *)
(* summary that counts its rows, whatever sheet it found: reconcile,       *)
(* planSheetUpdateWithSummary and writeSheet together.                     *)
THEOREM RunRepairs == Spec => UndisturbedRunRepairs
<1>1. Spec => []SheetInv /\ [][Next]_vars
  BY SheetInvHolds DEF Spec
<1> QED BY <1>1, RepairNext, PTL DEF UndisturbedRunRepairs

-----------------------------------------------------------------------------
(* A run that finds what it would write. *)

LEMMA ReconciledLayout ==
    ASSUME NEW s, Known(s), Reconciled(s.rows, s.audit)
    PROVE  /\ BodyStart(s.rows) = HeaderAt(s.rows)
           /\ HeaderAt(s.rows) \in Nat /\ HeaderAt(s.rows) > 1
           /\ TopInserts(s.rows) = <<>>
<1>1. HeaderAt(s.rows) > 1
  BY DEF Reconciled
<1>2. HeaderAt(s.rows) \in Nat
  <2>1. Len(s.rows) \in Nat
    BY DEF Known
  <2>2. HeaderAt(s.rows) \in 0 .. Len(s.rows)
    BY HeaderFacts DEF Known
  <2> QED BY <2>1, <2>2
<1>3. BodyStart(s.rows) = HeaderAt(s.rows)
  BY <1>1, <1>2 DEF BodyStart
<1>4. TopRows(s.rows) = 0
  BY <1>1, <1>2 DEF TopRows
<1>5. TopInserts(s.rows) = <<>>
  BY <1>4 DEF TopInserts
<1> QED BY <1>1, <1>2, <1>3, <1>5

(* Every row stays, in its place. *)
LEMMA ReconciledPlan ==
    ASSUME NEW s, Known(s), Reconciled(s.rows, s.audit)
    PROVE  /\ Plan(s).ops = <<>>
           /\ Plan(s).slots = Slots(s.rows)
<1>1. PICK slots : slots = Slots(s.rows)
  OBVIOUS
<1>2. PICK audit : audit = s.audit
  OBVIOUS
<1>3. PICK start : start = BodyStart(s.rows)
  OBVIOUS
<1>4. PICK thin : thin = Thinned(slots, audit, start)
  OBVIOUS
<1>5. audit \in Seq(Audited) /\ Len(audit) \in Nat /\ start \in Nat
  BY <1>2, <1>3, ReconciledLayout DEF Known
<1>6. slots \in Seq(Row)
  BY <1>1, SlotsFacts DEF Known
<1>7. /\ Len(slots) = Len(audit)
      /\ \A i \in 1 .. Len(slots) : slots[i].key = audit[i].key
  BY <1>1, <1>2 DEF Reconciled
<1>8. ASSUME NEW i \in 1 .. Len(slots) PROVE Kept(slots, audit, i)
  <2>1. PICK k : k = slots[i].key
    OBVIOUS
  <2>2. audit[i] \in Audited /\ k = audit[i].key
    BY <1>5, <1>7, <2>1
  <2>3. k # Blank
    BY <2>2, ConstantsOK DEF Audited
  <2>4. {j \in 1 .. i : slots[j].key = k} = {j \in 1 .. i : audit[j].key = k}
    BY <1>5, <1>7
  <2>5. Count(slots, k, i) = Count(audit, k, i)
    BY <2>4 DEF Count
  <2>6. i \in 0 .. Len(audit)
    BY <1>5, <1>7
  <2>7. Count(audit, k, i) <= Count(audit, k, Len(audit))
    BY <1>5, <2>6, CountGrows
  <2> QED BY <2>1, <2>3, <2>5, <2>7 DEF Kept
<1>9. ThinTyped(thin, slots, Len(slots)) /\ ThinKeeps(thin, slots, audit, Len(slots))
  BY <1>4, <1>5, <1>6, ThinnedFacts
<1>10. /\ thin.slots \in Seq(Row)
       /\ thin.ops = <<>>
       /\ Len(thin.slots) = Len(slots)
       /\ \A i \in 1 .. Len(slots) : thin.slots[i] = slots[i]
  BY <1>8, <1>9 DEF ThinTyped, ThinKeeps
<1>11. thin.slots = slots
  BY <1>6, <1>10
<1>12. TopInserts(s.rows) \o thin.ops = <<>>
  BY <1>10, ReconciledLayout
<1>13. PICK begin : begin = [slots |-> thin.slots, ops |-> TopInserts(s.rows) \o thin.ops]
  OBVIOUS
<1>14. begin.slots = slots /\ begin.ops = <<>>
  BY <1>11, <1>12, <1>13
<1>15. Plan(s) = Aligned(begin, audit, start)
  BY <1>1, <1>2, <1>3, <1>4, <1>13 DEF Plan, TopInserts
<1>16. Aligned(begin, audit, start) = begin
  <2>1. /\ begin.slots \in Seq(Row)
        /\ Len(begin.slots) = Len(audit)
        /\ \A m \in 1 .. Len(audit) : begin.slots[m].key = audit[m].key
    BY <1>6, <1>7, <1>14
  <2> QED BY <1>5, <2>1, NothingToAlign
<1> QED BY <1>1, <1>14, <1>15, <1>16

(* A row that says what is desired is not changed. *)
LEMMA PatchedSame ==
    ASSUME NEW row \in Row, NEW new,
           new.key \in Key, new.value \in Value \cup {NA}, new.info \in Info \cup {NA}, new.log \in 0 .. MaxRuns,
           new.key = row.key, new.value = row.value, new.info = row.info, new.log = row.log
    PROVE  Patch(row, row, new) = row
<1>1. PICK p : p = Patch(row, row, new)
  OBVIOUS
<1>2. /\ p \in Row
      /\ p.header = row.header /\ p.note = row.note
      /\ p.key = row.key /\ p.value = row.value /\ p.info = row.info /\ p.log = row.log
  BY <1>1, PatchedRow
<1>3. p = row
  BY <1>2 DEF Row
<1> QED BY <1>1, <1>3

LEMMA ReconciledStays ==
    ASSUME NEW s, Known(s), Trimmed(s.rows), Reconciled(s.rows, s.audit), DistinctKeys(s.audit)
    PROVE  /\ Plan(s).ops = <<>>
           /\ CellsApplied(s.rows, s) =
                  [s.rows EXCEPT ![1].key = [now |-> Stats(Slots(s.rows)), was |-> Stats(Slots(s.rows))]]
<1>1. PICK slots : slots = Slots(s.rows)
  OBVIOUS
<1>2. PICK d : d = Desired(s)
  OBVIOUS
<1>3. PICK start : start = BodyStart(s.rows)
  OBVIOUS
<1>4. PICK m : m = Len(s.audit)
  OBVIOUS
<1>5. PICK c : c = CellsApplied(s.rows, s)
  OBVIOUS
<1>6. Plan(s).ops = <<>> /\ Plan(s).slots = slots
  BY <1>1, ReconciledPlan
<1>7. s.rows \in Seq(Row) /\ m \in Nat
  BY <1>4 DEF Known
<1>8. start \in Nat /\ start = HeaderAt(s.rows) /\ start > 1
  BY <1>3, ReconciledLayout
<1>9. /\ slots \in Seq(Row)
      /\ \A k \in Place : At(slots, k) = At(s.rows, start + k)
  BY <1>1, <1>7, <1>8, SlotsFacts
<1>10. /\ Len(slots) = m
       /\ \A k \in 1 .. m :
              /\ slots[k].key = s.audit[k].key
              /\ slots[k].value \in {s.audit[k].value, NA}
              /\ slots[k].info \in {s.audit[k].info, NA}
  BY <1>1, <1>4 DEF Reconciled
<1>11. ASSUME NEW k \in 1 .. m
       PROVE  /\ d[k].key \in Key /\ d[k].value \in Value \cup {NA}
              /\ d[k].info \in Info \cup {NA} /\ d[k].log \in 0 .. MaxRuns
  BY <1>2, <1>4, DesiredFacts
<1>12. ASSUME NEW k \in 1 .. m
       PROVE  /\ d[k].key = slots[k].key
              /\ d[k].value = slots[k].value
              /\ d[k].info = slots[k].info
              /\ d[k].log = slots[k].log
  <2>1. PICK i : /\ IsLastWith(slots, s.audit[k].key, i)
                 /\ Tracks(d[k], slots, s.audit[k], s.now, i)
    BY <1>1, <1>2, <1>4, DesiredFacts
  <2>2. i # 0
    BY <1>10, <2>1 DEF IsLastWith
  <2>3. i \in 1 .. m /\ slots[i].key = s.audit[k].key
    BY <1>7, <1>10, <2>1, <2>2 DEF IsLastWith
  <2>4. s.audit[i].key = s.audit[k].key
    BY <1>10, <2>3
  <2>a. DOMAIN s.audit = 1 .. m
    BY <1>4 DEF Known
  <2>5. i = k
    BY <2>3, <2>4, <2>a DEF DistinctKeys
  <2>6. d[k].value = slots[k].value
    BY <1>10, <2>1, <2>2, <2>5 DEF Tracks
  <2> QED BY <1>10, <2>1, <2>2, <2>5, <2>6 DEF Tracks
<1>13. /\ c \in Seq(Row)
       /\ Trimmed(c)
       /\ \A p \in Place : At(c, p) =
              IF p \in start + 1 .. start + Len(s.audit)
              THEN Patch(At(s.rows, p), Plan(s).slots[p - start], Desired(s)[p - start])
              ELSE IF p = start /\ HeaderAt(s.rows) = 0 THEN [At(s.rows, p) EXCEPT !.header = TRUE]
              ELSE IF p = 1 THEN Topped(At(s.rows, p), s)
              ELSE At(s.rows, p)
  <2>1. PICK h : h = s.rows
    OBVIOUS
  <2>2. PICK g : g = CellsApplied(h, s)
    OBVIOUS
  <2>3. h \in Seq(Row)
    BY <1>7, <2>1
  <2>4. /\ g \in Seq(Row)
        /\ Trimmed(g)
        /\ \A p \in Place : At(g, p) =
               IF p \in start + 1 .. start + Len(s.audit)
               THEN Patch(At(h, p), Plan(s).slots[p - start], Desired(s)[p - start])
               ELSE IF p = start /\ HeaderAt(s.rows) = 0 THEN [At(h, p) EXCEPT !.header = TRUE]
               ELSE IF p = 1 THEN Topped(At(h, p), s)
               ELSE At(h, p)
    BY <1>3, <2>2, <2>3, CellsFacts
  <2> QED BY <1>5, <2>1, <2>2, <2>4
<1>14. ASSUME NEW p \in Place
       PROVE  At(c, p) = IF p = 1 THEN Topped(At(s.rows, p), s) ELSE At(s.rows, p)
  <2>1. CASE p \in start + 1 .. start + m
    <3>1. PICK k : k = p - start
      OBVIOUS
    <3>2. k \in 1 .. m /\ k \in Place /\ p = start + k /\ p # 1
      BY <1>7, <1>8, <2>1, <3>1 DEF Place
    <3>3. At(s.rows, p) = At(slots, k)
      BY <1>9, <3>2
    <3>4. k <= Len(slots) /\ slots[k] \in Row
      BY <1>7, <1>9, <1>10, <3>2
    <3>5. At(s.rows, p) = slots[k]
      BY <3>3, <3>4 DEF At
    <3>6. At(c, p) = Patch(At(s.rows, p), slots[k], d[k])
      BY <1>2, <1>4, <1>6, <1>13, <2>1, <3>1
    <3>7. At(c, p) = Patch(slots[k], slots[k], d[k])
      BY <3>5, <3>6
    <3>8. Patch(slots[k], slots[k], d[k]) = slots[k]
      BY <1>11, <1>12, <3>2, <3>4, PatchedSame
    <3> QED BY <3>2, <3>5, <3>7, <3>8
  <2>2. CASE ~(p \in start + 1 .. start + m)
    BY <1>4, <1>8, <1>13, <2>2
  <2> QED BY <2>1, <2>2
<1>15. PICK f : f = Stats(slots)
  OBVIOUS
<1>16. SummaryOf(s) = [now |-> f, was |-> f]
  <2>1. DOMAIN slots = 1 .. m
    BY <1>9, <1>10
  <2>2. DOMAIN d = 1 .. m
    BY <1>2, <1>4 DEF Known, Desired
  <2>3. \A k \in 1 .. m : d[k].value = slots[k].value /\ d[k].info = slots[k].info
    BY <1>12
  <2>4. Stats(d) = Stats(slots)
    BY <1>7, <2>1, <2>2, <2>3, SameStats
  <2> QED BY <1>1, <1>2, <1>15, <2>4 DEF SummaryOf
<1>17. /\ 1 \in Place /\ 1 \in 1 .. Len(s.rows) /\ Len(s.rows) \in Nat
       /\ At(s.rows, 1) = s.rows[1] /\ s.rows[1] \in Row
  <2>1. start \in 0 .. Len(s.rows) /\ Len(s.rows) \in Nat
    BY <1>7, <1>8, HeaderFacts
  <2> QED BY <1>7, <1>8, <2>1 DEF At, Place
<1>18. TopRows(s.rows) = 0 /\ s.rows # <<>>
  <2>1. HeaderAt(s.rows) # 1 /\ HeaderAt(s.rows) # 0
    BY <1>8
  <2> QED BY <1>17, <2>1 DEF TopRows
<1>19. PICK row : row = [s.rows[1] EXCEPT !.key = SummaryOf(s)]
  OBVIOUS
<1>20. Topped(s.rows[1], s) = row
  <2>1. SummaryCell(s.rows[1].key, s) = SummaryOf(s)
    BY <1>18 DEF SummaryCell
  <2> QED BY <1>19, <2>1 DEF Topped
<1>21. row \in Row /\ row.key = SummaryOf(s)
  <2>1. SummaryOf(s) \in Label
    BY SummaryTyped DEF Label
  <2> QED BY <1>17, <1>19, <2>1 DEF Row
<1>22. row # BlankRow
  <2>1. SummaryOf(s) # Blank
    BY SummaryTyped, ConstantsOK
  <2> QED BY <1>21, <2>1 DEF BlankRow
<1>23. PICK w : w = [s.rows EXCEPT ![1] = row]
  OBVIOUS
<1>24. w \in Seq(Row) /\ Trimmed(w)
  BY <1>7, <1>17, <1>21, <1>22, <1>23, RowReplaced
<1>25. ASSUME NEW p \in Place PROVE At(c, p) = At(w, p)
  <2>1. Len(w) = Len(s.rows) /\ \A q \in 1 .. Len(s.rows) : w[q] = IF q = 1 THEN row ELSE s.rows[q]
    BY <1>7, <1>17, <1>23
  <2>2. At(w, p) = IF p = 1 THEN row ELSE At(s.rows, p)
    <3>1. p \in 1 .. Len(s.rows) \/ (~(p <= Len(s.rows)) /\ p # 1)
      BY <1>17 DEF Place
    <3> QED BY <2>1, <3>1 DEF At
  <2> QED BY <1>14, <1>17, <1>20, <2>2
<1>26. c = w
  BY <1>13, <1>24, <1>25, SameRowsSameGrid
<1>27. w = [s.rows EXCEPT ![1].key = [now |-> f, was |-> f]]
  BY <1>16, <1>17, <1>19, <1>23
<1> QED BY <1>1, <1>5, <1>6, <1>15, <1>26, <1>27

(* A run whose endpoints have different loose keys and that audits what    *)
(* the sheet says already plans no row operation and writes no row, no     *)
(* time stamp either; its summary says that the figures have not changed   *)
(* (reconcile, planSheetUpdateWithSummary and buildAuditSheetSummary).  Of *)
(* two endpoints with one loose key the last row's cells count for both,   *)
(* so a person's "n/a" in the first would be overwritten.                  *)
THEOREM QuietWhenUnchanged == Spec => []UnchangedAuditIsQuiet
<1>1. SheetInv => UnchangedAuditIsQuiet
  <2> SUFFICES ASSUME SheetInv, NEW r \in Run, NEW s, s = seen[r],
                      Reconciled(s.rows, s.audit), DistinctKeys(s.audit)
               PROVE  /\ Plan(s).ops = <<>>
                      /\ CellsApplied(s.rows, s) =
                             [s.rows EXCEPT ![1].key = [now |-> Stats(Slots(s.rows)), was |-> Stats(Slots(s.rows))]]
    BY DEF UnchangedAuditIsQuiet
  <2>1. Known(s) /\ Trimmed(s.rows)
    BY KnownRuns
  <2> QED BY <2>1, ReconciledStays
<1> QED BY <1>1, SheetInvHolds, PTL

-----------------------------------------------------------------------------
(* The cells that belong to people. *)

FirstWith(slots, k) == SelectInSeq(slots, LAMBDA row : row.key = k)

LEMMA FirstFacts ==
    ASSUME NEW slots \in Seq(Row), NEW k, NEW i, i = FirstWith(slots, k), i # 0
    PROVE  /\ i \in 1 .. Len(slots)
           /\ slots[i].key = k
           /\ Count(slots, k, i) = 1
<1> DEFINE I == {p \in 1 .. Len(slots) : slots[p].key = k}
<1>0. Len(slots) \in Nat
  OBVIOUS
<1>1. i = (IF I # {} THEN Min(I) ELSE 0)
  BY DEF FirstWith, SelectInSeq
<1>2. I # {}
  BY <1>1
<1>3. i \in I /\ \A p \in I : i <= p
  <2>1. I \in SUBSET (0 .. Len(slots))
    BY <1>0
  <2>2. i = Min(I)
    BY <1>1, <1>2
  <2> HIDE DEF I
  <2>3. Min(I) \in I /\ \A p \in I : Min(I) <= p
    BY ONLY <1>0, <1>2, <2>1, MinFacts
  <2> QED BY <2>2, <2>3
<1>4. i \in 1 .. Len(slots) /\ slots[i].key = k
  BY <1>3
<1>5. {j \in 1 .. i : slots[j].key = k} = {i}
  <2>1. ASSUME NEW j \in 1 .. i, slots[j].key = k PROVE j = i
    <3>1. j \in I
      BY <1>0, <1>4, <2>1
    <3>2. i <= j
      BY <1>3, <3>1
    <3> QED BY <1>0, <1>4, <3>2
  <2>2. i \in 1 .. i
    BY <1>0, <1>4
  <2> QED BY <1>4, <2>1, <2>2
<1>6. Count(slots, k, i) = 1
  BY <1>5, FS_Singleton DEF Count
<1> QED BY <1>4, <1>6

LEMMA AuditedCounts ==
    ASSUME NEW audit, Len(audit) \in Nat, NEW j \in 1 .. Len(audit)
    PROVE  Count(audit, audit[j].key, Len(audit)) >= 1
<1>1. PICK k : k = audit[j].key
  OBVIOUS
<1>2. j \in Place /\ j - 1 \in Nat /\ j \in Nat /\ j \in 0 .. Len(audit)
  BY DEF Place
<1>3. \A n \in Nat : Count(audit, k, n) \in Nat
  BY CountFacts
<1>4. Count(audit, k, j) = Count(audit, k, j - 1) + (IF audit[j].key = k THEN 1 ELSE 0)
  BY <1>2, CountFacts
<1>5. Count(audit, k, j) >= 1
  BY <1>1, <1>2, <1>3, <1>4
<1>6. Count(audit, k, j) <= Count(audit, k, Len(audit))
  BY <1>2, CountGrows
<1>7. Count(audit, k, j) \in Nat /\ Count(audit, k, Len(audit)) \in Nat
  BY <1>2, <1>3
<1> QED BY <1>1, <1>5, <1>6, <1>7

(* After the row operations the body of the sheet has the rows of the      *)
(* plan, and nothing that is not blank besides.                            *)
LEMMA PlacedRows ==
    ASSUME NEW s, Known(s), NEW g, g = RowsApplied(s.rows, s)
    PROVE  /\ g \in Seq(Row)
           /\ Planned(Plan(s).slots, s.rows, s.audit)
           /\ \A p \in 1 .. Len(Slots(g)) : Slots(g)[p] # BlankRow =>
                  \E m \in 1 .. Len(Plan(s).slots) : Slots(g)[p] = Plan(s).slots[m]
           /\ \A m \in 1 .. Len(Plan(s).slots) : Plan(s).slots[m] # BlankRow =>
                  \E p \in 1 .. Len(Slots(g)) : Slots(g)[p] = Plan(s).slots[m]
<1>1. PICK start : start = BodyStart(s.rows)
  OBVIOUS
<1>2. PICK slots : slots = Plan(s).slots
  OBVIOUS
<1>3. s.rows \in Seq(Row)
  BY DEF Known
<1>4. start \in Nat /\ start > 1 /\ start \in Place
  <2>1. start \in Nat /\ start > 1
    BY <1>1, <1>3, TopFacts
  <2> QED BY <2>1 DEF Place
<1>5. /\ g \in Seq(Row)
      /\ Planned(slots, s.rows, s.audit)
      /\ Above(g, s.rows, start)
      /\ \A k \in Place : At(g, start + k) = At(slots, k)
  BY <1>1, <1>2, RowsAppliedFacts
<1>6. slots \in Seq(Row) /\ Len(slots) \in Nat /\ Len(g) \in Nat
  BY <1>5 DEF Planned
<1>7. PICK b : b = Slots(g)
  OBVIOUS
<1>8. PICK h : h = HeaderAt(g)
  OBVIOUS
<1>9. /\ h \in 0 .. Len(g)
      /\ h # 0 => g[h].header
      /\ \A p \in 1 .. Len(g) : (h = 0 \/ p < h) => ~g[p].header
  BY <1>5, <1>8, HeaderFacts
<1>10. /\ b \in Seq(Row)
       /\ Len(b) = Len(g) - h
       /\ \A k \in 1 .. Len(b) : b[k] = g[h + k]
  BY <1>5, <1>7, <1>8, SlotsFacts
<1>11. ~BlankRow.header /\ BlankRow.key = Blank
  BY DEF BlankRow
(* Without a header in what was read there is none now. *)
<1>12. HeaderAt(s.rows) = 0 => h = 0
  <2> SUFFICES ASSUME HeaderAt(s.rows) = 0, h # 0 PROVE FALSE
    OBVIOUS
  <2>1. h \in 1 .. Len(g) /\ g[h].header /\ h \in Place /\ h <= Len(g)
    BY <1>6, <1>9 DEF Place
  <2>2. At(g, h).header
    BY <2>1 DEF At
  <2>3. CASE h <= start
    <3>1. At(g, h) = BlankRow
      BY <1>5, <2>1, <2>3 DEF Above
    <3> QED BY <1>11, <2>2, <3>1
  <2>4. CASE h > start
    <3>1. PICK k : k = h - start
      OBVIOUS
    <3>2. k \in Place /\ h = start + k
      BY <1>4, <2>1, <2>4, <3>1 DEF Place
    <3>3. At(g, h) = At(slots, k)
      BY <1>5, <3>2
    <3>4. k <= Len(slots) /\ At(slots, k) = slots[k]
      BY <1>11, <2>2, <3>3 DEF At
    <3>5. k \in 1 .. Len(slots) /\ slots[k].header
      BY <1>6, <2>2, <3>2, <3>3, <3>4 DEF Place
    <3>6. slots[k] # BlankRow
      BY <1>11, <3>5
    <3>7. PICK i \in 1 .. Len(Slots(s.rows)) : slots[k] = Slots(s.rows)[i]
      BY <1>5, <3>5, <3>6 DEF Planned
    <3>8. Len(Slots(s.rows)) = Len(s.rows) /\ Slots(s.rows)[i] = s.rows[i]
      BY <1>3, SlotsFacts
    <3>9. ~s.rows[i].header
      BY <1>3, <3>8, HeaderFacts
    <3> QED BY <3>5, <3>7, <3>8, <3>9
  <2> QED BY <1>4, <2>1, <2>3, <2>4
<1>13. HeaderAt(s.rows) # 0 => h = start
  <2> SUFFICES ASSUME HeaderAt(s.rows) # 0 PROVE h = start
    OBVIOUS
  <2>1. At(g, start).header
    BY <1>5 DEF Above
  <2>2. start <= Len(g) /\ g[start].header
    BY <1>11, <2>1 DEF At
  <2>3. start \in 1 .. Len(g)
    BY <1>4, <1>6, <2>2
  <2>4. ASSUME NEW p \in 1 .. Len(g), p < start PROVE ~g[p].header
    <3>1. p \in Place /\ p <= Len(g)
      BY <1>6 DEF Place
    <3>2. At(g, p) = g[p]
      BY <3>1 DEF At
    <3> QED BY <1>5, <2>4, <3>1, <3>2 DEF Above
  <2> QED BY <1>5, <1>8, <2>2, <2>3, <2>4, HeaderIs
<1>14. ASSUME NEW p \in 1 .. Len(b), b[p] # BlankRow
       PROVE  \E m \in 1 .. Len(slots) : b[p] = slots[m]
  <2>1. PICK q : q = h + p
    OBVIOUS
  <2>2. q \in Place /\ q <= Len(g)
    BY <1>6, <1>9, <1>10, <2>1 DEF Place
  <2>3. b[p] = At(g, q)
    BY <1>10, <2>1, <2>2 DEF At
  <2>4. q > start
    <3>1. CASE HeaderAt(s.rows) = 0
      <4>1. SUFFICES ASSUME q <= start PROVE FALSE
        BY <1>4, <2>2 DEF Place
      <4>2. At(g, q) = BlankRow
        BY <1>5, <2>2, <3>1, <4>1 DEF Above
      <4> QED BY <1>11, <1>14, <2>3, <4>2
    <3>2. CASE HeaderAt(s.rows) # 0
      BY <1>4, <1>13, <2>1, <3>2
    <3> QED BY <3>1, <3>2
  <2>5. PICK k : k = q - start
    OBVIOUS
  <2>6. k \in Place /\ q = start + k
    BY <1>4, <2>2, <2>4, <2>5 DEF Place
  <2>7. At(g, q) = At(slots, k)
    BY <1>5, <2>6
  <2>8. k <= Len(slots) /\ At(slots, k) = slots[k]
    BY <1>11, <1>14, <2>3, <2>7 DEF At
  <2>9. k \in 1 .. Len(slots)
    BY <1>6, <2>6, <2>8 DEF Place
  <2> QED BY <2>3, <2>7, <2>8, <2>9
<1>15. ASSUME NEW m \in 1 .. Len(slots), slots[m] # BlankRow
       PROVE  \E p \in 1 .. Len(b) : b[p] = slots[m]
  <2>1. m \in Place /\ At(slots, m) = slots[m]
    BY <1>6 DEF Place, At
  <2>2. At(g, start + m) = slots[m]
    BY <1>5, <2>1
  <2>3. start + m <= Len(g) /\ g[start + m] = slots[m]
    BY <1>15, <2>2 DEF At
  <2>4. PICK p : p = start + m - h
    OBVIOUS
  <2>5. h = 0 \/ h = start
    BY <1>12, <1>13
  <2>6. h \in Nat /\ h <= start /\ m \in Nat /\ m >= 1
    BY <1>4, <1>6, <2>5
  <2>a. h + p = start + m /\ p \in Nat /\ p >= 1
    BY ONLY <1>4, <2>4, <2>6
  <2>b. p <= Len(b) /\ Len(b) \in Nat
    BY ONLY <1>4, <1>6, <1>10, <2>3, <2>6, <2>a
  <2>c. p \in 1 .. Len(b)
    BY ONLY <2>a, <2>b
  <2>7. b[p] = g[h + p]
    BY <1>10, <2>c
  <2> QED BY <2>3, <2>a, <2>c, <2>7
<1> QED BY <1>2, <1>5, <1>7, <1>14, <1>15

LEMMA AnnotationIsRow ==
    ASSUME NEW g \in Seq(Row), NEW e \in Annotations(g)
    PROVE  \E p \in 1 .. Len(Slots(g)) :
               /\ e = <<Slots(g)[p].key, Slots(g)[p].note>>
               /\ Slots(g)[p].key # Blank /\ Slots(g)[p].note # Blank
<1>1. PICK b : b = Slots(g)
  OBVIOUS
<1>2. b \in Seq(Row)
  BY <1>1, SlotsFacts
<1>3. PICK x \in ToSet(b) : x.note # Blank /\ x.key # Blank /\ e = <<x.key, x.note>>
  BY <1>1 DEF Annotations
<1>4. PICK p \in DOMAIN b : x = b[p]
  BY <1>3 DEF ToSet
<1>5. p \in 1 .. Len(b)
  BY <1>2, <1>4
<1> QED BY <1>1, <1>3, <1>4, <1>5

LEMMA RowIsAnnotation ==
    ASSUME NEW g \in Seq(Row), NEW p \in 1 .. Len(Slots(g)),
           Slots(g)[p].key # Blank, Slots(g)[p].note # Blank
    PROVE  <<Slots(g)[p].key, Slots(g)[p].note>> \in Annotations(g)
<1>1. PICK b : b = Slots(g)
  OBVIOUS
<1>2. b \in Seq(Row)
  BY <1>1, SlotsFacts
<1>3. b[p] \in ToSet(b)
  BY <1>1, <1>2 DEF ToSet
<1>4. b[p] \in {x \in ToSet(b) : x.note # Blank /\ x.key # Blank}
  BY <1>1, <1>3
<1> QED BY <1>1, <1>4 DEF Annotations

LEMMA AuditedKey ==
    ASSUME NEW audit \in Seq(Audited), NEW k \in {a.key : a \in ToSet(audit)}
    PROVE  k \in Key /\ k # Blank /\ Len(audit) \in Nat /\ \E j \in 1 .. Len(audit) : audit[j].key = k
<1>1. PICK x \in ToSet(audit) : k = x.key
  OBVIOUS
<1>2. PICK j \in DOMAIN audit : x = audit[j]
  BY <1>1 DEF ToSet
<1>3. j \in 1 .. Len(audit) /\ audit[j] \in Audited
  BY <1>2
<1>4. k \in Key
  BY <1>1, <1>2, <1>3 DEF Audited
<1> QED BY <1>1, <1>2, <1>3, <1>4, ConstantsOK

(* From one grid to the next no endpoint gets a person's cell it did not   *)
(* have, and the first row of each audited endpoint keeps its own.         *)
NotesKept(old, new, audit) ==
    /\ Annotations(new) \subseteq Annotations(old)
    /\ \A k \in {a.key : a \in ToSet(audit)} :
           FirstWith(Slots(old), k) # 0 /\ Slots(old)[FirstWith(Slots(old), k)].note # Blank
               => <<k, Slots(old)[FirstWith(Slots(old), k)].note>> \in Annotations(new)

LEMMA FirstAnnotation ==
    ASSUME NEW old \in Seq(Row), NEW audit \in Seq(Audited), NEW new,
           \A p \in 1 .. Len(Slots(old)) :
               /\ Slots(old)[p].key # Blank /\ Slots(old)[p].note # Blank
               /\ Count(Slots(old), Slots(old)[p].key, p) = 1
               /\ \E j \in 1 .. Len(audit) : audit[j].key = Slots(old)[p].key
               => <<Slots(old)[p].key, Slots(old)[p].note>> \in Annotations(new),
           NEW k \in {a.key : a \in ToSet(audit)},
           FirstWith(Slots(old), k) # 0, Slots(old)[FirstWith(Slots(old), k)].note # Blank
    PROVE  <<k, Slots(old)[FirstWith(Slots(old), k)].note>> \in Annotations(new)
<1>1. PICK i : i = FirstWith(Slots(old), k)
  OBVIOUS
<1>2. Slots(old) \in Seq(Row)
  BY SlotsFacts
<1>3. /\ i \in 1 .. Len(Slots(old))
      /\ Slots(old)[i].key = k
      /\ Count(Slots(old), k, i) = 1
  BY <1>1, <1>2, FirstFacts
<1>4. k # Blank /\ \E j \in 1 .. Len(audit) : audit[j].key = k
  BY AuditedKey
<1> QED BY <1>1, <1>3, <1>4

LEMMA NothingKeepsNotes ==
    ASSUME NEW g \in Seq(Row), NEW audit \in Seq(Audited)
    PROVE  NotesKept(g, g, audit)
<1>1. \A p \in 1 .. Len(Slots(g)) :
          /\ Slots(g)[p].key # Blank /\ Slots(g)[p].note # Blank
          /\ Count(Slots(g), Slots(g)[p].key, p) = 1
          /\ \E j \in 1 .. Len(audit) : audit[j].key = Slots(g)[p].key
          => <<Slots(g)[p].key, Slots(g)[p].note>> \in Annotations(g)
  BY RowIsAnnotation
<1> QED BY <1>1, FirstAnnotation DEF NotesKept

LEMMA RowsKeepNotes ==
    ASSUME NEW s, Known(s), NEW g, g = RowsApplied(s.rows, s)
    PROVE  NotesKept(s.rows, g, s.audit)
<1>1. PICK slots : slots = Plan(s).slots
  OBVIOUS
<1>2. PICK b : b = Slots(g)
  OBVIOUS
<1>3. PICK old : old = Slots(s.rows)
  OBVIOUS
<1>4. /\ g \in Seq(Row)
      /\ Planned(slots, s.rows, s.audit)
      /\ \A p \in 1 .. Len(b) : b[p] # BlankRow => \E m \in 1 .. Len(slots) : b[p] = slots[m]
      /\ \A m \in 1 .. Len(slots) : slots[m] # BlankRow => \E p \in 1 .. Len(b) : b[p] = slots[m]
  <2>1. /\ g \in Seq(Row)
        /\ Planned(Plan(s).slots, s.rows, s.audit)
        /\ \A p \in 1 .. Len(Slots(g)) : Slots(g)[p] # BlankRow =>
               \E m \in 1 .. Len(Plan(s).slots) : Slots(g)[p] = Plan(s).slots[m]
        /\ \A m \in 1 .. Len(Plan(s).slots) : Plan(s).slots[m] # BlankRow =>
               \E p \in 1 .. Len(Slots(g)) : Slots(g)[p] = Plan(s).slots[m]
    BY ONLY Known(s), g = RowsApplied(s.rows, s), PlacedRows
  <2> QED BY ONLY <1>1, <1>2, <2>1
<1>5. s.rows \in Seq(Row) /\ s.audit \in Seq(Audited) /\ Len(s.audit) \in Nat
  BY DEF Known
<1>6. BlankRow.key = Blank
  BY DEF BlankRow
<1>7. ASSUME NEW e \in Annotations(g) PROVE e \in Annotations(s.rows)
  <2>1. PICK p \in 1 .. Len(b) : e = <<b[p].key, b[p].note>> /\ b[p].key # Blank /\ b[p].note # Blank
    BY <1>2, <1>4, AnnotationIsRow
  <2>2. PICK m \in 1 .. Len(slots) : b[p] = slots[m]
    BY <1>4, <1>6, <2>1
  <2>3. slots[m] # BlankRow
    BY <1>6, <2>1, <2>2
  <2>4. PICK i \in 1 .. Len(old) : slots[m] = old[i]
    BY <1>3, <1>4, <2>3 DEF Planned
  <2>5. old[i].key # Blank /\ old[i].note # Blank
    BY <2>1, <2>2, <2>4
  <2>6. <<old[i].key, old[i].note>> \in Annotations(s.rows)
    BY <1>3, <1>5, <2>5, RowIsAnnotation
  <2> QED BY <2>1, <2>2, <2>4, <2>6
<1>8. ASSUME NEW p \in 1 .. Len(old),
             old[p].key # Blank, old[p].note # Blank,
             Count(old, old[p].key, p) = 1,
             NEW j \in 1 .. Len(s.audit), s.audit[j].key = old[p].key
      PROVE  <<old[p].key, old[p].note>> \in Annotations(g)
  <2>1. Count(s.audit, s.audit[j].key, Len(s.audit)) >= 1
    BY <1>5, AuditedCounts
  <2>2. Kept(old, s.audit, p)
    BY <1>8, <2>1 DEF Kept
  <2>3. PICK m \in 1 .. Len(slots) : slots[m] = old[p]
    BY <1>3, <1>4, <2>2 DEF Planned
  <2>4. PICK q \in 1 .. Len(b) : b[q] = slots[m]
    BY <1>4, <1>6, <1>8, <2>3
  <2>5. b[q].key # Blank /\ b[q].note # Blank
    BY <1>8, <2>3, <2>4
  <2>6. <<b[q].key, b[q].note>> \in Annotations(g)
    BY <1>2, <1>4, <2>5, RowIsAnnotation
  <2> QED BY <2>3, <2>4, <2>6
<1>9. \A p \in 1 .. Len(Slots(s.rows)) :
          /\ Slots(s.rows)[p].key # Blank /\ Slots(s.rows)[p].note # Blank
          /\ Count(Slots(s.rows), Slots(s.rows)[p].key, p) = 1
          /\ \E j \in 1 .. Len(s.audit) : s.audit[j].key = Slots(s.rows)[p].key
          => <<Slots(s.rows)[p].key, Slots(s.rows)[p].note>> \in Annotations(g)
  BY <1>3, <1>8
<1> QED BY <1>5, <1>7, <1>9, FirstAnnotation DEF NotesKept

LEMMA CellsKeepNotes ==
    ASSUME NEW s, Known(s), NEW g, g = RowsApplied(s.rows, s), NEW c, c = CellsApplied(g, s)
    PROVE  NotesKept(g, c, s.audit)
<1>1. PICK slots : slots = Plan(s).slots
  OBVIOUS
<1>2. PICK b : b = Slots(g)
  OBVIOUS
<1>3. PICK w : w = Slots(c)
  OBVIOUS
<1>4. PICK start : start = BodyStart(s.rows)
  OBVIOUS
<1>5. /\ g \in Seq(Row)
      /\ Planned(slots, s.rows, s.audit)
      /\ \A p \in 1 .. Len(b) : b[p] # BlankRow => \E m \in 1 .. Len(slots) : b[p] = slots[m]
      /\ \A m \in 1 .. Len(slots) : slots[m] # BlankRow => \E p \in 1 .. Len(b) : b[p] = slots[m]
  <2>1. /\ g \in Seq(Row)
        /\ Planned(Plan(s).slots, s.rows, s.audit)
        /\ \A p \in 1 .. Len(Slots(g)) : Slots(g)[p] # BlankRow =>
               \E m \in 1 .. Len(Plan(s).slots) : Slots(g)[p] = Plan(s).slots[m]
        /\ \A m \in 1 .. Len(Plan(s).slots) : Plan(s).slots[m] # BlankRow =>
               \E p \in 1 .. Len(Slots(g)) : Slots(g)[p] = Plan(s).slots[m]
    BY ONLY Known(s), g = RowsApplied(s.rows, s), PlacedRows
  <2> QED BY ONLY <1>1, <1>2, <2>1
<1>6. s.audit \in Seq(Audited) /\ Len(s.audit) \in Nat /\ Len(slots) = Len(s.audit)
  BY <1>5 DEF Known, Planned
<1>7. c \in Seq(Row) /\ Len(w) = Len(s.audit)
  BY <1>3, <1>4, WrittenFacts
<1>8. ASSUME NEW k \in 1 .. Len(s.audit)
      PROVE  w[k].key = s.audit[k].key /\ w[k].note = slots[k].note
  <2>a. c = CellsApplied(RowsApplied(s.rows, s), s)
    OBVIOUS
  <2>b. \A m \in 1 .. Len(s.audit) :
            Slots(c)[m].key = Desired(s)[m].key /\ Slots(c)[m].note = Plan(s).slots[m].note
    BY ONLY Known(s), <1>4, <2>a, WrittenFacts
  <2>1. w[k].key = Desired(s)[k].key /\ w[k].note = slots[k].note
    BY ONLY <1>1, <1>3, <2>b
  <2>2. PICK i : Tracks(Desired(s)[k], Slots(s.rows), s.audit[k], s.now, i)
    BY DesiredFacts
  <2> QED BY <2>1, <2>2 DEF Tracks
<1>9. BlankRow.key = Blank /\ BlankRow.note = Blank
  BY DEF BlankRow
<1>10. ASSUME NEW e \in Annotations(c) PROVE e \in Annotations(g)
  <2>1. PICK p \in 1 .. Len(w) : e = <<w[p].key, w[p].note>> /\ w[p].key # Blank /\ w[p].note # Blank
    BY <1>3, <1>7, AnnotationIsRow
  <2>2. w[p].key = s.audit[p].key /\ w[p].note = slots[p].note
    BY <1>7, <1>8
  <2>3. slots[p] # BlankRow
    BY <1>9, <2>1, <2>2
  <2>4. slots[p].key = s.audit[p].key
    BY <1>5, <1>6, <1>7, <2>3 DEF Planned
  <2>5. PICK q \in 1 .. Len(b) : b[q] = slots[p]
    BY <1>5, <1>6, <1>7, <2>3
  <2>6. b[q].key # Blank /\ b[q].note # Blank
    BY <2>1, <2>2, <2>4, <2>5
  <2>7. <<b[q].key, b[q].note>> \in Annotations(g)
    BY <1>2, <1>5, <2>6, RowIsAnnotation
  <2> QED BY <2>1, <2>2, <2>4, <2>5, <2>7
<1>11. ASSUME NEW p \in 1 .. Len(b), b[p].key # Blank, b[p].note # Blank
       PROVE  <<b[p].key, b[p].note>> \in Annotations(c)
  <2>1. PICK m \in 1 .. Len(slots) : b[p] = slots[m]
    BY <1>5, <1>9, <1>11
  <2>2. slots[m] # BlankRow
    BY <1>9, <1>11, <2>1
  <2>3. slots[m].key = s.audit[m].key
    BY <1>5, <2>2 DEF Planned
  <2>4. w[m].key = s.audit[m].key /\ w[m].note = slots[m].note
    BY <1>6, <1>8
  <2>5. w[m].key # Blank /\ w[m].note # Blank /\ m \in 1 .. Len(w)
    BY <1>6, <1>7, <1>11, <2>1, <2>3, <2>4
  <2>6. <<w[m].key, w[m].note>> \in Annotations(c)
    BY <1>3, <1>7, <2>5, RowIsAnnotation
  <2> QED BY <2>1, <2>3, <2>4, <2>6
<1>12. \A p \in 1 .. Len(Slots(g)) :
          /\ Slots(g)[p].key # Blank /\ Slots(g)[p].note # Blank
          /\ Count(Slots(g), Slots(g)[p].key, p) = 1
          /\ \E j \in 1 .. Len(s.audit) : s.audit[j].key = Slots(g)[p].key
          => <<Slots(g)[p].key, Slots(g)[p].note>> \in Annotations(c)
  BY <1>2, <1>11
<1> QED BY <1>5, <1>6, <1>10, <1>12, FirstAnnotation DEF NotesKept

LEMMA NotesNext == SheetInv /\ [Next]_vars => [NotesStep]_vars
<1> SUFFICES ASSUME SheetInv, Next, NEW r \in Run, pc[r] # "idle", pc'[r] # pc[r], Fresh(r)
             PROVE  NotesKept(sheet, sheet', seen[r].audit)
  BY DEF NotesStep, NotesKept, FirstWith
<1>1. pc \in [Run -> {"idle", "rows", "cells"}] /\ sheet \in Seq(Row)
  BY DEF SheetInv, GridInv, RunInv
<1>2. Known(seen[r])
  BY KnownRuns
<1>3. seen[r].audit \in Seq(Audited)
  BY <1>2 DEF Known
<1>4. ASSUME NEW q \in Run, Read(q) PROVE FALSE
  BY <1>1, <1>4 DEF Read
<1>5. ASSUME NEW q \in Run, ApplyRows(q) \/ ApplyCells(q) PROVE q = r
  BY <1>1, <1>5 DEF ApplyRows, ApplyCells, GiveUp
<1>6. ASSUME Edit PROVE FALSE
  BY <1>1, <1>6 DEF Edit
<1>7. CASE ApplyRows(r)
  <2>1. sheet = seen[r].rows
    BY <1>7 DEF ApplyRows, Fresh
  <2>2. sheet' = RowsApplied(sheet, seen[r]) \/ sheet' = sheet
    BY <1>7 DEF ApplyRows
  <2>3. CASE sheet' = RowsApplied(sheet, seen[r])
    BY <1>2, <2>1, <2>3, RowsKeepNotes
  <2>4. CASE sheet' = sheet
    BY <1>1, <1>3, <2>4, NothingKeepsNotes
  <2> QED BY <2>2, <2>3, <2>4
<1>8. CASE ApplyCells(r)
  <2>1. sheet = RowsApplied(seen[r].rows, seen[r])
    BY <1>8 DEF ApplyCells, Fresh
  <2>2. sheet' = CellsApplied(sheet, seen[r]) \/ sheet' = sheet
    BY <1>8 DEF ApplyCells
  <2>3. CASE sheet' = CellsApplied(sheet, seen[r])
    BY <1>2, <2>1, <2>3, CellsKeepNotes
  <2>4. CASE sheet' = sheet
    BY <1>1, <1>3, <2>4, NothingKeepsNotes
  <2> QED BY <2>2, <2>3, <2>4
<1> QED BY <1>4, <1>5, <1>6, <1>7, <1>8 DEF Next, WriteNote, MarkNA, AddRow, MoveRow, DeleteRow

(* "Structural edits move, insert, or delete whole rows so user-owned      *)
(* cells stay attached to their endpoint identity": neither call of a run  *)
(* (writeSheet) gives a person's cell to another endpoint, and the first   *)
(* row of each audited endpoint keeps its own, unless something else has   *)
(* changed the sheet since the run read it.                                *)
THEOREM NotesStay == Spec => NotesStayAttached
<1>1. Spec => []SheetInv /\ [][Next]_vars
  BY SheetInvHolds DEF Spec
<1> QED BY <1>1, NotesNext, PTL DEF NotesStayAttached

-----------------------------------------------------------------------------
(* The cells a person has overridden. *)

LEMMA OnlyOne ==
    ASSUME NEW rows, NEW k, NEW L \in Nat, Count(rows, k, L) = 1,
           NEW i \in 1 .. L, NEW j \in 1 .. L, rows[i].key = k, rows[j].key = k
    PROVE  i = j
<1> DEFINE T == {p \in 1 .. L : rows[p].key = k}
<1>1. IsFiniteSet(1 .. L)
  BY FS_Interval
<1>2. IsFiniteSet(T)
  BY <1>1, FS_Subset
<1>3. Cardinality(T) = 1
  BY DEF Count
<1>4. i \in T /\ j \in T
  OBVIOUS
<1> HIDE DEF T
<1>5. PICK x : T = {x}
  BY <1>2, <1>3, FS_Singleton
<1> QED BY <1>4, <1>5

LEMMA OverrideWritten ==
    ASSUME NEW s, Known(s), NEW g, g = RowsApplied(s.rows, s), NEW c, c = CellsApplied(g, s),
           NEW row \in ToSet(Slots(g)), row.value = NA,
           Count(Slots(s.rows), row.key, Len(Slots(s.rows))) = 1
    PROVE  \E new \in ToSet(Slots(c)) : new.key = row.key /\ new.value = NA
<1>1. PICK slots : slots = Plan(s).slots
  OBVIOUS
<1>2. PICK b : b = Slots(g)
  OBVIOUS
<1>3. PICK w : w = Slots(c)
  OBVIOUS
<1>4. PICK old : old = Slots(s.rows)
  OBVIOUS
<1>5. PICK start : start = BodyStart(s.rows)
  OBVIOUS
<1>6. /\ g \in Seq(Row)
      /\ Planned(slots, s.rows, s.audit)
      /\ \A p \in 1 .. Len(b) : b[p] # BlankRow => \E m \in 1 .. Len(slots) : b[p] = slots[m]
  <2>1. /\ g \in Seq(Row)
        /\ Planned(Plan(s).slots, s.rows, s.audit)
        /\ \A p \in 1 .. Len(Slots(g)) : Slots(g)[p] # BlankRow =>
               \E m \in 1 .. Len(Plan(s).slots) : Slots(g)[p] = Plan(s).slots[m]
        /\ \A m \in 1 .. Len(Plan(s).slots) : Plan(s).slots[m] # BlankRow =>
               \E p \in 1 .. Len(Slots(g)) : Slots(g)[p] = Plan(s).slots[m]
    BY ONLY Known(s), g = RowsApplied(s.rows, s), PlacedRows
  <2> QED BY ONLY <1>1, <1>2, <2>1
<1>7. /\ b \in Seq(Row)
      /\ old \in Seq(Row) /\ Len(old) \in Nat
  BY <1>2, <1>4, <1>6, SlotsFacts DEF Known
<1>8. PICK p \in DOMAIN b : row = b[p]
  BY <1>2 DEF ToSet
<1>9. row # BlankRow
  BY ConstantsOK DEF BlankRow
<1>10. PICK m \in 1 .. Len(slots) : row = slots[m]
  BY <1>6, <1>7, <1>8, <1>9
<1>11. row.key = s.audit[m].key
  BY <1>6, <1>9, <1>10 DEF Planned
<1>12. PICK i \in 1 .. Len(old) : row = old[i]
  BY <1>4, <1>6, <1>9, <1>10 DEF Planned
<1>13. m \in 1 .. Len(s.audit)
  BY <1>6 DEF Planned
<1>14. PICK j : /\ IsLastWith(old, s.audit[m].key, j)
                /\ Tracks(Desired(s)[m], old, s.audit[m], s.now, j)
  BY <1>4, <1>13, DesiredFacts
<1>15. j # 0
  BY <1>11, <1>12, <1>14 DEF IsLastWith
<1>16. j \in 1 .. Len(old) /\ old[j].key = row.key
  BY <1>7, <1>11, <1>14, <1>15 DEF IsLastWith
<1>17. i = j
  BY <1>4, <1>7, <1>12, <1>16, OnlyOne
<1>18. Desired(s)[m].value = NA /\ Desired(s)[m].key = row.key
  BY <1>11, <1>12, <1>14, <1>15, <1>17 DEF Tracks
<1>19. c \in Seq(Row) /\ Len(w) = Len(s.audit)
  BY <1>3, <1>5, WrittenFacts
<1>20. w[m].key = row.key /\ w[m].value = NA
  <2>a. c = CellsApplied(RowsApplied(s.rows, s), s)
    OBVIOUS
  <2>b. \A k \in 1 .. Len(s.audit) :
            Slots(c)[k].key = Desired(s)[k].key /\ Slots(c)[k].value = Desired(s)[k].value
    BY ONLY Known(s), <1>5, <2>a, WrittenFacts
  <2>1. w[m].key = Desired(s)[m].key /\ w[m].value = Desired(s)[m].value
    BY ONLY <1>3, <1>13, <2>b
  <2> QED BY <1>18, <2>1
<1>21. w[m] \in ToSet(w)
  <2>1. w \in Seq(Row)
    BY <1>3, <1>19, SlotsFacts
  <2>2. m \in DOMAIN w
    BY <1>13, <1>19, <2>1
  <2> QED BY <2>2 DEF ToSet
<1> QED BY <1>3, <1>20, <1>21

LEMMA OverrideNext == SheetInv /\ [Next]_vars => [OverrideStep]_vars
<1> SUFFICES ASSUME SheetInv, Next, NEW r \in Run, pc[r] = "cells", Fresh(r), pc'[r] = "idle",
                    NEW row \in ToSet(Slots(sheet)), row.value = NA,
                    Count(Slots(seen[r].rows), row.key, Len(Slots(seen[r].rows))) = 1
             PROVE  \E new \in ToSet(Slots(sheet')) : new.key = row.key /\ new.value = NA
  BY DEF OverrideStep
<1>1. pc \in [Run -> {"idle", "rows", "cells"}]
  BY DEF SheetInv, RunInv
<1>2. Known(seen[r])
  BY KnownRuns
<1>3. sheet = RowsApplied(seen[r].rows, seen[r])
  BY DEF Fresh
<1>4. ASSUME NEW q \in Run, Read(q) \/ ApplyRows(q) PROVE FALSE
  BY <1>1, <1>4 DEF Read, ApplyRows, GiveUp
<1>5. ASSUME NEW q \in Run, ApplyCells(q)
      PROVE  q = r /\ (sheet' = CellsApplied(sheet, seen[r]) \/ sheet' = sheet)
  BY <1>1, <1>5 DEF ApplyCells, GiveUp
<1>6. ASSUME Edit PROVE FALSE
  BY <1>1, <1>6 DEF Edit
<1>7. sheet' = CellsApplied(sheet, seen[r]) \/ sheet' = sheet
  BY <1>4, <1>5, <1>6 DEF Next, WriteNote, MarkNA, AddRow, MoveRow, DeleteRow
<1>8. CASE sheet' = CellsApplied(sheet, seen[r])
  BY <1>2, <1>3, <1>8, OverrideWritten
<1>9. CASE sheet' = sheet
  BY <1>9
<1> QED BY <1>7, <1>8, <1>9

(* A person's "n/a" in the row of an endpoint that had one row when the    *)
(* run read the sheet is still there when the run ends (reconcile,         *)
(* planSheetUpdateWithSummary and writeSheet), unless something else has   *)
(* changed the sheet in between.                                           *)
THEOREM OverridesStay == Spec => OverridesSurvive
<1>1. Spec => []SheetInv /\ [][Next]_vars
  BY SheetInvHolds DEF Spec
<1> QED BY <1>1, OverrideNext, PTL DEF OverridesSurvive
=============================================================================
