------------------------- MODULE PermissionsProofs -------------------------
(***************************************************************************)
(* The generators of permission keys and the renames in a consumer's files *)
(* for any sheets, names, files, interruptions and number of runs.         *)
(***************************************************************************)
EXTENDS Permissions, FiniteSetTheorems, WellFoundedInduction, TLAPS

Items == {Parsed(s) : s \in Sheets} \cup {<<>>}

GenOK ==
    /\ sheet \in Sheets
    /\ gen \in [Lang -> [pc : {"idle", "save", "write"}, items : Items]]
    /\ DOMAIN keys \subseteq Lang

ApplyOK ==
    /\ apply = [pc |-> apply.pc, todo |-> apply.todo, left |-> apply.left, rename |-> apply.rename]
    /\ apply.pc \in {"idle", "rename"}
    /\ apply.pc = "idle" => apply.todo = {} /\ apply.left = {}
    /\ applies \in Nat /\ failures \in Nat /\ (applies = 0 => apply.pc = "idle")
    /\ ~Root => \A t \in apply.left : \E f \in File : t = <<"file", f>>
    /\ \A l \in Lang : <<"keys", l>> \in apply.left => l \in DOMAIN keys

Saved(id) == \E h \in history : h.id = id
IDsIn(index) == {r.id : r \in index}
Rows(items) == \A i \in DOMAIN items : items[i] = [id |-> items[i].id, name |-> items[i].name]

(* Whatever has become of the constants, the keys are those of the id.     *)
Kept(index) == Rows(index.items) /\ KeyIDs(index.items) = IDsIn(index.id)

(* An index is saved before the file that names it is written, and is only *)
(* ever replaced by one of the same id.                                    *)
SavedInv ==
    /\ \A h \in history : Kept(h)
    /\ \A l \in Lang : gen[l].pc = "write" => Saved(IndexID(gen[l].items))
    /\ \A l \in DOMAIN keys : Kept(keys[l]) /\ Saved(keys[l].id)

(* Until a rename is made in the project, ids are those of the constants.  *)
PristineInv ==
    ~Root \/ applies = 0 =>
        /\ \A h \in history : h.id = IndexID(h.items)
        /\ \A l \in DOMAIN keys : keys[l].id = IndexID(keys[l].items)

(* The rows of a file once the present entry is renamed in it. *)
Renamed(index) == {[id |-> r.id, name |-> Replaced(r.name)] : r \in index}
Pending(t, items) == IF t \in apply.left THEN Renamed(IndexID(items)) ELSE IndexID(items)

(* A rename is made in an index and in the files that name it, or is still *)
(* to be made in the one or the other.                                     *)
Agree ==
    \A l \in DOMAIN keys :
        \E h \in history : /\ h.id = keys[l].id
                           /\ Pending(<<"index", h.id>>, h.items) = Pending(<<"keys", l>>, keys[l].items)

IInv == GenOK /\ ApplyOK /\ SavedInv /\ PristineInv
        /\ (applies > 0 /\ Root /\ failures = 0 /\ ~regenerated => Agree)

LEMMA IndexIDs == \A items : IndexOf(items).id = IndexID(items) /\ IndexOf(items).items = items
BY DEF IndexOf

LEMMA KeysOfAnIndex == ASSUME NEW items PROVE IDsIn(IndexID(items)) = KeyIDs(items)
BY DEF IDsIn, IndexID, KeyIDs

(* Every name of an index that sed changes is changed by the same rule.    *)
LEMMA SedRows ==
    ASSUME NEW items
    PROVE  /\ Rows(Sed(items)) /\ KeyIDs(Sed(items)) = KeyIDs(items)
           /\ IndexID(Sed(items)) = Renamed(IndexID(items))
<1> DEFINE row(i) == [id |-> items[i].id, name |-> Replaced(items[i].name)]
<1>1. Sed(items) = [i \in DOMAIN items |-> row(i)]
  BY DEF Sed
<1>2. DOMAIN Sed(items) = DOMAIN items /\ \A i \in DOMAIN items : Sed(items)[i] = row(i)
  BY <1>1
<1>3. \A i : row(i).id = items[i].id /\ row(i) = [id |-> row(i).id, name |-> row(i).name]
  OBVIOUS
<1>4. IndexID(Sed(items)) = {row(i) : i \in DOMAIN items}
  BY <1>2 DEF IndexID
<1>5. Renamed(IndexID(items)) = {row(i) : i \in DOMAIN items}
  BY DEF Renamed, IndexID
<1> HIDE DEF row
<1>6. Rows(Sed(items))
  BY <1>2, <1>3 DEF Rows
<1>7. KeyIDs(Sed(items)) = KeyIDs(items)
  BY <1>2, <1>3 DEF KeyIDs
<1> QED BY <1>4, <1>5, <1>6, <1>7

LEMMA SedKeeps ==
    ASSUME NEW index, Kept(index)
    PROVE  Kept(SedIndex(index)) /\ SedIndex(index).id = index.id /\ SedIndex(index).items = Sed(index.items)
BY SedRows DEF Kept, SedIndex


-----------------------------------------------------------------------------
(* The constants of an index. *)

(* A nonempty set of numbers up to L has a greatest one: n is greatest     *)
(* when the set of those after it is minimal.                              *)
LEMMA GreatestOfSet ==
    ASSUME NEW L \in Nat, NEW T \in SUBSET (1 .. L), T # {}
    PROVE  \E n \in T : \A k \in T : k <= n
<1> DEFINE After(n) == {k \in T : k > n}
           Tails == {After(n) : n \in T}
<1>1. IsFiniteSet(T)
  <2>1. 1 \in Int /\ L \in Int
    OBVIOUS
  <2>2. IsFiniteSet(1 .. L)
    BY <2>1, FS_Interval
  <2> QED BY <2>2, FS_Subset
<1>2. Tails \subseteq FiniteSubsetsOf(T) /\ Tails # {}
  <2>1. \A n \in T : After(n) \in SUBSET T /\ IsFiniteSet(After(n))
    BY <1>1, FS_Subset
  <2> QED BY <2>1 DEF FiniteSubsetsOf
<1>3. PICK H \in Tails : \A G \in Tails : <<G, H>> \notin StrictSubsetOrdering(T)
  BY <1>1, <1>2, WFMin, FS_StrictSubsetOrderingWellFounded
<1>4. PICK n \in T : H = After(n)
  OBVIOUS
<1>5. \A k \in T : ~(k > n)
  <2> SUFFICES ASSUME NEW k \in T, k > n PROVE FALSE
    OBVIOUS
  <2>1. \A j \in T : j \in Nat
    OBVIOUS
  <2>2. (\A j \in T : j > k => j > n) /\ ~(k > k)
    BY <2>1
  <2>3. After(k) \subseteq After(n) /\ k \in After(n) /\ k \notin After(k)
    BY <2>2, Zenon
  <2>4. <<After(k), After(n)>> \in StrictSubsetOrdering(T)
    BY <2>3 DEF StrictSubsetOrdering
  <2> QED BY <2>4, <1>3, <1>4
<1>6. \A k \in T : k <= n
  BY <1>5
<1> QED BY <1>6

LEMMA ParsedFacts ==
    ASSUME NEW s \in Seq(Row)
    PROVE  /\ DOMAIN Parsed(s) \subseteq 1 .. Len(s)
           /\ \A i \in DOMAIN Parsed(s) : Parsed(s)[i] \in Row
           /\ \A i, j \in DOMAIN Parsed(s) : Parsed(s)[i].name = Parsed(s)[j].name => i = j
<1> DEFINE First(i) == \A j \in 1 .. i - 1 : s[j].name # s[i].name
           kept == {i \in DOMAIN s : First(i)}
<1>1. Parsed(s) = [i \in kept |-> s[i]]
  BY DEF Parsed
<1>2. DOMAIN Parsed(s) = kept /\ \A i \in kept : Parsed(s)[i] = s[i] /\ i \in 1 .. Len(s) /\ First(i)
  BY <1>1
<1>3. ASSUME NEW i \in kept, NEW j \in kept, s[i].name = s[j].name, i < j PROVE FALSE
  <2>1. i \in 1 .. j - 1
    BY <1>2, <1>3
  <2> QED BY <1>2, <1>3, <2>1
<1>4. ASSUME NEW i \in kept, NEW j \in kept, s[i].name = s[j].name PROVE i = j
  <2>1. i \in Nat /\ j \in Nat /\ ~(i < j) /\ ~(j < i)
    BY <1>2, <1>3, <1>4
  <2> QED BY <2>1
<1>5. \A i \in kept : s[i] \in Row
  OBVIOUS
<1> HIDE DEF kept
<1> QED BY <1>2, <1>4, <1>5

(* A name is given to one row, and each id has a last row.                 *)
LEMMA ItemFacts ==
    ASSUME NEW items \in Items
    PROVE  /\ \A i \in DOMAIN items : items[i] \in Row
           /\ \A i, j \in DOMAIN items : items[i].name = items[j].name => i = j
           /\ \A id : NamesOf(items, id) # {} =>
                  LastOf(items, id) \in DOMAIN items /\ items[LastOf(items, id)].id = id
<1>1. PICK L \in Nat : DOMAIN items \subseteq 1 .. L
  <2>1. CASE items = <<>>
    BY <2>1
  <2>2. ASSUME NEW s \in Sheets, items = Parsed(s) PROVE \E L \in Nat : DOMAIN items \subseteq 1 .. L
    <3>1. s \in Seq(Row)
      BY ConstantsOK
    <3> QED BY <2>2, <3>1, ParsedFacts
  <2> QED BY <2>1, <2>2 DEF Items
<1>2. /\ \A i \in DOMAIN items : items[i] \in Row
      /\ \A i, j \in DOMAIN items : items[i].name = items[j].name => i = j
  <2>1. CASE items = <<>>
    BY <2>1
  <2>2. ASSUME NEW s \in Sheets, items = Parsed(s)
        PROVE  /\ \A i \in DOMAIN items : items[i] \in Row
               /\ \A i, j \in DOMAIN items : items[i].name = items[j].name => i = j
    <3>1. s \in Seq(Row)
      BY ConstantsOK
    <3> QED BY <2>2, <3>1, ParsedFacts
  <2> QED BY <2>1, <2>2 DEF Items
<1>3. ASSUME NEW id, NamesOf(items, id) # {}
      PROVE  LastOf(items, id) \in DOMAIN items /\ items[LastOf(items, id)].id = id
  <2> DEFINE T == {i \in DOMAIN items : items[i].id = id}
  <2>1. T # {} /\ T \in SUBSET (1 .. L)
    BY <1>1, <1>3 DEF NamesOf
  <2> HIDE DEF T
  <2>2. \E n \in T : \A k \in T : k <= n
    BY <2>1, GreatestOfSet
  <2>3. \E n \in DOMAIN items :
            /\ items[n].id = id
            /\ \A j \in DOMAIN items : items[j].id = id => j <= n
    BY <2>2 DEF T
  <2> QED BY <2>3 DEF LastOf
<1> QED BY <1>2, <1>3

(* Which names an id has is seen in the rows that are hashed.              *)
NamesIn(index, id) == {r.name : r \in {x \in index : x.id = id}}

LEMMA IndexNames ==
    ASSUME NEW items, NEW id
    PROVE  NamesOf(items, id) = NamesIn(IndexID(items), id)
BY DEF NamesOf, NamesIn, IndexID

(* An update renames a constant of an id to a constant of the same id.     *)
LEMMA UpdateFacts ==
    ASSUME NEW before \in Items, NEW after \in Items
    PROVE  /\ \A u \in Updates(before, after) :
                  /\ u = [old |-> u.old, new |-> u.new] /\ u.old # u.new /\ u.old \in Name /\ u.new \in Name
                  /\ \E i \in DOMAIN before : before[i].name = u.old /\ u.new \in NamesOf(after, before[i].id)
           /\ \A u, v \in Updates(before, after) : u.old = v.old => u = v
<1> DEFINE Shared == {id \in KeyID : NamesOf(before, id) # {} /\ NamesOf(after, id) # {}}
           b(id) == before[LastOf(before, id)].name
           a(id) == after[LastOf(after, id)].name
           update(id) == [old |-> b(id), new |-> a(id)]
<1>1. Updates(before, after) = {update(id) : id \in {i \in Shared : update(i).old # update(i).new}}
  BY DEF Updates
<1>2. ASSUME NEW id \in Shared
      PROVE  /\ LastOf(before, id) \in DOMAIN before /\ before[LastOf(before, id)].id = id
             /\ b(id) \in Name /\ a(id) \in Name /\ a(id) \in NamesOf(after, id)
  <2>1. LastOf(before, id) \in DOMAIN before /\ before[LastOf(before, id)].id = id
    BY ItemFacts
  <2>2. LastOf(after, id) \in DOMAIN after /\ after[LastOf(after, id)].id = id
    BY ItemFacts
  <2>3. before[LastOf(before, id)] \in Row /\ after[LastOf(after, id)] \in Row
    BY <2>1, <2>2, ItemFacts
  <2> QED BY <2>1, <2>2, <2>3 DEF Row, NamesOf
<1>3. ASSUME NEW u \in Updates(before, after)
      PROVE  \E id \in Shared : u = update(id) /\ u.old = b(id) /\ u.new = a(id) /\ b(id) # a(id)
  BY <1>1
<1> HIDE DEF b, a
<1>4. ASSUME NEW u \in Updates(before, after)
      PROVE  /\ u = [old |-> u.old, new |-> u.new] /\ u.old # u.new /\ u.old \in Name /\ u.new \in Name
             /\ \E i \in DOMAIN before : before[i].name = u.old /\ u.new \in NamesOf(after, before[i].id)
  <2>1. PICK id \in Shared : u = update(id) /\ u.old = b(id) /\ u.new = a(id) /\ b(id) # a(id)
    BY <1>3
  <2> HIDE DEF Shared
  <2>2. /\ LastOf(before, id) \in DOMAIN before /\ before[LastOf(before, id)].id = id
        /\ b(id) \in Name /\ a(id) \in Name /\ a(id) \in NamesOf(after, id)
    BY <1>2
  <2>3. before[LastOf(before, id)].name = b(id)
    BY DEF b
  <2> QED BY <2>1, <2>2, <2>3
<1>5. ASSUME NEW u \in Updates(before, after), NEW v \in Updates(before, after), u.old = v.old PROVE u = v
  <2>1. PICK id \in Shared : u = update(id) /\ u.old = b(id)
    BY <1>3
  <2>2. PICK other \in Shared : v = update(other) /\ v.old = b(other)
    BY <1>3
  <2> HIDE DEF Shared
  <2>3. LastOf(before, id) = LastOf(before, other)
    <3>1. LastOf(before, id) \in DOMAIN before /\ LastOf(before, other) \in DOMAIN before
      BY <1>2
    <3>2. before[LastOf(before, id)].name = before[LastOf(before, other)].name
      BY <1>5, <2>1, <2>2 DEF b
    <3> QED BY <3>1, <3>2, ItemFacts
  <2>4. id = other
    BY <1>2, <2>3
  <2> QED BY <2>1, <2>2, <2>4
<1> QED BY <1>4, <1>5

-----------------------------------------------------------------------------
(* Text that is replaced. *)

LEMMA ReplaceNothing ==
    ASSUME NEW new, NEW term, NEW name, ~Within(term, name)
    PROVE  ReplaceFirstSubSeq(new, term, name) = name
BY DEF Within, ReplaceFirstSubSeq

LEMMA ReplaceWhole ==
    ASSUME NEW new \in Seq(Word), NEW name \in Seq(Word)
    PROVE  ReplaceFirstSubSeq(new, name, name) = new
<1> DEFINE L == Len(name)
           Ends(i) == /\ name \in SubSeqs(SubSeq(name, 1, i))
                      /\ \A j \in 0 .. i - 1 : name \notin SubSeqs(SubSeq(name, 1, j))
           last == CHOOSE i \in 0 .. L : Ends(i)
<1>1. L \in Nat
  OBVIOUS
<1>2. name \in SubSeqs(name) /\ SubSeq(name, 1, L) = name
  <2>1. SubSeq(name, 1, L) = name
    OBVIOUS
  <2>2. 0 \in 0 .. L /\ L \in 0 .. L /\ 0 + 1 = 1
    BY <1>1
  <2> QED BY <2>1, <2>2 DEF SubSeqs
<1>3. ASSUME NEW j \in 0 .. L, name \in SubSeqs(SubSeq(name, 1, j)) PROVE j = L
  <2> DEFINE prefix == SubSeq(name, 1, j)
  <2>1. Len(prefix) = j /\ j \in Nat /\ prefix \in Seq(Word) /\ name \in SubSeqs(prefix)
    BY <1>1, <1>3
  <2> HIDE DEF prefix
  <2>2. \E p, q \in 0 .. j : name = SubSeq(prefix, p + 1, q)
    BY <2>1 DEF SubSeqs
  <2>3. PICK p \in 0 .. j, q \in 0 .. j : name = SubSeq(prefix, p + 1, q)
    BY <2>2
  <2>4. Len(SubSeq(prefix, p + 1, q)) <= j
    <3>1. p + 1 \in 1 .. j + 1 /\ q \in 0 .. j
      BY <2>1
    <3> QED BY <2>1, <3>1
  <2> QED BY <1>1, <2>1, <2>3, <2>4
<1>4. last = L
  <2>1. L \in 0 .. L /\ \A j \in 0 .. L - 1 : j \in 0 .. L /\ j # L
    BY <1>1
  <2>2. Ends(L)
    BY <1>2, <1>3, <2>1
  <2>3. \A i \in 0 .. L : Ends(i) => i = L
    BY <1>3
  <2> HIDE DEF Ends
  <2> QED BY <2>1, <2>2, <2>3
<1>5. IndexFirstSubSeq(name, name) = 1
  <2>1. IndexFirstSubSeq(name, name) = last - (L - 1)
    BY DEF IndexFirstSubSeq
  <2> HIDE DEF last
  <2> QED BY <1>1, <1>4, <2>1
<1>6. ReplaceSubSeqAt(1, new, name, name) = new
  <2>1. SubSeq(name, 1, 1 - 1) = <<>> /\ SubSeq(name, 1 + L, L) = <<>>
    BY <1>1
  <2>2. <<>> \o new \o <<>> = new
    OBVIOUS
  <2> QED BY <2>1, <2>2 DEF ReplaceSubSeqAt
<1> QED BY <1>2, <1>5, <1>6 DEF ReplaceFirstSubSeq

Apart(before, after) ==
    \A u \in Updates(before, after) :
        /\ \A i \in DOMAIN before : Within(u.old, before[i].name) => before[i].name = u.old
        /\ \A i \in DOMAIN after : ~Within(u.old, after[i].name)

IsNew(after, name) == \E i \in DOMAIN after : after[i].name = name

(* A constant of the second index is not changed, one of the first that is *)
(* changed becomes a constant of the second with the same id.              *)
LEMMA RenamedMention ==
    ASSUME NEW before \in Items, NEW after \in Items, Apart(before, after),
           NEW u \in Updates(before, after), NEW id,
           NEW name \in NamesOf(before, id) \cup NamesOf(after, id)
    PROVE  /\ ReplaceFirstSubSeq(u.new, u.old, name) \in NamesOf(before, id) \cup NamesOf(after, id)
           /\ ~Within(u.old, ReplaceFirstSubSeq(u.new, u.old, name))
           /\ \A v \in Updates(before, after) :
                  ~Within(v.old, name) => ~Within(v.old, ReplaceFirstSubSeq(u.new, u.old, name))
<1> DEFINE new == ReplaceFirstSubSeq(u.new, u.old, name)
<1>1. CASE ~Within(u.old, name)
  <2>1. new = name
    BY <1>1, ReplaceNothing
  <2> HIDE DEF new
  <2>2. /\ new \in NamesOf(before, id) \cup NamesOf(after, id) /\ ~Within(u.old, new)
        /\ \A v \in Updates(before, after) : ~Within(v.old, name) => ~Within(v.old, new)
    BY <1>1, <2>1
  <2> QED BY <2>2 DEF new
<1>2. CASE Within(u.old, name)
  <2>1. name \notin NamesOf(after, id)
    BY <1>2 DEF Apart, NamesOf
  <2>2. PICK i \in DOMAIN before : before[i].name = name /\ before[i].id = id
    BY <2>1 DEF NamesOf
  <2>3. name = u.old
    BY <1>2, <2>2 DEF Apart
  <2>4. /\ u.old \in Name /\ u.new \in Name
        /\ \E j \in DOMAIN before : before[j].name = u.old /\ u.new \in NamesOf(after, before[j].id)
    BY UpdateFacts
  <2>5. PICK j \in DOMAIN before : before[j].name = u.old /\ u.new \in NamesOf(after, before[j].id)
    BY <2>4
  <2>6. i = j
    BY <2>2, <2>3, <2>5, ItemFacts
  <2>7. new = u.new
    <3>1. u.old \in Seq(Word) /\ u.new \in Seq(Word)
      BY <2>4, ConstantsOK
    <3>2. ReplaceFirstSubSeq(u.new, u.old, u.old) = u.new
      BY <3>1, ReplaceWhole
    <3> QED BY <2>3, <3>2
  <2>8. u.new \in NamesOf(after, id)
    BY <2>2, <2>5, <2>6
  <2>9. \A v \in Updates(before, after) : ~Within(v.old, u.new)
    BY <2>8 DEF Apart, NamesOf
  <2> HIDE DEF new
  <2>10. /\ new \in NamesOf(before, id) \cup NamesOf(after, id) /\ ~Within(u.old, new)
         /\ \A v \in Updates(before, after) : ~Within(v.old, name) => ~Within(v.old, new)
    BY <2>7, <2>8, <2>9
  <2> QED BY <2>10 DEF new
<1> QED BY <1>1, <1>2

(* In the file that holds the diff, an entry that was renamed renames its  *)
(* new constant to itself, and the others stay.                            *)
LEMMA RenamedEntry ==
    ASSUME NEW before \in Items, NEW after \in Items, Apart(before, after),
           NEW u \in Updates(before, after), NEW w, NEW new,
           \/ w \in Updates(before, after)
           \/ w = [old |-> w.old, new |-> w.new] /\ w.old = w.new /\ IsNew(after, w.old),
           new = [old |-> ReplaceFirstSubSeq(u.new, u.old, w.old), new |-> ReplaceFirstSubSeq(u.new, u.old, w.new)]
    PROVE  \/ new \in Updates(before, after)
           \/ new = [old |-> new.old, new |-> new.new] /\ new.old = new.new /\ IsNew(after, new.old)
<1>1. ASSUME NEW name, IsNew(after, name) PROVE ReplaceFirstSubSeq(u.new, u.old, name) = name
  <2>1. ~Within(u.old, name)
    BY <1>1 DEF IsNew, Apart
  <2> QED BY <2>1, ReplaceNothing
<1>2. ASSUME NEW v \in Updates(before, after) PROVE IsNew(after, v.new)
  <2>1. PICK i \in DOMAIN before : v.new \in NamesOf(after, before[i].id)
    BY UpdateFacts
  <2> QED BY <2>1 DEF NamesOf, IsNew
<1>3. CASE w = [old |-> w.old, new |-> w.new] /\ w.old = w.new /\ IsNew(after, w.old)
  <2>1. new = [old |-> w.old, new |-> w.old]
    BY <1>1, <1>3
  <2> QED BY <1>3, <2>1
<1>4. CASE w \in Updates(before, after) /\ w.old = u.old
  <2>1. w = u /\ u.old \in Name /\ u.new \in Name
    BY <1>4, UpdateFacts
  <2>2. ReplaceFirstSubSeq(u.new, u.old, u.old) = u.new
    BY <2>1, ConstantsOK, ReplaceWhole
  <2>3. new = [old |-> u.new, new |-> u.new]
    BY <1>1, <1>2, <2>1, <2>2
  <2> QED BY <1>2, <2>3
<1>5. CASE w \in Updates(before, after) /\ w.old # u.old
  <2>1. w = [old |-> w.old, new |-> w.new] /\ \E i \in DOMAIN before : before[i].name = w.old
    BY <1>5, UpdateFacts
  <2>2. ~Within(u.old, w.old)
    BY <1>5, <2>1 DEF Apart
  <2>3. ReplaceFirstSubSeq(u.new, u.old, w.old) = w.old
    BY <2>2, ReplaceNothing
  <2>4. new = [old |-> w.old, new |-> w.new]
    BY <1>1, <1>2, <1>5, <2>3
  <2> QED BY <1>5, <2>1, <2>4
<1> QED BY <1>3, <1>4, <1>5

-----------------------------------------------------------------------------
(* The generators, and the renames in what they have written. *)

LEMMA ItemRows == ASSUME NEW items \in Items PROVE Rows(items)
BY ItemFacts DEF Rows, Row

LEMMA NewIndex == ASSUME NEW items \in Items PROVE Kept(IndexOf(items))
BY IndexIDs, KeysOfAnIndex, ItemRows DEF Kept

LEMMA InitIndex == Init => IInv
<1> SUFFICES ASSUME Init PROVE IInv
  OBVIOUS
<1>1. sheet \in Sheets
  BY ConstantsOK DEF Init
<1>2. /\ gen = [l \in Lang |-> Idle] /\ DOMAIN keys = {}
      /\ history = {IndexOf(Parsed(sheet))}
      /\ apply = Resting /\ applies = 0 /\ failures = 0
  BY DEF Init
<1>3. Idle \in [pc : {"idle", "save", "write"}, items : Items] /\ Idle.pc = "idle"
  BY DEF Idle, Items
<1>4. GenOK
  BY <1>1, <1>2, <1>3 DEF GenOK
<1>5. ApplyOK
  BY <1>2 DEF ApplyOK, Resting
<1>6. Parsed(sheet) \in Items
  BY <1>1 DEF Items
<1>7. SavedInv
  BY <1>2, <1>3, <1>6, NewIndex DEF SavedInv
<1>8. PristineInv
  BY <1>2, IndexIDs DEF PristineInv
<1> QED BY <1>2, <1>4, <1>5, <1>7, <1>8 DEF IInv

(* What is written stays, and no index is awaited that was not before. *)
LEMMA SavedStays ==
    ASSUME SavedInv, UNCHANGED generated,
           \A m \in Lang : gen'[m].pc = "write" => gen'[m] = gen[m]
    PROVE  SavedInv'
BY DEF SavedInv, Saved, generated

LEMMA PristineStays ==
    ASSUME PristineInv, UNCHANGED generated, applies' = applies
    PROVE  PristineInv'
BY DEF PristineInv, generated

LEMMA AgreeStays ==
    ASSUME Agree, UNCHANGED <<generated, apply>>
    PROVE  Agree'
<1>1. \A t, items : Pending(t, items)' = Pending(t, items)
  BY DEF Pending, Renamed, Replaced
<1> QED BY <1>1 DEF Agree, generated

LEMMA ParseIndex ==
    ASSUME IInv, NEW l \in Lang, Parse(l) \/ KillGenerator(l)
    PROVE  IInv'
<1>1. /\ gen' = [gen EXCEPT ![l] = [pc |-> "save", items |-> Parsed(sheet)]]
         \/ gen' = [gen EXCEPT ![l] = Idle]
      /\ UNCHANGED <<sheet, regenerated, generated, consumer>>
  BY DEF Parse, KillGenerator
<1>2. Parsed(sheet) \in Items /\ Idle \in [pc : {"idle", "save", "write"}, items : Items] /\ Idle.pc = "idle"
  BY DEF IInv, GenOK, Items, Idle
<1>3. gen' \in [Lang -> [pc : {"idle", "save", "write"}, items : Items]]
  BY <1>1, <1>2 DEF IInv, GenOK
<1>4. \A m \in Lang : gen'[m].pc = "write" => gen'[m] = gen[m]
  BY <1>1, <1>2 DEF IInv, GenOK
<1>5. GenOK' /\ ApplyOK'
  BY <1>1, <1>3 DEF IInv, GenOK, ApplyOK, generated, consumer
<1>6. SavedInv' /\ PristineInv' /\ (Agree => Agree')
  BY <1>1, <1>4, SavedStays, PristineStays, AgreeStays DEF IInv, consumer
<1> QED BY <1>1, <1>5, <1>6 DEF IInv, consumer

LEMMA SaveIndexStep ==
    ASSUME IInv, NEW l \in Lang, Save(l)
    PROVE  IInv'
<1> DEFINE items == gen[l].items
<1>1. /\ gen' = [gen EXCEPT ![l].pc = "write"]
      /\ history' = {h \in history : h.id # IndexID(items)} \cup {IndexOf(items)}
      /\ regenerated' = (applies > 0)
      /\ UNCHANGED <<sheet, keys, consumer>>
  BY DEF Save, SaveIndex
<1>2. gen' \in [Lang -> [pc : {"idle", "save", "write"}, items : Items]]
      /\ \A m \in Lang : gen'[m].items = gen[m].items /\ (m # l => gen'[m] = gen[m])
  BY <1>1 DEF IInv, GenOK
<1>3. items \in Items
  BY DEF IInv, GenOK
<1>4. \A h \in history' : Kept(h)
  BY <1>1, <1>3, NewIndex DEF IInv, SavedInv
<1>5. \A id : Saved(id) => \E k \in history' : k.id = id
  BY <1>1, IndexIDs DEF Saved
<1>6. \E k \in history' : k.id = IndexID(items)
  BY <1>1, IndexIDs
<1>7. \A m \in Lang : gen'[m].pc = "write" => \E k \in history' : k.id = IndexID(gen'[m].items)
  <2> SUFFICES ASSUME NEW m \in Lang, gen'[m].pc = "write"
               PROVE  \E k \in history' : k.id = IndexID(gen'[m].items)
    OBVIOUS
  <2>1. CASE m = l
    BY <2>1, <1>2, <1>6
  <2>2. CASE m # l
    BY <2>2, <1>2, <1>5 DEF IInv, SavedInv
  <2> QED BY <2>1, <2>2
<1>8. \A m \in DOMAIN keys : Kept(keys[m]) /\ \E k \in history' : k.id = keys[m].id
  BY <1>5 DEF IInv, SavedInv
<1>9. GenOK' /\ ApplyOK'
  BY <1>1, <1>2 DEF IInv, GenOK, ApplyOK, consumer
<1>10. SavedInv'
  BY <1>1, <1>4, <1>7, <1>8 DEF SavedInv, Saved
<1>11. PristineInv'
  BY <1>1, IndexIDs DEF IInv, PristineInv, consumer
<1> QED BY <1>1, <1>9, <1>10, <1>11 DEF IInv, consumer

LEMMA WriteIndex ==
    ASSUME IInv, NEW l \in Lang, Write(l)
    PROVE  IInv'
<1>1. /\ gen[l].pc = "write"
      /\ keys' = [m \in DOMAIN keys \cup {l} |-> IF m = l THEN IndexOf(gen[l].items) ELSE keys[m]]
      /\ gen' = [gen EXCEPT ![l] = Idle]
      /\ regenerated' = (applies > 0)
      /\ UNCHANGED <<sheet, history, consumer>>
  BY DEF Write
<1>2. gen' \in [Lang -> [pc : {"idle", "save", "write"}, items : Items]]
      /\ \A m \in Lang : gen'[m].pc = "write" => gen'[m] = gen[m]
  BY <1>1 DEF IInv, GenOK, Idle, Items
<1>3. DOMAIN keys' = DOMAIN keys \cup {l} /\ keys'[l] = IndexOf(gen[l].items)
      /\ \A m \in DOMAIN keys : m # l => keys'[m] = keys[m]
  BY <1>1
<1>4. gen[l].items \in Items /\ Saved(IndexID(gen[l].items))
  BY <1>1 DEF IInv, GenOK, SavedInv
<1>5. Kept(keys'[l]) /\ Saved(keys'[l].id) /\ keys'[l].id = IndexID(keys'[l].items)
  BY <1>3, <1>4, NewIndex, IndexIDs
<1>6. \A m \in DOMAIN keys' : Kept(keys'[m]) /\ Saved(keys'[m].id)
  BY <1>3, <1>5 DEF IInv, SavedInv
<1>7. GenOK' /\ ApplyOK'
  BY <1>1, <1>2, <1>3 DEF IInv, GenOK, ApplyOK, consumer
<1>8. SavedInv'
  <2>1. \A m \in Lang : gen'[m].pc = "write" => Saved(IndexID(gen'[m].items))
    BY <1>2 DEF IInv, SavedInv
  <2>2. \A id : Saved(id)' <=> Saved(id)
    BY <1>1 DEF Saved
  <2>3. \A h \in history' : Kept(h)
    BY <1>1 DEF IInv, SavedInv
  <2> QED BY <2>1, <2>2, <2>3, <1>6 DEF SavedInv
<1>9. PristineInv'
  BY <1>1, <1>3, <1>5 DEF IInv, PristineInv, consumer
<1> QED BY <1>1, <1>7, <1>8, <1>9 DEF IInv, consumer

LEMMA StartIndex ==
    ASSUME IInv, StartApply
    PROVE  IInv'
<1>1. /\ apply.pc = "idle" /\ applies' = applies + 1
      /\ apply' = [apply EXCEPT !.pc = "rename", !.todo = {u \in diff.updates : u.old # u.new}]
      /\ UNCHANGED <<failures, generated, generators>>
  BY DEF StartApply
<1>2. /\ apply' = [pc |-> "rename", todo |-> {u \in diff.updates : u.old # u.new},
                   left |-> apply.left, rename |-> apply.rename]
      /\ apply.left = {} /\ applies \in Nat
  BY <1>1 DEF IInv, ApplyOK
<1>3. applies' \in Nat /\ applies' # 0
  <2>1. applies' = applies + 1 /\ applies \in Nat
    BY <1>1, <1>2
  <2> QED BY <2>1
<1>4. GenOK' /\ ApplyOK'
  BY <1>1, <1>2, <1>3 DEF IInv, GenOK, ApplyOK, generated, generators
<1>5. SavedInv'
  BY <1>1, SavedStays DEF IInv, generators
<1>6. PristineInv'
  BY <1>1, <1>3 DEF IInv, PristineInv, generated
<1>7. ASSUME Root, failures = 0, ~regenerated PROVE Agree'
  <2>1. /\ \A t, items : Pending(t, items)' = IndexID(items)
        /\ \A t, items : Pending(t, items) = IndexID(items)
    BY <1>2 DEF Pending
  <2>2. Agree
    <3>1. CASE applies > 0
      BY <1>7, <3>1 DEF IInv
    <3>2. CASE applies = 0
      <4> SUFFICES ASSUME NEW l \in DOMAIN keys
                   PROVE  \E h \in history : h.id = keys[l].id /\ IndexID(h.items) = IndexID(keys[l].items)
        BY <2>1 DEF Agree
      <4> QED BY <3>2 DEF IInv, SavedInv, Saved, PristineInv
    <3> QED BY <1>2, <3>1, <3>2
  <2>3. \A l \in DOMAIN keys :
           \E h \in history : h.id = keys[l].id /\ IndexID(h.items) = IndexID(keys[l].items)
    BY <2>1, <2>2 DEF Agree
  <2> QED BY <1>1, <2>1, <2>3 DEF Agree, generated
<1> QED BY <1>1, <1>4, <1>5, <1>6, <1>7 DEF IInv, generators

(* A search that did not fail has found the project's own files. *)
LEMMA SearchFindsOwn ==
    ASSUME NEW term, NEW found \in FilesContaining(term)
    PROVE  /\ ~Root => \A t \in found : \E f \in File : t = <<"file", f>>
           /\ \A l \in Lang : <<"keys", l>> \in found => l \in DOMAIN keys
           /\ Root => \A l \in DOMAIN keys : Mentions(keys[l].items, term) => <<"keys", l>> \in found
           /\ Root => \A h \in history : Mentions(h.items, term) => <<"index", h.id>> \in found
<1>1. found \in {Seen(term), Containing(term)}
  BY DEF FilesContaining
<1>2. found \subseteq Containing(term)
      /\ \A t \in Containing(term) : (\A f : t # <<"file", f>>) => t \in found
  BY <1>1 DEF Seen
<1>3. \A a, f : <<"keys", a>> # <<"file", f>> /\ <<"index", a>> # <<"file", f>> /\ <<"keys", a>> # <<"index", f>>
  OBVIOUS
<1>4. ~Root => \A t \in Containing(term) : \E f \in File : t = <<"file", f>>
  BY DEF Containing
<1>5. \A l \in Lang : <<"keys", l>> \in Containing(term) => l \in DOMAIN keys
  BY DEF Containing
<1>6. Root => \A l \in DOMAIN keys : Mentions(keys[l].items, term) => <<"keys", l>> \in Containing(term)
  BY DEF Containing
<1>7. Root => \A h \in history : Mentions(h.items, term) => <<"index", h.id>> \in Containing(term)
  BY DEF Containing
<1> QED BY <1>2, <1>3, <1>4, <1>5, <1>6, <1>7, Zenon

LEMMA NothingRenamed ==
    ASSUME NEW u, NEW items, Rows(items), ~Mentions(items, u.old)
    PROVE  {[id |-> r.id, name |-> ReplaceFirstSubSeq(u.new, u.old, r.name)] : r \in IndexID(items)} = IndexID(items)
<1>1. \A i \in DOMAIN items : ~Within(u.old, items[i].name)
  BY DEF Mentions
<1>2. \A i \in DOMAIN items :
         [id |-> items[i].id, name |-> ReplaceFirstSubSeq(u.new, u.old, items[i].name)] = items[i]
  <2> SUFFICES ASSUME NEW i \in DOMAIN items
               PROVE  [id |-> items[i].id, name |-> ReplaceFirstSubSeq(u.new, u.old, items[i].name)] = items[i]
    OBVIOUS
  <2>1. ReplaceFirstSubSeq(u.new, u.old, items[i].name) = items[i].name
    BY <1>1, ReplaceNothing
  <2> QED BY <2>1 DEF Rows
<1> QED BY <1>2 DEF IndexID

LEMMA RenameIndex ==
    ASSUME IInv, NEW u \in apply.todo, Rename(u)
    PROVE  IInv'
<1>1. /\ apply.pc = "rename" /\ apply.left = {}
      /\ UNCHANGED <<failures, applies, generated, generators>>
  BY DEF Rename
<1>2. PICK found \in FilesContaining(u.old) :
         apply' = [apply EXCEPT !.todo = @ \ {u}, !.left = found, !.rename = u]
  BY DEF Rename
<1>3. apply' = [pc |-> "rename", todo |-> apply.todo \ {u}, left |-> found, rename |-> u]
  BY <1>1, <1>2 DEF IInv, ApplyOK
<1>4. /\ ~Root => \A t \in found : \E f \in File : t = <<"file", f>>
      /\ \A l \in Lang : <<"keys", l>> \in found => l \in DOMAIN keys
      /\ Root => \A l \in DOMAIN keys : Mentions(keys[l].items, u.old) => <<"keys", l>> \in found
      /\ Root => \A h \in history : Mentions(h.items, u.old) => <<"index", h.id>> \in found
  BY SearchFindsOwn
<1>5. GenOK' /\ ApplyOK'
  BY <1>1, <1>3, <1>4 DEF IInv, GenOK, ApplyOK, generated, generators
<1>6. SavedInv' /\ PristineInv'
  BY <1>1, SavedStays, PristineStays DEF IInv, generators
<1>7. ASSUME Root, Agree PROVE Agree'
  <2> DEFINE after(items) == {[id |-> r.id, name |-> ReplaceFirstSubSeq(u.new, u.old, r.name)] : r \in IndexID(items)}
  <2>1. \A t, items : /\ Pending(t, items) = IndexID(items)
                      /\ Pending(t, items)' = IF t \in found THEN after(items) ELSE IndexID(items)
    BY <1>1, <1>3 DEF Pending, Renamed, Replaced
  <2>2. \A items : Rows(items) /\ ~Mentions(items, u.old) => after(items) = IndexID(items)
    BY NothingRenamed
  <2>3. \A i, j : IndexID(i) = IndexID(j) => after(i) = after(j)
    OBVIOUS
  <2> HIDE DEF after
  <2>4. ASSUME NEW l \in DOMAIN keys
        PROVE  \E h \in history : /\ h.id = keys[l].id
                                  /\ Pending(<<"index", h.id>>, h.items)' = Pending(<<"keys", l>>, keys[l].items)'
    <3>1. PICK h \in history : h.id = keys[l].id /\ IndexID(h.items) = IndexID(keys[l].items)
      BY <1>7, <2>1, <2>4 DEF Agree
    <3>2. Rows(h.items) /\ Rows(keys[l].items)
      BY <2>4 DEF IInv, SavedInv, Kept
    <3>3. /\ Pending(<<"index", h.id>>, h.items)' = after(h.items)
          /\ Pending(<<"keys", l>>, keys[l].items)' = after(keys[l].items)
      <4>1. Pending(<<"index", h.id>>, h.items)' = after(h.items)
        BY <1>4, <1>7, <2>1, <2>2, <3>2
      <4>2. \A items : Rows(items) /\ (Mentions(items, u.old) => <<"keys", l>> \in found)
                          => Pending(<<"keys", l>>, items)' = after(items)
        BY <2>1, <2>2
      <4>3. Mentions(keys[l].items, u.old) => <<"keys", l>> \in found
        BY <1>4, <1>7, <2>4
      <4>4. UNCHANGED keys
        BY <1>1 DEF generated
      <4> QED BY <4>1, <4>2, <4>3, <4>4, <3>2
    <3> QED BY <2>3, <3>1, <3>3
  <2> QED BY <1>1, <2>4 DEF Agree, generated
<1> QED BY <1>1, <1>5, <1>6, <1>7 DEF IInv, generators

(* A run that leaves a file as it is has failed. *)
Fails == UNCHANGED <<applies, generated, generators>> /\ failures' = failures + 1

LEMMA FailIndex ==
    ASSUME IInv, Fails,
           apply' = [pc |-> apply'.pc, todo |-> apply'.todo, left |-> apply'.left, rename |-> apply'.rename],
           apply'.pc \in {"idle", "rename"}, apply'.pc = "idle" => apply'.todo = {} /\ apply'.left = {},
           apply'.left \subseteq apply.left, applies = 0 => apply'.pc = "idle"
    PROVE  IInv' /\ failures' \in Nat /\ failures' # 0
<1>1. failures' \in Nat /\ failures' # 0
  <2>1. failures' = failures + 1 /\ failures \in Nat
    BY DEF Fails, IInv, ApplyOK
  <2> QED BY <2>1
<1>2. GenOK' /\ ApplyOK'
  BY <1>1 DEF Fails, IInv, GenOK, ApplyOK, generated, generators
<1>3. SavedInv' /\ PristineInv'
  BY SavedStays, PristineStays DEF Fails, IInv, generators
<1> QED BY <1>1, <1>2, <1>3 DEF IInv

LEMMA Failures ==
    ASSUME IInv, KillApply \/ (\E u \in apply.todo : SearchFails(u)) \/ \E t \in apply.left : SedFails(t)
    PROVE  /\ apply' = [pc |-> apply'.pc, todo |-> apply'.todo, left |-> apply'.left, rename |-> apply'.rename]
           /\ apply'.pc \in {"idle", "rename"} /\ (apply'.pc = "idle" => apply'.todo = {} /\ apply'.left = {})
           /\ apply'.todo \subseteq apply.todo /\ apply'.left \subseteq apply.left
           /\ apply'.left # {} => apply'.rename = apply.rename
           /\ apply.pc = "rename" /\ Fails /\ UNCHANGED <<diff, files, old>>
<1>1. apply = [pc |-> apply.pc, todo |-> apply.todo, left |-> apply.left, rename |-> apply.rename]
  BY DEF IInv, ApplyOK
<1>2. CASE KillApply
  BY <1>2 DEF KillApply, Resting, Fails
<1>3. ASSUME NEW u \in apply.todo, SearchFails(u)
      PROVE  /\ apply' = [pc |-> "rename", todo |-> apply.todo \ {u}, left |-> {}, rename |-> u]
             /\ apply.pc = "rename" /\ Fails /\ UNCHANGED <<diff, files, old>>
  BY <1>1, <1>3 DEF SearchFails, Fails
<1>4. ASSUME NEW t \in apply.left, SedFails(t)
      PROVE  /\ apply' = [pc |-> "rename", todo |-> apply.todo, left |-> apply.left \ {t}, rename |-> apply.rename]
             /\ apply.pc = "rename" /\ Fails /\ UNCHANGED <<diff, files, old>>
  BY <1>1, <1>4 DEF SedFails, Fails
<1>5. CASE \E u \in apply.todo : SearchFails(u)
  BY <1>3, <1>5
<1>6. CASE \E t \in apply.left : SedFails(t)
  BY <1>4, <1>6
<1> QED BY <1>2, <1>5, <1>6

LEMMA FailureIndex ==
    ASSUME IInv, KillApply \/ (\E u \in apply.todo : SearchFails(u)) \/ \E t \in apply.left : SedFails(t)
    PROVE  IInv' /\ failures' \in Nat /\ failures' # 0
<1>1. /\ apply' = [pc |-> apply'.pc, todo |-> apply'.todo, left |-> apply'.left, rename |-> apply'.rename]
      /\ apply'.pc \in {"idle", "rename"} /\ (apply'.pc = "idle" => apply'.todo = {} /\ apply'.left = {})
      /\ apply'.left \subseteq apply.left
      /\ apply.pc = "rename" /\ Fails
  BY Failures
<1>2. applies # 0
  BY <1>1 DEF IInv, ApplyOK
<1> QED BY <1>1, <1>2, FailIndex

LEMMA EndIndex ==
    ASSUME IInv, EndApply
    PROVE  IInv'
<1>1. apply.left = {} /\ apply' = Resting /\ UNCHANGED <<failures, applies, generated, generators>>
  BY DEF EndApply
<1>2. GenOK' /\ ApplyOK'
  BY <1>1 DEF IInv, GenOK, ApplyOK, Resting, generated, generators
<1>3. SavedInv' /\ PristineInv'
  BY <1>1, SavedStays, PristineStays DEF IInv, generators
<1>4. \A t, items : Pending(t, items)' = IndexID(items) /\ Pending(t, items) = IndexID(items)
  BY <1>1 DEF Pending, Resting
<1>5. Agree => Agree'
  BY <1>1, <1>4 DEF Agree, generated
<1> QED BY <1>1, <1>2, <1>3, <1>5 DEF IInv, generators

(* Which files are left once the present entry is renamed in one. *)
LEMMA SedStep ==
    ASSUME IInv, NEW t \in apply.left, ApplyWithSed(t)
    PROVE  /\ apply.pc = "rename" /\ applies # 0 /\ applies > 0
           /\ apply' = [pc |-> "rename", todo |-> apply.todo, left |-> apply.left \ {t}, rename |-> apply.rename]
           /\ UNCHANGED <<failures, old, applies, generators>>
           /\ ~Root => \E f \in File : t = <<"file", f>>
           /\ (DOMAIN keys' \subseteq Lang /\ \A l \in Lang : <<"keys", l>> \in apply'.left => l \in DOMAIN keys') => ApplyOK'
           /\ \A id, items : Pending(id, items)' = IF id \in apply.left \ {t} THEN Renamed(IndexID(items)) ELSE IndexID(items)
<1>1. /\ apply.pc = "rename" /\ apply' = [apply EXCEPT !.left = @ \ {t}]
      /\ UNCHANGED <<failures, old, applies, generators>>
  BY DEF ApplyWithSed
<1>2. /\ apply = [pc |-> apply.pc, todo |-> apply.todo, left |-> apply.left, rename |-> apply.rename]
      /\ applies \in Nat /\ applies # 0 /\ failures \in Nat
      /\ ~Root => \A o \in apply.left : \E f \in File : o = <<"file", f>>
  BY <1>1 DEF IInv, ApplyOK
<1>3. applies > 0
  <2>1. applies \in Nat /\ applies # 0
    BY <1>2
  <2> QED BY <2>1
<1>4. apply' = [pc |-> "rename", todo |-> apply.todo, left |-> apply.left \ {t}, rename |-> apply.rename]
  BY <1>1, <1>2
<1>5. (DOMAIN keys' \subseteq Lang /\ \A l \in Lang : <<"keys", l>> \in apply'.left => l \in DOMAIN keys') => ApplyOK'
  BY <1>1, <1>2, <1>4 DEF ApplyOK
<1>6. \A index : Renamed(index)' = Renamed(index)
  BY <1>4 DEF Renamed, Replaced
<1>7. \A id, items : Pending(id, items)' = IF id \in apply.left \ {t} THEN Renamed(IndexID(items)) ELSE IndexID(items)
  BY <1>4, <1>6 DEF Pending
<1> QED BY <1>1, <1>2, <1>3, <1>4, <1>5, <1>7

LEMMA FileIndex ==
    ASSUME IInv, NEW f, <<"file", f>> \in apply.left, ApplyWithSed(<<"file", f>>)
    PROVE  IInv'
<1> DEFINE t == <<"file", f>>
<1>1. UNCHANGED generated
  BY DEF ApplyWithSed, generated
<1>2. \A l : <<"keys", l>> # t /\ <<"index", l>> # t
  OBVIOUS
<1> HIDE DEF t
<1>3. t \in apply.left /\ ApplyWithSed(t)
  BY DEF t
<1>4. /\ apply' = [pc |-> "rename", todo |-> apply.todo, left |-> apply.left \ {t}, rename |-> apply.rename]
      /\ UNCHANGED <<failures, applies, generators>>
      /\ (DOMAIN keys' \subseteq Lang /\ \A l \in Lang : <<"keys", l>> \in apply'.left => l \in DOMAIN keys') => ApplyOK'
      /\ \A id, items : Pending(id, items)' = IF id \in apply.left \ {t} THEN Renamed(IndexID(items)) ELSE IndexID(items)
  BY <1>3, SedStep
<1>5. GenOK' /\ ApplyOK'
  BY <1>1, <1>4 DEF IInv, GenOK, ApplyOK, generated, generators
<1>6. SavedInv' /\ PristineInv'
  BY <1>1, <1>4, SavedStays, PristineStays DEF IInv, generators
<1>7. Agree => Agree'
  <2>1. \A l, items : /\ Pending(<<"keys", l>>, items)' = Pending(<<"keys", l>>, items)
                      /\ Pending(<<"index", l>>, items)' = Pending(<<"index", l>>, items)
    BY <1>2, <1>4 DEF Pending
  <2>2. ASSUME Agree, NEW l \in DOMAIN keys
        PROVE  \E h \in history : /\ h.id = keys[l].id
                                  /\ Pending(<<"index", h.id>>, h.items)' = Pending(<<"keys", l>>, keys[l].items)'
    <3>1. PICK h \in history : /\ h.id = keys[l].id
                               /\ Pending(<<"index", h.id>>, h.items) = Pending(<<"keys", l>>, keys[l].items)
      BY <2>2 DEF Agree
    <3>2. Pending(<<"keys", l>>, keys[l].items)' = Pending(<<"keys", l>>, keys[l].items)
      BY <1>1, <2>1 DEF generated
    <3> QED BY <2>1, <3>1, <3>2
  <2> QED BY <1>1, <2>2 DEF Agree, generated
<1> QED BY <1>4, <1>5, <1>6, <1>7 DEF IInv, generators

LEMMA KeysIndex ==
    ASSUME IInv, NEW l \in Lang, <<"keys", l>> \in apply.left, ApplyWithSed(<<"keys", l>>)
    PROVE  IInv'
<1> DEFINE t == <<"keys", l>>
<1>1. keys' = [keys EXCEPT ![l] = SedIndex(keys[l])] /\ UNCHANGED history
  BY DEF ApplyWithSed
<1>2. \A m : <<"file", m>> # t /\ <<"index", m>> # t /\ (<<"keys", m>> = t <=> m = l)
  OBVIOUS
<1> HIDE DEF t
<1>3. t \in apply.left /\ ApplyWithSed(t)
  BY DEF t
<1>4. /\ applies # 0 /\ applies > 0
      /\ apply' = [pc |-> "rename", todo |-> apply.todo, left |-> apply.left \ {t}, rename |-> apply.rename]
      /\ UNCHANGED <<failures, applies, generators>>
      /\ ~Root => \E f \in File : t = <<"file", f>>
      /\ (DOMAIN keys' \subseteq Lang /\ \A m \in Lang : <<"keys", m>> \in apply'.left => m \in DOMAIN keys') => ApplyOK'
      /\ \A id, items : Pending(id, items)' = IF id \in apply.left \ {t} THEN Renamed(IndexID(items)) ELSE IndexID(items)
  BY <1>3, SedStep
<1>5. Root
  BY <1>2, <1>4
<1>6. /\ DOMAIN keys' = DOMAIN keys /\ (l \in DOMAIN keys => keys'[l] = SedIndex(keys[l]))
      /\ \A m \in DOMAIN keys : m # l => keys'[m] = keys[m]
  BY <1>1
<1>7. l \in DOMAIN keys /\ Kept(keys[l]) /\ Saved(keys[l].id)
  BY DEF IInv, ApplyOK, SavedInv
<1>8. Kept(keys'[l]) /\ keys'[l].id = keys[l].id /\ keys'[l].items = Sed(keys[l].items)
  BY <1>6, <1>7, SedKeeps
<1>9. GenOK' /\ ApplyOK'
  <2>1. \A m \in Lang : <<"keys", m>> \in apply'.left => m \in DOMAIN keys'
    BY <1>2, <1>4, <1>6 DEF IInv, ApplyOK
  <2> QED BY <1>4, <1>6, <2>1 DEF IInv, GenOK, generators
<1>10. SavedInv'
  <2>1. \A m \in DOMAIN keys' : Kept(keys'[m]) /\ Saved(keys'[m].id)
    BY <1>6, <1>7, <1>8 DEF IInv, SavedInv
  <2> QED BY <1>1, <1>4, <2>1 DEF IInv, SavedInv, Saved, generators
<1>11. PristineInv'
  BY <1>4, <1>5 DEF PristineInv
<1>12. ASSUME Agree PROVE Agree'
  <2>1. ASSUME NEW m \in DOMAIN keys'
        PROVE  \E h \in history : /\ h.id = keys'[m].id
                                  /\ Pending(<<"index", h.id>>, h.items)' = Pending(<<"keys", m>>, keys[m].items)
    <3>1. m \in DOMAIN keys /\ keys'[m].id = keys[m].id
      BY <1>6, <1>7, <1>8, <2>1
    <3>2. PICK h \in history : /\ h.id = keys[m].id
                               /\ Pending(<<"index", h.id>>, h.items) = Pending(<<"keys", m>>, keys[m].items)
      BY <1>12, <3>1 DEF Agree
    <3>3. Pending(<<"index", h.id>>, h.items)' = Pending(<<"index", h.id>>, h.items)
      BY <1>2, <1>4 DEF Pending
    <3> QED BY <3>1, <3>2, <3>3
  <2>2. \A m \in DOMAIN keys : Pending(<<"keys", m>>, keys[m].items)' = Pending(<<"keys", m>>, keys[m].items)
    <3> SUFFICES ASSUME NEW m \in DOMAIN keys
                 PROVE  Pending(<<"keys", m>>, keys[m].items)' = Pending(<<"keys", m>>, keys[m].items)
      OBVIOUS
    <3>1. CASE m = l
      <4> DEFINE items == keys[l].items
                 after == keys'[l].items
      <4>1. Pending(<<"keys", l>>, keys[l].items)' = IF t \in apply.left \ {t} THEN Renamed(IndexID(after)) ELSE IndexID(after)
        BY <1>4, <1>2
      <4>2. after = Sed(items)
        BY <1>8
      <4>3. IndexID(Sed(items)) = Renamed(IndexID(items))
        BY SedRows
      <4>4. Pending(<<"keys", l>>, items) = Renamed(IndexID(items))
        BY <1>2, <1>3 DEF Pending
      <4> QED BY <3>1, <4>1, <4>2, <4>3, <4>4
    <3>2. CASE m # l
      BY <1>2, <1>4, <1>6, <3>2 DEF Pending
    <3> QED BY <3>1, <3>2
  <2>3. ASSUME NEW m \in DOMAIN keys'
        PROVE  \E h \in history : /\ h.id = keys'[m].id
                                  /\ Pending(<<"index", h.id>>, h.items)' = Pending(<<"keys", m>>, keys[m].items)'
    <3>1. m \in DOMAIN keys
      BY <1>6, <2>3
    <3>2. Pending(<<"keys", m>>, keys[m].items)' = Pending(<<"keys", m>>, keys[m].items)
      BY <2>2, <3>1
    <3>3. PICK h \in history : /\ h.id = keys'[m].id
                               /\ Pending(<<"index", h.id>>, h.items)' = Pending(<<"keys", m>>, keys[m].items)
      BY <2>1
    <3> QED BY <3>2, <3>3
  <2> QED BY <1>1, <2>3 DEF Agree
<1> QED BY <1>4, <1>9, <1>10, <1>11, <1>12 DEF IInv, generators

LEMMA SavedIndexIndex ==
    ASSUME IInv, NEW g \in history, <<"index", g.id>> \in apply.left, ApplyWithSed(<<"index", g.id>>)
    PROVE  IInv'
<1> DEFINE t == <<"index", g.id>>
           after(k) == IF k.id = g.id THEN SedIndex(k) ELSE k
<1>1. history' = {after(k) : k \in history} /\ UNCHANGED keys
  BY DEF ApplyWithSed
<1>2. \A m : <<"file", m>> # t /\ <<"keys", m>> # t /\ (<<"index", m>> = t <=> m = g.id)
  OBVIOUS
<1>3. \A k \in history : after(k).id = k.id /\ Kept(after(k))
  <2> SUFFICES ASSUME NEW k \in history PROVE after(k).id = k.id /\ Kept(after(k))
    OBVIOUS
  <2>1. Kept(k)
    BY DEF IInv, SavedInv
  <2>2. Kept(SedIndex(k)) /\ SedIndex(k).id = k.id
    BY <2>1, SedKeeps
  <2> QED BY <2>1, <2>2
<1>4. \A k \in history : /\ k.id = g.id => after(k).items = Sed(k.items)
                         /\ k.id # g.id => after(k).items = k.items
  <2> SUFFICES ASSUME NEW k \in history
               PROVE  /\ k.id = g.id => after(k).items = Sed(k.items)
                      /\ k.id # g.id => after(k).items = k.items
    OBVIOUS
  <2>1. Kept(k)
    BY DEF IInv, SavedInv
  <2>2. SedIndex(k).items = Sed(k.items)
    BY <2>1, SedKeeps
  <2> QED BY <2>2
<1> HIDE DEF t, after
<1>5. t \in apply.left /\ ApplyWithSed(t)
  BY DEF t
<1>6. /\ applies # 0 /\ applies > 0
      /\ apply' = [pc |-> "rename", todo |-> apply.todo, left |-> apply.left \ {t}, rename |-> apply.rename]
      /\ UNCHANGED <<failures, applies, generators>>
      /\ ~Root => \E f \in File : t = <<"file", f>>
      /\ (DOMAIN keys' \subseteq Lang /\ \A m \in Lang : <<"keys", m>> \in apply'.left => m \in DOMAIN keys') => ApplyOK'
      /\ \A id, items : Pending(id, items)' = IF id \in apply.left \ {t} THEN Renamed(IndexID(items)) ELSE IndexID(items)
  BY <1>5, SedStep
<1>7. Root
  BY <1>2, <1>6
<1>8. GenOK' /\ ApplyOK'
  BY <1>1, <1>6 DEF IInv, GenOK, ApplyOK, generators
<1>9. SavedInv'
  <2>1. \A id : Saved(id) => Saved(id)'
    BY <1>1, <1>3 DEF Saved
  <2>2. \A h \in history' : Kept(h)
    BY <1>1, <1>3
  <2> QED BY <1>1, <1>6, <2>1, <2>2 DEF IInv, SavedInv, generators
<1>10. PristineInv'
  BY <1>6, <1>7 DEF PristineInv
<1>11. ASSUME Agree PROVE Agree'
  <2>1. \A k \in history : \A items : items = after(k).items =>
            Pending(<<"index", k.id>>, items)' = Pending(<<"index", k.id>>, k.items)
    <3> SUFFICES ASSUME NEW k \in history
                 PROVE  \A items : items = after(k).items =>
                           Pending(<<"index", k.id>>, items)' = Pending(<<"index", k.id>>, k.items)
      OBVIOUS
    <3>1. CASE k.id = g.id
      <4>1. \A items : Pending(<<"index", k.id>>, items)' = IndexID(items)
        BY <1>2, <1>6, <3>1
      <4>2. IndexID(Sed(k.items)) = Renamed(IndexID(k.items))
        BY SedRows
      <4>3. Pending(<<"index", k.id>>, k.items) = Renamed(IndexID(k.items))
        BY <1>2, <1>5, <3>1 DEF Pending
      <4> QED BY <1>4, <3>1, <4>1, <4>2, <4>3
    <3>2. CASE k.id # g.id
      BY <1>2, <1>4, <1>6, <3>2 DEF Pending
    <3> QED BY <3>1, <3>2
  <2>2. ASSUME NEW m \in DOMAIN keys
        PROVE  \E h \in history' : /\ h.id = keys[m].id
                                   /\ Pending(<<"index", h.id>>, h.items)' = Pending(<<"keys", m>>, keys[m].items)'
    <3>1. PICK k \in history : /\ k.id = keys[m].id
                               /\ Pending(<<"index", k.id>>, k.items) = Pending(<<"keys", m>>, keys[m].items)
      BY <1>11 DEF Agree
    <3>2. \A items : Pending(<<"keys", m>>, items)' = Pending(<<"keys", m>>, items)
      BY <1>2, <1>6 DEF Pending
    <3>3. Pending(<<"keys", m>>, keys[m].items)' = Pending(<<"keys", m>>, keys[m].items)
      BY <1>1, <3>2
    <3>4. after(k) \in history' /\ after(k).id = k.id
      BY <1>1, <1>3
    <3>5. \A h : h = after(k) => Pending(<<"index", h.id>>, h.items)' = Pending(<<"index", k.id>>, k.items)
      BY <2>1, <3>4
    <3> QED BY <3>1, <3>3, <3>4, <3>5
  <2> QED BY <1>1, <2>2 DEF Agree
<1> QED BY <1>6, <1>8, <1>9, <1>10, <1>11 DEF IInv, generators

LEMMA NextIndex == IInv /\ [Next]_vars => IInv'
<1> SUFFICES ASSUME IInv, [Next]_vars PROVE IInv'
  OBVIOUS
<1>1. ASSUME gen' = gen, sheet' \in Sheets, UNCHANGED <<regenerated, generated, consumer>> PROVE IInv'
  <2>1. GenOK' /\ ApplyOK'
    BY <1>1 DEF IInv, GenOK, ApplyOK, generated, consumer
  <2>2. SavedInv' /\ PristineInv' /\ (Agree => Agree')
    BY <1>1, SavedStays, PristineStays, AgreeStays DEF IInv, consumer
  <2> QED BY <1>1, <2>1, <2>2 DEF IInv, consumer
<1>2. ASSUME NEW s \in Sheets, EditSheet(s) PROVE IInv'
  BY <1>1, <1>2 DEF EditSheet
<1>3. ASSUME NEW l \in Lang, Parse(l) \/ Save(l) \/ Write(l) \/ KillGenerator(l) PROVE IInv'
  BY <1>3, ParseIndex, SaveIndexStep, WriteIndex
<1>4. ASSUME NEW from \in history, NEW to \in history, Diff(from, to) PROVE IInv'
  <2>1. UNCHANGED <<apply, failures, applies, generated, generators>>
    BY <1>4 DEF Diff
  <2>2. GenOK' /\ ApplyOK'
    BY <2>1 DEF IInv, GenOK, ApplyOK, generated, generators
  <2>3. SavedInv' /\ PristineInv' /\ (Agree => Agree')
    BY <2>1, SavedStays, PristineStays, AgreeStays DEF IInv, generators
  <2> QED BY <2>1, <2>2, <2>3 DEF IInv, generators
<1>5. ASSUME NEW u \in apply.todo, Rename(u) PROVE IInv'
  BY <1>5, RenameIndex
<1>6. CASE KillApply \/ (\E u \in apply.todo : SearchFails(u)) \/ \E t \in apply.left : SedFails(t)
  BY <1>6, FailureIndex
<1>7. ASSUME NEW t \in apply.left, ApplyWithSed(t) PROVE IInv'
  <2>1. \/ \E f : t = <<"file", f>>
        \/ \E l \in Lang : t = <<"keys", l>>
        \/ \E g \in history : t = <<"index", g.id>>
    <3>1. \/ \E f : t = <<"file", f>>
          \/ \E l \in DOMAIN keys : t = <<"keys", l>>
          \/ \E g \in history : t = <<"index", g.id>>
      BY <1>7 DEF ApplyWithSed
    <3> QED BY <3>1 DEF IInv, GenOK
  <2> QED BY <1>7, <2>1, FileIndex, KeysIndex, SavedIndexIndex
<1>8. CASE UNCHANGED vars
  BY <1>1, <1>8 DEF vars, generators, IInv, GenOK
<1> QED BY <1>2, <1>3, <1>4, <1>5, <1>6, <1>7, <1>8, StartIndex, EndIndex DEF Next

(* Whatever is interrupted and however the generators overlap, the index   *)
(* that a file of constants names has been saved with its keys, and where  *)
(* all renames were made, or none in the project, with its constants.      *)
THEOREM KeysHaveAnIndex == Spec => []IndexBeforeKeys
<1>1. ASSUME IInv PROVE IndexBeforeKeys
  <2> SUFFICES ASSUME NEW l \in DOMAIN keys
               PROVE  \E h \in history :
                        /\ h.id = keys[l].id
                        /\ KeyIDs(h.items) = KeyIDs(keys[l].items)
                        /\ ~Root \/ (apply.pc = "idle" /\ failures = 0 /\ ~regenerated) =>
                              IndexID(h.items) = IndexID(keys[l].items)
    BY DEF IndexBeforeKeys
  <2>1. \A h \in history : h.id = keys[l].id => KeyIDs(h.items) = KeyIDs(keys[l].items)
    BY <1>1 DEF IInv, SavedInv, Kept
  <2>2. PICK g \in history : g.id = keys[l].id
    BY <1>1 DEF IInv, SavedInv, Saved
  <2>3. CASE ~Root \/ applies = 0
    <3>1. IndexID(g.items) = IndexID(keys[l].items)
      BY <1>1, <2>2, <2>3 DEF IInv, PristineInv
    <3> QED BY <2>1, <2>2, <3>1
  <2>4. CASE Root /\ applies > 0 /\ apply.pc = "idle" /\ failures = 0 /\ ~regenerated
    <3>1. Agree /\ apply.left = {}
      BY <1>1, <2>4 DEF IInv, ApplyOK
    <3> QED BY <2>1, <3>1 DEF Agree, Pending
  <2>5. applies = 0 \/ applies > 0
    <3>1. applies \in Nat
      BY <1>1 DEF IInv, ApplyOK
    <3> QED BY <3>1
  <2> QED BY <2>1, <2>2, <2>3, <2>4, <2>5
<1> QED BY <1>1, InitIndex, NextIndex, PTL DEF Spec

-----------------------------------------------------------------------------
(* The consumer.  Its files use the constants of the first index until a   *)
(* diff is made, and of either index of the diff afterwards.               *)

ShapeInv ==
    /\ ~diff.made => \A h \in history : h.items \in Items
    /\ DOMAIN files = File \ {DiffFile}
    /\ diff = [made |-> diff.made, from |-> diff.from, to |-> diff.to, updates |-> diff.updates]
    /\ diff.made \in BOOLEAN

DiffInv ==
    /\ ~diff.made =>
           /\ applies = 0
           /\ \A f \in File \ {DiffFile} : \A i \in DOMAIN files[f] :
                  files[f][i].name \in NamesIn(old, files[f][i].id)
    /\ diff.made =>
           /\ diff.from.items \in Items /\ diff.to.items \in Items
           /\ applies = 0 => diff.updates = Updates(diff.from.items, diff.to.items)

(* Update u has been made in file f, or a run that was not interrupted is  *)
(* still going to make it.                                                 *)
Made(u, f) == \A i \in DOMAIN files[f] : ~Within(u.old, files[f][i].name)
ToMake(u, f) == u \in apply.todo \/ (u = apply.rename /\ <<"file", f>> \in apply.left)

(* The files that every search sees. *)
Searched == File \ (Hidden \cup {DiffFile})

RenameInv ==
    diff.made /\ Independent =>
        /\ RenamesKeepIds
        /\ \A w \in diff.updates :
               \/ w \in Updates(diff.from.items, diff.to.items)
               \/ w = [old |-> w.old, new |-> w.new] /\ w.old = w.new /\ IsNew(diff.to.items, w.old)
        /\ apply.todo \subseteq Updates(diff.from.items, diff.to.items)
        /\ apply.left # {} => apply.rename \in Updates(diff.from.items, diff.to.items)
        /\ applies > 0 /\ failures = 0 =>
               \A u \in Updates(diff.from.items, diff.to.items) : \A f \in Searched :
                   Made(u, f) \/ ToMake(u, f)

ConsumerInv == IInv /\ ShapeInv /\ DiffInv /\ RenameInv

LEMMA IndependentApart == Independent <=> Apart(diff.from.items, diff.to.items)
BY DEF Independent, Apart

LEMMA ApartIsKept ==
    ASSUME diff'.from = diff.from, diff'.to = diff.to
    PROVE  /\ Independent' <=> Independent
           /\ Updates(diff.from.items, diff.to.items)' = Updates(diff.from.items, diff.to.items)
<1>1. Updates(diff.from.items, diff.to.items)' = Updates(diff'.from.items, diff'.to.items)
  OBVIOUS
<1>2. Independent' <=> Apart(diff'.from.items, diff'.to.items)
  BY DEF Independent, Apart
<1> QED BY <1>1, <1>2, IndependentApart

LEMMA InitConsumer == Init => ConsumerInv
<1> SUFFICES ASSUME Init PROVE ConsumerInv
  OBVIOUS
<1> DEFINE items == Parsed(sheet)
           mention(f, i) == [id |-> Uses[f][i], name |-> items[LastOf(items, Uses[f][i])].name]
<1>1. /\ sheet \in FirstSheets /\ \A id \in KeyID : NamesOf(items, id) # {}
      /\ old = IndexID(items) /\ history = {IndexOf(items)} /\ diff = NoDiff
      /\ files = [f \in File \ {DiffFile} |-> [i \in DOMAIN Uses[f] |-> mention(f, i)]]
      /\ apply = Resting /\ applies = 0
  BY DEF Init
<1>2. items \in Items
  BY <1>1, ConstantsOK DEF Items
<1> HIDE DEF items
<1>3. ASSUME NEW f \in File \ {DiffFile}, NEW i \in DOMAIN files[f]
      PROVE  /\ files[f][i] = [id |-> files[f][i].id, name |-> files[f][i].name]
             /\ files[f][i].name \in NamesIn(old, files[f][i].id)
  <2>1. files[f] = [j \in DOMAIN Uses[f] |-> mention(f, j)]
    BY <1>1
  <2>2. i \in DOMAIN Uses[f] /\ files[f][i] = mention(f, i)
    BY <2>1
  <2>3. Uses[f][i] \in KeyID
    BY <2>2, ConstantsOK
  <2>4. LastOf(items, Uses[f][i]) \in DOMAIN items /\ items[LastOf(items, Uses[f][i])].id = Uses[f][i]
    BY <1>1, <1>2, <2>3, ItemFacts
  <2>5. items[LastOf(items, Uses[f][i])].name \in NamesOf(items, Uses[f][i])
    BY <2>4 DEF NamesOf
  <2>6. items[LastOf(items, Uses[f][i])].name \in NamesIn(old, Uses[f][i])
    BY <2>5, <1>1, IndexNames
  <2> QED BY <2>2, <2>6
<1>4. DOMAIN files = File \ {DiffFile}
  BY <1>1
<1>5. \A h \in history : h.items \in Items
  BY <1>1, <1>2, IndexIDs
<1>6. ShapeInv
  BY <1>1, <1>3, <1>4, <1>5 DEF ShapeInv, NoDiff
<1>7. DiffInv
  <2>1. ~diff.made
    BY <1>1 DEF NoDiff
  <2>2. \A f \in File \ {DiffFile} : \A i \in DOMAIN files[f] :
            files[f][i].name \in NamesIn(old, files[f][i].id)
    BY <1>3
  <2> HIDE DEF mention
  <2> QED BY <1>1, <2>1, <2>2 DEF DiffInv
<1>8. RenameInv
  BY <1>1 DEF RenameInv, NoDiff
<1> QED BY <1>6, <1>7, <1>8, InitIndex DEF ConsumerInv

LEMMA GeneratorConsumer ==
    ASSUME ConsumerInv, [Next]_vars, UNCHANGED consumer, ~diff.made => \A h \in history' : h.items \in Items
    PROVE  ConsumerInv'
<1>1. UNCHANGED <<diff, files, apply, failures, old, applies>>
  BY DEF consumer
<1>2. IInv'
  BY NextIndex DEF ConsumerInv
<1>3. ShapeInv'
  BY <1>1 DEF ConsumerInv, ShapeInv
<1>4. DiffInv'
  BY <1>1 DEF ConsumerInv, DiffInv
<1>5. RenameInv'
  BY <1>1 DEF ConsumerInv, RenameInv, RenamesKeepIds, Independent, Made, ToMake
<1> QED BY <1>2, <1>3, <1>4, <1>5 DEF ConsumerInv

LEMMA SaveConsumer ==
    ASSUME ConsumerInv, NEW l \in Lang, Save(l)
    PROVE  ConsumerInv'
<1>1. /\ history' = {h \in history : h.id # IndexID(gen[l].items)} \cup {IndexOf(gen[l].items)}
      /\ UNCHANGED consumer
  BY DEF Save, SaveIndex
<1>2. gen[l].items \in Items /\ (~diff.made => \A h \in history : h.items \in Items)
  BY DEF ConsumerInv, IInv, GenOK, ShapeInv
<1>3. ~diff.made => \A h \in history' : h.items \in Items
  BY <1>1, <1>2, IndexIDs
<1>4. Next
  BY DEF Next
<1> QED BY <1>1, <1>3, <1>4, GeneratorConsumer

LEMMA DiffConsumer ==
    ASSUME ConsumerInv, NEW from \in history, NEW to \in history, Diff(from, to)
    PROVE  ConsumerInv'
<1>1. /\ ~diff.made /\ from.id = old
      /\ diff' = [made |-> TRUE, from |-> from, to |-> to, updates |-> Updates(from.items, to.items)]
      /\ UNCHANGED <<files, apply, failures, old, applies, generated, generators>>
  BY DEF Diff
<1>2. UNCHANGED history
  BY <1>1 DEF generated
<1>3. /\ diff'.made /\ diff'.from = from /\ diff'.to = to
      /\ diff'.updates = Updates(from.items, to.items)
  BY <1>1
<1>4. applies = 0 /\ apply.todo = {} /\ apply.left = {}
  BY <1>1 DEF ConsumerInv, DiffInv, IInv, ApplyOK
<1>5. from.items \in Items /\ to.items \in Items /\ old = IndexID(from.items)
  BY <1>1, <1>4 DEF ConsumerInv, ShapeInv, IInv, PristineInv
<1>6. \A f \in File \ {DiffFile} : \A i \in DOMAIN files[f] :
          files[f][i].name \in NamesOf(from.items, files[f][i].id)
  BY <1>1, <1>5, IndexNames DEF ConsumerInv, DiffInv
<1>7. IInv'
  BY NextIndex DEF Next, ConsumerInv
<1>8. ShapeInv'
  BY <1>1, <1>2 DEF ConsumerInv, ShapeInv
<1>9. DiffInv'
  BY <1>3, <1>5 DEF DiffInv
<1>10. RenameInv'
  BY <1>1, <1>3, <1>4, <1>6 DEF RenameInv, RenamesKeepIds
<1> QED BY <1>7, <1>8, <1>9, <1>10 DEF ConsumerInv

LEMMA StartConsumer ==
    ASSUME ConsumerInv, StartApply
    PROVE  ConsumerInv'
<1>1. /\ diff.made /\ apply.pc = "idle"
      /\ apply' = [apply EXCEPT !.pc = "rename", !.todo = {u \in diff.updates : u.old # u.new}]
      /\ applies' = applies + 1
      /\ UNCHANGED <<diff, files, failures, old, generated, generators>>
  BY DEF StartApply
<1>2. UNCHANGED history
  BY <1>1 DEF generated
<1>3. /\ apply' = [pc |-> "rename", todo |-> {u \in diff.updates : u.old # u.new},
                   left |-> apply.left, rename |-> apply.rename]
      /\ apply.todo = {} /\ apply.left = {} /\ applies \in Nat
  BY <1>1 DEF ConsumerInv, IInv, ApplyOK
<1>4. applies' \in Nat /\ applies' # 0 /\ applies' > 0
  <2>1. applies' = applies + 1 /\ applies \in Nat
    BY <1>1, <1>3
  <2> QED BY <2>1
<1>5. IInv'
  BY NextIndex DEF Next, ConsumerInv
<1>6. ShapeInv'
  BY <1>1, <1>2 DEF ConsumerInv, ShapeInv
<1>7. DiffInv'
  BY <1>1, <1>4 DEF ConsumerInv, DiffInv
<1>8. RenameInv'
  <2> SUFFICES ASSUME diff'.made, Independent' PROVE RenameInv'
    BY DEF RenameInv
  <2> DEFINE U == Updates(diff.from.items, diff.to.items)
  <2>1. Independent /\ Updates(diff.from.items, diff.to.items)' = U
    BY <1>1, ApartIsKept
  <2>2. /\ RenamesKeepIds
        /\ \A w \in diff.updates :
               \/ w \in U
               \/ w = [old |-> w.old, new |-> w.new] /\ w.old = w.new /\ IsNew(diff.to.items, w.old)
        /\ applies > 0 /\ failures = 0 => \A u \in U : \A f \in Searched : Made(u, f)
    BY <1>1, <1>3, <2>1 DEF ConsumerInv, RenameInv, ToMake
  <2>3. applies = 0 => apply'.todo = U
    <3>1. diff.from.items \in Items /\ diff.to.items \in Items /\ (applies = 0 => diff.updates = U)
      BY <1>1 DEF ConsumerInv, DiffInv
    <3>2. \A u \in U : u.old # u.new
      BY <3>1, UpdateFacts
    <3> QED BY <1>3, <3>1, <3>2
  <2> HIDE DEF U
  <2>4. failures = 0 => \A u \in U : \A f \in Searched : Made(u, f) \/ u \in apply'.todo
    <3>1. applies = 0 \/ applies > 0
      BY <1>3
    <3> QED BY <2>2, <2>3, <3>1
  <2>5. RenamesKeepIds'
    BY <1>1, <2>1, <2>2 DEF RenamesKeepIds
  <2>6. apply'.todo \subseteq U /\ apply'.left = {}
    BY <1>3, <2>2
  <2>7. failures' = 0 => \A u \in U : \A f \in Searched : Made(u, f)' \/ ToMake(u, f)'
    BY <1>1, <2>4 DEF Made, ToMake
  <2>8. \A w \in diff'.updates :
               \/ w \in U
               \/ w = [old |-> w.old, new |-> w.new] /\ w.old = w.new /\ IsNew(diff'.to.items, w.old)
    BY <1>1, <2>2
  <2> QED BY <2>1, <2>5, <2>6, <2>7, <2>8 DEF RenameInv
<1> QED BY <1>5, <1>6, <1>7, <1>8 DEF ConsumerInv

LEMMA SearchFinds ==
    ASSUME NEW term, NEW found \in FilesContaining(term), NEW f \in Searched, <<"file", f>> \notin found
    PROVE  \A i \in DOMAIN files[f] : ~Within(term, files[f][i].name)
<1>1. found \in {Seen(term), Containing(term)}
  BY DEF FilesContaining
<1>2. \A g \in Hidden : <<"file", f>> # <<"file", g>>
  BY DEF Searched
<1>3. <<"file", f>> \notin Containing(term)
  BY <1>1, <1>2 DEF Seen
<1>4. f \in File \ {DiffFile}
  BY DEF Searched
<1>5. ~Mentions(files[f], term)
  BY <1>3, <1>4 DEF Containing
<1> QED BY <1>5 DEF Mentions

LEMMA RenameConsumer ==
    ASSUME ConsumerInv, NEW u \in apply.todo, Rename(u)
    PROVE  ConsumerInv'
<1>1. /\ apply.pc = "rename" /\ apply.left = {}
      /\ UNCHANGED <<diff, files, failures, old, applies, generated, generators>>
  BY DEF Rename
<1>2. PICK found \in FilesContaining(u.old) :
         apply' = [apply EXCEPT !.todo = @ \ {u}, !.left = found, !.rename = u]
  BY DEF Rename
<1>3. apply' = [pc |-> "rename", todo |-> apply.todo \ {u}, left |-> found, rename |-> u]
  BY <1>1, <1>2 DEF ConsumerInv, IInv, ApplyOK
<1>4. \A f \in Searched : <<"file", f>> \notin found => Made(u, f)
  BY SearchFinds DEF Made
<1>5. IInv'
  BY NextIndex DEF Next, ConsumerInv
<1>6. ShapeInv'
  BY <1>1 DEF ConsumerInv, ShapeInv, generated
<1>7. DiffInv'
  BY <1>1 DEF ConsumerInv, DiffInv
<1>8. RenameInv'
  <2> SUFFICES ASSUME diff'.made, Independent' PROVE RenameInv'
    BY DEF RenameInv
  <2> DEFINE U == Updates(diff.from.items, diff.to.items)
  <2>1. Independent /\ Updates(diff.from.items, diff.to.items)' = U
    BY <1>1, ApartIsKept
  <2>2. /\ RenamesKeepIds
        /\ \A w \in diff.updates :
               \/ w \in U
               \/ w = [old |-> w.old, new |-> w.new] /\ w.old = w.new /\ IsNew(diff.to.items, w.old)
        /\ apply.todo \subseteq U
        /\ applies > 0 /\ failures = 0 =>
               \A v \in U : \A f \in Searched : Made(v, f) \/ v \in apply.todo
    BY <1>1, <2>1 DEF ConsumerInv, RenameInv, ToMake
  <2> HIDE DEF U
  <2>3. applies > 0 /\ failures = 0 =>
          \A v \in U : \A f \in Searched :
             Made(v, f) \/ v \in apply'.todo \/ (v = apply'.rename /\ <<"file", f>> \in apply'.left)
    BY <1>3, <1>4, <2>2
  <2>4. RenamesKeepIds'
    BY <1>1, <2>1, <2>2 DEF RenamesKeepIds
  <2>5. apply'.todo \subseteq U /\ apply'.rename \in U
    BY <1>3, <2>2
  <2>6. applies' > 0 /\ failures' = 0 => \A v \in U : \A f \in Searched : Made(v, f)' \/ ToMake(v, f)'
    BY <1>1, <2>3 DEF Made, ToMake
  <2>7. \A w \in diff'.updates :
               \/ w \in U
               \/ w = [old |-> w.old, new |-> w.new] /\ w.old = w.new /\ IsNew(diff'.to.items, w.old)
    BY <1>1, <2>2
  <2> QED BY <2>1, <2>4, <2>5, <2>6, <2>7 DEF RenameInv
<1> QED BY <1>5, <1>6, <1>7, <1>8 DEF ConsumerInv

LEMMA FailureConsumer ==
    ASSUME ConsumerInv,
           KillApply \/ (\E u \in apply.todo : SearchFails(u)) \/ \E t \in apply.left : SedFails(t)
    PROVE  ConsumerInv'
<1>1. /\ apply'.todo \subseteq apply.todo /\ apply'.left \subseteq apply.left
      /\ apply'.left # {} => apply'.rename = apply.rename
      /\ Fails /\ UNCHANGED <<diff, files, old>>
  BY Failures DEF ConsumerInv
<1>2. IInv' /\ failures' # 0
  BY FailureIndex DEF ConsumerInv
<1>3. ShapeInv'
  BY <1>1 DEF ConsumerInv, ShapeInv, Fails, generated
<1>4. DiffInv'
  BY <1>1 DEF ConsumerInv, DiffInv, Fails
<1>5. RenameInv'
  <2> SUFFICES ASSUME diff'.made, Independent' PROVE RenameInv'
    BY DEF RenameInv
  <2>1. Independent /\ Updates(diff.from.items, diff.to.items)' = Updates(diff.from.items, diff.to.items)
    BY <1>1, ApartIsKept
  <2>2. RenamesKeepIds'
    BY <1>1, <2>1 DEF ConsumerInv, RenameInv, RenamesKeepIds
  <2> QED BY <1>1, <1>2, <2>1, <2>2 DEF ConsumerInv, RenameInv
<1> QED BY <1>2, <1>3, <1>4, <1>5 DEF ConsumerInv

LEMMA EndConsumer ==
    ASSUME ConsumerInv, EndApply
    PROVE  ConsumerInv'
<1>1. /\ apply.left = {} /\ apply.todo = {} /\ apply' = Resting
      /\ UNCHANGED <<diff, files, failures, old, applies, generated, generators>>
  BY DEF EndApply
<1>2. UNCHANGED history
  BY <1>1 DEF generated
<1>3. IInv'
  BY NextIndex DEF Next, ConsumerInv
<1>4. ShapeInv'
  BY <1>1, <1>2 DEF ConsumerInv, ShapeInv
<1>5. DiffInv'
  BY <1>1 DEF ConsumerInv, DiffInv
<1>6. RenameInv'
  <2> SUFFICES ASSUME diff'.made, Independent' PROVE RenameInv'
    BY DEF RenameInv
  <2>1. Independent /\ Updates(diff.from.items, diff.to.items)' = Updates(diff.from.items, diff.to.items)
    BY <1>1, ApartIsKept
  <2>2. RenamesKeepIds'
    BY <1>1, <2>1 DEF ConsumerInv, RenameInv, RenamesKeepIds
  <2>3. apply'.todo = {} /\ apply'.left = {}
    BY <1>1 DEF Resting
  <2>4. applies' > 0 /\ failures' = 0 =>
          \A u \in Updates(diff.from.items, diff.to.items) : \A f \in Searched : Made(u, f)'
    BY <1>1, <2>1 DEF ConsumerInv, RenameInv, Made, ToMake
  <2> QED BY <1>1, <2>1, <2>2, <2>3, <2>4 DEF ConsumerInv, RenameInv
<1> QED BY <1>3, <1>4, <1>5, <1>6 DEF ConsumerInv

(* The file that holds the diff is changed like any other.                 *)
LEMMA DiffFileConsumer ==
    ASSUME ConsumerInv, <<"file", DiffFile>> \in apply.left, ApplyWithSed(<<"file", DiffFile>>)
    PROVE  ConsumerInv'
<1> DEFINE entry(w) == [old |-> Replaced(w.old), new |-> Replaced(w.new)]
<1>1. /\ apply.pc = "rename" /\ <<"file", DiffFile>> \in apply.left
      /\ diff' = [diff EXCEPT !.updates = {entry(w) : w \in @}]
      /\ apply' = [apply EXCEPT !.left = @ \ {<<"file", DiffFile>>}]
      /\ UNCHANGED <<files, failures, old, applies, generated, generators>>
  BY DEF ApplyWithSed, generated
<1>2. UNCHANGED history
  BY <1>1 DEF generated
<1>3. apply' = [pc |-> "rename", todo |-> apply.todo, left |-> apply.left \ {<<"file", DiffFile>>},
                rename |-> apply.rename]
  BY <1>1 DEF ConsumerInv, IInv, ApplyOK
<1>4. diff' = [made |-> diff.made, from |-> diff.from, to |-> diff.to,
               updates |-> {entry(w) : w \in diff.updates}]
  BY <1>1 DEF ConsumerInv, ShapeInv
<1> HIDE DEF entry
<1>5. applies # 0 /\ diff.made
  BY <1>1 DEF ConsumerInv, DiffInv, IInv, ApplyOK
<1>6. IInv'
  BY NextIndex DEF Next, ConsumerInv
<1>7. ShapeInv'
  BY <1>1, <1>2, <1>4 DEF ConsumerInv, ShapeInv
<1>8. DiffInv'
  BY <1>1, <1>4, <1>5 DEF ConsumerInv, DiffInv
<1>9. RenameInv'
  <2> SUFFICES ASSUME diff'.made, Independent' PROVE RenameInv'
    BY DEF RenameInv
  <2> DEFINE before == diff.from.items
             after == diff.to.items
             U == Updates(before, after)
  <2>1. diff'.from = diff.from /\ diff'.to = diff.to
    BY <1>4
  <2>2. Independent /\ Updates(diff.from.items, diff.to.items)' = U
    BY <2>1, ApartIsKept
  <2>3. /\ RenamesKeepIds
        /\ \A w \in diff.updates :
               \/ w \in U
               \/ w = [old |-> w.old, new |-> w.new] /\ w.old = w.new /\ IsNew(after, w.old)
        /\ apply.todo \subseteq U /\ apply.rename \in U
    BY <1>1, <1>5, <2>2 DEF ConsumerInv, RenameInv
  <2>4. before \in Items /\ after \in Items /\ Apart(before, after)
    BY <1>5, <2>2, IndependentApart DEF ConsumerInv, DiffInv
  <2> HIDE DEF before, after, U
  <2>5. \A w \in diff'.updates :
               \/ w \in U
               \/ w = [old |-> w.old, new |-> w.new] /\ w.old = w.new /\ IsNew(after, w.old)
    <3> SUFFICES ASSUME NEW w \in diff.updates
                 PROVE  \/ entry(w) \in U
                        \/ entry(w) = [old |-> entry(w).old, new |-> entry(w).new]
                           /\ entry(w).old = entry(w).new /\ IsNew(after, entry(w).old)
      BY <1>4
    <3>1. entry(w) = [old |-> ReplaceFirstSubSeq(apply.rename.new, apply.rename.old, w.old),
                      new |-> ReplaceFirstSubSeq(apply.rename.new, apply.rename.old, w.new)]
      BY DEF entry, Replaced
    <3>2. \/ w \in U
          \/ w = [old |-> w.old, new |-> w.new] /\ w.old = w.new /\ IsNew(after, w.old)
      BY <2>3
    <3> QED BY <2>3, <2>4, <3>1, <3>2, RenamedEntry DEF U
  <2>6. RenamesKeepIds'
    BY <1>1, <1>5, <2>1, <2>2, <2>3 DEF RenamesKeepIds
  <2>7. applies' > 0 /\ failures' = 0 =>
          \A u \in U : \A f \in Searched : Made(u, f)' \/ ToMake(u, f)'
    <3>1. applies > 0 /\ failures = 0 =>
            \A u \in U : \A f \in Searched : Made(u, f) \/ ToMake(u, f)
      BY <1>5, <2>2 DEF ConsumerInv, RenameInv, U, before, after
    <3>2. \A u, f : f # DiffFile => (Made(u, f)' <=> Made(u, f)) /\ (ToMake(u, f)' <=> ToMake(u, f))
      BY <1>1, <1>3 DEF Made, ToMake
    <3> QED BY <1>1, <3>1, <3>2 DEF Searched
  <2>8. apply'.todo \subseteq U /\ apply'.rename \in U
    BY <1>3, <2>3
  <2>9. diff'.to.items = after
    BY <2>1 DEF after
  <2> QED BY <2>2, <2>5, <2>6, <2>7, <2>8, <2>9 DEF RenameInv
<1> QED BY <1>6, <1>7, <1>8, <1>9 DEF ConsumerInv

(* One file after another loses the old names.                             *)
LEMMA FileConsumer ==
    ASSUME ConsumerInv, NEW g \in File \ {DiffFile},
           <<"file", g>> \in apply.left, ApplyWithSed(<<"file", g>>)
    PROVE  ConsumerInv'
<1>1. /\ apply.pc = "rename" /\ <<"file", g>> \in apply.left
      /\ files' = [files EXCEPT ![g] = Sed(files[g])]
      /\ apply' = [apply EXCEPT !.left = @ \ {<<"file", g>>}]
      /\ UNCHANGED <<diff, failures, old, applies, generated, generators>>
  BY DEF ApplyWithSed, generated
<1>2. UNCHANGED history
  BY <1>1 DEF generated
<1>3. apply' = [pc |-> "rename", todo |-> apply.todo, left |-> apply.left \ {<<"file", g>>},
                rename |-> apply.rename]
  BY <1>1 DEF ConsumerInv, IInv, ApplyOK
<1>4. /\ DOMAIN files' = File \ {DiffFile}
      /\ files'[g] = Sed(files[g])
      /\ \A f \in File \ {DiffFile} : f # g => files'[f] = files[f]
  BY <1>1 DEF ConsumerInv, ShapeInv
<1>5. files'[g] = [i \in DOMAIN files[g] |-> [id |-> files[g][i].id, name |-> Replaced(files[g][i].name)]]
  BY <1>4 DEF Sed
<1>6. /\ DOMAIN files'[g] = DOMAIN files[g]
      /\ \A i \in DOMAIN files[g] : /\ files'[g][i].id = files[g][i].id
                                   /\ files'[g][i].name = Replaced(files[g][i].name)
  BY <1>5
<1>7. applies # 0 /\ diff.made
  BY <1>1 DEF ConsumerInv, DiffInv, IInv, ApplyOK
<1>8. IInv'
  BY NextIndex DEF Next, ConsumerInv
<1>9. ShapeInv'
  BY <1>1, <1>2, <1>4 DEF ConsumerInv, ShapeInv
<1>10. DiffInv'
  BY <1>1, <1>7 DEF ConsumerInv, DiffInv
<1>11. RenameInv'
  <2> SUFFICES ASSUME diff'.made, Independent' PROVE RenameInv'
    BY DEF RenameInv
  <2> DEFINE before == diff.from.items
             after == diff.to.items
             U == Updates(before, after)
             r == apply.rename
             Names(id) == NamesOf(before, id) \cup NamesOf(after, id)
  <2>1. diff' = diff
    BY <1>1
  <2>2. Independent /\ Updates(diff.from.items, diff.to.items)' = U
    BY <2>1, ApartIsKept
  <2>3. /\ \A w \in diff.updates :
               \/ w \in U
               \/ w = [old |-> w.old, new |-> w.new] /\ w.old = w.new /\ IsNew(after, w.old)
        /\ apply.todo \subseteq U /\ r \in U
    BY <1>1, <1>7, <2>2 DEF ConsumerInv, RenameInv
  <2>4. \A f \in File \ {DiffFile} : \A i \in DOMAIN files[f] : files[f][i].name \in Names(files[f][i].id)
    BY <1>7, <2>2 DEF ConsumerInv, RenameInv, RenamesKeepIds
  <2>5. before \in Items /\ after \in Items /\ Apart(before, after)
    BY <1>7, <2>2, IndependentApart DEF ConsumerInv, DiffInv
  <2>6. applies > 0 /\ failures = 0 =>
          \A u \in U : \A f \in Searched : Made(u, f) \/ ToMake(u, f)
    BY <1>7, <2>2 DEF ConsumerInv, RenameInv
  <2> HIDE DEF before, after, U, r
  <2>7. ASSUME NEW i \in DOMAIN files[g]
        PROVE  /\ Replaced(files[g][i].name) \in Names(files[g][i].id)
               /\ ~Within(r.old, Replaced(files[g][i].name))
               /\ \A v \in U : ~Within(v.old, files[g][i].name) => ~Within(v.old, Replaced(files[g][i].name))
    <3> DEFINE id == files[g][i].id
               name == files[g][i].name
    <3>1. name \in Names(id)
      BY <2>4
    <3>2. Replaced(name) = ReplaceFirstSubSeq(r.new, r.old, name)
      BY DEF Replaced, r
    <3> HIDE DEF id, name
    <3>3. r \in Updates(before, after) /\ name \in NamesOf(before, id) \cup NamesOf(after, id)
      BY <2>3, <3>1 DEF U
    <3>4. /\ ReplaceFirstSubSeq(r.new, r.old, name) \in NamesOf(before, id) \cup NamesOf(after, id)
          /\ ~Within(r.old, ReplaceFirstSubSeq(r.new, r.old, name))
          /\ \A v \in Updates(before, after) :
                  ~Within(v.old, name) => ~Within(v.old, ReplaceFirstSubSeq(r.new, r.old, name))
      BY <2>5, <3>3, RenamedMention
    <3>5. /\ Replaced(name) \in Names(id)
          /\ ~Within(r.old, Replaced(name))
          /\ \A v \in U : ~Within(v.old, name) => ~Within(v.old, Replaced(name))
      BY <3>2, <3>4 DEF U
    <3> QED BY <3>5 DEF id, name
  <2>8. \A f \in File \ {DiffFile} : \A i \in DOMAIN files'[f] : files'[f][i].name \in Names(files'[f][i].id)
    <3> SUFFICES ASSUME NEW f \in File \ {DiffFile}, NEW i \in DOMAIN files'[f]
                 PROVE  files'[f][i].name \in Names(files'[f][i].id)
      OBVIOUS
    <3> HIDE DEF Names
    <3>1. CASE f = g
      BY <1>6, <2>7, <3>1
    <3>2. CASE f # g
      BY <1>4, <2>4, <3>2
    <3> QED BY <3>1, <3>2
  <2>9. RenamesKeepIds'
    BY <2>1, <2>8 DEF RenamesKeepIds, before, after
  <2>10. ASSUME applies > 0, failures = 0, NEW u \in U, NEW f \in Searched
         PROVE  Made(u, f)' \/ ToMake(u, f)'
    <3>1. Made(u, f) \/ ToMake(u, f)
      BY <2>6, <2>10
    <3>2. CASE f # g
      <4>1. (Made(u, f)' <=> Made(u, f)) /\ (ToMake(u, f) => ToMake(u, f)')
        <5>1. f \in File \ {DiffFile} /\ <<"file", f>> # <<"file", g>>
          BY <3>2 DEF Searched
        <5> QED BY <1>3, <1>4, <3>2, <5>1 DEF Made, ToMake
      <4> QED BY <3>1, <4>1
    <3>3. CASE f = g /\ Made(u, f)
      BY <1>6, <2>7, <3>3 DEF Made
    <3>4. CASE f = g /\ u \in apply.todo
      BY <1>3, <3>4 DEF ToMake
    <3>5. CASE f = g /\ u = r
      BY <1>6, <2>7, <3>5 DEF Made
    <3> QED BY <3>1, <3>2, <3>3, <3>4, <3>5 DEF ToMake, r
  <2>11. apply'.todo \subseteq U /\ apply'.rename \in U
    BY <1>3, <2>3 DEF r
  <2>12. \A w \in diff'.updates :
               \/ w \in U
               \/ w = [old |-> w.old, new |-> w.new] /\ w.old = w.new /\ IsNew(diff'.to.items, w.old)
    BY <2>1, <2>3 DEF after
  <2> QED BY <1>1, <2>2, <2>9, <2>10, <2>11, <2>12 DEF RenameInv
<1> QED BY <1>8, <1>9, <1>10, <1>11 DEF ConsumerInv

(* In the project itself, no mention and no entry of the diff is changed.  *)
LEMMA OwnConsumer ==
    ASSUME ConsumerInv, NEW t \in apply.left, ApplyWithSed(t), \A f : t # <<"file", f>>
    PROVE  ConsumerInv'
<1>1. UNCHANGED <<diff, files>>
  BY DEF ApplyWithSed
<1>2. /\ applies # 0
      /\ apply' = [pc |-> "rename", todo |-> apply.todo, left |-> apply.left \ {t}, rename |-> apply.rename]
      /\ UNCHANGED <<failures, old, applies, generators>>
  BY SedStep DEF ConsumerInv
<1>3. diff.made
  BY <1>2 DEF ConsumerInv, DiffInv
<1>4. IInv'
  BY NextIndex DEF Next, ConsumerInv
<1>5. ShapeInv'
  BY <1>1, <1>3 DEF ConsumerInv, ShapeInv
<1>6. DiffInv'
  BY <1>1, <1>2, <1>3 DEF ConsumerInv, DiffInv
<1>7. RenameInv'
  <2> SUFFICES ASSUME diff'.made, Independent' PROVE RenameInv'
    BY DEF RenameInv
  <2>1. Independent /\ Updates(diff.from.items, diff.to.items)' = Updates(diff.from.items, diff.to.items)
    BY <1>1, ApartIsKept
  <2>2. RenamesKeepIds'
    BY <1>1, <2>1 DEF ConsumerInv, RenameInv, RenamesKeepIds
  <2>3. \A u, f : (Made(u, f)' <=> Made(u, f)) /\ (ToMake(u, f) => ToMake(u, f)')
    BY <1>1, <1>2 DEF Made, ToMake
  <2> QED BY <1>1, <1>2, <1>3, <2>1, <2>2, <2>3 DEF ConsumerInv, RenameInv
<1> QED BY <1>4, <1>5, <1>6, <1>7 DEF ConsumerInv

LEMMA NextConsumer == ConsumerInv /\ [Next]_vars => ConsumerInv'
<1> SUFFICES ASSUME ConsumerInv, [Next]_vars PROVE ConsumerInv'
  OBVIOUS
<1>1. ~diff.made => \A h \in history : h.items \in Items
  BY DEF ConsumerInv, ShapeInv
<1>2. ASSUME UNCHANGED <<history, consumer>> PROVE ConsumerInv'
  BY <1>1, <1>2, GeneratorConsumer
<1>3. ASSUME NEW s \in Sheets, EditSheet(s) PROVE ConsumerInv'
  BY <1>2, <1>3 DEF EditSheet, generated
<1>4. ASSUME NEW l \in Lang, Parse(l) \/ Write(l) \/ KillGenerator(l) PROVE ConsumerInv'
  BY <1>2, <1>4 DEF Parse, Write, KillGenerator, generated
<1>5. ASSUME NEW l \in Lang, Save(l) PROVE ConsumerInv'
  BY <1>5, SaveConsumer
<1>6. ASSUME NEW from \in history, NEW to \in history, Diff(from, to) PROVE ConsumerInv'
  BY <1>6, DiffConsumer
<1>7. CASE StartApply
  BY <1>7, StartConsumer
<1>8. ASSUME NEW u \in apply.todo, Rename(u) PROVE ConsumerInv'
  BY <1>8, RenameConsumer
<1>9. ASSUME NEW t \in apply.left, ApplyWithSed(t) PROVE ConsumerInv'
  <2>1. CASE t = <<"file", DiffFile>>
    BY <1>9, <2>1, DiffFileConsumer
  <2>2. CASE \E f \in File \ {DiffFile} : t = <<"file", f>>
    BY <1>9, <2>2, FileConsumer
  <2>3. CASE \A f : t # <<"file", f>>
    BY <1>9, <2>3, OwnConsumer
  <2>4. \/ t = <<"file", DiffFile>> \/ \E f \in File \ {DiffFile} : t = <<"file", f>>
        \/ \E l : t = <<"keys", l>> \/ \E id : t = <<"index", id>>
    BY <1>9 DEF ApplyWithSed
  <2>5. (\E l : t = <<"keys", l>> \/ \E id : t = <<"index", id>>) => \A f : t # <<"file", f>>
    OBVIOUS
  <2> QED BY <2>1, <2>2, <2>3, <2>4, <2>5
<1>10. CASE KillApply \/ (\E u \in apply.todo : SearchFails(u)) \/ \E t \in apply.left : SedFails(t)
  BY <1>10, FailureConsumer
<1>11. CASE EndApply
  BY <1>11, EndConsumer
<1>12. CASE UNCHANGED vars
  BY <1>2, <1>12 DEF vars, generated, consumer
<1> QED BY <1>3, <1>4, <1>5, <1>6, <1>7, <1>8, <1>9, <1>10, <1>11, <1>12 DEF Next

(* Whatever was interrupted and whichever files sed left as they were, a   *)
(* mention that a consumer's file holds keeps the id it had: with a diff   *)
(* of independent names its name is one that either index gives to the id. *)
THEOREM MentionsKeepTheirIds == Spec => []RenamesKeepIds
<1>1. ConsumerInv => RenamesKeepIds
  BY DEF ConsumerInv, RenameInv, RenamesKeepIds
<1> QED BY <1>1, InitConsumer, NextConsumer, PTL DEF Spec

(* When no run with the diff has failed, no search of one and no sed, the  *)
(* files that rg sees mention none of the names it renames once a run has  *)
(* ended: the order of the entries and the file that holds the diff do not *)
(* keep one from being made.                                               *)
THEOREM NoMentionIsLeft == Spec => []RenamesAreComplete
<1>1. ConsumerInv => RenamesAreComplete
  <2> SUFFICES ASSUME ConsumerInv, diff.made, Independent, apply.pc = "idle", applies > 0, failures = 0
               PROVE  \A u \in Updates(diff.from.items, diff.to.items) :
                         \A f \in Searched : Made(u, f)
    BY DEF RenamesAreComplete, Made, Searched
  <2>1. apply.todo = {} /\ apply.left = {}
    BY DEF ConsumerInv, IInv, ApplyOK
  <2> QED BY <2>1 DEF ConsumerInv, RenameInv, ToMake
<1> QED BY <1>1, InitConsumer, NextConsumer, PTL DEF Spec
=============================================================================
