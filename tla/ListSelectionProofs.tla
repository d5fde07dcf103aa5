------------------------ MODULE ListSelectionProofs ------------------------
(***************************************************************************)
(* Proofs about ListSelection and StatusTree, for every set of entries,    *)
(* directories, queries and repositories, and every sequence of versions.  *)
(*                                                                         *)
(* A list shows each matching entry once (Shows), a file pane each file    *)
(* once (ShowsFiles): the first is a fact about sorting a finite set, the  *)
(* second goes by induction over the depth of the directories, with what   *)
(* the siblings keep apart and what a directory row hides as parts of what *)
(* is shown by induction. The inductive invariant (Inv) keeps the cursors  *)
(* of the panes and of the lists a load brings back together on what is    *)
(* shown (InRows, InLists), and the target of a history until it is loaded *)
(* (Opening).                                                              *)
(***************************************************************************)
EXTENDS ListSelection, FiniteSetTheorems, SequenceTheorems, WellFoundedInduction, TLAPS

SyncFold == INSTANCE Induction WITH P <- IsDirectory, Op <- Sync

LEMMA LeastNumber ==
  ASSUME NEW S \in SUBSET Nat, S # {}
  PROVE  \E n \in S : \A m \in S : n <= m
<1> DEFINE R == {ss \in Nat \X Nat : ss[1] < ss[2]}
<1>1. IsWellFoundedOn(R, Nat)
  BY NatLessThanWellFounded DEF OpToRel
<1> HIDE DEF R
<1>2. PICK n \in S : \A m \in S : <<m, n>> \notin R
  BY <1>1, WFMin
<1>3. \A m \in S : ~(m < n)
  BY <1>2 DEF R
<1> QED
  BY <1>3

LEMMA NumbersWellOrdered == SyncFold!WellOrdered
  BY LeastNumber DEF SyncFold!WellOrdered

-----------------------------------------------------------------------------
(* The sequence of a set in the order of a relation.                       *)

StrictlyOrders(before, S) ==
    /\ \A x \in S : <<x, x>> \notin before
    /\ \A x, y \in S : x # y => <<x, y>> \in before \/ <<y, x>> \in before
    /\ \A x, y, z \in S : <<x, y>> \in before /\ <<y, z>> \in before => <<x, z>> \in before

LEMMA SortedPlaces ==
  ASSUME NEW S, IsFiniteSet(S), NEW before, StrictlyOrders(before, S)
  PROVE  /\ Cardinality(S) \in Nat
         /\ Sorted(S, before) \in [1..Cardinality(S) -> S]
         /\ \A x \in S : \E n \in 1..Cardinality(S) : Sorted(S, before)[n] = x
         /\ \A m, n \in 1..Cardinality(S) :
               m < n => <<Sorted(S, before)[m], Sorted(S, before)[n]>> \in before
<1> DEFINE Ahead(x) == {y \in S : <<y, x>> \in before}
           place == [x \in S |-> Cardinality(Ahead(x)) + 1]
<1>1. PICK N \in Nat : N = Cardinality(S)
  BY FS_CardinalityType
<1>2. ASSUME NEW x \in S
      PROVE  IsFiniteSet(Ahead(x)) /\ Cardinality(Ahead(x)) \in Nat /\ Cardinality(Ahead(x)) < N
  <2>1. Ahead(x) \in SUBSET S /\ x \notin Ahead(x)
    BY DEF StrictlyOrders
  <2> HIDE DEF Ahead
  <2>2. /\ IsFiniteSet(Ahead(x)) /\ Cardinality(Ahead(x)) <= N
        /\ N = Cardinality(Ahead(x)) => S = Ahead(x)
    BY <1>1, <2>1, FS_Subset
  <2>3. Cardinality(Ahead(x)) \in Nat
    BY <2>2, FS_CardinalityType
  <2> QED
    BY <1>1, <2>1, <2>2, <2>3
<1>3. ASSUME NEW x \in S, NEW y \in S, <<x, y>> \in before
      PROVE  Cardinality(Ahead(x)) < Cardinality(Ahead(y))
  <2>1. Ahead(x) \in SUBSET Ahead(y) /\ x \in Ahead(y) /\ x \notin Ahead(x)
    BY <1>3 DEF StrictlyOrders
  <2> HIDE DEF Ahead
  <2>2. /\ Cardinality(Ahead(x)) <= Cardinality(Ahead(y))
        /\ Cardinality(Ahead(y)) = Cardinality(Ahead(x)) => Ahead(y) = Ahead(x)
    BY <1>2, <2>1, FS_Subset
  <2>3. Cardinality(Ahead(x)) \in Nat /\ Cardinality(Ahead(y)) \in Nat
    BY <1>2
  <2> QED
    BY <2>1, <2>2, <2>3
<1> HIDE DEF Ahead
<1>4. place \in [S -> 1..N]
  BY <1>1, <1>2
<1>5. ASSUME NEW x \in S, NEW y \in S, x # y
      PROVE  place[x] # place[y]
  <2>1. <<x, y>> \in before \/ <<y, x>> \in before
    BY <1>5 DEF StrictlyOrders
  <2>2. Cardinality(Ahead(x)) \in Nat /\ Cardinality(Ahead(y)) \in Nat
    BY <1>2
  <2>3. Cardinality(Ahead(x)) < Cardinality(Ahead(y)) \/ Cardinality(Ahead(y)) < Cardinality(Ahead(x))
    BY <1>3, <2>1
  <2> QED
    BY <2>2, <2>3
<1> HIDE DEF place
<1>6. place \in Injection(S, 1..N)
  BY <1>4, <1>5 DEF Injection, IsInjective
<1>7. IsFiniteSet(1..N) /\ Cardinality(1..N) = N
  BY <1>1, FS_Interval
<1>8. place \in Surjection(S, 1..N)
  BY <1>1, <1>6, <1>7, FS_Injection
<1>9. \A k \in 1..N : \E x \in S : place[x] = k
  BY <1>8 DEF Surjection
<1>10. ASSUME NEW k \in 1..N
       PROVE  Sorted(S, before)[k] \in S /\ place[Sorted(S, before)[k]] = k
  <2>1. PICK x \in S : place[x] = k
    BY <1>9
  <2>5. Cardinality(Ahead(x)) + 1 = k /\ Cardinality(Ahead(x)) \in Nat
    BY <1>2, <2>1 DEF place
  <2>2. Cardinality(Ahead(x)) = k - 1
    BY <1>1, <2>5
  <2>3. Sorted(S, before)[k] = CHOOSE z \in S : Cardinality({y \in S : <<y, z>> \in before}) = k - 1
    BY <1>1 DEF Sorted
  <2>4. Sorted(S, before)[k] = CHOOSE z \in S : Cardinality(Ahead(z)) = k - 1
    BY <2>3 DEF Ahead
  <2>6. PICK w \in S : w = Sorted(S, before)[k] /\ Cardinality(Ahead(w)) = k - 1
    BY <2>2, <2>4
  <2>7. place[w] = (k - 1) + 1
    BY <2>6 DEF place
  <2> QED
    BY <1>1, <2>6, <2>7
<1>11. Sorted(S, before) \in [1..N -> S]
  <2> DEFINE at(k) == CHOOSE x \in S : Cardinality({y \in S : <<y, x>> \in before}) = k - 1
  <2>1. Sorted(S, before) = [k \in 1..N |-> at(k)]
    BY <1>1 DEF Sorted
  <2> HIDE DEF at
  <2>2. \A k \in 1..N : at(k) \in S
    BY <1>10, <2>1
  <2> QED
    BY <2>1, <2>2
<1>12. ASSUME NEW x \in S
       PROVE  \E n \in 1..N : Sorted(S, before)[n] = x
  <2>1. place[x] \in 1..N
    BY <1>4
  <2>2. Sorted(S, before)[place[x]] \in S /\ place[Sorted(S, before)[place[x]]] = place[x]
    BY <1>10, <2>1
  <2>3. Sorted(S, before)[place[x]] = x
    BY <1>5, <2>2
  <2> QED
    BY <2>1, <2>3
<1>13. ASSUME NEW m \in 1..N, NEW n \in 1..N, m < n
       PROVE  <<Sorted(S, before)[m], Sorted(S, before)[n]>> \in before
  <2>1. PICK x \in S : x = Sorted(S, before)[m] /\ place[x] = m
    BY <1>10
  <2>2. PICK y \in S : y = Sorted(S, before)[n] /\ place[y] = n
    BY <1>10
  <2>3. x # y
    BY <1>1, <1>13, <2>1, <2>2
  <2>4. CASE <<y, x>> \in before
    <3>1. Cardinality(Ahead(y)) < Cardinality(Ahead(x))
      BY <1>3, <2>4
    <3>2. Cardinality(Ahead(y)) + 1 = n /\ Cardinality(Ahead(x)) + 1 = m
      BY <2>1, <2>2 DEF place
    <3>3. Cardinality(Ahead(y)) \in Nat /\ Cardinality(Ahead(x)) \in Nat
      BY <1>2
    <3> QED
      BY <1>1, <1>13, <3>1, <3>2, <3>3
  <2>5. CASE <<x, y>> \in before
    BY <2>1, <2>2, <2>5
  <2> QED
    BY <2>3, <2>4, <2>5 DEF StrictlyOrders
<1> QED
  BY <1>1, <1>11, <1>12, <1>13

LEMMA FunctionIsSeq ==
  ASSUME NEW S, NEW n \in Nat, NEW w \in [1..n -> S]
  PROVE  w \in Seq(S) /\ Len(w) = n /\ DOMAIN w = 1..n
OBVIOUS

LEMMA OrderedPlaces ==
  ASSUME NEW S \in SUBSET Nat, IsFiniteSet(S)
  PROVE  \E n \in Nat :
            /\ n = Cardinality(S)
            /\ Ordered(S) \in [1..n -> S]
            /\ \A x \in S : \E p \in 1..n : Ordered(S)[p] = x
            /\ \A p, q \in 1..n : p < q => Ordered(S)[p] < Ordered(S)[q]
<1>1. PICK less : less = {p \in S \X S : p[1] < p[2]}
  OBVIOUS
<1>2. \A x, y \in S : <<x, y>> \in less <=> x < y
  BY <1>1
<1>3. StrictlyOrders(less, S)
  BY <1>2 DEF StrictlyOrders
<1>4. Ordered(S) = Sorted(S, less)
  BY <1>1 DEF Ordered
<1>5. PICK n \in Nat : n = Cardinality(S)
  BY FS_CardinalityType
<1>6. /\ Ordered(S) \in [1..n -> S]
      /\ \A x \in S : \E p \in 1..n : Ordered(S)[p] = x
      /\ \A p, q \in 1..n : p < q => <<Ordered(S)[p], Ordered(S)[q]>> \in less
  BY <1>3, <1>4, <1>5, SortedPlaces
<1>7. \A p \in 1..n : Ordered(S)[p] \in S
  BY <1>6
<1> QED
  BY <1>2, <1>5, <1>6, <1>7

LEMMA SeqDomain ==
  ASSUME NEW X, NEW items \in Seq(X)
  PROVE  /\ Len(items) \in Nat /\ DOMAIN items = 1..Len(items)
         /\ IsFiniteSet(DOMAIN items)
         /\ \A i \in DOMAIN items : items[i] \in X
<1>1. Len(items) \in Nat /\ DOMAIN items = 1..Len(items)
  OBVIOUS
<1>2. IsFiniteSet(1..Len(items))
  BY <1>1, FS_Interval
<1> QED
  BY <1>1, <1>2

(***************************************************************************)
(* The entries a query matches are each shown once, and in their own order *)
(* unless they are sorted by name.                                         *)
(***************************************************************************)
Shows(items, query, byName, shown) ==
    /\ shown \in Seq(DOMAIN items)
    /\ \A p \in DOMAIN shown : shown[p] \in DOMAIN items /\ items[shown[p]] \in query
    /\ \A i \in DOMAIN items : items[i] \in query => \E p \in DOMAIN shown : shown[p] = i
    /\ \A p, q \in DOMAIN shown : p # q => shown[p] # shown[q]
    /\ byName = FALSE => \A p, q \in DOMAIN shown : p < q => shown[p] < shown[q]

LEMMA IndicesPlaces ==
  ASSUME NEW items \in Seq(Entries), NEW query, NEW byName \in BOOLEAN
  PROVE  Shows(items, query, byName, Indices(items, query, byName))
<1>0. PICK shown : shown = Indices(items, query, byName)
  OBVIOUS
<1> DEFINE matching == {i \in DOMAIN items : items[i] \in query}
           before(i, j) == IF byName /\ items[i] # items[j] THEN items[i] < items[j] ELSE i < j
<1>1. PICK less : less = {p \in matching \X matching : before(p[1], p[2])}
  OBVIOUS
<1>2. DOMAIN items \in SUBSET Nat /\ IsFiniteSet(DOMAIN items) /\ \A i \in DOMAIN items : items[i] \in Nat
  <2>1. /\ Len(items) \in Nat /\ DOMAIN items = 1..Len(items)
        /\ IsFiniteSet(DOMAIN items)
        /\ \A i \in DOMAIN items : items[i] \in Entries
    BY SeqDomain
  <2>2. \A e \in Entries : e \in Nat
    BY EntriesAssumption
  <2>3. \A i \in DOMAIN items : i \in Nat
    BY <2>1
  <2> QED
    BY <2>1, <2>2, <2>3
<1>6. PICK S \in SUBSET DOMAIN items : S = matching
  OBVIOUS
<1>3. IsFiniteSet(S)
  BY <1>2, <1>6, FS_Subset
<1>4. shown = Sorted(S, less)
  <2>1. shown = Sorted(matching, less)
    BY <1>0, <1>1 DEF Indices
  <2> HIDE DEF matching
  <2> QED
    BY <2>1, <1>6
<1>5. \A x, y \in S : <<x, y>> \in less <=> before(x, y)
  BY <1>1, <1>6
<1>16. \A x \in S : x \in Nat /\ items[x] \in Nat
  BY <1>2
<1>17. PICK name : name = [x \in S |-> items[x]]
  OBVIOUS
<1>18. \A x, y \in S : <<x, y>> \in less <=>
          IF byName /\ name[x] # name[y] THEN name[x] < name[y] ELSE x < y
  BY <1>5, <1>17
<1>19. \A x \in S : x \in Nat /\ name[x] \in Nat
  BY <1>16, <1>17
<1>7. StrictlyOrders(less, S)
  <2>1. ASSUME NEW x \in S
        PROVE  <<x, x>> \notin less
    BY <1>18, <1>19
  <2>2. ASSUME NEW x \in S, NEW y \in S, x # y
        PROVE  <<x, y>> \in less \/ <<y, x>> \in less
    BY <1>18, <1>19, <2>2
  <2>3. ASSUME NEW x \in S, NEW y \in S, NEW z \in S, <<x, y>> \in less, <<y, z>> \in less
        PROVE  <<x, z>> \in less
    <3>1. /\ x \in Nat /\ y \in Nat /\ z \in Nat
          /\ name[x] \in Nat /\ name[y] \in Nat /\ name[z] \in Nat
      BY <1>19
    <3>2. IF byName /\ name[x] # name[y] THEN name[x] < name[y] ELSE x < y
      BY <1>18, <2>3
    <3>3. IF byName /\ name[y] # name[z] THEN name[y] < name[z] ELSE y < z
      BY <1>18, <2>3
    <3>4. IF byName /\ name[x] # name[z] THEN name[x] < name[z] ELSE x < z
      BY <3>1, <3>2, <3>3
    <3> QED
      BY <1>18, <3>4
  <2> QED
    BY <2>1, <2>2, <2>3 DEF StrictlyOrders
<1>8. \A x \in S : x \in DOMAIN items /\ items[x] \in query
  BY <1>6
<1>9. \A i \in DOMAIN items : items[i] \in query => i \in S
  BY <1>6
<1>10. PICK n \in Nat : n = Cardinality(S)
  BY <1>3, <1>6, FS_CardinalityType
<1>11. /\ shown \in [1..n -> S]
       /\ \A x \in S : \E p \in 1..n : shown[p] = x
       /\ \A p, q \in 1..n : p < q => <<shown[p], shown[q]>> \in less
  BY <1>3, <1>4, <1>7, <1>10, SortedPlaces
<1>12. \A p, q \in 1..n : p < q => before(shown[p], shown[q])
  BY <1>5, <1>6, <1>11
<1>13. \A p, q \in 1..n : p # q => shown[p] # shown[q]
  <2> SUFFICES ASSUME NEW p \in 1..n, NEW q \in 1..n, p < q
               PROVE  shown[p] # shown[q]
    BY <1>10
  <2>1. shown[p] \in Nat /\ before(shown[p], shown[q])
    BY <1>2, <1>8, <1>11, <1>12
  <2> QED
    BY <2>1
<1>14. ~byName => \A p, q \in 1..n : p < q => shown[p] < shown[q]
  BY <1>12
<1>15. shown \in [1..n -> DOMAIN items]
  BY <1>8, <1>11
<1>20. shown \in Seq(DOMAIN items) /\ DOMAIN shown = 1..n
  BY <1>15, FunctionIsSeq
<1>21. \A p \in DOMAIN shown : shown[p] \in DOMAIN items /\ items[shown[p]] \in query
  BY <1>8, <1>11, <1>20
<1>22. \A i \in DOMAIN items : items[i] \in query => \E p \in DOMAIN shown : shown[p] = i
  BY <1>9, <1>11, <1>20
<1>23. \A p, q \in DOMAIN shown : p # q => shown[p] # shown[q]
  BY <1>13, <1>20
<1>24. byName = FALSE => \A p, q \in DOMAIN shown : p < q => shown[p] < shown[q]
  BY <1>14, <1>20
<1>25. Shows(items, query, byName, shown)
  BY <1>20, <1>21, <1>22, <1>23, <1>24 DEF Shows
<1> QED
  BY <1>0, <1>25

LEMMA FirstNumber ==
  ASSUME NEW S \in SUBSET Nat, S # {}
  PROVE  Min(S) \in S /\ \A m \in S : Min(S) <= m
BY LeastNumber DEF Min

-----------------------------------------------------------------------------
(* The invariant.                                                          *)

RepoModes ==
    [detail : Details, selected : [Lists \union Panes -> Nat],
     query : [Lists \union {"status"} -> SUBSET Entries],
     status_tree_enabled : BOOLEAN, collapsed_status_dirs : SUBSET Dirs,
     status_filter_mode : StatusFilterModes, by_name : SUBSET Sortable,
     active_subview : Subviews, commit_subview_mode : {"history", "sub", "files"},
     stash_subview_mode : {"list", "files"}, commit_history : Histories,
     pending_commit_selection : Entries \union {None}]

Typed ==
    /\ repo_mode \in RepoModes
    /\ repo \in [name : DOMAIN Repos, version : Nat] /\ repo.version \in DOMAIN Repos[repo.name]
    /\ load \in Details \union {None}
    /\ confirming \in Entries \union {None}
    /\ opened_for \in Entries \union {None}

\* A file pane has the cursor on one of its rows, or on none after a click below them.
InRows(rm) == \A pane \in Panes : rm.selected[pane] \in 0..Len(Rows(rm, pane))

\* A list that a load brings back has the cursor on an entry it shows, if it shows any;
\* when the commits are shown unfiltered again it may be on none.
InList(rm, l) ==
    \/ rm.selected[l] \in Range(Filtered(rm, l))
    \/ rm.selected[l] = 0 /\ (Filtered(rm, l) = <<>> \/ (l = "commits" /\ rm.query[l] = Entries))

InLists(rm) == \A l \in Loaded \intersect Range(SyncedByLoad) : InList(rm, l)

\* What a history was opened for is looked for until the history is there.
Opening ==
    opened_for # None =>
        /\ load # None /\ repo_mode.active_subview = "commits"
        /\ repo_mode.pending_commit_selection = opened_for

Inv == Typed /\ InRows(repo_mode) /\ InLists(repo_mode) /\ Opening

-----------------------------------------------------------------------------
(* What a list shows.                                                      *)

LEMMA ItemFound ==
  ASSUME NEW items \in Seq(Entries), NEW i
  PROVE  ItemAt(items, i) \in Entries \union {None}
BY DEF ItemAt

LEMMA LoadedItems ==
  ASSUME NEW rm \in RepoModes, NEW l \in Loaded
  PROVE  rm.detail.lists[l] \in Seq(Entries) /\ (l \in rm.by_name) \in BOOLEAN
BY DEF RepoModes, Details

LEMMA FilteredPlaces ==
  ASSUME NEW rm \in RepoModes, NEW l \in Loaded
  PROVE  Shows(rm.detail.lists[l], rm.query[l], l \in rm.by_name, Filtered(rm, l))
<1>1. PICK items \in Seq(Entries) : items = rm.detail.lists[l]
  BY LoadedItems
<1>2. PICK byName \in BOOLEAN : byName = (l \in rm.by_name)
  BY LoadedItems
<1>3. PICK query : query = rm.query[l]
  OBVIOUS
<1>5. Indices(items, query, byName) = Filtered(rm, l)
  BY <1>1, <1>2, <1>3 DEF Filtered
<1>6. Shows(items, query, byName, Indices(items, query, byName))
  BY IndicesPlaces
<1> QED
  BY <1>1, <1>2, <1>3, <1>5, <1>6

LEMMA OwnerLoaded ==
  ASSUME NEW l \in Lists, l \notin Loaded
  PROVE  /\ l \in {"commit_files", "stash_files"} /\ OwnerOf[l] \in Loaded
         /\ l = "commit_files" => OwnerOf[l] = "commits"
         /\ l = "stash_files" => OwnerOf[l] = "stash"
BY DEF Lists, OwnerOf, Loaded

LEMMA VisiblePlaces ==
  ASSUME NEW rm \in RepoModes, NEW l \in Lists
  PROVE  /\ Items(rm, l) \in Seq(Entries)
         /\ \E query : \E byName \in BOOLEAN : Shows(Items(rm, l), query, byName, Visible(rm, l))
<1>1. CASE l \in Loaded
  <2>1. Items(rm, l) = rm.detail.lists[l] /\ Visible(rm, l) = Filtered(rm, l)
    BY <1>1 DEF Items, Visible
  <2>2. PICK byName \in BOOLEAN : byName = (l \in rm.by_name)
    BY <1>1, LoadedItems
  <2>3. Shows(Items(rm, l), rm.query[l], byName, Visible(rm, l))
    BY <1>1, <2>1, <2>2, FilteredPlaces
  <2> QED
    BY <1>1, <2>1, <2>3, LoadedItems
<1>2. CASE l \notin Loaded
  <2>1. PICK o \in Loaded : o = OwnerOf[l]
    BY <1>2, OwnerLoaded
  <2>2. PICK owner \in Entries \union {None} : owner = SelectedItem(rm, o)
    BY LoadedItems, ItemFound DEF SelectedItem
  <2>3. PICK items \in Seq(Entries) : items = FileList(rm, l)
    <3>1. FileList(rm, l) = IF owner = None THEN <<>> ELSE FilesOf[owner]
      BY <2>1, <2>2 DEF FileList
    <3>2. <<>> \in Seq(Entries)
      OBVIOUS
    <3> QED
      BY <2>2, <3>1, <3>2, FilesAssumption
  <2>4. Items(rm, l) = items
    BY <1>2, <2>3 DEF Items
  <2>5. PICK query : query = IF l = "stash_files" THEN Entries ELSE rm.query[l]
    OBVIOUS
  <2>6. PICK byName \in BOOLEAN : byName = FALSE
    OBVIOUS
  <2>8. Indices(items, query, byName) = Visible(rm, l)
    BY <1>2, <2>3, <2>5, <2>6 DEF Visible, FilteredFiles
  <2>9. Shows(items, query, byName, Indices(items, query, byName))
    BY IndicesPlaces
  <2> QED
    BY <2>4, <2>8, <2>9
<1> QED
  BY <1>1, <1>2

(***************************************************************************)
(* What the reducer finds and what the panel marks are the same entry,     *)
(* wherever the index points to.                                           *)
(***************************************************************************)
LEMMA SameEntry ==
  ASSUME NEW rm \in RepoModes, NEW l \in Lists
  PROVE  Target(rm, l) = UnderCursor(rm, l)
<1>20. PICK items \in Seq(Entries) : items = Items(rm, l)
  BY VisiblePlaces
<1>1. PICK shown \in Seq(DOMAIN items) : items = Items(rm, l) /\ shown = Visible(rm, l)
  BY <1>20, VisiblePlaces DEF Shows
<1>2. \A p \in DOMAIN shown : shown[p] \in DOMAIN items
  BY <1>1
<1>3. PICK sel : sel = rm.selected[l]
  OBVIOUS
<1>4. DOMAIN shown \in SUBSET Nat /\ (shown # <<>> => 1 \in DOMAIN shown) /\ (shown = <<>> => DOMAIN shown = {})
  OBVIOUS
<1>5. 0 \notin DOMAIN items
  BY <1>1
<1>6. PICK heads : heads = {p \in DOMAIN shown : l = "branches" /\ items[shown[p]] = rm.detail.head}
  OBVIOUS
<1>7. PICK at : at = {p \in DOMAIN shown : shown[p] = sel}
  OBVIOUS
<1>8. Marked(rm, l) = IF shown = <<>> THEN 0
                      ELSE IF at # {} THEN shown[CHOOSE p \in at : TRUE]
                      ELSE IF heads # {} THEN shown[CHOOSE p \in heads : TRUE]
                      ELSE shown[1]
  BY <1>1, <1>3, <1>6, <1>7 DEF Marked
<1>9. UnderCursor(rm, l) = ItemAt(items, Marked(rm, l))
  BY <1>1 DEF UnderCursor
<1>10. CASE sel \in Range(shown)
  <2>1. at # {} /\ shown # <<>>
    BY <1>4, <1>7, <1>10 DEF Range
  <2>2. PICK p \in at : p = CHOOSE q \in at : TRUE
    BY <2>1
  <2>3. Marked(rm, l) = sel
    BY <1>7, <1>8, <2>1, <2>2
  <2>4. sel \in DOMAIN items
    BY <1>2, <1>7, <2>2
  <2>5. UnderCursor(rm, l) = items[sel]
    BY <1>9, <2>3, <2>4 DEF ItemAt
  <2>6. CASE l \in Loaded
    <3>1. Usable(rm, l)
      BY <1>1, <1>3, <1>10, <2>6 DEF Usable, Visible, Range
    <3>2. Target(rm, l) = ItemAt(items, sel)
      BY <1>1, <1>3, <2>6, <3>1 DEF Target, SelectedItem, SelectedIndex, Items
    <3> QED
      BY <2>4, <2>5, <3>2 DEF ItemAt
  <2>7. CASE l \notin Loaded
    BY <1>1, <1>3, <1>10, <2>5, <2>7 DEF Target
  <2> QED
    BY <2>6, <2>7
<1>11. CASE sel \notin Range(shown)
  <2>1. at = {}
    BY <1>7, <1>11 DEF Range
  <2>2. CASE l \in Loaded
    <3>1. items = rm.detail.lists[l] /\ shown = Filtered(rm, l)
      BY <1>1, <2>2 DEF Items, Visible
    <3>2. ~Usable(rm, l)
      BY <1>3, <1>11, <3>1 DEF Usable, Range
    <3>3. Target(rm, l) = ItemAt(items, Fallback(rm, l))
      BY <2>2, <3>1, <3>2 DEF Target, SelectedItem, SelectedIndex
    <3>4. Fallback(rm, l) = IF heads # {} THEN shown[Min(heads)] ELSE FirstOf(shown)
      BY <1>6, <3>1 DEF Fallback
    <3>5. CASE heads # {}
      <4>1. heads \in SUBSET Nat
        BY <1>4, <1>6
      <4>2. Min(heads) \in heads
        BY <4>1, <3>5, FirstNumber
      <4>3. PICK q \in heads : q = CHOOSE p \in heads : TRUE
        BY <3>5
      <4>4. PICK m \in heads : m = Min(heads)
        BY <4>2
      <4>5. items[shown[m]] = items[shown[q]] /\ shown[m] \in DOMAIN items /\ shown[q] \in DOMAIN items
        BY <1>2, <1>6
      <4>6. shown # <<>>
        BY <1>4, <1>6
      <4>7. Marked(rm, l) = shown[q]
        BY <1>8, <2>1, <3>5, <4>3, <4>6
      <4> QED
        BY <1>9, <3>3, <3>4, <3>5, <4>4, <4>5, <4>7 DEF ItemAt
    <3>6. CASE heads = {}
      BY <1>8, <1>9, <2>1, <3>3, <3>4, <3>6 DEF FirstOf
    <3> QED
      BY <3>5, <3>6
  <2>3. CASE l \notin Loaded
    <3>1. heads = {}
      BY <1>6, <2>3, OwnerLoaded
    <3>2. Target(rm, l) = ItemAt(items, FirstOf(shown))
      BY <1>1, <1>3, <1>11, <2>3 DEF Target
    <3> QED
      BY <1>8, <1>9, <2>1, <3>1, <3>2 DEF FirstOf
  <2> QED
    BY <2>2, <2>3
<1> QED
  BY <1>10, <1>11

-----------------------------------------------------------------------------
(* Directories, and what is beneath them.                                  *)

LEMMA PrefixNames ==
  ASSUME NEW a \in Seq(Nat), NEW b \in Seq(Nat)
  PROVE  IsPrefix(a, b) <=> Len(a) <= Len(b) /\ \A i \in 1..Len(a) : a[i] = b[i]
<1>1. Len(a) \in Nat /\ Len(b) \in Nat /\ (\A i \in 1..Len(a) : a[i] \in Nat) /\ \A i \in 1..Len(b) : b[i] \in Nat
  OBVIOUS
<1>2. PICK m \in Nat : m = Len(a)
  BY <1>1
<1> SUFFICES ASSUME m <= Len(b)
             PROVE  SubSeq(a, 1, m) = SubSeq(b, 1, m) <=> \A i \in 1..m : a[i] = b[i]
  BY <1>1, <1>2 DEF IsPrefix
<1>3. /\ SubSeq(a, 1, m) \in Seq(Nat) /\ Len(SubSeq(a, 1, m)) = m
      /\ \A i \in 1..m : SubSeq(a, 1, m)[i] = a[i]
  BY <1>1, <1>2
<1>4. /\ SubSeq(b, 1, m) \in Seq(Nat) /\ Len(SubSeq(b, 1, m)) = m
      /\ \A i \in 1..m : SubSeq(b, 1, m)[i] = b[i]
  BY <1>1, <1>2
<1> QED
  BY <1>3, <1>4, SeqEqual

LEMMA PrefixChain ==
  ASSUME NEW a \in Seq(Nat), NEW b \in Seq(Nat), NEW c \in Seq(Nat)
  PROVE  /\ IsPrefix(a, a)
         /\ IsPrefix(a, b) /\ IsPrefix(b, c) => IsPrefix(a, c)
         /\ IsPrefix(a, c) /\ IsPrefix(b, c) /\ Len(a) <= Len(b) => IsPrefix(a, b)
         /\ IsPrefix(a, b) /\ Len(b) <= Len(a) => a = b
<1>1. Len(a) \in Nat /\ Len(b) \in Nat /\ Len(c) \in Nat
  OBVIOUS
<1>2. IsPrefix(a, a)
  BY <1>1, PrefixNames
<1>3. IsPrefix(a, b) /\ IsPrefix(b, c) => IsPrefix(a, c)
  <2>1. IsPrefix(a, b) <=> Len(a) <= Len(b) /\ \A i \in 1..Len(a) : a[i] = b[i]
    BY PrefixNames
  <2>2. IsPrefix(b, c) <=> Len(b) <= Len(c) /\ \A i \in 1..Len(b) : b[i] = c[i]
    BY PrefixNames
  <2>3. IsPrefix(a, c) <=> Len(a) <= Len(c) /\ \A i \in 1..Len(a) : a[i] = c[i]
    BY PrefixNames
  <2> QED
    BY <1>1, <2>1, <2>2, <2>3
<1>4. IsPrefix(a, c) /\ IsPrefix(b, c) /\ Len(a) <= Len(b) => IsPrefix(a, b)
  <2>1. IsPrefix(a, b) <=> Len(a) <= Len(b) /\ \A i \in 1..Len(a) : a[i] = b[i]
    BY PrefixNames
  <2>2. IsPrefix(b, c) <=> Len(b) <= Len(c) /\ \A i \in 1..Len(b) : b[i] = c[i]
    BY PrefixNames
  <2>3. IsPrefix(a, c) <=> Len(a) <= Len(c) /\ \A i \in 1..Len(a) : a[i] = c[i]
    BY PrefixNames
  <2> QED
    BY <1>1, <2>1, <2>2, <2>3
<1>5. IsPrefix(a, b) /\ Len(b) <= Len(a) => a = b
  <2>1. IsPrefix(a, b) <=> Len(a) <= Len(b) /\ \A i \in 1..Len(a) : a[i] = b[i]
    BY PrefixNames
  <2> QED
    BY <1>1, <2>1, SeqEqual
<1> QED
  BY <1>2, <1>3, <1>4, <1>5

LEMMA NoNames ==
  ASSUME NEW d \in Seq(Nat)
  PROVE  <<>> \in Seq(Nat) /\ Len(<<>>) = 0 /\ IsPrefix(<<>>, d)
<1>4. <<>> \in Seq(Nat) /\ Len(<<>>) = 0
  OBVIOUS
<1>1. PICK e \in Seq(Nat) : e = <<>> /\ Len(e) = 0
  BY <1>4
<1>2. IsPrefix(e, d) <=> Len(e) <= Len(d) /\ \A i \in 1..Len(e) : e[i] = d[i]
  BY PrefixNames
<1>3. Len(d) \in Nat
  OBVIOUS
<1> QED
  BY <1>1, <1>2, <1>3

LEMMA DirsAreNames ==
  /\ \A f \in DOMAIN DirOf : f \in Nat /\ f # 0 /\ DirOf[f] \in Seq(Nat) /\ DirOf[f] \in Dirs
  /\ \A d \in Dirs : d \in Seq(Nat)
<1>1. \A f \in DOMAIN DirOf : f \in Nat /\ f # 0 /\ DirOf[f] \in Seq(Nat)
  BY DirOfAssumption
<1>2. ASSUME NEW f \in DOMAIN DirOf
      PROVE  DirOf[f] \in Dirs
  <2>1. DirOf[f] \in Seq(Nat)
    BY <1>1
  <2>2. PICK n : n = Len(DirOf[f])
    OBVIOUS
  <2>3. DirOf[f] = SubSeq(DirOf[f], 1, n) /\ n \in 0..Len(DirOf[f])
    BY <2>1, <2>2, SubSeqFull
  <2>4. DirOf[f] \in {SubSeq(DirOf[f], 1, k) : k \in 0..Len(DirOf[f])}
    BY <2>3
  <2> QED
    BY <2>4 DEF Dirs
<1>3. ASSUME NEW d \in Dirs
      PROVE  d \in Seq(Nat)
  <2> SUFFICES ASSUME d # <<>> PROVE d \in Seq(Nat)
    <3>1. <<>> \in Seq(Nat)
      OBVIOUS
    <3> QED
      BY <3>1
  <2>1. PICK f \in DOMAIN DirOf : d \in {SubSeq(DirOf[f], 1, n) : n \in 0..Len(DirOf[f])}
    BY DEF Dirs
  <2>2. PICK n \in 0..Len(DirOf[f]) : d = SubSeq(DirOf[f], 1, n)
    BY <2>1
  <2>3. PICK w \in Seq(Nat) : w = DirOf[f]
    BY <1>1
  <2>4. Len(w) \in Nat /\ \A i \in 1..n : w[i] \in Nat
    BY <2>2, <2>3
  <2>5. n \in Int /\ 1 \in Int
    BY <2>2, <2>3
  <2> QED
    BY <2>2, <2>3, <2>4, <2>5, SubSeqProperties
<1> QED
  BY <1>1, <1>2, <1>3

\* The part of a file's directory that is longer by one.
LEMMA ChildNames ==
  ASSUME NEW d \in Dirs, NEW f \in DOMAIN DirOf, IsPrefix(d, DirOf[f]), DirOf[f] # d
  PROVE  /\ ChildOf(d, f) \in Dirs /\ Len(ChildOf(d, f)) = Len(d) + 1
         /\ IsPrefix(d, ChildOf(d, f)) /\ IsPrefix(ChildOf(d, f), DirOf[f])
<1>1. PICK w \in Seq(Nat) : w = DirOf[f]
  BY DirsAreNames
<1>2. d \in Seq(Nat) /\ Len(d) \in Nat /\ Len(w) \in Nat
  BY DirsAreNames
<1>3. PICK m \in Nat : m = Len(d) + 1
  BY <1>2
<1>4. m <= Len(w)
  <2>1. ~(Len(w) <= Len(d))
    BY <1>1, <1>2, PrefixChain
  <2> QED
    BY <1>2, <1>3, <2>1
<1>5. \A i \in 1..m : w[i] \in Nat
  BY <1>3, <1>4
<1>6. PICK c : c = SubSeq(w, 1, m)
  OBVIOUS
<1>7. c \in Seq(Nat) /\ Len(c) = m /\ \A i \in 1..m : c[i] = w[i]
  <2>1. m \in Int /\ 1 \in Int
    BY <1>3
  <2> QED
    BY <1>3, <1>5, <1>6, <2>1
<1>8. c = ChildOf(d, f)
  BY <1>1, <1>3, <1>6 DEF ChildOf
<1>9. c \in Dirs
  <2>1. m \in 0..Len(DirOf[f])
    BY <1>1, <1>3, <1>4
  <2> QED
    BY <1>1, <1>6, <2>1 DEF Dirs
<1>10. IsPrefix(c, w)
  BY <1>4, <1>7, PrefixNames
<1>11. IsPrefix(d, c)
  <2>1. Len(d) <= Len(c)
    BY <1>2, <1>3, <1>7
  <2> QED
    BY <1>1, <1>2, <1>7, <1>10, <2>1, PrefixChain
<1> QED
  BY <1>1, <1>3, <1>7, <1>8, <1>9, <1>10, <1>11

\* There is a deepest directory.
LEMMA DirsAreBounded == \E bound \in Nat : \A d \in Dirs : Len(d) <= bound
<1>1. PICK files : files = DOMAIN DirOf /\ IsFiniteSet(files)
  BY DirOfAssumption
<1>2. PICK depth : depth = [f \in files |-> Len(DirOf[f])]
  OBVIOUS
<1>10. \A f \in files : Len(DirOf[f]) \in Nat
  <2> TAKE f \in files
  <2>1. PICK w \in Seq(Nat) : w = DirOf[f]
    BY <1>1, DirsAreNames
  <2> QED
    BY <2>1
<1>3. PICK lens \in SUBSET Nat : lens = {Len(DirOf[f]) : f \in files}
  BY <1>10
<1>4. depth \in Surjection(files, lens)
  BY <1>2, <1>3 DEF Surjection
<1>5. IsFiniteSet(lens)
  BY <1>1, <1>4, FS_Surjection
<1>6. PICK n \in Nat : /\ Ordered(lens) \in [1..n -> lens]
                       /\ \A x \in lens : \E p \in 1..n : Ordered(lens)[p] = x
                       /\ \A p, q \in 1..n : p < q => Ordered(lens)[p] < Ordered(lens)[q]
  BY <1>5, OrderedPlaces
<1>7. \E bound \in Nat : \A x \in lens : x <= bound
  <2>1. CASE n = 0
    BY <1>6, <2>1
  <2>2. CASE n # 0
    <3>1. PICK s : s = Ordered(lens)
      OBVIOUS
    <3>6. s \in [1..n -> lens]
      BY <1>6, <3>1
    <3>7. \A x \in lens : x \in Nat
      BY <1>3
    <3>8. n \in Nat
      BY <1>6
    <3>9. n \in 1..n
      BY <2>2, <3>8
    <3>10. \A p \in 1..n : s[p] \in lens
      BY <3>6
    <3>2. n \in 1..n /\ \A p \in 1..n : s[p] \in Nat
      BY <3>7, <3>9, <3>10
    <3>5. \A p, q \in 1..n : p < q => s[p] < s[q]
      BY <1>6, <3>1
    <3>3. \A p \in 1..n : s[p] <= s[n]
      <4> TAKE p \in 1..n
      <4>1. p = n \/ p < n
        OBVIOUS
      <4> QED
        BY <3>2, <3>5, <4>1
    <3>4. \A x \in lens : x <= s[n]
      BY <1>6, <3>1, <3>3
    <3> QED
      BY <3>2, <3>4
  <2> QED
    BY <2>1, <2>2
<1>8. PICK bound \in Nat : \A x \in lens : x <= bound
  BY <1>7
<1>9. ASSUME NEW d \in Dirs
      PROVE  Len(d) <= bound
  <2> SUFFICES ASSUME d # <<>> PROVE Len(d) <= bound
    <3>1. Len(<<>>) <= bound
      BY <1>8
    <3> QED
      BY <3>1
  <2>1. PICK f \in DOMAIN DirOf : d \in {SubSeq(DirOf[f], 1, m) : m \in 0..Len(DirOf[f])}
    BY DEF Dirs
  <2>2. PICK k \in 0..Len(DirOf[f]) : d = SubSeq(DirOf[f], 1, k)
    BY <2>1
  <2>3. PICK w \in Seq(Nat) : w = DirOf[f]
    BY DirsAreNames
  <2>4. Len(w) <= bound /\ Len(w) \in Nat
    BY <1>1, <1>3, <1>8, <2>3
  <2>5. k \in Int /\ 1 \in Int /\ k \in Nat /\ k <= Len(w) /\ \A i \in 1..k : w[i] \in Nat
    BY <2>2, <2>3
  <2>6. Len(d) = IF 1 <= k THEN k - 1 + 1 ELSE 0
    BY <2>2, <2>3, <2>5, SubSeqProperties
  <2> QED
    BY <2>4, <2>5, <2>6
<1> QED
  BY <1>9

-----------------------------------------------------------------------------
(* The directories right beneath another, and the chains of single ones.   *)

ChildDirs(files, d, s) ==
    /\ s \in Seq(Dirs)
    /\ \A i \in DOMAIN s :
          /\ Len(s[i]) = Len(d) + 1 /\ IsPrefix(d, s[i])
          /\ \E f \in Beneath(files, d) \ Direct(files, d) : s[i] = ChildOf(d, f)
    /\ \A f \in Beneath(files, d) \ Direct(files, d) : \E i \in DOMAIN s : s[i] = ChildOf(d, f)
    /\ \A i, j \in DOMAIN s : i # j => s[i] # s[j]

LEMMA BeneathOf ==
  ASSUME NEW files \in SUBSET DOMAIN DirOf, NEW d \in Dirs, NEW f
  PROVE  /\ f \in Beneath(files, d) \ Direct(files, d) <=> f \in files /\ IsPrefix(d, DirOf[f]) /\ DirOf[f] # d
         /\ f \in Direct(files, d) <=> f \in files /\ DirOf[f] = d
         /\ f \in Beneath(files, d) <=> f \in files /\ IsPrefix(d, DirOf[f])
BY DEF Beneath, Direct

LEMMA ChildDirectories ==
  ASSUME NEW files \in SUBSET DOMAIN DirOf, NEW d \in Dirs
  PROVE  ChildDirs(files, d, Directories(files, d))
<1> DEFINE Below == Beneath(files, d) \ Direct(files, d)
<1>1. PICK below \in SUBSET DOMAIN DirOf : below = Below
  BY DEF Beneath, Direct
<1>2. PICK child : child = [f \in below |-> ChildOf(d, f)]
  OBVIOUS
<1>3. ASSUME NEW f \in below
      PROVE  /\ child[f] \in Dirs /\ Len(child[f]) = Len(d) + 1 /\ IsPrefix(d, child[f])
             /\ child[f] = ChildOf(d, f)
  BY <1>1, <1>2, BeneathOf, ChildNames
<1>4. PICK first \in SUBSET below : first = {f \in below : \A g \in below : child[f] = child[g] => f <= g}
  OBVIOUS
<1>5. \A f \in below : f \in Nat
  BY <1>1, DirsAreNames
<1>6. IsFiniteSet(first) /\ first \in SUBSET Nat
  <2>1. IsFiniteSet(below)
    BY <1>1, DirOfAssumption, FS_Subset
  <2>2. IsFiniteSet(first)
    BY <1>4, <2>1, FS_Subset
  <2> QED
    BY <1>4, <1>5, <2>2
<1>7. PICK n \in Nat : /\ n = Cardinality(first) /\ Ordered(first) \in [1..n -> first]
                       /\ \A x \in first : \E p \in 1..n : Ordered(first)[p] = x
                       /\ \A p, q \in 1..n : p < q => Ordered(first)[p] < Ordered(first)[q]
  BY <1>6, OrderedPlaces
<1>8. PICK o \in [1..n -> first] : o = Ordered(first)
  BY <1>7
<1>9. n \in Nat /\ (\A x \in first : \E p \in 1..n : o[p] = x) /\ \A p, q \in 1..n : p < q => o[p] < o[q]
  BY <1>7, <1>8
<1>10. PICK s : s = [i \in 1..n |-> child[o[i]]]
  OBVIOUS
<1>11. s = Directories(files, d)
  <2>1. first = {f \in Below : \A g \in Below : ChildOf(d, f) = ChildOf(d, g) => f <= g}
    BY <1>1, <1>2, <1>4
  <2>2. PICK F : F = {f \in Below : \A g \in Below : ChildOf(d, f) = ChildOf(d, g) => f <= g}
    OBVIOUS
  <2>3. Directories(files, d) = [i \in 1..Cardinality(F) |-> ChildOf(d, Ordered(F)[i])]
    BY <2>2 DEF Directories
  <2>4. Directories(files, d) = [i \in 1..n |-> ChildOf(d, o[i])]
    BY <1>7, <1>8, <2>1, <2>2, <2>3
  <2>5. \A i \in 1..n : o[i] \in below
    BY <1>4, <1>8
  <2>6. \A i \in 1..n : child[o[i]] = ChildOf(d, o[i])
    BY <1>2, <2>5
  <2> QED
    BY <1>10, <2>4, <2>6
<1>12. s \in Seq(Dirs) /\ DOMAIN s = 1..n
  <2>1. \A i \in 1..n : child[o[i]] \in Dirs
    BY <1>3, <1>4, <1>8
  <2>2. s \in [1..n -> Dirs]
    BY <1>10, <2>1
  <2> QED
    BY <1>9, <2>2, FunctionIsSeq
<1>13. ASSUME NEW i \in 1..n
       PROVE  /\ Len(s[i]) = Len(d) + 1 /\ IsPrefix(d, s[i])
              /\ \E f \in Below : s[i] = ChildOf(d, f)
  <2>1. o[i] \in below /\ s[i] = child[o[i]]
    BY <1>4, <1>8, <1>10
  <2> QED
    BY <1>1, <1>3, <2>1
<1>14. ASSUME NEW f \in below
       PROVE  \E i \in 1..n : s[i] = child[f]
  <2>1. PICK same \in SUBSET below : same = {g \in below : child[g] = child[f]}
    OBVIOUS
  <2>2. same # {} /\ same \in SUBSET Nat
    BY <1>5, <2>1
  <2>3. PICK g \in same : \A h \in same : g <= h
    BY <2>2, LeastNumber
  <2>4. g \in first
    BY <1>4, <2>1, <2>3
  <2>5. PICK p \in 1..n : o[p] = g
    BY <1>9, <2>4
  <2> QED
    BY <1>10, <2>1, <2>3, <2>5
<1>15. ASSUME NEW i \in 1..n, NEW j \in 1..n, i # j
       PROVE  s[i] # s[j]
  <2>1. o[i] \in first /\ o[j] \in first /\ o[i] \in below /\ o[j] \in below
    BY <1>4, <1>8
  <2>2. o[i] \in Nat /\ o[j] \in Nat
    BY <1>5, <2>1
  <2>3. i < j \/ j < i
    BY <1>9, <1>15
  <2>4. o[i] # o[j]
    BY <1>9, <2>2, <2>3
  <2>5. child[o[i]] = child[o[j]] => o[i] <= o[j] /\ o[j] <= o[i]
    BY <1>4, <2>1
  <2> QED
    BY <1>10, <2>2, <2>4, <2>5
<1>16. \A f \in Below : \E i \in 1..n : s[i] = ChildOf(d, f)
  BY <1>1, <1>2, <1>14
<1>17. ChildDirs(files, d, s)
  BY <1>12, <1>13, <1>15, <1>16 DEF ChildDirs
<1> QED
  BY <1>11, <1>17

-----------------------------------------------------------------------------

Compresses(files, g) ==
    g = [d \in Dirs |-> IF Direct(files, d) = {} /\ Len(Directories(files, d)) = 1
                        THEN g[Directories(files, d)[1]] ELSE d]

\* A directory that is joined goes one deeper.
LEMMA OnlyChild ==
  ASSUME NEW files \in SUBSET DOMAIN DirOf, NEW d \in Dirs,
         Direct(files, d) = {}, Len(Directories(files, d)) = 1
  PROVE  /\ Directories(files, d)[1] \in Dirs
         /\ Len(Directories(files, d)[1]) = Len(d) + 1
         /\ IsPrefix(d, Directories(files, d)[1])
         /\ Beneath(files, Directories(files, d)[1]) = Beneath(files, d)
<1>1. PICK s : s = Directories(files, d)
  OBVIOUS
<1>2. ChildDirs(files, d, s)
  BY <1>1, ChildDirectories
<1>3. s \in Seq(Dirs) /\ Len(s) = 1 /\ DOMAIN s = {1}
  <2>1. s \in Seq(Dirs) /\ Len(s) = 1
    BY <1>1, <1>2 DEF ChildDirs
  <2>2. DOMAIN s = 1..1
    BY <2>1
  <2> QED
    BY <2>1, <2>2
<1>4. PICK c : c = s[1]
  OBVIOUS
<1>5. c \in Dirs /\ Len(c) = Len(d) + 1 /\ IsPrefix(d, c)
  BY <1>2, <1>3, <1>4 DEF ChildDirs
<1>6. \A f \in Beneath(files, d) \ Direct(files, d) : c = ChildOf(d, f)
  BY <1>2, <1>3, <1>4 DEF ChildDirs
<1>7. Beneath(files, c) = Beneath(files, d)
  <2>1. ASSUME NEW f \in Beneath(files, d)
        PROVE  f \in Beneath(files, c)
    <3>1. f \in files /\ IsPrefix(d, DirOf[f]) /\ DirOf[f] # d /\ c = ChildOf(d, f)
      BY <1>6, BeneathOf
    <3>2. IsPrefix(c, DirOf[f])
      BY <3>1, ChildNames
    <3> QED
      BY <1>5, <3>1, <3>2, BeneathOf
  <2>2. ASSUME NEW f \in Beneath(files, c)
        PROVE  f \in Beneath(files, d)
    <3>1. f \in files /\ IsPrefix(c, DirOf[f])
      BY <1>5, BeneathOf
    <3>2. d \in Seq(Nat) /\ c \in Seq(Nat) /\ DirOf[f] \in Seq(Nat)
      BY <1>5, <3>1, DirsAreNames
    <3>3. IsPrefix(d, DirOf[f])
      BY <1>5, <3>1, <3>2, PrefixChain
    <3> QED
      BY <3>1, <3>3, BeneathOf
  <2>3. Beneath(files, c) \in SUBSET files /\ Beneath(files, d) \in SUBSET files
    BY DEF Beneath
  <2> QED
    BY <2>1, <2>2, <2>3
<1> QED
  BY <1>1, <1>4, <1>5, <1>7

LEMMA CompressesExists ==
  ASSUME NEW files \in SUBSET DOMAIN DirOf
  PROVE  \E g : Compresses(files, g)
<1>1. PICK bound \in Nat : \A d \in Dirs : Len(d) <= bound
  BY DirsAreBounded
<1>2. PICK joins : joins = {d \in Dirs : Direct(files, d) = {} /\ Len(Directories(files, d)) = 1}
  OBVIOUS
<1>3. PICK child : child = [d \in Dirs |-> Directories(files, d)[1]]
  OBVIOUS
<1>4. PICK depth : depth = [d \in Dirs |-> Len(d)]
  OBVIOUS
<1>5. \A d \in Dirs : depth[d] \in Nat /\ depth[d] <= bound
  <2> TAKE d \in Dirs
  <2>1. d \in Seq(Nat)
    BY DirsAreNames
  <2> QED
    BY <1>1, <1>4, <2>1
<1>6. \A d \in joins : child[d] \in Dirs /\ depth[child[d]] = depth[d] + 1
  BY <1>2, <1>3, <1>4, OnlyChild
<1> DEFINE Deep(k) == {d \in Dirs : bound - depth[d] < k}
           Good(k) == \E g : g = [d \in Deep(k) |-> IF d \in joins THEN g[child[d]] ELSE d]
           Bad == {k \in Nat : ~Good(k)}
<1>7. Bad = {}
  <2> SUFFICES ASSUME Bad # {} PROVE FALSE
    OBVIOUS
  <2>1. PICK k \in Bad : \A m \in Bad : k <= m
    <3> HIDE DEF Bad
    <3>1. Bad \in SUBSET Nat
      BY DEF Bad
    <3> QED
      BY <3>1, LeastNumber
  <2>2. k \in Nat /\ ~Good(k)
    BY <2>1
  <2>3. CASE k = 0
    <3>1. Deep(k) = {}
      BY <1>1, <1>5, <2>3
    <3> HIDE DEF Deep
    <3>2. PICK g : g = [d \in {} |-> d]
      OBVIOUS
    <3>3. g = [d \in Deep(k) |-> IF d \in joins THEN g[child[d]] ELSE d]
      BY <3>1, <3>2
    <3> QED
      BY <2>2, <3>3
  <2>4. CASE k # 0
    <3>1. k - 1 \in Nat /\ ~(k <= k - 1)
      BY <2>2, <2>4
    <3>2. Good(k - 1)
      <4> HIDE DEF Good
      <4> QED
        BY <2>1, <3>1
    <3>3. PICK h : h = [d \in Deep(k - 1) |-> IF d \in joins THEN h[child[d]] ELSE d]
      BY <3>2
    <3>4. PICK g : g = [d \in Deep(k) |-> IF d \in joins THEN h[child[d]] ELSE d]
      OBVIOUS
    <3>5. \A d \in Deep(k - 1) : d \in Deep(k) /\ g[d] = h[d]
      <4> TAKE d \in Deep(k - 1)
      <4>1. d \in Deep(k)
        BY <1>1, <1>5, <2>2
      <4> HIDE DEF Deep
      <4> QED
        BY <3>3, <3>4, <4>1
    <3>6. \A d \in Deep(k) : d \in joins => child[d] \in Deep(k - 1)
      BY <1>1, <1>5, <1>6, <2>2
    <3> HIDE DEF Deep
    <3>7. \A d \in Deep(k) : g[d] = IF d \in joins THEN g[child[d]] ELSE d
      <4> TAKE d \in Deep(k)
      <4>1. g[d] = IF d \in joins THEN h[child[d]] ELSE d
        BY <3>4
      <4>2. d \in joins => h[child[d]] = g[child[d]]
        BY <3>5, <3>6
      <4> QED
        BY <4>1, <4>2
    <3>8. g = [d \in Deep(k) |-> IF d \in joins THEN g[child[d]] ELSE d]
      BY <3>4, <3>7
    <3> QED
      BY <2>2, <3>8
  <2> QED
    BY <2>3, <2>4
<1>8. Good(bound + 1)
  <2>1. bound + 1 \in Nat
    BY <1>1
  <2> HIDE DEF Good
  <2> QED
    BY <1>7, <2>1
<1>9. Deep(bound + 1) = Dirs
  BY <1>1, <1>5
<1> HIDE DEF Deep
<1>10. PICK g : g = [d \in Dirs |-> IF d \in joins THEN g[child[d]] ELSE d]
  BY <1>8, <1>9
<1>11. \A d \in Dirs : g[d] = IF Direct(files, d) = {} /\ Len(Directories(files, d)) = 1
                              THEN g[Directories(files, d)[1]] ELSE d
  <2> TAKE d \in Dirs
  <2>1. g[d] = IF d \in joins THEN g[child[d]] ELSE d
    BY <1>10
  <2> QED
    BY <1>2, <1>3, <2>1
<1>12. Compresses(files, g)
  <2>1. g = [d \in Dirs |-> g[d]]
    BY <1>10
  <2> QED
    BY <1>11, <2>1 DEF Compresses
<1> QED
  BY <1>12

LEMMA CompressedDirectory ==
  ASSUME NEW files \in SUBSET DOMAIN DirOf, NEW dir \in Dirs
  PROVE  /\ Compressed(files, dir) \in Dirs /\ IsPrefix(dir, Compressed(files, dir))
         /\ Beneath(files, Compressed(files, dir)) = Beneath(files, dir)
<1>1. PICK g : g = CHOOSE h : Compresses(files, h)
  OBVIOUS
<1>2. Compresses(files, g)
  BY <1>1, CompressesExists
<1>3. \A d \in Dirs : Compressed(files, d) = g[d]
  BY <1>1 DEF Compressed, Compresses
<1>4. PICK bound \in Nat : \A d \in Dirs : Len(d) <= bound
  BY DirsAreBounded
<1>5. \A d \in Dirs : d \in Seq(Nat) /\ Len(d) \in Nat
  BY DirsAreNames
<1> DEFINE Good(d) == g[d] \in Dirs /\ IsPrefix(d, g[d]) /\ Beneath(files, g[d]) = Beneath(files, d)
           Bad == {k \in Nat : \E d \in Dirs : k = bound - Len(d) /\ ~Good(d)}
<1>6. Bad = {}
  <2> SUFFICES ASSUME Bad # {} PROVE FALSE
    OBVIOUS
  <2>1. PICK k \in Bad : \A m \in Bad : k <= m
    <3> HIDE DEF Bad
    <3>1. Bad \in SUBSET Nat
      BY DEF Bad
    <3> QED
      BY <3>1, LeastNumber
  <2> HIDE DEF Good
  <2>2. PICK d \in Dirs : k = bound - Len(d) /\ ~Good(d)
    BY <2>1
  <2>3. k \in Nat /\ d \in Seq(Nat) /\ Len(d) \in Nat
    BY <1>5, <2>1
  <2>4. g[d] = IF Direct(files, d) = {} /\ Len(Directories(files, d)) = 1
               THEN g[Directories(files, d)[1]] ELSE d
    BY <1>2 DEF Compresses
  <2>5. CASE Direct(files, d) = {} /\ Len(Directories(files, d)) = 1
    <3>1. PICK c \in Dirs : /\ c = Directories(files, d)[1] /\ Len(c) = Len(d) + 1
                            /\ IsPrefix(d, c) /\ Beneath(files, c) = Beneath(files, d)
      BY <2>5, OnlyChild
    <3>2. bound - Len(c) \in Nat /\ bound - Len(c) < k
      BY <1>4, <1>5, <2>2, <2>3, <3>1
    <3>3. Good(c)
      <4>1. PICK m \in Nat : m = bound - Len(c) /\ ~(k <= m)
        BY <2>3, <3>2
      <4>2. m \notin Bad
        BY <2>1, <4>1
      <4> QED
        BY <3>1, <4>1, <4>2
    <3>4. c \in Seq(Nat) /\ g[c] \in Dirs /\ IsPrefix(c, g[c]) /\ g[c] \in Seq(Nat)
      BY <1>5, <3>3 DEF Good
    <3>5. IsPrefix(d, g[c])
      BY <2>3, <3>1, <3>4, PrefixChain
    <3> QED
      BY <2>2, <2>4, <2>5, <3>1, <3>3, <3>5 DEF Good
  <2>6. CASE ~(Direct(files, d) = {} /\ Len(Directories(files, d)) = 1)
    <3>1. g[d] = d /\ IsPrefix(d, d)
      BY <2>3, <2>4, <2>6, PrefixChain
    <3> QED
      BY <2>2, <3>1 DEF Good
  <2> QED
    BY <2>5, <2>6
<1>7. Good(dir)
  <2>1. bound - Len(dir) \in Nat
    BY <1>4, <1>5
  <2> HIDE DEF Good
  <2> QED
    BY <1>6, <2>1
<1> QED
  BY <1>3, <1>7

-----------------------------------------------------------------------------
(* A concatenation of sequences, one after the other.                      *)

Flattens(seqs, g) ==
    g = [i \in 1..Len(seqs) |-> IF i = 1 THEN seqs[i] ELSE g[i - 1] \o seqs[i]]

LEMMA FlattensExists ==
  ASSUME NEW S, NEW seqs \in Seq(S)
  PROVE  \E g : Flattens(seqs, g)
<1>1. PICK n \in Nat : n = Len(seqs)
  OBVIOUS
<1> DEFINE Good(k) == \E g : g = [i \in 1..k |-> IF i = 1 THEN seqs[i] ELSE g[i - 1] \o seqs[i]]
           Bad == {k \in Nat : ~Good(k)}
<1>2. Bad = {}
  <2> SUFFICES ASSUME Bad # {} PROVE FALSE
    OBVIOUS
  <2>1. PICK k \in Bad : \A m \in Bad : k <= m
    <3> HIDE DEF Bad
    <3>1. Bad \in SUBSET Nat
      BY DEF Bad
    <3> QED
      BY <3>1, LeastNumber
  <2>2. k \in Nat /\ ~Good(k)
    BY <2>1
  <2>3. CASE k = 0
    <3>1. PICK g : g = [i \in {} |-> i]
      OBVIOUS
    <3>2. 1..k = {}
      BY <2>3
    <3>3. g = [i \in 1..k |-> IF i = 1 THEN seqs[i] ELSE g[i - 1] \o seqs[i]]
      BY <3>1, <3>2
    <3> QED
      BY <2>2, <3>3
  <2>4. CASE k # 0
    <3>1. k - 1 \in Nat /\ ~(k <= k - 1)
      BY <2>2, <2>4
    <3>2. Good(k - 1)
      <4> HIDE DEF Good
      <4> QED
        BY <2>1, <3>1
    <3>3. PICK h : h = [i \in 1..(k - 1) |-> IF i = 1 THEN seqs[i] ELSE h[i - 1] \o seqs[i]]
      BY <3>2
    <3>4. PICK g : g = [i \in 1..k |-> IF i = 1 THEN seqs[i] ELSE h[i - 1] \o seqs[i]]
      OBVIOUS
    <3>5. \A i \in 1..(k - 1) : g[i] = h[i]
      <4> TAKE i \in 1..(k - 1)
      <4>1. i \in 1..k
        BY <2>2
      <4>2. h[i] = IF i = 1 THEN seqs[i] ELSE h[i - 1] \o seqs[i]
        BY <3>3
      <4> QED
        BY <3>4, <4>1, <4>2
    <3>6. \A i \in 1..k : i # 1 => g[i - 1] = h[i - 1]
      BY <2>2, <3>5
    <3>7. g = [i \in 1..k |-> IF i = 1 THEN seqs[i] ELSE g[i - 1] \o seqs[i]]
      BY <3>4, <3>6
    <3> QED
      BY <2>2, <3>7
  <2> QED
    BY <2>3, <2>4
<1>3. Good(n)
  <2> HIDE DEF Good
  <2> QED
    BY <1>1, <1>2
<1> QED
  BY <1>1, <1>3 DEF Flattens

LEMMA FlattenSteps ==
  ASSUME NEW S, NEW seqs \in Seq(Seq(S))
  PROVE  \E w : /\ w[0] = <<>> /\ w[Len(seqs)] = FlattenSeq(seqs)
                /\ \A i \in 1..Len(seqs) : w[i] = w[i - 1] \o seqs[i]
<1>1. PICK n \in Nat : n = Len(seqs)
  OBVIOUS
<1>2. PICK g : g = CHOOSE h : Flattens(seqs, h)
  OBVIOUS
<1>3. Flattens(seqs, g)
  <2>1. \E h : Flattens(seqs, h)
    BY FlattensExists
  <2> QED
    BY <1>2, <2>1
<1>4. \A i \in 1..n : g[i] = IF i = 1 THEN seqs[i] ELSE g[i - 1] \o seqs[i]
  BY <1>1, <1>3 DEF Flattens
<1>5. FlattenSeq(seqs) = IF n = 0 THEN seqs ELSE g[n]
  BY <1>1, <1>2 DEF FlattenSeq, Flattens
<1>6. PICK w : w = [i \in 0..n |-> IF i = 0 THEN <<>> ELSE g[i]]
  OBVIOUS
<1>7. w[0] = <<>> /\ \A i \in 1..n : w[i] = g[i]
  BY <1>1, <1>6
<1>8. w[n] = FlattenSeq(seqs)
  <2>1. n = 0 => seqs = <<>>
    <3>1. PICK T : T = Seq(S) /\ seqs \in Seq(T)
      OBVIOUS
    <3> QED
      BY <1>1, <3>1, EmptySeq
  <2>2. n # 0 => n \in 1..n
    BY <1>1
  <2>3. CASE n = 0
    BY <1>5, <1>7, <2>1, <2>3
  <2>4. CASE n # 0
    BY <1>5, <1>7, <2>2, <2>4
  <2> QED
    BY <2>3, <2>4
<1>9. ASSUME NEW i \in 1..n
      PROVE  w[i] = w[i - 1] \o seqs[i]
  <2>1. seqs[i] \in Seq(S)
    BY <1>1
  <2>2. CASE i = 1
    <3>1. w[i - 1] = <<>> /\ w[i] = seqs[i]
      BY <1>4, <1>7, <2>2
    <3> QED
      BY <2>1, <3>1, ConcatEmptySeq
  <2>3. CASE i # 1
    <3>1. i - 1 \in 1..n
      BY <1>1, <2>3
    <3> QED
      BY <1>4, <1>7, <2>3, <3>1
  <2> QED
    BY <2>2, <2>3
<1> QED
  BY <1>1, <1>7, <1>8, <1>9

-----------------------------------------------------------------------------
(* Rows that show a set of files: each in one row, unless it is beneath a  *)
(* collapsed directory, and each directory right before what is beneath it.*)

Hidden(f, collapsed, rows) ==
    \E i \in DOMAIN rows : IsDirectory(rows[i]) /\ rows[i].dir \in collapsed /\ IsPrefix(rows[i].dir, DirOf[f])

ShowsFiles(files, collapsed, rows) ==
    /\ rows \in Seq(TreeRow)
    /\ \A i \in DOMAIN rows : ~IsDirectory(rows[i]) => rows[i].file \in files /\ rows[i].dir = DirOf[rows[i].file]
    /\ \A i, j \in DOMAIN rows : ~IsDirectory(rows[i]) /\ rows[i].file = rows[j].file => i = j
    /\ \A f \in files : (\E i \in DOMAIN rows : rows[i].file = f) <=> ~Hidden(f, collapsed, rows)
    /\ \A i, j \in DOMAIN rows :
          IsDirectory(rows[i]) /\ i # j /\ IsPrefix(rows[i].dir, rows[j].dir) =>
             i < j /\ \A k \in (i + 1)..j : IsPrefix(rows[i].dir, rows[k].dir)

\* No directory of these rows is above what the others show.
Apart(rows, files, others) ==
    \A i \in DOMAIN rows : IsDirectory(rows[i]) =>
       /\ \A j \in DOMAIN others : ~IsPrefix(rows[i].dir, others[j].dir)
       /\ \A f \in files : ~IsPrefix(rows[i].dir, DirOf[f])

LEMMA ConcatPlaces ==
  ASSUME NEW S, NEW a \in Seq(S), NEW b \in Seq(S)
  PROVE  /\ a \o b \in Seq(S) /\ Len(a) \in Nat /\ Len(b) \in Nat
         /\ DOMAIN a = 1..Len(a) /\ DOMAIN b = 1..Len(b) /\ DOMAIN (a \o b) = 1..(Len(a) + Len(b))
         /\ \A i \in 1..Len(a) : (a \o b)[i] = a[i]
         /\ \A i \in 1..Len(b) : (a \o b)[Len(a) + i] = b[i]
<1>1. /\ a \o b \in Seq(S) /\ Len(a \o b) = Len(a) + Len(b)
      /\ \A i \in 1 .. Len(a) + Len(b) : (a \o b)[i] = IF i <= Len(a) THEN a[i] ELSE b[i - Len(a)]
  BY ConcatProperties
<1>2. Len(a) \in Nat /\ Len(b) \in Nat /\ DOMAIN a = 1..Len(a) /\ DOMAIN b = 1..Len(b)
  OBVIOUS
<1>3. PICK w \in Seq(S) : w = a \o b
  BY <1>1
<1>4. DOMAIN w = 1..(Len(a) + Len(b))
  BY <1>1, <1>3
<1>5. \A i \in 1..Len(a) : w[i] = a[i]
  BY <1>1, <1>2, <1>3
<1>6. \A i \in 1..Len(b) : w[Len(a) + i] = b[i]
  <2> TAKE i \in 1..Len(b)
  <2>1. PICK p \in 1..(Len(a) + Len(b)) : p = Len(a) + i /\ ~(p <= Len(a)) /\ p - Len(a) = i
    BY <1>2
  <2> QED
    BY <1>1, <1>3, <2>1
<1> QED
  BY <1>1, <1>2, <1>3, <1>4, <1>5, <1>6

LEMMA RowsJoined ==
  ASSUME NEW E, NEW F, NEW collapsed, NEW a, NEW b, E \cap F = {},
         ShowsFiles(E, collapsed, a), ShowsFiles(F, collapsed, b), Apart(a, F, b), Apart(b, E, a),
         0 \notin E \union F
  PROVE  ShowsFiles(E \union F, collapsed, a \o b)
<1>1. PICK m, n, w : m = Len(a) /\ n = Len(b) /\ w = a \o b
  OBVIOUS
<1>2. a \in Seq(TreeRow) /\ b \in Seq(TreeRow)
  BY DEF ShowsFiles
<1>3. /\ w \in Seq(TreeRow) /\ m \in Nat /\ n \in Nat
      /\ DOMAIN a = 1..m /\ DOMAIN b = 1..n /\ DOMAIN w = 1..(m + n)
      /\ \A i \in 1..m : w[i] = a[i]
      /\ \A i \in 1..n : w[m + i] = b[i]
  BY <1>1, <1>2, ConcatPlaces
<1>4. \A i \in 1..(m + n) : i \in 1..m \/ (i > m /\ i - m \in 1..n /\ w[i] = b[i - m])
  <2> TAKE i \in 1..(m + n)
  <2> SUFFICES ASSUME i \notin 1..m
               PROVE  i > m /\ i - m \in 1..n /\ w[i] = b[i - m]
    OBVIOUS
  <2>1. PICK k \in 1..n : k = i - m /\ i = m + k /\ i > m
    BY <1>3
  <2> QED
    BY <1>3, <2>1
<1>5. \A i \in 1..n : m + i \in 1..(m + n)
  BY <1>3
<1>15. \A i \in 1..m : i \in 1..(m + n)
  BY <1>3
<1>6. ASSUME NEW i \in DOMAIN w, ~IsDirectory(w[i])
      PROVE  w[i].file \in E \union F /\ w[i].dir = DirOf[w[i].file]
  <2>1. CASE i \in 1..m
    BY <1>3, <1>6, <2>1 DEF ShowsFiles
  <2>2. CASE i - m \in 1..n /\ w[i] = b[i - m]
    BY <1>3, <1>6, <2>2 DEF ShowsFiles
  <2> QED
    BY <1>3, <1>4, <2>1, <2>2
<1>7. ASSUME NEW i \in DOMAIN w, NEW j \in DOMAIN w, ~IsDirectory(w[i]), w[i].file = w[j].file
      PROVE  i = j
  <2>1. ~IsDirectory(w[j])
    BY <1>7 DEF IsDirectory
  <2>2. CASE i \in 1..m /\ j \in 1..m
    BY <1>3, <1>7, <2>2 DEF ShowsFiles
  <2>3. CASE i - m \in 1..n /\ w[i] = b[i - m] /\ j - m \in 1..n /\ w[j] = b[j - m]
    <3>1. i - m = j - m
      BY <1>3, <1>7, <2>3 DEF ShowsFiles
    <3> QED
      BY <1>3, <3>1
  <2>4. CASE i \in 1..m /\ j - m \in 1..n /\ w[j] = b[j - m]
    <3>1. w[i].file \in E
      BY <1>3, <1>7, <2>4 DEF ShowsFiles
    <3>2. w[j].file \in F
      BY <1>3, <2>1, <2>4 DEF ShowsFiles
    <3> QED
      BY <1>7, <3>1, <3>2
  <2>5. CASE j \in 1..m /\ i - m \in 1..n /\ w[i] = b[i - m]
    <3>1. w[j].file \in E
      BY <1>3, <2>1, <2>5 DEF ShowsFiles
    <3>2. w[i].file \in F
      BY <1>3, <1>7, <2>5 DEF ShowsFiles
    <3> QED
      BY <1>7, <3>1, <3>2
  <2> QED
    BY <1>3, <1>4, <2>2, <2>3, <2>4, <2>5
<1>8. ASSUME NEW f \in E
      PROVE  (\E i \in DOMAIN w : w[i].file = f) <=> ~Hidden(f, collapsed, w)
  <2>1. (\E i \in DOMAIN w : w[i].file = f) <=> \E i \in DOMAIN a : a[i].file = f
    <3>1. ASSUME NEW i \in DOMAIN w, w[i].file = f
          PROVE  \E k \in DOMAIN a : a[k].file = f
      <4>1. CASE i \in 1..m
        BY <1>3, <3>1, <4>1
      <4>2. CASE i - m \in 1..n /\ w[i] = b[i - m]
        <5>1. ~IsDirectory(w[i])
          BY <3>1 DEF IsDirectory
        <5>2. w[i].file \in F
          BY <1>3, <4>2, <5>1 DEF ShowsFiles
        <5> QED
          BY <1>8, <3>1, <5>2
      <4> QED
        BY <1>3, <1>4, <4>1, <4>2
    <3> QED
      BY <1>3, <1>15, <3>1
  <2>2. Hidden(f, collapsed, w) <=> Hidden(f, collapsed, a)
    <3>1. ASSUME NEW i \in DOMAIN w, IsDirectory(w[i]), w[i].dir \in collapsed, IsPrefix(w[i].dir, DirOf[f])
          PROVE  Hidden(f, collapsed, a)
      <4>1. CASE i \in 1..m
        BY <1>3, <3>1, <4>1 DEF Hidden
      <4>2. CASE i - m \in 1..n /\ w[i] = b[i - m]
        BY <1>3, <1>8, <3>1, <4>2 DEF Apart
      <4> QED
        BY <1>3, <1>4, <4>1, <4>2
    <3>2. ASSUME Hidden(f, collapsed, a)
          PROVE  Hidden(f, collapsed, w)
      BY <1>3, <1>15, <3>2 DEF Hidden
    <3> QED
      BY <3>1, <3>2 DEF Hidden
  <2> QED
    BY <1>8, <2>1, <2>2 DEF ShowsFiles
<1>9. ASSUME NEW f \in F
      PROVE  (\E i \in DOMAIN w : w[i].file = f) <=> ~Hidden(f, collapsed, w)
  <2>1. (\E i \in DOMAIN w : w[i].file = f) <=> \E i \in DOMAIN b : b[i].file = f
    <3>1. ASSUME NEW i \in DOMAIN w, w[i].file = f
          PROVE  \E k \in DOMAIN b : b[k].file = f
      <4>1. CASE i \in 1..m
        <5>1. ~IsDirectory(w[i])
          BY <3>1 DEF IsDirectory
        <5>2. w[i].file \in E
          BY <1>3, <4>1, <5>1 DEF ShowsFiles
        <5> QED
          BY <1>9, <3>1, <5>2
      <4>2. CASE i - m \in 1..n /\ w[i] = b[i - m]
        BY <1>3, <3>1, <4>2
      <4> QED
        BY <1>3, <1>4, <4>1, <4>2
    <3> QED
      BY <1>3, <1>5, <3>1
  <2>2. Hidden(f, collapsed, w) <=> Hidden(f, collapsed, b)
    <3>1. ASSUME NEW i \in DOMAIN w, IsDirectory(w[i]), w[i].dir \in collapsed, IsPrefix(w[i].dir, DirOf[f])
          PROVE  Hidden(f, collapsed, b)
      <4>1. CASE i \in 1..m
        BY <1>3, <1>9, <3>1, <4>1 DEF Apart
      <4>2. CASE i - m \in 1..n /\ w[i] = b[i - m]
        BY <1>3, <3>1, <4>2 DEF Hidden
      <4> QED
        BY <1>3, <1>4, <4>1, <4>2
    <3>2. ASSUME Hidden(f, collapsed, b)
          PROVE  Hidden(f, collapsed, w)
      BY <1>3, <1>5, <3>2 DEF Hidden
    <3> QED
      BY <3>1, <3>2 DEF Hidden
  <2> QED
    BY <1>9, <2>1, <2>2 DEF ShowsFiles
<1>10. ASSUME NEW i \in DOMAIN w, NEW j \in DOMAIN w,
              IsDirectory(w[i]), i # j, IsPrefix(w[i].dir, w[j].dir)
       PROVE  i < j /\ \A k \in (i + 1)..j : IsPrefix(w[i].dir, w[k].dir)
  <2>1. CASE i \in 1..m /\ j \in 1..m
    <3>1. i < j /\ \A k \in (i + 1)..j : IsPrefix(a[i].dir, a[k].dir)
      BY <1>3, <1>10, <2>1 DEF ShowsFiles
    <3>2. \A k \in (i + 1)..j : k \in 1..m
      BY <1>3, <2>1
    <3> QED
      BY <1>3, <2>1, <3>1, <3>2
  <2>2. CASE i - m \in 1..n /\ w[i] = b[i - m] /\ j - m \in 1..n /\ w[j] = b[j - m]
    <3>4. m \in Nat /\ n \in Nat /\ i \in 1..(m + n) /\ j \in 1..(m + n) /\ i - m \in 1..n /\ j - m \in 1..n
      BY <1>3, <1>10, <2>2
    <3>1. PICK p \in 1..n, q \in 1..n : p = i - m /\ q = j - m /\ i = m + p /\ j = m + q
      BY <3>4
    <3>2. p < q /\ \A k \in (p + 1)..q : IsPrefix(b[p].dir, b[k].dir)
      BY <1>3, <1>10, <2>2, <3>1 DEF ShowsFiles
    <3>3. ASSUME NEW k \in (i + 1)..j
          PROVE  IsPrefix(w[i].dir, w[k].dir)
      <4>1. PICK h \in (p + 1)..q : h = k - m /\ k = m + h /\ h \in 1..n
        BY <3>1, <3>4
      <4> QED
        BY <1>3, <2>2, <3>1, <3>2, <4>1
    <3> QED
      BY <1>3, <3>1, <3>2, <3>3
  <2>3. CASE i \in 1..m /\ j - m \in 1..n /\ w[j] = b[j - m]
    BY <1>3, <1>10, <2>3 DEF Apart
  <2>4. CASE j \in 1..m /\ i - m \in 1..n /\ w[i] = b[i - m]
    BY <1>3, <1>10, <2>4 DEF Apart
  <2> QED
    BY <1>3, <1>4, <2>1, <2>2, <2>3, <2>4
<1>11. ShowsFiles(E \union F, collapsed, w)
  BY <1>3, <1>6, <1>7, <1>8, <1>9, <1>10 DEF ShowsFiles
<1> QED
  BY <1>1, <1>11

\* A directory's row goes before the rows of what is beneath it.
AllBeneath(d, rows) ==
    \A i \in DOMAIN rows : IsPrefix(d, rows[i].dir) /\ (IsDirectory(rows[i]) => rows[i].dir # d)

LEMMA HeaderRow ==
  ASSUME NEW d \in Dirs
  PROVE  /\ <<DirRow(d)>> \in Seq(TreeRow) /\ Len(<<DirRow(d)>>) = 1 /\ DOMAIN <<DirRow(d)>> = 1..1
         /\ <<DirRow(d)>>[1] = DirRow(d) /\ IsDirectory(DirRow(d)) /\ DirRow(d).dir = d
<1>3. [dir |-> d, file |-> 0] \in TreeRow
  BY DEF TreeRow
<1>1. PICK r \in TreeRow : r = DirRow(d) /\ IsDirectory(r) /\ r.dir = d
  BY <1>3 DEF DirRow, IsDirectory
<1>2. <<r>> \in Seq(TreeRow) /\ Len(<<r>>) = 1 /\ <<r>>[1] = r /\ DOMAIN <<r>> = 1..1
  BY <1>1
<1> QED
  BY <1>1, <1>2

LEMMA CollapsedHeader ==
  ASSUME NEW d \in Dirs, NEW files, NEW collapsed, d \in collapsed,
         \A f \in files : IsPrefix(d, DirOf[f]) /\ f # 0
  PROVE  ShowsFiles(files, collapsed, <<DirRow(d)>>)
<1>1. PICK w : w = <<DirRow(d)>>
  OBVIOUS
<1>2. w \in Seq(TreeRow) /\ DOMAIN w = 1..1 /\ IsDirectory(w[1]) /\ w[1].dir = d
  BY <1>1, HeaderRow
<1>3. \A f \in files : Hidden(f, collapsed, w)
  BY <1>2 DEF Hidden
<1>4. \A i \in DOMAIN w : i = 1
  BY <1>2
<1>5. \A i \in DOMAIN w : w[i].file = 0
  BY <1>2, <1>4 DEF IsDirectory
<1>6. ShowsFiles(files, collapsed, w)
  BY <1>2, <1>3, <1>4, <1>5 DEF ShowsFiles
<1> QED
  BY <1>1, <1>6

LEMMA OpenHeader ==
  ASSUME NEW d \in Dirs, NEW files, NEW collapsed, d \notin collapsed, NEW rows,
         ShowsFiles(files, collapsed, rows), AllBeneath(d, rows), 0 \notin files
  PROVE  ShowsFiles(files, collapsed, <<DirRow(d)>> \o rows)
<1>1. PICK h, n, w : h = <<DirRow(d)>> /\ n = Len(rows) /\ w = h \o rows
  OBVIOUS
<1>2. rows \in Seq(TreeRow)
  BY DEF ShowsFiles
<1>3. /\ h \in Seq(TreeRow) /\ Len(h) = 1 /\ h[1] = DirRow(d)
      /\ IsDirectory(DirRow(d)) /\ DirRow(d).dir = d
  BY <1>1, HeaderRow
<1>4. /\ w \in Seq(TreeRow) /\ n \in Nat
      /\ DOMAIN rows = 1..n /\ DOMAIN w = 1..(1 + n)
      /\ w[1] = DirRow(d)
      /\ \A i \in 1..n : w[1 + i] = rows[i]
  BY <1>1, <1>2, <1>3, ConcatPlaces
<1>5. \A i \in 1..(1 + n) : i = 1 \/ (i > 1 /\ i - 1 \in 1..n /\ w[i] = rows[i - 1])
  <2> TAKE i \in 1..(1 + n)
  <2> SUFFICES ASSUME i # 1
               PROVE  i > 1 /\ i - 1 \in 1..n /\ w[i] = rows[i - 1]
    OBVIOUS
  <2>1. PICK k \in 1..n : k = i - 1 /\ i = 1 + k /\ i > 1
    BY <1>4
  <2> QED
    BY <1>4, <2>1
<1>6. \A i \in 1..n : 1 + i \in 1..(1 + n)
  BY <1>4
<1>16. IsDirectory(w[1]) /\ w[1].dir = d /\ w[1].file = 0 /\ 1 \in 1..(1 + n)
  BY <1>3, <1>4 DEF IsDirectory
<1>7. ASSUME NEW i \in DOMAIN w, ~IsDirectory(w[i])
      PROVE  w[i].file \in files /\ w[i].dir = DirOf[w[i].file]
  <2>1. i - 1 \in 1..n /\ w[i] = rows[i - 1]
    BY <1>4, <1>5, <1>7, <1>16
  <2> QED
    BY <1>4, <1>7, <2>1 DEF ShowsFiles
<1>8. ASSUME NEW i \in DOMAIN w, NEW j \in DOMAIN w, ~IsDirectory(w[i]), w[i].file = w[j].file
      PROVE  i = j
  <2>1. i - 1 \in 1..n /\ w[i] = rows[i - 1] /\ j - 1 \in 1..n /\ w[j] = rows[j - 1]
    BY <1>4, <1>5, <1>8, <1>16 DEF IsDirectory
  <2>2. i - 1 = j - 1
    BY <1>4, <1>8, <2>1 DEF ShowsFiles
  <2> QED
    BY <1>4, <2>2
<1>9. ASSUME NEW f \in files
      PROVE  (\E i \in DOMAIN w : w[i].file = f) <=> ~Hidden(f, collapsed, w)
  <2>1. (\E i \in DOMAIN w : w[i].file = f) <=> \E i \in DOMAIN rows : rows[i].file = f
    <3>1. ASSUME NEW i \in DOMAIN w, w[i].file = f
          PROVE  \E k \in DOMAIN rows : rows[k].file = f
      <4>1. i - 1 \in 1..n /\ w[i] = rows[i - 1]
        BY <1>4, <1>5, <1>9, <1>16, <3>1
      <4> QED
        BY <1>4, <3>1, <4>1
    <3> QED
      BY <1>4, <1>6, <3>1
  <2>2. Hidden(f, collapsed, w) <=> Hidden(f, collapsed, rows)
    <3>1. ASSUME NEW i \in DOMAIN w, IsDirectory(w[i]), w[i].dir \in collapsed, IsPrefix(w[i].dir, DirOf[f])
          PROVE  Hidden(f, collapsed, rows)
      <4>1. i - 1 \in 1..n /\ w[i] = rows[i - 1]
        BY <1>4, <1>5, <1>16, <3>1
      <4> QED
        BY <1>4, <3>1, <4>1 DEF Hidden
    <3>2. ASSUME Hidden(f, collapsed, rows)
          PROVE  Hidden(f, collapsed, w)
      BY <1>4, <1>6, <3>2 DEF Hidden
    <3> QED
      BY <3>1, <3>2 DEF Hidden
  <2> QED
    BY <1>9, <2>1, <2>2 DEF ShowsFiles
<1>10. ASSUME NEW i \in DOMAIN w, NEW j \in DOMAIN w,
              IsDirectory(w[i]), i # j, IsPrefix(w[i].dir, w[j].dir)
       PROVE  i < j /\ \A k \in (i + 1)..j : IsPrefix(w[i].dir, w[k].dir)
  <2>1. CASE i = 1
    <3>1. ASSUME NEW k \in (i + 1)..j
          PROVE  IsPrefix(w[i].dir, w[k].dir)
      <4>1. k \in 1..(1 + n) /\ k # 1
        BY <1>4, <2>1
      <4>2. k - 1 \in 1..n /\ w[k] = rows[k - 1]
        BY <1>5, <4>1
      <4> QED
        BY <1>4, <1>16, <2>1, <4>2 DEF AllBeneath
    <3>2. i < j
      BY <1>4, <1>10, <2>1
    <3> QED
      BY <3>1, <3>2
  <2>2. CASE i # 1 /\ j # 1
    <3>1. PICK p \in 1..n, q \in 1..n : /\ p = i - 1 /\ q = j - 1 /\ i = 1 + p /\ j = 1 + q
                                        /\ w[i] = rows[p] /\ w[j] = rows[q]
      <4>1. n \in Nat /\ i \in 1..(1 + n) /\ j \in 1..(1 + n)
        BY <1>4, <1>10
      <4>2. i - 1 \in 1..n /\ j - 1 \in 1..n /\ w[i] = rows[i - 1] /\ w[j] = rows[j - 1]
        BY <1>5, <2>2, <4>1
      <4> QED
        BY <4>1, <4>2
    <3>2. p < q /\ \A k \in (p + 1)..q : IsPrefix(rows[p].dir, rows[k].dir)
      BY <1>4, <1>10, <3>1 DEF ShowsFiles
    <3>3. ASSUME NEW k \in (i + 1)..j
          PROVE  IsPrefix(w[i].dir, w[k].dir)
      <4>1. PICK x \in (p + 1)..q : x = k - 1 /\ k = 1 + x /\ x \in 1..n
        BY <1>4, <3>1
      <4> QED
        BY <1>4, <3>1, <3>2, <4>1
    <3> QED
      BY <1>4, <3>1, <3>2, <3>3
  <2>3. CASE i # 1 /\ j = 1
    <3>1. i - 1 \in 1..n /\ w[i] = rows[i - 1]
      BY <1>4, <1>5, <2>3
    <3>2. IsPrefix(d, w[i].dir) /\ w[i].dir # d
      BY <1>4, <1>10, <3>1 DEF AllBeneath
    <3>3. IsPrefix(w[i].dir, d)
      BY <1>10, <1>16, <2>3
    <3>4. w[i].dir \in Dirs
      <4>1. w[i] \in TreeRow
        BY <1>4, <1>10
      <4> QED
        BY <4>1 DEF TreeRow
    <3>5. w[i].dir \in Seq(Nat) /\ d \in Seq(Nat)
      BY <3>4, DirsAreNames
    <3>6. Len(d) <= Len(w[i].dir)
      BY <3>2 DEF IsPrefix
    <3> QED
      BY <3>2, <3>3, <3>5, <3>6, PrefixChain
  <2> QED
    BY <2>1, <2>2, <2>3
<1>11. ShowsFiles(files, collapsed, w)
  BY <1>4, <1>7, <1>8, <1>9, <1>10 DEF ShowsFiles
<1> QED
  BY <1>1, <1>11

\* Files one after the other.
LEMMA FileRowIsRow ==
  ASSUME NEW f \in DOMAIN DirOf
  PROVE  FileRow(f) \in TreeRow /\ FileRow(f).file = f /\ FileRow(f).dir = DirOf[f] /\ ~IsDirectory(FileRow(f))
<1>1. DirOf[f] \in Dirs /\ f # 0
  BY DirsAreNames
<1>2. [dir |-> DirOf[f], file |-> f] \in TreeRow
  BY <1>1 DEF TreeRow
<1> QED
  BY <1>1, <1>2 DEF FileRow, IsDirectory

LEMMA EachFileOnce ==
  ASSUME NEW files \in SUBSET DOMAIN DirOf, NEW collapsed, NEW rows \in Seq(TreeRow),
         \A i \in DOMAIN rows : \E f \in files : rows[i] = FileRow(f),
         \A f \in files : \E i \in DOMAIN rows : rows[i] = FileRow(f),
         \A i, j \in DOMAIN rows : rows[i] = rows[j] => i = j
  PROVE  /\ ShowsFiles(files, collapsed, rows)
         /\ \A i \in DOMAIN rows : ~IsDirectory(rows[i]) /\ \E f \in files : rows[i].dir = DirOf[f]
<1>1. ASSUME NEW i \in DOMAIN rows
      PROVE  /\ rows[i].file \in files /\ rows[i] = FileRow(rows[i].file)
             /\ rows[i].dir = DirOf[rows[i].file] /\ ~IsDirectory(rows[i])
  <2>1. PICK f \in files : rows[i] = FileRow(f)
    OBVIOUS
  <2> QED
    BY <2>1, FileRowIsRow
<1>2. \A f \in files : ~Hidden(f, collapsed, rows)
  BY <1>1 DEF Hidden
<1>3. \A f \in files : \E i \in DOMAIN rows : rows[i].file = f
  BY FileRowIsRow
<1>4. \A i, j \in DOMAIN rows : rows[i].file = rows[j].file => i = j
  BY <1>1
<1>5. ShowsFiles(files, collapsed, rows)
  BY <1>1, <1>2, <1>3, <1>4 DEF ShowsFiles
<1> QED
  BY <1>1, <1>5

LEMMA OrderedFiles ==
  ASSUME NEW files \in SUBSET DOMAIN DirOf
  PROVE  \E n \in Nat :
            /\ n = Cardinality(files) /\ Ordered(files) \in [1..n -> files]
            /\ \A f \in files : \E p \in 1..n : Ordered(files)[p] = f
            /\ \A p, q \in 1..n : p # q => Ordered(files)[p] # Ordered(files)[q]
<1>1. IsFiniteSet(files) /\ files \in SUBSET Nat
  BY DirOfAssumption, FS_Subset
<1>2. PICK n \in Nat : /\ n = Cardinality(files) /\ Ordered(files) \in [1..n -> files]
                       /\ \A x \in files : \E p \in 1..n : Ordered(files)[p] = x
                       /\ \A p, q \in 1..n : p < q => Ordered(files)[p] < Ordered(files)[q]
  BY <1>1, OrderedPlaces
<1>3. PICK o \in [1..n -> files] : o = Ordered(files)
  BY <1>2
<1>4. \A p \in 1..n : o[p] \in Nat
  BY <1>1, <1>3
<1>5. \A p, q \in 1..n : p < q => o[p] < o[q]
  BY <1>2, <1>3
<1>6. \A p, q \in 1..n : p # q => o[p] # o[q]
  <2> TAKE p, q \in 1..n
  <2>1. p < q \/ q < p \/ p = q
    BY <1>2
  <2> QED
    BY <1>4, <1>5, <2>1
<1> QED
  BY <1>2, <1>3, <1>6

LEMMA DirectRows ==
  ASSUME NEW files \in SUBSET DOMAIN DirOf, NEW collapsed
  PROVE  /\ ShowsFiles(files, collapsed, FileRows(files))
         /\ \A i \in DOMAIN FileRows(files) :
               /\ ~IsDirectory(FileRows(files)[i])
               /\ \E f \in files : FileRows(files)[i].dir = DirOf[f]
<1>1. PICK n \in Nat : /\ n = Cardinality(files) /\ Ordered(files) \in [1..n -> files]
                       /\ \A f \in files : \E p \in 1..n : Ordered(files)[p] = f
                       /\ \A p, q \in 1..n : p # q => Ordered(files)[p] # Ordered(files)[q]
  BY OrderedFiles
<1>2. PICK o \in [1..n -> files] : o = Ordered(files)
  BY <1>1
<1>3. \A i \in 1..n : o[i] \in files /\ FileRow(o[i]) \in TreeRow /\ FileRow(o[i]).file = o[i]
  BY <1>2, FileRowIsRow
<1>4. FileRows(files) = [i \in 1..n |-> FileRow(o[i])]
  BY <1>1, <1>2 DEF FileRows
<1>5. (\A f \in files : \E p \in 1..n : o[p] = f) /\ \A p, q \in 1..n : p # q => o[p] # o[q]
  BY <1>1, <1>2
<1>6. FileRows(files) \in [1..n -> TreeRow]
  BY <1>3, <1>4
<1>7. PICK rows \in Seq(TreeRow) : rows = FileRows(files) /\ DOMAIN rows = 1..n
  BY <1>1, <1>6, FunctionIsSeq
<1>8. \A i \in 1..n : rows[i] = FileRow(o[i])
  BY <1>4, <1>7
<1>9. /\ \A i \in DOMAIN rows : \E f \in files : rows[i] = FileRow(f)
      /\ \A f \in files : \E i \in DOMAIN rows : rows[i] = FileRow(f)
      /\ \A i, j \in DOMAIN rows : rows[i] = rows[j] => i = j
  BY <1>3, <1>5, <1>7, <1>8
<1>10. /\ ShowsFiles(files, collapsed, rows)
       /\ \A i \in DOMAIN rows : ~IsDirectory(rows[i]) /\ \E f \in files : rows[i].dir = DirOf[f]
  BY <1>9, EachFileOnce
<1> QED
  BY <1>7, <1>10

-----------------------------------------------------------------------------
(* The rows of a tree.                                                     *)

Block(collapsed, g, d) == <<DirRow(d)>> \o (IF d \in collapsed THEN <<>> ELSE g[d])
Blocks(files, collapsed, g, d) ==
    [i \in DOMAIN Directories(files, d) |-> Block(collapsed, g, Compressed(files, Directories(files, d)[i]))]
RowsBeneath(files, collapsed, g, d) ==
    FlattenSeq(Blocks(files, collapsed, g, d)) \o FileRows(Direct(files, d))

ListsRows(files, collapsed, g) == g = [d \in Dirs |-> RowsBeneath(files, collapsed, g, d)]

LEMMA ChildBlock ==
  ASSUME NEW files \in SUBSET DOMAIN DirOf, NEW d \in Dirs, NEW i \in DOMAIN Directories(files, d)
  PROVE  \E c, k \in Dirs :
            /\ c = Directories(files, d)[i] /\ k = Compressed(files, c)
            /\ Len(c) = Len(d) + 1 /\ IsPrefix(d, c) /\ IsPrefix(c, k) /\ Len(k) > Len(d)
            /\ Beneath(files, k) = Beneath(files, c)
<1>1. ChildDirs(files, d, Directories(files, d))
  BY ChildDirectories
<1>2. PICK c \in Dirs : c = Directories(files, d)[i] /\ Len(c) = Len(d) + 1 /\ IsPrefix(d, c)
  BY <1>1 DEF ChildDirs
<1>3. PICK k \in Dirs : k = Compressed(files, c) /\ IsPrefix(c, k) /\ Beneath(files, k) = Beneath(files, c)
  BY CompressedDirectory
<1>4. Len(c) \in Nat /\ Len(k) \in Nat /\ Len(d) \in Nat
  BY DirsAreNames
<1>5. Len(c) <= Len(k)
  BY <1>3 DEF IsPrefix
<1>6. Len(k) > Len(d)
  BY <1>2, <1>4, <1>5
<1> QED
  BY <1>2, <1>3, <1>6

LEMMA SameRows ==
  ASSUME NEW files \in SUBSET DOMAIN DirOf, NEW collapsed, NEW g, NEW h, NEW d \in Dirs,
         \A k \in Dirs : Len(k) > Len(d) => g[k] = h[k]
  PROVE  RowsBeneath(files, collapsed, g, d) = RowsBeneath(files, collapsed, h, d)
<1>1. ASSUME NEW i \in DOMAIN Directories(files, d)
      PROVE  Block(collapsed, g, Compressed(files, Directories(files, d)[i]))
               = Block(collapsed, h, Compressed(files, Directories(files, d)[i]))
  <2>1. PICK c, k \in Dirs : c = Directories(files, d)[i] /\ k = Compressed(files, c) /\ Len(k) > Len(d)
    BY ChildBlock
  <2>2. g[k] = h[k]
    BY <2>1
  <2>3. Block(collapsed, g, k) = Block(collapsed, h, k)
    BY <2>2 DEF Block
  <2> QED
    BY <2>1, <2>3
<1>2. Blocks(files, collapsed, g, d) = Blocks(files, collapsed, h, d)
  BY <1>1 DEF Blocks
<1> QED
  BY <1>2 DEF RowsBeneath

LEMMA ListsRowsExists ==
  ASSUME NEW files \in SUBSET DOMAIN DirOf, NEW collapsed
  PROVE  \E g : ListsRows(files, collapsed, g)
<1>1. PICK bound \in Nat : \A d \in Dirs : Len(d) <= bound
  BY DirsAreBounded
<1>2. \A d \in Dirs : Len(d) \in Nat
  BY DirsAreNames
<1> DEFINE Deep(k) == {d \in Dirs : bound - Len(d) < k}
           Good(k) == \E g : g = [d \in Deep(k) |-> RowsBeneath(files, collapsed, g, d)]
           Bad == {k \in Nat : ~Good(k)}
<1>3. Bad = {}
  <2> SUFFICES ASSUME Bad # {} PROVE FALSE
    OBVIOUS
  <2>1. PICK k \in Bad : \A m \in Bad : k <= m
    <3> HIDE DEF Bad
    <3>1. Bad \in SUBSET Nat
      BY DEF Bad
    <3> QED
      BY <3>1, LeastNumber
  <2>2. k \in Nat /\ ~Good(k)
    BY <2>1
  <2>3. CASE k = 0
    <3>1. Deep(k) = {}
      BY <1>1, <1>2, <2>3
    <3> HIDE DEF Deep
    <3>2. PICK g : g = [d \in {} |-> d]
      OBVIOUS
    <3>3. g = [d \in Deep(k) |-> RowsBeneath(files, collapsed, g, d)]
      BY <3>1, <3>2
    <3> QED
      BY <2>2, <3>3
  <2>4. CASE k # 0
    <3>1. k - 1 \in Nat /\ ~(k <= k - 1)
      BY <2>2, <2>4
    <3>2. Good(k - 1)
      <4> HIDE DEF Good
      <4> QED
        BY <2>1, <3>1
    <3>3. PICK h : h = [d \in Deep(k - 1) |-> RowsBeneath(files, collapsed, h, d)]
      BY <3>2
    <3>4. PICK g : g = [d \in Deep(k) |-> RowsBeneath(files, collapsed, h, d)]
      OBVIOUS
    <3>5. \A d \in Deep(k - 1) : d \in Deep(k) /\ g[d] = h[d]
      <4> TAKE d \in Deep(k - 1)
      <4>1. d \in Deep(k)
        BY <1>1, <1>2, <2>2
      <4> HIDE DEF Deep
      <4> QED
        BY <3>3, <3>4, <4>1
    <3>6. \A d \in Deep(k) : d \in Dirs /\ \A c \in Dirs : Len(c) > Len(d) => c \in Deep(k - 1)
      BY <1>1, <1>2, <2>2
    <3> HIDE DEF Deep
    <3>7. \A d \in Deep(k) : g[d] = RowsBeneath(files, collapsed, g, d)
      <4> TAKE d \in Deep(k)
      <4>1. g[d] = RowsBeneath(files, collapsed, h, d)
        BY <3>4
      <4>2. d \in Dirs /\ \A c \in Dirs : Len(c) > Len(d) => g[c] = h[c]
        BY <3>5, <3>6
      <4>3. RowsBeneath(files, collapsed, g, d) = RowsBeneath(files, collapsed, h, d)
        BY <4>2, SameRows
      <4> QED
        BY <4>1, <4>3
    <3>8. g = [d \in Deep(k) |-> RowsBeneath(files, collapsed, g, d)]
      BY <3>4, <3>7
    <3> QED
      BY <2>2, <3>8
  <2> QED
    BY <2>3, <2>4
<1>4. Good(bound + 1)
  <2>1. bound + 1 \in Nat
    BY <1>1
  <2> HIDE DEF Good
  <2> QED
    BY <1>3, <2>1
<1>5. Deep(bound + 1) = Dirs
  BY <1>1, <1>2
<1> HIDE DEF Deep
<1> QED
  BY <1>4, <1>5 DEF ListsRows

AllUnder(c, rows) == \A i \in DOMAIN rows : IsPrefix(c, rows[i].dir)

\* A directory's row, and what it shows of itself.
LEMMA BlockShows ==
  ASSUME NEW files \in SUBSET DOMAIN DirOf, NEW collapsed, NEW g, NEW c \in Dirs, NEW k \in Dirs,
         IsPrefix(c, k), Beneath(files, k) = Beneath(files, c),
         ShowsFiles(Beneath(files, k), collapsed, g[k]), AllBeneath(k, g[k])
  PROVE  /\ ShowsFiles(Beneath(files, c), collapsed, Block(collapsed, g, k))
         /\ AllUnder(c, Block(collapsed, g, k))
<1>1. PICK E \in SUBSET DOMAIN DirOf : E = Beneath(files, k)
  BY DEF Beneath
<1>2. \A f \in E : IsPrefix(k, DirOf[f]) /\ f # 0
  BY <1>1, DirsAreNames DEF Beneath
<1>3. PICK h : h = <<DirRow(k)>>
  OBVIOUS
<1>4. /\ h \in Seq(TreeRow) /\ Len(h) = 1 /\ DOMAIN h = 1..1 /\ h[1].dir = k
  BY <1>3, HeaderRow
<1>5. CASE k \in collapsed
  <2>1. Block(collapsed, g, k) = h \o <<>>
    BY <1>3, <1>5 DEF Block
  <2>2. Block(collapsed, g, k) = h
    BY <1>4, <2>1, ConcatEmptySeq
  <2>3. ShowsFiles(E, collapsed, <<DirRow(k)>>)
    BY <1>2, <1>5, CollapsedHeader
  <2>4. \A i \in DOMAIN h : h[i].dir = k
    BY <1>4
  <2> QED
    BY <1>1, <1>3, <2>2, <2>3, <2>4 DEF AllUnder
<1>6. CASE k \notin collapsed
  <2>1. PICK rows : rows = g[k]
    OBVIOUS
  <2>2. Block(collapsed, g, k) = <<DirRow(k)>> \o rows
    BY <1>6, <2>1 DEF Block
  <2>3. ShowsFiles(E, collapsed, rows) /\ AllBeneath(k, rows) /\ 0 \notin E
    BY <1>1, <1>2, <2>1
  <2>4. ShowsFiles(E, collapsed, <<DirRow(k)>> \o rows)
    BY <1>6, <2>3, OpenHeader
  <2>5. PICK w : w = h \o rows
    OBVIOUS
  <2>6. rows \in Seq(TreeRow)
    BY <2>3 DEF ShowsFiles
  <2>7. /\ w \in Seq(TreeRow) /\ Len(rows) \in Nat
        /\ DOMAIN rows = 1..Len(rows) /\ DOMAIN w = 1..(1 + Len(rows))
        /\ w[1] = h[1]
        /\ \A i \in 1..Len(rows) : w[1 + i] = rows[i]
    <3>1. /\ h \o rows \in Seq(TreeRow) /\ Len(h) \in Nat /\ Len(rows) \in Nat
          /\ DOMAIN h = 1..Len(h) /\ DOMAIN rows = 1..Len(rows) /\ DOMAIN (h \o rows) = 1..(Len(h) + Len(rows))
          /\ \A i \in 1..Len(h) : (h \o rows)[i] = h[i]
          /\ \A i \in 1..Len(rows) : (h \o rows)[Len(h) + i] = rows[i]
      BY <1>4, <2>6, ConcatPlaces
    <3>2. 1 \in 1..Len(h)
      BY <1>4
    <3> QED
      BY <1>4, <2>5, <3>1, <3>2
  <2>8. ASSUME NEW i \in DOMAIN w
        PROVE  IsPrefix(c, w[i].dir)
    <3>1. CASE i = 1
      BY <1>4, <2>7, <3>1
    <3>2. CASE i # 1
      <4>1. PICK j \in 1..Len(rows) : i = 1 + j
        <5>1. i \in 1..(1 + Len(rows)) /\ Len(rows) \in Nat
          BY <2>7, <2>8
        <5>2. PICK j \in 1..Len(rows) : j = i - 1 /\ i = 1 + j
          BY <3>2, <5>1
        <5> QED
          BY <5>2
      <4>2. w[i] = rows[j]
        BY <2>7, <4>1
      <4>3. rows[j] \in TreeRow /\ IsPrefix(k, rows[j].dir)
        BY <2>3, <2>6, <2>7, <4>1 DEF AllBeneath
      <4>4. PICK x \in Dirs : x = rows[j].dir
        BY <4>3 DEF TreeRow
      <4>5. c \in Seq(Nat) /\ k \in Seq(Nat) /\ x \in Seq(Nat)
        BY <4>4, DirsAreNames
      <4>6. IsPrefix(c, x)
        BY <4>3, <4>4, <4>5, PrefixChain
      <4> QED
        BY <4>2, <4>4, <4>6
    <3> QED
      BY <3>1, <3>2
  <2> QED
    BY <1>1, <1>3, <2>2, <2>4, <2>5, <2>8 DEF AllUnder
<1> QED
  BY <1>5, <1>6

LEMMA NothingShown ==
  ASSUME NEW collapsed
  PROVE  ShowsFiles({}, collapsed, <<>>)
<1>2. <<>> \in Seq(TreeRow) /\ DOMAIN <<>> = {}
  OBVIOUS
<1>1. PICK w : w = <<>> /\ w \in Seq(TreeRow) /\ DOMAIN w = {}
  BY <1>2
<1> QED
  BY <1>1 DEF ShowsFiles

\* What is beneath two of the children of a directory is not the same.
LEMMA Separate ==
  ASSUME NEW a \in Seq(Nat), NEW b \in Seq(Nat), NEW x \in Seq(Nat), NEW y \in Seq(Nat),
         Len(a) = Len(b), a # b, IsPrefix(a, x), IsPrefix(b, y)
  PROVE  ~IsPrefix(x, y) /\ ~IsPrefix(y, x) /\ ~IsPrefix(b, x) /\ ~IsPrefix(a, y)
<1>1. Len(a) \in Nat /\ Len(b) \in Nat
  OBVIOUS
<1>2. ASSUME NEW z \in Seq(Nat), IsPrefix(a, z), IsPrefix(b, z)
      PROVE  FALSE
  <2>1. IsPrefix(a, b)
    BY <1>1, <1>2, PrefixChain
  <2>2. a = b
    BY <1>1, <2>1, PrefixChain
  <2> QED
    BY <2>2
<1>3. IsPrefix(x, y) => IsPrefix(a, y)
  BY PrefixChain
<1>4. IsPrefix(y, x) => IsPrefix(b, x)
  BY PrefixChain
<1> QED
  BY <1>2, <1>3, <1>4

\* The rows of two different children do not mix.
LEMMA ChildrenApart ==
  ASSUME NEW a, NEW b, NEW E, NEW F, NEW collapsed, NEW cs, NEW c \in Dirs,
         cs \in SUBSET Dirs, c \notin cs, \A x \in cs : Len(x) = Len(c),
         E \in SUBSET DOMAIN DirOf, F \in SUBSET DOMAIN DirOf,
         ShowsFiles(E, collapsed, a), ShowsFiles(F, collapsed, b),
         \A f \in E : \E x \in cs : IsPrefix(x, DirOf[f]),
         \A i \in DOMAIN a : \E x \in cs : IsPrefix(x, a[i].dir),
         \A f \in F : IsPrefix(c, DirOf[f]),
         AllUnder(c, b)
  PROVE  E \cap F = {} /\ Apart(a, F, b) /\ Apart(b, E, a)
<1>1. a \in Seq(TreeRow) /\ b \in Seq(TreeRow)
  BY DEF ShowsFiles
<1>2. \A i \in DOMAIN a : a[i].dir \in Dirs
  <2> TAKE i \in DOMAIN a
  <2>1. a[i] \in TreeRow
    BY <1>1
  <2> QED
    BY <2>1 DEF TreeRow
<1>3. \A i \in DOMAIN b : b[i].dir \in Dirs
  <2> TAKE i \in DOMAIN b
  <2>1. b[i] \in TreeRow
    BY <1>1
  <2> QED
    BY <2>1 DEF TreeRow
<1>4. \A f \in E \union F : DirOf[f] \in Dirs
  BY DirsAreNames
<1>5. ASSUME NEW p \in Dirs, NEW q \in Dirs, NEW x \in cs, IsPrefix(x, p), IsPrefix(c, q)
      PROVE  ~IsPrefix(p, q) /\ ~IsPrefix(q, p) /\ p # q
  <2>1. x \in Seq(Nat) /\ c \in Seq(Nat) /\ p \in Seq(Nat) /\ q \in Seq(Nat) /\ x # c /\ Len(x) = Len(c)
    BY DirsAreNames
  <2>2. ~IsPrefix(p, q) /\ ~IsPrefix(q, p)
    BY <1>5, <2>1, Separate
  <2>3. IsPrefix(p, p)
    BY <2>1, PrefixChain
  <2> QED
    BY <2>2, <2>3
<1>6. E \cap F = {}
  <2> SUFFICES ASSUME NEW f \in E \cap F PROVE FALSE
    OBVIOUS
  <2>1. PICK x \in cs : IsPrefix(x, DirOf[f])
    OBVIOUS
  <2> QED
    BY <1>4, <1>5, <2>1
<1>7. ASSUME NEW i \in DOMAIN a
      PROVE  /\ \A j \in DOMAIN b : ~IsPrefix(a[i].dir, b[j].dir) /\ ~IsPrefix(b[j].dir, a[i].dir)
             /\ \A f \in F : ~IsPrefix(a[i].dir, DirOf[f])
  <2>1. PICK x \in cs : IsPrefix(x, a[i].dir)
    BY <1>7
  <2>2. a[i].dir \in Dirs
    BY <1>2
  <2>3. \A j \in DOMAIN b : b[j].dir \in Dirs /\ IsPrefix(c, b[j].dir)
    BY <1>3 DEF AllUnder
  <2> QED
    BY <1>4, <1>5, <2>1, <2>2, <2>3
<1>8. ASSUME NEW i \in DOMAIN b, NEW f \in E
      PROVE  ~IsPrefix(b[i].dir, DirOf[f])
  <2>1. PICK x \in cs : IsPrefix(x, DirOf[f])
    BY <1>8
  <2>2. b[i].dir \in Dirs /\ IsPrefix(c, b[i].dir) /\ DirOf[f] \in Dirs
    BY <1>3, <1>4 DEF AllUnder
  <2> QED
    BY <1>5, <2>1, <2>2
<1> QED
  BY <1>6, <1>7, <1>8 DEF Apart

LEMMA SecondPart ==
  ASSUME NEW l \in Nat, NEW m \in Nat, NEW p \in 1..(l + m), p \notin 1..l
  PROVE  \E q \in 1..m : p = l + q
<1>1. p - l \in 1..m /\ p = l + (p - l)
  OBVIOUS
<1> QED
  BY <1>1

TreeShows(files, collapsed, g, d) ==
    ShowsFiles(Beneath(files, d), collapsed, g[d]) /\ AllBeneath(d, g[d])

\* What the children of a directory show, one after the other.
LEMMA ChildrenShow ==
  ASSUME NEW files \in SUBSET DOMAIN DirOf, NEW collapsed, NEW g, NEW d \in Dirs,
         \A k \in Dirs : Len(k) > Len(d) => TreeShows(files, collapsed, g, k)
  PROVE  \E E \in SUBSET DOMAIN DirOf, rows \in Seq(TreeRow) :
            /\ E = {f \in files : \E i \in DOMAIN Directories(files, d) : IsPrefix(Directories(files, d)[i], DirOf[f])}
            /\ rows = FlattenSeq(Blocks(files, collapsed, g, d))
            /\ ShowsFiles(E, collapsed, rows)
            /\ \A p \in DOMAIN rows :
                  \E i \in DOMAIN Directories(files, d) : IsPrefix(Directories(files, d)[i], rows[p].dir)
<1>1. PICK ch : ch = Directories(files, d)
  OBVIOUS
<1>2. ChildDirs(files, d, ch)
  BY <1>1, ChildDirectories
<1>3. PICK n \in Nat : n = Len(ch) /\ DOMAIN ch = 1..n
  BY <1>2 DEF ChildDirs
<1>4. PICK seqs : seqs = Blocks(files, collapsed, g, d)
  OBVIOUS
<1>5. ASSUME NEW i \in 1..n
      PROVE  /\ ch[i] \in Dirs /\ Len(ch[i]) = Len(d) + 1
             /\ ShowsFiles(Beneath(files, ch[i]), collapsed, seqs[i]) /\ AllUnder(ch[i], seqs[i])
             /\ seqs[i] \in Seq(TreeRow)
  <2>1. PICK c, k \in Dirs :
            /\ c = ch[i] /\ k = Compressed(files, c)
            /\ Len(c) = Len(d) + 1 /\ IsPrefix(c, k) /\ Len(k) > Len(d)
            /\ Beneath(files, k) = Beneath(files, c)
    BY <1>1, <1>3, ChildBlock
  <2>2. seqs[i] = Block(collapsed, g, k)
    BY <1>1, <1>3, <1>4, <2>1 DEF Blocks
  <2>3. ShowsFiles(Beneath(files, k), collapsed, g[k]) /\ AllBeneath(k, g[k])
    BY <2>1 DEF TreeShows
  <2>4. /\ ShowsFiles(Beneath(files, c), collapsed, Block(collapsed, g, k))
        /\ AllUnder(c, Block(collapsed, g, k))
    BY <2>1, <2>3, BlockShows
  <2>5. Block(collapsed, g, k) \in Seq(TreeRow)
    BY <2>4 DEF ShowsFiles
  <2> QED
    BY <2>1, <2>2, <2>4, <2>5
<1>6. seqs \in Seq(Seq(TreeRow)) /\ Len(seqs) = n
  <2>1. DOMAIN seqs = 1..n /\ seqs = [i \in 1..n |-> seqs[i]]
    BY <1>1, <1>3, <1>4 DEF Blocks
  <2>2. PICK T : T = Seq(TreeRow)
    OBVIOUS
  <2>3. seqs \in [1..n -> T]
    BY <1>5, <2>1, <2>2
  <2> QED
    BY <1>3, <2>2, <2>3, FunctionIsSeq
<1>7. PICK w : /\ w[0] = <<>> /\ w[n] = FlattenSeq(seqs)
               /\ \A i \in 1..n : w[i] = w[i - 1] \o seqs[i]
  <2>1. PICK T : T = TreeRow
    OBVIOUS
  <2>2. seqs \in Seq(Seq(T))
    BY <1>6, <2>1
  <2> QED
    BY <1>6, <2>2, FlattenSteps
<1> DEFINE Under(k) == {f \in files : \E i \in 1..k : IsPrefix(ch[i], DirOf[f])}
           Good(k) == /\ ShowsFiles(Under(k), collapsed, w[k])
                      /\ \A p \in DOMAIN w[k] : \E i \in 1..k : IsPrefix(ch[i], w[k][p].dir)
           Bad == {k \in 0..n : ~Good(k)}
<1>8. Good(0)
  <2>1. Under(0) = {}
    OBVIOUS
  <2>2. DOMAIN w[0] = {}
    BY <1>7
  <2> HIDE DEF Under
  <2> QED
    BY <1>7, <2>1, <2>2, NothingShown
<1>9. ASSUME NEW k \in 1..n, Good(k - 1)
      PROVE  Good(k)
  <2>1. PICK a : a = w[k - 1]
    OBVIOUS
  <2>2. PICK b : b = seqs[k]
    OBVIOUS
  <2>3. PICK E \in SUBSET DOMAIN DirOf : E = Under(k - 1)
    OBVIOUS
  <2>4. PICK F \in SUBSET DOMAIN DirOf : F = Beneath(files, ch[k])
    BY DEF Beneath
  <2>5. PICK cs \in SUBSET Dirs : cs = {ch[i] : i \in 1..(k - 1)}
    <3>1. \A i \in 1..(k - 1) : i \in 1..n
      BY <1>3, <1>9
    <3> QED
      BY <1>5, <3>1
  <2>6. \A i \in 1..(k - 1) : i \in 1..n /\ i # k
    BY <1>3, <1>9
  <2>7. ch[k] \in Dirs /\ ch[k] \notin cs /\ \A x \in cs : Len(x) = Len(ch[k])
    <3>1. \A i \in 1..n : i # k => ch[i] # ch[k]
      BY <1>2, <1>3, <1>9 DEF ChildDirs
    <3>2. ASSUME NEW x \in cs
          PROVE  x # ch[k] /\ Len(x) = Len(ch[k])
      <4>1. PICK i \in 1..(k - 1) : x = ch[i]
        BY <2>5, <3>2
      <4> QED
        BY <1>5, <1>9, <2>6, <3>1, <4>1
    <3> QED
      BY <1>5, <1>9, <3>2
  <2>8. ShowsFiles(E, collapsed, a) /\ \A p \in DOMAIN a : \E i \in 1..(k - 1) : IsPrefix(ch[i], a[p].dir)
    BY <1>9, <2>1, <2>3
  <2>9. \A p \in DOMAIN a : \E x \in cs : IsPrefix(x, a[p].dir)
    BY <2>5, <2>8
  <2>10. \A f \in E : \E x \in cs : IsPrefix(x, DirOf[f])
    BY <2>3, <2>5
  <2>11. ShowsFiles(F, collapsed, b) /\ AllUnder(ch[k], b)
    BY <1>5, <1>9, <2>2, <2>4
  <2>12. \A f \in F : IsPrefix(ch[k], DirOf[f])
    BY <2>4 DEF Beneath
  <2>13. PICK c \in Dirs : c = ch[k]
    BY <2>7
  <2>14. E \cap F = {} /\ Apart(a, F, b) /\ Apart(b, E, a)
    BY <2>3, <2>4, <2>7, <2>8, <2>9, <2>10, <2>11, <2>12, <2>13, ChildrenApart
  <2>15. 0 \notin E \union F
    BY DirsAreNames
  <2>16. ShowsFiles(E \union F, collapsed, a \o b)
    BY <2>8, <2>11, <2>14, <2>15, RowsJoined
  <2>17. w[k] = a \o b
    BY <1>7, <1>9, <2>1, <2>2
  <2>18. E \union F = Under(k)
    <3>1. \A i \in 1..k : i = k \/ i \in 1..(k - 1)
      BY <1>3, <1>9
    <3>2. k \in 1..k /\ \A i \in 1..(k - 1) : i \in 1..k
      BY <1>3, <1>9
    <3>3. F = {f \in files : IsPrefix(ch[k], DirOf[f])}
      BY <2>4 DEF Beneath
    <3>4. ASSUME NEW f \in files
          PROVE  f \in Under(k) <=> f \in E \/ f \in F
      BY <2>3, <3>1, <3>2, <3>3
    <3>5. E \in SUBSET files /\ F \in SUBSET files /\ Under(k) \in SUBSET files
      BY <2>3, <3>3
    <3> HIDE DEF Under
    <3> QED
      BY <3>4, <3>5
  <2>19. a \in Seq(TreeRow) /\ b \in Seq(TreeRow)
    BY <2>8, <2>11 DEF ShowsFiles
  <2>20. ASSUME NEW p \in DOMAIN (a \o b)
         PROVE  \E i \in 1..k : IsPrefix(ch[i], (a \o b)[p].dir)
    <3>1. PICK l, m \in Nat : l = Len(a) /\ m = Len(b)
      BY <2>19
    <3>2. PICK v : v = a \o b
      OBVIOUS
    <3>3. /\ DOMAIN a = 1..l /\ DOMAIN b = 1..m /\ DOMAIN v = 1..(l + m)
          /\ \A i \in 1..l : v[i] = a[i]
          /\ \A i \in 1..m : v[l + i] = b[i]
      BY <2>19, <3>1, <3>2, ConcatPlaces
    <3>4. p \in 1..(l + m)
      BY <2>20, <3>2, <3>3
    <3>5. CASE p \in 1..l
      <4>1. PICK i \in 1..(k - 1) : IsPrefix(ch[i], a[p].dir)
        BY <2>8, <3>3, <3>5
      <4>2. i \in 1..k
        BY <1>3, <1>9, <4>1
      <4> QED
        BY <3>2, <3>3, <3>5, <4>1, <4>2
    <3>6. CASE p \notin 1..l
      <4>1. PICK q \in 1..m : p = l + q
        BY <3>1, <3>4, <3>6, SecondPart
      <4>2. v[p] = b[q] /\ q \in DOMAIN b
        BY <3>3, <4>1
      <4>3. IsPrefix(ch[k], b[q].dir)
        BY <2>11, <4>2 DEF AllUnder
      <4>4. k \in 1..k
        BY <1>3, <1>9
      <4> QED
        BY <3>2, <4>2, <4>3, <4>4
    <3> QED
      BY <3>5, <3>6
  <2> HIDE DEF Under
  <2> QED
    BY <2>16, <2>17, <2>18, <2>20
<1>10. Bad = {}
  <2> SUFFICES ASSUME Bad # {} PROVE FALSE
    OBVIOUS
  <2>1. PICK k \in Bad : \A m \in Bad : k <= m
    <3> HIDE DEF Bad
    <3>1. Bad \in SUBSET Nat
      BY <1>3 DEF Bad
    <3> QED
      BY <3>1, LeastNumber
  <2> HIDE DEF Good
  <2>2. k \in 0..n /\ ~Good(k)
    BY <2>1
  <2>3. k # 0
    BY <1>8, <2>2
  <2>4. k \in 1..n /\ k - 1 \in 0..n /\ ~(k <= k - 1)
    BY <1>3, <2>2, <2>3
  <2>5. Good(k - 1)
    BY <2>1, <2>4
  <2> QED
    BY <1>9, <2>2, <2>4, <2>5
<1>11. Good(n)
  <2>1. n \in 0..n
    BY <1>3
  <2> HIDE DEF Good
  <2> QED
    BY <1>10, <2>1
<1>12. PICK E \in SUBSET DOMAIN DirOf : E = Under(n)
  OBVIOUS
<1>13. PICK rows : rows = w[n]
  OBVIOUS
<1>14. /\ ShowsFiles(E, collapsed, rows)
       /\ \A p \in DOMAIN rows : \E i \in 1..n : IsPrefix(ch[i], rows[p].dir)
  BY <1>11, <1>12, <1>13
<1>15. rows \in Seq(TreeRow)
  BY <1>14 DEF ShowsFiles
<1> QED
  BY <1>1, <1>3, <1>4, <1>7, <1>12, <1>13, <1>14, <1>15

LEMMA DirectoryShows ==
  ASSUME NEW files \in SUBSET DOMAIN DirOf, NEW collapsed, NEW g, ListsRows(files, collapsed, g),
         NEW d \in Dirs, \A k \in Dirs : Len(k) > Len(d) => TreeShows(files, collapsed, g, k)
  PROVE  TreeShows(files, collapsed, g, d)
<1>1. PICK ch : ch = Directories(files, d)
  OBVIOUS
<1>2. ChildDirs(files, d, ch)
  BY <1>1, ChildDirectories
<1>19. PICK E \in SUBSET DOMAIN DirOf, a \in Seq(TreeRow) :
            /\ E = {f \in files : \E i \in DOMAIN Directories(files, d) : IsPrefix(Directories(files, d)[i], DirOf[f])}
            /\ a = FlattenSeq(Blocks(files, collapsed, g, d))
            /\ ShowsFiles(E, collapsed, a)
            /\ \A p \in DOMAIN a :
                  \E i \in DOMAIN Directories(files, d) : IsPrefix(Directories(files, d)[i], a[p].dir)
  BY ChildrenShow
<1>3.    /\ E = {f \in files : \E i \in DOMAIN ch : IsPrefix(ch[i], DirOf[f])}
         /\ a = FlattenSeq(Blocks(files, collapsed, g, d))
         /\ ShowsFiles(E, collapsed, a)
         /\ \A p \in DOMAIN a : \E i \in DOMAIN ch : IsPrefix(ch[i], a[p].dir)
         /\ E \in SUBSET DOMAIN DirOf /\ a \in Seq(TreeRow)
  BY <1>1, <1>19
<1>4. PICK F \in SUBSET DOMAIN DirOf : F = Direct(files, d)
  BY DEF Direct
<1>5. PICK b : b = FileRows(F)
  OBVIOUS
<1>6. /\ ShowsFiles(F, collapsed, b)
      /\ \A i \in DOMAIN b : ~IsDirectory(b[i]) /\ \E f \in F : b[i].dir = DirOf[f]
  BY <1>5, DirectRows
<1>7. \A f \in F : DirOf[f] = d
  BY <1>4 DEF Direct
<1>8. g[d] = a \o b
  BY <1>3, <1>4, <1>5 DEF ListsRows, RowsBeneath
<1>9. d \in Seq(Nat) /\ Len(d) \in Nat
  BY DirsAreNames
<1>10. ASSUME NEW x \in Dirs, NEW i \in DOMAIN ch, IsPrefix(ch[i], x)
       PROVE  IsPrefix(d, x) /\ x # d /\ ~IsPrefix(x, d)
  <2>1. ch[i] \in Dirs /\ Len(ch[i]) = Len(d) + 1 /\ IsPrefix(d, ch[i])
    BY <1>2 DEF ChildDirs
  <2>2. ch[i] \in Seq(Nat) /\ x \in Seq(Nat) /\ Len(x) \in Nat
    BY <2>1, DirsAreNames
  <2>3. Len(ch[i]) <= Len(x)
    BY <1>10 DEF IsPrefix
  <2>4. ~(Len(x) <= Len(d))
    BY <1>9, <2>1, <2>2, <2>3
  <2>5. IsPrefix(d, x)
    BY <1>9, <1>10, <2>1, <2>2, PrefixChain
  <2>6. ~IsPrefix(x, d)
    BY <2>4 DEF IsPrefix
  <2>7. IsPrefix(d, d)
    BY <1>9, PrefixChain
  <2> QED
    BY <2>5, <2>6, <2>7
<1>11. \A p \in DOMAIN a : a[p].dir \in Dirs /\ IsPrefix(d, a[p].dir) /\ a[p].dir # d /\ ~IsPrefix(a[p].dir, d)
  <2> TAKE p \in DOMAIN a
  <2>1. PICK i \in DOMAIN ch : IsPrefix(ch[i], a[p].dir)
    BY <1>3
  <2>2. a[p] \in TreeRow
    BY <1>3
  <2>3. a[p].dir \in Dirs
    BY <2>2 DEF TreeRow
  <2> QED
    BY <1>10, <2>1, <2>3
<1>12. \A i \in DOMAIN b : ~IsDirectory(b[i]) /\ b[i].dir = d
  BY <1>6, <1>7
<1>13. Apart(a, F, b) /\ Apart(b, E, a)
  BY <1>7, <1>11, <1>12 DEF Apart
<1>14. \A f \in E : IsPrefix(d, DirOf[f]) /\ DirOf[f] # d
  <2> TAKE f \in E
  <2>1. DirOf[f] \in Dirs
    BY DirsAreNames
  <2>2. PICK i \in DOMAIN ch : IsPrefix(ch[i], DirOf[f])
    BY <1>3
  <2> QED
    BY <1>10, <2>1, <2>2
<1>15. E \cap F = {} /\ 0 \notin E \union F
  BY <1>7, <1>14, DirsAreNames
<1>16. ShowsFiles(E \union F, collapsed, a \o b)
  BY <1>3, <1>6, <1>13, <1>15, RowsJoined
<1>17. E \union F = Beneath(files, d)
  <2>1. ASSUME NEW f \in Beneath(files, d)
        PROVE  f \in E \union F
    <3>1. f \in files /\ IsPrefix(d, DirOf[f])
      BY DEF Beneath
    <3>2. CASE DirOf[f] = d
      BY <1>4, <3>1, <3>2 DEF Direct
    <3>3. CASE DirOf[f] # d
      <4>1. f \in Beneath(files, d) \ Direct(files, d)
        BY <3>3 DEF Direct
      <4>2. PICK i \in DOMAIN ch : ch[i] = ChildOf(d, f)
        BY <1>2, <4>1 DEF ChildDirs
      <4>3. IsPrefix(ChildOf(d, f), DirOf[f])
        BY <3>1, <3>3, ChildNames
      <4> QED
        BY <1>3, <3>1, <4>2, <4>3
    <3> QED
      BY <3>2, <3>3
  <2>2. ASSUME NEW f \in E
        PROVE  f \in Beneath(files, d)
    BY <1>3, <1>14 DEF Beneath
  <2>3. ASSUME NEW f \in F
        PROVE  f \in Beneath(files, d)
    <3>1. f \in files /\ DirOf[f] = d
      BY <1>4 DEF Direct
    <3>2. IsPrefix(d, d)
      BY <1>9, PrefixChain
    <3> QED
      BY <3>1, <3>2 DEF Beneath
  <2> QED
    BY <2>1, <2>2, <2>3
<1>18. AllBeneath(d, a \o b)
  <2>1. b \in Seq(TreeRow) /\ a \in Seq(TreeRow)
    BY <1>3, <1>6 DEF ShowsFiles
  <2>2. PICK l, m \in Nat : l = Len(a) /\ m = Len(b)
    BY <2>1
  <2>3. PICK v : v = a \o b
    OBVIOUS
  <2>4. /\ DOMAIN a = 1..l /\ DOMAIN b = 1..m /\ DOMAIN v = 1..(l + m)
        /\ \A i \in 1..l : v[i] = a[i]
        /\ \A i \in 1..m : v[l + i] = b[i]
    BY <2>1, <2>2, <2>3, ConcatPlaces
  <2>5. IsPrefix(d, d)
    BY <1>9, PrefixChain
  <2>6. ASSUME NEW p \in DOMAIN v
        PROVE  IsPrefix(d, v[p].dir) /\ (IsDirectory(v[p]) => v[p].dir # d)
    <3>1. p \in 1..(l + m)
      BY <2>4, <2>6
    <3>2. CASE p \in 1..l
      BY <1>11, <2>4, <3>2
    <3>3. CASE p \notin 1..l
      <4>1. PICK q \in 1..m : p = l + q
        BY <2>2, <3>1, <3>3, SecondPart
      <4> QED
        BY <1>12, <2>4, <2>5, <4>1
    <3> QED
      BY <3>2, <3>3
  <2> QED
    BY <2>3, <2>6 DEF AllBeneath
<1> QED
  BY <1>8, <1>16, <1>17, <1>18 DEF TreeShows

LEMMA TreeRowsShow ==
  ASSUME NEW files \in SUBSET DOMAIN DirOf, NEW collapsed \in SUBSET Dirs
  PROVE  ShowsFiles(files, collapsed, TreeRows(files, collapsed)) /\ AllBeneath(<<>>, TreeRows(files, collapsed))
<1>1. PICK g : g = CHOOSE h : ListsRows(files, collapsed, h)
  OBVIOUS
<1>2. ListsRows(files, collapsed, g)
  BY <1>1, ListsRowsExists
<1>3. TreeRows(files, collapsed) = g[<<>>]
  <2>1. TreeRows(files, collapsed) =
          (CHOOSE rows : rows = [d \in Dirs |->
              FlattenSeq([i \in DOMAIN Directories(files, d) |->
                 <<DirRow(Compressed(files, Directories(files, d)[i]))>>
                   \o IF Compressed(files, Directories(files, d)[i]) \in collapsed
                      THEN <<>> ELSE rows[Compressed(files, Directories(files, d)[i])]])
              \o FileRows(Direct(files, d))])[<<>>]
    BY DEF TreeRows
  <2>2. g = CHOOSE rows : rows = [d \in Dirs |->
              FlattenSeq([i \in DOMAIN Directories(files, d) |->
                 <<DirRow(Compressed(files, Directories(files, d)[i]))>>
                   \o IF Compressed(files, Directories(files, d)[i]) \in collapsed
                      THEN <<>> ELSE rows[Compressed(files, Directories(files, d)[i])]])
              \o FileRows(Direct(files, d))]
    BY <1>1 DEF ListsRows, RowsBeneath, Blocks, Block
  <2> QED
    BY <2>1, <2>2
<1>4. PICK bound \in Nat : \A d \in Dirs : Len(d) <= bound
  BY DirsAreBounded
<1>5. \A d \in Dirs : d \in Seq(Nat) /\ Len(d) \in Nat
  BY DirsAreNames
<1> DEFINE Bad == {k \in Nat : \E d \in Dirs : k = bound - Len(d) /\ ~TreeShows(files, collapsed, g, d)}
<1>6. Bad = {}
  <2> SUFFICES ASSUME Bad # {} PROVE FALSE
    OBVIOUS
  <2>1. PICK k \in Bad : \A m \in Bad : k <= m
    <3> HIDE DEF Bad
    <3>1. Bad \in SUBSET Nat
      BY DEF Bad
    <3> QED
      BY <3>1, LeastNumber
  <2>2. PICK d \in Dirs : k = bound - Len(d) /\ ~TreeShows(files, collapsed, g, d)
    BY <2>1
  <2>3. ASSUME NEW c \in Dirs, Len(c) > Len(d)
        PROVE  TreeShows(files, collapsed, g, c)
    <3>3. Len(c) \in Nat /\ Len(d) \in Nat /\ Len(c) <= bound
      BY <1>4, <1>5, <2>2
    <3>1. PICK m \in Nat : m = bound - Len(c) /\ ~(k <= m)
      <4>1. bound - Len(c) \in Nat /\ ~(k <= bound - Len(c))
        BY <1>4, <2>2, <2>3, <3>3
      <4> QED
        BY <4>1
    <3>2. m \notin Bad
      BY <2>1, <3>1
    <3> QED
      BY <3>1, <3>2
  <2> QED
    BY <1>2, <2>2, <2>3, DirectoryShows
<1>7. PICK root \in Dirs : root = <<>>
  BY DEF Dirs
<1>8. TreeShows(files, collapsed, g, root)
  <2>1. bound - Len(root) \in Nat
    BY <1>4, <1>5
  <2>2. PICK m \in Nat : m = bound - Len(root)
    BY <2>1
  <2> QED
    BY <1>6, <1>7, <2>2
<1>9. Beneath(files, root) = files
  <2>1. \A f \in files : IsPrefix(root, DirOf[f])
    BY <1>7, NoNames, DirsAreNames
  <2> QED
    BY <2>1 DEF Beneath
<1> QED
  BY <1>3, <1>7, <1>8, <1>9 DEF TreeShows

LEMMA VisibleTreeShows ==
  ASSUME NEW files \in SUBSET DOMAIN DirOf, NEW collapsed \in SUBSET Dirs
  PROVE  ShowsFiles(files, collapsed, VisibleTree(files, collapsed))
<1>1. PICK rows : rows = TreeRows(files, collapsed)
  OBVIOUS
<1>2. PICK root \in Dirs : root = <<>>
  BY DEF Dirs
<1>3. ShowsFiles(files, collapsed, rows) /\ AllBeneath(root, rows)
  BY <1>1, <1>2, TreeRowsShow
<1>4. \A f \in files : IsPrefix(root, DirOf[f]) /\ f # 0
  BY <1>2, NoNames, DirsAreNames
<1>5. PICK shown \in BOOLEAN : shown = (ShowRootItem /\ ShowsRoot(files))
  OBVIOUS
<1>6. VisibleTree(files, collapsed)
        = IF shown THEN <<DirRow(root)>> \o (IF root \in collapsed THEN <<>> ELSE rows) ELSE rows
  BY <1>1, <1>2, <1>5 DEF VisibleTree
<1>7. CASE ~shown
  BY <1>3, <1>6, <1>7
<1>8. CASE shown /\ root \in collapsed
  <2>1. VisibleTree(files, collapsed) = <<DirRow(root)>> \o <<>>
    BY <1>6, <1>8
  <2>2. PICK h \in Seq(TreeRow) : h = <<DirRow(root)>>
    BY HeaderRow
  <2>3. VisibleTree(files, collapsed) = h
    BY <2>1, <2>2, ConcatEmptySeq
  <2>4. ShowsFiles(files, collapsed, <<DirRow(root)>>)
    BY <1>4, <1>8, CollapsedHeader
  <2> QED
    BY <2>2, <2>3, <2>4
<1>9. CASE shown /\ root \notin collapsed
  <2>1. 0 \notin files
    BY <1>4
  <2>2. ShowsFiles(files, collapsed, <<DirRow(root)>> \o rows)
    BY <1>3, <1>9, <2>1, OpenHeader
  <2>3. VisibleTree(files, collapsed) = <<DirRow(root)>> \o rows
    BY <1>6, <1>9
  <2> QED
    BY <2>2, <2>3
<1> QED
  BY <1>5, <1>7, <1>8, <1>9

-----------------------------------------------------------------------------
(* The flat list.                                                          *)

Enumerates(files, w) ==
    /\ w \in Seq(DOMAIN DirOf)
    /\ \A i \in DOMAIN w : w[i] \in files
    /\ \A f \in files : \E i \in DOMAIN w : w[i] = f
    /\ \A i, j \in DOMAIN w : w[i] = w[j] => i = j

LEMMA OrderedEnumerates ==
  ASSUME NEW files \in SUBSET DOMAIN DirOf
  PROVE  Enumerates(files, Ordered(files))
<1>1. PICK n \in Nat : /\ n = Cardinality(files) /\ Ordered(files) \in [1..n -> files]
                       /\ \A f \in files : \E p \in 1..n : Ordered(files)[p] = f
                       /\ \A p, q \in 1..n : p # q => Ordered(files)[p] # Ordered(files)[q]
  BY OrderedFiles
<1>2. PICK o \in [1..n -> files] : o = Ordered(files)
  BY <1>1
<1>3. (\A f \in files : \E p \in 1..n : o[p] = f) /\ \A p, q \in 1..n : p # q => o[p] # o[q]
  BY <1>1, <1>2
<1>4. o \in [1..n -> DOMAIN DirOf]
  BY <1>2
<1>5. o \in Seq(DOMAIN DirOf) /\ DOMAIN o = 1..n
  BY <1>1, <1>4, FunctionIsSeq
<1>6. Enumerates(files, o)
  BY <1>2, <1>3, <1>5 DEF Enumerates
<1> QED
  BY <1>2, <1>6

LEMMA EnumeratesJoined ==
  ASSUME NEW E, NEW F, NEW a, NEW b, E \cap F = {}, Enumerates(E, a), Enumerates(F, b)
  PROVE  Enumerates(E \union F, a \o b)
<1>1. a \in Seq(DOMAIN DirOf) /\ b \in Seq(DOMAIN DirOf)
  BY DEF Enumerates
<1>2. PICK l, m \in Nat : l = Len(a) /\ m = Len(b)
  BY <1>1
<1>3. PICK v : v = a \o b
  OBVIOUS
<1>4. /\ v \in Seq(DOMAIN DirOf) /\ DOMAIN a = 1..l /\ DOMAIN b = 1..m /\ DOMAIN v = 1..(l + m)
      /\ \A i \in 1..l : v[i] = a[i]
      /\ \A i \in 1..m : v[l + i] = b[i]
  BY <1>1, <1>2, <1>3, ConcatPlaces
<1>5. \A p \in 1..(l + m) : p \in 1..l \/ \E q \in 1..m : p = l + q
  BY <1>2, SecondPart
<1>6. \A p \in 1..l : p \in 1..(l + m)
  BY <1>2
<1>7. \A q \in 1..m : l + q \in 1..(l + m)
  BY <1>2
<1>8. \A i \in DOMAIN v : v[i] \in E \union F
  <2> TAKE i \in DOMAIN v
  <2>1. CASE i \in 1..l
    BY <1>4, <2>1 DEF Enumerates
  <2>2. CASE \E q \in 1..m : i = l + q
    <3>1. PICK q \in 1..m : i = l + q
      BY <2>2
    <3>2. v[i] = b[q] /\ b[q] \in F
      BY <1>4, <3>1 DEF Enumerates
    <3> QED
      BY <3>2
  <2> QED
    BY <1>4, <1>5, <2>1, <2>2
<1>9. \A f \in E \union F : \E i \in DOMAIN v : v[i] = f
  <2> TAKE f \in E \union F
  <2>1. CASE f \in E
    <3>1. PICK i \in 1..l : a[i] = f
      BY <1>4, <2>1 DEF Enumerates
    <3> QED
      BY <1>4, <1>6, <3>1
  <2>2. CASE f \in F
    <3>1. PICK i \in 1..m : b[i] = f
      BY <1>4, <2>2 DEF Enumerates
    <3> QED
      BY <1>4, <1>7, <3>1
  <2> QED
    BY <2>1, <2>2
<1>10. ASSUME NEW i \in DOMAIN v, NEW j \in DOMAIN v, v[i] = v[j]
       PROVE  i = j
  <2>1. \A p \in 1..l : v[p] = a[p] /\ a[p] \in E
    BY <1>4 DEF Enumerates
  <2>2. \A q \in 1..m : v[l + q] = b[q] /\ b[q] \in F
    BY <1>4 DEF Enumerates
  <2>3. CASE i \in 1..l /\ j \in 1..l
    BY <1>4, <1>10, <2>1, <2>3 DEF Enumerates
  <2>4. CASE i \in 1..l /\ \E q \in 1..m : j = l + q
    <3>1. PICK q \in 1..m : j = l + q
      BY <2>4
    <3> QED
      BY <1>10, <2>1, <2>2, <2>4, <3>1
  <2>5. CASE j \in 1..l /\ \E q \in 1..m : i = l + q
    <3>1. PICK q \in 1..m : i = l + q
      BY <2>5
    <3> QED
      BY <1>10, <2>1, <2>2, <2>5, <3>1
  <2>6. CASE (\E q \in 1..m : i = l + q) /\ \E q \in 1..m : j = l + q
    <3>1. PICK p \in 1..m : i = l + p
      BY <2>6
    <3>2. PICK q \in 1..m : j = l + q
      BY <2>6
    <3>3. b[p] = b[q]
      BY <1>10, <2>2, <3>1, <3>2
    <3>4. p = q
      BY <1>4, <3>1, <3>2, <3>3 DEF Enumerates
    <3> QED
      BY <3>1, <3>2, <3>4
  <2> QED
    BY <1>4, <1>5, <1>10, <2>3, <2>4, <2>5, <2>6
<1>11. Enumerates(E \union F, v)
  BY <1>4, <1>8, <1>9, <1>10 DEF Enumerates
<1> QED
  BY <1>3, <1>11

LEMMA FlatRowsShow ==
  ASSUME NEW listed \in SUBSET FileStatus, NEW collapsed,
         \A s, t \in listed : s.file = t.file => s = t
  PROVE  ShowsFiles({s.file : s \in listed}, collapsed, FlatRows(listed))
<1> DEFINE rank(s) == IF Conflicted(s) THEN 0 ELSE IF Tracked(s) THEN 1 ELSE 2
           class(k) == {s.file : s \in {s \in listed : k = (IF Conflicted(s) THEN 0 ELSE IF Tracked(s) THEN 1 ELSE 2)}}
<1>1. \A s \in listed : s.file \in DOMAIN DirOf
  BY DEF FileStatus
<1>2. PICK A, B, C \in SUBSET DOMAIN DirOf : A = class(0) /\ B = class(1) /\ C = class(2)
  <2>1. class(0) \in SUBSET DOMAIN DirOf /\ class(1) \in SUBSET DOMAIN DirOf /\ class(2) \in SUBSET DOMAIN DirOf
    BY <1>1
  <2> HIDE DEF class
  <2> QED
    BY <2>1
<1>3. PICK files \in SUBSET DOMAIN DirOf : files = {s.file : s \in listed}
  BY <1>1
<1>4. A \cap B = {} /\ (A \union B) \cap C = {} /\ (A \union B) \union C = files
  <2>1. \A f \in A : \E s \in listed : f = s.file /\ rank(s) = 0
    BY <1>2
  <2>2. \A f \in B : \E s \in listed : f = s.file /\ rank(s) = 1
    BY <1>2
  <2>3. \A f \in C : \E s \in listed : f = s.file /\ rank(s) = 2
    BY <1>2
  <2>4. \A s \in listed : s.file \in files /\ (rank(s) = 0 \/ rank(s) = 1 \/ rank(s) = 2)
    BY <1>3
  <2>5. \A s \in listed : (rank(s) = 0 => s.file \in A) /\ (rank(s) = 1 => s.file \in B) /\ (rank(s) = 2 => s.file \in C)
    BY <1>2
  <2>6. \A f \in files : \E s \in listed : f = s.file
    BY <1>3
  <2> HIDE DEF rank
  <2> QED
    BY <2>1, <2>2, <2>3, <2>4, <2>5, <2>6
<1>5. PICK w : w = (Ordered(A) \o Ordered(B)) \o Ordered(C)
  OBVIOUS
<1>6. Enumerates(files, w)
  <2>1. Enumerates(A, Ordered(A)) /\ Enumerates(B, Ordered(B)) /\ Enumerates(C, Ordered(C))
    BY OrderedEnumerates
  <2>2. Enumerates(A \union B, Ordered(A) \o Ordered(B))
    BY <1>4, <2>1, EnumeratesJoined
  <2>3. PICK D : D = A \union B
    OBVIOUS
  <2>4. PICK u : u = Ordered(A) \o Ordered(B)
    OBVIOUS
  <2>5. Enumerates(D \union C, u \o Ordered(C))
    BY <1>4, <2>1, <2>2, <2>3, <2>4, EnumeratesJoined
  <2> QED
    BY <1>4, <1>5, <2>3, <2>4, <2>5
<1>7. FlatRows(listed) = [i \in DOMAIN w |-> FileRow(w[i])]
  <2>1. A = class(0) /\ B = class(1) /\ C = class(2)
    BY <1>2
  <2>2. FlatRows(listed) = [i \in DOMAIN (Ordered(class(0)) \o Ordered(class(1)) \o Ordered(class(2))) |->
                              FileRow((Ordered(class(0)) \o Ordered(class(1)) \o Ordered(class(2)))[i])]
    BY DEF FlatRows
  <2> HIDE DEF class
  <2> QED
    BY <1>5, <2>1, <2>2
<1>8. PICK rows : rows = FlatRows(listed)
  OBVIOUS
<1>9. PICK n \in Nat : DOMAIN w = 1..n
  BY <1>6 DEF Enumerates
<1>10. \A i \in 1..n : w[i] \in files /\ w[i] \in DOMAIN DirOf /\ rows[i] = FileRow(w[i])
  BY <1>6, <1>7, <1>8, <1>9 DEF Enumerates
<1>11. \A i \in 1..n : rows[i] \in TreeRow /\ rows[i].file = w[i]
  BY <1>10, FileRowIsRow
<1>12. rows \in Seq(TreeRow) /\ DOMAIN rows = 1..n
  <2>1. rows = [i \in 1..n |-> rows[i]]
    BY <1>7, <1>8, <1>9
  <2>2. rows \in [1..n -> TreeRow]
    BY <1>11, <2>1
  <2> QED
    BY <1>9, <2>2, FunctionIsSeq
<1>13. /\ \A i \in DOMAIN rows : \E f \in files : rows[i] = FileRow(f)
       /\ \A f \in files : \E i \in DOMAIN rows : rows[i] = FileRow(f)
       /\ \A i, j \in DOMAIN rows : rows[i] = rows[j] => i = j
  BY <1>6, <1>9, <1>10, <1>11, <1>12 DEF Enumerates
<1>14. ShowsFiles(files, collapsed, rows)
  BY <1>12, <1>13, EachFileOnce
<1> QED
  BY <1>3, <1>8, <1>14

\* The files of a pane, and its rows.
Listed(rm, pane) == InPane(rm.detail.status, pane, rm.status_filter_mode, rm.query["status"])

LEMMA PaneShows ==
  ASSUME NEW rm \in RepoModes, NEW pane \in Panes
  PROVE  ShowsFiles({s.file : s \in Listed(rm, pane)}, rm.collapsed_status_dirs, Rows(rm, pane))
<1>1. PICK status \in Statuses : status = rm.detail.status
  BY DEF RepoModes, Details
<1>2. PICK mode : mode = rm.status_filter_mode
  OBVIOUS
<1>3. PICK query : query = rm.query["status"]
  OBVIOUS
<1>4. PICK collapsed \in SUBSET Dirs : collapsed = rm.collapsed_status_dirs
  BY DEF RepoModes
<1>5. PICK listed : listed = InPane(status, pane, mode, query)
  OBVIOUS
<1>6. listed \in SUBSET FileStatus /\ \A s, t \in listed : s.file = t.file => s = t
  <2>1. status \in Seq(FileStatus) /\ \A i, j \in DOMAIN status : status[i].file = status[j].file => i = j
    BY DEF Statuses
  <2>2. \A s \in listed : \E i \in DOMAIN status : s = status[i]
    BY <1>5 DEF InPane, Range
  <2> QED
    BY <2>1, <2>2
<1>7. PICK files \in SUBSET DOMAIN DirOf : files = {s.file : s \in listed}
  <2>1. \A s \in listed : s.file \in DOMAIN DirOf
    BY <1>6 DEF FileStatus
  <2> QED
    BY <2>1
<1>8. Listed(rm, pane) = listed
  BY <1>1, <1>2, <1>3, <1>5 DEF Listed
<1>9. PICK tree : tree = rm.status_tree_enabled
  OBVIOUS
<1>10. Rows(rm, pane) = VisibleStatusEntries(status, pane, tree, mode, query, collapsed)
  BY <1>1, <1>2, <1>3, <1>4, <1>9 DEF Rows
<1>11. CASE tree
  <2>1. Rows(rm, pane) = VisibleTree(files, collapsed)
    BY <1>5, <1>7, <1>10, <1>11 DEF VisibleStatusEntries
  <2>2. ShowsFiles(files, collapsed, VisibleTree(files, collapsed))
    BY VisibleTreeShows
  <2> QED
    BY <1>4, <1>7, <1>8, <2>1, <2>2
<1>12. CASE ~tree
  <2>1. Rows(rm, pane) = FlatRows(listed)
    BY <1>5, <1>10, <1>12 DEF VisibleStatusEntries
  <2>2. ShowsFiles({s.file : s \in listed}, collapsed, FlatRows(listed))
    BY <1>6, FlatRowsShow
  <2> QED
    BY <1>4, <1>8, <2>1, <2>2
<1> QED
  BY <1>11, <1>12

LEMMA RowsAre ==
  ASSUME NEW rm \in RepoModes, NEW pane \in Panes
  PROVE  /\ Rows(rm, pane) \in Seq(TreeRow) /\ Len(Rows(rm, pane)) \in Nat
         /\ DOMAIN Rows(rm, pane) = 1..Len(Rows(rm, pane))
<1>1. PICK rows \in Seq(TreeRow) : rows = Rows(rm, pane)
  BY PaneShows DEF ShowsFiles
<1>2. Len(rows) \in Nat /\ DOMAIN rows = 1..Len(rows)
  OBVIOUS
<1> QED
  BY <1>1, <1>2

TreeShownIn(rm, pane) ==
    LET rows == Rows(rm, pane)
        listed == InPane(rm.detail.status, pane, rm.status_filter_mode, rm.query["status"])
        at(f) == {i \in DOMAIN rows : rows[i].file = f}
        within(i) == {j \in DOMAIN rows : j # i /\ IsPrefix(rows[i].dir, rows[j].dir)}
        hidden(f) == \E i \in DOMAIN rows :
                        IsDirectory(rows[i]) /\ rows[i].dir \in rm.collapsed_status_dirs
                          /\ IsPrefix(rows[i].dir, DirOf[f])
    IN  /\ \A f \in {s.file : s \in listed} :
               Cardinality(at(f)) = IF hidden(f) THEN 0 ELSE 1
        /\ \A i \in DOMAIN rows :
               IsDirectory(rows[i]) => within(i) = (i + 1)..(i + Cardinality(within(i)))

EachShownOnce(files, collapsed, rows) ==
    \A f \in files :
        Cardinality({i \in DOMAIN rows : rows[i].file = f})
          = IF \E i \in DOMAIN rows : IsDirectory(rows[i]) /\ rows[i].dir \in collapsed
                                          /\ IsPrefix(rows[i].dir, DirOf[f])
            THEN 0 ELSE 1
RightBeneath(rows) ==
    \A i \in DOMAIN rows : IsDirectory(rows[i]) =>
       {j \in DOMAIN rows : j # i /\ IsPrefix(rows[i].dir, rows[j].dir)}
         = (i + 1)..(i + Cardinality({j \in DOMAIN rows : j # i /\ IsPrefix(rows[i].dir, rows[j].dir)}))

LEMMA TreeShownInPane ==
  ASSUME NEW rm \in RepoModes, NEW pane \in Panes
  PROVE  TreeShownIn(rm, pane)
<1>1. PICK rows \in Seq(TreeRow) : rows = Rows(rm, pane)
  BY RowsAre
<1>2. PICK collapsed : collapsed = rm.collapsed_status_dirs
  OBVIOUS
<1>3. PICK files : files = {s.file : s \in Listed(rm, pane)}
  OBVIOUS
<1>4. ShowsFiles(files, collapsed, rows)
  BY <1>1, <1>2, <1>3, PaneShows
<1>5. PICK n \in Nat : n = Len(rows) /\ DOMAIN rows = 1..n
  OBVIOUS
<1>6. ASSUME NEW f \in files
      PROVE  Cardinality({i \in DOMAIN rows : rows[i].file = f}) = IF Hidden(f, collapsed, rows) THEN 0 ELSE 1
  <2>1. PICK at : at = {i \in DOMAIN rows : rows[i].file = f}
    OBVIOUS
  <2>2. CASE Hidden(f, collapsed, rows)
    <3>1. at = {}
      BY <1>4, <2>1, <2>2 DEF ShowsFiles
    <3> QED
      BY <2>1, <2>2, <3>1, FS_EmptySet
  <2>3. CASE ~Hidden(f, collapsed, rows)
    <3>1. PICK i \in DOMAIN rows : rows[i].file = f
      BY <1>4, <2>3 DEF ShowsFiles
    <3>2. f # 0
      <4>1. PICK s \in Listed(rm, pane) : f = s.file
        BY <1>3
      <4>2. PICK status \in Seq(FileStatus) : status = rm.detail.status
        BY DEF RepoModes, Details, Statuses
      <4>3. s \in Range(status)
        BY <4>1, <4>2 DEF Listed, InPane
      <4>4. s \in FileStatus
        BY <4>2, <4>3 DEF Range
      <4>5. s.file \in DOMAIN DirOf
        BY <4>4 DEF FileStatus
      <4> QED
        BY <4>1, <4>5, DirsAreNames
    <3>3. ~IsDirectory(rows[i])
      BY <3>1, <3>2 DEF IsDirectory
    <3>4. \A j \in DOMAIN rows : rows[j].file = f => i = j
      BY <1>4, <3>1, <3>3 DEF ShowsFiles
    <3>5. at = {i}
      BY <2>1, <3>1, <3>4
    <3> QED
      BY <2>1, <2>3, <3>5, FS_Singleton
  <2> QED
    BY <2>2, <2>3
<1>7. ASSUME NEW i \in DOMAIN rows, IsDirectory(rows[i]), NEW W,
             W = {j \in DOMAIN rows : j # i /\ IsPrefix(rows[i].dir, rows[j].dir)}
      PROVE  W = (i + 1)..(i + Cardinality(W))
  <2>1. i \in 1..n /\ W \in SUBSET (1..n)
    BY <1>5, <1>7
  <2>2. \A j \in W : i < j /\ \A k \in (i + 1)..j : IsPrefix(rows[i].dir, rows[k].dir)
    BY <1>4, <1>7 DEF ShowsFiles
  <2>3. \A j \in W : j \in Nat /\ j <= n /\ j > i /\ \A k \in (i + 1)..j : k \in W
    <3> TAKE j \in W
    <3>1. j \in 1..n /\ i < j /\ \A k \in (i + 1)..j : IsPrefix(rows[i].dir, rows[k].dir)
      BY <2>1, <2>2
    <3>2. ASSUME NEW k \in (i + 1)..j
          PROVE  k \in W
      <4>1. k \in 1..n /\ k # i
        BY <2>1, <3>1
      <4> QED
        BY <1>5, <1>7, <3>1, <4>1
    <3> QED
      BY <2>1, <3>1, <3>2
  <2>4. PICK beyond : beyond = {k \in Nat : k >= i /\ k + 1 \notin W}
    OBVIOUS
  <2>5. n \in beyond
    <3>1. n + 1 \notin W
      BY <1>5, <2>3
    <3> QED
      BY <1>5, <2>1, <2>4, <3>1
  <2>6. PICK m \in beyond : \A k \in beyond : m <= k
    <3>1. beyond \in SUBSET Nat /\ beyond # {}
      BY <2>4, <2>5
    <3> QED
      BY <3>1, LeastNumber
  <2>7. m \in Nat /\ m >= i /\ m + 1 \notin W /\ i \in Nat
    BY <2>1, <2>4, <2>6
  <2>8. ASSUME NEW k \in (i + 1)..m
        PROVE  k \in W
    <3>1. k - 1 \in Nat /\ k - 1 >= i /\ (k - 1) + 1 = k /\ ~(m <= k - 1)
      BY <2>7, <2>8
    <3>2. k - 1 \notin beyond
      BY <2>6, <3>1
    <3> QED
      BY <2>4, <3>1, <3>2
  <2>9. ASSUME NEW j \in W
        PROVE  j \in (i + 1)..m
    <3>1. j \in Nat /\ j > i
      BY <2>3
    <3>2. CASE j > m
      <4>1. m + 1 \in (i + 1)..j
        BY <2>7, <3>1, <3>2
      <4> QED
        BY <2>3, <2>7, <4>1
    <3> QED
      BY <2>7, <3>1, <3>2
  <2>10. W = (i + 1)..m
    BY <2>8, <2>9
  <2>11. i + 1 \in Int /\ m \in Int /\ m - (i + 1) + 1 = m - i
    BY <2>7
  <2>12. PICK a \in Int : a = i + 1
    BY <2>11
  <2>13. Cardinality(a..m) = IF a > m THEN 0 ELSE m - a + 1
    BY <2>11, FS_Interval
  <2>14. Cardinality(W) = m - i
    BY <2>7, <2>10, <2>11, <2>12, <2>13
  <2>15. i + Cardinality(W) = m
    BY <2>7, <2>14
  <2> QED
    BY <2>10, <2>15
<1>8. \A i \in DOMAIN rows : IsDirectory(rows[i]) =>
         {j \in DOMAIN rows : j # i /\ IsPrefix(rows[i].dir, rows[j].dir)}
           = (i + 1)..(i + Cardinality({j \in DOMAIN rows : j # i /\ IsPrefix(rows[i].dir, rows[j].dir)}))
  BY <1>7
<1>9. \A f \in files :
         Hidden(f, collapsed, rows) <=> \E i \in DOMAIN rows : IsDirectory(rows[i]) /\ rows[i].dir \in collapsed
                                            /\ IsPrefix(rows[i].dir, DirOf[f])
  BY DEF Hidden
<1>10. \A f \in files :
          Cardinality({i \in DOMAIN rows : rows[i].file = f})
            = IF \E i \in DOMAIN rows : IsDirectory(rows[i]) /\ rows[i].dir \in collapsed
                                            /\ IsPrefix(rows[i].dir, DirOf[f])
              THEN 0 ELSE 1
  BY <1>6, <1>9
<1>11. files = {s.file : s \in InPane(rm.detail.status, pane, rm.status_filter_mode, rm.query["status"])}
  BY <1>3 DEF Listed
<1>12. EachShownOnce(files, collapsed, rows)
  BY <1>10 DEF EachShownOnce
<1>13. RightBeneath(rows)
  BY <1>8 DEF RightBeneath
<1>14. /\ EachShownOnce({s.file : s \in InPane(rm.detail.status, pane, rm.status_filter_mode, rm.query["status"])},
                       rm.collapsed_status_dirs, Rows(rm, pane))
       /\ RightBeneath(Rows(rm, pane))
  BY <1>1, <1>2, <1>11, <1>12, <1>13
<1> QED
  BY <1>14 DEF TreeShownIn, EachShownOnce, RightBeneath

-----------------------------------------------------------------------------
(* Bringing a selection back into its list.                                *)

SameView(rm, next) ==
    /\ next.detail = rm.detail /\ next.query = rm.query /\ next.by_name = rm.by_name
    /\ next.status_tree_enabled = rm.status_tree_enabled
    /\ next.collapsed_status_dirs = rm.collapsed_status_dirs
    /\ next.status_filter_mode = rm.status_filter_mode
    /\ next.active_subview = rm.active_subview
    /\ next.commit_subview_mode = rm.commit_subview_mode /\ next.stash_subview_mode = rm.stash_subview_mode
    /\ next.commit_history = rm.commit_history

OnlySelects(rm, next, changed) ==
    \A k \in (Lists \union Panes) \ changed : next.selected[k] = rm.selected[k]

\* The list has its cursor on an entry, unless it is empty.
OnAnEntry(rm, l) ==
    rm.selected[l] \in Range(Filtered(rm, l)) \/ (rm.selected[l] = 0 /\ Filtered(rm, l) = <<>>)

Selecting(rm, l, i, p) == [rm EXCEPT !.selected[l] = i, !.pending_commit_selection = p]

Selects(rm, l, i, p, next) ==
    /\ next \in RepoModes /\ SameView(rm, next) /\ OnlySelects(rm, next, {l})
    /\ next.selected[l] = i /\ next.pending_commit_selection = p

LEMMA SelectedIn ==
  ASSUME NEW rm \in RepoModes, NEW l \in Lists \union Panes, NEW i \in Nat, NEW p \in Entries \union {None}
  PROVE  Selects(rm, l, i, p, Selecting(rm, l, i, p))
<1>0. PICK next : next = [rm EXCEPT !.selected[l] = i, !.pending_commit_selection = p]
  OBVIOUS
<1>1. rm.selected \in [Lists \union Panes -> Nat]
  BY DEF RepoModes
<1>2. PICK s \in [Lists \union Panes -> Nat] : s = [rm.selected EXCEPT ![l] = i]
  BY <1>1
<1>3. next = [rm EXCEPT !.selected = s, !.pending_commit_selection = p]
  BY <1>0, <1>2
<1>4. next \in RepoModes
  BY <1>3 DEF RepoModes
<1>5. next.selected = s /\ next.pending_commit_selection = p /\ SameView(rm, next)
  BY <1>3 DEF RepoModes, SameView
<1>6. OnlySelects(rm, next, {l}) /\ next.selected[l] = i
  BY <1>1, <1>2, <1>5 DEF OnlySelects
<1> QED
  BY <1>0, <1>4, <1>5, <1>6 DEF Selects, Selecting

LEMMA FilteredSame ==
  ASSUME NEW rm, NEW next, NEW l,
         next.detail = rm.detail, next.query = rm.query, next.by_name = rm.by_name
  PROVE  Filtered(next, l) = Filtered(rm, l)
BY DEF Filtered

LEMMA FilteredIs ==
  ASSUME NEW rm \in RepoModes, NEW l \in Loaded
  PROVE  \E items \in Seq(Entries), shown \in Seq(Nat) :
            /\ items = rm.detail.lists[l] /\ shown = Filtered(rm, l)
            /\ (\A p \in DOMAIN shown : shown[p] \in DOMAIN items /\ shown[p] \in Nat)
            /\ \A p, q \in DOMAIN shown : p # q => shown[p] # shown[q]
            /\ DOMAIN items \in SUBSET Nat /\ 0 \notin DOMAIN items
            /\ DOMAIN shown \in SUBSET Nat /\ (shown = <<>> <=> DOMAIN shown = {})
            /\ shown # <<>> => 1 \in DOMAIN shown
<1>1. PICK items \in Seq(Entries) : items = rm.detail.lists[l]
  BY LoadedItems
<1>2. Shows(rm.detail.lists[l], rm.query[l], l \in rm.by_name, Filtered(rm, l))
  BY FilteredPlaces
<1>3. PICK shown \in Seq(DOMAIN items) :
         /\ shown = Filtered(rm, l) /\ \A p, q \in DOMAIN shown : p # q => shown[p] # shown[q]
  BY <1>1, <1>2 DEF Shows
<1>4. DOMAIN items \in SUBSET Nat /\ 0 \notin DOMAIN items
  OBVIOUS
<1>5. /\ DOMAIN shown \in SUBSET Nat /\ (shown = <<>> <=> DOMAIN shown = {})
      /\ shown # <<>> => 1 \in DOMAIN shown
  OBVIOUS
<1>6. \A p \in DOMAIN shown : shown[p] \in DOMAIN items /\ shown[p] \in Nat
  BY <1>3, <1>4
<1>7. shown \in Seq(Nat)
  BY <1>4, SeqMonotonic
<1> QED
  BY <1>1, <1>3, <1>4, <1>5, <1>6, <1>7

LEMMA FallbackIs ==
  ASSUME NEW rm \in RepoModes, NEW l \in Loaded
  PROVE  /\ Fallback(rm, l) \in Nat
         /\ Fallback(rm, l) \in Range(Filtered(rm, l)) \/ (Fallback(rm, l) = 0 /\ Filtered(rm, l) = <<>>)
<1>1. PICK items \in Seq(Entries), shown \in Seq(Nat) :
            /\ items = rm.detail.lists[l] /\ shown = Filtered(rm, l)
            /\ (\A p \in DOMAIN shown : shown[p] \in DOMAIN items /\ shown[p] \in Nat)
            /\ \A p, q \in DOMAIN shown : p # q => shown[p] # shown[q]
            /\ DOMAIN items \in SUBSET Nat /\ 0 \notin DOMAIN items
            /\ DOMAIN shown \in SUBSET Nat /\ (shown = <<>> <=> DOMAIN shown = {})
            /\ shown # <<>> => 1 \in DOMAIN shown
  BY FilteredIs
<1>2. PICK heads : heads = {p \in DOMAIN shown : l = "branches" /\ rm.detail.lists[l][shown[p]] = rm.detail.head}
  OBVIOUS
<1>3. Fallback(rm, l) = IF heads # {} THEN shown[Min(heads)] ELSE FirstOf(shown)
  BY <1>1, <1>2 DEF Fallback
<1>4. CASE heads # {}
  <2>1. heads \in SUBSET Nat /\ heads \in SUBSET DOMAIN shown
    BY <1>1, <1>2
  <2>2. PICK m \in heads : m = Min(heads)
    BY <1>4, <2>1, FirstNumber
  <2>3. Fallback(rm, l) = shown[m] /\ m \in DOMAIN shown
    BY <1>3, <1>4, <2>1, <2>2
  <2> QED
    BY <1>1, <2>3 DEF Range
<1>5. CASE heads = {} /\ shown # <<>>
  <2>1. Fallback(rm, l) = shown[1] /\ 1 \in DOMAIN shown
    BY <1>1, <1>3, <1>5 DEF FirstOf
  <2> QED
    BY <1>1, <2>1 DEF Range
<1>6. CASE shown = <<>>
  <2>1. heads = {}
    BY <1>1, <1>2, <1>6
  <2> QED
    BY <1>1, <1>3, <1>6, <2>1 DEF FirstOf
<1> QED
  BY <1>4, <1>5, <1>6

LEMMA ResyncSelects ==
  ASSUME NEW rm \in RepoModes, NEW l \in Lists
  PROVE  \E i \in Nat :
            /\ Resync(rm, l) = [rm EXCEPT !.selected[l] = i, !.pending_commit_selection = rm.pending_commit_selection]
            /\ l \in Loaded => i \in Range(Filtered(rm, l)) \/ (i = 0 /\ Filtered(rm, l) = <<>>)
<1>1. rm.selected[l] \in Nat
  BY DEF RepoModes
<1>2. PICK i : i = IF rm.selected[l] \in Range(Visible(rm, l)) THEN rm.selected[l]
                   ELSE IF l \in Loaded THEN Fallback(rm, l) ELSE FirstOf(Visible(rm, l))
  OBVIOUS
<1>3. l \notin Loaded => FirstOf(Visible(rm, l)) \in Nat
  <2>1. PICK items \in Seq(Entries) : items = Items(rm, l)
    BY VisiblePlaces
  <2>2. PICK shown \in Seq(DOMAIN items) : shown = Visible(rm, l)
    BY <2>1, VisiblePlaces DEF Shows
  <2>3. DOMAIN items \in SUBSET Nat
    OBVIOUS
  <2>4. shown # <<>> => shown[1] \in Nat
    BY <2>3
  <2> QED
    BY <2>2, <2>4 DEF FirstOf
<1>4. i \in Nat
  BY <1>1, <1>2, <1>3, FallbackIs
<1>5. Resync(rm, l) = [rm EXCEPT !.selected[l] = i]
  BY <1>2 DEF Resync
<1>6. [rm EXCEPT !.selected[l] = i]
        = [rm EXCEPT !.selected[l] = i, !.pending_commit_selection = rm.pending_commit_selection]
  BY DEF RepoModes
<1>7. l \in Loaded => i \in Range(Filtered(rm, l)) \/ (i = 0 /\ Filtered(rm, l) = <<>>)
  BY <1>2, FallbackIs DEF Visible
<1> QED
  BY <1>4, <1>5, <1>6, <1>7

SyncsTo(rm, next, l) ==
    /\ next \in RepoModes /\ SameView(rm, next) /\ OnlySelects(rm, next, {l})
    /\ l \in Loaded => OnAnEntry(next, l)
    /\ \/ next.pending_commit_selection = rm.pending_commit_selection
       \/ /\ l = "commits" /\ next.pending_commit_selection = None
          /\ next.selected[l] \in Range(Filtered(next, l))
          /\ next.detail.lists[l][next.selected[l]] = rm.pending_commit_selection

LEMMA ResyncResult ==
  ASSUME NEW rm \in RepoModes, NEW l \in Lists
  PROVE  SyncsTo(rm, Resync(rm, l), l)
<1>1. PICK i \in Nat :
         /\ Resync(rm, l) = [rm EXCEPT !.selected[l] = i, !.pending_commit_selection = rm.pending_commit_selection]
         /\ l \in Loaded => i \in Range(Filtered(rm, l)) \/ (i = 0 /\ Filtered(rm, l) = <<>>)
  BY ResyncSelects
<1>2. PICK p \in Entries \union {None} : p = rm.pending_commit_selection
  BY DEF RepoModes
<1>3. PICK next : next = [rm EXCEPT !.selected[l] = i, !.pending_commit_selection = p]
  OBVIOUS
<1>4. l \in Lists \union Panes
  OBVIOUS
<1>5. /\ next \in RepoModes /\ SameView(rm, next) /\ OnlySelects(rm, next, {l})
      /\ next.selected[l] = i /\ next.pending_commit_selection = p
  <2>1. Selects(rm, l, i, p, Selecting(rm, l, i, p))
    BY <1>1, <1>2, <1>4, SelectedIn
  <2> QED
    BY <1>3, <2>1 DEF Selects, Selecting
<1>6. Filtered(next, l) = Filtered(rm, l)
  BY <1>5, FilteredSame DEF SameView
<1> QED
  BY <1>1, <1>2, <1>3, <1>5, <1>6 DEF SyncsTo, OnAnEntry

LEMMA SyncResult ==
  ASSUME NEW rm \in RepoModes, NEW l \in Lists
  PROVE  /\ SyncsTo(rm, Sync(rm, l), l)
         /\ rm.pending_commit_selection \notin Range(rm.detail.lists["commits"])
              => Sync(rm, l).pending_commit_selection = rm.pending_commit_selection
<1>1. CASE l # "commits"
  <2>1. Sync(rm, l) = Resync(rm, l)
    BY <1>1 DEF Sync
  <2>2. SyncsTo(rm, Sync(rm, l), l)
    BY <2>1, ResyncResult
  <2> QED
    BY <1>1, <2>2 DEF SyncsTo
<1>2. CASE l = "commits"
  <2>1. Sync(rm, l) = SyncCommits(rm) /\ l \in Loaded
    BY <1>2 DEF Sync, Loaded
  <2>2. PICK items \in Seq(Entries), shown \in Seq(Nat) :
            /\ items = rm.detail.lists[l] /\ shown = Filtered(rm, l)
            /\ (\A p \in DOMAIN shown : shown[p] \in DOMAIN items /\ shown[p] \in Nat)
            /\ \A p, q \in DOMAIN shown : p # q => shown[p] # shown[q]
            /\ DOMAIN items \in SUBSET Nat /\ 0 \notin DOMAIN items
            /\ DOMAIN shown \in SUBSET Nat /\ (shown = <<>> <=> DOMAIN shown = {})
            /\ shown # <<>> => 1 \in DOMAIN shown
    BY <2>1, FilteredIs
  <2>3. PICK found : found = {p \in DOMAIN shown : items[shown[p]] = rm.pending_commit_selection}
    OBVIOUS
  <2>4. SyncCommits(rm) = IF found # {}
           THEN [rm EXCEPT !.selected[l] = shown[Min(found)], !.pending_commit_selection = None]
           ELSE Resync(rm, l)
    BY <1>2, <2>2, <2>3 DEF SyncCommits
  <2>5. CASE found = {}
    <3>1. Sync(rm, l) = Resync(rm, l)
      BY <2>1, <2>4, <2>5
    <3>2. PICK i \in Nat :
            Resync(rm, l) = [rm EXCEPT !.selected[l] = i, !.pending_commit_selection = rm.pending_commit_selection]
      BY ResyncSelects
    <3>3. Resync(rm, l).pending_commit_selection = rm.pending_commit_selection
      BY <3>2 DEF RepoModes
    <3> QED
      BY <3>1, <3>3, ResyncResult
  <2>6. CASE found # {}
    <3>1. found \in SUBSET Nat /\ found \in SUBSET DOMAIN shown
      BY <2>2, <2>3
    <3>2. PICK m \in found : m = Min(found)
      BY <2>6, <3>1, FirstNumber
    <3>3. PICK i \in Nat : i = shown[m]
      BY <2>2, <3>1, <3>2
    <3>4. m \in DOMAIN shown /\ i \in DOMAIN items /\ items[i] = rm.pending_commit_selection
      BY <2>2, <2>3, <3>2, <3>3
    <3>5. PICK p \in Entries \union {None} : p = None
      OBVIOUS
    <3>6. PICK next : next = [rm EXCEPT !.selected[l] = i, !.pending_commit_selection = p]
      OBVIOUS
    <3>7. next = Sync(rm, l)
      BY <2>1, <2>4, <2>6, <3>2, <3>3, <3>5, <3>6
    <3>8. l \in Lists \union Panes
      OBVIOUS
    <3>9. /\ next \in RepoModes /\ SameView(rm, next) /\ OnlySelects(rm, next, {l})
          /\ next.selected[l] = i /\ next.pending_commit_selection = p
      <4>1. Selects(rm, l, i, p, Selecting(rm, l, i, p))
        BY <3>3, <3>5, <3>8, SelectedIn
      <4> QED
        BY <3>6, <4>1 DEF Selects, Selecting
    <3>10. Filtered(next, l) = shown
      BY <2>2, <3>9, FilteredSame DEF SameView
    <3>11. i \in Range(shown)
      BY <3>3, <3>4 DEF Range
    <3>12. next.detail.lists[l][next.selected[l]] = rm.pending_commit_selection
      BY <2>2, <3>4, <3>9 DEF SameView
    <3>13. rm.pending_commit_selection \in Range(rm.detail.lists["commits"])
      BY <1>2, <2>2, <3>4 DEF Range
    <3>14. SyncsTo(rm, next, l)
      BY <1>2, <3>5, <3>9, <3>10, <3>11, <3>12 DEF SyncsTo, OnAnEntry
    <3> QED
      BY <3>7, <3>13, <3>14
  <2> QED
    BY <2>5, <2>6
<1> QED
  BY <1>1, <1>2

-----------------------------------------------------------------------------
(* The file panes.                                                         *)

LEMMA NamesDiffer ==
  /\ Lists \cap Panes = {}
  /\ Loaded \in SUBSET Lists
  /\ "status" \notin Lists
BY DEF Lists, Loaded, OwnerOf, Panes

LEMMA RowsSame ==
  ASSUME NEW rm, NEW next, NEW pane, SameView(rm, next)
  PROVE  Rows(next, pane) = Rows(rm, pane)
BY DEF SameView, Rows

LEMMA SyncStatusResult ==
  ASSUME NEW rm \in RepoModes
  PROVE  /\ SyncStatus(rm) \in RepoModes /\ SameView(rm, SyncStatus(rm))
         /\ OnlySelects(rm, SyncStatus(rm), Panes) /\ InRows(SyncStatus(rm))
         /\ SyncStatus(rm).pending_commit_selection = rm.pending_commit_selection
<1>1. rm.selected \in [Lists \union Panes -> Nat]
  BY DEF RepoModes
<1>2. PICK s : s = [l \in DOMAIN rm.selected |->
                      IF l \in Panes THEN EnsureSelection(rm.selected[l], Len(Rows(rm, l))) ELSE rm.selected[l]]
  OBVIOUS
<1>3. \A pane \in Panes : Len(Rows(rm, pane)) \in Nat
  BY RowsAre
<1>4. \A pane \in Panes :
         /\ EnsureSelection(rm.selected[pane], Len(Rows(rm, pane))) \in 0..Len(Rows(rm, pane))
         /\ EnsureSelection(rm.selected[pane], Len(Rows(rm, pane))) \in Nat
  <2> TAKE pane \in Panes
  <2>1. PICK n \in Nat : n = Len(Rows(rm, pane))
    BY <1>3
  <2>2. PICK k : k = rm.selected[pane]
    OBVIOUS
  <2>3. EnsureSelection(k, n) \in 0..n
    BY <2>1 DEF EnsureSelection
  <2> QED
    BY <2>1, <2>2, <2>3
<1>5. s \in [Lists \union Panes -> Nat]
  <2>1. \A l \in Lists \union Panes :
           (IF l \in Panes THEN EnsureSelection(rm.selected[l], Len(Rows(rm, l))) ELSE rm.selected[l]) \in Nat
    BY <1>1, <1>4
  <2> QED
    BY <1>1, <1>2, <2>1
<1>6. PICK next : next = [rm EXCEPT !.selected = s]
  OBVIOUS
<1>7. next = SyncStatus(rm)
  BY <1>2, <1>6 DEF SyncStatus
<1>8. next \in RepoModes
  BY <1>5, <1>6 DEF RepoModes
<1>9. next.selected = s /\ next.pending_commit_selection = rm.pending_commit_selection /\ SameView(rm, next)
  BY <1>6 DEF RepoModes, SameView
<1>10. OnlySelects(rm, next, Panes)
  BY <1>1, <1>2, <1>9 DEF OnlySelects
<1>11. InRows(next)
  <2>1. ASSUME NEW pane \in Panes
        PROVE  next.selected[pane] \in 0..Len(Rows(next, pane))
    <3>1. Rows(next, pane) = Rows(rm, pane)
      BY <1>9, RowsSame
    <3>2. next.selected[pane] = EnsureSelection(rm.selected[pane], Len(Rows(rm, pane)))
      BY <1>1, <1>2, <1>9
    <3> QED
      BY <1>4, <3>1, <3>2
  <2> QED
    BY <2>1 DEF InRows
<1> QED
  BY <1>7, <1>8, <1>9, <1>10, <1>11

-----------------------------------------------------------------------------
(* What a load brings back together, list by list.                         *)

Brought(rm, next, done) ==
    /\ next \in RepoModes /\ SameView(rm, next) /\ InRows(next)
    /\ \A l \in done : l \in Loaded => OnAnEntry(next, l)
    /\ \/ next.pending_commit_selection = rm.pending_commit_selection
       \/ /\ "commits" \in done /\ next.pending_commit_selection = None
          /\ next.selected["commits"] \in Range(Filtered(next, "commits"))
          /\ next.detail.lists["commits"][next.selected["commits"]] = rm.pending_commit_selection

LEMMA RowsKept ==
  ASSUME NEW rm \in RepoModes, NEW next, SameView(rm, next),
         \A pane \in Panes : next.selected[pane] = rm.selected[pane], InRows(rm)
  PROVE  InRows(next)
BY RowsSame DEF InRows

LEMMA BroughtNext ==
  ASSUME NEW rm \in RepoModes, NEW mid, NEW done \in SUBSET Lists, Brought(rm, mid, done),
         NEW l \in Lists, l \notin done
  PROVE  Brought(rm, Sync(mid, l), done \union {l})
<1>1. mid \in RepoModes /\ SameView(rm, mid) /\ InRows(mid)
  BY DEF Brought
<1>2. PICK next : next = Sync(mid, l)
  OBVIOUS
<1>3. SyncsTo(mid, next, l)
  BY <1>1, <1>2, SyncResult
<1>4. next \in RepoModes /\ SameView(mid, next) /\ OnlySelects(mid, next, {l})
  BY <1>3 DEF SyncsTo
<1>5. SameView(rm, next)
  BY <1>1, <1>4 DEF SameView
<1>6. InRows(next)
  <2>1. \A pane \in Panes : next.selected[pane] = mid.selected[pane]
    BY <1>4, NamesDiffer DEF OnlySelects
  <2> QED
    BY <1>1, <1>4, <2>1, RowsKept
<1>7. \A k : Filtered(next, k) = Filtered(mid, k)
  BY <1>4, FilteredSame DEF SameView
<1>8. \A k \in done : next.selected[k] = mid.selected[k]
  BY <1>4 DEF OnlySelects
<1>9. ASSUME NEW k \in done \union {l}, k \in Loaded
      PROVE  OnAnEntry(next, k)
  <2>1. CASE k = l
    BY <1>3, <1>9, <2>1 DEF SyncsTo
  <2>2. CASE k \in done
    <3>1. OnAnEntry(mid, k)
      BY <1>9, <2>2 DEF Brought
    <3> QED
      BY <1>7, <1>8, <2>2, <3>1 DEF OnAnEntry
  <2> QED
    BY <2>1, <2>2
<1>10. \/ next.pending_commit_selection = rm.pending_commit_selection
       \/ /\ "commits" \in done \union {l} /\ next.pending_commit_selection = None
          /\ next.selected["commits"] \in Range(Filtered(next, "commits"))
          /\ next.detail.lists["commits"][next.selected["commits"]] = rm.pending_commit_selection
  <2>1. CASE mid.pending_commit_selection = rm.pending_commit_selection
    BY <1>3, <2>1 DEF SyncsTo
  <2>2. CASE /\ "commits" \in done /\ mid.pending_commit_selection = None
             /\ mid.selected["commits"] \in Range(Filtered(mid, "commits"))
             /\ mid.detail.lists["commits"][mid.selected["commits"]] = rm.pending_commit_selection
    <3>1. next.selected["commits"] = mid.selected["commits"] /\ next.detail = mid.detail
      BY <1>4, <1>8, <2>2 DEF SameView
    <3>2. next.pending_commit_selection = None
      BY <1>3, <2>2 DEF SyncsTo
    <3> QED
      BY <1>7, <2>2, <3>1, <3>2
  <2> QED
    BY <2>1, <2>2 DEF Brought
<1> QED
  BY <1>2, <1>4, <1>5, <1>6, <1>9, <1>10 DEF Brought

LEMMA SyncIterates ==
  ASSUME NEW rm, NEW S, NEW s \in Seq(S)
  PROVE  \E g : SyncFold!Iterates(SyncStatus(rm), s, Len(s), g)
                  /\ FoldLeft(Sync, SyncStatus(rm), s) = g[1..Len(s)]
<1>0. PICK base : base = SyncStatus(rm)
  OBVIOUS
<1>1. PICK n \in Nat : n = Len(s) /\ DOMAIN s = 1..n
  OBVIOUS
<1>2. \E h : h = [t \in SUBSET (1..n) |->
        IF t = {} THEN base
        ELSE Sync(h[t \ {CHOOSE x \in t : \A y \in t : x >= y}],
               s[CHOOSE x \in t : \A y \in t : x >= y])]
  <2>1. \E h : SyncFold!Iterates(base, s, n, h)
    BY NumbersWellOrdered, SyncFold!IteratesExist
  <2> QED
    BY <2>1, Zenon DEF SyncFold!Iterates, SyncFold!Top
<1> DEFINE g == CHOOSE g : g = [t \in SUBSET (1..n) |->
        IF t = {} THEN base
        ELSE Sync(g[t \ {CHOOSE x \in t : \A y \in t : x >= y}],
               s[CHOOSE x \in t : \A y \in t : x >= y])]
<1>3. g = [t \in SUBSET (1..n) |->
        IF t = {} THEN base
        ELSE Sync(g[t \ {CHOOSE x \in t : \A y \in t : x >= y}],
               s[CHOOSE x \in t : \A y \in t : x >= y])]
  BY <1>2, Zenon
<1>4. FoldLeft(Sync, base, s) = g[1..n]
  BY <1>1 DEF FoldLeft, MapThenFoldSet, Max
<1> HIDE DEF g
<1>5. SyncFold!Iterates(base, s, n, g)
  BY <1>3, Zenon DEF SyncFold!Iterates, SyncFold!Top
<1> QED
  BY <1>0, <1>1, <1>4, <1>5

LEMMA SyncLoadedSteps ==
  ASSUME NEW rm
  PROVE  \E w : /\ w[0] = SyncStatus(rm) /\ w[7] = SyncLoaded(rm)
                /\ \A k \in 1..7 : w[k] = Sync(w[k - 1], SyncedByLoad[k])
<1>1. SyncedByLoad \in Seq(Lists) /\ Len(SyncedByLoad) = 7
  <2>1. /\ "branches" \in Lists /\ "remotes" \in Lists /\ "commits" \in Lists /\ "commit_files" \in Lists
        /\ "stash" \in Lists /\ "reflog" \in Lists /\ "worktrees" \in Lists
    BY DEF Lists, Loaded, OwnerOf
  <2> QED
    BY <2>1 DEF SyncedByLoad
<1>2. PICK s \in Seq(Lists) : s = SyncedByLoad
  BY <1>1
<1>3. PICK g : SyncFold!Iterates(SyncStatus(rm), s, Len(s), g)
                  /\ FoldLeft(Sync, SyncStatus(rm), s) = g[1..Len(s)]
  BY SyncIterates
<1>4. PICK n \in Nat : n = 7
  OBVIOUS
<1>5. SyncFold!Iterates(SyncStatus(rm), s, n, g) /\ SyncLoaded(rm) = g[1..n]
  BY <1>1, <1>2, <1>3, <1>4 DEF SyncLoaded
<1>20. PICK base : base = SyncStatus(rm)
  OBVIOUS
<1>21. SyncFold!Iterates(base, s, n, g)
  BY <1>5, <1>20
<1>6. ASSUME NEW k \in 1..n
      PROVE  g[1..k] = Sync(g[1..(k - 1)], s[k])
  <2>1. SyncFold!WellOrdered
    BY NumbersWellOrdered
  <2>2. PICK m \in Nat : m = n
    BY <1>4
  <2>3. PICK f : f = g
    OBVIOUS
  <2>4. SyncFold!Iterates(base, s, m, f) /\ k \in 1..m
    BY <1>21, <2>2, <2>3
  <2>5. f[1..k] = Sync(f[1..(k - 1)], s[k])
    BY <2>1, <2>4, SyncFold!IteratesOnce
  <2> QED
    BY <2>3, <2>5
<1>7. g[1..0] = SyncStatus(rm)
  <2>1. g = [t \in SUBSET (1..n) |-> IF t = {} THEN SyncStatus(rm)
                ELSE Sync(g[t \ {SyncFold!Top(t)}], s[SyncFold!Top(t)])]
    BY <1>5 DEF SyncFold!Iterates
  <2>2. 1..0 = {} /\ {} \in SUBSET (1..n)
    OBVIOUS
  <2> QED
    BY <2>1, <2>2
<1>8. PICK w : w = [k \in 0..n |-> g[1..k]]
  OBVIOUS
<1>9. \A k \in 0..n : w[k] = g[1..k]
  BY <1>8
<1>10. ASSUME NEW k \in 1..7
       PROVE  w[k] = Sync(w[k - 1], SyncedByLoad[k])
  <2>1. k \in 1..n /\ k \in 0..n /\ k - 1 \in 0..n
    BY <1>4
  <2> QED
    BY <1>2, <1>6, <1>9, <2>1
<1> QED
  BY <1>4, <1>5, <1>7, <1>9, <1>10

LEMMA SyncLoadedResult ==
  ASSUME NEW rm \in RepoModes
  PROVE  Brought(rm, SyncLoaded(rm),
                 {"branches", "remotes", "commits", "commit_files", "stash", "reflog", "worktrees"})
<1>1. PICK w : /\ w[0] = SyncStatus(rm) /\ w[7] = SyncLoaded(rm)
               /\ \A k \in 1..7 : w[k] = Sync(w[k - 1], SyncedByLoad[k])
  BY SyncLoadedSteps
<1>2. /\ w[1] = Sync(w[0], "branches") /\ w[2] = Sync(w[1], "remotes") /\ w[3] = Sync(w[2], "commits")
      /\ w[4] = Sync(w[3], "commit_files") /\ w[5] = Sync(w[4], "stash") /\ w[6] = Sync(w[5], "reflog")
      /\ w[7] = Sync(w[6], "worktrees")
  <2>1. \A k \in 1..7 : w[k] = Sync(w[k - 1], SyncedByLoad[k])
    BY <1>1
  <2>2. SyncedByLoad[1] = "branches" /\ SyncedByLoad[2] = "remotes" /\ SyncedByLoad[3] = "commits"
          /\ SyncedByLoad[4] = "commit_files" /\ SyncedByLoad[5] = "stash" /\ SyncedByLoad[6] = "reflog"
          /\ SyncedByLoad[7] = "worktrees"
    BY DEF SyncedByLoad
  <2>3. 1 - 1 = 0 /\ 2 - 1 = 1 /\ 3 - 1 = 2 /\ 4 - 1 = 3 /\ 5 - 1 = 4 /\ 6 - 1 = 5 /\ 7 - 1 = 6
    OBVIOUS
  <2>4. /\ w[1] = Sync(w[0], SyncedByLoad[1]) /\ w[2] = Sync(w[1], SyncedByLoad[2])
        /\ w[3] = Sync(w[2], SyncedByLoad[3]) /\ w[4] = Sync(w[3], SyncedByLoad[4])
        /\ w[5] = Sync(w[4], SyncedByLoad[5]) /\ w[6] = Sync(w[5], SyncedByLoad[6])
        /\ w[7] = Sync(w[6], SyncedByLoad[7])
    BY <2>1, <2>3
  <2> QED
    BY <2>2, <2>4
<1>3. /\ "branches" \in Lists /\ "remotes" \in Lists /\ "commits" \in Lists /\ "commit_files" \in Lists
      /\ "stash" \in Lists /\ "reflog" \in Lists /\ "worktrees" \in Lists
  BY DEF Lists, Loaded, OwnerOf
<1>10. Brought(rm, w[0], {})
  BY <1>1, SyncStatusResult DEF Brought
<1>11. Brought(rm, w[1], {"branches"})
  <2>1. Brought(rm, Sync(w[0], "branches"), {} \union {"branches"})
    BY <1>3, <1>10, BroughtNext
  <2> QED
    BY <1>2, <2>1
<1>12. Brought(rm, w[2], {"branches", "remotes"})
  <2>1. PICK done \in SUBSET Lists : done = {"branches"}
    BY <1>3
  <2>2. Brought(rm, Sync(w[1], "remotes"), done \union {"remotes"})
    BY <1>3, <1>11, <2>1, BroughtNext
  <2>3. done \union {"remotes"} = {"branches", "remotes"}
    BY <2>1
  <2> QED
    BY <1>2, <2>2, <2>3
<1>13. Brought(rm, w[3], {"branches", "remotes", "commits"})
  <2>1. PICK done \in SUBSET Lists : done = {"branches", "remotes"}
    BY <1>3
  <2>2. Brought(rm, Sync(w[2], "commits"), done \union {"commits"})
    BY <1>3, <1>12, <2>1, BroughtNext
  <2>3. done \union {"commits"} = {"branches", "remotes", "commits"}
    BY <2>1
  <2> QED
    BY <1>2, <2>2, <2>3
<1>14. Brought(rm, w[4], {"branches", "remotes", "commits", "commit_files"})
  <2>1. PICK done \in SUBSET Lists : done = {"branches", "remotes", "commits"}
    BY <1>3
  <2>2. Brought(rm, Sync(w[3], "commit_files"), done \union {"commit_files"})
    BY <1>3, <1>13, <2>1, BroughtNext
  <2>3. done \union {"commit_files"} = {"branches", "remotes", "commits", "commit_files"}
    BY <2>1
  <2> QED
    BY <1>2, <2>2, <2>3
<1>15. Brought(rm, w[5], {"branches", "remotes", "commits", "commit_files", "stash"})
  <2>1. PICK done \in SUBSET Lists : done = {"branches", "remotes", "commits", "commit_files"}
    BY <1>3
  <2>2. Brought(rm, Sync(w[4], "stash"), done \union {"stash"})
    BY <1>3, <1>14, <2>1, BroughtNext
  <2>3. done \union {"stash"} = {"branches", "remotes", "commits", "commit_files", "stash"}
    BY <2>1
  <2> QED
    BY <1>2, <2>2, <2>3
<1>16. Brought(rm, w[6], {"branches", "remotes", "commits", "commit_files", "stash", "reflog"})
  <2>1. PICK done \in SUBSET Lists : done = {"branches", "remotes", "commits", "commit_files", "stash"}
    BY <1>3
  <2>2. Brought(rm, Sync(w[5], "reflog"), done \union {"reflog"})
    BY <1>3, <1>15, <2>1, BroughtNext
  <2>3. done \union {"reflog"} = {"branches", "remotes", "commits", "commit_files", "stash", "reflog"}
    BY <2>1
  <2> QED
    BY <1>2, <2>2, <2>3
<1>17. Brought(rm, w[7], {"branches", "remotes", "commits", "commit_files", "stash", "reflog", "worktrees"})
  <2>1. PICK done \in SUBSET Lists : done = {"branches", "remotes", "commits", "commit_files", "stash", "reflog"}
    BY <1>3
  <2>2. Brought(rm, Sync(w[6], "worktrees"), done \union {"worktrees"})
    BY <1>3, <1>16, <2>1, BroughtNext
  <2>3. done \union {"worktrees"}
           = {"branches", "remotes", "commits", "commit_files", "stash", "reflog", "worktrees"}
    BY <2>1
  <2> QED
    BY <1>2, <2>2, <2>3
<1> QED
  BY <1>1, <1>17

Good(rm) == rm \in RepoModes /\ InRows(rm) /\ InLists(rm)

Synced == {"branches", "remotes", "commits", "stash", "reflog", "worktrees"}

LEMMA SyncedLists == Loaded \intersect Range(SyncedByLoad) = Synced /\ Synced \in SUBSET Lists
<1>1. DOMAIN SyncedByLoad = 1..7
  BY DEF SyncedByLoad
<1>2. SyncedByLoad[1] = "branches" /\ SyncedByLoad[2] = "remotes" /\ SyncedByLoad[3] = "commits"
        /\ SyncedByLoad[4] = "commit_files" /\ SyncedByLoad[5] = "stash" /\ SyncedByLoad[6] = "reflog"
        /\ SyncedByLoad[7] = "worktrees"
  BY DEF SyncedByLoad
<1>3. Range(SyncedByLoad) =
         {"branches", "remotes", "commits", "commit_files", "stash", "reflog", "worktrees"}
  BY <1>1, <1>2 DEF Range
<1>4. "commit_files" \notin Loaded /\ Synced \in SUBSET Loaded
  BY DEF Loaded, Synced
<1> QED
  BY <1>3, <1>4 DEF Synced, Lists

LEMMA GoodIs ==
  ASSUME NEW rm
  PROVE  Good(rm) <=> rm \in RepoModes /\ InRows(rm) /\ \A l \in Synced : InList(rm, l)
BY SyncedLists DEF Good, InLists

LEMMA ActiveListIs ==
  ASSUME NEW rm \in RepoModes
  PROVE  /\ ActiveList(rm) \in SUBSET Lists
         /\ ActiveList(rm) = {} \/ \E l \in Lists : ActiveList(rm) = {l}
         /\ rm.active_subview = "status" => ActiveList(rm) = {}
BY DEF ActiveList, Lists, Loaded, OwnerOf

LEMMA InListKept ==
  ASSUME NEW rm, NEW next, NEW l, next.selected[l] = rm.selected[l], Filtered(next, l) = Filtered(rm, l),
         next.query[l] = rm.query[l], InList(rm, l)
  PROVE  InList(next, l)
BY DEF InList

LEMMA SyncKeeps ==
  ASSUME NEW rm \in RepoModes, NEW l \in Lists, InRows(rm),
         \A k \in Synced : k = l \/ InList(rm, k)
  PROVE  Good(Sync(rm, l))
<1>1. PICK next : next = Sync(rm, l)
  OBVIOUS
<1>2. SyncsTo(rm, next, l)
  BY <1>1, SyncResult
<1>3. next \in RepoModes /\ SameView(rm, next) /\ OnlySelects(rm, next, {l})
  BY <1>2 DEF SyncsTo
<1>4. InRows(next)
  <2>1. \A pane \in Panes : next.selected[pane] = rm.selected[pane]
    BY <1>3, NamesDiffer DEF OnlySelects
  <2> QED
    BY <1>3, <2>1, RowsKept
<1>5. ASSUME NEW k \in Synced
      PROVE  InList(next, k)
  <2>1. k \in Loaded /\ k \in Lists
    BY SyncedLists
  <2>2. CASE k = l
    BY <1>2, <2>1, <2>2 DEF SyncsTo, OnAnEntry, InList
  <2>3. CASE k # l
    <3>1. next.selected[k] = rm.selected[k]
      BY <1>3, <2>1, <2>3 DEF OnlySelects
    <3>2. Filtered(next, k) = Filtered(rm, k) /\ next.query[k] = rm.query[k]
      BY <1>3, FilteredSame DEF SameView
    <3> QED
      BY <2>3, <3>1, <3>2, InListKept
  <2> QED
    BY <2>2, <2>3
<1> QED
  BY <1>1, <1>3, <1>4, <1>5, GoodIs

LEMMA SyncStatusKeeps ==
  ASSUME NEW rm \in RepoModes, \A k \in Synced : InList(rm, k)
  PROVE  Good(SyncStatus(rm))
<1>1. PICK next : next = SyncStatus(rm)
  OBVIOUS
<1>2. next \in RepoModes /\ SameView(rm, next) /\ OnlySelects(rm, next, Panes) /\ InRows(next)
  BY <1>1, SyncStatusResult
<1>3. ASSUME NEW k \in Synced
      PROVE  InList(next, k)
  <2>1. k \in Lists /\ k \notin Panes
    BY SyncedLists, NamesDiffer
  <2>2. next.selected[k] = rm.selected[k]
    BY <1>2, <2>1 DEF OnlySelects
  <2>3. Filtered(next, k) = Filtered(rm, k) /\ next.query[k] = rm.query[k]
    BY <1>2, FilteredSame DEF SameView
  <2> QED
    BY <2>2, <2>3, InListKept
<1> QED
  BY <1>1, <1>2, <1>3, GoodIs

LEMMA SyncActiveKeeps ==
  ASSUME NEW rm \in RepoModes, rm.active_subview = "status" \/ InRows(rm),
         \A k \in Synced : k \in ActiveList(rm) \/ InList(rm, k)
  PROVE  Good(SyncActive(rm))
<1>1. CASE rm.active_subview = "status"
  <2>1. \A k \in Synced : InList(rm, k)
    BY <1>1, ActiveListIs
  <2>2. SyncActive(rm) = SyncStatus(rm)
    BY <1>1 DEF SyncActive
  <2> QED
    BY <2>1, <2>2, SyncStatusKeeps
<1>2. CASE rm.active_subview # "status" /\ ActiveList(rm) = {}
  <2>1. SyncActive(rm) = rm
    BY <1>2 DEF SyncActive
  <2> QED
    BY <1>2, <2>1, GoodIs
<1>3. CASE rm.active_subview # "status" /\ ActiveList(rm) # {}
  <2>1. PICK l \in Lists : ActiveList(rm) = {l}
    BY <1>3, ActiveListIs
  <2>2. PICK k \in ActiveList(rm) : k = CHOOSE x \in ActiveList(rm) : TRUE
    BY <1>3
  <2>3. SyncActive(rm) = Sync(rm, l)
    BY <1>3, <2>1, <2>2 DEF SyncActive
  <2> QED
    BY <1>3, <2>1, <2>3, SyncKeeps
<1> QED
  BY <1>1, <1>2, <1>3

-----------------------------------------------------------------------------
(* What a load reads.                                                      *)

LEMMA TouchingIs ==
  ASSUME NEW stashes \in Seq(Entries), NEW file
  PROVE  Touching(stashes, file) \in Seq(Entries)
<1>1. PICK S : S = {i \in DOMAIN stashes : file = None \/ file \in Range(FilesOf[stashes[i]])}
  OBVIOUS
<1>2. DOMAIN stashes \in SUBSET Nat /\ IsFiniteSet(DOMAIN stashes)
  BY SeqDomain
<1>3. S \in SUBSET DOMAIN stashes /\ S \in SUBSET Nat /\ IsFiniteSet(S)
  BY <1>1, <1>2, FS_Subset
<1>4. PICK n \in Nat : Ordered(S) \in [1..n -> S]
  BY <1>3, OrderedPlaces
<1>5. PICK touching \in [1..n -> S] : touching = Ordered(S)
  BY <1>4
<1>6. Touching(stashes, file) = [m \in 1..n |-> stashes[touching[m]]]
  BY <1>1, <1>5 DEF Touching
<1>7. \A i \in DOMAIN stashes : stashes[i] \in Entries
  OBVIOUS
<1>8. Touching(stashes, file) \in [1..n -> Entries]
  BY <1>3, <1>6, <1>7
<1> QED
  BY <1>4, <1>8, FunctionIsSeq

Diffs == [path : DOMAIN DirOf \union {None}, pane : Panes]

LEMMA DetailIs ==
  ASSUME NEW version \in Versions, NEW history \in Histories, NEW diff \in Diffs
  PROVE  Detail(version, history, diff) \in Details
<1>1. PICK lists : lists = [l \in Loaded |->
                  CASE l = "commits" -> version.commits[history]
                    [] l = "stash" -> Touching(version.lists[l], diff.path)
                    [] OTHER -> version.lists[l]]
  OBVIOUS
<1>2. /\ version.lists \in [Loaded \ {"commits"} -> Seq(Entries)]
      /\ version.commits \in [Histories -> Seq(Entries)] /\ version.status \in Statuses
      /\ version.head \in Entries \union {None} /\ version.rebasing \in BOOLEAN
  BY DEF Versions
<1>3. ASSUME NEW l \in Loaded
      PROVE  lists[l] \in Seq(Entries)
  <2>1. CASE l = "commits"
    BY <1>1, <1>2, <2>1
  <2>2. CASE l = "stash"
    <3>1. PICK stashes \in Seq(Entries) : stashes = version.lists[l]
      BY <1>2, <2>2
    <3> QED
      BY <1>1, <2>2, <3>1, TouchingIs
  <2>3. CASE l # "commits" /\ l # "stash"
    BY <1>1, <1>2, <2>3
  <2> QED
    BY <2>1, <2>2, <2>3
<1>4. lists \in [Loaded -> Seq(Entries)]
  BY <1>1, <1>3
<1>5. PICK path : path = IF diff.path # None \/ version.status = <<>> THEN diff.path ELSE version.status[1].file
  OBVIOUS
<1>6. path \in DOMAIN DirOf \union {None}
  <2>1. CASE diff.path # None \/ version.status = <<>>
    BY <1>5, <2>1 DEF Diffs
  <2>2. CASE diff.path = None /\ version.status # <<>>
    <3>1. PICK s \in Seq(FileStatus) : s = version.status
      BY <1>2 DEF Statuses
    <3>2. s[1] \in FileStatus
      BY <2>2, <3>1
    <3> QED
      BY <1>5, <2>2, <3>1, <3>2 DEF FileStatus
  <2> QED
    BY <2>1, <2>2
<1>7. [diff EXCEPT !.path = IF diff.path # None \/ version.status = <<>> THEN diff.path ELSE version.status[1].file]
         = [path |-> path, pane |-> diff.pane]
  BY <1>5 DEF Diffs
<1>8. Detail(version, history, diff) =
        [lists |-> lists, status |-> version.status, diff |-> [path |-> path, pane |-> diff.pane],
         head |-> version.head, rebasing |-> version.rebasing]
  BY <1>1, <1>7 DEF Detail
<1> QED
  BY <1>2, <1>4, <1>6, <1>8 DEF Details, Diffs

LEMMA NowIs ==
  ASSUME Typed
  PROVE  Now \in Versions
<1>1. PICK versions \in Seq(Versions) : versions = Repos[repo.name]
  BY ReposAssumption DEF Typed
<1>2. repo.version \in DOMAIN versions
  BY <1>1 DEF Typed
<1> QED
  BY <1>1, <1>2 DEF Now

LEMMA LoadedIs ==
  ASSUME Typed, NEW history \in Histories, NEW diff \in Diffs
  PROVE  Detail(Now, history, diff) \in Details /\ Detail(Now, history, diff) # None
<1>1. PICK version \in Versions : version = Now
  BY NowIs
<1>2. Detail(version, history, diff) \in Details
  BY DetailIs
<1> QED
  BY <1>1, <1>2, DetailAssumption

LEMMA RequestedIs ==
  ASSUME NEW rm \in RepoModes
  PROVE  Requested(rm) \in Histories /\ rm.detail.diff \in Diffs
BY DEF Requested, RepoModes, Histories, HeadHistory, Details, Diffs

-----------------------------------------------------------------------------
(* Moving the cursor.                                                      *)

Choosing(rm, l, i) == [rm EXCEPT !.selected[l] = i]

LEMMA ChoosingIs ==
  ASSUME NEW rm \in RepoModes, NEW l \in Lists \union Panes, NEW i \in Nat
  PROVE  Selects(rm, l, i, rm.pending_commit_selection, Choosing(rm, l, i))
<1>1. PICK p \in Entries \union {None} : p = rm.pending_commit_selection
  BY DEF RepoModes
<1>2. Selects(rm, l, i, p, Selecting(rm, l, i, p))
  BY SelectedIn
<1>3. Selecting(rm, l, i, p) = Choosing(rm, l, i)
  BY <1>1 DEF Selecting, Choosing, RepoModes
<1> QED
  BY <1>1, <1>2, <1>3

LEMMA ChoosingKeeps ==
  ASSUME NEW rm, Good(rm), NEW l \in Lists, NEW i \in Nat,
         l \in Synced => i \in Range(Filtered(rm, l)) \/ (i = 0 /\ Filtered(rm, l) = <<>>)
  PROVE  Good(Choosing(rm, l, i))
<1>1. rm \in RepoModes /\ InRows(rm) /\ \A k \in Synced : InList(rm, k)
  BY GoodIs
<1>2. PICK next : next = Choosing(rm, l, i)
  OBVIOUS
<1>3. /\ next \in RepoModes /\ SameView(rm, next) /\ OnlySelects(rm, next, {l})
      /\ next.selected[l] = i
  BY <1>1, <1>2, ChoosingIs DEF Selects
<1>4. InRows(next)
  <2>1. \A pane \in Panes : next.selected[pane] = rm.selected[pane]
    BY <1>3, NamesDiffer DEF OnlySelects
  <2> QED
    BY <1>1, <1>3, <2>1, RowsKept
<1>5. ASSUME NEW k \in Synced
      PROVE  InList(next, k)
  <2>1. Filtered(next, k) = Filtered(rm, k) /\ next.query[k] = rm.query[k] /\ k \in Lists
    BY <1>3, FilteredSame, SyncedLists DEF SameView
  <2>2. CASE k = l
    BY <1>3, <2>1, <2>2 DEF InList
  <2>3. CASE k # l
    <3>1. next.selected[k] = rm.selected[k]
      BY <1>3, <2>1, <2>3 DEF OnlySelects
    <3> QED
      BY <1>1, <2>1, <3>1, InListKept
  <2> QED
    BY <2>2, <2>3
<1> QED
  BY <1>2, <1>3, <1>4, <1>5, GoodIs

LEMMA ChoosingRowKeeps ==
  ASSUME NEW rm, Good(rm), NEW pane \in Panes, NEW i \in Nat, i \in 0..Len(Rows(rm, pane))
  PROVE  Good(Choosing(rm, pane, i))
<1>1. rm \in RepoModes /\ InRows(rm) /\ \A k \in Synced : InList(rm, k)
  BY GoodIs
<1>2. PICK next : next = Choosing(rm, pane, i)
  OBVIOUS
<1>3. /\ next \in RepoModes /\ SameView(rm, next) /\ OnlySelects(rm, next, {pane})
      /\ next.selected[pane] = i
  BY <1>1, <1>2, ChoosingIs DEF Selects
<1>4. InRows(next)
  <2>1. ASSUME NEW k \in Panes
        PROVE  next.selected[k] \in 0..Len(Rows(next, k))
    <3>1. Rows(next, k) = Rows(rm, k)
      BY <1>3, RowsSame
    <3>2. CASE k = pane
      BY <1>3, <3>1, <3>2
    <3>3. CASE k # pane
      <4>1. next.selected[k] = rm.selected[k]
        BY <1>3, <3>3 DEF OnlySelects
      <4> QED
        BY <1>1, <3>1, <4>1 DEF InRows
    <3> QED
      BY <3>2, <3>3
  <2> QED
    BY <2>1 DEF InRows
<1>5. ASSUME NEW k \in Synced
      PROVE  InList(next, k)
  <2>1. Filtered(next, k) = Filtered(rm, k) /\ next.query[k] = rm.query[k] /\ k \in Lists /\ k # pane
    BY <1>3, FilteredSame, SyncedLists, NamesDiffer DEF SameView
  <2>2. next.selected[k] = rm.selected[k]
    BY <1>3, <2>1 DEF OnlySelects
  <2> QED
    BY <1>1, <2>1, <2>2, InListKept
<1> QED
  BY <1>2, <1>3, <1>4, <1>5, GoodIs

\* The rows of a list are places in what is loaded, each its own.
Numbers(shown, n) ==
    /\ shown \in Seq(Nat) /\ n \in Nat /\ n = Len(shown) /\ DOMAIN shown = 1..n
    /\ \A p \in 1..n : shown[p] \in Nat /\ shown[p] # 0
    /\ \A p, q \in 1..n : p # q => shown[p] # shown[q]
    /\ shown = <<>> <=> n = 0

LEMMA VisibleNumbers ==
  ASSUME NEW rm \in RepoModes, NEW l \in Lists
  PROVE  \E n \in Nat : Numbers(Visible(rm, l), n)
<1>1. PICK items \in Seq(Entries) : items = Items(rm, l)
  BY VisiblePlaces
<1>2. PICK shown \in Seq(DOMAIN items) :
         /\ shown = Visible(rm, l)
         /\ \A p, q \in DOMAIN shown : p # q => shown[p] # shown[q]
  BY <1>1, VisiblePlaces DEF Shows
<1>3. PICK n \in Nat : n = Len(shown) /\ DOMAIN shown = 1..n /\ (shown = <<>> <=> n = 0)
  OBVIOUS
<1>4. DOMAIN items \in SUBSET Nat /\ 0 \notin DOMAIN items
  OBVIOUS
<1>5. \A p \in 1..n : shown[p] \in DOMAIN items
  BY <1>2, <1>3
<1>6. \A p \in 1..n : shown[p] \in Nat /\ shown[p] # 0
  BY <1>4, <1>5
<1>7. shown \in Seq(Nat)
  BY <1>4, SeqMonotonic
<1>8. Numbers(shown, n)
  BY <1>2, <1>3, <1>6, <1>7 DEF Numbers
<1> QED
  BY <1>2, <1>8

\* Where an index is shown, or 0.
PlaceOf(shown, x) == SelectInSeq(shown, LAMBDA i : i = x)

LEMMA PlaceIs ==
  ASSUME NEW shown, NEW n, Numbers(shown, n), NEW x
  PROVE  /\ PlaceOf(shown, x) \in 0..n
         /\ PlaceOf(shown, x) # 0 => shown[PlaceOf(shown, x)] = x
         /\ \A p \in 1..n : shown[p] = x => PlaceOf(shown, x) = p
<1>1. PICK S : S = {p \in 1..Len(shown) : shown[p] = x}
  OBVIOUS
<1>2. PlaceOf(shown, x) = IF S # {} THEN Min(S) ELSE 0
  BY <1>1 DEF PlaceOf, SelectInSeq
<1>3. S \in SUBSET Nat /\ S \in SUBSET (1..n) /\ \A p \in S : shown[p] = x
  BY <1>1 DEF Numbers
<1>4. CASE S = {}
  BY <1>1, <1>2, <1>4 DEF Numbers
<1>5. CASE S # {}
  <2>1. PICK m \in S : m = Min(S)
    BY <1>3, <1>5, FirstNumber
  <2>2. PlaceOf(shown, x) = m /\ m \in 1..n /\ shown[m] = x
    BY <1>2, <1>3, <1>5, <2>1
  <2>3. \A p \in 1..n : shown[p] = x => p = m
    BY <2>2 DEF Numbers
  <2> QED
    BY <2>2, <2>3 DEF Numbers
<1> QED
  BY <1>4, <1>5

\* Stepping around the end of n rows.
LEMMA Around ==
  ASSUME NEW n \in Nat, n # 0, NEW from \in 1..n, NEW d \in {-1, 1}
  PROVE  \E to \in 1..n : to = 1 + ((from - 1 + d) % n) /\ (to - from - d) % n = 0
<1>1. CASE from - 1 + d \in 0..(n - 1)
  <2>1. (from - 1 + d) % n = from - 1 + d
    BY <1>1
  <2>2. PICK to \in 1..n : to = from + d
    BY <1>1
  <2>3. to - from - d = 0 /\ 0 % n = 0
    BY <2>2
  <2> QED
    BY <2>1, <2>2, <2>3
<1>2. CASE from - 1 + d = -1
  <2>1. (-1) % n = n - 1
    OBVIOUS
  <2>2. from = 1 /\ d = -1
    BY <1>2
  <2>3. n - from - d = n /\ n % n = 0
    BY <2>2
  <2> QED
    BY <1>2, <2>1, <2>2, <2>3
<1>3. CASE from - 1 + d = n
  <2>1. n % n = 0
    OBVIOUS
  <2>2. from = n /\ d = 1
    BY <1>3
  <2>3. 1 - from - d = -n /\ (-n) % n = 0
    BY <2>2
  <2> QED
    BY <1>3, <2>1, <2>2, <2>3
<1> QED
  BY <1>1, <1>2, <1>3

LEMMA SteppedIs ==
  ASSUME NEW rm \in RepoModes, NEW l \in Lists, NEW d \in {-1, 1}
  PROVE  /\ Stepped(rm, l, d) \in Nat
         /\ Stepped(rm, l, d) \in Range(Visible(rm, l)) \/ (Stepped(rm, l, d) = 0 /\ Visible(rm, l) = <<>>)
<1>1. PICK n \in Nat : Numbers(Visible(rm, l), n)
  BY VisibleNumbers
<1>2. PICK shown : shown = Visible(rm, l)
  OBVIOUS
<1>3. PICK at \in 0..n : at = PlaceOf(shown, rm.selected[l])
  BY <1>1, <1>2, PlaceIs
<1>4. Stepped(rm, l, d) = IF shown = <<>> THEN 0
         ELSE shown[1 + (((IF at = 0 THEN 1 ELSE at) - 1 + d) % Len(shown))]
  BY <1>2, <1>3 DEF Stepped, PlaceOf
<1>5. CASE shown = <<>>
  BY <1>2, <1>4, <1>5
<1>6. CASE shown # <<>>
  <2>1. n # 0 /\ Len(shown) = n /\ DOMAIN shown = 1..n /\ \A p \in 1..n : shown[p] \in Nat
    BY <1>1, <1>2, <1>6 DEF Numbers
  <2>2. PICK from \in 1..n : from = IF at = 0 THEN 1 ELSE at
    BY <1>3, <2>1
  <2>3. PICK to \in 1..n : to = 1 + ((from - 1 + d) % n)
    BY <2>1, Around
  <2>4. Stepped(rm, l, d) = shown[to]
    BY <1>4, <1>6, <2>1, <2>2, <2>3
  <2> QED
    BY <1>2, <2>1, <2>4 DEF Range
<1> QED
  BY <1>5, <1>6

-----------------------------------------------------------------------------
(* The steps.                                                              *)

LEMMA InvIs == Inv <=> Typed /\ Good(repo_mode) /\ Opening
BY DEF Inv, Good, Typed

\* A step that leaves nothing on its way, and one that loads.
LEMMA SettlesKeeps ==
  ASSUME Inv, load = None, NEW rm, Good(rm), Settles(rm), UNCHANGED <<repo, opened_for>>,
         confirming' \in Entries \union {None}
  PROVE  Inv'
<1>1. opened_for' = None
  BY DEF Inv, Opening
<1>2. repo_mode' = rm /\ load' = None /\ rm \in RepoModes /\ InRows(rm) /\ InLists(rm)
  BY DEF Settles, Good
<1>3. Typed'
  BY <1>1, <1>2 DEF Inv, Typed
<1>4. Opening'
  BY <1>1 DEF Opening
<1> QED
  BY <1>2, <1>3, <1>4 DEF Inv

LEMMA LoadsKeeps ==
  ASSUME Inv, load = None, NEW rm, Good(rm), repo_mode' = rm,
         NEW history \in Histories, NEW diff \in Diffs, load' = Detail(Now, history, diff),
         UNCHANGED <<repo, opened_for>>, confirming' \in Entries \union {None}
  PROVE  Inv'
<1>1. opened_for' = None
  BY DEF Inv, Opening
<1>2. rm \in RepoModes /\ InRows(rm) /\ InLists(rm)
  BY DEF Good
<1>3. load' \in Details
  BY LoadedIs DEF Inv
<1>4. Typed'
  BY <1>1, <1>2, <1>3 DEF Inv, Typed
<1>5. Opening'
  BY <1>1 DEF Opening
<1> QED
  BY <1>2, <1>4, <1>5 DEF Inv

LEMMA AsideKeeps ==
  ASSUME Inv, Aside
  PROVE  UNCHANGED repo /\ confirming' \in Entries \union {None}
BY DEF Inv, Typed, Aside

LEMMA LoadsOf ==
  ASSUME Inv, load = None, NEW rm, Good(rm), Loads(rm), UNCHANGED <<repo, opened_for>>,
         confirming' \in Entries \union {None}
  PROVE  Inv'
<1>1. PICK history \in Histories : history = Requested(rm)
  BY RequestedIs DEF Good
<1>2. PICK diff \in Diffs : diff = rm.detail.diff
  BY RequestedIs DEF Good
<1>3. repo_mode' = rm /\ load' = Detail(Now, history, diff)
  BY <1>1, <1>2 DEF Loads
<1> QED
  BY <1>3, LoadsKeeps

LEMMA ActiveSynced ==
  ASSUME NEW rm \in RepoModes, NEW l \in Synced
  PROVE  Visible(rm, l) = Filtered(rm, l)
BY SyncedLists DEF Visible

LEMMA StepSelectionKeeps ==
  ASSUME Inv, NEW l \in Lists, NEW d \in {-1, 1}, StepSelection(l, d)
  PROVE  Inv'
<1>1. PICK i \in Nat : i = Stepped(repo_mode, l, d)
  BY SteppedIs DEF Inv, Typed
<1>2. i \in Range(Visible(repo_mode, l)) \/ (i = 0 /\ Visible(repo_mode, l) = <<>>)
  BY <1>1, SteppedIs DEF Inv, Typed
<1>3. PICK rm : rm = Choosing(repo_mode, l, i)
  OBVIOUS
<1>4. Good(rm)
  <2>1. l \in Synced => i \in Range(Filtered(repo_mode, l)) \/ (i = 0 /\ Filtered(repo_mode, l) = <<>>)
    BY <1>2, ActiveSynced DEF Inv, Typed
  <2> QED
    BY <1>3, <2>1, InvIs, ChoosingKeeps
<1>5. Settles(rm) /\ load = None /\ Aside /\ UNCHANGED opened_for
  BY <1>1, <1>3 DEF StepSelection, Free, Choosing
<1> QED
  BY <1>4, <1>5, AsideKeeps, SettlesKeeps

LEMMA SelectEdgeKeeps ==
  ASSUME Inv, NEW l \in Lists, NEW last \in BOOLEAN, SelectEdge(l, last)
  PROVE  Inv'
<1>0. PICK shown : shown = Visible(repo_mode, l)
  OBVIOUS
<1>1. PICK n \in Nat : Numbers(shown, n)
  BY <1>0, VisibleNumbers DEF Inv, Typed
<1>2. PICK i : i = IF shown = <<>> THEN 0 ELSE IF last THEN Last(shown) ELSE shown[1]
  OBVIOUS
<1>3. i \in Nat /\ (i \in Range(shown) \/ (i = 0 /\ shown = <<>>))
  <2>1. CASE shown = <<>>
    BY <1>2, <2>1
  <2>2. CASE shown # <<>>
    <3>1. n # 0 /\ DOMAIN shown = 1..n /\ n = Len(shown) /\ 1 \in 1..n /\ n \in 1..n
            /\ \A p \in 1..n : shown[p] \in Nat
      BY <1>1, <2>2 DEF Numbers
    <3>2. i = shown[n] \/ i = shown[1]
      BY <1>2, <2>2, <3>1 DEF Last
    <3> QED
      BY <3>1, <3>2 DEF Range
  <2> QED
    BY <2>1, <2>2
<1>4. PICK rm : rm = Choosing(repo_mode, l, i)
  OBVIOUS
<1>5. Good(rm)
  <2>1. l \in Synced => i \in Range(Filtered(repo_mode, l)) \/ (i = 0 /\ Filtered(repo_mode, l) = <<>>)
    BY <1>0, <1>3, ActiveSynced DEF Inv, Typed
  <2> QED
    BY <1>3, <1>4, <2>1, InvIs, ChoosingKeeps
<1>6. Settles(rm) /\ load = None /\ Aside /\ UNCHANGED opened_for
  BY <1>0, <1>2, <1>4 DEF SelectEdge, Free, Choosing
<1> QED
  BY <1>5, <1>6, AsideKeeps, SettlesKeeps

LEMMA SelectRepoDetailItemKeeps ==
  ASSUME Inv, NEW l \in Lists, NEW row, SelectRepoDetailItem(l, row)
  PROVE  Inv'
<1>0. PICK shown : shown = Visible(repo_mode, l)
  OBVIOUS
<1>1. PICK n \in Nat : Numbers(shown, n)
  BY <1>0, VisibleNumbers DEF Inv, Typed
<1>2. row \in DOMAIN shown
  BY <1>0 DEF SelectRepoDetailItem
<1>3. PICK i : i = shown[row]
  OBVIOUS
<1>4. i \in Nat /\ i \in Range(shown)
  BY <1>1, <1>2, <1>3 DEF Numbers, Range
<1>5. PICK rm : rm = Choosing(repo_mode, l, i)
  OBVIOUS
<1>6. Good(rm)
  <2>1. l \in Synced => i \in Range(Filtered(repo_mode, l)) \/ (i = 0 /\ Filtered(repo_mode, l) = <<>>)
    BY <1>0, <1>4, ActiveSynced DEF Inv, Typed
  <2> QED
    BY <1>4, <1>5, <2>1, InvIs, ChoosingKeeps
<1>7. Settles(rm) /\ load = None /\ Aside /\ UNCHANGED opened_for
  BY <1>0, <1>3, <1>5 DEF SelectRepoDetailItem, Free, Choosing
<1> QED
  BY <1>6, <1>7, AsideKeeps, SettlesKeeps

-----------------------------------------------------------------------------
(* The file panes.                                                         *)

LEMMA MoveStatusKeeps ==
  ASSUME Inv, NEW pane \in Panes, NEW rows, rows = Rows(repo_mode, pane), NEW index \in 1..Len(rows),
         MoveStatus(rows, pane, index)
  PROVE  Inv'
<1>1. rows \in Seq(TreeRow) /\ Len(rows) \in Nat /\ DOMAIN rows = 1..Len(rows) /\ index \in Nat
  BY RowsAre DEF Inv, Typed
<1>2. PICK rm : rm = Choosing(repo_mode, pane, index)
  OBVIOUS
<1>3. Good(rm)
  <2>1. index \in 0..Len(Rows(repo_mode, pane))
    BY <1>1
  <2> QED
    BY <1>1, <1>2, <2>1, InvIs, ChoosingRowKeeps
<1>4. load = None /\ Aside /\ UNCHANGED opened_for
  BY DEF MoveStatus, Free
<1>5. PICK row \in TreeRow : row = rows[index]
  BY <1>1
<1>6. CASE IsDirectory(row)
  <2>1. Settles(rm)
    BY <1>2, <1>5, <1>6 DEF MoveStatus, Choosing
  <2> QED
    BY <1>3, <1>4, <2>1, AsideKeeps, SettlesKeeps
<1>7. CASE ~IsDirectory(row)
  <2>1. PICK diff : diff = [path |-> row.file, pane |-> pane]
    OBVIOUS
  <2>2. repo_mode' = rm /\ load' = Detail(Now, HeadHistory, diff)
    BY <1>2, <1>5, <1>7, <2>1 DEF MoveStatus, Choosing
  <2>3. diff \in Diffs
    BY <1>7, <2>1 DEF TreeRow, IsDirectory, Diffs
  <2>4. PICK history \in Histories : history = HeadHistory
    BY DEF Histories, HeadHistory
  <2> QED
    BY <1>3, <1>4, <2>2, <2>3, <2>4, AsideKeeps, LoadsKeeps
<1> QED
  BY <1>6, <1>7

LEMMA StepStatusKeeps ==
  ASSUME Inv, NEW pane \in Panes, NEW rows, rows = Rows(repo_mode, pane), NEW d \in {-1, 1},
         rows # <<>>, StepStatus(rows, pane, d)
  PROVE  Inv'
<1>1. PICK n \in Nat : n = Len(rows) /\ n # 0
  BY RowsAre DEF Inv, Typed
<1>2. PICK at \in Nat : at = repo_mode.selected[pane]
  BY DEF Inv, Typed, RepoModes
<1>3. PICK from \in 1..n : from = EnsureSelection(at, n)
  BY <1>1 DEF EnsureSelection
<1>4. PICK to \in 1..n : to = 1 + ((from - 1 + d) % n)
  BY <1>1, Around
<1>5. MoveStatus(rows, pane, to)
  BY <1>1, <1>2, <1>3, <1>4 DEF StepStatus
<1> QED
  BY <1>1, <1>4, <1>5, MoveStatusKeeps

LEMMA SelectStatusEdgeKeeps ==
  ASSUME Inv, NEW pane \in Panes, NEW rows, rows = Rows(repo_mode, pane), NEW last \in BOOLEAN,
         SelectStatusEdge(rows, pane, last)
  PROVE  Inv'
<1>1. PICK n \in Nat : n = Len(rows) /\ n # 0
  BY RowsAre DEF Inv, Typed, SelectStatusEdge, MoveStatus
<1>2. PICK to \in 1..n : to = IF last THEN n ELSE 1
  BY <1>1
<1>3. MoveStatus(rows, pane, to)
  BY <1>1, <1>2 DEF SelectStatusEdge
<1> QED
  BY <1>1, <1>2, <1>3, MoveStatusKeeps

LEMMA SelectStatusEntryKeeps ==
  ASSUME Inv, NEW pane \in Panes, NEW rows, rows = Rows(repo_mode, pane), NEW row,
         SelectStatusEntry(rows, pane, row)
  PROVE  Inv'
<1>1. DOMAIN rows = 1..Len(rows) /\ Len(rows) \in Nat
  BY RowsAre DEF Inv, Typed
<1>2. CASE row \in DOMAIN rows /\ MoveStatus(rows, pane, row)
  BY <1>1, <1>2, MoveStatusKeeps
<1>3. CASE Free /\ Settles([repo_mode EXCEPT !.selected[pane] = 0]) /\ Aside /\ UNCHANGED opened_for
  <2>1. PICK i \in Nat : i = 0
    OBVIOUS
  <2>2. PICK rm : rm = Choosing(repo_mode, pane, i)
    OBVIOUS
  <2>3. Good(rm)
    <3>1. i \in 0..Len(Rows(repo_mode, pane))
      BY <1>1, <2>1
    <3> QED
      BY <2>2, <3>1, InvIs, ChoosingRowKeeps
  <2>4. Settles(rm) /\ load = None /\ Aside /\ UNCHANGED opened_for
    BY <1>3, <2>1, <2>2 DEF Free, Choosing
  <2> QED
    BY <2>3, <2>4, AsideKeeps, SettlesKeeps
<1> QED
  BY <1>2, <1>3 DEF SelectStatusEntry

\* What changes which rows are shown leaves the lists alone.
SameLists(rm, next) ==
    /\ next.selected = rm.selected /\ next.detail = rm.detail /\ next.by_name = rm.by_name
    /\ \A l \in Lists : next.query[l] = rm.query[l]

LEMMA ListsKept ==
  ASSUME NEW rm, NEW next, SameLists(rm, next), NEW l \in Lists
  PROVE  Filtered(next, l) = Filtered(rm, l) /\ (InList(rm, l) => InList(next, l))
<1>1. next.query[l] = rm.query[l] /\ next.selected[l] = rm.selected[l] /\ next.detail = rm.detail
        /\ next.by_name = rm.by_name
  BY DEF SameLists
<1>2. Filtered(next, l) = Filtered(rm, l)
  BY <1>1 DEF Filtered
<1> QED
  BY <1>1, <1>2, InListKept

LEMMA ChangeRowsKeeps ==
  ASSUME Inv, NEW rm \in RepoModes, SameLists(repo_mode, rm), ChangeRows(rm)
  PROVE  Inv'
<1>1. \A l \in Synced : InList(rm, l)
  BY InvIs, GoodIs, ListsKept, SyncedLists
<1>2. PICK next : next = SyncStatus(rm)
  OBVIOUS
<1>3. Good(next)
  BY <1>1, <1>2, SyncStatusKeeps
<1>4. Settles(next) /\ load = None /\ Aside /\ UNCHANGED opened_for
  BY <1>2 DEF ChangeRows, Free
<1> QED
  BY <1>3, <1>4, AsideKeeps, SettlesKeeps

LEMMA EntryIs ==
  ASSUME Inv, NEW pane \in Panes
  PROVE  SelectedEntry(repo_mode, pane) \in TreeRow \union {None}
<1>0. PICK rows \in Seq(TreeRow) : rows = Rows(repo_mode, pane)
  BY RowsAre DEF Inv, Typed
<1>1. CASE rows = <<>>
  BY <1>0, <1>1 DEF SelectedEntry
<1>2. CASE rows # <<>>
  <2>1. PICK n \in Nat : n = Len(rows) /\ n # 0
    BY <1>2
  <2>2. PICK at \in Nat : at = repo_mode.selected[pane]
    BY DEF Inv, Typed, RepoModes
  <2>3. PICK from \in 1..n : from = EnsureSelection(at, n)
    BY <2>1 DEF EnsureSelection
  <2>4. SelectedEntry(repo_mode, pane) = rows[from]
    BY <1>0, <1>2, <2>1, <2>2, <2>3 DEF SelectedEntry
  <2> QED
    BY <2>1, <2>4
<1> QED
  BY <1>1, <1>2

LEMMA CollapseStatusEntryKeeps ==
  ASSUME Inv, NEW entry \in TreeRow \union {None}, NEW collapse \in BOOLEAN, CollapseStatusEntry(entry, collapse)
  PROVE  Inv'
<1>1. entry \in TreeRow
  BY DEF CollapseStatusEntry
<1>2. PICK dirs : dirs = IF collapse THEN repo_mode.collapsed_status_dirs \union {entry.dir}
                         ELSE repo_mode.collapsed_status_dirs \ {entry.dir}
  OBVIOUS
<1>3. PICK rm : rm = [repo_mode EXCEPT !.collapsed_status_dirs = dirs]
  OBVIOUS
<1>4. ChangeRows(rm)
  BY <1>2, <1>3 DEF CollapseStatusEntry
<1>5. repo_mode \in RepoModes
  BY DEF Inv, Typed
<1>6. dirs \in SUBSET Dirs
  BY <1>1, <1>2, <1>5 DEF RepoModes, TreeRow
<1>7. rm \in RepoModes /\ SameLists(repo_mode, rm)
  BY <1>3, <1>5, <1>6 DEF RepoModes, SameLists
<1> QED
  BY <1>4, <1>7, ChangeRowsKeeps

LEMMA OpenSelectedStatusEntryKeeps ==
  ASSUME Inv, NEW entry \in TreeRow \union {None}, OpenSelectedStatusEntry(entry)
  PROVE  Inv'
<1>1. PICK collapse \in BOOLEAN : collapse = (entry.dir \notin repo_mode.collapsed_status_dirs)
  OBVIOUS
<1>2. CollapseStatusEntry(entry, collapse)
  BY <1>1 DEF OpenSelectedStatusEntry
<1> QED
  BY <1>2, CollapseStatusEntryKeeps

LEMMA FilesKeeps ==
  ASSUME Inv, Files
  PROVE  Inv'
<1>1. PICK pane \in Panes :
         LET rows == Rows(repo_mode, pane)
             entry == SelectedEntry(repo_mode, pane)
         IN  \/ \E d \in {-1, 1} : rows # <<>> /\ StepStatus(rows, pane, d)
             \/ \E last \in BOOLEAN : SelectStatusEdge(rows, pane, last)
             \/ \E row \in 1..(Len(rows) + 1) : SelectStatusEntry(rows, pane, row)
             \/ \E collapse \in BOOLEAN : CollapseStatusEntry(entry, collapse)
             \/ OpenSelectedStatusEntry(entry)
  BY DEF Files
<1>2. PICK rows : rows = Rows(repo_mode, pane)
  OBVIOUS
<1>3. PICK entry \in TreeRow \union {None} : entry = SelectedEntry(repo_mode, pane)
  BY EntryIs
<1>4. CASE \E d \in {-1, 1} : rows # <<>> /\ StepStatus(rows, pane, d)
  BY <1>2, <1>4, StepStatusKeeps
<1>5. CASE \E last \in BOOLEAN : SelectStatusEdge(rows, pane, last)
  BY <1>2, <1>5, SelectStatusEdgeKeeps
<1>6. CASE \E row \in 1..(Len(rows) + 1) : SelectStatusEntry(rows, pane, row)
  BY <1>2, <1>6, SelectStatusEntryKeeps
<1>7. CASE \E collapse \in BOOLEAN : CollapseStatusEntry(entry, collapse)
  BY <1>3, <1>7, CollapseStatusEntryKeeps
<1>8. CASE OpenSelectedStatusEntry(entry)
  BY <1>3, <1>8, OpenSelectedStatusEntryKeeps
<1> QED
  BY <1>1, <1>2, <1>3, <1>4, <1>5, <1>6, <1>7, <1>8

LEMMA ToggleStatusTreeKeeps ==
  ASSUME Inv, ToggleStatusTree
  PROVE  Inv'
<1>1. PICK rm : rm = [repo_mode EXCEPT !.status_tree_enabled = ~repo_mode.status_tree_enabled]
  OBVIOUS
<1>2. ChangeRows(rm) /\ repo_mode \in RepoModes
  BY <1>1 DEF ToggleStatusTree, Inv, Typed
<1>3. rm \in RepoModes /\ SameLists(repo_mode, rm)
  BY <1>1, <1>2 DEF RepoModes, SameLists
<1> QED
  BY <1>2, <1>3, ChangeRowsKeeps

LEMMA CycleStatusFilterModeKeeps ==
  ASSUME Inv, CycleStatusFilterMode
  PROVE  Inv'
<1>0. PICK mode : mode = NextMode[repo_mode.status_filter_mode]
  OBVIOUS
<1>1. PICK rm : rm = [repo_mode EXCEPT !.status_filter_mode = mode]
  OBVIOUS
<1>2. ChangeRows(rm) /\ repo_mode \in RepoModes
  BY <1>0, <1>1 DEF CycleStatusFilterMode, Inv, Typed
<1>4. mode \in StatusFilterModes
  BY <1>0, <1>2 DEF RepoModes, StatusFilterModes, NextMode
<1>3. rm \in RepoModes /\ SameLists(repo_mode, rm)
  BY <1>1, <1>2, <1>4 DEF RepoModes, SameLists
<1> QED
  BY <1>2, <1>3, ChangeRowsKeeps

-----------------------------------------------------------------------------
(* Filters, orders and views.                                              *)

SameFiles(rm, next) ==
    /\ \A pane \in Panes : next.selected[pane] = rm.selected[pane]
    /\ next.detail = rm.detail /\ next.query["status"] = rm.query["status"]
    /\ next.status_tree_enabled = rm.status_tree_enabled
    /\ next.collapsed_status_dirs = rm.collapsed_status_dirs
    /\ next.status_filter_mode = rm.status_filter_mode

LEMMA FilesKept ==
  ASSUME NEW rm, NEW next, InRows(rm), SameFiles(rm, next)
  PROVE  InRows(next)
<1>1. \A pane \in Panes : Rows(next, pane) = Rows(rm, pane)
  BY DEF SameFiles, Rows
<1> QED
  BY <1>1 DEF InRows, SameFiles

SameList(rm, next, l) ==
    /\ next.selected[l] = rm.selected[l] /\ next.detail = rm.detail /\ next.query[l] = rm.query[l]
    /\ (l \in next.by_name) = (l \in rm.by_name)

LEMMA ListKept ==
  ASSUME NEW rm, NEW next, NEW l, SameList(rm, next, l), InList(rm, l)
  PROVE  InList(next, l)
<1>1. Filtered(next, l) = Filtered(rm, l)
  BY DEF SameList, Filtered
<1> QED
  BY <1>1, InListKept DEF SameList

Querying(rm, l, query) == [rm EXCEPT !.query[l] = query]

\* Another query for one list.
Asks(rm, l, query, next) ==
    /\ next \in RepoModes
    /\ next.query[l] = query /\ \A k \in (Lists \union {"status"}) \ {l} : next.query[k] = rm.query[k]
    /\ next.selected = rm.selected /\ next.detail = rm.detail /\ next.by_name = rm.by_name
    /\ next.status_tree_enabled = rm.status_tree_enabled
    /\ next.collapsed_status_dirs = rm.collapsed_status_dirs
    /\ next.status_filter_mode = rm.status_filter_mode
    /\ next.active_subview = rm.active_subview /\ ActiveList(next) = ActiveList(rm)

LEMMA QueryingIs ==
  ASSUME NEW rm \in RepoModes, NEW l \in Lists \union {"status"}, NEW query \in SUBSET Entries
  PROVE  Asks(rm, l, query, Querying(rm, l, query))
<1>1. rm.query \in [Lists \union {"status"} -> SUBSET Entries]
  BY DEF RepoModes
<1>2. PICK q \in [Lists \union {"status"} -> SUBSET Entries] : q = [rm.query EXCEPT ![l] = query]
  BY <1>1
<1>3. PICK next : next = [rm EXCEPT !.query = q]
  OBVIOUS
<1>4. next = Querying(rm, l, query)
  BY <1>2, <1>3 DEF Querying
<1>5. next \in RepoModes
  BY <1>3 DEF RepoModes
<1>6. /\ next.query = q /\ next.selected = rm.selected /\ next.detail = rm.detail /\ next.by_name = rm.by_name
      /\ next.status_tree_enabled = rm.status_tree_enabled
      /\ next.collapsed_status_dirs = rm.collapsed_status_dirs
      /\ next.status_filter_mode = rm.status_filter_mode
      /\ next.active_subview = rm.active_subview
      /\ next.commit_subview_mode = rm.commit_subview_mode /\ next.stash_subview_mode = rm.stash_subview_mode
  BY <1>3 DEF RepoModes
<1>7. ActiveList(next) = ActiveList(rm)
  BY <1>6 DEF ActiveList
<1>8. q[l] = query /\ \A k \in (Lists \union {"status"}) \ {l} : q[k] = rm.query[k]
  BY <1>1, <1>2
<1> QED
  BY <1>4, <1>5, <1>6, <1>7, <1>8 DEF Asks

LEMMA AsksLists ==
  ASSUME NEW rm \in RepoModes, NEW l \in Lists \union {"status"}, NEW query, NEW next, Asks(rm, l, query, next),
         Good(rm)
  PROVE  /\ l # "status" => InRows(next)
         /\ \A k \in Synced : k = l \/ InList(next, k)
<1>1. l # "status" => InRows(next)
  <2> SUFFICES ASSUME l # "status" PROVE InRows(next)
    OBVIOUS
  <2>1. SameFiles(rm, next)
    BY DEF Asks, SameFiles
  <2> QED
    BY <2>1, FilesKept, GoodIs
<1>2. ASSUME NEW k \in Synced, k # l
      PROVE  InList(next, k)
  <2>1. SameList(rm, next, k)
    BY <1>2, SyncedLists DEF Asks, SameList
  <2> QED
    BY <2>1, ListKept, GoodIs
<1> QED
  BY <1>1, <1>2

LEMMA ChangeFilterKeeps ==
  ASSUME Inv, NEW query \in Queries \union {Entries}, ChangeFilter(query)
  PROVE  Inv'
<1>1. query \in SUBSET Entries
  BY QueriesAssumption
<1>2. PICK l \in (ActiveList(repo_mode) \ {"stash_files"})
             \union {v \in {"status"} : SeveralFiles /\ repo_mode.active_subview = v} :
         Free /\ Settles(SyncActive([repo_mode EXCEPT !.query[l] = query])) /\ Aside /\ UNCHANGED opened_for
  BY DEF ChangeFilter
<1>3. repo_mode \in RepoModes /\ Good(repo_mode)
  BY InvIs DEF Typed
<1>4. l \in Lists \union {"status"} /\ (l \in ActiveList(repo_mode) \/ repo_mode.active_subview = "status")
  BY <1>2, <1>3, ActiveListIs
<1>5. PICK rm : rm = Querying(repo_mode, l, query)
  OBVIOUS
<1>6. Asks(repo_mode, l, query, rm)
  BY <1>1, <1>3, <1>4, <1>5, QueryingIs
<1>7. PICK next : next = SyncActive(rm)
  OBVIOUS
<1>8. Good(next)
  <2>1. rm \in RepoModes /\ ActiveList(rm) = ActiveList(repo_mode)
          /\ rm.active_subview = repo_mode.active_subview
    BY <1>6 DEF Asks
  <2>2. l # "status" => InRows(rm)
    BY <1>3, <1>4, <1>6, AsksLists
  <2>3. \A k \in Synced : k = l \/ InList(rm, k)
    BY <1>3, <1>4, <1>6, AsksLists
  <2>4. l = "status" => rm.active_subview = "status"
    BY <1>3, <1>4, <2>1, ActiveListIs, NamesDiffer
  <2>5. rm.active_subview = "status" => l \notin Synced
    <3>1. repo_mode.active_subview = "status" => ActiveList(repo_mode) = {}
      BY <1>3, ActiveListIs
    <3>2. repo_mode.active_subview = "status" => l = "status"
      BY <1>2, <3>1
    <3> QED
      BY <2>1, <3>2, NamesDiffer, SyncedLists
  <2>6. \A k \in Synced : k \in ActiveList(rm) \/ InList(rm, k)
    BY <1>4, <2>1, <2>3, <2>5
  <2>7. rm.active_subview = "status" \/ InRows(rm)
    BY <2>2, <2>4
  <2> QED
    BY <1>7, <2>1, <2>6, <2>7, SyncActiveKeeps
<1>9. Settles(next) /\ load = None /\ Aside /\ UNCHANGED opened_for
  BY <1>2, <1>5, <1>7 DEF Free, Querying
<1> QED
  BY <1>8, <1>9, AsideKeeps, SettlesKeeps

LEMMA SetSortModeKeeps ==
  ASSUME Inv, NEW l \in Sortable, SetSortMode(l)
  PROVE  Inv'
<1>1. PICK orders \in {repo_mode.by_name \union {l}, repo_mode.by_name \ {l}} :
         Settles(Sync([repo_mode EXCEPT !.by_name = orders], l))
  BY DEF SetSortMode
<1>2. repo_mode \in RepoModes /\ Good(repo_mode)
  BY InvIs DEF Typed
<1>3. PICK rm : rm = [repo_mode EXCEPT !.by_name = orders]
  OBVIOUS
<1>4. orders \in SUBSET Sortable /\ \A k : k # l => (k \in orders) = (k \in repo_mode.by_name)
  BY <1>1, <1>2 DEF RepoModes
<1>5. rm \in RepoModes
  BY <1>2, <1>3, <1>4 DEF RepoModes
<1>6. SameFiles(repo_mode, rm)
  BY <1>2, <1>3 DEF RepoModes, SameFiles
<1>7. ASSUME NEW k \in Synced, k # l
      PROVE  InList(rm, k)
  <2>1. rm.selected = repo_mode.selected /\ rm.detail = repo_mode.detail /\ rm.query = repo_mode.query
          /\ rm.by_name = orders
    BY <1>2, <1>3 DEF RepoModes
  <2>2. (k \in rm.by_name) = (k \in repo_mode.by_name)
    BY <1>4, <1>7, <2>1
  <2>3. SameList(repo_mode, rm, k)
    BY <2>1, <2>2 DEF SameList
  <2> QED
    BY <1>2, <2>3, ListKept, GoodIs
<1>8. l \in Lists
  BY DEF Sortable, Lists, Loaded
<1>9. PICK next : next = Sync(rm, l)
  OBVIOUS
<1>10. Good(next)
  BY <1>2, <1>5, <1>6, <1>7, <1>8, <1>9, FilesKept, GoodIs, SyncKeeps
<1>11. Settles(next) /\ load = None /\ Aside /\ UNCHANGED opened_for
  BY <1>1, <1>3, <1>9 DEF SetSortMode, Free
<1> QED
  BY <1>10, <1>11, AsideKeeps, SettlesKeeps

\* Another view, with the same lists.
SameContents(rm, next) ==
    /\ next.selected = rm.selected /\ next.detail = rm.detail /\ next.query = rm.query /\ next.by_name = rm.by_name
    /\ next.status_tree_enabled = rm.status_tree_enabled
    /\ next.collapsed_status_dirs = rm.collapsed_status_dirs
    /\ next.status_filter_mode = rm.status_filter_mode

LEMMA ContentsKept ==
  ASSUME NEW rm, Good(rm), NEW next \in RepoModes, SameContents(rm, next)
  PROVE  Good(next)
<1>1. SameFiles(rm, next) /\ \A l \in Synced : SameList(rm, next, l)
  BY DEF SameContents, SameFiles, SameList
<1> QED
  BY <1>1, FilesKept, ListKept, GoodIs

LEMMA SyncActiveGood ==
  ASSUME NEW rm, Good(rm)
  PROVE  Good(SyncActive(rm))
BY SyncActiveKeeps, GoodIs

LEMMA SyncGood ==
  ASSUME NEW rm, Good(rm), NEW l \in Lists
  PROVE  Good(Sync(rm, l))
BY SyncKeeps, GoodIs

LEMMA SwitchRepoSubviewKeeps ==
  ASSUME Inv, NEW view \in Subviews, SwitchRepoSubview(view)
  PROVE  Inv'
<1>1. repo_mode \in RepoModes /\ Good(repo_mode)
  BY InvIs DEF Typed
<1>2. PICK rm : rm = [repo_mode EXCEPT !.active_subview = view,
                             !.commit_history = HeadHistory,
                             !.pending_commit_selection = None,
                             !.commit_subview_mode = "history",
                             !.stash_subview_mode = "list"]
  OBVIOUS
<1>3. rm \in RepoModes
  BY <1>1, <1>2 DEF RepoModes, Histories, HeadHistory
<1>4. SameContents(repo_mode, rm)
  BY <1>1, <1>2 DEF RepoModes, SameContents
<1>5. PICK next : next = SyncActive(rm)
  OBVIOUS
<1>6. Good(next)
  BY <1>1, <1>3, <1>4, <1>5, ContentsKept, SyncActiveGood
<1>7. load = None /\ Aside /\ UNCHANGED opened_for /\ (Settles(next) \/ Loads(next))
  BY <1>2, <1>5 DEF SwitchRepoSubview, Free
<1> QED
  BY <1>6, <1>7, AsideKeeps, SettlesKeeps, LoadsOf

-----------------------------------------------------------------------------
(* Histories, and the lists that belong to a selection.                    *)

LEMMA TargetIs ==
  ASSUME NEW rm \in RepoModes, NEW l \in Loaded
  PROVE  Target(rm, l) \in Entries \union {None}
<1>1. PICK items \in Seq(Entries) : items = rm.detail.lists[l]
  BY LoadedItems
<1>2. Target(rm, l) = ItemAt(items, SelectedIndex(rm, l))
  BY <1>1 DEF Target, SelectedItem
<1> QED
  BY <1>2, ItemFound

\* The commits view, about to be synchronized.
Showing(rm, history, target, clearsFilters) ==
    [rm EXCEPT !.active_subview = "commits",
               !.commit_subview_mode = IF history[1] = "sub" THEN "sub" ELSE "history",
               !.commit_history = history,
               !.pending_commit_selection = target,
               !.query = [l \in DOMAIN @ |-> IF clearsFilters /\ l \in {"commits", "commit_files"}
                                             THEN Entries ELSE @[l]]]

LEMMA ShowingIs ==
  ASSUME NEW rm, Good(rm), NEW history \in Histories, NEW target \in Entries \union {None},
         NEW clears \in BOOLEAN
  PROVE  /\ Good(SyncCommits(Showing(rm, history, target, clears)))
         /\ SyncCommits(Showing(rm, history, target, clears)).active_subview = "commits"
         /\ target \notin Range(rm.detail.lists["commits"])
               => SyncCommits(Showing(rm, history, target, clears)).pending_commit_selection = target
<1>1. rm \in RepoModes /\ InRows(rm) /\ \A k \in Synced : InList(rm, k)
  BY GoodIs
<1>2. rm.query \in [Lists \union {"status"} -> SUBSET Entries]
  BY <1>1 DEF RepoModes
<1>3. PICK q : q = [l \in DOMAIN rm.query |->
                       IF clears /\ l \in {"commits", "commit_files"} THEN Entries ELSE rm.query[l]]
  OBVIOUS
<1>4. q \in [Lists \union {"status"} -> SUBSET Entries]
        /\ \A k \in Lists \union {"status"} : k \notin {"commits", "commit_files"} => q[k] = rm.query[k]
  BY <1>2, <1>3
<1>5. PICK mode \in {"sub", "history"} : mode = IF history[1] = "sub" THEN "sub" ELSE "history"
  OBVIOUS
<1>6. PICK next : next = [rm EXCEPT !.active_subview = "commits", !.commit_subview_mode = mode,
                                    !.commit_history = history, !.pending_commit_selection = target, !.query = q]
  OBVIOUS
<1>7. next = Showing(rm, history, target, clears)
  BY <1>3, <1>5, <1>6 DEF Showing
<1>8. next \in RepoModes
  BY <1>1, <1>4, <1>6 DEF RepoModes, Subviews, Loaded
<1>9. /\ next.query = q /\ next.selected = rm.selected /\ next.detail = rm.detail /\ next.by_name = rm.by_name
      /\ next.status_tree_enabled = rm.status_tree_enabled
      /\ next.collapsed_status_dirs = rm.collapsed_status_dirs
      /\ next.status_filter_mode = rm.status_filter_mode
      /\ next.active_subview = "commits" /\ next.pending_commit_selection = target
  BY <1>1, <1>6 DEF RepoModes
<1>10. InRows(next)
  <2>1. SameFiles(rm, next)
    BY <1>4, <1>9 DEF SameFiles
  <2> QED
    BY <1>1, <2>1, FilesKept
<1>11. ASSUME NEW k \in Synced, k # "commits"
       PROVE  InList(next, k)
  <2>1. k \in Lists /\ k # "commit_files"
    BY SyncedLists DEF Synced
  <2>2. SameList(rm, next, k)
    BY <1>4, <1>9, <1>11, <2>1 DEF SameList
  <2> QED
    BY <1>1, <2>2, ListKept
<1>12. PICK c \in Lists : c = "commits"
  BY SyncedLists DEF Synced
<1>13. Good(Sync(next, c))
  BY <1>8, <1>10, <1>11, <1>12, SyncKeeps
<1>14. Sync(next, c) = SyncCommits(next)
  BY <1>12 DEF Sync
<1>15. /\ SyncsTo(next, Sync(next, c), c)
       /\ next.pending_commit_selection \notin Range(next.detail.lists["commits"])
             => Sync(next, c).pending_commit_selection = next.pending_commit_selection
  BY <1>8, SyncResult
<1>16. PICK synced : synced = SyncCommits(next)
  OBVIOUS
<1>17. Good(synced) /\ SyncsTo(next, synced, c)
         /\ (target \notin Range(rm.detail.lists["commits"]) => synced.pending_commit_selection = target)
  <2>1. synced = Sync(next, c)
    BY <1>14, <1>16
  <2>2. Good(synced) /\ SyncsTo(next, synced, c)
    BY <1>13, <1>15, <2>1
  <2>3. next.pending_commit_selection \notin Range(next.detail.lists["commits"])
              => synced.pending_commit_selection = next.pending_commit_selection
    BY <1>15, <2>1
  <2>4. next.pending_commit_selection = target /\ next.detail = rm.detail
    BY <1>9
  <2>5. target \notin Range(rm.detail.lists["commits"]) => synced.pending_commit_selection = target
    BY <2>3, <2>4
  <2> QED
    BY <2>2, <2>5
<1>18. synced.active_subview = "commits"
  BY <1>9, <1>17 DEF SyncsTo, SameView
<1> QED
  BY <1>7, <1>16, <1>17, <1>18

LEMMA ShowHistoryKeeps ==
  ASSUME Inv, load = None, NEW history \in Histories, NEW target \in Entries \union {None},
         NEW clears \in BOOLEAN, ShowHistory(history, target, clears), UNCHANGED opened_for
  PROVE  Inv'
<1>1. PICK next : next = SyncCommits(Showing(repo_mode, history, target, clears))
  OBVIOUS
<1>2. Good(next)
  BY <1>1, ShowingIs, InvIs
<1>3. Loads(next) /\ Aside
  BY <1>1, Zenon DEF ShowHistory, Showing
<1> QED
  BY <1>2, <1>3, AsideKeeps, LoadsOf

LEMMA HistoriesAre ==
  /\ HeadHistory \in Histories /\ <<"linear", TRUE>> \in Histories /\ <<"graph", FALSE>> \in Histories
  /\ <<"reflog", FALSE>> \in Histories /\ <<"sub", TRUE>> \in Histories
BY DEF Histories, HeadHistory

LEMMA OpenSelectedCommitsKeeps ==
  ASSUME Inv, NEW l \in Lists, OpenSelectedCommits(l)
  PROVE  Inv'
<1>1. PICK history \in Histories : history = <<"linear", TRUE>>
  BY HistoriesAre
<1>2. PICK target \in Entries \union {None} : target = None
  OBVIOUS
<1>3. PICK clears \in BOOLEAN : clears = FALSE
  OBVIOUS
<1>4. load = None /\ ShowHistory(history, target, clears) /\ UNCHANGED opened_for
  BY <1>1, <1>2, <1>3 DEF OpenSelectedCommits, Free
<1> QED
  BY <1>4, ShowHistoryKeeps

LEMMA OpenAllBranchGraphKeeps ==
  ASSUME Inv, OpenAllBranchGraph
  PROVE  Inv'
<1>1. PICK history \in Histories : history = <<"graph", FALSE>>
  BY HistoriesAre
<1>2. PICK target \in Entries \union {None} : target = None
  OBVIOUS
<1>3. PICK clears \in BOOLEAN : clears = FALSE
  OBVIOUS
<1>4. load = None /\ ShowHistory(history, target, clears) /\ UNCHANGED opened_for
  BY <1>1, <1>2, <1>3 DEF OpenAllBranchGraph, Free
<1> QED
  BY <1>4, ShowHistoryKeeps

LEMMA OpenSelectedSubCommitsKeeps ==
  ASSUME Inv, OpenSelectedSubCommits
  PROVE  Inv'
<1>1. PICK history \in Histories : history = <<"sub", TRUE>>
  BY HistoriesAre
<1>2. PICK target \in Entries \union {None} : target = None
  OBVIOUS
<1>3. PICK clears \in BOOLEAN : clears = TRUE
  OBVIOUS
<1>4. load = None /\ ShowHistory(history, target, clears) /\ UNCHANGED opened_for
  BY <1>1, <1>2, <1>3 DEF OpenSelectedSubCommits, Free
<1> QED
  BY <1>4, ShowHistoryKeeps

LEMMA OpenSelectedReflogCommitsKeeps ==
  ASSUME Inv, OpenSelectedReflogCommits
  PROVE  Inv'
<1>0. repo_mode \in RepoModes /\ Good(repo_mode) /\ load = None
  BY InvIs DEF Typed, OpenSelectedReflogCommits, Free
<1>1. PICK history \in Histories : history = <<"reflog", FALSE>>
  BY HistoriesAre
<1>2. PICK target \in Entries \union {None} : target = Target(repo_mode, "reflog")
  BY <1>0, TargetIs DEF Loaded
<1>3. PICK clears \in BOOLEAN : clears = TRUE
  OBVIOUS
<1>4. ShowHistory(history, target, clears)
         /\ opened_for' = IF target \in Range(repo_mode.detail.lists["commits"]) THEN None ELSE target
  BY <1>1, <1>2, <1>3 DEF OpenSelectedReflogCommits
<1>5. PICK next : next = SyncCommits(Showing(repo_mode, history, target, clears))
  OBVIOUS
<1>6. /\ Good(next) /\ next.active_subview = "commits"
      /\ target \notin Range(repo_mode.detail.lists["commits"]) => next.pending_commit_selection = target
  BY <1>0, <1>5, ShowingIs
<1>7. Loads(next) /\ Aside
  BY <1>4, <1>5, Zenon DEF ShowHistory, Showing
<1>8. PICK h \in Histories : h = Requested(next)
  BY <1>6, RequestedIs DEF Good
<1>9. PICK diff \in Diffs : diff = next.detail.diff
  BY <1>6, RequestedIs DEF Good
<1>10. repo_mode' = next /\ load' = Detail(Now, h, diff)
  BY <1>7, <1>8, <1>9 DEF Loads
<1>11. load' \in Details /\ load' # None
  BY <1>10, LoadedIs DEF Inv
<1>12. Typed'
  BY <1>4, <1>6, <1>7, <1>10, <1>11 DEF Inv, Typed, Good, Aside
<1>13. Opening'
  BY <1>4, <1>6, <1>10, <1>11 DEF Opening
<1> QED
  BY <1>6, <1>10, <1>12, <1>13 DEF Inv, Good

LEMMA OpenSelectedCommitFilesKeeps ==
  ASSUME Inv, OpenSelectedCommitFiles
  PROVE  Inv'
<1>1. repo_mode \in RepoModes /\ Good(repo_mode)
  BY InvIs DEF Typed
<1>2. PICK rm : rm = [repo_mode EXCEPT !.commit_subview_mode = "files"]
  OBVIOUS
<1>3. rm \in RepoModes /\ SameContents(repo_mode, rm)
  BY <1>1, <1>2 DEF RepoModes, SameContents
<1>4. PICK l \in Lists : l = "commit_files"
  BY DEF Lists, OwnerOf
<1>5. PICK next : next = Sync(rm, l)
  OBVIOUS
<1>6. Good(next)
  BY <1>1, <1>3, <1>5, ContentsKept, SyncGood
<1>7. load = None /\ Aside /\ UNCHANGED opened_for /\ Settles(next)
  BY <1>2, <1>4, <1>5 DEF OpenSelectedCommitFiles, Free
<1> QED
  BY <1>6, <1>7, AsideKeeps, SettlesKeeps

LEMMA CloseSelectedCommitFilesKeeps ==
  ASSUME Inv, CloseSelectedCommitFiles
  PROVE  Inv'
<1>1. repo_mode \in RepoModes /\ Good(repo_mode)
  BY InvIs DEF Typed
<1>2. PICK c \in Lists : c = "commits"
  BY SyncedLists DEF Synced
<1>3. PICK mid : mid = Querying(repo_mode, c, Entries)
  OBVIOUS
<1>4. Asks(repo_mode, c, Entries, mid)
  <2>1. PICK query \in SUBSET Entries : query = Entries
    OBVIOUS
  <2> QED
    BY <1>1, <1>3, <2>1, QueryingIs
<1>5. mid \in RepoModes
  BY <1>4 DEF Asks
<1>6. PICK rm : rm = [mid EXCEPT !.commit_subview_mode = "history", !.commit_history = HeadHistory]
  OBVIOUS
<1>7. rm = [repo_mode EXCEPT !.commit_subview_mode = "history", !.commit_history = HeadHistory,
                             !.query["commits"] = Entries]
  BY <1>1, <1>2, <1>3, <1>6 DEF Querying, RepoModes
<1>8. rm \in RepoModes /\ SameContents(mid, rm)
  BY <1>5, <1>6, HistoriesAre DEF RepoModes, SameContents
<1>9. InRows(mid) /\ \A k \in Synced : k = c \/ InList(mid, k)
  <2>1. c \in Lists \union {"status"} /\ c # "status"
    BY <1>2
  <2> QED
    BY <1>1, <1>4, <2>1, AsksLists
<1>10. InList(mid, c)
  <2>1. c \in Synced /\ c \in Loaded
    BY <1>2 DEF Synced, Loaded
  <2>2. InList(repo_mode, c)
    BY <1>1, <2>1, GoodIs
  <2>3. mid.selected[c] = repo_mode.selected[c] /\ mid.query[c] = Entries /\ mid.detail = repo_mode.detail
    BY <1>4 DEF Asks
  <2>4. CASE repo_mode.selected[c] = 0
    BY <1>2, <2>3, <2>4 DEF InList
  <2>5. CASE repo_mode.selected[c] \in Range(Filtered(repo_mode, c))
    <3>1. PICK items \in Seq(Entries) : items = repo_mode.detail.lists[c]
      BY <1>1, <2>1, LoadedItems
    <3>2. PICK before : before = Filtered(repo_mode, c)
      OBVIOUS
    <3>3. \A p \in DOMAIN before : before[p] \in DOMAIN items
      BY <1>1, <2>1, <3>1, <3>2, FilteredPlaces DEF Shows
    <3>4. PICK i \in DOMAIN items : i = repo_mode.selected[c]
      BY <2>5, <3>2, <3>3 DEF Range
    <3>5. Shows(mid.detail.lists[c], mid.query[c], c \in mid.by_name, Filtered(mid, c))
      BY <1>5, <2>1, FilteredPlaces
    <3>6. PICK after : after = Filtered(mid, c)
      OBVIOUS
    <3>7. \A j \in DOMAIN items : items[j] \in Entries => \E p \in DOMAIN after : after[p] = j
      BY <2>3, <3>1, <3>5, <3>6 DEF Shows
    <3>8. \E p \in DOMAIN after : after[p] = i
      BY <3>7
    <3> QED
      BY <2>3, <3>4, <3>6, <3>8 DEF InList, Range
  <2> QED
    BY <2>2, <2>4, <2>5 DEF InList
<1>11. Good(rm)
  <2>1. Good(mid)
    BY <1>5, <1>9, <1>10, GoodIs
  <2> QED
    BY <1>8, <2>1, ContentsKept
<1>12. load = None /\ Aside /\ UNCHANGED opened_for /\ Loads(rm)
  BY <1>7 DEF CloseSelectedCommitFiles, Free
<1> QED
  BY <1>11, <1>12, AsideKeeps, LoadsOf

LEMMA OpenSelectedRemoteBranchesKeeps ==
  ASSUME Inv, OpenSelectedRemoteBranches
  PROVE  Inv'
<1>1. PICK query \in Queries :
           Settles(SyncActive([repo_mode EXCEPT !.active_subview = "remote_branches",
                                                !.query["remote_branches"] = query]))
  BY DEF OpenSelectedRemoteBranches
<1>2. repo_mode \in RepoModes /\ Good(repo_mode)
  BY InvIs DEF Typed
<1>3. PICK c \in Lists : c = "remote_branches" /\ c \notin Synced
  BY DEF Lists, Loaded, Synced
<1>4. PICK mid : mid = Querying(repo_mode, c, query)
  OBVIOUS
<1>5. query \in SUBSET Entries /\ c \in Lists \union {"status"} /\ c # "status"
  BY <1>3, QueriesAssumption
<1>6. Asks(repo_mode, c, query, mid)
  BY <1>2, <1>4, <1>5, QueryingIs
<1>7. PICK rm : rm = [mid EXCEPT !.active_subview = "remote_branches"]
  OBVIOUS
<1>8. rm = [repo_mode EXCEPT !.active_subview = "remote_branches", !.query["remote_branches"] = query]
  BY <1>2, <1>3, <1>4, <1>7 DEF Querying, RepoModes
<1>9. mid \in RepoModes
  BY <1>6 DEF Asks
<1>10. rm \in RepoModes /\ SameContents(mid, rm)
  BY <1>7, <1>9 DEF RepoModes, SameContents, Subviews, Loaded
<1>11. Good(mid)
  BY <1>2, <1>3, <1>5, <1>6, <1>9, AsksLists, GoodIs
<1>12. PICK next : next = SyncActive(rm)
  OBVIOUS
<1>13. Good(next)
  BY <1>10, <1>11, <1>12, ContentsKept, SyncActiveGood
<1>14. load = None /\ Aside /\ UNCHANGED opened_for /\ Settles(next)
  BY <1>1, <1>8, <1>12 DEF OpenSelectedRemoteBranches, Free
<1> QED
  BY <1>13, <1>14, AsideKeeps, SettlesKeeps

LEMMA OpenSelectedStashFilesKeeps ==
  ASSUME Inv, OpenSelectedStashFiles
  PROVE  Inv'
<1>1. repo_mode \in RepoModes /\ Good(repo_mode)
  BY InvIs DEF Typed
<1>2. PICK rm : rm = [repo_mode EXCEPT !.stash_subview_mode = "files"]
  OBVIOUS
<1>3. rm \in RepoModes /\ SameContents(repo_mode, rm)
  BY <1>1, <1>2 DEF RepoModes, SameContents
<1>4. PICK l \in Lists : l = "stash_files"
  BY DEF Lists, OwnerOf
<1>5. PICK next : next = Sync(rm, l)
  OBVIOUS
<1>6. Good(next)
  BY <1>1, <1>3, <1>5, ContentsKept, SyncGood
<1>7. load = None /\ Aside /\ UNCHANGED opened_for /\ Settles(next)
  BY <1>2, <1>4, <1>5 DEF OpenSelectedStashFiles, Free
<1> QED
  BY <1>6, <1>7, AsideKeeps, SettlesKeeps

LEMMA CloseSelectedStashFilesKeeps ==
  ASSUME Inv, CloseSelectedStashFiles
  PROVE  Inv'
<1>1. repo_mode \in RepoModes /\ Good(repo_mode)
  BY InvIs DEF Typed
<1>2. PICK rm : rm = [repo_mode EXCEPT !.stash_subview_mode = "list"]
  OBVIOUS
<1>3. rm \in RepoModes /\ SameContents(repo_mode, rm)
  BY <1>1, <1>2 DEF RepoModes, SameContents
<1>4. Good(rm)
  BY <1>1, <1>3, ContentsKept
<1>5. load = None /\ Aside /\ UNCHANGED opened_for /\ Settles(rm)
  BY <1>2 DEF CloseSelectedStashFiles, Free
<1> QED
  BY <1>4, <1>5, AsideKeeps, SettlesKeeps

-----------------------------------------------------------------------------
(* The base commit of a fixup, modals, loads and the repository.           *)

LEMMA PendingKept ==
  ASSUME NEW rm, Good(rm), NEW p \in Entries \union {None}
  PROVE  Good([rm EXCEPT !.pending_commit_selection = p])
<1>1. PICK next : next = [rm EXCEPT !.pending_commit_selection = p]
  OBVIOUS
<1>2. rm \in RepoModes
  BY DEF Good
<1>3. next \in RepoModes /\ SameContents(rm, next)
  BY <1>1, <1>2 DEF RepoModes, SameContents
<1> QED
  BY <1>1, <1>3, ContentsKept

LEMMA SyncCommitsGood ==
  ASSUME NEW rm, Good(rm)
  PROVE  Good(SyncCommits(rm))
<1>1. PICK c \in Lists : c = "commits"
  BY SyncedLists DEF Synced
<1>2. Sync(rm, c) = SyncCommits(rm)
  BY <1>1 DEF Sync
<1> QED
  BY <1>2, SyncGood

LEMMA BeginFixupBaseKeeps ==
  ASSUME Inv, load = None, NEW base \in Entries, NEW stageAll \in BOOLEAN, BeginFixupBase(base, stageAll),
         UNCHANGED <<repo, opened_for>>, confirming' \in Entries \union {None}
  PROVE  Inv'
<1>1. repo_mode \in RepoModes /\ Good(repo_mode)
  BY InvIs DEF Typed
<1>2. PICK history \in Histories : history = <<"linear", repo_mode.commit_history[2]>>
  <2>1. PICK h \in Histories : h = repo_mode.commit_history
    BY <1>1 DEF RepoModes
  <2>2. h[2] = TRUE \/ h[2] = FALSE
    BY <2>1 DEF Histories
  <2>3. <<"linear", h[2]>> \in Histories
    <3>1. CASE h[2] = TRUE
      <4>1. <<"linear", h[2]>> = <<"linear", TRUE>>
        BY <3>1
      <4> QED
        BY <4>1, HistoriesAre
    <3>2. CASE h[2] = FALSE
      <4>1. <<"linear", h[2]>> = <<"linear", FALSE>>
        BY <3>2
      <4> QED
        BY <4>1, HistoriesAre DEF HeadHistory
    <3> QED
      BY <2>2, <3>1, <3>2
  <2> QED
    BY <2>1, <2>3
<1>3. PICK rm : rm = [repo_mode EXCEPT !.active_subview = "commits", !.commit_subview_mode = "history",
                                       !.commit_history = history]
  OBVIOUS
<1>4. rm \in RepoModes /\ SameContents(repo_mode, rm)
  BY <1>1, <1>3 DEF RepoModes, SameContents, Subviews, Loaded
<1>5. PICK shown : shown = SyncCommits(rm)
  OBVIOUS
<1>6. Good(shown)
  BY <1>1, <1>4, <1>5, ContentsKept, SyncCommitsGood
<1>7. PICK wanted : wanted = [shown EXCEPT !.pending_commit_selection = base]
  OBVIOUS
<1>8. Good(wanted)
  BY <1>6, <1>7, PendingKept
<1>9. PICK now : now = SyncCommits(wanted)
  OBVIOUS
<1>10. PICK l \in Lists : l = "commit_files"
  BY DEF Lists, OwnerOf
<1>11. PICK done : done = Sync(now, l)
  OBVIOUS
<1>12. Good(done)
  BY <1>8, <1>9, <1>11, SyncCommitsGood, SyncGood
<1>13. Settles(wanted) \/ Settles(done)
  BY <1>2, <1>3, <1>5, <1>7, <1>9, <1>10, <1>11 DEF BeginFixupBase
<1> QED
  BY <1>8, <1>12, <1>13, SettlesKeeps

LEMMA FixupBaseCommitFoundKeeps ==
  ASSUME Inv, FixupBaseCommitFound
  PROVE  Inv'
<1>1. PICK base \in {repo_mode.detail.lists["commits"][i] : i \in Range(Filtered(repo_mode, "commits"))} :
        /\ Free
        /\ \/ confirming' = base /\ UNCHANGED <<repo_mode, load>>
           \/ \E stageAll \in BOOLEAN : BeginFixupBase(base, stageAll) /\ UNCHANGED confirming
        /\ UNCHANGED <<repo, opened_for>>
  BY DEF FixupBaseCommitFound
<1>2. base \in Entries
  <2>1. PICK c \in Loaded : c = "commits"
    BY DEF Loaded
  <2>2. PICK items \in Seq(Entries), shown \in Seq(Nat) :
            /\ items = repo_mode.detail.lists[c] /\ shown = Filtered(repo_mode, c)
            /\ (\A p \in DOMAIN shown : shown[p] \in DOMAIN items /\ shown[p] \in Nat)
            /\ \A p, q \in DOMAIN shown : p # q => shown[p] # shown[q]
            /\ DOMAIN items \in SUBSET Nat /\ 0 \notin DOMAIN items
            /\ DOMAIN shown \in SUBSET Nat /\ (shown = <<>> <=> DOMAIN shown = {})
            /\ shown # <<>> => 1 \in DOMAIN shown
    BY FilteredIs DEF Inv, Typed
  <2>3. PICK i \in Range(shown) : base = items[i]
    BY <1>1, <2>1, <2>2
  <2> QED
    BY <2>2, <2>3 DEF Range
<1>3. load = None /\ confirming = None
  BY <1>1 DEF Free
<1>4. CASE confirming' = base /\ UNCHANGED <<repo_mode, load>>
  BY <1>1, <1>2, <1>4 DEF Inv, Typed, Opening
<1>5. CASE \E stageAll \in BOOLEAN : BeginFixupBase(base, stageAll) /\ UNCHANGED confirming
  <2>1. PICK stageAll \in BOOLEAN : BeginFixupBase(base, stageAll) /\ UNCHANGED confirming
    BY <1>5
  <2>2. confirming' \in Entries \union {None}
    BY <1>3, <2>1
  <2> QED
    BY <1>1, <1>2, <1>3, <2>1, <2>2, BeginFixupBaseKeeps
<1> QED
  BY <1>1, <1>4, <1>5

LEMMA ConfirmPendingOperationKeeps ==
  ASSUME Inv, ConfirmPendingOperation
  PROVE  Inv'
<1>1. PICK stageAll \in BOOLEAN : BeginFixupBase(confirming, stageAll)
  BY DEF ConfirmPendingOperation
<1>2. PICK base \in Entries : base = confirming
  BY DEF ConfirmPendingOperation, Inv, Typed
<1>3. load = None /\ BeginFixupBase(base, stageAll) /\ UNCHANGED <<repo, opened_for>>
        /\ confirming' \in Entries \union {None}
  BY <1>1, <1>2 DEF ConfirmPendingOperation
<1> QED
  BY <1>3, BeginFixupBaseKeeps

LEMMA CloseTopModalKeeps ==
  ASSUME Inv, CloseTopModal
  PROVE  Inv'
<1>1. PICK next : next = SyncActive(repo_mode)
  OBVIOUS
<1>2. Good(next)
  BY <1>1, InvIs, SyncActiveGood
<1>3. Settles(next) /\ load = None /\ UNCHANGED <<repo, opened_for>> /\ confirming' \in Entries \union {None}
  BY <1>1 DEF CloseTopModal
<1> QED
  BY <1>2, <1>3, SettlesKeeps

LEMMA RefreshKeeps ==
  ASSUME Inv, Refresh
  PROVE  Inv'
<1>1. load = None /\ Loads(repo_mode) /\ Aside /\ UNCHANGED opened_for
  BY DEF Refresh
<1> QED
  BY <1>1, InvIs, AsideKeeps, LoadsOf

LEMMA FollowRebaseKeeps ==
  ASSUME NEW rm, Good(rm)
  PROVE  Good(FollowRebase(rm)) /\ SameContents(rm, FollowRebase(rm))
<1>1. rm \in RepoModes
  BY DEF Good
<1>2. PICK next : next = FollowRebase(rm)
  OBVIOUS
<1>3. \/ next = [rm EXCEPT !.active_subview = "rebase"]
      \/ next = [rm EXCEPT !.active_subview = "commits"]
      \/ next = rm
  BY <1>1, <1>2 DEF FollowRebase, RepoModes, Details
<1>4. "rebase" \in Subviews /\ "commits" \in Subviews
  BY DEF Subviews, Loaded
<1>5. next \in RepoModes
  BY <1>1, <1>3, <1>4 DEF RepoModes
<1>6. SameContents(rm, next)
  BY <1>1, <1>3 DEF RepoModes, SameContents
<1> QED
  BY <1>2, <1>5, <1>6, ContentsKept

LEMMA LoadBrings ==
  ASSUME Inv, RepoDetailLoaded
  PROVE  \E rm, synced \in RepoModes :
            /\ rm = [repo_mode EXCEPT !.detail = load] /\ synced = SyncLoaded(rm) /\ Good(synced)
            /\ Brought(rm, synced, {"branches", "remotes", "commits", "commit_files", "stash", "reflog", "worktrees"})
            /\ rm.pending_commit_selection = repo_mode.pending_commit_selection
            /\ rm.active_subview = repo_mode.active_subview
<1>1. repo_mode \in RepoModes /\ load \in Details
  BY DEF Inv, Typed, RepoDetailLoaded
<1>2. PICK rm : rm = [repo_mode EXCEPT !.detail = load]
  OBVIOUS
<1>3. /\ rm \in RepoModes /\ rm.pending_commit_selection = repo_mode.pending_commit_selection
      /\ rm.active_subview = repo_mode.active_subview
  BY <1>1, <1>2 DEF RepoModes
<1>4. PICK synced : synced = SyncLoaded(rm)
  OBVIOUS
<1>5. Brought(rm, synced, {"branches", "remotes", "commits", "commit_files", "stash", "reflog", "worktrees"})
  BY <1>3, <1>4, SyncLoadedResult
<1>6. synced \in RepoModes /\ InRows(synced)
  BY <1>5 DEF Brought
<1>7. \A l \in Synced : InList(synced, l)
  <2>1. \A l \in Synced : OnAnEntry(synced, l)
    BY <1>5, SyncedLists DEF Brought, Synced
  <2> QED
    BY <2>1 DEF OnAnEntry, InList
<1>8. Good(synced)
  BY <1>6, <1>7, GoodIs
<1> QED
  BY <1>2, <1>3, <1>4, <1>5, <1>6, <1>8

LEMMA RepoDetailLoadedKeeps ==
  ASSUME Inv, RepoDetailLoaded
  PROVE  Inv'
<1>1. PICK rm, synced \in RepoModes :
            rm = [repo_mode EXCEPT !.detail = load] /\ synced = SyncLoaded(rm) /\ Good(synced)
  BY LoadBrings
<1>2. PICK missing : missing = (synced.pending_commit_selection # None /\ synced.active_subview = "commits")
  OBVIOUS
<1>3. PICK settled : settled = IF missing THEN [synced EXCEPT !.pending_commit_selection = None] ELSE synced
  OBVIOUS
<1>4. Good(settled)
  <2>1. PICK p \in Entries \union {None} : p = None
    OBVIOUS
  <2>2. Good([synced EXCEPT !.pending_commit_selection = p])
    BY <1>1, <2>1, PendingKept
  <2> QED
    BY <1>1, <1>3, <2>1, <2>2
<1>5. PICK next : next = FollowRebase(settled)
  OBVIOUS
<1>6. Good(next)
  BY <1>4, <1>5, FollowRebaseKeeps
<1>7. repo_mode' = next /\ load' = None /\ opened_for' = None /\ UNCHANGED <<repo, confirming>>
  BY <1>1, <1>2, <1>3, <1>5 DEF RepoDetailLoaded
<1>8. Typed'
  BY <1>6, <1>7 DEF Good, Inv, Typed
<1> QED
  BY <1>6, <1>7, <1>8 DEF Good, Inv, Opening

LEMMA RepositoryChangesKeeps ==
  ASSUME Inv, RepositoryChanges
  PROVE  Inv'
<1>1. UNCHANGED <<repo_mode, load, confirming, opened_for>> /\ repo' = [repo EXCEPT !.version = repo.version + 1]
        /\ repo.version < Len(Repos[repo.name])
  BY DEF RepositoryChanges
<1>2. repo \in [name : DOMAIN Repos, version : Nat]
  BY DEF Inv, Typed
<1>3. PICK versions \in Seq(Versions) : versions = Repos[repo.name]
  BY <1>2, ReposAssumption
<1>4. repo'.name = repo.name /\ repo'.version = repo.version + 1 /\ repo' \in [name : DOMAIN Repos, version : Nat]
  BY <1>1, <1>2
<1>5. repo'.version \in DOMAIN Repos[repo'.name]
  BY <1>1, <1>2, <1>3, <1>4
<1>6. Typed'
  BY <1>1, <1>4, <1>5 DEF Inv, Typed
<1> QED
  BY <1>1, <1>6 DEF Inv, Opening

-----------------------------------------------------------------------------
(* The invariant holds.                                                    *)

LEMMA InitialIs == ASSUME Init PROVE Inv
<1>1. NoDetail \in Details
  <2>1. <<>> \in Seq(Entries) /\ <<>> \in Seq(FileStatus) /\ DOMAIN <<>> = {}
    OBVIOUS
  <2>2. PICK e \in Seq(Entries) : e = <<>>
    BY <2>1
  <2>3. [l \in Loaded |-> e] \in [Loaded -> Seq(Entries)]
    OBVIOUS
  <2>4. <<>> \in Statuses
    BY <2>1 DEF Statuses
  <2>5. NoDiff \in [path : DOMAIN DirOf \union {None}, pane : Panes]
    BY DEF NoDiff, Panes
  <2> QED
    BY <2>2, <2>3, <2>4, <2>5 DEF NoDetail, Details
<1>2. repo_mode = RepoModeState
  BY DEF Init
<1>3. RepoModeState \in RepoModes
  <2>1. [l \in Lists \union Panes |-> 0] \in [Lists \union Panes -> Nat]
    OBVIOUS
  <2>2. [l \in Lists \union {"status"} |-> Entries] \in [Lists \union {"status"} -> SUBSET Entries]
    OBVIOUS
  <2>3. "all" \in StatusFilterModes /\ "status" \in Subviews
    BY DEF StatusFilterModes, Subviews
  <2> QED
    BY <1>1, <2>1, <2>2, <2>3, HistoriesAre DEF RepoModeState, RepoModes
<1>4. InRows(repo_mode)
  <2>1. \A pane \in Panes : repo_mode.selected[pane] = 0
    BY <1>2 DEF RepoModeState
  <2>2. \A pane \in Panes : Len(Rows(repo_mode, pane)) \in Nat
    BY <1>2, <1>3, RowsAre
  <2> QED
    BY <2>1, <2>2 DEF InRows
<1>5. ASSUME NEW l \in Synced
      PROVE  InList(repo_mode, l)
  <2>1. l \in Lists /\ l \in Loaded
    BY SyncedLists
  <2>2. repo_mode.selected[l] = 0
    BY <1>2, <2>1 DEF RepoModeState
  <2>3. PICK items \in Seq(Entries), shown \in Seq(Nat) :
            /\ items = repo_mode.detail.lists[l] /\ shown = Filtered(repo_mode, l)
            /\ (\A p \in DOMAIN shown : shown[p] \in DOMAIN items /\ shown[p] \in Nat)
            /\ \A p, q \in DOMAIN shown : p # q => shown[p] # shown[q]
            /\ DOMAIN items \in SUBSET Nat /\ 0 \notin DOMAIN items
            /\ DOMAIN shown \in SUBSET Nat /\ (shown = <<>> <=> DOMAIN shown = {})
            /\ shown # <<>> => 1 \in DOMAIN shown
    BY <1>2, <1>3, <2>1, FilteredIs
  <2>4. items = <<>>
    BY <1>2, <2>1, <2>3 DEF RepoModeState, NoDetail
  <2>5. DOMAIN items = {}
    BY <2>4
  <2>6. shown = <<>>
    BY <2>3, <2>5
  <2> QED
    BY <2>2, <2>3, <2>6 DEF InList
<1>6. Good(repo_mode)
  BY <1>2, <1>3, <1>4, <1>5, GoodIs
<1>7. repo \in [name : DOMAIN Repos, version : Nat] /\ repo.version \in DOMAIN Repos[repo.name]
  <2>1. repo \in [name : DOMAIN Repos, version : {1}]
    BY DEF Init
  <2>2. PICK versions \in Seq(Versions) \ {<<>>} : versions = Repos[repo.name]
    BY <2>1, ReposAssumption
  <2>3. 1 \in DOMAIN versions
    BY <2>2
  <2> QED
    BY <2>1, <2>2, <2>3
<1>8. load \in Details
  <2>1. PICK versions \in Seq(Versions) : versions = Repos[repo.name]
    BY <1>7, ReposAssumption
  <2>2. PICK version \in Versions : version = Now
    BY <1>7, <2>1 DEF Now
  <2>3. PICK history \in Histories : history = HeadHistory
    BY HistoriesAre
  <2>4. PICK diff \in Diffs : diff = NoDiff
    BY DEF NoDiff, Panes, Diffs
  <2>5. Detail(version, history, diff) \in Details
    BY DetailIs
  <2> QED
    BY <2>2, <2>3, <2>4, <2>5 DEF Init
<1>9. Typed
  BY <1>2, <1>3, <1>7, <1>8 DEF Init, Typed
<1>10. Opening
  BY DEF Init, Opening
<1> QED
  BY <1>6, <1>9, <1>10, InvIs

LEMMA NextKeeps == ASSUME Inv, [Next]_vars PROVE Inv'
<1>1. CASE UNCHANGED vars
  BY <1>1 DEF vars, Inv, Typed, Opening
<1>2. CASE Move
  BY <1>2, StepSelectionKeeps, SelectEdgeKeeps, SelectRepoDetailItemKeeps DEF Move
<1>3. CASE Files
  BY <1>3, FilesKeeps
<1>4. CASE ToggleStatusTree
  BY <1>4, ToggleStatusTreeKeeps
<1>5. CASE CycleStatusFilterMode
  BY <1>5, CycleStatusFilterModeKeeps
<1>6. CASE \E query \in Queries \union {Entries} : ChangeFilter(query)
  BY <1>6, ChangeFilterKeeps
<1>7. CASE \E l \in Sortable : SetSortMode(l)
  BY <1>7, SetSortModeKeeps
<1>8. CASE Go
  BY <1>8, SwitchRepoSubviewKeeps, OpenSelectedCommitsKeeps, OpenAllBranchGraphKeeps,
     OpenSelectedReflogCommitsKeeps, OpenSelectedSubCommitsKeeps, OpenSelectedCommitFilesKeeps,
     CloseSelectedCommitFilesKeeps, OpenSelectedRemoteBranchesKeeps, OpenSelectedStashFilesKeeps,
     CloseSelectedStashFilesKeeps DEF Go
<1>9. CASE FixupBaseCommitFound
  BY <1>9, FixupBaseCommitFoundKeeps
<1>10. CASE ConfirmPendingOperation
  BY <1>10, ConfirmPendingOperationKeeps
<1>11. CASE CloseTopModal
  BY <1>11, CloseTopModalKeeps
<1>12. CASE Refresh
  BY <1>12, RefreshKeeps
<1>13. CASE RepoDetailLoaded
  BY <1>13, RepoDetailLoadedKeeps
<1>14. CASE RepositoryChanges
  BY <1>14, RepositoryChangesKeeps
<1> QED
  BY <1>1, <1>2, <1>3, <1>4, <1>5, <1>6, <1>7, <1>8, <1>9, <1>10, <1>11, <1>12, <1>13, <1>14 DEF Next

(***************************************************************************)
(* In every reachable state the cursors of the file panes and of the lists *)
(* a load brings back together are on what is shown, and what a history    *)
(* was opened for is looked for until the history is there.                *)
(***************************************************************************)
THEOREM InvHolds == Spec => []Inv
BY InitialIs, NextKeeps, PTL DEF Spec

-----------------------------------------------------------------------------
(* What the user sees.                                                     *)

LEMMA MarkedIs ==
  ASSUME NEW rm \in RepoModes, NEW l \in Lists, rm.selected[l] \in Range(Visible(rm, l))
  PROVE  /\ Marked(rm, l) = rm.selected[l] /\ rm.selected[l] \in DOMAIN Items(rm, l)
         /\ UnderCursor(rm, l) = Items(rm, l)[rm.selected[l]]
<1>1. PICK items \in Seq(Entries) : items = Items(rm, l)
  BY VisiblePlaces
<1>2. PICK shown \in Seq(DOMAIN items) : shown = Visible(rm, l)
  BY <1>1, VisiblePlaces DEF Shows
<1>3. \A p \in DOMAIN shown : shown[p] \in DOMAIN items
  OBVIOUS
<1>4. PICK sel : sel = rm.selected[l]
  OBVIOUS
<1>5. PICK at : at = {p \in DOMAIN shown : shown[p] = sel}
  OBVIOUS
<1>6. at # {} /\ shown # <<>>
  BY <1>2, <1>4, <1>5 DEF Range
<1>7. PICK p \in at : p = CHOOSE q \in at : TRUE
  BY <1>6
<1>8. Marked(rm, l) = shown[CHOOSE q \in at : TRUE]
  BY <1>2, <1>4, <1>5, <1>6 DEF Marked
<1>9. Marked(rm, l) = sel /\ sel \in DOMAIN items
  BY <1>3, <1>5, <1>7, <1>8
<1>10. UnderCursor(rm, l) = items[sel]
  BY <1>1, <1>9 DEF UnderCursor, ItemAt
<1> QED
  BY <1>1, <1>4, <1>9, <1>10

\* An index that is not shown leaves the mark on the first row.
LEMMA FirstMarked ==
  ASSUME NEW rm \in RepoModes, NEW l \in Lists, l # "branches",
         rm.selected[l] \notin Range(Visible(rm, l))
  PROVE  Marked(rm, l) = FirstOf(Visible(rm, l))
<1>1. PICK shown : shown = Visible(rm, l)
  OBVIOUS
<1>2. PICK at : at = {p \in DOMAIN shown : shown[p] = rm.selected[l]}
  OBVIOUS
<1>3. PICK heads : heads = {p \in DOMAIN shown : l = "branches" /\ Items(rm, l)[shown[p]] = rm.detail.head}
  OBVIOUS
<1>4. at = {} /\ heads = {}
  BY <1>1, <1>2, <1>3 DEF Range
<1>5. Marked(rm, l) = IF shown = <<>> THEN 0
                      ELSE IF at # {} THEN shown[CHOOSE p \in at : TRUE]
                      ELSE IF heads # {} THEN shown[CHOOSE p \in heads : TRUE]
                      ELSE shown[1]
  BY <1>1, <1>2, <1>3 DEF Marked
<1> QED
  BY <1>1, <1>4, <1>5 DEF FirstOf

\* While the filter leaves out no commit above it, the marked row is at the
\* place of its commit in the whole list, and says what it stands for.
LEMMA RowSaysIt ==
  ASSUME NEW rm \in RepoModes, NEW l \in Lists, ~FilteredAbove(rm, l)
  PROVE  Highlighted(rm, l) = UnderCursor(rm, l)
<1>1. PICK mark : mark = Marked(rm, l)
  OBVIOUS
<1>2. PICK shown : shown = Visible(rm, l)
  OBVIOUS
<1>3. PICK at : at = {p \in DOMAIN shown : shown[p] = mark}
  OBVIOUS
<1>4. Highlighted(rm, l) = IF l = "commits" /\ at # {} THEN Items(rm, l)[CHOOSE p \in at : TRUE]
                           ELSE UnderCursor(rm, l)
  BY <1>1, <1>2, <1>3 DEF Highlighted
<1>5. ASSUME l = "commits", at # {}
      PROVE  Items(rm, l)[CHOOSE p \in at : TRUE] = UnderCursor(rm, l)
  <2>1. PICK items \in Seq(Entries) : items = Items(rm, l)
    BY VisiblePlaces
  <2>2. l \in Loaded /\ l \notin rm.by_name
    BY <1>5 DEF RepoModes, Loaded, Sortable
  <2>3. /\ shown \in Seq(DOMAIN items)
        /\ \A p \in DOMAIN shown : shown[p] \in DOMAIN items
        /\ \A i \in DOMAIN items : items[i] \in rm.query[l] => \E p \in DOMAIN shown : shown[p] = i
        /\ \A p, q \in DOMAIN shown : p < q => shown[p] < shown[q]
    <3>1. items = rm.detail.lists[l] /\ shown = Filtered(rm, l)
      BY <1>2, <2>1, <2>2 DEF Items, Visible
    <3>2. PICK byName \in BOOLEAN : byName = (l \in rm.by_name)
      BY <2>2, LoadedItems
    <3>3. byName = FALSE
      BY <2>2, <3>2
    <3>4. PICK query : query = rm.query[l]
      OBVIOUS
    <3>5. Shows(items, query, byName, shown)
      BY <2>2, <3>1, <3>2, <3>4, FilteredPlaces
    <3>6. /\ shown \in Seq(DOMAIN items)
          /\ \A p \in DOMAIN shown : shown[p] \in DOMAIN items
          /\ \A i \in DOMAIN items : items[i] \in query => \E p \in DOMAIN shown : shown[p] = i
          /\ byName = FALSE => \A p, q \in DOMAIN shown : p < q => shown[p] < shown[q]
      BY <3>5 DEF Shows
    <3> QED
      BY <3>3, <3>4, <3>6
  <2>4. PICK p \in at : p = CHOOSE q \in at : TRUE
    BY <1>5
  <2>5. PICK N \in Nat : DOMAIN shown = 1..N
    BY <2>3
  <2>6. PICK len \in Nat : DOMAIN items = 1..len
    BY <2>1
  <2>7. p \in 1..N /\ shown[p] = mark /\ mark \in 1..len
    BY <1>3, <2>3, <2>5, <2>6
  <2>8. /\ \A i \in 1..mark : \E q \in 1..N : shown[q] = i
        /\ \A q \in 1..N : shown[q] \in 1..len
        /\ \A q, r \in 1..N : q < r => shown[q] < shown[r]
    <3>1. \A i \in 1..mark : i \in DOMAIN items /\ items[i] \in rm.query[l]
      BY <1>1, <1>5, <2>1, <2>6, <2>7 DEF FilteredAbove
    <3> QED
      BY <2>3, <2>5, <2>6, <3>1
  <2>9. \A q \in 1..N : q <= mark => shown[q] = q
    <3> DEFINE Off == {q \in 1..N : q <= mark /\ shown[q] # q}
    <3>1. SUFFICES ASSUME Off # {} PROVE FALSE
      OBVIOUS
    <3>2. PICK q \in Off : \A r \in Off : q <= r
      <4>1. Off \in SUBSET Nat
        OBVIOUS
      <4> HIDE DEF Off
      <4> QED
        BY <3>1, <4>1, LeastNumber
    <3>3. q \in 1..N /\ q <= mark /\ shown[q] # q /\ q \in 1..mark
      BY <2>7
    <3>4. \A r \in 1..N : r < q => shown[r] = r
      <4>1. SUFFICES ASSUME NEW r \in 1..N, r < q, shown[r] # r PROVE FALSE
        OBVIOUS
      <4>2. r \in Off
        BY <2>7, <3>3, <4>1
      <4>3. q <= r
        BY <3>2, <4>2
      <4> QED
        BY <3>3, <4>1, <4>3
    <3> HIDE DEF Off
    <3>5. PICK s \in 1..N : shown[s] = q
      BY <2>8, <3>3
    <3>6. q < s
      BY <3>3, <3>4, <3>5
    <3>7. shown[q] < q /\ shown[q] \in 1..len
      BY <2>8, <3>3, <3>5, <3>6
    <3>8. PICK r \in Nat : r = shown[q] /\ r \in 1..N /\ r < q
      BY <3>3, <3>7
    <3>9. shown[r] = r
      BY <3>4, <3>8
    <3>10. shown[r] < shown[q]
      BY <2>8, <3>3, <3>8
    <3> QED
      BY <3>8, <3>9, <3>10
  <2>10. p = mark
    <3>1. CASE p <= mark
      BY <2>7, <2>9, <3>1
    <3>2. CASE mark < p
      <4>1. mark \in 1..N
        BY <2>7, <3>2
      <4>2. shown[mark] = mark
        BY <2>7, <2>9, <4>1
      <4>3. shown[mark] < shown[p]
        BY <2>7, <2>8, <3>2, <4>1
      <4> QED
        BY <2>7, <4>2, <4>3
    <3> QED
      BY <2>7, <3>1, <3>2
  <2>11. UnderCursor(rm, l) = items[mark]
    BY <1>1, <2>1, <2>6, <2>7 DEF UnderCursor, ItemAt
  <2> QED
    BY <2>1, <2>4, <2>10, <2>11
<1> QED
  BY <1>4, <1>5

LEMMA ActsInv ==
  ASSUME Inv
  PROVE  ActsOnTheMarked
<1>1. repo_mode \in RepoModes /\ InRows(repo_mode)
  BY DEF Inv, Typed
<1>2. ASSUME NEW l \in ActiveList(repo_mode)
      PROVE  /\ Target(repo_mode, l) = UnderCursor(repo_mode, l)
             /\ FilteredAbove(repo_mode, l) \/ Target(repo_mode, l) = Highlighted(repo_mode, l)
  <2>1. l \in Lists
    BY <1>1, ActiveListIs
  <2> QED
    BY <1>1, <2>1, SameEntry, RowSaysIt
<1>3. ASSUME NEW pane \in Panes, repo_mode.selected[pane] # 0
      PROVE  SelectedEntry(repo_mode, pane) = MarkedEntry(repo_mode, pane) /\ MarkedEntry(repo_mode, pane) # None
  <2>1. PICK rows \in Seq(TreeRow) : rows = Rows(repo_mode, pane)
    BY <1>1, RowsAre
  <2>2. PICK n \in Nat : n = Len(rows) /\ DOMAIN rows = 1..n
    OBVIOUS
  <2>3. PICK sel \in 1..n : sel = repo_mode.selected[pane]
    BY <1>1, <1>3, <2>1, <2>2 DEF InRows
  <2>4. EnsureSelection(sel, n) = sel /\ rows # <<>> /\ rows[sel] \in TreeRow
    BY <2>2, <2>3 DEF EnsureSelection
  <2>5. SelectedEntry(repo_mode, pane) = rows[sel]
    BY <2>1, <2>2, <2>3, <2>4 DEF SelectedEntry
  <2>6. MarkedEntry(repo_mode, pane) = rows[sel]
    BY <2>1, <2>2, <2>3 DEF MarkedEntry, ItemAt
  <2> QED
    BY <2>4, <2>5, <2>6, RowAssumption
<1> QED
  BY <1>2, <1>3 DEF ActsOnTheMarked

(***************************************************************************)
(* A command acts on what the cursor is on: in every list the user can be  *)
(* in (selected_*_item of the reducer and the panel agree whatever the     *)
(* index is), and in the file panes as long as a row is marked.  What the  *)
(* marked row says is that entry, unless it is a commit and the filter     *)
(* leaves out another above it (repo_commit_lines).                        *)
(***************************************************************************)
THEOREM ActsHolds == Spec => []ActsOnTheMarked
BY InvHolds, ActsInv, PTL

LEMMA PromptsInv ==
  ASSUME Inv
  PROVE  PromptsForTheMarked
<1>1. repo_mode \in RepoModes /\ InLists(repo_mode)
  BY DEF Inv, Typed
<1>2. ASSUME NEW l \in Loaded \intersect Range(SyncedByLoad), UnderCursor(repo_mode, l) # None
      PROVE  Unfiltered(repo_mode, l) = UnderCursor(repo_mode, l)
  <2>0. l \in Loaded /\ l \in Lists /\ InList(repo_mode, l)
    BY <1>1 DEF InLists, Lists
  <2>1. PICK items \in Seq(Entries) : items = repo_mode.detail.lists[l] /\ items = Items(repo_mode, l)
    BY <1>1, <2>0, LoadedItems DEF Items
  <2>2. PICK shown : shown = Filtered(repo_mode, l) /\ shown = Visible(repo_mode, l)
    BY <2>0 DEF Visible
  <2>3. PICK sel : sel = repo_mode.selected[l]
    OBVIOUS
  <2>4. DOMAIN items \in SUBSET Nat /\ 0 \notin DOMAIN items
    OBVIOUS
  <2>5. CASE sel \in Range(shown)
    <3>1. sel \in DOMAIN items /\ UnderCursor(repo_mode, l) = items[sel]
      BY <1>1, <2>0, <2>1, <2>2, <2>3, <2>5, MarkedIs
    <3> QED
      BY <2>1, <2>3, <3>1 DEF Unfiltered
  <2>6. CASE sel \notin Range(shown) /\ shown = <<>>
    <3>1. Marked(repo_mode, l) = 0
      BY <2>2, <2>6 DEF Marked
    <3>2. UnderCursor(repo_mode, l) = None
      BY <2>1, <2>4, <3>1 DEF UnderCursor, ItemAt
    <3> QED
      BY <1>2, <3>2
  <2>7. CASE sel \notin Range(shown) /\ shown # <<>>
    <3>1. sel = 0 /\ l = "commits" /\ repo_mode.query[l] = Entries
      BY <2>0, <2>2, <2>3, <2>7 DEF InList
    <3>2. PICK byName \in BOOLEAN : byName = (l \in repo_mode.by_name)
      BY <1>1, <2>0, LoadedItems
    <3>3. byName = FALSE
      <4>1. repo_mode.by_name \in SUBSET Sortable
        BY <1>1 DEF RepoModes
      <4>2. l \notin repo_mode.by_name
        BY <3>1, <4>1 DEF Sortable
      <4> QED
        BY <3>2, <4>2
    <3>4. Shows(items, Entries, byName, shown)
      BY <1>1, <2>0, <2>1, <2>2, <3>1, <3>2, FilteredPlaces
    <3>5. shown \in Seq(DOMAIN items)
            /\ (\A i \in DOMAIN items : items[i] \in Entries => \E p \in DOMAIN shown : shown[p] = i)
            /\ (\A p, q \in DOMAIN shown : p < q => shown[p] < shown[q])
      BY <3>3, <3>4 DEF Shows
    <3>6. 1 \in DOMAIN shown /\ DOMAIN shown \in SUBSET Nat /\ shown[1] \in DOMAIN items
            /\ \A p \in DOMAIN shown : p # 1 => 1 < p
      BY <2>7, <3>5
    <3>7. 1 \in DOMAIN items
      BY <2>1, <3>6
    <3>8. PICK p \in DOMAIN shown : shown[p] = 1
      BY <3>5, <3>7
    <3>9. p = 1
      <4>1. SUFFICES ASSUME p # 1 PROVE FALSE
        OBVIOUS
      <4>2. shown[1] < 1
        BY <3>5, <3>6, <3>8, <4>1
      <4>3. shown[1] \in Nat /\ shown[1] # 0
        BY <2>4, <3>6
      <4> QED
        BY <4>2, <4>3
    <3>10. Marked(repo_mode, l) = 1
      <4>1. l # "branches"
        BY <3>1
      <4>2. Marked(repo_mode, l) = FirstOf(Visible(repo_mode, l))
        BY <1>1, <2>0, <2>2, <2>3, <2>7, <4>1, FirstMarked
      <4> QED
        BY <2>2, <2>7, <3>8, <3>9, <4>2 DEF FirstOf
    <3>11. UnderCursor(repo_mode, l) = items[1]
      BY <2>1, <3>7, <3>10 DEF UnderCursor, ItemAt
    <3>12. PICK heads : heads = {i \in DOMAIN items : l = "branches" /\ items[i] = repo_mode.detail.head}
      OBVIOUS
    <3>13. heads = {}
      BY <3>1, <3>12
    <3>14. Unfiltered(repo_mode, l) = ItemAt(items, 1)
      BY <2>1, <2>3, <2>4, <3>1, <3>12, <3>13 DEF Unfiltered
    <3> QED
      BY <3>7, <3>11, <3>14 DEF ItemAt
  <2> QED
    BY <2>5, <2>6, <2>7
<1> QED
  BY <1>2 DEF PromptsForTheMarked

(***************************************************************************)
(* The prompts that look up the entry without the filter are about the     *)
(* marked entry, in every list a load brings back together.                *)
(***************************************************************************)
THEOREM PromptsHold == Spec => []PromptsForTheMarked
BY InvHolds, PromptsInv, PTL

LEMMA TreeInv ==
  ASSUME Inv
  PROVE  TreeShowsTheFiles
<1>1. \A pane \in Panes : TreeShownIn(repo_mode, pane)
  BY TreeShownInPane DEF Inv, Typed
<1> QED
  BY <1>1, Zenon DEF TreeShowsTheFiles, TreeShownIn

(***************************************************************************)
(* A file pane hides no change and shows none twice, whatever the          *)
(* directories, the filter, the joined chains and what is collapsed.       *)
(***************************************************************************)
THEOREM TreeHolds == Spec => []TreeShowsTheFiles
BY InvHolds, TreeInv, PTL

-----------------------------------------------------------------------------
(* One step on the screen.                                                 *)

\* The cursor of a list does not change what the list shows.
LEMMA ShownSame ==
  ASSUME NEW rm \in RepoModes, NEW next \in RepoModes, NEW l \in Lists,
         SameView(rm, next), OnlySelects(rm, next, {l})
  PROVE  Visible(next, l) = Visible(rm, l) /\ Items(next, l) = Items(rm, l)
<1>1. next.detail = rm.detail /\ next.query = rm.query /\ next.by_name = rm.by_name
  BY DEF SameView
<1>2. CASE l \in Loaded
  BY <1>1, <1>2, FilteredSame DEF Visible, Items
<1>3. CASE l \notin Loaded
  <2>1. PICK o \in Loaded : o = OwnerOf[l]
    BY <1>3, OwnerLoaded
  <2>2. o # l /\ o \in Lists
    BY <1>3, <2>1 DEF Lists
  <2>3. next.selected[o] = rm.selected[o] /\ Filtered(next, o) = Filtered(rm, o)
    BY <1>1, <2>2, FilteredSame DEF OnlySelects
  <2>4. Fallback(next, o) = Fallback(rm, o)
    BY <1>1, <2>3 DEF Fallback
  <2>5. Usable(next, o) = Usable(rm, o)
    BY <2>3 DEF Usable
  <2>6. SelectedItem(next, o) = SelectedItem(rm, o)
    BY <1>1, <2>3, <2>4, <2>5 DEF SelectedItem, SelectedIndex
  <2>7. FileList(next, l) = FileList(rm, l)
    BY <2>1, <2>6 DEF FileList
  <2>8. FilteredFiles(next, l) = FilteredFiles(rm, l)
    BY <1>1, <2>7 DEF FilteredFiles
  <2> QED
    BY <1>3, <2>7, <2>8 DEF Visible, Items
<1> QED
  BY <1>2, <1>3

\* What the cursor is on when nothing is selected is the first row.
LEMMA MarkedRow ==
  ASSUME Inv, NEW l \in Lists, NEW n, Numbers(Visible(repo_mode, l), n), n # 0
  PROVE  \E from \in 1..n :
            /\ Marked(repo_mode, l) = Visible(repo_mode, l)[from]
            /\ from = IF PlaceOf(Visible(repo_mode, l), repo_mode.selected[l]) = 0 THEN 1
                      ELSE PlaceOf(Visible(repo_mode, l), repo_mode.selected[l])
<1>1. repo_mode \in RepoModes /\ \A k \in Synced : InList(repo_mode, k)
  BY InvIs, GoodIs DEF Typed
<1>2. PICK shown : shown = Visible(repo_mode, l)
  OBVIOUS
<1>3. n \in Nat /\ DOMAIN shown = 1..n /\ 1 \in 1..n /\ shown # <<>>
  BY <1>2 DEF Numbers
<1>4. PICK sel : sel = repo_mode.selected[l]
  OBVIOUS
<1>5. CASE sel \in Range(shown)
  <2>1. Marked(repo_mode, l) = sel
    BY <1>1, <1>2, <1>4, <1>5, MarkedIs
  <2>2. PICK from \in 1..n : shown[from] = sel
    BY <1>3, <1>5 DEF Range
  <2>3. PlaceOf(shown, sel) = from
    BY <1>2, <2>2, PlaceIs
  <2>4. from # 0
    BY <2>2
  <2> QED
    BY <1>2, <1>4, <2>1, <2>2, <2>3, <2>4
<1>6. CASE sel \notin Range(shown)
  <2>1. l # "branches"
    <3>1. SUFFICES ASSUME l = "branches" PROVE FALSE
      OBVIOUS
    <3>2. l \in Synced /\ l \in Loaded
      BY <3>1 DEF Synced, Loaded
    <3>3. InList(repo_mode, l) /\ shown = Filtered(repo_mode, l)
      BY <1>1, <1>2, <3>2 DEF Visible
    <3> QED
      BY <1>3, <1>4, <1>6, <3>1, <3>3 DEF InList
  <2>2. Marked(repo_mode, l) = shown[1]
    BY <1>1, <1>2, <1>3, <1>4, <1>6, <2>1, FirstMarked DEF FirstOf
  <2>3. PlaceOf(shown, sel) = 0
    <3>1. PICK at \in 0..n : at = PlaceOf(shown, sel) /\ (at # 0 => shown[at] = sel)
      BY <1>2, PlaceIs
    <3>2. at = 0
      BY <1>3, <1>6, <3>1 DEF Range
    <3> QED
      BY <3>1, <3>2
  <2>4. PICK from \in 1..n : from = 1
    BY <1>3
  <2> QED
    BY <1>2, <1>4, <2>2, <2>3, <2>4
<1> QED
  BY <1>5, <1>6

LEMMA StepsBeside ==
  ASSUME Inv, NEW l \in Lists, NEW d \in {-1, 1}, StepSelection(l, d), Visible(repo_mode, l) # <<>>
  PROVE  (PlaceOf(Visible(repo_mode, l), Marked(repo_mode', l))
            - PlaceOf(Visible(repo_mode, l), Marked(repo_mode, l)) - d) % Len(Visible(repo_mode, l)) = 0
<1>1. repo_mode \in RepoModes
  BY DEF Inv, Typed
<1>2. PICK shown : shown = Visible(repo_mode, l)
  OBVIOUS
<1>3. PICK n \in Nat : Numbers(shown, n)
  BY <1>1, <1>2, VisibleNumbers
<1>4. n # 0 /\ Len(shown) = n /\ DOMAIN shown = 1..n /\ shown # <<>>
  BY <1>2, <1>3 DEF Numbers
<1>5. PICK from \in 1..n :
            /\ Marked(repo_mode, l) = shown[from]
            /\ from = IF PlaceOf(shown, repo_mode.selected[l]) = 0 THEN 1
                      ELSE PlaceOf(shown, repo_mode.selected[l])
  BY <1>2, <1>3, <1>4, MarkedRow
<1>6. PICK to \in 1..n : to = 1 + ((from - 1 + d) % n) /\ (to - from - d) % n = 0
  BY <1>4, Around
<1>7. Stepped(repo_mode, l, d) = shown[to]
  BY <1>2, <1>4, <1>5, <1>6 DEF Stepped, PlaceOf
<1>8. PICK i \in Nat : i = shown[to]
  BY <1>3 DEF Numbers
<1>9. PICK next : next = Choosing(repo_mode, l, i)
  OBVIOUS
<1>10. repo_mode' = next
  BY <1>7, <1>8, <1>9 DEF StepSelection, Settles, Choosing
<1>11. /\ next \in RepoModes /\ SameView(repo_mode, next) /\ OnlySelects(repo_mode, next, {l})
       /\ next.selected[l] = i
  BY <1>1, <1>9, ChoosingIs DEF Selects
<1>12. Visible(next, l) = shown
  BY <1>1, <1>2, <1>11, ShownSame
<1>13. i \in Range(shown)
  BY <1>4, <1>8 DEF Range
<1>14. Marked(next, l) = shown[to]
  BY <1>8, <1>11, <1>12, <1>13, MarkedIs
<1>15. PlaceOf(shown, shown[to]) = to /\ PlaceOf(shown, shown[from]) = from
  BY <1>3, PlaceIs
<1> QED
  BY <1>2, <1>4, <1>5, <1>6, <1>10, <1>14, <1>15

(***************************************************************************)
(* A step moves the cursor to the row beside it, around the ends, whatever *)
(* the filter and the order: Stepped of the reducer, rows of the panel.    *)
(***************************************************************************)
THEOREM StepsHold == Spec => StepsToTheNextRow
<1>1. ASSUME Inv, [Next]_vars
      PROVE  [\A l \in Lists, d \in {-1, 1} :
                StepSelection(l, d) /\ Visible(repo_mode, l) # <<>> =>
                    LET shown == Visible(repo_mode, l)
                        row(i) == SelectInSeq(shown, LAMBDA x : x = i)
                    IN  (row(Marked(repo_mode', l)) - row(Marked(repo_mode, l)) - d) % Len(shown) = 0]_vars
  <2>1. ASSUME NEW l \in Lists, NEW d \in {-1, 1}, StepSelection(l, d), Visible(repo_mode, l) # <<>>
        PROVE  LET shown == Visible(repo_mode, l)
                   row(i) == SelectInSeq(shown, LAMBDA x : x = i)
               IN  (row(Marked(repo_mode', l)) - row(Marked(repo_mode, l)) - d) % Len(shown) = 0
    BY <1>1, <2>1, StepsBeside DEF PlaceOf
  <2> QED
    BY <2>1
<1> QED
  BY <1>1, InvHolds, PTL DEF Spec, StepsToTheNextRow

-----------------------------------------------------------------------------
(* A history opened for an entry.                                          *)

LEMMA OnlyLoads ==
  ASSUME Next, load # None, load' = None
  PROVE  RepoDetailLoaded
BY DEF Next, Move, StepSelection, SelectEdge, SelectRepoDetailItem, Files, ToggleStatusTree,
   CycleStatusFilterMode, ChangeRows, ChangeFilter, SetSortMode, Go, SwitchRepoSubview, OpenSelectedCommits,
   OpenAllBranchGraph, OpenSelectedReflogCommits, OpenSelectedSubCommits, OpenSelectedCommitFiles,
   CloseSelectedCommitFiles, OpenSelectedRemoteBranches, OpenSelectedStashFiles, CloseSelectedStashFiles,
   FixupBaseCommitFound, ConfirmPendingOperation, CloseTopModal, Refresh, RepositoryChanges, Free

LEMMA LoadShows ==
  ASSUME Inv, opened_for # None, RepoDetailLoaded
  PROVE  \/ repo_mode'.active_subview # "commits"
         \/ UnderCursor(repo_mode', "commits") = opened_for
         \/ warned'
<1>1. PICK rm, synced \in RepoModes :
            /\ rm = [repo_mode EXCEPT !.detail = load] /\ synced = SyncLoaded(rm) /\ Good(synced)
            /\ Brought(rm, synced, {"branches", "remotes", "commits", "commit_files", "stash", "reflog", "worktrees"})
            /\ rm.pending_commit_selection = repo_mode.pending_commit_selection
            /\ rm.active_subview = repo_mode.active_subview
  BY LoadBrings
<1>2. opened_for = rm.pending_commit_selection /\ rm.active_subview = "commits"
  BY <1>1 DEF Inv, Opening
<1>3. synced.active_subview = "commits"
  BY <1>1, <1>2 DEF Brought, SameView
<1>4. CASE synced.pending_commit_selection = rm.pending_commit_selection
  <2>1. warned' = (synced.pending_commit_selection # None /\ synced.active_subview = "commits")
    BY <1>1 DEF RepoDetailLoaded
  <2> QED
    BY <1>2, <1>3, <1>4, <2>1
<1>5. CASE /\ synced.pending_commit_selection = None
           /\ synced.selected["commits"] \in Range(Filtered(synced, "commits"))
           /\ synced.detail.lists["commits"][synced.selected["commits"]] = rm.pending_commit_selection
  <2>1. PICK next : next = FollowRebase(synced)
    OBVIOUS
  <2>2. repo_mode' = next
    BY <1>1, <1>5, <2>1 DEF RepoDetailLoaded
  <2>3. Good(next) /\ SameContents(synced, next)
    BY <1>1, <2>1, FollowRebaseKeeps
  <2>4. PICK c \in Lists : c = "commits" /\ c \in Loaded
    BY DEF Lists, Loaded
  <2>5. next \in RepoModes /\ next.selected = synced.selected /\ next.detail = synced.detail
          /\ Filtered(next, c) = Filtered(synced, c)
    BY <2>3, FilteredSame DEF Good, SameContents
  <2>6. next.selected[c] \in Range(Visible(next, c)) /\ Items(next, c) = synced.detail.lists[c]
    BY <1>5, <2>4, <2>5 DEF Visible, Items
  <2>7. UnderCursor(next, c) = Items(next, c)[next.selected[c]]
    BY <2>5, <2>6, MarkedIs
  <2> QED
    BY <1>2, <1>5, <2>2, <2>4, <2>5, <2>6, <2>7
<1> QED
  BY <1>1, <1>4, <1>5 DEF Brought

(***************************************************************************)
(* A history opened for an entry of the reflog comes up with the entry     *)
(* under the cursor, or with a warning: the target outlives every          *)
(* synchronization before the load that brings the history.                *)
(***************************************************************************)
THEOREM OpensHold == Spec => OpensAtTheEntry
<1>1. ASSUME Inv, [Next]_vars
      PROVE  [opened_for # None /\ load # None /\ load' = None =>
                \/ repo_mode'.active_subview # "commits"
                \/ UnderCursor(repo_mode', "commits") = opened_for
                \/ warned']_vars
  <2>1. ASSUME Next, opened_for # None, load # None, load' = None
        PROVE  \/ repo_mode'.active_subview # "commits"
               \/ UnderCursor(repo_mode', "commits") = opened_for
               \/ warned'
    BY <1>1, <2>1, OnlyLoads, LoadShows
  <2> QED
    BY <1>1, <2>1
<1> QED
  BY <1>1, InvHolds, PTL DEF Spec, OpensAtTheEntry

=============================================================================
