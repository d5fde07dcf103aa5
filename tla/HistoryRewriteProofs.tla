------------------------ MODULE HistoryRewriteProofs ------------------------
(***************************************************************************)
(* Proofs about HistoryRewrite, for every set of edits, what they need,    *)
(* every set of repositories it may be opened on, and every bound.         *)
(*                                                                         *)
(* Commits, the lists of a rebase and the picking of copied commits are    *)
(* folds over sequences. What they compute is proved by induction over the *)
(* length, one instance of Induction for each of them. On that rests one   *)
(* lemma for each git command, which says of every repository what the     *)
(* command leaves of it (Fine, Fits), what it keeps (Saves) and where HEAD *)
(* is when it fails (Traceless, Begun, Carries). The inductive invariant   *)
(* (Inv) adds to the types how far a command is, and what its processes so *)
(* far have made of the repository it was asked for (Stage).               *)
(*                                                                         *)
(* RewritesAsAskedProofs proves that a command does what it is called.     *)
(***************************************************************************)
EXTENDS HistoryRewrite, SequenceTheorems, WellFoundedInduction, TLAPS

LEMMA LeastNumber ==
  ASSUME NEW S \in SUBSET Nat, S # {}
  PROVE  \E n \in S : \A m \in S : n <= m
<1> DEFINE R == {ss \in Nat \X Nat : ss[1] < ss[2]}
<1>1. IsWellFoundedOn(R, Nat)
  BY NatLessThanWellFounded DEF OpToRel
<1> HIDE DEF R
<1>2. PICK n \in S : \A m \in S : <<m, n>> \notin R
  BY <1>1, WFMin
<1>3. \A m \in S : ~(m < n)
  BY <1>2 DEF R
<1> QED
  BY <1>3

LEMMA NumbersWellOrdered == \A S \in SUBSET Nat : S # {} => \E n \in S : \A m \in S : n <= m
  BY LeastNumber

(***************************************************************************)
(* Folds: what they make of the empty sequence, and of one more element.   *)
(***************************************************************************)
TreeFold == INSTANCE Induction WITH P <- Clean, Op <- After
ItemFold == INSTANCE Induction WITH P <- Clean, Op <- Item
SquashFold == INSTANCE Induction WITH P <- Clean, Op <- Squashed
WantFold == INSTANCE Induction WITH P <- Clean, Op <- Wanted
PickFold == INSTANCE Induction WITH P <- Clean, Op <- CherryPickNext

LEMMA TreeIterates ==
  ASSUME NEW S, NEW c \in Seq(S)
  PROVE  \E g : TreeFold!Iterates({}, c, Len(c), g) /\ TreeOf(c) = g[1..Len(c)]
<1>1. PICK n \in Nat : n = Len(c) /\ DOMAIN c = 1..n
  OBVIOUS
<1>2. \E h : h = [t \in SUBSET (1..n) |->
        IF t = {} THEN {}
        ELSE After(h[t \ {CHOOSE x \in t : \A y \in t : x >= y}],
               c[CHOOSE x \in t : \A y \in t : x >= y])]
  <2>1. \E h : TreeFold!Iterates({}, c, n, h)
    BY NumbersWellOrdered, TreeFold!IteratesExist DEF TreeFold!WellOrdered
  <2> QED
    BY <2>1, Zenon DEF TreeFold!Iterates, TreeFold!Top
<1> DEFINE g == CHOOSE g : g = [t \in SUBSET (1..n) |->
        IF t = {} THEN {}
        ELSE After(g[t \ {CHOOSE x \in t : \A y \in t : x >= y}],
               c[CHOOSE x \in t : \A y \in t : x >= y])]
<1>3. g = [t \in SUBSET (1..n) |->
        IF t = {} THEN {}
        ELSE After(g[t \ {CHOOSE x \in t : \A y \in t : x >= y}],
               c[CHOOSE x \in t : \A y \in t : x >= y])]
  BY <1>2, Zenon
<1>4. TreeOf(c) = g[1..n]
  BY <1>1 DEF TreeOf, FoldLeft, MapThenFoldSet, Max
<1> HIDE DEF g
<1>5. TreeFold!Iterates({}, c, n, g)
  BY <1>3, Zenon DEF TreeFold!Iterates, TreeFold!Top
<1> QED
  BY <1>1, <1>4, <1>5

LEMMA TreeEmpty ==
  TreeOf(<<>>) = {}
<1>1. <<>> \in Seq({}) /\ Len(<<>>) = 0
  OBVIOUS
<1>2. PICK g : TreeFold!Iterates({}, <<>>, Len(<<>>), g)
               /\ TreeOf(<<>>) = g[1..Len(<<>>)]
  BY <1>1, TreeIterates
<1>3. TreeFold!Iterates({}, <<>>, 0, g) /\ TreeOf(<<>>) = g[1..0]
  BY <1>1, <1>2
<1> QED
  BY <1>3, TreeFold!IteratesEmpty

LEMMA TreeAppend ==
  ASSUME NEW S, NEW c \in Seq(S), NEW e \in S
  PROVE  TreeOf(Append(c, e)) = After(TreeOf(c), e)
<1>1. PICK n \in Nat : n = Len(c)
  OBVIOUS
<1>2. PICK r \in Seq(S) : r = Append(c, e)
  <2>1. Append(c, e) \in Seq(S)
    OBVIOUS
  <2> QED
    BY <2>1
<1>9. PICK b : b = {}
  OBVIOUS
<1>3. Len(r) = n + 1 /\ r[n + 1] = e /\ \A i \in 1..n : c[i] = r[i]
  BY <1>1, <1>2
<1>4. PICK g : TreeFold!Iterates(b, c, Len(c), g) /\ TreeOf(c) = g[1..Len(c)]
  BY <1>9, TreeIterates
<1>5. PICK h : TreeFold!Iterates(b, r, Len(r), h) /\ TreeOf(r) = h[1..Len(r)]
  BY <1>9, TreeIterates
<1>6. TreeFold!Iterates(b, c, n, g) /\ TreeOf(c) = g[1..n]
  BY <1>1, <1>4
<1>7. TreeFold!Iterates(b, r, n + 1, h) /\ TreeOf(r) = h[1..(n + 1)]
  BY <1>3, <1>5
<1>8. h[1..(n + 1)] = After(g[1..n], r[n + 1])
  BY <1>3, <1>6, <1>7, NumbersWellOrdered, TreeFold!IteratesStep DEF TreeFold!WellOrdered
<1> QED
  BY <1>2, <1>3, <1>6, <1>7, <1>8

LEMMA RanIterates ==
  ASSUME NEW from, NEW S, NEW s \in Seq(S)
  PROVE  \E g : ItemFold!Iterates([head |-> from, todo |-> <<>>, stop |-> "none"], s, Len(s), g) /\ Ran(from, s) = g[1..Len(s)]
<1>1. PICK n \in Nat : n = Len(s) /\ DOMAIN s = 1..n
  OBVIOUS
<1>2. \E h : h = [t \in SUBSET (1..n) |->
        IF t = {} THEN [head |-> from, todo |-> <<>>, stop |-> "none"]
        ELSE Item(h[t \ {CHOOSE x \in t : \A y \in t : x >= y}],
               s[CHOOSE x \in t : \A y \in t : x >= y])]
  <2>1. \E h : ItemFold!Iterates([head |-> from, todo |-> <<>>, stop |-> "none"], s, n, h)
    BY NumbersWellOrdered, ItemFold!IteratesExist DEF ItemFold!WellOrdered
  <2> QED
    BY <2>1, Zenon DEF ItemFold!Iterates, ItemFold!Top
<1> DEFINE g == CHOOSE g : g = [t \in SUBSET (1..n) |->
        IF t = {} THEN [head |-> from, todo |-> <<>>, stop |-> "none"]
        ELSE Item(g[t \ {CHOOSE x \in t : \A y \in t : x >= y}],
               s[CHOOSE x \in t : \A y \in t : x >= y])]
<1>3. g = [t \in SUBSET (1..n) |->
        IF t = {} THEN [head |-> from, todo |-> <<>>, stop |-> "none"]
        ELSE Item(g[t \ {CHOOSE x \in t : \A y \in t : x >= y}],
               s[CHOOSE x \in t : \A y \in t : x >= y])]
  BY <1>2, Zenon
<1>4. Ran(from, s) = g[1..n]
  BY <1>1 DEF Ran, FoldLeft, MapThenFoldSet, Max
<1> HIDE DEF g
<1>5. ItemFold!Iterates([head |-> from, todo |-> <<>>, stop |-> "none"], s, n, g)
  BY <1>3, Zenon DEF ItemFold!Iterates, ItemFold!Top
<1> QED
  BY <1>1, <1>4, <1>5

LEMMA RanEmpty ==
  ASSUME NEW from
  PROVE  Ran(from, <<>>) = [head |-> from, todo |-> <<>>, stop |-> "none"]
<1>1. <<>> \in Seq({}) /\ Len(<<>>) = 0
  OBVIOUS
<1>2. PICK g : ItemFold!Iterates([head |-> from, todo |-> <<>>, stop |-> "none"], <<>>, Len(<<>>), g)
               /\ Ran(from, <<>>) = g[1..Len(<<>>)]
  BY <1>1, RanIterates
<1>3. ItemFold!Iterates([head |-> from, todo |-> <<>>, stop |-> "none"], <<>>, 0, g) /\ Ran(from, <<>>) = g[1..0]
  BY <1>1, <1>2
<1> QED
  BY <1>3, ItemFold!IteratesEmpty

LEMMA RanAppend ==
  ASSUME NEW from, NEW S, NEW s \in Seq(S), NEW e \in S
  PROVE  Ran(from, Append(s, e)) = Item(Ran(from, s), e)
<1>1. PICK n \in Nat : n = Len(s)
  OBVIOUS
<1>2. PICK r \in Seq(S) : r = Append(s, e)
  <2>1. Append(s, e) \in Seq(S)
    OBVIOUS
  <2> QED
    BY <2>1
<1>9. PICK b : b = [head |-> from, todo |-> <<>>, stop |-> "none"]
  OBVIOUS
<1>3. Len(r) = n + 1 /\ r[n + 1] = e /\ \A i \in 1..n : s[i] = r[i]
  BY <1>1, <1>2
<1>4. PICK g : ItemFold!Iterates(b, s, Len(s), g) /\ Ran(from, s) = g[1..Len(s)]
  BY <1>9, RanIterates
<1>5. PICK h : ItemFold!Iterates(b, r, Len(r), h) /\ Ran(from, r) = h[1..Len(r)]
  BY <1>9, RanIterates
<1>6. ItemFold!Iterates(b, s, n, g) /\ Ran(from, s) = g[1..n]
  BY <1>1, <1>4
<1>7. ItemFold!Iterates(b, r, n + 1, h) /\ Ran(from, r) = h[1..(n + 1)]
  BY <1>3, <1>5
<1>8. h[1..(n + 1)] = Item(g[1..n], r[n + 1])
  BY <1>3, <1>6, <1>7, NumbersWellOrdered, ItemFold!IteratesStep DEF ItemFold!WellOrdered
<1> QED
  BY <1>2, <1>3, <1>6, <1>7, <1>8

LEMMA SquashIterates ==
  ASSUME NEW S, NEW s \in Seq(S)
  PROVE  \E g : SquashFold!Iterates(<<>>, s, Len(s), g) /\ Autosquash(s) = g[1..Len(s)]
<1>1. PICK n \in Nat : n = Len(s) /\ DOMAIN s = 1..n
  OBVIOUS
<1>2. \E h : h = [t \in SUBSET (1..n) |->
        IF t = {} THEN <<>>
        ELSE Squashed(h[t \ {CHOOSE x \in t : \A y \in t : x >= y}],
               s[CHOOSE x \in t : \A y \in t : x >= y])]
  <2>1. \E h : SquashFold!Iterates(<<>>, s, n, h)
    BY NumbersWellOrdered, SquashFold!IteratesExist DEF SquashFold!WellOrdered
  <2> QED
    BY <2>1, Zenon DEF SquashFold!Iterates, SquashFold!Top
<1> DEFINE g == CHOOSE g : g = [t \in SUBSET (1..n) |->
        IF t = {} THEN <<>>
        ELSE Squashed(g[t \ {CHOOSE x \in t : \A y \in t : x >= y}],
               s[CHOOSE x \in t : \A y \in t : x >= y])]
<1>3. g = [t \in SUBSET (1..n) |->
        IF t = {} THEN <<>>
        ELSE Squashed(g[t \ {CHOOSE x \in t : \A y \in t : x >= y}],
               s[CHOOSE x \in t : \A y \in t : x >= y])]
  BY <1>2, Zenon
<1>4. Autosquash(s) = g[1..n]
  BY <1>1 DEF Autosquash, FoldLeft, MapThenFoldSet, Max
<1> HIDE DEF g
<1>5. SquashFold!Iterates(<<>>, s, n, g)
  BY <1>3, Zenon DEF SquashFold!Iterates, SquashFold!Top
<1> QED
  BY <1>1, <1>4, <1>5

LEMMA SquashEmpty ==
  Autosquash(<<>>) = <<>>
<1>1. <<>> \in Seq({}) /\ Len(<<>>) = 0
  OBVIOUS
<1>2. PICK g : SquashFold!Iterates(<<>>, <<>>, Len(<<>>), g)
               /\ Autosquash(<<>>) = g[1..Len(<<>>)]
  BY <1>1, SquashIterates
<1>3. SquashFold!Iterates(<<>>, <<>>, 0, g) /\ Autosquash(<<>>) = g[1..0]
  BY <1>1, <1>2
<1> QED
  BY <1>3, SquashFold!IteratesEmpty

LEMMA SquashAppend ==
  ASSUME NEW S, NEW s \in Seq(S), NEW e \in S
  PROVE  Autosquash(Append(s, e)) = Squashed(Autosquash(s), e)
<1>1. PICK n \in Nat : n = Len(s)
  OBVIOUS
<1>2. PICK r \in Seq(S) : r = Append(s, e)
  <2>1. Append(s, e) \in Seq(S)
    OBVIOUS
  <2> QED
    BY <2>1
<1>9. PICK b : b = <<>>
  OBVIOUS
<1>3. Len(r) = n + 1 /\ r[n + 1] = e /\ \A i \in 1..n : s[i] = r[i]
  BY <1>1, <1>2
<1>4. PICK g : SquashFold!Iterates(b, s, Len(s), g) /\ Autosquash(s) = g[1..Len(s)]
  BY <1>9, SquashIterates
<1>5. PICK h : SquashFold!Iterates(b, r, Len(r), h) /\ Autosquash(r) = h[1..Len(r)]
  BY <1>9, SquashIterates
<1>6. SquashFold!Iterates(b, s, n, g) /\ Autosquash(s) = g[1..n]
  BY <1>1, <1>4
<1>7. SquashFold!Iterates(b, r, n + 1, h) /\ Autosquash(r) = h[1..(n + 1)]
  BY <1>3, <1>5
<1>8. h[1..(n + 1)] = Squashed(g[1..n], r[n + 1])
  BY <1>3, <1>6, <1>7, NumbersWellOrdered, SquashFold!IteratesStep DEF SquashFold!WellOrdered
<1> QED
  BY <1>2, <1>3, <1>6, <1>7, <1>8

LEMMA WantIterates ==
  ASSUME NEW theirs, NEW S, NEW s \in Seq(S)
  PROVE  \E g : WantFold!Iterates([todo |-> <<>>, theirs |-> theirs], s, Len(s), g) /\ Unpicked(s, theirs) = g[1..Len(s)]
<1>1. PICK n \in Nat : n = Len(s) /\ DOMAIN s = 1..n
  OBVIOUS
<1>2. \E h : h = [t \in SUBSET (1..n) |->
        IF t = {} THEN [todo |-> <<>>, theirs |-> theirs]
        ELSE Wanted(h[t \ {CHOOSE x \in t : \A y \in t : x >= y}],
               s[CHOOSE x \in t : \A y \in t : x >= y])]
  <2>1. \E h : WantFold!Iterates([todo |-> <<>>, theirs |-> theirs], s, n, h)
    BY NumbersWellOrdered, WantFold!IteratesExist DEF WantFold!WellOrdered
  <2> QED
    BY <2>1, Zenon DEF WantFold!Iterates, WantFold!Top
<1> DEFINE g == CHOOSE g : g = [t \in SUBSET (1..n) |->
        IF t = {} THEN [todo |-> <<>>, theirs |-> theirs]
        ELSE Wanted(g[t \ {CHOOSE x \in t : \A y \in t : x >= y}],
               s[CHOOSE x \in t : \A y \in t : x >= y])]
<1>3. g = [t \in SUBSET (1..n) |->
        IF t = {} THEN [todo |-> <<>>, theirs |-> theirs]
        ELSE Wanted(g[t \ {CHOOSE x \in t : \A y \in t : x >= y}],
               s[CHOOSE x \in t : \A y \in t : x >= y])]
  BY <1>2, Zenon
<1>4. Unpicked(s, theirs) = g[1..n]
  BY <1>1 DEF Unpicked, FoldLeft, MapThenFoldSet, Max
<1> HIDE DEF g
<1>5. WantFold!Iterates([todo |-> <<>>, theirs |-> theirs], s, n, g)
  BY <1>3, Zenon DEF WantFold!Iterates, WantFold!Top
<1> QED
  BY <1>1, <1>4, <1>5

LEMMA WantEmpty ==
  ASSUME NEW theirs
  PROVE  Unpicked(<<>>, theirs) = [todo |-> <<>>, theirs |-> theirs]
<1>1. <<>> \in Seq({}) /\ Len(<<>>) = 0
  OBVIOUS
<1>2. PICK g : WantFold!Iterates([todo |-> <<>>, theirs |-> theirs], <<>>, Len(<<>>), g)
               /\ Unpicked(<<>>, theirs) = g[1..Len(<<>>)]
  BY <1>1, WantIterates
<1>3. WantFold!Iterates([todo |-> <<>>, theirs |-> theirs], <<>>, 0, g) /\ Unpicked(<<>>, theirs) = g[1..0]
  BY <1>1, <1>2
<1> QED
  BY <1>3, WantFold!IteratesEmpty

LEMMA WantAppend ==
  ASSUME NEW theirs, NEW S, NEW s \in Seq(S), NEW e \in S
  PROVE  Unpicked(Append(s, e), theirs) = Wanted(Unpicked(s, theirs), e)
<1>1. PICK n \in Nat : n = Len(s)
  OBVIOUS
<1>2. PICK r \in Seq(S) : r = Append(s, e)
  <2>1. Append(s, e) \in Seq(S)
    OBVIOUS
  <2> QED
    BY <2>1
<1>9. PICK b : b = [todo |-> <<>>, theirs |-> theirs]
  OBVIOUS
<1>3. Len(r) = n + 1 /\ r[n + 1] = e /\ \A i \in 1..n : s[i] = r[i]
  BY <1>1, <1>2
<1>4. PICK g : WantFold!Iterates(b, s, Len(s), g) /\ Unpicked(s, theirs) = g[1..Len(s)]
  BY <1>9, WantIterates
<1>5. PICK h : WantFold!Iterates(b, r, Len(r), h) /\ Unpicked(r, theirs) = h[1..Len(r)]
  BY <1>9, WantIterates
<1>6. WantFold!Iterates(b, s, n, g) /\ Unpicked(s, theirs) = g[1..n]
  BY <1>1, <1>4
<1>7. WantFold!Iterates(b, r, n + 1, h) /\ Unpicked(r, theirs) = h[1..(n + 1)]
  BY <1>3, <1>5
<1>8. h[1..(n + 1)] = Wanted(g[1..n], r[n + 1])
  BY <1>3, <1>6, <1>7, NumbersWellOrdered, WantFold!IteratesStep DEF WantFold!WellOrdered
<1> QED
  BY <1>2, <1>3, <1>6, <1>7, <1>8

LEMMA PasteIterates ==
  ASSUME NEW f, NEW S, NEW s \in Seq(S)
  PROVE  \E g : PickFold!Iterates([g |-> f, ok |-> TRUE], s, Len(s), g) /\ Picked(f, s) = g[1..Len(s)]
<1>1. PICK n \in Nat : n = Len(s) /\ DOMAIN s = 1..n
  OBVIOUS
<1>2. \E h : h = [t \in SUBSET (1..n) |->
        IF t = {} THEN [g |-> f, ok |-> TRUE]
        ELSE CherryPickNext(h[t \ {CHOOSE x \in t : \A y \in t : x >= y}],
               s[CHOOSE x \in t : \A y \in t : x >= y])]
  <2>1. \E h : PickFold!Iterates([g |-> f, ok |-> TRUE], s, n, h)
    BY NumbersWellOrdered, PickFold!IteratesExist DEF PickFold!WellOrdered
  <2> QED
    BY <2>1, Zenon DEF PickFold!Iterates, PickFold!Top
<1> DEFINE g == CHOOSE g : g = [t \in SUBSET (1..n) |->
        IF t = {} THEN [g |-> f, ok |-> TRUE]
        ELSE CherryPickNext(g[t \ {CHOOSE x \in t : \A y \in t : x >= y}],
               s[CHOOSE x \in t : \A y \in t : x >= y])]
<1>3. g = [t \in SUBSET (1..n) |->
        IF t = {} THEN [g |-> f, ok |-> TRUE]
        ELSE CherryPickNext(g[t \ {CHOOSE x \in t : \A y \in t : x >= y}],
               s[CHOOSE x \in t : \A y \in t : x >= y])]
  BY <1>2, Zenon
<1>4. Picked(f, s) = g[1..n]
  BY <1>1 DEF Picked, FoldLeft, MapThenFoldSet, Max
<1> HIDE DEF g
<1>5. PickFold!Iterates([g |-> f, ok |-> TRUE], s, n, g)
  BY <1>3, Zenon DEF PickFold!Iterates, PickFold!Top
<1> QED
  BY <1>1, <1>4, <1>5

LEMMA PasteEmpty ==
  ASSUME NEW f
  PROVE  Picked(f, <<>>) = [g |-> f, ok |-> TRUE]
<1>1. <<>> \in Seq({}) /\ Len(<<>>) = 0
  OBVIOUS
<1>2. PICK g : PickFold!Iterates([g |-> f, ok |-> TRUE], <<>>, Len(<<>>), g)
               /\ Picked(f, <<>>) = g[1..Len(<<>>)]
  BY <1>1, PasteIterates
<1>3. PickFold!Iterates([g |-> f, ok |-> TRUE], <<>>, 0, g) /\ Picked(f, <<>>) = g[1..0]
  BY <1>1, <1>2
<1> QED
  BY <1>3, PickFold!IteratesEmpty

LEMMA PasteAppend ==
  ASSUME NEW f, NEW S, NEW s \in Seq(S), NEW e \in S
  PROVE  Picked(f, Append(s, e)) = CherryPickNext(Picked(f, s), e)
<1>1. PICK n \in Nat : n = Len(s)
  OBVIOUS
<1>2. PICK r \in Seq(S) : r = Append(s, e)
  <2>1. Append(s, e) \in Seq(S)
    OBVIOUS
  <2> QED
    BY <2>1
<1>9. PICK b : b = [g |-> f, ok |-> TRUE]
  OBVIOUS
<1>3. Len(r) = n + 1 /\ r[n + 1] = e /\ \A i \in 1..n : s[i] = r[i]
  BY <1>1, <1>2
<1>4. PICK g : PickFold!Iterates(b, s, Len(s), g) /\ Picked(f, s) = g[1..Len(s)]
  BY <1>9, PasteIterates
<1>5. PICK h : PickFold!Iterates(b, r, Len(r), h) /\ Picked(f, r) = h[1..Len(r)]
  BY <1>9, PasteIterates
<1>6. PickFold!Iterates(b, s, n, g) /\ Picked(f, s) = g[1..n]
  BY <1>1, <1>4
<1>7. PickFold!Iterates(b, r, n + 1, h) /\ Picked(f, r) = h[1..(n + 1)]
  BY <1>3, <1>5
<1>8. h[1..(n + 1)] = CherryPickNext(g[1..n], r[n + 1])
  BY <1>3, <1>6, <1>7, NumbersWellOrdered, PickFold!IteratesStep DEF PickFold!WellOrdered
<1> QED
  BY <1>2, <1>3, <1>6, <1>7, <1>8

(***************************************************************************)
(* Commits and their trees.                                                *)
(***************************************************************************)
Adds(c) == UNION {ch.add : ch \in ToSet(c)}

LEMMA EmptyCommit == <<>> \in AllCommits
<1>1. <<>> \in Seq(Changes) /\ DOMAIN <<>> = {}
  OBVIOUS
<1> QED
  BY <1>1 DEF AllCommits, Exact

LEMMA CommitPrefix ==
  ASSUME NEW c \in AllCommits, NEW k \in 0..Len(c)
  PROVE  SubSeq(c, 1, k) \in AllCommits /\ Len(SubSeq(c, 1, k)) = k
<1>1. c \in Seq(Changes) /\ \A n \in DOMAIN c : Exact(TreeOf(SubSeq(c, 1, n - 1)), c[n])
  BY DEF AllCommits, Exact
<1>2. PICK d : d = SubSeq(c, 1, k)
  OBVIOUS
<1>3. d \in Seq(Changes) /\ Len(d) = k /\ \A n \in 1..k : d[n] = c[n]
  BY <1>1, <1>2
<1>4. \A n \in DOMAIN d : Exact(TreeOf(SubSeq(d, 1, n - 1)), d[n])
  <2> TAKE n \in DOMAIN d
  <2>1. n \in 1..k /\ n \in DOMAIN c
    BY <1>1, <1>3
  <2>2. SubSeq(d, 1, n - 1) = SubSeq(c, 1, n - 1)
    BY <1>1, <1>3, <2>1
  <2> QED
    BY <1>1, <1>3, <2>1, <2>2
<1>5. d \in AllCommits
  BY <1>3, <1>4 DEF AllCommits, Exact
<1> QED
  BY <1>2, <1>3, <1>5

LEMMA CommitAppend ==
  ASSUME NEW c \in AllCommits, NEW ch \in Changes, Exact(TreeOf(c), ch)
  PROVE  Append(c, ch) \in AllCommits
<1>1. c \in Seq(Changes) /\ \A n \in DOMAIN c : Exact(TreeOf(SubSeq(c, 1, n - 1)), c[n])
  BY DEF AllCommits, Exact
<1>2. PICK d : d = Append(c, ch)
  OBVIOUS
<1>3. /\ d \in Seq(Changes) /\ Len(d) = Len(c) + 1 /\ d[Len(c) + 1] = ch
      /\ \A n \in 1..Len(c) : d[n] = c[n]
  BY <1>1, <1>2
<1>4. \A n \in DOMAIN d : Exact(TreeOf(SubSeq(d, 1, n - 1)), d[n])
  <2> TAKE n \in DOMAIN d
  <2>1. n \in 1..(Len(c) + 1)
    BY <1>1, <1>3
  <2>2. SubSeq(d, 1, n - 1) = SubSeq(c, 1, n - 1)
    BY <1>1, <1>3, <2>1
  <2>3. CASE n = Len(c) + 1
    <3>1. SubSeq(c, 1, n - 1) = c
      BY <1>1, <2>3
    <3> QED
      BY <1>3, <2>2, <2>3, <3>1
  <2>4. CASE n # Len(c) + 1
    <3>1. n \in DOMAIN c /\ n \in 1..Len(c)
      BY <1>1, <2>1, <2>4
    <3>2. Exact(TreeOf(SubSeq(c, 1, n - 1)), c[n])
      BY <1>1, <3>1
    <3>3. d[n] = c[n]
      BY <1>3, <3>1
    <3> QED
      BY <2>2, <3>2, <3>3
  <2> QED
    BY <2>3, <2>4
<1>5. d \in AllCommits
  BY <1>3, <1>4 DEF AllCommits, Exact
<1> QED
  BY <1>2, <1>5

LEMMA CommitLast ==
  ASSUME NEW c \in AllCommits, c # <<>>
  PROVE  /\ Front(c) \in AllCommits /\ Last(c) \in Changes
         /\ Last(c).add \intersect TreeOf(Front(c)) = {} /\ Last(c).del \subseteq TreeOf(Front(c))
         /\ c = Append(Front(c), Last(c)) /\ Len(Front(c)) + 1 = Len(c)
         /\ Last(c) \in ToSet(c) /\ ToSet(Front(c)) \subseteq ToSet(c)
<1>1. c \in Seq(Changes) /\ \A n \in DOMAIN c : Exact(TreeOf(SubSeq(c, 1, n - 1)), c[n])
  BY DEF AllCommits, Exact
<1>2. PICK n \in Nat : n = Len(c)
  BY <1>1
<1>3. n # 0 /\ n - 1 \in 0..Len(c) /\ n \in DOMAIN c /\ DOMAIN c = 1..n
  BY <1>1, <1>2
<1>4. PICK d : d = SubSeq(c, 1, n - 1)
  OBVIOUS
<1>5. d \in AllCommits /\ Len(d) = n - 1
  BY <1>3, <1>4, CommitPrefix
<1>6. Front(c) = d /\ Last(c) = c[n]
  BY <1>2, <1>4 DEF Front, Last
<1>7. \A i \in 1..(n - 1) : d[i] = c[i]
  BY <1>1, <1>2, <1>4
<1>8. d \in Seq(Changes) /\ DOMAIN d = 1..(n - 1)
  BY <1>5, <1>3 DEF AllCommits, Exact
<1>9. c = Append(d, c[n])
  <2>1. PICK e : e = Append(d, c[n])
    OBVIOUS
  <2>2. e \in Seq(Changes) /\ Len(e) = n /\ e[n] = c[n] /\ \A i \in 1..(n - 1) : e[i] = d[i]
    BY <1>1, <1>3, <1>5, <1>8, <2>1
  <2>3. \A i \in 1..n : e[i] = c[i]
    <3> TAKE i \in 1..n
    <3>1. i = n \/ i \in 1..(n - 1)
      BY <1>3
    <3> QED
      BY <3>1, <2>2, <1>7
  <2>4. e = c
    BY <1>1, <1>2, <2>2, <2>3
  <2> QED
    BY <2>1, <2>4
<1>10. c[n] \in Changes /\ c[n] \in ToSet(c)
  BY <1>1, <1>3 DEF ToSet
<1>11. ToSet(d) \subseteq ToSet(c)
  BY <1>3, <1>7, <1>8 DEF ToSet
<1> QED
  BY <1>1, <1>2, <1>3, <1>4, <1>5, <1>6, <1>9, <1>10, <1>11 DEF Exact

\* What a commit contains is made of edits, and some commit before it has added it.
TreeMade(n) == \A c \in AllCommits : Len(c) = n => TreeOf(c) \in SUBSET Edits /\ TreeOf(c) \subseteq Adds(c)

TreeInduction == INSTANCE Induction WITH P <- TreeMade, Op <- After

LEMMA CommitLen ==
  ASSUME NEW c \in AllCommits
  PROVE  c \in Seq(Changes) /\ Len(c) \in Nat /\ DOMAIN c = 1..Len(c) /\ (Len(c) = 0 <=> c = <<>>)
BY DEF AllCommits, Exact

LEMMA TreeType ==
  ASSUME NEW c \in AllCommits
  PROVE  TreeOf(c) \in SUBSET Edits /\ TreeOf(c) \subseteq Adds(c)
<1>1. TreeMade(0)
  <2>1. \A d \in AllCommits : Len(d) = 0 => d = <<>>
    BY CommitLen
  <2> QED
    BY <2>1, TreeEmpty DEF TreeMade
<1>2. \A n \in Nat : TreeMade(n) => TreeMade(n + 1)
  <2> SUFFICES ASSUME NEW n \in Nat, TreeMade(n), NEW d \in AllCommits, Len(d) = n + 1
               PROVE  TreeOf(d) \in SUBSET Edits /\ TreeOf(d) \subseteq Adds(d)
    BY DEF TreeMade
  <2>1. d # <<>>
    BY CommitLen
  <2>2. /\ Front(d) \in AllCommits /\ Last(d) \in Changes /\ d = Append(Front(d), Last(d))
        /\ Len(Front(d)) + 1 = n + 1 /\ Last(d) \in ToSet(d) /\ ToSet(Front(d)) \subseteq ToSet(d)
    BY <2>1, CommitLast
  <2>3. PICK f \in AllCommits, ch \in Changes :
            /\ f = Front(d) /\ ch = Last(d) /\ d = Append(f, ch) /\ Len(f) = n
            /\ ch \in ToSet(d) /\ ToSet(f) \subseteq ToSet(d)
    <3>1. Len(Front(d)) = n
      BY <2>2, CommitLen
    <3> QED
      BY <2>2, <3>1
  <2>4. TreeOf(f) \in SUBSET Edits /\ TreeOf(f) \subseteq Adds(f)
    BY <2>3 DEF TreeMade
  <2>5. TreeOf(d) = (TreeOf(f) \union ch.add) \ ch.del
    <3>1. f \in Seq(Changes)
      BY <2>3, CommitLen
    <3>2. TreeOf(Append(f, ch)) = After(TreeOf(f), ch)
      BY <3>1, <2>3, TreeAppend
    <3> QED
      BY <2>3, <3>2 DEF After
  <2>6. ch.add \in SUBSET Edits
    BY <2>3 DEF Changes
  <2>7. Adds(f) \subseteq Adds(d) /\ ch.add \subseteq Adds(d)
    BY <2>3 DEF Adds
  <2> QED
    BY <2>4, <2>5, <2>6, <2>7
<1>3. \A n \in Nat : TreeMade(n)
  BY <1>1, <1>2, NumbersWellOrdered, TreeInduction!Induct DEF TreeInduction!WellOrdered
<1> QED
  BY <1>3, CommitLen DEF TreeMade

LEMMA TreeNext ==
  ASSUME NEW c \in AllCommits, NEW ch \in Changes
  PROVE  TreeOf(Append(c, ch)) = (TreeOf(c) \union ch.add) \ ch.del
<1>1. c \in Seq(Changes)
  BY CommitLen
<1> QED
  BY <1>1, TreeAppend DEF After

LEMMA Greatest ==
  ASSUME NEW n \in Nat, NEW S \in SUBSET (0..n), S # {}
  PROVE  \E x \in S : \A y \in S : y <= x
<1> DEFINE D == {k \in Nat : n - k \in S}
<1>1. PICK x \in S : TRUE
  OBVIOUS
<1>2. n - x \in Nat /\ n - (n - x) = x
  BY <1>1
<1>3. n - x \in D
  BY <1>1, <1>2
<1>4. PICK k \in D : \A m \in D : k <= m
  <2> HIDE DEF D
  <2>1. D \in SUBSET Nat
    BY DEF D
  <2> QED
    BY <2>1, <1>3, LeastNumber
<1>5. \A y \in S : y <= n - k
  <2> TAKE y \in S
  <2>1. n - y \in Nat /\ n - (n - y) = y /\ y \in Nat
    OBVIOUS
  <2>2. n - y \in D
    BY <2>1
  <2> QED
    BY <1>4, <2>1, <2>2
<1> QED
  BY <1>4, <1>5

LEMMA AncestorIsPrefix ==
  ASSUME NEW c \in AllCommits, NEW d \in AllCommits, Ancestor(c, d)
  PROVE  /\ Len(c) \in 0..Len(d) /\ c = SubSeq(d, 1, Len(c))
         /\ ToSet(c) \subseteq ToSet(d) /\ Adds(c) \subseteq Adds(d)
<1>1. PICK n \in Nat : n = Len(c) /\ c \in Seq(Changes) /\ d \in Seq(Changes) /\ Len(d) \in Nat
  BY CommitLen
<1>2. n <= Len(d) /\ SubSeq(c, 1, n) = SubSeq(d, 1, n)
  BY <1>1 DEF Ancestor, IsPrefix
<1>3. SubSeq(c, 1, n) = c
  BY <1>1
<1>4. c = SubSeq(d, 1, n)
  BY <1>2, <1>3
<1>5. \A i \in 1..n : c[i] = d[i]
  BY <1>1, <1>2, <1>4
<1>6. ToSet(c) \subseteq ToSet(d)
  BY <1>1, <1>2, <1>5 DEF ToSet
<1>7. Adds(c) \subseteq Adds(d)
  BY <1>6 DEF Adds
<1> QED
  BY <1>1, <1>2, <1>4, <1>6, <1>7

LEMMA PrefixIsAncestor ==
  ASSUME NEW c \in AllCommits, NEW k \in 0..Len(c)
  PROVE  Ancestor(SubSeq(c, 1, k), c)
<1>1. PICK d \in AllCommits : d = SubSeq(c, 1, k) /\ Len(d) = k
  BY CommitPrefix
<1>2. c \in Seq(Changes) /\ d \in Seq(Changes) /\ Len(c) \in Nat
  BY CommitLen
<1>3. SubSeq(d, 1, k) = d
  BY <1>1, <1>2
<1>4. IsPrefix(d, c)
  BY <1>1, <1>2, <1>3 DEF IsPrefix
<1> QED
  BY <1>1, <1>4 DEF Ancestor

LEMMA AncestorOfItself ==
  ASSUME NEW c \in AllCommits
  PROVE  Ancestor(c, c)
<1>1. c \in Seq(Changes) /\ Len(c) \in Nat
  BY CommitLen
<1> QED
  BY <1>1 DEF Ancestor, IsPrefix

LEMMA AncestorOfNext ==
  ASSUME NEW c \in AllCommits, NEW d \in AllCommits, NEW e, d = Append(c, e)
  PROVE  Ancestor(c, d) /\ Front(d) = c /\ Last(d) = e /\ Len(d) = Len(c) + 1 /\ d # <<>>
<1>1. PICK n \in Nat : n = Len(c) /\ c \in Seq(Changes) /\ d \in Seq(Changes)
  BY CommitLen
<1>2. Len(d) = n + 1 /\ d[n + 1] = e /\ \A i \in 1..n : d[i] = c[i]
  BY <1>1
<1>3. SubSeq(d, 1, n) = c /\ SubSeq(c, 1, n) = c
  BY <1>1, <1>2
<1>4. n + 1 - 1 = n /\ d # <<>>
  BY <1>1, <1>2
<1> QED
  BY <1>1, <1>2, <1>3, <1>4 DEF Ancestor, IsPrefix, Front, Last

\* Where two commits part.
LEMMA CommonPrefix ==
  ASSUME NEW c \in AllCommits, NEW d \in AllCommits
  PROVE  /\ LongestCommonPrefix({c, d}) \in AllCommits
         /\ Ancestor(LongestCommonPrefix({c, d}), c) /\ Ancestor(LongestCommonPrefix({c, d}), d)
         /\ Parting(c, d) \in 0..Len(c) /\ Parting(c, d) <= Len(d)
         /\ Ancestor(c, d) => Parting(c, d) = Len(c)
<1>1. PICK n \in Nat : n = Len(c)
  BY CommitLen
<1>2. PICK S : S = {c, d}
  OBVIOUS
<1> DEFINE P == CommonPrefixes(S)
<1>3. \A x \in P : x \in AllCommits /\ Ancestor(x, c) /\ Ancestor(x, d)
  <2> SUFFICES ASSUME NEW x \in P
               PROVE  x \in AllCommits /\ Ancestor(x, c) /\ Ancestor(x, d)
    OBVIOUS
  <2>1. IsPrefix(x, c) /\ IsPrefix(x, d)
    BY <1>2 DEF CommonPrefixes
  <2>2. PICK y \in S : \E l \in 0..Len(y) : x = SubSeq(y, 1, l)
    BY DEF CommonPrefixes, Prefixes
  <2>3. x \in AllCommits
    BY <1>2, <2>2, CommitPrefix
  <2> QED
    BY <2>1, <2>3 DEF Ancestor
<1>4. \A x \in AllCommits : Ancestor(x, c) /\ Ancestor(x, d) => x \in P
  <2> SUFFICES ASSUME NEW x \in AllCommits, Ancestor(x, c), Ancestor(x, d)
               PROVE  x \in P
    OBVIOUS
  <2>1. PICK k \in 0..Len(c) : k = Len(x) /\ x = SubSeq(c, 1, k)
    BY AncestorIsPrefix
  <2>2. x \in UNION {Prefixes(seq) : seq \in S}
    BY <1>2, <2>1 DEF Prefixes
  <2>3. \A t \in S : IsPrefix(x, t)
    BY <1>2 DEF Ancestor
  <2> QED
    BY <2>2, <2>3 DEF CommonPrefixes
<1>5. <<>> \in P
  <2>1. \A e \in AllCommits : Ancestor(<<>>, e)
    <3> TAKE e \in AllCommits
    <3>1. Len(e) \in Nat /\ e \in Seq(Changes)
      BY CommitLen
    <3>2. SubSeq(e, 1, 0) = <<>>
      BY <3>1
    <3>3. 0 \in 0..Len(e)
      BY <3>1
    <3>4. Ancestor(SubSeq(e, 1, 0), e)
      BY <3>3, PrefixIsAncestor
    <3> QED
      BY <3>2, <3>4
  <2> QED
    BY <2>1, <1>4, EmptyCommit
<1> HIDE DEF P
<1> DEFINE Lens == {Len(x) : x \in P}
<1>6. Lens \in SUBSET (0..n) /\ Lens # {}
  <2>1. \A x \in P : Len(x) \in 0..n
    BY <1>1, <1>3, AncestorIsPrefix
  <2> QED
    BY <2>1, <1>5
<1>7. PICK k \in Lens : \A l \in Lens : l <= k
  <2> HIDE DEF Lens
  <2> QED
    BY <1>6, Greatest
<1>8. \E x \in P : \A y \in P : Len(y) <= Len(x)
  BY <1>7
<1> DEFINE L == LongestCommonPrefix(S)
<1>9. L \in P /\ \A y \in P : Len(y) <= Len(L)
  BY <1>8 DEF LongestCommonPrefix, P
<1> HIDE DEF L
<1>10. L \in AllCommits /\ Ancestor(L, c) /\ Ancestor(L, d)
  BY <1>3, <1>9
<1>11. Len(L) \in 0..Len(c) /\ Len(L) \in 0..Len(d)
  BY <1>10, AncestorIsPrefix
<1>12. Ancestor(c, d) => Len(L) = Len(c)
  <2> HAVE Ancestor(c, d)
  <2>1. c \in P
    BY <1>4, AncestorOfItself
  <2>2. Len(c) <= Len(L)
    BY <1>9, <2>1
  <2> QED
    BY <1>1, <1>11, <2>2
<1>13. L = LongestCommonPrefix({c, d}) /\ Parting(c, d) = Len(L)
  BY <1>2 DEF L, Parting
<1> QED
  BY <1>10, <1>11, <1>12, <1>13

LEMMA SeqSplit ==
  ASSUME NEW S, NEW n \in Nat, NEW s \in Seq(S), Len(s) = n + 1
  PROVE  \E r \in Seq(S), e \in S : s = Append(r, e) /\ Len(r) = n
<1>1. PICK r : r = SubSeq(s, 1, n)
  OBVIOUS
<1>2. r \in Seq(S) /\ Len(r) = n /\ \A i \in 1..n : r[i] = s[i]
  BY <1>1
<1>3. PICK e \in S : e = s[n + 1]
  OBVIOUS
<1>4. PICK q : q = Append(r, e)
  OBVIOUS
<1>5. q \in Seq(S) /\ Len(q) = n + 1 /\ q[n + 1] = e /\ \A i \in 1..n : q[i] = r[i]
  BY <1>2, <1>4
<1>6. \A i \in 1..(n + 1) : q[i] = s[i]
  <2> TAKE i \in 1..(n + 1)
  <2>1. i = n + 1 \/ i \in 1..n
    OBVIOUS
  <2> QED
    BY <2>1, <1>2, <1>3, <1>5
<1>7. q = s
  BY <1>5, <1>6
<1> QED
  BY <1>2, <1>4, <1>7

LEMMA FunctionIsSeq ==
  ASSUME NEW S, NEW n \in Nat, NEW w \in [1..n -> S]
  PROVE  w \in Seq(S) /\ Len(w) = n /\ DOMAIN w = 1..n
OBVIOUS

LEMMA SetOfAppend ==
  ASSUME NEW S, NEW r \in Seq(S), NEW e \in S
  PROVE  ToSet(Append(r, e)) = ToSet(r) \union {e}
<1>1. PICK n \in Nat : n = Len(r)
  OBVIOUS
<1>2. PICK s : s = Append(r, e)
  OBVIOUS
<1>3. /\ s \in Seq(S) /\ Len(s) = n + 1 /\ s[n + 1] = e /\ \A i \in 1..n : s[i] = r[i]
      /\ DOMAIN s = 1..(n + 1) /\ DOMAIN r = 1..n
  BY <1>1, <1>2
<1>4. \A i \in 1..(n + 1) : i = n + 1 \/ i \in 1..n
  OBVIOUS
<1>5. ToSet(s) = ToSet(r) \union {e}
  BY <1>3, <1>4 DEF ToSet
<1> QED
  BY <1>2, <1>5

LEMMA SeqMade ==
  ASSUME NEW S, NEW s \in Seq(S), NEW e \in S
  PROVE  <<e>> \in Seq(S) /\ <<e>> # <<>> /\ Append(s, e) \in Seq(S) /\ Append(s, e) # <<>>
<1>1. <<e>> \in Seq(S) /\ <<e>> # <<>> /\ Append(s, e) \in Seq(S)
  OBVIOUS
<1>2. Append(s, e) # <<>>
  <2>1. Len(Append(s, e)) = Len(s) + 1 /\ Len(s) \in Nat /\ Len(<<>>) = 0
    OBVIOUS
  <2> QED
    BY <2>1
<1> QED
  BY <1>1, <1>2

LEMMA SetOfEmpty == ToSet(<<>>) = {}
BY DEF ToSet

(***************************************************************************)
(* Changes made on top of a commit. What goes is what they take away.      *)
(***************************************************************************)
LEMMA OntoType ==
  ASSUME NEW t \in SUBSET Edits, NEW ch \in Changes
  PROVE  /\ Onto(t, ch) \in Changes
         /\ Onto(t, ch).add = ch.add \ t /\ Onto(t, ch).del = ch.del \intersect t
         /\ Onto(t, ch).subj = ch.subj
BY DEF Onto, Changes

LEMMA PickedCommit ==
  ASSUME NEW c \in AllCommits, NEW ch \in Changes
  PROVE  /\ Append(c, Onto(TreeOf(c), ch)) \in AllCommits
         /\ Append(c, Onto(TreeOf(c), ch)) # <<>>
         /\ TreeOf(c) \ ch.del \subseteq TreeOf(Append(c, Onto(TreeOf(c), ch)))
<1>1. PICK t \in SUBSET Edits : t = TreeOf(c)
  BY TreeType
<1>2. PICK o \in Changes : o = Onto(t, ch) /\ o.add = ch.add \ t /\ o.del = ch.del \intersect t
  BY OntoType
<1>3. Exact(TreeOf(c), o)
  BY <1>1, <1>2 DEF Exact
<1>4. Append(c, o) \in AllCommits
  BY <1>3, CommitAppend
<1>5. TreeOf(Append(c, o)) = (t \union o.add) \ o.del
  BY <1>1, TreeNext
<1>6. Append(c, o) # <<>>
  <2>1. PICK d \in AllCommits : d = Append(c, o)
    BY <1>4
  <2> QED
    BY <2>1, AncestorOfNext
<1> QED
  BY <1>1, <1>2, <1>4, <1>5, <1>6

LEMMA MergedCommit ==
  ASSUME NEW c \in AllCommits, c # <<>>, NEW ch \in Changes
  PROVE  /\ Append(Front(c), Merged(c, ch)) \in AllCommits
         /\ Append(Front(c), Merged(c, ch)) # <<>>
         /\ TreeOf(c) \ ch.del \subseteq TreeOf(Append(Front(c), Merged(c, ch)))
<1>1. PICK f \in AllCommits, l \in Changes : f = Front(c) /\ l = Last(c)
  BY CommitLast
<1>2. PICK t \in SUBSET Edits, b \in SUBSET Edits : t = TreeOf(c) /\ b = TreeOf(f)
  BY TreeType
<1>3. PICK a \in SUBSET Edits : a = (t \union ch.add) \ ch.del
  BY DEF Changes
<1>4. PICK m : m = [l EXCEPT !.add = a \ b, !.del = b \ a]
  OBVIOUS
<1>5. m = Merged(c, ch)
  BY <1>1, <1>2, <1>3, <1>4 DEF Merged, After
<1>6. m \in Changes /\ m.add = a \ b /\ m.del = b \ a
  BY <1>4 DEF Changes
<1>7. Exact(TreeOf(f), m)
  BY <1>2, <1>6 DEF Exact
<1>8. Append(f, m) \in AllCommits
  BY <1>6, <1>7, CommitAppend
<1>9. TreeOf(Append(f, m)) = (b \union m.add) \ m.del
  BY <1>2, <1>6, TreeNext
<1>10. Append(f, m) # <<>>
  <2>1. PICK d \in AllCommits : d = Append(f, m)
    BY <1>8
  <2> QED
    BY <2>1, AncestorOfNext
<1>11. TreeOf(c) \ ch.del \subseteq (b \union m.add) \ m.del
  BY <1>2, <1>3, <1>6
<1> QED
  BY <1>1, <1>5, <1>8, <1>9, <1>10, <1>11

LEMMA Relabelled ==
  ASSUME NEW c \in AllCommits, c # <<>>, NEW l \in Changes,
         l.add = Last(c).add, l.del = Last(c).del
  PROVE  /\ Append(Front(c), l) \in AllCommits /\ Append(Front(c), l) # <<>>
         /\ TreeOf(Append(Front(c), l)) = TreeOf(c)
<1>1. PICK f \in AllCommits, k \in Changes :
          f = Front(c) /\ k = Last(c) /\ Exact(TreeOf(f), k) /\ c = Append(f, k)
  BY CommitLast DEF Exact
<1>2. Exact(TreeOf(f), l)
  BY <1>1 DEF Exact
<1>3. Append(f, l) \in AllCommits
  BY <1>2, CommitAppend
<1>4. TreeOf(Append(f, l)) = (TreeOf(f) \union l.add) \ l.del
  BY TreeNext
<1>5. TreeOf(Append(f, k)) = (TreeOf(f) \union k.add) \ k.del
  BY TreeNext
<1>6. Append(f, l) # <<>>
  <2>1. PICK d \in AllCommits : d = Append(f, l)
    BY <1>3
  <2> QED
    BY <2>1, AncestorOfNext
<1> QED
  BY <1>1, <1>3, <1>4, <1>5, <1>6

\* The commit of what is in the index, on top of c.
LEMMA IndexCommit ==
  ASSUME NEW c \in AllCommits, NEW x \in SUBSET Edits, NEW l \in Changes,
         l.add = x \ TreeOf(c), l.del = TreeOf(c) \ x
  PROVE  /\ Append(c, l) \in AllCommits /\ Append(c, l) # <<>>
         /\ TreeOf(Append(c, l)) = x
<1>1. PICK t \in SUBSET Edits : t = TreeOf(c)
  BY TreeType
<1>2. Exact(TreeOf(c), l)
  BY DEF Exact
<1>3. Append(c, l) \in AllCommits
  BY <1>2, CommitAppend
<1>4. TreeOf(Append(c, l)) = (t \union l.add) \ l.del
  BY <1>1, TreeNext
<1>5. Append(c, l) # <<>>
  <2>1. PICK d \in AllCommits : d = Append(c, l)
    BY <1>3
  <2> QED
    BY <2>1, AncestorOfNext
<1>6. (t \union l.add) \ l.del = x
  BY <1>1
<1> QED
  BY <1>3, <1>4, <1>5, <1>6

(***************************************************************************)
(* Running the items of a rebase.                                          *)
(***************************************************************************)
Runs == [head : AllCommits, todo : Seq(Items), stop : {"none", "edit", "conflict", "empty"}]

\* A run has stopped for an item, or has nothing left.
Halted(a) ==
    /\ a.stop = "none" => a.todo = <<>>
    /\ a.stop \in {"conflict", "empty"} => a.todo # <<>>

LEMMA ItemParts ==
  ASSUME NEW it \in Items
  PROVE  /\ it.of \in AllCommits /\ it.of # <<>> /\ Last(it.of) \in Changes
         /\ Last(it.of).del \subseteq Adds(it.of)
<1>1. it.of \in AllCommits /\ it.of # <<>>
  BY DEF Items
<1>2. PICK c \in AllCommits : c = it.of /\ c # <<>>
  BY <1>1
<1>3. /\ Front(c) \in AllCommits /\ Last(c) \in Changes /\ Last(c).del \subseteq TreeOf(Front(c))
      /\ ToSet(Front(c)) \subseteq ToSet(c)
  BY <1>2, CommitLast
<1>4. PICK f \in AllCommits : f = Front(c)
  BY <1>3
<1>5. TreeOf(f) \subseteq Adds(f)
  BY TreeType
<1>6. Adds(f) \subseteq Adds(c)
  BY <1>3, <1>4 DEF Adds
<1> QED
  BY <1>1, <1>2, <1>3, <1>4, <1>5, <1>6

LEMMA StopMade ==
  ASSUME NEW a \in Runs, NEW it \in Items, NEW why \in {"conflict", "empty"}
  PROVE  /\ Stop(a, it, why) \in Runs /\ Stop(a, it, why).head = a.head
         /\ Stop(a, it, why).stop = why /\ Stop(a, it, why).todo = <<it>>
<1>1. PICK t \in Seq(Items) : t = <<it>>
  <2>1. <<it>> \in Seq(Items)
    OBVIOUS
  <2> QED
    BY <2>1
<1> QED
  BY <1>1 DEF Stop, Runs

LEMMA ItemMade ==
  ASSUME NEW a \in Runs, Halted(a), NEW it \in Items
  PROVE  /\ Item(a, it) \in Runs /\ Halted(Item(a, it))
         /\ Item(a, it).todo = Append(a.todo, it) \/ Item(a, it).todo = <<it>>
            \/ Item(a, it).todo = a.todo
         /\ TreeOf(a.head) \subseteq TreeOf(Item(a, it).head) \union Last(it.of).del
         /\ a.stop # "none" \/ it.verb = "edit" => Item(a, it).stop # "none"
<1>1. PICK h \in AllCommits, ch \in Changes : h = a.head /\ ch = Last(it.of)
  BY ItemParts DEF Runs
<1>2. PICK t \in SUBSET Edits : t = TreeOf(h)
  BY TreeType
<1>3. PICK p \in AllCommits :
          p = Append(h, Onto(t, ch)) /\ p # <<>> /\ t \ ch.del \subseteq TreeOf(p)
  BY <1>2, PickedCommit
<1>4. PICK r : r = Item(a, it)
  OBVIOUS
<1>5. r = IF a.stop # "none" THEN [a EXCEPT !.todo = Append(@, it)]
          ELSE IF it.verb = "drop" THEN a
          ELSE IF Conflicts(t, ch) THEN Stop(a, it, "conflict")
          ELSE IF it.verb \in {"squash", "fixup"} /\ a.head # <<>>
               THEN [a EXCEPT !.head = Append(Front(@), Merged(@, ch))]
          ELSE IF ~Empty(ch) /\ Empty(Onto(t, ch))
               THEN IF it.verb = "apply" THEN a ELSE Stop(a, it, "empty")
          ELSE IF it.verb = "reword"
               THEN [a EXCEPT !.head = Append(@, [Last(p) EXCEPT !.subj = "reworded"])]
          ELSE IF it.verb = "edit" THEN [a EXCEPT !.head = p, !.stop = "edit"]
          ELSE [a EXCEPT !.head = p]
  BY <1>1, <1>2, <1>3, <1>4, Zenon DEF Item
<1>6. t \in SUBSET Edits /\ TreeOf(a.head) = t /\ Last(it.of) = ch
  BY <1>1, <1>2
<1>7. SUFFICES /\ r \in Runs /\ Halted(r)
               /\ r.todo = Append(a.todo, it) \/ r.todo = <<it>> \/ r.todo = a.todo
               /\ t \subseteq TreeOf(r.head) \union ch.del
               /\ a.stop # "none" \/ it.verb = "edit" => r.stop # "none"
  BY <1>4, <1>6
<1>8. CASE a.stop # "none"
  <2>1. r = [a EXCEPT !.todo = Append(@, it)]
    BY <1>5, <1>8
  <2>2. PICK q \in Seq(Items) : q = Append(a.todo, it) /\ q # <<>>
    <3>1. a.todo \in Seq(Items)
      BY DEF Runs
    <3>2. Append(a.todo, it) \in Seq(Items) /\ Append(a.todo, it) # <<>>
      BY <3>1, SeqMade
    <3> QED
      BY <3>2
  <2>3. r \in Runs /\ r.todo = q /\ r.head = h /\ r.stop = a.stop
    BY <2>1, <2>2, <1>1 DEF Runs
  <2> QED
    BY <2>2, <2>3, <1>2, <1>8 DEF Halted
<1>9. CASE a.stop = "none" /\ r = a /\ it.verb # "edit"
  BY <1>9, <1>6
<1>10. CASE a.stop = "none" /\ \E why \in {"conflict", "empty"} : r = Stop(a, it, why)
  <2>1. PICK why \in {"conflict", "empty"} : r = Stop(a, it, why)
    BY <1>10
  <2>2. r \in Runs /\ r.head = a.head /\ r.stop = why /\ r.todo = <<it>>
    BY <2>1, StopMade
  <2>3. <<it>> # <<>>
    OBVIOUS
  <2> QED
    BY <2>2, <2>3, <1>6 DEF Halted
<1>11. CASE /\ a.stop = "none" /\ it.verb # "edit"
            /\ \E c \in AllCommits : r = [a EXCEPT !.head = c] /\ t \ ch.del \subseteq TreeOf(c)
  <2>1. PICK c \in AllCommits : r = [a EXCEPT !.head = c] /\ t \ ch.del \subseteq TreeOf(c)
    BY <1>11
  <2>2. r \in Runs /\ r.head = c /\ r.todo = a.todo /\ r.stop = a.stop
    BY <2>1 DEF Runs
  <2> QED
    BY <2>1, <2>2, <1>11 DEF Halted
<1>12. CASE a.stop = "none" /\ r = [a EXCEPT !.head = p, !.stop = "edit"]
  <2>1. r \in Runs /\ r.head = p /\ r.todo = a.todo /\ r.stop = "edit"
    BY <1>12 DEF Runs
  <2> QED
    BY <2>1, <1>3 DEF Halted
<1>13. CASE /\ a.stop = "none" /\ it.verb \in {"squash", "fixup"} /\ a.head # <<>>
            /\ r = [a EXCEPT !.head = Append(Front(@), Merged(@, ch))]
  <2>1. PICK c \in AllCommits : c = Append(Front(h), Merged(h, ch)) /\ t \ ch.del \subseteq TreeOf(c)
    BY <1>1, <1>2, <1>13, MergedCommit
  <2>2. r = [a EXCEPT !.head = c]
    BY <2>1, <1>1, <1>13
  <2>3. it.verb # "edit"
    BY <1>13
  <2> QED
    BY <2>1, <2>2, <2>3, <1>11, <1>13
<1>14. CASE /\ a.stop = "none" /\ it.verb = "reword"
            /\ r = [a EXCEPT !.head = Append(@, [Last(p) EXCEPT !.subj = "reworded"])]
  <2>1. PICK o \in Changes : o = Onto(t, ch) /\ o.del = ch.del \intersect t
    BY <1>2, OntoType
  <2>2. p = Append(h, o)
    BY <1>3, <2>1
  <2>3. Front(p) = h /\ Last(p) = o
    BY <2>2, AncestorOfNext
  <2>4. PICK l : l = [o EXCEPT !.subj = "reworded"]
    OBVIOUS
  <2>5. l \in Changes /\ l.add = o.add /\ l.del = o.del
    BY <2>4, SubjectsAssumption DEF Changes
  <2>6. PICK c \in AllCommits : c = Append(h, l) /\ TreeOf(c) = TreeOf(p)
    BY <2>3, <2>5, <1>3, Relabelled
  <2>7. r = [a EXCEPT !.head = c]
    BY <2>3, <2>4, <2>6, <1>1, <1>14
  <2> QED
    BY <2>6, <2>7, <1>3, <1>11, <1>14
<1> QED
  BY <1>3, <1>5, <1>8, <1>9, <1>10, <1>11, <1>12, <1>13, <1>14

\* What is in the commit a run starts from is in the one it ends at, or the items
\* take it away.
Rebases(n) ==
    \A from \in AllCommits, todo \in Seq(Items) : Len(todo) = n =>
        /\ Ran(from, todo) \in Runs /\ Halted(Ran(from, todo))
        /\ ToSet(Ran(from, todo).todo) \subseteq ToSet(todo)
        /\ TreeOf(from) \subseteq
               TreeOf(Ran(from, todo).head) \union UNION {Last(it.of).del : it \in ToSet(todo)}
        /\ (\E it \in ToSet(todo) : it.verb = "edit") => Ran(from, todo).stop # "none"

RebaseInduction == INSTANCE Induction WITH P <- Rebases, Op <- Item

LEMMA RunMade ==
  ASSUME NEW from \in AllCommits, NEW todo \in Seq(Items)
  PROVE  /\ Ran(from, todo) \in Runs /\ Halted(Ran(from, todo))
         /\ ToSet(Ran(from, todo).todo) \subseteq ToSet(todo)
         /\ TreeOf(from) \subseteq
               TreeOf(Ran(from, todo).head) \union UNION {Last(it.of).del : it \in ToSet(todo)}
         /\ (\E it \in ToSet(todo) : it.verb = "edit") => Ran(from, todo).stop # "none"
<1>1. Rebases(0)
  <2> SUFFICES ASSUME NEW f \in AllCommits, NEW s \in Seq(Items), Len(s) = 0
               PROVE  /\ Ran(f, s) \in Runs /\ Halted(Ran(f, s))
                      /\ ToSet(Ran(f, s).todo) \subseteq ToSet(s)
                      /\ TreeOf(f) \subseteq
                             TreeOf(Ran(f, s).head) \union UNION {Last(it.of).del : it \in ToSet(s)}
                      /\ (\E it \in ToSet(s) : it.verb = "edit") => Ran(f, s).stop # "none"
    BY DEF Rebases
  <2>1. s = <<>> /\ ToSet(<<>>) = {}
    BY SetOfEmpty
  <2>2. PICK r : r = [head |-> f, todo |-> <<>>, stop |-> "none"]
    OBVIOUS
  <2>3. Ran(f, s) = r
    BY <2>1, <2>2, RanEmpty
  <2>4. r \in Runs /\ Halted(r) /\ r.head = f /\ r.todo = <<>>
    BY <2>2 DEF Runs, Halted
  <2> QED
    BY <2>1, <2>3, <2>4
<1>2. \A n \in Nat : Rebases(n) => Rebases(n + 1)
  <2> SUFFICES ASSUME NEW n \in Nat, Rebases(n),
                      NEW f \in AllCommits, NEW s \in Seq(Items), Len(s) = n + 1
               PROVE  /\ Ran(f, s) \in Runs /\ Halted(Ran(f, s))
                      /\ ToSet(Ran(f, s).todo) \subseteq ToSet(s)
                      /\ TreeOf(f) \subseteq
                             TreeOf(Ran(f, s).head) \union UNION {Last(it.of).del : it \in ToSet(s)}
                      /\ (\E it \in ToSet(s) : it.verb = "edit") => Ran(f, s).stop # "none"
    BY DEF Rebases
  <2>1. PICK q \in Seq(Items), e \in Items : s = Append(q, e) /\ Len(q) = n
    BY SeqSplit
  <2>2. ToSet(s) = ToSet(q) \union {e}
    BY <2>1, SetOfAppend
  <2>3. PICK a : a = Ran(f, q)
    OBVIOUS
  <2>4. /\ a \in Runs /\ Halted(a) /\ ToSet(a.todo) \subseteq ToSet(q)
        /\ TreeOf(f) \subseteq TreeOf(a.head) \union UNION {Last(it.of).del : it \in ToSet(q)}
        /\ (\E it \in ToSet(q) : it.verb = "edit") => a.stop # "none"
    BY <2>1, <2>3 DEF Rebases
  <2>5. PICK r : r = Item(a, e) /\ Ran(f, s) = r
    BY <2>1, <2>3, RanAppend
  <2>6. /\ r \in Runs /\ Halted(r)
        /\ r.todo = Append(a.todo, e) \/ r.todo = <<e>> \/ r.todo = a.todo
        /\ TreeOf(a.head) \subseteq TreeOf(r.head) \union Last(e.of).del
        /\ a.stop # "none" \/ e.verb = "edit" => r.stop # "none"
    BY <2>4, <2>5, ItemMade
  <2>7. ToSet(r.todo) \subseteq ToSet(s)
    <3>1. a.todo \in Seq(Items)
      BY <2>4 DEF Runs
    <3>2. ToSet(Append(a.todo, e)) = ToSet(a.todo) \union {e}
      BY <3>1, SetOfAppend
    <3>3. ToSet(<<e>>) = {e}
      BY DEF ToSet
    <3> QED
      BY <3>2, <3>3, <2>2, <2>4, <2>6
  <2>8. TreeOf(f) \subseteq TreeOf(r.head) \union UNION {Last(it.of).del : it \in ToSet(s)}
    <3>1. UNION {Last(it.of).del : it \in ToSet(q)} \subseteq UNION {Last(it.of).del : it \in ToSet(s)}
      BY <2>2
    <3>2. Last(e.of).del \subseteq UNION {Last(it.of).del : it \in ToSet(s)}
      BY <2>2
    <3> QED
      BY <3>1, <3>2, <2>4, <2>6
  <2>9. (\E it \in ToSet(s) : it.verb = "edit") => r.stop # "none"
    BY <2>2, <2>4, <2>6
  <2> QED
    BY <2>5, <2>6, <2>7, <2>8, <2>9
<1>3. \A n \in Nat : Rebases(n)
  BY <1>1, <1>2, NumbersWellOrdered, RebaseInduction!Induct DEF RebaseInduction!WellOrdered
<1>4. Len(todo) \in Nat
  OBVIOUS
<1>5. Rebases(Len(todo))
  BY <1>3, <1>4
<1> QED
  BY <1>5 DEF Rebases

(***************************************************************************)
(* Repositories, what they are made of and what can be found in them.      *)
(***************************************************************************)
Shapes ==
    [head : AllCommits, on : Branches \union {"none"}, branch : [Branches -> AllCommits],
     index : SUBSET Edits, tree : SUBSET Edits, reflog : Seq(AllCommits),
     op : Operations, bisect : Bisections]

Rooted(g) ==
    /\ g.on \in Branches => g.branch[g.on] = g.head
    /\ g.head \in ToSet(g.reflog)
    /\ g.bisect.active \/ g.bisect = NoBisect

FromLog(todo, log) == \A it \in ToSet(todo) : \E c \in ToSet(log) : Ancestor(it.of, c)

Held(op, log) ==
    /\ op.stop = "none" <=> op = NoOp
    /\ op.stop \in {"conflict", "empty", "resolved"} => op.todo # <<>>
    /\ op.kind \in {"pick", "revert"} => op.stop = "conflict"
    /\ op.kind = "rebase" => op.orig \in ToSet(log) /\ FromLog(op.todo, log)

LEMMA RepoParts ==
  ASSUME NEW g
  PROVE  g \in Repositories <=> g \in Shapes /\ Rooted(g) /\ Held(g.op, g.reflog)
BY DEF Repositories, Shapes, Rooted, Held, FromLog

\* What the commits HEAD and the branches have been at add.
Recorded(g) == UNION {Adds(c) : c \in ToSet(g.reflog) \union Range(g.branch)}

LEMMA KeptParts ==
  ASSUME NEW g
  PROVE  Kept(g) = Recorded(g) \union g.index \union g.tree
<1>1. PICK S : S = ToSet(g.reflog) \union Range(g.branch)
  OBVIOUS
<1> DEFINE R == UNION {ch.add : ch \in UNION {ToSet(c) : c \in S}}
<1>2. R \subseteq Recorded(g)
  <2> SUFFICES ASSUME NEW c \in S, NEW ch \in ToSet(c), NEW e \in ch.add
               PROVE  e \in Recorded(g)
    OBVIOUS
  <2>1. e \in Adds(c)
    BY DEF Adds
  <2> QED
    BY <1>1, <2>1 DEF Recorded
<1>3. Recorded(g) \subseteq R
  <2> SUFFICES ASSUME NEW c \in S, NEW ch \in ToSet(c), NEW e \in ch.add
               PROVE  e \in R
    BY <1>1 DEF Recorded, Adds
  <2>1. ch \in UNION {ToSet(d) : d \in S}
    OBVIOUS
  <2> QED
    BY <2>1
<1>4. Kept(g) = R \union g.index \union g.tree
  BY <1>1, Zenon DEF Kept
<1> QED
  BY <1>2, <1>3, <1>4

LEMMA RecordedParts ==
  ASSUME NEW g \in Shapes
  PROVE  /\ \A c \in ToSet(g.reflog) : Adds(c) \subseteq Recorded(g)
         /\ \A b \in Branches : Adds(g.branch[b]) \subseteq Recorded(g)
<1>1. \A b \in Branches : g.branch[b] \in Range(g.branch)
  BY DEF Shapes, Range
<1> QED
  BY <1>1 DEF Recorded

\* What grows: the reflog, and with it what is recorded.
Grows(g, m) ==
    /\ ToSet(g.reflog) \subseteq ToSet(m.reflog) /\ Len(g.reflog) <= Len(m.reflog)
    /\ Recorded(g) \subseteq Recorded(m)

LEMMA GrowsOn ==
  ASSUME NEW g, NEW m, NEW n, g.reflog \in Seq(AllCommits), m.reflog \in Seq(AllCommits),
         n.reflog \in Seq(AllCommits), Grows(g, m), Grows(m, n)
  PROVE  Grows(g, n)
<1>1. Len(g.reflog) \in Nat /\ Len(m.reflog) \in Nat /\ Len(n.reflog) \in Nat
  OBVIOUS
<1>2. Len(g.reflog) <= Len(n.reflog)
  BY <1>1 DEF Grows
<1> QED
  BY <1>2 DEF Grows

LEMMA GrowsSame ==
  ASSUME NEW g, NEW m, g.reflog \in Seq(AllCommits), m.reflog = g.reflog, m.branch = g.branch
  PROVE  Grows(g, m) /\ Recorded(m) = Recorded(g)
<1>1. Len(g.reflog) <= Len(g.reflog)
  OBVIOUS
<1>2. Recorded(m) = Recorded(g)
  BY DEF Recorded
<1> QED
  BY <1>1, <1>2 DEF Grows

LEMMA LogPushed ==
  ASSUME NEW S, NEW s \in Seq(S), NEW e \in S
  PROVE  /\ <<e>> \o s \in Seq(S) /\ Len(<<e>> \o s) = Len(s) + 1
         /\ ToSet(<<e>> \o s) = ToSet(s) \union {e}
<1>1. PICK n \in Nat : n = Len(s)
  OBVIOUS
<1>2. PICK t : t = <<e>> \o s
  OBVIOUS
<1>3. /\ t \in Seq(S) /\ Len(t) = n + 1 /\ t[1] = e /\ \A i \in 1..n : t[i + 1] = s[i]
      /\ DOMAIN t = 1..(n + 1) /\ DOMAIN s = 1..n
  BY <1>1, <1>2
<1>4. \A i \in 1..(n + 1) : i = 1 \/ (i - 1 \in 1..n /\ (i - 1) + 1 = i)
  OBVIOUS
<1>5. ToSet(t) \subseteq ToSet(s) \union {e}
  <2> SUFFICES ASSUME NEW i \in 1..(n + 1)
               PROVE  t[i] \in ToSet(s) \union {e}
    BY <1>3 DEF ToSet
  <2>1. CASE i = 1
    BY <2>1, <1>3
  <2>2. CASE i # 1
    <3>1. PICK j \in 1..n : j + 1 = i
      BY <2>2, <1>4
    <3>2. t[i] = s[j]
      BY <3>1, <1>3
    <3> QED
      BY <3>2, <1>3 DEF ToSet
  <2> QED
    BY <2>1, <2>2
<1>6. e \in ToSet(t) /\ ToSet(s) \subseteq ToSet(t)
  <2>1. 1 \in 1..(n + 1) /\ \A i \in 1..n : i + 1 \in 1..(n + 1)
    OBVIOUS
  <2> QED
    BY <2>1, <1>3 DEF ToSet
<1> QED
  BY <1>1, <1>2, <1>3, <1>5, <1>6

\* HEAD is somewhere else, and nothing that was recorded is forgotten.
IsMoved(g, m, c) ==
    /\ m \in Shapes /\ m.head = c /\ m.on = g.on /\ m.op = g.op /\ m.bisect = g.bisect
    /\ m.on \in Branches => m.branch[m.on] = m.head
    /\ \A b \in Branches : b # g.on => m.branch[b] = g.branch[b]
    /\ c \in ToSet(m.reflog) /\ Adds(c) \subseteq Recorded(m) /\ Grows(g, m)

LEMMA MovedMade ==
  ASSUME NEW g \in Shapes, NEW c \in AllCommits,
         g.on \in Branches => g.branch[g.on] \in ToSet(g.reflog) \union {c}
  PROVE  IsMoved(g, Moved(g, c), c) /\ Moved(g, c).index = g.index /\ Moved(g, c).tree = g.tree
<1>1. PICK m : m = Moved(g, c)
  OBVIOUS
<1>2. PICK log : log = <<c>> \o g.reflog
  OBVIOUS
<1>3. PICK br : br = [b \in Branches |-> IF b = g.on THEN c ELSE g.branch[b]]
  OBVIOUS
<1>4. log \in Seq(AllCommits) /\ Len(log) = Len(g.reflog) + 1 /\ ToSet(log) = ToSet(g.reflog) \union {c}
  BY <1>2, LogPushed DEF Shapes
<1>5. br \in [Branches -> AllCommits]
  BY <1>3 DEF Shapes
<1>6. m = [g EXCEPT !.head = c, !.reflog = log, !.branch = br]
  BY <1>1, <1>2, <1>3, Zenon DEF Moved
<1>7. /\ m \in Shapes /\ m.head = c /\ m.on = g.on /\ m.op = g.op /\ m.bisect = g.bisect
      /\ m.branch = br /\ m.reflog = log /\ m.index = g.index /\ m.tree = g.tree
  BY <1>4, <1>5, <1>6 DEF Shapes
<1>8. m.on \in Branches => m.branch[m.on] = m.head
  BY <1>3, <1>7
<1>9. \A b \in Branches : b # g.on => m.branch[b] = g.branch[b]
  BY <1>3, <1>7
<1>10. Adds(c) \subseteq Recorded(m)
  BY <1>4, <1>7, RecordedParts
<1>11. Grows(g, m)
  <2>1. Len(g.reflog) <= Len(m.reflog)
    <3>1. Len(g.reflog) \in Nat
      BY DEF Shapes
    <3> QED
      BY <3>1, <1>4, <1>7
  <2>2. ToSet(g.reflog) \subseteq ToSet(m.reflog)
    BY <1>4, <1>7
  <2>3. ASSUME NEW d \in ToSet(g.reflog) \union Range(g.branch)
        PROVE  Adds(d) \subseteq Recorded(m)
    <3>1. CASE d \in ToSet(m.reflog)
      BY <3>1, <1>7, RecordedParts
    <3>2. CASE d \notin ToSet(m.reflog)
      <4>1. PICK b \in Branches : d = g.branch[b]
        BY <3>2, <2>2 DEF Range, Shapes
      <4>2. b # g.on
        BY <3>2, <4>1, <1>4, <1>7
      <4>3. d = m.branch[b]
        BY <4>1, <4>2, <1>9
      <4> QED
        BY <4>3, <1>7, RecordedParts
    <3> QED
      BY <3>1, <3>2
  <2>4. Recorded(g) \subseteq Recorded(m)
    BY <2>3 DEF Recorded
  <2> QED
    BY <2>1, <2>2, <2>4 DEF Grows
<1> QED
  BY <1>1, <1>4, <1>7, <1>8, <1>9, <1>10, <1>11 DEF IsMoved

\* The same when the index and the tree go with it.
LEMMA MovedWith ==
  ASSUME NEW g \in Shapes, NEW c \in AllCommits, NEW m, IsMoved(g, m, c), NEW n \in Shapes,
         n.head = m.head, n.on = m.on, n.op = m.op, n.bisect = m.bisect,
         n.branch = m.branch, n.reflog = m.reflog
  PROVE  IsMoved(g, n, c)
<1>1. Recorded(n) = Recorded(m)
  BY DEF Recorded
<1>2. Grows(g, n)
  BY <1>1 DEF IsMoved, Grows
<1> QED
  BY <1>1, <1>2 DEF IsMoved

LEMMA AtMade ==
  ASSUME NEW g \in Shapes, NEW c \in AllCommits,
         g.on \in Branches => g.branch[g.on] \in ToSet(g.reflog) \union {c}
  PROVE  IsMoved(g, At(g, c), c) /\ At(g, c).index = TreeOf(c) /\ At(g, c).tree = TreeOf(c)
<1>1. PICK t \in SUBSET Edits : t = TreeOf(c)
  BY TreeType
<1>2. PICK m : m = Moved(g, c)
  OBVIOUS
<1>3. IsMoved(g, m, c)
  BY <1>2, MovedMade
<1>4. PICK n : n = [m EXCEPT !.index = t, !.tree = t]
  OBVIOUS
<1>5. /\ n \in Shapes /\ n.index = t /\ n.tree = t /\ n.head = m.head /\ n.on = m.on
      /\ n.op = m.op /\ n.bisect = m.bisect /\ n.branch = m.branch /\ n.reflog = m.reflog
  BY <1>3, <1>4 DEF IsMoved, Shapes
<1>6. IsMoved(g, n, c)
  BY <1>3, <1>5, MovedWith
<1>7. At(g, c) = n
  BY <1>1, <1>2, <1>4 DEF At
<1> QED
  BY <1>1, <1>5, <1>6, <1>7

(***************************************************************************)
(* What a process leaves: a repository in which nothing recorded is        *)
(* forgotten; all that could be found before can be found in it; and where *)
(* it is left when the process does not succeed.                           *)
(***************************************************************************)
Fine(g, r) == r.g \in Repositories /\ r.ok \in BOOLEAN /\ Grows(g, r.g)

Saves(g, r) == Kept(g) \subseteq Kept(r.g)

\* In the middle of the same rebase.
Carries(g, v) ==
    /\ v.op.kind = "rebase" /\ v.op.stop # "none" /\ v.op.orig = g.op.orig /\ v.op.on = g.op.on
    /\ v.on = g.on /\ \A b \in Branches : b # g.on => v.branch[b] = g.branch[b]

\* In the middle of a rebase of HEAD.
Begun(g, v) ==
    /\ v.op.kind = "rebase" /\ v.op.stop # "none" /\ v.op.orig = g.head /\ v.op.on = g.on
    /\ v.on = "none" /\ v.branch = g.branch

Unmoved(g, v) == v.head = g.head /\ v.on = g.on /\ v.branch = g.branch

Rebasing(g) == Rooted(g) /\ g.op.kind = "rebase" /\ g.op.orig \in ToSet(g.reflog)

LEMMA FromLogGrows ==
  ASSUME NEW todo, NEW more, NEW g, NEW m, ToSet(todo) \subseteq ToSet(more),
         ToSet(g.reflog) \subseteq ToSet(m.reflog), FromLog(more, g.reflog)
  PROVE  FromLog(todo, m.reflog)
BY DEF FromLog

LEMMA StoppedMade ==
  ASSUME NEW g \in Shapes, Rebasing(g), NEW done \in Runs, Halted(done), done.stop # "none",
         FromLog(done.todo, g.reflog), NEW r, r = Stopped(g, done)
  PROVE  /\ Fine(g, r) /\ Carries(g, r.g)
         /\ r.g.index = TreeOf(done.head) /\ r.g.tree = TreeOf(done.head)
<1>1. PICK c \in AllCommits : c = done.head
  BY DEF Runs
<1>2. g.on \in Branches => g.branch[g.on] \in ToSet(g.reflog)
  BY DEF Rebasing, Rooted
<1>3. PICK a : a = At(g, c)
  OBVIOUS
<1>4. IsMoved(g, a, c) /\ a.index = TreeOf(c) /\ a.tree = TreeOf(c)
  BY <1>2, <1>3, AtMade
<1>5. PICK v : v = [a EXCEPT !.op.todo = done.todo, !.op.stop = done.stop, !.op.at = c]
  OBVIOUS
<1>6. r = [g |-> v, ok |-> done.stop = "edit"]
  BY <1>1, <1>3, <1>5 DEF Stopped
<1>7. a \in Shapes /\ done.todo \in Seq(Items) /\ done.stop \in {"edit", "conflict", "empty"}
  BY <1>4 DEF IsMoved, Runs
<1>8. /\ v \in Shapes /\ v.head = a.head /\ v.on = a.on /\ v.branch = a.branch /\ v.index = a.index
      /\ v.tree = a.tree /\ v.reflog = a.reflog /\ v.bisect = a.bisect
      /\ v.op.kind = a.op.kind /\ v.op.orig = a.op.orig /\ v.op.on = a.op.on
      /\ v.op.todo = done.todo /\ v.op.stop = done.stop
  <2>1. PICK t \in Seq(Items), s \in {"edit", "conflict", "empty"} : t = done.todo /\ s = done.stop
    BY <1>7
  <2>2. v = [a EXCEPT !.op.todo = t, !.op.stop = s, !.op.at = c]
    BY <1>5, <2>1
  <2>3. /\ v \in Shapes /\ v.head = a.head /\ v.on = a.on /\ v.branch = a.branch /\ v.index = a.index
        /\ v.tree = a.tree /\ v.reflog = a.reflog /\ v.bisect = a.bisect
        /\ v.op.kind = a.op.kind /\ v.op.orig = a.op.orig /\ v.op.on = a.op.on
        /\ v.op.todo = t /\ v.op.stop = s
    <3>1. PICK o : o = [a.op EXCEPT !.todo = t, !.stop = s, !.at = c]
      OBVIOUS
    <3>2. a.op \in Operations
      BY <1>7 DEF Shapes
    <3>3. /\ o \in Operations /\ o.kind = a.op.kind /\ o.orig = a.op.orig /\ o.on = a.op.on
          /\ o.todo = t /\ o.stop = s
      BY <3>1, <3>2 DEF Operations
    <3>4. v = [a EXCEPT !.op = o]
      BY <2>2, <3>1, <3>2, <1>7 DEF Shapes, Operations
    <3> QED
      BY <3>3, <3>4, <1>7 DEF Shapes
  <2> QED
    BY <2>1, <2>3
<1>9. Grows(g, v)
  <2>1. Recorded(v) = Recorded(a)
    BY <1>8 DEF Recorded
  <2> QED
    BY <2>1, <1>4, <1>8 DEF IsMoved, Grows
<1>10. Rooted(v)
  BY <1>4, <1>8 DEF IsMoved, Rooted, Rebasing
<1>11. Held(v.op, v.reflog)
  <2>1. v.op # NoOp /\ v.op.stop # "none"
    BY <1>7, <1>8 DEF NoOp
  <2>2. FromLog(done.todo, v.reflog)
    BY <1>9, FromLogGrows DEF Grows
  <2>3. v.op.kind = "rebase" /\ v.op.orig \in ToSet(v.reflog)
    BY <1>4, <1>8, <1>9 DEF IsMoved, Rebasing, Grows
  <2> QED
    BY <2>1, <2>2, <2>3, <1>7, <1>8 DEF Held, Halted
<1>12. v \in Repositories
  BY <1>8, <1>10, <1>11, RepoParts
<1>13. Carries(g, v)
  BY <1>4, <1>7, <1>8 DEF IsMoved, Rebasing, Carries
<1>14. r.g = v /\ r.ok \in BOOLEAN
  BY <1>6
<1>15. Fine(g, r)
  BY <1>9, <1>12, <1>14 DEF Fine
<1> QED
  BY <1>1, <1>4, <1>8, <1>13, <1>14, <1>15

LEMMA FinishedMade ==
  ASSUME NEW g \in Shapes, Rebasing(g), NEW c \in AllCommits, NEW r, r = Finished(g, c)
  PROVE  /\ Fine(g, r) /\ (~r.ok => Carries(g, r.g))
         /\ r.g.index = TreeOf(c) /\ r.g.tree = TreeOf(c)
<1>2. g.on \in Branches => g.branch[g.on] \in ToSet(g.reflog)
  BY DEF Rebasing, Rooted
<1>3. PICK a : a = At(g, c)
  OBVIOUS
<1>4. IsMoved(g, a, c) /\ a.index = TreeOf(c) /\ a.tree = TreeOf(c)
  BY <1>2, <1>3, AtMade
<1>5. a \in Shapes /\ a.op = g.op
  BY <1>4 DEF IsMoved
<1>6. PICK moved \in Branches \union {"none"} : moved = g.op.on
  BY DEF Shapes, Operations
<1>8. r = IF moved # "none" /\ a.branch[moved] # g.op.orig
          THEN [g |-> [a EXCEPT !.op.todo = <<>>, !.op.stop = "edit", !.op.at = <<>>], ok |-> FALSE]
          ELSE [g |-> [a EXCEPT !.op = NoOp, !.on = moved,
                                !.branch = [n \in Branches |-> IF n = moved THEN c ELSE @[n]]],
                ok |-> TRUE]
  BY <1>3, <1>6 DEF Finished
<1>10. CASE moved # "none" /\ a.branch[moved] # g.op.orig
  <2>1. PICK v : v = [a EXCEPT !.op.todo = <<>>, !.op.stop = "edit", !.op.at = <<>>]
    OBVIOUS
  <2>2. <<>> \in Seq(Items) /\ <<>> \in AllCommits
    BY EmptyCommit
  <2>3. /\ v \in Shapes /\ v.head = a.head /\ v.on = a.on /\ v.branch = a.branch
        /\ v.index = a.index /\ v.tree = a.tree /\ v.reflog = a.reflog /\ v.bisect = a.bisect
        /\ v.op.kind = a.op.kind /\ v.op.orig = a.op.orig /\ v.op.on = a.op.on
        /\ v.op.todo = <<>> /\ v.op.stop = "edit"
    BY <2>1, <2>2, <1>5 DEF Shapes, Operations
  <2>4. Grows(g, v)
    <3>1. Recorded(v) = Recorded(a)
      BY <2>3 DEF Recorded
    <3> QED
      BY <3>1, <1>4, <2>3 DEF IsMoved, Grows
  <2>5. Rooted(v)
    BY <1>4, <2>3 DEF IsMoved, Rooted, Rebasing
  <2>6. Held(v.op, v.reflog)
    <3>1. v.op # NoOp
      BY <2>3 DEF NoOp
    <3>2. FromLog(v.op.todo, v.reflog)
      BY <2>3, SetOfEmpty DEF FromLog
    <3>3. v.op.kind = "rebase" /\ v.op.orig \in ToSet(v.reflog)
      BY <1>4, <2>3, <2>4 DEF IsMoved, Rebasing, Grows
    <3> QED
      BY <3>1, <3>2, <3>3, <2>3 DEF Held
  <2>7. v \in Repositories
    BY <2>3, <2>5, <2>6, RepoParts
  <2>8. Carries(g, v)
    BY <1>4, <2>3 DEF IsMoved, Rebasing, Carries
  <2>9. r.g = v /\ r.ok = FALSE
    BY <1>8, <1>10, <2>1
  <2> QED
    BY <1>4, <2>3, <2>4, <2>7, <2>8, <2>9 DEF Fine
<1>11. CASE ~(moved # "none" /\ a.branch[moved] # g.op.orig)
  <2>1. PICK br : br = [n \in Branches |-> IF n = moved THEN c ELSE a.branch[n]]
    OBVIOUS
  <2>2. PICK v : v = [a EXCEPT !.op = NoOp, !.on = moved, !.branch = br]
    OBVIOUS
  <2>3. br \in [Branches -> AllCommits] /\ NoOp \in Operations
    <3>1. <<>> \in Seq(Items) /\ <<>> \in AllCommits
      BY EmptyCommit
    <3>2. NoOp \in Operations
      BY <3>1 DEF NoOp, Operations
    <3>3. br \in [Branches -> AllCommits]
      BY <2>1, <1>5 DEF Shapes
    <3> QED
      BY <3>2, <3>3
  <2>4. /\ v \in Shapes /\ v.head = a.head /\ v.on = moved /\ v.branch = br
        /\ v.index = a.index /\ v.tree = a.tree /\ v.reflog = a.reflog /\ v.bisect = a.bisect
        /\ v.op = NoOp
    BY <2>2, <2>3, <1>5 DEF Shapes
  <2>5. c \in ToSet(v.reflog) /\ ToSet(g.reflog) \subseteq ToSet(v.reflog)
        /\ Len(g.reflog) <= Len(v.reflog)
    BY <1>4, <2>4 DEF IsMoved, Grows
  <2>6. Recorded(a) \subseteq Recorded(v)
    <3>1. ASSUME NEW d \in ToSet(a.reflog) \union Range(a.branch)
          PROVE  Adds(d) \subseteq Recorded(v)
      <4>1. CASE d \in ToSet(v.reflog)
        BY <4>1, <2>4, RecordedParts
      <4>2. CASE d \notin ToSet(v.reflog)
        <5>1. PICK b \in Branches : d = a.branch[b]
          BY <4>2, <2>4, <1>5 DEF Range, Shapes
        <5>2. CASE b = moved
          <6>1. d = g.op.orig
            BY <5>1, <5>2, <1>11 DEF Branches
          <6> QED
            BY <6>1, <4>2, <2>5 DEF Rebasing
        <5>3. CASE b # moved
          <6>1. d = v.branch[b]
            BY <5>1, <5>3, <2>1, <2>4
          <6> QED
            BY <6>1, <2>4, RecordedParts
        <5> QED
          BY <5>2, <5>3
      <4> QED
        BY <4>1, <4>2
    <3> QED
      BY <3>1 DEF Recorded
  <2>7. Grows(g, v)
    BY <2>5, <2>6, <1>4 DEF IsMoved, Grows
  <2>8. Rooted(v)
    BY <1>4, <2>1, <2>4, <2>5 DEF IsMoved, Rooted, Rebasing
  <2>9. Held(v.op, v.reflog)
    BY <2>4 DEF Held, NoOp
  <2>10. v \in Repositories
    BY <2>4, <2>8, <2>9, RepoParts
  <2>11. r.g = v /\ r.ok = TRUE
    BY <1>8, <1>11, <2>1, <2>2
  <2> QED
    BY <1>4, <2>4, <2>7, <2>10, <2>11 DEF Fine
<1> QED
  BY <1>10, <1>11

\* The rebase keeps what is in the index and the tree where the commit it starts
\* from has it.
LEMMA RunTodoMade ==
  ASSUME NEW g \in Shapes, Rebasing(g), NEW from \in AllCommits, NEW todo \in Seq(Items),
         FromLog(todo, g.reflog), NEW r \in RunTodo(g, from, todo)
  PROVE  /\ Fine(g, r)
         /\ ~r.ok \/ (\E it \in ToSet(todo) : it.verb = "edit") => Carries(g, r.g)
         /\ g.index \union g.tree \subseteq TreeOf(from) \union Recorded(g) => Saves(g, r)
<1>1. PICK done : done = Ran(from, todo)
  OBVIOUS
<1>2. /\ done \in Runs /\ Halted(done) /\ ToSet(done.todo) \subseteq ToSet(todo)
      /\ TreeOf(from) \subseteq TreeOf(done.head) \union UNION {Last(it.of).del : it \in ToSet(todo)}
      /\ (\E it \in ToSet(todo) : it.verb = "edit") => done.stop # "none"
  BY <1>1, RunMade
<1>3. PICK c \in AllCommits : c = done.head
  BY <1>2 DEF Runs
<1>4. r = IF done.stop = "none" THEN Finished(g, c) ELSE Stopped(g, done)
  BY <1>1, <1>3 DEF RunTodo
<1>5. FromLog(done.todo, g.reflog)
  BY <1>2 DEF FromLog
<1>6. /\ Fine(g, r) /\ r.g.index = TreeOf(c) /\ r.g.tree = TreeOf(c)
      /\ ~r.ok \/ done.stop # "none" => Carries(g, r.g)
  <2>1. CASE done.stop = "none"
    <3>1. r = Finished(g, c)
      BY <2>1, <1>4
    <3> QED
      BY <2>1, <3>1, FinishedMade
  <2>2. CASE done.stop # "none"
    BY <2>2, <1>2, <1>3, <1>4, <1>5, StoppedMade
  <2> QED
    BY <2>1, <2>2
<1>7. UNION {Last(it.of).del : it \in ToSet(todo)} \subseteq Recorded(g)
  <2> SUFFICES ASSUME NEW it \in ToSet(todo)
               PROVE  Last(it.of).del \subseteq Recorded(g)
    OBVIOUS
  <2>1. it \in Items
    BY DEF ToSet
  <2>2. it.of \in AllCommits /\ Last(it.of).del \subseteq Adds(it.of)
    BY <2>1, ItemParts
  <2>3. PICK d \in ToSet(g.reflog) : Ancestor(it.of, d)
    BY DEF FromLog
  <2>4. d \in AllCommits
    BY DEF Shapes, ToSet
  <2>5. Adds(it.of) \subseteq Adds(d)
    BY <2>2, <2>3, <2>4, AncestorIsPrefix
  <2> QED
    BY <2>2, <2>3, <2>5, RecordedParts
<1>8. ASSUME g.index \union g.tree \subseteq TreeOf(from) \union Recorded(g)
      PROVE  Saves(g, r)
  <2>1. Kept(g) \subseteq TreeOf(c) \union Recorded(g)
    BY <1>2, <1>3, <1>7, <1>8, KeptParts
  <2>2. Recorded(g) \subseteq Recorded(r.g)
    BY <1>6 DEF Fine, Grows
  <2>3. Kept(r.g) = Recorded(r.g) \union TreeOf(c) \union TreeOf(c)
    BY <1>6, KeptParts
  <2> QED
    BY <2>1, <2>2, <2>3 DEF Saves
<1> QED
  BY <1>2, <1>6, <1>8

(***************************************************************************)
(* The lists of a rebase: each item is a commit of HEAD's history.         *)
(***************************************************************************)
OfThose(s, t) == \A it \in ToSet(s) : \E jt \in ToSet(t) : it.of = jt.of

LEMMA FromLogOfThose ==
  ASSUME NEW s, NEW t, NEW log, OfThose(s, t), FromLog(t, log)
  PROVE  FromLog(s, log)
BY DEF OfThose, FromLog

Wants(n) ==
    \A own \in Seq(Listed) : \A theirs : Len(own) = n =>
        /\ Unpicked(own, theirs) \in [todo : Seq(Items), theirs : {theirs}]
        /\ \A it \in ToSet(Unpicked(own, theirs).todo) : it.of \in ToSet(own)
        /\ theirs = {} =>
               \A c \in ToSet(own) : \E it \in ToSet(Unpicked(own, theirs).todo) : it.of = c

WantInduction == INSTANCE Induction WITH P <- Wants, Op <- Wanted

LEMMA UnpickedMade ==
  ASSUME NEW own \in Seq(Listed), NEW theirs
  PROVE  /\ Unpicked(own, theirs).todo \in Seq(Items)
         /\ \A it \in ToSet(Unpicked(own, theirs).todo) : it.of \in ToSet(own)
         /\ theirs = {} =>
               \A c \in ToSet(own) : \E it \in ToSet(Unpicked(own, theirs).todo) : it.of = c
<1>1. Wants(0)
  <2> SUFFICES ASSUME NEW s \in Seq(Listed), NEW th, Len(s) = 0
               PROVE  /\ Unpicked(s, th) \in [todo : Seq(Items), theirs : {th}]
                      /\ \A it \in ToSet(Unpicked(s, th).todo) : it.of \in ToSet(s)
                      /\ th = {} =>
                          \A c \in ToSet(s) : \E it \in ToSet(Unpicked(s, th).todo) : it.of = c
    BY DEF Wants
  <2>1. s = <<>> /\ ToSet(<<>>) = {} /\ <<>> \in Seq(Items)
    BY SetOfEmpty
  <2>2. PICK l : l = [todo |-> <<>>, theirs |-> th]
    OBVIOUS
  <2>3. Unpicked(s, th) = l
    BY <2>1, <2>2, WantEmpty
  <2>4. l \in [todo : Seq(Items), theirs : {th}] /\ l.todo = <<>>
    BY <2>1, <2>2
  <2> QED
    BY <2>1, <2>3, <2>4
<1>2. \A n \in Nat : Wants(n) => Wants(n + 1)
  <2> SUFFICES ASSUME NEW n \in Nat, Wants(n), NEW s \in Seq(Listed), NEW th, Len(s) = n + 1
               PROVE  /\ Unpicked(s, th) \in [todo : Seq(Items), theirs : {th}]
                      /\ \A it \in ToSet(Unpicked(s, th).todo) : it.of \in ToSet(s)
                      /\ th = {} =>
                          \A c \in ToSet(s) : \E it \in ToSet(Unpicked(s, th).todo) : it.of = c
    BY DEF Wants
  <2>1. PICK q \in Seq(Listed), e \in Listed : s = Append(q, e) /\ Len(q) = n
    BY SeqSplit
  <2>2. ToSet(s) = ToSet(q) \union {e}
    BY <2>1, SetOfAppend
  <2>3. PICK l : l = Unpicked(q, th)
    OBVIOUS
  <2>4. /\ l \in [todo : Seq(Items), theirs : {th}] /\ l.todo \in Seq(Items) /\ l.theirs = th
        /\ \A it \in ToSet(l.todo) : it.of \in ToSet(q)
        /\ th = {} => \A c \in ToSet(q) : \E it \in ToSet(l.todo) : it.of = c
    BY <2>1, <2>3 DEF Wants
  <2>5. PICK m : m = Wanted(l, e) /\ Unpicked(s, th) = m
    BY <2>1, <2>3, WantAppend
  <2>6. CASE <<Last(e).add, Last(e).del>> \in l.theirs
    <3>1. m = l /\ th # {}
      BY <2>4, <2>5, <2>6 DEF Wanted
    <3> QED
      BY <3>1, <2>2, <2>4, <2>5
  <2>7. CASE <<Last(e).add, Last(e).del>> \notin l.theirs
    <3>1. PICK it \in Items : it = [verb |-> "pick", of |-> e]
      <4>1. [verb |-> "pick", of |-> e] \in Items
        BY DEF Items, Listed
      <4> QED
        BY <4>1
    <3>2. m = [l EXCEPT !.todo = Append(@, it)]
      BY <2>5, <2>7, <3>1 DEF Wanted
    <3>3. Append(l.todo, it) \in Seq(Items) /\ ToSet(Append(l.todo, it)) = ToSet(l.todo) \union {it}
      BY <2>4, SeqMade, SetOfAppend
    <3>4. m \in [todo : Seq(Items), theirs : {th}] /\ m.todo = Append(l.todo, it)
      BY <2>4, <3>2, <3>3
    <3>5. it.of = e
      BY <3>1
    <3> QED
      BY <3>3, <3>4, <3>5, <2>2, <2>4, <2>5
  <2> QED
    BY <2>6, <2>7
<1>3. \A n \in Nat : Wants(n)
  BY <1>1, <1>2, NumbersWellOrdered, WantInduction!Induct DEF WantInduction!WellOrdered
<1>4. Wants(Len(own)) /\ Len(own) \in Nat
  BY <1>3
<1> QED
  BY <1>4 DEF Wants

LEMMA PicksMade ==
  ASSUME NEW g, g.head \in AllCommits, NEW base \in AllCommits
  PROVE  /\ Picks(g, base) \in Seq(Items)
         /\ \A it \in ToSet(Picks(g, base)) : Ancestor(it.of, g.head)
         /\ Ancestor(base, g.head) =>
                \A c \in AllCommits : Ancestor(c, g.head) /\ Len(base) < Len(c) =>
                    \E it \in ToSet(Picks(g, base)) : it.of = c
<1>1. PICK h \in AllCommits : h = g.head /\ Len(h) \in Nat /\ Len(base) \in Nat
  BY CommitLen
<1>2. PICK common \in Nat :
          /\ common = Parting(base, h) /\ common <= Len(base) /\ common <= Len(h)
          /\ Ancestor(base, h) => common = Len(base)
  <2>1. /\ Parting(base, h) \in 0..Len(base) /\ Parting(base, h) <= Len(h)
        /\ Ancestor(base, h) => Parting(base, h) = Len(base)
    BY CommonPrefix
  <2>2. Parting(base, h) \in Nat /\ Parting(base, h) <= Len(base)
    BY <1>1, <2>1
  <2> QED
    BY <2>1, <2>2
<1>3. common <= Len(base) /\ common <= Len(h) /\ (Ancestor(base, h) => common = Len(base))
  BY <1>2
<1>4. PICK theirs : theirs = {<<ch.add, ch.del>> : ch \in ToSet(SubSeq(base, common + 1, Len(base)))}
  OBVIOUS
<1>5. PICK own : own = [i \in 1..(Len(h) - common) |-> SubSeq(h, 1, common + i)]
  OBVIOUS
<1>6. \A i \in 1..(Len(h) - common) :
          own[i] \in Listed /\ Ancestor(own[i], h) /\ Len(own[i]) = common + i
  <2> TAKE i \in 1..(Len(h) - common)
  <2>1. PICK k \in 0..Len(h) : k = common + i /\ k # 0
    BY <1>1, <1>3
  <2>2. PICK c \in AllCommits : c = SubSeq(h, 1, k) /\ Len(c) = k
    BY CommitPrefix
  <2>3. c # <<>>
    BY <2>1, <2>2, CommitLen
  <2>4. Ancestor(c, h)
    BY <2>2, PrefixIsAncestor
  <2> QED
    BY <1>5, <2>1, <2>2, <2>3, <2>4 DEF Listed
<1>7. own \in Seq(Listed) /\ DOMAIN own = 1..(Len(h) - common)
  <2>1. PICK m \in Nat : m = Len(h) - common
    BY <1>1, <1>3
  <2>2. own = [i \in 1..m |-> SubSeq(h, 1, common + i)] /\ \A i \in 1..m : own[i] \in Listed
    BY <1>5, <1>6, <2>1
  <2> QED
    BY <2>1, <2>2
<1>8. Picks(g, base) = Unpicked(own, theirs).todo
  BY <1>1, <1>2, <1>4, <1>5 DEF Picks
<1>9. /\ Unpicked(own, theirs).todo \in Seq(Items)
      /\ \A it \in ToSet(Unpicked(own, theirs).todo) : it.of \in ToSet(own)
      /\ theirs = {} =>
             \A c \in ToSet(own) : \E it \in ToSet(Unpicked(own, theirs).todo) : it.of = c
  BY <1>7, UnpickedMade
<1>10. \A c \in ToSet(own) : Ancestor(c, h)
  BY <1>6, <1>7 DEF ToSet
<1>11. ASSUME Ancestor(base, h), NEW c \in AllCommits, Ancestor(c, h), Len(base) < Len(c)
       PROVE  c \in ToSet(own) /\ theirs = {}
  <2>1. PICK k \in 0..Len(h) : k = Len(c) /\ c = SubSeq(h, 1, k)
    BY <1>11, AncestorIsPrefix
  <2>2. common = Len(base)
    BY <1>3, <1>11
  <2>3. PICK i \in 1..(Len(h) - common) : common + i = k
    <3>1. k - common \in 1..(Len(h) - common) /\ common + (k - common) = k
      BY <1>1, <1>11, <2>1, <2>2
    <3> QED
      BY <3>1
  <2>4. own[i] = c
    BY <1>5, <2>1, <2>3
  <2>5. SubSeq(base, common + 1, Len(base)) = <<>>
    <3>1. base \in Seq(Changes)
      BY CommitLen
    <3> QED
      BY <1>1, <2>2, <3>1
  <2>6. theirs = {}
    BY <1>4, <2>5, SetOfEmpty
  <2> QED
    BY <1>7, <2>4, <2>6 DEF ToSet
<1> QED
  BY <1>1, <1>8, <1>9, <1>10, <1>11

LEMMA WithVerbMade ==
  ASSUME NEW todo \in Seq(Items), NEW c, NEW verb \in {"pick", "edit", "squash", "drop", "reword"}
  PROVE  /\ WithVerb(todo, c, verb) \in Seq(Items) /\ OfThose(WithVerb(todo, c, verb), todo)
         /\ (\E it \in ToSet(todo) : it.of = c) =>
                \E it \in ToSet(WithVerb(todo, c, verb)) : it.verb = verb
<1>1. PICK n \in Nat : n = Len(todo) /\ DOMAIN todo = 1..n
  OBVIOUS
<1>2. PICK w : w = WithVerb(todo, c, verb)
  OBVIOUS
<1>3. w = [i \in 1..n |-> IF todo[i].of = c THEN [todo[i] EXCEPT !.verb = verb] ELSE todo[i]]
  BY <1>1, <1>2 DEF WithVerb
<1>4. \A i \in 1..n : /\ w[i] \in Items /\ w[i].of = todo[i].of
                      /\ todo[i].of = c => w[i].verb = verb
  <2> TAKE i \in 1..n
  <2>1. PICK it \in Items : it = todo[i]
    BY <1>1
  <2>2. w[i] = IF it.of = c THEN [it EXCEPT !.verb = verb] ELSE it
    BY <1>3, <2>1
  <2>3. PICK jt : jt = [it EXCEPT !.verb = verb]
    OBVIOUS
  <2>4. jt \in Items /\ jt.of = it.of /\ jt.verb = verb
    BY <2>3 DEF Items
  <2> QED
    BY <2>1, <2>2, <2>3, <2>4
<1>5. w \in Seq(Items) /\ Len(w) = n /\ DOMAIN w = 1..n
  <2>1. \A i \in 1..n : w[i] \in Items
    BY <1>4
  <2>2. w \in [1..n -> Items]
    BY <1>3, <2>1
  <2> QED
    BY <1>1, <2>2, FunctionIsSeq
<1>6. OfThose(w, todo)
  BY <1>1, <1>4, <1>5 DEF OfThose, ToSet
<1>7. (\E it \in ToSet(todo) : it.of = c) => \E it \in ToSet(w) : it.verb = verb
  BY <1>1, <1>4, <1>5 DEF ToSet
<1> QED
  BY <1>2, <1>5, <1>6, <1>7

LEMMA AppliedMade ==
  ASSUME NEW todo \in Seq(Items), NEW w,
         w = [i \in DOMAIN todo |-> [todo[i] EXCEPT !.verb = "apply"]]
  PROVE  w \in Seq(Items) /\ OfThose(w, todo)
<1>1. PICK n \in Nat : n = Len(todo) /\ DOMAIN todo = 1..n
  OBVIOUS
<1>2. \A i \in 1..n : w[i] \in Items /\ w[i].of = todo[i].of
  <2> TAKE i \in 1..n
  <2>1. PICK it \in Items : it = todo[i]
    BY <1>1
  <2>2. w[i] = [it EXCEPT !.verb = "apply"]
    BY <1>1, <2>1
  <2> QED
    BY <2>1, <2>2 DEF Items
<1>3. w \in Seq(Items) /\ DOMAIN w = 1..n
  BY <1>1, <1>2
<1> QED
  BY <1>1, <1>2, <1>3 DEF OfThose, ToSet

LEMMA SwappedMade ==
  ASSUME NEW todo \in Seq(Items), NEW i \in 1..(Len(todo) - 1), NEW w,
         w = [todo EXCEPT ![i] = todo[i + 1], ![i + 1] = todo[i]]
  PROVE  w \in Seq(Items) /\ OfThose(w, todo)
<1>1. PICK n \in Nat : n = Len(todo) /\ DOMAIN todo = 1..n
  OBVIOUS
<1>2. i \in 1..n /\ i + 1 \in 1..n
  BY <1>1
<1>3. w = [k \in 1..n |-> IF k = i + 1 THEN todo[i] ELSE IF k = i THEN todo[i + 1] ELSE todo[k]]
  BY <1>1, <1>2
<1>4. \A k \in 1..n : \E j \in 1..n : w[k] = todo[j]
  BY <1>2, <1>3
<1>5. \A k \in 1..n : w[k] \in Items
  <2> TAKE k \in 1..n
  <2>1. PICK j \in 1..n : w[k] = todo[j]
    BY <1>4
  <2>2. todo[j] \in Items
    BY <1>1
  <2> QED
    BY <2>1, <2>2
<1>6. w \in Seq(Items) /\ DOMAIN w = 1..n
  <2>1. w \in [1..n -> Items]
    BY <1>3, <1>5
  <2> QED
    BY <1>1, <2>1, FunctionIsSeq
<1>7. \A it \in ToSet(w) : it \in ToSet(todo)
  BY <1>1, <1>4, <1>6 DEF ToSet
<1> QED
  BY <1>6, <1>7 DEF OfThose

LEMMA AncestorOn ==
  ASSUME NEW c \in AllCommits, NEW d \in AllCommits, NEW e \in AllCommits,
         Ancestor(c, d), Ancestor(d, e)
  PROVE  Ancestor(c, e)
<1>1. PICK k \in 0..Len(d) : k = Len(c) /\ c = SubSeq(d, 1, k)
  BY AncestorIsPrefix
<1>2. PICK m \in 0..Len(e) : m = Len(d) /\ d = SubSeq(e, 1, m)
  BY AncestorIsPrefix
<1>3. c \in Seq(Changes) /\ d \in Seq(Changes) /\ e \in Seq(Changes) /\ Len(e) \in Nat
  BY CommitLen
<1>4. c = SubSeq(e, 1, k) /\ k \in 0..Len(e)
  BY <1>1, <1>2, <1>3
<1> QED
  BY <1>4, PrefixIsAncestor

LEMMA ConcatMade ==
  ASSUME NEW S, NEW r \in Seq(S), NEW b \in Seq(S)
  PROVE  r \o b \in Seq(S) /\ ToSet(r \o b) = ToSet(r) \union ToSet(b)
<1>1. PICK n \in Nat : n = Len(r) /\ DOMAIN r = 1..n
  OBVIOUS
<1>2. PICK m \in Nat : m = Len(b) /\ DOMAIN b = 1..m
  OBVIOUS
<1>3. PICK t : t = r \o b
  OBVIOUS
<1>4. t \in Seq(S) /\ Len(t) = n + m /\ DOMAIN t = 1..(n + m)
  BY <1>1, <1>2, <1>3
<1>5. \A i \in 1..n : t[i] = r[i] /\ i \in 1..(n + m)
  BY <1>1, <1>2, <1>3
<1>6. \A i \in 1..m : t[n + i] = b[i] /\ n + i \in 1..(n + m)
  BY <1>1, <1>2, <1>3
<1>7. ToSet(r) \union ToSet(b) \subseteq ToSet(t)
  <2>1. \A i \in 1..n : r[i] \in ToSet(t)
    BY <1>4, <1>5 DEF ToSet
  <2>2. \A i \in 1..m : b[i] \in ToSet(t)
    BY <1>4, <1>6 DEF ToSet
  <2> QED
    BY <2>1, <2>2, <1>1, <1>2 DEF ToSet
<1>8. \A i \in 1..(n + m) : t[i] \in ToSet(r) \union ToSet(b)
  <2> TAKE i \in 1..(n + m)
  <2>1. CASE i \in 1..n
    BY <2>1, <1>1, <1>5 DEF ToSet
  <2>2. CASE i \notin 1..n
    <3>1. PICK j \in 1..m : n + j = i
      <4>1. i - n \in 1..m /\ n + (i - n) = i
        BY <2>2, <1>1, <1>2
      <4> QED
        BY <4>1
    <3> QED
      BY <3>1, <1>2, <1>6 DEF ToSet
  <2> QED
    BY <2>1, <2>2
<1>9. ToSet(t) \subseteq ToSet(r) \union ToSet(b)
  BY <1>4, <1>8 DEF ToSet
<1> QED
  BY <1>3, <1>4, <1>7, <1>9

LEMMA PartMade ==
  ASSUME NEW S, NEW s \in Seq(S), NEW a \in Nat \ {0}, NEW b \in 0..Len(s)
  PROVE  SubSeq(s, a, b) \in Seq(S) /\ ToSet(SubSeq(s, a, b)) \subseteq ToSet(s)
<1>1. PICK t : t = SubSeq(s, a, b)
  OBVIOUS
<1>2. PICK n \in Nat : n = Len(s) /\ DOMAIN s = 1..n
  OBVIOUS
<1>3. t \in Seq(S) /\ \A i \in DOMAIN t : a + i - 1 \in 1..n /\ t[i] = s[a + i - 1]
  BY <1>1, <1>2
<1>4. ToSet(t) \subseteq ToSet(s)
  BY <1>2, <1>3 DEF ToSet
<1> QED
  BY <1>1, <1>3, <1>4

LEMMA InsertedMade ==
  ASSUME NEW S, NEW s \in Seq(S), NEW k \in 1..Len(s), NEW e \in S
  PROVE  InsertAt(s, k + 1, e) \in Seq(S) /\ ToSet(InsertAt(s, k + 1, e)) \subseteq ToSet(s) \union {e}
<1>1. PICK n \in Nat : n = Len(s)
  OBVIOUS
<1>2. PICK a : a = SubSeq(s, 1, k)
  OBVIOUS
<1>3. PICK b : b = SubSeq(s, k + 1, n)
  OBVIOUS
<1>4. a \in Seq(S) /\ ToSet(a) \subseteq ToSet(s)
  <2>1. 1 \in Nat \ {0} /\ k \in 0..Len(s)
    BY <1>1
  <2> QED
    BY <2>1, <1>2, PartMade
<1>5. b \in Seq(S) /\ ToSet(b) \subseteq ToSet(s)
  <2>1. PICK j \in Nat \ {0} : j = k + 1
    BY <1>1
  <2>2. n \in 0..Len(s) /\ b = SubSeq(s, j, n)
    BY <2>1, <1>1, <1>3
  <2> QED
    BY <2>1, <2>2, PartMade
<1>6. PICK d : d = <<e>>
  OBVIOUS
<1>7. d \in Seq(S) /\ ToSet(d) = {e}
  BY <1>6 DEF ToSet
<1>8. PICK r : r = a \o d
  OBVIOUS
<1>9. r \in Seq(S) /\ ToSet(r) = ToSet(a) \union ToSet(d)
  BY <1>4, <1>7, <1>8, ConcatMade
<1>10. PICK t : t = r \o b
  OBVIOUS
<1>11. t \in Seq(S) /\ ToSet(t) = ToSet(r) \union ToSet(b)
  BY <1>5, <1>9, <1>10, ConcatMade
<1>12. t = InsertAt(s, k + 1, e)
  <2>1. (k + 1) - 1 = k
    OBVIOUS
  <2> QED
    BY <2>1, <1>1, <1>2, <1>3, <1>6, <1>8, <1>10 DEF InsertAt
<1> QED
  BY <1>4, <1>5, <1>7, <1>9, <1>11, <1>12

LEMMA SquashedMade ==
  ASSUME NEW todo \in Seq(Items), NEW it \in Items
  PROVE  /\ Squashed(todo, it) \in Seq(Items)
         /\ \A jt \in ToSet(Squashed(todo, it)) :
                jt.of = it.of \/ \E kt \in ToSet(todo) : jt.of = kt.of
<1>1. PICK n \in Nat : n = Len(todo) /\ DOMAIN todo = 1..n
  OBVIOUS
<1>2. PICK fits : fits = {i \in 1..n : ~Last(todo[i].of).fix /\ Last(todo[i].of).subj = Last(it.of).subj}
  OBVIOUS
<1>3. CASE ~Last(it.of).fix \/ fits = {}
  <2>1. Squashed(todo, it) = Append(todo, it)
    BY <1>1, <1>2, <1>3 DEF Squashed
  <2>2. Append(todo, it) \in Seq(Items) /\ ToSet(Append(todo, it)) = ToSet(todo) \union {it}
    BY SeqMade, SetOfAppend
  <2> QED
    BY <2>1, <2>2
<1>4. CASE ~(~Last(it.of).fix \/ fits = {})
  <2>1. fits \in SUBSET Nat /\ fits # {} /\ fits \subseteq 1..n
    BY <1>2, <1>4
  <2>2. \E x \in fits : \A j \in fits : x <= j
    BY <2>1, LeastNumber
  <2>3. PICK i \in fits : i = CHOOSE x \in fits : \A j \in fits : x <= j
    BY <2>2
  <2>4. PICK after : after = {k \in i..n : \A j \in (i + 1)..k : todo[j].verb = "fixup"}
    OBVIOUS
  <2>5. i \in after /\ after \subseteq 1..n
    <3>0. i \in 1..n /\ i \in Nat /\ n \in Nat
      BY <1>1, <2>1, <2>3
    <3>1. i \in 1..n /\ i \in i..n /\ \A j \in (i + 1)..i : FALSE
      BY <3>0
    <3>2. \A x \in i..n : x \in 1..n
      BY <3>1
    <3> QED
      BY <3>1, <3>2, <2>4
  <2>6. after \in SUBSET (0..n) /\ after # {}
    BY <2>5
  <2>7. \E x \in after : \A j \in after : j <= x
    BY <1>1, <2>6, Greatest
  <2>8. PICK k \in after : k = CHOOSE x \in after : \A j \in after : j <= x
    BY <2>7
  <2>9. PICK jt : jt = [it EXCEPT !.verb = "fixup"]
    OBVIOUS
  <2>10. jt \in Items /\ jt.of = it.of
    BY <2>9 DEF Items
  <2>11. Squashed(todo, it) = InsertAt(todo, k + 1, jt)
    <3>1. fits = {x \in DOMAIN todo : ~Last(todo[x].of).fix
                                      /\ Last(todo[x].of).subj = Last(it.of).subj}
      BY <1>1, <1>2
    <3>2. after = {x \in i..Len(todo) : \A j \in (i + 1)..x : todo[j].verb = "fixup"}
      BY <1>1, <2>4
    <3>3. Squashed(todo, it) =
              LET x == CHOOSE x \in fits : \A j \in fits : x <= j
                  past == {y \in x..Len(todo) : \A j \in (x + 1)..y : todo[j].verb = "fixup"}
                  y == CHOOSE y \in past : \A j \in past : j <= y
              IN  IF ~Last(it.of).fix \/ fits = {} THEN Append(todo, it)
                  ELSE InsertAt(todo, y + 1, [it EXCEPT !.verb = "fixup"])
      BY <3>1 DEF Squashed
    <3>4. Squashed(todo, it) =
              LET past == {y \in i..Len(todo) : \A j \in (i + 1)..y : todo[j].verb = "fixup"}
                  y == CHOOSE y \in past : \A j \in past : j <= y
              IN  InsertAt(todo, y + 1, [it EXCEPT !.verb = "fixup"])
      BY <3>3, <1>4, <2>3
    <3>5. Squashed(todo, it) = InsertAt(todo, k + 1, [it EXCEPT !.verb = "fixup"])
      BY <3>2, <3>4, <2>8
    <3> QED
      BY <3>5, <2>9
  <2>12. k \in 1..Len(todo)
    BY <1>1, <2>5, <2>8
  <2>13. /\ InsertAt(todo, k + 1, jt) \in Seq(Items)
         /\ ToSet(InsertAt(todo, k + 1, jt)) \subseteq ToSet(todo) \union {jt}
    BY <2>10, <2>12, InsertedMade
  <2> QED
    BY <2>10, <2>11, <2>13
<1> QED
  BY <1>3, <1>4

Squashes(n) ==
    \A todo \in Seq(Items) : Len(todo) = n =>
        Autosquash(todo) \in Seq(Items) /\ OfThose(Autosquash(todo), todo)

SquashInduction == INSTANCE Induction WITH P <- Squashes, Op <- Squashed

LEMMA AutosquashMade ==
  ASSUME NEW todo \in Seq(Items)
  PROVE  Autosquash(todo) \in Seq(Items) /\ OfThose(Autosquash(todo), todo)
<1>1. Squashes(0)
  <2> SUFFICES ASSUME NEW s \in Seq(Items), Len(s) = 0
               PROVE  Autosquash(s) \in Seq(Items) /\ OfThose(Autosquash(s), s)
    BY DEF Squashes
  <2>1. s = <<>> /\ ToSet(<<>>) = {} /\ <<>> \in Seq(Items)
    BY SetOfEmpty
  <2> QED
    BY <2>1, SquashEmpty DEF OfThose
<1>2. \A n \in Nat : Squashes(n) => Squashes(n + 1)
  <2> SUFFICES ASSUME NEW n \in Nat, Squashes(n), NEW s \in Seq(Items), Len(s) = n + 1
               PROVE  Autosquash(s) \in Seq(Items) /\ OfThose(Autosquash(s), s)
    BY DEF Squashes
  <2>1. PICK q \in Seq(Items), e \in Items : s = Append(q, e) /\ Len(q) = n
    BY SeqSplit
  <2>2. ToSet(s) = ToSet(q) \union {e}
    BY <2>1, SetOfAppend
  <2>3. PICK l \in Seq(Items) : l = Autosquash(q) /\ OfThose(l, q)
    BY <2>1 DEF Squashes
  <2>4. Autosquash(s) = Squashed(l, e)
    BY <2>1, <2>3, SquashAppend
  <2>5. /\ Squashed(l, e) \in Seq(Items)
        /\ \A jt \in ToSet(Squashed(l, e)) : jt.of = e.of \/ \E kt \in ToSet(l) : jt.of = kt.of
    BY <2>1, <2>3, SquashedMade
  <2>6. ASSUME NEW jt \in ToSet(Squashed(l, e))
        PROVE  \E kt \in ToSet(s) : jt.of = kt.of
    <3>1. CASE jt.of = e.of
      BY <3>1, <2>2
    <3>2. CASE \E kt \in ToSet(l) : jt.of = kt.of
      <4>1. PICK kt \in ToSet(l) : jt.of = kt.of
        BY <3>2
      <4>2. PICK ft \in ToSet(q) : kt.of = ft.of
        BY <2>3 DEF OfThose
      <4> QED
        BY <4>1, <4>2, <2>2
    <3> QED
      BY <3>1, <3>2, <2>5
  <2> QED
    BY <2>4, <2>5, <2>6 DEF OfThose
<1>3. \A n \in Nat : Squashes(n)
  BY <1>1, <1>2, NumbersWellOrdered, SquashInduction!Induct DEF SquashInduction!WellOrdered
<1>4. Squashes(Len(todo)) /\ Len(todo) \in Nat
  BY <1>3
<1> QED
  BY <1>4 DEF Squashes

(***************************************************************************)
(* The rebases of HEAD.                                                    *)
(***************************************************************************)
\* What is done when nothing but HEAD is in the index and the tree.
LEMMA CleanSaves ==
  ASSUME NEW g \in Repositories, Clean(g)
  PROVE  g.index \union g.tree \subseteq Recorded(g) /\ Kept(g) = Recorded(g)
<1>1. g \in Shapes /\ Rooted(g)
  BY RepoParts
<1>2. PICK c \in AllCommits : c = g.head /\ c \in ToSet(g.reflog)
  BY <1>1 DEF Shapes, Rooted
<1>3. TreeOf(c) \subseteq Adds(c)
  BY TreeType
<1>4. Adds(c) \subseteq Recorded(g)
  BY <1>1, <1>2, RecordedParts
<1>5. g.index = TreeOf(c) /\ g.tree = TreeOf(c)
  BY <1>2 DEF Clean, IndexClean
<1> QED
  BY <1>3, <1>4, <1>5, KeptParts

LEMMA HeadIsRecorded ==
  ASSUME NEW g \in Shapes, Rooted(g)
  PROVE  g.head \in AllCommits /\ TreeOf(g.head) \in SUBSET Edits /\ TreeOf(g.head) \subseteq Recorded(g)
<1>1. PICK c \in AllCommits : c = g.head /\ c \in ToSet(g.reflog)
  BY DEF Shapes, Rooted
<1>2. TreeOf(c) \in SUBSET Edits /\ TreeOf(c) \subseteq Adds(c)
  BY TreeType
<1>3. Adds(c) \subseteq Recorded(g)
  BY <1>1, RecordedParts
<1> QED
  BY <1>1, <1>2, <1>3

LEMMA StartingMade ==
  ASSUME NEW g \in Repositories, NEW s, s = Starting(g)
  PROVE  /\ s \in Shapes /\ Rebasing(s) /\ s.head = g.head /\ s.on = "none" /\ s.branch = g.branch
         /\ s.index = g.index /\ s.tree = g.tree /\ s.reflog = g.reflog
         /\ s.op.orig = g.head /\ s.op.on = g.on /\ Grows(g, s) /\ Recorded(s) = Recorded(g)
<1>1. g \in Shapes /\ Rooted(g)
  BY RepoParts
<1>2. <<>> \in Seq(Items) /\ <<>> \in AllCommits
  BY EmptyCommit
<1>3. PICK o : o = [NoOp EXCEPT !.kind = "rebase", !.orig = g.head, !.on = g.on]
  OBVIOUS
<1>4. o \in Operations /\ o.kind = "rebase" /\ o.orig = g.head /\ o.on = g.on
  BY <1>1, <1>2, <1>3 DEF NoOp, Operations, Shapes
<1>5. s = [g EXCEPT !.on = "none", !.op = o]
  BY <1>3 DEF Starting
<1>6. /\ s \in Shapes /\ s.head = g.head /\ s.on = "none" /\ s.branch = g.branch
      /\ s.index = g.index /\ s.tree = g.tree /\ s.reflog = g.reflog /\ s.op = o
      /\ s.bisect = g.bisect
  BY <1>1, <1>4, <1>5 DEF Shapes
<1>7. Rebasing(s)
  BY <1>1, <1>4, <1>6 DEF Rebasing, Rooted, Branches
<1>8. g.reflog \in Seq(AllCommits)
  BY <1>1 DEF Shapes
<1>9. Grows(g, s) /\ Recorded(s) = Recorded(g)
  BY <1>6, <1>8, GrowsSame
<1> QED
  BY <1>4, <1>6, <1>7, <1>9

LEMMA RebaseMade ==
  ASSUME NEW g \in Repositories, Clean(g), NEW from \in AllCommits, NEW todo \in Seq(Items),
         FromLog(todo, g.reflog), NEW r \in RunTodo(Starting(g), from, todo)
  PROVE  /\ Fine(g, r) /\ Saves(g, r)
         /\ ~r.ok \/ (\E it \in ToSet(todo) : it.verb = "edit") => Begun(g, r.g)
<1>1. PICK s : s = Starting(g)
  OBVIOUS
<1>2. /\ s \in Shapes /\ Rebasing(s) /\ s.head = g.head /\ s.on = "none" /\ s.branch = g.branch
      /\ s.index = g.index /\ s.tree = g.tree /\ s.reflog = g.reflog
      /\ s.op.orig = g.head /\ s.op.on = g.on /\ Grows(g, s) /\ Recorded(s) = Recorded(g)
  BY <1>1, StartingMade
<1>3. FromLog(todo, s.reflog) /\ r \in RunTodo(s, from, todo)
  BY <1>1, <1>2
<1>4. /\ Fine(s, r)
      /\ ~r.ok \/ (\E it \in ToSet(todo) : it.verb = "edit") => Carries(s, r.g)
      /\ s.index \union s.tree \subseteq TreeOf(from) \union Recorded(s) => Saves(s, r)
  BY <1>2, <1>3, RunTodoMade
<1>5. Kept(s) = Kept(g) /\ Saves(g, r)
  BY <1>2, <1>4, CleanSaves, KeptParts DEF Saves
<1>6. Fine(g, r)
  <2>1. g \in Shapes /\ r.g \in Shapes
    BY <1>4, RepoParts DEF Fine
  <2>2. Grows(g, r.g)
    BY <1>2, <1>4, <2>1, GrowsOn DEF Fine, Shapes
  <2> QED
    BY <1>4, <2>2 DEF Fine
<1>7. Carries(s, r.g) => Begun(g, r.g)
  <2> HAVE Carries(s, r.g)
  <2>1. r.g \in Shapes /\ g \in Shapes
    BY <1>4, RepoParts DEF Fine
  <2>2. r.g.branch \in [Branches -> AllCommits] /\ g.branch \in [Branches -> AllCommits]
    BY <2>1 DEF Shapes
  <2>3. \A b \in Branches : r.g.branch[b] = g.branch[b]
    BY <1>2 DEF Carries, Branches
  <2>4. r.g.branch = g.branch
    BY <2>2, <2>3
  <2> QED
    BY <2>4, <1>2 DEF Carries, Begun
<1> QED
  BY <1>4, <1>5, <1>6, <1>7

LEMMA PicksFromLog ==
  ASSUME NEW g \in Repositories, NEW base \in AllCommits
  PROVE  Picks(g, base) \in Seq(Items) /\ FromLog(Picks(g, base), g.reflog)
<1>1. g.head \in AllCommits /\ g.head \in ToSet(g.reflog)
  BY RepoParts DEF Shapes, Rooted
<1> QED
  BY <1>1, PicksMade DEF FromLog

LEMMA SameMade ==
  ASSUME NEW g \in Repositories, NEW r, r.g = g, r.ok \in BOOLEAN
  PROVE  Fine(g, r) /\ Saves(g, r) /\ Unmoved(g, r.g)
<1>1. g.reflog \in Seq(AllCommits)
  BY RepoParts DEF Shapes
<1>2. Grows(g, g)
  BY <1>1, GrowsSame
<1> QED
  BY <1>2 DEF Fine, Saves, Unmoved

LEMMA FailsAre ==
  ASSUME NEW g \in Repositories, NEW r \in Fails(g)
  PROVE  Fine(g, r) /\ Saves(g, r) /\ Unmoved(g, r.g) /\ ~r.ok
<1>1. r.g = g /\ r.ok = FALSE
  BY DEF Fails
<1> QED
  BY <1>1, SameMade

\* A process that does not succeed has left HEAD alone, or in the middle of a rebase.
Traceless(g, r) == ~r.ok => Unmoved(g, r.g) \/ Begun(g, r.g)

LEMMA ScriptedMade ==
  ASSUME NEW g \in Repositories, NEW c \in Listed,
         NEW verb \in {"pick", "edit", "squash", "drop", "reword"}, NEW autosquash \in BOOLEAN,
         verb = "squash" => Len(c) # 1,
         NEW r \in ScriptedRebase(g, c, verb, autosquash)
  PROVE  /\ Fine(g, r) /\ Saves(g, r) /\ Traceless(g, r)
         /\ r.ok /\ verb = "edit" /\ ~autosquash /\ Ancestor(c, g.head) => Begun(g, r.g)
<1>1. PICK d \in AllCommits : d = c /\ d # <<>>
  BY DEF Listed
<1>2. PICK f \in AllCommits : f = Front(d) /\ Len(f) + 1 = Len(d) /\ Ancestor(f, d)
  <2>1. PICK f \in AllCommits, l \in Changes : f = Front(d) /\ l = Last(d) /\ d = Append(f, l)
                                              /\ Len(f) + 1 = Len(d)
    BY <1>1, CommitLast
  <2> QED
    BY <2>1, AncestorOfNext
<1>3. PICK base \in AllCommits : base = Base(c, verb) /\ (verb # "squash" => base = f)
  <2>1. CASE verb = "squash"
    <3>1. f # <<>>
      BY <1>1, <1>2, <2>1, CommitLen
    <3>2. Front(f) \in AllCommits
      BY <3>1, CommitLast
    <3> QED
      BY <3>2, <1>1, <1>2, <2>1 DEF Base
  <2>2. CASE verb # "squash"
    BY <2>2, <1>1, <1>2 DEF Base
  <2> QED
    BY <2>1, <2>2
<1>4. PICK todo \in Seq(Items) : todo = Picks(g, base) /\ FromLog(todo, g.reflog)
  BY PicksFromLog
<1>5. PICK list : list = IF autosquash THEN Autosquash(todo) ELSE WithVerb(todo, c, verb)
  OBVIOUS
<1>6. list \in Seq(Items) /\ OfThose(list, todo)
  BY <1>5, AutosquashMade, WithVerbMade
<1>7. FromLog(list, g.reflog)
  BY <1>4, <1>6, FromLogOfThose
<1>8. r \in IF g.op # NoOp \/ ~Clean(g) THEN Fails(g) ELSE RunTodo(Starting(g), base, list)
  BY <1>3, <1>4, <1>5 DEF ScriptedRebase
<1>9. CASE r \in Fails(g)
  BY <1>9, FailsAre DEF Traceless
<1>10. CASE Clean(g) /\ r \in RunTodo(Starting(g), base, list)
  <2>1. /\ Fine(g, r) /\ Saves(g, r)
        /\ ~r.ok \/ (\E it \in ToSet(list) : it.verb = "edit") => Begun(g, r.g)
    BY <1>6, <1>7, <1>10, RebaseMade
  <2>2. ASSUME verb = "edit", ~autosquash, Ancestor(c, g.head)
        PROVE  \E it \in ToSet(list) : it.verb = "edit"
    <3>1. PICK h \in AllCommits : h = g.head
      BY RepoParts DEF Shapes
    <3>2. Ancestor(f, h)
      BY <1>1, <1>2, <2>2, <3>1, AncestorOn
    <3>3. Len(base) < Len(d) /\ base = f
      BY <1>2, <1>3, <2>2, CommitLen
    <3>4. \E it \in ToSet(todo) : it.of = c
      BY <1>1, <1>4, <2>2, <3>1, <3>2, <3>3, PicksMade
    <3>5. list = WithVerb(todo, c, verb)
      BY <1>5, <2>2
    <3> QED
      BY <2>2, <3>4, <3>5, WithVerbMade
  <2> QED
    BY <2>1, <2>2 DEF Traceless
<1> QED
  BY <1>8, <1>9, <1>10

LEMMA ReorderedMade ==
  ASSUME NEW g \in Repositories, NEW older \in Listed, NEW newer \in Listed,
         NEW r \in ReorderedRebase(g, older, newer)
  PROVE  Fine(g, r) /\ Saves(g, r) /\ Traceless(g, r)
<1>1. PICK base \in AllCommits : base = Front(older)
  <2>1. Front(older) \in AllCommits
    BY CommitLast DEF Listed
  <2> QED
    BY <2>1
<1>2. PICK todo \in Seq(Items) : todo = Picks(g, base) /\ FromLog(todo, g.reflog)
  BY PicksFromLog
<1>3. PICK at : at = {i \in 1..(Len(todo) - 1) : todo[i].of = older /\ todo[i + 1].of = newer}
  OBVIOUS
<1>4. CASE g.op # NoOp \/ ~Clean(g) \/ at = {}
  <2>1. r \in Fails(g)
    BY <1>1, <1>2, <1>3, <1>4 DEF ReorderedRebase
  <2> QED
    BY <2>1, FailsAre DEF Traceless
<1>5. CASE ~(g.op # NoOp \/ ~Clean(g) \/ at = {})
  <2>1. PICK i \in 1..(Len(todo) - 1) : i = CHOOSE x \in at : TRUE
    <3>1. (CHOOSE x \in at : TRUE) \in at
      BY <1>5
    <3> QED
      BY <3>1, <1>3
  <2>2. PICK w : w = [todo EXCEPT ![i] = todo[i + 1], ![i + 1] = todo[i]]
    OBVIOUS
  <2>3. w \in Seq(Items) /\ OfThose(w, todo)
    BY <1>2, <2>1, <2>2, SwappedMade
  <2>4. r \in RunTodo(Starting(g), base, w)
    <3>1. r \in LET x == CHOOSE x \in at : TRUE
                IN  RunTodo(Starting(g), base, [todo EXCEPT ![x] = todo[x + 1], ![x + 1] = todo[x]])
      BY <1>1, <1>2, <1>3, <1>5 DEF ReorderedRebase
    <3> QED
      BY <3>1, <2>1, <2>2
  <2>5. FromLog(w, g.reflog)
    BY <1>2, <2>3, FromLogOfThose
  <2> QED
    BY <1>1, <1>5, <2>3, <2>4, <2>5, RebaseMade DEF Traceless
<1> QED
  BY <1>4, <1>5

LEMMA OntoMade ==
  ASSUME NEW g \in Repositories, NEW b \in Branches, NEW r \in RebaseCurrentOnto(g, b)
  PROVE  Fine(g, r) /\ Saves(g, r) /\ Traceless(g, r)
<1>1. PICK onto \in AllCommits : onto = g.branch[b]
  BY RepoParts DEF Shapes
<1>2. PICK todo \in Seq(Items) : todo = Picks(g, onto) /\ FromLog(todo, g.reflog)
  BY PicksFromLog
<1>3. PICK w : w = [i \in DOMAIN todo |-> [todo[i] EXCEPT !.verb = "apply"]]
  OBVIOUS
<1>4. w \in Seq(Items) /\ OfThose(w, todo)
  BY <1>2, <1>3, AppliedMade
<1>5. FromLog(w, g.reflog)
  BY <1>2, <1>4, FromLogOfThose
<1>6. r \in IF g.op # NoOp \/ ~Clean(g) THEN Fails(g)
            ELSE IF Ancestor(onto, g.head) THEN Done(g) ELSE RunTodo(Starting(g), onto, w)
  BY <1>1, <1>2, <1>3 DEF RebaseCurrentOnto
<1>7. CASE r \in Fails(g)
  BY <1>7, FailsAre DEF Traceless
<1>8. CASE r \in Done(g)
  <2>1. r.g = g /\ r.ok = TRUE
    BY <1>8 DEF Done
  <2> QED
    BY <2>1, SameMade DEF Traceless
<1>9. CASE Clean(g) /\ r \in RunTodo(Starting(g), onto, w)
  BY <1>1, <1>4, <1>5, <1>9, RebaseMade DEF Traceless
<1> QED
  BY <1>6, <1>7, <1>8, <1>9

(***************************************************************************)
(* HEAD and its branch move.                                               *)
(***************************************************************************)
LEMMA HeldGrows ==
  ASSUME NEW op, NEW g, NEW m, Held(op, g.reflog), ToSet(g.reflog) \subseteq ToSet(m.reflog)
  PROVE  Held(op, m.reflog)
BY DEF Held, FromLog

LEMMA MovedRepo ==
  ASSUME NEW g \in Shapes, g.bisect.active \/ g.bisect = NoBisect, Held(g.op, g.reflog),
         NEW c \in AllCommits, NEW m, IsMoved(g, m, c)
  PROVE  m \in Repositories
<1>1. m \in Shapes /\ Rooted(m)
  BY DEF IsMoved, Rooted
<1>2. Held(m.op, m.reflog)
  BY HeldGrows DEF IsMoved, Grows
<1> QED
  BY <1>1, <1>2, RepoParts

\* HEAD of g is moved, on its branch.
LEMMA MovedHead ==
  ASSUME NEW g \in Repositories, NEW c \in AllCommits, NEW m, IsMoved(g, m, c)
  PROVE  m \in Repositories /\ Grows(g, m) /\ Recorded(g) \subseteq Recorded(m)
BY RepoParts, MovedRepo DEF Rooted, IsMoved, Grows

LEMMA OnItsBranch ==
  ASSUME NEW g \in Repositories, NEW c
  PROVE  g \in Shapes /\ (g.on \in Branches => g.branch[g.on] \in ToSet(g.reflog) \union {c})
BY RepoParts DEF Rooted

\* The branch of HEAD only is elsewhere, and HEAD with it.
Steps(g, v) ==
    /\ v.on = g.on /\ v.op = g.op /\ v.bisect = g.bisect
    /\ \A b \in Branches : b # g.on => v.branch[b] = g.branch[b]

LEMMA CommitIndexMade ==
  ASSUME NEW g \in Repositories, NEW subj \in Subjects, NEW fix \in BOOLEAN,
         NEW r \in CommitIndex(g, subj, fix)
  PROVE  /\ Fine(g, r) /\ Saves(g, r) /\ (~r.ok => r.g = g)
         /\ r.ok => Steps(g, r.g) /\ Ancestor(g.head, r.g.head) /\ Front(r.g.head) = g.head
<1>1. g \in Shapes /\ Rooted(g)
  BY RepoParts
<1>2. PICK h \in AllCommits, t \in SUBSET Edits : h = g.head /\ t = TreeOf(h)
  BY <1>1, TreeType DEF Shapes
<1>3. CASE r \in Fails(g)
  <2>1. r.g = g /\ r.ok = FALSE
    BY <1>3 DEF Fails
  <2> QED
    BY <2>1, SameMade
<1>4. CASE r \notin Fails(g)
  <2>1. PICK l : l = [add |-> g.index \ t, del |-> t \ g.index, subj |-> subj, by |-> "us", fix |-> fix]
    OBVIOUS
  <2>2. l \in Changes /\ l.add = g.index \ t /\ l.del = t \ g.index /\ g.index \in SUBSET Edits
    BY <1>1, <1>2, <2>1 DEF Changes, Shapes
  <2>3. PICK c \in AllCommits : c = Append(h, l) /\ TreeOf(c) = g.index
    <3>1. PICK x \in SUBSET Edits : x = g.index
      BY <2>2
    <3>2. l.add = x \ TreeOf(h) /\ l.del = TreeOf(h) \ x
      BY <1>2, <2>2, <3>1
    <3>3. Append(h, l) \in AllCommits /\ TreeOf(Append(h, l)) = x
      BY <2>2, <3>2, IndexCommit
    <3> QED
      BY <3>1, <3>3
  <2>4. r = [g |-> Moved(g, c), ok |-> TRUE]
    BY <1>2, <1>4, <2>1, <2>3 DEF CommitIndex, Done
  <2>5. PICK m : m = Moved(g, c)
    OBVIOUS
  <2>6. IsMoved(g, m, c) /\ m.index = g.index /\ m.tree = g.tree
    BY <2>5, OnItsBranch, MovedMade
  <2>7. m \in Repositories /\ Grows(g, m) /\ Recorded(g) \subseteq Recorded(m)
    BY <2>6, MovedHead
  <2>8. Ancestor(h, c) /\ Front(c) = h
    BY <2>2, <2>3, AncestorOfNext
  <2>9. r.g = m /\ r.ok = TRUE
    BY <2>4, <2>5
  <2> QED
    BY <1>2, <2>6, <2>7, <2>8, <2>9, KeptParts DEF Fine, Saves, Steps, IsMoved
<1> QED
  BY <1>3, <1>4

LEMMA ResetMade ==
  ASSUME NEW g \in Repositories, NEW c \in AllCommits, NEW mode \in {"Soft", "Mixed", "Hard"},
         NEW r \in Reset(g, mode, c)
  PROVE  /\ Fine(g, r) /\ r.ok
         /\ mode = "Soft" => Saves(g, r)
         /\ mode = "Mixed" => Kept(g) \ Kept(r.g) \subseteq g.index \ g.tree
         /\ Clean(g) => Saves(g, r)
<1>1. PICK t \in SUBSET Edits : t = TreeOf(c)
  BY TreeType
<1>2. PICK m : m = Moved(g, c)
  OBVIOUS
<1>3. IsMoved(g, m, c) /\ m.index = g.index /\ m.tree = g.tree
  BY <1>2, OnItsBranch, MovedMade
<1>4. CASE mode = "Soft"
  <2>1. r.g = m /\ r.ok = TRUE
    BY <1>2, <1>4 DEF Reset, Done
  <2> QED
    BY <2>1, <1>3, <1>4, MovedHead, KeptParts DEF Fine, Saves
<1>5. CASE mode = "Mixed"
  <2>1. PICK n : n = [m EXCEPT !.index = t]
    OBVIOUS
  <2>2. /\ n \in Shapes /\ n.index = t /\ n.tree = m.tree /\ n.head = m.head /\ n.on = m.on
        /\ n.op = m.op /\ n.bisect = m.bisect /\ n.branch = m.branch /\ n.reflog = m.reflog
    BY <1>3, <2>1 DEF IsMoved, Shapes
  <2>3. IsMoved(g, n, c)
    BY <1>3, <2>2, OnItsBranch, MovedWith
  <2>4. r.g = n /\ r.ok = TRUE
    BY <1>1, <1>2, <1>5, <2>1 DEF Reset, Done
  <2>5. n \in Repositories /\ Grows(g, n) /\ Recorded(g) \subseteq Recorded(n)
    BY <2>3, MovedHead
  <2>6. Kept(g) = Recorded(g) \union g.index \union g.tree
        /\ Kept(n) = Recorded(n) \union n.index \union n.tree
    BY KeptParts
  <2> QED
    BY <1>3, <1>5, <2>2, <2>4, <2>5, <2>6, CleanSaves DEF Fine, Saves
<1>6. CASE mode = "Hard"
  <2>1. PICK n : n = At(g, c)
    OBVIOUS
  <2>2. IsMoved(g, n, c)
    BY <2>1, OnItsBranch, AtMade
  <2>3. r.g = n /\ r.ok = TRUE
    BY <1>6, <2>1 DEF Reset, Done
  <2> QED
    BY <1>6, <2>2, <2>3, MovedHead, CleanSaves, KeptParts DEF Fine, Saves
<1> QED
  BY <1>4, <1>5, <1>6

LEMMA AmendMade ==
  ASSUME NEW g \in Repositories, NEW r \in AmendAttributes(g)
  PROVE  Fine(g, r) /\ Saves(g, r) /\ (~r.ok => r.g = g) /\ (r.ok => Steps(g, r.g))
<1>1. PICK h \in AllCommits : h = g.head
  BY RepoParts DEF Shapes
<1>2. CASE r \in Fails(g)
  <2>1. r.g = g /\ r.ok = FALSE
    BY <1>2 DEF Fails
  <2> QED
    BY <2>1, SameMade
<1>3. CASE r \notin Fails(g)
  <2>1. h # <<>>
    BY <1>1, <1>3 DEF AmendAttributes
  <2>2. PICK l \in Changes : l = [Last(h) EXCEPT !.by = "us"]
                             /\ l.add = Last(h).add /\ l.del = Last(h).del
    <3>1. PICK k \in Changes : k = Last(h)
      BY <2>1, CommitLast
    <3>2. PICK l : l = [k EXCEPT !.by = "us"]
      OBVIOUS
    <3>3. l \in Changes /\ l.add = k.add /\ l.del = k.del
      BY <3>2 DEF Changes
    <3> QED
      BY <3>1, <3>2, <3>3
  <2>3. PICK c \in AllCommits : c = Append(Front(h), l)
    BY <2>1, <2>2, Relabelled
  <2>4. PICK m : m = Moved(g, c)
    OBVIOUS
  <2>5. r.g = m /\ r.ok = TRUE
    BY <1>1, <1>3, <2>2, <2>3, <2>4 DEF AmendAttributes, Done
  <2>6. IsMoved(g, m, c) /\ m.index = g.index /\ m.tree = g.tree
    BY <2>4, OnItsBranch, MovedMade
  <2>7. m \in Repositories /\ Grows(g, m) /\ Recorded(g) \subseteq Recorded(m)
    BY <2>6, MovedHead
  <2>8. Kept(g) \subseteq Kept(m)
    BY <2>6, <2>7, KeptParts
  <2>9. Steps(g, m)
    BY <2>6 DEF Steps, IsMoved
  <2> QED
    BY <2>5, <2>7, <2>8, <2>9 DEF Fine, Saves
<1> QED
  BY <1>2, <1>3

(***************************************************************************)
(* Changes picked or reverted one at a time.                               *)
(***************************************************************************)
LEMMA StuckMade ==
  ASSUME NEW g \in Repositories, NEW kind \in {"pick", "revert"}, NEW c \in Listed,
         NEW r, r = Stuck(g, kind, c)
  PROVE  Fine(g, r) /\ Saves(g, r) /\ Unmoved(g, r.g) /\ r.ok = FALSE
<1>1. g \in Shapes /\ Rooted(g) /\ g.reflog \in Seq(AllCommits)
  BY RepoParts DEF Shapes
<1>2. PICK it \in Items : it = [verb |-> "pick", of |-> c]
  <2>1. [verb |-> "pick", of |-> c] \in Items
    BY DEF Items, Listed
  <2> QED
    BY <2>1
<1>3. PICK todo \in Seq(Items) : todo = <<it>> /\ todo # <<>>
  <2>1. <<it>> \in Seq(Items) /\ <<it>> # <<>>
    OBVIOUS
  <2> QED
    BY <2>1
<1>4. PICK o : o = [NoOp EXCEPT !.kind = kind, !.orig = g.head, !.stop = "conflict", !.todo = todo]
  OBVIOUS
<1>5. /\ o \in Operations /\ o.kind = kind /\ o.orig = g.head /\ o.stop = "conflict"
      /\ o.todo = todo
  BY <1>1, <1>4, EmptyCommit DEF NoOp, Operations, Shapes
<1>6. PICK v : v = [g EXCEPT !.op = o]
  OBVIOUS
<1>7. /\ v \in Shapes /\ v.head = g.head /\ v.on = g.on /\ v.branch = g.branch /\ v.op = o
      /\ v.index = g.index /\ v.tree = g.tree /\ v.reflog = g.reflog /\ v.bisect = g.bisect
  BY <1>1, <1>5, <1>6 DEF Shapes
<1>8. Rooted(v)
  BY <1>1, <1>7 DEF Rooted
<1>9. Held(v.op, v.reflog)
  <2>1. o # NoOp
    BY <1>5 DEF NoOp
  <2> QED
    BY <2>1, <1>3, <1>5, <1>7 DEF Held
<1>10. v \in Repositories
  BY <1>7, <1>8, <1>9, RepoParts
<1>11. Grows(g, v) /\ Recorded(v) = Recorded(g)
  BY <1>1, <1>7, GrowsSame
<1>12. Kept(v) = Kept(g)
  BY <1>7, <1>11, KeptParts
<1>13. r.g = v /\ r.ok = FALSE
  BY <1>2, <1>3, <1>4, <1>6 DEF Stuck
<1> QED
  BY <1>7, <1>10, <1>11, <1>12, <1>13 DEF Fine, Saves, Unmoved

LEMMA CommitChangeMade ==
  ASSUME NEW g \in Repositories, IndexClean(g), NEW ch \in Changes, NEW v, v = CommitChange(g, ch)
  PROVE  v \in Repositories /\ Grows(g, v) /\ Kept(g) \subseteq Kept(v)
<1>1. g \in Shapes /\ Rooted(g)
  BY RepoParts
<1>2. PICK h \in AllCommits, t \in SUBSET Edits : h = g.head /\ t = TreeOf(h)
  BY <1>1, TreeType DEF Shapes
<1>3. PICK c \in AllCommits : c = Append(h, Onto(t, ch))
  BY <1>2, PickedCommit
<1>4. PICK x \in SUBSET Edits : x = TreeOf(c)
  BY TreeType
<1>5. PICK m : m = Moved(g, c)
  OBVIOUS
<1>6. IsMoved(g, m, c)
  BY <1>5, OnItsBranch, MovedMade
<1>7. PICK y \in SUBSET Edits : y = (x \union (g.tree \ g.index)) \ (g.index \ g.tree)
  BY <1>1 DEF Shapes
<1>8. v = [m EXCEPT !.index = x, !.tree = y]
  BY <1>2, <1>3, <1>4, <1>5, <1>7 DEF CommitChange
<1>9. /\ v \in Shapes /\ v.index = x /\ v.tree = y /\ v.head = m.head /\ v.on = m.on
      /\ v.op = m.op /\ v.bisect = m.bisect /\ v.branch = m.branch /\ v.reflog = m.reflog
  BY <1>6, <1>8 DEF IsMoved, Shapes
<1>10. IsMoved(g, v, c)
  BY <1>1, <1>6, <1>9, MovedWith
<1>11. v \in Repositories /\ Grows(g, v) /\ Recorded(g) \subseteq Recorded(v)
  BY <1>10, MovedHead
<1>12. g.index \subseteq Recorded(g)
  BY <1>1, HeadIsRecorded DEF IndexClean
<1>13. g.tree \subseteq g.index \union y
  BY <1>7
<1>14. Kept(g) \subseteq Kept(v)
  BY <1>9, <1>11, <1>12, <1>13, KeptParts
<1> QED
  BY <1>11, <1>14

LEMMA UndoingType ==
  ASSUME NEW ch \in Changes
  PROVE  Undoing(ch) \in Changes
<1>1. "revert" \in Subjects
  BY SubjectsAssumption
<1>2. PICK u : u = [ch EXCEPT !.add = ch.del, !.del = ch.add, !.subj = "revert", !.fix = FALSE]
  OBVIOUS
<1>3. u \in Changes
  BY <1>1, <1>2 DEF Changes
<1> QED
  BY <1>2, <1>3 DEF Undoing

LEMMA ListedParts ==
  ASSUME NEW c \in Listed
  PROVE  c \in AllCommits /\ Last(c) \in Changes /\ Front(c) \in AllCommits
BY CommitLast DEF Listed

LEMMA CherryPickNextMade ==
  ASSUME NEW r, r.g \in Repositories, r.ok \in BOOLEAN, NEW c \in Listed,
         NEW v, v = CherryPickNext(r, c)
  PROVE  /\ Fine(r.g, v) /\ Saves(r.g, v)
         /\ r.ok /\ ~v.ok => Unmoved(r.g, v.g)
<1>1. PICK g \in Repositories, ch \in Changes : g = r.g /\ ch = Last(c)
  BY ListedParts
<1>2. v = IF ~r.ok THEN r
          ELSE IF Refuses(g, ch) THEN [g |-> g, ok |-> FALSE]
          ELSE IF Conflicts(TreeOf(g.head), ch) \/ Empty(Onto(TreeOf(g.head), ch)) THEN Stuck(g, "pick", c)
          ELSE [g |-> CommitChange(g, ch), ok |-> TRUE]
  BY <1>1, Zenon DEF CherryPickNext
<1>3. SUFFICES Fine(g, v) /\ Saves(g, v) /\ (r.ok /\ ~v.ok => Unmoved(g, v.g))
  BY <1>1
<1>4. CASE ~r.ok
  <2>1. v.g = g /\ v.ok \in BOOLEAN
    BY <1>1, <1>2, <1>4
  <2> QED
    BY <1>4, <2>1, SameMade
<1>5. CASE r.ok /\ Refuses(g, ch)
  <2>1. v.g = g /\ v.ok = FALSE
    BY <1>2, <1>5
  <2> QED
    BY <2>1, SameMade
<1>6. CASE v = Stuck(g, "pick", c)
  BY <1>6, StuckMade
<1>7. CASE ~Refuses(g, ch) /\ v = [g |-> CommitChange(g, ch), ok |-> TRUE]
  <2>1. PICK w : w = CommitChange(g, ch)
    OBVIOUS
  <2>2. w \in Repositories /\ Grows(g, w) /\ Kept(g) \subseteq Kept(w)
    BY <1>7, <2>1, CommitChangeMade DEF Refuses
  <2>3. v.g = w /\ v.ok = TRUE
    BY <1>7, <2>1
  <2> QED
    BY <2>2, <2>3 DEF Fine, Saves
<1> QED
  BY <1>2, <1>4, <1>5, <1>6, <1>7

Pastes(n) ==
    \A g \in Repositories, s \in Seq(Listed) : Len(s) = n =>
        Fine(g, Picked(g, s)) /\ Saves(g, Picked(g, s))

PasteInduction == INSTANCE Induction WITH P <- Pastes, Op <- CherryPickNext

LEMMA PickedMade ==
  ASSUME NEW g \in Repositories, NEW s \in Seq(Listed)
  PROVE  Fine(g, Picked(g, s)) /\ Saves(g, Picked(g, s))
<1>1. Pastes(0)
  <2> SUFFICES ASSUME NEW f \in Repositories, NEW q \in Seq(Listed), Len(q) = 0
               PROVE  Fine(f, Picked(f, q)) /\ Saves(f, Picked(f, q))
    BY DEF Pastes
  <2>1. q = <<>>
    OBVIOUS
  <2>2. PICK r : r = Picked(f, q)
    OBVIOUS
  <2>3. r.g = f /\ r.ok = TRUE
    BY <2>1, <2>2, PasteEmpty
  <2>4. Fine(f, r) /\ Saves(f, r)
    BY <2>3, SameMade
  <2> QED
    BY <2>2, <2>4
<1>2. \A n \in Nat : Pastes(n) => Pastes(n + 1)
  <2> SUFFICES ASSUME NEW n \in Nat, Pastes(n), NEW f \in Repositories, NEW q \in Seq(Listed),
                      Len(q) = n + 1
               PROVE  Fine(f, Picked(f, q)) /\ Saves(f, Picked(f, q))
    BY DEF Pastes
  <2>1. PICK p \in Seq(Listed), e \in Listed : q = Append(p, e) /\ Len(p) = n
    BY SeqSplit
  <2>2. PICK r : r = Picked(f, p)
    OBVIOUS
  <2>3. Fine(f, r) /\ Saves(f, r)
    BY <2>1, <2>2 DEF Pastes
  <2>4. PICK v : v = CherryPickNext(r, e) /\ Picked(f, q) = v
    BY <2>1, <2>2, PasteAppend
  <2>5. Fine(r.g, v) /\ Saves(r.g, v)
    BY <2>3, <2>4, CherryPickNextMade DEF Fine
  <2>6. Grows(f, v.g)
    <3>1. f \in Shapes /\ r.g \in Shapes /\ v.g \in Shapes
      BY <2>3, <2>5, RepoParts DEF Fine
    <3> QED
      BY <3>1, <2>3, <2>5, GrowsOn DEF Fine, Shapes
  <2> QED
    BY <2>3, <2>4, <2>5, <2>6 DEF Fine, Saves
<1>3. \A n \in Nat : Pastes(n)
  BY <1>1, <1>2, NumbersWellOrdered, PasteInduction!Induct DEF PasteInduction!WellOrdered
<1>4. Pastes(Len(s)) /\ Len(s) \in Nat
  BY <1>3
<1> QED
  BY <1>4 DEF Pastes

LEMMA CherryPickMade ==
  ASSUME NEW g \in Repositories, NEW c \in Listed, NEW r \in CherryPick(g, <<c>>)
  PROVE  Fine(g, r) /\ Saves(g, r) /\ (~r.ok => Unmoved(g, r.g))
<1>1. PICK e : e = [g |-> g, ok |-> TRUE]
  OBVIOUS
<1>2. <<>> \in Seq(Listed) /\ Append(<<>>, c) = <<c>>
  OBVIOUS
<1>3. Picked(g, <<c>>) = CherryPickNext(e, c)
  <2>1. Picked(g, Append(<<>>, c)) = CherryPickNext(Picked(g, <<>>), c)
    BY <1>2, PasteAppend
  <2> QED
    BY <2>1, <1>1, <1>2, PasteEmpty
<1>4. r = CherryPickNext(e, c) /\ e.g = g /\ e.ok = TRUE
  BY <1>1, <1>3 DEF CherryPick
<1>5. e.g \in Repositories /\ e.ok \in BOOLEAN
  BY <1>4
<1>6. Fine(e.g, r) /\ Saves(e.g, r) /\ (e.ok /\ ~r.ok => Unmoved(e.g, r.g))
  BY <1>4, <1>5, CherryPickNextMade
<1> QED
  BY <1>4, <1>6

LEMMA RevertMade ==
  ASSUME NEW g \in Repositories, NEW c \in Listed, NEW r \in Revert(g, c)
  PROVE  Fine(g, r) /\ Saves(g, r) /\ (~r.ok => Unmoved(g, r.g))
<1>1. PICK ch \in Changes : ch = Undoing(Last(c))
  BY ListedParts, UndoingType
<1>2. r \in IF Refuses(g, ch) \/ Empty(Onto(TreeOf(g.head), ch)) THEN Fails(g)
            ELSE IF Conflicts(TreeOf(g.head), ch) THEN {Stuck(g, "revert", c)}
            ELSE Done(CommitChange(g, ch))
  BY <1>1 DEF Revert
<1>3. CASE r \in Fails(g)
  BY <1>3, FailsAre
<1>4. CASE r = Stuck(g, "revert", c)
  BY <1>4, StuckMade
<1>5. CASE ~Refuses(g, ch) /\ r \in Done(CommitChange(g, ch))
  <2>1. PICK w : w = CommitChange(g, ch)
    OBVIOUS
  <2>2. w \in Repositories /\ Grows(g, w) /\ Kept(g) \subseteq Kept(w)
    BY <1>5, <2>1, CommitChangeMade DEF Refuses
  <2>3. r.g = w /\ r.ok = TRUE
    BY <1>5, <2>1 DEF Done
  <2> QED
    BY <2>2, <2>3 DEF Fine, Saves
<1> QED
  BY <1>2, <1>3, <1>4, <1>5

(***************************************************************************)
(* Checkouts and bisects.                                                  *)
(***************************************************************************)
LEMMA CheckoutMade ==
  ASSUME NEW g \in Repositories, NEW c \in AllCommits, NEW b \in Branches \union {"none"},
         b \in Branches => c = g.branch[b], NEW r \in Checkout(g, c, b)
  PROVE  /\ Fine(g, r) /\ Saves(g, r) /\ (~r.ok => r.g = g)
         /\ r = [g |-> r.g, ok |-> r.ok]
<1>1. g \in Shapes /\ Rooted(g) /\ Held(g.op, g.reflog) /\ g.reflog \in Seq(AllCommits)
  BY RepoParts DEF Shapes
<1>2. CASE Blocked(g, c)
  <2>1. r = [g |-> g, ok |-> FALSE]
    BY <1>2 DEF Checkout, Fails
  <2>2. r.g = g /\ r.ok = FALSE
    BY <2>1
  <2> QED
    BY <2>1, <2>2, SameMade
<1>3. CASE ~Blocked(g, c)
  <2>1. PICK s : s = [g EXCEPT !.on = b]
    OBVIOUS
  <2>2. /\ s \in Shapes /\ s.on = b /\ s.head = g.head /\ s.branch = g.branch /\ s.index = g.index
        /\ s.tree = g.tree /\ s.reflog = g.reflog /\ s.op = g.op /\ s.bisect = g.bisect
    BY <1>1, <2>1 DEF Shapes
  <2>3. PICK m : m = Moved(s, c)
    OBVIOUS
  <2>4. s.on \in Branches => s.branch[s.on] \in ToSet(s.reflog) \union {c}
    BY <2>2
  <2>5. IsMoved(s, m, c)
    BY <2>2, <2>3, <2>4, MovedMade
  <2>6. PICK t \in SUBSET Edits : t = TreeOf(g.head)
    BY <1>1, HeadIsRecorded
  <2>7. PICK u \in SUBSET Edits : u = TreeOf(c)
    BY TreeType
  <2>8. PICK x \in SUBSET Edits, y \in SUBSET Edits :
            /\ x = Carried(g, c, g.index) /\ x = (u \union (g.index \ t)) \ (t \ g.index)
            /\ y = Carried(g, c, g.tree) /\ y = (u \union (g.tree \ t)) \ (t \ g.tree)
    BY <1>1, <2>6, <2>7 DEF Carried, Shapes
  <2>9. PICK v : v = [m EXCEPT !.index = x, !.tree = y]
    OBVIOUS
  <2>10. /\ v \in Shapes /\ v.index = x /\ v.tree = y /\ v.head = m.head /\ v.on = m.on
         /\ v.op = m.op /\ v.bisect = m.bisect /\ v.branch = m.branch /\ v.reflog = m.reflog
    BY <2>5, <2>9 DEF IsMoved, Shapes
  <2>11. IsMoved(s, v, c)
    BY <2>2, <2>5, <2>10, MovedWith
  <2>12. v \in Repositories
    BY <1>1, <2>2, <2>11, MovedRepo DEF Rooted
  <2>13. Recorded(s) = Recorded(g)
    BY <2>2 DEF Recorded
  <2>14. Grows(g, v)
    BY <2>2, <2>11, <2>13 DEF IsMoved, Grows
  <2>15. r = [g |-> v, ok |-> TRUE]
    BY <1>3, <2>1, <2>3, <2>8, <2>9 DEF Checkout, Done
  <2>16. r.g = v /\ r.ok = TRUE
    BY <2>15
  <2>17. Kept(g) \subseteq Kept(v)
    <3>1. t \subseteq Recorded(g)
      BY <1>1, <2>6, HeadIsRecorded
    <3>2. g.index \subseteq t \union x /\ g.tree \subseteq t \union y
      BY <2>8
    <3> QED
      BY <3>1, <3>2, <2>10, <2>14, KeptParts DEF Grows
  <2> QED
    BY <2>12, <2>14, <2>15, <2>16, <2>17 DEF Fine, Saves
<1> QED
  BY <1>2, <1>3

LEMMA ForceCheckoutMade ==
  ASSUME NEW g \in Repositories, NEW b \in Branches, NEW r \in ForceCheckout(g, b)
  PROVE  Fine(g, r) /\ r.ok
<1>1. g \in Shapes /\ Rooted(g) /\ Held(g.op, g.reflog) /\ g.reflog \in Seq(AllCommits)
  BY RepoParts DEF Shapes
<1>2. PICK c \in AllCommits : c = g.branch[b]
  BY <1>1 DEF Shapes
<1>3. PICK s : s = [g EXCEPT !.on = b]
  OBVIOUS
<1>4. /\ s \in Shapes /\ s.on = b /\ s.head = g.head /\ s.branch = g.branch /\ s.index = g.index
      /\ s.tree = g.tree /\ s.reflog = g.reflog /\ s.op = g.op /\ s.bisect = g.bisect
  BY <1>1, <1>3 DEF Shapes
<1>5. PICK m : m = At(s, c)
  OBVIOUS
<1>6. s.on \in Branches => s.branch[s.on] \in ToSet(s.reflog) \union {c}
  BY <1>2, <1>4
<1>7. IsMoved(s, m, c)
  BY <1>4, <1>5, <1>6, AtMade
<1>8. m \in Repositories
  BY <1>1, <1>4, <1>7, MovedRepo DEF Rooted
<1>8a. PICK p \in Operations : p = g.op /\ p = m.op /\ Held(p, m.reflog)
  BY <1>1, <1>4, <1>7, <1>8, RepoParts DEF IsMoved, Shapes
<1>9. PICK o : o = IF p.kind # "rebase" THEN NoOp
                   ELSE IF p.stop = "conflict" THEN [p EXCEPT !.stop = "resolved"] ELSE p
  OBVIOUS
<1>10. m \in Shapes /\ Rooted(m)
  BY <1>8, RepoParts
<1>11. o \in Operations /\ Held(o, m.reflog)
  <2>1. CASE p.kind # "rebase"
    <3>1. <<>> \in Seq(Items)
      OBVIOUS
    <3> QED
      BY <2>1, <3>1, <1>9, EmptyCommit DEF NoOp, Operations, Held
  <2>2. CASE p.kind = "rebase" /\ p.stop # "conflict"
    BY <2>2, <1>8a, <1>9
  <2>3. CASE p.kind = "rebase" /\ p.stop = "conflict"
    <3>1. /\ o \in Operations /\ o.kind = "rebase" /\ o.stop = "resolved" /\ o.todo = p.todo
          /\ o.orig = p.orig
      BY <2>3, <1>8a, <1>9 DEF Operations
    <3>2. o # NoOp
      BY <3>1 DEF NoOp
    <3> QED
      BY <2>3, <3>1, <3>2, <1>8a DEF Held
  <2> QED
    BY <2>1, <2>2, <2>3
<1>12. PICK v : v = [m EXCEPT !.op = o]
  OBVIOUS
<1>13. /\ v \in Shapes /\ v.index = m.index /\ v.tree = m.tree /\ v.head = m.head /\ v.on = m.on
       /\ v.op = o /\ v.bisect = m.bisect /\ v.branch = m.branch /\ v.reflog = m.reflog
  BY <1>10, <1>11, <1>12 DEF Shapes
<1>14. v \in Repositories
  BY <1>10, <1>11, <1>13, RepoParts DEF Rooted
<1>15. Recorded(s) = Recorded(g) /\ Recorded(v) = Recorded(m)
  BY <1>4, <1>13 DEF Recorded
<1>16. Grows(g, v)
  BY <1>4, <1>7, <1>13, <1>15 DEF IsMoved, Grows
<1>17. r = [g |-> v, ok |-> TRUE]
  <2>1. PICK there : there = At([g EXCEPT !.on = b], g.branch[b])
    OBVIOUS
  <2>2. there = m
    BY <2>1, <1>2, <1>3, <1>5
  <2>3. r = [g |-> [there EXCEPT !.op = IF g.op.kind # "rebase" THEN NoOp
                         ELSE IF g.op.stop = "conflict" THEN [g.op EXCEPT !.stop = "resolved"]
                         ELSE g.op],
             ok |-> TRUE]
    BY <2>1, Zenon DEF ForceCheckout, Done
  <2> QED
    BY <2>2, <2>3, <1>8a, <1>9, <1>12
<1>18. r.g = v /\ r.ok = TRUE
  BY <1>17
<1> QED
  BY <1>14, <1>16, <1>18 DEF Fine

\* Another state of the bisect, in the same repository.
LEMMA BisectingMade ==
  ASSUME NEW g \in Repositories, NEW bi \in Bisections, bi.active \/ bi = NoBisect,
         NEW v, v = [g EXCEPT !.bisect = bi]
  PROVE  /\ v \in Repositories /\ Grows(g, v) /\ Kept(v) = Kept(g) /\ Unmoved(g, v)
         /\ v.bisect = bi /\ v.op = g.op
<1>1. g \in Shapes /\ Rooted(g) /\ Held(g.op, g.reflog) /\ g.reflog \in Seq(AllCommits)
  BY RepoParts DEF Shapes
<1>2. /\ v \in Shapes /\ v.on = g.on /\ v.head = g.head /\ v.branch = g.branch /\ v.index = g.index
      /\ v.tree = g.tree /\ v.reflog = g.reflog /\ v.op = g.op /\ v.bisect = bi
  BY <1>1 DEF Shapes
<1>3. v \in Repositories
  BY <1>1, <1>2, RepoParts DEF Rooted
<1>4. Grows(g, v) /\ Recorded(v) = Recorded(g)
  BY <1>1, <1>2, GrowsSame
<1> QED
  BY <1>2, <1>3, <1>4, KeptParts DEF Unmoved

LEMMA BisectStartMade ==
  ASSUME NEW g \in Repositories, NEW r \in BisectStart(g)
  PROVE  Fine(g, r) /\ Saves(g, r) /\ Unmoved(g, r.g) /\ r.ok /\ r.g.op = g.op
<1>1. g \in Shapes
  BY RepoParts
<1>2. PICK bi : bi = [NoBisect EXCEPT !.active = TRUE, !.on = g.on, !.at = g.head]
  OBVIOUS
<1>3. bi \in Bisections /\ bi.active
  BY <1>1, <1>2, EmptyCommit DEF NoBisect, Bisections, Shapes
<1>4. PICK v : v = [g EXCEPT !.bisect = bi]
  OBVIOUS
<1>5. v \in Repositories /\ Grows(g, v) /\ Kept(v) = Kept(g) /\ Unmoved(g, v) /\ v.op = g.op
  BY <1>3, <1>4, BisectingMade
<1>6. r.g = v /\ r.ok = TRUE
  BY <1>2, <1>4 DEF BisectStart, Done
<1> QED
  BY <1>5, <1>6 DEF Fine, Saves

LEMMA MarkedMade ==
  ASSUME NEW bi \in Bisections, bi.active, NEW term \in {"bad", "good", "skip"},
         NEW c \in AllCommits
  PROVE  Marked(bi, term, c) \in Bisections /\ Marked(bi, term, c).active
<1>1. PICK n \in AllCommits : n = IF bi.next = c THEN c ELSE <<>>
  BY EmptyCommit
<1>2. PICK asked : asked = [bi EXCEPT !.next = n]
  OBVIOUS
<1>3. asked \in Bisections /\ asked.active
  BY <1>1, <1>2 DEF Bisections
<1>4. Marked(bi, term, c) = CASE term = "bad" -> [asked EXCEPT !.bad = {c}]
                              [] term = "good" -> [asked EXCEPT !.good = @ \union {c}]
                              [] term = "skip" -> [asked EXCEPT !.skip = @ \union {c}]
  BY <1>1, <1>2 DEF Marked
<1>5. CASE term = "bad"
  <2>1. Marked(bi, term, c) = [asked EXCEPT !.bad = {c}]
    BY <1>4, <1>5
  <2> QED
    BY <2>1, <1>3 DEF Bisections
<1>6. CASE term = "good"
  <2>1. PICK x \in SUBSET AllCommits : x = asked.good \union {c}
    BY <1>3 DEF Bisections
  <2>2. Marked(bi, term, c) = [asked EXCEPT !.good = x]
    BY <2>1, <1>4, <1>6
  <2> QED
    BY <2>2, <1>3 DEF Bisections
<1>7. CASE term = "skip"
  <2>1. PICK x \in SUBSET AllCommits : x = asked.skip \union {c}
    BY <1>3 DEF Bisections
  <2>2. Marked(bi, term, c) = [asked EXCEPT !.skip = x]
    BY <2>1, <1>4, <1>7
  <2> QED
    BY <2>2, <1>3 DEF Bisections
<1> QED
  BY <1>5, <1>6, <1>7

LEMMA AskedMade ==
  ASSUME NEW bi \in Bisections, NEW bad \in AllCommits
  PROVE  Bases(bi, bad) \subseteq AllCommits /\ Suspects(bi, bad) \subseteq AllCommits
<1>1. ASSUME NEW x \in bi.good
      PROVE  LongestCommonPrefix({bad, x}) \in AllCommits
  <2>1. x \in AllCommits
    BY DEF Bisections
  <2> QED
    BY <2>1, CommonPrefix
<1>2. Bases(bi, bad) \subseteq AllCommits
  BY <1>1 DEF Bases
<1>3. ASSUME NEW n \in 1..(Len(bad) - 1)
      PROVE  SubSeq(bad, 1, n) \in AllCommits
  <2>1. n \in 0..Len(bad)
    BY CommitLen
  <2> QED
    BY <2>1, CommitPrefix
<1>4. Suspects(bi, bad) \subseteq AllCommits
  BY <1>3 DEF Suspects
<1> QED
  BY <1>2, <1>4

LEMMA AskAboutMade ==
  ASSUME NEW g \in Repositories, g.bisect.active, NEW c \in AllCommits, NEW r \in AskAbout(g, c)
  PROVE  Fine(g, r) /\ Saves(g, r) /\ (~r.ok => Unmoved(g, r.g))
<1>1. g \in Shapes /\ g.bisect \in Bisections
  BY RepoParts DEF Shapes
<1>2. PICK bi : bi = [g.bisect EXCEPT !.next = c]
  OBVIOUS
<1>3. bi \in Bisections /\ bi.active
  BY <1>1, <1>2 DEF Bisections
<1>4. PICK v : v = [g EXCEPT !.bisect = bi]
  OBVIOUS
<1>5. v \in Repositories /\ Grows(g, v) /\ Kept(v) = Kept(g) /\ Unmoved(g, v)
  BY <1>3, <1>4, BisectingMade
<1>6. v = [g EXCEPT !.bisect.next = c]
  BY <1>1, <1>2, <1>4 DEF Shapes, Bisections
<1>7. r \in Checkout(v, c, "none")
  BY <1>6 DEF AskAbout
<1>8. Fine(v, r) /\ Saves(v, r) /\ (~r.ok => r.g = v)
  BY <1>5, <1>7, CheckoutMade DEF Branches
<1>9. Grows(g, r.g)
  <2>1. v \in Shapes /\ r.g \in Shapes
    BY <1>5, <1>8, RepoParts DEF Fine
  <2> QED
    BY <2>1, <1>1, <1>5, <1>8, GrowsOn DEF Fine, Shapes
<1> QED
  BY <1>5, <1>8, <1>9 DEF Fine, Saves, Unmoved

LEMMA BisectNextMade ==
  ASSUME NEW g \in Repositories, g.bisect.active, NEW r \in BisectNext(g)
  PROVE  Fine(g, r) /\ Saves(g, r) /\ (~r.ok => Unmoved(g, r.g))
<1>1. PICK bi \in Bisections : bi = g.bisect
  BY RepoParts DEF Shapes
<1>2. PICK bad : bad = CHOOSE c \in bi.bad : TRUE
  OBVIOUS
<1>3. PICK asked : asked = IF Bases(bi, bad) \ bi.skip # {} THEN Bases(bi, bad) ELSE Suspects(bi, bad)
  OBVIOUS
<1>4. r \in IF bi.bad = {} \/ bi.good = {} THEN Done(g)
            ELSE IF \E x \in bi.good : Ancestor(bad, x) THEN Fails(g)
            ELSE IF asked = {} THEN Done(g)
            ELSE IF asked \subseteq bi.skip THEN Fails(g)
            ELSE UNION {AskAbout(g, c) : c \in asked \ bi.skip}
  BY <1>1, <1>2, <1>3 DEF BisectNext
<1>5. CASE r \in Fails(g)
  BY <1>5, FailsAre
<1>6. CASE r \in Done(g)
  <2>1. r.g = g /\ r.ok = TRUE
    BY <1>6 DEF Done
  <2> QED
    BY <2>1, SameMade
<1>7. CASE bi.bad # {} /\ r \in UNION {AskAbout(g, c) : c \in asked \ bi.skip}
  <2>1. bad \in AllCommits
    BY <1>2, <1>7 DEF Bisections
  <2>2. asked \subseteq AllCommits
    BY <1>3, <2>1, AskedMade
  <2>3. PICK c \in asked : r \in AskAbout(g, c)
    BY <1>7
  <2> QED
    BY <2>2, <2>3, AskAboutMade
<1> QED
  BY <1>4, <1>5, <1>6, <1>7

LEMMA BisectMarkMade ==
  ASSUME NEW g \in Repositories, NEW term \in {"bad", "good", "skip"}, NEW c \in Listed,
         NEW r \in BisectMark(g, term, c)
  PROVE  Fine(g, r) /\ Saves(g, r) /\ (~r.ok => Unmoved(g, r.g))
<1>1. g \in Shapes /\ g.bisect \in Bisections
  BY RepoParts DEF Shapes
<1>2. CASE ~g.bisect.active
  <2>1. r \in Fails(g)
    BY <1>2 DEF BisectMark
  <2> QED
    BY <2>1, FailsAre
<1>3. CASE g.bisect.active
  <2>1. PICK bi : bi = Marked(g.bisect, term, c)
    OBVIOUS
  <2>2. bi \in Bisections /\ bi.active
    BY <1>1, <1>3, <2>1, MarkedMade DEF Listed
  <2>3. PICK v : v = [g EXCEPT !.bisect = bi]
    OBVIOUS
  <2>4. v \in Repositories /\ Grows(g, v) /\ Kept(v) = Kept(g) /\ Unmoved(g, v) /\ v.bisect = bi
    BY <2>2, <2>3, BisectingMade
  <2>5. r \in BisectNext(v)
    BY <1>3, <2>1, <2>3 DEF BisectMark
  <2>6. Fine(v, r) /\ Saves(v, r) /\ (~r.ok => Unmoved(v, r.g))
    BY <2>2, <2>4, <2>5, BisectNextMade
  <2>7. Grows(g, r.g)
    <3>1. v \in Shapes /\ r.g \in Shapes
      BY <2>4, <2>6, RepoParts DEF Fine
    <3> QED
      BY <3>1, <1>1, <2>4, <2>6, GrowsOn DEF Fine, Shapes
  <2> QED
    BY <2>4, <2>6, <2>7 DEF Fine, Saves, Unmoved
<1> QED
  BY <1>2, <1>3

LEMMA BisectResetMade ==
  ASSUME NEW g \in Repositories, NEW r \in BisectReset(g)
  PROVE  Fine(g, r) /\ Saves(g, r) /\ (~r.ok => Unmoved(g, r.g))
<1>1. g \in Shapes /\ g.bisect \in Bisections /\ g.reflog \in Seq(AllCommits)
  BY RepoParts DEF Shapes
<1>2. PICK on \in Branches \union {"none"}, back \in AllCommits :
          /\ on = g.bisect.on
          /\ back = IF g.bisect.on = "none" THEN g.bisect.at ELSE g.branch[g.bisect.on]
  BY <1>1 DEF Shapes, Bisections
<1>3. CASE ~g.bisect.active
  <2>1. r \in Done(g)
    BY <1>3 DEF BisectReset
  <2>2. r.g = g /\ r.ok = TRUE
    BY <2>1 DEF Done
  <2> QED
    BY <2>2, SameMade
<1>4. CASE g.bisect.active
  <2>1. PICK q \in Checkout(g, back, on) : r = IF q.ok THEN [q EXCEPT !.g.bisect = NoBisect] ELSE q
    BY <1>2, <1>4 DEF BisectReset
  <2>2. on \in Branches => back = g.branch[on]
    BY <1>2 DEF Branches
  <2>3. Fine(g, q) /\ Saves(g, q) /\ (~q.ok => q.g = g) /\ q = [g |-> q.g, ok |-> q.ok]
    BY <1>2, <2>1, <2>2, CheckoutMade
  <2>4. CASE ~q.ok
    <3>1. r.g = g /\ r.ok \in BOOLEAN
      BY <2>1, <2>3, <2>4 DEF Fine
    <3> QED
      BY <3>1, SameMade
  <2>5. CASE q.ok
    <3>1. PICK f \in Repositories : f = q.g
      BY <2>3 DEF Fine
    <3>2. PICK v : v = [f EXCEPT !.bisect = NoBisect]
      OBVIOUS
    <3>3. NoBisect \in Bisections
      BY EmptyCommit DEF NoBisect, Bisections
    <3>4. v \in Repositories /\ Grows(f, v) /\ Kept(v) = Kept(f)
      BY <3>1, <3>2, <3>3, BisectingMade
    <3>5. r.g = v /\ r.ok = TRUE
      <4>1. PICK p : p = [g |-> f, ok |-> TRUE]
        OBVIOUS
      <4>2. q = p
        <5>1. q.ok = TRUE
          BY <2>3, <2>5 DEF Fine
        <5> QED
          BY <2>3, <3>1, <4>1, <5>1
      <4>3. r = [p EXCEPT !.g.bisect = NoBisect]
        BY <2>1, <2>5, <4>2
      <4> QED
        BY <4>1, <4>3, <3>2
    <3>6. Grows(g, v)
      <4>1. f \in Shapes /\ v \in Shapes
        BY <3>1, <3>4, RepoParts
      <4> QED
        BY <4>1, <1>1, <2>3, <3>1, <3>4, GrowsOn DEF Fine, Shapes
    <3> QED
      BY <2>3, <3>1, <3>4, <3>5, <3>6 DEF Fine, Saves
  <2> QED
    BY <2>4, <2>5
<1> QED
  BY <1>3, <1>4

(***************************************************************************)
(* A rebase in progress.                                                   *)
(***************************************************************************)
LEMMA RestMade ==
  ASSUME NEW g \in Repositories, g.op.kind = "rebase"
  PROVE  /\ g \in Shapes /\ Rebasing(g) /\ g.op.stop \in {"edit", "conflict", "empty", "resolved"}
         /\ g.op.stop # "edit" => Head(g.op.todo) \in Items
         /\ Rest(g) \in Seq(Items) /\ FromLog(Rest(g), g.reflog)
<1>1. g \in Shapes /\ Rooted(g) /\ Held(g.op, g.reflog)
  BY RepoParts
<1>2. PICK o \in Operations : o = g.op
  BY <1>1 DEF Shapes
<1>3. o # NoOp /\ o.stop # "none"
  BY <1>1, <1>2 DEF Held, NoOp
<1>4. o.stop \in {"edit", "conflict", "empty", "resolved"}
  BY <1>2, <1>3 DEF Operations
<1>5. Rebasing(g)
  BY <1>1, <1>2 DEF Rebasing, Held
<1>6. PICK todo \in Seq(Items) : todo = o.todo /\ FromLog(todo, g.reflog)
  BY <1>1, <1>2 DEF Held, Operations
<1>7. CASE o.stop = "edit"
  <2>1. Rest(g) = todo
    BY <1>2, <1>6, <1>7 DEF Rest
  <2> QED
    BY <2>1, <1>1, <1>2, <1>4, <1>5, <1>6, <1>7
<1>8. CASE o.stop # "edit"
  <2>1. todo # <<>>
    BY <1>1, <1>2, <1>4, <1>6, <1>8 DEF Held
  <2>2. PICK rest \in Seq(Items) : rest = Tail(todo) /\ ToSet(rest) \subseteq ToSet(todo)
    <3>1. Tail(todo) \in Seq(Items) /\ Len(Tail(todo)) = Len(todo) - 1
          /\ \A i \in 1..(Len(todo) - 1) : Tail(todo)[i] = todo[i + 1]
      BY <2>1
    <3>2. ToSet(Tail(todo)) \subseteq ToSet(todo)
      BY <3>1, <2>1 DEF ToSet
    <3> QED
      BY <3>1, <3>2
  <2>3. Rest(g) = rest
    BY <1>2, <1>6, <1>8, <2>2 DEF Rest
  <2>4. FromLog(rest, g.reflog)
    BY <1>6, <2>2 DEF FromLog
  <2>5. Head(todo) \in Items
    BY <2>1
  <2> QED
    BY <2>3, <2>4, <2>5, <1>1, <1>2, <1>4, <1>5, <1>6
<1> QED
  BY <1>7, <1>8

LEMMA AmendIndexMade ==
  ASSUME NEW g \in Shapes, g.head # <<>>
  PROVE  AmendIndex(g) \in AllCommits /\ TreeOf(AmendIndex(g)) = g.index
<1>1. PICK h \in AllCommits, x \in SUBSET Edits : h = g.head /\ x = g.index
  BY DEF Shapes
<1>2. PICK f \in AllCommits, k \in Changes : f = Front(h) /\ k = Last(h)
  BY <1>1, CommitLast
<1>3. PICK t \in SUBSET Edits : t = TreeOf(f)
  BY TreeType
<1>4. PICK l : l = [k EXCEPT !.add = x \ t, !.del = t \ x]
  OBVIOUS
<1>5. l \in Changes /\ l.add = x \ t /\ l.del = t \ x
  BY <1>4 DEF Changes
<1>6. AmendIndex(g) = Append(f, l)
  BY <1>1, <1>2, <1>3, <1>4 DEF AmendIndex
<1>7. Append(f, l) \in AllCommits /\ TreeOf(Append(f, l)) = x
  <2>1. l.add = x \ TreeOf(f) /\ l.del = TreeOf(f) \ x
    BY <1>3, <1>5
  <2> QED
    BY <2>1, <1>5, IndexCommit
<1> QED
  BY <1>1, <1>6, <1>7

LEMMA ResolvedMade ==
  ASSUME NEW g \in Repositories, g.op.kind = "rebase", g.op.stop # "edit", ~Misplaced(g)
  PROVE  Resolved(g) \in AllCommits /\ TreeOf(Resolved(g)) = g.index
<1>1. g \in Shapes /\ Head(g.op.todo) \in Items
  BY RestMade
<1>2. PICK h \in AllCommits, x \in SUBSET Edits, it \in Items :
          h = g.head /\ x = g.index /\ it = Head(g.op.todo)
  BY <1>1 DEF Shapes
<1>3. CASE IndexClean(g)
  BY <1>2, <1>3 DEF Resolved, IndexClean
<1>4. CASE ~IndexClean(g) /\ it.verb \in {"squash", "fixup"}
  <2>1. Resolved(g) = AmendIndex(g)
    BY <1>2, <1>4 DEF Resolved
  <2>2. g.head # <<>>
    BY <1>2, <1>4 DEF Misplaced
  <2> QED
    BY <2>1, <2>2, <1>1, AmendIndexMade
<1>5. CASE ~IndexClean(g) /\ ~(it.verb \in {"squash", "fixup"})
  <2>1. PICK t \in SUBSET Edits : t = TreeOf(h)
    BY TreeType
  <2>2. PICK k \in Changes : k = Last(it.of)
    BY ItemParts
  <2>3. PICK l : l = [k EXCEPT !.add = x \ t, !.del = t \ x]
    OBVIOUS
  <2>4. l \in Changes /\ l.add = x \ t /\ l.del = t \ x
    BY <2>3 DEF Changes
  <2>5. Resolved(g) = Append(h, l)
    BY <1>2, <1>5, <2>1, <2>2, <2>3 DEF Resolved
  <2>6. l.add = x \ TreeOf(h) /\ l.del = TreeOf(h) \ x
    BY <2>1, <2>4
  <2>7. Append(h, l) \in AllCommits /\ TreeOf(Append(h, l)) = x
    BY <2>4, <2>6, IndexCommit
  <2> QED
    BY <2>5, <2>7, <1>2
<1> QED
  BY <1>3, <1>4, <1>5

\* A rebase goes on with what is staged in a commit.
LEMMA ContinueMade ==
  ASSUME NEW g \in Repositories, NEW r \in ContinueRebase(g)
  PROVE  /\ Fine(g, r) /\ Saves(g, r) /\ (~r.ok => r.g = g \/ Carries(g, r.g))
         /\ g.op.kind # "rebase" => ~r.ok
<1>1. PICK from : from = IF g.op.stop = "edit" THEN IF IndexClean(g) THEN g.head ELSE AmendIndex(g)
                         ELSE Resolved(g)
  OBVIOUS
<1>2. r \in IF g.op.kind # "rebase" \/ g.op.stop = "conflict" \/ g.tree # g.index \/ Misplaced(g)
            THEN Fails(g) ELSE RunTodo(g, from, Rest(g))
  BY <1>1 DEF ContinueRebase
<1>3. CASE r \in Fails(g)
  <2>1. r.g = g /\ r.ok = FALSE
    BY <1>3 DEF Fails
  <2> QED
    BY <2>1, SameMade
<1>4. CASE g.op.kind = "rebase" /\ g.tree = g.index /\ ~Misplaced(g) /\ r \in RunTodo(g, from, Rest(g))
  <2>1. g \in Shapes /\ Rebasing(g) /\ Rest(g) \in Seq(Items) /\ FromLog(Rest(g), g.reflog)
    BY <1>4, RestMade
  <2>2. from \in AllCommits /\ TreeOf(from) = g.index
    <3>1. CASE IndexClean(g) /\ g.op.stop = "edit"
      BY <3>1, <2>1, <1>1 DEF IndexClean, Shapes
    <3>2. CASE ~IndexClean(g) /\ g.op.stop = "edit"
      <4>1. g.head # <<>>
        BY <1>4, <3>2 DEF Misplaced
      <4> QED
        BY <4>1, <3>2, <2>1, <1>1, AmendIndexMade
    <3>3. CASE g.op.stop # "edit"
      BY <3>3, <1>1, <1>4, ResolvedMade
    <3> QED
      BY <3>1, <3>2, <3>3
  <2>3. PICK todo \in Seq(Items) : todo = Rest(g)
    BY <2>1
  <2>4. FromLog(todo, g.reflog) /\ r \in RunTodo(g, from, todo)
    BY <1>4, <2>1, <2>3
  <2>5. g.index \union g.tree \subseteq TreeOf(from) \union Recorded(g)
    BY <1>4, <2>2
  <2> QED
    BY <1>4, <2>1, <2>2, <2>4, <2>5, RunTodoMade
<1> QED
  BY <1>2, <1>3, <1>4

LEMMA SkipMade ==
  ASSUME NEW g \in Repositories, NEW r \in SkipRebase(g)
  PROVE  Fine(g, r)
<1>1. CASE g.op.kind # "rebase"
  <2>1. r \in Fails(g)
    BY <1>1 DEF SkipRebase
  <2> QED
    BY <2>1, FailsAre
<1>2. CASE g.op.kind = "rebase"
  <2>1. g \in Shapes /\ Rebasing(g) /\ Rest(g) \in Seq(Items) /\ FromLog(Rest(g), g.reflog)
    BY <1>2, RestMade
  <2>2. PICK todo \in Seq(Items), h \in AllCommits : todo = Rest(g) /\ h = g.head
    BY <2>1 DEF Shapes
  <2>3. FromLog(todo, g.reflog) /\ r \in RunTodo(g, h, todo)
    BY <1>2, <2>1, <2>2 DEF SkipRebase
  <2> QED
    BY <2>1, <2>3, RunTodoMade
<1> QED
  BY <1>1, <1>2

\* What a process leaves that may forget what was recorded.
Fits(g, r) ==
    r.g \in Repositories /\ r.ok \in BOOLEAN /\ Len(g.reflog) <= Len(r.g.reflog)

LEMMA FineFits ==
  ASSUME NEW g, NEW r, Fine(g, r)
  PROVE  Fits(g, r)
BY DEF Fine, Fits, Grows

\* HEAD is put somewhere, and nothing is in progress.
LEMMA BackMade ==
  ASSUME NEW s \in Shapes, s.bisect.active \/ s.bisect = NoBisect, NEW c \in AllCommits,
         NEW v, v = [At(s, c) EXCEPT !.op = NoOp]
  PROVE  v \in Repositories /\ Len(s.reflog) <= Len(v.reflog)
<1>1. PICK t \in SUBSET Edits : t = TreeOf(c)
  BY TreeType
<1>2. PICK log : log = <<c>> \o s.reflog
  OBVIOUS
<1>3. PICK br : br = [b \in Branches |-> IF b = s.on THEN c ELSE s.branch[b]]
  OBVIOUS
<1>4. log \in Seq(AllCommits) /\ Len(log) = Len(s.reflog) + 1 /\ ToSet(log) = ToSet(s.reflog) \union {c}
  BY <1>2, LogPushed DEF Shapes
<1>5. br \in [Branches -> AllCommits]
  BY <1>3 DEF Shapes
<1>6. PICK m : m = Moved(s, c)
  OBVIOUS
<1>7. m = [s EXCEPT !.head = c, !.reflog = log, !.branch = br]
  BY <1>2, <1>3, <1>6, Zenon DEF Moved
<1>8. PICK a : a = [m EXCEPT !.index = t, !.tree = t]
  OBVIOUS
<1>9. At(s, c) = a
  BY <1>1, <1>6, <1>8 DEF At
<1>10. NoOp \in Operations /\ NoOp.stop = "none" /\ NoOp.kind = "none"
  <2>1. <<>> \in Seq(Items)
    OBVIOUS
  <2> QED
    BY <2>1, EmptyCommit DEF NoOp, Operations
<1>11. v = [a EXCEPT !.op = NoOp]
  BY <1>9
<1>12. /\ v \in Shapes /\ v.head = c /\ v.on = s.on /\ v.branch = br /\ v.reflog = log
       /\ v.op = NoOp /\ v.bisect = s.bisect
  <2>1. /\ m \in Shapes /\ m.head = c /\ m.on = s.on /\ m.branch = br /\ m.reflog = log
        /\ m.bisect = s.bisect
    BY <1>4, <1>5, <1>7 DEF Shapes
  <2>2. /\ a \in Shapes /\ a.head = c /\ a.on = s.on /\ a.branch = br /\ a.reflog = log
        /\ a.bisect = s.bisect
    BY <2>1, <1>8 DEF Shapes
  <2> QED
    BY <2>2, <1>10, <1>11 DEF Shapes
<1>13. Rooted(v)
  BY <1>3, <1>4, <1>12 DEF Rooted
<1>14. Held(v.op, v.reflog)
  BY <1>10, <1>12 DEF Held
<1>15. Len(s.reflog) <= Len(v.reflog)
  <2>1. Len(s.reflog) \in Nat
    BY DEF Shapes
  <2> QED
    BY <2>1, <1>4, <1>12
<1> QED
  BY <1>12, <1>13, <1>14, <1>15, RepoParts

LEMMA AbortMade ==
  ASSUME NEW g \in Repositories, NEW r \in AbortRebase(g)
  PROVE  Fits(g, r) /\ (g.op.kind # "rebase" => ~r.ok) /\ (~r.ok => r.g = g)
<1>1. CASE g.op.kind # "rebase"
  <2>1. r.g = g /\ r.ok = FALSE
    BY <1>1 DEF AbortRebase, Fails
  <2> QED
    BY <2>1, SameMade, FineFits
<1>2. CASE g.op.kind = "rebase"
  <2>1. g \in Shapes /\ (g.bisect.active \/ g.bisect = NoBisect)
    BY RepoParts DEF Rooted
  <2>2. PICK c \in AllCommits, on \in Branches \union {"none"} : c = g.op.orig /\ on = g.op.on
    BY <2>1 DEF Shapes, Operations
  <2>3. PICK s : s = [g EXCEPT !.on = on]
    OBVIOUS
  <2>4. s \in Shapes /\ s.bisect = g.bisect /\ s.reflog = g.reflog
    BY <2>1, <2>3 DEF Shapes
  <2>5. PICK v : v = [At(s, c) EXCEPT !.op = NoOp]
    OBVIOUS
  <2>6. v \in Repositories /\ Len(s.reflog) <= Len(v.reflog)
    BY <2>1, <2>4, <2>5, BackMade
  <2>7. r.g = v /\ r.ok = TRUE
    BY <1>2, <2>2, <2>3, <2>5 DEF AbortRebase, Done
  <2> QED
    BY <1>2, <2>4, <2>6, <2>7 DEF Fits
<1> QED
  BY <1>1, <1>2

(***************************************************************************)
(* What others do.                                                         *)
(***************************************************************************)
LEMMA EditedMade ==
  ASSUME NEW g \in Repositories, NEW v \in Edited(g)
  PROVE  v \in Repositories /\ Len(g.reflog) <= Len(v.reflog)
<1>1. g \in Shapes /\ Rooted(g) /\ Held(g.op, g.reflog)
  BY RepoParts
<1>2. PICK t \in SUBSET Edits : v = [g EXCEPT !.tree = t]
  BY <1>1, LooselyAssumption DEF Edited, Shapes
<1>3. /\ v \in Shapes /\ v.head = g.head /\ v.on = g.on /\ v.branch = g.branch
      /\ v.reflog = g.reflog /\ v.op = g.op /\ v.bisect = g.bisect
  BY <1>1, <1>2 DEF Shapes
<1>4. v \in Repositories
  BY <1>1, <1>3, RepoParts DEF Rooted
<1> QED
  BY <1>1, <1>3, <1>4 DEF Shapes

LEMMA StagedMade ==
  ASSUME NEW g \in Repositories, NEW v, v = [g EXCEPT !.index = g.tree]
  PROVE  v \in Repositories /\ Len(g.reflog) <= Len(v.reflog)
<1>1. g \in Shapes /\ Rooted(g) /\ Held(g.op, g.reflog)
  BY RepoParts
<1>2. /\ v \in Shapes /\ v.head = g.head /\ v.on = g.on /\ v.branch = g.branch
      /\ v.reflog = g.reflog /\ v.op = g.op /\ v.bisect = g.bisect
  BY <1>1 DEF Shapes
<1>3. v \in Repositories
  BY <1>1, <1>2, RepoParts DEF Rooted
<1>4. Len(g.reflog) \in Nat
  BY <1>1 DEF Shapes
<1>5. Len(g.reflog) <= Len(v.reflog)
  BY <1>2, <1>4
<1> QED
  BY <1>3, <1>5

LEMMA SettledMade ==
  ASSUME NEW g \in Repositories, NEW v \in Settled(g)
  PROVE  v \in Repositories /\ Len(g.reflog) <= Len(v.reflog)
<1>1. g \in Shapes /\ Rooted(g) /\ Held(g.op, g.reflog) /\ g.op.stop = "conflict"
  BY RepoParts DEF Settled
<1>2. CASE g.op.kind = "rebase"
  <2>1. PICK it \in Items : it = Head(g.op.todo)
    BY <1>1, <1>2, RestMade
  <2>2. PICK ch \in Changes : ch = Last(it.of)
    BY ItemParts
  <2>3. PICK u \in SUBSET Edits : u = TreeOf(g.head)
    BY <1>1, HeadIsRecorded
  <2>4. PICK t \in SUBSET Edits : t = After(u, ch)
    BY DEF After, Changes
  <2>5. v = [g EXCEPT !.index = t, !.tree = t, !.op.stop = "resolved"]
    BY <1>1, <1>2, <2>1, <2>2, <2>3, <2>4 DEF Settled
  <2>6. PICK p \in Operations : p = g.op
    BY <1>1 DEF Shapes
  <2>7. PICK o : o = [p EXCEPT !.stop = "resolved"]
    OBVIOUS
  <2>8. /\ o \in Operations /\ o.kind = p.kind /\ o.stop = "resolved" /\ o.todo = p.todo
        /\ o.orig = p.orig
    BY <2>7 DEF Operations
  <2>9. o # NoOp
    BY <2>8 DEF NoOp
  <2>10. v = [g EXCEPT !.index = t, !.tree = t, !.op = o]
    BY <1>1, <2>5, <2>6, <2>7 DEF Shapes
  <2>11. /\ v \in Shapes /\ v.head = g.head /\ v.on = g.on /\ v.branch = g.branch
         /\ v.reflog = g.reflog /\ v.op = o /\ v.bisect = g.bisect
    BY <1>1, <2>8, <2>10 DEF Shapes
  <2>12. Held(o, g.reflog)
    BY <1>1, <1>2, <2>6, <2>8, <2>9 DEF Held
  <2>13. v \in Repositories
    BY <1>1, <2>11, <2>12, RepoParts DEF Rooted
  <2> QED
    BY <1>1, <2>11, <2>13 DEF Shapes
<1>3. CASE g.op.kind # "rebase"
  <2>1. PICK c \in AllCommits : c = g.op.orig
    BY <1>1 DEF Shapes, Operations
  <2>2. v = [At(g, c) EXCEPT !.op = NoOp]
    BY <1>1, <1>3, <2>1 DEF Settled
  <2> QED
    BY <1>1, <2>1, <2>2, BackMade DEF Rooted
<1> QED
  BY <1>2, <1>3

LEMMA ActsMade ==
  ASSUME NEW g \in Repositories, NEW v \in Acts(g)
  PROVE  v \in Repositories /\ Len(g.reflog) <= Len(v.reflog)
<1>1. \/ v \in Edited(g) \/ v = [g EXCEPT !.index = g.tree] \/ v \in Committed(g) \/ v \in Settled(g)
  BY DEF Acts
<1>2. CASE v \in Committed(g)
  <2>1. PICK r \in CommitIndex(g, "w", FALSE) : v = r.g
    BY <1>2 DEF Committed
  <2>2. "w" \in Subjects /\ FALSE \in BOOLEAN
    BY SubjectsAssumption
  <2>3. Fine(g, r)
    BY <2>1, <2>2, CommitIndexMade
  <2> QED
    BY <2>1, <2>3 DEF Fine, Grows
<1> QED
  BY <1>1, <1>2, EditedMade, StagedMade, SettledMade

(***************************************************************************)
(* The screen.                                                             *)
(***************************************************************************)
LEMMA LogMade ==
  ASSUME NEW c \in AllCommits
  PROVE  Log(c) \in Seq(Listed) /\ Len(Log(c)) = Len(c)
<1>1. PICK n \in Nat : n = Len(c)
  BY CommitLen
<1>2. PICK w : w = [i \in 1..n |-> SubSeq(c, 1, n + 1 - i)]
  OBVIOUS
<1>3. ASSUME NEW i \in 1..n
      PROVE  SubSeq(c, 1, n + 1 - i) \in Listed
  <2>0. n + 1 - i \in 1..n
    BY <1>1
  <2>1. PICK k \in 1..n : k = n + 1 - i
    BY <2>0
  <2>2. SubSeq(c, 1, k) \in AllCommits /\ Len(SubSeq(c, 1, k)) = k
    <3>1. k \in 0..Len(c)
      BY <1>1, <2>1
    <3> QED
      BY <3>1, CommitPrefix
  <2>3. SubSeq(c, 1, k) # <<>>
    <3>1. PICK d \in AllCommits : d = SubSeq(c, 1, k) /\ Len(d) = k
      BY <2>2
    <3>2. Len(d) # 0
      BY <1>1, <2>1, <3>1
    <3>3. d # <<>>
      BY <3>2, CommitLen
    <3> QED
      BY <3>1, <3>3
  <2> QED
    BY <2>1, <2>2, <2>3 DEF Listed
<1>4. w \in [1..n -> Listed]
  BY <1>2, <1>3
<1>5. w \in Seq(Listed) /\ Len(w) = n
  BY <1>4, FunctionIsSeq
<1>6. Log(c) = w
  BY <1>1, <1>2 DEF Log
<1> QED
  BY <1>1, <1>5, <1>6

LEMMA BeyondMade ==
  ASSUME NEW c \in AllCommits, NEW d \in AllCommits, NEW e \in AllCommits
  PROVE  Beyond(c, {d}) \in Seq(Listed) /\ Beyond(c, {d, e}) \in Seq(Listed)
<1>1. ASSUME NEW others, others = {d} \/ others = {d, e}
      PROVE  Beyond(c, others) \in Seq(Listed)
  <2>1. PICK n \in Nat : n = Len(c)
    BY CommitLen
  <2>2. PICK x \in 0..n, y \in 0..n : x = Parting(c, d) /\ y = Parting(c, e)
    BY <2>1, CommonPrefix
  <2>3. PICK P : P = {Parting(c, f) : f \in others}
    OBVIOUS
  <2>4. P = {x} \/ P = {x, y}
    BY <1>1, <2>2, <2>3
  <2>5. \E m \in P : \A p \in P : m >= p
    BY <2>2, <2>4
  <2>6. PICK m : m = Max(P)
    OBVIOUS
  <2>7. m \in 0..n
    BY <2>2, <2>4, <2>5, <2>6 DEF Max
  <2>8. PICK k \in 0..n : k = n - m
    BY <2>7
  <2>9. PICK s \in Seq(Listed) : s = Log(c) /\ Len(s) = n
    BY <2>1, LogMade
  <2>10. SubSeq(s, 1, k) \in Seq(Listed)
    <3>1. 1 \in Nat \ {0} /\ k \in 0..Len(s)
      BY <2>8, <2>9
    <3> QED
      BY <3>1, PartMade
  <2>11. Beyond(c, others) = SubSeq(s, 1, k)
    BY <2>1, <2>3, <2>6, <2>8, <2>9 DEF Beyond
  <2> QED
    BY <2>10, <2>11
<1> QED
  BY <1>1

LEMMA ReverseMade ==
  ASSUME NEW S, NEW s \in Seq(S)
  PROVE  Reverse(s) \in Seq(S)
<1>1. PICK n \in Nat : n = Len(s)
  OBVIOUS
<1>2. PICK w : w = [i \in 1..n |-> s[(n - i) + 1]]
  OBVIOUS
<1>3. \A i \in 1..n : s[(n - i) + 1] \in S
  BY <1>1
<1>4. w \in [1..n -> S]
  BY <1>2, <1>3
<1>5. w \in Seq(S)
  BY <1>4, FunctionIsSeq
<1>6. Reverse(s) = w
  BY <1>1, <1>2 DEF Reverse
<1> QED
  BY <1>5, <1>6

LEMMA CommitsMade ==
  ASSUME NEW g \in Repositories, NEW v \in {"head", "branch", "graph", "reverse"}
  PROVE  Commits(g, v) \in Seq(Listed)
<1>1. PICK h \in AllCommits, m \in AllCommits, s \in AllCommits :
          h = g.head /\ m = g.branch["main"] /\ s = g.branch["side"]
  BY RepoParts DEF Shapes, Branches
<1>2. PICK l \in Seq(Listed), b \in Seq(Listed), a \in Seq(Listed) :
          l = Log(h) /\ b = Beyond(m, {h}) /\ a = Beyond(s, {h, m})
  BY LogMade, BeyondMade
<1>3. PICK lb \in Seq(Listed) : lb = l \o b
  BY ConcatMade
<1>4. PICK all \in Seq(Listed) : all = lb \o a
  BY ConcatMade
<1>5. PICK on \in Seq(Listed), back \in Seq(Listed) : on = Log(s) /\ back = Reverse(all)
  BY LogMade, ReverseMade
<1>6. Commits(g, v) = CASE v = "head" -> l
                        [] v = "branch" -> on
                        [] v = "graph" -> all
                        [] v = "reverse" -> back
  BY <1>1, <1>2, <1>3, <1>4, <1>5 DEF Commits
<1> QED
  BY <1>6

Details ==
    [commits : Seq(Listed), reflog : Seq(AllCommits), on : Branches \union {"none"},
     busy : {"none", "rebase", "pick", "revert"}, bisect : [active : BOOLEAN, next : AllCommits],
     staged : BOOLEAN, clean : BOOLEAN]

LEMMA DetailMade ==
  ASSUME NEW g \in Repositories, NEW v \in {"head", "branch", "graph", "reverse"}
  PROVE  /\ Detail(g, v) \in Details /\ Detail(g, v).reflog = g.reflog
         /\ Detail(g, v).clean = Clean(g)
<1>1. g \in Shapes
  BY RepoParts
<1>2. PICK l \in Seq(Listed) : l = Commits(g, v)
  BY CommitsMade
<1>3. PICK bi \in [active : BOOLEAN, next : AllCommits] :
          bi = [active |-> g.bisect.active, next |-> g.bisect.next]
  BY <1>1 DEF Shapes, Bisections
<1>4. PICK st \in BOOLEAN, cl \in BOOLEAN : st = (g.index # TreeOf(g.head)) /\ cl = Clean(g)
  BY DEF Clean, IndexClean
<1>5. PICK k \in {"none", "rebase", "pick", "revert"} : k = g.op.kind
  BY <1>1 DEF Shapes, Operations
<1>6. Detail(g, v) = [commits |-> l, reflog |-> g.reflog, on |-> g.on, busy |-> k, bisect |-> bi,
                      staged |-> st, clean |-> cl]
  BY <1>2, <1>3, <1>4, <1>5 DEF Detail
<1> QED
  BY <1>1, <1>4, <1>6 DEF Details, Shapes

\* The kinds of questions.
OfCommit == {"Edit", "ApplyFixups", "Squash", "Drop", "Reword", "Fixup", "CreateFixup",
             "AmendAttributes", "Revert", "CherryPick", "Soft", "Mixed", "Hard", "CheckoutCommit"}

LEMMA QuestionParts ==
  /\ [op : OfCommit, c : Listed] \subseteq Questions
  /\ [op : {"MoveUp", "MoveDown"}, c : Listed, adjacent : Listed] \subseteq Questions
  /\ [op : {"Restore"}, k : Nat, shown : AllCommits] \subseteq Questions
  /\ [op : {"StartBisect", "MarkBisect"}, term : {"bad", "good", "skip"}, c : Listed]
       \subseteq Questions
  /\ [op : {"Checkout", "ForceCheckout", "RebaseOnto"}, b : Branches] \subseteq Questions
  /\ [op : {"ResetBisect", "Continue", "Skip", "Abort"}] \subseteq Questions
  /\ [op : {"Paste"}, commits : Seq(Listed)] \subseteq Questions
BY Zenon DEF Questions, OfCommit

\* What is restored is in the reflog that was seen.
Shown(q, log) == q.op = "Restore" => q.k \in 1..Len(log)

LEMMA ListMember ==
  ASSUME NEW S, NEW s \in Seq(S)
  PROVE  ToSet(s) \subseteq S
BY DEF ToSet

LEMMA AskedTyped ==
  ASSUME NEW d \in Details, copied \in Seq(Listed), NEW q \in Asked(d)
  PROVE  q \in Questions /\ Shown(q, d.reflog) /\ (q.op = "Restore" => d.clean)
<1>1. PICK l \in Seq(Listed), n \in Nat : l = d.commits /\ n = Len(l)
  BY DEF Details
<1>2. PICK L \in SUBSET Listed : L = ToSet(l)
  BY ListMember
<1>3. CASE q \in Selected(d)
  <2>1. q \in [op : OfCommit, c : L]
    BY <1>1, <1>2, <1>3 DEF Selected, OnCommits, OfCommit
  <2>2. q \in [op : OfCommit, c : Listed]
    BY <2>1
  <2>3. q.op # "Restore"
    BY <2>2 DEF OfCommit
  <2> QED
    BY <2>2, <2>3, QuestionParts DEF Shown
<1>4. CASE q \in Moves(d)
  <2>1. PICK i \in 2..n : q \in {[op |-> "MoveUp", c |-> l[i], adjacent |-> l[i - 1]],
                                 [op |-> "MoveDown", c |-> l[i - 1], adjacent |-> l[i]]}
    BY <1>1, <1>4 DEF Moves
  <2>2. PICK x \in Listed, y \in Listed : x = l[i] /\ y = l[i - 1]
    BY <1>1, <2>1
  <2>3. q \in [op : {"MoveUp", "MoveDown"}, c : Listed, adjacent : Listed]
    BY <2>1, <2>2
  <2> QED
    BY <2>3, QuestionParts DEF Shown
<1>5. CASE q \in Snapshots(d)
  <2>1. PICK log \in Seq(AllCommits) : log = d.reflog
    BY DEF Details
  <2>2. d.clean /\ \E k \in 2..Len(log) : q = [op |-> "Restore", k |-> k, shown |-> log[k]]
    BY <1>5, <2>1 DEF Snapshots
  <2>3. PICK k \in 2..Len(log) : q = [op |-> "Restore", k |-> k, shown |-> log[k]]
    BY <2>2
  <2>4. k \in Nat /\ log[k] \in AllCommits /\ k \in 1..Len(log)
    OBVIOUS
  <2>5. q \in [op : {"Restore"}, k : Nat, shown : AllCommits] /\ q.k = k
    BY <2>3, <2>4
  <2> QED
    BY <2>1, <2>2, <2>4, <2>5, QuestionParts DEF Shown
<1>6. CASE q \in Bisects(d)
  <2>1. PICK asked \in SUBSET Listed : asked = IF d.bisect.next = <<>> THEN L ELSE {d.bisect.next}
    BY DEF Details, Listed
  <2>2. \/ q \in [op : {"StartBisect"}, term : {"bad", "good"}, c : L]
        \/ q \in [op : {"MarkBisect"}, term : {"bad", "good", "skip"}, c : asked]
        \/ q = [op |-> "ResetBisect"]
    BY <1>1, <1>2, <1>6, <2>1 DEF Bisects
  <2>3. \/ q \in [op : {"StartBisect", "MarkBisect"}, term : {"bad", "good", "skip"}, c : Listed]
        \/ q \in [op : {"ResetBisect", "Continue", "Skip", "Abort"}]
    BY <2>2
  <2>4. q.op # "Restore"
    BY <2>3
  <2> QED
    BY <2>3, <2>4, QuestionParts DEF Shown
<1>7. CASE q \in OnBranches(d)
  <2>1. q \in [op : {"Checkout", "ForceCheckout", "RebaseOnto"}, b : Branches]
    BY <1>7 DEF OnBranches
  <2>2. q.op # "Restore"
    BY <2>1
  <2> QED
    BY <2>1, <2>2, QuestionParts DEF Shown
<1>8. CASE q \in [op : {"Continue", "Skip", "Abort"}]
  <2>1. q \in [op : {"ResetBisect", "Continue", "Skip", "Abort"}]
    BY <1>8
  <2>2. q.op # "Restore"
    BY <2>1
  <2> QED
    BY <2>1, <2>2, QuestionParts DEF Shown
<1>9. CASE q = [op |-> "Paste", commits |-> copied]
  <2>1. q \in [op : {"Paste"}, commits : Seq(Listed)]
    BY <1>9
  <2>2. q.op # "Restore"
    BY <2>1
  <2> QED
    BY <2>1, <2>2, QuestionParts DEF Shown
<1>10. \/ q \in Selected(d) \/ q \in Moves(d) \/ q \in Snapshots(d) \/ q \in Bisects(d)
       \/ q \in OnBranches(d) \/ q \in [op : {"Continue", "Skip", "Abort"}]
       \/ q = [op |-> "Paste", commits |-> copied]
  BY DEF Asked
<1> QED
  BY <1>3, <1>4, <1>5, <1>6, <1>7, <1>8, <1>9, <1>10

(***************************************************************************)
(* The processes of a command.                                             *)
(***************************************************************************)
Single == {"Edit", "ApplyFixups", "Squash", "Drop", "Reword", "MoveUp", "MoveDown", "CreateFixup",
           "Revert", "CherryPick", "Paste", "Soft", "Mixed", "Hard", "Restore", "Checkout",
           "ForceCheckout", "CheckoutCommit", "RebaseOnto", "MarkBisect", "ResetBisect",
           "Continue", "Skip", "Abort"}

LEMMA QuestionFields ==
  ASSUME NEW q \in Questions
  PROVE  /\ q.op \in Single \/ q.op \in {"Fixup", "AmendAttributes", "StartBisect"}
         /\ q.op \in OfCommit => q.c \in Listed
         /\ q.op \in {"MoveUp", "MoveDown"} => q.c \in Listed /\ q.adjacent \in Listed
         /\ q.op \in {"StartBisect", "MarkBisect"} =>
                q.c \in Listed /\ q.term \in {"bad", "good", "skip"}
         /\ q.op \in {"Checkout", "ForceCheckout", "RebaseOnto"} => q.b \in Branches
         /\ q.op = "Paste" => q.commits \in Seq(Listed)
<1>1. CASE q \in [op : OfCommit, c : Listed]
  BY <1>1 DEF OfCommit, Single
<1>2. CASE q \in [op : {"MoveUp", "MoveDown"}, c : Listed, adjacent : Listed]
  BY <1>2 DEF OfCommit, Single
<1>3. CASE q \in [op : {"Restore"}, k : Nat, shown : AllCommits]
  BY <1>3 DEF OfCommit, Single
<1>4. CASE q \in [op : {"StartBisect", "MarkBisect"}, term : {"bad", "good", "skip"}, c : Listed]
  BY <1>4 DEF OfCommit, Single
<1>5. CASE q \in [op : {"Checkout", "ForceCheckout", "RebaseOnto"}, b : Branches]
  BY <1>5 DEF OfCommit, Single
<1>6. CASE q \in [op : {"ResetBisect", "Continue", "Skip", "Abort"}]
  BY <1>6 DEF OfCommit, Single
<1>7. CASE q \in [op : {"Paste"}, commits : Seq(Listed)]
  BY <1>7 DEF OfCommit, Single
<1> QED
  BY <1>1, <1>2, <1>3, <1>4, <1>5, <1>6, <1>7, Zenon DEF Questions, OfCommit

LEMMA LastSubject ==
  ASSUME NEW c \in Listed
  PROVE  Last(c).subj \in Subjects
<1>1. c \in AllCommits /\ c # <<>>
  BY DEF Listed
<1>2. Last(c) \in Changes
  BY <1>1, CommitLast
<1> QED
  BY <1>2 DEF Changes

LEMMA ScriptedAs ==
  ASSUME NEW g \in Repositories, NEW q \in Questions,
         q.op \in {"Edit", "ApplyFixups", "Squash", "Drop", "Reword"}, NEW r \in Rebase(g, q)
  PROVE  Fine(g, r) /\ Saves(g, r) /\ Traceless(g, r)
<1>1. PICK c \in Listed : c = q.c
  BY QuestionFields DEF OfCommit
<1>2. CASE q.op = "Squash" /\ Len(c) = 1
  <2>1. r \in Fails(g)
    BY <1>1, <1>2 DEF Rebase
  <2> QED
    BY <2>1, FailsAre DEF Traceless
<1>3. CASE ~(q.op = "Squash" /\ Len(c) = 1)
  <2>1. PICK verb \in {"pick", "edit", "squash", "drop", "reword"}, autosquash \in BOOLEAN :
            r \in ScriptedRebase(g, c, verb, autosquash) /\ (verb = "squash" => Len(c) # 1)
    BY <1>1, <1>3 DEF Rebase
  <2> QED
    BY <2>1, ScriptedMade
<1> QED
  BY <1>2, <1>3

\* What may be lost by it.
Losing == {"Hard", "ForceCheckout", "Skip", "Abort"}

LEMMA ResetAs ==
  ASSUME NEW g \in Repositories, NEW q \in Questions, Shown(q, g.reflog),
         q.op \in {"Soft", "Mixed", "Hard", "Restore"}, NEW r \in SingleProcess(g, q)
  PROVE  /\ Fine(g, r) /\ r.ok
         /\ q.op = "Soft" \/ (q.op = "Restore" /\ Clean(g)) => Saves(g, r)
         /\ q.op = "Mixed" => Kept(g) \ Kept(r.g) \subseteq g.index \ g.tree
<1>1. CASE q.op = "Restore"
  <2>1. PICK log \in Seq(AllCommits) : log = g.reflog
    BY RepoParts DEF Shapes
  <2>2. PICK k \in 1..Len(log) : k = q.k
    BY <1>1, <2>1 DEF Shown
  <2>3. PICK c \in AllCommits : c = log[k]
    OBVIOUS
  <2>4. r \in Reset(g, "Hard", c)
    BY <1>1, <2>1, <2>2, <2>3 DEF SingleProcess
  <2>5. Fine(g, r) /\ r.ok /\ (Clean(g) => Saves(g, r))
    BY <2>4, ResetMade
  <2> QED
    BY <1>1, <2>5
<1>2. CASE q.op # "Restore"
  <2>1. PICK c \in AllCommits : c = q.c
    BY <1>2, QuestionFields DEF OfCommit, Listed
  <2>2. PICK mode \in {"Soft", "Mixed", "Hard"} : mode = q.op /\ r \in Reset(g, mode, c)
    BY <1>2, <2>1 DEF SingleProcess
  <2> QED
    BY <1>2, <2>2, ResetMade
<1> QED
  BY <1>1, <1>2

LEMMA CheckoutAs ==
  ASSUME NEW g \in Repositories, NEW q \in Questions, q.op \in {"Checkout", "CheckoutCommit"},
         NEW r \in SingleProcess(g, q)
  PROVE  Fine(g, r) /\ Saves(g, r) /\ Traceless(g, r)
<1>1. PICK b \in Branches \union {"none"}, c \in AllCommits :
          (b \in Branches => c = g.branch[b]) /\ r \in Checkout(g, c, b)
  <2>1. CASE q.op = "Checkout"
    <3>1. PICK b \in Branches : b = q.b
      BY <2>1, QuestionFields
    <3>2. PICK c \in AllCommits : c = g.branch[b]
      BY RepoParts DEF Shapes
    <3> QED
      BY <2>1, <3>1, <3>2 DEF SingleProcess
  <2>2. CASE q.op = "CheckoutCommit"
    <3>1. PICK c \in AllCommits : c = q.c
      BY <2>2, QuestionFields DEF OfCommit, Listed
    <3>2. r \in Checkout(g, c, "none")
      BY <2>2, <3>1 DEF SingleProcess
    <3> QED
      BY <3>2 DEF Branches
  <2> QED
    BY <2>1, <2>2
<1>2. Fine(g, r) /\ Saves(g, r) /\ (~r.ok => r.g = g)
  BY <1>1, CheckoutMade
<1> QED
  BY <1>2 DEF Traceless, Unmoved

\* The only process of most commands.
LEMMA SingleMade ==
  ASSUME NEW g \in Repositories, NEW q \in Questions, q.op \in Single, Shown(q, g.reflog),
         NEW r \in SingleProcess(g, q)
  PROVE  /\ Fits(g, r)
         /\ q.op \notin Losing \union {"Mixed", "Restore"} => Saves(g, r)
         /\ q.op = "Restore" /\ Clean(g) => Saves(g, r)
         /\ q.op = "Mixed" => Kept(g) \ Kept(r.g) \subseteq g.index \ g.tree
         /\ q.op # "Paste" /\ g.op = NoOp => Traceless(g, r)
<1>1. CASE q.op \in {"Edit", "ApplyFixups", "Squash", "Drop", "Reword"}
  <2>1. r \in Rebase(g, q)
    BY <1>1 DEF SingleProcess
  <2> QED
    BY <1>1, <2>1, ScriptedAs, FineFits
<1>2. CASE q.op \in {"MoveUp", "MoveDown"}
  <2>1. PICK c \in Listed, d \in Listed : c = q.c /\ d = q.adjacent
    BY <1>2, QuestionFields
  <2>2. r \in ReorderedRebase(g, c, d) \/ r \in ReorderedRebase(g, d, c)
    BY <1>2, <2>1 DEF SingleProcess, Rebase
  <2> QED
    BY <1>2, <2>2, ReorderedMade, FineFits
<1>3. CASE q.op = "CreateFixup"
  <2>1. PICK subj \in Subjects : r \in CommitIndex(g, subj, TRUE)
    <3>1. Last(q.c).subj \in Subjects
      BY <1>3, QuestionFields, LastSubject DEF OfCommit
    <3> QED
      BY <1>3, <3>1 DEF SingleProcess
  <2>2. Fine(g, r) /\ Saves(g, r) /\ (~r.ok => r.g = g)
    BY <2>1, CommitIndexMade
  <2> QED
    BY <1>3, <2>2, FineFits DEF Traceless, Unmoved
<1>4. CASE q.op \in {"Revert", "CherryPick"}
  <2>1. PICK c \in Listed : c = q.c
    BY <1>4, QuestionFields DEF OfCommit
  <2>2. r \in Revert(g, c) \/ r \in CherryPick(g, <<c>>)
    BY <1>4, <2>1 DEF SingleProcess
  <2> QED
    BY <1>4, <2>2, RevertMade, CherryPickMade, FineFits DEF Traceless
<1>5. CASE q.op = "Paste"
  <2>1. PICK s \in Seq(Listed) : s = q.commits
    BY <1>5, QuestionFields
  <2>2. r = Picked(g, s)
    BY <1>5, <2>1 DEF SingleProcess, CherryPick
  <2>3. Fine(g, r) /\ Saves(g, r)
    BY <2>2, PickedMade
  <2> QED
    BY <1>5, <2>3, FineFits
<1>6. CASE q.op \in {"Soft", "Mixed", "Hard", "Restore"}
  BY <1>6, ResetAs, FineFits DEF Traceless, Losing
<1>7. CASE q.op \in {"Checkout", "CheckoutCommit"}
  BY <1>7, CheckoutAs, FineFits
<1>8. CASE q.op = "ForceCheckout"
  <2>1. PICK b \in Branches : b = q.b
    BY <1>8, QuestionFields
  <2>2. r \in ForceCheckout(g, b)
    BY <1>8, <2>1 DEF SingleProcess
  <2> QED
    BY <1>8, <2>2, ForceCheckoutMade, FineFits DEF Traceless, Losing
<1>9. CASE q.op = "RebaseOnto"
  <2>1. PICK b \in Branches : b = q.b
    BY <1>9, QuestionFields
  <2>2. r \in RebaseCurrentOnto(g, b)
    BY <1>9, <2>1 DEF SingleProcess
  <2> QED
    BY <1>9, <2>2, OntoMade, FineFits
<1>10. CASE q.op = "MarkBisect"
  <2>1. PICK c \in Listed, term \in {"bad", "good", "skip"} : c = q.c /\ term = q.term
    BY <1>10, QuestionFields
  <2>2. r \in BisectMark(g, term, c)
    BY <1>10, <2>1 DEF SingleProcess
  <2> QED
    BY <1>10, <2>2, BisectMarkMade, FineFits DEF Traceless
<1>11. CASE q.op = "ResetBisect"
  <2>1. r \in BisectReset(g)
    BY <1>11 DEF SingleProcess
  <2> QED
    BY <1>11, <2>1, BisectResetMade, FineFits DEF Traceless
<1>12. CASE q.op \in {"Continue", "Skip", "Abort"}
  <2>1. g.op = NoOp => g.op.kind # "rebase"
    BY DEF NoOp
  <2>2. CASE q.op = "Continue"
    <3>1. r \in ContinueRebase(g)
      BY <2>2 DEF SingleProcess
    <3>2. g.op = NoOp => r \in Fails(g)
      BY <2>1, <3>1 DEF ContinueRebase
    <3> QED
      BY <2>2, <3>1, <3>2, ContinueMade, FailsAre, FineFits DEF Traceless
  <2>3. CASE q.op = "Skip"
    <3>1. r \in SkipRebase(g)
      BY <2>3 DEF SingleProcess
    <3>2. g.op = NoOp => r \in Fails(g)
      BY <2>1, <3>1 DEF SkipRebase
    <3> QED
      BY <2>3, <3>1, <3>2, SkipMade, FailsAre, FineFits DEF Traceless, Losing
  <2>4. CASE q.op = "Abort"
    <3>1. r \in AbortRebase(g)
      BY <2>4 DEF SingleProcess
    <3>2. g.op = NoOp => r \in Fails(g)
      BY <2>1, <3>1 DEF AbortRebase
    <3> QED
      BY <2>4, <3>1, <3>2, AbortMade, FailsAre DEF Traceless, Losing
  <2> QED
    BY <1>12, <2>2, <2>3, <2>4
<1> QED
  BY <1>1, <1>2, <1>3, <1>4, <1>5, <1>6, <1>7, <1>8, <1>9, <1>10, <1>11, <1>12 DEF Single

(***************************************************************************)
(* The work of a command. While others leave the repository alone, it is   *)
(* what the processes so far have made of it.                              *)
(***************************************************************************)
Stage(j, g) ==
    \/ j.left = <<"begin">> /\ (j.alone => g = j.before)
    \/ j.left = <<"all">> /\ j.q.op \in Single /\ (j.alone => g = j.before)
    \/ j.left = <<"fixup", "autosquash">> /\ j.q.op = "Fixup" /\ (j.alone => g = j.before)
    \/ /\ j.left = <<"autosquash">> /\ j.q.op = "Fixup"
       /\ j.alone => Steps(j.before, g) /\ Front(g.head) = j.before.head
                     /\ Ancestor(j.before.head, g.head)
    \/ j.left = <<"stopAt", "amend", "continue">> /\ j.q.op = "AmendAttributes"
       /\ (j.alone => g = j.before)
    \/ j.left \in {<<"amend", "continue">>, <<"continue">>} /\ j.q.op = "AmendAttributes"
       /\ (j.alone /\ Ancestor(j.q.c, j.before.head) => Begun(j.before, g))
    \/ j.left = <<"amend">> /\ j.q.op = "AmendAttributes" /\ (j.alone => g = j.before)
    \/ j.left = <<"bisectStart", "mark">> /\ j.q.op = "StartBisect" /\ (j.alone => g = j.before)
    \/ j.left = <<"mark">> /\ j.q.op = "StartBisect" /\ (j.alone => Unmoved(j.before, g))

\* What is lost has been asked for.
Confirmed(j, g, v) ==
    Kept(g) \ Kept(v) # {} =>
        \/ j.q.op \in Losing
        \/ j.q.op = "Restore" /\ ~j.alone
        \/ j.q.op = "Mixed" /\ Kept(g) \ Kept(v) \subseteq g.index \ g.tree

\* What a command that fails may leave.
Trace(j, v) ==
    /\ j.alone /\ j.before.op = NoOp /\ j.q.op # "Paste"
    /\ j.q.op \in Rewriting => Ancestor(j.q.c, j.before.head)
    => \/ v.head = j.before.head /\ v.on = j.before.on /\ v.branch = j.before.branch
       \/ v.op # NoOp /\ Ancestor(j.before.head, v.op.orig)
          /\ \A b \in Branches : b # j.before.on => v.branch[b] = j.before.branch[b]
       \/ j.q.op = "Fixup" /\ Front(v.head) = j.before.head

LEMMA TraceOfUnmoved ==
  ASSUME NEW j, NEW v, j.alone => Unmoved(j.before, v)
  PROVE  Trace(j, v)
BY DEF Trace, Unmoved

LEMMA TraceOfBegun ==
  ASSUME NEW j, j.before \in Repositories, NEW v, j.alone => Begun(j.before, v)
  PROVE  Trace(j, v)
<1>1. CASE j.alone
  <2>1. PICK h \in AllCommits : h = j.before.head
    BY RepoParts DEF Shapes
  <2>2. Ancestor(h, h)
    BY AncestorOfItself
  <2>3. v.op # NoOp /\ v.op.orig = h /\ v.branch = j.before.branch
    BY <1>1, <2>1 DEF Begun, NoOp
  <2> QED
    BY <2>1, <2>2, <2>3 DEF Trace
<1>2. CASE ~j.alone
  BY <1>2 DEF Trace
<1> QED
  BY <1>1, <1>2

\* A process left it as it was, or in the middle of a rebase.
LEMMA TraceOfTraceless ==
  ASSUME NEW j, j.before \in Repositories, NEW r, ~r.ok,
         j.alone => Traceless(j.before, r)
  PROVE  Trace(j, r.g)
<1>1. CASE j.alone => Unmoved(j.before, r.g)
  BY <1>1, TraceOfUnmoved
<1>2. CASE j.alone /\ Begun(j.before, r.g)
  BY <1>2, TraceOfBegun
<1> QED
  BY <1>1, <1>2 DEF Traceless

LEMMA ConfirmedSaves ==
  ASSUME NEW j, NEW g, NEW r, Saves(g, r)
  PROVE  Confirmed(j, g, r.g)
BY DEF Confirmed, Saves

\* A job that fails before its next process has left what it may leave.
LEMMA StageTrace ==
  ASSUME NEW j \in Jobs, NEW g, Stage(j, g)
  PROVE  Trace(j, g)
<1>1. j.before \in Repositories
  BY DEF Jobs
<1>2. CASE j.alone => g = j.before
  <2>1. j.alone => Unmoved(j.before, g)
    BY <1>2 DEF Unmoved
  <2> QED
    BY <2>1, TraceOfUnmoved
<1>3. CASE j.q.op = "Fixup" /\ (j.alone => Front(g.head) = j.before.head)
  BY <1>3 DEF Trace
<1>4. CASE j.q.op = "AmendAttributes" /\ (j.alone /\ Ancestor(j.q.c, j.before.head) => Begun(j.before, g))
  <2>1. CASE Ancestor(j.q.c, j.before.head)
    BY <1>1, <1>4, <2>1, TraceOfBegun
  <2>2. CASE ~Ancestor(j.q.c, j.before.head)
    BY <1>4, <2>2 DEF Trace, Rewriting
  <2> QED
    BY <2>1, <2>2
<1>5. CASE j.alone => Unmoved(j.before, g)
  BY <1>5, TraceOfUnmoved
<1> QED
  BY <1>2, <1>3, <1>4, <1>5 DEF Stage

LEMMA TupleMade ==
  ASSUME NEW S, NEW a \in S, NEW b \in S, NEW c \in S
  PROVE  /\ <<a>> \in Seq(S) \ {<<>>} /\ <<a, b>> \in Seq(S) \ {<<>>}
         /\ <<a, b, c>> \in Seq(S) \ {<<>>}
OBVIOUS

LEMMA PhaseSeqs ==
  /\ <<"begin">> \in Seq(Phases) \ {<<>>} /\ <<"all">> \in Seq(Phases) \ {<<>>}
  /\ <<"fixup", "autosquash">> \in Seq(Phases) \ {<<>>}
  /\ <<"autosquash">> \in Seq(Phases) \ {<<>>}
  /\ <<"stopAt", "amend", "continue">> \in Seq(Phases) \ {<<>>}
  /\ <<"amend", "continue">> \in Seq(Phases) \ {<<>>}
  /\ <<"continue">> \in Seq(Phases) \ {<<>>} /\ <<"amend">> \in Seq(Phases) \ {<<>>}
  /\ <<"bisectStart", "mark">> \in Seq(Phases) \ {<<>>} /\ <<"mark">> \in Seq(Phases) \ {<<>>}
<1>1. PICK be \in Phases, al \in Phases, fi \in Phases, au \in Phases, st \in Phases,
           am \in Phases, co \in Phases, bi \in Phases, ma \in Phases :
          /\ be = "begin" /\ al = "all" /\ fi = "fixup" /\ au = "autosquash" /\ st = "stopAt"
          /\ am = "amend" /\ co = "continue" /\ bi = "bisectStart" /\ ma = "mark"
  BY DEF Phases
<1>2. <<be>> \in Seq(Phases) \ {<<>>} /\ <<al>> \in Seq(Phases) \ {<<>>}
  BY <1>1, TupleMade
<1>3. <<fi, au>> \in Seq(Phases) \ {<<>>} /\ <<au>> \in Seq(Phases) \ {<<>>}
  BY <1>1, TupleMade
<1>4. <<st, am, co>> \in Seq(Phases) \ {<<>>} /\ <<am, co>> \in Seq(Phases) \ {<<>>}
  BY <1>1, TupleMade
<1>5. <<co>> \in Seq(Phases) \ {<<>>} /\ <<am>> \in Seq(Phases) \ {<<>>}
  BY <1>1, TupleMade
<1>6. <<bi, ma>> \in Seq(Phases) \ {<<>>} /\ <<ma>> \in Seq(Phases) \ {<<>>}
  BY <1>1, TupleMade
<1> QED
  BY <1>1, <1>2, <1>3, <1>4, <1>5, <1>6, Zenon

\* What holds when a process of the job has run: r is its result.
Follows(j, g, r) ==
    /\ Fits(g, r)
    /\ Confirmed(j, g, r.g)
    /\ ~r.ok => Trace(j, r.g)
    /\ r.ok /\ Len(j.left) # 1 =>
           [j EXCEPT !.left = Tail(@)] \in Jobs /\ Stage([j EXCEPT !.left = Tail(@)], r.g)
           /\ Tail(j.left) # <<>>

LEMMA AllFollows ==
  ASSUME git \in Repositories, job \in Jobs, job.left = <<"all">>, job.q.op \in Single,
         job.alone => git = job.before, Shown(job.q, git.reflog),
         job.q.op = "Restore" /\ job.alone => Clean(job.before), NEW r \in Outcomes
  PROVE  Follows(job, git, r)
<1>1. Head(<<"all">>) = "all" /\ Len(<<"all">>) = 1
  OBVIOUS
<1>2. Head(job.left) = "all" /\ Len(job.left) = 1
  BY <1>1
<1>3. r \in SingleProcess(git, job.q)
  BY <1>2 DEF Outcomes
<1>4. job.q \in Questions /\ job.before \in Repositories
  BY DEF Jobs
<1>5. /\ Fits(git, r)
      /\ job.q.op \notin Losing \union {"Mixed", "Restore"} => Saves(git, r)
      /\ job.q.op = "Restore" /\ Clean(git) => Saves(git, r)
      /\ job.q.op = "Mixed" => Kept(git) \ Kept(r.g) \subseteq git.index \ git.tree
      /\ job.q.op # "Paste" /\ git.op = NoOp => Traceless(git, r)
  BY <1>3, <1>4, SingleMade
<1>6. Confirmed(job, git, r.g)
  <2>1. CASE Saves(git, r)
    BY <2>1, ConfirmedSaves
  <2>2. CASE ~Saves(git, r)
    BY <1>5, <2>2 DEF Confirmed
  <2> QED
    BY <2>1, <2>2
<1>7. ASSUME ~r.ok
      PROVE  Trace(job, r.g)
  <2>1. CASE job.alone => Traceless(job.before, r)
    BY <1>4, <1>7, <2>1, TraceOfTraceless
  <2>2. CASE ~(job.alone => Traceless(job.before, r))
    BY <1>5, <2>2 DEF Trace
  <2> QED
    BY <2>1, <2>2
<1> QED
  BY <1>2, <1>5, <1>6, <1>7 DEF Follows

LEMMA FixupFollows ==
  ASSUME git \in Repositories, job \in Jobs, job.left = <<"fixup", "autosquash">>,
         job.q.op = "Fixup", job.alone => git = job.before, NEW r \in Outcomes
  PROVE  Follows(job, git, r)
<1>1. /\ Head(<<"fixup", "autosquash">>) = "fixup"
      /\ Tail(<<"fixup", "autosquash">>) = <<"autosquash">>
  OBVIOUS
<1>2. Head(job.left) = "fixup" /\ Tail(job.left) = <<"autosquash">>
  BY <1>1
<1>3. PICK subj \in Subjects : subj = Last(job.q.c).subj
  <2>1. job.q \in Questions
    BY DEF Jobs
  <2>2. job.q.c \in Listed
    BY <2>1, QuestionFields DEF OfCommit
  <2> QED
    BY <2>2, LastSubject
<1>4. r \in CommitIndex(git, subj, TRUE)
  BY <1>2, <1>3 DEF Outcomes
<1>5. /\ Fine(git, r) /\ Saves(git, r) /\ (~r.ok => r.g = git)
      /\ r.ok => Steps(git, r.g) /\ Ancestor(git.head, r.g.head) /\ Front(r.g.head) = git.head
  BY <1>4, CommitIndexMade
<1>6. ASSUME ~r.ok
      PROVE  Trace(job, r.g)
  BY <1>5, <1>6, TraceOfUnmoved DEF Unmoved
<1>7. ASSUME r.ok
      PROVE  [job EXCEPT !.left = Tail(@)] \in Jobs /\ Stage([job EXCEPT !.left = Tail(@)], r.g)
             /\ Tail(job.left) # <<>>
  <2>1. PICK s \in Seq(Phases) : s = <<"autosquash">> /\ s # <<>>
    BY PhaseSeqs
  <2>2. PICK k : k = [job EXCEPT !.left = s]
    OBVIOUS
  <2>3. /\ k \in Jobs /\ k.left = s /\ k.q = job.q /\ k.before = job.before
        /\ k.alone = job.alone
    BY <2>1, <2>2 DEF Jobs
  <2>4. [job EXCEPT !.left = Tail(@)] = k
    BY <1>2, <2>1, <2>2
  <2>5. Stage(k, r.g)
    BY <1>5, <1>7, <2>1, <2>3 DEF Stage
  <2> QED
    BY <1>2, <2>1, <2>3, <2>4, <2>5
<1> QED
  BY <1>5, <1>6, <1>7, FineFits, ConfirmedSaves DEF Follows

LEMMA AutosquashFollows ==
  ASSUME git \in Repositories, job \in Jobs, job.left = <<"autosquash">>, job.q.op = "Fixup",
         job.alone => Steps(job.before, git) /\ Front(git.head) = job.before.head
                      /\ Ancestor(job.before.head, git.head),
         NEW r \in Outcomes
  PROVE  Follows(job, git, r)
<1>1. Head(<<"autosquash">>) = "autosquash" /\ Len(<<"autosquash">>) = 1
  OBVIOUS
<1>2. Head(job.left) = "autosquash" /\ Len(job.left) = 1
  BY <1>1
<1>3. PICK c \in Listed : c = job.q.c
  <2>1. job.q \in Questions
    BY DEF Jobs
  <2> QED
    BY <2>1, QuestionFields DEF OfCommit
<1>4. r \in ScriptedRebase(git, c, "pick", TRUE)
  BY <1>2, <1>3 DEF Outcomes
<1>5. Fine(git, r) /\ Saves(git, r) /\ Traceless(git, r)
  BY <1>4, ScriptedMade
<1>6. ASSUME ~r.ok
      PROVE  Trace(job, r.g)
  <2>1. CASE Unmoved(git, r.g)
    BY <2>1 DEF Trace, Unmoved
  <2>2. CASE Begun(git, r.g)
    <3>1. r.g.op # NoOp /\ r.g.op.orig = git.head /\ r.g.branch = git.branch
      BY <2>2 DEF Begun, NoOp
    <3> QED
      BY <3>1 DEF Trace, Steps
  <2> QED
    BY <1>5, <1>6, <2>1, <2>2 DEF Traceless
<1> QED
  BY <1>2, <1>5, <1>6, FineFits, ConfirmedSaves DEF Follows

LEMMA StopAtFollows ==
  ASSUME git \in Repositories, job \in Jobs, job.left = <<"stopAt", "amend", "continue">>,
         job.q.op = "AmendAttributes", job.alone => git = job.before, NEW r \in Outcomes
  PROVE  Follows(job, git, r)
<1>1. /\ Head(<<"stopAt", "amend", "continue">>) = "stopAt"
      /\ Tail(<<"stopAt", "amend", "continue">>) = <<"amend", "continue">>
  OBVIOUS
<1>2. Head(job.left) = "stopAt" /\ Tail(job.left) = <<"amend", "continue">>
  BY <1>1
<1>3. PICK c \in Listed : c = job.q.c
  <2>1. job.q \in Questions
    BY DEF Jobs
  <2> QED
    BY <2>1, QuestionFields DEF OfCommit
<1>4. r \in ScriptedRebase(git, c, "edit", FALSE)
  BY <1>2, <1>3 DEF Outcomes
<1>5. /\ Fine(git, r) /\ Saves(git, r) /\ Traceless(git, r)
      /\ r.ok /\ Ancestor(c, git.head) => Begun(git, r.g)
  BY <1>4, ScriptedMade
<1>6. ASSUME ~r.ok
      PROVE  Trace(job, r.g)
  <2>1. job.before \in Repositories
    BY DEF Jobs
  <2> QED
    BY <1>5, <1>6, <2>1, TraceOfTraceless
<1>7. ASSUME r.ok
      PROVE  [job EXCEPT !.left = Tail(@)] \in Jobs /\ Stage([job EXCEPT !.left = Tail(@)], r.g)
             /\ Tail(job.left) # <<>>
  <2>1. PICK s \in Seq(Phases) : s = <<"amend", "continue">> /\ s # <<>>
    BY PhaseSeqs
  <2>2. PICK k : k = [job EXCEPT !.left = s]
    OBVIOUS
  <2>3. /\ k \in Jobs /\ k.left = s /\ k.q = job.q
        /\ k.before = job.before /\ k.alone = job.alone
    BY <2>1, <2>2 DEF Jobs
  <2>4. [job EXCEPT !.left = Tail(@)] = k
    BY <1>2, <2>1, <2>2
  <2>5. k.alone /\ Ancestor(k.q.c, k.before.head) => Begun(k.before, r.g)
    BY <1>3, <1>5, <1>7, <2>3
  <2>6. Stage(k, r.g)
    BY <2>1, <2>3, <2>5 DEF Stage
  <2> QED
    BY <1>2, <2>1, <2>3, <2>4, <2>6
<1> QED
  BY <1>5, <1>6, <1>7, FineFits, ConfirmedSaves DEF Follows

\* HEAD is amended: at once, or where the rebase has stopped.
LEMMA AmendFollows ==
  ASSUME git \in Repositories, job \in Jobs, Head(job.left) = "amend",
         job.q.op = "AmendAttributes", Stage(job, git), NEW r \in Outcomes
  PROVE  Follows(job, git, r)
<1>1. r \in AmendAttributes(git)
  BY DEF Outcomes
<1>2. Fine(git, r) /\ Saves(git, r) /\ (~r.ok => r.g = git) /\ (r.ok => Steps(git, r.g))
  BY <1>1, AmendMade
<1>3. ASSUME ~r.ok
      PROVE  Trace(job, r.g)
  BY <1>2, <1>3, StageTrace
<1>4. job.left = <<"amend", "continue">> \/ job.left = <<"amend">>
  <2>1. /\ Head(<<"continue">>) # "amend" /\ Head(<<"begin">>) # "amend" /\ Head(<<"all">>) # "amend"
        /\ Head(<<"stopAt", "amend", "continue">>) # "amend"
    OBVIOUS
  <2> QED
    BY <2>1 DEF Stage
<1>5. ASSUME r.ok, Len(job.left) # 1
      PROVE  [job EXCEPT !.left = Tail(@)] \in Jobs /\ Stage([job EXCEPT !.left = Tail(@)], r.g)
             /\ Tail(job.left) # <<>>
  <2>1. Len(<<"amend">>) = 1 /\ Tail(<<"amend", "continue">>) = <<"continue">>
        /\ Head(<<"amend", "continue">>) = "amend" /\ Len(<<"amend", "continue">>) = 2
    OBVIOUS
  <2>2. job.left = <<"amend", "continue">> /\ Tail(job.left) = <<"continue">>
    BY <1>4, <1>5, <2>1
  <2>3. PICK s \in Seq(Phases) : s = <<"continue">> /\ s # <<>>
    BY PhaseSeqs
  <2>4. PICK k : k = [job EXCEPT !.left = s]
    OBVIOUS
  <2>5. /\ k \in Jobs /\ k.left = s /\ k.q = job.q
        /\ k.before = job.before /\ k.alone = job.alone
    BY <2>3, <2>4 DEF Jobs
  <2>6. [job EXCEPT !.left = Tail(@)] = k
    BY <2>2, <2>3, <2>4
  <2>7. job.alone /\ Ancestor(job.q.c, job.before.head) => Begun(job.before, git)
    <3>1. /\ <<"amend", "continue">> # <<"amend">> /\ <<"amend", "continue">> # <<"begin">>
          /\ <<"amend", "continue">> # <<"all">>
          /\ <<"amend", "continue">> # <<"stopAt", "amend", "continue">>
      OBVIOUS
    <3> QED
      BY <2>2, <3>1 DEF Stage
  <2>8. Begun(job.before, git) => Begun(job.before, r.g)
    <3> HAVE Begun(job.before, git)
    <3>1. r.g.branch \in [Branches -> AllCommits] /\ git.branch \in [Branches -> AllCommits]
      BY <1>2, RepoParts DEF Fine, Shapes
    <3>2. \A b \in Branches : r.g.branch[b] = git.branch[b]
      BY <1>2, <1>5 DEF Steps, Begun, Branches
    <3>3. r.g.branch = git.branch
      BY <3>1, <3>2
    <3> QED
      BY <1>2, <1>5, <3>3 DEF Steps, Begun
  <2>9. Stage(k, r.g)
    BY <2>3, <2>5, <2>7, <2>8 DEF Stage
  <2> QED
    BY <2>2, <2>3, <2>5, <2>6, <2>9
<1> QED
  BY <1>2, <1>3, <1>5, FineFits, ConfirmedSaves DEF Follows

LEMMA ContinueFollows ==
  ASSUME git \in Repositories, job \in Jobs, job.left = <<"continue">>,
         job.q.op = "AmendAttributes",
         job.alone /\ Ancestor(job.q.c, job.before.head) => Begun(job.before, git),
         NEW r \in Outcomes
  PROVE  Follows(job, git, r)
<1>1. Head(<<"continue">>) = "continue" /\ Len(<<"continue">>) = 1
  OBVIOUS
<1>2. Head(job.left) = "continue" /\ Len(job.left) = 1
  BY <1>1
<1>3. r \in ContinueRebase(git)
  BY <1>2 DEF Outcomes
<1>4. Fine(git, r) /\ Saves(git, r) /\ (~r.ok => r.g = git \/ Carries(git, r.g))
  BY <1>3, ContinueMade
<1>5. ASSUME ~r.ok
      PROVE  Trace(job, r.g)
  <2>1. CASE Ancestor(job.q.c, job.before.head) /\ job.alone
    <3>1. Begun(job.before, git) /\ job.before \in Repositories
      BY <2>1 DEF Jobs
    <3>2. Begun(job.before, r.g)
      <4>1. CASE r.g = git
        BY <3>1, <4>1
      <4>2. CASE Carries(git, r.g)
        <5>1. r.g.branch \in [Branches -> AllCommits] /\ git.branch \in [Branches -> AllCommits]
          BY <1>4, RepoParts DEF Fine, Shapes
        <5>2. \A b \in Branches : r.g.branch[b] = git.branch[b]
          BY <3>1, <4>2 DEF Carries, Begun, Branches
        <5>3. r.g.branch = git.branch
          BY <5>1, <5>2
        <5> QED
          BY <3>1, <4>2, <5>3 DEF Carries, Begun
      <4> QED
        BY <1>4, <1>5, <4>1, <4>2
    <3> QED
      BY <3>1, <3>2, TraceOfBegun
  <2>2. CASE ~(Ancestor(job.q.c, job.before.head) /\ job.alone)
    BY <2>2 DEF Trace, Rewriting
  <2> QED
    BY <2>1, <2>2
<1> QED
  BY <1>2, <1>4, <1>5, FineFits, ConfirmedSaves DEF Follows

LEMMA StartFollows ==
  ASSUME git \in Repositories, job \in Jobs, job.left = <<"bisectStart", "mark">>,
         job.q.op = "StartBisect", job.alone => git = job.before, NEW r \in Outcomes
  PROVE  Follows(job, git, r)
<1>1. /\ Head(<<"bisectStart", "mark">>) = "bisectStart"
      /\ Tail(<<"bisectStart", "mark">>) = <<"mark">>
  OBVIOUS
<1>2. Head(job.left) = "bisectStart" /\ Tail(job.left) = <<"mark">>
  BY <1>1
<1>3. r \in BisectStart(git)
  BY <1>2 DEF Outcomes
<1>4. Fine(git, r) /\ Saves(git, r) /\ Unmoved(git, r.g) /\ r.ok
  BY <1>3, BisectStartMade
<1>5. [job EXCEPT !.left = Tail(@)] \in Jobs /\ Stage([job EXCEPT !.left = Tail(@)], r.g)
      /\ Tail(job.left) # <<>>
  <2>1. PICK s \in Seq(Phases) : s = <<"mark">> /\ s # <<>>
    BY PhaseSeqs
  <2>2. PICK k : k = [job EXCEPT !.left = s]
    OBVIOUS
  <2>3. /\ k \in Jobs /\ k.left = s /\ k.q = job.q /\ k.before = job.before
        /\ k.alone = job.alone
    BY <2>1, <2>2 DEF Jobs
  <2>4. [job EXCEPT !.left = Tail(@)] = k
    BY <1>2, <2>1, <2>2
  <2>5. Stage(k, r.g)
    BY <1>4, <2>1, <2>3 DEF Stage
  <2> QED
    BY <1>2, <2>1, <2>3, <2>4, <2>5
<1> QED
  BY <1>4, <1>5, FineFits, ConfirmedSaves DEF Follows

LEMMA MarkFollows ==
  ASSUME git \in Repositories, job \in Jobs, job.left = <<"mark">>, job.q.op = "StartBisect",
         job.alone => Unmoved(job.before, git), NEW r \in Outcomes
  PROVE  Follows(job, git, r)
<1>1. Head(<<"mark">>) = "mark" /\ Len(<<"mark">>) = 1
  OBVIOUS
<1>2. Head(job.left) = "mark" /\ Len(job.left) = 1
  BY <1>1
<1>3. PICK c \in Listed, term \in {"bad", "good", "skip"} : c = job.q.c /\ term = job.q.term
  <2>1. job.q \in Questions
    BY DEF Jobs
  <2> QED
    BY <2>1, QuestionFields
<1>4. r \in BisectMark(git, term, c)
  BY <1>2, <1>3 DEF Outcomes
<1>5. Fine(git, r) /\ Saves(git, r) /\ (~r.ok => Unmoved(git, r.g))
  BY <1>4, BisectMarkMade
<1>6. ASSUME ~r.ok
      PROVE  Trace(job, r.g)
  BY <1>5, <1>6, TraceOfUnmoved DEF Unmoved
<1> QED
  BY <1>2, <1>5, <1>6, FineFits, ConfirmedSaves DEF Follows

(***************************************************************************)
(* The inductive invariant.                                                *)
(***************************************************************************)
Typed ==
    /\ git \in Repositories /\ view \in {"head", "branch", "graph", "reverse"}
    /\ detail \in Details /\ Len(detail.reflog) <= Len(git.reflog)
    /\ copied \in Seq(Listed)
    /\ inputs \in 0..MaxInputs /\ outside \in 0..MaxOutside /\ faults \in 0..MaxFaults

\* A snapshot is restored where there was nothing to lose when it was asked for.
Restorable(a) == a.q.op = "Restore" /\ a.alone => Clean(a.before)

Waiting ==
    modal # None =>
        /\ modal \in Requests /\ job = None /\ ~stale
        /\ Shown(modal.q, git.reflog) /\ Restorable(modal)
        /\ modal.alone => git = modal.before

Running ==
    job # None =>
        /\ job \in Jobs /\ ~stale
        /\ Shown(job.q, git.reflog) /\ Restorable(job)
        /\ Stage(job, git)

Inv == Typed /\ Waiting /\ Running

LEMMA LogLen ==
  ASSUME NEW g \in Repositories
  PROVE  Len(g.reflog) \in Nat
BY RepoParts DEF Shapes

LEMMA ShownLonger ==
  ASSUME NEW q, NEW g \in Repositories, NEW v \in Repositories,
         Len(g.reflog) <= Len(v.reflog), Shown(q, g.reflog)
  PROVE  Shown(q, v.reflog)
<1>1. PICK m \in Nat, n \in Nat : m = Len(g.reflog) /\ n = Len(v.reflog) /\ m <= n
  BY LogLen
<1>2. q.op = "Restore" => q.k \in 1..m
  BY <1>1 DEF Shown
<1>3. q.op = "Restore" => q.k \in 1..n
  BY <1>1, <1>2
<1> QED
  BY <1>1, <1>3 DEF Shown

LEMMA DetailLen ==
  ASSUME NEW g \in Repositories, NEW v \in {"head", "branch", "graph", "reverse"}
  PROVE  Detail(g, v) \in Details /\ Len(Detail(g, v).reflog) <= Len(g.reflog)
<1>1. Detail(g, v) \in Details /\ Detail(g, v).reflog = g.reflog
  BY DetailMade
<1>2. Len(g.reflog) <= Len(g.reflog)
  BY LogLen
<1> QED
  BY <1>1, <1>2

LEMMA InitHolds == Init => Inv
<1> SUFFICES ASSUME Init
             PROVE  Inv
  OBVIOUS
<1>1. git \in Repositories /\ view \in {"head", "branch", "graph", "reverse"}
  BY ReposAssumption, ViewsAssumption DEF Init
<1>2. detail \in Details /\ Len(detail.reflog) <= Len(git.reflog)
  BY <1>1, DetailLen DEF Init
<1>3. copied \in Seq(Listed)
  BY DEF Init
<1>4. inputs \in 0..MaxInputs /\ outside \in 0..MaxOutside /\ faults \in 0..MaxFaults
  BY BoundsAssumption DEF Init
<1>5. Waiting /\ Running
  BY DEF Init, Waiting, Running
<1> QED
  BY <1>1, <1>2, <1>3, <1>4, <1>5 DEF Inv, Typed

LEMMA InputCounts ==
  ASSUME Typed, inputs < MaxInputs, inputs' = inputs + 1
  PROVE  inputs' \in 0..MaxInputs
BY BoundsAssumption DEF Typed

\* What is asked for, as a request and as a job.
LEMMA RequestMade ==
  ASSUME Typed, NEW q \in Asked(detail), NEW rq, rq = Request(q)
  PROVE  /\ rq \in Requests /\ rq.q = q /\ rq.before = git
         /\ Shown(q, git.reflog) /\ Restorable(rq)
<1>1. q \in Questions /\ Shown(q, detail.reflog) /\ (q.op = "Restore" => detail.clean)
  BY AskedTyped DEF Typed
<1>2. PICK al \in BOOLEAN : al = (Detail(git, view) = detail)
  OBVIOUS
<1>3. rq = [q |-> q, before |-> git, alone |-> al]
  BY <1>2 DEF Request
<1>4. rq \in Requests /\ rq.q = q /\ rq.before = git /\ rq.alone = al
  BY <1>1, <1>3 DEF Requests, Typed
<1>5. Shown(q, git.reflog)
  <2>1. PICK m \in Nat, n \in Nat : m = Len(detail.reflog) /\ n = Len(git.reflog) /\ m <= n
    BY LogLen DEF Typed, Details
  <2>2. q.op = "Restore" => q.k \in 1..m
    BY <1>1, <2>1 DEF Shown
  <2>3. q.op = "Restore" => q.k \in 1..n
    BY <2>1, <2>2
  <2> QED
    BY <2>1, <2>3 DEF Shown
<1>6. Restorable(rq)
  <2>1. Detail(git, view).clean = Clean(git)
    BY DetailMade DEF Typed
  <2> QED
    BY <2>1, <1>1, <1>2, <1>4 DEF Restorable
<1> QED
  BY <1>4, <1>5, <1>6

LEMMA RunMadeOf ==
  ASSUME NEW rq \in Requests, Restorable(rq), Shown(rq.q, git.reflog),
         rq.alone => git = rq.before, NEW j, j = Run(rq)
  PROVE  j \in Jobs /\ Shown(j.q, git.reflog) /\ Restorable(j) /\ Stage(j, git)
<1>1. PICK s \in Seq(Phases) : s = <<"begin">>
  BY PhaseSeqs
<1>2. j = [q |-> rq.q, left |-> s, before |-> rq.before, alone |-> rq.alone]
  BY <1>1 DEF Run
<1>3. /\ j \in Jobs /\ j.q = rq.q /\ j.left = s /\ j.before = rq.before /\ j.alone = rq.alone
  BY <1>2 DEF Jobs, Requests
<1>4. Stage(j, git)
  BY <1>1, <1>3 DEF Stage
<1> QED
  BY <1>3, <1>4 DEF Restorable

LEMMA AskHolds ==
  ASSUME Inv, Ask
  PROVE  Inv'
<1>1. PICK q \in Asked(detail) : IF q.op \in AtOnce
                                 THEN job' = Run(Request(q)) /\ modal' = modal
                                 ELSE modal' = Request(q) /\ job' = job
  BY DEF Ask
<1>2. /\ job = None /\ ~stale /\ modal = None /\ git' = git /\ view' = view /\ detail' = detail
      /\ stale' = stale /\ copied' = copied /\ outside' = outside /\ faults' = faults
      /\ inputs < MaxInputs /\ inputs' = inputs + 1
  BY DEF Ask, Input, Idle
<1>3. PICK rq : rq = Request(q)
  OBVIOUS
<1>4. rq \in Requests /\ rq.q = q /\ rq.before = git /\ Shown(q, git.reflog) /\ Restorable(rq)
  BY <1>1, <1>3, RequestMade DEF Inv
<1>5. Typed'
  <2>1. inputs' \in 0..MaxInputs
    BY <1>2, InputCounts DEF Inv
  <2> QED
    BY <2>1, <1>2 DEF Inv, Typed
<1>6. CASE q.op \in AtOnce
  <2>1. PICK j : j = Run(rq)
    OBVIOUS
  <2>2. j \in Jobs /\ Shown(j.q, git.reflog) /\ Restorable(j) /\ Stage(j, git)
    BY <2>1, <1>4, RunMadeOf
  <2>3. job' = j /\ modal' = None
    BY <2>1, <1>1, <1>2, <1>3, <1>6
  <2> QED
    BY <2>2, <2>3, <1>2, <1>5 DEF Inv, Waiting, Running
<1>7. CASE q.op \notin AtOnce
  <2>1. modal' = rq /\ job' = None
    BY <1>1, <1>2, <1>3, <1>7
  <2> QED
    BY <2>1, <1>2, <1>4, <1>5 DEF Inv, Waiting, Running
<1> QED
  BY <1>6, <1>7

LEMMA CopyHolds ==
  ASSUME Inv, CopySelectedCommitForCherryPick
  PROVE  Inv'
<1>1. /\ job = None /\ ~stale /\ modal = None /\ git' = git /\ view' = view /\ detail' = detail
      /\ stale' = stale /\ outside' = outside /\ faults' = faults /\ modal' = modal /\ job' = job
      /\ inputs < MaxInputs /\ inputs' = inputs + 1
  BY DEF CopySelectedCommitForCherryPick, Input, Idle
<1>2. PICK s \in Seq(Listed) : s = detail.commits
  BY DEF Inv, Typed, Details
<1>3. PICK i \in DOMAIN s, j \in DOMAIN s : i <= j /\ copied' = SubSeq(s, i, j)
  BY <1>2 DEF CopySelectedCommitForCherryPick
<1>4. i \in Nat \ {0} /\ j \in 0..Len(s)
  BY <1>2, <1>3
<1>5. copied' \in Seq(Listed)
  BY <1>3, <1>4, PartMade
<1>6. inputs' \in 0..MaxInputs
  BY <1>1, InputCounts DEF Inv
<1> QED
  BY <1>1, <1>5, <1>6 DEF Inv, Typed, Waiting, Running

LEMMA SubmitHolds ==
  ASSUME Inv, Submit
  PROVE  Inv'
<1>1. /\ modal # None /\ job' = Run(modal) /\ modal' = None
      /\ UNCHANGED <<git, view, detail, copied, stale, inputs, outside, faults>>
  BY DEF Submit, counters
<1>2. PICK rq \in Requests : rq = modal /\ Restorable(rq) /\ Shown(rq.q, git.reflog)
                             /\ (rq.alone => git = rq.before)
  BY <1>1 DEF Inv, Waiting
<1>3. PICK j : j = Run(rq)
  OBVIOUS
<1>4. j \in Jobs /\ Shown(j.q, git.reflog) /\ Restorable(j) /\ Stage(j, git)
  BY <1>2, <1>3, RunMadeOf
<1>5. job' = j
  BY <1>1, <1>2, <1>3
<1>6. ~stale
  BY <1>1 DEF Inv, Waiting
<1> QED
  BY <1>1, <1>4, <1>5, <1>6 DEF Inv, Typed, Waiting, Running

LEMMA CancelHolds ==
  ASSUME Inv, Cancel
  PROVE  Inv'
BY DEF Cancel, Idle, counters, Inv, Typed, Waiting, Running

\* A job that has not begun.
LEMMA FirstStage ==
  ASSUME NEW j, NEW g, Stage(j, g), j.left = <<"begin">>
  PROVE  j.alone => g = j.before
<1>1. /\ <<"begin">> # <<"autosquash">> /\ <<"begin">> # <<"continue">>
      /\ <<"begin">> # <<"amend", "continue">> /\ <<"begin">> # <<"mark">>
  OBVIOUS
<1> QED
  BY <1>1 DEF Stage

LEMMA BeginHolds ==
  ASSUME Inv, Begin
  PROVE  Inv' /\ job' # None /\ git' = git
<1>1. /\ job # None /\ job.left = <<"begin">> /\ job' = [job EXCEPT !.left = Processes(job.q)]
      /\ UNCHANGED <<git, view, detail, copied, modal, stale, inputs, outside, faults>>
  BY DEF Begin, counters
<1>2. job \in Jobs /\ ~stale /\ Shown(job.q, git.reflog) /\ Restorable(job) /\ Stage(job, git)
  BY <1>1 DEF Inv, Running
<1>3. PICK q \in Questions : q = job.q
  BY <1>2 DEF Jobs
<1>4. PICK s \in Seq(Phases) : s = Processes(q)
  BY PhaseSeqs DEF Processes
<1>5. PICK j : j = [job EXCEPT !.left = s]
  OBVIOUS
<1>6. /\ j \in Jobs /\ j.q = q /\ j.left = s /\ j.before = job.before /\ j.alone = job.alone
  BY <1>2, <1>3, <1>4, <1>5 DEF Jobs
<1>7. job' = j
  BY <1>1, <1>3, <1>4, <1>5
<1>8. j.alone => git = j.before
  BY <1>1, <1>2, <1>6, FirstStage
<1>9. Stage(j, git)
  <2>1. CASE q.op = "Fixup"
    <3>1. s = <<"fixup", "autosquash">>
      BY <1>4, <2>1 DEF Processes
    <3> QED
      BY <3>1, <2>1, <1>6, <1>8 DEF Stage
  <2>2. CASE q.op = "AmendAttributes" /\ q.c # git.head
    <3>1. s = <<"stopAt", "amend", "continue">>
      BY <1>4, <2>2 DEF Processes
    <3> QED
      BY <3>1, <2>2, <1>6, <1>8 DEF Stage
  <2>3. CASE q.op = "AmendAttributes" /\ q.c = git.head
    <3>1. s = <<"amend">>
      BY <1>4, <2>3 DEF Processes
    <3> QED
      BY <3>1, <2>3, <1>6, <1>8 DEF Stage
  <2>4. CASE q.op = "StartBisect"
    <3>1. s = <<"bisectStart", "mark">>
      BY <1>4, <2>4 DEF Processes
    <3> QED
      BY <3>1, <2>4, <1>6, <1>8 DEF Stage
  <2>5. CASE q.op \in Single
    <3>1. s = <<"all">>
      BY <1>4, <2>5 DEF Processes, Single
    <3> QED
      BY <3>1, <2>5, <1>6, <1>8 DEF Stage
  <2> QED
    BY <2>1, <2>2, <2>3, <2>4, <2>5, QuestionFields
<1>10. Running'
  BY <1>1, <1>2, <1>3, <1>6, <1>7, <1>9 DEF Running, Restorable
<1>11. Waiting'
  BY <1>1 DEF Inv, Waiting
<1>12. Typed'
  BY <1>1 DEF Inv, Typed
<1>13. job' # None
  BY <1>6, <1>7, NoneAssumption
<1> QED
  BY <1>1, <1>10, <1>11, <1>12, <1>13 DEF Inv

LEMMA ProcessFollows ==
  ASSUME Inv, job # None, job.left # <<"begin">>, NEW r \in Outcomes
  PROVE  Follows(job, git, r)
<1>1. job \in Jobs /\ Shown(job.q, git.reflog) /\ Restorable(job) /\ Stage(job, git)
  BY DEF Inv, Running
<1>2. git \in Repositories
  BY DEF Inv, Typed
<1>3. CASE job.left = <<"all">> /\ job.q.op \in Single /\ (job.alone => git = job.before)
  BY <1>1, <1>2, <1>3, AllFollows DEF Restorable
<1>4. CASE job.left = <<"fixup", "autosquash">> /\ job.q.op = "Fixup" /\ (job.alone => git = job.before)
  BY <1>1, <1>2, <1>4, FixupFollows
<1>5. CASE /\ job.left = <<"autosquash">> /\ job.q.op = "Fixup"
           /\ job.alone => Steps(job.before, git) /\ Front(git.head) = job.before.head
                           /\ Ancestor(job.before.head, git.head)
  BY <1>1, <1>2, <1>5, AutosquashFollows
<1>6. CASE job.left = <<"stopAt", "amend", "continue">> /\ job.q.op = "AmendAttributes"
           /\ (job.alone => git = job.before)
  BY <1>1, <1>2, <1>6, StopAtFollows
<1>7. CASE job.left = <<"continue">> /\ job.q.op = "AmendAttributes"
           /\ (job.alone /\ Ancestor(job.q.c, job.before.head) => Begun(job.before, git))
  BY <1>1, <1>2, <1>7, ContinueFollows
<1>8. CASE job.left \in {<<"amend", "continue">>, <<"amend">>} /\ job.q.op = "AmendAttributes"
  <2>1. Head(<<"amend">>) = "amend" /\ Head(<<"amend", "continue">>) = "amend"
    OBVIOUS
  <2>2. Head(job.left) = "amend"
    BY <2>1, <1>8
  <2> QED
    BY <2>2, <1>1, <1>2, <1>8, AmendFollows
<1>9. CASE job.left = <<"bisectStart", "mark">> /\ job.q.op = "StartBisect"
           /\ (job.alone => git = job.before)
  BY <1>1, <1>2, <1>9, StartFollows
<1>10. CASE job.left = <<"mark">> /\ job.q.op = "StartBisect" /\ (job.alone => Unmoved(job.before, git))
  BY <1>1, <1>2, <1>10, MarkFollows
<1> QED
  BY <1>1, <1>3, <1>4, <1>5, <1>6, <1>7, <1>8, <1>9, <1>10 DEF Stage

LEMMA ProcessHolds ==
  ASSUME Inv, Process
  PROVE  /\ Inv' /\ outside' = outside
         /\ job # None /\ Confirmed(job, git, git')
         /\ job' = None => (\E r \in Outcomes : r.g = git' /\ r.ok) \/ Trace(job, git')
         /\ faults' = faults
<1>1. /\ job # None /\ job.left # <<"begin">>
      /\ UNCHANGED <<view, detail, copied, modal, inputs, outside, faults>>
  BY DEF Process, counters
<1>2. PICK r \in Outcomes :
          /\ git' = r.g
          /\ IF ~r.ok \/ Len(job.left) = 1 THEN Ends
             ELSE job' = [job EXCEPT !.left = Tail(@)] /\ stale' = stale
  BY DEF Process
<1>3. Follows(job, git, r)
  BY <1>1, ProcessFollows
<1>4. job \in Jobs /\ ~stale /\ Shown(job.q, git.reflog) /\ Restorable(job) /\ modal = None
  BY <1>1 DEF Inv, Running, Waiting
<1>5. git \in Repositories /\ git' \in Repositories /\ Len(git.reflog) <= Len(git'.reflog)
  BY <1>2, <1>3 DEF Follows, Fits, Inv, Typed
<1>6. Typed'
  <2>1. PICK k \in Nat, m \in Nat, n \in Nat :
            k = Len(detail.reflog) /\ m = Len(git.reflog) /\ n = Len(git'.reflog)
    BY <1>5, LogLen DEF Inv, Typed, Details
  <2>2. k <= n
    BY <1>5, <2>1 DEF Inv, Typed
  <2> QED
    BY <1>1, <1>5, <2>1, <2>2 DEF Inv, Typed
<1>7. Waiting'
  BY <1>1, <1>4 DEF Waiting
<1>8. Running'
  <2>1. CASE Ends
    BY <2>1 DEF Ends, Running
  <2>2. CASE r.ok /\ Len(job.left) # 1 /\ ~Ends
    <3>1. PICK j : j = [job EXCEPT !.left = Tail(@)]
      OBVIOUS
    <3>2. job' = j /\ stale' = stale
      BY <1>2, <2>2, <3>1
    <3>3. j \in Jobs /\ Stage(j, r.g)
      BY <1>3, <2>2, <3>1 DEF Follows
    <3>4. j.q = job.q /\ j.before = job.before /\ j.alone = job.alone
      BY <1>4, <3>1 DEF Jobs
    <3>5. Shown(j.q, git'.reflog)
      BY <1>4, <1>5, <3>4, ShownLonger
    <3> QED
      BY <1>2, <1>4, <3>2, <3>3, <3>4, <3>5 DEF Running, Restorable
  <2> QED
    BY <1>2, <2>1, <2>2
<1>9. Confirmed(job, git, git')
  BY <1>2, <1>3 DEF Follows
<1>10. ASSUME job' = None
       PROVE  (\E s \in Outcomes : s.g = git' /\ s.ok) \/ Trace(job, git')
  BY <1>2, <1>3 DEF Follows
<1> QED
  BY <1>1, <1>6, <1>7, <1>8, <1>9, <1>10 DEF Inv

LEMMA ProcessFailsHolds ==
  ASSUME Inv, ProcessFails
  PROVE  Inv' /\ Trace(job, git') /\ git' = git
<1>1. /\ job # None /\ faults < MaxFaults /\ faults' = faults + 1 /\ Ends
      /\ UNCHANGED <<git, view, detail, copied, modal, inputs, outside>>
  BY DEF ProcessFails
<1>2. job \in Jobs /\ Stage(job, git) /\ modal = None
  BY <1>1 DEF Inv, Running, Waiting
<1>3. faults' \in 0..MaxFaults
  BY <1>1, BoundsAssumption DEF Inv, Typed
<1>4. Typed'
  BY <1>1, <1>3 DEF Inv, Typed
<1>5. Waiting' /\ Running'
  BY <1>1, <1>2 DEF Ends, Waiting, Running
<1> QED
  BY <1>1, <1>2, <1>4, <1>5, StageTrace DEF Inv

LEMMA LoadHolds ==
  ASSUME Inv, LoadRepoDetail
  PROVE  Inv'
<1>1. /\ stale /\ detail' = Detail(git, view) /\ stale' = FALSE
      /\ UNCHANGED <<git, view, copied, modal, job, inputs, outside, faults>>
  BY DEF LoadRepoDetail, counters
<1>2. detail' \in Details /\ Len(detail'.reflog) <= Len(git.reflog)
  BY <1>1, DetailLen DEF Inv, Typed
<1>3. modal = None /\ job = None
  BY <1>1 DEF Inv, Waiting, Running
<1> QED
  BY <1>1, <1>2, <1>3 DEF Inv, Typed, Waiting, Running

LEMMA RefreshHolds ==
  ASSUME Inv, Refresh
  PROVE  Inv'
<1>1. /\ detail' = Detail(git, view)
      /\ UNCHANGED <<git, view, copied, modal, job, stale, inputs, outside, faults>>
  BY DEF Refresh, counters
<1>2. detail' \in Details /\ Len(detail'.reflog) <= Len(git.reflog)
  BY <1>1, DetailLen DEF Inv, Typed
<1> QED
  BY <1>1, <1>2 DEF Inv, Typed, Waiting, Running

LEMMA OutsideHolds ==
  ASSUME Inv, Outside
  PROVE  Inv' /\ outside' # outside /\ (job # None => job' # None)
<1>1. /\ outside < MaxOutside /\ outside' = outside + 1 /\ git' \in Acts(git)
      /\ job' = Alone(job) /\ modal' = Alone(modal)
      /\ UNCHANGED <<view, detail, copied, stale, inputs, faults>>
  BY DEF Outside
<1>2. git \in Repositories /\ git' \in Repositories /\ Len(git.reflog) <= Len(git'.reflog)
  BY <1>1, ActsMade DEF Inv, Typed
<1>3. Typed'
  <2>1. PICK k \in Nat, m \in Nat, n \in Nat :
            k = Len(detail.reflog) /\ m = Len(git.reflog) /\ n = Len(git'.reflog)
    BY <1>2, LogLen DEF Inv, Typed, Details
  <2>2. k <= n
    BY <1>2, <2>1 DEF Inv, Typed
  <2>3. outside' \in 0..MaxOutside
    BY <1>1, BoundsAssumption DEF Inv, Typed
  <2> QED
    BY <1>1, <1>2, <2>1, <2>2, <2>3 DEF Inv, Typed
<1>4. Waiting'
  <2>1. CASE modal = None
    BY <1>1, <2>1 DEF Alone, Waiting
  <2>2. CASE modal # None
    <3>1. PICK a : a = [modal EXCEPT !.alone = FALSE]
      OBVIOUS
    <3>2. modal' = a /\ job' = None /\ ~stale
      BY <1>1, <2>2, <3>1 DEF Alone, Inv, Waiting
    <3>3. a \in Requests /\ a.q = modal.q /\ a.alone = FALSE
      BY <2>2, <3>1 DEF Inv, Waiting, Requests
    <3>4. Shown(a.q, git'.reflog)
      BY <1>2, <2>2, <3>3, ShownLonger DEF Inv, Waiting
    <3> QED
      BY <1>1, <3>2, <3>3, <3>4 DEF Waiting, Restorable
  <2> QED
    BY <2>1, <2>2
<1>5. Running' /\ (job # None => job' # None)
  <2>1. CASE job = None
    BY <1>1, <2>1 DEF Alone, Running
  <2>2. CASE job # None
    <3>1. PICK a : a = [job EXCEPT !.alone = FALSE]
      OBVIOUS
    <3>2. job' = a /\ ~stale /\ job \in Jobs /\ Stage(job, git)
      BY <1>1, <2>2, <3>1 DEF Alone, Inv, Running
    <3>3. a \in Jobs /\ a.q = job.q /\ a.left = job.left /\ a.alone = FALSE
      BY <3>1, <3>2 DEF Jobs
    <3>4. Shown(a.q, git'.reflog)
      BY <1>2, <2>2, <3>3, ShownLonger DEF Inv, Running
    <3>5. Stage(a, git')
      BY <3>2, <3>3 DEF Stage
    <3> QED
      BY <1>1, <3>2, <3>3, <3>4, <3>5, NoneAssumption DEF Running, Restorable
  <2> QED
    BY <2>1, <2>2
<1>6. outside' # outside
  BY <1>1 DEF Inv, Typed
<1> QED
  BY <1>3, <1>4, <1>5, <1>6 DEF Inv

LEMMA NextHolds == Inv /\ [Next]_vars => Inv'
<1> SUFFICES ASSUME Inv, [Next]_vars
             PROVE  Inv'
  OBVIOUS
<1>1. CASE Ask
  BY <1>1, AskHolds
<1>2. CASE CopySelectedCommitForCherryPick
  BY <1>2, CopyHolds
<1>3. CASE Submit
  BY <1>3, SubmitHolds
<1>4. CASE Cancel
  BY <1>4, CancelHolds
<1>5. CASE Begin
  BY <1>5, BeginHolds
<1>6. CASE Process
  BY <1>6, ProcessHolds
<1>7. CASE ProcessFails
  BY <1>7, ProcessFailsHolds
<1>8. CASE LoadRepoDetail
  BY <1>8, LoadHolds
<1>9. CASE Refresh
  BY <1>9, RefreshHolds
<1>10. CASE Outside
  BY <1>10, OutsideHolds
<1>11. CASE UNCHANGED vars
  BY <1>11 DEF vars, counters, Inv, Typed, Waiting, Running
<1> QED
  BY <1>1, <1>2, <1>3, <1>4, <1>5, <1>6, <1>7, <1>8, <1>9, <1>10, <1>11 DEF Next, User, Command

LEMMA InvHolds == Spec => []Inv
  BY InitHolds, NextHolds, PTL DEF Spec

(***************************************************************************)
(* What holds of every repository, set of commands and bound.              *)
(***************************************************************************)
\* In every reachable state the repository is one git leaves, also half way through a
\* rebase: HEAD is where its branch is and in the reflog, a rebase has what it picks
\* from there; and a modal, a running command and a load that is due exclude each other.
THEOREM TypesHold == Spec => []TypeOK
<1>1. Inv => TypeOK
  <2> SUFFICES ASSUME Inv
               PROVE  TypeOK
    OBVIOUS
  <2>1. ASSUME modal # None
        PROVE  modal.q \in Questions /\ job = None /\ ~stale
    BY <2>1 DEF Inv, Waiting, Requests
  <2>2. ASSUME job # None
        PROVE  job.q \in Questions /\ job.left \in Seq(Phases) \ {<<>>} /\ ~stale
    <3>1. job \in Jobs /\ Stage(job, git) /\ ~stale
      BY <2>2 DEF Inv, Running
    <3>2. job.left \in Seq(Phases) \ {<<>>}
      BY <3>1, PhaseSeqs DEF Stage
    <3> QED
      BY <3>1, <3>2 DEF Jobs
  <2> QED
    BY <2>1, <2>2 DEF Inv, Typed, TypeOK
<1> QED
  BY <1>1, InvHolds, PTL

\* Whatever fails half way, and whatever others do in between, a step of the program
\* loses no edit that no commit in the reflog or on a branch has, unless the user has
\* confirmed a command that is there to discard.
THEOREM LosesHold == Spec => LosesOnlyConfirmed
<1> DEFINE A == Kept(git) \ Kept(git') # {} /\ outside' = outside =>
         /\ job # None
         /\ \/ job.q.op \in {"Hard", "ForceCheckout", "Skip", "Abort"}
            \/ job.q.op = "Restore" /\ ~job.alone
            \/ job.q.op = "Mixed" /\ Kept(git) \ Kept(git') \subseteq git.index \ git.tree
<1>1. Inv /\ [Next]_vars => [A]_vars
  <2> SUFFICES ASSUME Inv, [Next]_vars, Kept(git) \ Kept(git') # {}, outside' = outside
               PROVE  A
    OBVIOUS
  <2>1. git' # git
    OBVIOUS
  <2>2. ~Ask /\ ~CopySelectedCommitForCherryPick /\ ~Submit /\ ~Cancel /\ ~Begin
        /\ ~ProcessFails /\ ~LoadRepoDetail /\ ~Refresh /\ ~UNCHANGED vars
    BY <2>1 DEF Ask, CopySelectedCommitForCherryPick, Input, Submit, Cancel, Begin, ProcessFails,
                LoadRepoDetail, Refresh, vars
  <2>3. ~Outside
    BY OutsideHolds
  <2>4. Process
    BY <2>2, <2>3 DEF Next, User, Command
  <2> QED
    BY <2>4, ProcessHolds DEF Confirmed, Losing
<1> QED
  BY <1>1, InvHolds, PTL DEF Spec, LosesOnlyConfirmed

\* A command that fails, also because one of its processes does, leaves HEAD and the
\* branches as they were, or a rebase that leads back there; only a fixup may leave its
\* "fixup!" commit.
THEOREM FailsHold == Spec => FailsWithoutTrace
<1> DEFINE A ==
       /\ Ended /\ ~Succeeds /\ job.alone /\ job.before.op = NoOp
       /\ job.q.op \in Rewriting => Ancestor(job.q.c, job.before.head)
       /\ job.q.op # "Paste"
       => \/ git'.head = job.before.head /\ git'.on = job.before.on
             /\ git'.branch = job.before.branch
          \/ git'.op # NoOp /\ Ancestor(job.before.head, git'.op.orig)
             /\ \A b \in Branches : b # job.before.on => git'.branch[b] = job.before.branch[b]
          \/ job.q.op = "Fixup" /\ Front(git'.head) = job.before.head
<1>1. Inv /\ [Next]_vars => [A]_vars
  <2> SUFFICES ASSUME Inv, [Next]_vars, Ended, ~Succeeds
               PROVE  A
    OBVIOUS
  <2>1. job # None /\ job' = None
    BY DEF Ended
  <2>2. ~Ask /\ ~CopySelectedCommitForCherryPick /\ ~Submit /\ ~Cancel
        /\ ~LoadRepoDetail /\ ~Refresh /\ ~UNCHANGED vars
    BY <2>1 DEF Ask, CopySelectedCommitForCherryPick, Input, Submit, Cancel, Idle, LoadRepoDetail,
                Refresh, vars
  <2>3. ~Outside /\ ~Begin
    BY <2>1, OutsideHolds, BeginHolds
  <2>4. Process \/ ProcessFails
    BY <2>2, <2>3 DEF Next, User, Command
  <2>5. Trace(job, git')
    <3>1. CASE Process
      <4>1. faults' = faults /\ ((\E r \in Outcomes : r.g = git' /\ r.ok) \/ Trace(job, git'))
        BY <3>1, <2>1, ProcessHolds
      <4> QED
        BY <4>1 DEF Succeeds, Ended
    <3>2. CASE ProcessFails
      BY <3>2, ProcessFailsHolds
    <3> QED
      BY <2>4, <3>1, <3>2
  <2> QED
    BY <2>5 DEF Trace
<1> QED
  BY <1>1, InvHolds, PTL DEF Spec, FailsWithoutTrace

=============================================================================
