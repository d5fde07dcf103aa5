----------------------- MODULE RewritesAsAskedProofs -----------------------
(***************************************************************************)
(* That a command does what it is called, for every set of edits, what     *)
(* they need, every repository it may be opened on, and every bound.       *)
(*                                                                         *)
(* There is one lemma for each command (DropAs, SquashAs, FixupsAs, ...):  *)
(* a rebase that succeeds has run its list to the end, and the titles and  *)
(* the tree of what comes of a list are those of the commits it picks      *)
(* (Led, Lasts). Both are folds, as in HistoryRewriteProofs, and so is     *)
(* what the property asks for. Where the command has several processes,    *)
(* what those before the last have left is invariant as well (Courses).    *)
(***************************************************************************)
EXTENDS HistoryRewriteProofs

(***************************************************************************)
(* What the commands are for: the titles of a list of items that are not   *)
(* added to the one before, and the folds of the properties.               *)
(***************************************************************************)
\* The titles of the items of a list that make commits of their own.
Leading(list, it) ==
    IF it.verb = "fixup" THEN list ELSE Append(list, <<Last(it.of).subj, Last(it.of).fix>>)

Led(todo) == FoldLeft(Leading, <<>>, todo)

MeltFold == INSTANCE Induction WITH P <- Clean, Op <- FoldedInto
LedFold == INSTANCE Induction WITH P <- Clean, Op <- Leading
MissFold == INSTANCE Induction WITH P <- Clean, Op <- Missing

LEMMA MeltIterates ==
  ASSUME NEW S, NEW s \in Seq(S)
  PROVE  \E g : MeltFold!Iterates(<<>>, s, Len(s), g) /\ WithoutFixups(s) = g[1..Len(s)]
<1>1. PICK n \in Nat : n = Len(s) /\ DOMAIN s = 1..n
  OBVIOUS
<1>2. \E h : h = [t \in SUBSET (1..n) |->
        IF t = {} THEN <<>>
        ELSE FoldedInto(h[t \ {CHOOSE x \in t : \A y \in t : x >= y}],
               s[CHOOSE x \in t : \A y \in t : x >= y])]
  <2>1. \E h : MeltFold!Iterates(<<>>, s, n, h)
    BY NumbersWellOrdered, MeltFold!IteratesExist DEF MeltFold!WellOrdered
  <2> QED
    BY <2>1, Zenon DEF MeltFold!Iterates, MeltFold!Top
<1> DEFINE g == CHOOSE g : g = [t \in SUBSET (1..n) |->
        IF t = {} THEN <<>>
        ELSE FoldedInto(g[t \ {CHOOSE x \in t : \A y \in t : x >= y}],
               s[CHOOSE x \in t : \A y \in t : x >= y])]
<1>3. g = [t \in SUBSET (1..n) |->
        IF t = {} THEN <<>>
        ELSE FoldedInto(g[t \ {CHOOSE x \in t : \A y \in t : x >= y}],
               s[CHOOSE x \in t : \A y \in t : x >= y])]
  BY <1>2, Zenon
<1>4. WithoutFixups(s) = g[1..n]
  BY <1>1 DEF WithoutFixups, FoldLeft, MapThenFoldSet, Max
<1> HIDE DEF g
<1>5. MeltFold!Iterates(<<>>, s, n, g)
  BY <1>3, Zenon DEF MeltFold!Iterates, MeltFold!Top
<1> QED
  BY <1>1, <1>4, <1>5

LEMMA MeltEmpty ==
  WithoutFixups(<<>>) = <<>>
<1>1. <<>> \in Seq({}) /\ Len(<<>>) = 0
  OBVIOUS
<1>2. PICK g : MeltFold!Iterates(<<>>, <<>>, Len(<<>>), g)
               /\ WithoutFixups(<<>>) = g[1..Len(<<>>)]
  BY <1>1, MeltIterates
<1>3. MeltFold!Iterates(<<>>, <<>>, 0, g) /\ WithoutFixups(<<>>) = g[1..0]
  BY <1>1, <1>2
<1> QED
  BY <1>3, MeltFold!IteratesEmpty

LEMMA MeltAppend ==
  ASSUME NEW S, NEW s \in Seq(S), NEW e \in S
  PROVE  WithoutFixups(Append(s, e)) = FoldedInto(WithoutFixups(s), e)
<1>1. PICK n \in Nat : n = Len(s)
  OBVIOUS
<1>2. PICK r \in Seq(S) : r = Append(s, e)
  <2>1. Append(s, e) \in Seq(S)
    OBVIOUS
  <2> QED
    BY <2>1
<1>9. PICK b : b = <<>>
  OBVIOUS
<1>3. Len(r) = n + 1 /\ r[n + 1] = e /\ \A i \in 1..n : s[i] = r[i]
  BY <1>1, <1>2
<1>4. PICK g : MeltFold!Iterates(b, s, Len(s), g) /\ WithoutFixups(s) = g[1..Len(s)]
  BY <1>9, MeltIterates
<1>5. PICK h : MeltFold!Iterates(b, r, Len(r), h) /\ WithoutFixups(r) = h[1..Len(r)]
  BY <1>9, MeltIterates
<1>6. MeltFold!Iterates(b, s, n, g) /\ WithoutFixups(s) = g[1..n]
  BY <1>1, <1>4
<1>7. MeltFold!Iterates(b, r, n + 1, h) /\ WithoutFixups(r) = h[1..(n + 1)]
  BY <1>3, <1>5
<1>8. h[1..(n + 1)] = FoldedInto(g[1..n], r[n + 1])
  BY <1>3, <1>6, <1>7, NumbersWellOrdered, MeltFold!IteratesStep DEF MeltFold!WellOrdered
<1> QED
  BY <1>2, <1>3, <1>6, <1>7, <1>8

LEMMA LedIterates ==
  ASSUME NEW S, NEW s \in Seq(S)
  PROVE  \E g : LedFold!Iterates(<<>>, s, Len(s), g) /\ Led(s) = g[1..Len(s)]
<1>1. PICK n \in Nat : n = Len(s) /\ DOMAIN s = 1..n
  OBVIOUS
<1>2. \E h : h = [t \in SUBSET (1..n) |->
        IF t = {} THEN <<>>
        ELSE Leading(h[t \ {CHOOSE x \in t : \A y \in t : x >= y}],
               s[CHOOSE x \in t : \A y \in t : x >= y])]
  <2>1. \E h : LedFold!Iterates(<<>>, s, n, h)
    BY NumbersWellOrdered, LedFold!IteratesExist DEF LedFold!WellOrdered
  <2> QED
    BY <2>1, Zenon DEF LedFold!Iterates, LedFold!Top
<1> DEFINE g == CHOOSE g : g = [t \in SUBSET (1..n) |->
        IF t = {} THEN <<>>
        ELSE Leading(g[t \ {CHOOSE x \in t : \A y \in t : x >= y}],
               s[CHOOSE x \in t : \A y \in t : x >= y])]
<1>3. g = [t \in SUBSET (1..n) |->
        IF t = {} THEN <<>>
        ELSE Leading(g[t \ {CHOOSE x \in t : \A y \in t : x >= y}],
               s[CHOOSE x \in t : \A y \in t : x >= y])]
  BY <1>2, Zenon
<1>4. Led(s) = g[1..n]
  BY <1>1 DEF Led, FoldLeft, MapThenFoldSet, Max
<1> HIDE DEF g
<1>5. LedFold!Iterates(<<>>, s, n, g)
  BY <1>3, Zenon DEF LedFold!Iterates, LedFold!Top
<1> QED
  BY <1>1, <1>4, <1>5

LEMMA LedEmpty ==
  Led(<<>>) = <<>>
<1>1. <<>> \in Seq({}) /\ Len(<<>>) = 0
  OBVIOUS
<1>2. PICK g : LedFold!Iterates(<<>>, <<>>, Len(<<>>), g)
               /\ Led(<<>>) = g[1..Len(<<>>)]
  BY <1>1, LedIterates
<1>3. LedFold!Iterates(<<>>, <<>>, 0, g) /\ Led(<<>>) = g[1..0]
  BY <1>1, <1>2
<1> QED
  BY <1>3, LedFold!IteratesEmpty

LEMMA LedAppend ==
  ASSUME NEW S, NEW s \in Seq(S), NEW e \in S
  PROVE  Led(Append(s, e)) = Leading(Led(s), e)
<1>1. PICK n \in Nat : n = Len(s)
  OBVIOUS
<1>2. PICK r \in Seq(S) : r = Append(s, e)
  <2>1. Append(s, e) \in Seq(S)
    OBVIOUS
  <2> QED
    BY <2>1
<1>9. PICK b : b = <<>>
  OBVIOUS
<1>3. Len(r) = n + 1 /\ r[n + 1] = e /\ \A i \in 1..n : s[i] = r[i]
  BY <1>1, <1>2
<1>4. PICK g : LedFold!Iterates(b, s, Len(s), g) /\ Led(s) = g[1..Len(s)]
  BY <1>9, LedIterates
<1>5. PICK h : LedFold!Iterates(b, r, Len(r), h) /\ Led(r) = h[1..Len(r)]
  BY <1>9, LedIterates
<1>6. LedFold!Iterates(b, s, n, g) /\ Led(s) = g[1..n]
  BY <1>1, <1>4
<1>7. LedFold!Iterates(b, r, n + 1, h) /\ Led(r) = h[1..(n + 1)]
  BY <1>3, <1>5
<1>8. h[1..(n + 1)] = Leading(g[1..n], r[n + 1])
  BY <1>3, <1>6, <1>7, NumbersWellOrdered, LedFold!IteratesStep DEF LedFold!WellOrdered
<1> QED
  BY <1>2, <1>3, <1>6, <1>7, <1>8

LEMMA MissIterates ==
  ASSUME NEW theirs, NEW S, NEW s \in Seq(S)
  PROVE  \E g : MissFold!Iterates([own |-> <<>>, theirs |-> theirs], s, Len(s), g) /\ Missed(s, theirs) = g[1..Len(s)]
<1>1. PICK n \in Nat : n = Len(s) /\ DOMAIN s = 1..n
  OBVIOUS
<1>2. \E h : h = [t \in SUBSET (1..n) |->
        IF t = {} THEN [own |-> <<>>, theirs |-> theirs]
        ELSE Missing(h[t \ {CHOOSE x \in t : \A y \in t : x >= y}],
               s[CHOOSE x \in t : \A y \in t : x >= y])]
  <2>1. \E h : MissFold!Iterates([own |-> <<>>, theirs |-> theirs], s, n, h)
    BY NumbersWellOrdered, MissFold!IteratesExist DEF MissFold!WellOrdered
  <2> QED
    BY <2>1, Zenon DEF MissFold!Iterates, MissFold!Top
<1> DEFINE g == CHOOSE g : g = [t \in SUBSET (1..n) |->
        IF t = {} THEN [own |-> <<>>, theirs |-> theirs]
        ELSE Missing(g[t \ {CHOOSE x \in t : \A y \in t : x >= y}],
               s[CHOOSE x \in t : \A y \in t : x >= y])]
<1>3. g = [t \in SUBSET (1..n) |->
        IF t = {} THEN [own |-> <<>>, theirs |-> theirs]
        ELSE Missing(g[t \ {CHOOSE x \in t : \A y \in t : x >= y}],
               s[CHOOSE x \in t : \A y \in t : x >= y])]
  BY <1>2, Zenon
<1>4. Missed(s, theirs) = g[1..n]
  BY <1>1 DEF Missed, FoldLeft, MapThenFoldSet, Max
<1> HIDE DEF g
<1>5. MissFold!Iterates([own |-> <<>>, theirs |-> theirs], s, n, g)
  BY <1>3, Zenon DEF MissFold!Iterates, MissFold!Top
<1> QED
  BY <1>1, <1>4, <1>5

LEMMA MissEmpty ==
  ASSUME NEW theirs
  PROVE  Missed(<<>>, theirs) = [own |-> <<>>, theirs |-> theirs]
<1>1. <<>> \in Seq({}) /\ Len(<<>>) = 0
  OBVIOUS
<1>2. PICK g : MissFold!Iterates([own |-> <<>>, theirs |-> theirs], <<>>, Len(<<>>), g)
               /\ Missed(<<>>, theirs) = g[1..Len(<<>>)]
  BY <1>1, MissIterates
<1>3. MissFold!Iterates([own |-> <<>>, theirs |-> theirs], <<>>, 0, g) /\ Missed(<<>>, theirs) = g[1..0]
  BY <1>1, <1>2
<1> QED
  BY <1>3, MissFold!IteratesEmpty

LEMMA MissAppend ==
  ASSUME NEW theirs, NEW S, NEW s \in Seq(S), NEW e \in S
  PROVE  Missed(Append(s, e), theirs) = Missing(Missed(s, theirs), e)
<1>1. PICK n \in Nat : n = Len(s)
  OBVIOUS
<1>2. PICK r \in Seq(S) : r = Append(s, e)
  <2>1. Append(s, e) \in Seq(S)
    OBVIOUS
  <2> QED
    BY <2>1
<1>9. PICK b : b = [own |-> <<>>, theirs |-> theirs]
  OBVIOUS
<1>3. Len(r) = n + 1 /\ r[n + 1] = e /\ \A i \in 1..n : s[i] = r[i]
  BY <1>1, <1>2
<1>4. PICK g : MissFold!Iterates(b, s, Len(s), g) /\ Missed(s, theirs) = g[1..Len(s)]
  BY <1>9, MissIterates
<1>5. PICK h : MissFold!Iterates(b, r, Len(r), h) /\ Missed(r, theirs) = h[1..Len(r)]
  BY <1>9, MissIterates
<1>6. MissFold!Iterates(b, s, n, g) /\ Missed(s, theirs) = g[1..n]
  BY <1>1, <1>4
<1>7. MissFold!Iterates(b, r, n + 1, h) /\ Missed(r, theirs) = h[1..(n + 1)]
  BY <1>3, <1>5
<1>8. h[1..(n + 1)] = Missing(g[1..n], r[n + 1])
  BY <1>3, <1>6, <1>7, NumbersWellOrdered, MissFold!IteratesStep DEF MissFold!WellOrdered
<1> QED
  BY <1>2, <1>3, <1>6, <1>7, <1>8

(***************************************************************************)
(* Sequences one after the other.                                          *)
(***************************************************************************)
LEMMA ConcatAppend ==
  ASSUME NEW S, NEW a \in Seq(S), NEW b \in Seq(S), NEW e \in S
  PROVE  a \o Append(b, e) = Append(a \o b, e)
<1>1. PICK o \in Seq(S) : o = <<e>>
  <2>1. <<e>> \in Seq(S)
    OBVIOUS
  <2> QED
    BY <2>1
<1>2. Append(b, e) = b \o o
  BY <1>1, AppendIsConcat
<1>3. PICK d \in Seq(S) : d = a \o b
  BY ConcatProperties
<1>4. Append(d, e) = d \o o
  BY <1>1, AppendIsConcat
<1>5. (a \o b) \o o = a \o (b \o o)
  BY ConcatAssociative
<1> QED
  BY <1>2, <1>3, <1>4, <1>5

\* A sequence is what comes before, and what comes after, a place in it.
LEMMA PartsOf ==
  ASSUME NEW S, NEW s \in Seq(S), NEW k \in 0..Len(s)
  PROVE  /\ s = SubSeq(s, 1, k) \o SubSeq(s, k + 1, Len(s))
         /\ SubSeq(s, 1, k) \in Seq(S) /\ Len(SubSeq(s, 1, k)) = k
         /\ SubSeq(s, k + 1, Len(s)) \in Seq(S) /\ Len(SubSeq(s, k + 1, Len(s))) = Len(s) - k
         /\ \A i \in 1..k : SubSeq(s, 1, k)[i] = s[i]
         /\ \A i \in 1..(Len(s) - k) : SubSeq(s, k + 1, Len(s))[i] = s[k + i]
<1>1. PICK n \in Nat : n = Len(s)
  OBVIOUS
<1>2. 1 \in 1..(Len(s) + 1) /\ k \in (1 - 1)..Len(s) /\ Len(s) \in k..Len(s)
  BY <1>1
<1>3. SubSeq(s, 1, k) \o SubSeq(s, k + 1, Len(s)) = SubSeq(s, 1, Len(s))
  BY <1>2, ConcatAdjacentSubSeq
<1>4. SubSeq(s, 1, Len(s)) = s
  BY SubSeqFull
<1>5. /\ SubSeq(s, 1, k) \in Seq(S) /\ Len(SubSeq(s, 1, k)) = k
      /\ \A i \in 1..k : SubSeq(s, 1, k)[i] = s[i]
  BY <1>1
<1>6. /\ SubSeq(s, k + 1, n) \in Seq(S) /\ Len(SubSeq(s, k + 1, n)) = n - k
      /\ \A i \in 1..(n - k) : SubSeq(s, k + 1, n)[i] = s[k + i]
  BY <1>1
<1> QED
  BY <1>1, <1>3, <1>4, <1>5, <1>6

(***************************************************************************)
(* The changes of a list of items, and the titles of a list of changes.    *)
(***************************************************************************)
Lasts(todo) == [i \in DOMAIN todo |-> Last(todo[i].of)]

Titled == Subjects \X BOOLEAN

LEMMA LastsMade ==
  ASSUME NEW todo \in Seq(Items)
  PROVE  /\ Lasts(todo) \in Seq(Changes) /\ Len(Lasts(todo)) = Len(todo)
         /\ \A i \in 1..Len(todo) : Lasts(todo)[i] = Last(todo[i].of)
<1>1. PICK n \in Nat : n = Len(todo) /\ DOMAIN todo = 1..n
  OBVIOUS
<1>2. \A i \in 1..n : Last(todo[i].of) \in Changes
  BY <1>1, ItemParts
<1>3. PICK w : w = [i \in 1..n |-> Last(todo[i].of)]
  OBVIOUS
<1>4. w \in [1..n -> Changes]
  BY <1>2, <1>3
<1>5. w \in Seq(Changes) /\ Len(w) = n
  BY <1>4, FunctionIsSeq
<1>6. w = Lasts(todo)
  BY <1>1, <1>3 DEF Lasts
<1> QED
  BY <1>1, <1>3, <1>5, <1>6

LEMMA LastsAppend ==
  ASSUME NEW todo \in Seq(Items), NEW it \in Items
  PROVE  Lasts(Append(todo, it)) = Append(Lasts(todo), Last(it.of))
<1>1. PICK n \in Nat : n = Len(todo)
  OBVIOUS
<1>9. PICK q : q = Append(todo, it)
  OBVIOUS
<1>2. q \in Seq(Items) /\ Len(q) = n + 1 /\ q[n + 1] = it /\ \A i \in 1..n : q[i] = todo[i]
  BY <1>1, <1>9
<1>3. PICK l \in Seq(Changes) : l = Lasts(q) /\ Len(l) = n + 1
                                /\ \A i \in 1..(n + 1) : l[i] = Last(q[i].of)
  BY <1>2, LastsMade
<1>4. PICK m \in Seq(Changes) : m = Lasts(todo) /\ Len(m) = n
                                /\ \A i \in 1..n : m[i] = Last(todo[i].of)
  BY <1>1, LastsMade
<1>5. PICK ch \in Changes : ch = Last(it.of)
  BY ItemParts
<1>10. PICK r : r = Append(m, ch)
  OBVIOUS
<1>6. r \in Seq(Changes) /\ Len(r) = n + 1 /\ r[n + 1] = ch /\ \A i \in 1..n : r[i] = m[i]
  BY <1>4, <1>10
<1>7. \A i \in 1..(n + 1) : l[i] = r[i]
  <2> SUFFICES ASSUME NEW i \in 1..(n + 1) PROVE l[i] = r[i]
    OBVIOUS
  <2>1. i \in 1..n \/ i = n + 1
    OBVIOUS
  <2> QED
    BY <2>1, <1>2, <1>3, <1>4, <1>5, <1>6
<1>8. l = r
  BY <1>3, <1>6, <1>7, SeqEqual
<1> QED
  BY <1>2, <1>3, <1>4, <1>5, <1>6, <1>8, <1>9, <1>10

LEMMA TitlesMade ==
  ASSUME NEW s \in Seq(Changes)
  PROVE  /\ Titles(s) \in Seq(Titled) /\ Len(Titles(s)) = Len(s)
         /\ \A i \in 1..Len(s) : Titles(s)[i] = <<s[i].subj, s[i].fix>>
<1>1. PICK n \in Nat : n = Len(s) /\ DOMAIN s = 1..n
  OBVIOUS
<1>2. \A i \in 1..n : <<s[i].subj, s[i].fix>> \in Titled
  <2> SUFFICES ASSUME NEW i \in 1..n PROVE <<s[i].subj, s[i].fix>> \in Titled
    OBVIOUS
  <2>1. s[i] \in Changes
    BY <1>1
  <2>2. s[i].subj \in Subjects /\ s[i].fix \in BOOLEAN
    BY <2>1 DEF Changes
  <2> QED
    BY <2>2 DEF Titled
<1>3. PICK w : w = [i \in 1..n |-> <<s[i].subj, s[i].fix>>]
  OBVIOUS
<1>4. w \in [1..n -> Titled]
  BY <1>2, <1>3
<1>5. w \in Seq(Titled) /\ Len(w) = n
  BY <1>4, FunctionIsSeq
<1>6. w = Titles(s)
  BY <1>1, <1>3 DEF Titles
<1> QED
  BY <1>1, <1>3, <1>5, <1>6

LEMMA TitlesAppend ==
  ASSUME NEW s \in Seq(Changes), NEW ch \in Changes
  PROVE  Titles(Append(s, ch)) = Append(Titles(s), <<ch.subj, ch.fix>>)
         /\ <<ch.subj, ch.fix>> \in Titled
<1>1. PICK n \in Nat : n = Len(s)
  OBVIOUS
<1>9. PICK q : q = Append(s, ch)
  OBVIOUS
<1>2. q \in Seq(Changes) /\ Len(q) = n + 1 /\ q[n + 1] = ch /\ \A i \in 1..n : q[i] = s[i]
  BY <1>1, <1>9
<1>3. PICK l \in Seq(Titled) : l = Titles(q) /\ Len(l) = n + 1
                               /\ \A i \in 1..(n + 1) : l[i] = <<q[i].subj, q[i].fix>>
  BY <1>2, TitlesMade
<1>4. PICK m \in Seq(Titled) : m = Titles(s) /\ Len(m) = n
                               /\ \A i \in 1..n : m[i] = <<s[i].subj, s[i].fix>>
  BY <1>1, TitlesMade
<1>5. PICK t \in Titled : t = <<ch.subj, ch.fix>>
  <2>1. ch.subj \in Subjects /\ ch.fix \in BOOLEAN
    BY DEF Changes
  <2> QED
    BY <2>1 DEF Titled
<1>10. PICK r : r = Append(m, t)
  OBVIOUS
<1>6. r \in Seq(Titled) /\ Len(r) = n + 1 /\ r[n + 1] = t /\ \A i \in 1..n : r[i] = m[i]
  BY <1>4, <1>10
<1>7. \A i \in 1..(n + 1) : l[i] = r[i]
  <2> SUFFICES ASSUME NEW i \in 1..(n + 1) PROVE l[i] = r[i]
    OBVIOUS
  <2>1. i \in 1..n \/ i = n + 1
    OBVIOUS
  <2> QED
    BY <2>1, <1>2, <1>3, <1>4, <1>5, <1>6
<1>8. l = r
  BY <1>3, <1>6, <1>7, SeqEqual
<1> QED
  BY <1>2, <1>3, <1>4, <1>5, <1>6, <1>8, <1>9, <1>10

LEMMA TitlesConcat ==
  ASSUME NEW a \in Seq(Changes), NEW b \in Seq(Changes)
  PROVE  Titles(a \o b) = Titles(a) \o Titles(b)
<1>1. PICK n \in Nat, m \in Nat : n = Len(a) /\ m = Len(b)
  OBVIOUS
<1>9. PICK c : c = a \o b
  OBVIOUS
<1>2. /\ c \in Seq(Changes) /\ Len(c) = n + m
      /\ \A i \in 1..n : c[i] = a[i]
      /\ \A i \in 1..m : c[n + i] = b[i]
  BY <1>1, <1>9
<1>3. PICK l \in Seq(Titled) : l = Titles(c) /\ Len(l) = n + m
                               /\ \A i \in 1..(n + m) : l[i] = <<c[i].subj, c[i].fix>>
  BY <1>2, TitlesMade
<1>4. PICK ta \in Seq(Titled) : ta = Titles(a) /\ Len(ta) = n
                                /\ \A i \in 1..n : ta[i] = <<a[i].subj, a[i].fix>>
  BY <1>1, TitlesMade
<1>5. PICK tb \in Seq(Titled) : tb = Titles(b) /\ Len(tb) = m
                                /\ \A i \in 1..m : tb[i] = <<b[i].subj, b[i].fix>>
  BY <1>1, TitlesMade
<1>10. PICK r : r = ta \o tb
  OBVIOUS
<1>6. /\ r \in Seq(Titled) /\ Len(r) = n + m
      /\ \A i \in 1..n : r[i] = ta[i]
      /\ \A i \in 1..m : r[n + i] = tb[i]
  <2>1. ta \in Seq(Titled) /\ n = Len(ta) /\ tb \in Seq(Titled) /\ m = Len(tb)
    BY <1>4, <1>5
  <2> QED
    BY <2>1, <1>10
<1>7. \A i \in 1..(n + m) : l[i] = r[i]
  <2> SUFFICES ASSUME NEW i \in 1..(n + m) PROVE l[i] = r[i]
    OBVIOUS
  <2>1. CASE i <= n
    <3>1. i \in 1..n
      BY <2>1
    <3>2. l[i] = <<c[i].subj, c[i].fix>>
      BY <1>3
    <3>3. c[i] = a[i]
      BY <3>1, <1>2
    <3>4. r[i] = ta[i] /\ ta[i] = <<a[i].subj, a[i].fix>>
      BY <3>1, <1>4, <1>6
    <3> QED
      BY <3>2, <3>3, <3>4
  <2>2. CASE ~(i <= n)
    <3>1. i - n \in 1..m /\ n + (i - n) = i
      BY <2>2
    <3>2. l[i] = <<c[i].subj, c[i].fix>>
      BY <1>3
    <3>3. c[n + (i - n)] = b[i - n]
      BY <3>1, <1>2
    <3>4. r[n + (i - n)] = tb[i - n] /\ tb[i - n] = <<b[i - n].subj, b[i - n].fix>>
      BY <3>1, <1>5, <1>6
    <3> QED
      BY <3>1, <3>2, <3>3, <3>4
  <2> QED
    BY <2>1, <2>2
<1>8. l = r
  BY <1>3, <1>6, <1>7, SeqEqual
<1> QED
  BY <1>2, <1>3, <1>4, <1>5, <1>6, <1>8, <1>9, <1>10

(***************************************************************************)
(* The tree of a commit with more changes on top.                          *)
(***************************************************************************)
LEMMA TreeMore ==
  ASSUME NEW c \in Seq(Changes), NEW s \in Seq(Changes), NEW ch \in Changes
  PROVE  TreeOf(c \o Append(s, ch)) = After(TreeOf(c \o s), ch)
<1>1. PICK d \in Seq(Changes) : d = c \o s
  <2>1. c \o s \in Seq(Changes)
    BY ConcatProperties
  <2> QED
    BY <2>1
<1>2. c \o Append(s, ch) = Append(d, ch)
  BY <1>1, ConcatAppend
<1> QED
  BY <1>1, <1>2, TreeAppend

\* The tree is made of what it was before and the changes.
AlikeOn(n) ==
    \A a \in Seq(Changes), b \in Seq(Changes), s \in Seq(Changes) :
        Len(s) = n /\ TreeOf(a) = TreeOf(b) => TreeOf(a \o s) = TreeOf(b \o s)

AlikeInduction == INSTANCE Induction WITH P <- AlikeOn, Op <- After

LEMMA TreeAlike ==
  ASSUME NEW a \in Seq(Changes), NEW b \in Seq(Changes), NEW s \in Seq(Changes),
         TreeOf(a) = TreeOf(b)
  PROVE  TreeOf(a \o s) = TreeOf(b \o s)
<1>1. AlikeOn(0)
  <2> SUFFICES ASSUME NEW c \in Seq(Changes), NEW d \in Seq(Changes), NEW r \in Seq(Changes),
                      Len(r) = 0, TreeOf(c) = TreeOf(d)
               PROVE  TreeOf(c \o r) = TreeOf(d \o r)
    BY DEF AlikeOn
  <2>1. r = <<>>
    OBVIOUS
  <2>2. c \o <<>> = c /\ d \o <<>> = d
    BY ConcatEmptySeq
  <2> QED
    BY <2>1, <2>2
<1>2. \A n \in Nat : AlikeOn(n) => AlikeOn(n + 1)
  <2> SUFFICES ASSUME NEW n \in Nat, AlikeOn(n),
                      NEW c \in Seq(Changes), NEW d \in Seq(Changes), NEW r \in Seq(Changes),
                      Len(r) = n + 1, TreeOf(c) = TreeOf(d)
               PROVE  TreeOf(c \o r) = TreeOf(d \o r)
    BY DEF AlikeOn
  <2>1. PICK q \in Seq(Changes), e \in Changes : r = Append(q, e) /\ Len(q) = n
    BY SeqSplit
  <2>2. TreeOf(c \o q) = TreeOf(d \o q)
    BY <2>1 DEF AlikeOn
  <2>3. TreeOf(c \o r) = After(TreeOf(c \o q), e)
    BY <2>1, TreeMore
  <2>4. TreeOf(d \o r) = After(TreeOf(d \o q), e)
    BY <2>1, TreeMore
  <2> QED
    BY <2>2, <2>3, <2>4
<1>3. \A n \in Nat : AlikeOn(n)
  BY <1>1, <1>2, NumbersWellOrdered, AlikeInduction!Induct DEF AlikeInduction!WellOrdered
<1>4. AlikeOn(Len(s))
  BY <1>3
<1> QED
  BY <1>4 DEF AlikeOn

LEMMA Commutes ==
  ASSUME NEW t, NEW c \in Changes, NEW d \in Changes, Independent(c, d)
  PROVE  After(After(t, c), d) = After(After(t, d), c)
BY DEF After, Independent

\* A change independent of those made later may as well be made before them.
EarlierOn(n) ==
    \A a \in Seq(Changes), s \in Seq(Changes), ch \in Changes :
        Len(s) = n /\ (\A i \in 1..n : Independent(s[i], ch)) =>
            TreeOf(Append(a, ch) \o s) = After(TreeOf(a \o s), ch)

EarlierInduction == INSTANCE Induction WITH P <- EarlierOn, Op <- After

LEMMA TreeEarlier ==
  ASSUME NEW a \in Seq(Changes), NEW s \in Seq(Changes), NEW ch \in Changes,
         \A i \in 1..Len(s) : Independent(s[i], ch)
  PROVE  TreeOf(Append(a, ch) \o s) = After(TreeOf(a \o s), ch)
<1>1. EarlierOn(0)
  <2> SUFFICES ASSUME NEW b \in Seq(Changes), NEW r \in Seq(Changes), NEW d \in Changes, Len(r) = 0
               PROVE  TreeOf(Append(b, d) \o r) = After(TreeOf(b \o r), d)
    BY DEF EarlierOn
  <2>1. r = <<>>
    OBVIOUS
  <2>2. PICK e \in Seq(Changes) : e = Append(b, d)
    BY AppendProperties
  <2>3. b \o <<>> = b /\ e \o <<>> = e
    BY ConcatEmptySeq
  <2>4. TreeOf(e) = After(TreeOf(b), d)
    BY <2>2, TreeAppend
  <2> QED
    BY <2>1, <2>2, <2>3, <2>4
<1>2. \A n \in Nat : EarlierOn(n) => EarlierOn(n + 1)
  <2> SUFFICES ASSUME NEW n \in Nat, EarlierOn(n),
                      NEW b \in Seq(Changes), NEW r \in Seq(Changes), NEW d \in Changes,
                      Len(r) = n + 1, \A i \in 1..(n + 1) : Independent(r[i], d)
               PROVE  TreeOf(Append(b, d) \o r) = After(TreeOf(b \o r), d)
    BY DEF EarlierOn
  <2>1. PICK q \in Seq(Changes), e \in Changes : r = Append(q, e) /\ Len(q) = n
    BY SeqSplit
  <2>2. r[n + 1] = e /\ \A i \in 1..n : r[i] = q[i]
    BY <2>1
  <2>3. Independent(e, d) /\ \A i \in 1..n : Independent(q[i], d)
    <3>1. n + 1 \in 1..(n + 1) /\ \A i \in 1..n : i \in 1..(n + 1)
      OBVIOUS
    <3> QED
      BY <3>1, <2>2
  <2>4. PICK f \in Seq(Changes) : f = Append(b, d)
    BY AppendProperties
  <2>5. TreeOf(f \o q) = After(TreeOf(b \o q), d)
    BY <2>1, <2>3, <2>4 DEF EarlierOn
  <2>6. TreeOf(f \o r) = After(TreeOf(f \o q), e)
    BY <2>1, TreeMore
  <2>7. TreeOf(b \o r) = After(TreeOf(b \o q), e)
    BY <2>1, TreeMore
  <2>8. After(After(TreeOf(b \o q), e), d) = After(After(TreeOf(b \o q), d), e)
    BY <2>3, Commutes
  <2> QED
    BY <2>4, <2>5, <2>6, <2>7, <2>8
<1>3. \A n \in Nat : EarlierOn(n)
  BY <1>1, <1>2, NumbersWellOrdered, EarlierInduction!Induct DEF EarlierInduction!WellOrdered
<1>4. EarlierOn(Len(s))
  BY <1>3
<1> QED
  BY <1>4 DEF EarlierOn

(***************************************************************************)
(* The titles of the items that make commits of their own.                 *)
(***************************************************************************)
LEMMA TitleOfItem ==
  ASSUME NEW it \in Items
  PROVE  <<Last(it.of).subj, Last(it.of).fix>> \in Titled
<1>1. PICK ch \in Changes : ch = Last(it.of)
  BY ItemParts
<1>2. ch.subj \in Subjects /\ ch.fix \in BOOLEAN
  BY DEF Changes
<1> QED
  BY <1>1, <1>2 DEF Titled

LEMMA LeadingMade ==
  ASSUME NEW list \in Seq(Titled), NEW it \in Items
  PROVE  Leading(list, it) \in Seq(Titled)
<1>1. PICK t \in Titled : t = <<Last(it.of).subj, Last(it.of).fix>>
  BY TitleOfItem
<1>2. Append(list, t) \in Seq(Titled)
  BY AppendProperties
<1> QED
  BY <1>1, <1>2 DEF Leading

\* All of what Led says: that it is a list of titles, of one list after another,
\* and of a list in which nothing is a fixup.
LedOn(n) ==
    \A b \in Seq(Items) : Len(b) = n =>
        /\ Led(b) \in Seq(Titled)
        /\ \A a \in Seq(Items) : Led(a) \in Seq(Titled) => Led(a \o b) = Led(a) \o Led(b)
        /\ (\A i \in 1..n : b[i].verb # "fixup") => Led(b) = Titles(Lasts(b))

LedInduction == INSTANCE Induction WITH P <- LedOn, Op <- Leading

LEMMA LedOfAll == \A n \in Nat : LedOn(n)
<1>1. LedOn(0)
  <2> SUFFICES ASSUME NEW b \in Seq(Items), Len(b) = 0
               PROVE  /\ Led(b) \in Seq(Titled)
                      /\ \A a \in Seq(Items) : Led(a) \in Seq(Titled) => Led(a \o b) = Led(a) \o Led(b)
                      /\ Led(b) = Titles(Lasts(b))
    BY DEF LedOn
  <2>1. b = <<>> /\ Led(b) = <<>>
    BY LedEmpty
  <2>2. \A a \in Seq(Items) : a \o <<>> = a
    BY ConcatEmptySeq
  <2>3. \A l \in Seq(Titled) : l \o <<>> = l
    BY ConcatEmptySeq
  <2>4. Titles(Lasts(b)) \in Seq(Titled) /\ Len(Titles(Lasts(b))) = 0
    BY LastsMade, TitlesMade
  <2>5. Titles(Lasts(b)) = <<>>
    BY <2>4
  <2>6. <<>> \in Seq(Titled)
    OBVIOUS
  <2> QED
    BY <2>1, <2>2, <2>3, <2>5, <2>6
<1>2. \A n \in Nat : LedOn(n) => LedOn(n + 1)
  <2> SUFFICES ASSUME NEW n \in Nat, LedOn(n), NEW b \in Seq(Items), Len(b) = n + 1
               PROVE  /\ Led(b) \in Seq(Titled)
                      /\ \A a \in Seq(Items) : Led(a) \in Seq(Titled) => Led(a \o b) = Led(a) \o Led(b)
                      /\ (\A i \in 1..(n + 1) : b[i].verb # "fixup") => Led(b) = Titles(Lasts(b))
    BY DEF LedOn
  <2>1. PICK q \in Seq(Items), e \in Items : b = Append(q, e) /\ Len(q) = n
    BY SeqSplit
  <2>2. Led(q) \in Seq(Titled)
    BY <2>1 DEF LedOn
  <2>3. Led(b) = Leading(Led(q), e)
    BY <2>1, LedAppend
  <2>4. PICK t \in Titled : t = <<Last(e.of).subj, Last(e.of).fix>>
    BY TitleOfItem
  <2>5. ASSUME NEW a \in Seq(Items), Led(a) \in Seq(Titled)
        PROVE  Led(a \o b) = Led(a) \o Led(b)
    <3>1. PICK d \in Seq(Items) : d = a \o q
      <4>1. a \o q \in Seq(Items)
        BY ConcatProperties
      <4> QED
        BY <4>1
    <3>2. a \o b = Append(d, e)
      BY <2>1, <3>1, ConcatAppend
    <3>3. Led(a \o b) = Leading(Led(d), e)
      BY <3>2, LedAppend
    <3>4. Led(d) = Led(a) \o Led(q)
      BY <2>1, <2>5, <3>1 DEF LedOn
    <3>5. Led(a) \o Append(Led(q), t) = Append(Led(a) \o Led(q), t)
      BY <2>2, <2>5, ConcatAppend
    <3> QED
      BY <2>3, <2>4, <3>3, <3>4, <3>5 DEF Leading
  <2>6. ASSUME \A i \in 1..(n + 1) : b[i].verb # "fixup"
        PROVE  Led(b) = Titles(Lasts(b))
    <3>1. b[n + 1] = e /\ \A i \in 1..n : b[i] = q[i]
      BY <2>1
    <3>2. e.verb # "fixup" /\ \A i \in 1..n : q[i].verb # "fixup"
      <4>1. n + 1 \in 1..(n + 1) /\ \A i \in 1..n : i \in 1..(n + 1)
        OBVIOUS
      <4> QED
        BY <2>6, <3>1, <4>1
    <3>3. Led(q) = Titles(Lasts(q))
      BY <2>1, <3>2 DEF LedOn
    <3>4. Led(b) = Append(Led(q), t)
      BY <2>3, <2>4, <3>2 DEF Leading
    <3>5. PICK l \in Seq(Changes) : l = Lasts(q)
      BY LastsMade
    <3>6. PICK ch \in Changes : ch = Last(e.of)
      BY ItemParts
    <3>7. Lasts(b) = Append(l, ch)
      BY <2>1, <3>5, <3>6, LastsAppend
    <3>8. Titles(Append(l, ch)) = Append(Titles(l), t)
      BY <2>4, <3>6, TitlesAppend
    <3> QED
      BY <3>3, <3>4, <3>5, <3>7, <3>8
  <2>7. Led(b) \in Seq(Titled)
    BY <2>2, <2>3, LeadingMade
  <2> QED
    BY <2>5, <2>6, <2>7
<1> QED
  BY <1>1, <1>2, NumbersWellOrdered, LedInduction!Induct DEF LedInduction!WellOrdered

LEMMA LedMade ==
  ASSUME NEW b \in Seq(Items)
  PROVE  /\ Led(b) \in Seq(Titled)
         /\ (\A i \in 1..Len(b) : b[i].verb # "fixup") => Led(b) = Titles(Lasts(b))
<1>1. LedOn(Len(b))
  BY LedOfAll
<1> QED
  BY <1>1 DEF LedOn

LEMMA LedConcat ==
  ASSUME NEW a \in Seq(Items), NEW b \in Seq(Items)
  PROVE  Led(a \o b) = Led(a) \o Led(b)
<1>1. LedOn(Len(b))
  BY LedOfAll
<1>2. Led(a) \in Seq(Titled)
  BY LedMade
<1> QED
  BY <1>1, <1>2 DEF LedOn

(***************************************************************************)
(* What an item does that does not stop the rebase.                        *)
(***************************************************************************)
LEMMA ItemApart ==
  ASSUME NEW it \in Items
  PROVE  Last(it.of).add \intersect Last(it.of).del = {}
<1>1. it.of \in AllCommits /\ it.of # <<>>
  BY ItemParts
<1>2. /\ Last(it.of).add \intersect TreeOf(Front(it.of)) = {}
      /\ Last(it.of).del \subseteq TreeOf(Front(it.of))
  BY <1>1, CommitLast
<1> QED
  BY <1>2

LEMMA OntoTree ==
  ASSUME NEW c \in AllCommits, NEW ch \in Changes, ch.add \intersect ch.del = {}
  PROVE  /\ TreeOf(Append(c, Onto(TreeOf(c), ch))) = After(TreeOf(c), ch)
         /\ Exact(TreeOf(c), ch) => Onto(TreeOf(c), ch) = ch
<1>1. TreeOf(c) \in SUBSET Edits
  BY TreeType
<1>2. PICK d \in Changes : d = Onto(TreeOf(c), ch)
  BY <1>1, OntoType
<1>3. d.add = ch.add \ TreeOf(c) /\ d.del = ch.del \intersect TreeOf(c)
  BY <1>1, <1>2, OntoType
<1>4. TreeOf(Append(c, d)) = (TreeOf(c) \union d.add) \ d.del
  BY TreeNext
<1>5. (TreeOf(c) \union d.add) \ d.del = (TreeOf(c) \union ch.add) \ ch.del
  BY <1>3
<1>6. ASSUME Exact(TreeOf(c), ch)
      PROVE  d = ch
  <2>1. d.add = ch.add /\ d.del = ch.del
    BY <1>3, <1>6 DEF Exact
  <2>2. d.subj = ch.subj /\ d.by = ch.by /\ d.fix = ch.fix
    BY <1>2 DEF Onto, Changes
  <2> QED
    BY <2>1, <2>2 DEF Changes
<1> QED
  BY <1>2, <1>4, <1>5, <1>6 DEF After

LEMMA RenamedMade ==
  ASSUME NEW ch \in Changes, NEW u \in Subjects
  PROVE  /\ [ch EXCEPT !.subj = u] \in Changes
         /\ [ch EXCEPT !.subj = u].add = ch.add /\ [ch EXCEPT !.subj = u].del = ch.del
         /\ [ch EXCEPT !.subj = u].subj = u /\ [ch EXCEPT !.subj = u].fix = ch.fix
BY DEF Changes

LEMMA MergedTree ==
  ASSUME NEW c \in AllCommits, c # <<>>, NEW ch \in Changes
  PROVE  /\ TreeOf(Append(Front(c), Merged(c, ch))) = After(TreeOf(c), ch)
         /\ Merged(c, ch) \in Changes
         /\ Merged(c, ch).subj = Last(c).subj /\ Merged(c, ch).fix = Last(c).fix
<1>1. Front(c) \in AllCommits /\ Last(c) \in Changes
  BY CommitLast
<1>2. TreeOf(Front(c)) \in SUBSET Edits /\ TreeOf(c) \in SUBSET Edits
  BY <1>1, TreeType
<1>3. After(TreeOf(c), ch) \in SUBSET Edits
  BY <1>2 DEF After, Changes
<1>4. PICK b \in SUBSET Edits : b = TreeOf(Front(c))
  BY <1>2
<1>5. PICK a \in SUBSET Edits : a = After(TreeOf(c), ch)
  BY <1>3
<1>6. Merged(c, ch) = [Last(c) EXCEPT !.add = a \ b, !.del = b \ a]
  BY <1>4, <1>5 DEF Merged
<1>7. PICK d \in Changes : /\ d = Merged(c, ch) /\ d.add = a \ b /\ d.del = b \ a
                           /\ d.subj = Last(c).subj /\ d.fix = Last(c).fix
  <2>1. [Last(c) EXCEPT !.add = a \ b, !.del = b \ a] \in Changes
    BY <1>1, <1>4, <1>5 DEF Changes
  <2> QED
    BY <2>1, <1>1, <1>6 DEF Changes
<1>8. TreeOf(Append(Front(c), d)) = (b \union d.add) \ d.del
  BY <1>1, <1>4, TreeNext
<1> QED
  BY <1>5, <1>7, <1>8

LEMMA ItemDone ==
  ASSUME NEW a \in Runs, Halted(a), NEW it \in Items, Item(a, it).stop = "none"
  PROVE  /\ a.stop = "none" /\ it.verb # "edit"
         /\ it.verb = "drop" => Item(a, it).head = a.head
         /\ it.verb # "drop" => TreeOf(Item(a, it).head) = After(TreeOf(a.head), Last(it.of))
         /\ it.verb = "pick" =>
                Item(a, it).head = Append(a.head, Onto(TreeOf(a.head), Last(it.of)))
         /\ it.verb = "reword" =>
                Item(a, it).head =
                    Append(a.head, [Onto(TreeOf(a.head), Last(it.of)) EXCEPT !.subj = "reworded"])
         /\ it.verb \in {"squash", "fixup"} /\ a.head # <<>> =>
                Item(a, it).head = Append(Front(a.head), Merged(a.head, Last(it.of)))
         /\ it.verb = "apply" =>
                \/ Item(a, it).head = a.head
                \/ Item(a, it).head = Append(a.head, Onto(TreeOf(a.head), Last(it.of)))
<1>1. a.stop = "none" /\ it.verb # "edit"
  BY ItemMade
<1>2. it.verb \in {"pick", "squash", "drop", "reword", "fixup", "apply"}
  BY <1>1 DEF Items
<1>3. PICK ch \in Changes : ch = Last(it.of) /\ ch.add \intersect ch.del = {}
  BY ItemParts, ItemApart
<1>4. PICK h \in AllCommits : h = a.head
  BY DEF Runs
<1>5. PICK t \in SUBSET Edits : t = TreeOf(h)
  BY TreeType
<1>6. PICK o \in Changes : o = Onto(t, ch) /\ o.add = ch.add \ t /\ o.del = ch.del \intersect t
  BY <1>5, OntoType
<1>7. PICK p : p = Append(h, o)
  OBVIOUS
<1>8. Last(p) = o
  <2>1. p \in AllCommits
    BY <1>5, <1>6, <1>7, PickedCommit
  <2> QED
    BY <2>1, <1>7, AncestorOfNext
<1>9. Item(a, it) =
        IF it.verb = "drop" THEN a
        ELSE IF Conflicts(t, ch) THEN Stop(a, it, "conflict")
        ELSE IF it.verb \in {"squash", "fixup"} /\ a.head # <<>>
             THEN [a EXCEPT !.head = Append(Front(h), Merged(h, ch))]
        ELSE IF ~Empty(ch) /\ Empty(o)
             THEN IF it.verb = "apply" THEN a ELSE Stop(a, it, "empty")
        ELSE IF it.verb = "reword"
             THEN [a EXCEPT !.head = Append(h, [o EXCEPT !.subj = "reworded"])]
        ELSE IF it.verb = "edit" THEN [a EXCEPT !.head = p, !.stop = "edit"]
        ELSE [a EXCEPT !.head = p]
  BY <1>1, <1>3, <1>4, <1>5, <1>6, <1>7, <1>8 DEF Item
<1>10. Stop(a, it, "conflict").stop = "conflict" /\ Stop(a, it, "empty").stop = "empty"
  BY StopMade
<1>11. \A x : [a EXCEPT !.head = x].head = x
  BY DEF Runs
<1>12. TreeOf(p) = After(t, ch)
  BY <1>3, <1>5, <1>6, <1>7, OntoTree
<1>13. CASE it.verb = "drop"
  BY <1>1, <1>9, <1>13
<1>14. CASE it.verb # "drop" /\ it.verb \in {"squash", "fixup"} /\ a.head # <<>>
  <2>1. Item(a, it).head = Append(Front(h), Merged(h, ch))
    BY <1>9, <1>10, <1>11, <1>14
  <2>2. TreeOf(Append(Front(h), Merged(h, ch))) = After(TreeOf(h), ch)
    BY <1>4, <1>14, MergedTree
  <2> QED
    BY <1>1, <1>3, <1>4, <1>5, <1>14, <2>1, <2>2
<1>15. CASE it.verb # "drop" /\ ~(it.verb \in {"squash", "fixup"} /\ a.head # <<>>)
  <2>1. CASE ~Empty(ch) /\ Empty(o)
    <3>1. it.verb = "apply" /\ Item(a, it) = a
      BY <1>9, <1>10, <1>15, <2>1
    <3>2. o.add \union o.del = {}
      BY <2>1 DEF Empty
    <3>3. After(t, ch) = t
      BY <3>2, <1>6 DEF After
    <3> QED
      BY <3>1, <3>3, <1>1, <1>3, <1>4, <1>5
  <2>2. CASE ~(~Empty(ch) /\ Empty(o)) /\ it.verb = "reword"
    <3>1. PICK d \in Changes : d = [o EXCEPT !.subj = "reworded"] /\ d.add = o.add /\ d.del = o.del
      <4>1. "reworded" \in Subjects
        BY SubjectsAssumption
      <4> QED
        BY <4>1, RenamedMade
    <3>2. Item(a, it).head = Append(h, d)
      BY <1>9, <1>10, <1>11, <1>15, <2>2, <3>1
    <3>3. TreeOf(Append(h, d)) = (t \union d.add) \ d.del
      BY <1>5, TreeNext
    <3>4. TreeOf(Append(h, o)) = (t \union o.add) \ o.del
      BY <1>5, TreeNext
    <3>5. Item(a, it).head =
            Append(a.head, [Onto(TreeOf(a.head), Last(it.of)) EXCEPT !.subj = "reworded"])
      BY <1>3, <1>4, <1>5, <1>6, <3>1, <3>2
    <3>6. TreeOf(Append(h, d)) = After(t, ch)
      BY <1>7, <1>12, <3>1, <3>3, <3>4
    <3>7. TreeOf(Item(a, it).head) = After(TreeOf(a.head), Last(it.of))
      BY <1>3, <1>4, <1>5, <3>2, <3>6
    <3> QED
      BY <1>1, <2>2, <3>5, <3>7
  <2>3. CASE ~(~Empty(ch) /\ Empty(o)) /\ it.verb # "reword"
    <3>1. Item(a, it).head = p
      BY <1>1, <1>9, <1>10, <1>11, <1>15, <2>3
    <3>2. Item(a, it).head = Append(a.head, Onto(TreeOf(a.head), Last(it.of)))
      BY <1>3, <1>4, <1>5, <1>6, <1>7, <3>1
    <3>3. TreeOf(Item(a, it).head) = After(TreeOf(a.head), Last(it.of))
      BY <1>3, <1>4, <1>5, <1>12, <3>1
    <3> QED
      BY <1>1, <1>15, <2>3, <3>2, <3>3
  <2> QED
    BY <2>1, <2>2, <2>3
<1> QED
  BY <1>2, <1>13, <1>14, <1>15

(***************************************************************************)
(* Running one list after another.                                         *)
(***************************************************************************)
OnOn(n) ==
    \A from \in AllCommits, s \in Seq(Items), t \in Seq(Items) : Len(t) = n =>
        /\ Ran(from, s).stop = "none" => Ran(from, s \o t) = Ran(Ran(from, s).head, t)
        /\ Ran(from, s).stop # "none" =>
               Ran(from, s \o t) = [Ran(from, s) EXCEPT !.todo = @ \o t]

OnInduction == INSTANCE Induction WITH P <- OnOn, Op <- Item

LEMMA RunOn ==
  ASSUME NEW from \in AllCommits, NEW s \in Seq(Items), NEW t \in Seq(Items)
  PROVE  /\ Ran(from, s).stop = "none" => Ran(from, s \o t) = Ran(Ran(from, s).head, t)
         /\ Ran(from, s).stop # "none" =>
                Ran(from, s \o t) = [Ran(from, s) EXCEPT !.todo = @ \o t]
<1>1. OnOn(0)
  <2> SUFFICES ASSUME NEW f \in AllCommits, NEW a \in Seq(Items), NEW b \in Seq(Items), Len(b) = 0
               PROVE  /\ Ran(f, a).stop = "none" => Ran(f, a \o b) = Ran(Ran(f, a).head, b)
                      /\ Ran(f, a).stop # "none" =>
                             Ran(f, a \o b) = [Ran(f, a) EXCEPT !.todo = @ \o b]
    BY DEF OnOn
  <2>1. b = <<>>
    OBVIOUS
  <2>2. a \o <<>> = a
    BY ConcatEmptySeq
  <2>3. PICK r \in Runs : r = Ran(f, a) /\ Halted(r)
    BY RunMade
  <2>4. r.todo \in Seq(Items)
    BY DEF Runs
  <2>5. r.todo \o <<>> = r.todo
    BY <2>4, ConcatEmptySeq
  <2>6. [r EXCEPT !.todo = r.todo] = r
    BY DEF Runs
  <2>7. r.stop = "none" => r = [head |-> r.head, todo |-> <<>>, stop |-> "none"]
    BY <2>3 DEF Halted, Runs
  <2>8. Ran(r.head, <<>>) = [head |-> r.head, todo |-> <<>>, stop |-> "none"]
    BY RanEmpty
  <2> QED
    BY <2>1, <2>2, <2>3, <2>5, <2>6, <2>7, <2>8
<1>2. \A n \in Nat : OnOn(n) => OnOn(n + 1)
  <2> SUFFICES ASSUME NEW n \in Nat, OnOn(n), NEW f \in AllCommits, NEW a \in Seq(Items),
                      NEW b \in Seq(Items), Len(b) = n + 1
               PROVE  /\ Ran(f, a).stop = "none" => Ran(f, a \o b) = Ran(Ran(f, a).head, b)
                      /\ Ran(f, a).stop # "none" =>
                             Ran(f, a \o b) = [Ran(f, a) EXCEPT !.todo = @ \o b]
    BY DEF OnOn
  <2>1. PICK q \in Seq(Items), e \in Items : b = Append(q, e) /\ Len(q) = n
    BY SeqSplit
  <2>2. PICK d \in Seq(Items) : d = a \o q
    <3>1. a \o q \in Seq(Items)
      BY ConcatProperties
    <3> QED
      BY <3>1
  <2>3. a \o b = Append(d, e)
    BY <2>1, <2>2, ConcatAppend
  <2>4. Ran(f, a \o b) = Item(Ran(f, d), e)
    BY <2>3, RanAppend
  <2>5. PICK r \in Runs : r = Ran(f, a) /\ Halted(r)
    BY RunMade
  <2>6. r.head \in AllCommits /\ r.todo \in Seq(Items)
    BY DEF Runs
  <2>7. ASSUME r.stop = "none"
        PROVE  Ran(f, a \o b) = Ran(r.head, b)
    <3>1. Ran(f, d) = Ran(r.head, q)
      BY <2>1, <2>2, <2>5, <2>7 DEF OnOn
    <3>2. Ran(r.head, b) = Item(Ran(r.head, q), e)
      BY <2>1, <2>6, RanAppend
    <3> QED
      BY <2>4, <3>1, <3>2
  <2>8. ASSUME r.stop # "none"
        PROVE  Ran(f, a \o b) = [r EXCEPT !.todo = r.todo \o b]
    <3>1. Ran(f, d) = [r EXCEPT !.todo = r.todo \o q]
      BY <2>1, <2>2, <2>5, <2>8 DEF OnOn
    <3>2. PICK w : w = r.todo \o q
      OBVIOUS
    <3>3. r.todo \o b = Append(w, e)
      <4>1. PICK z \in Seq(Items) : z = r.todo
        BY <2>6
      <4>2. z \o Append(q, e) = Append(z \o q, e)
        BY ConcatAppend
      <4> QED
        BY <2>1, <3>2, <4>1, <4>2
    <3>4. Ran(f, d).stop # "none" /\ Ran(f, d).todo = w
      BY <2>8, <3>1, <3>2 DEF Runs
    <3>5. Item(Ran(f, d), e) = [Ran(f, d) EXCEPT !.todo = Append(w, e)]
      BY <3>4 DEF Item
    <3>6. PICK x : x = Append(w, e)
      OBVIOUS
    <3>7. r = [head |-> r.head, todo |-> r.todo, stop |-> r.stop]
      BY DEF Runs
    <3>8. [[r EXCEPT !.todo = w] EXCEPT !.todo = x] = [r EXCEPT !.todo = x]
      BY <3>7
    <3> QED
      BY <2>4, <3>1, <3>2, <3>3, <3>5, <3>6, <3>8
  <2> QED
    BY <2>5, <2>7, <2>8
<1>3. \A n \in Nat : OnOn(n)
  BY <1>1, <1>2, NumbersWellOrdered, OnInduction!Induct DEF OnInduction!WellOrdered
<1>4. OnOn(Len(t))
  BY <1>3
<1> QED
  BY <1>4 DEF OnOn

\* A list that ends has not stopped on the way.
LEMMA RunsOn ==
  ASSUME NEW from \in AllCommits, NEW s \in Seq(Items), NEW t \in Seq(Items),
         Ran(from, s \o t).stop = "none"
  PROVE  /\ Ran(from, s).stop = "none" /\ Ran(from, s).head \in AllCommits
         /\ Ran(from, s \o t) = Ran(Ran(from, s).head, t)
<1>1. PICK r \in Runs : r = Ran(from, s)
  BY RunMade
<1>2. r.head \in AllCommits
  BY DEF Runs
<1>3. r.stop # "none" => Ran(from, s \o t).stop # "none"
  BY <1>1, RunOn DEF Runs
<1> QED
  BY <1>1, <1>2, <1>3, RunOn

LEMMA RunOne ==
  ASSUME NEW from \in AllCommits, NEW it \in Items
  PROVE  /\ [head |-> from, todo |-> <<>>, stop |-> "none"] \in Runs
         /\ Halted([head |-> from, todo |-> <<>>, stop |-> "none"])
         /\ Ran(from, <<it>>) = Item([head |-> from, todo |-> <<>>, stop |-> "none"], it)
<1>1. <<>> \in Seq(Items) /\ <<it>> = Append(<<>>, it)
  OBVIOUS
<1>2. Ran(from, <<it>>) = Item(Ran(from, <<>>), it)
  <2>1. PICK b : b = <<>>
    OBVIOUS
  <2>2. PICK o : o = <<it>>
    OBVIOUS
  <2>3. b \in Seq(Items) /\ o = Append(b, it)
    BY <1>1, <2>1, <2>2
  <2>4. Ran(from, Append(b, it)) = Item(Ran(from, b), it)
    BY <2>3, RanAppend
  <2> QED
    BY <2>1, <2>2, <2>3, <2>4
<1>3. PICK a : a = [head |-> from, todo |-> <<>>, stop |-> "none"]
  OBVIOUS
<1>4. Ran(from, <<>>) = a
  BY <1>3, RanEmpty
<1>5. a \in Runs
  <2>1. a.head \in AllCommits /\ a.todo \in Seq(Items) /\ a.stop = "none"
    BY <1>1, <1>3
  <2> QED
    BY <2>1, <1>3 DEF Runs
<1>6. Halted(a)
  BY <1>3 DEF Halted
<1> QED
  BY <1>2, <1>3, <1>4, <1>5, <1>6

\* The last item of a list that ends.
LEMMA RunLast ==
  ASSUME NEW from \in AllCommits, NEW s \in Seq(Items), NEW it \in Items,
         Ran(from, Append(s, it)).stop = "none"
  PROVE  \E a \in Runs : /\ a = Ran(from, s) /\ Halted(a) /\ a.head \in AllCommits
                         /\ a.stop = "none"
                         /\ Ran(from, Append(s, it)) = Item(a, it) /\ Item(a, it).stop = "none"
<1>1. PICK a \in Runs : a = Ran(from, s) /\ Halted(a)
  BY RunMade
<1>2. a.head \in AllCommits
  BY DEF Runs
<1>3. Ran(from, Append(s, it)) = Item(a, it)
  BY <1>1, RanAppend
<1>4. a.stop = "none"
  BY <1>1, <1>3, ItemDone
<1> QED
  BY <1>1, <1>2, <1>3, <1>4

LEMMA OntoTitle ==
  ASSUME NEW c \in AllCommits, NEW ch \in Changes
  PROVE  /\ Onto(TreeOf(c), ch) \in Changes
         /\ Onto(TreeOf(c), ch).subj = ch.subj /\ Onto(TreeOf(c), ch).fix = ch.fix
<1>1. TreeOf(c) \in SUBSET Edits
  BY TreeType
<1> QED
  BY <1>1, OntoType DEF Onto, Changes

(***************************************************************************)
(* The tree a list that ends leads to.                                     *)
(***************************************************************************)
RunTreeOn(n) ==
    \A from \in AllCommits, s \in Seq(Items) :
        /\ Len(s) = n /\ \A i \in 1..n : s[i].verb # "drop"
        /\ Ran(from, s).stop = "none"
        => TreeOf(Ran(from, s).head) = TreeOf(from \o Lasts(s))

RunTreeInduction == INSTANCE Induction WITH P <- RunTreeOn, Op <- Item

LEMMA RunTree ==
  ASSUME NEW from \in AllCommits, NEW s \in Seq(Items),
         \A i \in 1..Len(s) : s[i].verb # "drop", Ran(from, s).stop = "none"
  PROVE  TreeOf(Ran(from, s).head) = TreeOf(from \o Lasts(s))
<1>1. RunTreeOn(0)
  <2> SUFFICES ASSUME NEW f \in AllCommits, NEW a \in Seq(Items), Len(a) = 0
               PROVE  TreeOf(Ran(f, a).head) = TreeOf(f \o Lasts(a))
    BY DEF RunTreeOn
  <2>1. a = <<>>
    OBVIOUS
  <2>2. Lasts(a) \in Seq(Changes) /\ Len(Lasts(a)) = 0
    BY LastsMade
  <2>3. Lasts(a) = <<>>
    BY <2>2
  <2>4. f \in Seq(Changes)
    BY CommitLen
  <2>5. f \o <<>> = f
    BY <2>4, ConcatEmptySeq
  <2>6. Ran(f, <<>>).head = f
    BY RanEmpty
  <2> QED
    BY <2>1, <2>3, <2>5, <2>6
<1>2. \A n \in Nat : RunTreeOn(n) => RunTreeOn(n + 1)
  <2> SUFFICES ASSUME NEW n \in Nat, RunTreeOn(n), NEW f \in AllCommits, NEW a \in Seq(Items),
                      Len(a) = n + 1, \A i \in 1..(n + 1) : a[i].verb # "drop",
                      Ran(f, a).stop = "none"
               PROVE  TreeOf(Ran(f, a).head) = TreeOf(f \o Lasts(a))
    BY DEF RunTreeOn
  <2>1. PICK q \in Seq(Items), e \in Items : a = Append(q, e) /\ Len(q) = n
    BY SeqSplit
  <2>2. a[n + 1] = e /\ \A i \in 1..n : a[i] = q[i]
    BY <2>1
  <2>3. e.verb # "drop" /\ \A i \in 1..n : q[i].verb # "drop"
    <3>1. n + 1 \in 1..(n + 1) /\ \A i \in 1..n : i \in 1..(n + 1)
      OBVIOUS
    <3> QED
      BY <2>2, <3>1
  <2>4. PICK r \in Runs : /\ r = Ran(f, q) /\ Halted(r) /\ r.stop = "none"
                          /\ Ran(f, a) = Item(r, e) /\ Item(r, e).stop = "none"
    BY <2>1, RunLast
  <2>5. TreeOf(r.head) = TreeOf(f \o Lasts(q))
    BY <2>1, <2>3, <2>4 DEF RunTreeOn
  <2>6. TreeOf(Item(r, e).head) = After(TreeOf(r.head), Last(e.of))
    BY <2>3, <2>4, ItemDone
  <2>7. PICK l \in Seq(Changes) : l = Lasts(q)
    BY LastsMade
  <2>8. PICK ch \in Changes : ch = Last(e.of)
    BY ItemParts
  <2>9. Lasts(a) = Append(l, ch)
    BY <2>1, <2>7, <2>8, LastsAppend
  <2>10. f \in Seq(Changes)
    BY CommitLen
  <2>11. TreeOf(f \o Append(l, ch)) = After(TreeOf(f \o l), ch)
    BY <2>10, TreeMore
  <2> QED
    BY <2>4, <2>5, <2>6, <2>7, <2>8, <2>9, <2>11
<1>3. \A n \in Nat : RunTreeOn(n)
  BY <1>1, <1>2, NumbersWellOrdered, RunTreeInduction!Induct DEF RunTreeInduction!WellOrdered
<1>4. RunTreeOn(Len(s))
  BY <1>3
<1> QED
  BY <1>4 DEF RunTreeOn

(***************************************************************************)
(* The titles of a list of picks and fixups that ends.                     *)
(***************************************************************************)
Above(r, from) ==
    r \in AllCommits /\ Len(r) >= Len(from) /\ \A i \in 1..Len(from) : r[i] = from[i]

\* A list as "--autosquash" makes it of picks.
Folding(s) ==
    /\ \A i \in 1..Len(s) : s[i].verb \in {"pick", "fixup"}
    /\ Len(s) > 0 => s[1].verb = "pick"

Leads(from, s, r) ==
    /\ Titles(r) = Titles(from) \o Led(s)
    /\ Above(r, from)
    /\ Len(s) > 0 => Len(r) > Len(from)

RunLedOn(n) ==
    \A from \in AllCommits, s \in Seq(Items) :
        Len(s) = n /\ Folding(s) /\ Ran(from, s).stop = "none" => Leads(from, s, Ran(from, s).head)

RunLedInduction == INSTANCE Induction WITH P <- RunLedOn, Op <- Item

LEMMA AbovePick ==
  ASSUME NEW from \in AllCommits, NEW c, Above(c, from), NEW ch \in Changes,
         Append(c, ch) \in AllCommits
  PROVE  Above(Append(c, ch), from) /\ Len(Append(c, ch)) > Len(from)
         /\ Titles(Append(c, ch)) = Append(Titles(c), <<ch.subj, ch.fix>>)
<1>1. c \in Seq(Changes) /\ from \in Seq(Changes)
  BY CommitLen DEF Above
<1>2. PICK n \in Nat, k \in Nat : n = Len(c) /\ k = Len(from) /\ n >= k
  BY <1>1 DEF Above
<1>3. PICK d : d = Append(c, ch)
  OBVIOUS
<1>4. Len(d) = n + 1 /\ \A i \in 1..n : d[i] = c[i]
  BY <1>1, <1>2, <1>3
<1>5. \A i \in 1..k : c[i] = from[i] /\ i \in 1..n
  BY <1>2 DEF Above
<1>6. Above(d, from) /\ Len(d) > k
  BY <1>2, <1>3, <1>4, <1>5 DEF Above
<1>7. Titles(Append(c, ch)) = Append(Titles(c), <<ch.subj, ch.fix>>)
  BY <1>1, TitlesAppend
<1> QED
  BY <1>2, <1>3, <1>6, <1>7

LEMMA AboveMerged ==
  ASSUME NEW from \in AllCommits, NEW c, Above(c, from), Len(c) > Len(from), NEW ch \in Changes
  PROVE  /\ c # <<>> /\ Above(Append(Front(c), Merged(c, ch)), from)
         /\ Len(Append(Front(c), Merged(c, ch))) = Len(c)
         /\ Titles(Append(Front(c), Merged(c, ch))) = Titles(c)
<1>1. c \in AllCommits /\ c \in Seq(Changes) /\ from \in Seq(Changes)
  BY CommitLen DEF Above
<1>2. PICK n \in Nat, k \in Nat : n = Len(c) /\ k = Len(from) /\ n > k
  BY <1>1
<1>3. c # <<>>
  BY <1>1, <1>2
<1>4. PICK f \in Seq(Changes), l \in Changes :
          f = Front(c) /\ l = Last(c) /\ c = Append(f, l) /\ Len(f) + 1 = n
  <2>1. Front(c) \in Seq(Changes)
    BY <1>1, <1>3, CommitLast, CommitLen
  <2> QED
    BY <1>1, <1>2, <1>3, <2>1, CommitLast
<1>5. PICK m \in Changes : m = Merged(c, ch) /\ m.subj = l.subj /\ m.fix = l.fix
  BY <1>1, <1>3, <1>4, MergedTree
<1>6. PICK d : d = Append(f, m)
  OBVIOUS
<1>7. Len(d) = n /\ (\A i \in 1..(n - 1) : d[i] = f[i])
  BY <1>2, <1>4, <1>6
<1>8. \A i \in 1..(n - 1) : c[i] = f[i]
  BY <1>2, <1>4
<1>9. \A i \in 1..k : c[i] = from[i] /\ i \in 1..(n - 1)
  BY <1>2 DEF Above
<1>10. d \in AllCommits
  BY <1>1, <1>3, <1>4, <1>5, <1>6, MergedCommit
<1>11. Above(d, from)
  BY <1>2, <1>7, <1>8, <1>9, <1>10 DEF Above
<1>12. Titles(Append(f, m)) = Append(Titles(f), <<m.subj, m.fix>>)
  BY TitlesAppend
<1>13. Titles(Append(f, l)) = Append(Titles(f), <<l.subj, l.fix>>)
  BY TitlesAppend
<1> QED
  BY <1>2, <1>3, <1>4, <1>5, <1>6, <1>7, <1>11, <1>12, <1>13

LEMMA RunLed ==
  ASSUME NEW from \in AllCommits, NEW s \in Seq(Items),
         Folding(s), Ran(from, s).stop = "none"
  PROVE  Leads(from, s, Ran(from, s).head)
<1>1. RunLedOn(0)
  <2> SUFFICES ASSUME NEW f \in AllCommits, NEW a \in Seq(Items), Len(a) = 0
               PROVE  Leads(f, a, Ran(f, a).head)
    BY DEF RunLedOn
  <2>1. a = <<>> /\ Led(a) = <<>>
    BY LedEmpty
  <2>2. Ran(f, a).head = f
    BY <2>1, RanEmpty
  <2>3. Titles(f) \in Seq(Titled)
    BY CommitLen, TitlesMade
  <2>4. Titles(f) \o <<>> = Titles(f)
    BY <2>3, ConcatEmptySeq
  <2>5. Above(f, f)
    BY CommitLen DEF Above
  <2>6. Titles(Ran(f, a).head) = Titles(f) \o Led(a)
    BY <2>1, <2>2, <2>4
  <2>7. ~(Len(a) > 0)
    OBVIOUS
  <2> QED
    BY <2>2, <2>5, <2>6, <2>7 DEF Leads
<1>2. \A n \in Nat : RunLedOn(n) => RunLedOn(n + 1)
  <2> SUFFICES ASSUME NEW n \in Nat, RunLedOn(n), NEW f \in AllCommits, NEW a \in Seq(Items),
                      Len(a) = n + 1, Folding(a), Ran(f, a).stop = "none"
               PROVE  Leads(f, a, Ran(f, a).head)
    BY DEF RunLedOn
  <2>1. PICK q \in Seq(Items), e \in Items : a = Append(q, e) /\ Len(q) = n
    BY SeqSplit
  <2>2. a[n + 1] = e /\ \A i \in 1..n : a[i] = q[i]
    BY <2>1
  <2>3. e.verb \in {"pick", "fixup"} /\ \A i \in 1..n : q[i].verb \in {"pick", "fixup"}
    <3>1. n + 1 \in 1..(n + 1) /\ \A i \in 1..n : i \in 1..(n + 1)
      OBVIOUS
    <3> QED
      BY <2>2, <3>1 DEF Folding
  <2>4. (n > 0 => q[1].verb = "pick") /\ (e.verb = "fixup" => n > 0)
    BY <2>2 DEF Folding
  <2>5. Folding(q)
    BY <2>1, <2>3, <2>4 DEF Folding
  <2>6. PICK r \in Runs : /\ r = Ran(f, q) /\ Halted(r) /\ r.stop = "none" /\ r.head \in AllCommits
                          /\ Ran(f, a) = Item(r, e) /\ Item(r, e).stop = "none"
    BY <2>1, RunLast
  <2>7. /\ Titles(r.head) = Titles(f) \o Led(q) /\ Above(r.head, f)
        /\ n > 0 => Len(r.head) > Len(f)
    BY <2>1, <2>5, <2>6 DEF RunLedOn, Leads
  <2>8. PICK ch \in Changes : ch = Last(e.of)
    BY ItemParts
  <2>9. Led(a) = Leading(Led(q), e)
    BY <2>1, LedAppend
  <2>10. Titles(f) \in Seq(Titled) /\ Led(q) \in Seq(Titled)
    BY CommitLen, TitlesMade, LedMade
  <2>11. CASE e.verb = "pick"
    <3>1. PICK o \in Changes : /\ o = Onto(TreeOf(r.head), ch) /\ o.subj = ch.subj
                               /\ o.fix = ch.fix
      BY <2>6, OntoTitle
    <3>2. Item(r, e).head = Append(r.head, o) /\ Append(r.head, o) \in AllCommits
      BY <2>6, <2>8, <2>11, <3>1, ItemDone, PickedCommit
    <3>3. /\ Above(Append(r.head, o), f) /\ Len(Append(r.head, o)) > Len(f)
          /\ Titles(Append(r.head, o)) = Append(Titles(r.head), <<o.subj, o.fix>>)
      BY <2>7, <3>2, AbovePick
    <3>4. PICK t \in Titled : t = <<ch.subj, ch.fix>>
      BY <2>8, TitleOfItem
    <3>5. Led(a) = Append(Led(q), t)
      BY <2>8, <2>9, <2>11, <3>4 DEF Leading
    <3>6. Titles(f) \o Append(Led(q), t) = Append(Titles(f) \o Led(q), t)
      BY <2>10, ConcatAppend
    <3> QED
      BY <2>6, <2>7, <3>1, <3>2, <3>3, <3>4, <3>5, <3>6 DEF Leads
  <2>12. CASE e.verb = "fixup"
    <3>1. Led(a) = Led(q)
      BY <2>9, <2>12 DEF Leading
    <3>2. /\ r.head # <<>> /\ Above(Append(Front(r.head), Merged(r.head, ch)), f)
          /\ Len(Append(Front(r.head), Merged(r.head, ch))) = Len(r.head)
          /\ Titles(Append(Front(r.head), Merged(r.head, ch))) = Titles(r.head)
      BY <2>4, <2>7, <2>12, AboveMerged
    <3>3. Item(r, e).head = Append(Front(r.head), Merged(r.head, ch))
      BY <2>6, <2>8, <2>12, <3>2, ItemDone
    <3> QED
      BY <2>4, <2>6, <2>7, <2>12, <3>1, <3>2, <3>3 DEF Leads
  <2> QED
    BY <2>3, <2>11, <2>12
<1>3. \A n \in Nat : RunLedOn(n)
  BY <1>1, <1>2, NumbersWellOrdered, RunLedInduction!Induct DEF RunLedInduction!WellOrdered
<1>4. RunLedOn(Len(s))
  BY <1>3
<1> QED
  BY <1>4 DEF RunLedOn

LEMMA FrontOfAppend ==
  ASSUME NEW S, NEW s \in Seq(S), NEW e \in S
  PROVE  Front(Append(s, e)) = s /\ Last(Append(s, e)) = e /\ Len(Append(s, e)) = Len(s) + 1
<1>1. PICK n \in Nat : n = Len(s)
  OBVIOUS
<1>2. PICK q : q = Append(s, e)
  OBVIOUS
<1>3. q \in Seq(S) /\ Len(q) = n + 1 /\ q[n + 1] = e /\ \A i \in 1..n : q[i] = s[i]
  BY <1>1, <1>2
<1>4. Front(q) = SubSeq(q, 1, n) /\ Last(q) = e
  BY <1>3 DEF Front, Last
<1>5. PICK p : p = SubSeq(q, 1, n)
  OBVIOUS
<1>6. p \in Seq(S) /\ Len(p) = n /\ \A i \in 1..n : p[i] = q[i]
  BY <1>3, <1>5
<1>7. p = s
  BY <1>1, <1>3, <1>6, SeqEqual
<1> QED
  BY <1>1, <1>2, <1>3, <1>4, <1>5, <1>7

LEMMA ExactLast ==
  ASSUME NEW d \in Seq(Changes), NEW ch \in Changes, Append(d, ch) \in AllCommits
  PROVE  d \in AllCommits /\ Exact(TreeOf(d), ch)
<1>1. PICK p \in AllCommits : p = Append(d, ch)
  OBVIOUS
<1>2. Front(p) = d /\ Last(p) = ch /\ p # <<>>
  BY <1>1, FrontOfAppend
<1>3. /\ Front(p) \in AllCommits
      /\ Last(p).add \intersect TreeOf(Front(p)) = {} /\ Last(p).del \subseteq TreeOf(Front(p))
  BY <1>2, CommitLast
<1> QED
  BY <1>2, <1>3 DEF Exact

(***************************************************************************)
(* Commits that are picked on top of the same tree come out as they were.  *)
(***************************************************************************)
OnlyPicks(s) == \A i \in 1..Len(s) : s[i].verb = "pick"

ReplayOn(n) ==
    \A from \in AllCommits, c \in AllCommits, s \in Seq(Items) :
        /\ Len(s) = n /\ OnlyPicks(s) /\ c \o Lasts(s) \in AllCommits
        /\ TreeOf(from) = TreeOf(c) /\ Ran(from, s).stop = "none"
        => Ran(from, s).head = from \o Lasts(s)

ReplayInduction == INSTANCE Induction WITH P <- ReplayOn, Op <- Item

LEMMA OnlyPicksFront ==
  ASSUME NEW q \in Seq(Items), NEW e \in Items, OnlyPicks(Append(q, e))
  PROVE  OnlyPicks(q) /\ e.verb = "pick"
<1>1. PICK n \in Nat : n = Len(q)
  OBVIOUS
<1>2. PICK a : a = Append(q, e)
  OBVIOUS
<1>3. Len(a) = n + 1 /\ a[n + 1] = e /\ \A i \in 1..n : a[i] = q[i]
  BY <1>1, <1>2
<1>4. n + 1 \in 1..(n + 1) /\ \A i \in 1..n : i \in 1..(n + 1)
  OBVIOUS
<1> QED
  BY <1>1, <1>2, <1>3, <1>4 DEF OnlyPicks

LEMMA Replay ==
  ASSUME NEW from \in AllCommits, NEW c \in AllCommits, NEW s \in Seq(Items), OnlyPicks(s),
         c \o Lasts(s) \in AllCommits, TreeOf(from) = TreeOf(c), Ran(from, s).stop = "none"
  PROVE  Ran(from, s).head = from \o Lasts(s)
<1>1. ReplayOn(0)
  <2> SUFFICES ASSUME NEW f \in AllCommits, NEW a \in Seq(Items), Len(a) = 0
               PROVE  Ran(f, a).head = f \o Lasts(a)
    BY DEF ReplayOn
  <2>1. a = <<>>
    OBVIOUS
  <2>2. Lasts(a) \in Seq(Changes) /\ Len(Lasts(a)) = 0
    BY LastsMade
  <2>3. Lasts(a) = <<>>
    BY <2>2
  <2>4. f \in Seq(Changes)
    BY CommitLen
  <2>5. f \o <<>> = f
    BY <2>4, ConcatEmptySeq
  <2>6. Ran(f, <<>>).head = f
    BY RanEmpty
  <2> QED
    BY <2>1, <2>3, <2>5, <2>6
<1>2. \A n \in Nat : ReplayOn(n) => ReplayOn(n + 1)
  <2> SUFFICES ASSUME NEW n \in Nat, ReplayOn(n), NEW f \in AllCommits, NEW d \in AllCommits,
                      NEW a \in Seq(Items), Len(a) = n + 1, OnlyPicks(a),
                      d \o Lasts(a) \in AllCommits, TreeOf(f) = TreeOf(d), Ran(f, a).stop = "none"
               PROVE  Ran(f, a).head = f \o Lasts(a)
    BY DEF ReplayOn
  <2>1. PICK q \in Seq(Items), e \in Items : a = Append(q, e) /\ Len(q) = n
    BY SeqSplit
  <2>2. OnlyPicks(q) /\ e.verb = "pick"
    BY <2>1, OnlyPicksFront
  <2>3. PICK l \in Seq(Changes) : l = Lasts(q)
    BY LastsMade
  <2>4. PICK ch \in Changes : ch = Last(e.of)
    BY ItemParts
  <2>5. Lasts(a) = Append(l, ch)
    BY <2>1, <2>3, <2>4, LastsAppend
  <2>6. f \in Seq(Changes) /\ d \in Seq(Changes)
    BY CommitLen
  <2>7. PICK dl \in Seq(Changes) : dl = d \o l
    <3>1. d \o l \in Seq(Changes)
      BY <2>6, ConcatProperties
    <3> QED
      BY <3>1
  <2>8. Append(dl, ch) \in AllCommits
    <3>1. d \o Append(l, ch) = Append(d \o l, ch)
      BY <2>6, ConcatAppend
    <3> QED
      BY <2>5, <2>7, <3>1
  <2>9. dl \in AllCommits /\ Exact(TreeOf(dl), ch)
    BY <2>8, ExactLast
  <2>10. PICK r \in Runs : /\ r = Ran(f, q) /\ Halted(r) /\ r.stop = "none" /\ r.head \in AllCommits
                           /\ Ran(f, a) = Item(r, e) /\ Item(r, e).stop = "none"
    BY <2>1, RunLast
  <2>11. r.head = f \o l
    BY <2>1, <2>2, <2>3, <2>7, <2>9, <2>10 DEF ReplayOn
  <2>12. TreeOf(r.head) = TreeOf(dl)
    BY <2>6, <2>7, <2>11, TreeAlike
  <2>13. Onto(TreeOf(r.head), ch) = ch
    <3>1. ch.add \intersect ch.del = {}
      BY <2>4, ItemApart
    <3> QED
      BY <2>9, <2>10, <2>12, <3>1, OntoTree
  <2>14. Item(r, e).head = Append(r.head, ch)
    BY <2>2, <2>4, <2>10, <2>13, ItemDone
  <2>15. f \o Append(l, ch) = Append(f \o l, ch)
    BY <2>6, ConcatAppend
  <2> QED
    BY <2>5, <2>10, <2>11, <2>14, <2>15
<1>3. \A n \in Nat : ReplayOn(n)
  BY <1>1, <1>2, NumbersWellOrdered, ReplayInduction!Induct DEF ReplayInduction!WellOrdered
<1>4. ReplayOn(Len(s))
  BY <1>3
<1> QED
  BY <1>4 DEF ReplayOn

(***************************************************************************)
(* What a plain rebase picks is made on top, and what comes of nothing is  *)
(* left out.                                                               *)
(***************************************************************************)
OnlyApplies(s) == \A i \in 1..Len(s) : s[i].verb = "apply"

Applies(from, s, r) ==
    \E u \in Seq(Changes) : r = from \o u /\ ToSet(Titles(u)) \subseteq ToSet(Titles(Lasts(s)))

ApplyOn(n) ==
    \A from \in AllCommits, s \in Seq(Items) :
        Len(s) = n /\ OnlyApplies(s) /\ Ran(from, s).stop = "none" =>
            Applies(from, s, Ran(from, s).head)

ApplyInduction == INSTANCE Induction WITH P <- ApplyOn, Op <- Item

LEMMA RunApply ==
  ASSUME NEW from \in AllCommits, NEW s \in Seq(Items), OnlyApplies(s), Ran(from, s).stop = "none"
  PROVE  Applies(from, s, Ran(from, s).head)
<1>1. ApplyOn(0)
  <2> SUFFICES ASSUME NEW f \in AllCommits, NEW a \in Seq(Items), Len(a) = 0
               PROVE  Applies(f, a, Ran(f, a).head)
    BY DEF ApplyOn
  <2>1. PICK u : u = <<>>
    OBVIOUS
  <2>2. a = u /\ u \in Seq(Changes)
    BY <2>1
  <2>3. Lasts(a) \in Seq(Changes) /\ Len(Lasts(a)) = 0
    BY LastsMade
  <2>4. Lasts(a) = u
    BY <2>1, <2>3
  <2>5. f \in Seq(Changes)
    BY CommitLen
  <2>6. f \o u = f
    BY <2>1, <2>5, ConcatEmptySeq
  <2>7. Ran(f, u).head = f
    BY <2>1, RanEmpty
  <2> QED
    BY <2>2, <2>4, <2>6, <2>7 DEF Applies
<1>2. \A n \in Nat : ApplyOn(n) => ApplyOn(n + 1)
  <2> SUFFICES ASSUME NEW n \in Nat, ApplyOn(n), NEW f \in AllCommits, NEW a \in Seq(Items),
                      Len(a) = n + 1, OnlyApplies(a), Ran(f, a).stop = "none"
               PROVE  Applies(f, a, Ran(f, a).head)
    BY DEF ApplyOn
  <2>1. PICK q \in Seq(Items), e \in Items : a = Append(q, e) /\ Len(q) = n
    BY SeqSplit
  <2>2. OnlyApplies(q) /\ e.verb = "apply"
    <3>1. Len(a) = n + 1 /\ a[n + 1] = e /\ \A i \in 1..n : a[i] = q[i]
      BY <2>1
    <3>2. n + 1 \in 1..(n + 1) /\ \A i \in 1..n : i \in 1..(n + 1)
      OBVIOUS
    <3> QED
      BY <2>1, <3>1, <3>2 DEF OnlyApplies
  <2>3. PICK l \in Seq(Changes) : l = Lasts(q)
    BY LastsMade
  <2>4. PICK ch \in Changes : ch = Last(e.of)
    BY ItemParts
  <2>5. Lasts(a) = Append(l, ch)
    BY <2>1, <2>3, <2>4, LastsAppend
  <2>6. PICK t \in Titled : t = <<ch.subj, ch.fix>> /\ Titles(Lasts(a)) = Append(Titles(l), t)
    BY <2>5, TitlesAppend
  <2>7. ToSet(Titles(Lasts(a))) = ToSet(Titles(l)) \union {t}
    <3>1. Titles(l) \in Seq(Titled)
      BY TitlesMade
    <3>2. ToSet(Append(Titles(l), t)) = ToSet(Titles(l)) \union {t}
      BY <3>1, SetOfAppend
    <3> QED
      BY <2>6, <3>2
  <2>8. PICK r \in Runs : /\ r = Ran(f, q) /\ Halted(r) /\ r.stop = "none" /\ r.head \in AllCommits
                          /\ Ran(f, a) = Item(r, e) /\ Item(r, e).stop = "none"
    BY <2>1, RunLast
  <2>9. Applies(f, q, r.head)
    BY <2>1, <2>2, <2>8 DEF ApplyOn
  <2>10. PICK u \in Seq(Changes) : r.head = f \o u /\ ToSet(Titles(u)) \subseteq ToSet(Titles(l))
    BY <2>3, <2>9 DEF Applies
  <2>11. PICK o \in Changes : /\ o = Onto(TreeOf(r.head), ch) /\ o.subj = ch.subj
                              /\ o.fix = ch.fix
    BY <2>8, OntoTitle
  <2>12. Item(r, e).head = r.head \/ Item(r, e).head = Append(r.head, o)
    BY <2>2, <2>4, <2>8, <2>11, ItemDone
  <2>13. CASE Item(r, e).head = r.head
    BY <2>7, <2>8, <2>10, <2>13 DEF Applies
  <2>14. CASE Item(r, e).head = Append(r.head, o)
    <3>1. PICK w \in Seq(Changes) : w = Append(u, o)
      BY AppendProperties
    <3>2. f \in Seq(Changes)
      BY CommitLen
    <3>3. f \o w = Append(f \o u, o)
      BY <3>1, <3>2, ConcatAppend
    <3>4. Titles(w) = Append(Titles(u), t)
      BY <2>6, <2>11, <3>1, TitlesAppend
    <3>5. Titles(u) \in Seq(Titled)
      BY TitlesMade
    <3>6. ToSet(Titles(w)) = ToSet(Titles(u)) \union {t}
      BY <3>4, <3>5, SetOfAppend
    <3>7. ToSet(Titles(w)) \subseteq ToSet(Titles(Lasts(a)))
      BY <2>7, <2>10, <3>6
    <3>8. Ran(f, a).head = f \o w
      BY <2>8, <2>10, <2>14, <3>3
    <3> QED
      BY <3>7, <3>8 DEF Applies
  <2> QED
    BY <2>12, <2>13, <2>14
<1>3. \A n \in Nat : ApplyOn(n)
  BY <1>1, <1>2, NumbersWellOrdered, ApplyInduction!Induct DEF ApplyInduction!WellOrdered
<1>4. ApplyOn(Len(s))
  BY <1>3
<1> QED
  BY <1>4 DEF ApplyOn

(***************************************************************************)
(* The list of a rebase picks what is missing, in its order.               *)
(***************************************************************************)
LEMMA PartOfCommit ==
  ASSUME NEW h \in AllCommits, NEW k \in 1..Len(h)
  PROVE  /\ SubSeq(h, 1, k) \in Listed /\ Len(SubSeq(h, 1, k)) = k
         /\ Last(SubSeq(h, 1, k)) = h[k] /\ h[k] \in Changes
<1>1. PICK n \in Nat : n = Len(h) /\ h \in Seq(Changes)
  BY CommitLen
<1>2. k \in 0..Len(h) /\ k \in 1..n
  BY <1>1
<1>3. PICK c \in AllCommits : c = SubSeq(h, 1, k) /\ Len(c) = k
  BY <1>2, CommitPrefix
<1>4. c[k] = h[k]
  BY <1>1, <1>2, <1>3
<1>5. c # <<>>
  BY <1>2, <1>3, CommitLen
<1>6. Last(c) = h[k]
  BY <1>3, <1>4 DEF Last
<1>7. h[k] \in Changes
  BY <1>1, <1>2
<1> QED
  BY <1>3, <1>5, <1>6, <1>7 DEF Listed

Pick(c) == [verb |-> "pick", of |-> c]

PickSame(s, own) == Len(s) = Len(own) /\ \A i \in 1..Len(own) : s[i] = Pick(own[i])

WantsThose(own, s, theirs, u, m) ==
    /\ u = [todo |-> u.todo, theirs |-> theirs] /\ u.todo \in Seq(Items) /\ OnlyPicks(u.todo)
    /\ m = [own |-> Lasts(u.todo), theirs |-> theirs]
    /\ theirs = {} => PickSame(u.todo, own)

WantsOn(n) ==
    \A own \in Seq(Listed), s \in Seq(Changes) : \A theirs :
        Len(own) = n /\ Len(s) = n /\ (\A i \in 1..n : s[i] = Last(own[i])) =>
            WantsThose(own, s, theirs, Unpicked(own, theirs), Missed(s, theirs))

WantsInduction == INSTANCE Induction WITH P <- WantsOn, Op <- Wanted

LEMMA UnpickedAs ==
  ASSUME NEW own \in Seq(Listed), NEW s \in Seq(Changes), NEW theirs,
         Len(own) = Len(s), \A i \in 1..Len(s) : s[i] = Last(own[i])
  PROVE  WantsThose(own, s, theirs, Unpicked(own, theirs), Missed(s, theirs))
<1>1. WantsOn(0)
  <2> SUFFICES ASSUME NEW o \in Seq(Listed), NEW r \in Seq(Changes), NEW t, Len(o) = 0, Len(r) = 0
               PROVE  WantsThose(o, r, t, Unpicked(o, t), Missed(r, t))
    BY DEF WantsOn
  <2>1. PICK e : e = <<>>
    OBVIOUS
  <2>2. o = e /\ r = e /\ e \in Seq(Items) /\ Len(e) = 0
    BY <2>1
  <2>3. Unpicked(e, t) = [todo |-> e, theirs |-> t]
    BY <2>1, WantEmpty
  <2>4. Missed(e, t) = [own |-> e, theirs |-> t]
    BY <2>1, MissEmpty
  <2>5. Lasts(e) \in Seq(Changes) /\ Len(Lasts(e)) = 0
    BY <2>2, LastsMade
  <2>6. Lasts(e) = e
    BY <2>1, <2>5
  <2>7. OnlyPicks(e) /\ PickSame(e, e)
    BY <2>2 DEF OnlyPicks, PickSame
  <2>8. PICK u : u = Unpicked(e, t) /\ u.todo = e /\ u = [todo |-> u.todo, theirs |-> t]
    BY <2>3
  <2> QED
    BY <2>2, <2>4, <2>6, <2>7, <2>8 DEF WantsThose
<1>2. \A n \in Nat : WantsOn(n) => WantsOn(n + 1)
  <2> SUFFICES ASSUME NEW n \in Nat, WantsOn(n), NEW o \in Seq(Listed), NEW r \in Seq(Changes),
                      NEW t, Len(o) = n + 1, Len(r) = n + 1, \A i \in 1..(n + 1) : r[i] = Last(o[i])
               PROVE  WantsThose(o, r, t, Unpicked(o, t), Missed(r, t))
    BY DEF WantsOn
  <2>1. PICK p \in Seq(Listed), c \in Listed : o = Append(p, c) /\ Len(p) = n
    BY SeqSplit
  <2>2. PICK q \in Seq(Changes), ch \in Changes : r = Append(q, ch) /\ Len(q) = n
    BY SeqSplit
  <2>3. o[n + 1] = c /\ \A i \in 1..n : o[i] = p[i]
    BY <2>1
  <2>4. r[n + 1] = ch /\ \A i \in 1..n : r[i] = q[i]
    BY <2>2
  <2>5. n + 1 \in 1..(n + 1) /\ \A i \in 1..n : i \in 1..(n + 1)
    OBVIOUS
  <2>6. ch = Last(c) /\ \A i \in 1..n : q[i] = Last(p[i])
    BY <2>3, <2>4, <2>5
  <2>7. PICK u : u = Unpicked(p, t)
    OBVIOUS
  <2>8. PICK m : m = Missed(q, t)
    OBVIOUS
  <2>9. WantsThose(p, q, t, u, m)
    BY <2>1, <2>2, <2>6, <2>7, <2>8 DEF WantsOn
  <2>10. PICK todo \in Seq(Items) : /\ u = [todo |-> todo, theirs |-> t] /\ OnlyPicks(todo)
                                    /\ m = [own |-> Lasts(todo), theirs |-> t]
                                    /\ (t = {} => PickSame(todo, p))
    <3>1. u.todo \in Seq(Items)
      BY <2>9 DEF WantsThose
    <3> QED
      BY <2>9, <3>1 DEF WantsThose
  <2>11. Unpicked(o, t) = Wanted(u, c)
    BY <2>1, <2>7, WantAppend
  <2>12. Missed(r, t) = Missing(m, ch)
    BY <2>2, <2>8, MissAppend
  <2>13. PICK x : x = <<ch.add, ch.del>>
    OBVIOUS
  <2>14. CASE x \in t
    <3>1. Wanted(u, c) = u
      BY <2>6, <2>10, <2>13, <2>14 DEF Wanted
    <3>2. Missing(m, ch) = m
      BY <2>10, <2>13, <2>14 DEF Missing
    <3>3. t # {}
      BY <2>14
    <3>4. WantsThose(o, r, t, u, m)
      BY <2>9, <3>3 DEF WantsThose
    <3> QED
      BY <2>11, <2>12, <3>1, <3>2, <3>4
  <2>15. CASE x \notin t
    <3>1. PICK it \in Items : it = Pick(c)
      BY DEF Pick, Items, Listed
    <3>2. it.of = c /\ it.verb = "pick"
      BY <3>1 DEF Pick
    <3>3. PICK more \in Seq(Items) : more = Append(todo, it)
      BY AppendProperties
    <3>4. Wanted(u, c) = [todo |-> more, theirs |-> t]
      BY <2>6, <2>10, <2>13, <2>15, <3>1, <3>3 DEF Wanted, Pick
    <3>5. PICK l \in Seq(Changes) : l = Lasts(todo)
      BY LastsMade
    <3>6. Lasts(more) = Append(l, ch)
      BY <2>6, <3>2, <3>3, <3>5, LastsAppend
    <3>7. Missing(m, ch) = [own |-> Lasts(more), theirs |-> t]
      BY <2>10, <2>13, <2>15, <3>5, <3>6 DEF Missing
    <3>8. PICK k \in Nat : k = Len(todo)
      OBVIOUS
    <3>9. Len(more) = k + 1 /\ more[k + 1] = it /\ \A i \in 1..k : more[i] = todo[i]
      BY <3>3, <3>8
    <3>10. OnlyPicks(more)
      <4> SUFFICES ASSUME NEW i \in 1..(k + 1) PROVE more[i].verb = "pick"
        BY <3>9 DEF OnlyPicks
      <4>1. i \in 1..k \/ i = k + 1
        OBVIOUS
      <4> QED
        BY <2>10, <3>2, <3>8, <3>9, <4>1 DEF OnlyPicks
    <3>11. ASSUME t = {}
           PROVE  PickSame(more, o)
      <4>1. k = n /\ \A i \in 1..n : todo[i] = Pick(p[i])
        BY <2>1, <2>10, <3>8, <3>11 DEF PickSame
      <4>2. ASSUME NEW i \in 1..(n + 1)
            PROVE  more[i] = Pick(o[i])
        <5>1. i \in 1..n \/ i = n + 1
          OBVIOUS
        <5> QED
          BY <2>3, <3>1, <3>9, <4>1, <5>1
      <4> QED
        BY <3>9, <4>1, <4>2 DEF PickSame
    <3>12. PICK v : v = Unpicked(o, t)
      OBVIOUS
    <3>13. v = [todo |-> more, theirs |-> t] /\ v.todo = more
      BY <2>11, <3>4, <3>12
    <3>14. WantsThose(o, r, t, v, Missed(r, t))
      BY <2>12, <3>3, <3>7, <3>10, <3>11, <3>13 DEF WantsThose
    <3> QED
      BY <3>12, <3>14
  <2> QED
    BY <2>14, <2>15
<1>3. \A n \in Nat : WantsOn(n)
  BY <1>1, <1>2, NumbersWellOrdered, WantsInduction!Induct DEF WantsInduction!WellOrdered
<1>4. WantsOn(Len(s))
  BY <1>3
<1> QED
  BY <1>4 DEF WantsOn

OwnOf(h, k) == [i \in 1..(Len(h) - k) |-> SubSeq(h, 1, k + i)]

\* The commits of h above the first k of them.
PicksOf(h, k) == [i \in 1..(Len(h) - k) |-> Pick(SubSeq(h, 1, k + i))]

LEMMA OwnOfMade ==
  ASSUME NEW h \in AllCommits, NEW k \in 0..Len(h)
  PROVE  /\ OwnOf(h, k) \in Seq(Listed) /\ Len(OwnOf(h, k)) = Len(h) - k
         /\ \A i \in 1..(Len(h) - k) :
                /\ OwnOf(h, k)[i] = SubSeq(h, 1, k + i) /\ SubSeq(h, 1, k + i) \in Listed
                /\ Last(OwnOf(h, k)[i]) = SubSeq(h, k + 1, Len(h))[i]
         /\ SubSeq(h, k + 1, Len(h)) \in Seq(Changes) /\ Len(SubSeq(h, k + 1, Len(h))) = Len(h) - k
         /\ h = SubSeq(h, 1, k) \o SubSeq(h, k + 1, Len(h))
<1>1. PICK n \in Nat : n = Len(h) /\ h \in Seq(Changes)
  BY CommitLen
<1>2. PICK m \in Nat : m = n - k
  <2>1. n - k \in Nat
    BY <1>1
  <2> QED
    BY <2>1
<1>3. PICK own : own = OwnOf(h, k)
  OBVIOUS
<1>4. own = [i \in 1..m |-> SubSeq(h, 1, k + i)]
  BY <1>1, <1>2, <1>3 DEF OwnOf
<1>5. \A i \in 1..m : SubSeq(h, 1, k + i) \in Listed /\ Last(SubSeq(h, 1, k + i)) = h[k + i]
  <2> TAKE i \in 1..m
  <2>1. k + i \in 1..Len(h)
    BY <1>1, <1>2
  <2> QED
    BY <2>1, PartOfCommit
<1>6. own \in [1..m -> Listed]
  BY <1>4, <1>5
<1>7. own \in Seq(Listed) /\ Len(own) = m
  BY <1>6, FunctionIsSeq
<1>8. PICK p : p = SubSeq(h, k + 1, Len(h))
  OBVIOUS
<1>9. /\ p \in Seq(Changes) /\ Len(p) = m /\ h = SubSeq(h, 1, k) \o p
      /\ \A i \in 1..m : p[i] = h[k + i]
  <2>1. /\ h = SubSeq(h, 1, k) \o SubSeq(h, k + 1, Len(h))
        /\ SubSeq(h, k + 1, Len(h)) \in Seq(Changes) /\ Len(SubSeq(h, k + 1, Len(h))) = Len(h) - k
        /\ \A i \in 1..(Len(h) - k) : SubSeq(h, k + 1, Len(h))[i] = h[k + i]
    BY <1>1, PartsOf
  <2> QED
    BY <1>1, <1>2, <1>8, <2>1
<1>10. \A i \in 1..m : own[i] = SubSeq(h, 1, k + i)
  BY <1>4
<1> QED
  BY <1>1, <1>2, <1>3, <1>5, <1>7, <1>8, <1>9, <1>10

LEMMA PicksOfMade ==
  ASSUME NEW h \in AllCommits, NEW k \in 0..Len(h)
  PROVE  /\ PicksOf(h, k) \in Seq(Items) /\ Len(PicksOf(h, k)) = Len(h) - k
         /\ OnlyPicks(PicksOf(h, k)) /\ Lasts(PicksOf(h, k)) = SubSeq(h, k + 1, Len(h))
         /\ \A i \in 1..(Len(h) - k) : PicksOf(h, k)[i] = Pick(SubSeq(h, 1, k + i))
<1>1. PICK m \in Nat : m = Len(h) - k
  BY CommitLen
<1>2. PICK s : s = PicksOf(h, k)
  OBVIOUS
<1>3. s = [i \in 1..m |-> Pick(SubSeq(h, 1, k + i))]
  BY <1>1, <1>2 DEF PicksOf
<1>4. \A i \in 1..m : /\ SubSeq(h, 1, k + i) \in Listed
                      /\ Last(SubSeq(h, 1, k + i)) = SubSeq(h, k + 1, Len(h))[i]
  BY <1>1, OwnOfMade
<1>5. \A i \in 1..m : Pick(SubSeq(h, 1, k + i)) \in Items
  BY <1>4 DEF Pick, Items, Listed
<1>6. s \in [1..m -> Items]
  BY <1>3, <1>5
<1>7. s \in Seq(Items) /\ Len(s) = m
  BY <1>6, FunctionIsSeq
<1>8. \A i \in 1..m : /\ s[i] = Pick(SubSeq(h, 1, k + i)) /\ s[i].verb = "pick"
                      /\ s[i].of = SubSeq(h, 1, k + i)
  BY <1>3 DEF Pick
<1>9. OnlyPicks(s)
  BY <1>7, <1>8 DEF OnlyPicks
<1>10. Lasts(s) \in Seq(Changes) /\ Len(Lasts(s)) = m
       /\ \A i \in 1..m : Lasts(s)[i] = Last(s[i].of)
  BY <1>7, LastsMade
<1>11. PICK p \in Seq(Changes) : p = SubSeq(h, k + 1, Len(h)) /\ Len(p) = m
  BY <1>1, OwnOfMade
<1>12. \A i \in 1..m : Lasts(s)[i] = p[i]
  BY <1>4, <1>8, <1>10, <1>11
<1>13. Lasts(s) = p
  BY <1>10, <1>11, <1>12, SeqEqual
<1> QED
  BY <1>1, <1>2, <1>7, <1>8, <1>9, <1>11, <1>13

LEMMA PicksFrom ==
  ASSUME NEW g, NEW h \in AllCommits, g.head = h, NEW k \in 0..Len(h)
  PROVE  Picks(g, SubSeq(h, 1, k)) = PicksOf(h, k)
<1>1. PICK base \in AllCommits : base = SubSeq(h, 1, k) /\ Len(base) = k
  BY CommitPrefix
<1>2. Ancestor(base, h)
  BY <1>1, PrefixIsAncestor
<1>3. Parting(base, h) = k
  BY <1>1, <1>2, CommonPrefix
<1>4. PICK e : e = SubSeq(base, k + 1, k)
  OBVIOUS
<1>5. e = <<>>
  BY <1>1, <1>4, CommitLen
<1>6. ToSet(e) = {}
  BY <1>5, SetOfEmpty
<1>7. PICK theirs : theirs = {<<ch.add, ch.del>> : ch \in ToSet(e)}
  OBVIOUS
<1>8. theirs = {}
  BY <1>6, <1>7
<1>9. PICK own : own = OwnOf(h, k)
  OBVIOUS
<1>10. Picks(g, base) = Unpicked(own, theirs).todo
  BY <1>1, <1>3, <1>4, <1>7, <1>9 DEF Picks, OwnOf
<1>11. PICK p : p = SubSeq(h, k + 1, Len(h))
  OBVIOUS
<1>12. PICK m \in Nat : m = Len(h) - k
  BY CommitLen
<1>13. /\ own \in Seq(Listed) /\ p \in Seq(Changes) /\ Len(own) = m /\ Len(p) = m
       /\ \A i \in 1..m : p[i] = Last(own[i]) /\ own[i] = SubSeq(h, 1, k + i)
  BY <1>9, <1>11, <1>12, OwnOfMade
<1>14. WantsThose(own, p, theirs, Unpicked(own, theirs), Missed(p, theirs))
  BY <1>13, UnpickedAs
<1>15. PICK s \in Seq(Items) : s = Unpicked(own, theirs).todo /\ PickSame(s, own)
  BY <1>8, <1>14 DEF WantsThose
<1>16. Len(s) = m /\ \A i \in 1..m : s[i] = Pick(SubSeq(h, 1, k + i))
  BY <1>13, <1>15 DEF PickSame
<1>17. PICK t \in Seq(Items) : /\ t = PicksOf(h, k) /\ Len(t) = m
                               /\ \A i \in 1..m : t[i] = Pick(SubSeq(h, 1, k + i))
  BY <1>12, PicksOfMade
<1>18. s = t
  BY <1>16, <1>17, SeqEqual
<1> QED
  BY <1>1, <1>10, <1>15, <1>17, <1>18

LEMMA PicksSplit ==
  ASSUME NEW h \in AllCommits, NEW k \in 0..(Len(h) - 1)
  PROVE  /\ Pick(SubSeq(h, 1, k + 1)) \in Items
         /\ PicksOf(h, k) = <<Pick(SubSeq(h, 1, k + 1))>> \o PicksOf(h, k + 1)
<1>1. PICK n \in Nat : n = Len(h)
  BY CommitLen
<1>2. k \in 0..Len(h) /\ k + 1 \in 0..Len(h) /\ n - k \in Nat /\ 1 \in 1..(n - k)
  BY <1>1
<1>3. PICK s \in Seq(Items) : /\ s = PicksOf(h, k) /\ Len(s) = n - k
                              /\ \A i \in 1..(n - k) : s[i] = Pick(SubSeq(h, 1, k + i))
  BY <1>1, <1>2, PicksOfMade
<1>4. PICK t \in Seq(Items) : /\ t = PicksOf(h, k + 1) /\ Len(t) = n - (k + 1)
                              /\ \A i \in 1..(n - (k + 1)) : t[i] = Pick(SubSeq(h, 1, (k + 1) + i))
  BY <1>1, <1>2, PicksOfMade
<1>5. PICK e \in Items : e = Pick(SubSeq(h, 1, k + 1))
  BY <1>2, <1>3
<1>6. PICK q : q = <<e>> \o t
  OBVIOUS
<1>7. PICK m \in Nat : m = n - (k + 1)
  BY <1>1, <1>2
<1>8. q \in Seq(Items) /\ Len(q) = m + 1 /\ q[1] = e /\ \A i \in 1..m : q[1 + i] = t[i]
  <2>1. m = Len(t)
    BY <1>4, <1>7
  <2> QED
    BY <1>6, <2>1
<1>9. n - k = m + 1
  BY <1>1, <1>7
<1>10. \A i \in 1..(m + 1) : s[i] = q[i]
  <2> SUFFICES ASSUME NEW i \in 1..(m + 1) PROVE s[i] = q[i]
    OBVIOUS
  <2>1. CASE i = 1
    BY <1>2, <1>3, <1>5, <1>8, <2>1
  <2>2. CASE i # 1
    <3>1. i - 1 \in 1..m /\ 1 + (i - 1) = i /\ (k + 1) + (i - 1) = k + i
      BY <2>2
    <3>2. t[i - 1] = Pick(SubSeq(h, 1, (k + 1) + (i - 1)))
      BY <1>4, <1>7, <3>1
    <3>3. s[i] = Pick(SubSeq(h, 1, k + i))
      BY <1>3, <1>9
    <3>4. q[1 + (i - 1)] = t[i - 1]
      BY <1>8, <3>1
    <3> QED
      BY <3>1, <3>2, <3>3, <3>4
  <2> QED
    BY <2>1, <2>2
<1>11. s = q
  BY <1>3, <1>8, <1>9, <1>10, SeqEqual
<1> QED
  BY <1>3, <1>4, <1>5, <1>6, <1>11

LEMMA PicksOnto ==
  ASSUME NEW g, g.head \in AllCommits, NEW onto \in AllCommits
  PROVE  /\ Picks(g, onto) \in Seq(Items) /\ OnlyPicks(Picks(g, onto))
         /\ Lasts(Picks(g, onto)) = Own(g.head, onto)
<1>1. PICK h \in AllCommits : h = g.head
  OBVIOUS
<1>2. PICK k : k = Parting(onto, h)
  OBVIOUS
<1>3. k = Parting(h, onto)
  <2>1. {onto, h} = {h, onto}
    OBVIOUS
  <2> QED
    BY <1>2, <2>1 DEF Parting
<1>4. k \in 0..Len(h)
  BY <1>3, CommonPrefix
<1>5. PICK theirs : theirs = {<<ch.add, ch.del>> : ch \in ToSet(SubSeq(onto, k + 1, Len(onto)))}
  OBVIOUS
<1>6. PICK own : own = OwnOf(h, k)
  OBVIOUS
<1>7. Picks(g, onto) = Unpicked(own, theirs).todo
  BY <1>1, <1>2, <1>5, <1>6 DEF Picks, OwnOf
<1>8. PICK p : p = SubSeq(h, k + 1, Len(h))
  OBVIOUS
<1>9. Own(h, onto) = Missed(p, theirs).own
  BY <1>3, <1>5, <1>8 DEF Own
<1>10. PICK m \in Nat : m = Len(h) - k
  BY <1>4, CommitLen
<1>11. /\ own \in Seq(Listed) /\ p \in Seq(Changes) /\ Len(own) = m /\ Len(p) = m
       /\ \A i \in 1..m : p[i] = Last(own[i])
  BY <1>4, <1>6, <1>8, <1>10, OwnOfMade
<1>12. WantsThose(own, p, theirs, Unpicked(own, theirs), Missed(p, theirs))
  BY <1>11, UnpickedAs
<1> QED
  BY <1>1, <1>7, <1>9, <1>12 DEF WantsThose

(***************************************************************************)
(* What a rebase that reports success leaves.                              *)
(***************************************************************************)
\* It has come to its end, and HEAD is back on its branch.
Arrives(g, done, v) ==
    /\ done.stop = "none" /\ v.head = done.head /\ v.op = NoOp /\ v.on = g.op.on
    /\ \A b \in Branches : b # g.op.on => v.branch[b] = g.branch[b]

\* It has stopped where it was asked to.
Rests(g, done, v) ==
    /\ done.stop = "edit" /\ v.head = done.head /\ v.op # NoOp
    /\ v.op.kind = g.op.kind /\ v.op.orig = g.op.orig /\ v.op.on = g.op.on
    /\ v.op.todo = done.todo /\ v.op.stop = "edit"
    /\ v.index = TreeOf(done.head) /\ v.tree = TreeOf(done.head)
    /\ v.on = "none" /\ \A b \in Branches : v.branch[b] = g.branch[b]

LEMMA RunTodoDone ==
  ASSUME NEW g \in Shapes, g.on = "none", NEW from \in AllCommits, NEW todo \in Seq(Items),
         NEW r \in RunTodo(g, from, todo), r.ok
  PROVE  Arrives(g, Ran(from, todo), r.g) \/ Rests(g, Ran(from, todo), r.g)
<1>1. PICK done \in Runs : done = Ran(from, todo) /\ Halted(done)
  BY RunMade
<1>2. PICK c \in AllCommits : c = done.head
  BY DEF Runs
<1>3. PICK at : at = At(g, c)
  OBVIOUS
<1>4. g.on \notin Branches
  BY DEF Branches
<1>5. /\ IsMoved(g, at, c) /\ at.index = TreeOf(c) /\ at.tree = TreeOf(c)
  BY <1>3, <1>4, AtMade
<1>6. /\ at \in Shapes /\ at.head = c /\ at.on = "none" /\ at.op = g.op
      /\ \A b \in Branches : at.branch[b] = g.branch[b]
  BY <1>4, <1>5 DEF IsMoved
<1>7. CASE done.stop = "none"
  <2>1. r = Finished(g, c)
    BY <1>1, <1>2, <1>7 DEF RunTodo
  <2>2. PICK o : o = g.op.on
    OBVIOUS
  <2>3. r = IF o # "none" /\ at.branch[o] # g.op.orig
            THEN [g |-> [at EXCEPT !.op.todo = <<>>, !.op.stop = "edit", !.op.at = <<>>],
                  ok |-> FALSE]
            ELSE [g |-> [at EXCEPT !.op = NoOp, !.on = o,
                              !.branch = [n \in Branches |-> IF n = o THEN c ELSE @[n]]],
                  ok |-> TRUE]
    BY <1>3, <2>1, <2>2 DEF Finished
  <2>4. r = [g |-> [at EXCEPT !.op = NoOp, !.on = o,
                              !.branch = [n \in Branches |-> IF n = o THEN c ELSE @[n]]],
             ok |-> TRUE]
    BY <2>3
  <2>5. /\ r.g.head = at.head /\ r.g.op = NoOp /\ r.g.on = o
        /\ \A b \in Branches : b # o => r.g.branch[b] = at.branch[b]
    BY <1>6, <2>4 DEF Shapes
  <2> QED
    BY <1>1, <1>2, <1>6, <1>7, <2>2, <2>5 DEF Arrives
<1>8. CASE done.stop # "none"
  <2>1. r = Stopped(g, done)
    BY <1>1, <1>8 DEF RunTodo
  <2>2. r = [g |-> [at EXCEPT !.op.todo = done.todo, !.op.stop = done.stop, !.op.at = c],
             ok |-> done.stop = "edit"]
    BY <1>2, <1>3, <2>1 DEF Stopped
  <2>3. done.stop = "edit"
    BY <2>2
  <2>4. /\ r.g.head = c /\ r.g.on = "none" /\ r.g.branch = at.branch
        /\ r.g.index = at.index /\ r.g.tree = at.tree
        /\ r.g.op = [g.op EXCEPT !.todo = done.todo, !.stop = "edit", !.at = c]
    BY <1>6, <2>2, <2>3 DEF Shapes
  <2>5. /\ r.g.op.kind = g.op.kind /\ r.g.op.orig = g.op.orig /\ r.g.op.on = g.op.on
        /\ r.g.op.todo = done.todo /\ r.g.op.stop = "edit"
    BY <2>4 DEF Shapes, Operations
  <2>6. r.g.op # NoOp
    BY <2>5 DEF NoOp
  <2> QED
    BY <1>1, <1>2, <1>5, <1>6, <2>3, <2>4, <2>5, <2>6 DEF Rests
<1> QED
  BY <1>7, <1>8

\* The same of a rebase that is started.
LEMMA Rebased ==
  ASSUME NEW g \in Repositories, NEW from \in AllCommits, NEW todo \in Seq(Items),
         NEW r \in RunTodo(Starting(g), from, todo), r.ok
  PROVE  /\ StaysPut(g, r.g)
         /\ \/ Ran(from, todo).stop = "none" /\ r.g.head = Ran(from, todo).head /\ r.g.op = NoOp
            \/ /\ Ran(from, todo).stop = "edit" /\ r.g.head = Ran(from, todo).head /\ r.g.op # NoOp
               /\ r.g.op.kind = "rebase" /\ r.g.op.orig = g.head /\ r.g.op.on = g.on
               /\ r.g.op.todo = Ran(from, todo).todo /\ r.g.op.stop = "edit"
               /\ r.g.index = TreeOf(r.g.head) /\ r.g.tree = TreeOf(r.g.head)
<1>1. PICK s \in Shapes : /\ s = Starting(g) /\ s.on = "none" /\ s.branch = g.branch
                          /\ s.op.orig = g.head /\ s.op.on = g.on /\ s.op.kind = "rebase"
  BY StartingMade DEF Rebasing
<1>2. Arrives(s, Ran(from, todo), r.g) \/ Rests(s, Ran(from, todo), r.g)
  BY <1>1, RunTodoDone
<1>3. CASE Arrives(s, Ran(from, todo), r.g)
  BY <1>1, <1>3 DEF Arrives, StaysPut
<1>4. CASE Rests(s, Ran(from, todo), r.g)
  BY <1>1, <1>4 DEF Rests, StaysPut
<1> QED
  BY <1>2, <1>3, <1>4

(***************************************************************************)
(* A rebase stops as it was asked to only at an item that says so.         *)
(***************************************************************************)
LEMMA ItemEdits ==
  ASSUME NEW a \in Runs, NEW it \in Items, Item(a, it).stop = "edit"
  PROVE  a.stop = "edit" \/ it.verb = "edit"
<1> SUFFICES ASSUME a.stop # "edit", it.verb # "edit" PROVE FALSE
  OBVIOUS
<1>1. Stop(a, it, "conflict").stop = "conflict" /\ Stop(a, it, "empty").stop = "empty"
  BY StopMade
<1>2. \A x : [a EXCEPT !.head = x].stop = a.stop /\ [a EXCEPT !.todo = x].stop = a.stop
  BY DEF Runs
<1> QED
  BY <1>1, <1>2 DEF Item

EditsOn(n) ==
    \A from \in AllCommits, s \in Seq(Items) :
        Len(s) = n /\ (\A i \in 1..n : s[i].verb # "edit") => Ran(from, s).stop # "edit"

EditsInduction == INSTANCE Induction WITH P <- EditsOn, Op <- Item

LEMMA RunEdits ==
  ASSUME NEW from \in AllCommits, NEW s \in Seq(Items), \A i \in 1..Len(s) : s[i].verb # "edit"
  PROVE  Ran(from, s).stop # "edit"
<1>1. EditsOn(0)
  <2> SUFFICES ASSUME NEW f \in AllCommits, NEW a \in Seq(Items), Len(a) = 0
               PROVE  Ran(f, a).stop # "edit"
    BY DEF EditsOn
  <2>1. a = <<>>
    OBVIOUS
  <2>2. Ran(f, <<>>).stop = "none"
    BY RanEmpty
  <2> QED
    BY <2>1, <2>2
<1>2. \A n \in Nat : EditsOn(n) => EditsOn(n + 1)
  <2> SUFFICES ASSUME NEW n \in Nat, EditsOn(n), NEW f \in AllCommits, NEW a \in Seq(Items),
                      Len(a) = n + 1, \A i \in 1..(n + 1) : a[i].verb # "edit"
               PROVE  Ran(f, a).stop # "edit"
    BY DEF EditsOn
  <2>1. PICK q \in Seq(Items), e \in Items : a = Append(q, e) /\ Len(q) = n
    BY SeqSplit
  <2>2. a[n + 1] = e /\ \A i \in 1..n : a[i] = q[i]
    BY <2>1
  <2>3. n + 1 \in 1..(n + 1) /\ \A i \in 1..n : i \in 1..(n + 1)
    OBVIOUS
  <2>4. e.verb # "edit" /\ \A i \in 1..n : q[i].verb # "edit"
    BY <2>2, <2>3
  <2>5. PICK r \in Runs : r = Ran(f, q)
    BY RunMade
  <2>6. r.stop # "edit"
    BY <2>1, <2>4, <2>5 DEF EditsOn
  <2>7. Ran(f, a) = Item(r, e)
    BY <2>1, <2>5, RanAppend
  <2> QED
    BY <2>4, <2>6, <2>7, ItemEdits
<1>3. \A n \in Nat : EditsOn(n)
  BY <1>1, <1>2, NumbersWellOrdered, EditsInduction!Induct DEF EditsInduction!WellOrdered
<1>4. EditsOn(Len(s))
  BY <1>3
<1> QED
  BY <1>4 DEF EditsOn

(***************************************************************************)
(* The verb of one item.                                                   *)
(***************************************************************************)
Verbed(c, verb) == [verb |-> verb, of |-> c]

LEMMA VerbedMade ==
  ASSUME NEW c \in Listed, NEW verb \in {"pick", "edit", "squash", "drop", "reword", "fixup", "apply"}
  PROVE  /\ Verbed(c, verb) \in Items /\ Verbed(c, verb).verb = verb /\ Verbed(c, verb).of = c
         /\ Pick(c) = Verbed(c, "pick")
BY DEF Verbed, Pick, Items, Listed

LEMMA WithVerbHead ==
  ASSUME NEW d \in Listed, NEW c, NEW t \in Seq(Items),
         NEW verb \in {"pick", "edit", "squash", "drop", "reword"}
  PROVE  /\ d = c => WithVerb(<<Pick(d)>> \o t, c, verb) =
                         <<Verbed(d, verb)>> \o WithVerb(t, c, verb)
         /\ d # c => WithVerb(<<Pick(d)>> \o t, c, verb) = <<Pick(d)>> \o WithVerb(t, c, verb)
<1>1. PICK m \in Nat : m = Len(t) /\ DOMAIN t = 1..m
  OBVIOUS
<1>2. PICK p \in Items : p = Pick(d) /\ p.of = d /\ [p EXCEPT !.verb = verb] = Verbed(d, verb)
  <2>1. Pick(d) \in Items
    BY VerbedMade
  <2>2. Pick(d).of = d /\ [Pick(d) EXCEPT !.verb = verb] = Verbed(d, verb)
    BY DEF Pick, Verbed
  <2> QED
    BY <2>1, <2>2
<1>3. PICK s : s = <<p>> \o t
  OBVIOUS
<1>4. s \in Seq(Items) /\ Len(s) = m + 1 /\ s[1] = p /\ (\A i \in 1..m : s[1 + i] = t[i])
      /\ DOMAIN s = 1..(m + 1)
  BY <1>1, <1>3
<1>5. PICK a \in Seq(Items) : a = WithVerb(s, c, verb)
  BY <1>4, WithVerbMade
<1>6. a = [i \in 1..(m + 1) |-> IF s[i].of = c THEN [s[i] EXCEPT !.verb = verb] ELSE s[i]]
  BY <1>4, <1>5 DEF WithVerb
<1>7. PICK w \in Seq(Items) : w = WithVerb(t, c, verb)
  BY WithVerbMade
<1>8. w = [i \in 1..m |-> IF t[i].of = c THEN [t[i] EXCEPT !.verb = verb] ELSE t[i]]
  BY <1>1, <1>7 DEF WithVerb
<1>9. PICK e \in Items : e = IF d = c THEN Verbed(d, verb) ELSE Pick(d)
  BY VerbedMade
<1>10. PICK b : b = <<e>> \o w
  OBVIOUS
<1>11. Len(w) = m /\ Len(a) = m + 1
  BY <1>6, <1>8
<1>12. b \in Seq(Items) /\ Len(b) = m + 1 /\ b[1] = e /\ (\A i \in 1..m : b[1 + i] = w[i])
  <2>1. m = Len(w)
    BY <1>11
  <2> QED
    BY <1>10, <2>1
<1>13. \A i \in 1..(m + 1) : a[i] = b[i]
  <2> SUFFICES ASSUME NEW i \in 1..(m + 1) PROVE a[i] = b[i]
    OBVIOUS
  <2>1. a[i] = IF s[i].of = c THEN [s[i] EXCEPT !.verb = verb] ELSE s[i]
    BY <1>6
  <2>2. CASE i = 1
    BY <1>2, <1>4, <1>9, <1>12, <2>1, <2>2
  <2>3. CASE i # 1
    <3>1. i - 1 \in 1..m /\ 1 + (i - 1) = i
      BY <2>3
    <3>2. s[i] = t[i - 1] /\ b[i] = w[i - 1]
      BY <1>4, <1>12, <3>1
    <3>3. w[i - 1] = IF t[i - 1].of = c THEN [t[i - 1] EXCEPT !.verb = verb] ELSE t[i - 1]
      BY <1>8, <3>1
    <3> QED
      BY <2>1, <3>2, <3>3
  <2> QED
    BY <2>2, <2>3
<1>14. a = b
  BY <1>11, <1>12, <1>13, SeqEqual
<1>15. WithVerb(<<Pick(d)>> \o t, c, verb) = <<e>> \o WithVerb(t, c, verb)
  BY <1>2, <1>3, <1>5, <1>7, <1>10, <1>14
<1> QED
  BY <1>9, <1>15

\* The commit is not among those above it.
LEMMA WithVerbAbove ==
  ASSUME NEW h \in AllCommits, NEW k \in 0..Len(h), NEW c, Len(c) \in 0..k, NEW verb
  PROVE  WithVerb(PicksOf(h, k), c, verb) = PicksOf(h, k)
<1>1. PICK m \in Nat : m = Len(h) - k
  BY CommitLen
<1>2. PICK s \in Seq(Items) : s = PicksOf(h, k) /\ Len(s) = m /\ DOMAIN s = 1..m
  BY <1>1, PicksOfMade
<1>3. s = [i \in 1..m |-> Pick(SubSeq(h, 1, k + i))]
  BY <1>1, <1>2 DEF PicksOf
<1>4. \A i \in 1..m : s[i].of # c
  <2> TAKE i \in 1..m
  <2>1. k + i \in 1..Len(h)
    BY <1>1, CommitLen
  <2>2. Len(SubSeq(h, 1, k + i)) = k + i
    BY <2>1, PartOfCommit
  <2>3. s[i].of = SubSeq(h, 1, k + i)
    BY <1>3 DEF Pick
  <2> QED
    BY <2>2, <2>3
<1>5. WithVerb(s, c, verb) = [i \in 1..m |-> s[i]]
  BY <1>2, <1>4 DEF WithVerb
<1>6. s = [i \in 1..m |-> s[i]]
  BY <1>2
<1> QED
  BY <1>2, <1>5, <1>6

(***************************************************************************)
(* Titles of a part of a commit.                                           *)
(***************************************************************************)
LEMMA TitlesPart ==
  ASSUME NEW s \in Seq(Changes), NEW k \in 0..Len(s)
  PROVE  /\ Titles(SubSeq(s, 1, k)) = SubSeq(Titles(s), 1, k)
         /\ Titles(SubSeq(s, k + 1, Len(s))) = SubSeq(Titles(s), k + 1, Len(s))
<1>1. PICK n \in Nat : n = Len(s) /\ k <= n /\ k \in Nat
  OBVIOUS
<1>2. PICK t \in Seq(Titled) : t = Titles(s) /\ Len(t) = n
                               /\ \A i \in 1..n : t[i] = <<s[i].subj, s[i].fix>>
  BY <1>1, TitlesMade
<1>3. PICK a : a = SubSeq(s, 1, k)
  OBVIOUS
<1>4. PICK b : b = SubSeq(s, k + 1, n)
  OBVIOUS
<1>5. PICK c : c = SubSeq(t, 1, k)
  OBVIOUS
<1>6. PICK d : d = SubSeq(t, k + 1, n)
  OBVIOUS
<1>9. /\ a \in Seq(Changes) /\ Len(a) = k /\ (\A i \in 1..k : a[i] = s[i])
      /\ b \in Seq(Changes) /\ Len(b) = n - k /\ (\A i \in 1..(n - k) : b[i] = s[k + i])
  BY <1>1, <1>3, <1>4, PartsOf
<1>10. /\ c \in Seq(Titled) /\ Len(c) = k /\ (\A i \in 1..k : c[i] = t[i])
       /\ d \in Seq(Titled) /\ Len(d) = n - k /\ (\A i \in 1..(n - k) : d[i] = t[k + i])
  <2>1. k \in 0..Len(t)
    BY <1>1, <1>2
  <2> QED
    BY <1>2, <1>5, <1>6, <2>1, PartsOf
<1>7. Titles(a) = c
  <2>1. Titles(a) \in Seq(Titled) /\ Len(Titles(a)) = k
        /\ \A i \in 1..k : Titles(a)[i] = <<a[i].subj, a[i].fix>>
    BY <1>9, TitlesMade
  <2>2. \A i \in 1..k : i \in 1..n
    BY <1>1
  <2>3. \A i \in 1..k : Titles(a)[i] = c[i]
    <3> TAKE i \in 1..k
    <3>1. Titles(a)[i] = <<a[i].subj, a[i].fix>>
      BY <2>1
    <3>2. a[i] = s[i]
      BY <1>9
    <3>3. c[i] = t[i]
      BY <1>10
    <3>4. t[i] = <<s[i].subj, s[i].fix>>
      BY <1>2, <2>2
    <3> QED
      BY <3>1, <3>2, <3>3, <3>4
  <2> QED
    BY <1>10, <2>1, <2>3, SeqEqual
<1>8. Titles(b) = d
  <2>1. Titles(b) \in Seq(Titled) /\ Len(Titles(b)) = n - k
        /\ \A i \in 1..(n - k) : Titles(b)[i] = <<b[i].subj, b[i].fix>>
    BY <1>9, TitlesMade
  <2>2. \A i \in 1..(n - k) : k + i \in 1..n
    BY <1>1
  <2>3. \A i \in 1..(n - k) : Titles(b)[i] = d[i]
    <3> TAKE i \in 1..(n - k)
    <3>1. Titles(b)[i] = <<b[i].subj, b[i].fix>>
      BY <2>1
    <3>2. b[i] = s[k + i]
      BY <1>9
    <3>3. d[i] = t[k + i]
      BY <1>10
    <3>4. t[k + i] = <<s[k + i].subj, s[k + i].fix>>
      BY <1>2, <2>2
    <3> QED
      BY <3>1, <3>2, <3>3, <3>4
  <2> QED
    BY <1>10, <2>1, <2>3, SeqEqual
<1> QED
  BY <1>1, <1>2, <1>3, <1>4, <1>5, <1>6, <1>7, <1>8

(***************************************************************************)
(* The list of a rebase that starts below a commit of HEAD's history.      *)
(***************************************************************************)
Upper(h, c) == PicksOf(h, Len(c))

LEMMA BelowOf ==
  ASSUME NEW h \in AllCommits, NEW c \in Listed, Ancestor(c, h)
  PROVE  /\ c \in AllCommits /\ c # <<>> /\ Len(c) \in 1..Len(h) /\ c = SubSeq(h, 1, Len(c))
         /\ Len(c) - 1 \in 0..(Len(h) - 1)
         /\ Front(c) = SubSeq(h, 1, Len(c) - 1) /\ Front(c) \in AllCommits
         /\ Last(c) = h[Len(c)] /\ c = Append(Front(c), Last(c)) /\ Last(c) \in Changes
<1>1. c \in AllCommits /\ c # <<>>
  BY DEF Listed
<1>2. c \in Seq(Changes) /\ Len(c) \in Nat /\ Len(c) # 0
  BY <1>1, CommitLen
<1>3. h \in Seq(Changes) /\ Len(h) \in Nat
  BY CommitLen
<1>4. Len(c) \in 0..Len(h) /\ c = SubSeq(h, 1, Len(c))
  BY <1>1, AncestorIsPrefix
<1>5. PICK n \in Nat : n = Len(c) /\ n \in 1..Len(h)
  <2>1. Len(c) \in 1..Len(h)
    BY <1>2, <1>3, <1>4
  <2> QED
    BY <1>2, <2>1
<1>6. c = SubSeq(h, 1, n)
  BY <1>4, <1>5
<1>7. Front(c) \in AllCommits /\ Last(c) \in Changes /\ c = Append(Front(c), Last(c))
  BY <1>1, CommitLast
<1>8. Last(c) = h[n]
  <2>1. Last(SubSeq(h, 1, n)) = h[n]
    BY <1>5, PartOfCommit
  <2> QED
    BY <1>6, <2>1
<1>9. Front(c) = SubSeq(h, 1, n - 1)
  <2>1. Front(c) = SubSeq(c, 1, n - 1)
    BY <1>5 DEF Front
  <2>2. PICK f : f = SubSeq(c, 1, n - 1)
    OBVIOUS
  <2>3. PICK e : e = SubSeq(h, 1, n - 1)
    OBVIOUS
  <2>4. \A i \in 1..n : c[i] = h[i]
    BY <1>3, <1>5, <1>6
  <2>5. n - 1 \in 0..Len(c) /\ n - 1 \in 0..Len(h)
    BY <1>2, <1>3, <1>5
  <2>6. f \in Seq(Changes) /\ Len(f) = n - 1 /\ \A i \in 1..(n - 1) : f[i] = c[i]
    BY <1>2, <2>2, <2>5, PartsOf
  <2>7. e \in Seq(Changes) /\ Len(e) = n - 1 /\ \A i \in 1..(n - 1) : e[i] = h[i]
    BY <1>3, <2>3, <2>5, PartsOf
  <2>8. \A i \in 1..(n - 1) : i \in 1..n
    BY <1>5
  <2>9. f = e
    BY <2>4, <2>6, <2>7, <2>8, SeqEqual
  <2> QED
    BY <2>1, <2>2, <2>3, <2>9
<1>10. Len(c) - 1 \in 0..(Len(h) - 1)
  BY <1>2, <1>3, <1>5
<1> QED
  BY <1>1, <1>4, <1>5, <1>7, <1>8, <1>9, <1>10

LEMMA UpperMade ==
  ASSUME NEW h \in AllCommits, NEW c \in Listed, Ancestor(c, h)
  PROVE  /\ Upper(h, c) \in Seq(Items) /\ OnlyPicks(Upper(h, c))
         /\ Len(Upper(h, c)) = Len(h) - Len(c)
         /\ Lasts(Upper(h, c)) = SubSeq(h, Len(c) + 1, Len(h))
         /\ SubSeq(h, Len(c) + 1, Len(h)) \in Seq(Changes)
         /\ h = c \o SubSeq(h, Len(c) + 1, Len(h))
<1>1. Len(c) \in 0..Len(h) /\ c = SubSeq(h, 1, Len(c))
  <2>1. Len(c) \in 1..Len(h) /\ c = SubSeq(h, 1, Len(c))
    BY BelowOf
  <2> QED
    BY <2>1, CommitLen
<1>2. h \in Seq(Changes)
  BY CommitLen
<1>3. h = SubSeq(h, 1, Len(c)) \o SubSeq(h, Len(c) + 1, Len(h))
      /\ SubSeq(h, Len(c) + 1, Len(h)) \in Seq(Changes)
  BY <1>1, <1>2, PartsOf
<1>4. PicksOf(h, Len(c)) \in Seq(Items) /\ OnlyPicks(PicksOf(h, Len(c)))
      /\ Len(PicksOf(h, Len(c))) = Len(h) - Len(c)
      /\ Lasts(PicksOf(h, Len(c))) = SubSeq(h, Len(c) + 1, Len(h))
  BY <1>1, PicksOfMade
<1> QED
  BY <1>1, <1>3, <1>4 DEF Upper

LEMMA PicksBelow ==
  ASSUME NEW g, g.head \in AllCommits, NEW c \in Listed, Ancestor(c, g.head)
  PROVE  /\ Pick(c) \in Items
         /\ Picks(g, Front(c)) = <<Pick(c)>> \o Upper(g.head, c)
         /\ Picks(g, Front(c)) = PicksOf(g.head, Len(c) - 1)
<1>1. PICK h \in AllCommits : h = g.head
  OBVIOUS
<1>2. PICK n \in Nat : n = Len(c) - 1 /\ n \in 0..(Len(h) - 1) /\ n + 1 = Len(c)
  <2>1. Len(c) - 1 \in 0..(Len(h) - 1) /\ Len(c) \in 1..Len(h)
    BY <1>1, BelowOf
  <2>2. Len(h) \in Nat
    BY CommitLen
  <2>3. Len(c) - 1 \in Nat
    BY <2>1, <2>2
  <2> QED
    BY <2>1, <2>2, <2>3
<1>3. n \in 0..Len(h)
  BY <1>2, CommitLen
<1>4. Front(c) = SubSeq(h, 1, n) /\ c = SubSeq(h, 1, n + 1)
  <2>1. Front(c) = SubSeq(h, 1, Len(c) - 1) /\ c = SubSeq(h, 1, Len(c))
    BY <1>1, BelowOf
  <2> QED
    BY <1>2, <2>1
<1>5. Picks(g, SubSeq(h, 1, n)) = PicksOf(h, n)
  BY <1>1, <1>3, PicksFrom
<1>6. Pick(SubSeq(h, 1, n + 1)) \in Items
      /\ PicksOf(h, n) = <<Pick(SubSeq(h, 1, n + 1))>> \o PicksOf(h, n + 1)
  BY <1>2, PicksSplit
<1>7. PicksOf(h, n + 1) = Upper(g.head, c)
  BY <1>1, <1>2 DEF Upper
<1>8. Picks(g, Front(c)) = PicksOf(h, n)
  BY <1>4, <1>5
<1>9. Pick(c) \in Items /\ PicksOf(h, n) = <<Pick(c)>> \o PicksOf(h, n + 1)
  BY <1>4, <1>6
<1> QED
  BY <1>1, <1>2, <1>7, <1>8, <1>9

LEMMA VerbBelow ==
  ASSUME NEW g, g.head \in AllCommits, NEW c \in Listed, Ancestor(c, g.head),
         NEW verb \in {"pick", "edit", "squash", "drop", "reword"}
  PROVE  WithVerb(Picks(g, Front(c)), c, verb) = <<Verbed(c, verb)>> \o Upper(g.head, c)
<1>1. PICK h \in AllCommits : h = g.head
  OBVIOUS
<1>2. Picks(g, Front(c)) = <<Pick(c)>> \o Upper(h, c)
  BY <1>1, PicksBelow
<1>3. PICK t \in Seq(Items) : t = Upper(h, c)
  <2>1. Upper(h, c) \in Seq(Items)
    BY <1>1, UpperMade
  <2> QED
    BY <2>1
<1>4. WithVerb(t, c, verb) = t
  <2>1. Len(c) \in 0..Len(h) /\ Len(c) \in 0..Len(c)
    <3>1. Len(c) \in 1..Len(h)
      BY <1>1, BelowOf
    <3> QED
      BY <3>1, CommitLen
  <2>2. WithVerb(PicksOf(h, Len(c)), c, verb) = PicksOf(h, Len(c))
    BY <2>1, WithVerbAbove
  <2> QED
    BY <1>3, <2>2 DEF Upper
<1>5. WithVerb(<<Pick(c)>> \o t, c, verb) = <<Verbed(c, verb)>> \o WithVerb(t, c, verb)
  BY WithVerbHead
<1>6. WithVerb(<<Pick(c)>> \o t, c, verb) = <<Verbed(c, verb)>> \o t
  BY <1>4, <1>5
<1> QED
  BY <1>1, <1>2, <1>3, <1>6

(***************************************************************************)
(* A scripted rebase that reports success has run its list.                *)
(***************************************************************************)
LEMMA ScriptedRuns ==
  ASSUME NEW g \in Repositories, NEW c \in Listed, Ancestor(c, g.head),
         NEW verb \in {"edit", "drop", "reword"},
         NEW r \in ScriptedRebase(g, c, verb, FALSE), r.ok
  PROVE  r \in RunTodo(Starting(g), Front(c), <<Verbed(c, verb)>> \o Upper(g.head, c))
<1>1. Base(c, verb) = Front(c)
  BY DEF Base
<1>2. g.head \in AllCommits
  BY RepoParts DEF Shapes
<1>3. WithVerb(Picks(g, Front(c)), c, verb) = <<Verbed(c, verb)>> \o Upper(g.head, c)
  BY <1>2, VerbBelow
<1>4. r \in RunTodo(Starting(g), Front(c), WithVerb(Picks(g, Front(c)), c, verb))
  BY <1>1 DEF ScriptedRebase, Fails
<1> QED
  BY <1>3, <1>4

(***************************************************************************)
(* A list that stops nowhere of its own accord and reports success has     *)
(* come to its end.                                                        *)
(***************************************************************************)
LEMMA RunsToEnd ==
  ASSUME NEW g \in Repositories, NEW from \in AllCommits, NEW s \in Seq(Items),
         \A i \in 1..Len(s) : s[i].verb # "edit", NEW r \in RunTodo(Starting(g), from, s), r.ok
  PROVE  /\ StaysPut(g, r.g) /\ r.g.op = NoOp
         /\ Ran(from, s).stop = "none" /\ r.g.head = Ran(from, s).head
<1>1. Ran(from, s).stop # "edit"
  BY RunEdits
<1>2. /\ StaysPut(g, r.g)
      /\ \/ Ran(from, s).stop = "none" /\ r.g.head = Ran(from, s).head /\ r.g.op = NoOp
         \/ Ran(from, s).stop = "edit"
  BY Rebased
<1> QED
  BY <1>1, <1>2

LEMMA OneThen ==
  ASSUME NEW it \in Items, NEW t \in Seq(Items), OnlyPicks(t)
  PROVE  /\ <<it>> \in Seq(Items) /\ <<it>> \o t \in Seq(Items)
         /\ it.verb # "edit" => \A i \in 1..Len(<<it>> \o t) : (<<it>> \o t)[i].verb # "edit"
<1>1. PICK o : o = <<it>>
  OBVIOUS
<1>2. o \in Seq(Items) /\ Len(o) = 1 /\ o[1] = it
  BY <1>1
<1>3. PICK s : s = o \o t
  OBVIOUS
<1>4. PICK m \in Nat : m = Len(t)
  OBVIOUS
<1>5. s \in Seq(Items) /\ Len(s) = 1 + m /\ s[1] = it /\ \A i \in 2..(1 + m) : s[i] = t[i - 1]
  <2>1. o \o t \in Seq(Items) /\ Len(o \o t) = Len(o) + Len(t)
        /\ \A i \in 1..Len(o) + Len(t) : (o \o t)[i] = IF i <= Len(o) THEN o[i] ELSE t[i - Len(o)]
    BY <1>2, ConcatProperties
  <2>2. s \in Seq(Items) /\ Len(s) = 1 + m
    BY <1>2, <1>3, <1>4, <2>1
  <2>3. \A i \in 1..(1 + m) : s[i] = IF i <= 1 THEN o[i] ELSE t[i - 1]
    BY <1>2, <1>3, <1>4, <2>1
  <2> QED
    BY <1>2, <2>2, <2>3
<1>6. ASSUME it.verb # "edit", NEW i \in 1..(1 + m)
      PROVE  s[i].verb # "edit"
  <2>1. CASE i = 1
    <3>1. s[i] = it
      BY <1>5, <2>1
    <3> QED
      BY <1>6, <3>1
  <2>2. CASE i # 1
    <3>1. i \in 2..(1 + m) /\ i - 1 \in 1..Len(t)
      BY <1>4, <1>6, <2>2
    <3>2. t[i - 1].verb = "pick"
      BY <3>1 DEF OnlyPicks
    <3> QED
      BY <1>5, <3>1, <3>2
  <2> QED
    BY <2>1, <2>2
<1> QED
  BY <1>1, <1>2, <1>3, <1>5, <1>6

LEMMA FirstThen ==
  ASSUME NEW g \in Repositories, NEW from \in AllCommits, NEW it \in Items, it.verb # "edit",
         NEW t \in Seq(Items), OnlyPicks(t),
         NEW r \in RunTodo(Starting(g), from, <<it>> \o t), r.ok
  PROVE  /\ StaysPut(g, r.g) /\ r.g.op = NoOp
         /\ \E a \in Runs : \E d \in AllCommits :
                /\ a = [head |-> from, todo |-> <<>>, stop |-> "none"] /\ Halted(a)
                /\ d = Item(a, it).head /\ Item(a, it).stop = "none"
                /\ Ran(d, t).stop = "none" /\ r.g.head = Ran(d, t).head
<1>1. PICK o \in Seq(Items) : o = <<it>>
  BY OneThen
<1>2. PICK s \in Seq(Items) : s = o \o t
  <2>1. o \o t \in Seq(Items)
    OBVIOUS
  <2> QED
    BY <2>1
<1>3. \A i \in 1..Len(s) : s[i].verb # "edit"
  <2>1. \A i \in 1..Len(<<it>> \o t) : (<<it>> \o t)[i].verb # "edit"
    BY OneThen
  <2>2. s = <<it>> \o t
    BY <1>1, <1>2
  <2> QED
    BY <2>1, <2>2, Zenon
<1>4. r \in RunTodo(Starting(g), from, s)
  BY <1>1, <1>2
<1>5. StaysPut(g, r.g) /\ r.g.op = NoOp /\ Ran(from, s).stop = "none"
      /\ r.g.head = Ran(from, s).head
  BY <1>3, <1>4, RunsToEnd
<1>6. Ran(from, o).stop = "none" /\ Ran(from, o).head \in AllCommits
      /\ Ran(from, s) = Ran(Ran(from, o).head, t)
  BY <1>2, <1>5, RunsOn
<1>7. PICK a \in Runs : a = [head |-> from, todo |-> <<>>, stop |-> "none"]
  BY RunOne
<1>8. Halted(a) /\ Ran(from, o) = Item(a, it)
  BY <1>1, <1>7, RunOne
<1>9. PICK d \in AllCommits : d = Ran(from, o).head
  BY <1>6
<1>10. /\ a = [head |-> from, todo |-> <<>>, stop |-> "none"] /\ Halted(a)
       /\ d = Item(a, it).head /\ Item(a, it).stop = "none"
       /\ Ran(d, t).stop = "none" /\ r.g.head = Ran(d, t).head
  BY <1>5, <1>6, <1>7, <1>8, <1>9
<1> QED
  BY <1>5, <1>10

(***************************************************************************)
(* A sequence without its i-th element.                                    *)
(***************************************************************************)
LEMMA TitlesRemoved ==
  ASSUME NEW h \in Seq(Changes), NEW i \in 1..Len(h)
  PROVE  /\ RemoveAt(h, i) = SubSeq(h, 1, i - 1) \o SubSeq(h, i + 1, Len(h))
         /\ RemoveAt(Titles(h), i) =
                Titles(SubSeq(h, 1, i - 1)) \o Titles(SubSeq(h, i + 1, Len(h)))
<1>1. Len(Titles(h)) = Len(h)
  BY TitlesMade
<1>2. RemoveAt(Titles(h), i) = SubSeq(Titles(h), 1, i - 1) \o SubSeq(Titles(h), i + 1, Len(Titles(h)))
  BY DEF RemoveAt
<1>3. i - 1 \in 0..Len(h) /\ i \in 0..Len(h)
  OBVIOUS
<1>4. PICK k \in 0..Len(h) : k = i - 1
  BY <1>3
<1>5. Titles(SubSeq(h, 1, k)) = SubSeq(Titles(h), 1, k)
  BY TitlesPart
<1>6. Titles(SubSeq(h, i + 1, Len(h))) = SubSeq(Titles(h), i + 1, Len(h))
  BY <1>3, TitlesPart
<1>7. RemoveAt(h, i) = SubSeq(h, 1, i - 1) \o SubSeq(h, i + 1, Len(h))
  BY DEF RemoveAt
<1> QED
  BY <1>1, <1>2, <1>4, <1>5, <1>6, <1>7

(***************************************************************************)
(* Drop.                                                                   *)
(***************************************************************************)
LEMMA PicksFold ==
  ASSUME NEW t \in Seq(Items), OnlyPicks(t)
  PROVE  /\ Folding(t) /\ Led(t) = Titles(Lasts(t))
         /\ \A i \in 1..Len(t) : t[i].verb # "drop"
<1>1. \A i \in 1..Len(t) : t[i].verb = "pick"
  BY DEF OnlyPicks
<1>2. Folding(t)
  BY <1>1 DEF Folding
<1>3. Led(t) = Titles(Lasts(t))
  BY <1>1, LedMade
<1> QED
  BY <1>1, <1>2, <1>3

LEMMA DropAs ==
  ASSUME NEW g \in Repositories, NEW c \in Listed, Ancestor(c, g.head),
         NEW r \in ScriptedRebase(g, c, "drop", FALSE), r.ok
  PROVE  /\ StaysPut(g, r.g)
         /\ Titles(r.g.head) = RemoveAt(Titles(g.head), Len(c))
         /\ TreeOf(r.g.head) = TreeOf(RemoveAt(g.head, Len(c)))
<1>1. PICK h \in AllCommits : h = g.head
  BY RepoParts DEF Shapes
<1>2. PICK n : n = Len(c)
  OBVIOUS
<1>3. /\ n \in 1..Len(h) /\ Front(c) = SubSeq(h, 1, n - 1) /\ Front(c) \in AllCommits
  BY <1>1, <1>2, BelowOf
<1>4. PICK from \in AllCommits : from = Front(c)
  BY <1>3
<1>5. PICK t \in Seq(Items) : t = Upper(h, c)
  BY <1>1, UpperMade
<1>6. OnlyPicks(t) /\ Lasts(t) = SubSeq(h, n + 1, Len(h))
  BY <1>1, <1>2, <1>5, UpperMade
<1>7. PICK it \in Items : it = Verbed(c, "drop") /\ it.verb = "drop"
  BY VerbedMade
<1>8. r \in RunTodo(Starting(g), from, <<it>> \o t)
  BY <1>1, <1>4, <1>5, <1>7, ScriptedRuns
<1>9. it.verb # "edit"
  BY <1>7
<1>10. /\ StaysPut(g, r.g)
       /\ \E a \in Runs : \E d \in AllCommits :
             /\ a = [head |-> from, todo |-> <<>>, stop |-> "none"] /\ Halted(a)
             /\ d = Item(a, it).head /\ Item(a, it).stop = "none"
             /\ Ran(d, t).stop = "none" /\ r.g.head = Ran(d, t).head
  BY <1>6, <1>8, <1>9, FirstThen
<1>11. Ran(from, t).stop = "none" /\ r.g.head = Ran(from, t).head
  <2>1. PICK a \in Runs : \E d \in AllCommits :
             /\ a = [head |-> from, todo |-> <<>>, stop |-> "none"] /\ Halted(a)
             /\ d = Item(a, it).head /\ Item(a, it).stop = "none"
             /\ Ran(d, t).stop = "none" /\ r.g.head = Ran(d, t).head
    BY <1>10
  <2>2. PICK d \in AllCommits :
             /\ a = [head |-> from, todo |-> <<>>, stop |-> "none"] /\ Halted(a)
             /\ d = Item(a, it).head /\ Item(a, it).stop = "none"
             /\ Ran(d, t).stop = "none" /\ r.g.head = Ran(d, t).head
    BY <2>1
  <2>3. Item(a, it).head = a.head
    BY <1>7, <2>2, ItemDone
  <2>4. d = from
    BY <2>2, <2>3
  <2> QED
    BY <2>2, <2>4
<1>12. Folding(t) /\ Led(t) = Titles(Lasts(t)) /\ \A i \in 1..Len(t) : t[i].verb # "drop"
  BY <1>6, PicksFold
<1>13. Titles(r.g.head) = Titles(from) \o Titles(Lasts(t))
  <2>1. Leads(from, t, Ran(from, t).head)
    BY <1>11, <1>12, RunLed
  <2> QED
    BY <1>11, <1>12, <2>1 DEF Leads
<1>14. TreeOf(r.g.head) = TreeOf(from \o Lasts(t))
  BY <1>11, <1>12, RunTree
<1>15. h \in Seq(Changes)
  BY CommitLen
<1>16. /\ RemoveAt(h, n) = SubSeq(h, 1, n - 1) \o SubSeq(h, n + 1, Len(h))
       /\ RemoveAt(Titles(h), n) =
              Titles(SubSeq(h, 1, n - 1)) \o Titles(SubSeq(h, n + 1, Len(h)))
  BY <1>3, <1>15, TitlesRemoved
<1>17. from = SubSeq(h, 1, n - 1)
  BY <1>3, <1>4
<1>18. Titles(r.g.head) = RemoveAt(Titles(h), n)
  BY <1>6, <1>13, <1>16, <1>17
<1>19. TreeOf(r.g.head) = TreeOf(RemoveAt(h, n))
  BY <1>6, <1>14, <1>16, <1>17
<1> QED
  BY <1>1, <1>2, <1>10, <1>18, <1>19

(***************************************************************************)
(* Another element in one place.                                           *)
(***************************************************************************)
LEMMA OneExchanged ==
  ASSUME NEW S, NEW a \in Seq(S), NEW e \in S, NEW f \in S, NEW b \in Seq(S)
  PROVE  [(Append(a, e) \o b) EXCEPT ![Len(a) + 1] = f] = Append(a, f) \o b
<1>1. PICK n \in Nat : n = Len(a)
  OBVIOUS
<1>2. PICK m \in Nat : m = Len(b)
  OBVIOUS
<1>3. PICK p : p = Append(a, e)
  OBVIOUS
<1>4. PICK q : q = Append(a, f)
  OBVIOUS
<1>5. p \in Seq(S) /\ Len(p) = n + 1 /\ p[n + 1] = e /\ \A i \in 1..n : p[i] = a[i]
  BY <1>1, <1>3
<1>6. q \in Seq(S) /\ Len(q) = n + 1 /\ q[n + 1] = f /\ \A i \in 1..n : q[i] = a[i]
  BY <1>1, <1>4
<1>7. /\ p \o b \in Seq(S) /\ Len(p \o b) = n + 1 + m
      /\ \A i \in 1..(n + 1 + m) : (p \o b)[i] = IF i <= n + 1 THEN p[i] ELSE b[i - (n + 1)]
  BY <1>2, <1>5, ConcatProperties
<1>8. /\ q \o b \in Seq(S) /\ Len(q \o b) = n + 1 + m
      /\ \A i \in 1..(n + 1 + m) : (q \o b)[i] = IF i <= n + 1 THEN q[i] ELSE b[i - (n + 1)]
  BY <1>2, <1>6, ConcatProperties
<1>9. PICK u \in Seq(S) : u = p \o b
  BY <1>7
<1>10. PICK v \in Seq(S) : v = q \o b
  BY <1>8
<1>11. Len(u) = n + 1 + m /\ Len(v) = n + 1 + m
  BY <1>7, <1>8, <1>9, <1>10
<1>12. PICK w : w = [u EXCEPT ![n + 1] = f]
  OBVIOUS
<1>13. w \in Seq(S) /\ Len(w) = n + 1 + m /\ n + 1 \in 1..(n + 1 + m)
       /\ \A i \in 1..(n + 1 + m) : w[i] = IF i = n + 1 THEN f ELSE u[i]
  <2>1. n + 1 \in 1..Len(u)
    BY <1>11
  <2> QED
    BY <1>11, <1>12, <2>1, ExceptSeq
<1>14. \A i \in 1..(n + 1 + m) : w[i] = v[i]
  <2> TAKE i \in 1..(n + 1 + m)
  <2>1. CASE i = n + 1
    BY <1>6, <1>8, <1>10, <1>13, <2>1
  <2>2. CASE i <= n
    <3>1. i \in 1..n /\ i # n + 1
      BY <2>2
    <3>2. u[i] = p[i]
      BY <1>7, <1>9, <2>2
    <3>3. v[i] = q[i]
      BY <1>8, <1>10, <2>2
    <3>4. w[i] = u[i]
      BY <1>13, <3>1
    <3> QED
      BY <1>5, <1>6, <3>1, <3>2, <3>3, <3>4
  <2>3. CASE i > n + 1
    <3>1. u[i] = b[i - (n + 1)]
      BY <1>7, <1>9, <2>3
    <3>2. v[i] = b[i - (n + 1)]
      BY <1>8, <1>10, <2>3
    <3>3. w[i] = u[i]
      BY <1>13, <2>3
    <3> QED
      BY <3>1, <3>2, <3>3
  <2> QED
    BY <2>1, <2>2, <2>3
<1>15. w = v
  BY <1>11, <1>13, <1>14, SeqEqual
<1> QED
  BY <1>1, <1>3, <1>4, <1>9, <1>10, <1>12, <1>15

(***************************************************************************)
(* What is above a commit is picked again on another one with its tree.    *)
(***************************************************************************)
Over(h, c) == SubSeq(h, Len(c) + 1, Len(h))

LEMMA ReplayAbove ==
  ASSUME NEW h \in AllCommits, NEW c \in Listed, Ancestor(c, h),
         NEW d \in AllCommits, TreeOf(d) = TreeOf(c), Ran(d, Upper(h, c)).stop = "none"
  PROVE  /\ Ran(d, Upper(h, c)).head = d \o Over(h, c)
         /\ TreeOf(d \o Over(h, c)) = TreeOf(h)
         /\ Over(h, c) \in Seq(Changes) /\ h = c \o Over(h, c)
<1>1. PICK t \in Seq(Items) : t = Upper(h, c)
  BY UpperMade
<1>2. OnlyPicks(t) /\ Lasts(t) = Over(h, c) /\ Over(h, c) \in Seq(Changes) /\ h = c \o Over(h, c)
  BY <1>1, UpperMade DEF Over
<1>3. c \in AllCommits /\ c \in Seq(Changes) /\ d \in Seq(Changes)
  BY CommitLen DEF Listed
<1>4. c \o Lasts(t) \in AllCommits
  BY <1>2
<1>5. Ran(d, t).head = d \o Lasts(t)
  BY <1>1, <1>2, <1>3, <1>4, Replay
<1>6. TreeOf(d \o Over(h, c)) = TreeOf(c \o Over(h, c))
  BY <1>2, <1>3, TreeAlike
<1> QED
  BY <1>1, <1>2, <1>5, <1>6

(***************************************************************************)
(* Reword.                                                                 *)
(***************************************************************************)
LEMMA OwnOnto ==
  ASSUME NEW c \in AllCommits, c # <<>>
  PROVE  Onto(TreeOf(Front(c)), Last(c)) = Last(c)
         /\ TreeOf(c) = After(TreeOf(Front(c)), Last(c))
<1>1. Front(c) \in AllCommits /\ Last(c) \in Changes /\ c = Append(Front(c), Last(c))
  BY CommitLast
<1>2. PICK d \in AllCommits : d = Front(c)
  BY <1>1
<1>3. PICK ch \in Changes : ch = Last(c)
  BY <1>1
<1>4. c = Append(d, ch) /\ Append(d, ch) \in AllCommits /\ d \in Seq(Changes)
  BY <1>1, <1>2, <1>3, CommitLen
<1>5. Exact(TreeOf(d), ch)
  BY <1>4, ExactLast
<1>6. ch.add \intersect ch.del = {}
  BY <1>5 DEF Exact
<1>7. Onto(TreeOf(d), ch) = ch
  BY <1>5, <1>6, OntoTree
<1>8. TreeOf(Append(d, ch)) = After(TreeOf(d), ch)
  BY <1>4, TreeAppend
<1> QED
  BY <1>2, <1>3, <1>4, <1>7, <1>8

LEMMA RewordAs ==
  ASSUME NEW g \in Repositories, NEW c \in Listed, Ancestor(c, g.head),
         NEW r \in ScriptedRebase(g, c, "reword", FALSE), r.ok
  PROVE  /\ StaysPut(g, r.g)
         /\ Titles(r.g.head) =
                [Titles(g.head) EXCEPT ![Len(c)] = <<"reworded", g.head[Len(c)].fix>>]
         /\ TreeOf(r.g.head) = TreeOf(g.head)
<1>1. PICK h \in AllCommits : h = g.head
  BY RepoParts DEF Shapes
<1>2. PICK n : n = Len(c)
  OBVIOUS
<1>3. /\ c \in AllCommits /\ c # <<>> /\ n \in 1..Len(h) /\ Front(c) \in AllCommits
      /\ Last(c) = h[n] /\ Last(c) \in Changes /\ c = Append(Front(c), Last(c))
  BY <1>1, <1>2, BelowOf
<1>4. PICK from \in AllCommits : from = Front(c)
  BY <1>3
<1>5. PICK ch \in Changes : ch = Last(c)
  BY <1>3
<1>6. PICK t \in Seq(Items) : t = Upper(h, c)
  BY <1>1, UpperMade
<1>7. OnlyPicks(t)
  BY <1>1, <1>6, UpperMade
<1>8. PICK it \in Items : it = Verbed(c, "reword") /\ it.verb = "reword" /\ it.of = c
  BY VerbedMade
<1>9. r \in RunTodo(Starting(g), from, <<it>> \o t)
  BY <1>1, <1>4, <1>6, <1>8, ScriptedRuns
<1>10. it.verb # "edit"
  BY <1>8
<1>11. /\ StaysPut(g, r.g)
       /\ \E a \in Runs : \E d \in AllCommits :
             /\ a = [head |-> from, todo |-> <<>>, stop |-> "none"] /\ Halted(a)
             /\ d = Item(a, it).head /\ Item(a, it).stop = "none"
             /\ Ran(d, t).stop = "none" /\ r.g.head = Ran(d, t).head
  BY <1>7, <1>9, <1>10, FirstThen
<1>12. PICK x \in Changes : x = [ch EXCEPT !.subj = "reworded"] /\ x.subj = "reworded" /\ x.fix = ch.fix
  BY RenamedMade, SubjectsAssumption
<1>13. PICK d \in AllCommits : /\ d = Append(from, x) /\ TreeOf(d) = TreeOf(c)
                               /\ Ran(d, t).stop = "none" /\ r.g.head = Ran(d, t).head
  <2>1. PICK a \in Runs : \E d \in AllCommits :
             /\ a = [head |-> from, todo |-> <<>>, stop |-> "none"] /\ Halted(a)
             /\ d = Item(a, it).head /\ Item(a, it).stop = "none"
             /\ Ran(d, t).stop = "none" /\ r.g.head = Ran(d, t).head
    BY <1>11
  <2>2. PICK d \in AllCommits :
             /\ a = [head |-> from, todo |-> <<>>, stop |-> "none"] /\ Halted(a)
             /\ d = Item(a, it).head /\ Item(a, it).stop = "none"
             /\ Ran(d, t).stop = "none" /\ r.g.head = Ran(d, t).head
    BY <2>1
  <2>3. /\ Item(a, it).head =
               Append(a.head, [Onto(TreeOf(a.head), Last(it.of)) EXCEPT !.subj = "reworded"])
        /\ TreeOf(Item(a, it).head) = After(TreeOf(a.head), Last(it.of))
    BY <1>8, <2>2, ItemDone
  <2>4. a.head = from /\ Last(it.of) = ch
    BY <1>5, <1>8, <2>2
  <2>5. Onto(TreeOf(from), ch) = ch /\ TreeOf(c) = After(TreeOf(from), ch)
    BY <1>3, <1>4, <1>5, OwnOnto
  <2>6. d = Append(from, x)
    BY <1>12, <2>2, <2>3, <2>4, <2>5
  <2>7. TreeOf(d) = TreeOf(c)
    BY <2>2, <2>3, <2>4, <2>5
  <2> QED
    BY <2>2, <2>6, <2>7
<1>14. PICK o \in Seq(Changes) : o = Over(h, c)
  <2>1. Over(h, c) \in Seq(Changes)
    BY <1>1, <1>6, <1>13, ReplayAbove
  <2> QED
    BY <2>1
<1>15. r.g.head = d \o o /\ TreeOf(d \o o) = TreeOf(h) /\ h = c \o o
  BY <1>1, <1>6, <1>13, <1>14, ReplayAbove
<1>16. from \in Seq(Changes) /\ c \in Seq(Changes) /\ d \in Seq(Changes) /\ Len(from) + 1 = n
  BY <1>2, <1>3, <1>4, CommitLen, CommitLast
<1>17. PICK e \in Titled : e = <<ch.subj, ch.fix>>
  BY <1>16, TitlesAppend
<1>18. PICK f \in Titled : f = <<x.subj, x.fix>>
  BY <1>16, TitlesAppend
<1>19. Titles(c) = Append(Titles(from), e) /\ Titles(d) = Append(Titles(from), f)
  BY <1>3, <1>4, <1>5, <1>13, <1>16, <1>17, <1>18, TitlesAppend
<1>20. Titles(h) = Append(Titles(from), e) \o Titles(o)
  <2>1. Titles(c \o o) = Titles(c) \o Titles(o)
    BY <1>16, TitlesConcat
  <2> QED
    BY <1>15, <1>19, <2>1
<1>21. Titles(r.g.head) = Append(Titles(from), f) \o Titles(o)
  <2>1. Titles(d \o o) = Titles(d) \o Titles(o)
    BY <1>16, TitlesConcat
  <2> QED
    BY <1>15, <1>19, <2>1
<1>22. Titles(from) \in Seq(Titled) /\ Len(Titles(from)) = Len(from) /\ Titles(o) \in Seq(Titled)
  BY <1>16, TitlesMade
<1>23. [(Append(Titles(from), e) \o Titles(o)) EXCEPT ![Len(Titles(from)) + 1] = f]
           = Append(Titles(from), f) \o Titles(o)
  BY <1>22, OneExchanged
<1>24. f = <<"reworded", h[n].fix>>
  BY <1>3, <1>5, <1>12, <1>18
<1>25. Titles(r.g.head) = [Titles(h) EXCEPT ![n] = f]
  BY <1>16, <1>20, <1>21, <1>22, <1>23
<1> QED
  BY <1>1, <1>2, <1>11, <1>15, <1>24, <1>25

(***************************************************************************)
(* The first item of a list, and what follows.                             *)
(***************************************************************************)
LEMMA RanFirst ==
  ASSUME NEW from \in AllCommits, NEW it \in Items, NEW t \in Seq(Items),
         Ran(from, <<it>> \o t).stop = "none"
  PROVE  \E a \in Runs : \E d \in AllCommits :
                /\ a.head = from /\ Halted(a) /\ d = Item(a, it).head /\ Item(a, it).stop = "none"
                /\ Ran(from, <<it>> \o t) = Ran(d, t)
<1>1. PICK o : o = <<it>>
  OBVIOUS
<1>2. o \in Seq(Items)
  BY <1>1
<1>3. Ran(from, o).stop = "none" /\ Ran(from, o).head \in AllCommits
      /\ Ran(from, o \o t) = Ran(Ran(from, o).head, t)
  BY <1>1, <1>2, RunsOn
<1>4. PICK a \in Runs : a = [head |-> from, todo |-> <<>>, stop |-> "none"]
  BY RunOne
<1>5. Halted(a) /\ Ran(from, o) = Item(a, it) /\ a.head = from
  BY <1>1, <1>4, RunOne
<1>6. PICK d \in AllCommits : d = Ran(from, o).head
  BY <1>3
<1>7. /\ a.head = from /\ Halted(a) /\ d = Item(a, it).head /\ Item(a, it).stop = "none"
      /\ Ran(from, <<it>> \o t) = Ran(d, t)
  BY <1>1, <1>3, <1>5, <1>6
<1> QED
  BY <1>7

LEMMA OwnPicked ==
  ASSUME NEW c \in Listed, NEW t \in Seq(Items), Ran(Front(c), <<Pick(c)>> \o t).stop = "none"
  PROVE  Ran(Front(c), <<Pick(c)>> \o t) = Ran(c, t)
<1>1. c \in AllCommits /\ c # <<>>
  BY DEF Listed
<1>2. PICK from \in AllCommits : from = Front(c)
  BY <1>1, CommitLast
<1>3. PICK it \in Items : it = Pick(c) /\ it.verb = "pick" /\ it.of = c
  BY VerbedMade
<1>4. PICK a \in Runs : \E d \in AllCommits :
                /\ a.head = from /\ Halted(a) /\ d = Item(a, it).head /\ Item(a, it).stop = "none"
                /\ Ran(from, <<it>> \o t) = Ran(d, t)
  BY <1>2, <1>3, RanFirst
<1>5. PICK d \in AllCommits :
                /\ a.head = from /\ Halted(a) /\ d = Item(a, it).head /\ Item(a, it).stop = "none"
                /\ Ran(from, <<it>> \o t) = Ran(d, t)
  BY <1>4
<1>6. Item(a, it).head = Append(a.head, Onto(TreeOf(a.head), Last(it.of)))
  BY <1>3, <1>5, ItemDone
<1>7. Onto(TreeOf(Front(c)), Last(c)) = Last(c) /\ c = Append(Front(c), Last(c))
  BY <1>1, OwnOnto, CommitLast
<1>8. d = c
  BY <1>2, <1>3, <1>5, <1>6, <1>7
<1> QED
  BY <1>2, <1>3, <1>5, <1>8

(***************************************************************************)
(* Edit.                                                                   *)
(***************************************************************************)
LEMMA ItemRests ==
  ASSUME NEW a \in Runs, a.stop = "none", NEW it \in Items, it.verb = "edit",
         Item(a, it).stop = "edit"
  PROVE  /\ Item(a, it).head = Append(a.head, Onto(TreeOf(a.head), Last(it.of)))
         /\ Item(a, it).todo = a.todo
<1>1. a = [head |-> a.head, todo |-> a.todo, stop |-> a.stop]
  BY DEF Runs
<1>2. PICK p : p = Append(a.head, Onto(TreeOf(a.head), Last(it.of)))
  OBVIOUS
<1>3. \A w \in {"conflict", "empty"} : Stop(a, it, w).stop # "edit"
  BY <1>1 DEF Stop
<1>4. Item(a, it) = [a EXCEPT !.head = p, !.stop = "edit"]
  BY <1>2, <1>3 DEF Item
<1> QED
  BY <1>1, <1>2, <1>4

LEMMA EditAs ==
  ASSUME NEW g \in Repositories, NEW c \in Listed, Ancestor(c, g.head),
         NEW r \in ScriptedRebase(g, c, "edit", FALSE), r.ok
  PROVE  /\ StaysPut(g, r.g) /\ r.g.head = c
         /\ r.g.op # NoOp /\ r.g.op.kind = "rebase" /\ r.g.op.stop = "edit"
         /\ r.g.op.orig = g.head /\ r.g.op.on = g.on /\ r.g.op.todo = Upper(g.head, c)
         /\ r.g.index = TreeOf(c) /\ r.g.tree = TreeOf(c)
<1>1. PICK h \in AllCommits : h = g.head
  BY RepoParts DEF Shapes
<1>2. c \in AllCommits /\ c # <<>> /\ Front(c) \in AllCommits /\ c = Append(Front(c), Last(c))
  BY <1>1, BelowOf
<1>3. PICK from \in AllCommits : from = Front(c)
  BY <1>2
<1>4. PICK t \in Seq(Items) : t = Upper(h, c)
  BY <1>1, UpperMade
<1>5. PICK it \in Items : it = Verbed(c, "edit") /\ it.verb = "edit" /\ it.of = c
  BY VerbedMade
<1>6. PICK o : o = <<it>>
  OBVIOUS
<1>7. o \in Seq(Items)
  BY <1>6
<1>8. PICK s \in Seq(Items) : s = o \o t
  <2>1. o \o t \in Seq(Items)
    BY <1>7
  <2> QED
    BY <2>1
<1>9. r \in RunTodo(Starting(g), from, s)
  <2>1. r \in RunTodo(Starting(g), Front(c), <<Verbed(c, "edit")>> \o Upper(g.head, c))
    BY ScriptedRuns
  <2> QED
    BY <1>1, <1>3, <1>4, <1>5, <1>6, <1>8, <2>1
<1>10. PICK a \in Runs : a = [head |-> from, todo |-> <<>>, stop |-> "none"]
  BY RunOne
<1>11. Halted(a) /\ Ran(from, o) = Item(a, it) /\ a.head = from /\ a.todo = <<>> /\ a.stop = "none"
  BY <1>6, <1>10, RunOne
<1>12. Item(a, it).stop # "none" /\ Item(a, it) \in Runs
  BY <1>5, <1>11, ItemMade
<1>13. Ran(from, s) = [Ran(from, o) EXCEPT !.todo = @ \o t]
  <2>1. Ran(from, o).stop # "none"
    BY <1>11, <1>12
  <2>2. Ran(from, o \o t) = [Ran(from, o) EXCEPT !.todo = @ \o t]
    BY <1>7, <2>1, RunOn
  <2> QED
    BY <1>8, <2>2
<1>14. PICK b \in Runs : b = Item(a, it)
  BY <1>12
<1>15. Ran(from, s).head = b.head /\ Ran(from, s).stop = b.stop /\ Ran(from, s).todo = b.todo \o t
  <2>1. b = [head |-> b.head, todo |-> b.todo, stop |-> b.stop]
    BY DEF Runs
  <2>2. Ran(from, s) = [b EXCEPT !.todo = @ \o t]
    BY <1>11, <1>13, <1>14
  <2> QED
    BY <2>1, <2>2
<1>16. /\ StaysPut(g, r.g)
       /\ \/ Ran(from, s).stop = "none"
          \/ /\ Ran(from, s).stop = "edit" /\ r.g.head = Ran(from, s).head /\ r.g.op # NoOp
             /\ r.g.op.kind = "rebase" /\ r.g.op.orig = g.head /\ r.g.op.on = g.on
             /\ r.g.op.todo = Ran(from, s).todo /\ r.g.op.stop = "edit"
             /\ r.g.index = TreeOf(r.g.head) /\ r.g.tree = TreeOf(r.g.head)
  BY <1>9, Rebased
<1>17. Ran(from, s).stop = "edit"
  BY <1>12, <1>14, <1>15, <1>16
<1>18. b.head = Append(a.head, Onto(TreeOf(a.head), Last(it.of))) /\ b.todo = a.todo
  BY <1>5, <1>11, <1>14, <1>15, <1>17, ItemRests
<1>19. Onto(TreeOf(Front(c)), Last(c)) = Last(c)
  BY <1>2, OwnOnto
<1>20. b.head = c
  BY <1>2, <1>3, <1>5, <1>11, <1>18, <1>19
<1>21. b.todo \o t = t
  <2>1. <<>> \o t = t
    BY ConcatEmptySeq
  <2> QED
    BY <1>11, <1>18, <2>1
<1> QED
  BY <1>1, <1>4, <1>15, <1>16, <1>17, <1>20, <1>21

(***************************************************************************)
(* Squash: into the commit before it, which is picked first.               *)
(***************************************************************************)
LEMMA BeforeIt ==
  ASSUME NEW h \in AllCommits, NEW c \in Listed, Ancestor(c, h), Len(c) # 1
  PROVE  /\ Front(c) \in Listed /\ Ancestor(Front(c), h)
         /\ Upper(h, Front(c)) = <<Pick(c)>> \o Upper(h, c)
<1>1. c \in AllCommits /\ c # <<>> /\ Len(c) \in 1..Len(h) /\ c = SubSeq(h, 1, Len(c))
      /\ Len(c) - 1 \in 0..(Len(h) - 1)
      /\ Front(c) = SubSeq(h, 1, Len(c) - 1) /\ Front(c) \in AllCommits
  BY BelowOf
<1>2. Len(Front(c)) + 1 = Len(c)
  BY <1>1, CommitLast
<1>3. Len(h) \in Nat /\ Len(Front(c)) \in Nat /\ (Len(Front(c)) = 0 <=> Front(c) = <<>>)
  BY <1>1, CommitLen
<1>4. Front(c) # <<>>
  BY <1>2, <1>3
<1>5. PICK k \in 0..(Len(h) - 1) : k = Len(c) - 1 /\ k = Len(Front(c)) /\ k + 1 = Len(c) /\ k \in 0..Len(h)
  <2>1. PICK m \in Nat : m = Len(c)
    <3>1. Len(c) \in Nat
      BY <1>1, <1>3
    <3> QED
      BY <3>1
  <2>2. m - 1 \in 0..(Len(h) - 1) /\ m - 1 \in 0..Len(h) /\ m - 1 = Len(Front(c)) /\ (m - 1) + 1 = m
    BY <1>1, <1>2, <1>3, <2>1
  <2> QED
    BY <2>1, <2>2
<1>6. Ancestor(SubSeq(h, 1, k), h)
  BY <1>5, PrefixIsAncestor
<1>7. PicksOf(h, k) = <<Pick(SubSeq(h, 1, k + 1))>> \o PicksOf(h, k + 1)
  BY PicksSplit
<1>8. SubSeq(h, 1, k + 1) = c
  BY <1>1, <1>5
<1>9. Upper(h, Front(c)) = PicksOf(h, k) /\ Upper(h, c) = PicksOf(h, k + 1)
  BY <1>5 DEF Upper
<1>10. Front(c) = SubSeq(h, 1, k)
  BY <1>1, <1>5
<1> QED
  BY <1>1, <1>4, <1>6, <1>7, <1>8, <1>9, <1>10 DEF Listed

LEMMA SquashList ==
  ASSUME NEW g, g.head \in AllCommits, NEW c \in Listed, Ancestor(c, g.head), Len(c) # 1
  PROVE  WithVerb(Picks(g, Front(Front(c))), c, "squash") =
             <<Pick(Front(c))>> \o (<<Verbed(c, "squash")>> \o Upper(g.head, c))
<1>1. PICK h \in AllCommits : h = g.head
  OBVIOUS
<1>2. /\ Front(c) \in Listed /\ Ancestor(Front(c), h)
      /\ Upper(h, Front(c)) = <<Pick(c)>> \o Upper(h, c)
  BY <1>1, BeforeIt
<1>3. PICK p \in Listed : p = Front(c)
  BY <1>2
<1>4. Picks(g, Front(p)) = <<Pick(p)>> \o Upper(h, p)
  BY <1>1, <1>2, <1>3, PicksBelow
<1>5. PICK t \in Seq(Items) : t = Upper(h, c)
  BY <1>1, UpperMade
<1>6. PICK u \in Seq(Items) : u = <<Pick(c)>> \o t
  <2>1. Pick(c) \in Items
    BY VerbedMade
  <2>2. OnlyPicks(t)
    BY <1>1, <1>5, UpperMade
  <2>3. <<Pick(c)>> \o t \in Seq(Items)
    BY <2>1, <2>2, OneThen
  <2> QED
    BY <2>3
<1>7. WithVerb(t, c, "squash") = t
  <2>1. Len(c) \in 0..Len(h) /\ Len(c) \in 0..Len(c)
    <3>1. Len(c) \in 1..Len(h)
      BY <1>1, BelowOf
    <3> QED
      BY <3>1, CommitLen
  <2>2. WithVerb(PicksOf(h, Len(c)), c, "squash") = PicksOf(h, Len(c))
    BY <2>1, WithVerbAbove
  <2> QED
    BY <1>5, <2>2 DEF Upper
<1>8. WithVerb(<<Pick(c)>> \o t, c, "squash") =
          <<Verbed(c, "squash")>> \o WithVerb(t, c, "squash")
  BY WithVerbHead
<1>9. WithVerb(u, c, "squash") = <<Verbed(c, "squash")>> \o t
  BY <1>6, <1>7, <1>8
<1>11. p # c
  <2>1. c \in AllCommits /\ c # <<>>
    BY DEF Listed
  <2>2. Len(Front(c)) + 1 = Len(c) /\ Front(c) \in AllCommits
    BY <2>1, CommitLast
  <2>3. Len(Front(c)) \in Nat
    BY <2>2, CommitLen
  <2> QED
    BY <1>3, <2>2, <2>3
<1>12. WithVerb(<<Pick(p)>> \o u, c, "squash") = <<Pick(p)>> \o WithVerb(u, c, "squash")
  BY <1>11, WithVerbHead
<1>13. Picks(g, Front(Front(c))) = <<Pick(p)>> \o u
  BY <1>2, <1>3, <1>4, <1>5, <1>6
<1> QED
  BY <1>1, <1>3, <1>5, <1>9, <1>12, <1>13

SquashRun(p, c, t) == Ran(Front(p), <<Pick(p)>> \o (<<Verbed(c, "squash")>> \o t))

SquashedInto(h, c, p, v) ==
    \E d \in AllCommits : /\ Titles(d) = Titles(p) /\ Len(d) = Len(p) /\ TreeOf(d) = TreeOf(c)
                          /\ v = d \o Over(h, c)

LEMMA SquashRuns ==
  ASSUME NEW h \in AllCommits, NEW c \in Listed, Ancestor(c, h), NEW p \in Listed, p = Front(c),
         NEW t \in Seq(Items), t = Upper(h, c),
         SquashRun(p, c, t).stop = "none", NEW v, v = SquashRun(p, c, t).head
  PROVE  SquashedInto(h, c, p, v)
<1>1. c \in AllCommits /\ c # <<>> /\ p \in AllCommits /\ p # <<>>
  BY DEF Listed
<1>2. PICK it \in Items : it = Verbed(c, "squash") /\ it.verb = "squash" /\ it.of = c
  BY VerbedMade
<1>3. OnlyPicks(t)
  BY UpperMade
<1>4. PICK u \in Seq(Items) : u = <<it>> \o t
  <2>1. <<it>> \o t \in Seq(Items)
    BY <1>3, OneThen
  <2> QED
    BY <2>1
<1>5. Ran(Front(p), <<Pick(p)>> \o u).stop = "none"
  BY <1>2, <1>4 DEF SquashRun
<1>6. Ran(Front(p), <<Pick(p)>> \o u) = Ran(p, u)
  BY <1>5, OwnPicked
<1>7. Ran(p, <<it>> \o t).stop = "none" /\ v = Ran(p, <<it>> \o t).head
  BY <1>2, <1>4, <1>5, <1>6 DEF SquashRun
<1>8. PICK a \in Runs : \E d \in AllCommits :
                /\ a.head = p /\ Halted(a) /\ d = Item(a, it).head /\ Item(a, it).stop = "none"
                /\ Ran(p, <<it>> \o t) = Ran(d, t)
  BY <1>1, <1>7, RanFirst
<1>9. PICK d \in AllCommits :
                /\ a.head = p /\ Halted(a) /\ d = Item(a, it).head /\ Item(a, it).stop = "none"
                /\ Ran(p, <<it>> \o t) = Ran(d, t)
  BY <1>8
<1>10. PICK ch \in Changes : ch = Last(c)
  BY <1>1, CommitLast
<1>11. /\ TreeOf(Item(a, it).head) = After(TreeOf(a.head), Last(it.of))
       /\ Item(a, it).head = Append(Front(a.head), Merged(a.head, Last(it.of)))
  BY <1>1, <1>2, <1>9, ItemDone
<1>12. d = Append(Front(p), Merged(p, ch)) /\ TreeOf(d) = After(TreeOf(p), ch)
  BY <1>2, <1>9, <1>10, <1>11
<1>13. TreeOf(c) = After(TreeOf(p), ch)
  BY <1>1, <1>10, OwnOnto
<1>14. Titles(d) = Titles(p) /\ Len(d) = Len(p)
  <2>1. PICK e \in AllCommits : e = <<>>
    BY EmptyCommit
  <2>2. Len(e) = 0 /\ Len(p) \in Nat /\ Len(p) > 0
    BY <1>1, <2>1, CommitLen
  <2>3. Above(p, e)
    BY <1>1, <2>2 DEF Above
  <2>4. /\ Len(Append(Front(p), Merged(p, ch))) = Len(p)
        /\ Titles(Append(Front(p), Merged(p, ch))) = Titles(p)
    BY <1>1, <2>2, <2>3, AboveMerged
  <2> QED
    BY <1>12, <2>4
<1>15. Ran(d, Upper(h, c)).stop = "none"
  BY <1>7, <1>9
<1>16. TreeOf(d) = TreeOf(c)
  BY <1>12, <1>13
<1>17. Ran(d, Upper(h, c)).head = d \o Over(h, c)
  BY <1>15, <1>16, ReplayAbove
<1> QED
  BY <1>7, <1>9, <1>14, <1>16, <1>17 DEF SquashedInto

LEMMA SquashAs ==
  ASSUME NEW g \in Repositories, NEW c \in Listed, Ancestor(c, g.head), Len(c) # 1,
         NEW r \in ScriptedRebase(g, c, "squash", FALSE), r.ok
  PROVE  /\ StaysPut(g, r.g)
         /\ Titles(r.g.head) = RemoveAt(Titles(g.head), Len(c))
         /\ TreeOf(r.g.head) = TreeOf(g.head)
         /\ TreeOf(SubSeq(r.g.head, 1, Len(c) - 1)) = TreeOf(c)
<1>1. PICK h \in AllCommits : h = g.head
  BY RepoParts DEF Shapes
<1>2. PICK n : n = Len(c)
  OBVIOUS
<1>3. /\ c \in AllCommits /\ c # <<>> /\ n \in 1..Len(h) /\ Front(c) = SubSeq(h, 1, n - 1)
  BY <1>1, <1>2, BelowOf
<1>4. PICK p \in Listed : p = Front(c)
  BY <1>1, BeforeIt
<1>5. p \in AllCommits /\ p # <<>>
  BY DEF Listed
<1>6. PICK from \in AllCommits : from = Front(p)
  BY <1>5, CommitLast
<1>7. PICK t \in Seq(Items) : t = Upper(h, c)
  BY <1>1, UpperMade
<1>8. OnlyPicks(t)
  BY <1>1, <1>7, UpperMade
<1>9. PICK it \in Items : it = Verbed(c, "squash") /\ it.verb = "squash"
  BY VerbedMade
<1>10. PICK u \in Seq(Items) : u = <<it>> \o t /\ \A i \in 1..Len(u) : u[i].verb # "edit"
  <2>1. <<it>> \o t \in Seq(Items) /\ \A i \in 1..Len(<<it>> \o t) : (<<it>> \o t)[i].verb # "edit"
    BY <1>8, <1>9, OneThen
  <2> QED
    BY <2>1
<1>11. PICK o : o = <<Pick(p)>>
  OBVIOUS
<1>12. o \in Seq(Items) /\ Len(o) = 1 /\ o[1].verb = "pick"
  <2>1. Pick(p) \in Items /\ Pick(p).verb = "pick"
    BY VerbedMade
  <2> QED
    BY <1>11, <2>1
<1>13. PICK s \in Seq(Items) : s = o \o u
  <2>1. o \o u \in Seq(Items)
    BY <1>12
  <2> QED
    BY <2>1
<1>14. \A i \in 1..Len(s) : s[i].verb # "edit"
  <2>0. o \in Seq(Items)
    BY <1>12
  <2>1. o \o u \in Seq(Items) /\ Len(o \o u) = Len(o) + Len(u)
        /\ \A i \in 1..Len(o) + Len(u) : (o \o u)[i] = IF i <= Len(o) THEN o[i] ELSE u[i - Len(o)]
    BY <2>0, ConcatProperties
  <2>2. PICK m \in Nat : m = Len(u)
    OBVIOUS
  <2>3. Len(s) = 1 + m /\ \A i \in 1..(1 + m) : s[i] = IF i <= 1 THEN o[i] ELSE u[i - 1]
    BY <1>12, <1>13, <2>1, <2>2
  <2>4. \A i \in 1..m : u[i].verb # "edit"
    BY <1>10, <2>2
  <2>5. ASSUME NEW i \in 1..(1 + m)
        PROVE  s[i].verb # "edit"
    <3>1. CASE i = 1
      BY <1>12, <2>3, <3>1
    <3>2. CASE i # 1
      <4>1. i - 1 \in 1..m /\ s[i] = u[i - 1]
        BY <2>3, <3>2
      <4> QED
        BY <2>4, <4>1
    <3> QED
      BY <3>1, <3>2
  <2> QED
    BY <2>3, <2>5
<1>15. r \in RunTodo(Starting(g), from, s)
  <2>1. Base(c, "squash") = Front(Front(c))
    BY DEF Base
  <2>2. r \in RunTodo(Starting(g), Front(Front(c)), WithVerb(Picks(g, Front(Front(c))), c, "squash"))
    BY <2>1 DEF ScriptedRebase, Fails
  <2>3. WithVerb(Picks(g, Front(Front(c))), c, "squash") = s
    BY <1>1, <1>4, <1>7, <1>9, <1>10, <1>11, <1>13, SquashList
  <2> QED
    BY <1>4, <1>6, <2>2, <2>3
<1>16. StaysPut(g, r.g) /\ Ran(from, s).stop = "none" /\ r.g.head = Ran(from, s).head
  BY <1>14, <1>15, RunsToEnd
<1>17. s = <<Pick(p)>> \o (<<Verbed(c, "squash")>> \o t)
  BY <1>9, <1>10, <1>11, <1>13
<1>18. SquashRun(p, c, t).stop = "none" /\ r.g.head = SquashRun(p, c, t).head
  BY <1>6, <1>16, <1>17 DEF SquashRun
<1>19. PICK d \in AllCommits : /\ Titles(d) = Titles(p) /\ Len(d) = Len(p)
                               /\ TreeOf(d) = TreeOf(c) /\ r.g.head = d \o Over(h, c)
  <2>1. PICK v : v = SquashRun(p, c, t).head
    OBVIOUS
  <2>2. Ancestor(c, h)
    BY <1>1
  <2>3. SquashedInto(h, c, p, v)
    <3>1. p = Front(c) /\ t = Upper(h, c)
      BY <1>4, <1>7
    <3>2. SquashRun(p, c, t).stop = "none"
      BY <1>18
    <3> QED
      BY <2>1, <2>2, <3>1, <3>2, SquashRuns
  <2>4. v = r.g.head
    BY <1>18, <2>1
  <2> QED
    BY <2>3, <2>4 DEF SquashedInto
<1>20. PICK w \in Seq(Changes) : w = Over(h, c)
  <2>1. SubSeq(h, Len(c) + 1, Len(h)) \in Seq(Changes)
    BY <1>1, UpperMade
  <2> QED
    BY <2>1 DEF Over
<1>21. c \in Seq(Changes) /\ d \in Seq(Changes) /\ p \in Seq(Changes) /\ h \in Seq(Changes)
  BY <1>3, <1>5, CommitLen
<1>22. TreeOf(r.g.head) = TreeOf(h)
  <2>1. h = c \o w
    BY <1>1, <1>20, UpperMade DEF Over
  <2>2. TreeOf(d \o w) = TreeOf(c \o w)
    BY <1>19, <1>20, <1>21, TreeAlike
  <2> QED
    BY <1>19, <1>20, <2>1, <2>2
<1>23. Titles(r.g.head) = RemoveAt(Titles(h), n)
  <2>1. Titles(d \o w) = Titles(d) \o Titles(w)
    BY <1>20, <1>21, TitlesConcat
  <2>2. RemoveAt(Titles(h), n) = Titles(SubSeq(h, 1, n - 1)) \o Titles(SubSeq(h, n + 1, Len(h)))
    BY <1>3, <1>21, TitlesRemoved
  <2>3. p = SubSeq(h, 1, n - 1) /\ w = SubSeq(h, n + 1, Len(h))
    BY <1>2, <1>3, <1>4, <1>20 DEF Over
  <2> QED
    BY <1>19, <1>20, <2>1, <2>2, <2>3
<1>24. SubSeq(r.g.head, 1, n - 1) = d
  <2>1. Len(p) + 1 = n
    BY <1>2, <1>3, <1>4, CommitLast
  <2>2. PICK m \in Nat : m = Len(d)
    BY <1>21
  <2>3. PICK x : x = d \o w
    OBVIOUS
  <2>4. x \in Seq(Changes) /\ Len(x) = m + Len(w) /\ \A i \in 1..m : x[i] = d[i]
    BY <1>20, <1>21, <2>2, <2>3
  <2>5. m \in 0..Len(x)
    BY <2>2, <2>4
  <2>6. PICK y : y = SubSeq(x, 1, m)
    OBVIOUS
  <2>7. y \in Seq(Changes) /\ Len(y) = m /\ \A i \in 1..m : y[i] = x[i]
    BY <2>4, <2>5, <2>6, PartsOf
  <2>8. y = d
    BY <1>21, <2>2, <2>4, <2>7, SeqEqual
  <2>9. n - 1 = m
    BY <1>3, <1>19, <1>21, <2>1, <2>2
  <2> QED
    BY <1>19, <1>20, <2>3, <2>6, <2>8, <2>9
<1> QED
  BY <1>1, <1>2, <1>16, <1>19, <1>22, <1>23, <1>24

(***************************************************************************)
(* Two neighbours in each other's place.                                   *)
(***************************************************************************)
LEMMA SwapOf ==
  ASSUME NEW S, NEW s \in Seq(S), NEW n \in Nat, n = Len(s), NEW k \in 1..(n - 1)
  PROVE  /\ Swapped(s, k) \in Seq(S) /\ Len(Swapped(s, k)) = n
         /\ \A i \in 1..n : Swapped(s, k)[i] = IF i = k + 1 THEN s[k]
                                               ELSE IF i = k THEN s[k + 1] ELSE s[i]
<1>1. k \in 1..n /\ k + 1 \in 1..n /\ DOMAIN s = 1..n
  OBVIOUS
<1>2. PICK w : w = Swapped(s, k)
  OBVIOUS
<1>3. w = [i \in 1..n |-> IF i = k + 1 THEN s[k] ELSE IF i = k THEN s[k + 1] ELSE s[i]]
  BY <1>1, <1>2 DEF Swapped
<1>4. \A i \in 1..n : w[i] = IF i = k + 1 THEN s[k] ELSE IF i = k THEN s[k + 1] ELSE s[i]
  BY <1>3
<1>5. \A i \in 1..n : w[i] \in S
  <2> TAKE i \in 1..n
  <2>1. s[k] \in S /\ s[k + 1] \in S /\ s[i] \in S
    BY <1>1
  <2>2. w[i] = s[k] \/ w[i] = s[k + 1] \/ w[i] = s[i]
    BY <1>4
  <2> QED
    BY <2>1, <2>2
<1>6. w \in [1..n -> S]
  BY <1>3, <1>5
<1>7. w \in Seq(S) /\ Len(w) = n
  BY <1>6, FunctionIsSeq
<1> QED
  BY <1>2, <1>4, <1>7

LEMMA SwapTitles ==
  ASSUME NEW h \in Seq(Changes), NEW k \in 1..(Len(h) - 1)
  PROVE  Titles(Swapped(h, k)) = Swapped(Titles(h), k)
<1>1. PICK n \in Nat : n = Len(h) /\ k \in 1..(n - 1)
  OBVIOUS
<1>2. PICK w \in Seq(Changes) : w = Swapped(h, k)
  <2>1. Swapped(h, k) \in Seq(Changes)
    BY <1>1, SwapOf
  <2> QED
    BY <2>1
<1>3. Len(w) = n /\ \A i \in 1..n : w[i] = IF i = k + 1 THEN h[k] ELSE IF i = k THEN h[k + 1] ELSE h[i]
  BY <1>1, <1>2, SwapOf
<1>4. PICK t \in Seq(Titled) : t = Titles(h) /\ n = Len(t)
  BY <1>1, TitlesMade
<1>5. \A i \in 1..n : t[i] = <<h[i].subj, h[i].fix>>
  BY <1>1, <1>4, TitlesMade
<1>6. PICK u \in Seq(Titled) : u = Titles(w) /\ Len(u) = n
  BY <1>3, TitlesMade
<1>7. \A i \in 1..n : u[i] = <<w[i].subj, w[i].fix>>
  BY <1>3, <1>6, TitlesMade
<1>8. PICK v \in Seq(Titled) : v = Swapped(t, k)
  <2>1. Swapped(t, k) \in Seq(Titled)
    BY <1>1, <1>4, SwapOf
  <2> QED
    BY <2>1
<1>9. Len(v) = n /\ \A i \in 1..n : v[i] = IF i = k + 1 THEN t[k] ELSE IF i = k THEN t[k + 1] ELSE t[i]
  BY <1>1, <1>4, <1>8, SwapOf
<1>10. \A i \in 1..n : u[i] = v[i]
  <2> TAKE i \in 1..n
  <2>1. k \in 1..n /\ k + 1 \in 1..n
    BY <1>1
  <2>2. CASE i = k + 1
    <3>1. w[i] = h[k] /\ v[i] = t[k]
      BY <1>3, <1>9, <2>2
    <3> QED
      BY <1>5, <1>7, <2>1, <3>1
  <2>3. CASE i = k
    <3>1. w[i] = h[k + 1] /\ v[i] = t[k + 1]
      BY <1>3, <1>9, <2>3
    <3> QED
      BY <1>5, <1>7, <2>1, <3>1
  <2>4. CASE i # k + 1 /\ i # k
    <3>1. w[i] = h[i] /\ v[i] = t[i]
      BY <1>3, <1>9, <2>4
    <3> QED
      BY <1>5, <1>7, <3>1
  <2> QED
    BY <2>2, <2>3, <2>4
<1>11. u = v
  BY <1>6, <1>9, <1>10, SeqEqual
<1> QED
  BY <1>2, <1>4, <1>6, <1>8, <1>11

LEMMA SwapLasts ==
  ASSUME NEW s \in Seq(Items), NEW k \in 1..(Len(s) - 1)
  PROVE  /\ Swapped(s, k) \in Seq(Items) /\ Lasts(Swapped(s, k)) = Swapped(Lasts(s), k)
         /\ OnlyPicks(s) => OnlyPicks(Swapped(s, k))
<1>1. PICK n \in Nat : n = Len(s) /\ k \in 1..(n - 1)
  OBVIOUS
<1>2. PICK w \in Seq(Items) : w = Swapped(s, k)
  <2>1. Swapped(s, k) \in Seq(Items)
    BY <1>1, SwapOf
  <2> QED
    BY <2>1
<1>3. Len(w) = n /\ \A i \in 1..n : w[i] = IF i = k + 1 THEN s[k] ELSE IF i = k THEN s[k + 1] ELSE s[i]
  BY <1>1, <1>2, SwapOf
<1>4. PICK t \in Seq(Changes) : t = Lasts(s) /\ n = Len(t)
  BY <1>1, LastsMade
<1>5. \A i \in 1..n : t[i] = Last(s[i].of)
  BY <1>1, <1>4, LastsMade
<1>6. PICK u \in Seq(Changes) : u = Lasts(w) /\ Len(u) = n
  BY <1>3, LastsMade
<1>7. \A i \in 1..n : u[i] = Last(w[i].of)
  BY <1>3, <1>6, LastsMade
<1>8. PICK v \in Seq(Changes) : v = Swapped(t, k)
  <2>1. Swapped(t, k) \in Seq(Changes)
    BY <1>1, <1>4, SwapOf
  <2> QED
    BY <2>1
<1>9. Len(v) = n /\ \A i \in 1..n : v[i] = IF i = k + 1 THEN t[k] ELSE IF i = k THEN t[k + 1] ELSE t[i]
  BY <1>1, <1>4, <1>8, SwapOf
<1>10. ASSUME NEW i \in 1..n PROVE u[i] = v[i] /\ (OnlyPicks(s) => w[i].verb = "pick")
  <2>1. k \in 1..n /\ k + 1 \in 1..n
    BY <1>1
  <2>2. OnlyPicks(s) => s[i].verb = "pick" /\ s[k].verb = "pick" /\ s[k + 1].verb = "pick"
    BY <1>1, <2>1 DEF OnlyPicks
  <2>3. CASE i = k + 1
    <3>1. w[i] = s[k] /\ v[i] = t[k]
      BY <1>3, <1>9, <2>3
    <3> QED
      BY <1>5, <1>7, <2>1, <2>2, <3>1
  <2>4. CASE i = k
    <3>1. w[i] = s[k + 1] /\ v[i] = t[k + 1]
      BY <1>3, <1>9, <2>4
    <3> QED
      BY <1>5, <1>7, <2>1, <2>2, <3>1
  <2>5. CASE i # k + 1 /\ i # k
    <3>1. w[i] = s[i] /\ v[i] = t[i]
      BY <1>3, <1>9, <2>5
    <3> QED
      BY <1>5, <1>7, <2>2, <3>1
  <2> QED
    BY <2>3, <2>4, <2>5
<1>11. u = v
  <2>1. \A i \in 1..n : u[i] = v[i]
    BY <1>10
  <2> QED
    BY <1>6, <1>9, <2>1, SeqEqual
<1>12. OnlyPicks(s) => OnlyPicks(w)
  BY <1>3, <1>10 DEF OnlyPicks
<1> QED
  BY <1>2, <1>4, <1>6, <1>8, <1>11, <1>12

\* What comes before does not matter.
LEMMA SwapAfter ==
  ASSUME NEW S, NEW a \in Seq(S), NEW b \in Seq(S), NEW k \in 1..(Len(b) - 1)
  PROVE  Swapped(a \o b, Len(a) + k) = a \o Swapped(b, k)
<1>1. PICK m \in Nat : m = Len(a)
  OBVIOUS
<1>2. PICK n \in Nat : n = Len(b) /\ k \in 1..(n - 1)
  OBVIOUS
<1>3. PICK s \in Seq(S) : s = a \o b
  <2>1. a \o b \in Seq(S)
    OBVIOUS
  <2> QED
    BY <2>1
<1>4. Len(s) = m + n /\ \A i \in 1..(m + n) : s[i] = IF i <= m THEN a[i] ELSE b[i - m]
  BY <1>1, <1>2, <1>3, ConcatProperties
<1>5. PICK c \in Seq(S) : c = Swapped(b, k)
  <2>1. Swapped(b, k) \in Seq(S)
    BY <1>2, SwapOf
  <2> QED
    BY <2>1
<1>6. Len(c) = n /\ \A i \in 1..n : c[i] = IF i = k + 1 THEN b[k] ELSE IF i = k THEN b[k + 1] ELSE b[i]
  BY <1>2, <1>5, SwapOf
<1>7. PICK u \in Seq(S) : u = a \o c
  <2>1. a \o c \in Seq(S)
    OBVIOUS
  <2> QED
    BY <2>1
<1>8. Len(u) = m + n /\ \A i \in 1..(m + n) : u[i] = IF i <= m THEN a[i] ELSE c[i - m]
  BY <1>1, <1>6, <1>7, ConcatProperties
<1>9. PICK l \in Nat : l = m + n /\ l = Len(s) /\ m + k \in 1..(l - 1)
  BY <1>2, <1>4
<1>10. PICK j \in 1..(l - 1) : j = m + k
  BY <1>9
<1>11. PICK w \in Seq(S) : w = Swapped(s, j)
  <2>1. Swapped(s, j) \in Seq(S)
    BY <1>9, <1>10, SwapOf
  <2> QED
    BY <2>1
<1>12. Len(w) = l /\ \A i \in 1..l : w[i] = IF i = j + 1 THEN s[j] ELSE IF i = j THEN s[j + 1] ELSE s[i]
  BY <1>9, <1>10, <1>11, SwapOf
<1>13. \A i \in 1..l : w[i] = u[i]
  <2> TAKE i \in 1..l
  <2>1. CASE i = j + 1
    <3>1. w[i] = s[j]
      BY <1>12, <2>1
    <3>2. s[j] = b[k]
      <4>1. j \in 1..(m + n) /\ ~(j <= m) /\ j - m = k
        BY <1>2, <1>9, <1>10
      <4> QED
        BY <1>4, <4>1
    <3>3. u[i] = c[k + 1]
      BY <1>2, <1>8, <1>9, <1>10, <2>1
    <3>4. c[k + 1] = b[k]
      <4>1. k + 1 \in 1..n /\ k \in 1..n
        BY <1>2
      <4> QED
        BY <1>6, <4>1
    <3> QED
      BY <3>1, <3>2, <3>3, <3>4
  <2>2. CASE i = j
    <3>1. w[i] = s[j + 1]
      BY <1>12, <2>2
    <3>2. s[j + 1] = b[k + 1]
      <4>1. j + 1 \in 1..(m + n) /\ ~(j + 1 <= m) /\ (j + 1) - m = k + 1
        BY <1>2, <1>9, <1>10
      <4> QED
        BY <1>4, <4>1
    <3>3. u[i] = c[k]
      BY <1>2, <1>8, <1>9, <1>10, <2>2
    <3>4. c[k] = b[k + 1]
      <4>1. k \in 1..n /\ k + 1 \in 1..n /\ k # k + 1
        BY <1>2
      <4> QED
        BY <1>6, <4>1
    <3> QED
      BY <3>1, <3>2, <3>3, <3>4
  <2>3. CASE i # j + 1 /\ i # j
    <3>1. w[i] = s[i]
      BY <1>12, <2>3
    <3>2. CASE i <= m
      <4>1. s[i] = a[i] /\ u[i] = a[i]
        BY <1>4, <1>8, <1>9, <3>2
      <4> QED
        BY <3>1, <4>1
    <3>3. CASE i > m
      <4>1. i - m \in 1..n /\ i - m # k + 1 /\ i - m # k
        BY <1>9, <1>10, <2>3, <3>3
      <4>2. s[i] = b[i - m] /\ u[i] = c[i - m]
        BY <1>4, <1>8, <1>9, <3>3
      <4>3. c[i - m] = b[i - m]
        BY <1>6, <4>1
      <4> QED
        BY <3>1, <4>2, <4>3
    <3> QED
      BY <3>2, <3>3
  <2> QED
    BY <2>1, <2>2, <2>3
<1>14. w = u
  BY <1>8, <1>9, <1>12, <1>13, SeqEqual
<1> QED
  BY <1>1, <1>3, <1>5, <1>7, <1>10, <1>11, <1>14

LEMMA SwapTree ==
  ASSUME NEW h \in Seq(Changes), NEW k \in 1..(Len(h) - 1), Independent(h[k], h[k + 1])
  PROVE  TreeOf(Swapped(h, k)) = TreeOf(h)
<1>1. PICK n \in Nat : n = Len(h) /\ k \in 1..(n - 1)
  OBVIOUS
<1>2. PICK c \in Changes : c = h[k]
  <2>1. k \in 1..n
    BY <1>1
  <2>2. h[k] \in Changes
    BY <1>1, <2>1
  <2> QED
    BY <2>2
<1>3. PICK d \in Changes : d = h[k + 1]
  <2>1. k + 1 \in 1..n
    BY <1>1
  <2>2. h[k + 1] \in Changes
    BY <1>1, <2>1
  <2> QED
    BY <2>2
<1>4. PICK j \in Nat : j = k - 1
  <2>1. k - 1 \in Nat
    BY <1>1
  <2> QED
    BY <2>1
<1>5. PICK a \in Seq(Changes) : a = SubSeq(h, 1, j)
  <2>1. j \in 0..Len(h)
    BY <1>1, <1>4
  <2>2. SubSeq(h, 1, j) \in Seq(Changes)
    BY <2>1, PartsOf
  <2> QED
    BY <2>2
<1>6. Len(a) = j /\ \A i \in 1..j : a[i] = h[i]
  <2>1. j \in 0..Len(h)
    BY <1>1, <1>4
  <2> QED
    BY <1>5, <2>1, PartsOf
<1>7. PICK l \in Nat : l = k + 1 /\ l \in 0..Len(h)
  <2>1. k + 1 \in Nat /\ k + 1 \in 0..Len(h)
    BY <1>1
  <2> QED
    BY <2>1
<1>8. PICK b \in Seq(Changes) : b = SubSeq(h, l + 1, Len(h))
  <2>1. SubSeq(h, l + 1, Len(h)) \in Seq(Changes)
    BY <1>7, PartsOf
  <2> QED
    BY <2>1
<1>9. Len(b) = n - l /\ \A i \in 1..(n - l) : b[i] = h[l + i]
  BY <1>1, <1>7, <1>8, PartsOf
<1>10. PICK e \in Seq(Changes) : e = Append(a, c)
  <2>1. Append(a, c) \in Seq(Changes)
    OBVIOUS
  <2> QED
    BY <2>1
<1>11. PICK x \in Seq(Changes) : x = Append(e, d)
  <2>1. Append(e, d) \in Seq(Changes)
    OBVIOUS
  <2> QED
    BY <2>1
<1>12. PICK f \in Seq(Changes) : f = Append(a, d)
  <2>1. Append(a, d) \in Seq(Changes)
    OBVIOUS
  <2> QED
    BY <2>1
<1>13. PICK y \in Seq(Changes) : y = Append(f, c)
  <2>1. Append(f, c) \in Seq(Changes)
    OBVIOUS
  <2> QED
    BY <2>1
<1>14. Len(e) = k /\ e[k] = c /\ \A i \in 1..j : e[i] = h[i]
  BY <1>1, <1>4, <1>6, <1>10
<1>15. Len(f) = k /\ f[k] = d /\ \A i \in 1..j : f[i] = h[i]
  BY <1>1, <1>4, <1>6, <1>12
<1>16. Len(x) = l /\ x[l] = d /\ x[k] = c /\ \A i \in 1..j : x[i] = h[i]
  <2>1. Len(x) = k + 1 /\ x[k + 1] = d /\ \A i \in 1..k : x[i] = e[i]
    BY <1>11, <1>14
  <2>2. k \in 1..k /\ \A i \in 1..j : i \in 1..k
    BY <1>1, <1>4
  <2> QED
    BY <1>7, <1>14, <2>1, <2>2
<1>17. Len(y) = l /\ y[l] = c /\ y[k] = d /\ \A i \in 1..j : y[i] = h[i]
  <2>1. Len(y) = k + 1 /\ y[k + 1] = c /\ \A i \in 1..k : y[i] = f[i]
    BY <1>13, <1>15
  <2>2. k \in 1..k /\ \A i \in 1..j : i \in 1..k
    BY <1>1, <1>4
  <2> QED
    BY <1>7, <1>15, <2>1, <2>2
<1>18. h = x \o b
  <2>1. x \o b \in Seq(Changes) /\ Len(x \o b) = Len(x) + Len(b)
        /\ \A i \in 1..Len(x) + Len(b) : (x \o b)[i] = IF i <= Len(x) THEN x[i] ELSE b[i - Len(x)]
    BY ConcatProperties
  <2>2. PICK u \in Seq(Changes) : u = x \o b
    BY <2>1
  <2>3. Len(u) = n /\ \A i \in 1..n : u[i] = IF i <= l THEN x[i] ELSE b[i - l]
    <3>1. l + (n - l) = n
      BY <1>1, <1>7
    <3> QED
      BY <1>9, <1>16, <2>1, <2>2, <3>1
  <2>4. \A i \in 1..n : u[i] = h[i]
    <3> TAKE i \in 1..n
    <3>1. CASE i \in 1..j
      <4>1. i <= l
        BY <1>4, <1>7, <3>1
      <4> QED
        BY <1>16, <2>3, <3>1, <4>1
    <3>2. CASE i = k
      <4>1. i <= l
        BY <1>7, <3>2
      <4> QED
        BY <1>2, <1>16, <2>3, <3>2, <4>1
    <3>3. CASE i = l
      BY <1>3, <1>7, <1>16, <2>3, <3>3
    <3>4. CASE i > l
      <4>1. i - l \in 1..(n - l) /\ l + (i - l) = i /\ ~(i <= l)
        BY <3>4
      <4> QED
        BY <1>9, <2>3, <4>1
    <3> QED
      BY <1>1, <1>4, <1>7, <3>1, <3>2, <3>3, <3>4
  <2> QED
    BY <1>1, <2>2, <2>3, <2>4, SeqEqual
<1>19. Swapped(h, k) = y \o b
  <2>1. y \o b \in Seq(Changes) /\ Len(y \o b) = Len(y) + Len(b)
        /\ \A i \in 1..Len(y) + Len(b) : (y \o b)[i] = IF i <= Len(y) THEN y[i] ELSE b[i - Len(y)]
    BY ConcatProperties
  <2>2. PICK u \in Seq(Changes) : u = y \o b
    BY <2>1
  <2>3. Len(u) = n /\ \A i \in 1..n : u[i] = IF i <= l THEN y[i] ELSE b[i - l]
    <3>1. l + (n - l) = n
      BY <1>1, <1>7
    <3> QED
      BY <1>9, <1>17, <2>1, <2>2, <3>1
  <2>4. PICK w \in Seq(Changes) : w = Swapped(h, k)
    <3>1. Swapped(h, k) \in Seq(Changes)
      BY <1>1, SwapOf
    <3> QED
      BY <3>1
  <2>5. Len(w) = n /\ \A i \in 1..n : w[i] = IF i = k + 1 THEN h[k] ELSE IF i = k THEN h[k + 1] ELSE h[i]
    BY <1>1, <2>4, SwapOf
  <2>6. \A i \in 1..n : u[i] = w[i]
    <3> TAKE i \in 1..n
    <3>1. CASE i \in 1..j
      <4>1. i <= l /\ i # k /\ i # k + 1
        BY <1>4, <1>7, <3>1
      <4> QED
        BY <1>17, <2>3, <2>5, <3>1, <4>1
    <3>2. CASE i = k
      <4>1. i <= l /\ i # k + 1
        BY <1>7, <3>2
      <4> QED
        BY <1>3, <1>17, <2>3, <2>5, <3>2, <4>1
    <3>3. CASE i = l
      BY <1>2, <1>7, <1>17, <2>3, <2>5, <3>3
    <3>4. CASE i > l
      <4>1. i - l \in 1..(n - l) /\ l + (i - l) = i /\ ~(i <= l) /\ i # k /\ i # k + 1
        BY <1>7, <3>4
      <4> QED
        BY <1>9, <2>3, <2>5, <4>1
    <3> QED
      BY <1>1, <1>4, <1>7, <3>1, <3>2, <3>3, <3>4
  <2> QED
    BY <2>2, <2>3, <2>4, <2>5, <2>6, SeqEqual
<1>20. TreeOf(x) = After(After(TreeOf(a), c), d)
  <2>1. TreeOf(Append(a, c)) = After(TreeOf(a), c)
    BY TreeAppend
  <2>2. TreeOf(Append(e, d)) = After(TreeOf(e), d)
    BY TreeAppend
  <2> QED
    BY <1>10, <1>11, <2>1, <2>2
<1>21. TreeOf(y) = After(After(TreeOf(a), d), c)
  <2>1. TreeOf(Append(a, d)) = After(TreeOf(a), d)
    BY TreeAppend
  <2>2. TreeOf(Append(f, c)) = After(TreeOf(f), c)
    BY TreeAppend
  <2> QED
    BY <1>12, <1>13, <2>1, <2>2
<1>22. TreeOf(x) = TreeOf(y)
  <2>1. Independent(c, d)
    BY <1>2, <1>3
  <2>2. After(After(TreeOf(a), c), d) = After(After(TreeOf(a), d), c)
    BY <2>1, Commutes
  <2> QED
    BY <1>20, <1>21, <2>2
<1>23. TreeOf(x \o b) = TreeOf(y \o b)
  BY <1>22, TreeAlike
<1> QED
  BY <1>18, <1>19, <1>23

(***************************************************************************)
(* Moves.                                                                  *)
(***************************************************************************)
LEMMA ReorderList ==
  ASSUME NEW g \in Repositories, NEW older \in Listed, NEW newer \in Listed,
         NEW r \in ReorderedRebase(g, older, newer), r.ok
  PROVE  /\ Ancestor(older, g.head) /\ Len(older) \in 1..(Len(g.head) - 1)
         /\ newer = SubSeq(g.head, 1, Len(older) + 1)
         /\ r \in RunTodo(Starting(g), Front(older),
                          Swapped(PicksOf(g.head, Len(older) - 1), 1))
<1>1. PICK h \in AllCommits : h = g.head
  BY RepoParts DEF Shapes
<1>2. PICK k \in Nat : k = Len(older)
  <2>1. Len(older) \in Nat
    BY CommitLen DEF Listed
  <2> QED
    BY <2>1
<1>3. PICK todo \in Seq(Items) : todo = Picks(g, Front(older))
  <2>1. Front(older) \in AllCommits
    BY ListedParts
  <2>2. Picks(g, Front(older)) \in Seq(Items)
    BY <1>1, <2>1, PicksMade
  <2> QED
    BY <2>2
<1>4. PICK at : at = {i \in 1..(Len(todo) - 1) : todo[i].of = older /\ todo[i + 1].of = newer}
  OBVIOUS
<1>5. /\ at # {}
      /\ r \in RunTodo(Starting(g), Front(older),
                       [todo EXCEPT ![CHOOSE i \in at : TRUE] = todo[(CHOOSE i \in at : TRUE) + 1],
                                    ![(CHOOSE i \in at : TRUE) + 1] = todo[CHOOSE i \in at : TRUE]])
  BY <1>3, <1>4 DEF ReorderedRebase, Fails
<1>6. PICK p \in at : p = CHOOSE i \in at : TRUE
  BY <1>5
<1>7. p \in 1..(Len(todo) - 1) /\ todo[p].of = older /\ todo[p + 1].of = newer
  BY <1>4
<1>8. r \in RunTodo(Starting(g), Front(older), Swapped(todo, p))
  BY <1>5, <1>6 DEF Swapped
<1>9. Ancestor(older, h)
  <2>1. todo[p] \in ToSet(todo)
    BY <1>7 DEF ToSet
  <2>2. Front(older) \in AllCommits
    BY ListedParts
  <2>3. \A it \in ToSet(Picks(g, Front(older))) : Ancestor(it.of, g.head)
    BY <1>1, <2>2, PicksMade
  <2> QED
    BY <1>1, <1>3, <1>7, <2>1, <2>3
<1>10. k \in 1..Len(h) /\ Len(h) \in Nat /\ older = SubSeq(h, 1, k)
  BY <1>2, <1>9, BelowOf, CommitLen
<1>11. PICK j \in 0..Len(h) : j = k - 1
  <2>1. k - 1 \in 0..Len(h)
    BY <1>10
  <2> QED
    BY <2>1
<1>12. todo = PicksOf(h, j)
  BY <1>1, <1>2, <1>3, <1>9, <1>11, PicksBelow
<1>13. Len(todo) = Len(h) - j /\ \A i \in 1..(Len(h) - j) : todo[i] = Pick(SubSeq(h, 1, j + i))
  BY <1>12, PicksOfMade
<1>14. PICK m \in Nat : m = Len(h) - j /\ p \in 1..(m - 1) /\ m = Len(todo)
  <2>1. Len(h) - j \in Nat
    BY <1>10, <1>11
  <2> QED
    BY <1>7, <1>13, <2>1
<1>15. todo[p].of = SubSeq(h, 1, j + p) /\ todo[p + 1].of = SubSeq(h, 1, j + (p + 1))
  <2>1. p \in 1..(Len(h) - j) /\ p + 1 \in 1..(Len(h) - j)
    BY <1>14
  <2>2. todo[p] = Pick(SubSeq(h, 1, j + p)) /\ todo[p + 1] = Pick(SubSeq(h, 1, j + (p + 1)))
    BY <1>13, <2>1
  <2>3. \A x : Pick(x).of = x
    BY DEF Pick
  <2>4. Pick(SubSeq(h, 1, j + p)).of = SubSeq(h, 1, j + p)
        /\ Pick(SubSeq(h, 1, j + (p + 1))).of = SubSeq(h, 1, j + (p + 1))
    BY <2>3, Zenon
  <2> QED
    BY <2>2, <2>4, Zenon
<1>16. p = 1
  <2>1. j + p \in 1..Len(h)
    BY <1>10, <1>11, <1>14
  <2>2. Len(SubSeq(h, 1, j + p)) = j + p
    BY <2>1, PartOfCommit
  <2>3. k = j + p
    BY <1>2, <1>7, <1>15, <2>2
  <2> QED
    BY <1>11, <1>14, <2>3
<1>17. newer = SubSeq(h, 1, k + 1) /\ k \in 1..(Len(h) - 1)
  <2>1. j + (p + 1) = k + 1 /\ k \in 1..(Len(h) - 1)
    BY <1>10, <1>11, <1>14, <1>16
  <2> QED
    BY <1>7, <1>15, <2>1
<1> QED
  BY <1>1, <1>2, <1>8, <1>9, <1>11, <1>12, <1>16, <1>17

LEMMA ReorderAs ==
  ASSUME NEW g \in Repositories, NEW older \in Listed, NEW newer \in Listed,
         NEW r \in ReorderedRebase(g, older, newer), r.ok
  PROVE  /\ StaysPut(g, r.g)
         /\ Len(newer) = Len(older) + 1 /\ Len(older) \in 1..(Len(g.head) - 1)
         /\ Titles(r.g.head) = Swapped(Titles(g.head), Len(older))
         /\ Independent(g.head[Len(older)], g.head[Len(older) + 1]) =>
                TreeOf(r.g.head) = TreeOf(g.head)
<1>1. PICK h \in AllCommits : h = g.head
  BY RepoParts DEF Shapes
<1>2. PICK k : k = Len(older)
  OBVIOUS
<1>3. /\ Ancestor(older, h) /\ k \in 1..(Len(h) - 1) /\ newer = SubSeq(h, 1, k + 1)
      /\ r \in RunTodo(Starting(g), Front(older), Swapped(PicksOf(h, k - 1), 1))
  BY <1>1, <1>2, ReorderList
<1>4. h \in Seq(Changes) /\ Len(h) \in Nat
  BY CommitLen
<1>5. PICK j \in 0..Len(h) : j = k - 1
  <2>1. k - 1 \in 0..Len(h)
    BY <1>3, <1>4
  <2> QED
    BY <2>1
<1>6. Front(older) = SubSeq(h, 1, j) /\ Front(older) \in AllCommits
  BY <1>2, <1>3, <1>5, BelowOf
<1>7. PICK from \in AllCommits : from = SubSeq(h, 1, j)
  BY <1>6
<1>8. PICK todo \in Seq(Items) : todo = PicksOf(h, j)
  <2>1. PicksOf(h, j) \in Seq(Items)
    BY PicksOfMade
  <2> QED
    BY <2>1
<1>9. Len(todo) = Len(h) - j /\ OnlyPicks(todo) /\ Lasts(todo) = SubSeq(h, j + 1, Len(h))
  BY <1>8, PicksOfMade
<1>10. 1 \in 1..(Len(todo) - 1)
  BY <1>3, <1>4, <1>5, <1>9
<1>11. PICK b \in Seq(Changes) : b = Lasts(todo) /\ Len(b) = Len(todo)
  BY LastsMade
<1>12. h = from \o b /\ Len(from) = j /\ from \in Seq(Changes)
  <2>0. SubSeq(h, 1, j) \in Seq(Changes) /\ Len(SubSeq(h, 1, j)) = j
    BY <1>4, PartsOf
  <2>1. h = SubSeq(h, 1, j) \o SubSeq(h, j + 1, Len(h))
    BY OwnOfMade
  <2>2. SubSeq(h, j + 1, Len(h)) = b
    BY <1>9, <1>11
  <2>3. Len(from) = j /\ from \in Seq(Changes)
    BY <1>7, <2>0
  <2>4. h = from \o b
    BY <1>7, <2>1, <2>2
  <2> QED
    BY <2>3, <2>4
<1>13. PICK s \in Seq(Items) : s = Swapped(todo, 1)
  <2>1. Swapped(todo, 1) \in Seq(Items)
    BY <1>10, SwapLasts
  <2> QED
    BY <2>1
<1>14. Lasts(s) = Swapped(b, 1) /\ OnlyPicks(s)
  BY <1>9, <1>10, <1>11, <1>13, SwapLasts
<1>15. Swapped(h, k) = from \o Swapped(b, 1)
  <2>1. 1 \in 1..(Len(b) - 1)
    BY <1>10, <1>11
  <2>2. Swapped(from \o b, Len(from) + 1) = from \o Swapped(b, 1)
    BY <1>12, <2>1, SwapAfter
  <2>3. Len(from) + 1 = k
    BY <1>3, <1>4, <1>5, <1>12
  <2> QED
    BY <1>12, <2>2, <2>3
<1>16. r \in RunTodo(Starting(g), from, s)
  BY <1>3, <1>5, <1>6, <1>7, <1>8, <1>13
<1>17. \A i \in 1..Len(s) : s[i].verb # "edit"
  BY <1>14 DEF OnlyPicks
<1>18. StaysPut(g, r.g) /\ Ran(from, s).stop = "none" /\ r.g.head = Ran(from, s).head
  BY <1>16, <1>17, RunsToEnd
<1>19. Folding(s) /\ Led(s) = Titles(Lasts(s)) /\ \A i \in 1..Len(s) : s[i].verb # "drop"
  BY <1>14, PicksFold
<1>20. Titles(r.g.head) = Titles(from) \o Titles(Lasts(s))
  <2>1. Leads(from, s, Ran(from, s).head)
    BY <1>18, <1>19, RunLed
  <2> QED
    BY <1>18, <1>19, <2>1 DEF Leads
<1>21. TreeOf(r.g.head) = TreeOf(from \o Lasts(s))
  BY <1>18, <1>19, RunTree
<1>22. Titles(r.g.head) = Swapped(Titles(h), k)
  <2>1. PICK v \in Seq(Changes) : v = Lasts(s)
    BY LastsMade
  <2>2. Titles(from \o v) = Titles(from) \o Titles(v)
    BY <1>12, TitlesConcat
  <2>3. Titles(Swapped(h, k)) = Swapped(Titles(h), k)
    BY <1>3, <1>4, SwapTitles
  <2> QED
    BY <1>14, <1>15, <1>20, <2>1, <2>2, <2>3
<1>23. ASSUME Independent(h[k], h[k + 1])
       PROVE  TreeOf(r.g.head) = TreeOf(h)
  <2>1. TreeOf(Swapped(h, k)) = TreeOf(h)
    BY <1>3, <1>4, <1>23, SwapTree
  <2> QED
    BY <1>14, <1>15, <1>21, <2>1
<1>24. Len(newer) = k + 1
  <2>1. k + 1 \in 1..Len(h)
    BY <1>3, <1>4
  <2>2. Len(SubSeq(h, 1, k + 1)) = k + 1
    BY <2>1, PartOfCommit
  <2> QED
    BY <1>3, <2>2
<1> QED
  BY <1>1, <1>2, <1>3, <1>18, <1>22, <1>23, <1>24

(***************************************************************************)
(* "--autosquash": a fixup is put after the item it is for and the fixups  *)
(* that follow it already.                                                 *)
(***************************************************************************)
\* The item at i is what the fixup it is for.
Fit(s, it, i) == ~Last(s[i].of).fix /\ Last(s[i].of).subj = Last(it.of).subj

\* What follows the first item of s as its fixups ends at k.
FixupsTo(s, k) ==
    /\ \A j \in 2..k : s[j].verb = "fixup"
    /\ k < Len(s) => s[k + 1].verb # "fixup"

Inserted(s, k, e) == Append(SubSeq(s, 1, k), e) \o SubSeq(s, k + 1, Len(s))

Joins(s, it, r) ==
    \E k \in 1..Len(s) : /\ r = Inserted(s, k, Verbed(it.of, "fixup"))
                         /\ Fit(s, it, 1) => FixupsTo(s, k)

LEMMA InsertedAs ==
  ASSUME NEW S, NEW s \in Seq(S), NEW k \in 1..Len(s), NEW e \in S
  PROVE  InsertAt(s, k + 1, e) = Inserted(s, k, e)
<1>1. PICK n \in Nat : n = Len(s)
  OBVIOUS
<1>2. PICK a \in Seq(S) : a = SubSeq(s, 1, k)
  <2>1. k \in 0..Len(s)
    BY <1>1
  <2>2. SubSeq(s, 1, k) \in Seq(S)
    BY <2>1, PartsOf
  <2> QED
    BY <2>2
<1>3. (k + 1) - 1 = k
  OBVIOUS
<1>4. a \o <<e>> = Append(a, e)
  BY AppendIsConcat
<1>5. InsertAt(s, k + 1, e) = (a \o <<e>>) \o SubSeq(s, k + 1, Len(s))
  BY <1>2, <1>3 DEF InsertAt
<1> QED
  BY <1>2, <1>4, <1>5 DEF Inserted

LEMMA SquashedAs ==
  ASSUME NEW todo \in Seq(Items), NEW it \in Items
  PROVE  /\ ~Last(it.of).fix \/ (\A i \in 1..Len(todo) : ~Fit(todo, it, i)) =>
                Squashed(todo, it) = Append(todo, it)
         /\ Last(it.of).fix /\ (\E i \in 1..Len(todo) : Fit(todo, it, i)) =>
                Joins(todo, it, Squashed(todo, it))
<1>1. PICK n \in Nat : n = Len(todo) /\ DOMAIN todo = 1..n
  OBVIOUS
<1>2. PICK fits : fits = {i \in 1..n : ~Last(todo[i].of).fix /\ Last(todo[i].of).subj = Last(it.of).subj}
  OBVIOUS
<1>0. fits = {i \in 1..n : Fit(todo, it, i)}
  BY <1>2 DEF Fit
<1>3. CASE ~Last(it.of).fix \/ fits = {}
  <2>1. Squashed(todo, it) = Append(todo, it)
    BY <1>1, <1>2, <1>3 DEF Squashed
  <2>2. ~(Last(it.of).fix /\ \E i \in 1..Len(todo) : Fit(todo, it, i))
    BY <1>0, <1>1, <1>3
  <2> QED
    BY <2>1, <2>2
<1>4. CASE ~(~Last(it.of).fix \/ fits = {})
  <2>1. fits \in SUBSET Nat /\ fits # {} /\ fits \subseteq 1..n
    BY <1>2, <1>4
  <2>2. \E x \in fits : \A j \in fits : x <= j
    BY <2>1, LeastNumber
  <2>3. PICK i \in fits : i = CHOOSE x \in fits : \A j \in fits : x <= j
    BY <2>2
  <2>33. \A j \in fits : i <= j
    BY <2>2, <2>3
  <2>4. PICK after : after = {k \in i..n : \A j \in (i + 1)..k : todo[j].verb = "fixup"}
    OBVIOUS
  <2>5. i \in after /\ after \subseteq 1..n
    <3>0. i \in 1..n /\ i \in Nat /\ n \in Nat
      BY <1>1, <2>1, <2>3
    <3>1. i \in 1..n /\ i \in i..n /\ \A j \in (i + 1)..i : FALSE
      BY <3>0
    <3>2. \A x \in i..n : x \in 1..n
      BY <3>1
    <3> QED
      BY <3>1, <3>2, <2>4
  <2>6. after \in SUBSET (0..n) /\ after # {}
    BY <2>5
  <2>7. \E x \in after : \A j \in after : j <= x
    BY <1>1, <2>6, Greatest
  <2>8. PICK k \in after : k = CHOOSE x \in after : \A j \in after : j <= x
    BY <2>7
  <2>88. \A j \in after : j <= k
    BY <2>7, <2>8
  <2>9. PICK jt : jt = [it EXCEPT !.verb = "fixup"]
    OBVIOUS
  <2>10. jt \in Items /\ jt = Verbed(it.of, "fixup")
    BY <2>9 DEF Items, Verbed
  <2>11. Squashed(todo, it) = InsertAt(todo, k + 1, jt)
    <3>1. fits = {x \in DOMAIN todo : ~Last(todo[x].of).fix
                                      /\ Last(todo[x].of).subj = Last(it.of).subj}
      BY <1>1, <1>2
    <3>2. after = {x \in i..Len(todo) : \A j \in (i + 1)..x : todo[j].verb = "fixup"}
      BY <1>1, <2>4
    <3>3. Squashed(todo, it) =
              LET x == CHOOSE x \in fits : \A j \in fits : x <= j
                  past == {y \in x..Len(todo) : \A j \in (x + 1)..y : todo[j].verb = "fixup"}
                  y == CHOOSE y \in past : \A j \in past : j <= y
              IN  IF ~Last(it.of).fix \/ fits = {} THEN Append(todo, it)
                  ELSE InsertAt(todo, y + 1, [it EXCEPT !.verb = "fixup"])
      BY <3>1 DEF Squashed
    <3>4. Squashed(todo, it) =
              LET past == {y \in i..Len(todo) : \A j \in (i + 1)..y : todo[j].verb = "fixup"}
                  y == CHOOSE y \in past : \A j \in past : j <= y
              IN  InsertAt(todo, y + 1, [it EXCEPT !.verb = "fixup"])
      BY <3>3, <1>4, <2>3
    <3>5. Squashed(todo, it) = InsertAt(todo, k + 1, [it EXCEPT !.verb = "fixup"])
      BY <3>2, <3>4, <2>8
    <3> QED
      BY <3>5, <2>9
  <2>12. k \in 1..Len(todo)
    BY <1>1, <2>5, <2>8
  <2>13. InsertAt(todo, k + 1, jt) = Inserted(todo, k, jt)
    BY <2>10, <2>12, InsertedAs
  <2>14. Fit(todo, it, 1) => FixupsTo(todo, k)
    <3> SUFFICES ASSUME Fit(todo, it, 1) PROVE FixupsTo(todo, k)
      OBVIOUS
    <3>0. 1 \in 1..n
      BY <1>1, <2>12
    <3>1. 1 \in fits
      BY <3>0, <1>0
    <3>2. i = 1
      BY <3>1, <2>1, <2>3, <2>33
    <3>3. \A j \in 2..k : todo[j].verb = "fixup"
      <4>1. \A j \in (i + 1)..k : todo[j].verb = "fixup"
        BY <2>4, <2>8
      <4> QED
        BY <4>1, <3>2
    <3>4. k < n => todo[k + 1].verb # "fixup"
      <4> SUFFICES ASSUME k < n, todo[k + 1].verb = "fixup" PROVE FALSE
        OBVIOUS
      <4>1. k \in Nat /\ n \in Nat /\ k + 1 \in 1..n
        BY <1>1, <2>12
      <4>2. \A j \in 2..(k + 1) : j \in 2..k \/ j = k + 1
        BY <4>1
      <4>3. \A j \in 2..(k + 1) : todo[j].verb = "fixup"
        BY <4>2, <3>3
      <4>4. k + 1 \in after
        BY <4>1, <4>3, <3>2, <2>4
      <4> QED
        BY <4>1, <4>4, <2>88
    <3> QED
      BY <3>3, <3>4, <1>1 DEF FixupsTo
  <2>15. Joins(todo, it, Squashed(todo, it))
    BY <2>10, <2>11, <2>12, <2>13, <2>14 DEF Joins
  <2>16. Last(it.of).fix /\ ~(\A x \in 1..Len(todo) : ~Fit(todo, it, x))
    BY <1>0, <1>1, <1>4
  <2> QED
    BY <2>15, <2>16
<1> QED
  BY <1>3, <1>4

(***************************************************************************)
(* The titles of a list tell what a fixup fits.                            *)
(***************************************************************************)
TitleOf(it) == <<Last(it.of).subj, Last(it.of).fix>>

\* The item at i, which is no fixup of another, is of the title t.
Named(s, i, t) == s[i].verb # "fixup" /\ t = TitleOf(s[i])

NamesOn(n) ==
    \A s \in Seq(Items) : Len(s) = n =>
        \A t : t \in ToSet(Led(s)) <=> \E i \in 1..n : Named(s, i, t)

NamesInduction == INSTANCE Induction WITH P <- NamesOn, Op <- Leading

LEMMA LedNames ==
  ASSUME NEW s \in Seq(Items), NEW t
  PROVE  t \in ToSet(Led(s)) <=> \E i \in 1..Len(s) : Named(s, i, t)
<1>1. NamesOn(0)
  <2>0. \A i \in 1..0 : FALSE
    OBVIOUS
  <2> SUFFICES ASSUME NEW z \in Seq(Items), Len(z) = 0, NEW u
               PROVE  u \notin ToSet(Led(z))
    BY <2>0, Zenon DEF NamesOn
  <2>1. z = <<>>
    OBVIOUS
  <2> QED
    BY <2>1, LedEmpty, SetOfEmpty
<1>2. \A n \in Nat : NamesOn(n) => NamesOn(n + 1)
  <2> SUFFICES ASSUME NEW n \in Nat, NamesOn(n), NEW z \in Seq(Items), Len(z) = n + 1, NEW u
               PROVE  u \in ToSet(Led(z)) <=> \E i \in 1..(n + 1) : Named(z, i, u)
    BY DEF NamesOn
  <2>1. PICK q \in Seq(Items), e \in Items : z = Append(q, e) /\ Len(q) = n
    BY SeqSplit
  <2>2. PICK l \in Seq(Titled) : l = Led(q)
    BY <2>1, LedMade
  <2>3. Led(z) = Leading(l, e)
    BY <2>1, <2>2, LedAppend
  <2>4. z[n + 1] = e /\ \A i \in 1..n : z[i] = q[i]
    BY <2>1
  <2>5. u \in ToSet(l) <=> \E i \in 1..n : Named(q, i, u)
    BY <2>1, <2>2 DEF NamesOn
  <2>6. \A i \in 1..n : Named(q, i, u) <=> Named(z, i, u)
    BY <2>4 DEF Named
  <2>7. n + 1 \in 1..(n + 1) /\ (\A i \in 1..n : i \in 1..(n + 1)) /\ \A i \in 1..(n + 1) : i \in 1..n \/ i = n + 1
    OBVIOUS
  <2>8. Named(z, n + 1, u) <=> e.verb # "fixup" /\ u = TitleOf(e)
    BY <2>4 DEF Named
  <2>9. (\E i \in 1..(n + 1) : Named(z, i, u)) <=> u \in ToSet(l) \/ Named(z, n + 1, u)
    BY <2>5, <2>6, <2>7
  <2>10. CASE e.verb = "fixup"
    <3>1. Led(z) = l
      BY <2>3, <2>10 DEF Leading
    <3> QED
      BY <3>1, <2>8, <2>9, <2>10
  <2>11. CASE e.verb # "fixup"
    <3>1. PICK t2 \in Titled : t2 = TitleOf(e)
      BY TitleOfItem DEF TitleOf
    <3>2. Led(z) = Append(l, t2)
      BY <2>3, <2>11, <3>1 DEF Leading, TitleOf
    <3>3. ToSet(Append(l, t2)) = ToSet(l) \union {t2}
      BY <2>2, <3>1, SetOfAppend
    <3> QED
      BY <3>1, <3>2, <3>3, <2>8, <2>9, <2>11
  <2> QED
    BY <2>10, <2>11
<1>3. NamesOn(Len(s)) /\ Len(s) \in Nat
  BY <1>1, <1>2, NumbersWellOrdered, NamesInduction!Induct DEF NamesInduction!WellOrdered
<1> QED
  BY <1>3 DEF NamesOn

\* Whether an item fits shows in the titles.
LEMMA FitShows ==
  ASSUME NEW s \in Seq(Items), \A i \in 1..Len(s) : s[i].verb = "fixup" => Last(s[i].of).fix,
         NEW it \in Items
  PROVE  (\E i \in 1..Len(s) : Fit(s, it, i)) <=> <<Last(it.of).subj, FALSE>> \in ToSet(Led(s))
<1>1. PICK t : t = <<Last(it.of).subj, FALSE>>
  OBVIOUS
<1>2. \A i \in 1..Len(s) : Fit(s, it, i) <=> Named(s, i, t)
  <2> SUFFICES ASSUME NEW i \in 1..Len(s) PROVE Fit(s, it, i) <=> Named(s, i, t)
    OBVIOUS
  <2>1. s[i] \in Items
    OBVIOUS
  <2>2. PICK ch \in Changes : ch = Last(s[i].of)
    BY <2>1, ItemParts
  <2>3. ch.fix \in BOOLEAN
    BY <2>2 DEF Changes
  <2>4. s[i].verb = "fixup" => ch.fix
    BY <2>2
  <2>5. Fit(s, it, i) <=> ~ch.fix /\ ch.subj = Last(it.of).subj
    BY <2>2 DEF Fit
  <2>6. Named(s, i, t) <=> s[i].verb # "fixup" /\ t = <<ch.subj, ch.fix>>
    BY <2>2 DEF Named, TitleOf
  <2>7. t = <<ch.subj, ch.fix>> <=> ch.subj = Last(it.of).subj /\ ch.fix = FALSE
    BY <1>1
  <2> QED
    BY <2>3, <2>4, <2>5, <2>6, <2>7
<1>3. t \in ToSet(Led(s)) <=> \E i \in 1..Len(s) : Named(s, i, t)
  BY LedNames
<1> QED
  BY <1>1, <1>2, <1>3

(***************************************************************************)
(* A list an item has been put into.                                       *)
(***************************************************************************)
LEMMA LastsConcat ==
  ASSUME NEW a \in Seq(Items), NEW b \in Seq(Items)
  PROVE  Lasts(a \o b) = Lasts(a) \o Lasts(b)
<1>1. PICK n \in Nat, m \in Nat : n = Len(a) /\ m = Len(b)
  OBVIOUS
<1>9. PICK c : c = a \o b
  OBVIOUS
<1>2. /\ c \in Seq(Items) /\ Len(c) = n + m
      /\ \A i \in 1..n : c[i] = a[i]
      /\ \A i \in 1..m : c[n + i] = b[i]
  BY <1>1, <1>9
<1>3. PICK l \in Seq(Changes) : l = Lasts(c) /\ Len(l) = n + m
                               /\ \A i \in 1..(n + m) : l[i] = Last(c[i].of)
  BY <1>2, LastsMade
<1>4. PICK ta \in Seq(Changes) : ta = Lasts(a) /\ Len(ta) = n
                                /\ \A i \in 1..n : ta[i] = Last(a[i].of)
  BY <1>1, LastsMade
<1>5. PICK tb \in Seq(Changes) : tb = Lasts(b) /\ Len(tb) = m
                                /\ \A i \in 1..m : tb[i] = Last(b[i].of)
  BY <1>1, LastsMade
<1>10. PICK r : r = ta \o tb
  OBVIOUS
<1>6. /\ r \in Seq(Changes) /\ Len(r) = n + m
      /\ \A i \in 1..n : r[i] = ta[i]
      /\ \A i \in 1..m : r[n + i] = tb[i]
  <2>1. ta \in Seq(Changes) /\ n = Len(ta) /\ tb \in Seq(Changes) /\ m = Len(tb)
    BY <1>4, <1>5
  <2> QED
    BY <2>1, <1>10
<1>7. \A i \in 1..(n + m) : l[i] = r[i]
  <2> SUFFICES ASSUME NEW i \in 1..(n + m) PROVE l[i] = r[i]
    OBVIOUS
  <2>1. CASE i <= n
    <3>1. i \in 1..n
      BY <2>1
    <3>2. l[i] = Last(c[i].of)
      BY <1>3
    <3>3. c[i] = a[i]
      BY <3>1, <1>2
    <3>4. r[i] = ta[i] /\ ta[i] = Last(a[i].of)
      BY <3>1, <1>4, <1>6
    <3> QED
      BY <3>2, <3>3, <3>4
  <2>2. CASE ~(i <= n)
    <3>1. i - n \in 1..m /\ n + (i - n) = i
      BY <2>2
    <3>2. l[i] = Last(c[i].of)
      BY <1>3
    <3>3. c[n + (i - n)] = b[i - n]
      BY <3>1, <1>2
    <3>4. r[n + (i - n)] = tb[i - n] /\ tb[i - n] = Last(b[i - n].of)
      BY <3>1, <1>5, <1>6
    <3> QED
      BY <3>1, <3>2, <3>3, <3>4
  <2> QED
    BY <2>1, <2>2
<1>8. l = r
  BY <1>3, <1>6, <1>7, SeqEqual
<1> QED
  BY <1>2, <1>3, <1>4, <1>5, <1>6, <1>8, <1>9, <1>10

\* The parts of a list e has been put into.
Around(s, k, e, a, b) ==
    /\ s = a \o b /\ Inserted(s, k, e) = Append(a, e) \o b
    /\ Len(a) = k /\ Len(b) = Len(s) - k
    /\ \A i \in 1..k : a[i] = s[i]
    /\ \A i \in 1..(Len(s) - k) : b[i] = s[k + i]

LEMMA InsertedParts ==
  ASSUME NEW s \in Seq(Items), NEW k \in 1..Len(s), NEW e \in Items
  PROVE  /\ Inserted(s, k, e) \in Seq(Items) /\ Len(Inserted(s, k, e)) = Len(s) + 1
         /\ Inserted(s, k, e)[1] = s[1]
         /\ \A i \in 1..(Len(s) + 1) : \/ Inserted(s, k, e)[i] = e
                                       \/ \E j \in 1..Len(s) : Inserted(s, k, e)[i] = s[j]
         /\ \E a \in Seq(Items), b \in Seq(Items) : Around(s, k, e, a, b)
<1>1. PICK n \in Nat : n = Len(s)
  OBVIOUS
<1>2. k \in 0..Len(s) /\ k \in 1..n /\ k \in Nat
  BY <1>1
<1>3. PICK a \in Seq(Items) : a = SubSeq(s, 1, k)
  <2>1. SubSeq(s, 1, k) \in Seq(Items)
    BY <1>2, PartsOf
  <2> QED
    BY <2>1
<1>4. PICK b \in Seq(Items) : b = SubSeq(s, k + 1, Len(s))
  <2>1. SubSeq(s, k + 1, Len(s)) \in Seq(Items)
    BY <1>2, PartsOf
  <2> QED
    BY <2>1
<1>5. /\ s = a \o b /\ Len(a) = k /\ Len(b) = Len(s) - k
      /\ \A i \in 1..k : a[i] = s[i]
      /\ \A i \in 1..(Len(s) - k) : b[i] = s[k + i]
  BY <1>2, <1>3, <1>4, PartsOf
<1>6. PICK x \in Seq(Items) : x = Append(a, e)
  <2>1. Append(a, e) \in Seq(Items)
    OBVIOUS
  <2> QED
    BY <2>1
<1>7. Len(x) = k + 1 /\ x[k + 1] = e /\ \A i \in 1..k : x[i] = s[i]
  BY <1>5, <1>6
<1>8. PICK m \in Nat : m = n - k /\ m = Len(b) /\ (k + 1) + m = n + 1
  <2>1. n - k \in Nat /\ (k + 1) + (n - k) = n + 1
    BY <1>1, <1>2
  <2> QED
    BY <2>1, <1>1, <1>5
<1>9. PICK y : y = x \o b
  OBVIOUS
<1>10. /\ y \in Seq(Items) /\ Len(y) = (k + 1) + m
       /\ \A i \in 1..(k + 1) : y[i] = x[i]
       /\ \A i \in 1..m : y[(k + 1) + i] = b[i]
  <2>1. PICK l \in Nat : l = Len(x) /\ l = k + 1
    BY <1>7
  <2>2. /\ y \in Seq(Items) /\ Len(y) = l + m
        /\ \A i \in 1..l : y[i] = x[i]
        /\ \A i \in 1..m : y[l + i] = b[i]
    <3>1. x \in Seq(Items) /\ b \in Seq(Items) /\ l = Len(x) /\ m = Len(b)
      BY <2>1, <1>8
    <3> QED
      BY <3>1, <1>9
  <2> QED
    BY <2>1, <2>2
<1>11. Inserted(s, k, e) = y
  BY <1>3, <1>4, <1>6, <1>9 DEF Inserted
<1>12. y[1] = s[1]
  <2>1. 1 \in 1..(k + 1) /\ 1 \in 1..k
    BY <1>2
  <2> QED
    BY <2>1, <1>7, <1>10
<1>13. ASSUME NEW i \in 1..(n + 1)
       PROVE  y[i] = e \/ \E j \in 1..n : y[i] = s[j]
  <2>1. CASE i \in 1..k
    <3>1. i \in 1..(k + 1) /\ i \in 1..n
      BY <1>2, <2>1
    <3> QED
      BY <3>1, <2>1, <1>7, <1>10
  <2>2. CASE i = k + 1
    <3>1. i \in 1..(k + 1)
      BY <1>2, <2>2
    <3> QED
      BY <3>1, <2>2, <1>7, <1>10
  <2>3. CASE i > k + 1
    <3>1. PICK j : j = i - (k + 1)
      OBVIOUS
    <3>2. j \in 1..m /\ (k + 1) + j = i /\ k + j \in 1..n /\ j \in 1..(Len(s) - k)
      BY <3>1, <2>3, <1>1, <1>2, <1>8
    <3>3. y[i] = b[j] /\ b[j] = s[k + j]
      BY <3>2, <1>5, <1>10
    <3> QED
      BY <3>2, <3>3
  <2> QED
    BY <2>1, <2>2, <2>3, <1>2
<1>14. Around(s, k, e, a, b)
  BY <1>5, <1>6, <1>9, <1>11 DEF Around
<1> QED
  BY <1>1, <1>8, <1>10, <1>11, <1>12, <1>13, <1>14

(***************************************************************************)
(* What "--autosquash" makes of a list of picks: the commits that come of  *)
(* it have the titles without the fixups, and the same tree, if the fixups *)
(* are independent of what they are moved before.                          *)
(***************************************************************************)
\* Each fixup is independent of what comes before it.
FixupsMovable(l) == \A j \in 1..Len(l) : l[j].fix => \A k \in 1..(j - 1) : Independent(l[k], l[j])

SameTree(l, r) == \A from \in Seq(Changes) : TreeOf(from \o l) = TreeOf(from \o r)

\* What "--autosquash" makes of the picks p.
Fixes(s) == \A i \in 1..Len(s) : s[i].verb = "fixup" => Last(s[i].of).fix

Starts(p, s) == Len(p) > 0 => Len(s) > 0 /\ s[1] = p[1]

Among(s, p) == \A i \in 1..Len(s) : \E j \in 1..Len(p) : s[i].of = p[j].of

Squares(p, s) ==
    /\ s \in Seq(Items) /\ Folding(s) /\ Fixes(s) /\ Starts(p, s) /\ Among(s, p)
    /\ Led(s) = WithoutFixups(Titles(Lasts(p)))
    /\ FixupsMovable(Lasts(p)) => SameTree(Lasts(s), Lasts(p))

\* The next item is not moved.
LEMMA SquaresAdd ==
  ASSUME NEW p \in Seq(Items), NEW s \in Seq(Items), Squares(p, s), Len(p) = 0 => Len(s) = 0,
         NEW e \in Items, e.verb = "pick",
         ~Last(e.of).fix \/ ~(<<Last(e.of).subj, FALSE>> \in ToSet(Led(s)))
  PROVE  Squares(Append(p, e), Append(s, e))
<1>1. PICK n \in Nat, m \in Nat : n = Len(p) /\ m = Len(s)
  OBVIOUS
<1>2. PICK p2 \in Seq(Items) : p2 = Append(p, e)
  <2>1. Append(p, e) \in Seq(Items)
    OBVIOUS
  <2> QED
    BY <2>1
<1>3. PICK s2 \in Seq(Items) : s2 = Append(s, e)
  <2>1. Append(s, e) \in Seq(Items)
    OBVIOUS
  <2> QED
    BY <2>1
<1>4. Len(p2) = n + 1 /\ p2[n + 1] = e /\ \A i \in 1..n : p2[i] = p[i]
  BY <1>1, <1>2
<1>5. Len(s2) = m + 1 /\ s2[m + 1] = e /\ \A i \in 1..m : s2[i] = s[i]
  BY <1>1, <1>3
<1>6. n + 1 \in 1..(n + 1) /\ (\A i \in 1..n : i \in 1..(n + 1)) /\ \A i \in 1..(m + 1) : i \in 1..m \/ i = m + 1
  OBVIOUS
<1>7. Folding(s2)
  <2>1. \A i \in 1..(m + 1) : s2[i].verb \in {"pick", "fixup"}
    <3>1. \A i \in 1..m : s[i].verb \in {"pick", "fixup"}
      BY <1>1 DEF Squares, Folding
    <3> QED
      BY <3>1, <1>5, <1>6
  <2>2. s2[1].verb = "pick"
    <3>1. CASE m = 0
      BY <3>1, <1>5
    <3>2. CASE m # 0
      <4>1. 1 \in 1..m /\ m > 0
        BY <3>2
      <4>2. s[1].verb = "pick"
        BY <4>1, <1>1 DEF Squares, Folding
      <4> QED
        BY <4>1, <4>2, <1>5
    <3> QED
      BY <3>1, <3>2
  <2> QED
    BY <2>1, <2>2, <1>5 DEF Folding
<1>8. Fixes(s2)
  <2>1. \A i \in 1..m : s[i].verb = "fixup" => Last(s[i].of).fix
    BY <1>1 DEF Squares, Fixes
  <2>2. \A i \in 1..(m + 1) : s2[i].verb = "fixup" => Last(s2[i].of).fix
    BY <2>1, <1>5, <1>6
  <2> QED
    BY <2>2, <1>5 DEF Fixes
<1>9. Starts(p2, s2)
  <2>1. m + 1 > 0 /\ 1 \in 1..(m + 1)
    OBVIOUS
  <2>2. s2[1] = p2[1]
    <3>1. CASE n = 0
      BY <3>1, <1>1, <1>4, <1>5
    <3>2. CASE n # 0
      <4>1. n > 0 /\ 1 \in 1..n
        BY <3>2
      <4>2. m > 0 /\ s[1] = p[1]
        BY <4>1, <1>1 DEF Squares, Starts
      <4>3. 1 \in 1..m
        BY <4>2
      <4> QED
        BY <4>1, <4>2, <4>3, <1>4, <1>5
    <3> QED
      BY <3>1, <3>2
  <2> QED
    BY <2>1, <2>2, <1>5 DEF Starts
<1>10. Among(s2, p2)
  <2>1. \A i \in 1..m : \E j \in 1..n : s[i].of = p[j].of
    BY <1>1 DEF Squares, Among
  <2>2. ASSUME NEW i \in 1..(m + 1) PROVE \E j \in 1..(n + 1) : s2[i].of = p2[j].of
    <3>1. CASE i \in 1..m
      <4>1. PICK j \in 1..n : s[i].of = p[j].of
        BY <2>1, <3>1
      <4> QED
        BY <4>1, <3>1, <1>4, <1>5, <1>6
    <3>2. CASE i = m + 1
      BY <3>2, <1>4, <1>5, <1>6
    <3> QED
      BY <3>1, <3>2, <1>6
  <2> QED
    BY <2>2, <1>4, <1>5 DEF Among
<1>11. PICK lp \in Seq(Changes), ls \in Seq(Changes), ch \in Changes :
         lp = Lasts(p) /\ ls = Lasts(s) /\ ch = Last(e.of)
  BY LastsMade, ItemParts
<1>12. Lasts(p2) = Append(lp, ch) /\ Lasts(s2) = Append(ls, ch)
  BY <1>2, <1>3, <1>11, LastsAppend
<1>13. Led(s2) = WithoutFixups(Titles(Lasts(p2)))
  <2>1. PICK w \in Seq(Titled) : w = Led(s)
    BY LedMade
  <2>2. w = WithoutFixups(Titles(lp))
    BY <2>1, <1>11 DEF Squares
  <2>3. PICK t \in Titled : t = <<ch.subj, ch.fix>>
    BY <1>11, TitleOfItem
  <2>4. Led(s2) = Append(w, t)
    <3>1. Led(s2) = Leading(w, e)
      BY <1>3, <2>1, LedAppend
    <3>2. e.verb # "fixup"
      OBVIOUS
    <3> QED
      BY <3>1, <3>2, <2>3, <1>11 DEF Leading
  <2>5. Titles(Lasts(p2)) = Append(Titles(lp), t)
    BY <1>12, <2>3, TitlesAppend
  <2>6. Titles(lp) \in Seq(Titled)
    BY TitlesMade
  <2>7. WithoutFixups(Append(Titles(lp), t)) = FoldedInto(w, t)
    BY <2>2, <2>6, MeltAppend
  <2>8. FoldedInto(w, t) = Append(w, t)
    <3>1. t[1] = ch.subj /\ t[2] = ch.fix
      BY <2>3
    <3>2. ~(t[2] /\ <<t[1], FALSE>> \in ToSet(w))
      BY <3>1, <2>1, <1>11
    <3> QED
      BY <3>2 DEF FoldedInto
  <2> QED
    BY <2>4, <2>5, <2>7, <2>8
<1>14. FixupsMovable(Lasts(p2)) => SameTree(Lasts(s2), Lasts(p2))
  <2> SUFFICES ASSUME FixupsMovable(Append(lp, ch)), NEW from \in Seq(Changes)
               PROVE  TreeOf(from \o Append(ls, ch)) = TreeOf(from \o Append(lp, ch))
    BY <1>12 DEF SameTree
  <2>1. FixupsMovable(lp)
    <3>1. PICK k \in Nat : k = Len(lp)
      OBVIOUS
    <3>2. PICK u : u = Append(lp, ch)
      OBVIOUS
    <3>3. Len(u) = k + 1 /\ \A i \in 1..k : u[i] = lp[i]
      BY <3>1, <3>2
    <3>4. ASSUME NEW j \in 1..k, lp[j].fix, NEW i \in 1..(j - 1) PROVE Independent(lp[i], lp[j])
      <4>1. j \in 1..(k + 1) /\ i \in 1..k
        OBVIOUS
      <4>2. u[j].fix
        BY <3>3, <3>4
      <4>3. Independent(u[i], u[j])
        BY <4>1, <4>2, <3>2, <3>3 DEF FixupsMovable
      <4> QED
        BY <4>1, <4>3, <3>3
    <3> QED
      BY <3>1, <3>4 DEF FixupsMovable
  <2>2. TreeOf(from \o ls) = TreeOf(from \o lp)
    BY <2>1, <1>11 DEF Squares, SameTree
  <2> QED
    BY <2>2, TreeMore
<1> QED
  BY <1>2, <1>3, <1>7, <1>8, <1>9, <1>10, <1>13, <1>14 DEF Squares

LEMMA AddedAfter ==
  ASSUME NEW f \in Seq(Changes), NEW a \in Seq(Changes), NEW b \in Seq(Changes),
         NEW e \in Changes
  PROVE  /\ f \o (Append(a, e) \o b) = Append(f \o a, e) \o b
         /\ (f \o a) \o b = f \o (a \o b)
<1>1. PICK d \in Seq(Changes) : d = Append(a, e)
  <2>1. Append(a, e) \in Seq(Changes)
    OBVIOUS
  <2> QED
    BY <2>1
<1>2. (f \o d) \o b = f \o (d \o b)
  BY ConcatAssociative
<1>3. f \o Append(a, e) = Append(f \o a, e)
  BY ConcatAppend
<1>4. (f \o a) \o b = f \o (a \o b)
  BY ConcatAssociative
<1> QED
  BY <1>1, <1>2, <1>3, <1>4

LEMMA TreeInserted ==
  ASSUME NEW f \in Seq(Changes), NEW a \in Seq(Changes), NEW b \in Seq(Changes),
         NEW ch \in Changes, \A i \in 1..Len(b) : Independent(b[i], ch)
  PROVE  TreeOf(f \o (Append(a, ch) \o b)) = After(TreeOf(f \o (a \o b)), ch)
<1>1. PICK d \in Seq(Changes) : d = f \o a
  <2>1. f \o a \in Seq(Changes)
    BY ConcatProperties
  <2> QED
    BY <2>1
<1>2. f \o (Append(a, ch) \o b) = Append(f \o a, ch) \o b /\ (f \o a) \o b = f \o (a \o b)
  BY AddedAfter
<1>3. TreeOf(Append(d, ch) \o b) = After(TreeOf(d \o b), ch)
  BY TreeEarlier
<1> QED
  BY <1>1, <1>2, <1>3

\* The next item, a fixup, is moved to what it is for.
LEMMA SquaresJoin ==
  ASSUME NEW p \in Seq(Items), NEW s \in Seq(Items), Squares(p, s),
         NEW e \in Items, Last(e.of).fix, <<Last(e.of).subj, FALSE>> \in ToSet(Led(s)),
         NEW k \in 1..Len(s), NEW it \in Items, it = Verbed(e.of, "fixup"),
         NEW r, r = Inserted(s, k, it)
  PROVE  Squares(Append(p, e), r)
<1>1. PICK n \in Nat, m \in Nat : n = Len(p) /\ m = Len(s)
  OBVIOUS
<1>2. PICK p2 \in Seq(Items) : p2 = Append(p, e)
  <2>1. Append(p, e) \in Seq(Items)
    OBVIOUS
  <2> QED
    BY <2>1
<1>3. it.verb = "fixup" /\ it.of = e.of
  BY DEF Verbed
<1>4. Len(p2) = n + 1 /\ p2[n + 1] = e /\ \A i \in 1..n : p2[i] = p[i]
  BY <1>1, <1>2
<1>5. /\ r \in Seq(Items) /\ Len(r) = m + 1 /\ r[1] = s[1]
      /\ \A i \in 1..(m + 1) : r[i] = it \/ \E j \in 1..m : r[i] = s[j]
  <2>1. /\ Inserted(s, k, it) \in Seq(Items) /\ Len(Inserted(s, k, it)) = Len(s) + 1
        /\ Inserted(s, k, it)[1] = s[1]
        /\ \A i \in 1..(Len(s) + 1) : \/ Inserted(s, k, it)[i] = it
                                      \/ \E j \in 1..Len(s) : Inserted(s, k, it)[i] = s[j]
    BY InsertedParts
  <2> QED
    BY <1>1, <2>1
<1>6. PICK a \in Seq(Items), b \in Seq(Items) : Around(s, k, it, a, b)
  BY InsertedParts
<1>66. n + 1 \in 1..(n + 1) /\ (\A i \in 1..n : i \in 1..(n + 1)) /\ m > 0 /\ 1 \in 1..m
  BY <1>1
<1>7. Folding(r)
  <2>1. \A i \in 1..(m + 1) : r[i].verb \in {"pick", "fixup"}
    <3>1. \A i \in 1..m : s[i].verb \in {"pick", "fixup"}
      BY <1>1 DEF Squares, Folding
    <3> QED
      BY <3>1, <1>3, <1>5
  <2>2. r[1].verb = "pick"
    <3>1. s[1].verb = "pick"
      BY <1>1, <1>66 DEF Squares, Folding
    <3> QED
      BY <3>1, <1>5
  <2> QED
    BY <2>1, <2>2, <1>5 DEF Folding
<1>8. Fixes(r)
  <2>1. \A i \in 1..m : s[i].verb = "fixup" => Last(s[i].of).fix
    BY <1>1 DEF Squares, Fixes
  <2>2. ASSUME NEW i \in 1..(m + 1), r[i].verb = "fixup" PROVE Last(r[i].of).fix
    <3>1. CASE r[i] = it
      BY <3>1, <1>3
    <3>2. CASE \E j \in 1..m : r[i] = s[j]
      BY <3>2, <2>1, <2>2
    <3> QED
      BY <3>1, <3>2, <1>5
  <2> QED
    BY <2>2, <1>5 DEF Fixes
<1>9. Among(r, p2)
  <2>1. \A i \in 1..m : \E j \in 1..n : s[i].of = p[j].of
    BY <1>1 DEF Squares, Among
  <2>2. ASSUME NEW i \in 1..(m + 1) PROVE \E j \in 1..(n + 1) : r[i].of = p2[j].of
    <3>1. CASE \E j \in 1..m : r[i] = s[j]
      <4>1. PICK x \in 1..m : r[i] = s[x]
        BY <3>1
      <4>2. PICK j \in 1..n : s[x].of = p[j].of
        BY <2>1
      <4> QED
        BY <4>1, <4>2, <1>4, <1>66
    <3>2. CASE r[i] = it
      BY <3>2, <1>3, <1>4, <1>66
    <3> QED
      BY <3>1, <3>2, <1>5
  <2> QED
    BY <2>2, <1>4, <1>5 DEF Among
<1>10. Starts(p2, r)
  <2>1. n > 0
    <3>1. PICK j \in 1..n : s[1].of = p[j].of
      BY <1>1, <1>66 DEF Squares, Among
    <3> QED
      BY <3>1
  <2>2. s[1] = p[1]
    BY <2>1, <1>1 DEF Squares, Starts
  <2>3. 1 \in 1..n
    BY <2>1
  <2>4. r[1] = p2[1]
    BY <2>2, <2>3, <1>4, <1>5
  <2> QED
    BY <2>4, <1>5 DEF Starts
<1>11. PICK lp \in Seq(Changes), ls \in Seq(Changes), ch \in Changes :
         lp = Lasts(p) /\ ls = Lasts(s) /\ ch = Last(e.of)
  BY LastsMade, ItemParts
<1>12. PICK la \in Seq(Changes), lb \in Seq(Changes) : la = Lasts(a) /\ lb = Lasts(b)
  BY LastsMade
<1>13. PICK x \in Seq(Items) : x = Append(a, it)
  <2>1. Append(a, it) \in Seq(Items)
    OBVIOUS
  <2> QED
    BY <2>1
<1>14. s = a \o b /\ r = x \o b
  BY <1>6, <1>13 DEF Around
<1>15. Lasts(p2) = Append(lp, ch) /\ ls = la \o lb /\ Lasts(r) = Append(la, ch) \o lb
  <2>1. Lasts(p2) = Append(lp, ch)
    BY <1>2, <1>11, LastsAppend
  <2>2. Lasts(a \o b) = Lasts(a) \o Lasts(b) /\ Lasts(x \o b) = Lasts(x) \o Lasts(b)
    BY LastsConcat
  <2>3. Lasts(x) = Append(la, ch)
    BY <1>3, <1>11, <1>12, <1>13, LastsAppend
  <2> QED
    BY <2>1, <2>2, <2>3, <1>11, <1>12, <1>14
<1>16. Led(r) = WithoutFixups(Titles(Lasts(p2)))
  <2>1. PICK w \in Seq(Titled) : w = Led(s)
    BY LedMade
  <2>2. w = WithoutFixups(Titles(lp))
    BY <2>1, <1>11 DEF Squares
  <2>3. PICK t \in Titled : t = <<ch.subj, ch.fix>>
    BY <1>11, TitleOfItem
  <2>4. Led(r) = w
    <3>1. Led(a \o b) = Led(a) \o Led(b) /\ Led(x \o b) = Led(x) \o Led(b)
      BY LedConcat
    <3>2. Led(x) = Leading(Led(a), it)
      BY <1>13, LedAppend
    <3>3. Led(x) = Led(a)
      BY <3>2, <1>3 DEF Leading
    <3> QED
      BY <3>1, <3>3, <2>1, <1>14
  <2>5. Titles(Lasts(p2)) = Append(Titles(lp), t)
    BY <1>15, <2>3, TitlesAppend
  <2>6. Titles(lp) \in Seq(Titled)
    BY TitlesMade
  <2>7. WithoutFixups(Append(Titles(lp), t)) = FoldedInto(w, t)
    BY <2>2, <2>6, MeltAppend
  <2>8. FoldedInto(w, t) = w
    <3>1. t[1] = ch.subj /\ t[2] = ch.fix
      BY <2>3
    <3>2. t[2] /\ <<t[1], FALSE>> \in ToSet(w)
      BY <3>1, <2>1, <1>11
    <3> QED
      BY <3>2 DEF FoldedInto
  <2> QED
    BY <2>4, <2>5, <2>7, <2>8
<1>17. FixupsMovable(Lasts(p2)) => SameTree(Lasts(r), Lasts(p2))
  <2> SUFFICES ASSUME FixupsMovable(Append(lp, ch)), NEW from \in Seq(Changes)
               PROVE  TreeOf(from \o (Append(la, ch) \o lb)) = TreeOf(from \o Append(lp, ch))
    BY <1>15 DEF SameTree
  <2>0. PICK u : u = Append(lp, ch)
    OBVIOUS
  <2>00. Len(lp) = n /\ Len(u) = n + 1 /\ u[n + 1] = ch /\ \A i \in 1..n : u[i] = lp[i]
    <3>1. Len(lp) = n
      BY <1>1, <1>11, LastsMade
    <3> QED
      BY <3>1, <2>0
  <2>1. FixupsMovable(lp)
    <3>4. ASSUME NEW j \in 1..n, lp[j].fix, NEW i \in 1..(j - 1) PROVE Independent(lp[i], lp[j])
      <4>1. j \in 1..(n + 1) /\ i \in 1..n
        OBVIOUS
      <4>2. u[j].fix
        BY <2>00, <3>4
      <4>3. Independent(u[i], u[j])
        BY <4>1, <4>2, <2>0, <2>00 DEF FixupsMovable
      <4> QED
        BY <4>1, <4>3, <2>00
    <3> QED
      BY <2>00, <3>4 DEF FixupsMovable
  <2>2. TreeOf(from \o (la \o lb)) = TreeOf(from \o lp)
    BY <2>1, <1>11, <1>15 DEF Squares, SameTree
  <2>3. \A i \in 1..n : Independent(lp[i], ch)
    <3> TAKE i \in 1..n
    <3>1. i \in 1..((n + 1) - 1) /\ n + 1 \in 1..(n + 1)
      OBVIOUS
    <3>2. u[n + 1].fix
      BY <2>00, <1>11
    <3>3. Independent(u[i], u[n + 1])
      BY <3>1, <3>2, <2>0, <2>00 DEF FixupsMovable
    <3> QED
      BY <3>3, <2>00
  <2>4. \A i \in 1..Len(lb) : Independent(lb[i], ch)
    <3>0. Len(lb) = Len(b) /\ Len(b) = m - k
      BY <1>1, <1>6, <1>12, LastsMade DEF Around
    <3> SUFFICES ASSUME NEW i \in 1..(m - k) PROVE Independent(lb[i], ch)
      BY <3>0
    <3>1. i \in 1..Len(b) /\ k + i \in 1..m /\ i \in 1..(Len(s) - k)
      BY <1>1, <3>0
    <3>2. lb[i] = Last(b[i].of)
      BY <3>1, <1>12, LastsMade
    <3>3. b[i] = s[k + i]
      BY <3>1, <1>6 DEF Around
    <3>4. PICK j \in 1..n : s[k + i].of = p[j].of
      BY <3>1, <1>1 DEF Squares, Among
    <3>5. lp[j] = Last(p[j].of)
      BY <1>1, <1>11, LastsMade
    <3> QED
      BY <2>3, <3>2, <3>3, <3>4, <3>5
  <2>5. TreeOf(from \o (Append(la, ch) \o lb)) = After(TreeOf(from \o (la \o lb)), ch)
    BY <2>4, TreeInserted
  <2>9. TreeOf(from \o Append(lp, ch)) = After(TreeOf(from \o lp), ch)
    BY TreeMore
  <2> QED
    BY <2>2, <2>5, <2>9
<1> QED
  BY <1>2, <1>5, <1>7, <1>8, <1>9, <1>10, <1>16, <1>17 DEF Squares

SquareOn(n) ==
    \A p \in Seq(Items) : Len(p) = n /\ OnlyPicks(p) =>
        Squares(p, Autosquash(p)) /\ (n = 0 => Len(Autosquash(p)) = 0)

SquareInduction == INSTANCE Induction WITH P <- SquareOn, Op <- Squashed

LEMMA SquareMade ==
  ASSUME NEW p \in Seq(Items), OnlyPicks(p)
  PROVE  Squares(p, Autosquash(p)) /\ (Len(p) = 0 => Len(Autosquash(p)) = 0)
<1>1. SquareOn(0)
  <2> SUFFICES ASSUME NEW q \in Seq(Items), Len(q) = 0
               PROVE  Squares(q, Autosquash(q)) /\ Len(Autosquash(q)) = 0
    BY DEF SquareOn
  <2>1. q = <<>> /\ Autosquash(q) = <<>> /\ Led(q) = <<>>
    BY SquashEmpty, LedEmpty
  <2>2. Lasts(q) \in Seq(Changes) /\ Len(Lasts(q)) = 0
    BY LastsMade
  <2>3. Titles(Lasts(q)) \in Seq(Titled) /\ Len(Titles(Lasts(q))) = 0
    BY <2>2, TitlesMade
  <2>4. Titles(Lasts(q)) = <<>>
    BY <2>3
  <2>5. WithoutFixups(Titles(Lasts(q))) = Led(q)
    BY <2>1, <2>4, MeltEmpty
  <2>6. Autosquash(q) = q
    BY <2>1
  <2>7. Folding(q) /\ Fixes(q) /\ Starts(q, q) /\ Among(q, q)
    BY DEF Folding, Fixes, Starts, Among
  <2>8. SameTree(Lasts(q), Lasts(q))
    BY DEF SameTree
  <2> QED
    BY <2>5, <2>6, <2>7, <2>8 DEF Squares
<1>2. \A n \in Nat : SquareOn(n) => SquareOn(n + 1)
  <2> SUFFICES ASSUME NEW n \in Nat, SquareOn(n), NEW q \in Seq(Items), Len(q) = n + 1, OnlyPicks(q)
               PROVE  Squares(q, Autosquash(q))
    <3>1. \A n \in Nat : n + 1 # 0
      OBVIOUS
    <3> QED
      BY <3>1 DEF SquareOn
  <2>1. PICK p2 \in Seq(Items), e \in Items : q = Append(p2, e) /\ Len(p2) = n
    BY SeqSplit
  <2>2. OnlyPicks(p2) /\ e.verb = "pick"
    BY <2>1, OnlyPicksFront
  <2>3. Squares(p2, Autosquash(p2)) /\ (n = 0 => Len(Autosquash(p2)) = 0)
    BY <2>1, <2>2 DEF SquareOn
  <2>4. PICK s \in Seq(Items) : s = Autosquash(p2)
    BY <2>3 DEF Squares
  <2>5. Autosquash(q) = Squashed(s, e)
    BY <2>1, <2>4, SquashAppend
  <2>6. \A i \in 1..Len(s) : s[i].verb = "fixup" => Last(s[i].of).fix
    BY <2>3, <2>4 DEF Squares, Fixes
  <2>7. (\E i \in 1..Len(s) : Fit(s, e, i)) <=> <<Last(e.of).subj, FALSE>> \in ToSet(Led(s))
    BY <2>6, FitShows
  <2>8. CASE ~Last(e.of).fix \/ ~(<<Last(e.of).subj, FALSE>> \in ToSet(Led(s)))
    <3>1. ~Last(e.of).fix \/ \A i \in 1..Len(s) : ~Fit(s, e, i)
      BY <2>7, <2>8
    <3>2. Squashed(s, e) = Append(s, e)
      BY <3>1, SquashedAs
    <3>3. Len(p2) = 0 => Len(s) = 0
      BY <2>1, <2>3, <2>4
    <3>4. Squares(Append(p2, e), Append(s, e))
      BY <2>2, <2>3, <2>4, <2>8, <3>3, SquaresAdd
    <3> QED
      BY <2>1, <2>5, <3>2, <3>4
  <2>9. CASE ~(~Last(e.of).fix \/ ~(<<Last(e.of).subj, FALSE>> \in ToSet(Led(s))))
    <3>1. Last(e.of).fix /\ \E i \in 1..Len(s) : Fit(s, e, i)
      BY <2>7, <2>9
    <3>2. Joins(s, e, Squashed(s, e))
      BY <3>1, SquashedAs
    <3>3. PICK k \in 1..Len(s) : Squashed(s, e) = Inserted(s, k, Verbed(e.of, "fixup"))
      BY <3>2 DEF Joins
    <3>4. PICK it \in Items : it = Verbed(e.of, "fixup")
      <4>1. e.of \in Listed
        BY DEF Items, Listed
      <4> QED
        BY <4>1, VerbedMade
    <3>5. PICK r : r = Inserted(s, k, it)
      OBVIOUS
    <3>6. Squares(p2, s) /\ Last(e.of).fix /\ <<Last(e.of).subj, FALSE>> \in ToSet(Led(s))
      BY <2>3, <2>4, <2>9
    <3>7. Squares(Append(p2, e), r)
      BY <3>4, <3>5, <3>6, SquaresJoin
    <3> QED
      BY <2>1, <2>5, <3>3, <3>4, <3>5, <3>7
  <2> QED
    BY <2>8, <2>9
<1>3. SquareOn(Len(p)) /\ Len(p) \in Nat
  BY <1>1, <1>2, NumbersWellOrdered, SquareInduction!Induct DEF SquareInduction!WellOrdered
<1> QED
  BY <1>3 DEF SquareOn

LEMMA FixupsRun ==
  ASSUME NEW g \in Repositories, NEW c \in Listed, Ancestor(c, g.head),
         NEW p, p = PicksOf(g.head, Len(c) - 1),
         NEW r \in ScriptedRebase(g, c, "pick", TRUE), r.ok
  PROVE  /\ StaysPut(g, r.g)
         /\ Ran(Front(c), Autosquash(p)).stop = "none"
         /\ r.g.head = Ran(Front(c), Autosquash(p)).head
<1>1. Base(c, "pick") = Front(c)
  BY DEF Base
<1>2. g.head \in AllCommits
  BY RepoParts DEF Shapes
<1>3. Picks(g, Front(c)) = p
  BY <1>2, PicksBelow
<1>4. r \in RunTodo(Starting(g), Front(c), Autosquash(p))
  BY <1>1, <1>3 DEF ScriptedRebase, Fails
<1>5. Len(c) - 1 \in 0..Len(g.head) /\ Front(c) \in AllCommits
  <2>1. Len(c) - 1 \in 0..(Len(g.head) - 1) /\ Front(c) \in AllCommits
    BY <1>2, BelowOf
  <2>2. Len(g.head) \in Nat
    BY <1>2, CommitLen
  <2> QED
    BY <2>1, <2>2
<1>6. p \in Seq(Items) /\ OnlyPicks(p)
  BY <1>2, <1>5, PicksOfMade
<1>7. PICK s \in Seq(Items) : s = Autosquash(p) /\ Folding(s)
  BY <1>6, SquareMade DEF Squares
<1>8. \A i \in 1..Len(s) : s[i].verb # "edit"
  BY <1>7 DEF Folding
<1> QED
  BY <1>4, <1>5, <1>7, <1>8, RunsToEnd

(***************************************************************************)
(* The fixups of a part of the history are applied.                        *)
(***************************************************************************)
LEMMA MovableOver ==
  ASSUME NEW h \in Seq(Changes), NEW k \in 0..Len(h), NEW i, i = k + 1, Movable(h, i)
  PROVE  FixupsMovable(SubSeq(h, i, Len(h)))
<1>1. PICK n \in Nat : n = Len(h)
  OBVIOUS
<1>2. PICK l \in Seq(Changes) : l = SubSeq(h, i, Len(h))
  <2>1. SubSeq(h, k + 1, Len(h)) \in Seq(Changes)
    BY PartsOf
  <2> QED
    BY <2>1
<1>3. Len(l) = n - k /\ \A j \in 1..(n - k) : l[j] = h[k + j]
  <2>1. Len(SubSeq(h, k + 1, Len(h))) = Len(h) - k
        /\ \A j \in 1..(Len(h) - k) : SubSeq(h, k + 1, Len(h))[j] = h[k + j]
    BY PartsOf
  <2> QED
    BY <1>1, <1>2, <2>1
<1>4. ASSUME NEW j \in 1..(n - k), l[j].fix, NEW m \in 1..(j - 1)
      PROVE  Independent(l[m], l[j])
  <2>1. m \in 1..(n - k) /\ k + j \in i..n /\ k + m \in i..((k + j) - 1)
    BY <1>1
  <2>2. h[k + j].fix
    BY <1>3, <1>4
  <2>3. Independent(h[k + m], h[k + j])
    BY <1>1, <2>1, <2>2 DEF Movable
  <2> QED
    BY <1>3, <2>1, <2>3
<1> QED
  BY <1>2, <1>3, <1>4 DEF FixupsMovable

SquareLeft(h, i, n) == Titles(n) = Folded(h, i) /\ (Movable(h, i) => TreeOf(n) = TreeOf(h))

\* What comes of the picks p, of the commits of h from i on, on top of from.
LEMMA SquareRuns ==
  ASSUME NEW h \in AllCommits, NEW k \in 0..(Len(h) - 1), NEW p, p = PicksOf(h, k),
         NEW from \in AllCommits, from = SubSeq(h, 1, k), NEW i, i = k + 1,
         NEW n, n = Ran(from, Autosquash(p)).head, Ran(from, Autosquash(p)).stop = "none"
  PROVE  SquareLeft(h, i, n)
<1>1. k \in 0..Len(h) /\ h \in Seq(Changes)
  BY CommitLen
<1>2. /\ p \in Seq(Items) /\ OnlyPicks(p) /\ Lasts(p) = SubSeq(h, k + 1, Len(h))
  BY <1>1, PicksOfMade
<1>3. PICK s \in Seq(Items) : s = Autosquash(p) /\ Squares(p, s)
  BY <1>2, SquareMade DEF Squares
<1>4. Folding(s) /\ Ran(from, s).stop = "none" /\ n = Ran(from, s).head
  BY <1>3 DEF Squares
<1>5. Leads(from, s, n)
  BY <1>4, RunLed
<1>6. Titles(n) = Folded(h, i)
  <2>1. Titles(n) = Titles(from) \o Led(s)
    BY <1>5 DEF Leads
  <2>2. Led(s) = WithoutFixups(Titles(SubSeq(h, i, Len(h))))
    BY <1>2, <1>3 DEF Squares
  <2>3. i - 1 = k
    OBVIOUS
  <2> QED
    BY <2>1, <2>2, <2>3 DEF Folded
<1>7. ASSUME Movable(h, i) PROVE TreeOf(n) = TreeOf(h)
  <2>1. FixupsMovable(Lasts(p))
    BY <1>1, <1>2, <1>7, MovableOver
  <2>2. from \in Seq(Changes)
    BY CommitLen
  <2>3. TreeOf(from \o Lasts(s)) = TreeOf(from \o Lasts(p))
    BY <1>3, <2>1, <2>2 DEF Squares, SameTree
  <2>4. \A j \in 1..Len(s) : s[j].verb # "drop"
    BY <1>4 DEF Folding
  <2>5. TreeOf(n) = TreeOf(from \o Lasts(s))
    BY <1>4, <2>4, RunTree
  <2>6. h = SubSeq(h, 1, k) \o SubSeq(h, k + 1, Len(h))
    BY <1>1, PartsOf
  <2>7. from \o Lasts(p) = h
    BY <1>2, <2>6
  <2> QED
    BY <2>3, <2>5, <2>7
<1> QED
  BY <1>6, <1>7 DEF SquareLeft

LEMMA FixupsAs ==
  ASSUME NEW g \in Repositories, NEW c \in Listed, Ancestor(c, g.head),
         NEW r \in ScriptedRebase(g, c, "pick", TRUE), r.ok
  PROVE  /\ StaysPut(g, r.g)
         /\ Titles(r.g.head) = Folded(g.head, Len(c))
         /\ Movable(g.head, Len(c)) => TreeOf(r.g.head) = TreeOf(g.head)
<1>1. PICK h \in AllCommits : h = g.head
  BY RepoParts DEF Shapes
<1>2. PICK p : p = PicksOf(g.head, Len(c) - 1)
  OBVIOUS
<1>3. /\ StaysPut(g, r.g) /\ Ran(Front(c), Autosquash(p)).stop = "none"
      /\ r.g.head = Ran(Front(c), Autosquash(p)).head
  BY <1>2, FixupsRun
<1>4. /\ Len(c) - 1 \in 0..(Len(h) - 1) /\ Front(c) = SubSeq(h, 1, Len(c) - 1)
      /\ Front(c) \in AllCommits /\ Len(c) \in 1..Len(h)
  BY <1>1, BelowOf
<1>5. PICK k \in 0..(Len(h) - 1) : k = Len(c) - 1 /\ Len(c) = k + 1
  <2>1. Len(h) \in Nat
    BY CommitLen
  <2> QED
    BY <1>4, <2>1
<1>6. PICK from \in AllCommits : from = SubSeq(h, 1, k) /\ from = Front(c)
  BY <1>4, <1>5
<1>7. PICK i : i = Len(c) /\ i = k + 1
  BY <1>5
<1>8. PICK n : n = r.g.head
  OBVIOUS
<1>9. Ran(from, Autosquash(p)).stop = "none" /\ n = Ran(from, Autosquash(p)).head
      /\ p = PicksOf(h, k)
  BY <1>1, <1>2, <1>3, <1>5, <1>6, <1>8
<1>10. SquareLeft(h, i, n)
  BY <1>6, <1>7, <1>9, SquareRuns
<1> QED
  BY <1>1, <1>3, <1>7, <1>8, <1>10 DEF SquareLeft

(***************************************************************************)
(* The staged changes are made a fixup of a commit, and go into it.        *)
(***************************************************************************)
OneOn(n) ==
    \A s \in Seq(Items) :
        Len(s) = n /\ n > 0 /\ s[1].verb # "fixup" /\ (\A j \in 2..n : s[j].verb = "fixup") =>
            Len(Led(s)) = 1

OneInduction == INSTANCE Induction WITH P <- OneOn, Op <- Leading

\* One commit comes of an item and its fixups.
LEMMA LedOne ==
  ASSUME NEW s \in Seq(Items), Len(s) > 0, s[1].verb # "fixup",
         \A j \in 2..Len(s) : s[j].verb = "fixup"
  PROVE  Len(Led(s)) = 1
<1>1. OneOn(0)
  BY DEF OneOn
<1>2. \A n \in Nat : OneOn(n) => OneOn(n + 1)
  <2> SUFFICES ASSUME NEW n \in Nat, OneOn(n), NEW z \in Seq(Items), Len(z) = n + 1,
                      z[1].verb # "fixup", \A j \in 2..(n + 1) : z[j].verb = "fixup"
               PROVE  Len(Led(z)) = 1
    BY DEF OneOn
  <2>1. PICK q \in Seq(Items), e \in Items : z = Append(q, e) /\ Len(q) = n
    BY SeqSplit
  <2>2. PICK l \in Seq(Titled) : l = Led(q)
    BY <2>1, LedMade
  <2>3. Led(z) = Leading(l, e)
    BY <2>1, <2>2, LedAppend
  <2>4. z[n + 1] = e /\ \A i \in 1..n : z[i] = q[i]
    BY <2>1
  <2>5. CASE n = 0
    <3>1. e.verb # "fixup" /\ q = <<>>
      BY <2>1, <2>4, <2>5
    <3>2. PICK t \in Titled : t = <<Last(e.of).subj, Last(e.of).fix>>
      BY TitleOfItem
    <3>3. Led(z) = Append(l, t)
      BY <2>3, <3>1, <3>2 DEF Leading
    <3>4. l = <<>>
      BY <2>2, <3>1, LedEmpty
    <3> QED
      BY <3>3, <3>4
  <2>6. CASE n # 0
    <3>1. 1 \in 1..n /\ n > 0 /\ n + 1 \in 2..(n + 1) /\ \A j \in 2..n : j \in 1..n /\ j \in 2..(n + 1)
      BY <2>6
    <3>2. e.verb = "fixup"
      BY <2>4, <3>1
    <3>3. q[1].verb # "fixup" /\ \A j \in 2..n : q[j].verb = "fixup"
      BY <2>4, <3>1
    <3>4. Len(Led(q)) = 1
      BY <2>1, <3>1, <3>3 DEF OneOn
    <3>5. Led(z) = l
      BY <2>3, <3>2 DEF Leading
    <3> QED
      BY <2>2, <3>4, <3>5
  <2> QED
    BY <2>5, <2>6
<1>3. \A n \in Nat : OneOn(n)
  BY <1>1, <1>2, NumbersWellOrdered, OneInduction!Induct DEF OneInduction!WellOrdered
<1>4. PICK n \in Nat : n = Len(s)
  OBVIOUS
<1>5. OneOn(n)
  BY <1>3
<1> QED
  BY <1>4, <1>5 DEF OneOn

LEMMA AboveStarts ==
  ASSUME NEW from \in AllCommits, NEW r, Above(r, from)
  PROVE  SubSeq(r, 1, Len(from)) = from
<1>1. PICK n \in Nat : n = Len(from) /\ from \in Seq(Changes)
  BY CommitLen
<1>2. r \in Seq(Changes) /\ Len(r) \in Nat /\ Len(r) >= n /\ \A i \in 1..n : r[i] = from[i]
  BY <1>1, CommitLen DEF Above
<1>3. n \in 0..Len(r)
  BY <1>1, <1>2
<1>4. PICK q \in Seq(Changes) : q = SubSeq(r, 1, n)
  <2>1. SubSeq(r, 1, n) \in Seq(Changes)
    BY <1>2, <1>3, PartsOf
  <2> QED
    BY <2>1
<1>5. Len(q) = n /\ \A i \in 1..n : q[i] = r[i]
  BY <1>2, <1>3, <1>4, PartsOf
<1>6. q = from
  BY <1>1, <1>2, <1>5, SeqEqual
<1> QED
  BY <1>1, <1>4, <1>6

\* What a fixup adds is in the commit it has been put after.
LEMMA PutThere ==
  ASSUME NEW from \in AllCommits, NEW s \in Seq(Items), Folding(s), NEW k \in 1..Len(s),
         FixupsTo(s, k), NEW it \in Items, it.verb = "fixup",
         NEW n, n = Ran(from, Inserted(s, k, it)).head, Ran(from, Inserted(s, k, it)).stop = "none"
  PROVE  Last(it.of).add \subseteq TreeOf(SubSeq(n, 1, Len(from) + 1))
<1>1. PICK a \in Seq(Items), b \in Seq(Items) : Around(s, k, it, a, b)
  BY InsertedParts
<1>2. PICK m \in Nat : m = Len(s) /\ k \in 1..m
  OBVIOUS
<1>3. /\ Len(a) = k /\ Len(b) = m - k
      /\ \A i \in 1..k : a[i] = s[i]
      /\ \A i \in 1..(m - k) : b[i] = s[k + i]
  BY <1>1, <1>2 DEF Around
<1>4. PICK x \in Seq(Items) : x = Append(a, it)
  <2>1. Append(a, it) \in Seq(Items)
    OBVIOUS
  <2> QED
    BY <2>1
<1>5. Inserted(s, k, it) = x \o b
  BY <1>1, <1>4 DEF Around
<1>6. Len(x) = k + 1 /\ x[k + 1] = it /\ \A i \in 1..k : x[i] = s[i]
  BY <1>3, <1>4
<1>7. Ran(from, x \o b).stop = "none" /\ n = Ran(from, x \o b).head
  BY <1>5
<1>8. /\ Ran(from, x).stop = "none" /\ Ran(from, x).head \in AllCommits
      /\ Ran(from, x \o b) = Ran(Ran(from, x).head, b)
  BY <1>7, RunsOn
<1>9. PICK d \in AllCommits : d = Ran(from, x).head
  BY <1>8
<1>10. s[1].verb = "pick" /\ \A i \in 1..m : s[i].verb \in {"pick", "fixup"}
  <2>1. m > 0
    BY <1>2
  <2> QED
    BY <1>2, <2>1 DEF Folding
<1>11. 1 \in 1..k /\ (\A i \in 1..k : i \in 1..m) /\ (\A i \in 1..(k + 1) : i \in 1..k \/ i = k + 1)
  BY <1>2
<1>12. Folding(x)
  <2>1. \A i \in 1..(k + 1) : x[i].verb \in {"pick", "fixup"}
    BY <1>6, <1>10, <1>11
  <2>2. x[1].verb = "pick"
    BY <1>6, <1>10, <1>11
  <2> QED
    BY <1>6, <2>1, <2>2 DEF Folding
<1>13. Len(Led(x)) = 1
  <2>1. \A j \in 2..k : s[j].verb = "fixup"
    BY DEF FixupsTo
  <2>2. \A j \in 2..(k + 1) : x[j].verb = "fixup"
    <3> TAKE j \in 2..(k + 1)
    <3>1. CASE j = k + 1
      BY <3>1, <1>6
    <3>2. CASE j # k + 1
      <4>1. j \in 2..k /\ j \in 1..k
        BY <3>2, <1>2
      <4> QED
        BY <4>1, <2>1, <1>6
    <3> QED
      BY <3>1, <3>2
  <2>3. x[1].verb # "fixup" /\ Len(x) > 0
    BY <1>2, <1>6, <1>10, <1>11
  <2> QED
    BY <1>6, <2>2, <2>3, LedOne
<1>14. Len(d) = Len(from) + 1
  <2>1. Leads(from, x, d)
    BY <1>8, <1>9, <1>12, RunLed
  <2>2. Titles(d) = Titles(from) \o Led(x)
    BY <2>1 DEF Leads
  <2>3. d \in Seq(Changes) /\ from \in Seq(Changes)
    BY CommitLen
  <2>4. Len(Titles(d)) = Len(d) /\ Len(Titles(from)) = Len(from) /\ Titles(from) \in Seq(Titled)
    BY <2>3, TitlesMade
  <2>5. PICK tf \in Seq(Titled), tx \in Seq(Titled) : tf = Titles(from) /\ tx = Led(x)
    BY <2>4, LedMade
  <2>6. Len(tf \o tx) = Len(tf) + Len(tx)
    BY ConcatProperties
  <2> QED
    BY <1>13, <2>2, <2>4, <2>5, <2>6
<1>15. Last(it.of).add \subseteq TreeOf(d)
  <2>1. Ran(from, Append(a, it)).stop = "none"
    BY <1>4, <1>8
  <2>2. \E w \in Runs : /\ w = Ran(from, a) /\ Halted(w) /\ w.head \in AllCommits
                        /\ w.stop = "none"
                        /\ Ran(from, Append(a, it)) = Item(w, it) /\ Item(w, it).stop = "none"
    BY <2>1, RunLast
  <2>3. PICK w \in Runs : /\ Halted(w)
                          /\ Ran(from, Append(a, it)) = Item(w, it) /\ Item(w, it).stop = "none"
    BY <2>2
  <2>4. it.verb # "drop"
    OBVIOUS
  <2>5. TreeOf(Item(w, it).head) = After(TreeOf(w.head), Last(it.of))
    BY <2>3, <2>4, ItemDone
  <2>6. TreeOf(d) = After(TreeOf(w.head), Last(it.of))
    BY <1>4, <1>9, <2>3, <2>5
  <2>7. Last(it.of).add \intersect Last(it.of).del = {}
    BY ItemApart
  <2> QED
    BY <2>6, <2>7 DEF After
<1>16. Folding(b)
  <2>1. \A i \in 1..(m - k) : b[i].verb \in {"pick", "fixup"}
    <3> TAKE i \in 1..(m - k)
    <3>1. k + i \in 1..m
      BY <1>2
    <3> QED
      BY <3>1, <1>3, <1>10
  <2>2. ASSUME m - k > 0 PROVE b[1].verb = "pick"
    <3>1. k < Len(s) /\ 1 \in 1..(m - k) /\ k + 1 \in 1..m
      BY <1>2, <2>2
    <3>2. s[k + 1].verb # "fixup"
      BY <3>1 DEF FixupsTo
    <3> QED
      BY <1>3, <1>10, <3>1, <3>2
  <2> QED
    BY <1>3, <2>1, <2>2 DEF Folding
<1>17. Above(n, d)
  <2>1. Ran(d, b).stop = "none" /\ n = Ran(d, b).head
    BY <1>7, <1>8, <1>9
  <2>2. Leads(d, b, Ran(d, b).head)
    BY <1>16, <2>1, RunLed
  <2> QED
    BY <2>1, <2>2 DEF Leads
<1>18. SubSeq(n, 1, Len(d)) = d
  BY <1>17, AboveStarts
<1> QED
  BY <1>14, <1>15, <1>18

\* The parts of a history with one more commit.
LEMMA PartAdd ==
  ASSUME NEW h \in Seq(Changes), NEW ch \in Changes, NEW f \in Seq(Changes), f = Append(h, ch),
         NEW j \in 0..Len(h)
  PROVE  /\ SubSeq(f, 1, j) = SubSeq(h, 1, j)
         /\ SubSeq(f, j + 1, Len(f)) = Append(SubSeq(h, j + 1, Len(h)), ch)
<1>1. PICK n \in Nat : n = Len(h)
  OBVIOUS
<1>2. Len(f) = n + 1 /\ f[n + 1] = ch /\ \A i \in 1..n : f[i] = h[i]
  BY <1>1
<1>3. j \in 0..n /\ j \in 0..(n + 1) /\ j \in 0..Len(f)
  BY <1>1, <1>2
<1>4. PICK a \in Seq(Changes), b \in Seq(Changes) :
        a = SubSeq(h, 1, j) /\ b = SubSeq(h, j + 1, Len(h))
  <2>1. SubSeq(h, 1, j) \in Seq(Changes) /\ SubSeq(h, j + 1, Len(h)) \in Seq(Changes)
    BY PartsOf
  <2> QED
    BY <2>1
<1>5. /\ Len(a) = j /\ Len(b) = n - j
      /\ \A i \in 1..j : a[i] = h[i]
      /\ \A i \in 1..(n - j) : b[i] = h[j + i]
  BY <1>1, <1>4, PartsOf
<1>6. PICK u \in Seq(Changes), v \in Seq(Changes) :
        u = SubSeq(f, 1, j) /\ v = SubSeq(f, j + 1, Len(f))
  <2>1. SubSeq(f, 1, j) \in Seq(Changes) /\ SubSeq(f, j + 1, Len(f)) \in Seq(Changes)
    BY <1>3, PartsOf
  <2> QED
    BY <2>1
<1>7. /\ Len(u) = j /\ Len(v) = (n + 1) - j
      /\ \A i \in 1..j : u[i] = f[i]
      /\ \A i \in 1..((n + 1) - j) : v[i] = f[j + i]
  <2>1. /\ Len(u) = j /\ Len(v) = Len(f) - j
        /\ \A i \in 1..j : u[i] = f[i]
        /\ \A i \in 1..(Len(f) - j) : v[i] = f[j + i]
    BY <1>3, <1>6, PartsOf
  <2> QED
    BY <1>2, <2>1
<1>8. u = a
  <2>1. \A i \in 1..j : i \in 1..n
    BY <1>3
  <2>2. \A i \in 1..j : u[i] = a[i]
    BY <1>2, <1>5, <1>7, <2>1
  <2> QED
    BY <1>5, <1>7, <2>2, SeqEqual
<1>9. PICK w \in Seq(Changes) : w = Append(b, ch)
  <2>1. Append(b, ch) \in Seq(Changes)
    OBVIOUS
  <2> QED
    BY <2>1
<1>10. PICK m \in Nat : m = n - j /\ (n + 1) - j = m + 1
  <2>1. n - j \in Nat /\ (n + 1) - j = (n - j) + 1
    BY <1>3
  <2> QED
    BY <2>1
<1>11. Len(w) = m + 1 /\ w[m + 1] = ch /\ \A i \in 1..m : w[i] = b[i]
  BY <1>5, <1>9, <1>10
<1>12. \A i \in 1..(m + 1) : v[i] = w[i]
  <2> TAKE i \in 1..(m + 1)
  <2>1. v[i] = f[j + i]
    BY <1>7, <1>10
  <2>2. CASE i = m + 1
    <3>1. j + i = n + 1
      BY <1>3, <1>10, <2>2
    <3> QED
      BY <1>2, <1>11, <2>1, <2>2, <3>1
  <2>3. CASE i # m + 1
    <3>1. i \in 1..m /\ j + i \in 1..n /\ i \in 1..(n - j)
      BY <1>3, <1>10, <2>3
    <3> QED
      BY <1>2, <1>5, <1>11, <2>1, <3>1
  <2> QED
    BY <2>2, <2>3
<1>13. v = w
  BY <1>7, <1>10, <1>11, <1>12, SeqEqual
<1> QED
  BY <1>4, <1>6, <1>8, <1>9, <1>13

LEMMA PicksAdd ==
  ASSUME NEW h \in AllCommits, NEW ch \in Changes, NEW f \in AllCommits, f = Append(h, ch),
         NEW k \in 0..Len(h)
  PROVE  /\ f \in Listed /\ Pick(f) \in Items /\ Last(f) = ch
         /\ PicksOf(f, k) = Append(PicksOf(h, k), Pick(f))
<1>0. h \in Seq(Changes) /\ f \in Seq(Changes)
  BY CommitLen
<1>1. PICK n \in Nat : n = Len(h)
  BY CommitLen
<1>2. Len(f) = n + 1 /\ f # <<>> /\ Last(f) = ch
  BY <1>0, <1>1, FrontOfAppend
<1>3. f \in Listed
  BY <1>2 DEF Listed
<1>4. PICK e \in Items : e = Pick(f)
  BY <1>3, VerbedMade
<1>5. k \in 0..n /\ k \in 0..Len(f)
  BY <1>1, <1>2
<1>6. PICK p \in Seq(Items) : p = PicksOf(h, k)
  BY PicksOfMade
<1>7. Len(p) = n - k /\ \A i \in 1..(n - k) : p[i] = Pick(SubSeq(h, 1, k + i))
  BY <1>1, <1>6, PicksOfMade
<1>8. PICK p2 \in Seq(Items) : p2 = PicksOf(f, k)
  BY <1>5, PicksOfMade
<1>9. Len(p2) = (n + 1) - k /\ \A i \in 1..((n + 1) - k) : p2[i] = Pick(SubSeq(f, 1, k + i))
  <2>1. Len(p2) = Len(f) - k /\ \A i \in 1..(Len(f) - k) : p2[i] = Pick(SubSeq(f, 1, k + i))
    BY <1>5, <1>8, PicksOfMade
  <2> QED
    BY <1>2, <2>1
<1>10. PICK m \in Nat : m = n - k /\ (n + 1) - k = m + 1
  <2>1. n - k \in Nat /\ (n + 1) - k = (n - k) + 1
    BY <1>5
  <2> QED
    BY <2>1
<1>11. PICK w \in Seq(Items) : w = Append(p, e)
  <2>1. Append(p, e) \in Seq(Items)
    OBVIOUS
  <2> QED
    BY <2>1
<1>12. Len(w) = m + 1 /\ w[m + 1] = e /\ \A i \in 1..m : w[i] = p[i]
  <2>1. m = Len(p)
    BY <1>7, <1>10
  <2> QED
    BY <2>1, <1>11
<1>13. \A i \in 1..(m + 1) : p2[i] = w[i]
  <2> TAKE i \in 1..(m + 1)
  <2>1. p2[i] = Pick(SubSeq(f, 1, k + i))
    BY <1>9, <1>10
  <2>2. CASE i = m + 1
    <3>1. k + i = Len(f)
      BY <1>2, <1>5, <1>10, <2>2
    <3>2. SubSeq(f, 1, Len(f)) = f
      BY <1>0, SubSeqFull
    <3> QED
      BY <1>4, <1>12, <2>1, <2>2, <3>1, <3>2
  <2>3. CASE i # m + 1
    <3>1. i \in 1..m /\ k + i \in 0..Len(h) /\ i \in 1..(n - k)
      BY <1>1, <1>5, <1>10, <2>3
    <3>2. SubSeq(f, 1, k + i) = SubSeq(h, 1, k + i)
      BY <1>0, <3>1, PartAdd
    <3> QED
      BY <1>7, <1>12, <2>1, <3>1, <3>2
  <2> QED
    BY <2>2, <2>3
<1>14. p2 = w
  <2>1. Len(p2) = m + 1 /\ Len(w) = m + 1
    BY <1>9, <1>10, <1>12
  <2> QED
    BY <1>13, <2>1, SeqEqual
<1> QED
  BY <1>2, <1>3, <1>4, <1>6, <1>8, <1>11, <1>14

LEMMA MeltMade ==
  ASSUME NEW p \in Seq(Items), OnlyPicks(p)
  PROVE  WithoutFixups(Titles(Lasts(p))) = Led(Autosquash(p))
         /\ WithoutFixups(Titles(Lasts(p))) \in Seq(Titled)
<1>1. Squares(p, Autosquash(p))
  BY SquareMade
<1>2. PICK s \in Seq(Items) : s = Autosquash(p)
  BY <1>1 DEF Squares
<1>3. Led(s) \in Seq(Titled)
  BY LedMade
<1> QED
  BY <1>1, <1>2, <1>3 DEF Squares

MoreFolded(h, ch, f, i, w) ==
    /\ w \in Seq(Titled)
    /\ ch.fix /\ <<ch.subj, FALSE>> \in ToSet(w) => Folded(f, i) = Folded(h, i)
    /\ SubSeq(Folded(f, i), 1, Len(Folded(h, i))) = Folded(h, i)

\* One more commit, a fixup of what is there, or any other.
LEMMA FoldedMore ==
  ASSUME NEW h \in AllCommits, NEW ch \in Changes, NEW f \in AllCommits, f = Append(h, ch),
         NEW k \in 0..Len(h), NEW i, i = k + 1,
         NEW w, w = WithoutFixups(Titles(SubSeq(h, i, Len(h))))
  PROVE  MoreFolded(h, ch, f, i, w)
<1>0. h \in Seq(Changes) /\ f \in Seq(Changes) /\ i - 1 = k
  BY CommitLen
<1>1. SubSeq(f, 1, k) = SubSeq(h, 1, k)
      /\ SubSeq(f, i, Len(f)) = Append(SubSeq(h, i, Len(h)), ch)
  BY <1>0, PartAdd
<1>2. PICK l \in Seq(Changes) : l = SubSeq(h, i, Len(h))
  <2>1. SubSeq(h, k + 1, Len(h)) \in Seq(Changes)
    BY <1>0, PartsOf
  <2> QED
    BY <2>1
<1>3. w \in Seq(Titled)
  <2>1. PICK p \in Seq(Items) : p = PicksOf(h, k) /\ OnlyPicks(p) /\ Lasts(p) = SubSeq(h, k + 1, Len(h))
    BY PicksOfMade
  <2>2. WithoutFixups(Titles(Lasts(p))) \in Seq(Titled)
    BY <2>1, MeltMade
  <2> QED
    BY <2>1, <2>2
<1>4. PICK t \in Titled : t = <<ch.subj, ch.fix>> /\ Titles(Append(l, ch)) = Append(Titles(l), t)
  BY TitlesAppend
<1>5. Titles(l) \in Seq(Titled)
  BY TitlesMade
<1>6. WithoutFixups(Append(Titles(l), t)) = FoldedInto(w, t)
  BY <1>2, <1>5, MeltAppend
<1>7. PICK a \in Seq(Titled) : a = Titles(SubSeq(h, 1, k))
  <2>1. SubSeq(h, 1, k) \in Seq(Changes)
    BY <1>0, PartsOf
  <2> QED
    BY <2>1, TitlesMade
<1>8. Folded(h, i) = a \o w /\ Folded(f, i) = a \o FoldedInto(w, t)
  BY <1>0, <1>1, <1>2, <1>4, <1>6, <1>7 DEF Folded
<1>9. PICK b \in Seq(Titled) : b = a \o w
  <2>1. a \o w \in Seq(Titled)
    BY <1>3, ConcatProperties
  <2> QED
    BY <2>1
<1>10. FoldedInto(w, t) = w \/ FoldedInto(w, t) = Append(w, t)
  BY DEF FoldedInto
<1>11. a \o Append(w, t) = Append(b, t)
  BY <1>3, <1>9, ConcatAppend
<1>12. SubSeq(b, 1, Len(b)) = b
  BY SubSeqFull
<1>13. SubSeq(Append(b, t), 1, Len(b)) = b
  <2>1. PICK n \in Nat : n = Len(b)
    OBVIOUS
  <2>2. PICK u \in Seq(Titled) : u = Append(b, t)
    <3>1. Append(b, t) \in Seq(Titled)
      OBVIOUS
    <3> QED
      BY <3>1
  <2>3. Len(u) = n + 1 /\ \A j \in 1..n : u[j] = b[j]
    BY <2>1, <2>2
  <2>4. n \in 0..Len(u)
    BY <2>3
  <2>5. PICK v \in Seq(Titled) : v = SubSeq(u, 1, n)
    <3>1. SubSeq(u, 1, n) \in Seq(Titled)
      BY <2>4, PartsOf
    <3> QED
      BY <3>1
  <2>6. Len(v) = n /\ \A j \in 1..n : v[j] = u[j]
    BY <2>4, <2>5, PartsOf
  <2>7. v = b
    BY <2>1, <2>3, <2>6, SeqEqual
  <2> QED
    BY <2>1, <2>2, <2>5, <2>7
<1>14. SubSeq(Folded(f, i), 1, Len(Folded(h, i))) = Folded(h, i)
  BY <1>8, <1>9, <1>10, <1>11, <1>12, <1>13
<1>15. ASSUME ch.fix, <<ch.subj, FALSE>> \in ToSet(w) PROVE Folded(f, i) = Folded(h, i)
  <2>1. t[1] = ch.subj /\ t[2] = ch.fix
    BY <1>4
  <2>2. FoldedInto(w, t) = w
    BY <1>15, <2>1 DEF FoldedInto
  <2> QED
    BY <1>8, <2>2
<1> QED
  BY <1>3, <1>14, <1>15 DEF MoreFolded

FixupLeft(h, i, made, n) ==
    /\ IF h[i].fix THEN SubSeq(Titles(n), 1, Len(Folded(h, i))) = Folded(h, i)
       ELSE Titles(n) = Folded(h, i) /\ made.add \subseteq TreeOf(SubSeq(n, 1, i))
    /\ Movable(Append(h, made), i) => TreeOf(n) = TreeOf(Append(h, made))

FixedUp(h, made, f, i, n) ==
    Folded(f, i) = Folded(h, i) /\ made.add \subseteq TreeOf(SubSeq(n, 1, i))

\* A fixup of the commit above the first k of h is made, and moved there.
LEMMA FixupRuns ==
  ASSUME NEW h \in AllCommits, NEW made \in Changes, NEW f \in AllCommits, f = Append(h, made),
         NEW k \in 0..(Len(h) - 1), NEW i, i = k + 1,
         made.fix, made.subj = h[i].subj, ~h[i].fix,
         NEW from \in AllCommits, from = SubSeq(h, 1, k),
         NEW p, p = PicksOf(f, k),
         NEW n, n = Ran(from, Autosquash(p)).head, Ran(from, Autosquash(p)).stop = "none"
  PROVE  FixedUp(h, made, f, i, n)
<1>1. k \in 0..Len(h) /\ h \in Seq(Changes) /\ Len(h) \in Nat /\ i \in 1..Len(h)
  BY CommitLen
<1>2. PICK q \in Seq(Items) : /\ q = PicksOf(h, k) /\ OnlyPicks(q) /\ Len(q) = Len(h) - k
                              /\ Lasts(q) = SubSeq(h, k + 1, Len(h))
                              /\ \A j \in 1..(Len(h) - k) : q[j] = Pick(SubSeq(h, 1, k + j))
  BY <1>1, PicksOfMade
<1>3. PICK e \in Items : e = Pick(f) /\ Last(f) = made /\ p = Append(q, e)
  BY <1>1, <1>2, PicksAdd
<1>4. e.of = f /\ Last(e.of) = made
  BY <1>3 DEF Pick
<1>5. PICK s \in Seq(Items) : s = Autosquash(q) /\ Squares(q, s)
  BY <1>2, SquareMade DEF Squares
<1>6. Autosquash(p) = Squashed(s, e)
  BY <1>2, <1>3, <1>5, SquashAppend
<1>7. Len(q) > 0 /\ 1 \in 1..(Len(h) - k)
  BY <1>1, <1>2
<1>8. Len(s) > 0 /\ s[1] = Pick(SubSeq(h, 1, i))
  <2>1. Len(s) > 0 /\ s[1] = q[1]
    BY <1>5, <1>7 DEF Squares, Starts
  <2> QED
    BY <1>2, <1>7, <2>1
<1>9. Last(s[1].of) = h[i]
  <2>1. Last(SubSeq(h, 1, i)) = h[i]
    BY <1>1, PartOfCommit
  <2> QED
    BY <1>8, <2>1 DEF Pick
<1>10. Fit(s, e, 1) /\ 1 \in 1..Len(s)
  BY <1>4, <1>8, <1>9 DEF Fit
<1>11. Joins(s, e, Squashed(s, e))
  BY <1>4, <1>10, SquashedAs
<1>12. PICK x \in 1..Len(s) : Squashed(s, e) = Inserted(s, x, Verbed(e.of, "fixup")) /\ FixupsTo(s, x)
  BY <1>10, <1>11 DEF Joins
<1>13. PICK it \in Items : it = Verbed(e.of, "fixup") /\ it.verb = "fixup" /\ Last(it.of) = made
  <2>1. e.of \in Listed
    BY DEF Items, Listed
  <2>2. Verbed(e.of, "fixup") \in Items
    BY <2>1, VerbedMade
  <2> QED
    BY <1>4, <2>2 DEF Verbed
<1>14. Folding(s)
  BY <1>5 DEF Squares
<1>15. Last(it.of).add \subseteq TreeOf(SubSeq(n, 1, Len(from) + 1))
  <2>1. n = Ran(from, Inserted(s, x, it)).head /\ Ran(from, Inserted(s, x, it)).stop = "none"
    BY <1>6, <1>12, <1>13
  <2> QED
    BY <1>12, <1>13, <1>14, <2>1, PutThere
<1>16. Len(from) = k
  BY <1>1, PartsOf
<1>17. Folded(f, i) = Folded(h, i)
  <2>1. <<made.subj, FALSE>> \in ToSet(Led(s))
    <3>1. Fixes(s)
      BY <1>5 DEF Squares
    <3>2. \A j \in 1..Len(s) : s[j].verb = "fixup" => Last(s[j].of).fix
      BY <3>1 DEF Fixes
    <3>3. (\E j \in 1..Len(s) : Fit(s, e, j)) <=> <<Last(e.of).subj, FALSE>> \in ToSet(Led(s))
      BY <3>2, FitShows
    <3> QED
      BY <1>4, <1>10, <3>3
  <2>2. PICK w : w = WithoutFixups(Titles(SubSeq(h, i, Len(h))))
    OBVIOUS
  <2>3. w = Led(s)
    BY <1>2, <1>5, <2>2 DEF Squares
  <2>4. MoreFolded(h, made, f, i, w)
    BY <1>1, <2>2, FoldedMore
  <2> QED
    BY <2>1, <2>3, <2>4 DEF MoreFolded
<1> QED
  BY <1>13, <1>15, <1>16, <1>17 DEF FixedUp

LEMMA FixupAs ==
  ASSUME NEW g \in Repositories, NEW h \in AllCommits, NEW made \in Changes,
         g.head = Append(h, made), NEW c \in Listed, Ancestor(c, h),
         made.fix, made.subj = Last(c).subj,
         NEW r \in ScriptedRebase(g, c, "pick", TRUE), r.ok
  PROVE  StaysPut(g, r.g) /\ FixupLeft(h, Len(c), made, r.g.head)
<1>1. PICK f \in AllCommits : f = g.head /\ f = Append(h, made)
  BY RepoParts DEF Shapes
<1>2. c \in AllCommits /\ h \in Seq(Changes) /\ f \in Seq(Changes) /\ Len(h) \in Nat
  BY CommitLen DEF Listed
<1>3. Ancestor(h, f) /\ Len(f) = Len(h) + 1
  BY <1>1, AncestorOfNext
<1>4. Ancestor(c, g.head)
  BY <1>1, <1>2, <1>3, AncestorOn
<1>5. PICK p : p = PicksOf(g.head, Len(c) - 1)
  OBVIOUS
<1>6. /\ StaysPut(g, r.g) /\ Ran(Front(c), Autosquash(p)).stop = "none"
      /\ r.g.head = Ran(Front(c), Autosquash(p)).head
  BY <1>4, <1>5, FixupsRun
<1>7. /\ Len(c) - 1 \in 0..(Len(h) - 1) /\ Front(c) = SubSeq(h, 1, Len(c) - 1)
      /\ Front(c) \in AllCommits /\ Len(c) \in 1..Len(h) /\ Last(c) = h[Len(c)]
  BY BelowOf
<1>8. PICK k \in 0..(Len(h) - 1) : k = Len(c) - 1 /\ Len(c) = k + 1
  BY <1>2, <1>7
<1>9. k \in 0..(Len(f) - 1) /\ k \in 0..Len(h)
  BY <1>2, <1>3
<1>10. PICK from \in AllCommits : from = SubSeq(h, 1, k) /\ from = Front(c)
  BY <1>7, <1>8
<1>11. from = SubSeq(f, 1, k)
  BY <1>1, <1>2, <1>9, <1>10, PartAdd
<1>12. PICK i : i = Len(c) /\ i = k + 1
  BY <1>8
<1>13. PICK n : n = r.g.head
  OBVIOUS
<1>14. Ran(from, Autosquash(p)).stop = "none" /\ n = Ran(from, Autosquash(p)).head
       /\ p = PicksOf(f, k)
  BY <1>1, <1>5, <1>6, <1>8, <1>10, <1>13
<1>15. SquareLeft(f, i, n)
  BY <1>9, <1>11, <1>12, <1>14, SquareRuns
<1>16. Titles(n) = Folded(f, i) /\ (Movable(f, i) => TreeOf(n) = TreeOf(f))
  BY <1>15 DEF SquareLeft
<1>17. SubSeq(Folded(f, i), 1, Len(Folded(h, i))) = Folded(h, i)
  <2>1. PICK w : w = WithoutFixups(Titles(SubSeq(h, i, Len(h))))
    OBVIOUS
  <2>2. MoreFolded(h, made, f, i, w)
    BY <1>1, <1>9, <1>12, <2>1, FoldedMore
  <2> QED
    BY <2>2 DEF MoreFolded
<1>18. ASSUME ~h[i].fix PROVE Folded(f, i) = Folded(h, i) /\ made.add \subseteq TreeOf(SubSeq(n, 1, i))
  <2>1. made.subj = h[i].subj
    BY <1>7, <1>12
  <2>2. FixedUp(h, made, f, i, n)
    BY <1>1, <1>10, <1>12, <1>14, <1>18, <2>1, FixupRuns
  <2> QED
    BY <2>2 DEF FixedUp
<1>19. FixupLeft(h, i, made, n)
  BY <1>1, <1>16, <1>17, <1>18 DEF FixupLeft
<1> QED
  BY <1>6, <1>12, <1>13, <1>19

(***************************************************************************)
(* Amending.                                                               *)
(***************************************************************************)
\* The same commit, by the user.
Signed(c) == Append(Front(c), [Last(c) EXCEPT !.by = "us"])

LEMMA SignedMade ==
  ASSUME NEW c \in Listed
  PROVE  /\ Signed(c) \in AllCommits /\ Signed(c) # <<>> /\ TreeOf(Signed(c)) = TreeOf(c)
         /\ [Last(c) EXCEPT !.by = "us"] \in Changes
<1>1. c \in AllCommits /\ c # <<>>
  BY DEF Listed
<1>2. PICK k \in Changes : k = Last(c)
  BY <1>1, CommitLast
<1>3. PICK l : l = [k EXCEPT !.by = "us"]
  OBVIOUS
<1>4. l \in Changes /\ l.add = k.add /\ l.del = k.del
  BY <1>3 DEF Changes
<1>5. /\ Append(Front(c), l) \in AllCommits /\ Append(Front(c), l) # <<>>
      /\ TreeOf(Append(Front(c), l)) = TreeOf(c)
  BY <1>1, <1>2, <1>4, Relabelled
<1> QED
  BY <1>2, <1>3, <1>4, <1>5 DEF Signed

LEMMA AmendAs ==
  ASSUME NEW g \in Repositories, NEW r \in AmendAttributes(g), r.ok
  PROVE  /\ g.head \in Listed /\ r.g.head = Signed(g.head) /\ Steps(g, r.g)
         /\ r.g.index = g.index /\ r.g.tree = g.tree
<1>1. PICK h \in AllCommits : h = g.head
  BY RepoParts DEF Shapes
<1>2. r \notin Fails(g)
  BY FailsAre
<1>3. h # <<>> /\ r \in Done(Moved(g, Signed(h)))
  BY <1>1, <1>2 DEF AmendAttributes, Signed
<1>4. h \in Listed
  BY <1>3 DEF Listed
<1>5. PICK c \in AllCommits : c = Signed(h)
  BY <1>4, SignedMade
<1>6. PICK m : m = Moved(g, c)
  OBVIOUS
<1>7. r.g = m
  BY <1>3, <1>5, <1>6 DEF Done
<1>8. IsMoved(g, m, c) /\ m.index = g.index /\ m.tree = g.tree
  BY <1>6, OnItsBranch, MovedMade
<1>9. Steps(g, r.g)
  BY AmendMade
<1> QED
  BY <1>1, <1>4, <1>5, <1>7, <1>8, <1>9 DEF IsMoved

\* In its place, below what is above it.
LEMMA SignedBelow ==
  ASSUME NEW h \in AllCommits, NEW c \in Listed, Ancestor(c, h)
  PROVE  Signed(c) \o Over(h, c) = [h EXCEPT ![Len(c)].by = "us"]
<1>1. PICK n \in Nat : n = Len(c)
  BY CommitLen DEF Listed
<1>2. /\ c \in AllCommits /\ c # <<>> /\ Front(c) \in AllCommits
      /\ Last(c) = h[n] /\ Last(c) \in Changes /\ c = Append(Front(c), Last(c))
  BY <1>1, BelowOf
<1>3. PICK a \in Seq(Changes) : a = Front(c)
  BY <1>2, CommitLen
<1>4. Len(a) + 1 = n
  BY <1>1, <1>2, <1>3, CommitLast
<1>5. PICK e \in Changes : e = Last(c)
  BY <1>2
<1>6. PICK f \in Changes : f = [e EXCEPT !.by = "us"]
  BY <1>5, SignedMade
<1>7. PICK b \in Seq(Changes) : b = Over(h, c)
  BY UpperMade DEF Over
<1>8. h = Append(a, e) \o b
  BY <1>2, <1>3, <1>5, <1>7, UpperMade DEF Over
<1>9. [(Append(a, e) \o b) EXCEPT ![Len(a) + 1] = f] = Append(a, f) \o b
  BY OneExchanged
<1>10. Signed(c) = Append(a, f)
  BY <1>3, <1>5, <1>6 DEF Signed
<1>11. [h EXCEPT ![n].by = "us"] = [h EXCEPT ![n] = f]
  BY <1>2, <1>5, <1>6
<1>12. [h EXCEPT ![n] = f] = Append(a, f) \o b
  BY <1>4, <1>8, <1>9
<1> QED
  BY <1>1, <1>7, <1>10, <1>11, <1>12

LEMMA AmendedAs ==
  ASSUME NEW g \in Repositories, NEW r \in AmendAttributes(g), r.ok, g.op = NoOp
  PROVE  r.g.head = [g.head EXCEPT ![Len(g.head)].by = "us"] /\ StaysPut(g, r.g)
<1>1. g.head \in Listed /\ r.g.head = Signed(g.head) /\ Steps(g, r.g)
  BY AmendAs
<1>2. PICK h \in Listed : h = g.head
  BY <1>1
<1>3. h \in AllCommits /\ Ancestor(h, h)
  BY AncestorOfItself DEF Listed
<1>4. Signed(h) \o Over(h, h) = [h EXCEPT ![Len(h)].by = "us"]
  BY <1>3, SignedBelow
<1>5. PICK n \in Nat : n = Len(h)
  BY <1>3, CommitLen
<1>6. Over(h, h) = <<>>
  <2>1. SubSeq(h, n + 1, n) = <<>>
    BY <1>3, <1>5, CommitLen
  <2> QED
    BY <1>5, <2>1 DEF Over
<1>7. PICK s \in Seq(Changes) : s = Signed(h)
  BY SignedMade, CommitLen
<1>8. s \o <<>> = s
  BY ConcatEmptySeq
<1>9. StaysPut(g, r.g)
  BY <1>1 DEF Steps, StaysPut
<1> QED
  BY <1>1, <1>2, <1>4, <1>6, <1>7, <1>8, <1>9

(***************************************************************************)
(* An older commit is amended where a rebase of b has stopped.             *)
(***************************************************************************)
Paused(b, c, g) ==
    /\ g.op.kind = "rebase" /\ g.op.stop = "edit" /\ g.op.orig = b.head /\ g.op.on = b.on
    /\ g.op.todo = Upper(b.head, c)
    /\ g.index = TreeOf(c) /\ g.tree = TreeOf(c)

LEMMA PausedAmend ==
  ASSUME NEW b, NEW c, NEW g \in Repositories, Paused(b, c, g), g.head = c,
         NEW r \in AmendAttributes(g), r.ok
  PROVE  Paused(b, c, r.g) /\ r.g.head = Signed(c)
<1>1. r.g.head = Signed(g.head) /\ Steps(g, r.g) /\ r.g.index = g.index /\ r.g.tree = g.tree
  BY AmendAs
<1> QED
  BY <1>1 DEF Paused, Steps

LEMMA AmendGoesOn ==
  ASSUME NEW b \in Repositories, NEW c \in Listed, Ancestor(c, b.head),
         NEW g \in Repositories, Begun(b, g), Paused(b, c, g), g.head = Signed(c),
         NEW r \in ContinueRebase(g), r.ok
  PROVE  r.g.head = [b.head EXCEPT ![Len(c)].by = "us"] /\ StaysPut(b, r.g)
<1>1. PICK h \in AllCommits : h = b.head
  BY RepoParts DEF Shapes
<1>2. PICK d \in AllCommits : d = Signed(c) /\ TreeOf(d) = TreeOf(c)
  BY SignedMade
<1>3. PICK t \in Seq(Items) : t = Upper(h, c)
  BY <1>1, UpperMade
<1>4. OnlyPicks(t)
  BY <1>1, <1>3, UpperMade
<1>5. r \notin Fails(g)
  BY FailsAre
<1>6. IndexClean(g) /\ g.op.stop = "edit" /\ Rest(g) = t
  BY <1>1, <1>2, <1>3 DEF Paused, IndexClean, Rest
<1>7. r \in RunTodo(g, d, t)
  BY <1>2, <1>5, <1>6 DEF ContinueRebase
<1>8. g \in Shapes /\ g.on = "none" /\ g.branch = b.branch /\ g.op.on = b.on
  BY RepoParts DEF Begun
<1>9. Arrives(g, Ran(d, t), r.g) \/ Rests(g, Ran(d, t), r.g)
  BY <1>7, <1>8, RunTodoDone
<1>10. Ran(d, t).stop # "edit"
  <2>1. \A i \in 1..Len(t) : t[i].verb # "edit"
    BY <1>4 DEF OnlyPicks
  <2> QED
    BY <2>1, RunEdits
<1>11. Arrives(g, Ran(d, t), r.g)
  BY <1>9, <1>10 DEF Rests
<1>12. Ran(d, t).stop = "none" /\ r.g.head = Ran(d, t).head /\ r.g.op = NoOp /\ r.g.on = b.on
       /\ \A n \in Branches : n # b.on => r.g.branch[n] = b.branch[n]
  BY <1>8, <1>11 DEF Arrives
<1>13. r.g.head = d \o Over(h, c)
  BY <1>1, <1>2, <1>3, <1>12, ReplayAbove
<1>14. Signed(c) \o Over(h, c) = [h EXCEPT ![Len(c)].by = "us"]
  BY <1>1, SignedBelow
<1>15. StaysPut(b, r.g)
  BY <1>12 DEF StaysPut
<1> QED
  BY <1>1, <1>2, <1>13, <1>14, <1>15

(***************************************************************************)
(* Checkouts: to where a branch is, with what is not committed.            *)
(***************************************************************************)
\* HEAD is on b, or on no branch, and no branch has moved.
Switched(g, b, v) == v.on = b /\ v.branch = g.branch

LEMMA SwitchedMade ==
  ASSUME NEW g \in Shapes, NEW v \in Shapes, NEW c, NEW b \in Branches \union {"none"},
         b \in Branches => c = g.branch[b],
         NEW s \in Shapes, s.on = b, s.branch = g.branch, IsMoved(s, v, c)
  PROVE  Switched(g, b, v)
<1>1. v.on = b /\ v.head = c /\ (v.on \in Branches => v.branch[v.on] = v.head)
      /\ \A x \in Branches : x # b => v.branch[x] = g.branch[x]
  BY DEF IsMoved
<1>2. v.branch \in [Branches -> AllCommits] /\ g.branch \in [Branches -> AllCommits]
  BY DEF Shapes
<1>3. \A x \in Branches : v.branch[x] = g.branch[x]
  BY <1>1
<1>4. v.branch = g.branch
  BY <1>2, <1>3
<1> QED
  BY <1>1, <1>4 DEF Switched

\* What is at one place of the index and the tree, when c is checked out in place of
\* what contains t.
\* The edit e is not committed: t is the tree, i the index, w the working tree.
OutOfPlace(t, i, w, e) == (e \in i) # (e \in t) \/ (e \in w) # (e \in i)

LEMMA CarriedThere ==
  ASSUME NEW t, NEW u, NEW i, NEW w, NEW e,
         (e \in t) # (e \in u) => ~OutOfPlace(t, i, w, e)
  PROVE  OutOfPlace(u, (u \union (i \ t)) \ (t \ i), (u \union (w \ t)) \ (t \ w), e)
             <=> OutOfPlace(t, i, w, e)
<1>1. PICK x : x = (u \union (i \ t)) \ (t \ i)
  OBVIOUS
<1>2. PICK y : y = (u \union (w \ t)) \ (t \ w)
  OBVIOUS
<1>3. e \in x <=> (e \in u \/ (e \in i /\ e \notin t)) /\ ~(e \in t /\ e \notin i)
  BY <1>1
<1>4. e \in y <=> (e \in u \/ (e \in w /\ e \notin t)) /\ ~(e \in t /\ e \notin w)
  BY <1>2
<1>5. OutOfPlace(u, x, y, e) <=> OutOfPlace(t, i, w, e)
  BY <1>3, <1>4 DEF OutOfPlace
<1> QED
  BY <1>1, <1>2, <1>5

LEMMA CheckoutDone ==
  ASSUME NEW g \in Repositories, NEW c \in AllCommits, NEW b \in Branches \union {"none"},
         b \in Branches => c = g.branch[b], NEW r \in Checkout(g, c, b), r.ok
  PROVE  Switched(g, b, r.g) /\ Uncommitted(r.g) = Uncommitted(g)
<1>1. g \in Shapes
  BY RepoParts
<1>2. r \notin Fails(g)
  BY FailsAre
<1>3. ~Blocked(g, c)
  BY <1>2 DEF Checkout
<1>4. PICK s : s = [g EXCEPT !.on = b]
  OBVIOUS
<1>5. /\ s \in Shapes /\ s.on = b /\ s.head = g.head /\ s.branch = g.branch /\ s.index = g.index
      /\ s.tree = g.tree /\ s.reflog = g.reflog /\ s.op = g.op /\ s.bisect = g.bisect
  BY <1>1, <1>4 DEF Shapes
<1>6. PICK m : m = Moved(s, c)
  OBVIOUS
<1>7. s.on \in Branches => s.branch[s.on] \in ToSet(s.reflog) \union {c}
  BY <1>5
<1>8. IsMoved(s, m, c)
  BY <1>5, <1>6, <1>7, MovedMade
<1>9. PICK t \in SUBSET Edits : t = TreeOf(g.head)
  BY <1>1, TreeType DEF Shapes
<1>10. PICK u \in SUBSET Edits : u = TreeOf(c)
  BY TreeType
<1>11. PICK x \in SUBSET Edits, y \in SUBSET Edits :
           /\ x = Carried(g, c, g.index) /\ x = (u \union (g.index \ t)) \ (t \ g.index)
           /\ y = Carried(g, c, g.tree) /\ y = (u \union (g.tree \ t)) \ (t \ g.tree)
  BY <1>1, <1>9, <1>10 DEF Carried, Shapes
<1>12. PICK v : v = [m EXCEPT !.index = x, !.tree = y]
  OBVIOUS
<1>13. /\ v \in Shapes /\ v.index = x /\ v.tree = y /\ v.head = m.head /\ v.on = m.on
       /\ v.op = m.op /\ v.bisect = m.bisect /\ v.branch = m.branch /\ v.reflog = m.reflog
  BY <1>8, <1>12 DEF IsMoved, Shapes
<1>14. IsMoved(s, v, c)
  BY <1>5, <1>8, <1>13, MovedWith
<1>15. r.g = v
  BY <1>3, <1>4, <1>6, <1>11, <1>12 DEF Checkout, Done
<1>16. Switched(g, b, v)
  BY <1>1, <1>5, <1>13, <1>14, SwitchedMade
<1>17. v.head = c
  BY <1>14 DEF IsMoved
<1>18. \A e \in Edits : e \in Uncommitted(g) <=>
           OutOfPlace(t, g.index, g.tree, e)
  BY <1>9 DEF Uncommitted, OutOfPlace
<1>19. \A e \in Edits : e \in Uncommitted(v) <=>
           OutOfPlace(u, x, y, e)
  <2>1. v.index = x /\ v.tree = y /\ TreeOf(v.head) = u
    BY <1>10, <1>13, <1>17
  <2> QED
    BY <2>1 DEF Uncommitted, OutOfPlace
<1>20. ASSUME NEW e \in Edits, (e \in t) # (e \in u)
       PROVE  e \notin Uncommitted(g)
  <2>1. e \in Between(g.head, c)
    BY <1>9, <1>10, <1>20 DEF Between
  <2> QED
    BY <1>3, <2>1 DEF Blocked
<1>21. ASSUME NEW e \in Edits
       PROVE  e \in Uncommitted(v) <=> e \in Uncommitted(g)
  <2>1. (e \in t) # (e \in u) => ~OutOfPlace(t, g.index, g.tree, e)
    BY <1>18, <1>20
  <2>2. OutOfPlace(u, (u \union (g.index \ t)) \ (t \ g.index), (u \union (g.tree \ t)) \ (t \ g.tree), e)
            <=> OutOfPlace(t, g.index, g.tree, e)
    BY <2>1, CarriedThere
  <2>3. OutOfPlace(u, x, y, e) <=> OutOfPlace(t, g.index, g.tree, e)
    BY <1>11, <2>2
  <2> QED
    BY <1>18, <1>19, <2>3
<1>22. Uncommitted(v) = Uncommitted(g)
  BY <1>21 DEF Uncommitted
<1> QED
  BY <1>15, <1>16, <1>22

LEMMA CheckoutBranchAs ==
  ASSUME NEW g \in Repositories, NEW b \in Branches, NEW r \in Checkout(g, g.branch[b], b), r.ok
  PROVE  Switched(g, b, r.g) /\ Uncommitted(r.g) = Uncommitted(g)
<1>1. PICK c \in AllCommits : c = g.branch[b]
  BY RepoParts DEF Shapes
<1> QED
  BY <1>1, CheckoutDone

LEMMA ForceCheckoutAs ==
  ASSUME NEW g \in Repositories, NEW b \in Branches, NEW r \in ForceCheckout(g, b)
  PROVE  Switched(g, b, r.g)
<1>1. g \in Shapes
  BY RepoParts
<1>2. PICK c \in AllCommits : c = g.branch[b]
  BY <1>1 DEF Shapes
<1>3. PICK s : s = [g EXCEPT !.on = b]
  OBVIOUS
<1>4. /\ s \in Shapes /\ s.on = b /\ s.branch = g.branch /\ s.reflog = g.reflog
  BY <1>1, <1>3 DEF Shapes
<1>5. PICK m : m = At(s, c)
  OBVIOUS
<1>6. s.on \in Branches => s.branch[s.on] \in ToSet(s.reflog) \union {c}
  BY <1>2, <1>4
<1>7. IsMoved(s, m, c)
  BY <1>4, <1>5, <1>6, AtMade
<1>8. m \in Shapes
  BY <1>7 DEF IsMoved
<1>9. Switched(g, b, m)
  BY <1>1, <1>2, <1>4, <1>7, <1>8, SwitchedMade
<1>10. PICK o : o = IF g.op.kind # "rebase" THEN NoOp
                    ELSE IF g.op.stop = "conflict" THEN [g.op EXCEPT !.stop = "resolved"] ELSE g.op
  OBVIOUS
<1>11. PICK v : v = [m EXCEPT !.op = o]
  OBVIOUS
<1>12. r.g = v
  BY <1>2, <1>3, <1>5, <1>10, <1>11 DEF ForceCheckout, Done
<1>13. v.on = m.on /\ v.branch = m.branch
  BY <1>8, <1>11 DEF Shapes
<1> QED
  BY <1>9, <1>12, <1>13 DEF Switched

LEMMA ResetBisectAs ==
  ASSUME NEW g \in Repositories, g.bisect.active, NEW r \in BisectReset(g), r.ok
  PROVE  Switched(g, g.bisect.on, r.g) /\ Uncommitted(r.g) = Uncommitted(g)
<1>1. g \in Shapes /\ g.bisect \in Bisections
  BY RepoParts DEF Shapes
<1>2. PICK on \in Branches \union {"none"}, back \in AllCommits :
          /\ on = g.bisect.on
          /\ back = IF g.bisect.on = "none" THEN g.bisect.at ELSE g.branch[g.bisect.on]
  BY <1>1 DEF Shapes, Bisections
<1>3. PICK q \in Checkout(g, back, on) : r = IF q.ok THEN [q EXCEPT !.g.bisect = NoBisect] ELSE q
  BY <1>2 DEF BisectReset
<1>4. on \in Branches => back = g.branch[on]
  BY <1>2 DEF Branches
<1>5. q.ok
  BY <1>3
<1>6. Switched(g, on, q.g) /\ Uncommitted(q.g) = Uncommitted(g)
  BY <1>3, <1>4, <1>5, CheckoutDone
<1>7. Fine(g, q) /\ q = [g |-> q.g, ok |-> q.ok]
  BY <1>2, <1>3, <1>4, CheckoutMade
<1>8. PICK f \in Repositories : f = q.g
  BY <1>7 DEF Fine
<1>9. PICK v : v = [f EXCEPT !.bisect = NoBisect]
  OBVIOUS
<1>10. r.g = v
  <2>1. PICK p : p = [g |-> f, ok |-> q.ok]
    OBVIOUS
  <2>2. q = p
    BY <1>7, <1>8, <2>1
  <2>3. r = [p EXCEPT !.g.bisect = NoBisect]
    BY <1>3, <1>5, <2>2
  <2> QED
    BY <1>9, <2>1, <2>3
<1>11. f \in Shapes
  BY <1>8, RepoParts
<1>12. v.on = f.on /\ v.branch = f.branch /\ v.head = f.head /\ v.index = f.index /\ v.tree = f.tree
  BY <1>9, <1>11 DEF Shapes
<1>13. Uncommitted(v) = Uncommitted(f)
  BY <1>12 DEF Uncommitted
<1> QED
  BY <1>2, <1>6, <1>8, <1>10, <1>12, <1>13 DEF Switched

(***************************************************************************)
(* Reverting, and committing what is staged.                               *)
(***************************************************************************)
LEMMA OwnApart ==
  ASSUME NEW c \in Listed
  PROVE  Last(c) \in Changes /\ Last(c).add \intersect Last(c).del = {}
<1>1. PICK it \in Items : it = Pick(c) /\ it.of = c
  BY VerbedMade
<1> QED
  BY <1>1, ItemApart, ListedParts

LEMMA RevertAs ==
  ASSUME NEW g \in Repositories, NEW c \in Listed, NEW r \in Revert(g, c), r.ok
  PROVE  /\ Front(r.g.head) = g.head /\ Last(c).add \intersect TreeOf(r.g.head) = {}
         /\ StaysPut(g, r.g)
<1>1. PICK k \in Changes : k = Last(c) /\ k.add \intersect k.del = {}
  BY OwnApart
<1>2. PICK ch \in Changes : ch = Undoing(k)
  BY UndoingType
<1>3. ch.add = k.del /\ ch.del = k.add
  <2>1. k = [add |-> k.add, del |-> k.del, subj |-> k.subj, by |-> k.by, fix |-> k.fix]
    BY DEF Changes
  <2> QED
    BY <1>2, <2>1 DEF Undoing
<1>4. PICK h \in AllCommits, t \in SUBSET Edits : h = g.head /\ t = TreeOf(h)
  BY RepoParts, TreeType DEF Shapes
<1>5. r \notin Fails(g) /\ r # Stuck(g, "revert", c)
  BY FailsAre, StuckMade
<1>6. ~Refuses(g, ch) /\ r \in Done(CommitChange(g, ch))
  BY <1>1, <1>2, <1>5 DEF Revert
<1>7. PICK d \in AllCommits : d = Append(h, Onto(t, ch))
  BY <1>4, PickedCommit
<1>8. PICK x \in SUBSET Edits : x = TreeOf(d)
  BY TreeType
<1>9. PICK m : m = Moved(g, d)
  OBVIOUS
<1>10. IsMoved(g, m, d)
  BY <1>9, OnItsBranch, MovedMade
<1>11. PICK y : y = (x \union (g.tree \ g.index)) \ (g.index \ g.tree)
  OBVIOUS
<1>12. r.g = [m EXCEPT !.index = x, !.tree = y]
  BY <1>4, <1>6, <1>7, <1>8, <1>9, <1>11 DEF CommitChange, Done
<1>13. r.g.head = m.head /\ r.g.on = m.on /\ r.g.op = m.op /\ r.g.branch = m.branch
  BY <1>10, <1>12 DEF IsMoved, Shapes
<1>14. r.g.head = d /\ StaysPut(g, r.g)
  BY <1>6, <1>10, <1>13 DEF IsMoved, StaysPut, Refuses
<1>15. ch.add \intersect ch.del = {}
  BY <1>1, <1>3
<1>16. TreeOf(d) = After(t, ch)
  BY <1>4, <1>7, <1>15, OntoTree
<1>17. k.add \intersect After(t, ch) = {}
  BY <1>3 DEF After
<1>18. Front(d) = h
  <2>1. PICK e \in Changes : e = Onto(t, ch)
    BY <1>4, OntoTitle
  <2>2. h \in Seq(Changes)
    BY CommitLen
  <2> QED
    BY <1>7, <2>1, <2>2, FrontOfAppend
<1> QED
  BY <1>1, <1>4, <1>14, <1>16, <1>17, <1>18

\* What is staged in g, as a change.
StagedIn(g, subj) ==
    [add |-> g.index \ TreeOf(g.head), del |-> TreeOf(g.head) \ g.index, subj |-> subj,
     by |-> "us", fix |-> TRUE]

Staged(g, made, v) ==
    /\ made \in Changes /\ v.head = Append(g.head, made) /\ v.head \in AllCommits
    /\ TreeOf(v.head) = g.index
    /\ v.op = g.op /\ v.on = g.on /\ \A b \in Branches : b # g.on => v.branch[b] = g.branch[b]

LEMMA FixupMade ==
  ASSUME NEW g \in Repositories, NEW subj \in Subjects, NEW r \in CommitIndex(g, subj, TRUE), r.ok
  PROVE  Staged(g, StagedIn(g, subj), r.g)
<1>1. g \in Shapes
  BY RepoParts
<1>2. PICK h \in AllCommits, t \in SUBSET Edits : h = g.head /\ t = TreeOf(h)
  BY <1>1, TreeType DEF Shapes
<1>3. PICK x \in SUBSET Edits : x = g.index
  BY <1>1 DEF Shapes
<1>4. PICK l : l = StagedIn(g, subj)
  OBVIOUS
<1>5. l \in Changes /\ l.add = x \ t /\ l.del = t \ x
  BY <1>2, <1>3, <1>4 DEF StagedIn, Changes
<1>6. PICK c \in AllCommits : c = Append(h, l) /\ TreeOf(c) = x
  <2>1. l.add = x \ TreeOf(h) /\ l.del = TreeOf(h) \ x
    BY <1>2, <1>5
  <2>2. Append(h, l) \in AllCommits /\ TreeOf(Append(h, l)) = x
    BY <1>5, <2>1, IndexCommit
  <2> QED
    BY <2>2
<1>7. r \notin Fails(g)
  BY FailsAre
<1>8. PICK m : m = Moved(g, c)
  OBVIOUS
<1>9. r.g = m
  BY <1>2, <1>3, <1>4, <1>6, <1>7, <1>8 DEF CommitIndex, Done, StagedIn
<1>10. IsMoved(g, m, c)
  BY <1>8, OnItsBranch, MovedMade
<1> QED
  BY <1>2, <1>3, <1>4, <1>5, <1>6, <1>9, <1>10 DEF IsMoved, Staged

(***************************************************************************)
(* Another branch to be on top of.                                         *)
(***************************************************************************)
OntoLeft(h, onto, n) ==
    IF Ancestor(onto, h) THEN n = h
    ELSE /\ Ancestor(onto, n)
         /\ ToSet(Titles(SubSeq(n, Len(onto) + 1, Len(n)))) \subseteq ToSet(Titles(Own(h, onto)))
         /\ TreeOf(n) = TreeOf(onto \o Own(h, onto))

LEMMA PutOn ==
  ASSUME NEW a \in Seq(Changes), NEW b \in Seq(Changes), NEW n \in AllCommits, n = a \o b
  PROVE  Ancestor(a, n) /\ SubSeq(n, Len(a) + 1, Len(n)) = b
<1>1. PICK k \in Nat : k = Len(a)
  OBVIOUS
<1>2. PICK m \in Nat : m = Len(b)
  OBVIOUS
<1>3. /\ n \in Seq(Changes) /\ Len(n) = k + m
      /\ \A i \in 1..(k + m) : n[i] = IF i <= k THEN a[i] ELSE b[i - k]
  BY <1>1, <1>2, ConcatProperties
<1>4. k \in 0..Len(n)
  BY <1>3
<1>5. /\ SubSeq(n, 1, k) \in Seq(Changes) /\ Len(SubSeq(n, 1, k)) = k
      /\ SubSeq(n, k + 1, Len(n)) \in Seq(Changes) /\ Len(SubSeq(n, k + 1, Len(n))) = Len(n) - k
      /\ \A i \in 1..k : SubSeq(n, 1, k)[i] = n[i]
      /\ \A i \in 1..(Len(n) - k) : SubSeq(n, k + 1, Len(n))[i] = n[k + i]
  BY <1>3, <1>4, PartsOf
<1>6. PICK u \in Seq(Changes) : u = SubSeq(n, 1, k)
  BY <1>5
<1>7. PICK v \in Seq(Changes) : v = SubSeq(n, k + 1, Len(n))
  BY <1>5
<1>8. Len(u) = k /\ \A i \in 1..k : u[i] = a[i]
  <2>1. Len(u) = k /\ \A i \in 1..k : u[i] = n[i]
    BY <1>5, <1>6
  <2>2. \A i \in 1..k : i \in 1..(k + m) /\ i <= k
    OBVIOUS
  <2> QED
    BY <1>3, <2>1, <2>2
<1>9. Len(v) = m /\ \A i \in 1..m : v[i] = b[i]
  <2>1. Len(n) - k = m
    BY <1>3
  <2>2. Len(v) = m /\ \A i \in 1..m : v[i] = n[k + i]
    BY <1>5, <1>7, <2>1
  <2>3. \A i \in 1..m : k + i \in 1..(k + m) /\ ~(k + i <= k) /\ (k + i) - k = i
    OBVIOUS
  <2> QED
    BY <1>3, <2>2, <2>3
<1>10. u = a
  BY <1>1, <1>8, SeqEqual
<1>11. v = b
  BY <1>2, <1>9, SeqEqual
<1>12. Ancestor(SubSeq(n, 1, k), n)
  BY <1>4, PrefixIsAncestor
<1> QED
  BY <1>1, <1>6, <1>7, <1>10, <1>11, <1>12

LEMMA AppliesAs ==
  ASSUME NEW todo \in Seq(Items), NEW w,
         w = [i \in DOMAIN todo |-> [todo[i] EXCEPT !.verb = "apply"]]
  PROVE  w \in Seq(Items) /\ OnlyApplies(w) /\ Lasts(w) = Lasts(todo)
<1>1. PICK n \in Nat : n = Len(todo) /\ DOMAIN todo = 1..n
  OBVIOUS
<1>2. w \in Seq(Items)
  BY AppliedMade
<1>3. w = [i \in 1..n |-> [todo[i] EXCEPT !.verb = "apply"]]
  BY <1>1
<1>4. Len(w) = n /\ DOMAIN w = 1..n
  BY <1>1, <1>2, <1>3
<1>5. \A i \in 1..n : w[i].verb = "apply" /\ w[i].of = todo[i].of
  <2> TAKE i \in 1..n
  <2>1. PICK it \in Items : it = todo[i]
    BY <1>1
  <2>2. it = [verb |-> it.verb, of |-> it.of]
    BY DEF Items
  <2>3. w[i] = [it EXCEPT !.verb = "apply"]
    BY <1>3, <2>1
  <2> QED
    BY <2>1, <2>2, <2>3
<1>6. OnlyApplies(w)
  BY <1>4, <1>5 DEF OnlyApplies
<1>7. Lasts(w) = Lasts(todo)
  BY <1>1, <1>4, <1>5 DEF Lasts
<1> QED
  BY <1>2, <1>6, <1>7

LEMMA OntoAs ==
  ASSUME NEW g \in Repositories, NEW b \in Branches, NEW r \in RebaseCurrentOnto(g, b), r.ok
  PROVE  OntoLeft(g.head, g.branch[b], r.g.head)
<1>1. PICK onto \in AllCommits : onto = g.branch[b]
  BY RepoParts DEF Shapes
<1>2. PICK h \in AllCommits : h = g.head
  BY RepoParts DEF Shapes
<1>3. PICK todo \in Seq(Items) : todo = Picks(g, onto)
  BY <1>2, PicksOnto
<1>4. Lasts(todo) = Own(h, onto)
  BY <1>2, <1>3, PicksOnto
<1>5. PICK w : w = [i \in DOMAIN todo |-> [todo[i] EXCEPT !.verb = "apply"]]
  OBVIOUS
<1>6. w \in Seq(Items) /\ OnlyApplies(w) /\ Lasts(w) = Lasts(todo)
  BY <1>5, AppliesAs
<1>7. r \notin Fails(g)
  BY FailsAre
<1>8. r \in IF Ancestor(onto, h) THEN Done(g) ELSE RunTodo(Starting(g), onto, w)
  BY <1>1, <1>2, <1>3, <1>5, <1>7 DEF RebaseCurrentOnto
<1>9. CASE Ancestor(onto, h)
  <2>1. r.g = g
    BY <1>8, <1>9 DEF Done
  <2> QED
    BY <1>1, <1>2, <1>9, <2>1 DEF OntoLeft
<1>10. CASE ~Ancestor(onto, h)
  <2>1. \A i \in 1..Len(w) : w[i].verb # "edit" /\ w[i].verb # "drop"
    BY <1>6 DEF OnlyApplies
  <2>2. r \in RunTodo(Starting(g), onto, w)
    BY <1>8, <1>10
  <2>3. Ran(onto, w).stop = "none" /\ r.g.head = Ran(onto, w).head
    BY <1>6, <2>1, <2>2, RunsToEnd
  <2>4. PICK n : n = r.g.head
    OBVIOUS
  <2>5. TreeOf(n) = TreeOf(onto \o Lasts(w))
    BY <1>6, <2>1, <2>3, <2>4, RunTree
  <2>6. Applies(onto, w, n)
    BY <1>6, <2>3, <2>4, RunApply
  <2>7. PICK u \in Seq(Changes) : n = onto \o u /\ ToSet(Titles(u)) \subseteq ToSet(Titles(Lasts(w)))
    BY <2>6 DEF Applies
  <2>8. n \in AllCommits
    <3>1. Ran(onto, w) \in Runs
      BY <1>6, RunMade
    <3> QED
      BY <2>3, <2>4, <3>1 DEF Runs
  <2>9. onto \in Seq(Changes)
    BY CommitLen
  <2>10. Ancestor(onto, n) /\ SubSeq(n, Len(onto) + 1, Len(n)) = u
    BY <2>7, <2>8, <2>9, PutOn
  <2> QED
    BY <1>1, <1>2, <1>4, <1>6, <1>10, <2>4, <2>5, <2>7, <2>10 DEF OntoLeft
<1> QED
  BY <1>9, <1>10

(***************************************************************************)
(* The end of a rebase in progress.                                        *)
(***************************************************************************)
\* HEAD goes back to the branch the rebase is of, and no other branch moves.
Returned(g, v) ==
    (v.op = NoOp /\ g.on = "none") =>
        /\ v.on = g.op.on
        /\ \A b \in Branches : b # g.op.on => v.branch[b] = g.branch[b]

LEMMA RunReturns ==
  ASSUME NEW g \in Shapes, NEW from \in AllCommits, NEW todo \in Seq(Items),
         NEW r \in RunTodo(g, from, todo), r.ok
  PROVE  Returned(g, r.g)
<1>1. CASE g.on = "none"
  <2>1. Arrives(g, Ran(from, todo), r.g) \/ Rests(g, Ran(from, todo), r.g)
    BY <1>1, RunTodoDone
  <2> QED
    BY <2>1 DEF Arrives, Rests, Returned
<1> QED
  BY <1>1 DEF Returned

LEMMA ContinueAs ==
  ASSUME NEW g \in Repositories, NEW r \in ContinueRebase(g), r.ok
  PROVE  Returned(g, r.g)
<1>1. PICK from : from = IF g.op.stop = "edit" THEN IF IndexClean(g) THEN g.head ELSE AmendIndex(g)
                         ELSE Resolved(g)
  OBVIOUS
<1>2. r \notin Fails(g)
  BY FailsAre
<1>3. g.op.kind = "rebase" /\ ~Misplaced(g) /\ r \in RunTodo(g, from, Rest(g))
  BY <1>1, <1>2 DEF ContinueRebase
<1>4. g \in Shapes /\ Rest(g) \in Seq(Items)
  BY <1>3, RestMade
<1>5. from \in AllCommits
  <2>1. CASE IndexClean(g) /\ g.op.stop = "edit"
    BY <2>1, <1>1, <1>4 DEF Shapes
  <2>2. CASE ~IndexClean(g) /\ g.op.stop = "edit"
    <3>1. g.head # <<>>
      BY <1>3, <2>2 DEF Misplaced
    <3> QED
      BY <3>1, <2>2, <1>1, <1>4, AmendIndexMade
  <2>3. CASE g.op.stop # "edit"
    BY <2>3, <1>1, <1>3, ResolvedMade
  <2> QED
    BY <2>1, <2>2, <2>3
<1>6. PICK todo \in Seq(Items) : todo = Rest(g)
  BY <1>4
<1> QED
  BY <1>3, <1>4, <1>5, <1>6, RunReturns

LEMMA SkipAs ==
  ASSUME NEW g \in Repositories, NEW r \in SkipRebase(g), r.ok
  PROVE  Returned(g, r.g)
<1>1. r \notin Fails(g)
  BY FailsAre
<1>2. g.op.kind = "rebase" /\ r \in RunTodo(g, g.head, Rest(g))
  BY <1>1 DEF SkipRebase
<1>3. g \in Shapes /\ Rest(g) \in Seq(Items)
  BY <1>2, RestMade
<1>4. PICK todo \in Seq(Items), h \in AllCommits : todo = Rest(g) /\ h = g.head
  BY <1>3 DEF Shapes
<1> QED
  BY <1>2, <1>3, <1>4, RunReturns

LEMMA AbortAs ==
  ASSUME NEW g \in Repositories, NEW r \in AbortRebase(g), r.ok
  PROVE  Returned(g, r.g)
<1>1. r \notin Fails(g)
  BY FailsAre
<1>2. g \in Shapes
  BY RepoParts
<1>3. PICK c \in AllCommits, on \in Branches \union {"none"} : c = g.op.orig /\ on = g.op.on
  BY <1>2 DEF Shapes, Operations
<1>4. PICK s : s = [g EXCEPT !.on = on]
  OBVIOUS
<1>5. s \in Shapes /\ s.on = on /\ s.branch = g.branch
  BY <1>2, <1>4 DEF Shapes
<1>6. PICK m : m = [s EXCEPT !.head = c, !.reflog = <<c>> \o @,
                             !.branch = [b \in Branches |-> IF b = s.on THEN c ELSE @[b]]]
  OBVIOUS
<1>7. PICK w : w = [m EXCEPT !.index = TreeOf(c), !.tree = TreeOf(c)]
  OBVIOUS
<1>8. PICK v : v = [w EXCEPT !.op = NoOp]
  OBVIOUS
<1>9. r.g = v
  BY <1>1, <1>3, <1>4, <1>6, <1>7, <1>8 DEF AbortRebase, Done, At, Moved
<1>10. v.on = on /\ \A b \in Branches : b # on => v.branch[b] = g.branch[b]
  BY <1>5, <1>6, <1>7, <1>8 DEF Shapes
<1> QED
  BY <1>3, <1>9, <1>10 DEF Returned

(***************************************************************************)
(* The only process of a command does what the command is for.             *)
(***************************************************************************)
Did(q, g, v) == Meant(q, g, v) /\ StaysPut(g, v)

LEMMA MeantDrop ==
  ASSUME NEW g \in Repositories, NEW q \in Questions, q.op = "Drop", Ancestor(q.c, g.head),
         NEW r \in SingleProcess(g, q), r.ok
  PROVE  Did(q, g, r.g)
<1>1. PICK c \in Listed : c = q.c
  BY QuestionFields DEF OfCommit
<1>2. r \in ScriptedRebase(g, c, "drop", FALSE)
  BY <1>1 DEF SingleProcess, Rebase
<1>3. /\ StaysPut(g, r.g)
      /\ Titles(r.g.head) = RemoveAt(Titles(g.head), Len(c))
      /\ TreeOf(r.g.head) = TreeOf(RemoveAt(g.head, Len(c)))
  BY <1>1, <1>2, DropAs
<1> QED
  BY <1>1, <1>3 DEF Did, Meant

LEMMA MeantReword ==
  ASSUME NEW g \in Repositories, NEW q \in Questions, q.op = "Reword", Ancestor(q.c, g.head),
         NEW r \in SingleProcess(g, q), r.ok
  PROVE  Did(q, g, r.g)
<1>1. PICK c \in Listed : c = q.c
  BY QuestionFields DEF OfCommit
<1>2. r \in ScriptedRebase(g, c, "reword", FALSE)
  BY <1>1 DEF SingleProcess, Rebase
<1>3. /\ StaysPut(g, r.g)
      /\ Titles(r.g.head) =
             [Titles(g.head) EXCEPT ![Len(c)] = <<"reworded", g.head[Len(c)].fix>>]
      /\ TreeOf(r.g.head) = TreeOf(g.head)
  BY <1>1, <1>2, RewordAs
<1> QED
  BY <1>1, <1>3 DEF Did, Meant

LEMMA MeantEdit ==
  ASSUME NEW g \in Repositories, NEW q \in Questions, q.op = "Edit", Ancestor(q.c, g.head),
         NEW r \in SingleProcess(g, q), r.ok
  PROVE  Did(q, g, r.g)
<1>1. PICK c \in Listed : c = q.c
  BY QuestionFields DEF OfCommit
<1>2. r \in ScriptedRebase(g, c, "edit", FALSE)
  BY <1>1 DEF SingleProcess, Rebase
<1>3. Ancestor(c, g.head)
  BY <1>1
<1>4. /\ StaysPut(g, r.g) /\ r.g.head = c
      /\ r.g.op # NoOp /\ r.g.op.kind = "rebase" /\ r.g.op.stop = "edit"
      /\ r.g.op.orig = g.head /\ r.g.op.on = g.on /\ r.g.op.todo = Upper(g.head, c)
      /\ r.g.index = TreeOf(c) /\ r.g.tree = TreeOf(c)
  BY <1>2, <1>3, EditAs
<1> QED
  BY <1>1, <1>4 DEF Did, Meant

LEMMA MeantFixups ==
  ASSUME NEW g \in Repositories, NEW q \in Questions, q.op = "ApplyFixups", Ancestor(q.c, g.head),
         NEW r \in SingleProcess(g, q), r.ok
  PROVE  Did(q, g, r.g)
<1>1. PICK c \in Listed : c = q.c
  BY QuestionFields DEF OfCommit
<1>2. r \in ScriptedRebase(g, c, "pick", TRUE)
  BY <1>1 DEF SingleProcess, Rebase
<1>3. /\ StaysPut(g, r.g)
      /\ Titles(r.g.head) = Folded(g.head, Len(c))
      /\ Movable(g.head, Len(c)) => TreeOf(r.g.head) = TreeOf(g.head)
  BY <1>1, <1>2, FixupsAs
<1> QED
  BY <1>1, <1>3 DEF Did, Meant

LEMMA MeantSquash ==
  ASSUME NEW g \in Repositories, NEW q \in Questions, q.op = "Squash", Ancestor(q.c, g.head),
         NEW r \in SingleProcess(g, q), r.ok
  PROVE  Did(q, g, r.g)
<1>1. PICK c \in Listed : c = q.c
  BY QuestionFields DEF OfCommit
<1>2. r \notin Fails(g)
  BY FailsAre
<1>3. Len(c) # 1 /\ r \in ScriptedRebase(g, c, "squash", FALSE)
  BY <1>1, <1>2 DEF SingleProcess, Rebase
<1>4. /\ StaysPut(g, r.g)
      /\ Titles(r.g.head) = RemoveAt(Titles(g.head), Len(c))
      /\ TreeOf(r.g.head) = TreeOf(g.head)
      /\ TreeOf(SubSeq(r.g.head, 1, Len(c) - 1)) = TreeOf(c)
  BY <1>1, <1>3, SquashAs
<1> QED
  BY <1>1, <1>4 DEF Did, Meant

LEMMA MeantMoveUp ==
  ASSUME NEW g \in Repositories, NEW q \in Questions, q.op = "MoveUp",
         NEW r \in SingleProcess(g, q), r.ok
  PROVE  Did(q, g, r.g)
<1>1. PICK older \in Listed, newer \in Listed : older = q.c /\ newer = q.adjacent
  BY QuestionFields
<1>2. r \in ReorderedRebase(g, older, newer)
  BY <1>1 DEF SingleProcess, Rebase
<1>3. /\ StaysPut(g, r.g)
      /\ Titles(r.g.head) = Swapped(Titles(g.head), Len(older))
      /\ Independent(g.head[Len(older)], g.head[Len(older) + 1]) =>
             TreeOf(r.g.head) = TreeOf(g.head)
  BY <1>2, ReorderAs
<1> QED
  BY <1>1, <1>3 DEF Did, Meant

LEMMA MeantMoveDown ==
  ASSUME NEW g \in Repositories, NEW q \in Questions, q.op = "MoveDown",
         NEW r \in SingleProcess(g, q), r.ok
  PROVE  Did(q, g, r.g)
<1>1. PICK older \in Listed, newer \in Listed : older = q.adjacent /\ newer = q.c
  BY QuestionFields
<1>2. r \in ReorderedRebase(g, older, newer)
  BY <1>1 DEF SingleProcess, Rebase
<1>3. /\ StaysPut(g, r.g)
      /\ Len(newer) = Len(older) + 1
      /\ Titles(r.g.head) = Swapped(Titles(g.head), Len(older))
      /\ Independent(g.head[Len(older)], g.head[Len(older) + 1]) =>
             TreeOf(r.g.head) = TreeOf(g.head)
  BY <1>2, ReorderAs
<1>4. PICK k \in Nat : k = Len(older)
  BY CommitLen DEF Listed
<1>5. Len(q.c) - 1 = k /\ Len(q.c) = k + 1
  BY <1>1, <1>3, <1>4
<1> QED
  BY <1>3, <1>4, <1>5 DEF Did, Meant

LEMMA MeantRevert ==
  ASSUME NEW g \in Repositories, NEW q \in Questions, q.op = "Revert", Ancestor(q.c, g.head),
         NEW r \in SingleProcess(g, q), r.ok
  PROVE  Did(q, g, r.g)
<1>1. PICK c \in Listed : c = q.c
  BY QuestionFields DEF OfCommit
<1>2. r \in Revert(g, c)
  BY <1>1 DEF SingleProcess
<1>3. /\ Front(r.g.head) = g.head /\ Last(c).add \intersect TreeOf(r.g.head) = {}
      /\ StaysPut(g, r.g)
  BY <1>2, RevertAs
<1>4. g.head \in AllCommits
  BY RepoParts DEF Shapes
<1>5. Last(c) = g.head[Len(c)]
  BY <1>1, <1>4, BelowOf
<1> QED
  BY <1>1, <1>3, <1>5 DEF Did, Meant

LEMMA SingleDid ==
  ASSUME NEW g \in Repositories, NEW q \in Questions, q.op \in Single,
         q.op \in Rewriting \union {"Revert"}, Ancestor(q.c, g.head),
         NEW r \in SingleProcess(g, q), r.ok
  PROVE  Did(q, g, r.g)
<1>1. q.op \in {"Drop", "Squash", "Reword", "MoveUp", "MoveDown", "ApplyFixups", "Edit", "Revert"}
  BY DEF Single, Rewriting
<1> QED
  BY <1>1, MeantDrop, MeantSquash, MeantReword, MeantMoveUp, MeantMoveDown, MeantFixups, MeantEdit,
     MeantRevert

(***************************************************************************)
(* The same of what is not about a commit.                                 *)
(***************************************************************************)
LEMMA MeantOnto ==
  ASSUME NEW g \in Repositories, NEW q \in Questions, q.op = "RebaseOnto",
         NEW r \in SingleProcess(g, q), r.ok
  PROVE  MeantOf(q, g, r.g)
<1>1. PICK b \in Branches : b = q.b
  BY QuestionFields
<1>2. r \in RebaseCurrentOnto(g, b)
  BY <1>1 DEF SingleProcess
<1>3. OntoLeft(g.head, g.branch[b], r.g.head)
  BY <1>2, OntoAs
<1> QED
  BY <1>1, <1>3 DEF OntoLeft, MeantOf

LEMMA MeantCheckout ==
  ASSUME NEW g \in Repositories, NEW q \in Questions, q.op \in {"Checkout", "ForceCheckout"},
         NEW r \in SingleProcess(g, q), r.ok
  PROVE  MeantOf(q, g, r.g)
<1>1. PICK b \in Branches : b = q.b
  BY QuestionFields
<1>2. CASE q.op = "Checkout"
  <2>1. r \in Checkout(g, g.branch[b], b)
    BY <1>1, <1>2 DEF SingleProcess
  <2>2. Switched(g, b, r.g) /\ Uncommitted(r.g) = Uncommitted(g)
    BY <2>1, CheckoutBranchAs
  <2> QED
    BY <1>1, <1>2, <2>2 DEF Switched, MeantOf
<1>3. CASE q.op = "ForceCheckout"
  <2>1. r \in ForceCheckout(g, b)
    BY <1>1, <1>3 DEF SingleProcess
  <2>2. Switched(g, b, r.g)
    BY <2>1, ForceCheckoutAs
  <2> QED
    BY <1>1, <1>3, <2>2 DEF Switched, MeantOf
<1> QED
  BY <1>2, <1>3

LEMMA MeantResetBisect ==
  ASSUME NEW g \in Repositories, NEW q \in Questions, q.op = "ResetBisect", g.bisect.active,
         NEW r \in SingleProcess(g, q), r.ok
  PROVE  MeantOf(q, g, r.g)
<1>1. r \in BisectReset(g)
  BY DEF SingleProcess
<1>2. Switched(g, g.bisect.on, r.g) /\ Uncommitted(r.g) = Uncommitted(g)
  BY <1>1, ResetBisectAs
<1> QED
  BY <1>2 DEF Switched, MeantOf

LEMMA MeantReturn ==
  ASSUME NEW g \in Repositories, NEW q \in Questions, q.op \in {"Continue", "Skip", "Abort"},
         NEW r \in SingleProcess(g, q), r.ok
  PROVE  MeantOf(q, g, r.g)
<1>1. Returned(g, r.g)
  <2>1. CASE q.op = "Continue"
    BY <2>1, ContinueAs DEF SingleProcess
  <2>2. CASE q.op = "Skip"
    BY <2>2, SkipAs DEF SingleProcess
  <2>3. CASE q.op = "Abort"
    BY <2>3, AbortAs DEF SingleProcess
  <2> QED
    BY <2>1, <2>2, <2>3
<1> QED
  BY <1>1 DEF Returned, MeantOf

\* The commands that are not about a commit of HEAD's history.
OfNoCommit == {"RebaseOnto", "Checkout", "ForceCheckout", "ResetBisect", "Continue", "Skip", "Abort"}

LEMMA MeantOther ==
  ASSUME NEW g, NEW q, NEW v, q.op \notin OfNoCommit
  PROVE  MeantOf(q, g, v)
BY DEF OfNoCommit, MeantOf

LEMMA SingleDidOf ==
  ASSUME NEW g \in Repositories, NEW q \in Questions, q.op = "ResetBisect" => g.bisect.active,
         NEW r \in SingleProcess(g, q), r.ok
  PROVE  MeantOf(q, g, r.g)
<1>1. CASE q.op \in OfNoCommit
  BY <1>1, MeantOnto, MeantCheckout, MeantResetBisect, MeantReturn DEF OfNoCommit
<1>2. CASE q.op \notin OfNoCommit
  BY <1>2, MeantOther
<1> QED
  BY <1>1, <1>2

(***************************************************************************)
(* What the processes of a command that is left alone have done so far.    *)
(***************************************************************************)
\* A bisect is only ended where there is one.
Fair(a) == a.q.op = "ResetBisect" /\ a.alone => a.before.bisect.active

Course(j, g) ==
    j.alone =>
        /\ j.left = <<"autosquash">> => Staged(j.before, StagedIn(j.before, Last(j.q.c).subj), g)
        /\ j.left = <<"amend">> => g.head = j.q.c
        /\ Ancestor(j.q.c, j.before.head) =>
               /\ j.left = <<"amend", "continue">> =>
                      Paused(j.before, j.q.c, g) /\ g.head = j.q.c
               /\ j.left = <<"continue">> =>
                      Paused(j.before, j.q.c, g) /\ g.head = Signed(j.q.c)

Courses ==
    /\ modal # None => Fair(modal)
    /\ job # None => Fair(job) /\ Course(job, git)

LEMMA AskedBisect ==
  ASSUME NEW d, NEW q \in Asked(d), q.op = "ResetBisect"
  PROVE  d.bisect.active
<1>1. CASE q \in Selected(d)
  BY <1>1 DEF Selected, OnCommits
<1>2. CASE q \in Moves(d)
  BY <1>2 DEF Moves
<1>3. CASE q \in Snapshots(d)
  BY <1>3 DEF Snapshots
<1>4. CASE q \in Bisects(d)
  BY <1>4 DEF Bisects
<1>5. CASE q \in OnBranches(d)
  BY <1>5 DEF OnBranches
<1>6. CASE q \in [op : {"Continue", "Skip", "Abort"}] \/ q = [op |-> "Paste", commits |-> copied]
  BY <1>6
<1>7. \/ q \in Selected(d) \/ q \in Moves(d) \/ q \in Snapshots(d) \/ q \in Bisects(d)
      \/ q \in OnBranches(d) \/ q \in [op : {"Continue", "Skip", "Abort"}]
      \/ q = [op |-> "Paste", commits |-> copied]
  BY DEF Asked
<1> QED
  BY <1>1, <1>2, <1>3, <1>4, <1>5, <1>6, <1>7

LEMMA RequestFair ==
  ASSUME NEW q \in Asked(detail)
  PROVE  Fair(Request(q))
<1>1. PICK al \in BOOLEAN : al = (Detail(git, view) = detail)
  OBVIOUS
<1>2. Request(q) = [q |-> q, before |-> git, alone |-> al]
  BY <1>1 DEF Request
<1>3. al /\ q.op = "ResetBisect" => git.bisect.active
  <2>1. Detail(git, view).bisect.active = git.bisect.active
    BY DEF Detail
  <2> QED
    BY <2>1, <1>1, AskedBisect
<1> QED
  BY <1>2, <1>3 DEF Fair

LEMMA FreshCourse ==
  ASSUME NEW j, NEW g, NEW s, j.left = s,
         s \in {<<"begin">>, <<"all">>, <<"fixup", "autosquash">>, <<"bisectStart", "mark">>,
                <<"mark">>, <<"stopAt", "amend", "continue">>}
  PROVE  Course(j, g)
<1>1. /\ s # <<"autosquash">> /\ s # <<"amend">>
      /\ s # <<"amend", "continue">> /\ s # <<"continue">>
  OBVIOUS
<1> QED
  BY <1>1, Zenon DEF Course

LEMMA RunFair ==
  ASSUME NEW rq, Fair(rq), NEW j, j = Run(rq)
  PROVE  Fair(j) /\ Course(j, git)
<1>1. j.q = rq.q /\ j.before = rq.before /\ j.alone = rq.alone /\ j.left = <<"begin">>
  BY DEF Run
<1>2. Fair(j)
  BY <1>1 DEF Fair
<1> QED
  BY <1>1, <1>2, FreshCourse

LEMMA BeginCourse ==
  ASSUME Inv, Courses, Begin
  PROVE  Courses'
<1>1. /\ job # None /\ job.left = <<"begin">> /\ job' = [job EXCEPT !.left = Processes(job.q)]
      /\ git' = git /\ modal' = modal
  BY DEF Begin
<1>2. job \in Jobs /\ Stage(job, git) /\ Fair(job)
  BY <1>1 DEF Inv, Running, Courses
<1>3. PICK q \in Questions : q = job.q
  BY <1>2 DEF Jobs
<1>4. PICK s \in Seq(Phases) : s = Processes(q)
  BY PhaseSeqs DEF Processes
<1>5. PICK j : j = [job EXCEPT !.left = s]
  OBVIOUS
<1>6. /\ j \in Jobs /\ j.q = q /\ j.left = s /\ j.before = job.before /\ j.alone = job.alone
  BY <1>2, <1>3, <1>4, <1>5 DEF Jobs
<1>7. job' = j
  BY <1>1, <1>3, <1>4, <1>5
<1>8. Course(j, git)
  <2>1. CASE q.op = "AmendAttributes" /\ q.c = git.head
    <3>1. s = <<"amend">>
      BY <1>4, <2>1 DEF Processes
    <3>2. <<"amend">> # <<"autosquash">> /\ <<"amend">> # <<"amend", "continue">>
          /\ <<"amend">> # <<"continue">>
      OBVIOUS
    <3> QED
      BY <3>1, <3>2, <2>1, <1>6 DEF Course
  <2>2. CASE ~(q.op = "AmendAttributes" /\ q.c = git.head)
    <3>1. s \in {<<"begin">>, <<"all">>, <<"fixup", "autosquash">>, <<"bisectStart", "mark">>,
                 <<"mark">>, <<"stopAt", "amend", "continue">>}
      BY <1>4, <2>2 DEF Processes
    <3> QED
      BY <3>1, <1>6, FreshCourse
  <2> QED
    BY <2>1, <2>2
<1>9. Fair(j)
  BY <1>2, <1>3, <1>6 DEF Fair
<1> QED
  BY <1>1, <1>7, <1>8, <1>9 DEF Courses

\* A job whose next process is not its last, where it is.
LEMMA MoreStages ==
  ASSUME NEW j, NEW g, Stage(j, g), j.left # <<"begin">>, Len(j.left) # 1
  PROVE  \/ j.left = <<"fixup", "autosquash">> /\ j.q.op = "Fixup" /\ (j.alone => g = j.before)
         \/ /\ j.left = <<"stopAt", "amend", "continue">> /\ j.q.op = "AmendAttributes"
            /\ j.alone => g = j.before
         \/ j.left = <<"amend", "continue">> /\ j.q.op = "AmendAttributes"
         \/ j.left = <<"bisectStart", "mark">> /\ j.q.op = "StartBisect"
<1>1. /\ Len(<<"all">>) = 1 /\ Len(<<"autosquash">>) = 1 /\ Len(<<"continue">>) = 1
      /\ Len(<<"amend">>) = 1 /\ Len(<<"mark">>) = 1
  OBVIOUS
<1> QED
  BY <1>1 DEF Stage

\* A process that is not the last has one outcome.
LEMMA OneOutcome ==
  ASSUME job.left # <<"begin">>, Len(job.left) # 1, Stage(job, git),
         NEW r \in Outcomes, NEW s \in Outcomes
  PROVE  r = s
<1>1. /\ Head(<<"fixup", "autosquash">>) = "fixup" /\ Head(<<"bisectStart", "mark">>) = "bisectStart"
      /\ Head(<<"stopAt", "amend", "continue">>) = "stopAt"
      /\ Head(<<"amend", "continue">>) = "amend"
  OBVIOUS
<1>2. Head(job.left) \in {"fixup", "stopAt", "amend", "bisectStart"}
  BY <1>1, MoreStages
<1>3. CASE Head(job.left) = "fixup"
  <2>1. PICK x : Outcomes = x /\ x = CommitIndex(git, Last(job.q.c).subj, TRUE)
    BY <1>3 DEF Outcomes
  <2>2. \E d : x = {d}
    BY <2>1 DEF CommitIndex, Fails, Done
  <2> QED
    BY <2>1, <2>2
<1>4. CASE Head(job.left) = "stopAt"
  <2>1. PICK x : Outcomes = x /\ x = ScriptedRebase(git, job.q.c, "edit", FALSE)
    BY <1>4 DEF Outcomes
  <2>2. \E d : x = {d}
    BY <2>1 DEF ScriptedRebase, Fails, RunTodo
  <2> QED
    BY <2>1, <2>2
<1>5. CASE Head(job.left) = "amend"
  <2>1. PICK x : Outcomes = x /\ x = AmendAttributes(git)
    BY <1>5 DEF Outcomes
  <2>2. \E d : x = {d}
    BY <2>1 DEF AmendAttributes, Fails, Done
  <2> QED
    BY <2>1, <2>2
<1>6. CASE Head(job.left) = "bisectStart"
  <2>1. PICK x : Outcomes = x /\ x = BisectStart(git)
    BY <1>6 DEF Outcomes
  <2>2. \E d : x = {d}
    BY <2>1 DEF BisectStart, Done
  <2> QED
    BY <2>1, <2>2
<1> QED
  BY <1>2, <1>3, <1>4, <1>5, <1>6

LEMMA FixupCourse ==
  ASSUME git \in Repositories, job \in Jobs, job.left = <<"fixup", "autosquash">>,
         job.q.op = "Fixup", job.alone => git = job.before, NEW r \in Outcomes, r.ok,
         NEW k, k.left = Tail(job.left), k.q = job.q, k.before = job.before, k.alone = job.alone
  PROVE  Course(k, r.g)
<1>1. /\ Head(<<"fixup", "autosquash">>) = "fixup"
      /\ Tail(<<"fixup", "autosquash">>) = <<"autosquash">>
      /\ <<"autosquash">> # <<"amend">> /\ <<"autosquash">> # <<"continue">>
      /\ <<"autosquash">> # <<"amend", "continue">>
  OBVIOUS
<1>2. Head(job.left) = "fixup" /\ Tail(job.left) = <<"autosquash">>
  BY <1>1
<1>3. PICK subj \in Subjects : subj = Last(job.q.c).subj
  <2>1. job.q \in Questions
    BY DEF Jobs
  <2>2. job.q.c \in Listed
    BY <2>1, QuestionFields DEF OfCommit
  <2> QED
    BY <2>2, LastSubject
<1>4. r \in CommitIndex(git, subj, TRUE)
  BY <1>2, <1>3 DEF Outcomes
<1>5. Staged(git, StagedIn(git, subj), r.g)
  BY <1>4, FixupMade
<1> QED
  BY <1>1, <1>2, <1>3, <1>5, Zenon DEF Course

LEMMA StopAtCourse ==
  ASSUME git \in Repositories, job \in Jobs, job.left = <<"stopAt", "amend", "continue">>,
         job.q.op = "AmendAttributes", job.alone => git = job.before, NEW r \in Outcomes, r.ok,
         NEW k, k.left = Tail(job.left), k.q = job.q, k.before = job.before, k.alone = job.alone
  PROVE  Course(k, r.g)
<1>1. /\ Head(<<"stopAt", "amend", "continue">>) = "stopAt"
      /\ Tail(<<"stopAt", "amend", "continue">>) = <<"amend", "continue">>
      /\ <<"amend", "continue">> # <<"amend">> /\ <<"amend", "continue">> # <<"continue">>
      /\ <<"amend", "continue">> # <<"autosquash">>
  OBVIOUS
<1>2. Head(job.left) = "stopAt" /\ Tail(job.left) = <<"amend", "continue">>
  BY <1>1
<1>3. PICK c \in Listed : c = job.q.c
  <2>1. job.q \in Questions
    BY DEF Jobs
  <2> QED
    BY <2>1, QuestionFields DEF OfCommit
<1>4. r \in ScriptedRebase(git, c, "edit", FALSE)
  BY <1>2, <1>3 DEF Outcomes
<1>5. Ancestor(c, git.head) => Paused(git, c, r.g) /\ r.g.head = c
  <2> HAVE Ancestor(c, git.head)
  <2>1. /\ StaysPut(git, r.g) /\ r.g.head = c
        /\ r.g.op # NoOp /\ r.g.op.kind = "rebase" /\ r.g.op.stop = "edit"
        /\ r.g.op.orig = git.head /\ r.g.op.on = git.on /\ r.g.op.todo = Upper(git.head, c)
        /\ r.g.index = TreeOf(c) /\ r.g.tree = TreeOf(c)
    BY <1>4, EditAs
  <2> QED
    BY <2>1 DEF Paused
<1> QED
  BY <1>1, <1>2, <1>3, <1>5, Zenon DEF Course

LEMMA AmendCourse ==
  ASSUME git \in Repositories, job \in Jobs, job.left = <<"amend", "continue">>,
         job.q.op = "AmendAttributes", Course(job, git), NEW r \in Outcomes, r.ok,
         NEW k, k.left = Tail(job.left), k.q = job.q, k.before = job.before, k.alone = job.alone
  PROVE  Course(k, r.g)
<1>1. /\ Head(<<"amend", "continue">>) = "amend"
      /\ Tail(<<"amend", "continue">>) = <<"continue">>
      /\ <<"continue">> # <<"amend">> /\ <<"continue">> # <<"amend", "continue">>
      /\ <<"continue">> # <<"autosquash">>
  OBVIOUS
<1>2. Head(job.left) = "amend" /\ Tail(job.left) = <<"continue">>
  BY <1>1
<1>3. r \in AmendAttributes(git)
  BY <1>2 DEF Outcomes
<1>4. PICK c : c = job.q.c
  OBVIOUS
<1>5. job.alone /\ Ancestor(c, job.before.head) => Paused(job.before, c, git) /\ git.head = c
  BY <1>4 DEF Course
<1>6. Paused(job.before, c, git) /\ git.head = c => Paused(job.before, c, r.g) /\ r.g.head = Signed(c)
  BY <1>3, PausedAmend
<1> QED
  BY <1>1, <1>2, <1>4, <1>5, <1>6, Zenon DEF Course

LEMMA ProcessCourse ==
  ASSUME Inv, Courses, Process
  PROVE  Courses'
<1>1. job # None /\ job.left # <<"begin">> /\ modal' = modal
  BY DEF Process
<1>2. PICK r \in Outcomes :
          /\ git' = r.g
          /\ IF ~r.ok \/ Len(job.left) = 1 THEN Ends
             ELSE job' = [job EXCEPT !.left = Tail(@)] /\ stale' = stale
  BY DEF Process
<1>3. job \in Jobs /\ Stage(job, git) /\ Fair(job) /\ Course(job, git) /\ git \in Repositories
  BY <1>1 DEF Inv, Typed, Running, Courses
<1>4. CASE Ends
  BY <1>1, <1>4 DEF Ends, Courses
<1>5. CASE ~Ends
  <2>1. r.ok /\ Len(job.left) # 1
    BY <1>2, <1>5
  <2>2. PICK k : k = [job EXCEPT !.left = Tail(@)]
    OBVIOUS
  <2>3. k.left = Tail(job.left) /\ k.q = job.q /\ k.before = job.before /\ k.alone = job.alone
    BY <1>3, <2>2 DEF Jobs
  <2>4. Course(k, r.g)
    <3>1. CASE /\ job.left = <<"fixup", "autosquash">> /\ job.q.op = "Fixup"
               /\ job.alone => git = job.before
      BY <1>3, <2>1, <2>3, <3>1, FixupCourse
    <3>2. CASE /\ job.left = <<"stopAt", "amend", "continue">> /\ job.q.op = "AmendAttributes"
               /\ job.alone => git = job.before
      BY <1>3, <2>1, <2>3, <3>2, StopAtCourse
    <3>3. CASE job.left = <<"amend", "continue">> /\ job.q.op = "AmendAttributes"
      BY <1>3, <2>1, <2>3, <3>3, AmendCourse
    <3>4. CASE job.left = <<"bisectStart", "mark">>
      <4>1. Tail(<<"bisectStart", "mark">>) = <<"mark">>
        OBVIOUS
      <4>2. k.left = <<"mark">>
        BY <2>3, <3>4, <4>1
      <4> QED
        BY <4>2, FreshCourse
    <3> QED
      BY <1>1, <1>3, <2>1, <3>1, <3>2, <3>3, <3>4, MoreStages
  <2>5. Fair(k)
    BY <1>3, <2>3 DEF Fair
  <2>6. job' = k
    BY <1>2, <1>5, <2>2
  <2> QED
    BY <1>1, <1>2, <2>4, <2>5, <2>6 DEF Courses
<1> QED
  BY <1>4, <1>5

LEMMA CoursesHold == Inv /\ Courses /\ [Next]_vars => Courses'
<1> SUFFICES ASSUME Inv, Courses, [Next]_vars
             PROVE  Courses'
  OBVIOUS
<1>1. CASE Ask
  <2>1. PICK q \in Asked(detail) : IF q.op \in AtOnce
                                   THEN job' = Run(Request(q)) /\ modal' = modal
                                   ELSE modal' = Request(q) /\ job' = job
    BY <1>1 DEF Ask
  <2>2. job = None /\ modal = None /\ git' = git
    BY <1>1 DEF Ask, Input, Idle
  <2>3. PICK rq : rq = Request(q) /\ Fair(rq)
    BY RequestFair
  <2>4. PICK j : j = Run(rq) /\ Fair(j) /\ Course(j, git)
    BY <2>3, RunFair
  <2> QED
    BY <2>1, <2>2, <2>3, <2>4 DEF Courses
<1>2. CASE Submit
  <2>1. modal # None /\ job' = Run(modal) /\ modal' = None /\ git' = git
    BY <1>2 DEF Submit
  <2>2. PICK rq : rq = modal /\ Fair(rq)
    BY <2>1 DEF Courses
  <2>3. PICK j : j = Run(rq) /\ Fair(j) /\ Course(j, git)
    BY <2>2, RunFair
  <2> QED
    BY <2>1, <2>2, <2>3 DEF Courses
<1>3. CASE Cancel
  BY <1>3 DEF Cancel, Courses
<1>4. CASE Begin
  BY <1>4, BeginCourse
<1>5. CASE Process
  BY <1>5, ProcessCourse
<1>6. CASE ProcessFails
  BY <1>6 DEF ProcessFails, Ends, Courses
<1>7. CASE Outside
  <2>1. job' = Alone(job) /\ modal' = Alone(modal)
    BY <1>7 DEF Outside
  <2>2. modal' # None => modal \in Requests /\ modal' = [modal EXCEPT !.alone = FALSE]
    BY <2>1 DEF Alone, Inv, Waiting
  <2>3. job' # None => job \in Jobs /\ job' = [job EXCEPT !.alone = FALSE]
    BY <2>1 DEF Alone, Inv, Running
  <2>4. modal' # None => modal'.alone = FALSE
    BY <2>2 DEF Requests
  <2>5. job' # None => job'.alone = FALSE
    BY <2>3 DEF Jobs
  <2> QED
    BY <2>4, <2>5 DEF Courses, Fair, Course
<1>8. CASE UNCHANGED <<git, modal, job>>
  BY <1>8 DEF Courses
<1>9. CASE CopySelectedCommitForCherryPick \/ LoadRepoDetail \/ Refresh \/ UNCHANGED vars
  <2>1. UNCHANGED <<git, modal, job>>
    BY <1>9 DEF CopySelectedCommitForCherryPick, Input, LoadRepoDetail, Refresh, vars
  <2> QED
    BY <2>1, <1>8
<1> QED
  BY <1>1, <1>2, <1>3, <1>4, <1>5, <1>6, <1>7, <1>9 DEF Next, User, Command

\* What a command that succeeds has done, of what was there when it was asked for.
Asking(j, v) ==
    /\ /\ j.q.op \in Rewriting \union {"Revert"} /\ j.before.op = NoOp
       /\ Ancestor(j.q.c, j.before.head)
       => Did(j.q, j.before, v)
    /\ MeantOf(j.q, j.before, v)

LEMMA AllAsks ==
  ASSUME git \in Repositories, job \in Jobs, job.left = <<"all">>, job.q.op \in Single,
         git = job.before, job.q.op = "ResetBisect" => job.before.bisect.active,
         NEW r \in Outcomes, r.ok
  PROVE  Asking(job, r.g)
<1>1. Head(<<"all">>) = "all"
  OBVIOUS
<1>2. PICK q \in Questions : q = job.q
  BY DEF Jobs
<1>3. r \in SingleProcess(git, q)
  BY <1>1, <1>2 DEF Outcomes
<1>4. q.op = "ResetBisect" => git.bisect.active
  BY <1>2
<1>5. MeantOf(q, git, r.g)
  BY <1>3, <1>4, SingleDidOf
<1>6. ASSUME q.op \in Rewriting \union {"Revert"}, Ancestor(q.c, git.head)
      PROVE  Did(q, git, r.g)
  <2>1. q.op \in Single
    BY <1>2
  <2> QED
    BY <1>3, <1>6, <2>1, SingleDid
<1> QED
  BY <1>2, <1>5, <1>6 DEF Asking

LEMMA FixupAsks ==
  ASSUME git \in Repositories, job \in Jobs, job.left = <<"autosquash">>, job.q.op = "Fixup",
         Staged(job.before, StagedIn(job.before, Last(job.q.c).subj), git),
         NEW r \in Outcomes, r.ok
  PROVE  Asking(job, r.g)
<1>1. Head(<<"autosquash">>) = "autosquash"
  OBVIOUS
<1>2. PICK q \in Questions, b \in Repositories : q = job.q /\ b = job.before
  BY DEF Jobs
<1>3. PICK c \in Listed : c = q.c
  BY <1>2, QuestionFields DEF OfCommit
<1>4. r \in ScriptedRebase(git, c, "pick", TRUE)
  BY <1>1, <1>2, <1>3 DEF Outcomes
<1>5. PICK made : made = StagedIn(b, Last(c).subj)
  OBVIOUS
<1>6. /\ made \in Changes /\ git.head = Append(b.head, made) /\ git.head \in AllCommits
      /\ TreeOf(git.head) = b.index /\ git.op = b.op /\ git.on = b.on
      /\ \A n \in Branches : n # b.on => git.branch[n] = b.branch[n]
  BY <1>2, <1>3, <1>5 DEF Staged
<1>7. made.fix /\ made.subj = Last(c).subj
  BY <1>5 DEF StagedIn
<1>8. PICK h \in AllCommits : h = b.head
  BY RepoParts DEF Shapes
<1>9. ASSUME Ancestor(c, h)
      PROVE  Did(q, b, r.g)
  <2>1. git.head = Append(h, made)
    BY <1>6, <1>8
  <2>2. StaysPut(git, r.g) /\ FixupLeft(h, Len(c), made, r.g.head)
    BY <1>4, <1>6, <1>7, <1>9, <2>1, FixupAs
  <2>3. StaysPut(b, r.g)
    BY <1>6, <2>2 DEF StaysPut
  <2>4. Last(c) = h[Len(c)]
    BY <1>9, BelowOf
  <2>5. made = [add |-> b.index \ TreeOf(h), del |-> TreeOf(h) \ b.index, subj |-> h[Len(c)].subj,
                by |-> "us", fix |-> TRUE]
    BY <1>5, <1>8, <2>4 DEF StagedIn
  <2>6. TreeOf(Append(h, made)) = b.index
    BY <1>6, <2>1
  <2>7. Meant(q, b, r.g)
    BY <1>2, <1>3, <1>8, <2>2, <2>5, <2>6 DEF Meant, FixupLeft
  <2> QED
    BY <2>3, <2>7 DEF Did
<1>10. MeantOf(q, b, r.g)
  BY <1>2, MeantOther DEF OfNoCommit
<1> QED
  BY <1>2, <1>3, <1>8, <1>9, <1>10 DEF Asking

LEMMA AmendAsks ==
  ASSUME git \in Repositories, job \in Jobs, job.left = <<"amend">>, job.q.op = "AmendAttributes",
         git = job.before, git.head = job.q.c, NEW r \in Outcomes, r.ok
  PROVE  Asking(job, r.g)
<1>1. Head(<<"amend">>) = "amend"
  OBVIOUS
<1>2. PICK q : q = job.q
  OBVIOUS
<1>3. r \in AmendAttributes(git)
  BY <1>1 DEF Outcomes
<1>4. ASSUME git.op = NoOp
      PROVE  Did(q, git, r.g)
  <2>1. r.g.head = [git.head EXCEPT ![Len(git.head)].by = "us"] /\ StaysPut(git, r.g)
    BY <1>3, <1>4, AmendedAs
  <2> QED
    BY <1>2, <2>1 DEF Did, Meant
<1>5. MeantOf(q, git, r.g)
  BY <1>2, MeantOther DEF OfNoCommit
<1> QED
  BY <1>2, <1>4, <1>5 DEF Asking

LEMMA ContinueAsks ==
  ASSUME git \in Repositories, job \in Jobs, job.left = <<"continue">>,
         job.q.op = "AmendAttributes",
         Ancestor(job.q.c, job.before.head) =>
             /\ Begun(job.before, git) /\ Paused(job.before, job.q.c, git)
             /\ git.head = Signed(job.q.c),
         NEW r \in Outcomes, r.ok
  PROVE  Asking(job, r.g)
<1>1. Head(<<"continue">>) = "continue"
  OBVIOUS
<1>2. PICK q \in Questions, b \in Repositories : q = job.q /\ b = job.before
  BY DEF Jobs
<1>3. PICK c \in Listed : c = q.c
  BY <1>2, QuestionFields DEF OfCommit
<1>4. r \in ContinueRebase(git)
  BY <1>1 DEF Outcomes
<1>5. ASSUME Ancestor(c, b.head)
      PROVE  Did(q, b, r.g)
  <2>1. Begun(b, git) /\ Paused(b, c, git) /\ git.head = Signed(c)
    BY <1>2, <1>3, <1>5
  <2>2. r.g.head = [b.head EXCEPT ![Len(c)].by = "us"] /\ StaysPut(b, r.g)
    BY <1>4, <1>5, <2>1, AmendGoesOn
  <2> QED
    BY <1>2, <1>3, <2>2 DEF Did, Meant
<1>6. MeantOf(q, b, r.g)
  BY <1>2, MeantOther DEF OfNoCommit
<1> QED
  BY <1>2, <1>3, <1>5, <1>6 DEF Asking

LEMMA LastAsks ==
  ASSUME Inv, Courses, job # None, job.alone, job.left # <<"begin">>, Len(job.left) = 1,
         NEW r \in Outcomes, r.ok
  PROVE  Asking(job, r.g)
<1>1. /\ job \in Jobs /\ Stage(job, git) /\ Fair(job) /\ Course(job, git) /\ git \in Repositories
  BY DEF Inv, Typed, Running, Courses
<1>2. /\ Len(<<"fixup", "autosquash">>) # 1 /\ Len(<<"stopAt", "amend", "continue">>) # 1
      /\ Len(<<"amend", "continue">>) # 1 /\ Len(<<"bisectStart", "mark">>) # 1
  OBVIOUS
<1>3. CASE job.left = <<"all">> /\ job.q.op \in Single /\ git = job.before
  BY <1>1, <1>3, AllAsks DEF Fair
<1>4. CASE job.left = <<"autosquash">> /\ job.q.op = "Fixup"
  <2>1. Staged(job.before, StagedIn(job.before, Last(job.q.c).subj), git)
    BY <1>1, <1>4 DEF Course
  <2> QED
    BY <1>1, <1>4, <2>1, FixupAsks
<1>5. CASE job.left = <<"amend">> /\ job.q.op = "AmendAttributes" /\ git = job.before
  <2>1. git.head = job.q.c
    BY <1>1, <1>5 DEF Course
  <2> QED
    BY <1>1, <1>5, <2>1, AmendAsks
<1>6. CASE job.left = <<"continue">> /\ job.q.op = "AmendAttributes"
           /\ (Ancestor(job.q.c, job.before.head) => Begun(job.before, git))
  <2>1. Ancestor(job.q.c, job.before.head) =>
            Paused(job.before, job.q.c, git) /\ git.head = Signed(job.q.c)
    BY <1>1, <1>6 DEF Course
  <2> QED
    BY <1>1, <1>6, <2>1, ContinueAsks
<1>7. CASE job.left = <<"mark">> /\ job.q.op = "StartBisect"
  BY <1>7 DEF Asking, Rewriting, MeantOf
<1> QED
  BY <1>1, <1>2, <1>3, <1>4, <1>5, <1>6, <1>7 DEF Stage

\* A step in which a command succeeds is its last process.
LEMMA SucceedsLast ==
  ASSUME Inv, [Next]_vars, Succeeds
  PROVE  /\ job # None /\ job.left # <<"begin">> /\ Len(job.left) = 1
         /\ \E r \in Outcomes : r.ok /\ r.g = git'
<1>1. job # None /\ job' = None /\ faults' = faults
  BY DEF Succeeds, Ended
<1>2. PICK r \in Outcomes : r.ok /\ r.g = git'
  BY DEF Succeeds
<1>3. ~Ask /\ ~CopySelectedCommitForCherryPick /\ ~Submit /\ ~Cancel
      /\ ~LoadRepoDetail /\ ~Refresh /\ ~UNCHANGED vars
  BY <1>1 DEF Ask, CopySelectedCommitForCherryPick, Input, Submit, Cancel, Idle, LoadRepoDetail,
              Refresh, vars
<1>4. ~Outside /\ ~Begin
  BY <1>1, OutsideHolds, BeginHolds
<1>5. ~ProcessFails
  BY <1>1 DEF ProcessFails, Inv, Typed
<1>6. Process
  BY <1>3, <1>4, <1>5 DEF Next, User, Command
<1>7. job.left # <<"begin">> /\ job \in Jobs /\ Stage(job, git)
  BY <1>1, <1>6 DEF Process, Inv, Running
<1>8. ASSUME Len(job.left) # 1
      PROVE  FALSE
  <2>1. PICK s \in Outcomes :
            IF ~s.ok \/ Len(job.left) = 1 THEN Ends
            ELSE job' = [job EXCEPT !.left = Tail(@)] /\ stale' = stale
    BY <1>6 DEF Process
  <2>2. s = r
    BY <1>2, <1>7, <1>8, <2>1, OneOutcome
  <2>3. job' = [job EXCEPT !.left = Tail(@)]
    BY <1>2, <1>8, <2>1, <2>2
  <2>4. Follows(job, git, r)
    BY <1>1, <1>7, ProcessFollows
  <2>5. job' \in Jobs
    BY <1>2, <1>8, <2>3, <2>4 DEF Follows
  <2> QED
    BY <1>1, <2>5, NoneAssumption
<1> QED
  BY <1>1, <1>2, <1>7, <1>8

\* A command on a commit of HEAD's history that reports success, while others leave the
\* repository alone, has done to it what it is called and nothing else, whatever the
\* history, its length and the changes in it; a rebase onto a branch keeps the own
\* commits, a checkout and the end of a bisect what is not committed.
THEOREM RewritesHold == Spec => RewritesAsAsked
<1> DEFINE A == Succeeds /\ job.alone =>
         /\ /\ job.q.op \in Rewriting \union {"Revert"} /\ job.before.op = NoOp
            /\ Ancestor(job.q.c, job.before.head)
            => Meant(job.q, job.before, git') /\ StaysPut(job.before, git')
         /\ MeantOf(job.q, job.before, git')
<1>1. Init => Courses
  BY DEF Init, Courses
<1>2. Inv /\ Courses /\ [Next]_vars => [A]_vars
  <2> SUFFICES ASSUME Inv, Courses, [Next]_vars, Succeeds, job.alone
               PROVE  A
    OBVIOUS
  <2>1. job # None /\ job.left # <<"begin">> /\ Len(job.left) = 1
        /\ \E r \in Outcomes : r.ok /\ r.g = git'
    BY SucceedsLast
  <2>2. PICK r \in Outcomes : r.ok /\ r.g = git'
    BY <2>1
  <2>3. Asking(job, git')
    BY <2>1, <2>2, LastAsks
  <2> QED
    BY <2>3 DEF Asking, Did
<1> QED
  BY <1>1, <1>2, InvHolds, NextHolds, CoursesHold, PTL DEF Spec, RewritesAsAsked

=============================================================================
