------------------------- MODULE WorkingCopyProofs -------------------------
(***************************************************************************)
(* What WorkingCopy promises for every set of edits, every working copy it *)
(* may be opened on, and every bound: what a command may lose, that        *)
(* a stash leaves the commits alone, and that it does what it is for.      *)
(***************************************************************************)
EXTENDS WorkingCopy, SequenceTheorems, TLAPS

-----------------------------------------------------------------------------
(* Sequences, and the sets of what they hold.                              *)

LEMMA Elements ==
  ASSUME NEW S, NEW q \in Seq(S)
  PROVE  /\ ToSet(q) \subseteq S
         /\ \A i \in 1..Len(q) : q[i] \in ToSet(q)
         /\ Len(q) \in Nat /\ DOMAIN q = 1..Len(q)
         /\ q # <<>> => Len(q) >= 1 /\ Last(q) \in ToSet(q) /\ Head(q) = q[1]
<1>1. Len(q) \in Nat /\ DOMAIN q = 1..Len(q) /\ \A i \in 1..Len(q) : q[i] \in S
  BY LenProperties, ElementOfSeq
<1>2. q # <<>> => Len(q) >= 1
  BY <1>1, EmptySeq
<1> QED
  BY <1>1, <1>2 DEF ToSet, Last

LEMMA Appended ==
  ASSUME NEW S, NEW q \in Seq(S), NEW x \in S
  PROVE  /\ Append(q, x) \in Seq(S) \ {<<>>}
         /\ ToSet(Append(q, x)) = ToSet(q) \cup {x}
         /\ Last(Append(q, x)) = x
         /\ Len(Append(q, x)) = Len(q) + 1
<1> DEFINE r == Append(q, x)
<1>1. /\ r \in Seq(S) /\ Len(r) = Len(q) + 1
      /\ \A i \in 1..Len(q) : r[i] = q[i]
      /\ r[Len(q) + 1] = x
  BY AppendProperties
<1> HIDE DEF r
<1>2. Len(q) \in Nat /\ DOMAIN r = 1..Len(q) + 1 /\ DOMAIN q = 1..Len(q)
  BY <1>1, LenProperties
<1>3. r # <<>>
  BY <1>1, <1>2, EmptySeq
<1> QED
  BY <1>1, <1>2, <1>3 DEF ToSet, Last, r

LEMMA Pushed ==
  ASSUME NEW S, NEW q \in Seq(S), NEW x \in S
  PROVE  /\ <<x>> \o q \in Seq(S) \ {<<>>}
         /\ ToSet(<<x>> \o q) = {x} \cup ToSet(q)
         /\ Head(<<x>> \o q) = x /\ Tail(<<x>> \o q) = q
         /\ Len(<<x>> \o q) = Len(q) + 1
         /\ (<<x>> \o q)[1] = x
         /\ \A i \in 1..Len(q) : (<<x>> \o q)[i + 1] = q[i]
<1> DEFINE r == <<x>> \o q
<1>1. <<x>> \in Seq(S) /\ Len(<<x>>) = 1 /\ <<x>>[1] = x /\ Len(q) \in Nat
  BY LenProperties
<1>2. /\ r \in Seq(S) /\ Len(r) = 1 + Len(q)
      /\ \A i \in 1..1 + Len(q) : r[i] = IF i <= 1 THEN <<x>>[i] ELSE q[i - 1]
  BY <1>1, ConcatProperties
<1> HIDE DEF r
<1>3. r[1] = x /\ \A i \in 1..Len(q) : r[i + 1] = q[i]
  BY <1>1, <1>2
<1>4. DOMAIN r = 1..1 + Len(q) /\ DOMAIN q = 1..Len(q)
  BY <1>2, LenProperties
<1>5. r # <<>>
  BY <1>1, <1>2, EmptySeq
<1>6. Head(r) = x
  BY <1>2, <1>3, <1>5
<1>7. Tail(r) = q
  <2>1. /\ Tail(r) \in Seq(S) /\ Len(Tail(r)) = Len(r) - 1
        /\ \A i \in 1..Len(Tail(r)) : Tail(r)[i] = r[i + 1]
    BY <1>2, <1>5, HeadTailProperties
  <2>2. Len(Tail(r)) = Len(q) /\ \A i \in 1..Len(q) : Tail(r)[i] = q[i]
    BY <1>1, <1>2, <1>3, <2>1
  <2> QED
    BY <2>1, <2>2, SeqEqual
<1>8. ToSet(r) = {x} \cup ToSet(q)
  <2>1. ToSet(r) \subseteq {x} \cup ToSet(q)
    <3> SUFFICES ASSUME NEW i \in 1..1 + Len(q) PROVE r[i] \in {x} \cup ToSet(q)
      BY <1>4 DEF ToSet
    <3>1. CASE i = 1
      BY <1>3, <3>1
    <3>2. CASE i # 1
      <4>1. i - 1 \in 1..Len(q) /\ r[i] = q[i - 1]
        BY <1>1, <1>2, <3>2
      <4> QED
        BY <1>4, <4>1 DEF ToSet
    <3> QED
      BY <3>1, <3>2
  <2>2. \A i \in 1..Len(q) : q[i] \in ToSet(r)
    BY <1>1, <1>3, <1>4 DEF ToSet
  <2>3. x \in ToSet(r)
    BY <1>1, <1>3, <1>4 DEF ToSet
  <2> QED
    BY <1>4, <2>1, <2>2, <2>3 DEF ToSet
<1> QED
  BY <1>1, <1>2, <1>3, <1>5, <1>6, <1>7, <1>8 DEF r

LEMMA Fronted ==
  ASSUME NEW S, NEW q \in Seq(S), q # <<>>
  PROVE  /\ Front(q) \in Seq(S)
         /\ Len(Front(q)) = Len(q) - 1
         /\ ToSet(q) = ToSet(Front(q)) \cup {Last(q)}
         /\ Last(q) \in S
         /\ Len(q) # 1 => Front(q) # <<>>
         /\ \A i \in 1..Len(q) - 1 : Front(q)[i] = q[i]
<1>0. Len(q) \in Nat /\ Len(q) >= 1 /\ DOMAIN q = 1..Len(q) /\ \A i \in 1..Len(q) : q[i] \in S
  BY Elements, ElementOfSeq
<1> PICK m \in Nat : m = Len(q)
  BY <1>0
<1> PICK r : r = Front(q)
  OBVIOUS
<1>1. /\ r \in Seq(S)
      /\ Len(r) = IF 1 <= m - 1 THEN m - 1 - 1 + 1 ELSE 0
      /\ \A i \in 1..(m - 1 - 1 + 1) : r[i] = q[1 + i - 1]
  <2>1. \A i \in 1..(m - 1) : q[i] \in S
    BY <1>0
  <2>2. m - 1 \in Int
    BY <1>0
  <2>3. /\ SubSeq(q, 1, m - 1) \in Seq(S)
        /\ Len(SubSeq(q, 1, m - 1)) = IF 1 <= m - 1 THEN m - 1 - 1 + 1 ELSE 0
        /\ \A i \in 1..(m - 1 - 1 + 1) : SubSeq(q, 1, m - 1)[i] = q[1 + i - 1]
    BY <2>1, <2>2, SubSeqProperties
  <2> QED
    BY <2>3 DEF Front
<1>2. m >= 1
  BY <1>0
<1>3. Len(r) = m - 1
  BY <1>1, <1>2
<1>4. \A i \in 1..m - 1 : r[i] = q[i]
  <2> TAKE i \in 1..m - 1
  <2>1. i \in 1..(m - 1 - 1 + 1) /\ 1 + i - 1 = i
    BY <1>2
  <2> QED
    BY <1>1, <2>1
<1>5. DOMAIN r = 1..m - 1
  BY <1>1, <1>3, LenProperties
<1>6. Last(q) = q[m]
  BY DEF Last
<1>7. ToSet(q) = ToSet(r) \cup {Last(q)}
  <2>1. ToSet(r) \subseteq ToSet(q)
    BY <1>0, <1>4, <1>5 DEF ToSet
  <2>2. Last(q) \in ToSet(q)
    BY <1>0, <1>6 DEF ToSet
  <2>3. \A i \in 1..m : q[i] \in ToSet(r) \cup {Last(q)}
    <3> TAKE i \in 1..m
    <3>1. CASE i = m
      BY <3>1, <1>6
    <3>2. CASE i # m
      <4>1. i \in 1..m - 1
        BY <1>2, <3>2
      <4>2. r[i] = q[i]
        BY <1>4, <4>1
      <4> QED
        BY <1>5, <4>1, <4>2 DEF ToSet
    <3> QED
      BY <3>1, <3>2
  <2> QED
    BY <1>0, <2>1, <2>2, <2>3 DEF ToSet
<1>8. Last(q) \in S
  BY <1>0, <1>6
<1>9. m # 1 => r # <<>>
  BY <1>2, <1>3, EmptySeq
<1> QED
  BY <1>1, <1>3, <1>4, <1>7, <1>8, <1>9

LEMMA FrontAppended ==
  ASSUME NEW S, NEW q \in Seq(S), NEW x \in S
  PROVE  Front(Append(q, x)) = q
<1> DEFINE r == Append(q, x)
<1>1. r \in Seq(S) /\ r # <<>> /\ Len(r) = Len(q) + 1
  BY Appended
<1>2. \A i \in 1..Len(q) : r[i] = q[i]
  BY AppendProperties
<1> HIDE DEF r
<1>3. Front(r) \in Seq(S) /\ Len(Front(r)) = Len(q) /\ Len(q) \in Nat
  BY <1>1, Fronted, LenProperties
<1>4. \A i \in 1..Len(q) : Front(r)[i] = r[i]
  <2>1. \A i \in 1..Len(r) - 1 : r[i] \in S
    BY <1>1, <1>3, ElementOfSeq
  <2>2. \A i \in 1..(Len(r) - 1 - 1 + 1) : SubSeq(r, 1, Len(r) - 1)[i] = r[1 + i - 1]
    BY <1>1, <1>3, <2>1, SubSeqProperties
  <2> QED
    BY <1>1, <1>3, <2>2 DEF Front
<1>5. \A i \in 1..Len(q) : Front(r)[i] = q[i]
  BY <1>2, <1>4
<1>6. Front(r) = q
  BY <1>3, <1>5, SeqEqual
<1> QED
  BY <1>6 DEF r

LEMMA Removed ==
  ASSUME NEW S, NEW q \in Seq(S), NEW k \in 1..Len(q)
  PROVE  /\ RemoveAt(q, k) \in Seq(S)
         /\ Len(RemoveAt(q, k)) = Len(q) - 1
         /\ \A i \in 1..Len(q) - 1 : RemoveAt(q, k)[i] = IF i < k THEN q[i] ELSE q[i + 1]
         /\ ToSet(RemoveAt(q, k)) \subseteq ToSet(q)
         /\ ToSet(q) = ToSet(RemoveAt(q, k)) \cup {q[k]}
<1> DEFINE a == SubSeq(q, 1, k - 1)
           b == SubSeq(q, k + 1, Len(q))
           r == a \o b
<1>0. Len(q) \in Nat /\ k \in Nat /\ \A i \in 1..Len(q) : q[i] \in S
  BY LenProperties, ElementOfSeq
<1>1. a \in Seq(S) /\ Len(a) = k - 1 /\ \A i \in 1..(k - 1) : a[i] = q[i]
  <2>1. \A i \in 1..(k - 1) : q[i] \in S
    BY <1>0
  <2> HIDE DEF a
  <2>2. /\ SubSeq(q, 1, k - 1) \in Seq(S)
        /\ Len(SubSeq(q, 1, k - 1)) = IF 1 <= k - 1 THEN k - 1 - 1 + 1 ELSE 0
        /\ \A i \in 1..(k - 1) - 1 + 1 : SubSeq(q, 1, k - 1)[i] = q[1 + i - 1]
    BY <1>0, <2>1, SubSeqProperties
  <2> QED
    BY <1>0, <2>2 DEF a
<1>2. b \in Seq(S) /\ Len(b) = Len(q) - k /\ \A i \in 1..Len(q) - k : b[i] = q[k + i]
  <2>1. \A i \in (k + 1)..Len(q) : q[i] \in S
    BY <1>0
  <2> HIDE DEF b
  <2>2. /\ SubSeq(q, k + 1, Len(q)) \in Seq(S)
        /\ Len(SubSeq(q, k + 1, Len(q))) = IF k + 1 <= Len(q) THEN Len(q) - (k + 1) + 1 ELSE 0
        /\ \A i \in 1..(Len(q) - (k + 1) + 1) : SubSeq(q, k + 1, Len(q))[i] = q[k + 1 + i - 1]
    BY <1>0, <2>1, SubSeqProperties
  <2> QED
    BY <1>0, <2>2 DEF b
<1> HIDE DEF a, b
<1>3. /\ r \in Seq(S) /\ Len(r) = Len(q) - 1
      /\ \A i \in 1..Len(q) - 1 : r[i] = IF i <= k - 1 THEN a[i] ELSE b[i - (k - 1)]
  BY <1>0, <1>1, <1>2, ConcatProperties
<1>4. RemoveAt(q, k) = r
  BY DEF RemoveAt, a, b
<1> HIDE DEF r
<1>5. \A i \in 1..Len(q) - 1 : r[i] = IF i < k THEN q[i] ELSE q[i + 1]
  <2> TAKE i \in 1..Len(q) - 1
  <2>1. CASE i < k
    BY <2>1, <1>0, <1>1, <1>3
  <2>2. CASE ~(i < k)
    <3>1. i - (k - 1) \in 1..Len(q) - k /\ k + (i - (k - 1)) = i + 1
      BY <2>2, <1>0
    <3>2. r[i] = b[i - (k - 1)]
      BY <2>2, <1>0, <1>3
    <3>3. b[i - (k - 1)] = q[k + (i - (k - 1))]
      BY <3>1, <1>2
    <3> QED
      BY <2>2, <3>1, <3>2, <3>3
  <2> QED
    BY <2>1, <2>2
<1>6. DOMAIN r = 1..Len(q) - 1 /\ DOMAIN q = 1..Len(q)
  BY <1>3, LenProperties
<1>7. ToSet(r) \subseteq ToSet(q)
  BY <1>0, <1>5, <1>6 DEF ToSet
<1>8. ToSet(q) \subseteq ToSet(r) \cup {q[k]}
  <2> SUFFICES ASSUME NEW i \in 1..Len(q) PROVE q[i] \in ToSet(r) \cup {q[k]}
    BY <1>6 DEF ToSet
  <2>1. CASE i < k
    BY <2>1, <1>0, <1>5, <1>6 DEF ToSet
  <2>2. CASE i > k
    <3>1. i - 1 \in 1..Len(q) - 1 /\ r[i - 1] = q[i]
      BY <2>2, <1>0, <1>5
    <3> QED
      BY <3>1, <1>6 DEF ToSet
  <2> QED
    BY <2>1, <2>2, <1>0
<1>9. q[k] \in ToSet(q)
  BY <1>6 DEF ToSet
<1> QED
  BY <1>3, <1>4, <1>5, <1>7, <1>8, <1>9

-----------------------------------------------------------------------------
(* What can be found in a working copy.                                    *)

Held(s) == Patch(s) \cup s.untracked

Gone(w, v) == Kept(w) \ (Kept(v) \cup v.index)

LEMMA Tip ==
  ASSUME NEW w \in WorkTrees
  PROVE  /\ HeadTree(w) \in SUBSET Edits /\ HeadTree(w) \in ToSet(w.log)
         /\ w.log \in Seq(SUBSET Edits) /\ w.log # <<>> /\ Len(w.log) \in Nat /\ Len(w.log) >= 1
<1>1. w.log \in Seq(SUBSET Edits) /\ w.log # <<>>
  BY DEF WorkTrees, Logs
<1>2. Last(w.log) \in ToSet(w.log) /\ ToSet(w.log) \subseteq SUBSET Edits
  BY <1>1, Elements
<1> QED
  BY <1>1, <1>2, Elements DEF HeadTree

LEMMA EntryType ==
  ASSUME NEW s \in Entries
  PROVE  Patch(s) \subseteq Edits /\ s.untracked \subseteq Edits /\ Held(s) \subseteq Edits
  BY DEF Entries, Patch, Held

LEMMA InKept ==
  ASSUME NEW w \in WorkTrees
  PROVE  /\ w.tree \subseteq Kept(w) /\ w.other \subseteq Kept(w)
         /\ \A t \in ToSet(w.log) : t \subseteq Kept(w)
         /\ \A s \in ToSet(w.stash) : Held(s) \subseteq Kept(w)
         /\ HeadTree(w) \subseteq Kept(w)
         /\ \A e \in Kept(w) : \/ \E t \in ToSet(w.log) : e \in t
                               \/ e \in w.tree \cup w.other
                               \/ \E s \in ToSet(w.stash) : e \in Held(s)
<1> DEFINE L == UNION ToSet(w.log)
           S == UNION {Held(s) : s \in ToSet(w.stash)}
<1>1. Kept(w) = L \cup w.other \cup w.tree \cup S
  BY DEF Kept, Held
<1>2. \A s \in ToSet(w.stash) : Held(s) \subseteq S
  OBVIOUS
<1>3. \A t \in ToSet(w.log) : t \subseteq L
  OBVIOUS
<1>4. \A e \in S : \E s \in ToSet(w.stash) : e \in Held(s)
  OBVIOUS
<1>5. \A e \in L : \E t \in ToSet(w.log) : e \in t
  OBVIOUS
<1> HIDE DEF S, L
<1>6. HeadTree(w) \subseteq L
  BY <1>3, Tip
<1> QED
  BY <1>1, <1>2, <1>3, <1>4, <1>5, <1>6

LEMMA KeptGrows ==
  ASSUME NEW w \in WorkTrees, NEW v \in WorkTrees, NEW X,
         ToSet(w.log) \subseteq ToSet(v.log), w.other \subseteq v.other,
         ToSet(w.stash) \subseteq ToSet(v.stash),
         w.tree \subseteq Kept(v) \cup X
  PROVE  Kept(w) \subseteq Kept(v) \cup X
<1> SUFFICES ASSUME NEW e \in Kept(w) PROVE e \in Kept(v) \cup X
  OBVIOUS
<1>1. CASE \E t \in ToSet(w.log) : e \in t
  BY <1>1, InKept
<1>2. CASE e \in w.tree \cup w.other
  BY <1>2, InKept
<1>3. CASE \E s \in ToSet(w.stash) : e \in Held(s)
  BY <1>3, InKept
<1> QED
  BY <1>1, <1>2, <1>3, InKept

\* What is tracked and what is not.
LEMMA Split ==
  ASSUME NEW w \in WorkTrees
  PROVE  /\ w.tree = Tracked(w) \cup Untracked(w)
         /\ Tracked(w) \subseteq Edits /\ Untracked(w) \subseteq NewFiles
         /\ Untracked(w) \cap w.index = {} /\ Tracked(w) \cap Untracked(w) = {}
         /\ Tracked(w) \cap NewFiles \subseteq w.index
         /\ w.index \subseteq Edits /\ w.tree \subseteq Edits /\ w.other \subseteq Edits
         /\ w.stash \in Seq(Entries) /\ Untracked(w) \subseteq Edits
  BY EditsAssumption DEF WorkTrees, Tracked, Untracked

\* What "git stash" saves.
Saving(w, i, t, u) == [log |-> w.log, index |-> i, tree |-> t, untracked |-> u]

LEMMA Saved ==
  ASSUME NEW w \in WorkTrees, NEW i \in SUBSET Edits, NEW t \in SUBSET Edits,
         NEW u \in SUBSET Edits, NEW e, e = Saving(w, i, t, u)
  PROVE  /\ e \in Entries /\ e.log = w.log /\ e.index = i /\ e.tree = t /\ e.untracked = u
         /\ <<e>> \o w.stash \in Seq(Entries)
<1>1. e \in Entries /\ e.log = w.log /\ e.index = i /\ e.tree = t /\ e.untracked = u
  BY DEF Entries, WorkTrees, Saving
<1>2. w.stash \in Seq(Entries)
  BY DEF WorkTrees
<1> QED
  BY <1>1, <1>2, Pushed

-----------------------------------------------------------------------------
(* What each git process leaves behind.                                    *)

LEMMA Indexed ==
  ASSUME NEW w \in WorkTrees, NEW i \in SUBSET Edits, NEW v, v = [w EXCEPT !.index = i]
  PROVE  /\ v \in WorkTrees
         /\ v.log = w.log /\ v.other = w.other /\ v.index = i
         /\ v.tree = w.tree /\ v.stash = w.stash
         /\ Kept(v) = Kept(w) /\ Gone(w, v) = {}
<1>1. /\ v \in WorkTrees
      /\ v.log = w.log /\ v.other = w.other /\ v.index = i
      /\ v.tree = w.tree /\ v.stash = w.stash
  BY DEF WorkTrees
<1>2. Kept(v) = Kept(w)
  BY <1>1 DEF Kept
<1> QED
  BY <1>1, <1>2 DEF Gone

LEMMA Staging ==
  ASSUME NEW w \in WorkTrees, NEW v,
         \/ v \in StageSelection(w) \cup UnstageSelection(w)
         \/ \E f : v \in StageFile(w, f) \cup UnstageFile(w, f)
         \/ \E l : v \in StageLines(w, l) \cup UnstageLines(w, l)
  PROVE  \E i \in SUBSET Edits : v = [w EXCEPT !.index = i] /\ i \subseteq w.index \cup Kept(w)
<1> USE Split, Tip
<1>0. w.tree \subseteq Kept(w) /\ HeadTree(w) \subseteq Kept(w)
  BY InKept
<1>1. CASE v \in StageSelection(w)
  BY <1>0, <1>1 DEF StageSelection
<1>2. CASE v \in UnstageSelection(w)
  BY <1>0, <1>2 DEF UnstageSelection
<1>3. ASSUME NEW f, v \in StageFile(w, f)
      PROVE  \E i \in SUBSET Edits : v = [w EXCEPT !.index = i] /\ i \subseteq w.index \cup Kept(w)
  <2>1. PICK i : i = (w.index \ Of(w.index, f)) \cup Of(w.tree, f)
    OBVIOUS
  <2>2. v = [w EXCEPT !.index = i]
    BY <1>3, <2>1 DEF StageFile
  <2>3. i \subseteq Edits /\ i \subseteq w.index \cup Kept(w)
    BY <1>0, <1>3, <2>1 DEF Of
  <2> QED
    BY <2>2, <2>3
<1>4. ASSUME NEW f, v \in UnstageFile(w, f)
      PROVE  \E i \in SUBSET Edits : v = [w EXCEPT !.index = i] /\ i \subseteq w.index \cup Kept(w)
  <2>1. PICK i : i = (w.index \ Of(w.index, f)) \cup Of(HeadTree(w), f)
    OBVIOUS
  <2>2. v = [w EXCEPT !.index = i]
    BY <1>4, <2>1 DEF UnstageFile
  <2>3. i \subseteq Edits /\ i \subseteq w.index \cup Kept(w)
    BY <1>0, <1>4, <2>1 DEF Of
  <2> QED
    BY <2>2, <2>3
<1>5. ASSUME NEW l, v \in StageLines(w, l)
      PROVE  \E i \in SUBSET Edits : v = [w EXCEPT !.index = i] /\ i \subseteq w.index \cup Kept(w)
  <2>1. PICK i : i = w.index \cup l
    OBVIOUS
  <2>2. v = [w EXCEPT !.index = i]
    BY <1>5, <2>1 DEF StageLines
  <2>3. i \subseteq Edits /\ i \subseteq w.index \cup Kept(w)
    BY <1>0, <1>5, <2>1 DEF StageLines
  <2> QED
    BY <2>2, <2>3
<1>6. ASSUME NEW l, v \in UnstageLines(w, l)
      PROVE  \E i \in SUBSET Edits : v = [w EXCEPT !.index = i] /\ i \subseteq w.index \cup Kept(w)
  <2>1. PICK i : i = w.index \ l
    OBVIOUS
  <2>2. v = [w EXCEPT !.index = i]
    BY <1>6, <2>1 DEF UnstageLines
  <2>3. i \subseteq Edits /\ i \subseteq w.index \cup Kept(w)
    BY <1>0, <1>6, <2>1 DEF UnstageLines
  <2> QED
    BY <2>2, <2>3
<1> QED
  BY <1>1, <1>2, <1>3, <1>4, <1>5, <1>6

LEMMA Committed ==
  ASSUME NEW w \in WorkTrees, NEW v \in Commit(w)
  PROVE  /\ v \in WorkTrees /\ w.index # HeadTree(w)
         /\ v.log = Append(w.log, w.index) /\ v.other = w.other /\ v.index = w.index
         /\ v.tree = w.tree /\ v.stash = w.stash
         /\ HeadTree(v) = w.index /\ Front(v.log) = w.log /\ Len(v.log) >= 2
         /\ Kept(w) \subseteq Kept(v) /\ Gone(w, v) = {}
<1> PICK l : l = Append(w.log, w.index)
  OBVIOUS
<1>0. w.log \in Seq(SUBSET Edits) /\ w.index \in SUBSET Edits
  BY Tip, Split
<1>1. /\ l \in Logs /\ ToSet(l) = ToSet(w.log) \cup {w.index}
      /\ Last(l) = w.index /\ Len(l) = Len(w.log) + 1 /\ Front(l) = w.log
  BY <1>0, Appended, FrontAppended DEF Logs
<1>2. v = [w EXCEPT !.log = l] /\ w.index # HeadTree(w)
  BY DEF Commit
<1>3. /\ v \in WorkTrees
      /\ v.log = l /\ v.other = w.other /\ v.index = w.index
      /\ v.tree = w.tree /\ v.stash = w.stash
  BY <1>1, <1>2 DEF WorkTrees
<1>4. Kept(w) \subseteq Kept(v) \cup {}
  <2>1. w.tree \subseteq Kept(v) \cup {}
    BY <1>3, InKept
  <2> QED
    BY <1>1, <1>3, <2>1, KeptGrows
<1>5. Len(v.log) >= 2
  BY <1>1, <1>3, Tip
<1> QED
  BY <1>1, <1>2, <1>3, <1>4, <1>5 DEF HeadTree, Gone

LEMMA Reset ==
  ASSUME NEW w \in WorkTrees, NEW v \in ResetHard(w)
  PROVE  /\ v \in WorkTrees
         /\ v.log = w.log /\ v.other = w.other /\ v.index = HeadTree(w)
         /\ v.tree = HeadTree(w) \cup Untracked(w) /\ v.stash = w.stash
<1>1. v = [w EXCEPT !.index = HeadTree(w), !.tree = HeadTree(w) \cup Untracked(w)]
  BY DEF ResetHard
<1>2. HeadTree(w) \in SUBSET Edits /\ Untracked(w) \in SUBSET Edits
  BY Tip, Split
<1> QED
  BY <1>1, <1>2 DEF WorkTrees

LEMMA Cleaned ==
  ASSUME NEW w \in WorkTrees, NEW v \in Clean(w)
  PROVE  /\ v \in WorkTrees
         /\ v.log = w.log /\ v.other = w.other /\ v.index = w.index
         /\ v.tree = Tracked(w) /\ v.stash = w.stash
<1>1. v = [w EXCEPT !.tree = Tracked(w)] /\ Tracked(w) \in SUBSET Edits
  BY Split DEF Clean
<1> QED
  BY <1>1 DEF WorkTrees

LEMMA SavedAs ==
  ASSUME NEW w \in WorkTrees, NEW u \in SUBSET Edits, NEW e,
         e = Saving(w, w.index, Tracked(w), u)
  PROVE  /\ e \in Entries /\ e.log = w.log /\ e.index = w.index
         /\ e.tree = Tracked(w) /\ e.untracked = u
         /\ Patch(e) = Tracked(w) \ HeadTree(w)
         /\ Held(e) = (Tracked(w) \ HeadTree(w)) \cup u
         /\ <<e>> \o w.stash \in Seq(Entries)
<1> PICK i \in SUBSET Edits : i = w.index
  BY Split
<1> PICK t \in SUBSET Edits : t = Tracked(w)
  BY Split
<1>1. e = Saving(w, i, t, u)
  OBVIOUS
<1>2. /\ e \in Entries /\ e.log = w.log /\ e.index = i /\ e.tree = t /\ e.untracked = u
      /\ <<e>> \o w.stash \in Seq(Entries)
  BY <1>1, Saved
<1>3. Patch(e) = t \ HeadTree(w)
  BY <1>2 DEF Patch, HeadTree
<1> QED
  BY <1>2, <1>3 DEF Held

LEMMA SavedWork ==
  ASSUME NEW w \in WorkTrees, NEW u \in SUBSET Edits, NEW v, v = Save(w, u), NEW e,
         e = Saving(w, w.index, Tracked(w), u)
  PROVE  /\ v \in WorkTrees
         /\ v.log = w.log /\ v.other = w.other /\ v.index = w.index
         /\ v.tree = w.tree /\ v.stash = <<e>> \o w.stash
         /\ HeadTree(v) = HeadTree(w) /\ Untracked(v) = Untracked(w) /\ Tracked(v) = Tracked(w)
<1> PICK q : q = <<e>> \o w.stash
  OBVIOUS
<1>1. q \in Seq(Entries)
  BY SavedAs
<1>2. v = [w EXCEPT !.stash = q]
  BY DEF Save, Saving
<1>3. /\ v \in WorkTrees
      /\ v.log = w.log /\ v.other = w.other /\ v.index = w.index
      /\ v.tree = w.tree /\ v.stash = q
  BY <1>1, <1>2 DEF WorkTrees
<1> QED
  BY <1>3 DEF HeadTree, Untracked, Tracked

\* Saving, and then changing the index and the tree, loses nothing that the
\* entry does not have.
LEMMA SavedKeeps ==
  ASSUME NEW w \in WorkTrees, NEW v \in WorkTrees, NEW e \in Entries,
         v.log = w.log, v.other = w.other, v.stash = <<e>> \o w.stash,
         w.tree \subseteq Held(e) \cup HeadTree(w) \cup v.tree
  PROVE  Kept(w) \subseteq Kept(v) /\ Gone(w, v) = {}
<1>1. w.stash \in Seq(Entries)
  BY Split
<1>2. ToSet(v.stash) = {e} \cup ToSet(w.stash)
  BY <1>1, Pushed
<1>3. Held(e) \subseteq Kept(v) /\ v.tree \subseteq Kept(v)
  BY <1>2, InKept
<1>4. HeadTree(w) \subseteq Kept(v)
  <2>1. HeadTree(v) = HeadTree(w)
    BY DEF HeadTree
  <2> QED
    BY <2>1, InKept
<1>5. w.tree \subseteq Kept(v) \cup {}
  BY <1>3, <1>4
<1>6. Kept(w) \subseteq Kept(v) \cup {}
  BY <1>2, <1>5, KeptGrows
<1> QED
  BY <1>6 DEF Gone

LEMMA Unmoved ==
  ASSUME NEW w \in WorkTrees
  PROVE  Gone(w, w) = {}
  BY DEF Gone

LEMMA Pushing ==
  ASSUME NEW w \in WorkTrees, NEW v \in StashPush(w), Changed(w) # {}, NEW e,
         e = Saving(w, w.index, Tracked(w), {})
  PROVE  /\ v \in WorkTrees /\ e \in Entries
         /\ v.log = w.log /\ v.other = w.other /\ v.index = HeadTree(w)
         /\ v.tree = HeadTree(w) \cup Untracked(w) /\ v.stash = <<e>> \o w.stash
         /\ Kept(w) \subseteq Kept(v) /\ Gone(w, v) = {}
<1> PICK x : x = Save(w, {})
  OBVIOUS
<1>1. v \in ResetHard(x)
  BY DEF StashPush
<1>2. {} \in SUBSET Edits /\ w.index \in SUBSET Edits /\ Tracked(w) \in SUBSET Edits
  BY Split
<1>3. /\ x \in WorkTrees
      /\ x.log = w.log /\ x.other = w.other /\ x.stash = <<e>> \o w.stash
      /\ HeadTree(x) = HeadTree(w) /\ Untracked(x) = Untracked(w)
  BY <1>2, SavedWork
<1>4. /\ v \in WorkTrees
      /\ v.log = w.log /\ v.other = w.other /\ v.index = HeadTree(w)
      /\ v.tree = HeadTree(w) \cup Untracked(w) /\ v.stash = <<e>> \o w.stash
  BY <1>1, <1>3, Reset
<1>5. e \in Entries /\ Held(e) = (Tracked(w) \ HeadTree(w)) \cup {}
  BY <1>2, SavedAs
<1>6. w.tree \subseteq Held(e) \cup HeadTree(w) \cup v.tree
  BY <1>4, <1>5, Split
<1> QED
  BY <1>4, <1>5, <1>6, SavedKeeps

LEMMA KeepingIndex ==
  ASSUME NEW w \in WorkTrees, NEW v \in StashKeepIndex(w), Changed(w) # {}, NEW e,
         e = Saving(w, w.index, Tracked(w), {})
  PROVE  /\ v \in WorkTrees /\ e \in Entries
         /\ v.log = w.log /\ v.other = w.other /\ v.index = w.index
         /\ v.tree = w.index \cup Untracked(w) /\ v.stash = <<e>> \o w.stash
         /\ Kept(w) \subseteq Kept(v) /\ Gone(w, v) = {}
<1> PICK x : x = Save(w, {})
  OBVIOUS
<1> PICK t : t = w.index \cup Untracked(w)
  OBVIOUS
<1>1. v = [x EXCEPT !.tree = t]
  BY DEF StashKeepIndex
<1>2. {} \in SUBSET Edits /\ w.index \in SUBSET Edits /\ Tracked(w) \in SUBSET Edits
      /\ t \in SUBSET Edits
  BY Split
<1>3. /\ x \in WorkTrees
      /\ x.log = w.log /\ x.other = w.other /\ x.stash = <<e>> \o w.stash /\ x.index = w.index
  BY <1>2, SavedWork
<1>4. /\ v \in WorkTrees
      /\ v.log = x.log /\ v.other = x.other /\ v.index = x.index
      /\ v.tree = t /\ v.stash = x.stash
  BY <1>1, <1>2, <1>3 DEF WorkTrees
<1>5. e \in Entries /\ Held(e) = (Tracked(w) \ HeadTree(w)) \cup {}
  BY <1>2, SavedAs
<1>6. w.tree \subseteq Held(e) \cup HeadTree(w) \cup v.tree
  BY <1>4, <1>5, Split
<1> QED
  BY <1>3, <1>4, <1>5, <1>6, SavedKeeps

LEMMA StashingAll ==
  ASSUME NEW w \in WorkTrees, NEW v \in StashAll(w), Changed(w) \cup Untracked(w) # {}, NEW e,
         e = Saving(w, w.index, Tracked(w), Untracked(w))
  PROVE  /\ v \in WorkTrees /\ e \in Entries
         /\ v.log = w.log /\ v.other = w.other /\ v.index = HeadTree(w)
         /\ v.tree = HeadTree(w) /\ v.stash = <<e>> \o w.stash
         /\ Kept(w) \subseteq Kept(v) /\ Gone(w, v) = {}
<1> PICK x : x = Save(w, Untracked(w))
  OBVIOUS
<1>1. \E y \in ResetHard(x) : v \in Clean(y)
  BY DEF StashAll
<1> PICK y \in ResetHard(x) : v \in Clean(y)
  BY <1>1
<1>2. Untracked(w) \in SUBSET Edits /\ w.index \in SUBSET Edits /\ Tracked(w) \in SUBSET Edits
  BY Split
<1>3. /\ x \in WorkTrees
      /\ x.log = w.log /\ x.other = w.other /\ x.stash = <<e>> \o w.stash
      /\ HeadTree(x) = HeadTree(w) /\ Untracked(x) = Untracked(w)
  BY <1>2, SavedWork
<1>4. /\ y \in WorkTrees
      /\ y.log = w.log /\ y.other = w.other /\ y.index = HeadTree(w)
      /\ y.tree = HeadTree(w) \cup Untracked(w) /\ y.stash = <<e>> \o w.stash
  BY <1>3, Reset
<1>5. /\ v \in WorkTrees
      /\ v.log = w.log /\ v.other = w.other /\ v.index = HeadTree(w)
      /\ v.tree = Tracked(y) /\ v.stash = <<e>> \o w.stash
  BY <1>4, Cleaned
<1>6. e \in Entries /\ Held(e) = (Tracked(w) \ HeadTree(w)) \cup Untracked(w)
  BY <1>2, SavedAs
<1>7. w.tree \subseteq Held(e) \cup HeadTree(w) \cup v.tree
  BY <1>6, Split
<1>8. Kept(w) \subseteq Kept(v) /\ Gone(w, v) = {}
  BY <1>5, <1>6, <1>7, SavedKeeps
<1>9. Tracked(y) = HeadTree(w)
  <2>1. Untracked(w) \subseteq NewFiles
    BY Split
  <2>2. Untracked(y) = ((HeadTree(w) \cup Untracked(w)) \cap NewFiles) \ HeadTree(w)
    BY <1>4 DEF Untracked
  <2>3. Tracked(y) = (HeadTree(w) \cup Untracked(w)) \ Untracked(y)
    BY <1>4 DEF Tracked
  <2> QED
    BY <2>1, <2>2, <2>3
<1> QED
  BY <1>5, <1>6, <1>8, <1>9

LEMMA SavingStaged ==
  ASSUME NEW w \in WorkTrees, NEW v \in SaveStaged(w)
  PROVE  /\ v \in WorkTrees
         /\ v.log = w.log /\ v.other = w.other /\ v.index = w.index /\ v.tree = w.tree
         /\ Gone(w, v) = {}
         /\ \E e \in Entries : /\ v.stash = <<e>> \o w.stash
                               /\ Patch(e) = w.index \ HeadTree(w) /\ e.untracked = {}
<1> PICK e : e = Saving(w, w.index, w.index, {})
  OBVIOUS
<1> PICK i \in SUBSET Edits : i = w.index
  BY Split
<1> PICK q : q = <<e>> \o w.stash
  OBVIOUS
<1>1. {} \in SUBSET Edits /\ e = Saving(w, i, i, {})
  OBVIOUS
<1>2. /\ e \in Entries /\ e.log = w.log /\ e.index = i /\ e.tree = i /\ e.untracked = {}
      /\ q \in Seq(Entries)
  BY <1>1, Saved
<1>3. v = [w EXCEPT !.stash = q]
  BY DEF SaveStaged, Saving
<1>4. /\ v \in WorkTrees
      /\ v.log = w.log /\ v.other = w.other /\ v.index = w.index /\ v.tree = w.tree
      /\ v.stash = q
  BY <1>2, <1>3 DEF WorkTrees
<1>5. Patch(e) = w.index \ HeadTree(w)
  BY <1>2 DEF Patch, HeadTree
<1>6. Gone(w, v) = {}
  BY <1>2, <1>4, SavedKeeps
<1> QED
  BY <1>2, <1>4, <1>5, <1>6

LEMMA Unapplied ==
  ASSUME NEW w \in WorkTrees, NEW patch, NEW v \in Unapply(w, patch)
  PROVE  /\ v \in WorkTrees /\ patch # {} /\ patch \subseteq w.tree
         /\ v.log = w.log /\ v.other = w.other /\ v.index = w.index
         /\ v.tree = w.tree \ patch /\ v.stash = w.stash
         /\ (\E s \in ToSet(w.stash) : patch \subseteq Held(s)) => Gone(w, v) = {}
<1>1. v = [w EXCEPT !.tree = w.tree \ patch] /\ patch # {} /\ patch \subseteq w.tree
  BY DEF Unapply
<1>2. /\ v \in WorkTrees
      /\ v.log = w.log /\ v.other = w.other /\ v.index = w.index
      /\ v.tree = w.tree \ patch /\ v.stash = w.stash
  BY <1>1 DEF WorkTrees
<1>3. ASSUME NEW s \in ToSet(w.stash), patch \subseteq Held(s)
      PROVE  Gone(w, v) = {}
  <2>1. w.tree \subseteq Kept(v) \cup {}
    BY <1>2, <1>3, InKept
  <2>2. Kept(w) \subseteq Kept(v) \cup {}
    BY <1>2, <2>1, KeptGrows
  <2> QED
    BY <2>2 DEF Gone
<1> QED
  BY <1>1, <1>2, <1>3

LEMMA RemovingStaged ==
  ASSUME NEW w \in WorkTrees, NEW patch, NEW v \in RemoveStaged(w, patch)
  PROVE  /\ v \in WorkTrees
         /\ v.log = w.log /\ v.other = w.other /\ v.index = HeadTree(w)
         /\ v.tree = w.tree \ patch /\ v.stash = w.stash
         /\ (\E s \in ToSet(w.stash) : patch \subseteq Held(s)) => Gone(w, v) = {}
<1> PICK x \in Unapply(w, patch) : v \in UnstageSelection(x)
  BY DEF RemoveStaged
<1>1. /\ x \in WorkTrees
      /\ x.log = w.log /\ x.other = w.other
      /\ x.tree = w.tree \ patch /\ x.stash = w.stash
      /\ (\E s \in ToSet(w.stash) : patch \subseteq Held(s)) => Gone(w, x) = {}
  BY Unapplied
<1>2. v = [x EXCEPT !.index = HeadTree(x)] /\ HeadTree(x) \in SUBSET Edits
  BY <1>1, Tip DEF UnstageSelection
<1>3. /\ v \in WorkTrees
      /\ v.log = x.log /\ v.other = x.other /\ v.index = HeadTree(x)
      /\ v.tree = x.tree /\ v.stash = x.stash /\ Kept(v) = Kept(x)
  BY <1>1, <1>2, Indexed
<1>4. HeadTree(x) = HeadTree(w)
  BY <1>1 DEF HeadTree
<1>5. ASSUME NEW s \in ToSet(w.stash), patch \subseteq Held(s)
      PROVE  Gone(w, v) = {}
  <2>1. w.tree \subseteq Kept(v) \cup {}
    BY <1>1, <1>3, <1>5, InKept
  <2>2. Kept(w) \subseteq Kept(v) \cup {}
    BY <1>1, <1>3, <2>1, KeptGrows
  <2> QED
    BY <2>2 DEF Gone
<1> QED
  BY <1>1, <1>3, <1>4, <1>5

LEMMA Applied ==
  ASSUME NEW w \in WorkTrees, NEW k \in Nat \ {0}, NEW v \in StashApply(w, k)
  PROVE  /\ v \in WorkTrees /\ k \in 1..Len(w.stash) /\ w.stash[k] \in Entries
         /\ v.log = w.log /\ v.other = w.other /\ v.stash = w.stash
         /\ v.index = w.index \cup ((Patch(w.stash[k]) \ w.index) \cap NewFiles)
         /\ v.tree = w.tree \cup (Patch(w.stash[k]) \ w.index) \cup w.stash[k].untracked
         /\ Held(w.stash[k]) \subseteq v.tree \cup v.index
         /\ Kept(w) \subseteq Kept(v) /\ Gone(w, v) = {}
<1>1. w.stash \in Seq(Entries) /\ Len(w.stash) \in Nat
  BY Split, LenProperties
<1>2. k \in 1..Len(w.stash)
  BY <1>1 DEF StashApply
<1> PICK s : s = w.stash[k]
  OBVIOUS
<1>3. s \in Entries
  BY <1>1, <1>2, ElementOfSeq
<1> PICK new : new = Patch(s) \ w.index
  OBVIOUS
<1> PICK i : i = w.index \cup (new \cap NewFiles)
  OBVIOUS
<1> PICK t : t = w.tree \cup new \cup s.untracked
  OBVIOUS
<1>4. v = [w EXCEPT !.tree = t, !.index = i]
  BY <1>1, <1>2 DEF StashApply
<1>5. i \in SUBSET Edits /\ t \in SUBSET Edits
  BY <1>3, Split, EntryType
<1>6. /\ v \in WorkTrees
      /\ v.log = w.log /\ v.other = w.other /\ v.index = i
      /\ v.tree = t /\ v.stash = w.stash
  BY <1>4, <1>5 DEF WorkTrees
<1>7. Held(s) \subseteq t \cup i
  BY DEF Held
<1>8. Kept(w) \subseteq Kept(v) \cup {}
  <2>1. w.tree \subseteq Kept(v) \cup {}
    BY <1>6, InKept
  <2> QED
    BY <1>6, <2>1, KeptGrows
<1> QED
  BY <1>2, <1>3, <1>6, <1>7, <1>8 DEF Gone

LEMMA Dropped ==
  ASSUME NEW w \in WorkTrees, NEW k \in Nat \ {0}, NEW v \in StashDrop(w, k)
  PROVE  /\ v \in WorkTrees /\ k \in 1..Len(w.stash) /\ w.stash[k] \in Entries
         /\ v.log = w.log /\ v.other = w.other /\ v.index = w.index
         /\ v.tree = w.tree /\ v.stash = RemoveAt(w.stash, k)
         /\ ToSet(w.stash) = ToSet(v.stash) \cup {w.stash[k]}
         /\ Kept(w) \subseteq Kept(v) \cup Held(w.stash[k])
<1>1. w.stash \in Seq(Entries) /\ Len(w.stash) \in Nat
  BY Split, LenProperties
<1>2. k \in 1..Len(w.stash)
  BY <1>1 DEF StashDrop
<1> PICK s : s = w.stash[k]
  OBVIOUS
<1> PICK q : q = RemoveAt(w.stash, k)
  OBVIOUS
<1>3. s \in Entries
  BY <1>1, <1>2, ElementOfSeq
<1>4. q \in Seq(Entries) /\ ToSet(w.stash) = ToSet(q) \cup {s}
  BY <1>1, <1>2, Removed
<1>5. v = [w EXCEPT !.stash = q]
  BY <1>1, <1>2 DEF StashDrop
<1>6. /\ v \in WorkTrees
      /\ v.log = w.log /\ v.other = w.other /\ v.index = w.index
      /\ v.tree = w.tree /\ v.stash = q
  BY <1>4, <1>5 DEF WorkTrees
<1>7. Kept(w) \subseteq Kept(v) \cup Held(s)
  <2> SUFFICES ASSUME NEW e \in Kept(w) PROVE e \in Kept(v) \cup Held(s)
    OBVIOUS
  <2>1. CASE \E t \in ToSet(w.log) : e \in t
    BY <1>6, <2>1, InKept
  <2>2. CASE e \in w.tree \cup w.other
    BY <1>6, <2>2, InKept
  <2>3. CASE \E r \in ToSet(w.stash) : e \in Held(r)
    BY <1>4, <1>6, <2>3, InKept
  <2> QED
    BY <2>1, <2>2, <2>3, InKept
<1> QED
  BY <1>2, <1>3, <1>4, <1>6, <1>7

LEMMA Popped ==
  ASSUME NEW w \in WorkTrees, NEW k \in Nat \ {0}, NEW v \in StashPop(w, k)
  PROVE  /\ v \in WorkTrees /\ k \in 1..Len(w.stash) /\ w.stash[k] \in Entries
         /\ v.log = w.log /\ v.other = w.other
         /\ w.index \subseteq v.index /\ w.tree \subseteq v.tree
         /\ \A r \in ToSet(w.stash) : r = w.stash[k] \/ r \in ToSet(v.stash)
         /\ \A e \in Held(w.stash[k]) : e \in v.tree \/ e \in v.index
         /\ Gone(w, v) = {}
<1> PICK x \in StashApply(w, k) : v \in StashDrop(x, k)
  BY DEF StashPop
<1>1. /\ x \in WorkTrees /\ k \in 1..Len(w.stash) /\ w.stash[k] \in Entries
      /\ x.log = w.log /\ x.other = w.other /\ x.stash = w.stash
      /\ w.index \subseteq x.index /\ w.tree \subseteq x.tree
      /\ Held(w.stash[k]) \subseteq x.tree \cup x.index
      /\ Kept(w) \subseteq Kept(x)
  BY Applied
<1>2. /\ v \in WorkTrees
      /\ v.log = x.log /\ v.other = x.other /\ v.index = x.index /\ v.tree = x.tree
      /\ ToSet(x.stash) = ToSet(v.stash) \cup {x.stash[k]}
      /\ Kept(x) \subseteq Kept(v) \cup Held(x.stash[k])
  BY <1>1, Dropped
<1>3. v.tree \subseteq Kept(v)
  BY <1>2, InKept
<1>4. Kept(w) \subseteq Kept(v) \cup v.index
  BY <1>1, <1>2, <1>3
<1> QED
  BY <1>1, <1>2, <1>4 DEF Gone

LEMMA Stored ==
  ASSUME NEW w \in WorkTrees, NEW s \in Entries, NEW v \in StashStore(w, s)
  PROVE  /\ v \in WorkTrees /\ Gone(w, v) = {}
         /\ v.log = w.log /\ v.other = w.other /\ v.index = w.index /\ v.tree = w.tree
         /\ Head(v.stash) = s /\ ToSet(v.stash) = ToSet(w.stash) \cup {s}
<1>0. w.stash \in Seq(Entries)
  BY Split
<1>1. CASE w.stash # <<>> /\ Head(w.stash) = s
  <2>1. v = w
    BY <1>1 DEF StashStore
  <2>2. s \in ToSet(w.stash)
    <3>1. Len(w.stash) >= 1 /\ Len(w.stash) \in Nat /\ Head(w.stash) = w.stash[1]
          /\ \A i \in 1..Len(w.stash) : w.stash[i] \in ToSet(w.stash)
      BY <1>0, <1>1, Elements
    <3>2. 1 \in 1..Len(w.stash)
      BY <3>1
    <3> QED
      BY <1>1, <3>1, <3>2
  <2> QED
    BY <1>1, <2>1, <2>2, Unmoved
<1>2. CASE ~(w.stash # <<>> /\ Head(w.stash) = s)
  <2> PICK q : q = <<s>> \o w.stash
    OBVIOUS
  <2>1. q \in Seq(Entries) /\ Head(q) = s /\ ToSet(q) = {s} \cup ToSet(w.stash)
    BY <1>0, Pushed
  <2>2. v = [w EXCEPT !.stash = q]
    BY <1>2 DEF StashStore
  <2>3. /\ v \in WorkTrees
        /\ v.log = w.log /\ v.other = w.other /\ v.index = w.index
        /\ v.tree = w.tree /\ v.stash = q
    BY <2>1, <2>2 DEF WorkTrees
  <2>4. Gone(w, v) = {}
    BY <2>3, SavedKeeps
  <2> QED
    BY <2>1, <2>3, <2>4
<1> QED
  BY <1>1, <1>2

\* Whatever is left where the entry is popped is found there afterwards.
LEMMA BranchKeeps ==
  ASSUME NEW w \in WorkTrees, NEW there \in WorkTrees, NEW k \in Nat \ {0},
         NEW x \in StashPop(there, k), NEW j \in SUBSET Edits, NEW v, v = [x EXCEPT !.index = j],
         \A e \in x.index : e \in j, there.stash = w.stash,
         \A l \in ToSet(w.log) : \A e : e \in l => e \in there.other,
         \A e \in w.other : e \in there.other,
         \A e \in w.tree : e \in there.tree \/ e \in there.other
  PROVE  v \in WorkTrees /\ Gone(w, v) = {}
<1>1. /\ x \in WorkTrees /\ x.other = there.other /\ there.tree \subseteq x.tree
      /\ \A r \in ToSet(there.stash) : r = there.stash[k] \/ r \in ToSet(x.stash)
      /\ \A e \in Held(there.stash[k]) : e \in x.tree \/ e \in x.index
  BY Popped
<1>2. v \in WorkTrees /\ v.other = x.other /\ v.index = j /\ v.tree = x.tree /\ v.stash = x.stash
  BY <1>1, Indexed
<1>3. v.tree \subseteq Kept(v) /\ v.other \subseteq Kept(v)
       /\ \A r \in ToSet(v.stash) : Held(r) \subseteq Kept(v)
  BY <1>2, InKept
<1>4. ASSUME NEW e \in Kept(w) PROVE e \in Kept(v) \cup v.index
  <2>1. CASE \E l \in ToSet(w.log) : e \in l
    BY <1>1, <1>2, <1>3, <2>1
  <2>2. CASE e \in w.tree \cup w.other
    BY <1>1, <1>2, <1>3, <2>2
  <2>3. CASE \E r \in ToSet(w.stash) : e \in Held(r)
    BY <1>1, <1>2, <1>3, <2>3
  <2> QED
    BY <2>1, <2>2, <2>3, InKept
<1> QED
  BY <1>2, <1>4 DEF Gone

LEMMA Branched ==
  ASSUME NEW w \in WorkTrees, NEW k \in Nat \ {0}, NEW v \in StashBranch(w, k)
  PROVE  v \in WorkTrees /\ Gone(w, v) = {}
<1>1. w.stash \in Seq(Entries) /\ Len(w.stash) \in Nat
  BY Split, LenProperties
<1>2. k \in 1..Len(w.stash)
  BY <1>1 DEF StashBranch
<1>3. PICK s \in Entries : s = w.stash[k]
  BY <1>1, <1>2, ElementOfSeq
<1>4. s.log \in Logs /\ s.index \subseteq Edits
  BY DEF Entries
<1>5. Last(s.log) \subseteq Edits
  <2>1. s.log \in Seq(SUBSET Edits) /\ s.log # <<>>
    BY <1>4 DEF Logs
  <2>2. Last(s.log) \in ToSet(s.log) /\ ToSet(s.log) \subseteq SUBSET Edits
    BY <2>1, Elements
  <2> QED
    BY <2>2
<1>6. PICK o : o = w.other \cup UNION ToSet(w.log)
  OBVIOUS
<1>7. PICK i : i = (w.index \ HeadTree(w)) \cup Last(s.log)
  OBVIOUS
<1>8. PICK t : t = (w.tree \ HeadTree(w)) \cup Last(s.log)
  OBVIOUS
<1>9. PICK there : there = [w EXCEPT !.other = o, !.log = s.log, !.index = i, !.tree = t]
  OBVIOUS
<1>10. PICK x \in StashPop(there, k) : v = [x EXCEPT !.index = x.index \cup (s.index \ Last(s.log))]
  BY <1>1, <1>2, <1>3, <1>6, <1>7, <1>8, <1>9 DEF StashBranch
<1>11. i \subseteq Edits /\ t \subseteq Edits /\ o \subseteq Edits
  <2>1. ToSet(w.log) \subseteq SUBSET Edits
    BY Tip, Elements
  <2> QED
    BY <1>5, <1>6, <1>7, <1>8, <2>1, Split
<1>12. /\ there \in WorkTrees
       /\ there.other = o /\ there.tree = t /\ there.stash = w.stash
  BY <1>4, <1>9, <1>11 DEF WorkTrees
<1>13. PICK j : j = x.index \cup (s.index \ Last(s.log))
  OBVIOUS
<1>14. x \in WorkTrees
  BY <1>12, Popped
<1>15. j \in SUBSET Edits
  BY <1>4, <1>13, <1>14, Split
<1>16. v = [x EXCEPT !.index = j] /\ \A e \in x.index : e \in j
  BY <1>10, <1>13
<1>17. \A l \in ToSet(w.log) : \A e : e \in l => e \in there.other
  BY <1>6, <1>12
<1>18. \A e \in w.other : e \in there.other
  BY <1>6, <1>12
<1>19. \A e \in w.tree : e \in there.tree \/ e \in there.other
  <2>1. HeadTree(w) \subseteq o
    BY <1>6, Tip
  <2> QED
    BY <1>8, <1>12, <2>1
<1> QED
  BY <1>12, <1>15, <1>16, <1>17, <1>18, <1>19, BranchKeeps

LEMMA Shortened ==
  ASSUME NEW w \in WorkTrees, NEW l \in Logs, NEW v, v = [w EXCEPT !.log = l],
         ToSet(w.log) \subseteq ToSet(l) \cup {HeadTree(w)}
  PROVE  /\ v \in WorkTrees /\ v.log = l
         /\ v.other = w.other /\ v.index = w.index /\ v.tree = w.tree /\ v.stash = w.stash
         /\ Gone(w, v) \subseteq HeadTree(w) \ w.index
<1>1. /\ v \in WorkTrees /\ v.log = l
      /\ v.other = w.other /\ v.index = w.index /\ v.tree = w.tree /\ v.stash = w.stash
  BY DEF WorkTrees
<1>2. ASSUME NEW e \in Kept(w) PROVE e \in Kept(v) \cup HeadTree(w)
  <2>1. CASE \E t \in ToSet(w.log) : e \in t
    BY <1>1, <2>1, InKept
  <2>2. CASE e \in w.tree \cup w.other
    BY <1>1, <2>2, InKept
  <2>3. CASE \E r \in ToSet(w.stash) : e \in Held(r)
    BY <1>1, <2>3, InKept
  <2> QED
    BY <2>1, <2>2, <2>3, InKept
<1> QED
  BY <1>1, <1>2 DEF Gone

LEMMA Amended ==
  ASSUME NEW w \in WorkTrees, NEW v \in AmendHead(w)
  PROVE  v \in WorkTrees /\ Gone(w, v) \subseteq HeadTree(w) \ w.index
<1>1. w.log \in Seq(SUBSET Edits) /\ w.log # <<>> /\ w.index \in SUBSET Edits
  BY Tip, Split
<1>2. Front(w.log) \in Seq(SUBSET Edits) /\ ToSet(w.log) = ToSet(Front(w.log)) \cup {HeadTree(w)}
  BY <1>1, Fronted DEF HeadTree
<1> PICK l : l = Append(Front(w.log), w.index)
  OBVIOUS
<1>3. l \in Logs /\ ToSet(l) = ToSet(Front(w.log)) \cup {w.index}
  BY <1>1, <1>2, Appended DEF Logs
<1>4. v = [w EXCEPT !.log = l]
  BY DEF AmendHead
<1> QED
  BY <1>2, <1>3, <1>4, Shortened

LEMMA Undone ==
  ASSUME NEW w \in WorkTrees, NEW v \in UndoCommit(w)
  PROVE  /\ v \in WorkTrees /\ v.log = Front(w.log)
         /\ v.other = w.other /\ v.index = w.index /\ v.tree = w.tree /\ v.stash = w.stash
         /\ Gone(w, v) \subseteq HeadTree(w) \ w.index
<1>1. w.log \in Seq(SUBSET Edits) /\ w.log # <<>>
  BY Tip
<1> PICK l : l = Front(w.log)
  OBVIOUS
<1>2. v = [w EXCEPT !.log = l] /\ Len(w.log) # 1
  BY DEF UndoCommit
<1>3. l \in Logs /\ ToSet(w.log) = ToSet(l) \cup {HeadTree(w)}
  BY <1>1, <1>2, Fronted DEF HeadTree, Logs
<1> QED
  BY <1>2, <1>3, Shortened

\* Restoring one file.
LEMMA FileRestored ==
  ASSUME NEW w \in WorkTrees, NEW f, NEW v \in WorkTrees,
         v.log = w.log, v.other = w.other, v.stash = w.stash,
         \A e \in w.tree : FileOf[e] # f => e \in v.tree
  PROVE  \A e \in Gone(w, v) : FileOf[e] = f
<1>1. w.tree \subseteq Kept(v) \cup Of(w.tree, f)
  BY InKept DEF Of
<1>2. Kept(w) \subseteq Kept(v) \cup Of(w.tree, f)
  BY <1>1, KeptGrows
<1> QED
  BY <1>2 DEF Gone, Of

LEMMA CheckedOut ==
  ASSUME NEW w \in WorkTrees, NEW n \in Nat \ {0}, NEW f, NEW v \in CheckoutCommitFile(w, n, f)
  PROVE  v \in WorkTrees /\ \A e \in Gone(w, v) : FileOf[e] = f
<1>1. w.log \in Seq(SUBSET Edits) /\ Len(w.log) \in Nat
  BY Tip
<1>2. n \in 1..Len(w.log)
  BY <1>1 DEF CheckoutCommitFile
<1>3. w.log[n] \in SUBSET Edits
  BY <1>1, <1>2, ElementOfSeq
<1> PICK i : i = (w.index \ Of(w.index, f)) \cup Of(w.log[n], f)
  OBVIOUS
<1> PICK t : t = (w.tree \ Of(w.tree, f)) \cup Of(w.log[n], f)
  OBVIOUS
<1>4. v = [w EXCEPT !.index = i, !.tree = t]
  BY DEF CheckoutCommitFile
<1>5. Of(w.log[n], f) \subseteq Edits
  BY <1>3 DEF Of
<1>6. /\ i \in SUBSET Edits /\ t \in SUBSET Edits
      /\ \A e \in w.tree : FileOf[e] # f => e \in t
  BY <1>5, Split DEF Of
<1>7. /\ v \in WorkTrees /\ v.log = w.log
      /\ v.other = w.other /\ v.tree = t /\ v.stash = w.stash
  BY <1>4, <1>6 DEF WorkTrees
<1> QED
  BY <1>6, <1>7, FileRestored

LEMMA Discarded ==
  ASSUME NEW w \in WorkTrees, NEW f, NEW from \in {"HEAD", "index", "untracked"},
         NEW v \in DiscardFile(w, f, from)
  PROVE  v \in WorkTrees /\ \A e \in Gone(w, v) : FileOf[e] = f
<1>1. CASE from = "HEAD"
  <2> PICK i : i = (w.index \ Of(w.index, f)) \cup Of(HeadTree(w), f)
    OBVIOUS
  <2> PICK t : t = (w.tree \ Of(w.tree, f)) \cup Of(HeadTree(w), f)
    OBVIOUS
  <2>1. v = [w EXCEPT !.index = i, !.tree = t]
    BY <1>1 DEF DiscardFile
  <2>2. Of(HeadTree(w), f) \subseteq Edits
    BY Tip DEF Of
  <2>3. /\ i \in SUBSET Edits /\ t \in SUBSET Edits
        /\ \A e \in w.tree : FileOf[e] # f => e \in t
    BY <2>2, Split DEF Of
  <2>4. /\ v \in WorkTrees /\ v.log = w.log
        /\ v.other = w.other /\ v.tree = t /\ v.stash = w.stash
    BY <2>1, <2>3 DEF WorkTrees
  <2> QED
    BY <2>3, <2>4, FileRestored
<1>2. CASE from = "index"
  <2> PICK i : i = w.index \ Of(w.index, f)
    OBVIOUS
  <2> PICK t : t = w.tree \ Of(w.tree, f)
    OBVIOUS
  <2>1. v = [w EXCEPT !.index = i, !.tree = t]
    BY <1>2 DEF DiscardFile
  <2>2. /\ i \in SUBSET Edits /\ t \in SUBSET Edits
        /\ \A e \in w.tree : FileOf[e] # f => e \in t
    BY Split DEF Of
  <2>3. /\ v \in WorkTrees /\ v.log = w.log
        /\ v.other = w.other /\ v.tree = t /\ v.stash = w.stash
    BY <2>1, <2>2 DEF WorkTrees
  <2> QED
    BY <2>2, <2>3, FileRestored
<1>3. CASE from = "untracked"
  <2> PICK t : t = w.tree \ Of(Untracked(w), f)
    OBVIOUS
  <2>1. v = [w EXCEPT !.tree = t]
    BY <1>3 DEF DiscardFile
  <2>2. v = [w EXCEPT !.index = w.index, !.tree = t]
    BY <2>1 DEF WorkTrees
  <2>3. Of(Untracked(w), f) \subseteq Of(w.tree, f)
    BY Split DEF Of
  <2>4. /\ w.index \in SUBSET Edits /\ t \in SUBSET Edits
        /\ \A e \in w.tree : FileOf[e] # f => e \in t
    BY <2>3, Split DEF Of
  <2>5. /\ v \in WorkTrees /\ v.log = w.log
        /\ v.other = w.other /\ v.tree = t /\ v.stash = w.stash
    BY <2>2, <2>4 DEF WorkTrees
  <2> QED
    BY <2>4, <2>5, FileRestored
<1> QED
  BY <1>1, <1>2, <1>3

-----------------------------------------------------------------------------
(* The processes of a command, and those that are left of them.            *)

StagedLeft ==
    {<<"keepIndex", "push", "applyOlder", "show", "unapply", "dropOlder", "status", "unstage">>,
     <<"push", "applyOlder", "show", "unapply", "dropOlder", "status", "unstage">>,
     <<"applyOlder", "show", "unapply", "dropOlder", "status", "unstage">>,
     <<"show", "unapply", "dropOlder", "status", "unstage">>,
     <<"unapply", "dropOlder", "status", "unstage">>,
     <<"dropOlder", "status", "unstage">>,
     <<"status", "unstage">>, <<"unstage">>,
     <<"saveStaged", "removeStaged">>, <<"removeStaged">>}

UnstagedLeft ==
    {<<"commit", "pushOrUndo", "undo">>, <<"pushOrUndo", "undo">>, <<"undo">>, <<"push">>}

RenameLeft == {<<"revParse", "drop", "store">>, <<"drop", "store">>, <<"store">>}

DiscardLeft == {<<"known", "discard">>, <<"discard">>}

NukeLeft == {<<"reset", "clean">>, <<"clean">>}

\* What may be left of a command.
Left(c, l) ==
    \/ l = <<"begin">>
    \/ c.op = "CreateStash" /\ c.mode = "Staged" /\ l \in StagedLeft
    \/ c.op = "CreateStash" /\ c.mode = "Unstaged" /\ l \in UnstagedLeft
    \/ c.op = "RenameStash" /\ l \in RenameLeft
    \/ c.op = "DiscardFile" /\ l \in DiscardLeft
    \/ c.op = "NukeWorkingTree" /\ l \in NukeLeft
    \/ /\ c.op \notin {"RenameStash", "DiscardFile", "NukeWorkingTree"}
       /\ c.op = "CreateStash" => c.mode \notin {"Staged", "Unstaged"}
       /\ l = <<"all">>

LEMMA StagedOrder ==
  ASSUME NEW l \in StagedLeft
  PROVE  /\ Len(l) # 1 => Tail(l) \in StagedLeft
         /\ Head(l) \in {"keepIndex", "push", "applyOlder", "show", "unapply",
                         "dropOlder", "status", "unstage", "saveStaged", "removeStaged"}
         /\ Len(l) = 1 <=> Head(l) \in {"unstage", "removeStaged"}
         /\ Head(l) = "keepIndex" => Head(Tail(l)) = "push"
         /\ Head(l) = "push" => Head(Tail(l)) = "applyOlder"
         /\ Head(l) = "applyOlder" => Head(Tail(l)) = "show"
         /\ Head(l) = "show" => Head(Tail(l)) = "unapply"
         /\ Head(l) = "unapply" => Head(Tail(l)) = "dropOlder"
         /\ Head(l) = "dropOlder" => Head(Tail(l)) = "status"
         /\ Head(l) = "status" => Head(Tail(l)) = "unstage"
         /\ Head(l) = "saveStaged" => Head(Tail(l)) = "removeStaged"
<1>0. PICK x, y, n, t : x = Head(l) /\ y = Head(Tail(l)) /\ n = Len(l) /\ t = Tail(l)
  OBVIOUS
<1> SUFFICES /\ n # 1 => t \in StagedLeft
             /\ x \in {"keepIndex", "push", "applyOlder", "show", "unapply",
                             "dropOlder", "status", "unstage", "saveStaged", "removeStaged"}
             /\ n = 1 <=> x \in {"unstage", "removeStaged"}
             /\ x = "keepIndex" => y = "push"
             /\ x = "push" => y = "applyOlder"
             /\ x = "applyOlder" => y = "show"
             /\ x = "show" => y = "unapply"
             /\ x = "unapply" => y = "dropOlder"
             /\ x = "dropOlder" => y = "status"
             /\ x = "status" => y = "unstage"
             /\ x = "saveStaged" => y = "removeStaged"
  BY <1>0, Zenon
<1>1. CASE l = <<"keepIndex", "push", "applyOlder", "show", "unapply", "dropOlder", "status", "unstage">>
  <2>1. Head(<<"keepIndex", "push", "applyOlder", "show", "unapply", "dropOlder", "status", "unstage">>) = "keepIndex" /\ Len(<<"keepIndex", "push", "applyOlder", "show", "unapply", "dropOlder", "status", "unstage">>) = 8
    OBVIOUS
  <2>2. Head(l) = "keepIndex" /\ Len(l) = 8
    BY <1>1, <2>1, Zenon
  <2>3. Tail(<<"keepIndex", "push", "applyOlder", "show", "unapply", "dropOlder", "status", "unstage">>) = <<"push", "applyOlder", "show", "unapply", "dropOlder", "status", "unstage">>
    OBVIOUS
  <2>4. Head(<<"push", "applyOlder", "show", "unapply", "dropOlder", "status", "unstage">>) = "push"
    OBVIOUS
  <2>5. <<"push", "applyOlder", "show", "unapply", "dropOlder", "status", "unstage">> \in StagedLeft
    BY DEF StagedLeft
  <2>6. Tail(l) \in StagedLeft /\ Head(Tail(l)) = "push"
    BY <1>1, <2>3, <2>4, <2>5, Zenon
  <2>7. Len(l) # 1
    BY <2>2
  <2>8. x = "keepIndex" /\ y = "push" /\ n # 1 /\ t \in StagedLeft
    BY <1>0, <2>2, <2>6, <2>7, Zenon
  <2> QED
    BY <2>8
<1>2. CASE l = <<"push", "applyOlder", "show", "unapply", "dropOlder", "status", "unstage">>
  <2>1. Head(<<"push", "applyOlder", "show", "unapply", "dropOlder", "status", "unstage">>) = "push" /\ Len(<<"push", "applyOlder", "show", "unapply", "dropOlder", "status", "unstage">>) = 7
    OBVIOUS
  <2>2. Head(l) = "push" /\ Len(l) = 7
    BY <1>2, <2>1, Zenon
  <2>3. Tail(<<"push", "applyOlder", "show", "unapply", "dropOlder", "status", "unstage">>) = <<"applyOlder", "show", "unapply", "dropOlder", "status", "unstage">>
    OBVIOUS
  <2>4. Head(<<"applyOlder", "show", "unapply", "dropOlder", "status", "unstage">>) = "applyOlder"
    OBVIOUS
  <2>5. <<"applyOlder", "show", "unapply", "dropOlder", "status", "unstage">> \in StagedLeft
    BY DEF StagedLeft
  <2>6. Tail(l) \in StagedLeft /\ Head(Tail(l)) = "applyOlder"
    BY <1>2, <2>3, <2>4, <2>5, Zenon
  <2>7. Len(l) # 1
    BY <2>2
  <2>8. x = "push" /\ y = "applyOlder" /\ n # 1 /\ t \in StagedLeft
    BY <1>0, <2>2, <2>6, <2>7, Zenon
  <2> QED
    BY <2>8
<1>3. CASE l = <<"applyOlder", "show", "unapply", "dropOlder", "status", "unstage">>
  <2>1. Head(<<"applyOlder", "show", "unapply", "dropOlder", "status", "unstage">>) = "applyOlder" /\ Len(<<"applyOlder", "show", "unapply", "dropOlder", "status", "unstage">>) = 6
    OBVIOUS
  <2>2. Head(l) = "applyOlder" /\ Len(l) = 6
    BY <1>3, <2>1, Zenon
  <2>3. Tail(<<"applyOlder", "show", "unapply", "dropOlder", "status", "unstage">>) = <<"show", "unapply", "dropOlder", "status", "unstage">>
    OBVIOUS
  <2>4. Head(<<"show", "unapply", "dropOlder", "status", "unstage">>) = "show"
    OBVIOUS
  <2>5. <<"show", "unapply", "dropOlder", "status", "unstage">> \in StagedLeft
    BY DEF StagedLeft
  <2>6. Tail(l) \in StagedLeft /\ Head(Tail(l)) = "show"
    BY <1>3, <2>3, <2>4, <2>5, Zenon
  <2>7. Len(l) # 1
    BY <2>2
  <2>8. x = "applyOlder" /\ y = "show" /\ n # 1 /\ t \in StagedLeft
    BY <1>0, <2>2, <2>6, <2>7, Zenon
  <2> QED
    BY <2>8
<1>4. CASE l = <<"show", "unapply", "dropOlder", "status", "unstage">>
  <2>1. Head(<<"show", "unapply", "dropOlder", "status", "unstage">>) = "show" /\ Len(<<"show", "unapply", "dropOlder", "status", "unstage">>) = 5
    OBVIOUS
  <2>2. Head(l) = "show" /\ Len(l) = 5
    BY <1>4, <2>1, Zenon
  <2>3. Tail(<<"show", "unapply", "dropOlder", "status", "unstage">>) = <<"unapply", "dropOlder", "status", "unstage">>
    OBVIOUS
  <2>4. Head(<<"unapply", "dropOlder", "status", "unstage">>) = "unapply"
    OBVIOUS
  <2>5. <<"unapply", "dropOlder", "status", "unstage">> \in StagedLeft
    BY DEF StagedLeft
  <2>6. Tail(l) \in StagedLeft /\ Head(Tail(l)) = "unapply"
    BY <1>4, <2>3, <2>4, <2>5, Zenon
  <2>7. Len(l) # 1
    BY <2>2
  <2>8. x = "show" /\ y = "unapply" /\ n # 1 /\ t \in StagedLeft
    BY <1>0, <2>2, <2>6, <2>7, Zenon
  <2> QED
    BY <2>8
<1>5. CASE l = <<"unapply", "dropOlder", "status", "unstage">>
  <2>1. Head(<<"unapply", "dropOlder", "status", "unstage">>) = "unapply" /\ Len(<<"unapply", "dropOlder", "status", "unstage">>) = 4
    OBVIOUS
  <2>2. Head(l) = "unapply" /\ Len(l) = 4
    BY <1>5, <2>1, Zenon
  <2>3. Tail(<<"unapply", "dropOlder", "status", "unstage">>) = <<"dropOlder", "status", "unstage">>
    OBVIOUS
  <2>4. Head(<<"dropOlder", "status", "unstage">>) = "dropOlder"
    OBVIOUS
  <2>5. <<"dropOlder", "status", "unstage">> \in StagedLeft
    BY DEF StagedLeft
  <2>6. Tail(l) \in StagedLeft /\ Head(Tail(l)) = "dropOlder"
    BY <1>5, <2>3, <2>4, <2>5, Zenon
  <2>7. Len(l) # 1
    BY <2>2
  <2>8. x = "unapply" /\ y = "dropOlder" /\ n # 1 /\ t \in StagedLeft
    BY <1>0, <2>2, <2>6, <2>7, Zenon
  <2> QED
    BY <2>8
<1>6. CASE l = <<"dropOlder", "status", "unstage">>
  <2>1. Head(<<"dropOlder", "status", "unstage">>) = "dropOlder" /\ Len(<<"dropOlder", "status", "unstage">>) = 3
    OBVIOUS
  <2>2. Head(l) = "dropOlder" /\ Len(l) = 3
    BY <1>6, <2>1, Zenon
  <2>3. Tail(<<"dropOlder", "status", "unstage">>) = <<"status", "unstage">>
    OBVIOUS
  <2>4. Head(<<"status", "unstage">>) = "status"
    OBVIOUS
  <2>5. <<"status", "unstage">> \in StagedLeft
    BY DEF StagedLeft
  <2>6. Tail(l) \in StagedLeft /\ Head(Tail(l)) = "status"
    BY <1>6, <2>3, <2>4, <2>5, Zenon
  <2>7. Len(l) # 1
    BY <2>2
  <2>8. x = "dropOlder" /\ y = "status" /\ n # 1 /\ t \in StagedLeft
    BY <1>0, <2>2, <2>6, <2>7, Zenon
  <2> QED
    BY <2>8
<1>7. CASE l = <<"status", "unstage">>
  <2>1. Head(<<"status", "unstage">>) = "status" /\ Len(<<"status", "unstage">>) = 2
    OBVIOUS
  <2>2. Head(l) = "status" /\ Len(l) = 2
    BY <1>7, <2>1, Zenon
  <2>3. Tail(<<"status", "unstage">>) = <<"unstage">>
    OBVIOUS
  <2>4. Head(<<"unstage">>) = "unstage"
    OBVIOUS
  <2>5. <<"unstage">> \in StagedLeft
    BY DEF StagedLeft
  <2>6. Tail(l) \in StagedLeft /\ Head(Tail(l)) = "unstage"
    BY <1>7, <2>3, <2>4, <2>5, Zenon
  <2>7. Len(l) # 1
    BY <2>2
  <2>8. x = "status" /\ y = "unstage" /\ n # 1 /\ t \in StagedLeft
    BY <1>0, <2>2, <2>6, <2>7, Zenon
  <2> QED
    BY <2>8
<1>8. CASE l = <<"unstage">>
  <2>1. Head(<<"unstage">>) = "unstage" /\ Len(<<"unstage">>) = 1
    OBVIOUS
  <2>2. Head(l) = "unstage" /\ Len(l) = 1
    BY <1>8, <2>1, Zenon
  <2>8. x = "unstage" /\ n = 1
    BY <1>0, <2>2, Zenon
  <2> QED
    BY <2>8
<1>9. CASE l = <<"saveStaged", "removeStaged">>
  <2>1. Head(<<"saveStaged", "removeStaged">>) = "saveStaged" /\ Len(<<"saveStaged", "removeStaged">>) = 2
    OBVIOUS
  <2>2. Head(l) = "saveStaged" /\ Len(l) = 2
    BY <1>9, <2>1, Zenon
  <2>3. Tail(<<"saveStaged", "removeStaged">>) = <<"removeStaged">>
    OBVIOUS
  <2>4. Head(<<"removeStaged">>) = "removeStaged"
    OBVIOUS
  <2>5. <<"removeStaged">> \in StagedLeft
    BY DEF StagedLeft
  <2>6. Tail(l) \in StagedLeft /\ Head(Tail(l)) = "removeStaged"
    BY <1>9, <2>3, <2>4, <2>5, Zenon
  <2>7. Len(l) # 1
    BY <2>2
  <2>8. x = "saveStaged" /\ y = "removeStaged" /\ n # 1 /\ t \in StagedLeft
    BY <1>0, <2>2, <2>6, <2>7, Zenon
  <2> QED
    BY <2>8
<1>10. CASE l = <<"removeStaged">>
  <2>1. Head(<<"removeStaged">>) = "removeStaged" /\ Len(<<"removeStaged">>) = 1
    OBVIOUS
  <2>2. Head(l) = "removeStaged" /\ Len(l) = 1
    BY <1>10, <2>1, Zenon
  <2>8. x = "removeStaged" /\ n = 1
    BY <1>0, <2>2, Zenon
  <2> QED
    BY <2>8
<1> QED
  BY <1>1, <1>2, <1>3, <1>4, <1>5, <1>6, <1>7, <1>8, <1>9, <1>10 DEF StagedLeft

LEMMA UnstagedOrder ==
  ASSUME NEW l \in UnstagedLeft
  PROVE  /\ Len(l) # 1 => Tail(l) \in UnstagedLeft
         /\ Head(l) \in {"commit", "pushOrUndo", "undo", "push"}
         /\ Len(l) = 1 <=> Head(l) \in {"undo", "push"}
         /\ Head(l) = "commit" => Head(Tail(l)) = "pushOrUndo"
         /\ Head(l) = "pushOrUndo" => Head(Tail(l)) = "undo"
<1>0. PICK x, y, n, t : x = Head(l) /\ y = Head(Tail(l)) /\ n = Len(l) /\ t = Tail(l)
  OBVIOUS
<1> SUFFICES /\ n # 1 => t \in UnstagedLeft
             /\ x \in {"commit", "pushOrUndo", "undo", "push"}
             /\ n = 1 <=> x \in {"undo", "push"}
             /\ x = "commit" => y = "pushOrUndo"
             /\ x = "pushOrUndo" => y = "undo"
  BY <1>0, Zenon
<1>1. CASE l = <<"commit", "pushOrUndo", "undo">>
  <2>1. Head(<<"commit", "pushOrUndo", "undo">>) = "commit" /\ Len(<<"commit", "pushOrUndo", "undo">>) = 3
    OBVIOUS
  <2>2. Head(l) = "commit" /\ Len(l) = 3
    BY <1>1, <2>1, Zenon
  <2>3. Tail(<<"commit", "pushOrUndo", "undo">>) = <<"pushOrUndo", "undo">>
    OBVIOUS
  <2>4. Head(<<"pushOrUndo", "undo">>) = "pushOrUndo"
    OBVIOUS
  <2>5. <<"pushOrUndo", "undo">> \in UnstagedLeft
    BY DEF UnstagedLeft
  <2>6. Tail(l) \in UnstagedLeft /\ Head(Tail(l)) = "pushOrUndo"
    BY <1>1, <2>3, <2>4, <2>5, Zenon
  <2>7. Len(l) # 1
    BY <2>2
  <2>8. x = "commit" /\ y = "pushOrUndo" /\ n # 1 /\ t \in UnstagedLeft
    BY <1>0, <2>2, <2>6, <2>7, Zenon
  <2> QED
    BY <2>8
<1>2. CASE l = <<"pushOrUndo", "undo">>
  <2>1. Head(<<"pushOrUndo", "undo">>) = "pushOrUndo" /\ Len(<<"pushOrUndo", "undo">>) = 2
    OBVIOUS
  <2>2. Head(l) = "pushOrUndo" /\ Len(l) = 2
    BY <1>2, <2>1, Zenon
  <2>3. Tail(<<"pushOrUndo", "undo">>) = <<"undo">>
    OBVIOUS
  <2>4. Head(<<"undo">>) = "undo"
    OBVIOUS
  <2>5. <<"undo">> \in UnstagedLeft
    BY DEF UnstagedLeft
  <2>6. Tail(l) \in UnstagedLeft /\ Head(Tail(l)) = "undo"
    BY <1>2, <2>3, <2>4, <2>5, Zenon
  <2>7. Len(l) # 1
    BY <2>2
  <2>8. x = "pushOrUndo" /\ y = "undo" /\ n # 1 /\ t \in UnstagedLeft
    BY <1>0, <2>2, <2>6, <2>7, Zenon
  <2> QED
    BY <2>8
<1>3. CASE l = <<"undo">>
  <2>1. Head(<<"undo">>) = "undo" /\ Len(<<"undo">>) = 1
    OBVIOUS
  <2>2. Head(l) = "undo" /\ Len(l) = 1
    BY <1>3, <2>1, Zenon
  <2>8. x = "undo" /\ n = 1
    BY <1>0, <2>2, Zenon
  <2> QED
    BY <2>8
<1>4. CASE l = <<"push">>
  <2>1. Head(<<"push">>) = "push" /\ Len(<<"push">>) = 1
    OBVIOUS
  <2>2. Head(l) = "push" /\ Len(l) = 1
    BY <1>4, <2>1, Zenon
  <2>8. x = "push" /\ n = 1
    BY <1>0, <2>2, Zenon
  <2> QED
    BY <2>8
<1> QED
  BY <1>1, <1>2, <1>3, <1>4 DEF UnstagedLeft

LEMMA RenameOrder ==
  ASSUME NEW l \in RenameLeft
  PROVE  /\ Len(l) # 1 => Tail(l) \in RenameLeft
         /\ Head(l) \in {"revParse", "drop", "store"}
         /\ Len(l) = 1 <=> Head(l) \in {"store"}
         /\ Head(l) = "revParse" => Head(Tail(l)) = "drop"
         /\ Head(l) = "drop" => Head(Tail(l)) = "store"
<1>0. PICK x, y, n, t : x = Head(l) /\ y = Head(Tail(l)) /\ n = Len(l) /\ t = Tail(l)
  OBVIOUS
<1> SUFFICES /\ n # 1 => t \in RenameLeft
             /\ x \in {"revParse", "drop", "store"}
             /\ n = 1 <=> x \in {"store"}
             /\ x = "revParse" => y = "drop"
             /\ x = "drop" => y = "store"
  BY <1>0, Zenon
<1>1. CASE l = <<"revParse", "drop", "store">>
  <2>1. Head(<<"revParse", "drop", "store">>) = "revParse" /\ Len(<<"revParse", "drop", "store">>) = 3
    OBVIOUS
  <2>2. Head(l) = "revParse" /\ Len(l) = 3
    BY <1>1, <2>1, Zenon
  <2>3. Tail(<<"revParse", "drop", "store">>) = <<"drop", "store">>
    OBVIOUS
  <2>4. Head(<<"drop", "store">>) = "drop"
    OBVIOUS
  <2>5. <<"drop", "store">> \in RenameLeft
    BY DEF RenameLeft
  <2>6. Tail(l) \in RenameLeft /\ Head(Tail(l)) = "drop"
    BY <1>1, <2>3, <2>4, <2>5, Zenon
  <2>7. Len(l) # 1
    BY <2>2
  <2>8. x = "revParse" /\ y = "drop" /\ n # 1 /\ t \in RenameLeft
    BY <1>0, <2>2, <2>6, <2>7, Zenon
  <2> QED
    BY <2>8
<1>2. CASE l = <<"drop", "store">>
  <2>1. Head(<<"drop", "store">>) = "drop" /\ Len(<<"drop", "store">>) = 2
    OBVIOUS
  <2>2. Head(l) = "drop" /\ Len(l) = 2
    BY <1>2, <2>1, Zenon
  <2>3. Tail(<<"drop", "store">>) = <<"store">>
    OBVIOUS
  <2>4. Head(<<"store">>) = "store"
    OBVIOUS
  <2>5. <<"store">> \in RenameLeft
    BY DEF RenameLeft
  <2>6. Tail(l) \in RenameLeft /\ Head(Tail(l)) = "store"
    BY <1>2, <2>3, <2>4, <2>5, Zenon
  <2>7. Len(l) # 1
    BY <2>2
  <2>8. x = "drop" /\ y = "store" /\ n # 1 /\ t \in RenameLeft
    BY <1>0, <2>2, <2>6, <2>7, Zenon
  <2> QED
    BY <2>8
<1>3. CASE l = <<"store">>
  <2>1. Head(<<"store">>) = "store" /\ Len(<<"store">>) = 1
    OBVIOUS
  <2>2. Head(l) = "store" /\ Len(l) = 1
    BY <1>3, <2>1, Zenon
  <2>8. x = "store" /\ n = 1
    BY <1>0, <2>2, Zenon
  <2> QED
    BY <2>8
<1> QED
  BY <1>1, <1>2, <1>3 DEF RenameLeft

LEMMA DiscardOrder ==
  ASSUME NEW l \in DiscardLeft
  PROVE  /\ Len(l) # 1 => Tail(l) \in DiscardLeft
         /\ Head(l) \in {"known", "discard"}
         /\ Len(l) = 1 <=> Head(l) \in {"discard"}
         /\ Head(l) = "known" => Head(Tail(l)) = "discard"
<1>0. PICK x, y, n, t : x = Head(l) /\ y = Head(Tail(l)) /\ n = Len(l) /\ t = Tail(l)
  OBVIOUS
<1> SUFFICES /\ n # 1 => t \in DiscardLeft
             /\ x \in {"known", "discard"}
             /\ n = 1 <=> x \in {"discard"}
             /\ x = "known" => y = "discard"
  BY <1>0, Zenon
<1>1. CASE l = <<"known", "discard">>
  <2>1. Head(<<"known", "discard">>) = "known" /\ Len(<<"known", "discard">>) = 2
    OBVIOUS
  <2>2. Head(l) = "known" /\ Len(l) = 2
    BY <1>1, <2>1, Zenon
  <2>3. Tail(<<"known", "discard">>) = <<"discard">>
    OBVIOUS
  <2>4. Head(<<"discard">>) = "discard"
    OBVIOUS
  <2>5. <<"discard">> \in DiscardLeft
    BY DEF DiscardLeft
  <2>6. Tail(l) \in DiscardLeft /\ Head(Tail(l)) = "discard"
    BY <1>1, <2>3, <2>4, <2>5, Zenon
  <2>7. Len(l) # 1
    BY <2>2
  <2>8. x = "known" /\ y = "discard" /\ n # 1 /\ t \in DiscardLeft
    BY <1>0, <2>2, <2>6, <2>7, Zenon
  <2> QED
    BY <2>8
<1>2. CASE l = <<"discard">>
  <2>1. Head(<<"discard">>) = "discard" /\ Len(<<"discard">>) = 1
    OBVIOUS
  <2>2. Head(l) = "discard" /\ Len(l) = 1
    BY <1>2, <2>1, Zenon
  <2>8. x = "discard" /\ n = 1
    BY <1>0, <2>2, Zenon
  <2> QED
    BY <2>8
<1> QED
  BY <1>1, <1>2 DEF DiscardLeft

LEMMA NukeOrder ==
  ASSUME NEW l \in NukeLeft
  PROVE  /\ Len(l) # 1 => Tail(l) \in NukeLeft
         /\ Head(l) \in {"reset", "clean"}
         /\ Len(l) = 1 <=> Head(l) \in {"clean"}
         /\ Head(l) = "reset" => Head(Tail(l)) = "clean"
<1>0. PICK x, y, n, t : x = Head(l) /\ y = Head(Tail(l)) /\ n = Len(l) /\ t = Tail(l)
  OBVIOUS
<1> SUFFICES /\ n # 1 => t \in NukeLeft
             /\ x \in {"reset", "clean"}
             /\ n = 1 <=> x \in {"clean"}
             /\ x = "reset" => y = "clean"
  BY <1>0, Zenon
<1>1. CASE l = <<"reset", "clean">>
  <2>1. Head(<<"reset", "clean">>) = "reset" /\ Len(<<"reset", "clean">>) = 2
    OBVIOUS
  <2>2. Head(l) = "reset" /\ Len(l) = 2
    BY <1>1, <2>1, Zenon
  <2>3. Tail(<<"reset", "clean">>) = <<"clean">>
    OBVIOUS
  <2>4. Head(<<"clean">>) = "clean"
    OBVIOUS
  <2>5. <<"clean">> \in NukeLeft
    BY DEF NukeLeft
  <2>6. Tail(l) \in NukeLeft /\ Head(Tail(l)) = "clean"
    BY <1>1, <2>3, <2>4, <2>5, Zenon
  <2>7. Len(l) # 1
    BY <2>2
  <2>8. x = "reset" /\ y = "clean" /\ n # 1 /\ t \in NukeLeft
    BY <1>0, <2>2, <2>6, <2>7, Zenon
  <2> QED
    BY <2>8
<1>2. CASE l = <<"clean">>
  <2>1. Head(<<"clean">>) = "clean" /\ Len(<<"clean">>) = 1
    OBVIOUS
  <2>2. Head(l) = "clean" /\ Len(l) = 1
    BY <1>2, <2>1, Zenon
  <2>8. x = "clean" /\ n = 1
    BY <1>0, <2>2, Zenon
  <2> QED
    BY <2>8
<1> QED
  BY <1>1, <1>2 DEF NukeLeft

LEMMA RequestKinds ==
  ASSUME NEW c \in Requests
  PROVE  /\ c.op \in {"CreateStash", "ApplyStash", "PopStash", "DropStash", "RenameStash",
                      "CreateBranchFromStash", "StageFile", "UnstageFile", "DiscardFile",
                      "StageLines", "UnstageLines", "CheckoutCommitFile", "StageSelection",
                      "UnstageSelection", "CommitStaged", "AmendHead", "NukeWorkingTree"}
         /\ c.op = "CreateStash" => c.mode \in Modes
         /\ c.op \in {"ApplyStash", "PopStash", "DropStash", "RenameStash",
                      "CreateBranchFromStash"} => c.k \in Nat \ {0}
         /\ c.op = "CheckoutCommitFile" => c.n \in Nat \ {0}
  BY DEF Requests

LEMMA Started ==
  ASSUME NEW c \in Requests
  PROVE  Left(c, Processes(c)) /\ Processes(c) # <<"begin">>
<1>1. CASE c.op = "CreateStash" /\ c.mode = "Staged"
  <2>1. \/ Processes(c) = <<"keepIndex", "push", "applyOlder", "show", "unapply", "dropOlder",
                            "status", "unstage">>
        \/ Processes(c) = <<"saveStaged", "removeStaged">>
    BY <1>1 DEF Processes, LegacyStaged
  <2> QED
    BY <1>1, <2>1 DEF Left, StagedLeft
<1>2. CASE c.op = "CreateStash" /\ c.mode = "Unstaged"
  <2>1. Processes(c) = <<"commit", "pushOrUndo", "undo">> \/ Processes(c) = <<"push">>
    BY <1>2 DEF Processes
  <2> QED
    BY <1>2, <2>1 DEF Left, UnstagedLeft
<1>3. CASE c.op = "RenameStash"
  <2>1. Processes(c) = <<"revParse", "drop", "store">>
    BY <1>3 DEF Processes
  <2> QED
    BY <1>3, <2>1 DEF Left, RenameLeft
<1>4. CASE c.op = "DiscardFile"
  <2>1. Processes(c) = <<"known", "discard">>
    BY <1>4 DEF Processes
  <2> QED
    BY <1>4, <2>1 DEF Left, DiscardLeft
<1>5. CASE c.op = "NukeWorkingTree"
  <2>1. Processes(c) = <<"reset", "clean">>
    BY <1>5 DEF Processes
  <2> QED
    BY <1>5, <2>1 DEF Left, NukeLeft
<1>6. CASE /\ c.op \notin {"RenameStash", "DiscardFile", "NukeWorkingTree"}
           /\ c.op = "CreateStash" => c.mode \notin {"Staged", "Unstaged"}
  <2>1. Processes(c) = <<"all">>
    BY <1>6 DEF Processes
  <2> QED
    BY <1>6, <2>1 DEF Left
<1> QED
  BY <1>1, <1>2, <1>3, <1>4, <1>5, <1>6

-----------------------------------------------------------------------------
(* The invariant. A job has what the processes that are left rely on.      *)

\* What only the index had when the command began.
Unkept(b) == b.index \ Kept(b)

\* What can be found without the last commit.
Below(w) ==
    {e \in Edits : \/ \E t \in ToSet(Front(w.log)) : e \in t
                   \/ e \in w.other \/ e \in w.tree
                   \/ \E s \in ToSet(w.stash) : e \in Held(s)}

\* What has been found out is about something there is.
PlanSound(h, p, w) ==
    /\ h \in {"drop", "store"} => p \in Entries
    /\ h = "discard" => p \in {"HEAD", "index", "untracked"}
    /\ h \in {"unapply", "removeStaged"} => \E s \in ToSet(w.stash) : p \subseteq Held(s)

\* Around the temporary commit.
TempSound(h, b, alone, w) ==
    /\ h \in {"begin", "commit"} => w.index \subseteq Kept(w) \cup Unkept(b)
    /\ h \in {"pushOrUndo", "undo"} =>
          /\ w.index \cup HeadTree(w) \subseteq Below(w) \cup Unkept(b)
          /\ alone => w.index = HeadTree(w)

\* The older of the two entries of stash_staged_changes_legacy.
OlderSound(h, p, alone, w) ==
    alone /\ h \in {"show", "unapply", "dropOlder"} =>
          /\ Len(w.stash) >= 2
          /\ h \in {"show", "unapply"} => Held(w.stash[2]) \subseteq w.tree \cup w.index
          /\ h = "unapply" => p = Patch(w.stash[1])
          /\ h = "dropOlder" =>
                Held(w.stash[2]) \subseteq w.tree \cup w.index \cup Held(w.stash[1])

\* The commits of a stash.
LogSound(h, c, b, alone, w) ==
    c.op = "CreateStash" /\ alone =>
       /\ h \in {"pushOrUndo", "undo"} => Front(w.log) = b.log /\ Len(w.log) >= 2
       /\ h \notin {"pushOrUndo", "undo"} => w.log = b.log

Onward(h, p, j, w) ==
    /\ p \in Plans
    /\ PlanSound(h, p, w)
    /\ TempSound(h, j.before, j.alone, w)
    /\ OlderSound(h, p, j.alone, w)
    /\ LogSound(h, j.c, j.before, j.alone, w)

Sound(j, w) == j \in Jobs /\ Left(j.c, j.left) /\ Onward(Head(j.left), j.plan, j, w)

Safe ==
    /\ work \in WorkTrees
    /\ \E w \in WorkTrees : detail = Detail(w)
    /\ modal = None \/ modal \in Requests
    /\ faults \in Nat /\ outside \in Nat
    /\ job # None => Sound(job, work)


-----------------------------------------------------------------------------
(* What others may do keeps all of it.                                     *)

LEMMA BelowGrows ==
  ASSUME NEW w \in WorkTrees, NEW v \in WorkTrees,
         \A t \in ToSet(Front(w.log)) : t \in ToSet(Front(v.log)),
         w.other = v.other,
         \A s \in ToSet(w.stash) : s \in ToSet(v.stash),
         \A e \in w.tree : e \in Below(v)
  PROVE  Below(w) \subseteq Below(v)
  BY DEF Below

\* The contents of the working copy are edits.
LEMMA KeptType ==
  ASSUME NEW w \in WorkTrees
  PROVE  Kept(w) \subseteq Edits /\ Below(w) \subseteq Kept(w)
<1>1. \A t \in ToSet(w.log) : t \subseteq Edits
  BY Tip, Elements
<1>2. w.stash \in Seq(Entries)
  BY Split
<1>3. \A s \in ToSet(w.stash) : Held(s) \subseteq Edits
  BY <1>2, Elements, EntryType
<1>4. w.tree \subseteq Edits /\ w.other \subseteq Edits
  BY Split
<1>5. Kept(w) \subseteq Edits
  BY <1>1, <1>3, <1>4, InKept
<1>6. ToSet(Front(w.log)) \subseteq ToSet(w.log)
  BY Tip, Fronted
<1> QED
  BY <1>5, <1>6, InKept DEF Below

\* Without the last commit there is all that there was before it.
LEMMA BelowCommit ==
  ASSUME NEW w \in WorkTrees, NEW v \in WorkTrees,
         Front(v.log) = w.log, v.other = w.other, v.tree = w.tree, v.stash = w.stash
  PROVE  Below(v) = Kept(w)
<1>1. Kept(w) \subseteq Edits
  BY KeptType
<1>2. ASSUME NEW e \in Kept(w) PROVE e \in Below(v)
  BY <1>1, <1>2, InKept DEF Below
<1>3. ASSUME NEW e \in Below(v) PROVE e \in Kept(w)
  BY <1>3, InKept DEF Below
<1> QED
  BY <1>2, <1>3

LEMMA StashedBelow ==
  ASSUME NEW w \in WorkTrees, NEW v \in StashPush(w)
  PROVE  /\ v \in WorkTrees /\ v.log = w.log /\ v.other = w.other
         /\ Kept(w) \subseteq Kept(v) /\ Gone(w, v) = {}
         /\ \A s \in ToSet(w.stash) : s \in ToSet(v.stash)
         /\ Below(w) \subseteq Below(v)
         /\ v.index \subseteq w.index \cup HeadTree(w)
         /\ w.index = HeadTree(w) => v.index = HeadTree(w)
<1>1. CASE Changed(w) = {}
  <2>1. v = w
    BY <1>1 DEF StashPush
  <2> QED
    BY <2>1, Unmoved
<1>2. CASE Changed(w) # {}
  <2>1. PICK e : e = Saving(w, w.index, Tracked(w), {})
    OBVIOUS
  <2>2. /\ v \in WorkTrees /\ e \in Entries
        /\ v.log = w.log /\ v.other = w.other /\ v.index = HeadTree(w)
        /\ v.tree = HeadTree(w) \cup Untracked(w) /\ v.stash = <<e>> \o w.stash
        /\ Kept(w) \subseteq Kept(v) /\ Gone(w, v) = {}
    BY <1>2, <2>1, Pushing
  <2>3. w.stash \in Seq(Entries)
    BY Split
  <2>4. ToSet(v.stash) = {e} \cup ToSet(w.stash)
    BY <2>2, <2>3, Pushed
  <2>5. Held(e) = (Tracked(w) \ HeadTree(w)) \cup {}
    BY <2>1, SavedAs
  <2>6. \A x \in w.tree : x \in Below(v)
    <3> SUFFICES ASSUME NEW x \in w.tree PROVE x \in Below(v)
      OBVIOUS
    <3>1. x \in Edits /\ (x \in Held(e) \/ x \in v.tree)
      BY <2>2, <2>5, Split
    <3>2. e \in ToSet(v.stash)
      BY <2>4
    <3> QED
      BY <3>1, <3>2 DEF Below
  <2>7. Below(w) \subseteq Below(v)
    BY <2>2, <2>4, <2>6, BelowGrows
  <2> QED
    BY <2>2, <2>4, <2>7
<1> QED
  BY <1>1, <1>2

LEMMA Acting ==
  ASSUME NEW w \in WorkTrees, NEW v \in Acts(w)
  PROVE  /\ v \in WorkTrees
         /\ Kept(w) \subseteq Kept(v)
         /\ \A s \in ToSet(w.stash) : s \in ToSet(v.stash)
         /\ Below(w) \subseteq Below(v)
         /\ v.index \subseteq w.index \cup Kept(w)
         /\ \A e \in v.index \cup HeadTree(v) : e \in w.index \cup HeadTree(w) \/ e \in Below(v)
<1> DEFINE Goal == /\ v \in WorkTrees
                   /\ Kept(w) \subseteq Kept(v)
                   /\ \A s \in ToSet(w.stash) : s \in ToSet(v.stash)
                   /\ Below(w) \subseteq Below(v)
                   /\ v.index \subseteq w.index \cup Kept(w)
                   /\ \A e \in v.index \cup HeadTree(v) :
                         e \in w.index \cup HeadTree(w) \/ e \in Below(v)
<1>0. HeadTree(w) \subseteq Kept(w) /\ w.tree \subseteq Kept(w)
  BY InKept
<1>1. ASSUME NEW x \in Edits, v = [w EXCEPT !.tree = w.tree \cup {x}]
      PROVE  Goal
  <2>1. PICK t : t = w.tree \cup {x}
    OBVIOUS
  <2>2. v = [w EXCEPT !.tree = t] /\ t \subseteq Edits
    BY <1>1, <2>1, Split
  <2>3. /\ v \in WorkTrees /\ v.log = w.log
        /\ v.other = w.other /\ v.index = w.index /\ v.tree = t /\ v.stash = w.stash
    BY <2>2 DEF WorkTrees
  <2>4. w.tree \subseteq Kept(v) \cup {}
    BY <2>1, <2>3, InKept
  <2>5. Kept(w) \subseteq Kept(v) \cup {}
    BY <2>3, <2>4, KeptGrows
  <2>6. Below(w) \subseteq Below(v)
    BY <2>1, <2>3 DEF Below
  <2>7. HeadTree(v) = HeadTree(w)
    BY <2>3 DEF HeadTree
  <2> QED
    BY <2>3, <2>5, <2>6, <2>7
<1>2. CASE v \in StashPush(w)
  <2>1. HeadTree(v) = HeadTree(w)
    BY <1>2, StashedBelow DEF HeadTree
  <2> QED
    BY <1>0, <1>2, <2>1, StashedBelow
<1>3. ASSUME NEW i \in SUBSET Edits, v = [w EXCEPT !.index = i],
             \A e \in i : e \in w.index \cup HeadTree(w) \cup w.tree
      PROVE  Goal
  <2>1. /\ v \in WorkTrees
        /\ v.log = w.log /\ v.other = w.other /\ v.index = i
        /\ v.tree = w.tree /\ v.stash = w.stash /\ Kept(v) = Kept(w)
    BY <1>3, Indexed
  <2>2. Below(v) = Below(w) /\ HeadTree(v) = HeadTree(w)
    BY <2>1 DEF Below, HeadTree
  <2>3. \A e \in w.tree : e \in Below(v)
    BY <2>2, Split DEF Below
  <2> QED
    BY <1>0, <1>3, <2>1, <2>2, <2>3
<1>4. CASE v \in UnstageSelection(w)
  <2>1. v = [w EXCEPT !.index = HeadTree(w)] /\ HeadTree(w) \in SUBSET Edits
    BY <1>4, Tip DEF UnstageSelection
  <2>2. PICK i \in SUBSET Edits : i = HeadTree(w)
    BY <2>1
  <2> QED
    BY <1>3, <2>1, <2>2
<1>5. ASSUME NEW f, v \in StageFile(w, f)
      PROVE  Goal
  <2>1. PICK i : i = (w.index \ Of(w.index, f)) \cup Of(w.tree, f)
    OBVIOUS
  <2>2. v = [w EXCEPT !.index = i]
    BY <1>5, <2>1 DEF StageFile
  <2>3. i \subseteq w.index \cup w.tree
    BY <2>1 DEF Of
  <2>4. i \in SUBSET Edits /\ \A e \in i : e \in w.index \cup HeadTree(w) \cup w.tree
    BY <2>3, Split
  <2> QED
    BY <1>3, <2>2, <2>4
<1>6. CASE v \in Commit(w)
  <2>1. /\ v \in WorkTrees
        /\ v.other = w.other /\ v.index = w.index
        /\ v.tree = w.tree /\ v.stash = w.stash
        /\ HeadTree(v) = w.index /\ Front(v.log) = w.log
        /\ Kept(w) \subseteq Kept(v)
    BY <1>6, Committed
  <2>2. Below(v) = Kept(w) /\ Below(w) \subseteq Kept(w)
    BY <2>1, BelowCommit, KeptType
  <2> QED
    BY <2>1, <2>2
<1>7. \/ \E x \in Edits : v = [w EXCEPT !.tree = w.tree \cup {x}]
      \/ v \in StashPush(w)
      \/ \E f : v \in StageFile(w, f)
      \/ v \in UnstageSelection(w)
      \/ v \in Commit(w)
  BY DEF Acts
<1>8. ASSUME \E x \in Edits : v = [w EXCEPT !.tree = w.tree \cup {x}]
      PROVE  Goal
  <2>1. PICK x \in Edits : v = [w EXCEPT !.tree = w.tree \cup {x}]
    BY <1>8
  <2> QED
    BY <1>1, <2>1
<1>9. ASSUME \E f : v \in StageFile(w, f)
      PROVE  Goal
  <2>1. PICK f : v \in StageFile(w, f)
    BY <1>9
  <2> QED
    BY <1>5, <2>1
<1> QED
  BY <1>2, <1>4, <1>6, <1>7, <1>8, <1>9

-----------------------------------------------------------------------------
(* What each process leaves is what the next one relies on.                *)

LEMMA OutcomeOf ==
         /\ Head(job.left) = "keepIndex" => Outcomes = StashKeepIndex(work)
         /\ Head(job.left) = "push" => Outcomes = StashPush(work)
         /\ Head(job.left) = "pushOrUndo" => Outcomes = StashPush(work)
         /\ Head(job.left) = "applyOlder" => Outcomes = StashApply(work, 2)
         /\ Head(job.left) = "show" => Outcomes = (IF work.stash = <<>> THEN {} ELSE {work})
         /\ Head(job.left) = "unapply" => Outcomes = Unapply(work, job.plan)
         /\ Head(job.left) = "dropOlder" => Outcomes = StashDrop(work, 2)
         /\ Head(job.left) = "status" => Outcomes = {work}
         /\ Head(job.left) = "known" => Outcomes = {work}
         /\ Head(job.left) = "unstage" => Outcomes = {[work EXCEPT !.index = @ \ job.plan]}
         /\ Head(job.left) = "saveStaged" => Outcomes = SaveStaged(work)
         /\ Head(job.left) = "removeStaged" => Outcomes = RemoveStaged(work, job.plan)
         /\ Head(job.left) = "commit" => Outcomes = Commit(work)
         /\ Head(job.left) = "undo" => Outcomes = UndoCommit(work)
         /\ Head(job.left) = "revParse" => Outcomes = (IF job.c.k > Len(work.stash) THEN {} ELSE {work})
         /\ Head(job.left) = "drop" => Outcomes = StashDrop(work, job.c.k)
         /\ Head(job.left) = "store" => Outcomes = StashStore(work, job.plan)
         /\ Head(job.left) = "discard" => Outcomes = DiscardFile(work, job.c.f, job.plan)
         /\ Head(job.left) = "reset" => Outcomes = ResetHard(work)
         /\ Head(job.left) = "clean" => Outcomes = Clean(work)
         /\ Head(job.left) = "all" => Outcomes = SingleProcess(work, job.c)
<1> PICK h : h = Head(job.left)
  OBVIOUS
<1>1. h = "keepIndex" => Outcomes = StashKeepIndex(work)
  BY DEF Outcomes
<1>2. h = "push" => Outcomes = StashPush(work)
  BY DEF Outcomes
<1>3. h = "pushOrUndo" => Outcomes = StashPush(work)
  BY DEF Outcomes
<1>4. h = "applyOlder" => Outcomes = StashApply(work, 2)
  BY DEF Outcomes
<1>5. h = "show" => Outcomes = (IF work.stash = <<>> THEN {} ELSE {work})
  BY DEF Outcomes
<1>6. h = "unapply" => Outcomes = Unapply(work, job.plan)
  BY DEF Outcomes
<1>7. h = "dropOlder" => Outcomes = StashDrop(work, 2)
  BY DEF Outcomes
<1>8. h = "status" => Outcomes = {work}
  BY DEF Outcomes
<1>9. h = "known" => Outcomes = {work}
  BY DEF Outcomes
<1>10. h = "unstage" => Outcomes = {[work EXCEPT !.index = @ \ job.plan]}
  BY DEF Outcomes
<1>11. h = "saveStaged" => Outcomes = SaveStaged(work)
  BY DEF Outcomes
<1>12. h = "removeStaged" => Outcomes = RemoveStaged(work, job.plan)
  BY DEF Outcomes
<1>13. h = "commit" => Outcomes = Commit(work)
  BY DEF Outcomes
<1>14. h = "undo" => Outcomes = UndoCommit(work)
  BY DEF Outcomes
<1>15. h = "revParse" => Outcomes = (IF job.c.k > Len(work.stash) THEN {} ELSE {work})
  BY DEF Outcomes
<1>16. h = "drop" => Outcomes = StashDrop(work, job.c.k)
  BY DEF Outcomes
<1>17. h = "store" => Outcomes = StashStore(work, job.plan)
  BY DEF Outcomes
<1>18. h = "discard" => Outcomes = DiscardFile(work, job.c.f, job.plan)
  BY DEF Outcomes
<1>19. h = "reset" => Outcomes = ResetHard(work)
  BY DEF Outcomes
<1>20. h = "clean" => Outcomes = Clean(work)
  BY DEF Outcomes
<1>21. h = "all" => Outcomes = SingleProcess(work, job.c)
  BY DEF Outcomes
<1> QED
  BY <1>1, <1>2, <1>3, <1>4, <1>5, <1>6, <1>7, <1>8, <1>9, <1>10, <1>11, <1>12, <1>13, <1>14, <1>15, <1>16, <1>17, <1>18, <1>19, <1>20, <1>21

LEMMA PlanOf ==
         /\ Head(job.left) = "show" => Plan = Patch(work.stash[1])
         /\ Head(job.left) = "saveStaged" => Plan = work.index \ HeadTree(work)
         /\ Head(job.left) = "status" => Plan = AddedDeleted(work)
         /\ Head(job.left) = "revParse" => Plan = work.stash[job.c.k]
         /\ Head(job.left) = "known" => Plan = KnownFrom(work, job.c.f)
         /\ Head(job.left) \notin {"show", "saveStaged", "status", "revParse", "known"} => Plan = job.plan
  BY DEF Plan

\* What a step may take away.
Allowed(j, w, v) ==
    \/ Gone(w, v) = {}
    \/ j.c.op \in {"DropStash", "NukeWorkingTree"}
    \/ j.c.op \in {"DiscardFile", "CheckoutCommitFile"} /\ \A e \in Gone(w, v) : FileOf[e] = j.c.f
    \/ j.c.op = "RenameStash" /\ Head(j.left) = "drop"
    \/ Head(j.left) = "dropOlder" /\ ~j.alone
    \/ Head(j.left) = "undo" /\ ~j.alone /\ Gone(w, v) \subseteq Unkept(j.before)
    \/ j.c.op = "AmendHead" /\ Gone(w, v) \subseteq HeadTree(w) \ w.index

\* A stash that is about to end has the commits it began with.
Ended(j, v) == j.c.op = "CreateStash" /\ j.alone => v.log = j.before.log

LEMMA JobType ==
  ASSUME NEW j \in Jobs
  PROVE  /\ j.c \in Requests /\ j.plan \in Plans /\ j.before \in WorkTrees
         /\ j.alone \in BOOLEAN /\ j.undone \in BOOLEAN
  BY DEF Jobs

\* Where no temporary commit is made.
LEMMA PlainOnward ==
  ASSUME NEW h, NEW w, NEW v, NEW j, NEW g, NEW p \in Plans,
         LogSound(h, j.c, j.before, j.alone, w), v.log = w.log,
         h \notin {"pushOrUndo", "undo"},
         g \notin {"begin", "commit", "pushOrUndo", "undo"},
         PlanSound(g, p, v), OlderSound(g, p, j.alone, v)
  PROVE  Onward(g, p, j, v)
  BY DEF Onward, LogSound, TempSound

LEMMA KeptIndex ==
  ASSUME NEW w \in WorkTrees, NEW v \in StashKeepIndex(w)
  PROVE  v \in WorkTrees /\ v.log = w.log /\ Gone(w, v) = {}
<1>1. CASE Changed(w) = {}
  BY <1>1, Unmoved DEF StashKeepIndex
<1>2. CASE Changed(w) # {}
  BY <1>2, KeepingIndex
<1> QED
  BY <1>1, <1>2

LEMMA StagedProceeds ==
  ASSUME NEW w \in WorkTrees, NEW j, NEW v \in Outcomes, w = work, j = job,
         Sound(j, w), j.left \in StagedLeft
  PROVE  /\ v \in WorkTrees /\ v.log = w.log
         /\ Allowed(j, w, v)
         /\ Len(j.left) # 1 => Onward(Head(Tail(j.left)), Plan, j, v)
<1> DEFINE l == j.left
           Goal == /\ v \in WorkTrees /\ v.log = w.log
                   /\ Allowed(j, w, v)
                   /\ Len(j.left) # 1 => Onward(Head(Tail(j.left)), Plan, j, v)
<1>0. j \in Jobs /\ j.plan \in Plans /\ j.alone \in BOOLEAN
  BY JobType DEF Sound
<1>1. PICK h : h = Head(j.left)
  OBVIOUS
<1>2. PICK g : g = Head(Tail(j.left))
  OBVIOUS
<1>3. /\ PlanSound(h, j.plan, w) /\ OlderSound(h, j.plan, j.alone, w)
      /\ LogSound(h, j.c, j.before, j.alone, w)
  BY <1>1 DEF Sound, Onward
<1>4. /\ h \in {"keepIndex", "push", "applyOlder", "show", "unapply", "dropOlder", "status",
                "unstage", "saveStaged", "removeStaged"}
      /\ Len(j.left) = 1 <=> h \in {"unstage", "removeStaged"}
  BY <1>1, StagedOrder
<1>a. /\ h = "keepIndex" => g = "push"
      /\ h = "push" => g = "applyOlder"
      /\ h = "applyOlder" => g = "show"
      /\ h = "show" => g = "unapply"
      /\ h = "unapply" => g = "dropOlder"
      /\ h = "dropOlder" => g = "status"
      /\ h = "status" => g = "unstage"
      /\ h = "saveStaged" => g = "removeStaged"
  BY <1>1, <1>2, StagedOrder, Zenon
<1>5. ASSUME NEW p \in Plans, Plan = p, v \in WorkTrees, v.log = w.log, Gone(w, v) = {} \/ Allowed(j, w, v),
             h \notin {"unstage", "removeStaged"} => 
               /\ g \notin {"begin", "commit", "pushOrUndo", "undo"}
               /\ PlanSound(g, p, v) /\ OlderSound(g, p, j.alone, v)
      PROVE  Goal
  <2>1. Allowed(j, w, v)
    BY <1>5 DEF Allowed
  <2>2. ASSUME h \notin {"unstage", "removeStaged"} PROVE Onward(g, p, j, v)
    BY <1>3, <1>4, <1>5, <2>2, PlainOnward
  <2> QED
    BY <1>2, <1>4, <1>5, <2>1, <2>2
<1>6. CASE h = "keepIndex"
  <2>1. v \in StashKeepIndex(w) /\ Plan = j.plan /\ g = "push"
    BY <1>1, <1>2, <1>6, <1>a, OutcomeOf, PlanOf
  <2>2. v \in WorkTrees /\ v.log = w.log /\ Gone(w, v) = {}
    BY <2>1, KeptIndex
  <2>3. PlanSound(g, j.plan, v) /\ OlderSound(g, j.plan, j.alone, v)
    BY <2>1 DEF PlanSound, OlderSound
  <2> QED
    BY <1>0, <1>5, <2>1, <2>2, <2>3
<1>7. CASE h = "push"
  <2>1. v \in StashPush(w) /\ Plan = j.plan /\ g = "applyOlder"
    BY <1>1, <1>2, <1>7, <1>a, OutcomeOf, PlanOf
  <2>2. v \in WorkTrees /\ v.log = w.log /\ Gone(w, v) = {}
    BY <2>1, StashedBelow
  <2>3. PlanSound(g, j.plan, v) /\ OlderSound(g, j.plan, j.alone, v)
    BY <2>1 DEF PlanSound, OlderSound
  <2> QED
    BY <1>0, <1>5, <2>1, <2>2, <2>3
<1>8. CASE h = "applyOlder"
  <2>1. v \in StashApply(w, 2) /\ Plan = j.plan /\ g = "show"
    BY <1>1, <1>2, <1>8, <1>a, OutcomeOf, PlanOf
  <2>2. /\ v \in WorkTrees /\ v.log = w.log /\ Gone(w, v) = {}
        /\ 2 \in 1..Len(w.stash) /\ v.stash = w.stash
        /\ Held(w.stash[2]) \subseteq v.tree \cup v.index
    BY <2>1, Applied
  <2>3. Len(v.stash) >= 2
    BY <2>2, Split, LenProperties
  <2>4. PlanSound(g, j.plan, v) /\ OlderSound(g, j.plan, j.alone, v)
    BY <2>1, <2>2, <2>3 DEF PlanSound, OlderSound
  <2> QED
    BY <1>0, <1>5, <2>1, <2>2, <2>4
<1>9. CASE h = "show"
  <2>1. v = w /\ w.stash # <<>> /\ Plan = Patch(w.stash[1]) /\ g = "unapply"
    BY <1>1, <1>2, <1>9, <1>a, OutcomeOf, PlanOf
  <2>2. PICK p : p = Patch(w.stash[1])
    OBVIOUS
  <2>3. w.stash[1] \in Entries /\ w.stash[1] \in ToSet(w.stash)
    <3>1. w.stash \in Seq(Entries)
      BY Split
    <3> QED
      BY <2>1, <3>1, Elements
  <2>4. p \in Plans
    BY <2>2, <2>3, EntryType DEF Plans
  <2>5. PlanSound(g, p, v)
    BY <2>1, <2>2, <2>3 DEF PlanSound, Held
  <2>6. OlderSound(g, p, j.alone, v)
    BY <1>3, <1>9, <2>1, <2>2 DEF OlderSound
  <2> QED
    BY <1>5, <2>1, <2>2, <2>4, <2>5, <2>6, Unmoved
<1>10. CASE h = "unapply"
  <2>1. v \in Unapply(w, j.plan) /\ Plan = j.plan /\ g = "dropOlder"
    BY <1>1, <1>2, <1>10, <1>a, OutcomeOf, PlanOf
  <2>2. \E s \in ToSet(w.stash) : j.plan \subseteq Held(s)
    BY <1>3, <1>10 DEF PlanSound
  <2>3. /\ v \in WorkTrees /\ v.log = w.log /\ Gone(w, v) = {}
        /\ v.index = w.index /\ v.tree = w.tree \ j.plan /\ v.stash = w.stash
    BY <2>1, <2>2, Unapplied
  <2>4. PlanSound(g, j.plan, v)
    BY <2>1 DEF PlanSound
  <2>5. OlderSound(g, j.plan, j.alone, v)
    BY <1>3, <1>10, <2>1, <2>3 DEF OlderSound, Held
  <2> QED
    BY <1>0, <1>5, <2>1, <2>3, <2>4, <2>5
<1>11. CASE h = "dropOlder"
  <2>1. v \in StashDrop(w, 2) /\ Plan = j.plan /\ g = "status"
    BY <1>1, <1>2, <1>11, <1>a, OutcomeOf, PlanOf
  <2>2. /\ v \in WorkTrees /\ v.log = w.log /\ 2 \in 1..Len(w.stash)
        /\ v.index = w.index /\ v.tree = w.tree /\ v.stash = RemoveAt(w.stash, 2)
        /\ Kept(w) \subseteq Kept(v) \cup Held(w.stash[2])
    BY <2>1, Dropped
  <2>3. ASSUME j.alone PROVE Gone(w, v) = {}
    <3>1. Held(w.stash[2]) \subseteq w.tree \cup w.index \cup Held(w.stash[1])
      BY <1>3, <1>11, <2>3 DEF OlderSound
    <3>2. w.stash \in Seq(Entries) /\ Len(w.stash) \in Nat
      BY Split, LenProperties
    <3>3. v.stash \in Seq(Entries) /\ Len(v.stash) = Len(w.stash) - 1
          /\ \A i \in 1..Len(w.stash) - 1 : v.stash[i] = IF i < 2 THEN w.stash[i] ELSE w.stash[i + 1]
      BY <2>2, <3>2, Removed
    <3>4. 1 \in 1..Len(v.stash) /\ v.stash[1] = w.stash[1]
      BY <2>2, <3>2, <3>3
    <3>5. v.stash[1] \in ToSet(v.stash)
      BY <3>3, <3>4, Elements
    <3>6. Held(w.stash[1]) \subseteq Kept(v) /\ v.tree \subseteq Kept(v)
      BY <2>2, <3>4, <3>5, InKept
    <3> QED
      BY <2>2, <3>1, <3>6 DEF Gone
  <2>4. Allowed(j, w, v)
    BY <1>0, <1>1, <1>11, <2>3 DEF Allowed
  <2>5. PlanSound(g, j.plan, v) /\ OlderSound(g, j.plan, j.alone, v)
    BY <2>1 DEF PlanSound, OlderSound
  <2> QED
    BY <1>0, <1>5, <2>1, <2>2, <2>4, <2>5
<1>12. CASE h = "status"
  <2>1. v = w /\ Plan = AddedDeleted(w) /\ g = "unstage"
    BY <1>1, <1>2, <1>12, <1>a, OutcomeOf, PlanOf
  <2>2. PICK p : p = AddedDeleted(w)
    OBVIOUS
  <2>3. p \in Plans
    BY <2>2, Split DEF Plans, AddedDeleted
  <2>4. PlanSound(g, p, v) /\ OlderSound(g, p, j.alone, v)
    BY <2>1 DEF PlanSound, OlderSound
  <2> QED
    BY <1>5, <2>1, <2>2, <2>3, <2>4, Unmoved
<1>13. CASE h = "unstage"
  <2>1. v = [w EXCEPT !.index = w.index \ j.plan] /\ Plan = j.plan
    BY <1>1, <1>13, OutcomeOf, PlanOf
  <2>2. PICK i : i = w.index \ j.plan
    OBVIOUS
  <2>3. i \in SUBSET Edits
    BY <2>2, Split
  <2>4. v \in WorkTrees /\ v.log = w.log /\ Gone(w, v) = {}
    BY <2>1, <2>2, <2>3, Indexed
  <2> QED
    BY <1>0, <1>5, <1>13, <2>1, <2>4
<1>14. CASE h = "saveStaged"
  <2>1. v \in SaveStaged(w) /\ Plan = w.index \ HeadTree(w) /\ g = "removeStaged"
    BY <1>1, <1>2, <1>14, <1>a, OutcomeOf, PlanOf
  <2>2. PICK p : p = w.index \ HeadTree(w)
    OBVIOUS
  <2>3. v \in WorkTrees /\ v.log = w.log /\ Gone(w, v) = {}
    BY <2>1, SavingStaged
  <2>4. PICK e \in Entries : /\ v.stash = <<e>> \o w.stash
                             /\ Patch(e) = w.index \ HeadTree(w) /\ e.untracked = {}
    BY <2>1, SavingStaged
  <2>5. e \in ToSet(v.stash) /\ p \subseteq Held(e)
    BY <2>2, <2>4, Split, Pushed DEF Held
  <2>6. p \in Plans
    BY <2>2, Split DEF Plans
  <2>7. PlanSound(g, p, v)
    BY <2>1, <2>5 DEF PlanSound
  <2>8. OlderSound(g, p, j.alone, v)
    BY <2>1 DEF OlderSound
  <2> QED
    BY <1>5, <2>1, <2>2, <2>3, <2>6, <2>7, <2>8
<1>15. CASE h = "removeStaged"
  <2>1. v \in RemoveStaged(w, j.plan) /\ Plan = j.plan
    BY <1>1, <1>15, OutcomeOf, PlanOf
  <2>2. \E s \in ToSet(w.stash) : j.plan \subseteq Held(s)
    BY <1>3, <1>15 DEF PlanSound
  <2>3. v \in WorkTrees /\ v.log = w.log /\ Gone(w, v) = {}
    BY <2>1, <2>2, RemovingStaged
  <2> QED
    BY <1>0, <1>5, <1>15, <2>1, <2>3
<1> QED
  BY <1>4, <1>6, <1>7, <1>8, <1>9, <1>10, <1>11, <1>12, <1>13, <1>14, <1>15

LEMMA UnstagedProceeds ==
  ASSUME NEW w \in WorkTrees, NEW j, NEW v \in Outcomes, w = work, j = job,
         Sound(j, w), j.left \in UnstagedLeft
  PROVE  /\ v \in WorkTrees
         /\ Allowed(j, w, v)
         /\ Len(j.left) # 1 => Onward(Head(Tail(j.left)), Plan, j, v)
         /\ Len(j.left) = 1 => Ended(j, v)
<1>0. j \in Jobs /\ j.plan \in Plans /\ j.alone \in BOOLEAN
  BY JobType DEF Sound
<1>1. PICK h : h = Head(j.left)
  OBVIOUS
<1>2. PICK g : g = Head(Tail(j.left))
  OBVIOUS
<1>3. /\ TempSound(h, j.before, j.alone, w)
      /\ LogSound(h, j.c, j.before, j.alone, w)
  BY <1>1 DEF Sound, Onward
<1>4. /\ h \in {"commit", "pushOrUndo", "undo", "push"}
      /\ Len(j.left) = 1 <=> h \in {"undo", "push"}
      /\ h = "commit" => g = "pushOrUndo"
      /\ h = "pushOrUndo" => g = "undo"
  BY <1>1, <1>2, UnstagedOrder, Zenon
<1>5. ASSUME g \in {"pushOrUndo", "undo"}, v \in WorkTrees,
             TempSound(g, j.before, j.alone, v), LogSound(g, j.c, j.before, j.alone, v)
      PROVE  Onward(g, j.plan, j, v)
  BY <1>0, <1>5 DEF Onward, PlanSound, OlderSound
<1>6. CASE h = "commit"
  <2>1. v \in Commit(w) /\ Plan = j.plan /\ g = "pushOrUndo"
    BY <1>1, <1>4, <1>6, OutcomeOf, PlanOf
  <2>2. /\ v \in WorkTrees /\ v.other = w.other /\ v.index = w.index
        /\ v.tree = w.tree /\ v.stash = w.stash
        /\ HeadTree(v) = w.index /\ Front(v.log) = w.log /\ Len(v.log) >= 2 /\ Gone(w, v) = {}
    BY <2>1, Committed
  <2>3. Below(v) = Kept(w)
    BY <2>2, BelowCommit
  <2>4. w.index \subseteq Kept(w) \cup Unkept(j.before)
    BY <1>3, <1>6 DEF TempSound
  <2>5. TempSound(g, j.before, j.alone, v)
    BY <2>1, <2>2, <2>3, <2>4 DEF TempSound
  <2>6. LogSound(g, j.c, j.before, j.alone, v)
    BY <1>3, <1>6, <2>1, <2>2 DEF LogSound
  <2>7. Onward(g, j.plan, j, v) /\ Len(j.left) # 1
    BY <1>4, <1>5, <1>6, <2>1, <2>2, <2>5, <2>6
  <2> QED
    BY <1>2, <2>1, <2>2, <2>7 DEF Allowed
<1>7. CASE h = "pushOrUndo"
  <2>1. v \in StashPush(w) /\ Plan = j.plan /\ g = "undo"
    BY <1>1, <1>4, <1>7, OutcomeOf, PlanOf
  <2>2. /\ v \in WorkTrees /\ v.log = w.log /\ Gone(w, v) = {}
        /\ Below(w) \subseteq Below(v)
        /\ v.index \subseteq w.index \cup HeadTree(w)
        /\ w.index = HeadTree(w) => v.index = HeadTree(w)
    BY <2>1, StashedBelow
  <2>3. HeadTree(v) = HeadTree(w)
    BY <2>2 DEF HeadTree
  <2>4. /\ w.index \cup HeadTree(w) \subseteq Below(w) \cup Unkept(j.before)
        /\ j.alone => w.index = HeadTree(w)
    BY <1>3, <1>7 DEF TempSound
  <2>5. TempSound(g, j.before, j.alone, v)
    BY <2>1, <2>2, <2>3, <2>4 DEF TempSound
  <2>6. LogSound(g, j.c, j.before, j.alone, v)
    BY <1>3, <1>7, <2>1, <2>2 DEF LogSound
  <2>7. Onward(g, j.plan, j, v) /\ Len(j.left) # 1
    BY <1>4, <1>5, <1>7, <2>1, <2>2, <2>5, <2>6
  <2> QED
    BY <1>2, <2>1, <2>2, <2>7 DEF Allowed
<1>8. CASE h = "undo"
  <2>1. v \in UndoCommit(w)
    BY <1>1, <1>8, OutcomeOf
  <2>2. /\ v \in WorkTrees /\ v.log = Front(w.log)
        /\ v.other = w.other /\ v.index = w.index /\ v.tree = w.tree /\ v.stash = w.stash
        /\ Gone(w, v) \subseteq HeadTree(w) \ w.index
    BY <2>1, Undone
  <2>3. /\ HeadTree(w) \subseteq Below(w) \cup Unkept(j.before)
        /\ j.alone => w.index = HeadTree(w)
    BY <1>3, <1>8 DEF TempSound
  <2>4. Below(w) \subseteq Kept(v)
    <3> SUFFICES ASSUME NEW e \in Below(w) PROVE e \in Kept(v)
      OBVIOUS
    <3>1. \/ \E t \in ToSet(v.log) : e \in t
          \/ e \in v.other \/ e \in v.tree
          \/ \E s \in ToSet(v.stash) : e \in Held(s)
      BY <2>2 DEF Below
    <3> QED
      BY <2>2, <3>1, InKept
  <2>5. Gone(w, v) \subseteq Unkept(j.before)
    BY <2>2, <2>3, <2>4 DEF Gone
  <2>6. j.alone => Gone(w, v) = {}
    BY <2>2, <2>3
  <2>7. Allowed(j, w, v)
    BY <1>0, <1>1, <1>8, <2>5, <2>6 DEF Allowed
  <2>8. Ended(j, v)
    BY <1>3, <1>8, <2>2 DEF LogSound, Ended
  <2> QED
    BY <1>4, <1>8, <2>2, <2>7, <2>8
<1>9. CASE h = "push"
  <2>1. v \in StashPush(w)
    BY <1>1, <1>9, OutcomeOf
  <2>2. v \in WorkTrees /\ v.log = w.log /\ Gone(w, v) = {}
    BY <2>1, StashedBelow
  <2>3. Ended(j, v)
    BY <1>3, <1>9, <2>2 DEF LogSound, Ended
  <2> QED
    BY <1>4, <1>9, <2>2, <2>3 DEF Allowed
<1> QED
  BY <1>4, <1>6, <1>7, <1>8, <1>9

\* Renaming, discarding and nuking make no commit and no promise to keep one.
LEMMA OtherOnward ==
  ASSUME NEW g, NEW j, NEW v, NEW p \in Plans, j.c.op # "CreateStash",
         g \in {"drop", "store", "discard", "clean"}, PlanSound(g, p, v)
  PROVE  Onward(g, p, j, v)
  BY DEF Onward, TempSound, OlderSound, LogSound

LEMMA EntriesPlan ==
  ASSUME NEW p \in Entries
  PROVE  p \in Plans
  BY Zenon DEF Plans

LEMMA SourcesPlan ==
  ASSUME NEW p \in {"HEAD", "index", "untracked"}
  PROVE  p \in Plans
  BY Zenon DEF Plans

LEMMA RenameProceeds ==
  ASSUME NEW w \in WorkTrees, NEW j, NEW v \in Outcomes, w = work, j = job,
         Sound(j, w), j.left \in RenameLeft, j.c.op = "RenameStash"
  PROVE  /\ v \in WorkTrees
         /\ Allowed(j, w, v)
         /\ Len(j.left) # 1 => Onward(Head(Tail(j.left)), Plan, j, v)
<1>0. j \in Jobs /\ j.plan \in Plans /\ j.c.k \in Nat \ {0}
  BY JobType, RequestKinds DEF Sound
<1>1. PICK h : h = Head(j.left)
  OBVIOUS
<1>2. PICK g : g = Head(Tail(j.left))
  OBVIOUS
<1>3. PlanSound(h, j.plan, w)
  BY <1>1 DEF Sound, Onward
<1>4. /\ h \in {"revParse", "drop", "store"}
      /\ Len(j.left) = 1 <=> h \in {"store"}
      /\ h = "revParse" => g = "drop"
      /\ h = "drop" => g = "store"
  BY <1>1, <1>2, RenameOrder, Zenon
<1>5. CASE h = "revParse"
  <2>1. v = w /\ ~(j.c.k > Len(w.stash)) /\ Plan = w.stash[j.c.k] /\ g = "drop"
    BY <1>1, <1>4, <1>5, OutcomeOf, PlanOf
  <2>2. w.stash \in Seq(Entries) /\ Len(w.stash) \in Nat
    BY Split, LenProperties
  <2>3. PICK p \in Entries : p = w.stash[j.c.k]
    BY <1>0, <2>1, <2>2, ElementOfSeq
  <2>4. p \in Plans
    BY EntriesPlan
  <2>5. Onward(g, p, j, v)
    <3>1. PlanSound(g, p, v)
      BY <2>1 DEF PlanSound
    <3> QED
      BY <2>1, <2>4, <3>1, OtherOnward
  <2> QED
    BY <1>2, <2>1, <2>3, <2>5, Unmoved DEF Allowed
<1>6. CASE h = "drop"
  <2>1. v \in StashDrop(w, j.c.k) /\ Plan = j.plan /\ g = "store"
    BY <1>1, <1>4, <1>6, OutcomeOf, PlanOf
  <2>2. v \in WorkTrees
    BY <1>0, <2>1, Dropped
  <2>3. PlanSound(g, j.plan, v)
    BY <1>3, <1>6, <2>1 DEF PlanSound
  <2>4. Onward(g, j.plan, j, v)
    BY <1>0, <2>1, <2>3, OtherOnward
  <2> QED
    BY <1>1, <1>2, <1>6, <2>1, <2>2, <2>4 DEF Allowed
<1>7. CASE h = "store"
  <2>1. v \in StashStore(w, j.plan) /\ j.plan \in Entries
    BY <1>1, <1>3, <1>7, OutcomeOf DEF PlanSound
  <2>2. v \in WorkTrees /\ Gone(w, v) = {}
    BY <2>1, Stored
  <2> QED
    BY <1>4, <1>7, <2>2 DEF Allowed
<1> QED
  BY <1>4, <1>5, <1>6, <1>7

LEMMA KnownType ==
  ASSUME NEW w, NEW f
  PROVE  KnownFrom(w, f) \in {"HEAD", "index", "untracked"}
  BY DEF KnownFrom

LEMMA DiscardProceeds ==
  ASSUME NEW w \in WorkTrees, NEW j, NEW v \in Outcomes, w = work, j = job,
         Sound(j, w), j.left \in DiscardLeft, j.c.op = "DiscardFile"
  PROVE  /\ v \in WorkTrees
         /\ Allowed(j, w, v)
         /\ Len(j.left) # 1 => Onward(Head(Tail(j.left)), Plan, j, v)
<1>1. PICK h : h = Head(j.left)
  OBVIOUS
<1>2. PICK g : g = Head(Tail(j.left))
  OBVIOUS
<1>3. PlanSound(h, j.plan, w)
  BY <1>1 DEF Sound, Onward
<1>4. /\ h \in {"known", "discard"}
      /\ Len(j.left) = 1 <=> h \in {"discard"}
      /\ h = "known" => g = "discard"
  BY <1>1, <1>2, DiscardOrder, Zenon
<1>5. CASE h = "known"
  <2>1. v = w /\ Plan = KnownFrom(w, j.c.f) /\ g = "discard"
    BY <1>1, <1>4, <1>5, OutcomeOf, PlanOf
  <2>2. PICK p \in {"HEAD", "index", "untracked"} : p = KnownFrom(w, j.c.f)
    BY KnownType
  <2>3. p \in Plans /\ PlanSound(g, p, v)
    <3>1. PlanSound(g, p, v)
      BY <2>1, <2>2 DEF PlanSound
    <3> QED
      BY <3>1, SourcesPlan
  <2>4. Onward(g, p, j, v)
    BY <2>1, <2>3, OtherOnward
  <2> QED
    BY <1>2, <2>1, <2>2, <2>4, Unmoved DEF Allowed
<1>6. CASE h = "discard"
  <2>1. v \in DiscardFile(w, j.c.f, j.plan) /\ j.plan \in {"HEAD", "index", "untracked"}
    BY <1>1, <1>3, <1>6, OutcomeOf DEF PlanSound
  <2>2. v \in WorkTrees /\ \A e \in Gone(w, v) : FileOf[e] = j.c.f
    BY <2>1, Discarded
  <2> QED
    BY <1>4, <1>6, <2>2 DEF Allowed
<1> QED
  BY <1>4, <1>5, <1>6

LEMMA NukeProceeds ==
  ASSUME NEW w \in WorkTrees, NEW j, NEW v \in Outcomes, w = work, j = job,
         Sound(j, w), j.left \in NukeLeft, j.c.op = "NukeWorkingTree"
  PROVE  /\ v \in WorkTrees
         /\ Allowed(j, w, v)
         /\ Len(j.left) # 1 => Onward(Head(Tail(j.left)), Plan, j, v)
<1>0. j.plan \in Plans
  BY JobType DEF Sound
<1>1. PICK h : h = Head(j.left)
  OBVIOUS
<1>2. PICK g : g = Head(Tail(j.left))
  OBVIOUS
<1>3. /\ h \in {"reset", "clean"}
      /\ Len(j.left) = 1 <=> h \in {"clean"}
      /\ h = "reset" => g = "clean"
  BY <1>1, <1>2, NukeOrder, Zenon
<1>4. CASE h = "reset"
  <2>1. v \in ResetHard(w) /\ Plan = j.plan /\ g = "clean"
    BY <1>1, <1>3, <1>4, OutcomeOf, PlanOf
  <2>2. v \in WorkTrees
    BY <2>1, Reset
  <2>3. PlanSound(g, j.plan, v)
    BY <2>1 DEF PlanSound
  <2>4. Onward(g, j.plan, j, v)
    BY <1>0, <2>1, <2>3, OtherOnward
  <2> QED
    BY <1>2, <2>1, <2>2, <2>4 DEF Allowed
<1>5. CASE h = "clean"
  <2>1. v \in Clean(w)
    BY <1>1, <1>5, OutcomeOf
  <2>2. v \in WorkTrees
    BY <2>1, Cleaned
  <2> QED
    BY <1>3, <1>5, <2>2 DEF Allowed
<1> QED
  BY <1>3, <1>4, <1>5

\* The commands of a single process.
LEMMA SingleProceeds ==
  ASSUME NEW w \in WorkTrees, NEW j \in Jobs, NEW v \in SingleProcess(w, j.c),
         j.c.op \notin {"RenameStash", "DiscardFile", "NukeWorkingTree"},
         j.c.op = "CreateStash" => j.c.mode \notin {"Staged", "Unstaged"}
  PROVE  /\ v \in WorkTrees
         /\ Allowed(j, w, v)
         /\ j.c.op = "CreateStash" => v.log = w.log
<1>1. PICK c \in Requests : c = j.c
  BY JobType
<1>2. CASE \/ c.op \in {"StageSelection", "UnstageSelection", "StageFile", "UnstageFile",
                        "StageLines", "UnstageLines"}
  <2>1. \/ v \in StageSelection(w) \cup UnstageSelection(w)
        \/ v \in StageFile(w, c.f) \cup UnstageFile(w, c.f)
        \/ v \in StageLines(w, c.lines) \cup UnstageLines(w, c.lines)
    BY <1>1, <1>2 DEF SingleProcess
  <2>2. PICK i \in SUBSET Edits : v = [w EXCEPT !.index = i]
    BY <2>1, Staging
  <2>3. v \in WorkTrees /\ Gone(w, v) = {}
    BY <2>2, Indexed
  <2> QED
    BY <1>1, <1>2, <2>3 DEF Allowed
<1>3. CASE c.op = "CommitStaged"
  <2>1. v \in Commit(w)
    BY <1>1, <1>3 DEF SingleProcess
  <2> QED
    BY <1>1, <1>3, <2>1, Committed DEF Allowed
<1>4. CASE c.op = "AmendHead"
  <2>1. v \in AmendHead(w)
    BY <1>1, <1>4 DEF SingleProcess
  <2> QED
    BY <1>1, <1>4, <2>1, Amended DEF Allowed
<1>5. CASE c.op = "CheckoutCommitFile"
  <2>1. v \in CheckoutCommitFile(w, c.n, c.f) /\ c.n \in Nat \ {0}
    BY <1>1, <1>5, RequestKinds DEF SingleProcess
  <2>2. v \in WorkTrees /\ \A e \in Gone(w, v) : FileOf[e] = c.f
    BY <2>1, CheckedOut
  <2> QED
    BY <1>1, <1>5, <2>2 DEF Allowed
<1>6. CASE c.op = "ApplyStash"
  <2>1. v \in StashApply(w, c.k) /\ c.k \in Nat \ {0}
    BY <1>1, <1>6, RequestKinds DEF SingleProcess
  <2>2. v \in WorkTrees /\ Gone(w, v) = {}
    BY <2>1, Applied
  <2> QED
    BY <1>1, <1>6, <2>2 DEF Allowed
<1>7. CASE c.op = "PopStash"
  <2>1. v \in StashPop(w, c.k) /\ c.k \in Nat \ {0}
    BY <1>1, <1>7, RequestKinds DEF SingleProcess
  <2>2. v \in WorkTrees /\ Gone(w, v) = {}
    BY <2>1, Popped
  <2> QED
    BY <1>1, <1>7, <2>2 DEF Allowed
<1>8. CASE c.op = "DropStash"
  <2>1. v \in StashDrop(w, c.k) /\ c.k \in Nat \ {0}
    BY <1>1, <1>8, RequestKinds DEF SingleProcess
  <2>2. v \in WorkTrees
    BY <2>1, Dropped
  <2> QED
    BY <1>1, <1>8, <2>2 DEF Allowed
<1>9. CASE c.op = "CreateBranchFromStash"
  <2>1. v \in StashBranch(w, c.k) /\ c.k \in Nat \ {0}
    BY <1>1, <1>9, RequestKinds DEF SingleProcess
  <2>2. v \in WorkTrees /\ Gone(w, v) = {}
    BY <2>1, Branched
  <2> QED
    BY <1>1, <1>9, <2>2 DEF Allowed
<1>10. CASE c.op = "CreateStash"
  <2>1. v \in StashPush(w) \/ v \in StashKeepIndex(w) \/ v \in StashAll(w)
    <3>1. c.mode \in {"Tracked", "KeepIndex", "IncludeUntracked"}
      BY <1>1, <1>10, RequestKinds DEF Modes
    <3> QED
      BY <1>1, <1>10, <3>1 DEF SingleProcess
  <2>2. ASSUME v \in StashAll(w) PROVE v \in WorkTrees /\ v.log = w.log /\ Gone(w, v) = {}
    <3>1. CASE Changed(w) \cup Untracked(w) = {}
      BY <2>2, <3>1, Unmoved DEF StashAll
    <3>2. CASE Changed(w) \cup Untracked(w) # {}
      BY <2>2, <3>2, StashingAll
    <3> QED
      BY <3>1, <3>2
  <2>3. v \in WorkTrees /\ v.log = w.log /\ Gone(w, v) = {}
    BY <2>1, <2>2, StashedBelow, KeptIndex
  <2> QED
    BY <2>3 DEF Allowed
<1> QED
  BY <1>1, <1>2, <1>3, <1>4, <1>5, <1>6, <1>7, <1>8, <1>9, <1>10, RequestKinds

LEMMA AllOrder == Head(<<"all">>) = "all" /\ Len(<<"all">>) = 1
  OBVIOUS

LEMMA LeftOrder ==
  ASSUME NEW c, NEW l, Left(c, l)
  PROVE  /\ Len(l) # 1 => Left(c, Tail(l))
         /\ l # <<>>
<1>1. l = <<"begin">> => Len(l) = 1 /\ l # <<>>
  OBVIOUS
<1>2. l = <<"all">> => Len(l) = 1 /\ l # <<>>
  OBVIOUS
<1>3. /\ l \in StagedLeft /\ Len(l) # 1 => Tail(l) \in StagedLeft
      /\ l \in UnstagedLeft /\ Len(l) # 1 => Tail(l) \in UnstagedLeft
      /\ l \in RenameLeft /\ Len(l) # 1 => Tail(l) \in RenameLeft
      /\ l \in DiscardLeft /\ Len(l) # 1 => Tail(l) \in DiscardLeft
      /\ l \in NukeLeft /\ Len(l) # 1 => Tail(l) \in NukeLeft
  BY StagedOrder, UnstagedOrder, RenameOrder, DiscardOrder, NukeOrder, Zenon
<1>4. /\ <<>> \notin StagedLeft /\ <<>> \notin UnstagedLeft /\ <<>> \notin RenameLeft
      /\ <<>> \notin DiscardLeft /\ <<>> \notin NukeLeft
  BY DEF StagedLeft, UnstagedLeft, RenameLeft, DiscardLeft, NukeLeft
<1>5. Len(l) # 1 => Left(c, Tail(l))
  BY <1>1, <1>2, <1>3 DEF Left
<1>6. l # <<>>
  BY <1>1, <1>2, <1>4 DEF Left
<1> QED
  BY <1>5, <1>6

LEMMA Proceeds ==
  ASSUME NEW w \in WorkTrees, NEW j, NEW v \in Outcomes, w = work, j = job,
         Sound(j, w), j.left # <<"begin">>
  PROVE  /\ v \in WorkTrees
         /\ Allowed(j, w, v)
         /\ Len(j.left) # 1 => Onward(Head(Tail(j.left)), Plan, j, v)
         /\ Len(j.left) = 1 => Ended(j, v)
<1>1. Left(j.c, j.left) /\ j \in Jobs
  BY DEF Sound
<1>2. CASE j.c.op = "CreateStash" /\ j.c.mode = "Staged" /\ j.left \in StagedLeft
  <2>1. /\ v \in WorkTrees /\ v.log = w.log /\ Allowed(j, w, v)
        /\ Len(j.left) # 1 => Onward(Head(Tail(j.left)), Plan, j, v)
    BY <1>2, StagedProceeds
  <2>2. LogSound(Head(j.left), j.c, j.before, j.alone, w)
    BY DEF Sound, Onward
  <2>3. Head(j.left) \notin {"pushOrUndo", "undo"}
    <3>1. PICK h : h = Head(j.left)
      OBVIOUS
    <3>2. h \in {"keepIndex", "push", "applyOlder", "show", "unapply",
                 "dropOlder", "status", "unstage", "saveStaged", "removeStaged"}
      BY <1>2, <3>1, StagedOrder, Zenon
    <3> QED
      BY <3>1, <3>2
  <2>4. Ended(j, v)
    BY <2>1, <2>2, <2>3 DEF Ended, LogSound
  <2> QED
    BY <2>1, <2>4
<1>3. CASE j.c.op = "CreateStash" /\ j.c.mode = "Unstaged" /\ j.left \in UnstagedLeft
  BY <1>3, UnstagedProceeds
<1>4. CASE j.c.op = "RenameStash" /\ j.left \in RenameLeft
  BY <1>4, RenameProceeds DEF Ended
<1>5. CASE j.c.op = "DiscardFile" /\ j.left \in DiscardLeft
  BY <1>5, DiscardProceeds DEF Ended
<1>6. CASE j.c.op = "NukeWorkingTree" /\ j.left \in NukeLeft
  BY <1>6, NukeProceeds DEF Ended
<1>7. CASE /\ j.c.op \notin {"RenameStash", "DiscardFile", "NukeWorkingTree"}
           /\ j.c.op = "CreateStash" => j.c.mode \notin {"Staged", "Unstaged"}
           /\ j.left = <<"all">>
  <2>1. Head(j.left) = "all" /\ Len(j.left) = 1
    BY <1>7, AllOrder, Zenon
  <2>2. v \in SingleProcess(w, j.c)
    BY <2>1, OutcomeOf
  <2>3. /\ v \in WorkTrees /\ Allowed(j, w, v)
        /\ j.c.op = "CreateStash" => v.log = w.log
    BY <1>1, <1>7, <2>2, SingleProceeds
  <2>4. LogSound(Head(j.left), j.c, j.before, j.alone, w)
    BY DEF Sound, Onward
  <2>5. Ended(j, v)
    BY <2>1, <2>3, <2>4 DEF Ended, LogSound
  <2> QED
    BY <2>1, <2>3, <2>5
<1> QED
  BY <1>1, <1>2, <1>3, <1>4, <1>5, <1>6, <1>7 DEF Left

-----------------------------------------------------------------------------
(* The invariant holds.                                                    *)

LEMMA InitSafe == Init => Safe
  BY TreesAssumption DEF Init, Safe

\* What is asked for by a detail that was right once.
LEMMA DetailEdits ==
  ASSUME NEW w \in WorkTrees, NEW d, d = Detail(w)
  PROVE  /\ d.staged \subseteq Edits /\ d.unstaged \subseteq Edits /\ d.untracked \subseteq Edits
         /\ DOMAIN d.stash \subseteq Nat \ {0} /\ DOMAIN d.log \subseteq Nat \ {0}
<1>1. w.index \subseteq Edits /\ w.tree \subseteq Edits /\ HeadTree(w) \subseteq Edits
  BY Split, Tip
<1>2. Staged(w) \subseteq Edits
  BY <1>1 DEF Staged
<1>3. Unstaged(w) \subseteq Edits /\ Untracked(w) \subseteq Edits
  BY <1>1 DEF Unstaged, Tracked, Untracked
<1>4. w.stash \in Seq(Entries) /\ w.log \in Seq(SUBSET Edits)
  BY Split, Tip
<1>5. DOMAIN w.stash = 1..Len(w.stash) /\ DOMAIN w.log = 1..Len(w.log)
  BY <1>4
<1>6. /\ d.staged = Staged(w) /\ d.unstaged = Unstaged(w) /\ d.untracked = Untracked(w)
      /\ d.stash = w.stash /\ d.log = w.log
  BY DEF Detail
<1> QED
  BY <1>2, <1>3, <1>5, <1>6

LEMMA FilesType ==
  ASSUME NEW s \in SUBSET Edits, NEW f \in FilesOf(s)
  PROVE  f \in Files
  BY DEF FilesOf, Files

LEMMA Heard ==
  ASSUME NEW w \in WorkTrees, NEW d, d = Detail(w), NEW c \in Asked(d) \cup Immediate(d)
  PROVE  c \in Requests
<1>1. /\ d.staged \subseteq Edits /\ d.unstaged \subseteq Edits /\ d.untracked \subseteq Edits
      /\ DOMAIN d.stash \subseteq Nat \ {0} /\ DOMAIN d.log \subseteq Nat \ {0}
  BY DetailEdits
<1>2. CASE c \in {[op |-> "CreateStash", mode |-> m] : m \in {m \in Modes : Available(d, m)}}
  BY <1>2 DEF Requests
<1>3. CASE c \in {[op |-> o, k |-> k] :
                     o \in {"PopStash", "DropStash", "RenameStash", "CreateBranchFromStash"},
                     k \in DOMAIN d.stash}
  BY <1>1, <1>3 DEF Requests
<1>4. ASSUME NEW s \in SUBSET Edits, NEW o \in {"StageFile", "UnstageFile", "DiscardFile"},
             c \in [op : {o}, f : FilesOf(s)]
      PROVE  c \in Requests
  <2>1. c \in [op : {"StageFile", "UnstageFile", "DiscardFile"}, f : Files]
    BY <1>4, FilesType
  <2> QED
    BY <2>1 DEF Requests
<1>5. CASE c \in {[op |-> o] : o \in {"StageSelection", "UnstageSelection", "CommitStaged",
                                      "AmendHead", "NukeWorkingTree"}}
  <2>1. c \in [op : {"StageSelection", "UnstageSelection", "CommitStaged", "AmendHead",
                     "NukeWorkingTree"}]
    BY <1>5
  <2> QED
    BY <2>1 DEF Requests
<1>6. ASSUME NEW o \in {"StageLines", "UnstageLines"}, NEW l \in SUBSET Edits,
             c = [op |-> o, lines |-> l]
      PROVE  c \in Requests
  <2>1. c \in [op : {"StageLines", "UnstageLines"}, lines : SUBSET Edits]
    BY <1>6
  <2> QED
    BY <2>1 DEF Requests
<1>7. CASE c \in {[op |-> "ApplyStash", k |-> k] : k \in DOMAIN d.stash}
  <2>1. c \in [op : {"ApplyStash", "PopStash", "DropStash", "RenameStash",
                     "CreateBranchFromStash"}, k : Nat \ {0}]
    BY <1>1, <1>7
  <2> QED
    BY <2>1 DEF Requests
<1>8. ASSUME NEW n \in DOMAIN d.log,
             c \in [op : {"CheckoutCommitFile"}, n : {n}, f : ChangedIn(d.log, n)]
      PROVE  c \in Requests
  <2>1. ChangedIn(d.log, n) \subseteq Files
    BY DEF ChangedIn
  <2>2. c \in [op : {"CheckoutCommitFile"}, n : Nat \ {0}, f : Files]
    BY <1>1, <1>8, <2>1
  <2> QED
    BY <2>2 DEF Requests
<1>9. CASE c \in Asked(d)
  <2>1. \/ c \in {[op |-> "CreateStash", mode |-> m] : m \in {m \in Modes : Available(d, m)}}
        \/ c \in {[op |-> o, k |-> k] :
                     o \in {"PopStash", "DropStash", "RenameStash", "CreateBranchFromStash"},
                     k \in DOMAIN d.stash}
        \/ c \in [op : {"DiscardFile"}, f : FilesOf(d.staged \cup d.unstaged \cup d.untracked)]
        \/ c = [op |-> "NukeWorkingTree"]
    BY <1>9 DEF Asked
  <2>2. PICK s \in SUBSET Edits : s = d.staged \cup d.unstaged \cup d.untracked
    BY <1>1
  <2> QED
    BY <1>2, <1>3, <1>4, <1>5, <2>1, <2>2
<1>10. CASE c \in Immediate(d)
  <2>1. \/ c \in {[op |-> "StageSelection"], [op |-> "UnstageSelection"]}
        \/ c \in [op : {"StageFile"}, f : FilesOf(d.unstaged \cup d.untracked)]
        \/ c \in [op : {"UnstageFile"}, f : FilesOf(d.staged)]
        \/ c \in {[op |-> "StageLines", lines |-> l] :
                     l \in {l \in SUBSET d.unstaged : l # {} /\ Cardinality(FilesOf(l)) = 1}}
        \/ c \in {[op |-> "UnstageLines", lines |-> l] :
                     l \in {l \in SUBSET d.staged : l # {} /\ Cardinality(FilesOf(l)) = 1}}
        \/ c \in {[op |-> "CommitStaged"], [op |-> "AmendHead"]}
        \/ c \in {[op |-> "ApplyStash", k |-> k] : k \in DOMAIN d.stash}
        \/ \E n \in DOMAIN d.log :
              c \in [op : {"CheckoutCommitFile"}, n : {n}, f : ChangedIn(d.log, n)]
    BY <1>10 DEF Immediate
  <2>2. PICK s \in SUBSET Edits : s = d.unstaged \cup d.untracked
    BY <1>1
  <2>3. /\ c \in {[op |-> "StageSelection"], [op |-> "UnstageSelection"]} => c \in Requests
        /\ c \in {[op |-> "CommitStaged"], [op |-> "AmendHead"]} => c \in Requests
    BY <1>5
  <2>4. c \in [op : {"StageFile"}, f : FilesOf(d.unstaged \cup d.untracked)] => c \in Requests
    BY <1>4, <2>2
  <2>5. c \in [op : {"UnstageFile"}, f : FilesOf(d.staged)] => c \in Requests
    BY <1>1, <1>4
  <2>6. c \in {[op |-> "StageLines", lines |-> l] :
                  l \in {l \in SUBSET d.unstaged : l # {} /\ Cardinality(FilesOf(l)) = 1}}
           => c \in Requests
    BY <1>1, <1>6
  <2>7. c \in {[op |-> "UnstageLines", lines |-> l] :
                  l \in {l \in SUBSET d.staged : l # {} /\ Cardinality(FilesOf(l)) = 1}}
           => c \in Requests
    BY <1>1, <1>6
  <2> QED
    BY <1>7, <1>8, <2>1, <2>3, <2>4, <2>5, <2>6, <2>7, Zenon
<1> QED
  BY <1>9, <1>10

\* A command that has just begun.
LEMMA BegunSound ==
  ASSUME NEW w \in WorkTrees, NEW c \in Requests, w = work
  PROVE  Sound(Run(c), w)
<1>1. PICK j : j = Run(c)
  OBVIOUS
<1>2. PICK l \in Seq(Purposes) : l = <<"begin">>
  <2>1. PICK x \in Purposes : x = "begin"
    BY DEF Purposes
  <2>2. <<x>> \in Seq(Purposes)
    OBVIOUS
  <2> QED
    BY <2>1, <2>2, Zenon
<1>3. PICK p \in Plans : p = {}
  BY DEF Plans
<1>4. j = [c |-> c, left |-> l, plan |-> p, undone |-> FALSE, before |-> w, alone |-> TRUE]
  BY <1>1, <1>2, <1>3 DEF Run
<1>5. /\ j \in Jobs /\ j.c = c /\ j.left = l /\ j.plan = p /\ j.before = w /\ j.alone = TRUE
  BY <1>4 DEF Jobs
<1>6. PICK h : h = Head(l)
  OBVIOUS
<1>7. h = "begin"
  BY <1>2, <1>6
<1>8. w.index \subseteq Kept(w) \cup Unkept(w)
  BY DEF Unkept
<1>9. TempSound(h, w, TRUE, w) /\ PlanSound(h, p, w) /\ OlderSound(h, p, TRUE, w)
  BY <1>7, <1>8 DEF TempSound, PlanSound, OlderSound
<1>10. LogSound(h, c, w, TRUE, w)
  BY <1>7 DEF LogSound
<1>11. Onward(h, p, j, w)
  BY <1>5, <1>9, <1>10 DEF Onward
<1>12. Left(c, l)
  BY <1>2 DEF Left
<1> QED
  BY <1>1, <1>5, <1>6, <1>11, <1>12 DEF Sound

LEMMA FirstOf ==
  ASSUME NEW c \in Requests, NEW h, h = Head(Processes(c))
  PROVE  h \in {"keepIndex", "saveStaged", "commit", "push", "revParse", "known", "reset", "all"}
<1>1. CASE c.op = "CreateStash" /\ c.mode = "Staged"
  <2>1. \/ Processes(c) = <<"keepIndex", "push", "applyOlder", "show", "unapply", "dropOlder",
                            "status", "unstage">>
        \/ Processes(c) = <<"saveStaged", "removeStaged">>
    BY <1>1 DEF Processes, LegacyStaged
  <2> QED
    BY <2>1
<1>2. CASE c.op = "CreateStash" /\ c.mode = "Unstaged"
  <2>1. Processes(c) = <<"commit", "pushOrUndo", "undo">> \/ Processes(c) = <<"push">>
    BY <1>2 DEF Processes
  <2> QED
    BY <2>1
<1>3. CASE ~(c.op = "CreateStash" /\ c.mode \in {"Staged", "Unstaged"})
  <2>1. \/ Processes(c) = <<"revParse", "drop", "store">>
        \/ Processes(c) = <<"known", "discard">>
        \/ Processes(c) = <<"reset", "clean">>
        \/ Processes(c) = <<"all">>
    BY <1>3 DEF Processes
  <2> QED
    BY <2>1
<1> QED
  BY <1>1, <1>2, <1>3

LEMMA OrdersType ==
  ASSUME NEW c \in Requests
  PROVE  Processes(c) \in Seq(Purposes)
<1>1. PICK P : P = Purposes
  OBVIOUS
<1>2. /\ "keepIndex" \in P /\ "push" \in P /\ "applyOlder" \in P /\ "show" \in P
      /\ "unapply" \in P /\ "dropOlder" \in P /\ "status" \in P /\ "unstage" \in P
  BY <1>1 DEF Purposes
<1>3. /\ "saveStaged" \in P /\ "removeStaged" \in P /\ "commit" \in P /\ "pushOrUndo" \in P
      /\ "undo" \in P /\ "revParse" \in P /\ "drop" \in P /\ "store" \in P
      /\ "known" \in P /\ "discard" \in P /\ "reset" \in P /\ "clean" \in P /\ "all" \in P
  BY <1>1 DEF Purposes
<1>4. <<"keepIndex", "push", "applyOlder", "show", "unapply", "dropOlder", "status", "unstage">>
         \in Seq(P)
  BY <1>2
<1>5. <<"saveStaged", "removeStaged">> \in Seq(P) /\ <<"push">> \in Seq(P)
  BY <1>2, <1>3
<1>6. <<"commit", "pushOrUndo", "undo">> \in Seq(P) /\ <<"revParse", "drop", "store">> \in Seq(P)
  BY <1>3
<1>7. /\ <<"known", "discard">> \in Seq(P) /\ <<"reset", "clean">> \in Seq(P)
      /\ <<"all">> \in Seq(P)
  BY <1>3
<1>8. \/ Processes(c) = <<"keepIndex", "push", "applyOlder", "show", "unapply", "dropOlder",
                          "status", "unstage">>
      \/ Processes(c) = <<"saveStaged", "removeStaged">> \/ Processes(c) = <<"push">>
      \/ Processes(c) = <<"commit", "pushOrUndo", "undo">>
      \/ Processes(c) = <<"revParse", "drop", "store">>
      \/ Processes(c) = <<"known", "discard">> \/ Processes(c) = <<"reset", "clean">>
      \/ Processes(c) = <<"all">>
  BY DEF Processes, LegacyStaged
<1> QED
  BY <1>1, <1>4, <1>5, <1>6, <1>7, <1>8, Zenon

LEMMA BeginSafe == Safe /\ Begin => Safe' /\ job' # None
<1> SUFFICES ASSUME Safe, Begin PROVE Safe' /\ job' # None
  OBVIOUS
<1>1. PICK w \in WorkTrees : w = work
  BY DEF Safe
<1>2. PICK j : j = job
  OBVIOUS
<1>3. j # None /\ Sound(j, w) /\ j.left = <<"begin">>
  BY <1>1, <1>2 DEF Safe, Begin
<1>4. j \in Jobs /\ Onward(Head(j.left), j.plan, j, w)
  BY <1>3 DEF Sound
<1>5. PICK c \in Requests : c = j.c
  BY <1>4, JobType
<1>6. PICK l \in Seq(Purposes) : l = Processes(c)
  BY OrdersType
<1>7. PICK k : k = [j EXCEPT !.left = l]
  OBVIOUS
<1>8. job' = k /\ work' = w
  BY <1>1, <1>2, <1>5, <1>6, <1>7 DEF Begin
<1>9. PICK p \in Plans, b \in BOOLEAN, u \in BOOLEAN : p = j.plan /\ b = j.alone /\ u = j.undone
  BY <1>4, JobType
<1>11. /\ k \in Jobs /\ k.c = c /\ k.left = l /\ k.plan = p
       /\ k.before = j.before /\ k.alone = b /\ k.undone = u
  BY <1>4, <1>5, <1>7, <1>9 DEF Jobs
<1>12. PICK h : h = Head(l)
  OBVIOUS
<1>13. h \in {"keepIndex", "saveStaged", "commit", "push", "revParse", "known", "reset", "all"}
  BY <1>6, <1>12, FirstOf
<1>14. Head(j.left) = "begin"
  BY <1>3
<1>15. TempSound("begin", j.before, b, w) /\ LogSound("begin", c, j.before, b, w)
  BY <1>4, <1>5, <1>9, <1>14, Zenon DEF Onward
<1>16. /\ TempSound(h, j.before, b, w) /\ LogSound(h, c, j.before, b, w)
       /\ PlanSound(h, p, w) /\ OlderSound(h, p, b, w)
  BY <1>13, <1>15 DEF TempSound, LogSound, PlanSound, OlderSound
<1>17. Onward(h, p, k, w)
  BY <1>11, <1>16 DEF Onward
<1>18. Left(c, l)
  BY <1>6, Started
<1>19. Sound(k, w)
  BY <1>11, <1>12, <1>17, <1>18 DEF Sound
<1>20. job' # None
  BY <1>8, <1>11, NoneAssumption
<1> QED
  BY <1>8, <1>19, <1>20 DEF Safe, Begin, counters

LEMMA UserSafe == Safe /\ User => Safe'
<1> SUFFICES ASSUME Safe, User PROVE Safe'
  OBVIOUS
<1>1. PICK w \in WorkTrees : w = work
  BY DEF Safe
<1>2. PICK z \in WorkTrees : detail = Detail(z)
  BY DEF Safe
<1>3. work' = w /\ detail' = Detail(z) /\ faults' = faults /\ outside' = outside
  BY <1>1, <1>2 DEF User, Ask, Request, Submit, Cancel, Input, counters
<1>4. \/ modal' \in Asked(detail) /\ job' = None
      \/ modal' = None /\ \E c \in Immediate(detail) : job' = Run(c)
      \/ modal # None /\ modal' = None /\ job' = Run(modal)
      \/ modal' = None /\ job' = None
  BY DEF User, Ask, Request, Submit, Cancel, Input, Idle
<1>5. modal' = None \/ modal' \in Requests
  BY <1>2, <1>4, Heard
<1>6. job' = None \/ \E c \in Requests : job' = Run(c)
  <2>1. \A c \in Immediate(detail) : c \in Requests
    BY <1>2, Heard
  <2>2. modal = None \/ modal \in Requests
    BY DEF Safe
  <2> QED
    BY <1>4, <2>1, <2>2
<1>7. job' # None => Sound(job', w)
  BY <1>1, <1>6, BegunSound
<1> QED
  BY <1>3, <1>5, <1>7 DEF Safe

\* The processes of a command.
LEMMA ProcessSafe == Safe /\ Process => Safe' /\ (Len(job.left) # 1 => job' # None)
<1> SUFFICES ASSUME Safe, Process PROVE Safe' /\ (Len(job.left) # 1 => job' # None)
  OBVIOUS
<1>1. PICK w \in WorkTrees : w = work
  BY DEF Safe
<1>2. PICK j : j = job
  OBVIOUS
<1>3. PICK v \in Outcomes : v = work'
  BY DEF Process
<1>4. j # None /\ Sound(j, w) /\ j.left # <<"begin">>
  BY <1>1, <1>2 DEF Safe, Process
<1>5. /\ v \in WorkTrees
      /\ Len(j.left) # 1 => Onward(Head(Tail(j.left)), Plan, j, v)
  BY <1>1, <1>2, <1>3, <1>4, Proceeds
<1>6. j \in Jobs /\ Left(j.c, j.left)
  BY <1>4 DEF Sound
<1>7. CASE Len(j.left) # 1
  <2>1. Plan \in Plans
    BY <1>5, <1>7 DEF Onward
  <2>2. PICK p \in Plans : p = Plan
    BY <2>1
  <2>3. j.left \in Seq(Purposes) /\ j.left # <<>>
    BY <1>6, LeftOrder DEF Jobs
  <2>4. PICK l \in Seq(Purposes) : l = Tail(j.left)
    <3>1. PICK q \in Seq(Purposes) : q = j.left
      BY <2>3
    <3>2. Tail(q) \in Seq(Purposes)
      BY <2>3, <3>1, HeadTailProperties
    <3> QED
      BY <3>1, <3>2, Zenon
  <2>5. PICK k : k = [j EXCEPT !.left = l, !.plan = p]
    OBVIOUS
  <2>6. job' = k
    BY <1>2, <1>7, <2>2, <2>4, <2>5 DEF Process
  <2>7. /\ k \in Jobs /\ k.c = j.c /\ k.left = l /\ k.plan = p
        /\ k.before = j.before /\ k.alone = j.alone
    BY <1>6, <2>5 DEF Jobs
  <2>8. Onward(Head(l), p, k, v)
    BY <1>5, <1>7, <2>2, <2>4, <2>7 DEF Onward
  <2>9. Left(k.c, l)
    BY <1>6, <1>7, <2>4, <2>7, LeftOrder
  <2>10. Sound(k, v)
    BY <2>7, <2>8, <2>9 DEF Sound
  <2>11. job' # None
    BY <2>6, <2>7, NoneAssumption
  <2> QED
    BY <1>3, <1>5, <2>6, <2>10, <2>11 DEF Safe, Process, counters
<1>8. CASE Len(j.left) = 1
  BY <1>2, <1>3, <1>5, <1>8 DEF Safe, Process, Ends, counters
<1> QED
  BY <1>7, <1>8

LEMMA FailsSafe == Safe /\ Fails => Safe' /\ (Head(job.left) = "pushOrUndo" => job' # None)
<1> SUFFICES ASSUME Safe, Fails PROVE Safe' /\ (Head(job.left) = "pushOrUndo" => job' # None)
  OBVIOUS
<1>1. PICK w \in WorkTrees : w = work
  BY DEF Safe
<1>2. PICK j : j = job
  OBVIOUS
<1>3. j # None /\ Sound(j, w) /\ j.left # <<"begin">>
  BY <1>1, <1>2 DEF Safe, Fails
<1>4. /\ work' = w /\ faults' \in Nat /\ outside' = outside
      /\ detail' = detail /\ modal' = modal
  BY <1>1 DEF Safe, Fails
<1>5. j \in Jobs /\ Left(j.c, j.left) /\ Onward(Head(j.left), j.plan, j, w)
  BY <1>3 DEF Sound
<1>6. CASE Head(j.left) = "pushOrUndo"
  <2>1. PICK l \in Seq(Purposes) : l = <<"undo">>
    <3>1. PICK x \in Purposes : x = "undo"
      BY DEF Purposes
    <3>2. <<x>> \in Seq(Purposes)
      OBVIOUS
    <3> QED
      BY <3>1, <3>2, Zenon
  <2>2. PICK k : k = [j EXCEPT !.left = l, !.undone = TRUE]
    OBVIOUS
  <2>3. job' = k
    BY <1>2, <1>6, <2>1, <2>2 DEF Fails
  <2>4. /\ k \in Jobs /\ k.c = j.c /\ k.left = l /\ k.plan = j.plan
        /\ k.before = j.before /\ k.alone = j.alone
    BY <1>5, <2>2 DEF Jobs
  <2>5. Head(l) = "undo"
    BY <2>1
  <2>6. PICK h : h = Head(j.left)
    OBVIOUS
  <2>7. Onward(h, j.plan, j, w) /\ h = "pushOrUndo"
    BY <1>5, <1>6, <2>6
  <2>8. Onward("undo", j.plan, j, w)
    BY <2>7 DEF Onward, PlanSound, TempSound, OlderSound, LogSound
  <2>9. Onward("undo", k.plan, k, w)
    BY <2>4, <2>8 DEF Onward
  <2>10. k.c.op = "CreateStash" /\ k.c.mode = "Unstaged"
    <3>1. h \notin {"begin", "all"}
      BY <2>7
    <3>2. j.left # <<"begin">> /\ j.left # <<"all">>
      BY <2>6, <3>1
    <3>3. j.left \notin StagedLeft
      BY <2>6, <2>7, StagedOrder
    <3>4. j.left \notin RenameLeft
      BY <2>6, <2>7, RenameOrder
    <3>5. j.left \notin DiscardLeft
      BY <2>6, <2>7, DiscardOrder
    <3>6. j.left \notin NukeLeft
      BY <2>6, <2>7, NukeOrder
    <3> QED
      BY <1>5, <2>4, <3>2, <3>3, <3>4, <3>5, <3>6 DEF Left
  <2>11. Left(k.c, l)
    BY <2>1, <2>10 DEF Left, UnstagedLeft
  <2>12. Sound(k, w)
    BY <2>4, <2>5, <2>9, <2>11 DEF Sound
  <2>13. job' # None
    BY <2>3, <2>4, NoneAssumption
  <2> QED
    BY <1>1, <1>4, <2>3, <2>12, <2>13 DEF Safe
<1>7. CASE Head(j.left) # "pushOrUndo"
  <2>1. job' = None
    BY <1>2, <1>7 DEF Fails, Ends
  <2> QED
    BY <1>1, <1>2, <1>4, <1>7, <2>1 DEF Safe
<1> QED
  BY <1>6, <1>7

LEMMA OutsideSafe == Safe /\ Outside => Safe' /\ (job # None => job' # None)
<1> SUFFICES ASSUME Safe, Outside PROVE Safe' /\ (job # None => job' # None)
  OBVIOUS
<1>1. PICK w \in WorkTrees : w = work
  BY DEF Safe
<1>2. PICK j : j = job
  OBVIOUS
<1>3. PICK v \in Acts(w) : v = work'
  BY <1>1 DEF Outside
<1>4. /\ v \in WorkTrees
      /\ Kept(w) \subseteq Kept(v)
      /\ \A s \in ToSet(w.stash) : s \in ToSet(v.stash)
      /\ Below(w) \subseteq Below(v)
      /\ v.index \subseteq w.index \cup Kept(w)
      /\ \A e \in v.index \cup HeadTree(v) : e \in w.index \cup HeadTree(w) \/ e \in Below(v)
  BY Acting
<1>5. /\ faults' = faults /\ outside' \in Nat /\ detail' = detail /\ modal' = modal
  BY DEF Safe, Outside
<1>6. CASE j # None
  <2>1. Sound(j, w)
    BY <1>1, <1>2, <1>6 DEF Safe
  <2>2. j \in Jobs /\ Left(j.c, j.left) /\ Onward(Head(j.left), j.plan, j, w)
    BY <2>1 DEF Sound
  <2>3. PICK k : k = [j EXCEPT !.alone = FALSE]
    OBVIOUS
  <2>4. job' = k
    BY <1>2, <1>6, <2>3 DEF Outside
  <2>5. /\ k \in Jobs /\ k.c = j.c /\ k.left = j.left /\ k.plan = j.plan
        /\ k.before = j.before /\ k.alone = FALSE
    BY <2>2, <2>3 DEF Jobs
  <2>6. PICK h : h = Head(j.left)
    OBVIOUS
  <2>7. PICK p \in Plans : p = j.plan
    BY <2>2, JobType
  <2>8. PICK b \in WorkTrees : b = j.before
    BY <2>2, JobType
  <2>9. PlanSound(h, p, w) /\ TempSound(h, b, j.alone, w)
    BY <2>2, <2>6, <2>7, <2>8 DEF Onward
  <2>10. PlanSound(h, p, v)
    BY <1>4, <2>9 DEF PlanSound
  <2>11. TempSound(h, b, FALSE, v)
    <3>1. h \in {"begin", "commit"} => v.index \subseteq Kept(v) \cup Unkept(b)
      BY <1>4, <2>9 DEF TempSound
    <3>2. h \in {"pushOrUndo", "undo"} =>
            v.index \cup HeadTree(v) \subseteq Below(v) \cup Unkept(b)
      BY <1>4, <2>9 DEF TempSound
    <3> QED
      BY <3>1, <3>2 DEF TempSound
  <2>12. OlderSound(h, p, FALSE, v) /\ LogSound(h, j.c, b, FALSE, v)
    BY DEF OlderSound, LogSound
  <2>13. Onward(h, p, k, v)
    BY <2>5, <2>8, <2>10, <2>11, <2>12 DEF Onward
  <2>14. Sound(k, v)
    BY <2>2, <2>5, <2>6, <2>7, <2>13 DEF Sound
  <2>15. job' # None
    BY <2>4, <2>5, NoneAssumption
  <2> QED
    BY <1>3, <1>4, <1>5, <2>4, <2>14, <2>15 DEF Safe
<1>7. CASE j = None
  <2>1. job' = None
    BY <1>2, <1>7 DEF Outside
  <2> QED
    BY <1>2, <1>3, <1>4, <1>5, <1>7, <2>1 DEF Safe
<1> QED
  BY <1>6, <1>7

LEMMA RestSafe == Safe /\ (LoadRepoDetail \/ Refresh \/ UNCHANGED vars) => Safe'
<1> SUFFICES ASSUME Safe, LoadRepoDetail \/ Refresh \/ UNCHANGED vars PROVE Safe'
  OBVIOUS
<1>1. PICK w \in WorkTrees : w = work
  BY DEF Safe
<1>2. /\ work' = w /\ modal' = modal /\ job' = job /\ faults' = faults /\ outside' = outside
      /\ detail' = Detail(w) \/ detail' = detail
  BY <1>1 DEF LoadRepoDetail, Refresh, vars, counters
<1> QED
  BY <1>1, <1>2 DEF Safe

LEMMA SafeStep == Safe /\ [Next]_vars => Safe'
  BY BeginSafe, UserSafe, ProcessSafe, FailsSafe, OutsideSafe, RestSafe DEF Next, Command

\* A job is what the processes of a command can leave of it, and what has been found
\* out for those to come is about something that is there.
THEOREM SafeHolds == Spec => []Safe
<1>1. Init => Safe
  BY InitSafe
<1>2. Safe /\ [Next]_vars => Safe'
  BY SafeStep
<1> QED
  BY <1>1, <1>2, PTL DEF Spec

-----------------------------------------------------------------------------
(* What a step may take, and when a command may end.                       *)

LEMMA StepKeeps ==
  ASSUME Safe, [Next]_vars, Lost # {}, outside' = outside
  PROVE  job # None /\ Process
<1>1. outside \in Nat
  BY DEF Safe
<1>2. Lost = Gone(work, work')
  BY DEF Lost, Gone
<1>3. work' # work
  BY <1>2, Unmoved DEF Safe
<1>4. ~Outside
  BY <1>1 DEF Outside
<1>5. Process
  BY <1>3, <1>4 DEF Next, User, Ask, Request, Submit, Cancel, Input, Command, Begin, Fails,
                    LoadRepoDetail, Refresh, vars
<1> QED
  BY <1>5 DEF Process

\* No edit is lost but by the command that is for losing it, and of the file it
\* names (crates/git/src/lib.rs, the commands that stash, discard, check out and
\* commit), whichever process fails and whatever others do between two of them.
THEOREM LosesHolds == Spec => LosesOnlyWhatItIsFor
<1>1. ASSUME Safe, [Next]_vars, Lost # {}, outside' = outside
      PROVE  /\ job # None
             /\ \/ job.c.op \in {"DropStash", "NukeWorkingTree"}
                \/ job.c.op \in {"DiscardFile", "CheckoutCommitFile"} /\ FilesOf(Lost) = {job.c.f}
                \/ job.c.op = "RenameStash" /\ Head(job.left) = "drop"
                \/ Head(job.left) = "dropOlder" /\ ~job.alone
                \/ Head(job.left) = "undo" /\ ~job.alone
                   /\ Lost \subseteq job.before.index \ Kept(job.before)
                \/ job.c.op = "AmendHead" /\ Lost \subseteq HeadTree(work) \ work.index
  <2>1. job # None /\ Process
    BY <1>1, StepKeeps
  <2>2. PICK w \in WorkTrees : w = work
    BY <1>1 DEF Safe
  <2>3. PICK j : j = job
    OBVIOUS
  <2>4. PICK v \in Outcomes : v = work'
    BY <2>1 DEF Process
  <2>5. Sound(j, w) /\ j.left # <<"begin">>
    BY <1>1, <2>1, <2>2, <2>3 DEF Safe, Process
  <2>6. Allowed(j, w, v)
    BY <2>2, <2>3, <2>4, <2>5, Proceeds
  <2>7. Lost = Gone(w, v)
    BY <2>2, <2>4 DEF Lost, Gone
  <2>8. (\A e \in Lost : FileOf[e] = j.c.f) => FilesOf(Lost) = {j.c.f}
    BY <1>1 DEF FilesOf
  <2> QED
    BY <1>1, <2>1, <2>2, <2>3, <2>6, <2>7, <2>8 DEF Allowed, Unkept
<1>2. Safe /\ [Next]_vars
         => [Lost # {} /\ outside' = outside =>
         /\ job # None
         /\ \/ job.c.op \in {"DropStash", "NukeWorkingTree"}
            \/ job.c.op \in {"DiscardFile", "CheckoutCommitFile"} /\ FilesOf(Lost) = {job.c.f}
            \/ job.c.op = "RenameStash" /\ Head(job.left) = "drop"
            \/ Head(job.left) = "dropOlder" /\ ~job.alone
            \/ Head(job.left) = "undo" /\ ~job.alone
               /\ Lost \subseteq job.before.index \ Kept(job.before)
            \/ job.c.op = "AmendHead" /\ Lost \subseteq HeadTree(work) \ work.index]_vars
  BY <1>1
<1> QED
  BY <1>2, SafeHolds, PTL DEF Spec, LosesOnlyWhatItIsFor

LEMMA EndsAlone ==
  ASSUME Safe, [Next]_vars, job # None, job' = None,
         job.c.op = "CreateStash", job.alone, ~(Head(job.left) = "undo" /\ faults' # faults)
  PROVE  work'.log = job.before.log
<1>1. PICK w \in WorkTrees : w = work
  BY DEF Safe
<1>2. PICK j : j = job
  OBVIOUS
<1>3. Sound(j, w)
  BY <1>1, <1>2 DEF Safe
<1>4. j \in Jobs /\ LogSound(Head(j.left), j.c, j.before, j.alone, w)
  BY <1>3 DEF Sound, Onward
<1>5. Process \/ Fails
  BY BeginSafe, OutsideSafe DEF Next, User, Ask, Request, Submit, Cancel, Input, Idle, Command,
                                LoadRepoDetail, Refresh, vars
<1>6. CASE Process
  <2>1. PICK v \in Outcomes : v = work'
    BY <1>6 DEF Process
  <2>2. j.left # <<"begin">> /\ Len(j.left) = 1
    BY <1>2, <1>6, ProcessSafe DEF Process
  <2>3. Ended(j, v)
    BY <1>1, <1>2, <1>3, <2>2, Proceeds
  <2> QED
    BY <1>2, <2>1, <2>3 DEF Ended
<1>7. CASE Fails
  <2>1. work' = w /\ Head(j.left) # "pushOrUndo"
    BY <1>1, <1>2, <1>7, FailsSafe DEF Fails
  <2>2. CASE Head(j.left) # "undo"
    BY <1>2, <1>4, <2>1, <2>2 DEF LogSound
  <2>3. CASE Head(j.left) = "undo"
    <3>1. faults' = faults
      BY <1>2, <2>3
    <3>2. Outcomes = {}
      BY <1>7, <3>1 DEF Fails, Safe
    <3>3. UndoCommit(w) = {}
      BY <1>1, <1>2, <2>3, <3>2, OutcomeOf
    <3>4. Len(w.log) = 1
      BY <3>3 DEF UndoCommit
    <3>5. Len(w.log) >= 2
      BY <1>2, <1>4, <2>3 DEF LogSound
    <3> QED
      BY <3>4, <3>5
  <2> QED
    BY <2>2, <2>3
<1> QED
  BY <1>5, <1>6, <1>7

\* A stash leaves the commits alone (stash_unstaged_changes in crates/git/src/lib.rs):
\* the temporary one is gone when the command ends.
THEOREM CommitsHolds == Spec => CommitsAlone
<1>1. Safe /\ [Next]_vars
         => [/\ job # None /\ job' = None
       /\ job.c.op = "CreateStash" /\ job.alone
       /\ ~(Head(job.left) = "undo" /\ faults' # faults)
       => work'.log = job.before.log]_vars
  BY EndsAlone
<1> QED
  BY <1>1, SafeHolds, PTL DEF Spec, CommitsAlone

-----------------------------------------------------------------------------
(* How a command that is left alone, and whose push works, goes from the   *)
(* working copy it began with to the one it promises.                      *)

\* One new entry, and two of them.
Top(w, b, patch) ==
    \E e \in Entries : w.stash = <<e>> \o b.stash /\ Patch(e) = patch /\ e.untracked = {}

TopTwo(w, b, patch, below) ==
    \E d, e \in Entries :
       /\ w.stash = <<d>> \o (<<e>> \o b.stash)
       /\ Patch(d) = patch /\ Patch(e) = below
       /\ d.untracked = {} /\ e.untracked = {}

\* stash_staged_changes, and stash_staged_changes_legacy.
StagedWay(h, p, b, w) ==
    /\ w.log = b.log
    /\ h \in {"keepIndex", "saveStaged"} => w = b
    /\ h = "push" =>
          /\ w.index = b.index /\ w.tree = b.index \cup Untracked(b)
          /\ Top(w, b, Tracked(b) \ HeadTree(b))
    /\ h \in {"applyOlder", "show", "unapply", "dropOlder"} =>
          TopTwo(w, b, b.index \ HeadTree(b), Tracked(b) \ HeadTree(b))
    /\ h = "applyOlder" => w.index = HeadTree(b) /\ w.tree = HeadTree(b) \cup Untracked(b)
    /\ h \in {"show", "unapply", "dropOlder", "status"} =>
          w.index = HeadTree(b) \cup ((Tracked(b) \ HeadTree(b)) \cap NewFiles)
    /\ h \in {"show", "unapply"} => w.tree = b.tree
    /\ h \in {"unapply", "removeStaged"} => p = b.index \ HeadTree(b)
    /\ h \in {"dropOlder", "status", "unstage"} => w.tree = b.tree \ (b.index \ HeadTree(b))
    /\ h \in {"status", "unstage", "removeStaged"} => Top(w, b, b.index \ HeadTree(b))
    /\ h = "unstage" => w.index \ p = HeadTree(b)
    /\ h = "removeStaged" => w.index = b.index /\ w.tree = b.tree

\* stash_unstaged_changes
UnstagedWay(h, b, w) ==
    /\ h \in {"commit", "push"} => w = b
    /\ h = "push" => Staged(b) = {}
    /\ h \in {"pushOrUndo", "undo"} => w.log = Append(b.log, b.index) /\ w.index = b.index
    /\ h = "pushOrUndo" => w.tree = b.tree /\ w.stash = b.stash
    /\ h = "undo" => w.tree = b.index \cup Untracked(b) /\ Top(w, b, Tracked(b) \ b.index)

\* rename_stash
RenameWay(h, p, k, b, w) ==
    /\ h \in {"revParse", "drop"} => w = b
    /\ h \in {"drop", "store"} => p = b.stash[k] /\ b.stash[k] \in Entries
    /\ h = "store" => ToSet(b.stash) = ToSet(w.stash) \cup {b.stash[k]}

StashWay(h, p, mode, b, w) ==
    /\ mode = "Staged" => StagedWay(h, p, b, w)
    /\ mode = "Unstaged" => UnstagedWay(h, b, w)

OnWay(h, p, j, w) ==
    /\ h \in {"begin", "all"} => w = j.before
    /\ (/\ h # "begin" /\ j.c.op = "CreateStash"
        /\ Plain(j.before) /\ Available(Detail(j.before), j.c.mode))
       => StashWay(h, p, j.c.mode, j.before, w)
    /\ h # "begin" /\ j.c.op = "RenameStash" => RenameWay(h, p, j.c.k, j.before, w)

OnCourse ==
    job # None /\ job.alone /\ ~job.undone => OnWay(Head(job.left), job.plan, job, work)

\* What there is before a stash.
LEMMA PlainParts ==
  ASSUME NEW b \in WorkTrees, Plain(b)
  PROVE  /\ HeadTree(b) \subseteq b.index /\ HeadTree(b) \subseteq Tracked(b)
         /\ HeadTree(b) \cap Untracked(b) = {}
         /\ Staged(b) = b.index \ HeadTree(b)
<1>1. HeadTree(b) \subseteq b.index /\ HeadTree(b) \subseteq b.tree
  BY DEF Plain
<1>2. Staged(b) = b.index \ HeadTree(b)
  BY <1>1 DEF Staged
<1>3. Untracked(b) \cap b.index = {} /\ b.tree = Tracked(b) \cup Untracked(b)
  BY Split
<1> QED
  BY <1>1, <1>2, <1>3

LEMMA Kinds ==
  ASSUME NEW b, NEW d, d = Detail(b)
  PROVE  /\ Available(d, "Tracked") => Changed(b) # {}
         /\ Available(d, "KeepIndex") => Changed(b) # {}
         /\ Available(d, "IncludeUntracked") => Changed(b) \cup Untracked(b) # {}
         /\ Available(d, "Staged") => Staged(b) # {}
         /\ Available(d, "Unstaged") => Unstaged(b) # {}
<1>1. d.staged = Staged(b) /\ d.unstaged = Unstaged(b) /\ d.untracked = Untracked(b)
  BY DEF Detail
<1> QED
  BY <1>1 DEF Available, Changed

LEMMA PushedEntry ==
  ASSUME NEW w \in WorkTrees, NEW v \in StashPush(w), Changed(w) # {}
  PROVE  \E e \in Entries : /\ v.stash = <<e>> \o w.stash
                            /\ Patch(e) = Tracked(w) \ HeadTree(w) /\ e.untracked = {}
<1>1. PICK u \in SUBSET Edits : u = {}
  OBVIOUS
<1>2. PICK e : e = Saving(w, w.index, Tracked(w), u)
  OBVIOUS
<1>3. e \in Entries /\ Patch(e) = Tracked(w) \ HeadTree(w) /\ e.untracked = u
  BY <1>2, SavedAs
<1>4. v.stash = <<e>> \o w.stash
  BY <1>1, <1>2, Pushing
<1> QED
  BY <1>1, <1>3, <1>4

LEMMA Promises ==
  ASSUME NEW mode \in Modes, NEW b \in WorkTrees, NEW v, NEW e \in Entries,
         v.stash = <<e>> \o b.stash, v.log = b.log, e.untracked = {},
         mode \in {"Tracked", "KeepIndex", "Staged", "Unstaged"},
         mode \in {"Tracked", "KeepIndex"} => Patch(e) = Tracked(b) \ HeadTree(b),
         mode = "Staged" => Patch(e) = Staged(b),
         mode = "Unstaged" => Patch(e) = Tracked(b) \ b.index,
         mode \in {"KeepIndex", "Unstaged"} => v.index = b.index,
         mode \in {"Tracked", "Staged"} => v.index = HeadTree(b),
         mode = "Tracked" => v.tree = HeadTree(b) \cup Untracked(b),
         mode = "Staged" => v.tree = (Tracked(b) \ Staged(b)) \cup Untracked(b),
         mode \in {"KeepIndex", "Unstaged"} => v.tree = b.index \cup Untracked(b)
  PROVE  Promised(mode, b, v)
<1>1. b.stash \in Seq(Entries)
  BY Split
<1>2. /\ Head(v.stash) = e /\ Tail(v.stash) = b.stash
      /\ Len(v.stash) = Len(b.stash) + 1
  BY <1>1, Pushed
<1>3. CASE mode = "Tracked"
  BY <1>2, <1>3 DEF Promised
<1>4. CASE mode = "KeepIndex"
  BY <1>2, <1>4 DEF Promised
<1>5. CASE mode = "Staged"
  BY <1>2, <1>5 DEF Promised
<1>6. CASE mode = "Unstaged"
  BY <1>2, <1>6 DEF Promised
<1> QED
  BY <1>3, <1>4, <1>5, <1>6

\* The entry below the first is taken out.
LEMMA SecondOut ==
  ASSUME NEW S, NEW r \in Seq(S), 2 \in 1..Len(r), NEW x, x = RemoveAt(r, 2)
  PROVE  /\ x \in Seq(S) /\ Len(x) = Len(r) - 1
         /\ \A i \in 1..Len(r) - 1 : x[i] = IF i < 2 THEN r[i] ELSE r[i + 1]
<1>1. PICK k \in 1..Len(r) : k = 2
  OBVIOUS
<1>2. /\ RemoveAt(r, k) \in Seq(S)
      /\ Len(RemoveAt(r, k)) = Len(r) - 1
      /\ \A i \in 1..Len(r) - 1 : RemoveAt(r, k)[i] = IF i < k THEN r[i] ELSE r[i + 1]
  BY Removed
<1>3. x = RemoveAt(r, k)
  BY <1>1, Zenon
<1> QED
  BY <1>1, <1>2, <1>3

LEMMA SameBut ==
  ASSUME NEW S, NEW n \in Nat, NEW r \in Seq(S), NEW t \in Seq(S),
         Len(r) = n + 2, Len(t) = n + 1, t[1] = r[1],
         \A i \in 1..n : t[i + 1] = r[i + 2]
  PROVE  RemoveAt(r, 2) = t
<1>1. PICK x : x = RemoveAt(r, 2)
  OBVIOUS
<1>2. 2 \in 1..Len(r)
  OBVIOUS
<1>3. /\ x \in Seq(S) /\ Len(x) = Len(r) - 1
      /\ \A i \in 1..Len(r) - 1 : x[i] = IF i < 2 THEN r[i] ELSE r[i + 1]
  BY <1>1, <1>2, SecondOut
<1>4. ASSUME NEW i \in 1..(n + 1) PROVE x[i] = t[i]
  <2>1. i \in 1..(Len(r) - 1)
    OBVIOUS
  <2>2. CASE i = 1
    BY <1>3, <2>1, <2>2
  <2>3. CASE i # 1
    <3>1. PICK k \in 1..n : i = k + 1
      <4>1. i - 1 \in 1..n
        BY <2>3
      <4> QED
        BY <4>1
    <3>2. x[i] = r[i + 1]
      BY <1>3, <2>1, <2>3
    <3>3. t[k + 1] = r[k + 2]
      OBVIOUS
    <3> QED
      BY <3>1, <3>2, <3>3
  <2> QED
    BY <2>2, <2>3
<1>5. Len(x) = n + 1
  BY <1>3
<1>6. x = t
  BY <1>3, <1>4, <1>5, SeqEqual
<1> QED
  BY <1>1, <1>6

On(e, q) == <<e>> \o q

LEMMA SecondRemoved ==
  ASSUME NEW q \in Seq(Entries), NEW d \in Entries, NEW e \in Entries
  PROVE  /\ On(d, On(e, q))[1] = d /\ On(d, On(e, q))[2] = e
         /\ RemoveAt(On(d, On(e, q)), 2) = On(d, q)
<1> PICK S : S = Entries
  OBVIOUS
<1>1. PICK m : m = On(e, q)
  OBVIOUS
<1>2. PICK r : r = On(d, m)
  OBVIOUS
<1>5. PICK t : t = On(d, q)
  OBVIOUS
<1>3. /\ m \in Seq(S) /\ Len(m) = Len(q) + 1 /\ m[1] = e
      /\ \A i \in 1..Len(q) : m[i + 1] = q[i]
  BY <1>1, Pushed DEF On
<1>4. /\ t \in Seq(S) /\ Len(t) = Len(q) + 1 /\ t[1] = d
      /\ \A i \in 1..Len(q) : t[i + 1] = q[i]
  BY <1>5, Pushed DEF On
<1>6. /\ r \in Seq(S) /\ Len(r) = Len(m) + 1 /\ r[1] = d
      /\ \A i \in 1..Len(m) : r[i + 1] = m[i]
  BY <1>2, <1>3, Pushed DEF On
<1>7. PICK n : n = Len(q)
  OBVIOUS
<1>8. n \in Nat /\ Len(m) = n + 1
  BY <1>3, <1>7, LenProperties
<1>9. r[1 + 1] = m[1]
  BY <1>6, <1>8
<1>10. ASSUME NEW i \in 1..n PROVE t[i + 1] = r[i + 2]
  <2>1. i \in 1..Len(q) /\ i + 1 \in 1..Len(m)
    BY <1>7, <1>8
  <2>2. t[i + 1] = q[i] /\ m[i + 1] = q[i]
    BY <1>3, <1>4, <2>1
  <2>3. r[(i + 1) + 1] = m[i + 1]
    BY <1>6, <2>1
  <2>4. (i + 1) + 1 = i + 2
    OBVIOUS
  <2> QED
    BY <2>2, <2>3, <2>4
<1>11. Len(r) = n + 2 /\ Len(t) = n + 1 /\ t[1] = r[1]
  BY <1>4, <1>6, <1>7, <1>8
<1>12. RemoveAt(r, 2) = t
  BY <1>4, <1>6, <1>8, <1>10, <1>11, SameBut
<1>13. r[1] = d /\ r[2] = e
  BY <1>3, <1>6, <1>9
<1> QED
  BY <1>1, <1>2, <1>5, <1>12, <1>13, Zenon

LEMMA StagedOnWay ==
  ASSUME NEW w \in WorkTrees, NEW b \in WorkTrees, NEW j, NEW v \in Outcomes, w = work, j = job,
         j.left \in StagedLeft, Plain(b), Available(Detail(b), "Staged"),
         StagedWay(Head(j.left), j.plan, b, w)
  PROVE  /\ Len(j.left) # 1 => StagedWay(Head(Tail(j.left)), Plan, b, v)
         /\ Len(j.left) = 1 => Promised("Staged", b, v)
<1>1. PICK h : h = Head(j.left)
  OBVIOUS
<1>2. PICK g : g = Head(Tail(j.left))
  OBVIOUS
<1>3. StagedWay(h, j.plan, b, w)
  BY <1>1
<1>4. /\ h \in {"keepIndex", "push", "applyOlder", "show", "unapply", "dropOlder", "status",
                "unstage", "saveStaged", "removeStaged"}
      /\ Len(j.left) = 1 <=> h \in {"unstage", "removeStaged"}
  BY <1>1, StagedOrder
<1>a. /\ h = "keepIndex" => g = "push"
      /\ h = "push" => g = "applyOlder"
      /\ h = "applyOlder" => g = "show"
      /\ h = "show" => g = "unapply"
      /\ h = "unapply" => g = "dropOlder"
      /\ h = "dropOlder" => g = "status"
      /\ h = "status" => g = "unstage"
      /\ h = "saveStaged" => g = "removeStaged"
  BY <1>1, <1>2, StagedOrder, Zenon
<1>b. PICK H, I, T, R, U : /\ H = HeadTree(b) /\ I = b.index /\ T = b.tree
                           /\ R = Tracked(b) /\ U = Untracked(b)
  OBVIOUS
<1>c. /\ H \subseteq I /\ H \subseteq R /\ H \cap U = {} /\ Staged(b) = I \ H
      /\ T = R \cup U /\ R \cap U = {} /\ U \cap I = {} /\ U \subseteq NewFiles
      /\ R \cap NewFiles \subseteq I
  BY <1>b, PlainParts, Split
<1>d. Staged(b) # {} /\ b.stash \in Seq(Entries)
  BY Kinds, Split
<1>e. w.log = b.log /\ HeadTree(w) = H
  BY <1>3, <1>b DEF StagedWay, HeadTree
<1>f. w.stash \in Seq(Entries)
  BY Split
<1>5. CASE h = "keepIndex"
  <2>1. v \in StashKeepIndex(b) /\ g = "push"
    BY <1>1, <1>3, <1>5, <1>a, OutcomeOf DEF StagedWay
  <2>2. PICK e : e = Saving(b, b.index, Tracked(b), {})
    OBVIOUS
  <2>3. Changed(b) # {}
    BY <1>d DEF Changed
  <2>4. /\ e \in Entries /\ v.log = b.log /\ v.index = I
        /\ v.tree = I \cup U /\ v.stash = <<e>> \o b.stash
    BY <1>b, <2>1, <2>2, <2>3, KeepingIndex
  <2>5. Patch(e) = R \ H /\ e.untracked = {}
    BY <1>b, <2>2, SavedAs
  <2>6. Top(v, b, R \ H)
    BY <2>4, <2>5 DEF Top
  <2>7. StagedWay(g, Plan, b, v)
    BY <1>b, <2>1, <2>4, <2>6 DEF StagedWay
  <2> QED
    BY <1>2, <1>4, <1>5, <2>7
<1>6. CASE h = "push"
  <2>1. v \in StashPush(w) /\ g = "applyOlder"
    BY <1>1, <1>6, <1>a, OutcomeOf
  <2>2. w.index = I /\ w.tree = I \cup U /\ Top(w, b, R \ H)
    BY <1>3, <1>6, <1>b DEF StagedWay
  <2>3. Untracked(w) = U /\ Tracked(w) = I
    BY <1>c, <2>2 DEF Untracked, Tracked
  <2>4. Staged(w) = I \ H
    BY <1>c, <1>e, <2>2 DEF Staged
  <2>5. Changed(w) # {}
    BY <1>c, <1>d, <2>4 DEF Changed
  <2>6. PICK d \in Entries : /\ v.stash = <<d>> \o w.stash
                            /\ Patch(d) = Tracked(w) \ HeadTree(w) /\ d.untracked = {}
    BY <2>1, <2>5, PushedEntry
  <2>7. v.log = b.log /\ v.index = H /\ v.tree = H \cup U
    BY <1>e, <2>1, <2>3, <2>5, Pushing
  <2>8. Patch(d) = I \ H
    BY <1>e, <2>3, <2>6
  <2>9. TopTwo(v, b, I \ H, R \ H)
    BY <2>2, <2>6, <2>8 DEF Top, TopTwo
  <2>10. StagedWay(g, Plan, b, v)
    BY <1>b, <2>1, <2>7, <2>9 DEF StagedWay
  <2> QED
    BY <1>2, <1>4, <1>6, <2>10
<1>7. CASE h = "applyOlder"
  <2>1. v \in StashApply(w, 2) /\ g = "show"
    BY <1>1, <1>7, <1>a, OutcomeOf
  <2>2. w.index = H /\ w.tree = H \cup U /\ TopTwo(w, b, I \ H, R \ H)
    BY <1>3, <1>7, <1>b DEF StagedWay
  <2>3. PICK d \in Entries, e \in Entries :
           /\ w.stash = <<d>> \o (<<e>> \o b.stash)
           /\ Patch(d) = I \ H /\ Patch(e) = R \ H
           /\ d.untracked = {} /\ e.untracked = {}
    BY <2>2 DEF TopTwo
  <2>4. w.stash[2] = e
    <3>1. w.stash = On(d, On(e, b.stash))
      BY <2>3, Zenon DEF On
    <3> QED
      BY <1>d, <3>1, SecondRemoved
  <2>5. /\ v.log = w.log /\ v.stash = w.stash
        /\ v.index = w.index \cup ((Patch(w.stash[2]) \ w.index) \cap NewFiles)
        /\ v.tree = w.tree \cup (Patch(w.stash[2]) \ w.index) \cup w.stash[2].untracked
    BY <2>1, Applied
  <2>6. /\ v.index = H \cup ((R \ H) \cap NewFiles)
        /\ v.tree = T
    BY <1>c, <2>2, <2>3, <2>4, <2>5
  <2>7. TopTwo(v, b, I \ H, R \ H)
    BY <2>2, <2>5 DEF TopTwo
  <2>8. StagedWay(g, Plan, b, v)
    BY <1>b, <1>e, <2>1, <2>5, <2>6, <2>7 DEF StagedWay
  <2> QED
    BY <1>2, <1>4, <1>7, <2>8
<1>8. CASE h = "show"
  <2>1. v = w /\ g = "unapply" /\ Plan = Patch(w.stash[1])
    BY <1>1, <1>8, <1>a, OutcomeOf, PlanOf
  <2>2. /\ w.index = H \cup ((R \ H) \cap NewFiles)
        /\ w.tree = T /\ TopTwo(w, b, I \ H, R \ H)
    BY <1>3, <1>8, <1>b DEF StagedWay
  <2>3. PICK d \in Entries, e \in Entries :
           /\ w.stash = <<d>> \o (<<e>> \o b.stash)
           /\ Patch(d) = I \ H /\ Patch(e) = R \ H
           /\ d.untracked = {} /\ e.untracked = {}
    BY <2>2 DEF TopTwo
  <2>4. w.stash[1] = d
    <3>1. w.stash = On(d, On(e, b.stash))
      BY <2>3, Zenon DEF On
    <3> QED
      BY <1>d, <3>1, SecondRemoved
  <2>5. Plan = I \ H
    BY <2>1, <2>3, <2>4
  <2>6. StagedWay(g, Plan, b, v)
    BY <1>b, <1>e, <2>1, <2>2, <2>5 DEF StagedWay
  <2> QED
    BY <1>2, <1>4, <1>8, <2>6
<1>9. CASE h = "unapply"
  <2>1. v \in Unapply(w, j.plan) /\ g = "dropOlder"
    BY <1>1, <1>9, <1>a, OutcomeOf
  <2>2. /\ w.index = H \cup ((R \ H) \cap NewFiles)
        /\ w.tree = T /\ TopTwo(w, b, I \ H, R \ H) /\ j.plan = I \ H
    BY <1>3, <1>9, <1>b DEF StagedWay
  <2>3. v.log = w.log /\ v.index = w.index /\ v.tree = w.tree \ j.plan /\ v.stash = w.stash
    BY <2>1, Unapplied
  <2>4. TopTwo(v, b, I \ H, R \ H)
    BY <2>2, <2>3 DEF TopTwo
  <2>5. StagedWay(g, Plan, b, v)
    BY <1>b, <1>e, <2>1, <2>2, <2>3, <2>4 DEF StagedWay
  <2> QED
    BY <1>2, <1>4, <1>9, <2>5
<1>10. CASE h = "dropOlder"
  <2>1. v \in StashDrop(w, 2) /\ g = "status"
    BY <1>1, <1>10, <1>a, OutcomeOf
  <2>2. /\ w.index = H \cup ((R \ H) \cap NewFiles)
        /\ w.tree = T \ (I \ H) /\ TopTwo(w, b, I \ H, R \ H)
    BY <1>3, <1>10, <1>b DEF StagedWay
  <2>3. PICK d \in Entries, e \in Entries :
           /\ w.stash = <<d>> \o (<<e>> \o b.stash)
           /\ Patch(d) = I \ H /\ Patch(e) = R \ H
           /\ d.untracked = {} /\ e.untracked = {}
    BY <2>2 DEF TopTwo
  <2>4. RemoveAt(w.stash, 2) = <<d>> \o b.stash
    <3>1. w.stash = On(d, On(e, b.stash))
      BY <2>3, Zenon DEF On
    <3>2. RemoveAt(w.stash, 2) = On(d, b.stash)
      BY <1>d, <3>1, SecondRemoved
    <3> QED
      BY <3>2 DEF On
  <2>5. v.log = w.log /\ v.index = w.index /\ v.tree = w.tree /\ v.stash = RemoveAt(w.stash, 2)
    BY <2>1, Dropped
  <2>6. Top(v, b, I \ H)
    BY <2>3, <2>4, <2>5 DEF Top
  <2>7. StagedWay(g, Plan, b, v)
    BY <1>b, <1>e, <2>1, <2>2, <2>5, <2>6 DEF StagedWay
  <2> QED
    BY <1>2, <1>4, <1>10, <2>7
<1>11. CASE h = "status"
  <2>1. v = w /\ g = "unstage" /\ Plan = AddedDeleted(w)
    BY <1>1, <1>11, <1>a, OutcomeOf, PlanOf
  <2>2. /\ w.index = H \cup ((R \ H) \cap NewFiles)
        /\ w.tree = T \ (I \ H) /\ Top(w, b, I \ H)
    BY <1>3, <1>11, <1>b DEF StagedWay
  <2>3. AddedDeleted(w) = (w.index \cap NewFiles) \ (H \cup w.tree)
    BY <1>e DEF AddedDeleted
  <2>4. w.index \ AddedDeleted(w) = H
    BY <1>c, <2>2, <2>3
  <2>5. StagedWay(g, Plan, b, v)
    BY <1>b, <1>e, <2>1, <2>2, <2>4 DEF StagedWay
  <2> QED
    BY <1>2, <1>4, <1>11, <2>5
<1>12. ASSUME v.log = b.log, v.index = H, v.tree = T \ (I \ H), Top(v, b, I \ H)
       PROVE  Promised("Staged", b, v)
  <2>1. PICK e \in Entries : v.stash = <<e>> \o b.stash /\ Patch(e) = I \ H /\ e.untracked = {}
    BY <1>12 DEF Top
  <2>2. v.tree = (R \ (I \ H)) \cup U
    BY <1>c, <1>12
  <2>3. PICK mode \in Modes : mode = "Staged"
    BY DEF Modes
  <2>4. Promised(mode, b, v)
    BY <1>12, <1>b, <1>c, <2>1, <2>2, <2>3, Promises
  <2> QED
    BY <2>3, <2>4
<1>13. CASE h = "unstage"
  <2>1. v = [w EXCEPT !.index = @ \ j.plan]
    BY <1>1, <1>13, OutcomeOf
  <2>2. PICK i : i = w.index \ j.plan
    OBVIOUS
  <2>3. i = H /\ w.tree = T \ (I \ H) /\ Top(w, b, I \ H)
    BY <1>3, <1>13, <1>b, <2>2 DEF StagedWay
  <2>4. v.log = w.log /\ v.index = i /\ v.tree = w.tree /\ v.stash = w.stash
    BY <2>1, <2>2 DEF WorkTrees
  <2>5. Top(v, b, I \ H)
    BY <2>3, <2>4 DEF Top
  <2> QED
    BY <1>4, <1>12, <1>13, <1>e, <2>3, <2>4, <2>5
<1>14. CASE h = "saveStaged"
  <2>1. v \in SaveStaged(w) /\ g = "removeStaged" /\ Plan = w.index \ HeadTree(w) /\ w = b
    BY <1>1, <1>3, <1>14, <1>a, OutcomeOf, PlanOf DEF StagedWay
  <2>2. /\ v.log = w.log /\ v.index = w.index /\ v.tree = w.tree
        /\ \E e \in Entries : /\ v.stash = <<e>> \o w.stash
                              /\ Patch(e) = w.index \ HeadTree(w) /\ e.untracked = {}
    BY <2>1, SavingStaged
  <2>3. Top(v, b, I \ H)
    BY <1>b, <2>1, <2>2 DEF Top
  <2>4. StagedWay(g, Plan, b, v)
    BY <1>b, <2>1, <2>2, <2>3 DEF StagedWay
  <2> QED
    BY <1>2, <1>4, <1>14, <2>4
<1>15. CASE h = "removeStaged"
  <2>1. v \in RemoveStaged(w, j.plan)
    BY <1>1, <1>15, OutcomeOf
  <2>2. w.index = I /\ w.tree = T /\ Top(w, b, I \ H) /\ j.plan = I \ H
    BY <1>3, <1>15, <1>b DEF StagedWay
  <2>3. v.log = w.log /\ v.index = H /\ v.tree = w.tree \ j.plan /\ v.stash = w.stash
    BY <1>e, <2>1, RemovingStaged
  <2>4. Top(v, b, I \ H)
    BY <2>2, <2>3 DEF Top
  <2> QED
    BY <1>4, <1>12, <1>15, <1>e, <2>2, <2>3, <2>4
<1> QED
  BY <1>4, <1>5, <1>6, <1>7, <1>8, <1>9, <1>10, <1>11, <1>13, <1>14, <1>15

LEMMA UnstagedOnWay ==
  ASSUME NEW w \in WorkTrees, NEW b \in WorkTrees, NEW j, NEW v \in Outcomes, w = work, j = job,
         j.left \in UnstagedLeft, Plain(b), Available(Detail(b), "Unstaged"),
         UnstagedWay(Head(j.left), b, w)
  PROVE  /\ Len(j.left) # 1 => UnstagedWay(Head(Tail(j.left)), b, v)
         /\ Len(j.left) = 1 => Promised("Unstaged", b, v)
<1>1. PICK h : h = Head(j.left)
  OBVIOUS
<1>2. PICK g : g = Head(Tail(j.left))
  OBVIOUS
<1>3. UnstagedWay(h, b, w)
  BY <1>1
<1>4. /\ h \in {"commit", "pushOrUndo", "undo", "push"}
      /\ Len(j.left) = 1 <=> h \in {"undo", "push"}
      /\ h = "commit" => g = "pushOrUndo"
      /\ h = "pushOrUndo" => g = "undo"
  BY <1>1, <1>2, UnstagedOrder, Zenon
<1>b. PICK H, I, T, R, U : /\ H = HeadTree(b) /\ I = b.index /\ T = b.tree
                           /\ R = Tracked(b) /\ U = Untracked(b)
  OBVIOUS
<1>c. H \subseteq I /\ Staged(b) = I \ H
  BY <1>b, PlainParts
<1>d. Unstaged(b) # {} /\ b.log \in Seq(SUBSET Edits) /\ I \in SUBSET Edits
  BY <1>b, Kinds, Split, Tip
<1>5. CASE h = "commit"
  <2>1. v \in Commit(w) /\ w = b
    BY <1>1, <1>3, <1>5, OutcomeOf DEF UnstagedWay
  <2>2. v.log = Append(b.log, b.index) /\ v.index = b.index /\ v.tree = b.tree /\ v.stash = b.stash
    BY <2>1, Committed
  <2>3. UnstagedWay(g, b, v)
    BY <1>4, <1>5, <2>2 DEF UnstagedWay
  <2> QED
    BY <1>2, <1>4, <1>5, <2>3
<1>6. ASSUME v.log = b.log, v.index = I, v.tree = I \cup U, Top(v, b, R \ I)
      PROVE  Promised("Unstaged", b, v)
  <2>1. PICK e \in Entries : v.stash = <<e>> \o b.stash /\ Patch(e) = R \ I /\ e.untracked = {}
    BY <1>6 DEF Top
  <2>2. PICK mode \in Modes : mode = "Unstaged"
    BY DEF Modes
  <2>3. Promised(mode, b, v)
    BY <1>6, <1>b, <2>1, <2>2, Promises
  <2> QED
    BY <2>2, <2>3
<1>7. CASE h = "push"
  <2>1. v \in StashPush(b) /\ Staged(b) = {}
    BY <1>1, <1>3, <1>7, OutcomeOf DEF UnstagedWay
  <2>2. I = H
    BY <1>c, <2>1
  <2>3. Changed(b) # {}
    BY <1>d DEF Changed
  <2>4. v.log = b.log /\ v.index = I /\ v.tree = I \cup U
    BY <1>b, <2>1, <2>2, <2>3, Pushing
  <2>5. Top(v, b, R \ I)
    BY <1>b, <2>1, <2>2, <2>3, PushedEntry DEF Top
  <2> QED
    BY <1>4, <1>6, <1>7, <2>4, <2>5
<1>8. CASE h = "pushOrUndo"
  <2>1. v \in StashPush(w) /\ g = "undo"
    BY <1>1, <1>4, <1>8, OutcomeOf
  <2>2. w.log = Append(b.log, I) /\ w.index = I /\ w.tree = T /\ w.stash = b.stash
    BY <1>3, <1>8, <1>b DEF UnstagedWay
  <2>3. HeadTree(w) = I
    BY <1>d, <2>2, Appended DEF HeadTree
  <2>4. Tracked(w) = R /\ Untracked(w) = U /\ Unstaged(w) = Unstaged(b)
    BY <1>b, <2>2 DEF Tracked, Untracked, Unstaged
  <2>5. Changed(w) # {}
    BY <1>d, <2>4 DEF Changed
  <2>6. v.log = w.log /\ v.index = I /\ v.tree = I \cup U
    BY <2>1, <2>3, <2>4, <2>5, Pushing
  <2>7. Top(v, b, R \ I)
    BY <2>1, <2>2, <2>3, <2>4, <2>5, PushedEntry DEF Top
  <2>8. UnstagedWay(g, b, v)
    BY <1>b, <2>1, <2>2, <2>6, <2>7 DEF UnstagedWay
  <2> QED
    BY <1>2, <1>4, <1>8, <2>8
<1>9. CASE h = "undo"
  <2>1. v \in UndoCommit(w)
    BY <1>1, <1>9, OutcomeOf
  <2>2. w.log = Append(b.log, I) /\ w.index = I /\ w.tree = I \cup U /\ Top(w, b, R \ I)
    BY <1>3, <1>9, <1>b DEF UnstagedWay
  <2>3. v.log = Front(w.log) /\ v.index = w.index /\ v.tree = w.tree /\ v.stash = w.stash
    BY <2>1, Undone
  <2>4. v.log = b.log
    BY <1>d, <2>2, <2>3, FrontAppended
  <2>5. Top(v, b, R \ I)
    BY <2>2, <2>3 DEF Top
  <2> QED
    BY <1>4, <1>6, <1>9, <2>2, <2>3, <2>4, <2>5
<1> QED
  BY <1>4, <1>5, <1>7, <1>8, <1>9

LEMMA DroppedSet ==
  ASSUME NEW w \in WorkTrees, NEW k \in Nat \ {0}, NEW v, v \in StashDrop(w, k)
  PROVE  ToSet(w.stash) = ToSet(v.stash) \cup {w.stash[k]}
<1>1. PICK x \in StashDrop(w, k) : x = v
  OBVIOUS
<1>2. ToSet(w.stash) = ToSet(x.stash) \cup {w.stash[k]}
  BY Dropped
<1> QED
  BY <1>1, <1>2

LEMMA RenameOnWay ==
  ASSUME NEW w \in WorkTrees, NEW b \in WorkTrees, NEW j, NEW v \in Outcomes, w = work, j = job,
         j.left \in RenameLeft, j.c.k \in Nat \ {0},
         RenameWay(Head(j.left), j.plan, j.c.k, b, w)
  PROVE  /\ Len(j.left) # 1 => RenameWay(Head(Tail(j.left)), Plan, j.c.k, b, v)
         /\ Len(j.left) = 1 => Renamed(j.c.k, b, v)
<1>1. PICK h : h = Head(j.left)
  OBVIOUS
<1>2. PICK g : g = Head(Tail(j.left))
  OBVIOUS
<1>3. RenameWay(h, j.plan, j.c.k, b, w)
  BY <1>1
<1>4. /\ h \in {"revParse", "drop", "store"}
      /\ Len(j.left) = 1 <=> h \in {"store"}
      /\ h = "revParse" => g = "drop"
      /\ h = "drop" => g = "store"
  BY <1>1, <1>2, RenameOrder, Zenon
<1>5. CASE h = "revParse"
  <2>1. v = w /\ w = b /\ ~(j.c.k > Len(w.stash)) /\ Plan = w.stash[j.c.k] /\ g = "drop"
    BY <1>1, <1>3, <1>4, <1>5, OutcomeOf, PlanOf DEF RenameWay
  <2>2. b.stash \in Seq(Entries) /\ Len(b.stash) \in Nat
    BY Split, LenProperties
  <2>3. b.stash[j.c.k] \in Entries
    BY <2>1, <2>2, ElementOfSeq
  <2>4. RenameWay(g, Plan, j.c.k, b, v)
    BY <2>1, <2>3 DEF RenameWay
  <2> QED
    BY <1>2, <1>4, <1>5, <2>4
<1>6. CASE h = "drop"
  <2>1. v \in StashDrop(w, j.c.k) /\ Plan = j.plan /\ g = "store"
    BY <1>1, <1>4, <1>6, OutcomeOf, PlanOf
  <2>2. w = b /\ j.plan = b.stash[j.c.k] /\ b.stash[j.c.k] \in Entries
    BY <1>3, <1>6 DEF RenameWay
  <2>3. ToSet(b.stash) = ToSet(v.stash) \cup {b.stash[j.c.k]}
    <3>1. PICK k \in Nat \ {0} : k = j.c.k
      OBVIOUS
    <3>2. v \in StashDrop(w, k)
      BY <2>1, <3>1
    <3>3. ToSet(w.stash) = ToSet(v.stash) \cup {w.stash[k]}
      BY <3>2, DroppedSet
    <3> QED
      BY <2>2, <3>1, <3>3
  <2>4. RenameWay(g, Plan, j.c.k, b, v)
    BY <2>1, <2>2, <2>3 DEF RenameWay
  <2> QED
    BY <1>2, <1>4, <1>6, <2>4
<1>7. CASE h = "store"
  <2>1. v \in StashStore(w, j.plan)
    BY <1>1, <1>7, OutcomeOf
  <2>2. /\ j.plan = b.stash[j.c.k] /\ b.stash[j.c.k] \in Entries
        /\ ToSet(b.stash) = ToSet(w.stash) \cup {b.stash[j.c.k]}
    BY <1>3, <1>7 DEF RenameWay
  <2>3. Head(v.stash) = j.plan /\ ToSet(v.stash) = ToSet(w.stash) \cup {j.plan}
    BY <2>1, <2>2, Stored
  <2> QED
    BY <1>4, <1>7, <2>2, <2>3 DEF Renamed
<1> QED
  BY <1>4, <1>5, <1>6, <1>7

LEMMA AllOnWay ==
  ASSUME NEW b \in WorkTrees, NEW c, NEW v \in SingleProcess(b, c), c.op = "CreateStash",
         c.mode \in {"Tracked", "KeepIndex", "IncludeUntracked"}, Plain(b),
         Available(Detail(b), c.mode)
  PROVE  Promised(c.mode, b, v)
<1>1. PICK mode \in {"Tracked", "KeepIndex", "IncludeUntracked"} : mode = c.mode
  OBVIOUS
<1>2. mode \in Modes
  BY DEF Modes
<1>3. CASE mode = "Tracked"
  <2>1. v \in StashPush(b)
    BY <1>1, <1>3 DEF SingleProcess
  <2>2. Changed(b) # {}
    BY <1>1, <1>3, Kinds
  <2>3. v.log = b.log /\ v.index = HeadTree(b) /\ v.tree = HeadTree(b) \cup Untracked(b)
    BY <2>1, <2>2, Pushing
  <2>4. PICK e \in Entries : /\ v.stash = <<e>> \o b.stash
                             /\ Patch(e) = Tracked(b) \ HeadTree(b) /\ e.untracked = {}
    BY <2>1, <2>2, PushedEntry
  <2>5. Promised(mode, b, v)
    BY <1>2, <1>3, <2>3, <2>4, Promises
  <2> QED
    BY <1>1, <2>5
<1>4. CASE mode = "KeepIndex"
  <2>1. v \in StashKeepIndex(b)
    BY <1>1, <1>4 DEF SingleProcess
  <2>2. Changed(b) # {}
    BY <1>1, <1>4, Kinds
  <2>3. PICK u \in SUBSET Edits : u = {}
    OBVIOUS
  <2>4. PICK e : e = Saving(b, b.index, Tracked(b), u)
    OBVIOUS
  <2>5. e \in Entries /\ Patch(e) = Tracked(b) \ HeadTree(b) /\ e.untracked = u
    BY <2>4, SavedAs
  <2>6. /\ v.log = b.log /\ v.index = b.index /\ v.tree = b.index \cup Untracked(b)
        /\ v.stash = <<e>> \o b.stash
    BY <2>1, <2>2, <2>3, <2>4, KeepingIndex
  <2>7. Promised(mode, b, v)
    BY <1>2, <1>4, <2>3, <2>5, <2>6, Promises
  <2> QED
    BY <1>1, <2>7
<1>5. CASE mode = "IncludeUntracked"
  <2>1. v \in StashAll(b)
    BY <1>1, <1>5 DEF SingleProcess
  <2>2. Changed(b) \cup Untracked(b) # {}
    BY <1>1, <1>5, Kinds
  <2>3. PICK u \in SUBSET Edits : u = Untracked(b)
    BY Split
  <2>4. PICK e : e = Saving(b, b.index, Tracked(b), u)
    OBVIOUS
  <2>5. e \in Entries /\ Patch(e) = Tracked(b) \ HeadTree(b) /\ e.untracked = u
    BY <2>4, SavedAs
  <2>6. /\ v.log = b.log /\ v.index = HeadTree(b) /\ v.tree = HeadTree(b)
        /\ v.stash = <<e>> \o b.stash
    BY <2>1, <2>2, <2>3, <2>4, StashingAll
  <2>7. /\ Head(v.stash) = e /\ Tail(v.stash) = b.stash
        /\ Len(v.stash) = Len(b.stash) + 1
    <3>1. b.stash \in Seq(Entries)
      BY Split
    <3> QED
      BY <2>5, <2>6, <3>1, Pushed
  <2>8. Promised(mode, b, v)
    BY <1>5, <2>3, <2>5, <2>6, <2>7 DEF Promised
  <2> QED
    BY <1>1, <2>8
<1> QED
  BY <1>3, <1>4, <1>5

LEMMA LaterHeads ==
  ASSUME NEW c, NEW l, Left(c, l), Len(l) # 1, NEW g, g = Head(Tail(l))
  PROVE  g \notin {"begin", "all"}
<1>1. PICK t : t = Tail(l)
  OBVIOUS
<1>2. l # <<"begin">> /\ l # <<"all">>
  OBVIOUS
<1>3. \/ t \in StagedLeft \/ t \in UnstagedLeft \/ t \in RenameLeft
      \/ t \in DiscardLeft \/ t \in NukeLeft
  BY <1>1, <1>2, StagedOrder, UnstagedOrder, RenameOrder, DiscardOrder, NukeOrder, Zenon DEF Left
<1>4. g = Head(t)
  BY <1>1
<1>5. t \in StagedLeft => g \notin {"begin", "all"}
  BY <1>4, StagedOrder
<1>6. t \in UnstagedLeft => g \notin {"begin", "all"}
  BY <1>4, UnstagedOrder
<1>7. t \in RenameLeft => g \notin {"begin", "all"}
  BY <1>4, RenameOrder
<1>8. t \in DiscardLeft => g \notin {"begin", "all"}
  BY <1>4, DiscardOrder
<1>9. t \in NukeLeft => g \notin {"begin", "all"}
  BY <1>4, NukeOrder
<1> QED
  BY <1>3, <1>5, <1>6, <1>7, <1>8, <1>9

LEMMA ProceedsOnWay ==
  ASSUME NEW w \in WorkTrees, NEW j, NEW v \in Outcomes, w = work, j = job,
         Sound(j, w), j.left # <<"begin">>, OnWay(Head(j.left), j.plan, j, w)
  PROVE  /\ Len(j.left) # 1 => OnWay(Head(Tail(j.left)), Plan, j, v)
         /\ Len(j.left) = 1 =>
               /\ /\ j.c.op = "CreateStash" /\ Plain(j.before)
                  /\ Available(Detail(j.before), j.c.mode)
                  => Promised(j.c.mode, j.before, v)
               /\ j.c.op = "RenameStash" => Renamed(j.c.k, j.before, v)
<1>1. Left(j.c, j.left) /\ j \in Jobs /\ j.before \in WorkTrees /\ j.c \in Requests
  BY JobType DEF Sound
<1>2. PICK b \in WorkTrees : b = j.before
  BY <1>1
<1>3. PICK h : h = Head(j.left)
  OBVIOUS
<1>4. PICK g : g = Head(Tail(j.left))
  OBVIOUS
<1>5. Len(j.left) # 1 => g \notin {"begin", "all"}
  BY <1>1, <1>4, LaterHeads
<1>6. OnWay(h, j.plan, j, w)
  BY <1>3
<1>7. j.left # <<"all">> => h # "begin"
  <2>1. CASE j.left \in StagedLeft
    BY <1>3, <2>1, StagedOrder
  <2>2. CASE j.left \in UnstagedLeft
    BY <1>3, <2>2, UnstagedOrder
  <2>3. CASE j.left \in RenameLeft
    BY <1>3, <2>3, RenameOrder
  <2>4. CASE j.left \in DiscardLeft
    BY <1>3, <2>4, DiscardOrder
  <2>5. CASE j.left \in NukeLeft
    BY <1>3, <2>5, NukeOrder
  <2> QED
    BY <1>1, <2>1, <2>2, <2>3, <2>4, <2>5 DEF Left
<1>8. CASE /\ j.c.op = "CreateStash" /\ j.c.mode = "Staged" /\ j.left \in StagedLeft
           /\ Plain(b) /\ Available(Detail(b), "Staged")
  <2>1. j.left # <<"all">>
    BY <1>8 DEF StagedLeft
  <2>2. StagedWay(h, j.plan, b, w)
    BY <1>2, <1>6, <1>7, <1>8, <2>1 DEF OnWay, StashWay
  <2>3. /\ Len(j.left) # 1 => StagedWay(g, Plan, b, v)
        /\ Len(j.left) = 1 => Promised("Staged", b, v)
    BY <1>3, <1>4, <1>8, <2>2, StagedOnWay
  <2>4. ASSUME Len(j.left) # 1 PROVE OnWay(g, Plan, j, v)
    BY <1>2, <1>5, <1>8, <2>3, <2>4 DEF OnWay, StashWay
  <2> QED
    BY <1>2, <1>4, <1>8, <2>3, <2>4
<1>9. CASE /\ j.c.op = "CreateStash" /\ j.c.mode = "Unstaged" /\ j.left \in UnstagedLeft
           /\ Plain(b) /\ Available(Detail(b), "Unstaged")
  <2>1. j.left # <<"all">>
    BY <1>9 DEF UnstagedLeft
  <2>2. UnstagedWay(h, b, w)
    BY <1>2, <1>6, <1>7, <1>9, <2>1 DEF OnWay, StashWay
  <2>3. /\ Len(j.left) # 1 => UnstagedWay(g, b, v)
        /\ Len(j.left) = 1 => Promised("Unstaged", b, v)
    BY <1>3, <1>4, <1>9, <2>2, UnstagedOnWay
  <2>4. ASSUME Len(j.left) # 1 PROVE OnWay(g, Plan, j, v)
    BY <1>2, <1>5, <1>9, <2>3, <2>4 DEF OnWay, StashWay
  <2> QED
    BY <1>2, <1>4, <1>9, <2>3, <2>4
<1>10. CASE j.c.op = "RenameStash" /\ j.left \in RenameLeft
  <2>1. j.left # <<"all">> /\ j.c.k \in Nat \ {0}
    BY <1>1, <1>10, RequestKinds DEF RenameLeft
  <2>2. RenameWay(h, j.plan, j.c.k, b, w)
    BY <1>2, <1>6, <1>7, <1>10, <2>1 DEF OnWay
  <2>3. /\ Len(j.left) # 1 => RenameWay(g, Plan, j.c.k, b, v)
        /\ Len(j.left) = 1 => Renamed(j.c.k, b, v)
    BY <1>3, <1>4, <1>10, <2>1, <2>2, RenameOnWay
  <2>4. ASSUME Len(j.left) # 1 PROVE OnWay(g, Plan, j, v)
    BY <1>2, <1>5, <1>10, <2>3, <2>4 DEF OnWay
  <2> QED
    BY <1>2, <1>4, <1>10, <2>3, <2>4
<1>11. CASE j.left = <<"all">> /\ j.c.op # "RenameStash"
            /\ (j.c.op = "CreateStash" => j.c.mode \notin {"Staged", "Unstaged"})
  <2>1. h = "all" /\ Len(j.left) = 1
    BY <1>3, <1>11, AllOrder, Zenon
  <2>2. w = b /\ v \in SingleProcess(w, j.c)
    BY <1>2, <1>3, <1>6, <2>1, OutcomeOf DEF OnWay
  <2>3. ASSUME j.c.op = "CreateStash", Plain(b), Available(Detail(b), j.c.mode)
        PROVE  Promised(j.c.mode, b, v)
    <3>1. j.c.mode \in {"Tracked", "KeepIndex", "IncludeUntracked"}
      BY <1>1, <1>11, <2>3, RequestKinds DEF Modes
    <3>2. v \in SingleProcess(b, j.c)
      BY <2>2
    <3> QED
      BY <2>3, <3>1, <3>2, AllOnWay
  <2> QED
    BY <1>2, <1>11, <2>1, <2>3
<1>12. CASE /\ j.c.op # "RenameStash"
            /\ ~(/\ j.c.op = "CreateStash" /\ Plain(b)
                 /\ Available(Detail(b), j.c.mode))
  <2>1. ASSUME Len(j.left) # 1 PROVE OnWay(g, Plan, j, v)
    BY <1>2, <1>5, <1>12, <2>1 DEF OnWay
  <2> QED
    BY <1>2, <1>4, <1>12, <2>1
<1> QED
  BY <1>1, <1>2, <1>8, <1>9, <1>10, <1>11, <1>12 DEF Left

LEMMA FirstWay ==
  ASSUME NEW c \in Requests, NEW h, h = Head(Processes(c))
  PROVE  /\ c.op = "CreateStash" /\ c.mode = "Staged" => h \in {"keepIndex", "saveStaged"}
         /\ c.op = "CreateStash" /\ c.mode = "Unstaged" =>
               h = "commit" \/ (h = "push" /\ Staged(work) = {})
         /\ c.op = "RenameStash" => h = "revParse"
<1>1. ASSUME c.op = "CreateStash", c.mode = "Staged" PROVE h \in {"keepIndex", "saveStaged"}
  <2>1. \/ Processes(c) = <<"keepIndex", "push", "applyOlder", "show", "unapply", "dropOlder",
                            "status", "unstage">>
        \/ Processes(c) = <<"saveStaged", "removeStaged">>
    BY <1>1 DEF Processes, LegacyStaged
  <2> QED
    BY <2>1
<1>2. ASSUME c.op = "CreateStash", c.mode = "Unstaged"
      PROVE  h = "commit" \/ (h = "push" /\ Staged(work) = {})
  <2>1. CASE Staged(work) # {}
    <3>1. Processes(c) = <<"commit", "pushOrUndo", "undo">>
      BY <1>2, <2>1 DEF Processes
    <3>2. Head(<<"commit", "pushOrUndo", "undo">>) = "commit"
      OBVIOUS
    <3> QED
      BY <3>1, <3>2, Zenon
  <2>2. CASE Staged(work) = {}
    <3>1. Processes(c) = <<"push">>
      BY <1>2, <2>2 DEF Processes
    <3> QED
      BY <2>2, <3>1
  <2> QED
    BY <2>1, <2>2
<1>3. ASSUME c.op = "RenameStash" PROVE h = "revParse"
  <2>1. Processes(c) = <<"revParse", "drop", "store">>
    BY <1>3 DEF Processes
  <2> QED
    BY <2>1
<1> QED
  BY <1>1, <1>2, <1>3

LEMMA BeginOnCourse == Safe /\ OnCourse /\ Begin => OnCourse'
<1> SUFFICES ASSUME Safe, OnCourse, Begin, job'.alone, ~job'.undone
             PROVE  OnWay(Head(job'.left), job'.plan, job', work')
  BY DEF OnCourse
<1>1. PICK w \in WorkTrees : w = work
  BY DEF Safe
<1>2. PICK j : j = job
  OBVIOUS
<1>3. j # None /\ Sound(j, w) /\ j.left = <<"begin">>
  BY <1>1, <1>2 DEF Safe, Begin
<1>4. j \in Jobs /\ j.before \in WorkTrees /\ j.c \in Requests
  BY <1>3, JobType DEF Sound
<1>5. PICK c \in Requests, b \in WorkTrees : c = j.c /\ b = j.before
  BY <1>4
<1>6. PICK l \in Seq(Purposes) : l = Processes(c)
  BY OrdersType
<1>7. PICK k : k = [j EXCEPT !.left = l]
  OBVIOUS
<1>8. job' = k /\ work' = w
  BY <1>1, <1>2, <1>5, <1>6, <1>7 DEF Begin
<1>9. /\ k.c = c /\ k.left = l /\ k.plan = j.plan
      /\ k.before = b /\ k.alone = j.alone /\ k.undone = j.undone
  BY <1>4, <1>5, <1>7 DEF Jobs
<1>10. Head(j.left) = "begin"
  BY <1>3
<1>11. OnWay("begin", j.plan, j, w)
  BY <1>1, <1>2, <1>3, <1>8, <1>9, <1>10 DEF OnCourse
<1>12. w = b
  BY <1>5, <1>11 DEF OnWay
<1>13. PICK h : h = Head(l)
  OBVIOUS
<1>14. /\ c.op = "CreateStash" /\ c.mode = "Staged" => h \in {"keepIndex", "saveStaged"}
       /\ c.op = "CreateStash" /\ c.mode = "Unstaged" =>
             h = "commit" \/ (h = "push" /\ Staged(w) = {})
       /\ c.op = "RenameStash" => h = "revParse"
  BY <1>1, <1>6, <1>13, FirstWay
<1>15. c.op = "CreateStash" /\ c.mode = "Staged" => StagedWay(h, j.plan, b, w)
  BY <1>12, <1>14 DEF StagedWay
<1>16. c.op = "CreateStash" /\ c.mode = "Unstaged" => UnstagedWay(h, b, w)
  BY <1>12, <1>14 DEF UnstagedWay
<1>17. c.op = "RenameStash" => RenameWay(h, j.plan, c.k, b, w)
  BY <1>12, <1>14 DEF RenameWay
<1>18. OnWay(h, j.plan, k, w)
  <2>1. c.op = "CreateStash" => StashWay(h, j.plan, c.mode, b, w)
    BY <1>15, <1>16 DEF StashWay
  <2> QED
    BY <1>9, <1>12, <1>17, <2>1 DEF OnWay
<1> QED
  BY <1>8, <1>9, <1>13, <1>18

LEMMA ProcessOnCourse == Safe /\ OnCourse /\ Process => OnCourse'
<1> SUFFICES ASSUME Safe, OnCourse, Process, job' # None, job'.alone, ~job'.undone
             PROVE  OnWay(Head(job'.left), job'.plan, job', work')
  BY DEF OnCourse
<1>1. PICK w \in WorkTrees : w = work
  BY DEF Safe
<1>2. PICK j : j = job
  OBVIOUS
<1>3. PICK v \in Outcomes : v = work'
  BY DEF Process
<1>4. j # None /\ Sound(j, w) /\ j.left # <<"begin">>
  BY <1>1, <1>2 DEF Safe, Process
<1>5. j \in Jobs
  BY <1>4 DEF Sound
<1>6. Len(j.left) # 1
  BY <1>2 DEF Process, Ends
<1>7. PICK k : k = [j EXCEPT !.left = Tail(j.left), !.plan = Plan]
  OBVIOUS
<1>8. job' = k
  BY <1>2, <1>6, <1>7 DEF Process
<1>9. /\ k.c = j.c /\ k.left = Tail(j.left) /\ k.plan = Plan
      /\ k.before = j.before /\ k.alone = j.alone /\ k.undone = j.undone
  BY <1>5, <1>7 DEF Jobs
<1>10. OnWay(Head(j.left), j.plan, j, w)
  BY <1>1, <1>2, <1>4, <1>8, <1>9 DEF OnCourse
<1>11. OnWay(Head(Tail(j.left)), Plan, j, v)
  BY <1>1, <1>2, <1>3, <1>4, <1>6, <1>10, ProceedsOnWay
<1>12. PICK h, p : h = Head(Tail(j.left)) /\ p = Plan
  OBVIOUS
<1>13. OnWay(h, p, j, v)
  BY <1>11, <1>12
<1>14. OnWay(h, p, k, v)
  BY <1>9, <1>13 DEF OnWay
<1> QED
  BY <1>3, <1>8, <1>9, <1>12, <1>14

LEMMA OthersOnCourse ==
  ASSUME Safe, OnCourse, [Next]_vars, ~Begin, ~Process
  PROVE  OnCourse'
<1>1. CASE Fails
  <2>1. PICK j : j = job
    OBVIOUS
  <2>2. j \in Jobs
    BY <1>1, <2>1 DEF Safe, Sound, Fails
  <2>3. PICK k : k = [j EXCEPT !.left = <<"undo">>, !.undone = TRUE]
    OBVIOUS
  <2>4. k.undone = TRUE
    BY <2>2, <2>3 DEF Jobs
  <2>5. job' = k \/ job' = None
    BY <1>1, <2>1, <2>3 DEF Fails, Ends
  <2> QED
    BY <2>4, <2>5 DEF OnCourse
<1>2. CASE Outside
  <2>1. PICK j : j = job
    OBVIOUS
  <2>2. PICK k : k = [j EXCEPT !.alone = FALSE]
    OBVIOUS
  <2>3. j # None => k.alone = FALSE
    <3>1. j # None => j \in Jobs
      BY <2>1 DEF Safe, Sound
    <3> QED
      BY <2>2, <3>1 DEF Jobs
  <2>4. (j = None /\ job' = None) \/ (j # None /\ job' = k)
    BY <1>2, <2>1, <2>2 DEF Outside
  <2> QED
    BY <2>3, <2>4 DEF OnCourse
<1>3. CASE User
  <2>1. job' = None \/ \E c : job' = Run(c)
    BY <1>3 DEF User, Ask, Request, Submit, Cancel, Input, Idle
  <2>2. ASSUME NEW c, job' = Run(c) PROVE OnWay(Head(job'.left), job'.plan, job', work')
    <3>1. work' = work
      BY <1>3 DEF User, Ask, Request, Submit, Cancel, Input
    <3>2. PICK k : k = Run(c)
      OBVIOUS
    <3>3. k.before = work /\ k.left = <<"begin">>
      BY <3>2 DEF Run
    <3>4. Head(k.left) = "begin"
      BY <3>3
    <3>5. OnWay("begin", k.plan, k, work)
      <4>1. PICK h : h = "begin"
        OBVIOUS
      <4>2. OnWay(h, k.plan, k, work)
        BY <3>3, <4>1 DEF OnWay
      <4> QED
        BY <4>1, <4>2
    <3> QED
      BY <2>2, <3>1, <3>2, <3>4, <3>5
  <2> QED
    BY <2>1, <2>2 DEF OnCourse
<1>4. CASE LoadRepoDetail \/ Refresh \/ UNCHANGED vars
  <2>1. job' = job /\ work' = work
    BY <1>4 DEF LoadRepoDetail, Refresh, vars
  <2> QED
    BY <2>1 DEF OnCourse
<1> QED
  BY <1>1, <1>2, <1>3, <1>4 DEF Next, Command

LEMMA InitOnCourse == Init => OnCourse
  BY DEF Init, OnCourse

\* A command that is left alone is always where its processes should have brought it.
THEOREM OnCourseHolds == Spec => [](Safe /\ OnCourse)
<1>1. Init => Safe /\ OnCourse
  BY InitSafe, InitOnCourse
<1>2. Safe /\ OnCourse /\ [Next]_vars => (Safe /\ OnCourse)'
  BY SafeStep, BeginOnCourse, ProcessOnCourse, OthersOnCourse
<1> QED
  BY <1>1, <1>2, PTL DEF Spec

LEMMA EndsAsPromised ==
  ASSUME Safe, OnCourse, [Next]_vars, job # None, job' = None, faults' = faults,
         job.alone, ~job.undone, Outcomes # {}
  PROVE  /\ job.c.op = "CreateStash" /\ Plain(job.before)
                     /\ Available(Detail(job.before), job.c.mode)
                => Promised(job.c.mode, job.before, work')
         /\ job.c.op = "RenameStash" => Renamed(job.c.k, job.before, work')
<1>1. PICK w \in WorkTrees : w = work
  BY DEF Safe
<1>2. PICK j : j = job
  OBVIOUS
<1>3. Sound(j, w) /\ OnWay(Head(j.left), j.plan, j, w)
  BY <1>1, <1>2 DEF Safe, OnCourse
<1>4. ~Fails
  BY DEF Fails, Safe
<1>5. Process
  BY <1>4, BeginSafe, OutsideSafe DEF Next, User, Ask, Request, Submit, Cancel, Input, Idle, Command,
                                      LoadRepoDetail, Refresh, vars
<1>6. PICK v \in Outcomes : v = work'
  BY <1>5 DEF Process
<1>7. j.left # <<"begin">> /\ Len(j.left) = 1
  BY <1>2, <1>5, ProcessSafe DEF Process
<1>8. /\ /\ j.c.op = "CreateStash" /\ Plain(j.before)
         /\ Available(Detail(j.before), j.c.mode)
         => Promised(j.c.mode, j.before, v)
      /\ j.c.op = "RenameStash" => Renamed(j.c.k, j.before, v)
  BY <1>1, <1>2, <1>3, <1>7, ProceedsOnWay
<1> QED
  BY <1>2, <1>6, <1>8

\* A stash that reports success has saved the changes of its mode, in one entry, and left
\* all others (stash_staged_changes_legacy and stash_unstaged_changes of
\* crates/git/src/lib.rs put it together from up to eight git processes); an entry that
\* is renamed is still there.
THEOREM PromiseHolds == Spec => KeepsPromise
<1>1. Safe /\ OnCourse /\ [Next]_vars
         => [/\ job # None /\ job' = None /\ faults' = faults
       /\ job.alone /\ ~job.undone /\ Outcomes # {}
       => /\ job.c.op = "CreateStash" /\ Plain(job.before)
                     /\ Available(Detail(job.before), job.c.mode)
                => Promised(job.c.mode, job.before, work')
          /\ job.c.op = "RenameStash" => Renamed(job.c.k, job.before, work')]_vars
  BY EndsAsPromised
<1> QED
  BY <1>1, OnCourseHolds, PTL DEF Spec, KeepsPromise

=============================================================================
