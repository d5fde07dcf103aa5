-------------------------- MODULE RemoteFlowProofs --------------------------
(***************************************************************************)
(* Proofs about RemoteFlow, for every set of branches, remotes, servers    *)
(* and commits, every repository the program is opened on, and every bound.*)
(***************************************************************************)
EXTENDS RemoteFlow, WellFoundedInduction, SequenceTheorems, TLAPS

-----------------------------------------------------------------------------
(* The repository: what one git process leaves of a well-formed one.       *)

Good(s) == s \in Refs /\ s.local[s.head] # {}

\* The fields of a repository, and of a remote branch.
LEMMA RefsFields ==
    ASSUME NEW s \in Refs
    PROVE  /\ s.head \in Branches
           /\ s.local \in [Branches -> Tips]
           /\ s.tracking \in [Remotes -> [Branches -> Tips]]
           /\ s.upstream \in [Branches -> RemoteBranches \union {None}]
           /\ s.url \in [Remotes -> Urls \union {None}]
           /\ s.server \in [Urls -> [Branches -> Tips]]
    BY DEF Refs

LEMMA RemoteBranchFields ==
    ASSUME NEW rb \in RemoteBranches
    PROVE  rb.r \in Remotes /\ rb.b \in Branches
    BY DEF RemoteBranches

\* A tracking branch that resolves is that of a remote branch.
LEMMA UpstreamTipType ==
    ASSUME NEW s \in Refs, NEW b \in Branches
    PROVE  /\ UpstreamTip(s, b) \in Tips
           /\ HasUpstream(s, b) => s.upstream[b] \in RemoteBranches
<1>1. CASE s.upstream[b] = None BY <1>1 DEF UpstreamTip, HasUpstream, Tips
<1>2. CASE s.upstream[b] # None
  <2>1. s.upstream[b] \in RemoteBranches BY <1>2, RefsFields
  <2>2. s.upstream[b].r \in Remotes /\ s.upstream[b].b \in Branches
      BY <2>1, RemoteBranchFields
  <2> QED BY <1>2, <2>1, <2>2, RefsFields DEF UpstreamTip, HasUpstream
<1> QED BY <1>1, <1>2

\* "git remote" lists remotes, so the first of them that is known is one.
LEMMA DefaultRemoteType ==
    ASSUME NEW s \in Refs
    PROVE  \/ DefaultRemote(s) = None
           \/ DefaultRemote(s) \in Remotes /\ Known(s, DefaultRemote(s))
<1> DEFINE first == CHOOSE i \in Listed(s) : \A j \in Listed(s) : i <= j
<1>1. CASE Listed(s) = {} BY <1>1 DEF DefaultRemote
<1>2. CASE Listed(s) # {}
  <2>1. Listed(s) \subseteq Nat
      BY RefsAssumption DEF RefsAssumption, Listed
  <2>2. IsWellFoundedOn(OpToRel(<, Nat), Listed(s))
      BY <2>1, NatLessThanWellFounded, IsWellFoundedOnSubset
  <2>3. PICK i \in Listed(s) : \A j \in Listed(s) : ~(<<j, i>> \in OpToRel(<, Nat))
      BY <1>2, <2>2, WFMin
  <2>4. \A j \in Listed(s) : <<j, i>> \in OpToRel(<, Nat) <=> j < i
      BY <2>1 DEF OpToRel
  <2>5. \A j \in Listed(s) : ~(j < i) BY <2>3, <2>4, Zenon
  <2>6. \A j \in Listed(s) : i <= j BY <2>1, <2>5
  <2>7. first \in Listed(s) BY <2>6
  <2>8. RemoteOrder[first] \in Remotes /\ Known(s, RemoteOrder[first])
      BY <2>7, RefsAssumption DEF RefsAssumption, Listed
  <2>9. DefaultRemote(s) = RemoteOrder[first] BY <1>2 DEF DefaultRemote
  <2> HIDE DEF first
  <2> QED BY <2>8, <2>9
<1> QED BY <1>1, <1>2

\* Remotes: added, removed, renamed, given an address, fetched.
LEMMA AddRemoteGood ==
    ASSUME NEW s, Good(s), NEW c, c.r \in Remotes, c.u \in Urls, NEW t \in AddRemote(s, c)
    PROVE  Good(t) /\ t.local = s.local /\ t.server = s.server
<1>1. t = [s EXCEPT !.url[c.r] = c.u] BY DEF AddRemote
<1>2. s \in Refs /\ s.local[s.head] # {} BY DEF Good
<1>3. t \in Refs BY <1>1, <1>2 DEF Refs
<1> QED BY <1>1, <1>2, <1>3 DEF Good, Refs

LEMMA RemoveRemoteGood ==
    ASSUME NEW s, Good(s), NEW c, c.r \in Remotes, NEW t \in RemoveRemote(s, c)
    PROVE  Good(t) /\ t.local = s.local /\ t.server = s.server
<1> DEFINE kept == [b \in Branches |->
              IF s.upstream[b] # None /\ s.upstream[b].r = c.r THEN None ELSE s.upstream[b]]
<1>1. t = [s EXCEPT !.url[c.r] = None,
                    !.tracking[c.r] = [b \in Branches |-> {}],
                    !.upstream = kept] BY DEF RemoveRemote
<1>2. s \in Refs /\ s.local[s.head] # {} BY DEF Good
<1>3. kept \in [Branches -> RemoteBranches \union {None}] BY <1>2 DEF Refs
<1>4. [b \in Branches |-> {}] \in [Branches -> Tips] BY DEF Tips
<1> HIDE DEF kept
<1>5. t \in Refs BY <1>1, <1>2, <1>3, <1>4 DEF Refs
<1> QED BY <1>1, <1>2, <1>5 DEF Good, Refs

LEMMA RenameRemoteGood ==
    ASSUME NEW s, Good(s), NEW c, c.r \in Remotes, c.n \in Remotes, NEW t \in RenameRemote(s, c)
    PROVE  Good(t) /\ t.local = s.local /\ t.server = s.server
<1> DEFINE moved == [b \in Branches |->
              IF s.upstream[b] # None /\ s.upstream[b].r = c.r
              THEN [s.upstream[b] EXCEPT !.r = c.n] ELSE s.upstream[b]]
<1>1. CASE c.r = c.n BY <1>1 DEF RenameRemote
<1>2. CASE c.r # c.n
  <2>1. t = [s EXCEPT !.url[c.n] = s.url[c.r],
                      !.url[c.r] = None,
                      !.tracking[c.n] = s.tracking[c.r],
                      !.tracking[c.r] = [b \in Branches |-> {}],
                      !.upstream = moved]
      BY <1>2 DEF RenameRemote
  <2>2. s \in Refs /\ s.local[s.head] # {} BY DEF Good
  <2>3. moved \in [Branches -> RemoteBranches \union {None}]
      BY <2>2 DEF Refs, RemoteBranches
  <2>4. [b \in Branches |-> {}] \in [Branches -> Tips] BY DEF Tips
  <2> HIDE DEF moved
  <2>5. t \in Refs BY <2>1, <2>2, <2>3, <2>4 DEF Refs
  <2> QED BY <2>1, <2>2, <2>5 DEF Good, Refs
<1> QED BY <1>1, <1>2

LEMMA SetUrlGood ==
    ASSUME NEW s, Good(s), NEW c, c.n \in Remotes, c.u \in Urls, NEW t \in SetUrl(s, c)
    PROVE  Good(t) /\ t.local = s.local /\ t.server = s.server
<1>1. t = [s EXCEPT !.url[c.n] = c.u] BY DEF SetUrl
<1>2. s \in Refs /\ s.local[s.head] # {} BY DEF Good
<1>3. t \in Refs BY <1>1, <1>2 DEF Refs
<1> QED BY <1>1, <1>2, <1>3 DEF Good, Refs

LEMMA FetchGood ==
    ASSUME NEW s, Good(s), NEW r \in Remotes, NEW t \in Fetch(s, r)
    PROVE  Good(t) /\ t.local = s.local /\ t.server = s.server /\ t.head = s.head
<1> DEFINE f == [b \in Branches |->
            IF OnServer(s, r)[b] = {} THEN s.tracking[r][b] ELSE OnServer(s, r)[b]]
<1>1. Known(s, r) /\ t = [s EXCEPT !.tracking[r] = f] BY DEF Fetch
<1>2. s \in Refs /\ s.local[s.head] # {} BY DEF Good
<1>3. f \in [Branches -> Tips] BY <1>1, <1>2 DEF Refs, OnServer, Known
<1> HIDE DEF f
<1>5. t \in Refs BY <1>1, <1>2, <1>3 DEF Refs
<1> QED BY <1>1, <1>2, <1>5 DEF Good, Refs

\* A step that only adds to the branches there are.
Grows(s, t) == \A b \in Branches : s.local[b] # {} => s.local[b] \subseteq t.local[b]

LEMMA CheckoutBranchGood ==
    ASSUME NEW s, Good(s), NEW c, c.b \in Branches, NEW t \in CheckoutBranch(s, c)
    PROVE  Good(t) /\ t.server = s.server /\ t.local = s.local
<1>1. s.local[c.b] # {} /\ t = [s EXCEPT !.head = c.b] BY DEF CheckoutBranch, Exists
<1>2. s \in Refs /\ s.local[s.head] # {} BY DEF Good
<1>3. t \in Refs BY <1>1, <1>2 DEF Refs
<1> QED BY <1>1, <1>2, <1>3 DEF Good, Refs

LEMMA CreateBranchGood ==
    ASSUME NEW s, Good(s), NEW c, c.b \in Branches, NEW t \in CreateBranch(s, c)
    PROVE  Good(t) /\ t.server = s.server /\ Grows(s, t)
<1>1. s.local[c.b] = {} /\ t = [s EXCEPT !.local[c.b] = s.local[s.head], !.head = c.b]
    BY DEF CreateBranch, Exists
<1>2. s \in Refs /\ s.local[s.head] # {} BY DEF Good
<1>3. t \in Refs BY <1>1, <1>2 DEF Refs
<1> QED BY <1>1, <1>2, <1>3 DEF Good, Refs, Grows

LEMMA CreateBranchFromRefGood ==
    ASSUME NEW s, Good(s), NEW c, c.b \in Branches, c.from \in RemoteBranches,
           NEW t \in CreateBranchFromRef(s, c)
    PROVE  Good(t) /\ t.server = s.server /\ Grows(s, t) /\ t.local[c.b] # {}
<1> DEFINE start == s.tracking[c.from.r][c.from.b]
           follows == IF c.track THEN c.from ELSE s.upstream[c.b]
<1>1. /\ s.local[c.b] = {} /\ start # {}
      /\ t = [s EXCEPT !.local[c.b] = start, !.upstream[c.b] = follows]
    BY DEF CreateBranchFromRef, Exists
<1>2. s \in Refs /\ s.local[s.head] # {} BY DEF Good
<1>3. start \in Tips BY <1>2, RemoteBranchFields DEF Refs
<1>4. follows \in RemoteBranches \union {None} BY <1>2 DEF Refs
<1> HIDE DEF start, follows
<1>5. t \in Refs BY <1>1, <1>2, <1>3, <1>4 DEF Refs
<1>6. t.local = [s.local EXCEPT ![c.b] = start] /\ t.server = s.server /\ t.head = s.head
    BY <1>1, <1>2 DEF Refs
<1>7. s.local \in [Branches -> Tips] BY <1>2 DEF Refs
<1> QED BY <1>1, <1>2, <1>5, <1>6, <1>7 DEF Good, Grows

LEMMA CheckoutRemoteBranchGood ==
    ASSUME NEW s, Good(s), NEW c, c.from \in RemoteBranches, NEW t \in CheckoutRemoteBranch(s, c)
    PROVE  Good(t) /\ t.server = s.server /\ Grows(s, t)
<1>1. c.from.r \in Remotes /\ c.from.b \in Branches BY RemoteBranchFields
<1> DEFINE d == [b |-> c.from.b, from |-> c.from, track |-> TRUE]
<1>2. CASE Exists(s, c.from.b)
  <2>1. t \in CheckoutBranch(s, [b |-> c.from.b]) BY <1>2 DEF CheckoutRemoteBranch
  <2> QED BY <1>1, <2>1, CheckoutBranchGood DEF Grows
<1>3. CASE ~Exists(s, c.from.b)
  <2>1. PICK u \in CreateBranchFromRef(s, d) : t = [u EXCEPT !.head = c.from.b]
      BY <1>3 DEF CheckoutRemoteBranch
  <2>2. Good(u) /\ u.server = s.server /\ Grows(s, u) /\ u.local[c.from.b] # {}
      BY <1>1, CreateBranchFromRefGood
  <2>3. u \in Refs BY <2>2 DEF Good
  <2>4. t \in Refs /\ t.local = u.local /\ t.server = u.server /\ t.head = c.from.b
      BY <1>1, <2>1, <2>3 DEF Refs
  <2> QED BY <2>2, <2>4 DEF Good, Grows
<1> QED BY <1>2, <1>3

LEMMA RenameBranchGood ==
    ASSUME NEW s, Good(s), NEW c, c.b \in Branches, c.n \in Branches, NEW t \in RenameBranch(s, c)
    PROVE  /\ Good(t) /\ t.server = s.server
           /\ \A b \in Branches \ {c.b} : s.local[b] # {} => t.local[b] = s.local[b]
           /\ t.local[c.b] = {} /\ t.local[c.n] = s.local[c.b]
<1>1. /\ s.local[c.b] # {} /\ s.local[c.n] = {}
      /\ t = [s EXCEPT !.local[c.n] = s.local[c.b],
                       !.local[c.b] = {},
                       !.upstream[c.n] = s.upstream[c.b],
                       !.upstream[c.b] = None,
                       !.head = IF s.head = c.b THEN c.n ELSE s.head]
    BY DEF RenameBranch, Exists
<1>2. s \in Refs /\ s.local[s.head] # {} BY DEF Good
<1>3. {} \in Tips BY DEF Tips
<1>4. t \in Refs BY <1>1, <1>2, <1>3 DEF Refs
<1>5. s.local \in [Branches -> Tips] /\ s.head \in Branches BY <1>2 DEF Refs
<1>6. /\ t.local = [s.local EXCEPT ![c.n] = s.local[c.b], ![c.b] = {}]
      /\ t.head = IF s.head = c.b THEN c.n ELSE s.head
      /\ t.server = s.server
    BY <1>1, <1>2 DEF Refs
<1> QED BY <1>1, <1>2, <1>4, <1>5, <1>6 DEF Good

LEMMA DeleteBranchGood ==
    ASSUME NEW s, Good(s), NEW c, c.b \in Branches, NEW t \in DeleteBranch(s, c)
    PROVE  /\ Good(t) /\ t.server = s.server /\ t.tracking = s.tracking
           /\ s.head # c.b
           /\ \A b \in Branches \ {c.b} : t.local[b] = s.local[b]
           /\ t.local[c.b] = {}
<1>1. s.head # c.b /\ t = [s EXCEPT !.local[c.b] = {}, !.upstream[c.b] = None]
    BY DEF DeleteBranch
<1>2. s \in Refs /\ s.local[s.head] # {} BY DEF Good
<1>3. {} \in Tips BY DEF Tips
<1>4. t \in Refs BY <1>1, <1>2, <1>3 DEF Refs
<1>5. s.local \in [Branches -> Tips] /\ s.head \in Branches BY <1>2 DEF Refs
<1>6. /\ t.local = [s.local EXCEPT ![c.b] = {}]
      /\ t.server = s.server /\ t.tracking = s.tracking /\ t.head = s.head
    BY <1>1, <1>2 DEF Refs
<1> QED BY <1>1, <1>2, <1>4, <1>5, <1>6 DEF Good

LEMMA SetBranchUpstreamGood ==
    ASSUME NEW s, Good(s), NEW c, c.b \in Branches, c.from \in RemoteBranches,
           NEW t \in SetBranchUpstream(s, c)
    PROVE  Good(t) /\ t.server = s.server /\ t.local = s.local
<1>1. t = [s EXCEPT !.upstream[c.b] = c.from] BY DEF SetBranchUpstream
<1>2. s \in Refs /\ s.local[s.head] # {} BY DEF Good
<1>3. t \in Refs BY <1>1, <1>2 DEF Refs
<1> QED BY <1>1, <1>2, <1>3 DEF Good, Refs

LEMMA UnsetBranchUpstreamGood ==
    ASSUME NEW s, Good(s), NEW c, c.b \in Branches, NEW t \in UnsetBranchUpstream(s, c)
    PROVE  Good(t) /\ t.server = s.server /\ t.local = s.local
<1>1. t = [s EXCEPT !.upstream[c.b] = None] BY DEF UnsetBranchUpstream
<1>2. s \in Refs /\ s.local[s.head] # {} BY DEF Good
<1>3. t \in Refs BY <1>1, <1>2 DEF Refs
<1> QED BY <1>1, <1>2, <1>3 DEF Good, Refs

LEMMA FastForwardGood ==
    ASSUME NEW s, Good(s), NEW c, c.from \in RemoteBranches, NEW t \in FastForward(s, c)
    PROVE  Good(t) /\ t.server = s.server /\ Grows(s, t)
<1> DEFINE both == s.local[s.head] \union s.tracking[c.from.r][c.from.b]
<1>1. t = [s EXCEPT !.local[s.head] = both] BY DEF FastForward
<1>2. s \in Refs /\ s.local[s.head] # {} BY DEF Good
<1>3. both \in Tips BY <1>2, RemoteBranchFields DEF Refs, Tips
<1>4. s.local[s.head] \subseteq both OBVIOUS
<1> HIDE DEF both
<1>5. t \in Refs BY <1>1, <1>2, <1>3 DEF Refs
<1>6. t.local = [s.local EXCEPT ![s.head] = both] /\ t.server = s.server /\ t.head = s.head
    BY <1>1, <1>2 DEF Refs
<1>7. s.local \in [Branches -> Tips] BY <1>2 DEF Refs
<1> QED BY <1>1, <1>2, <1>4, <1>5, <1>6, <1>7 DEF Good, Grows

LEMMA MergeRefGood ==
    ASSUME NEW s, Good(s), NEW c, c.b \in Branches, NEW t \in MergeRefIntoCurrent(s, c)
    PROVE  Good(t) /\ t.server = s.server /\ Grows(s, t)
<1>1. s \in Refs /\ s.local[s.head] # {} BY DEF Good
<1>2. s.local \in [Branches -> Tips] /\ s.head \in Branches BY <1>1 DEF Refs
<1>3. PICK new \in SUBSET Commits :
        t = [s EXCEPT !.local[s.head] = s.local[s.head] \union s.local[c.b] \union new]
  <2>1. CASE t = [s EXCEPT !.local[s.head] = s.local[s.head] \union s.local[c.b]]
    <3>1. {} \in SUBSET Commits OBVIOUS
    <3>2. s.local[s.head] \union s.local[c.b] = s.local[s.head] \union s.local[c.b] \union {}
        OBVIOUS
    <3> QED BY <2>1, <3>1, <3>2
  <2>2. CASE \E new \in Fresh(s) :
          t = [s EXCEPT !.local[s.head] = s.local[s.head] \union s.local[c.b] \union {new}]
    <3>1. PICK new \in Fresh(s) :
            t = [s EXCEPT !.local[s.head] = s.local[s.head] \union s.local[c.b] \union {new}]
        BY <2>2
    <3>2. {new} \in SUBSET Commits BY DEF Fresh, Unused
    <3> QED BY <3>1, <3>2
  <2> QED BY <2>1, <2>2 DEF MergeRefIntoCurrent
<1> DEFINE both == s.local[s.head] \union s.local[c.b] \union new
<1>4. both \in Tips /\ s.local[s.head] \subseteq both BY <1>2 DEF Tips
<1>5. t = [s EXCEPT !.local[s.head] = both] BY <1>3
<1> HIDE DEF both
<1>6. t \in Refs BY <1>1, <1>4, <1>5 DEF Refs
<1>7. t.local = [s.local EXCEPT ![s.head] = both] /\ t.server = s.server /\ t.head = s.head
    BY <1>1, <1>5 DEF Refs
<1> QED BY <1>1, <1>2, <1>4, <1>6, <1>7 DEF Good, Grows

\* What a branch is pushed to.
LEMMA PushTargetType ==
    ASSUME NEW s \in Refs
    PROVE  PushTarget(s).r \in Remotes /\ PushTarget(s).b \in Branches
<1>1. s.head \in Branches BY RefsFields
<1>2. CASE HasUpstream(s, s.head)
    BY <1>1, <1>2, UpstreamTipType, RemoteBranchFields DEF PushTarget
<1>3. CASE ~HasUpstream(s, s.head)
  <2>1. PushTarget(s) =
          [r |-> IF DefaultRemote(s) = None THEN Origin ELSE DefaultRemote(s), b |-> s.head]
      BY <1>3 DEF PushTarget
  <2>2. (IF DefaultRemote(s) = None THEN Origin ELSE DefaultRemote(s)) \in Remotes
      BY DefaultRemoteType, RefsAssumption DEF RefsAssumption
  <2> QED BY <1>1, <2>1, <2>2
<1> QED BY <1>2, <1>3

\* A push overwrites nothing at the server.
LEMMA PushGood ==
    ASSUME NEW s, Good(s), NEW c, NEW t \in PushCurrentBranch(s, c)
    PROVE  /\ Good(t) /\ t.local = s.local
           /\ \A u \in Urls, b \in Branches : s.server[u][b] \subseteq t.server[u][b]
<1> DEFINE to == PushTarget(s)
           mine == s.local[s.head]
           u0 == s.url[to.r]
<1>1. /\ s.url[to.r] # None /\ s.server[u0][to.b] \subseteq mine
      /\ t = [s EXCEPT !.server[u0][to.b] = mine,
                       !.tracking[to.r][to.b] = mine,
                       !.upstream[s.head] = to]
    BY DEF PushCurrentBranch, Known, OnServer
<1>2. s \in Refs /\ s.local[s.head] # {} BY DEF Good
<1>3. to.r \in Remotes /\ to.b \in Branches BY <1>2, PushTargetType
<1>4. to \in RemoteBranches
  <2>1. CASE HasUpstream(s, s.head)
      BY <1>2, <2>1, UpstreamTipType, RefsFields DEF PushTarget
  <2>2. CASE ~HasUpstream(s, s.head)
    <3>1. to = [r |-> to.r, b |-> to.b] BY <2>2 DEF PushTarget
    <3> HIDE DEF to
    <3> QED BY <1>3, <3>1 DEF RemoteBranches
  <2> QED BY <2>1, <2>2
<1>5. mine \in Tips /\ u0 \in Urls BY <1>1, <1>2, <1>3 DEF Refs
<1> HIDE DEF to, mine, u0
<1>6. t \in Refs BY <1>1, <1>2, <1>3, <1>4, <1>5 DEF Refs
<1>7. /\ t.local = s.local /\ t.head = s.head
      /\ t.server = [s.server EXCEPT ![u0][to.b] = mine]
    BY <1>1, <1>2 DEF Refs
<1>8. s.server \in [Urls -> [Branches -> Tips]] BY <1>2 DEF Refs
<1>9. \A u \in Urls, b \in Branches : s.server[u][b] \subseteq t.server[u][b]
    BY <1>1, <1>3, <1>5, <1>7, <1>8
<1> QED BY <1>2, <1>6, <1>7, <1>9 DEF Good

LEMMA DeleteRemoteBranchGood ==
    ASSUME NEW s, Good(s), NEW c, c.from \in RemoteBranches, NEW t \in DeleteRemoteBranch(s, c)
    PROVE  /\ Good(t) /\ t.local = s.local
           /\ \A u \in Urls, b \in Branches \ {c.from.b} : t.server[u][b] = s.server[u][b]
<1> DEFINE u0 == s.url[c.from.r]
<1>1. /\ s.url[c.from.r] # None
      /\ t = [s EXCEPT !.server[u0][c.from.b] = {}, !.tracking[c.from.r][c.from.b] = {}]
    BY DEF DeleteRemoteBranch, Known
<1>2. s \in Refs /\ s.local[s.head] # {} BY DEF Good
<1>3. c.from.r \in Remotes /\ c.from.b \in Branches BY RemoteBranchFields
<1>4. {} \in Tips /\ u0 \in Urls BY <1>1, <1>2, <1>3 DEF Refs, Tips
<1> HIDE DEF u0
<1>5. t \in Refs BY <1>1, <1>2, <1>3, <1>4 DEF Refs
<1>6. /\ t.local = s.local /\ t.head = s.head
      /\ t.server = [s.server EXCEPT ![u0][c.from.b] = {}]
    BY <1>1, <1>2 DEF Refs
<1>7. s.server \in [Urls -> [Branches -> Tips]] BY <1>2 DEF Refs
<1>8. \A u \in Urls, b \in Branches \ {c.from.b} : t.server[u][b] = s.server[u][b]
    BY <1>3, <1>4, <1>6, <1>7
<1> QED BY <1>2, <1>5, <1>6, <1>8 DEF Good

\* The branches a fetch is to forward: they exist, and follow a remote branch.
PlanOK(plan) ==
    \A p \in plan : p.b \in Branches /\ p.to \in RemoteBranches /\ p.old # {}

LEMMA AutoForwardsOK ==
    ASSUME NEW s, Good(s)
    PROVE  PlanOK(AutoForwards(s))
<1>1. s \in Refs BY DEF Good
<1> QED BY <1>1, UpstreamTipType, RefsAssumption
        DEF AutoForwards, PlanOK, RefsAssumption, Exists

LEMMA UpdateBranchRefsGood ==
    ASSUME NEW s, Good(s), NEW plan, PlanOK(plan), NEW t \in UpdateBranchRefs(s, plan)
    PROVE  /\ Good(t) /\ t.head = s.head /\ t.tracking = s.tracking /\ t.upstream = s.upstream
           /\ t.url = s.url /\ t.server = s.server
           /\ \A b \in Branches : s.local[b] = {} <=> t.local[b] = {}
           /\ \A b \in Branches : \/ t.local[b] = s.local[b]
                                  \/ \E p \in plan : /\ p.b = b /\ s.local[b] = p.old
                                                     /\ t.local[b] = s.tracking[p.to.r][p.to.b]
<1> DEFINE moved == [b \in Branches |->
            IF \E p \in plan : p.b = b
            THEN LET p == CHOOSE q \in plan : q.b = b IN s.tracking[p.to.r][p.to.b]
            ELSE s.local[b]]
<1>1. /\ \A p \in plan : s.local[p.b] = p.old /\ s.tracking[p.to.r][p.to.b] # {}
      /\ t = [s EXCEPT !.local = moved]
    BY DEF UpdateBranchRefs
<1>2. s \in Refs /\ s.local[s.head] # {} BY DEF Good
<1>3. ASSUME NEW b \in Branches
      PROVE  \/ moved[b] = s.local[b] /\ ~\E p \in plan : p.b = b
             \/ \E p \in plan : p.b = b /\ moved[b] = s.tracking[p.to.r][p.to.b]
  <2>1. CASE \E p \in plan : p.b = b
    <3> DEFINE p == CHOOSE q \in plan : q.b = b
    <3>1. p \in plan /\ p.b = b BY <2>1
    <3>2. moved[b] = s.tracking[p.to.r][p.to.b] BY <2>1
    <3> QED BY <3>1, <3>2
  <2>2. CASE ~\E p \in plan : p.b = b BY <2>2
  <2> QED BY <2>1, <2>2
<1>4. \A b \in Branches : moved[b] \in Tips
  <2> SUFFICES ASSUME NEW b \in Branches PROVE moved[b] \in Tips OBVIOUS
  <2>1. CASE \E p \in plan : p.b = b /\ moved[b] = s.tracking[p.to.r][p.to.b]
    <3>1. PICK p \in plan : moved[b] = s.tracking[p.to.r][p.to.b] BY <2>1
    <3>2. p.to.r \in Remotes /\ p.to.b \in Branches BY RemoteBranchFields DEF PlanOK
    <3>3. s.tracking \in [Remotes -> [Branches -> Tips]] BY <1>2, RefsFields
    <3> HIDE DEF moved
    <3> QED BY <3>1, <3>2, <3>3
  <2>2. CASE moved[b] = s.local[b] BY <2>2, <1>2, RefsFields
  <2> QED BY <1>3, <2>1, <2>2
<1>5. moved \in [Branches -> Tips] BY <1>4
<1> HIDE DEF moved
<1>6. t \in Refs BY <1>1, <1>2, <1>5 DEF Refs
<1>7. /\ t.local = moved /\ t.head = s.head /\ t.tracking = s.tracking
      /\ t.upstream = s.upstream /\ t.url = s.url /\ t.server = s.server
    BY <1>1, <1>2 DEF Refs
<1>8. \A b \in Branches : s.local[b] = {} <=> t.local[b] = {}
    BY <1>1, <1>3, <1>7 DEF PlanOK
<1>9. \A b \in Branches : \/ t.local[b] = s.local[b]
                          \/ \E p \in plan : /\ p.b = b /\ s.local[b] = p.old
                                             /\ t.local[b] = s.tracking[p.to.r][p.to.b]
    BY <1>1, <1>3, <1>7
<1>10. s.head \in Branches BY <1>2, RefsFields
<1> QED BY <1>2, <1>6, <1>7, <1>8, <1>9, <1>10 DEF Good

-----------------------------------------------------------------------------
(* Commands, events and effects: what the kind of a record says of it.     *)

LEMMA CommandFields ==
    ASSUME NEW c \in Command
    PROVE  /\ c.op \in {"FetchRemote", "RemoveRemote", "AddRemote", "EditRemote"} => c.r \in Remotes
           /\ c.op \in {"AddRemote", "EditRemote"} => c.u \in Urls
           /\ c.op = "AddRemote" => c.b \in Branches \union {None}
           /\ c.op = "EditRemote" => c.n \in Remotes
           /\ c.op = "RenameBranch" => c.n \in Branches
           /\ c.op \in {"CheckoutBranch", "CreateBranch", "CreateBranchFromRef", "RenameBranch",
                        "DeleteBranch", "SetBranchUpstream", "UnsetBranchUpstream",
                        "MergeRefIntoCurrent"} => c.b \in Branches
           /\ c.op \in {"DeleteRemoteBranch", "CheckoutRemoteBranch", "CreateBranchFromRef",
                        "SetBranchUpstream", "FastForward"} => c.from \in RemoteBranches
           /\ c.op = "CreateBranchFromRef" => c.track \in BOOLEAN
    BY DEF Command

LEMMA CommandOps ==
    ASSUME NEW c \in Command
    PROVE  c.op \in {"FetchSelectedRepo", "PullCurrentBranch", "PushCurrentBranch",
                     "FetchRemote", "RemoveRemote", "AddRemote", "EditRemote",
                     "CheckoutBranch", "CreateBranch", "CreateBranchFromRef", "RenameBranch",
                     "DeleteBranch", "SetBranchUpstream", "UnsetBranchUpstream",
                     "MergeRefIntoCurrent", "DeleteRemoteBranch", "CheckoutRemoteBranch",
                     "FastForward"}
    BY DEF Command

LEMMA CommandForms ==
    /\ \A o \in {"FetchSelectedRepo", "PullCurrentBranch", "PushCurrentBranch"} :
        [op |-> o] \in Command
    /\ \A o \in {"FetchRemote", "RemoveRemote"}, r \in Remotes : [op |-> o, r |-> r] \in Command
    /\ \A o \in {"UnsetBranchUpstream", "MergeRefIntoCurrent", "DeleteBranch"}, b \in Branches :
        [op |-> o, b |-> b] \in Command
    /\ \A o \in {"DeleteRemoteBranch", "FastForward"}, rb \in RemoteBranches :
        [op |-> o, from |-> rb] \in Command
    /\ \A b \in Branches, rb \in RemoteBranches, t \in BOOLEAN :
        [op |-> "CreateBranchFromRef", b |-> b, from |-> rb, track |-> t] \in Command
    BY DEF Command

LEMMA EventFields ==
    ASSUME NEW e \in Event
    PROVE  /\ e.ev = "RepoDetailLoaded" => e.detail \in RepoDetail
           /\ e.ev = "BranchMergeCheckCompleted" => e.b \in Branches /\ e.merged \in BOOLEAN
    BY DEF Event

LEMMA EffectFields ==
    ASSUME NEW f \in Effect
    PROVE  /\ f.do \in {"LoadRepoDetail", "RunGitCommand", "CheckBranchMerged"}
           /\ f.do = "RunGitCommand" => f.c \in Command
           /\ f.do = "CheckBranchMerged" => f.b \in Branches
    BY DEF Effect

LEMMA EffectForms ==
    /\ Load \in Effect /\ Load.do = "LoadRepoDetail"
    /\ \A c \in Command : Git(c) \in Effect /\ Git(c).do = "RunGitCommand" /\ Git(c).c = c
    /\ \A b \in Branches : /\ CheckMerged(b) \in Effect
                           /\ CheckMerged(b).do = "CheckBranchMerged" /\ CheckMerged(b).b = b
    BY DEF Effect, Load, Git, CheckMerged

\* A command reports one of the summaries the reducer tells apart.
LEMMA CompletedEvent ==
    ASSUME NEW c \in Command
    PROVE  Completed(c) \in Event /\ Completed(c).ev = "GitOperationCompleted"
<1>1. c.op \in {"AddRemote", "FetchRemote"} => c.r \in Remotes BY CommandFields
<1>2. Summary(c) \in ({"Added remote", "Fetched"} \X Remotes)
                     \union {<<"Created tracking">>, <<"Done">>}
    BY <1>1 DEF Summary
<1> QED BY <1>2 DEF Completed, Event

LEMMA FailedEvent == Failed \in Event /\ Failed.ev = "GitOperationFailed"
    BY DEF Failed, Event

\* The screen shows what the repository has.
LEMMA DetailType ==
    ASSUME NEW s \in Refs
    PROVE  Detail(s) \in RepoDetail
    BY RefsFields DEF Detail, RepoDetail

\* What the screen offers are commands.
LEMMA OfferedCommands ==
    ASSUME NEW d \in RepoDetail
    PROVE  Confirmations(d) \subseteq Command /\ Prompts(d) \subseteq Command
           /\ Requests(d) \subseteq Command
<1> DEFINE Offered(S) == \A c \in S : c \in Command
<1>1. /\ d.head \in Branches /\ d.branches \subseteq Branches /\ d.remotes \subseteq Remotes
      /\ d.remoteBranches \subseteq RemoteBranches
      /\ d.upstream \in [Branches -> RemoteBranches \union {None}]
    BY DEF RepoDetail
<1>2. Confirmations(d) \subseteq Command
    BY <1>1, CommandForms DEF Confirmations
<1>3. Prompts(d) \subseteq Command
  <2>1. [op : {"AddRemote"}, r : Remotes, u : Urls, b : Branches \union {None}]
          \subseteq Command BY DEF Command
  <2>2. [op : {"EditRemote"}, r : d.remotes, n : Remotes, u : Urls] \subseteq Command
      BY <1>1 DEF Command
  <2>3. \A b \in Branches, rb \in d.remoteBranches :
          [op |-> "CreateBranchFromRef", b |-> b, from |-> rb, track |-> b = rb.b] \in Command
      BY <1>1, CommandForms, Zenon
  <2>4. [op : {"CreateBranch"}, b : Branches] \subseteq Command BY DEF Command
  <2>5. [op : {"RenameBranch"}, b : d.branches, n : Branches] \subseteq Command
      BY <1>1 DEF Command
  <2>6. [op : {"SetBranchUpstream"}, b : d.branches, from : d.remoteBranches] \subseteq Command
      BY <1>1 DEF Command
  <2> QED BY <2>1, <2>2, <2>3, <2>4, <2>5, <2>6 DEF Prompts
<1>4. Requests(d) \subseteq Command
  <2>1. [op : {"CheckoutBranch"}, b : d.branches] \subseteq Command BY <1>1 DEF Command
  <2>2. [op : {"CheckoutRemoteBranch"}, from : d.remoteBranches] \subseteq Command
      BY <1>1 DEF Command
  <2>3. [op : {"SetBranchUpstream"}, b : {d.head},
         from : d.remoteBranches \ {d.upstream[d.head]}] \subseteq Command
      BY <1>1 DEF Command
  <2> QED BY <2>1, <2>2, <2>3 DEF Requests
<1> QED BY <1>2, <1>3, <1>4

-----------------------------------------------------------------------------
(* The inductive invariant.                                                *)

SingleOps ==
    {"PushCurrentBranch", "RemoveRemote", "AddRemote", "CheckoutBranch", "CreateBranch",
     "CreateBranchFromRef", "RenameBranch", "DeleteBranch", "SetBranchUpstream",
     "UnsetBranchUpstream", "MergeRefIntoCurrent", "DeleteRemoteBranch",
     "CheckoutRemoteBranch", "FastForward"}

\* What is left of a job is the end of its processes, and the plan is what the
\* process before the last found out.
JobShape ==
    job # None =>
        /\ job = [c |-> job.c, left |-> job.left, plan |-> job.plan]
        /\ \/ /\ job.c.op \in {"FetchRemote", "FetchSelectedRepo"}
              /\ job.left \in {<<"fetch", "collect", "update">>, <<"collect", "update">>,
                               <<"update">>}
           \/ /\ job.c.op = "PullCurrentBranch"
              /\ job.left \in {<<"fetch", "merge">>, <<"merge">>}
           \/ /\ job.c.op = "EditRemote"
              /\ job.left \in {<<"rename", "set-url">>, <<"set-url">>}
           \/ /\ job.c.op \in SingleOps
              /\ job.left = <<"all">>
        /\ job.left = <<"update">> => PlanOK(job.plan)
        /\ job.left = <<"merge">> => job.plan \subseteq RemoteBranches

\* What run() has still to do: one thing at a time, but for the command that
\* makes the branch, which the repository is read along with. Until then the
\* flow is waited for alone.
Running == IF job = None THEN 0 ELSE 1

LittleToDo ==
    Len(queue) + Len(effects) + Running
        <= IF flow # None /\ flow.stage # "branch" THEN 1 ELSE 2

CheckEvents == {"BranchMergeCheckCompleted", "BranchMergeCheckFailed"}

\* A merge check is all there is to do while it goes on.
ChecksAlone ==
    /\ \A i \in 1..Len(effects) : effects[i].do = "CheckBranchMerged" =>
        Len(effects) = 1 /\ queue = <<>> /\ job = None
    /\ \A i \in 1..Len(queue) : queue[i].ev \in CheckEvents =>
        Len(queue) = 1 /\ effects = <<>> /\ job = None

AsksWhenIdle == modal # None => Idle

IInv == TypeOK /\ JobShape /\ LittleToDo /\ ChecksAlone /\ AsksWhenIdle

\* What one process may do to the servers: it deletes the branch it was asked
\* to delete, and else only adds.
KeepsServers(s, t, c) ==
    \A u \in Urls, b \in Branches :
        \/ s.server[u][b] \subseteq t.server[u][b]
        \/ c.op = "DeleteRemoteBranch" /\ c.from.b = b

LEMMA SameServers ==
    ASSUME NEW s, NEW t, NEW c, t.server = s.server PROVE KeepsServers(s, t, c)
    BY DEF KeepsServers

LEMMA SingleProcessGood ==
    ASSUME NEW s, Good(s), NEW c \in Command, c.op \in SingleOps, NEW t \in SingleProcess(s, c)
    PROVE  Good(t) /\ KeepsServers(s, t, c)
<1> USE CommandFields
<1>1. CASE c.op = "AddRemote"
    BY <1>1, AddRemoteGood, SameServers DEF SingleProcess
<1>2. CASE c.op = "RemoveRemote"
    BY <1>2, RemoveRemoteGood, SameServers DEF SingleProcess
<1>3. CASE c.op = "DeleteRemoteBranch"
  <2>1. /\ Good(t)
        /\ \A u \in Urls, b \in Branches \ {c.from.b} : t.server[u][b] = s.server[u][b]
      BY <1>3, DeleteRemoteBranchGood DEF SingleProcess
  <2> QED BY <1>3, <2>1 DEF KeepsServers
<1>4. CASE c.op = "PushCurrentBranch"
    BY <1>4, PushGood DEF SingleProcess, KeepsServers
<1>5. CASE c.op = "CheckoutBranch"
    BY <1>5, CheckoutBranchGood, SameServers DEF SingleProcess
<1>6. CASE c.op = "CheckoutRemoteBranch"
    BY <1>6, CheckoutRemoteBranchGood, SameServers DEF SingleProcess
<1>7. CASE c.op = "CreateBranch"
    BY <1>7, CreateBranchGood, SameServers DEF SingleProcess
<1>8. CASE c.op = "CreateBranchFromRef"
    BY <1>8, CreateBranchFromRefGood, SameServers DEF SingleProcess
<1>9. CASE c.op = "RenameBranch"
    BY <1>9, RenameBranchGood, SameServers DEF SingleProcess
<1>10. CASE c.op = "DeleteBranch"
    BY <1>10, DeleteBranchGood, SameServers DEF SingleProcess
<1>11. CASE c.op = "SetBranchUpstream"
    BY <1>11, SetBranchUpstreamGood, SameServers DEF SingleProcess
<1>12. CASE c.op = "UnsetBranchUpstream"
    BY <1>12, UnsetBranchUpstreamGood, SameServers DEF SingleProcess
<1>13. CASE c.op = "FastForward"
    BY <1>13, FastForwardGood, SameServers DEF SingleProcess
<1>14. CASE c.op = "MergeRefIntoCurrent"
    BY <1>14, MergeRefGood, SameServers DEF SingleProcess
<1> QED BY <1>1, <1>2, <1>3, <1>4, <1>5, <1>6, <1>7, <1>8, <1>9, <1>10, <1>11, <1>12,
           <1>13, <1>14 DEF SingleOps

\* The remotes a fetch asks are remotes.
LEMMA FetchFromType ==
    ASSUME NEW s \in Refs, NEW c \in Command,
           c.op \in {"FetchRemote", "FetchSelectedRepo", "PullCurrentBranch"}
    PROVE  FetchFrom(s, c) \subseteq Remotes
<1>1. CASE c.op = "FetchRemote" BY <1>1, CommandFields DEF FetchFrom
<1>2. CASE c.op = "FetchSelectedRepo" BY <1>2, DefaultRemoteType DEF FetchFrom
<1>3. CASE c.op = "PullCurrentBranch"
    BY <1>3, RefsFields, UpstreamTipType, RemoteBranchFields DEF FetchFrom
<1> QED BY <1>1, <1>2, <1>3

LEMMA FetchOfGood ==
    ASSUME NEW s, Good(s), NEW c \in Command,
           c.op \in {"FetchRemote", "FetchSelectedRepo", "PullCurrentBranch"},
           NEW t \in FetchOf(s, c)
    PROVE  /\ Good(t) /\ t.local = s.local /\ t.server = s.server /\ t.head = s.head
           /\ c.op = "PullCurrentBranch" => HasUpstream(s, s.head)
<1>1. s \in Refs BY DEF Good
<1>2. t = s \/ \E r \in FetchFrom(s, c) : t \in Fetch(s, r) BY DEF FetchOf
<1>3. c.op = "PullCurrentBranch" => HasUpstream(s, s.head) BY DEF FetchOf
<1>4. FetchFrom(s, c) \subseteq Remotes BY <1>1, FetchFromType
<1> QED BY <1>2, <1>3, <1>4, FetchGood

LEMMA MergePulledGood ==
    ASSUME NEW s, Good(s), NEW plan \in SUBSET RemoteBranches, NEW t \in MergePulled(s, plan)
    PROVE  Good(t) /\ t.server = s.server /\ Grows(s, t)
<1>1. PICK rb \in plan : t \in FastForward(s, [from |-> rb]) BY DEF MergePulled
<1>2. [from |-> rb].from \in RemoteBranches OBVIOUS
<1> QED BY <1>1, <1>2, FastForwardGood

\* Every process leaves a well-formed repository.
LEMMA OutcomesGood ==
    ASSUME IInv, job # None, NEW t \in Outcomes
    PROVE  Good(t) /\ KeepsServers(repo, t, job.c)
<1>1. Good(repo) /\ job.c \in Command BY DEF IInv, TypeOK, Good
<1>2. CASE /\ job.c.op \in {"FetchRemote", "FetchSelectedRepo"}
           /\ job.left = <<"fetch", "collect", "update">>
  <2>1. t \in FetchOf(repo, job.c) BY <1>2 DEF Outcomes
  <2> QED BY <1>1, <1>2, <2>1, FetchOfGood, SameServers
<1>3. CASE job.left = <<"collect", "update">>
    BY <1>1, <1>3, SameServers DEF Outcomes
<1>4. CASE job.left = <<"update">>
  <2>1. t \in UpdateBranchRefs(repo, job.plan) BY <1>4 DEF Outcomes
  <2>2. PlanOK(job.plan) BY <1>4 DEF IInv, JobShape
  <2> QED BY <1>1, <2>1, <2>2, UpdateBranchRefsGood, SameServers
<1>5. CASE job.c.op = "PullCurrentBranch" /\ job.left = <<"fetch", "merge">>
  <2>1. t \in FetchOf(repo, job.c) BY <1>5 DEF Outcomes
  <2> QED BY <1>1, <1>5, <2>1, FetchOfGood, SameServers
<1>6. CASE job.left = <<"merge">>
  <2>1. t \in MergePulled(repo, job.plan) BY <1>6 DEF Outcomes
  <2>2. job.plan \in SUBSET RemoteBranches BY <1>6 DEF IInv, JobShape
  <2> QED BY <1>1, <2>1, <2>2, MergePulledGood, SameServers
<1>7. CASE job.c.op = "EditRemote" /\ job.left = <<"rename", "set-url">>
  <2>1. t \in RenameRemote(repo, job.c) BY <1>7 DEF Outcomes
  <2> QED BY <1>1, <1>7, <2>1, CommandFields, RenameRemoteGood, SameServers
<1>8. CASE job.c.op = "EditRemote" /\ job.left = <<"set-url">>
  <2>1. t \in SetUrl(repo, job.c) BY <1>8 DEF Outcomes
  <2> QED BY <1>1, <1>8, <2>1, CommandFields, SetUrlGood, SameServers
<1>9. CASE job.c.op \in SingleOps /\ job.left = <<"all">>
  <2>1. t \in SingleProcess(repo, job.c) BY <1>9 DEF Outcomes
  <2> QED BY <1>1, <1>9, <2>1, SingleProcessGood
<1> QED BY <1>2, <1>3, <1>4, <1>5, <1>6, <1>7, <1>8, <1>9 DEF IInv, JobShape

-----------------------------------------------------------------------------
(* Every step keeps the invariant.                                         *)

LEMMA InitInv == Init => IInv
<1> SUFFICES ASSUME Init PROVE IInv OBVIOUS
<1>1. repo \in Refs /\ repo.local[repo.head] # {}
    BY FlowAssumption DEF Init, FlowAssumption
<1>2. detail \in RepoDetail BY <1>1, DetailType DEF Init
<1>3. TypeOK BY <1>1, <1>2, FlowAssumption DEF Init, TypeOK, FlowAssumption
<1> QED BY <1>3 DEF Init, IInv, JobShape, LittleToDo, Running, ChecksAlone, AsksWhenIdle, Idle

\* A user who opens a confirmation or a prompt.
LEMMA AskInv == ASSUME IInv, Ask PROVE IInv'
<1>1. modal' \in Command
    BY OfferedCommands DEF IInv, TypeOK, Ask
<1>2. /\ Idle /\ modal = None /\ goal' = None /\ inputs < MaxInputs /\ inputs' = inputs + 1
      /\ UNCHANGED <<repo, detail, flow, queue, job, outside, faults, effects>>
    BY DEF Ask, Input
<1>3. TypeOK' BY <1>1, <1>2, FlowAssumption DEF IInv, TypeOK, Idle, FlowAssumption
<1> QED BY <1>2, <1>3
        DEF IInv, JobShape, LittleToDo, Running, ChecksAlone, AsksWhenIdle, Idle

\* One effect put down while nothing goes on.
LEMMA OneEffect ==
    ASSUME IInv, Idle, NEW f \in Effect, effects' = <<f>>,
           modal' = None, flow' \in Flow \union {None},
           goal' \in [r : Remotes, b : Branches \union {None}] \union {None},
           inputs' \in 0..MaxInputs,
           UNCHANGED <<repo, detail, queue, job, outside, faults>>
    PROVE  IInv'
<1>1. TypeOK' BY DEF IInv, TypeOK, Idle
<1> QED BY <1>1
        DEF IInv, JobShape, LittleToDo, Running, ChecksAlone, AsksWhenIdle, Idle

LEMMA RequestInv == ASSUME IInv, Request PROVE IInv'
<1>1. PICK c \in Requests(detail) : effects' = <<Git(c)>> BY DEF Request
<1>2. Git(c) \in Effect BY <1>1, OfferedCommands, EffectForms DEF IInv, TypeOK
<1>3. inputs' \in 0..MaxInputs
    BY FlowAssumption DEF Request, Input, IInv, TypeOK, FlowAssumption
<1> QED BY <1>1, <1>2, <1>3, OneEffect DEF Request, Input, IInv, TypeOK

LEMMA DeleteSelectedBranchInv == ASSUME IInv, DeleteSelectedBranch PROVE IInv'
<1>1. PICK b \in detail.branches : effects' = <<CheckMerged(b)>> BY DEF DeleteSelectedBranch
<1>2. CheckMerged(b) \in Effect
    BY <1>1, EffectForms DEF IInv, TypeOK, RepoDetail
<1>3. inputs' \in 0..MaxInputs
    BY FlowAssumption DEF DeleteSelectedBranch, Input, IInv, TypeOK, FlowAssumption
<1> QED BY <1>1, <1>2, <1>3, OneEffect DEF DeleteSelectedBranch, Input, IInv, TypeOK

LEMMA SubmitInv == ASSUME IInv, Submit PROVE IInv'
<1>1. modal \in Command /\ Git(modal) \in Effect
    BY EffectForms DEF Submit, IInv, TypeOK
<1>2. CASE modal.op = "AddRemote"
  <2>1. modal.r \in Remotes /\ modal.b \in Branches \union {None}
      BY <1>1, <1>2, CommandFields
  <2>2. flow' \in Flow BY <1>2, <2>1 DEF Submit, Flow
  <2>3. Goal(modal) \in [r : Remotes, b : Branches \union {None}] BY <2>1 DEF Goal
  <2>4. goal' \in [r : Remotes, b : Branches \union {None}] \union {None}
      BY <1>2, <2>3 DEF Submit
  <2> QED BY <1>1, <2>2, <2>4, OneEffect DEF Submit, IInv, TypeOK, counters
<1>3. CASE modal.op # "AddRemote"
    BY <1>1, <1>3, OneEffect DEF Submit, IInv, TypeOK, counters
<1> QED BY <1>2, <1>3

LEMMA CancelInv == ASSUME IInv, Cancel PROVE IInv'
<1>1. /\ Idle /\ modal' = None
      /\ UNCHANGED <<repo, detail, flow, queue, effects, job, goal, inputs, outside, faults>>
    BY DEF Cancel, run, history, counters
<1>2. TypeOK' BY <1>1 DEF IInv, TypeOK, Idle
<1> QED BY <1>1, <1>2
        DEF IInv, JobShape, LittleToDo, Running, ChecksAlone, AsksWhenIdle, Idle

\* What taking the first element of a sequence leaves.
LEMMA TailOf ==
    ASSUME NEW S, NEW q \in Seq(S), q # <<>>
    PROVE  /\ Head(q) \in S /\ Tail(q) \in Seq(S) /\ Len(Tail(q)) = Len(q) - 1
           /\ Head(q) = q[1] /\ Len(q) \in Nat \ {0}
           /\ \A i \in 1..Len(Tail(q)) : Tail(q)[i] = q[i + 1] /\ i + 1 \in 1..Len(q)
    OBVIOUS

LEMMA AppendTo ==
    ASSUME NEW S, NEW q \in Seq(S), NEW e \in S
    PROVE  /\ Append(q, e) \in Seq(S) /\ Len(Append(q, e)) = Len(q) + 1
           /\ Len(q) \in Nat
           /\ \A i \in 1..Len(q) : Append(q, e)[i] = q[i]
           /\ Append(q, e)[Len(q) + 1] = e
    OBVIOUS

LEMMA ShortSequences ==
    ASSUME NEW S, NEW x \in S, NEW y \in S, NEW z \in S
    PROVE  /\ <<x>> \in Seq(S) /\ <<x, y>> \in Seq(S) /\ <<x, y, z>> \in Seq(S)
           /\ <<x>> # <<>> /\ <<x, y>> # <<>> /\ <<x, y, z>> # <<>>
    OBVIOUS

LEMMA ProcessSequences ==
    ASSUME NEW q \in {<<"fetch", "collect", "update">>, <<"collect", "update">>, <<"update">>,
                      <<"fetch", "merge">>, <<"merge">>, <<"rename", "set-url">>,
                      <<"set-url">>, <<"all">>}
    PROVE  q # <<>> /\ q \in Seq(ProcessNames)
<1>1. /\ "fetch" \in ProcessNames /\ "collect" \in ProcessNames /\ "update" \in ProcessNames
      /\ "merge" \in ProcessNames /\ "rename" \in ProcessNames
      /\ "set-url" \in ProcessNames /\ "all" \in ProcessNames
    BY DEF ProcessNames
<1>2. CASE q = <<"fetch", "collect", "update">> BY <1>1, <1>2, ShortSequences
<1>3. CASE q = <<"collect", "update">> BY <1>1, <1>3, ShortSequences
<1>4. CASE q = <<"update">> BY <1>1, <1>4, ShortSequences
<1>5. CASE q = <<"fetch", "merge">> BY <1>1, <1>5, ShortSequences
<1>6. CASE q = <<"merge">> BY <1>1, <1>6, ShortSequences
<1>7. CASE q = <<"rename", "set-url">> BY <1>1, <1>7, ShortSequences
<1>8. CASE q = <<"set-url">> BY <1>1, <1>8, ShortSequences
<1>9. CASE q = <<"all">> BY <1>1, <1>9, ShortSequences
<1> QED BY <1>2, <1>3, <1>4, <1>5, <1>6, <1>7, <1>8, <1>9

LEMMA StartCommandInv == ASSUME IInv, StartCommand PROVE IInv'
<1> DEFINE c == Head(effects).c
<1>1. /\ job = None /\ effects # <<>> /\ Head(effects).do = "RunGitCommand"
      /\ job' = [c |-> c, left |-> Processes(c), plan |-> {}]
      /\ effects' = Tail(effects)
      /\ UNCHANGED <<repo, detail, flow, modal, queue, goal, inputs, outside, faults>>
    BY DEF StartCommand, history, counters
<1>2. /\ effects \in Seq(Effect) /\ queue \in Seq(Event)
      /\ Len(effects) \in Nat \ {0} /\ Len(queue) \in Nat /\ Len(effects) <= 2
    BY <1>1 DEF IInv, TypeOK
<1>3. Head(effects) \in Effect /\ c \in Command
    BY <1>1, <1>2, TailOf, EffectFields
<1>4. effects' \in Seq(Effect) /\ Len(effects') = Len(effects) - 1
    BY <1>1, <1>2, TailOf
<1>5. modal = None BY <1>1 DEF IInv, AsksWhenIdle, Idle
<1>6. job'.c = c /\ job'.left = Processes(c) /\ job'.plan = {} BY <1>1
<1> HIDE DEF c
<1>7. TypeOK'
  <2>1. Processes(c) \in {<<"fetch", "collect", "update">>, <<"fetch", "merge">>,
                          <<"rename", "set-url">>, <<"all">>}
      BY DEF Processes
  <2>2. /\ Processes(c) # <<>>
        /\ Processes(c) \in Seq(ProcessNames)
      BY <2>1, ProcessSequences
  <2> QED BY <1>1, <1>2, <1>3, <1>4, <1>5, <1>6, <2>2 DEF IInv, TypeOK
<1>8. JobShape'
  <2>1. CASE c.op \in {"FetchRemote", "FetchSelectedRepo"}
    <3>1. Processes(c) = <<"fetch", "collect", "update">> BY <2>1 DEF Processes
    <3> QED BY <1>1, <1>6, <2>1, <3>1 DEF JobShape
  <2>2. CASE c.op = "PullCurrentBranch"
    <3>1. Processes(c) = <<"fetch", "merge">> BY <2>2 DEF Processes
    <3> QED BY <1>1, <1>6, <2>2, <3>1 DEF JobShape
  <2>3. CASE c.op = "EditRemote"
    <3>1. Processes(c) = <<"rename", "set-url">> BY <2>3 DEF Processes
    <3> QED BY <1>1, <1>6, <2>3, <3>1 DEF JobShape
  <2>4. CASE c.op \in SingleOps
    <3>1. Processes(c) = <<"all">> BY <2>4 DEF Processes, SingleOps
    <3> QED BY <1>1, <1>6, <2>4, <3>1 DEF JobShape
  <2> QED BY <1>3, <2>1, <2>2, <2>3, <2>4, CommandOps DEF SingleOps
<1>9. LittleToDo'
    BY <1>1, <1>2, <1>4 DEF IInv, LittleToDo, Running
<1>10. ChecksAlone'
  <2>1. \A i \in 1..Len(queue) : queue[i].ev \notin CheckEvents
      BY <1>1 DEF IInv, ChecksAlone
  <2>2. \A i \in 1..Len(effects') : effects'[i].do # "CheckBranchMerged"
    <3> SUFFICES ASSUME NEW i \in 1..Len(effects') PROVE effects'[i].do # "CheckBranchMerged"
        OBVIOUS
    <3>1. effects'[i] = effects[i + 1] /\ i + 1 \in 1..Len(effects) /\ Len(effects) # 1
        BY <1>1, <1>2, <1>4, TailOf
    <3> QED BY <3>1 DEF IInv, ChecksAlone
  <2> QED BY <1>1, <2>1, <2>2 DEF ChecksAlone
<1>11. AsksWhenIdle' BY <1>1, <1>5 DEF AsksWhenIdle
<1> QED BY <1>7, <1>8, <1>9, <1>10, <1>11 DEF IInv

\* A job that ends, well or not, leaves one event.
LEMMA JobEnds ==
    ASSUME IInv, job # None, job' = None, NEW e \in Event, e.ev \notin CheckEvents,
           queue' = Append(queue, e), Good(repo)', faults' \in 0..MaxFaults,
           UNCHANGED <<detail, flow, modal, effects, goal, inputs, outside>>
    PROVE  IInv'
<1>1. /\ queue \in Seq(Event) /\ effects \in Seq(Effect)
      /\ Len(queue) \in Nat /\ Len(effects) \in Nat
    BY DEF IInv, TypeOK
<1>2. queue' \in Seq(Event) /\ Len(queue') = Len(queue) + 1 BY <1>1, AppendTo
<1>3. Len(queue) + Len(effects) + 1 <= IF flow # None /\ flow.stage # "branch" THEN 1 ELSE 2
    BY DEF IInv, LittleToDo, Running
<1>4. TypeOK' BY <1>1, <1>2, <1>3 DEF IInv, TypeOK, Good
<1>5. LittleToDo' BY <1>1, <1>2, <1>3 DEF LittleToDo, Running
<1>6. ChecksAlone'
  <2>1. \A i \in 1..Len(effects) : effects[i].do # "CheckBranchMerged"
      BY DEF IInv, ChecksAlone
  <2>2. \A i \in 1..Len(queue) : queue[i].ev \notin CheckEvents
      BY DEF IInv, ChecksAlone
  <2>3. ASSUME NEW i \in 1..Len(queue') PROVE queue'[i].ev \notin CheckEvents
    <3>1. CASE i = Len(queue) + 1 BY <1>1, <3>1, AppendTo
    <3>2. CASE i # Len(queue) + 1
      <4>1. i \in 1..Len(queue) BY <1>1, <1>2, <3>2
      <4> QED BY <1>1, <2>2, <4>1, AppendTo
    <3> QED BY <3>1, <3>2
  <2> QED BY <2>1, <2>3 DEF ChecksAlone
<1>7. JobShape' BY DEF JobShape
<1>8. AsksWhenIdle' BY DEF IInv, TypeOK, AsksWhenIdle
<1> QED BY <1>4, <1>5, <1>6, <1>7, <1>8 DEF IInv

\* What the next process is to know is a plan it can carry out.
LEMMA PlanType ==
    ASSUME IInv, job # None, Outcomes # {}
    PROVE  /\ job.left = <<"collect", "update">> => PlanOK(Plan)
           /\ job.left = <<"fetch", "merge">> => Plan \subseteq RemoteBranches
<1>1. Good(repo) /\ repo \in Refs /\ repo.head \in Branches /\ job.c \in Command
    BY RefsFields DEF IInv, TypeOK, Good
<1>2. ASSUME job.left = <<"collect", "update">> PROVE PlanOK(Plan)
  <2>1. Head(job.left) = "collect" BY <1>2
  <2>2. job.c.op # "PullCurrentBranch" BY <1>2 DEF IInv, JobShape
  <2>3. Plan = AutoForwards(repo) BY <2>1, <2>2 DEF Plan
  <2> QED BY <1>1, <2>3, AutoForwardsOK
<1>3. ASSUME job.left = <<"fetch", "merge">> PROVE Plan \subseteq RemoteBranches
  <2>1. job.c.op = "PullCurrentBranch" BY <1>3 DEF IInv, JobShape
  <2>2. HasUpstream(repo, repo.head) BY <1>3, <2>1 DEF Outcomes, FetchOf
  <2>3. Plan = {repo.upstream[repo.head]} BY <1>3, <2>1 DEF Plan
  <2> QED BY <1>1, <2>2, <2>3, UpstreamTipType
<1> QED BY <1>2, <1>3

LEMMA ProcessInv == ASSUME IInv, Process PROVE IInv'
<1>1. /\ job # None /\ repo' \in Outcomes
      /\ UNCHANGED <<detail, flow, modal, effects, goal, inputs, outside, faults>>
    BY DEF Process, history, counters
<1>2. Good(repo)' BY <1>1, OutcomesGood DEF Good
<1>3. job.c \in Command BY <1>1 DEF IInv, TypeOK
<1>4. CASE Len(job.left) = 1
  <2>1. job' = None /\ queue' = Append(queue, Completed(job.c)) BY <1>4 DEF Process
  <2>2. Completed(job.c) \in Event /\ Completed(job.c).ev \notin CheckEvents
      BY <1>3, CompletedEvent DEF CheckEvents
  <2>3. faults' \in 0..MaxFaults BY <1>1 DEF IInv, TypeOK
  <2> QED BY <1>1, <1>2, <2>1, <2>2, <2>3, JobEnds
<1>5. CASE Len(job.left) # 1
  <2>1. /\ job' = [job EXCEPT !.left = Tail(@), !.plan = Plan] /\ UNCHANGED queue
      BY <1>5 DEF Process
  <2>2. job = [c |-> job.c, left |-> job.left, plan |-> job.plan]
      BY <1>1 DEF IInv, JobShape
  <2>3. job' = [c |-> job.c, left |-> Tail(job.left), plan |-> Plan] BY <2>1, <2>2
  <2>4. job'.c = job.c /\ job'.left = Tail(job.left) /\ job'.plan = Plan BY <2>3
  <2>5. job.left \in {<<"fetch", "collect", "update">>, <<"collect", "update">>,
                      <<"fetch", "merge">>, <<"rename", "set-url">>}
      BY <1>1, <1>5 DEF IInv, JobShape
  <2>6. Tail(job.left) \in {<<"collect", "update">>, <<"update">>, <<"merge">>, <<"set-url">>}
    <3>1. CASE job.left = <<"fetch", "collect", "update">>
      <4>1. Tail(job.left) = <<"collect", "update">> BY <3>1
      <4> QED BY <4>1
    <3>2. CASE job.left = <<"collect", "update">>
      <4>1. Tail(job.left) = <<"update">> BY <3>2
      <4> QED BY <4>1
    <3>3. CASE job.left = <<"fetch", "merge">>
      <4>1. Tail(job.left) = <<"merge">> BY <3>3
      <4> QED BY <4>1
    <3>4. CASE job.left = <<"rename", "set-url">>
      <4>1. Tail(job.left) = <<"set-url">> BY <3>4
      <4> QED BY <4>1
    <3> QED BY <2>5, <3>1, <3>2, <3>3, <3>4
  <2>7. modal = None BY <1>1 DEF IInv, TypeOK
  <2>8. JobShape'
    <3>1. CASE job.left = <<"fetch", "collect", "update">>
      <4>1. job.c.op \in {"FetchRemote", "FetchSelectedRepo"}
            /\ Tail(job.left) = <<"collect", "update">>
          BY <1>1, <3>1 DEF IInv, JobShape
      <4> QED BY <2>3, <2>4, <4>1 DEF JobShape
    <3>2. CASE job.left = <<"collect", "update">>
      <4>1. /\ job.c.op \in {"FetchRemote", "FetchSelectedRepo"}
            /\ Tail(job.left) = <<"update">> /\ PlanOK(Plan)
          BY <1>1, <3>2, PlanType DEF IInv, JobShape
      <4> QED BY <2>3, <2>4, <4>1 DEF JobShape
    <3>3. CASE job.left = <<"fetch", "merge">>
      <4>1. /\ job.c.op = "PullCurrentBranch"
            /\ Tail(job.left) = <<"merge">> /\ Plan \subseteq RemoteBranches
          BY <1>1, <3>3, PlanType DEF IInv, JobShape
      <4> QED BY <2>3, <2>4, <4>1 DEF JobShape
    <3>4. CASE job.left = <<"rename", "set-url">>
      <4>1. job.c.op = "EditRemote" /\ Tail(job.left) = <<"set-url">>
          BY <1>1, <3>4 DEF IInv, JobShape
      <4> QED BY <2>3, <2>4, <4>1 DEF JobShape
    <3> QED BY <2>5, <3>1, <3>2, <3>3, <3>4
  <2>9. TypeOK'
    <3>1. /\ Tail(job.left) # <<>>
          /\ Tail(job.left) \in Seq(ProcessNames)
        BY <2>6, ProcessSequences
    <3> QED BY <1>1, <1>2, <1>3, <2>1, <2>4, <2>7, <3>1 DEF IInv, TypeOK, Good
  <2>10. LittleToDo'
    <3>1. Running' <= Running BY <1>1 DEF Running
    <3>2. Running \in Nat /\ Running' \in Nat /\ Len(queue) \in Nat /\ Len(effects) \in Nat
        BY DEF Running, IInv, TypeOK
    <3> QED BY <1>1, <2>1, <3>1, <3>2 DEF IInv, LittleToDo
  <2>11. ChecksAlone' BY <1>1, <2>1 DEF IInv, ChecksAlone
  <2>12. AsksWhenIdle' BY <1>1, <2>7 DEF AsksWhenIdle
  <2> QED BY <2>8, <2>9, <2>10, <2>11, <2>12 DEF IInv
<1> QED BY <1>4, <1>5

\* A command that fails has changed nothing.
LEMMA CommandFailsInv ==
    ASSUME IInv, job # None, CommandFails, faults' \in 0..MaxFaults
    PROVE  IInv'
<1>1. Good(repo)' BY DEF IInv, TypeOK, Good, CommandFails
<1>2. Failed \in Event /\ Failed.ev \notin CheckEvents BY FailedEvent DEF CheckEvents
<1> QED BY <1>1, <1>2, JobEnds DEF CommandFails

LEMMA GitRefusesInv == ASSUME IInv, GitRefuses PROVE IInv'
    BY CommandFailsInv DEF GitRefuses, IInv, TypeOK

LEMMA ProcessFailsInv == ASSUME IInv, ProcessFails PROVE IInv'
<1>1. faults' \in 0..MaxFaults
    BY FlowAssumption DEF ProcessFails, IInv, TypeOK, FlowAssumption
<1> QED BY <1>1, CommandFailsInv DEF ProcessFails

\* An effect that is applied is gone, and may leave an event; a merge check
\* leaves the result of one.
LEMMA EffectApplied ==
    ASSUME IInv, job = None, effects # <<>>, effects' = Tail(effects),
           \/ queue' = queue
           \/ \E e \in Event :
                /\ queue' = Append(queue, e)
                /\ e.ev \in CheckEvents => Head(effects).do = "CheckBranchMerged",
           faults' \in 0..MaxFaults,
           UNCHANGED <<repo, detail, flow, modal, job, goal, inputs, outside>>
    PROVE  IInv'
<1>1. /\ effects \in Seq(Effect) /\ queue \in Seq(Event)
      /\ Len(effects) \in Nat \ {0} /\ Len(queue) \in Nat /\ Len(effects) <= 2
    BY DEF IInv, TypeOK
<1>2. /\ effects' \in Seq(Effect) /\ Len(effects') = Len(effects) - 1
      /\ \A i \in 1..Len(effects') : effects'[i] = effects[i + 1] /\ i + 1 \in 1..Len(effects)
    BY <1>1, TailOf
<1>3. /\ queue' \in Seq(Event) /\ Len(queue') \in Nat
      /\ Len(queue') + Len(effects') <= Len(queue) + Len(effects)
    BY <1>1, <1>2, AppendTo
<1>4. Len(queue) + Len(effects) <= IF flow # None /\ flow.stage # "branch" THEN 1 ELSE 2
    BY <1>1 DEF IInv, LittleToDo, Running
<1>5. modal = None BY DEF IInv, AsksWhenIdle, Idle
<1>6. TypeOK' BY <1>1, <1>2, <1>3, <1>4, <1>5 DEF IInv, TypeOK
<1>7. LittleToDo' BY <1>2, <1>3, <1>4 DEF LittleToDo, Running
<1>8. ChecksAlone'
  <2>1. \A i \in 1..Len(queue) : queue[i].ev \notin CheckEvents BY DEF IInv, ChecksAlone
  <2>2. \A i \in 1..Len(effects') : effects'[i].do # "CheckBranchMerged"
    <3> SUFFICES ASSUME NEW i \in 1..Len(effects') PROVE effects'[i].do # "CheckBranchMerged"
        OBVIOUS
    <3>1. effects'[i] = effects[i + 1] /\ i + 1 \in 1..Len(effects) /\ Len(effects) # 1
        BY <1>1, <1>2
    <3> QED BY <3>1 DEF IInv, ChecksAlone
  <2>3. ASSUME NEW i \in 1..Len(queue'), queue'[i].ev \in CheckEvents
        PROVE  Len(queue') = 1 /\ effects' = <<>> /\ job' = None
    <3>1. PICK e \in Event : /\ queue' = Append(queue, e)
                             /\ e.ev \in CheckEvents => Head(effects).do = "CheckBranchMerged"
        BY <2>1, <2>3
    <3>2. i = Len(queue) + 1 /\ queue'[i] = e
      <4>1. CASE i = Len(queue) + 1 BY <1>1, <3>1, <4>1, AppendTo
      <4>2. CASE i # Len(queue) + 1
        <5>1. i \in 1..Len(queue) BY <1>1, <3>1, <4>2, AppendTo
        <5> QED BY <1>1, <2>1, <2>3, <3>1, <5>1, AppendTo
      <4> QED BY <4>1, <4>2
    <3>3. effects[1].do = "CheckBranchMerged" /\ 1 \in 1..Len(effects)
        BY <1>1, <2>3, <3>1, <3>2, TailOf
    <3>4. Len(effects) = 1 /\ queue = <<>> BY <3>3 DEF IInv, ChecksAlone
    <3>5. effects' = <<>> BY <1>1, <1>2, <3>4
    <3> QED BY <1>1, <3>1, <3>4, <3>5, AppendTo
  <2> QED BY <2>2, <2>3 DEF ChecksAlone
<1>9. JobShape' /\ AsksWhenIdle' BY <1>5 DEF JobShape, AsksWhenIdle
<1> QED BY <1>6, <1>7, <1>8, <1>9 DEF IInv

LEMMA LoadRepoDetailInv == ASSUME IInv, LoadRepoDetail PROVE IInv'
<1> DEFINE e == [ev |-> "RepoDetailLoaded", detail |-> Detail(repo)]
<1>1. e \in Event /\ e.ev \notin CheckEvents
    BY DetailType DEF IInv, TypeOK, Event, CheckEvents
<1>2. queue' = Append(queue, e) BY DEF LoadRepoDetail
<1> HIDE DEF e
<1>3. faults' \in 0..MaxFaults BY DEF LoadRepoDetail, IInv, TypeOK
<1>4. /\ job = None /\ effects # <<>> /\ effects' = Tail(effects)
      /\ UNCHANGED <<repo, detail, flow, modal, job, goal, inputs, outside>>
    BY DEF LoadRepoDetail, Apply
<1> QED BY <1>1, <1>2, <1>3, <1>4, EffectApplied

LEMMA LoadRepoDetailFailsInv == ASSUME IInv, LoadRepoDetailFails PROVE IInv'
<1>1. faults' \in 0..MaxFaults
    BY FlowAssumption DEF LoadRepoDetailFails, IInv, TypeOK, FlowAssumption
<1>2. /\ job = None /\ effects # <<>> /\ effects' = Tail(effects) /\ queue' = queue
      /\ UNCHANGED <<repo, detail, flow, modal, job, goal, inputs, outside>>
    BY DEF LoadRepoDetailFails, Apply
<1> QED BY <1>1, <1>2, EffectApplied

LEMMA CheckBranchMergedInv == ASSUME IInv, CheckBranchMerged PROVE IInv'
<1> DEFINE b == Head(effects).b
           e == [ev |-> IF ~Exists(repo, b) THEN "BranchMergeCheckFailed"
                        ELSE "BranchMergeCheckCompleted",
                 b |-> b, merged |-> IsMerged(repo, b)]
<1>1. /\ job = None /\ effects # <<>> /\ effects' = Tail(effects)
      /\ Head(effects).do = "CheckBranchMerged"
      /\ UNCHANGED <<repo, detail, flow, modal, job, goal, inputs, outside, faults>>
    BY DEF CheckBranchMerged, Apply
<1>2. b \in Branches
    BY <1>1, TailOf, EffectFields DEF IInv, TypeOK
<1>3. IsMerged(repo, b) \in BOOLEAN BY DEF IsMerged
<1>4. e \in Event BY <1>2, <1>3 DEF Event
<1>5. queue' = Append(queue, e) BY DEF CheckBranchMerged
<1> HIDE DEF e
<1>6. faults' \in 0..MaxFaults BY <1>1 DEF IInv, TypeOK
<1> QED BY <1>1, <1>4, <1>5, <1>6, EffectApplied

\* An event that is reduced is gone; what it calls for is little, and no merge
\* check.
LEMMA EventReduced ==
    ASSUME IInv, job = None, effects = <<>>, queue # <<>>, queue' = Tail(queue),
           effects' \in Seq(Effect), Len(effects') <= 2,
           \A i \in 1..Len(effects') : effects'[i].do # "CheckBranchMerged",
           detail' \in RepoDetail, flow' \in Flow \union {None},
           Len(queue') + Len(effects')
                <= IF flow' # None /\ flow'.stage # "branch" THEN 1 ELSE 2,
           \/ modal' = modal
           \/ modal' \in Command /\ queue' = <<>> /\ effects' = <<>>,
           UNCHANGED <<repo, job, goal, inputs, outside, faults>>
    PROVE  IInv'
<1>1. queue \in Seq(Event) /\ Len(queue) \in Nat \ {0} /\ Len(queue) <= 2
    BY DEF IInv, TypeOK
<1>2. /\ queue' \in Seq(Event) /\ Len(queue') = Len(queue) - 1
      /\ \A i \in 1..Len(queue') : queue'[i] = queue[i + 1] /\ i + 1 \in 1..Len(queue)
    BY <1>1, TailOf
<1>3. modal = None BY DEF IInv, AsksWhenIdle, Idle
<1>4. TypeOK' BY <1>1, <1>2, <1>3 DEF IInv, TypeOK
<1>5. ChecksAlone'
  <2>1. \A i \in 1..Len(queue') : queue'[i].ev \notin CheckEvents
    <3> SUFFICES ASSUME NEW i \in 1..Len(queue') PROVE queue'[i].ev \notin CheckEvents OBVIOUS
    <3>1. queue'[i] = queue[i + 1] /\ i + 1 \in 1..Len(queue) /\ Len(queue) # 1
        BY <1>1, <1>2
    <3> QED BY <3>1 DEF IInv, ChecksAlone
  <2> QED BY <2>1 DEF ChecksAlone
<1>6. LittleToDo'
  <2>1. Len(queue') \in Nat /\ Len(effects') \in Nat BY <1>2
  <2> QED BY <2>1 DEF LittleToDo, Running
<1>7. JobShape' /\ AsksWhenIdle' BY <1>3 DEF JobShape, AsksWhenIdle, Idle
<1> QED BY <1>4, <1>5, <1>6, <1>7 DEF IInv

\* What is in every reducer step.
LEMMA ReduceFacts ==
    ASSUME IInv, NEW event, Reduce(event)
    PROVE  /\ job = None /\ effects = <<>> /\ queue # <<>> /\ queue' = Tail(queue)
           /\ Head(queue) \in Event /\ Head(queue).ev = event
           /\ Len(queue') \in Nat /\ Len(queue') + 1 = Len(queue)
           /\ Len(queue) <= IF flow # None /\ flow.stage # "branch" THEN 1 ELSE 2
           /\ flow # None /\ flow.stage # "branch" => Len(queue') = 0
           /\ Len(queue') <= 1
           /\ event \in CheckEvents => queue' = <<>>
           /\ UNCHANGED <<repo, job, goal, inputs, outside, faults>>
<1>1. /\ job = None /\ effects = <<>> /\ queue # <<>> /\ queue' = Tail(queue)
      /\ Head(queue).ev = event
      /\ UNCHANGED <<repo, job, goal, inputs, outside, faults>>
    BY DEF Reduce, history, counters
<1>2. queue \in Seq(Event) BY DEF IInv, TypeOK
<1>3. /\ Head(queue) \in Event /\ Head(queue) = queue[1] /\ Len(queue) \in Nat \ {0}
      /\ Len(queue') = Len(queue) - 1 /\ queue' \in Seq(Event)
    BY <1>1, <1>2, TailOf
<1>4. Len(queue) <= IF flow # None /\ flow.stage # "branch" THEN 1 ELSE 2
    BY <1>1, <1>3 DEF IInv, LittleToDo, Running
<1>5. ASSUME event \in CheckEvents PROVE queue' = <<>>
  <2>1. 1 \in 1..Len(queue) /\ queue[1].ev \in CheckEvents BY <1>1, <1>3, <1>5
  <2>2. Len(queue) = 1 BY <2>1 DEF IInv, ChecksAlone
  <2> QED BY <1>3, <2>2
<1>6. /\ flow # None /\ flow.stage # "branch" => Len(queue') = 0
      /\ Len(queue') <= 1
    BY <1>3, <1>4
<1> QED BY <1>1, <1>3, <1>4, <1>5, <1>6

\* The command that ends the flow of an added remote.
Track(r, b) ==
    [op |-> "CreateBranchFromRef", b |-> b, from |-> [r |-> r, b |-> b], track |-> TRUE]

\* The ways the flow may go on.
LEMMA ContinueFlowCases ==
    ASSUME NEW summary, NEW next, next = ContinueFlow(summary)
    PROVE  \/ /\ next.flow = flow /\ next.more = <<>>
              /\ ~(flow # None /\ flow.stage = "add" /\ summary = <<"Added remote", flow.r>>)
              /\ ~(flow # None /\ flow.stage = "fetch" /\ summary = <<"Fetched", flow.r>>)
              /\ ~(flow # None /\ flow.stage = "branch" /\ summary = <<"Created tracking">>)
           \/ /\ flow # None /\ flow.stage = "add" /\ summary = <<"Added remote", flow.r>>
              /\ next.flow = [flow EXCEPT !.stage = "fetch"] /\ next.more = <<>>
           \/ /\ flow # None /\ flow.stage = "fetch" /\ flow.b = None
              /\ next.flow = None /\ next.more = <<>>
           \/ /\ flow # None /\ flow.stage = "fetch" /\ flow.b # None
              /\ next.flow = [flow EXCEPT !.stage = "branch"]
              /\ next.more = <<Git(Track(flow.r, flow.b))>>
           \/ /\ flow # None /\ flow.stage = "branch" /\ next.flow = None /\ next.more = <<>>
<1> DEFINE Add == flow # None /\ flow.stage = "add" /\ summary = <<"Added remote", flow.r>>
           Fetched == flow # None /\ flow.stage = "fetch" /\ summary = <<"Fetched", flow.r>>
           Tracks == flow # None /\ flow.stage = "branch" /\ summary = <<"Created tracking">>
<1> HIDE DEF Add, Fetched, Tracks
<1>f. ASSUME NEW x, NEW y, next = [flow |-> x, more |-> y]
      PROVE  next.flow = x /\ next.more = y
    BY <1>f
<1>1. CASE Add
  <2>1. next = [flow |-> [flow EXCEPT !.stage = "fetch"], more |-> <<>>]
      BY <1>1 DEF ContinueFlow, Add
  <2>2. next.flow = [flow EXCEPT !.stage = "fetch"] /\ next.more = <<>> BY <2>1, <1>f
  <2> QED BY <1>1, <2>2, Zenon DEF Add
<1>2. CASE Fetched
  <2>1. CASE flow.b = None
    <3>1. next = [flow |-> None, more |-> <<>>] BY <1>2, <2>1 DEF ContinueFlow, Fetched
    <3>2. next.flow = None /\ next.more = <<>> BY <3>1, <1>f
    <3> QED BY <1>2, <2>1, <3>2, Zenon DEF Fetched
  <2>2. CASE flow.b # None
    <3>1. next = [flow |-> [flow EXCEPT !.stage = "branch"],
                  more |-> <<Git(Track(flow.r, flow.b))>>]
        BY <1>2, <2>2 DEF ContinueFlow, Track, Fetched
    <3>2. /\ next.flow = [flow EXCEPT !.stage = "branch"]
          /\ next.more = <<Git(Track(flow.r, flow.b))>>
        BY <3>1, <1>f
    <3> QED BY <1>2, <2>2, <3>2, Zenon DEF Fetched
  <2> QED BY <2>1, <2>2
<1>3. CASE Tracks
  <2>1. next = [flow |-> None, more |-> <<>>] BY <1>3 DEF ContinueFlow, Tracks
  <2>2. next.flow = None /\ next.more = <<>> BY <2>1, <1>f
  <2> QED BY <1>3, <2>2, Zenon DEF Tracks
<1>4. CASE ~Add /\ ~Fetched /\ ~Tracks
  <2>1. next = [flow |-> flow, more |-> <<>>] BY <1>4 DEF ContinueFlow, Add, Fetched, Tracks
  <2>2. next.flow = flow /\ next.more = <<>> BY <2>1, <1>f
  <2> QED BY <1>4, <2>2, Zenon DEF Add, Fetched, Tracks
<1> QED BY <1>1, <1>2, <1>3, <1>4, Zenon

LEMMA FlowForms ==
    ASSUME NEW f \in Flow
    PROVE  /\ f.r \in Remotes /\ f.b \in Branches \union {None}
           /\ f.stage \in {"add", "fetch", "branch"}
           /\ \A st \in {"fetch", "branch"} :
                [f EXCEPT !.stage = st] \in Flow /\ [f EXCEPT !.stage = st].stage = st
    BY DEF Flow

\* Something appended to a sequence of one.
LEMMA AppendToOne ==
    ASSUME NEW S, NEW q \in Seq(S), Len(q) = 1, NEW y \in S
    PROVE  /\ Append(q, y) \in Seq(S) /\ Len(Append(q, y)) = 2
           /\ Append(q, y)[1] = q[1] /\ Append(q, y)[2] = y
<1>1. Append(q, y)[Len(q) + 1] = y BY AppendProperties
<1>2. Len(q) + 1 = 2 OBVIOUS
<1>3. Append(q, y)[2] = y BY <1>1, <1>2, Zenon
<1>4. Append(q, y) \in Seq(S) OBVIOUS
<1>5. Len(Append(q, y)) = 2 OBVIOUS
<1>6. Append(q, y)[1] = q[1] OBVIOUS
<1> QED BY <1>3, <1>4, <1>5, <1>6

LEMMA TwoLongIn ==
    ASSUME NEW S, NEW x \in S, NEW y \in S
    PROVE  Append(<<x>>, y) = <<x, y>>
<1>1. <<x>> \in Seq(S) /\ Len(<<x>>) = 1 /\ <<x>>[1] = x OBVIOUS
<1>2. /\ Append(<<x>>, y) \in Seq(S) /\ Len(Append(<<x>>, y)) = 2
      /\ Append(<<x>>, y)[1] = <<x>>[1] /\ Append(<<x>>, y)[2] = y
    BY <1>1, AppendToOne, Zenon
<1>3. PICK r \in Seq(S) : r = Append(<<x>>, y) BY <1>2
<1>4. Len(r) = 2 /\ r[1] = x /\ r[2] = y BY <1>1, <1>2, <1>3, Zenon
<1>5. r = <<x, y>> BY <1>4
<1> QED BY <1>3, <1>5, Zenon

LEMMA TwoLong == ASSUME NEW x, NEW y PROVE Append(<<x>>, y) = <<x, y>>
<1>1. x \in {x, y} /\ y \in {x, y} OBVIOUS
<1> QED BY <1>1, TwoLongIn, Zenon

\* What the reducer does when a command has been carried out.
LEMMA CompletedSteps ==
    ASSUME IInv, GitOperationCompleted
    PROVE  LET summary == Head(queue).summary
           IN  \/ /\ flow' = flow /\ effects' = <<Load>>
                  /\ ~(flow # None /\ flow.stage = "add" /\ summary = <<"Added remote", flow.r>>)
                  /\ ~(flow # None /\ flow.stage = "fetch" /\ summary = <<"Fetched", flow.r>>)
                  /\ ~(flow # None /\ flow.stage = "branch" /\ summary = <<"Created tracking">>)
               \/ /\ flow # None /\ flow.stage = "add" /\ summary = <<"Added remote", flow.r>>
                  /\ flow' = [flow EXCEPT !.stage = "fetch"] /\ effects' = <<Load>>
               \/ /\ flow # None /\ flow.stage = "fetch" /\ flow.b = None
                  /\ flow' = None /\ effects' = <<Load>>
               \/ /\ flow # None /\ flow.stage = "fetch" /\ flow.b # None
                  /\ Track(flow.r, flow.b) \in Command
                  /\ flow' = [flow EXCEPT !.stage = "branch"]
                  /\ effects' = <<Git(Track(flow.r, flow.b)), Load>>
               \/ /\ flow # None /\ flow.stage = "branch"
                  /\ flow' = None /\ effects' = <<Load>>
<1> DEFINE summary == Head(queue).summary
           next == ContinueFlow(summary)
<1>1. flow \in Flow \union {None} BY DEF IInv, TypeOK
<1>2. flow' = next.flow /\ effects' = Append(next.more, Load) BY DEF GitOperationCompleted
<1>3. next.more = <<>> => effects' = <<Load>>
  <2>1. Append(<<>>, Load) = <<Load>> OBVIOUS
  <2> QED BY <1>2, <2>1, Zenon
<1>4. next.more = <<Git(Track(flow.r, flow.b))>> =>
        effects' = <<Git(Track(flow.r, flow.b)), Load>>
    BY <1>2, TwoLong, Zenon
<1>5. ASSUME flow # None, flow.stage = "fetch", flow.b # None
      PROVE  Track(flow.r, flow.b) \in Command
  <2>1. flow.r \in Remotes /\ flow.b \in Branches BY <1>1, <1>5, FlowForms
  <2>2. [r |-> flow.r, b |-> flow.b] \in RemoteBranches BY <2>1 DEF RemoteBranches
  <2> QED BY <2>1, <2>2, CommandForms DEF Track
<1>6. PICK n : n = next OBVIOUS
<1>7. n = ContinueFlow(summary) BY <1>6
<1> HIDE DEF next
<1>8. /\ flow' = n.flow
      /\ n.more = <<>> => effects' = <<Load>>
      /\ n.more = <<Git(Track(flow.r, flow.b))>> =>
            effects' = <<Git(Track(flow.r, flow.b)), Load>>
    BY <1>2, <1>3, <1>4, <1>6
<1> QED BY <1>5, <1>7, <1>8, ContinueFlowCases, Zenon

LEMMA GitOperationCompletedInv == ASSUME IInv, GitOperationCompleted PROVE IInv'
<1> DEFINE create == Track(flow.r, flow.b)
<1>1. Reduce("GitOperationCompleted") /\ UNCHANGED <<detail, modal>> BY DEF GitOperationCompleted
<1>2. flow \in Flow \union {None} /\ detail \in RepoDetail BY DEF IInv, TypeOK
<1>3. Load \in Effect /\ Load.do # "CheckBranchMerged" BY EffectForms
<1>4. /\ job = None /\ effects = <<>> /\ queue # <<>> /\ queue' = Tail(queue)
      /\ Len(queue') \in Nat /\ Len(queue') <= 1
      /\ Len(queue') + 1 <= IF flow # None /\ flow.stage # "branch" THEN 1 ELSE 2
      /\ flow # None /\ flow.stage # "branch" => Len(queue') = 0
      /\ UNCHANGED <<repo, job, goal, inputs, outside, faults>>
    BY <1>1, ReduceFacts
<1>5. \/ flow' = flow /\ effects' = <<Load>>
      \/ /\ flow # None /\ flow.stage = "add"
         /\ flow' = [flow EXCEPT !.stage = "fetch"] /\ effects' = <<Load>>
      \/ flow' = None /\ effects' = <<Load>>
      \/ /\ flow # None /\ flow.stage = "fetch" /\ create \in Command
         /\ flow' = [flow EXCEPT !.stage = "branch"]
         /\ effects' = <<Git(create), Load>>
    BY CompletedSteps
<1> HIDE DEF create
<1>6. CASE flow' = flow /\ effects' = <<Load>>
    BY <1>1, <1>2, <1>3, <1>4, <1>6, EventReduced
<1>7. CASE /\ flow # None /\ flow.stage = "add"
           /\ flow' = [flow EXCEPT !.stage = "fetch"] /\ effects' = <<Load>>
  <2>1. flow' \in Flow BY <1>2, <1>7, FlowForms
  <2>2. Len(queue') = 0 BY <1>4, <1>7
  <2> QED BY <1>1, <1>2, <1>3, <1>4, <1>7, <2>1, <2>2, EventReduced
<1>8. CASE flow' = None /\ effects' = <<Load>>
    BY <1>1, <1>2, <1>3, <1>4, <1>8, EventReduced
<1>9. CASE /\ flow # None /\ flow.stage = "fetch" /\ create \in Command
           /\ flow' = [flow EXCEPT !.stage = "branch"]
           /\ effects' = <<Git(create), Load>>
  <2>1. flow' \in Flow /\ flow'.stage = "branch" BY <1>2, <1>9, FlowForms
  <2>2. Git(create) \in Effect /\ Git(create).do # "CheckBranchMerged" BY <1>9, EffectForms
  <2>3. Len(queue') = 0 BY <1>4, <1>9
  <2>4. /\ effects' \in Seq(Effect) /\ Len(effects') = 2
        /\ \A i \in 1..Len(effects') : effects'[i].do # "CheckBranchMerged"
      BY <1>3, <1>9, <2>2
  <2>5. Len(queue') + Len(effects') <= IF flow' # None /\ flow'.stage # "branch" THEN 1 ELSE 2
      BY <2>1, <2>3, <2>4
  <2> QED BY <1>1, <1>2, <1>4, <2>1, <2>4, <2>5, EventReduced
<1> QED BY <1>5, <1>6, <1>7, <1>8, <1>9

LEMMA GitOperationFailedInv == ASSUME IInv, GitOperationFailed PROVE IInv'
<1>1. Reduce("GitOperationFailed") /\ effects' = <<Load>> /\ UNCHANGED <<detail, flow, modal>>
    BY DEF GitOperationFailed
<1>2. flow \in Flow \union {None} /\ detail \in RepoDetail BY DEF IInv, TypeOK
<1>3. Load \in Effect /\ Load.do # "CheckBranchMerged" BY EffectForms
<1> QED BY <1>1, <1>2, <1>3, ReduceFacts, EventReduced

LEMMA RepoDetailLoadedInv == ASSUME IInv, RepoDetailLoaded PROVE IInv'
<1>1. Reduce("RepoDetailLoaded") /\ detail' = Head(queue).detail /\ UNCHANGED <<flow, modal>>
    BY DEF RepoDetailLoaded
<1>2. flow \in Flow \union {None} BY DEF IInv, TypeOK
<1>3. detail' \in RepoDetail BY <1>1, ReduceFacts, EventFields
<1>4. CASE flow # None /\ flow.stage = "fetch" /\ flow.r \in detail'.remotes
  <2> DEFINE fetch == [op |-> "FetchRemote", r |-> flow.r]
  <2>1. effects' = <<Git(fetch)>> BY <1>4 DEF RepoDetailLoaded
  <2>2. fetch \in Command BY <1>2, <1>4, FlowForms, CommandForms
  <2>3. Git(fetch) \in Effect /\ Git(fetch).do # "CheckBranchMerged" BY <2>2, EffectForms
  <2> HIDE DEF fetch
  <2> QED BY <1>1, <1>2, <1>3, <2>1, <2>3, ReduceFacts, EventReduced
<1>5. CASE ~(flow # None /\ flow.stage = "fetch" /\ flow.r \in detail'.remotes)
  <2>1. effects' = <<>> BY <1>5 DEF RepoDetailLoaded
  <2> QED BY <1>1, <1>2, <1>3, <2>1, ReduceFacts, EventReduced
<1> QED BY <1>4, <1>5

LEMMA BranchMergeCheckCompletedInv == ASSUME IInv, BranchMergeCheckCompleted PROVE IInv'
<1> DEFINE delete == ForceDelete(Head(queue).b)
<1>1. Reduce("BranchMergeCheckCompleted") /\ UNCHANGED <<detail, flow>>
    BY DEF BranchMergeCheckCompleted
<1>2. flow \in Flow \union {None} /\ detail \in RepoDetail BY DEF IInv, TypeOK
<1>3. queue' = <<>> BY <1>1, ReduceFacts DEF CheckEvents
<1>4. delete \in Command BY <1>1, ReduceFacts, EventFields, CommandForms DEF ForceDelete
<1>5. Git(delete) \in Effect /\ Git(delete).do # "CheckBranchMerged" BY <1>4, EffectForms
<1>6. \/ effects' = <<Git(delete)>> /\ modal' = modal
      \/ modal' = delete /\ effects' = effects
    BY DEF BranchMergeCheckCompleted
<1> HIDE DEF delete
<1>7. /\ job = None /\ effects = <<>> /\ queue # <<>> /\ queue' = Tail(queue)
      /\ UNCHANGED <<repo, job, goal, inputs, outside, faults>>
    BY <1>1, ReduceFacts
<1>8. CASE effects' = <<Git(delete)>> /\ modal' = modal
    BY <1>1, <1>2, <1>3, <1>5, <1>7, <1>8, EventReduced
<1>9. CASE modal' = delete /\ effects' = effects
    BY <1>1, <1>2, <1>3, <1>4, <1>7, <1>9, EventReduced
<1> QED BY <1>6, <1>8, <1>9

LEMMA BranchMergeCheckFailedInv == ASSUME IInv, BranchMergeCheckFailed PROVE IInv'
<1>1. Reduce("BranchMergeCheckFailed") /\ UNCHANGED <<detail, flow, modal, effects>>
    BY DEF BranchMergeCheckFailed
<1>2. flow \in Flow \union {None} /\ detail \in RepoDetail BY DEF IInv, TypeOK
<1>3. /\ job = None /\ effects = <<>> /\ queue # <<>> /\ queue' = Tail(queue)
      /\ Len(queue') = 0
      /\ UNCHANGED <<repo, job, goal, inputs, outside, faults>>
    BY <1>1, ReduceFacts DEF CheckEvents
<1>4. effects' = <<>> /\ Len(effects') = 0 BY <1>1, <1>3
<1>5. /\ effects' \in Seq(Effect) /\ Len(effects') <= 2
      /\ \A i \in 1..Len(effects') : effects'[i].do # "CheckBranchMerged"
    BY <1>4
<1>6. Len(queue') + Len(effects') <= IF flow' # None /\ flow'.stage # "branch" THEN 1 ELSE 2
  <2>1. Len(queue') + Len(effects') = 0 BY <1>3, <1>4
  <2> QED BY <2>1
<1> QED BY <1>1, <1>2, <1>3, <1>5, <1>6, EventReduced

\* Others change the repository and nothing else.
LEMMA OutsideInv == ASSUME IInv, Outside, Good(repo)' PROVE IInv'
<1>1. /\ outside' = outside + 1 /\ outside < MaxOutside
      /\ UNCHANGED <<detail, flow, modal, queue, effects, job, goal, inputs, faults>>
    BY DEF Outside, run
<1>2. TypeOK' BY <1>1, FlowAssumption DEF IInv, TypeOK, Good, FlowAssumption
<1> QED BY <1>1, <1>2
        DEF IInv, JobShape, LittleToDo, Running, ChecksAlone, AsksWhenIdle, Idle

LEMMA OthersGood == ASSUME IInv, Others PROVE Good(repo)'
<1>1. Good(repo) /\ repo \in Refs /\ repo.head \in Branches /\ repo.local[repo.head] # {}
    BY RefsFields DEF IInv, TypeOK, Good
<1>2. CASE OutsideCommit
  <2>1. PICK new \in Fresh(repo) :
          repo' = [repo EXCEPT !.local[repo.head] = repo.local[repo.head] \union {new}]
      BY <1>2 DEF OutsideCommit
  <2> DEFINE tip == repo.local[repo.head] \union {new}
  <2>2. tip \in Tips /\ tip # {}
      BY <1>1, <2>1, RefsFields DEF Fresh, Unused, Tips
  <2>3. repo' = [repo EXCEPT !.local[repo.head] = tip] BY <2>1
  <2> HIDE DEF tip
  <2>4. repo' \in Refs BY <1>1, <2>2, <2>3 DEF Refs
  <2>5. repo'.local = [repo.local EXCEPT ![repo.head] = tip] /\ repo'.head = repo.head
      BY <1>1, <2>3 DEF Refs
  <2>6. repo.local \in [Branches -> Tips] BY <1>1, RefsFields
  <2>7. repo'.local[repo'.head] # {} BY <1>1, <2>2, <2>5, <2>6
  <2> QED BY <2>4, <2>7 DEF Good
<1>3. CASE OutsideGit
  <2>1. CASE \E b \in Branches : repo' \in CheckoutBranch(repo, [b |-> b])
    <3>1. PICK b \in Branches : repo' \in CheckoutBranch(repo, [b |-> b]) BY <2>1
    <3>2. \A t \in CheckoutBranch(repo, [b |-> b]) : Good(t) BY <1>1, CheckoutBranchGood
    <3> QED BY <3>1, <3>2 DEF Good
  <2>2. CASE \E r \in Remotes : repo' \in Fetch(repo, r)
    <3>1. PICK r \in Remotes : repo' \in Fetch(repo, r) BY <2>2
    <3>2. \A t \in Fetch(repo, r) : Good(t) BY <1>1, FetchGood
    <3> QED BY <3>1, <3>2 DEF Good
  <2> QED BY <1>3, <2>1, <2>2 DEF OutsideGit
<1>4. CASE OutsidePush
  <2>1. PICK u \in Urls, b \in Branches, new \in Fresh(repo) :
          \E kept \in {repo.server[u][b], {}} :
            repo' = [repo EXCEPT !.server[u][b] = kept \union {new}]
      BY <1>4 DEF OutsidePush
  <2>2. PICK kept \in {repo.server[u][b], {}} :
            repo' = [repo EXCEPT !.server[u][b] = kept \union {new}]
      BY <2>1
  <2> DEFINE tip == kept \union {new}
  <2>3. tip \in Tips BY <1>1, <2>1, <2>2, RefsFields DEF Fresh, Unused, Tips
  <2>4. repo' = [repo EXCEPT !.server[u][b] = tip] BY <2>2
  <2> HIDE DEF tip
  <2>5. repo' \in Refs BY <1>1, <2>3, <2>4 DEF Refs
  <2>6. repo'.local = repo.local /\ repo'.head = repo.head BY <1>1, <2>4 DEF Refs
  <2> QED BY <1>1, <2>5, <2>6 DEF Good
<1> QED BY <1>2, <1>3, <1>4 DEF Others

LEMMA NextInv == ASSUME IInv, [Next]_vars PROVE IInv'
<1>1. CASE User
    BY <1>1, AskInv, RequestInv, DeleteSelectedBranchInv, SubmitInv, CancelInv DEF User
<1>2. CASE Commands
    BY <1>2, StartCommandInv, ProcessInv, GitRefusesInv, ProcessFailsInv DEF Commands
<1>3. CASE Loads
    BY <1>3, LoadRepoDetailInv, LoadRepoDetailFailsInv, CheckBranchMergedInv DEF Loads
<1>4. CASE Reducer
    BY <1>4, GitOperationCompletedInv, GitOperationFailedInv, RepoDetailLoadedInv,
       BranchMergeCheckCompletedInv, BranchMergeCheckFailedInv DEF Reducer
<1>5. CASE Others
  <2>1. Outside BY <1>5 DEF Others, OutsideCommit, OutsideGit, OutsidePush
  <2> QED BY <1>5, <2>1, OthersGood, OutsideInv
<1>6. CASE UNCHANGED vars
    BY <1>6 DEF vars, run, history, counters, IInv, TypeOK, JobShape, LittleToDo, Running,
                ChecksAlone, AsksWhenIdle, Idle
<1> QED BY <1>1, <1>2, <1>3, <1>4, <1>5, <1>6 DEF Next

\* Whatever the repositories, the requests and what others do meanwhile: every
\* variable keeps its type, HEAD is a branch that exists, a run has never more
\* than two events or effects before it, and no confirmation opens while a
\* command of the program runs.
THEOREM TypesHold == Spec => []TypeOK
<1>1. IInv => TypeOK BY DEF IInv
<1> QED BY InitInv, NextInv, <1>1, PTL DEF Spec

-----------------------------------------------------------------------------
(* What the program knows of the repository when it acts on it.            *)

Runs(f, op) == f.do = "RunGitCommand" /\ f.c.op = op

\* The deletion of a branch at a server has been confirmed.
Confirmed ==
    /\ \A i \in 1..Len(effects) : Runs(effects[i], "DeleteRemoteBranch") => "confirmed" \in seen
    /\ job # None /\ job.c.op = "DeleteRemoteBranch" => "confirmed" \in seen

\* The deletion of a branch is all there is to do.
DeletesAlone ==
    \A i \in 1..Len(effects) : Runs(effects[i], "DeleteBranch") =>
        Len(effects) = 1 /\ queue = <<>> /\ job = None

\* A branch that is deleted without asking is merged, still.
StillMerged ==
    Undisturbed({"outside", "confirmed"}) =>
        /\ \A i \in 1..Len(queue) :
            queue[i].ev = "BranchMergeCheckCompleted" /\ queue[i].merged =>
                IsMerged(repo, queue[i].b)
        /\ \A i \in 1..Len(effects) :
            Runs(effects[i], "DeleteBranch") => IsMerged(repo, effects[i].c.b)
        /\ job # None /\ job.c.op = "DeleteBranch" => IsMerged(repo, job.c.b)

\* What a fetch has found to forward is what there is to forward, still.
StillBehind ==
    Undisturbed({"outside"}) /\ job # None /\ job.left = <<"update">> =>
        job.plan = AutoForwards(repo)

KInv == IInv /\ Confirmed /\ DeletesAlone /\ StillMerged /\ StillBehind

LEMMA InitKnows == Init => KInv
    BY InitInv DEF Init, KInv, Confirmed, DeletesAlone, StillMerged, StillBehind

\* Nothing is known, nor has to be, while nothing goes on.
LEMMA IdleKnows ==
    ASSUME IInv', queue' = <<>>, job' = None,
           \A i \in 1..Len(effects') :
             /\ ~Runs(effects'[i], "DeleteRemoteBranch") \/ "confirmed" \in seen'
             /\ ~Runs(effects'[i], "DeleteBranch") \/ ("confirmed" \in seen' /\ Len(effects') = 1)
    PROVE  KInv'
    BY DEF KInv, Confirmed, DeletesAlone, StillMerged, StillBehind, Undisturbed

LEMMA UserKnows == ASSUME KInv, User PROVE KInv'
<1>1. IInv' BY NextInv DEF Next, KInv
<1>2. CASE Ask
    BY <1>1, <1>2, IdleKnows DEF Ask, Input, Idle
<1>3. CASE Request
  <2>1. PICK c \in Requests(detail) : effects' = <<Git(c)>> BY <1>3 DEF Request
  <2>2. c.op \in {"CheckoutBranch", "CheckoutRemoteBranch", "SetBranchUpstream"}
      BY <2>1 DEF Requests
  <2>3. \A i \in 1..Len(effects') : effects'[i] = Git(c) BY <2>1
  <2>4. ~Runs(Git(c), "DeleteRemoteBranch") /\ ~Runs(Git(c), "DeleteBranch")
      BY <2>2 DEF Runs, Git
  <2> QED BY <1>1, <1>3, <2>3, <2>4, IdleKnows DEF Request, Input, Idle
<1>4. CASE DeleteSelectedBranch
  <2>1. PICK b \in detail.branches : effects' = <<CheckMerged(b)>> BY <1>4 DEF DeleteSelectedBranch
  <2>2. \A i \in 1..Len(effects') : effects'[i] = CheckMerged(b) BY <2>1
  <2>3. ~Runs(CheckMerged(b), "DeleteRemoteBranch") /\ ~Runs(CheckMerged(b), "DeleteBranch")
      BY DEF Runs, CheckMerged
  <2> QED BY <1>1, <1>4, <2>2, <2>3, IdleKnows DEF DeleteSelectedBranch, Input, Idle
<1>5. CASE Submit
  <2>1. effects' = <<Git(modal)>> /\ "confirmed" \in seen' BY <1>5 DEF Submit
  <2>2. Len(effects') = 1 BY <2>1
  <2> QED BY <1>1, <1>5, <2>1, <2>2, IdleKnows DEF Submit, Idle
<1>6. CASE Cancel
    BY <1>1, <1>6, IdleKnows DEF Cancel, run, Idle
<1> QED BY <1>2, <1>3, <1>4, <1>5, <1>6 DEF User

\* A step that leaves the repository alone, forgets no history, and puts down
\* nothing that calls for knowledge.
LEMMA QuietStep ==
    ASSUME KInv, IInv', repo' = repo, seen \subseteq seen',
           \A i \in 1..Len(effects') :
             \/ \E j \in 1..Len(effects) : effects'[i] = effects[j]
             \/ /\ ~Runs(effects'[i], "DeleteRemoteBranch")
                /\ ~Runs(effects'[i], "DeleteBranch"),
           \A i \in 1..Len(queue') :
             \/ \E j \in 1..Len(queue) : queue'[i] = queue[j]
             \/ queue'[i].ev # "BranchMergeCheckCompleted",
           job' = None \/ job' = job,
           DeletesAlone'
    PROVE  KInv'
<1>1. Confirmed' BY DEF KInv, Confirmed
<1>2. StillMerged'
  <2> SUFFICES ASSUME Undisturbed({"outside", "confirmed"})'
               PROVE  /\ \A i \in 1..Len(queue') :
                            queue'[i].ev = "BranchMergeCheckCompleted" /\ queue'[i].merged =>
                                IsMerged(repo, queue'[i].b)
                      /\ \A i \in 1..Len(effects') :
                            Runs(effects'[i], "DeleteBranch") => IsMerged(repo, effects'[i].c.b)
                      /\ job' # None /\ job'.c.op = "DeleteBranch" => IsMerged(repo, job'.c.b)
      BY DEF StillMerged
  <2>1. Undisturbed({"outside", "confirmed"}) BY DEF Undisturbed
  <2> QED BY <2>1 DEF KInv, StillMerged
<1>3. StillBehind' BY DEF KInv, StillBehind, Undisturbed
<1> QED BY <1>1, <1>2, <1>3 DEF KInv

LEMMA LoadsKnow == ASSUME KInv, Loads PROVE KInv'
<1>1. IInv' BY NextInv DEF Next, KInv
<1>2. /\ effects \in Seq(Effect) /\ queue \in Seq(Event) /\ effects # <<>> /\ job = None
      /\ effects' = Tail(effects) /\ repo' = repo /\ job' = None /\ seen \subseteq seen'
    BY DEF KInv, IInv, TypeOK, Loads, LoadRepoDetail, LoadRepoDetailFails, CheckBranchMerged,
           Apply
<1>3. /\ \A i \in 1..Len(effects') : effects'[i] = effects[i + 1] /\ i + 1 \in 1..Len(effects)
      /\ Len(effects') = Len(effects) - 1 /\ Len(effects) \in Nat \ {0}
    BY <1>2, TailOf
<1>4. DeletesAlone'
  <2> SUFFICES ASSUME NEW i \in 1..Len(effects'), Runs(effects'[i], "DeleteBranch")
               PROVE  FALSE
      BY DEF DeletesAlone
  <2>1. Len(effects) = 1 BY <1>3 DEF KInv, DeletesAlone
  <2> QED BY <1>3, <2>1
<1>5. CASE LoadRepoDetail
  <2> DEFINE e == [ev |-> "RepoDetailLoaded", detail |-> Detail(repo)]
  <2>1. queue' = Append(queue, e) BY <1>5 DEF LoadRepoDetail
  <2>2. e.ev # "BranchMergeCheckCompleted" OBVIOUS
  <2> HIDE DEF e
  <2>3. \A i \in 1..Len(queue') : queue'[i] = e \/ \E j \in 1..Len(queue) : queue'[i] = queue[j]
      BY <1>2, <2>1
  <2> QED BY <1>1, <1>2, <1>3, <1>4, <2>2, <2>3, QuietStep
<1>6. CASE LoadRepoDetailFails
    BY <1>1, <1>2, <1>3, <1>4, <1>6, QuietStep DEF LoadRepoDetailFails
<1>7. CASE CheckBranchMerged
  <2> DEFINE b == Head(effects).b
             e == [ev |-> IF ~Exists(repo, b) THEN "BranchMergeCheckFailed"
                          ELSE "BranchMergeCheckCompleted",
                   b |-> b, merged |-> IsMerged(repo, b)]
  <2>1. queue' = Append(queue, e) BY <1>7 DEF CheckBranchMerged
  <2>2. effects[1].do = "CheckBranchMerged" /\ 1 \in 1..Len(effects)
      BY <1>2, <1>3, <1>7, TailOf DEF CheckBranchMerged, Apply
  <2>3. Len(effects) = 1 /\ queue = <<>> BY <2>2 DEF KInv, IInv, ChecksAlone
  <2>4. e.merged => IsMerged(repo, e.b) OBVIOUS
  <2> HIDE DEF e
  <2>5. \A i \in 1..Len(queue') : queue'[i] = e BY <2>1, <2>3
  <2>6. \A i \in 1..Len(effects') : FALSE BY <1>3, <2>3
  <2>7. Confirmed' /\ StillBehind' BY <1>2, <2>6 DEF Confirmed, StillBehind
  <2>8. StillMerged' BY <1>2, <2>4, <2>5, <2>6 DEF StillMerged
  <2> QED BY <1>1, <1>4, <2>7, <2>8 DEF KInv
<1> QED BY <1>5, <1>6, <1>7 DEF Loads

LEMMA ReducerKnows == ASSUME KInv, Reducer PROVE KInv'
<1>1. IInv' BY NextInv DEF Next, KInv
<1>2. /\ queue \in Seq(Event) /\ queue # <<>> /\ job = None /\ effects = <<>>
      /\ queue' = Tail(queue) /\ repo' = repo /\ job' = None /\ seen' = seen
    BY DEF KInv, IInv, TypeOK, Reducer, GitOperationCompleted, GitOperationFailed,
           RepoDetailLoaded, BranchMergeCheckCompleted, BranchMergeCheckFailed, Reduce, history
<1>3. /\ \A i \in 1..Len(queue') : queue'[i] = queue[i + 1] /\ i + 1 \in 1..Len(queue)
      /\ Len(queue) \in Nat \ {0} /\ Head(queue) = queue[1] /\ 1 \in 1..Len(queue)
    BY <1>2, TailOf
<1> DEFINE Plain == \A i \in 1..Len(effects') : /\ ~Runs(effects'[i], "DeleteRemoteBranch")
                                                /\ ~Runs(effects'[i], "DeleteBranch")
<1>4. ASSUME Plain PROVE KInv'
  <2>1. DeletesAlone' BY <1>4 DEF DeletesAlone
  <2> QED BY <1>1, <1>2, <1>3, <1>4, <2>1, QuietStep
<1>5. ~Runs(Load, "DeleteRemoteBranch") /\ ~Runs(Load, "DeleteBranch") BY DEF Runs, Load
<1>6. \A c : c.op \in {"CreateBranchFromRef", "FetchRemote"} =>
        ~Runs(Git(c), "DeleteRemoteBranch") /\ ~Runs(Git(c), "DeleteBranch")
    BY DEF Runs, Git
<1>7. CASE GitOperationCompleted
  <2> DEFINE create == Track(flow.r, flow.b)
  <2>1. effects' = <<Load>> \/ effects' = <<Git(create), Load>>
      BY <1>7, CompletedSteps DEF KInv
  <2>2. create.op = "CreateBranchFromRef" BY DEF Track
  <2> HIDE DEF create
  <2>3. \A i \in 1..Len(effects') : effects'[i] = Git(create) \/ effects'[i] = Load BY <2>1
  <2> QED BY <1>4, <1>5, <1>6, <2>2, <2>3
<1>8. CASE GitOperationFailed
  <2>1. effects' = <<Load>> BY <1>8 DEF GitOperationFailed
  <2>2. \A i \in 1..Len(effects') : effects'[i] = Load BY <2>1
  <2> QED BY <1>4, <1>5, <2>2
<1>9. CASE RepoDetailLoaded
  <2>1. effects' = <<>> \/ effects' = <<Git([op |-> "FetchRemote", r |-> flow.r])>>
      BY <1>9 DEF RepoDetailLoaded
  <2>2. \A i \in 1..Len(effects') : effects'[i] = Git([op |-> "FetchRemote", r |-> flow.r])
      BY <2>1
  <2> QED BY <1>4, <1>6, <2>2
<1>10. CASE BranchMergeCheckFailed
  <2>1. effects' = <<>> BY <1>2, <1>10 DEF BranchMergeCheckFailed
  <2>2. \A i \in 1..Len(effects') : FALSE BY <2>1
  <2> QED BY <1>4, <2>2
<1>11. CASE BranchMergeCheckCompleted
  <2> DEFINE b == Head(queue).b
  <2>1. Head(queue).ev = "BranchMergeCheckCompleted" BY <1>11 DEF BranchMergeCheckCompleted, Reduce
  <2>2. queue' = <<>>
      BY <1>11, ReduceFacts DEF BranchMergeCheckCompleted, CheckEvents, KInv
  <2>3. CASE Head(queue).merged
    <3>1. effects' = <<Git(ForceDelete(b))>> BY <1>11, <2>3 DEF BranchMergeCheckCompleted
    <3>2. Len(effects') = 1 /\ \A i \in 1..Len(effects') : effects'[i] = Git(ForceDelete(b))
        BY <3>1
    <3>3. Git(ForceDelete(b)).c.b = b /\ ~Runs(Git(ForceDelete(b)), "DeleteRemoteBranch")
        BY DEF Git, ForceDelete, Runs
    <3>4. Undisturbed({"outside", "confirmed"}) => IsMerged(repo, b)
        BY <1>3, <2>1, <2>3 DEF KInv, StillMerged
    <3>5. Confirmed' /\ DeletesAlone' /\ StillBehind'
        BY <1>2, <2>2, <3>2, <3>3 DEF Confirmed, DeletesAlone, StillBehind
    <3>6. StillMerged'
        BY <1>2, <2>2, <3>2, <3>3, <3>4 DEF StillMerged, Undisturbed
    <3> QED BY <1>1, <3>5, <3>6 DEF KInv
  <2>4. CASE ~Head(queue).merged
    <3>1. effects' = <<>> BY <1>2, <1>11, <2>4 DEF BranchMergeCheckCompleted
    <3>2. \A i \in 1..Len(effects') : FALSE BY <3>1
    <3> QED BY <1>4, <3>2
  <2> QED BY <2>3, <2>4
<1> QED BY <1>7, <1>8, <1>9, <1>10, <1>11 DEF Reducer

LEMMA OthersKnow == ASSUME KInv, Others PROVE KInv'
<1>1. IInv' BY NextInv DEF Next, KInv
<1>2. /\ seen' = seen \union {"outside"}
      /\ UNCHANGED <<queue, effects, job>>
    BY DEF Others, OutsideCommit, OutsideGit, OutsidePush, Outside, run
<1> QED BY <1>1, <1>2
        DEF KInv, Confirmed, DeletesAlone, StillMerged, StillBehind, Undisturbed

LEMMA CommandsKnow == ASSUME KInv, Commands PROVE KInv'
<1>1. IInv' BY NextInv DEF Next, KInv
<1>2. /\ effects \in Seq(Effect) /\ queue \in Seq(Event)
    BY DEF KInv, IInv, TypeOK
<1>3. CASE StartCommand
  <2> DEFINE c == Head(effects).c
  <2>1. /\ job = None /\ effects # <<>> /\ Head(effects).do = "RunGitCommand"
        /\ job' = [c |-> c, left |-> Processes(c), plan |-> {}]
        /\ effects' = Tail(effects)
        /\ UNCHANGED <<repo, queue, seen>>
      BY <1>3 DEF StartCommand, history
  <2>2. /\ \A i \in 1..Len(effects') : effects'[i] = effects[i + 1] /\ i + 1 \in 1..Len(effects)
        /\ Len(effects') = Len(effects) - 1 /\ Len(effects) \in Nat \ {0}
        /\ Head(effects) = effects[1] /\ 1 \in 1..Len(effects)
      BY <1>2, <2>1, TailOf
  <2>3. job'.c = c /\ job'.left = Processes(c) BY <2>1
  <2>4. effects[1].do = "RunGitCommand" /\ effects[1].c = c BY <2>1, <2>2
  <2> HIDE DEF c
  <2>5. DeletesAlone'
    <3> SUFFICES ASSUME NEW i \in 1..Len(effects'), Runs(effects'[i], "DeleteBranch")
                 PROVE  FALSE
        BY DEF DeletesAlone
    <3>1. Len(effects) = 1 BY <2>2 DEF KInv, DeletesAlone
    <3> QED BY <2>2, <3>1
  <2>6. Confirmed' BY <2>1, <2>2, <2>3, <2>4 DEF KInv, Confirmed, Runs
  <2>7. StillMerged'
    <3>1. c.op = "DeleteBranch" => Runs(effects[1], "DeleteBranch") BY <2>4 DEF Runs
    <3> QED BY <2>1, <2>2, <2>3, <2>4, <3>1 DEF KInv, StillMerged, Undisturbed
  <2>8. StillBehind'
    <3>1. Processes(c) # <<"update">>
      <4>1. Processes(c) \in {<<"fetch", "collect", "update">>, <<"fetch", "merge">>,
                              <<"rename", "set-url">>, <<"all">>}
          BY DEF Processes
      <4> QED BY <4>1
    <3> QED BY <2>3, <3>1 DEF StillBehind
  <2> QED BY <1>1, <2>5, <2>6, <2>7, <2>8 DEF KInv
<1>4. ASSUME job # None, CommandFails, seen \subseteq seen' PROVE KInv'
  <2>1. /\ queue' = Append(queue, Failed) /\ job' = None
        /\ repo' = repo /\ effects' = effects
      BY <1>4 DEF CommandFails
  <2>2. Failed.ev # "BranchMergeCheckCompleted" /\ Failed \in Event BY FailedEvent
  <2>3. \A i \in 1..Len(queue') :
            queue'[i] = Failed \/ \E j \in 1..Len(queue) : queue'[i] = queue[j]
      BY <1>2, <2>1
  <2>4. DeletesAlone' BY <1>4, <2>1 DEF KInv, DeletesAlone
  <2> QED BY <1>1, <1>4, <2>1, <2>2, <2>3, <2>4, QuietStep
<1>5. CASE GitRefuses BY <1>4, <1>5 DEF GitRefuses
<1>6. CASE ProcessFails BY <1>4, <1>6 DEF ProcessFails
<1>7. CASE Process
  <2>1. /\ job # None /\ repo' \in Outcomes /\ UNCHANGED <<effects, seen>>
      BY <1>7 DEF Process, history
  <2>2. job.c \in Command BY <2>1 DEF KInv, IInv, TypeOK
  <2>3. DeletesAlone' BY <2>1 DEF KInv, DeletesAlone
  <2>4. \A i \in 1..Len(effects) : ~Runs(effects[i], "DeleteBranch")
      BY <2>1 DEF KInv, DeletesAlone
  <2>5. \A i \in 1..Len(queue) : queue[i].ev # "BranchMergeCheckCompleted"
      BY <2>1 DEF KInv, IInv, ChecksAlone, CheckEvents
  <2>6. CASE Len(job.left) = 1
    <3>1. job' = None /\ queue' = Append(queue, Completed(job.c)) BY <1>7, <2>6 DEF Process
    <3>2. /\ Completed(job.c).ev # "BranchMergeCheckCompleted"
          /\ \A i \in 1..Len(queue') :
                queue'[i] = Completed(job.c) \/ \E j \in 1..Len(queue) : queue'[i] = queue[j]
      <4>1. Completed(job.c) \in Event /\ Completed(job.c).ev # "BranchMergeCheckCompleted"
          BY <2>2, CompletedEvent
      <4> QED BY <1>2, <3>1, <4>1
    <3>3. Confirmed' /\ StillBehind' BY <2>1, <3>1 DEF KInv, Confirmed, StillBehind
    <3>4. StillMerged' BY <2>1, <2>4, <2>5, <3>1, <3>2 DEF StillMerged
    <3> QED BY <1>1, <2>3, <3>3, <3>4 DEF KInv
  <2>7. CASE Len(job.left) # 1
    <3>1. /\ job' = [job EXCEPT !.left = Tail(@), !.plan = Plan] /\ UNCHANGED queue
        BY <1>7, <2>7 DEF Process
    <3>2. job = [c |-> job.c, left |-> job.left, plan |-> job.plan]
        BY <2>1 DEF KInv, IInv, JobShape
    <3>3. job' = [c |-> job.c, left |-> Tail(job.left), plan |-> Plan] BY <3>1, <3>2
    <3>4. job'.c = job.c /\ job'.left = Tail(job.left) /\ job'.plan = Plan BY <3>3
    <3>5. Confirmed' BY <2>1, <3>4 DEF KInv, Confirmed
    <3>6. job.c.op # "DeleteBranch"
        BY <2>1, <2>7 DEF KInv, IInv, JobShape, SingleOps
    <3>7. StillMerged' BY <2>1, <2>4, <2>5, <3>1, <3>4, <3>6 DEF StillMerged
    <3>8. StillBehind'
      <4> SUFFICES ASSUME Tail(job.left) = <<"update">>
                   PROVE  Plan = AutoForwards(repo')
          BY <3>4 DEF StillBehind
      <4>1. job.left = <<"collect", "update">> /\ job.c.op \in {"FetchRemote", "FetchSelectedRepo"}
        <5>1. CASE job.left = <<"fetch", "collect", "update">>
          <6>1. Tail(job.left) = <<"collect", "update">> BY <5>1
          <6> QED BY <6>1
        <5>2. CASE job.left = <<"fetch", "merge">>
          <6>1. Tail(job.left) = <<"merge">> BY <5>2
          <6> QED BY <6>1
        <5>3. CASE job.left = <<"rename", "set-url">>
          <6>1. Tail(job.left) = <<"set-url">> BY <5>3
          <6> QED BY <6>1
        <5>4. \/ job.left = <<"fetch", "collect", "update">> \/ job.left = <<"fetch", "merge">>
              \/ job.left = <<"rename", "set-url">>
              \/ /\ job.left = <<"collect", "update">>
                 /\ job.c.op \in {"FetchRemote", "FetchSelectedRepo"}
          <6>1. JobShape BY DEF KInv, IInv
          <6>2. \/ /\ job.c.op \in {"FetchRemote", "FetchSelectedRepo"}
                   /\ job.left \in {<<"fetch", "collect", "update">>, <<"collect", "update">>,
                                     <<"update">>}
                \/ job.left \in {<<"fetch", "merge">>, <<"merge">>}
                \/ job.left \in {<<"rename", "set-url">>, <<"set-url">>}
                \/ job.left = <<"all">>
              BY <2>1, <6>1, Zenon DEF JobShape
          <6>3. job.left \notin {<<"update">>, <<"merge">>, <<"set-url">>, <<"all">>}
              BY <2>7
          <6> QED BY <6>2, <6>3, Zenon
        <5> QED BY <5>1, <5>2, <5>3, <5>4
      <4>2. Head(job.left) = "collect" BY <4>1
      <4>3. job.c.op # "PullCurrentBranch" BY <4>1
      <4>4. Plan = AutoForwards(repo) BY <4>2, <4>3 DEF Plan
      <4>5. repo' = repo BY <2>1, <4>2 DEF Outcomes
      <4> QED BY <4>4, <4>5
    <3> QED BY <1>1, <2>3, <3>5, <3>7, <3>8 DEF KInv
  <2> QED BY <2>6, <2>7
<1> QED BY <1>3, <1>5, <1>6, <1>7 DEF Commands

LEMMA NextKnows == ASSUME KInv, [Next]_vars PROVE KInv'
<1>1. CASE UNCHANGED vars
  <2>1. IInv' BY <1>1, NextInv DEF KInv
  <2> QED BY <1>1, <2>1
          DEF vars, run, history, KInv, Confirmed, DeletesAlone, StillMerged, StillBehind,
              Undisturbed
<1> QED BY <1>1, UserKnows, CommandsKnow, LoadsKnow, ReducerKnows, OthersKnow DEF Next

\* The program changes the repository only by its git processes.
LEMMA OnlyProcesses ==
    ASSUME IInv, Next, ByProgram, repo' # repo
    PROVE  Process /\ job # None /\ repo' \in Outcomes
<1>1. CASE Process BY <1>1 DEF Process
<1>2. CASE Others
  <2>1. outside' = outside + 1 /\ outside \in Nat
      BY <1>2, FlowAssumption
      DEF Others, OutsideCommit, OutsideGit, OutsidePush, Outside, IInv, TypeOK, FlowAssumption
  <2> QED BY <2>1 DEF ByProgram
<1>3. Process \/ Others
    BY DEF Next, User, Ask, Request, DeleteSelectedBranch, Input, Submit, Cancel,
           Commands, StartCommand, GitRefuses, ProcessFails, CommandFails,
           Loads, LoadRepoDetail, LoadRepoDetailFails, CheckBranchMerged, Apply,
           Reducer, GitOperationCompleted, GitOperationFailed, RepoDetailLoaded,
           BranchMergeCheckCompleted, BranchMergeCheckFailed, Reduce
<1> QED BY <1>1, <1>2, <1>3

\* A server loses a commit of a branch only by the deletion of that branch, and
\* a deletion only runs once the user has confirmed it: whatever is pushed
\* behind the program's back, none of its commands overwrites it.
THEOREM KeepsOthersWorkHolds == Spec => KeepsOthersWork
<1>1. ASSUME KInv, Next, ByProgram, NEW u \in Urls, NEW b \in Branches
      PROVE  \/ repo.server[u][b] \subseteq repo'.server[u][b]
             \/ job.c.op = "DeleteRemoteBranch" /\ "confirmed" \in seen /\ job.c.from.b = b
  <2>1. CASE repo' = repo BY <2>1
  <2>2. CASE repo' # repo
    <3>1. job # None /\ repo' \in Outcomes BY <1>1, <2>2, OnlyProcesses DEF KInv
    <3>2. KeepsServers(repo, repo', job.c) BY <1>1, <3>1, OutcomesGood DEF KInv
    <3> QED BY <1>1, <3>1, <3>2 DEF KeepsServers, KInv, Confirmed
  <2> QED BY <2>1, <2>2
<1>2. ASSUME KInv, [Next]_vars
      PROVE  [ByProgram =>
        \A u \in Urls, b \in Branches :
            \/ repo.server[u][b] \subseteq repo'.server[u][b]
            \/ job.c.op = "DeleteRemoteBranch" /\ "confirmed" \in seen /\ job.c.from.b = b]_vars
    BY <1>1, <1>2
<1> QED BY InitKnows, NextKnows, <1>2, PTL DEF Spec, KeepsOthersWork

-----------------------------------------------------------------------------
(* What a command leaves of the local branches.                            *)

Forwards(s, t) ==
    \A b \in Branches : s.local[b] # {} /\ t.local[b] # {} => s.local[b] \subseteq t.local[b]

\* What a branch reached is reached by that branch or by another one.
KeepsBranches(s, t) ==
    \A b \in Branches : \E d \in Branches : s.local[b] \subseteq t.local[d]

LEMMA GrowsKeeps ==
    ASSUME NEW s, NEW t, Grows(s, t)
    PROVE  Forwards(s, t) /\ KeepsBranches(s, t)
    BY DEF Grows, Forwards, KeepsBranches

LEMMA SameGrows ==
    ASSUME NEW s, NEW t, t.local = s.local
    PROVE  Grows(s, t)
    BY DEF Grows

LEMMA SingleProcessKeeps ==
    ASSUME NEW s, Good(s), NEW c \in Command, c.op \in SingleOps, NEW t \in SingleProcess(s, c)
    PROVE  Forwards(s, t) /\ (c.op # "DeleteBranch" => KeepsBranches(s, t))
<1> USE CommandFields
<1>1. CASE c.op \in {"AddRemote", "RemoveRemote", "DeleteRemoteBranch", "PushCurrentBranch",
                     "CheckoutBranch", "SetBranchUpstream", "UnsetBranchUpstream"}
  <2>1. t.local = s.local
    <3>1. CASE c.op = "AddRemote" BY <3>1, AddRemoteGood DEF SingleProcess
    <3>2. CASE c.op = "RemoveRemote" BY <3>2, RemoveRemoteGood DEF SingleProcess
    <3>3. CASE c.op = "DeleteRemoteBranch" BY <3>3, DeleteRemoteBranchGood DEF SingleProcess
    <3>4. CASE c.op = "PushCurrentBranch" BY <3>4, PushGood DEF SingleProcess
    <3>5. CASE c.op = "CheckoutBranch" BY <3>5, CheckoutBranchGood DEF SingleProcess
    <3>6. CASE c.op = "SetBranchUpstream" BY <3>6, SetBranchUpstreamGood DEF SingleProcess
    <3>7. CASE c.op = "UnsetBranchUpstream" BY <3>7, UnsetBranchUpstreamGood DEF SingleProcess
    <3> QED BY <1>1, <3>1, <3>2, <3>3, <3>4, <3>5, <3>6, <3>7
  <2> QED BY <2>1, SameGrows, GrowsKeeps
<1>2. CASE c.op \in {"CheckoutRemoteBranch", "CreateBranch", "CreateBranchFromRef",
                     "FastForward", "MergeRefIntoCurrent"}
  <2>1. Grows(s, t)
    <3>1. CASE c.op = "CheckoutRemoteBranch" BY <3>1, CheckoutRemoteBranchGood DEF SingleProcess
    <3>2. CASE c.op = "CreateBranch" BY <3>2, CreateBranchGood DEF SingleProcess
    <3>3. CASE c.op = "CreateBranchFromRef" BY <3>3, CreateBranchFromRefGood DEF SingleProcess
    <3>4. CASE c.op = "FastForward" BY <3>4, FastForwardGood DEF SingleProcess
    <3>5. CASE c.op = "MergeRefIntoCurrent" BY <3>5, MergeRefGood DEF SingleProcess
    <3> QED BY <1>2, <3>1, <3>2, <3>3, <3>4, <3>5
  <2> QED BY <2>1, GrowsKeeps
<1>3. CASE c.op = "RenameBranch"
  <2>1. c.b \in Branches /\ c.n \in Branches /\ t \in RenameBranch(s, c)
      BY <1>3 DEF SingleProcess
  <2>2. /\ \A b \in Branches \ {c.b} : s.local[b] # {} => t.local[b] = s.local[b]
        /\ t.local[c.b] = {} /\ t.local[c.n] = s.local[c.b]
      BY <2>1, RenameBranchGood
  <2>3. Forwards(s, t) BY <2>2 DEF Forwards
  <2>4. ASSUME NEW b \in Branches PROVE \E d \in Branches : s.local[b] \subseteq t.local[d]
    <3>1. CASE b = c.b BY <2>1, <2>2, <3>1
    <3>2. CASE b # c.b /\ s.local[b] # {} BY <2>2, <3>2
    <3>3. CASE s.local[b] = {} BY <3>3
    <3> QED BY <3>1, <3>2, <3>3
  <2> QED BY <2>3, <2>4 DEF KeepsBranches
<1>4. CASE c.op = "DeleteBranch"
  <2>1. c.b \in Branches /\ t \in DeleteBranch(s, c) BY <1>4 DEF SingleProcess
  <2>2. (\A b \in Branches \ {c.b} : t.local[b] = s.local[b]) /\ t.local[c.b] = {}
      BY <2>1, DeleteBranchGood
  <2> QED BY <1>4, <2>2 DEF Forwards
<1> QED BY <1>1, <1>2, <1>3, <1>4 DEF SingleOps

\* What a fetch forwards was behind, and is not checked out.
LEMMA ForwardedGood ==
    ASSUME NEW s, Good(s), NEW t \in UpdateBranchRefs(s, AutoForwards(s))
    PROVE  Grows(s, t) /\ t.local[s.head] = s.local[s.head]
<1>1. PlanOK(AutoForwards(s)) BY AutoForwardsOK
<1>2. \A b \in Branches :
        \/ t.local[b] = s.local[b]
        \/ \E p \in AutoForwards(s) : /\ p.b = b /\ s.local[b] = p.old
                                      /\ t.local[b] = s.tracking[p.to.r][p.to.b]
    BY <1>1, UpdateBranchRefsGood
<1>3. ASSUME NEW p \in AutoForwards(s)
      PROVE  /\ p.b # s.head /\ s.local[p.b] \subseteq s.tracking[p.to.r][p.to.b]
  <2>1. PICK m \in MainBranches \ {s.head} :
          /\ p = [b |-> m, old |-> s.local[m], to |-> s.upstream[m]]
          /\ HasUpstream(s, m) /\ s.local[m] \subseteq UpstreamTip(s, m)
      BY DEF AutoForwards
  <2>2. p.b = m /\ p.to = s.upstream[m] BY <2>1
  <2>3. UpstreamTip(s, m) = s.tracking[s.upstream[m].r][s.upstream[m].b]
      BY <2>1 DEF HasUpstream, UpstreamTip
  <2> QED BY <2>1, <2>2, <2>3
<1>4. s.head \in Branches BY RefsFields DEF Good
<1> QED BY <1>2, <1>3, <1>4 DEF Grows

\* What the next process leaves of the branches, when it finds what the
\* process before it found.
LEMMA OutcomesKeep ==
    ASSUME KInv, job # None, NEW t \in Outcomes,
           Undisturbed({"outside"}) \/ Head(job.left) # "update"
    PROVE  /\ Forwards(repo, t)
           /\ Head(job.left) = "update" => t.local[repo.head] = repo.local[repo.head]
           /\ job.c.op = "DeleteBranch" \/ KeepsBranches(repo, t)
<1>1. IInv BY DEF KInv
<1>2. Good(repo) /\ job.c \in Command /\ JobShape BY <1>1 DEF IInv, TypeOK, Good
<1>3. CASE /\ job.c.op \in {"FetchRemote", "FetchSelectedRepo", "PullCurrentBranch"}
           /\ job.left \in {<<"fetch", "collect", "update">>, <<"fetch", "merge">>}
  <2>1. Head(job.left) = "fetch" BY <1>3
  <2>2. t \in FetchOf(repo, job.c) BY <2>1 DEF Outcomes
  <2> QED BY <1>2, <1>3, <2>1, <2>2, FetchOfGood, SameGrows, GrowsKeeps
<1>4. CASE job.left = <<"collect", "update">>
  <2>1. Head(job.left) = "collect" BY <1>4
  <2>2. t = repo BY <2>1 DEF Outcomes
  <2> QED BY <2>1, <2>2, SameGrows, GrowsKeeps
<1>5. CASE job.left = <<"update">>
  <2>1. Head(job.left) = "update" BY <1>5
  <2>2. t \in UpdateBranchRefs(repo, AutoForwards(repo))
      BY <1>5, <2>1 DEF Outcomes, KInv, StillBehind
  <2> QED BY <1>2, <2>2, ForwardedGood, GrowsKeeps
<1>6. CASE job.left = <<"merge">>
  <2>1. Head(job.left) = "merge" BY <1>6
  <2>2. t \in MergePulled(repo, job.plan) BY <2>1 DEF Outcomes
  <2>3. job.plan \in SUBSET RemoteBranches BY <1>2, <1>6 DEF JobShape
  <2> QED BY <1>2, <2>1, <2>2, <2>3, MergePulledGood, GrowsKeeps
<1>7. CASE job.c.op = "EditRemote" /\ job.left \in {<<"rename", "set-url">>, <<"set-url">>}
  <2>1. CASE job.left = <<"rename", "set-url">>
    <3>1. Head(job.left) = "rename" BY <2>1
    <3>2. t \in RenameRemote(repo, job.c) BY <3>1 DEF Outcomes
    <3> QED BY <1>2, <1>7, <3>1, <3>2, CommandFields, RenameRemoteGood, SameGrows, GrowsKeeps
  <2>2. CASE job.left = <<"set-url">>
    <3>1. Head(job.left) = "set-url" BY <2>2
    <3>2. t \in SetUrl(repo, job.c) BY <3>1 DEF Outcomes
    <3> QED BY <1>2, <1>7, <3>1, <3>2, CommandFields, SetUrlGood, SameGrows, GrowsKeeps
  <2> QED BY <1>7, <2>1, <2>2
<1>8. CASE job.c.op \in SingleOps /\ job.left = <<"all">>
  <2>1. Head(job.left) = "all" BY <1>8
  <2>2. t \in SingleProcess(repo, job.c) BY <2>1 DEF Outcomes
  <2> QED BY <1>2, <1>8, <2>1, <2>2, SingleProcessKeeps
<1> QED BY <1>2, <1>3, <1>4, <1>5, <1>6, <1>7, <1>8, Zenon DEF JobShape

\* As long as nobody else acts, whatever was fetched, pulled, merged or renamed:
\* a local branch that is moved is fast-forwarded, and what ends a fetch leaves
\* the branch alone that is checked out.
THEOREM OnlyForwardsHolds == Spec => OnlyForwards
<1>1. ASSUME KInv, Next, ByProgram, Undisturbed({"outside"}), NEW b \in Branches,
             repo.local[b] # {} /\ repo'.local[b] # {}
      PROVE  /\ repo.local[b] \subseteq repo'.local[b]
             /\ job # None /\ Head(job.left) = "update" /\ b = repo.head =>
                  repo'.local[b] = repo.local[b]
  <2>1. CASE repo' = repo BY <2>1
  <2>2. CASE repo' # repo
    <3>1. job # None /\ repo' \in Outcomes BY <1>1, <2>2, OnlyProcesses DEF KInv
    <3>2. /\ Forwards(repo, repo')
          /\ Head(job.left) = "update" => repo'.local[repo.head] = repo.local[repo.head]
        BY <1>1, <3>1, OutcomesKeep
    <3> QED BY <1>1, <3>1, <3>2 DEF Forwards
  <2> QED BY <2>1, <2>2
<1>2. ASSUME KInv, [Next]_vars
      PROVE  [ByProgram /\ Undisturbed({"outside"}) =>
        \A b \in Branches : repo.local[b] # {} /\ repo'.local[b] # {} =>
            /\ repo.local[b] \subseteq repo'.local[b]
            /\ job # None /\ Head(job.left) = "update" /\ b = repo.head =>
                 repo'.local[b] = repo.local[b]]_vars
    BY <1>1, <1>2
<1> QED BY InitKnows, NextKnows, <1>2, PTL DEF Spec, OnlyForwards

\* What the merge check promises of a branch: another ref reaches its commits.
LEMMA MergedKept ==
    ASSUME NEW s, Good(s), NEW c, c.b \in Branches \ MainBranches, IsMerged(s, c.b),
           NEW t \in DeleteBranch(s, c)
    PROVE  s.local[c.b] \subseteq Reachable(t)
<1>1. s \in Refs BY DEF Good
<1>2. /\ t.tracking = s.tracking /\ s.head # c.b
      /\ \A b \in Branches \ {c.b} : t.local[b] = s.local[b]
    BY DeleteBranchGood
<1>3. \A b \in Branches \ {c.b} : s.local[b] \subseteq Reachable(t)
    BY <1>2 DEF Reachable, LocalWork
<1>4. \A r \in Remotes, b \in Branches : s.tracking[r][b] \subseteq Reachable(t)
    BY <1>2 DEF Reachable
<1>5. ASSUME NEW b \in Branches PROVE UpstreamTip(s, b) \subseteq Reachable(t)
  <2>1. CASE s.upstream[b] = None BY <2>1 DEF UpstreamTip
  <2>2. CASE s.upstream[b] # None
    <3>1. s.upstream[b].r \in Remotes /\ s.upstream[b].b \in Branches
        BY <1>1, <2>2, RefsFields, RemoteBranchFields
    <3> QED BY <1>4, <2>2, <3>1 DEF UpstreamTip
  <2> QED BY <2>1, <2>2
<1>6. ASSUME NEW m \in MainBranches PROVE MainRef(s, m) \subseteq Reachable(t)
  <2>1. m \in Branches \ {c.b} /\ Origin \in Remotes BY RefsAssumption DEF RefsAssumption
  <2> QED BY <1>3, <1>4, <1>5, <2>1 DEF MainRef
<1>7. s.head \in Branches \ {c.b} BY <1>1, <1>2, RefsFields
<1> QED BY <1>3, <1>5, <1>6, <1>7 DEF IsMerged

\* Whatever fails and whatever others do meanwhile, what a local branch reached
\* is lost by no process but the deletion of that branch - confirmed, of a main
\* branch, or checked before others acted - and a fetch that moves a main branch
\* forward to where others have moved its upstream.
THEOREM OnlyDeletionHolds == Spec => OnlyDeletionLosesWork
<1> DEFINE Kept ==
        \/ LocalWork(repo) \subseteq Reachable(repo')
        \/ /\ job.c.op = "DeleteBranch" /\ MayDelete(job.c.b)
           /\ LocalWork(repo) \subseteq Reachable(repo') \union repo.local[job.c.b]
        \/ Head(job.left) = "update" /\ ~Undisturbed({"outside"})
<1>1. ASSUME KInv, Next, ByProgram PROVE Kept
  <2>1. CASE repo' = repo BY <2>1 DEF Reachable
  <2>2. CASE repo' # repo
    <3>1. job # None /\ repo' \in Outcomes BY <1>1, <2>2, OnlyProcesses DEF KInv
    <3>2. CASE Head(job.left) = "update" /\ ~Undisturbed({"outside"}) BY <3>2
    <3>3. CASE KeepsBranches(repo, repo')
        BY <3>3 DEF KeepsBranches, LocalWork, Reachable
    <3>4. CASE job.c.op = "DeleteBranch"
      <4>1. Good(repo) /\ job.c \in Command /\ JobShape
          BY <1>1, <3>1 DEF KInv, IInv, TypeOK, Good
      <4>2. job.left = <<"all">> BY <3>1, <3>4, <4>1 DEF JobShape
      <4>3. job.c.b \in Branches /\ repo' \in DeleteBranch(repo, job.c)
          BY <3>1, <3>4, <4>1, <4>2, CommandFields DEF Outcomes, SingleProcess
      <4>4. \A b \in Branches \ {job.c.b} : repo.local[b] \subseteq Reachable(repo')
          BY <4>1, <4>3, DeleteBranchGood DEF Reachable, LocalWork
      <4>5. LocalWork(repo) \subseteq Reachable(repo') \union repo.local[job.c.b]
          BY <4>4 DEF LocalWork
      <4>6. CASE MayDelete(job.c.b) BY <3>4, <4>5, <4>6
      <4>7. CASE ~MayDelete(job.c.b)
        <5>1. job.c.b \notin MainBranches /\ Undisturbed({"outside", "confirmed"})
            BY <4>7 DEF MayDelete, Undisturbed
        <5>2. IsMerged(repo, job.c.b) BY <1>1, <3>1, <3>4, <5>1 DEF KInv, StillMerged
        <5>3. repo.local[job.c.b] \subseteq Reachable(repo')
            BY <4>1, <4>3, <5>1, <5>2, MergedKept
        <5> QED BY <4>5, <5>3
      <4> QED BY <4>6, <4>7
    <3> QED BY <1>1, <3>1, <3>2, <3>3, <3>4, OutcomesKeep
  <2> QED BY <2>1, <2>2
<1>2. ASSUME KInv, [Next]_vars
      PROVE  [ByProgram =>
        \/ LocalWork(repo) \subseteq Reachable(repo')
        \/ /\ job.c.op = "DeleteBranch" /\ MayDelete(job.c.b)
           /\ LocalWork(repo) \subseteq Reachable(repo') \union repo.local[job.c.b]
        \/ Head(job.left) = "update" /\ ~Undisturbed({"outside"})]_vars
    BY <1>1, <1>2
<1> QED BY InitKnows, NextKnows, <1>2, PTL DEF Spec, OnlyDeletionLosesWork

-----------------------------------------------------------------------------
(* The flow of an added remote.                                            *)

\* What run() still has to do is one thing.
OnlyEffect(f) == effects = <<f>> /\ queue = <<>> /\ job = None

OnlyEvent(e) == effects = <<>> /\ queue = <<e>> /\ job = None

OnlyJob(c) == effects = <<>> /\ queue = <<>> /\ job # None /\ job.c = c

\* The branch asked for can be made from the server at u.
Wanted(u) ==
    goal.b # None => repo.local[goal.b] = {} /\ repo.server[u][goal.b] # {} /\ flow.b = goal.b

Offered == Known(repo, goal.r) /\ Wanted(repo.url[goal.r])

Fetched == \A b \in Branches : OnServer(repo, goal.r)[b] \subseteq repo.tracking[goal.r][b]

Follows ==
    goal.b # None =>
        /\ repo.upstream[goal.b] = [r |-> goal.r, b |-> goal.b]
        /\ repo.local[goal.b] = UpstreamTip(repo, goal.b)

At(stage) == flow # None /\ flow.stage = stage /\ flow.r = goal.r

Adding ==
    /\ At("add")
    /\ \/ \E c \in Command :
            /\ c.op = "AddRemote" /\ c.r = goal.r /\ ~Known(repo, goal.r) /\ Wanted(c.u)
            /\ OnlyEffect(Git(c)) \/ OnlyJob(c)
       \/ /\ Offered
          /\ \E e \in Event : /\ OnlyEvent(e) /\ e.ev = "GitOperationCompleted"
                              /\ e.summary = <<"Added remote", goal.r>>

FetchIt == [op |-> "FetchRemote", r |-> goal.r]

Fetching ==
    /\ At("fetch") /\ Offered
    /\ \/ OnlyEffect(Load)
       \/ OnlyEffect(Git(FetchIt))
       \/ OnlyJob(FetchIt) /\ (Head(job.left) # "fetch" => Fetched)
       \/ \E e \in Event :
            /\ OnlyEvent(e)
            /\ \/ e.ev = "GitOperationFailed"
               \/ e.ev = "RepoDetailLoaded" /\ goal.r \in e.detail.remotes
               \/ /\ e.ev = "GitOperationCompleted" /\ e.summary = <<"Fetched", goal.r>>
                  /\ Fetched

Branching ==
    /\ At("branch") /\ Offered /\ Fetched /\ flow.b # None /\ queue = <<>>
    /\ \/ effects = <<Git(Track(flow.r, flow.b)), Load>> /\ job = None
       \/ effects = <<Load>> /\ job # None /\ job.c = Track(flow.r, flow.b)

Tracked(e) == e.ev = "GitOperationCompleted" /\ e.summary = <<"Created tracking">>

Finished ==
    /\ flow = None \/ flow.stage = "branch"
    /\ Known(repo, goal.r) /\ Fetched /\ Follows
    /\ job = None
    /\ \A i \in 1..Len(effects) : effects[i].do = "LoadRepoDetail"
    /\ goal.b # None /\ flow # None => \E i \in 1..Len(queue) : Tracked(queue[i])

Watched == goal # None /\ Undisturbed({"outside", "detail", "all"})

\* Nothing else is asked for while an added remote is waited for.
Undivided ==
    goal # None =>
        /\ modal = None
        /\ \A i \in 1..Len(effects) : effects[i].do # "CheckBranchMerged"
        /\ \A i \in 1..Len(queue) : queue[i].ev \notin CheckEvents

InPhase == Watched => Adding \/ Fetching \/ Branching \/ Finished

FInv == IInv /\ Undivided /\ InPhase

LEMMA FlowInPhases == FInv => FlowCompletes
    BY DEF FInv, InPhase, Adding, Fetching, Branching, Finished, FlowCompletes, Watched, Idle,
           OnlyEffect, OnlyEvent, OnlyJob, Fetched, Follows, At

LEMMA InitInPhase == Init => FInv
    BY InitInv DEF Init, FInv, Undivided, InPhase, Watched

\* The three processes of the flow: what they leave alone, and what they find.
LEMMA AddRemoteFrame ==
    ASSUME NEW s \in Refs, NEW c, c.r \in Remotes, c.u \in Urls, ~Known(s, c.r)
    PROVE  /\ AddRemote(s, c) # {}
           /\ \A t \in AddRemote(s, c) :
                t.url[c.r] = c.u /\ t.local = s.local /\ t.server = s.server
<1>1. AddRemote(s, c) = {[s EXCEPT !.url[c.r] = c.u]} BY DEF AddRemote
<1> QED BY <1>1 DEF Refs

LEMMA FetchFrame ==
    ASSUME NEW s, Good(s), NEW r \in Remotes, NEW t \in Fetch(s, r)
    PROVE  /\ t.url = s.url /\ t.local = s.local /\ t.server = s.server
           /\ \A b \in Branches : OnServer(s, r)[b] \subseteq t.tracking[r][b]
<1> DEFINE f == [b \in Branches |->
            IF OnServer(s, r)[b] = {} THEN s.tracking[r][b] ELSE OnServer(s, r)[b]]
<1>1. t = [s EXCEPT !.tracking[r] = f] BY DEF Fetch
<1>2. s \in Refs BY DEF Good
<1>3. \A b \in Branches : OnServer(s, r)[b] \subseteq f[b] OBVIOUS
<1> HIDE DEF f
<1>4. t.url = s.url /\ t.local = s.local /\ t.server = s.server /\ t.tracking[r] = f
    BY <1>1, <1>2 DEF Refs
<1> QED BY <1>3, <1>4

LEMMA TrackFrame ==
    ASSUME NEW s \in Refs, NEW r \in Remotes, NEW b \in Branches
    PROVE  /\ s.local[b] = {} /\ s.tracking[r][b] # {} =>
                CreateBranchFromRef(s, Track(r, b)) # {}
           /\ \A t \in CreateBranchFromRef(s, Track(r, b)) :
                /\ t.url = s.url /\ t.server = s.server /\ t.tracking = s.tracking
                /\ t.upstream[b] = [r |-> r, b |-> b]
                /\ t.local[b] = s.tracking[r][b]
<1> DEFINE c == Track(r, b)
           from == [r |-> r, b |-> b]
           start == s.tracking[r][b]
<1>1. /\ c.b = b /\ c.from = from /\ c.track = TRUE
      /\ c.from.r = r /\ c.from.b = b
    BY DEF Track
<1>2. from \in RemoteBranches /\ start \in Tips BY RefsFields DEF RemoteBranches
<1> HIDE DEF c, from
<1>3. s.local[b] = {} /\ start # {} => CreateBranchFromRef(s, c) # {}
    BY <1>1 DEF CreateBranchFromRef, Exists
<1>4. ASSUME NEW t \in CreateBranchFromRef(s, c)
      PROVE  /\ t.url = s.url /\ t.server = s.server /\ t.tracking = s.tracking
             /\ t.upstream[b] = from /\ t.local[b] = start
  <2> HIDE DEF start
  <2>1. t = [s EXCEPT !.local[b] = start, !.upstream[b] = from]
      BY <1>1 DEF CreateBranchFromRef, start
  <2> QED BY <1>2, <2>1 DEF Refs
<1> QED BY <1>3, <1>4 DEF c, from

\* What is watched was watched before, unless it was just asked for.
LEMMA WatchedBefore ==
    ASSUME goal' = goal, seen \subseteq seen', Watched'
    PROVE  Watched
    BY DEF Watched, Undisturbed

LEMMA FlowFields ==
    ASSUME IInv, flow # None
    PROVE  flow.r \in Remotes /\ flow.b \in Branches \union {None}
    BY FlowForms DEF IInv, TypeOK

LEMMA GoalFields ==
    ASSUME IInv, goal # None
    PROVE  goal.r \in Remotes /\ goal.b \in Branches \union {None}
    BY DEF IInv, TypeOK

LEMMA InputInPhase ==
    ASSUME FInv, Ask \/ Request \/ DeleteSelectedBranch
    PROVE  FInv'
<1>1. goal' = None BY DEF Ask, Request, DeleteSelectedBranch, Input
<1>2. IInv' BY NextInv DEF FInv, Next, User
<1> QED BY <1>1, <1>2 DEF FInv, Undivided, InPhase, Watched

LEMMA SubmitInPhase == ASSUME FInv, Submit PROVE FInv'
<1>1. IInv' BY NextInv DEF FInv, Next, User
<1>2. /\ queue = <<>> /\ job = None /\ modal # None /\ modal' = None
      /\ effects' = <<Git(modal)>> /\ queue' = <<>> /\ job' = None /\ repo' = repo
    BY DEF Submit, Idle
<1>3. modal \in Command BY <1>2 DEF FInv, IInv, TypeOK
<1>4. goal = None BY <1>2 DEF FInv, Undivided
<1>5. Git(modal).do # "CheckBranchMerged" BY <1>3, EffectForms
<1>6. Undivided' BY <1>2, <1>5 DEF Undivided
<1>7. ASSUME goal' # None PROVE Adding'
  <2>1. modal.op = "AddRemote" /\ flow' = [stage |-> "add", r |-> modal.r, b |-> modal.b]
        /\ goal' = IF Known(repo, modal.r) THEN None ELSE Goal(modal)
      BY <1>4, <1>7 DEF Submit
  <2>2. ~Known(repo, modal.r) /\ goal' = Goal(modal) BY <1>7, <2>1
  <2> DEFINE lost == modal.b # None /\ (Exists(repo, modal.b) \/ repo.server[modal.u][modal.b] = {})
  <2>3. goal'.r = modal.r /\ goal'.b = IF lost THEN None ELSE modal.b
      BY <2>2 DEF Goal
  <2>4. modal.r \in Remotes /\ modal.b \in Branches \union {None} BY <1>3, <2>1, CommandFields
  <2>5. flow' \in Flow BY <2>1, <2>4 DEF Flow
  <2>6. flow' # None BY <2>5, FlowAssumption DEF FlowAssumption
  <2>7. flow'.stage = "add" /\ flow'.r = modal.r /\ flow'.b = modal.b BY <2>1
  <2>8. At("add")' BY <2>3, <2>6, <2>7 DEF At
  <2>9. goal'.b # None =>
          repo.local[goal'.b] = {} /\ repo.server[modal.u][goal'.b] # {} /\ flow'.b = goal'.b
      BY <2>3, <2>7 DEF Exists
  <2>10. ~Known(repo, goal.r)' BY <1>2, <2>2, <2>3 DEF Known
  <2>11. \E c \in Command :
            /\ c.op = "AddRemote" /\ c.r = goal'.r /\ ~Known(repo', goal'.r)
            /\ (goal'.b # None =>
                    repo'.local[goal'.b] = {} /\ repo'.server[c.u][goal'.b] # {} /\ flow'.b = goal'.b)
            /\ effects' = <<Git(c)>> /\ queue' = <<>> /\ job' = None
      BY <1>2, <1>3, <2>1, <2>3, <2>9, <2>10
  <2> QED BY <2>8, <2>11 DEF Adding, OnlyEffect, Wanted
<1> QED BY <1>1, <1>6, <1>7 DEF FInv, InPhase, Watched

LEMMA CancelInPhase == ASSUME FInv, Cancel PROVE FInv'
<1>1. IInv' BY NextInv DEF FInv, Next, User
<1>2. goal' = None BY DEF Cancel, history, FInv, Undivided
<1> QED BY <1>1, <1>2 DEF FInv, Undivided, InPhase, Watched

\* What others do ends the watch.
LEMMA OthersInPhase == ASSUME FInv, Others PROVE FInv'
<1>1. IInv' BY NextInv DEF FInv, Next
<1>2. "outside" \in seen' /\ UNCHANGED <<modal, queue, effects, job, goal>>
    BY DEF Others, OutsideCommit, OutsideGit, OutsidePush, Outside, run
<1>3. ~Watched' BY <1>2 DEF Watched, Undisturbed
<1> QED BY <1>1, <1>2, <1>3 DEF FInv, Undivided, InPhase

\* A step that puts down neither a merge check nor a question keeps the flow
\* undivided.
LEMMA StaysUndivided ==
    ASSUME Undivided, goal' = goal, modal' = modal,
           \A i \in 1..Len(effects') :
              \/ effects'[i].do # "CheckBranchMerged"
              \/ \E j \in 1..Len(effects) : effects'[i] = effects[j],
           \A i \in 1..Len(queue') :
              \/ queue'[i].ev \notin CheckEvents
              \/ \E j \in 1..Len(queue) : queue'[i] = queue[j]
    PROVE  Undivided'
    BY DEF Undivided

LEMMA StartCommandInPhase == ASSUME FInv, StartCommand PROVE FInv'
<1>1. IInv' BY NextInv DEF FInv, Next, Commands
<1>2. /\ job = None /\ effects # <<>> /\ Head(effects).do = "RunGitCommand"
      /\ job' = [c |-> Head(effects).c, left |-> Processes(Head(effects).c), plan |-> {}]
      /\ effects' = Tail(effects)
      /\ UNCHANGED <<repo, flow, modal, queue, goal, seen>>
    BY DEF StartCommand, history
<1>3. effects \in Seq(Effect) BY DEF FInv, IInv, TypeOK
<1>4. /\ Head(effects) = effects[1] /\ Head(effects) \in Effect /\ Len(effects) \in Nat \ {0}
      /\ \A i \in 1..Len(Tail(effects)) :
            Tail(effects)[i] = effects[i + 1] /\ i + 1 \in 1..Len(effects)
    BY <1>2, <1>3, TailOf
<1>5. Undivided' BY <1>2, <1>4, StaysUndivided DEF FInv
<1>6. job'.c = Head(effects).c /\ job'.left = Processes(Head(effects).c) BY <1>2
<1>7. job' # None
  <2>1. Head(effects).c \in Command BY <1>2, <1>4, EffectFields
  <2>2. Processes(Head(effects).c) \in {<<"fetch", "collect", "update">>, <<"fetch", "merge">>,
                                        <<"rename", "set-url">>, <<"all">>}
      BY DEF Processes
  <2>3. Processes(Head(effects).c) \in Seq(ProcessNames) BY <2>2, ProcessSequences
  <2>4. job' \in Job BY <1>2, <2>1, <2>3 DEF Job
  <2> QED BY <2>4, FlowAssumption DEF FlowAssumption
<1>8. ASSUME Watched' PROVE (Adding \/ Fetching \/ Branching \/ Finished)'
  <2>1. Adding \/ Fetching \/ Branching \/ Finished
      BY <1>2, <1>8, WatchedBefore DEF FInv, InPhase
  <2>2. CASE Adding
    <3>1. PICK c \in Command :
            /\ c.op = "AddRemote" /\ c.r = goal.r /\ ~Known(repo, goal.r) /\ Wanted(c.u)
            /\ effects = <<Git(c)>> /\ queue = <<>>
        BY <1>2, <2>2 DEF Adding, OnlyEffect, OnlyEvent, OnlyJob
    <3>2. Head(effects).c = c /\ Tail(effects) = <<>> BY <3>1 DEF Git
    <3>3. At("add")' BY <1>2, <2>2 DEF Adding, At
    <3> QED BY <1>2, <1>6, <1>7, <3>1, <3>2, <3>3 DEF Adding, OnlyJob, Wanted, Known
  <2>3. CASE Fetching
    <3>1. effects = <<Git(FetchIt)>> /\ queue = <<>>
        BY <1>2, <2>3, EffectForms DEF Fetching, OnlyEffect, OnlyEvent, OnlyJob
    <3>2. Head(effects).c = FetchIt /\ Tail(effects) = <<>> BY <3>1 DEF Git
    <3>3. Processes(FetchIt) = <<"fetch", "collect", "update">> BY DEF Processes, FetchIt
    <3>4. Head(job'.left) = "fetch" BY <1>6, <3>2, <3>3
    <3>5. effects' = <<>> /\ queue' = <<>> /\ job' # None /\ job'.c = FetchIt
        BY <1>2, <1>6, <1>7, <3>1, <3>2
    <3> QED BY <1>2, <2>3, <3>4, <3>5 DEF Fetching, OnlyJob, At, Offered, Wanted, Known, FetchIt
  <2>4. CASE Branching
    <3>1. effects = <<Git(Track(flow.r, flow.b)), Load>> /\ queue = <<>>
        BY <1>2, <2>4 DEF Branching
    <3>2. Head(effects).c = Track(flow.r, flow.b) /\ Tail(effects) = <<Load>> BY <3>1 DEF Git
    <3> QED BY <1>2, <1>6, <1>7, <2>4, <3>1, <3>2
            DEF Branching, At, Offered, Wanted, Known, Fetched, OnServer
  <2>5. CASE Finished
    <3>1. 1 \in 1..Len(effects) BY <1>4
    <3> QED BY <1>2, <1>4, <2>5, <3>1 DEF Finished
  <2> QED BY <2>1, <2>2, <2>3, <2>4, <2>5
<1> QED BY <1>1, <1>5, <1>8 DEF FInv, InPhase

\* What may be left of the command that fetches.
LEMMA FetchLeft ==
    ASSUME job # None, JobShape, job.c.op = "FetchRemote" \/ job.c = FetchIt
    PROVE  /\ job.left \in {<<"fetch", "collect", "update">>, <<"collect", "update">>,
                            <<"update">>}
           /\ Len(job.left) = 1 <=> job.left = <<"update">>
<1>1. job.c.op = "FetchRemote" BY DEF FetchIt
<1>2. job.left \in {<<"fetch", "collect", "update">>, <<"collect", "update">>, <<"update">>}
    BY <1>1 DEF JobShape, SingleOps
<1> QED BY <1>2

LEMMA FetchPlan ==
    ASSUME Good(repo), job.c = FetchIt,
           job.left \in {<<"fetch", "collect", "update">>, <<"collect", "update">>}
    PROVE  Plan \in SUBSET (RemoteBranches \union
                            [b : Branches, old : Tips, to : RemoteBranches])
<1>1. job.c.op # "PullCurrentBranch" BY DEF FetchIt
<1>2. repo \in Refs BY DEF Good
<1>3. Plan \in {AutoForwards(repo), {}} BY <1>1 DEF Plan
<1>4. AutoForwards(repo) \subseteq [b : Branches, old : Tips, to : RemoteBranches]
  <2>1. ASSUME NEW m \in MainBranches, HasUpstream(repo, m)
        PROVE  m \in Branches /\ repo.local[m] \in Tips /\ repo.upstream[m] \in RemoteBranches
      BY <1>2, <2>1, RefsFields, UpstreamTipType, RefsAssumption DEF RefsAssumption
  <2> QED BY <2>1 DEF AutoForwards
<1> QED BY <1>3, <1>4

LEMMA ProcessInPhase == ASSUME FInv, Process PROVE FInv'
<1>1. IInv' BY NextInv DEF FInv, Next, Commands
<1>2. /\ job # None /\ repo' \in Outcomes
      /\ UNCHANGED <<flow, modal, effects, goal, seen>>
    BY DEF Process, history
<1>3. /\ Good(repo) /\ repo \in Refs /\ job.c \in Command /\ JobShape
      /\ job = [c |-> job.c, left |-> job.left, plan |-> job.plan]
    BY <1>2 DEF FInv, IInv, TypeOK, JobShape, Good
<1>4. /\ Completed(job.c).ev \notin CheckEvents
      /\ Completed(job.c) \in Event /\ Completed(job.c).ev = "GitOperationCompleted"
      /\ Completed(job.c).summary = Summary(job.c)
    BY <1>3, CompletedEvent DEF CheckEvents, Completed
<1>5. CASE Len(job.left) = 1
  <2>1. job' = None /\ queue' = Append(queue, Completed(job.c)) BY <1>5 DEF Process
  <2>2. queue \in Seq(Event) BY DEF FInv, IInv, TypeOK
  <2>3. \A i \in 1..Len(queue') :
          queue'[i] = Completed(job.c) \/ \E j \in 1..Len(queue) : queue'[i] = queue[j]
      BY <1>4, <2>1, <2>2
  <2>4. Undivided' BY <1>2, <1>4, <2>3, StaysUndivided DEF FInv
  <2>5. queue = <<>> => queue' = <<Completed(job.c)>>
    <3>1. Append(<<>>, Completed(job.c)) = <<Completed(job.c)>> OBVIOUS
    <3> QED BY <2>1, <3>1
  <2>6. ASSUME Watched' PROVE (Adding \/ Fetching \/ Branching \/ Finished)'
    <3>1. Adding \/ Fetching \/ Branching \/ Finished
        BY <1>2, <2>6, WatchedBefore DEF FInv, InPhase
    <3>2. goal.r \in Remotes /\ goal.b \in Branches \union {None}
        BY <1>2, <2>6, GoalFields DEF FInv, Watched
    <3>3. CASE Adding
      <4>1. /\ job.c.op = "AddRemote" /\ job.c.r = goal.r /\ ~Known(repo, goal.r)
            /\ Wanted(job.c.u) /\ effects = <<>> /\ queue = <<>>
          BY <1>2, <3>3 DEF Adding, OnlyEffect, OnlyEvent, OnlyJob
      <4>2. job.left = <<"all">> BY <1>2, <1>3, <4>1 DEF JobShape, SingleOps
      <4>3. repo' \in AddRemote(repo, job.c) BY <1>2, <4>1, <4>2 DEF Outcomes, SingleProcess
      <4>4. job.c.u \in Urls BY <1>3, <4>1, CommandFields
      <4>5. /\ repo'.url[goal.r] = job.c.u /\ repo'.local = repo.local
            /\ repo'.server = repo.server
          BY <1>3, <3>2, <4>1, <4>3, <4>4, AddRemoteFrame
      <4>6. Offered'
          BY <1>2, <4>1, <4>4, <4>5, RefsAssumption DEF Offered, Known, Wanted, RefsAssumption
      <4>7. Summary(job.c) = <<"Added remote", goal.r>> BY <4>1 DEF Summary
      <4>8. At("add")' BY <1>2, <3>3 DEF Adding, At
      <4> QED BY <1>2, <1>4, <2>1, <2>5, <4>1, <4>6, <4>7, <4>8 DEF Adding, OnlyEvent
    <3>4. CASE Fetching
      <4>1. /\ job.c = FetchIt /\ (Head(job.left) # "fetch" => Fetched)
            /\ effects = <<>> /\ queue = <<>> /\ Offered
          BY <1>2, <3>4 DEF Fetching, OnlyEffect, OnlyEvent, OnlyJob
      <4>2. job.left = <<"update">>
          BY <1>2, <1>3, <1>5, <4>1, FetchLeft
      <4>3. Head(job.left) = "update" BY <4>2
      <4>4. repo' \in UpdateBranchRefs(repo, job.plan) /\ PlanOK(job.plan)
          BY <1>2, <1>3, <4>2, <4>3 DEF Outcomes, JobShape
      <4>5. /\ repo'.tracking = repo.tracking /\ repo'.url = repo.url
            /\ repo'.server = repo.server
            /\ \A b \in Branches : repo.local[b] = {} <=> repo'.local[b] = {}
          BY <1>3, <4>4, UpdateBranchRefsGood
      <4>6. Fetched' BY <1>2, <4>1, <4>3, <4>5 DEF Fetched, OnServer
      <4>7. Offered' BY <1>2, <3>2, <4>1, <4>5 DEF Offered, Known, Wanted
      <4>8. Summary(job.c) = <<"Fetched", goal.r>> BY <4>1 DEF Summary, FetchIt
      <4>9. At("fetch")' BY <1>2, <3>4 DEF Fetching, At
      <4> QED BY <1>2, <1>4, <2>1, <2>5, <4>1, <4>6, <4>7, <4>8, <4>9 DEF Fetching, OnlyEvent
    <3>5. CASE Branching
      <4>1. /\ job.c = Track(goal.r, flow.b) /\ effects = <<Load>> /\ queue = <<>>
            /\ flow # None /\ flow.stage = "branch" /\ flow.b # None /\ Offered /\ Fetched
          BY <1>2, <3>5 DEF Branching, At
      <4>2. flow.b \in Branches BY <4>1, FlowFields DEF FInv
      <4>3. job.c.op = "CreateBranchFromRef" /\ job.c.track = TRUE BY <4>1 DEF Track
      <4>4. job.left = <<"all">> BY <1>2, <1>3, <4>3 DEF JobShape, SingleOps
      <4>5. repo' \in CreateBranchFromRef(repo, Track(goal.r, flow.b))
          BY <1>2, <4>1, <4>3, <4>4 DEF Outcomes, SingleProcess
      <4>6. /\ repo'.url = repo.url /\ repo'.server = repo.server
            /\ repo'.tracking = repo.tracking
            /\ repo'.upstream[flow.b] = [r |-> goal.r, b |-> flow.b]
            /\ repo'.local[flow.b] = repo.tracking[goal.r][flow.b]
          BY <1>3, <3>2, <4>2, <4>5, TrackFrame
      <4>7. Follows'
        <5>1. [r |-> goal.r, b |-> flow.b] \in [r : Remotes, b : Branches] BY <3>2, <4>2
        <5>2. [r |-> goal.r, b |-> flow.b] # None
            BY <5>1, RefsAssumption DEF RefsAssumption
        <5>3. UpstreamTip(repo', flow.b) = repo'.tracking[goal.r][flow.b]
            BY <4>6, <5>2 DEF UpstreamTip
        <5>4. goal.b # None => flow.b = goal.b BY <4>1 DEF Offered, Wanted
        <5> QED BY <1>2, <4>6, <5>3, <5>4 DEF Follows
      <4>8. Fetched' /\ Known(repo, goal.r)'
          BY <1>2, <4>1, <4>6 DEF Fetched, OnServer, Known, Offered
      <4>9. Summary(job.c) = <<"Created tracking">> BY <4>3 DEF Summary
      <4>10. Len(queue') = 1 /\ Tracked(queue[1])'
        <5>1. Len(queue') = 1 /\ queue'[1] = Completed(job.c) BY <2>5, <4>1
        <5> QED BY <1>4, <4>9, <5>1, Zenon DEF Tracked
      <4>11. \A i \in 1..Len(effects') : effects'[i].do = "LoadRepoDetail"
          BY <1>2, <4>1, EffectForms
      <4> QED BY <1>2, <2>1, <4>1, <4>7, <4>8, <4>10, <4>11 DEF Finished
    <3> QED BY <1>2, <3>1, <3>3, <3>4, <3>5 DEF Finished
  <2> QED BY <1>1, <2>4, <2>6 DEF FInv, InPhase
<1>6. CASE Len(job.left) # 1
  <2>1. job' = [job EXCEPT !.left = Tail(@), !.plan = Plan] /\ UNCHANGED queue
      BY <1>6 DEF Process
  <2>2. job' = [c |-> job.c, left |-> Tail(job.left), plan |-> Plan] BY <1>3, <2>1
  <2>3. job'.c = job.c /\ job'.left = Tail(job.left) BY <2>2
  <2>4. Undivided' BY <1>2, <2>1 DEF FInv, Undivided
  <2>5. ASSUME Watched' PROVE (Adding \/ Fetching \/ Branching \/ Finished)'
    <3>1. Adding \/ Fetching \/ Branching \/ Finished
        BY <1>2, <2>5, WatchedBefore DEF FInv, InPhase
    <3>2. goal.r \in Remotes BY <1>2, <2>5, GoalFields DEF FInv, Watched
    <3>3. CASE Adding
      <4>1. job.c.op = "AddRemote" BY <1>2, <3>3 DEF Adding, OnlyEffect, OnlyEvent, OnlyJob
      <4>2. job.left = <<"all">> BY <1>2, <1>3, <4>1 DEF JobShape, SingleOps
      <4> QED BY <1>6, <4>2
    <3>4. CASE Fetching
      <4>1. /\ job.c = FetchIt /\ (Head(job.left) # "fetch" => Fetched)
            /\ effects = <<>> /\ queue = <<>> /\ Offered
          BY <1>2, <3>4 DEF Fetching, OnlyEffect, OnlyEvent, OnlyJob
      <4>2. job.left \in {<<"fetch", "collect", "update">>, <<"collect", "update">>}
          BY <1>2, <1>3, <1>6, <4>1, FetchLeft
      <4>3. /\ repo'.url = repo.url /\ repo'.local = repo.local
            /\ repo'.server = repo.server /\ Fetched'
        <5>1. CASE job.left = <<"fetch", "collect", "update">>
          <6>1. Head(job.left) = "fetch" BY <5>1
          <6>2. repo' \in FetchOf(repo, job.c) BY <1>2, <6>1 DEF Outcomes
          <6>3. FetchFrom(repo, job.c) = {goal.r} /\ job.c.op = "FetchRemote"
              BY <4>1 DEF FetchFrom, FetchIt
          <6>4. repo' \in Fetch(repo, goal.r) BY <6>2, <6>3 DEF FetchOf
          <6>5. /\ repo'.url = repo.url /\ repo'.local = repo.local
                /\ repo'.server = repo.server
                /\ \A b \in Branches :
                      OnServer(repo, goal.r)[b] \subseteq repo'.tracking[goal.r][b]
              BY <1>3, <3>2, <6>4, FetchFrame
          <6> QED BY <1>2, <6>5 DEF Fetched, OnServer
        <5>2. CASE job.left = <<"collect", "update">>
          <6>1. Head(job.left) = "collect" BY <5>2
          <6>2. repo' = repo BY <1>2, <6>1 DEF Outcomes
          <6> QED BY <1>2, <4>1, <6>1, <6>2 DEF Fetched, OnServer
        <5> QED BY <4>2, <5>1, <5>2
      <4>4. Offered' BY <1>2, <4>1, <4>3 DEF Offered, Known, Wanted
      <4>5. At("fetch")' BY <1>2, <3>4 DEF Fetching, At
      <4>6. job' # None
        <5>1. Tail(job.left) \in Seq(ProcessNames)
          <6>1. CASE job.left = <<"fetch", "collect", "update">>
            <7>1. Tail(job.left) = <<"collect", "update">> BY <6>1
            <7> QED BY <7>1, ProcessSequences
          <6>2. CASE job.left = <<"collect", "update">>
            <7>1. Tail(job.left) = <<"update">> BY <6>2
            <7> QED BY <7>1, ProcessSequences
          <6> QED BY <4>2, <6>1, <6>2
        <5>2. Plan \in SUBSET (RemoteBranches \union
                               [b : Branches, old : Tips, to : RemoteBranches])
            BY <1>3, <4>1, <4>2, FetchPlan
        <5>3. job' \in Job BY <1>3, <2>2, <5>1, <5>2 DEF Job
        <5> QED BY <5>3, FlowAssumption DEF FlowAssumption
      <4>7. job'.c = FetchIt' BY <1>2, <2>3, <4>1 DEF FetchIt
      <4> QED BY <1>2, <2>1, <4>1, <4>3, <4>4, <4>5, <4>6, <4>7 DEF Fetching, OnlyJob
    <3>5. CASE Branching
      <4>1. job.c.op = "CreateBranchFromRef" BY <1>2, <3>5 DEF Branching, Track
      <4>2. job.left = <<"all">> BY <1>2, <1>3, <4>1 DEF JobShape, SingleOps
      <4> QED BY <1>6, <4>2
    <3> QED BY <1>2, <3>1, <3>3, <3>4, <3>5 DEF Finished
  <2> QED BY <1>1, <2>4, <2>5 DEF FInv, InPhase
<1> QED BY <1>5, <1>6

\* What the flow comes to when the command that runs fails.
LEMMA FailsInPhase ==
    ASSUME FInv, IInv', job # None, CommandFails, seen \subseteq seen',
           Watched' => \/ Head(job.left) # "all"
                       \/ ~Answers \/ Outcomes = {}
    PROVE  FInv'
<1>1. /\ job' = None /\ queue' = Append(queue, Failed)
      /\ UNCHANGED <<repo, flow, modal, effects, goal>>
    BY DEF CommandFails
<1>2. Failed \in Event /\ Failed.ev = "GitOperationFailed" /\ Failed.ev \notin CheckEvents
    BY FailedEvent DEF CheckEvents
<1>3. queue \in Seq(Event) BY DEF FInv, IInv, TypeOK
<1>4. \A i \in 1..Len(queue') :
        queue'[i] = Failed \/ \E j \in 1..Len(queue) : queue'[i] = queue[j]
    BY <1>1, <1>2, <1>3
<1>5. Undivided' BY <1>1, <1>2, <1>4, StaysUndivided DEF FInv
<1>6. /\ Good(repo) /\ repo \in Refs /\ job.c \in Command /\ JobShape
    BY DEF FInv, IInv, TypeOK, Good
<1>7. ASSUME Watched' PROVE (Adding \/ Fetching \/ Branching \/ Finished)'
  <2>1. Adding \/ Fetching \/ Branching \/ Finished
      BY <1>1, <1>7, WatchedBefore DEF FInv, InPhase
  <2>2. goal.r \in Remotes /\ goal.b \in Branches \union {None}
      BY <1>1, <1>7, GoalFields DEF FInv, Watched
  <2>3. ~Adding
    <3> SUFFICES ASSUME Adding PROVE FALSE OBVIOUS
    <3>1. job.c.op = "AddRemote" /\ job.c.r = goal.r /\ ~Known(repo, goal.r)
        BY DEF Adding, OnlyEffect, OnlyEvent, OnlyJob
    <3>2. job.left = <<"all">> BY <1>6, <3>1 DEF JobShape, SingleOps
    <3>3. Answers BY <3>1, <3>2 DEF Answers, Servers
    <3>4. Outcomes = AddRemote(repo, job.c) BY <3>1, <3>2 DEF Outcomes, SingleProcess
    <3>5. job.c.u \in Urls BY <1>6, <3>1, CommandFields
    <3>6. Outcomes # {} BY <1>6, <2>2, <3>1, <3>4, <3>5, AddRemoteFrame
    <3> QED BY <1>7, <3>2, <3>3, <3>6
  <2>4. CASE Fetching
    <3>1. queue = <<>> /\ effects = <<>>
        BY <2>4 DEF Fetching, OnlyEffect, OnlyEvent, OnlyJob
    <3>2. Append(<<>>, Failed) = <<Failed>> OBVIOUS
    <3>3. queue' = <<Failed>> BY <1>1, <3>1, <3>2
    <3> QED BY <1>1, <1>2, <2>4, <3>1, <3>3 DEF Fetching, OnlyEvent, At, Offered, Wanted, Known
  <2>5. CASE Branching
    <3>1. /\ job.c = Track(goal.r, flow.b) /\ effects = <<Load>>
          /\ flow # None /\ flow.stage = "branch" /\ flow.b # None /\ Offered /\ Fetched
        BY <2>5 DEF Branching, At
    <3>2. job.c.op = "CreateBranchFromRef" BY <3>1 DEF Track
    <3>3. job.left = <<"all">> BY <1>6, <3>2 DEF JobShape, SingleOps
    <3>4. Answers BY <3>2, <3>3 DEF Answers, Servers
    <3>5. Outcomes = CreateBranchFromRef(repo, Track(goal.r, flow.b))
        BY <3>1, <3>2, <3>3 DEF Outcomes, SingleProcess
    <3>6. Outcomes = {} BY <1>7, <3>3, <3>4
    <3>7. flow.b \in Branches BY <3>1, FlowFields DEF FInv
    <3>8. goal.b = None
      <4> SUFFICES ASSUME goal.b # None PROVE FALSE OBVIOUS
      <4>1. goal.b \in Branches /\ flow.b = goal.b /\ repo.local[goal.b] = {}
            /\ OnServer(repo, goal.r)[goal.b] # {}
          BY <2>2, <3>1 DEF Offered, Wanted, OnServer
      <4>2. repo.tracking[goal.r][goal.b] # {} BY <3>1, <4>1 DEF Fetched
      <4>3. CreateBranchFromRef(repo, Track(goal.r, goal.b)) # {}
          BY <1>6, <2>2, <4>1, <4>2, TrackFrame
      <4> QED BY <3>5, <3>6, <4>1, <4>3
    <3>9. \A i \in 1..Len(effects') : effects'[i].do = "LoadRepoDetail"
        BY <1>1, <3>1, EffectForms
    <3>10. (flow = None \/ flow.stage = "branch")' BY <1>1, <3>1
    <3>11. Known(repo, goal.r)' /\ Fetched' /\ Follows'
        BY <1>1, <3>1, <3>8 DEF Known, Fetched, OnServer, Follows, Offered
    <3> QED BY <1>1, <3>8, <3>9, <3>10, <3>11 DEF Finished
  <2> QED BY <2>1, <2>3, <2>4, <2>5 DEF Finished
<1> QED BY <1>5, <1>7 DEF FInv, InPhase

LEMMA RefusedInPhase == ASSUME FInv, GitRefuses PROVE FInv'
<1>1. IInv' BY NextInv DEF FInv, Next, Commands
<1> QED BY <1>1, FailsInPhase DEF GitRefuses

\* The flow does not go on by itself from the failure of its first or its last
\* command; it does from a fetch that fails.
LEMMA ProcessFailsInPhase == ASSUME FInv, ProcessFails PROVE FInv'
<1>1. IInv' BY NextInv DEF FInv, Next, Commands
<1>2. seen' = seen \union {Head(job.left)} BY DEF ProcessFails
<1>3. Watched' => Head(job.left) # "all" BY <1>2 DEF Watched, Undisturbed
<1> QED BY <1>1, <1>2, <1>3, FailsInPhase DEF ProcessFails

LEMMA LoadsInPhase == ASSUME FInv, Loads PROVE FInv'
<1>1. IInv' BY NextInv DEF FInv, Next
<1>2. /\ job = None /\ effects # <<>> /\ effects' = Tail(effects)
      /\ seen \subseteq seen' /\ UNCHANGED <<repo, flow, modal, job, goal>>
    BY DEF Loads, LoadRepoDetail, LoadRepoDetailFails, CheckBranchMerged, Apply
<1>3. effects \in Seq(Effect) /\ queue \in Seq(Event) BY DEF FInv, IInv, TypeOK
<1>4. /\ Head(effects) = effects[1] /\ Len(effects) \in Nat \ {0}
      /\ \A i \in 1..Len(Tail(effects)) :
            Tail(effects)[i] = effects[i + 1] /\ i + 1 \in 1..Len(effects)
    BY <1>2, <1>3, TailOf
<1>5. CASE LoadRepoDetail
  <2>a. [ev |-> "RepoDetailLoaded", detail |-> Detail(repo)] \in Event
      BY DetailType DEF FInv, IInv, TypeOK, Event
  <2>2. PICK e \in Event : e = [ev |-> "RepoDetailLoaded", detail |-> Detail(repo)] BY <2>a
  <2>1. queue' = Append(queue, e) /\ Head(effects).do = "LoadRepoDetail" /\ UNCHANGED seen
      BY <1>5, <2>2 DEF LoadRepoDetail, Apply
  <2>3. /\ e.ev = "RepoDetailLoaded" /\ e.ev \notin CheckEvents
        /\ \A r \in Remotes : Known(repo, r) => r \in e.detail.remotes
      BY <2>2 DEF CheckEvents, Detail
  <2>4. Append(<<>>, e) = <<e>> OBVIOUS
  <2>5. /\ \A i \in 1..Len(queue) : i \in 1..Len(queue') /\ queue'[i] = queue[i]
        /\ \A i \in 1..Len(queue') :
              queue'[i] = e \/ \E j \in 1..Len(queue) : queue'[i] = queue[j]
      BY <1>3, <2>1, <2>2
  <2>6. Undivided' BY <1>2, <1>4, <2>3, <2>5, StaysUndivided DEF FInv
  <2>7. ASSUME Watched' PROVE (Adding \/ Fetching \/ Branching \/ Finished)'
    <3>1. Adding \/ Fetching \/ Branching \/ Finished
        BY <1>2, <2>1, <2>7, WatchedBefore DEF FInv, InPhase
    <3>2. goal.r \in Remotes BY <1>2, <2>7, GoalFields DEF FInv, Watched
    <3>3. ~Adding
      <4> SUFFICES ASSUME Adding PROVE FALSE OBVIOUS
      <4>1. PICK c : effects = <<Git(c)>>
          BY <1>2 DEF Adding, OnlyEffect, OnlyEvent, OnlyJob
      <4>2. Head(effects).do = "RunGitCommand" BY <4>1 DEF Git
      <4> QED BY <2>1, <4>2
    <3>4. CASE Fetching
      <4>1. effects \in {<<Load>>, <<Git(FetchIt)>>} /\ queue = <<>> /\ Offered
          BY <1>2, <3>4 DEF Fetching, OnlyEffect, OnlyEvent, OnlyJob
      <4>2. effects = <<Load>> BY <2>1, <4>1 DEF Git
      <4>3. effects' = <<>> /\ queue' = <<e>> BY <1>2, <2>1, <2>4, <4>1, <4>2
      <4>4. goal'.r \in e.detail.remotes BY <1>2, <2>3, <3>2, <4>1 DEF Offered
      <4>5. OnlyEvent(e)' BY <1>2, <4>3 DEF OnlyEvent
      <4>6. At("fetch")' /\ Offered'
          BY <1>2, <3>4 DEF Fetching, At, Offered, Wanted, Known
      <4> QED BY <2>2, <2>3, <4>4, <4>5, <4>6 DEF Fetching
    <3>5. CASE Branching
      <4>1. effects = <<Git(Track(flow.r, flow.b)), Load>> BY <1>2, <3>5 DEF Branching
      <4> QED BY <2>1, <4>1 DEF Git
    <3>6. CASE Finished
      <4>1. \A i \in 1..Len(effects') : effects'[i].do = "LoadRepoDetail"
          BY <1>2, <1>4, <3>6 DEF Finished
      <4>2. (goal.b # None /\ flow # None => \E i \in 1..Len(queue) : Tracked(queue[i]))'
          BY <1>2, <2>5, <3>6 DEF Finished, Tracked
      <4> QED BY <1>2, <3>6, <4>1, <4>2 DEF Finished, Known, Fetched, OnServer, Follows
    <3> QED BY <3>1, <3>3, <3>4, <3>5, <3>6
  <2> QED BY <1>1, <2>6, <2>7 DEF FInv, InPhase
<1>6. CASE LoadRepoDetailFails
  <2>1. "detail" \in seen' /\ queue' = queue BY <1>6 DEF LoadRepoDetailFails
  <2>2. ~Watched' BY <2>1 DEF Watched, Undisturbed
  <2>3. Undivided' BY <1>2, <1>4, <2>1, StaysUndivided DEF FInv
  <2> QED BY <1>1, <2>2, <2>3 DEF FInv, InPhase
<1>7. CASE CheckBranchMerged
  <2>1. Head(effects).do = "CheckBranchMerged" BY <1>7 DEF CheckBranchMerged, Apply
  <2>2. 1 \in 1..Len(effects) /\ effects[1].do = "CheckBranchMerged" BY <1>4, <2>1
  <2>3. goal = None BY <2>2 DEF FInv, Undivided
  <2> QED BY <1>1, <1>2, <2>3 DEF FInv, Undivided, InPhase, Watched
<1> QED BY <1>5, <1>6, <1>7 DEF Loads

LEMMA CompletedInPhase == ASSUME FInv, GitOperationCompleted PROVE FInv'
<1>1. IInv' BY NextInv DEF FInv, Next, Reducer
<1>2. Reduce("GitOperationCompleted") /\ UNCHANGED <<detail, modal>> BY DEF GitOperationCompleted
<1>3. /\ job = None /\ effects = <<>> /\ queue # <<>> /\ queue' = Tail(queue)
      /\ Head(queue) \in Event /\ Head(queue).ev = "GitOperationCompleted"
      /\ UNCHANGED <<repo, job, goal>>
    BY <1>2, ReduceFacts DEF FInv
<1>4. UNCHANGED seen BY <1>2 DEF Reduce, history
<1>5. queue \in Seq(Event) BY DEF FInv, IInv, TypeOK
<1>6. /\ Head(queue) = queue[1] /\ Len(queue) \in Nat \ {0}
      /\ \A i \in 1..Len(queue') : queue'[i] = queue[i + 1] /\ i + 1 \in 1..Len(queue)
      /\ \A i \in 1..Len(queue) : i # 1 => i - 1 \in 1..Len(queue') /\ queue'[i - 1] = queue[i]
    BY <1>3, <1>5, TailOf
<1>7. Undivided'
  <2>1. \A i \in 1..Len(effects') : effects'[i].do # "CheckBranchMerged"
    <3>1. effects' = <<Load>> \/ effects' = <<Git(Track(flow.r, flow.b)), Load>>
        BY CompletedSteps DEF FInv
    <3> QED BY <3>1 DEF Load, Git
  <2> QED BY <1>2, <1>3, <1>6, <2>1, StaysUndivided DEF FInv
<1>8. ASSUME Watched' PROVE (Adding \/ Fetching \/ Branching \/ Finished)'
  <2>1. Adding \/ Fetching \/ Branching \/ Finished
      BY <1>3, <1>4, <1>8, WatchedBefore DEF FInv, InPhase
  <2>2. CASE Adding
    <3>1. PICK e \in Event : /\ queue = <<e>> /\ e.summary = <<"Added remote", goal.r>>
        BY <1>3, <2>2 DEF Adding, OnlyEffect, OnlyEvent, OnlyJob
    <3>2. At("add") /\ Offered
        BY <1>3, <2>2 DEF Adding, OnlyEffect, OnlyEvent, OnlyJob
    <3>3. Head(queue).summary = <<"Added remote", goal.r>> /\ queue' = <<>>
      <4>1. Head(<<e>>) = e /\ Tail(<<e>>) = <<>> OBVIOUS
      <4> QED BY <1>3, <3>1, <4>1, Zenon
    <3>4. flow' = [flow EXCEPT !.stage = "fetch"] /\ effects' = <<Load>>
        BY <3>2, <3>3, CompletedSteps DEF FInv, At
    <3>5. flow \in Flow /\ flow' \in Flow /\ flow'.stage = "fetch"
        BY <3>2, <3>4, FlowForms DEF FInv, IInv, TypeOK, At
    <3>6. flow'.r = flow.r /\ flow'.b = flow.b BY <3>4, <3>5 DEF Flow
    <3>7. At("fetch")'
        BY <1>3, <3>2, <3>5, <3>6, FlowAssumption DEF At, FlowAssumption
    <3>8. Offered' BY <1>3, <3>2, <3>6 DEF Offered, Known, Wanted
    <3>9. OnlyEffect(Load)' BY <1>3, <3>3, <3>4 DEF OnlyEffect, Load
    <3> QED BY <3>7, <3>8, <3>9 DEF Fetching
  <2>3. CASE Fetching
    <3>1. PICK e \in Event : /\ queue = <<e>> /\ e.ev = "GitOperationCompleted" /\ Fetched
                             /\ e.summary = <<"Fetched", goal.r>>
        BY <1>3, <2>3 DEF Fetching, OnlyEffect, OnlyEvent, OnlyJob
    <3>2. At("fetch") /\ Offered BY <2>3 DEF Fetching
    <3>3. Head(queue).summary = <<"Fetched", goal.r>> /\ queue' = <<>>
      <4>1. Head(<<e>>) = e /\ Tail(<<e>>) = <<>> OBVIOUS
      <4> QED BY <1>3, <3>1, <4>1, Zenon
    <3>4. Fetched' BY <1>3, <3>1 DEF Fetched, OnServer
    <3>5. \/ flow.b = None /\ flow' = None /\ effects' = <<Load>>
          \/ /\ flow.b # None /\ flow' = [flow EXCEPT !.stage = "branch"]
             /\ effects' = <<Git(Track(flow.r, flow.b)), Load>>
        BY <3>2, <3>3, CompletedSteps DEF FInv, At
    <3>6. CASE flow.b = None /\ flow' = None /\ effects' = <<Load>>
      <4>1. goal.b = None BY <3>2, <3>6 DEF Offered, Wanted
      <4>2. \A i \in 1..Len(effects') : effects'[i].do = "LoadRepoDetail"
          BY <3>6, EffectForms
      <4> QED BY <1>3, <3>2, <3>4, <3>6, <4>1, <4>2 DEF Finished, Known, Follows, Offered
    <3>7. CASE /\ flow.b # None /\ flow' = [flow EXCEPT !.stage = "branch"]
               /\ effects' = <<Git(Track(flow.r, flow.b)), Load>>
      <4>1. flow \in Flow /\ flow' \in Flow /\ flow'.stage = "branch"
          BY <3>2, <3>7, FlowForms DEF FInv, IInv, TypeOK, At
      <4>2. flow'.r = flow.r /\ flow'.b = flow.b BY <3>7, <4>1 DEF Flow
      <4>3. At("branch")'
          BY <1>3, <3>2, <4>1, <4>2, FlowAssumption DEF At, FlowAssumption
      <4>4. Offered' BY <1>3, <3>2, <4>2 DEF Offered, Known, Wanted
      <4>5. (flow.b # None)' /\ effects' = <<Git(Track(flow'.r, flow'.b)), Load>>
          BY <3>7, <4>2
      <4> QED BY <1>3, <3>3, <3>4, <4>3, <4>4, <4>5 DEF Branching, Git, Load, Track
    <3> QED BY <3>5, <3>6, <3>7
  <2>4. ~Branching BY <1>3 DEF Branching
  <2>5. CASE Finished
    <3>1. /\ flow' = flow \/ flow' = None
          /\ effects' = <<Load>>
          /\ flow' # None => ~Tracked(Head(queue))
      <4>1. flow = None \/ flow.stage = "branch" BY <2>5 DEF Finished
      <4> QED BY <4>1, CompletedSteps DEF FInv, Tracked
    <3>2. \A i \in 1..Len(effects') : effects'[i].do = "LoadRepoDetail"
        BY <3>1, EffectForms
    <3>3. ASSUME goal.b # None, flow' # None PROVE \E i \in 1..Len(queue') : Tracked(queue'[i])
      <4>1. PICK i \in 1..Len(queue) : Tracked(queue[i])
          BY <2>5, <3>1, <3>3 DEF Finished
      <4>2. i # 1 BY <1>6, <3>1, <3>3, <4>1
      <4> QED BY <1>6, <4>1, <4>2
    <3>4. (goal.b # None /\ flow # None => \E i \in 1..Len(queue) : Tracked(queue[i]))'
        BY <1>3, <3>3 DEF Tracked
    <3>5. (flow = None \/ flow.stage = "branch")' BY <2>5, <3>1 DEF Finished
    <3>6. Known(repo, goal.r)' /\ Fetched' /\ Follows'
        BY <1>3, <2>5 DEF Finished, Known, Fetched, OnServer, Follows
    <3> QED BY <1>3, <3>2, <3>4, <3>5, <3>6 DEF Finished
  <2> QED BY <2>1, <2>2, <2>3, <2>4, <2>5
<1> QED BY <1>1, <1>7, <1>8 DEF FInv, InPhase

LEMMA ReducedInPhase ==
    ASSUME FInv, GitOperationFailed \/ RepoDetailLoaded
    PROVE  FInv'
<1>1. IInv' BY NextInv DEF FInv, Next, Reducer
<1>2. PICK event \in {"GitOperationFailed", "RepoDetailLoaded"} :
        /\ Reduce(event) /\ UNCHANGED <<flow, modal>>
        /\ event = "GitOperationFailed" => effects' = <<Load>>
        /\ event = "RepoDetailLoaded" =>
            effects' = IF flow # None /\ flow.stage = "fetch" /\ flow.r \in Head(queue).detail.remotes
                       THEN <<Git([op |-> "FetchRemote", r |-> flow.r])>>
                       ELSE <<>>
    BY DEF GitOperationFailed, RepoDetailLoaded
<1>3. /\ job = None /\ effects = <<>> /\ queue # <<>> /\ queue' = Tail(queue)
      /\ Head(queue) \in Event /\ Head(queue).ev = event
      /\ UNCHANGED <<repo, job, goal>>
    BY <1>2, ReduceFacts DEF FInv
<1>4. UNCHANGED seen BY <1>2 DEF Reduce, history
<1>5. queue \in Seq(Event) BY DEF FInv, IInv, TypeOK
<1>6. /\ Head(queue) = queue[1] /\ Len(queue) \in Nat \ {0}
      /\ \A i \in 1..Len(queue') : queue'[i] = queue[i + 1] /\ i + 1 \in 1..Len(queue)
      /\ \A i \in 1..Len(queue) : i # 1 => i - 1 \in 1..Len(queue') /\ queue'[i - 1] = queue[i]
    BY <1>3, <1>5, TailOf
<1>7. \/ effects' = <<Load>> /\ event = "GitOperationFailed"
      \/ effects' = <<>> /\ event = "RepoDetailLoaded"
      \/ /\ effects' = <<Git([op |-> "FetchRemote", r |-> flow.r])>>
         /\ flow # None /\ flow.stage = "fetch"
    BY <1>2
<1>8. Undivided'
  <2>1. \A i \in 1..Len(effects') : effects'[i].do # "CheckBranchMerged"
      BY <1>7 DEF Load, Git
  <2> QED BY <1>2, <1>3, <1>6, <2>1, StaysUndivided DEF FInv
<1>9. ASSUME Watched' PROVE (Adding \/ Fetching \/ Branching \/ Finished)'
  <2>1. Adding \/ Fetching \/ Branching \/ Finished
      BY <1>3, <1>4, <1>9, WatchedBefore DEF FInv, InPhase
  <2>2. ~Adding
    <3> SUFFICES ASSUME Adding PROVE FALSE OBVIOUS
    <3>1. PICK e : queue = <<e>> /\ e.ev = "GitOperationCompleted"
        BY <1>3 DEF Adding, OnlyEffect, OnlyEvent, OnlyJob
    <3>2. Head(queue) = e BY <3>1
    <3> QED BY <1>3, <3>1, <3>2
  <2>3. CASE Fetching
    <3>1. PICK e \in Event : /\ queue = <<e>>
                             /\ \/ e.ev = "GitOperationFailed"
                                \/ e.ev = "RepoDetailLoaded" /\ goal.r \in e.detail.remotes
                                \/ e.ev = "GitOperationCompleted"
        BY <1>3, <2>3 DEF Fetching, OnlyEffect, OnlyEvent, OnlyJob
    <3>2. Head(queue) = e /\ queue' = <<>> BY <1>3, <3>1
    <3>3. At("fetch") /\ Offered BY <2>3 DEF Fetching
    <3>4. event = "RepoDetailLoaded" => effects' = <<Git(FetchIt)>>
        BY <1>2, <1>3, <3>1, <3>2, <3>3 DEF At, FetchIt
    <3>5. effects' \in {<<Load>>, <<Git(FetchIt)>>} BY <1>2, <3>4
    <3>6. OnlyEffect(Load)' \/ OnlyEffect(Git(FetchIt))'
        BY <1>3, <3>2, <3>5 DEF OnlyEffect, Load, Git, FetchIt
    <3>7. At("fetch")' /\ Offered' BY <1>2, <1>3, <3>3 DEF At, Offered, Known, Wanted
    <3> QED BY <3>6, <3>7 DEF Fetching
  <2>4. ~Branching BY <1>3 DEF Branching
  <2>5. CASE Finished
    <3>1. flow = None \/ flow.stage = "branch" BY <2>5 DEF Finished
    <3>2. effects' \in {<<Load>>, <<>>} BY <1>7, <3>1
    <3>3. \A i \in 1..Len(effects') : effects'[i].do = "LoadRepoDetail"
        BY <3>2, EffectForms
    <3>4. ASSUME goal.b # None, flow # None PROVE \E i \in 1..Len(queue') : Tracked(queue'[i])
      <4>1. PICK i \in 1..Len(queue) : Tracked(queue[i]) BY <2>5, <3>4 DEF Finished
      <4>2. i # 1 BY <1>2, <1>3, <1>6, <4>1 DEF Tracked
      <4> QED BY <1>6, <4>1, <4>2
    <3>5. (goal.b # None /\ flow # None => \E i \in 1..Len(queue) : Tracked(queue[i]))'
        BY <1>2, <1>3, <3>4 DEF Tracked
    <3>6. Known(repo, goal.r)' /\ Fetched' /\ Follows'
        BY <1>3, <2>5 DEF Finished, Known, Fetched, OnServer, Follows
    <3> QED BY <1>2, <1>3, <3>1, <3>3, <3>5, <3>6 DEF Finished
  <2> QED BY <2>1, <2>2, <2>3, <2>4, <2>5
<1> QED BY <1>1, <1>8, <1>9 DEF FInv, InPhase

\* The result of a merge check belongs to another request.
LEMMA CheckedInPhase ==
    ASSUME FInv, BranchMergeCheckCompleted \/ BranchMergeCheckFailed
    PROVE  FInv'
<1>1. IInv' BY NextInv DEF FInv, Next, Reducer
<1>2. PICK event \in CheckEvents : Reduce(event)
    BY DEF BranchMergeCheckCompleted, BranchMergeCheckFailed, CheckEvents
<1>3. queue # <<>> /\ Head(queue).ev = event /\ goal' = goal
    BY <1>2, ReduceFacts DEF FInv
<1>4. Head(queue) = queue[1] /\ 1 \in 1..Len(queue)
    BY <1>3, TailOf DEF FInv, IInv, TypeOK
<1>5. goal = None BY <1>2, <1>3, <1>4 DEF FInv, Undivided
<1> QED BY <1>1, <1>3, <1>5 DEF FInv, Undivided, InPhase, Watched

LEMMA NextInPhase == ASSUME FInv, [Next]_vars PROVE FInv'
<1>1. CASE UNCHANGED vars
  <2>1. IInv' BY <1>1, NextInv DEF FInv
  <2>2. UNCHANGED <<repo, flow, modal, queue, effects, job, goal, seen>>
      BY <1>1 DEF vars, run, history
  <2>3. Undivided' BY <2>2 DEF FInv, Undivided
  <2>4. Watched' => Watched BY <2>2 DEF Watched, Undisturbed
  <2>5. Adding => Adding'
      BY <2>2 DEF Adding, At, Offered, Wanted, Known, OnlyEffect, OnlyEvent, OnlyJob
  <2>6. Fetching => Fetching'
      BY <2>2 DEF Fetching, At, Offered, Wanted, Known, OnlyEffect, OnlyEvent, OnlyJob, Fetched,
                  OnServer, FetchIt, Load, Git
  <2>7. Branching => Branching'
      BY <2>2 DEF Branching, At, Offered, Wanted, Known, Fetched, OnServer, Load, Git, Track
  <2>8. Finished => Finished'
      BY <2>2 DEF Finished, Known, Fetched, OnServer, Follows, UpstreamTip, Tracked
  <2> QED BY <2>1, <2>3, <2>4, <2>5, <2>6, <2>7, <2>8 DEF FInv, InPhase
<1>2. CASE User BY <1>2, InputInPhase, SubmitInPhase, CancelInPhase DEF User
<1>3. CASE Commands
    BY <1>3, StartCommandInPhase, ProcessInPhase, RefusedInPhase, ProcessFailsInPhase DEF Commands
<1>4. CASE Reducer BY <1>4, CompletedInPhase, ReducedInPhase, CheckedInPhase DEF Reducer
<1> QED BY <1>1, <1>2, <1>3, <1>4, LoadsInPhase, OthersInPhase DEF Next

\* When run() returns after a remote was added, nobody else having acted and
\* neither the addition, nor the branch, nor a read of the repository having
\* failed, the remote is fetched, and the branch asked for follows it: no
\* matter how often the fetch failed and was asked for again on the way.
THEOREM FlowCompletesHolds == Spec => []FlowCompletes
<1> QED BY InitInPhase, NextInPhase, FlowInPhases, PTL DEF Spec
=============================================================================
