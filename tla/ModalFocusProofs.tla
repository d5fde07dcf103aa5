-------------------------- MODULE ModalFocusProofs --------------------------
(***************************************************************************)
(* What ModalFocus promises for every set of subviews and gestures and for *)
(* every bound.                                                            *)
(***************************************************************************)
EXTENDS ModalFocus, SequenceTheorems, WellFoundedInduction, TLAPS

\* The interface before the bound on the nesting is looked at.
Screens == UIWith(Nat)

\* The modal invariants of an interface: what it is about is pending, there is
\* one at a time, its two ways back agree, and a menu belongs to a repository.
ModalInv(s) ==
    /\ Top(s) = "Confirm" <=> s.confirmation # None
    /\ Top(s) = "Menu" <=> s.menu # None
    /\ Top(s) = "InputPrompt" => s.prompt # None
    /\ Len(s.modals) <= 1
    /\ Len(s.contexts) >= Len(s.modals)
    /\ Top(s) = "Confirm" => Head(s.contexts).pane = s.confirmation
    /\ Top(s) = "Menu" => Head(s.contexts).pane = s.menu.focus
    /\ Top(s) = "InputPrompt" => Head(s.contexts).pane = s.prompt.focus
    /\ s.menu # None => s.mode = "Repository"

\* A handler that has nothing to do with modals leaves their part alone.
SameModals(s, t) ==
    /\ t.modals = s.modals /\ t.contexts = s.contexts
    /\ t.confirmation = s.confirmation /\ t.menu = s.menu
    /\ t.prompt = s.prompt

Keeps(s, t) ==
    /\ t \in Screens
    /\ SameModals(s, t)
    /\ s.modals = <<>> /\ s.focused \in PanesOf(s.mode)
          => t.focused \in PanesOf(t.mode)

\* What every handler promises.
Carries(s, t) == t \in Screens /\ ModalInv(t) /\ (FocusFits(s) => FocusFits(t))

LEMMA Single ==
  ASSUME NEW S, NEW q \in Seq(S), q # <<>>, Len(q) <= 1
  PROVE  /\ Len(q) = 1 /\ Head(q) \in S /\ Tail(q) = <<>>
<1>1. Len(q) \in Nat /\ Len(q) # 0
  BY EmptySeq, LenProperties
<1>2. Len(q) = 1
  BY <1>1
<1>3. Head(q) \in S
  OBVIOUS
<1>4. Tail(q) \in Seq(S) /\ Len(Tail(q)) = 0
  BY <1>2
<1>5. Tail(q) = <<>>
  BY <1>4, EmptySeq
<1> QED
  BY <1>2, <1>3, <1>5

LEMMA Push ==
  ASSUME NEW S, NEW q \in Seq(S), NEW c \in S
  PROVE  /\ <<c>> \o q \in Seq(S)
         /\ <<c>> \o q # <<>>
         /\ Head(<<c>> \o q) = c
         /\ Tail(<<c>> \o q) = q
         /\ Len(<<c>> \o q) = Len(q) + 1
<1>1. <<c>> \o q \in Seq(S)
  OBVIOUS
<1>2. Len(<<c>> \o q) = Len(q) + 1 /\ <<c>> \o q # <<>>
  OBVIOUS
<1>3. Head(<<c>> \o q) = c
  OBVIOUS
<1>4. Tail(<<c>> \o q) = q
  OBVIOUS
<1> QED
  BY <1>1, <1>2, <1>3, <1>4

\* The literals the handlers write are values of their fields.
LEMMA Literals ==
  /\ \A v \in {"Status", "Commits", "Rebase", "Submodules"} :
        v \in Subviews \cup {None} /\ v # None
  /\ None \in Subviews \cup {None}
  /\ {} \in SUBSET Subviews
  /\ {"Workspace", "Repository"} \subseteq Modes
  /\ RepoPanes \cup WorkspacePanes \cup {"Modal"} \subseteq Panes
  /\ None \notin Subviews
BY ModalAssumption DEF Modes, Panes, AllSubviews

LEMMA EnterRepoKeeps ==
  ASSUME NEW s \in Screens, NEW n \in Nat
  PROVE  Keeps(s, EnterRepo(s, n))
<1> DEFINE t == EnterRepo(s, n)
<1>1. "Repository" \in Modes /\ "RepoUnstaged" \in Panes
      /\ "Status" \in Subviews \cup {None} /\ {} \in SUBSET Subviews
  BY Literals DEF RepoPanes
<1>2. t \in Screens
  BY <1>1 DEF Screens, UIWith, EnterRepo
<1>3. SameModals(s, t)
  BY DEF Screens, UIWith, EnterRepo, SameModals
<1>4. t.focused \in PanesOf(t.mode)
  BY DEF Screens, UIWith, EnterRepo, PanesOf, RepoPanes
<1> QED
  BY <1>2, <1>3, <1>4 DEF Keeps

LEMMA LeaveRepoKeeps ==
  ASSUME NEW s \in Screens
  PROVE  Keeps(s, LeaveRepo(s))
<1> DEFINE t == LeaveRepo(s)
<1>1. "Workspace" \in Modes /\ "Repository" \in Modes
      /\ {"WorkspaceList", "RepoUnstaged", "RepoDetail"} \subseteq Panes
      /\ {"Status", "Submodules", None} \subseteq Subviews \cup {None}
      /\ {} \in SUBSET Subviews
  BY Literals DEF RepoPanes, WorkspacePanes
<1>2. CASE s.parents > 0
  <2> DEFINE e == EnterRepo(s, s.parents - 1)
  <2>1. s.parents - 1 \in Nat
    BY <1>2 DEF Screens, UIWith
  <2>2. e \in Screens /\ SameModals(s, e) /\ e.mode = "Repository"
    BY <2>1, EnterRepoKeeps DEF Keeps, EnterRepo, Screens, UIWith
  <2>3. t = [e EXCEPT !.subview = "Submodules", !.focused = "RepoDetail"]
    BY <1>2 DEF LeaveRepo
  <2> HIDE DEF e, t
  <2>4. t \in Screens /\ SameModals(s, t)
    BY <1>1, <2>2, <2>3 DEF Screens, UIWith, SameModals
  <2>5. t.focused \in PanesOf(t.mode)
    BY <2>2, <2>3 DEF Screens, UIWith, PanesOf, RepoPanes
  <2> QED
    BY <2>4, <2>5 DEF Keeps, t
<1>3. CASE ~(s.parents > 0)
  <2>1. t = [s EXCEPT !.mode = "Workspace", !.focused = "WorkspaceList",
                      !.main = "RepoUnstaged", !.subview = None,
                      !.filters = {}, !.box = "closed", !.search = "blurred"]
    BY <1>3 DEF LeaveRepo
  <2> HIDE DEF t
  <2>2. t \in Screens /\ SameModals(s, t)
    BY <1>1, <2>1 DEF Screens, UIWith, SameModals
  <2>3. t.focused \in PanesOf(t.mode)
    BY <2>1 DEF Screens, UIWith, PanesOf, WorkspacePanes
  <2> QED
    BY <2>2, <2>3 DEF Keeps, t
<1> QED
  BY <1>2, <1>3

LEMMA ClearFiltersKeeps ==
  ASSUME NEW s \in Screens
  PROVE  /\ Keeps(s, ClearFilters(s))
         /\ ClearFilters(s).mode = s.mode /\ ClearFilters(s).main = s.main
         /\ ClearFilters(s).focused = s.focused
         /\ ClearFilters(s).subview = s.subview
<1>1. ClearFilters(s) \in Screens
  BY DEF Screens, UIWith, ClearFilters
<1> QED
  BY <1>1 DEF Screens, UIWith, ClearFilters, Keeps, SameModals

LEMMA SetFocusedPaneKeeps ==
  ASSUME NEW s \in Screens, NEW p \in PanesOf(s.mode)
  PROVE  Keeps(s, SetFocusedPane(s, p))
<1> DEFINE t == SetFocusedPane(s, p)
<1>1. p \in Panes
  BY DEF PanesOf, Panes
<1>2. t \in Screens
  BY <1>1 DEF Screens, UIWith, SetFocusedPane
<1>3. SameModals(s, t) /\ t.focused = p /\ t.mode = s.mode
  BY DEF Screens, UIWith, SetFocusedPane, SameModals
<1> QED
  BY <1>2, <1>3 DEF Keeps

LEMMA RepoHandlersKeep ==
  ASSUME NEW s \in Screens, s.mode = "Repository"
  PROVE  /\ Keeps(s, FocusRepoMainPane(s))
         /\ \A v \in Subviews : Keeps(s, SwitchSubview(s, v))
         /\ Keeps(s, FocusFilter(s))
         /\ Keeps(s, BlurFilter(s))
         /\ Keeps(s, OpenCommitBox(s))
         /\ Keeps(s, CloseCommitBox(s))
<1> DEFINE c == ClearFilters(s)
<1>0. /\ PanesOf("Repository") = RepoPanes
      /\ RepoPanes \subseteq Panes
      /\ {"RepoUnstaged", "RepoStaged", "RepoDetail"} \subseteq RepoPanes
  BY Literals DEF PanesOf, RepoPanes
<1>1. /\ c \in Screens /\ SameModals(s, c) /\ c.mode = "Repository"
      /\ c.main = s.main /\ s.main \in {"RepoUnstaged", "RepoStaged"}
      /\ c.subview = s.subview /\ c.focused = s.focused
  BY ClearFiltersKeeps DEF Keeps, Screens, UIWith
<1>2. /\ FocusRepoMainPane(s) = [c EXCEPT !.focused = s.main]
      /\ \A v : SwitchSubview(s, v) =
            [c EXCEPT !.subview = v,
                      !.box = IF v \in {"Status", "Compare"}
                              THEN c.box ELSE "closed",
                      !.focused = "RepoDetail"]
      /\ FocusFilter(s) =
            IF s.subview \notin Filterable THEN c
            ELSE [c EXCEPT !.filters = c.filters \cup {s.subview},
                           !.focused = "RepoDetail"]
  BY DEF FocusRepoMainPane, SwitchSubview, FocusFilter
<1> HIDE DEF c
<1>3. Keeps(s, FocusRepoMainPane(s))
  <2> DEFINE t == FocusRepoMainPane(s)
  <2>0. t = [c EXCEPT !.focused = s.main] /\ s.main \in RepoPanes /\ s.main \in Panes
    BY <1>0, <1>1, <1>2
  <2> HIDE DEF t
  <2>1. t \in Screens
    BY <1>1, <2>0 DEF Screens, UIWith
  <2>2. SameModals(c, t) /\ t.mode = "Repository" /\ t.focused \in RepoPanes
    BY <1>1, <2>0 DEF SameModals, Screens, UIWith
  <2> QED
    BY <1>0, <1>1, <2>1, <2>2 DEF Keeps, SameModals, t
<1>4. ASSUME NEW v \in Subviews
      PROVE  Keeps(s, SwitchSubview(s, v))
  <2> DEFINE t == SwitchSubview(s, v)
             b == IF v \in {"Status", "Compare"} THEN c.box ELSE "closed"
  <2>0. /\ t = [c EXCEPT !.subview = v, !.box = b, !.focused = "RepoDetail"]
        /\ "RepoDetail" \in RepoPanes /\ "RepoDetail" \in Panes
        /\ b \in {"open", "closed"}
    BY <1>0, <1>1, <1>2 DEF Screens, UIWith
  <2> HIDE DEF t, b
  <2>1. t \in Screens
    BY <1>1, <2>0 DEF Screens, UIWith
  <2>2. SameModals(c, t) /\ t.mode = "Repository" /\ t.focused \in RepoPanes
    BY <1>1, <2>0 DEF SameModals, Screens, UIWith
  <2> QED
    BY <1>0, <1>1, <2>1, <2>2 DEF Keeps, SameModals, t
<1>5. Keeps(s, FocusFilter(s))
  <2>1. CASE s.subview \notin Filterable
    BY <1>1, <1>2, <2>1 DEF Keeps
  <2>2. CASE s.subview \in Filterable
    <3>1. s.subview \in Subviews
      BY <2>2, ModalAssumption DEF Filterable, Screens, UIWith
    <3> DEFINE t == FocusFilter(s)
               f == c.filters \cup {s.subview}
    <3>2. /\ t = [c EXCEPT !.filters = f, !.focused = "RepoDetail"]
          /\ "RepoDetail" \in RepoPanes /\ "RepoDetail" \in Panes
          /\ f \in SUBSET Subviews
      BY <1>0, <1>1, <1>2, <2>2, <3>1 DEF Screens, UIWith
    <3> HIDE DEF t, f
    <3>3. t \in Screens
      BY <1>1, <3>2 DEF Screens, UIWith
    <3>4. SameModals(c, t) /\ t.mode = "Repository" /\ t.focused \in RepoPanes
      BY <1>1, <3>2 DEF SameModals, Screens, UIWith
    <3> QED
      BY <1>0, <1>1, <3>3, <3>4 DEF Keeps, SameModals, t
  <2> QED
    BY <2>1, <2>2
<1>6. Keeps(s, BlurFilter(s))
  BY DEF BlurFilter, Keeps, SameModals, Screens, UIWith
<1>7. Keeps(s, OpenCommitBox(s))
  BY <1>0 DEF OpenCommitBox, Keeps, SameModals, Screens, UIWith
<1>8. Keeps(s, CloseCommitBox(s))
  BY DEF CloseCommitBox, Keeps, SameModals, Screens, UIWith
<1> QED
  BY <1>3, <1>4, <1>5, <1>6, <1>7, <1>8

LEMMA ShowDetailKeeps ==
  ASSUME NEW s \in Screens, NEW t \in ShowDetail(s)
  PROVE  Keeps(s, t) /\ t.mode = s.mode
<1>0. /\ PanesOf("Repository") = RepoPanes
      /\ "RepoDetail" \in RepoPanes /\ "RepoDetail" \in Panes
      /\ {"Rebase", "Commits"} \subseteq Subviews \cup {None}
  BY Literals DEF PanesOf, RepoPanes
<1>1. CASE t = s
  BY <1>1 DEF Keeps, SameModals
<1>2. CASE /\ s.mode = "Repository"
           /\ t = [s EXCEPT !.subview = "Rebase", !.box = "closed",
                            !.focused = "RepoDetail"]
  <2>1. t \in Screens
    BY <1>0, <1>2 DEF Screens, UIWith
  <2>2. SameModals(s, t) /\ t.mode = "Repository" /\ t.focused \in RepoPanes
    BY <1>0, <1>2 DEF SameModals, Screens, UIWith
  <2> QED
    BY <1>0, <1>2, <2>1, <2>2 DEF Keeps
<1>3. CASE /\ s.mode = "Repository"
           /\ t = [s EXCEPT !.subview = "Commits", !.focused = "RepoDetail"]
  <2>1. t \in Screens
    BY <1>0, <1>3 DEF Screens, UIWith
  <2>2. SameModals(s, t) /\ t.mode = "Repository" /\ t.focused \in RepoPanes
    BY <1>0, <1>3 DEF SameModals, Screens, UIWith
  <2> QED
    BY <1>0, <1>3, <2>1, <2>2 DEF Keeps
<1> QED
  BY <1>1, <1>2, <1>3 DEF ShowDetail

-----------------------------------------------------------------------------
(* Opening and closing modals.                                             *)

LEMMA OpenModalOpens ==
  ASSUME NEW s \in Screens, NEW k \in ModalKinds, s.modals = <<>>,
         NEW t, t = OpenModal(s, k)
  PROVE  /\ t \in Screens
         /\ t.modals # <<>> /\ Top(t) = k
         /\ Len(t.modals) = 1 /\ Len(t.contexts) >= 1
         /\ Head(t.contexts).pane = s.focused
         /\ t.confirmation = s.confirmation /\ t.menu = s.menu
         /\ t.prompt = s.prompt /\ t.mode = s.mode
<1> DEFINE c == CurrentContext(s)
           q == <<c>> \o s.contexts
           m == <<k>> \o s.modals
<1>1. c \in Context /\ c.pane = s.focused
  BY DEF CurrentContext, Context, Screens, UIWith
<1>2. s.contexts \in Seq(Context) /\ s.modals \in Seq(ModalKinds)
  BY DEF Screens, UIWith
<1>3. t = [s EXCEPT !.contexts = q, !.modals = m, !.focused = "Modal"]
  BY DEF OpenModal
<1> HIDE DEF c
<1>4. q \in Seq(Context) /\ Head(q) = c /\ Len(q) >= 1
  BY <1>1, <1>2, Push
<1>5. /\ m \in Seq(ModalKinds) /\ Head(m) = k /\ m # <<>>
      /\ Len(m) = 1
  BY <1>2, Push
<1>6. "Modal" \in Panes
  BY Literals
<1> HIDE DEF q, m
<1>7. t \in Screens
  BY <1>3, <1>4, <1>5, <1>6 DEF Screens, UIWith
<1>8. /\ t.modals = m /\ t.contexts = q /\ t.mode = s.mode
      /\ t.confirmation = s.confirmation /\ t.menu = s.menu
      /\ t.prompt = s.prompt
  BY <1>3 DEF Screens, UIWith
<1> QED
  BY <1>1, <1>4, <1>5, <1>7, <1>8 DEF Top

\* Over no modal, each kind of modal may be opened.
LEMMA OpensCarry ==
  ASSUME NEW s \in Screens, ModalInv(s), s.modals = <<>>
  PROVE  /\ Carries(s, OpenModal(s, "Help"))
         /\ Carries(s, OpenConfirm(s))
         /\ s.mode = "Repository"
               => \A k \in MenuKinds : Carries(s, OpenMenu(s, k))
         /\ \A k \in PromptKinds : Carries(s, OpenPrompt(s, k))
<1>0. /\ s.focused \in Panes /\ s.focused # None
      /\ {"Help", "Confirm", "Menu", "InputPrompt"} \subseteq ModalKinds
  BY ModalAssumption DEF Screens, UIWith, ModalKinds
<1>1. /\ Top(s) = "none" /\ s.confirmation = None /\ s.menu = None
      /\ Len(s.modals) = 0 /\ Len(s.contexts) \in Nat
      /\ s.contexts \in Seq(Context)
  BY DEF Top, ModalInv, Screens, UIWith
<1> DEFINE Good(t) == /\ t \in Screens /\ t.modals # <<>>
                      /\ Len(t.modals) = 1 /\ Len(t.contexts) >= 1
                      /\ Head(t.contexts).pane = s.focused /\ t.mode = s.mode
<1>F. ASSUME NEW t, Good(t)
      PROVE  (FocusFits(s) => FocusFits(t)) /\ Len(t.modals) <= 1
             /\ Len(t.contexts) >= Len(t.modals)
  BY <1>F DEF FocusFits
<1>2. Carries(s, OpenModal(s, "Help"))
  <2> DEFINE t == OpenModal(s, "Help")
  <2>1. /\ Good(t) /\ Top(t) = "Help"
        /\ t.confirmation = None /\ t.menu = None
    BY <1>0, <1>1, OpenModalOpens
  <2> HIDE DEF t
  <2> QED
    BY <1>F, <2>1 DEF Carries, ModalInv, t
<1>3. Carries(s, OpenConfirm(s))
  <2> DEFINE o == OpenModal(s, "Confirm")
             t == OpenConfirm(s)
  <2>1. /\ Good(o) /\ Top(o) = "Confirm"
        /\ o.confirmation = None /\ o.menu = None
    BY <1>0, <1>1, OpenModalOpens
  <2>2. t = [o EXCEPT !.confirmation = s.focused]
    BY DEF OpenConfirm
  <2> HIDE DEF o, t
  <2>3. /\ Good(t) /\ t.modals = o.modals
        /\ t.confirmation = s.focused /\ t.menu = None
    BY <1>0, <2>1, <2>2 DEF Screens, UIWith
  <2>4. Top(t) = "Confirm"
    BY <2>1, <2>3 DEF Top
  <2> QED
    BY <1>0, <1>F, <2>3, <2>4 DEF Carries, ModalInv, t
<1>4. ASSUME NEW k \in MenuKinds, s.mode = "Repository"
      PROVE  Carries(s, OpenMenu(s, k))
  <2> DEFINE o == OpenModal(s, "Menu")
             t == OpenMenu(s, k)
             m == [focus |-> s.focused, kind |-> k]
  <2>1. /\ Good(o) /\ Top(o) = "Menu"
        /\ o.confirmation = None /\ o.menu = None
    BY <1>0, <1>1, OpenModalOpens
  <2>2. t = [o EXCEPT !.menu = m]
    BY DEF OpenMenu
  <2>3. m \in [focus: Panes, kind: MenuKinds] /\ m # None /\ m.focus = s.focused
    BY <1>0, ModalAssumption
  <2> HIDE DEF o, t, m
  <2>4. /\ Good(t) /\ t.modals = o.modals
        /\ t.confirmation = None /\ t.menu = m
    BY <2>1, <2>2, <2>3 DEF Screens, UIWith
  <2>5. Top(t) = "Menu"
    BY <2>1, <2>4 DEF Top
  <2> QED
    BY <1>4, <1>F, <2>3, <2>4, <2>5 DEF Carries, ModalInv, t
<1>5. ASSUME NEW k \in PromptKinds
      PROVE  Carries(s, OpenPrompt(s, k))
  <2> DEFINE o == OpenModal(s, "InputPrompt")
             t == OpenPrompt(s, k)
             m == [focus |-> s.focused, kind |-> k]
  <2>1. /\ Good(o) /\ Top(o) = "InputPrompt"
        /\ o.confirmation = None /\ o.menu = None
    BY <1>0, <1>1, OpenModalOpens
  <2>2. t = [o EXCEPT !.prompt = m]
    BY DEF OpenPrompt
  <2>3. m \in [focus: Panes, kind: PromptKinds] /\ m # None /\ m.focus = s.focused
    BY <1>0, ModalAssumption
  <2> HIDE DEF o, t, m
  <2>4. /\ Good(t) /\ t.modals = o.modals
        /\ t.confirmation = None /\ t.menu = None /\ t.prompt = m
    BY <2>1, <2>2, <2>3 DEF Screens, UIWith
  <2>5. Top(t) = "InputPrompt"
    BY <2>1, <2>4 DEF Top
  <2> QED
    BY <1>F, <2>3, <2>4, <2>5 DEF Carries, ModalInv, t
<1> QED
  BY <1>2, <1>3, <1>4, <1>5

\* A handler that keeps the modals carries the invariant where there is none.
LEMMA KeepingCarries ==
  ASSUME NEW s \in Screens, NEW t, ModalInv(s), Keeps(s, t),
         s.modals = <<>> \/ t.mode = s.mode \/ t.mode = "Repository"
  PROVE  /\ t \in Screens /\ ModalInv(t)
         /\ s.modals = <<>> => Carries(s, t)
<1>1. /\ t \in Screens /\ t.modals = s.modals /\ t.contexts = s.contexts
      /\ t.confirmation = s.confirmation /\ t.menu = s.menu
      /\ t.prompt = s.prompt
  BY DEF Keeps, SameModals
<1>2. Top(t) = Top(s)
  BY <1>1 DEF Top
<1>3. s.modals = <<>> => s.menu = None
  BY DEF ModalInv, Top
<1>4. ModalInv(t)
  BY <1>1, <1>2, <1>3 DEF ModalInv
<1> QED
  BY <1>1, <1>4 DEF Carries, Keeps, FocusFits

LEMMA ReturnReturns ==
  ASSUME NEW s \in Screens, NEW p \in Panes,
         Len(s.contexts) >= 1, NEW t, t = Return(s, p)
  PROVE  /\ t \in Screens /\ t.modals = s.modals /\ t.mode = s.mode
         /\ t.confirmation = s.confirmation /\ t.menu = s.menu
         /\ t.prompt = s.prompt
         /\ t.focused = Head(s.contexts).pane
         /\ Len(t.contexts) \in Nat
<1> DEFINE c == Head(s.contexts)
           q == Tail(s.contexts)
           r == [s EXCEPT !.contexts = q]
<1>1. /\ s.contexts # <<>> /\ c \in Context /\ q \in Seq(Context)
  BY DEF Screens, UIWith
<1>2. t = RestoreContext(r, c)
  BY <1>1 DEF Return
<1>3. /\ c.pane \in Panes /\ c.subview \in Subviews \cup {None}
  BY <1>1 DEF Context
<1> HIDE DEF c, q
<1>4. /\ r \in Screens /\ r.modals = s.modals /\ r.mode = s.mode
      /\ r.confirmation = s.confirmation /\ r.menu = s.menu
      /\ r.prompt = s.prompt
  BY <1>1 DEF Screens, UIWith
<1> HIDE DEF r
<1>5. CASE r.mode = "Repository" /\ c.subview # None
  <2> DEFINE f == ClearFilters(r)
  <2>1. f \in Screens /\ SameModals(r, f) /\ f.mode = r.mode
    BY <1>4, ClearFiltersKeeps DEF Keeps
  <2>2. t = [f EXCEPT !.focused = c.pane, !.subview = c.subview]
    BY <1>2, <1>5 DEF RestoreContext
  <2> HIDE DEF f
  <2>3. t \in Screens
    BY <1>3, <2>1, <2>2 DEF Screens, UIWith
  <2>4. SameModals(r, t) /\ t.focused = c.pane /\ t.mode = r.mode
    BY <2>1, <2>2 DEF Screens, UIWith, SameModals
  <2>5. Len(t.contexts) \in Nat
    BY <2>3 DEF Screens, UIWith
  <2> QED
    BY <1>4, <2>3, <2>4, <2>5 DEF SameModals, c
<1>6. CASE ~(r.mode = "Repository" /\ c.subview # None)
  <2>1. t = [r EXCEPT !.focused = c.pane]
    BY <1>2, <1>6 DEF RestoreContext
  <2>2. t \in Screens
    BY <1>3, <1>4, <2>1 DEF Screens, UIWith
  <2>3. SameModals(r, t) /\ t.focused = c.pane /\ t.mode = r.mode
    BY <1>4, <2>1 DEF Screens, UIWith, SameModals
  <2>4. Len(t.contexts) \in Nat
    BY <2>2 DEF Screens, UIWith
  <2> QED
    BY <1>4, <2>2, <2>3, <2>4 DEF SameModals, c
<1> QED
  BY <1>5, <1>6

\* With no modal and nothing pending but perhaps a lost prompt, the invariant
\* holds.
LEMMA NoModal ==
  ASSUME NEW t \in Screens, t.modals = <<>>, t.confirmation = None, t.menu = None
  PROVE  ModalInv(t)
<1>1. Top(t) = "none" /\ Len(t.modals) = 0 /\ Len(t.contexts) \in Nat
  BY DEF Top, Screens, UIWith
<1> QED
  BY <1>1 DEF ModalInv

\* The one modal there is, its context, and what is pending with it.
LEMMA OneModal ==
  ASSUME NEW s \in Screens, ModalInv(s), s.modals # <<>>
  PROVE  /\ Len(s.modals) = 1 /\ Tail(s.modals) = <<>>
         /\ Len(s.contexts) >= 1
         /\ Top(s) \in ModalKinds
         /\ Top(s) # "Confirm" => s.confirmation = None
         /\ Top(s) # "Menu" => s.menu = None
<1>1. s.modals \in Seq(ModalKinds) /\ s.contexts \in Seq(Context)
  BY DEF Screens, UIWith
<1>2. Len(s.modals) <= 1 /\ Len(s.contexts) >= Len(s.modals)
  BY DEF ModalInv
<1>3. /\ Len(s.modals) = 1 /\ Tail(s.modals) = <<>>
      /\ Head(s.modals) \in ModalKinds
  BY <1>1, <1>2, Single
<1>4. Top(s) \in ModalKinds
  BY <1>3 DEF Top
<1> QED
  BY <1>2, <1>3, <1>4 DEF ModalInv

LEMMA CloseTopModalCarries ==
  ASSUME NEW s \in Screens, ModalInv(s), s.modals # <<>>
  PROVE  Carries(s, CloseTopModal(s))
<1> DEFINE d == Dropped(s)
           p == [d EXCEPT !.modals = Tail(d.modals)]
           t == CloseTopModal(s)
<1>1. /\ d \in Screens /\ d.modals = s.modals /\ d.contexts = s.contexts
      /\ d.mode = s.mode
  BY DEF Dropped, Screens, UIWith
<1>2. d.confirmation = None /\ d.menu = None
  BY OneModal DEF Dropped, Screens, UIWith
<1>3. Tail(d.modals) = <<>> /\ Len(s.contexts) >= 1
  BY <1>1, OneModal
<1>4. t = IF p.modals = <<>> THEN Return(p, HomePane(p)) ELSE p
  BY DEF CloseTopModal
<1> HIDE DEF d
<1>5. /\ p \in Screens /\ p.modals = <<>> /\ p.contexts = s.contexts
      /\ p.mode = s.mode /\ p.confirmation = None /\ p.menu = None
  <2>1. p = [d EXCEPT !.modals = <<>>] /\ <<>> \in Seq(ModalKinds)
    BY <1>3, EmptySeq
  <2> QED
    BY <1>1, <1>2, <2>1 DEF Screens, UIWith
<1> HIDE DEF p
<1>6. t = Return(p, HomePane(p)) /\ HomePane(p) \in Panes
  BY <1>4, <1>5 DEF HomePane, Panes, WorkspacePanes, RepoPanes
<1> HIDE DEF t
<1>7. /\ t \in Screens /\ t.modals = <<>> /\ t.mode = s.mode
      /\ t.confirmation = None /\ t.menu = None
      /\ t.focused = Head(s.contexts).pane
  BY <1>3, <1>5, <1>6, ReturnReturns
<1>8. ModalInv(t)
  BY <1>7, NoModal
<1> QED
  BY <1>7, <1>8 DEF Carries, FocusFits, t

LEMMA ConfirmPendingCarries ==
  ASSUME NEW s \in Screens, ModalInv(s), Top(s) = "Confirm"
  PROVE  Carries(s, ConfirmPending(s))
<1> DEFINE p == [s EXCEPT !.confirmation = None, !.modals = Tail(s.modals)]
           t == ConfirmPending(s)
<1>1. s.modals # <<>>
  BY DEF Top
<1>2. Tail(s.modals) = <<>> /\ Len(s.contexts) >= 1 /\ s.menu = None
  BY <1>1, OneModal
<1>3. s.confirmation \in Panes
  BY DEF ModalInv, Screens, UIWith
<1>4. t = IF p.modals = <<>> THEN Return(p, s.confirmation) ELSE p
  BY DEF ConfirmPending
<1>5. /\ p \in Screens /\ p.modals = <<>> /\ p.contexts = s.contexts
      /\ p.mode = s.mode /\ p.confirmation = None /\ p.menu = None
  <2>1. /\ p = [s EXCEPT !.confirmation = None, !.modals = <<>>]
        /\ <<>> \in Seq(ModalKinds)
    BY <1>2, EmptySeq
  <2> HIDE DEF p
  <2> QED
    BY <1>2, <2>1 DEF Screens, UIWith
<1> HIDE DEF p
<1>6. t = Return(p, s.confirmation)
  BY <1>4, <1>5
<1> HIDE DEF t
<1>7. /\ t \in Screens /\ t.modals = <<>> /\ t.mode = s.mode
      /\ t.confirmation = None /\ t.menu = None
      /\ t.focused = Head(s.contexts).pane
  BY <1>2, <1>3, <1>5, <1>6, ReturnReturns
<1>8. ModalInv(t)
  BY <1>7, NoModal
<1> QED
  BY <1>1, <1>7, <1>8 DEF Carries, FocusFits, t

LEMMA PopToPops ==
  ASSUME NEW s \in Screens, Len(s.modals) = 1, Tail(s.modals) = <<>>,
         NEW p \in Panes, NEW t, t = PopTo(s, p)
  PROVE  /\ t \in Screens /\ t.modals = <<>> /\ t.focused = p
         /\ t.mode = s.mode /\ t.confirmation = s.confirmation
         /\ t.menu = s.menu /\ t.prompt = s.prompt
<1>1. t = [s EXCEPT !.modals = <<>>, !.focused = p] /\ <<>> \in Seq(ModalKinds)
  BY EmptySeq DEF PopTo
<1> QED
  BY <1>1 DEF Screens, UIWith

LEMMA CarriesOn ==
  ASSUME NEW s, NEW r, NEW t, Carries(s, r), Carries(r, t)
  PROVE  Carries(s, t)
BY DEF Carries

\* A menu that is submitted is left for the pane it was opened from.
LEMMA MenuLeft ==
  ASSUME NEW s \in Screens, ModalInv(s), Top(s) = "Menu",
         NEW t, t = PopTo([s EXCEPT !.menu = None], s.menu.focus)
  PROVE  Carries(s, t) /\ t.modals = <<>> /\ t.mode = "Repository"
<1> DEFINE r == [s EXCEPT !.menu = None]
<1>1. /\ s.modals # <<>> /\ s.menu \in [focus: Panes, kind: MenuKinds]
      /\ s.mode = "Repository" /\ Head(s.contexts).pane = s.menu.focus
  BY DEF Top, ModalInv, Screens, UIWith
<1>2. /\ Len(s.modals) = 1 /\ Tail(s.modals) = <<>> /\ s.confirmation = None
  BY <1>1, OneModal
<1>3. /\ r \in Screens /\ r.modals = s.modals /\ r.menu = None
      /\ r.confirmation = s.confirmation /\ r.mode = s.mode
  BY DEF Screens, UIWith
<1> HIDE DEF r
<1>4. t = PopTo(r, s.menu.focus) /\ s.menu.focus \in Panes
  BY <1>1 DEF r
<1>5. /\ t \in Screens /\ t.modals = <<>> /\ t.focused = s.menu.focus
      /\ t.mode = "Repository" /\ t.menu = None /\ t.confirmation = None
  BY <1>1, <1>2, <1>3, <1>4, PopToPops
<1>6. ModalInv(t)
  BY <1>5, NoModal
<1> QED
  BY <1>1, <1>5, <1>6 DEF Carries, FocusFits

LEMMA PromptLeft ==
  ASSUME NEW s \in Screens, ModalInv(s), Top(s) = "InputPrompt",
         NEW t, t = PopTo([s EXCEPT !.prompt = None], s.prompt.focus)
  PROVE  /\ Carries(s, t) /\ t.modals = <<>>
         /\ Carries(s, [t EXCEPT !.prompt = s.prompt])
<1> DEFINE r == [s EXCEPT !.prompt = None]
           l == [t EXCEPT !.prompt = s.prompt]
<1>1. /\ s.modals # <<>> /\ s.prompt \in [focus: Panes, kind: PromptKinds]
      /\ Head(s.contexts).pane = s.prompt.focus
  BY DEF Top, ModalInv, Screens, UIWith
<1>2. /\ Len(s.modals) = 1 /\ Tail(s.modals) = <<>>
      /\ s.confirmation = None /\ s.menu = None
  BY <1>1, OneModal
<1>3. /\ r \in Screens /\ r.modals = s.modals /\ r.menu = None
      /\ r.confirmation = None /\ r.mode = s.mode
  BY <1>2 DEF Screens, UIWith
<1> HIDE DEF r
<1>4. t = PopTo(r, s.prompt.focus) /\ s.prompt.focus \in Panes
  BY <1>1 DEF r
<1>5. /\ t \in Screens /\ t.modals = <<>> /\ t.focused = s.prompt.focus
      /\ t.mode = s.mode /\ t.menu = None /\ t.confirmation = None
  BY <1>1, <1>2, <1>3, <1>4, PopToPops
<1>6. /\ l \in Screens /\ l.modals = <<>> /\ l.focused = s.prompt.focus
      /\ l.mode = s.mode /\ l.menu = None /\ l.confirmation = None
  BY <1>1, <1>5 DEF Screens, UIWith
<1> HIDE DEF l
<1>7. ModalInv(t) /\ ModalInv(l)
  BY <1>5, <1>6, NoModal
<1> QED
  BY <1>1, <1>5, <1>6, <1>7 DEF Carries, FocusFits, l

LEMMA SubmitMenuCarries ==
  ASSUME NEW s \in Screens, ModalInv(s), Top(s) = "Menu",
         NEW t \in SubmitMenu(s)
  PROVE  Carries(s, t)
<1> DEFINE left == PopTo([s EXCEPT !.menu = None], s.menu.focus)
           out == [s EXCEPT !.menu = None, !.modals = Tail(s.modals)]
<1>1. Carries(s, left) /\ left.modals = <<>> /\ left.mode = "Repository"
  BY MenuLeft
<1>2. left \in Screens /\ ModalInv(left)
  BY <1>1 DEF Carries
<1>3. s.menu.kind \in MenuKinds
  BY DEF ModalInv, Screens, UIWith
<1>4. \/ t \in {s, left}
      \/ t = EnterRepo(out, 0)
      \/ t \in {FocusFilter(left), BlurFilter(left), OpenConfirm(left)}
      \/ \E k \in MenuKinds : t = OpenMenu(left, k)
      \/ \E k \in PromptKinds : t = OpenPrompt(left, k)
      \/ \E v \in Subviews : t = SwitchSubview(left, v)
  BY <1>3 DEF SubmitMenu, MenuKinds
<1> HIDE DEF left
<1>5. Carries(s, s)
  BY DEF Carries
<1>6. ASSUME t = EnterRepo(out, 0)
      PROVE  Carries(s, t)
  <2>1. s.modals # <<>>
    BY DEF Top
  <2>2. Tail(s.modals) = <<>> /\ s.confirmation = None
    BY <2>1, OneModal
  <2>3. out = [s EXCEPT !.menu = None, !.modals = <<>>] /\ <<>> \in Seq(ModalKinds)
    BY <2>2, EmptySeq
  <2> HIDE DEF out
  <2>4. /\ out \in Screens /\ out.modals = <<>> /\ out.menu = None
        /\ out.confirmation = None
    BY <2>2, <2>3 DEF Screens, UIWith
  <2>5. t \in Screens /\ SameModals(out, t)
    BY <1>6, <2>4, EnterRepoKeeps DEF Keeps
  <2>6. t.modals = <<>> /\ t.menu = None /\ t.confirmation = None
    BY <2>4, <2>5 DEF SameModals
  <2>7. ModalInv(t)
    BY <2>5, <2>6, NoModal
  <2>8. t.focused \in PanesOf(t.mode)
    BY <1>6, <2>4 DEF EnterRepo, PanesOf, RepoPanes, Screens, UIWith
  <2> QED
    BY <2>5, <2>6, <2>7, <2>8 DEF Carries, FocusFits
<1>7. /\ Carries(s, FocusFilter(left)) /\ Carries(s, BlurFilter(left))
      /\ \A v \in Subviews : Carries(s, SwitchSubview(left, v))
  BY <1>1, <1>2, RepoHandlersKeep, KeepingCarries, CarriesOn
<1>8. /\ Carries(s, OpenConfirm(left))
      /\ \A k \in MenuKinds : Carries(s, OpenMenu(left, k))
      /\ \A k \in PromptKinds : Carries(s, OpenPrompt(left, k))
  BY <1>1, <1>2, OpensCarry, CarriesOn
<1> QED
  BY <1>1, <1>4, <1>5, <1>6, <1>7, <1>8

LEMMA SubmitPromptCarries ==
  ASSUME NEW s \in Screens, ModalInv(s), Top(s) = "InputPrompt",
         NEW t \in SubmitPrompt(s)
  PROVE  Carries(s, t)
<1> DEFINE left == PopTo([s EXCEPT !.prompt = None], s.prompt.focus)
<1>1. /\ Carries(s, left) /\ left.modals = <<>>
      /\ Carries(s, [left EXCEPT !.prompt = s.prompt])
  BY PromptLeft
<1>2. left \in Screens /\ ModalInv(left)
  BY <1>1 DEF Carries
<1>3. s.prompt.kind \in PromptKinds /\ "Simple" \in PromptKinds
  BY DEF ModalInv, Screens, UIWith, PromptKinds
<1>4. t \in {s, left, OpenPrompt(left, "Simple"), [left EXCEPT !.prompt = s.prompt]}
  BY <1>3 DEF SubmitPrompt, PromptKinds
<1> HIDE DEF left
<1>5. Carries(s, s)
  BY DEF Carries
<1>6. Carries(s, OpenPrompt(left, "Simple"))
  BY <1>1, <1>2, <1>3, OpensCarry, CarriesOn
<1> QED
  BY <1>1, <1>4, <1>5, <1>6

-----------------------------------------------------------------------------
(* The steps.                                                              *)

\* The inductive invariant: besides the properties it says that a lookup is
\* out only while a repository and no modal is on the screen.
IInv ==
    /\ TypeOK
    /\ ModalInv(ui)
    /\ asked # "none" => ui.modals = <<>> /\ ui.mode = "Repository"

LEMMA Nested ==
  ASSUME NEW t \in Screens, Within(t)
  PROVE  t \in UI
BY ModalAssumption DEF Screens, UI, UIWith, Within

LEMMA Screen ==
  ASSUME IInv
  PROVE  ui \in Screens /\ ModalInv(ui) /\ asked \in Lookups
BY ModalAssumption DEF IInv, TypeOK, Screens, UI, UIWith

LEMMA InputStep ==
  ASSUME IInv, NEW S, Input(S), \A t \in S : Carries(ui, t)
  PROVE  IInv' /\ (FocusFits(ui) => FocusFits(ui)')
<1> PICK t \in S : Within(t) /\ ui' = t
  BY DEF Input
<1>1. t \in Screens /\ ModalInv(t) /\ (FocusFits(ui) => FocusFits(t))
  BY DEF Carries
<1>2. t \in UI /\ asked = "none" /\ asked' = asked
  BY <1>1, Nested DEF Input
<1>3. ModalInv(ui)' /\ (FocusFits(ui) => FocusFits(ui)')
  BY <1>1 DEF ModalInv, FocusFits, Top
<1> QED
  BY <1>2, <1>3 DEF IInv, TypeOK, Lookups

\* Everything the keys of a repository may do.
LEMMA RepoCarries ==
  ASSUME NEW s \in Screens, ModalInv(s), s.modals = <<>>, s.mode = "Repository"
  PROVE  /\ Carries(s, s)
         /\ \A p \in RepoPanes : Carries(s, SetFocusedPane(s, p))
         /\ \A v \in Subviews : Carries(s, SwitchSubview(s, v))
         /\ \A n \in Nat : Carries(s, EnterRepo(s, n))
         /\ Carries(s, FocusRepoMainPane(s)) /\ Carries(s, FocusFilter(s))
         /\ Carries(s, BlurFilter(s)) /\ Carries(s, OpenCommitBox(s))
         /\ Carries(s, CloseCommitBox(s)) /\ Carries(s, LeaveRepo(s))
         /\ Carries(s, OpenConfirm(s))
         /\ \A k \in MenuKinds : Carries(s, OpenMenu(s, k))
         /\ \A k \in PromptKinds : Carries(s, OpenPrompt(s, k))
<1>1. Carries(s, s)
  BY DEF Carries
<1>2. ASSUME NEW p \in RepoPanes
      PROVE  Carries(s, SetFocusedPane(s, p))
  <2>1. p \in PanesOf(s.mode)
    BY DEF PanesOf
  <2> QED
    BY <2>1, SetFocusedPaneKeeps, KeepingCarries
<1>3. ASSUME NEW v \in Subviews
      PROVE  Carries(s, SwitchSubview(s, v))
  BY RepoHandlersKeep, KeepingCarries
<1>4. ASSUME NEW n \in Nat
      PROVE  Carries(s, EnterRepo(s, n))
  BY EnterRepoKeeps, KeepingCarries
<1>5. /\ Carries(s, FocusRepoMainPane(s)) /\ Carries(s, FocusFilter(s))
      /\ Carries(s, BlurFilter(s)) /\ Carries(s, OpenCommitBox(s))
      /\ Carries(s, CloseCommitBox(s))
  BY RepoHandlersKeep, KeepingCarries
<1>6. Carries(s, LeaveRepo(s))
  BY LeaveRepoKeeps, KeepingCarries
<1> QED
  BY <1>1, <1>2, <1>3, <1>4, <1>5, <1>6, OpensCarry

\* Blurring the search, or focusing it, is nothing to the modals.
LEMMA SearchCarries ==
  ASSUME NEW s \in Screens, ModalInv(s), s.modals = <<>>,
         NEW b \in {"focused", "blurred"}
  PROVE  Carries(s, [s EXCEPT !.search = b])
<1>1. Keeps(s, [s EXCEPT !.search = b])
  BY DEF Keeps, SameModals, Screens, UIWith
<1> QED
  BY <1>1, KeepingCarries

LEMMA EscapeCarries ==
  ASSUME NEW s \in Screens, ModalInv(s)
  PROVE  Carries(s, Escape(s))
<1>1. CASE s.modals # <<>>
  BY <1>1, CloseTopModalCarries DEF Escape
<1>2. CASE s.modals = <<>> /\ s.mode = "Repository"
  <2>1. Escape(s) \in {CloseCommitBox(s), BlurFilter(s), FocusRepoMainPane(s),
                       LeaveRepo(s)}
    BY <1>2 DEF Escape, RepoEscape, Screens, UIWith
  <2> QED
    BY <1>2, <2>1, RepoCarries
<1>3. CASE s.modals = <<>> /\ s.mode # "Repository"
  <2>1. CASE s.box = "open"
    <3>1. Keeps(s, CloseCommitBox(s))
      BY DEF CloseCommitBox, Keeps, SameModals, Screens, UIWith
    <3>2. Escape(s) = CloseCommitBox(s)
      BY <1>3, <2>1 DEF Escape
    <3> QED
      BY <1>3, <3>1, <3>2, KeepingCarries
  <2>2. CASE s.box # "open"
    <3>1. Escape(s) = [s EXCEPT !.search = "blurred"]
      BY <1>3, <2>2 DEF Escape
    <3> QED
      BY <1>3, <3>1, SearchCarries
  <2> QED
    BY <2>1, <2>2
<1> QED
  BY <1>1, <1>2, <1>3

LEMMA InitInv == Init => IInv /\ FocusFits(ui)
<1> SUFFICES ASSUME Init PROVE IInv /\ FocusFits(ui)
  OBVIOUS
<1>1. /\ ui.mode = "Workspace" /\ ui.parents = 0
      /\ ui.focused = "WorkspaceList" /\ ui.modals = <<>>
      /\ ui.contexts = <<>> /\ ui.confirmation = None /\ ui.menu = None
  BY DEF Init
<1>2. /\ <<>> \in Seq(ModalKinds) /\ <<>> \in Seq(Context) /\ 0 \in 0..MaxNesting
      /\ "Workspace" \in Modes /\ "WorkspaceList" \in Panes
  BY EmptySeq, Literals, ModalAssumption DEF WorkspacePanes
<1>3. ui \in UI
  BY <1>2 DEF Init, UI, UIWith
<1>4. ui \in Screens /\ asked = "none"
  BY <1>3, ModalAssumption DEF Init, Screens, UI, UIWith
<1>5. ModalInv(ui)
  BY <1>1, <1>4, NoModal
<1>6. FocusFits(ui)
  BY <1>1 DEF FocusFits, PanesOf, WorkspacePanes
<1> QED
  BY <1>3, <1>4, <1>5, <1>6 DEF IInv, TypeOK, Lookups

LEMMA StutterStep ==
  ASSUME IInv, UNCHANGED vars
  PROVE  IInv' /\ (FocusFits(ui) => FocusFits(ui)')
BY DEF IInv, TypeOK, ModalInv, FocusFits, Top, vars

\* One step for each key or gesture, the double click aside.
LEMMA InputSteps ==
  ASSUME IInv,
         \/ KeyEsc \/ KeyInConfirm \/ KeyInMenu \/ KeyInPrompt
         \/ KeyInCommitBox \/ KeyAnywhere \/ KeyInSearch \/ KeyInWorkspace
         \/ KeyInFilter \/ KeyInRepo \/ KeyInMainPane \/ KeyInDetail
         \/ Click
  PROVE  IInv' /\ (FocusFits(ui) => FocusFits(ui)')
<1>0. ui \in Screens /\ ModalInv(ui)
  BY Screen
<1> DEFINE InRepo == ui.modals = <<>> /\ ui.mode = "Repository"
<1>R. ui.mode \in Modes /\ ui.parents \in Nat /\ ui.parents + 1 \in Nat
      /\ {"Simple"} \subseteq PromptKinds
      /\ {"CommandLog", "RecentRepos", "FilterOptions", "Options"} = MenuKinds
  BY <1>0 DEF Screens, UIWith, PromptKinds, MenuKinds
<1>1. CASE KeyEsc
  BY <1>0, <1>1, EscapeCarries, InputStep DEF KeyEsc
<1>2. CASE KeyInConfirm
  BY <1>0, <1>2, ConfirmPendingCarries, InputStep DEF KeyInConfirm
<1>3. CASE KeyInMenu
  BY <1>0, <1>3, SubmitMenuCarries, InputStep DEF KeyInMenu
<1>4. CASE KeyInPrompt
  BY <1>0, <1>4, SubmitPromptCarries, InputStep DEF KeyInPrompt
<1>5. CASE KeyInCommitBox
  <2>1. Keeps(ui, CloseCommitBox(ui)) /\ CloseCommitBox(ui).mode = ui.mode
    BY <1>0 DEF CloseCommitBox, Keeps, SameModals, Screens, UIWith
  <2>2. Carries(ui, CloseCommitBox(ui)) /\ Carries(ui, ui)
    BY <1>0, <1>5, <2>1, KeepingCarries DEF KeyInCommitBox, Carries
  <2> QED
    BY <1>5, <2>2, InputStep DEF KeyInCommitBox
<1>6. CASE KeyAnywhere
  <2>1. NextPane(ui) \in PanesOf(ui.mode) /\ PreviousPane(ui) \in PanesOf(ui.mode)
    BY DEF NextPane, PreviousPane, PanesOf, WorkspacePanes, RepoPanes
  <2>2. ui.modals = <<>>
    BY <1>6 DEF KeyAnywhere, NoOverlay
  <2>3. /\ Carries(ui, SetFocusedPane(ui, NextPane(ui)))
        /\ Carries(ui, SetFocusedPane(ui, PreviousPane(ui)))
    BY <1>0, <2>1, <2>2, SetFocusedPaneKeeps, KeepingCarries
  <2>4. Carries(ui, OpenModal(ui, "Help"))
    BY <1>0, <2>2, OpensCarry
  <2> QED
    BY <1>6, <2>3, <2>4, InputStep DEF KeyAnywhere
<1>7. CASE KeyInSearch
  <2>1. Carries(ui, [ui EXCEPT !.search = "blurred"])
    BY <1>0, <1>7, SearchCarries DEF KeyInSearch, NoOverlay
  <2> QED
    BY <1>7, <2>1, InputStep DEF KeyInSearch
<1>8. CASE KeyInWorkspace
  <2> DEFINE S == {[ui EXCEPT !.search = "focused"], EnterRepo(ui, 0)}
                    \cup {SetFocusedPane(ui, p) : p \in WorkspacePanes}
  <2>1. ui.modals = <<>> /\ PanesOf(ui.mode) = WorkspacePanes /\ Input(S)
    BY <1>8 DEF KeyInWorkspace, NoOverlay, PanesOf
  <2>2. Carries(ui, [ui EXCEPT !.search = "focused"])
    BY <1>0, <2>1, SearchCarries
  <2>3. Carries(ui, EnterRepo(ui, 0))
    BY <1>0, <2>1, EnterRepoKeeps, KeepingCarries
  <2>4. \A p \in WorkspacePanes : Carries(ui, SetFocusedPane(ui, p))
    BY <1>0, <2>1, SetFocusedPaneKeeps, KeepingCarries
  <2>5. \A t \in S : Carries(ui, t)
    BY <2>2, <2>3, <2>4
  <2> HIDE DEF S
  <2> QED
    BY <2>1, <2>5, InputStep
<1>9. CASE KeyInFilter
  <2>1. InRepo
    BY <1>9 DEF KeyInFilter, NoOverlay
  <2>2. Carries(ui, BlurFilter(ui))
    BY <1>0, <2>1, RepoCarries
  <2> QED
    BY <1>9, <2>2, InputStep DEF KeyInFilter
<1>10. CASE KeyInRepo
  <2> DEFINE S == {SetFocusedPane(ui, LeftPane(ui)),
                   SetFocusedPane(ui, RightPane(ui)),
                   OpenConfirm(ui), OpenPrompt(ui, "Simple"),
                   OpenMenu(ui, "CommandLog"), OpenMenu(ui, "RecentRepos")}
                    \cup {SwitchSubview(ui, v) : v \in Subviews}
  <2>1. InRepo /\ Input(S)
    BY <1>10 DEF KeyInRepo, RepoKeys, NoOverlay
  <2>2. LeftPane(ui) \in RepoPanes /\ RightPane(ui) \in RepoPanes
    BY DEF LeftPane, RightPane, RepoPanes
  <2>3. \A t \in S : Carries(ui, t)
    BY <1>0, <1>R, <2>1, <2>2, RepoCarries
  <2> HIDE DEF S
  <2> QED
    BY <2>1, <2>3, InputStep
<1>11. CASE KeyInMainPane
  <2> DEFINE S == {SetFocusedPane(ui, "RepoDetail"), FocusFilter(ui),
                   OpenMenu(ui, "Options")}
                    \cup (IF ui.focused = "RepoStaged" /\ ui.subview = "Status"
                          THEN {OpenCommitBox(ui)} ELSE {})
  <2>1. InRepo /\ Input(S)
    BY <1>11 DEF KeyInMainPane, RepoKeys, NoOverlay
  <2>2. "RepoDetail" \in RepoPanes
    BY DEF RepoPanes
  <2>3. \A t \in S : Carries(ui, t)
    BY <1>0, <1>R, <2>1, <2>2, RepoCarries
  <2> HIDE DEF S
  <2> QED
    BY <2>1, <2>3, InputStep
<1>12. CASE KeyInDetail
  <2> DEFINE S == {FocusRepoMainPane(ui), FocusFilter(ui), OpenMenu(ui, "Options")}
                    \cup (IF ui.subview \in Filterable
                          THEN {OpenMenu(ui, "FilterOptions")} ELSE {})
                    \cup {OpenPrompt(ui, k) : k \in PromptKinds}
                    \cup CASE ui.subview = "Submodules" ->
                                 {EnterRepo(ui, ui.parents + 1)}
                           [] ui.subview = "Worktrees" -> {EnterRepo(ui, 0)}
                           [] OTHER -> {}
  <2>1. InRepo /\ Input(S)
    BY <1>12 DEF KeyInDetail, RepoKeys, NoOverlay
  <2>2. \A t \in S : \/ t \in {FocusRepoMainPane(ui), FocusFilter(ui)}
                     \/ \E k \in MenuKinds : t = OpenMenu(ui, k)
                     \/ \E k \in PromptKinds : t = OpenPrompt(ui, k)
                     \/ \E n \in Nat : t = EnterRepo(ui, n)
    BY <1>R
  <2> HIDE DEF S
  <2>3. \A t \in S : Carries(ui, t)
    BY <1>0, <2>1, <2>2, RepoCarries
  <2> QED
    BY <2>1, <2>3, InputStep
<1>13. CASE Click
  <2> DEFINE S == {OpenMenu(ui, "CommandLog")}
                    \cup {SetFocusedPane(ui, p) : p \in RepoPanes}
                    \cup {SwitchSubview(ui, v) : v \in Subviews}
  <2>1. InRepo /\ Input(S)
    BY <1>13 DEF Click
  <2>2. \A t \in S : Carries(ui, t)
    BY <1>0, <1>R, <2>1, RepoCarries
  <2> HIDE DEF S
  <2> QED
    BY <2>1, <2>2, InputStep
<1> QED
  BY <1>1, <1>2, <1>3, <1>4, <1>5, <1>6, <1>7, <1>8, <1>9, <1>10, <1>11, <1>12, <1>13

\* The lookups, and the details that come by themselves.
LEMMA AnswerSteps ==
  ASSUME IInv, RewordInMenu \/ KeyAsks \/ WorkerAnswers \/ DetailLoaded
  PROVE  IInv' /\ (FocusFits(ui) => FocusFits(ui)')
<1>0. ui \in Screens /\ ModalInv(ui) /\ asked \in Lookups /\ ui \in UI
  BY Screen DEF IInv, TypeOK
<1>1. CASE RewordInMenu
  <2> DEFINE left == PopTo([ui EXCEPT !.menu = None], ui.menu.focus)
  <2>1. Carries(ui, left) /\ left.modals = <<>> /\ left.mode = "Repository"
    BY <1>0, <1>1, MenuLeft DEF RewordInMenu
  <2>2. left.parents = ui.parents
    BY <1>0 DEF PopTo, Screens, UIWith
  <2>3. ui' = left /\ asked' = "message"
    BY <1>1 DEF RewordInMenu
  <2> HIDE DEF left
  <2>4. ui' \in UI
    BY <1>0, <2>1, <2>2, <2>3 DEF Carries, Screens, UI, UIWith
  <2>5. ModalInv(ui)' /\ (FocusFits(ui) => FocusFits(ui)')
    BY <2>1, <2>3 DEF Carries, ModalInv, FocusFits, Top
  <2> QED
    BY <2>1, <2>3, <2>4, <2>5 DEF IInv, TypeOK, Lookups
<1>2. CASE KeyAsks
  <2>1. ui' = ui /\ ui.modals = <<>> /\ ui.mode = "Repository"
    BY <1>2 DEF KeyAsks, RepoKeys, NoOverlay
  <2>2. asked' \in Lookups
    BY <1>2 DEF KeyAsks, Lookups
  <2>3. ModalInv(ui)' /\ (FocusFits(ui) => FocusFits(ui)')
    BY <1>0, <2>1 DEF ModalInv, FocusFits, Top
  <2> QED
    BY <1>0, <2>1, <2>2, <2>3 DEF IInv, TypeOK
<1>3. CASE WorkerAnswers
  <2>1. /\ ui.modals = <<>> /\ ui.mode = "Repository"
        /\ asked \in {"merged", "message", "fixup"}
    BY <1>0, <1>3 DEF WorkerAnswers, IInv, Lookups
  <2>2. PICK t \in {ui, OpenConfirm(ui), OpenPrompt(ui, "Simple"),
                    SwitchSubview(ui, "Commits")} :
          Within(t) /\ ui' = t
    BY <1>3, <2>1 DEF WorkerAnswers
  <2>3. "Simple" \in PromptKinds /\ "Commits" \in Subviews
    BY ModalAssumption DEF PromptKinds
  <2>4. Carries(ui, t)
    BY <1>0, <2>1, <2>2, <2>3, RepoCarries
  <2>5. t \in UI /\ ModalInv(t) /\ (FocusFits(ui) => FocusFits(t))
    BY <2>2, <2>4, Nested DEF Carries
  <2>6. ModalInv(ui)' /\ (FocusFits(ui) => FocusFits(ui)')
    BY <2>2, <2>5 DEF ModalInv, FocusFits, Top
  <2>7. asked' = "none"
    BY <1>3 DEF WorkerAnswers
  <2> QED
    BY <2>2, <2>5, <2>6, <2>7 DEF IInv, TypeOK, Lookups
<1>4. CASE DetailLoaded
  <2>1. PICK t \in ShowDetail(ui) : ui' = t
    BY <1>4 DEF DetailLoaded
  <2>2. asked' = asked
    BY <1>4 DEF DetailLoaded
  <2>a. t.parents = ui.parents
    BY <1>0, <2>1 DEF ShowDetail, Screens, UIWith
  <2>3. Keeps(ui, t) /\ t.mode = ui.mode /\ t.parents = ui.parents
    BY <1>0, <2>a, ShowDetailKeeps
  <2>4. t \in Screens /\ ModalInv(t) /\ t.modals = ui.modals
        /\ t.contexts = ui.contexts
    BY <1>0, <2>3, KeepingCarries DEF Keeps, SameModals
  <2>5. t \in UI
    BY <1>0, <2>3, <2>4 DEF Screens, UI, UIWith
  <2>6. FocusFits(ui) => FocusFits(t)
    BY <2>3, <2>4 DEF Keeps, FocusFits
  <2>7. ModalInv(ui)' /\ (FocusFits(ui) => FocusFits(ui)')
    BY <2>1, <2>4, <2>6 DEF ModalInv, FocusFits, Top
  <2> QED
    BY <2>1, <2>2, <2>3, <2>4, <2>5, <2>7 DEF IInv, TypeOK
<1> QED
  BY <1>1, <1>2, <1>3, <1>4

\* A repository is entered beneath a modal.
Beneath == ui.modals # <<>> /\ ui.mode = "Workspace" /\ ui' = EnterRepo(ui, 0)

\* That double click loses the focus and keeps the rest.
LEMMA DoubleClickStep ==
  ASSUME IInv, DoubleClick
  PROVE  IInv' /\ (FocusFits(ui) /\ ~Beneath => FocusFits(ui)')
<1>0. ui \in Screens /\ ModalInv(ui)
  BY Screen
<1>1. CASE /\ ui.mode = "Workspace" /\ Input({EnterRepo(ui, 0)})
           /\ ui.modals = <<>> \/ "beneath" \in Gestures
  <2> DEFINE t == EnterRepo(ui, 0)
  <2>1. Keeps(ui, t)
    BY <1>0, EnterRepoKeeps
  <2>2. t.mode = "Repository"
    BY <1>0 DEF EnterRepo, Screens, UIWith
  <2>3. t \in Screens /\ ModalInv(t)
    BY <1>0, <2>1, <2>2, KeepingCarries
  <2>4. ui' = t /\ Within(t) /\ asked = "none" /\ asked' = asked
    BY <1>1 DEF Input
  <2>9. ui' = EnterRepo(ui, 0)
    BY <2>4
  <2> HIDE DEF t
  <2>5. t \in UI
    BY <2>3, <2>4, Nested
  <2>6. ModalInv(ui)'
    BY <2>3, <2>4 DEF ModalInv, Top
  <2>7. ui.modals = <<>> /\ FocusFits(ui) => FocusFits(t)
    BY <2>1 DEF Keeps, SameModals, FocusFits
  <2>8. FocusFits(ui) /\ ~Beneath => FocusFits(ui)'
    BY <1>1, <2>4, <2>7, <2>9 DEF FocusFits, Beneath
  <2> QED
    BY <2>4, <2>5, <2>6, <2>8 DEF IInv, TypeOK, Lookups
<1>2. CASE Top(ui) = "InputPrompt" /\ Input(SubmitPrompt(ui))
  BY <1>0, <1>2, SubmitPromptCarries, InputStep, DoubleClick DEF DoubleClick
<1> QED
  BY <1>1, <1>2, DoubleClick DEF DoubleClick

LEMMA NextInv ==
  ASSUME IInv, [Next]_vars
  PROVE  IInv' /\ (FocusFits(ui) /\ ~Beneath => FocusFits(ui)')
BY InputSteps, AnswerSteps, DoubleClickStep, StutterStep DEF Next

\* Every reachable interface is well typed, for every set of subviews and
\* gestures and every bound.
THEOREM InterfaceTyped == Spec => []TypeOK
<1>1. Init => IInv
  BY InitInv
<1>2. IInv /\ [Next]_vars => IInv'
  BY NextInv
<1>3. IInv => TypeOK
  BY DEF IInv
<1> QED
  BY <1>1, <1>2, <1>3, PTL DEF Spec

\* A modal on the screen can always be answered: what it is about is pending,
\* however the menus, prompts, lookups and gestures followed one another.
THEOREM ModalsAnswerable == Spec => []ModalAnswerable
<1>1. Init => IInv
  BY InitInv
<1>2. IInv /\ [Next]_vars => IInv'
  BY NextInv
<1>3. IInv => ModalAnswerable
  BY DEF IInv, ModalInv, ModalAnswerable
<1> QED
  BY <1>1, <1>2, <1>3, PTL DEF Spec

\* There is never a modal over another, and whether a modal is submitted or
\* closed it returns to the pane it was opened from.
THEOREM ModalsReturn == Spec => []ReturnPathsAgree
<1>1. Init => IInv
  BY InitInv
<1>2. IInv /\ [Next]_vars => IInv'
  BY NextInv
<1>3. IInv => ReturnPathsAgree
  BY DEF IInv, ModalInv, ReturnPathsAgree
<1> QED
  BY <1>1, <1>2, <1>3, PTL DEF Spec

\* Whatever the gestures, the focus stays in a pane of the mode on the screen,
\* also when a modal returns it, until a double click reaches the workspace list
\* beneath a modal.
THEOREM FocusFitsHolds == Spec => FocusFitsMode
<1>1. Init => IInv /\ FocusFits(ui)
  BY InitInv
<1>2. IInv /\ [Next]_vars => IInv'
  BY NextInv
<1>3. IInv /\ [Next]_vars => [FocusFits(ui) =>
                                \/ FocusFits(ui')
                                \/ ui.modals # <<>> /\ ui.mode = "Workspace" /\ ui' = EnterRepo(ui, 0)]_vars
  BY NextInv DEF Beneath, FocusFits
<1> QED
  BY <1>1, <1>2, <1>3, PTL DEF Spec, FocusFitsMode

-----------------------------------------------------------------------------
(* Backing out. What a recursive definition gives is shown by looking at   *)
(* the least number at which it would not.                                 *)

\* A set of numbers that is not empty has a least one.
LEMMA LeastNumber ==
  ASSUME NEW S \in SUBSET Nat, S # {}
  PROVE  \E n \in S : \A m \in S : n <= m
<1> DEFINE R == {ss \in Nat \X Nat : ss[1] < ss[2]}
<1>1. IsWellFoundedOn(R, Nat)
  BY NatLessThanWellFounded DEF OpToRel
<1> HIDE DEF R
<1>2. PICK n \in S : \A m \in S : <<m, n>> \notin R
  BY <1>1, WFMin
<1>3. \A m \in S : ~(m < n)
  BY <1>2 DEF R
<1> QED
  BY <1>3

\* g holds the states after 0, 1, ..., n presses of esc.
Escapes(s, n, g) == g = [i \in 0..n |-> IF i = 0 THEN s ELSE Escape(g[i - 1])]

LEMMA EscapesExist ==
  ASSUME NEW s, NEW n \in Nat
  PROVE  \E g : Escapes(s, n, g)
<1> DEFINE Bad == {k \in Nat : ~ \E g : Escapes(s, k, g)}
<1> SUFFICES ASSUME Bad # {} PROVE FALSE
  OBVIOUS
<1>1. PICK k \in Bad : \A m \in Bad : k <= m
  <2> HIDE DEF Bad
  <2>1. Bad \in SUBSET Nat
    BY DEF Bad
  <2> QED
    BY <2>1, LeastNumber
<1>2. CASE k = 0
  <2> DEFINE g == [i \in 0..0 |-> s]
  <2>1. g = [i \in 0..0 |-> IF i = 0 THEN s ELSE Escape(g[i - 1])]
    OBVIOUS
  <2>2. Escapes(s, 0, g)
    BY <2>1 DEF Escapes
  <2> QED
    BY <1>2, <2>2
<1>3. CASE k # 0
  <2>1. k \in Nat /\ k - 1 \in Nat /\ k - 1 \notin Bad
    BY <1>1, <1>3
  <2>2. PICK h : Escapes(s, k - 1, h)
    BY <2>1
  <2>3. h = [i \in 0..(k - 1) |-> IF i = 0 THEN s ELSE Escape(h[i - 1])]
    BY <2>2 DEF Escapes
  <2> DEFINE g == [i \in 0..k |-> IF i = k THEN Escape(h[k - 1]) ELSE h[i]]
  <2>4. \A i \in 0..k : g[i] = IF i = 0 THEN s ELSE Escape(g[i - 1])
    <3> TAKE i \in 0..k
    <3>1. CASE i = k
      BY <3>1, <2>1, <1>3
    <3>2. CASE i # k
      <4>1. i \in 0..(k - 1) /\ g[i] = h[i]
        BY <3>2, <2>1
      <4>2. h[i] = IF i = 0 THEN s ELSE Escape(h[i - 1])
        BY <4>1, <2>3
      <4>3. i # 0 => i - 1 \in 0..(k-1) /\ i - 1 \in 0..k /\ i - 1 # k
        BY <4>1, <2>1
      <4>4. i # 0 => g[i - 1] = h[i - 1]
        BY <4>3
      <4> QED
        BY <4>1, <4>2, <4>4
    <3> QED
      BY <3>1, <3>2
  <2>5. g = [i \in 0..k |-> IF i = 0 THEN s ELSE Escape(g[i - 1])]
    BY <2>4
  <2>6. Escapes(s, k, g)
    BY <2>5 DEF Escapes
  <2> QED
    BY <2>6, <1>1
<1> QED
  BY <1>2, <1>3

LEMMA AfterEscapesUnrolls ==
  ASSUME NEW s, NEW n \in Nat
  PROVE  \E g : /\ AfterEscapes(s, n) = g[n] /\ g[0] = s
                /\ \A i \in 1..n : g[i] = Escape(g[i - 1])
<1> DEFINE g == CHOOSE f : Escapes(s, n, f)
<1>1. Escapes(s, n, g)
  BY EscapesExist
<1>2. AfterEscapes(s, n) = g[n]
  BY DEF AfterEscapes, Escapes
<1> HIDE DEF g
<1>3. \A i \in 0..n : g[i] = IF i = 0 THEN s ELSE Escape(g[i - 1])
  BY <1>1, Zenon DEF Escapes
<1> QED
  BY <1>2, <1>3

\* How many presses of esc s may still take.
Left(s) ==
    IF s.mode = "Workspace"
    THEN (IF s.modals # <<>> THEN 1 ELSE 0) + (IF s.search = "focused" THEN 1 ELSE 0)
    ELSE s.parents + 1 + CASE s.modals # <<>> -> 4
                           [] s.modals = <<>> /\ s.box = "open" -> 3
                           [] s.modals = <<>> /\ s.box # "open" /\ FilterFocused(s) -> 2
                           [] s.modals = <<>> /\ s.box # "open" /\ ~FilterFocused(s)
                                /\ s.focused = "RepoDetail" /\ s.subview = "Status" -> 1
                           [] OTHER -> 0

\* What the presses rely on: there is one modal at most, and no commit box in
\* the workspace.
Backable(s) ==
    /\ s \in Screens
    /\ Len(s.modals) <= 1
    /\ s.mode = "Workspace" => s.box = "closed"

LEMMA LeftRange ==
  ASSUME NEW s, Backable(s)
  PROVE  /\ Left(s) \in Nat
         /\ Left(s) <= (IF s.mode = "Workspace" THEN 2 ELSE s.parents + 5)
         /\ Left(s) = 0 => AtRest(s)
<1>1. /\ s.parents \in Nat /\ s.mode \in {"Workspace", "Repository"}
      /\ s.search \in {"focused", "blurred"}
  BY DEF Backable, Screens, UIWith, Modes
<1>2. CASE s.mode = "Workspace"
  BY <1>1, <1>2 DEF Left, AtRest
<1>3. CASE s.mode # "Workspace"
  <2> DEFINE k == CASE s.modals # <<>> -> 4
                    [] s.modals = <<>> /\ s.box = "open" -> 3
                    [] s.modals = <<>> /\ s.box # "open" /\ FilterFocused(s) -> 2
                    [] s.modals = <<>> /\ s.box # "open" /\ ~FilterFocused(s)
                         /\ s.focused = "RepoDetail" /\ s.subview = "Status" -> 1
                    [] OTHER -> 0
  <2>1. k \in 0..4
    OBVIOUS
  <2>2. Left(s) = s.parents + 1 + k
    BY <1>3 DEF Left
  <2> HIDE DEF k
  <2> QED
    BY <1>1, <1>3, <2>1, <2>2
<1> QED
  BY <1>2, <1>3

\* Leaving a modal moves the focus and the subview, and nothing else.
Leaves(s, t) ==
    /\ t \in Screens /\ t.modals = s.modals /\ t.mode = s.mode /\ t.box = s.box
    /\ t.search = s.search /\ t.parents = s.parents

LEMMA ReturnLeaves ==
  ASSUME NEW s \in Screens, NEW p \in Panes, NEW t, t = Return(s, p)
  PROVE  Leaves(s, t)
<1>1. PICK q, c : /\ Leaves(s, q) /\ c \in Context /\ t = RestoreContext(q, c)
  <2>1. CASE s.contexts = <<>>
    <3>1. [pane |-> p, subview |-> s.subview] \in Context /\ Leaves(s, s)
      BY DEF Context, Leaves, Screens, UIWith
    <3> QED
      BY <2>1, <3>1 DEF Return
  <2>2. CASE s.contexts # <<>>
    <3> DEFINE q == [s EXCEPT !.contexts = Tail(s.contexts)]
    <3>1. s.contexts \in Seq(Context) /\ Head(s.contexts) \in Context
          /\ Tail(s.contexts) \in Seq(Context)
      BY <2>2 DEF Screens, UIWith
    <3>2. Leaves(s, q)
      BY <3>1 DEF Leaves, Screens, UIWith
    <3>3. t = RestoreContext(q, Head(s.contexts))
      BY <2>2 DEF Return
    <3> QED
      BY <3>1, <3>2, <3>3
  <2> QED
    BY <2>1, <2>2
<1>2. CASE q.mode = "Repository" /\ c.subview # None
  <2>1. t = [ClearFilters(q) EXCEPT !.focused = c.pane, !.subview = c.subview]
    BY <1>1, <1>2 DEF RestoreContext
  <2>2. q \in Screens /\ ClearFilters(q) \in Screens
    BY <1>1, ClearFiltersKeeps DEF Keeps, Leaves
  <2>3. Leaves(s, ClearFilters(q))
    BY <1>1, <2>2 DEF ClearFilters, Screens, UIWith, Leaves
  <2>4. c.pane \in Panes /\ c.subview \in Subviews \cup {None}
    BY <1>1 DEF Context
  <2>5. PICK r : r = ClearFilters(q)
    OBVIOUS
  <2>6. t = [r EXCEPT !.focused = c.pane, !.subview = c.subview] /\ Leaves(s, r)
    BY <2>1, <2>3, <2>5
  <2> QED
    BY <2>4, <2>6 DEF Leaves, Screens, UIWith
<1>3. CASE ~(q.mode = "Repository" /\ c.subview # None)
  <2>1. t = [q EXCEPT !.focused = c.pane]
    BY <1>1, <1>3 DEF RestoreContext
  <2> QED
    BY <1>1, <2>1 DEF Leaves, Screens, UIWith, Context
<1> QED
  BY <1>2, <1>3

LEMMA ClosedTop ==
  ASSUME NEW s \in Screens, Len(s.modals) <= 1, s.modals # <<>>,
         NEW t, t = CloseTopModal(s)
  PROVE  /\ t \in Screens /\ t.modals = <<>> /\ t.mode = s.mode
         /\ t.box = s.box /\ t.search = s.search /\ t.parents = s.parents
<1>1. Tail(s.modals) = <<>> /\ <<>> \in Seq(ModalKinds)
  BY Single, EmptySeq DEF Screens, UIWith
<1> DEFINE d == Dropped(s)
           p == [d EXCEPT !.modals = Tail(d.modals)]
<1>2. /\ d \in Screens /\ d.modals = s.modals /\ d.mode = s.mode
      /\ d.box = s.box /\ d.search = s.search /\ d.parents = s.parents
  BY DEF Dropped, Screens, UIWith
<1>3. t = IF p.modals = <<>> THEN Return(p, HomePane(p)) ELSE p
  BY DEF CloseTopModal
<1> HIDE DEF d
<1>4. p = [d EXCEPT !.modals = <<>>]
  BY <1>1, <1>2
<1>5. /\ p \in Screens /\ p.modals = <<>> /\ p.mode = s.mode
      /\ p.box = s.box /\ p.search = s.search /\ p.parents = s.parents
  BY <1>1, <1>2, <1>4 DEF Screens, UIWith
<1> HIDE DEF p
<1>6. t = Return(p, HomePane(p)) /\ HomePane(p) \in Panes
  BY <1>3, <1>5 DEF HomePane, Panes, WorkspacePanes, RepoPanes
<1>7. Leaves(p, t)
  BY <1>5, <1>6, ReturnLeaves
<1> QED
  BY <1>5, <1>7 DEF Leaves

LEMMA EscapeBacksOut ==
  ASSUME NEW s, Backable(s), NEW t, t = Escape(s)
  PROVE  /\ Backable(t)
         /\ Left(t) < Left(s) \/ (Left(s) = 0 /\ Left(t) = 0)
<1>1. /\ s \in Screens /\ s.parents \in Nat /\ s.mode \in {"Workspace", "Repository"}
      /\ s.search \in {"focused", "blurred"} /\ s.box \in {"open", "closed"}
  BY DEF Backable, Screens, UIWith, Modes
<1>2. CASE s.modals # <<>>
  <2>1. /\ t \in Screens /\ t.modals = <<>> /\ t.mode = s.mode
        /\ t.box = s.box /\ t.search = s.search /\ t.parents = s.parents
    BY <1>2, ClosedTop DEF Escape, Backable
  <2>2. Backable(t)
    BY <2>1, EmptySeq DEF Backable
  <2>3. CASE s.mode = "Workspace"
    BY <1>1, <1>2, <2>1, <2>2, <2>3 DEF Left
  <2>4. CASE s.mode # "Workspace"
    <3>1. Left(s) = s.parents + 5
      BY <1>1, <1>2, <2>4 DEF Left
    <3>2. Left(t) <= s.parents + 4
      <4> DEFINE k == CASE t.modals = <<>> /\ t.box = "open" -> 3
                    [] t.modals = <<>> /\ t.box # "open" /\ FilterFocused(t) -> 2
                    [] t.modals = <<>> /\ t.box # "open" /\ ~FilterFocused(t)
                         /\ t.focused = "RepoDetail" /\ t.subview = "Status" -> 1
                    [] OTHER -> 0
      <4>1. k \in 0..3
        OBVIOUS
      <4>2. Left(t) = s.parents + 1 + k
        BY <2>1, <2>4 DEF Left
      <4> HIDE DEF k
      <4> QED
        BY <1>1, <4>1, <4>2
    <3>3. Left(t) \in Nat
      BY <2>2, LeftRange
    <3> QED
      BY <1>1, <2>2, <3>1, <3>2, <3>3
  <2> QED
    BY <2>3, <2>4
<1>3. CASE s.modals = <<>> /\ s.mode = "Workspace"
  <2>1. t = [s EXCEPT !.search = "blurred"]
    BY <1>3, <1>1 DEF Escape, Backable
  <2>2. Backable(t) /\ t.modals = <<>> /\ t.search = "blurred" /\ t.mode = "Workspace"
    BY <1>3, <2>1 DEF Backable, Screens, UIWith
  <2> QED
    BY <1>1, <1>3, <2>2 DEF Left
<1>4. CASE s.modals = <<>> /\ s.mode = "Repository"
  <2>1. s.subview \in Subviews \cup {None} /\ s.filters \in SUBSET Subviews
    BY <1>1 DEF Screens, UIWith
  <2>2. CASE s.box = "open"
    <3>1. t = CloseCommitBox(s)
      BY <1>4, <2>2 DEF Escape
    <3>2. /\ t \in Screens /\ t.modals = <<>> /\ t.mode = "Repository"
          /\ t.box = "closed" /\ t.parents = s.parents
      BY <1>1, <1>4, <3>1 DEF CloseCommitBox, Screens, UIWith
    <3>3. Backable(t)
      BY <3>2, EmptySeq DEF Backable
    <3>4. Left(s) = s.parents + 4
      BY <1>1, <1>4, <2>2 DEF Left
    <3>5. Left(t) \in {s.parents + 1, s.parents + 2, s.parents + 3}
      BY <1>1, <3>2 DEF Left
    <3> QED
      BY <1>1, <3>3, <3>4, <3>5
  <2>3. CASE s.box # "open" /\ FilterFocused(s)
    <3>1. t = BlurFilter(s)
      BY <1>1, <1>4, <2>3 DEF Escape, RepoEscape
    <3>2. /\ t \in Screens /\ t.modals = <<>> /\ t.mode = "Repository"
          /\ t.box = s.box /\ t.parents = s.parents /\ ~FilterFocused(t)
      BY <1>1, <1>4, <3>1 DEF BlurFilter, FilterFocused, Screens, UIWith
    <3>3. Backable(t)
      BY <3>2, EmptySeq DEF Backable
    <3>4. Left(s) = s.parents + 3
      BY <1>1, <1>4, <2>3 DEF Left
    <3>5. Left(t) \in {s.parents + 1, s.parents + 2}
      BY <1>1, <2>3, <3>2 DEF Left
    <3> QED
      BY <1>1, <3>3, <3>4, <3>5
  <2>4. CASE s.box # "open" /\ ~FilterFocused(s) /\ s.focused = "RepoDetail" /\ s.subview = "Status"
    <3>1. t = FocusRepoMainPane(s)
      BY <1>1, <1>4, <2>4 DEF Escape, RepoEscape
    <3> DEFINE c == ClearFilters(s)
    <3>a. /\ c \in Screens /\ c.modals = <<>> /\ c.mode = "Repository"
          /\ c.box = s.box /\ c.parents = s.parents /\ c.subview = s.subview
          /\ c.filters \subseteq s.filters
      BY <1>1, <1>4 DEF ClearFilters, Screens, UIWith
    <3>b. t = [c EXCEPT !.focused = s.main] /\ s.main \in Panes /\ s.main # "RepoDetail"
      BY <1>1, <3>1 DEF FocusRepoMainPane, Screens, UIWith, Panes, RepoPanes
    <3> HIDE DEF c
    <3>2. /\ t \in Screens /\ t.modals = <<>> /\ t.mode = "Repository"
          /\ t.box = s.box /\ t.parents = s.parents /\ ~FilterFocused(t)
          /\ t.focused # "RepoDetail"
      BY <2>4, <3>a, <3>b DEF FilterFocused, Screens, UIWith
    <3>3. Backable(t)
      BY <3>2, EmptySeq DEF Backable
    <3>4. Left(s) = s.parents + 2
      BY <1>1, <1>4, <2>4 DEF Left
    <3>5. Left(t) = s.parents + 1
      BY <1>1, <2>4, <3>2 DEF Left
    <3> QED
      BY <1>1, <3>3, <3>4, <3>5
  <2>5. CASE s.box # "open" /\ ~FilterFocused(s) /\ ~(s.focused = "RepoDetail" /\ s.subview = "Status")
    <3>1. t = LeaveRepo(s)
      BY <1>1, <1>4, <2>5 DEF Escape, RepoEscape
    <3>2. t \in Screens
      BY <1>1, <3>1, LeaveRepoKeeps DEF Keeps
    <3>3. Left(s) = s.parents + 1
      BY <1>1, <1>4, <2>5 DEF Left
    <3>4. CASE s.parents > 0
      <4>1. /\ t.modals = <<>> /\ t.mode = "Repository" /\ t.box = "closed"
            /\ t.parents = s.parents - 1 /\ t.filters = {} /\ t.subview = "Submodules"
        BY <1>1, <1>4, <3>1, <3>4 DEF LeaveRepo, EnterRepo, Screens, UIWith
      <4>2. Left(t) = s.parents
        BY <1>1, <3>4, <4>1 DEF Left, FilterFocused
      <4> QED
        BY <1>1, <3>2, <3>3, <4>1, <4>2, EmptySeq DEF Backable
    <3>5. CASE ~(s.parents > 0)
      <4>1. /\ t.modals = <<>> /\ t.mode = "Workspace" /\ t.box = "closed"
            /\ t.search = "blurred"
        BY <1>1, <1>4, <3>1, <3>5 DEF LeaveRepo, Screens, UIWith
      <4>2. Left(t) = 0
        BY <4>1 DEF Left
      <4> QED
        BY <1>1, <3>2, <3>3, <4>1, <4>2, EmptySeq DEF Backable
    <3> QED
      BY <3>4, <3>5
  <2> QED
    BY <2>2, <2>3, <2>4, <2>5
<1> QED
  BY <1>1, <1>2, <1>3, <1>4

LEMMA EscapesBackOut ==
  ASSUME NEW s, Backable(s), NEW n \in Nat, Left(s) <= n
  PROVE  AtRest(AfterEscapes(s, n))
<1>1. PICK g : /\ AfterEscapes(s, n) = g[n] /\ g[0] = s
               /\ \A i \in 1..n : g[i] = Escape(g[i - 1])
  BY AfterEscapesUnrolls
<1> DEFINE Good(i) == Backable(g[i]) /\ (Left(g[i]) + i <= Left(s) \/ Left(g[i]) = 0)
           Bad == {i \in 0..n : ~Good(i)}
<1>2. Bad = {}
  <2> SUFFICES ASSUME Bad # {} PROVE FALSE
    OBVIOUS
  <2>1. PICK i \in Bad : \A m \in Bad : i <= m
    <3> HIDE DEF Bad
    <3>1. Bad \in SUBSET Nat
      BY DEF Bad
    <3> QED
      BY <3>1, LeastNumber
  <2>2. Left(s) \in Nat
    BY LeftRange
  <2>3. Good(0)
    BY <1>1, <2>2
  <2>4. i \in 1..n /\ i - 1 \in 0..n /\ Good(i - 1)
    BY <2>1, <2>3
  <2>5. g[i] = Escape(g[i - 1])
    BY <1>1, <2>4
  <2>6. Backable(g[i])
        /\ (Left(g[i]) < Left(g[i - 1]) \/ (Left(g[i - 1]) = 0 /\ Left(g[i]) = 0))
    BY <2>4, <2>5, EscapeBacksOut
  <2>7. Left(g[i]) \in Nat /\ Left(g[i - 1]) \in Nat
    BY <2>4, <2>6, LeftRange
  <2>8. Good(i)
    BY <2>2, <2>4, <2>6, <2>7
  <2> QED
    BY <2>1, <2>8
<1>3. Good(n)
  BY <1>2
<1>4. Left(g[n]) \in Nat /\ Left(s) \in Nat
  BY <1>3, LeftRange
<1>5. Left(g[n]) = 0
  BY <1>3, <1>4
<1> QED
  BY <1>1, <1>3, <1>5, LeftRange

\* A handler opens no commit box, or does so in a repository.
Boxes(s, t) ==
    \/ t.mode = "Repository" \/ t.box = "closed"
    \/ (t.mode = s.mode /\ t.box = s.box)

BoxInRepo(s) == s.mode = "Workspace" => s.box = "closed"

LEMMA BoxesCompose ==
  ASSUME NEW s, NEW r, NEW t, r.mode = s.mode /\ r.box = s.box, Boxes(r, t)
  PROVE  Boxes(s, t)
BY DEF Boxes

LEMMA HandlersBox ==
  ASSUME NEW s \in Screens
  PROVE  /\ Boxes(s, s)
         /\ \A b : Boxes(s, [s EXCEPT !.search = b])
         /\ \A p : Boxes(s, SetFocusedPane(s, p))
         /\ \A k : Boxes(s, OpenModal(s, k))
         /\ Boxes(s, OpenConfirm(s))
         /\ \A k : Boxes(s, OpenMenu(s, k))
         /\ \A k : Boxes(s, OpenPrompt(s, k))
         /\ \A v : Boxes(s, SwitchSubview(s, v))
         /\ Boxes(s, FocusFilter(s)) /\ Boxes(s, BlurFilter(s))
         /\ Boxes(s, FocusRepoMainPane(s)) /\ Boxes(s, CloseCommitBox(s))
         /\ \A n : Boxes(s, EnterRepo(s, n))
<1>1. \A b : Boxes(s, [s EXCEPT !.search = b])
  BY DEF Boxes, Screens, UIWith
<1>2. \A p : Boxes(s, SetFocusedPane(s, p))
  BY DEF Boxes, SetFocusedPane, Screens, UIWith
<1>3. \A k : OpenModal(s, k).mode = s.mode /\ OpenModal(s, k).box = s.box
  BY DEF OpenModal, Screens, UIWith
<1>4. Boxes(s, OpenConfirm(s))
  BY DEF Boxes, OpenModal, OpenConfirm, Screens, UIWith
<1>5. \A k : Boxes(s, OpenMenu(s, k))
  BY DEF Boxes, OpenModal, OpenMenu, Screens, UIWith
<1>6. \A k : Boxes(s, OpenPrompt(s, k))
  BY DEF Boxes, OpenModal, OpenPrompt, Screens, UIWith
<1>7. \A v : Boxes(s, SwitchSubview(s, v))
  BY DEF Boxes, SwitchSubview, ClearFilters, Screens, UIWith
<1>8. Boxes(s, FocusFilter(s)) /\ Boxes(s, BlurFilter(s))
  BY DEF Boxes, FocusFilter, BlurFilter, ClearFilters, Screens, UIWith
<1>9. Boxes(s, FocusRepoMainPane(s)) /\ Boxes(s, CloseCommitBox(s))
  BY DEF Boxes, FocusRepoMainPane, CloseCommitBox, ClearFilters, Screens, UIWith
<1>10. \A n : Boxes(s, EnterRepo(s, n))
  BY DEF Boxes, EnterRepo, Screens, UIWith
<1> QED
  BY <1>1, <1>2, <1>3, <1>4, <1>5, <1>6, <1>7, <1>8, <1>9, <1>10 DEF Boxes

LEMMA PopToBox ==
  ASSUME NEW s \in Screens, NEW p, NEW t, t = PopTo(s, p)
  PROVE  t.mode = s.mode /\ t.box = s.box
BY DEF PopTo, Screens, UIWith

LEMMA ConfirmPendingBox ==
  ASSUME NEW s \in Screens, ModalInv(s), Top(s) = "Confirm"
  PROVE  Boxes(s, ConfirmPending(s))
<1> DEFINE p == [s EXCEPT !.confirmation = None, !.modals = Tail(s.modals)]
<1>1. Tail(s.modals) = <<>> /\ <<>> \in Seq(ModalKinds)
  BY OneModal, EmptySeq DEF Top
<1>2. s.confirmation \in Panes /\ None \in Panes \cup {None}
  BY DEF ModalInv, Screens, UIWith
<1>3. p = [s EXCEPT !.confirmation = None, !.modals = <<>>]
  BY <1>1
<1>4. p \in Screens /\ p.modals = <<>> /\ p.mode = s.mode /\ p.box = s.box
  BY <1>1, <1>2, <1>3 DEF Screens, UIWith
<1>5. ConfirmPending(s) = IF p.modals = <<>> THEN Return(p, s.confirmation) ELSE p
  BY DEF ConfirmPending
<1> HIDE DEF p
<1>6. Leaves(p, ConfirmPending(s))
  BY <1>2, <1>4, <1>5, ReturnLeaves
<1> QED
  BY <1>4, <1>6 DEF Leaves, Boxes

LEMMA SubmitMenuBox ==
  ASSUME NEW s \in Screens, ModalInv(s), Top(s) = "Menu", NEW t \in SubmitMenu(s)
  PROVE  Boxes(s, t)
<1> DEFINE r == [s EXCEPT !.menu = None]
           left == PopTo(r, s.menu.focus)
           out == [s EXCEPT !.menu = None, !.modals = Tail(s.modals)]
<1>1. /\ \/ t \in {s, left, EnterRepo(out, 0), FocusFilter(left), BlurFilter(left),
                  OpenConfirm(left), OpenMenu(left, "Options")}
         \/ \E k \in PromptKinds : t = OpenPrompt(left, k)
         \/ \E v \in Subviews : t = SwitchSubview(left, v)
      /\ s.menu \in [focus: Panes, kind: MenuKinds]
  <2>1. s.menu \in [focus: Panes, kind: MenuKinds]
    BY DEF ModalInv, Screens, UIWith
  <2>2. s.menu.kind \in MenuKinds
    BY <2>1
  <2> HIDE DEF left, out
  <2>3. t \in CASE s.menu.kind = "CommandLog" -> {left}
          [] s.menu.kind = "RecentRepos" -> {s, EnterRepo(out, 0)}
          [] s.menu.kind = "FilterOptions" -> {FocusFilter(left), BlurFilter(left)}
          [] s.menu.kind = "Options" ->
                {s, left, OpenConfirm(left), OpenMenu(left, "Options")}
                  \cup {OpenPrompt(left, k) : k \in PromptKinds}
                  \cup {SwitchSubview(left, v) : v \in Subviews}
    BY DEF SubmitMenu, left, out
  <2> QED
    BY <2>1, <2>2, <2>3 DEF MenuKinds
<1>2. r \in Screens /\ r.mode = s.mode /\ r.box = s.box
  BY DEF Screens, UIWith
<1>3. left \in Screens /\ left.mode = s.mode /\ left.box = s.box
  <2>1. left \in Screens
    BY MenuLeft DEF Carries
  <2>2. left.mode = r.mode /\ left.box = r.box
    BY <1>2, PopToBox
  <2> QED
    BY <1>2, <2>1, <2>2
<1>4. Boxes(s, left)
  BY <1>3 DEF Boxes
<1>5. Boxes(s, EnterRepo(out, 0))
  BY DEF Boxes, EnterRepo, Screens, UIWith
<1> HIDE DEF left, out
<1>6. \A u : Boxes(left, u) => Boxes(s, u)
  BY <1>3 DEF Boxes
<1> QED
  BY <1>1, <1>3, <1>4, <1>5, <1>6, HandlersBox

LEMMA SubmitPromptBox ==
  ASSUME NEW s \in Screens, ModalInv(s), Top(s) = "InputPrompt",
         NEW t \in SubmitPrompt(s)
  PROVE  Boxes(s, t)
<1> DEFINE r == [s EXCEPT !.prompt = None]
           left == PopTo(r, s.prompt.focus)
<1>1. t \in {s, left, OpenPrompt(left, "Simple"), [left EXCEPT !.prompt = s.prompt]}
  BY DEF SubmitPrompt, ModalInv, Screens, UIWith, PromptKinds
<1>2. r \in Screens /\ r.mode = s.mode /\ r.box = s.box
  BY DEF Screens, UIWith
<1>3. left \in Screens /\ left.mode = s.mode /\ left.box = s.box
  <2>1. left \in Screens
    BY PromptLeft DEF Carries
  <2>2. left.mode = r.mode /\ left.box = r.box
    BY <1>2, PopToBox
  <2> QED
    BY <1>2, <2>1, <2>2
<1> HIDE DEF left
<1>4. Boxes(s, left) /\ Boxes(s, [left EXCEPT !.prompt = s.prompt])
  BY <1>3 DEF Boxes, Screens, UIWith
<1>5. Boxes(s, OpenPrompt(left, "Simple"))
  BY <1>3, HandlersBox DEF Boxes
<1> QED
  BY <1>1, <1>4, <1>5, HandlersBox

LEMMA EscapeBox ==
  ASSUME NEW s \in Screens, ModalInv(s)
  PROVE  Boxes(s, Escape(s))
<1>1. CASE s.modals # <<>>
  <2>1. Len(s.modals) <= 1 /\ Escape(s) = CloseTopModal(s)
    BY <1>1 DEF ModalInv, Escape
  <2> QED
    BY <1>1, <2>1, ClosedTop DEF Boxes
<1>2. CASE s.modals = <<>>
  <2>1. Escape(s) \in {CloseCommitBox(s), BlurFilter(s), FocusRepoMainPane(s),
                       LeaveRepo(s), [s EXCEPT !.search = "blurred"]}
    BY <1>2 DEF Escape, RepoEscape, Screens, UIWith
  <2>2. Boxes(s, LeaveRepo(s))
    BY DEF Boxes, LeaveRepo, EnterRepo, Screens, UIWith
  <2> QED
    BY <2>1, <2>2, HandlersBox
<1> QED
  BY <1>1, <1>2

\* A step of any kind opens the commit box in a repository only.
LEMMA StepBoxes ==
  ASSUME IInv, Next
  PROVE  Boxes(ui, ui')
<1>0. ui \in Screens /\ ModalInv(ui) /\ asked \in Lookups
  BY Screen
<1> DEFINE All(S) == \A t \in S : Boxes(ui, t)
<1>1. \A S : Input(S) /\ All(S) => Boxes(ui, ui')
  BY DEF Input
<1> HIDE DEF All
<1>2. CASE KeyEsc
  BY <1>0, <1>1, <1>2, EscapeBox DEF KeyEsc, All
<1>3. CASE KeyInConfirm
  BY <1>0, <1>1, <1>3, ConfirmPendingBox DEF KeyInConfirm, All
<1>4. CASE KeyInMenu
  BY <1>0, <1>1, <1>4, SubmitMenuBox DEF KeyInMenu, All
<1>5. CASE KeyInPrompt \/ DoubleClick
  <2>1. CASE Input({EnterRepo(ui, 0)})
    BY <1>0, <1>1, <2>1, HandlersBox DEF All
  <2>2. CASE Top(ui) = "InputPrompt" /\ Input(SubmitPrompt(ui))
    BY <1>0, <1>1, <2>2, SubmitPromptBox DEF All
  <2> QED
    BY <1>5, <2>1, <2>2 DEF KeyInPrompt, DoubleClick
<1>6. CASE RewordInMenu
  <2>1. ui' = PopTo([ui EXCEPT !.menu = None], ui.menu.focus)
    BY <1>6 DEF RewordInMenu
  <2>2. ui' \in SubmitMenu(ui) \/ Boxes(ui, ui')
    BY <1>0, <1>6, <2>1 DEF RewordInMenu, PopTo, Boxes, Screens, UIWith
  <2> QED
    BY <1>0, <1>6, <2>2, SubmitMenuBox DEF RewordInMenu
<1>7. CASE KeyInCommitBox \/ KeyAnywhere \/ KeyInSearch \/ KeyInFilter
  <2>1. All({ui, CloseCommitBox(ui)})
    BY <1>0, HandlersBox DEF All
  <2>2. All({OpenModal(ui, "Help"), SetFocusedPane(ui, NextPane(ui)),
             SetFocusedPane(ui, PreviousPane(ui))})
    BY <1>0, HandlersBox DEF All
  <2>3. All({[ui EXCEPT !.search = "blurred"]}) /\ All({BlurFilter(ui)})
    BY <1>0, HandlersBox DEF All
  <2> QED
    BY <1>1, <1>7, <2>1, <2>2, <2>3 DEF KeyInCommitBox, KeyAnywhere, KeyInSearch, KeyInFilter
<1>8. CASE KeyInWorkspace
  <2> DEFINE S == {[ui EXCEPT !.search = "focused"], EnterRepo(ui, 0)}
                    \cup {SetFocusedPane(ui, p) : p \in WorkspacePanes}
  <2>1. Input(S)
    BY <1>8 DEF KeyInWorkspace
  <2>2. All(S)
    BY <1>0, HandlersBox DEF All
  <2> HIDE DEF S
  <2> QED
    BY <1>1, <2>1, <2>2
<1>9. CASE KeyInRepo \/ KeyInMainPane \/ KeyInDetail \/ Click
  <2>1. ui.mode = "Repository"
    BY <1>9 DEF KeyInRepo, KeyInMainPane, KeyInDetail, Click, RepoKeys
  <2>3. CASE KeyInRepo
    BY <1>0, <1>1, <2>3, HandlersBox DEF KeyInRepo, All
  <2>4. CASE KeyInMainPane
    <3>1. Boxes(ui, OpenCommitBox(ui))
      BY <1>0, <2>1 DEF OpenCommitBox, Boxes, Screens, UIWith
    <3> QED
      BY <1>0, <1>1, <2>4, <3>1, HandlersBox DEF KeyInMainPane, All
  <2>5. CASE KeyInDetail
    BY <1>0, <1>1, <2>5, HandlersBox DEF KeyInDetail, All
  <2>6. CASE Click
    BY <1>0, <1>1, <2>6, HandlersBox DEF Click, All
  <2> QED
    BY <1>9, <2>3, <2>4, <2>5, <2>6
<1>11. CASE KeyAsks
  BY <1>0, <1>11, HandlersBox DEF KeyAsks, Boxes
<1>12. CASE WorkerAnswers
  <2>1. PICK t \in {ui, OpenConfirm(ui), OpenPrompt(ui, "Simple"),
                    SwitchSubview(ui, "Commits")} : ui' = t
    BY <1>0, <1>12 DEF WorkerAnswers, Lookups
  <2> QED
    BY <1>0, <2>1, HandlersBox
<1>10. CASE DetailLoaded
  <2>1. ui' \in ShowDetail(ui)
    BY <1>10 DEF DetailLoaded
  <2> QED
    BY <1>0, <2>1 DEF ShowDetail, Boxes, Screens, UIWith
<1> QED
  BY <1>2, <1>3, <1>4, <1>5, <1>6, <1>7, <1>8, <1>9, <1>10, <1>11, <1>12 DEF Next

\* However menus, prompts, lookups, clicks and nested repositories followed one
\* another, esc leads back: one press for a modal, the commit box, a filter, the
\* detail pane and each repository entered.
THEOREM EscLeadsBack == Spec => []EscBacksOut
<1> DEFINE EInv == IInv /\ BoxInRepo(ui)
<1>1. Init => EInv
  BY InitInv DEF Init, BoxInRepo
<1>2. EInv /\ [Next]_vars => EInv'
  <2> SUFFICES ASSUME EInv, [Next]_vars PROVE EInv'
    OBVIOUS
  <2>1. IInv'
    BY NextInv
  <2>2. CASE Next
    <3>1. Boxes(ui, ui')
      BY <2>2, StepBoxes
    <3> QED
      BY <2>1, <3>1 DEF Boxes, BoxInRepo
  <2>3. CASE UNCHANGED vars
    BY <2>1, <2>3 DEF BoxInRepo, vars
  <2> QED
    BY <2>2, <2>3
<1>3. EInv => EscBacksOut
  <2> SUFFICES ASSUME EInv PROVE EscBacksOut
    OBVIOUS
  <2>1. Backable(ui)
    BY Screen DEF Backable, BoxInRepo, ModalInv
  <2> DEFINE n == IF ui.mode = "Workspace" THEN 2 ELSE ui.parents + 5
  <2>2. n \in Nat /\ Left(ui) <= n
    <3>1. ui.parents \in Nat
      BY <2>1 DEF Backable, Screens, UIWith
    <3> QED
      BY <2>1, <3>1, LeftRange
  <2> HIDE DEF n
  <2>3. AtRest(AfterEscapes(ui, n))
    BY <2>1, <2>2, EscapesBackOut
  <2> QED
    BY <2>3 DEF n, EscBacksOut
<1> QED
  BY <1>1, <1>2, <1>3, PTL DEF Spec

=============================================================================
