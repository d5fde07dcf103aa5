----------------------------- MODULE ModalFocus -----------------------------
(***************************************************************************)
(* Modes, panes, modals and text inputs: which of them the next key goes   *)
(* to (crates/tui/src/lib.rs) and what the reducer makes of it             *)
(* (crates/core/src/reducer.rs).                                           *)
(*                                                                         *)
(* The reducer's handlers are operators from an interface state to the     *)
(* next one, since they call each other; an input is a step to one of the  *)
(* states its handler may give.  What a menu or a prompt is about, and     *)
(* what is selected in a list, is left out: where the code decides by it,  *)
(* the outcome is a choice.                                                *)
(***************************************************************************)
EXTENDS Naturals, Sequences, FiniteSets

CONSTANTS
    Subviews,     \* the detail subviews a behaviour may show
    None,         \* no subview, nothing pending
    Gestures,     \* the mouse gestures a behaviour may contain, see below
    MaxNesting,   \* bound: depth of nested submodules
    MaxContexts   \* bound: length of the return context stack

AllSubviews == {"Status", "Branches", "Remotes", "RemoteBranches", "Tags",
                "Commits", "Compare", "Rebase", "Stash", "Reflog",
                "Worktrees", "Submodules"}

VARIABLES
    ui,      \* the interface, see UI
    asked    \* the lookup the current run() has still to answer

vars == <<ui, asked>>

-----------------------------------------------------------------------------
(* Data.                                                                   *)

Modes == {"Workspace", "Repository"}
WorkspacePanes == {"WorkspaceList", "WorkspacePreview"}
RepoPanes == {"RepoUnstaged", "RepoStaged", "RepoDetail"}
Panes == WorkspacePanes \cup RepoPanes \cup {"Modal"}
PanesOf(mode) == IF mode = "Workspace" THEN WorkspacePanes ELSE RepoPanes

ModalKinds == {"Help", "Confirm", "InputPrompt", "Menu"}

\* What submitting a prompt does besides running a command: "Chained" opens
\* a second prompt, "Validated" first parses what was typed.
PromptKinds == {"Simple", "Chained", "Validated"}

\* MenuOperation by what submitting it may lead to.
MenuKinds == {"CommandLog", "RecentRepos", "FilterOptions", "Options"}

\* RepoSubview values whose subview_filter() is not None.
Filterable == AllSubviews \ {"Compare", "Rebase"}

\* The filters clear_repo_subview_filter_focus turns off.
ClearedFilters == {"Branches", "RemoteBranches", "Tags", "Commits", "Stash",
                   "Reflog", "Worktrees"}

ASSUME ModalAssumption ==
    /\ Subviews \subseteq AllSubviews
    /\ {"Status", "Commits", "Rebase", "Submodules"} \subseteq Subviews
    /\ None \notin AllSubviews \cup Panes
    /\ None \notin [focus: Panes, kind: MenuKinds \cup PromptKinds]
    /\ Gestures \subseteq {"click", "double", "beneath"}
    /\ MaxNesting \in Nat /\ MaxContexts \in Nat \ {0}

Context == [pane: Panes, subview: Subviews \cup {None}]

\* The part of AppState that decides where a key goes; P bounds the nesting.
UIWith(P) ==
    [mode: Modes,
     parents: P,                      \* length of parent_repo_ids
     focused: Panes,                  \* focused_pane
     main: {"RepoUnstaged", "RepoStaged"},    \* main_focus
     subview: Subviews \cup {None},   \* active_subview
     filters: SUBSET Subviews,        \* subviews whose filter is focused
     box: {"open", "closed"},         \* commit_box.focused
     search: {"focused", "blurred"},  \* workspace.search_focused
     modals: Seq(ModalKinds),         \* modal_stack, top first
     contexts: Seq(Context),          \* return_context_stack, top first
     confirmation: Panes \cup {None}, \* return_focus of what is pending
     menu: [focus: Panes, kind: MenuKinds] \cup {None},
     prompt: [focus: Panes, kind: PromptKinds] \cup {None}]

UI == UIWith(0..MaxNesting)

Lookups == {"none", "merged", "message", "fixup"}

Top(s) == IF s.modals = <<>> THEN "none" ELSE Head(s.modals)
FilterFocused(s) == s.subview \in s.filters

-----------------------------------------------------------------------------
(* Entering, leaving, panes and filters.                                   *)

\* RepoModeState::new and the focus enter_repo_mode_with_parents gives it.
EnterRepo(s, parents) ==
    [s EXCEPT !.mode = "Repository", !.parents = parents,
              !.focused = "RepoUnstaged", !.main = "RepoUnstaged",
              !.subview = "Status", !.filters = {}, !.box = "closed",
              !.search = "blurred"]

\* Mutant: a repository without parents is left like a nested one.
LeaveRepoAlwaysNested(s) ==
    [EnterRepo(s, s.parents - 1) EXCEPT !.subview = "Submodules",
                                        !.focused = "RepoDetail"]

LeaveRepo(s) ==
    IF s.parents > 0
    THEN [EnterRepo(s, s.parents - 1) EXCEPT !.subview = "Submodules",
                                             !.focused = "RepoDetail"]
    ELSE [s EXCEPT !.mode = "Workspace", !.focused = "WorkspaceList",
                   !.main = "RepoUnstaged", !.subview = None, !.filters = {},
                   !.box = "closed", !.search = "blurred"]

ClearFilters(s) == [s EXCEPT !.filters = @ \ ClearedFilters]

SetFocusedPane(s, pane) ==
    [s EXCEPT !.focused = pane,
              !.main = IF s.mode = "Repository"
                            /\ pane \in {"RepoUnstaged", "RepoStaged"}
                       THEN pane ELSE @,
              !.filters = IF pane # "RepoDetail" THEN @ \ ClearedFilters
                          ELSE @]

FocusRepoMainPane(s) == [ClearFilters(s) EXCEPT !.focused = s.main]

\* SwitchRepoSubview, and the actions that open a subview as it does.
SwitchSubview(s, v) ==
    [ClearFilters(s) EXCEPT !.subview = v,
                            !.box = IF v \in {"Status", "Compare"}
                                    THEN @ ELSE "closed",
                            !.focused = "RepoDetail"]

FocusFilter(s) ==
    IF s.subview \notin Filterable THEN ClearFilters(s)
    ELSE [ClearFilters(s) EXCEPT !.filters = @ \cup {s.subview},
                                 !.focused = "RepoDetail"]

\* BlurRepoSubviewFilter and CancelRepoSubviewFilter.
BlurFilter(s) == [s EXCEPT !.filters = @ \ {s.subview}]

OpenCommitBox(s) == [s EXCEPT !.box = "open", !.focused = "RepoStaged"]

CloseCommitBox(s) == [s EXCEPT !.box = "closed"]

\* RepoDetailLoaded, with and without a rebase under way.
ShowDetail(s) ==
    IF s.mode # "Repository" THEN {s}
    ELSE {[s EXCEPT !.subview = "Rebase", !.box = "closed",
                    !.focused = "RepoDetail"],
          IF s.subview = "Rebase"
          THEN [s EXCEPT !.subview = "Commits", !.focused = "RepoDetail"]
          ELSE s}

-----------------------------------------------------------------------------
(* Modals.                                                                 *)

CurrentContext(s) == [pane |-> s.focused, subview |-> s.subview]

OpenModal(s, kind) ==
    [s EXCEPT !.contexts = <<CurrentContext(s)>> \o @,
              !.modals = <<kind>> \o @,
              !.focused = "Modal"]

OpenConfirm(s) ==
    [OpenModal(s, "Confirm") EXCEPT !.confirmation = s.focused]

OpenMenu(s, kind) ==
    [OpenModal(s, "Menu") EXCEPT !.menu = [focus |-> s.focused, kind |-> kind]]

\* Mutant: the prompt remembers the focus it takes for itself.
OpenPromptLate(s, kind) ==
    [OpenModal(s, "InputPrompt") EXCEPT
        !.prompt = [focus |-> "Modal", kind |-> kind]]

OpenPrompt(s, kind) ==
    [OpenModal(s, "InputPrompt") EXCEPT
        !.prompt = [focus |-> s.focused, kind |-> kind]]

RestoreContext(s, c) ==
    IF s.mode = "Repository" /\ c.subview # None
    THEN [ClearFilters(s) EXCEPT !.focused = c.pane, !.subview = c.subview]
    ELSE [s EXCEPT !.focused = c.pane]

\* Back to the context on top of the stack, or to a pane if there is none.
Return(s, pane) ==
    IF s.contexts = <<>>
    THEN RestoreContext(s, [pane |-> pane, subview |-> s.subview])
    ELSE RestoreContext([s EXCEPT !.contexts = Tail(@)], Head(s.contexts))

HomePane(s) ==
    IF s.mode = "Workspace" THEN "WorkspaceList" ELSE "RepoUnstaged"

\* Mutant: the menu stays pending when its modal is closed.
DroppedButMenu(s) ==
    [s EXCEPT !.confirmation = IF Top(s) = "Confirm" THEN None ELSE @,
              !.prompt = IF Top(s) = "InputPrompt" THEN None ELSE @]

\* CloseTopModal drops what was pending for the top modal, then pops it.
Dropped(s) ==
    [s EXCEPT !.confirmation = IF Top(s) = "Confirm" THEN None ELSE @,
              !.menu = IF Top(s) = "Menu" THEN None ELSE @,
              !.prompt = IF Top(s) = "InputPrompt" THEN None ELSE @]

\* Mutant: the focus is not restored.
CloseTopModalOnly(s) ==
    [Dropped(s) EXCEPT !.modals = Tail(@), !.contexts = Tail(@)]

CloseTopModal(s) ==
    LET popped == [Dropped(s) EXCEPT !.modals = Tail(@)]
    IN  IF popped.modals = <<>> THEN Return(popped, HomePane(popped))
        ELSE popped

ConfirmPending(s) ==
    LET popped == [s EXCEPT !.confirmation = None, !.modals = Tail(@)]
    IN  IF popped.modals = <<>> THEN Return(popped, s.confirmation)
        ELSE popped

\* How submit_menu_selection and submit_input_prompt leave their modal: by
\* the focus it was opened from, with the return context left on the stack.
PopTo(s, pane) ==
    [s EXCEPT !.modals = Tail(@),
              !.focused = IF Len(s.modals) = 1 THEN pane ELSE @]

\* submit_menu_selection.  An option that is not available leaves the menu
\* open; another runs a command, opens the next modal or moves to a subview.
\* A recent repository is entered without parents.
SubmitMenu(s) ==
    LET left == PopTo([s EXCEPT !.menu = None], s.menu.focus)
    IN  CASE s.menu.kind = "CommandLog" -> {left}
          [] s.menu.kind = "RecentRepos" ->
                {s, EnterRepo([s EXCEPT !.menu = None, !.modals = Tail(@)], 0)}
          [] s.menu.kind = "FilterOptions" -> {FocusFilter(left), BlurFilter(left)}
          [] s.menu.kind = "Options" ->
                {s, left, OpenConfirm(left), OpenMenu(left, "Options")}
                  \cup {OpenPrompt(left, k) : k \in PromptKinds}
                  \cup {SwitchSubview(left, v) : v \in Subviews}

\* submit_input_prompt: an empty value keeps the prompt.  A value that does
\* not parse makes it pending again, after its modal has been popped.
SubmitPrompt(s) ==
    LET left == PopTo([s EXCEPT !.prompt = None], s.prompt.focus)
    IN  {s} \cup CASE s.prompt.kind = "Simple"  -> {left}
                   [] s.prompt.kind = "Chained" -> {OpenPrompt(left, "Simple")}
                   [] s.prompt.kind = "Validated" ->
                         {left, [left EXCEPT !.prompt = s.prompt]}

-----------------------------------------------------------------------------
(* Keys: route_key looks at the top modal, the commit box, the keys that   *)
(* work everywhere, and then the mode.                                     *)

\* Mutant: esc in a filter goes to the main pane instead of blurring it.
RepoEscapeToMain(s) ==
    IF FilterFocused(s) \/ (s.focused = "RepoDetail" /\ s.subview = "Status")
    THEN FocusRepoMainPane(s)
    ELSE LeaveRepo(s)

RepoEscape(s) ==
    IF FilterFocused(s) THEN BlurFilter(s)
    ELSE IF s.focused = "RepoDetail" /\ s.subview = "Status"
         THEN FocusRepoMainPane(s)
         ELSE LeaveRepo(s)

\* What the key esc does to s.
Escape(s) ==
    CASE s.modals # <<>> -> CloseTopModal(s)
      [] s.modals = <<>> /\ s.box = "open" -> CloseCommitBox(s)
      [] s.modals = <<>> /\ s.box = "closed" /\ s.mode = "Repository" ->
            RepoEscape(s)
      [] OTHER -> [s EXCEPT !.search = "blurred"]

NextPane(s) ==
    IF s.mode = "Workspace"
    THEN IF s.focused = "WorkspaceList" THEN "WorkspacePreview"
         ELSE "WorkspaceList"
    ELSE CASE s.focused = "RepoUnstaged" -> "RepoStaged"
           [] s.focused = "RepoStaged"   -> "RepoDetail"
           [] OTHER                      -> "RepoUnstaged"

PreviousPane(s) ==
    IF s.mode = "Workspace" THEN NextPane(s)
    ELSE CASE s.focused = "RepoDetail" -> "RepoStaged"
           [] s.focused = "RepoStaged" -> "RepoUnstaged"
           [] OTHER                    -> "RepoDetail"

LeftPane(s) == IF s.focused = "RepoDetail" THEN "RepoStaged" ELSE "RepoUnstaged"
RightPane(s) == IF s.focused = "RepoUnstaged" THEN "RepoStaged" ELSE "RepoDetail"

-----------------------------------------------------------------------------
(* The system.                                                             *)

Within(s) == Len(s.contexts) <= MaxContexts /\ s.parents <= MaxNesting

\* An input is handled to the end before the next one is read.
Input(S) ==
    /\ asked = "none"
    /\ \E s \in S : Within(s) /\ ui' = s
    /\ UNCHANGED asked

KeyEsc == Input({Escape(ui)})

KeyInConfirm == Top(ui) = "Confirm" /\ ui.confirmation # None
                  /\ Input({ConfirmPending(ui)})
KeyInMenu == Top(ui) = "Menu" /\ ui.menu # None /\ Input(SubmitMenu(ui))

\* RewordSelectedCommit as an entry of the merge and rebase menu.
RewordInMenu ==
    /\ Top(ui) = "Menu" /\ ui.menu # None /\ ui.menu.kind = "Options"
    /\ asked = "none"
    /\ asked' = "message"
    /\ ui' = PopTo([ui EXCEPT !.menu = None], ui.menu.focus)

KeyInPrompt == Top(ui) = "InputPrompt" /\ ui.prompt # None
                 /\ Input(SubmitPrompt(ui))

\* SubmitCommitBox; a box without a message or staged files stays open.
KeyInCommitBox == ui.modals = <<>> /\ ui.box = "open"
                    /\ Input({ui, CloseCommitBox(ui)})

NoOverlay == ui.modals = <<>> /\ ui.box = "closed"

KeyAnywhere ==
    NoOverlay /\ Input({OpenModal(ui, "Help"), SetFocusedPane(ui, NextPane(ui)),
                        SetFocusedPane(ui, PreviousPane(ui))})

KeyInSearch == NoOverlay /\ ui.mode = "Workspace" /\ ui.search = "focused"
                 /\ Input({[ui EXCEPT !.search = "blurred"]})

KeyInWorkspace ==
    /\ NoOverlay /\ ui.mode = "Workspace" /\ ui.search = "blurred"
    /\ Input({[ui EXCEPT !.search = "focused"], EnterRepo(ui, 0)}
               \cup {SetFocusedPane(ui, p) : p \in WorkspacePanes})

KeyInFilter == NoOverlay /\ ui.mode = "Repository" /\ FilterFocused(ui)
                 /\ Input({BlurFilter(ui)})

\* route_repo_key once no filter takes the key.
RepoKeys == NoOverlay /\ ui.mode = "Repository" /\ ~FilterFocused(ui)

KeyInRepo ==
    /\ RepoKeys
    /\ Input({SetFocusedPane(ui, LeftPane(ui)), SetFocusedPane(ui, RightPane(ui)),
              OpenConfirm(ui), OpenPrompt(ui, "Simple"),
              OpenMenu(ui, "CommandLog"), OpenMenu(ui, "RecentRepos")}
               \cup {SwitchSubview(ui, v) : v \in Subviews})

KeyInMainPane ==
    /\ RepoKeys /\ ui.focused \in {"RepoUnstaged", "RepoStaged"}
    /\ Input({SetFocusedPane(ui, "RepoDetail"), FocusFilter(ui),
              OpenMenu(ui, "Options")}
               \cup (IF ui.focused = "RepoStaged" /\ ui.subview = "Status"
                     THEN {OpenCommitBox(ui)} ELSE {}))

KeyInDetail ==
    /\ RepoKeys /\ ui.focused = "RepoDetail"
    /\ Input({FocusRepoMainPane(ui), FocusFilter(ui), OpenMenu(ui, "Options")}
               \cup (IF ui.subview \in Filterable
                     THEN {OpenMenu(ui, "FilterOptions")} ELSE {})
               \cup {OpenPrompt(ui, k) : k \in PromptKinds}
               \cup CASE ui.subview = "Submodules" -> {EnterRepo(ui, ui.parents + 1)}
                      [] ui.subview = "Worktrees"  -> {EnterRepo(ui, 0)}
                      [] OTHER                     -> {})

\* Keys whose answer arrives as a worker event of the same run().
KeyAsks ==
    /\ RepoKeys /\ asked = "none"
    /\ asked' \in CASE ui.focused = "RepoDetail" -> {"merged", "message"}
                    [] ui.focused \in {"RepoUnstaged", "RepoStaged"} -> {"fixup"}
                    [] OTHER -> {}
    /\ UNCHANGED ui

\* BranchMergeCheckCompleted, CommitMessageForRewordLoaded and
\* FixupBaseCommitFound; every lookup may also fail, or need no modal.
WorkerAnswers ==
    /\ asked # "none"
    /\ asked' = "none"
    /\ \E s \in {ui} \cup CASE asked = "merged"  -> {OpenConfirm(ui)}
                            [] asked = "message" -> {OpenPrompt(ui, "Simple")}
                            [] asked = "fixup"   -> {SwitchSubview(ui, "Commits"),
                                                     OpenConfirm(ui)} :
          Within(s) /\ ui' = s

\* A detail may be loaded at any moment, whatever is on the screen.
DetailLoaded == ui' \in ShowDetail(ui) /\ UNCHANGED asked

\* A click in repository mode: route_mouse_left looks at the modals, not at
\* the commit box or the filter.
Click ==
    /\ "click" \in Gestures
    /\ ui.modals = <<>> /\ ui.mode = "Repository"
    /\ Input({OpenMenu(ui, "CommandLog")} \cup {SetFocusedPane(ui, p) : p \in RepoPanes}
               \cup {SwitchSubview(ui, v) : v \in Subviews})

\* A double click on a row of the workspace list, or on a suggestion of a
\* prompt.  Only the second looks at the modals: the gesture "beneath" is a
\* double click on the workspace list with a modal over it.
DoubleClick ==
    /\ "double" \in Gestures
    /\ \/ /\ ui.mode = "Workspace"
          /\ ui.modals = <<>> \/ "beneath" \in Gestures
          /\ Input({EnterRepo(ui, 0)})
       \/ Top(ui) = "InputPrompt" /\ ui.prompt # None /\ Input(SubmitPrompt(ui))

Init ==
    /\ ui = [mode |-> "Workspace", parents |-> 0, focused |-> "WorkspaceList",
             main |-> "RepoUnstaged", subview |-> None, filters |-> {},
             box |-> "closed", search |-> "blurred", modals |-> <<>>,
             contexts |-> <<>>, confirmation |-> None, menu |-> None,
             prompt |-> None]
    /\ asked = "none"

Next ==
    \/ KeyEsc
    \/ KeyInConfirm \/ KeyInMenu \/ RewordInMenu \/ KeyInPrompt
    \/ KeyInCommitBox
    \/ KeyAnywhere
    \/ KeyInSearch \/ KeyInWorkspace
    \/ KeyInFilter \/ KeyInRepo \/ KeyInMainPane \/ KeyInDetail \/ KeyAsks
    \/ WorkerAnswers
    \/ DetailLoaded
    \/ Click \/ DoubleClick

Spec == Init /\ [][Next]_vars

-----------------------------------------------------------------------------
(* Properties.                                                             *)

\* Every variable keeps its type.
TypeOK == ui \in UI /\ asked \in Lookups

\* The modal on top can be answered: what it is about is pending, and a
\* confirmation or a menu is pending only while its modal is open.  The key
\* handlers of modals rely on it: without it a modal would ignore enter.
ModalAnswerable ==
    /\ Top(ui) = "Confirm" <=> ui.confirmation # None
    /\ Top(ui) = "Menu" <=> ui.menu # None
    /\ Top(ui) = "InputPrompt" => ui.prompt # None

\* The focus lies in a pane of the mode on the screen unless a modal has it,
\* and a modal returns to such a pane.
FocusFits(s) ==
    /\ s.modals = <<>> => s.focused \in PanesOf(s.mode)
    /\ s.modals # <<>> => Head(s.contexts).pane \in PanesOf(s.mode)

\* The focus starts in a pane of the mode on the screen, and no key, lookup,
\* detail or gesture takes it out, directly or through the modal it will return
\* from: only a repository entered beneath a modal does, by the double click on
\* the workspace list that nothing stops.
FocusFitsMode ==
    /\ FocusFits(ui)
    /\ [][FocusFits(ui) =>
              \/ FocusFits(ui')
              \/ ui.modals # <<>> /\ ui.mode = "Workspace" /\ ui' = EnterRepo(ui, 0)]_vars

\* However modals follow one another (a menu that opens a prompt, a prompt
\* that opens a second one, a lookup answered later), one is popped before the
\* next is pushed, and the return focus that submitting it uses and the return
\* context that closing it uses lead to the same pane.
ReturnPathsAgree ==
    /\ Len(ui.modals) <= 1
    /\ Len(ui.contexts) >= Len(ui.modals)
    /\ Top(ui) = "Confirm" => Head(ui.contexts).pane = ui.confirmation
    /\ Top(ui) = "Menu" => Head(ui.contexts).pane = ui.menu.focus
    /\ Top(ui) = "InputPrompt" => Head(ui.contexts).pane = ui.prompt.focus

\* Nothing is open and the workspace is on the screen.
AtRest(s) == s.mode = "Workspace" /\ s.modals = <<>> /\ s.search = "blurred"

\* The state after pressing esc n times.
AfterEscapes(s, n) ==
    LET after[i \in 0..n] == IF i = 0 THEN s ELSE Escape(after[i - 1])
    IN  after[n]

\* From wherever the user is, esc backs out of every transient state: at most
\* one press for a modal, a commit box, a filter and the detail pane, and one
\* for every repository entered.
EscBacksOut ==
    AtRest(AfterEscapes(ui, IF ui.mode = "Workspace" THEN 2 ELSE ui.parents + 5))
=============================================================================
