---------------------------- MODULE MCModalFocus ----------------------------
(* Finite instances of ModalFocus for TLC.                                 *)
EXTENDS ModalFocus

\* Ones without a filter, ones whose filter is cleared and ones whose filter is
\* not.
SomeSubviews == {"Status", "Commits", "Rebase", "Submodules", "Compare", "Worktrees"}

\* Also a double click beneath a modal.
AllGestures == {"click", "double", "beneath"}
=============================================================================
