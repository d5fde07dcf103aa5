--------------------------- MODULE MCPatchStaging ---------------------------
(* Files of a few lines. *)
EXTENDS PatchStaging

Letters == <<"a", "b", "c", "d">>

MCFiles ==
    LET works == {<<"X", "a", "c", "d">>, <<"a", "X", "Y", "c", "Z">>, <<"a", "d", "X">>, <<>>,
                  <<"b", "a", "Y", "X", "d">>}
    IN  {[head |-> Letters, index |-> Letters, work |-> w] : w \in works}
           \union {[head |-> Letters, index |-> w, work |-> w] : w \in works}
           \union {[head |-> <<>>, index |-> <<"X", "d">>, work |-> Letters]}

MCSaves == {<<"b", "X", "c", "d">>}
=============================================================================
