----------------------------- MODULE MCMachine -----------------------------
(***************************************************************************)
(* Good and bad loads for Machine.                                         *)
(***************************************************************************)
EXTENDS Machine

Load(magic, both, modules) == [magic |-> magic, both |-> both, modules |-> modules]

MCLoads == {Load(TRUE, FALSE, <<"fs">>), Load(TRUE, FALSE, <<"fs", "other">>),
            Load(TRUE, FALSE, <<"other", "fs">>), Load(TRUE, FALSE, <<>>),
            Load(FALSE, FALSE, <<"fs">>), Load(TRUE, TRUE, <<"fs">>)}
=============================================================================
