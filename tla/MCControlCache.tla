---------------------------- MODULE MCControlCache ----------------------------
(***************************************************************************)
(* Small instances of ControlCache: two boolean, one integer and one float *)
(* control object, and two values to operate with.                         *)
(***************************************************************************)
EXTENDS ControlCache

MCRef == {"spc", "dpc", "inc", "apc"}
MCCtlType == [r \in MCRef |-> CASE r \in {"spc", "dpc"} -> "bool"
                                [] r = "inc" -> "int"
                                [] r = "apc" -> "struct"]

\* One kind of call per reference, the wrong one for "dpc" ...
MCOneKind == {<<"bool", "spc">>, <<"int", "dpc">>, <<"int", "inc">>, <<"float", "apc">>}
\* ... or two kinds of calls on two references.
MCTwoKinds == {"bool", "int"} \X {"spc", "inc"}

=============================================================================
