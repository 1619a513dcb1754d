--------------------------- MODULE MCClientSession ---------------------------
(***************************************************************************)
(* Small instances of ClientSession: two devices, three models, some       *)
(* durations around the limits of the conversion to milliseconds.          *)
(***************************************************************************)
EXTENDS ClientSession

Tree(leaf) == {SubSeq(leaf, 1, i) : i \in 1..Len(leaf)}

\* Attributes up to three levels deep; a device with two logical devices; one that
\* lacks a node of the first; one with a node that has no data objects.
MCModels == {
  Tree(<<"LD1", "MMXU1", "A", "phsA", "cVal", "mag">>) \cup Tree(<<"LD1", "MMXU1", "A", "q">>)
    \cup Tree(<<"LD1", "LLN0", "Mod", "stVal">>) \cup Tree(<<"LD2", "LLN0", "Beh", "q">>),
  Tree(<<"LD1", "LLN0", "Mod", "stVal">>) \cup Tree(<<"LD1", "LLN0", "Mod", "q">>),
  Tree(<<"LD2", "LLN0">>) \cup Tree(<<"LD1", "MMXU1", "A", "phsA", "q">>)}

Option(k, d) == [kind |-> k, d |-> d]

\* With 4 nanoseconds to the millisecond and an unsigned int of 8 values.
MCOptionLists == {
  <<>>, <<Option("connect", 31), Option("request", 4)>>, <<Option("request", 3)>>,
  <<Option("connect", 32)>>, <<Option("connect", -5)>>,
  <<Option("request", 20), Option("request", 11)>>}

=============================================================================
