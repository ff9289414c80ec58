---------------------------- MODULE MCContextFacts ----------------------------
(***************************************************************************)
(* Two providers, one of them required and one with a section that fits     *)
(* only the larger of two context windows.                                  *)
(***************************************************************************)
EXTENDS ContextFacts, TLC

CONSTANTS A, B

Providers == <<"p", "q">>
TakePart == [p |-> {"analysis", "recovery"}, q |-> {"analysis", "acceptance", "maintenance"}]
Sizes == [p |-> 1, q |-> 2]
Priorities == [p |-> "high", q |-> "normal"]
Interchangeable == Permutations(Revisions)
Starts == {{"p", "q"}, {"p"}}
===============================================================================
