------------------------------- MODULE MCEngine -------------------------------
(***************************************************************************)
(* A registration that joins two surfaces by code, follows what the code   *)
(* emits up with a turn, and watches both of them for a second event.      *)
(***************************************************************************)
EXTENDS EngineInspection

Surface == [source |-> "a", target |-> "b"]

Once == <<[name |-> "go", key |-> "x", by |-> None]>>
Before == [a |-> Once, b |-> Once]

Conditions ==
  [join |-> All(<<One("source", "go"), One("target", "go")>>),
   twice |-> Any(<<InSequence("source", <<"go", "go">>), Count("target", "go", "eq", 2)>>),
   chain |-> One("target", "done")]

\* What the code of join declares, and what may come of it.
TargetOnly == [join |-> {"target"}]
Reactions ==
  [join |-> {Asks(<<Emit("k", "target", "done")>>),
             Asks(<<Emit("k", "target", "done"), Emit("k", "target", "more")>>),
             Asks(<<Emit("k", "target", "more"), Emit("l", "target", "done")>>),
             Asks(<<Emit("k", "source", "done")>>)},
   twice |-> {Asks(<<Emit("k", "source", "done")>>)},
   chain |-> {Asks(<<Followup("f", "source")>>)}]
===============================================================================
