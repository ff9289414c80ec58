------------------------------ MODULE MCAdmission ------------------------------
(***************************************************************************)
(* Two directories whose registrations share a Surface and the name of an   *)
(* output.                                                                  *)
(***************************************************************************)
EXTENDS Admission, TLC

Route(builtin, consume, emit, output) ==
  [builtin |-> builtin, consumeFrom |-> consume, emitOn |-> emit, surfaceOutputFrom |-> output]

\* done is emitted by turns and consumed by the code, todo is emitted by the
\* code.
Both == [done |-> Route(FALSE, {"h"}, {}, {"h"}), todo |-> Route(FALSE, {}, {"h"}, {})]
Ask == [done |-> Route(FALSE, {}, {}, {"h"})]
Wrong == [tool |-> Route(TRUE, {"h"}, {"h"}, {})]

Registration(id, events) ==
  [id |-> id, entrypoint |-> "main", bindings |-> [h |-> "s"], events |-> events]

Says(d) == [files |-> {"main"}, declares |-> [done |-> d, todo |-> "x", tool |-> None]]

\* registration.json is missing at first; the first may ask for what a
\* built-in event does not permit, and the second has the output of the first, or its id.
SomeSources ==
  [d \in {"a", "b"} |-> IF d = "a" THEN {Registration("r1", Both), Registration("r1", Wrong)}
                        ELSE {Registration("r2", Ask), Registration("r1", Ask)}]
TwoArtifacts == {Says("x"), Says("y")}

Directories == <<"a", "b">>
Bound == <<"s">>
Start(first, second) ==
  [d \in {"a", "b"} |-> [source |-> IF d = "a" THEN first ELSE second, artifact |-> Says("x")]]
Starts == {Start(None, None)}

Catalog == [tool |-> [says |-> "x", exposure |-> "orchestrate-input",
                      subjects |-> {"execution"}, producers |-> {"adapter"}]]
Callers2 == Permutations(Callers)
=============================================================================
