------------------------------- MODULE FileEdits -------------------------------
(***************************************************************************)
(* What the managed edits of a directory promise: an edit of several files  *)
(* happens once and as a whole, on what its author has seen.  Everything    *)
(* else that changes a file is a save of an editor, or it is one of the     *)
(* saves lost to the limits of a portable file system.                      *)
(***************************************************************************)
EXTENDS Naturals

CONSTANTS Files, Contents, Operations, Initial, Unasked
VARIABLES
  files,
  wanted,  \* of each operation: what it expects of its files, and makes of them
  done, saves, lost

vars == <<files, wanted, done, saves, lost>>

Start ==
  /\ files = Initial /\ done = {} /\ saves = 0 /\ lost = {}

Ask(id) ==
  /\ wanted[id] = Unasked
  /\ wanted' = [wanted EXCEPT ![id] = wanted'[id]]
  /\ UNCHANGED <<files, done, saves, lost>>

Commit(id) ==
  LET changes == wanted[id]
  IN  /\ changes # Unasked
      /\ id \notin done /\ done' = done \union {id}
      /\ \A f \in DOMAIN changes : files[f] \in {changes[f].expected, changes[f].content}
      /\ files' = [f \in Files |-> IF f \in DOMAIN changes THEN changes[f].content ELSE files[f]]
      /\ UNCHANGED <<wanted, saves, lost>>

Save(f, c) ==
  /\ saves' = saves + 1
  /\ files' = [files EXCEPT ![f] = c]
  /\ UNCHANGED <<wanted, done, lost>>

Lose(f, c) ==
  /\ lost' = lost \union {f}
  /\ files' = [files EXCEPT ![f] = c]
  /\ UNCHANGED <<wanted, done, saves>>

Step ==
  \/ \E id \in Operations : Ask(id) \/ Commit(id)
  \/ \E f \in Files, c \in Contents : Save(f, c) \/ Lose(f, c)

Spec == Start /\ [][Step]_vars
=============================================================================
