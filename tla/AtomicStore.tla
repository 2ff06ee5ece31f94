---------------------------- MODULE AtomicStore ----------------------------
(***************************************************************************)
(* What the workflow store promises of a change's state file:              *)
(* "every write re-reads the target state file from disk, applies the      *)
(* mutation to the fresh content, validates it, and writes atomically"     *)
(* (internal/store/store.go). A writer reads the file and later replaces   *)
(* it by one whole operation applied to what it has read; others may write *)
(* between the two. What the operations do is left to the parameters.      *)
(***************************************************************************)
CONSTANTS
  Writers, None,
  InitDocs, ExternalDocs, Unreadable,
  Calls,              \* the calls that may be made
  Accepts(_, _),      \* Accepts(call, doc): the operation may be applied to doc
  Result(_, _),       \* Result(call, doc): what it makes of doc
  Valid(_),           \* what a write requires of the new content
  Derivable           \* the overall statuses a task tree may derive

VARIABLES
  disk,
  base                \* base[w]: what writer w has read and is about to write upon

Init == disk \in InitDocs /\ base = [w \in Writers |-> None]

Read(w) ==
  /\ disk # Unreadable
  /\ base' = [base EXCEPT ![w] = disk] /\ UNCHANGED disk

Drop(w) == base' = [base EXCEPT ![w] = None]

(* A decomposition makes a directory and leaves the state file alone.      *)
Writing == {c \in Calls : c.op # "decompose"}

Write(w) ==
  /\ base[w] # None
  /\ \E c \in Writing : Accepts(c, base[w]) /\ disk' = Result(c, base[w])
  /\ Valid(disk') /\ Drop(w)

(* The overall status is derived again. User-set ones are exempt.          *)
Converge(w) ==
  /\ base[w] # None /\ base[w].status.derived
  /\ \E value \in Derivable : disk' = [base[w] EXCEPT !.status.value = value]
  /\ Valid(disk') /\ Drop(w)

Fail(w) == Drop(w) /\ UNCHANGED disk

Edit == disk' \in ExternalDocs /\ UNCHANGED base

Crash == base' = [w \in Writers |-> None] /\ UNCHANGED disk

Next == Edit \/ Crash \/ \E w \in Writers : Read(w) \/ Write(w) \/ Converge(w) \/ Fail(w)

Spec == Init /\ [][Next]_<<disk, base>>
=============================================================================
