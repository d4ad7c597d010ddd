------------------------------ MODULE MCNotes ------------------------------
(***************************************************************************)
(* Instances of the notes for TLC.                                         *)
(***************************************************************************)
EXTENDS NotesProperties, TLC

CONSTANTS h1, h2, i1, i2, n1, n2, ann, mod, f1

TwoHandlers == {h1, h2}
Symmetric == Permutations(Handlers) \cup Permutations(Requests)
  \cup Permutations(NoteIds)

Call(op, u, i) == [op |-> op, user |-> u, on |-> i, note |-> None, body |-> "text"]

(* ann posts and reads while her flag is set and lifted; mod deletes notes,*)
(* under the path of either request, and requests.                         *)
SomeCalls ==
  {Call("add", ann, i) : i \in Requests}
  \cup {[Call("addForm", ann, i) EXCEPT !.body = "blank"] : i \in Requests}
  \cup {[Call("delete", mod, i) EXCEPT !.note = n] : i \in Requests, n \in NoteIds}
  \cup {Call("deleteRequest", mod, i) : i \in Requests}
  \cup {Call("detail", ann, i) : i \in Requests}
=============================================================================
