------------------------------- MODULE NoteLog -------------------------------
(***************************************************************************)
(* What the notes are to their readers: under every request a log that     *)
(* people add to.  An entry keeps its request and its author for good; it  *)
(* can be struck out once, and goes when its request is closed.  Nothing   *)
(* is added to a closed request, and nothing comes back.                   *)
(***************************************************************************)
CONSTANTS Requests, Entries, People, Nothing

VARIABLES open, entry, struck

lvars == <<open, entry, struck>>

LInit == open = Requests /\ entry = [e \in Entries |-> Nothing] /\ struck = {}

Post(e, i, u) ==
  /\ entry[e] = Nothing /\ i \in open
  /\ entry' = [entry EXCEPT ![e] = <<i, u>>]
  /\ UNCHANGED <<open, struck>>

Strike(e) ==
  /\ entry[e] # Nothing /\ entry[e][1] \in open
  /\ struck' = struck \cup {e}
  /\ UNCHANGED <<open, entry>>

Close(i) ==
  /\ i \in open
  /\ open' = open \ {i}
  /\ struck' = struck \cup {e \in Entries : entry[e] # Nothing /\ entry[e][1] = i}
  /\ UNCHANGED entry

LNext ==
  \/ \E e \in Entries, i \in Requests, u \in People : Post(e, i, u)
  \/ \E e \in Entries : Strike(e)
  \/ \E i \in Requests : Close(i)

LSpec == LInit /\ [][LNext]_lvars
=============================================================================
