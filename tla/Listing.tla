------------------------------- MODULE Listing -------------------------------
(***************************************************************************)
(* A reader goes through the pages of the request list while others write. *)
(* List counts the rows and fetches the page in two statements; the next   *)
(* page is another call.  created_at is the start of the transaction that  *)
(* inserts a row: a batch gives all its rows the same time, and a          *)
(* transaction that commits late makes rows appear below newer ones.       *)
(*                                                                         *)
(* fits stands for the filter by category and status, which updates make a *)
(* row meet or miss.  The destinations that are fetched for the rows of a  *)
(* page are left out.                                                      *)
(***************************************************************************)
EXTENDS Paging, FiniteSets

CONSTANTS
  Rows,     \* request ids
  MaxTime,  \* bound: transactions that insert
  Sizes     \* the values of per_page, after IntQuery, that readers of the API ask for

ASSUME ListingAssumption == MaxTime \in Nat /\ Sizes \subseteq 1 .. MaxInt

VARIABLES
  row,    \* request id -> phase, created_at and whether the filter takes it
  clock,  \* the start of the last transaction
  walk    \* the reader: the per_page it is told, the page it is at, the total it
          \* is told and the rows it gets

vars == <<row, clock, walk>>

(* phase: unborn, open, live or gone.                                      *)
MakeRow(p, t, b) == [phase |-> p, at |-> t, fits |-> b]
(* pc: idle, count, page, answer or done.                                  *)
MakeWalk(pc, size, n, total, got) ==
  [pc |-> pc, size |-> size, page |-> n, total |-> total, got |-> got]
NoWalk == MakeWalk("idle", DefaultPerPage, 1, 0, {})

Visible(i) == row[i].phase = "live" /\ row[i].fits
Listed == {i \in Rows : Visible(i)}

Smaller(m, n) == IF m < n THEN m ELSE n

(* Mutant: the statement has no ORDER BY.                                  *)
Pages_Unordered(offset, limit) ==
  {S \in SUBSET Listed :
     Cardinality(S) = Smaller(limit, Cardinality(Listed) - Smaller(offset, Cardinality(Listed)))}

(* ORDER BY created_at DESC LIMIT limit OFFSET offset: above are the rows  *)
(* skipped, and rows of the same time come in any order.                   *)
Pages(offset, limit) ==
  {S \in SUBSET Listed : \E above \in SUBSET (Listed \ S) :
     LET below == Listed \ (S \cup above) IN
     /\ Cardinality(above) = Smaller(offset, Cardinality(Listed))
     /\ Cardinality(S) = Smaller(limit, Cardinality(Listed) - Cardinality(above))
     /\ \A i \in above, j \in S \cup below : row[i].at >= row[j].at
     /\ \A i \in S, j \in below : row[i].at >= row[j].at}

(* What rows.Next delivers before the connection breaks.                   *)
Beginnings(S) ==
  {T \in SUBSET S : \A i \in T, j \in S \ T : row[i].at >= row[j].at}

-----------------------------------------------------------------------------
(* The writers                                                             *)

(* CreateWithDetails and CreateBatch: one transaction, one created_at.     *)
BeginInsert(S) ==
  /\ clock < MaxTime /\ S # {} /\ \A i \in S : row[i].phase = "unborn"
  /\ clock' = clock + 1
  /\ \E b \in BOOLEAN :
       row' = [i \in Rows |-> IF i \in S THEN MakeRow("open", clock', b) ELSE row[i]]
  /\ UNCHANGED walk

EndInsert(t, phase) ==
  /\ \E i \in Rows : row[i].phase = "open" /\ row[i].at = t
  /\ row' = [i \in Rows |-> IF row[i].phase = "open" /\ row[i].at = t
                            THEN MakeRow(phase, t, row[i].fits) ELSE row[i]]
  /\ UNCHANGED <<clock, walk>>

Delete(i) ==
  /\ row[i].phase = "live"
  /\ row' = [row EXCEPT ![i].phase = "gone"]
  /\ UNCHANGED <<clock, walk>>

(* An update of the status or category.                                    *)
Refile(i) ==
  /\ row[i].phase = "live"
  /\ row' = [row EXCEPT ![i].fits = ~@]
  /\ UNCHANGED <<clock, walk>>

-----------------------------------------------------------------------------
(* The reader                                                              *)

(* The web list asks for DefaultPerPage, the API for what its reader says. *)
StartWalk ==
  /\ walk.pc \in {"idle", "done"}
  /\ \E size \in Sizes \cup {DefaultPerPage} : walk' = MakeWalk("count", size, 1, 0, {})
  /\ UNCHANGED <<row, clock>>

CountRows ==
  /\ walk.pc = "count"
  /\ walk' = MakeWalk("page", walk.size, walk.page, Cardinality(Listed), {})
  /\ UNCHANGED <<row, clock>>

(* List does not ask rows.Err() when rows.Next() is done, so a page that   *)
(* broke off is taken for whole.  No walk comes to a page whose offset     *)
(* wraps; what page numbers do out there is in PagesPartition.             *)
FetchPage ==
  /\ walk.pc = "page"
  /\ \E S \in Pages(OffsetOf(walk.page, walk.size), PerPageOf(walk.size)) :
       \E T \in Beginnings(S) :
         walk' = MakeWalk("answer", walk.size, walk.page, walk.total, T)
  /\ UNCHANGED <<row, clock>>

(* The answer, and the reader's next call when the answer says there are   *)
(* more pages.  Only its own copy of the filter is what List cuts down:    *)
(* the API answers the per_page that was asked for, and the web list       *)
(* counts pages of its 25 and shows a link to the next one.                *)
TurnPage ==
  /\ walk.pc = "answer"
  /\ walk' = IF walk.page < TotalPages(walk.total, walk.size)
             THEN MakeWalk("count", walk.size, walk.page + 1, 0, {})
             ELSE MakeWalk("done", walk.size, walk.page, walk.total, {})
  /\ UNCHANGED <<row, clock>>

(* A call that fails otherwise ends the walk.                              *)
GiveUp ==
  /\ walk.pc \in {"count", "page"}
  /\ walk' = NoWalk
  /\ UNCHANGED <<row, clock>>

Init ==
  /\ row = [i \in Rows |-> MakeRow("unborn", 0, FALSE)]
  /\ clock = 0
  /\ walk = NoWalk

Read == StartWalk \/ CountRows \/ FetchPage \/ TurnPage \/ GiveUp
Write ==
  \/ \E S \in SUBSET Rows : BeginInsert(S)
  \/ \E t \in 1 .. MaxTime, phase \in {"live", "gone"} : EndInsert(t, phase)
  \/ \E i \in Rows : Delete(i) \/ Refile(i)
Next == Read \/ Write
Spec == Init /\ [][Next]_vars
=============================================================================
