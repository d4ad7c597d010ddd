-------------------------- MODULE ListingProperties --------------------------
(***************************************************************************)
(* What a reader may expect of a walk through the pages.                   *)
(***************************************************************************)
EXTENDS Listing

CONSTANTS
  MaxMoves,  \* bound: rows that come or go during one walk
  MaxTotal   \* bound: the rows that pages are cut from in PagesPartition

(* The rows are fewer than an int can count, by a page, and more than the  *)
(* maximum is two default pages or more.                                   *)
ASSUME PropertiesAssumption ==
  /\ MaxMoves \in Nat /\ MaxTotal \in Nat /\ MaxTotal + MaxPerPage <= MaxInt
  /\ IsFiniteSet(Rows) /\ Cardinality(Rows) + MaxPerPage <= MaxInt
  /\ 2 * DefaultPerPage <= MaxPerPage + 1

(* The walk so far: which row was shown on which page, the rows that were  *)
(* there all along, how many rows came and went, how many of them came     *)
(* between the last count and its page, and how many a broken page left    *)
(* out.                                                                    *)
VARIABLES shown, steady, came, went, late, lost

history == <<shown, steady, came, went, late, lost>>

Arrived == Cardinality({i \in Rows : ~Visible(i) /\ Visible(i)'})
Departed == Cardinality({i \in Rows : Visible(i) /\ ~Visible(i)'})
CutOff ==
  LET offset == OffsetOf(walk.page, walk.size)
      whole == Smaller(PerPageOf(walk.size),
                       Cardinality(Listed) - Smaller(offset, Cardinality(Listed)))
  IN  whole - Cardinality(walk'.got)

Forget(rows) ==
  /\ shown' = {} /\ steady' = rows
  /\ came' = 0 /\ went' = 0 /\ late' = 0 /\ lost' = 0

Remember ==
  IF walk.pc \in {"idle", "done"}
  THEN Forget(IF walk'.pc = "count" THEN Listed ELSE {})
  ELSE /\ came' = came + Arrived
       /\ went' = went + Departed
       /\ came' + went' <= MaxMoves
       /\ shown' = IF walk.pc = "page" /\ walk'.pc = "answer"
                   THEN shown \cup (walk'.got \X {walk.page}) ELSE shown
       /\ steady' = {i \in steady : Visible(i)'}
       /\ late' = IF walk.pc = "count" /\ walk'.pc = "page" THEN 0
                  ELSE IF walk.pc = "page" THEN late + Arrived ELSE late
       /\ lost' = IF walk.pc = "page" /\ walk'.pc = "answer" THEN lost + CutOff ELSE lost

HistoryInit ==
  /\ Init
  /\ shown = {} /\ steady = {}
  /\ came = 0 /\ went = 0 /\ late = 0 /\ lost = 0
HistorySpec == HistoryInit /\ [][Next /\ Remember]_<<vars, history>>

-----------------------------------------------------------------------------
(* Go's ints as queries may spell them, and some that do not fit.          *)
Spellings == -1 .. MaxInt + 2
Offset(rawPage, rawSize) ==
  OffsetOf(IntQuery(rawPage, 1), IntQuery(rawSize, DefaultPerPage))

(* Whatever a query holds, of the pages that its answer makes of the total *)
(* by the per_page it repeats: none is empty but the only one of none, no  *)
(* two share a row, and together they are the newest rows, one clamped     *)
(* page after another.  They leave rows out when and only when the reader  *)
(* asks for more than the maximum, of more rows than the clamped page      *)
(* takes, for List clamps its own copy of per_page and the answer repeats  *)
(* the raw one.  A page beyond the rows is empty, or refused when its      *)
(* offset wraps to below zero, until the offset has wrapped once around.   *)
(* Nothing here depends on the rows, so it is looked at before the first.  *)
PagesPartition ==
  clock = 0 => \A total \in 0 .. MaxTotal, size \in Spellings :
    LET asked == IntQuery(size, DefaultPerPage)
        cut == PerPageOf(asked)
        last == TotalPages(total, asked)
        holds(n) == {rank \in 0 .. total - 1 :
                       /\ 0 <= Offset(n, size) /\ Offset(n, size) <= rank
                       /\ rank < Offset(n, size) + cut}
    IN
    /\ UNION {holds(n) : n \in 1 .. last} = 0 .. Smaller(total, last * cut) - 1
    /\ \A m, n \in 1 .. last : m # n => holds(m) \cap holds(n) = {}
    /\ total > 0 => \A n \in 1 .. last : holds(n) # {}
    /\ last * cut < total <=> asked > MaxPerPage /\ cut < total
    /\ \A n \in Spellings :
         n > TotalPages(total, cut) /\ n <= MaxInt /\ holds(n) # {} =>
           (n - 1) * cut >= 2 * (MaxInt + 1)

(* The rows that shared their created_at with no other row.                *)
Alone == {i \in Rows : \A j \in Rows \ {i} : row[j].at # row[i].at}
Kept == steady \cap Alone
Shown == {s[1] : s \in shown}
(* The times that one of them was shown again.                             *)
Again == {s \in shown : s[1] \in Kept /\ \E n \in 1 .. s[2] - 1 : <<s[1], n>> \in shown}

(* What was counted and lies beyond the pages read, which are of the       *)
(* clamped size.                                                           *)
Unread ==
  walk.total - Smaller(walk.total, walk.page * PerPageOf(walk.size))

(* Rows that were listed all through the walk and were never shown: there  *)
(* are no more of them than rows that left the list meanwhile and moved    *)
(* the rest up, rows that came after the last count and moved the rest     *)
(* beyond its last page, and rows that broken pages left out; and, for a   *)
(* reader that asked for more than the maximum and takes the answer at its *)
(* word, the rows beyond as many pages of the clamped size.  Rows of one   *)
(* batch are exempt, for their order may change from page to page.  So a   *)
(* walk by the web list, or by no more than the maximum, while nothing     *)
(* changes and nothing breaks misses nothing.                              *)
MissesExplained ==
  walk.pc = "done" =>
    Cardinality(Kept \ Shown)
      <= went + late + lost + (IF walk.size > MaxPerPage THEN Unread ELSE 0)

(* Rows are shown again, in all, no more often than rows came and moved    *)
(* them down.                                                              *)
RepeatsExplained == walk.pc = "done" => Cardinality(Again) <= came

-----------------------------------------------------------------------------
(* Why: a row of its own time has a rank in the list that no other has.    *)
(* What leaves the list moves the rows below it up by one, maybe to pages  *)
(* that were read; what comes moves them down, maybe to pages to be read.  *)
Newer(i) == {j \in Listed : row[j].at > row[i].at}
Rank(i) == Cardinality(Newer(i))
StartOf(n) == (n - 1) * PerPageOf(walk.size)
Passed(n) == {i \in Kept \ Shown : Rank(i) < StartOf(n)}
Ahead(n) == {i \in Kept \cap Shown : Rank(i) >= StartOf(n)}

(* The walk has read the pages before n.                                   *)
ReadUpTo(n) ==
  /\ \A s \in shown : s[2] < n
  /\ Cardinality(Passed(n)) <= went + lost
  /\ Cardinality(Ahead(n)) + Cardinality(Again) <= came

ListingOK ==
  /\ row \in [Rows -> [phase : {"unborn", "open", "live", "gone"}, at : Nat, fits : BOOLEAN]]
  /\ clock \in Nat
  /\ \A i \in Rows : row[i].at = 0 <=> row[i].phase = "unborn"
  /\ walk \in [pc : {"idle", "count", "page", "answer", "done"}, size : Sizes \cup {DefaultPerPage},
               page : Nat \ {0}, total : 0 .. Cardinality(Rows), got : SUBSET Rows]
  /\ shown \in SUBSET (Rows \X (Nat \ {0})) /\ steady \subseteq Listed
  /\ came \in Nat /\ went \in Nat /\ late \in Nat /\ lost \in Nat

WalkInv ==
  /\ walk.pc \in {"count", "page"} =>
       ReadUpTo(walk.page) /\ StartOf(walk.page) <= Cardinality(Rows)
  /\ walk.pc = "page" => Cardinality(Listed) <= walk.total + late
  /\ walk.pc = "answer" =>
       /\ ReadUpTo(walk.page + 1)
       /\ Cardinality(Kept \ Shown) <= went + late + lost + Unread
  /\ MissesExplained /\ RepeatsExplained
=============================================================================
