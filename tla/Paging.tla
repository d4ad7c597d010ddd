------------------------------- MODULE Paging -------------------------------
(***************************************************************************)
(* The arithmetic of pages: how a handler reads page and per_page from a   *)
(* query, what RequestRepo.List makes of them in its own copy of the       *)
(* filter, and how many pages a total makes.  Go's int is two's complement *)
(* between -MaxInt-1 and MaxInt and wraps.                                 *)
(***************************************************************************)
EXTENDS Integers

CONSTANTS
  MaxInt,          \* the largest int, 2^63 - 1 on the platforms it is built for
  DefaultPerPage,  \* 25
  MaxPerPage       \* 100

ASSUME PagingAssumption ==
  /\ MaxInt \in Nat /\ DefaultPerPage \in Nat /\ MaxPerPage \in Nat
  /\ 1 <= DefaultPerPage /\ DefaultPerPage <= MaxPerPage /\ MaxPerPage <= MaxInt

Int64 == (-MaxInt - 1) .. MaxInt
Wrapped(n) == ((n + MaxInt + 1) % (2 * (MaxInt + 1))) - (MaxInt + 1)

(* Atoi refuses what does not fit an int; raw is any integer in decimal    *)
(* digits, and what is no integer is treated like one that does not fit.   *)
IntQuery(raw, default) == IF raw \in 1 .. MaxInt THEN raw ELSE default

PageOf(n) == IF n < 1 THEN 1 ELSE n
PerPageOf(n) == IF n < 1 \/ n > MaxPerPage THEN DefaultPerPage ELSE n

(* Mutant: pages are counted from zero.                                    *)
OffsetOf_FromZero(page, perPage) == Wrapped(PageOf(page) * PerPageOf(perPage))
OffsetOf(page, perPage) == Wrapped((PageOf(page) - 1) * PerPageOf(perPage))

(* How many pages of perPage rows total makes: the web list computes and   *)
(* shows it for its own 25; readers of the API, which answers the total    *)
(* and the per_page that was asked for, find it out for themselves.        *)

(* Mutant: the last page, when it is not full, is not counted.             *)
TotalPages_Floor(total, perPage) ==
  IF total \div perPage < 1 THEN 1 ELSE total \div perPage
TotalPages(total, perPage) ==
  LET pages == (total + perPage - 1) \div perPage
  IN  IF pages < 1 THEN 1 ELSE pages
=============================================================================
