--------------------------- MODULE NotesProperties ---------------------------
(***************************************************************************)
(* What the notes promise while posts, deletions, blocks and the edit      *)
(* forms of admins overlap.                                                *)
(***************************************************************************)
EXTENDS Notes

VARIABLES
  overtaken,  \* user -> the calls that were past the flag when it was set
  meant,      \* user -> the flag as an admin last chose it
  outdated    \* the tabs whose form was filled in before the last such choice,
              \* or with what a form like that had left behind

history == <<overtaken, meant, outdated>>

Posting(h) == task[h].pc \in {"exists", "insert"}
PostingFor(u) == {h \in Handlers : Posting(h) /\ task[h].call.user = u}

(* chosen: the flags that the admin of this step means to set.  A patch    *)
(* without the field and a form with its box as it was mean to set none.   *)
Remember(chosen) ==
  /\ overtaken' = [u \in Users |->
       IF blocked'[u] /\ ~blocked[u] THEN PostingFor(u)
       ELSE overtaken[u] \cap PostingFor(u)']
  /\ meant' = [u \in Users |->
       IF \E b \in BOOLEAN : MakeForm(u, b) \in chosen
       THEN MakeForm(u, TRUE) \in chosen ELSE meant[u]]
  /\ outdated' = {f \in Forms : \E m \in form'[f] :
       IF form'[f] = form[f] THEN f \in outdated \/ meant'[m.user] # meant[m.user]
       ELSE blocked'[m.user] # meant'[m.user]}

HistoryInit ==
  /\ Init
  /\ overtaken = [u \in Users |-> {}]
  /\ meant = [u \in Users |-> FALSE]
  /\ outdated = {}

HistoryNext ==
  \/ \E u \in Users, b \in BOOLEAN :
       PatchUser(u, IF b THEN "yes" ELSE "no") /\ Remember({MakeForm(u, b)})
  \/ \E u \in Users : PatchUser(u, "absent") /\ Remember({})
  \/ \E f \in Forms, u \in Users : OpenForm(f, u) /\ Remember({})
  \/ \E f \in Forms : SubmitForm(f, FALSE) /\ Remember({})
  \/ \E f \in Forms :
       SubmitForm(f, TRUE) /\ Remember({MakeForm(m.user, ~m.ticked) : m \in form[f]})
  \/ \E h \in Handlers : /\ Step(h) \/ \E c \in Calls : Submit(h, c)
                         /\ Remember({})
HistorySpec == HistoryInit /\ [][HistoryNext]_<<vars, history>>

-----------------------------------------------------------------------------
(* Types, and what the tables and the calls in progress refer to: a note   *)
(* that is there is on a request that is live and has an author, and a     *)
(* call past its insert has inserted a note of its own.                    *)
TypeOK ==
  /\ request \in [Requests -> {"live", "gone"}]
  /\ note \in [NoteIds -> Note]
  /\ blocked \in [Users -> BOOLEAN]
  /\ form \in [Forms -> SUBSET Form]
  /\ task \in [Handlers -> Task]
NotesRefer ==
  \A n \in NoteIds :
    /\ There(n) => note[n].on \in Requests /\ request[note[n].on] = "live"
    /\ note[n].phase # "unborn" => note[n].on \in Requests /\ note[n].by \in Users
CallFits(t) ==
  /\ t.pc # "idle" => t.call \in Calls
  /\ t.pc \in {"exists", "insert", "reread"} => t.call.op \in AddOps
  /\ t.pc \in {"exists", "insert", "reread"} => t.call.body = "text"
  /\ t.pc = "delete" => t.call.op \in DeleteOps
  /\ t.pc \in {"delete", "deleteRequest"} => t.call.user \in Mods
  /\ t.pc = "reread" => /\ t.posted \in NoteIds
                        /\ note[t.posted].phase # "unborn"
                        /\ note[t.posted].on = t.call.on
                        /\ note[t.posted].by = t.call.user
  /\ t.pc # "reread" => t.posted = None
NotesOK == TypeOK /\ NotesRefer /\ \A h \in Handlers : CallFits(task[h])

(* A note leaves the log only with its request, or by a moderator's call   *)
(* that names both the note and the request it is on: "a mismatched URL is *)
(* a no-op".                                                               *)
StruckByName ==
  [][\A n \in NoteIds : There(n) /\ ~There(n)' =>
       \E h \in Handlers :
         /\ task'[h] # task[h] /\ task[h].call.user \in Mods
         /\ task[h].call.on = note[n].on
         /\ \/ At(h, "deleteRequest") /\ request'[note[n].on] = "gone"
            \/ At(h, "delete") /\ task[h].call.note = n]_vars

(* What a call that posts is told.  created: its note is there as it was   *)
(* posted; null: it was posted, and somebody has deleted it already; error:*)
(* its request has been deleted since the handler looked; a refusal: it has*)
(* posted nothing.  Only failed leaves the poster in doubt, and to try     *)
(* again may then post twice.                                              *)
AnswersTrue ==
  [][\A h \in Handlers : ~At(h, "idle") /\ task'[h].pc = "idle" =>
       LET n == task[h].posted
           i == task[h].call.on
           r == task'[h].reply IN
       /\ r = "created" => There(n) /\ note[n].on = i /\ note[n].by = task[h].call.user
       /\ r = "null" => n # None /\ note[n].phase = "gone"
       /\ r = "error" => At(h, "insert") /\ request[i] = "gone"
       /\ r \in {"invalid", "forbidden", "notFound", "error"} =>
            n = None /\ UNCHANGED note]_vars

(* Once an admin has set the flag, the user posts nothing but the notes    *)
(* whose calls were past the flag when it was set: none of the calls that  *)
(* come later, whatever forms and patches are under way.                   *)
BlockHolds ==
  \A u \in Users : blocked[u] => PostingFor(u) \subseteq overtaken[u]

(* The flag of a user is as an admin last chose it, until a form is sent   *)
(* in that was filled in before that choice.  A patch of other fields and  *)
(* a form filled in with the chosen flag never undo a block.               *)
BlockUndoneOnlyByOldForm ==
  [][\A u \in Users :
       (blocked[u] = meant[u] /\ blocked'[u] # meant'[u]) =>
         \E f \in outdated : form'[f] = {} /\ \E m \in form[f] : m.user = u]_<<vars, history>>

-----------------------------------------------------------------------------
(* The statements of all handlers together implement the log: an entry is  *)
(* what a note id was given when it was inserted.                          *)
Log == INSTANCE NoteLog WITH
  Entries <- NoteIds, People <- Users, Nothing <- None,
  open <- {i \in Requests : request[i] = "live"},
  entry <- [n \in NoteIds |->
              IF note[n].phase = "unborn" THEN None ELSE <<note[n].on, note[n].by>>],
  struck <- {n \in NoteIds : note[n].phase = "gone"}
ImplementsLog == Log!LSpec
=============================================================================
