-------------------------------- MODULE Notes --------------------------------
(***************************************************************************)
(* The notes people leave on requests: request_notes, the notes_blocked    *)
(* flag of users, and the handlers that read and write them.  A call is a  *)
(* Submit step (the session's user is read and the input validated), then  *)
(* one step per statement; every statement commits by itself.  Deleting a  *)
(* request takes its notes along.                                          *)
(*                                                                         *)
(* Admins set the flag with PATCH or through the edit form of a user.  The *)
(* form is filled in when the page is rendered and writes back all it      *)
(* holds when it is submitted, however much later.                         *)
(*                                                                         *)
(* Bodies are what validation makes of them.  Who is a moderator is fixed; *)
(* roles change in Accounts.  The order of the notes is left out.          *)
(***************************************************************************)
EXTENDS Naturals, FiniteSets

CONSTANTS
  Handlers,  \* goroutines serving requests at the same time
  Requests,  \* the requests on the board to begin with
  NoteIds,   \* note UUIDs, drawn fresh by uuid.New()
  Users,     \* who posts and moderates
  Mods,      \* those of them with the role mod or admin
  Forms,     \* browser tabs of admins, each with one edit form at a time
  Calls,     \* the calls clients make
  None

AddOps == {"add", "addForm"}
DeleteOps == {"delete", "deleteForm"}
ReadOps == {"list", "detail"}
CallType ==
  [op : AddOps \cup DeleteOps \cup ReadOps \cup {"deleteRequest"}, user : Users,
   on : Requests, note : NoteIds \cup {None},
   body : {"text", "blank", "tooLong", "undecodable"}]

ASSUME NotesAssumption ==
  /\ None \notin Requests \cup NoteIds \cup Users
  /\ None \notin Requests \X Users
  /\ Calls \subseteq CallType
  /\ \A c \in Calls : c.op \in DeleteOps => c.note \in NoteIds

VARIABLES
  request,  \* request id -> live or gone
  note,     \* note id -> its row
  blocked,  \* user -> notes_blocked
  form,     \* the edit form in each tab: whose it is and how its box is ticked
  task      \* handler -> the call it serves and how far it is

vars == <<request, note, blocked, form, task>>
tables == <<request, note, blocked, form>>

Note == [phase : {"unborn", "there", "gone"}, on : Requests \cup {None},
         by : Users \cup {None}]
MakeNote(p, i, u) == [phase |-> p, on |-> i, by |-> u]
Unborn == MakeNote("unborn", None, None)
There(n) == note[n].phase = "there"
NotesOn(i) == {n \in NoteIds : There(n) /\ note[n].on = i}
Gone(n) == MakeNote("gone", note[n].on, note[n].by)
Without(N) == [n \in NoteIds |-> IF n \in N THEN Gone(n) ELSE note[n]]

(* error is the 500 of a note whose request is missing, failed the 500 of  *)
(* a statement that went wrong otherwise.                                  *)
Replies == {"none", "ok", "created", "null", "page", "invalid", "forbidden",
            "notFound", "error", "failed"}
(* posted: the note this call has inserted; shown: the notes it answers.   *)
Task == [pc : {"idle", "exists", "insert", "reread", "delete", "deleteRequest", "load", "list"},
         call : CallType \cup {None}, posted : NoteIds \cup {None},
         shown : SUBSET NoteIds, reply : Replies]
MakeTask(pc, c, n, N, r) ==
  [pc |-> pc, call |-> c, posted |-> n, shown |-> N, reply |-> r]
Idle(answer) == MakeTask("idle", None, None, {}, answer)

At(h, pc) == task[h].pc = pc
Goto(h, t) == task' = [task EXCEPT ![h] = t]
Begin(h, c, pc) == Goto(h, MakeTask(pc, c, None, {}, "none"))
Answer(h, r) == Goto(h, Idle(r))

-----------------------------------------------------------------------------
(* Posting                                                                 *)

(* Bound: a note is begun only while an id is left for it and for every    *)
(* note that is being posted.                                              *)
IdLeft ==
  Cardinality({h \in Handlers : task[h].pc \in {"exists", "insert"}})
    < Cardinality({n \in NoteIds : note[n].phase = "unborn"})

(* Mutant: the flag is left to the page, which hides the form.             *)
SubmitAdd_Unchecked(h, c) ==
  /\ At(h, "idle") /\ c.op \in AddOps /\ IdLeft
  /\ UNCHANGED tables
  /\ IF c.body # "text" THEN Answer(h, "invalid") ELSE Begin(h, c, "exists")

(* The middleware reads the user with the session, once, and the handler   *)
(* looks at that copy.  The form's body is never undecodable, and a blank  *)
(* one just leads back to the request.                                     *)
SubmitAdd(h, c) ==
  /\ At(h, "idle") /\ c.op \in AddOps /\ IdLeft
  /\ UNCHANGED tables
  /\ \/ blocked[c.user] /\ Answer(h, "forbidden")
     \/ /\ ~blocked[c.user] /\ c.body # "text"
        /\ Answer(h, IF c.body = "blank" /\ c.op = "addForm" THEN "ok" ELSE "invalid")
     \/ ~blocked[c.user] /\ c.body = "text" /\ Begin(h, c, "exists")

(* GetByID, "so a bad ID is a clean 404".                                  *)
CheckRequest(h) ==
  LET c == task[h].call IN
  /\ At(h, "exists")
  /\ UNCHANGED tables
  /\ IF request[c.on] = "gone" THEN Answer(h, "notFound") ELSE Begin(h, c, "insert")

(* Mutant: request_id is no foreign key.                                   *)
InsertNote_NoForeignKey(h) ==
  LET c == task[h].call IN
  /\ At(h, "insert")
  /\ UNCHANGED <<request, blocked, form>>
  /\ \E n \in NoteIds :
       /\ note[n].phase = "unborn"
       /\ note' = [note EXCEPT ![n] = MakeNote("there", c.on, c.user)]
       /\ Goto(h, MakeTask("reread", c, n, {}, "none"))

(* INSERT under the foreign key on request_id.                             *)
InsertNote(h) ==
  LET c == task[h].call IN
  /\ At(h, "insert")
  /\ UNCHANGED <<request, blocked, form>>
  /\ \/ /\ request[c.on] = "gone"
        /\ UNCHANGED note
        /\ Answer(h, "error")
     \/ \E n \in NoteIds :
          /\ request[c.on] = "live" /\ note[n].phase = "unborn"
          /\ note' = [note EXCEPT ![n] = MakeNote("there", c.on, c.user)]
          /\ Goto(h, MakeTask("reread", c, n, {}, "none"))

(* Mutant: the handler answers with what it inserted, not what it read.    *)
RereadNote_Remembered(h) ==
  /\ At(h, "reread")
  /\ UNCHANGED tables
  /\ Answer(h, IF task[h].call.op = "addForm" THEN "ok" ELSE "created")

(* GetNote.  A note that is gone by then is answered as null; the form     *)
(* does not look.                                                          *)
RereadNote(h) ==
  /\ At(h, "reread")
  /\ UNCHANGED tables
  /\ Answer(h, IF task[h].call.op = "addForm" THEN "ok"
               ELSE IF There(task[h].posted) THEN "created" ELSE "null")

-----------------------------------------------------------------------------
(* Deleting                                                                *)

SubmitDelete(h, c) ==
  /\ At(h, "idle") /\ c.op \in DeleteOps \cup {"deleteRequest"}
  /\ UNCHANGED tables
  /\ IF c.user \notin Mods THEN Answer(h, "forbidden")
     ELSE Begin(h, c, IF c.op = "deleteRequest" THEN "deleteRequest" ELSE "delete")

(* Mutant: the note's id alone says what to delete.                        *)
DeleteNote_Unscoped(h) ==
  LET c == task[h].call IN
  /\ At(h, "delete")
  /\ UNCHANGED <<request, blocked, form>>
  /\ note' = Without({c.note} \cap {n \in NoteIds : There(n)})
  /\ Answer(h, IF There(c.note) THEN "ok" ELSE "notFound")

(* One statement, scoped by the request the path names.                    *)
DeleteNote(h) ==
  LET c == task[h].call IN
  /\ At(h, "delete")
  /\ UNCHANGED <<request, blocked, form>>
  /\ note' = Without({c.note} \cap NotesOn(c.on))
  /\ Answer(h, IF c.note \in NotesOn(c.on) THEN "ok" ELSE "notFound")

(* Mutant: the notes of a deleted request stay.                            *)
DeleteRequest_NoCascade(h) ==
  LET i == task[h].call.on IN
  /\ At(h, "deleteRequest")
  /\ UNCHANGED <<note, blocked, form>>
  /\ request' = [request EXCEPT ![i] = "gone"]
  /\ Answer(h, IF request[i] = "live" THEN "ok" ELSE "notFound")

(* DELETE FROM anime_requests; request_notes says ON DELETE CASCADE.       *)
DeleteRequest(h) ==
  LET i == task[h].call.on IN
  /\ At(h, "deleteRequest")
  /\ UNCHANGED <<blocked, form>>
  /\ request' = [request EXCEPT ![i] = "gone"]
  /\ note' = Without(NotesOn(i))
  /\ Answer(h, IF request[i] = "live" THEN "ok" ELSE "notFound")

-----------------------------------------------------------------------------
(* Reading                                                                 *)

SubmitRead(h, c) ==
  /\ At(h, "idle") /\ c.op \in ReadOps
  /\ UNCHANGED tables
  /\ Begin(h, c, IF c.op = "detail" THEN "load" ELSE "list")

(* The detail page loads the request first; the API does not look for it.  *)
LoadRequest(h) ==
  LET c == task[h].call IN
  /\ At(h, "load")
  /\ UNCHANGED tables
  /\ IF request[c.on] = "gone" THEN Answer(h, "notFound") ELSE Begin(h, c, "list")

ListNotes(h) ==
  LET c == task[h].call IN
  /\ At(h, "list")
  /\ UNCHANGED tables
  /\ Goto(h, MakeTask("idle", None, None, NotesOn(c.on), "page"))

(* A statement fails or the client goes away: what is written stays.       *)
Fail(h) ==
  /\ ~At(h, "idle")
  /\ UNCHANGED tables
  /\ Answer(h, "failed")

-----------------------------------------------------------------------------
(* The flag                                                                *)

Form == [user : Users, ticked : BOOLEAN]
MakeForm(u, b) == [user |-> u, ticked |-> b]

(* Mutant: a PATCH without the field clears it.                            *)
PatchUser_Clears(u, b) ==
  /\ blocked' = [blocked EXCEPT ![u] = (b = "yes")]
  /\ UNCHANGED <<request, note, form, task>>

(* PATCH sets the fields it carries; without notes_blocked it sets others. *)
PatchUser(u, b) ==
  /\ blocked' = [blocked EXCEPT ![u] = IF b = "absent" THEN @ ELSE b = "yes"]
  /\ UNCHANGED <<request, note, form, task>>

OpenForm(f, u) ==
  /\ form' = [form EXCEPT ![f] = {MakeForm(u, blocked[u])}]
  /\ UNCHANGED <<request, note, blocked, task>>

(* The admin leaves the box as it came or changes it; either way it is     *)
(* written.  A page can be sent again with the browser's back button, which*)
(* is another form opened then.                                            *)
SubmitForm(f, changed) ==
  /\ \E m \in form[f] :
       blocked' = [blocked EXCEPT ![m.user] = m.ticked # changed]
  /\ form' = [form EXCEPT ![f] = {}]
  /\ UNCHANGED <<request, note, task>>

-----------------------------------------------------------------------------
Init ==
  /\ request = [i \in Requests |-> "live"]
  /\ note = [n \in NoteIds |-> Unborn]
  /\ blocked = [u \in Users |-> FALSE]
  /\ form = [f \in Forms |-> {}]
  /\ task = [h \in Handlers |-> Idle("none")]

Submit(h, c) == SubmitAdd(h, c) \/ SubmitDelete(h, c) \/ SubmitRead(h, c)

Step(h) ==
  \/ CheckRequest(h) \/ InsertNote(h) \/ RereadNote(h)
  \/ DeleteNote(h) \/ DeleteRequest(h)
  \/ LoadRequest(h) \/ ListNotes(h) \/ Fail(h)

Administer ==
  \/ \E u \in Users, b \in {"yes", "no", "absent"} : PatchUser(u, b)
  \/ \E f \in Forms, u \in Users : OpenForm(f, u)
  \/ \E f \in Forms, changed \in BOOLEAN : SubmitForm(f, changed)

Next == Administer \/ \E h \in Handlers : Step(h) \/ \E c \in Calls : Submit(h, c)

Spec == Init /\ [][Next]_vars
=============================================================================
