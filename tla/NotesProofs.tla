----------------------------- MODULE NotesProofs -----------------------------
(***************************************************************************)
(* Proofs about the notes, for any number of handlers, requests, notes,    *)
(* users and forms.  NotesOK is inductive as it stands.                    *)
(***************************************************************************)
EXTENDS NotesProperties, TLAPS

(* What a task is made of, for every answer and every begun call.          *)
LEMMA MadeTasks ==
  /\ \A r \in Replies : Idle(r) \in Task /\ Idle(r).pc = "idle" /\ Idle(r).posted = None
                        /\ Idle(r).reply = r
  /\ \A c \in Calls, pc \in {"exists", "insert", "delete", "deleteRequest", "load", "list"} :
       MakeTask(pc, c, None, {}, "none") \in Task
  /\ \A c \in Calls, n \in NoteIds : MakeTask("reread", c, n, {}, "none") \in Task
  /\ \A N \in SUBSET NoteIds : MakeTask("idle", None, None, N, "page") \in Task
  BY NotesAssumption DEF Idle, MakeTask, Task, Replies

(* The fields of a task that is made.                                      *)
LEMMA MadeFields ==
  ASSUME NEW pc, NEW c, NEW n, NEW N, NEW r
  PROVE  /\ MakeTask(pc, c, n, N, r).pc = pc /\ MakeTask(pc, c, n, N, r).call = c
         /\ MakeTask(pc, c, n, N, r).posted = n /\ MakeTask(pc, c, n, N, r).shown = N
         /\ MakeTask(pc, c, n, N, r).reply = r
  BY DEF MakeTask

(* Deleting notes keeps what the others are.                               *)
LEMMA WithoutFacts ==
  ASSUME TypeOK, NotesRefer, NEW N \in SUBSET NoteIds,
         \A n \in N : There(n), note' = Without(N)
  PROVE  /\ note' \in [NoteIds -> Note]
         /\ \A n \in NoteIds : note'[n].on = note[n].on /\ note'[n].by = note[n].by
         /\ \A n \in NoteIds : There(n)' <=> There(n) /\ n \notin N
         /\ \A n \in NoteIds : note'[n].phase = "unborn" <=> note[n].phase = "unborn"
         /\ \A n \in NoteIds \ N : note'[n] = note[n]
         /\ \A n \in N : note'[n] = Gone(n)
<1>1. \A n \in NoteIds : note'[n] = IF n \in N THEN Gone(n) ELSE note[n]
  BY DEF Without
<1>2. \A n \in NoteIds : Gone(n) \in Note
  BY DEF TypeOK, Note, Gone, MakeNote
<1>3. note' \in [NoteIds -> Note]
  BY <1>1, <1>2 DEF TypeOK, Without
<1> QED
  BY <1>1, <1>3 DEF There, Gone, MakeNote

(* A step of handler h to task t that leaves the tables alone.             *)
LEMMA QuietStep ==
  ASSUME NotesOK, NEW h \in Handlers, NEW t \in Task, Goto(h, t),
         UNCHANGED tables, CallFits(t)
  PROVE  NotesOK'
<1>1. task'[h] = t /\ \A g \in Handlers \ {h} : task'[g] = task[g]
  BY DEF NotesOK, TypeOK, Goto
<1>2. TypeOK' /\ NotesRefer'
  BY DEF NotesOK, TypeOK, NotesRefer, There, Goto, tables
<1>3. \A g \in Handlers : CallFits(task[g])'
  BY <1>1 DEF NotesOK, CallFits, tables
<1> QED
  BY <1>2, <1>3 DEF NotesOK

(* A task without a call, or with one that has posted nothing yet.         *)
LEMMA BegunFits ==
  ASSUME NEW c \in Calls, NEW pc \in {"exists", "insert", "delete", "deleteRequest", "load", "list"},
         pc \in {"exists", "insert"} => c.op \in AddOps /\ c.body = "text",
         pc = "delete" => c.op \in DeleteOps,
         pc \in {"delete", "deleteRequest"} => c.user \in Mods
  PROVE  CallFits(MakeTask(pc, c, None, {}, "none"))
  BY DEF CallFits, MakeTask

LEMMA IdleFits ==
  /\ \A r \in Replies : CallFits(Idle(r))
  /\ \A N \in SUBSET NoteIds : CallFits(MakeTask("idle", None, None, N, "page"))
  BY DEF CallFits, Idle, MakeTask

(* An answer that leaves the tables alone.                                 *)
LEMMA AnswerStep ==
  ASSUME NotesOK, NEW h \in Handlers, NEW r \in Replies, Answer(h, r), UNCHANGED tables
  PROVE  NotesOK'
  BY MadeTasks, IdleFits, QuietStep DEF Answer

(* Every call that begins fits what it is about to do.                     *)
LEMMA SubmitStep ==
  ASSUME NotesOK, NEW h \in Handlers, NEW c \in Calls, Submit(h, c)
  PROVE  NotesOK'
<1>1. CASE SubmitAdd(h, c)
  <2>1. UNCHANGED tables /\ c.op \in AddOps
    BY <1>1 DEF SubmitAdd
  <2>2. CASE \E r \in {"forbidden", "ok", "invalid"} : Answer(h, r)
    BY <2>1, <2>2, AnswerStep DEF Replies
  <2>3. CASE c.body = "text" /\ Goto(h, MakeTask("exists", c, None, {}, "none"))
    BY <2>1, <2>3, MadeTasks, BegunFits, QuietStep
  <2> QED
    BY <1>1, <2>2, <2>3 DEF SubmitAdd, Begin
<1>2. CASE SubmitDelete(h, c)
  <2>1. UNCHANGED tables /\ c.op \in DeleteOps \cup {"deleteRequest"}
    BY <1>2 DEF SubmitDelete
  <2>2. CASE c.user \notin Mods
    BY <1>2, <2>1, <2>2, AnswerStep DEF SubmitDelete, Replies
  <2>3. CASE c.user \in Mods /\ c.op = "deleteRequest"
    <3>1. Goto(h, MakeTask("deleteRequest", c, None, {}, "none"))
      BY <1>2, <2>3 DEF SubmitDelete, Begin
    <3> QED
      BY <2>1, <2>3, <3>1, MadeTasks, BegunFits, QuietStep
  <2>4. CASE c.user \in Mods /\ c.op # "deleteRequest"
    <3>1. Goto(h, MakeTask("delete", c, None, {}, "none"))
      BY <1>2, <2>4 DEF SubmitDelete, Begin
    <3> QED
      BY <2>1, <2>4, <3>1, MadeTasks, BegunFits, QuietStep
  <2> QED
    BY <2>2, <2>3, <2>4
<1>3. CASE SubmitRead(h, c)
  <2>1. PICK pc \in {"load", "list"} : Goto(h, MakeTask(pc, c, None, {}, "none"))
    BY <1>3 DEF SubmitRead, Begin
  <2> QED
    BY <1>3, <2>1, MadeTasks, BegunFits, QuietStep DEF SubmitRead
<1> QED
  BY <1>1, <1>2, <1>3 DEF Submit

-----------------------------------------------------------------------------
(* Steps that write notes                                                  *)

LEMMA InsertStep ==
  ASSUME NotesOK, NEW h \in Handlers, InsertNote(h)
  PROVE  NotesOK'
<1> DEFINE c == task[h].call
<1>1. c \in Calls /\ c \in CallType /\ c.op \in AddOps /\ c.body = "text"
  BY NotesAssumption DEF NotesOK, CallFits, InsertNote, At
<1>2. UNCHANGED <<request, blocked, form>>
  BY DEF InsertNote
<1>3. CASE UNCHANGED note /\ Answer(h, "error")
  BY <1>2, <1>3, AnswerStep DEF tables, Replies
<1>4. CASE \E n \in NoteIds :
             /\ request[c.on] = "live" /\ note[n].phase = "unborn"
             /\ note' = [note EXCEPT ![n] = MakeNote("there", c.on, c.user)]
             /\ Goto(h, MakeTask("reread", c, n, {}, "none"))
  <2>1. PICK n \in NoteIds :
          /\ request[c.on] = "live" /\ note[n].phase = "unborn"
          /\ note' = [note EXCEPT ![n] = MakeNote("there", c.on, c.user)]
          /\ Goto(h, MakeTask("reread", c, n, {}, "none"))
    BY <1>4
  <2>2. c.on \in Requests /\ c.user \in Users
    BY <1>1 DEF CallType
  <2>3. MakeNote("there", c.on, c.user) \in Note
    BY <2>2 DEF Note, MakeNote
  <2>4. /\ note' \in [NoteIds -> Note]
        /\ note'[n] = MakeNote("there", c.on, c.user)
        /\ \A k \in NoteIds \ {n} : note'[k] = note[k]
    BY <2>1, <2>3 DEF NotesOK, TypeOK
  <2> DEFINE t == MakeTask("reread", c, n, {}, "none")
  <2>5. t \in Task
    BY <1>1, MadeTasks
  <2>6. task' \in [Handlers -> Task] /\ task'[h] = t
        /\ \A g \in Handlers \ {h} : task'[g] = task[g]
    BY <2>1, <2>5 DEF NotesOK, TypeOK, Goto
  <2>7. TypeOK'
    BY <1>2, <2>4, <2>6 DEF NotesOK, TypeOK
  <2>8. NotesRefer'
    BY <1>2, <2>1, <2>2, <2>4 DEF NotesOK, NotesRefer, There, MakeNote
  <2>9. CallFits(task[h])'
    BY <1>1, <2>4, <2>6 DEF CallFits, MakeTask, MakeNote
  <2>10. ASSUME NEW g \in Handlers \ {h} PROVE CallFits(task[g])'
    <3>1. CallFits(task[g]) /\ task'[g] = task[g]
      BY <2>6 DEF NotesOK
    <3>2. task[g].pc = "reread" => task[g].posted # n
      BY <2>1, <3>1 DEF CallFits
    <3> QED
      BY <2>4, <3>1, <3>2 DEF CallFits
  <2> QED
    BY <2>6, <2>7, <2>8, <2>9, <2>10 DEF NotesOK
<1> QED
  BY <1>3, <1>4 DEF InsertNote

(* Notes N go, request ids change to R, and handler h answers r: what is   *)
(* there still refers when the requests of what is left are still live.    *)
LEMMA DeleteStep ==
  ASSUME NotesOK, NEW h \in Handlers, NEW r \in Replies, Answer(h, r),
         UNCHANGED <<blocked, form>>,
         NEW N \in SUBSET NoteIds, \A n \in N : There(n), note' = Without(N),
         request' \in [Requests -> {"live", "gone"}],
         \A n \in NoteIds \ N : There(n) => request'[note[n].on] = "live"
  PROVE  NotesOK'
<1>1. TypeOK /\ NotesRefer
  BY DEF NotesOK
<1>2. /\ note' \in [NoteIds -> Note]
      /\ \A n \in NoteIds : note'[n].on = note[n].on /\ note'[n].by = note[n].by
      /\ \A n \in NoteIds : There(n)' <=> There(n) /\ n \notin N
      /\ \A n \in NoteIds : note'[n].phase = "unborn" <=> note[n].phase = "unborn"
  BY <1>1, WithoutFacts
<1>3. task' \in [Handlers -> Task] /\ task'[h] = Idle(r)
      /\ \A g \in Handlers \ {h} : task'[g] = task[g]
  BY <1>1, MadeTasks DEF TypeOK, Answer, Goto
<1>4. TypeOK'
  BY <1>1, <1>2, <1>3 DEF TypeOK
<1>5. NotesRefer'
  BY <1>1, <1>2 DEF NotesRefer
<1>6. CallFits(task[h])'
  BY <1>3 DEF CallFits, Idle, MakeTask
<1>7. ASSUME NEW g \in Handlers \ {h} PROVE CallFits(task[g])'
  BY <1>2, <1>3, <1>7 DEF NotesOK, CallFits
<1> QED
  BY <1>3, <1>4, <1>5, <1>6, <1>7 DEF NotesOK

LEMMA DeletionSteps ==
  ASSUME NotesOK, NEW h \in Handlers, DeleteNote(h) \/ DeleteRequest(h)
  PROVE  NotesOK'
<1> DEFINE c == task[h].call
<1>1. TypeOK /\ NotesRefer
  BY DEF NotesOK
<1>2. c \in Calls /\ c \in CallType
  BY NotesAssumption DEF NotesOK, CallFits, DeleteNote, DeleteRequest, At
<1>3. c.on \in Requests
  BY <1>2 DEF CallType
<1>4. CASE DeleteNote(h)
  <2>1. PICK r \in Replies : Answer(h, r)
    BY <1>4 DEF DeleteNote, Replies
  <2>2. UNCHANGED <<request, blocked, form>> /\ note' = Without({c.note} \cap NotesOn(c.on))
    BY <1>4 DEF DeleteNote
  <2>3. \A n \in {c.note} \cap NotesOn(c.on) : n \in NoteIds /\ There(n)
    BY DEF NotesOn
  <2>4. \A n \in NoteIds : There(n) => request'[note[n].on] = "live"
    BY <1>1, <2>2 DEF NotesRefer
  <2>5. request' \in [Requests -> {"live", "gone"}]
    BY <1>1, <2>2 DEF TypeOK
  <2> HIDE DEF c
  <2>6. {c.note} \cap NotesOn(c.on) \in SUBSET NoteIds
    BY <2>3
  <2> QED
    BY <2>1, <2>2, <2>3, <2>4, <2>5, <2>6, DeleteStep
<1>5. CASE DeleteRequest(h)
  <2>1. PICK r \in Replies : Answer(h, r)
    BY <1>5 DEF DeleteRequest, Replies
  <2>2. /\ UNCHANGED <<blocked, form>> /\ note' = Without(NotesOn(c.on))
        /\ request' = [request EXCEPT ![c.on] = "gone"]
    BY <1>5 DEF DeleteRequest
  <2>3. NotesOn(c.on) \in SUBSET NoteIds /\ \A n \in NotesOn(c.on) : There(n)
    BY DEF NotesOn
  <2>4. \A n \in NoteIds \ NotesOn(c.on) : There(n) => request'[note[n].on] = "live"
    BY <1>1, <1>3, <2>2 DEF NotesRefer, NotesOn, TypeOK
  <2>5. request' \in [Requests -> {"live", "gone"}]
    BY <1>1, <2>2 DEF TypeOK
  <2> QED
    BY <2>1, <2>2, <2>3, <2>4, <2>5, DeleteStep
<1> QED
  BY <1>4, <1>5

-----------------------------------------------------------------------------
(* The other steps                                                         *)

LEMMA HandlerStep ==
  ASSUME NotesOK, NEW h \in Handlers, Step(h)
  PROVE  NotesOK'
<1>1. CASE InsertNote(h)
  BY <1>1, InsertStep
<1>2. CASE DeleteNote(h) \/ DeleteRequest(h)
  BY <1>2, DeletionSteps
<1>3. CASE CheckRequest(h)
  <2>1. task[h].call \in Calls /\ task[h].call.op \in AddOps /\ task[h].call.body = "text"
    BY <1>3 DEF NotesOK, CallFits, CheckRequest, At
  <2>2. CallFits(MakeTask("insert", task[h].call, None, {}, "none"))
    BY <2>1, BegunFits
  <2> QED
    BY <1>3, <2>1, <2>2, MadeTasks, AnswerStep, QuietStep DEF CheckRequest, Begin, Replies
<1>4. CASE LoadRequest(h)
  <2>1. task[h].call \in Calls
    BY <1>4 DEF NotesOK, CallFits, LoadRequest, At
  <2>2. CallFits(MakeTask("list", task[h].call, None, {}, "none"))
    BY <2>1, BegunFits
  <2> QED
    BY <1>4, <2>1, <2>2, MadeTasks, AnswerStep, QuietStep DEF LoadRequest, Begin, Replies
<1>5. CASE ListNotes(h)
  <2>1. NotesOn(task[h].call.on) \in SUBSET NoteIds
    BY DEF NotesOn
  <2> QED
    BY <1>5, <2>1, MadeTasks, IdleFits, QuietStep DEF ListNotes
<1>6. CASE RereadNote(h)
  <2>1. \E r \in {"ok", "created", "null"} : Answer(h, r)
    BY <1>6 DEF RereadNote
  <2> QED
    BY <1>6, <2>1, AnswerStep DEF RereadNote, Replies
<1>7. CASE Fail(h)
  BY <1>7, AnswerStep DEF Fail, Replies
<1> QED
  BY <1>1, <1>2, <1>3, <1>4, <1>5, <1>6, <1>7 DEF Step

(* Admins change the flag and their forms, and nothing the notes refer to. *)
LEMMA AdminStep ==
  ASSUME NotesOK, Administer
  PROVE  NotesOK' /\ UNCHANGED <<request, note, task>>
<1>1. UNCHANGED <<request, note, task>>
  BY DEF Administer, PatchUser, OpenForm, SubmitForm
<1>2. blocked' \in [Users -> BOOLEAN] /\ form' \in [Forms -> SUBSET Form]
  <2>1. CASE \E u \in Users, b \in {"yes", "no", "absent"} : PatchUser(u, b)
    <3>1. PICK u \in Users, b \in {"yes", "no", "absent"} : PatchUser(u, b)
      BY <2>1
    <3>2. \A v \in BOOLEAN : [blocked EXCEPT ![u] = v] \in [Users -> BOOLEAN]
      BY DEF NotesOK, TypeOK
    <3>3. (IF b = "absent" THEN blocked[u] ELSE b = "yes") \in BOOLEAN
      BY DEF NotesOK, TypeOK
    <3>4. blocked' = [blocked EXCEPT ![u] = IF b = "absent" THEN blocked[u] ELSE b = "yes"]
          /\ form' = form
      BY <3>1, Zenon DEF PatchUser
    <3>5. blocked' \in [Users -> BOOLEAN]
      BY <3>2, <3>3, <3>4, Zenon
    <3> QED
      BY <3>4, <3>5 DEF NotesOK, TypeOK
  <2>2. CASE \E f \in Forms, u \in Users : OpenForm(f, u)
    <3>1. PICK f \in Forms, u \in Users : OpenForm(f, u)
      BY <2>2
    <3>2. MakeForm(u, blocked[u]) \in Form
      <4>1. blocked[u] \in BOOLEAN
        BY DEF NotesOK, TypeOK
      <4> QED
        BY <4>1, Zenon DEF Form, MakeForm
    <3>3. {MakeForm(u, blocked[u])} \in SUBSET Form
      BY <3>2
    <3>4. form' \in [Forms -> SUBSET Form]
      BY <3>1, <3>3, Zenon DEF OpenForm, NotesOK, TypeOK
    <3> QED
      BY <3>1, <3>4 DEF OpenForm, NotesOK, TypeOK
  <2>3. CASE \E f \in Forms, changed \in BOOLEAN : SubmitForm(f, changed)
    <3>1. PICK f \in Forms, changed \in BOOLEAN : SubmitForm(f, changed)
      BY <2>3
    <3>2. PICK m \in form[f] : blocked' = [blocked EXCEPT ![m.user] = m.ticked # changed]
      BY <3>1 DEF SubmitForm
    <3>3. blocked' \in [Users -> BOOLEAN]
      <4>1. (m.ticked # changed) \in BOOLEAN
        OBVIOUS
      <4> QED
        BY <3>2, <4>1, Zenon DEF NotesOK, TypeOK
    <3>4. form' \in [Forms -> SUBSET Form]
      BY <3>1 DEF SubmitForm, NotesOK, TypeOK
    <3> QED
      BY <3>3, <3>4
  <2> QED
    BY <2>1, <2>2, <2>3 DEF Administer
<1>3. TypeOK' /\ NotesRefer'
  BY <1>1, <1>2 DEF NotesOK, TypeOK, NotesRefer, There
<1>4. \A g \in Handlers : CallFits(task[g])'
  BY <1>1 DEF NotesOK, CallFits
<1> QED
  BY <1>1, <1>3, <1>4 DEF NotesOK

LEMMA InitNotesOK == Init => NotesOK
<1> SUFFICES ASSUME Init PROVE NotesOK
  OBVIOUS
<1>1. Unborn \in Note /\ Unborn.phase = "unborn"
  BY DEF Unborn, MakeNote, Note
<1>2. Idle("none") \in Task /\ CallFits(Idle("none"))
  BY MadeTasks, IdleFits DEF Replies
<1>3. TypeOK
  <2>1. blocked \in [Users -> BOOLEAN]
    BY Zenon DEF Init
  <2>2. request \in [Requests -> {"live", "gone"}] /\ form \in [Forms -> SUBSET Form]
    BY DEF Init
  <2>3. note \in [NoteIds -> Note] /\ task \in [Handlers -> Task]
    BY <1>1, <1>2 DEF Init
  <2> QED
    BY <2>1, <2>2, <2>3 DEF TypeOK
<1>4. NotesRefer
  BY <1>1 DEF Init, NotesRefer, There
<1>5. \A h \in Handlers : task[h] = Idle("none")
  BY DEF Init
<1> QED
  BY <1>2, <1>3, <1>4, <1>5 DEF NotesOK

LEMMA NextNotesOK == NotesOK /\ [Next]_vars => NotesOK'
<1> SUFFICES ASSUME NotesOK, [Next]_vars PROVE NotesOK'
  OBVIOUS
<1>1. CASE UNCHANGED vars
  BY <1>1 DEF vars, NotesOK, TypeOK, NotesRefer, There, CallFits
<1>2. CASE Next
  BY <1>2, AdminStep, HandlerStep, SubmitStep DEF Next
<1> QED
  BY <1>1, <1>2

(* The references between notes, requests and the calls in progress hold   *)
(* in every reachable state.                                               *)
THEOREM NotesInvariant == Spec => []NotesOK
  BY InitNotesOK, NextNotesOK, PTL DEF Spec

-----------------------------------------------------------------------------
(* With the history: its steps are steps of the system                     *)

LEMMA HistoryStep == HistoryNext => Next
<1> SUFFICES ASSUME HistoryNext PROVE Next
  OBVIOUS
<1>1. CASE \E u \in Users, b \in BOOLEAN : PatchUser(u, IF b THEN "yes" ELSE "no")
  <2>1. PICK u \in Users, b \in BOOLEAN : PatchUser(u, IF b THEN "yes" ELSE "no")
    BY <1>1
  <2>2. \E v \in {"yes", "no", "absent"} : PatchUser(u, v)
    BY <2>1
  <2> QED
    BY <2>2 DEF Next, Administer
<1>2. CASE \E u \in Users : PatchUser(u, "absent")
  BY <1>2 DEF Next, Administer
<1>3. CASE \E f \in Forms, u \in Users : OpenForm(f, u)
  BY <1>3 DEF Next, Administer
<1>4. CASE \E f \in Forms : SubmitForm(f, FALSE) \/ SubmitForm(f, TRUE)
  BY <1>4 DEF Next, Administer
<1>5. CASE \E h \in Handlers : Step(h) \/ \E c \in Calls : Submit(h, c)
  BY <1>5 DEF Next
<1> QED
  BY <1>1, <1>2, <1>3, <1>4, <1>5, Zenon DEF HistoryNext

(* With the history the notes do nothing that they would not do without.   *)
THEOREM HistoryIsFaithful == HistorySpec => Spec
<1>1. HistoryInit => Init
  BY DEF HistoryInit
<1>2. [HistoryNext]_<<vars, history>> => [Next]_vars
  BY HistoryStep
<1> QED
  BY <1>1, <1>2, PTL DEF HistorySpec, Spec

(* A call that is past the flag afterwards was so before, or has just been *)
(* let past it.                                                            *)
LEMMA PostersPassTheFlag ==
  ASSUME TypeOK, [Next]_vars, NEW u \in Users, NEW h \in Handlers,
         h \in PostingFor(u)', h \notin PostingFor(u)
  PROVE  ~blocked[u] /\ blocked' = blocked
<1>1. task'[h].pc \in {"exists", "insert"} /\ task'[h].call.user = u
  BY DEF PostingFor, Posting
<1>2. task'[h] # task[h]
  BY <1>1 DEF PostingFor, Posting
<1>3. PICK g \in Handlers : Step(g) \/ \E c \in Calls : Submit(g, c)
  BY <1>2 DEF Next, Administer, PatchUser, OpenForm, SubmitForm, vars
<1>4. PICK t : task' = [task EXCEPT ![g] = t]
  BY <1>3 DEF Step, CheckRequest, InsertNote, RereadNote, DeleteNote, DeleteRequest,
              LoadRequest, ListNotes, Fail, Submit, SubmitAdd, SubmitDelete, SubmitRead,
              Answer, Begin, Goto
<1>5. g = h
  BY <1>2, <1>4 DEF TypeOK
<1>6. CASE Step(h)
  <2>1. \A r : ~Answer(h, r)
    BY <1>1 DEF TypeOK, Answer, Goto, Idle, MakeTask
  <2>2. CASE CheckRequest(h)
    <3>1. At(h, "exists") /\ Begin(h, task[h].call, "insert")
      BY <2>1, <2>2 DEF CheckRequest
    <3>2. task'[h].call = task[h].call
      BY <3>1 DEF TypeOK, Begin, Goto, MakeTask
    <3> QED
      BY <1>1, <3>1, <3>2 DEF PostingFor, Posting, At
  <2>3. CASE InsertNote(h)
    BY <1>1, <2>1, <2>3 DEF TypeOK, InsertNote, Goto, MakeTask
  <2>4. CASE LoadRequest(h)
    BY <1>1, <2>1, <2>4 DEF TypeOK, LoadRequest, Begin, Goto, MakeTask
  <2>5. CASE ListNotes(h)
    BY <1>1, <2>5 DEF TypeOK, ListNotes, Goto, MakeTask
  <2> QED
    BY <1>6, <2>1, <2>2, <2>3, <2>4, <2>5
       DEF Step, RereadNote, DeleteNote, DeleteRequest, Fail
<1>7. CASE \E c \in Calls : Submit(h, c)
  <2>1. PICK c \in Calls : Submit(h, c)
    BY <1>7
  <2>2. \A r : ~Answer(h, r)
    BY <1>1 DEF TypeOK, Answer, Goto, Idle, MakeTask
  <2>3. CASE SubmitAdd(h, c)
    <3>1. ~blocked[c.user] /\ Begin(h, c, "exists") /\ UNCHANGED tables
      BY <2>2, <2>3 DEF SubmitAdd
    <3>2. c.user = u
      BY <1>1, <3>1 DEF TypeOK, Begin, Goto, MakeTask
    <3> QED
      BY <3>1, <3>2 DEF tables
  <2>4. CASE SubmitDelete(h, c)
    BY <1>1, <2>2, <2>4 DEF TypeOK, SubmitDelete, Begin, Goto, MakeTask
  <2>5. CASE SubmitRead(h, c)
    BY <1>1, <2>5 DEF TypeOK, SubmitRead, Begin, Goto, MakeTask
  <2> QED
    BY <2>1, <2>3, <2>4, <2>5 DEF Submit
<1> QED
  BY <1>3, <1>5, <1>6, <1>7

(* A step that sets a flag lets nobody past it, and every other step keeps *)
(* those that were overtaken as long as they are past it.                  *)
LEMMA NextBlockHolds ==
  ASSUME TypeOK, BlockHolds, [HistoryNext]_<<vars, history>>
  PROVE  BlockHolds'
<1> SUFFICES ASSUME NEW u \in Users, blocked'[u], NEW h \in Handlers, h \in PostingFor(u)'
             PROVE  h \in overtaken'[u]
  BY DEF BlockHolds, PostingFor
<1>1. [Next]_vars
  BY HistoryStep
<1>2. CASE UNCHANGED <<vars, history>>
  BY <1>2 DEF BlockHolds, PostingFor, Posting, vars, history
<1>3. CASE HistoryNext
  <2>1. overtaken' = [v \in Users |->
           IF blocked'[v] /\ ~blocked[v] THEN PostingFor(v)
           ELSE overtaken[v] \cap PostingFor(v)']
    BY <1>3 DEF HistoryNext, Remember
  <2>2. h \in PostingFor(u)
    <3> SUFFICES ASSUME h \notin PostingFor(u) PROVE FALSE
      OBVIOUS
    <3>1. ~blocked[u] /\ blocked' = blocked
      BY <1>1, PostersPassTheFlag
    <3> QED
      BY <3>1
  <2>3. CASE blocked[u]
    <3>1. h \in overtaken[u]
      BY <2>2, <2>3 DEF BlockHolds
    <3> QED
      BY <2>1, <2>3, <3>1
  <2>4. CASE ~blocked[u]
    BY <2>1, <2>2, <2>4
  <2> QED
    BY <2>3, <2>4
<1> QED
  BY <1>2, <1>3

(* Once a user is blocked, only the calls that were past the flag by then  *)
(* still post for that user, for any number of them.                       *)
THEOREM BlockHoldsTheorem == HistorySpec => []BlockHolds
<1>1. HistoryInit => BlockHolds
  BY Zenon DEF HistoryInit, Init, BlockHolds
<1>2. TypeOK /\ BlockHolds /\ [HistoryNext]_<<vars, history>> => BlockHolds'
  BY NextBlockHolds
<1>3. NotesOK => TypeOK
  BY DEF NotesOK
<1> QED
  BY <1>1, <1>2, <1>3, HistoryIsFaithful, NotesInvariant, PTL DEF HistorySpec

-----------------------------------------------------------------------------
(* The implementation of the log                                           *)

OpenRequests == {i \in Requests : request[i] = "live"}
EntryOf(n) == IF note[n].phase = "unborn" THEN None ELSE <<note[n].on, note[n].by>>
EntriesNow == [n \in NoteIds |-> EntryOf(n)]
StruckNotes == {n \in NoteIds : note[n].phase = "gone"}

(* A note that was inserted is an entry.                                   *)
LEMMA EntriesAreSome ==
  ASSUME NotesOK, NEW n \in NoteIds, note[n].phase # "unborn"
  PROVE  EntriesNow[n] = <<note[n].on, note[n].by>> /\ EntriesNow[n][1] = note[n].on
  BY DEF EntriesNow, EntryOf

(* Whatever leaves request and note alone leaves the log alone.            *)
LEMMA QuietLog ==
  UNCHANGED <<request, note>> => UNCHANGED <<OpenRequests, EntriesNow, StruckNotes>>
  BY DEF OpenRequests, EntriesNow, EntryOf, StruckNotes

LEMMA InsertPosts ==
  ASSUME NotesOK, NEW h \in Handlers, InsertNote(h), note' # note
  PROVE  \E n \in NoteIds, i \in Requests, u \in Users :
           /\ EntriesNow[n] = None /\ i \in OpenRequests
           /\ EntriesNow' = [EntriesNow EXCEPT ![n] = <<i, u>>]
           /\ UNCHANGED <<OpenRequests, StruckNotes>>
<1> DEFINE c == task[h].call
<1>1. PICK n \in NoteIds :
        /\ request[c.on] = "live" /\ note[n].phase = "unborn"
        /\ note' = [note EXCEPT ![n] = MakeNote("there", c.on, c.user)]
  BY DEF InsertNote
<1>2. c.on \in Requests /\ c.user \in Users
  BY NotesAssumption DEF NotesOK, CallFits, InsertNote, At, CallType
<1>3. request' = request
  BY DEF InsertNote
<1>4. /\ note'[n] = MakeNote("there", c.on, c.user)
      /\ \A k \in NoteIds \ {n} : note'[k] = note[k]
  BY <1>1 DEF NotesOK, TypeOK
<1>5. UNCHANGED <<OpenRequests, StruckNotes>>
  BY <1>1, <1>3, <1>4 DEF OpenRequests, StruckNotes, MakeNote
<1>6. EntriesNow[n] = None /\ c.on \in OpenRequests
  BY <1>1, <1>2 DEF EntriesNow, EntryOf, OpenRequests
<1>7. EntriesNow' = [EntriesNow EXCEPT ![n] = <<c.on, c.user>>]
  <2>1. \A k \in NoteIds : EntryOf(k)' = IF k = n THEN <<c.on, c.user>> ELSE EntryOf(k)
    BY <1>4 DEF EntryOf, MakeNote
  <2> QED
    BY <2>1 DEF EntriesNow
<1> QED
  BY <1>2, <1>5, <1>6, <1>7

(* Notes that are deleted stay entries and are struck.                     *)
LEMMA DeletionStrikes ==
  ASSUME NotesOK, NEW N \in SUBSET NoteIds, \A n \in N : There(n), note' = Without(N)
  PROVE  EntriesNow' = EntriesNow /\ StruckNotes' = StruckNotes \cup N
<1>1. /\ \A n \in NoteIds : note'[n].on = note[n].on /\ note'[n].by = note[n].by
      /\ \A n \in NoteIds : note'[n].phase = "unborn" <=> note[n].phase = "unborn"
      /\ \A n \in NoteIds \ N : note'[n] = note[n]
      /\ \A n \in N : note'[n] = Gone(n)
  BY WithoutFacts DEF NotesOK
<1>2. EntriesNow' = EntriesNow
  BY <1>1 DEF EntriesNow, EntryOf
<1>3. \A n \in NoteIds : note'[n].phase = "gone" <=> note[n].phase = "gone" \/ n \in N
  <2>1. \A n \in N : Gone(n).phase = "gone"
    BY DEF Gone, MakeNote
  <2> QED
    BY <1>1, <2>1
<1>4. StruckNotes' = StruckNotes \cup N
  BY <1>3 DEF StruckNotes
<1> QED
  BY <1>2, <1>4

LEMMA DeleteNoteStrikes ==
  ASSUME NotesOK, NEW h \in Handlers, DeleteNote(h)
  PROVE  \/ UNCHANGED <<OpenRequests, EntriesNow, StruckNotes>>
         \/ \E n \in NoteIds :
              /\ EntriesNow[n] # None /\ EntriesNow[n][1] \in OpenRequests
              /\ StruckNotes' = StruckNotes \cup {n}
              /\ UNCHANGED <<OpenRequests, EntriesNow>>
<1> DEFINE c == task[h].call
           N == {c.note} \cap NotesOn(c.on)
<1>1. request' = request /\ note' = Without(N)
  BY DEF DeleteNote
<1>2. N \in SUBSET NoteIds /\ \A n \in N : There(n)
  BY DEF NotesOn
<1>3. EntriesNow' = EntriesNow /\ StruckNotes' = StruckNotes \cup N
  BY <1>1, <1>2, DeletionStrikes
<1>4. OpenRequests' = OpenRequests
  BY <1>1 DEF OpenRequests
<1>5. CASE N = {}
  BY <1>3, <1>4, <1>5
<1>6. CASE N # {}
  <2>1. PICK n \in NoteIds : N = {n} /\ There(n)
    BY <1>2, <1>6
  <2>2. note[n].phase # "unborn" /\ note[n].on \in OpenRequests
    BY <2>1 DEF NotesOK, NotesRefer, There, OpenRequests
  <2>3. EntriesNow[n] # None /\ EntriesNow[n][1] \in OpenRequests
    <3>1. EntriesNow[n] = <<note[n].on, note[n].by>> /\ EntriesNow[n][1] = note[n].on
      BY <2>2, EntriesAreSome
    <3>2. <<note[n].on, note[n].by>> # None
      BY <2>2, NotesAssumption DEF NotesOK, NotesRefer
    <3> QED
      BY <2>2, <3>1, <3>2
  <2> QED
    BY <1>3, <1>4, <2>1, <2>3
<1> QED
  BY <1>5, <1>6

LEMMA DeleteRequestCloses ==
  ASSUME NotesOK, NEW h \in Handlers, DeleteRequest(h)
  PROVE  \/ UNCHANGED <<OpenRequests, EntriesNow, StruckNotes>>
         \/ \E i \in Requests :
              /\ i \in OpenRequests /\ OpenRequests' = OpenRequests \ {i}
              /\ StruckNotes' = StruckNotes \cup
                   {n \in NoteIds : EntriesNow[n] # None /\ EntriesNow[n][1] = i}
              /\ UNCHANGED EntriesNow
<1>1. PICK i \in Requests : /\ request' = [request EXCEPT ![i] = "gone"]
                            /\ note' = Without(NotesOn(i))
  BY NotesAssumption DEF DeleteRequest, NotesOK, CallFits, At, CallType
<1>2. NotesOn(i) \in SUBSET NoteIds /\ \A n \in NotesOn(i) : There(n)
  BY DEF NotesOn
<1>3. EntriesNow' = EntriesNow /\ StruckNotes' = StruckNotes \cup NotesOn(i)
  BY <1>1, <1>2, DeletionStrikes
<1>4. OpenRequests' = OpenRequests \ {i}
  BY <1>1 DEF OpenRequests, NotesOK, TypeOK
<1>5. CASE i \notin OpenRequests
  <2>1. NotesOn(i) = {}
    BY <1>5 DEF NotesOn, OpenRequests, NotesOK, NotesRefer
  <2> QED
    BY <1>3, <1>4, <1>5, <2>1
<1>6. CASE i \in OpenRequests
  <2>1. \A n \in NoteIds :
          (EntriesNow[n] # None /\ EntriesNow[n][1] = i)
            <=> (note[n].phase # "unborn" /\ note[n].on = i)
    <3> SUFFICES ASSUME NEW n \in NoteIds
                 PROVE (EntriesNow[n] # None /\ EntriesNow[n][1] = i)
                          <=> (note[n].phase # "unborn" /\ note[n].on = i)
      OBVIOUS
    <3>1. CASE note[n].phase = "unborn"
      BY <3>1 DEF EntriesNow, EntryOf
    <3>2. CASE note[n].phase # "unborn"
      <4>1. EntriesNow[n] = <<note[n].on, note[n].by>> /\ EntriesNow[n][1] = note[n].on
        BY <3>2, EntriesAreSome
      <4>2. <<note[n].on, note[n].by>> # None
        BY <3>2, NotesAssumption DEF NotesOK, NotesRefer
      <4> QED
        BY <3>2, <4>1, <4>2
    <3> QED
      BY <3>1, <3>2
  <2>2. StruckNotes \cup NotesOn(i) = StruckNotes \cup
          {n \in NoteIds : EntriesNow[n] # None /\ EntriesNow[n][1] = i}
    BY <2>1 DEF StruckNotes, NotesOn, There, NotesOK, TypeOK, Note
  <2> QED
    BY <1>3, <1>4, <1>6, <2>2
<1> QED
  BY <1>5, <1>6

(* Every step of the handlers and admins is a step of the log or none.     *)
LEMMA StepImplements ==
  ASSUME NotesOK, [Next]_vars
  PROVE  [Log!LNext]_<<OpenRequests, EntriesNow, StruckNotes>>
<1>1. CASE UNCHANGED <<request, note>>
  BY <1>1, QuietLog
<1>2. CASE \E h \in Handlers : InsertNote(h) /\ note' # note
  BY <1>2, InsertPosts
     DEF Log!LNext, Log!Post, OpenRequests, EntriesNow, EntryOf, StruckNotes
<1>3. CASE \E h \in Handlers : DeleteNote(h)
  BY <1>3, DeleteNoteStrikes
     DEF Log!LNext, Log!Strike, OpenRequests, EntriesNow, EntryOf, StruckNotes
<1>4. CASE \E h \in Handlers : DeleteRequest(h)
  BY <1>4, DeleteRequestCloses
     DEF Log!LNext, Log!Close, OpenRequests, EntriesNow, EntryOf, StruckNotes
<1>5. QED
  <2>1. CASE UNCHANGED vars
    BY <1>1, <2>1 DEF vars
  <2>2. CASE Administer
    BY <1>1, <2>2, AdminStep
  <2>3. CASE \E h \in Handlers, c \in Calls : Submit(h, c)
    BY <1>1, <2>3 DEF Submit, SubmitAdd, SubmitDelete, SubmitRead, tables
  <2>4. CASE \E h \in Handlers : Step(h)
    <3>1. PICK h \in Handlers : Step(h)
      BY <2>4
    <3>2. CASE InsertNote(h)
      BY <1>1, <1>2, <3>2 DEF InsertNote
    <3>3. CASE DeleteNote(h) \/ DeleteRequest(h)
      BY <1>3, <1>4, <3>3
    <3>4. CASE CheckRequest(h) \/ RereadNote(h) \/ LoadRequest(h) \/ ListNotes(h) \/ Fail(h)
      BY <1>1, <3>4
         DEF CheckRequest, RereadNote, LoadRequest, ListNotes, Fail, tables
    <3> QED
      BY <3>1, <3>2, <3>3, <3>4 DEF Step
  <2> QED
    BY <2>1, <2>2, <2>3, <2>4 DEF Next

LEMMA InitImplements == Init => Log!LInit
  BY DEF Init, Log!LInit, Unborn, MakeNote

(* The handlers together are an implementation of the log: what readers    *)
(* see changes by one act at a time, and no note moves or comes back.      *)
THEOREM LogTheorem == Spec => ImplementsLog
<1>1. NotesOK /\ [Next]_vars => [Log!LNext]_<<OpenRequests, EntriesNow, StruckNotes>>
  BY StepImplements
<1>2. NotesOK /\ [Next]_vars => [Log!LNext]_(Log!lvars)
  BY <1>1 DEF Log!lvars, OpenRequests, EntriesNow, EntryOf, StruckNotes
<1> QED
  BY <1>2, InitImplements, NotesInvariant, PTL DEF Spec, ImplementsLog, Log!LSpec

-----------------------------------------------------------------------------
(* What steps do to notes and what calls are told                          *)

(* Only the two deletions make a note go, and each only its own.           *)
THEOREM StruckByNameTheorem == Spec => StruckByName
<1>1. ASSUME NotesOK, [Next]_vars, NEW n \in NoteIds, There(n), ~There(n)'
      PROVE  \E h \in Handlers :
               /\ task'[h] # task[h] /\ task[h].call.user \in Mods
               /\ task[h].call.on = note[n].on
               /\ \/ At(h, "deleteRequest") /\ request'[note[n].on] = "gone"
                  \/ At(h, "delete") /\ task[h].call.note = n
  <2>1. note' # note
    BY <1>1 DEF There
  <2>2. PICK h \in Handlers : Step(h)
    BY <1>1, <2>1, AdminStep DEF Next, Submit, SubmitAdd, SubmitDelete, SubmitRead, tables, vars
  <2>3. note'[n] # note[n] /\ note[n].phase = "there"
    BY <1>1 DEF There
  <2>4. CASE InsertNote(h)
    <3>1. PICK k \in NoteIds : /\ note[k].phase = "unborn"
                               /\ \E m : note' = [note EXCEPT ![k] = m]
      BY <2>1, <2>4 DEF InsertNote
    <3>2. note'[n] = note[n]
      BY <1>1, <2>3, <3>1 DEF NotesOK, TypeOK
    <3> QED
      BY <2>3, <3>2
  <2>5. CASE DeleteNote(h)
    <3>1. note' = Without({task[h].call.note} \cap NotesOn(task[h].call.on))
      BY <2>5 DEF DeleteNote
    <3>2. n \in {task[h].call.note} \cap NotesOn(task[h].call.on)
      BY <2>3, <3>1 DEF Without
    <3>3. task[h].call.user \in Mods /\ At(h, "delete")
      BY <1>1, <2>5 DEF NotesOK, CallFits, DeleteNote, At
    <3>4. task'[h].pc = "idle"
      BY <1>1, <2>5 DEF DeleteNote, Answer, Goto, Idle, MakeTask, NotesOK, TypeOK
    <3> QED
      BY <3>2, <3>3, <3>4 DEF NotesOn, At
  <2>6. CASE DeleteRequest(h)
    <3>1. /\ note' = Without(NotesOn(task[h].call.on))
          /\ request' = [request EXCEPT ![task[h].call.on] = "gone"]
      BY <2>6 DEF DeleteRequest
    <3>2. n \in NotesOn(task[h].call.on)
      BY <2>3, <3>1 DEF Without
    <3>3. task[h].call.user \in Mods /\ At(h, "deleteRequest")
      BY <1>1, <2>6 DEF NotesOK, CallFits, DeleteRequest, At
    <3>4. task'[h].pc = "idle"
      BY <1>1, <2>6 DEF DeleteRequest, Answer, Goto, Idle, MakeTask, NotesOK, TypeOK
    <3>5. note[n].on = task[h].call.on /\ note[n].on \in Requests
      BY <1>1, <2>3, <3>2 DEF NotesOn, NotesOK, NotesRefer
    <3>6. request'[note[n].on] = "gone"
      BY <1>1, <3>1, <3>5 DEF NotesOK, TypeOK
    <3> QED
      BY <3>3, <3>4, <3>5, <3>6 DEF At
  <2> QED
    BY <2>1, <2>2, <2>4, <2>5, <2>6
       DEF Step, CheckRequest, RereadNote, LoadRequest, ListNotes, Fail, tables
<1>2. NotesOK /\ [Next]_vars =>
        [\A n \in NoteIds : There(n) /\ ~There(n)' =>
           \E h \in Handlers :
             /\ task'[h] # task[h] /\ task[h].call.user \in Mods
             /\ task[h].call.on = note[n].on
             /\ \/ At(h, "deleteRequest") /\ request'[note[n].on] = "gone"
                \/ At(h, "delete") /\ task[h].call.note = n]_vars
  BY <1>1
<1> QED
  BY <1>2, NotesInvariant, PTL DEF Spec, StruckByName

(* A call ends by a step of its own.                                       *)
LEMMA EndsByItself ==
  ASSUME NotesOK, [Next]_vars, NEW h \in Handlers, ~At(h, "idle"), task'[h].pc = "idle"
  PROVE  Step(h)
<1>1. task'[h] # task[h]
  BY DEF At
<1>2. ~ Administer
  BY <1>1, AdminStep
<1>3. PICK g \in Handlers : Step(g) \/ \E c \in Calls : Submit(g, c)
  BY <1>1, <1>2 DEF Next, vars
<1>4. \E t : task' = [task EXCEPT ![g] = t]
  BY <1>3 DEF Step, CheckRequest, InsertNote, RereadNote, DeleteNote, DeleteRequest,
     LoadRequest, ListNotes, Fail, Submit, SubmitAdd, SubmitDelete, SubmitRead,
     Answer, Begin, Goto
<1>5. g = h
  BY <1>1, <1>4 DEF NotesOK, TypeOK
<1> QED
  BY <1>3, <1>5 DEF Submit, SubmitAdd, SubmitDelete, SubmitRead, At

(* What a handler is left with by its answer.                              *)
LEMMA Answered ==
  ASSUME TypeOK, NEW h \in Handlers, NEW r \in Replies, Answer(h, r)
  PROVE  task'[h].reply = r
  BY MadeTasks DEF TypeOK, Answer, Goto

LEMMA Went ==
  ASSUME TypeOK, NEW h \in Handlers, NEW pc, NEW c, NEW n, NEW N, NEW r,
         Goto(h, MakeTask(pc, c, n, N, r))
  PROVE  task'[h].pc = pc /\ task'[h].reply = r
  BY MadeFields DEF TypeOK, Goto

(* No note goes, so none changes.                                          *)
LEMMA NoneGoes ==
  ASSUME TypeOK, note' = Without({})
  PROVE  UNCHANGED note
  BY DEF TypeOK, Without

LEMMA AnswerIsTrue ==
  ASSUME NotesOK, NEW h \in Handlers, Step(h), ~At(h, "idle"), task'[h].pc = "idle",
         NEW n, n = task[h].posted, NEW i, i = task[h].call.on, NEW r, r = task'[h].reply
  PROVE  /\ r = "created" => There(n) /\ note[n].on = i /\ note[n].by = task[h].call.user
         /\ r = "null" => n # None /\ note[n].phase = "gone"
         /\ r = "error" => At(h, "insert") /\ request[i] = "gone"
         /\ r \in {"invalid", "forbidden", "notFound", "error"} => n = None /\ UNCHANGED note
<1>0. TypeOK /\ NotesRefer /\ CallFits(task[h])
  BY DEF NotesOK
<1>1. CASE CheckRequest(h)
  <2>1. Answer(h, "notFound") /\ UNCHANGED note /\ At(h, "exists")
    BY <1>0, <1>1, Went DEF CheckRequest, Begin, tables
  <2> QED
    BY <1>0, <2>1, Answered DEF Replies, CallFits, At
<1>2. CASE InsertNote(h)
  <2>1. Answer(h, "error") /\ UNCHANGED note /\ request[i] = "gone" /\ At(h, "insert")
    BY <1>0, <1>2, Went DEF InsertNote
  <2> QED
    BY <1>0, <2>1, Answered DEF Replies, CallFits, At
<1>3. CASE RereadNote(h)
  <2>1. /\ n \in NoteIds /\ note[n].phase # "unborn"
        /\ note[n].on = i /\ note[n].by = task[h].call.user
    BY <1>0, <1>3 DEF RereadNote, CallFits, At
  <2>2. CASE task[h].call.op = "addForm"
    <3>1. Answer(h, "ok")
      BY <1>3, <2>2 DEF RereadNote
    <3> QED
      BY <1>0, <3>1, Answered DEF Replies
  <2>3. CASE task[h].call.op # "addForm" /\ There(n)
    <3>1. Answer(h, "created")
      BY <1>3, <2>3 DEF RereadNote
    <3> QED
      BY <1>0, <2>1, <2>3, <3>1, Answered DEF Replies
  <2>4. CASE task[h].call.op # "addForm" /\ ~There(n)
    <3>1. Answer(h, "null")
      BY <1>3, <2>4 DEF RereadNote
    <3>2. note[n].phase = "gone"
      BY <1>0, <2>1, <2>4 DEF TypeOK, Note, There
    <3>3. n # None
      BY <2>1, NotesAssumption
    <3> QED
      BY <1>0, <3>1, <3>2, <3>3, Answered DEF Replies
  <2> QED
    BY <2>2, <2>3, <2>4
<1>4. CASE DeleteNote(h)
  <2>1. n = None
    BY <1>0, <1>4 DEF DeleteNote, CallFits, At
  <2>2. CASE task[h].call.note \in NotesOn(task[h].call.on)
    BY <1>0, <1>4, <2>2, Answered DEF DeleteNote, Replies
  <2>3. CASE task[h].call.note \notin NotesOn(task[h].call.on)
    <3>1. {task[h].call.note} \cap NotesOn(task[h].call.on) = {}
      BY <2>3
    <3>2. UNCHANGED note /\ Answer(h, "notFound")
      BY <1>0, <1>4, <2>3, <3>1, NoneGoes DEF DeleteNote
    <3> QED
      BY <1>0, <2>1, <3>2, Answered DEF Replies
  <2> QED
    BY <2>2, <2>3
<1>5. CASE DeleteRequest(h)
  <2>1. n = None
    BY <1>0, <1>5 DEF DeleteRequest, CallFits, At
  <2>2. CASE request[i] = "live"
    BY <1>0, <1>5, <2>2, Answered DEF DeleteRequest, Replies
  <2>3. CASE request[i] # "live"
    <3>1. NotesOn(i) = {}
      BY <1>0, <2>3 DEF NotesOn, NotesRefer
    <3>2. UNCHANGED note /\ Answer(h, "notFound")
      BY <1>0, <1>5, <2>3, <3>1, NoneGoes DEF DeleteRequest
    <3> QED
      BY <1>0, <2>1, <3>2, Answered DEF Replies
  <2> QED
    BY <2>2, <2>3
<1>6. CASE LoadRequest(h)
  <2>1. Answer(h, "notFound") /\ UNCHANGED note /\ At(h, "load")
    BY <1>0, <1>6, Went DEF LoadRequest, Begin, tables
  <2> QED
    BY <1>0, <2>1, Answered DEF Replies, CallFits, At
<1>7. CASE ListNotes(h)
  BY <1>0, <1>7, Went DEF ListNotes
<1>8. CASE Fail(h)
  BY <1>0, <1>8, Answered DEF Fail, Replies
<1> QED
  BY <1>1, <1>2, <1>3, <1>4, <1>5, <1>6, <1>7, <1>8 DEF Step

(* Created, null, an error and a refusal tell the poster of a note what is *)
(* so: AddNote and GetNote as the handlers use them, however deletions of  *)
(* the note and of its request come in between.                            *)
THEOREM AnswersTheorem == Spec => AnswersTrue
<1>1. NotesOK /\ [Next]_vars =>
        [\A h \in Handlers : ~At(h, "idle") /\ task'[h].pc = "idle" =>
           LET n == task[h].posted
               i == task[h].call.on
               r == task'[h].reply IN
           /\ r = "created" => There(n) /\ note[n].on = i /\ note[n].by = task[h].call.user
           /\ r = "null" => n # None /\ note[n].phase = "gone"
           /\ r = "error" => At(h, "insert") /\ request[i] = "gone"
           /\ r \in {"invalid", "forbidden", "notFound", "error"} =>
                n = None /\ UNCHANGED note]_vars
  BY EndsByItself, AnswerIsTrue DEF NotesOK
<1> QED
  BY <1>1, NotesInvariant, PTL DEF Spec, AnswersTrue

-----------------------------------------------------------------------------
(* Blocks and forms: the form of a tab that is not outdated would write    *)
(* what the admins mean.                                                   *)
FormsFit ==
  /\ meant \in [Users -> BOOLEAN]
  /\ \A f \in Forms : \A m, n \in form[f] : m = n
  /\ \A f \in Forms \ outdated : \A m \in form[f] : m.ticked = meant[m.user]

LEMMA FormFields ==
  ASSUME NEW u, NEW b
  PROVE  MakeForm(u, b).user = u /\ MakeForm(u, b).ticked = b
BY DEF MakeForm

(* What a step without a choice, and one with one, makes of meant.         *)
LEMMA ChoiceNone ==
  ASSUME Remember({}), NEW u \in Users
  PROVE  meant'[u] = meant[u]
<1>1. meant'[u] = IF \E b \in BOOLEAN : MakeForm(u, b) \in {}
                  THEN MakeForm(u, TRUE) \in {} ELSE meant[u]
  BY DEF Remember
<1> QED
  BY <1>1

LEMMA ChoiceOne ==
  ASSUME NEW v \in Users, NEW b \in BOOLEAN, Remember({MakeForm(v, b)}), NEW u \in Users
  PROVE  meant'[u] = IF u = v THEN b ELSE meant[u]
<1> DEFINE C == {MakeForm(v, b)}
<1>1. meant'[u] = IF \E c \in BOOLEAN : MakeForm(u, c) \in C
                  THEN MakeForm(u, TRUE) \in C ELSE meant[u]
  BY DEF Remember
<1>2. CASE u = v
  <2>1. \E c \in BOOLEAN : MakeForm(u, c) \in C
    BY <1>2
  <2>2. meant'[u] = (MakeForm(u, TRUE) \in C)
    BY <1>1, <2>1, Zenon
  <2>3. CASE b = TRUE
    <3>1. MakeForm(u, TRUE) \in C
      BY <1>2, <2>3
    <3>2. (MakeForm(u, TRUE) \in C) = TRUE
      BY <3>1, Zenon
    <3> HIDE DEF C
    <3> QED
      BY <1>2, <2>2, <2>3, <3>2, Zenon
  <2>4. CASE b = FALSE
    <3>1. MakeForm(u, TRUE) # MakeForm(v, FALSE)
      <4>1. SUFFICES ASSUME MakeForm(u, TRUE) = MakeForm(v, FALSE) PROVE FALSE
        OBVIOUS
      <4>2. MakeForm(u, TRUE).ticked = TRUE /\ MakeForm(v, FALSE).ticked = FALSE
        BY FormFields, Zenon
      <4> QED
        BY <4>1, <4>2, Zenon
    <3>2. MakeForm(u, TRUE) \notin C
      BY <2>4, <3>1, Zenon
    <3> HIDE DEF C
    <3>3. (MakeForm(u, TRUE) \in C) \in BOOLEAN
      OBVIOUS
    <3>4. PICK p \in BOOLEAN : p = (MakeForm(u, TRUE) \in C)
      BY <3>3, Zenon
    <3>5. p = FALSE
      BY <3>2, <3>4, Zenon
    <3> QED
      BY <1>2, <2>2, <2>4, <3>4, <3>5, Zenon
  <2> QED
    BY <2>3, <2>4, Zenon
<1>3. CASE u # v
  <2>1. ~\E c \in BOOLEAN : MakeForm(u, c) \in C
    <3>1. SUFFICES ASSUME NEW c \in BOOLEAN, MakeForm(u, c) \in C PROVE FALSE
      BY Zenon
    <3>2. MakeForm(u, c) = MakeForm(v, b)
      BY <3>1, Zenon
    <3>3. MakeForm(u, c).user = u /\ MakeForm(v, b).user = v
      BY FormFields, Zenon
    <3> QED
      BY <1>3, <3>2, <3>3, Zenon
  <2> HIDE DEF C
  <2> QED
    BY <1>1, <1>3, <2>1, Zenon
<1> QED
  BY <1>2, <1>3

(* A step leaves the flag of a user and what is meant by it as they are,   *)
(* or sets both alike, or sends in a form: without a choice.               *)
Kept(u) == blocked'[u] = blocked[u] /\ meant'[u] = meant[u]
Chosen(u) == blocked'[u] = meant'[u]
Resent(u) ==
  /\ meant'[u] = meant[u]
  /\ \E f \in Forms : /\ form'[f] = {}
                      /\ \E m \in form[f] : m.user = u /\ blocked'[u] = m.ticked
(* A form stays, is sent in, or has been filled in with the flag.          *)
Refilled(f) ==
  \E u \in Users : form'[f] = {MakeForm(u, blocked[u])} /\ blocked' = blocked

LEMMA FlagEffects ==
  ASSUME TypeOK, FormsFit, HistoryNext
  PROVE  /\ \A u \in Users : Kept(u) \/ Chosen(u) \/ Resent(u)
         /\ \A f \in Forms : form'[f] = form[f] \/ form'[f] = {} \/ Refilled(f)
<1> DEFINE Goal == /\ \A u \in Users : Kept(u) \/ Chosen(u) \/ Resent(u)
                   /\ \A f \in Forms : form'[f] = form[f] \/ form'[f] = {} \/ Refilled(f)
<1>1. CASE \E v \in Users, b \in BOOLEAN :
             PatchUser(v, IF b THEN "yes" ELSE "no") /\ Remember({MakeForm(v, b)})
  <2>1. PICK v \in Users, b \in BOOLEAN :
          PatchUser(v, IF b THEN "yes" ELSE "no") /\ Remember({MakeForm(v, b)})
    BY <1>1
  <2>2. form' = form /\ blocked' = [blocked EXCEPT ![v] = b]
    <3>1. CASE b = TRUE
      <4>1. PatchUser(v, "yes")
        BY <2>1, <3>1
      <4>2. (IF "yes" = "absent" THEN blocked[v] ELSE "yes" = "yes") = TRUE
        OBVIOUS
      <4>3. form' = form /\ blocked' = [blocked EXCEPT ![v] =
              IF "yes" = "absent" THEN blocked[v] ELSE "yes" = "yes"]
        BY <4>1, Zenon DEF PatchUser
      <4> QED
        BY <3>1, <4>2, <4>3, Zenon
    <3>2. CASE b = FALSE
      <4>1. PatchUser(v, "no")
        BY <2>1, <3>2
      <4>2. (IF "no" = "absent" THEN blocked[v] ELSE "no" = "yes") = FALSE
        OBVIOUS
      <4>3. form' = form /\ blocked' = [blocked EXCEPT ![v] =
              IF "no" = "absent" THEN blocked[v] ELSE "no" = "yes"]
        BY <4>1, Zenon DEF PatchUser
      <4> QED
        BY <3>2, <4>2, <4>3, Zenon
    <3> QED
      BY <3>1, <3>2, Zenon
  <2>3. ASSUME NEW u \in Users PROVE Kept(u) \/ Chosen(u)
    <3>1. meant'[u] = IF u = v THEN b ELSE meant[u]
      BY <2>1, ChoiceOne, Zenon
    <3>2. blocked'[u] = IF u = v THEN b ELSE blocked[u]
      BY <2>2, Zenon DEF TypeOK
    <3> QED
      BY <3>1, <3>2, Zenon DEF Kept, Chosen
  <2> QED
    BY <2>2, <2>3, Zenon
<1>2. CASE \E v \in Users : PatchUser(v, "absent") /\ Remember({})
  <2>1. PICK v \in Users : PatchUser(v, "absent") /\ Remember({})
    BY <1>2
  <2>2. (IF "absent" = "absent" THEN blocked[v] ELSE "absent" = "yes") = blocked[v]
    BY Zenon
  <2>3. form' = form /\ blocked' = [blocked EXCEPT ![v] = blocked[v]]
    BY <2>1, <2>2, Zenon DEF PatchUser
  <2>4. \A u \in Users : blocked'[u] = blocked[u]
    BY <2>3, Zenon DEF TypeOK
  <2>5. \A u \in Users : Kept(u)
    BY <2>1, <2>4, ChoiceNone, Zenon DEF Kept
  <2> QED
    BY <2>3, <2>5, Zenon
<1>3. CASE \E f \in Forms, v \in Users : OpenForm(f, v) /\ Remember({})
  <2>1. PICK f \in Forms, v \in Users : OpenForm(f, v) /\ Remember({})
    BY <1>3
  <2>2. blocked' = blocked /\ form' = [form EXCEPT ![f] = {MakeForm(v, blocked[v])}]
    BY <2>1, Zenon DEF OpenForm
  <2>3. \A u \in Users : Kept(u)
    BY <2>1, <2>2, ChoiceNone, Zenon DEF Kept
  <2>4. ASSUME NEW g \in Forms PROVE form'[g] = form[g] \/ Refilled(g)
    BY <2>2, Zenon DEF Refilled, TypeOK
  <2> QED
    BY <2>3, <2>4, Zenon
<1>4. ASSUME NEW f \in Forms, NEW changed \in BOOLEAN, SubmitForm(f, changed),
             NEW C, Remember(C),
             IF changed THEN C = {MakeForm(m.user, ~m.ticked) : m \in form[f]} ELSE C = {}
      PROVE  Goal
  <2>1. PICK m \in form[f] : blocked' = [blocked EXCEPT ![m.user] = m.ticked # changed]
    BY <1>4, Zenon DEF SubmitForm
  <2>2. form' = [form EXCEPT ![f] = {}]
    BY <1>4, Zenon DEF SubmitForm
  <2>3. m.user \in Users /\ m.ticked \in BOOLEAN /\ \A n \in form[f] : n = m
    BY <2>1 DEF TypeOK, Form, FormsFit
  <2>4. form'[f] = {} /\ \A g \in Forms : form'[g] = form[g] \/ form'[g] = {}
    BY <2>2, Zenon DEF TypeOK
  <2>5. \A u \in Users : blocked'[u] = IF u = m.user THEN (m.ticked # changed) ELSE blocked[u]
    BY <2>1, <2>3, Zenon DEF TypeOK
  <2>6. ASSUME changed = FALSE, NEW u \in Users PROVE Kept(u) \/ Resent(u)
    <3>1. meant'[u] = meant[u]
      <4>1. C = {}
        BY <1>4, <2>6
      <4> QED
        BY <1>4, <4>1, ChoiceNone, Zenon
    <3>2. (m.ticked # FALSE) = m.ticked
      BY <2>3
    <3>3. blocked'[u] = IF u = m.user THEN m.ticked ELSE blocked[u]
      BY <2>5, <2>6, <3>2, Zenon
    <3>4. CASE u = m.user
      BY <2>1, <2>4, <3>1, <3>3, <3>4, Zenon DEF Resent
    <3> QED
      BY <3>1, <3>3, <3>4, Zenon DEF Kept
  <2>7. ASSUME changed = TRUE, NEW u \in Users PROVE Kept(u) \/ Chosen(u)
    <3>1. C = {MakeForm(m.user, ~m.ticked)}
      <4>1. C = {MakeForm(n.user, ~n.ticked) : n \in form[f]}
        BY <1>4, <2>7
      <4>2. form[f] = {m}
        BY <2>3
      <4> QED
        BY <4>1, <4>2
    <3>2. (~m.ticked) \in BOOLEAN
      BY <2>3
    <3>3. meant'[u] = IF u = m.user THEN ~m.ticked ELSE meant[u]
      BY <1>4, <2>3, <3>1, <3>2, ChoiceOne, Zenon
    <3>4. (m.ticked # TRUE) = ~m.ticked
      BY <2>3
    <3>5. blocked'[u] = IF u = m.user THEN ~m.ticked ELSE blocked[u]
      BY <2>5, <2>7, <3>4, Zenon
    <3> QED
      BY <3>3, <3>5, Zenon DEF Kept, Chosen
  <2> QED
    BY <2>4, <2>6, <2>7, Zenon
<1>5. CASE \E h \in Handlers : /\ Step(h) \/ \E c \in Calls : Submit(h, c)
                               /\ Remember({})
  <2>1. form' = form /\ blocked' = blocked /\ Remember({})
    BY <1>5 DEF Step, CheckRequest, InsertNote, RereadNote, DeleteNote, DeleteRequest,
       LoadRequest, ListNotes, Fail, Submit, SubmitAdd, SubmitDelete, SubmitRead, tables
  <2>2. \A u \in Users : Kept(u)
    BY <2>1, ChoiceNone, Zenon DEF Kept
  <2> QED
    BY <2>1, <2>2, Zenon
<1>6. CASE \E f \in Forms : SubmitForm(f, FALSE) /\ Remember({})
  BY <1>4, <1>6
<1>7. CASE \E f \in Forms :
             SubmitForm(f, TRUE) /\ Remember({MakeForm(m.user, ~m.ticked) : m \in form[f]})
  <2>1. PICK f \in Forms :
          SubmitForm(f, TRUE) /\ Remember({MakeForm(m.user, ~m.ticked) : m \in form[f]})
    BY <1>7, Zenon
  <2>2. PICK C : C = {MakeForm(m.user, ~m.ticked) : m \in form[f]}
    BY Zenon
  <2>3. Remember(C)
    BY <2>1, <2>2, Zenon
  <2> QED
    BY <1>4, <2>1, <2>2, <2>3
<1> QED
  BY <1>1, <1>2, <1>3, <1>5, <1>6, <1>7, Zenon DEF HistoryNext

LEMMA NextFormsFit ==
  ASSUME TypeOK, FormsFit, [HistoryNext]_<<vars, history>>
  PROVE  FormsFit'
<1>1. CASE UNCHANGED <<vars, history>>
  BY <1>1 DEF vars, history, FormsFit
<1>2. CASE HistoryNext
  <2>1. PICK C : Remember(C)
    BY <1>2, Zenon DEF HistoryNext
  <2>2. \A f \in Forms : form'[f] = form[f] \/ form'[f] = {} \/ Refilled(f)
    BY <1>2, FlagEffects, Zenon
  <2>3. meant' \in [Users -> BOOLEAN]
    <3> DEFINE M(u) == IF \E b \in BOOLEAN : MakeForm(u, b) \in C
                       THEN MakeForm(u, TRUE) \in C ELSE meant[u]
    <3>1. meant' = [u \in Users |-> M(u)]
      BY <2>1 DEF Remember
    <3>2. ASSUME NEW u \in Users PROVE M(u) \in BOOLEAN
      <4>1. meant[u] \in BOOLEAN
        BY DEF FormsFit
      <4>2. (MakeForm(u, TRUE) \in C) \in BOOLEAN
        OBVIOUS
      <4>3. CASE \E b \in BOOLEAN : MakeForm(u, b) \in C
        <5>1. M(u) = (MakeForm(u, TRUE) \in C)
          BY <4>3, Zenon
        <5> QED
          BY <4>2, <5>1, Zenon
      <4>4. CASE ~\E b \in BOOLEAN : MakeForm(u, b) \in C
        <5>1. M(u) = meant[u]
          BY <4>4, Zenon
        <5> QED
          BY <4>1, <5>1, Zenon
      <4> QED
        BY <4>3, <4>4, Zenon
    <3> HIDE DEF M
    <3> QED
      BY <3>1, <3>2, Zenon
  <2>4. \A f \in Forms : \A m, n \in form'[f] : m = n
    BY <2>2, Zenon DEF Refilled, FormsFit
  <2>5. ASSUME NEW f \in Forms \ outdated', NEW m \in form'[f]
        PROVE  m.ticked = meant'[m.user]
    <3>1. ~(IF form'[f] = form[f] THEN f \in outdated \/ meant'[m.user] # meant[m.user]
            ELSE blocked'[m.user] # meant'[m.user])
      BY <2>1, <2>5, Zenon DEF Remember
    <3>2. CASE form'[f] = form[f]
      BY <2>5, <3>1, <3>2, Zenon DEF FormsFit
    <3>3. CASE form'[f] # form[f]
      <4>1. PICK u \in Users : form'[f] = {MakeForm(u, blocked[u])} /\ blocked' = blocked
        BY <2>2, <2>5, <3>3, Zenon DEF Refilled
      <4>2. m = MakeForm(u, blocked[u])
        BY <2>5, <4>1, Zenon
      <4>3. m.user = u /\ m.ticked = blocked[u]
        BY <4>2, FormFields, Zenon
      <4> QED
        BY <3>1, <3>3, <4>1, <4>3, Zenon
    <3> QED
      BY <3>2, <3>3
  <2> QED
    BY <2>3, <2>4, <2>5, Zenon DEF FormsFit
<1> QED
  BY <1>1, <1>2

(* The flag of a user is undone only by a form that was filled in before   *)
(* an admin's last choice, for any number of tabs, patches and forms.      *)
THEOREM BlockUndoneTheorem == HistorySpec => BlockUndoneOnlyByOldForm
<1>1. HistoryInit => FormsFit
  BY Zenon DEF HistoryInit, Init, FormsFit
<1>2. TypeOK /\ FormsFit /\ [HistoryNext]_<<vars, history>> => FormsFit'
  BY NextFormsFit
<1>3. TypeOK /\ FormsFit /\ [HistoryNext]_<<vars, history>> =>
        [\A u \in Users :
           (blocked[u] = meant[u] /\ blocked'[u] # meant'[u]) =>
             \E f \in outdated : form'[f] = {} /\ \E m \in form[f] : m.user = u]_<<vars, history>>
  <2> SUFFICES ASSUME TypeOK, FormsFit, HistoryNext, NEW u \in Users,
                      blocked[u] = meant[u], blocked'[u] # meant'[u]
               PROVE  \E f \in outdated : form'[f] = {} /\ \E m \in form[f] : m.user = u
    BY Zenon
  <2>1. Resent(u)
    BY FlagEffects, Zenon DEF Kept, Chosen
  <2>2. PICK f \in Forms : /\ form'[f] = {}
                           /\ \E m \in form[f] : m.user = u /\ blocked'[u] = m.ticked
    BY <2>1, Zenon DEF Resent
  <2>3. meant'[u] = meant[u]
    BY <2>1, Zenon DEF Resent
  <2>4. PICK m \in form[f] : m.user = u /\ blocked'[u] = m.ticked
    BY <2>2
  <2>5. m.ticked # meant[m.user]
    BY <2>3, <2>4, Zenon
  <2>6. f \in outdated
    BY <2>4, <2>5, Zenon DEF FormsFit
  <2> QED
    BY <2>2, <2>4, <2>6, Zenon
<1>4. NotesOK => TypeOK
  BY DEF NotesOK
<1> QED
  BY <1>1, <1>2, <1>3, <1>4, HistoryIsFaithful, NotesInvariant,
     PTL DEF HistorySpec, BlockUndoneOnlyByOldForm
=============================================================================
