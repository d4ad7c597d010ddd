---------------------------- MODULE RequestBoard ----------------------------
(***************************************************************************)
(* The request board of the anime request server: the rows of              *)
(* anime_requests, server_destinations and request_server_destinations,    *)
(* and the HTTP handlers that read and write them.                         *)
(*                                                                         *)
(* A handler runs in a goroutine of its own and talks to PostgreSQL one    *)
(* statement at a time, so a call is a Submit step (routing and input      *)
(* validation, no database access) followed by one step per statement.     *)
(* Only CreateWithDetails and CreateBatch open a transaction; every other  *)
(* statement commits by itself.  Statements run at READ COMMITTED: they    *)
(* see the committed rows and those of their own transaction, and they     *)
(* wait where a unique index or a foreign key makes PostgreSQL wait.       *)
(***************************************************************************)
EXTENDS Naturals, FiniteSets, Sequences

CONSTANTS
  Handlers,   \* goroutines serving requests at the same time
  ReqIds,     \* request UUIDs, drawn fresh by uuid.New()
  Dests,      \* server destination UUIDs, each standing for its canonical string too
  Variants,   \* other strings uuid.Parse takes: capitals, urn:uuid:, braces, no dashes
  Meant,      \* the destination each of them means
  DestName,   \* the unique name each destination is created with
  Titles,     \* names a request may carry, trimmed and non-empty
  Lower,      \* case folding: LOWER() in SQL, ToLower and EqualFold in Go
  Urls,       \* well-formed http(s) URLs
  Calls,      \* the calls clients make
  None,       \* an absent field, or SQL NULL
  Blank,      \* the empty string
  Malformed   \* a value the validation of its field refuses

Categories == {"current_future", "finished_airing", "batch_add"}
Statuses == {"new", "done", "need_to_get", "acquiring", "processing", "syncing"}
Roles == {"user", "mod", "admin"}

CreateOps == {"create", "newForm"}
BatchOps == {"batch", "batchForm"}
ModOps == {"update", "edit", "delete", "addDest", "removeDest",
           "createDest", "deleteDest"}

(* The strings a client may send for the id of a destination, and what     *)
(* uuid.Parse makes of them.                                               *)
IdStrings == Dests \cup Variants \cup {Malformed}
Parse(s) == IF s \in Variants THEN Meant[s] ELSE s
Ids(S) == {Parse(s) : s \in S \ {Malformed}}

(* What a client sends, and who it is.  Operations ignore the fields they  *)
(* do not read.                                                            *)
CallType ==
  [op : CreateOps \cup BatchOps \cup ModOps, role : Roles, canBatch : BOOLEAN,
   id : ReqIds \cup {None},
   name : Titles \cup {None, Blank}, alt : Titles \cup {None, Blank},
   status : Statuses \cup {None, Blank, Malformed},
   category : Categories \cup {None, Blank, Malformed},
   url : Urls \cup {None, Blank, Malformed},
   dests : SUBSET IdStrings,
   names : Seq(Titles \cup {Blank})]

ASSUME SpecialValues ==
  /\ None \notin Titles \cup Urls \cup ReqIds \cup Statuses \cup Categories
  /\ Blank \notin Titles \cup Urls \cup Statuses \cup Categories
  /\ Malformed \notin Dests \cup Urls \cup Statuses \cup Categories
  /\ None # Blank
  /\ Variants \cap (Dests \cup {Malformed}) = {} /\ Meant \in [Variants -> Dests]

(* Calls with a request in the path name it, and the edit form always      *)
(* submits its two name fields.  Of an id in a path handlers keep nothing  *)
(* but the UUID it is parsed to; new destinations get theirs from uuid.New.*)
ASSUME CallAssumption ==
  /\ Calls \subseteq CallType
  /\ \A c \in Calls :
       /\ c.op \in {"update", "edit", "delete", "addDest", "removeDest"}
            => c.id \in ReqIds
       /\ c.op = "edit" => c.name # None /\ c.alt # None
       /\ c.op \in {"addDest", "removeDest", "createDest", "deleteDest"}
            => \E s \in IdStrings : c.dests = {s}
       /\ c.op \in {"createDest", "deleteDest"} => c.dests \subseteq Dests

VARIABLES
  phase,      \* request id -> unborn, open (uncommitted), live or gone
  row,        \* request id -> its columns
  links,      \* request_server_destinations, uncommitted rows included
  destPhase,  \* destination id -> unborn, live or gone
  task        \* handler -> the call it serves and how far it is

vars == <<phase, row, links, destPhase, task>>
board == <<phase, row, links, destPhase>>

Row == [name : Titles \cup {None}, alt : Titles \cup {None},
        category : Categories, status : Statuses, url : Urls \cup {None}]
NoRow == [name |-> None, alt |-> None, category |-> "batch_add",
          status |-> "new", url |-> None]

Pcs == {"idle", "check", "insert", "link", "load", "loadDests", "write",
        "reread", "attach", "detach", "delete", "addDest", "remove",
        "createDest", "deleteDest", "prefilter", "bulk"}
Replies == {"none", "ok", "invalid", "forbidden", "conflict", "notFound", "error"}

NoCall == [op |-> "create", role |-> "user", canBatch |-> FALSE, id |-> None,
           name |-> None, alt |-> None, status |-> None, category |-> None,
           url |-> None, dests |-> {}, names |-> <<>>]

(* seen: destinations read by loadDestinations; todo: destinations still   *)
(* to link or unlink, those that an edit links as its form spells them;    *)
(* left: the positions of a batch's titles that are still to insert; mine: *)
(* the ids this call has inserted.                                         *)
Task == [pc : Pcs, call : CallType, seen : SUBSET Dests,
         todo : SUBSET IdStrings, left : SUBSET Nat,
         mine : SUBSET ReqIds, reply : Replies]
Idle(answer) == [pc |-> "idle", call |-> NoCall, seen |-> {}, todo |-> {},
                 left |-> {}, mine |-> {}, reply |-> answer]
BeginBatch(c, pc, left) ==
  [pc |-> pc, call |-> c, seen |-> {}, todo |-> {}, left |-> left,
   mine |-> {}, reply |-> "none"]
Begin(c, pc) == BeginBatch(c, pc, {})

-----------------------------------------------------------------------------
(* The rows and the names on them                                          *)

Live == {i \in ReqIds : phase[i] = "live"}
Open == {i \in ReqIds : phase[i] = "open"}
LinksOf(i) == {d \in Dests : <<i, d>> \in links}

Key(t) == Lower[t]
KeysOf(T) == {Lower[t] : t \in T}
Keys(r) == KeysOf({r.name, r.alt} \ {None})

SameName(r, s) == Key(r.name) = Key(s.name)
SameAlt(r, s) == r.alt # None /\ s.alt # None /\ Key(r.alt) = Key(s.alt)
Clash(r, s) == SameName(r, s) \/ SameAlt(r, s)
AltDiffers(r) == r.alt # None => Key(r.alt) # Key(r.name)

(* Mutant: the duplicate check looks at the name column only.              *)
NameInUse_NamesOnly(exclude, T) ==
  \E j \in Live \ exclude : Key(row[j].name) \in KeysOf(T)
NameInUse(exclude, T) ==
  \E j \in Live \ exclude : Keys(row[j]) \cap KeysOf(T) # {}

(* Unique indexes.  A committed row, or one of the same transaction, with  *)
(* the key is a violation; an uncommitted row of another transaction makes *)
(* the statement wait.  LOWER(name) is the older index and is probed first.*)
NameTaken(h, r, i) ==
  \E j \in (Live \cup task[h].mine) \ {i} : SameName(row[j], r)
AltTaken(h, r, i) ==
  \E j \in (Live \cup task[h].mine) \ {i} : SameAlt(row[j], r)
NameHeld(h, r) == \E j \in Open \ task[h].mine : SameName(row[j], r)
AltHeld(h, r) == \E j \in Open \ task[h].mine : SameAlt(row[j], r)

MayWrite(h, r, i) ==
  \/ ~AltDiffers(r)
  \/ ~NameHeld(h, r) /\ (NameTaken(h, r, i) \/ ~AltHeld(h, r))
(* Mutant: migration 008 without its partial unique index on alt_name.     *)
WriteResult_NoAltIndex(h, r, i) ==
  IF ~AltDiffers(r) THEN "invalid"
  ELSE IF NameTaken(h, r, i) THEN "conflict" ELSE "ok"
WriteResult(h, r, i) ==
  IF ~AltDiffers(r) THEN "invalid"
  ELSE IF NameTaken(h, r, i) \/ AltTaken(h, r, i) THEN "conflict" ELSE "ok"

IsMod(c) == c.role \in {"mod", "admin"}

(* The columns an insert sets: the mod-only fields of a plain user are     *)
(* dropped, blank ones fall back to the column defaults.                   *)
NewRow(c) ==
  [name |-> c.name,
   alt |-> IF IsMod(c) /\ c.alt \in Titles THEN c.alt ELSE None,
   category |-> c.category,
   status |-> IF IsMod(c) /\ c.status \in Statuses THEN c.status ELSE "new",
   url |-> IF IsMod(c) /\ c.url \in Urls THEN c.url ELSE None]

BatchRow(t) == [NoRow EXCEPT !.name = t]

(* Mutant: a blank anidb_url clears the column.                            *)
Edited_ClearsUrl(r, c) ==
  [name |-> IF c.name \in Titles THEN c.name ELSE r.name,
   alt |-> IF c.alt = None THEN r.alt ELSE IF c.alt = Blank THEN None ELSE c.alt,
   category |-> IF c.category \in Categories THEN c.category ELSE r.category,
   status |-> IF c.status \in Statuses THEN c.status ELSE r.status,
   url |-> IF c.url \in Urls THEN c.url ELSE IF c.url = Blank THEN None ELSE r.url]

(* The columns an update sets: a blank alt_name clears the column, a blank *)
(* anidb_url leaves it alone.                                              *)
Edited(r, c) ==
  [name |-> IF c.name \in Titles THEN c.name ELSE r.name,
   alt |-> IF c.alt = None THEN r.alt ELSE IF c.alt = Blank THEN None ELSE c.alt,
   category |-> IF c.category \in Categories THEN c.category ELSE r.category,
   status |-> IF c.status \in Statuses THEN c.status ELSE r.status,
   url |-> IF c.url \in Urls THEN c.url ELSE r.url]

(* Mutant: the alternate name is not checked.                              *)
Candidates_NameOnly(c) == {c.name} \cap Titles

(* The names a handler passes to NameInUse.                                *)
Candidates(c) ==
  IF c.op \in CreateOps /\ ~IsMod(c) THEN {c.name} \cap Titles
  ELSE {c.name, c.alt} \cap Titles
Excluded(c) == IF c.op \in CreateOps THEN {} ELSE {c.id}

-----------------------------------------------------------------------------
(* Steps shared by the handlers                                            *)

Goto(h, t) == task' = [task EXCEPT ![h] = t]
Answer(h, reply) == Goto(h, Idle(reply))

(* Mutant: no deferred Rollback, the transaction stays open.               *)
Rollback_Forgotten(h) == UNCHANGED board

(* The deferred tx.Rollback: the uncommitted rows of the call and their    *)
(* links are gone, and nobody has ever seen their ids.                     *)
Rollback(h) ==
  LET undone == task[h].mine \cap Open IN
  /\ phase' = [i \in ReqIds |-> IF i \in undone THEN "unborn" ELSE phase[i]]
  /\ row' = [i \in ReqIds |-> IF i \in undone THEN NoRow ELSE row[i]]
  /\ links' = {l \in links : l[1] \notin undone}
  /\ UNCHANGED destPhase

(* tx.Commit: the rows and the links of the transaction become visible.    *)
Publish(h) ==
  /\ phase' = [i \in ReqIds |-> IF i \in task[h].mine THEN "live" ELSE phase[i]]
  /\ UNCHANGED <<row, links, destPhase>>

-----------------------------------------------------------------------------
(* Bounds.  Ids are finite here: a call is taken only while every call in  *)
(* progress can still draw the ids it needs, and a client names a request  *)
(* only by an id it was once given.                                        *)

(* The positions of a batch that remain once empty lines are dropped.      *)
Trimmed(names) == {k \in DOMAIN names : names[k] # Blank}
IdsNeeded(c) ==
  CASE c.op \in CreateOps -> 1
    [] c.op \in BatchOps -> Cardinality(Trimmed(c.names))
    [] OTHER -> 0
Claims == {p \in Handlers \X (1 .. Cardinality(ReqIds)) :
             /\ task[p[1]].pc \notin {"idle", "reread"}
             /\ p[2] <= IdsNeeded(task[p[1]].call)}
IdsLeft(n) ==
  n + Cardinality(Claims)
    <= Cardinality({i \in ReqIds : phase[i] \in {"unborn", "open"}})
Known(i) == phase[i] \in {"live", "gone"}

Receive(h, c, op) == task[h].pc = "idle" /\ c.op = op /\ UNCHANGED board

-----------------------------------------------------------------------------
(* Creating a request: POST /api/v1/requests and the web form              *)

InvalidCreate(c) ==
  \/ c.name \notin Titles
  \/ c.category \notin {"current_future", "finished_airing"}
  \/ /\ IsMod(c)
     /\ \/ c.alt \in Titles /\ Key(c.alt) = Key(c.name)
        \/ c.status = Malformed
        \/ c.url = Malformed
        \/ Malformed \in c.dests

(* The API refuses an empty status, the form takes it as not set.          *)
SubmitCreate(h, c) ==
  /\ Receive(h, c, "create")
  /\ IF InvalidCreate(c) \/ (IsMod(c) /\ c.status = Blank)
     THEN Answer(h, "invalid")
     ELSE IdsLeft(1) /\ Goto(h, Begin(c, "check"))

SubmitNewForm(h, c) ==
  /\ Receive(h, c, "newForm")
  /\ IF InvalidCreate(c) THEN Answer(h, "invalid")
     ELSE IdsLeft(1) /\ Goto(h, Begin(c, "check"))

(* NameInUse, the check all writers of names but the batch make.  The web  *)
(* edit looks at its URL only afterwards.                                  *)
CheckNames(h) ==
  LET c == task[h].call IN
  /\ task[h].pc = "check"
  /\ UNCHANGED board
  /\ IF NameInUse(Excluded(c), Candidates(c)) THEN Answer(h, "conflict")
     ELSE IF c.op = "edit" /\ c.url = Malformed THEN Answer(h, "invalid")
     ELSE Goto(h, [task[h] EXCEPT !.pc = IF c.op \in CreateOps THEN "insert" ELSE "write"])

(* Mutant: the row is inserted outside the transaction.                    *)
InsertRequest_NoTx(h) ==
  LET c == task[h].call
      r == NewRow(c) IN
  /\ task[h].pc = "insert"
  /\ MayWrite(h, r, None)
  /\ IF WriteResult(h, r, None) # "ok"
     THEN UNCHANGED board /\ Answer(h, WriteResult(h, r, None))
     ELSE \E i \in ReqIds :
            /\ phase[i] = "unborn"
            /\ phase' = [phase EXCEPT ![i] = "live"]
            /\ row' = [row EXCEPT ![i] = r]
            /\ UNCHANGED <<links, destPhase>>
            /\ Goto(h, [task[h] EXCEPT !.pc = "link", !.mine = {i},
                          !.todo = IF IsMod(c) THEN Ids(c.dests) ELSE {}])

InsertRequest(h) ==
  LET c == task[h].call
      r == NewRow(c) IN
  /\ task[h].pc = "insert"
  /\ MayWrite(h, r, None)
  /\ IF WriteResult(h, r, None) # "ok"
     THEN UNCHANGED board /\ Answer(h, WriteResult(h, r, None))
     ELSE \E i \in ReqIds :
            /\ phase[i] = "unborn"
            /\ phase' = [phase EXCEPT ![i] = "open"]
            /\ row' = [row EXCEPT ![i] = r]
            /\ UNCHANGED <<links, destPhase>>
            /\ Goto(h, [task[h] EXCEPT !.pc = "link", !.mine = {i},
                          !.todo = IF IsMod(c) THEN Ids(c.dests) ELSE {}])

(* One INSERT per destination, in the transaction; a destination that is   *)
(* not there is a foreign-key violation and undoes the request.            *)
LinkDestination(h) ==
  /\ task[h].pc = "link"
  /\ \E d \in task[h].todo :
       IF d \in Dests /\ destPhase[d] = "live"
       THEN /\ links' = links \cup (task[h].mine \X {d})
            /\ Goto(h, [task[h] EXCEPT !.todo = @ \ {d}])
            /\ UNCHANGED <<phase, row, destPhase>>
       ELSE Rollback(h) /\ Answer(h, "invalid")

(* An acknowledgement lost on the way is Fail at the next step.            *)
CommitCreate(h) ==
  /\ task[h].pc = "link"
  /\ task[h].todo = {}
  /\ Publish(h)
  /\ Goto(h, [task[h] EXCEPT !.pc = "reread"])

(* GetByID after the write.  After a create, a row that is already deleted *)
(* again still answers 201.                                                *)
Reread(h) ==
  LET c == task[h].call IN
  /\ task[h].pc = "reread"
  /\ UNCHANGED board
  /\ Answer(h, IF c.op \in CreateOps \/ phase[c.id] = "live" THEN "ok" ELSE "notFound")

-----------------------------------------------------------------------------
(* Changing a request: PATCH /requests/{id} and the web edit form          *)

InvalidUpdate(c) ==
  \/ c.name = Blank
  \/ c.alt \in Titles /\ c.name \in Titles /\ Key(c.alt) = Key(c.name)
  \/ c.status \in {Blank, Malformed}
  \/ c.category \in {Blank, Malformed}
  \/ c.url = Malformed

SubmitUpdate(h, c) ==
  /\ Receive(h, c, "update")
  /\ Known(c.id)
  /\ IF ~IsMod(c) THEN Answer(h, "forbidden")
     ELSE IF InvalidUpdate(c) THEN Answer(h, "invalid")
     ELSE Goto(h, Begin(c, IF Candidates(c) = {} THEN "write" ELSE "check"))

SubmitEdit(h, c) ==
  /\ Receive(h, c, "edit")
  /\ Known(c.id)
  /\ IF ~IsMod(c) THEN Answer(h, "forbidden") ELSE Goto(h, Begin(c, "load"))

(* GetByID is two statements: the row, then its destinations.              *)
LoadRequest(h) ==
  /\ task[h].pc = "load"
  /\ UNCHANGED board
  /\ IF task[h].call.id \in Live
     THEN Goto(h, [task[h] EXCEPT !.pc = "loadDests"])
     ELSE Answer(h, "notFound")

LoadForEdit(h) ==
  LET c == task[h].call IN
  /\ task[h].pc = "loadDests"
  /\ c.op = "edit"
  /\ UNCHANGED board
  /\ IF c.name = Blank \/ (c.alt \in Titles /\ Key(c.alt) = Key(c.name))
     THEN Answer(h, "invalid")
     ELSE Goto(h, [task[h] EXCEPT !.pc = "check", !.seen = LinksOf(c.id)])

(* Mutant: the update is an upsert and brings a deleted request back.      *)
UpdateRequest_Upsert(h) ==
  LET c == task[h].call
      r == Edited(row[c.id], c) IN
  /\ task[h].pc = "write"
  /\ r.name # None
  /\ MayWrite(h, r, c.id)
  /\ UNCHANGED <<links, destPhase>>
  /\ IF WriteResult(h, r, c.id) = "ok"
     THEN /\ row' = [row EXCEPT ![c.id] = r]
          /\ phase' = [phase EXCEPT ![c.id] = "live"]
          /\ Goto(h, [task[h] EXCEPT !.pc = "reread"])
     ELSE UNCHANGED <<phase, row>> /\ Answer(h, WriteResult(h, r, c.id))

(* An UPDATE that matches no row succeeds, and the handler goes on.  The   *)
(* edit form then links what is selected and is not the canonical string   *)
(* of a destination that was linked when it loaded the request, skipping   *)
(* values that are not UUIDs.                                              *)
UpdateRequest(h) ==
  LET c == task[h].call
      r == Edited(row[c.id], c)
      next == [task[h] EXCEPT !.pc = IF c.op = "edit" THEN "attach" ELSE "reread",
                              !.todo = IF c.op = "edit"
                                       THEN (c.dests \ {Malformed}) \ task[h].seen
                                       ELSE {}] IN
  /\ task[h].pc = "write"
  /\ UNCHANGED <<phase, links, destPhase>>
  /\ \/ c.id \notin Live /\ Goto(h, next) /\ UNCHANGED row
     \/ /\ c.id \in Live
        /\ MayWrite(h, r, c.id)
        /\ IF WriteResult(h, r, c.id) = "ok"
           THEN row' = [row EXCEPT ![c.id] = r] /\ Goto(h, next)
           ELSE UNCHANGED row /\ Answer(h, WriteResult(h, r, c.id))

Linkable(i, d) == i \in Live /\ d \in Dests /\ destPhase[d] = "live"

(* Statements of their own, no transaction: an error here leaves what is   *)
(* already written.                                                        *)
AttachSelected(h) ==
  LET i == task[h].call.id IN
  /\ task[h].pc = "attach"
  /\ UNCHANGED <<phase, row, destPhase>>
  /\ \E s \in task[h].todo :
       IF Linkable(i, Parse(s))
       THEN /\ links' = links \cup {<<i, Parse(s)>>}
            /\ Goto(h, [task[h] EXCEPT !.todo = @ \ {s}])
       ELSE UNCHANGED links /\ Answer(h, "error")

(* Mutant: an edit with nothing selected unlinks everything.               *)
TurnToDetach_ClearsAll(h) ==
  /\ task[h].pc = "attach"
  /\ task[h].todo = {}
  /\ UNCHANGED board
  /\ Goto(h, [task[h] EXCEPT !.pc = "detach", !.todo = task[h].seen \ task[h].call.dests])

(* Mutant: what is no longer selected stays linked.                        *)
TurnToDetach_KeepsOld(h) ==
  /\ task[h].pc = "attach"
  /\ task[h].todo = {}
  /\ UNCHANGED board
  /\ Goto(h, [task[h] EXCEPT !.pc = "detach"])

(* "Remove unchecked destinations" once all are attached, unless nothing   *)
(* was selected: those that were linked when the request was loaded and    *)
(* whose canonical string is not among the strings of the form.            *)
TurnToDetach(h) ==
  LET c == task[h].call IN
  /\ task[h].pc = "attach"
  /\ task[h].todo = {}
  /\ UNCHANGED board
  /\ Goto(h, [task[h] EXCEPT !.pc = "detach",
                !.todo = IF c.dests = {} THEN {} ELSE task[h].seen \ c.dests])

DetachUnselected(h) ==
  LET i == task[h].call.id IN
  /\ task[h].pc = "detach"
  /\ UNCHANGED <<phase, row, destPhase>>
  /\ \/ \E d \in task[h].todo :
          /\ links' = links \ {<<i, d>>}
          /\ Goto(h, [task[h] EXCEPT !.todo = @ \ {d}])
     \/ task[h].todo = {} /\ UNCHANGED links /\ Answer(h, "ok")

-----------------------------------------------------------------------------
(* DELETE /requests/{id}: the links go with the row (ON DELETE CASCADE)    *)

SubmitDelete(h, c) ==
  /\ Receive(h, c, "delete")
  /\ Known(c.id)
  /\ IF ~IsMod(c) THEN Answer(h, "forbidden") ELSE Goto(h, Begin(c, "delete"))

DeleteRequest(h) ==
  LET i == task[h].call.id IN
  /\ task[h].pc = "delete"
  /\ UNCHANGED destPhase
  /\ IF i \in Live
     THEN /\ phase' = [phase EXCEPT ![i] = "gone"]
          /\ row' = [row EXCEPT ![i] = NoRow]
          /\ links' = {l \in links : l[1] # i}
          /\ Answer(h, "ok")
     ELSE UNCHANGED <<phase, row, links>> /\ Answer(h, "notFound")

-----------------------------------------------------------------------------
(* The destinations of a request: POST and DELETE .../destinations         *)

SubmitAddDest(h, c) ==
  /\ Receive(h, c, "addDest")
  /\ Known(c.id)
  /\ IF ~IsMod(c) THEN Answer(h, "forbidden")
     ELSE IF Malformed \in c.dests THEN Answer(h, "invalid")
     ELSE Goto(h, Begin(c, "addDest"))

AddDestination(h) ==
  LET c == task[h].call IN
  /\ task[h].pc = "addDest"
  /\ UNCHANGED <<phase, row, destPhase>>
  /\ IF \A d \in Ids(c.dests) : Linkable(c.id, d)
     THEN links' = links \cup ({c.id} \X Ids(c.dests)) /\ Answer(h, "ok")
     ELSE UNCHANGED links /\ Answer(h, "error")

SubmitRemoveDest(h, c) ==
  /\ Receive(h, c, "removeDest")
  /\ Known(c.id)
  /\ IF ~IsMod(c) THEN Answer(h, "forbidden")
     ELSE IF Malformed \in c.dests THEN Answer(h, "invalid")
     ELSE Goto(h, Begin(c, "load"))

(* "Preserve the keep at least one destination rule", on what GetByID read.*)
LoadForRemove(h) ==
  LET c == task[h].call
      seen == LinksOf(c.id) IN
  /\ task[h].pc = "loadDests"
  /\ c.op = "removeDest"
  /\ UNCHANGED board
  /\ IF ~(Ids(c.dests) \subseteq seen) THEN Answer(h, "notFound")
     ELSE IF Cardinality(seen) <= 1 THEN Answer(h, "invalid")
     ELSE Goto(h, [task[h] EXCEPT !.pc = "remove", !.seen = seen])

RemoveDestination(h) ==
  LET c == task[h].call IN
  /\ task[h].pc = "remove"
  /\ links' = links \ ({c.id} \X Ids(c.dests))
  /\ UNCHANGED <<phase, row, destPhase>>
  /\ Answer(h, "ok")

-----------------------------------------------------------------------------
(* The server destinations themselves                                      *)

SubmitCreateDest(h, c) ==
  /\ Receive(h, c, "createDest")
  /\ \A d \in c.dests :
       /\ destPhase[d] # "gone"
       /\ \A g \in Handlers : ~(task[g].pc = "createDest" /\ d \in task[g].call.dests)
  /\ IF ~IsMod(c) THEN Answer(h, "forbidden") ELSE Goto(h, Begin(c, "createDest"))

CreateServerDest(h) ==
  /\ task[h].pc = "createDest"
  /\ UNCHANGED <<phase, row, links>>
  /\ \E d \in task[h].call.dests :
       IF destPhase[d] = "unborn"
          /\ \A e \in Dests : destPhase[e] = "live" => DestName[e] # DestName[d]
       THEN destPhase' = [destPhase EXCEPT ![d] = "live"] /\ Answer(h, "ok")
       ELSE UNCHANGED destPhase /\ Answer(h, "conflict")

SubmitDeleteDest(h, c) ==
  /\ Receive(h, c, "deleteDest")
  /\ IF ~IsMod(c) THEN Answer(h, "forbidden") ELSE Goto(h, Begin(c, "deleteDest"))

(* Mutant: server_destination_id without its ON DELETE CASCADE.            *)
DeleteServerDest_NoCascade(h) ==
  /\ task[h].pc = "deleteDest"
  /\ UNCHANGED <<phase, row, links>>
  /\ \E d \in task[h].call.dests :
       /\ destPhase' = [destPhase EXCEPT ![d] = IF @ = "live" THEN "gone" ELSE @]
       /\ Answer(h, "ok")

(* The links of a destination go with it.  A transaction that has linked   *)
(* it holds a key-share lock on its row, and the DELETE waits for it.      *)
DeleteServerDest(h) ==
  /\ task[h].pc = "deleteDest"
  /\ UNCHANGED <<phase, row>>
  /\ \E d \in task[h].call.dests :
       /\ \A i \in Open : <<i, d>> \notin links
       /\ destPhase' = [destPhase EXCEPT ![d] = IF @ = "live" THEN "gone" ELSE @]
       /\ links' = {l \in links : l[2] # d \/ destPhase[d] # "live"}
       /\ Answer(h, "ok")

-----------------------------------------------------------------------------
(* Batch add: one transaction, the taken names filtered out first          *)

SubmitBatch(h, c) ==
  /\ Receive(h, c, "batch")
  /\ IF ~c.canBatch THEN Answer(h, "forbidden")
     ELSE IF c.category # "batch_add" \/ Trimmed(c.names) = {}
          THEN Answer(h, "invalid")
     ELSE /\ IdsLeft(IdsNeeded(c))
          /\ Goto(h, BeginBatch(c, "prefilter", Trimmed(c.names)))

SubmitBatchForm(h, c) ==
  /\ Receive(h, c, "batchForm")
  /\ IF ~c.canBatch THEN Answer(h, "forbidden")
     ELSE IF Trimmed(c.names) = {} THEN Answer(h, "invalid")
     ELSE /\ IdsLeft(IdsNeeded(c))
          /\ Goto(h, BeginBatch(c, "prefilter", Trimmed(c.names)))

Taken == UNION {Keys(row[j]) : j \in Live}

(* The statements of the batch run in the order of its titles.             *)
NextPosition(h) == {k \in task[h].left : \A j \in task[h].left : k <= j}

Prefilter(h) ==
  LET free == {k \in task[h].left : Key(task[h].call.names[k]) \notin Taken} IN
  /\ task[h].pc = "prefilter"
  /\ UNCHANGED board
  /\ IF free = {} THEN Answer(h, "ok")
     ELSE Goto(h, [task[h] EXCEPT !.pc = "bulk", !.left = free])

(* Mutant: a title somebody else is inserting is skipped without waiting.  *)
BulkInsert_SkipsHeld(h) ==
  /\ task[h].pc = "bulk"
  /\ UNCHANGED <<links, destPhase>>
  /\ \E k \in NextPosition(h) :
       LET r == BatchRow(task[h].call.names[k])
           done == [task[h] EXCEPT !.left = @ \ {k}] IN
       IF NameHeld(h, r) \/ NameTaken(h, r, None)
       THEN Goto(h, done) /\ UNCHANGED <<phase, row>>
       ELSE \E i \in ReqIds :
              /\ phase[i] = "unborn"
              /\ phase' = [phase EXCEPT ![i] = "open"]
              /\ row' = [row EXCEPT ![i] = r]
              /\ Goto(h, [done EXCEPT !.mine = @ \cup {i}])

(* INSERT ... ON CONFLICT (LOWER(name)) DO NOTHING, for the next title: it *)
(* waits for an uncommitted row with the name before it decides.           *)
BulkInsert(h) ==
  /\ task[h].pc = "bulk"
  /\ UNCHANGED <<links, destPhase>>
  /\ \E k \in NextPosition(h) :
       LET r == BatchRow(task[h].call.names[k])
           done == [task[h] EXCEPT !.left = @ \ {k}] IN
       /\ ~NameHeld(h, r)
       /\ \/ NameTaken(h, r, None) /\ Goto(h, done) /\ UNCHANGED <<phase, row>>
          \/ /\ ~NameTaken(h, r, None)
             /\ \E i \in ReqIds :
                  /\ phase[i] = "unborn"
                  /\ phase' = [phase EXCEPT ![i] = "open"]
                  /\ row' = [row EXCEPT ![i] = r]
                  /\ Goto(h, [done EXCEPT !.mine = @ \cup {i}])

(* The acknowledgement of the commit may be lost: the client is told of an *)
(* error though the rows are there.                                        *)
CommitBatch(h) ==
  /\ task[h].pc = "bulk"
  /\ task[h].left = {}
  /\ Publish(h)
  /\ \E told \in {"ok", "error"} : Answer(h, told)

-----------------------------------------------------------------------------
(* PostgreSQL's deadlock detector.  Only batches hold a name while they    *)
(* wait for another, so a cycle of waits is made of batches.               *)

WaitsFor(h) ==
  {g \in Handlers \ {h} :
     /\ task[h].pc = "bulk"
     /\ \E j \in Open \cap task[g].mine, k \in NextPosition(h) :
          Key(row[j].name) = Key(task[h].call.names[k])}

InDeadlock(h) ==
  \E S \in SUBSET Handlers :
    /\ h \in S
    /\ \A g \in S : WaitsFor(g) \cap S # {} /\ \E f \in S : g \in WaitsFor(f)

DeadlockAbort(h) ==
  /\ InDeadlock(h)
  /\ Rollback(h)
  /\ Answer(h, "error")

(* A statement fails, its context is cancelled, the connection or the      *)
(* process is lost: the call ends where it is, its transaction undone.     *)
Fail(h) ==
  /\ task[h].pc # "idle"
  /\ Rollback(h)
  /\ Answer(h, "error")

-----------------------------------------------------------------------------
Init ==
  /\ phase = [i \in ReqIds |-> "unborn"]
  /\ row = [i \in ReqIds |-> NoRow]
  /\ links = {}
  /\ destPhase = [d \in Dests |-> "unborn"]
  /\ task = [h \in Handlers |-> Idle("none")]

Submit(h, c) ==
  \/ SubmitCreate(h, c) \/ SubmitNewForm(h, c)
  \/ SubmitUpdate(h, c) \/ SubmitEdit(h, c) \/ SubmitDelete(h, c)
  \/ SubmitAddDest(h, c) \/ SubmitRemoveDest(h, c)
  \/ SubmitCreateDest(h, c) \/ SubmitDeleteDest(h, c)
  \/ SubmitBatch(h, c) \/ SubmitBatchForm(h, c)

(* Statements that may have to wait for another transaction.               *)
WaitingStep(h) ==
  InsertRequest(h) \/ UpdateRequest(h) \/ BulkInsert(h) \/ DeleteServerDest(h)

PlainStep(h) ==
  \/ CheckNames(h) \/ LinkDestination(h) \/ CommitCreate(h) \/ Reread(h)
  \/ LoadRequest(h) \/ LoadForEdit(h) \/ LoadForRemove(h)
  \/ AttachSelected(h) \/ TurnToDetach(h) \/ DetachUnselected(h)
  \/ DeleteRequest(h) \/ AddDestination(h) \/ RemoveDestination(h)
  \/ CreateServerDest(h) \/ Prefilter(h) \/ CommitBatch(h)

Next ==
  \E h \in Handlers :
    \/ \E c \in Calls : Submit(h, c)
    \/ PlainStep(h)
    \/ WaitingStep(h)
    \/ DeadlockAbort(h)
    \/ Fail(h)

Spec == Init /\ [][Next]_vars

(* Goroutines are scheduled and statements return.  A statement woken from *)
(* a lock wait tries again, and does not lose that race for ever.          *)
Fairness ==
  \A h \in Handlers :
    WF_vars(PlainStep(h)) /\ SF_vars(WaitingStep(h)) /\ WF_vars(DeadlockAbort(h))

FairSpec == Spec /\ Fairness
=============================================================================
