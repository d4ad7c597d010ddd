--------------------------- MODULE BoardProperties ---------------------------
(***************************************************************************)
(* What the request board must guarantee, and the catalogue it implements. *)
(***************************************************************************)
EXTENDS RequestBoard

(* Every variable has its type, and only rows that exist carry data.       *)
TypeOK ==
  /\ phase \in [ReqIds -> {"unborn", "open", "live", "gone"}]
  /\ row \in [ReqIds -> Row]
  /\ links \subseteq ReqIds \X Dests
  /\ destPhase \in [Dests -> {"unborn", "live", "gone"}]
  /\ task \in [Handlers -> Task]
  /\ \A i \in ReqIds : row[i].name \in Titles <=> i \in Live \cup Open

(* No two requests, committed or about to be, have names that fold to the  *)
(* same key, nor alternate names that do: NameInUse and the insert are two *)
(* statements, and the unique indexes of migrations 007 and 008 have to    *)
(* catch every race between them, uncommitted rows included.               *)
UniqueKeys ==
  /\ \A i, j \in Live \cup Open : i # j => ~Clash(row[i], row[j])
  /\ \A i \in Live \cup Open : AltDiffers(row[i])

(* Every uncommitted row belongs to exactly one transaction in progress,   *)
(* so its names are free again once the handler has answered.              *)
OpenRowsOwned ==
  /\ \A i \in Open : \E h \in Handlers :
       i \in task[h].mine /\ task[h].pc \in {"link", "bulk"}
  /\ \A g, h \in Handlers : g # h => task[g].mine \cap task[h].mine = {}

(* A link joins a request that exists to a destination that exists, while  *)
(* requests and destinations are deleted under the handlers that link them.*)
LinksRefer ==
  \A l \in links : l[1] \in Live \cup Open /\ destPhase[l[2]] = "live"

(* What a transaction owns, by the step its handler is at.                 *)
MineFits(t) ==
  /\ t.pc \in {"link", "bulk"} => t.mine \subseteq Open
  /\ t.pc = "reread" => \A i \in t.mine : phase[i] \in {"live", "gone"}
  /\ t.pc \notin {"link", "bulk", "reread"} => t.mine = {}

(* What validation has established about the call, for the inserts.        *)
CallFits(t) ==
  /\ t.pc = "insert" => t.call.op \in CreateOps
  /\ t.pc \in {"check", "insert"} /\ t.call.op \in CreateOps
       => t.call.name \in Titles /\ t.call.category \in Categories
  /\ t.left \subseteq Trimmed(t.call.names)

(* The inductive invariant: every step of every handler preserves it.      *)
IInv ==
  /\ TypeOK /\ UniqueKeys /\ OpenRowsOwned /\ LinksRefer
  /\ \A h \in Handlers : MineFits(task[h]) /\ CallFits(task[h])

(* What the handler of a call has established when it is at a step: which  *)
(* call it serves, that it has not answered, and what it has inserted.     *)
OpFits(t) ==
  /\ t.pc # "idle" => t.call \in Calls /\ t.reply = "none"
  /\ t.pc \in {"insert", "link"} => t.call.op \in CreateOps
  /\ t.pc = "check" => t.call.op \in CreateOps \cup {"update", "edit"}
  /\ t.pc = "reread" => t.call.op \in CreateOps \cup {"update"}
  /\ t.pc = "write" => t.call.op \in {"update", "edit"}
  /\ t.pc \in {"load", "loadDests"} => t.call.op \in {"edit", "removeDest"}
  /\ t.pc \in {"attach", "detach"} => t.call.op = "edit"
  /\ t.pc = "remove" => t.call.op = "removeDest"
  /\ t.pc \in {"delete", "addDest", "createDest", "deleteDest"} => t.call.op = t.pc
  /\ t.pc \in {"prefilter", "bulk"} => t.call.op \in BatchOps
Inserted(t) ==
  /\ t.pc = "link" => \E i \in ReqIds : t.mine = {i} /\ row[i] = NewRow(t.call)
  /\ t.pc = "bulk" => \A i \in t.mine : row[i].alt = None

(* The inductive invariant with that: what every step of a call relies on. *)
CallsInv == IInv /\ \A h \in Handlers : OpFits(task[h]) /\ Inserted(task[h])

(* No name of one request is a name, or the alternate name, of another.    *)
(* The cross case is enforced by the handlers alone (migration 008, 9-11). *)
CrossUnique ==
  \A i, j \in Live : i # j => Keys(row[i]) \cap Keys(row[j]) = {}

(* h is about to make names visible that its check would now refuse.       *)
StaleCheck(h) ==
  LET c == task[h].call IN
  \/ task[h].pc \in {"write", "link"} /\ NameInUse(Excluded(c), Candidates(c))
  \/ task[h].pc = "bulk" /\ NameInUse({}, {row[i].name : i \in task[h].mine})

(* The check of every handler covers every name it writes: a collision     *)
(* across the two columns comes from a check that had gone stale when its  *)
(* names became visible, and from nothing else.                            *)
CollisionsNeedStaleCheck ==
  [][CrossUnique /\ ~CrossUnique' =>
       \E h \in Handlers : task'[h] # task[h] /\ StaleCheck(h)]_vars

(* A batch that answers "added" has every one of its titles on the board,  *)
(* its own row or one that was there: ON CONFLICT DO NOTHING may skip a    *)
(* title only for a row that is really committed.                          *)
BatchCovers ==
  [][\A h \in Handlers :
       /\ task[h].call.op \in BatchOps
       /\ task[h].pc \in {"prefilter", "bulk"}
       /\ task'[h].reply = "ok"
       => \A k \in DOMAIN task[h].call.names :
            LET t == task[h].call.names[k] IN
            t # Blank => \E j \in Live' : Key(t) \in Keys(row'[j])]_vars

(* A request that is sent somewhere stays so, unless a destination is      *)
(* deleted: "keep at least one destination".  The exception is an edit form*)
(* with values but no canonical id among them: what is no id is skipped,   *)
(* another spelling of an id that is linked adds nothing, and neither keeps*)
(* anything when what is not selected is removed.                          *)
KeepOne ==
  [][destPhase' = destPhase =>
       \A i \in Live : i \in Live' /\ LinksOf(i) # {} /\ LinksOf(i)' = {} =>
         \E h \in Handlers :
           LET c == task[h].call IN
           /\ c.op = "edit" /\ c.id = i
           /\ c.dests # {} /\ c.dests \subseteq Variants \cup {Malformed}
           /\ Ids(c.dests) \subseteq task[h].seen]_vars

(* An edit that is answered with the redirect leaves exactly the selected  *)
(* destinations linked, or all of the old ones if none was selected; but a *)
(* destination that was linked stays only if it is selected by its         *)
(* canonical id, another spelling of which unlinks it.                     *)
EditLandsSelection ==
  [][\A h \in Handlers :
       LET c == task[h].call IN
       /\ c.op = "edit" /\ task[h].pc = "detach" /\ task'[h].reply = "ok"
       /\ c.id \in Live
       => {d \in Dests : <<c.id, d>> \in links'}
            = IF c.dests = {} THEN task[h].seen
              ELSE Ids(c.dests) \ (task[h].seen \ c.dests)]_vars

(* A call that is refused leaves nothing behind, also when the refusal     *)
(* comes from the database in the middle of a transaction: what the call   *)
(* inserted is gone, and what others see has not changed.                  *)
RefusalLeavesNothing ==
  [][\A h \in Handlers :
       task'[h] # task[h] /\ task'[h].reply \in {"invalid", "conflict", "forbidden"} =>
         /\ Live' = Live /\ \A i \in Live : row'[i] = row[i] /\ LinksOf(i)' = LinksOf(i)
         /\ \A i \in task[h].mine : phase'[i] = "unborn" /\ LinksOf(i)' = {}]_vars

(* Every call is answered: waits for uncommitted rows end, those of two    *)
(* batches for each other too.                                             *)
EveryCallAnswered ==
  \A h \in Handlers : task[h].pc # "idle" ~> task[h].pc = "idle"

-----------------------------------------------------------------------------
(* The board as its readers see it: committed rows and their links.        *)
Board ==
  INSTANCE Catalogue
    WITH entries <- [i \in ReqIds |-> IF i \in Live THEN row[i] ELSE NoRow],
         withdrawn <- {i \in ReqIds : phase[i] = "gone"},
         tags <- {l \in links : l[1] \in Live},
         servers <- destPhase

(* Handlers, transactions and their failures implement the catalogue.      *)
ImplementsCatalogue == Board!CSpec
=============================================================================
