------------------------ MODULE MigrationsProperties ------------------------
(***************************************************************************)
(* What migrations do to the board, and what the commands can rely on.     *)
(***************************************************************************)
EXTENDS Migrations

(* The ledger of the migrations and the schema fit: files are applied in   *)
(* order, each once, by the command with the lock; a dirty version is one  *)
(* whose file may or may not have been applied.                            *)
LedgerOK ==
  /\ version \in 0 .. Last /\ schema \in 0 .. Last /\ dirty \in BOOLEAN
  /\ version = schema \/ (dirty /\ version = schema + 1)
  /\ lock \in Procs \cup {None} /\ pc \in [Procs -> Places]
  /\ \A p \in Procs : pc[p] \in Migrating <=> lock = p
  /\ \A p \in Procs : pc[p] = "run" => dirty /\ version = schema + 1
  /\ \A p \in Procs : pc[p] = "clean" => dirty /\ version = schema

(* The rows have the shape of the schema: names unique from migration 007  *)
(* on, destinations in the column before 006 and in the table after it.    *)
RowsOK ==
  /\ key \in [Requests -> Keys \cup {None}]
  /\ column \in [Requests -> Dests \cup {None}]
  /\ links \subseteq Requests \X Dests
  /\ schema >= 7 => ~HasDuplicates
  /\ schema < 6 => links = {}
  /\ schema >= 6 => \A r \in Requests : column[r] = None
  /\ \A r \in Requests : ~There(r) => DestsOf(r) = {}

(* Both hold of every state, and keep each other up.                      *)
MigrationsOK == LedgerOK /\ RowsOK

(* No migration changes what the board shows, crash or no crash: the same  *)
(* requests, names and destinations.                                       *)
MigrationsPreserve ==
  [][schema' > schema =>
       key' = key /\ \A r \in Requests : DestsOf(r)' = DestsOf(r)]_vars

(* Stepping back loses no more than it has to: every request that had      *)
(* destinations keeps one of its own.                                      *)
StepBackKeepsOne ==
  [][schema' < schema =>
       /\ key' = key
       /\ \A r \in Requests :
            /\ DestsOf(r)' \subseteq DestsOf(r)
            /\ DestsOf(r) # {} => DestsOf(r)' # {}]_vars

(* serve starts on an unfinished schema only where an earlier release, the *)
(* operator or create-user has left one with an admin: init makes its      *)
(* admin last.                                                             *)
ServeExcused ==
  [][\A p \in Procs :
       pc[p] # "serving" /\ pc'[p] = "serving" => schema = Last \/ excuses # {}]_vars
=============================================================================
