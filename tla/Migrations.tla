----------------------------- MODULE Migrations -----------------------------
(***************************************************************************)
(* The schema of the database and the commands that meet it in any state:  *)
(* init, which runs the migrations and makes the first admin, create-user, *)
(* and serve, which only looks whether there is an admin.  The operator    *)
(* can step a migration back with its down file, remove duplicates with    *)
(* the statement noted in migration 007 and tell the library that a failed *)
(* migration is dealt with.                                                *)
(*                                                                         *)
(* golang-migrate is external: it takes an advisory lock, marks a version  *)
(* as dirty, runs its file in one implicit transaction and marks it clean. *)
(* Of the data, the requests' names and destinations are modelled.         *)
(***************************************************************************)
EXTENDS Naturals

CONSTANTS
  Procs,     \* commands that run at the same time
  Requests,  \* requests, numbers in the order of their creation
  Keys,      \* folded names
  Dests,     \* server destinations
  Versions,  \* the versions that earlier releases have left a database at
  None       \* no row, SQL NULL, nobody

Last == 9

ASSUME MigrationAssumption ==
  /\ Requests \subseteq Nat
  /\ Versions \subseteq 0 .. Last
  /\ None \notin Keys \cup Dests \cup Procs

VARIABLES
  version,  \* schema_migrations, the version
  dirty,    \* and its dirty flag
  schema,   \* how many of the files have really been applied
  key,      \* request -> its folded name
  column,   \* request -> server_destination_id, up to migration 006
  links,    \* request_server_destinations, from migration 006 on
  place,    \* request -> where its row is stored, the order of ctid
  admin,    \* users has an admin
  lock,     \* who has the advisory lock
  pc,       \* command -> what it does
  excuses   \* how the schema came to be older than the program

vars == <<version, dirty, schema, key, column, links, place, admin, lock, pc, excuses>>
rows == <<key, column, links, place>>
ledger == <<version, dirty>>

Migrating == {"read", "run", "clean"}
Places == {"idle", "lock", "list", "create", "insert", "reread", "serving"} \cup Migrating

There(r) == key[r] # None
Duplicates(r, s) == r # s /\ There(r) /\ key[r] = key[s]
HasDuplicates == \E r, s \in Requests : Duplicates(r, s)

(* The destinations the board shows of a request, under either schema.     *)
DestsOf(r) ==
  IF schema < 6 THEN {column[r]} \ {None} ELSE {d \in Dests : <<r, d>> \in links}

Goto(p, s) == pc' = [pc EXCEPT ![p] = s]

-----------------------------------------------------------------------------
(* The files                                                               *)

(* 006 up moves the column into the junction table and drops it.           *)
(* Mutant: without moving.                                                 *)
Junction_Empty == links' = {} /\ column' = [r \in Requests |-> None]
Junction ==
  /\ links' = {l \in Requests \X Dests : There(l[1]) /\ column[l[1]] = l[2]}
  /\ column' = [r \in Requests |-> None]

(* 006 down takes the first of each request's destinations.                *)
(* Mutant: the first of all.                                               *)
Unjunction_Any ==
  /\ links' = {}
  /\ column' \in [Requests -> {l[2] : l \in links} \cup {None}]
  /\ \A r \in Requests : column'[r] = None <=> ~There(r) \/ links = {}
Unjunction ==
  /\ links' = {}
  /\ column' \in [Requests -> Dests \cup {None}]
  /\ \A r \in Requests :
       IF DestsOf(r) = {} THEN column'[r] = None ELSE column'[r] \in DestsOf(r)

(* 007 up cannot make its unique index over duplicates.                    *)
(* Mutant: an index that is not unique.                                    *)
Applies_Always(v) == TRUE
Applies(v) == v = 7 => ~HasDuplicates

Apply(v) ==
  /\ IF v = 6 THEN Junction ELSE UNCHANGED <<links, column>>
  /\ schema' = v
  /\ UNCHANGED <<key, place>>

-----------------------------------------------------------------------------
(* init                                                                    *)

StartInit(p) ==
  /\ pc[p] = "idle" /\ Goto(p, "lock")
  /\ UNCHANGED <<ledger, schema, rows, admin, lock, excuses>>

(* Mutant: the lock is not waited for.                                     *)
TakeLock_Shared(p) ==
  /\ pc[p] = "lock"
  /\ lock' = p /\ Goto(p, "read")
  /\ UNCHANGED <<ledger, schema, rows, admin, excuses>>

TakeLock(p) ==
  /\ pc[p] = "lock" /\ lock = None
  /\ lock' = p /\ Goto(p, "read")
  /\ UNCHANGED <<ledger, schema, rows, admin, excuses>>

(* After fifteen seconds.                                                  *)
LockTimeout(p) ==
  /\ pc[p] = "lock" /\ lock # None
  /\ Goto(p, "idle")
  /\ UNCHANGED <<ledger, schema, rows, admin, lock, excuses>>

(* Up, and what RunMigrations makes of its errors: a dirty version is one, *)
(* to have nothing to do is none.                                          *)
MigrateUp(p) ==
  /\ pc[p] = "read"
  /\ IF dirty THEN Goto(p, "idle") /\ lock' = None /\ UNCHANGED ledger
     ELSE IF version = Last THEN Goto(p, "list") /\ lock' = None /\ UNCHANGED ledger
     ELSE Goto(p, "run") /\ version' = version + 1 /\ dirty' = TRUE /\ UNCHANGED lock
  /\ UNCHANGED <<schema, rows, admin, excuses>>

RunFile(p) ==
  /\ pc[p] = "run"
  /\ IF Applies(version)
     THEN Apply(version) /\ Goto(p, "clean") /\ UNCHANGED lock
     ELSE Goto(p, "idle") /\ lock' = None /\ UNCHANGED <<schema, rows>>
  /\ UNCHANGED <<ledger, admin, excuses>>

MarkClean(p) ==
  /\ pc[p] = "clean"
  /\ dirty' = FALSE /\ Goto(p, "read")
  /\ UNCHANGED <<version, schema, rows, admin, lock, excuses>>

(* userRepo.List reads a column of migration 009.                          *)
ListUsers(p) ==
  /\ pc[p] = "list"
  /\ Goto(p, IF schema = Last /\ ~admin THEN "create" ELSE "idle")
  /\ UNCHANGED <<ledger, schema, rows, admin, lock, excuses>>

CreateAdmin(p) ==
  /\ pc[p] = "create"
  /\ Goto(p, "idle")
  /\ admin' = (admin \/ schema >= 1)
  /\ UNCHANGED <<ledger, schema, rows, lock, excuses>>

-----------------------------------------------------------------------------
(* create-user --role admin, and serve                                     *)

StartCreateUser(p) ==
  /\ pc[p] = "idle" /\ Goto(p, "insert")
  /\ UNCHANGED <<ledger, schema, rows, admin, lock, excuses>>

(* The row is there even when reading it again fails on an older schema.   *)
InsertUser(p) ==
  /\ pc[p] = "insert"
  /\ Goto(p, "idle")
  /\ admin' = (admin \/ schema >= 1)
  /\ excuses' = IF schema \in 1 .. Last - 1 THEN excuses \cup {"create-user"} ELSE excuses
  /\ UNCHANGED <<ledger, schema, rows, lock>>

(* Mutant: the table is enough.                                            *)
IsInitialized_NoAdmin == schema >= 1
IsInitialized == schema >= 1 /\ admin

Serve(p) ==
  /\ pc[p] = "idle" /\ IsInitialized
  /\ Goto(p, "serving")
  /\ UNCHANGED <<ledger, schema, rows, admin, lock, excuses>>

(* What a session can do: the middleware reads a column of migration 009,  *)
(* and without it nobody is logged in.                                     *)
CanCall(p) == pc[p] = "serving" /\ schema = Last

AddRequest(p, r) ==
  /\ CanCall(p) /\ ~There(r)
  /\ \E k \in Keys :
       /\ \A s \in Requests : key[s] # k
       /\ key' = [key EXCEPT ![r] = k]
  /\ UNCHANGED <<ledger, schema, column, links, place, admin, lock, pc, excuses>>

LinkDestination(p, r) ==
  /\ CanCall(p) /\ There(r)
  /\ \E d \in Dests : links' = links \cup {<<r, d>>}
  /\ UNCHANGED <<ledger, schema, key, column, place, admin, lock, pc, excuses>>

-----------------------------------------------------------------------------
(* The operator, and failures                                              *)

(* One of the down files that keep the tables: 009 to 006.                 *)
StepBack ==
  /\ lock = None /\ ~dirty /\ schema >= 6
  /\ version' = version - 1 /\ schema' = schema - 1
  /\ IF schema = 6 THEN Unjunction ELSE UNCHANGED <<links, column>>
  /\ excuses' = excuses \cup {"down"}
  /\ UNCHANGED <<dirty, key, place, admin, lock, pc>>

(* migrate force, with the version that is really there.                   *)
ForceVersion ==
  /\ lock = None /\ dirty
  /\ version' = schema /\ dirty' = FALSE
  /\ UNCHANGED <<schema, rows, admin, lock, pc, excuses>>

(* DELETE ... WHERE a.ctid > b.ctid AND LOWER(a.name) = LOWER(b.name).     *)
Redundant(a) == \E b \in Requests : key[a] = key[b] /\ place[a] > place[b]

Deduplicate ==
  /\ schema \in 4 .. Last /\ HasDuplicates
  /\ key' = [r \in Requests |-> IF Redundant(r) THEN None ELSE key[r]]
  /\ column' = [r \in Requests |-> IF Redundant(r) THEN None ELSE column[r]]
  /\ links' = {l \in links : ~Redundant(l[1])}
  /\ UNCHANGED <<ledger, schema, place, admin, lock, pc, excuses>>

(* A command fails or its process ends, and its lock goes with it.         *)
Fail(p) ==
  /\ pc[p] # "idle" /\ Goto(p, "idle")
  /\ lock' = IF lock = p THEN None ELSE lock
  /\ UNCHANGED <<ledger, schema, rows, admin, excuses>>

(* A database as an earlier release has left it.  Updates move rows, so    *)
(* that their places say nothing of their age.                             *)
Init ==
  /\ version \in Versions /\ schema = version /\ dirty = FALSE
  /\ key \in [Requests -> Keys \cup {None}]
  /\ column \in [Requests -> Dests \cup {None}]
  /\ links \in SUBSET (Requests \X Dests)
  /\ place \in [Requests -> Requests]
  /\ admin \in BOOLEAN
  /\ \A r, s \in Requests : r # s => place[r] # place[s]
  /\ \A r \in Requests : (version < 4 => ~There(r)) /\ (~There(r) => DestsOf(r) = {})
  /\ version >= 7 => ~HasDuplicates
  /\ version < 6 => links = {}
  /\ version >= 6 => \A r \in Requests : column[r] = None
  /\ version = 0 => ~admin
  /\ lock = None
  /\ pc = [p \in Procs |-> "idle"]
  /\ excuses = IF admin /\ version < Last THEN {"upgrade"} ELSE {}

Command(p) ==
  \/ StartInit(p) \/ TakeLock(p) \/ LockTimeout(p) \/ MigrateUp(p) \/ RunFile(p)
  \/ MarkClean(p) \/ ListUsers(p) \/ CreateAdmin(p)
  \/ StartCreateUser(p) \/ InsertUser(p) \/ Serve(p) \/ Fail(p)
  \/ \E r \in Requests : AddRequest(p, r) \/ LinkDestination(p, r)

Next == StepBack \/ ForceVersion \/ Deduplicate \/ \E p \in Procs : Command(p)

Spec == Init /\ [][Next]_vars
=============================================================================
