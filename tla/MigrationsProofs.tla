-------------------------- MODULE MigrationsProofs --------------------------
(***************************************************************************)
(* What migrations do to the board, for any number of commands, requests,  *)
(* names and destinations, and from any database an earlier release left.  *)
(***************************************************************************)
EXTENDS MigrationsProperties, TLAPS

USE MigrationAssumption DEF Last

LEMMA InitInv == Init => MigrationsOK
BY DEF Init, MigrationsOK, LedgerOK, RowsOK, There, HasDuplicates, Duplicates, Migrating, Places,
       DestsOf

(* Steps that leave the rows and the schema alone.                         *)
LEMMA RowsKept ==
  ASSUME RowsOK, UNCHANGED <<schema, rows>>
  PROVE  RowsOK'
BY DEF RowsOK, rows, There, HasDuplicates, Duplicates, DestsOf

(* Steps of one command outside the migrations, or that move it there.     *)
LEMMA LedgerKept ==
  ASSUME LedgerOK, NEW p \in Procs, NEW s \in Places \ Migrating,
         pc[p] \notin Migrating, Goto(p, s), UNCHANGED <<version, dirty, schema, lock>>
  PROVE  LedgerOK'
BY DEF LedgerOK, Goto, Migrating, Places

(* Giving the lock back leaves the ledger as it is.                        *)
LEMMA LockGiven ==
  ASSUME LedgerOK, NEW p \in Procs, NEW s \in Places \ Migrating, lock = p,
         Goto(p, s), lock' = None, UNCHANGED <<version, dirty, schema>>
  PROVE  LedgerOK'
BY DEF LedgerOK, Goto, Migrating, Places

-----------------------------------------------------------------------------
(* A file that applies keeps the shape of the rows, and what they show.    *)
LEMMA ApplyKeeps ==
  ASSUME RowsOK, NEW v \in 1 .. Last, v = schema + 1, schema \in 0 .. Last,
         Applies(v), Apply(v)
  PROVE  /\ RowsOK'
         /\ key' = key /\ schema' = v
         /\ \A r \in Requests : DestsOf(r)' = DestsOf(r)
<1>1. key' = key /\ schema' = v /\ place' = place
  BY DEF Apply
<1>2. v >= 7 => ~HasDuplicates
  BY DEF Applies, RowsOK
<1>3. ~HasDuplicates => ~HasDuplicates'
  BY <1>1 DEF HasDuplicates, Duplicates, There
<1>4. CASE v = 6
  <2>1. /\ links' = {l \in Requests \X Dests : There(l[1]) /\ column[l[1]] = l[2]}
        /\ column' = [r \in Requests |-> None]
    BY <1>4 DEF Apply, Junction
  <2>2. \A r \in Requests : DestsOf(r)' = DestsOf(r)
    <3> TAKE r \in Requests
    <3>1. DestsOf(r) = {column[r]} \ {None} /\ column[r] \in Dests \cup {None}
      BY <1>4 DEF DestsOf, RowsOK
    <3>2. DestsOf(r)' = {d \in Dests : <<r, d>> \in links'}
      BY <1>1, <1>4 DEF DestsOf
    <3>3. \A d \in Dests : <<r, d>> \in links' <=> There(r) /\ column[r] = d
      BY <2>1
    <3>4. ~There(r) => DestsOf(r) = {}
      BY DEF RowsOK
    <3> QED BY <3>1, <3>2, <3>3, <3>4
  <2>3. \A r \in Requests : ~There(r)' => DestsOf(r)' = {}
    BY <1>1, <2>2 DEF RowsOK, There
  <2> QED BY <1>1, <1>4, <2>1, <2>2, <2>3 DEF RowsOK
<1>5. CASE v # 6
  <2>1. links' = links /\ column' = column
    BY <1>5 DEF Apply
  <2>2. \A r \in Requests : DestsOf(r)' = DestsOf(r)
    BY <1>1, <1>5, <2>1 DEF DestsOf
  <2>3. \A r \in Requests : ~There(r)' => DestsOf(r)' = {}
    BY <1>1, <2>2 DEF RowsOK, There
  <2> QED BY <1>1, <1>2, <1>3, <1>5, <2>1, <2>2, <2>3 DEF RowsOK
<1> QED BY <1>4, <1>5

(* A file is run by the command with the lock, on the schema before it.    *)
LEMMA RunFileInv ==
  ASSUME MigrationsOK, NEW p \in Procs, RunFile(p)
  PROVE  /\ MigrationsOK'
         /\ schema' # schema => key' = key /\ \A r \in Requests : DestsOf(r)' = DestsOf(r)
<1>1. /\ version = schema + 1 /\ version \in 1 .. Last /\ dirty /\ lock = p
      /\ schema \in 0 .. Last
  <2>1. version = schema + 1 /\ dirty /\ lock = p /\ schema \in 0 .. Last
    BY DEF MigrationsOK, LedgerOK, RunFile, Migrating
  <2>2. version <= Last
    BY DEF MigrationsOK, LedgerOK
  <2> QED BY <2>1, <2>2
<1>2. CASE Applies(version)
  <2>1. /\ Apply(version) /\ Goto(p, "clean")
        /\ UNCHANGED <<version, dirty, lock>>
    BY <1>2 DEF RunFile, ledger
  <2>2. /\ RowsOK' /\ key' = key /\ schema' = version
        /\ \A r \in Requests : DestsOf(r)' = DestsOf(r)
    BY <1>1, <1>2, <2>1, ApplyKeeps DEF MigrationsOK
  <2>3. LedgerOK'
    BY <1>1, <2>1, <2>2 DEF MigrationsOK, LedgerOK, Goto, Migrating, Places
  <2> QED BY <2>2, <2>3 DEF MigrationsOK
<1>3. CASE ~Applies(version)
  <2>1. Goto(p, "idle") /\ lock' = None /\ UNCHANGED <<version, dirty, schema, rows>>
    BY <1>3 DEF RunFile, ledger
  <2> QED BY <1>1, <2>1, RowsKept, LockGiven DEF MigrationsOK, Migrating, Places
<1> QED BY <1>2, <1>3
-----------------------------------------------------------------------------
LEMMA CommandInv ==
  ASSUME MigrationsOK, NEW p \in Procs, Command(p)
  PROVE  /\ MigrationsOK'
         /\ schema' # schema => key' = key /\ \A r \in Requests : DestsOf(r)' = DestsOf(r)
<1>0. LedgerOK /\ RowsOK
  BY DEF MigrationsOK
<1> USE DEF ledger
<1>1. CASE StartInit(p)
  BY <1>0, <1>1, RowsKept, LedgerKept DEF StartInit, MigrationsOK, Migrating, Places
<1>2. CASE TakeLock(p)
  <2>1. LedgerOK'
    BY <1>0, <1>2 DEF TakeLock, LedgerOK, Goto, Migrating, Places
  <2> QED BY <1>0, <1>2, <2>1, RowsKept DEF TakeLock, MigrationsOK
<1>3. CASE LockTimeout(p)
  BY <1>0, <1>3, RowsKept, LedgerKept DEF LockTimeout, MigrationsOK, Migrating, Places
<1>4. CASE MigrateUp(p)
  <2>1. lock = p /\ UNCHANGED <<schema, rows>> /\ (version = schema \/ dirty)
    BY <1>0, <1>4 DEF LedgerOK, MigrateUp, Migrating
  <2>2. CASE dirty \/ version = Last
    <3>1. PICK s \in {"idle", "list"} :
            Goto(p, s) /\ lock' = None /\ UNCHANGED <<version, dirty, schema, rows>>
      BY <1>4, <2>2 DEF MigrateUp
    <3>2. lock = p
      BY <1>0, <1>4 DEF LedgerOK, MigrateUp, Migrating
    <3> QED BY <1>0, <3>1, <3>2, RowsKept, LockGiven DEF MigrationsOK, Migrating, Places
  <2>3. CASE ~dirty /\ version # Last
    <3>1. /\ Goto(p, "run") /\ version' = version + 1 /\ dirty' = TRUE
          /\ UNCHANGED <<lock, schema, rows>> /\ pc[p] = "read"
      BY <1>4, <2>3 DEF MigrateUp
    <3>2. LedgerOK'
      BY <1>0, <2>3, <3>1 DEF LedgerOK, Goto, Migrating, Places
    <3> QED BY <1>0, <3>1, <3>2, RowsKept DEF MigrationsOK
  <2> QED BY <2>2, <2>3
<1>5. CASE RunFile(p)
  BY <1>5, RunFileInv
<1>6. CASE MarkClean(p)
  <2>1. LedgerOK'
    BY <1>0, <1>6 DEF MarkClean, LedgerOK, Goto, Migrating, Places
  <2> QED BY <1>0, <1>6, <2>1, RowsKept DEF MarkClean, MigrationsOK
<1>7. CASE ListUsers(p)
  <2>1. PICK s \in {"idle", "create"} : Goto(p, s)
    BY <1>7 DEF ListUsers
  <2> QED BY <1>0, <1>7, <2>1, RowsKept, LedgerKept DEF ListUsers, MigrationsOK, Migrating, Places
<1>8. CASE CreateAdmin(p)
  BY <1>0, <1>8, RowsKept, LedgerKept DEF CreateAdmin, MigrationsOK, Migrating, Places
<1>9. CASE StartCreateUser(p)
  BY <1>0, <1>9, RowsKept, LedgerKept DEF StartCreateUser, MigrationsOK, Migrating, Places
<1>10. CASE InsertUser(p)
  BY <1>0, <1>10, RowsKept, LedgerKept DEF InsertUser, MigrationsOK, Migrating, Places
<1>11. CASE Serve(p)
  BY <1>0, <1>11, RowsKept, LedgerKept DEF Serve, MigrationsOK, Migrating, Places
<1>12. CASE Fail(p)
  <2>1. CASE lock = p
    BY <1>0, <1>12, <2>1, RowsKept, LockGiven DEF Fail, MigrationsOK, Migrating, Places
  <2>2. CASE lock # p
    <3>1. pc[p] \notin Migrating
      BY <1>0, <2>2 DEF LedgerOK
    <3> QED BY <1>0, <1>12, <2>2, <3>1, RowsKept, LedgerKept DEF Fail, MigrationsOK, Migrating, Places
  <2> QED BY <2>1, <2>2
<1>13. ASSUME NEW r \in Requests, AddRequest(p, r)
       PROVE  MigrationsOK' /\ schema' = schema
  <2>1. PICK k \in Keys : /\ \A s \in Requests : key[s] # k
                          /\ key' = [key EXCEPT ![r] = k]
    BY <1>13 DEF AddRequest
  <2>2. /\ UNCHANGED <<version, dirty, schema, lock, pc, column, links, place>>
        /\ schema = Last
    BY <1>13 DEF AddRequest, CanCall
  <2>3. LedgerOK'
    BY <1>0, <2>2 DEF LedgerOK
  <2>4. \A s \in Requests : key'[s] = IF s = r THEN k ELSE key[s]
    BY <1>0, <2>1 DEF RowsOK
  <2>5. ~HasDuplicates'
    BY <1>0, <2>1, <2>2, <2>4 DEF RowsOK, HasDuplicates, Duplicates, There
  <2>6. \A s \in Requests : ~There(s)' => DestsOf(s)' = {}
    <3>1. \A s \in Requests : DestsOf(s)' = DestsOf(s)
      BY <2>2 DEF DestsOf
    <3> QED BY <1>0, <2>4, <3>1 DEF RowsOK, There
  <2>7. key' \in [Requests -> Keys \cup {None}]
    BY <1>0, <2>1 DEF RowsOK
  <2> QED BY <1>0, <2>2, <2>3, <2>5, <2>6, <2>7 DEF MigrationsOK, RowsOK
<1>14. ASSUME NEW r \in Requests, LinkDestination(p, r)
       PROVE  MigrationsOK' /\ schema' = schema
  <2>1. PICK d \in Dests : links' = links \cup {<<r, d>>}
    BY <1>14 DEF LinkDestination
  <2>2. /\ UNCHANGED <<version, dirty, schema, lock, pc, key, column, place>>
        /\ schema = Last /\ There(r)
    BY <1>14 DEF LinkDestination, CanCall
  <2>3. LedgerOK'
    BY <1>0, <2>2 DEF LedgerOK
  <2>4. \A s \in Requests : ~There(s)' => DestsOf(s)' = {}
    <3> SUFFICES ASSUME NEW s \in Requests, ~There(s) PROVE DestsOf(s)' = {}
      BY <2>2 DEF There
    <3>1. s # r
      BY <2>2
    <3>2. DestsOf(s)' = {e \in Dests : <<s, e>> \in links'}
      BY <2>2 DEF DestsOf
    <3>3. {e \in Dests : <<s, e>> \in links} = {}
      BY <1>0, <2>2 DEF DestsOf, RowsOK
    <3>4. \A e \in Dests : <<s, e>> \in links' => <<s, e>> \in links
      BY <2>1, <3>1
    <3> QED BY <3>2, <3>3, <3>4
  <2>5. ~HasDuplicates'
    BY <1>0, <2>2 DEF RowsOK, HasDuplicates, Duplicates, There
  <2> QED BY <1>0, <2>1, <2>2, <2>3, <2>4, <2>5 DEF MigrationsOK, RowsOK
<1> QED BY <1>1, <1>2, <1>3, <1>4, <1>5, <1>6, <1>7, <1>8, <1>9, <1>10, <1>11, <1>12,
           <1>13, <1>14
        DEF Command, StartInit, TakeLock, LockTimeout, MigrateUp, MarkClean, ListUsers,
            CreateAdmin, StartCreateUser, InsertUser, Serve, Fail
-----------------------------------------------------------------------------
(* The operator's steps.                                                   *)
LEMMA StepBackInv ==
  ASSUME MigrationsOK, StepBack
  PROVE  /\ MigrationsOK' /\ schema' < schema /\ key' = key
         /\ \A r \in Requests : /\ DestsOf(r)' \subseteq DestsOf(r)
                                /\ DestsOf(r) # {} => DestsOf(r)' # {}
<1>0. LedgerOK /\ RowsOK
  BY DEF MigrationsOK
<1>1. /\ lock = None /\ ~dirty /\ schema \in 6 .. Last /\ version = schema
      /\ version' = version - 1 /\ schema' = schema - 1
      /\ UNCHANGED <<dirty, key, place, admin, lock, pc>>
  BY <1>0 DEF StepBack, LedgerOK
<1>2. \A p \in Procs : pc[p] \notin Migrating
  BY <1>0, <1>1 DEF LedgerOK
<1>3. LedgerOK'
  BY <1>0, <1>1, <1>2 DEF LedgerOK, Migrating
<1>4. CASE schema = 6
  <2>1. /\ links' = {} /\ column' \in [Requests -> Dests \cup {None}]
        /\ \A r \in Requests :
             IF DestsOf(r) = {} THEN column'[r] = None ELSE column'[r] \in DestsOf(r)
    BY <1>4 DEF StepBack, Unjunction
  <2>2. \A r \in Requests : DestsOf(r)' = {column'[r]} \ {None}
    BY <1>1, <1>4 DEF DestsOf
  <2>3. \A r \in Requests : DestsOf(r) \subseteq Dests
    BY <1>4 DEF DestsOf
  <2>4. \A r \in Requests : /\ DestsOf(r)' \subseteq DestsOf(r)
                            /\ DestsOf(r) # {} => DestsOf(r)' # {}
    BY <2>1, <2>2, <2>3
  <2>5. RowsOK'
    BY <1>0, <1>1, <1>4, <2>1, <2>4 DEF RowsOK, There
  <2> QED BY <1>1, <1>3, <2>4, <2>5 DEF MigrationsOK
<1>5. CASE schema # 6
  <2>1. UNCHANGED <<links, column>> /\ schema' >= 6
    BY <1>1, <1>5 DEF StepBack
  <2>2. \A r \in Requests : DestsOf(r)' = DestsOf(r)
    BY <1>1, <2>1 DEF DestsOf
  <2>3. \A r \in Requests : ~There(r)' => DestsOf(r)' = {}
    BY <1>0, <1>1, <2>2 DEF RowsOK, There
  <2>4. schema' >= 7 => ~HasDuplicates'
    <3>1. schema' >= 7 => schema >= 7
      BY <1>1
    <3>2. ~HasDuplicates => ~HasDuplicates'
      BY <1>1 DEF HasDuplicates, Duplicates, There
    <3> QED BY <1>0, <3>1, <3>2 DEF RowsOK
  <2>5. RowsOK'
    BY <1>0, <1>1, <2>1, <2>3, <2>4 DEF RowsOK
  <2> QED BY <1>1, <1>3, <2>2, <2>5 DEF MigrationsOK
<1> QED BY <1>4, <1>5

LEMMA ForceInv ==
  ASSUME MigrationsOK, ForceVersion
  PROVE  MigrationsOK' /\ schema' = schema
<1>1. LedgerOK'
  BY DEF MigrationsOK, LedgerOK, ForceVersion, Migrating
<1> QED BY <1>1, RowsKept DEF MigrationsOK, ForceVersion

LEMMA DeduplicateInv ==
  ASSUME MigrationsOK, Deduplicate
  PROVE  MigrationsOK' /\ schema' = schema
<1>0. LedgerOK /\ RowsOK
  BY DEF MigrationsOK
<1>1. LedgerOK'
  BY <1>0 DEF LedgerOK, Deduplicate, ledger
<1>2. /\ schema' = schema /\ schema < 7
      /\ key' = [r \in Requests |-> IF Redundant(r) THEN None ELSE key[r]]
      /\ column' = [r \in Requests |-> IF Redundant(r) THEN None ELSE column[r]]
      /\ links' = {l \in links : ~Redundant(l[1])}
  BY <1>0 DEF Deduplicate, RowsOK, LedgerOK
<1>3. /\ key' \in [Requests -> Keys \cup {None}]
      /\ column' \in [Requests -> Dests \cup {None}]
      /\ links' \subseteq links
  BY <1>0, <1>2 DEF RowsOK
<1>4. \A r \in Requests : schema >= 6 => column'[r] = None
  BY <1>0, <1>2 DEF RowsOK
<1>5. ASSUME NEW r \in Requests, ~There(r)'
      PROVE  DestsOf(r)' = {}
  <2>1. CASE schema < 6
    <3>1. Redundant(r) \/ ~There(r)
      BY <1>2, <1>5 DEF There
    <3>2. ~There(r) => column[r] = None
      BY <1>0, <2>1 DEF RowsOK, DestsOf
    <3>3. column'[r] = None
      BY <1>2, <3>1, <3>2
    <3> QED BY <1>2, <2>1, <3>3 DEF DestsOf
  <2>2. CASE schema >= 6
    <3>1. \A d \in Dests : <<r, d>> \in links' => <<r, d>> \in links /\ ~Redundant(r)
      BY <1>2
    <3>2. Redundant(r) \/ ~There(r)
      BY <1>2, <1>5 DEF There
    <3>3. ~There(r) => \A d \in Dests : <<r, d>> \notin links
      BY <1>0, <2>2 DEF RowsOK, DestsOf, LedgerOK
    <3>4. \A d \in Dests : <<r, d>> \notin links'
      BY <3>1, <3>2, <3>3
    <3>5. DestsOf(r)' = {d \in Dests : <<r, d>> \in links'}
      BY <1>0, <1>2, <2>2 DEF DestsOf, LedgerOK
    <3> QED BY <3>4, <3>5
  <2> QED BY <1>0, <2>1, <2>2 DEF LedgerOK
<1>6. RowsOK'
  <2>1. schema' >= 7 => ~HasDuplicates'
    BY <1>0, <1>2 DEF LedgerOK
  <2>2. schema' < 6 => links' = {}
    BY <1>0, <1>2, <1>3 DEF RowsOK
  <2>3. links' \subseteq Requests \X Dests
    BY <1>0, <1>3 DEF RowsOK
  <2>4. \A r \in Requests : schema' >= 6 => column'[r] = None
    BY <1>2, <1>4
  <2> QED BY <1>3, <1>5, <2>1, <2>2, <2>3, <2>4 DEF RowsOK
<1> QED BY <1>1, <1>2, <1>6 DEF MigrationsOK

LEMMA NextInv == MigrationsOK /\ [Next]_vars => MigrationsOK'
<1> SUFFICES ASSUME MigrationsOK, [Next]_vars PROVE MigrationsOK'
  OBVIOUS
<1>1. CASE Next
  BY <1>1, CommandInv, StepBackInv, ForceInv, DeduplicateInv DEF Next
<1>2. CASE UNCHANGED vars
  BY <1>2, RowsKept DEF vars, rows, MigrationsOK, LedgerOK
<1> QED BY <1>1, <1>2

-----------------------------------------------------------------------------
(* The ledger and the schema fit and the rows have the shape of the schema,*)
(* whatever commands run and crash: RunMigrations under the library's lock.*)
THEOREM MigrationsInvariant == Spec => []MigrationsOK
BY InitInv, NextInv, PTL DEF Spec

(* Migrations 001 to 009 keep every request, name and destination.         *)
THEOREM PreserveTheorem == Spec => MigrationsPreserve
<1>1. MigrationsOK /\ [Next]_vars =>
        [schema' > schema =>
           key' = key /\ \A r \in Requests : DestsOf(r)' = DestsOf(r)]_vars
  <2> SUFFICES ASSUME MigrationsOK, Next, schema' > schema
               PROVE  key' = key /\ \A r \in Requests : DestsOf(r)' = DestsOf(r)
    OBVIOUS
  <2>0. schema \in Nat /\ schema' \in Nat
    BY NextInv DEF MigrationsOK, LedgerOK
  <2> QED BY <2>0, CommandInv, StepBackInv, ForceInv, DeduplicateInv DEF Next
<1> QED BY <1>1, InitInv, NextInv, PTL DEF Spec, MigrationsPreserve

(* The down files keep every request and name, and of each request that    *)
(* has destinations one of them.                                           *)
THEOREM StepBackTheorem == Spec => StepBackKeepsOne
<1>1. MigrationsOK /\ [Next]_vars =>
        [schema' < schema =>
           /\ key' = key
           /\ \A r \in Requests :
                /\ DestsOf(r)' \subseteq DestsOf(r)
                /\ DestsOf(r) # {} => DestsOf(r)' # {}]_vars
  <2> SUFFICES ASSUME MigrationsOK, Next, schema' < schema
               PROVE  /\ key' = key
                      /\ \A r \in Requests :
                           /\ DestsOf(r)' \subseteq DestsOf(r)
                           /\ DestsOf(r) # {} => DestsOf(r)' # {}
    OBVIOUS
  <2>0. schema \in Nat /\ schema' \in Nat
    BY NextInv DEF MigrationsOK, LedgerOK
  <2>1. CASE StepBack
    BY <2>1, StepBackInv
  <2>2. CASE \E p \in Procs : Command(p)
    BY <2>0, <2>2, CommandInv
  <2> QED BY <2>0, <2>1, <2>2, ForceInv, DeduplicateInv DEF Next
<1> QED BY <1>1, InitInv, NextInv, PTL DEF Spec, StepBackKeepsOne

-----------------------------------------------------------------------------
(* An older schema with an admin has an excuse, and so has the admin init  *)
(* is about to make: it makes one of the newest schema only.               *)
Excused ==
  /\ admin /\ schema # Last => excuses # {}
  /\ \A p \in Procs : pc[p] = "create" /\ schema # Last => excuses # {}

LEMMA InitExcused == Init => Excused
BY DEF Init, Excused

(* Steps that make no admin, send none to make one and step nothing back.  *)
LEMMA ExcusedKept ==
  ASSUME LedgerOK, Excused, NEW p \in Procs, NEW s \in Places \ {"create"},
         Goto(p, s), UNCHANGED <<admin, excuses>>, schema' = schema \/ schema # Last
  PROVE  Excused'
BY DEF LedgerOK, Excused, Goto

LEMMA CommandExcused ==
  ASSUME MigrationsOK, Excused, NEW p \in Procs, Command(p)
  PROVE  Excused'
<1>0. LedgerOK
  BY DEF MigrationsOK
<1>1. CASE StartInit(p)
  BY <1>0, <1>1, ExcusedKept DEF StartInit, Places
<1>2. CASE TakeLock(p)
  BY <1>0, <1>2, ExcusedKept DEF TakeLock, Places, Migrating
<1>3. CASE LockTimeout(p)
  BY <1>0, <1>3, ExcusedKept DEF LockTimeout, Places
<1>4. CASE MigrateUp(p)
  BY <1>0, <1>4, ExcusedKept DEF MigrateUp, Places, Migrating
<1>5. CASE RunFile(p)
  <2>1. schema # Last
    BY <1>0, <1>5 DEF RunFile, LedgerOK
  <2> QED BY <1>0, <1>5, <2>1, ExcusedKept DEF RunFile, Places, Migrating
<1>6. CASE MarkClean(p)
  BY <1>0, <1>6, ExcusedKept DEF MarkClean, Places, Migrating
<1>7. CASE ListUsers(p)
  <2>1. CASE schema = Last
    BY <1>7, <2>1 DEF ListUsers, Excused
  <2>2. CASE schema # Last
    BY <1>0, <1>7, <2>2, ExcusedKept DEF ListUsers, Places
  <2> QED BY <2>1, <2>2
<1>8. CASE CreateAdmin(p)
  <2>1. schema # Last => excuses # {}
    BY <1>8 DEF CreateAdmin, Excused
  <2> QED BY <1>8, <2>1 DEF CreateAdmin, Excused
<1>9. CASE StartCreateUser(p)
  BY <1>0, <1>9, ExcusedKept DEF StartCreateUser, Places
<1>10. CASE InsertUser(p)
  <2>1. CASE schema \in 1 .. Last - 1
    BY <1>10, <2>1 DEF InsertUser, Excused
  <2>2. CASE schema = 0
    <3>0. ~(schema >= 1) /\ UNCHANGED <<schema, excuses>>
      BY <1>10, <2>2 DEF InsertUser
    <3>1. admin' => admin
      BY <1>10, <3>0, Zenon DEF InsertUser
    <3>2. \A q \in Procs : pc'[q] = "create" => pc[q] = "create"
      BY <1>0, <1>10 DEF InsertUser, Goto, LedgerOK
    <3> QED BY <3>0, <3>1, <3>2 DEF Excused
  <2>3. CASE schema = Last
    BY <1>10, <2>3 DEF InsertUser, Excused
  <2> QED BY <1>0, <2>1, <2>2, <2>3 DEF LedgerOK
<1>11. CASE Serve(p)
  BY <1>0, <1>11, ExcusedKept DEF Serve, Places
<1>12. CASE Fail(p)
  BY <1>0, <1>12, ExcusedKept DEF Fail, Places
<1>13. CASE \E r \in Requests : AddRequest(p, r) \/ LinkDestination(p, r)
  BY <1>13 DEF AddRequest, LinkDestination, Excused
<1> QED
  BY <1>1, <1>2, <1>3, <1>4, <1>5, <1>6, <1>7, <1>8, <1>9, <1>10, <1>11, <1>12, <1>13
     DEF Command

LEMMA NextExcused == MigrationsOK /\ Excused /\ [Next]_vars => Excused'
<1> SUFFICES ASSUME MigrationsOK, Excused, [Next]_vars PROVE Excused'
  OBVIOUS
<1>1. CASE StepBack
  BY <1>1 DEF StepBack, Excused
<1>2. CASE ForceVersion \/ Deduplicate
  BY <1>2 DEF ForceVersion, Deduplicate, Excused, rows
<1>3. CASE UNCHANGED vars
  BY <1>3 DEF vars, Excused
<1> QED BY <1>1, <1>2, <1>3, CommandExcused DEF Next

(* A command that starts to serve has found an admin, so on an older       *)
(* schema there is an excuse: IsInitialized and what init does last.       *)
LEMMA ServeStarts ==
  ASSUME MigrationsOK, Excused, Next, NEW p \in Procs,
         pc[p] # "serving", pc'[p] = "serving"
  PROVE  schema = Last \/ excuses # {}
<1>0. LedgerOK
  BY DEF MigrationsOK
<1>1. pc' # pc
  OBVIOUS
<1>2. PICK q \in Procs : Command(q)
  BY <1>1 DEF Next, StepBack, ForceVersion, Deduplicate
<1>3. Serve(q)
  BY <1>0, <1>1, <1>2
     DEF Command, StartInit, TakeLock, LockTimeout, MigrateUp, RunFile, MarkClean, ListUsers,
         CreateAdmin, StartCreateUser, InsertUser, Fail, AddRequest, LinkDestination, Goto,
         LedgerOK
<1> QED BY <1>3 DEF Serve, IsInitialized, Excused

(* serve starts on an unfinished schema only where an earlier release, the *)
(* operator or create-user has left one with an admin.                     *)
THEOREM ServeTheorem == Spec => ServeExcused
<1>1. MigrationsOK /\ Excused /\ [Next]_vars =>
        [\A p \in Procs :
           pc[p] # "serving" /\ pc'[p] = "serving" => schema = Last \/ excuses # {}]_vars
  BY ServeStarts
<1> QED
  BY <1>1, InitInv, NextInv, InitExcused, NextExcused, PTL DEF Spec, ServeExcused
=============================================================================
