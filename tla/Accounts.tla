------------------------------- MODULE Accounts -------------------------------
(***************************************************************************)
(* User accounts, sessions and invite codes: the handlers behind login,    *)
(* logout, invite redemption and user management, and the commands init,   *)
(* create-user and generate-invite, which use the same database.           *)
(*                                                                         *)
(* Nothing here runs in a transaction: each SQL statement commits by       *)
(* itself and is one step.  An authenticated call works with the user it   *)
(* read when it began.  Answers are left out: no property tells them       *)
(* apart, and a refused call changes nothing.                              *)
(***************************************************************************)
EXTENDS Naturals, FiniteSets

CONSTANTS
  Handlers,  \* goroutines and commands running at the same time
  Users,     \* user UUIDs, drawn fresh
  Sessions,  \* session tokens, drawn fresh
  Codes,     \* invite codes, drawn fresh
  Names,     \* usernames
  Calls,     \* the calls clients and operators make
  None       \* an absent field, or SQL NULL

Roles == {"admin", "mod", "user"}

AdminOps == {"createUser", "updateUser", "generateInvite", "deleteInvite"}
SessionOps == AdminOps \cup {"logout"}
PublicOps == {"login", "redeem"}
Commands == {"init", "create-user", "generate-invite"}

(* session: the token sent along; user: the id in the path; role and       *)
(* disabled: what an update sets, None when the field is not sent.         *)
(* Operations ignore the fields they do not read.                          *)
CallType ==
  [op : SessionOps \cup PublicOps \cup Commands, session : Sessions \cup {None},
   user : Users \cup {None}, name : Names \cup {None}, role : Roles \cup {None},
   disabled : {"yes", "no", None}, code : Codes \cup {None}]

ASSUME AccountAssumption ==
  /\ None \notin Users \cup Sessions \cup Codes \cup Names \cup Roles
  /\ {"unborn", "over"} \cap Users = {}
  /\ Calls \subseteq CallType
  /\ \A c \in Calls :
       /\ c.op \in {"createUser", "create-user", "login", "redeem", "init"} => c.name \in Names
       /\ c.op \in {"createUser", "create-user"} => c.role \in Roles
       /\ c.op = "updateUser" => c.user \in Users
       /\ c.op \in SessionOps => c.session \in Sessions
       /\ c.op \in {"redeem", "deleteInvite"} => c.code \in Codes

VARIABLES
  users,     \* user id -> its row
  sessions,  \* session token -> unborn, the user it belongs to, or over
  codes,     \* invite code -> its row
  task       \* handler -> the call it serves and how far it is

vars == <<users, sessions, codes, task>>

User == [name : Names \cup {None}, role : Roles, disabled : BOOLEAN]
NoUser == [name |-> None, role |-> "user", disabled |-> FALSE]
Code == [phase : {"unborn", "live", "expired", "gone"}, usedBy : Users \cup {None}]

NoCall == [op |-> "login", session |-> None, user |-> None, name |-> None,
           role |-> None, disabled |-> None, code |-> None]

(* user: who is calling, or, from its creation on, the account that the    *)
(* call made or logs in to.                                                *)
Task == [pc : {"idle", "insertUser", "update", "insertCode", "deleteCode",
               "endSession", "mark", "openSession"},
         call : CallType, user : Users \cup {None}]
MakeTask(pc, c, u) == [pc |-> pc, call |-> c, user |-> u]
Idle == MakeTask("idle", NoCall, None)

Exists(u) == users[u].name # None
Enabled(u) == Exists(u) /\ ~users[u].disabled
IsAdmin(u) == Exists(u) /\ users[u].role = "admin"

(* Mutant: the username column is not unique.                              *)
NameTaken_Never(n) == FALSE
NameTaken(n) == \E u \in Users : users[u].name = n

At(h, pc) == task[h].pc = pc
Goto(h, pc, u) == task' = [task EXCEPT ![h] = MakeTask(pc, task[h].call, u)]
Begin(h, c, pc, u) == task' = [task EXCEPT ![h] = MakeTask(pc, c, u)]
Answer(h) == task' = [task EXCEPT ![h] = Idle]

-----------------------------------------------------------------------------
(* Bounds.  A call that draws a fresh id is taken only while one is left   *)
(* for it and for every such call in progress.                             *)

Pending(pcs) == Cardinality({h \in Handlers : task[h].pc \in pcs})
UserLeft == Pending({"insertUser"}) < Cardinality({u \in Users : ~Exists(u)})
SessionLeft ==
  Pending({"openSession", "mark", "insertUser"})
    < Cardinality({s \in Sessions : sessions[s] = "unborn"})
CodeLeft == Pending({"insertCode"}) < Cardinality({k \in Codes : codes[k].phase = "unborn"})

-----------------------------------------------------------------------------
(* Calls with a session                                                    *)

(* Auth: GetByTokenHash joins the session with its user, once per call.    *)
(* Expired sessions are not found, disabled users are not let in.          *)
Caller(c) == IF sessions[c.session] \in Users THEN sessions[c.session] ELSE None
MayCall(c) ==
  /\ Caller(c) # None /\ Enabled(Caller(c))
  /\ c.op \in AdminOps => IsAdmin(Caller(c))

NextStep(op) ==
  CASE op = "createUser" -> "insertUser"
    [] op = "updateUser" -> "update"
    [] op = "generateInvite" -> "insertCode"
    [] op = "deleteInvite" -> "deleteCode"
    [] OTHER -> "endSession"

(* Mutant: an admin may edit the own account.                              *)
Authenticate_Self(h, c) ==
  /\ At(h, "idle") /\ c.op \in SessionOps
  /\ c.op = "createUser" => UserLeft
  /\ c.op = "generateInvite" => CodeLeft
  /\ UNCHANGED <<users, sessions, codes>>
  /\ IF ~MayCall(c) THEN Answer(h)
     ELSE Begin(h, c, NextStep(c.op), Caller(c))

(* The middleware, RequireRole, and "Prevent self-demotion".               *)
Authenticate(h, c) ==
  /\ At(h, "idle") /\ c.op \in SessionOps
  /\ c.op = "createUser" => UserLeft
  /\ c.op = "generateInvite" => CodeLeft
  /\ UNCHANGED <<users, sessions, codes>>
  /\ IF ~MayCall(c) \/ (c.op = "updateUser" /\ c.user = Caller(c))
     THEN Answer(h)
     ELSE Begin(h, c, NextStep(c.op), Caller(c))

(* UserRepo.Update sets the fields that are given, of a user that exists.  *)
(* The web form always gives them all.                                     *)
Updated(u, c) ==
  [name |-> u.name,
   role |-> IF c.role = None THEN u.role ELSE c.role,
   disabled |-> IF c.disabled = None THEN u.disabled ELSE c.disabled = "yes"]
UpdateUser(h) ==
  LET c == task[h].call IN
  /\ At(h, "update")
  /\ users' = IF Exists(c.user)
              THEN [users EXCEPT ![c.user] = Updated(users[c.user], c)] ELSE users
  /\ UNCHANGED <<sessions, codes>>
  /\ Answer(h)

Logout(h) ==
  LET s == task[h].call.session IN
  /\ At(h, "endSession")
  /\ sessions' = [sessions EXCEPT ![s] = "over"]
  /\ UNCHANGED <<users, codes>>
  /\ Answer(h)

InsertCode(h) ==
  /\ At(h, "insertCode")
  /\ \E k \in Codes :
       /\ codes[k].phase = "unborn"
       /\ codes' = [codes EXCEPT ![k] = [phase |-> "live", usedBy |-> None]]
  /\ UNCHANGED <<users, sessions>>
  /\ Answer(h)

DeleteCode(h) ==
  LET k == task[h].call.code IN
  /\ At(h, "deleteCode")
  /\ codes' = IF codes[k].phase = "unborn" THEN codes
              ELSE [codes EXCEPT ![k] = [phase |-> "gone", usedBy |-> None]]
  /\ UNCHANGED <<users, sessions>>
  /\ Answer(h)

-----------------------------------------------------------------------------
(* Login and redemption                                                    *)

(* GetByUsername and the disabled flag, from a client that has the right   *)
(* password; the wrong ones and the limiter are in LoginLimiter.           *)
Login(h, c) ==
  /\ At(h, "idle") /\ c.op = "login" /\ SessionLeft
  /\ UNCHANGED <<users, sessions, codes>>
  /\ IF \E u \in Users : users[u].name = c.name /\ Enabled(u)
     THEN \E u \in Users : /\ users[u].name = c.name /\ Enabled(u)
                           /\ Begin(h, c, "openSession", u)
     ELSE Answer(h)

OpenSession(h) ==
  /\ At(h, "openSession")
  /\ \E s \in Sessions :
       /\ sessions[s] = "unborn"
       /\ sessions' = [sessions EXCEPT ![s] = task[h].user]
  /\ UNCHANGED <<users, codes>>
  /\ Answer(h)

(* Mutant: a used code is not refused.                                     *)
LookUpCode_AnyUse(h, c) ==
  /\ At(h, "idle") /\ c.op = "redeem" /\ UserLeft /\ SessionLeft
  /\ UNCHANGED <<users, sessions, codes>>
  /\ IF codes[c.code].phase = "live" THEN Begin(h, c, "insertUser", None)
     ELSE Answer(h)

(* GetByCode: the code has to be there, unused and not expired.            *)
LookUpCode(h, c) ==
  /\ At(h, "idle") /\ c.op = "redeem" /\ UserLeft /\ SessionLeft
  /\ UNCHANGED <<users, sessions, codes>>
  /\ IF codes[c.code].phase = "live" /\ codes[c.code].usedBy = None
     THEN Begin(h, c, "insertUser", None)
     ELSE Answer(h)

RoleGiven(c) ==
  CASE c.op = "redeem" -> "user" [] c.op = "init" -> "admin" [] OTHER -> c.role

(* UserRepo.Create, under the unique index on username.  It reads the row  *)
(* again, and that can fail: the account is there and the call ends.       *)
InsertUser(h) ==
  LET c == task[h].call IN
  /\ At(h, "insertUser")
  /\ UNCHANGED <<sessions, codes>>
  /\ \/ NameTaken(c.name) /\ UNCHANGED users /\ Answer(h)
     \/ \E u \in Users :
          /\ ~NameTaken(c.name) /\ ~Exists(u)
          /\ users' = [users EXCEPT ![u] =
                         [name |-> c.name, role |-> RoleGiven(c), disabled |-> FALSE]]
          /\ \/ c.op = "redeem" /\ Goto(h, "mark", u)
             \/ Answer(h)

(* Mutant: the code is not marked.                                         *)
MarkUsed_Forgotten(h) ==
  /\ At(h, "mark")
  /\ UNCHANGED <<users, sessions, codes>>
  /\ Goto(h, "openSession", task[h].user)

(* MarkUsed looks at nothing: an earlier user is overwritten, and a code   *)
(* that was deleted is no error.                                           *)
MarkUsed(h) ==
  LET k == task[h].call.code IN
  /\ At(h, "mark")
  /\ codes' = IF codes[k].phase \in {"live", "expired"}
              THEN [codes EXCEPT ![k] = [phase |-> codes[k].phase, usedBy |-> task[h].user]]
              ELSE codes
  /\ UNCHANGED <<users, sessions>>
  /\ Goto(h, "openSession", task[h].user)

-----------------------------------------------------------------------------
(* The commands                                                            *)

(* init: an existing admin, disabled or not, is left alone.                *)
RunInit(h, c) ==
  /\ At(h, "idle") /\ c.op = "init" /\ UserLeft
  /\ UNCHANGED <<users, sessions, codes>>
  /\ IF \E u \in Users : IsAdmin(u) THEN Answer(h)
     ELSE Begin(h, c, "insertUser", None)

RunCreateUser(h, c) ==
  /\ At(h, "idle") /\ c.op = "create-user" /\ UserLeft
  /\ UNCHANGED <<users, sessions, codes>>
  /\ Begin(h, c, "insertUser", None)

(* generate-invite needs an admin to attribute the code to.                *)
RunGenerateInvite(h, c) ==
  /\ At(h, "idle") /\ c.op = "generate-invite" /\ CodeLeft
  /\ UNCHANGED <<users, sessions, codes>>
  /\ IF \E u \in Users : IsAdmin(u) THEN Begin(h, c, "insertCode", None)
     ELSE Answer(h)

-----------------------------------------------------------------------------
(* Time and failures                                                       *)

(* A session that has expired is as good as deleted, which DeleteExpired   *)
(* does once an hour.                                                      *)
ExpireSession(s) ==
  /\ sessions[s] \in Users
  /\ sessions' = [sessions EXCEPT ![s] = "over"]
  /\ UNCHANGED <<users, codes, task>>

ExpireCode(k) ==
  /\ codes[k].phase = "live"
  /\ codes' = [codes EXCEPT ![k] = [phase |-> "expired", usedBy |-> codes[k].usedBy]]
  /\ UNCHANGED <<users, sessions, task>>

(* A statement fails, the call is cancelled, the process stops: the call   *)
(* ends, and what it has written stays.                                    *)
Fail(h) ==
  /\ ~At(h, "idle")
  /\ UNCHANGED <<users, sessions, codes>>
  /\ Answer(h)

Init ==
  /\ users = [u \in Users |-> NoUser]
  /\ sessions = [s \in Sessions |-> "unborn"]
  /\ codes = [k \in Codes |-> [phase |-> "unborn", usedBy |-> None]]
  /\ task = [h \in Handlers |-> Idle]

Start(h, c) ==
  \/ Authenticate(h, c) \/ Login(h, c) \/ LookUpCode(h, c)
  \/ RunInit(h, c) \/ RunCreateUser(h, c) \/ RunGenerateInvite(h, c)

Step(h) ==
  \/ UpdateUser(h) \/ Logout(h) \/ InsertCode(h) \/ DeleteCode(h)
  \/ OpenSession(h) \/ InsertUser(h) \/ MarkUsed(h) \/ Fail(h)

Next ==
  \/ \E h \in Handlers : Step(h) \/ \E c \in Calls : Start(h, c)
  \/ \E s \in Sessions : ExpireSession(s)
  \/ \E k \in Codes : ExpireCode(k)

Spec == Init /\ [][Next]_vars
=============================================================================
