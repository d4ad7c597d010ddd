---------------------------- MODULE AccountsProofs ----------------------------
(***************************************************************************)
(* Theorems about the accounts, for any number of users, sessions, codes   *)
(* and overlapping calls.                                                  *)
(***************************************************************************)
EXTENDS AccountsProperties, TLAPS

PCs == {"idle", "insertUser", "update", "insertCode", "deleteCode",
        "endSession", "mark", "openSession"}

LEMMA NoCallIsACall == NoCall \in CallType
BY DEF NoCall, CallType, SessionOps, PublicOps

LEMMA CallsAreCalls == \A c \in Calls : c \in CallType
BY AccountAssumption

(* A task put together from parts of the right type.                       *)
LEMMA MadeTasks ==
  ASSUME NEW pc \in PCs, NEW c \in CallType, NEW u \in Users \cup {None}
  PROVE  /\ MakeTask(pc, c, u) \in Task
         /\ MakeTask(pc, c, u).pc = pc
         /\ MakeTask(pc, c, u).call = c
         /\ MakeTask(pc, c, u).user = u
BY DEF MakeTask, Task, PCs

LEMMA IdleFits == Idle \in Task /\ Idle.pc = "idle"
BY MadeTasks, NoCallIsACall DEF Idle, PCs

(* The users that exist stay.                                              *)
Grows == \A u \in Users : Exists(u) => Exists(u)'

LEMMA TaskKept ==
  ASSUME Grows, NEW CONSTANT t, TaskOK(t)
  PROVE  TaskOK(t)'
BY DEF Grows, TaskOK

(* When handler h goes on to a task in shape and the others stand still,   *)
(* all tasks are in shape.                                                 *)
LEMMA TasksStayOK ==
  ASSUME TasksOK, Grows, NEW h \in Handlers, NEW t \in Task,
         task' = [task EXCEPT ![h] = t], TaskOK(t)'
  PROVE  TasksOK'
<1>1. task' \in [Handlers -> Task]
  BY DEF TasksOK
<1>2. ASSUME NEW g \in Handlers
      PROVE  TaskOK(task[g])'
  <2>1. CASE g = h
    <3>1. task'[g] = t
      BY <2>1 DEF TasksOK
    <3> QED
      BY <3>1 DEF TaskOK, Exists
  <2>2. CASE g # h
    <3>1. task'[g] = task[g] /\ TaskOK(task[g])
      BY <2>2 DEF TasksOK
    <3> QED
      BY <3>1 DEF TaskOK, Exists, Grows
  <2> QED
    BY <2>1, <2>2
<1> QED
  BY <1>1, <1>2 DEF TasksOK

LEMMA IdleStaysOK ==
  ASSUME TasksOK, Grows, NEW h \in Handlers, Answer(h)
  PROVE  TasksOK'
<1>1. TaskOK(Idle)'
  BY IdleFits DEF TaskOK
<1> QED
  BY <1>1, IdleFits, TasksStayOK DEF Answer

(* A step that only moves tasks keeps the tables in shape.                 *)
LEMMA TablesStayOK ==
  ASSUME UsersOK, SessionsOK, CodesOK, UNCHANGED <<users, sessions, codes>>
  PROVE  Grows /\ UsersOK' /\ SessionsOK' /\ CodesOK'
BY DEF UsersOK, SessionsOK, CodesOK, Grows, Exists

LEMMA UnchangedUsers ==
  ASSUME UsersOK, UNCHANGED users
  PROVE  Grows /\ UsersOK'
BY DEF UsersOK, Grows, Exists

LEMMA UnchangedSessions ==
  ASSUME SessionsOK, Grows, UNCHANGED sessions
  PROVE  SessionsOK'
BY DEF SessionsOK, Grows

LEMMA UnchangedCodes ==
  ASSUME CodesOK, Grows, UNCHANGED codes
  PROVE  CodesOK'
<1>1. ASSUME NEW k \in Codes PROVE codes[k].usedBy \in Users \cup {None}
  BY DEF CodesOK, Code
<1> QED
  BY <1>1 DEF CodesOK, Grows

LEMMA ResolvedCaller ==
  ASSUME SessionsOK, NEW c \in Calls, c.op \in SessionOps, MayCall(c)
  PROVE  Caller(c) \in Users /\ Exists(Caller(c)) /\ c.session \in Sessions
BY AccountAssumption DEF SessionsOK, Caller, MayCall, Enabled

-----------------------------------------------------------------------------
(* Starting a call                                                         *)

LEMMA StartOK ==
  ASSUME AccountsOK, NEW h \in Handlers, NEW c \in Calls, Start(h, c)
  PROVE  AccountsOK'
<1> USE DEF AccountsOK
<1>1. c \in CallType
  BY CallsAreCalls
<1>2. UNCHANGED <<users, sessions, codes>>
  BY DEF Start, Authenticate, Login, LookUpCode, RunInit, RunCreateUser, RunGenerateInvite
<1>3. Grows /\ UsersOK' /\ SessionsOK' /\ CodesOK'
  BY <1>2, TablesStayOK
<1>4. ASSUME NEW pc \in PCs, NEW u \in Users \cup {None}, Begin(h, c, pc, u),
             TaskOK(MakeTask(pc, c, u))
      PROVE  TasksOK'
  <2>1. MakeTask(pc, c, u) \in Task
    BY <1>1, MadeTasks
  <2>2. TaskOK(MakeTask(pc, c, u))'
    BY <1>3, <1>4, TaskKept
  <2> QED
    BY <2>1, <2>2, <1>3, <1>4, TasksStayOK DEF Begin
<1>5. Answer(h) => TasksOK'
  BY <1>3, IdleStaysOK
<1>6. ASSUME Authenticate(h, c) PROVE TasksOK'
  <2>1. CASE Begin(h, c, NextStep(c.op), Caller(c)) /\ MayCall(c)
             /\ ~(c.op = "updateUser" /\ c.user = Caller(c))
    <3>1. c.op \in SessionOps
      BY <1>6 DEF Authenticate
    <3>2. PICK u \in Users : u = Caller(c)
      BY <2>1, <3>1, ResolvedCaller
    <3>3. Exists(u) /\ c.session \in Sessions
      BY <2>1, <3>1, <3>2, ResolvedCaller
    <3>4. /\ NextStep(c.op) \in PCs \ {"idle", "mark", "openSession"}
          /\ NextStep(c.op) = "insertUser" => c.op = "createUser"
          /\ NextStep(c.op) = "update" => c.op = "updateUser"
          /\ NextStep(c.op) = "deleteCode" => c.op = "deleteInvite"
      BY <3>1 DEF NextStep, PCs, SessionOps, AdminOps
    <3>5. PICK pc \in PCs : pc = NextStep(c.op)
      BY <3>4
    <3>6. /\ MakeTask(pc, c, u) \in Task /\ MakeTask(pc, c, u).pc = pc
          /\ MakeTask(pc, c, u).call = c /\ MakeTask(pc, c, u).user = u
      BY <1>1, MadeTasks
    <3>7. /\ c.op = "createUser" => c.name \in Names
          /\ c.op = "deleteInvite" => c.code \in Codes
          /\ c.op = "updateUser" => c.user \in Users
      BY AccountAssumption
    <3>8. c.op = "updateUser" => c.user # u
      BY <2>1, <3>2
    <3>9. TaskOK(MakeTask(pc, c, u))
      BY <3>3, <3>4, <3>5, <3>6, <3>7, <3>8 DEF TaskOK
    <3> QED
      BY <1>4, <2>1, <3>2, <3>5, <3>9
  <2> QED
    BY <1>5, <1>6, <2>1 DEF Authenticate
<1>7. ASSUME Login(h, c) PROVE TasksOK'
  <2>1. ASSUME NEW u \in Users, Enabled(u), Begin(h, c, "openSession", u)
        PROVE  TasksOK'
    <3>1. TaskOK(MakeTask("openSession", c, u))
      BY <1>1, <2>1, MadeTasks DEF TaskOK, Enabled, PCs
    <3> QED
      BY <1>4, <2>1, <3>1 DEF PCs
  <2> QED
    BY <1>5, <1>7, <2>1 DEF Login
<1>8. ASSUME Begin(h, c, "insertUser", None),
             c.op \in {"redeem", "init", "create-user"}
      PROVE  TasksOK'
  <2>1. c.name \in Names /\ (c.op = "redeem" => c.code \in Codes)
    BY <1>8, AccountAssumption
  <2>2. TaskOK(MakeTask("insertUser", c, None))
    BY <1>1, <1>8, <2>1, MadeTasks DEF TaskOK, PCs
  <2> QED
    BY <1>4, <1>8, <2>2 DEF PCs
<1>9. ASSUME Begin(h, c, "insertCode", None) PROVE TasksOK'
  <2>1. TaskOK(MakeTask("insertCode", c, None))
    BY <1>1, MadeTasks DEF TaskOK, PCs
  <2> QED
    BY <1>4, <1>9, <2>1 DEF PCs
<1> QED
  BY <1>3, <1>5, <1>6, <1>7, <1>8, <1>9
  DEF Start, LookUpCode, RunInit, RunCreateUser, RunGenerateInvite
-----------------------------------------------------------------------------
(* The statements of a call                                                *)

LEMMA AtTask ==
  ASSUME TasksOK, NEW h \in Handlers
  PROVE  /\ TaskOK(task[h]) /\ task[h] \in Task
         /\ task[h].pc \in PCs /\ task[h].call \in CallType
         /\ task[h].user \in Users \cup {None}
BY DEF TasksOK, Task, PCs

LEMMA GotoOK ==
  ASSUME TasksOK, Grows, NEW h \in Handlers, NEW pc \in {"mark", "openSession"},
         NEW u \in Users, Exists(u)', Goto(h, pc, u), ~At(h, "idle"),
         pc = "mark" => task[h].call.code \in Codes
  PROVE  TasksOK'
<1>1. PICK c \in CallType : c = task[h].call
  BY AtTask
<1>2. /\ MakeTask(pc, c, u) \in Task /\ MakeTask(pc, c, u).pc = pc
      /\ MakeTask(pc, c, u).call = c /\ MakeTask(pc, c, u).user = u
  BY MadeTasks DEF PCs
<1>3. c \in Calls /\ (pc = "mark" => c.code \in Codes)
  BY <1>1, AtTask DEF TaskOK, At
<1>4. TaskOK(MakeTask(pc, c, u))'
  BY <1>2, <1>3 DEF TaskOK
<1> QED
  BY <1>1, <1>2, <1>4, TasksStayOK DEF Goto

LEMMA UpdateUserOK ==
  ASSUME AccountsOK, NEW h \in Handlers, UpdateUser(h)
  PROVE  AccountsOK'
<1> USE DEF AccountsOK
<1> DEFINE c == task[h].call
<1>1. c \in CallType /\ c.user \in Users
  BY AtTask DEF UpdateUser, At, TaskOK
<1>2. UNCHANGED <<sessions, codes>> /\ Answer(h)
  BY DEF UpdateUser
<1>3. ASSUME NEW u \in User PROVE Updated(u, c) \in User /\ Updated(u, c).name = u.name
  <2>1. c.role \in Roles \cup {None}
    BY <1>1 DEF CallType
  <2>2. u.name \in Names \cup {None} /\ u.role \in Roles /\ u.disabled \in BOOLEAN
    BY DEF User
  <2>3. PICK r \in Roles : r = IF c.role = None THEN u.role ELSE c.role
    BY <2>1, <2>2
  <2>4. PICK d \in BOOLEAN :
          d = IF c.disabled = None THEN u.disabled ELSE c.disabled = "yes"
    BY <2>2
  <2>5. Updated(u, c) = [name |-> u.name, role |-> r, disabled |-> d]
    BY <2>3, <2>4, Zenon DEF Updated
  <2> QED
    BY <2>2, <2>5 DEF User
<1>4. CASE Exists(c.user)
  <2>1. users' = [users EXCEPT ![c.user] = Updated(users[c.user], c)]
    BY <1>4 DEF UpdateUser
  <2>2. users[c.user] \in User
    BY <1>1 DEF UsersOK
  <2>3. users' \in [Users -> User]
    BY <2>1, <2>2, <1>3 DEF UsersOK
  <2>4. \A u \in Users : users'[u].name = users[u].name
    BY <2>1, <2>2, <1>3 DEF UsersOK
  <2>5. UsersOK' /\ Grows
    BY <2>3, <2>4 DEF UsersOK, Grows, Exists
  <2> QED
    BY <1>2, <2>5, UnchangedSessions, UnchangedCodes, IdleStaysOK
<1>5. CASE ~Exists(c.user)
  <2>1. users' = users
    BY <1>5 DEF UpdateUser
  <2> QED
    BY <1>2, <2>1, UnchangedUsers, UnchangedSessions, UnchangedCodes, IdleStaysOK
<1> QED
  BY <1>4, <1>5

LEMMA LogoutOK ==
  ASSUME AccountsOK, NEW h \in Handlers, Logout(h)
  PROVE  AccountsOK'
<1> USE DEF AccountsOK
<1>1. task[h].call.session \in Sessions
  BY AtTask DEF Logout, At, TaskOK
<1>2. Grows /\ UsersOK' /\ CodesOK'
  BY UnchangedUsers, UnchangedCodes DEF Logout
<1>3. SessionsOK'
  BY <1>1, <1>2, AccountAssumption DEF Logout, SessionsOK, Grows
<1> QED
  BY <1>2, <1>3, IdleStaysOK DEF Logout

LEMMA InsertCodeOK ==
  ASSUME AccountsOK, NEW h \in Handlers, InsertCode(h)
  PROVE  AccountsOK'
<1> USE DEF AccountsOK
<1>1. Grows /\ UsersOK' /\ SessionsOK'
  BY UnchangedUsers, UnchangedSessions DEF InsertCode
<1>2. PICK k \in Codes : codes' = [codes EXCEPT ![k] = [phase |-> "live", usedBy |-> None]]
  BY DEF InsertCode
<1>3. CodesOK'
  BY <1>1, <1>2 DEF CodesOK, Code, Grows
<1> QED
  BY <1>1, <1>3, IdleStaysOK DEF InsertCode

LEMMA DeleteCodeOK ==
  ASSUME AccountsOK, NEW h \in Handlers, DeleteCode(h)
  PROVE  AccountsOK'
<1> USE DEF AccountsOK
<1>1. Grows /\ UsersOK' /\ SessionsOK'
  BY UnchangedUsers, UnchangedSessions DEF DeleteCode
<1>2. CodesOK'
  <2>1. CASE codes' = codes
    BY <2>1, <1>1, UnchangedCodes
  <2>2. CASE codes' = [codes EXCEPT ![task[h].call.code] =
                         [phase |-> "gone", usedBy |-> None]]
    BY <2>2, <1>1 DEF CodesOK, Code, Grows
  <2> QED
    BY <2>1, <2>2 DEF DeleteCode
<1> QED
  BY <1>1, <1>2, IdleStaysOK DEF DeleteCode

LEMMA OpenSessionOK ==
  ASSUME AccountsOK, NEW h \in Handlers, OpenSession(h)
  PROVE  AccountsOK'
<1> USE DEF AccountsOK
<1>1. task[h].user \in Users /\ Exists(task[h].user)
  BY AtTask DEF OpenSession, At, TaskOK
<1>2. Grows /\ UsersOK' /\ CodesOK'
  BY UnchangedUsers, UnchangedCodes DEF OpenSession
<1>3. PICK s \in Sessions : sessions' = [sessions EXCEPT ![s] = task[h].user]
  BY DEF OpenSession
<1>4. SessionsOK'
  BY <1>1, <1>2, <1>3 DEF SessionsOK, Grows
<1> QED
  BY <1>2, <1>4, IdleStaysOK DEF OpenSession

LEMMA MarkUsedOK ==
  ASSUME AccountsOK, NEW h \in Handlers, MarkUsed(h)
  PROVE  AccountsOK'
<1> USE DEF AccountsOK
<1> DEFINE k == task[h].call.code
           c == [phase |-> codes[k].phase, usedBy |-> task[h].user]
<1>1. k \in Codes /\ ~At(h, "idle")
  BY AtTask DEF MarkUsed, At, TaskOK
<1>2. PICK u \in Users : u = task[h].user /\ Exists(u)
  BY AtTask DEF MarkUsed, At, TaskOK
<1>3. Grows /\ UsersOK' /\ SessionsOK'
  BY UnchangedUsers, UnchangedSessions DEF MarkUsed
<1>4. CodesOK'
  <2>1. CASE codes' = codes
    BY <2>1, <1>3, UnchangedCodes
  <2>2. CASE codes' = [codes EXCEPT ![k] = c]
    <3>1. c \in Code /\ c.usedBy = u
      BY <1>1, <1>2 DEF CodesOK, Code
    <3>2. codes' \in [Codes -> Code]
      BY <2>2, <3>1 DEF CodesOK
    <3>3. \A j \in Codes : codes'[j].usedBy = codes[j].usedBy \/ codes'[j].usedBy = u
      BY <2>2, <3>1 DEF CodesOK
    <3>4. \A j \in Codes : codes[j].usedBy \in Users \cup {None}
      BY DEF CodesOK, Code
    <3> QED
      BY <1>2, <1>3, <3>2, <3>3, <3>4 DEF CodesOK, Grows
  <2> QED
    BY <2>1, <2>2 DEF MarkUsed
<1>5. Exists(u)'
  BY <1>2, <1>3 DEF Grows
<1>6. TasksOK'
  BY <1>1, <1>2, <1>3, <1>5, GotoOK DEF MarkUsed
<1> QED
  BY <1>3, <1>4, <1>6

LEMMA InsertUserOK ==
  ASSUME AccountsOK, NEW h \in Handlers, InsertUser(h)
  PROVE  AccountsOK'
<1> USE DEF AccountsOK
<1> DEFINE c == task[h].call
<1>1. /\ c \in Calls /\ c.name \in Names /\ ~At(h, "idle")
      /\ c.op \in {"createUser", "create-user", "init", "redeem"}
  BY AtTask DEF InsertUser, At, TaskOK
<1>2. PICK r \in Roles : r = RoleGiven(c)
  BY <1>1, AccountAssumption DEF RoleGiven, Roles
<1>3. CASE UNCHANGED users /\ Answer(h)
  BY <1>3, UnchangedUsers, UnchangedSessions, UnchangedCodes, IdleStaysOK DEF InsertUser
<1>4. ASSUME NEW u \in Users, ~NameTaken(c.name), ~Exists(u),
             users' = [users EXCEPT ![u] = [name |-> c.name, role |-> RoleGiven(c),
                                            disabled |-> FALSE]],
             (c.op = "redeem" /\ Goto(h, "mark", u)) \/ Answer(h)
      PROVE  AccountsOK'
  <2>1. users' \in [Users -> User]
    BY <1>1, <1>2, <1>4 DEF UsersOK, User
  <2>2. /\ users'[u].name = c.name
        /\ \A v \in Users \ {u} : users'[v].name = users[v].name
    BY <1>4 DEF UsersOK
  <2>3. c.name # None
    BY <1>1, AccountAssumption
  <2>4. Grows /\ Exists(u)'
    BY <1>4, <2>2, <2>3 DEF Grows, Exists
  <2>5. UsersOK'
    BY <1>4, <2>1, <2>2 DEF UsersOK, Exists, NameTaken
  <2>6. c.op = "redeem" => c.code \in Codes
    BY <1>1, AccountAssumption
  <2>7. TasksOK'
    BY <1>1, <1>4, <2>4, <2>6, GotoOK, IdleStaysOK
  <2> QED
    BY <2>4, <2>5, <2>7, UnchangedSessions, UnchangedCodes DEF InsertUser
<1> QED
  BY <1>3, <1>4 DEF InsertUser

LEMMA FailOK ==
  ASSUME AccountsOK, NEW h \in Handlers, Fail(h)
  PROVE  AccountsOK'
BY TablesStayOK, IdleStaysOK DEF AccountsOK, Fail

LEMMA UnchangedTasks ==
  ASSUME TasksOK, Grows, UNCHANGED task
  PROVE  TasksOK'
<1>1. ASSUME NEW h \in Handlers PROVE TaskOK(task[h])'
  <2>1. task'[h] = task[h] /\ TaskOK(task[h])
    BY DEF TasksOK
  <2> QED
    BY <2>1 DEF TaskOK, Exists, Grows
<1> QED
  BY <1>1 DEF TasksOK

LEMMA ExpireSessionOK ==
  ASSUME AccountsOK, NEW s \in Sessions, ExpireSession(s)
  PROVE  AccountsOK'
<1> USE DEF AccountsOK
<1>1. Grows /\ UsersOK' /\ CodesOK'
  BY UnchangedUsers, UnchangedCodes DEF ExpireSession
<1>2. SessionsOK'
  BY <1>1, AccountAssumption DEF ExpireSession, SessionsOK, Grows
<1> QED
  BY <1>1, <1>2, UnchangedTasks DEF ExpireSession

LEMMA ExpireCodeOK ==
  ASSUME AccountsOK, NEW k \in Codes, ExpireCode(k)
  PROVE  AccountsOK'
<1> USE DEF AccountsOK
<1>1. Grows /\ UsersOK' /\ SessionsOK'
  BY UnchangedUsers, UnchangedSessions DEF ExpireCode
<1>2. \A j \in Codes : codes[j].usedBy \in Users \cup {None}
  BY DEF CodesOK, Code
<1>3. codes' \in [Codes -> Code]
  BY <1>2 DEF ExpireCode, CodesOK, Code
<1>4. \A j \in Codes : codes'[j].usedBy = codes[j].usedBy
  BY DEF ExpireCode, CodesOK
<1>5. CodesOK'
  BY <1>1, <1>2, <1>3, <1>4 DEF CodesOK, Grows
<1> QED
  BY <1>1, <1>5, UnchangedTasks DEF ExpireCode

-----------------------------------------------------------------------------
(* The theorems                                                            *)

LEMMA InitOK == Init => AccountsOK
<1> SUFFICES ASSUME Init PROVE AccountsOK
  OBVIOUS
<1>1. UsersOK
  BY DEF Init, UsersOK, User, NoUser, Exists, Roles
<1>2. SessionsOK
  BY AccountAssumption DEF Init, SessionsOK
<1>3. CodesOK
  BY DEF Init, CodesOK, Code
<1>4. TasksOK
  BY IdleFits DEF Init, TasksOK, TaskOK
<1> QED
  BY <1>1, <1>2, <1>3, <1>4 DEF AccountsOK

LEMMA StepOK == AccountsOK /\ [Next]_vars => AccountsOK'
<1> SUFFICES ASSUME AccountsOK, [Next]_vars PROVE AccountsOK'
  OBVIOUS
<1>1. ASSUME NEW h \in Handlers, Step(h) PROVE AccountsOK'
  BY <1>1, UpdateUserOK, LogoutOK, InsertCodeOK, DeleteCodeOK, OpenSessionOK,
     InsertUserOK, MarkUsedOK, FailOK DEF Step
<1>2. CASE UNCHANGED vars
  BY <1>2, TablesStayOK, UnchangedTasks DEF vars, AccountsOK
<1> QED
  BY <1>1, <1>2, StartOK, ExpireSessionOK, ExpireCodeOK DEF Next

(* The accounts keep their shape and their references: usernames unique,   *)
(* sessions and used codes of users that exist, no update of the caller    *)
(* itself (users.go, admin.go, the middleware and the schema).             *)
THEOREM AccountsInShape == Spec => []AccountsOK
<1> QED
  BY InitOK, StepOK, PTL DEF Spec

LEMMA AdminLossStep ==
  ASSUME AccountsOK, Next, SomeAdmin, ~SomeAdmin'
  PROVE  \E h \in Handlers : /\ At(h, "update") /\ task'[h] # task[h]
                             /\ ~(Enabled(task[h].user) /\ IsAdmin(task[h].user))
<1>1. PICK a \in Users : Enabled(a) /\ IsAdmin(a)
  BY DEF SomeAdmin
<1>2. ASSUME NEW v \in Users, Enabled(v), IsAdmin(v)
      PROVE  users'[v] # users[v]
  BY <1>2 DEF SomeAdmin, Enabled, IsAdmin, Exists
<1>3. users' # users
  BY <1>1, <1>2
<1>4. PICK h \in Handlers : UpdateUser(h) \/ InsertUser(h)
  BY <1>3 DEF Next, Step, Start, Authenticate, Login, LookUpCode, RunInit, RunCreateUser,
     RunGenerateInvite, Logout, InsertCode, DeleteCode, OpenSession, MarkUsed, Fail,
     ExpireSession, ExpireCode
<1>5. ~InsertUser(h)
  <2> SUFFICES ASSUME InsertUser(h) PROVE FALSE
    OBVIOUS
  <2>1. PICK u \in Users :
          /\ ~Exists(u)
          /\ users' = [users EXCEPT ![u] = [name |-> task[h].call.name,
                         role |-> RoleGiven(task[h].call), disabled |-> FALSE]]
    BY <1>3 DEF InsertUser
  <2>2. a # u
    BY <1>1, <2>1 DEF Enabled
  <2>3. users'[a] = users[a]
    BY <2>1, <2>2 DEF AccountsOK, UsersOK
  <2> QED
    BY <1>1, <1>2, <2>3
<1>6. UpdateUser(h)
  BY <1>4, <1>5
<1>7. At(h, "update") /\ task[h].user # task[h].call.user /\ task[h].user \in Users
  BY <1>6, AtTask DEF UpdateUser, At, AccountsOK, TaskOK
<1>8. task'[h] # task[h]
  BY <1>6, <1>7, IdleFits DEF UpdateUser, Answer, At, AccountsOK, TasksOK
<1>9. users'[task[h].user] = users[task[h].user]
  <2>1. \/ users' = users
        \/ users' = [users EXCEPT ![task[h].call.user] =
                       Updated(users[task[h].call.user], task[h].call)]
    BY <1>6 DEF UpdateUser
  <2> QED
    BY <1>7, <2>1 DEF AccountsOK, UsersOK
<1>10. ~(Enabled(task[h].user) /\ IsAdmin(task[h].user))
  BY <1>2, <1>7, <1>9
<1> QED
  BY <1>7, <1>8, <1>10

(* Only a call whose caller has itself been demoted or disabled since the  *)
(* call began can leave the server without an enabled admin: what the      *)
(* check at admin.go:97 and handler.go:889 is worth.                       *)
THEOREM LastAdminNeedsARace == Spec => AdminLossIsARace
<1>1. AccountsOK /\ [Next]_vars
        => [SomeAdmin /\ ~SomeAdmin' =>
              \E h \in Handlers : /\ At(h, "update") /\ task'[h] # task[h]
                                  /\ ~(Enabled(task[h].user) /\ IsAdmin(task[h].user))]_vars
  BY AdminLossStep
<1> QED
  BY <1>1, AccountsInShape, PTL DEF Spec, AdminLossIsARace

-----------------------------------------------------------------------------
(* Invite codes, with the history of what they have made                   *)

Issued(k) == codes[k].phase # "unborn"
Spent(k) == codes[k].usedBy # None \/ codes[k].phase = "gone"

(* A code that is not issued has made nothing, and only redemptions of     *)
(* issued codes are under way.                                             *)
Tracked ==
  /\ \A k \in Codes : ~Issued(k) => made[k] = {} /\ codes[k].usedBy = None
  /\ \A h \in Handlers : At(h, "mark") => Redeeming(h)
  /\ \A h \in Handlers : Redeeming(h) => Issued(task[h].call.code)
  /\ CodesAccountFor

LEMMA RedeemedCode ==
  ASSUME TasksOK, NEW h \in Handlers, Redeeming(h)
  PROVE  task[h].call.code \in Codes
<1>1. task[h].call \in Calls
  BY AtTask DEF Redeeming, TaskOK
<1> QED
  BY <1>1, AccountAssumption DEF Redeeming

(* What a step has to do for the history to stay true.                     *)
LEMMA TrackedFollows ==
  ASSUME AccountsOK, Tracked, Remember,
         \A k \in Codes : /\ Issued(k) => Issued(k)'
                          /\ Spent(k) => Spent(k)'
                          /\ ~Issued(k)' => codes'[k].usedBy = None,
         \A h \in Handlers :
           /\ At(h, "mark")' => Redeeming(h)'
           /\ Redeeming(h)' => Issued(task[h].call.code)'
           /\ \A k \in Codes : At(h, "mark") /\ task[h].call.code = k =>
                \/ task'[h] = task[h] \/ task[h].user \in cutShort' \/ Spent(k)',
         \A u \in Users, h \in Handlers :
           ~Exists(u) /\ Exists(u)' /\ Redeeming(h) /\ task'[h] # task[h] =>
             \/ u \in cutShort'
             \/ /\ At(h, "mark")' /\ task'[h].user = u
                /\ task'[h].call.code = task[h].call.code
  PROVE  Tracked'
<1>1. ASSUME NEW k \in Codes, NEW u \in made'[k]
      PROVE  \/ u \in made[k]
             \/ /\ u \in Users /\ ~Exists(u) /\ Exists(u)'
                /\ \E h \in Handlers : /\ Redeeming(h) /\ task'[h] # task[h]
                                      /\ task[h].call.code = k
  BY <1>1 DEF Remember
<1>2. ASSUME NEW k \in Codes, ~Issued(k)'
      PROVE  made'[k] = {} /\ codes'[k].usedBy = None
  <2>1. ~Issued(k) /\ made[k] = {}
    BY <1>2 DEF Tracked
  <2>2. \A h \in Handlers : Redeeming(h) => task[h].call.code # k
    BY <2>1 DEF Tracked
  <2> QED
    BY <1>1, <1>2, <2>1, <2>2
<1>3. cutShort \subseteq cutShort'
  BY DEF Remember
<1>4. ASSUME NEW k \in Codes, NEW u \in made'[k], u \notin cutShort', ~Spent(k)'
      PROVE  \E h \in Handlers : At(h, "mark")' /\ task'[h].call.code = k /\ task'[h].user = u
  <2>1. CASE u \in made[k]
    <3>1. PICK h \in Handlers : At(h, "mark") /\ task[h].call.code = k /\ task[h].user = u
      BY <1>3, <1>4, <2>1 DEF Tracked, CodesAccountFor, Spent
    <3>2. task'[h] = task[h]
      BY <1>4, <3>1
    <3> QED
      BY <3>1, <3>2 DEF At
  <2>2. CASE u \notin made[k]
    <3>1. u \in Users /\ ~Exists(u) /\ Exists(u)'
      BY <1>1, <2>2
    <3>2. PICK h \in Handlers : /\ Redeeming(h) /\ task'[h] # task[h]
                               /\ task[h].call.code = k
      BY <1>1, <2>2
    <3>3. At(h, "mark")' /\ task'[h].user = u /\ task'[h].call.code = task[h].call.code
      BY <1>4, <3>1, <3>2
    <3> QED
      BY <3>2, <3>3
  <2> QED
    BY <2>1, <2>2
<1>5. CodesAccountFor'
  BY <1>4 DEF CodesAccountFor, Spent, At
<1> QED
  BY <1>2, <1>5 DEF Tracked

(* The calls of others stand still.                                        *)
LEMMA OneMoves ==
  ASSUME TasksOK, NEW h \in Handlers, NEW t, task' = [task EXCEPT ![h] = t]
  PROVE  task'[h] = t /\ \A g \in Handlers \ {h} : task'[g] = task[g]
BY DEF TasksOK

(* Answers and beginnings, as tasks.                                       *)
LEMMA OneAnswers ==
  ASSUME TasksOK, NEW h \in Handlers, Answer(h)
  PROVE  /\ task'[h] = Idle /\ task'[h].pc = "idle"
         /\ \A g \in Handlers \ {h} : task'[g] = task[g]
BY OneMoves, IdleFits DEF Answer

(* A step that moves handler h only, makes no user and no code spent or    *)
(* issued less.                                                            *)
LEMMA TrackedQuietly ==
  ASSUME AccountsOK, Tracked, Remember, NEW h \in Handlers,
         \A g \in Handlers \ {h} : task'[g] = task[g],
         \A k \in Codes : /\ Issued(k) => Issued(k)'
                          /\ Spent(k) => Spent(k)'
                          /\ ~Issued(k)' => codes'[k].usedBy = None,
         \A u \in Users : Exists(u)' => Exists(u),
         ~At(h, "mark"), ~At(h, "mark")',
         Redeeming(h)' => task'[h].call.code \in Codes /\ Issued(task[h].call.code)'
  PROVE  Tracked'
<1>1. ASSUME NEW g \in Handlers
      PROVE  /\ At(g, "mark")' => Redeeming(g)'
             /\ Redeeming(g)' => Issued(task[g].call.code)'
             /\ At(g, "mark") => task'[g] = task[g]
  <2>1. CASE g = h
    BY <2>1 DEF Issued, At, Redeeming
  <2>2. CASE g # h
    <3>1. task'[g] = task[g]
      BY <2>2
    <3>2. Redeeming(g) => task[g].call.code \in Codes
      BY RedeemedCode DEF AccountsOK
    <3> QED
      BY <3>1, <3>2 DEF Tracked, At, Redeeming, Issued
  <2> QED
    BY <2>1, <2>2
<1> QED
  BY <1>1, TrackedFollows

LEMMA StartTracked ==
  ASSUME AccountsOK, Tracked, Remember, NEW h \in Handlers, NEW c \in Calls, Start(h, c)
  PROVE  Tracked'
<1>1. UNCHANGED <<users, sessions, codes>> /\ At(h, "idle")
  BY DEF Start, Authenticate, Login, LookUpCode, RunInit, RunCreateUser, RunGenerateInvite
<1>2. PICK t : task' = [task EXCEPT ![h] = t]
  BY DEF Start, Authenticate, Login, LookUpCode, RunInit, RunCreateUser, RunGenerateInvite,
         Answer, Begin
<1>3. task'[h] = t /\ \A g \in Handlers \ {h} : task'[g] = task[g]
  BY <1>2, OneMoves DEF AccountsOK
<1>4. c \in CallType /\ (c.op = "redeem" => c.code \in Codes)
  BY AccountAssumption, CallsAreCalls
<1>5. CASE Answer(h)
  <2>1. ~At(h, "mark")' /\ ~Redeeming(h)'
    BY <1>5, OneAnswers DEF AccountsOK, At, Redeeming
  <2> QED
    BY <1>1, <1>3, <2>1, TrackedQuietly DEF Issued, Spent, Exists, At, Tracked
<1>6. ASSUME NEW pc \in PCs, NEW u \in Users \cup {None}, Begin(h, c, pc, u), pc # "mark",
             c.op = "redeem" => Issued(c.code)
      PROVE  Tracked'
  <2>0. task'[h] = MakeTask(pc, c, u)
    BY <1>6, OneMoves DEF Begin, AccountsOK
  <2>1. task'[h].pc = pc /\ task'[h].call = c
    BY <2>0, <1>4, <1>6, MadeTasks
  <2>2. ~At(h, "mark")' /\ (Redeeming(h)' => c.op = "redeem")
    BY <1>6, <2>1 DEF At, Redeeming
  <2>3. Redeeming(h)' => task'[h].call.code \in Codes /\ Issued(task[h].call.code)'
    BY <1>1, <1>4, <1>6, <2>1, <2>2 DEF Issued
  <2> QED
    BY <1>1, <1>3, <2>2, <2>3, TrackedQuietly DEF Issued, Spent, Exists, At, Tracked
<1>7. CASE Authenticate(h, c)
  <2>1. SUFFICES ASSUME Begin(h, c, NextStep(c.op), Caller(c)), MayCall(c)
        PROVE Tracked'
    BY <1>5, <1>7 DEF Authenticate
  <2>2. c.op \in SessionOps
    BY <1>7 DEF Authenticate
  <2>3. NextStep(c.op) \in PCs \ {"mark"} /\ c.op # "redeem"
    BY <2>2 DEF NextStep, PCs, SessionOps, AdminOps
  <2>4. Caller(c) \in Users
    BY <2>1, <2>2, ResolvedCaller DEF AccountsOK
  <2> QED
    BY <1>6, <2>1, <2>3, <2>4
<1>8. CASE Login(h, c)
  <2>1. c.op # "redeem" /\ "openSession" \in PCs
    BY <1>8 DEF Login, PCs
  <2> QED
    BY <1>5, <1>6, <1>8, <2>1 DEF Login
<1>9. CASE LookUpCode(h, c)
  <2>1. (codes[c.code].phase = "live" /\ Begin(h, c, "insertUser", None)) \/ Answer(h)
    BY <1>9 DEF LookUpCode
  <2>2. codes[c.code].phase = "live" => Issued(c.code)
    BY DEF Issued
  <2> QED
    BY <1>5, <1>6, <2>1, <2>2 DEF PCs
<1>10. CASE RunInit(h, c) \/ RunCreateUser(h, c) \/ RunGenerateInvite(h, c)
  <2>1. c.op # "redeem" /\ {"insertUser", "insertCode"} \subseteq PCs
    BY <1>10 DEF RunInit, RunCreateUser, RunGenerateInvite, PCs
  <2> QED
    BY <1>5, <1>6, <1>10, <2>1 DEF RunInit, RunCreateUser, RunGenerateInvite
<1> QED
  BY <1>7, <1>8, <1>9, <1>10 DEF Start

(* Steps that end a call other than a redemption's.                        *)
LEMMA AnswerTracked ==
  ASSUME AccountsOK, Tracked, Remember, NEW h \in Handlers,
         UpdateUser(h) \/ Logout(h) \/ InsertCode(h) \/ DeleteCode(h) \/ OpenSession(h)
  PROVE  Tracked'
<1>1. Answer(h) /\ ~At(h, "mark")
  BY DEF UpdateUser, Logout, InsertCode, DeleteCode, OpenSession, At
<1>2. /\ \A g \in Handlers \ {h} : task'[g] = task[g]
      /\ ~At(h, "mark")' /\ ~Redeeming(h)'
  BY <1>1, OneAnswers DEF AccountsOK, At, Redeeming
<1>3. \A u \in Users : Exists(u)' => Exists(u)
  <2>1. CASE UpdateUser(h)
    <3>1. \A u \in Users : users'[u].name = users[u].name
      BY <2>1 DEF UpdateUser, Updated, AccountsOK, UsersOK
    <3> QED
      BY <3>1 DEF Exists
  <2>2. CASE ~UpdateUser(h)
    BY <2>2 DEF Logout, InsertCode, DeleteCode, OpenSession, Exists
  <2> QED
    BY <2>1, <2>2
<1>4. \A k \in Codes : /\ Issued(k) => Issued(k)'
                       /\ Spent(k) => Spent(k)'
                       /\ ~Issued(k)' => codes'[k].usedBy = None
  <2>1. \A k \in Codes : ~Issued(k) => codes[k].usedBy = None
    BY DEF Tracked
  <2>2. CASE InsertCode(h)
    BY <2>1, <2>2 DEF InsertCode, Issued, Spent, AccountsOK, CodesOK
  <2>3. CASE DeleteCode(h)
    BY <2>1, <2>3 DEF DeleteCode, Issued, Spent, AccountsOK, CodesOK
  <2>4. CASE UNCHANGED codes
    BY <2>1, <2>4 DEF Issued, Spent
  <2> QED
    BY <2>2, <2>3, <2>4 DEF UpdateUser, Logout, OpenSession
<1> QED
  BY <1>1, <1>2, <1>3, <1>4, TrackedQuietly

(* What a handler that stands still contributes.                           *)
LEMMA OthersStill ==
  ASSUME AccountsOK, Tracked, NEW g \in Handlers, task'[g] = task[g],
         \A k \in Codes : Issued(k) => Issued(k)'
  PROVE  /\ At(g, "mark")' => Redeeming(g)'
         /\ Redeeming(g)' => Issued(task[g].call.code)'
<1>1. Redeeming(g) => task[g].call.code \in Codes
  BY RedeemedCode DEF AccountsOK
<1> QED
  BY <1>1 DEF Tracked, At, Redeeming, Issued

(* A redemption that ends is remembered with the account it made.          *)
LEMMA EndRemembered ==
  ASSUME Remember, NEW h \in Handlers, Redeeming(h), task'[h] # task[h],
         task'[h].pc = "idle"
  PROVE  IF At(h, "mark") THEN task[h].user \in cutShort'
         ELSE \A u \in Users : ~Exists(u) /\ Exists(u)' => u \in cutShort'
BY DEF Remember

(* The account is made with the code still to be marked, or cut short.     *)
LEMMA InsertUserTracked ==
  ASSUME AccountsOK, Tracked, Remember, NEW h \in Handlers, InsertUser(h)
  PROVE  Tracked'
<1>1. ~At(h, "mark") /\ At(h, "insertUser") /\ UNCHANGED codes
  BY DEF InsertUser, At
<1>2. \A k \in Codes : /\ Issued(k) => Issued(k)'
                       /\ Spent(k) => Spent(k)'
                       /\ ~Issued(k)' => codes'[k].usedBy = None
  BY <1>1 DEF Tracked, Issued, Spent
<1>3. task[h].call \in CallType /\ TaskOK(task[h]) /\ task[h] \in Task
  BY DEF AccountsOK, TasksOK, TaskOK, Task
<1>4. CASE Answer(h)
  <2>1. /\ task'[h].pc = "idle" /\ \A g \in Handlers \ {h} : task'[g] = task[g]
        /\ ~At(h, "mark")' /\ ~Redeeming(h)'
    BY <1>4, OneAnswers DEF AccountsOK, At, Redeeming
  <2>2. task'[h] # task[h]
    BY <1>1, <2>1 DEF At
  <2>3. ASSUME NEW u \in Users, NEW g \in Handlers,
               ~Exists(u), Exists(u)', Redeeming(g), task'[g] # task[g]
        PROVE  u \in cutShort'
    <3>1. g = h
      BY <2>1, <2>3
    <3> QED
      BY <1>1, <2>1, <2>2, <2>3, <3>1, EndRemembered
  <2>4. ASSUME NEW g \in Handlers
        PROVE  /\ At(g, "mark")' => Redeeming(g)'
               /\ Redeeming(g)' => Issued(task[g].call.code)'
               /\ At(g, "mark") => task'[g] = task[g]
    <3>1. CASE g = h
      BY <1>1, <2>1, <3>1
    <3>2. CASE g # h
      BY <1>2, <2>1, <3>2, OthersStill
    <3> QED
      BY <3>1, <3>2
  <2> QED
    BY <1>2, <2>3, <2>4, TrackedFollows
<1>5. ASSUME NEW u \in Users, ~Exists(u), task[h].call.op = "redeem", Goto(h, "mark", u),
             \A v \in Users \ {u} : users'[v] = users[v]
      PROVE  Tracked'
  <2>1. task'[h] = MakeTask("mark", task[h].call, u)
        /\ \A g \in Handlers \ {h} : task'[g] = task[g]
    BY <1>5, OneMoves DEF Goto, AccountsOK
  <2>2. task'[h].pc = "mark" /\ task'[h].call = task[h].call /\ task'[h].user = u
    BY <1>3, <2>1, MadeTasks DEF PCs
  <2>3. Redeeming(h) /\ Issued(task[h].call.code)
    BY <1>1, <1>5 DEF Redeeming, At, Tracked
  <2>4. At(h, "mark")' /\ Redeeming(h)' /\ Issued(task[h].call.code)'
    BY <1>1, <1>5, <2>2, <2>3 DEF At, Redeeming, Issued
  <2>5. ASSUME NEW g \in Handlers
        PROVE  /\ At(g, "mark")' => Redeeming(g)'
               /\ Redeeming(g)' => Issued(task[g].call.code)'
               /\ At(g, "mark") => task'[g] = task[g]
    <3>1. CASE g = h
      BY <1>1, <2>4, <3>1
    <3>2. CASE g # h
      BY <1>2, <2>1, <3>2, OthersStill
    <3> QED
      BY <3>1, <3>2
  <2>6. ASSUME NEW v \in Users, NEW g \in Handlers,
               ~Exists(v), Exists(v)', Redeeming(g), task'[g] # task[g]
        PROVE  /\ At(g, "mark")' /\ task'[g].user = v
               /\ task'[g].call.code = task[g].call.code
    <3>1. g = h
      BY <2>1, <2>6
    <3>2. v = u
      BY <1>5, <2>6 DEF Exists
    <3> QED
      BY <2>2, <2>4, <3>1, <3>2
  <2> QED
    BY <1>2, <2>5, <2>6, TrackedFollows
<1>6. CASE UNCHANGED users /\ Answer(h)
  BY <1>4, <1>6
<1>7. ASSUME NEW u \in Users, ~Exists(u),
             users' = [users EXCEPT ![u] = [name |-> task[h].call.name,
                         role |-> RoleGiven(task[h].call), disabled |-> FALSE]],
             task[h].call.op = "redeem" /\ Goto(h, "mark", u)
      PROVE  Tracked'
  <2>1. \A v \in Users \ {u} : users'[v] = users[v]
    BY <1>7 DEF AccountsOK, UsersOK
  <2> QED
    BY <1>5, <1>7, <2>1
<1> QED
  BY <1>4, <1>7 DEF InsertUser

(* The code is marked, unless an admin has deleted it.                     *)
LEMMA MarkUsedTracked ==
  ASSUME AccountsOK, Tracked, Remember, NEW h \in Handlers, MarkUsed(h)
  PROVE  Tracked'
<1>0. PICK k : k = task[h].call.code
  OBVIOUS
<1>1. /\ At(h, "mark") /\ UNCHANGED users
      /\ Goto(h, "openSession", task[h].user)
      /\ codes' = IF codes[k].phase \in {"live", "expired"}
                  THEN [codes EXCEPT ![k] = [phase |-> codes[k].phase, usedBy |-> task[h].user]]
                  ELSE codes
  BY <1>0 DEF MarkUsed
<1>2. Redeeming(h) /\ k \in Codes /\ Issued(k)
  BY <1>0, <1>1, RedeemedCode DEF Tracked, AccountsOK
<1>3. task[h].user \in Users /\ task[h].call \in CallType
  BY <1>1 DEF AccountsOK, TasksOK, TaskOK, Task, At
<1>4. task[h].user # None
  BY <1>3, AccountAssumption
<1>5. \A j \in Codes \ {k} : codes'[j] = codes[j]
  BY <1>1 DEF AccountsOK, CodesOK
<1>6. codes'[k].phase = codes[k].phase /\ Spent(k)'
  <2>1. CASE codes[k].phase \in {"live", "expired"}
    <3>1. codes'[k] = [phase |-> codes[k].phase, usedBy |-> task[h].user]
      BY <1>1, <1>2, <2>1 DEF AccountsOK, CodesOK
    <3> QED
      BY <1>4, <3>1 DEF Spent
  <2>2. CASE codes[k].phase \notin {"live", "expired"}
    <3>1. codes[k] \in Code
      BY <1>2 DEF AccountsOK, CodesOK
    <3>2. codes[k].phase = "gone"
      BY <1>2, <2>2, <3>1 DEF Issued, Code
    <3> QED
      BY <1>1, <2>2, <3>2 DEF Spent
  <2> QED
    BY <2>1, <2>2
<1>7. \A j \in Codes : /\ Issued(j) => Issued(j)'
                       /\ Spent(j) => Spent(j)'
                       /\ ~Issued(j)' => codes'[j].usedBy = None
  BY <1>2, <1>5, <1>6 DEF Issued, Spent, Tracked
<1>8. /\ task'[h] = MakeTask("openSession", task[h].call, task[h].user)
      /\ \A g \in Handlers \ {h} : task'[g] = task[g]
  BY <1>1, OneMoves DEF Goto, AccountsOK
<1>9. task'[h].pc = "openSession"
  BY <1>3, <1>8, MadeTasks DEF PCs
<1>10. ASSUME NEW g \in Handlers
       PROVE  /\ At(g, "mark")' => Redeeming(g)'
              /\ Redeeming(g)' => Issued(task[g].call.code)'
              /\ \A j \in Codes : At(g, "mark") /\ task[g].call.code = j =>
                   task'[g] = task[g] \/ Spent(j)'
  <2>1. CASE g = h
    BY <1>0, <1>6, <1>9, <2>1 DEF At, Redeeming
  <2>2. CASE g # h
    BY <1>7, <1>8, <2>2, OthersStill
  <2> QED
    BY <2>1, <2>2
<1>11. \A u \in Users : Exists(u)' => Exists(u)
  BY <1>1 DEF Exists
<1> QED
  BY <1>7, <1>10, <1>11, TrackedFollows

(* A redemption cut short at its mark is remembered as such.               *)
LEMMA FailTracked ==
  ASSUME AccountsOK, Tracked, Remember, NEW h \in Handlers, Fail(h)
  PROVE  Tracked'
<1>1. ~At(h, "idle") /\ UNCHANGED <<users, codes>> /\ Answer(h)
  BY DEF Fail
<1>2. /\ task'[h].pc = "idle" /\ \A g \in Handlers \ {h} : task'[g] = task[g]
      /\ ~At(h, "mark")' /\ ~Redeeming(h)'
  BY <1>1, OneAnswers DEF AccountsOK, At, Redeeming
<1>3. \A k \in Codes : /\ Issued(k) => Issued(k)'
                       /\ Spent(k) => Spent(k)'
                       /\ ~Issued(k)' => codes'[k].usedBy = None
  BY <1>1 DEF Tracked, Issued, Spent
<1>4. At(h, "mark") => task[h].user \in cutShort'
  BY <1>1, <1>2, EndRemembered DEF Tracked, At
<1>5. ASSUME NEW g \in Handlers
      PROVE  /\ At(g, "mark")' => Redeeming(g)'
             /\ Redeeming(g)' => Issued(task[g].call.code)'
             /\ At(g, "mark") => task'[g] = task[g] \/ task[g].user \in cutShort'
  <2>1. CASE g = h
    BY <1>2, <1>4, <2>1
  <2>2. CASE g # h
    BY <1>2, <1>3, <2>2, OthersStill
  <2> QED
    BY <2>1, <2>2
<1>6. \A u \in Users : Exists(u)' => Exists(u)
  BY <1>1 DEF Exists
<1> QED
  BY <1>3, <1>5, <1>6, TrackedFollows

(* Time passing, for sessions and for codes.                               *)
LEMMA ExpireTracked ==
  ASSUME AccountsOK, Tracked, Remember,
         (\E s \in Sessions : ExpireSession(s)) \/ (\E k \in Codes : ExpireCode(k))
  PROVE  Tracked'
<1>1. UNCHANGED <<users, task>>
  BY DEF ExpireSession, ExpireCode
<1>2. \A k \in Codes : /\ Issued(k) => Issued(k)'
                       /\ Spent(k) => Spent(k)'
                       /\ ~Issued(k)' => codes'[k].usedBy = None
  <2>1. CASE UNCHANGED codes
    BY <2>1 DEF Tracked, Issued, Spent
  <2>2. CASE \E k \in Codes : ExpireCode(k)
    BY <2>2 DEF ExpireCode, Tracked, Issued, Spent, AccountsOK, CodesOK
  <2> QED
    BY <2>1, <2>2 DEF ExpireSession
<1>3. \A g \in Handlers : task'[g] = task[g]
  BY <1>1
<1>4. \A g \in Handlers : /\ At(g, "mark")' => Redeeming(g)'
                          /\ Redeeming(g)' => Issued(task[g].call.code)'
  BY <1>2, <1>3, OthersStill
<1>5. \A u \in Users : Exists(u)' => Exists(u)
  BY <1>1 DEF Exists
<1> QED
  BY <1>2, <1>3, <1>4, <1>5, TrackedFollows

LEMMA StandingStillTracked ==
  ASSUME Tracked, UNCHANGED <<vars, made, cutShort>>
  PROVE  Tracked'
BY DEF Tracked, CodesAccountFor, Issued, Redeeming, At, vars

LEMMA TrackedAtFirst ==
  ASSUME HistoryInit
  PROVE  Tracked
<1>1. \A h \in Handlers : task[h].pc = "idle"
  BY IdleFits DEF HistoryInit, Init
<1> QED
  BY <1>1 DEF HistoryInit, Init, Tracked, CodesAccountFor, Issued, Redeeming, At

LEMMA StepTracked ==
  ASSUME AccountsOK, Tracked, [Next /\ Remember]_<<vars, made, cutShort>>
  PROVE  Tracked'
BY StartTracked, AnswerTracked, InsertUserTracked, MarkUsedTracked, FailTracked,
   ExpireTracked, StandingStillTracked DEF Next, Step

(* The history is watched, never in the way: what holds of every step      *)
(* holds with it.                                                          *)
LEMMA HistoryInShape == HistorySpec => []AccountsOK
<1>1. HistoryInit => Init
  BY DEF HistoryInit
<1>2. [Next /\ Remember]_<<vars, made, cutShort>> => [Next]_vars
  BY DEF vars
<1>3. HistorySpec => Spec
  BY <1>1, <1>2, PTL DEF HistorySpec, Spec
<1> QED
  BY <1>3, AccountsInShape, PTL

(* Every account made with an invite code uses the code up, unless its     *)
(* redemption was cut short: RedeemInvite's MarkUsed, however calls        *)
(* overlap, codes expire or are deleted.                                   *)
THEOREM CodesAreAccountedFor == HistorySpec => []CodesAccountFor
<1>1. HistoryInit => Tracked
  BY TrackedAtFirst
<1>2. AccountsOK /\ Tracked /\ [Next /\ Remember]_<<vars, made, cutShort>> => Tracked'
  BY StepTracked
<1>3. Tracked => CodesAccountFor
  BY DEF Tracked
<1> QED
  BY <1>1, <1>2, <1>3, HistoryInShape, PTL DEF HistorySpec

(* A handler leaves idle only by starting a call.                          *)
LEMMA LetInByStart ==
  ASSUME AccountsOK, Next, NEW h \in Handlers, At(h, "idle"), task'[h].pc # "idle"
  PROVE  \E c \in Calls : Start(h, c)
<1>1. CASE \E s \in Sessions : ExpireSession(s)
  BY <1>1 DEF ExpireSession, At
<1>2. CASE \E k \in Codes : ExpireCode(k)
  BY <1>2 DEF ExpireCode, At
<1>3. ASSUME NEW g \in Handlers, Step(g) PROVE FALSE
  <2>1. ~At(g, "idle")
    BY <1>3 DEF Step, UpdateUser, Logout, InsertCode, DeleteCode, OpenSession, InsertUser,
       MarkUsed, Fail, At
  <2>2. \E t : task' = [task EXCEPT ![g] = t]
    BY <1>3 DEF Step, UpdateUser, Logout, InsertCode, DeleteCode, OpenSession, InsertUser,
       MarkUsed, Fail, Answer, Goto
  <2> QED
    BY <2>1, <2>2, OneMoves DEF AccountsOK, At
<1>4. ASSUME NEW g \in Handlers, NEW c \in Calls, Start(g, c) PROVE g = h
  <2>1. \E t : task' = [task EXCEPT ![g] = t]
    BY <1>4 DEF Start, Authenticate, Login, LookUpCode, RunInit, RunCreateUser,
       RunGenerateInvite, Answer, Begin
  <2> QED
    BY <2>1, OneMoves DEF AccountsOK, At
<1> QED
  BY <1>1, <1>2, <1>3, <1>4 DEF Next

(* GetByCode refuses a code that is used, and an unused live code that has *)
(* made accounts has their redemptions still to mark it.                   *)
LEMMA LetInOnlyUnused ==
  ASSUME AccountsOK, Tracked, NEW h \in Handlers, NEW c \in Calls, Start(h, c), c \in CallType,
         task'[h].pc = "insertUser", task'[h].call.op = "redeem",
         NEW u \in made[task'[h].call.code] \ cutShort
  PROVE  \E g \in Handlers : At(g, "mark") /\ task[g].user = u
<1>1. ~Answer(h)
  BY OneAnswers DEF AccountsOK
<1>2. ASSUME NEW pc \in PCs, NEW v \in Users \cup {None}, Begin(h, c, pc, v)
      PROVE  task'[h].call = c
  <2>1. task'[h] = MakeTask(pc, c, v)
    BY <1>2, OneMoves DEF Begin, AccountsOK
  <2> QED
    BY <2>1, MadeTasks
<1>3. CASE LookUpCode(h, c)
  <2>1. /\ codes[c.code].phase = "live" /\ codes[c.code].usedBy = None
        /\ Begin(h, c, "insertUser", None) /\ c.op = "redeem"
    BY <1>1, <1>3 DEF LookUpCode
  <2>2. task'[h].call = c /\ c.code \in Codes
    BY <1>2, <2>1, AccountAssumption DEF PCs
  <2> QED
    BY <2>1, <2>2 DEF Tracked, CodesAccountFor
<1>4. CASE Authenticate(h, c)
  <2>1. c.op \in SessionOps /\ Begin(h, c, NextStep(c.op), Caller(c)) /\ MayCall(c)
    BY <1>1, <1>4 DEF Authenticate
  <2>2. NextStep(c.op) \in PCs /\ Caller(c) \in Users /\ c.op # "redeem"
    BY <2>1, ResolvedCaller DEF NextStep, PCs, SessionOps, AdminOps, AccountsOK
  <2>3. task'[h].call = c
    BY <1>2, <2>1, <2>2
  <2> QED
    BY <2>2, <2>3
<1>5. CASE Login(h, c)
  <2>1. c.op # "redeem" /\ \E v \in Users : Begin(h, c, "openSession", v)
    BY <1>1, <1>5 DEF Login
  <2>2. task'[h].call = c
    BY <1>2, <2>1 DEF PCs
  <2> QED
    BY <2>1, <2>2
<1>6. CASE RunInit(h, c) \/ RunCreateUser(h, c) \/ RunGenerateInvite(h, c)
  <2>1. c.op # "redeem" /\ \E pc \in PCs : Begin(h, c, pc, None)
    BY <1>1, <1>6 DEF RunInit, RunCreateUser, RunGenerateInvite, PCs
  <2>2. task'[h].call = c
    BY <1>2, <2>1
  <2> QED
    BY <2>1, <2>2
<1> QED
  BY <1>3, <1>4, <1>5, <1>6 DEF Start

(* GetByCode lets a redemption in only while each account that the code    *)
(* has made is on the way to marking it, or was cut short.                 *)
THEOREM ReuseTheorem == HistorySpec => ReuseNeedsOverlap
<1>1. HistoryInit => Tracked
  BY TrackedAtFirst
<1>2. AccountsOK /\ Tracked /\ [Next /\ Remember]_<<vars, made, cutShort>> => Tracked'
  BY StepTracked
<1>3. ASSUME AccountsOK, Tracked, Next, NEW h \in Handlers, At(h, "idle"),
             task'[h].pc = "insertUser", task'[h].call.op = "redeem",
             NEW u \in made[task'[h].call.code] \ cutShort
      PROVE  \E g \in Handlers : At(g, "mark") /\ task[g].user = u
  <2>1. PICK c \in Calls : Start(h, c) /\ c \in CallType
    BY <1>3, LetInByStart, CallsAreCalls
  <2> QED
    BY <1>3, <2>1, LetInOnlyUnused
<1>4. AccountsOK /\ Tracked /\ [Next /\ Remember]_<<vars, made, cutShort>> =>
        (\A h \in Handlers :
           At(h, "idle") /\ task'[h].pc = "insertUser" /\ task'[h].call.op = "redeem" =>
             \A u \in made[task'[h].call.code] \ cutShort :
               \E g \in Handlers : At(g, "mark") /\ task[g].user = u)
        \/ UNCHANGED <<vars, made, cutShort>>
  BY <1>3
<1> QED
  BY <1>1, <1>2, <1>4, HistoryInShape, PTL DEF HistorySpec, ReuseNeedsOverlap
=============================================================================
