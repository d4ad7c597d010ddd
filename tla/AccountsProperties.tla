-------------------------- MODULE AccountsProperties --------------------------
(***************************************************************************)
(* What the accounts promise when the calls of several people overlap.     *)
(***************************************************************************)
EXTENDS Accounts

VARIABLES
  made,     \* invite code -> the users whose accounts were made with it
  cutShort  \* the users whose redemption ended before it marked its code

Redeeming(h) == task[h].call.op = "redeem" /\ task[h].pc \in {"insertUser", "mark"}

Remember ==
  LET acting == {h \in Handlers : Redeeming(h) /\ task'[h] # task[h]}
      born == {u \in Users : ~Exists(u) /\ Exists(u)'}
      accountOf(h) == IF At(h, "mark") THEN {task[h].user} ELSE born
  IN
  /\ made' = [k \in Codes |-> made[k] \cup
                {u \in born : \E h \in acting : task[h].call.code = k}]
  /\ cutShort' = cutShort \cup
                   UNION {accountOf(h) : h \in {g \in acting : task'[g].pc = "idle"}}

HistoryInit == Init /\ made = [k \in Codes |-> {}] /\ cutShort = {}
HistorySpec == HistoryInit /\ [][Next /\ Remember]_<<vars, made, cutShort>>

-----------------------------------------------------------------------------
(* Types, and the references between the tables and the calls in progress: *)
(* usernames are unique, a session and a used code belong to a user that   *)
(* exists, and an update is never of the caller.                           *)
UsersOK ==
  /\ users \in [Users -> User]
  /\ \A u, v \in Users : Exists(u) /\ users[u].name = users[v].name => u = v
SessionsOK ==
  /\ sessions \in [Sessions -> Users \cup {"unborn", "over"}]
  /\ \A s \in Sessions : sessions[s] \in Users => Exists(sessions[s])
CodesOK ==
  /\ codes \in [Codes -> Code]
  /\ \A k \in Codes : codes[k].usedBy # None => Exists(codes[k].usedBy)
TaskOK(t) ==
  /\ t \in Task
  /\ t.pc # "idle" => t.call \in Calls
  /\ t.pc = "insertUser" => t.call.name \in Names
                            /\ t.call.op \in {"createUser", "create-user", "init", "redeem"}
  /\ t.pc = "endSession" => t.call.session \in Sessions
  /\ t.pc \in {"deleteCode", "mark"} => t.call.code \in Codes
  /\ t.pc \in {"update", "mark", "openSession"} => t.user \in Users /\ Exists(t.user)
  /\ t.pc = "update" => t.call.user \in Users /\ t.user # t.call.user
TasksOK == task \in [Handlers -> Task] /\ \A h \in Handlers : TaskOK(task[h])
AccountsOK == UsersOK /\ SessionsOK /\ CodesOK /\ TasksOK

(* The handlers refuse to let an admin change the own account, and nothing *)
(* else keeps the last admin.  What that is good for: the last enabled     *)
(* admin can only be demoted or disabled by a call whose caller has been   *)
(* demoted or disabled since the call began.  Calls one after another      *)
(* never leave the server without an admin.                                *)
SomeAdmin == \E u \in Users : Enabled(u) /\ IsAdmin(u)
AdminLossIsARace ==
  [][SomeAdmin /\ ~SomeAdmin' =>
       \E h \in Handlers : /\ At(h, "update") /\ task'[h] # task[h]
                           /\ ~(Enabled(task[h].user) /\ IsAdmin(task[h].user))]_vars

(* Every account made with an invite code uses the code up, unless the     *)
(* redemption was cut short between its two statements: the code is        *)
(* marked or deleted, or the redemption is about to mark it.               *)
CodesAccountFor ==
  \A k \in Codes : \A u \in made[k] \ cutShort :
    \/ codes[k].usedBy # None \/ codes[k].phase = "gone"
    \/ \E h \in Handlers : At(h, "mark") /\ task[h].call.code = k /\ task[h].user = u

(* A redemption is let in only while every account that its code has made  *)
(* is still on the way to marking it, or was cut short: the calls of those *)
(* accounts overlap with it, and nothing that happens to the code, or to   *)
(* the call that marks it, opens it to a later one.                        *)
ReuseNeedsOverlap ==
  [][\A h \in Handlers :
       At(h, "idle") /\ task'[h].pc = "insertUser" /\ task'[h].call.op = "redeem" =>
         \A u \in made[task'[h].call.code] \ cutShort :
           \E g \in Handlers : At(g, "mark") /\ task[g].user = u]_<<vars, made, cutShort>>
=============================================================================
