----------------------------- MODULE LoginLimiter -----------------------------
(***************************************************************************)
(* The login limiter, a table of failed attempts per client address behind *)
(* a mutex, and the two login handlers (JSON API and web form) that use it.*)
(*                                                                         *)
(* The limiter's methods are critical sections and take one step each.     *)
(* Between two of them a handler looks up the user, compares the password  *)
(* and opens a session, while other logins, the cleanup goroutine and the  *)
(* clock go on.  Time is kept as the age of what an entry remembers, up to *)
(* the age beyond which no comparison of the code changes its result.      *)
(***************************************************************************)
EXTENDS Naturals, FiniteSets

CONSTANTS
  Handlers,     \* goroutines serving logins at the same time
  Addresses,    \* client addresses, the keys of the table
  MaxAttempts,  \* maxAttempts
  Window,       \* window, in ticks
  BanFor,       \* banDuration, in ticks
  MaxSessions   \* bound: session rows opened from one address

ASSUME LimiterAssumption ==
  /\ MaxAttempts \in Nat \ {0} /\ Window \in Nat /\ BanFor \in Nat \ {0}
  /\ MaxSessions \in Nat

VARIABLES
  attempts,     \* address -> ipAttempts
  sessions,     \* address -> how many rows of the sessions table it opened
  task          \* handler -> the login it serves and how far it is

vars == <<attempts, sessions, task>>

FirstTryCap == 2 * Window + 1
BannedAtCap == 2 * BanFor + 1

(* firstTry and bannedAt are ages.  bannedAt is only read of banned        *)
(* entries and is 0 in others.                                             *)
Entry == [count : Nat, firstTry : 0 .. FirstTryCap,
          banned : BOOLEAN, bannedAt : 0 .. BannedAtCap, notified : BOOLEAN]
MakeEntry(count, firstTry, banned, bannedAt, notified) ==
  [count |-> count, firstTry |-> firstTry, banned |-> banned,
   bannedAt |-> bannedAt, notified |-> notified]
Absent == MakeEntry(0, 0, FALSE, 0, FALSE)

(* What the name, the password and the code of a login turn out to be.     *)
Credentials == {"blank", "wrong", "disabled", "noCode", "good"}
Vias == {"api", "web"}
Replies == {"none", "ok", "invalid", "unauthorized", "forbidden", "banned",
            "teapot", "error"}
Task == [pc : {"idle", "verify", "strike", "notify", "session", "clear"},
         addr : Addresses \cup {"nobody"}, via : Vias, creds : Credentials,
         reply : Replies]
MakeTask(pc, a, via, creds, reply) ==
  [pc |-> pc, addr |-> a, via |-> via, creds |-> creds, reply |-> reply]
Idle(reply) == MakeTask("idle", "nobody", "api", "blank", reply)

Serving(a) == {h \in Handlers : task[h].addr = a}
InForce(a) == attempts[a].banned /\ attempts[a].bannedAt < BanFor

At(h, pc) == task[h].pc = pc
Goto(h, pc) ==
  task' = [task EXCEPT ![h] =
             MakeTask(pc, task[h].addr, task[h].via, task[h].creds, "none")]
Answer(h, reply) == task' = [task EXCEPT ![h] = Idle(reply)]

-----------------------------------------------------------------------------
(* The table                                                               *)

Fresh == MakeEntry(1, 0, FALSE, 0, FALSE)

(* Mutant: failures are counted without a window.                          *)
Struck_NoWindow(e) ==
  IF e = Absent THEN Fresh
  ELSE IF e.banned /\ e.bannedAt < BanFor THEN e
  ELSE IF e.banned THEN Fresh
  ELSE MakeEntry(e.count + 1, e.firstTry, e.count + 1 >= MaxAttempts, 0, e.notified)

(* Mutant: the flag of the last ban survives its end.                      *)
Struck_KeepsNotice(e) ==
  IF e = Absent THEN Fresh
  ELSE IF e.banned /\ e.bannedAt < BanFor THEN e
  ELSE IF e.banned THEN MakeEntry(1, 0, FALSE, 0, e.notified)
  ELSE IF e.firstTry > Window THEN MakeEntry(1, 0, FALSE, 0, e.notified)
  ELSE MakeEntry(e.count + 1, e.firstTry, e.count + 1 >= MaxAttempts, 0, e.notified)

(* Mutant: the window ends one tick early.                                 *)
Struck_ShortWindow(e) ==
  IF e = Absent THEN Fresh
  ELSE IF e.banned /\ e.bannedAt < BanFor THEN e
  ELSE IF e.banned THEN Fresh
  ELSE IF e.firstTry >= Window THEN MakeEntry(1, 0, FALSE, 0, e.notified)
  ELSE MakeEntry(e.count + 1, e.firstTry, e.count + 1 >= MaxAttempts, 0, e.notified)

(* RecordFailedAttempt on the entry of an address.  A new entry counts its *)
(* first failure and never bans; its result, "now banned", is the banned   *)
(* field of the entry it leaves.                                           *)
Struck(e) ==
  IF e = Absent THEN Fresh
  ELSE IF e.banned /\ e.bannedAt < BanFor THEN e
  ELSE IF e.banned THEN Fresh
  ELSE IF e.firstTry > Window THEN MakeEntry(1, 0, FALSE, 0, e.notified)
  ELSE MakeEntry(e.count + 1, e.firstTry, e.count + 1 >= MaxAttempts, 0, e.notified)

(* Mutant: cleanup looks at the first failure of banned entries too.       *)
Stale_ByFirstTry(e) == e # Absent /\ e.firstTry > 2 * Window

(* Mutant: cleanup never removes a banned entry.                           *)
Stale_UnbannedOnly(e) == e # Absent /\ ~e.banned /\ e.firstTry > 2 * Window

Stale(e) ==
  \/ e # Absent /\ ~e.banned /\ e.firstTry > 2 * Window
  \/ e.banned /\ e.bannedAt > 2 * BanFor

-----------------------------------------------------------------------------
(* POST /api/v1/auth/login and POST /login                                 *)

(* IsBanned, then the checks of the input that need no database.  Only the *)
(* API tells the first refusal of a ban from the later ones.               *)
Arrive(h, a, via, creds) ==
  /\ At(h, "idle")
  /\ sessions[a] + Cardinality(Serving(a)) < MaxSessions
  /\ UNCHANGED <<attempts, sessions>>
  /\ IF InForce(a)
     THEN IF via = "web" THEN Answer(h, "banned")
          ELSE IF attempts[a].notified THEN Answer(h, "teapot")
          ELSE task' = [task EXCEPT ![h] = MakeTask("notify", a, via, creds, "none")]
     ELSE IF via = "api" /\ creds = "blank" THEN Answer(h, "invalid")
     ELSE task' = [task EXCEPT ![h] = MakeTask("verify", a, via, creds, "none")]

(* GetByUsername and the comparison of the password; a disabled account or *)
(* a missing or wrong TOTP code is refused and not counted.                *)
Verify(h) ==
  LET creds == task[h].creds IN
  /\ At(h, "verify")
  /\ UNCHANGED <<attempts, sessions>>
  /\ \/ creds \in {"blank", "wrong"} /\ Goto(h, "strike")
     \/ creds = "disabled" /\ Answer(h, "forbidden")
     \/ creds = "noCode" /\ Answer(h, "unauthorized")
     \/ creds = "good" /\ Goto(h, "session")
     \/ Answer(h, "error")

RecordFailedAttempt(h) ==
  LET a == task[h].addr
      e == Struck(attempts[a]) IN
  /\ At(h, "strike")
  /\ attempts' = [attempts EXCEPT ![a] = e]
  /\ UNCHANGED sessions
  /\ IF ~e.banned THEN Answer(h, "unauthorized")
     ELSE IF task[h].via = "web" THEN Answer(h, "banned")
     ELSE Goto(h, "notify")

(* Mutant: the flag is set on entries that are not banned.                 *)
MarkNotified_Unchecked(h) ==
  LET a == task[h].addr
      e == attempts[a] IN
  /\ At(h, "notify")
  /\ attempts' = IF e # Absent
                 THEN [attempts EXCEPT ![a] =
                         MakeEntry(e.count, e.firstTry, e.banned, e.bannedAt, TRUE)]
                 ELSE attempts
  /\ UNCHANGED sessions
  /\ Answer(h, "banned")

(* The ban may have ended, and the entry may have gone, since it was seen. *)
MarkNotified(h) ==
  LET a == task[h].addr
      e == attempts[a] IN
  /\ At(h, "notify")
  /\ attempts' = IF e.banned
                 THEN [attempts EXCEPT ![a] =
                         MakeEntry(e.count, e.firstTry, TRUE, e.bannedAt, TRUE)]
                 ELSE attempts
  /\ UNCHANGED sessions
  /\ Answer(h, "banned")

(* sessions.Create; its row can be there and its answer lost.              *)
OpenSession(h) ==
  LET a == task[h].addr IN
  /\ At(h, "session")
  /\ UNCHANGED attempts
  /\ \/ /\ sessions' = [sessions EXCEPT ![a] = @ + 1]
        /\ Goto(h, "clear") \/ Answer(h, "error")
     \/ UNCHANGED sessions /\ Answer(h, "error")

RecordSuccess(h) ==
  /\ At(h, "clear")
  /\ attempts' = [attempts EXCEPT ![task[h].addr] = Absent]
  /\ UNCHANGED sessions
  /\ Answer(h, "ok")

-----------------------------------------------------------------------------
(* What goes on around the logins                                          *)

(* One round of the cleanup goroutine, under the lock.                     *)
Cleanup ==
  /\ attempts' = [a \in Addresses |->
                    IF Stale(attempts[a]) THEN Absent ELSE attempts[a]]
  /\ UNCHANGED <<sessions, task>>

(* Logout, or DeleteExpired of the hourly session cleanup.                 *)
EndSession(a) ==
  /\ sessions[a] > 0
  /\ sessions' = [sessions EXCEPT ![a] = @ - 1]
  /\ UNCHANGED <<attempts, task>>

(* The process stops and is started again: the table was in its memory,    *)
(* the sessions are in the database.                                       *)
Restart ==
  /\ attempts' = [a \in Addresses |-> Absent]
  /\ task' = [h \in Handlers |-> Idle("none")]
  /\ UNCHANGED sessions

Later(age, cap) == IF age < cap THEN age + 1 ELSE cap
Aged(e) ==
  IF e = Absent THEN e
  ELSE MakeEntry(e.count, Later(e.firstTry, FirstTryCap), e.banned,
                 IF e.banned THEN Later(e.bannedAt, BannedAtCap) ELSE 0, e.notified)
Tick ==
  /\ attempts' = [a \in Addresses |-> Aged(attempts[a])]
  /\ UNCHANGED <<sessions, task>>

Init ==
  /\ attempts = [a \in Addresses |-> Absent]
  /\ sessions = [a \in Addresses |-> 0]
  /\ task = [h \in Handlers |-> Idle("none")]

Step(h) ==
  \/ Verify(h) \/ RecordFailedAttempt(h) \/ MarkNotified(h)
  \/ OpenSession(h) \/ RecordSuccess(h)

Next ==
  \/ \E h \in Handlers :
       \/ \E a \in Addresses, via \in Vias, creds \in Credentials : Arrive(h, a, via, creds)
       \/ Step(h)
  \/ \E a \in Addresses : EndSession(a)
  \/ Cleanup \/ Restart \/ Tick

Spec == Init /\ [][Next]_vars

(* Handlers go on, the ticker of the cleanup keeps firing, time passes.    *)
Fairness ==
  /\ \A h \in Handlers : WF_vars(Step(h))
  /\ WF_vars(Cleanup) /\ WF_vars(Tick)

FairSpec == Spec /\ Fairness
=============================================================================
