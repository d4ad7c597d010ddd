---------------------------- MODULE LimiterProofs ----------------------------
(***************************************************************************)
(* Theorems about the login limiter, for any number of handlers, addresses *)
(* and attempts and for any window and ban; what bounds the failures, for  *)
(* more than one attempt and bans that outlast the window.                 *)
(***************************************************************************)
EXTENDS LimiterProperties, FiniteSetTheorems, TLAPS

(* An entry built from parts of the right type is an entry.                *)
LEMMA MadeEntries ==
  ASSUME NEW n \in Nat, NEW f \in 0 .. FirstTryCap, NEW b \in BOOLEAN,
         NEW t \in 0 .. BannedAtCap, NEW o \in BOOLEAN
  PROVE  /\ MakeEntry(n, f, b, t, o) \in Entry
         /\ MakeEntry(n, f, b, t, o).count = n
         /\ MakeEntry(n, f, b, t, o).firstTry = f
         /\ MakeEntry(n, f, b, t, o).banned = b
         /\ MakeEntry(n, f, b, t, o).bannedAt = t
         /\ MakeEntry(n, f, b, t, o).notified = o
BY DEF MakeEntry, Entry

(* The ages an entry may have include 0.                                   *)
LEMMA CapsArePositive ==
  /\ FirstTryCap \in Nat /\ BannedAtCap \in Nat
  /\ 0 \in 0 .. FirstTryCap /\ 0 \in 0 .. BannedAtCap
BY LimiterAssumption DEF FirstTryCap, BannedAtCap

LEMMA AbsentFits ==
  /\ Absent \in Entry /\ EntryFits(Absent)
  /\ Absent.count = 0 /\ Absent.banned = FALSE /\ Absent.notified = FALSE
<1>1. Absent \in Entry
  BY CapsArePositive DEF Absent, MakeEntry, Entry
<1>2. Absent.count = 0 /\ Absent.banned = FALSE /\ Absent.notified = FALSE
  BY DEF Absent, MakeEntry
<1> QED
  BY <1>1, <1>2 DEF EntryFits

(* RecordFailedAttempt keeps entries in shape, leaves a ban in force as it *)
(* is, and marks a ban it starts as not yet announced.                     *)
LEMMA StruckFits ==
  ASSUME NEW e \in Entry, EntryFits(e)
  PROVE  /\ Struck(e) \in Entry /\ EntryFits(Struck(e))
         /\ e.banned /\ e.bannedAt < BanFor => Struck(e) = e
         /\ ~(e.banned /\ e.bannedAt < BanFor) => Struck(e).notified = FALSE
<1>1. /\ e.count \in Nat /\ e.firstTry \in 0 .. FirstTryCap
      /\ e.banned \in BOOLEAN /\ e.bannedAt \in 0 .. BannedAtCap
      /\ e.notified \in BOOLEAN
  BY DEF Entry
<1>2. BanFor \in Nat /\ MaxAttempts \in Nat \ {0} /\ Window \in Nat
  BY LimiterAssumption
<1>3. /\ Fresh \in Entry /\ EntryFits(Fresh) /\ Fresh.notified = FALSE
  <2>1. Fresh \in Entry
    BY CapsArePositive DEF Fresh, MakeEntry, Entry
  <2>2. /\ Fresh.count = 1 /\ Fresh.banned = FALSE
        /\ Fresh.bannedAt = 0 /\ Fresh.notified = FALSE
    BY DEF Fresh, MakeEntry
  <2> QED
    BY <2>1, <2>2 DEF EntryFits
<1>4. CASE e = Absent
  <2>1. Struck(e) = Fresh
    BY <1>4, AbsentFits DEF Struck
  <2> QED
    BY <2>1, <1>3, <1>4, AbsentFits
<1>5. CASE e # Absent /\ e.banned /\ e.bannedAt < BanFor
  <2>1. Struck(e) = e
    BY <1>5 DEF Struck
  <2> QED
    BY <2>1, <1>5
<1>6. CASE e # Absent /\ e.banned /\ ~(e.bannedAt < BanFor)
  <2>1. Struck(e) = Fresh
    BY <1>1, <1>2, <1>6, CapsArePositive DEF Struck
  <2> QED
    BY <2>1, <1>3, <1>6
<1>7. CASE e # Absent /\ ~e.banned /\ e.firstTry > Window
  <2>1. e.notified = FALSE
    BY <1>1, <1>7 DEF EntryFits
  <2>2. Struck(e) = Fresh
    BY <1>7, <2>1 DEF Struck, Fresh
  <2> QED
    BY <2>2, <1>3, <1>7
<1>8. CASE e # Absent /\ ~e.banned /\ ~(e.firstTry > Window)
  <2>1. e.notified = FALSE
    BY <1>1, <1>8 DEF EntryFits
  <2> DEFINE n == e.count + 1
             s == MakeEntry(n, e.firstTry, n >= MaxAttempts, 0, FALSE)
  <2>2. Struck(e) = s
    BY <1>8, <2>1 DEF Struck
  <2>3. n \in Nat /\ n > 0 /\ (n >= MaxAttempts) \in BOOLEAN
    BY <1>1, <1>2
  <2>4. CASE n >= MaxAttempts
    <3>1. s = MakeEntry(n, e.firstTry, TRUE, 0, FALSE)
      BY <2>4
    <3>2. s \in Entry /\ s.count = n /\ s.banned = TRUE /\ s.notified = FALSE
      BY <1>1, <2>3, <3>1, CapsArePositive DEF MakeEntry, Entry
    <3>3. EntryFits(s)
      BY <2>3, <3>2 DEF EntryFits
    <3> QED
      BY <2>2, <3>2, <3>3, <1>8
  <2>5. CASE ~(n >= MaxAttempts)
    <3>0. n < MaxAttempts /\ (n >= MaxAttempts) = FALSE
      BY <1>1, <1>2, <2>5
    <3>1. s = MakeEntry(n, e.firstTry, FALSE, 0, FALSE)
      BY <3>0, Zenon
    <3>2. /\ s \in Entry /\ s.count = n /\ s.banned = FALSE
          /\ s.bannedAt = 0 /\ s.notified = FALSE
      BY <1>1, <2>3, <3>1, CapsArePositive DEF MakeEntry, Entry
    <3>3. EntryFits(s)
      BY <2>3, <3>0, <3>2 DEF EntryFits
    <3> QED
      BY <2>2, <3>2, <3>3, <1>8
  <2> QED
    BY <2>4, <2>5
<1> QED
  BY <1>1, <1>4, <1>5, <1>6, <1>7, <1>8

(* Time keeps entries in shape, and neither starts nor announces a ban.    *)
LEMMA AgedFits ==
  ASSUME NEW e \in Entry, EntryFits(e)
  PROVE  /\ Aged(e) \in Entry /\ EntryFits(Aged(e))
         /\ Aged(e).banned = e.banned
         /\ e.banned /\ Aged(e).bannedAt < BanFor => e.bannedAt < BanFor
<1>1. /\ e.count \in Nat /\ e.firstTry \in 0 .. FirstTryCap
      /\ e.banned \in BOOLEAN /\ e.bannedAt \in 0 .. BannedAtCap
      /\ e.notified \in BOOLEAN
  BY DEF Entry
<1>2. CASE e = Absent
  <2>1. Aged(e) = e
    BY <1>2 DEF Aged
  <2> QED
    BY <2>1
<1>3. CASE e # Absent
  <2> DEFINE f == Later(e.firstTry, FirstTryCap)
             t == IF e.banned THEN Later(e.bannedAt, BannedAtCap) ELSE 0
  <2>1. f \in 0 .. FirstTryCap /\ t \in 0 .. BannedAtCap
    BY <1>1, CapsArePositive DEF Later
  <2>2. Aged(e) = MakeEntry(e.count, f, e.banned, t, e.notified)
    BY <1>3 DEF Aged
  <2>3. /\ Aged(e) \in Entry /\ Aged(e).count = e.count /\ Aged(e).banned = e.banned
        /\ Aged(e).bannedAt = t /\ Aged(e).notified = e.notified
    BY <1>1, <2>1, <2>2, MadeEntries
  <2>4. EntryFits(Aged(e))
    BY <1>3, <2>3 DEF EntryFits
  <2>5. e.banned /\ t < BanFor => e.bannedAt < BanFor
    BY <1>1, CapsArePositive, LimiterAssumption DEF Later
  <2> QED
    BY <2>3, <2>4, <2>5
<1> QED
  BY <1>2, <1>3

-----------------------------------------------------------------------------
(* A step of one handler that leaves at most one entry changed.            *)
LEMMA OneHandlerStep ==
  ASSUME LimiterOK, NEW h \in Handlers, NEW t \in Task,
         t.pc = "idle" \/ t.addr \in Addresses,
         task' = [task EXCEPT ![h] = t],
         sessions' \in [Addresses -> Nat],
         NEW a \in Addresses, NEW e \in Entry, EntryFits(e),
         attempts' = attempts \/ attempts' = [attempts EXCEPT ![a] = e]
  PROVE  LimiterOK'
BY DEF LimiterOK, At, EntryFits

(* The two answers of a handler are tasks.                                 *)
LEMMA TasksFit ==
  /\ \A r \in Replies : Idle(r) \in Task /\ Idle(r).pc = "idle"
  /\ \A pc \in {"idle", "verify", "strike", "notify", "session", "clear"},
        a \in Addresses, via \in Vias, creds \in Credentials, r \in Replies :
       /\ MakeTask(pc, a, via, creds, r) \in Task
       /\ MakeTask(pc, a, via, creds, r).addr = a
BY DEF Idle, MakeTask, Task, Vias, Credentials

LEMMA InitOK == Init => LimiterOK
<1> SUFFICES ASSUME Init PROVE LimiterOK
  OBVIOUS
<1>1. attempts \in [Addresses -> Entry] /\ \A a \in Addresses : EntryFits(attempts[a])
  BY AbsentFits DEF Init
<1>2. Idle("none") \in Task /\ Idle("none").pc = "idle"
  BY TasksFit DEF Replies
<1>3. task \in [Handlers -> Task] /\ \A h \in Handlers : task[h].pc = "idle"
  BY <1>2 DEF Init
<1>4. sessions \in [Addresses -> Nat]
  BY DEF Init
<1> QED
  BY <1>1, <1>3, <1>4 DEF LimiterOK, At

(* Every step keeps the limiter in shape: one case per action.             *)
LEMMA NextOK == LimiterOK /\ [Next]_vars => LimiterOK'
<1> SUFFICES ASSUME LimiterOK, [Next]_vars PROVE LimiterOK'
  OBVIOUS
<1>0. /\ attempts \in [Addresses -> Entry] /\ sessions \in [Addresses -> Nat]
      /\ task \in [Handlers -> Task] /\ \A a \in Addresses : EntryFits(attempts[a])
  BY DEF LimiterOK
<1> DEFINE Served(h) == /\ task[h].addr \in Addresses /\ task[h].via \in Vias
                        /\ task[h].creds \in Credentials
<1>1. \A h \in Handlers : ~At(h, "idle") => Served(h)
  BY DEF LimiterOK, Task
<1>2. ASSUME NEW h \in Handlers, NEW a \in Addresses, NEW via \in Vias,
             NEW creds \in Credentials, Arrive(h, a, via, creds)
      PROVE  LimiterOK'
  <2>1. \E t \in Task : /\ task' = [task EXCEPT ![h] = t]
                        /\ t.pc = "idle" \/ t.addr \in Addresses
    BY <1>2, TasksFit DEF Arrive, Answer, Replies
  <2>2. attempts' = attempts /\ sessions' = sessions
    BY <1>2 DEF Arrive
  <2> QED
    BY <1>0, <2>1, <2>2, AbsentFits, OneHandlerStep
<1>3. ASSUME NEW h \in Handlers, Verify(h)
      PROVE  LimiterOK'
  <2>1. Served(h)
    BY <1>1, <1>3 DEF Verify, At
  <2>2. \E t \in Task : /\ task' = [task EXCEPT ![h] = t]
                        /\ t.pc = "idle" \/ t.addr \in Addresses
    BY <1>3, <2>1, TasksFit DEF Verify, Goto, Answer, Replies
  <2>3. attempts' = attempts /\ sessions' = sessions
    BY <1>3 DEF Verify
  <2> QED
    BY <1>0, <2>1, <2>2, <2>3, AbsentFits, OneHandlerStep
<1>4. ASSUME NEW h \in Handlers, RecordFailedAttempt(h)
      PROVE  LimiterOK'
  <2>1. Served(h)
    BY <1>1, <1>4 DEF RecordFailedAttempt, At
  <2>2. \E t \in Task : /\ task' = [task EXCEPT ![h] = t]
                        /\ t.pc = "idle" \/ t.addr \in Addresses
    BY <1>4, <2>1, TasksFit DEF RecordFailedAttempt, Goto, Answer, Replies
  <2> DEFINE e == Struck(attempts[task[h].addr])
  <2>3. attempts' = [attempts EXCEPT ![task[h].addr] = e] /\ sessions' = sessions
    BY <1>4 DEF RecordFailedAttempt
  <2>4. e \in Entry /\ EntryFits(e)
    BY <1>0, <2>1, StruckFits
  <2> QED
    BY <1>0, <2>1, <2>2, <2>3, <2>4, OneHandlerStep
<1>5. ASSUME NEW h \in Handlers, MarkNotified(h)
      PROVE  LimiterOK'
  <2>1. Served(h)
    BY <1>1, <1>5 DEF MarkNotified, At
  <2>2. \E t \in Task : /\ task' = [task EXCEPT ![h] = t]
                        /\ t.pc = "idle" \/ t.addr \in Addresses
    BY <1>5, TasksFit DEF MarkNotified, Answer, Replies
  <2>3. sessions' = sessions
    BY <1>5 DEF MarkNotified
  <2> DEFINE old == attempts[task[h].addr]
             e == MakeEntry(old.count, old.firstTry, TRUE, old.bannedAt, TRUE)
  <2>4. old \in Entry /\ EntryFits(old)
    BY <1>0, <2>1
  <2>5. CASE ~old.banned
    <3>1. attempts' = attempts
      BY <1>5, <2>5 DEF MarkNotified
    <3> QED
      BY <1>0, <2>1, <2>2, <2>3, <3>1, AbsentFits, OneHandlerStep
  <2>6. CASE old.banned
    <3>1. attempts' = [attempts EXCEPT ![task[h].addr] = e]
      BY <1>5, <2>6 DEF MarkNotified
    <3>2. e \in Entry /\ e.banned = TRUE /\ e.count = old.count
      BY <2>4 DEF MakeEntry, Entry
    <3>3. old # Absent
      BY <2>6, AbsentFits
    <3>4. EntryFits(e)
      BY <2>4, <3>2, <3>3 DEF EntryFits
    <3> QED
      BY <1>0, <2>1, <2>2, <2>3, <3>1, <3>2, <3>4, OneHandlerStep
  <2> QED
    BY <2>5, <2>6
<1>6. ASSUME NEW h \in Handlers, OpenSession(h)
      PROVE  LimiterOK'
  <2>1. Served(h)
    BY <1>1, <1>6 DEF OpenSession, At
  <2>2. \E t \in Task : /\ task' = [task EXCEPT ![h] = t]
                        /\ t.pc = "idle" \/ t.addr \in Addresses
    BY <1>6, <2>1, TasksFit DEF OpenSession, Goto, Answer, Replies
  <2>3. attempts' = attempts /\ sessions' \in [Addresses -> Nat]
    BY <1>0, <1>6, <2>1 DEF OpenSession
  <2> QED
    BY <1>0, <2>1, <2>2, <2>3, AbsentFits, OneHandlerStep
<1>7. ASSUME NEW h \in Handlers, RecordSuccess(h)
      PROVE  LimiterOK'
  <2>1. Served(h)
    BY <1>1, <1>7 DEF RecordSuccess, At
  <2>2. \E t \in Task : /\ task' = [task EXCEPT ![h] = t]
                        /\ t.pc = "idle" \/ t.addr \in Addresses
    BY <1>7, TasksFit DEF RecordSuccess, Answer, Replies
  <2>3. attempts' = [attempts EXCEPT ![task[h].addr] = Absent] /\ sessions' = sessions
    BY <1>7 DEF RecordSuccess
  <2> QED
    BY <1>0, <2>1, <2>2, <2>3, AbsentFits, OneHandlerStep
<1>8. ASSUME NEW a \in Addresses, EndSession(a)
      PROVE  LimiterOK'
  <2>1. sessions' \in [Addresses -> Nat] /\ attempts' = attempts /\ task' = task
    BY <1>0, <1>8 DEF EndSession
  <2> QED
    BY <2>1 DEF LimiterOK, At, EntryFits
<1>9. ASSUME Cleanup \/ Restart \/ Tick
      PROVE  LimiterOK'
  <2>1. attempts' \in [Addresses -> Entry] /\ \A a \in Addresses : EntryFits(attempts'[a])
    BY <1>0, <1>9, AbsentFits, AgedFits DEF Cleanup, Restart, Tick
  <2>2. /\ sessions' = sessions
        /\ task' = task \/ task' = [h \in Handlers |-> Idle("none")]
    BY <1>9 DEF Cleanup, Restart, Tick
  <2>3. Idle("none") \in Task /\ Idle("none").pc = "idle"
    BY TasksFit DEF Replies
  <2>4. /\ task' \in [Handlers -> Task]
        /\ \A h \in Handlers : task'[h].pc = "idle" \/ task'[h].addr \in Addresses
    BY <2>2, <2>3 DEF LimiterOK, At
  <2> QED
    BY <1>0, <2>1, <2>2, <2>4 DEF LimiterOK, At, EntryFits
<1>10. CASE UNCHANGED vars
  BY <1>10 DEF vars, LimiterOK, At, EntryFits
<1> QED
  BY <1>2, <1>3, <1>4, <1>5, <1>6, <1>7, <1>8, <1>9, <1>10 DEF Next, Step

(* The table and the handlers are always in shape; above all, an address   *)
(* that is not banned still has attempts left and no ban to be told of.    *)
THEOREM LimiterInShape == Spec => []LimiterOK
BY InitOK, NextOK, PTL DEF Spec

-----------------------------------------------------------------------------
(* All that can happen to the entry of an address in one step.             *)
LEMMA EntryChanges ==
  ASSUME LimiterOK, [Next]_vars, NEW a \in Addresses
  PROVE  \/ attempts'[a] = attempts[a]
         \/ attempts'[a] = Struck(attempts[a])
         \/ /\ attempts[a].banned /\ attempts'[a].banned
            /\ attempts'[a].bannedAt = attempts[a].bannedAt
         \/ attempts'[a] = Aged(attempts[a])
         \/ attempts'[a] = Absent /\ Stale(attempts[a])
         \/ attempts'[a] = Absent /\ Restart
         \/ /\ attempts'[a] = Absent
            /\ \E h \in Handlers : task[h].addr = a /\ RecordSuccess(h)
<1>0. attempts \in [Addresses -> Entry]
  BY DEF LimiterOK
<1>1. ASSUME NEW h \in Handlers, MarkNotified(h)
      PROVE  \/ attempts'[a] = attempts[a]
             \/ /\ attempts[a].banned /\ attempts'[a].banned
                /\ attempts'[a].bannedAt = attempts[a].bannedAt
  BY <1>0, <1>1 DEF MarkNotified, MakeEntry
<1>2. ASSUME NEW h \in Handlers, RecordFailedAttempt(h)
      PROVE  attempts'[a] = attempts[a] \/ attempts'[a] = Struck(attempts[a])
  BY <1>0, <1>2 DEF RecordFailedAttempt
<1>3. ASSUME NEW h \in Handlers, RecordSuccess(h)
      PROVE  \/ attempts'[a] = attempts[a]
             \/ attempts'[a] = Absent /\ task[h].addr = a
  BY <1>0, <1>3 DEF RecordSuccess
<1>4. ASSUME NEW h \in Handlers,
             \/ Verify(h) \/ OpenSession(h)
             \/ \E b \in Addresses, via \in Vias, creds \in Credentials :
                  Arrive(h, b, via, creds)
      PROVE  attempts'[a] = attempts[a]
  BY <1>4 DEF Verify, OpenSession, Arrive
<1>5. ASSUME NEW b \in Addresses, EndSession(b)
      PROVE  attempts'[a] = attempts[a]
  BY <1>5 DEF EndSession
<1>6. CASE Cleanup
  BY <1>6 DEF Cleanup
<1>7. CASE Restart
  BY <1>7 DEF Restart
<1>8. CASE Tick
  BY <1>8 DEF Tick
<1>9. CASE UNCHANGED vars
  BY <1>9 DEF vars
<1> QED
  BY <1>1, <1>2, <1>3, <1>4, <1>5, <1>6, <1>7, <1>8, <1>9 DEF Next, Step

(* No ban starts with the notice of an earlier one.                        *)
THEOREM BansStartFresh == Spec => FreshBan
<1>1. ASSUME LimiterOK, [Next]_vars, NEW a \in Addresses, ~InForce(a), InForce(a)'
      PROVE  ~attempts'[a].notified
  <2>1. attempts[a] \in Entry /\ EntryFits(attempts[a])
    BY <1>1 DEF LimiterOK
  <2>2. attempts'[a].banned /\ attempts'[a].bannedAt < BanFor
    BY <1>1 DEF InForce
  <2>3. ~(attempts[a].banned /\ attempts[a].bannedAt < BanFor)
    BY <1>1 DEF InForce
  <2>4. attempts'[a] # Aged(attempts[a])
    BY <2>1, <2>2, <2>3, AgedFits
  <2>5. attempts'[a] = Struck(attempts[a])
    BY <1>1, <2>2, <2>3, <2>4, EntryChanges, AbsentFits
  <2> QED
    BY <2>1, <2>3, <2>5, StruckFits
<1>2. LimiterOK /\ [Next]_vars =>
        [\A a \in Addresses :
           ~InForce(a) /\ InForce(a)' => ~attempts'[a].notified]_vars
  BY <1>1
<1> QED
  BY <1>2, LimiterInShape, PTL DEF Spec, FreshBan

(* A ban in force is lifted early by a success or a restart only.          *)
THEOREM BansHold == Spec => BanHolds
<1>1. ASSUME LimiterOK, [Next]_vars, NEW a \in Addresses, InForce(a), ~InForce(a)'
      PROVE  \/ attempts'[a].banned
             \/ \E h \in Handlers : task[h].addr = a /\ RecordSuccess(h)
             \/ Restart
  <2>1. attempts[a] \in Entry /\ EntryFits(attempts[a])
    BY <1>1 DEF LimiterOK
  <2>2. attempts[a].banned /\ attempts[a].bannedAt < BanFor
    BY <1>1 DEF InForce
  <2>3. ~Stale(attempts[a])
    BY <2>1, <2>2, LimiterAssumption DEF Stale, Entry, BannedAtCap
  <2>4. attempts'[a] = Struck(attempts[a]) => attempts'[a].banned
    BY <2>1, <2>2, StruckFits
  <2>5. attempts'[a] = Aged(attempts[a]) => attempts'[a].banned
    BY <2>1, <2>2, AgedFits
  <2> QED
    BY <1>1, <2>2, <2>3, <2>4, <2>5, EntryChanges
<1>2. LimiterOK /\ [Next]_vars =>
        [\A a \in Addresses :
           InForce(a) /\ ~InForce(a)' =>
             \/ attempts'[a].banned
             \/ \E h \in Handlers : task[h].addr = a /\ RecordSuccess(h)
             \/ Restart]_vars
  BY <1>1
<1> QED
  BY <1>2, LimiterInShape, PTL DEF Spec, BanHolds

-----------------------------------------------------------------------------
(* Counting the failures                                                   *)

(* A failure keeps its number when it grows older.                         *)
LEMMA FailureFields ==
  ASSUME NEW k, NEW n
  PROVE  MakeFailure(k, n).age = k /\ MakeFailure(k, n).nr = n
BY DEF MakeFailure

LEMMA FailureTypes ==
  /\ Window \in Nat
  /\ \A f \in Failure : f.age \in 0 .. Window /\ f.nr \in Nat
  /\ \A f, g \in Failure : f.age = g.age /\ f.nr = g.nr => f = g
  /\ \A k \in 0 .. Window, n \in Nat : MakeFailure(k, n) \in Failure
BY LimiterAssumption DEF Failure, MakeFailure

(* One more failure is a new one, and counts since any time.               *)
LEMMA OneMoreCounts ==
  ASSUME NEW F \in SUBSET Failure, IsFiniteSet(F),
         \A f \in New(F) : f.nr < Cardinality(New(F))
  PROVE  /\ OneMore(F) \in SUBSET Failure /\ IsFiniteSet(OneMore(F))
         /\ \A f \in New(OneMore(F)) : f.nr < Cardinality(New(OneMore(F)))
         /\ Cardinality(F) \in Nat /\ Cardinality(OneMore(F)) = Cardinality(F) + 1
         /\ \A k \in Nat :
              /\ Cardinality(Since(F, k)) \in Nat
              /\ Cardinality(Since(OneMore(F), k)) = Cardinality(Since(F, k)) + 1
<1> DEFINE n == Cardinality(New(F))
           x == MakeFailure(0, n)
<1>1. IsFiniteSet(New(F)) /\ n \in Nat
  BY FS_Subset, FS_CardinalityType DEF New
<1>2. x \in Failure /\ x.age = 0 /\ x.nr = n
  BY <1>1, FailureTypes, FailureFields
<1> HIDE DEF n, x
<1>3. x \notin F
  BY <1>1, <1>2 DEF New, n
<1>4. OneMore(F) = F \cup {x}
  BY DEF OneMore, n, x
<1>5. New(OneMore(F)) = New(F) \cup {x} /\ x \notin New(F)
  BY <1>2, <1>3, <1>4 DEF New
<1>6. Cardinality(New(OneMore(F))) = n + 1
  BY <1>1, <1>5, FS_AddElement DEF n
<1>7. \A f \in New(OneMore(F)) : f.nr < Cardinality(New(OneMore(F)))
  <2>1. \A f \in New(F) : f.nr < n /\ f.nr \in Nat
    BY FailureTypes DEF New, n
  <2> QED
    BY <1>1, <1>2, <1>5, <1>6, <2>1
<1>8. OneMore(F) \in SUBSET Failure /\ IsFiniteSet(OneMore(F))
  BY <1>2, <1>4, FS_AddElement
<1>9. Cardinality(F) \in Nat /\ Cardinality(OneMore(F)) = Cardinality(F) + 1
  BY <1>3, <1>4, FS_AddElement, FS_CardinalityType
<1>10. ASSUME NEW k \in Nat
       PROVE  /\ Cardinality(Since(F, k)) \in Nat
              /\ Cardinality(Since(OneMore(F), k)) = Cardinality(Since(F, k)) + 1
  <2>1. IsFiniteSet(Since(F, k)) /\ Cardinality(Since(F, k)) \in Nat
    BY FS_Subset, FS_CardinalityType DEF Since
  <2>2. Since(OneMore(F), k) = Since(F, k) \cup {x} /\ x \notin Since(F, k)
    BY <1>2, <1>3, <1>4 DEF Since
  <2> QED
    BY <2>1, <2>2, FS_AddElement
<1> QED
  BY <1>7, <1>8, <1>9, <1>10

(* What grows older stays as many.                                         *)
LEMMA OlderCounts ==
  ASSUME NEW G \in SUBSET Failure, IsFiniteSet(G)
  PROVE  /\ IsFiniteSet({MakeFailure(f.age + 1, f.nr) : f \in G})
         /\ Cardinality({MakeFailure(f.age + 1, f.nr) : f \in G}) = Cardinality(G)
<1> DEFINE H == {MakeFailure(f.age + 1, f.nr) : f \in G}
           b == [f \in G |-> MakeFailure(f.age + 1, f.nr)]
<1>1. b \in [G -> H] /\ \A h \in H : \E f \in G : b[f] = h
  OBVIOUS
<1>2. ASSUME NEW f \in G, NEW g \in G, b[f] = b[g] PROVE f = g
  <2>1. MakeFailure(f.age + 1, f.nr) = MakeFailure(g.age + 1, g.nr)
    BY <1>2
  <2>2. MakeFailure(f.age + 1, f.nr).age = f.age + 1 /\ MakeFailure(f.age + 1, f.nr).nr = f.nr
    BY FailureFields
  <2>3. MakeFailure(g.age + 1, g.nr).age = g.age + 1 /\ MakeFailure(g.age + 1, g.nr).nr = g.nr
    BY FailureFields
  <2>4. f \in Failure /\ g \in Failure /\ f.age \in Nat /\ g.age \in Nat
    BY FailureTypes
  <2>5. f.age = g.age /\ f.nr = g.nr
    BY <2>1, <2>2, <2>3, <2>4
  <2> QED
    BY <2>4, <2>5, FailureTypes
<1> HIDE DEF H, b
<1>3. ExistsBijection(G, H)
  <2>1. b \in Bijection(G, H)
    BY <1>1, <1>2, Zenon DEF Bijection, Injection, Surjection, IsInjective
  <2> QED
    BY <2>1 DEF ExistsBijection
<1>4. IsFiniteSet(H) /\ Cardinality(H) = Cardinality(G)
  BY <1>3, FS_Bijection
<1> QED
  BY <1>4 DEF H

(* A tick forgets the failures that were as old as the window.             *)
LEMMA ShiftedCounts ==
  ASSUME NEW F \in SUBSET Failure, IsFiniteSet(F)
  PROVE  /\ Shifted(F) \in SUBSET Failure /\ IsFiniteSet(Shifted(F))
         /\ New(Shifted(F)) = {}
         /\ Cardinality(F) \in Nat /\ Cardinality(Shifted(F)) \in Nat
         /\ Cardinality(Shifted(F)) <= Cardinality(F)
         /\ (\E f \in F : f.age = Window) => Cardinality(Shifted(F)) < Cardinality(F)
         /\ \A f \in Shifted(F) : \E g \in F : f.age = g.age + 1
         /\ \A g \in F : g.age < Window => \E f \in Shifted(F) : f.age = g.age + 1
         /\ \A k \in Nat : k < Window =>
              Cardinality(Since(Shifted(F), k + 1)) = Cardinality(Since(F, k))
<1> DEFINE G == {g \in F : g.age < Window}
<1>1. IsFiniteSet(G) /\ Cardinality(G) \in Nat /\ Cardinality(G) <= Cardinality(F)
  BY FS_Subset, FS_CardinalityType
<1>2. Cardinality(F) \in Nat
  BY FS_CardinalityType
<1>3. (\E f \in F : f.age = Window) => Cardinality(G) < Cardinality(F)
  <2>1. SUFFICES ASSUME NEW f \in F, f.age = Window, Cardinality(G) = Cardinality(F)
                 PROVE  FALSE
    BY <1>1, <1>2
  <2>2. F = G
    BY <2>1, FS_Subset
  <2> QED
    BY <2>1, <2>2, FailureTypes
<1>4. G \in SUBSET Failure /\ \A g \in G : g.age \in Nat /\ g.nr \in Nat /\ g.age < Window
  BY FailureTypes
<1>5. Shifted(F) = {MakeFailure(f.age + 1, f.nr) : f \in G}
  BY DEF Shifted
<1>6. \A g \in F : g.age < Window => g \in G
  OBVIOUS
<1>7. \A g \in G : g \in F
  OBVIOUS
<1> HIDE DEF G
<1>8. IsFiniteSet(Shifted(F)) /\ Cardinality(Shifted(F)) = Cardinality(G)
  BY <1>1, <1>4, <1>5, OlderCounts
<1>9. ASSUME NEW f \in Shifted(F)
      PROVE  f \in Failure /\ f.age > 0 /\ \E g \in G : f.age = g.age + 1
  <2>1. PICK g \in G : f = MakeFailure(g.age + 1, g.nr)
    BY <1>5
  <2>2. g.age + 1 \in 0 .. Window /\ g.age \in Nat /\ g.nr \in Nat
    BY <1>4, FailureTypes
  <2>3. f.age = g.age + 1 /\ f \in Failure
    BY <2>1, <2>2, FailureFields, FailureTypes
  <2> QED
    BY <2>2, <2>3
<1>10. \A g \in G : MakeFailure(g.age + 1, g.nr) \in Shifted(F)
  BY <1>5
<1>11. \A g \in F : g.age < Window => \E f \in Shifted(F) : f.age = g.age + 1
  BY <1>6, <1>10, FailureFields, Zenon
<1>12. ASSUME NEW k \in Nat, k < Window
       PROVE  Cardinality(Since(Shifted(F), k + 1)) = Cardinality(Since(F, k))
  <2>1. Since(F, k) \in SUBSET Failure /\ IsFiniteSet(Since(F, k))
    BY FS_Subset DEF Since
  <2>2. Since(Shifted(F), k + 1) = {MakeFailure(f.age + 1, f.nr) : f \in Since(F, k)}
    <3>1. ASSUME NEW f \in Since(Shifted(F), k + 1)
          PROVE  \E g \in Since(F, k) : f = MakeFailure(g.age + 1, g.nr)
      <4>1. f \in Shifted(F) /\ f.age <= k + 1
        BY DEF Since
      <4>2. PICK g \in G : f = MakeFailure(g.age + 1, g.nr)
        BY <1>5, <4>1
      <4>3. f.age = g.age + 1 /\ g.age \in Nat
        BY <1>4, <4>2, FailureFields
      <4>4. g \in F /\ g.age <= k
        BY <1>7, <4>1, <4>3
      <4> QED
        BY <4>2, <4>4 DEF Since
    <3>2. ASSUME NEW g \in Since(F, k)
          PROVE  MakeFailure(g.age + 1, g.nr) \in Since(Shifted(F), k + 1)
      <4>1. g \in F /\ g.age <= k /\ g.age \in Nat
        BY FailureTypes DEF Since
      <4>2. g \in G
        BY <1>6, <1>12, <4>1, FailureTypes
      <4>3. MakeFailure(g.age + 1, g.nr) \in Shifted(F)
        BY <1>10, <4>2
      <4>4. MakeFailure(g.age + 1, g.nr).age <= k + 1
        BY <4>1, FailureFields
      <4> QED
        BY <4>3, <4>4 DEF Since
    <3> QED
      BY <3>1, <3>2, Zenon
  <2> QED
    BY <2>1, <2>2, OlderCounts
<1> QED
  BY <1>1, <1>2, <1>3, <1>4, <1>7, <1>8, <1>9, <1>11, <1>12 DEF New

(* All the failures are since the window began.                            *)
LEMMA SinceWindow ==
  ASSUME NEW F \in SUBSET Failure
  PROVE  Since(F, Window) = F
BY FailureTypes DEF Since

(* The failures before stay, and the new one has the age of none.          *)
LEMMA OneMoreAges ==
  ASSUME NEW F
  PROVE  /\ \A f \in OneMore(F) : f \in F \/ f.age = 0
         /\ F \subseteq OneMore(F)
         /\ \E f \in OneMore(F) : f.age = 0
<1>1. MakeFailure(0, Cardinality(New(F))).age = 0
  BY FailureFields
<1> QED
  BY <1>1 DEF OneMore

LEMMA FreshFields ==
  /\ Fresh.count = 1 /\ Fresh.firstTry = 0 /\ Fresh.banned = FALSE
  /\ Fresh.bannedAt = 0 /\ Fresh # Absent
BY DEF Fresh, Absent, MakeEntry

LEMMA Limits ==
  /\ MaxAttempts \in Nat /\ MaxAttempts >= 2 /\ Window \in Nat /\ BanFor \in Nat
  /\ Window < BanFor
BY LimiterAssumption, PropertiesAssumption

(* An entry begins when no failure is new and the window before it could   *)
(* not have banned.                                                        *)
LEMMA FreshExplained ==
  ASSUME NEW F \in SUBSET Failure, IsFiniteSet(F), Cardinality(F) <= MaxAttempts - 2,
         \A f \in F : f.age > 0
  PROVE  Explained(Fresh, OneMore(F))
<1>1. New(F) = {} /\ Since(F, 0) = {}
  BY FailureTypes DEF New, Since
<1>2. /\ OneMore(F) \in SUBSET Failure /\ IsFiniteSet(OneMore(F))
      /\ \A f \in New(OneMore(F)) : f.nr < Cardinality(New(OneMore(F)))
      /\ Cardinality(F) \in Nat /\ Cardinality(OneMore(F)) = Cardinality(F) + 1
      /\ Cardinality(Since(OneMore(F), 0)) = Cardinality(Since(F, 0)) + 1
  BY <1>1, OneMoreCounts
<1>3. Cardinality(Since(OneMore(F), 0)) = 1
  <2>1. Cardinality(Since(F, 0)) = 0
    BY <1>1, FS_EmptySet, Zenon
  <2> QED
    BY <1>2, <2>1
<1>4. \A f \in OneMore(F) : 0 <= f.age + Window
  BY <1>2, FailureTypes
<1>5. Cardinality(OneMore(F)) <= 1 + MaxAttempts - 2
  BY <1>2, Limits
<1>6. ~(0 > Window)
  BY Limits
<1> QED
  BY <1>2, <1>3, <1>4, <1>5, <1>6, FreshFields, OneMoreAges DEF Explained

(* What RecordFailedAttempt does to an entry whose window is not over.     *)
LEMMA StruckAgain ==
  ASSUME NEW e \in Entry, EntryFits(e), e # Absent, ~e.banned, ~(e.firstTry > Window)
  PROVE  /\ Struck(e).count = e.count + 1 /\ Struck(e).firstTry = e.firstTry
         /\ Struck(e).banned = (e.count + 1 >= MaxAttempts) /\ Struck(e).bannedAt = 0
         /\ Struck(e) # Absent
<1>1. /\ e.count \in Nat /\ e.firstTry \in 0 .. FirstTryCap
      /\ e.notified \in BOOLEAN
  BY DEF Entry
<1>2. Struck(e) = MakeEntry(e.count + 1, e.firstTry, e.count + 1 >= MaxAttempts, 0, e.notified)
  BY DEF Struck
<1>3. /\ Struck(e).count = e.count + 1 /\ Struck(e).firstTry = e.firstTry
      /\ Struck(e).banned = (e.count + 1 >= MaxAttempts) /\ Struck(e).bannedAt = 0
  BY <1>2 DEF MakeEntry
<1>4. Struck(e) # Absent
  BY <1>1, <1>3, AbsentFits
<1> QED
  BY <1>3, <1>4

(* A failure that is recorded is explained, and bans only as the last of   *)
(* maxAttempts.                                                            *)
LEMMA StruckExplained ==
  ASSUME NEW e \in Entry, EntryFits(e), NEW F, Explained(e, F),
         ~(e.banned /\ e.bannedAt < BanFor)
  PROVE  /\ Explained(Struck(e), OneMore(F))
         /\ Struck(e).banned => Cardinality(OneMore(F)) >= MaxAttempts
<1>1. /\ e.count \in Nat /\ e.firstTry \in 0 .. FirstTryCap /\ e.firstTry \in Nat
      /\ e.banned \in BOOLEAN /\ e.bannedAt \in 0 .. BannedAtCap /\ e.bannedAt \in Nat
  BY CapsArePositive DEF Entry
<1>2. /\ F \in SUBSET Failure /\ IsFiniteSet(F)
      /\ \A f \in New(F) : f.nr < Cardinality(New(F))
  BY DEF Explained
<1>3. \A f \in F : f.age \in Nat /\ f.age <= Window
  BY <1>2, FailureTypes
<1>4. Cardinality(F) \in Nat
  BY <1>2, FS_CardinalityType
<1>5. ASSUME e = Absent \/ e.banned \/ e.firstTry > Window
      PROVE  Cardinality(F) <= MaxAttempts - 2 /\ \A f \in F : f.age > 0
  <2>1. CASE e = Absent
    <3>1. F = {}
      BY <2>1 DEF Explained
    <3> QED
      BY <3>1, Limits, FS_EmptySet
  <2>2. CASE e.banned
    <3>1. \A f \in F : e.bannedAt <= f.age
      BY <2>2 DEF Explained
    <3>2. F = {}
      BY <1>1, <1>3, <2>2, <3>1, Limits
    <3> QED
      BY <3>2, Limits, FS_EmptySet
  <2>3. CASE e # Absent /\ ~e.banned /\ e.firstTry > Window
    <3>1. /\ \A f \in F : e.firstTry <= f.age + Window
          /\ Cardinality(F) < e.count
      BY <2>3 DEF Explained
    <3>2. e.count <= MaxAttempts - 1
      BY <1>1, <2>3, Limits DEF EntryFits
    <3> QED
      BY <1>1, <1>3, <1>4, <2>3, <3>1, <3>2, Limits
  <2> QED
    BY <1>5, <2>1, <2>2, <2>3
<1>6. CASE e = Absent \/ e.banned \/ e.firstTry > Window
  <2>1. Struck(e) = Fresh
    <3>1. CASE e = Absent
      BY <3>1, AbsentFits DEF Struck
    <3>2. CASE e # Absent /\ e.banned
      BY <1>1, <3>2, Limits DEF Struck
    <3>3. CASE e # Absent /\ ~e.banned /\ e.firstTry > Window
      <4>1. e.notified = FALSE
        BY <3>3 DEF EntryFits, Entry
      <4> QED
        BY <3>3, <4>1 DEF Struck, Fresh
    <3> QED
      BY <1>6, <3>1, <3>2, <3>3
  <2> QED
    BY <1>2, <1>5, <1>6, <2>1, FreshExplained, FreshFields
<1>7. CASE e # Absent /\ ~e.banned /\ ~(e.firstTry > Window)
  <2>1. /\ Struck(e).count = e.count + 1 /\ Struck(e).firstTry = e.firstTry
        /\ Struck(e).banned = (e.count + 1 >= MaxAttempts) /\ Struck(e).bannedAt = 0
        /\ Struck(e) # Absent
    BY <1>7, StruckAgain
  <2>2. e.firstTry <= Window
    BY <1>1, <1>7, Limits
  <2>3. /\ \A f \in F : e.firstTry <= f.age + Window
        /\ Cardinality(Since(F, e.firstTry)) = e.count
        /\ \E f \in F : f.age = e.firstTry
        /\ Cardinality(F) <= e.count + MaxAttempts - 2
    BY <1>7, <2>2 DEF Explained
  <2>4. /\ OneMore(F) \in SUBSET Failure /\ IsFiniteSet(OneMore(F))
        /\ \A f \in New(OneMore(F)) : f.nr < Cardinality(New(OneMore(F)))
        /\ Cardinality(OneMore(F)) = Cardinality(F) + 1
        /\ Cardinality(Since(OneMore(F), e.firstTry)) = e.count + 1
    BY <1>1, <1>2, <2>3, OneMoreCounts
  <2>5. e.count <= Cardinality(F)
    BY <1>2, <2>3, FS_Subset DEF Since
  <2>6. e.count <= MaxAttempts - 1
    BY <1>1, <1>7, Limits DEF EntryFits
  <2>7. CASE e.count + 1 >= MaxAttempts
    <3>1. Cardinality(OneMore(F)) <= 2 * MaxAttempts - 2
      BY <1>1, <1>4, <2>3, <2>4, <2>6, Limits
    <3>2. \A f \in OneMore(F) : 0 <= f.age
      BY <2>4, FailureTypes
    <3>3. Struck(e).banned = TRUE
      BY <2>1, <2>7
    <3>4. Cardinality(OneMore(F)) >= MaxAttempts
      BY <1>1, <1>4, <2>4, <2>5, <2>7, Limits
    <3> QED
      BY <2>1, <2>4, <3>1, <3>2, <3>3, <3>4 DEF Explained
  <2>8. CASE ~(e.count + 1 >= MaxAttempts)
    <3>0. (e.count + 1 >= MaxAttempts) = FALSE
      BY <1>1, <2>8, Limits
    <3>1. Struck(e).banned = FALSE
      BY <2>1, <3>0, Zenon
    <3>2. \A f \in OneMore(F) : e.firstTry <= f.age + Window
      <4>1. \A f \in OneMore(F) : f \in F \/ f.age = 0
        BY OneMoreAges
      <4> QED
        BY <2>2, <2>3, <4>1, Limits
    <3>3. \E f \in OneMore(F) : f.age = e.firstTry
      BY <2>3, OneMoreAges
    <3>4. Cardinality(OneMore(F)) <= e.count + 1 + MaxAttempts - 2
      BY <1>1, <1>4, <2>3, <2>4, Limits
    <3> QED
      BY <1>7, <2>1, <2>2, <2>4, <3>1, <3>2, <3>3, <3>4 DEF Explained
  <2> QED
    BY <2>7, <2>8
<1> QED
  BY <1>6, <1>7

(* A tick explains as well as before.                                      *)
LEMMA AgedExplained ==
  ASSUME NEW e \in Entry, EntryFits(e), NEW F, Explained(e, F)
  PROVE  Explained(Aged(e), Shifted(F))
<1>1. /\ e.count \in Nat /\ e.firstTry \in 0 .. FirstTryCap /\ e.firstTry \in Nat
      /\ e.banned \in BOOLEAN /\ e.bannedAt \in 0 .. BannedAtCap /\ e.bannedAt \in Nat
      /\ e.notified \in BOOLEAN
  BY CapsArePositive DEF Entry
<1>2. F \in SUBSET Failure /\ IsFiniteSet(F)
  BY DEF Explained
<1>3. \A f \in F : f.age \in Nat /\ f.age <= Window
  BY <1>2, FailureTypes
<1>4. /\ Shifted(F) \in SUBSET Failure /\ IsFiniteSet(Shifted(F)) /\ New(Shifted(F)) = {}
      /\ Cardinality(F) \in Nat /\ Cardinality(Shifted(F)) \in Nat
      /\ Cardinality(Shifted(F)) <= Cardinality(F)
      /\ (\E f \in F : f.age = Window) => Cardinality(Shifted(F)) < Cardinality(F)
      /\ \A f \in Shifted(F) : \E g \in F : f.age = g.age + 1
      /\ \A g \in F : g.age < Window => \E f \in Shifted(F) : f.age = g.age + 1
      /\ \A k \in Nat : k < Window =>
           Cardinality(Since(Shifted(F), k + 1)) = Cardinality(Since(F, k))
  BY <1>2, ShiftedCounts
<1>5. CASE e = Absent
  <2>1. F = {} /\ Aged(e) = Absent
    BY <1>5 DEF Explained, Aged
  <2>2. Shifted(F) = {}
    BY <1>4, <2>1
  <2> QED
    BY <1>4, <2>1, <2>2, AbsentFits DEF Explained
<1>6. CASE e # Absent
  <2> DEFINE f1 == Later(e.firstTry, FirstTryCap)
             t1 == IF e.banned THEN Later(e.bannedAt, BannedAtCap) ELSE 0
  <2>1. /\ f1 \in 0 .. FirstTryCap /\ t1 \in 0 .. BannedAtCap
        /\ f1 <= e.firstTry + 1 /\ f1 \in Nat /\ t1 \in Nat
        /\ e.banned => t1 <= e.bannedAt + 1
    BY <1>1, CapsArePositive DEF Later
  <2>2. f1 <= Window => f1 = e.firstTry + 1
    BY <1>1, Limits DEF Later, FirstTryCap
  <2>3. Aged(e) = MakeEntry(e.count, f1, e.banned, t1, e.notified)
    BY <1>6 DEF Aged
  <2>4. /\ Aged(e).count = e.count /\ Aged(e).firstTry = f1
        /\ Aged(e).banned = e.banned /\ Aged(e).bannedAt = t1
    BY <1>1, <2>1, <2>3, MadeEntries
  <2>5. Aged(e) # Absent
    BY <1>1, <1>6, <2>4, AbsentFits DEF EntryFits
  <2> HIDE DEF f1, t1
  <2>6. CASE e.banned
    <3>1. /\ Cardinality(F) <= 2 * MaxAttempts - 2
          /\ \A f \in F : e.bannedAt <= f.age
      BY <2>6 DEF Explained
    <3>2. \A f \in Shifted(F) : t1 <= f.age
      BY <1>1, <1>3, <1>4, <2>1, <2>6, <3>1
    <3>3. Cardinality(Shifted(F)) <= 2 * MaxAttempts - 2
      BY <1>4, <3>1, Limits
    <3> QED
      BY <1>4, <2>4, <2>5, <2>6, <3>2, <3>3 DEF Explained
  <2>7. CASE ~e.banned
    <3>1. /\ \A f \in F : e.firstTry <= f.age + Window
          /\ e.firstTry <= Window =>
               /\ Cardinality(Since(F, e.firstTry)) = e.count
               /\ \E f \in F : f.age = e.firstTry
               /\ Cardinality(F) <= e.count + MaxAttempts - 2
          /\ e.firstTry > Window => Cardinality(F) < e.count
      BY <1>6, <2>7 DEF Explained
    <3>2. \A f \in Shifted(F) : f1 <= f.age + Window
      BY <1>1, <1>3, <1>4, <2>1, <3>1, Limits
    <3>3. ASSUME f1 <= Window
          PROVE  /\ Cardinality(Since(Shifted(F), f1)) = e.count
                 /\ \E f \in Shifted(F) : f.age = f1
                 /\ Cardinality(Shifted(F)) <= e.count + MaxAttempts - 2
      <4>1. f1 = e.firstTry + 1 /\ e.firstTry < Window
        BY <1>1, <2>1, <2>2, <3>3, Limits
      <4>2. /\ Cardinality(Since(F, e.firstTry)) = e.count
            /\ \E f \in F : f.age = e.firstTry
            /\ Cardinality(F) <= e.count + MaxAttempts - 2
        BY <1>1, <3>1, <4>1, Limits
      <4>3. Cardinality(Shifted(F)) <= e.count + MaxAttempts - 2
        BY <1>1, <1>4, <4>2, Limits
      <4> QED
        BY <1>1, <1>4, <4>1, <4>2, <4>3
    <3>4. ASSUME f1 > Window
          PROVE  Cardinality(Shifted(F)) < e.count
      <4>1. CASE e.firstTry > Window
        BY <1>1, <1>4, <3>1, <4>1
      <4>2. CASE ~(e.firstTry > Window)
        <5>1. e.firstTry = Window
          BY <1>1, <2>1, <3>4, <4>2, Limits
        <5>2. Since(F, e.firstTry) = F
          BY <1>2, <5>1, SinceWindow
        <5>3. Cardinality(F) = e.count /\ \E f \in F : f.age = Window
          BY <3>1, <5>1, <5>2, Limits
        <5> QED
          BY <1>4, <5>3
      <4> QED
        BY <4>1, <4>2
    <3> QED
      BY <1>4, <2>4, <2>5, <2>7, <3>2, <3>3, <3>4 DEF Explained
  <2> QED
    BY <1>1, <2>6, <2>7
<1> QED
  BY <1>5, <1>6

(* What the cleanup removes has no failures left within the window.        *)
LEMMA StaleExplained ==
  ASSUME NEW e \in Entry, NEW F, Explained(e, F), Stale(e)
  PROVE  F = {}
<1>1. /\ e.firstTry \in 0 .. FirstTryCap /\ e.firstTry \in Nat
      /\ e.bannedAt \in 0 .. BannedAtCap /\ e.bannedAt \in Nat
  BY CapsArePositive DEF Entry
<1>2. \A f \in F : f.age \in Nat /\ f.age <= Window
  BY FailureTypes DEF Explained
<1>3. CASE e # Absent /\ ~e.banned /\ e.firstTry > 2 * Window
  <2>1. \A f \in F : e.firstTry <= f.age + Window
    BY <1>3 DEF Explained
  <2> QED
    BY <1>1, <1>2, <1>3, <2>1, Limits
<1>4. CASE e.banned /\ e.bannedAt > 2 * BanFor
  <2>1. \A f \in F : e.bannedAt <= f.age
    BY <1>4 DEF Explained
  <2> QED
    BY <1>1, <1>2, <1>4, <2>1, Limits
<1> QED
  BY <1>3, <1>4 DEF Stale

LEMMA AbsentExplained == Explained(Absent, {})
<1>1. New({}) = {}
  BY DEF New
<1> QED
  BY <1>1, AbsentFits, FS_EmptySet DEF Explained

-----------------------------------------------------------------------------
(* The history takes the steps of the limiter                              *)

LEMMA HistoryStep == [HistoryNext]_hvars => [Next]_vars
  BY DEF HistoryNext, Next, Step, hvars, vars

(* With the history the limiter does nothing that it would not do without. *)
THEOREM HistoryIsFaithful == HistorySpec => Spec
<1>1. HistoryInit => Init
  BY DEF HistoryInit
<1> QED
  BY <1>1, HistoryStep, PTL DEF HistorySpec, Spec

LEMMA HistoryInShape == HistorySpec => []LimiterOK
  BY HistoryIsFaithful, LimiterInShape, PTL

(* What a step does to an entry and to its failures together.              *)
Left(e, F, e1, F1) == e1 = e /\ F1 = F
Failed(e, F, e1, F1) ==
  ~(e.banned /\ e.bannedAt < BanFor) /\ e1 = Struck(e) /\ F1 = OneMore(F)
Notified(e, F, e1, F1) ==
  /\ e.banned = TRUE /\ F1 = F
  /\ e1 = MakeEntry(e.count, e.firstTry, TRUE, e.bannedAt, TRUE)
Cleared(e, F, e1, F1) == e1 = Absent /\ (F1 = {} \/ (F1 = F /\ Stale(e)))
Grown(e, F, e1, F1) == e1 = Aged(e) /\ F1 = Shifted(F)
Effect(e, F, e1, F1) ==
  \/ Left(e, F, e1, F1) \/ Failed(e, F, e1, F1) \/ Notified(e, F, e1, F1)
  \/ Cleared(e, F, e1, F1) \/ Grown(e, F, e1, F1)

LEMMA HistoryEffect ==
  ASSUME LimiterOK, BurstInv, [HistoryNext]_hvars, NEW a \in Addresses
  PROVE  /\ recent' \in [Addresses -> SUBSET Failure]
         /\ Effect(attempts[a], recent[a], attempts'[a], recent'[a])
<1>0. /\ attempts \in [Addresses -> Entry] /\ recent \in [Addresses -> SUBSET Failure]
      /\ \A b \in Addresses : EntryFits(attempts[b]) /\ Explained(attempts[b], recent[b])
  BY DEF LimiterOK, BurstInv
<1>1. ASSUME UNCHANGED recent
      PROVE  recent' \in [Addresses -> SUBSET Failure] /\ recent'[a] = recent[a]
  BY <1>0, <1>1
<1>2. ASSUME NEW h \in Handlers, RecordFailedAttempt(h),
             recent' = IF InForce(task[h].addr) THEN recent
                       ELSE [recent EXCEPT ![task[h].addr] = OneMore(@)]
      PROVE  /\ recent' \in [Addresses -> SUBSET Failure]
             /\ Effect(attempts[a], recent[a], attempts'[a], recent'[a])
  <2>1. PICK b \in Addresses : b = task[h].addr
    BY <1>2 DEF RecordFailedAttempt, At, LimiterOK
  <2>2. attempts' = [attempts EXCEPT ![b] = Struck(attempts[b])]
    BY <1>2, <2>1 DEF RecordFailedAttempt
  <2>3. recent' = IF InForce(b) THEN recent ELSE [recent EXCEPT ![b] = OneMore(recent[b])]
    BY <1>2, <2>1
  <2>4. attempts'[a] = IF a = b THEN Struck(attempts[b]) ELSE attempts[a]
    BY <1>0, <2>2
  <2>5. CASE InForce(b)
    <3>1. Struck(attempts[b]) = attempts[b]
      BY <1>0, <2>5, StruckFits DEF InForce
    <3> QED
      BY <1>0, <2>3, <2>4, <2>5, <3>1 DEF Effect, Left
  <2>6. CASE ~InForce(b)
    <3>1. OneMore(recent[b]) \in SUBSET Failure
      BY <1>0, OneMoreCounts DEF Explained
    <3>2. recent' = [recent EXCEPT ![b] = OneMore(recent[b])]
      BY <2>3, <2>6
    <3>3. /\ recent' \in [Addresses -> SUBSET Failure]
          /\ recent'[a] = IF a = b THEN OneMore(recent[b]) ELSE recent[a]
      BY <1>0, <3>1, <3>2
    <3>4. CASE a = b
      BY <2>4, <2>6, <3>3, <3>4 DEF Effect, Failed, InForce
    <3>5. CASE a # b
      BY <2>4, <3>3, <3>5 DEF Effect, Left
    <3> QED
      BY <3>3, <3>4, <3>5
  <2> QED
    BY <2>5, <2>6
<1>3. ASSUME NEW h \in Handlers, RecordSuccess(h),
             recent' = [recent EXCEPT ![task[h].addr] = {}]
      PROVE  /\ recent' \in [Addresses -> SUBSET Failure]
             /\ Effect(attempts[a], recent[a], attempts'[a], recent'[a])
  <2>1. attempts' = [attempts EXCEPT ![task[h].addr] = Absent]
    BY <1>3 DEF RecordSuccess
  <2>2. recent' \in [Addresses -> SUBSET Failure]
    BY <1>0, <1>3
  <2>3. CASE a = task[h].addr
    BY <1>0, <1>3, <2>1, <2>2, <2>3 DEF Effect, Cleared
  <2>4. CASE a # task[h].addr
    BY <1>0, <1>3, <2>1, <2>2, <2>4 DEF Effect, Left
  <2> QED
    BY <2>3, <2>4
<1>4. ASSUME NEW h \in Handlers, MarkNotified(h), UNCHANGED recent
      PROVE  /\ recent' \in [Addresses -> SUBSET Failure]
             /\ Effect(attempts[a], recent[a], attempts'[a], recent'[a])
  <2>1. PICK b \in Addresses : b = task[h].addr
    BY <1>4 DEF MarkNotified, At, LimiterOK
  <2>2. PICK e : e = attempts[b]
    OBVIOUS
  <2>3. attempts' = IF e.banned
                    THEN [attempts EXCEPT ![b] =
                            MakeEntry(e.count, e.firstTry, TRUE, e.bannedAt, TRUE)]
                    ELSE attempts
    BY <1>4, <2>1, <2>2 DEF MarkNotified
  <2>4. e.banned \in BOOLEAN
    BY <1>0, <2>2 DEF Entry
  <2>5. CASE a = b /\ e.banned
    BY <1>0, <1>1, <1>4, <2>2, <2>3, <2>4, <2>5 DEF Effect, Notified
  <2>6. CASE ~(a = b /\ e.banned)
    BY <1>0, <1>1, <1>4, <2>3, <2>6 DEF Effect, Left
  <2> QED
    BY <2>5, <2>6
<1>5. ASSUME UNCHANGED attempts, UNCHANGED recent
      PROVE  /\ recent' \in [Addresses -> SUBSET Failure]
             /\ Effect(attempts[a], recent[a], attempts'[a], recent'[a])
  BY <1>0, <1>5 DEF Effect, Left
<1>6. ASSUME NEW h \in Handlers, UNCHANGED recent,
             \/ Verify(h) \/ OpenSession(h)
             \/ \E b \in Addresses, via \in Vias, creds \in Credentials :
                  Arrive(h, b, via, creds)
      PROVE  UNCHANGED attempts
  BY <1>6 DEF Verify, OpenSession, Arrive
<1>7. ASSUME NEW b \in Addresses, EndSession(b)
      PROVE  UNCHANGED attempts
  BY <1>7 DEF EndSession
<1>8. ASSUME Cleanup, UNCHANGED recent
      PROVE  /\ recent' \in [Addresses -> SUBSET Failure]
             /\ Effect(attempts[a], recent[a], attempts'[a], recent'[a])
  <2>1. attempts'[a] = IF Stale(attempts[a]) THEN Absent ELSE attempts[a]
    BY <1>8 DEF Cleanup
  <2> QED
    BY <1>1, <1>8, <2>1, Zenon DEF Effect, Left, Cleared
<1>9. ASSUME Restart, recent' = [b \in Addresses |-> {}]
      PROVE  /\ recent' \in [Addresses -> SUBSET Failure]
             /\ Effect(attempts[a], recent[a], attempts'[a], recent'[a])
  BY <1>9 DEF Restart, Effect, Cleared
<1>10. ASSUME Tick, recent' = [b \in Addresses |-> Shifted(recent[b])]
       PROVE  /\ recent' \in [Addresses -> SUBSET Failure]
              /\ Effect(attempts[a], recent[a], attempts'[a], recent'[a])
  <2>1. \A b \in Addresses : Shifted(recent[b]) \in SUBSET Failure
    BY <1>0, ShiftedCounts DEF Explained
  <2>2. attempts'[a] = Aged(attempts[a]) /\ recent'[a] = Shifted(recent[a])
    BY <1>10 DEF Tick
  <2> QED
    BY <1>10, <2>1, <2>2 DEF Effect, Grown
<1>11. CASE UNCHANGED hvars
  BY <1>5, <1>11 DEF hvars, vars
<1> QED
  BY <1>2, <1>3, <1>4, <1>5, <1>6, <1>7, <1>8, <1>9, <1>10, <1>11 DEF HistoryNext

LEMMA EffectExplained ==
  ASSUME NEW e \in Entry, EntryFits(e), NEW F, Explained(e, F), NEW e1, NEW F1,
         Effect(e, F, e1, F1)
  PROVE  Explained(e1, F1)
<1>1. CASE Left(e, F, e1, F1)
  BY <1>1 DEF Left
<1>2. CASE Failed(e, F, e1, F1)
  BY <1>2, StruckExplained DEF Failed
<1>3. CASE Notified(e, F, e1, F1)
  <2>1. e1.banned = TRUE /\ e1.bannedAt = e.bannedAt /\ F1 = F
    BY <1>3 DEF Notified, MakeEntry
  <2>2. e1 # Absent
    BY <2>1, AbsentFits
  <2> QED
    BY <1>3, <2>1, <2>2 DEF Explained, Notified
<1>4. CASE Cleared(e, F, e1, F1)
  BY <1>4, StaleExplained, AbsentExplained DEF Cleared
<1>5. CASE Grown(e, F, e1, F1)
  BY <1>5, AgedExplained DEF Grown
<1> QED
  BY <1>1, <1>2, <1>3, <1>4, <1>5 DEF Effect

LEMMA InitBurst == HistoryInit => BurstInv
<1> SUFFICES ASSUME HistoryInit PROVE BurstInv
  OBVIOUS
<1>1. /\ recent \in [Addresses -> SUBSET Failure]
      /\ \A a \in Addresses : attempts[a] = Absent /\ recent[a] = {}
  BY DEF HistoryInit, Init
<1> QED
  BY <1>1, AbsentExplained DEF BurstInv

LEMMA NextBurst == LimiterOK /\ BurstInv /\ [HistoryNext]_hvars => BurstInv'
<1> SUFFICES ASSUME LimiterOK, BurstInv, [HistoryNext]_hvars PROVE BurstInv'
  OBVIOUS
<1>1. ASSUME NEW a \in Addresses
      PROVE  /\ recent' \in [Addresses -> SUBSET Failure]
             /\ Explained(attempts'[a], recent'[a])
  <2>1. /\ attempts[a] \in Entry /\ EntryFits(attempts[a])
        /\ Explained(attempts[a], recent[a])
    BY DEF LimiterOK, BurstInv
  <2>2. /\ recent' \in [Addresses -> SUBSET Failure]
        /\ Effect(attempts[a], recent[a], attempts'[a], recent'[a])
    BY HistoryEffect
  <2> QED
    BY <2>1, <2>2, EffectExplained
<1>2. recent' \in [Addresses -> SUBSET Failure]
  <2>1. CASE Addresses = {}
    BY <2>1 DEF BurstInv, HistoryNext, hvars
  <2>2. CASE Addresses # {}
    BY <1>1, <2>2
  <2> QED
    BY <2>1, <2>2
<1> QED
  BY <1>1, <1>2 DEF BurstInv

(* Every entry accounts for the failures within the window.                *)
THEOREM BurstInductive == HistorySpec => []BurstInv
  BY InitBurst, NextBurst, HistoryInShape, PTL DEF HistorySpec

(* No window holds more unpunished failures than twice maxAttempts less    *)
(* three, whatever entries begin, end, are removed or cleared around it.   *)
THEOREM BurstsAreBounded == HistorySpec => []BurstBounded
<1>1. LimiterOK /\ BurstInv => BurstBounded
  <2> SUFFICES ASSUME LimiterOK, BurstInv, NEW a \in Addresses
               PROVE  Cardinality(recent[a]) <= IF attempts[a].banned THEN 2 * MaxAttempts - 2
                                                ELSE 2 * MaxAttempts - 3
    BY DEF BurstBounded
  <2>1. /\ attempts[a] \in Entry /\ EntryFits(attempts[a])
        /\ Explained(attempts[a], recent[a])
    BY DEF LimiterOK, BurstInv
  <2>2. PICK e, F : e = attempts[a] /\ F = recent[a]
    OBVIOUS
  <2>3. /\ e.count \in Nat /\ e.firstTry \in Nat /\ e.banned \in BOOLEAN
        /\ Cardinality(F) \in Nat
    BY <2>1, <2>2, CapsArePositive, FS_CardinalityType DEF Entry, Explained
  <2>4. e.banned => Cardinality(F) <= 2 * MaxAttempts - 2
    BY <2>1, <2>2 DEF Explained
  <2>5. ASSUME ~e.banned PROVE Cardinality(F) <= 2 * MaxAttempts - 3
    <3>1. CASE e = Absent
      <4>1. F = {}
        BY <2>1, <2>2, <3>1 DEF Explained
      <4> QED
        BY <4>1, FS_EmptySet, Limits
    <3>2. CASE e # Absent
      <4>1. e.count <= MaxAttempts - 1
        BY <2>1, <2>2, <2>3, <2>5, <3>2, Limits DEF EntryFits
      <4>2. \/ Cardinality(F) <= e.count + MaxAttempts - 2
            \/ Cardinality(F) < e.count
        BY <2>1, <2>2, <2>3, <2>5, <3>2, Limits DEF Explained
      <4> QED
        BY <2>3, <4>1, <4>2, Limits
    <3> QED
      BY <3>1, <3>2
  <2> QED
    BY <2>2, <2>3, <2>4, <2>5
<1> QED
  BY <1>1, BurstInductive, HistoryInShape, PTL

(* No address is banned for fewer failures within the window than the      *)
(* attempts it has.                                                        *)
THEOREM BansAreEarned == HistorySpec => BanEarned
<1>1. ASSUME LimiterOK, BurstInv, [HistoryNext]_hvars, NEW a \in Addresses,
             ~InForce(a), InForce(a)'
      PROVE  Cardinality(recent'[a]) >= MaxAttempts
  <2>1. /\ attempts[a] \in Entry /\ EntryFits(attempts[a])
        /\ Explained(attempts[a], recent[a])
    BY <1>1 DEF LimiterOK, BurstInv
  <2>2. attempts'[a].banned /\ attempts'[a].bannedAt < BanFor
    BY <1>1 DEF InForce
  <2>3. ~(attempts[a].banned /\ attempts[a].bannedAt < BanFor)
    BY <1>1 DEF InForce
  <2>4. Effect(attempts[a], recent[a], attempts'[a], recent'[a])
    BY <1>1, HistoryEffect
  <2>5. ~Left(attempts[a], recent[a], attempts'[a], recent'[a])
    BY <2>2, <2>3 DEF Left
  <2>6. ~Notified(attempts[a], recent[a], attempts'[a], recent'[a])
    BY <2>2, <2>3 DEF Notified, MakeEntry
  <2>7. ~Cleared(attempts[a], recent[a], attempts'[a], recent'[a])
    BY <2>2, AbsentFits DEF Cleared
  <2>8. ~Grown(attempts[a], recent[a], attempts'[a], recent'[a])
    BY <2>1, <2>2, <2>3, AgedFits DEF Grown
  <2>9. Failed(attempts[a], recent[a], attempts'[a], recent'[a])
    BY <2>4, <2>5, <2>6, <2>7, <2>8 DEF Effect
  <2> QED
    BY <2>1, <2>2, <2>3, <2>9, StruckExplained DEF Failed
<1>2. LimiterOK /\ BurstInv /\ [HistoryNext]_hvars =>
        [\A a \in Addresses :
           ~InForce(a) /\ InForce(a)' => Cardinality(recent'[a]) >= MaxAttempts]_hvars
  BY <1>1
<1> QED
  BY <1>2, BurstInductive, HistoryInShape, PTL DEF HistorySpec, BanEarned
=============================================================================
