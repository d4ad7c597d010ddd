-------------------------- MODULE LimiterProperties --------------------------
(***************************************************************************)
(* What the limiter must guarantee, with a history of the failures.        *)
(***************************************************************************)
EXTENDS LoginLimiter

(* More than one attempt, and a ban that outlasts the window, as runServe  *)
(* sets them: 5 attempts, 5 minutes and 15 minutes.                        *)
ASSUME PropertiesAssumption == MaxAttempts >= 2 /\ Window < BanFor

(* The failures that were recorded within the window, since the last       *)
(* success and not counting those that met a ban in force.  Those of the   *)
(* same age are numbered.                                                  *)
VARIABLE recent

hvars == <<vars, recent>>

Failure == [age : 0 .. Window, nr : Nat]
MakeFailure(k, n) == [age |-> k, nr |-> n]
New(F) == {f \in F : f.age = 0}
OneMore(F) == F \cup {MakeFailure(0, Cardinality(New(F)))}
Shifted(F) == {MakeFailure(f.age + 1, f.nr) : f \in {g \in F : g.age < Window}}

HistoryInit == Init /\ recent = [a \in Addresses |-> {}]

HistoryNext ==
  \/ \E h \in Handlers :
       \/ \E a \in Addresses, via \in Vias, creds \in Credentials :
            Arrive(h, a, via, creds) /\ UNCHANGED recent
       \/ (Verify(h) \/ MarkNotified(h) \/ OpenSession(h)) /\ UNCHANGED recent
       \/ /\ RecordFailedAttempt(h)
          /\ recent' = IF InForce(task[h].addr) THEN recent
                       ELSE [recent EXCEPT ![task[h].addr] = OneMore(@)]
       \/ RecordSuccess(h) /\ recent' = [recent EXCEPT ![task[h].addr] = {}]
  \/ \E a \in Addresses : EndSession(a) /\ UNCHANGED recent
  \/ Cleanup /\ UNCHANGED recent
  \/ Restart /\ recent' = [a \in Addresses |-> {}]
  \/ Tick /\ recent' = [a \in Addresses |-> Shifted(recent[a])]

HistorySpec == HistoryInit /\ [][HistoryNext]_hvars
FairHistory == HistorySpec /\ Fairness

(* Types, and what an entry can look like: an address that is not banned   *)
(* has not used up its attempts and is not marked as notified.             *)
EntryFits(e) ==
  \/ e = Absent
  \/ /\ e.count > 0
     /\ ~e.banned => e.count <= 1 \/ e.count < MaxAttempts
     /\ ~e.banned => ~e.notified /\ e.bannedAt = 0
LimiterOK ==
  /\ attempts \in [Addresses -> Entry]
  /\ sessions \in [Addresses -> Nat]
  /\ task \in [Handlers -> Task]
  /\ \A h \in Handlers : At(h, "idle") \/ task[h].addr \in Addresses
  /\ \A a \in Addresses : EntryFits(attempts[a])

(* "Ban after this many failed attempts", counted in a window that starts  *)
(* with the first failure and not with each: around the end of a window    *)
(* more failures go unpunished than maxAttempts, but no window of that     *)
(* length ever holds more than twice maxAttempts less three.               *)
BurstBounded ==
  \A a \in Addresses :
    Cardinality(recent[a]) <= IF attempts[a].banned THEN 2 * MaxAttempts - 2
                              ELSE 2 * MaxAttempts - 3

(* What makes that so.  While the window of an entry lasts, its count is   *)
(* the failures since the entry began, the first of which is as old as the *)
(* entry; when it is over the first is forgotten and none is new; and      *)
(* during a ban all of them grow older than the window.                    *)
Since(F, k) == {f \in F : f.age <= k}
Explained(e, F) ==
  /\ F \subseteq Failure /\ IsFiniteSet(F)
  /\ \A f \in New(F) : f.nr < Cardinality(New(F))
  /\ e = Absent => F = {}
  /\ e.banned => /\ Cardinality(F) <= 2 * MaxAttempts - 2
                 /\ \A f \in F : e.bannedAt <= f.age
  /\ e # Absent /\ ~e.banned =>
       /\ \A f \in F : e.firstTry <= f.age + Window
       /\ e.firstTry <= Window =>
            /\ Cardinality(Since(F, e.firstTry)) = e.count
            /\ \E f \in F : f.age = e.firstTry
            /\ Cardinality(F) <= e.count + MaxAttempts - 2
       /\ e.firstTry > Window => Cardinality(F) < e.count
BurstInv ==
  /\ recent \in [Addresses -> SUBSET Failure]
  /\ \A a \in Addresses : Explained(attempts[a], recent[a])

(* A ban starts only on an address with maxAttempts failures within the    *)
(* window, whatever entries were reset, removed or cleared in between.     *)
BanEarned ==
  [][\A a \in Addresses :
       ~InForce(a) /\ InForce(a)' => Cardinality(recent'[a]) >= MaxAttempts]_hvars

(* A ban in force ends by running out, by a login that had been let in and *)
(* succeeds, or with the process: not by the cleanup and not by a failure. *)
BanHolds ==
  [][\A a \in Addresses :
       InForce(a) /\ ~InForce(a)' =>
         \/ attempts'[a].banned
         \/ \E h \in Handlers : task[h].addr = a /\ RecordSuccess(h)
         \/ Restart]_vars

(* Every ban starts unannounced, so the API answers "temporarily banned"   *)
(* to somebody before it answers 418: the flag of an earlier ban, or of a  *)
(* handler that is late to set it, must not leak into the next.            *)
FreshBan ==
  [][\A a \in Addresses :
       ~InForce(a) /\ InForce(a)' => ~attempts'[a].notified]_vars

(* An address from which no login comes any more is forgotten: bans,       *)
(* expired or not, and half-used windows all leave the table in the end.   *)
Forgotten ==
  \A a \in Addresses : []<>(Serving(a) # {}) \/ <>[](attempts[a] = Absent)
=============================================================================
