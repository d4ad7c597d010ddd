---------------------------- MODULE ServerProofs ----------------------------
(***************************************************************************)
(* How a serve process ends, for any number of calls and connections.      *)
(***************************************************************************)
EXTENDS ServerProperties, TLAPS

(* A call that is waiting has a connection to take.                        *)
WaitersMayTake == \A u \in PoolUsers : pc[u] = "waiting" => left[u] > 0

(* Nobody can connect any more when Shutdown looks at the calls.           *)
ListenerFirst == main = "stopping" => listener = "closed"

(* What an end in good order leaves of a call.                             *)
Quiet(c) == pc[c] \in {"none", "answered", "gone", "dropped"}

(* Calls meet a closed pool, or the end of the process, no sooner.         *)
LateEnds ==
  /\ ~closed => \A c \in Calls : pc[c] # "refused"
  /\ Alive => \A u \in PoolUsers : pc[u] \notin {"cut", "torn"}
  /\ verdict = "ok" => listener = "closed" /\ \A c \in Calls : Quiet(c)
  /\ main = "closing" /\ verdict = "error" => late \/ listener = "failed"

SweeperShape == pc[Sweeper] \in {"none", "running", "waiting", "using"}

IInv ==
  /\ ServerOK /\ WaitersMayTake /\ ListenerFirst /\ LateEnds /\ SweeperShape
  /\ NothingTorn /\ CutsExcused

USE ServerAssumption

(* Every shape a step can give to a single user of the pool.               *)
LEMMA UsersAreOne == \A c \in Calls : c \in PoolUsers /\ c # Sweeper
BY DEF PoolUsers

LEMMA InitInv == Init => IInv
<1> SUFFICES ASSUME Init PROVE IInv
  OBVIOUS
<1>1. left \in [PoolUsers -> Nat]
  BY DEF Init, PoolUsers
<1>2. held \in [PoolUsers -> SUBSET Conns]
  BY DEF Init
<1>3. pc \in [PoolUsers -> {"none"} \cup Active \cup Ended]
  BY DEF Init
<1>4. ServerOK
  BY <1>1, <1>2, <1>3 DEF Init, ServerOK, Mains, Verdicts
<1>5. WaitersMayTake /\ ListenerFirst /\ LateEnds /\ SweeperShape
  BY DEF Init, WaitersMayTake, ListenerFirst, LateEnds, SweeperShape, PoolUsers
<1>6. NothingTorn /\ CutsExcused
  BY DEF Init, NothingTorn, CutsExcused, PoolUsers
<1> QED BY <1>4, <1>5, <1>6 DEF IInv

(* What is left behind: cut and torn calls, and everything else as it is.  *)
LEMMA BehindShape ==
  ASSUME IInv, Alive
  PROVE  /\ LeftBehind \in [PoolUsers -> {"none"} \cup Active \cup Ended]
         /\ LeftBehind[Sweeper] = pc[Sweeper]
         /\ \A c \in Calls : LeftBehind[c] = "torn" <=> pc[c] = "using"
         /\ \A c \in Calls : LeftBehind[c] = "cut" => pc[c] \in Active
         /\ \A c \in Calls : LeftBehind[c] # pc[c] =>
              pc[c] \in Active /\ LeftBehind[c] \in {"torn", "cut"}
<1>1. pc \in [PoolUsers -> {"none"} \cup Active \cup Ended]
  BY DEF IInv, ServerOK
<1>2. \A c \in Calls : LeftBehind[c] =
        IF pc[c] = "using" THEN "torn" ELSE IF pc[c] \in Active THEN "cut" ELSE pc[c]
  BY DEF LeftBehind, PoolUsers, Active
<1>3. LeftBehind[Sweeper] = pc[Sweeper]
  BY DEF LeftBehind, PoolUsers, Active
<1>4. LeftBehind = [u \in PoolUsers |-> LeftBehind[u]]
  BY DEF LeftBehind
<1>5. \A c \in Calls : pc[c] \notin {"torn", "cut"}
  BY DEF IInv, LateEnds, PoolUsers
<1>6. \A u \in PoolUsers : LeftBehind[u] \in {"none"} \cup Active \cup Ended
  BY <1>1, <1>2, <1>3 DEF PoolUsers, Ended
<1>7. LeftBehind \in [PoolUsers -> {"none"} \cup Active \cup Ended]
  BY <1>4, <1>6
<1> QED BY <1>2, <1>3, <1>5, <1>7 DEF Active
-----------------------------------------------------------------------------
(* A step of one user of the pool, while the process goes on.              *)
LEMMA UserStep ==
  ASSUME IInv, Alive, UNCHANGED process,
         NEW u \in PoolUsers, NEW s, pc' = [pc EXCEPT ![u] = s],
         s \in {"none"} \cup Active \cup (Ended \ {"cut", "torn"}),
         left' \in [PoolUsers -> Nat], s = "waiting" => left'[u] > 0,
         \A v \in PoolUsers : v # u => left'[v] = left[v],
         held' \in [PoolUsers -> SUBSET Conns], held'[u] # {} <=> s = "using",
         \A v \in PoolUsers : v # u => held'[v] = held[v] /\ held'[u] \cap held[v] = {},
         u = Sweeper => s \in {"none", "running", "waiting", "using"},
         u \in Calls /\ s = "refused" => closed,
         u \in Calls /\ verdict = "ok" => s \in {"none", "answered", "gone", "dropped"}
  PROVE  IInv'
<1> USE DEF process
<1>1. pc \in [PoolUsers -> {"none"} \cup Active \cup Ended]
  BY DEF IInv, ServerOK
<1>2. pc' \in [PoolUsers -> {"none"} \cup Active \cup Ended]
  BY <1>1
<1>3. \A v \in PoolUsers : pc'[v] = IF v = u THEN s ELSE pc[v]
  BY <1>1
<1>4. \A v \in PoolUsers : held'[v] # {} <=> pc'[v] \in {"using", "torn"}
  <2> TAKE v \in PoolUsers
  <2>1. CASE v = u
    BY <1>3, <2>1 DEF Active, Ended
  <2>2. CASE v # u
    BY <1>3, <2>2 DEF IInv, ServerOK
  <2> QED BY <2>1, <2>2
<1>5. \A v, w \in PoolUsers : v # w => held'[v] \cap held'[w] = {}
  BY DEF IInv, ServerOK
<1>6. ServerOK'
  BY <1>2, <1>4, <1>5 DEF IInv, ServerOK
<1>7. WaitersMayTake' /\ ListenerFirst' /\ SweeperShape'
  BY <1>3 DEF IInv, WaitersMayTake, ListenerFirst, SweeperShape, PoolUsers
<1>8. LateEnds'
  <2>1. ~closed => \A c \in Calls : pc'[c] # "refused"
    BY <1>3, UsersAreOne DEF IInv, LateEnds
  <2>2. \A v \in PoolUsers : pc'[v] \notin {"cut", "torn"}
    BY <1>3 DEF IInv, LateEnds, Active, Ended
  <2>3. verdict = "ok" => listener = "closed" /\ \A c \in Calls : Quiet(c)'
    BY <1>3, UsersAreOne DEF IInv, LateEnds, Quiet
  <2> QED BY <2>1, <2>2, <2>3 DEF IInv, LateEnds, Alive
<1>9. NothingTorn'
  BY <1>8, UsersAreOne DEF LateEnds, NothingTorn, Alive
<1>10. CutsExcused'
  <2> SUFFICES ASSUME NEW c \in Calls, pc'[c] \in {"cut", "refused"}
               PROVE  late \/ listener = "failed" \/ verdict = "killed"
    BY DEF CutsExcused
  <2>1. pc'[c] = "refused"
    BY <1>8, UsersAreOne DEF LateEnds, Alive
  <2>2. closed
    BY <1>8, <2>1 DEF LateEnds
  <2>3. main = "closing" /\ verdict \in {"ok", "error"}
    BY <2>2 DEF IInv, ServerOK, Alive, Mains
  <2>4. verdict # "ok"
    BY <1>8, <2>1 DEF LateEnds, Quiet
  <2> QED BY <2>3, <2>4 DEF IInv, LateEnds
<1> QED BY <1>6, <1>7, <1>8, <1>9, <1>10 DEF IInv

(* The facts a step needs about the user that takes it.                    *)
LEMMA UserFacts ==
  ASSUME IInv, NEW u \in PoolUsers
  PROVE  /\ pc[u] \in {"none"} \cup Active \cup Ended
         /\ left \in [PoolUsers -> Nat] /\ left[u] \in Nat
         /\ held \in [PoolUsers -> SUBSET Conns] /\ held[u] \subseteq Conns
         /\ held[u] # {} <=> pc[u] \in {"using", "torn"}
         /\ \A v \in PoolUsers : v # u => held[u] \cap held[v] = {}
         /\ pc[u] = "waiting" => left[u] > 0
         /\ u \in Calls /\ verdict = "ok" => pc[u] \in {"none", "answered", "gone", "dropped"}
BY DEF IInv, ServerOK, WaitersMayTake, LateEnds, Quiet

LEMMA PoolingInv ==
  ASSUME IInv, NEW u \in PoolUsers, Pooling(u)
  PROVE  IInv'
<1>1. CASE Ask(u)
  BY <1>1, UserStep, UserFacts DEF Ask, Move, Active, process
<1>2. CASE Acquire(u)
  <2>1. PICK k \in Spare : held' = [held EXCEPT ![u] = held[u] \cup {k}]
    BY <1>2 DEF Acquire
  <2>2. k \in Conns /\ \A v \in PoolUsers : k \notin held[v]
    BY <2>1 DEF Spare
  <2>3. /\ held' \in [PoolUsers -> SUBSET Conns] /\ held'[u] # {}
        /\ \A v \in PoolUsers : v # u => held'[v] = held[v] /\ held'[u] \cap held[v] = {}
    BY <2>1, <2>2, UserFacts
  <2>4. /\ left' \in [PoolUsers -> Nat]
        /\ \A v \in PoolUsers : v # u => left'[v] = left[v]
    BY <1>2, UserFacts DEF Acquire
  <2>5. pc' = [pc EXCEPT ![u] = "using"] /\ pc[u] = "waiting" /\ Alive /\ UNCHANGED process
    BY <1>2 DEF Acquire, Move
  <2> QED BY <2>3, <2>4, <2>5, UserStep, UserFacts DEF Active
<1>3. CASE Release(u)
  <2>1. /\ held' \in [PoolUsers -> SUBSET Conns] /\ held'[u] = {}
        /\ \A v \in PoolUsers : v # u => held'[v] = held[v] /\ held'[u] \cap held[v] = {}
    BY <1>3, UserFacts DEF Release
  <2> QED BY <1>3, <2>1, UserStep, UserFacts DEF Release, Move, Active, process
<1> QED BY <1>1, <1>2, <1>3 DEF Pooling

LEMMA ServingInv ==
  ASSUME IInv, NEW c \in Calls, Serving(c)
  PROVE  IInv'
<1>0. c \in PoolUsers /\ c # Sweeper
  BY UsersAreOne
<1>1. CASE Connect(c)
  <2>1. verdict # "ok"
    BY <1>1 DEF Connect, IInv, LateEnds
  <2> QED BY <1>0, <1>1, <2>1, UserStep, UserFacts DEF Connect, Move, Active, process
<1>2. CASE Begin(c)
  BY <1>0, <1>2, UserStep, UserFacts DEF Begin, Move, Active, process
<1>3. CASE Drop(c)
  BY <1>0, <1>3, UserStep, UserFacts DEF Drop, Move, Active, Ended, process, Alive
<1>4. CASE Answer(c)
  BY <1>0, <1>4, UserStep, UserFacts DEF Answer, Move, Active, Ended, process
<1>5. CASE Refuse(c)
  <2>1. /\ held' \in [PoolUsers -> SUBSET Conns] /\ held'[c] = {}
        /\ \A v \in PoolUsers : v # c => held'[v] = held[v] /\ held'[c] \cap held[v] = {}
    BY <1>0, <1>5, UserFacts DEF Refuse
  <2> QED BY <1>0, <1>5, <2>1, UserStep, UserFacts DEF Refuse, Move, Active, Ended, process
<1>6. CASE GiveUp(c)
  <2>1. /\ held' \in [PoolUsers -> SUBSET Conns] /\ held'[c] = {}
        /\ \A v \in PoolUsers : v # c => held'[v] = held[v] /\ held'[c] \cap held[v] = {}
    BY <1>0, <1>6, UserFacts DEF GiveUp
  <2> QED BY <1>0, <1>6, <2>1, UserStep, UserFacts DEF GiveUp, Move, Active, Ended, process
<1> QED BY <1>1, <1>2, <1>3, <1>4, <1>5, <1>6 DEF Serving

LEMMA SweeperInv ==
  ASSUME IInv, Tick \/ Sleep
  PROVE  IInv'
<1>0. Sweeper \in PoolUsers /\ Sweeper \notin Calls
  BY DEF PoolUsers
<1>1. CASE Tick
  BY <1>0, <1>1, UserStep, UserFacts DEF Tick, Move, Active, process, Alive
<1>2. CASE Sleep
  BY <1>0, <1>2, UserStep, UserFacts DEF Sleep, Move, Active, process
<1> QED BY <1>1, <1>2
-----------------------------------------------------------------------------
(* The steps of runServe itself leave the users of the pool alone, as long *)
(* as the process goes on.                                                 *)
LEMMA StartingInv ==
  ASSUME IInv, Starting
  PROVE  IInv'
<1> USE DEF IInv, ServerOK, WaitersMayTake, ListenerFirst, LateEnds, SweeperShape,
        NothingTorn, CutsExcused, Quiet, Alive, Mains, Verdicts
<1>1. CASE Launch
  BY <1>1 DEF Launch
<1>2. CASE StartFails
  BY <1>2, UsersAreOne DEF StartFails
<1>3. CASE Notify
  BY <1>3 DEF Notify
<1>4. CASE DieEarly
  <2>1. /\ main' = "exited" /\ verdict' = "killed" /\ pc' = LeftBehind
        /\ UNCHANGED <<listener, late, closed, left, held>> /\ Alive /\ ~closed
    BY <1>4 DEF DieEarly
  <2>2. \A u \in PoolUsers : pc'[u] = "waiting" => pc[u] = "waiting"
    BY <2>1, BehindShape DEF PoolUsers
  <2>3. \A u \in PoolUsers : held[u] # {} <=> pc'[u] \in {"using", "torn"}
    <3>1. pc[Sweeper] = pc'[Sweeper]
      BY <2>1, BehindShape
    <3>2. \A c \in Calls : pc[c] \notin {"torn"} /\ (pc'[c] = "torn" <=> pc[c] = "using")
      BY <2>1, BehindShape, UsersAreOne
    <3>3. \A c \in Calls : pc'[c] # "using"
      BY <2>1, <3>2, BehindShape
    <3> QED BY <3>1, <3>2, <3>3 DEF PoolUsers
  <2>4. pc'[Sweeper] \in {"none", "running", "waiting", "using"}
    BY <2>1, BehindShape
  <2>5. pc' \in [PoolUsers -> {"none"} \cup Active \cup Ended]
    BY <2>1, BehindShape
  <2>6. \A c \in Calls : pc'[c] # "refused"
    BY <2>1, BehindShape
  <2> QED BY <2>1, <2>2, <2>3, <2>4, <2>5, <2>6
<1>5. CASE Listen
  BY <1>5 DEF Listen
<1>6. CASE ListenFails
  BY <1>6 DEF ListenFails
<1> QED BY <1>1, <1>2, <1>3, <1>4, <1>5, <1>6 DEF Starting

LEMMA ExitInv ==
  ASSUME IInv, Exit
  PROVE  IInv'
<1>1. /\ main = "closing" /\ main' = "exited" /\ pc' = LeftBehind
      /\ UNCHANGED <<verdict, listener, late, closed, left, held>> /\ Alive
      /\ \A u \in PoolUsers : held[u] = {}
  BY DEF Exit, AllBack, Alive
<1>2. \A u \in PoolUsers : pc[u] \notin {"using", "torn"}
  BY <1>1 DEF IInv, ServerOK
<1>3. \A c \in Calls : pc'[c] \notin {"using", "torn"}
  BY <1>1, <1>2, BehindShape, UsersAreOne
<1>4. pc'[Sweeper] = pc[Sweeper]
  BY <1>1, BehindShape
<1>5. pc' \in [PoolUsers -> {"none"} \cup Active \cup Ended]
  BY <1>1, BehindShape
<1>6. ServerOK'
  BY <1>1, <1>2, <1>3, <1>4, <1>5 DEF IInv, ServerOK, Mains, Verdicts, PoolUsers
<1>7. verdict \in {"ok", "error"} /\ closed
  BY <1>1 DEF IInv, ServerOK
<1>8. verdict = "ok" => \A c \in Calls : Quiet(c)'
  <2> SUFFICES ASSUME verdict = "ok", NEW c \in Calls PROVE Quiet(c)'
    OBVIOUS
  <2>1. Quiet(c)
    BY DEF IInv, LateEnds
  <2>2. pc'[c] = pc[c]
    BY <1>1, <2>1, BehindShape DEF Quiet, Active
  <2> QED BY <2>1, <2>2 DEF Quiet
<1>9. LateEnds'
  BY <1>1, <1>7, <1>8 DEF IInv, LateEnds, Alive
<1>10. WaitersMayTake' /\ ListenerFirst' /\ SweeperShape'
  <2>1. \A u \in PoolUsers : pc'[u] = "waiting" => pc[u] = "waiting"
    BY <1>1, BehindShape DEF PoolUsers
  <2> QED BY <1>1, <1>4, <2>1 DEF IInv, WaitersMayTake, ListenerFirst, SweeperShape
<1>11. NothingTorn'
  BY <1>3 DEF NothingTorn
<1>12. CutsExcused'
  <2> SUFFICES ASSUME NEW c \in Calls, pc'[c] \in {"cut", "refused"}
               PROVE  late \/ listener = "failed"
    BY <1>1 DEF CutsExcused
  <2>1. verdict = "error"
    BY <1>7, <1>8 DEF Quiet
  <2> QED BY <1>1, <2>1 DEF IInv, LateEnds
<1> QED BY <1>6, <1>9, <1>10, <1>11, <1>12 DEF IInv

LEMMA StoppingInv ==
  ASSUME IInv, Stopping
  PROVE  IInv'
<1> USE DEF IInv, ServerOK, WaitersMayTake, ListenerFirst, LateEnds, SweeperShape,
        NothingTorn, CutsExcused, Quiet, Alive, Mains, Verdicts
<1>1. CASE StopSignal
  BY <1>1, UsersAreOne DEF StopSignal
<1>2. CASE ServerError
  BY <1>2, UsersAreOne DEF ServerError, Return
<1>3. CASE ShutdownReturns
  <2>1. /\ main = "stopping" /\ main' = "closing" /\ verdict' = "ok" /\ closed'
        /\ ~closed /\ listener = "closed"
        /\ UNCHANGED <<listener, pc, left, held, late>>
    BY <1>3 DEF ShutdownReturns, Return
  <2>2. \A c \in Calls : Quiet(c)
    <3> TAKE c \in Calls
    <3>1. pc[c] \in {"none"} \cup Ended /\ pc[c] \notin {"refused", "cut", "torn"}
      BY <1>3, <2>1, UsersAreOne DEF ShutdownReturns
    <3> QED BY <3>1 DEF Ended
  <2> QED BY <2>1, <2>2
<1>4. CASE ShutdownTimesOut
  BY <1>4 DEF ShutdownTimesOut, Return
<1>5. CASE Exit
  BY <1>5, ExitInv
<1> QED BY <1>1, <1>2, <1>3, <1>4, <1>5 DEF Stopping

LEMMA NextInv == IInv /\ [Next]_vars => IInv'
<1> SUFFICES ASSUME IInv, [Next]_vars PROVE IInv'
  OBVIOUS
<1>1. CASE Next
  BY <1>1, StartingInv, StoppingInv, SweeperInv, ServingInv, PoolingInv DEF Next
<1>2. CASE UNCHANGED vars
  BY <1>2 DEF vars, IInv, ServerOK, WaitersMayTake, ListenerFirst, LateEnds,
     SweeperShape, NothingTorn, CutsExcused, Quiet, Alive
<1> QED BY <1>1, <1>2

-----------------------------------------------------------------------------
(* All of it together is inductive: runServe, the handlers and the pool.   *)
THEOREM ServerInductive == Spec => []IInv
BY InitInv, NextInv, PTL DEF Spec

(* The state of the process and the pool fit each other.                   *)
THEOREM ServerInShape == Spec => []ServerOK
<1>1. IInv => ServerOK
  BY DEF IInv
<1> QED BY <1>1, ServerInductive, PTL

(* runServe returns nil only after every call was answered or its client   *)
(* had left: srv.Shutdown, and then the deferred pool.Close.               *)
THEOREM ExitIsOrderly == Spec => []OrderlyExit
<1>1. IInv => OrderlyExit
  BY DEF IInv, LateEnds, Quiet, OrderlyExit
<1> QED BY <1>1, ServerInductive, PTL

(* No call is in the database when runServe has returned: pool.Close.      *)
THEOREM NothingIsTorn == Spec => []NothingTorn
<1>1. IInv => NothingTorn
  BY DEF IInv
<1> QED BY <1>1, ServerInductive, PTL

(* Calls are cut off, or refused for the closed pool, only after the ten   *)
(* seconds, a failed listener or a signal before signal.Notify.            *)
THEOREM CutsAreExcused == Spec => []CutsExcused
<1>1. IInv => CutsExcused
  BY DEF IInv
<1> QED BY <1>1, ServerInductive, PTL
=============================================================================
