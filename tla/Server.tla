------------------------------- MODULE Server -------------------------------
(***************************************************************************)
(* The life of one serve process: its start, the listener, the calls it    *)
(* answers, the connection pool they share with the session cleanup, and   *)
(* the way runServe stops.                                                 *)
(*                                                                         *)
(* What a call does is left out, but for the connections it takes from the *)
(* pool, one after the other: for a statement, or for a transaction with   *)
(* all of its statements.  net/http and pgxpool are external.              *)
(***************************************************************************)
EXTENDS Naturals

CONSTANTS
  Calls,     \* connections of clients, each with one HTTP request
  Needs,     \* how often a call takes a connection from the pool, at most
  Conns,     \* the connections of the pool
  Sweeper    \* the goroutine that deletes expired sessions

ASSUME ServerAssumption ==
  /\ Needs \in [Calls -> Nat]
  /\ Conns # {}
  /\ Sweeper \notin Calls

PoolUsers == Calls \cup {Sweeper}

VARIABLES
  main,      \* where runServe is
  verdict,   \* what it returns, or that the process was killed
  listener,  \* the socket behind ListenAndServe
  late,      \* the ten seconds of Shutdown are over
  closed,    \* the pool hands out no connection any more
  pc,        \* pool user -> what it does
  left,      \* pool user -> how many connections it may still take
  held       \* pool user -> the connections it holds

vars == <<main, verdict, listener, late, closed, pc, left, held>>
process == <<main, verdict, listener, late, closed>>

Mains == {"starting", "launched", "serving", "stopping", "closing", "exited"}
Verdicts == {"none", "ok", "error", "killed"}

(* Running: in Go code.  Waiting: for a connection.  Using: in the         *)
(* database.  Refused: the pool was closed.  Cut and torn: the process     *)
(* ended first, torn while the call was in the database.                   *)
Active == {"connected", "running", "waiting", "using"}
Ended == {"answered", "gone", "dropped", "refused", "cut", "torn"}

Alive == main # "exited"
Move(u, s) == pc' = [pc EXCEPT ![u] = s]
Spare == Conns \ UNION {held[u] : u \in PoolUsers}
AllBack == \A u \in PoolUsers : held[u] = {}

-----------------------------------------------------------------------------
(* The start                                                               *)

(* Config, database and templates are in order, and both goroutines start. *)
Launch ==
  /\ main = "starting" /\ main' = "launched"
  /\ UNCHANGED <<verdict, listener, late, closed, pc, left, held>>

StartFails ==
  /\ main = "starting" /\ main' = "exited" /\ verdict' = "error" /\ closed' = TRUE
  /\ UNCHANGED <<listener, late, pc, left, held>>

(* From here on SIGINT and SIGTERM are taken by runServe.                  *)
Notify ==
  /\ main = "launched" /\ main' = "serving"
  /\ UNCHANGED <<verdict, listener, late, closed, pc, left, held>>

(* What is left of the calls when the process ends.                        *)
LeftBehind ==
  [u \in PoolUsers |->
     IF u = Sweeper \/ pc[u] \notin Active THEN pc[u]
     ELSE IF pc[u] = "using" THEN "torn" ELSE "cut"]

(* Before that a signal kills the process.                                 *)
DieEarly ==
  /\ main \in {"starting", "launched"} /\ main' = "exited" /\ verdict' = "killed"
  /\ pc' = LeftBehind
  /\ UNCHANGED <<listener, late, closed, left, held>>

Listen ==
  /\ listener = "new" /\ main \in {"launched", "serving"}
  /\ listener' = "open"
  /\ UNCHANGED <<main, verdict, late, closed, pc, left, held>>

(* The address is taken, or accept fails later on.                         *)
ListenFails ==
  /\ listener \in {"new", "open"} /\ main \in {"launched", "serving"}
  /\ listener' = "failed"
  /\ UNCHANGED <<main, verdict, late, closed, pc, left, held>>

-----------------------------------------------------------------------------
(* A call                                                                  *)

Connect(c) ==
  /\ Alive /\ listener = "open" /\ pc[c] = "none"
  /\ Move(c, "connected")
  /\ UNCHANGED <<process, left, held>>

Begin(c) ==
  /\ Alive /\ pc[c] = "connected"
  /\ Move(c, "running")
  /\ UNCHANGED <<process, left, held>>

(* Shutdown closes a connection on which no request has come in.           *)
Drop(c) ==
  /\ main = "stopping" /\ pc[c] = "connected"
  /\ Move(c, "dropped")
  /\ UNCHANGED <<process, left, held>>

Ask(u) ==
  /\ Alive /\ pc[u] = "running" /\ left[u] > 0
  /\ Move(u, "waiting")
  /\ UNCHANGED <<process, left, held>>

Acquire(u) ==
  /\ Alive /\ pc[u] = "waiting" /\ ~closed
  /\ \E k \in Spare : held' = [held EXCEPT ![u] = held[u] \cup {k}]
  /\ Move(u, "using")
  /\ left' = [left EXCEPT ![u] = left[u] - 1]
  /\ UNCHANGED process

(* Mutant: what a transaction has written is read on another connection    *)
(* before it is over.                                                      *)
Release_Nested(u) ==
  /\ Alive /\ pc[u] = "using"
  /\ \/ left[u] > 0 /\ Move(u, "waiting") /\ UNCHANGED held
     \/ left[u] = 0 /\ Move(u, "running") /\ held' = [held EXCEPT ![u] = {}]
  /\ UNCHANGED <<process, left>>

(* Mutant: rows that are left open keep their connection.                  *)
Release_Leaks(u) ==
  /\ Alive /\ pc[u] = "using"
  /\ Move(u, "running")
  /\ UNCHANGED <<process, left, held>>

(* The statement is done, or the transaction is committed or rolled back.  *)
Release(u) ==
  /\ Alive /\ pc[u] = "using"
  /\ Move(u, "running")
  /\ held' = [held EXCEPT ![u] = {}]
  /\ UNCHANGED <<process, left>>

(* The handler returns, after all it had to do or with an error before.    *)
Answer(c) ==
  /\ Alive /\ pc[c] = "running"
  /\ Move(c, "answered")
  /\ UNCHANGED <<process, left, held>>

(* ErrClosedPool: a 500, and from the middleware a call without a user.    *)
Refuse(c) ==
  /\ Alive /\ pc[c] = "waiting" /\ closed
  /\ Move(c, "refused")
  /\ held' = [held EXCEPT ![c] = {}]
  /\ UNCHANGED <<process, left>>

(* The client goes away, and the context of the call ends with it.         *)
GiveUp(c) ==
  /\ Alive /\ pc[c] \in Active
  /\ Move(c, "gone")
  /\ held' = [held EXCEPT ![c] = {}]
  /\ UNCHANGED <<process, left>>

-----------------------------------------------------------------------------
(* The session cleanup, once an hour, on a context that never ends         *)

Tick ==
  /\ main \notin {"starting", "exited"} /\ pc[Sweeper] = "none"
  /\ Move(Sweeper, "running")
  /\ left' = [left EXCEPT ![Sweeper] = 1]
  /\ UNCHANGED <<process, held>>

Sleep ==
  /\ Alive
  /\ \/ pc[Sweeper] = "running" /\ left[Sweeper] = 0
     \/ pc[Sweeper] = "waiting" /\ closed
  /\ Move(Sweeper, "none")
  /\ left' = [left EXCEPT ![Sweeper] = 0]
  /\ UNCHANGED <<process, held>>

-----------------------------------------------------------------------------
(* The end                                                                 *)

(* Mutant: the pool is closed first, and the server after it.              *)
StopSignal_PoolFirst ==
  /\ main = "serving" /\ main' = "stopping" /\ listener' = "closed" /\ closed' = TRUE
  /\ UNCHANGED <<verdict, late, pc, left, held>>

(* SIGINT or SIGTERM; later ones wait in a channel nobody reads.  Shutdown *)
(* closes the listener first.                                              *)
StopSignal ==
  /\ main = "serving" /\ main' = "stopping" /\ listener' = "closed"
  /\ UNCHANGED <<verdict, late, closed, pc, left, held>>

(* Returning runs the deferred pool.Close: it takes effect at once, and    *)
(* returns when every connection has come back.                            *)
Return(v) ==
  /\ main' = "closing" /\ verdict' = v /\ closed' = TRUE
  /\ UNCHANGED <<listener, pc, left, held>>

ServerError == main = "serving" /\ listener = "failed" /\ Return("error") /\ UNCHANGED late

(* Mutant: Shutdown is not waited for.                                     *)
ShutdownReturns_AtOnce == main = "stopping" /\ Return("ok") /\ UNCHANGED late

ShutdownReturns ==
  /\ main = "stopping" /\ \A c \in Calls : pc[c] \notin Active
  /\ Return("ok") /\ UNCHANGED late

(* It looks again every half second at the most, so that it may miss that  *)
(* the last call has just ended.                                           *)
ShutdownTimesOut == main = "stopping" /\ Return("error") /\ late' = TRUE

(* Mutant: the pool is not closed before the process ends.                 *)
Exit_Unclosed ==
  /\ main = "closing" /\ main' = "exited" /\ pc' = LeftBehind
  /\ UNCHANGED <<verdict, listener, late, closed, left, held>>

Exit ==
  /\ main = "closing" /\ AllBack
  /\ main' = "exited" /\ pc' = LeftBehind
  /\ UNCHANGED <<verdict, listener, late, closed, left, held>>

-----------------------------------------------------------------------------
Init ==
  /\ main = "starting" /\ verdict = "none" /\ listener = "new"
  /\ late = FALSE /\ closed = FALSE
  /\ pc = [u \in PoolUsers |-> "none"]
  /\ left = [u \in PoolUsers |-> IF u = Sweeper THEN 0 ELSE Needs[u]]
  /\ held = [u \in PoolUsers |-> {}]

Serving(c) == Connect(c) \/ Begin(c) \/ Drop(c) \/ Answer(c) \/ Refuse(c) \/ GiveUp(c)
Pooling(u) == Ask(u) \/ Acquire(u) \/ Release(u)
Starting == Launch \/ StartFails \/ Notify \/ DieEarly \/ Listen \/ ListenFails
Stopping == StopSignal \/ ServerError \/ ShutdownReturns \/ ShutdownTimesOut \/ Exit

Next ==
  \/ Starting \/ Stopping \/ Tick \/ Sleep
  \/ \E c \in Calls : Serving(c)
  \/ \E u \in PoolUsers : Pooling(u)

Spec == Init /\ [][Next]_vars

(* runServe and the handlers go on, the database answers, and the pool     *)
(* serves those that wait in turn.  Nobody has to call, to give up or to   *)
(* send a signal.                                                          *)
Fairness ==
  /\ WF_vars(Notify) /\ WF_vars(ServerError) /\ WF_vars(Sleep) /\ WF_vars(Exit)
  /\ WF_vars(ShutdownReturns \/ ShutdownTimesOut)
  /\ \A c \in Calls : WF_vars(Answer(c) \/ Refuse(c))
  /\ \A u \in PoolUsers : WF_vars(Ask(u)) /\ WF_vars(Release(u)) /\ SF_vars(Acquire(u))

FairSpec == Spec /\ Fairness
=============================================================================
