-------------------------- MODULE ServerProperties --------------------------
(***************************************************************************)
(* What the end of the process does to the calls in progress, and that the *)
(* pool comes to everyone who waits for it.                                *)
(***************************************************************************)
EXTENDS Server

(* The type invariant: where runServe is fits what it will return and the  *)
(* pool, and a connection is held by one user, who is in the database.     *)
ServerOK ==
  /\ main \in Mains /\ verdict \in Verdicts
  /\ listener \in {"new", "open", "failed", "closed"}
  /\ late \in BOOLEAN /\ closed \in BOOLEAN
  /\ pc \in [PoolUsers -> {"none"} \cup Active \cup Ended]
  /\ left \in [PoolUsers -> Nat] /\ held \in [PoolUsers -> SUBSET Conns]
  /\ main \in {"starting", "launched", "serving", "stopping"} => verdict = "none" /\ ~closed
  /\ main = "closing" => verdict \in {"ok", "error"} /\ closed
  /\ \A u \in PoolUsers : held[u] # {} <=> pc[u] \in {"using", "torn"}
  /\ \A u, v \in PoolUsers : u # v => held[u] \cap held[v] = {}

(* When runServe returns nil, every call that had come in was answered, or *)
(* its client had left: none was cut off, and none met a closed pool.      *)
OrderlyExit ==
  main = "exited" /\ verdict = "ok" =>
    \A c \in Calls : pc[c] \in {"none", "answered", "gone", "dropped"}

(* However runServe returns, no call is in the database when the process   *)
(* ends: a transaction is never torn by it, but by the signal that comes   *)
(* before signal.Notify.                                                   *)
NothingTorn ==
  \A c \in Calls : pc[c] = "torn" => verdict = "killed"

(* A call is cut off between two statements, or refused for the closed     *)
(* pool, only after ten seconds of Shutdown, after the listener failed or  *)
(* by that early signal.                                                   *)
CutsExcused ==
  \A c \in Calls :
    pc[c] \in {"cut", "refused"} => late \/ listener = "failed" \/ verdict = "killed"

(* A stop signal ends the process, whatever the calls are doing.           *)
StopsOnSignal == main = "stopping" ~> main = "exited"

(* A call that has come in ends: no call waits for ever for a connection,  *)
(* even if the pool has only one.                                          *)
EveryCallEnds == \A c \in Calls : pc[c] = "running" ~> pc[c] \in Ended
=============================================================================
