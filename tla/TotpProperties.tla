--------------------------- MODULE TotpProperties ---------------------------
(***************************************************************************)
(* A login with a code from an authenticator: the clock of the device, the *)
(* time on the way and the clock of the server decide whether it passes.   *)
(***************************************************************************)
EXTENDS Totp

CONSTANTS
  Times,    \* what clocks show, from the epoch on
  TheSecret \* a text that decodes to a key

ASSUME TimesAssumption ==
  /\ Times \subseteq 0 .. Wide - 1
  /\ TheSecret \in Secrets /\ KeyOf[TheSecret] \in Keys \ {EmptyKey}

VARIABLES
  read,    \* what the device showed when the code was read
  now,     \* what the server's clock shows when it is checked
  secret,  \* the secret the account has on the server, or None
  typed    \* what is typed: a code of some key at some time, or None

vars == <<read, now, secret, typed>>

(* The code a device that holds TheSecret shows: RFC 6238, external.       *)
Shown(t) == Hotp[KeyOf[TheSecret]][t \div Period]

TInit ==
  /\ read \in Times /\ now = read
  /\ secret \in Secrets \cup {None}
  /\ typed \in {Hotp[k][t \div Period] : k \in Keys, t \in Times} \cup {None}
(* A clock that is off, or an answer that is slow.                         *)
Drift(t) == now' = t /\ UNCHANGED <<read, secret, typed>>
TNext == \E t \in Times : Drift(t)
TSpec == TInit /\ [][TNext]_vars

Passes == SecondFactor(TRUE, secret, typed, now)

Spelled(s) == s # None /\ KeyOf[s] = KeyOf[TheSecret]
Gap == IF read < now THEN now - read ELSE read - now

(* A code that is at most one period away from the server's clock, early   *)
(* or late, passes, however the secret is spelled: also right after the    *)
(* epoch, where the window wraps below zero.                               *)
DriftTolerated ==
  Spelled(secret) /\ typed = Shown(read) /\ Gap <= Period => Passes

(* No two counters have the same code: what can be said without it is said *)
(* of codes, and six digits do collide.                                    *)
NoCollision ==
  \A k \in Keys : \A c, d \in Counters : Hotp[k][c] = Hotp[k][d] => c = d

(* An account whose secret is missing, is not base32 or is padding only.   *)
Unusable(s) == s = None \/ KeyOf[s] \in {None, EmptyKey}

(* A code that is two periods away does not pass any more, nor yet, and    *)
(* without a usable secret none does, whatever is typed.                   *)
StaleRefused ==
  /\ NoCollision /\ Spelled(secret) /\ typed = Shown(read) /\ Gap >= 2 * Period => ~Passes
  /\ Unusable(secret) => ~Passes
=============================================================================
