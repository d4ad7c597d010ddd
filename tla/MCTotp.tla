------------------------------- MODULE MCTotp -------------------------------
(***************************************************************************)
(* An instance of the second factor for TLC: counters on eight bits, and   *)
(* codes that tell every key and counter apart.                            *)
(***************************************************************************)
EXTENDS TotpProperties

CONSTANTS k1, k2, noBytes, good, spelled, other, padding, garbage

SomeKeys == {k1, k2, noBytes}
SomeSecrets == {good, spelled, other, padding, garbage}
SomeKeyOf ==
  [s \in SomeSecrets |-> CASE s \in {good, spelled} -> k1 [] s = other -> k2
                           [] s = padding -> noBytes [] OTHER -> None]
SomeTimes == {0, 1, 29, 30, 31, 59, 60, 61, 89, 90, 91, 119, 120, 149, 150}
SomeCodes == SomeKeys \X (0 .. 255)
SomeHotp == [k \in SomeKeys |-> [c \in 0 .. 255 |-> <<k, c>>]]
=============================================================================
