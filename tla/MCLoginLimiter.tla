--------------------------- MODULE MCLoginLimiter ---------------------------
(***************************************************************************)
(* Instances of the login limiter for TLC.  Three failures within two      *)
(* ticks ban for six: the code's five minutes and fifteen, with the number *)
(* of attempts reduced from five.                                          *)
(***************************************************************************)
EXTENDS LimiterProperties

CONSTANTS h1, h2, a1

TwoHandlers == {h1, h2}
OneAddress == {a1}
=============================================================================
