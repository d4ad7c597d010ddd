-------------------------------- MODULE Totp --------------------------------
(***************************************************************************)
(* The second factor of a login: ValidateTOTP, and what the login handlers *)
(* make of it.  Times are whole seconds since the epoch.  HMAC-SHA1 and    *)
(* its truncation are the constant Hotp; a typed code is one of six        *)
(* characters, once the spaces around it are gone, or None.                *)
(***************************************************************************)
EXTENDS Integers

CONSTANTS
  Wide,      \* 2^64, the number of values of a uint64
  Keys,      \* what a secret in base32 can decode to
  EmptyKey,  \* the key of no bytes
  Secrets,   \* the texts that users.totp_secret holds
  KeyOf,     \* the key a text decodes to, None when it is not base32
  Codes,     \* six-character texts
  Hotp,      \* the code of a key and a counter
  None       \* no secret, no key, no code

Counters == 0 .. Wide - 1

ASSUME TotpAssumption ==
  /\ Wide \in Nat /\ Wide > 30
  /\ EmptyKey \in Keys /\ None \notin Keys \cup Secrets \cup Codes
  /\ KeyOf \in [Secrets -> Keys \cup {None}]
  /\ Hotp \in [Keys -> [Counters -> Codes]]

Period == 30

(* uint64(t.Unix()) / period: a time before the epoch wraps.               *)
CounterAt(t) == (t % Wide) \div Period

(* Mutant: the loop over the skew ends before +totpSkew.                   *)
Window_NoFuture(c) == {(c - 1) % Wide, c}
(* Mutant: two periods on either side.                                     *)
Window_Two(c) == {(c + skew) % Wide : skew \in -2 .. 2}
Window(c) == {(c + skew) % Wide : skew \in -1 .. 1}

(* Mutant: a secret that decodes to nothing makes a key.                   *)
Usable_Empty(secret) == KeyOf[secret] # None
Usable(secret) == KeyOf[secret] \notin {None, EmptyKey}

Validate(secret, code, t) ==
  /\ code # None
  /\ Usable(secret)
  /\ \E c \in Window(CounterAt(t)) : Hotp[KeyOf[secret]][c] = code

(* Mutant: an account that has no secret is let through.                   *)
SecondFactor_Open(enabled, secret, code, t) ==
  enabled /\ secret # None => Validate(secret, code, t)
(* Both login handlers: fail closed when enabled.                          *)
SecondFactor(enabled, secret, code, t) ==
  enabled => /\ code # None
             /\ secret # None
             /\ Validate(secret, code, t)
=============================================================================
