----------------------------- MODULE TotpProofs -----------------------------
(***************************************************************************)
(* What the clocks have to do with the second factor, for all times, keys  *)
(* and codes.                                                              *)
(***************************************************************************)
EXTENDS TotpProperties, TLAPS

(* The counter of a time from the epoch on is the one a device has.        *)
LEMMA CounterOfTime ==
  ASSUME NEW t \in 0 .. Wide - 1
  PROVE  /\ CounterAt(t) = t \div Period
         /\ t \div Period \in Counters
         /\ 30 * (t \div Period) <= t /\ t < 30 * (t \div Period) + 30
<1>1. t % Wide = t
  BY TotpAssumption
<1>2. t \div 30 \in Int /\ 30 * (t \div 30) <= t /\ t < 30 * (t \div 30) + 30
  BY TotpAssumption
<1> QED BY <1>1, <1>2, TotpAssumption DEF CounterAt, Period, Counters

(* Remainders around the range 0 .. Wide - 1.                              *)
LEMMA SmallRemainder ==
  ASSUME NEW n \in 0 .. Wide - 1
  PROVE  n % Wide = n
BY TotpAssumption

LEMMA RemainderBelowZero == (0 - 1) % Wide = Wide - 1
BY TotpAssumption

LEMMA RemainderInRange ==
  ASSUME NEW n \in Int
  PROVE  n % Wide \in Counters
BY TotpAssumption DEF Counters

(* Two counters that are neighbours are in each other's window.            *)
LEMMA NeighboursInWindow ==
  ASSUME NEW c \in Counters, NEW d \in Counters, d - c \in -1 .. 1
  PROVE  d \in Window(c)
<1>1. c + (d - c) = d
  BY TotpAssumption DEF Counters
<1>2. d % Wide = d
  BY SmallRemainder DEF Counters
<1> QED BY <1>1, <1>2 DEF Window

(* Counters that are further apart are not, unless they are at the ends of *)
(* the range.                                                              *)
LEMMA OthersOutside ==
  ASSUME NEW c \in Counters, NEW d \in Counters,
         d - c \notin -1 .. 1, c + 1 < Wide, d + 1 < Wide
  PROVE  d \notin Window(c)
<1>1. SUFFICES ASSUME NEW skew \in -1 .. 1, d = (c + skew) % Wide PROVE FALSE
  BY DEF Window
<1>2. CASE c + skew \in 0 .. Wide - 1
  <2>1. d = c + skew
    BY <1>1, <1>2, SmallRemainder
  <2> QED BY <2>1, TotpAssumption DEF Counters
<1>3. CASE c + skew \notin 0 .. Wide - 1
  <2>1. c + skew = 0 - 1
    BY <1>3, TotpAssumption DEF Counters
  <2>2. d = Wide - 1
    BY <1>1, <2>1, RemainderBelowZero
  <2> QED BY <2>2, TotpAssumption DEF Counters
<1> QED BY <1>2, <1>3

-----------------------------------------------------------------------------
TypeOK ==
  /\ read \in Times /\ now \in Times
  /\ secret \in Secrets \cup {None}

(* Clocks show times, and the account's secret is one that is stored.      *)
THEOREM TotpInShape == TSpec => []TypeOK
<1>1. TInit => TypeOK
  BY DEF TInit, TypeOK
<1>2. TypeOK /\ [TNext]_vars => TypeOK'
  BY DEF TypeOK, TNext, Drift, vars
<1> QED BY <1>1, <1>2, PTL DEF TSpec

(* A code that is at most one period off passes: ValidateTOTP, with the    *)
(* window it looks at.                                                     *)
THEOREM DriftTheorem == TSpec => []DriftTolerated
<1>1. TypeOK => DriftTolerated
  <2> SUFFICES ASSUME TypeOK, Spelled(secret), typed = Shown(read), Gap <= Period
               PROVE  Passes
    BY DEF DriftTolerated
  <2> DEFINE c == now \div Period
             d == read \div Period
  <2>1. read \in 0 .. Wide - 1 /\ now \in 0 .. Wide - 1
    BY TimesAssumption DEF TypeOK
  <2>2. /\ c \in Counters /\ 30 * c <= now /\ now < 30 * c + 30
        /\ d \in Counters /\ 30 * d <= read /\ read < 30 * d + 30
        /\ CounterAt(now) = c
    BY <2>1, CounterOfTime
  <2>3. d - c \in -1 .. 1
    <3> HIDE DEF c, d
    <3>1. read - now <= 30 /\ now - read <= 30
      BY <2>1, TotpAssumption DEF Gap, Period
    <3> QED BY <2>1, <2>2, <3>1, TotpAssumption DEF Counters
  <2>4. d \in Window(CounterAt(now))
    BY <2>2, <2>3, NeighboursInWindow
  <2>5. secret \in Secrets /\ KeyOf[secret] = KeyOf[TheSecret]
    BY DEF TypeOK, Spelled
  <2>6. Usable(secret)
    BY <2>5, TimesAssumption, TotpAssumption DEF Usable
  <2>7. Hotp[KeyOf[secret]][d] = typed
    BY <2>5 DEF Shown
  <2>8. typed # None
    BY <2>2, <2>7, <2>5, TimesAssumption, TotpAssumption
  <2> QED BY <2>4, <2>5, <2>6, <2>7, <2>8, TotpAssumption
          DEF Passes, SecondFactor, Validate
<1> QED BY <1>1, TotpInShape, PTL

(* A code that is two periods off does not, when the code function tells   *)
(* counters apart.                                                         *)
THEOREM StaleTheorem == TSpec => []StaleRefused
<1>1. TypeOK => StaleRefused
  <2>0. Unusable(secret) => ~Passes
    BY DEF Unusable, Passes, SecondFactor, Validate, Usable
  <2> SUFFICES ASSUME TypeOK, NoCollision, Spelled(secret), typed = Shown(read),
                      Gap >= 2 * Period, Passes
               PROVE  FALSE
    BY <2>0 DEF StaleRefused
  <2> DEFINE c == now \div Period
             d == read \div Period
  <2>1. read \in 0 .. Wide - 1 /\ now \in 0 .. Wide - 1
    BY TimesAssumption DEF TypeOK
  <2>2. /\ c \in Counters /\ 30 * c <= now /\ now < 30 * c + 30
        /\ d \in Counters /\ 30 * d <= read /\ read < 30 * d + 30
        /\ CounterAt(now) = c
    BY <2>1, CounterOfTime
  <2>3. d - c \notin -1 .. 1 /\ c + 1 < Wide /\ d + 1 < Wide
    <3> HIDE DEF c, d
    <3>1. read - now >= 60 \/ now - read >= 60
      BY <2>1, TotpAssumption DEF Gap, Period
    <3> QED BY <2>1, <2>2, <3>1, TotpAssumption DEF Counters
  <2>4. PICK e \in Window(c) : Hotp[KeyOf[secret]][e] = typed
    BY <2>2, TotpAssumption DEF Passes, SecondFactor, Validate
  <2>5. e \in Counters
    <3> HIDE DEF c
    <3> PICK skew \in -1 .. 1 : e = (c + skew) % Wide
      BY <2>4 DEF Window
    <3> c + skew \in Int
      BY <2>2 DEF Counters
    <3> QED BY RemainderInRange
  <2>6. KeyOf[secret] = KeyOf[TheSecret] /\ KeyOf[TheSecret] \in Keys
    BY TimesAssumption DEF Spelled
  <2>7. e = d
    BY <2>2, <2>4, <2>5, <2>6 DEF Shown, NoCollision
  <2> QED BY <2>2, <2>3, <2>4, <2>7, OthersOutside
<1> QED BY <1>1, TotpInShape, PTL
=============================================================================
