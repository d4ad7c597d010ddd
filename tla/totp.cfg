SPECIFICATION TSpec
CONSTANTS
  Wide = 256
  k1 = k1
  k2 = k2
  noBytes = noBytes
  good = good
  spelled = spelled
  other = other
  padding = padding
  garbage = garbage
  None = None
  Keys <- SomeKeys
  EmptyKey = noBytes
  Secrets <- SomeSecrets
  KeyOf <- SomeKeyOf
  Codes <- SomeCodes
  Hotp <- SomeHotp
  Times <- SomeTimes
  TheSecret = good
INVARIANTS DriftTolerated StaleRefused
