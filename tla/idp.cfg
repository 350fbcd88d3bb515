\* Two requests at a time: four requests or verifications of a phone number over three ticks
\* and restarts, with caps of one; and three requests of two administrators over three users.
SPECIFICATION Spec
CONSTANTS
  Slot = {s1, s2}
  NoCode = NoCode
  MaxSendsPerHour = 1
  MaxVerifyAttempts = 1
  Ttl = 2
  Cooldown = 1
  Hour = 2
  MaxTime = 3
  MaxArrivals = 4
  Desk = {s1, s2}
  User = {a, b, n}
  Caller = {a, b}
  NewUser = n
  Service = {x}
  Updates <- MCUpdates
  MaxRequests = 3
SYMMETRY Symmetry
INVARIANTS
  SendsAreCapped
  GuessesAreCapped
  SupersededCodesAreRefused
  AnAdministratorStays
  SuccessMeansDesired
CHECK_DEADLOCK FALSE
