SPECIFICATION Spec
CONSTANTS
  MaxId = 1
  Timeout = 5
  StableLanding = 1
  CancelProtection = 1
  FlightConfirm = 1
  Verification = 2
  Intervals = {2}
INVARIANTS
  AutomaticIdsAreNew
PROPERTIES
  NothingIsReplayed
  PaymentIsEarned
