SPECIFICATION Spec
CONSTANTS
  a1 = a1
  a2 = a2
  Agent = {a1, a2}
  Override <- MCOverride
  MaxConcurrent = 1
  Grace = 2
  NoUpdate = NoUpdate
  NoPin = NoPin
  NoOffer = NoOffer
  MaxVersion = 1
  MaxWait = 1
  MaxFaults = 1
  MaxChanges = 1
INVARIANT PinRespected
