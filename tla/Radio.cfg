\* Complete: one program and one chip of either kind.
SPECIFICATION Spec
CONSTANTS
  MaxResets = 2
INVARIANTS PinSafe InStep CarrierTuned
PROPERTIES CallsReturn
