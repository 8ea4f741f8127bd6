SPECIFICATION Spec
CONSTANTS
  MaxCurrents = {10, 90}
  Loads = {0, 16}
  HasVentilation = TRUE
  OvercurrentTest = FALSE

PROPERTY StopHolds
