SPECIFICATION FairSpec
CONSTANTS
  MaxCurrents = {90}
  Loads = {0, 16}
  HasVentilation = TRUE
  OvercurrentTest = FALSE
INVARIANTS TypeOK PowerOnlyWhenGranted PilotMatchesState ReportMatchesPower VentilatedPower
PROPERTIES SessionSpec UnpluggedSettles FaultCutsPower
