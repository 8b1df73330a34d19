\* Two tests of the switch, of any units, two steps there that fail, one port
\* with one VLAN measured; two runs of the loop, any order of the units, three
\* things wrong in a boot, two other faults.
SPECIFICATION OrchestratorSpec
CONSTANTS
    Units = {"cmc", "vmc", "mmc", "hsn"}
    MaxRuns = 2
    MaxFaults = 2
    BootOdds = 3
    MaxTests = 2
    MaxFailures = 2
    TestPorts = {2}
    Lanes = {0, 1}
    Copperless = TRUE
    MaxOdd = 2
    LateBy = 70000
    LoopLatency = {14, 60}
    UnitLatency = {50, 200}
\* a day of work ends: no further test is started
CHECK_DEADLOCK FALSE
INVARIANTS
      BootSurvives
    NoSilentMisrouting PassProvesWiring PassBoundsLatency
