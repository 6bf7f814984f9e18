CONSTANTS
    MaxGen = 2
    Lists = {{}, {"a"}}
SPECIFICATION ReloadFairSpec
INVARIANTS
    AcceptedWhole
PROPERTIES
    LastHangupWins
