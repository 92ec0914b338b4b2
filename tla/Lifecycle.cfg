SPECIFICATION FairSpec
CONSTANTS
    r1 = r1
    Environments <- MCEnvironments
    Installations <- MCInstallations
    Probes = {r1}
    MaxFlips = 2
    MaxFaults = 1
    MaxStops = 2
INVARIANT TypeOK
INVARIANT ReadinessWasTrue
INVARIANT ClosedInOrder
INVARIANT NothingTracedAlone
PROPERTY EventuallyReady
