\* Paint frames and the delayed-command queue with two configurations.
CONSTANTS
    c1 = c1
    c2 = c2
    c3 = c3
    NoConfig = NoConfig
    Configs <- MCConfigs
    ConfigName <- MCConfigName
    Metas <- MCMetas
    FilterStrings <- MCFilterStrings
SPECIFICATION Spec
INVARIANT TypeOK
INVARIANT TestAssertHolds
INVARIANT DisplayNamesUnique
INVARIANT MachinesSorted
