SPECIFICATION Spec
CONSTANTS
    Strings <- MCStrings
    Inputs <- MCInputs
    Found <- MCFound
    Envs <- MCEnvs
    HelperConfigs <- MCHelperConfigs
    Updaters = {u1, u2}
    DefaultPath = "default"
    None = None
    Unreadable = Unreadable
    Empty = Empty
    Garbled = Garbled
SYMMETRY Symmetry
INVARIANTS
    FileIsTheConfiguration
    ReadyMeansItSignsIn
    TunnelIsOfBothConfigurations
