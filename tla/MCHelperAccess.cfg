SPECIFICATION Spec
CONSTANTS
    Systems = {"unix", "windows"}
    ConfFound <- MCConfFound
    ConfPut <- MCConfPut
    DirFound <- MCDirFound
    EtcFound <- MCEtcFound
    None = None
INVARIANTS
    ConfigurationIsTheAdministrators
    SocketIsTheGroups
