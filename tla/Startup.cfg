CONSTANTS
    Files <- MCFiles
    SchemaPaths = {"s1", "s2"}
    Contents = {"absent", "invalid", "schema", "schema2"}
    Paths = {"logfenced.sock", "logfenced.stats.sock"}
    MaxFaults = 2
SPECIFICATION StartupSpec
INVARIANTS
    ListensAsConfigured
    LiveIsComplete
PROPERTIES
    InstallsWhatIsOnDisk
    Recovers
