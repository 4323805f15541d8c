SPECIFICATION Spec
CONSTANTS
    Ports <- MCPorts
    DefaultPort = 8765
    Threads = {t1, t2}
INVARIANTS ServersAccountedFor SettingsAgree
PROPERTIES WindsDown
