SPECIFICATION RegistrySpec
CONSTANTS
    Servers = {"map", "map_ext"}
    Shadows <- Map_Ext
    Names = {"a"}
    Skills = {"k1", "k2"}
    Given = "k1"
    MaxRequests = 3
INVARIANTS RegistryTypeOK ToolsAndClients  
CHECK_DEADLOCK FALSE
