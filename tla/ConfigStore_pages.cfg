SPECIFICATION Spec
CONSTANTS
    Users = {u1, u2}
    Pages = {"llm", "router", "workspace", "tools", "advanced"}
    Vals = {a, b}
    Missing = Missing
    Empty = Empty
    Default = Default
    Masked = Masked
    Own = Own
    MaxSaves = 2
INVARIANTS SecretsSurvive
PROPERTIES Implements SaveMeansEdit
CHECK_DEADLOCK FALSE
