SPECIFICATION LiveSpec
CONSTANTS
    Callers = {c1, c2}
    SettingKeys = {k}
    StoreKeys = {s1, s2}
    Values = {v1}
    Absent = Absent
    Nobody = Nobody
    NoDocument = NoDocument
    Nothing = Nothing
INVARIANTS
    TypeOK
    AcknowledgedWritesHold
PROPERTIES
    ReadsAreCurrentOrMiss
    ImplementsPluginStore
    GateIsReleased
    QuietCallsReturn
