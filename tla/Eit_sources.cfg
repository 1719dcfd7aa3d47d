SPECIFICATION SourcesSpec
CHECK_DEADLOCK FALSE
CONSTANTS
    TextSize = 3
    ComponentSize = 2
    ContentSize = 3
    ItemSize = 2
    CaSize = 2
    ReadSize = 4
    ShownSize = 2
    event_id = 30000
    DefaultDuration = 5
    PoolSize = 120
    Cases <- SomeCases
    Rows <- SomeRows
    MaxNow = 3
INVARIANTS
    SourcesTypeOK
    PresentAndFollowing
    Carried
    Outcome
    Contiguous
    EntryFromFile
