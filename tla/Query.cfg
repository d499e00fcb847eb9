SPECIFICATION Spec
CONSTANTS
    None = None
    ShortIdText = ShortIdText
    Short <- MCShort
    History <- MCHistory
    InitialStores <- MCInitialStores
    Queries <- MCQueries
    MinPageSize = 2
    MaxPageSize = 5
    DefaultPageSize = 2
    MaxWrites = 2
INVARIANTS
    TypeOK
    PanicsOnlyIfUndone
    ResultComplete
    PageHoldsItsShare
PROPERTY
    QueryAnswered
CHECK_DEADLOCK FALSE
