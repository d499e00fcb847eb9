SPECIFICATION Spec
CONSTANTS
    Depth = 4
    Contents <- MCForkContents
    Block <- MCBlock
    Origin <- MCOrigin
    Parent <- MCParent
    Slot <- MCSlot
    Ancestors <- MCAncestors
    BlockNumber <- MCBlockNumber
    Tx <- MCTx
    TxsOf <- MCTxsOf
    Inputs <- MCInputs
    Outputs <- MCOutputs
    Redeemers <- MCRedeemers
    Start <- MCStart
    ForksReturn = FALSE
    None = None
    MaxRollbacks = 2
    MaxCrashes = 1
INVARIANTS
    TypeOK
    DbOnChain
    CreationsIndexed
    ResumePointCovered
    CacheFollowsDb
    HistoryIsLinked
    NoWorkerPanic
    LookupComplete
    NoPhantomContract
PROPERTIES
    NeverOverwrites
    ImplementsChainIndex
CHECK_DEADLOCK FALSE
