SPECIFICATION Spec
CONSTANTS
    Depth = 3
    Contents <- MCForkContents
    Block <- MCBlock
    Origin <- MCOrigin
    Parent <- MCParent
    Slot <- MCSlot
    Ancestors <- MCAncestors
    BlockNumber <- MCBlockNumber
    Tx <- MCTx
    TxsOf <- MCTxsOf
    Inputs <- MCInputs
    Outputs <- MCOutputs
    Redeemers <- MCRedeemers
    Start <- MCStart
    ForksReturn = FALSE
    None = None
    MaxRollbacks = 1
    MaxCrashes = 0
INVARIANT RefsNotFromTheFuture
CHECK_DEADLOCK FALSE
