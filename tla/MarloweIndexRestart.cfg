SPECIFICATION Spec
CONSTANTS
    Depth = 3
    Contents <- MCForkContents
    Block <- MCBlock
    Origin <- MCOrigin
    Parent <- MCParent
    Slot <- MCSlot
    Ancestors <- MCAncestors
    BlockNumber <- MCBlockNumber
    Tx <- MCTx
    TxsOf <- MCTxsOf
    Inputs <- MCInputs
    Outputs <- MCOutputs
    Redeemers <- MCRedeemers
    Start <- MCStart
    ForksReturn = FALSE
    None = None
    MaxRollbacks = 0
    MaxCrashes = 1
INVARIANT ActiveFoundByOutRef
CHECK_DEADLOCK FALSE
