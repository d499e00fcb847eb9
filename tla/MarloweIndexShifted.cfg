SPECIFICATION Spec
CONSTANTS
    Depth = 2
    Contents <- MCShiftedContents
    Block <- MCBlock
    Origin <- MCOrigin
    Parent <- MCParent
    Slot <- MCSlot
    Ancestors <- MCAncestors
    BlockNumber <- MCBlockNumber
    Tx <- MCTx
    TxsOf <- MCTxsOf
    Inputs <- MCInputs
    Outputs <- MCOutputs
    Redeemers <- MCRedeemers
    Start <- MCStart
    ForksReturn = FALSE
    None = None
    MaxRollbacks = 0
    MaxCrashes = 0
INVARIANT RefsAreContractOutputs
CHECK_DEADLOCK FALSE
