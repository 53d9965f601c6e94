CONSTANTS
    Sessions = {"receipt", "floor", "count"}
    Adjusting = {"count"}
    Delta <- Deltas
    Erp = "erp"
    ErpBalances <- Balances
    MaxErp = 1
SPECIFICATION FairSpec
CHECK_DEADLOCK FALSE
INVARIANTS TypeOK OnlyOverlappingShare 
PROPERTY RequestEnds
