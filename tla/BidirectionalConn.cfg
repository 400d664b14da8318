\* One reader and one writer, every callback order.
SPECIFICATION FairSpec
CONSTANTS
    Readers = {r1}
    Writers = {w1}
    None = None
    ReadWaitHeaders = TRUE
    WriteWaitHeaders = FALSE
INVARIANTS
    TypeOK
    BuffersOwned
    OfferMeetsOwner
    HookAfterDestroy
PROPERTIES
    Contract
    NothingBlocks
