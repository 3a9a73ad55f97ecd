\* Three bidders in batches of one; at most two transactions wait; one fault.
SPECIFICATION FairSender
CONSTANTS
    Bidders = {1, 2, 3}
    OfferIds = {1}
    BatchSize = 1
    Page = 1
    Slots = 2
    Faults = 1
    BidsFirst = TRUE
CHECK_DEADLOCK FALSE
INVARIANT RefundedMeansPaid
PROPERTY AuctionCloses
