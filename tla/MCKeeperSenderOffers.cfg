\* Two expired offers and a page of one: the second is never refunded.
SPECIFICATION FairSender
CONSTANTS
    Bidders = {1}
    OfferIds = {1, 2}
    BatchSize = 1
    Page = 1
    Slots = 1
    Faults = 0
    BidsFirst = TRUE
CHECK_DEADLOCK FALSE
PROPERTY OffersRefunded
