SPECIFICATION Spec
CONSTANTS
    Listings <- MCListings
    Tables <- MCTables
    Exts <- MCExts
    Other = Other
INVARIANT TypeOK
INVARIANT SearchExact
INVARIANT ClassListed
CHECK_DEADLOCK FALSE
