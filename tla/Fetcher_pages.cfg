\* A country with up to three articles on pages of two; totals that are right, too low or too
\* high by one; two passes. The categories run through the same loop.
CONSTANTS
    Countries = {c1}
    Categories = {}
    Articles = {a1, a2, a3}
    Imageless = {a3}
    MaxEdition = 2
    PageSize = 2
    MaxListing = 3
    Surpluses <- MCSurpluses
    NoTarget = NoTarget
SPECIFICATION FetcherFairSpec
INVARIANT PagesFull
PROPERTIES FetchedAll FetchEnds FetchesAtOnce
\* After the last edition the main loop is not followed further.
CHECK_DEADLOCK FALSE
