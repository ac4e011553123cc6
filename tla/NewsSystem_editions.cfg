\* Two passes that fetch page by page, fail to upload and die at any step, beside one
\* client; two categories, whose order is open, and one article that may move between the
\* lists and the keys.
CONSTANTS
    Countries = {us}
    Categories = {c1, c2}
    Articles = {a1}
    Imageless = {}
    MaxEdition = 2
    PageSize = 1
    MaxListing = 1
    Surpluses = {0}
    NoTarget = NoTarget
    Clients = {u1}
    Country = us
SPECIFICATION SystemFairSpec
\* After the last edition the main loop is not followed further.
CHECK_DEADLOCK FALSE
INVARIANTS SystemTypeOK StableArticleFound HeadlinesLead ServedIsArchived NothingOld NothingDropped
PROPERTY PassPublishes
