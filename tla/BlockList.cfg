\* Two requests of one address at a time; an entry lives two units of time and the goroutine
\* takes up to one; the address is stored, or stored again, up to twice.
CONSTANTS
    Requests = {r1, r2}
    TTL = 2
    MaxDelay = 1
    MaxDocs = 2
    Lines = {l1, l2}
    NoUpload = NoUpload
SPECIFICATION FairSpec
INVARIANTS TypeOK ToldIsRefused OneDocument AllowedInTime NewestHasAll
PROPERTY EveryLineUploaded
