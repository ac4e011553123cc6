\* One user with two bookmarks, two requests at a time, one flow.
CONSTANTS
    Users = {u1}
    News = {n1, n2}
    Flows = {f1}
    Requests = {r1, r2}
    Callbacks = {c1}
    NoUser = NoUser
SPECIFICATION Spec
INVARIANTS TypeOK AddedIsListed RemovedStaysRemoved
