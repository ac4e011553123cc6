\* One user with two bookmarks, one request at a time, one flow.
CONSTANTS
    Users = {u1}
    News = {n1, n2}
    Flows = {f1}
    Requests = {r1}
    Callbacks = {c1}
    NoUser = NoUser
SPECIFICATION Spec
PROPERTY BookmarksStay
