\* Two users with a flow each, two callbacks at a time with any code and any state, and no bookmarks.
CONSTANTS
    Users = {u1, u2}
    News = {}
    Flows = {f1, f2}
    Requests = {}
    Callbacks = {c1, c2}
    NoUser = NoUser
SYMMETRY Symmetry
SPECIFICATION Spec
INVARIANT LinkedByStarter
PROPERTY StoresForStarter
