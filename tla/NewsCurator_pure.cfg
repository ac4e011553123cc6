\* Two categories and one article: the one visited second is given the first one's.
CONSTANTS
    Countries = {us}
    Categories = {c1, c2}
    Articles = {a1}
    Imageless = {}
    MaxEdition = 1
SPECIFICATION CuratorSpec
CHECK_DEADLOCK FALSE
INVARIANT CategoriesPure
