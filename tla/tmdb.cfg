SPECIFICATION FairSpec
CONSTANTS
    page = page
    genre = genre
    title = title
    poster = poster
    Key = {page, genre, title, poster}
    Kind <- KindOf
    Default <- Defaults
    Session = {x1, x2}
    MaxVersion = 2
    Flaky = TRUE
CONSTRAINT Undisturbed
INVARIANTS
    CacheInvariant
    LayersAgree
    ClearedStaysCleared
PROPERTIES
    AllAreServed
