\* Two processes that seed, three runs, an edit and its undoing.  In other
\* behaviours two sections of every length up to three windows and more.
SPECIFICATION SeedingSpec
CONSTANTS
    s1 = s1  s2 = s2
    old = old  new = new
    a = a  b = b  c = c
    x = x  y = y  z = z
    Seeds = {s1, s2}
    Texts = {old, new}
    ChunksOf <- TheChunks
    Half = Half
    MaxRuns = 3
    MaxEdits = 2
    MaxVersion = 2
    scope = scope  claims = claims
    MaxTokens = 5
    Overlap = 2
    Sections = 2
    MaxWords = 15
    Slugs = {scope, claims}
SYMMETRY Symmetry
INVARIANTS NoWordIsLost IdsAreUnique
INVARIANTS UndisturbedSeedIsExact TextIsEmbeddedOnce CacheBreaksOnlyInACrash
\* every run and the last section end the work
CHECK_DEADLOCK FALSE
