\* One policy, one process that seeds it once, and its author.
SPECIFICATION Spec
CONSTANTS
    s1 = s1  s2 = s2
    old = old  new = new
    a = a  b = b  c = c
    x = x  y = y  z = z
    Seeds = {s1}
    Texts = {old, new}
    ChunksOf <- TheChunks
    Half = Half
    MaxRuns = 1
    MaxEdits = 1
    MaxVersion = 2
PROPERTY ChangedTextChangesVersion
CHECK_DEADLOCK FALSE
