CONSTANTS
    v1 = v1
    v2 = v2
    v3 = v3
    None = None
    Services = {v1, v2}
    Inodes = {1, 2, 3}
    Reuse = TRUE
    MaxRemovals = 0
    MaxKills = 0
SPECIFICATION FairSpec
PROPERTIES LiveNameKept
