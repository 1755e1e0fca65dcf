\* Two processes on one directory, three failures or deaths, an upload each.
SPECIFICATION FairSpec
CONSTANTS
    s1 = s1
    s2 = s2
    u1 = u1
    u2 = u2
    f = f
    g = g
    n1 = n1
    n2 = n2
    None = None
    Partial = Partial
    Processes = {s1, s2}
    OldSchemas <- Schemas
    MaxFaults = 3
    Uploads = {u1, u2}
    Files = {f, g}
    Names = {n1, n2}
    Host <- HostOf
INVARIANTS
    ServesCompleteSchema
    UrlsServeWholeFiles
PROPERTY
    AllServe
\* Names run out, and a process that serves need not do anything else.
CHECK_DEADLOCK FALSE
