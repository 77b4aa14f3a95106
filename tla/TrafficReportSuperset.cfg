SPECIFICATION Spec
CONSTANTS
    u1 = u1
    u2 = u2
    t1 = t1
    t2 = t2
    Users <- TwoUsers
    Tags <- OneTag
    DisableUploadTraffic = FALSE
    MaxBytes = 2
    MaxUnheard = 0
PROPERTIES
    FreshIsSuperset
