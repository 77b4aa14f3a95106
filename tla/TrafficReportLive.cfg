SPECIFICATION FairSpec
CONSTANTS
    u1 = u1
    u2 = u2
    t1 = t1
    t2 = t2
    Users <- OneUser
    Tags <- TwoTags
    DisableUploadTraffic = FALSE
    MaxBytes = 1
    MaxUnheard = 1
PROPERTIES
    TrafficReported
