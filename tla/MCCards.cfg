SPECIFICATION Spec
CONSTANTS
    f1 = f1
    f2 = f2
    a1 = a1
    v1 = v1
    v2 = v2
    none = none
    u1 = u1
    u2 = u2
    r1 = r1
    r2 = r2
    c1 = c1
    c2 = c2
    isd = isd
    short = short
    sd = sd
    p1 = p1
    p2 = p2
    i1 = i1
    i2 = i2
    k1 = k1
    w1 = w1
    sms = sms
    poll = poll
    bip = bip
    blank = blank
    LoadFileAids = {f1, f2}
    AppletAids = {a1}
    KeyIds = {1}
    KeyVersions = {1}
    KeyValues = {v1, v2}
    NoFile = none
    NoKey = none
    NoAid = none
    MaxCommands = 4
    MaxLoads = 2
    Users = {u1, u2}
    Readers = {r1, r2}
    SmartCards = {c1, c2}
    NoCard = none
    NoUse = none
    Free = none
    MaxInsertions = 2
    Isd = isd
    IsdShort = short
    Domains = {sd}
    Packages = {p1, p2}
    KeySlots = {0, 1}
    NoneSelected = none
    Profiles <- MCProfiles
    Length <- MCLength
    DefaultBip = blank
    Nil = none
    Protocol = {"SCP02", "SCP03"}
    MaxSessions = 4
    MaxChain = 4
    Samples <- MCSamples
    Missing = none
CHECK_DEADLOCK FALSE
INVARIANTS CardSound ReaderSound   
