SPECIFICATION FairSpec
CONSTANTS
    a = a
    b = b
    s1 = s1
    t1 = t1
    d1 = d1
    d2 = d2
    k1 = k1
    g1 = g1
    o1 = o1
    r1 = r1
    i1 = i1
    l1 = l1
    l2 = l2
    q1 = q1
    q2 = q2
    none = none
    unpromised = unpromised
    Sessions <- MCSessions
    SessionTimeout = 1
    PurgeAge = 2
    ScriptIds <- MCScriptIds
    TemplateIds <- MCTemplateIds
    RenderedIds <- MCRenderedIds
    ScriptContents <- MCScriptContents
    TemplateContents <- MCTemplateContents
    ParamValues <- MCParamValues
    Absent = none
    NoPromise = unpromised
    Directory <- MCDirectory
    Files <- MCFiles
    MaxHexLength = 10
    MinApduDigits = 8
    Devices = {d1, d2}
    Cards = {k1}
    SettingKeys = {g1}
    OtaSessions = {o1}
    Tests = {r1}
    Nothing = none
    Imports <- MCImports
    Stores <- MCStoresInit
    MaxLogs = 1
    MaxOps = 3
    Identities = {i1}
    Listeners = {l1, l2}
    Requests = {q1, q2}
    NoSimulator = none
    MaxShown = 2
    MaxShownApdus = 1
    MaxMessages = 3
    MaxInbox = 2
    Pids = {1, 2, 3}
    Ports = {80, 81}
    DefaultPort = 80
    Unset = 0
    NoPid = 0
    Clerks = {c1, c2}
    Profiles_ = {p1}
    NoFile_ = none
    Broken = broken
    Asked <- MCAsked
    MaxTurns = 3
    Checks = {k1, k2}
    HttpServer = h
    HealthCallers = {h, d}
    PoolSize = 2
    MaxRuns = 2
    MaxTurns_ = 1
CHECK_DEADLOCK FALSE
INVARIANTS HealthSound EndedOnce   
PROPERTIES IdleSessionsExpire ImplementsLifecycle
