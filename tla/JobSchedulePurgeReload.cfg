CONSTANTS
    app1 = app1  app2 = app2  harvester = harvester  gui = gui
    noLabel = noLabel  noArgs = noArgs  noRow = noRow
    RH = RH  SO = SO  REP = REP  RO = RO  a1 = a1  a2 = a2
    Proc = {app1, app2}
    Gui = gui
    Label = {SO, RO, REP}
    NoLabel = noLabel
    Func <- MCFunc
    ScheduleSpec <- PurgeSchedule
    ProcessMap <- PurgeProcessMap
    Conflicts <- MCConflicts
    Results <- MCResults
    KeepAlive = {}
    DeferEnd <- NoDefer
    Args = {}
    NoArgs = noArgs
    GuiLabel = REP
    NoRow = noRow
    Day = 4
    MaxId = 5
    MaxTime = 2
    MaxFail = 0
SPECIFICATION FairSpec
PROPERTY PurgeReloadsAll
