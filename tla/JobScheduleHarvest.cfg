CONSTANTS
    app1 = app1  app2 = app2  harvester = harvester  gui = gui
    noLabel = noLabel  noArgs = noArgs  noRow = noRow
    RH = RH  SO = SO  REP = REP  RO = RO  a1 = a1  a2 = a2
    Proc = {harvester, app1}
    Gui = gui
    Label = {RH, RO, REP}
    NoLabel = noLabel
    Func <- MCFunc
    ScheduleSpec <- HarvestSchedule
    ProcessMap <- HarvestProcessMap
    Conflicts <- MCConflicts
    Results <- MCResults
    KeepAlive = {harvester}
    DeferEnd <- HarvestDefer
    Args = {}
    NoArgs = noArgs
    GuiLabel = REP
    NoRow = noRow
    Day = 4
    MaxId = 8
    MaxTime = 3
    MaxFail = 0
SPECIFICATION FairSpec
PROPERTY PrimersHonoured
PROPERTY TriggeredJobRuns
