CONSTANTS
    app1 = app1  app2 = app2  harvester = harvester  gui = gui
    noLabel = noLabel  noArgs = noArgs  noRow = noRow
    RH = RH  SO = SO  REP = REP  RO = RO  a1 = a1  a2 = a2
    Proc = {app1, app2}
    Gui = gui
    Label = {RH, SO, REP}
    NoLabel = noLabel
    Func <- MCFunc
    ScheduleSpec <- CoreSchedule
    ProcessMap <- CoreProcessMap
    Conflicts <- MCConflicts
    Results <- MCResults
    KeepAlive = {}
    DeferEnd <- NoDefer
    Args = {a1}
    NoArgs = noArgs
    GuiLabel = REP
    NoRow = noRow
    Day = 4
    MaxId = 8
    MaxTime = 2
    MaxFail = 1
SPECIFICATION Spec
INVARIANT TypeOK
INVARIANT RunningVisible
INVARIANT RunningIsReal
INVARIANT MemoryIsCurrent
