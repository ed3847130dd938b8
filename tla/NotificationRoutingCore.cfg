CONSTANTS
    r1 = r1  s1 = s1  s2 = s2  i1 = i1  i2 = i2  noNote = noNote  art = art  noDoi = noDoi
    Repo = {r1}
    Sub = {s1, s2}
    Item = {i1, i2}
    NoNote = noNote
    WithPackage = {s1}
    Malformed = {s2}
    Doi = {art}
    DoiOf <- MCDoiOf
    NoDoi = noDoi
    WantsDups = {}
    MaxFaults = 1
SPECIFICATION MCSpec
INVARIANT TypeOK
INVARIANT DeletedWereSeen
INVARIANT RoutedKeepsFiles
INVARIANT GivenIsThere
INVARIANT RecordTellsTruth
PROPERTY NoUnwantedDuplicate
PROPERTY EventuallySeen
