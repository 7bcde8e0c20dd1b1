CONSTANTS
    iso = iso
    iec = iec
    own1 = own1
    own2 = own2
    own3 = own3
    joint = joint
    NoBody = NoBody
    NoId = NoId
    Bodies = {iso, iec}
    Ids = {own1, own2, own3, joint}
    MayPublish <- Publishers
    Fragile = {own2}
    MaxVersion = 3
    Scenes <- AllScenes
    Documents <- RelatonDocuments
SPECIFICATION WorldsSpec
INVARIANTS
    SyncIsTrue
    AliasesLeadToRows
    JointRecordsAgree
PROPERTIES
    SyncedStaysSynced
