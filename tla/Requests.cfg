SPECIFICATION RequestsSpec
CONSTANTS
    root = root
    ann = ann
    bob = bob
    main = main
    other = other
    a = a
    b = b
    c = c
    x = x
    name = name
    private = private
    public = public
    global = global
    inside = inside
    Users = {root, ann, bob}
    Admins = {root}
    Uploaders = {ann}
    NoOne = NoOne
    SystemOf <- MCSystemOf
    Files = {f1, f2}
    Settled = {f2}
    Reqs = {r1}
    Downloads = {d1}
    NoDownload = NoDownload
    AbsoluteBase = FALSE
    MaxChanges = 2
    Patches = {p1, p2}
    Values = {v0, v1}
    Initial = v0
    Unset = Unset
    MaxRows = 2
    Ids = {a, b, c}
    Stamps = {1, 2, 3}
    DefaultLimit = 2
    MaxLimit = 3
    Limits = {0, 1, 3, 4}
    Offsets <- MCOffsets
    MaxShifts = 1
    Clients = {a, b, c}
    Configs <- MCConfigs
    Cost = 2
    IdleTicks = 2
    TableLimit = 2
    Hosts = {name, public, private, x}
    Admitted = {name, public}
    Literal <- MCLiteral
    Addresses = {global, a, inside}
    Public = {global, a}
    Setups <- MCSetups
    DefaultHops = 2
    Lengths = {0, 1, 2, 3, 4}
    Sides = {1, 2, 3, 7, 600, 864, 1080, 1279, 1920, 2400}
    Entries <- MCEntries
    MaxEntries = 2
INVARIANTS RequestsTypeOK
INVARIANTS AnswersMatchVisibility StreamServesItsDownload DownloadsWork
INVARIANTS LastPatchWins AnsweredIsApplied
INVARIANTS WalkMissesNothing WalkRepeatsNothing
INVARIANTS AnswersOfOwnBucket TableIsBounded
INVARIANTS DialedIsPublic PublishedIsWhole SmallBodiesFit
INVARIANTS CopiesAreSmaller CopiesKeepProportions
PROPERTIES RemovedRowsStay
CHECK_DEADLOCK FALSE
