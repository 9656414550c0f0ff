SPECIFICATION MCAccessSpec
CONSTANTS
    root = root
    ann = ann
    bob = bob
    main = main
    other = other
    Users = {root, ann, bob}
    Admins = {root}
    Uploaders = {ann}
    NoOne = NoOne
    SystemOf <- MCSystemOf
    Files = {f1, f2}
    Settled = {f2}
    Reqs = {r1}
    Downloads = {d1}
    NoDownload = NoDownload
    AbsoluteBase = TRUE
    MaxChanges = 2
INVARIANTS LocalDownloadIsServed
CHECK_DEADLOCK FALSE
