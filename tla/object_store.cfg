\* Two clients, two keys, an upload of up to two parts, a failing write, a crash.
SPECIFICATION Spec
CONSTANTS
    t1 = t1
    t2 = t2
    k1 = k1
    k2 = k2
    u1 = u1
    u2 = u2
    d1 = d1
    d2 = d2
    Clients <- TwoClients
    Keys <- TwoKeys
    Uploads <- OneUpload
    Data <- TwoData
    NoClient = NoClient
    NoUpload = NoUpload
    None = None
    Torn = Torn
    MaxPart = 2
    MaxList = 2
    MaxFaults = 1
    MaxCrashes = 1
SYMMETRY Symmetries
INVARIANT TypeOK
INVARIANT EtagFitsObject
INVARIANT PutsWhatIsListed
INVARIANT FilesOfActiveUploads
PROPERTY ImplementsAtomicObjects
