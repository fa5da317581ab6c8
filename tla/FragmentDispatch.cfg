SPECIFICATION FragmentSpec
CONSTANTS
    f1 = f1
    f2 = f2
    Faces = {f1, f2}
    NWorkers = 2
    FragCounts = {3}
    StartSeq <- Apart
    MaxPackets = 3
INVARIANTS FragmentTypeOK  MapForgets
CHECK_DEADLOCK FALSE
