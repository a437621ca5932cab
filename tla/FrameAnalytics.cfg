SPECIFICATION Spec
CONSTANTS
    ConfirmEnterFrames = 2
    ConfirmLeaveFrames = 2
    NoTrack = NoTrack
    MaxGap = 1
    Nowhere = Nowhere
    z = z
    door = door
    hall = hall
    t1 = t1
    t2 = t2
    Tracks <- MCTracks
    Zones = {z}
    Points <- MCPoints
    ZonesAt <- MCZonesAt
    Lines = {door}
    Areas = {hall}
    LineAt <- MCLineAt
    AreaOf <- MCAreaOf
    MaxPeople = 2
    MaxCrossings = 2
SYMMETRY MCSymmetry
INVARIANTS Debounced Remembered ReadModel NetTellsSide
CHECK_DEADLOCK FALSE
