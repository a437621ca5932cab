------------------------- MODULE MCOccupancySampler --------------------------
EXTENDS OccupancySampler

MCCameraOf == [z \in Zones |-> CHOOSE c \in Cameras : (c = "c1") = (z = "z1")]
MCSpaceOf  == [z \in Zones |-> "s1"]
==============================================================================
