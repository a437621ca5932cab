SPECIFICATION Spec
CONSTANTS
    Zones = {"z1", "z2"}
    Cameras = {"c1", "c2"}
    Spaces = {"s1"}
    CameraOf <- MCCameraOf
    SpaceOf <- MCSpaceOf
    Counts = {1}
    MaxMinute = 2
    MaxTicks = 2
    MaxFaults = 1
    None = None
PROPERTIES NoFrozenCount
CHECK_DEADLOCK FALSE
