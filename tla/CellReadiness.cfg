SPECIFICATION FairSpec
CONSTANTS
    laser = laser
    camera = camera
    Required = {laser}
    Optional = {camera}
    Depth = 1
PROPERTIES FaultLatches LostDeviceClosesCell HealthyCellOpens
