SPECIFICATION MediaFairSpec
CONSTANTS
    Pipelines = {"encoded", "raw"}
    Sources = {"usb", "mjpeg"}
    FirstSource = "mjpeg"
    Leases = {"session", "preview"}
    HardwareWorks = FALSE
    MaxUpdates = 1
    MaxFaults = 1
INVARIANTS
    PublisherIsTold
PROPERTIES
    LeaseBringsVideo
    EndedLeaseLapses
