CONSTANTS
    Plain = {"isp", "uvc", "h264"}
    Detect <- DetectArray
    Port <- Ports
    SpiNum = 1
    Careless = {}
SPECIFICATION Spec
INVARIANTS
    TypeOK
    SensorsSupported
    ResourcesExact
PROPERTY
    DeinitCompletes
