CONSTANTS
    Plain = {"isp", "uvc", "h264"}
    Detect <- DetectArray
    Port <- Ports
    SpiNum = 1
    Careless = {"subset"}
SPECIFICATION Spec
INVARIANT
    SensorsSupported
