SPECIFICATION Spec
CONSTANTS
    a = a
    b = b
    image = image
    vdi = vdi
    data1 = data1
    data2 = data2
    img1 = img1
    img2 = img2
    Proc <- Two
    Image <- image
    Vdi <- vdi
    Data <- UserData
    DiskImg <- Images
    NoPath = nopath
    Nobody = nobody
    MaxDisks = 2
    Devices = 1
    Scenarios <- AllScenarios
INVARIANT VInv GivenFilesKept BootsWhatWasAsked NoneLeftRunning MachineCollected
PROPERTY EndsWithMachine
