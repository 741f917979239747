SPECIFICATION Spec
CONSTANTS
    a = a
    b = b
    image = image
    data = data
    img1 = img1
    img2 = img2
    Proc <- Two
    Image <- image
    Names <- Others
    DiskImg <- Images
    NoName = noname
    Scenarios <- AllScenarios
INVARIANT QInv SoundRunsBoot
PROPERTY GuestDataKept InterruptEnds
