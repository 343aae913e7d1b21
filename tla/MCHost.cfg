CONSTANTS
    Columns = {3}
    Keys = {"escape", "return", "down"}
    ButtonOrder <- McButtonOrder
    DefaultBindings <- McDefaultBindings
    PadButtons <- McPadButtons
    MaxPads = 1
    MaxEvents = 2
    MaxDevices = 16
    RequestedModes = {"auto", "dmg", "cgb"}
SPECIFICATION McSpec
INVARIANTS
    HostTypeOK
    InputsAreSeen
    LoadedIsWhole
PROPERTIES
    RequestsAreFalls
