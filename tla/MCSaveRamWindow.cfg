CONSTANTS
    Games <- McGames
    Values <- McValues
    Fill = "ff"
    Faults <- OnlyWindowCrash
    NoGame = NoGame
    NoFile = NoFile
    Partial = Partial
SPECIFICATION Spec
PROPERTIES
    SaveNeverLost
