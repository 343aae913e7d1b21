CONSTANTS
    Games <- McGames
    Values <- McValues
    Fill = "ff"
    Faults <- OpenOrRename
    NoGame = NoGame
    NoFile = NoFile
    Partial = Partial
SPECIFICATION Spec
PROPERTIES
    ShutdownSaves
