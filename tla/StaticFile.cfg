SPECIFICATION Spec
CONSTANTS
    Char <- Chars
    Cases <- TheCases
    mime_types <- Types
    Version = {v1, v2}
    Absent = Absent
    Directory = Directory
    MaxChanges = 1
    MaxUri = 4
    MaxDirectories = 2
    MaxStatements = 2
INVARIANTS
    ServedFromPath
    PresentIsServed
