CONSTANTS
    c1 = c1
    c2 = c2
    Migrations = 1
    Entries <- MCEntries
    Known = {"videos"}
    Texts = {"a"}
    Calls = {c1, c2}
SPECIFICATION SettingsSpec
SYMMETRY Symmetry
CONSTRAINT LegacyStored
INVARIANTS
    SettingsTypeOK
    SavesApplyInOrder
PROPERTIES
    OnlyTypedChanges
