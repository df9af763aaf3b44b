SPECIFICATION Spec
CONSTANTS
    Numbers = {1, 3, 4, 10, 12, 500, 9312}
    Keycodes <- SomeKeycodes
    ConfigFiles <- Files
    Secrets <- SomeSecrets
    Plain <- SomePlain
    SHORTCUTS_MAX_COUNT = 3
INVARIANTS
    Admission
    Configured
    ShortcutsAsWritten
