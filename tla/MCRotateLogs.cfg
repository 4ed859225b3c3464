SPECIFICATION RotationSpec
CONSTANTS
    Logs = {"admin", "caddy"}
    Keeps = {0, 1, 2}
    MaxBytes = 1
    MaxLines = 2
    NoLog = NoLog
INVARIANTS
    RotationTypeOK
    NewestGenerationIsKept
    NoLogIsStarved
