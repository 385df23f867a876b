\* A process starts while another one rotates the file.
CONSTANTS
    None = None
    Processes = {"a", "b"}
    Backups = 2
    MaxSize = 1
    MaxLines = 5
    MaxErrors = 0
    MaxStarts = 1
SPECIFICATION Spec
INVARIANT KeepsLogging
CHECK_DEADLOCK FALSE
