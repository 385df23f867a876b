\* Two processes, files of up to two lines; one of them starts the next file.
CONSTANTS
    None = None
    Processes = {"a", "b"}
    Backups = 2
    MaxSize = 1
    MaxLines = 5
    MaxErrors = 0
    MaxStarts = 0
SPECIFICATION Spec
INVARIANT LinesStay
CHECK_DEADLOCK FALSE
