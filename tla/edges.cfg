CONSTANTS
    Absent = Absent
    Junk = Junk
    On = On
    Off = Off
    Refused = Refused
    Systems = {"messages", "errors", "stream", "core", "mounts", "simulator", "history",
               "archive", "guard", "flush", "bot", "drill"}
SPECIFICATION Spec
INVARIANTS ChatsHearOnce EveryBarIsSomewhere RestsCaughtUp ArchiveOnlyGrows OperatorIsAnswered
PROPERTIES RunsWhatIsFit BarsComeBack StartsAreSafe
CHECK_DEADLOCK FALSE
