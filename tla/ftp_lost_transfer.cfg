SPECIFICATION FairSpec
CONSTANTS
    Control = ctl
    Data = {d1, d2}
    Directory = {"", "pub"}
    Root = ""
    ctl = ctl
    d1 = d1
    d2 = d2
PROPERTIES
    ReportedIsTransferred
CHECK_DEADLOCK FALSE
