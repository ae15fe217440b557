SPECIFICATION FairSpec
CONSTANTS
    Control = ctl
    Data = {d1, d2, d3}
    Directory = {"", "pub"}
    Root = ""
    ctl = ctl
    d1 = d1
    d2 = d2
    d3 = d3
INVARIANTS
    TypeOK
    LoginFirst
    CarriesWhatWasAsked
    CloseNowHasItsConnection
PROPERTIES
    TransferCompletes
CHECK_DEADLOCK FALSE
