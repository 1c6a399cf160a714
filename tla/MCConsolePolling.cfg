\* The flags page and the polling sidebar, with the retries of the code and a
\* change by somebody else.
SPECIFICATION FairSpec
CONSTANTS
    Queries <- FlagQueries
    Tables = {}
    Views = {1}
    Pages <- FlagPages
    Sites <- FlagSites
    Polled <- SidebarPolls
    Retries = 2
    MaxCalls = 1
    MaxOthers = 1
CHECK_DEADLOCK FALSE
INVARIANTS
    ReadYourWrites
PROPERTIES
    LoadsEnd
