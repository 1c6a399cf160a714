\* Every page of the console, in the company of the pages it shares queries with.
SPECIFICATION Spec
CONSTANTS
    Queries <- ConsoleQueries
    Tables <- ConsoleTables
    Views = {1, 2}
    Pages <- ConsolePages
    Sites <- ConsoleSites
    Polled = {}
    Retries = 0
    MaxCalls = 1
    MaxOthers = 0
CHECK_DEADLOCK FALSE
INVARIANTS
    ReadYourWrites
