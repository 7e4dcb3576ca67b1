\* Seven policies and three callers around the first minute of a term, with one edit, one
\* reset and two requests; the whole suite from the console and one test from a terminal,
\* with one edit, change or fault; six servers and three claims.
CONSTANTS
    Parts = {"policies", "suite", "probe"}
    Rows <- MCRows
    Books <- MCBooks
    Callers <- MCCallers
    Models <- MCModels
    BundleModels <- MCBundles
    Default <- MCDefault
    TermStarts <- MCTermStarts
    Calendars <- MCCalendars
    FirstMinute <- MCFirst
    Slots = {s1}
    MaxMinutes = 2
    MaxRequests = 2
    MaxEdits = 1
    MaxResets = 1
    Runs = {console, terminal}
    Terminals = {terminal}
    Selections <- MCSelections
    Declared <- MCDeclared
    Backends <- MCBackends
    Faults = {"row lost", "post lost", "crash"}
    MaxEvents = 1
    Servers <- MCServers
    Claims <- MCClaims
    NoNumber = NoNumber
SPECIFICATION SpecAll
INVARIANTS LimitsAreClear BadgesAreEarned AdviceIsMeasured
PROPERTY EachLimitHolds
CHECK_DEADLOCK FALSE
