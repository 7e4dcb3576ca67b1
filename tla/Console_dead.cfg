\* The probe alone: a server that does not answer its first question.
CONSTANTS
    Parts = {"probe"}
    Rows <- MCRows
    Books <- MCBooks
    Callers <- MCCallers
    Models <- MCModels
    BundleModels <- MCBundles
    Default <- MCDefault
    TermStarts <- MCTermStarts
    Calendars <- MCCalendars
    FirstMinute <- MCFirst
    Slots = {s1}
    MaxMinutes = 2
    MaxRequests = 2
    MaxEdits = 1
    MaxResets = 1
    Runs = {console, terminal}
    Terminals = {terminal}
    Selections <- MCSelections
    Declared <- MCDeclared
    Backends <- MCBackends
    Faults = {"row lost", "post lost", "crash"}
    MaxEvents = 1
    Servers <- MCServers
    Claims <- MCClaims
    NoNumber = NoNumber
SPECIFICATION SpecAll
INVARIANT DeadIsBlocked
CHECK_DEADLOCK FALSE
