SPECIFICATION FairSpec
CONSTANTS
    Id = {r1, r2}
    Network = {libera, oftc}
    Nick = {alice}
    Client = {tool}
    Boot = Boot
    First = libera
    Unscoped = Unscoped
    None = None
    MaxPerNick = 2
    MaxTotal = 2
    MaxFailures = 1
    MaxCrashes = 1
INVARIANTS TypeOK FileFollows SentAtMostOnce
PROPERTIES CancelledIsQuiet EveryReminderSettles
CHECK_DEADLOCK FALSE
