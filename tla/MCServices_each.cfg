SPECIFICATION SpecEach
CONSTANTS
    Sockets = {"s1", "s2"}
    Users = {"ann", "ben"}
    Events = {"e"}
    Channels = {"news", "private"}
    Private = {"private"}
    Allowed <- AnnMay
    Pages <- InertiaPages
    MaxSubmits = 1
    MaxVisits = 4
    Commands = {"init", "again"}
    Given <- GivenOptions
    Unset = Absent
    Places = {"absent", "directory", "file", "link"}
    Foreign = {"config.app"}
    MaxForeign = 1
    Sessions = {"s1", "s2"}
    Prompts = {"hi", "more"}
    Tools = {"search"}
    Seeds <- Histories
    MaxTurns = 2
    MaxLive = 3
    t1 = t1
    t2 = t2
    t3 = t3
    Tasks <- Three
    Drivers = {"array", "file", "redis", "database"}
    Ttl = 1
    MaxClock = 4
    MaxValues = 3
    Absent = Absent
    NotAMapping = NotAMapping
    Parts = {"store", "reverb", "jsonapi", "inertia", "recording", "events", "container", "validation", "vite", "process", "exceptions", "redis", "installer"}
INVARIANTS
    ReachesSubscribers Compound QueuedShownOnce
    AnswersItsConversation HearsInOrder MadeAsNeeded RequestsAnswered PageIsWhole RunAsConfigured GeneratedIsWhole
PROPERTY NothingUndone
SYMMETRY Interchangeable
CHECK_DEADLOCK FALSE
