SPECIFICATION Spec
CONSTANTS
    Songs = {s1, s2, s3}
    Compared = 3
    AnswersKept = 2
    ListensMade = 3
    DaysHad = 3
    OutdatedHad = 1
    SomeEntities = {"spotify", "deezer", "lfm"}
    KindOf <- Kind
    NameGiven <- Name
    TokensIssued <- Issued
    CrashesHad = 1
    SomeLibraries = {"pop", "spoken"}
    InsideOf <- ServerInside
    ConfigsOf <- ServerConfigs
    PlayersOf <- ServerPlayers
    ChangesHad = 1
    SessionsHad = 2
INVARIANTS
    OneRole
    NamesTellApart
    ScrobbledIsStored
    RefusedStepsAside
    OutageIsNoRefusal
    KeepsASession
    
    
PROPERTIES
    NothingIsInvented
    OneListenIsFound
    ConsentIsServed
    
CHECK_DEADLOCK FALSE
