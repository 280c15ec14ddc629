CONSTANTS
    Job = {"weekly", "monthly"}
    Statements <- Cleanup
    MaxTrouble = 1
    Member = {u1}
    MaxRooms = 3
    MaxFaults = 1
SPECIFICATION FairCareSpec
INVARIANTS CareTypeOK NotLeftDown RewrittenWhileDown CleanRunHeals
PROPERTIES UpAgain
CHECK_DEADLOCK FALSE
