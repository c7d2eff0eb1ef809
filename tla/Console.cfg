CONSTANTS
    base_lot_size = 100
    quote_lot_size = 100
    tick = 100
    tick_scale = 1000
    Consoles = {"c1", "c2"}
    Habits <- SomeHabits
    Typed <- SomeTyped
    Available = {1000}
    Capacity = 2
    Gossip <- SomeGossip
    MaxSent = 2
    MaxDrips = 1
SPECIFICATION FairSpec
INVARIANTS InboxShare AnswersInStep TypeOK OrderAsTyped RefusesUncoveredOnly
PROPERTIES EventuallyAnswered PatientDecided LostToRivalOnly
CHECK_DEADLOCK FALSE
