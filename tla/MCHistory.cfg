CONSTANTS
    Users <- MCUsers
    Rooms <- MCRooms
    Texts <- MCTexts
    Letters = {"x", "y"}
    Time = "t"
    Nobody = "0"
    ReplyMax = 24
    SlotMax = 16
    MaxTexts = 3
SPECIFICATION HistorySpec
CHECK_DEADLOCK FALSE
INVARIANTS
    PlainShownFromTheOldest
    SeparatorsSpoilTheirOwn
    PlainRoomsListed
