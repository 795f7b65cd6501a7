CONSTANTS
    MaxTexts = 2
    MaxQueue = 2
SPECIFICATION FieldsSpec
INVARIANTS
    OneFieldListens
PROPERTIES
    BackspaceErasesOne
