SPECIFICATION FairSpec
CONSTANTS
    NoContext = NoContext
    Field = Field
    OneLine <- Clean
    MaxSessions = 3
    MaxTexts = 2
    MaxDeaths = 1
INVARIANTS
    Agreement
PROPERTIES
    TextsTaken
    StopAnswered
    MicrophoneLeaves
CHECK_DEADLOCK FALSE
