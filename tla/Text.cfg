SPECIFICATION Spec
CONSTANTS
    Inputs <- MCInputs
    MaxBody = 5
    MaxTopic = 5
    MinHandle = 1
    MaxHandle = 2
INVARIANTS CutsFit NotifiedAreShown MentionsFound HighlightKeepsText OwnMentionStandsOut
PROPERTIES SanitizedAsRead
CHECK_DEADLOCK FALSE
