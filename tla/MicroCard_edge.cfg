SPECIFICATION CardFairSpec
CHECK_DEADLOCK FALSE
CONSTANTS
    Places = {"micro", "card", "away", "edge"}
    HasTray = TRUE
PROPERTIES
    PreviewEnds
