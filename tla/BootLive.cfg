SPECIFICATION FairSpec
CONSTANTS
    Digits <- Entries
    Buttons = {0}
    CheckAt = 1
    Budgets <- Live
PROPERTIES BootSettles NetworkShown
CHECK_DEADLOCK FALSE
