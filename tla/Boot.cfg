\* The boot and the user: the buttons SD (1), whose digits equal the user ID,
\* and USER (2) pressed at any moment, entries, a network that changes and a
\* power cut.  The first failed ping shows the hint; in BootLive.cfg, with the
\* button MD (0), the second.
SPECIFICATION Spec
CONSTANTS
    Digits <- Entries
    Buttons = {1, 2}
    CheckAt = 0
    Budgets <- Safe
INVARIANTS TypeOK FetchedOrBlamed MainFindsAddress ClockMeansConfigured AuthNeedsUserId
PROPERTIES RejectedForever
CHECK_DEADLOCK FALSE
