SPECIFICATION SettingsSpec
CONSTANTS
    Unit = 3
    MaxAmount = 30
    Texts <- MCTexts
    AbsoluteMax = 12
    DefaultHardCap = 6
    DefaultReward = 3
    Modules <- MCModules
    Offers <- MCOffers
    Editors = {e1, e2}
    MaxEvents = 3
INVARIANTS RestartRestores
PROPERTIES SwitchKeepsRest RollbackRestores
CHECK_DEADLOCK FALSE
