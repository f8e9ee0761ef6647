SPECIFICATION Spec
CONSTANTS
    Choices <- MCChoices
    OldSelections <- MCOldSelections
    OldWidths <- MCOldWidths
    OldLanguages <- MCOldLanguages
    Codes <- MCCodes
    Languages <- MCLanguages
    Navigator <- MCNavigator
    Positions = {0, 3}
    MIN_SIDER_WIDTH = 1
    MAX_SIDER_WIDTH = 3
    DEFAULT_SIDER_WIDTH = 2
INVARIANTS ThemeFollows ChoiceKept SiderHolds
