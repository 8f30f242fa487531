SPECIFICATION MainSpec
CONSTANTS
    Lines <- FileLines
    MaxLines = 3
    MaxInt = 7
    NaN = NaN
    NoFile = NoFile
    n1 = n1
    n2 = n2
    n3 = n3
    Nodes = {n1, n2, n3}
    ListHead = ListHead
    LIST_POISON = LIST_POISON
    Free = Free
    Dash = "-"
    table <- MainTable
    Arguments <- AnyArguments
SYMMETRY Memory
CHECK_DEADLOCK FALSE
INVARIANTS
    ListSound
    NamesUnique
    SettingsFollowFile
    SettingsSane
    ConnectsAsAsked
    AnswersAsked
PROPERTIES
    ConfigImplemented
