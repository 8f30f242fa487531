SPECIFICATION MainSpec
CONSTANTS
    Lines <- FewLines
    MaxLines = 1
    MaxInt = 7
    NaN = NaN
    NoFile = NoFile
    n1 = n1
    n2 = n2
    n3 = n3
    Nodes = {n1, n2, n3}
    ListHead = ListHead
    LIST_POISON = LIST_POISON
    Free = Free
    Dash = "-"
    table <- MainTable
    Arguments <- ShortArguments
CHECK_DEADLOCK FALSE
INVARIANTS
    HelpWithoutConfig
