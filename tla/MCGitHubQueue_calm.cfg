CONSTANTS
    w1 = w1
    w2 = w2
    w3 = w3
    here = here
    there = there
    Watchers = {w1, w2, w3}
    Workspaces = {here, there}
    WorkspaceOf <- TwoWorkspaces
    MaxIssue = 2
    PageSize = 2
SPECIFICATION CalmSpec
PROPERTY EveryJobAnswered
CHECK_DEADLOCK FALSE
