CONSTANTS
    w1 = w1
    w2 = w2
    w3 = w3
    here = here
    there = there
    Watchers = {w1}
    Workspaces = {here}
    WorkspaceOf <- OneWorkspace
    MaxIssue = 2
    PageSize = 2
SPECIFICATION FaultySpec
PROPERTY AnsweredOnceStable
