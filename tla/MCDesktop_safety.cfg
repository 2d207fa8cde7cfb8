CONSTANTS
    Windows = {"mail", "draft", "copy", "editor"}
    PidOf <- TwoProcesses
    TitleOf <- TwoTitles
    Pictures = {"calm", "moved", "dialog"}
    Points = {"left", "right"}
    Controls = {"save", "delete"}
    At <- Swapped
    Tree <- Listed
    Displays <- OneOrTwo
SPECIFICATION Spec
INVARIANTS TypeOK AimsAtWhatWasAsked ActsInItsWindow VerifiedClickChanged
