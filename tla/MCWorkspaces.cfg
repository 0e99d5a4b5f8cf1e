SPECIFICATION Spec
CONSTANTS
    window = window
    dialog = dialog
    Views <- MCViews
    ParentOf <- MCParentOf
    NoView = NoView
    InitialCount = 2
    MaxWorkspaces = 3
    MaxCreated = 3
INVARIANTS
  CurrentLives
  WindowsSurvive
  InCurrentIsShown
  StickyIsEverywhere
CHECK_DEADLOCK FALSE
