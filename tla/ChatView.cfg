SPECIFICATION ViewSpec
CONSTANTS
  RowHeight <- Row
  ViewHeight <- View
  KeyboardHeight <- Keyboard
  PillHeight <- Pill
  CardHeight <- Card
  BannerHeight <- Banner
  RowAboveHeight <- RowAbove
  Drafts = {TRUE}
  MaxMessages = 2
  MaxDrags = 1
  MaxChanges = 2
INVARIANT EndIsShown
PROPERTY NeverYanked
CHECK_DEADLOCK FALSE
