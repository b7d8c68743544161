CONSTANTS
  Chars = {"a", "b"}
  Blank = " "
  Size = 5
  HistMax = 2
  MaxLines = 4
SPECIFICATION MCSpec
INVARIANT ScreenShowsLine
PROPERTY ImplementsEditor
CHECK_DEADLOCK FALSE
