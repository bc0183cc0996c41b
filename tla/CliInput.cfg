\* Three lines, each in one piece or two, and a file of three pages.
CONSTANTS
  MaxLines = 3
  Pages = 2
  Liberties = {}
SPECIFICATION Spec
INVARIANTS RunsOneLine InOrder
PROPERTIES LineTaken Ends
\* The program ends, or waits for somebody to type.
CHECK_DEADLOCK FALSE
