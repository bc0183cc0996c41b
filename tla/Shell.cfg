\* Two users beside root, of which the table has room for one; sixteen commands,
\* five steps.
CONSTANTS
  Word = {"root", "ann", "bob", "etc", "home", "a", "x", "y", "/", "~", ""}
  Name = {"root", "ann", "bob"}
  UidOf <- MCUidOf
  Cut <- NoLongNames
  MAX_USER = 2
  Typed <- MCTyped
  MaxSteps = 5
  ShellLiberties = {}
SPECIFICATION ShellSpec
INVARIANTS LogRebuilds FilesAgree
PROPERTIES AccountsOwn ExpandsInDir
\* The session is left after MaxSteps.
CHECK_DEADLOCK FALSE
