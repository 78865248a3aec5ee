SPECIFICATION Spec
CONSTANTS
  Keys = {1, 3, 5}
  Folder <- FolderOf
  Matching = {1, 3}
  Targets = {1, 5}
  Slashed = {1}
  Unslashed <- WithoutSlash
  Versions = {1, 2}
  Clocks <- SomeClocks
  PageSize = 2
  MaxEdits = 2
CHECK_DEADLOCK FALSE
INVARIANTS TypeOK ListComplete ListSound AnswersTrue RequestNamesObject DateSigned
PROPERTIES CallsReturn
