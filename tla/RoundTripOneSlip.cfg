SPECIFICATION Spec
CONSTANTS
  NumberOf <- MCNumberOf
  Unwritable = {""}
  MaxNesting = 3
  Rows <- MCRows
  ChoiceLists <- MCChoiceLists
  MaxRead = 6
  Tags <- MCTags
  Attributes <- MCAttributes
  StrayTags <- MCStrayTags
  StrayAttributes <- MCStrayAttributes
  Pieces = {"x", "&", " "}
  Space = " "
  Entities <- MCEntities
  RefNames = {"amp", "xxe"}
  FormIds = {"form"}
  MaxDepth = 3
  MaxElements = 7
  Answers <- MCAnswers
  MaxRows = 2
  MaxFilled = 4
  MaxSlipped = 1
  Markup = {"&"}
  InstanceId = "x"
  FormId = "form"
INVARIANTS TypeOK ImportedAsWritten BalancedIsAccepted TreeShape ParsedAsWritten EveryAnswerArrives RenderedIsAccepted
CHECK_DEADLOCK FALSE
