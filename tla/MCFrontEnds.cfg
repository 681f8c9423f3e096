SPECIFICATION FrontEndsSpec
CONSTANTS
  Slots <- MCSlots
  Bios = "bios"
  LoadOrder <- MCOrder
  Images = {i1, i2}
  BuiltIn = BuiltIn
  Torn = Torn
  None = None
  Typed <- MCTyped
  Script <- MCScript
  Size <- MCSize
  Exprs <- MCExprs
  DiskImages = {"disk"}
  LogFiles = {"log"}
  Flags <- MCFlags
  Space = 8
  DefaultRam = 4
  MaxAlloc = 6
  Fifo = 1
  MaxOpen = 2
  MaxLines = 3
  Settings <- MCSettings
  FirstCap = 1
  MaxCap = 4
  Text = {104, 116}
  Other = {9}
  Rows = 4
  Cols = 8
  InputMax = 2
  Capacity = 2
  Word <- MCWord
  Message <- MCMessage
  HelpLines <- MCHelp
  MaxTyped = 5
INVARIANTS TimerFollowsRunning RunningWasPrepared PreparedIsCurrent DoIsTyping CliInv TableInv EditorInv RunsTheLine
PROPERTIES OnlyStartRuns PromptComesBack ImplementsMap AllIsRead
CHECK_DEADLOCK FALSE
