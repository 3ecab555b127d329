SPECIFICATION Spec
CONSTANTS
  Channel <- Channels
  Scrap <- Scraps
  Part <- Parts
  Rest <- Rests
  Television <- Televisions
  Entered <- SupportedChannels
  Supported <- SupportedChannels
  BackAvailable <- InitiallyAvailable
  BackUsed <- InitiallyUsed
  Frequencies <- Scanned
  SafeDepth = 4
  MaxDepth = 5
INVARIANT ReportedIsKept
PROPERTIES VacatesAtOnce MasterLeaves ScansEach
