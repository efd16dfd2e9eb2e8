CONSTANTS
  Fd = {3, 4}
  Timeouts <- PollForeverAndTwo
  ClockSteps <- BackAndOn
  MaxSteps = 1
  Past = 1
  MaxAddr = 2
  SoftTimes <- NoneAndOne
  HardTimes <- NoneAndTwo
  Name <- Names
  Addr4 <- V4
  Addr6 <- V6
  Service <- Services
  HostSizes = {1, 3, 5, 7, 14}
  ServiceSizes = {0, 2, 6}
SPECIFICATION AddrSpec
INVARIANTS
  MakesAddr6
