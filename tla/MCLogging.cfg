CONSTANTS
  Level = {3, 7}
  LOG_ERR = 3
  File = {f, g}
  Other = Other
  NotANumber = NaN
  Ident = {me}
  LibIdent = libsrsbsns
  Progname = progname
  Closed = Closed
  Environment <- MCEnvironment
SPECIFICATION LogSpec
INVARIANTS
  ProgramsMessages
PROPERTIES
  EnvironmentDecides
