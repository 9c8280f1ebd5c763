SPECIFICATION Spec
CONSTANTS
  Processes <- MCProcesses
  Commands <- MCCommands
  Rows <- MCRows
  Names <- MCNames
  MaxRuns = 1
  Absent = Absent
INVARIANTS
  RegisteredIsOneFile
  ReadersFindTheirBlobs
  AnswersAreOneVersion
\* Every command ends, and then nothing is left to do.
CHECK_DEADLOCK FALSE
