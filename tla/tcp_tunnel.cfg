\* Two pieces up, one answer down, a queue of two chunks.
CONSTANTS
  MaxTyped = 2
  MaxAnswers = 1
  DataCap = 2
SPECIFICATION FairSpec
INVARIANTS UploadComplete DownloadComplete ConnClosed
PROPERTIES ImplementsStream AllEnd
CHECK_DEADLOCK FALSE
