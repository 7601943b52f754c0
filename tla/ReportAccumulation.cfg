\* Every report of two files of up to three rows: what a row's enrichment does
\* to later rows of its file, and what a file's does to the next file.
CONSTANTS
  NFiles = 2
  MaxRows = 3
SPECIFICATION ReportSpec
INVARIANTS
  ReportTypeOK
  EstimatesAreSound
\* done and failed are final
CHECK_DEADLOCK FALSE
