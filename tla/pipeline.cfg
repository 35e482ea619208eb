CONSTANTS
  Broken = Broken
  MaxLines = 5
  MaxPages = 5
  MaxPdfPages = 4
  MaxLength = 5
  MaxSize = 3
  Breaks = FALSE
  MarkdownFiles <- SomeMarkdown
  PdfFiles <- SomePdfs
SPECIFICATION Spec
CHECK_DEADLOCK FALSE
INVARIANTS
  ChunksAreLocated
  WindowsAdvance
  NoTokenIsLost
  ChunksCoverTheText
  CitationsNameTheirPlace
  ChunksKeepWithinHeadings
  OnlyEmptyFilesAreRefused
