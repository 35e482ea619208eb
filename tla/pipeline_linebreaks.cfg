CONSTANTS
  Broken = Broken
  MaxLines = 4
  MaxPages = 5
  MaxPdfPages = 4
  MaxLength = 3
  MaxSize = 3
  Breaks = TRUE
  MarkdownFiles <- SomeMarkdown
  PdfFiles <- SomePdfs
SPECIFICATION Spec
CHECK_DEADLOCK FALSE
INVARIANTS
  ChunksKeepWithinHeadings
