\* One renderer, any sequence of screenshots and PDFs.
SPECIFICATION Spec
CONSTANTS
  Chars = {"a", "b", "_"}
  Blank = {"_"}
  CharW = 10
  Docs <- MCDocs
  Shots <- MCShots
  Papers <- MCPapers
  MaxRasterDim = 100
  MaxRasterPixels = 7000
INVARIANTS
  OkMeansComplete
  ClipShown
  TextDrawn
  ExportFaithful
  PagesHold
