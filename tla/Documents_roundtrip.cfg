SPECIFICATION Spec
CONSTANTS
  Formats = {"txt", "md", "srt", "vtt", "csv", "html", "json", "docx", "pptx", "xlsx", "epub", "pdf"}
  Sources <- MCSources
  ReadOptions <- MCReadOptions
  Wordings <- MCWordings
  MaxDocument = 40
  TextLength = 4
  LineCount = 4
  PieceCount = 2
INVARIANTS
  IdentityRoundTrip
  TranslationsLand
  PackageKept
  JsonSelection
  ScannersAgree
CHECK_DEADLOCK FALSE
