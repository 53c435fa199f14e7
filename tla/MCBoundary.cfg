SPECIFICATION Spec
CONSTANTS
  IccidOctets = 2
  MaxChars = 4
  Tids <- MCTids
  Texts <- MCTexts
  Metadatas <- MCMetadatas
INVARIANT TypeOK
INVARIANT AlwaysAnswered
INVARIANT MetadataIccidRead
PROPERTY EchoNamesSession
PROPERTY AnswerSaysWhy
