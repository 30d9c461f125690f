SPECIFICATION Spec
CONSTANTS
  W = 8
  Literals <- MCLiterals
  LibraryWords <- MCLibraryWords
  Names <- MCNames
  Image <- MCImage
  Texts <- MCTexts
  Strings <- MCStrings
  Signatures <- MCBadSignature
  Contents = {5}
  Modules <- MCModules
  Target <- MCTarget
  FreshSize = 1
  PreviewSize = 1
  MaxSize = 1
  MaxClasses = 1
  Alphabet <- MCAlphabet
  MaxText = 4
  Blocks = {b1, b2}
SYMMETRY BlockSymmetry
INVARIANT StringScanFinds
INVARIANT ParserRight
INVARIANT StringScanRight
INVARIANT CachedReadsStrayAtTop
