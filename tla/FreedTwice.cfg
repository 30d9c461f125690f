SPECIFICATION Spec
CONSTANTS
  W = 8
  Literals <- MCLiterals
  LibraryWords <- MCLibraryWords
  Names <- MCNames
  Image <- MCImage
  Texts <- MCTexts
  Strings <- MCStrings
  Signatures <- MCIdaSignature
  Contents = {5}
  Modules <- MCModules
  Target <- MCTarget
  FreshSize = 2
  PreviewSize = 1
  MaxSize = 2
  MaxClasses = 2
  Alphabet <- MCAlphabet
  MaxText = 1
  Blocks = {b1, b2, b3}
SYMMETRY BlockSymmetry
PROPERTY FreedOnce
