SPECIFICATION Spec
CONSTANTS
  LabelMax = 8
  NameMax = 37
  Questions <- MCQuestions
  QtypeTable <- MCQtypeTable
  Keys <- MCKeys
  Options = {5, 30}
  AlgLen = 2
  MdLen = 1
  MaxUdp = 54
  MaxEdns = 70
  Byte = 3
  RRSizes = {1, 12}
  MaxLines = 3
  None = None

INVARIANT NoAssertion
INVARIANT HeaderTells
INVARIANT QuestionMeant
INVARIANT DigestCovers
