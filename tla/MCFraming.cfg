SPECIFICATION StreamSpec
CONSTANTS
  Half = 4
  MaxLength = 2
  Id = {1, 3}
  Size <- MCSize
  BodyValue <- MCBodyValue
  AnswerSize <- MCAnswerSize
  MaxFrames = 3
  None = None
INVARIANTS RequestsAsSent ShortAnswersArrive
PROPERTIES RequestsArrive
CHECK_DEADLOCK FALSE
