SPECIFICATION HttpSpec
CONSTANT Scripts <- ThreeRequests
INVARIANT AnswersInOrder
PROPERTIES StrandedBehindAnswer AnsweredWhenAlone
CHECK_DEADLOCK FALSE
