SPECIFICATION Spec
CONSTANT
    Items = 3
CHECK_DEADLOCK FALSE
INVARIANT AnswerFollowsQuestion
INVARIANT QuestionHasItem
