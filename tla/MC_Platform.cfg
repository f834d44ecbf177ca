SPECIFICATION Spec
INVARIANTS NothingLeftOver RequestsVetted OrderKept ContentKept ReportsTrue WithinBounds
INVARIANTS CountsHonest Bounded LanguageSound
PROPERTIES StepsAllowed AnswersComeBack
CHECK_DEADLOCK FALSE
