SPECIFICATION Spec
INVARIANTS RootAnchored StackRestored FirstAcceptable AnswerIsValid FallbackSeesJumps
