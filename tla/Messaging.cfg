SPECIFICATION Spec
CONSTANT MaxCopies = 2
INVARIANT EveryListenerHears
CHECK_DEADLOCK FALSE
