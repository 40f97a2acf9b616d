SPECIFICATION Spec
INVARIANTS StoreKeeps StopsInOrder CommandsAnswer
PROPERTIES GuardRemembers ErrorsTold
\* The bounds end every behaviour.
CHECK_DEADLOCK FALSE
