SPECIFICATION Spec
PROPERTIES DrivesJudged KernelTold ProblemsEnd FixesKept VerdictsTrue
\* The bounds end every behaviour.
CHECK_DEADLOCK FALSE
