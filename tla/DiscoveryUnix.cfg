SPECIFICATION Spec
CONSTANTS
    Projects <- MCProjects
INVARIANTS
    OneEntrypointIsServed
CHECK_DEADLOCK FALSE
