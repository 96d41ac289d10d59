SPECIFICATION Spec
CONSTANTS
    Projects <- MCProjects
INVARIANTS
    ServedIsContained
    ServedIsOnlyEntrypoint
    ConfigurationIsObeyed
    OneEntrypointIsServedUnlessFile
CHECK_DEADLOCK FALSE
