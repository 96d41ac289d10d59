SPECIFICATION FairSpec
CONSTANTS
    Session = {s1}
    Port = {n1, n2}
    Free = Free
    Outsider = Outsider
    NoPort = NoPort
    Systems = {"unix", "windows"}
    MaxKills = 1
PROPERTIES
    InterruptEnds
    StartupEnds
    AnnouncedSettles
    RequestIsServed
    ImplementsLifecycle
