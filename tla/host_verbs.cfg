SPECIFICATION Spec
CONSTANTS
    here = here
    there = there
    kHere = kHere
    kThere = kThere
    kNew = kNew
    v1 = v1
    v2 = v2
    Names <- MCNames
    Keys = {kHere, kThere, kNew}
    Hosts = {here, there}
    Here = here
    HomeOf <- MCHome
    Vms = {v1, v2}
    Calls <- MCCalls
    Ask <- MCAsk
    Scenarios <- MCScenarios
INVARIANTS
    KeyGoesHome
    RegistryAgrees
PROPERTIES
    DoesWhatItSays
    AvailableIsAsked
CHECK_DEADLOCK FALSE
