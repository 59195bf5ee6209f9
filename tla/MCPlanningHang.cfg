\* One ALNS request with the default insertion operators.
CONSTANTS
    Problems <- DefaultSearch
    MaxStops = 5
    MaxPlans = 3
    Skills = {"cold", "lift"}
    Far = 100000
    Now = 100
    MaxAdvances = 0
SPECIFICATION FairSpec
PROPERTIES SearchReturns
