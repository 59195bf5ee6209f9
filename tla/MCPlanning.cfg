\* Optimize requests under the greedy planner and the ALNS search.
CONSTANTS
    Problems <- PassProblems
    MaxStops = 5
    MaxPlans = 3
    Skills = {"cold", "lift"}
    Far = 100000
    Now = 100
    MaxAdvances = 2
SPECIFICATION SteadySpec
INVARIANTS TypeOK BestServesAll PlannedOnce DriveLimitKept TimesAddUp CurrentLegBegun
PROPERTIES StopsInPlay PlanningReturns
