SPECIFICATION Spec
CONSTANTS
    i1 = i1
    i2 = i2
    v1 = v1
    v2 = v2
    Item = {i1, i2}
    NoItem = NoItem
    Vacancy = {v1}
    VacancyOf <- SameVacancy
    ResumePolicy = "best_resume_only"
    DailyLimit = 2
    RunLimit = 1
    MaxAttempts = 2
    MaxChecks = 2
    Trigger = {"schedule", "manual", "recovery"}
    Interruptible = {"schedule", "manual", "recovery"}
    SweepFirst = FALSE
    Timely = TRUE
    External = {i1, i2}
    MaxFence = 2
    MaxAttempt = 2
SYMMETRY Symmetry
INVARIANTS NoRepeatedApplication OneApplicationPerVacancy AppliedIsReal ApplicationIsRemembered SlotAndGuardFollowAttempt ItemFollowsAttempt
PROPERTIES DecisionsAreFinal
CHECK_DEADLOCK FALSE
