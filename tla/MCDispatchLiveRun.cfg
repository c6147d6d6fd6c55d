SPECIFICATION Spec
CONSTANTS
    i1 = i1
    i2 = i2
    v1 = v1
    v2 = v2
    Item = {i1, i2}
    NoItem = NoItem
    Vacancy = {v1}
    VacancyOf <- SameVacancy
    ResumePolicy = "best_resume_only"
    DailyLimit = 2
    RunLimit = 1
    MaxAttempts = 1
    MaxChecks = 2
    Trigger = {"schedule", "recovery"}
    Interruptible = {"schedule"}
    SweepFirst = FALSE
    Timely = TRUE
    External = {}
    MaxFence = 3
    MaxAttempt = 2
SYMMETRY Symmetry
INVARIANTS NoStrandedItem
CHECK_DEADLOCK FALSE
