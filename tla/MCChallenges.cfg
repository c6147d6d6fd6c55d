SPECIFICATION DeskSpec
CONSTANTS
    i1 = i1
    i2 = i2
    v1 = v1
    v2 = v2
    Item = {i1}
    NoItem = NoItem
    Vacancy = {v1}
    VacancyOf <- OneItem
    ResumePolicy = "best_resume_only"
    DailyLimit = 2
    RunLimit = 2
    MaxAttempts = 2
    MaxChecks = 1
    Trigger = {"schedule", "recovery"}
    Interruptible = {"schedule"}
    SweepFirst = FALSE
    Timely = TRUE
    External = {}
    MaxFence = 4
    MaxAttempt = 2
INVARIANTS RepeatNeedsVerdict
PROPERTIES VerdictStands
CHECK_DEADLOCK FALSE
