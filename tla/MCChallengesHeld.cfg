SPECIFICATION DeskSpec
CONSTANTS
    i1 = i1
    i2 = i2
    v1 = v1
    v2 = v2
    Item = {i1, i2}
    NoItem = NoItem
    Vacancy = {v1, v2}
    VacancyOf <- TwoVacancies
    ResumePolicy = "best_resume_only"
    DailyLimit = 2
    RunLimit = 1
    MaxAttempts = 2
    MaxChecks = 1
    Trigger = {"schedule", "recovery"}
    Interruptible = {"schedule"}
    SweepFirst = FALSE
    Timely = TRUE
    External = {}
    MaxFence = 3
    MaxAttempt = 2
SYMMETRY PairSymmetry
PROPERTIES OnlyLoginsLoseSlots
CHECK_DEADLOCK FALSE
