SPECIFICATION DownloadSpec
CONSTANTS
    Tasks = {t1, t2, t3}
    Hung = {t3}
    Workers = {w1, w2}
    MaxAge = 1
    MaxClock = 2
    NoTask = NoTask
    NoRow = NoRow
    Providers <- MCProviders
    Preferences = {"netease", "qqmusic", "qishui", NoPreference}
    NoPreference = NoPreference
    None = None
    NoAnswer = NoAnswer
INVARIANTS
    NoGap
    TranslationBelongs
PROPERTIES
    KeepsPromise
    ResultIsFinal
    EveryTaskEnds
CHECK_DEADLOCK FALSE
