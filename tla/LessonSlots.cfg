SPECIFICATION Spec
CONSTANTS
    t1 = t1
    l1 = l1
    k1 = k1
    f1 = f1
    Slots = {s1, s2}
    Orders = {o1}
    Packages = {k1}
    Learners = {l1}
    Teachers = {t1}
    PkgTeacher <- OnePkgTeacher
    PkgDuration <- OnePkgDuration
    PkgCount <- OnePkgCount
    NoOrder = NoOrder
    NoPackage = NoPackage
    NoLearner = NoLearner
    NoTeacher = NoTeacher
    PackageLife = 3
    PendingWindow = 1
    MaxTime = 3
    Starts = {1, 2}
    Durations = {1}
    Tariffs = {f1}
    TariffTeacher <- OneTariffTeacher
    TariffDuration <- OneTariffDuration
    TariffAccess <- OneTariffAccess
    NoTariff = NoTariff
    NoSlot = NoSlot
    BillingModes = {TRUE, FALSE}
    EnvCancelWindow = 1
    CancelWindow <- OneWindow
    ImmutableAfter = 1
    BusyCells <- OneCell
SYMMETRY Symmetry
INVARIANTS
    TypeOK
    ActiveUnitsBackLessons
    NoOverdraw
    CompletionMatchesStatus
    UniqueStart
    RescheduleChain
PROPERTIES
    ImplementsUnitLedger
    CoveredStays
    CancelledIsFinal
CHECK_DEADLOCK FALSE
