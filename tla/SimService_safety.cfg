SPECIFICATION FairSpec
CONSTANTS
    SocMax = 3
    SocInit = 3
    SocShedLow = 1
    SocShedHigh = 2
    BaseOut = 2
    BaseIn = 2
    MotionW = 1
    RadarW = 1
    XpdrW = 1
    RcsW = 1
    CpuLoads = {1}
    NblMaxes = {1}
    NblSocMin = 1
    NblTempMax = 0
    MaxBusA = 1
    BusVMin = 2
    BusVSpan = 3
    DockW = 4
    SoftStart = 2
    CapMax = 1
    CapRate = 1
    CapInit = 1
    DockInit = TRUE
    NblInit = TRUE
    ChargeMax = 1
    DischargeMax = 1
    TempMax = 1
    TripC = 1
    HysC = 1
    Propellant = 3
    MaxPct = 2
    MaxBurn = 2
    RadarEnabled = TRUE
    CommsEnabled = TRUE
    SensorCycle <- Cycle
    MaxCommands = 3
INVARIANTS
    TypeOK
    ShedDrawsNothing
    OvercurrentIsLastResort
    OnePicture
    RcsBounded
PROPERTIES
    TripShedsNextStep
    RcsEnds
    TripNewsSettles
