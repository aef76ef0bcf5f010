SPECIFICATION FairSpec
CONSTANTS
    d1 = d1
    d2 = d2
    d3 = d3
    Devices <- ThreeDevices
    Main = Main
    NoDevice = NoDevice
    MaxCatches = 2
INVARIANTS
    QuietNotRunning
PROPERTIES
    MainReturns
