CONSTANTS
    MaxPackets <- MCMaxPackets
    MaxArrivals <- MCMaxArrivals
    MallocMayFail = TRUE
    PacketsPerPage <- MCPacketsPerPage
SPECIFICATION Spec
INVARIANTS TypeOK StoreHoldsSessionPackets BrowserPageInRange PacketLookupExact
CHECK_DEADLOCK FALSE
