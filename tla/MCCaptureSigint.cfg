\* A SIGINT that arrives once pcap_close has freed the handle and before it
\* is set to NULL, or after a failed filter left it dangling.
CONSTANTS
    MaxPackets <- MCMaxPackets
    MaxArrivals <- MCMaxArrivals
    MallocMayFail = TRUE
    PacketsPerPage <- MCPacketsPerPage
SPECIFICATION Spec
PROPERTY BreakloopOnLiveHandle
CHECK_DEADLOCK FALSE
