------------------------------- MODULE Capture -------------------------------
(***************************************************************************)
(* The capture side of cshark (src/B/main.c): the menu loop of main, the  *)
(* two capture paths, the packet store filled from the pcap callback, and *)
(* the SIGINT handler, which may run between any two statements of the    *)
(* program and reads the global handle.  Each action ends where the code  *)
(* writes handle or returns to the menu, the points the handler can tell  *)
(* apart.  Packet contents, the parser and all printing are left out.     *)
(*                                                                         *)
(* handle is what the global pcap_t pointer refers to: NULL, an open      *)
(* capture, or one pcap_close has already freed.                          *)
(***************************************************************************)
EXTENDS Naturals, Sequences, Functions

CONSTANTS
    MaxPackets,     \* MAX_PACKETS (cshark.h)
    MaxArrivals,    \* packets the network delivers in one session (a bound)
    MallocMayFail,  \* whether malloc may return NULL in store_packet
    PacketsPerPage  \* packets_per_page of inspect_last_session (50)

VARIABLES
    pc,          \* where main is: a menu or a point inside a capture function
    filtered,    \* inside start_sniffing_filtered rather than _all
    handle,      \* handle: "null", "live" or "closed"
    breakLoop,   \* the break_loop flag pcap_breakloop sets in the pcap_t
    stopCapture, \* stop_capture
    storeAlloc,  \* packet_store != NULL
    store,       \* packet_store[0 .. packet_count-1]: the stored ids
    currentId,   \* current_packet_id
    currentPage, \* current_page of inspect_last_session
    dropped,     \* history: ids of this session a failed malloc kept out of the store
    packetId,    \* packet_id read by the browser's 'i' command
    found        \* found: the 1-based store index it matched, 0 for -1

(* The ids a user may type at 'i': every id a session can assign, and 0,  *)
(* which none is given.                                                    *)
PacketIds == 0 .. MaxArrivals

vars == <<pc, filtered, handle, breakLoop, stopCapture, storeAlloc, store, currentId,
          currentPage, dropped, packetId, found>>

TypeOK ==
    /\ pc \in {"select", "menu", "open", "compile", "loop", "close", "clear", "inspect", "detail", "exited"}
    /\ filtered \in BOOLEAN
    /\ handle \in {"null", "live", "closed"}
    /\ breakLoop \in BOOLEAN /\ stopCapture \in {0, 1}
    /\ storeAlloc \in BOOLEAN
    /\ store \in Seq(1 .. MaxArrivals) /\ Len(store) <= MaxPackets
    /\ currentId \in 0 .. MaxArrivals
    /\ currentPage \in Nat
    /\ dropped \subseteq 1 .. MaxArrivals
    /\ packetId \in PacketIds /\ found \in 0 .. MaxPackets

-----------------------------------------------------------------------------
(* free_packet_store (293-302).                                            *)
FreePacketStore ==
    /\ storeAlloc' = FALSE
    /\ store' = <<>>

(* Seeded fault: a session start that does not call free_packet_store.    *)
StartSessionKeepStore(isFiltered) ==
    /\ pc = "menu"
    /\ currentId' = 0 /\ stopCapture' = 0
    /\ dropped' = {}
    /\ filtered' = isFiltered
    /\ pc' = "open"
    /\ UNCHANGED <<handle, breakLoop, currentPage, store, storeAlloc, packetId, found>>

(* The start of a session, lines 148-151 and 215-218.                     *)
StartSession(isFiltered) ==
    /\ pc = "menu"
    /\ FreePacketStore
    /\ currentId' = 0 /\ stopCapture' = 0
    /\ dropped' = {}
    /\ filtered' = isFiltered
    /\ pc' = "open"
    /\ UNCHANGED <<handle, breakLoop, currentPage, packetId, found>>

(* Menu choice 1: start_sniffing_all up to pcap_open_live.                *)
SniffAll == StartSession(FALSE)

(* Menu choice 2: start_sniffing_filtered with one of the six filters.   *)
(* An invalid filter choice returns at line 209 having changed nothing,   *)
(* a stuttering step.                                                      *)
SniffFiltered == StartSession(TRUE)

(* handle = pcap_open_live(...) (154-158, 221-225): a new pcap_t, whose  *)
(* break flag is clear; on failure handle is NULL and the function        *)
(* returns to the menu.                                                    *)
OpenLive ==
    /\ pc = "open"
    /\ \/ handle' = "live" /\ pc' = IF filtered THEN "compile" ELSE "loop"
       \/ handle' = "null" /\ pc' = "menu"
    /\ breakLoop' = FALSE
    /\ UNCHANGED <<filtered, stopCapture, storeAlloc, store, currentId, currentPage, dropped, packetId, found>>

(* Lines 228-241: pcap_compile or pcap_setfilter fails, the handle is     *)
(* closed and the function returns -- leaving handle pointing at it.      *)
CompileFilter ==
    /\ pc = "compile"
    /\ \/ pc' = "loop" /\ UNCHANGED handle
       \/ handle' = "closed" /\ pc' = "menu"
    /\ UNCHANGED <<filtered, breakLoop, stopCapture, storeAlloc, store, currentId, currentPage, dropped, packetId, found>>

MallocResults == IF MallocMayFail THEN BOOLEAN ELSE {TRUE}

(* Seeded fault: the capacity test at line 265 written with ">".         *)
PacketHandlerFullOffByOne ==
    /\ pc = "loop" /\ ~breakLoop /\ currentId < MaxArrivals
    /\ currentId' = currentId + 1
    /\ \E arrayOk, dataOk \in MallocResults :
         \/ Len(store) > MaxPackets /\ UNCHANGED <<store, storeAlloc, dropped, packetId, found>>
         \/ /\ Len(store) <= MaxPackets
            /\ storeAlloc' = (storeAlloc \/ arrayOk)
            /\ IF storeAlloc' /\ dataOk
               THEN store' = Append(store, currentId + 1) /\ UNCHANGED dropped
               ELSE dropped' = dropped \cup {currentId + 1} /\ UNCHANGED store
    /\ UNCHANGED <<pc, filtered, handle, breakLoop, stopCapture, currentPage, dropped, packetId, found>>

(* packet_handler (253-262) and store_packet (264-291) for one packet     *)
(* pcap_loop delivers: the id always advances; the packet is stored only  *)
(* below MAX_PACKETS and when both mallocs succeed.                       *)
PacketHandler ==
    /\ pc = "loop" /\ ~breakLoop /\ currentId < MaxArrivals
    /\ currentId' = currentId + 1
    /\ \E arrayOk, dataOk \in MallocResults :
         \/ Len(store) >= MaxPackets /\ UNCHANGED <<store, storeAlloc, dropped, packetId, found>>
         \/ /\ Len(store) < MaxPackets
            /\ storeAlloc' = (storeAlloc \/ arrayOk)
            /\ IF storeAlloc' /\ dataOk
               THEN store' = Append(store, currentId + 1) /\ UNCHANGED dropped
               ELSE dropped' = dropped \cup {currentId + 1} /\ UNCHANGED store
    /\ UNCHANGED <<pc, filtered, handle, breakLoop, stopCapture, currentPage, dropped, packetId, found>>

(* pcap_loop returns (161, 244): after pcap_breakloop, which it consumes, *)
(* or on a capture error.                                                  *)
LoopReturns ==
    /\ pc = "loop"
    /\ breakLoop' = FALSE
    /\ pc' = "close"
    /\ UNCHANGED <<filtered, handle, stopCapture, storeAlloc, store, currentId, currentPage, dropped, packetId, found>>

(* pcap_close(handle) (164, 247), then handle = NULL (165, 248).           *)
Close ==
    /\ pc = "close"
    /\ handle' = "closed" /\ pc' = "clear"
    /\ UNCHANGED <<filtered, breakLoop, stopCapture, storeAlloc, store, currentId, currentPage, dropped, packetId, found>>

Clear ==
    /\ pc = "clear"
    /\ handle' = "null" /\ pc' = "menu"
    /\ UNCHANGED <<filtered, breakLoop, stopCapture, storeAlloc, store, currentId, currentPage, dropped, packetId, found>>

(* inspect_last_session (inspect.c 67-228), menu choice 3.  With no packet *)
(* it returns at once (68-71), a stuttering step.  Listing a page, the     *)
(* whole session ('a') or one packet by id ('i') only reads packet_store   *)
(* and prints; what changes is current_page.                               *)
TotalPages == (Len(store) + PacketsPerPage - 1) \div PacketsPerPage

(* Lines 79-81: the browser opens on the first page.                       *)
InspectOpen ==
    /\ pc = "menu" /\ Len(store) > 0
    /\ currentPage' = 0 /\ pc' = "inspect"
    /\ UNCHANGED <<filtered, handle, breakLoop, stopCapture, storeAlloc, store, currentId, dropped, packetId, found>>

(* Seeded fault: line 129 written current_page < total_pages.             *)
InspectNextPagePastEnd ==
    /\ pc = "inspect" /\ currentPage < TotalPages
    /\ currentPage' = currentPage + 1
    /\ UNCHANGED <<pc, filtered, handle, breakLoop, stopCapture, storeAlloc, store, currentId,
                   dropped, packetId, found>>

(* 'n' (128-135) moves on unless this is the last page; 'p' (136-143)     *)
(* moves back unless it is the first.                                      *)
InspectNextPage ==
    /\ pc = "inspect" /\ currentPage < TotalPages - 1
    /\ currentPage' = currentPage + 1
    /\ UNCHANGED <<pc, filtered, handle, breakLoop, stopCapture, storeAlloc, store, currentId, dropped, packetId, found>>

InspectPrevPage ==
    /\ pc = "inspect" /\ currentPage > 0
    /\ currentPage' = currentPage - 1
    /\ UNCHANGED <<pc, filtered, handle, breakLoop, stopCapture, storeAlloc, store, currentId, dropped, packetId, found>>

(* The search of lines 178-184: the first index whose id is k, 0 for -1. *)
RECURSIVE FindFrom(_, _)
FindFrom(k, i) ==
    IF i > Len(store) THEN 0
    ELSE IF store[i] = k THEN i
    ELSE FindFrom(k, i + 1)

(* Seeded fault: the search loop started at i = 1.                        *)
FindPacketSkipFirst(k) == FindFrom(k, 2)

FindPacket(k) == FindFrom(k, 1)

(* 'i' (170-190): read an id and search the store; an unknown id prints   *)
(* "not found" and continues at the prompt, leaving the state as it was. *)
InspectDetail ==
    /\ pc = "inspect"
    /\ \E k \in PacketIds :
          /\ FindPacket(k) # 0
          /\ packetId' = k /\ found' = FindPacket(k)
    /\ pc' = "detail"
    /\ UNCHANGED <<filtered, handle, breakLoop, stopCapture, storeAlloc, store, currentId,
                   currentPage, dropped>>

(* Lines 192-217: print packet_store[found] and wait for Enter.           *)
InspectDetailDone ==
    /\ pc = "detail"
    /\ pc' = "inspect"
    /\ UNCHANGED <<filtered, handle, breakLoop, stopCapture, storeAlloc, store, currentId,
                   currentPage, dropped, packetId, found>>

(* 'q' (220-222) returns to the menu.                                      *)
InspectQuit ==
    /\ pc = "inspect"
    /\ pc' = "menu"
    /\ UNCHANGED <<filtered, handle, breakLoop, stopCapture, storeAlloc, store, currentId,
                   currentPage, dropped, packetId, found>>

(* select_interface (69-118) and main's check of it (20-24): the device  *)
(* list is read and one is chosen; no device, a failed pcap_findalldevs   *)
(* or a choice out of range makes main return 1 before the menu.          *)
SelectInterface ==
    /\ pc = "select"
    /\ pc' \in {"menu", "exited"}
    /\ UNCHANGED <<filtered, handle, breakLoop, stopCapture, storeAlloc, store,
                   currentId, currentPage, dropped, packetId, found>>

(* Menu choice 4 or end of input (30-34, 50-53).                           *)
Exit ==
    /\ pc = "menu"
    /\ FreePacketStore
    /\ pc' = "exited"
    /\ UNCHANGED <<filtered, handle, breakLoop, stopCapture, currentId, currentPage, dropped, packetId, found>>

(* signal_handler (133-139) for SIGINT, at any point of the program.      *)
(* pcap_breakloop on a live handle sets its break flag; on a closed one   *)
(* it writes into freed memory, which leaves nothing this model tracks.  *)
SignalHandler ==
    /\ pc # "exited"
    /\ stopCapture' = 1
    /\ breakLoop' = (breakLoop \/ handle = "live")
    /\ UNCHANGED <<pc, filtered, handle, storeAlloc, store, currentId, currentPage, dropped, packetId, found>>

Init ==
    /\ pc = "select" /\ filtered = FALSE /\ handle = "null"
    /\ breakLoop = FALSE /\ stopCapture = 0
    /\ storeAlloc = FALSE /\ store = <<>> /\ currentId = 0 /\ currentPage = 0
    /\ dropped = {} /\ packetId = 0 /\ found = 0

Next ==
    \/ SelectInterface \/ SniffAll \/ SniffFiltered \/ OpenLive \/ CompileFilter
    \/ PacketHandler \/ LoopReturns \/ Close \/ Clear
    \/ InspectOpen \/ InspectNextPage \/ InspectPrevPage \/ InspectQuit
    \/ InspectDetail \/ InspectDetailDone
    \/ Exit \/ SignalHandler

Spec == Init /\ [][Next]_vars

-----------------------------------------------------------------------------
(* The SIGINT handler only ever hands pcap_breakloop a handle that is     *)
(* NULL-checked and still open: it never runs while handle points at a   *)
(* pcap_t that pcap_close has freed (lines 136-137 against 164-165 and    *)
(* 228-238).                                                               *)
BreakloopOnLiveHandle ==
    [][SignalHandler => handle # "closed"]_vars


(* The store free_packet_store and store_packet maintain holds exactly the *)
(* packets of the last session started, in capture order: its first       *)
(* MAX_PACKETS packets whose two mallocs succeeded -- never one of an     *)
(* earlier session, across sessions that fail to open or to compile,     *)
(* the full-store return, malloc failures and SIGINTs at any point.        *)
StoreHoldsSessionPackets ==
    LET kept == SelectSeq([i \in 1 .. currentId |-> i], LAMBDA i : i \notin dropped)
        n == IF Len(kept) < MaxPackets THEN Len(kept) ELSE MaxPackets
    IN  pc # "exited" => store = SubSeq(kept, 1, n)

(* inspect_last_session's page always starts at a stored packet: after any *)
(* sequence of 'n' and 'p' the listing loop (99-103) shows at least one    *)
(* packet and reads no entry at or past packet_count.                      *)
BrowserPageInRange ==
    pc = "inspect" => currentPage * PacketsPerPage < Len(store)


(* The 'i' command's linear search (178-184) agrees with the reference    *)
(* lookup: for every id typed it finds the stored packet with that id, or *)
(* reports it missing exactly when no stored packet has it; and the       *)
(* detail view shows the packet whose id was asked for.  This needs the   *)
(* ids of a session's store to be distinct, which store_packet's use of    *)
(* current_packet_id must keep through malloc failures and the full store.*)
PacketLookupExact ==
    /\ IsInjective(store)
    /\ \A k \in PacketIds :
          LET at == {i \in DOMAIN store : store[i] = k}
          IN  FindPacket(k) = IF at = {} THEN 0 ELSE CHOOSE i \in at : \A j \in at : i <= j
    /\ pc = "detail" => found \in DOMAIN store /\ store[found] = packetId

====
