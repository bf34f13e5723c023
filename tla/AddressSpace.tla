---------------------------- MODULE AddressSpace ----------------------------
(***************************************************************************)
(* What the demand-paging subsystem promises one process about its address *)
(* space, with frames, swap slots and page-table bits left out: which      *)
(* pages are legal, which are resident, and how a fault may change that.  *)
(* A fault on an illegal page kills the process.  A fault on a legal page *)
(* that is not resident may make that page resident and may first evict   *)
(* the FIFO victim -- the resident page below sz with the lowest address  *)
(* (spec 4.5, the va/PGSIZE proxy); it may also fail and change nothing.  *)
(***************************************************************************)
EXTENDS Naturals, FiniteSets, FiniteSetsExt

CONSTANTS MaxPage, MaxSz

VARIABLES
    segPages,   \* the pages inside a recorded segment
    heapStart,  \* first page above the segments
    sz,         \* size of the address space, in pages
    resident,   \* the pages with a valid PTE
    killed,     \* the process has been killed
    exited      \* the process has exited

vars == <<segPages, heapStart, sz, resident, killed, exited>>

Legal(v) == v < MaxPage /\ (v \in segPages \/ (heapStart <= v /\ v < sz))

Running == ~killed /\ ~exited

(* The page eviction takes: the lowest resident page below sz.            *)
Victims ==
    LET below == {u \in resident : u < sz}
    IN  IF below = {} THEN {{}} ELSE {{}, {Min(below)}}

Init ==
    /\ segPages \subseteq 0 .. MaxPage
    /\ heapStart \in 0 .. MaxPage /\ sz \in 0 .. MaxSz
    /\ resident \subseteq {v \in 0 .. MaxPage : Legal(v)}
    /\ killed = FALSE /\ exited = FALSE

Kill(v) ==
    /\ Running /\ ~Legal(v)
    /\ killed' = TRUE
    /\ UNCHANGED <<segPages, heapStart, sz, resident, exited>>

Fault(v) ==
    /\ Running /\ Legal(v) /\ v \notin resident
    /\ \E evicted \in Victims, mapped \in {{}, {v}} :
          resident' = (resident \ evicted) \cup mapped
    /\ UNCHANGED <<segPages, heapStart, sz, killed, exited>>

Grow ==
    /\ Running /\ sz < MaxSz
    /\ sz' = sz + 1
    /\ UNCHANGED <<segPages, heapStart, resident, killed, exited>>

Exit ==
    /\ ~exited
    /\ exited' = TRUE /\ resident' = {}
    /\ UNCHANGED <<segPages, heapStart, sz, killed>>

Next == (\E v \in 0 .. MaxPage : Kill(v) \/ Fault(v)) \/ Grow \/ Exit

Spec == Init /\ [][Next]_vars

====
