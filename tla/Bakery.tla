------------------------------- MODULE Bakery -------------------------------
(***************************************************************************)
(* The bakery simulation of src/C/hotel.c: one thread per customer, one    *)
(* per chef, the time thread and main.  Each step is one stretch of a      *)
(* thread's code that holds a lock or ends at a wait; cpc and hpc are the  *)
(* customers' and chefs' program counters, and the chef's locals hCust and *)
(* hTime hold the customer and the time it is working to.  The event log   *)
(* (add_event, print_events) is output only and is left out.               *)
(*                                                                         *)
(* Time: the time thread raises current_time every 100 ms, while a        *)
(* waiting thread polls every 10 ms (customers) or 50 ms (chefs).  Tick    *)
(* therefore happens only once every thread has gone as far as it can at   *)
(* the current time (Quiescent).                                           *)
(***************************************************************************)
EXTENDS Integers, Sequences, FiniteSets, FiniteSetsExt

CONSTANTS
    Customers,     \* the customer threads (ids read from stdin)
    Chefs,         \* the NUM_CHEFS chef threads
    Arrival,       \* customer -> arrival time read from stdin
    SyncSlot,      \* customer -> index id % 100000 into customer_sync
    MaxCustomers,  \* MAX_CUSTOMERS: shop capacity and standing ring size
    SofaCapacity,  \* SOFA_CAPACITY: sofa places and sofa ring size
    NumOvens,      \* NUM_OVENS
    TimeSlack,     \* the 200 the time thread runs past the last arrival
    NoCustomer     \* the zeroed Customer of an unwritten ring entry

Slots == {SyncSlot[c] : c \in Customers}
MaxTime == Max({Arrival[c] : c \in Customers})
TimeLimit == MaxTime + TimeSlack
SofaEntry == [cust : Customers \cup {NoCustomer}, req : Nat]

VARIABLES
    now,           \* current_time
    running,       \* simulation_running
    inShop,        \* customers_in_shop
    onSofa,        \* customers_on_sofa
    sofaBuf, sofaFront, sofaRear,     \* sofa_queue: pending cake requests
    standBuf, standFront, standRear,  \* standing_queue
    canSit, sitTime, cakeReady, payAccepted, syncTime,  \* customer_sync[]
    payQueue,      \* payment_queue[0 .. payment_count-1]
    ovens, cash,   \* the semaphores ovens and cash_register
    cpc, cTime, handoff,  \* customer pc, leave_time, the customer to seat
    hpc, hCust, hTime     \* chef pc and locals

vars == <<now, running, inShop, onSofa, sofaBuf, sofaFront, sofaRear,
          standBuf, standFront, standRear, canSit, sitTime, cakeReady,
          payAccepted, syncTime, payQueue, ovens, cash, cpc, cTime, handoff,
          hpc, hCust, hTime>>

CustomerPcs == {"arrive", "entered", "standing", "seated", "waitCake",
                "waitPay", "leaveSofa", "notify", "exit", "done", "gone"}
ChefPcs == {"loop", "pay", "peek", "oven", "take", "bakeWait", "baking",
            "cashWait", "accepting", "done"}

TypeOK ==
    /\ now \in 0 .. TimeLimit /\ running \in BOOLEAN
    /\ inShop \in 0 .. MaxCustomers /\ onSofa \in Nat
    /\ sofaBuf \in [0 .. SofaCapacity - 1 -> SofaEntry]
    /\ sofaFront \in 0 .. SofaCapacity - 1 /\ sofaRear \in 0 .. SofaCapacity - 1
    /\ standBuf \in [0 .. MaxCustomers - 1 -> Customers \cup {NoCustomer}]
    /\ standFront \in 0 .. MaxCustomers - 1 /\ standRear \in 0 .. MaxCustomers - 1
    /\ canSit \in [Slots -> BOOLEAN] /\ cakeReady \in [Slots -> BOOLEAN]
    /\ payAccepted \in [Slots -> BOOLEAN]
    /\ payQueue \in Seq([cust : Customers, payTime : Nat, processed : BOOLEAN])
    /\ ovens \in 0 .. NumOvens /\ cash \in 0 .. 1
    /\ cpc \in [Customers -> CustomerPcs] /\ hpc \in [Chefs -> ChefPcs]
    /\ hCust \in [Chefs -> Customers \cup {NoCustomer}]

-----------------------------------------------------------------------------
(* The two ring queues (lines 81-109): full and empty both read as        *)
(* front = rear.                                                           *)
IsSofaEmpty == sofaFront = sofaRear
EnqueueSofa(e) ==
    /\ sofaBuf' = [sofaBuf EXCEPT ![sofaRear] = e]
    /\ sofaRear' = (sofaRear + 1) % SofaCapacity
DequeueSofa == sofaFront' = (sofaFront + 1) % SofaCapacity

IsStandingEmpty == standFront = standRear
EnqueueStanding(c) ==
    /\ standBuf' = [standBuf EXCEPT ![standRear] = c]
    /\ standRear' = (standRear + 1) % MaxCustomers
DequeueStanding == standFront' = (standFront + 1) % MaxCustomers

(* The customer_sync setters (lines 222-244): under the slot's mutex each *)
(* sets its flag and the slot's time field, then signals the slot's      *)
(* condition variable.  The slot is id % 100000, so two customers with    *)
(* equal slots share it.                                                   *)
NotifyCanSit(c, t) ==
    /\ canSit' = [canSit EXCEPT ![SyncSlot[c]] = TRUE]
    /\ sitTime' = [sitTime EXCEPT ![SyncSlot[c]] = t]
SignalCakeReady(c, t) ==
    /\ cakeReady' = [cakeReady EXCEPT ![SyncSlot[c]] = TRUE]
    /\ syncTime' = [syncTime EXCEPT ![SyncSlot[c]] = t]
SignalPaymentAccepted(c, t) ==
    /\ payAccepted' = [payAccepted EXCEPT ![SyncSlot[c]] = TRUE]
    /\ syncTime' = [syncTime EXCEPT ![SyncSlot[c]] = t]

(* add_payment_request (247-255): append an unprocessed request under    *)
(* payment_queue_mutex.                                                    *)
AddPaymentRequest(c, t) ==
    payQueue' = Append(payQueue, [cust |-> c, payTime |-> t, processed |-> FALSE])

(* get_next_payment's choice (lines 259-272): the unprocessed request with *)
(* the earliest pay_time not after now, the first such on a tie.           *)
ReadyPayments == {i \in 1 .. Len(payQueue) :
                     ~payQueue[i].processed /\ payQueue[i].payTime <= now}
NextPayment ==
    CHOOSE i \in ReadyPayments :
        \A j \in ReadyPayments : payQueue[i].payTime < payQueue[j].payTime
                                 \/ (payQueue[i].payTime = payQueue[j].payTime /\ i <= j)

-----------------------------------------------------------------------------
(* Customer thread, lines 286-381; s is the customer's customer_sync slot. *)

CustomerUnchanged(c) ==
    UNCHANGED <<hpc, hCust, hTime, ovens, cash, payQueue, running, now>>

(* Seeded fault: the capacity test of line 298 written with >.            *)
CustomerEnterOffByOne(c) ==
    /\ cpc[c] = "arrive" /\ now >= Arrival[c]
    /\ IF inShop > MaxCustomers
       THEN cpc' = [cpc EXCEPT ![c] = "gone"] /\ UNCHANGED inShop
       ELSE cpc' = [cpc EXCEPT ![c] = "entered"] /\ inShop' = inShop + 1
    /\ UNCHANGED <<onSofa, sofaBuf, sofaFront, sofaRear, standBuf, standFront,
                   standRear, canSit, sitTime, cakeReady, payAccepted, syncTime,
                   cTime, handoff>>

(* Lines 293-304: wait for the arrival time, then enter or be turned away.*)
CustomerEnter(c) ==
    /\ cpc[c] = "arrive" /\ now >= Arrival[c]
    /\ IF inShop >= MaxCustomers
       THEN cpc' = [cpc EXCEPT ![c] = "gone"] /\ UNCHANGED inShop
       ELSE cpc' = [cpc EXCEPT ![c] = "entered"] /\ inShop' = inShop + 1
    /\ UNCHANGED <<onSofa, sofaBuf, sofaFront, sofaRear, standBuf, standFront,
                   standRear, canSit, sitTime, cakeReady, payAccepted, syncTime,
                   cTime, handoff>>

(* Lines 306-319: take a sofa place, sitting at enter_time + 1, or join   *)
(* the standing queue.                                                     *)
CustomerTakeSeat(c) ==
    /\ cpc[c] = "entered"
    /\ IF onSofa < SofaCapacity
       THEN /\ onSofa' = onSofa + 1
            /\ canSit' = [canSit EXCEPT ![SyncSlot[c]] = TRUE]
            /\ sitTime' = [sitTime EXCEPT ![SyncSlot[c]] = now + 1]
            /\ cpc' = [cpc EXCEPT ![c] = "seated"]
            /\ UNCHANGED <<standBuf, standRear>>
       ELSE /\ EnqueueStanding(c)
            /\ cpc' = [cpc EXCEPT ![c] = "standing"]
            /\ UNCHANGED <<onSofa, canSit, sitTime>>
    /\ UNCHANGED <<inShop, sofaBuf, sofaFront, sofaRear, standFront, cakeReady,
                   payAccepted, syncTime, cTime, handoff>>

(* Lines 321-328: wait on the condition variable until can_sit.           *)
CustomerStandWait(c) ==
    /\ cpc[c] = "standing" /\ canSit[SyncSlot[c]]
    /\ cpc' = [cpc EXCEPT ![c] = "seated"]
    /\ UNCHANGED <<inShop, onSofa, sofaBuf, sofaFront, sofaRear, standBuf,
                   standFront, standRear, canSit, sitTime, cakeReady,
                   payAccepted, syncTime, cTime, handoff>>

(* Lines 330-341: queue the cake request, timed sit_time + 1.            *)
CustomerRequestCake(c) ==
    /\ cpc[c] = "seated"
    /\ EnqueueSofa([cust |-> c, req |-> sitTime[SyncSlot[c]] + 1])
    /\ cpc' = [cpc EXCEPT ![c] = "waitCake"]
    /\ UNCHANGED <<inShop, onSofa, sofaFront, standBuf, standFront, standRear,
                   canSit, sitTime, cakeReady, payAccepted, syncTime, cTime, handoff>>

(* Lines 343-351: wait for cake_ready, then pay.                          *)
CustomerGetCake(c) ==
    /\ cpc[c] = "waitCake" /\ cakeReady[SyncSlot[c]]
    /\ cpc' = [cpc EXCEPT ![c] = "waitPay"]
    /\ UNCHANGED <<inShop, onSofa, sofaBuf, sofaFront, sofaRear, standBuf,
                   standFront, standRear, canSit, sitTime, cakeReady,
                   payAccepted, syncTime, cTime, handoff>>

(* Lines 353-361: wait for payment_accepted; leave at its time.          *)
CustomerGetReceipt(c) ==
    /\ cpc[c] = "waitPay" /\ payAccepted[SyncSlot[c]]
    /\ cTime' = [cTime EXCEPT ![c] = syncTime[SyncSlot[c]]]
    /\ cpc' = [cpc EXCEPT ![c] = "leaveSofa"]
    /\ UNCHANGED <<inShop, onSofa, sofaBuf, sofaFront, sofaRear, standBuf,
                   standFront, standRear, canSit, sitTime, cakeReady,
                   payAccepted, syncTime, handoff>>

(* Seeded fault: the place is handed to a standing customer without       *)
(* counting it again (line 368 dropped).                                  *)
CustomerLeaveSofaNoRecount(c) ==
    /\ cpc[c] = "leaveSofa"
    /\ IF ~IsStandingEmpty
       THEN /\ DequeueStanding
            /\ onSofa' = onSofa - 1
            /\ handoff' = [handoff EXCEPT ![c] = standBuf[standFront]]
            /\ cpc' = [cpc EXCEPT ![c] = "notify"]
       ELSE /\ onSofa' = onSofa - 1
            /\ cpc' = [cpc EXCEPT ![c] = "exit"]
            /\ UNCHANGED <<standFront, handoff>>
    /\ UNCHANGED <<inShop, sofaBuf, sofaFront, sofaRear, standBuf, standRear,
                   canSit, sitTime, cakeReady, payAccepted, syncTime, cTime>>

(* Seeded fault: the place goes to the customer that stood last (the     *)
(* standing ring popped at its rear).                                      *)
CustomerLeaveSofaLifo(c) ==
    /\ cpc[c] = "leaveSofa"
    /\ IF ~IsStandingEmpty
       THEN /\ standRear' = (standRear - 1) % MaxCustomers
            /\ onSofa' = onSofa - 1 + 1
            /\ handoff' = [handoff EXCEPT ![c] = standBuf[(standRear - 1) % MaxCustomers]]
            /\ cpc' = [cpc EXCEPT ![c] = "notify"]
       ELSE /\ onSofa' = onSofa - 1
            /\ cpc' = [cpc EXCEPT ![c] = "exit"]
            /\ UNCHANGED <<standRear, handoff>>
    /\ UNCHANGED <<inShop, sofaBuf, sofaFront, sofaRear, standBuf, standFront,
                   canSit, sitTime, cakeReady, payAccepted, syncTime, cTime>>

(* Lines 363-373: give up the sofa place; if someone stands, the place    *)
(* passes to the head of the standing queue.                              *)
CustomerLeaveSofa(c) ==
    /\ cpc[c] = "leaveSofa"
    /\ IF ~IsStandingEmpty
       THEN /\ DequeueStanding
            /\ onSofa' = onSofa - 1 + 1
            /\ handoff' = [handoff EXCEPT ![c] = standBuf[standFront]]
            /\ cpc' = [cpc EXCEPT ![c] = "notify"]
       ELSE /\ onSofa' = onSofa - 1
            /\ cpc' = [cpc EXCEPT ![c] = "exit"]
            /\ UNCHANGED <<standFront, handoff>>
    /\ UNCHANGED <<inShop, sofaBuf, sofaFront, sofaRear, standBuf, standRear,
                   canSit, sitTime, cakeReady, payAccepted, syncTime, cTime>>

(* Line 370, notify_can_sit (222-228), after sofa_mutex is released.      *)
CustomerNotifyNext(c) ==
    /\ cpc[c] = "notify"
    /\ NotifyCanSit(handoff[c], cTime[c])
    /\ cpc' = [cpc EXCEPT ![c] = "exit"]
    /\ UNCHANGED <<inShop, onSofa, sofaBuf, sofaFront, sofaRear, standBuf,
                   standFront, standRear, cakeReady, payAccepted, syncTime,
                   cTime, handoff>>

(* Lines 375-380.                                                          *)
CustomerLeaveShop(c) ==
    /\ cpc[c] = "exit"
    /\ inShop' = inShop - 1
    /\ cpc' = [cpc EXCEPT ![c] = "done"]
    /\ UNCHANGED <<onSofa, sofaBuf, sofaFront, sofaRear, standBuf, standFront,
                   standRear, canSit, sitTime, cakeReady, payAccepted, syncTime,
                   cTime, handoff>>

CustomerStep(c) ==
    /\ \/ CustomerEnter(c) \/ CustomerTakeSeat(c) \/ CustomerStandWait(c)
       \/ CustomerRequestCake(c) \/ CustomerGetCake(c) \/ CustomerGetReceipt(c)
       \/ CustomerLeaveSofa(c) \/ CustomerNotifyNext(c) \/ CustomerLeaveShop(c)
    /\ CustomerUnchanged(c)

-----------------------------------------------------------------------------
(* Chef thread, lines 384-460.                                             *)

ChefVarsUnchangedBy == <<now, running, inShop, onSofa, sofaBuf, sofaRear, standBuf,
                         standFront, standRear, canSit, sitTime, cpc, cTime, handoff>>

(* A chef at the top of its loop with nothing to do sleeps 50 ms and looks *)
(* again (lines 453-454); until a tick or another thread changes the state *)
(* it finds the same, so the poll changes nothing and is left out.        *)
ChefIdle == (running \/ inShop > 0) /\ ReadyPayments = {} /\ (IsSofaEmpty \/ ovens = 0)

(* Line 387, read without a lock: leave when the simulation is over and   *)
(* the shop is empty.                                                      *)
ChefLoop(h) ==
    /\ hpc[h] = "loop" /\ ~ChefIdle
    /\ hpc' = [hpc EXCEPT ![h] = IF running \/ inShop > 0 THEN "pay" ELSE "done"]
    /\ UNCHANGED <<sofaFront, payQueue, ovens, cash, cakeReady, payAccepted,
                   syncTime, hCust, hTime>>

(* Seeded fault: get_next_payment without line 276.                        *)
ChefGetPaymentUnmarked(h) ==
    /\ hpc[h] = "pay"
    /\ IF ReadyPayments # {}
       THEN /\ hCust' = [hCust EXCEPT ![h] = payQueue[NextPayment].cust]
            /\ hTime' = [hTime EXCEPT ![h] = payQueue[NextPayment].payTime]
            /\ hpc' = [hpc EXCEPT ![h] = "cashWait"]
            /\ UNCHANGED payQueue
       ELSE /\ hpc' = [hpc EXCEPT ![h] = "peek"]
            /\ UNCHANGED <<payQueue, hCust, hTime>>
    /\ UNCHANGED <<sofaFront, ovens, cash, cakeReady, payAccepted, syncTime>>

(* Line 391, get_next_payment (257-283): take the next due payment and    *)
(* mark it processed, all under payment_queue_mutex.                      *)
ChefGetPayment(h) ==
    /\ hpc[h] = "pay"
    /\ IF ReadyPayments # {}
       THEN /\ hCust' = [hCust EXCEPT ![h] = payQueue[NextPayment].cust]
            /\ hTime' = [hTime EXCEPT ![h] = payQueue[NextPayment].payTime]
            /\ payQueue' = [payQueue EXCEPT ![NextPayment].processed = TRUE]
            /\ hpc' = [hpc EXCEPT ![h] = "cashWait"]
       ELSE /\ hpc' = [hpc EXCEPT ![h] = "peek"]
            /\ UNCHANGED <<payQueue, hCust, hTime>>
    /\ UNCHANGED <<sofaFront, ovens, cash, cakeReady, payAccepted, syncTime>>

(* Lines 392-400: wait until pay_time + 1, then sem_wait(cash_register);  *)
(* the acceptance lasts until actual_start + 2.                           *)
ChefAcceptStart(h) ==
    /\ hpc[h] = "cashWait" /\ now >= hTime[h] + 1 /\ cash > 0
    /\ cash' = cash - 1
    /\ hTime' = [hTime EXCEPT ![h] = now + 2]
    /\ hpc' = [hpc EXCEPT ![h] = "accepting"]
    /\ UNCHANGED <<sofaFront, payQueue, ovens, cakeReady, payAccepted, syncTime, hCust>>

ChefAcceptEnd(h) ==
    /\ hpc[h] = "accepting" /\ now >= hTime[h]
    /\ cash' = cash + 1
    /\ SignalPaymentAccepted(hCust[h], now)
    /\ hpc' = [hpc EXCEPT ![h] = "loop"]
    /\ UNCHANGED <<sofaFront, payQueue, ovens, cakeReady, hCust, hTime>>

(* Lines 414-418: look at the sofa queue under sofa_mutex.               *)
ChefPeek(h) ==
    /\ hpc[h] = "peek"
    /\ hpc' = [hpc EXCEPT ![h] = IF IsSofaEmpty THEN "loop" ELSE "oven"]
    /\ UNCHANGED <<sofaFront, payQueue, ovens, cash, cakeReady, payAccepted,
                   syncTime, hCust, hTime>>

(* Line 419: sem_trywait(&ovens).                                          *)
ChefTryOven(h) ==
    /\ hpc[h] = "oven"
    /\ IF ovens > 0
       THEN ovens' = ovens - 1 /\ hpc' = [hpc EXCEPT ![h] = "take"]
       ELSE UNCHANGED ovens /\ hpc' = [hpc EXCEPT ![h] = "loop"]
    /\ UNCHANGED <<sofaFront, payQueue, cash, cakeReady, payAccepted, syncTime,
                   hCust, hTime>>

(* Lines 420-426 and 446-449: under sofa_mutex take the oldest request,  *)
(* or give the oven back when another chef emptied the queue.             *)
ChefTake(h) ==
    /\ hpc[h] = "take"
    /\ IF ~IsSofaEmpty
       THEN /\ DequeueSofa
            /\ hCust' = [hCust EXCEPT ![h] = sofaBuf[sofaFront].cust]
            /\ hTime' = [hTime EXCEPT ![h] = sofaBuf[sofaFront].req]
            /\ hpc' = [hpc EXCEPT ![h] = "bakeWait"]
            /\ UNCHANGED ovens
       ELSE /\ ovens' = ovens + 1
            /\ hpc' = [hpc EXCEPT ![h] = "loop"]
            /\ UNCHANGED <<sofaFront, hCust, hTime>>
    /\ UNCHANGED <<payQueue, cash, cakeReady, payAccepted, syncTime>>

(* Lines 427-435: wait until request_time + 1; baking lasts 2.           *)
ChefBakeStart(h) ==
    /\ hpc[h] = "bakeWait" /\ now >= hTime[h] + 1
    /\ hTime' = [hTime EXCEPT ![h] = now + 2]
    /\ hpc' = [hpc EXCEPT ![h] = "baking"]
    /\ UNCHANGED <<sofaFront, payQueue, ovens, cash, cakeReady, payAccepted,
                   syncTime, hCust>>

(* Lines 436-445: signal_cake_ready (230-236), add_payment_request       *)
(* (247-254) for the same time, sem_post(&ovens).                         *)
ChefBakeEnd(h) ==
    /\ hpc[h] = "baking" /\ now >= hTime[h]
    /\ SignalCakeReady(hCust[h], now)
    /\ AddPaymentRequest(hCust[h], now)
    /\ ovens' = ovens + 1
    /\ hpc' = [hpc EXCEPT ![h] = "loop"]
    /\ UNCHANGED <<sofaFront, cash, payAccepted, hCust, hTime>>

ChefWork(h) ==
    /\ \/ ChefLoop(h) \/ ChefGetPayment(h) \/ ChefAcceptStart(h)
       \/ ChefAcceptEnd(h) \/ ChefPeek(h) \/ ChefTryOven(h) \/ ChefTake(h)
       \/ ChefBakeStart(h) \/ ChefBakeEnd(h)
    /\ UNCHANGED ChefVarsUnchangedBy

-----------------------------------------------------------------------------
(* Main and the time thread.                                               *)

(* Lines 522-526: once every customer thread has returned, main clears   *)
(* simulation_running.                                                     *)
MainStop ==
    /\ running /\ \A c \in Customers : cpc[c] \in {"done", "gone"}
    /\ running' = FALSE
    /\ UNCHANGED <<now, inShop, onSofa, sofaBuf, sofaFront, sofaRear, standBuf,
                   standFront, standRear, canSit, sitTime, cakeReady, payAccepted,
                   syncTime, payQueue, ovens, cash, cpc, cTime, handoff, hpc,
                   hCust, hTime>>

(* Lines 528-533: main has joined the chefs and cancels the time thread.  *)
Finished == ~running /\ \A h \in Chefs : hpc[h] = "done"

(* No thread can move at the current time: customers and chefs wait on a *)
(* time, a semaphore or a condition, and main on a join.                  *)
Quiescent ==
    /\ \A c \in Customers : ~ENABLED CustomerStep(c)
    /\ \A h \in Chefs : ~ENABLED ChefWork(h)
    /\ ~ENABLED MainStop

(* Lines 466-471: current_time runs from 0 to max_time + 200.             *)
Tick ==
    /\ now < TimeLimit /\ ~Finished /\ Quiescent
    /\ now' = now + 1
    /\ UNCHANGED <<running, inShop, onSofa, sofaBuf, sofaFront, sofaRear, standBuf,
                   standFront, standRear, canSit, sitTime, cakeReady, payAccepted,
                   syncTime, payQueue, ovens, cash, cpc, cTime, handoff, hpc,
                   hCust, hTime>>

(* init_customer_sync (210-220): every slot's flags false, times -1.       *)
InitCustomerSync ==
    /\ canSit = [s \in Slots |-> FALSE] /\ cakeReady = [s \in Slots |-> FALSE]
    /\ payAccepted = [s \in Slots |-> FALSE]
    /\ sitTime = [s \in Slots |-> -1] /\ syncTime = [s \in Slots |-> -1]

(* init_bakery (180-197), init_customer_sync (210-220) and main's thread  *)
(* creation (501-520).                                                     *)
Init ==
    /\ now = 0 /\ running = TRUE /\ inShop = 0 /\ onSofa = 0
    /\ sofaBuf = [i \in 0 .. SofaCapacity - 1 |-> [cust |-> NoCustomer, req |-> 0]]
    /\ sofaFront = 0 /\ sofaRear = 0
    /\ standBuf = [i \in 0 .. MaxCustomers - 1 |-> NoCustomer]
    /\ standFront = 0 /\ standRear = 0
    /\ InitCustomerSync
    /\ payQueue = <<>>
    /\ ovens = NumOvens /\ cash = 1
    /\ cpc = [c \in Customers |-> "arrive"] /\ cTime = [c \in Customers |-> 0]
    /\ handoff = [c \in Customers |-> NoCustomer]
    /\ hpc = [h \in Chefs |-> "loop"]
    /\ hCust = [h \in Chefs |-> NoCustomer] /\ hTime = [h \in Chefs |-> 0]

Next ==
    \/ \E c \in Customers : CustomerStep(c)
    \/ \E h \in Chefs : ChefWork(h)
    \/ MainStop
    \/ Tick

(* Every thread that can run eventually does: the pthreads scheduler runs *)
(* every runnable thread, and the waits are polls or condition waits that *)
(* recheck their condition.                                                *)
Fairness ==
    /\ \A c \in Customers : WF_vars(CustomerStep(c))
    /\ \A h \in Chefs : WF_vars(ChefWork(h))
    /\ WF_vars(MainStop)
    /\ WF_vars(Tick)

Spec == Init /\ [][Next]_vars /\ Fairness

-----------------------------------------------------------------------------
(* Properties.                                                             *)

(* The entries between front and rear of each ring.                        *)
RingIndices(front, rear, size) == {(front + k) % size : k \in 0 .. ((rear - front) % size) - 1}
StandingQueue == {standBuf[i] : i \in RingIndices(standFront, standRear, MaxCustomers)}
SofaQueue == {sofaBuf[i].cust : i \in RingIndices(sofaFront, sofaRear, SofaCapacity)}

(* The customers that hold a sofa place: seated ones, and standing ones a *)
(* leaving customer has taken from the standing queue and not yet woken.  *)
SofaHolders ==
    {c \in Customers : cpc[c] \in {"seated", "waitCake", "waitPay", "leaveSofa"}
                       \/ (cpc[c] = "standing" /\ c \notin StandingQueue)}

(* customers_on_sofa counts exactly the customers holding a place and     *)
(* never exceeds SOFA_CAPACITY, through the hand-over of lines 364-370    *)
(* where a leaving customer passes its place to a standing one.           *)
SofaSeatsAccounted ==
    onSofa = Cardinality(SofaHolders) /\ onSofa <= SofaCapacity

(* The cake requests the chefs can see in sofa_queue are exactly those of *)
(* the customers waiting for a cake that no chef has taken yet (lines     *)
(* 338 and 414-422).                                                       *)
SofaRequestsVisible ==
    SofaQueue = {c \in Customers :
                    /\ cpc[c] = "waitCake" /\ ~cakeReady[SyncSlot[c]]
                    /\ \A h \in Chefs : ~(hpc[h] \in {"bakeWait", "baking"} /\ hCust[h] = c)}

(* No customer is baked for or served at the register twice: at most one  *)
(* chef works on a customer's cake, and none once it is ready; likewise   *)
(* for its payment (get_next_payment marks a request processed, line 276,*)
(* and dequeue_sofa removes a request).                                   *)
ServedOnce ==
    \A c \in Customers :
        LET Working(pcs) == Cardinality({h \in Chefs : hpc[h] \in pcs /\ hCust[h] = c})
        IN  /\ Working({"bakeWait", "baking"}) + (IF cakeReady[SyncSlot[c]] THEN 1 ELSE 0) <= 1
            /\ Working({"cashWait", "accepting"}) + (IF payAccepted[SyncSlot[c]] THEN 1 ELSE 0) <= 1

-----------------------------------------------------------------------------
(* Refinement of BakeryCustomers.  A customer's phase is read off its pc  *)
(* and its customer_sync flags; a standing customer already taken off the *)
(* standing queue holds a place and counts as seated; the standing queue  *)
(* is the ring read from front to rear.                                   *)

CustomerPhase ==
    [c \in Customers |->
        CASE cpc[c] = "arrive" -> "outside"
          [] cpc[c] = "gone" -> "turnedAway"
          [] cpc[c] = "entered" -> "entering"
          [] cpc[c] = "standing" /\ c \in StandingQueue -> "standing"
          [] cpc[c] \in {"notify", "exit"} -> "leaving"
          [] cpc[c] = "done" -> "left"
          [] payAccepted[SyncSlot[c]] -> "paid"
          [] cakeReady[SyncSlot[c]] -> "served"
          [] OTHER -> "seated"]

StandingSeq ==
    [i \in 1 .. (standRear - standFront) % MaxCustomers |->
        standBuf[(standFront + i - 1) % MaxCustomers]]

Customer == INSTANCE BakeryCustomers WITH phase <- CustomerPhase, standing <- StandingSeq

(* Every run of the threads is a run of BakeryCustomers: customers are    *)
(* turned away only from a full shop, sit only on a free place and stand  *)
(* only when none is free, are baked for only while holding a place, pay  *)
(* after their cake, and a freed place goes to the customer that has      *)
(* stood longest (the standing ring of lines 96-109 and the hand-over of  *)
(* lines 364-370).                                                         *)
CustomerLifecycle == Customer!SafetySpec

====
