--------------------------- MODULE BakeryCustomers ---------------------------
(***************************************************************************)
(* What the bakery of src/C/hotel.c promises its customers, with the      *)
(* threads, clock, rings and semaphores left out.  A customer is outside, *)
(* turned away, entering, standing, seated (waiting for a cake), served   *)
(* (cake ready, payment not yet accepted), paid, leaving (place given up) *)
(* or gone.  The shop holds MaxCustomers, the sofa SofaCapacity; who      *)
(* cannot sit stands, and a freed place goes to whoever has stood longest.*)
(***************************************************************************)
EXTENDS Integers, Sequences, FiniteSets

CONSTANTS Customers, MaxCustomers, SofaCapacity

VARIABLES
    phase,     \* customer -> where it is in its visit
    standing   \* the standing customers, longest-waiting first

vars == <<phase, standing>>

Phases == {"outside", "turnedAway", "entering", "standing", "seated", "served",
           "paid", "leaving", "left"}

InShop == {c \in Customers : phase[c] \in {"entering", "standing", "seated",
                                             "served", "paid", "leaving"}}
Holders == {c \in Customers : phase[c] \in {"seated", "served", "paid"}}

Init ==
    /\ phase = [c \in Customers |-> "outside"]
    /\ standing = <<>>

(* hotel.c 297-304: a full shop turns the customer away.                   *)
Enter(c) ==
    /\ phase[c] = "outside"
    /\ phase' = [phase EXCEPT ![c] = IF Cardinality(InShop) < MaxCustomers
                                      THEN "entering" ELSE "turnedAway"]
    /\ UNCHANGED standing

(* hotel.c 310-319: sit if there is a free place, else stand at the back. *)
Sit(c) ==
    /\ phase[c] = "entering" /\ Cardinality(Holders) < SofaCapacity
    /\ phase' = [phase EXCEPT ![c] = "seated"]
    /\ UNCHANGED standing

Stand(c) ==
    /\ phase[c] = "entering" /\ Cardinality(Holders) >= SofaCapacity
    /\ phase' = [phase EXCEPT ![c] = "standing"]
    /\ standing' = Append(standing, c)

(* hotel.c 436-441: a seated customer's cake is baked.                     *)
Bake(c) ==
    /\ phase[c] = "seated"
    /\ phase' = [phase EXCEPT ![c] = "served"]
    /\ UNCHANGED standing

(* hotel.c 402-409: its payment is accepted.                               *)
Pay(c) ==
    /\ phase[c] = "served"
    /\ phase' = [phase EXCEPT ![c] = "paid"]
    /\ UNCHANGED standing

(* hotel.c 363-373: the place goes to the longest-standing customer.      *)
LeaveSofa(c) ==
    /\ phase[c] = "paid"
    /\ IF standing = <<>>
       THEN /\ phase' = [phase EXCEPT ![c] = "leaving"]
            /\ UNCHANGED standing
       ELSE /\ phase' = [phase EXCEPT ![c] = "leaving", ![Head(standing)] = "seated"]
            /\ standing' = Tail(standing)

(* hotel.c 375-377.                                                        *)
Leave(c) ==
    /\ phase[c] = "leaving"
    /\ phase' = [phase EXCEPT ![c] = "left"]
    /\ UNCHANGED standing

Next ==
    \E c \in Customers :
        \/ Enter(c) \/ Sit(c) \/ Stand(c) \/ Bake(c) \/ Pay(c)
        \/ LeaveSofa(c) \/ Leave(c)

SafetySpec == Init /\ [][Next]_vars

====
