------------------------------ MODULE MCBakery ------------------------------
(* Instances of Bakery for TLC: five customers, three chefs, two ovens, a *)
(* sofa of two and a shop of four, with the code's 200 units of slack.    *)
EXTENDS Bakery, TLC

CONSTANTS c1, c2, c3, c4, c5, h1, h2, h3

(* c1 is served alone; c2 waits for the oven; c3 and c4 find the sofa    *)
(* full and stand until c1 and c2 leave; of c4 and c5, arriving together, *)
(* the second to enter finds the shop full.                               *)
MCStaggered == (c1 :> 0) @@ (c2 :> 3) @@ (c3 :> 4) @@ (c4 :> 5) @@ (c5 :> 5)

(* Two customers arriving together both request a cake before any chef    *)
(* looks at the sofa queue.                                                *)
MCTogether == (c1 :> 0) @@ (c2 :> 0)

(* Distinct ids, so distinct customer_sync entries.                        *)
MCSlots == (c1 :> 1) @@ (c2 :> 2) @@ (c3 :> 3) @@ (c4 :> 4) @@ (c5 :> 5)
MCSlotsTogether == (c1 :> 1) @@ (c2 :> 2)

====
