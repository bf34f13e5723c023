\* Two customers arrive together; with a sofa of two, both requests can be
\* queued before a chef looks, and the full ring then reads as empty.
CONSTANTS
    c1 = c1  c2 = c2  c3 = c3  c4 = c4  c5 = c5  h1 = h1  h2 = h2  h3 = h3
    NoCustomer = NoCustomer
    Customers = {c1, c2}
    Chefs = {h1, h2}
    Arrival <- MCTogether
    SyncSlot <- MCSlotsTogether
    MaxCustomers = 3
    SofaCapacity = 2
    NumOvens = 2
    TimeSlack = 200
SPECIFICATION Spec
INVARIANT SofaRequestsVisible
CHECK_DEADLOCK FALSE
