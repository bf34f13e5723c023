CONSTANTS
    c1 = c1  c2 = c2  c3 = c3  c4 = c4  c5 = c5  h1 = h1  h2 = h2  h3 = h3
    NoCustomer = NoCustomer
    Customers = {c1, c2, c3, c4, c5}
    Chefs = {h1, h2, h3}
    Arrival <- MCStaggered
    SyncSlot <- MCSlots
    MaxCustomers = 4
    SofaCapacity = 2
    NumOvens = 2
    TimeSlack = 200
SPECIFICATION Spec
INVARIANTS TypeOK SofaSeatsAccounted ServedOnce
PROPERTIES  CustomerLifecycle
\* The program ends once main has joined every thread (Finished); a state
\* with no successor before that is a hang, which VisibleRequestsServed reports when a request is left.
CHECK_DEADLOCK FALSE
