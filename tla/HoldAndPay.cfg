SPECIFICATION ViewsSpec
CONSTANTS
    a = a
    b = b
    c1 = c1
    c2 = c2
    g1 = g1
    g2 = g2
    g3 = g3
    w = w
    m = m
    u1 = u1
    u2 = u2
    NoCheckout = NoCheckout
    Cell = {a, b}
    Group = {g1, g2, g3, w, m}
    Checkout = {c1, c2}
    Closure = {{m}}
    CellsOf <- MCCellsOf
    CheckoutOf <- MCCheckoutOf
    StartsAt <- MCHourApart
    Customer = {u1, u2}
    CustomerOf <- MCCustomerOf
    Session = {1}
    PageOutcome = {"PAYMENT_SUCCESS", "PAYMENT_FAILED", "PAYMENT_EXPIRED"}
    DeskOps = {}
    MaxDesk = 0
    HoldTicks = 1
    LeadTicks = 2
    HorizonTicks = 4
    HourTicks = 1
    SessionTicks = 2
    MaxHolds = 1
    MaxTime = 4
INVARIANTS
    TypeOK
    NoDoubleBooking
    LiveHoldIsWhole
    GridKeepsItsWord
    OneStory
PROPERTIES
    SoldTogether
    KeepsCalendar
    LastWordStands
CHECK_DEADLOCK FALSE
