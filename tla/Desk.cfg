SPECIFICATION FairSpec
CONSTANTS
    a = a
    b = b
    c1 = c1
    c2 = c2
    g1 = g1
    g2 = g2
    g3 = g3
    w = w
    m = m
    u1 = u1
    u2 = u2
    NoCheckout = NoCheckout
    Cell = {a, b}
    Group = {g1, g2, w}
    Checkout = {c1}
    Closure = {}
    CellsOf <- MCCellsOf
    CheckoutOf <- MCCheckoutOf
    StartsAt <- MCStartsAt
    Customer = {u1, u2}
    CustomerOf <- MCCustomerOf
    Session = {1}
    PageOutcome = {"PAYMENT_SUCCESS", "PAYMENT_SUCCESS, amiss"}
    DeskOps = {"CANCELLED", "COMPLETED", "resolve", "mark_paid"}
    MaxDesk = 2
    HoldTicks = 1
    LeadTicks = 0
    HorizonTicks = 2
    HourTicks = 1
    MaxHolds = 1
    MaxTime = 3
INVARIANTS
    NoDoubleBooking
PROPERTIES
    PaidIsFinal
    PaidHoursKept
    CapturedMoneySettles
CHECK_DEADLOCK FALSE
