SPECIFICATION Spec
CONSTANTS
    a = a
    b = b
    c1 = c1
    c2 = c2
    sync1 = sync1
    sync2 = sync2
    cancel1 = cancel1
    walkin = walkin
    desk1 = desk1
    NoCheckout = NoCheckout
    Checkout = {c1, c2}
    Group = {1, 2, 3, 4}
    CheckoutOf <- MCCheckoutOf
    Hours <- MCHours
    Request = {sync1, sync2, cancel1, walkin, desk1}
    Kind <- MCKind
    Subject <- MCSubject
    Notice <- MCNotice
INVARIANTS
    TypeOK
    HoursExclusive
    OneLockOrder
PROPERTIES
    OnlyHoldsExpire
    BookedTogether
CHECK_DEADLOCK FALSE
