SPECIFICATION Spec
CONSTANTS
    c1 = c1
    c2 = c2
    c3 = c3
    p1 = p1
    p2 = p2
    basic = basic
    pro = pro
    Trial = Trial
    None = None
    Call <- Calls
    Payment <- Payments
    paymentOf <- PaymentOf
    offerOf <- SameOffer
    StripePayment <- AllStripe
    Window = 1
    MaxTime = 3
INVARIANT PaymentProcessedOnce
CHECK_DEADLOCK FALSE
