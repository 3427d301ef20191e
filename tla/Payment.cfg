SPECIFICATION FairSpec
CONSTANTS
    c1 = c1
    c2 = c2
    c3 = c3
    p1 = p1
    p2 = p2
    basic = basic
    pro = pro
    Trial = Trial
    None = None
    Call <- Calls
    Payment <- Payments
    paymentOf <- PaymentOf
    offerOf <- OtherOffer
    StripePayment <- AllStripe
    Window = 1
    MaxTime = 2
INVARIANTS TypeOK SameRequestFarApart NeverWithoutService StripeCancelExplained
PROPERTIES CallsEnd ImplementsLedger
CHECK_DEADLOCK FALSE
