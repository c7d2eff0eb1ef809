CONSTANTS
    N = 4
    MaxView = 5
    Payloads = {TRUE, FALSE}
    MaxLate = 1
    BadViews = {1}
    MaxCrash = 0
SPECIFICATION RoundsSpec
INVARIANTS
    UniqueQCPerView
    TypeOK
    QCBacked
    NoViewUnderflow
    OneBlockPerView
    CertifiedValid
CHECK_DEADLOCK FALSE
