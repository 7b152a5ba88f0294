CONSTANT
    Networks <- Shipped
SPECIFICATION Spec
INVARIANTS
    TypeOK
    EcmpSpreads
PROPERTIES
    Delivered
CHECK_DEADLOCK FALSE
