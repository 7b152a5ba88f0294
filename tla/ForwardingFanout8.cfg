CONSTANT
    Networks <- Fanout8
SPECIFICATION Spec
PROPERTIES
    Delivered
CHECK_DEADLOCK FALSE
