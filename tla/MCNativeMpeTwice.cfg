SPECIFICATION MpeSpec
CONSTANT
    NCpu = 4
INVARIANT
    DevicesOnce
CHECK_DEADLOCK FALSE
