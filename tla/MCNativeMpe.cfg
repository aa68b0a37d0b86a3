SPECIFICATION MpeSpec
CONSTANT
    NCpu = 4
INVARIANTS
    MpeTypeOK
    DevicesFirst
    DistinctCpus
    BytesMatch
PROPERTY
    AllEnter
CHECK_DEADLOCK FALSE
