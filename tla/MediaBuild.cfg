SPECIFICATION Spec
CONSTANTS
    Model <- MCModel
    Target <- MCTarget
    Tree <- MCTree
    Arm = {"TS-X31P"}
    Ko = {"dvb-core.ko", "rc-core.ko"}
    Failing = TRUE
INVARIANTS TypeOK KoFitsItsDirectory ConfigIsKept GoodRunDelivers
