SPECIFICATION Spec
INVARIANTS NoDanglingRead LoopHasWork TimersDoNotPileUp
PROPERTIES  TimeoutIsReal ReadEnds
