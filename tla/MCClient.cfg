SPECIFICATION MCSpec
CONSTANTS
    Chosen = {"endpoint", "transport", "segmented", "fetch"}
    c1 = c1
    c2 = c2
    p1 = p1
    p2 = p2
    p3 = p3
    p4 = p4
    t = t
INVARIANTS   SegmentsTracked
PROPERTIES  FetchesEnd
CHECK_DEADLOCK FALSE
