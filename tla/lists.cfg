SPECIFICATION FairSpec
CONSTANTS
    Item = {t1, t2, t3}
    List = {l1, l2, l3}
    None = None
INVARIANTS LinksMirror NoDangling NeverAborts InListExact
PROPERTIES ImplementsLists ClearEnds
