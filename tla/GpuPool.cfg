SPECIFICATION FairSpec
CONSTANTS
    None = None
    Card = {"g0", "g1"}
    Member = {"a", "b", "c"}
    Wants <- AllWants
PROPERTIES NoStarvation
