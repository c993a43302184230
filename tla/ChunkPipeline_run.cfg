SPECIFICATION Spec
CONSTANTS
    Floor = 1
    Ceiling = 6
    Types = {"text", "pdf", "image"}
    Pages <- MCPages
    Config <- MCConfig
    Widths = {1, 2}
    MaxLLM = 1
    Faults = {"crash", "llm", "notify", "redis", "cancel"}
    MaxFaults = 2
CHECK_DEADLOCK FALSE
INVARIANTS TypeOK DocumentIsWhole CheckpointsAreTranslations
PROPERTIES ProgressIsCurrent ResultIsLastWrite RunEnds
