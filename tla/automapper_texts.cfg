\* Short texts of every command, well and badly written, and what they do to
\* a square layer and a wide one.
SPECIFICATION Spec
CONSTANTS
    Files <- Texts
    Layers <- SomeLayers
    Hash <- SomeHash
    HashMax = 8
INVARIANTS
    DefaultRuleOnce
    EndedListsAccepted
PROPERTIES
    RunsReadTheirCopy
    LintedFilesParse
\* The reader stops at the end of the text, the mapper after the last run.
CHECK_DEADLOCK FALSE
