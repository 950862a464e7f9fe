CONSTANTS
    Full = 100
    Budgets = {150, 200}
    Powers <- PowersDef
    Samples = {"ok"}
    WriteErrors = {FALSE}
    Loads <- LoadsDef
    Idle = 60
    Span <- SpanDef
    ModelErrors = {0}
    ErrorBound = 0
    Scale = 10
    MaxChanges = 2
SPECIFICATION LoopSpec
PROPERTY CriticalOnlyIfNeeded
