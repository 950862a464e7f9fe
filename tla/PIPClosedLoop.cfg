CONSTANTS
    Full = 100
    Budgets = {150, 200}
    Powers <- PowersDef
    Samples = {"ok"}
    WriteErrors = {FALSE}
    Loads <- LoadsDef
    Idle = 60
    Span <- SpanDef
    ModelErrors <- ErrorsDef
    ErrorBound = 20
    Scale = 10
    MaxChanges = 2
SPECIFICATION FairLoopSpec
INVARIANT OffsetBounded
PROPERTIES OvershootBounded SearchMeetsBudget CriticalOnlyForShortfall OverloadEnds LightLoadRecovers CriticalStaysFull
