SPECIFICATION FairSpec
CONSTANTS
    m_nThreadNum = 2
    UINT_RANGE = 3
    MaxPkts = 7
INVARIANT PopsWhatIsThere
INVARIANT InOrderOnce
PROPERTY PacketsHandled
PROPERTY DestructorReturns
PROPERTY ImplementsQueues
CHECK_DEADLOCK FALSE
