CONSTANTS
    Key <- MCKey
    Name <- MCName
    Atom <- MCAtom
    Split <- MCSplit
    MaxDepth = 3
    Docs <- MCDocDocs
    Filters <- MCDocFilters
    NoResult = NoResult

SPECIFICATION Spec

INVARIANT
    ListedIsRemoved

\* One response: the filter runs once.
CHECK_DEADLOCK FALSE
