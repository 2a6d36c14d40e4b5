CONSTANTS
    Key <- MCKey
    Name <- MCName
    Atom <- MCAtom
    Split <- MCSplit
    MaxDepth = 3
    Docs <- MCDocs
    Filters <- MCFilters
    NoResult = NoResult

SPECIFICATION Spec

INVARIANTS
    OnlyListedIsIncluded
    ExactlyListedIsIncluded
    ExactlyNamedIsExcluded
    FilteredStays

\* One response: the filter runs once.
CHECK_DEADLOCK FALSE
