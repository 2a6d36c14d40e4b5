CONSTANTS
    Character <- Characters
    UpperOf <- MCUpperOf
    LowerOf <- MCLowerOf
    RouteQueries <- MCRouteQueries
    HostQueries <- MCHostQueries
    NoAnswer = NoAnswer

SPECIFICATION Spec

INVARIANTS
    RouteStandsForItsPaths
    SlashesAtTheEndsDoNotMatter
    NamedHostsAreAccepted

\* One question: it is answered once.
CHECK_DEADLOCK FALSE
