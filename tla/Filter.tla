------------------------------- MODULE Filter -------------------------------
(***************************************************************************)
(* The response filter (internal/policy/filter/filter.go): what Apply      *)
(* makes of a JSON document, for an include list and for an exclude list.  *)
(*                                                                         *)
(* A document is a tagged record.  The text of a field is a sequence of    *)
(* names, "*", "[]" and "."; it is parsed as the code parses it.  The key  *)
(* of an object may have dots in it: Split gives the names between them.   *)
(***************************************************************************)
EXTENDS Naturals, Sequences, SequencesExt

CONSTANTS
    Key, Name,      \* the keys of objects, and the names between their dots
    Atom,           \* JSON values but null, objects and arrays
    Split,          \* Split[k]: what strings.Split(k, ".") makes of key k
    MaxDepth,       \* how deep documents are nested
    Docs,           \* the bodies of upstream responses
    Filters,        \* the response_filters of rules: [type, fields]
    NoResult        \* Apply has not run

\* A JSON null is a nil, which is also what the code returns for "nothing".
Null == [kind |-> "null"]
Value(v) == [kind |-> "value", is |-> v]
Absent == [kind |-> "absent"]
Object(f) == [kind |-> "object",
              at   |-> [k \in Key |-> IF k \in DOMAIN f THEN f[k] ELSE Absent]]
Array(s) == [kind |-> "array", items |-> s]

\* The keys that an object has.
Keys(at) == {k \in Key : at[k] # Absent}

\* The documents that are nested n deep at most.
Documents[n \in 0..MaxDepth] ==
    IF n = 0 THEN {Null} \union [kind : {"value"}, is : Atom]
    ELSE LET Inner == Documents[n - 1]
         IN  Inner \union [kind : {"array"}, items : Seq(Inner)]
                   \union [kind : {"object"}, at : [Key -> Inner \union {Absent}]]

Document == Documents[MaxDepth]

\* The parts of a field.
Part == Name \union {"*", "[]", "."}

\* The paths of a document: keys, and "[]" for the items of an array.
Path == Seq(Key \union {"[]"})

\* Keys that are not modelled: "", whose path the code takes for that of the top
\* of the document, and "[]", which stands for an array in the paths here.
ASSUME FilterAssumption ==
    /\ MaxDepth \in Nat
    /\ Split \in [Key -> Seq(Name) \ {<<>>}]
    /\ {"", "[]"} \intersect Key = {}
    /\ Docs \subseteq Document
    /\ \A f \in Filters : f.fields \subseteq Seq(Part)
    /\ NoResult \notin Document

VARIABLES data, filter, result

vars == <<data, filter, result>>

\* What is left of s without the places that hold x.
Without(s, x) ==
    LET left[i \in 0..Len(s)] ==
            IF i = 0 THEN <<>>
            ELSE IF s[i] = x THEN left[i - 1] ELSE Append(left[i - 1], s[i])
    IN  left[Len(s)]

ParsePathPattern(text) == Without(text, ".")

-----------------------------------------------------------------------------
(* Include lists.  A node of the tree that buildIncludeTree makes is the     *)
(* set of what is left of the fields that lead to it.                        *)

Node == SUBSET Seq(Part)

BuildIncludeTree(fields) == {ParsePathPattern(f) : f \in fields} \ {<<>>}

Child(node, part) == {Tail(f) : f \in {g \in node : g # <<>> /\ g[1] = part}}

IsTerminal(node) == <<>> \in node

\* Faulty variant of ChildOrWildcard: a key that is not listed is looked for
\* one level higher.
ChildOrParent(node, part) ==
    IF Child(node, part) # {} THEN Child(node, part) ELSE node

\* Faulty variant of ChildOrWildcard: the wildcard comes before the key's own.
WildcardOrChild(node, part) ==
    IF Child(node, "*") # {} THEN Child(node, "*") ELSE Child(node, part)

\* The node for a key or for the items of an array: its own, else the wildcard.
ChildOrWildcard(node, part) ==
    IF Child(node, part) # {} THEN Child(node, part) ELSE Child(node, "*")

\* The filter calls itself for what is in an object or an array: Inner[d][node].
FilterObject(fields, node, Inner) ==
    LET Below(k)    == ChildOrWildcard(node, k)
        Filtered(k) == IF IsTerminal(Below(k)) THEN fields[k]
                       ELSE Inner[fields[k]][Below(k)]
        kept        == {k \in Keys(fields) :
                           /\ Below(k) # {}
                           /\ IsTerminal(Below(k)) \/ Filtered(k) # Null}
    IN  IF kept = {} THEN Null ELSE Object([k \in kept |-> Filtered(k)])

\* Faulty variant of FilterArray: an empty array is left out before, not after,
\* its items are filtered.
FilterNonemptyArray(items, node, Inner) ==
    LET below == ChildOrWildcard(node, "[]")
    IN  IF below = {} \/ items = <<>> THEN Null
        ELSE Array(Without([i \in DOMAIN items |-> Inner[items[i]][below]], Null))

FilterArray(items, node, Inner) ==
    LET below == ChildOrWildcard(node, "[]")
    IN  IF below = {} THEN Null
        ELSE Array(Without([i \in DOMAIN items |-> Inner[items[i]][below]], Null))

FilterWithTree[d \in Document] ==
    [node \in Node |->
        CASE d.kind = "object" -> FilterObject(d.at, node, FilterWithTree)
          [] d.kind = "array"  -> FilterArray(d.items, node, FilterWithTree)
          [] OTHER             -> IF IsTerminal(node) THEN d ELSE Null]

-----------------------------------------------------------------------------
(* Exclude lists *)

\* match[j][i]: the path from its segment i on matches the pattern from its
\* part j on.
MatchPathSegments(path, pattern) ==
    LET match[j \in 1..(Len(pattern) + 1)] ==
            [i \in 1..(Len(path) + 1) |->
                IF j > Len(pattern) THEN i > Len(path)
                ELSE /\ i <= Len(path)
                     /\ CASE pattern[j] = "[]" -> match[j + 1][i]
                          [] pattern[j] = "*"  -> j = Len(pattern) \/ match[j + 1][i + 1]
                          [] OTHER -> path[i] = pattern[j] /\ match[j + 1][i + 1]]
    IN  match[1][1]

ShouldExclude(path, fields) ==
    \E f \in fields : MatchPathSegments(path, ParsePathPattern(f))

\* The keys of an object at path that stay.
Kept(fields, at, path) == {k \in Keys(at) : ~ShouldExclude(path \o Split[k], fields)}

\* Faulty variant of ExcludeRecursive: the items of an array are not visited.
ExcludeInObjects(doc, fields) ==
    LET exclude[d \in Document] ==
            [path \in Seq(Name) |->
                IF d.kind # "object" THEN d
                ELSE Object([k \in Kept(fields, d.at, path) |->
                                exclude[d.at[k]][path \o Split[k]]])]
    IN  exclude[doc][<<>>]

\* The path has the names that lead to a value; items of an array have the
\* path of the array.
ExcludeRecursive(doc, fields) ==
    LET exclude[d \in Document] ==
            [path \in Seq(Name) |->
                CASE d.kind = "object" ->
                       Object([k \in Kept(fields, d.at, path) |->
                                  exclude[d.at[k]][path \o Split[k]]])
                  [] d.kind = "array" ->
                       Array([i \in DOMAIN d.items |-> exclude[d.items[i]][path]])
                  [] OTHER -> d]
    IN  exclude[doc][<<>>]

-----------------------------------------------------------------------------

\* Whatever is not an include list is an exclude list.
Apply(d, f) ==
    IF f.type = "include_fields" THEN FilterWithTree[d][BuildIncludeTree(f.fields)]
    ELSE ExcludeRecursive(d, f.fields)

Init ==
    /\ data \in Docs
    /\ filter \in Filters
    /\ result = NoResult

\* ApplyFilter of the engine, for one response.
ApplyFilter ==
    /\ result = NoResult
    /\ result' = Apply(data, filter)
    /\ UNCHANGED <<data, filter>>

Next == ApplyFilter

Spec == Init /\ [][Next]_vars

-----------------------------------------------------------------------------
(* Properties.  They are stated on the paths of a document: the keys, and    *)
(* "[]" for an array, that lead to a value.                                  *)

Including == filter.type = "include_fields"

\* The paths from an object or array, for those from what is below part.
Under(part, leaves) == {<<<<part>> \o l[1], l[2]>> : l \in leaves}

\* The values of a document, each with its path.
Leaves[d \in Document] ==
    CASE d.kind = "object" -> UNION {Under(k, Leaves[d.at[k]]) : k \in Keys(d.at)}
      [] d.kind = "array"  -> UNION {Under("[]", Leaves[d.items[i]]) : i \in DOMAIN d.items}
      [] d.kind = "value"  -> {<<<<>>, d.is>>}
      [] OTHER             -> {}

\* Field f leads to path or to something that contains it.
Covers(f, path) ==
    LET p == ParsePathPattern(f) IN
    /\ p # <<>> /\ Len(p) <= Len(path)
    /\ \A i \in 1..Len(p) : p[i] \in {path[i], "*"}

\* A field that is like f before one of the wildcards of f names there what path
\* has: it is the one that decides about path.
Overridden(f, fields, path) ==
    LET p == ParsePathPattern(f)
        OwnName(g, i) == /\ i <= Len(g) /\ g[i] = path[i]
                         /\ \A j \in 1..(i - 1) : g[j] = p[j]
    IN  \E i \in 1..Len(p), g \in fields :
           p[i] # path[i] /\ OwnName(ParsePathPattern(g), i)

\* Field f leads to an array that is a part of the way of path, not its end.
StopsAtItems(f, path) ==
    LET p == ParsePathPattern(f)
    IN  Covers(f, path) /\ Len(p) < Len(path) /\ path[Len(p)] = "[]"

Increasing(at) == \A i, j \in DOMAIN at : i < j => at[i] < at[j]

\* PartOf[d][r]: r is made of d by leaving out fields and items; nothing is
\* added, moved or changed.
PartOf[d \in Document] ==
    [r \in Document |->
        \/ r \in {d, Null}
        \/ /\ r.kind = "object" /\ d.kind = "object"
           /\ Keys(r.at) \subseteq Keys(d.at)
           /\ \A k \in Keys(r.at) : PartOf[d.at[k]][r.at[k]]
        \/ /\ r.kind = "array" /\ d.kind = "array"
           /\ \E at \in [DOMAIN r.items -> DOMAIN d.items] :
                 /\ Increasing(at)
                 /\ \A i \in DOMAIN r.items : PartOf[d.items[at[i]]][r.items[i]]]

\* An include list lets nothing through that it does not list, at any depth of
\* objects and arrays, and with wildcards (filterWithTree).
OnlyListedIsIncluded ==
    (result # NoResult /\ Including) =>
        /\ PartOf[data][result]
        /\ \A l \in Leaves[result] : \E f \in filter.fields : Covers(f, l[1])

\* An include list keeps exactly the values that a field of it leads to, where
\* the own name of a key or "[]" overrides a wildcard (filterWithTree), if no
\* field stops at items of an array that have more in them.
ExactlyListedIsIncluded ==
    (/\ result # NoResult /\ Including
     /\ \A l \in Leaves[data], f \in filter.fields : ~StopsAtItems(f, l[1])) =>
        Leaves[result] =
             {l \in Leaves[data] :
                \E f \in filter.fields :
                    Covers(f, l[1]) /\ ~Overridden(f, filter.fields, l[1])}

\* A field names a key: the names that lead to it, without the arrays on the
\* way, are those of the field.
Names(path) == FlattenSeq([i \in DOMAIN path |-> IF path[i] = "[]" THEN <<>>
                                                 ELSE Split[path[i]]])

Denotes(f, path) ==
    LET p == Without(ParsePathPattern(f), "[]")
        n == Names(path)
    IN  /\ path # <<>> /\ path[Len(path)] # "[]"
        /\ \/ Len(n) = Len(p)
           \/ Len(n) > Len(p) /\ Len(p) > 0 /\ p[Len(p)] = "*"
        /\ \A i \in 1..Len(p) : p[i] \in {n[i], "*"}

\* A field that ends with what stands for the items of an array.
EndsInArray(f) ==
    LET p == ParsePathPattern(f) IN p # <<>> /\ p[Len(p)] = "[]"

\* An exclude list, and any filter of another type, removes exactly the keys
\* that its fields name, wherever they are in objects and arrays
\* (excludeRecursive), if all its fields name keys.
ExactlyNamedIsExcluded ==
    (/\ result # NoResult /\ ~Including
     /\ \A f \in filter.fields : ~EndsInArray(f)) =>
        /\ PartOf[data][result]
        /\ Leaves[result] =
             {l \in Leaves[data] :
                ~\E f \in filter.fields, i \in 1..Len(l[1]) :
                    Denotes(f, SubSeq(l[1], 1, i))}

\* A response that was filtered is not changed by the same filter: what is left
\* out does not decide about what stays.
FilteredStays == result # NoResult => Apply(result, filter) = result

-----------------------------------------------------------------------------
(* What the documentation says and the code does otherwise.                *)

\* README.md:213: "remove listed fields": no value that a field of an exclude
\* list leads to stays.
ListedIsRemoved ==
    (result # NoResult /\ filter.type = "exclude_fields") =>
        \A l \in Leaves[result], f \in filter.fields : ~Covers(f, l[1])
=============================================================================
