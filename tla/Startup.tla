------------------------------ MODULE Startup -------------------------------
(***************************************************************************)
(* The start of the program: the options and their check (Validate and Run *)
(* in cmd/proxy/cmd/config.go), the loop of fs.New that reads the policy   *)
(* group files one by one (internal/api/fs/fs.go), the allowlist made of   *)
(* what was read and the server.  Anybody may change the files meanwhile.  *)
(* What the server then answers requests from is `groups` and `hosts`.     *)
(***************************************************************************)
EXTENDS Policy

CONSTANTS
    Path,           \* paths of policy group files
    DirPath,        \* those of the directory with a name that Glob looks for
    Lexical,        \* Lexical[S]: the paths of S in lexical order
    Options,        \* what the command line and the environment may say
    Contents,       \* what may be in a file
    Unreadable,     \* a file that cannot be read or is not the right JSON
    Absent,         \* no file
    NoUrl,          \* the host of the baseUrl ""
    NoScheme,       \* the scheme of a baseUrl without one
    Key, NoKey,     \* names of environment variables, and the empty one
    Env             \* Env[k]: the value of a variable; NoCred: none or empty

\* NoHost is the host of a baseUrl that is no URL or has no host.
PolicyFile ==
    [host: HostText \union {NoHost, NoUrl}, scheme: Scheme \union {NoScheme},
     key: Key \union {NoKey}, custom: BOOLEAN, header: BOOLEAN,
     rules: Seq(PolicyRule)]

\* The text of a file may have a defaultAction; policyGroupFile does not.
PolicyGroupFile ==
    [version: BOOLEAN, localToken: Token \union {NoToken},
     policies: Seq(PolicyFile), defaultAction: ActionText]

\* The option for the directory: not given, a directory, or text that is no
\* pattern for Glob ("[").
Directory == {"none", "directory", "malformed"}

ASSUME StartupAssumption ==
    /\ "https" \in Scheme
    /\ NoScheme \notin Scheme
    /\ NoKey \notin Key
    /\ NoUrl \notin HostText \union {NoHost}
    /\ Env \in [Key -> Cred \union {NoCred}]
    /\ Contents \subseteq PolicyGroupFile
    /\ Unreadable \notin PolicyGroupFile /\ Absent \notin PolicyGroupFile
    /\ DirPath \subseteq Path
    /\ Lexical \in [SUBSET DirPath -> Seq(Path)]
    /\ \A S \in SUBSET DirPath : IsInjective(Lexical[S]) /\ ToSet(Lexical[S]) = S
    /\ Options \subseteq
         [port: Nat, policyGroup: Seq(Path), dir: Directory, database: BOOLEAN]

VARIABLES
    options,        \* RootOptions.Config
    disk,           \* disk[p]: what file p has now
    phase,
    paths,          \* the files to load, after Validate
    read,           \* what the files read so far had, the current one last
    policies,       \* the policies of the current file so far
    hosts,          \* fileApi.hosts; seenHosts is the set of its hosts
    groups          \* fileApi.groups

vars == <<options, disk, phase, paths, read, policies, hosts, groups>>

Init ==
    /\ options \in Options
    /\ disk \in [Path -> Contents \union {Unreadable, Absent}]
    /\ phase = "options"
    /\ paths = <<>> /\ read = <<>> /\ policies = <<>> /\ hosts = <<>>
    /\ groups = <<>>

Fail == phase' = "failed"

-----------------------------------------------------------------------------
(* Options *)

Glob == Lexical[{p \in DirPath : disk[p] # Absent}]

HasFileMode == options.policyGroup # <<>> \/ options.dir # "none"

ValidPort(port) == port > 0 /\ port <= 65535

ValidOptions ==
    /\ ValidPort(options.port)
    /\ HasFileMode \/ options.database
    /\ ~(HasFileMode /\ options.database)
    /\ options.dir # "malformed"
    /\ options.dir = "directory" => Glob # <<>> \/ options.policyGroup # <<>>

Validate ==
    /\ phase = "options"
    /\ \/ /\ ValidOptions
          /\ phase' = "run"
          /\ paths' = options.policyGroup \o (IF options.dir = "none" THEN <<>> ELSE Glob)
       \/ ~ValidOptions /\ Fail /\ UNCHANGED paths
    /\ UNCHANGED <<options, disk, read, policies, hosts, groups>>

\* Database mode ends with an error, whether or not there is a database.
Run ==
    /\ phase = "run"
    /\ IF options.database THEN Fail ELSE phase' = "files"
    /\ UNCHANGED <<options, disk, paths, read, policies, hosts, groups>>

-----------------------------------------------------------------------------
(* fs.New *)

WellFormed(content) ==
    /\ content \notin {Unreadable, Absent}
    /\ content.version
    /\ content.localToken # NoToken
    /\ content.policies # <<>>
    /\ \A i \in 1..Len(content.policies) : content.policies[i].host # NoUrl

\* Faulty variant of ReadFile: a later file overrides one with its token.
ReadFileOverriding ==
    /\ phase = "files" /\ Len(read) < Len(paths)
    /\ LET content == disk[paths[Len(read) + 1]] IN
       /\ read' = Append(read, content)
       /\ IF WellFormed(content) THEN phase' = "policies" ELSE Fail
    /\ policies' = <<>>
    /\ UNCHANGED <<options, disk, paths, hosts, groups>>

\* One turn of the outer loop, up to the first policy: read, parse, validate,
\* look for the token.
ReadFile ==
    /\ phase = "files" /\ Len(read) < Len(paths)
    /\ LET content == disk[paths[Len(read) + 1]] IN
       /\ read' = Append(read, content)
       /\ IF WellFormed(content) /\ content.localToken \notin DOMAIN groups
            THEN phase' = "policies" ELSE Fail
    /\ policies' = <<>>
    /\ UNCHANGED <<options, disk, paths, hosts, groups>>

file == read[Len(read)]

\* Faulty variant of HostAndScheme: a scheme that is not there stays away.
HostAndNoScheme(pf) == [host |-> pf.host, scheme |-> pf.scheme]

HostAndScheme(pf) ==
    [host |-> pf.host, scheme |-> IF pf.scheme = NoScheme THEN "https" ELSE pf.scheme]

PolicyOf(pf) ==
    [host |-> pf.host, scheme |-> HostAndScheme(pf).scheme,
     cred |-> IF pf.key = NoKey THEN NoCred ELSE Env[pf.key],
     custom |-> pf.custom, header |-> pf.header, rules |-> pf.rules]

SeenHosts == {hosts[k].host : k \in 1..Len(hosts)}

\* Faulty variant of AddHost: a host has the scheme of its last policy.
AddOrReplaceHost(entry) ==
    hosts' = IF entry.host \in SeenHosts
               THEN [k \in 1..Len(hosts) |->
                       IF hosts[k].host = entry.host THEN entry ELSE hosts[k]]
               ELSE Append(hosts, entry)

\* Faulty variant of AddHost: only the first policy of a file counts.
AddHostOfFile(entry) ==
    hosts' = IF policies # <<>> \/ entry.host \in SeenHosts THEN hosts
             ELSE Append(hosts, entry)

AddHost(entry) ==
    hosts' = IF entry.host \in SeenHosts THEN hosts ELSE Append(hosts, entry)

\* Faulty variant of MissingEnv: a policy without a credential is refused.
EmptyEnv(pf) == pf.key = NoKey \/ Env[pf.key] = NoCred

MissingEnv(pf) == pf.key # NoKey /\ Env[pf.key] = NoCred

\* One turn of the inner loop.
LoadPolicy ==
    /\ phase = "policies" /\ Len(policies) < Len(file.policies)
    /\ LET pf == file.policies[Len(policies) + 1] IN
       \/ pf.host = NoHost /\ Fail /\ UNCHANGED <<policies, hosts>>
       \/ /\ pf.host # NoHost
          /\ AddHost(HostAndScheme(pf))
          /\ IF MissingEnv(pf) THEN Fail /\ UNCHANGED policies
             ELSE policies' = Append(policies, PolicyOf(pf)) /\ UNCHANGED phase
    /\ UNCHANGED <<options, disk, paths, read, groups>>

\* The end of the outer loop's turn.
AddGroup ==
    /\ phase = "policies" /\ Len(policies) = Len(file.policies)
    /\ groups' = [t \in DOMAIN groups \union {file.localToken} |->
                    IF t = file.localToken
                      THEN [policies |-> policies, defaultAction |-> ""]
                      ELSE groups[t]]
    /\ phase' = "files"
    /\ UNCHANGED <<options, disk, paths, read, policies, hosts>>

-----------------------------------------------------------------------------
(* The server *)

\* New has returned; an allowlist without an entry is an error.  No entry is
\* without a scheme, so the default of FromEntries is never used.
FromEntries ==
    /\ phase = "files" /\ Len(read) = Len(paths)
    /\ IF hosts = <<>> THEN Fail ELSE phase' = "loaded"
    /\ UNCHANGED <<options, disk, paths, read, policies, hosts, groups>>

\* ListenAndServe: the port may be taken.
Start ==
    /\ phase = "loaded"
    /\ phase' \in {"serving", "stopped"}
    /\ UNCHANGED <<options, disk, paths, read, policies, hosts, groups>>

\* Somebody writes or removes a file.
ChangeFile ==
    /\ \E p \in Path, content \in Contents \union {Unreadable, Absent} :
          disk' = [disk EXCEPT ![p] = content]
    /\ UNCHANGED <<options, phase, paths, read, policies, hosts, groups>>

Next == Validate \/ Run \/ ReadFile \/ LoadPolicy \/ AddGroup \/ FromEntries
        \/ Start \/ ChangeFile

Spec == Init /\ [][Next]_vars

-----------------------------------------------------------------------------
(* Properties *)

TypeOK ==
    /\ options \in Options
    /\ disk \in [Path -> Contents \union {Unreadable, Absent}]
    /\ phase \in {"options", "run", "files", "policies", "loaded", "serving",
                  "stopped", "failed"}
    /\ paths \in Seq(Path)
    /\ read \in Seq(Contents \union {Unreadable, Absent})
    /\ policies \in Seq(UpstreamPolicy)
    /\ hosts \in Seq(HostEntry)
    /\ IsTable(groups)

Loaded == phase \in {"loaded", "serving", "stopped"}

\* What a policy group file must have, and what must be there for it.
Complete(content) ==
    /\ content \in PolicyGroupFile
    /\ content.version /\ content.localToken \in Token
    /\ Len(content.policies) > 0
    /\ \A i \in 1..Len(content.policies) :
          LET pf == content.policies[i] IN
          pf.host \in HostText /\ (pf.key # NoKey => Env[pf.key] \in Cred)

SameToken(i, j) == i # j /\ read[i].localToken = read[j].localToken

GroupOf(content) ==
    [policies |-> [i \in 1..Len(content.policies) |-> PolicyOf(content.policies[i])],
     defaultAction |-> ""]

\* A server serves all files that it was given, each as it was when it was read
\* and none mixed with another, however the files change meanwhile; and only
\* complete files with different tokens (New).
ServesWhatItRead ==
    Loaded =>
        /\ Len(read) = Len(paths)
        /\ \A i \in 1..Len(read) :
              Complete(read[i]) /\ groups[read[i].localToken] = GroupOf(read[i])
        /\ ~\E i, j \in 1..Len(read) : SameToken(i, j)
        /\ DOMAIN groups = {read[i].localToken : i \in 1..Len(read)}

\* Why Validate may refuse the options of file mode; without a file given by
\* name, the directory may have had none.
Refusable ==
    \/ ~ValidPort(options.port)
    \/ options.dir = "malformed"
    \/ options.policyGroup = <<>>

\* A start fails only for options that are to be refused, for database mode, for
\* an incomplete file or for two files with one token; FromEntries never refuses
\* what New has loaded (Validate, New, FromEntries).
FailsForAReason ==
    phase = "failed" =>
        \/ options.database
        \/ paths = <<>> /\ Refusable
        \/ (\A i \in 1..Len(read) : Complete(read[i]))
              => \E i, j \in 1..Len(read) : SameToken(i, j)

\* Every policy that is served can be reached: the allowlist lets requests for
\* its host pass and the engine finds it or an earlier one.  Every entry of the
\* allowlist is there once, for a policy with its host and scheme (New).
AllowlistServesPolicies ==
    Loaded =>
        /\ \A t \in DOMAIN groups : \A i \in 1..Len(groups[t].policies) :
              LET h == groups[t].policies[i].host IN
              h \notin WildcardHost =>
                  FindHost(hosts, h) # 0 /\ GetPolicyData(groups, t, h) \in 1..i
        /\ \A k \in 1..Len(hosts) :
              /\ \E t \in DOMAIN groups : \E i \in 1..Len(groups[t].policies) :
                    LET p == groups[t].policies[i] IN
                    hosts[k] = [host |-> p.host, scheme |-> p.scheme]
              /\ \A l \in 1..Len(hosts) : hosts[k].host = hosts[l].host => k = l

\* The allowlist is the one of all policies in the order of files and policies,
\* over files that share hosts: the first decides on the scheme, also where a
\* later file has another (New).
AllowlistInOrder ==
    Loaded => IsAllowlistOf(hosts, FlattenSeq([i \in 1..Len(read) |->
                                                  GroupOf(read[i]).policies]))

-----------------------------------------------------------------------------
(* The inductive invariant                                                 *)

\* How far the start has come.
PhaseInv ==
    /\ phase \in {"options", "run"} =>
          read = <<>> /\ hosts = <<>> /\ groups = <<>>
    /\ phase = "options" => paths = <<>>
    /\ phase # "options" => options.database \/ paths # <<>> \/ phase = "failed"
    /\ phase \in {"files", "policies"} \/ Loaded => ~options.database
    /\ phase = "files" => Len(read) <= Len(paths)
    /\ phase = "policies" => Len(read) \in 1..Len(paths)
    /\ Loaded => Len(read) = Len(paths)
    /\ FailsForAReason

\* The files that New is through with.
Done == 1..(IF phase = "policies" THEN Len(read) - 1 ELSE Len(read))

FilesInv ==
    phase # "failed" =>
        /\ \A i \in Done :
              Complete(read[i]) /\ groups[read[i].localToken] = GroupOf(read[i])
        /\ ~\E i, j \in Done : SameToken(i, j)
        /\ DOMAIN groups = {read[i].localToken : i \in Done}

\* The file that New is at, up to the policy that it is at.
CurrentInv ==
    phase = "policies" =>
        /\ WellFormed(file)
        /\ file.localToken \notin DOMAIN groups
        /\ Len(policies) <= Len(file.policies)
        /\ \A i \in 1..Len(policies) :
              /\ policies[i] = PolicyOf(file.policies[i])
              /\ file.policies[i].host \in HostText
              /\ ~MissingEnv(file.policies[i])

PoliciesOf(t) == {groups[t].policies[i] : i \in 1..Len(groups[t].policies)}

GroupPolicies == UNION {PoliciesOf(t) : t \in DOMAIN groups}

CurrentPolicies ==
    IF phase = "policies" THEN {policies[i] : i \in 1..Len(policies)} ELSE {}

\* The policies that New has been through.
LoadedPolicies == GroupPolicies \union CurrentPolicies

HostsInv ==
    phase # "failed" =>
        /\ \A p \in LoadedPolicies : p.host \in SeenHosts
        /\ \A k \in 1..Len(hosts) :
              /\ \E p \in LoadedPolicies : hosts[k] = [host |-> p.host, scheme |-> p.scheme]
              /\ \A l \in 1..Len(hosts) : hosts[k].host = hosts[l].host => k = l

IInv == TypeOK /\ PhaseInv /\ FilesInv /\ CurrentInv /\ HostsInv

\* The policies that New has been through, in their order.
LoadedInOrder ==
    FlattenSeq([i \in Done |-> GroupOf(read[i]).policies]) \o
    (IF phase = "policies" THEN policies ELSE <<>>)

OrderInv == phase # "failed" => IsAllowlistOf(hosts, LoadedInOrder)
=============================================================================
