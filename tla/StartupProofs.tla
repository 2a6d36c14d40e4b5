--------------------------- MODULE StartupProofs ----------------------------
(***************************************************************************)
(* Proofs about Startup, for any files, options and environment, and       *)
(* however the files change while they are read.                           *)
(***************************************************************************)
EXTENDS Startup, SequenceLemmas

-----------------------------------------------------------------------------
(* Lookups return the first element that qualifies.                        *)

\* The policy that GetPolicyData returns is the first of the token's group
\* that serves the host; it returns none only when there is none.
LEMMA GetPolicyDataIsFirst ==
    ASSUME NEW T, IsTable(T), NEW t, NEW h,
           NEW i, i = GetPolicyData(T, t, h)
    PROVE  \/ /\ i = 0
              /\ t \in DOMAIN T =>
                    \A j \in 1..Len(T[t].policies) : ~ServesHost(T[t].policies[j], h)
           \/ /\ t \in DOMAIN T
              /\ i \in 1..Len(T[t].policies)
              /\ ServesHost(T[t].policies[i], h)
              /\ \A j \in 1..(i - 1) : ~ServesHost(T[t].policies[j], h)
<1>1. CASE t \notin DOMAIN T
  BY <1>1 DEF GetPolicyData
<1>2. CASE t \in DOMAIN T
  <2> DEFINE ps == T[t].policies
             S  == {j \in 1..Len(ps) : ServesHost(ps[j], h)}
  <2>1. Len(ps) \in Nat
    BY <1>2 DEF IsTable, PolicyGroup
  <2>2. i = IF S # {} THEN Min(S) ELSE 0
    BY <1>2 DEF GetPolicyData, SelectInSeq
  <2>3. S \in SUBSET (1..Len(ps))
    OBVIOUS
  <2>4. \/ i = 0 /\ S = {}
        \/ i \in S /\ i # 0 /\ \A j \in 1..(i - 1) : j \notin S
    <3> HIDE DEF S
    <3> QED
      BY <2>1, <2>2, <2>3, FirstPlace
  <2> QED
    BY <1>2, <2>1, <2>4
<1> QED
  BY <1>1, <1>2

\* FindHost returns the index of an entry that accepts the host, and 0 only when
\* there is none.
LEMMA FindHostIsEntry ==
    ASSUME NEW entries \in Seq(HostEntry), NEW h
    PROVE  /\ FindHost(entries, h) = 0 =>
                \A k \in 1..Len(entries) : ~EntryAccepts(entries[k], h)
           /\ FindHost(entries, h) # 0 =>
                /\ FindHost(entries, h) \in 1..Len(entries)
                /\ EntryAccepts(entries[FindHost(entries, h)], h)
<1> DEFINE S == {k \in 1..Len(entries) : EntryAccepts(entries[k], h)}
           i == FindHost(entries, h)
<1>1. Len(entries) \in Nat /\ S \in SUBSET (1..Len(entries))
  OBVIOUS
<1>2. i = IF S # {} THEN Min(S) ELSE 0
  BY DEF FindHost, SelectInSeq
<1>3. \/ i = 0 /\ S = {}
      \/ i \in S /\ i # 0
  <2> HIDE DEF S, i
  <2> QED
    BY <1>1, <1>2, FirstPlace
<1> QED
  BY <1>3

-----------------------------------------------------------------------------
(* Files and what is made of them                                          *)

\* A file that passes the validation has the types of a policy group file.
LEMMA WellFormedFile ==
    ASSUME NEW content \in Contents \union {Unreadable, Absent}, WellFormed(content)
    PROVE  /\ content \in PolicyGroupFile
           /\ content.version /\ content.localToken \in Token
           /\ content.policies \in Seq(PolicyFile) /\ Len(content.policies) > 0
           /\ \A i \in 1..Len(content.policies) :
                 /\ content.policies[i] \in PolicyFile
                 /\ content.policies[i].host \in HostText \union {NoHost}
<1>1. content \in PolicyGroupFile
  BY StartupAssumption DEF WellFormed
<1>2. content.version /\ content.localToken \in Token
  BY <1>1 DEF WellFormed, PolicyGroupFile
<1>3. content.policies \in Seq(PolicyFile) /\ content.policies # <<>>
  BY <1>1 DEF WellFormed, PolicyGroupFile
<1>4. ASSUME NEW i \in 1..Len(content.policies)
      PROVE  /\ content.policies[i] \in PolicyFile
             /\ content.policies[i].host \in HostText \union {NoHost}
  <2>1. content.policies[i] \in PolicyFile
    BY <1>3
  <2>2. content.policies[i].host # NoUrl
    BY DEF WellFormed
  <2> QED
    BY <2>1, <2>2 DEF PolicyFile
<1> QED
  BY <1>1, <1>2, <1>3, <1>4

\* A policy of a file becomes a policy and an entry of the allowlist that agree
\* on host and scheme.
LEMMA PolicyOfFile ==
    ASSUME NEW pf \in PolicyFile, pf.host \in HostText
    PROVE  /\ PolicyOf(pf) \in UpstreamPolicy
           /\ HostAndScheme(pf) \in HostEntry
           /\ PolicyOf(pf).host = pf.host
           /\ HostAndScheme(pf).host = pf.host
           /\ HostAndScheme(pf) = [host |-> PolicyOf(pf).host, scheme |-> PolicyOf(pf).scheme]
<1>1. HostAndScheme(pf) \in HostEntry
  BY StartupAssumption DEF HostAndScheme, HostEntry, PolicyFile
<1>2. (IF pf.key = NoKey THEN NoCred ELSE Env[pf.key]) \in Cred \union {NoCred}
  BY StartupAssumption DEF PolicyFile
<1>3. HostAndScheme(pf).scheme \in Scheme
  BY <1>1 DEF HostEntry
<1>4. PolicyOf(pf) \in UpstreamPolicy
  BY <1>2, <1>3 DEF PolicyOf, UpstreamPolicy, PolicyFile
<1> QED
  BY <1>1, <1>4 DEF PolicyOf, HostAndScheme

\* A well-formed file whose policies have all been loaded is complete.
LEMMA LoadedIsComplete ==
    ASSUME NEW content \in Contents \union {Unreadable, Absent}, WellFormed(content),
           \A i \in 1..Len(content.policies) :
               /\ content.policies[i].host \in HostText
               /\ ~MissingEnv(content.policies[i])
    PROVE  Complete(content)
<1>1. ASSUME NEW i \in 1..Len(content.policies), content.policies[i].key # NoKey
      PROVE  Env[content.policies[i].key] \in Cred
  <2>1. content.policies[i].key \in Key
    BY <1>1, WellFormedFile DEF PolicyFile
  <2>2. Env[content.policies[i].key] # NoCred
    BY <1>1 DEF MissingEnv
  <2> QED
    BY <2>1, <2>2, StartupAssumption
<1> QED
  BY <1>1, WellFormedFile DEF Complete

\* A complete file passes the validation.
LEMMA CompleteIsWellFormed ==
    ASSUME NEW content, Complete(content)
    PROVE  WellFormed(content)
<1>1. content \notin {Unreadable, Absent}
  BY StartupAssumption DEF Complete
<1>2. content.localToken # NoToken
  BY PolicyAssumption DEF Complete
<1>3. content.policies # <<>>
  BY DEF Complete
<1>4. \A i \in 1..Len(content.policies) : content.policies[i].host # NoUrl
  BY StartupAssumption DEF Complete
<1> QED
  BY <1>1, <1>2, <1>3, <1>4 DEF Complete, WellFormed

\* A host is added once, and nothing else happens to the allowlist.
LEMMA AddHostOnce ==
    ASSUME hosts \in Seq(HostEntry), NEW entry \in HostEntry, AddHost(entry)
    PROVE  /\ hosts' \in Seq(HostEntry)
           /\ SeenHosts' = SeenHosts \union {entry.host}
           /\ \A k \in 1..Len(hosts') :
                 hosts'[k] = entry \/ \E l \in 1..Len(hosts) : hosts'[k] = hosts[l]
           /\ (\A k, l \in 1..Len(hosts) : hosts[k].host = hosts[l].host => k = l)
                => \A k, l \in 1..Len(hosts') : hosts'[k].host = hosts'[l].host => k = l
<1>1. CASE entry.host \in SeenHosts
  BY <1>1 DEF AddHost, SeenHosts
<1>2. CASE entry.host \notin SeenHosts
  <2> DEFINE n == Len(hosts)
  <2>1. hosts' = Append(hosts, entry)
    BY <1>2 DEF AddHost
  <2>2. /\ hosts' \in Seq(HostEntry) /\ n \in Nat /\ Len(hosts') = n + 1
        /\ hosts'[n + 1] = entry
        /\ \A k \in 1..n : hosts'[k] = hosts[k]
    BY <2>1
  <2>3. 1..Len(hosts') = 1..n \union {n + 1}
    BY <2>2
  <2>4. SeenHosts' = {hosts'[k].host : k \in 1..n} \union {hosts'[n + 1].host}
    BY <2>3 DEF SeenHosts
  <2>5. {hosts'[k].host : k \in 1..n} = SeenHosts
    BY <2>2 DEF SeenHosts
  <2>6. \A k \in 1..n : hosts'[k].host # hosts'[n + 1].host
    BY <1>2, <2>2 DEF SeenHosts
  <2>7. ASSUME NEW k \in 1..Len(hosts')
        PROVE  hosts'[k] = entry \/ \E l \in 1..Len(hosts) : hosts'[k] = hosts[l]
    BY <2>2, <2>3
  <2>8. ASSUME \A k, l \in 1..n : hosts[k].host = hosts[l].host => k = l,
               NEW k \in 1..n \union {n + 1}, NEW l \in 1..n \union {n + 1},
               hosts'[k].host = hosts'[l].host
        PROVE  k = l
    <3>1. CASE k \in 1..n /\ l \in 1..n
      BY <2>2, <2>8, <3>1
    <3>2. CASE k = n + 1 /\ l \in 1..n
      BY <2>6, <2>8, <3>2
    <3>3. CASE k \in 1..n /\ l = n + 1
      BY <2>6, <2>8, <3>3
    <3> QED
      BY <2>8, <3>1, <3>2, <3>3
  <2> QED
    BY <2>2, <2>3, <2>4, <2>5, <2>7, <2>8
<1> QED
  BY <1>1, <1>2

-----------------------------------------------------------------------------
(* The invariant holds at first and is preserved by every action.           *)

LEMMA InitIInv ==
    Init => IInv
<1> SUFFICES ASSUME Init PROVE IInv
  OBVIOUS
<1>1. TypeOK
  BY DEF Init, TypeOK, IsTable
<1>2. PhaseInv
  BY DEF Init, PhaseInv, Loaded, FailsForAReason
<1>3. FilesInv
  BY DEF Init, FilesInv, Done
<1>4. CurrentInv
  BY DEF Init, CurrentInv
<1>5. HostsInv
  BY DEF Init, HostsInv, LoadedPolicies, GroupPolicies, CurrentPolicies
<1> QED
  BY <1>1, <1>2, <1>3, <1>4, <1>5 DEF IInv

\* A step that leaves alone what New has read and made, and does not come from
\* or lead to the middle of a file, keeps the invariants about it.
LEMMA NothingLoaded ==
    ASSUME IInv, UNCHANGED <<read, policies, hosts, groups>>,
           phase # "failed", phase # "policies", phase' # "policies"
    PROVE  FilesInv' /\ CurrentInv' /\ HostsInv'
<1>1. FilesInv'
  BY DEF IInv, FilesInv, Done, Complete, GroupOf, SameToken
<1>2. CurrentInv'
  BY DEF CurrentInv
<1>3. HostsInv'
  <2>1. LoadedPolicies' = LoadedPolicies /\ SeenHosts' = SeenHosts
    BY DEF LoadedPolicies, GroupPolicies, CurrentPolicies, PoliciesOf, SeenHosts
  <2> QED
    BY <2>1 DEF IInv, HostsInv
<1> QED
  BY <1>1, <1>2, <1>3

LEMMA OptionsType ==
    ASSUME TypeOK
    PROVE  options.policyGroup \in Seq(Path) /\ options.dir \in Directory
  BY StartupAssumption DEF TypeOK

LEMMA ValidateIInv ==
    ASSUME IInv, Validate
    PROVE  IInv'
<1> USE DEF IInv
<1>1. FilesInv' /\ CurrentInv' /\ HostsInv'
  BY NothingLoaded DEF Validate, Fail
<1>2. Glob \in Seq(Path)
  BY StartupAssumption DEF Glob
<1>3. options.policyGroup \in Seq(Path)
  BY StartupAssumption DEF TypeOK
<1>4. TypeOK'
  <2>1. paths' \in Seq(Path)
    <3>1. options.policyGroup \o Glob \in Seq(Path)
      BY <1>2, <1>3
    <3>2. options.policyGroup \o <<>> \in Seq(Path)
      BY <1>3
    <3>3. paths \in Seq(Path)
      BY DEF TypeOK
    <3> QED
      BY <3>1, <3>2, <3>3 DEF Validate
  <2>2. phase' \in {"run", "failed"}
    BY DEF Validate, Fail
  <2> QED
    BY <2>1, <2>2 DEF Validate, TypeOK
<1>5. CASE ValidOptions
  <2>1. options.database \/ paths' # <<>>
    <3>1. CASE options.dir # "none"
      <4>1. paths' = options.policyGroup \o Glob
        BY <1>5, <3>1 DEF Validate
      <4>2. Glob # <<>> \/ options.policyGroup # <<>>
        BY <1>5, <3>1, OptionsType DEF ValidOptions, Directory
      <4>3. options.policyGroup \o Glob # <<>>
        BY <1>2, <1>3, <4>2
      <4> QED
        BY <4>1, <4>3
    <3>2. CASE options.dir = "none"
      <4>1. paths' = options.policyGroup
        BY <1>3, <1>5, <3>2 DEF Validate
      <4> QED
        BY <1>5, <3>2, <4>1 DEF ValidOptions, HasFileMode
    <3> QED
      BY <3>1, <3>2
  <2> QED
    BY <1>1, <1>4, <1>5, <2>1 DEF Validate, PhaseInv, Loaded, FailsForAReason
<1>6. CASE ~ValidOptions
  <2>1. options.database \/ Refusable
    BY <1>6, OptionsType DEF ValidOptions, HasFileMode, Refusable, Directory
  <2>2. phase' = "failed" /\ paths' = paths /\ paths = <<>> /\ options' = options
    BY <1>6 DEF Validate, Fail, PhaseInv
  <2>3. FailsForAReason'
    BY <2>1, <2>2 DEF FailsForAReason, Refusable
  <2> QED
    BY <1>1, <1>4, <2>2, <2>3 DEF PhaseInv, Loaded
<1> QED
  BY <1>5, <1>6

LEMMA RunIInv ==
    ASSUME IInv, Run
    PROVE  IInv'
<1> USE DEF IInv
<1>1. FilesInv' /\ CurrentInv' /\ HostsInv'
  BY NothingLoaded DEF Run, Fail
<1>2. TypeOK'
  BY DEF Run, TypeOK, Fail
<1>3. PhaseInv'
  BY DEF Run, Fail, TypeOK, PhaseInv, Loaded, FailsForAReason
<1> QED
  BY <1>1, <1>2, <1>3

LEMMA StartIInv ==
    ASSUME IInv, Start
    PROVE  IInv'
<1> USE DEF IInv
<1>1. FilesInv' /\ CurrentInv' /\ HostsInv'
  BY NothingLoaded DEF Start
<1>2. TypeOK'
  BY DEF Start, TypeOK
<1>3. PhaseInv'
  BY DEF Start, PhaseInv, Loaded, FailsForAReason
<1> QED
  BY <1>1, <1>2, <1>3

\* A step that leaves the start where it is.
LEMMA NotMoved ==
    ASSUME PhaseInv, UNCHANGED <<options, phase, paths, read, hosts, groups>>
    PROVE  PhaseInv'
<1>1. FailsForAReason' = FailsForAReason
  BY DEF FailsForAReason, Refusable, Complete, SameToken
<1> QED
  BY <1>1 DEF PhaseInv, Loaded

LEMMA ChangeFileIInv ==
    ASSUME IInv, ChangeFile
    PROVE  IInv'
<1> USE DEF IInv
<1>1. TypeOK'
  BY DEF ChangeFile, TypeOK
<1>2. PhaseInv'
  BY NotMoved DEF ChangeFile
<1>3. FilesInv'
  <2>1. Done' = Done
    BY DEF ChangeFile, Done
  <2> QED
    BY <2>1 DEF ChangeFile, FilesInv, SameToken
<1>4. CurrentInv'
  BY DEF ChangeFile, CurrentInv, file, WellFormed
<1>5. HostsInv'
  <2>1. LoadedPolicies' = LoadedPolicies /\ SeenHosts' = SeenHosts
    BY DEF ChangeFile, LoadedPolicies, GroupPolicies, CurrentPolicies, PoliciesOf, SeenHosts
  <2> QED
    BY <2>1 DEF ChangeFile, HostsInv
<1> QED
  BY <1>1, <1>2, <1>3, <1>4, <1>5

LEMMA FromEntriesIInv ==
    ASSUME IInv, FromEntries
    PROVE  IInv'
<1> USE DEF IInv
<1>1. FilesInv' /\ CurrentInv' /\ HostsInv'
  BY NothingLoaded DEF FromEntries, Fail
<1>2. TypeOK'
  BY DEF FromEntries, TypeOK, Fail
<1>3. paths # <<>> /\ ~options.database
  BY DEF FromEntries, PhaseInv, Loaded
<1>4. 1 \in Done
  BY <1>3 DEF FromEntries, Done, TypeOK
<1>5. hosts # <<>>
  <2> DEFINE t == read[1].localToken
  <2>1. Complete(read[1]) /\ groups[t] = GroupOf(read[1]) /\ t \in DOMAIN groups
    BY <1>4 DEF FromEntries, FilesInv
  <2>2. 1 \in 1..Len(groups[t].policies)
    <3>1. groups[t].policies =
            [i \in 1..Len(read[1].policies) |-> PolicyOf(read[1].policies[i])]
      <4>1. groups[t].policies = GroupOf(read[1]).policies
        BY <2>1
      <4> QED
        BY <4>1 DEF GroupOf
    <3>2. Len(read[1].policies) \in Nat \ {0}
      BY <2>1 DEF Complete, PolicyGroupFile
    <3> QED
      BY <3>1, <3>2
  <2>3. groups[t].policies[1] \in LoadedPolicies
    <3>1. groups[t].policies[1] \in PoliciesOf(t)
      BY <2>2 DEF PoliciesOf
    <3> QED
      BY <2>1, <3>1 DEF LoadedPolicies, GroupPolicies
  <2>4. SeenHosts # {}
    BY <2>3 DEF FromEntries, HostsInv
  <2> QED
    BY <2>4 DEF SeenHosts
<1>6. PhaseInv'
  BY <1>3, <1>5 DEF FromEntries, Fail, PhaseInv, Loaded, FailsForAReason
<1> QED
  BY <1>1, <1>2, <1>6

LEMMA ReadFileIInv ==
    ASSUME IInv, ReadFile
    PROVE  IInv'
<1> USE DEF IInv
<1> DEFINE n       == Len(read)
           content == disk[paths[n + 1]]
<1>1. /\ read' = Append(read, content) /\ policies' = <<>>
      /\ UNCHANGED <<options, disk, paths, hosts, groups>>
      /\ n < Len(paths) /\ phase = "files"
  BY DEF ReadFile
<1>2. content \in Contents \union {Unreadable, Absent}
  BY <1>1 DEF TypeOK
<1>3. /\ read' \in Seq(Contents \union {Unreadable, Absent})
      /\ n \in Nat /\ Len(read') = n + 1 /\ read'[n + 1] = content
      /\ \A i \in 1..n : read'[i] = read[i]
  BY <1>1, <1>2 DEF TypeOK
<1>4. Done = 1..n
  BY <1>1 DEF Done
<1>5. TypeOK'
  <2>1. phase' \in {"policies", "failed"}
    BY DEF ReadFile, Fail
  <2>2. <<>> \in Seq(UpstreamPolicy)
    OBVIOUS
  <2> QED
    BY <1>1, <1>3, <2>1, <2>2 DEF TypeOK
<1>6. CASE WellFormed(content) /\ content.localToken \notin DOMAIN groups
  <2>1. phase' = "policies"
    BY <1>6 DEF ReadFile
  <2>2. PhaseInv'
    BY <1>1, <1>3, <2>1 DEF PhaseInv, TypeOK, Loaded, FailsForAReason
  <2>3. Done' = Done
    BY <1>3, <1>4, <2>1 DEF Done
  <2>4. FilesInv'
    <3>1. \A i \in Done : read'[i] = read[i]
      BY <1>3, <1>4
    <3>2. FilesInv
      OBVIOUS
    <3>3. phase # "failed" /\ groups' = groups
      BY <1>1
    <3> HIDE DEF content, n
    <3>4. \A i \in Done :
             Complete(read'[i]) /\ groups'[read'[i].localToken] = GroupOf(read'[i])
      BY <3>1, <3>2, <3>3 DEF FilesInv
    <3>5. ~\E i, j \in Done : i # j /\ read'[i].localToken = read'[j].localToken
      BY <3>1, <3>2, <3>3 DEF FilesInv, SameToken
    <3>6. DOMAIN groups' = {read'[i].localToken : i \in Done}
      BY <3>1, <3>2, <3>3 DEF FilesInv
    <3> QED
      BY <2>3, <3>4, <3>5, <3>6 DEF FilesInv, SameToken
  <2>5. CurrentInv'
    <3>1. file' = content
      BY <1>3 DEF file
    <3>2. Len(content.policies) \in Nat
      BY <1>2, <1>6, WellFormedFile
    <3>3. Len(policies') = 0
      BY <1>1
    <3> HIDE DEF content
    <3> QED
      BY <1>1, <1>6, <3>1, <3>2, <3>3 DEF CurrentInv
  <2>6. HostsInv'
    <3>1. LoadedPolicies' = LoadedPolicies /\ SeenHosts' = SeenHosts
      <4>1. {policies'[i] : i \in 1..Len(policies')} = {}
        BY <1>1
      <4> QED
        <5>1. GroupPolicies' = GroupPolicies /\ SeenHosts' = SeenHosts
          BY <1>1 DEF GroupPolicies, PoliciesOf, SeenHosts
        <5>2. CurrentPolicies = {} /\ CurrentPolicies' = {}
          BY <1>1, <2>1, <4>1 DEF CurrentPolicies
        <5> QED
          BY <5>1, <5>2 DEF LoadedPolicies
    <3> QED
      BY <1>1, <3>1 DEF HostsInv
  <2> QED
    BY <1>5, <2>2, <2>4, <2>5, <2>6
<1>7. CASE ~(WellFormed(content) /\ content.localToken \notin DOMAIN groups)
  <2>1. phase' = "failed"
    BY <1>7 DEF ReadFile, Fail
  <2>2. FailsForAReason'
    <3> SUFFICES ASSUME \A i \in 1..Len(read') : Complete(read'[i])
                 PROVE  \E i, j \in 1..Len(read') : SameToken(i, j)'
      BY DEF FailsForAReason, Complete
    <3>1. Complete(content)
      BY <1>3
    <3>2. content.localToken \in DOMAIN groups
      BY <1>7, <3>1, CompleteIsWellFormed
    <3>3. PICK i \in 1..n : read[i].localToken = content.localToken
      BY <1>1, <1>4, <3>2 DEF FilesInv
    <3>4. i # n + 1 /\ i \in 1..Len(read') /\ n + 1 \in 1..Len(read')
      BY <1>3
    <3> QED
      BY <1>3, <3>3, <3>4 DEF SameToken
  <2>3. PhaseInv'
    BY <2>1, <2>2 DEF PhaseInv, Loaded
  <2> QED
    BY <1>5, <2>1, <2>3 DEF FilesInv, CurrentInv, HostsInv
<1> QED
  BY <1>6, <1>7

LEMMA LoadPolicyIInv ==
    ASSUME IInv, LoadPolicy
    PROVE  IInv'
<1> USE DEF IInv
<1> DEFINE m  == Len(policies)
           pf == file.policies[m + 1]
<1>1. /\ phase = "policies" /\ m < Len(file.policies)
      /\ UNCHANGED <<options, disk, paths, read, groups>>
  BY DEF LoadPolicy
<1>2. Len(read) \in 1..Len(paths) /\ WellFormed(file)
  BY <1>1 DEF PhaseInv, CurrentInv
<1>3. file \in Contents \union {Unreadable, Absent}
  BY <1>2 DEF TypeOK, file
<1>4. /\ file.policies \in Seq(PolicyFile) /\ m \in Nat
      /\ m + 1 \in 1..Len(file.policies)
  BY <1>1, <1>2, <1>3, WellFormedFile DEF TypeOK
<1>5. pf \in PolicyFile /\ pf.host \in HostText \union {NoHost}
  BY <1>2, <1>3, <1>4, WellFormedFile
<1>6. file' = file /\ (phase' = phase => Done' = Done)
  BY <1>1 DEF file, Done
<1>7. ASSUME phase' = "failed", ~Complete(file), policies' = policies,
             hosts' \in Seq(HostEntry)
      PROVE  IInv'
  <2>1. TypeOK'
    BY <1>1, <1>7 DEF TypeOK
  <2>2. FailsForAReason'
    <3>1. Len(read) \in 1..Len(read)
      BY <1>2
    <3>2. ~\A i \in 1..Len(read) : Complete(read[i])
      BY <1>7, <3>1 DEF file
    <3> QED
      BY <1>1, <3>2 DEF FailsForAReason
  <2>3. PhaseInv'
    BY <1>1, <1>7, <2>2 DEF PhaseInv, Loaded
  <2> QED
    BY <1>7, <2>1, <2>3 DEF FilesInv, CurrentInv, HostsInv
<1>8. CASE pf.host = NoHost /\ Fail /\ UNCHANGED <<policies, hosts>>
  <2>1. ~Complete(file)
    BY <1>4, <1>8, PolicyAssumption DEF Complete
  <2> QED
    BY <1>7, <1>8, <2>1 DEF Fail, TypeOK
<1>9. ASSUME pf.host # NoHost, AddHost(HostAndScheme(pf))
      PROVE  /\ PolicyOf(pf) \in UpstreamPolicy
             /\ PolicyOf(pf).host = pf.host
             /\ HostAndScheme(pf).host = pf.host
             /\ HostAndScheme(pf) =
                  [host |-> PolicyOf(pf).host, scheme |-> PolicyOf(pf).scheme]
             /\ hosts' \in Seq(HostEntry)
             /\ SeenHosts' = SeenHosts \union {pf.host}
             /\ \A k \in 1..Len(hosts') :
                   \/ hosts'[k] = HostAndScheme(pf)
                   \/ \E l \in 1..Len(hosts) : hosts'[k] = hosts[l]
             /\ \A k, l \in 1..Len(hosts') : hosts'[k].host = hosts'[l].host => k = l
  <2>1. HostAndScheme(pf) \in HostEntry
    BY <1>5, <1>9, PolicyOfFile
  <2>2. hosts \in Seq(HostEntry)
    BY DEF TypeOK
  <2>3. \A k, l \in 1..Len(hosts) : hosts[k].host = hosts[l].host => k = l
    BY <1>1 DEF HostsInv
  <2>4. PolicyOf(pf) \in UpstreamPolicy /\ PolicyOf(pf).host = pf.host
    BY <1>5, <1>9, PolicyOfFile
  <2>5. /\ HostAndScheme(pf).host = pf.host
        /\ HostAndScheme(pf) =
             [host |-> PolicyOf(pf).host, scheme |-> PolicyOf(pf).scheme]
    BY <1>5, <1>9, PolicyOfFile
  <2> HIDE DEF pf
  <2> QED
    BY <1>9, <2>1, <2>2, <2>3, <2>4, <2>5, AddHostOnce
<1>10. CASE /\ pf.host # NoHost /\ AddHost(HostAndScheme(pf)) /\ MissingEnv(pf)
            /\ Fail /\ UNCHANGED policies
  <2>1. ~Complete(file)
    <3>1. pf.key # NoKey /\ Env[pf.key] \notin Cred
      BY <1>10, PolicyAssumption DEF MissingEnv
    <3> QED
      BY <1>4, <3>1 DEF Complete
  <2> QED
    BY <1>7, <1>9, <1>10, <2>1 DEF Fail
<1>11. CASE /\ pf.host # NoHost /\ AddHost(HostAndScheme(pf)) /\ ~MissingEnv(pf)
            /\ policies' = Append(policies, PolicyOf(pf)) /\ UNCHANGED phase
  <2>1. /\ policies' \in Seq(UpstreamPolicy) /\ Len(policies') = m + 1
        /\ policies'[m + 1] = PolicyOf(pf)
        /\ \A i \in 1..m : policies'[i] = policies[i]
        /\ 1..(m + 1) = 1..m \union {m + 1}
    BY <1>4, <1>9, <1>11 DEF TypeOK
  <2>2. TypeOK'
    BY <1>1, <1>9, <1>11, <2>1 DEF TypeOK
  <2>3. PhaseInv'
    BY <1>1, <1>11 DEF PhaseInv, Loaded, FailsForAReason
  <2>4. FilesInv'
    BY <1>1, <1>6, <1>11 DEF FilesInv, SameToken
  <2>5. CurrentInv'
    <3>1. \A i \in 1..m :
             /\ policies[i] = PolicyOf(file.policies[i])
             /\ file.policies[i].host \in HostText
             /\ ~MissingEnv(file.policies[i])
      BY <1>1 DEF CurrentInv
    <3>2. pf.host \in HostText
      BY <1>5, <1>11
    <3>3. \A i \in 1..(m + 1) :
             /\ policies'[i] = PolicyOf(file.policies[i])
             /\ file.policies[i].host \in HostText
             /\ ~MissingEnv(file.policies[i])
      BY <1>11, <2>1, <3>1, <3>2
    <3>4. m + 1 <= Len(file.policies)
      BY <1>4
    <3>5. file.localToken \notin DOMAIN groups
      BY <1>1 DEF CurrentInv
    <3> QED
      BY <1>1, <1>2, <1>6, <2>1, <3>3, <3>4, <3>5 DEF CurrentInv
  <2>6. HostsInv'
    <3>1. LoadedPolicies' = LoadedPolicies \union {PolicyOf(pf)}
      <4>1. GroupPolicies' = GroupPolicies
        BY <1>1 DEF GroupPolicies, PoliciesOf
      <4>2. CurrentPolicies = {policies[i] : i \in 1..m}
        BY <1>1 DEF CurrentPolicies
      <4>3. CurrentPolicies' = {policies'[i] : i \in 1..(m + 1)}
        BY <1>1, <1>11, <2>1 DEF CurrentPolicies
      <4>4. CurrentPolicies' = CurrentPolicies \union {PolicyOf(pf)}
        BY <2>1, <4>2, <4>3
      <4> QED
        BY <4>1, <4>4 DEF LoadedPolicies
    <3>2. \A p \in LoadedPolicies' : p.host \in SeenHosts'
      BY <1>1, <1>9, <1>11, <3>1 DEF HostsInv
    <3>3. ASSUME NEW k \in 1..Len(hosts')
          PROVE  \E p \in LoadedPolicies' :
                    hosts'[k] = [host |-> p.host, scheme |-> p.scheme]
      <4>1. CASE hosts'[k] = HostAndScheme(pf)
        BY <1>9, <1>11, <3>1, <4>1
      <4>2. CASE \E l \in 1..Len(hosts) : hosts'[k] = hosts[l]
        <5>1. PICK l \in 1..Len(hosts) : hosts'[k] = hosts[l]
          BY <4>2
        <5>2. PICK p \in LoadedPolicies :
                 hosts[l] = [host |-> p.host, scheme |-> p.scheme]
          BY <1>1 DEF HostsInv
        <5> QED
          BY <3>1, <5>1, <5>2
      <4> QED
        BY <1>9, <1>11, <4>1, <4>2
    <3>4. \A k, l \in 1..Len(hosts') : hosts'[k].host = hosts'[l].host => k = l
      BY <1>9, <1>11
    <3> QED
      BY <3>2, <3>3, <3>4 DEF HostsInv
  <2> QED
    BY <2>2, <2>3, <2>4, <2>5, <2>6
<1> QED
  BY <1>8, <1>10, <1>11 DEF LoadPolicy

LEMMA AddGroupIInv ==
    ASSUME IInv, AddGroup
    PROVE  IInv'
<1> USE DEF IInv
<1> DEFINE n == Len(read)
<1>0. PICK t0, group : /\ t0 = file.localToken
                       /\ group = [policies |-> policies, defaultAction |-> ""]
  OBVIOUS
<1>1. /\ phase = "policies" /\ Len(policies) = Len(file.policies) /\ phase' = "files"
      /\ UNCHANGED <<options, disk, paths, read, policies, hosts>>
      /\ groups' = [t \in DOMAIN groups \union {t0} |->
                       IF t = t0 THEN group ELSE groups[t]]
  BY <1>0 DEF AddGroup
<1>2. n \in 1..Len(paths) /\ WellFormed(file) /\ t0 \notin DOMAIN groups
  BY <1>0, <1>1 DEF PhaseInv, CurrentInv
<1>3. n \in Nat /\ file = read[n] /\ file \in Contents \union {Unreadable, Absent}
  BY <1>2 DEF TypeOK, file
<1>4. t0 \in Token /\ file.policies \in Seq(PolicyFile)
  BY <1>0, <1>2, <1>3, WellFormedFile
<1>5. policies \in Seq(UpstreamPolicy)
  BY DEF TypeOK
<1>6. Complete(file)
  BY <1>1, <1>2, <1>3, LoadedIsComplete DEF CurrentInv
<1>7. group = GroupOf(file)
  <2>1. policies = [i \in 1..Len(file.policies) |-> PolicyOf(file.policies[i])]
    <3>1. /\ Len(policies) = Len(file.policies)
          /\ \A i \in 1..Len(policies) : policies[i] = PolicyOf(file.policies[i])
      BY <1>1 DEF CurrentInv
    <3>2. policies = [i \in 1..Len(policies) |-> policies[i]]
      BY <1>5
    <3> QED
      BY <3>1, <3>2
  <2> QED
    BY <1>0, <2>1 DEF GroupOf
<1>8. Done = 1..(n - 1) /\ Done' = 1..n /\ 1..n = 1..(n - 1) \union {n}
  <2>1. Done = 1..(n - 1)
    BY <1>1 DEF Done
  <2>2. Done' = 1..n
    BY <1>1 DEF Done
  <2>3. 1..n = 1..(n - 1) \union {n}
    BY <1>2, <1>3
  <2> QED
    BY <2>1, <2>2, <2>3
<1>9. /\ DOMAIN groups' = DOMAIN groups \union {t0} /\ groups'[t0] = group
      /\ \A t \in DOMAIN groups : groups'[t] = groups[t]
  BY <1>1, <1>2
<1>10. TypeOK'
  <2>1. group \in PolicyGroup
    BY <1>0, <1>5 DEF PolicyGroup, ActionText
  <2>2. IsTable(groups)
    BY DEF TypeOK
  <2>3. IsTable(groups')
    BY <1>1, <1>4, <2>1, <2>2 DEF IsTable
  <2> QED
    BY <1>1, <2>3 DEF TypeOK
<1>11. PhaseInv'
  <2>1. n <= Len(paths) /\ ~options.database /\ paths # <<>>
    <3>1. Len(paths) \in Nat
      BY DEF TypeOK
    <3>2. n <= Len(paths) /\ Len(paths) # 0
      BY <1>2, <1>3, <3>1
    <3> QED
      BY <1>1, <3>2 DEF PhaseInv
  <2> QED
    BY <1>1, <2>1 DEF PhaseInv, Loaded, FailsForAReason
<1>12. FilesInv'
  <2>1. /\ \A i \in Done :
             Complete(read[i]) /\ groups[read[i].localToken] = GroupOf(read[i])
        /\ ~\E i, j \in Done : i # j /\ read[i].localToken = read[j].localToken
        /\ DOMAIN groups = {read[i].localToken : i \in Done}
    BY <1>1 DEF FilesInv, SameToken
  <2>2. \A i \in Done :
           Complete(read[i]) /\ groups'[read[i].localToken] = GroupOf(read[i])
    BY <1>9, <2>1
  <2>3. Complete(read[n]) /\ groups'[read[n].localToken] = GroupOf(read[n])
    BY <1>0, <1>3, <1>6, <1>7, <1>9
  <2>4. \A i \in Done : read[i].localToken # read[n].localToken
    BY <1>0, <1>2, <1>3, <2>1
  <2>5. DOMAIN groups' = {read[i].localToken : i \in 1..n}
    <3>1. DOMAIN groups' = {read[i].localToken : i \in Done} \union {read[n].localToken}
      BY <1>0, <1>3, <1>9, <2>1
    <3>2. {read[i].localToken : i \in Done \union {n}} =
            {read[i].localToken : i \in Done} \union {read[n].localToken}
      OBVIOUS
    <3>3. 1..n = Done \union {n}
      BY <1>8
    <3> QED
      BY <3>1, <3>2, <3>3
  <2>6. ~\E i, j \in 1..n : i # j /\ read[i].localToken = read[j].localToken
    BY <1>8, <2>1, <2>4
  <2>7. \A i \in 1..n :
           Complete(read[i]) /\ groups'[read[i].localToken] = GroupOf(read[i])
    BY <1>8, <2>2, <2>3
  <2> QED
    <3>1. Done' = 1..n /\ read' = read
      BY <1>1, <1>8
    <3> QED
      BY <2>5, <2>6, <2>7, <3>1 DEF FilesInv, SameToken
<1>13. CurrentInv'
  BY <1>1 DEF CurrentInv
<1>14. HostsInv'
  <2>1. LoadedPolicies' = LoadedPolicies
    <3>1. CurrentPolicies = {policies[i] : i \in 1..Len(policies)}
      BY <1>1 DEF CurrentPolicies
    <3>2. CurrentPolicies' = {}
      BY <1>1 DEF CurrentPolicies
    <3>3. PoliciesOf(t0)' = CurrentPolicies
      <4>1. groups'[t0].policies = policies
        <5>1. group.policies = policies
          BY <1>0
        <5>2. groups'[t0] = group
          BY <1>9
        <5> QED
          BY <5>1, <5>2
      <4> QED
        BY <3>1, <4>1 DEF PoliciesOf
    <3>4. \A t \in DOMAIN groups : PoliciesOf(t)' = PoliciesOf(t)
      BY <1>9 DEF PoliciesOf
    <3>5. GroupPolicies' = GroupPolicies \union CurrentPolicies
      <4>1. DOMAIN groups' = DOMAIN groups \union {t0}
        BY <1>9
      <4>2. ASSUME NEW p \in GroupPolicies'
            PROVE  p \in GroupPolicies \union CurrentPolicies
        <5>1. PICK t \in DOMAIN groups' : p \in PoliciesOf(t)'
          BY <4>2 DEF GroupPolicies
        <5>2. CASE t = t0
          BY <3>3, <5>1, <5>2
        <5>3. CASE t \in DOMAIN groups
          BY <3>4, <5>1, <5>3 DEF GroupPolicies
        <5> QED
          BY <4>1, <5>1, <5>2, <5>3
      <4>3. ASSUME NEW p \in GroupPolicies
            PROVE  p \in GroupPolicies'
        <5>1. PICK t \in DOMAIN groups : p \in PoliciesOf(t)
          BY <4>3 DEF GroupPolicies
        <5> QED
          BY <3>4, <4>1, <5>1 DEF GroupPolicies
      <4>4. ASSUME NEW p \in CurrentPolicies
            PROVE  p \in GroupPolicies'
        BY <3>3, <4>1, <4>4 DEF GroupPolicies
      <4> QED
        BY <4>2, <4>3, <4>4
    <3> QED
      BY <3>2, <3>5 DEF LoadedPolicies
  <2>2. SeenHosts' = SeenHosts
    BY <1>1 DEF SeenHosts
  <2> QED
    BY <1>1, <2>1, <2>2 DEF HostsInv
<1> QED
  BY <1>10, <1>11, <1>12, <1>13, <1>14

-----------------------------------------------------------------------------
(* Theorems *)

\* The invariant of the start: how far it has come, and that what has been made
\* so far is what the files read so far say.
THEOREM Invariance == Spec => []IInv
<1>1. IInv /\ [Next]_vars => IInv'
  <2> SUFFICES ASSUME IInv, [Next]_vars PROVE IInv'
    OBVIOUS
  <2>1. CASE Next
    BY <2>1, ValidateIInv, RunIInv, ReadFileIInv, LoadPolicyIInv, AddGroupIInv,
       FromEntriesIInv, StartIInv, ChangeFileIInv DEF Next
  <2>2. CASE UNCHANGED vars
    <3> USE <2>2 DEF vars, IInv
    <3>1. TypeOK'
      BY DEF TypeOK
    <3>2. PhaseInv'
      BY NotMoved
    <3>3. Done' = Done /\ file' = file
      BY DEF Done, file
    <3>4. FilesInv'
      BY <3>3 DEF FilesInv, SameToken
    <3>5. CurrentInv'
      BY <3>3 DEF CurrentInv
    <3>6. LoadedPolicies' = LoadedPolicies /\ SeenHosts' = SeenHosts
      BY DEF LoadedPolicies, GroupPolicies, CurrentPolicies, PoliciesOf, SeenHosts
    <3>7. HostsInv'
      BY <3>6 DEF HostsInv
    <3> QED
      BY <3>1, <3>2, <3>4, <3>5, <3>7
  <2> QED
    BY <2>1, <2>2
<1> QED
  BY <1>1, InitIInv, PTL DEF Spec

\* Every variable keeps its type; in particular what New makes is a table, as
\* the proxy requires of an api.
THEOREM TypeCorrect == Spec => []TypeOK
<1>1. IInv => TypeOK
  BY DEF IInv
<1> QED
  BY <1>1, Invariance, PTL

\* A server serves all files that it was given, as they were when they were
\* read, and only complete files with different tokens.
THEOREM ServedAsRead == Spec => []ServesWhatItRead
<1>1. IInv => ServesWhatItRead
  <2> SUFFICES ASSUME IInv, Loaded PROVE ServesWhatItRead
    BY DEF ServesWhatItRead
  <2>1. phase # "failed" /\ Done = 1..Len(read)
    BY DEF Loaded, Done
  <2>2. Len(read) = Len(paths)
    BY DEF IInv, PhaseInv
  <2> QED
    BY <2>1, <2>2 DEF IInv, FilesInv, ServesWhatItRead
<1> QED
  BY <1>1, Invariance, PTL

\* A start fails only for a reason in the options or the files.
THEOREM FailuresHaveReasons == Spec => []FailsForAReason
<1>1. IInv => FailsForAReason
  BY DEF IInv, PhaseInv
<1> QED
  BY <1>1, Invariance, PTL

\* Every policy that is served can be reached, and every entry of the allowlist
\* is there for one.
THEOREM ServedPoliciesAreReachable == Spec => []AllowlistServesPolicies
<1>1. IInv => AllowlistServesPolicies
  <2> SUFFICES ASSUME IInv, Loaded PROVE AllowlistServesPolicies
    BY DEF AllowlistServesPolicies
  <2> USE DEF IInv
  <2>1. phase # "failed" /\ phase # "policies"
    BY DEF Loaded
  <2>2. IsTable(groups) /\ hosts \in Seq(HostEntry)
    BY DEF TypeOK
  <2>3. CurrentPolicies = {}
    BY <2>1 DEF CurrentPolicies
  <2>4. LoadedPolicies = UNION {PoliciesOf(t) : t \in DOMAIN groups}
    BY <2>3 DEF LoadedPolicies, GroupPolicies
  <2>5. ASSUME NEW t \in DOMAIN groups, NEW i \in 1..Len(groups[t].policies),
               groups[t].policies[i].host \notin WildcardHost
        PROVE  LET h == groups[t].policies[i].host IN
               FindHost(hosts, h) # 0 /\ GetPolicyData(groups, t, h) \in 1..i
    <3> DEFINE p == groups[t].policies[i]
    <3>1. p \in PoliciesOf(t)
      BY DEF PoliciesOf
    <3>2. p \in LoadedPolicies
      BY <2>4, <3>1
    <3>3. PICK k \in 1..Len(hosts) : hosts[k].host = p.host
      BY <2>1, <3>2 DEF HostsInv, SeenHosts
    <3>4. p.host \in HostText
      <4>1. hosts[k] \in HostEntry
        BY <2>2
      <4> QED
        BY <3>3, <4>1 DEF HostEntry
    <3>5. EntryAccepts(hosts[k], p.host)
      BY <2>5, <3>3 DEF EntryAccepts
    <3>6. FindHost(hosts, p.host) # 0
      BY <2>2, <3>5, FindHostIsEntry
    <3>7. ServesHost(p, p.host)
      BY <3>4, PolicyAssumption DEF ServesHost
    <3>8. i \in Nat /\ Len(groups[t].policies) \in Nat
      BY <2>2 DEF IsTable, PolicyGroup
    <3>9. GetPolicyData(groups, t, p.host) \in 1..i
      <4> DEFINE g == GetPolicyData(groups, t, p.host)
      <4>1. g # 0
        BY <2>2, <3>7, GetPolicyDataIsFirst
      <4>2. /\ g \in 1..Len(groups[t].policies)
            /\ \A j \in 1..(g - 1) : ~ServesHost(groups[t].policies[j], p.host)
        BY <2>2, <4>1, GetPolicyDataIsFirst
      <4>3. ~(i < g)
        BY <3>7, <3>8, <4>2
      <4> HIDE DEF g
      <4> QED
        BY <3>8, <4>2, <4>3 DEF g
    <3> QED
      BY <3>6, <3>9
  <2>6. ASSUME NEW k \in 1..Len(hosts)
        PROVE  \E t \in DOMAIN groups : \E i \in 1..Len(groups[t].policies) :
                  LET p == groups[t].policies[i] IN
                  hosts[k] = [host |-> p.host, scheme |-> p.scheme]
    <3>1. PICK p \in LoadedPolicies : hosts[k] = [host |-> p.host, scheme |-> p.scheme]
      BY <2>1 DEF HostsInv
    <3>2. PICK t \in DOMAIN groups : p \in PoliciesOf(t)
      BY <2>4
    <3>3. PICK i \in 1..Len(groups[t].policies) : p = groups[t].policies[i]
      BY <3>2 DEF PoliciesOf
    <3> QED
      BY <3>1, <3>3
  <2>7. \A k, l \in 1..Len(hosts) : hosts[k].host = hosts[l].host => k = l
    BY <2>1 DEF HostsInv
  <2> QED
    BY <2>5, <2>6, <2>7 DEF AllowlistServesPolicies
<1> QED
  BY <1>1, Invariance, PTL

-----------------------------------------------------------------------------
(* The order of the allowlist.                                              *)

\* Adding the host of a policy makes the allowlist of the policies before it
\* the one of these and the policy.
LEMMA AddHostInOrder ==
    ASSUME hosts \in Seq(HostEntry), NEW ps \in Seq(UpstreamPolicy),
           NEW p \in UpstreamPolicy, NEW entry \in HostEntry,
           entry = [host |-> p.host, scheme |-> p.scheme],
           IsAllowlistOf(hosts, ps), AddHost(entry)
    PROVE  IsAllowlistOf(hosts', Append(ps, p))
<1> DEFINE m == Len(ps)
           n == Len(hosts)
           qs == Append(ps, p)
           Of(k, i) == hosts[k] = [host |-> ps[i].host, scheme |-> ps[i].scheme]
           NewOf(k, i) == hosts'[k] = [host |-> qs[i].host, scheme |-> qs[i].scheme]
<1>1. /\ m \in Nat /\ n \in Nat /\ Len(qs) = m + 1 /\ qs[m + 1] = p
      /\ \A i \in 1..m : qs[i] = ps[i]
  BY AppendProperties, LenProperties
<1>2. /\ \A i \in Firsts(ps) : \E k \in 1..n : Of(k, i)
      /\ \A k \in 1..n : \E i \in Firsts(ps) : Of(k, i)
      /\ \A k, l \in 1..n : \A i, j \in Firsts(ps) : Of(k, i) /\ Of(l, j) => (k < l <=> i < j)
  BY Zenon DEF IsAllowlistOf
<1>3. entry.host = p.host
  OBVIOUS
<1>4. \A i : i \in Firsts(ps) <=>
                i \in 1..m /\ \A j \in 1..(i - 1) : ps[j].host # ps[i].host
  BY DEF Firsts
<1>5. \A i : i \in Firsts(qs) <=>
                i \in 1..(m + 1) /\ \A j \in 1..(i - 1) : qs[j].host # qs[i].host
  BY <1>1 DEF Firsts
<1> HIDE DEF m, n, qs
<1>6. ASSUME NEW i \in 1..m
      PROVE  i \in Firsts(qs) <=> i \in Firsts(ps)
  <2>1. \A j \in 1..(i - 1) : qs[j] = ps[j]
    BY <1>1
  <2>2. i \in 1..(m + 1) /\ qs[i] = ps[i]
    BY <1>1
  <2> QED
    BY <1>4, <1>5, <2>1, <2>2
<1>7. (m + 1) \in Firsts(qs) <=> \A j \in 1..m : ps[j].host # p.host
  <2>1. m + 1 \in 1..(m + 1) /\ (m + 1) - 1 = m
    BY <1>1
  <2>2. (m + 1) \in Firsts(qs) <=> \A j \in 1..m : qs[j].host # p.host
    BY <1>1, <1>5, <2>1
  <2> QED
    BY <1>1, <2>2
<1>8. (m + 1) \in Firsts(qs) <=> p.host \notin SeenHosts
  <2>1. ASSUME p.host \in SeenHosts
        PROVE  (m + 1) \notin Firsts(qs)
    <3>1. PICK k \in 1..n : hosts[k].host = p.host
      BY <2>1 DEF SeenHosts, n
    <3>2. PICK i \in Firsts(ps) : Of(k, i)
      BY <1>2
    <3>3. i \in 1..m /\ ps[i].host = p.host
      BY <1>4, <3>1, <3>2
    <3> QED
      BY <1>7, <3>3
  <2>2. ASSUME (m + 1) \notin Firsts(qs)
        PROVE  p.host \in SeenHosts
    <3> DEFINE S == {j \in 1..m : ps[j].host = p.host}
               x == Min(S)
    <3>1. S \in SUBSET Nat /\ S # {}
      BY <1>7, <2>2
    <3>2. x \in S /\ \A y \in S : x <= y
      <4> HIDE DEF S
      <4> QED
        BY <3>1, MinOfNat
    <3>3. x \in 1..m /\ ps[x].host = p.host
      BY <3>2
    <3>4. \A j \in 1..(x - 1) : ps[j].host # ps[x].host
      <4> TAKE j \in 1..(x - 1)
      <4>1. j \in 1..m /\ ~(x <= j)
        <5> HIDE DEF x
        <5> QED
          BY <1>1, <3>3
      <4>2. j \notin S
        <5> HIDE DEF S, x
        <5> QED
          BY <3>2, <4>1
      <4> HIDE DEF x
      <4> QED
        BY <3>3, <4>1, <4>2
    <3> HIDE DEF x
    <3>5. PICK k \in 1..n : Of(k, x)
      BY <1>2, <1>4, <3>3, <3>4
    <3>6. hosts[k].host = p.host
      BY <3>3, <3>5
    <3> QED
      BY <3>6 DEF SeenHosts, n
  <2> QED
    BY <2>1, <2>2
<1>9. CASE p.host \in SeenHosts
  <2>1. hosts' = hosts
    BY <1>3, <1>9 DEF AddHost
  <2>2. \A i : i \in Firsts(qs) <=> i \in Firsts(ps)
    <3>1. 1..(m + 1) = 1..m \union {m + 1}
      BY <1>1
    <3> QED
      BY <1>4, <1>5, <1>6, <1>8, <1>9, <3>1
  <2>3. \A i \in Firsts(ps) : qs[i] = ps[i]
    BY <1>1, <1>4
  <2>4. Len(hosts') = n
    BY <2>1 DEF n
  <2>5. \A k, i : i \in Firsts(qs) => (NewOf(k, i) <=> Of(k, i))
    BY <2>1, <2>2, <2>3
  <2> HIDE DEF Of, NewOf
  <2>6. /\ \A i \in Firsts(qs) : \E k \in 1..Len(hosts') : NewOf(k, i)
        /\ \A k \in 1..Len(hosts') : \E i \in Firsts(qs) : NewOf(k, i)
        /\ \A k, l \in 1..Len(hosts') : \A i, j \in Firsts(qs) :
              NewOf(k, i) /\ NewOf(l, j) => (k < l <=> i < j)
    BY <1>2, <2>2, <2>4, <2>5
  <2> QED
    BY <2>6, Zenon DEF IsAllowlistOf, NewOf, qs
<1>10. CASE p.host \notin SeenHosts
  <2>1. hosts' = Append(hosts, entry)
    BY <1>3, <1>10 DEF AddHost
  <2>2. /\ Len(hosts') = n + 1 /\ hosts'[n + 1] = entry
        /\ \A k \in 1..n : hosts'[k] = hosts[k]
    BY <2>1, AppendProperties DEF n
  <2>3. \A i : i \in Firsts(qs) <=> i \in Firsts(ps) \/ i = m + 1
    <3>1. 1..(m + 1) = 1..m \union {m + 1}
      BY <1>1
    <3> QED
      BY <1>4, <1>5, <1>6, <1>8, <1>10, <3>1
  <2>4. \A i \in Firsts(ps) : i \in 1..m /\ i < m + 1 /\ qs[i] = ps[i]
    BY <1>1, <1>4
  <2>5. 1..(n + 1) = 1..n \union {n + 1} /\ \A k \in 1..n : k < n + 1 /\ ~(n + 1 < k)
    BY <1>1
  <2>6. \A k \in 1..n, i \in Firsts(ps) : NewOf(k, i) <=> Of(k, i)
    BY <2>2, <2>4
  <2>7. NewOf(n + 1, m + 1)
    BY <1>1, <2>2
  <2>8. \A i \in Firsts(ps) : ~NewOf(n + 1, i)
    <3>1. \A i \in Firsts(ps) : ps[i].host # p.host
      BY <1>7, <1>8, <1>10, <2>4
    <3> QED
      BY <1>3, <2>2, <2>4, <3>1
  <2>9. \A k \in 1..n : ~NewOf(k, m + 1)
    <3>1. \A k \in 1..n : hosts[k].host # p.host
      BY <1>10 DEF SeenHosts, n
    <3> QED
      BY <1>1, <2>2, <3>1
  <2>10. \A i \in Firsts(qs) : \E k \in 1..(n + 1) : NewOf(k, i)
    <3> TAKE i \in Firsts(qs)
    <3>1. CASE i \in Firsts(ps)
      <4>1. PICK k \in 1..n : Of(k, i)
        BY <1>2, <3>1
      <4> HIDE DEF Of, NewOf
      <4> QED
        BY <2>5, <2>6, <3>1, <4>1
    <3>2. CASE i = m + 1
      <4> HIDE DEF NewOf
      <4> QED
        BY <2>5, <2>7, <3>2
    <3> QED
      BY <2>3, <3>1, <3>2
  <2>11. \A k \in 1..(n + 1) : \E i \in Firsts(qs) : NewOf(k, i)
    <3> TAKE k \in 1..(n + 1)
    <3>1. CASE k \in 1..n
      <4>1. PICK i \in Firsts(ps) : Of(k, i)
        BY <1>2, <3>1
      <4> HIDE DEF Of, NewOf
      <4> QED
        BY <2>3, <2>6, <3>1, <4>1
    <3>2. CASE k = n + 1
      <4> HIDE DEF NewOf
      <4> QED
        BY <2>3, <2>7, <3>2
    <3> QED
      BY <2>5, <3>1, <3>2
  <2>12. ASSUME NEW k \in 1..(n + 1), NEW l \in 1..(n + 1),
                NEW i \in Firsts(qs), NEW j \in Firsts(qs),
                NewOf(k, i), NewOf(l, j)
         PROVE  k < l <=> i < j
    <3>1. i \in Firsts(ps) <=> k \in 1..n
      <4> HIDE DEF Of, NewOf
      <4> QED
        BY <2>3, <2>5, <2>8, <2>9, <2>12
    <3>2. j \in Firsts(ps) <=> l \in 1..n
      <4> HIDE DEF Of, NewOf
      <4> QED
        BY <2>3, <2>5, <2>8, <2>9, <2>12
    <3> HIDE DEF Of, NewOf
    <3>3. CASE k \in 1..n /\ l \in 1..n
      BY <1>2, <2>6, <2>12, <3>1, <3>2, <3>3
    <3>4. CASE k \in 1..n /\ l \notin 1..n
      <4>1. l = n + 1 /\ j = m + 1 /\ i \in Firsts(ps)
        BY <2>3, <2>5, <3>1, <3>2, <3>4
      <4> QED
        BY <2>4, <2>5, <3>4, <4>1
    <3>5. CASE k \notin 1..n /\ l \in 1..n
      <4>1. k = n + 1 /\ i = m + 1 /\ j \in Firsts(ps)
        BY <2>3, <2>5, <3>1, <3>2, <3>5
      <4>2. ~(m + 1 < j)
        BY <1>1, <2>4, <4>1
      <4> QED
        BY <2>5, <3>5, <4>1, <4>2
    <3>6. CASE k \notin 1..n /\ l \notin 1..n
      <4>1. k = n + 1 /\ i = m + 1 /\ l = n + 1 /\ j = m + 1
        BY <2>3, <2>5, <3>1, <3>2, <3>6
      <4> QED
        BY <4>1, <1>1
    <3> QED
      BY <3>3, <3>4, <3>5, <3>6
  <2>13. /\ \A i \in Firsts(qs) : \E k \in 1..Len(hosts') : NewOf(k, i)
         /\ \A k \in 1..Len(hosts') : \E i \in Firsts(qs) : NewOf(k, i)
         /\ \A k, l \in 1..Len(hosts') : \A i, j \in Firsts(qs) :
               NewOf(k, i) /\ NewOf(l, j) => (k < l <=> i < j)
    <3> HIDE DEF NewOf
    <3> QED
      BY <2>2, <2>10, <2>11, <2>12
  <2> HIDE DEF NewOf
  <2> QED
    BY <2>13, Zenon DEF IsAllowlistOf, NewOf, qs
<1> QED
  BY <1>9, <1>10

DonePolicies == [i \in Done |-> GroupOf(read[i]).policies]

\* The policies of the files that New is through with.
LEMMA DonePoliciesType ==
    ASSUME IInv, phase # "failed"
    PROVE  /\ Len(read) \in Nat
           /\ Done = 1..(IF phase = "policies" THEN Len(read) - 1 ELSE Len(read))
           /\ phase = "policies" => Len(read) > 0
           /\ DonePolicies \in Seq(Seq(UpstreamPolicy))
           /\ FlattenSeq(DonePolicies) \in Seq(UpstreamPolicy)
<1> DEFINE d == IF phase = "policies" THEN Len(read) - 1 ELSE Len(read)
<1>1. /\ Len(read) \in Nat
      /\ phase = "policies" => Len(read) > 0
      /\ d \in Nat /\ Done = 1..d
  <2>1. Len(read) \in Nat
    BY LenProperties DEF IInv, TypeOK
  <2>2. phase = "policies" => Len(read) > 0
    BY <2>1 DEF IInv, PhaseInv
  <2> QED
    BY <2>1, <2>2 DEF Done
<1>2. ASSUME NEW i \in Done
      PROVE  GroupOf(read[i]).policies \in Seq(UpstreamPolicy)
  <2>1. /\ groups[read[i].localToken] = GroupOf(read[i])
        /\ read[i].localToken \in DOMAIN groups
    BY DEF IInv, FilesInv
  <2>2. groups \in [DOMAIN groups -> PolicyGroup]
    BY DEF IInv, TypeOK, IsTable
  <2>3. GroupOf(read[i]) \in PolicyGroup
    BY <2>1, <2>2
  <2> QED
    BY <2>3 DEF PolicyGroup
<1> HIDE DEF d
<1>3. DonePolicies \in Seq(Seq(UpstreamPolicy))
  <2>1. DonePolicies = [i \in 1..d |-> GroupOf(read[i]).policies]
    BY <1>1 DEF DonePolicies
  <2>2. \A i \in 1..d : GroupOf(read[i]).policies \in Seq(UpstreamPolicy)
    BY <1>1, <1>2
  <2>3. DonePolicies \in [1..d -> Seq(UpstreamPolicy)]
    BY <2>1, <2>2
  <2> QED
    BY <1>1, <2>3
<1>4. FlattenSeq(DonePolicies) \in Seq(UpstreamPolicy)
  <2>1. <<>> \in Seq(UpstreamPolicy)
    OBVIOUS
  <2> QED
    BY <1>3, <2>1, FlattenSeqOfAppend
<1> QED
  BY <1>1, <1>3, <1>4 DEF d

\* What has been loaded stays the same where neither the files read nor the
\* policies change.
LEMMA SameOrder ==
    ASSUME OrderInv, phase # "failed", hosts' = hosts,
           DonePolicies' = DonePolicies,
           (IF phase = "policies" THEN policies ELSE <<>>)'
              = IF phase = "policies" THEN policies ELSE <<>>
    PROVE  OrderInv'
<1>1. LoadedInOrder' = LoadedInOrder
  BY Zenon DEF LoadedInOrder, DonePolicies
<1> QED
  BY <1>1, Zenon DEF OrderInv

\* The allowlist is at every point the one of the policies loaded so far.
LEMMA AlwaysInOrder == Spec => []OrderInv
<1>1. Init => OrderInv
  <2> SUFFICES ASSUME Init PROVE OrderInv
    OBVIOUS
  <2>1. phase = "options" /\ read = <<>> /\ hosts = <<>>
    BY DEF Init
  <2>2. DonePolicies = <<>>
    <3>1. Done = {}
      BY <2>1 DEF Done
    <3> QED
      BY <3>1 DEF DonePolicies
  <2>3. LoadedInOrder = <<>> \o <<>>
    BY <2>1, <2>2, FlattenSeqOfNone DEF LoadedInOrder, DonePolicies
  <2>4. LoadedInOrder = <<>>
    BY <2>3
  <2>5. IsAllowlistOf(<<>>, <<>>)
    <3>1. Len(<<>>) = 0 /\ 1..0 = {}
      OBVIOUS
    <3>2. Firsts(<<>>) = {}
      BY <3>1 DEF Firsts
    <3> QED
      BY <3>1, <3>2 DEF IsAllowlistOf
  <2> QED
    BY <2>1, <2>4, <2>5 DEF OrderInv
<1>2. IInv /\ IInv' /\ OrderInv /\ [Next]_vars => OrderInv'
  <2> SUFFICES ASSUME IInv, IInv', OrderInv, [Next]_vars, (phase # "failed")'
               PROVE  OrderInv'
    BY DEF OrderInv
  <2> DEFINE n == Len(read)
  <2>0. phase' # "failed"
    OBVIOUS
  <2>1. CASE Validate \/ Run \/ FromEntries \/ Start
    <3>1. /\ phase \in {"options", "run", "files", "loaded"} /\ phase' # "policies"
          /\ UNCHANGED <<read, policies, hosts>>
      BY <2>0, <2>1 DEF Validate, Run, FromEntries, Start, Fail
    <3>2. DonePolicies' = DonePolicies
      BY <3>1 DEF DonePolicies, Done
    <3> QED
      BY <3>1, <3>2, SameOrder
  <2>2. CASE ChangeFile \/ UNCHANGED vars
    <3>1. UNCHANGED <<phase, read, policies, hosts>>
      BY <2>2 DEF ChangeFile, vars
    <3>2. DonePolicies' = DonePolicies
      BY <3>1 DEF DonePolicies, Done
    <3> QED
      BY <2>0, <3>1, <3>2, SameOrder
  <2>3. CASE ReadFile
    <3>1. /\ phase = "files" /\ phase' = "policies" /\ policies' = <<>> /\ hosts' = hosts
          /\ read' = Append(read, disk[paths[n + 1]])
      BY <2>0, <2>3 DEF ReadFile, Fail
    <3>2. n \in Nat /\ read' \in Seq(Contents \union {Unreadable, Absent})
      BY DonePoliciesType, <3>1 DEF IInv, TypeOK
    <3>3. Len(read') = n + 1 /\ \A i \in 1..n : read'[i] = read[i]
      BY <3>1 DEF IInv, TypeOK
    <3>4. Done = 1..n /\ Done' = 1..n
      BY <3>1, <3>2, <3>3 DEF Done
    <3>5. DonePolicies' = DonePolicies
      BY <3>3, <3>4 DEF DonePolicies, GroupOf
    <3> QED
      BY <3>1, <3>5, SameOrder
  <2>4. CASE LoadPolicy
    <3> DEFINE pf == file.policies[Len(policies) + 1]
               before == FlattenSeq(DonePolicies)
    <3>1. /\ phase = "policies" /\ Len(policies) < Len(file.policies)
          /\ UNCHANGED <<phase, read>>
          /\ pf.host # NoHost /\ AddHost(HostAndScheme(pf))
          /\ policies' = Append(policies, PolicyOf(pf))
      BY <2>0, <2>4 DEF LoadPolicy, Fail
    <3>2. pf \in PolicyFile /\ pf.host \in HostText
      <4>1. WellFormed(file) /\ n > 0 /\ n \in Nat
        BY <3>1, DonePoliciesType DEF IInv, CurrentInv
      <4>2. file \in Contents \union {Unreadable, Absent}
        BY <4>1 DEF IInv, TypeOK, file
      <4>3. Len(policies) + 1 \in 1..Len(file.policies)
        <5>1. Len(policies) \in Nat
          BY LenProperties DEF IInv, TypeOK
        <5>2. Len(file.policies) \in Nat
          BY <4>1, <4>2, WellFormedFile, LenProperties
        <5> QED
          BY <3>1, <5>1, <5>2
      <4>4. pf \in PolicyFile /\ pf.host \in HostText \union {NoHost}
        BY <4>1, <4>2, <4>3, WellFormedFile
      <4> QED
        BY <3>1, <4>4
    <3>3. /\ PolicyOf(pf) \in UpstreamPolicy /\ HostAndScheme(pf) \in HostEntry
          /\ HostAndScheme(pf) = [host |-> PolicyOf(pf).host, scheme |-> PolicyOf(pf).scheme]
      <4> HIDE DEF pf
      <4> QED
        BY <3>2, PolicyOfFile
    <3>4. before \in Seq(UpstreamPolicy) /\ policies \in Seq(UpstreamPolicy)
      BY <3>1, DonePoliciesType DEF IInv, TypeOK
    <3>5. LoadedInOrder = before \o policies
      BY <3>1, Zenon DEF LoadedInOrder, DonePolicies
    <3>6. LoadedInOrder' = before \o Append(policies, PolicyOf(pf))
      <4>1. DonePolicies' = DonePolicies
        BY <3>1 DEF DonePolicies, Done
      <4>2. LoadedInOrder' = FlattenSeq(DonePolicies') \o policies'
        BY <3>1 DEF LoadedInOrder, DonePolicies
      <4> QED
        BY <3>1, <4>1, <4>2, Zenon
    <3> HIDE DEF pf, before
    <3>7. LoadedInOrder' = Append(LoadedInOrder, PolicyOf(pf))
      <4>1. before \o Append(policies, PolicyOf(pf)) = Append(before \o policies, PolicyOf(pf))
        <5>1. Append(policies, PolicyOf(pf)) = policies \o <<PolicyOf(pf)>>
          BY <3>3, <3>4, AppendIsConcat
        <5>2. <<PolicyOf(pf)>> \in Seq(UpstreamPolicy)
          BY <3>3
        <5>3. before \o policies \in Seq(UpstreamPolicy)
          BY <3>4, ConcatProperties
        <5>4. Append(before \o policies, PolicyOf(pf)) = (before \o policies) \o <<PolicyOf(pf)>>
          BY <3>3, <5>3, AppendIsConcat
        <5>5. (before \o policies) \o <<PolicyOf(pf)>> = before \o (policies \o <<PolicyOf(pf)>>)
          BY <3>4, <5>2, ConcatAssociative
        <5> QED
          BY <5>1, <5>4, <5>5
      <4> QED
        BY <3>5, <3>6, <4>1
    <3>8. IsAllowlistOf(hosts, LoadedInOrder)
      BY <3>1 DEF OrderInv
    <3>9. LoadedInOrder \in Seq(UpstreamPolicy)
      BY <3>4, <3>5, ConcatProperties
    <3>10. hosts \in Seq(HostEntry)
      BY DEF IInv, TypeOK
    <3>11. IsAllowlistOf(hosts', Append(LoadedInOrder, PolicyOf(pf)))
      BY <3>1, <3>3, <3>8, <3>9, <3>10, AddHostInOrder
    <3> QED
      BY <3>7, <3>11 DEF OrderInv
  <2>5. CASE AddGroup
    <3>1. /\ phase = "policies" /\ phase' = "files"
          /\ Len(policies) = Len(file.policies) /\ UNCHANGED <<read, policies, hosts>>
      BY <2>5 DEF AddGroup
    <3>2. n \in Nat /\ n > 0 /\ Done = 1..(n - 1) /\ Done' = 1..n
      BY <3>1, DonePoliciesType DEF Done
    <3>3. /\ DonePolicies \in Seq(Seq(UpstreamPolicy))
          /\ FlattenSeq(DonePolicies) \in Seq(UpstreamPolicy)
          /\ policies \in Seq(UpstreamPolicy)
      BY <3>1, DonePoliciesType DEF IInv, TypeOK
    <3>4. policies = GroupOf(read[n]).policies
      <4>1. \A i \in 1..Len(policies) : policies[i] = PolicyOf(file.policies[i])
        BY <3>1 DEF IInv, CurrentInv
      <4>2. policies = [i \in 1..Len(policies) |-> policies[i]]
        BY <3>3
      <4>3. policies = [i \in 1..Len(file.policies) |-> PolicyOf(file.policies[i])]
        BY <3>1, <4>1, <4>2
      <4> QED
        BY <4>3 DEF GroupOf, file
    <3>5. DonePolicies' = Append(DonePolicies, policies)
      <4>1. DonePolicies = [i \in 1..(n - 1) |-> GroupOf(read[i]).policies]
        BY <3>2 DEF DonePolicies
      <4>2. DonePolicies' = [i \in 1..n |-> GroupOf(read[i]).policies]
        BY <3>1, <3>2 DEF DonePolicies, GroupOf
      <4>3. Len(DonePolicies) = n - 1
        BY <3>2, <4>1
      <4>4. /\ Append(DonePolicies, policies) \in Seq(Seq(UpstreamPolicy))
            /\ Len(Append(DonePolicies, policies)) = n
            /\ \A i \in 1..(n - 1) :
                  Append(DonePolicies, policies)[i] = DonePolicies[i]
            /\ Append(DonePolicies, policies)[n] = policies
        BY <3>2, <3>3, <4>3, AppendProperties
      <4>5. \A i \in 1..n : Append(DonePolicies, policies)[i] = GroupOf(read[i]).policies
        <5> TAKE i \in 1..n
        <5>1. CASE i = n
          BY <3>4, <4>4, <5>1
        <5>2. CASE i \in 1..(n - 1)
          BY <4>1, <4>4, <5>2
        <5>3. i = n \/ i \in 1..(n - 1)
          BY <3>2
        <5> QED
          BY <5>1, <5>2, <5>3
      <4>6. Append(DonePolicies, policies)
              = [i \in 1..n |-> Append(DonePolicies, policies)[i]]
        <5> DEFINE appended == Append(DonePolicies, policies)
        <5>1. appended \in Seq(Seq(UpstreamPolicy)) /\ Len(appended) = n
          BY <4>4
        <5> HIDE DEF appended
        <5>2. appended = [i \in 1..n |-> appended[i]]
          BY <5>1
        <5> QED
          BY <5>2 DEF appended
      <4> QED
        BY <4>2, <4>5, <4>6
    <3>6. FlattenSeq(DonePolicies') = FlattenSeq(DonePolicies) \o policies
      BY <3>3, <3>5, FlattenSeqOfAppend
    <3>7. LoadedInOrder = FlattenSeq(DonePolicies) \o policies
      BY <3>1, Zenon DEF LoadedInOrder, DonePolicies
    <3>8. LoadedInOrder' = FlattenSeq(DonePolicies') \o <<>>
      BY <3>1 DEF LoadedInOrder, DonePolicies
    <3>9. LoadedInOrder' = LoadedInOrder
      <4>1. FlattenSeq(DonePolicies) \o policies \in Seq(UpstreamPolicy)
        BY <3>3, ConcatProperties
      <4>2. (FlattenSeq(DonePolicies) \o policies) \o <<>>
              = FlattenSeq(DonePolicies) \o policies
        BY <4>1, ConcatEmptySeq
      <4> QED
        BY <3>6, <3>7, <3>8, <4>2
    <3> QED
      BY <3>1, <3>9 DEF OrderInv
  <2> QED
    BY <2>1, <2>2, <2>3, <2>4, <2>5 DEF Next
<1> QED
  BY <1>1, <1>2, Invariance, PTL DEF Spec

\* The allowlist has the hosts of all files in their order, each with the scheme
\* of the first policy for it.
THEOREM AllowlistIsInOrder == Spec => []AllowlistInOrder
<1>1. IInv /\ OrderInv => AllowlistInOrder
  <2> SUFFICES ASSUME IInv, OrderInv, Loaded PROVE AllowlistInOrder
    BY DEF AllowlistInOrder
  <2>1. phase # "failed" /\ phase # "policies" /\ Done = 1..Len(read)
    BY DEF Loaded, Done
  <2>2. LoadedInOrder = FlattenSeq(DonePolicies) \o <<>>
    BY <2>1, Zenon DEF LoadedInOrder, DonePolicies
  <2>3. LoadedInOrder = FlattenSeq(DonePolicies)
    BY <2>1, <2>2, DonePoliciesType, ConcatEmptySeq
  <2>4. IsAllowlistOf(hosts, FlattenSeq([i \in 1..Len(read) |-> GroupOf(read[i]).policies]))
    BY <2>1, <2>3, Zenon DEF OrderInv, DonePolicies
  <2> QED
    BY <2>4, Zenon DEF AllowlistInOrder
<1> QED
  BY <1>1, Invariance, AlwaysInOrder, PTL

=============================================================================
