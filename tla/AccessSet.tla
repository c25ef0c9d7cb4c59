----------------------------- MODULE AccessSet ------------------------------
(***************************************************************************)
(* pkg/accesscontrol/access_set.go, and the two loops that fill a set: one  *)
(* policy rule after the other into the set of a subject                    *)
(* (policy_rule_index.go, get and addAccess), and the sets of a user and of *)
(* the user's groups into one (access_store.go, AccessFor).                 *)
(*                                                                          *)
(* Which bindings a subject has is the environment's choice: the loops here *)
(* are run on any of them.  (The AccessSetLookup that fills a set may also  *)
(* be one the embedding program supplies, server.go 46 and 61.)             *)
(*                                                                          *)
(* Data abstraction: a Go map with an absent or an empty entry behaves the  *)
(* same here, so the set is a total function from keys to sets of Access.   *)
(***************************************************************************)
EXTENDS Naturals, FiniteSets

CONSTANTS
    Verbs, Groups, Resources, Namespaces, Names,  \* without the wildcard
    Rules,      \* policy rules: [verbs, groups, resources, names]
    MaxGroups,  \* groups of the user (bound of the model)
    MaxBindings \* rules bound to one subject (bound of the model)

All == "*"

Wild(S) == S \cup {All}

ASSUME WildcardAssumption ==
    /\ All \notin Verbs /\ All \notin Groups /\ All \notin Resources
    /\ All \notin Namespaces /\ All \notin Names
ASSUME RulesAssumption ==
    \A rule \in Rules :
        /\ rule.verbs \subseteq Wild(Verbs)
        /\ rule.groups \subseteq Wild(Groups)
        /\ rule.resources \subseteq Wild(Resources)
        /\ rule.names \subseteq Names
ASSUME BoundsAssumption == MaxGroups \in Nat /\ MaxBindings \in Nat

Key == [verb : Wild(Verbs), group : Wild(Groups), resource : Wild(Resources)]

Access == [ns : Wild(Namespaces), name : Wild(Names)]

EmptySet == [k \in Key |-> {}]

(* Seeded fault: asking for all names is granted by an access to one.       *)
nameOK_AllByOne(access, name) ==
    access.name = All \/ access.name = name \/ name = All

nsOK(access, ns) == access.ns = All \/ access.ns = ns
nameOK(access, name) == access.name = All \/ access.name = name
AccessGrants(access, ns, name) == nsOK(access, ns) /\ nameOK(access, name)

(* The keys under which Grants and AccessListFor look a request up.         *)
LookupKeys(verb, group, resource) ==
    [verb : {All, verb}, group : {All, group}, resource : {All, resource}]

Grants(a, verb, group, resource, ns, name) ==
    \E k \in LookupKeys(verb, group, resource) :
        \E access \in a[k] : AccessGrants(access, ns, name)

AccessListFor(a, verb, group, resource) ==
    UNION {a[k] : k \in LookupKeys(verb, group, resource)}

ListGrants(list, ns, name) == \E access \in list : AccessGrants(access, ns, name)

(* Seeded fault: a key both sets hold keeps only the left one's accesses.   *)
Merge_KeepsLeft(a, right) ==
    [k \in Key |-> IF a[k] = {} THEN right[k] ELSE a[k]]

Merge(a, right) == [k \in Key |-> a[k] \cup right[k]]

(* A rule that lists no resource names is about all of them.                *)
RuleNames(rule) == IF rule.names = {} THEN {All} ELSE rule.names

(* The keys under which the nested loops add a rule's accesses.             *)
RuleKeys(rule) ==
    [verb : rule.verbs, group : rule.groups, resource : rule.resources]

(* accessSet.Add for every group, resource, name and verb of a rule.        *)
addAccess(a, ns, rule) ==
    [k \in Key |->
        IF k \in RuleKeys(rule)
        THEN a[k] \cup [ns : {ns}, name : RuleNames(rule)]
        ELSE a[k]]

(* Namespaces named by an access for get or list.                           *)
NamespacesOf(a) ==
    {ns \in Namespaces :
        \E k \in Key : /\ k.verb \in {"get", "list"}
                       /\ \E access \in a[k] : access.ns = ns}

-----------------------------------------------------------------------------
VARIABLES
    part,      \* the set policyRuleIndex.get is filling, for one subject
    partSeen,  \* history: the bindings it has read, <<namespace, rule>>
    result,    \* the set AccessFor is building
    seen,      \* history: the bindings of the subjects merged so far
    subjects   \* subjects merged so far: the user first, then the groups

vars == <<part, partSeen, result, seen, subjects>>

Bindings == Wild(Namespaces) \X Rules

Init ==
    /\ part = EmptySet /\ partSeen = {}
    /\ result = EmptySet /\ seen = {}
    /\ subjects = 0

readBinding(b) ==
    /\ subjects <= MaxGroups
    /\ b \notin partSeen /\ Cardinality(partSeen) < MaxBindings
    /\ part' = addAccess(part, b[1], b[2])
    /\ partSeen' = partSeen \cup {b}
    /\ UNCHANGED <<result, seen, subjects>>

(* result := l.users.get(name)                                              *)
takeUser ==
    /\ subjects = 0
    /\ result' = part /\ seen' = partSeen
    /\ part' = EmptySet /\ partSeen' = {}
    /\ subjects' = 1

(* result.Merge(l.groups.get(group))                                        *)
mergeGroup ==
    /\ subjects \in 1..MaxGroups
    /\ result' = Merge(result, part) /\ seen' = seen \cup partSeen
    /\ part' = EmptySet /\ partSeen' = {}
    /\ subjects' = subjects + 1

finished == subjects > MaxGroups /\ UNCHANGED vars

AccessFor == takeUser \/ mergeGroup

Next ==
    \/ \E b \in Bindings : readBinding(b)
    \/ AccessFor
    \/ finished

Spec == Init /\ [][Next]_vars

-----------------------------------------------------------------------------
(* What Kubernetes RBAC says a binding of a rule allows, the wildcards and  *)
(* the empty list of names included.                                        *)
Matches(S, x) == All \in S \/ x \in S

BindingAllows(b, verb, group, resource, ns, name) ==
    /\ b[1] = All \/ b[1] = ns
    /\ Matches(b[2].verbs, verb)
    /\ Matches(b[2].groups, group)
    /\ Matches(b[2].resources, resource)
    /\ b[2].names = {} \/ name \in b[2].names

Allowed(S, verb, group, resource, ns, name) ==
    \E b \in S : BindingAllows(b, verb, group, resource, ns, name)

AccessSets == [Key -> SUBSET Access]

(* Types of the sets under construction.                                    *)
TypeOK ==
    /\ part \in AccessSets /\ result \in AccessSets
    /\ partSeen \subseteq Bindings /\ seen \subseteq Bindings
    /\ subjects \in Nat

(* Whatever rules were added in whatever order and merged over whatever     *)
(* groups, Grants answers exactly what the bindings allow (access_set.go    *)
(* 44-81, 108-121; policy_rule_index.go 126-149).                           *)
GrantsExact ==
    \A verb \in Verbs, group \in Groups, resource \in Resources,
       ns \in Namespaces, name \in Names :
        Grants(result, verb, group, resource, ns, name)
          <=> Allowed(seen, verb, group, resource, ns, name)

(* The whole-cluster question AccessListByVerb.All asks with "*" as its     *)
(* namespace and name is true only when every object is allowed, so a       *)
(* passthrough list never needs filtering (access_set.go 129-131, 83-106).  *)
AllMeansAll ==
    \A verb \in Verbs, group \in Groups, resource \in Resources :
        ListGrants(AccessListFor(result, verb, group, resource), All, All) =>
            \A ns \in Namespaces, name \in Names :
                Allowed(seen, verb, group, resource, ns, name)
=============================================================================
