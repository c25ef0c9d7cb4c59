-------------------------- MODULE AccessSetProofs ---------------------------
(***************************************************************************)
(* AccessSet for any rules, any number of groups and any number of          *)
(* bindings.  GrantsExact is not inductive: it says what the finished set   *)
(* answers, not what it holds.  The invariant says what it holds: under     *)
(* every key, exactly the accesses of the bindings read.                    *)
(***************************************************************************)
EXTENDS AccessSet, TLAPS

(* The access sets hold what the bindings read so far put into them.        *)
Holds(a, S) ==
    \A k \in Key : \A access \in Access :
        access \in a[k] <=>
            \E b \in S : /\ k \in RuleKeys(b[2])
                         /\ access.ns = b[1]
                         /\ access.name \in RuleNames(b[2])

IInv ==
    /\ TypeOK
    /\ Holds(part, partSeen)
    /\ Holds(result, seen)

(* A rule's names are names or the wildcard, and its keys are keys          *)
(* (policy_rule_index.go 126-149).                                          *)
LEMMA RuleTypes ==
    ASSUME NEW rule \in Rules
    PROVE  RuleNames(rule) \subseteq Wild(Names) /\ RuleKeys(rule) \subseteq Key
BY RulesAssumption DEF RuleNames, RuleKeys, Key, Wild, All

(* Adding a rule keeps the set an access set (access_set.go 108-121).       *)
LEMMA AddAccessType ==
    ASSUME NEW a \in AccessSets, NEW ns \in Wild(Namespaces), NEW rule \in Rules
    PROVE  addAccess(a, ns, rule) \in AccessSets
<1>1. ASSUME NEW k \in Key PROVE addAccess(a, ns, rule)[k] \subseteq Access
  <2>1. [ns : {ns}, name : RuleNames(rule)] \subseteq Access
    BY RuleTypes DEF Access
  <2>2. a[k] \subseteq Access
    BY DEF AccessSets
  <2> QED BY <2>1, <2>2 DEF addAccess
<1> QED BY <1>1 DEF addAccess, AccessSets

(* Adding a rule adds exactly the accesses of its binding.                  *)
LEMMA AddAccessHolds ==
    ASSUME NEW a, NEW S \in SUBSET Bindings, NEW b \in Bindings, Holds(a, S)
    PROVE  Holds(addAccess(a, b[1], b[2]), S \cup {b})
<1> DEFINE a2 == addAccess(a, b[1], b[2])
<1> DEFINE In(x, k, access) == /\ k \in RuleKeys(x[2])
                               /\ access.ns = x[1]
                               /\ access.name \in RuleNames(x[2])
<1> SUFFICES ASSUME NEW k \in Key, NEW access \in Access
             PROVE  access \in a2[k] <=> \E x \in S \cup {b} : In(x, k, access)
  BY DEF Holds
<1>1. access \in a[k] <=> \E x \in S : In(x, k, access)
  BY DEF Holds
<1>2. access \in [ns : {b[1]}, name : RuleNames(b[2])]
        <=> access.ns = b[1] /\ access.name \in RuleNames(b[2])
  BY DEF Access
<1>3. access \in a2[k] <=> access \in a[k] \/ In(b, k, access)
  BY <1>2 DEF addAccess
<1> QED BY <1>1, <1>3

(* Merging two sets holds what either holds (access_set.go 44-59).          *)
LEMMA MergeHolds ==
    ASSUME NEW a \in AccessSets, NEW right \in AccessSets, NEW S, NEW T,
           Holds(a, S), Holds(right, T)
    PROVE  Merge(a, right) \in AccessSets /\ Holds(Merge(a, right), S \cup T)
<1>1. Merge(a, right) \in AccessSets
  BY DEF Merge, AccessSets
<1>2. Holds(Merge(a, right), S \cup T)
  <2> DEFINE In(x, k, access) == /\ k \in RuleKeys(x[2])
                                 /\ access.ns = x[1]
                                 /\ access.name \in RuleNames(x[2])
  <2> SUFFICES ASSUME NEW k \in Key, NEW access \in Access
               PROVE  access \in Merge(a, right)[k]
                        <=> \E x \in S \cup T : In(x, k, access)
    BY DEF Holds
  <2>1. access \in a[k] <=> \E x \in S : In(x, k, access)
    BY DEF Holds
  <2>2. access \in right[k] <=> \E x \in T : In(x, k, access)
    BY DEF Holds
  <2>3. access \in Merge(a, right)[k] <=> access \in a[k] \/ access \in right[k]
    BY DEF Merge
  <2> QED BY <2>1, <2>2, <2>3
<1> QED BY <1>1, <1>2

LEMMA EmptyHolds == EmptySet \in AccessSets /\ Holds(EmptySet, {})
BY DEF EmptySet, AccessSets, Holds

(* Every step of the two loops keeps the invariant.                         *)
LEMMA InductiveStep == IInv /\ [Next]_vars => IInv'
<1> SUFFICES ASSUME IInv, [Next]_vars PROVE IInv'
  OBVIOUS
<1> USE DEF IInv, TypeOK
<1>1. ASSUME NEW b \in Bindings, readBinding(b) PROVE IInv'
  <2>1. b[1] \in Wild(Namespaces) /\ b[2] \in Rules
    BY DEF Bindings
  <2>2. part' \in AccessSets
    BY <1>1, <2>1, AddAccessType DEF readBinding
  <2>3. Holds(part', partSeen')
    BY <1>1, AddAccessHolds DEF readBinding
  <2>4. Holds(result', seen')
    BY <1>1 DEF readBinding
  <2> QED BY <1>1, <2>2, <2>3, <2>4 DEF readBinding
<1>2. CASE takeUser
  <2>1. Holds(part', partSeen') /\ part' \in AccessSets
    BY <1>2, EmptyHolds DEF takeUser
  <2>2. Holds(result', seen')
    BY <1>2 DEF takeUser
  <2> QED BY <1>2, <2>1, <2>2 DEF takeUser
<1>3. CASE mergeGroup
  <2>1. Holds(part', partSeen') /\ part' \in AccessSets
    BY <1>3, EmptyHolds DEF mergeGroup
  <2>2. Holds(result', seen') /\ result' \in AccessSets
    BY <1>3, MergeHolds DEF mergeGroup
  <2> QED BY <1>3, <2>1, <2>2 DEF mergeGroup
<1>4. CASE finished \/ UNCHANGED vars
  BY <1>4 DEF finished, vars, Holds
<1> QED BY <1>1, <1>2, <1>3, <1>4 DEF Next, AccessFor

(* The invariant holds in every reachable state.                            *)
THEOREM Invariance == Spec => []IInv
<1>1. Init => IInv
  BY EmptyHolds DEF Init, IInv, TypeOK
<1> QED BY <1>1, InductiveStep, PTL DEF Spec

(* The sets under construction stay access sets.                            *)
THEOREM TypeCorrect == Spec => []TypeOK
<1>1. IInv => TypeOK
  BY DEF IInv
<1> QED BY <1>1, Invariance, PTL

(* Looking a request up under the eight keys asks the wildcard question of  *)
(* each of a rule's three lists.                                            *)
LEMMA LookupMatches ==
    ASSUME NEW rule \in Rules, NEW verb \in Verbs, NEW group \in Groups,
           NEW resource \in Resources
    PROVE  (\E k \in LookupKeys(verb, group, resource) : k \in RuleKeys(rule))
             <=> /\ Matches(rule.verbs, verb)
                 /\ Matches(rule.groups, group)
                 /\ Matches(rule.resources, resource)
<1>1. ASSUME NEW k \in LookupKeys(verb, group, resource), k \in RuleKeys(rule)
      PROVE  /\ Matches(rule.verbs, verb)
             /\ Matches(rule.groups, group)
             /\ Matches(rule.resources, resource)
  BY <1>1 DEF LookupKeys, RuleKeys, Matches
<1>2. ASSUME Matches(rule.verbs, verb), Matches(rule.groups, group),
             Matches(rule.resources, resource)
      PROVE  \E k \in LookupKeys(verb, group, resource) : k \in RuleKeys(rule)
  <2>1. PICK v \in {All, verb} : v \in rule.verbs
    BY <1>2 DEF Matches
  <2>2. PICK g \in {All, group} : g \in rule.groups
    BY <1>2 DEF Matches
  <2>3. PICK r \in {All, resource} : r \in rule.resources
    BY <1>2 DEF Matches
  <2> DEFINE k == [verb |-> v, group |-> g, resource |-> r]
  <2>4. k \in LookupKeys(verb, group, resource)
    BY DEF LookupKeys
  <2>5. k \in RuleKeys(rule)
    BY <2>1, <2>2, <2>3 DEF RuleKeys
  <2> QED BY <2>4, <2>5
<1> QED BY <1>1, <1>2

LEMMA LookupKeysType ==
    ASSUME NEW verb \in Verbs, NEW group \in Groups, NEW resource \in Resources
    PROVE  LookupKeys(verb, group, resource) \subseteq Key
BY DEF LookupKeys, Key, Wild

(* An access of a binding grants an object exactly when the binding's       *)
(* namespace and names allow it (access_set.go 199-209).                    *)
LEMMA NamesMatch ==
    ASSUME NEW rule \in Rules, NEW name \in Names
    PROVE  (\E n \in RuleNames(rule) : n = All \/ n = name)
             <=> rule.names = {} \/ name \in rule.names
BY RulesAssumption, WildcardAssumption DEF RuleNames

(* Grants answers what the bindings allow, for any set that holds them.     *)
LEMMA HoldsGrants ==
    ASSUME NEW a, NEW S \in SUBSET Bindings, Holds(a, S), a \in AccessSets,
           NEW verb \in Verbs, NEW group \in Groups, NEW resource \in Resources,
           NEW ns, NEW name \in Names
    PROVE  Grants(a, verb, group, resource, ns, name)
             <=> Allowed(S, verb, group, resource, ns, name)
<1>1. ASSUME Grants(a, verb, group, resource, ns, name)
      PROVE  Allowed(S, verb, group, resource, ns, name)
  <2>1. PICK k \in LookupKeys(verb, group, resource) :
            \E access \in a[k] : AccessGrants(access, ns, name)
    BY <1>1 DEF Grants
  <2>2. PICK access \in a[k] : AccessGrants(access, ns, name)
    BY <2>1
  <2>3. k \in Key /\ access \in Access
    BY LookupKeysType DEF AccessSets
  <2>4. PICK b \in S : /\ k \in RuleKeys(b[2])
                       /\ access.ns = b[1]
                       /\ access.name \in RuleNames(b[2])
    BY <2>3 DEF Holds
  <2>5. b[2] \in Rules
    BY DEF Bindings
  <2>6. b[2].names = {} \/ name \in b[2].names
    BY <2>2, <2>4, <2>5, NamesMatch DEF AccessGrants, nameOK
  <2>7. b[1] = All \/ b[1] = ns
    BY <2>2, <2>4 DEF AccessGrants, nsOK
  <2>8. /\ Matches(b[2].verbs, verb)
        /\ Matches(b[2].groups, group)
        /\ Matches(b[2].resources, resource)
    BY <2>4, <2>5, LookupMatches
  <2> QED BY <2>6, <2>7, <2>8 DEF Allowed, BindingAllows
<1>2. ASSUME Allowed(S, verb, group, resource, ns, name)
      PROVE  Grants(a, verb, group, resource, ns, name)
  <2>1. PICK b \in S : BindingAllows(b, verb, group, resource, ns, name)
    BY <1>2 DEF Allowed
  <2>2. b[1] \in Wild(Namespaces) /\ b[2] \in Rules
    BY DEF Bindings
  <2>3. PICK k \in LookupKeys(verb, group, resource) : k \in RuleKeys(b[2])
    BY <2>1, <2>2, LookupMatches DEF BindingAllows
  <2>4. PICK n \in RuleNames(b[2]) : n = All \/ n = name
    BY <2>1, <2>2, NamesMatch DEF BindingAllows
  <2> DEFINE access == [ns |-> b[1], name |-> n]
  <2>5. access \in Access
    BY <2>2, <2>4, RuleTypes DEF Access
  <2>6. k \in Key
    BY LookupKeysType
  <2>7. access \in a[k]
    BY <2>3, <2>4, <2>5, <2>6 DEF Holds
  <2>8. AccessGrants(access, ns, name)
    BY <2>1, <2>4 DEF AccessGrants, nsOK, nameOK, BindingAllows
  <2> QED BY <2>7, <2>8 DEF Grants
<1> QED BY <1>1, <1>2

(* Whatever rules a user and its groups are bound to, in whatever order     *)
(* they are read and merged, Grants answers exactly what they allow.        *)
THEOREM GrantsCorrect == Spec => []GrantsExact
<1>1. IInv => GrantsExact
  BY HoldsGrants DEF IInv, TypeOK, GrantsExact
<1> QED BY <1>1, Invariance, PTL

(* An unfiltered list is made only for a subject allowed every object       *)
(* (access_set.go 129-131).                                                 *)
THEOREM AllCorrect == Spec => []AllMeansAll
<1>1. ASSUME IInv, NEW verb \in Verbs, NEW group \in Groups, NEW resource \in Resources,
             ListGrants(AccessListFor(result, verb, group, resource), All, All),
             NEW ns \in Namespaces, NEW name \in Names
      PROVE  Allowed(seen, verb, group, resource, ns, name)
  <2>1. PICK access \in AccessListFor(result, verb, group, resource) :
            AccessGrants(access, All, All)
    BY <1>1 DEF ListGrants
  <2>2. AccessGrants(access, ns, name)
    BY <2>1 DEF AccessGrants, nsOK, nameOK
  <2>3. PICK k \in LookupKeys(verb, group, resource) : access \in result[k]
    BY DEF AccessListFor
  <2>4. Grants(result, verb, group, resource, ns, name)
    BY <2>2, <2>3 DEF Grants
  <2> QED BY <1>1, <2>4, HoldsGrants DEF IInv, TypeOK
<1>2. IInv => AllMeansAll
  BY <1>1 DEF AllMeansAll
<1> QED BY <1>2, Invariance, PTL
=============================================================================
