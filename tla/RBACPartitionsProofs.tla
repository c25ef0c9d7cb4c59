------------------------ MODULE RBACPartitionsProofs ------------------------
(***************************************************************************)
(* RBACPartitions for any rules, bindings, objects and requests.  Nothing   *)
(* but AccessSet's invariant is needed of the access set: it holds exactly  *)
(* the accesses of the bindings read.  The rest is about the partitions     *)
(* computed from such a set.                                                *)
(***************************************************************************)
EXTENDS RBACPartitions, AccessSetProofs

VA(req) == VerbAccess(result, req.group, req.resource)

(* What a request's fields are.                                             *)
LEMMA RequestTypes ==
    ASSUME NEW req \in Requests
    PROVE  /\ req.group \in Groups /\ req.resource \in Resources
           /\ req.ns \in Namespaces \cup {NoNamespace}
           /\ req.constraint = Unconstrained \/ req.constraint \subseteq Namespaces
           /\ req.ns # NoNamespace => req.resource \in Namespaced
BY DEF Requests

(* The objects of a resource.                                               *)
LEMMA ObjectTypes ==
    ASSUME NEW resource, NEW object \in Objects(resource)
    PROVE  /\ object[2] \in Names
           /\ resource \in Namespaced => object[1] \in Namespaces
           /\ resource \notin Namespaced => object[1] = NoNamespace
BY DEF Objects

(* An access recorded on the schema for list is one of the access set; one  *)
(* recorded for get is too, or it stands for a namespace in which something *)
(* can be read.  Resources without namespaces keep the cluster-wide ones    *)
(* (factory.go 64-103).                                                     *)
LEMMA VerbAccessIs ==
    ASSUME NEW a, NEW group, NEW resource
    PROVE  LET va == VerbAccess(a, group, resource)
           IN  /\ va["list"] = Trim(AccessListFor(a, "list", group, resource), resource)
               /\ \/ va["get"] = Trim(AccessListFor(a, "get", group, resource), resource)
                  \/ resource = "namespaces" /\ va["get"] = NamespaceAccess(a)
BY VerbsAssumption DEF VerbAccess

(* An access of the list of a verb grants what some binding allows.         *)
LEMMA ListedAllowed ==
    ASSUME IInv, NEW verb \in Verbs, NEW group \in Groups, NEW resource \in Resources,
           NEW access \in AccessListFor(result, verb, group, resource),
           NEW ns, NEW name \in Names, AccessGrants(access, ns, name)
    PROVE  Allowed(seen, verb, group, resource, ns, name)
<1>1. Grants(result, verb, group, resource, ns, name)
  BY DEF Grants, AccessListFor
<1>2. Holds(result, seen) /\ result \in AccessSets /\ seen \in SUBSET Bindings
  BY DEF IInv, TypeOK
<1> QED BY <1>1, <1>2, HoldsGrants

LEMMA ListAllowed ==
    ASSUME IInv, NEW req \in Requests, NEW access \in VA(req)["list"],
           NEW ns, NEW name \in Names, AccessGrants(access, ns, name)
    PROVE  Allowed(seen, "list", req.group, req.resource, ns, name)
<1>1. access \in AccessListFor(result, "list", req.group, req.resource)
  BY VerbAccessIs DEF VA, Trim
<1> QED BY <1>1, ListedAllowed, RequestTypes, VerbsAssumption

(* An access of the schema is one to list or get an object, cluster-wide if *)
(* the resource has no namespaces, or one of namespaces.                    *)
LEMMA VerbAccessAllowed ==
    ASSUME IInv, NEW req \in Requests, NEW access \in VA(req)["list"] \cup VA(req)["get"],
           NEW object \in Objects(req.resource), access.name = object[2]
    PROVE  /\ req.resource \notin Namespaced => access.ns = All
           /\ nsOK(access, object[1]) => Readable(req, object)
<1>1. object[2] \in Names
  BY ObjectTypes
<1>2. CASE access \in NamespaceAccess(result) /\ req.resource = "namespaces"
  BY <1>1, <1>2 DEF NamespaceAccess, Readable
<1>3. ASSUME NEW verb \in {"get", "list"},
             access \in Trim(AccessListFor(result, verb, req.group, req.resource), req.resource)
      PROVE  /\ req.resource \notin Namespaced => access.ns = All
             /\ nsOK(access, object[1]) => Readable(req, object)
  <2>1. access \in AccessListFor(result, verb, req.group, req.resource)
        /\ (req.resource \in Namespaced \/ access.ns = All)
    BY <1>3 DEF Trim
  <2>2. ASSUME nsOK(access, object[1]) PROVE Readable(req, object)
    <3>1. AccessGrants(access, object[1], object[2])
      BY <2>2 DEF AccessGrants, nameOK
    <3>2. Allowed(seen, verb, req.group, req.resource, object[1], object[2])
      BY <1>1, <2>1, <3>1, ListedAllowed, RequestTypes, VerbsAssumption
    <3> QED BY <3>2 DEF Readable
  <2> QED BY <2>1, <2>2
<1> QED BY <1>2, <1>3, VerbAccessIs DEF VA

(* The accesses of a schema are accesses.                                   *)
LEMMA VerbAccessType ==
    ASSUME IInv, NEW req \in Requests, NEW access \in VA(req)["list"] \cup VA(req)["get"]
    PROVE  access.ns \in Wild(Namespaces)
<1>1. CASE access \in NamespaceAccess(result)
  BY <1>1 DEF NamespaceAccess, Wild
<1>2. ASSUME NEW verb \in Verbs,
             access \in Trim(AccessListFor(result, verb, req.group, req.resource), req.resource)
      PROVE  access.ns \in Wild(Namespaces)
  <2>1. PICK k \in LookupKeys(verb, req.group, req.resource) : access \in result[k]
    BY <1>2 DEF Trim, AccessListFor
  <2>2. k \in Key
    BY LookupKeysType, RequestTypes
  <2> QED BY <2>1, <2>2 DEF IInv, TypeOK, AccessSets, Access
<1> QED BY <1>1, <1>2, VerbAccessIs, VerbsAssumption DEF VA

(* What Granted says of a namespace (access_set.go 138-171).                *)
LEMMA GrantedAll ==
    ASSUME NEW va, NEW ns
    PROVE  Granted(va, ns).all <=> \E x \in va["list"] : x.ns = ns /\ x.name = All
BY DEF Granted

LEMMA GrantedNames ==
    ASSUME NEW va, NEW ns, NEW name
    PROVE  name \in Granted(va, ns).names
             <=> name # All /\ \E x \in va["list"] \cup va["get"] : x.ns = ns /\ x.name = name
BY DEF Granted, GetNames

-----------------------------------------------------------------------------
(* The partitions of a request without a constraint, by the three ways      *)
(* isPassthroughUnconstrained may end (rbac_store.go 157-203).              *)
LEMMA PartitionsAre ==
    ASSUME NEW va, NEW req, NEW p \in isPassthrough(va, req)
    PROVE  \/ /\ isPassthroughUnconstrained(va, req) = Passthrough
              /\ \/ req.constraint = Unconstrained /\ p \in Passthrough
                 \/ /\ req.constraint # Unconstrained
                    /\ \E ns \in req.constraint : p = Partition(ns, TRUE, {})
           \/ /\ p \in isPassthroughUnconstrained(va, req)
              /\ isPassthroughUnconstrained(va, req) # Passthrough
              /\ req.constraint = Unconstrained \/ p.ns \in req.constraint
BY DEF isPassthrough

LEMMA NotPassthrough ==
    ASSUME NEW va, NEW req, NEW p \in isPassthroughUnconstrained(va, req),
           isPassthroughUnconstrained(va, req) # Passthrough
    PROVE  /\ ~ListGrants(va["list"], All, All)
           /\ \/ /\ req.ns # NoNamespace /\ ~Granted(va, req.ns).all
                 /\ p = Partition(req.ns, FALSE, Granted(va, req.ns).names)
              \/ /\ req.ns = NoNamespace
                 /\ \E ns \in GrantedNamespaces(va) :
                      p = Partition(IF req.resource \in Namespaced THEN ns ELSE NoNamespace,
                                    Granted(va, ns).all, Granted(va, ns).names)
BY DEF isPassthroughUnconstrained

LEMMA PassthroughIs ==
    (\E p \in Passthrough : TRUE) /\ \A p \in Passthrough : p.passthrough = TRUE
BY DEF Passthrough

(* A partition listed by the admin client holds objects of one namespace,   *)
(* or of none, that an access of the schema names.                          *)
LEMMA AdminPartition ==
    ASSUME NEW va, NEW req \in Requests, NEW p \in isPassthrough(va, req), ~ByUser(p),
           NEW object \in ListPartition(p, req)
    PROVE  /\ object \in Objects(req.resource)
           /\ req.constraint = Unconstrained \/ p.ns \in req.constraint
           /\ p.ns = NoNamespace \/ p.ns = object[1]
           /\ req.ns = NoNamespace \/ p.ns = req.ns
           /\ \E x \in va["list"] \cup va["get"] :
                /\ x.name = object[2]
                /\ IF req.resource \in Namespaced THEN x.ns = p.ns ELSE p.ns = NoNamespace
           /\ p.ns # All
<1>1. /\ object \in Objects(req.resource) /\ p.ns # All
      /\ InScope(p.ns, object) /\ object[2] \in p.names
  BY DEF ListPartition
<1>2. /\ p \in isPassthroughUnconstrained(va, req)
      /\ isPassthroughUnconstrained(va, req) # Passthrough
      /\ req.constraint = Unconstrained \/ p.ns \in req.constraint
  <2>1. p \notin Passthrough
    BY DEF ByUser, Passthrough
  <2>2. \A ns : p # Partition(ns, TRUE, {})
    BY DEF ByUser, Partition
  <2> QED BY <2>1, <2>2, PartitionsAre
<1>3. CASE req.ns # NoNamespace
  <2>1. p = Partition(req.ns, FALSE, Granted(va, req.ns).names)
    BY <1>2, <1>3, NotPassthrough
  <2>2. p.ns = req.ns /\ object[2] \in Granted(va, req.ns).names
    BY <1>1, <2>1 DEF Partition
  <2>3. \E x \in va["list"] \cup va["get"] : x.ns = p.ns /\ x.name = object[2]
    BY <2>2, GrantedNames
  <2> QED BY <1>1, <1>2, <1>3, <2>2, <2>3, RequestTypes DEF InScope
<1>4. CASE req.ns = NoNamespace
  <2>1. PICK ns \in GrantedNamespaces(va) :
            p = Partition(IF req.resource \in Namespaced THEN ns ELSE NoNamespace,
                          Granted(va, ns).all, Granted(va, ns).names)
    BY <1>2, <1>4 DEF isPassthroughUnconstrained
  <2>2. /\ p.ns = (IF req.resource \in Namespaced THEN ns ELSE NoNamespace)
        /\ object[2] \in Granted(va, ns).names
    BY <1>1, <2>1 DEF Partition
  <2>3. \E x \in va["list"] \cup va["get"] : x.ns = ns /\ x.name = object[2]
    BY <2>2, GrantedNames
  <2> QED BY <1>1, <1>2, <1>4, <2>2, <2>3 DEF InScope
<1> QED BY <1>3, <1>4

(* What the admin client lists for a user is readable by that user, and in  *)
(* the namespaces the request is about, for any rules, bindings and         *)
(* requests (rbac_store.go 111-203, access_set.go 138-171).                 *)
THEOREM SoundPartitions == Spec => []PartitionsSound
<1>1. ASSUME IInv, NEW req \in Requests, NEW p \in isPassthrough(VA(req), req), ~ByUser(p),
             NEW object \in ListPartition(p, req)
      PROVE  /\ Readable(req, object)
             /\ InScope(req.ns, object)
             /\ req.constraint = Unconstrained \/ object[1] \in req.constraint
  <2>1. /\ object \in Objects(req.resource)
        /\ req.constraint = Unconstrained \/ p.ns \in req.constraint
        /\ p.ns = NoNamespace \/ p.ns = object[1]
        /\ req.ns = NoNamespace \/ p.ns = req.ns
    BY <1>1, AdminPartition
  <2>2. PICK x \in VA(req)["list"] \cup VA(req)["get"] :
            /\ x.name = object[2]
            /\ IF req.resource \in Namespaced THEN x.ns = p.ns ELSE p.ns = NoNamespace
    BY <1>1, AdminPartition
  <2>3. InScope(req.ns, object)
    BY <2>1 DEF InScope
  <2>4. req.constraint = Unconstrained \/ object[1] \in req.constraint
    BY <2>1, RequestTypes, NoNamespaceAssumption
  <2>5. Readable(req, object)
    <3>1. CASE req.resource \notin Namespaced
      BY <1>1, <2>1, <2>2, <3>1, VerbAccessAllowed DEF nsOK
    <3>2. CASE req.resource \in Namespaced /\ p.ns = object[1]
      BY <1>1, <2>1, <2>2, <3>2, VerbAccessAllowed DEF nsOK
    <3>3. CASE req.resource \in Namespaced /\ p.ns = NoNamespace
      (* No access is to the empty namespace.                               *)
      <4>1. x.ns = NoNamespace
        BY <2>2, <3>3
      <4>2. x.ns \in Wild(Namespaces)
        BY <1>1, VerbAccessType
      <4> QED BY <4>1, <4>2, NoNamespaceAssumption DEF Wild, All, NoNamespace
    <3> QED BY <2>1, <3>1, <3>2, <3>3
  <2> QED BY <2>3, <2>4, <2>5
<1>2. IInv => PartitionsSound
  BY <1>1 DEF PartitionsSound, VA
<1> QED BY <1>2, Invariance, PTL

-----------------------------------------------------------------------------
(* An access of a binding that may list an object is recorded for list.     *)
LEMMA ListableAccess ==
    ASSUME IInv, NEW req \in Requests, NEW object \in Objects(req.resource),
           Listable(req, object)
    PROVE  \E x \in VA(req)["list"] :
                /\ x.ns = All \/ x.ns = object[1]
                /\ x.name = All \/ x.name = object[2]
                /\ req.resource \notin Namespaced => x.ns = All
                /\ req.resource \in Namespaced /\ x.ns = All => x.name = All
<1>1. PICK b \in seen : ~NamedClusterWide(b, req) /\
            BindingAllows(b, "list", req.group, req.resource, object[1], object[2])
  BY DEF Listable
<1>2. b[1] \in Wild(Namespaces) /\ b[2] \in Rules
  BY DEF IInv, TypeOK, Bindings
<1>3. /\ req.group \in Groups /\ req.resource \in Resources /\ "list" \in Verbs
      /\ object[2] \in Names
  BY RequestTypes, ObjectTypes, VerbsAssumption
<1>4. PICK k \in LookupKeys("list", req.group, req.resource) : k \in RuleKeys(b[2])
  BY <1>1, <1>2, <1>3, LookupMatches DEF BindingAllows
<1>5. PICK n \in RuleNames(b[2]) : n = All \/ n = object[2]
  BY <1>1, <1>2, <1>3, NamesMatch DEF BindingAllows
<1> DEFINE x == [ns |-> b[1], name |-> n]
<1>6. x \in Access /\ x.ns = b[1] /\ x.name = n
  BY <1>2, <1>5, RuleTypes DEF Access
<1>7. k \in Key
  BY <1>3, LookupKeysType
<1>8. x \in result[k]
  BY <1>4, <1>5, <1>6, <1>7 DEF Holds, IInv
<1> HIDE DEF x
<1>9. x \in AccessListFor(result, "list", req.group, req.resource)
  BY <1>8 DEF AccessListFor
<1>10. b[1] = All \/ b[1] = object[1]
  BY <1>1 DEF BindingAllows
<1>11. req.resource \notin Namespaced => x.ns = All
  BY <1>2, <1>6, <1>10, ObjectTypes, NoNamespaceAssumption DEF Wild, All, NoNamespace
<1>12. x \in VA(req)["list"]
  BY <1>9, <1>11, VerbAccessIs DEF VA, Trim
<1>13. req.resource \in Namespaced /\ x.ns = All => x.name = All
  BY <1>1, <1>5, <1>6 DEF NamedClusterWide, RuleNames
<1> QED BY <1>5, <1>6, <1>10, <1>11, <1>12, <1>13

(* A listable object is in some partition of the request.                   *)
LEMMA NothingMissed ==
    ASSUME IInv, NEW req \in Requests,
           req.constraint = Unconstrained \/ req.ns = NoNamespace,
           NEW object \in Objects(req.resource), Listable(req, object),
           InScope(req.ns, object),
           req.constraint = Unconstrained \/ object[1] \in req.constraint
    PROVE  \E p \in isPassthrough(VA(req), req) : object \in ListPartition(p, req)
<1> DEFINE va == VA(req)
           partitions == isPassthroughUnconstrained(va, req)
<1>1. PICK x \in va["list"] : /\ x.ns = All \/ x.ns = object[1]
                              /\ x.name = All \/ x.name = object[2]
                              /\ req.resource \notin Namespaced => x.ns = All
                              /\ req.resource \in Namespaced /\ x.ns = All => x.name = All
  BY ListableAccess
<1>2. /\ object[2] \in Names /\ object[2] # All
      /\ req.resource \in Namespaced => object[1] \in Namespaces /\ object[1] # All
      /\ req.resource \notin Namespaced => object[1] = NoNamespace
      /\ NoNamespace # All
  BY ObjectTypes, WildcardAssumption DEF All, NoNamespace
<1>3. req.ns # NoNamespace => req.resource \in Namespaced
  BY RequestTypes
<1> HIDE DEF va
<1>4. CASE partitions = Passthrough
  <2>1. CASE req.constraint = Unconstrained
    <3>1. PICK p \in Passthrough : p.passthrough
      BY DEF Passthrough
    <3>2. p \in isPassthrough(va, req)
      BY <1>4, <2>1, <3>1 DEF isPassthrough
    <3>3. object \in ListPartition(p, req)
      BY <3>1 DEF ListPartition, ByUser, ClientNamespace
    <3> QED BY <3>2, <3>3 DEF va
  <2>2. CASE req.constraint # Unconstrained
    <3> DEFINE p == Partition(object[1], TRUE, {})
    <3>1. p \in isPassthrough(va, req)
      BY <1>4, <2>2 DEF isPassthrough
    <3>2. p.all /\ p.ns = object[1] /\ p.passthrough = FALSE
      BY DEF Partition
    <3>3. object \in ListPartition(p, req)
      BY <3>2 DEF ListPartition, ByUser, ClientNamespace, InScope
    <3> QED BY <3>1, <3>3 DEF va
  <2> QED BY <2>1, <2>2
<1>5. CASE partitions # Passthrough
  <2>1. ~ListGrants(va["list"], All, All)
    BY <1>5 DEF isPassthroughUnconstrained
  <2>2. ~(x.ns = All /\ x.name = All)
    BY <2>1 DEF ListGrants, AccessGrants, nsOK, nameOK
  <2>3. IF req.resource \in Namespaced THEN x.ns = object[1] /\ x.ns # All
        ELSE x.ns = All /\ x.name = object[2]
    BY <1>1, <1>2, <2>2
  <2>4. Granted(va, x.ns).all \/ object[2] \in Granted(va, x.ns).names
    <3>1. CASE x.name = All
      BY <3>1, GrantedAll
    <3>2. CASE x.name = object[2]
      BY <1>2, <3>2, GrantedNames
    <3> QED BY <1>1, <3>1, <3>2
  <2>5. CASE req.ns # NoNamespace
    <3> DEFINE p == Partition(req.ns, FALSE, Granted(va, req.ns).names)
    <3>1. x.ns = req.ns /\ req.constraint = Unconstrained
      BY <1>3, <2>3, <2>5 DEF InScope
    <3>2. ~Granted(va, req.ns).all
      BY <1>5, <2>1, <2>5 DEF isPassthroughUnconstrained
    <3>3. p \in isPassthrough(va, req)
      BY <2>1, <2>5, <3>1, <3>2 DEF isPassthrough, isPassthroughUnconstrained
    <3>4. /\ p.all = FALSE /\ p.ns = req.ns /\ p.passthrough = FALSE
          /\ p.names = Granted(va, req.ns).names
      BY DEF Partition
    <3> HIDE DEF p
    <3>5. object \in ListPartition(p, req)
      BY <1>3, <2>3, <2>4, <2>5, <3>1, <3>2, <3>4 DEF ListPartition, ByUser
    <3> QED BY <3>3, <3>5 DEF va
  <2>6. CASE req.ns = NoNamespace
    <3> DEFINE p == Partition(IF req.resource \in Namespaced THEN x.ns ELSE NoNamespace,
                              Granted(va, x.ns).all, Granted(va, x.ns).names)
    <3>1. x.ns \in Wild(Namespaces)
      BY <1>2, <2>3 DEF Wild
    <3>2. x.ns \in GrantedNamespaces(va)
      BY <2>4, <3>1 DEF GrantedNamespaces
    <3>3. p \in partitions
      BY <2>1, <2>6, <3>2 DEF isPassthroughUnconstrained
    <3>4. /\ p.all = Granted(va, x.ns).all /\ p.passthrough = FALSE
          /\ p.names = Granted(va, x.ns).names
          /\ p.ns = IF req.resource \in Namespaced THEN x.ns ELSE NoNamespace
      BY DEF Partition
    <3> HIDE DEF p, partitions
    <3>5. req.constraint = Unconstrained \/ p.ns \in req.constraint
      BY <1>2, <2>3, <3>4, RequestTypes, NoNamespaceAssumption
    <3>6. p \in isPassthrough(va, req)
      BY <1>5, <3>3, <3>5 DEF isPassthrough, partitions
    <3>7. object \in ListPartition(p, req)
      BY <1>2, <2>3, <2>4, <3>4 DEF ListPartition, ByUser, ClientNamespace, InScope
    <3> QED BY <3>6, <3>7 DEF va
  <2> QED BY <2>5, <2>6
<1> QED BY <1>4, <1>5

(* A list made with the user's own client asks for nothing the user may not *)
(* list.                                                                    *)
LEMMA OwnClientAllowed ==
    ASSUME IInv, NEW req \in Requests,
           req.constraint = Unconstrained \/ req.ns = NoNamespace,
           NEW p \in isPassthrough(VA(req), req), ByUser(p),
           NEW object \in ListPartition(p, req)
    PROVE  Allowed(seen, "list", req.group, req.resource, object[1], object[2])
<1> DEFINE va == VA(req)
           partitions == isPassthroughUnconstrained(va, req)
<1>1. object \in Objects(req.resource) /\ object[2] \in Names
  BY ObjectTypes DEF ListPartition
<1> SUFFICES \E x \in va["list"] : AccessGrants(x, object[1], object[2])
  BY <1>1, ListAllowed
<1>2. CASE ListGrants(va["list"], All, All)
  BY <1>2 DEF ListGrants, AccessGrants, nsOK, nameOK
<1>3. CASE ~ListGrants(va["list"], All, All) /\ req.ns # NoNamespace
  <2>1. CASE Granted(va, req.ns).all
    <3>1. partitions = Passthrough
      BY <1>3, <2>1 DEF isPassthroughUnconstrained
    <3>2. p.passthrough
      <4>1. req.constraint = Unconstrained
        BY <1>3
      <4>2. p \in Passthrough
        BY <3>1, <4>1 DEF isPassthrough
      <4> QED BY <4>2, PassthroughIs
    <3>3. object[1] = req.ns
      BY <1>3, <3>2 DEF ListPartition, ByUser, ClientNamespace, InScope
    <3>4. PICK x \in va["list"] : x.ns = req.ns /\ x.name = All
      BY <2>1, GrantedAll
    <3> QED BY <3>3, <3>4 DEF AccessGrants, nsOK, nameOK
  <2>2. CASE ~Granted(va, req.ns).all
    <3> DEFINE q == Partition(req.ns, FALSE, Granted(va, req.ns).names)
    <3>1. partitions = {q}
      BY <1>3, <2>2 DEF isPassthroughUnconstrained
    <3>2. q.passthrough = FALSE /\ q.all = FALSE
      BY DEF Partition
    <3>3. partitions # Passthrough
      BY <3>1, <3>2, PassthroughIs
    <3>4. p = q
      BY <3>1, <3>3, PartitionsAre
    <3> QED BY <3>2, <3>4 DEF ByUser
  <2> QED BY <2>1, <2>2
<1>4. CASE ~ListGrants(va["list"], All, All) /\ req.ns = NoNamespace
  <2>1. \A q \in partitions : q.passthrough = FALSE
    BY <1>4 DEF isPassthroughUnconstrained, Partition
  <2>2. partitions # Passthrough
    BY <2>1, PassthroughIs
  <2>3. p \in partitions
    BY <2>2, PartitionsAre
  <2>4. PICK ns \in GrantedNamespaces(va) :
            p = Partition(IF req.resource \in Namespaced THEN ns ELSE NoNamespace,
                          Granted(va, ns).all, Granted(va, ns).names)
    BY <1>4, <2>2, <2>3 DEF isPassthroughUnconstrained
  <2>5. /\ p.ns = (IF req.resource \in Namespaced THEN ns ELSE NoNamespace)
        /\ p.all = Granted(va, ns).all
    BY <2>4 DEF Partition
  <2>6. Granted(va, ns).all
    BY <2>1, <2>3, <2>5 DEF ByUser
  <2>7. PICK x \in va["list"] : x.ns = ns /\ x.name = All
    BY <2>6, GrantedAll
  <2>8. x.ns # All
    BY <1>4, <2>7 DEF ListGrants, AccessGrants, nsOK, nameOK
  <2>9. req.resource \in Namespaced
    BY <2>7, <2>8, VerbAccessIs DEF VA, Trim
  <2>10. ns \in Namespaces
    BY <2>7, <2>8 DEF GrantedNamespaces, Wild
  <2>11. object[1] = ns
    BY <2>1, <2>3, <2>5, <2>9, <2>10, NoNamespaceAssumption
       DEF ListPartition, ByUser, ClientNamespace, InScope
  <2> QED BY <2>7, <2>11 DEF AccessGrants, nsOK, nameOK
<1> QED BY <1>2, <1>3, <1>4

(* Every object a user may list is in one of the partitions, and a list     *)
(* that Kubernetes has to authorise is one it will allow, for any rules,    *)
(* bindings and requests (rbac_store.go 111-203, proxy_store.go 212-262).   *)
THEOREM CompletePartitions == Spec => []PartitionsComplete
<1>1. ASSUME IInv PROVE PartitionsComplete
  <2> SUFFICES ASSUME NEW req \in Requests,
                      req.constraint = Unconstrained \/ req.ns = NoNamespace
               PROVE  LET va == VerbAccess(result, req.group, req.resource)
                      IN  /\ \A object \in Objects(req.resource) :
                               /\ Listable(req, object) /\ InScope(req.ns, object)
                               /\ req.constraint = Unconstrained \/ object[1] \in req.constraint
                               => object \in ListPartitions(va, req)
                          /\ \A p \in isPassthrough(va, req) : ByUser(p) =>
                               \A object \in ListPartition(p, req) :
                                  Allowed(seen, "list", req.group, req.resource,
                                          object[1], object[2])
    BY DEF PartitionsComplete
  <2>1. ASSUME NEW object \in Objects(req.resource), Listable(req, object),
               InScope(req.ns, object),
               req.constraint = Unconstrained \/ object[1] \in req.constraint
        PROVE  object \in ListPartitions(VA(req), req)
    BY <1>1, <2>1, NothingMissed DEF ListPartitions
  <2>2. ASSUME NEW p \in isPassthrough(VA(req), req), ByUser(p),
               NEW object \in ListPartition(p, req)
        PROVE  Allowed(seen, "list", req.group, req.resource, object[1], object[2])
    BY <1>1, <2>2, OwnClientAllowed
  <2> QED BY <2>1, <2>2 DEF VA
<1>2. IInv => PartitionsComplete
  BY <1>1
<1> QED BY <1>2, Invariance, PTL
=============================================================================
