--------------------------- MODULE RBACPartitions ---------------------------
(***************************************************************************)
(* From the access set of a request's user to the objects a list returns:   *)
(* the accesses recorded on the user's copy of a schema                     *)
(* (pkg/schema/factory.go, schemasForSubject), the partitions computed from *)
(* them (pkg/stores/proxy/rbac_store.go) and what each one lists            *)
(* (byNameOrNamespaceStore.List, ByNames, List of proxy_store.go).          *)
(*                                                                          *)
(* The access sets are the ones AccessSet builds.  A request is a record    *)
(* [group, resource, ns, constraint]: ns is the namespace it names or       *)
(* NoNamespace, constraint the set of namespaces of AddNamespaceConstraint  *)
(* or Unconstrained.                                                        *)
(***************************************************************************)
EXTENDS AccessSet

CONSTANTS Namespaced   \* the resources whose objects live in a namespace

ASSUME NamespacedAssumption == Namespaced \subseteq Resources
ASSUME VerbsAssumption == {"get", "list"} \subseteq Verbs

NoNamespace == ""
Unconstrained == {NoNamespace}

(* The name of a namespace is never empty.                                  *)
ASSUME NoNamespaceAssumption == NoNamespace \notin Namespaces

(* The objects of a resource: every name, in every namespace or in none.    *)
Objects(resource) ==
    (IF resource \in Namespaced THEN Namespaces ELSE {NoNamespace}) \X Names

-----------------------------------------------------------------------------
(* schemasForSubject: accesses in a namespace are dropped for a resource    *)
(* that has none.                                                           *)
Trim(list, resource) ==
    {access \in list : resource \in Namespaced \/ access.ns = All}

(* A subject without any access to namespaces may get the ones in which it  *)
(* can read something.                                                      *)
NamespaceAccess(a) == [ns : {All}, name : NamespacesOf(a)]

VerbAccess(a, group, resource) ==
    LET granted == [v \in Verbs |-> Trim(AccessListFor(a, v, group, resource), resource)]
    IN  IF resource = "namespaces" /\ \A v \in Verbs : granted[v] = {}
        THEN [granted EXCEPT !["get"] = NamespaceAccess(a)]
        ELSE granted

(* Seeded fault: names granted in any namespace count in every namespace.   *)
GetNames_AnyNamespace(va, ns) == {access.name : access \in va["get"]} \ {All}

(* Objects named by get are listed one by one.                              *)
GetNames(va, ns) ==
    {access.name : access \in {x \in va["get"] : x.ns = ns}} \ {All}

(* Granted("list"): what the subject may list, by namespace.                *)
Granted(va, ns) ==
    LET listed == {access.name : access \in {x \in va["list"] : x.ns = ns}}
    IN  [all |-> All \in listed,
         names |-> (listed \ {All}) \cup GetNames(va, ns)]

(* The namespaces Granted has an entry for.                                 *)
GrantedNamespaces(va) ==
    {ns \in Wild(Namespaces) : Granted(va, ns).all \/ Granted(va, ns).names # {}}

-----------------------------------------------------------------------------
Partition(ns, all, names) ==
    [ns |-> ns, all |-> all, passthrough |-> FALSE, names |-> names]

Passthrough ==
    {[ns |-> NoNamespace, all |-> FALSE, passthrough |-> TRUE, names |-> {}]}

(* Seeded fault: full access to the requested namespace is not noticed.     *)
isPassthroughUnconstrained_ByName(va, req) ==
    IF ListGrants(va["list"], All, All)
    THEN Passthrough
    ELSE IF req.ns # NoNamespace
    THEN {Partition(req.ns, FALSE, Granted(va, req.ns).names)}
    ELSE {Partition(IF req.resource \in Namespaced THEN ns ELSE NoNamespace,
                    Granted(va, ns).all, Granted(va, ns).names) :
            ns \in GrantedNamespaces(va)}

isPassthroughUnconstrained(va, req) ==
    IF ListGrants(va["list"], All, All)
    THEN Passthrough
    ELSE IF req.ns # NoNamespace
    THEN IF Granted(va, req.ns).all
         THEN Passthrough
         ELSE {Partition(req.ns, FALSE, Granted(va, req.ns).names)}
    ELSE {Partition(IF req.resource \in Namespaced THEN ns ELSE NoNamespace,
                    Granted(va, ns).all, Granted(va, ns).names) :
            ns \in GrantedNamespaces(va)}

(* A constraint turns a passthrough into one full list per namespace of the *)
(* constraint, and otherwise keeps the partitions of those namespaces.      *)
isPassthrough(va, req) ==
    LET partitions == isPassthroughUnconstrained(va, req)
    IN  IF req.constraint = Unconstrained THEN partitions
        ELSE IF partitions = Passthrough
        THEN {Partition(ns, TRUE, {}) : ns \in req.constraint}
        ELSE {p \in partitions : p.ns \in req.constraint}

-----------------------------------------------------------------------------
(* The namespace a partition's client is asked for.                         *)
ClientNamespace(p, req) == IF p.passthrough THEN req.ns ELSE p.ns

(* Lists made with the user's own client, which the API server authorises.  *)
ByUser(p) == p.passthrough \/ p.all

InScope(ns, object) == ns = NoNamespace \/ object[1] = ns

(* What a partition lists, when the API server allows it.  ByNames filters  *)
(* what the admin client lists, and lists nothing for the namespace "*".    *)
ListPartition(p, req) ==
    {object \in Objects(req.resource) :
        IF ByUser(p)
        THEN InScope(ClientNamespace(p, req), object)
        ELSE p.ns # All /\ InScope(p.ns, object) /\ object[2] \in p.names}

ListPartitions(va, req) ==
    UNION {ListPartition(p, req) : p \in isPassthrough(va, req)}

-----------------------------------------------------------------------------
Requests ==
    {req \in [group : Groups, resource : Resources,
              ns : Namespaces \cup {NoNamespace},
              constraint : {Unconstrained} \cup SUBSET Namespaces] :
        req.ns # NoNamespace => req.resource \in Namespaced}

(* What the bindings allow on one object, by list or by get, and the        *)
(* namespaces shown because something in them is readable.                  *)
Readable(req, object) ==
    \/ \E verb \in {"get", "list"} :
         Allowed(seen, verb, req.group, req.resource, object[1], object[2])
    \/ req.resource = "namespaces" /\ object[2] \in NamespacesOf(result)

(* Allowed by a cluster-wide binding that names objects: ByNames treats it  *)
(* as invalid for namespaced objects (proxy_store.go 213-217).              *)
NamedClusterWide(b, req) ==
    b[1] = All /\ b[2].names # {} /\ req.resource \in Namespaced

Listable(req, object) ==
    \E b \in {x \in seen : ~NamedClusterWide(x, req)} :
        BindingAllows(b, "list", req.group, req.resource, object[1], object[2])

(* A list the admin client makes on the user's behalf (no API server check  *)
(* stands behind it) returns only objects the user's bindings let it get or *)
(* list, in the namespace the request names and the constraint allows       *)
(* (rbac_store.go 111-203, access_set.go 138-171, proxy_store.go 212-238).  *)
PartitionsSound ==
    \A req \in Requests :
        LET va == VerbAccess(result, req.group, req.resource)
        IN  \A p \in isPassthrough(va, req) : ~ByUser(p) =>
              \A object \in ListPartition(p, req) :
                 /\ Readable(req, object)
                 /\ InScope(req.ns, object)
                 /\ req.constraint = Unconstrained \/ object[1] \in req.constraint

(* Every object the user's bindings let it list is returned, and only lists *)
(* the API server will allow are made with the user's own client.  Under a  *)
(* constraint this needs a request that names no namespace: isPassthrough   *)
(* forgets the namespace then (rbac_store.go 144-152).                      *)
PartitionsComplete ==
    \A req \in Requests :
        (req.constraint = Unconstrained \/ req.ns = NoNamespace) =>
        LET va == VerbAccess(result, req.group, req.resource)
        IN  /\ \A object \in Objects(req.resource) :
                 /\ Listable(req, object) /\ InScope(req.ns, object)
                 /\ req.constraint = Unconstrained \/ object[1] \in req.constraint
                 => object \in ListPartitions(va, req)
            /\ \A p \in isPassthrough(va, req) : ByUser(p) =>
                 \A object \in ListPartition(p, req) :
                    Allowed(seen, "list", req.group, req.resource, object[1], object[2])
=============================================================================
