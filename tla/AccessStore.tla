---------------------------- MODULE AccessStore -----------------------------
(***************************************************************************)
(* pkg/accesscontrol: the cache of access sets (access_store.go), the       *)
(* bindings it reads (policy_rule_index.go) and the revisions of roles its  *)
(* keys are made of (role_revision_index.go).                               *)
(*                                                                          *)
(* AccessFor reads bindings, revisions and roles one after the other while  *)
(* the informers and the revision handlers change them.  What a role or a   *)
(* binding grants is AccessSet's matter: here the access of a subject is    *)
(* the set of [ns, role, rev] it was built from.  Role and binding names    *)
(* are numbers, in the order of their names.  A revision of 0 is no object  *)
(* (in roles) or the empty string (in revisions).                           *)
(***************************************************************************)
EXTENDS Integers, Sequences

CONSTANTS
    Users, UserGroups,
    GroupsOf,      \* user.GetGroups() of every user
    NRoles,        \* cluster roles 1..NRoles
    Scopes,        \* "*" for a ClusterRoleBinding, else a RoleBinding's namespace
    Callers,       \* goroutines that may be inside AccessFor
    Capacity,      \* cache.NewLRUExpireCache(50)
    MaxChanges     \* RBAC changes (bound of the model)

All == "*"
Roles == 1..NRoles
Subjects == Users \cup UserGroups
Binding == [ns : Scopes, role : Roles]

ASSUME GroupsAssumption == GroupsOf \in [Users -> Seq(UserGroups)]
ASSUME BoundsAssumption ==
    NRoles \in Nat /\ MaxChanges \in Nat /\ Capacity \in Nat \ {0}

VARIABLES
    roles,      \* the informer's cluster roles: revision, or 0
    bindings,   \* the informer's bindings, by subject
    revisions,  \* roleRevisionIndex.roleRevisions
    cache,      \* entries [key, access, clean], in the order of their Add
    caller,     \* the goroutines inside AccessFor
    changes     \* RBAC changes so far

vars == <<roles, bindings, revisions, cache, caller, changes>>

Idle == [pc |-> "idle", user |-> "", left |-> <<>>, pend |-> {},
         key |-> <<>>, access |-> {}, clean |-> FALSE]

Init ==
    /\ roles = [r \in Roles |-> 0]
    /\ bindings = [s \in Subjects |-> IF s \in UserGroups THEN Binding ELSE {}]
    /\ revisions = [r \in Roles |-> 0]
    /\ cache = <<>>
    /\ caller = [c \in Callers |-> Idle]
    /\ changes = 0

-----------------------------------------------------------------------------
(* newPolicyRuleIndex: both kinds of bindings are indexed under             *)
(* clusterRoleIndexKey.                                                     *)
Indexed == {<<"ClusterRoleBinding", "crb">>, <<"RoleBinding", "crb">>}

(* client.List by an index field: an error, read as no items, without it.   *)
List(kind, key, items) == IF <<kind, key>> \in Indexed THEN items ELSE {}

getClusterRoleBindings(s) ==
    List("ClusterRoleBinding", "crb", {b \in bindings[s] : b.ns = All})

getRoleBindings(s) ==
    List("RoleBinding", "rb", {b \in bindings[s] : b.ns # All})

BindingsOf(s) == getClusterRoleBindings(s) \cup getRoleBindings(s)

(* getRules: the rules of a role that does not exist are none.              *)
getRules(b) ==
    IF roles[b.role] = 0 THEN {}
    ELSE {[ns |-> b.ns, role |-> b.role, rev |-> roles[b.role]]}

roleRevision(r) == revisions[r]

SubjectsOf(user) == <<user>> \o GroupsOf[user]

(* The bindings of a list are sorted: the ones that may come first.         *)
First(S) == {b \in S : \A x \in S : b.role <= x.role}

InSync == revisions = roles

-----------------------------------------------------------------------------
(* RBAC objects change in the informer's cache.  A caller inside AccessFor  *)
(* is then no longer clean (history).                                       *)
Changed ==
    /\ changes < MaxChanges
    /\ changes' = changes + 1
    /\ caller' = [c \in Callers |-> [caller[c] EXCEPT !.clean = FALSE]]
    /\ UNCHANGED <<revisions, cache>>

saveRole(r) ==
    /\ Changed
    /\ roles' = [roles EXCEPT ![r] = changes + 1]
    /\ UNCHANGED bindings

deleteRole(r) ==
    /\ roles[r] # 0
    /\ Changed
    /\ roles' = [roles EXCEPT ![r] = 0]
    /\ UNCHANGED bindings

saveBinding(s, b) ==
    /\ b \notin bindings[s]
    /\ Changed
    /\ bindings' = [bindings EXCEPT ![s] = @ \cup {b}]
    /\ UNCHANGED roles

deleteBinding(s, b) ==
    /\ b \in bindings[s]
    /\ Changed
    /\ bindings' = [bindings EXCEPT ![s] = @ \ {b}]
    /\ UNCHANGED roles

(* The router's handler, some time after the informer.                      *)
onClusterRoleChanged(r) ==
    /\ revisions[r] # roles[r]
    /\ revisions' = [revisions EXCEPT ![r] = roles[r]]
    /\ UNCHANGED <<roles, bindings, cache, caller, changes>>

(* An entry's day is over: the first added is the first to expire.          *)
expire ==
    /\ cache # <<>>
    /\ cache' = Tail(cache)
    /\ UNCHANGED <<roles, bindings, revisions, caller, changes>>

-----------------------------------------------------------------------------
Step(c, new) ==
    /\ caller' = [caller EXCEPT ![c] = new]
    /\ UNCHANGED <<roles, bindings, revisions, changes>>

AccessFor(c, user) ==
    /\ caller[c].pc = "idle"
    /\ Step(c, [Idle EXCEPT !.pc = "key", !.user = user, !.left = SubjectsOf(user),
                            !.clean = InSync])
    /\ UNCHANGED cache

(* Seeded fault: only the first subject is hashed.                          *)
keyBindings_UserOnly(c) ==
    /\ caller[c].pc = "key" /\ caller[c].pend = {} /\ caller[c].left # <<>>
    /\ Step(c, [caller[c] EXCEPT !.left = <<>>,
                                 !.pend = BindingsOf(Head(caller[c].left))])
    /\ UNCHANGED cache

(* CacheKey, addRolesToHash: list the bindings of the next subject.         *)
keyBindings(c) ==
    /\ caller[c].pc = "key" /\ caller[c].pend = {} /\ caller[c].left # <<>>
    /\ Step(c, [caller[c] EXCEPT !.left = Tail(@),
                                 !.pend = BindingsOf(Head(caller[c].left))])
    /\ UNCHANGED cache

(* Seeded fault: the revision is left out of the hash.                      *)
Hashed_NoRevision(b) == [ns |-> b.ns, role |-> b.role, rev |-> 0]

(* What one binding adds to the hash.                                       *)
Hashed(b) == [ns |-> b.ns, role |-> b.role, rev |-> roleRevision(b.role)]

keyRevision(c) ==
    /\ caller[c].pc = "key" /\ caller[c].pend # {}
    /\ \E b \in First(caller[c].pend) :
         Step(c, [caller[c] EXCEPT !.pend = @ \ {b}, !.key = Append(@, Hashed(b))])
    /\ UNCHANGED cache

KeyComplete(c) ==
    caller[c].pc = "key" /\ caller[c].pend = {} /\ caller[c].left = <<>>

Entries(key) == {i \in 1..Len(cache) : cache[i].key = key}

cacheHit(c) ==
    /\ KeyComplete(c)
    /\ \E i \in Entries(caller[c].key) :
         Step(c, [caller[c] EXCEPT !.pc = "done", !.access = cache[i].access,
                                   !.clean = @ /\ cache[i].clean])
    /\ UNCHANGED cache

cacheMiss(c) ==
    /\ KeyComplete(c) /\ Entries(caller[c].key) = {}
    /\ Step(c, [caller[c] EXCEPT !.pc = "read", !.left = SubjectsOf(caller[c].user)])
    /\ UNCHANGED cache

(* policyRuleIndex.get: list the bindings of the next subject.              *)
getBindings(c) ==
    /\ caller[c].pc = "read" /\ caller[c].pend = {} /\ caller[c].left # <<>>
    /\ Step(c, [caller[c] EXCEPT !.left = Tail(@),
                                 !.pend = BindingsOf(Head(caller[c].left))])
    /\ UNCHANGED cache

(* addAccess for one binding, merged into the result.                       *)
addAccess(c) ==
    /\ caller[c].pc = "read" /\ caller[c].pend # {}
    /\ \E b \in First(caller[c].pend) :
         Step(c, [caller[c] EXCEPT !.pend = @ \ {b}, !.access = @ \cup getRules(b)])
    /\ UNCHANGED cache

Drop(s, i) == [j \in 1..(Len(s) - 1) |-> IF j < i THEN s[j] ELSE s[j + 1]]

(* A key has at most one entry, which Add replaces.                         *)
Others(key) ==
    IF Entries(key) = {} THEN cache ELSE Drop(cache, CHOOSE i \in Entries(key) : TRUE)

(* Seeded fault: a full cache evicts nothing.                               *)
Evicted_Never(s) == {s}

(* A full cache drops one entry; which one, recency decides.                *)
Evicted(s) == IF Len(s) < Capacity THEN {s} ELSE {Drop(s, i) : i \in 1..Len(s)}

cacheAdd(c) ==
    /\ caller[c].pc = "read" /\ caller[c].pend = {} /\ caller[c].left = <<>>
    /\ Step(c, [caller[c] EXCEPT !.pc = "done"])
    /\ \E kept \in Evicted(Others(caller[c].key)) :
         cache' = Append(kept, [key |-> caller[c].key, access |-> caller[c].access,
                                clean |-> caller[c].clean])

return(c) ==
    /\ caller[c].pc = "done"
    /\ Step(c, Idle)
    /\ UNCHANGED cache

Steps(c) ==
    \/ keyBindings(c) \/ keyRevision(c) \/ cacheHit(c) \/ cacheMiss(c)
    \/ getBindings(c) \/ addAccess(c) \/ cacheAdd(c) \/ return(c)

Changes ==
    \/ \E r \in Roles : saveRole(r) \/ deleteRole(r)
    \/ \E s \in Subjects, b \in Binding : saveBinding(s, b) \/ deleteBinding(s, b)

Next ==
    \/ Changes
    \/ \E r \in Roles : onClusterRoleChanged(r)
    \/ expire
    \/ \E c \in Callers : Steps(c) \/ \E user \in Users : AccessFor(c, user)

Spec == Init /\ [][Next]_vars

(* Goroutines run, the router retries and drains its queue, a day passes.   *)
Fairness ==
    /\ \A c \in Callers : WF_vars(Steps(c))
    /\ \A r \in Roles : WF_vars(onClusterRoleChanged(r))
    /\ WF_vars(expire)

FairSpec == Spec /\ Fairness

-----------------------------------------------------------------------------
Grant == [ns : Scopes, role : Roles, rev : Nat]

Entry == [key : Seq(Grant), access : SUBSET Grant, clean : BOOLEAN]

CallerState ==
    [pc : {"idle", "key", "read", "done"}, user : Users \cup {""},
     left : Seq(Subjects), pend : SUBSET Binding, key : Seq(Grant),
     access : SUBSET Grant, clean : BOOLEAN]

(* Types, and the cache within its capacity.                                *)
TypeOK ==
    /\ roles \in [Roles -> Nat]
    /\ revisions \in [Roles -> Nat]
    /\ bindings \in [Subjects -> SUBSET Binding]
    /\ cache \in Seq(Entry) /\ Len(cache) <= Capacity
    /\ caller \in [Callers -> CallerState]
    /\ changes \in 0..MaxChanges

(* What the bindings that can be listed grant a user now.                   *)
AccessNow(user) ==
    UNION {UNION {getRules(b) : b \in BindingsOf(SubjectsOf(user)[i])} :
             i \in DOMAIN SubjectsOf(user)}

(* An answer made while nothing changed, computed or taken from an entry    *)
(* that was itself made while nothing changed (by this caller or another,   *)
(* for this user or another), is the user's access now: the key tells apart *)
(* everything the access depends on (access_store.go 50-89).                *)
FreshWhenClean ==
    \A c \in Callers : caller[c].pc = "done" /\ caller[c].clean =>
        caller[c].access = AccessNow(caller[c].user)

(* Whatever was cached while bindings, roles and revisions were changing,   *)
(* once they no longer change AccessFor comes to answer with the user's     *)
(* access and goes on doing so (access_store.go 50-72).                     *)
Converges ==
    <>[](\A c \in Callers : caller[c].pc = "done" =>
            caller[c].access = AccessNow(caller[c].user))

(* A RoleBinding counts: a clean answer holds what every binding of the     *)
(* user grants (policy_rule_index.go 69-80 and 112-117).                    *)
RoleBindingsCount ==
    \A c \in Callers : caller[c].pc = "done" /\ caller[c].clean =>
        \A b \in bindings[caller[c].user] : getRules(b) \subseteq caller[c].access
=============================================================================
