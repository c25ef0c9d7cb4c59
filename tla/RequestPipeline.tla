--------------------------- MODULE RequestPipeline ---------------------------
(***************************************************************************)
(* Requests on Kubernetes objects, from the authentication filter to the    *)
(* answer: ToMiddleware and the webhook (pkg/auth), apiServer.common and    *)
(* Server.handle (pkg/server/handler), Parse (pkg/parse), the handlers and  *)
(* the error handler (pkg/handlers), the schema based access control, the   *)
(* proxy store's ByID, Create, Update and Delete behind errorStore and      *)
(* partition.Store, the client factory, and the reverse proxy beside it.    *)
(* Several clients send requests at once; rights are revoked meanwhile;     *)
(* calls to Kubernetes fail before or after their effect.                   *)
(*                                                                          *)
(* A request meets shared state three times: when the schemas of its user   *)
(* are fetched, in its call to Kubernetes, and, after a delete, in a second *)
(* call.  Each is an action, with the code up to the next one.              *)
(*                                                                          *)
(* Data abstraction: an object is its version and its top level fields, of  *)
(* which "spec" stands for all that clients edit and "type" for the         *)
(* reserved ones; a field name is a name and whether it has an underscore   *)
(* in front.  Of a request's text only what the code branches on is kept.   *)
(* Kubernetes is external: it authorises every call, wants the version of   *)
(* an update to be the current one and a new object to have a name.         *)
(***************************************************************************)
EXTENDS Naturals

CONSTANTS
    Clients,
    Requests,      \* the requests each client may send: first, second, ...
    Namespaced,    \* types whose objects have a namespace
    Keys,          \* objects that may exist: <<type, namespace, name>>
    Native,        \* fields of each of them in Kubernetes, at first
    MaxRequests,   \* requests of a client (bound of the model)
    MaxRevokes,    \* changes of rights (bound of the model)
    MaxFaults      \* failing calls (bound of the model)

VARIABLES
    setup,     \* "open": no auth middleware; "auth": users and impersonation
    cluster,   \* the objects in Kubernetes
    clock,     \* the last version Kubernetes has given
    rights,    \* verbs each user has in Kubernetes now
    seen,      \* the object each client has read or written last
    pc, req,   \* control point and request of each client
    methods,   \* methods of the schema fetched for the request
    applied,   \* history: changes made for the request
    answers,   \* answers written to the client
    status,    \* the status it got
    sent, revokes, faults

clusterVars == <<cluster, clock>>
envVars == <<setup, rights, revokes, faults>>
requestVars == <<pc, req, methods, applied, answers, status, sent, seen>>
vars == <<clusterVars, envVars, requestVars>>

Types == {k[1] : k \in Keys}
Verbs == {"get", "list", "create", "update", "patch", "delete"}
Users == {"admin", "alice", "system:unauthenticated", "system:cattle:error"}

Empty == ""   \* the empty string

Plain(n) == [name |-> n, under |-> FALSE]
Under(n) == [name |-> n, under |-> TRUE]
ReservedFields == {"type"}

Absent == [rv |-> 0, fields |-> <<>>]
NoObject == [key |-> <<Empty, Empty, Empty>>, rv |-> 0, fields |-> <<>>]
NoMethods == [coll |-> {}, res |-> {}]
Failed == [coll |-> {"failed"}, res |-> {}]

ASSUME BoundsAssumption ==
    MaxRequests \in Nat /\ MaxRevokes \in Nat /\ MaxFaults \in Nat
(* The fields of an object in Kubernetes: none has an underscore.           *)
PlainFields(f) ==
    /\ f = [k \in DOMAIN f |-> f[k]]
    /\ \A k \in DOMAIN f : k = Plain(k.name)

ASSUME NativeAssumption == \A k \in Keys : PlainFields(Native[k])

(* Of the requests to the reverse proxy only deletes are modelled.          *)
ASSUME RequestsAssumption ==
    \A c \in Clients : \A i \in 1..MaxRequests : \A r \in Requests[c][i] :
        r.route = "proxy" => r.method = "DELETE" /\ r.override = Empty

Init ==
    /\ setup \in {"open", "auth"}
    /\ cluster = [k \in Keys |-> [rv |-> 1, fields |-> Native[k]]]
    /\ clock = 1
    /\ rights = [u \in Users |-> IF u \in {"admin", "alice"} THEN Verbs ELSE {}]
    /\ seen = [c \in Clients |-> NoObject]
    /\ pc = [c \in Clients |-> "idle"]
    /\ req = [c \in Clients |-> CHOOSE r \in Requests[c][1] : TRUE]
    /\ methods = [c \in Clients |-> NoMethods]
    /\ applied = [c \in Clients |-> 0]
    /\ answers = [c \in Clients |-> 0]
    /\ status = [c \in Clients |-> 0]
    /\ sent = [c \in Clients |-> 0]
    /\ revokes = 0 /\ faults = 0

-----------------------------------------------------------------------------
(* Authentication.                                                          *)

(* webhookAuth.Authenticate and ToMiddleware: every request gets a user.    *)
UserOf(r) ==
    IF setup = "open" THEN "admin"
    ELSE CASE r.token = "broken" -> "system:cattle:error"
           [] r.token = "alice"  -> "alice"
           [] OTHER              -> "system:unauthenticated"

(* Seeded fault: the client is the server's own.                            *)
TableClient_Admin(u) == "admin"

(* Factory.TableClient and setupConfig: with an auth middleware the calls   *)
(* are made as the user.                                                    *)
TableClient(u) == IF setup = "auth" THEN u ELSE "admin"

(* setupUserAuth of the reverse proxy: an unknown bearer token is sent on   *)
(* as it is, and Kubernetes, which does not know it either, has no rights   *)
(* for it.                                                                  *)
ProxyUser(r) == TableClient(UserOf(r))
NotAuthed(r) ==
    /\ setup = "auth"
    /\ UserOf(r) \in {"system:unauthenticated", "system:cattle:error"}
    /\ ~(r.bearer /\ r.token # "none")

-----------------------------------------------------------------------------
(* Parsing: k8sAPI, MuxURLParser, Parse.                                    *)

Method(r) == IF r.override # Empty THEN r.override ELSE r.method

Verb(r) ==
    CASE Method(r) = "POST" -> "create" [] Method(r) = "PUT" -> "update"
      [] Method(r) = "PATCH" -> "patch" [] Method(r) = "DELETE" -> "delete"
      [] OTHER -> "get"

HasSchema(c) ==
    /\ req[c].type \in Types
    /\ methods[c] \notin {NoMethods, Failed}

(* The second part of a path is a namespace or a name, by the schema.       *)
NsPart(c) == req[c].nameorns # Empty /\ HasSchema(c) /\ req[c].type \in Namespaced

Name(c) ==
    IF req[c].nameorns # Empty /\ ~NsPart(c) THEN req[c].nameorns ELSE req[c].name

Namespace(c) == IF NsPart(c) THEN req[c].nameorns ELSE req[c].namespace

(* The checks on the way to a handler; 0 lets a request pass.               *)
ValidateMethod(c) ==
    LET m == Method(req[c])
        allowed == IF Name(c) = Empty THEN methods[c].coll ELSE methods[c].res
    IN  IF req[c].action # Empty /\ m = "POST" THEN 0
        ELSE IF m \notin {"POST", "GET", "PUT", "PATCH", "DELETE"} THEN 405
        ELSE IF ~HasSchema(c) \/ req[c].link # Empty THEN 0
        ELSE IF m \in allowed \/ (Name(c) = Empty /\ m = "GET" /\ "POST" \in allowed) THEN 0
        ELSE 403

(* Seeded fault: the method of the HTTP request is looked at.               *)
checkCSRF_RequestMethod(r) ==
    IF r.browser /\ r.csrf = "mismatch" /\ r.method # "GET" THEN 422 ELSE 0

(* A browser without the cookie passes, and is given one.                   *)
checkCSRF(r) ==
    IF r.browser /\ r.csrf = "mismatch" /\ Method(r) # "GET" THEN 422 ELSE 0

(* Server.handle answers 404 without a body when there is no schema.        *)
NoSchema(c) ==
    IF HasSchema(c) THEN 0
    ELSE IF UserOf(req[c]) \in {"system:unauthenticated", "system:cattle:error"} THEN 401
    ELSE 404

(* validateAction and handleAction: "run" is an action of single objects    *)
(* with a handler, "list" one with a handler that no schema lists.          *)
IsAction(c) == req[c].action # Empty /\ req[c].link = Empty /\ Method(req[c]) = "POST"

validateAction(c) ==
    IF ~IsAction(c) THEN 0
    ELSE IF req[c].action \notin {"run", "list"} THEN 403
    ELSE IF req[c].action = "run" /\ Name(c) # Empty THEN 0
    ELSE 422

(* ByIDHandler: the link of a schema with a handler of its own.             *)
IsLink(c) == Method(req[c]) = "GET" /\ Name(c) # Empty /\ req[c].link = "log"

(* SchemaBasedAccess: CanList, CanGet, CanUpdate, CanCreate, CanDelete.     *)
Can(c) ==
    LET m == Method(req[c]) IN
    CASE m = "GET" /\ Name(c) = Empty  -> methods[c].coll \cap {"GET", "POST"} # {}
      [] m = "GET" /\ Name(c) # Empty  -> "GET" \in methods[c].res
      [] m \in {"PUT", "PATCH"}     -> "PUT" \in methods[c].res
      [] m = "POST"                 -> "POST" \in methods[c].coll
      [] m = "DELETE"               -> "DELETE" \in methods[c].res

-----------------------------------------------------------------------------
(* Bodies and objects.                                                      *)

(* Seeded faults: a reserved field the object does not have keeps the value *)
(* of the answer's own; the body is stored as it came.                      *)
moveFromUnderscore_KeepsOuter(f) ==
    LET names == {k.name : k \in DOMAIN f}
        from(n) == IF Under(n) \in DOMAIN f THEN Under(n) ELSE Plain(n)
    IN  [k \in {Plain(n) : n \in names} |-> f[from(k.name)]]

moveFromUnderscore_Not(f) == f

moveFromUnderscore(f) ==
    LET kept == {k \in DOMAIN f : k.name \in ReservedFields => k.under}
    IN  [k \in {Plain(x.name) : x \in kept} |->
            IF k.name \in ReservedFields THEN f[Under(k.name)] ELSE f[k]]

moveToUnderscore(f) ==
    [k \in {[name |-> x.name, under |-> x.name \in ReservedFields] : x \in DOMAIN f} |->
        f[Plain(k.name)]]

(* What a client gets: toAPI, and the reserved fields of RawResource.       *)
toAPI(f) ==
    LET g == moveToUnderscore(f)
        outer == {Plain(n) : n \in ReservedFields}
    IN  [k \in DOMAIN g \cup outer |-> IF k \in outer THEN "outer" ELSE g[k]]

WithSpec(f, v) ==
    [k \in DOMAIN f \cup {Plain("spec")} |-> IF k = Plain("spec") THEN v ELSE f[k]]

NoBody == [name |-> Empty, ns |-> Empty, rv |-> 0, fields |-> <<>>]

(* ReadBody: only a PUT or POST request, by its HTTP method, has a body.    *)
(* What clients put into one: the object they have seen with a change, the  *)
(* same without its version, or a new object with or without a name.        *)
Body(c) ==
    LET o == seen[c] IN
    IF req[c].method \notin {"PUT", "POST"} THEN NoBody
    ELSE CASE req[c].body = "edit" ->
                [name |-> o.key[3], ns |-> o.key[2], rv |-> o.rv, fields |-> WithSpec(o.fields, c)]
           [] req[c].body = "unversioned" ->
                [name |-> o.key[3], ns |-> o.key[2], rv |-> 0, fields |-> WithSpec(o.fields, c)]
           [] req[c].body = "new" ->
                [name |-> "a", ns |-> Empty, rv |-> 0, fields |-> WithSpec(<<>>, c)]
           [] OTHER -> NoBody

ReadBody(c) ==
    IF req[c].method \in {"PUT", "POST"} /\ req[c].body = "garbage" THEN 422 ELSE 0

-----------------------------------------------------------------------------
(* The proxy store, up to its call.  The key of each call:                  *)
KeyOf(c) ==
    LET ns == IF Body(c).ns # Empty THEN Body(c).ns ELSE Namespace(c) IN
    CASE Method(req[c]) = "POST"  -> <<req[c].type, ns, Body(c).name>>
      [] Method(req[c]) = "PUT"   -> <<req[c].type, Body(c).ns, Body(c).name>>
      [] Method(req[c]) = "PATCH" -> <<req[c].type, Empty, Name(c)>>
      [] OTHER                    -> <<req[c].type, Namespace(c), Name(c)>>

(* Seeded fault: an update need not name a version.                         *)
StoreRefuses_AnyVersion(c) ==
    IF req[c].params = "bad" /\ Method(req[c]) # "DELETE" THEN 500 ELSE 0

(* Errors found before the call.  A delete whose parameters cannot be       *)
(* decoded is answered with an empty object and no error.                   *)
StoreRefuses(c) ==
    LET m == Method(req[c]) IN
    IF m = "PUT" /\ Body(c).rv = 0 THEN 500
    ELSE IF m = "PATCH" /\ req[c].body = "garbage" THEN 500
    ELSE IF req[c].params = "bad" THEN (IF m = "DELETE" THEN 200 ELSE 500)
    ELSE 0

(* The first of the checks that does not let the request pass, in the order *)
(* of handle, handleOp and the handlers; 0 if all do.                       *)
First(s) == IF \A i \in DOMAIN s : s[i] = 0 THEN 0
            ELSE s[CHOOSE i \in DOMAIN s : s[i] # 0 /\ \A j \in 1..(i - 1) : s[j] = 0]

BeforeHandler(c) ==
    First(<<ValidateMethod(c), checkCSRF(req[c]), NoSchema(c), validateAction(c)>>)

Handler(c) ==
    IF Method(req[c]) \in {"PUT", "POST"}
    THEN First(<<IF Can(c) THEN 0 ELSE 403, ReadBody(c), StoreRefuses(c)>>)
    ELSE IF Method(req[c]) = "GET" /\ Name(c) = Empty
    THEN IF Can(c) THEN 0 ELSE 403
    ELSE First(<<IF Can(c) THEN 0 ELSE 403, StoreRefuses(c)>>)

(* What Kubernetes says to a call on key k as user u; a call without a name *)
(* already fails in the client.  errorStore keeps the status.               *)
K8s(verb, u, k, rv) ==
    IF verb \in {"get", "update", "patch", "delete"} /\ k[3] = Empty THEN 500
    ELSE IF verb \notin rights[u] THEN 403
    ELSE IF verb = "create" /\ k[3] = Empty THEN 422
    ELSE IF k \notin Keys THEN 404
    ELSE IF verb = "create" THEN (IF cluster[k] = Absent THEN 201 ELSE 409)
    ELSE IF cluster[k] = Absent THEN 404
    ELSE IF verb = "update" /\ rv \notin {0, cluster[k].rv} THEN 409
    ELSE 200

Success(code) == code \in 200..299

-----------------------------------------------------------------------------
(* ErrorHandler and the writers: every end of handle writes one answer, but *)
(* for ErrComplete, after a handler that wrote its own.                     *)
Complete == 0

(* Seeded fault: ErrComplete is an error like others.                       *)
Written_Always(code) == 1

Written(code) == IF code = Complete THEN 0 ELSE 1

(* `before` answers were written when handle gives `code`; the status of    *)
(* the first one is what the client gets.                                   *)
Answer(c, before, code) ==
    /\ pc' = [pc EXCEPT ![c] = "done"]
    /\ answers' = [answers EXCEPT ![c] = @ + before + Written(code)]
    /\ status' = [status EXCEPT ![c] =
                    IF @ # 0 THEN @ ELSE IF code = Complete THEN 200 ELSE code]
    /\ UNCHANGED <<req, methods, sent>>

See(c, k, o) ==
    seen' = [seen EXCEPT ![c] = [key |-> k, rv |-> o.rv, fields |-> toAPI(o.fields)]]

Apply(c, k, o) ==
    /\ cluster' = [cluster EXCEPT ![k] = o]
    /\ clock' = clock + 1
    /\ applied' = [applied EXCEPT ![c] = @ + 1]

NoEffect == UNCHANGED <<clusterVars, applied>>

-----------------------------------------------------------------------------
(* A client sends a request.                                                *)
arrive(c) ==
    /\ pc[c] \in {"idle", "done"} /\ sent[c] < MaxRequests
    /\ \E r \in Requests[c][sent[c] + 1] :
        /\ r.body \in {"edit", "unversioned"} => seen[c] # NoObject /\ seen[c].key[1] = r.type
        /\ req' = [req EXCEPT ![c] = r]
        /\ pc' = [pc EXCEPT ![c] = IF r.route = "proxy" THEN "proxy" ELSE "schemas"]
    /\ sent' = [sent EXCEPT ![c] = @ + 1]
    /\ applied' = [applied EXCEPT ![c] = 0]
    /\ answers' = [answers EXCEPT ![c] = 0]
    /\ status' = [status EXCEPT ![c] = 0]
    /\ UNCHANGED <<methods, seen, clusterVars, envVars>>

(* schemasForSubject: the methods that follow from what the user may do.    *)
MethodsFor(u) ==
    LET has(vs) == vs \cap rights[u] # {} IN
    [coll |-> {m \in {"GET", "POST"} :
                 (m = "GET" /\ has({"get", "list"})) \/ (m = "POST" /\ has({"create"}))},
     res |-> {m \in {"GET", "DELETE", "PUT", "PATCH"} :
                \/ m = "GET" /\ has({"get", "list"})
                \/ m = "DELETE" /\ has({"delete"})
                \/ m \in {"PUT", "PATCH"} /\ has({"update"})}]

(* apiServer.common.                                                        *)
common(c) ==
    /\ pc[c] = "schemas" /\ req[c].host = "ok"
    /\ methods' = [methods EXCEPT ![c] = MethodsFor(UserOf(req[c]))]
    /\ pc' = [pc EXCEPT ![c] = "handle"]
    /\ UNCHANGED <<req, applied, answers, status, sent, seen, clusterVars, envVars>>

(* Schemas fails: its text is written, with status 200, and the request is  *)
(* handled all the same, without schemas; looking the type of a path up in  *)
(* them panics, and the connection is cut.                                  *)
commonFails(c) ==
    /\ pc[c] = "schemas" /\ req[c].host = "ok" /\ faults < MaxFaults
    /\ faults' = faults + 1
    /\ methods' = [methods EXCEPT ![c] = Failed]
    /\ answers' = [answers EXCEPT ![c] = 1]
    /\ status' = [status EXCEPT ![c] = 200]
    /\ pc' = [pc EXCEPT ![c] = IF req[c].nameorns # Empty THEN "done" ELSE "handle"]
    /\ UNCHANGED <<req, applied, sent, seen, clusterVars, setup, rights, revokes>>

(* No URL builder for the request's host: an error text, with status 200.   *)
commonNoURL(c) ==
    /\ pc[c] = "schemas" /\ req[c].host = "bad"
    /\ Answer(c, 0, 200)
    /\ NoEffect /\ UNCHANGED <<seen, envVars>>

(* handle ends without a call to Kubernetes: a check refuses the request, a *)
(* handler of an action or a link serves it, or the store gives up.         *)
refuse(c) ==
    /\ pc[c] = "handle"
    /\ BeforeHandler(c) # 0
    /\ Answer(c, 0, BeforeHandler(c))
    /\ NoEffect /\ UNCHANGED <<seen, envVars>>

serveCustom(c) ==
    /\ pc[c] = "handle"
    /\ BeforeHandler(c) = 0
    /\ IsAction(c) \/ (IsLink(c) /\ Can(c))
    /\ Answer(c, 1, Complete)
    /\ NoEffect /\ UNCHANGED <<seen, envVars>>

Handled(c) ==
    /\ pc[c] = "handle"
    /\ BeforeHandler(c) = 0
    /\ ~IsAction(c) /\ ~(IsLink(c) /\ Can(c))

handlerRefuses(c) ==
    /\ Handled(c)
    /\ Handler(c) # 0
    /\ Answer(c, 0, Handler(c))
    /\ NoEffect /\ UNCHANGED <<seen, envVars>>

(* A request whose next step is its call to Kubernetes.                     *)
Calls(c, m) == Handled(c) /\ Handler(c) = 0 /\ Method(req[c]) = m

Caller(c) == TableClient(UserOf(req[c]))

(* The object a call leaves in Kubernetes; the patch of a client is a new   *)
(* value of "spec".                                                         *)
Stored(c) ==
    CASE Method(req[c]) = "DELETE" -> Absent
      [] Method(req[c]) = "PATCH" ->
            [rv |-> clock + 1, fields |-> WithSpec(cluster[KeyOf(c)].fields, c)]
      [] OTHER -> [rv |-> clock + 1, fields |-> moveFromUnderscore(Body(c).fields)]

Code(c) == K8s(Verb(req[c]), Caller(c), KeyOf(c), Body(c).rv)

(* ByID and List.  A list is the subject of ParallelLister; with parameters *)
(* that cannot be decoded it is empty.                                      *)
k8sGet(c) ==
    /\ Calls(c, "GET") /\ Name(c) # Empty
    /\ LET code == Code(c) IN
       /\ Answer(c, 0, code)
       /\ IF Success(code) THEN See(c, KeyOf(c), cluster[KeyOf(c)]) ELSE UNCHANGED seen
    /\ NoEffect /\ UNCHANGED envVars

k8sList(c) ==
    /\ Calls(c, "GET") /\ Name(c) = Empty
    /\ Answer(c, 0, IF req[c].params = "bad" \/ "list" \in rights[Caller(c)] THEN 200 ELSE 403)
    /\ NoEffect /\ UNCHANGED <<seen, envVars>>

(* Create, Update and its branch for a patch, from the call on.             *)
k8sWrite(c) ==
    /\ Answer(c, 0, Code(c))
    /\ IF Success(Code(c))
       THEN Apply(c, KeyOf(c), Stored(c)) /\ See(c, KeyOf(c), Stored(c))
       ELSE NoEffect /\ UNCHANGED seen
    /\ UNCHANGED envVars

k8sCreate(c) == Calls(c, "POST") /\ k8sWrite(c)
k8sUpdate(c) == Calls(c, "PUT") /\ k8sWrite(c)
k8sPatch(c) == Calls(c, "PATCH") /\ k8sWrite(c)

(* Seeded fault: the error of the delete is lost.                           *)
k8sDelete_Unchecked(c) ==
    /\ Calls(c, "DELETE")
    /\ IF Success(Code(c)) THEN Apply(c, KeyOf(c), Stored(c)) ELSE NoEffect
    /\ pc' = [pc EXCEPT ![c] = "lookup"]
    /\ UNCHANGED <<req, methods, answers, status, sent, seen, envVars>>

k8sDelete(c) ==
    /\ Calls(c, "DELETE")
    /\ IF Success(Code(c))
       THEN /\ Apply(c, KeyOf(c), Stored(c))
            /\ pc' = [pc EXCEPT ![c] = "lookup"]
            /\ UNCHANGED <<req, methods, answers, status, sent>>
       ELSE NoEffect /\ Answer(c, 0, Code(c))
    /\ UNCHANGED <<seen, envVars>>

(* byID after the delete: the object is there again when somebody has       *)
(* created it anew; every error means that there is nothing to show.        *)
k8sLookup(c) ==
    /\ pc[c] = "lookup"
    /\ LET code == K8s("get", Caller(c), KeyOf(c), 0) IN
       /\ Answer(c, 0, IF Success(code) THEN 200 ELSE 204)
       /\ IF Success(code) THEN See(c, KeyOf(c), cluster[KeyOf(c)]) ELSE UNCHANGED seen
    /\ NoEffect /\ UNCHANGED envVars

(* The answer of Kubernetes to a call is lost, and with it, perhaps, the    *)
(* call: an error without a status is a 500.                                *)
k8sFails(c) ==
    /\ faults < MaxFaults
    /\ \/ Handled(c) /\ Handler(c) = 0 /\ Answer(c, 0, 500)
       \/ pc[c] = "lookup" /\ Answer(c, 0, 204)
    /\ faults' = faults + 1
    /\ \/ NoEffect
       \/ /\ Handled(c) /\ Method(req[c]) # "GET"
          /\ Success(Code(c))
          /\ Apply(c, KeyOf(c), Stored(c))
    /\ UNCHANGED <<seen, setup, rights, revokes>>

(* The reverse proxy: a delete under /api, as the user or with the user's   *)
(* own token.                                                               *)
proxyDelete(c) ==
    /\ pc[c] = "proxy"
    /\ LET k == <<req[c].type, req[c].namespace, req[c].name>>
           code == IF NotAuthed(req[c]) THEN 401 ELSE K8s("delete", ProxyUser(req[c]), k, 0) IN
       /\ Answer(c, 0, code)
       /\ IF Success(code) THEN Apply(c, k, Absent) ELSE NoEffect
    /\ UNCHANGED <<seen, envVars>>

(* Rights are taken away in Kubernetes; without an auth middleware nothing  *)
(* is done as alice.                                                        *)
revoke ==
    /\ setup = "auth" /\ revokes < MaxRevokes
    /\ revokes' = revokes + 1
    /\ rights' = [rights EXCEPT !["alice"] = {"get", "list"}]
    /\ UNCHANGED <<setup, faults, clusterVars, requestVars>>

Finished == \A c \in Clients : pc[c] \in {"idle", "done"} /\ sent[c] = MaxRequests

Next ==
    \/ \E c \in Clients :
        \/ arrive(c) \/ common(c) \/ commonFails(c) \/ commonNoURL(c)
        \/ refuse(c) \/ serveCustom(c) \/ handlerRefuses(c)
        \/ k8sGet(c) \/ k8sList(c) \/ k8sCreate(c) \/ k8sUpdate(c) \/ k8sPatch(c)
        \/ k8sDelete(c) \/ k8sLookup(c) \/ k8sFails(c) \/ proxyDelete(c)
    \/ revoke
    \/ Finished /\ UNCHANGED vars

Spec == Init /\ [][Next]_vars

-----------------------------------------------------------------------------
Points == {"idle", "schemas", "handle", "lookup", "proxy", "done"}

(* Types; versions are given once, and no field of a stored object has an   *)
(* underscore.                                                              *)
TypeOK ==
    /\ pc \in [Clients -> Points]
    /\ sent \in [Clients -> 0..MaxRequests]
    /\ \A c \in Clients : pc[c] # "idle" => req[c] \in Requests[c][sent[c]]
    /\ answers \in [Clients -> 0..2] /\ applied \in [Clients -> 0..1]
    /\ rights \in [Users -> SUBSET Verbs]
    /\ \A k \in Keys :
        /\ cluster[k].rv \in 0..clock
        /\ PlainFields(cluster[k].fields)
    /\ \A c \in Clients : seen[c].rv \in 0..clock

(* Every request is answered once, on whichever of its ways it ends         *)
(* (server.go handle, handlers/error.go ErrorHandler).  Left out: a failure *)
(* of Schemas, after which common goes on (apiserver.go 65-70).             *)
AnsweredOnce ==
    \A c \in Clients : pc[c] = "done" /\ methods[c] # Failed => answers[c] = 1

Mutating(r) == Method(r) \in {"POST", "PUT", "PATCH", "DELETE"} /\ r.action = Empty

(* What a client may conclude from a status: after a 2xx its change was     *)
(* made, once; after a 4xx it was not.  A lost answer is a 500 and says     *)
(* neither (proxy_store.go Create, Update, Delete, error_wrapper.go).  Left *)
(* out: an error of common, which is sent with status 200, and a delete     *)
(* with parameters that cannot be decoded (proxy_store.go 513-515).         *)
StatusTruthful ==
    \A c \in Clients :
        /\ pc[c] = "done" /\ Mutating(req[c])
        /\ methods[c] # Failed /\ req[c].host = "ok"
        /\ ~(Method(req[c]) = "DELETE" /\ req[c].params = "bad")
        => /\ Success(status[c]) => applied[c] = 1
           /\ status[c] \in 400..499 => applied[c] = 0

Changes(c) == applied'[c] > applied[c]

(* A change is made only while its user has the right to it, however old    *)
(* the schemas are that the request was checked with (client/factory.go     *)
(* setupConfig, schemabasedaccess.go).                                      *)
ChangesAsUser ==
    [][\A c \in Clients : Changes(c) => Verb(req[c]) \in rights[UserOf(req[c])]]_vars

(* A browser that has the CSRF cookie changes nothing without the token     *)
(* that goes with it, also when it overrides its method (validate.go        *)
(* 67-77).                                                                  *)
TokenChecked ==
    [][\A c \in Clients :
        Changes(c) /\ req[c].route = "resource" /\ req[c].browser
            => req[c].csrf # "mismatch"]_vars

(* A PUT replaces only the very version of the object its client has read,  *)
(* whatever other clients do meanwhile (proxy_store.go 492-495).            *)
NoLostUpdate ==
    [][\A c \in Clients : \A k \in Keys :
        Changes(c) /\ Method(req[c]) = "PUT" /\ cluster'[k] # cluster[k]
            => seen[c].key = k /\ cluster[k].rv = seen[c].rv]_vars

(* A client that reads an object, edits a field and puts the object back    *)
(* changes that field and no other, although answers carry fields of their  *)
(* own under the reserved names (proxy_store.go 131-160).                   *)
OnlyEditedChanges ==
    [][\A c \in Clients : \A k \in Keys :
        Changes(c) /\ Method(req[c]) = "PUT" /\ cluster'[k] # cluster[k]
            => cluster'[k].fields = WithSpec(cluster[k].fields, c)]_vars
=============================================================================
