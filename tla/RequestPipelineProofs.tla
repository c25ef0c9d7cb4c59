----------------------- MODULE RequestPipelineProofs ------------------------
(***************************************************************************)
(* RequestPipeline for any clients, requests, objects and fields.  The      *)
(* invariant says what a request has done and been told at each of its      *)
(* control points, and that what a client remembers of a version is what    *)
(* that version was: a version is never given twice.                        *)
(***************************************************************************)
EXTENDS RequestPipeline, TLAPS

-----------------------------------------------------------------------------
Truthful(r, m, ap, st) ==
    Mutating(r) /\ m # Failed /\ r.host = "ok"
        /\ ~(Method(r) = "DELETE" /\ r.params = "bad")
    => /\ Success(st) => ap = 1
       /\ st \in 400..499 => ap = 0

(* A client at control point p with request r, schema methods m, after ap   *)
(* changes and an answers, the first with status st, having seen se.        *)
ClientOK(p, r, m, ap, an, st, se) ==
    /\ p \in {"schemas", "proxy"} => ap = 0 /\ an = 0 /\ st = 0
    /\ p = "handle" => ap = 0 /\ an \in 0..1 /\ (m # Failed => an = 0 /\ st = 0)
    /\ p = "lookup" => /\ ap = 1 /\ an = 0 /\ st = 0 /\ m # Failed
                       /\ Method(r) = "DELETE"
    /\ p = "proxy" => r.route = "proxy" /\ Method(r) = "DELETE"
    /\ p \in {"schemas", "handle"} /\ r.body = "edit" => se.key[1] = r.type
    /\ p = "done" => (m # Failed => an = 1) /\ Truthful(r, m, ap, st)

(* What a client has seen of a version is what Kubernetes has, as long as   *)
(* it is the current one.                                                   *)
SeenOK(se, objects, now) ==
    /\ se.rv \in 0..now
    /\ se.key = <<se.key[1], se.key[2], se.key[3]>>
    /\ \A k \in Keys : se.key = k /\ se.rv # 0 /\ objects[k].rv = se.rv
                        => se.fields = toAPI(objects[k].fields)

ObjectsOK(objects, now) ==
    /\ objects = [k \in Keys |-> objects[k]]
    /\ \A k \in Keys : objects[k].rv \in 0..now /\ PlainFields(objects[k].fields)

Total(f) == f = [c \in Clients |-> f[c]]

StateTypes ==
    /\ pc \in [Clients -> Points]
    /\ sent \in [Clients -> 0..MaxRequests]
    /\ answers \in [Clients -> 0..2] /\ applied \in [Clients -> 0..1]
    /\ Total(req) /\ Total(methods) /\ Total(status) /\ Total(seen)
    /\ rights \in [Users -> SUBSET Verbs]
    /\ setup \in {"open", "auth"}
    /\ clock \in Nat

RequestsOK ==
    \A c \in Clients : pc[c] # "idle" =>
        sent[c] \in 1..MaxRequests /\ req[c] \in Requests[c][sent[c]]

ClientsOK ==
    \A c \in Clients :
        ClientOK(pc[c], req[c], methods[c], applied[c], answers[c], status[c], seen[c])

SeenAll(se, objects, now) == \A c \in Clients : SeenOK(se[c], objects, now)

IInv ==
    /\ StateTypes /\ RequestsOK
    /\ ObjectsOK(cluster, clock) /\ SeenAll(seen, cluster, clock)
    /\ ClientsOK

-----------------------------------------------------------------------------
(* The operators the actions are made of.                                   *)

(* The first check that does not let a request pass.                        *)
LEMMA FirstOfTwo ==
    ASSUME NEW a, NEW b
    PROVE  First(<<a, b>>) = IF a # 0 THEN a ELSE b
<1> DEFINE s == <<a, b>>
<1>1. DOMAIN s = 1..2 /\ s[1] = a /\ s[2] = b
  OBVIOUS
<1>2. \A i : i \in 1..2 <=> i = 1 \/ i = 2
  OBVIOUS
<1>3. 1..(1 - 1) = {} /\ 1..(2 - 1) = {1}
  OBVIOUS
<1> HIDE DEF s
<1>4. First(s) = IF a # 0 THEN a ELSE b
  BY <1>1, <1>2, <1>3 DEF First
<1> QED BY <1>4 DEF s

LEMMA FirstOfThree ==
    ASSUME NEW a, NEW b, NEW c
    PROVE  First(<<a, b, c>>) = IF a # 0 THEN a ELSE IF b # 0 THEN b ELSE c
<1> DEFINE s == <<a, b, c>>
<1>1. DOMAIN s = 1..3 /\ s[1] = a /\ s[2] = b /\ s[3] = c
  OBVIOUS
<1>2. \A i : i \in 1..3 <=> i = 1 \/ i = 2 \/ i = 3
  OBVIOUS
<1>3. 1..(1 - 1) = {} /\ 1..(2 - 1) = {1} /\ 1..(3 - 1) = {1, 2}
  OBVIOUS
<1> HIDE DEF s
<1>4. First(s) = IF a # 0 THEN a ELSE IF b # 0 THEN b ELSE c
  BY <1>1, <1>2, <1>3 DEF First
<1> QED BY <1>4 DEF s

LEMMA FirstOfFour ==
    ASSUME NEW a, NEW b, NEW c, NEW d
    PROVE  First(<<a, b, c, d>>)
            = IF a # 0 THEN a ELSE IF b # 0 THEN b ELSE IF c # 0 THEN c ELSE d
<1> DEFINE s == <<a, b, c, d>>
<1>1. DOMAIN s = 1..4 /\ s[1] = a /\ s[2] = b /\ s[3] = c /\ s[4] = d
  OBVIOUS
<1>2. \A i : i \in 1..4 <=> i = 1 \/ i = 2 \/ i = 3 \/ i = 4
  OBVIOUS
<1>3. 1..(1 - 1) = {} /\ 1..(2 - 1) = {1} /\ 1..(3 - 1) = {1, 2} /\ 1..(4 - 1) = {1, 2, 3}
  OBVIOUS
<1> HIDE DEF s
<1>4. First(s) = IF a # 0 THEN a ELSE IF b # 0 THEN b ELSE IF c # 0 THEN c ELSE d
  BY <1>1, <1>2, <1>3 DEF First
<1> QED BY <1>4 DEF s

(* handle refuses with a status of the client's fault, and lets pass only   *)
(* requests with a schema and, unless they read, with their token           *)
(* (validate.go 44-81, server.go 103-165).                                  *)
LEMMA BeforeHandlerIs ==
    ASSUME NEW c
    PROVE  /\ BeforeHandler(c) # 0 => BeforeHandler(c) \in 400..499
           /\ BeforeHandler(c) = 0 => HasSchema(c) /\ checkCSRF(req[c]) = 0
<1>1. BeforeHandler(c)
        = IF ValidateMethod(c) # 0 THEN ValidateMethod(c)
          ELSE IF checkCSRF(req[c]) # 0 THEN checkCSRF(req[c])
          ELSE IF NoSchema(c) # 0 THEN NoSchema(c) ELSE validateAction(c)
  BY FirstOfFour DEF BeforeHandler
<1>2. ValidateMethod(c) \in {0, 405, 403}
  BY DEF ValidateMethod
<1>3. checkCSRF(req[c]) \in {0, 422}
  BY DEF checkCSRF
<1>4. NoSchema(c) \in {0, 401, 404} /\ (NoSchema(c) = 0 => HasSchema(c))
  BY DEF NoSchema
<1>5. validateAction(c) \in {0, 403, 422}
  BY DEF validateAction
<1> QED BY <1>1, <1>2, <1>3, <1>4, <1>5

(* A handler refuses with an error; only a delete with parameters that      *)
(* cannot be decoded is called a success (proxy_store.go 513-515).  A PUT   *)
(* it lets pass names a version (proxy_store.go 492-495).                   *)
LEMMA HandlerIs ==
    ASSUME NEW c
    PROVE  /\ Handler(c) \in {0, 403, 422, 500, 200}
           /\ Handler(c) = 200 => Method(req[c]) = "DELETE" /\ req[c].params = "bad"
           /\ Handler(c) = 0 /\ Method(req[c]) = "PUT" => Body(c).rv # 0
<1>1. ReadBody(c) \in {0, 422}
  BY DEF ReadBody
<1>2. /\ StoreRefuses(c) \in {0, 500, 200}
      /\ StoreRefuses(c) = 200 => Method(req[c]) = "DELETE" /\ req[c].params = "bad"
      /\ StoreRefuses(c) = 0 /\ Method(req[c]) = "PUT" => Body(c).rv # 0
  BY DEF StoreRefuses
<1> DEFINE can == IF Can(c) THEN 0 ELSE 403
<1>3. can \in {0, 403}
  OBVIOUS
<1>4. CASE Method(req[c]) \in {"PUT", "POST"}
  <2>1. Handler(c) = IF can # 0 THEN can ELSE IF ReadBody(c) # 0 THEN ReadBody(c)
                     ELSE StoreRefuses(c)
    BY <1>4, FirstOfThree DEF Handler
  <2> HIDE DEF can
  <2> QED BY <1>1, <1>2, <1>3, <2>1
<1>5. CASE Method(req[c]) = "GET" /\ Name(c) = Empty
  <2>1. Method(req[c]) \notin {"PUT", "POST"}
    BY <1>5
  <2>2. Handler(c) = can
    BY <1>5, <2>1 DEF Handler
  <2> HIDE DEF can
  <2> QED BY <1>3, <1>5, <2>2
<1>6. CASE Method(req[c]) \notin {"PUT", "POST"} /\ ~(Method(req[c]) = "GET" /\ Name(c) = Empty)
  <2>1. Handler(c) = IF can # 0 THEN can ELSE StoreRefuses(c)
    <3>1. Handler(c) = First(<<can, StoreRefuses(c)>>)
      BY <1>6 DEF Handler
    <3> HIDE DEF can
    <3> QED BY <3>1, FirstOfTwo
  <2> HIDE DEF can
  <2> QED BY <1>2, <1>3, <1>6, <2>1
<1> QED BY <1>4, <1>5, <1>6

(* What a successful call to Kubernetes tells.                              *)
LEMMA K8sIs ==
    ASSUME NEW verb, NEW u, NEW k, NEW rv
    PROVE  /\ K8s(verb, u, k, rv) \in {200, 201, 403, 404, 409, 422, 500}
           /\ Success(K8s(verb, u, k, rv)) =>
                /\ verb \in rights[u] /\ k \in Keys
                /\ verb # "create" => cluster[k] # Absent
                /\ verb = "update" => rv \in {0, cluster[k].rv}
<1>1. K8s(verb, u, k, rv) \in {200, 201, 403, 404, 409, 422, 500}
  BY DEF K8s
<1>2. ASSUME K8s(verb, u, k, rv) \in {200, 201}
      PROVE  /\ verb \in rights[u] /\ k \in Keys
             /\ verb # "create" => cluster[k] # Absent
             /\ verb = "update" => rv \in {0, cluster[k].rv}
  <2>1. verb \in rights[u]
    BY <1>2 DEF K8s
  <2>2. k \in Keys
    BY <1>2 DEF K8s
  <2>3. verb # "create" => cluster[k] # Absent
    BY <1>2 DEF K8s
  <2>4. verb = "update" => rv \in {0, cluster[k].rv}
    BY <1>2 DEF K8s
  <2> QED BY <2>1, <2>2, <2>3, <2>4
<1>3. Success(K8s(verb, u, k, rv)) => K8s(verb, u, k, rv) \in {200, 201}
  BY <1>1 DEF Success
<1> QED BY <1>1, <1>2, <1>3

(* The client a call is made with is the user's (client/factory.go).        *)
LEMMA ClientIsUser ==
    ASSUME setup \in {"open", "auth"}, NEW r
    PROVE  TableClient(UserOf(r)) = UserOf(r)
BY DEF TableClient, UserOf

-----------------------------------------------------------------------------
(* Fields.  What a client gets, edits and sends back is stored with only    *)
(* that edit: the renaming of reserved fields is undone on the way back     *)
(* (proxy_store.go 131-160).                                                *)
LEMMA SpecKey ==
    /\ \A n, m : Plain(n) = Plain(m) <=> n = m
    /\ \A n : Plain(n).name = n /\ Plain(n).under = FALSE /\ Plain(n) # Under(n)
    /\ \A n : Under(n).name = n /\ Under(n).under = TRUE
    /\ \A n, m : Plain(n) # Under(m)
BY DEF Plain, Under

LEMMA ToAPIIs ==
    ASSUME NEW f, PlainFields(f)
    PROVE  /\ DOMAIN toAPI(f) = {Plain("type")}
                \cup {Plain(k.name) : k \in {x \in DOMAIN f : x.name # "type"}}
                \cup {Under(k.name) : k \in {x \in DOMAIN f : x.name = "type"}}
           /\ \A k \in DOMAIN f : k.name # "type" => toAPI(f)[k] = f[k]
           /\ Plain("type") \in DOMAIN f => toAPI(f)[Under("type")] = f[Plain("type")]
<1> DEFINE g == moveToUnderscore(f)
           at(k) == [name |-> k.name, under |-> k.name \in ReservedFields]
<1>1. \A k \in DOMAIN f : k = Plain(k.name)
  BY DEF PlainFields
<1>2. ASSUME NEW k PROVE at(k) = IF k.name = "type" THEN Under(k.name) ELSE Plain(k.name)
  <2>1. CASE k.name = "type"
    <3>1. (k.name \in ReservedFields) = TRUE
      BY <2>1 DEF ReservedFields
    <3> QED BY <2>1, <3>1 DEF Under
  <2>2. CASE k.name # "type"
    <3>1. (k.name \in ReservedFields) = FALSE
      BY <2>2 DEF ReservedFields
    <3> QED BY <2>2, <3>1 DEF Plain
  <2> QED BY <2>1, <2>2
<1>3. DOMAIN g = {at(x) : x \in DOMAIN f} /\ \A k \in DOMAIN g : g[k] = f[Plain(k.name)]
  BY DEF moveToUnderscore
<1>4. /\ DOMAIN toAPI(f) = DOMAIN g \cup {Plain("type")}
      /\ \A k \in DOMAIN g : k # Plain("type") => toAPI(f)[k] = g[k]
  <2>1. {Plain(n) : n \in ReservedFields} = {Plain("type")}
    BY DEF ReservedFields
  <2> QED BY <2>1 DEF toAPI
<1> HIDE DEF g, at
<1>5. DOMAIN g = {Plain(k.name) : k \in {x \in DOMAIN f : x.name # "type"}}
                 \cup {Under(k.name) : k \in {x \in DOMAIN f : x.name = "type"}}
  BY <1>2, <1>3
<1>6. ASSUME NEW k \in DOMAIN f, k.name # "type"
      PROVE  toAPI(f)[k] = f[k]
  <2>1. k \in DOMAIN g
    BY <1>1, <1>5, <1>6
  <2>2. k # Plain("type")
    BY <1>6, SpecKey
  <2> QED BY <1>1, <1>3, <1>4, <2>1, <2>2
<1>7. ASSUME Plain("type") \in DOMAIN f
      PROVE  toAPI(f)[Under("type")] = f[Plain("type")]
  <2>1. Under("type") \in DOMAIN g
    BY <1>5, <1>7, SpecKey
  <2>2. Under("type") # Plain("type") /\ Under("type").name = "type"
    BY SpecKey
  <2> QED BY <1>3, <1>4, <2>1, <2>2
<1> QED BY <1>4, <1>5, <1>6, <1>7

LEMMA WithSpecIs ==
    ASSUME NEW f, NEW v
    PROVE  /\ DOMAIN WithSpec(f, v) = DOMAIN f \cup {Plain("spec")}
           /\ WithSpec(f, v)[Plain("spec")] = v
           /\ \A k \in DOMAIN f : k # Plain("spec") => WithSpec(f, v)[k] = f[k]
           /\ WithSpec(f, v) = [k \in DOMAIN WithSpec(f, v) |-> WithSpec(f, v)[k]]
BY DEF WithSpec

LEMMA MoveFromIs ==
    ASSUME NEW g
    PROVE  LET h == moveFromUnderscore(g)
           IN  /\ DOMAIN h = {Plain(x.name) : x \in {k \in DOMAIN g : k.name = "type" => k.under}}
               /\ \A n : Plain(n) \in DOMAIN h =>
                    h[Plain(n)] = IF n = "type" THEN g[Under(n)] ELSE g[Plain(n)]
               /\ PlainFields(h)
<1> DEFINE h == moveFromUnderscore(g)
           D == {Plain(x.name) : x \in {k \in DOMAIN g : k.name = "type" => k.under}}
<1>1. h = [k \in D |-> IF k.name = "type" THEN g[Under(k.name)] ELSE g[k]]
  BY DEF moveFromUnderscore, ReservedFields
<1> HIDE DEF h
<1>2. DOMAIN h = D /\ h = [k \in DOMAIN h |-> h[k]]
  BY <1>1
<1>3. ASSUME NEW n, Plain(n) \in D
      PROVE  h[Plain(n)] = IF n = "type" THEN g[Under(n)] ELSE g[Plain(n)]
  <2> HIDE DEF D
  <2>1. Plain(n).name = n
    BY SpecKey
  <2> QED BY <1>1, <1>3, <2>1
<1>4. \A k \in D : k = Plain(k.name)
  BY SpecKey
<1>5. PlainFields(h)
  BY <1>2, <1>4 DEF PlainFields
<1> QED BY <1>2, <1>3, <1>5 DEF h

LEMMA WithSpecPlain ==
    ASSUME NEW f, NEW v, PlainFields(f)
    PROVE  PlainFields(WithSpec(f, v))
<1>1. ASSUME NEW k \in DOMAIN WithSpec(f, v) PROVE k = Plain(k.name)
  <2>1. CASE k \in DOMAIN f
    BY <2>1 DEF PlainFields
  <2>2. CASE k = Plain("spec")
    BY <2>2, SpecKey
  <2>3. k \in DOMAIN f \cup {Plain("spec")}
    BY <1>1 DEF WithSpec
  <2> QED BY <2>1, <2>2, <2>3
<1> QED BY <1>1, WithSpecIs DEF PlainFields

LEMMA RoundTrip ==
    ASSUME NEW f, NEW v, PlainFields(f)
    PROVE  moveFromUnderscore(WithSpec(toAPI(f), v)) = WithSpec(f, v)
<1> DEFINE a == toAPI(f)
           g == WithSpec(toAPI(f), v)
           h == moveFromUnderscore(WithSpec(toAPI(f), v))
           w == WithSpec(f, v)
<1>1. /\ DOMAIN a = {Plain("type")}
            \cup {Plain(k.name) : k \in {x \in DOMAIN f : x.name # "type"}}
            \cup {Under(k.name) : k \in {x \in DOMAIN f : x.name = "type"}}
      /\ \A k \in DOMAIN f : k.name # "type" => a[k] = f[k]
      /\ Plain("type") \in DOMAIN f => a[Under("type")] = f[Plain("type")]
  BY ToAPIIs
<1>2. /\ DOMAIN g = DOMAIN a \cup {Plain("spec")} /\ g[Plain("spec")] = v
      /\ \A k \in DOMAIN a : k # Plain("spec") => g[k] = a[k]
  BY WithSpecIs
<1>3. /\ DOMAIN h = {Plain(x.name) : x \in {k \in DOMAIN g : k.name = "type" => k.under}}
      /\ \A n : Plain(n) \in DOMAIN h =>
            h[Plain(n)] = IF n = "type" THEN g[Under(n)] ELSE g[Plain(n)]
      /\ h = [k \in DOMAIN h |-> h[k]]
  BY MoveFromIs DEF PlainFields
<1>4. /\ DOMAIN w = DOMAIN f \cup {Plain("spec")} /\ w[Plain("spec")] = v
      /\ \A k \in DOMAIN f : k # Plain("spec") => w[k] = f[k]
      /\ w = [k \in DOMAIN w |-> w[k]]
  BY WithSpecIs
<1>5. \A k \in DOMAIN f : k = Plain(k.name)
  BY DEF PlainFields
<1> HIDE DEF a, g, h, w
<1>6. DOMAIN h \subseteq DOMAIN w
  <2> SUFFICES ASSUME NEW x \in DOMAIN g, x.name = "type" => x.under
               PROVE  Plain(x.name) \in DOMAIN w
    BY <1>3
  <2>1. CASE x = Plain("spec")
    BY <1>4, <2>1, SpecKey
  <2>2. CASE x = Plain("type")
    BY <2>2, SpecKey
  <2>3. ASSUME NEW k \in DOMAIN f, x = Plain(k.name) PROVE Plain(x.name) \in DOMAIN w
    BY <1>4, <1>5, <2>3, SpecKey
  <2>4. ASSUME NEW k \in DOMAIN f, x = Under(k.name) PROVE Plain(x.name) \in DOMAIN w
    BY <1>4, <1>5, <2>4, SpecKey
  <2> QED BY <1>1, <1>2, <2>1, <2>2, <2>3, <2>4
<1>7. DOMAIN w \subseteq DOMAIN h
  <2> SUFFICES ASSUME NEW k \in DOMAIN w
               PROVE  \E x \in DOMAIN g : (x.name = "type" => x.under) /\ k = Plain(x.name)
    BY <1>3
  <2>1. CASE k = Plain("spec")
    BY <1>2, <2>1, SpecKey
  <2>2. CASE k \in DOMAIN f /\ k.name = "type"
    <3>1. Under(k.name) \in DOMAIN g
      BY <1>1, <1>2, <2>2
    <3> QED BY <1>5, <2>2, <3>1, SpecKey
  <2>3. CASE k \in DOMAIN f /\ k.name # "type"
    <3>1. Plain(k.name) \in DOMAIN g
      BY <1>1, <1>2, <2>3
    <3> QED BY <1>5, <2>3, <3>1, SpecKey
  <2> QED BY <1>4, <2>1, <2>2, <2>3
<1>8. ASSUME NEW k \in DOMAIN w PROVE h[k] = w[k]
  <2>1. k \in DOMAIN h
    BY <1>7
  <2>2. CASE k = Plain("spec")
    BY <1>2, <1>3, <1>4, <2>1, <2>2
  <2>3. CASE k \in DOMAIN f /\ k # Plain("spec") /\ k.name = "type"
    <3>1. k = Plain("type")
      BY <1>5, <2>3
    <3>2. h[k] = g[Under("type")]
      BY <1>3, <2>1, <3>1
    <3>3. Under("type") \in DOMAIN a /\ Under("type") # Plain("spec")
      BY <1>1, <2>3, SpecKey
    <3> QED BY <1>1, <1>2, <1>4, <2>3, <3>1, <3>2, <3>3
  <2>4. CASE k \in DOMAIN f /\ k # Plain("spec") /\ k.name # "type"
    <3>1. k = Plain(k.name) /\ k \in DOMAIN a
      BY <1>1, <1>5, <2>4
    <3>2. h[k] = g[k]
      BY <1>3, <2>1, <2>4, <3>1
    <3> QED BY <1>1, <1>2, <1>4, <2>4, <3>1, <3>2
  <2> QED BY <1>4, <2>2, <2>3, <2>4
<1>9. h = w
  <2>1. DOMAIN h = DOMAIN w
    BY <1>6, <1>7
  <2> QED BY <1>3, <1>4, <1>8, <2>1
<1> QED BY <1>9 DEF h, w

-----------------------------------------------------------------------------
(* The key of a call has three parts, and what the call leaves is an object *)
(* of Kubernetes with the next version, or none.                            *)
LEMMA KeyOfIs ==
    ASSUME NEW c
    PROVE  KeyOf(c) = <<KeyOf(c)[1], KeyOf(c)[2], KeyOf(c)[3]>>
<1>1. CASE Method(req[c]) = "POST"
  BY <1>1 DEF KeyOf
<1>2. CASE Method(req[c]) = "PUT"
  BY <1>2 DEF KeyOf
<1>3. CASE Method(req[c]) = "PATCH"
  BY <1>3 DEF KeyOf
<1>4. CASE Method(req[c]) \notin {"POST", "PUT", "PATCH"}
  BY <1>4 DEF KeyOf
<1> QED BY <1>1, <1>2, <1>3, <1>4

LEMMA AbsentIs == Absent.rv = 0 /\ PlainFields(Absent.fields)
<1>1. Absent.rv = 0 /\ Absent.fields = <<>>
  BY DEF Absent
<1>2. DOMAIN <<>> = {} /\ <<>> = [k \in {} |-> <<>>[k]]
  OBVIOUS
<1> QED BY <1>1, <1>2 DEF PlainFields

LEMMA StoredIs ==
    ASSUME IInv, NEW c \in Clients, KeyOf(c) \in Keys
    PROVE  Stored(c).rv \in {0, clock + 1} /\ PlainFields(Stored(c).fields)
<1>1. CASE Method(req[c]) = "DELETE"
  BY <1>1, AbsentIs DEF Stored
<1>2. CASE Method(req[c]) = "PATCH"
  <2>1. PlainFields(cluster[KeyOf(c)].fields)
    BY DEF IInv, ObjectsOK
  <2>2. Stored(c).rv = clock + 1 /\ Stored(c).fields = WithSpec(cluster[KeyOf(c)].fields, c)
    BY <1>2 DEF Stored
  <2> QED BY <2>1, <2>2, WithSpecPlain
<1>3. CASE Method(req[c]) \notin {"DELETE", "PATCH"}
  <2>1. Stored(c).rv = clock + 1 /\ Stored(c).fields = moveFromUnderscore(Body(c).fields)
    BY <1>3 DEF Stored
  <2> QED BY <2>1, MoveFromIs
<1> QED BY <1>1, <1>2, <1>3

(* A change gives a version nobody has seen.                                *)
LEMMA ApplyInv ==
    ASSUME IInv, NEW c \in Clients, NEW k \in Keys, NEW o, Apply(c, k, o),
           o.rv \in {0, clock + 1}, PlainFields(o.fields), applied[c] = 0
    PROVE  /\ clock' \in Nat /\ ObjectsOK(cluster', clock') /\ SeenAll(seen, cluster', clock')
           /\ cluster'[k] = o /\ \A j \in Keys : j # k => cluster'[j] = cluster[j]
           /\ applied' \in [Clients -> 0..1] /\ applied'[c] = 1
           /\ \A d \in Clients : d # c => applied'[d] = applied[d]
<1>1. /\ clock \in Nat /\ clock' = clock + 1 /\ cluster' = [cluster EXCEPT ![k] = o]
      /\ applied' = [applied EXCEPT ![c] = @ + 1] /\ applied \in [Clients -> 0..1]
      /\ cluster = [j \in Keys |-> cluster[j]]
  BY DEF IInv, StateTypes, Apply, ObjectsOK
<1>2. /\ applied' \in [Clients -> 0..1] /\ applied'[c] = 1
      /\ \A d \in Clients : d # c => applied'[d] = applied[d]
  BY <1>1
<1>3. /\ cluster' = [j \in Keys |-> cluster'[j]] /\ cluster'[k] = o
      /\ \A j \in Keys : j # k => cluster'[j] = cluster[j]
  BY <1>1
<1>4. ObjectsOK(cluster', clock')
  <2>1. ASSUME NEW j \in Keys
        PROVE  cluster'[j].rv \in 0..clock' /\ PlainFields(cluster'[j].fields)
    <3>1. cluster[j].rv \in 0..clock /\ PlainFields(cluster[j].fields)
      BY DEF IInv, ObjectsOK
    <3> QED BY <1>1, <1>3, <3>1
  <2> QED BY <1>3, <2>1 DEF ObjectsOK
<1>5. ASSUME NEW d \in Clients PROVE SeenOK(seen[d], cluster', clock')
  <2>1. SeenOK(seen[d], cluster, clock)
    BY DEF IInv, SeenAll
  <2>2. seen[d].rv \in 0..clock' /\ seen[d].rv # clock'
    BY <1>1, <2>1 DEF SeenOK
  <2>3. ASSUME NEW j \in Keys, seen[d].key = j, seen[d].rv # 0, cluster'[j].rv = seen[d].rv
        PROVE  seen[d].fields = toAPI(cluster'[j].fields)
    <3>1. j # k
      BY <1>1, <1>3, <2>2, <2>3
    <3> QED BY <1>3, <2>1, <2>3, <3>1 DEF SeenOK
  <2> QED BY <2>1, <2>2, <2>3 DEF SeenOK
<1> QED BY <1>1, <1>2, <1>3, <1>4, <1>5 DEF SeenAll

LEMMA NoEffectInv ==
    ASSUME IInv, NEW c \in Clients, NoEffect
    PROVE  /\ clock' \in Nat /\ ObjectsOK(cluster', clock') /\ SeenAll(seen, cluster', clock')
           /\ cluster' = cluster /\ applied' \in [Clients -> 0..1] /\ applied' = applied
BY DEF IInv, StateTypes, NoEffect, clusterVars

(* What a client is shown of an object is the object it is shown.           *)
LEMMA SeeInv ==
    ASSUME IInv, NEW c \in Clients, NEW k \in Keys, NEW o, See(c, k, o),
           k = <<k[1], k[2], k[3]>>, cluster'[k] = o,
           ObjectsOK(cluster', clock'), SeenAll(seen, cluster', clock')
    PROVE  /\ Total(seen') /\ SeenAll(seen', cluster', clock')
           /\ \A d \in Clients : d # c => seen'[d] = seen[d]
<1> DEFINE new == [key |-> k, rv |-> o.rv, fields |-> toAPI(o.fields)]
<1>1. new.key = k /\ new.rv = o.rv /\ new.fields = toAPI(o.fields)
  OBVIOUS
<1>2. Total(seen) /\ seen' = [seen EXCEPT ![c] = new]
  BY DEF IInv, StateTypes, See
<1> HIDE DEF new
<1>3. Total(seen') /\ seen'[c] = new /\ \A d \in Clients : d # c => seen'[d] = seen[d]
  BY <1>2 DEF Total
<1>4. SeenOK(new, cluster', clock')
  <2>1. o.rv \in 0..clock'
    BY DEF ObjectsOK
  <2>2. \A j \in Keys : new.key = j => new.fields = toAPI(cluster'[j].fields)
    BY <1>1
  <2> QED BY <1>1, <2>1, <2>2 DEF SeenOK
<1> QED BY <1>3, <1>4 DEF SeenAll

LEMMA NotSeen ==
    ASSUME IInv, UNCHANGED seen, SeenAll(seen, cluster', clock')
    PROVE  Total(seen') /\ SeenAll(seen', cluster', clock')
BY DEF IInv, StateTypes

-----------------------------------------------------------------------------
(* A step that ends a request: its answer is the only one, and truthful.    *)
LEMMA AnswerInv ==
    ASSUME IInv, NEW c \in Clients, pc[c] \in {"schemas", "handle", "lookup", "proxy"},
           NEW before \in 0..1, NEW code \in Nat, (before = 1) <=> (code = 0),
           Answer(c, before, code),
           clock' \in Nat, ObjectsOK(cluster', clock'), SeenAll(seen', cluster', clock'),
           Total(seen'), \A d \in Clients : d # c => seen'[d] = seen[d],
           applied' \in [Clients -> 0..1],
           \A d \in Clients : d # c => applied'[d] = applied[d],
           UNCHANGED <<setup, rights>>,
           Truthful(req[c], methods[c], applied'[c], IF code = 0 THEN 200 ELSE code)
    PROVE  IInv'
<1>1. /\ pc' = [pc EXCEPT ![c] = "done"]
      /\ answers' = [answers EXCEPT ![c] = @ + before + Written(code)]
      /\ status' = [status EXCEPT ![c] =
                      IF @ # 0 THEN @ ELSE IF code = Complete THEN 200 ELSE code]
      /\ UNCHANGED <<req, methods, sent>>
  BY DEF Answer
<1>2. before + Written(code) = 1
  BY DEF Written, Complete
<1>3. ClientOK(pc[c], req[c], methods[c], applied[c], answers[c], status[c], seen[c])
  BY DEF IInv, ClientsOK
<1>4. answers[c] \in 0..1 /\ (methods[c] # Failed => answers[c] = 0 /\ status[c] = 0)
  BY <1>3 DEF ClientOK
<1>5. answers' = [answers EXCEPT ![c] = @ + 1]
  <2>1. Written(code) \in 0..1
    BY DEF Written
  <2>2. answers[c] + before + Written(code) = answers[c] + 1
    BY <1>2, <1>4, <2>1
  <2> QED BY <1>1, <2>2
<1>6. StateTypes'
  <2>1. pc' \in [Clients -> Points]
    BY <1>1 DEF IInv, StateTypes, Points
  <2>2. answers' \in [Clients -> 0..2]
    BY <1>4, <1>5 DEF IInv, StateTypes
  <2>3. Total(status')
    BY <1>1 DEF IInv, StateTypes, Total
  <2> QED BY <1>1, <2>1, <2>2, <2>3 DEF IInv, StateTypes, Total
<1>7. RequestsOK'
  <2>1. \A d \in Clients : pc'[d] # "idle" => pc[d] # "idle"
    BY <1>1 DEF IInv, StateTypes
  <2> QED BY <1>1, <2>1 DEF IInv, RequestsOK
<1>8. ClientsOK'
  <2> SUFFICES ASSUME NEW d \in Clients
               PROVE  ClientOK(pc'[d], req'[d], methods'[d], applied'[d], answers'[d],
                               status'[d], seen'[d])
    BY DEF ClientsOK
  <2>1. CASE d # c
    <3>1. /\ pc'[d] = pc[d] /\ req'[d] = req[d] /\ methods'[d] = methods[d]
          /\ answers'[d] = answers[d] /\ status'[d] = status[d]
      BY <1>1, <1>5, <2>1 DEF IInv, StateTypes, Total
    <3> QED BY <2>1, <3>1 DEF IInv, ClientsOK
  <2>2. CASE d = c
    <3>1. /\ pc'[c] = "done" /\ req'[c] = req[c] /\ methods'[c] = methods[c]
          /\ methods[c] # Failed => answers'[c] = 1
      BY <1>1, <1>4, <1>5 DEF IInv, StateTypes
    <3>2. methods[c] # Failed => status'[c] = IF code = 0 THEN 200 ELSE code
      BY <1>1, <1>4 DEF IInv, StateTypes, Total, Complete
    <3>3. Truthful(req[c], methods[c], applied'[c], status'[c])
      BY <3>2 DEF Truthful
    <3> QED BY <2>2, <3>1, <3>3 DEF ClientOK
  <2> QED BY <2>1, <2>2
<1> QED BY <1>6, <1>7, <1>8 DEF IInv

(* A request that is turned down, or that only reads: nothing is changed    *)
(* for it, and its status does not say so either.                           *)
LEMMA NothingDone ==
    ASSUME IInv, NEW c \in Clients, pc[c] \in {"schemas", "handle", "proxy"},
           NEW before \in 0..1, NEW code \in Nat, (before = 1) <=> (code = 0),
           Answer(c, before, code), NoEffect, UNCHANGED <<setup, rights>>,
           Total(seen'), SeenAll(seen', cluster', clock'),
           \A d \in Clients : d # c => seen'[d] = seen[d],
           \/ code \in 400..599 \/ ~Mutating(req[c]) \/ req[c].host # "ok"
           \/ Method(req[c]) = "DELETE" /\ req[c].params = "bad"
    PROVE  IInv'
<1>1. applied[c] = 0
  BY DEF IInv, ClientsOK, ClientOK
<1>2. /\ clock' \in Nat /\ ObjectsOK(cluster', clock')
      /\ applied' \in [Clients -> 0..1] /\ applied' = applied
  BY NoEffectInv
<1>3. Truthful(req[c], methods[c], applied'[c], IF code = 0 THEN 200 ELSE code)
  BY <1>1, <1>2 DEF Truthful, Success
<1> QED BY <1>2, <1>3, AnswerInv

(* arrive: a new request, about which nothing is known yet.                 *)
LEMMA arriveInv ==
    ASSUME IInv, NEW c \in Clients, arrive(c)
    PROVE  IInv'
<1>1. PICK r \in Requests[c][sent[c] + 1] :
        /\ r.body \in {"edit", "unversioned"} => seen[c] # NoObject /\ seen[c].key[1] = r.type
        /\ req' = [req EXCEPT ![c] = r]
        /\ pc' = [pc EXCEPT ![c] = IF r.route = "proxy" THEN "proxy" ELSE "schemas"]
  BY DEF arrive
<1>2. /\ sent[c] < MaxRequests /\ sent' = [sent EXCEPT ![c] = @ + 1]
      /\ applied' = [applied EXCEPT ![c] = 0] /\ answers' = [answers EXCEPT ![c] = 0]
      /\ status' = [status EXCEPT ![c] = 0]
      /\ UNCHANGED <<methods, seen, cluster, clock, setup, rights>>
  BY DEF arrive, clusterVars, envVars
<1>3. sent[c] + 1 \in 1..MaxRequests /\ sent[c] \in Nat
  BY <1>2, BoundsAssumption DEF IInv, StateTypes
<1>4. r.route = "proxy" => Method(r) = "DELETE"
  BY <1>3, RequestsAssumption DEF Method, Empty
<1>5. StateTypes'
  <2>1. pc' \in [Clients -> Points]
    BY <1>1 DEF IInv, StateTypes, Points
  <2>2. sent' \in [Clients -> 0..MaxRequests]
    BY <1>2, <1>3 DEF IInv, StateTypes
  <2>3. answers' \in [Clients -> 0..2] /\ applied' \in [Clients -> 0..1]
    BY <1>2 DEF IInv, StateTypes
  <2>4. Total(req') /\ Total(status')
    BY <1>1, <1>2 DEF IInv, StateTypes, Total
  <2> QED BY <1>2, <2>1, <2>2, <2>3, <2>4 DEF IInv, StateTypes, Total
<1>6. RequestsOK'
  <2> SUFFICES ASSUME NEW d \in Clients, pc'[d] # "idle"
               PROVE  sent'[d] \in 1..MaxRequests /\ req'[d] \in Requests[d][sent'[d]]
    BY DEF RequestsOK
  <2>1. CASE d = c
    <3>1. sent'[c] = sent[c] + 1 /\ req'[c] = r
      BY <1>1, <1>2 DEF IInv, StateTypes, Total
    <3> QED BY <1>3, <2>1, <3>1
  <2>2. CASE d # c
    <3>1. sent'[d] = sent[d] /\ req'[d] = req[d] /\ pc'[d] = pc[d]
      BY <1>1, <1>2, <2>2 DEF IInv, StateTypes, Total
    <3> QED BY <3>1 DEF IInv, RequestsOK
  <2> QED BY <2>1, <2>2
<1>7. ClientsOK'
  <2> SUFFICES ASSUME NEW d \in Clients
               PROVE  ClientOK(pc'[d], req'[d], methods'[d], applied'[d], answers'[d],
                               status'[d], seen'[d])
    BY DEF ClientsOK
  <2>1. CASE d = c
    <3>1. /\ pc'[c] = (IF r.route = "proxy" THEN "proxy" ELSE "schemas") /\ req'[c] = r
          /\ applied'[c] = 0 /\ answers'[c] = 0 /\ status'[c] = 0 /\ seen'[c] = seen[c]
      BY <1>1, <1>2 DEF IInv, StateTypes, Total
    <3> QED BY <1>1, <1>4, <2>1, <3>1 DEF ClientOK
  <2>2. CASE d # c
    <3>1. /\ pc'[d] = pc[d] /\ req'[d] = req[d] /\ methods'[d] = methods[d]
          /\ applied'[d] = applied[d] /\ answers'[d] = answers[d]
          /\ status'[d] = status[d] /\ seen'[d] = seen[d]
      BY <1>1, <1>2, <2>2 DEF IInv, StateTypes, Total
    <3> QED BY <3>1 DEF IInv, ClientsOK
  <2> QED BY <2>1, <2>2
<1> QED BY <1>2, <1>5, <1>6, <1>7 DEF IInv

(* The schemas of a user are never the failed ones.                         *)
LEMMA MethodsForIs ==
    ASSUME NEW u
    PROVE  MethodsFor(u) # Failed
<1>1. "failed" \notin MethodsFor(u).coll
  BY DEF MethodsFor
<1>2. "failed" \in Failed.coll
  BY DEF Failed
<1> QED BY <1>1, <1>2

(* common: the request goes on with its user's schemas, or without.         *)
LEMMA commonInv ==
    ASSUME IInv, NEW c \in Clients, common(c) \/ commonFails(c)
    PROVE  IInv'
<1>1. /\ pc[c] = "schemas" /\ req[c].host = "ok"
      /\ UNCHANGED <<req, applied, sent, seen, cluster, clock, setup, rights>>
  BY DEF common, commonFails, clusterVars, envVars
<1>2. \/ /\ pc' = [pc EXCEPT ![c] = "handle"] /\ UNCHANGED <<answers, status>>
         /\ methods' = [methods EXCEPT ![c] = MethodsFor(UserOf(req[c]))]
      \/ /\ answers' = [answers EXCEPT ![c] = 1] /\ status' = [status EXCEPT ![c] = 200]
         /\ methods' = [methods EXCEPT ![c] = Failed]
         /\ \/ pc' = [pc EXCEPT ![c] = "handle"]
            \/ pc' = [pc EXCEPT ![c] = "done"]
  BY DEF common, commonFails
<1>3. StateTypes'
  <2>1. pc' \in [Clients -> Points]
    BY <1>2 DEF IInv, StateTypes, Points
  <2>2. answers' \in [Clients -> 0..2]
    BY <1>2 DEF IInv, StateTypes
  <2>3. Total(methods') /\ Total(status')
    BY <1>2 DEF IInv, StateTypes, Total
  <2> QED BY <1>1, <2>1, <2>2, <2>3 DEF IInv, StateTypes, Total
<1>4. RequestsOK'
  <2>1. \A d \in Clients : pc'[d] # "idle" => pc[d] # "idle"
    BY <1>1, <1>2 DEF IInv, StateTypes
  <2> QED BY <1>1, <2>1 DEF IInv, RequestsOK
<1>5. ASSUME NEW d \in Clients
      PROVE  ClientOK(pc'[d], req'[d], methods'[d], applied'[d], answers'[d],
                      status'[d], seen'[d])
  <2>1. ClientOK(pc[d], req[d], methods[d], applied[d], answers[d], status[d], seen[d])
    BY DEF IInv, ClientsOK
  <2>2. CASE d # c
    <3>1. /\ pc'[d] = pc[d] /\ methods'[d] = methods[d]
          /\ answers'[d] = answers[d] /\ status'[d] = status[d]
      BY <1>2, <2>2 DEF IInv, StateTypes, Total
    <3> QED BY <1>1, <2>1, <3>1
  <2>3. CASE d = c
    <3>1. \/ /\ pc'[c] = "handle" /\ answers'[c] = answers[c] /\ status'[c] = status[c]
             /\ methods'[c] = MethodsFor(UserOf(req[c]))
          \/ /\ answers'[c] = 1 /\ methods'[c] = Failed /\ pc'[c] \in {"handle", "done"}
      BY <1>2 DEF IInv, StateTypes, Total
    <3> QED BY <1>1, <2>1, <2>3, <3>1, MethodsForIs DEF ClientOK, Truthful
  <2> QED BY <2>2, <2>3
<1> QED BY <1>1, <1>3, <1>4, <1>5 DEF IInv, ClientsOK

(* Steps that end a request without a call to Kubernetes.                   *)
LEMMA refuseInv ==
    ASSUME IInv, NEW c \in Clients,
           \/ commonNoURL(c) \/ refuse(c) \/ serveCustom(c) \/ handlerRefuses(c)
    PROVE  IInv'
<1>1. NoEffect /\ UNCHANGED <<seen, setup, rights>>
  BY DEF commonNoURL, refuse, serveCustom, handlerRefuses, envVars
<1>2. Total(seen') /\ SeenAll(seen', cluster', clock')
  BY <1>1, NoEffectInv, NotSeen
<1>3. CASE commonNoURL(c)
  BY <1>1, <1>2, <1>3, NothingDone DEF commonNoURL
<1>4. CASE refuse(c)
  <2>1. BeforeHandler(c) \in 400..499
    BY <1>4, BeforeHandlerIs DEF refuse
  <2> QED BY <1>1, <1>2, <1>4, <2>1, NothingDone DEF refuse
<1>5. CASE serveCustom(c)
  <2>1. ~Mutating(req[c])
    BY <1>5 DEF serveCustom, IsAction, IsLink, Mutating
  <2> QED BY <1>1, <1>2, <1>5, <2>1, NothingDone DEF serveCustom, Complete
<1>6. CASE handlerRefuses(c)
  <2>1. /\ Handler(c) \in {403, 422, 500, 200}
        /\ Handler(c) = 200 => Method(req[c]) = "DELETE" /\ req[c].params = "bad"
    BY <1>6, HandlerIs DEF handlerRefuses
  <2>2. pc[c] = "handle" /\ Answer(c, 0, Handler(c))
    BY <1>6 DEF handlerRefuses, Handled
  <2> QED BY <1>1, <1>2, <2>1, <2>2, NothingDone
<1> QED BY <1>3, <1>4, <1>5, <1>6

(* Calls that only read.                                                    *)
LEMMA k8sReadInv ==
    ASSUME IInv, NEW c \in Clients, k8sGet(c) \/ k8sList(c)
    PROVE  IInv'
<1>1. pc[c] = "handle" /\ Method(req[c]) = "GET" /\ NoEffect /\ UNCHANGED <<setup, rights>>
  BY DEF k8sGet, k8sList, Calls, Handled, envVars
<1>2. ~Mutating(req[c])
  BY <1>1 DEF Mutating
<1>3. /\ ObjectsOK(cluster', clock') /\ SeenAll(seen, cluster', clock') /\ cluster' = cluster
  BY <1>1, NoEffectInv
<1>4. CASE k8sGet(c)
  <2>1. Code(c) \in {200, 201, 403, 404, 409, 422, 500}
        /\ (Success(Code(c)) => KeyOf(c) \in Keys)
    BY K8sIs DEF Code
  <2>2. Answer(c, 0, Code(c)) /\ Code(c) \in Nat /\ Code(c) # 0
    BY <1>4, <2>1 DEF k8sGet
  <2>3. /\ Total(seen') /\ SeenAll(seen', cluster', clock')
        /\ \A d \in Clients : d # c => seen'[d] = seen[d]
    <3>1. CASE Success(Code(c))
      <4>1. See(c, KeyOf(c), cluster[KeyOf(c)])
        BY <1>4, <3>1 DEF k8sGet
      <4>2. cluster'[KeyOf(c)] = cluster[KeyOf(c)]
        BY <1>3
      <4> QED BY <1>3, <2>1, <3>1, <4>1, <4>2, KeyOfIs, SeeInv
    <3>2. CASE ~Success(Code(c))
      <4>1. UNCHANGED seen
        BY <1>4, <3>2 DEF k8sGet
      <4> QED BY <1>3, <4>1, NotSeen
    <3> QED BY <3>1, <3>2
  <2> QED BY <1>1, <1>2, <2>2, <2>3, NothingDone
<1>5. CASE k8sList(c)
  <2>1. PICK code \in {200, 403} : Answer(c, 0, code)
    BY <1>5 DEF k8sList
  <2>2. UNCHANGED seen
    BY <1>5 DEF k8sList
  <2>3. Total(seen') /\ SeenAll(seen', cluster', clock')
    BY <1>3, <2>2, NotSeen
  <2> QED BY <1>1, <1>2, <2>1, <2>2, <2>3, NothingDone
<1> QED BY <1>4, <1>5

(* A change that Kubernetes makes.                                          *)
LEMMA ChangeMade ==
    ASSUME IInv, NEW c \in Clients, pc[c] = "handle", Success(Code(c)),
           Apply(c, KeyOf(c), Stored(c))
    PROVE  /\ clock' \in Nat /\ ObjectsOK(cluster', clock') /\ SeenAll(seen, cluster', clock')
           /\ KeyOf(c) \in Keys /\ cluster'[KeyOf(c)] = Stored(c)
           /\ applied' \in [Clients -> 0..1] /\ applied'[c] = 1
           /\ \A d \in Clients : d # c => applied'[d] = applied[d]
<1>1. KeyOf(c) \in Keys
  BY K8sIs DEF Code
<1>2. applied[c] = 0
  BY DEF IInv, ClientsOK, ClientOK
<1>3. Stored(c).rv \in {0, clock + 1} /\ PlainFields(Stored(c).fields)
  BY <1>1, StoredIs
<1> QED BY <1>1, <1>2, <1>3, ApplyInv

(* Create, Update and patch: made and told, or refused and told.            *)
LEMMA k8sWriteInv ==
    ASSUME IInv, NEW c \in Clients, pc[c] = "handle", k8sWrite(c)
    PROVE  IInv'
<1>1. UNCHANGED <<setup, rights>> /\ Answer(c, 0, Code(c))
  BY DEF k8sWrite, envVars
<1>2. Code(c) \in {200, 201, 403, 404, 409, 422, 500}
  BY K8sIs DEF Code
<1>3. CASE Success(Code(c))
  <2>1. Apply(c, KeyOf(c), Stored(c)) /\ See(c, KeyOf(c), Stored(c))
    BY <1>3 DEF k8sWrite
  <2>2. /\ clock' \in Nat /\ ObjectsOK(cluster', clock') /\ SeenAll(seen, cluster', clock')
        /\ KeyOf(c) \in Keys /\ cluster'[KeyOf(c)] = Stored(c)
        /\ applied' \in [Clients -> 0..1] /\ applied'[c] = 1
        /\ \A d \in Clients : d # c => applied'[d] = applied[d]
    BY <1>3, <2>1, ChangeMade
  <2>3. /\ Total(seen') /\ SeenAll(seen', cluster', clock')
        /\ \A d \in Clients : d # c => seen'[d] = seen[d]
    BY <2>1, <2>2, KeyOfIs, SeeInv
  <2>4. Code(c) \in {200, 201}
    BY <1>2, <1>3 DEF Success
  <2>5. Truthful(req[c], methods[c], applied'[c], IF Code(c) = 0 THEN 200 ELSE Code(c))
    BY <2>2, <2>4 DEF Truthful
  <2> QED BY <1>1, <2>2, <2>3, <2>4, <2>5, AnswerInv
<1>4. CASE ~Success(Code(c))
  <2>1. NoEffect /\ UNCHANGED seen
    BY <1>4 DEF k8sWrite
  <2>2. Total(seen') /\ SeenAll(seen', cluster', clock')
    BY <2>1, NoEffectInv, NotSeen
  <2>3. Code(c) \in 400..599
    BY <1>2, <1>4 DEF Success
  <2> QED BY <1>1, <2>1, <2>2, <2>3, NothingDone
<1> QED BY <1>3, <1>4

(* The delete, of which the answer is left for the lookup.                  *)
LEMMA k8sDeleteInv ==
    ASSUME IInv, NEW c \in Clients, k8sDelete(c)
    PROVE  IInv'
<1>1. /\ pc[c] = "handle" /\ Method(req[c]) = "DELETE" /\ BeforeHandler(c) = 0
      /\ UNCHANGED <<seen, setup, rights>>
  BY DEF k8sDelete, Calls, Handled, envVars
<1>2. CASE ~Success(Code(c))
  <2>1. NoEffect /\ Answer(c, 0, Code(c))
    BY <1>2 DEF k8sDelete
  <2>2. Total(seen') /\ SeenAll(seen', cluster', clock')
    BY <1>1, <2>1, NoEffectInv, NotSeen
  <2>3. Code(c) \in 400..599
    BY <1>2, K8sIs DEF Success, Code
  <2> QED BY <1>1, <2>1, <2>2, <2>3, NothingDone
<1>3. CASE Success(Code(c))
  <2>1. /\ Apply(c, KeyOf(c), Stored(c)) /\ pc' = [pc EXCEPT ![c] = "lookup"]
        /\ UNCHANGED <<req, methods, answers, status, sent>>
    BY <1>3 DEF k8sDelete
  <2>2. /\ clock' \in Nat /\ ObjectsOK(cluster', clock') /\ SeenAll(seen, cluster', clock')
        /\ applied' \in [Clients -> 0..1] /\ applied'[c] = 1
        /\ \A d \in Clients : d # c => applied'[d] = applied[d]
    BY <1>1, <1>3, <2>1, ChangeMade
  <2>3. StateTypes'
    <3>1. pc' \in [Clients -> Points]
      BY <2>1 DEF IInv, StateTypes, Points
    <3> QED BY <1>1, <2>1, <2>2, <3>1 DEF IInv, StateTypes, Total
  <2>4. RequestsOK'
    <3>1. \A d \in Clients : pc'[d] # "idle" => pc[d] # "idle"
      BY <1>1, <2>1 DEF IInv, StateTypes
    <3> QED BY <2>1, <3>1 DEF IInv, RequestsOK
  <2>5. methods[c] # Failed
    BY <1>1, BeforeHandlerIs DEF HasSchema
  <2>6. ASSUME NEW d \in Clients
        PROVE  ClientOK(pc'[d], req'[d], methods'[d], applied'[d], answers'[d],
                        status'[d], seen'[d])
    <3>1. ClientOK(pc[d], req[d], methods[d], applied[d], answers[d], status[d], seen[d])
      BY DEF IInv, ClientsOK
    <3>2. CASE d # c
      <4>1. pc'[d] = pc[d]
        BY <2>1, <3>2 DEF IInv, StateTypes
      <4> QED BY <1>1, <2>1, <2>2, <3>1, <3>2, <4>1
    <3>3. CASE d = c
      <4>1. pc'[c] = "lookup"
        BY <2>1 DEF IInv, StateTypes
      <4> QED BY <1>1, <2>1, <2>2, <2>5, <3>1, <3>3, <4>1 DEF ClientOK
    <3> QED BY <3>2, <3>3
  <2> QED BY <1>1, <2>2, <2>3, <2>4, <2>6 DEF IInv, ClientsOK
<1> QED BY <1>2, <1>3

(* After a delete the answer is a success, whatever the lookup finds.       *)
LEMMA k8sLookupInv ==
    ASSUME IInv, NEW c \in Clients, k8sLookup(c)
    PROVE  IInv'
<1> DEFINE code == K8s("get", Caller(c), KeyOf(c), 0)
<1>1. pc[c] = "lookup" /\ NoEffect /\ UNCHANGED <<setup, rights>>
  BY DEF k8sLookup, envVars
<1>2. PICK st \in {200, 204} : Answer(c, 0, st)
  BY DEF k8sLookup
<1>3. /\ clock' \in Nat /\ ObjectsOK(cluster', clock') /\ SeenAll(seen, cluster', clock')
      /\ cluster' = cluster /\ applied' \in [Clients -> 0..1] /\ applied' = applied
  BY <1>1, NoEffectInv
<1>4. /\ Total(seen') /\ SeenAll(seen', cluster', clock')
      /\ \A d \in Clients : d # c => seen'[d] = seen[d]
  <2>1. CASE Success(code)
    <3>1. See(c, KeyOf(c), cluster[KeyOf(c)])
      BY <2>1 DEF k8sLookup
    <3>2. KeyOf(c) \in Keys /\ cluster'[KeyOf(c)] = cluster[KeyOf(c)]
      BY <1>3, <2>1, K8sIs
    <3> QED BY <1>3, <3>1, <3>2, KeyOfIs, SeeInv
  <2>2. CASE ~Success(code)
    <3>1. UNCHANGED seen
      BY <2>2 DEF k8sLookup
    <3> QED BY <1>3, <3>1, NotSeen
  <2> QED BY <2>1, <2>2
<1>5. applied[c] = 1
  BY <1>1 DEF IInv, ClientsOK, ClientOK
<1>6. Truthful(req[c], methods[c], applied'[c], IF st = 0 THEN 200 ELSE st)
  BY <1>3, <1>5 DEF Truthful
<1> QED BY <1>1, <1>2, <1>3, <1>4, <1>6, AnswerInv

(* A lost answer is a 500, which promises nothing; after a delete it is a   *)
(* success all the same.                                                    *)
LEMMA k8sFailsInv ==
    ASSUME IInv, NEW c \in Clients, k8sFails(c)
    PROVE  IInv'
<1>1. UNCHANGED <<seen, setup, rights>>
  BY DEF k8sFails
<1>2. \/ pc[c] = "handle" /\ Answer(c, 0, 500)
      \/ pc[c] = "lookup" /\ Answer(c, 0, 204)
  BY DEF k8sFails, Handled
<1>3. \/ NoEffect
      \/ pc[c] = "handle" /\ Success(Code(c)) /\ Apply(c, KeyOf(c), Stored(c))
  BY DEF k8sFails, Handled
<1>4. /\ clock' \in Nat /\ ObjectsOK(cluster', clock') /\ SeenAll(seen, cluster', clock')
      /\ applied' \in [Clients -> 0..1]
      /\ \A d \in Clients : d # c => applied'[d] = applied[d]
      /\ pc[c] = "lookup" => applied'[c] = applied[c]
  <2>1. CASE NoEffect
    BY <2>1, NoEffectInv
  <2>2. CASE pc[c] = "handle" /\ Success(Code(c)) /\ Apply(c, KeyOf(c), Stored(c))
    BY <2>2, ChangeMade
  <2> QED BY <1>3, <2>1, <2>2
<1>5. Total(seen') /\ SeenAll(seen', cluster', clock')
  BY <1>1, <1>4, NotSeen
<1>6. CASE pc[c] = "handle" /\ Answer(c, 0, 500)
  <2>1. Truthful(req[c], methods[c], applied'[c], IF 500 = 0 THEN 200 ELSE 500)
    BY DEF Truthful, Success
  <2> QED BY <1>1, <1>4, <1>5, <1>6, <2>1, AnswerInv
<1>7. CASE pc[c] = "lookup" /\ Answer(c, 0, 204)
  <2>1. applied'[c] = 1
    BY <1>4, <1>7 DEF IInv, ClientsOK, ClientOK
  <2>2. Truthful(req[c], methods[c], applied'[c], IF 204 = 0 THEN 200 ELSE 204)
    BY <2>1 DEF Truthful, Success
  <2> QED BY <1>1, <1>4, <1>5, <1>7, <2>2, AnswerInv
<1> QED BY <1>2, <1>6, <1>7

(* The reverse proxy's delete.                                              *)
LEMMA proxyDeleteInv ==
    ASSUME IInv, NEW c \in Clients, proxyDelete(c)
    PROVE  IInv'
<1> DEFINE k == <<req[c].type, req[c].namespace, req[c].name>>
           code == IF NotAuthed(req[c]) THEN 401 ELSE K8s("delete", ProxyUser(req[c]), k, 0)
<1>1. pc[c] = "proxy" /\ Answer(c, 0, code) /\ UNCHANGED <<seen, setup, rights>>
      /\ IF Success(code) THEN Apply(c, k, Absent) ELSE NoEffect
  BY DEF proxyDelete, envVars
<1>2. /\ code \in {200, 201, 401, 403, 404, 409, 422, 500}
      /\ Success(code) => k \in Keys
  <2>1. CASE NotAuthed(req[c])
    BY <2>1 DEF Success
  <2>2. CASE ~NotAuthed(req[c])
    BY <2>2, K8sIs
  <2> QED BY <2>1, <2>2
<1> HIDE DEF code, k
<1>3. CASE Success(code)
  <2>1. applied[c] = 0
    BY <1>1 DEF IInv, ClientsOK, ClientOK
  <2>2. /\ clock' \in Nat /\ ObjectsOK(cluster', clock') /\ SeenAll(seen, cluster', clock')
        /\ applied' \in [Clients -> 0..1] /\ applied'[c] = 1
        /\ \A d \in Clients : d # c => applied'[d] = applied[d]
    BY <1>1, <1>2, <1>3, <2>1, AbsentIs, ApplyInv
  <2>3. Total(seen') /\ SeenAll(seen', cluster', clock')
    BY <1>1, <2>2, NotSeen
  <2>4. code \in {200, 201}
    BY <1>2, <1>3 DEF Success
  <2>5. Truthful(req[c], methods[c], applied'[c], IF code = 0 THEN 200 ELSE code)
    BY <2>2, <2>4 DEF Truthful
  <2> QED BY <1>1, <2>2, <2>3, <2>4, <2>5, AnswerInv
<1>4. CASE ~Success(code)
  <2>1. Total(seen') /\ SeenAll(seen', cluster', clock')
    BY <1>1, <1>4, NoEffectInv, NotSeen
  <2>2. code \in 400..599
    BY <1>2, <1>4 DEF Success
  <2> QED BY <1>1, <1>4, <2>1, <2>2, NothingDone
<1> QED BY <1>3, <1>4

LEMMA revokeInv ==
    ASSUME IInv, revoke
    PROVE  IInv'
<1>1. /\ UNCHANGED <<setup, cluster, clock, pc, req, methods, applied, answers, status,
                     sent, seen>>
      /\ rights' = [rights EXCEPT !["alice"] = {"get", "list"}]
  BY DEF revoke, clusterVars, requestVars
<1>2. rights' \in [Users -> SUBSET Verbs]
  BY <1>1 DEF IInv, StateTypes, Verbs
<1> QED BY <1>1, <1>2 DEF IInv, StateTypes, RequestsOK, ClientsOK

-----------------------------------------------------------------------------
LEMMA InitInv == Init => IInv
<1> SUFFICES ASSUME Init PROVE IInv
  OBVIOUS
<1>1. StateTypes
  <2>1. rights \in [Users -> SUBSET Verbs]
    BY DEF Init
  <2> QED BY <2>1, BoundsAssumption DEF Init, StateTypes, Total, Points
<1>2. RequestsOK
  BY DEF Init, RequestsOK
<1>3. ObjectsOK(cluster, clock)
  BY NativeAssumption DEF Init, ObjectsOK
<1>4. SeenAll(seen, cluster, clock)
  <2>1. NoObject.rv = 0 /\ NoObject.key = <<NoObject.key[1], NoObject.key[2], NoObject.key[3]>>
    BY DEF NoObject
  <2>2. ASSUME NEW c \in Clients PROVE SeenOK(seen[c], cluster, clock)
    <3>1. seen[c] = NoObject /\ clock = 1
      BY DEF Init
    <3> QED BY <2>1, <3>1 DEF SeenOK
  <2> QED BY <2>2 DEF SeenAll
<1>5. ClientsOK
  BY DEF Init, ClientsOK, ClientOK
<1> QED BY <1>1, <1>2, <1>3, <1>4, <1>5 DEF IInv

LEMMA NextInv ==
    ASSUME IInv, [Next]_vars
    PROVE  IInv'
<1>1. ASSUME NEW c \in Clients, arrive(c) PROVE IInv'
  BY <1>1, arriveInv
<1>2. ASSUME NEW c \in Clients, common(c) \/ commonFails(c) PROVE IInv'
  BY <1>2, commonInv
<1>3. ASSUME NEW c \in Clients,
             \/ commonNoURL(c) \/ refuse(c) \/ serveCustom(c) \/ handlerRefuses(c)
      PROVE  IInv'
  BY <1>3, refuseInv
<1>4. ASSUME NEW c \in Clients, k8sGet(c) \/ k8sList(c) PROVE IInv'
  BY <1>4, k8sReadInv
<1>5. ASSUME NEW c \in Clients, k8sCreate(c) \/ k8sUpdate(c) \/ k8sPatch(c) PROVE IInv'
  BY <1>5, k8sWriteInv DEF k8sCreate, k8sUpdate, k8sPatch, Calls, Handled
<1>6. ASSUME NEW c \in Clients, k8sDelete(c) PROVE IInv'
  BY <1>6, k8sDeleteInv
<1>7. ASSUME NEW c \in Clients, k8sLookup(c) PROVE IInv'
  BY <1>7, k8sLookupInv
<1>8. ASSUME NEW c \in Clients, k8sFails(c) PROVE IInv'
  BY <1>8, k8sFailsInv
<1>9. ASSUME NEW c \in Clients, proxyDelete(c) PROVE IInv'
  BY <1>9, proxyDeleteInv
<1>10. CASE revoke
  BY <1>10, revokeInv
<1>11. CASE UNCHANGED vars
  BY <1>11 DEF vars, clusterVars, envVars, requestVars, IInv, StateTypes, RequestsOK, ClientsOK
<1> QED BY <1>1, <1>2, <1>3, <1>4, <1>5, <1>6, <1>7, <1>8, <1>9, <1>10, <1>11 DEF Next

(* The invariant holds in every reachable state.                            *)
THEOREM Invariance == Spec => []IInv
<1>1. Init => IInv
  BY InitInv
<1>2. IInv /\ [Next]_vars => IInv'
  BY NextInv
<1> QED BY <1>1, <1>2, PTL DEF Spec

(* Types, versions and fields (proxy_store.go 131-160).                     *)
THEOREM TypeCorrect == Spec => []TypeOK
<1>1. IInv => TypeOK
  BY DEF IInv, StateTypes, RequestsOK, ObjectsOK, SeenAll, SeenOK, TypeOK
<1> QED BY <1>1, Invariance, PTL

(* Every request is answered exactly once, whatever the request and however *)
(* it ends (server.go 103-156, handlers/error.go 13-48).                    *)
THEOREM OneAnswer == Spec => []AnsweredOnce
<1>1. IInv => AnsweredOnce
  BY DEF IInv, ClientsOK, ClientOK, AnsweredOnce
<1> QED BY <1>1, Invariance, PTL

(* A 2xx means that the change was made, a 4xx that it was not, for any     *)
(* requests, failures and interleavings (proxy_store.go 404-534).           *)
THEOREM TruthfulStatus == Spec => []StatusTruthful
<1>1. IInv => StatusTruthful
  BY DEF IInv, ClientsOK, ClientOK, Truthful, StatusTruthful
<1> QED BY <1>1, Invariance, PTL

-----------------------------------------------------------------------------
(* Which steps change an object: the calls of the handlers, and the reverse *)
(* proxy's.                                                                 *)
Made(c) ==
    /\ pc[c] = "handle" /\ BeforeHandler(c) = 0
    /\ Handler(c) = 0 /\ Method(req[c]) # "GET"
    /\ Success(Code(c)) /\ Apply(c, KeyOf(c), Stored(c))

Proxied(c) ==
    /\ pc[c] = "proxy"
    /\ "delete" \in rights[UserOf(req[c])]

LEMMA ApplyChanges ==
    ASSUME IInv, NEW c \in Clients, NEW d \in Clients, NEW k, NEW o, Apply(d, k, o),
           Changes(c)
    PROVE  c = d
<1>1. applied \in [Clients -> 0..1] /\ applied' = [applied EXCEPT ![d] = @ + 1]
  BY DEF IInv, StateTypes, Apply
<1>2. applied'[c] > applied[c]
  BY DEF Changes
<1>3. CASE c # d
  <2>1. applied'[c] = applied[c] /\ applied[c] \in 0..1
    BY <1>1, <1>3
  <2> QED BY <1>2, <2>1
<1> QED BY <1>3

LEMMA SameApplied ==
    ASSUME IInv, NEW c \in Clients, applied' = applied
    PROVE  ~Changes(c)
<1>1. applied[c] \in 0..1
  BY DEF IInv, StateTypes
<1> QED BY <1>1 DEF Changes

LEMMA WhoChanges ==
    ASSUME IInv, [Next]_vars, NEW c \in Clients, Changes(c)
    PROVE  Made(c) \/ Proxied(c)
<1>1. ASSUME NEW d \in Clients, arrive(d) PROVE FALSE
  <2>1. applied' = [applied EXCEPT ![d] = 0] /\ applied \in [Clients -> 0..1]
    BY <1>1 DEF arrive, IInv, StateTypes
  <2>2. applied'[c] \in {0, applied[c]} /\ applied[c] \in 0..1
    BY <2>1
  <2> QED BY <2>2 DEF Changes
<1>2. ASSUME NEW d \in Clients,
             \/ common(d) \/ commonFails(d) \/ commonNoURL(d) \/ refuse(d) \/ serveCustom(d)
             \/ handlerRefuses(d) \/ k8sGet(d) \/ k8sList(d) \/ k8sLookup(d)
      PROVE  FALSE
  <2>1. applied' = applied
    BY <1>2 DEF common, commonFails, commonNoURL, refuse, serveCustom, handlerRefuses,
                k8sGet, k8sList, k8sLookup, NoEffect
  <2> QED BY <2>1, SameApplied
<1>3. ASSUME NEW d \in Clients, k8sCreate(d) \/ k8sUpdate(d) \/ k8sPatch(d)
      PROVE  Made(c)
  <2>1. /\ pc[d] = "handle" /\ BeforeHandler(d) = 0 /\ Handler(d) = 0
        /\ Method(req[d]) # "GET" /\ k8sWrite(d)
    BY <1>3 DEF k8sCreate, k8sUpdate, k8sPatch, Calls, Handled
  <2>2. Success(Code(d)) /\ Apply(d, KeyOf(d), Stored(d))
    BY <2>1, SameApplied DEF k8sWrite, NoEffect
  <2>3. c = d
    BY <2>2, ApplyChanges
  <2> QED BY <2>1, <2>2, <2>3 DEF Made
<1>4. ASSUME NEW d \in Clients, k8sDelete(d) PROVE Made(c)
  <2>1. /\ pc[d] = "handle" /\ BeforeHandler(d) = 0 /\ Handler(d) = 0
        /\ Method(req[d]) # "GET"
    BY <1>4 DEF k8sDelete, Calls, Handled
  <2>2. Success(Code(d)) /\ Apply(d, KeyOf(d), Stored(d))
    BY <1>4, SameApplied DEF k8sDelete, NoEffect
  <2>3. c = d
    BY <2>2, ApplyChanges
  <2> QED BY <2>1, <2>2, <2>3 DEF Made
<1>5. ASSUME NEW d \in Clients, k8sFails(d) PROVE Made(c)
  <2>1. /\ Handled(d) /\ Method(req[d]) # "GET"
        /\ Success(Code(d)) /\ Apply(d, KeyOf(d), Stored(d))
    BY <1>5, SameApplied DEF k8sFails, NoEffect
  <2>2. pc[d] = "handle" /\ BeforeHandler(d) = 0 /\ Handler(d) = 0
    BY <1>5, <2>1 DEF k8sFails, Handled
  <2>3. c = d
    BY <2>1, ApplyChanges
  <2> QED BY <2>1, <2>2, <2>3 DEF Made
<1>6. ASSUME NEW d \in Clients, proxyDelete(d) PROVE Proxied(c)
  <2> DEFINE k == <<req[d].type, req[d].namespace, req[d].name>>
             code == IF NotAuthed(req[d]) THEN 401 ELSE K8s("delete", ProxyUser(req[d]), k, 0)
  <2>1. pc[d] = "proxy" /\ IF Success(code) THEN Apply(d, k, Absent) ELSE NoEffect
    BY <1>6 DEF proxyDelete
  <2>2. Success(code) /\ Apply(d, k, Absent)
    BY <2>1, SameApplied DEF NoEffect
  <2>3. c = d
    BY <2>2, ApplyChanges
  <2>4. ~NotAuthed(req[d])
    BY <2>2 DEF Success
  <2>5. "delete" \in rights[ProxyUser(req[d])]
    BY <2>2, <2>4, K8sIs
  <2>6. ProxyUser(req[d]) = UserOf(req[d])
    BY ClientIsUser DEF ProxyUser, IInv, StateTypes
  <2> QED BY <2>1, <2>3, <2>5, <2>6 DEF Proxied
<1>7. ASSUME revoke \/ UNCHANGED vars PROVE FALSE
  <2>1. applied' = applied
    BY <1>7 DEF revoke, vars, requestVars
  <2> QED BY <2>1, SameApplied
<1> QED BY <1>1, <1>2, <1>3, <1>4, <1>5, <1>6, <1>7 DEF Next

(* A change is made as the user who asks for it and only while that user    *)
(* has the right to it, however old the schemas that the request was        *)
(* checked with (client/factory.go 138-197).                                *)
THEOREM ChangesByUser == Spec => ChangesAsUser
<1>1. ASSUME IInv, [Next]_vars, NEW c \in Clients, Changes(c)
      PROVE  Verb(req[c]) \in rights[UserOf(req[c])]
  <2>1. CASE Made(c)
    <3>1. Verb(req[c]) \in rights[Caller(c)]
      BY <2>1, K8sIs DEF Made, Code
    <3>2. Caller(c) = UserOf(req[c])
      BY <1>1, ClientIsUser DEF Caller, IInv, StateTypes
    <3> QED BY <3>1, <3>2
  <2>2. CASE Proxied(c)
    <3>1. Method(req[c]) = "DELETE"
      BY <1>1, <2>2 DEF Proxied, IInv, ClientsOK, ClientOK
    <3> QED BY <2>2, <3>1 DEF Proxied, Verb
  <2> QED BY <1>1, <2>1, <2>2, WhoChanges
<1>2. IInv /\ [Next]_vars
        => [\A c \in Clients : Changes(c) => Verb(req[c]) \in rights[UserOf(req[c])]]_vars
  BY <1>1
<1> QED BY <1>2, Invariance, PTL DEF Spec, ChangesAsUser

(* A browser that has the cookie changes nothing without the token, also    *)
(* when it overrides its method (validate.go 44-81).                        *)
THEOREM TokenNeeded == Spec => TokenChecked
<1>1. ASSUME IInv, [Next]_vars, NEW c \in Clients, Changes(c),
             req[c].route = "resource", req[c].browser
      PROVE  req[c].csrf # "mismatch"
  <2>1. CASE Made(c)
    BY <1>1, <2>1, BeforeHandlerIs DEF Made, checkCSRF
  <2>2. CASE Proxied(c)
    BY <1>1, <2>2 DEF Proxied, IInv, ClientsOK, ClientOK
  <2> QED BY <1>1, <2>1, <2>2, WhoChanges
<1>2. IInv /\ [Next]_vars
        => [\A c \in Clients :
              Changes(c) /\ req[c].route = "resource" /\ req[c].browser
                => req[c].csrf # "mismatch"]_vars
  BY <1>1
<1> QED BY <1>2, Invariance, PTL DEF Spec, TokenChecked

(* What a PUT that changes an object has for a body: the object its client  *)
(* has seen, in the version Kubernetes has, with the client's edit.         *)
LEMMA PutIs ==
    ASSUME IInv, [Next]_vars, NEW c \in Clients, NEW k \in Keys,
           Changes(c), Method(req[c]) = "PUT", cluster'[k] # cluster[k]
    PROVE  /\ seen[c].key = k /\ seen[c].rv # 0 /\ cluster[k].rv = seen[c].rv
           /\ cluster'[k].fields = moveFromUnderscore(WithSpec(seen[c].fields, c))
<1>1. ClientOK(pc[c], req[c], methods[c], applied[c], answers[c], status[c], seen[c])
  BY DEF IInv, ClientsOK
<1>2. Made(c)
  <2>1. ~Proxied(c)
    BY <1>1 DEF Proxied, ClientOK
  <2> QED BY <2>1, WhoChanges
<1>3. k = KeyOf(c) /\ cluster'[k] = Stored(c)
  <2>1. cluster' = [cluster EXCEPT ![KeyOf(c)] = Stored(c)]
        /\ cluster = [j \in Keys |-> cluster[j]]
    BY <1>2 DEF Made, Apply, IInv, ObjectsOK
  <2> QED BY <2>1
<1>4. Body(c).rv # 0
  BY <1>2, HandlerIs DEF Made
<1>5. /\ req[c].body = "edit"
      /\ Body(c).rv = seen[c].rv /\ Body(c).name = seen[c].key[3]
      /\ Body(c).ns = seen[c].key[2] /\ Body(c).fields = WithSpec(seen[c].fields, c)
  <2>1. NoBody.rv = 0
    BY DEF NoBody
  <2>2. req[c].method \in {"PUT", "POST"}
    BY <1>4, <2>1 DEF Body
  <2>3. req[c].body = "edit"
    BY <1>4, <2>1, <2>2 DEF Body
  <2> QED BY <2>2, <2>3 DEF Body
<1>6. Verb(req[c]) = "update"
  BY DEF Verb
<1>7. cluster[k].rv = seen[c].rv
  BY <1>2, <1>3, <1>4, <1>5, <1>6, K8sIs DEF Made, Code
<1>8. seen[c].key = k
  <2>1. seen[c].key[1] = req[c].type
    BY <1>1, <1>2, <1>5 DEF ClientOK, Made
  <2>2. KeyOf(c) = <<req[c].type, Body(c).ns, Body(c).name>>
    BY DEF KeyOf
  <2>3. seen[c].key = <<seen[c].key[1], seen[c].key[2], seen[c].key[3]>>
    BY DEF IInv, SeenAll, SeenOK
  <2> QED BY <1>3, <1>5, <2>1, <2>2, <2>3
<1>9. Stored(c).fields = moveFromUnderscore(Body(c).fields)
  BY DEF Stored
<1> QED BY <1>3, <1>4, <1>5, <1>7, <1>8, <1>9

(* A PUT replaces only the very version its client has read, whatever other *)
(* clients do meanwhile (proxy_store.go 492-509).                           *)
THEOREM NoUpdateLost == Spec => NoLostUpdate
<1>1. ASSUME IInv, [Next]_vars, NEW c \in Clients, NEW k \in Keys,
             Changes(c), Method(req[c]) = "PUT", cluster'[k] # cluster[k]
      PROVE  seen[c].key = k /\ cluster[k].rv = seen[c].rv
  BY <1>1, PutIs
<1>2. IInv /\ [Next]_vars
        => [\A c \in Clients : \A k \in Keys :
              Changes(c) /\ Method(req[c]) = "PUT" /\ cluster'[k] # cluster[k]
                => seen[c].key = k /\ cluster[k].rv = seen[c].rv]_vars
  BY <1>1
<1> QED BY <1>2, Invariance, PTL DEF Spec, NoLostUpdate

(* Reading an object, editing a field and putting it back changes that      *)
(* field and no other, for objects with any fields (proxy_store.go          *)
(* 131-160).                                                                *)
THEOREM OnlyTheEdit == Spec => OnlyEditedChanges
<1>1. ASSUME IInv, [Next]_vars, NEW c \in Clients, NEW k \in Keys,
             Changes(c), Method(req[c]) = "PUT", cluster'[k] # cluster[k]
      PROVE  cluster'[k].fields = WithSpec(cluster[k].fields, c)
  <2>1. /\ seen[c].key = k /\ seen[c].rv # 0 /\ cluster[k].rv = seen[c].rv
        /\ cluster'[k].fields = moveFromUnderscore(WithSpec(seen[c].fields, c))
    BY <1>1, PutIs
  <2>2. seen[c].fields = toAPI(cluster[k].fields)
    BY <1>1, <2>1 DEF IInv, SeenAll, SeenOK
  <2>3. PlainFields(cluster[k].fields)
    BY <1>1 DEF IInv, ObjectsOK
  <2> QED BY <2>1, <2>2, <2>3, RoundTrip
<1>2. IInv /\ [Next]_vars
        => [\A c \in Clients : \A k \in Keys :
              Changes(c) /\ Method(req[c]) = "PUT" /\ cluster'[k] # cluster[k]
                => cluster'[k].fields = WithSpec(cluster[k].fields, c)]_vars
  BY <1>1
<1> QED BY <1>2, Invariance, PTL DEF Spec, OnlyEditedChanges
=============================================================================
