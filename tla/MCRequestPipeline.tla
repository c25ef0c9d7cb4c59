-------------------------- MODULE MCRequestPipeline --------------------------
(* Small instance of RequestPipeline: a namespaced object with a field of a *)
(* reserved name and a cluster wide one without.  The first client sends a  *)
(* usual request and then one of any kind; the second reads, edits, deletes *)
(* and recreates.                                                           *)
EXTENDS RequestPipeline

MCKeys == {<<"secret", "ns1", "a">>, <<"node", "", "a">>}
MCNative == [k \in MCKeys |->
    IF k[1] = "secret" THEN [f \in {Plain("type"), Plain("spec")} |-> "native"]
    ELSE [f \in {Plain("spec")} |-> "native"]]

Get == [route |-> "resource", token |-> "alice", bearer |-> TRUE, host |-> "ok",
        type |-> "secret", nameorns |-> "", namespace |-> "ns1", name |-> "a",
        link |-> "", action |-> "", method |-> "GET", override |-> "",
        browser |-> FALSE, csrf |-> "match", body |-> "none", params |-> "ok"]
GetNode == [Get EXCEPT !.type = "node", !.nameorns = "a", !.namespace = "", !.name = ""]
Put == [Get EXCEPT !.method = "PUT", !.body = "edit"]
PutNode == [GetNode EXCEPT !.method = "PUT", !.body = "edit"]
Delete == [Get EXCEPT !.method = "DELETE"]
Post == [Get EXCEPT !.method = "POST", !.body = "new", !.nameorns = "ns1",
                    !.namespace = "", !.name = ""]
List == [Post EXCEPT !.method = "GET", !.body = "none"]

(* Each request with one thing about it changed.                            *)
Odd ==
    {[Put EXCEPT !.body = b] : b \in {"unversioned", "garbage", "none"}}
    \cup {[Post EXCEPT !.body = b] : b \in {"garbage", "none"}}
    \cup {[r EXCEPT !.params = "bad"] : r \in {Get, Put, Post, Delete, List}}
    \cup {[Get EXCEPT !.override = m] : m \in {"DELETE", "PATCH", "POST", "PUT", "HEAD"}}
    \cup {[Put EXCEPT !.override = m] : m \in {"DELETE", "POST"}}
    \cup {[GetNode EXCEPT !.method = "PATCH", !.body = b] : b \in {"none", "garbage"}}
    \cup {[r EXCEPT !.browser = TRUE, !.csrf = t, !.override = "DELETE"] :
            r \in {Get, Delete}, t \in {"none", "match", "mismatch"}}
    \cup {[r EXCEPT !.link = l] : r \in {Get, Delete, List}, l \in {"log", "other"}}
    \cup {[r EXCEPT !.method = "POST", !.action = a] :
            r \in {Get, List}, a \in {"run", "list", "other"}}
    \cup {[r EXCEPT !.token = t] : r \in {Get, Delete}, t \in {"none", "expired", "broken"}}
    \cup {[Delete EXCEPT !.route = "proxy", !.token = t, !.bearer = b] :
            t \in {"alice", "none", "expired", "broken"}, b \in BOOLEAN}
    \cup {[Delete EXCEPT !.host = "bad"], [Get EXCEPT !.type = "unknown"],
          [List EXCEPT !.method = "DELETE"], [List EXCEPT !.method = "DELETE", !.link = "other"],
          [Delete EXCEPT !.type = "node"]}

Usual == {Get, GetNode, Put, PutNode, Delete, Post, List}
Edits == {Get, Put, Delete, Post}

MCRequests == [c \in Clients |->
    IF c = "c1" THEN <<Usual, Usual \cup Odd>> ELSE <<Edits, Edits>>]
=============================================================================
