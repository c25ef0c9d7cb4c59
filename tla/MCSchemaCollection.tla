------------------------- MODULE MCSchemaCollection -------------------------
(* Small instances of SchemaCollection.  For the collection: three versions *)
(* of one type, of which the second is preferred and the third cannot be    *)
(* listed, and a type the server may not list.  For the schema watch: two   *)
(* types of different kinds.                                                *)
EXTENDS SchemaCollection

Type(id, kind, preferred, listable) ==
    [id |-> id, kind |-> kind, preferred |-> preferred, listable |-> listable]

MCDenied == {Type("b1", "b", "b1", TRUE)}
MCTypes == {Type("a1", "a", "a2", TRUE), Type("a2", "a", "a2", TRUE),
            Type("a3", "a", "a2", FALSE)} \cup MCDenied
MCAllows == [x \in AccessIDs |-> IF x = "full" THEN {"a", "b"} ELSE {"b"}]

MCWatchTypes == {Type("a1", "a", "a1", TRUE), Type("b1", "b", "b1", TRUE)}
=============================================================================
