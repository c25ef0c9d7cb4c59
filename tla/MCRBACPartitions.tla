-------------------------- MODULE MCRBACPartitions --------------------------
(* Small instance of RBACPartitions, and of AccessSet below it.             *)
EXTENDS RBACPartitions

Rule(verbs, resources, names) ==
    [verbs |-> verbs, groups |-> {"core"}, resources |-> resources, names |-> names]

MCRules ==
    {Rule({"list"}, {"pods"}, {}), Rule({"get"}, {"pods"}, {"n1"}),
     Rule({"get", "list"}, {"namespaces"}, {"n2"}), Rule({"list"}, {All}, {"n2"}),
     [verbs |-> {All}, groups |-> {All}, resources |-> {"pods"}, names |-> {}]}
=============================================================================
