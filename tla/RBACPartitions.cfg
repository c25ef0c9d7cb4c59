SPECIFICATION Spec
CONSTANTS
    Verbs = {"get", "list"}
    Groups = {"core"}
    Resources = {"pods", "namespaces"}
    Namespaced = {"pods"}
    Namespaces = {"n1", "n2"}
    Names = {"n1", "n2"}
    Rules <- MCRules
    MaxGroups = 1
    MaxBindings = 2
INVARIANTS GrantsExact AllMeansAll PartitionsSound PartitionsComplete
