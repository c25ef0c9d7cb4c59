SPECIFICATION Spec
CONSTANTS
    Users = {"u1", "u2"}
    UserGroups = {"g1"}
    GroupsOf <- MCGroupsOf
    NRoles = 1
    Scopes = {"*", "n1"}
    Callers = {c1}
    Capacity = 1
    MaxChanges = 2
INVARIANT RoleBindingsCount
