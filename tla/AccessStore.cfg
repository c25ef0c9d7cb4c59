SPECIFICATION FairSpec
CONSTANTS
    Users = {"u1", "u2"}
    UserGroups = {"g1"}
    GroupsOf <- MCGroupsOf
    NRoles = 1
    Scopes = {"*"}
    Callers = {c1, c2}
    Capacity = 2
    MaxChanges = 2
INVARIANTS TypeOK FreshWhenClean
PROPERTY Converges
