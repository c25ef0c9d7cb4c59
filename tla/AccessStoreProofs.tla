------------------------- MODULE AccessStoreProofs --------------------------
(***************************************************************************)
(* AccessStore for any users, groups, roles, callers and cache size.        *)
(* FreshWhenClean speaks of finished calls only.  The invariant follows a   *)
(* call: what it has hashed and what it has yet to hash are together the    *)
(* user's bindings, and likewise for the rules it reads; and it says of the *)
(* cache what makes a hit sound, that the access of a clean entry is        *)
(* determined by its key.                                                   *)
(*                                                                          *)
(* The operators take what they depend on as arguments: the revisions, the  *)
(* roles, and the bindings that can be listed of every subject.             *)
(***************************************************************************)
EXTENDS AccessStore, TLAPS

Listed == [s \in Subjects |-> BindingsOf(s)]

Hash(rev, b) == [ns |-> b.ns, role |-> b.role, rev |-> rev[b.role]]

HashedOf(rev, S) == {Hash(rev, b) : b \in S}

(* The rules of the roles that exist.                                       *)
Granted(S) == {g \in S : g.rev # 0}

RulesOf(rl, S) == Granted(HashedOf(rl, S))

Elems(key) == {key[i] : i \in 1..Len(key)}

(* The bindings of a sequence of subjects.                                  *)
BindingsIn(listed, subjects) == UNION {listed[subjects[i]] : i \in 1..Len(subjects)}

(* The bindings a caller has listed and not used, or has yet to list.       *)
Remaining(x, listed) == x.pend \cup BindingsIn(listed, x.left)

UserBindings(listed, user) == BindingsIn(listed, SubjectsOf(user))

-----------------------------------------------------------------------------
(* What a key in the making, a complete one, and an access in the making    *)
(* have to do with the user's bindings B.                                   *)
KeySoFar(x, rev, listed, B) ==
    Elems(x.key) \cup HashedOf(rev, Remaining(x, listed)) = HashedOf(rev, B)

AccessSoFar(x, rl, listed, B) ==
    x.access \cup RulesOf(rl, Remaining(x, listed)) = RulesOf(rl, B)

(* A call whose user's bindings are B, while nothing changes.               *)
CleanOK(x, listed, rl, B) ==
    /\ x.pc = "key" => KeySoFar(x, rl, listed, B)
    /\ x.pc = "read" => Elems(x.key) = HashedOf(rl, B) /\ AccessSoFar(x, rl, listed, B)
    /\ x.pc = "done" => x.access = RulesOf(rl, B)

CallerOK(x, listed, rl, rev) ==
    /\ x.pc # "idle" => x.user \in Users
    /\ x.pc = "key" => x.access = {}
    /\ x.clean => rev = rl /\ CleanOK(x, listed, rl, UserBindings(listed, x.user))

EntryOK(e) == e.clean => e.access = Granted(Elems(e.key))

CallersOK == \A c \in Callers : CallerOK(caller[c], Listed, roles, revisions)
CacheOK == \A i \in 1..Len(cache) : EntryOK(cache[i])

IInv == TypeOK /\ CallersOK /\ CacheOK

-----------------------------------------------------------------------------
(* The bindings that can be listed are bindings, and change with bindings   *)
(* only (policy_rule_index.go 112-124).                                     *)
LEMMA ListedType ==
    ASSUME bindings \in [Subjects -> SUBSET Binding]
    PROVE  Listed \in [Subjects -> SUBSET Binding]
BY DEF Listed, BindingsOf, getClusterRoleBindings, getRoleBindings, List

LEMMA ListedFrame ==
    ASSUME bindings' = bindings
    PROVE  Listed' = Listed
BY DEF Listed, BindingsOf, getClusterRoleBindings, getRoleBindings, List

(* The subjects of a user are subjects (access_store.go 74-77).             *)
LEMMA SubjectsType ==
    ASSUME NEW user \in Users
    PROVE  SubjectsOf(user) \in Seq(Subjects)
<1>1. GroupsOf[user] \in Seq(Subjects)
  BY GroupsAssumption DEF Subjects
<1>2. <<user>> \in Seq(Subjects)
  BY DEF Subjects
<1> QED BY <1>1, <1>2 DEF SubjectsOf

(* A hash is a grant (access_store.go 91-101).                              *)
LEMMA HashType ==
    ASSUME NEW rev \in [Roles -> Nat], NEW b \in Binding
    PROVE  Hash(rev, b) \in Grant
BY DEF Hash, Grant, Binding

LEMMA RulesType ==
    ASSUME NEW rl \in [Roles -> Nat], NEW b \in Binding
    PROVE  RulesOf(rl, {b}) \subseteq Grant
BY HashType DEF RulesOf, HashedOf, Granted

(* getRules in terms of the operators here (policy_rule_index.go 151-167).  *)
LEMMA RulesAre ==
    ASSUME NEW b
    PROVE  getRules(b) = RulesOf(roles, {b})
<1>1. CASE roles[b.role] = 0
  <2>1. \A g \in HashedOf(roles, {b}) : g.rev = 0
    BY <1>1 DEF HashedOf, Hash
  <2> QED BY <1>1, <2>1 DEF getRules, RulesOf, Granted
<1>2. CASE roles[b.role] # 0
  <2>1. HashedOf(roles, {b}) = {Hash(roles, b)} /\ Hash(roles, b).rev # 0
    BY <1>2 DEF HashedOf, Hash
  <2> QED BY <1>2, <2>1 DEF getRules, RulesOf, Granted, Hash
<1> QED BY <1>1, <1>2

LEMMA AccessNowIs ==
    ASSUME NEW user \in Users
    PROVE  AccessNow(user) = RulesOf(roles, UserBindings(Listed, user))
<1> DEFINE S == SubjectsOf(user)
<1>1. S \in Seq(Subjects) /\ DOMAIN S = 1..Len(S)
  BY SubjectsType
<1>2. \A i \in 1..Len(S) : Listed[S[i]] = BindingsOf(S[i])
  BY <1>1 DEF Listed
<1> HIDE DEF S
<1>3. ASSUME NEW g
      PROVE  g \in AccessNow(user)
                <=> \E i \in 1..Len(S) : \E b \in BindingsOf(S[i]) : g \in getRules(b)
  BY <1>1 DEF AccessNow, S
<1>4. ASSUME NEW g
      PROVE  g \in RulesOf(roles, UserBindings(Listed, user))
                <=> \E i \in 1..Len(S) : \E b \in Listed[S[i]] : g = Hash(roles, b) /\ g.rev # 0
  BY DEF RulesOf, Granted, HashedOf, UserBindings, BindingsIn, S
<1>5. ASSUME NEW g, NEW b
      PROVE  g \in getRules(b) <=> g = Hash(roles, b) /\ g.rev # 0
  BY RulesAre DEF RulesOf, Granted, HashedOf
<1>6. ASSUME NEW g
      PROVE  g \in AccessNow(user) <=> g \in RulesOf(roles, UserBindings(Listed, user))
  <2>1. \A i \in 1..Len(S) : (\E b \in BindingsOf(S[i]) : g \in getRules(b))
            <=> (\E b \in Listed[S[i]] : g = Hash(roles, b) /\ g.rev # 0)
    BY <1>2, <1>5
  <2> QED BY <1>3, <1>4, <2>1
<1> QED BY <1>6

-----------------------------------------------------------------------------
(* Listing the bindings of the next subject leaves what remains as it was   *)
(* (access_store.go 84-89, policy_rule_index.go 112-124).                   *)
LEMMA ListNext ==
    ASSUME NEW listed \in [Subjects -> SUBSET Binding], NEW left \in Seq(Subjects),
           left # <<>>
    PROVE  /\ Head(left) \in Subjects /\ Tail(left) \in Seq(Subjects)
           /\ listed[Head(left)] \cup BindingsIn(listed, Tail(left)) = BindingsIn(listed, left)
<1>1. /\ Head(left) \in Subjects /\ Tail(left) \in Seq(Subjects)
      /\ Len(left) \in Nat /\ Len(left) >= 1 /\ Len(Tail(left)) = Len(left) - 1
      /\ Head(left) = left[1]
      /\ \A i \in 1..Len(Tail(left)) : Tail(left)[i] = left[i + 1]
  OBVIOUS
<1>2. ASSUME NEW b
      PROVE  b \in BindingsIn(listed, left)
                <=> b \in listed[Head(left)] \cup BindingsIn(listed, Tail(left))
  <2>1. b \in BindingsIn(listed, left) <=> \E i \in 1..Len(left) : b \in listed[left[i]]
    BY DEF BindingsIn
  <2>2. b \in BindingsIn(listed, Tail(left))
            <=> \E i \in 1..Len(Tail(left)) : b \in listed[Tail(left)[i]]
    BY DEF BindingsIn
  <2>3. ASSUME NEW i \in 1..Len(left), b \in listed[left[i]], i # 1
        PROVE  \E j \in 1..Len(Tail(left)) : b \in listed[Tail(left)[j]]
    <3>1. i - 1 \in 1..Len(Tail(left)) /\ Tail(left)[i - 1] = left[i]
      BY <1>1, <2>3
    <3> QED BY <3>1, <2>3
  <2>4. ASSUME NEW i \in 1..Len(Tail(left)), b \in listed[Tail(left)[i]]
        PROVE  \E j \in 1..Len(left) : b \in listed[left[j]]
    <3>1. i + 1 \in 1..Len(left) /\ Tail(left)[i] = left[i + 1]
      BY <1>1
    <3> QED BY <3>1, <2>4
  <2> QED BY <1>1, <2>1, <2>2, <2>3, <2>4
<1> QED BY <1>1, <1>2

(* Nothing is left to list of no subjects.                                  *)
LEMMA NothingLeft ==
    ASSUME NEW listed
    PROVE  BindingsIn(listed, <<>>) = {}
BY DEF BindingsIn

(* A binding more in a key is its hash more among the key's elements.       *)
LEMMA ElemsAppend ==
    ASSUME NEW S, NEW key \in Seq(S), NEW h \in S
    PROVE  Append(key, h) \in Seq(S) /\ Elems(Append(key, h)) = Elems(key) \cup {h}
<1>1. /\ Append(key, h) \in Seq(S) /\ Len(key) \in Nat
      /\ Len(Append(key, h)) = Len(key) + 1
      /\ Append(key, h)[Len(key) + 1] = h
      /\ \A i \in 1..Len(key) : Append(key, h)[i] = key[i]
  OBVIOUS
<1>2. \A i : i \in 1..(Len(key) + 1) <=> i \in 1..Len(key) \/ i = Len(key) + 1
  BY <1>1
<1> QED BY <1>1, <1>2 DEF Elems

-----------------------------------------------------------------------------
LEMMA InitInv == Init => IInv
<1> SUFFICES ASSUME Init PROVE IInv
  OBVIOUS
<1>1. TypeOK
  <2>1. Idle \in CallerState
    BY DEF Idle, CallerState
  <2> QED BY <2>1, BoundsAssumption DEF Init, TypeOK
<1>2. CallersOK
  BY DEF Init, CallersOK, CallerOK, Idle
<1>3. CacheOK
  BY DEF Init, CacheOK
<1> QED BY <1>1, <1>2, <1>3 DEF IInv

(* The state of the callers after a step of one of them.                    *)
LEMMA StepInv ==
    ASSUME IInv, NEW c \in Callers, NEW new \in CallerState, Step(c, new),
           CallerOK(new, Listed, roles, revisions)
    PROVE  /\ caller' \in [Callers -> CallerState] /\ CallersOK'
           /\ roles' \in [Roles -> Nat] /\ revisions' \in [Roles -> Nat]
           /\ bindings' \in [Subjects -> SUBSET Binding] /\ changes' \in 0..MaxChanges
<1>1. Listed' = Listed /\ roles' = roles /\ revisions' = revisions
  BY ListedFrame DEF Step
<1>2. \A d \in Callers : caller'[d] = IF d = c THEN new ELSE caller[d]
  BY DEF IInv, TypeOK, Step
<1>3. CallersOK'
  <2> SUFFICES ASSUME NEW d \in Callers
               PROVE  CallerOK(caller'[d], Listed', roles', revisions')
    BY DEF CallersOK
  <2> QED BY <1>1, <1>2 DEF IInv, CallersOK
<1> QED BY <1>3 DEF IInv, TypeOK, Step

LEMMA SameCache ==
    ASSUME IInv, UNCHANGED cache
    PROVE  cache' \in Seq(Entry) /\ Len(cache') <= Capacity /\ CacheOK'
BY DEF IInv, TypeOK, CacheOK

(* AccessFor starts with nothing hashed and every subject left.             *)
LEMMA AccessForInv ==
    ASSUME IInv, NEW c \in Callers, NEW user \in Users, AccessFor(c, user)
    PROVE  IInv'
<1> DEFINE new == [Idle EXCEPT !.pc = "key", !.user = user, !.left = SubjectsOf(user),
                               !.clean = InSync]
<1>1. /\ new.pc = "key" /\ new.user = user /\ new.left = SubjectsOf(user)
      /\ new.pend = {} /\ new.key = <<>> /\ new.access = {}
      /\ new.clean = InSync /\ InSync \in BOOLEAN
  BY DEF Idle, InSync
<1>2. new \in CallerState
  <2>1. Idle \in CallerState /\ InSync \in BOOLEAN
    BY DEF Idle, CallerState, InSync
  <2> QED BY <2>1, SubjectsType DEF CallerState
<1> HIDE DEF new
<1>3. CallerOK(new, Listed, roles, revisions)
  <2>1. Elems(new.key) = {}
    BY <1>1 DEF Elems
  <2> QED BY <1>1, <2>1 DEF CallerOK, CleanOK, KeySoFar, Remaining, UserBindings, InSync
<1>4. Step(c, new) /\ UNCHANGED cache
  BY DEF AccessFor, new
<1> QED BY <1>2, <1>3, <1>4, StepInv, SameCache DEF IInv, TypeOK

(* keyBindings, getBindings: the next subject's bindings are listed.        *)
LEMMA ListingInv ==
    ASSUME IInv, NEW c \in Callers, caller[c].pc \in {"key", "read"},
           caller[c].pend = {}, caller[c].left # <<>>,
           Step(c, [caller[c] EXCEPT !.left = Tail(@),
                                     !.pend = BindingsOf(Head(caller[c].left))]),
           UNCHANGED cache
    PROVE  IInv'
<1> DEFINE x == caller[c]
           new == [caller[c] EXCEPT !.left = Tail(@),
                                    !.pend = BindingsOf(Head(caller[c].left))]
<1>1. x \in CallerState /\ CallerOK(x, Listed, roles, revisions)
  BY DEF IInv, TypeOK, CallersOK
<1>2. Listed \in [Subjects -> SUBSET Binding]
  BY ListedType DEF IInv, TypeOK
<1>3. /\ Head(x.left) \in Subjects /\ Tail(x.left) \in Seq(Subjects)
      /\ Listed[Head(x.left)] \cup BindingsIn(Listed, Tail(x.left)) = BindingsIn(Listed, x.left)
  BY <1>1, <1>2, ListNext DEF CallerState
<1>4. BindingsOf(Head(x.left)) = Listed[Head(x.left)]
  BY <1>3 DEF Listed
<1>5. /\ new.pc = x.pc /\ new.user = x.user /\ new.left = Tail(x.left)
      /\ new.pend = Listed[Head(x.left)] /\ new.key = x.key /\ new.access = x.access
      /\ new.clean = x.clean
  BY <1>1, <1>4 DEF CallerState
<1>6. new \in CallerState
  BY <1>1, <1>2, <1>3, <1>4 DEF CallerState
<1>7. Step(c, new) /\ x.pend = {}
  OBVIOUS
<1> HIDE DEF x, new
<1>8. Remaining(new, Listed) = Remaining(x, Listed)
  BY <1>3, <1>5, <1>7 DEF Remaining
<1>9. CallerOK(new, Listed, roles, revisions)
  BY <1>1, <1>5, <1>8 DEF CallerOK, CleanOK, KeySoFar, AccessSoFar
<1> QED BY <1>6, <1>7, <1>9, StepInv, SameCache DEF IInv, TypeOK

(* keyRevision: the first binding's hash is added to the key.               *)
LEMMA keyRevisionInv ==
    ASSUME IInv, NEW c \in Callers, keyRevision(c)
    PROVE  IInv'
<1> PICK b \in First(caller[c].pend) :
        Step(c, [caller[c] EXCEPT !.pend = @ \ {b}, !.key = Append(@, Hashed(b))])
  BY DEF keyRevision
<1> DEFINE x == caller[c]
           h == Hash(revisions, b)
           new == [caller[c] EXCEPT !.pend = @ \ {b}, !.key = Append(@, Hashed(b))]
<1>1. x \in CallerState /\ CallerOK(x, Listed, roles, revisions) /\ x.pc = "key"
  BY DEF IInv, TypeOK, CallersOK, keyRevision
<1>2. b \in x.pend /\ b \in Binding /\ h \in Grant /\ h = Hashed(b)
  <2>1. b \in x.pend /\ b \in Binding
    BY <1>1 DEF First, CallerState
  <2> QED BY <2>1, HashType DEF IInv, TypeOK, Hash, Hashed, roleRevision
<1>3. /\ new.pc = "key" /\ new.user = x.user /\ new.left = x.left
      /\ new.pend = x.pend \ {b} /\ new.key = Append(x.key, h) /\ new.access = x.access
      /\ new.clean = x.clean
  BY <1>1, <1>2 DEF CallerState
<1>4. Append(x.key, h) \in Seq(Grant) /\ Elems(Append(x.key, h)) = Elems(x.key) \cup {h}
  <2>1. x.key \in Seq(Grant)
    BY <1>1 DEF CallerState
  <2> HIDE DEF x, h
  <2> QED BY <1>2, <2>1, ElemsAppend
<1>5. new \in CallerState
  BY <1>1, <1>2, <1>4 DEF CallerState
<1>6. Step(c, new) /\ UNCHANGED cache
  BY DEF keyRevision
<1> HIDE DEF x, new, h
<1>7. CallerOK(new, Listed, roles, revisions)
  <2>1. ASSUME x.clean PROVE KeySoFar(new, roles, Listed, UserBindings(Listed, x.user))
    <3>1. KeySoFar(x, roles, Listed, UserBindings(Listed, x.user)) /\ h = Hash(roles, b)
      BY <1>1, <2>1 DEF CallerOK, CleanOK, h
    <3>2. HashedOf(roles, x.pend \cup BindingsIn(Listed, x.left))
            = {h} \cup HashedOf(roles, (x.pend \ {b}) \cup BindingsIn(Listed, x.left))
      <4> DEFINE whole == x.pend \cup BindingsIn(Listed, x.left)
                 rest == (x.pend \ {b}) \cup BindingsIn(Listed, x.left)
      <4>1. whole = rest \cup {b}
        BY <1>2
      <4> HIDE DEF whole, rest
      <4>2. HashedOf(roles, whole) = {h} \cup HashedOf(roles, rest)
        BY <4>1, <3>1 DEF HashedOf
      <4> QED BY <4>2 DEF whole, rest
    <3> QED BY <1>3, <1>4, <3>1, <3>2 DEF KeySoFar, Remaining
  <2> QED BY <1>1, <1>3, <2>1 DEF CallerOK, CleanOK
<1> QED BY <1>5, <1>6, <1>7, StepInv, SameCache DEF IInv, TypeOK

(* addAccess: the first binding's rules are added to the access.            *)
LEMMA addAccessInv ==
    ASSUME IInv, NEW c \in Callers, addAccess(c)
    PROVE  IInv'
<1> PICK b \in First(caller[c].pend) :
        Step(c, [caller[c] EXCEPT !.pend = @ \ {b}, !.access = @ \cup getRules(b)])
  BY DEF addAccess
<1> DEFINE x == caller[c]
           r == RulesOf(roles, {b})
           new == [caller[c] EXCEPT !.pend = @ \ {b}, !.access = @ \cup getRules(b)]
<1>1. x \in CallerState /\ CallerOK(x, Listed, roles, revisions) /\ x.pc = "read"
  BY DEF IInv, TypeOK, CallersOK, addAccess
<1>2. b \in x.pend /\ r \subseteq Grant /\ r = getRules(b)
  <2>1. b \in x.pend /\ b \in Binding
    BY <1>1 DEF First, CallerState
  <2> QED BY <2>1, RulesType, RulesAre DEF IInv, TypeOK
<1>3. /\ new.pc = "read" /\ new.user = x.user /\ new.left = x.left
      /\ new.pend = x.pend \ {b} /\ new.key = x.key /\ new.access = x.access \cup r
      /\ new.clean = x.clean
  BY <1>1, <1>2 DEF CallerState
<1>4. new \in CallerState
  BY <1>1, <1>2 DEF CallerState
<1>5. Step(c, new) /\ UNCHANGED cache
  BY DEF addAccess
<1> HIDE DEF x, new, r
<1>6. CallerOK(new, Listed, roles, revisions)
  <2>1. ASSUME x.clean PROVE AccessSoFar(new, roles, Listed, UserBindings(Listed, x.user))
    <3>1. AccessSoFar(x, roles, Listed, UserBindings(Listed, x.user))
      BY <1>1, <2>1 DEF CallerOK, CleanOK
    <3>2. RulesOf(roles, x.pend \cup BindingsIn(Listed, x.left))
            = r \cup RulesOf(roles, (x.pend \ {b}) \cup BindingsIn(Listed, x.left))
      <4> DEFINE whole == x.pend \cup BindingsIn(Listed, x.left)
                 rest == (x.pend \ {b}) \cup BindingsIn(Listed, x.left)
      <4>1. whole = rest \cup {b}
        BY <1>2
      <4> HIDE DEF whole, rest
      <4>2. RulesOf(roles, whole) = r \cup RulesOf(roles, rest)
        BY <4>1 DEF r, RulesOf, HashedOf, Granted
      <4> QED BY <4>2 DEF whole, rest
    <3> QED BY <1>3, <3>1, <3>2 DEF AccessSoFar, Remaining
  <2> QED BY <1>1, <1>3, <2>1 DEF CallerOK, CleanOK
<1> QED BY <1>4, <1>5, <1>6, StepInv, SameCache DEF IInv, TypeOK

(* The key of a call that has hashed everything (access_store.go 74-89).    *)
LEMMA KeyIs ==
    ASSUME NEW x \in CallerState, NEW listed, NEW rl, NEW rev,
           CallerOK(x, listed, rl, rev), x.pc = "key", x.pend = {}, x.left = <<>>, x.clean
    PROVE  Elems(x.key) = HashedOf(rl, UserBindings(listed, x.user))
<1>1. Remaining(x, listed) = {}
  BY NothingLeft DEF Remaining
<1>2. HashedOf(rl, {}) = {}
  BY DEF HashedOf
<1> QED BY <1>1, <1>2 DEF CallerOK, CleanOK, KeySoFar

(* cacheHit: the entry's key is the caller's.                               *)
LEMMA cacheHitInv ==
    ASSUME IInv, NEW c \in Callers, cacheHit(c)
    PROVE  IInv'
<1> PICK i \in Entries(caller[c].key) :
        Step(c, [caller[c] EXCEPT !.pc = "done", !.access = cache[i].access,
                                  !.clean = @ /\ cache[i].clean])
  BY DEF cacheHit
<1> DEFINE x == caller[c]
           e == cache[i]
           new == [caller[c] EXCEPT !.pc = "done", !.access = cache[i].access,
                                    !.clean = @ /\ cache[i].clean]
<1>1. x \in CallerState /\ CallerOK(x, Listed, roles, revisions)
      /\ x.pc = "key" /\ x.pend = {} /\ x.left = <<>>
  BY DEF IInv, TypeOK, CallersOK, cacheHit, KeyComplete
<1>2. e \in Entry /\ EntryOK(e) /\ e.key = x.key
  BY DEF Entries, IInv, TypeOK, CacheOK
<1>3. /\ new.pc = "done" /\ new.user = x.user /\ new.access = e.access
      /\ new.clean = (x.clean /\ e.clean)
  BY <1>1 DEF CallerState
<1>4. new \in CallerState
  BY <1>1, <1>2 DEF CallerState, Entry
<1>5. Step(c, new) /\ UNCHANGED cache
  BY DEF cacheHit
<1> HIDE DEF x, e, new
<1>6. CallerOK(new, Listed, roles, revisions)
  <2>1. ASSUME x.clean, e.clean
        PROVE  e.access = RulesOf(roles, UserBindings(Listed, x.user))
    BY <1>1, <1>2, <2>1, KeyIs DEF EntryOK, RulesOf
  <2> QED BY <1>1, <1>3, <2>1 DEF CallerOK, CleanOK
<1> QED BY <1>4, <1>5, <1>6, StepInv, SameCache DEF IInv, TypeOK

(* cacheMiss: the access is read from the start.                            *)
LEMMA cacheMissInv ==
    ASSUME IInv, NEW c \in Callers, cacheMiss(c)
    PROVE  IInv'
<1> DEFINE x == caller[c]
           new == [caller[c] EXCEPT !.pc = "read", !.left = SubjectsOf(caller[c].user)]
<1>1. x \in CallerState /\ CallerOK(x, Listed, roles, revisions)
      /\ x.pc = "key" /\ x.pend = {} /\ x.left = <<>>
  BY DEF IInv, TypeOK, CallersOK, cacheMiss, KeyComplete
<1>2. x.user \in Users /\ x.access = {}
  BY <1>1 DEF CallerOK
<1>3. /\ new.pc = "read" /\ new.user = x.user /\ new.left = SubjectsOf(x.user)
      /\ new.pend = {} /\ new.key = x.key /\ new.access = {} /\ new.clean = x.clean
  BY <1>1, <1>2 DEF CallerState
<1>4. new \in CallerState
  BY <1>1, <1>2, SubjectsType DEF CallerState
<1>5. Step(c, new) /\ UNCHANGED cache
  BY DEF cacheMiss
<1> HIDE DEF x, new
<1>6. CallerOK(new, Listed, roles, revisions)
  <2>1. x.clean => Elems(x.key) = HashedOf(roles, UserBindings(Listed, x.user))
    BY <1>1, KeyIs
  <2>2. new.access \cup RulesOf(roles, Remaining(new, Listed))
            = RulesOf(roles, UserBindings(Listed, x.user))
    BY <1>3 DEF Remaining, UserBindings
  <2> QED BY <1>1, <1>2, <1>3, <2>1, <2>2 DEF CallerOK, CleanOK, AccessSoFar
<1> QED BY <1>4, <1>5, <1>6, StepInv, SameCache DEF IInv, TypeOK

(* Dropping an entry leaves entries of the cache (k8s LRUExpireCache).      *)
LEMMA DropType ==
    ASSUME NEW s \in Seq(Entry), NEW i \in 1..Len(s), \A j \in 1..Len(s) : EntryOK(s[j])
    PROVE  /\ Drop(s, i) \in Seq(Entry) /\ Len(Drop(s, i)) = Len(s) - 1
           /\ \A j \in 1..Len(Drop(s, i)) : EntryOK(Drop(s, i)[j])
<1>1. Len(s) \in Nat /\ Len(s) - 1 \in Nat
  OBVIOUS
<1>2. \A j \in 1..(Len(s) - 1) : j \in 1..Len(s) /\ j + 1 \in 1..Len(s)
  BY <1>1
<1>3. Drop(s, i) \in [1..(Len(s) - 1) -> Entry]
  BY <1>1, <1>2 DEF Drop
<1>4. Drop(s, i) \in Seq(Entry) /\ Len(Drop(s, i)) = Len(s) - 1
  BY <1>1, <1>3
<1>5. ASSUME NEW j \in 1..(Len(s) - 1) PROVE EntryOK(Drop(s, i)[j])
  <2>1. Drop(s, i)[j] = s[j] \/ Drop(s, i)[j] = s[j + 1]
    BY DEF Drop
  <2> QED BY <1>2, <2>1
<1> QED BY <1>4, <1>5

(* cacheAdd: the entry's access is what its key grants.                     *)
LEMMA cacheAddInv ==
    ASSUME IInv, NEW c \in Callers, cacheAdd(c)
    PROVE  IInv'
<1> DEFINE x == caller[c]
           new == [caller[c] EXCEPT !.pc = "done"]
           e == [key |-> caller[c].key, access |-> caller[c].access, clean |-> caller[c].clean]
           others == Others(caller[c].key)
<1>1. x \in CallerState /\ CallerOK(x, Listed, roles, revisions)
      /\ x.pc = "read" /\ x.pend = {} /\ x.left = <<>>
  BY DEF IInv, TypeOK, CallersOK, cacheAdd
<1>2. new.pc = "done" /\ new.user = x.user /\ new.access = x.access /\ new.clean = x.clean
  BY <1>1 DEF CallerState
<1>3. new \in CallerState
  BY <1>1 DEF CallerState
<1>4. Step(c, new)
  BY DEF cacheAdd
<1>5. e \in Entry /\ e.key = x.key /\ e.access = x.access /\ e.clean = x.clean
  BY <1>1 DEF CallerState, Entry
<1>6. PICK kept \in Evicted(others) : cache' = Append(kept, e)
  BY DEF cacheAdd
<1>7. cache \in Seq(Entry) /\ Len(cache) <= Capacity /\ \A j \in 1..Len(cache) : EntryOK(cache[j])
  BY DEF IInv, TypeOK, CacheOK
<1>8. others \in Seq(Entry) /\ Len(others) <= Capacity
      /\ \A j \in 1..Len(others) : EntryOK(others[j])
  <2>1. CASE Entries(x.key) = {}
    BY <1>7, <2>1 DEF Others
  <2>2. CASE Entries(x.key) # {}
    <3>1. PICK i \in 1..Len(cache) : others = Drop(cache, i)
      BY <2>2 DEF Others, Entries
    <3> QED BY <1>7, <3>1, DropType, BoundsAssumption
  <2> QED BY <2>1, <2>2
<1> HIDE DEF x, new, e, others
<1>9. x.clean => x.access = RulesOf(roles, UserBindings(Listed, x.user))
                 /\ Elems(x.key) = HashedOf(roles, UserBindings(Listed, x.user))
  <2>1. Remaining(x, Listed) = {} /\ RulesOf(roles, {}) = {}
    BY <1>1, NothingLeft DEF Remaining, RulesOf, HashedOf, Granted
  <2> QED BY <1>1, <2>1 DEF CallerOK, CleanOK, AccessSoFar
<1>10. CallerOK(new, Listed, roles, revisions)
  BY <1>1, <1>2, <1>9 DEF CallerOK, CleanOK
<1>11. EntryOK(e)
  BY <1>5, <1>9 DEF EntryOK, RulesOf
<1>12. kept \in Seq(Entry) /\ Len(kept) < Capacity
       /\ \A j \in 1..Len(kept) : EntryOK(kept[j])
  <2>1. CASE Len(others) < Capacity
    BY <1>6, <1>8, <2>1 DEF Evicted
  <2>2. CASE ~(Len(others) < Capacity)
    <3>1. PICK i \in 1..Len(others) : kept = Drop(others, i)
      BY <1>6, <2>2 DEF Evicted
    <3> QED BY <1>8, <2>2, <3>1, DropType, BoundsAssumption
  <2> QED BY <2>1, <2>2
<1>13. cache' \in Seq(Entry) /\ Len(cache') <= Capacity /\ CacheOK'
  <2>1. /\ cache' \in Seq(Entry) /\ Len(cache') = Len(kept) + 1 /\ Len(kept) \in Nat
        /\ \A j \in 1..Len(kept) : cache'[j] = kept[j]
        /\ cache'[Len(kept) + 1] = e
    BY <1>5, <1>6, <1>12
  <2>2. \A j \in 1..Len(cache') : EntryOK(cache'[j])
    BY <1>11, <1>12, <2>1
  <2>3. Len(cache') <= Capacity
    BY <1>12, <2>1, BoundsAssumption
  <2> QED BY <2>1, <2>2, <2>3 DEF CacheOK
<1> QED BY <1>3, <1>4, <1>10, <1>13, StepInv DEF IInv, TypeOK

LEMMA returnInv ==
    ASSUME IInv, NEW c \in Callers, return(c)
    PROVE  IInv'
<1>1. Idle \in CallerState /\ CallerOK(Idle, Listed, roles, revisions)
  BY DEF Idle, CallerState, CallerOK
<1> QED BY <1>1, StepInv, SameCache DEF return, IInv, TypeOK

(* A change of roles or bindings: no caller is clean any more.              *)
LEMMA ChangedInv ==
    ASSUME IInv, Changed, roles' \in [Roles -> Nat],
           bindings' \in [Subjects -> SUBSET Binding]
    PROVE  IInv'
<1>1. changes' \in 0..MaxChanges /\ revisions' \in [Roles -> Nat] /\ UNCHANGED cache
  BY BoundsAssumption DEF IInv, TypeOK, Changed
<1>2. ASSUME NEW c \in Callers
      PROVE  caller'[c] \in CallerState /\ CallerOK(caller'[c], Listed', roles', revisions')
  <2>1. caller[c] \in CallerState /\ CallerOK(caller[c], Listed, roles, revisions)
    BY DEF IInv, TypeOK, CallersOK
  <2>2. caller'[c] = [caller[c] EXCEPT !.clean = FALSE]
    BY DEF Changed
  <2>3. caller'[c] \in CallerState
    BY <2>1, <2>2 DEF CallerState
  <2>4. /\ caller'[c].pc = caller[c].pc /\ caller'[c].user = caller[c].user
        /\ caller'[c].access = caller[c].access /\ caller'[c].clean = FALSE
    BY <2>1, <2>2 DEF CallerState
  <2> QED BY <2>1, <2>3, <2>4 DEF CallerOK
<1>3. caller' \in [Callers -> CallerState] /\ CallersOK'
  <2>1. caller' = [c \in Callers |-> caller'[c]]
    BY DEF Changed
  <2> QED BY <1>2, <2>1 DEF CallersOK
<1> QED BY <1>1, <1>3, SameCache DEF IInv, TypeOK

LEMMA ChangesInv ==
    ASSUME IInv, Changes
    PROVE  IInv'
<1>1. roles \in [Roles -> Nat] /\ bindings \in [Subjects -> SUBSET Binding]
      /\ changes + 1 \in Nat
  BY DEF IInv, TypeOK
<1>2. ASSUME NEW r \in Roles, saveRole(r) PROVE IInv'
  BY <1>1, <1>2, ChangedInv DEF saveRole
<1>3. ASSUME NEW r \in Roles, deleteRole(r) PROVE IInv'
  BY <1>1, <1>3, ChangedInv DEF deleteRole
<1>4. ASSUME NEW s \in Subjects, NEW b \in Binding, saveBinding(s, b) PROVE IInv'
  BY <1>1, <1>4, ChangedInv DEF saveBinding
<1>5. ASSUME NEW s \in Subjects, NEW b \in Binding, deleteBinding(s, b) PROVE IInv'
  BY <1>1, <1>5, ChangedInv DEF deleteBinding
<1> QED BY <1>2, <1>3, <1>4, <1>5 DEF Changes

(* onClusterRoleChanged: it only runs when some revision is behind, and     *)
(* then no caller is clean (role_revision_index.go 39-46).                  *)
LEMMA onClusterRoleChangedInv ==
    ASSUME IInv, NEW r \in Roles, onClusterRoleChanged(r)
    PROVE  IInv'
<1>1. revisions' \in [Roles -> Nat] /\ UNCHANGED <<roles, bindings, cache, caller, changes>>
  BY DEF IInv, TypeOK, onClusterRoleChanged
<1>2. ASSUME NEW c \in Callers
      PROVE  CallerOK(caller'[c], Listed', roles', revisions')
  <2>1. CallerOK(caller[c], Listed, roles, revisions) /\ revisions # roles
    BY DEF IInv, CallersOK, onClusterRoleChanged
  <2> QED BY <1>1, <2>1 DEF CallerOK
<1> QED BY <1>1, <1>2, SameCache DEF IInv, TypeOK, CallersOK

LEMMA expireInv ==
    ASSUME IInv, expire
    PROVE  IInv'
<1>1. /\ cache \in Seq(Entry) /\ cache # <<>> /\ cache' = Tail(cache)
      /\ Len(cache) <= Capacity /\ \A i \in 1..Len(cache) : EntryOK(cache[i])
  BY DEF IInv, TypeOK, expire, CacheOK
<1>2. /\ cache' \in Seq(Entry) /\ Len(cache') = Len(cache) - 1 /\ Len(cache) \in Nat
      /\ \A i \in 1..Len(cache') : cache'[i] = cache[i + 1]
  BY <1>1
<1>3. CacheOK' /\ Len(cache') <= Capacity
  BY <1>1, <1>2, BoundsAssumption DEF CacheOK
<1>4. Listed' = Listed
  BY ListedFrame DEF expire
<1> QED BY <1>2, <1>3, <1>4 DEF IInv, TypeOK, CallersOK, expire

-----------------------------------------------------------------------------
LEMMA NextInv ==
    ASSUME IInv, [Next]_vars
    PROVE  IInv'
<1>1. CASE Changes
  BY <1>1, ChangesInv
<1>2. ASSUME NEW r \in Roles, onClusterRoleChanged(r) PROVE IInv'
  BY <1>2, onClusterRoleChangedInv
<1>3. CASE expire
  BY <1>3, expireInv
<1>4. ASSUME NEW c \in Callers, Steps(c) PROVE IInv'
  <2>1. CASE keyBindings(c)
    BY <2>1, ListingInv DEF keyBindings
  <2>2. CASE keyRevision(c)
    BY <2>2, keyRevisionInv
  <2>3. CASE cacheHit(c)
    BY <2>3, cacheHitInv
  <2>4. CASE cacheMiss(c)
    BY <2>4, cacheMissInv
  <2>5. CASE getBindings(c)
    BY <2>5, ListingInv DEF getBindings
  <2>6. CASE addAccess(c)
    BY <2>6, addAccessInv
  <2>7. CASE cacheAdd(c)
    BY <2>7, cacheAddInv
  <2>8. CASE return(c)
    BY <2>8, returnInv
  <2> QED BY <1>4, <2>1, <2>2, <2>3, <2>4, <2>5, <2>6, <2>7, <2>8 DEF Steps
<1>5. ASSUME NEW c \in Callers, NEW user \in Users, AccessFor(c, user) PROVE IInv'
  BY <1>5, AccessForInv
<1>6. CASE UNCHANGED vars
  <2>1. Listed' = Listed
    BY <1>6, ListedFrame DEF vars
  <2> QED BY <1>6, <2>1 DEF IInv, TypeOK, CallersOK, CacheOK, vars
<1> QED BY <1>1, <1>2, <1>3, <1>4, <1>5, <1>6 DEF Next

(* The invariant holds in every reachable state.                            *)
THEOREM Invariance == Spec => []IInv
<1>1. Init => IInv
  BY InitInv
<1>2. IInv /\ [Next]_vars => IInv'
  BY NextInv
<1> QED BY <1>1, <1>2, PTL DEF Spec

(* The cache never holds more than its capacity, and the state is           *)
(* well-typed (access_store.go 43-47).                                      *)
THEOREM TypeCorrect == Spec => []TypeOK
<1>1. IInv => TypeOK
  BY DEF IInv
<1> QED BY <1>1, Invariance, PTL

(* An answer made while nothing changed is the user's access, whether it    *)
(* was computed or taken from an entry some other call made: a key tells    *)
(* apart all the access depends on (access_store.go 50-89).                 *)
THEOREM FreshAnswers == Spec => []FreshWhenClean
<1>1. IInv => FreshWhenClean
  <2> SUFFICES ASSUME IInv, NEW c \in Callers, caller[c].pc = "done", caller[c].clean
               PROVE  caller[c].access = AccessNow(caller[c].user)
    BY DEF FreshWhenClean
  <2>1. CallerOK(caller[c], Listed, roles, revisions)
    BY DEF IInv, CallersOK
  <2>2. caller[c].user \in Users
    BY <2>1 DEF CallerOK
  <2> QED BY <2>1, <2>2, AccessNowIs DEF CallerOK, CleanOK
<1> QED BY <1>1, Invariance, PTL
=============================================================================
