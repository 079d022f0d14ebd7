-------------------------- MODULE MembershipProofs --------------------------
(***************************************************************************)
(* Theorems about Membership, for every set of users, invites and persons. *)
(***************************************************************************)
EXTENDS Membership, FiniteSetTheorems, TLAPS

(***************************************************************************)
(* A request that holds the lock of the group keeps the group, and the     *)
(* accounts that a request is going to write are there while the group is. *)
(***************************************************************************)
Known(r) ==
  /\ r.op = "list" /\ r.empty # None => Exists(r.empty)
  /\ r.op \in {"update", "delete", "use"} => Exists(r.person)

Standing ==
  \A s \in Slots, r \in Request :
    slots[s] = r => /\ r.op \in Locking => group.exists
                    /\ group.exists => Known(r)

TypeInv == TypeOK /\ Standing

(***************************************************************************)
(* What each request carries.                                              *)
(***************************************************************************)
LEMMA RequestFields ==
  ASSUME NEW r \in Request
  PROVE  /\ r.by \in Users
         /\ r.op = "invite" => r.invite \in Invite /\ r.ids \in SUBSET Invites
         /\ r.op = "join" => /\ r.id \in Invites /\ r.invite \in Invite
                             /\ r.person \in Persons \cup {None, "new"}
         /\ r.op = "signIn" => /\ r.ids \in SUBSET Invites /\ r.free \in SUBSET Persons
                               /\ r.member \in BOOLEAN /\ r.claims \in BOOLEAN
         /\ r.op = "list" => r.person \in Persons /\ r.empty \in Persons \cup {None}
         /\ r.op = "own" => r.of \in Users /\ r.person \in Persons \cup {None}
         /\ r.op = "rights" => r.of \in Users /\ r.write \in BOOLEAN /\ r.owner \in BOOLEAN
         /\ r.op = "leave" => r.last \in BOOLEAN
         /\ r.op = "create" => r.name \in Users \cup {None}
         /\ r.op = "update" => r.person \in Persons /\ r.name \in Users \cup {None}
         /\ r.op = "delete" => r.person \in Persons /\ r.owners \in SUBSET Users
         /\ r.op = "use" => r.person \in Persons /\ r.used \in BOOLEAN
  BY DEF Request

LEMMA NotIdle == \A r \in Request : r # Idle /\ r.op # "idle"
  BY DEF Request, Idle

LEMMA Busy ==
  ASSUME TypeOK, NEW s \in Slots, slots[s].op # "idle"
  PROVE  slots[s] \in Request
  BY DEF TypeOK, Idle

(***************************************************************************)
(* Rows: a membership, an invite and a person keep their form.             *)
(***************************************************************************)
LEMMA MemberRow ==
  ASSUME TypeOK, NEW u \in Users, IsMember(u)
  PROVE  /\ members[u] \in Membership
         /\ \A p \in Persons \cup {None} : [members[u] EXCEPT !.person = p] \in Membership
  BY DEF TypeOK, IsMember, Membership

LEMMA PersonRow ==
  ASSUME TypeOK, NEW p \in Persons, Exists(p)
  PROVE  persons[p] \in Person
  BY DEF TypeOK, Exists

LEMMA InviteRow ==
  ASSUME TypeOK, NEW i \in Invites, invites[i] # None
  PROVE  /\ invites[i] \in Invite
         /\ [invites[i] EXCEPT !.status = "deleted"] \in Invite
         /\ [invites[i] EXCEPT !.status = "expired"] \in Invite
  BY DEF TypeOK, Invite

(***************************************************************************)
(* A request that begins changes its slot only.                            *)
(***************************************************************************)
LEMMA AskType ==
  ASSUME TypeOK, NEW s \in Slots, NEW r \in Request, Ask(s, r)
  PROVE  TypeOK'
  BY DEF TypeOK, Ask

\* Invites that are deleted keep what else they say, and only they change.
LEMMA GoneRows ==
  ASSUME TypeOK, NEW ids
  PROVE  /\ Gone(ids) \in [Invites -> Invite \cup {None}]
         /\ \A i \in Invites :
              /\ Gone(ids)[i] = None <=> invites[i] = None
              /\ invites[i] # None => Gone(ids)[i].single = invites[i].single
              /\ Gone(ids)[i] = invites[i] \/ Gone(ids)[i].status = "deleted"
              /\ i \in ids => Gone(ids)[i] = None \/ Gone(ids)[i].status = "deleted"
<1>1. ASSUME NEW i \in Invites
      PROVE  /\ Gone(ids)[i] \in Invite \cup {None}
             /\ Gone(ids)[i] = None <=> invites[i] = None
             /\ invites[i] # None => Gone(ids)[i].single = invites[i].single
             /\ Gone(ids)[i] = invites[i] \/ Gone(ids)[i].status = "deleted"
             /\ i \in ids => Gone(ids)[i] = None \/ Gone(ids)[i].status = "deleted"
  <2>1. invites[i] \in Invite \cup {None}
    BY DEF TypeOK
  <2>2. CASE i \in ids /\ Stored(i)
    <3>1. Gone(ids)[i] = [invites[i] EXCEPT !.status = "deleted"]
      BY <2>2 DEF Gone
    <3>2. invites[i] # None /\ invites[i] \in Invite
      BY <2>1, <2>2 DEF Stored
    <3>3. [invites[i] EXCEPT !.status = "deleted"] \in Invite
      BY <3>2, InviteRow
    <3>4. [invites[i] EXCEPT !.status = "deleted"].single = invites[i].single
          /\ [invites[i] EXCEPT !.status = "deleted"].status = "deleted"
      BY <3>2 DEF Invite
    <3>5. QED  BY <3>1, <3>2, <3>3, <3>4, NoneIsNoRow
  <2>3. CASE ~(i \in ids /\ Stored(i))
    BY <2>1, <2>3 DEF Gone, Stored
  <2>4. QED  BY <2>2, <2>3
<1>2. Gone(ids) = [i \in Invites |-> Gone(ids)[i]]
  BY DEF Gone
<1>3. QED  BY <1>1, <1>2

LEMMA NewcomerType ==
  ASSUME NEW u
  PROVE  PersonForNewcomer(u) \in Persons \cup {None, "new"}
<1> DEFINE adoptable == {p \in NamedLike(u) : Free(p)}
<1>1. adoptable \subseteq Persons
  BY DEF NamedLike
<1>2. Cardinality(adoptable) = 1 => (CHOOSE p \in adoptable : TRUE) \in adoptable
  BY FS_EmptySet
<1>3. PersonForNewcomer(u) = CASE ~group.personOnJoin        -> None
                               [] Cardinality(adoptable) = 1 -> CHOOSE p \in adoptable : TRUE
                               [] OTHER                      -> "new"
  BY DEF PersonForNewcomer
<1> HIDE DEF adoptable
<1>4. QED  BY <1>1, <1>2, <1>3

\* The one free account of the user's name is free.
LEMMA LinkedFacts ==
  ASSUME TypeOK, NEW u \in Users, IsMember(u)
  PROVE  /\ LinkedPerson(u) \in Persons \cup {None}
         /\ LinkedPerson(u) # members[u].person => LinkedPerson(u) \in Persons /\ Free(LinkedPerson(u))
<1> DEFINE obvious == {p \in NamedLike(u) : Free(p)}
<1>1. /\ obvious \subseteq Persons
      /\ \A p \in obvious : Free(p)
  BY DEF NamedLike
<1>2. Cardinality(obvious) = 1 => (CHOOSE p \in obvious : TRUE) \in obvious
  BY FS_EmptySet
<1>3. LinkedPerson(u) = IF members[u].person = None /\ Cardinality(obvious) = 1
                          THEN CHOOSE p \in obvious : TRUE
                          ELSE members[u].person
  BY DEF LinkedPerson
<1>4. members[u].person \in Persons \cup {None}
  BY MemberRow DEF Membership
<1> HIDE DEF obvious
<1>5. QED  BY <1>1, <1>2, <1>3, <1>4

(***************************************************************************)
(* What list_groups asks for: an account nobody owns, and an empty one     *)
(* that is the member's own or nobody's.                                   *)
(***************************************************************************)
LEMMA ListAsks ==
  ASSUME TypeOK, NEW s \in Slots, NEW u \in Users, BeginList(s, u)
  PROVE  \E p \in Persons, e \in Persons \cup {None}, b \in BOOLEAN :
           /\ Ask(s, [op |-> "list", by |-> u, person |-> p, empty |-> e, linked |-> b])
           /\ Free(p)
           /\ e # None => /\ Live(e) /\ ~persons[e].used /\ e # p
                          /\ Owns(u, e) \/ Free(e)
<1> DEFINE own == LinkedPerson(u)
           adopts == /\ own # None
                     /\ Live(own) /\ ~persons[own].used
                     /\ persons[own].name # None
                     /\ Cardinality(Placeholders(own)) = 1
           target == IF adopts THEN CHOOSE p \in Placeholders(own) : TRUE ELSE own
           empty == IF adopts THEN own ELSE None
           linked == members[u].person = None
<1>1. /\ IsMember(u)
      /\ target # members[u].person
      /\ Ask(s, [op |-> "list", by |-> u, person |-> target, empty |-> empty, linked |-> linked])
  BY DEF BeginList
<1>2. /\ own \in Persons \cup {None}
      /\ own # members[u].person => own \in Persons /\ Free(own)
  BY <1>1, LinkedFacts
<1>3. CASE adopts
  <2>1. Placeholders(own) # {}
    BY <1>3, FS_EmptySet
  <2>2. target \in Placeholders(own)
    BY <1>3, <2>1
  <2>3. target \in Persons /\ target # own /\ Free(target)
    BY <2>2 DEF Placeholders
  <2>4. empty = own /\ empty \in Persons
    BY <1>2, <1>3
  <2>5. Owns(u, own) \/ Free(own)
    BY <1>1, <1>2 DEF Owns
  <2>6. linked \in BOOLEAN
    OBVIOUS
  <2>7. Live(own) /\ ~persons[own].used
    BY <1>3
  <2> HIDE DEF own, adopts, target, empty, linked
  <2>8. QED  BY <1>1, <2>3, <2>4, <2>5, <2>6, <2>7
<1>4. CASE ~adopts
  <2>1. target = own /\ empty = None
    BY <1>4
  <2>2. own \in Persons /\ Free(own)
    BY <1>1, <1>2, <2>1
  <2>3. linked \in BOOLEAN
    OBVIOUS
  <2> HIDE DEF own, adopts, target, empty, linked
  <2>4. QED  BY <1>1, <2>1, <2>2, <2>3
<1>5. QED  BY <1>3, <1>4

(***************************************************************************)
(* Every request that begins asks for one of the Request records.          *)
(***************************************************************************)
LEMMA BeginAsks ==
  ASSUME TypeOK, NEW s \in Slots, Begin(s)
  PROVE  \E r \in Request : Ask(s, r) /\ Known(r)
<1>1. PICK u \in Users :
        \/ BeginInvite(s, u) \/ BeginJoin(s, u) \/ BeginSignIn(s, u) \/ BeginList(s, u)
        \/ BeginOwn(s, u) \/ BeginRights(s, u) \/ BeginDeleteGroup(s, u) \/ BeginLeave(s, u)
        \/ BeginAccounts(s, u)
  BY DEF Begin
<1>2. CASE BeginInvite(s, u)
  BY <1>2 DEF BeginInvite, Request, Replaced, Known
<1>3. CASE BeginJoin(s, u)
  <2>1. PICK i \in Invites :
          /\ Admits(i, u)
          /\ Ask(s, [op |-> "join", by |-> u, id |-> i, invite |-> invites[i],
                     person |-> PersonForNewcomer(u)])
    BY <1>3 DEF BeginJoin
  <2>2. invites[i] \in Invite
    BY <2>1, InviteRow DEF Admits, Open
  <2>3. QED  BY <2>1, <2>2, NewcomerType DEF Request, Known
<1>4. CASE BeginSignIn(s, u)
  <2> DEFINE mine == {i \in Invites : Open(i) /\ invites[i].kind = "email" /\ invites[i].to = u}
             named == {invites[i].person : i \in mine} \ {None}
             free == {p \in named : \A v \in Users : ~Owns(v, p)}
             member == IsMember(u)
             claims == ~IsMember(u) \/ members[u].person = None
  <2>1. Ask(s, [op |-> "signIn", by |-> u, ids |-> mine, member |-> member,
                free |-> free, claims |-> claims])
    BY <1>4 DEF BeginSignIn
  <2>2. \A i \in mine : invites[i].person \in Persons \cup {None}
    BY InviteRow DEF Open, Invite
  <2>3. mine \in SUBSET Invites /\ free \in SUBSET Persons
    BY <2>2
  <2>4. member \in BOOLEAN /\ claims \in BOOLEAN
    BY DEF IsMember
  <2> HIDE DEF mine, named, free, member, claims
  <2>5. QED  BY <2>1, <2>3, <2>4 DEF Request, Known
<1>5. CASE BeginList(s, u)
  <2>1. PICK p \in Persons, e \in Persons \cup {None}, b \in BOOLEAN :
          /\ Ask(s, [op |-> "list", by |-> u, person |-> p, empty |-> e, linked |-> b])
          /\ e # None => Live(e)
    BY <1>5, ListAsks
  <2>2. QED  BY <2>1 DEF Request, Known, Live
<1>6. CASE BeginOwn(s, u)
  BY <1>6 DEF BeginOwn, Request, Known
<1>7. CASE BeginRights(s, u)
  BY <1>7 DEF BeginRights, WriteFor, Request, Known
<1>8. CASE BeginDeleteGroup(s, u)
  BY <1>8 DEF BeginDeleteGroup, Request, Known
<1>9. CASE BeginLeave(s, u)
  <2>1. Last \in BOOLEAN
    BY DEF Last
  <2>2. Ask(s, [op |-> "leave", by |-> u, last |-> Last])
    BY <1>9 DEF BeginLeave
  <2>3. QED  BY <2>1, <2>2 DEF Request, Known
<1>10. CASE BeginAccounts(s, u)
  <2>1. ASSUME NEW n \in Users \cup {None}, Ask(s, [op |-> "create", by |-> u, name |-> n])
        PROVE  \E r \in Request : Ask(s, r) /\ Known(r)
    BY <2>1 DEF Request, Known
  <2>2. ASSUME NEW p \in Persons, NEW n \in Users \cup {None}, Exists(p),
               Ask(s, [op |-> "update", by |-> u, person |-> p, name |-> n])
        PROVE  \E r \in Request : Ask(s, r) /\ Known(r)
    BY <2>2 DEF Request, Known
  <2>3. ASSUME NEW p \in Persons, Exists(p),
               Ask(s, [op |-> "delete", by |-> u, person |-> p, owners |-> Owners(u, p)])
        PROVE  \E r \in Request : Ask(s, r) /\ Known(r)
    <3>1. Owners(u, p) \in SUBSET Users
      BY DEF Owners
    <3>2. QED  BY <2>3, <3>1 DEF Request, Known
  <2>4. ASSUME NEW p \in Persons, NEW b \in BOOLEAN, Exists(p),
               Ask(s, [op |-> "use", by |-> u, person |-> p, used |-> b])
        PROVE  \E r \in Request : Ask(s, r) /\ Known(r)
    BY <2>4 DEF Request, Known
  <2>5. QED  BY <1>10, <2>1, <2>2, <2>3, <2>4 DEF BeginAccounts, AskLocked, Live
<1>11. QED  BY <1>1, <1>2, <1>3, <1>4, <1>5, <1>6, <1>7, <1>8, <1>9, <1>10

(***************************************************************************)
(* Every variable keeps its type.                                          *)
(***************************************************************************)
\* A request that is answered leaves its slot.
LEMMA AnswerSlots ==
  ASSUME TypeOK, NEW s \in Slots, NEW op, op # "idle", Answer(s, op)
  PROVE  /\ slots[s] \in Request /\ slots[s].op = op /\ slots[s].by \in Users
         /\ slots' \in [Slots -> Request \cup {Idle}]
         /\ slots'[s] = Idle
         /\ \A t \in Slots \ {s} : slots'[t] = slots[t]
<1>1. slots[s] \in Request /\ slots[s].op = op
  BY Busy DEF Answer
<1>2. slots[s].by \in Users
  BY <1>1, RequestFields
<1>3. QED  BY <1>1, <1>2 DEF TypeOK, Answer

LEMMA NewPersonType ==
  ASSUME TypeOK, NEW p \in Persons, NEW u \in Users \cup {None}
  PROVE  [persons EXCEPT ![p] = [name |-> u, deleted |-> FALSE, used |-> FALSE]]
           \in [Persons -> Person \cup {None}]
  BY DEF TypeOK, Person

LEMMA MovedType ==
  ASSUME TypeOK, NEW u \in Users, NEW p \in Persons \cup {None}, IsMember(u)
  PROVE  [members EXCEPT ![u].person = p] \in [Users -> Membership \cup {None}]
<1>1. [members[u] EXCEPT !.person = p] \in Membership
  BY MemberRow
<1>2. QED  BY <1>1 DEF TypeOK

LEMMA SaveInviteType == ASSUME TypeOK, NEW s \in Slots, SaveInvite(s)  PROVE TypeOK'
<1>1. Answer(s, "invite")
  BY DEF SaveInvite
<1>2. /\ slots' \in [Slots -> Request \cup {Idle}]
      /\ slots[s].invite \in Invite
  BY <1>1, AnswerSlots, RequestFields
<1>3. Gone(slots[s].ids) \in [Invites -> Invite \cup {None}]
  BY GoneRows
<1>4. invites' \in [Invites -> Invite \cup {None}]
  BY <1>2, <1>3 DEF SaveInvite
<1>5. QED  BY <1>2, <1>4 DEF TypeOK, SaveInvite

LEMMA JoinType == ASSUME TypeOK, NEW s \in Slots, Join(s)  PROVE TypeOK'
<1> DEFINE r == slots[s]
           u == r.by
           entry(p) == [owner |-> FALSE, write |-> r.invite.editor, person |-> p]
<1>1. Answer(s, "join")
  BY DEF Join
<1>2. /\ slots' \in [Slots -> Request \cup {Idle}]
      /\ u \in Users /\ r.id \in Invites /\ r.invite \in Invite
      /\ r.person \in Persons \cup {None, "new"}
  BY <1>1, AnswerSlots, RequestFields
<1>3. \A p \in Persons \cup {None} : entry(p) \in Membership
  BY <1>2 DEF Invite, Membership
<1>4. /\ members' \in [Users -> Membership \cup {None}]
      /\ persons' \in [Persons -> Person \cup {None}]
  <2>1. CASE /\ r.person # "new"
             /\ members' = [members EXCEPT ![u] = entry(r.person)]
             /\ UNCHANGED persons
    <3>1. entry(r.person) \in Membership
      BY <1>2, <1>3, <2>1
    <3> HIDE DEF entry
    <3>2. QED  BY <3>1, <2>1 DEF TypeOK
  <2>2. ASSUME NEW p \in Persons, 
               members' = [members EXCEPT ![u] = entry(p)],
               persons' = NewPerson(p, u)
        PROVE  /\ members' \in [Users -> Membership \cup {None}]
               /\ persons' \in [Persons -> Person \cup {None}]
    <3>1. entry(p) \in Membership
      BY <1>3
    <3>2. persons' \in [Persons -> Person \cup {None}]
      BY <2>2, <1>2, NewPersonType DEF NewPerson
    <3> HIDE DEF entry
    <3>3. QED  BY <3>1, <3>2, <2>2 DEF TypeOK
  <2>3. QED  BY <2>1, <2>2 DEF Join
<1>5. invites' \in [Invites -> Invite \cup {None}]
  BY GoneRows DEF Join
<1>6. admitted' \in [Invites -> SUBSET Users]
  BY <1>2 DEF Join, TypeOK
<1>7. QED  BY <1>2, <1>4, <1>5, <1>6 DEF TypeOK, Join

LEMMA SignInType == ASSUME TypeOK, NEW s \in Slots, SignIn(s)  PROVE TypeOK'
<1> DEFINE r == slots[s]
           u == r.by
           claim == IF r.free = {} THEN {None} ELSE r.free
<1>1. Answer(s, "signIn")
  BY DEF SignIn
<1>2. /\ slots' \in [Slots -> Request \cup {Idle}]
      /\ u \in Users /\ r.free \in SUBSET Persons
  BY <1>1, AnswerSlots, RequestFields
<1>3. claim \subseteq Persons \cup {None}
  BY <1>2
<1>4. members' \in [Users -> Membership \cup {None}]
  <2>1. ASSUME NEW p \in claim,
               members' = [members EXCEPT ![u] = [owner |-> FALSE, write |-> TRUE, person |-> p]]
        PROVE  members' \in [Users -> Membership \cup {None}]
    <3>1. [owner |-> FALSE, write |-> TRUE, person |-> p] \in Membership
      BY <1>3 DEF Membership
    <3>2. QED  BY <3>1, <2>1 DEF TypeOK
  <2>2. ASSUME NEW p \in claim, IsMember(u),
               members' = IF p = None THEN members ELSE [members EXCEPT ![u].person = p]
        PROVE  members' \in [Users -> Membership \cup {None}]
    BY <1>2, <1>3, <2>2, MovedType DEF TypeOK
  <2>3. UNCHANGED members => members' \in [Users -> Membership \cup {None}]
    BY DEF TypeOK
  <2>4. QED  BY <2>1, <2>2, <2>3 DEF SignIn
<1>5. invites' \in [Invites -> Invite \cup {None}]
  BY GoneRows DEF SignIn
<1>6. admitted' \in [Invites -> SUBSET Users]
  BY <1>2 DEF SignIn, TypeOK
<1>7. QED  BY <1>2, <1>4, <1>5, <1>6 DEF TypeOK, SignIn

LEMMA ListType == ASSUME TypeInv, NEW s \in Slots, List(s)  PROVE TypeOK'
<1> USE DEF TypeInv
<1>1. Answer(s, "list") /\ group.exists
  BY DEF List
<1>2. /\ slots[s] \in Request /\ slots[s].op = "list"
      /\ slots' \in [Slots -> Request \cup {Idle}]
      /\ slots[s].by \in Users
      /\ slots[s].person \in Persons /\ slots[s].empty \in Persons \cup {None}
  BY <1>1, AnswerSlots, RequestFields
<1>3. members' \in [Users -> Membership \cup {None}]
  BY <1>2, MovedType DEF List, TypeOK
<1>4. \A p \in Duplicates(slots[s]) : p \in Persons /\ persons[p] \in Person
  BY <1>1, <1>2, PersonRow DEF Standing, Known, Duplicates
<1>5. persons' \in [Persons -> Person \cup {None}]
  <2>1. \A p \in Duplicates(slots[s]) : [persons[p] EXCEPT !.deleted = TRUE] \in Person
    BY <1>4 DEF Person
  <2>2. QED  BY <2>1 DEF List, TypeOK
<1>6. QED  BY <1>2, <1>3, <1>5 DEF TypeOK, List

LEMMA OwnType == ASSUME TypeOK, NEW s \in Slots, Own(s)  PROVE TypeOK'
<1>1. Answer(s, "own")
  BY DEF Own
<1>2. /\ slots' \in [Slots -> Request \cup {Idle}]
      /\ slots[s].of \in Users /\ slots[s].person \in Persons \cup {None}
  BY <1>1, AnswerSlots, RequestFields
<1>3. members' \in [Users -> Membership \cup {None}]
  BY <1>2, MovedType DEF Own
<1>4. QED  BY <1>2, <1>3 DEF TypeOK, Own

LEMMA RightsType == ASSUME TypeOK, NEW s \in Slots, Rights(s)  PROVE TypeOK'
<1> DEFINE r == slots[s]
<1>1. Answer(s, "rights")
  BY DEF Rights
<1>2. /\ slots' \in [Slots -> Request \cup {Idle}]
      /\ r.of \in Users /\ r.write \in BOOLEAN /\ r.owner \in BOOLEAN
  BY <1>1, AnswerSlots, RequestFields
<1>3. members[r.of] \in Membership
  BY <1>2, MemberRow DEF Rights
<1>4. [[members[r.of] EXCEPT !.write = r.write] EXCEPT !.owner = r.owner] \in Membership
  BY <1>2, <1>3 DEF Membership
<1>5. members' \in [Users -> Membership \cup {None}]
  BY <1>2, <1>4 DEF Rights, TypeOK
<1>6. QED  BY <1>2, <1>5 DEF TypeOK, Rights

LEMMA DropGroupType ==
  ASSUME TypeOK, DropGroup, slots' \in [Slots -> Request \cup {Idle}]
  PROVE  TypeOK'
<1>1. invites' \in [Invites -> Invite \cup {None}]
  BY GoneRows DEF DropGroup
<1>2. QED  BY <1>1 DEF TypeOK, DropGroup

LEMMA LeaveType == ASSUME TypeOK, NEW s \in Slots, Leave(s)  PROVE TypeOK'
<1>1. slots' \in [Slots -> Request \cup {Idle}] /\ slots[s].by \in Users
  BY AnswerSlots DEF Leave
<1>2. QED  BY <1>1, DropGroupType DEF TypeOK, Leave

LEMMA DeleteGroupType == ASSUME TypeOK, NEW s \in Slots, DeleteGroup(s)  PROVE TypeOK'
  BY AnswerSlots, DropGroupType DEF DeleteGroup

LEMMA CreatePersonType == ASSUME TypeOK, NEW s \in Slots, CreatePerson(s)  PROVE TypeOK'
<1> DEFINE r == slots[s]
<1>1. Answer(s, "create")
  BY DEF CreatePerson
<1>2. /\ slots' \in [Slots -> Request \cup {Idle}]
      /\ r.by \in Users /\ r.name \in Users \cup {None}
  BY <1>1, AnswerSlots, RequestFields
<1>3. PICK p \in Persons :
        /\ persons' = [persons EXCEPT ![p] = [name |-> r.name, deleted |-> FALSE, used |-> FALSE]]
        /\ \/ UNCHANGED members
           \/ IsMember(r.by) /\ members' = [members EXCEPT ![r.by].person = p]
  BY DEF CreatePerson
<1>4. members' \in [Users -> Membership \cup {None}]
  BY <1>2, <1>3, MovedType DEF TypeOK
<1>5. persons' \in [Persons -> Person \cup {None}]
  BY <1>2, <1>3, NewPersonType
<1>6. QED  BY <1>2, <1>4, <1>5 DEF TypeOK, CreatePerson

\* The account that a locking request writes is there.
LEMMA LockedPerson ==
  ASSUME TypeInv, NEW s \in Slots, NEW op \in {"update", "delete", "use"}, Answer(s, op)
  PROVE  slots[s].person \in Persons /\ persons[slots[s].person] \in Person
<1>1. slots[s] \in Request /\ slots[s].op = op
  BY AnswerSlots DEF TypeInv
<1>2. slots[s].person \in Persons
  BY <1>1, RequestFields
<1>3. Exists(slots[s].person)
  BY <1>1 DEF TypeInv, Standing, Known, Locking
<1>4. QED  BY <1>2, <1>3, PersonRow DEF TypeInv

LEMMA UpdatePersonType == ASSUME TypeInv, NEW s \in Slots, UpdatePerson(s)  PROVE TypeOK'
<1> DEFINE p == slots[s].person
           n == slots[s].name
<1> USE DEF TypeInv
<1>1. Answer(s, "update")
  BY DEF UpdatePerson
<1>2. slots' \in [Slots -> Request \cup {Idle}] /\ n \in Users \cup {None}
  BY <1>1, AnswerSlots, RequestFields
<1>3. p \in Persons /\ persons[p] \in Person
  BY <1>1, LockedPerson
<1>4. [persons[p] EXCEPT !.name = n, !.deleted = FALSE] \in Person
  BY <1>2, <1>3 DEF Person
<1>5. persons' \in [Persons -> Person \cup {None}]
  BY <1>3, <1>4 DEF UpdatePerson, TypeOK
<1>6. QED  BY <1>2, <1>5 DEF TypeOK, UpdatePerson

LEMMA DeletePersonType == ASSUME TypeInv, NEW s \in Slots, DeletePerson(s)  PROVE TypeOK'
<1> DEFINE p == slots[s].person
<1> USE DEF TypeInv
<1>1. Answer(s, "delete")
  BY DEF DeletePerson
<1>2. slots' \in [Slots -> Request \cup {Idle}]
  BY <1>1, AnswerSlots
<1>3. p \in Persons /\ persons[p] \in Person
  BY <1>1, LockedPerson
<1>4. [persons[p] EXCEPT !.deleted = TRUE] \in Person
  BY <1>3 DEF Person
<1>5. persons' \in [Persons -> Person \cup {None}]
  BY <1>3, <1>4 DEF DeletePerson, TypeOK
<1>6. \A u \in Users : Owns(u, p) => [members[u] EXCEPT !.person = None] \in Membership
  BY MemberRow DEF Owns
<1>7. members' \in [Users -> Membership \cup {None}]
  BY <1>6 DEF DeletePerson, TypeOK
<1>8. QED  BY <1>2, <1>5, <1>7 DEF TypeOK, DeletePerson

LEMMA UsePersonType == ASSUME TypeInv, NEW s \in Slots, UsePerson(s)  PROVE TypeOK'
<1> DEFINE p == slots[s].person
           b == slots[s].used
<1> USE DEF TypeInv
<1>1. Answer(s, "use")
  BY DEF UsePerson
<1>2. slots' \in [Slots -> Request \cup {Idle}] /\ b \in BOOLEAN
  BY <1>1, AnswerSlots, RequestFields
<1>3. p \in Persons /\ persons[p] \in Person
  BY <1>1, LockedPerson
<1>4. [persons[p] EXCEPT !.used = b] \in Person
  BY <1>2, <1>3 DEF Person
<1>5. persons' \in [Persons -> Person \cup {None}]
  BY <1>3, <1>4 DEF UsePerson, TypeOK
<1>6. QED  BY <1>2, <1>5 DEF TypeOK, UsePerson

(***************************************************************************)
(* Every step: a request begins, or it is answered, or one statement runs. *)
(***************************************************************************)
Commit(s) ==
  \/ SaveInvite(s) \/ Join(s) \/ SignIn(s) \/ List(s) \/ Own(s) \/ Rights(s)
  \/ DeleteGroup(s) \/ Leave(s)
  \/ CreatePerson(s) \/ UpdatePerson(s) \/ DeletePerson(s) \/ UsePerson(s)
  \/ Abort(s)

Statement ==
  \/ \E i \in Invites : Expire(i) \/ \E u \in Users : Withdraw(i, u)
  \/ \E u \in Users : UpdateGroup(u)

LEMMA NextSteps ==
  Next <=> (\E s \in Slots : Begin(s) \/ Commit(s)) \/ Statement
  BY DEF Next, Commit, Statement

LEMMA CommitType == ASSUME TypeInv, NEW s \in Slots, Commit(s)  PROVE TypeOK'
<1> USE DEF TypeInv
<1>1. SaveInvite(s) => TypeOK'  BY SaveInviteType
<1>2. Join(s) => TypeOK'  BY JoinType
<1>3. SignIn(s) => TypeOK'  BY SignInType
<1>4. List(s) => TypeOK'  BY ListType
<1>5. Own(s) => TypeOK'  BY OwnType
<1>6. Rights(s) => TypeOK'  BY RightsType
<1>7. DeleteGroup(s) => TypeOK'  BY DeleteGroupType
<1>8. Leave(s) => TypeOK'  BY LeaveType
<1>9. CreatePerson(s) => TypeOK'  BY CreatePersonType
<1>10. UpdatePerson(s) => TypeOK'  BY UpdatePersonType
<1>11. DeletePerson(s) => TypeOK'  BY DeletePersonType
<1>12. UsePerson(s) => TypeOK'  BY UsePersonType
<1>13. Abort(s) => TypeOK'  BY DEF Abort, TypeOK
<1>14. QED
  BY <1>1, <1>2, <1>3, <1>4, <1>5, <1>6, <1>7, <1>8, <1>9, <1>10, <1>11, <1>12, <1>13 DEF Commit

LEMMA StatementType == ASSUME TypeOK, Statement  PROVE TypeOK'
<1>1. ASSUME NEW i \in Invites, Expire(i)  PROVE TypeOK'
  <2>1. [invites[i] EXCEPT !.status = "expired"] \in Invite
    BY <1>1, InviteRow DEF Expire, Open
  <2>2. invites' \in [Invites -> Invite \cup {None}]
    BY <1>1, <2>1 DEF Expire, TypeOK
  <2>3. QED  BY <1>1, <2>2 DEF Expire, TypeOK
<1>2. ASSUME NEW i \in Invites, NEW u \in Users, Withdraw(i, u)  PROVE TypeOK'
  BY <1>2, GoneRows DEF Withdraw, TypeOK
<1>3. ASSUME NEW u \in Users, UpdateGroup(u)  PROVE TypeOK'
  BY <1>3 DEF UpdateGroup, TypeOK
<1>4. QED  BY <1>1, <1>2, <1>3 DEF Statement

LEMMA TypeStep == ASSUME TypeInv, Next  PROVE TypeOK'
<1>1. ASSUME NEW s \in Slots, Begin(s)  PROVE TypeOK'
  BY <1>1, BeginAsks, AskType DEF TypeInv
<1>2. QED  BY <1>1, CommitType, StatementType, NextSteps DEF TypeInv

\* A request that is answered is Idle, every other one stays as it was.
LEMMA CommitSlots ==
  ASSUME TypeOK, NEW s \in Slots, Commit(s)
  PROVE  /\ slots[s] \in Request
         /\ slots'[s] = Idle /\ \A t \in Slots \ {s} : slots'[t] = slots[t]
<1>1. \A op : op # "idle" /\ Answer(s, op) =>
        /\ slots[s] \in Request
        /\ slots'[s] = Idle /\ \A t \in Slots \ {s} : slots'[t] = slots[t]
  BY AnswerSlots
<1>2. Abort(s) => /\ slots[s] \in Request
                  /\ slots'[s] = Idle /\ \A t \in Slots \ {s} : slots'[t] = slots[t]
  BY DEF Abort, TypeOK
<1>3. Abort(s) \/ \E op : op # "idle" /\ Answer(s, op)
  BY DEF Commit, SaveInvite, Join, SignIn, List, Own, Rights, DeleteGroup, Leave,
         CreatePerson, UpdatePerson, DeletePerson, UsePerson
<1>4. QED  BY <1>1, <1>2, <1>3

\* Only the end of the group takes accounts away, and no request has its lock then.
LEMMA CommitKeeps ==
  ASSUME TypeInv, NEW s \in Slots, Commit(s)
  PROVE  \/ DropGroup
         \/ group' = group /\ \A p \in Persons : Exists(p) => Exists(p)'
<1> USE DEF TypeInv
<1>1. CASE UNCHANGED <<group, persons>>
  BY <1>1 DEF Exists
<1>2. ASSUME NEW q \in Persons, NEW row \in Person,
             persons' = [persons EXCEPT ![q] = row]
      PROVE  \A p \in Persons : Exists(p) => Exists(p)'
  BY <1>2, NoneIsNoRow DEF Exists, TypeOK
<1>3. \A n \in Users \cup {None} : [name |-> n, deleted |-> FALSE, used |-> FALSE] \in Person
  BY DEF Person
<1>4. CASE Join(s)
  <2>1. slots[s].by \in Users
    BY <1>4, AnswerSlots DEF Join
  <2>2. QED  BY <1>1, <1>2, <1>3, <1>4, <2>1 DEF Join, NewPerson
<1>5. CASE List(s)
  <2>1. Answer(s, "list") /\ group.exists
    BY <1>5 DEF List
  <2>2. /\ slots[s] \in Request /\ slots[s].op = "list"
        /\ slots[s].empty \in Persons \cup {None}
    BY <2>1, AnswerSlots, RequestFields
  <2>3. \A p \in Duplicates(slots[s]) : persons[p] \in Person
    BY <2>1, <2>2, PersonRow DEF Standing, Known, Duplicates
  <2>4. \A p \in Duplicates(slots[s]) : [persons[p] EXCEPT !.deleted = TRUE] \in Person
    BY <2>3 DEF Person
  <2>5. QED  BY <1>5, <2>4, NoneIsNoRow DEF List, Exists
<1>6. CASE CreatePerson(s)
  <2>1. slots[s].name \in Users \cup {None}
    BY <1>6, AnswerSlots, RequestFields DEF CreatePerson
  <2>2. PICK p \in Persons :
          persons' = [persons EXCEPT ![p] =
                        [name |-> slots[s].name, deleted |-> FALSE, used |-> FALSE]]
    BY <1>6 DEF CreatePerson
  <2>3. QED  BY <1>2, <1>3, <1>6, <2>1, <2>2 DEF CreatePerson
<1>7. CASE UpdatePerson(s)
  <2>1. /\ slots[s].person \in Persons /\ persons[slots[s].person] \in Person
        /\ slots[s].name \in Users \cup {None}
    BY <1>7, LockedPerson, AnswerSlots, RequestFields DEF UpdatePerson
  <2>2. [persons[slots[s].person] EXCEPT !.name = slots[s].name, !.deleted = FALSE] \in Person
    BY <2>1 DEF Person
  <2>3. QED  BY <1>2, <1>7, <2>1, <2>2 DEF UpdatePerson
<1>8. CASE DeletePerson(s)
  <2>1. slots[s].person \in Persons /\ persons[slots[s].person] \in Person
    BY <1>8, LockedPerson DEF DeletePerson
  <2>2. [persons[slots[s].person] EXCEPT !.deleted = TRUE] \in Person
    BY <2>1 DEF Person
  <2>3. QED  BY <1>2, <1>8, <2>1, <2>2 DEF DeletePerson
<1>9. CASE UsePerson(s)
  <2>1. /\ slots[s].person \in Persons /\ persons[slots[s].person] \in Person
        /\ slots[s].used \in BOOLEAN
    BY <1>9, LockedPerson, AnswerSlots, RequestFields DEF UsePerson
  <2>2. [persons[slots[s].person] EXCEPT !.used = slots[s].used] \in Person
    BY <2>1 DEF Person
  <2>3. QED  BY <1>2, <1>9, <2>1, <2>2 DEF UsePerson
<1>10. QED
  BY <1>1, <1>4, <1>5, <1>6, <1>7, <1>8, <1>9
     DEF Commit, SaveInvite, SignIn, Own, Rights, DeleteGroup, Leave, Abort

LEMMA StandingStep == ASSUME TypeInv, Next  PROVE Standing'
<1> USE DEF TypeInv
<1>1. ASSUME NEW s \in Slots, NEW r \in Request, Ask(s, r), Known(r)  PROVE Standing'
  BY <1>1 DEF Standing, Ask, Known, Exists, TypeOK
<1>2. ASSUME NEW s \in Slots, Commit(s)  PROVE Standing'
  <2>1. \A t \in Slots, r \in Request : slots'[t] = r => slots[t] = r
    BY <1>2, CommitSlots, NotIdle
  <2>2. CASE DropGroup
    <3>1. \A t \in Slots : slots[t].op \notin Locking
      BY <2>2 DEF DropGroup, Locked
    <3>2. ~group'.exists
      BY <2>2 DEF DropGroup, TypeOK
    <3>3. QED  BY <2>1, <3>1, <3>2 DEF Standing
  <2>3. CASE group' = group /\ \A p \in Persons : Exists(p) => Exists(p)'
    <3>1. ASSUME NEW t \in Slots, NEW r \in Request, slots'[t] = r, group.exists
          PROVE  Known(r)'
      <4>1. Known(r)
        BY <2>1, <3>1 DEF Standing
      <4>2. QED  BY <4>1, <2>3, RequestFields DEF Known
    <3>2. QED  BY <2>1, <2>3, <3>1 DEF Standing
  <2>4. QED  BY <1>2, <2>2, <2>3, CommitKeeps
<1>3. ASSUME Statement  PROVE Standing'
  <2>1. /\ group'.exists = group.exists
        /\ UNCHANGED <<persons, slots>>
    BY <1>3 DEF Statement, Expire, Withdraw, UpdateGroup, TypeOK
  <2>2. QED  BY <2>1 DEF Standing, Known, Exists
<1>4. QED  BY <1>1, <1>2, <1>3, NextSteps, BeginAsks

LEMMA TypeInit == Init => TypeInv
<1> SUFFICES ASSUME Init PROVE TypeInv
  OBVIOUS
<1>1. PICK onJoin \in BOOLEAN, p \in Persons \cup {None} :
       /\ group = [exists |-> TRUE, personOnJoin |-> onJoin]
       /\ members = [u \in Users |->
                       IF u = Founder THEN [owner |-> TRUE, write |-> TRUE, person |-> p]
                                      ELSE None]
       /\ persons = [q \in Persons |->
                       IF q = p THEN [name |-> Founder, deleted |-> FALSE, used |-> FALSE]
                                ELSE None]
  BY DEF Init
<1>2. group \in [exists : BOOLEAN, personOnJoin : BOOLEAN]
  BY <1>1
<1>3. members \in [Users -> Membership \cup {None}]
  BY <1>1 DEF Membership
<1>4. persons \in [Persons -> Person \cup {None}]
  BY <1>1, MembershipAssumption DEF Person
<1>5. Standing
  BY NotIdle DEF Init, Standing
<1>6. QED  BY <1>2, <1>3, <1>4, <1>5 DEF Init, TypeInv, TypeOK

LEMMA TypeInvStep == TypeInv /\ [Next]_vars => TypeInv'
<1> SUFFICES ASSUME TypeInv, [Next]_vars PROVE TypeInv'
  OBVIOUS
<1>1. Next => TypeInv'
  BY TypeStep, StandingStep DEF TypeInv
<1>2. UNCHANGED vars => TypeInv'
  BY DEF vars, TypeInv, TypeOK, Standing, Known, Exists
<1>3. QED  BY <1>1, <1>2

LEMMA TypeInvAlways == Spec => []TypeInv
  BY TypeInit, TypeInvStep, PTL DEF Spec

(***************************************************************************)
(* Every row keeps its form, however the requests overlap: no request      *)
(* writes to an account or a membership that has gone since it looked.     *)
(***************************************************************************)
THEOREM MembershipTypes == Spec => []TypeOK
<1>1. TypeInv => TypeOK
  BY DEF TypeInv
<1>2. QED  BY TypeInvAlways, <1>1, PTL

(***************************************************************************)
(* However requests overlap: once a single-use invite has let somebody in  *)
(* it is not open, so no request takes it up any more, and each request    *)
(* that has it already may let in one user more.                           *)
(***************************************************************************)
Uses(r, i) == \/ r.op = "join" /\ r.id = i
              \/ r.op = "signIn" /\ i \in r.ids
Using(i) == {s \in Slots : Uses(slots[s], i)}

UsedAreThere == \A i \in Invites : Using(i) # {} => invites[i] # None

FewAdmitted ==
  \A i \in Invites :
    admitted[i] # {} =>
      /\ invites[i] # None /\ ~Open(i)
      /\ Cardinality(admitted[i]) + Cardinality(Using(i)) <= Cardinality(Slots)

ReuseInv == TypeInv /\ UsedAreThere /\ FewAdmitted

LEMMA AdmittedFinite ==
  ASSUME TypeOK, NEW i \in Invites
  PROVE  /\ IsFiniteSet(admitted[i]) /\ Cardinality(admitted[i]) \in Nat
         /\ IsFiniteSet(Using(i)) /\ Cardinality(Using(i)) \in Nat
         /\ Cardinality(Slots) \in Nat
<1>1. admitted[i] \subseteq Users /\ Using(i) \subseteq Slots
  BY DEF TypeOK, Using
<1>2. QED  BY <1>1, MembershipAssumption, FS_Subset, FS_CardinalityType

\* A request that is answered does not use its invites any more.
LEMMA UsingShrinks ==
  ASSUME TypeOK, NEW i \in Invites, \A t \in Slots : slots'[t] \in {slots[t], Idle}
  PROVE  /\ Using(i)' \subseteq Using(i)
         /\ Cardinality(Using(i)') \in Nat
         /\ Cardinality(Using(i)') <= Cardinality(Using(i))
         /\ \A s \in Slots : slots'[s] = Idle =>
              /\ Cardinality(Using(i)') + 1 <= Cardinality(Slots)
              /\ s \in Using(i) => Cardinality(Using(i)') + 1 <= Cardinality(Using(i))
<1>1. ~Uses(Idle, i)
  BY DEF Uses, Idle
<1>2. Using(i)' \subseteq Using(i)
  BY <1>1 DEF Using, Uses
<1>3. IsFiniteSet(Using(i))
  BY AdmittedFinite
<1>4. IsFiniteSet(Using(i)') /\ Cardinality(Using(i)') <= Cardinality(Using(i))
  BY <1>2, <1>3, FS_Subset
<1>5. ASSUME NEW s \in Slots, slots'[s] = Idle
      PROVE  /\ Cardinality(Using(i)') + 1 <= Cardinality(Slots)
             /\ s \in Using(i) => Cardinality(Using(i)') + 1 <= Cardinality(Using(i))
  <2>1. s \notin Using(i)'
    BY <1>1, <1>5 DEF Using, Uses
  <2>2. ASSUME NEW T, IsFiniteSet(T), s \in T, Using(i)' \subseteq T
        PROVE  Cardinality(Using(i)') + 1 <= Cardinality(T)
    <3>1. Using(i)' \subseteq T \ {s}
      BY <2>1, <2>2
    <3>2. IsFiniteSet(T \ {s}) /\ Cardinality(T \ {s}) = Cardinality(T) - 1
      BY <2>2, FS_RemoveElement
    <3>3. Cardinality(Using(i)') <= Cardinality(T \ {s})
      BY <3>1, <3>2, FS_Subset
    <3>4. QED  BY <2>2, <3>2, <3>3, <1>4, FS_CardinalityType
  <2>3. Using(i)' \subseteq Slots
    BY DEF Using
  <2>4. QED  BY <1>2, <1>3, <1>5, <2>2, <2>3, MembershipAssumption
<1>6. QED  BY <1>2, <1>4, <1>5, FS_CardinalityType

\* Steps that let nobody in.
LEMMA ReuseFrame ==
  ASSUME ReuseInv, admitted' = admitted,
         \A t \in Slots : slots'[t] \in {slots[t], Idle},
         \A i \in Invites : invites[i] # None => invites'[i] # None /\ (Open(i)' => Open(i))
  PROVE  UsedAreThere' /\ FewAdmitted'
<1> USE DEF ReuseInv, TypeInv
<1>1. UsedAreThere'
  BY UsingShrinks DEF UsedAreThere
<1>2. ASSUME NEW i \in Invites, admitted'[i] # {}
      PROVE  /\ invites'[i] # None /\ ~Open(i)'
             /\ Cardinality(admitted'[i]) + Cardinality(Using(i)') <= Cardinality(Slots)
  <2>1. /\ invites[i] # None /\ ~Open(i)
        /\ Cardinality(admitted[i]) + Cardinality(Using(i)) <= Cardinality(Slots)
    BY <1>2 DEF FewAdmitted
  <2>2. QED  BY <2>1, AdmittedFinite, UsingShrinks
<1>3. FewAdmitted'
  BY <1>2 DEF FewAdmitted
<1>4. QED  BY <1>1, <1>3

\* A step that lets a user in with invites that are closed by it.
LEMMA ReuseAdmit ==
  ASSUME ReuseInv, NEW s \in Slots, NEW u \in Users, NEW ids \in SUBSET Invites, NEW gone,
         slots'[s] = Idle, \A t \in Slots : slots'[t] \in {slots[t], Idle},
         \A i \in ids : s \in Using(i),
         ids \subseteq gone, invites' = Gone(gone),
         \A i \in Invites : admitted'[i] = IF i \in ids THEN admitted[i] \cup {u} ELSE admitted[i]
  PROVE  UsedAreThere' /\ FewAdmitted'
<1> USE DEF ReuseInv, TypeInv
<1>1. \A i \in Invites : /\ invites[i] # None => invites'[i] # None
                         /\ Open(i)' => Open(i)
                         /\ i \in gone => ~Open(i)'
  BY GoneRows DEF Open
<1>2. UsedAreThere'
  BY <1>1, UsingShrinks DEF UsedAreThere
<1>3. ASSUME NEW i \in Invites, admitted'[i] # {}
      PROVE  /\ invites'[i] # None /\ ~Open(i)'
             /\ Cardinality(admitted'[i]) + Cardinality(Using(i)') <= Cardinality(Slots)
  <2>1. CASE i \notin ids
    <3>1. /\ invites[i] # None /\ ~Open(i)
          /\ Cardinality(admitted[i]) + Cardinality(Using(i)) <= Cardinality(Slots)
      BY <1>3, <2>1 DEF FewAdmitted
    <3>2. admitted'[i] = admitted[i] /\ invites'[i] # None /\ ~Open(i)'
      BY <1>1, <2>1, <3>1
    <3>3. /\ Cardinality(admitted[i]) \in Nat /\ Cardinality(Using(i)) \in Nat
          /\ Cardinality(Slots) \in Nat
          /\ Cardinality(Using(i)') \in Nat /\ Cardinality(Using(i)') <= Cardinality(Using(i))
      BY AdmittedFinite, UsingShrinks
    <3>4. QED  BY <3>1, <3>2, <3>3
  <2>2. CASE i \in ids
    <3>1. invites[i] # None
      BY <2>2 DEF UsedAreThere
    <3>2. /\ Cardinality(admitted[i] \cup {u}) <= Cardinality(admitted[i]) + 1
          /\ Cardinality(admitted[i] \cup {u}) \in Nat
      <4>1. IsFiniteSet(admitted[i]) /\ Cardinality(admitted[i]) \in Nat
        BY AdmittedFinite
      <4>2. Cardinality(admitted[i] \cup {u})
              = IF u \in admitted[i] THEN Cardinality(admitted[i]) ELSE Cardinality(admitted[i]) + 1
        BY <4>1, FS_AddElement
      <4>3. QED  BY <4>1, <4>2
    <3>3. CASE admitted[i] = {}
      <4>1. Cardinality(admitted[i]) = 0
        BY <3>3, FS_EmptySet
      <4>2. QED  BY <1>1, <2>2, <3>1, <3>2, <4>1, AdmittedFinite, UsingShrinks
    <3>4. CASE admitted[i] # {}
      <4>1. Cardinality(admitted[i]) + Cardinality(Using(i)) <= Cardinality(Slots)
        BY <3>4 DEF FewAdmitted
      <4>2. QED  BY <1>1, <2>2, <3>1, <3>2, <4>1, AdmittedFinite, UsingShrinks
    <3>5. QED  BY <3>3, <3>4
  <2>3. QED  BY <2>1, <2>2
<1>4. FewAdmitted'
  BY <1>3 DEF FewAdmitted
<1>5. QED  BY <1>2, <1>4

\* The record in the slot says which operation began.
LEMMA AskedRecord ==
  ASSUME TypeOK, NEW s \in Slots, NEW r, Ask(s, r)
  PROVE  slots'[s] = r /\ \A t \in Slots \ {s} : slots'[t] = slots[t]
  BY DEF Ask, TypeOK

LEMMA BeginOps ==
  ASSUME TypeOK, NEW s \in Slots, Begin(s)
  PROVE  \E u \in Users :
           \/ BeginInvite(s, u) /\ slots'[s].op = "invite"
           \/ BeginJoin(s, u) /\ slots'[s].op = "join"
           \/ BeginSignIn(s, u) /\ slots'[s].op = "signIn"
           \/ BeginList(s, u) /\ slots'[s].op = "list"
           \/ BeginOwn(s, u) /\ slots'[s].op = "own"
           \/ BeginRights(s, u) /\ slots'[s].op = "rights"
           \/ BeginDeleteGroup(s, u) /\ slots'[s].op = "deleteGroup"
           \/ BeginLeave(s, u) /\ slots'[s].op = "leave"
           \/ BeginAccounts(s, u) /\ slots'[s].op \in Locking
<1>1. PICK u \in Users :
        \/ BeginInvite(s, u) \/ BeginJoin(s, u) \/ BeginSignIn(s, u) \/ BeginList(s, u)
        \/ BeginOwn(s, u) \/ BeginRights(s, u) \/ BeginDeleteGroup(s, u) \/ BeginLeave(s, u)
        \/ BeginAccounts(s, u)
  BY DEF Begin
<1>2. \A r : Ask(s, r) => slots'[s] = r
  BY AskedRecord
<1>3. ASSUME BeginInvite(s, u)  PROVE slots'[s].op = "invite"
  BY <1>2, <1>3 DEF BeginInvite
<1>4. ASSUME BeginJoin(s, u)  PROVE slots'[s].op = "join"
  BY <1>2, <1>4 DEF BeginJoin
<1>5. ASSUME BeginSignIn(s, u)  PROVE slots'[s].op = "signIn"
  BY <1>2, <1>5 DEF BeginSignIn
<1>6. ASSUME BeginList(s, u)  PROVE slots'[s].op = "list"
  <2>1. PICK p, e, b : Ask(s, [op |-> "list", by |-> u, person |-> p, empty |-> e, linked |-> b])
    BY <1>6, ListAsks
  <2>2. QED  BY <1>2, <2>1
<1>7. ASSUME BeginOwn(s, u)  PROVE slots'[s].op = "own"
  BY <1>2, <1>7 DEF BeginOwn
<1>8. ASSUME BeginRights(s, u)  PROVE slots'[s].op = "rights"
  BY <1>2, <1>8 DEF BeginRights
<1>9. ASSUME BeginDeleteGroup(s, u)  PROVE slots'[s].op = "deleteGroup"
  BY <1>2, <1>9 DEF BeginDeleteGroup
<1>10. ASSUME BeginLeave(s, u)  PROVE slots'[s].op = "leave"
  BY <1>2, <1>10 DEF BeginLeave
<1>11. ASSUME BeginAccounts(s, u)  PROVE slots'[s].op \in Locking
  <2>1. \A n : Ask(s, [op |-> "create", by |-> u, name |-> n]) => slots'[s].op \in Locking
    BY <1>2 DEF Locking
  <2>2. \A p, n : Ask(s, [op |-> "update", by |-> u, person |-> p, name |-> n])
                    => slots'[s].op \in Locking
    BY <1>2 DEF Locking
  <2>3. \A p, o : Ask(s, [op |-> "delete", by |-> u, person |-> p, owners |-> o])
                    => slots'[s].op \in Locking
    BY <1>2 DEF Locking
  <2>4. \A p, b : Ask(s, [op |-> "use", by |-> u, person |-> p, used |-> b])
                    => slots'[s].op \in Locking
    BY <1>2 DEF Locking
  <2>5. QED  BY <1>11, <2>1, <2>2, <2>3, <2>4 DEF BeginAccounts, AskLocked
<1>12. QED
  BY <1>1, <1>3, <1>4, <1>5, <1>6, <1>7, <1>8, <1>9, <1>10, <1>11

\* A request takes up invites that are open only.
LEMMA BeginUses ==
  ASSUME TypeOK, NEW s \in Slots, Begin(s), NEW i \in Invites, Uses(slots'[s], i)
  PROVE  Open(i)
<1>1. PICK u \in Users : BeginJoin(s, u) \/ BeginSignIn(s, u)
  BY BeginOps DEF Uses, Locking
<1>2. BeginJoin(s, u) => Open(i)
  BY AskedRecord DEF BeginJoin, Admits, Uses
<1>3. BeginSignIn(s, u) => Open(i)
  BY AskedRecord DEF BeginSignIn, Uses
<1>4. QED  BY <1>1, <1>2, <1>3

LEMMA BeginReuse == ASSUME ReuseInv, NEW s \in Slots, Begin(s)  PROVE UsedAreThere' /\ FewAdmitted'
<1> USE DEF ReuseInv, TypeInv
<1>1. PICK r \in Request : Ask(s, r)
  BY BeginAsks
<1>2. UNCHANGED <<invites, admitted>>
  BY <1>1 DEF Ask
<1>3. \A i \in Invites : ~Open(i) => Using(i)' \subseteq Using(i)
  <2>1. \A t \in Slots \ {s} : slots'[t] = slots[t]
    BY <1>1 DEF Ask, TypeOK
  <2>2. QED  BY <2>1, BeginUses DEF Using, Uses
<1>4. \A i \in Invites : Using(i)' \subseteq Using(i) => /\ Cardinality(Using(i)') \in Nat
                                                         /\ Cardinality(Using(i)') <= Cardinality(Using(i))
  BY AdmittedFinite, FS_Subset, FS_CardinalityType
<1>5. UsedAreThere'
  BY <1>2, <1>3 DEF UsedAreThere, Open
<1>6. FewAdmitted'
  BY <1>2, <1>3, <1>4, AdmittedFinite DEF FewAdmitted, Open
<1>7. QED  BY <1>5, <1>6

LEMMA CommitReuse == ASSUME ReuseInv, NEW s \in Slots, Commit(s)  PROVE UsedAreThere' /\ FewAdmitted'
<1> USE DEF ReuseInv, TypeInv
<1> DEFINE r == slots[s]
<1>1. /\ r \in Request
      /\ slots'[s] = Idle
      /\ \A t \in Slots : slots'[t] \in {slots[t], Idle}
  BY CommitSlots
<1>2. ASSUME admitted' = admitted, NEW ids, invites' = Gone(ids)
      PROVE  UsedAreThere' /\ FewAdmitted'
  <2>1. \A i \in Invites : invites[i] # None => invites'[i] # None /\ (Open(i)' => Open(i))
    BY <1>2, GoneRows DEF Open
  <2>2. QED  BY <1>1, <1>2, <2>1, ReuseFrame
<1>3. CASE UNCHANGED <<invites, admitted>>
  BY <1>1, <1>3, ReuseFrame DEF Open
<1>4. CASE SaveInvite(s)
  <2>1. PICK new \in Invites :
          /\ invites[new] = None
          /\ invites' = [Gone(r.ids) EXCEPT ![new] = r.invite]
    BY <1>4 DEF SaveInvite
  <2>2. \A i \in Invites : invites[i] # None => invites'[i] # None /\ (Open(i)' => Open(i))
    BY <2>1, GoneRows DEF Open
  <2>3. QED  BY <1>1, <1>4, <2>2, ReuseFrame DEF SaveInvite
<1>5. CASE Join(s)
  <2>1. r.op = "join" /\ r.id \in Invites /\ r.by \in Users
    BY <1>5, AnswerSlots, RequestFields DEF Join
  <2>2. s \in Using(r.id)
    BY <2>1 DEF Using, Uses
  <2>3. /\ invites' = Gone(Spent(r))
        /\ \A i \in Invites : admitted'[i] = IF i \in Spent(r) THEN admitted[i] \cup {r.by}
                                                                ELSE admitted[i]
    BY <1>5, <2>1 DEF Join, Spent, TypeOK
  <2>4. \A i \in Spent(r) : i \in Invites /\ s \in Using(i)
    BY <2>1, <2>2 DEF Spent
  <2> HIDE DEF r
  <2>5. QED  BY <1>1, <2>1, <2>3, <2>4, ReuseAdmit
<1>6. CASE SignIn(s)
  <2>1. r.op = "signIn" /\ r.ids \in SUBSET Invites /\ r.by \in Users
    BY <1>6, AnswerSlots, RequestFields DEF SignIn
  <2>2. \A i \in r.ids : s \in Using(i)
    BY <2>1 DEF Using, Uses
  <2>3. /\ invites' = Gone(r.ids)
        /\ \/ admitted' = admitted
           \/ admitted' = [i \in Invites |-> IF i \in r.ids THEN admitted[i] \cup {r.by}
                                                            ELSE admitted[i]]
    BY <1>6 DEF SignIn
  <2>4. CASE admitted' = admitted
    BY <1>2, <2>3, <2>4
  <2>5. CASE admitted' = [i \in Invites |-> IF i \in r.ids THEN admitted[i] \cup {r.by}
                                                           ELSE admitted[i]]
    <3>1. \A i \in Invites : admitted'[i] = IF i \in r.ids THEN admitted[i] \cup {r.by}
                                                           ELSE admitted[i]
      BY <2>5
    <3> DEFINE ids == r.ids
    <3>2. /\ ids \in SUBSET Invites /\ ids \subseteq ids /\ r.by \in Users
          /\ \A i \in ids : s \in Using(i)
          /\ invites' = Gone(ids)
          /\ \A i \in Invites : admitted'[i] = IF i \in ids THEN admitted[i] \cup {r.by}
                                                            ELSE admitted[i]
      BY <2>1, <2>2, <2>3, <3>1
    <3> HIDE DEF r, ids
    <3>3. QED  BY <1>1, <3>2, ReuseAdmit
  <2>6. QED  BY <2>3, <2>4, <2>5
<1>7. CASE DropGroup
  BY <1>2, <1>7 DEF DropGroup
<1>8. QED
  BY <1>3, <1>4, <1>5, <1>6, <1>7
     DEF Commit, List, Own, Rights, DeleteGroup, Leave, CreatePerson, UpdatePerson,
         DeletePerson, UsePerson, Abort

LEMMA StatementReuse == ASSUME ReuseInv, Statement  PROVE UsedAreThere' /\ FewAdmitted'
<1> USE DEF ReuseInv, TypeInv
<1>1. ASSUME NEW i \in Invites, Expire(i)  PROVE UsedAreThere' /\ FewAdmitted'
  <2>1. invites[i] \in Invite /\ [invites[i] EXCEPT !.status = "expired"] \in Invite
    BY <1>1, InviteRow DEF Expire, Open
  <2>2. /\ [invites[i] EXCEPT !.status = "expired"] # None
        /\ [invites[i] EXCEPT !.status = "expired"].status # "open"
    BY <2>1, NoneIsNoRow DEF Invite
  <2>3. \A j \in Invites : invites[j] # None => invites'[j] # None /\ (Open(j)' => Open(j))
    BY <1>1, <2>2 DEF Expire, Open, TypeOK
  <2>4. QED  BY <1>1, <2>3, ReuseFrame DEF Expire
<1>2. ASSUME NEW i \in Invites, NEW u \in Users, Withdraw(i, u)
      PROVE  UsedAreThere' /\ FewAdmitted'
  <2>1. \A j \in Invites : invites[j] # None => invites'[j] # None /\ (Open(j)' => Open(j))
    BY <1>2, GoneRows DEF Withdraw, Open
  <2>2. QED  BY <1>2, <2>1, ReuseFrame DEF Withdraw
<1>3. ASSUME NEW u \in Users, UpdateGroup(u)  PROVE UsedAreThere' /\ FewAdmitted'
  BY <1>3, ReuseFrame DEF UpdateGroup, Open
<1>4. QED  BY <1>1, <1>2, <1>3 DEF Statement

LEMMA ReuseInit == Init => ReuseInv
<1>1. Init => \A i \in Invites : admitted[i] = {} /\ Using(i) = {}
  BY DEF Init, Using, Uses, Idle
<1>2. QED  BY <1>1, TypeInit DEF ReuseInv, UsedAreThere, FewAdmitted

LEMMA ReuseStep == ReuseInv /\ [Next]_vars => ReuseInv'
<1> SUFFICES ASSUME ReuseInv, [Next]_vars PROVE ReuseInv'
  OBVIOUS
<1>1. TypeInv'
  BY TypeInvStep DEF ReuseInv
<1>2. Next => UsedAreThere' /\ FewAdmitted'
  BY NextSteps, BeginReuse, CommitReuse, StatementReuse
<1>3. UNCHANGED vars => UsedAreThere' /\ FewAdmitted'
  BY DEF vars, ReuseInv, UsedAreThere, FewAdmitted, Using, Uses, Open
<1>4. QED  BY <1>1, <1>2, <1>3 DEF ReuseInv

(***************************************************************************)
(* A single-use invite lets in no more users than requests run at the same *)
(* time (join_group and accept_email_invites look at the invite without a  *)
(* lock and delete it later).                                              *)
(***************************************************************************)
THEOREM OverlapBoundsReuse == Spec => []ReuseNeedsOverlap
<1>1. ReuseInv => ReuseNeedsOverlap
  <2> SUFFICES ASSUME ReuseInv, NEW i \in Invites
               PROVE  Cardinality(admitted[i]) <= Cardinality(Slots)
    BY DEF ReuseNeedsOverlap
  <2>1. CASE admitted[i] = {}
    BY <2>1, AdmittedFinite, FS_EmptySet DEF ReuseInv, TypeInv
  <2>2. CASE admitted[i] # {}
    BY <2>2, AdmittedFinite DEF ReuseInv, TypeInv, FewAdmitted
  <2>3. QED  BY <2>1, <2>2
<1>2. QED  BY <1>1, ReuseInit, ReuseStep, PTL DEF Spec

(***************************************************************************)
(* Where requests do not overlap.  What a request has read is still so     *)
(* when it writes: nothing but the statements of Withdraw, Expire and      *)
(* UpdateGroup comes between.                                              *)
(***************************************************************************)
OneRequest == \A s, t \in Slots : s = t

FreshInvite(r) ==
  /\ r.invite.person # None => Exists(r.invite.person)
  /\ r.invite.kind = "named" =>
       \A i \in Invites : Open(i) /\ invites[i].kind = "named" => invites[i].to # r.invite.to
  /\ r.invite.kind = "email" =>
       \A i \in Invites :
         Open(i) /\ invites[i].kind = "email" /\ invites[i].to = r.invite.to => i \in r.ids

FreshList(r) ==
  /\ Exists(r.person) /\ Free(r.person)
  /\ r.empty # None => /\ Live(r.empty) /\ ~persons[r.empty].used /\ r.empty # r.person
                       /\ Owns(r.by, r.empty) \/ Free(r.empty)

FreshDelete(r) ==
  /\ Live(r.person) /\ ~persons[r.person].used
  /\ \A u \in Users : Owns(u, r.person) => u \in r.owners

Unclaimed(p) == Exists(p) /\ \A v \in Users : ~Owns(v, p)

Fresh(r) ==
  /\ r.op = "invite" => FreshInvite(r)
  /\ r.op = "join" /\ r.person \in Persons => Unclaimed(r.person)
  /\ r.op = "signIn" => \A p \in r.free : Unclaimed(p)
  /\ r.op = "list" => FreshList(r)
  /\ r.op = "own" /\ r.person # None => Exists(r.person)
  /\ r.op = "leave" => IF r.last THEN Members = {r.by} ELSE Members \ {r.by} # {}
  /\ r.op = "deleteGroup" => Members = {r.by}
  /\ r.op = "delete" => FreshDelete(r)
  /\ r.op = "use" => Live(r.person)

AllFresh == \A s \in Slots, r \in Request : slots[s] = r => Fresh(r)

OwnedExists == \A u \in Users, p \in Persons : Owns(u, p) => Exists(p)
InvitedExists ==
  \A i \in Invites : Open(i) /\ invites[i].person # None => Exists(invites[i].person)
GroupHasMembers == group.exists => Members # {}

Sound == OwnedExists /\ InvitedExists /\ GroupHasMembers /\ OneOpenInvite /\ UsedIsLive

OneAtATime == TypeInv /\ AllFresh /\ Sound

\* Invites that are open are as they were.
Closing == \A i \in Invites : Open(i)' => Open(i) /\ invites'[i] = invites[i]

LEMMA GoneCloses ==
  ASSUME TypeOK, NEW ids, invites' = Gone(ids)
  PROVE  Closing /\ \A i \in ids : i \in Invites => ~Open(i)'
  BY GoneRows DEF Closing, Open

LEMMA StillFresh ==
  ASSUME UNCHANGED <<members, persons>>, Closing, NEW r, Fresh(r)
  PROVE  Fresh(r)'
<1>1. FreshInvite(r) => FreshInvite(r)'
  BY DEF Closing, FreshInvite, Exists
<1>2. FreshList(r) => FreshList(r)'
  BY DEF FreshList, Exists, Free, Live, Owns, IsMember
<1>3. FreshDelete(r) => FreshDelete(r)'
  BY DEF FreshDelete, Live, Exists, Owns, IsMember
<1>4. \A p : Unclaimed(p) => Unclaimed(p)'
  BY DEF Unclaimed, Exists, Owns, IsMember
<1>5. Members' = Members
  BY DEF Members, IsMember
<1>6. \A p : (Exists(p) => Exists(p)') /\ (Live(p) => Live(p)')
  BY DEF Exists, Live
<1>7. QED  BY <1>1, <1>2, <1>3, <1>4, <1>5, <1>6 DEF Fresh

LEMMA MembersFinite == IsFiniteSet(Members)
<1>1. Members \subseteq Users
  BY DEF Members
<1>2. QED  BY <1>1, MembershipAssumption, FS_Subset

LEMMA TheLast ==
  ASSUME NEW u \in Users, IsMember(u)
  PROVE  IF Last THEN Members = {u} ELSE Members \ {u} # {}
<1>1. u \in Members
  BY DEF Members
<1>2. Last => Members = {u}
  <2>1. Last => \E x : Members = {x}
    BY MembersFinite, FS_Singleton DEF Last
  <2>2. QED  BY <1>1, <2>1
<1>3. Members = {u} => Last
  BY FS_Singleton DEF Last
<1>4. QED  BY <1>1, <1>2, <1>3

LEMMA BeginFresh ==
  ASSUME TypeOK, InvitedExists, NEW s \in Slots, NEW r \in Request, Begin(s), Ask(s, r)
  PROVE  Fresh(r)
<1>1. slots'[s] = r
  BY AskedRecord
<1>2. PICK u \in Users :
        \/ BeginInvite(s, u) /\ r.op = "invite"
        \/ BeginJoin(s, u) /\ r.op = "join"
        \/ BeginSignIn(s, u) /\ r.op = "signIn"
        \/ BeginList(s, u) /\ r.op = "list"
        \/ BeginOwn(s, u) /\ r.op = "own"
        \/ BeginRights(s, u) /\ r.op = "rights"
        \/ BeginDeleteGroup(s, u) /\ r.op = "deleteGroup"
        \/ BeginLeave(s, u) /\ r.op = "leave"
        \/ BeginAccounts(s, u) /\ r.op \in Locking
  BY <1>1, BeginOps
<1>3. \A q : Ask(s, q) => r = q
  BY <1>1, AskedRecord
<1>4. CASE BeginInvite(s, u) /\ r.op = "invite"
  <2>1. PICK inv \in Invite :
          /\ \/ inv.kind = "link" /\ inv.to = None /\ inv.person = None
             \/ /\ inv.kind = "named" /\ inv.to # None /\ inv.person = None
                /\ \A i \in Invites :
                     Open(i) /\ invites[i].kind = "named" => invites[i].to # inv.to
             \/ inv.kind = "email" /\ (inv.person # None => Free(inv.person))
          /\ Ask(s, [op |-> "invite", by |-> u, invite |-> inv, ids |-> Replaced(inv)])
    BY <1>4 DEF BeginInvite
  <2>2. r.invite = inv /\ r.ids = Replaced(inv)
    BY <1>3, <2>1
  <2>3. \A i \in Invites : /\ inv.kind = "email" /\ Open(i) /\ invites[i].kind = "email"
                           /\ invites[i].to = inv.to
                           => i \in Replaced(inv)
    BY DEF Replaced, Open, Stored
  <2>4. FreshInvite(r)
    BY <2>1, <2>2, <2>3 DEF FreshInvite, Free, Live
  <2>5. QED  BY <1>4, <2>4 DEF Fresh
<1>5. CASE BeginJoin(s, u) /\ r.op = "join"
  <2>1. r.person = PersonForNewcomer(u)
    BY <1>3, <1>5 DEF BeginJoin
  <2>2. ASSUME r.person \in Persons  PROVE Unclaimed(r.person)
    <3> DEFINE adoptable == {p \in NamedLike(u) : Free(p)}
    <3>1. Cardinality(adoptable) = 1 => (CHOOSE p \in adoptable : TRUE) \in adoptable
      BY FS_EmptySet
    <3>2. r.person \in adoptable
      BY <2>1, <2>2, <3>1, MembershipAssumption DEF PersonForNewcomer
    <3>3. QED  BY <3>2 DEF Free, Live, Unclaimed
  <2>3. QED  BY <1>5, <2>2 DEF Fresh
<1>6. CASE BeginSignIn(s, u) /\ r.op = "signIn"
  <2> DEFINE mine == {i \in Invites : Open(i) /\ invites[i].kind = "email" /\ invites[i].to = u}
             named == {invites[i].person : i \in mine} \ {None}
  <2>1. r.free = {p \in named : \A v \in Users : ~Owns(v, p)}
    BY <1>3, <1>6 DEF BeginSignIn
  <2>2. \A p \in named : Exists(p)
    BY DEF InvitedExists
  <2>3. QED  BY <1>6, <2>1, <2>2 DEF Fresh, Unclaimed
<1>7. CASE BeginList(s, u) /\ r.op = "list"
  <2>1. PICK p \in Persons, e \in Persons \cup {None}, b \in BOOLEAN :
          /\ Ask(s, [op |-> "list", by |-> u, person |-> p, empty |-> e, linked |-> b])
          /\ Free(p)
          /\ e # None => /\ Live(e) /\ ~persons[e].used /\ e # p
                         /\ Owns(u, e) \/ Free(e)
    BY <1>7, ListAsks
  <2>2. r.by = u /\ r.person = p /\ r.empty = e
    BY <1>3, <2>1
  <2>3. FreshList(r)
    BY <2>1, <2>2 DEF FreshList, Free, Live
  <2>4. QED  BY <1>7, <2>3 DEF Fresh
<1>8. CASE BeginOwn(s, u) /\ r.op = "own"
  <2>1. r.person # None => Exists(r.person)
    BY <1>3, <1>8 DEF BeginOwn
  <2>2. QED  BY <1>8, <2>1 DEF Fresh
<1>9. CASE BeginRights(s, u) /\ r.op = "rights"
  BY <1>9 DEF Fresh
<1>10. CASE BeginDeleteGroup(s, u) /\ r.op = "deleteGroup"
  <2>1. r.by = u /\ Members = {u}
    BY <1>3, <1>10, TheLast DEF BeginDeleteGroup, IsOwner
  <2>2. QED  BY <1>10, <2>1 DEF Fresh
<1>11. CASE BeginLeave(s, u) /\ r.op = "leave"
  <2>1. r.by = u /\ r.last = Last /\ IsMember(u)
    BY <1>3, <1>11 DEF BeginLeave
  <2>2. QED  BY <1>11, <2>1, TheLast DEF Fresh
<1>12. CASE BeginAccounts(s, u) /\ r.op \in Locking
  <2>1. \A n : Ask(s, [op |-> "create", by |-> u, name |-> n]) => r.op = "create"
    BY <1>3
  <2>2. \A p, n : Ask(s, [op |-> "update", by |-> u, person |-> p, name |-> n]) => r.op = "update"
    BY <1>3
  <2>3. ASSUME NEW p \in Persons, Live(p), ~persons[p].used,
               Ask(s, [op |-> "delete", by |-> u, person |-> p, owners |-> Owners(u, p)])
        PROVE  r.op = "delete" /\ FreshDelete(r)
    <3>1. r.op = "delete" /\ r.person = p /\ r.owners = Owners(u, p)
      BY <1>3, <2>3
    <3>2. QED  BY <2>3, <3>1 DEF FreshDelete, Owners
  <2>4. ASSUME NEW p \in Persons, NEW b, Live(p),
               Ask(s, [op |-> "use", by |-> u, person |-> p, used |-> b])
        PROVE  r.op = "use" /\ Live(r.person)
    BY <1>3, <2>4
  <2>5. \/ r.op \in {"create", "update"}
        \/ r.op = "delete" /\ FreshDelete(r)
        \/ r.op = "use" /\ Live(r.person)
    BY <1>12, <2>1, <2>2, <2>3, <2>4 DEF BeginAccounts, AskLocked
  <2>6. QED  BY <2>5 DEF Fresh
<1>13. QED  BY <1>2, <1>4, <1>5, <1>6, <1>7, <1>8, <1>9, <1>10, <1>11, <1>12

(***************************************************************************)
(* What a step does to memberships and claims: the bodies of the action    *)
(* properties NobodyEvicted, ClaimRespected and DeletionDisowns.           *)
(***************************************************************************)
Evicts ==
  /\ \A u \in Users : IsMember(u) /\ ~IsMember(u)' => Acts(u)
  /\ group'.exists => Members' # {}

Respects ==
  \A u \in Users, p \in Persons :
    Owns(u, p)' /\ ~Owns(u, p) /\ ~Commits("own") => \A v \in Users \ {u} : ~Owns(v, p)

Disowns ==
  \A p \in Persons : Live(p) /\ ~Live(p)' =>
    \/ \A u \in Users : ~Owns(u, p)'
    \/ Commits("list") /\ \E u, v \in Users : u # v /\ Owns(u, p) /\ Owns(v, p)

StepSound == Sound' /\ Evicts /\ Respects /\ Disowns

\* Nobody's claim and nobody's membership changes.
SameClaims == \A u \in Users : IsMember(u)' = IsMember(u) /\ \A p \in Persons : Owns(u, p)' = Owns(u, p)

LEMMA CloseKeeps ==
  ASSUME Closing, Sound
  PROVE  /\ OneOpenInvite'
         /\ (\A p : Exists(p) => Exists(p)') => InvitedExists'
<1>1. OneOpenInvite'
  BY DEF Closing, Sound, OneOpenInvite
<1>2. ASSUME \A p : Exists(p) => Exists(p)'  PROVE InvitedExists'
  BY <1>2 DEF Closing, Sound, InvitedExists
<1>3. QED  BY <1>1, <1>2

\* Steps that touch neither memberships nor accounts.
LEMMA QuietStep ==
  ASSUME Sound, UNCHANGED <<members, persons>>, group'.exists => group.exists,
         OneOpenInvite', InvitedExists'
  PROVE  StepSound
<1>1. \A u, p : IsMember(u)' = IsMember(u) /\ Owns(u, p)' = Owns(u, p)
  BY DEF IsMember, Owns
<1>2. \A p : Exists(p)' = Exists(p) /\ Live(p)' = Live(p)
  BY DEF Exists, Live
<1>3. Members' = Members
  BY DEF Members, IsMember
<1>4. OwnedExists' /\ GroupHasMembers' /\ UsedIsLive'
  BY <1>3 DEF Sound, OwnedExists, Owns, IsMember, Exists, GroupHasMembers, UsedIsLive
<1>5. Evicts
  BY <1>1, <1>3 DEF Evicts, Sound, GroupHasMembers
<1>6. Respects /\ Disowns
  BY <1>1, <1>2 DEF Respects, Disowns
<1>7. QED  BY <1>4, <1>5, <1>6 DEF StepSound, Sound

LEMMA SaveInviteSound ==
  ASSUME OneAtATime, NEW s \in Slots, SaveInvite(s)
  PROVE  StepSound
<1> DEFINE r == slots[s]
<1> USE DEF OneAtATime, TypeInv
<1>1. r \in Request /\ r.op = "invite" /\ r.invite \in Invite
  BY AnswerSlots, RequestFields DEF SaveInvite
<1>2. FreshInvite(r)
  BY <1>1 DEF AllFresh, Fresh
<1>3. PICK new \in Invites :
        /\ invites[new] = None
        /\ invites' = [Gone(r.ids) EXCEPT ![new] = r.invite]
  BY DEF SaveInvite
<1>4. /\ invites'[new] = r.invite
      /\ \A i \in Invites \ {new} : Open(i)' => /\ Open(i) /\ invites'[i] = invites[i]
                                                /\ i \notin r.ids
  BY <1>3, GoneRows DEF Open
<1>5. \A i \in Invites : Open(i) => invites[i] \in Invite
  BY InviteRow DEF Open
<1>6. OneOpenInvite'
  <2>1. ASSUME NEW i \in Invites \ {new}, Open(i)', invites'[i].kind = r.invite.kind,
               r.invite.kind # "link"
        PROVE  invites'[i].to # r.invite.to
    <3>1. Open(i) /\ invites'[i] = invites[i] /\ i \notin r.ids
      BY <1>4, <2>1
    <3>2. r.invite.kind \in {"named", "email"}
      BY <1>1, <2>1 DEF Invite
    <3>3. QED  BY <1>2, <2>1, <3>1, <3>2 DEF FreshInvite
  <2>2. QED  BY <1>4, <2>1 DEF Sound, OneOpenInvite
<1>7. InvitedExists'
  <2>1. \A p : Exists(p)' = Exists(p)
    BY DEF SaveInvite, Exists
  <2>2. QED  BY <1>2, <1>4, <2>1 DEF Sound, InvitedExists, FreshInvite
<1>8. QED  BY <1>6, <1>7, QuietStep DEF SaveInvite

LEMMA StatementSound ==
  ASSUME OneAtATime, Statement
  PROVE  StepSound /\ AllFresh'
<1> USE DEF OneAtATime, TypeInv
<1>1. Closing
  <2>1. ASSUME NEW i \in Invites, Expire(i)  PROVE Closing
    <3>1. [invites[i] EXCEPT !.status = "expired"].status # "open"
      BY <2>1, InviteRow DEF Expire, Open, Invite
    <3>2. QED  BY <2>1, <3>1 DEF Expire, Closing, Open, TypeOK
  <2>2. ASSUME NEW i \in Invites, NEW u \in Users, Withdraw(i, u)  PROVE Closing
    BY <2>2, GoneCloses DEF Withdraw
  <2>3. ASSUME NEW u \in Users, UpdateGroup(u)  PROVE Closing
    BY <2>3 DEF UpdateGroup, Closing, Open
  <2>4. QED  BY <2>1, <2>2, <2>3 DEF Statement
<1>2. UNCHANGED <<members, persons, slots>> /\ group'.exists = group.exists
  BY DEF Statement, Expire, Withdraw, UpdateGroup, TypeOK
<1>3. AllFresh'
  BY <1>1, <1>2, StillFresh DEF AllFresh
<1>4. \A p : Exists(p) => Exists(p)'
  BY <1>2 DEF Exists
<1>5. QED  BY <1>1, <1>2, <1>3, <1>4, CloseKeeps, QuietStep

(***************************************************************************)
(* One membership is written: its owner stays or becomes a member and owns *)
(* the account the row names, and nothing else changes hands.              *)
(***************************************************************************)
LEMMA OneRow ==
  ASSUME TypeOK, Sound, NEW u \in Users, NEW row \in Membership,
         members' = [members EXCEPT ![u] = row],
         \A q \in Persons : Exists(q) => Exists(q)',
         row.person # None => Exists(row.person)'
  PROVE  /\ OwnedExists' /\ GroupHasMembers' /\ Evicts
         /\ \A v \in Users \ {u} : \A q \in Persons : Owns(v, q)' <=> Owns(v, q)
         /\ \A q \in Persons : Owns(u, q)' <=> row.person = q
         /\ \/ row.person = None
            \/ Owns(u, row.person)
            \/ Commits("own")
            \/ \A v \in Users \ {u} : ~Owns(v, row.person)
            => Respects
<1>1. row # None /\ members'[u] = row
  BY NoneIsNoRow DEF TypeOK
<1>2. \A v \in Users \ {u} : members'[v] = members[v]
  BY DEF TypeOK
<1>3. /\ \A v \in Users \ {u} : \A q \in Persons : Owns(v, q)' <=> Owns(v, q)
      /\ \A q \in Persons : Owns(u, q)' <=> row.person = q
  BY <1>1, <1>2 DEF Owns, IsMember
<1>4. OwnedExists'
  BY <1>3, MembershipAssumption DEF Sound, OwnedExists, Exists
<1>5. u \in Members'
  BY <1>1 DEF Members, IsMember
<1>6. Evicts /\ GroupHasMembers'
  BY <1>1, <1>2, <1>5 DEF Evicts, GroupHasMembers, IsMember
<1>7. ASSUME \/ row.person = None
             \/ Owns(u, row.person)
             \/ Commits("own")
             \/ \A v \in Users \ {u} : ~Owns(v, row.person)
      PROVE  Respects
  BY <1>3, <1>7, MembershipAssumption DEF Respects
<1>8. QED  BY <1>3, <1>4, <1>6, <1>7

\* An account that is new is nobody's and names no expense.
LEMMA NewPersonKeeps ==
  ASSUME TypeOK, Sound, NEW p \in Persons, persons[p] = None, NEW n \in Users \cup {None},
         persons' = [persons EXCEPT ![p] = [name |-> n, deleted |-> FALSE, used |-> FALSE]]
  PROVE  /\ \A q \in Persons : Exists(q) => Exists(q)'
         /\ \A q \in Persons : Live(q) => Live(q)'
         /\ Exists(p)' /\ \A v \in Users : ~Owns(v, p)
         /\ UsedIsLive'
<1> DEFINE row == [name |-> n, deleted |-> FALSE, used |-> FALSE]
<1>1. row # None /\ ~row.deleted /\ ~row.used
  <2>1. row \in Person
    BY DEF Person
  <2>2. QED  BY <2>1, NoneIsNoRow
<1>2. persons'[p] = row /\ \A q \in Persons \ {p} : persons'[q] = persons[q]
  BY DEF TypeOK
<1> HIDE DEF row
<1>3. /\ \A q \in Persons : Exists(q) => Exists(q)'
      /\ \A q \in Persons : Live(q) => Live(q)'
      /\ Exists(p)'
  BY <1>1, <1>2 DEF Exists, Live
<1>4. \A v \in Users : ~Owns(v, p)
  BY DEF Sound, OwnedExists, Exists
<1>5. UsedIsLive'
  BY <1>1, <1>2 DEF Sound, UsedIsLive, Exists
<1>6. QED  BY <1>3, <1>4, <1>5

LEMMA JoinSound ==
  ASSUME OneAtATime, NEW s \in Slots, Join(s)
  PROVE  StepSound
<1> DEFINE r == slots[s]
           u == r.by
           entry(p) == [owner |-> FALSE, write |-> r.invite.editor, person |-> p]
<1> USE DEF OneAtATime, TypeInv
<1>1. /\ r \in Request /\ r.op = "join" /\ u \in Users
      /\ r.invite \in Invite /\ r.person \in Persons \cup {None, "new"}
  BY AnswerSlots, RequestFields DEF Join
<1>2. r.person \in Persons => Unclaimed(r.person)
  BY <1>1 DEF AllFresh, Fresh
<1>3. \A p \in Persons \cup {None} : entry(p) \in Membership /\ entry(p).person = p
  BY <1>1 DEF Invite, Membership
<1>4. Closing
  BY GoneCloses DEF Join
<1>5. ASSUME NEW p \in Persons \cup {None}, NEW row \in Membership, row.person = p,
             r.person = p, UNCHANGED persons, group' = group,
             members' = [members EXCEPT ![u] = row]
      PROVE  StepSound
  <2>1. /\ \A q : (Exists(q) => Exists(q)') /\ (Live(q) => Live(q)')
        /\ UsedIsLive'
    BY <1>5 DEF Exists, Live, Sound, UsedIsLive
  <2>2. p # None => Exists(p)' /\ \A v \in Users \ {u} : ~Owns(v, p)
    BY <1>2, <1>5, <2>1 DEF Unclaimed
  <2>3. row.person # None => Exists(row.person)' /\ \A v \in Users \ {u} : ~Owns(v, row.person)
    BY <1>5, <2>2
  <2> HIDE DEF r, u, entry
  <2>4. OwnedExists' /\ GroupHasMembers' /\ Evicts /\ Respects
    BY <1>1, <1>5, <2>1, <2>3, OneRow
  <2>5. OneOpenInvite' /\ InvitedExists'
    BY <1>4, <2>1, CloseKeeps
  <2>6. QED  BY <2>1, <2>4, <2>5 DEF StepSound, Sound, Disowns
<1>6. ASSUME NEW p \in Persons, NEW row \in Membership, row.person = p,
             persons[p] = None, group' = group,
             members' = [members EXCEPT ![u] = row],
             persons' = NewPerson(p, u)
      PROVE  StepSound
  <2>1. /\ \A q \in Persons : Exists(q) => Exists(q)'
        /\ \A q \in Persons : Live(q) => Live(q)'
        /\ Exists(p)' /\ \A v \in Users : ~Owns(v, p)
        /\ UsedIsLive'
    BY <1>1, <1>6, NewPersonKeeps DEF NewPerson
  <2> HIDE DEF r, u
  <2>2. OwnedExists' /\ GroupHasMembers' /\ Evicts /\ Respects
    BY <1>1, <1>6, <2>1, OneRow
  <2>3. \A i \in Invites : Open(i) => invites[i].person \in Persons \cup {None}
    BY InviteRow DEF Open, Invite
  <2>4. InvitedExists'
    BY <1>4, <2>1, <2>3 DEF Closing, Sound, InvitedExists
  <2>5. OneOpenInvite'
    BY <1>4, CloseKeeps
  <2>6. QED  BY <2>1, <2>2, <2>4, <2>5 DEF StepSound, Sound, Disowns
<1>7. QED  BY <1>1, <1>3, <1>5, <1>6 DEF Join

LEMMA SignInSound ==
  ASSUME OneAtATime, NEW s \in Slots, SignIn(s)
  PROVE  StepSound
<1> DEFINE r == slots[s]
           u == r.by
           claim == IF r.free = {} THEN {None} ELSE r.free
<1> USE DEF OneAtATime, TypeInv
<1>1. r \in Request /\ r.op = "signIn" /\ u \in Users /\ r.free \in SUBSET Persons
  BY AnswerSlots, RequestFields DEF SignIn
<1>2. \A p \in r.free : Unclaimed(p)
  BY <1>1 DEF AllFresh, Fresh
<1>3. Closing
  BY GoneCloses DEF SignIn
<1>4. /\ \A q : Exists(q)' = Exists(q) /\ Live(q)' = Live(q)
      /\ UsedIsLive' /\ group' = group
  BY DEF SignIn, Exists, Live, Sound, UsedIsLive
<1>5. OneOpenInvite' /\ InvitedExists'
  BY <1>3, <1>4, CloseKeeps
<1>6. claim \subseteq Persons \cup {None}
  BY <1>1
<1>7. ASSUME NEW p \in claim, NEW row \in Membership, row.person = p,
             members' = [members EXCEPT ![u] = row]
      PROVE  StepSound
  <2>1. p # None => /\ Exists(p)'
                    /\ \A v \in Users \ {u} : ~Owns(v, p)
    BY <1>2, <1>4, <1>6 DEF Unclaimed
  <2> HIDE DEF r, u, claim
  <2>2. OwnedExists' /\ GroupHasMembers' /\ Evicts /\ Respects
    BY <1>1, <1>4, <1>7, <2>1, OneRow
  <2>3. QED  BY <1>4, <1>5, <2>2 DEF StepSound, Sound, Disowns
<1>8. UNCHANGED members => StepSound
  BY <1>4, <1>5, QuietStep DEF SignIn
<1>9. ASSUME NEW p \in claim, IsMember(u), members' = [members EXCEPT ![u].person = p]
      PROVE  StepSound
  <2>1. [members[u] EXCEPT !.person = p] \in Membership
        /\ [members[u] EXCEPT !.person = p].person = p
    BY <1>1, <1>6, <1>9, MemberRow DEF Membership
  <2>2. members' = [members EXCEPT ![u] = [members[u] EXCEPT !.person = p]]
    BY <1>9
  <2>3. QED  BY <1>7, <2>1, <2>2
<1>10. \A p \in claim : [owner |-> FALSE, write |-> TRUE, person |-> p] \in Membership
  BY <1>6 DEF Membership
<1>11. QED  BY <1>7, <1>8, <1>9, <1>10 DEF SignIn

LEMMA ListSound ==
  ASSUME OneAtATime, NEW s \in Slots, List(s)
  PROVE  StepSound
<1> USE DEF OneAtATime, TypeInv
<1>1. PICK r \in Request : slots[s] = r /\ r.op = "list"
  BY AnswerSlots DEF List
<1>2. /\ r.by \in Users /\ r.person \in Persons /\ r.empty \in Persons \cup {None}
      /\ FreshList(r)
  BY <1>1, RequestFields DEF AllFresh, Fresh
<1>3. PICK u \in Users, p \in Persons : u = r.by /\ p = r.person
  BY <1>2
<1>4. /\ \A q \in Persons : persons'[q] = IF q = r.empty THEN [persons[q] EXCEPT !.deleted = TRUE]
                                                         ELSE persons[q]
      /\ UNCHANGED <<group, invites>>
  BY <1>1, MembershipAssumption DEF List, Duplicates
<1>5. /\ \A q \in Persons : Exists(q) => Exists(q)'
      /\ \A q \in Persons : Live(q) /\ ~Live(q)' => q = r.empty
      /\ UsedIsLive'
  <2>1. r.empty # None => /\ persons[r.empty] \in Person
                          /\ ~persons[r.empty].used
    BY <1>2, PersonRow DEF FreshList, Live
  <2>2. ASSUME NEW q \in Persons, q = r.empty
        PROVE  persons'[q] # None /\ ~persons'[q].used
    <3>1. [persons[q] EXCEPT !.deleted = TRUE] \in Person
      BY <2>1, <2>2, MembershipAssumption DEF Person
    <3>2. [persons[q] EXCEPT !.deleted = TRUE].used = persons[q].used
      BY <2>1, <2>2, MembershipAssumption DEF Person
    <3>3. QED  BY <1>4, <2>1, <2>2, <3>1, <3>2, NoneIsNoRow, MembershipAssumption
  <2>3. QED  BY <1>4, <2>2 DEF Exists, Live, Sound, UsedIsLive
<1>6. InvitedExists' /\ OneOpenInvite'
  <2>1. \A i \in Invites : Open(i) => invites[i].person \in Persons \cup {None}
    BY InviteRow DEF Open, Invite
  <2>2. QED  BY <1>4, <1>5, <2>1 DEF Sound, InvitedExists, OneOpenInvite, Open
<1>7. Commits("list")
  BY <1>1, AnswerSlots DEF List, Commits
<1>8. CASE IsMember(u) /\ members' = [members EXCEPT ![u].person = p]
  <2>1. PICK row \in Membership : row = [members[u] EXCEPT !.person = p] /\ row.person = p
    BY <1>8, MemberRow DEF Membership
  <2>2. members' = [members EXCEPT ![u] = row]
    BY <1>8, <2>1
  <2>3. Exists(row.person)' /\ \A v \in Users \ {u} : ~Owns(v, row.person)
    BY <1>2, <1>3, <1>5, <2>1 DEF FreshList, Free
  <2>4. /\ OwnedExists' /\ GroupHasMembers' /\ Evicts /\ Respects
        /\ \A v \in Users \ {u} : \A q \in Persons : Owns(v, q)' <=> Owns(v, q)
        /\ \A q \in Persons : Owns(u, q)' <=> row.person = q
    BY <1>5, <2>2, <2>3, OneRow
  <2>5. ASSUME NEW q \in Persons, Live(q), ~Live(q)'
        PROVE  \/ \A v \in Users : ~Owns(v, q)'
               \/ \E v, w \in Users : v # w /\ Owns(v, q) /\ Owns(w, q)
    <3>1. q = r.empty /\ q # p
      BY <1>2, <1>3, <1>5, <2>5, MembershipAssumption DEF FreshList
    <3>2. Owns(u, q) \/ \A v \in Users : ~Owns(v, q)
      BY <1>2, <1>3, <3>1, MembershipAssumption DEF FreshList, Free
    <3>3. QED  BY <2>1, <2>4, <3>1, <3>2
  <2>6. Disowns
    BY <1>7, <2>5 DEF Disowns
  <2>7. QED  BY <1>5, <1>6, <2>4, <2>6 DEF StepSound, Sound
<1>9. CASE ~IsMember(u) /\ members' = members
  <2>1. \A v, q : IsMember(v)' = IsMember(v) /\ Owns(v, q)' = Owns(v, q)
    BY <1>9 DEF IsMember, Owns
  <2>2. OwnedExists' /\ GroupHasMembers'
    BY <1>4, <1>5, <1>9, <2>1 DEF Sound, OwnedExists, GroupHasMembers, Members, IsMember
  <2>3. Evicts /\ Respects
    BY <1>4, <2>1, <2>2 DEF Evicts, Respects, GroupHasMembers
  <2>4. Disowns
    <3>1. ASSUME NEW q \in Persons, Live(q), ~Live(q)'  PROVE \A v \in Users : ~Owns(v, q)
      <4>1. q = r.empty
        BY <1>5, <3>1
      <4>2. QED  BY <1>2, <1>3, <1>9, <4>1, MembershipAssumption DEF FreshList, Free, Owns
    <3>2. QED  BY <2>1, <3>1 DEF Disowns
  <2>5. QED  BY <1>5, <1>6, <2>2, <2>3, <2>4 DEF StepSound, Sound
<1>10. QED  BY <1>1, <1>3, <1>8, <1>9 DEF List

\* Accounts and invites stay: one membership is written.
LEMMA RowSound ==
  ASSUME TypeOK, Sound, NEW u \in Users, NEW row \in Membership,
         members' = [members EXCEPT ![u] = row], UNCHANGED <<group, invites, persons>>,
         row.person # None => Exists(row.person),
         row.person = None \/ Owns(u, row.person) \/ Commits("own")
  PROVE  StepSound
<1>1. /\ \A q : Exists(q)' = Exists(q) /\ Live(q)' = Live(q)
      /\ UsedIsLive' /\ InvitedExists' /\ OneOpenInvite'
  BY DEF Exists, Live, Sound, UsedIsLive, InvitedExists, OneOpenInvite, Open
<1>2. OwnedExists' /\ GroupHasMembers' /\ Evicts /\ Respects
  BY <1>1, OneRow
<1>3. QED  BY <1>1, <1>2 DEF StepSound, Sound, Disowns

LEMMA OwnSound ==
  ASSUME OneAtATime, NEW s \in Slots, Own(s)
  PROVE  StepSound
<1> USE DEF OneAtATime, TypeInv
<1>1. PICK r \in Request : slots[s] = r /\ r.op = "own"
  BY AnswerSlots DEF Own
<1>2. /\ r.of \in Users /\ r.person \in Persons \cup {None}
      /\ r.person # None => Exists(r.person)
  BY <1>1, RequestFields DEF AllFresh, Fresh
<1>3. Commits("own")
  BY <1>1, AnswerSlots DEF Own, Commits
<1>4. PICK row \in Membership : row = [members[r.of] EXCEPT !.person = r.person]
                                /\ row.person = r.person
  BY <1>1, <1>2, MemberRow DEF Own, Membership
<1>5. members' = [members EXCEPT ![r.of] = row]
  BY <1>1, <1>4 DEF Own
<1>6. QED  BY <1>2, <1>3, <1>4, <1>5, RowSound DEF Own

LEMMA RightsSound ==
  ASSUME OneAtATime, NEW s \in Slots, Rights(s)
  PROVE  StepSound
<1> USE DEF OneAtATime, TypeInv
<1>1. PICK r \in Request : slots[s] = r /\ r.op = "rights"
  BY AnswerSlots DEF Rights
<1>2. r.of \in Users /\ r.write \in BOOLEAN /\ r.owner \in BOOLEAN
  BY <1>1, RequestFields
<1>3. members[r.of] \in Membership
  BY <1>1, <1>2, MemberRow DEF Rights
<1>4. PICK row \in Membership :
        /\ row = [[members[r.of] EXCEPT !.write = r.write] EXCEPT !.owner = r.owner]
        /\ row.person = members[r.of].person
  <2> DEFINE new == [[members[r.of] EXCEPT !.write = r.write] EXCEPT !.owner = r.owner]
  <2>1. new \in Membership /\ new.person = members[r.of].person
    BY <1>2, <1>3 DEF Membership
  <2>2. QED  BY <2>1
<1>5. members' = [members EXCEPT ![r.of] = row]
  BY <1>1, <1>2, <1>4 DEF Rights, TypeOK
<1>6. row.person \in Persons \cup {None}
  BY DEF Membership
<1>7. row.person # None => Owns(r.of, row.person) /\ Exists(row.person)
  BY <1>1, <1>2, <1>4, <1>6 DEF Rights, Owns, Sound, OwnedExists
<1>8. QED  BY <1>2, <1>5, <1>7, RowSound DEF Rights

\* The group ends, and with it the only membership.
LEMMA DropSound ==
  ASSUME OneAtATime, NEW s \in Slots, DropGroup,
         slots[s] # Idle, slots'[s] = Idle, slots[s].op \in {"leave", "deleteGroup"},
         Members = {slots[s].by}
  PROVE  StepSound
<1> USE DEF OneAtATime, TypeInv
<1>1. ~group'.exists
  BY DEF DropGroup, TypeOK
<1>2. \A v \in Users : ~IsMember(v)' /\ \A q : ~Owns(v, q)'
  BY DEF DropGroup, IsMember, Owns
<1>3. \A i \in Invites : ~Open(i)'
  BY GoneCloses DEF DropGroup
<1>4. \A q \in Persons : ~Exists(q)'
  BY DEF DropGroup, Exists
<1>5. Sound'
  BY <1>1, <1>2, <1>3, <1>4
     DEF Sound, OwnedExists, InvitedExists, GroupHasMembers, OneOpenInvite, UsedIsLive
<1>6. \A u \in Users : IsMember(u) => Acts(u)
  BY DEF Members, Acts
<1>7. Evicts /\ Respects /\ Disowns
  BY <1>1, <1>2, <1>6 DEF Evicts, Respects, Disowns
<1>8. QED  BY <1>5, <1>7 DEF StepSound

LEMMA DeleteGroupSound ==
  ASSUME OneAtATime, NEW s \in Slots, DeleteGroup(s)
  PROVE  StepSound
<1>1. slots[s] \in Request /\ slots[s].op = "deleteGroup" /\ slots[s] # Idle /\ slots'[s] = Idle
  BY AnswerSlots, NotIdle DEF DeleteGroup, OneAtATime, TypeInv
<1>2. Members = {slots[s].by}
  BY <1>1 DEF OneAtATime, AllFresh, Fresh
<1>3. QED  BY <1>1, <1>2, DropSound DEF DeleteGroup

LEMMA LeaveSound ==
  ASSUME OneAtATime, NEW s \in Slots, Leave(s)
  PROVE  StepSound
<1> USE DEF OneAtATime, TypeInv
<1>1. PICK r \in Request : slots[s] = r /\ r.op = "leave"
  BY AnswerSlots DEF Leave
<1>2. /\ r.by \in Users /\ slots[s] # Idle /\ slots'[s] = Idle
      /\ IF r.last THEN Members = {r.by} ELSE Members \ {r.by} # {}
  BY <1>1, AnswerSlots, RequestFields, NotIdle DEF Leave, AllFresh, Fresh
<1>3. CASE r.last /\ DropGroup
  BY <1>1, <1>2, <1>3, DropSound
<1>4. CASE /\ ~r.last
           /\ members' = [members EXCEPT ![r.by] = None]
           /\ UNCHANGED <<group, invites, persons>>
  <2>1. \A v \in Users : members'[v] = IF v = r.by THEN None ELSE members[v]
    BY <1>4 DEF TypeOK
  <2>2. Acts(r.by)
    BY <1>1, <1>2 DEF Acts
  <2>3. Members' # {}
    BY <1>2, <1>4, <2>1 DEF Members, IsMember
  <2>4. Evicts
    BY <2>1, <2>2, <2>3 DEF Evicts, IsMember
  <2>5. \A v \in Users, q \in Persons : Owns(v, q)' => Owns(v, q)
    BY <2>1 DEF Owns, IsMember
  <2>6. /\ \A q : Exists(q)' = Exists(q) /\ Live(q)' = Live(q)
        /\ UsedIsLive' /\ InvitedExists' /\ OneOpenInvite'
    BY <1>4 DEF Exists, Live, Sound, UsedIsLive, InvitedExists, OneOpenInvite, Open
  <2>7. OwnedExists' /\ GroupHasMembers' /\ Respects /\ Disowns
    BY <2>3, <2>5, <2>6 DEF Sound, OwnedExists, GroupHasMembers, Respects, Disowns
  <2>8. QED  BY <2>4, <2>6, <2>7 DEF StepSound, Sound
<1>5. QED  BY <1>1, <1>3, <1>4 DEF Leave

LEMMA CreatePersonSound ==
  ASSUME OneAtATime, NEW s \in Slots, CreatePerson(s)
  PROVE  StepSound
<1> USE DEF OneAtATime, TypeInv
<1>1. PICK r \in Request : slots[s] = r /\ r.op = "create"
  BY AnswerSlots DEF CreatePerson
<1>2. r.by \in Users /\ r.name \in Users \cup {None}
  BY <1>1, RequestFields
<1>3. PICK p \in Persons :
        /\ persons[p] = None
        /\ persons' = [persons EXCEPT ![p] = [name |-> r.name, deleted |-> FALSE, used |-> FALSE]]
        /\ \/ UNCHANGED members
           \/ IsMember(r.by) /\ members' = [members EXCEPT ![r.by].person = p]
  BY <1>1 DEF CreatePerson
<1>4. /\ \A q \in Persons : Exists(q) => Exists(q)'
      /\ \A q \in Persons : Live(q) => Live(q)'
      /\ Exists(p)' /\ \A v \in Users : ~Owns(v, p)
      /\ UsedIsLive'
  BY <1>2, <1>3, NewPersonKeeps
<1>5. OneOpenInvite' /\ InvitedExists'
  <2>1. \A i \in Invites : Open(i) => invites[i].person \in Persons \cup {None}
    BY InviteRow DEF Open, Invite
  <2>2. QED  BY <1>4, <2>1 DEF CreatePerson, Sound, InvitedExists, OneOpenInvite, Open
<1>6. CASE UNCHANGED members
  <2>1. \A v, q : IsMember(v)' = IsMember(v) /\ Owns(v, q)' = Owns(v, q)
    BY <1>6 DEF IsMember, Owns
  <2>2. OwnedExists' /\ GroupHasMembers'
    BY <1>4, <1>6, <2>1 DEF CreatePerson, Sound, OwnedExists, GroupHasMembers, Members, IsMember
  <2>3. Evicts /\ Respects /\ Disowns
    BY <1>4, <2>1, <2>2 DEF Evicts, Respects, Disowns, GroupHasMembers
  <2>4. QED  BY <1>4, <1>5, <2>2, <2>3 DEF StepSound, Sound
<1>7. CASE IsMember(r.by) /\ members' = [members EXCEPT ![r.by].person = p]
  <2>1. PICK row \in Membership : row = [members[r.by] EXCEPT !.person = p] /\ row.person = p
    BY <1>2, <1>7, MemberRow DEF Membership
  <2>2. members' = [members EXCEPT ![r.by] = row]
    BY <1>7, <2>1
  <2>3. Exists(row.person)' /\ \A v \in Users \ {r.by} : ~Owns(v, row.person)
    BY <1>4, <2>1
  <2>4. OwnedExists' /\ GroupHasMembers' /\ Evicts /\ Respects
    BY <1>2, <1>4, <2>2, <2>3, OneRow
  <2>5. QED  BY <1>4, <1>5, <2>4 DEF StepSound, Sound, Disowns
<1>8. QED  BY <1>3, <1>6, <1>7

\* An account is written and stays live, and no membership changes.
LEMMA PersonSound ==
  ASSUME TypeOK, Sound, NEW p \in Persons, NEW row \in Person, ~row.deleted,
         persons' = [persons EXCEPT ![p] = row], UNCHANGED <<group, members, invites>>
  PROVE  StepSound
<1>1. row # None /\ persons'[p] = row /\ \A q \in Persons \ {p} : persons'[q] = persons[q]
  BY NoneIsNoRow DEF TypeOK
<1>2. /\ \A q \in Persons : Exists(q) => Exists(q)'
      /\ \A q \in Persons : Live(q) => Live(q)'
      /\ UsedIsLive'
  BY <1>1 DEF Exists, Live, Sound, UsedIsLive
<1>3. OneOpenInvite' /\ InvitedExists'
  <2>1. \A i \in Invites : Open(i) => invites[i].person \in Persons \cup {None}
    BY InviteRow DEF Open, Invite
  <2>2. QED  BY <1>2, <2>1 DEF Sound, InvitedExists, OneOpenInvite, Open
<1>4. \A v, q : IsMember(v)' = IsMember(v) /\ Owns(v, q)' = Owns(v, q)
  BY DEF IsMember, Owns
<1>5. OwnedExists' /\ GroupHasMembers'
  BY <1>2, <1>4 DEF Sound, OwnedExists, GroupHasMembers, Members, IsMember
<1>6. Evicts /\ Respects /\ Disowns
  BY <1>2, <1>4, <1>5 DEF Evicts, Respects, Disowns, GroupHasMembers
<1>7. QED  BY <1>2, <1>3, <1>5, <1>6 DEF StepSound, Sound

LEMMA UpdatePersonSound ==
  ASSUME OneAtATime, NEW s \in Slots, UpdatePerson(s)
  PROVE  StepSound
<1> USE DEF OneAtATime, TypeInv
<1>1. PICK r \in Request : slots[s] = r /\ r.op = "update"
  BY AnswerSlots DEF UpdatePerson
<1>2. r.person \in Persons /\ persons[r.person] \in Person /\ r.name \in Users \cup {None}
  BY <1>1, LockedPerson, RequestFields DEF UpdatePerson
<1>3. PICK row \in Person : /\ row = [persons[r.person] EXCEPT !.name = r.name, !.deleted = FALSE]
                            /\ ~row.deleted
  <2> DEFINE new == [persons[r.person] EXCEPT !.name = r.name, !.deleted = FALSE]
  <2>1. new \in Person /\ ~new.deleted
    BY <1>2 DEF Person
  <2>2. QED  BY <2>1
<1>4. persons' = [persons EXCEPT ![r.person] = row]
  BY <1>1, <1>2, <1>3 DEF UpdatePerson, TypeOK
<1>5. QED  BY <1>2, <1>3, <1>4, PersonSound DEF UpdatePerson

LEMMA UsePersonSound ==
  ASSUME OneAtATime, NEW s \in Slots, UsePerson(s)
  PROVE  StepSound
<1> USE DEF OneAtATime, TypeInv
<1>1. PICK r \in Request : slots[s] = r /\ r.op = "use"
  BY AnswerSlots DEF UsePerson
<1>2. /\ r.person \in Persons /\ persons[r.person] \in Person /\ r.used \in BOOLEAN
      /\ Live(r.person)
  BY <1>1, LockedPerson, RequestFields DEF UsePerson, AllFresh, Fresh
<1>3. PICK row \in Person : row = [persons[r.person] EXCEPT !.used = r.used] /\ ~row.deleted
  <2> DEFINE new == [persons[r.person] EXCEPT !.used = r.used]
  <2>1. new \in Person /\ ~new.deleted
    BY <1>2 DEF Person, Live
  <2>2. QED  BY <2>1
<1>4. persons' = [persons EXCEPT ![r.person] = row]
  BY <1>1, <1>2, <1>3 DEF UsePerson, TypeOK
<1>5. QED  BY <1>2, <1>3, <1>4, PersonSound DEF UsePerson

LEMMA DeletePersonSound ==
  ASSUME OneAtATime, NEW s \in Slots, DeletePerson(s)
  PROVE  StepSound
<1> USE DEF OneAtATime, TypeInv
<1>1. PICK r \in Request : slots[s] = r /\ r.op = "delete"
  BY AnswerSlots DEF DeletePerson
<1>2. /\ r.person \in Persons /\ persons[r.person] \in Person
      /\ FreshDelete(r)
  BY <1>1, LockedPerson, RequestFields DEF DeletePerson, AllFresh, Fresh
<1>3. PICK p \in Persons : p = r.person
  BY <1>2
<1>4. \A v \in Users : members'[v] = IF Owns(v, p) THEN [members[v] EXCEPT !.person = None]
                                                   ELSE members[v]
  BY <1>1, <1>2, <1>3 DEF DeletePerson, FreshDelete
<1>5. \A v \in Users : Owns(v, p) => /\ [members[v] EXCEPT !.person = None] \in Membership
                                     /\ [members[v] EXCEPT !.person = None].person = None
  BY MemberRow DEF Owns, Membership
<1>6. \A v \in Users : /\ IsMember(v)' <=> IsMember(v)
                       /\ \A q \in Persons : Owns(v, q)' <=> Owns(v, q) /\ q # p
  BY <1>4, <1>5, NoneIsNoRow, MembershipAssumption DEF IsMember, Owns
<1>7. PICK row \in Person : row = [persons[p] EXCEPT !.deleted = TRUE] /\ ~row.used
  <2> DEFINE new == [persons[p] EXCEPT !.deleted = TRUE]
  <2>1. new \in Person /\ ~new.used
    BY <1>2, <1>3 DEF Person, FreshDelete
  <2>2. QED  BY <2>1
<1>8. /\ row # None /\ persons'[p] = row
      /\ \A q \in Persons \ {p} : persons'[q] = persons[q]
  BY <1>1, <1>3, <1>7, NoneIsNoRow DEF DeletePerson, TypeOK
<1>9. /\ \A q \in Persons : Exists(q) => Exists(q)'
      /\ \A q \in Persons \ {p} : Live(q) => Live(q)'
      /\ UsedIsLive'
  BY <1>7, <1>8 DEF Exists, Live, Sound, UsedIsLive
<1>10. OneOpenInvite' /\ InvitedExists'
  <2>1. \A i \in Invites : Open(i) => invites[i].person \in Persons \cup {None}
    BY InviteRow DEF Open, Invite
  <2>2. QED  BY <1>9, <2>1 DEF DeletePerson, Sound, InvitedExists, OneOpenInvite, Open
<1>11. OwnedExists'
  BY <1>6, <1>9 DEF Sound, OwnedExists
<1>12. Members' = Members
  BY <1>6 DEF Members
<1>13. GroupHasMembers' /\ Evicts /\ Respects /\ Disowns
  BY <1>6, <1>9, <1>12 DEF DeletePerson, Sound, GroupHasMembers, Evicts, Respects, Disowns
<1>14. QED  BY <1>9, <1>10, <1>11, <1>13 DEF StepSound, Sound

LEMMA CommitSound ==
  ASSUME OneAtATime, NEW s \in Slots, Commit(s)
  PROVE  StepSound
<1>1. ASSUME Abort(s)  PROVE StepSound
  <2>1. OneOpenInvite' /\ InvitedExists'
    BY <1>1 DEF Abort, OneAtATime, Sound, OneOpenInvite, InvitedExists, Open, Exists
  <2>2. QED  BY <1>1, <2>1, QuietStep DEF Abort, OneAtATime
<1>2. QED
  BY <1>1, SaveInviteSound, JoinSound, SignInSound, ListSound, OwnSound, RightsSound,
     DeleteGroupSound, LeaveSound, CreatePersonSound, UpdatePersonSound, DeletePersonSound,
     UsePersonSound DEF Commit

(***************************************************************************)
(* The step of a system in which one request runs at a time.               *)
(***************************************************************************)
LEMMA OneAtATimeStep ==
  ASSUME OneRequest, OneAtATime, Next
  PROVE  OneAtATime' /\ StepSound
<1>1. TypeInv'
  BY TypeInvStep DEF OneAtATime
<1>2. ASSUME NEW s \in Slots, Begin(s)  PROVE AllFresh' /\ StepSound
  <2>1. PICK r \in Request : Ask(s, r)
    BY <1>2, BeginAsks DEF OneAtATime, TypeInv
  <2>2. Fresh(r) /\ slots'[s] = r /\ \A t \in Slots \ {s} : slots'[t] = slots[t]
    BY <1>2, <2>1, BeginFresh, AskedRecord DEF OneAtATime, TypeInv, Sound
  <2>3. UNCHANGED <<group, members, invites, persons>>
    BY <2>1 DEF Ask
  <2>4. Closing
    BY <2>3 DEF Closing, Open
  <2>5. Fresh(r)'
    BY <2>2, <2>3, <2>4, StillFresh
  <2>6. AllFresh'
    BY <2>2, <2>5 DEF AllFresh, OneRequest
  <2>7. OneOpenInvite' /\ InvitedExists'
    BY <2>3 DEF OneAtATime, Sound, OneOpenInvite, InvitedExists, Open, Exists
  <2>8. QED  BY <2>3, <2>6, <2>7, QuietStep DEF OneAtATime
<1>3. ASSUME NEW s \in Slots, Commit(s)  PROVE AllFresh' /\ StepSound
  <2>1. \A t \in Slots : slots'[t] = Idle
    BY <1>3, CommitSlots DEF OneAtATime, TypeInv, OneRequest
  <2>2. AllFresh'
    BY <2>1, NotIdle DEF AllFresh
  <2>3. QED  BY <1>3, <2>2, CommitSound
<1>4. QED  BY <1>1, <1>2, <1>3, StatementSound, NextSteps DEF OneAtATime, StepSound

LEMMA OneAtATimeInit == Init => OneAtATime
<1> SUFFICES ASSUME Init PROVE OneAtATime
  OBVIOUS
<1>1. PICK onJoin \in BOOLEAN, p \in Persons \cup {None} :
       /\ members = [u \in Users |->
                       IF u = Founder THEN [owner |-> TRUE, write |-> TRUE, person |-> p]
                                      ELSE None]
       /\ persons = [q \in Persons |->
                       IF q = p THEN [name |-> Founder, deleted |-> FALSE, used |-> FALSE]
                                ELSE None]
  BY DEF Init
<1>2. [owner |-> TRUE, write |-> TRUE, person |-> p] \in Membership
  BY DEF Membership
<1>3. [name |-> Founder, deleted |-> FALSE, used |-> FALSE] \in Person
  BY MembershipAssumption DEF Person
<1>4. OwnedExists
  BY <1>1, <1>3, NoneIsNoRow DEF OwnedExists, Owns, IsMember, Exists
<1>5. Founder \in Members
  BY <1>1, <1>2, NoneIsNoRow, MembershipAssumption DEF Members, IsMember
<1>6. UsedIsLive
  BY <1>1 DEF UsedIsLive, Exists
<1>7. AllFresh /\ InvitedExists /\ OneOpenInvite
  BY NotIdle DEF Init, AllFresh, InvitedExists, OneOpenInvite, Open
<1>8. QED  BY <1>4, <1>5, <1>6, <1>7, TypeInit DEF OneAtATime, Sound, GroupHasMembers

LEMMA OneAtATimeAlways == OneRequest => (Spec => []OneAtATime /\ [][StepSound]_vars)
<1> SUFFICES ASSUME OneRequest PROVE Spec => []OneAtATime /\ [][StepSound]_vars
  OBVIOUS
<1>1. OneAtATime /\ [Next]_vars => OneAtATime' /\ [StepSound]_vars
  <2>1. OneAtATime /\ Next => OneAtATime' /\ StepSound
    BY OneAtATimeStep
  <2>2. OneAtATime /\ UNCHANGED vars => OneAtATime'
    <3> SUFFICES ASSUME OneAtATime, UNCHANGED vars PROVE OneAtATime'
      OBVIOUS
    <3>1. TypeInv'
      BY TypeInvStep DEF OneAtATime
    <3>2. Closing /\ UNCHANGED <<group, members, invites, persons, slots>>
      BY DEF vars, Closing, Open
    <3>3. AllFresh'
      BY <3>2, StillFresh DEF OneAtATime, AllFresh
    <3>4. OneOpenInvite' /\ InvitedExists'
      BY <3>2 DEF OneAtATime, Sound, OneOpenInvite, InvitedExists, Open, Exists
    <3>5. QED  BY <3>1, <3>2, <3>3, <3>4, QuietStep DEF OneAtATime, StepSound
  <2>3. QED  BY <2>1, <2>2
<1>2. QED  BY <1>1, OneAtATimeInit, PTL DEF Spec

(***************************************************************************)
(* Where requests do not overlap there is at most one open invite for each *)
(* username and each address: invite_user refuses a second one, and        *)
(* invite_by_email deletes the one before.                                 *)
(***************************************************************************)
THEOREM OneInviteEach ==
  ASSUME OneRequest
  PROVE  Spec => []OneOpenInvite
<1>1. OneAtATime => OneOpenInvite
  BY DEF OneAtATime, Sound
<1>2. QED  BY OneAtATimeAlways, <1>1, PTL

(***************************************************************************)
(* Where requests do not overlap, an account that an expense names is not  *)
(* deleted, neither by delete_account nor as the empty duplicate that      *)
(* _adopt_placeholder_accounts leaves behind.                              *)
(***************************************************************************)
THEOREM UsedAccountsStay ==
  ASSUME OneRequest
  PROVE  Spec => []UsedIsLive
<1>1. OneAtATime => UsedIsLive
  BY DEF OneAtATime, Sound
<1>2. QED  BY OneAtATimeAlways, <1>1, PTL

(***************************************************************************)
(* Where requests do not overlap, only leave_group and delete_group by the *)
(* member themself end a membership, and a group that stays has a member.  *)
(***************************************************************************)
THEOREM MembersLeaveThemselves ==
  ASSUME OneRequest
  PROVE  Spec => NobodyEvicted
<1>1. StepSound => /\ \A u \in Users : IsMember(u) /\ ~IsMember(u)' => Acts(u)
                   /\ group'.exists => Members' # {}
  BY DEF StepSound, Evicts
<1>2. Spec => [][/\ \A u \in Users : IsMember(u) /\ ~IsMember(u)' => Acts(u)
                 /\ group'.exists => Members' # {}]_vars
  BY OneAtATimeAlways, <1>1, PTL
<1>3. QED  BY <1>2 DEF NobodyEvicted

(***************************************************************************)
(* Where requests do not overlap, joining, signing in, adding an account   *)
(* and listing the groups take over no account that somebody has claimed.  *)
(***************************************************************************)
THEOREM ClaimsAreRespected ==
  ASSUME OneRequest
  PROVE  Spec => ClaimRespected
<1>1. StepSound =>
        \A u \in Users, p \in Persons :
          Owns(u, p)' /\ ~Owns(u, p) /\ ~Commits("own") => \A v \in Users \ {u} : ~Owns(v, p)
  BY DEF StepSound, Respects
<1>2. Spec =>
        [][\A u \in Users, p \in Persons :
             Owns(u, p)' /\ ~Owns(u, p) /\ ~Commits("own")
               => \A v \in Users \ {u} : ~Owns(v, p)]_vars
  BY OneAtATimeAlways, <1>1, PTL
<1>3. QED  BY <1>2 DEF ClaimRespected

(***************************************************************************)
(* Where requests do not overlap, an account that is deleted is nobody's   *)
(* afterwards, except the duplicate that several members own.              *)
(***************************************************************************)
THEOREM DeletedIsNobodys ==
  ASSUME OneRequest
  PROVE  Spec => DeletionDisowns
<1>1. StepSound =>
        \A p \in Persons : Live(p) /\ ~Live(p)' =>
          \/ \A u \in Users : ~Owns(u, p)'
          \/ Commits("list") /\ \E u, v \in Users : u # v /\ Owns(u, p) /\ Owns(v, p)
  BY DEF StepSound, Disowns
<1>2. Spec =>
        [][\A p \in Persons : Live(p) /\ ~Live(p)' =>
             \/ \A u \in Users : ~Owns(u, p)'
             \/ Commits("list") /\ \E u, v \in Users : u # v /\ Owns(u, p) /\ Owns(v, p)]_vars
  BY OneAtATimeAlways, <1>1, PTL
<1>3. QED  BY <1>2 DEF DeletionDisowns
=============================================================================
