----------------------------- MODULE Membership -----------------------------
(***************************************************************************)
(* One group: who is a member with which rights, who is invited, and which *)
(* person (personal account) of the group each member says they are.       *)
(*                                                                         *)
(* A request is one database transaction.  Most of them read first and     *)
(* write later, and take no lock in between: reading is one step here      *)
(* (BeginX, which stores in the slot what was read) and writing with the   *)
(* commit another (X), with the steps of other requests between them.  At  *)
(* the write the database itself still refuses a row of a group that is    *)
(* gone (foreign key) or a second membership of a user (primary key); an   *)
(* update or a delete of a row that is gone does nothing.                  *)
(***************************************************************************)
EXTENDS Naturals, FiniteSets

CONSTANTS
  Users,     \* everybody who can sign in
  Founder,   \* the user who creates the group
  Invites,   \* ids of invites, each used for one invite only (a bound)
  Persons,   \* ids of personal accounts, each used for one account only (a bound)
  None,      \* no row, or null
  Slots,     \* the requests that run at the same time
  Offered    \* the operations the clients call

ASSUME MembershipAssumption ==
  /\ Founder \in Users
  /\ IsFiniteSet(Users) /\ IsFiniteSet(Slots)
  /\ None \notin Users \cup Persons \cup {"new"}
  /\ "new" \notin Persons

VARIABLES
  group,     \* the row of grp: exists, personOnJoin (add_user_account_on_join)
  members,   \* group_membership, None where there is no row
  invites,   \* group_invite, None where there is no row yet
  persons,   \* the personal accounts as the views show them, or None
  slots,     \* the request of each slot, or Idle
  admitted   \* history: the users who joined with each single-use invite

vars == <<group, members, invites, persons, slots, admitted>>

Membership == [owner : BOOLEAN, write : BOOLEAN, person : Persons \cup {None}]

\* kind: a link for everybody who has it, or an invite for one username or
\* for one email address.
\* status: open, past valid_until, or deleted (what it was is history then).
Invite == [kind : {"link", "named", "email"}, to : Users \cup {None},
           status : {"open", "expired", "deleted"},
           single : BOOLEAN, editor : BOOLEAN, person : Persons \cup {None}]

\* name: the user whose login name the account bears, or None.  used: an
\* expense, a position or an event that is not deleted names it.
Person == [name : Users \cup {None}, deleted : BOOLEAN, used : BOOLEAN]

Idle == [op |-> "idle"]

ASSUME NoneIsNoRow == None \notin Membership \cup Invite \cup Person

IsMember(u) == members[u] # None
Members == {u \in Users : IsMember(u)}
CanWrite(u) == IsMember(u) /\ (members[u].owner \/ members[u].write)
IsOwner(u) == IsMember(u) /\ members[u].owner

Stored(i) == invites[i] # None /\ invites[i].status # "deleted"
Open(i) == invites[i] # None /\ invites[i].status = "open"
Exists(p) == persons[p] # None
Live(p) == Exists(p) /\ ~persons[p].deleted
Owns(u, p) == IsMember(u) /\ members[u].person = p
\* Nobody owns it.  (SlipX is X with a plausible slip: the definitions named so
\* are not part of the model.)
SlipClaimed(p) == Live(p)
Free(p) == Live(p) /\ \A u \in Users : ~Owns(u, p)
NamedLike(u) == {p \in Persons : Live(p) /\ persons[p].name = u}

-----------------------------------------------------------------------------
\* create_group: the founder owns the group and, where members get an account
\* on joining, the account created for them.
Init ==
  /\ \E onJoin \in BOOLEAN, p \in Persons \cup {None} :
       /\ onJoin <=> p # None
       /\ group = [exists |-> TRUE, personOnJoin |-> onJoin]
       /\ members = [u \in Users |->
                       IF u = Founder THEN [owner |-> TRUE, write |-> TRUE, person |-> p]
                                      ELSE None]
       /\ persons = [q \in Persons |->
                       IF q = p THEN [name |-> Founder, deleted |-> FALSE, used |-> FALSE]
                                ELSE None]
  /\ invites = [i \in Invites |-> None]
  /\ slots = [s \in Slots |-> Idle]
  /\ admitted = [i \in Invites |-> {}]

\* A request has passed its checks and read what it needs.
Ask(s, r) ==
  /\ slots[s] = Idle
  /\ r.op \in Offered
  /\ group.exists
  /\ slots' = [slots EXCEPT ![s] = r]
  /\ UNCHANGED <<group, members, invites, persons, admitted>>

\* Its slot is free again once it is committed.
Answer(s, op) ==
  /\ slots[s].op = op
  /\ slots' = [slots EXCEPT ![s] = Idle]

\* Whatever fails: the transaction is rolled back.
Abort(s) ==
  /\ slots[s] # Idle
  /\ slots' = [slots EXCEPT ![s] = Idle]
  /\ UNCHANGED <<group, members, invites, persons, admitted>>

(***************************************************************************)
(* Invites.                                                                *)
(***************************************************************************)
\* An invite to an address replaces the one before.  (Slip: it is added.)
Gone(ids) ==
  [i \in Invites |-> IF i \in ids /\ Stored(i) THEN [invites[i] EXCEPT !.status = "deleted"]
                                              ELSE invites[i]]
SlipBoth(inv) == {}
Replaced(inv) ==
  {i \in Invites : Stored(i) /\ {inv.kind, invites[i].kind} = {"email"} /\ invites[i].to = inv.to}

\* create_invite, invite_user, invite_by_email
BeginInvite(s, u) ==
  /\ CanWrite(u)
  /\ \E inv \in Invite :
       /\ inv.status = "open" /\ inv.kind \in Offered
       /\ \/ inv.kind = "link" /\ inv.to = None /\ inv.person = None
          \/ /\ inv.kind = "named" /\ inv.to # None /\ inv.person = None
             /\ inv.single /\ inv.editor
             /\ ~IsMember(inv.to)
             /\ \A i \in Invites :
                  Open(i) /\ invites[i].kind = "named" => invites[i].to # inv.to
          \/ /\ inv.kind = "email" /\ inv.to # None
             /\ inv.single /\ inv.editor
             /\ inv.person # None => Free(inv.person)
             /\ ~IsMember(inv.to)
       /\ Ask(s, [op |-> "invite", by |-> u, invite |-> inv, ids |-> Replaced(inv)])

SaveInvite(s) ==
  /\ Answer(s, "invite")
  /\ group.exists
  /\ \E new \in Invites :
       /\ invites[new] = None
       /\ invites' = [Gone(slots[s].ids) EXCEPT ![new] = slots[s].invite]
  /\ UNCHANGED <<group, members, persons, admitted>>

\* decline_invite and delete_invite: one statement each.
Withdraw(i, u) ==
  /\ "invite" \in Offered
  /\ Stored(i)
  /\ CanWrite(u) \/ (invites[i].kind = "named" /\ invites[i].to = u)
  /\ invites' = Gone({i})
  /\ UNCHANGED <<group, members, persons, slots, admitted>>

\* valid_until passes.  An invite by username never expires.
Expire(i) ==
  /\ Open(i) /\ invites[i].kind # "named"
  /\ invites' = [invites EXCEPT ![i].status = "expired"]
  /\ UNCHANGED <<group, members, persons, slots, admitted>>

(***************************************************************************)
(* Joining.                                                                *)
(***************************************************************************)
\* An invite by username is that user's alone; a link, and the token of an
\* invite by email, works for everybody who has it.
Admits(i, u) ==
  /\ Open(i)
  /\ invites[i].kind = "named" => invites[i].to = u

\* The one free account of the user's name, or a new one.
PersonForNewcomer(u) ==
  LET adoptable == {p \in NamedLike(u) : Free(p)}
  IN  CASE ~group.personOnJoin         -> None
        [] Cardinality(adoptable) = 1  -> CHOOSE p \in adoptable : TRUE
        [] OTHER                       -> "new"

BeginJoin(s, u) ==
  /\ ~IsMember(u)
  /\ \E i \in Invites :
       /\ Admits(i, u)
       /\ Ask(s, [op |-> "join", by |-> u, id |-> i, invite |-> invites[i],
                  person |-> PersonForNewcomer(u)])

\* A single-use invite is deleted when it has been used.  (Slip: it is kept.)
SlipKept(r) == {}
Spent(r) == IF r.invite.single THEN {r.id} ELSE {}

NewPerson(p, u) == [persons EXCEPT ![p] = [name |-> u, deleted |-> FALSE, used |-> FALSE]]

Join(s) ==
  LET r == slots[s]
      u == r.by
      entry(p) == [owner |-> FALSE, write |-> r.invite.editor, person |-> p]
  IN  /\ Answer(s, "join")
      /\ group.exists
      /\ ~IsMember(u)
      /\ \/ /\ r.person # "new"
            /\ members' = [members EXCEPT ![u] = entry(r.person)]
            /\ UNCHANGED persons
         \/ /\ r.person = "new"
            /\ \E p \in Persons : /\ persons[p] = None
                                  /\ members' = [members EXCEPT ![u] = entry(p)]
                                  /\ persons' = NewPerson(p, u)
      /\ invites' = Gone(Spent(r))
      /\ admitted' = [admitted EXCEPT ![r.id] = IF r.invite.single THEN @ \cup {u} ELSE @]
      /\ UNCHANGED group

\* accept_email_invites, at every sign-in: the invites to the user's address,
\* and the accounts they name that nobody has claimed.
BeginSignIn(s, u) ==
  LET mine == {i \in Invites : Open(i) /\ invites[i].kind = "email" /\ invites[i].to = u}
      named == {invites[i].person : i \in mine} \ {None}
  IN  /\ mine # {}
      /\ Ask(s, [op |-> "signIn", by |-> u, ids |-> mine, member |-> IsMember(u),
                 free |-> {p \in named : \A v \in Users : ~Owns(v, p)},
                 claims |-> ~IsMember(u) \/ members[u].person = None])

\* They are answered in any order: the first one makes the user a member, and
\* the first one with a free account says who they are.  An insert fails when
\* the user has become a member meanwhile; an update overwrites.
SignIn(s) ==
  LET r == slots[s]
      u == r.by
      claim == IF r.free = {} THEN {None} ELSE r.free
  IN  /\ Answer(s, "signIn")
      /\ group.exists
      /\ \/ /\ ~r.member /\ ~IsMember(u)
            /\ \E p \in claim :
                 members' = [members EXCEPT ![u] =
                               [owner |-> FALSE, write |-> TRUE, person |-> p]]
            /\ admitted' = [i \in Invites |-> IF i \in r.ids THEN admitted[i] \cup {u}
                                                             ELSE admitted[i]]
         \/ /\ r.member /\ IsMember(u) /\ r.claims
            /\ \E p \in claim :
                 members' = IF p = None THEN members
                                        ELSE [members EXCEPT ![u].person = p]
            /\ UNCHANGED admitted
         \/ /\ r.member /\ ~(IsMember(u) /\ r.claims)
            /\ UNCHANGED <<members, admitted>>
      /\ invites' = Gone(r.ids)
      /\ UNCHANGED <<group, persons>>

(***************************************************************************)
(* Who is who: list_groups links the one free account of the user's name   *)
(* (_link_obvious_accounts), and then moves the membership from an empty   *)
(* account to the one account of the same name that the group uses         *)
(* (_adopt_placeholder_accounts) and deletes the empty one.                *)
(***************************************************************************)
LinkedPerson(u) ==
  LET obvious == {p \in NamedLike(u) : Free(p)}
  IN  IF members[u].person = None /\ Cardinality(obvious) = 1
        THEN CHOOSE p \in obvious : TRUE
        ELSE members[u].person

Placeholders(own) ==
  {p \in Persons : /\ p # own /\ Free(p) /\ persons[p].used
                   /\ persons[p].name = persons[own].name}

BeginList(s, u) ==
  LET own == LinkedPerson(u)
      adopts == /\ own # None
                /\ Live(own) /\ ~persons[own].used
                /\ persons[own].name # None
                /\ Cardinality(Placeholders(own)) = 1
      target == IF adopts THEN CHOOSE p \in Placeholders(own) : TRUE ELSE own
  IN  /\ IsMember(u)
      /\ target # members[u].person
      /\ Ask(s, [op |-> "list", by |-> u, person |-> target,
                 empty |-> IF adopts THEN own ELSE None,
                 linked |-> members[u].person = None])

\* The empty duplicate is deleted.  (Slip: the account moved to is.)
SlipWrongOne(r) == {r.person}
Duplicates(r) == {r.empty} \ {None}

\* A link locks the membership, so nobody has changed it since.
List(s) ==
  LET r == slots[s]
      u == r.by
  IN  /\ Answer(s, "list")
      /\ group.exists
      /\ r.linked => IsMember(u) /\ members[u].person = None
      /\ members' = IF IsMember(u) THEN [members EXCEPT ![u].person = r.person] ELSE members
      /\ persons' = [p \in Persons |-> IF p \in Duplicates(r)
                                         THEN [persons[p] EXCEPT !.deleted = TRUE]
                                         ELSE persons[p]]
      /\ UNCHANGED <<group, invites, admitted>>

\* update_member_owned_account: any account of the group, claimed or not.
BeginOwn(s, u) ==
  \E m \in Users, p \in Persons \cup {None} :
    /\ IsMember(u) /\ (u = m \/ IsOwner(u))
    /\ IsMember(m) /\ members[m].person # p
    /\ p # None => Exists(p)
    /\ Ask(s, [op |-> "own", by |-> u, of |-> m, person |-> p])

Own(s) ==
  LET r == slots[s]
  IN  /\ Answer(s, "own")
      /\ IsMember(r.of)
      /\ members' = [members EXCEPT ![r.of].person = r.person]
      /\ UNCHANGED <<group, invites, persons, admitted>>

(***************************************************************************)
(* Rights, and the end of a membership or of the group.                    *)
(***************************************************************************)
\* Not possible to be an owner without can_write.
SlipUnset(write, owner) == IF owner THEN TRUE ELSE None
WriteFor(write, owner) == write \/ owner

\* update_member_permissions: no owner is demoted.
MayChange(u, m, write, owner) ==
  /\ CanWrite(u) /\ u # m
  /\ IsMember(m) /\ ~members[m].owner
  /\ <<members[m].owner, members[m].write>> # <<owner, write>>
  /\ owner => IsOwner(u)

BeginRights(s, u) ==
  \E m \in Users, write, owner \in BOOLEAN :
    LET w == WriteFor(write, owner)
    IN  /\ MayChange(u, m, w, owner)
        /\ Ask(s, [op |-> "rights", by |-> u, of |-> m, write |-> w, owner |-> owner])

Rights(s) ==
  LET r == slots[s]
  IN  /\ Answer(s, "rights")
      /\ group.exists
      /\ IsMember(r.of)
      /\ members' = [members EXCEPT ![r.of].write = r.write, ![r.of].owner = r.owner]
      /\ UNCHANGED <<group, invites, persons, admitted>>

\* The requests of accounts and expenses hold the lock of the group's row from
\* the start, so one of them runs at a time and the group is not deleted.
Locking == {"create", "update", "delete", "use"}
Locked == \E s \in Slots : slots[s].op \in Locking

\* Deleting the group cascades to everything in it.
DropGroup ==
  /\ ~Locked
  /\ group' = [group EXCEPT !.exists = FALSE]
  /\ members' = [u \in Users |-> None]
  /\ invites' = Gone(Invites)
  /\ persons' = [p \in Persons |-> None]
  /\ UNCHANGED admitted

\* The number of members is counted first.  (Slip: it is not.)
SlipAlways == TRUE
Last == Cardinality(Members) = 1

BeginDeleteGroup(s, u) ==
  /\ IsOwner(u)
  /\ Last
  /\ Ask(s, [op |-> "deleteGroup", by |-> u])

DeleteGroup(s) == Answer(s, "deleteGroup") /\ DropGroup

\* leave_group: the last member takes the group with them.
BeginLeave(s, u) ==
  /\ IsMember(u)
  /\ Ask(s, [op |-> "leave", by |-> u, last |-> Last])

Leave(s) ==
  /\ Answer(s, "leave")
  /\ \/ slots[s].last /\ DropGroup
     \/ /\ ~slots[s].last
        /\ members' = [members EXCEPT ![slots[s].by] = None]
        /\ UNCHANGED <<group, invites, persons, admitted>>

\* update_group, under the lock.
UpdateGroup(u) ==
  /\ "group" \in Offered
  /\ IsOwner(u) /\ ~Locked
  /\ group' = [group EXCEPT !.personOnJoin = ~@]
  /\ UNCHANGED <<members, invites, persons, slots, admitted>>

(***************************************************************************)
(* The accounts, as far as memberships depend on them.  Each of these      *)
(* holds the lock of the group.  (How the views show revisions that were   *)
(* overtaken while they waited for the lock is the subject of Ledger.)     *)
(***************************************************************************)
\* The memberships that delete_account takes the account from.  (Slip: only the
\* one of the member who deletes it.)
SlipMine(u, p) == {v \in {u} : Owns(v, p)}
Owners(u, p) == {v \in Users : Owns(v, p)}

AskLocked(s, u, r) == CanWrite(u) /\ ~Locked /\ Ask(s, r)

BeginAccounts(s, u) ==
  \/ \E n \in Users \cup {None} : AskLocked(s, u, [op |-> "create", by |-> u, name |-> n])
  \/ \E p \in Persons :
       \/ /\ Exists(p)
          /\ \E n \in Users \cup {None} :
               AskLocked(s, u, [op |-> "update", by |-> u, person |-> p, name |-> n])
       \/ /\ Live(p) /\ ~persons[p].used
          /\ AskLocked(s, u, [op |-> "delete", by |-> u, person |-> p, owners |-> Owners(u, p)])
       \/ /\ Live(p)
          /\ \E b \in BOOLEAN :
               /\ b # persons[p].used
               /\ AskLocked(s, u, [op |-> "use", by |-> u, person |-> p, used |-> b])

\* Whoever adds a person of their own name claims it, unless they own one.
CreatePerson(s) ==
  LET r == slots[s]
      u == r.by
      claims == r.name = u /\ IsMember(u) /\ members[u].person = None
  IN  /\ Answer(s, "create")
      /\ \E p \in Persons :
           /\ persons[p] = None
           /\ persons' = [persons EXCEPT ![p] =
                            [name |-> r.name, deleted |-> FALSE, used |-> FALSE]]
           /\ members' = IF claims THEN [members EXCEPT ![u].person = p] ELSE members
      /\ UNCHANGED <<group, invites, admitted>>

UpdatePerson(s) ==
  LET r == slots[s]
  IN  /\ Answer(s, "update")
      /\ persons' = [persons EXCEPT ![r.person] = [@ EXCEPT !.name = r.name, !.deleted = FALSE]]
      /\ UNCHANGED <<group, members, invites, admitted>>

DeletePerson(s) ==
  LET r == slots[s]
  IN  /\ Answer(s, "delete")
      /\ members' = [u \in Users |-> IF u \in r.owners /\ Owns(u, r.person)
                                       THEN [members[u] EXCEPT !.person = None]
                                       ELSE members[u]]
      /\ persons' = [persons EXCEPT ![r.person].deleted = TRUE]
      /\ UNCHANGED <<group, invites, admitted>>

\* An expense that names the account is created, or the last one is deleted.
UsePerson(s) ==
  LET r == slots[s]
  IN  /\ Answer(s, "use")
      /\ persons' = [persons EXCEPT ![r.person].used = r.used]
      /\ UNCHANGED <<group, members, invites, admitted>>

Begin(s) ==
  \E u \in Users :
    \/ BeginInvite(s, u) \/ BeginJoin(s, u) \/ BeginSignIn(s, u) \/ BeginList(s, u)
    \/ BeginOwn(s, u) \/ BeginRights(s, u) \/ BeginDeleteGroup(s, u) \/ BeginLeave(s, u)
    \/ BeginAccounts(s, u)

Next ==
  \/ \E s \in Slots :
       \/ Begin(s)
       \/ SaveInvite(s) \/ Join(s) \/ SignIn(s) \/ List(s) \/ Own(s) \/ Rights(s)
       \/ DeleteGroup(s) \/ Leave(s)
       \/ CreatePerson(s) \/ UpdatePerson(s) \/ DeletePerson(s) \/ UsePerson(s)
       \/ Abort(s)
  \/ \E i \in Invites : Expire(i) \/ \E u \in Users : Withdraw(i, u)
  \/ \E u \in Users : UpdateGroup(u)

Spec == Init /\ [][Next]_vars

-----------------------------------------------------------------------------
Request ==
  [op : {"invite"}, by : Users, invite : Invite, ids : SUBSET Invites]
  \cup [op : {"join"}, by : Users, id : Invites, invite : Invite,
        person : Persons \cup {None, "new"}]
  \cup [op : {"signIn"}, by : Users, ids : SUBSET Invites, member : BOOLEAN,
        free : SUBSET Persons, claims : BOOLEAN]
  \cup [op : {"list"}, by : Users, person : Persons, empty : Persons \cup {None},
        linked : BOOLEAN]
  \cup [op : {"own"}, by : Users, of : Users, person : Persons \cup {None}]
  \cup [op : {"rights"}, by : Users, of : Users, write : BOOLEAN, owner : BOOLEAN]
  \cup [op : {"deleteGroup"}, by : Users]
  \cup [op : {"leave"}, by : Users, last : BOOLEAN]
  \cup [op : {"create"}, by : Users, name : Users \cup {None}]
  \cup [op : {"update"}, by : Users, person : Persons, name : Users \cup {None}]
  \cup [op : {"delete"}, by : Users, person : Persons, owners : SUBSET Users]
  \cup [op : {"use"}, by : Users, person : Persons, used : BOOLEAN]

TypeOK ==
  /\ group \in [exists : BOOLEAN, personOnJoin : BOOLEAN]
  /\ members \in [Users -> Membership \cup {None}]
  /\ invites \in [Invites -> Invite \cup {None}]
  /\ persons \in [Persons -> Person \cup {None}]
  /\ slots \in [Slots -> Request \cup {Idle}]
  /\ admitted \in [Invites -> SUBSET Users]

(***************************************************************************)
(* A single-use invite lets in one user for every request that runs at the *)
(* time of the first one, and nobody after: where requests do not overlap  *)
(* it is used once.                                                        *)
(***************************************************************************)
SingleUse(i) == invites[i] # None /\ invites[i].single
ReuseNeedsOverlap ==
  \A i \in Invites : SingleUse(i) => Cardinality(admitted[i]) <= Cardinality(Slots)

(***************************************************************************)
(* A membership ends only because the member leaves or, as the only member *)
(* left, deletes the group; and a group that stays has a member: the last  *)
(* one to leave takes it along.                                            *)
(***************************************************************************)
Acts(u) == \E s \in Slots : /\ slots[s] # Idle /\ slots[s].by = u /\ slots'[s] = Idle
                            /\ slots[s].op \in {"leave", "deleteGroup"}
NobodyEvicted ==
  [][/\ \A u \in Users : IsMember(u) /\ ~IsMember(u)' => Acts(u)
     /\ group'.exists => Members' # {}]_vars

(***************************************************************************)
(* At most one open invite for each username and each address.             *)
(***************************************************************************)
OneOpenInvite ==
  \A i, j \in Invites :
    i # j /\ Open(i) /\ Open(j) /\ invites[i].kind = invites[j].kind /\ invites[i].kind # "link"
      => invites[i].to # invites[j].to

(***************************************************************************)
(* An account that an expense, a position or an event names is not         *)
(* deleted: not by delete_account, and not as an empty duplicate.          *)
(***************************************************************************)
UsedIsLive == \A p \in Persons : Exists(p) /\ persons[p].used => ~persons[p].deleted

(***************************************************************************)
(* Nobody is made the owner of an account that somebody else has claimed,  *)
(* by joining, by signing in, by adding an account or by opening the list  *)
(* of groups: only by saying so (update_member_owned_account).             *)
(***************************************************************************)
Commits(op) == \E s \in Slots : slots[s].op = op /\ slots'[s] = Idle
ClaimRespected ==
  [][\A u \in Users, p \in Persons :
       Owns(u, p)' /\ ~Owns(u, p) /\ ~Commits("own") => \A v \in Users \ {u} : ~Owns(v, p)]_vars

(***************************************************************************)
(* Where requests do not overlap, an account that is deleted is nobody's   *)
(* afterwards, also when several members owned it.  One exception: an      *)
(* empty duplicate that several members own is taken from one of them only *)
(* before it goes (groups.py:430, unlike accounts.py:352).                 *)
(***************************************************************************)
DeletionDisowns ==
  [][\A p \in Persons : Live(p) /\ ~Live(p)' =>
       \/ \A u \in Users : ~Owns(u, p)'
       \/ Commits("list") /\ \E u, v \in Users : u # v /\ Owns(u, p) /\ Owns(v, p)]_vars
=============================================================================
