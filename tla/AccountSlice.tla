---------------------------- MODULE AccountSlice ----------------------------
(***************************************************************************)
(* The reducers of the redux slice of accounts, for one group.  It is the  *)
(* slice of transactions without positions and files, with a draft that    *)
(* can be copied, and with a moveAccountToWip that fails for an account it *)
(* does not know.                                                          *)
(***************************************************************************)
EXTENDS Entities

initialState == [saved |-> NoEntities, wip |-> NoEntities, status |-> "absent", nextId |-> -1]

HasGroup(s) == s.status # "absent"
initializeGroupState(s) == IF HasGroup(s) THEN s ELSE [s EXCEPT !.status = "loading"]
setStatus(s, status) == [initializeGroupState(s) EXCEPT !.status = status]
leaveGroupFulfilled(s) == [initialState EXCEPT !.nextId = s.nextId]

FromServer(a) == [fields |-> a.fields, deleted |-> a.deleted, ver |-> a.ver, is_wip |-> FALSE]

fetchPending(s) == initializeGroupState(s)
fetchRejected(s) == IF HasGroup(s) THEN [s EXCEPT !.status = "failed"] ELSE s
fetchFulfilled(s, list) ==
  IF ~HasGroup(s) THEN s
  ELSE [s EXCEPT !.status = "initialized",
                 !.saved = [byId |-> [a \in DOMAIN list |-> FromServer(list[a])],
                            ids |-> [a \in DOMAIN list |-> a]]]

saveFulfilled(s, old, id, a) ==
  IF ~HasGroup(s) THEN s
  ELSE [s EXCEPT !.saved = addEntity(@, id, FromServer(a)), !.wip = removeEntity(@, old)]
deleteFulfilled(s, id, a) ==
  IF ~HasGroup(s) THEN s
  ELSE [s EXCEPT !.saved = addEntity(@, id, FromServer(a)), !.wip = removeEntity(@, id)]
deleteLocal(s, id) == IF HasGroup(s) THEN [s EXCEPT !.wip = removeEntity(@, id)] ELSE s
discardChange(s, id) == IF HasGroup(s) THEN [s EXCEPT !.wip = removeEntity(@, id)] ELSE s

NewAccount(fields) == [fields |-> fields, deleted |-> FALSE, ver |-> 0, is_wip |-> TRUE]

\* createAccount takes the next local id and adds the draft under it.
createFulfilled(s, fields) ==
  IF ~HasGroup(s) THEN [s EXCEPT !.nextId = @ - 1]
  ELSE [s EXCEPT !.nextId = @ - 1, !.wip = addEntity(@, s.nextId, NewAccount(fields))]

selectAccountById(s, id) == Over(s.wip, s.saved, id)
selectGroupAccounts(s) == {id \in Known(s.wip) \cup Known(s.saved) : ~selectAccountById(s, id).deleted}

\* The copy differs from its source in the name.
copyAccount(s, id, fields) ==
  [s EXCEPT !.nextId = @ - 1,
            !.wip = addEntity(@, s.nextId,
                              [selectAccountById(s, id) EXCEPT !.fields = fields, !.is_wip = TRUE])]

moveAccountToWip(s, id) ==
  IF id \in Known(s.wip) THEN s
  ELSE [s EXCEPT !.wip = [Put(s.wip, id, [s.saved.byId[id] EXCEPT !.is_wip = TRUE])
                          EXCEPT !.ids = Append(@, id)]]
editStarted(s, id) ==
  IF ~HasGroup(s) \/ id \in Known(s.wip) \/ id \notin Known(s.saved) THEN s
  ELSE moveAccountToWip(s, id)

\* As in the other slice, an id without a draft would be listed twice.
wipUpdated(s, id, a) ==
  IF ~HasGroup(s) THEN s
  ELSE LET again == IF id \in Known(s.wip) THEN <<>> ELSE <<id, id>>
       IN  [s EXCEPT !.wip = [Put(s.wip, id, a) EXCEPT !.ids = @ \o again]]
=============================================================================
