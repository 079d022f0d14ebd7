-------------------------- MODULE TransactionSlice --------------------------
(***************************************************************************)
(* The reducers of the redux slice of transactions, for one group, as      *)
(* functions from a state of the slice to the next one.  saved holds what  *)
(* the server answered (transactions), wip the drafts (wipTransactions);   *)
(* local ids count down from -1.  A status "absent" says that the group    *)
(* has no subtree: getGroupScopedState throws, and the state stays.        *)
(*                                                                         *)
(* Of the data only what tells one version of it from another is kept: the *)
(* number of the edit a field, a position or a file was last given.        *)
(***************************************************************************)
EXTENDS Entities

Blank == 0   \* the content of a position row nothing was typed into

initialState ==
  [saved |-> NoEntities, wip |-> NoEntities, status |-> "absent",
   nextId |-> -1, nextPosition |-> -1, nextFile |-> -1]

HasGroup(s) == s.status # "absent"
initializeGroupState(s) == IF HasGroup(s) THEN s ELSE [s EXCEPT !.status = "loading"]
setStatus(s, status) == [initializeGroupState(s) EXCEPT !.status = status]
leaveGroupFulfilled(s) ==
  [initialState EXCEPT !.nextId = s.nextId, !.nextPosition = s.nextPosition, !.nextFile = s.nextFile]

-----------------------------------------------------------------------------
(* What comes from the server: positions and files numbered per transaction *)

backendTransactionToTransaction(t) ==
  [fields |-> t.fields, deleted |-> t.deleted, ver |-> t.ver, is_wip |-> FALSE,
   positions |->
     [byId |-> [p \in DOMAIN t.positions |->
        [what |-> t.positions[p].what, deleted |-> t.positions[p].deleted,
         is_changed |-> FALSE, only_local |-> FALSE]],
      ids |-> [p \in DOMAIN t.positions |-> p]],
   files |->
     [byId |-> [f \in DOMAIN t.files |->
        [what |-> t.files[f].what, deleted |-> t.files[f].deleted, type |-> "backend"]],
      ids |-> [f \in DOMAIN t.files |-> f]]]

fetchPending(s) == initializeGroupState(s)
SlipRejected(s) == s
SlipForgets(s) == IF HasGroup(s) THEN [s EXCEPT !.status = "failed", !.saved = NoEntities] ELSE s
fetchRejected(s) == IF HasGroup(s) THEN [s EXCEPT !.status = "failed"] ELSE s
SlipFetch(s, list) ==
  IF ~HasGroup(s) THEN s
  ELSE [s EXCEPT !.status = "initialized", !.wip = NoEntities,
                 !.saved = [byId |-> [t \in DOMAIN list |-> backendTransactionToTransaction(list[t])],
                            ids |-> [t \in DOMAIN list |-> t]]]
fetchFulfilled(s, list) ==
  IF ~HasGroup(s) THEN s
  ELSE [s EXCEPT !.status = "initialized",
                 !.saved = [byId |-> [t \in DOMAIN list |-> backendTransactionToTransaction(list[t])],
                            ids |-> [t \in DOMAIN list |-> t]]]

SlipSaved(s, old, id, t) ==
  IF ~HasGroup(s) THEN s
  ELSE [s EXCEPT !.saved = addEntity(@, id, backendTransactionToTransaction(t)),
                 !.wip = removeEntity(@, id)]
saveFulfilled(s, old, id, t) ==
  IF ~HasGroup(s) THEN s
  ELSE [s EXCEPT !.saved = addEntity(@, id, backendTransactionToTransaction(t)),
                 !.wip = removeEntity(@, old)]

\* The server is not asked about a draft it does not know: deleteLocal.
deleteFulfilled(s, id, t) ==
  IF ~HasGroup(s) THEN s
  ELSE [s EXCEPT !.saved = addEntity(@, id, backendTransactionToTransaction(t)),
                 !.wip = removeEntity(@, id)]
deleteLocal(s, id) == IF HasGroup(s) THEN [s EXCEPT !.wip = removeEntity(@, id)] ELSE s
discardChange(s, id) == IF HasGroup(s) THEN [s EXCEPT !.wip = removeEntity(@, id)] ELSE s

-----------------------------------------------------------------------------
(* Drafts                                                                   *)

NewTransaction(fields) ==
  [fields |-> fields, deleted |-> FALSE, ver |-> 0, is_wip |-> TRUE,
   positions |-> NoEntities, files |-> NoEntities]

\* createTransaction takes the next local id and adds the draft under it.
createFulfilled(s, fields) ==
  IF ~HasGroup(s) THEN [s EXCEPT !.nextId = @ - 1]
  ELSE [s EXCEPT !.nextId = @ - 1, !.wip = addEntity(@, s.nextId, NewTransaction(fields))]

moveTransactionToWip(s, id) ==
  IF id \in Known(s.wip) THEN s
  ELSE [s EXCEPT !.wip = [Put(s.wip, id, [s.saved.byId[id] EXCEPT !.is_wip = TRUE])
                          EXCEPT !.ids = Append(@, id)]]
editStarted(s, id) ==
  IF ~HasGroup(s) \/ id \in Known(s.wip) THEN s ELSE moveTransactionToWip(s, id)

\* The payload is the whole transaction of the page that dispatches, with the
\* change.  Of an id without a draft the id is listed here and again by
\* moveTransactionToWip, whose copy the payload covers, known or not.
wipUpdated(s, id, t) ==
  IF ~HasGroup(s) THEN s
  ELSE LET again == IF id \in Known(s.wip) THEN <<>> ELSE <<id, id>>
       IN  [s EXCEPT !.wip = [Put(s.wip, id, [t EXCEPT !.is_wip = TRUE])
                              EXCEPT !.ids = @ \o again]]

\* The draft of s with other positions, or other files.
WithPositions(s, id, ps) == [s EXCEPT !.wip = Put(@, id, [@.byId[id] EXCEPT !.positions = ps])]
WithFiles(s, id, fs) == [s EXCEPT !.wip = Put(@, id, [@.byId[id] EXCEPT !.files = fs])]

wipPositionAdded(s, id, what) ==
  LET m == moveTransactionToWip(s, id)
      row == [what |-> what, deleted |-> FALSE, is_changed |-> TRUE, only_local |-> TRUE]
  IN  WithPositions([m EXCEPT !.nextPosition = @ - 1], id,
                    addEntity(m.wip.byId[id].positions, s.nextPosition, row))

\* A position that is not there yet is the empty row below the list, which
\* carries the next local id; as long as nothing is typed it stays one.
wipPositionUpdated(s, id, p, what) ==
  LET m == moveTransactionToWip(s, id)
      ps == m.wip.byId[id].positions
      empty == p = s.nextPosition
      row == IF p \in Known(ps) THEN [ps.byId[p] EXCEPT !.what = what, !.is_changed = TRUE]
             ELSE [what |-> what, deleted |-> FALSE, is_changed |-> TRUE, only_local |-> TRUE]
  IN  IF empty /\ what = Blank THEN m
      ELSE WithPositions([m EXCEPT !.nextPosition = IF empty THEN @ - 1 ELSE @], id,
                         addEntity(ps, p, row))

positionDeleted(s, id, p) ==
  LET m == moveTransactionToWip(s, id)
      ps == m.wip.byId[id].positions
  IN  IF p \notin Known(ps) THEN m
      ELSE WithPositions(m, id,
              IF ps.byId[p].only_local THEN removeEntity(ps, p)
              ELSE Put(ps, p, [ps.byId[p] EXCEPT !.deleted = TRUE, !.is_changed = TRUE]))

wipFileAdded(s, id, what) ==
  LET m == moveTransactionToWip(s, id)
  IN  WithFiles([m EXCEPT !.nextFile = @ - 1], id,
                addEntity(m.wip.byId[id].files, s.nextFile,
                          [what |-> what, deleted |-> FALSE, type |-> "new"]))

wipFileDeleted(s, id, f) ==
  LET m == moveTransactionToWip(s, id)
      fs == m.wip.byId[id].files
  IN  IF f \notin Known(fs) THEN m
      ELSE WithFiles(m, id,
              IF fs.byId[f].type = "new" THEN removeEntity(fs, f)
              ELSE Put(fs, f, [fs.byId[f] EXCEPT !.type = "updated", !.deleted = TRUE]))

-----------------------------------------------------------------------------
(* Selectors, and what a save sends                                         *)

selectTransactionById(s, id) == Over(s.wip, s.saved, id)
selectTransactionsWithWip(s) ==
  {id \in Known(s.wip) \cup Known(s.saved) : ~selectTransactionById(s, id).deleted}
selectPositions(t) == {p \in Known(t.positions) : ~t.positions.byId[p].deleted}
selectFiles(t) == {f \in Known(t.files) : ~t.files.byId[f].deleted}

\* The body of the request: rows that are new, and rows that are changed.
saveBody(t) ==
  LET ps == t.positions  fs == t.files
      new == {p \in Known(ps) : ps.byId[p].is_changed /\ ps.byId[p].only_local}
      added == {f \in Known(fs) : fs.byId[f].type = "new"}
  IN  [fields |-> t.fields,
       new_positions |-> Among(ps.ids, new),
       changed_positions |-> {p \in Known(ps) : ps.byId[p].is_changed /\ ~ps.byId[p].only_local},
       new_files |-> Among(fs.ids, added),
       changed_files |-> {f \in Known(fs) : fs.byId[f].type = "updated"},
       positions |-> ps.byId, files |-> fs.byId]
=============================================================================
