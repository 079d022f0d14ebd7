------------------------------ MODULE Entities ------------------------------
(***************************************************************************)
(* The shape in which the web app's redux slices keep what has an id: the  *)
(* entities by id, and the ids in the order in which they are listed.      *)
(***************************************************************************)
EXTENDS Integers, Sequences

NoEntities == [byId |-> <<>>, ids |-> <<>>]

Known(es) == DOMAIN es.byId

\* byId[id] = entity, of an id that may be new.
Put(es, id, entity) ==
  [es EXCEPT !.byId = [i \in Known(es) \cup {id} |-> IF i = id THEN entity ELSE es.byId[i]]]

SlipAdd(es, id, entity) == [Put(es, id, entity) EXCEPT !.ids = Append(@, id)]
addEntity(es, id, entity) ==
  LET listed == IF id \in Known(es) THEN es.ids ELSE Append(es.ids, id)
  IN  [Put(es, id, entity) EXCEPT !.ids = listed]

\* The ids that are chosen, in the order in which they are listed.
Among(ids, chosen) ==
  LET upTo[i \in 0..Len(ids)] ==
        IF i = 0 THEN <<>>
        ELSE IF ids[i] \in chosen THEN Append(upTo[i - 1], ids[i]) ELSE upTo[i - 1]
  IN  upTo[Len(ids)]

removeEntity(es, id) ==
  IF id \notin Known(es) THEN es
  ELSE LET others == {es.ids[i] : i \in DOMAIN es.ids} \ {id}
       IN  [byId |-> [i \in Known(es) \ {id} |-> es.byId[i]], ids |-> Among(es.ids, others)]

\* What is shown of two such collections, of which the first goes before.
Over(first, second, id) == IF id \in Known(first) THEN first.byId[id] ELSE second.byId[id]

ListedOnce(es) ==
  /\ \A i, j \in DOMAIN es.ids : es.ids[i] = es.ids[j] => i = j
  /\ {es.ids[i] : i \in DOMAIN es.ids} = Known(es)
=============================================================================
