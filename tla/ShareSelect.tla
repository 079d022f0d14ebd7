---------------------------- MODULE ShareSelect ----------------------------
(***************************************************************************)
(* The split of an expense on its page in the React app: the draft in the  *)
(* store, and the split mode the table of shares shows, which the table    *)
(* keeps for itself.  Requests for a conversion rate are answered late,    *)
(* with the expense as the page knew it when it asked; a save is one step, *)
(* Drafts has its two.                                                     *)
(***************************************************************************)
EXTENDS StoredSplit

CONSTANT
  Typed       \* what is typed as a share, in the mode that is shown; 1 is Unit
ASSUME TypedAssumption == \A mode \in Modes : Typed[mode] \subseteq Int

VARIABLES
  draft,      \* wipTransactions.byId[id], or NoDraft
  shown,      \* frontendSplitMode, or "closed"
  asked,      \* the expense a rate was asked for with, or NoDraft
  astray      \* history: the mode was changed by something else than its menu

selectVars == <<draft, shown, asked, astray>>
NoDraft == [id |-> "none", type |-> "none", mode |-> "none", value |-> 0, shares |-> Nobody,
            positions |-> FALSE, touched |-> FALSE]
\* An expense of the server as the store has it.
FromServer(e) ==
  [id |-> "stored", type |-> e.type, mode |-> e.mode, value |-> e.value, shares |-> e.shares,
   positions |-> e.positions, touched |-> FALSE]
Open == shown # "closed"
Displayed == IF draft # NoDraft THEN draft ELSE FromServer(stored)

SelectInit == draft = NoDraft /\ shown = "closed" /\ asked = NoDraft /\ astray = FALSE

\* computeTransactionBalanceEffect throws otherwise, and takes the reducer that
\* calls it along.
Computable(e) == ~(e.mode = "absolute" /\ e.positions)

AllOnes(s) == \A p \in Holders(s) : s.num[p] = s.den
\* The effect of ShareSelect, run when mode or shares are new.
Settled(mode, e) == IF e.mode = "shares" /\ AllOnes(e.shares) THEN "evenly" ELSE mode

\* createTransaction, and the page it leads to.
CreateDraft(type) ==
  /\ ~Open /\ ~Exists /\ draft = NoDraft
  /\ draft' = [NoDraft EXCEPT !.id = "local", !.type = type, !.mode = "shares"]
  /\ shown' = Settled("shares", draft')
  /\ astray' = FALSE
  /\ UNCHANGED <<stored, asked>>

\* The page of an expense that was fetched, or of a draft.
OpenPage ==
  /\ ~Open /\ (Exists \/ draft # NoDraft)
  /\ Computable(stored)
  /\ shown' = Settled(Displayed.mode, Displayed)
  /\ astray' = FALSE
  /\ UNCHANGED <<stored, draft, asked>>
LeavePage ==
  /\ Open
  /\ shown' = "closed" /\ astray' = FALSE
  /\ UNCHANGED <<stored, draft, asked>>

edit ==
  /\ Open /\ draft = NoDraft
  /\ draft' = FromServer(stored)
  /\ UNCHANGED <<stored, shown, asked, astray>>

\* wipTransactionUpdated: what was pushed, its shares converted from the mode
\* the draft has to the one that is wanted.
Updated(new, mode) ==
  LET base == IF draft = NoDraft THEN stored.mode ELSE draft.mode
  IN  [new EXCEPT !.mode = IF mode = "evenly" THEN "shares" ELSE mode,
                  !.shares = AfterModeChange(base, mode, new.shares, new.value)]
Push(new, mode) ==
  /\ draft' = IF Computable(Updated(new, mode)) THEN Updated(new, mode) ELSE draft
  /\ UNCHANGED <<stored, asked>>

\* Slip: the table does not note the mode.
SlipChooseMode(mode) ==
  /\ Open /\ draft # NoDraft /\ draft.type = "purchase" /\ mode # shown
  /\ Push(draft, mode)
  /\ shown' = IF draft' = draft THEN shown ELSE Settled(shown, draft')
  /\ astray' = ~Computable(Updated(draft, mode))
\* handleSplitModeChange: the table changes its mode whatever becomes of the
\* draft.
ChooseMode(mode) ==
  /\ Open /\ draft # NoDraft /\ draft.type = "purchase" /\ mode # shown
  /\ Push(draft, mode)
  /\ shown' = IF draft' = draft THEN mode ELSE Settled(mode, draft')
  /\ astray' = ~Computable(Updated(draft, mode))

SetShares(s) ==
  /\ Push([draft EXCEPT !.shares = s], draft.mode)
  /\ shown' = Settled(shown, draft')
  /\ UNCHANGED astray

\* The number of the row, handed up by the row in the unit of the shown mode
\* and stored in that of the draft's; 0 removes it.
SetShare(p, n, d) ==
  /\ Open /\ draft # NoDraft /\ draft.type = "purchase"
  /\ SetShares(IF n = 0 THEN Without(draft.shares, p)
               ELSE With(draft.shares, p, n * (IF draft.mode = "absolute" THEN Unit ELSE 1),
                         d * (IF shown = "percent" THEN 100 ELSE 1)))

TypeShare(p) ==
  /\ shown \in Modes
  /\ \E x \in Typed[shown] : SetShare(p, x, Unit)
handleToggleShare(p) ==
  /\ shown = "evenly"
  /\ SetShare(p, IF p \in Holders(draft.shares) /\ draft.shares.num[p] > 0 THEN 0 ELSE 1, 1)

\* A field that is left hands up what it displays: amounts in whole cents.
VisitShare(p) ==
  /\ shown = "absolute" /\ draft # NoDraft /\ p \in Holders(draft.shares)
  /\ LET den == draft.shares.den * (IF draft.mode = "absolute" THEN Unit ELSE 1)
         cents == (200 * Magnitude(draft.shares.num[p]) + den) \div (2 * den)
     IN  SetShare(p, IF draft.shares.num[p] < 0 THEN -cents ELSE cents, 100)

handleSelectAll ==
  /\ Open /\ draft # NoDraft /\ draft.type = "purchase"
  /\ LET one == IF draft.mode = "absolute" THEN Unit ELSE 1
     IN  SetShares(IF Cardinality({p \in Holders(draft.shares) : draft.shares.num[p] > 0})
                        = Cardinality(People)
                     THEN Nobody ELSE Whole([p \in People |-> one]))

\* "Transferred to" of a transfer.
PickDebitor(p) ==
  /\ Open /\ draft # NoDraft /\ draft.type = "transfer"
  /\ SetShares(Whole([q \in {p} |-> IF draft.mode = "absolute" THEN Unit ELSE 1]))

SetValue(v) ==
  /\ Open /\ draft # NoDraft
  /\ Push([draft EXCEPT !.value = v], draft.mode)
  /\ UNCHANGED <<shown, astray>>

\* A position is added, unless the balances cannot be worked out with it.
AddPosition ==
  /\ Open /\ draft # NoDraft /\ draft.type = "purchase" /\ Computable([draft EXCEPT !.positions = TRUE])
  /\ draft' = [draft EXCEPT !.positions = TRUE, !.touched = TRUE]
  /\ UNCHANGED <<stored, shown, asked, astray>>

AskRate ==
  /\ Open /\ draft # NoDraft /\ asked = NoDraft
  /\ asked' = draft
  /\ UNCHANGED <<stored, draft, shown, astray>>
\* The answer pushes the whole expense as it was when it was asked for, mode
\* and shares included.  One that was not stored then is another expense now.
RateAnswered ==
  /\ asked # NoDraft
  /\ asked' = NoDraft
  /\ draft' = IF (Exists => asked.id = "stored") /\ Computable(Updated(asked, asked.mode))
                THEN Updated(asked, asked.mode) ELSE draft
  /\ shown' = IF Open /\ draft' # draft THEN Settled(shown, draft') ELSE shown
  /\ astray' = (Open /\ (astray \/ draft' # draft))
  /\ UNCHANGED stored

\* Slip: a share map that does not add up goes through.
SlipWellFormed(d, edge) == Holders(d.shares) # {}
WellFormed(d, edge) == Holders(d.shares) # {} /\ AddsUp(d.mode, d.shares, d.value, edge)

\* save, when TransactionValidator and the server let it through.
saveDraft ==
  /\ Open /\ draft # NoDraft
  /\ WellFormed(draft, TRUE) /\ Accepted(draft, draft.touched, TRUE)
  /\ stored' = [type |-> draft.type, mode |-> draft.mode, value |-> draft.value,
                shares |-> draft.shares, positions |-> draft.positions]
  /\ draft' = NoDraft
  /\ shown' = Settled(shown, draft)
  /\ UNCHANGED <<asked, astray>>

\* abortEdit: the page stays, unless there is nothing left to show on it.
abortEdit ==
  /\ Open /\ draft # NoDraft
  /\ draft' = NoDraft
  /\ LET same == draft.mode = stored.mode /\ draft.shares = stored.shares
     IN  IF Exists
           THEN /\ shown' = IF same THEN shown ELSE Settled(shown, FromServer(stored))
                /\ astray' = (astray \/ ~same)
           ELSE shown' = "closed" /\ astray' = FALSE
  /\ UNCHANGED <<stored, asked>>

SelectEdit ==
  \/ \E p \in People : TypeShare(p) \/ handleToggleShare(p) \/ VisitShare(p) \/ PickDebitor(p)
  \/ \E mode \in Modes \cup {"evenly"} : ChooseMode(mode)
  \/ handleSelectAll
  \/ \E v \in Values : SetValue(v)
  \/ AddPosition \/ AskRate
=============================================================================
