------------------------------- MODULE Splits -------------------------------
(***************************************************************************)
(* How an expense is split, set by either web app and taken or refused by  *)
(* the database.  The apps are used in turn: neither shows the expense     *)
(* while the other does.                                                   *)
(***************************************************************************)
EXTENDS SplitForm, ShareSelect

CONSTANT MaxEdits    \* bound: inputs, over both apps
ASSUME MaxEditsAssumption == MaxEdits \in Nat

VARIABLES
  edits,     \* how many
  savedBy    \* history: the app that saved what is stored
vars == <<stored, formVars, selectVars, edits, savedBy>>

Init == stored = NoExpense /\ FormInit /\ SelectInit /\ edits = 0 /\ savedBy = "none"

Input == edits < MaxEdits /\ edits' = edits + 1
FormNext ==
  /\ \/ OpenEditor /\ ~Open /\ UNCHANGED edits
     \/ FormEdit /\ Input
     \/ (saveForm \/ CloseForm) /\ UNCHANGED edits
     \/ ~Open /\ draft = NoDraft /\ (\E p \in People, v \in Values : settle(p, v)) /\ UNCHANGED edits
  /\ savedBy' = IF stored' = stored THEN savedBy ELSE "form"
  /\ UNCHANGED selectVars
SelectNext ==
  /\ form = NoForm
  /\ \/ (\E type \in {"purchase", "transfer"} : CreateDraft(type)) /\ UNCHANGED edits
     \/ (OpenPage \/ LeavePage \/ edit \/ RateAnswered \/ saveDraft \/ abortEdit) /\ UNCHANGED edits
     \/ SelectEdit /\ Input
  /\ savedBy' = IF stored' = stored THEN savedBy ELSE "select"
  /\ UNCHANGED formVars

Next == FormNext \/ SelectNext
Spec == Init /\ [][Next]_vars

-----------------------------------------------------------------------------
\* What a split misses its total by, and the tolerance of the Angular frontend,
\* a cent or a hundredth of a percent.
Exact(e) == e.mode # "shares" => Off(e.mode, e.shares, e.value, 1) = 0
NearlyExact(e) ==
  e.mode # "shares" =>
    Off(e.mode, e.shares, e.value, 1) * (IF e.mode = "percent" THEN 10000 ELSE 1)
      <= e.shares.den * (IF e.mode = "percent" THEN 1 ELSE Cent)
\* The tolerance of the React app, a thousandth of a cent or of a percent.
FinelyExact(e) ==
  e.mode # "shares" =>
    Off(e.mode, e.shares, e.value, 1) * (IF e.mode = "percent" THEN 100000 ELSE 500) <= e.shares.den
WholeCents(v) == v % Cent = 0
Positive(e) == \A p \in Holders(e.shares) : e.shares.num[p] > 0
OneDebitor(e) == e.type = "transfer" => Cardinality(Holders(e.shares)) = 1

\* What the editor of the Angular frontend has found valid is refused by the
\* database for three reasons only: a share that is not positive, a settle-up
\* with several people, and a split that misses its total by less than the
\* form cares for.
RefusedOnlyByGaps ==
  refused => \/ ~Positive(Payload) \/ ~OneDebitor(Payload)
             \/ ~Exact(Payload) /\ NearlyExact(Payload)

\* Shares that respread or splitEvenly worked out add up exactly, to the value
\* or to all of it, whatever the value and whoever takes part, as the comments
\* of split.ts say; unless the value is not in whole cents.
SpreadAddsUp ==
  spread /\ Holders(form.shares) # {} /\ WholeCents(form.value) => Exact(Payload)

\* Whatever the two apps do one after the other, the stored shares are those of
\* somebody, positive, and add up to within the tolerance of the app that saved
\* them, also after a detour through the units of the other one.  The database
\* does not see to that for a settle-up.
StoredAddsUp ==
  Exists => /\ Holders(stored.shares) # {} /\ Positive(stored) /\ OneDebitor(stored)
            /\ NearlyExact(stored)
            /\ savedBy = "select" => FinelyExact(stored)

Agrees(mode, e) ==
  \/ mode = e.mode
  \/ mode = "evenly" /\ e.mode = "shares" /\ \A p \in Holders(e.shares) : e.shares.num[p] \in {0, e.shares.den}

\* What is typed into the table of shares is taken in the split mode the table
\* shows, and that is the mode of the draft, unless the mode was changed behind
\* the table's back: by giving up the changes, by a late answer with an older
\* state of the expense, or by a change that failed.
TypedAsShown ==
  Open /\ draft # NoDraft /\ draft.type = "purchase" /\ ~astray => Agrees(shown, draft)

\* Choosing another split mode does not change who takes part, nor which part
\* anybody owes, except that with the value 0 all parts become 0.
ModeKeepsParts ==
  [][edits' # edits /\ draft # NoDraft /\ draft'.mode # draft.mode /\ shown' # "evenly" =>
       \/ draft.value = 0
       \/ /\ Holders(draft'.shares) = Holders(draft.shares)
          /\ \A p, q \in Holders(draft.shares) :
               /\ draft'.shares.num[p] = 0 <=> draft.shares.num[p] = 0
               /\ draft.shares.num[p] * draft'.shares.num[q] = draft.shares.num[q] * draft'.shares.num[p]]_vars
=============================================================================
