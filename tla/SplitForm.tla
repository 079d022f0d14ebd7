----------------------------- MODULE SplitForm -----------------------------
(***************************************************************************)
(* The split of an expense in the editor of the Angular frontend: value,   *)
(* split mode and shares, from opening the editor to saving or closing it. *)
(* Which request is answered when is the subject of Editor; here a save is *)
(* one step.                                                               *)
(***************************************************************************)
EXTENDS StoredSplit

CONSTANTS
  Amounts,   \* amounts that are typed as a share
  Percents   \* percentages, in hundredths of one, that are typed as a share
ASSUME FormAssumption == Amounts \subseteq Int /\ Percents \subseteq Int

VARIABLES
  form,      \* the signals of the editor, or NoForm when it is not open
  spread,    \* history: the shares are as respread or splitEvenly left them
  refused    \* history: what the form shows was sent and refused

formVars == <<form, spread, refused>>
NoForm == [type |-> "none", mode |-> "none", value |-> 0, shares |-> Nobody]

FormInit == form = NoForm /\ spread = FALSE /\ refused = FALSE

\* The effect that fills the form; a new expense is shared by everybody.
FormOf(e) ==
  IF e = NoExpense
    THEN [type |-> "purchase", mode |-> "shares", value |-> 0, shares |-> Whole([p \in People |-> 1])]
    ELSE [type |-> e.type, mode |-> e.mode, value |-> e.value, shares |-> fromWire(e.mode, e.shares)]
OpenEditor ==
  /\ form = NoForm
  /\ form' = FormOf(stored)
  /\ spread' = FALSE /\ refused' = FALSE
  /\ UNCHANGED stored

Fill(s, fromValue) ==
  /\ form' = [form EXCEPT !.shares = s]
  /\ spread' = fromValue /\ refused' = FALSE
  /\ UNCHANGED stored

toggleParticipant(p) ==
  /\ form # NoForm
  /\ IF p \in Holders(form.shares)
       THEN Fill(Without(form.shares, p), FALSE)
       ELSE Fill(With(form.shares, p, IF form.mode = "shares" THEN 1 ELSE 0, 1), FALSE)

\* The field of a row, in the two modes that have one.
setShare(p) ==
  /\ form # NoForm /\ p \in Holders(form.shares)
  /\ \/ form.mode = "absolute" /\ \E x \in Amounts : Fill(With(form.shares, p, x, 1), FALSE)
     \/ form.mode = "percent" /\ \E x \in Percents : Fill(With(form.shares, p, x, 100), FALSE)

\* The stepper of a row, from 0 to 20.
step(p, delta) ==
  /\ form # NoForm /\ p \in Holders(form.shares) /\ form.mode = "shares"
  /\ LET den == form.shares.den
         next == form.shares.num[p] + delta * den
     IN  Fill(With(form.shares, p, IF next < 0 THEN 0 ELSE IF next > 20 * den THEN 20 * den ELSE next, den), FALSE)

Respread(mode) ==
  /\ form' = [form EXCEPT !.mode = mode, !.shares = respread(mode, Holders(form.shares), form.value)]
  /\ spread' = TRUE /\ refused' = FALSE
  /\ UNCHANGED stored
setMode(mode) ==
  /\ form # NoForm /\ mode # form.mode
  /\ Respread(mode)
splitEvenlyNow ==
  /\ form # NoForm
  /\ Respread(form.mode)

setValue(v) ==
  /\ form # NoForm
  /\ LET again == form.mode = "absolute" /\ Holders(form.shares) # {}
     IN  /\ form' = [form EXCEPT !.value = v,
                                 !.shares = IF again THEN splitEvenly(v, Holders(@)) ELSE @]
         /\ spread' = (spread \/ again) /\ refused' = FALSE
  /\ UNCHANGED stored

Valid(edge) == form.value > 0 /\ validateSplit(form.mode, form.shares, form.value, edge)
\* What the form sends.  Positions are not part of it, and stay.
Payload ==
  [type |-> form.type, mode |-> form.mode, value |-> form.value,
   shares |-> toWire(form.mode, form.shares), positions |-> stored.positions]
\* A refused save leaves the form as it is.
saveForm ==
  /\ form # NoForm /\ Valid(TRUE)
  /\ \/ /\ Accepted(Payload, FALSE, TRUE)
        /\ stored' = Payload
        /\ form' = NoForm /\ spread' = FALSE /\ refused' = FALSE
     \/ /\ ~Accepted(Payload, FALSE, FALSE)
        /\ refused' = TRUE
        /\ UNCHANGED <<stored, form, spread>>

CloseForm ==
  /\ form # NoForm
  /\ form' = NoForm /\ spread' = FALSE /\ refused' = FALSE
  /\ UNCHANGED stored

\* settle of the group page, for a group that has no expense yet.
settle(p, v) ==
  /\ form = NoForm /\ ~Exists /\ v > 0
  /\ stored' = [type |-> "transfer", mode |-> "absolute", value |-> v,
                shares |-> Whole([q \in {p} |-> v]), positions |-> FALSE]
  /\ UNCHANGED formVars

FormEdit ==
  \/ \E p \in People : toggleParticipant(p) \/ setShare(p) \/ step(p, 1) \/ step(p, -1)
  \/ \E mode \in Modes : setMode(mode)
  \/ splitEvenlyNow
  \/ \E v \in Values : setValue(v)
=============================================================================
