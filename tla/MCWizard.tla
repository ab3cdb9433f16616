----------------------------- MODULE MCWizard -------------------------------
(* One garden open three hours on two days; each budget tries one kind of  *)
(* trouble.                                                                *)
EXTENDS WizardProperties, TLC

CONSTANTS rex, azor

MCDates == 1..2

\* At home; the same but for a day on which only one of the two has moved its clock; half the
\* world behind on one day and off the hour on the other.
AtHome == [ahead |-> 0, whole |-> TRUE]
MCZones == {
    [d \in MCDates |-> AtHome],
    [d \in MCDates |-> IF d = 1 THEN [ahead |-> -1, whole |-> TRUE] ELSE AtHome],
    [d \in MCDates |-> IF d = 1 THEN [ahead |-> -12, whole |-> TRUE]
                                ELSE [ahead |-> 4, whole |-> FALSE]]}

None == [days |-> 1, clicks |-> 2, edits |-> 0, tries |-> 3, refetches |-> 0, rivals |-> 0,
         prices |-> 0, lapses |-> 0, declines |-> 0, losses |-> 0, leaves |-> 0]

MCBudgets == {
    \* the calendar and the chips
    [None EXCEPT !.days = 2, !.clicks = 2, !.tries = 0, !.rivals = 1],
    [None EXCEPT !.days = 2, !.clicks = 2, !.tries = 0, !.rivals = 1, !.refetches = 1],
    [None EXCEPT !.days = 3, !.tries = 0, !.rivals = 1],
    \* the form changes around the POST
    [None EXCEPT !.clicks = 3, !.tries = 1],
    [None EXCEPT !.edits = 2, !.tries = 0, !.clicks = 1],
    [None EXCEPT !.edits = 1, !.tries = 1],
    [None EXCEPT !.edits = 1, !.tries = 1, !.rivals = 1],
    [None EXCEPT !.prices = 1],
    \* the payment
    [None EXCEPT !.tries = 4, !.lapses = 1, !.declines = 1],
    [None EXCEPT !.tries = 4, !.losses = 2],
    [None EXCEPT !.tries = 3, !.leaves = 2]}
=============================================================================
