------------------------------ MODULE MCPanels -------------------------------
(* Each user starts from the rows that matter to its panel; each budget     *)
(* tries one kind of trouble.                                               *)
EXTENDS PanelsProperties, TLC

Listed == [stay |-> "none", review |-> 0, dog |-> 1, portrait |-> 1, garden |-> "approved", active |-> TRUE,
           text |-> 1, photos |-> <<1, 2>>, role |-> "host", enabled |-> TRUE, verified |-> FALSE]

Lent == [Listed EXCEPT !.stay = "awaiting_host", !.photos = <<1>>]
Stayed == [Listed EXCEPT !.stay = "done"]
Reviewed == [Stayed EXCEPT !.review = 1]
Unlisted == [Listed EXCEPT !.garden = "gone", !.active = FALSE, !.photos = <<>>]
Queued == [Reviewed EXCEPT !.garden = "pending"]

Start(who, rows, visits, sends, others, ages, losses) ==
    [role |-> who, rows |-> rows,
     budget |-> [visits |-> visits, sends |-> sends, others |-> others, ages |-> ages, losses |-> losses]]

MCStarts == {
    \* two changes in a row, a page left before the answer, a dialog
    Start("client", [Listed EXCEPT !.stay = "confirmed"], 2, 2, 0, 0, 0),
    Start("client", Reviewed, 2, 2, 0, 0, 0),
    Start("host", Lent, 2, 1, 0, 0, 0), Start("host", Unlisted, 2, 2, 0, 0, 0),
    Start("admin", Queued, 2, 2, 0, 0, 0),
    \* the same rows changed by another session, entries gone stale
    Start("client", Stayed, 2, 1, 1, 0, 0),
    Start("host", Listed, 1, 1, 1, 0, 0), Start("host", Lent, 1, 1, 1, 0, 0),
    Start("admin", Queued, 2, 1, 1, 1, 0), Start("admin", [Listed EXCEPT !.role = "admin"], 2, 1, 1, 0, 0),
    Start("admin", [Listed EXCEPT !.role = "client", !.enabled = FALSE], 2, 1, 1, 0, 0),
    \* photos dropped together, while another tab adds one
    Start("host", [Listed EXCEPT !.photos = <<1>>], 1, 2, 1, 0, 0),
    \* lost answers
    Start("client", Listed, 2, 1, 0, 0, 1), Start("host", Lent, 1, 1, 0, 0, 2),
    Start("host", Unlisted, 2, 1, 0, 0, 2), Start("admin", Queued, 2, 1, 0, 0, 2)}
=============================================================================
