----------------------------- MODULE MCSession ------------------------------
(* A client and a host at one browser with two tabs; each budget tries one *)
(* kind of trouble.                                                        *)
EXTENDS SessionProperties, TLC

CONSTANTS t1, t2, ala, ola

MCRole == [a \in Accounts |-> IF a = ala THEN "client" ELSE "host"]

Quiet == [logins |-> 1, registrations |-> 0, resets |-> 0, logouts |-> 0, saves |-> 0,
          deletions |-> 0, requests |-> 0, visits |-> 1, reloads |-> 0, expiries |-> 0,
          refusals |-> 0, losses |-> 0, blocks |-> 0]

MCBudgets == {
    \* two requests meet the expired token, one is then refused or lost
    [Quiet EXCEPT !.requests = 2, !.expiries = 2],
    [Quiet EXCEPT !.requests = 1, !.expiries = 1, !.refusals = 1, !.logouts = 1],
    [Quiet EXCEPT !.requests = 1, !.expiries = 1, !.losses = 1, !.reloads = 1],
    \* one user after the other
    [Quiet EXCEPT !.logins = 2, !.logouts = 1, !.visits = 2],
    [Quiet EXCEPT !.logins = 1, !.registrations = 1, !.logouts = 1, !.visits = 3],
    \* the settings
    [Quiet EXCEPT !.saves = 2, !.visits = 2, !.expiries = 1],
    [Quiet EXCEPT !.deletions = 1, !.visits = 2, !.expiries = 1, !.reloads = 1],
    [Quiet EXCEPT !.logins = 0, !.resets = 2, !.visits = 2],
    \* a block, a second tab
    [Quiet EXCEPT !.requests = 1, !.blocks = 1, !.reloads = 1],
    [Quiet EXCEPT !.requests = 1, !.reloads = 1, !.expiries = 1, !.logouts = 1]}

\* The API refuses a request that was refreshed.
MCRefused == {b \in MCBudgets : b.refusals > 0}
=============================================================================
