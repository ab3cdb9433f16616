------------------------------- MODULE MCChat -------------------------------
(* One conversation on small instances: each start tries one kind of       *)
(* trouble, most of them together with a lost connection.                  *)
EXTENDS ChatProperties, TLC

\* Another tab of mine and two of the other participant.
Theirs(t) == [user |-> "them", tab |-> t, nr |-> 0]
MyOther == [user |-> "me", tab |-> 1, nr |-> 0]
MCPeers == {Theirs(1), Theirs(2), MyOther}

Quiet == [theirs |-> 1, aside |-> 0, mine |-> 0, reads |-> 0, typing |-> 0, visits |-> 1,
          drops |-> 1, expiries |-> 0, failures |-> 0, posts |-> 0, lost |-> 0]

Start(t, b) == [thread |-> t, budget |-> b]

MCStarts == {
    Start(<<>>, [Quiet EXCEPT !.mine = 1]),
    Start(<<>>, [Quiet EXCEPT !.theirs = 2, !.aside = 1, !.drops = 0]),
    Start(<<Theirs(1), MyOther, Theirs(2)>>, Quiet),
    Start(<<Theirs(1), MyOther, MyOther>>, [Quiet EXCEPT !.theirs = 0, !.mine = 1]),
    Start(<<MyOther>>, [Quiet EXCEPT !.theirs = 0, !.mine = 1, !.reads = 1]),
    Start(<<>>, [Quiet EXCEPT !.theirs = 0, !.typing = 2]),
    Start(<<>>, [Quiet EXCEPT !.visits = 2, !.posts = 1]),
    Start(<<>>, [Quiet EXCEPT !.expiries = 1]),
    Start(<<Theirs(1)>>, [Quiet EXCEPT !.failures = 1])}

\* A connection is lost and no request fails: what is missed is missed by the hook.
MCReliable == {s \in MCStarts : s.budget.drops = 1 /\ s.budget.failures = 0}
=============================================================================
