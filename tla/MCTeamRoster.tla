---------------------------- MODULE MCTeamRoster ----------------------------
(* A few accounts, sessions and registrations for TLC.                      *)
EXTENDS TeamRoster, TLC

CONSTANTS u1, u2, s1, s2, c1, c2, t1, f1, f2

Plain(s) == [id |-> None, tag |-> None, session |-> s, role |-> "builder",
             runtime |-> None, image |-> None, candidate |-> None, info |-> None]
Seat == <<1, 0>>
TheRegistrations ==
    {[Plain(s1) EXCEPT !.runtime = "claude", !.image = "genome"], [Plain(s1) EXCEPT !.runtime = "codex", !.info = "bypass"],
     [Plain(s2) EXCEPT !.id = Seat, !.tag = <<t1, Seat>>]}
Made(kind, archived, members) == [kind |-> kind, archived |-> archived, members |-> members]
Spawned == [Plain(s1) EXCEPT !.runtime = "claude", !.image = "genome", !.candidate = "genome"]
Waiting == [Plain(<<t1, Seat>>) EXCEPT !.id = Seat, !.tag = <<t1, Seat>>]
TheWorlds ==
    {[id \in {} |-> Made("team", FALSE, <<>>)],
     [id \in {t1} |-> Made("team", FALSE, <<Spawned, Waiting>>)],
     [id \in {t1} |-> Made("team", FALSE, <<[Plain(s1) EXCEPT !.info = "bypass"]>>)],
     [id \in {t1} |-> Made("team", TRUE, <<Plain(s1)>>)],
     [id \in {f1} |-> Made("standalone", FALSE, <<Spawned>>)]}
ThePlans == {<<>>, <<[id |-> None, quantity |-> 1, role |-> "builder", runtime |-> "claude", image |-> "genome"]>>}
Symmetry == Permutations({c1, c2}) \cup Permutations({u1, u2}) \cup Permutations({f1, f2})
=============================================================================
