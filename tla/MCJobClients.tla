---------------------------- MODULE MCJobClients ----------------------------
(* One job and one client: clients of a job share nothing but the server.   *)
EXTENDS JobClients, TLC

CONSTANTS j1, p1

MCProjectOfOne == (j1 :> p1)
World(client, eol, cuts, polls, faultKinds) ==
    [client |-> client, eol |-> eol, cuts |-> cuts, polls |-> polls, faults |-> faultKinds]

(* The server ends its lines with LF; that the command line's parser takes   *)
(* CRLF, however it is cut, is checked with all the faults.                  *)
MCWorlds == { World("cli", <<LF>>, {4}, {}, {"crash"}),
              World("cli", <<CR, LF>>, {2, 5, 7}, {}, {"crash", "postgres"}),
              World("web", <<LF>>, {4}, {1}, {"crash"}) }
=============================================================================
