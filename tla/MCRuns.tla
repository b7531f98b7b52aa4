-------------------------------- MODULE MCRuns --------------------------------
(***************************************************************************)
(* RunLifecycle for TLC: one run, two replicas, so that one can fail and   *)
(* the other reap, two coroutines of its driver and a client.  Each of     *)
(* them meets what it depends on; the full product is out of reach.        *)
(***************************************************************************)
EXTENDS RunLifecycle

CONSTANTS r1, p1, p2, w1, w2, c1

\* Replicas are alike, and so are workers: p1 has the run, w1 speaks first.
FirstOfEach == task[r1].rep # p2 /\ (w2 \in Busy(r1) => task[r1].spans = 2)

\* Two events of the driver, which may overlap, or one and a fault.
OneTrouble == task[r1].spans = 2 => faults = 0

\* Nobody reads what a client does, and it reads the row and the log alone: it
\* is there in behaviours of one publisher and one reaper without delays.
ClientAlone ==
  client[c1].pc # "away" =>
    /\ task[r1].spans <= 1 /\ due[r1] = Ttl /\ span[r1][w1].due = Ttl
    /\ mode[p2] = "up" /\ \A s \in Sweeper : sweep[s].held = 0 /\ (s[1] = p2 => sweep[s] = Resting)

MCNext == Next /\ (FirstOfEach /\ OneTrouble /\ ClientAlone)'

MCSpec == Init /\ [][MCNext]_vars /\ Fairness
=============================================================================
