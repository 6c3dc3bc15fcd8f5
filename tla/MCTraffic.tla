------------------------------ MODULE MCTraffic ------------------------------
EXTENDS TrafficGrapher

Job(mode, name, extended) ==
    [mode |-> mode, name |-> name, extended |-> extended, count |-> 2, interval |-> 1,
     windows |-> FALSE, after |-> TRUE, absent |-> FALSE, restarts |-> FALSE,
     table |-> <<"lo", "eth0", "eth1">>]

\* An interface by its index, measured with and without an end; by its name,
\* and the list, on devices whose view ends with ifDescr or goes on.
MCJobs ==
    {[Job("index", "", FALSE) EXCEPT !.interval = i] : i \in 1..2}
    \cup {[Job("index", "", FALSE) EXCEPT !.count = c, !.windows = w, !.restarts = TRUE] :
             w \in BOOLEAN, c \in {1, Unlimited}}
    \cup {[Job(mode, name, x) EXCEPT !.after = a, !.absent = x, !.count = 1] :
             mode \in {"name", "list"}, name \in {"eth0", "ppp0"}, x \in BOOLEAN, a \in BOOLEAN}
=============================================================================
