---------------------------- MODULE MCDockerInit ----------------------------
(***************************************************************************)
(* Zones for TLC.  Each set varies what one group of properties is about   *)
(* around one ordinary zone.                                               *)
(***************************************************************************)
EXTENDS DockerInit

MCPasswd == [root |-> [uid |-> 0, gid |-> 0, home |-> "/root"],
             app |-> [uid |-> 7, gid |-> 8, home |-> "/app"],
             lost |-> [uid |-> 9, gid |-> 9, home |-> "/lost"]]
MCGroup == [root |-> 0, app |-> 8, staff |-> 5]
MCNumber ==
    [t \in {"", "0", "5", "7", "12345"} |->
        CASE t \in {"", "0"} -> 0 [] t = "5" -> 5 [] t = "7" -> 7
          [] t = "12345" -> 12345]

Zone ==
    [prog |-> "dockerinit", inherit |-> 2, urandom |-> TRUE,
     brand |-> "lx", tty |-> FALSE, stdin |-> FALSE, logdriver |-> "json-file",
     noipmgmtd |-> FALSE, wait |-> 0, refuse |-> FALSE, hostname |-> TRUE,
     user |-> [user |-> "0", group |-> NULL],
     linkEnv |-> <<>>, env |-> <<>>,
     entrypoint |-> <<>>, cmd |-> <<"sh">>,
     nics |-> <<[net |-> "n1", primary |-> TRUE, gw |-> "n1"]>>, routes |-> <<>>]

Descriptors ==
    {[Zone EXCEPT !.urandom = u, !.tty = t, !.stdin = i, !.noipmgmtd = d,
                  !.logdriver = l, !.brand = "joyent-minimal"] :
        u \in BOOLEAN, t \in BOOLEAN, i \in BOOLEAN, d \in BOOLEAN,
        l \in {"json-file", "syslog"}}

Waiting ==
    {[Zone EXCEPT !.wait = w, !.refuse = r, !.logdriver = l] :
        w \in 1..2, r \in BOOLEAN, l \in {"none", "syslog"}}

\* dockerexec has no networks, streams or command line of its own to prepare.
Execs ==
    {[Zone EXCEPT !.prog = "dockerexec", !.inherit = i, !.urandom = u,
                  !.user = [user |-> "app", group |-> NULL]] :
        i \in {2, 3}, u \in BOOLEAN}

Users ==
    {[Zone EXCEPT !.user = [user |-> u, group |-> g]] :
        u \in {"app", "lost", "", "7", "12345", "nobody"},
        g \in {NULL, "", "staff", "5", "12345", "nogroup"}}

MCEntry == {Entry("PATH", "p"), Entry("A", "x"), Entry("A", "y"), Entry("", "z")}
Lists(S, n) == UNION {[1..k -> S] : k \in 0..n}
Envs ==
    {[Zone EXCEPT !.linkEnv = l, !.env = e, !.hostname = FALSE] :
        l \in Lists(MCEntry, 1), e \in Lists(MCEntry, 2)}

Commands ==
    {[Zone EXCEPT !.entrypoint = e, !.cmd = c] :
        e \in Lists({"sh"}, 2), c \in Lists({"a", "b"}, 2)}

Route(l, d, g) == [linklocal |-> l, dst |-> d, gw |-> g]
MCRoute == {Route(TRUE, "l1", "self"), Route(FALSE, "r1", "l1"),
            Route(FALSE, "r2", "n1"), Route(FALSE, "r3", "far"),
            Route(FALSE, "l1", "n1")}
Nets ==
    {[Zone EXCEPT !.routes = r, !.nics = n] :
        r \in Lists(MCRoute, 3),
        n \in {<<>>} \cup
              {<<[net |-> "n0", primary |-> FALSE, gw |-> "n0"],
                 [net |-> "n1", primary |-> TRUE, gw |-> g]>> :
                    g \in {"n1", "l1", NULL}}}

MCSetting ==
    Descriptors \cup Waiting \cup Execs \cup Users \cup Envs \cup Commands
    \cup Nets \cup {[Zone EXCEPT !.brand = "kvm"]}

\* For the comments: dockerexec, a logger, a user without a line for its group.
MCCommented ==
    Execs \cup {[Zone EXCEPT !.logdriver = "syslog"],
               [Zone EXCEPT !.user = [user |-> "lost", group |-> NULL]]}

=============================================================================
