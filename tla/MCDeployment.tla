---------------------------- MODULE MCDeployment ----------------------------
(* Deployment on a small instance: archives, quantities and addresses. *)
EXTENDS Deployment, TLC

\* A file at the top; one that comes twice; folders; a folder made on the way.
\* Two cannot be extracted: a file before its folder, a file where a folder is.
MCArchives ==
  { << Entry(<<"fn">>, "v1") >>,
    << Entry(<<"fn">>, "v1"), Entry(<<"fn">>, "v2") >>,
    << Entry(<<"src">>, Folder), Entry(<<"src", "fn">>, "v1"), Entry(<<"fn">>, "v2") >>,
    << Entry(<<"src", "lib">>, Folder), Entry(<<"src", "lib", "fn">>, "v1"),
       Entry(<<"src", "fn">>, "v2") >>,
    << Entry(<<"src", "fn">>, "v1"), Entry(<<"src">>, Folder) >>,
    << Entry(<<"src">>, Folder), Entry(<<"src">>, "v1") >> }

\* No subfolder; one that some archives have; one that is a file in some.
MCSubfolders == {<< >>, <<"src">>, <<"fn">>}

\* With Kilo = 10 a CPU has 1000 nano-CPUs and 41 CPUs exceed MaxInt; the last is
\* less than one nano-CPU.
MCCPUs ==
  { Absent, Malformed, Quantity(-1, 1, ""), Quantity(1, 1, ""), Quantity(1, 3, "m"),
    Quantity(41, 1, ""), Quantity(1, 2000, "") }

\* One "tib" exceeds MaxInt; "pi" is no unit.
MCMemories ==
  { Absent, Quantity(11, 10, "ki"), Quantity(7, 3, "mb"), Quantity(1, 1, "t"),
    Quantity(1, 1, "tib"), Quantity(1, 1, "pi") }

MCReplicas == {-1, 0, 1}

MCIPs == {"ip1", "ip2"}
=============================================================================
