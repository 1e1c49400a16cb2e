------------------------------ MODULE MCMount ------------------------------
(* Lists of --mount arguments, and a host, for checking Mount.             *)
EXTENDS Mount

Srv == <<"srv">>

\* With the host's root at /data, the last one is in the container's root.
Dsts == {<<>>, <<"data">>, <<"data", "sub">>, <<"proc">>, <<"dev">>, <<"dev", "null">>,
         <<"sys", "fs">>, <<"run">>, <<"data", "srv", "sub">>}

\* The host's root, what is beside the container's root, and what is in it.
Srcs == {<<>>, <<"home">>, <<"file">>, <<"srv", "data">>, <<"srv", "sys">>}

Given(word, src, dst, valid) == [word |-> word, src |-> src, dst |-> dst, valid |-> valid]

Good == {Given(w, src, d, TRUE) : w \in {"bind", "bind-ro"}, src \in Srcs, d \in Dsts}
        \cup {Given(w, <<"home">>, d, TRUE) : w \in {"overlay", "tmp"}, d \in Dsts}

\* An argument that is refused.
Bad == {Given("other", <<"home">>, <<"data">>, TRUE), Given("bind", <<"home">>, <<"data">>, FALSE)}

\* None, one or two mounts, over, below and beside each other and the system's.
Pairs == {<<>>} \cup {<<s>> : s \in Good \cup Bad} \cup (Good \X Good)

\* A mount at the path that the container's root has on the host.
AtRootPath == {<<s>> : s \in Good} \cup {<<Given("tmp", <<"home">>, Srv, TRUE)>>}

TwoNodes == <<"console", "null">>

\* A root has most directories that pflask mounts on.
SomeDirs == {<<>>, <<"proc">>, <<"sys">>, <<"dev">>, <<"data">>}

\* The host: a root, the container's root, and a directory and a file for bind mounts.
Dirs == SomeDirs \cup {Srv \o d : d \in SomeDirs} \cup {Srv \o Srv, <<"home">>, <<"dev", "pts">>}

Files == {<<"file">>, <<"dev", "pts", "0">>} \cup {<<"dev", n>> : n \in ToSet(TwoNodes)}
=============================================================================
