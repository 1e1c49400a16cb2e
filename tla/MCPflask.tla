------------------------------ MODULE MCPflask ------------------------------
(***************************************************************************)
(* Command lines for checking Pflask.  Options that only matter together   *)
(* come together: a helper is forked for an unprivileged --chroot with a   *)
(* user namespace and nowhere else.                                        *)
(***************************************************************************)
EXTENDS Pflask

Lines(nos, cgs) ==
    {o \in [chroot : BOOLEAN, detach : BOOLEAN, ephemeral : BOOLEAN, netif : BOOLEAN,
            userns : BOOLEAN, helper : BOOLEAN, newcreds : BOOLEAN,
            no : nos, cgroups : cgs] :
        /\ o.ephemeral => o.chroot /\ ~o.netif
        /\ o.helper => o.chroot /\ o.userns}

\* Every mix of the options, with two cgroups, the same one twice, or none.
SafetyLines ==
    Lines({{}, {"NEWPID"}, {"NEWNS", "NEWUSER"}}, {<<>>, <<"cpu", "memory">>, <<"cpu", "cpu">>})

\* Lines that differ in what the parent waits for.
LiveLines ==
    {o \in Lines({{}, {"NEWPID"}}, {<<>>, <<"cpu">>}) :
        /\ ~o.ephemeral /\ ~o.netif
        /\ o.chroot = o.userns
        /\ o.newcreds => o.helper}

\* --ephemeral in the host's mount namespace.
EphemeralLines ==
    {o \in Lines({{}, {"NEWNS"}}, {<<>>}) : o.ephemeral /\ ~o.userns /\ ~o.newcreds}
=============================================================================
