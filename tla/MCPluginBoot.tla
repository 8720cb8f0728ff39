---------------------------- MODULE MCPluginBoot -----------------------------
EXTENDS PluginBoot, TLC
CONSTANTS i1, i2
\* Two contracts, and one with a streaming method.
MCMethodsOf == <<<<"Init", "Get">>, <<"Init", "Get", "Put">>, <<"Init", "Watch">>>>

\* The first revision has files of its own, in both directories.
MCOwnFiles == {<<"dist", 1>>, <<"proto", 1>>}

MCAuthored ==
    {[form |-> "schema", integrity |-> i] : i \in {None, Empty, Stale}}
        \cup {[form |-> "other", integrity |-> None]}

\* What the author does commutes with every step but Begin, which reads it: it
\* is enough to look at orders where the author acts before the first write.
AuthorFirst ==
    authorVars' # authorVars =>
        /\ begun < MaxInstalls /\ spawns = 0
        /\ \A i \in Installers : installs[i] # None => installs[i].at = 1

Symmetry == Permutations(Installers)

\* With the last install begun, nothing looks at the project any more, and nothing
\* ever looks at what the host's manifest says, only whether there is one.
View ==
    <<IF begun < MaxInstalls THEN authorVars ELSE <<>>,
      installVars, manifest # None, process, spawns>>
=============================================================================
