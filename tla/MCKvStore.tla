------------------------------ MODULE MCKvStore ------------------------------
EXTENDS KvStore, TLC
CONSTANTS n1, n2, k1
\* The prefix of n2 extends the one of n1, as that of an instance of a plugin
\* extends the one of the plugin.
MCBelow == (n1 :> {n1, n2}) @@ (n2 :> {n2})
MCLockKeys == {<<n2, k1>>}
=============================================================================
