------------------------------ MODULE MCGogmSession ------------------------------
(* The bounded instances of GogmSession: a SessionV2Impl beside a Session of    *)
(* the deprecated kind (MCSessions), and a SessionV2Impl alone (MCClose).       *)
EXTENDS GogmSession, TLC

CONSTANTS s1, s2, t1, t2, x1

OneSession  == {s1}
TwoSessions == {s1, s2}
OnlyS1      == {s1}
TwoTx       == {t1, t2}
OneSave     == {x1}
MCWrite     == Save \X (1..Statements)

\* Transactions are interchangeable; sessions are not, only s1 is in V2.
Interchangeable == Permutations(Tx)
=============================================================================
