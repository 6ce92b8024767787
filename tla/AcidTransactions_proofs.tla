-------------------------- MODULE AcidTransactions_proofs --------------------------
(***************************************************************************)
(* What the abstract transactions guarantee, and with them whatever        *)
(* implements them: GogmSession_proofs shows that GoGM's sessions do.      *)
(***************************************************************************)
EXTENDS AcidTransactions, TLAPS

HInv == TypeOK /\ Honest

\* What was truthfully said of a decided transaction stays true: it is decided once.
LEMMA HonestStep == HInv /\ [Next]_vars => HInv'
<1> SUFFICES ASSUME HInv, [Next]_vars PROVE HInv'
  OBVIOUS
<1> USE DEF HInv, TypeOK, Honest, Phase, Told
<1>1. CASE UNCHANGED vars BY <1>1 DEF vars
<1>2. ASSUME NEW t \in Tx, Start(t) PROVE HInv' BY <1>2 DEF Start
<1>3. ASSUME NEW t \in Tx, NEW W \in SUBSET Write, Perform(t, W) PROVE HInv'
  BY <1>3 DEF Perform
<1>4. ASSUME NEW t \in Tx, NEW p \in Phase, NEW answer \in Told, Decide(t, p, answer)
      PROVE  HInv'
  <2>1. /\ answer = "ok" => p = "committed"
        /\ answer = "rolledback" => p = "aborted"
    BY <1>4 DEF Decide, Truthful
  <2>2. TypeOK' BY <1>4 DEF Decide
  <2>3. Honest' BY <1>4, <2>1 DEF Decide
  <2> QED BY <2>2, <2>3
<1>5. ASSUME NEW T \in SUBSET Tx, NEW answer \in Told, Tell(T, answer) PROVE HInv'
  <2>1. \A t \in T : /\ answer = "ok" => phase[t] = "committed"
                     /\ answer = "rolledback" => phase[t] = "aborted"
    BY <1>5 DEF Tell, Truthful
  <2>2. TypeOK' BY <1>5 DEF Tell
  <2>3. Honest' BY <1>5, <2>1 DEF Tell
  <2> QED BY <2>2, <2>3
<1> QED BY <1>1, <1>2, <1>3, <1>4, <1>5 DEF Next

\* A caller that was told "ok" owns a committed transaction, one that was told
\* "rolledback" an aborted one, for ever (what Commit and Rollback of
\* interfacev2.go promise).
THEOREM CallersAreToldTheTruth == Spec => []Honest
<1>1. Init => HInv BY DEF Init, HInv, TypeOK, Honest, Phase, Told
<1>2. HInv => Honest BY DEF HInv
<1> QED BY <1>1, <1>2, HonestStep, PTL DEF Spec
=============================================================================
