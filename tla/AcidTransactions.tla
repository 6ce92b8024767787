---------------------------- MODULE AcidTransactions ----------------------------
(***************************************************************************)
(* What GoGM promises a caller about transactions ("Full support for ACID  *)
(* transactions", README.md): the writes of a transaction become visible   *)
(* together or not at all, and what the caller is told about a transaction *)
(* is true.  No session, handle or retry appears here.                     *)
(***************************************************************************)
EXTENDS FiniteSets

CONSTANTS Tx,     \* transactions of the database
          Write   \* the writes a transaction can hold

VARIABLES phase,  \* phase of every transaction
          data,   \* the writes made in every transaction
          told    \* what a caller was told about every transaction

vars == <<phase, data, told>>

Phase == {"idle", "active", "committed", "aborted"}
Told  == {"nothing", "ok", "rolledback", "error"}

\* What may be said of a transaction that has reached phase p.  An error is
\* never a promise: the outcome is then unknown to the caller.
Truthful(p) == {"nothing", "error"} \cup (CASE p = "committed" -> {"ok"}
                                            [] p = "aborted"   -> {"rolledback"}
                                            [] OTHER           -> {})

Init == /\ phase = [t \in Tx |-> "idle"]
        /\ data  = [t \in Tx |-> {}]
        /\ told  = [t \in Tx |-> "nothing"]

Start(t) == /\ phase[t] = "idle"
            /\ phase' = [phase EXCEPT ![t] = "active"]
            /\ UNCHANGED <<data, told>>

\* An active transaction writes, and may abort while it does (a failed statement).
Perform(t, W) == /\ phase[t] = "active"
                 /\ data' = [data EXCEPT ![t] = @ \cup W]
                 /\ UNCHANGED <<phase, told>>

\* The atomic step: everything in data[t] becomes visible, or none of it ever will.
Decide(t, p, answer) == /\ phase[t] = "active"
                        /\ p \in {"committed", "aborted"}
                        /\ answer \in Truthful(p)
                        /\ phase' = [phase EXCEPT ![t] = p]
                        /\ told'  = [told EXCEPT ![t] = answer]
                        /\ UNCHANGED data

\* A caller is told the outcome of decided transactions that nobody was told of.
Tell(T, answer) == /\ \A t \in T : /\ phase[t] \in {"committed", "aborted"}
                                   /\ told[t] \in {"nothing", "error"}
                                   /\ answer \in Truthful(phase[t])
                   /\ told' = [t \in Tx |-> IF t \in T THEN answer ELSE told[t]]
                   /\ UNCHANGED <<phase, data>>

Next == \/ \E t \in Tx : \/ Start(t)
                         \/ \E W \in SUBSET Write : Perform(t, W)
                         \/ \E p \in Phase, answer \in Told : Decide(t, p, answer)
        \/ \E T \in SUBSET Tx, answer \in Told : Tell(T, answer)

Spec == Init /\ [][Next]_vars

\* The writes every other session can read.
Visible == UNION {data[t] : t \in {u \in Tx : phase[u] = "committed"}}

TypeOK == /\ phase \in [Tx -> Phase]
          /\ data \in [Tx -> SUBSET Write]
          /\ told \in [Tx -> Told]

\* A caller that was told "ok" owns a committed transaction, one that was told
\* "rolledback" an aborted one.
Honest == \A t \in Tx : /\ told[t] = "ok" => phase[t] = "committed"
                        /\ told[t] = "rolledback" => phase[t] = "aborted"
=============================================================================
