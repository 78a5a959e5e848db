---------------------------- MODULE CallRegister ----------------------------
(***************************************************************************)
(* What the settlement of the Sector Scout needs of its store: a register  *)
(* of published calls that only grows and in which a final verdict stays,  *)
(* as long as nothing happened for which the store makes no promise.       *)
(***************************************************************************)
CONSTANTS Id, Verdict, Frozen

VARIABLES
    calls,    \* the verdict of every recorded call
    trusted   \* nothing has happened yet that voids the promise

Registers == UNION {[S -> Verdict] : S \in SUBSET Id}

Init == calls = [i \in {} |-> "OPEN"] /\ trusted = TRUE

\* New calls are recorded, open ones are graded.
Advance ==
    /\ trusted' = trusted
    /\ calls' \in Registers
    /\ DOMAIN calls \subseteq DOMAIN calls'
    /\ \A i \in DOMAIN calls : calls[i] \in Frozen => calls'[i] = calls[i]

\* From here on anything may be read.
Void == trusted' = FALSE /\ calls' \in Registers

Next == Advance \/ Void

Spec == Init /\ [][Next]_<<calls, trusted>>
=============================================================================
