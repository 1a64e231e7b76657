--------------------------- MODULE PoolDiscipline ---------------------------
(***************************************************************************)
(* What the probe promises the firmware about pool memory (README of the   *)
(* probe, "Ownership and trust boundary" and "Memory map"): it owns at     *)
(* most one buffer at a time, of at most Limit bytes; it asks for at most  *)
(* Attempts of them; it gives each one back exactly once; after an answer  *)
(* that does not establish release it asks for nothing more; and it ends   *)
(* with nothing in its hands.                                              *)
(***************************************************************************)
EXTENDS Naturals

CONSTANTS
    Limit,     \* bytes of the largest buffer
    Attempts   \* buffers asked for

VARIABLES
    owned,     \* bytes of the buffer in the probe's hands; 0 when none
    given,     \* buffers given out so far
    suspect,   \* a release was not confirmed
    finished   \* the probe uses the pool no more

pvars == <<owned, given, suspect, finished>>

PoolInit == owned = 0 /\ given = 0 /\ ~suspect /\ ~finished

Take ==
    /\ ~finished /\ ~suspect
    /\ owned = 0 /\ given < Attempts
    /\ owned' \in 1 .. Limit
    /\ given' = given + 1
    /\ UNCHANGED <<suspect, finished>>

\* A release that is not confirmed is the last thing done with the pool.
GiveBack(confirmed) ==
    /\ owned # 0
    /\ owned' = 0
    /\ suspect' = ~confirmed
    /\ finished' \in BOOLEAN /\ (~confirmed => finished')
    /\ UNCHANGED given

Finish ==
    /\ ~finished /\ owned = 0
    /\ finished' = TRUE
    /\ UNCHANGED <<owned, given, suspect>>

PoolNext == Take \/ Finish \/ \E confirmed \in BOOLEAN : GiveBack(confirmed)

PoolSpec == PoolInit /\ [][PoolNext]_pvars /\ WF_pvars(PoolNext)

\* PoolSpec without its fairness: the part a step-by-step proof can reach.
PoolSafety == PoolInit /\ [][PoolNext]_pvars
=============================================================================
