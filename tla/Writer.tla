------------------------------- MODULE Writer -------------------------------
(***************************************************************************)
(* The bounded string writer the record is built with (put in core.c).     *)
(* Text arrives one unit at a time, as often as the record's builder calls *)
(* put, unit, number or hex; `all` remembers what a buffer without a bound *)
(* would hold.  The terminating NUL is written after the last stored unit  *)
(* of every call, at index `length`.                                       *)
(***************************************************************************)
EXTENDS Integers, Sequences

CONSTANTS
    Units,       \* what a unit of text can be
    Capacities,  \* capacities of a writer
    MaxText      \* bound on the text put (bounds the model)

ASSUME WriterAssumption == Capacities \subseteq Nat /\ MaxText \in Nat

VARIABLES capacity, data, truncated, nul, all

writer_vars == <<capacity, data, truncated, nul, all>>

\* Index of the terminating NUL; a writer without capacity has none.
NoNul == -1

WriterInit ==
    /\ capacity \in Capacities
    /\ data = <<>> /\ truncated = FALSE /\ nul = NoNul /\ all = <<>>

\* Mistaken variants: the NUL's place is given away; a unit that does not
\* fit is dropped silently.
RoomForUnitOnly(n) == n < capacity
NeverTruncates(flag, n) == flag

Room(n) == n + 1 < capacity

\* The flag after a unit was offered at length n; it is never cleared.
Truncates(flag, n) == flag \/ ~Room(n)

\* One pass of put's loop, and the NUL that put writes when it ends.
Put(u) ==
    /\ Len(all) < MaxText
    /\ data' = IF Room(Len(data)) THEN Append(data, u) ELSE data
    /\ truncated' = Truncates(truncated, Len(data))
    /\ nul' = IF capacity > 0 THEN Len(data') ELSE NoNul
    /\ all' = Append(all, u)
    /\ UNCHANGED capacity

\* A call with an empty string only writes the NUL.
PutEmpty ==
    /\ nul' = IF capacity > 0 THEN Len(data) ELSE NoNul
    /\ UNCHANGED <<capacity, data, truncated, all>>

WriterNext == PutEmpty \/ \E u \in Units : Put(u)

WriterSpec == WriterInit /\ [][WriterNext]_writer_vars

-----------------------------------------------------------------------------
(* Properties.                                                             *)

WriterTypeOK ==
    /\ capacity \in Nat
    /\ data \in Seq(Units) /\ all \in Seq(Units)
    /\ truncated \in BOOLEAN /\ nul \in Nat \cup {NoNul}

\* Nothing is written outside the buffer: the stored units and the NUL
\* behind them fit into the capacity, for every capacity, zero and one too.
InsideBuffer ==
    /\ Len(data) > 0 => Len(data) < capacity
    /\ nul # NoNul => nul < capacity /\ nul = Len(data)

\* The record the probe prints is the text itself when `truncated` is clear
\* and a proper prefix of it, without gaps, when it is set.  (efi_main
\* trusts the flag alone to choose between record and marker.)
TruncationIsHonest ==
    /\ Len(data) <= Len(all)
    /\ \A n \in 1 .. Len(data) : data[n] = all[n]
    /\ truncated <=> Len(data) < Len(all)
=============================================================================
