---------------------------- MODULE MCInventory ----------------------------
(***************************************************************************)
(* The real limits of the record, with numbers in their longest form; two  *)
(* entries are searched of tables that have up to three.                   *)
(***************************************************************************)
EXTENDS Inventory

MCStatuses == {"EFI_SUCCESS", "EFI_UNSUPPORTED", "EFI_WARN_UNKNOWN_GLYPH"}
MCEscapedLengths == {0, 3, 384}

Outcome(s, detail, count) == [state |-> s, detail |-> detail, count |-> count]
\* A failure with the longest detail, and maps with one descriptor and
\* with many more than are listed.
MCMapOutcomes ==
    {Outcome("malformed", 22, 0), Outcome("observed", NoDetail, 1),
     Outcome("observed", NoDetail, 40)}

Parsed(s, detail, model) == [state |-> s, detail |-> detail, model |-> model]
MCDtOutcomes ==
    {Parsed("malformed", 22, "not_probed"), Parsed("observed", NoDetail, "truncated"),
     Parsed("observed", NoDetail, "unavailable")}

\* No entry, the tree's entry in every place and not at all, with and
\* without a blob, twice, and behind the limit.
MCTables ==
    {[missing |-> FALSE, entries |-> e] : e \in
        {<<>>, <<"other">>, <<"tree">>, <<"other", "null">>, <<"other", "other">>,
         <<"tree", "null">>, <<"other", "other", "other">>, <<"other", "other", "tree">>,
         <<"other", "tree", "tree">>, <<"null", "other", "tree">>}}
      \cup {[missing |-> TRUE, entries |-> e] : e \in {<<>>, <<"tree">>}}

Vendor(units, surrogate) == [missing |-> FALSE, units |-> units, surrogate |-> surrogate]
\* No string, a short one, the longest that is kept whole, and one more unit
\* with a surrogate inside and behind what is kept.
MCVendors ==
    {[missing |-> TRUE, units |-> 0, surrogate |-> 0], Vendor(3, 3), Vendor(64, 64),
     Vendor(65, 63), Vendor(65, 64)}
\* Observed, and a value that is no flag.
MCAnswers == {[size |-> 1, value |-> 1], [size |-> 1, value |-> 2]}
MCRaws == {0, 5, 12, 16}
=============================================================================
