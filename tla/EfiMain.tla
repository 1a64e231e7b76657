------------------------------ MODULE EfiMain ------------------------------
(***************************************************************************)
(* efi_main and print of probe.c around the acquisition of the memory map: *)
(* the checks on entry, the record, the texts that are sent to the console *)
(* in chunks, and the status that is returned to the firmware.             *)
(*                                                                         *)
(* The observations only end up in the text of the record; here they are   *)
(* its length, and the record is truncated when it does not leave room for *)
(* the NUL (module Writer has the writer itself).                          *)
(***************************************************************************)
EXTENDS MapAcquisition

CONSTANTS
    RECORD_CAPACITY,  \* bytes of the static record buffer
    RecordLengths     \* lengths a record may have (bounds the model)

ASSUME RecordAssumption ==
    /\ RECORD_CAPACITY \in Nat \ {0, 1}
    /\ RecordLengths \subseteq Nat \ {0}

VARIABLES
    main,    \* where efi_main stands
    length,  \* length of the whole record, whatever of it was kept
    text,    \* the text that is being printed
    left,    \* units of it that were not sent yet
    ret,     \* what efi_main returned
    sent,    \* history: units of each text that the console was given
    chunk,   \* history: units of the last OutputString call
    failed   \* history: the first error that stopped the output

output == <<length, text, left, sent, chunk, failed>>
efi_vars == <<vars, main, ret, output>>

CHUNK == 126
Texts == {"banner", "record", "crlf", "marker"}
Truncated == length >= RECORD_CAPACITY

\* The fixed texts, and the record as the writer kept it.
TextLength(t) ==
    [banner |-> 68, marker |-> 38, crlf |-> 2,
     record |-> IF Truncated THEN RECORD_CAPACITY - 1 ELSE length][t]

EfiInit ==
    /\ Init
    /\ main = "entry" /\ ret = "EFI_SUCCESS"
    /\ length = 0 /\ text = "banner" /\ left = 0
    /\ sent = [t \in Texts |-> 0] /\ chunk = 0 /\ failed = "EFI_SUCCESS"

Return(s) == main' = "returned" /\ ret' = s

-----------------------------------------------------------------------------
(* Up to the record.                                                       *)

NoSystemTable ==
    /\ main = "entry"
    /\ Return("EFI_INVALID_PARAMETER")
    /\ UNCHANGED <<vars, output>>

NoConsole ==
    /\ main = "entry"
    /\ Return("EFI_UNSUPPORTED")
    /\ UNCHANGED <<vars, output>>

EnterMain ==
    /\ main = "entry"
    /\ main' = "map"
    /\ UNCHANGED <<vars, ret, output>>

Acquire ==
    /\ main = "map"
    /\ Next
    /\ UNCHANGED <<main, ret, output>>

\* acquire_map has returned: the other observations, and the record.
BuildRecord(n) ==
    /\ main = "map" /\ pc = "done"
    /\ length' = n
    /\ main' = "print" /\ text' = "banner" /\ left' = TextLength("banner")
    /\ UNCHANGED <<vars, ret, sent, chunk, failed>>

-----------------------------------------------------------------------------
(* Printing.                                                               *)

\* Mistaken variants: one unit more than there is room for; truncation
\* reported before a leak.
OneUnitMore(n) == IF n > CHUNK + 1 THEN CHUNK + 1 ELSE n
TruncationFirst(full) ==
    IF ~full THEN "EFI_BUFFER_TOO_SMALL" ELSE release_status

\* Units that the next OutputString call is given when n are left.
Chunk(n) == IF n > CHUNK THEN CHUNK ELSE n

\* Mistaken variant: only the status of a text's last call counts.
OnlyLastCounts(s) == EFI_ERROR(s) /\ left = Chunk(left)

StopsOutput(s) == EFI_ERROR(s)

\* The texts after the banner and after the record.
Following(t) ==
    IF t = "banner" THEN (IF Truncated THEN "marker" ELSE "record") ELSE "crlf"
IsLast(t) == t \in {"marker", "crlf"}

\* What efi_main returns when all output has succeeded.
Verdict(full) ==
    IF release_status # "EFI_SUCCESS" THEN release_status
    ELSE IF full THEN "EFI_SUCCESS" ELSE "EFI_BUFFER_TOO_SMALL"

\* The history of the output: which status stopped it, if any did.
Remember(s) ==
    failed' = IF failed = "EFI_SUCCESS" /\ EFI_ERROR(s) THEN s ELSE failed

\* print looks for ConOut and OutputString again before each text.
ConsoleGone ==
    /\ main = "print" /\ left = TextLength(text)
    /\ Remember("EFI_UNSUPPORTED")
    /\ Return("EFI_UNSUPPORTED")
    /\ UNCHANGED <<vars, length, text, left, sent, chunk>>

\* One OutputString call, its status, and what follows the text it ends.
OutputString(s) ==
    /\ main = "print"
    /\ chunk' = Chunk(left)
    /\ sent' = [sent EXCEPT ![text] = @ + Chunk(left)]
    /\ Remember(s)
    /\ IF StopsOutput(s)
         THEN Return(s) /\ UNCHANGED <<text, left>>
       ELSE IF left # Chunk(left)
         THEN left' = left - Chunk(left) /\ UNCHANGED <<main, ret, text>>
       ELSE IF IsLast(text)
         THEN Return(Verdict(text = "crlf")) /\ UNCHANGED <<text, left>>
         ELSE /\ text' = Following(text) /\ left' = TextLength(Following(text))
              /\ UNCHANGED <<main, ret>>
    /\ UNCHANGED <<vars, length>>

EfiNext ==
    \/ NoSystemTable \/ NoConsole \/ EnterMain \/ Acquire
    \/ \E n \in RecordLengths : BuildRecord(n)
    \/ ConsoleGone \/ \E s \in Statuses : OutputString(s)

EfiSpec == EfiInit /\ [][EfiNext]_efi_vars /\ WF_efi_vars(EfiNext)

-----------------------------------------------------------------------------
(* Properties.                                                             *)

EfiTypeOK ==
    /\ main \in {"entry", "map", "print", "returned"}
    /\ length \in Nat /\ text \in Texts /\ left \in Nat
    /\ ret \in EFI_STATUS /\ failed \in EFI_STATUS
    /\ sent \in [Texts -> Nat] /\ chunk \in 0 .. 127

Complete(t) == sent[t] = TextLength(t)

\* The output is a prefix of what it should be, in chunks of at most 126
\* units (print's buffer holds 128): each text is begun only when the one
\* before it was sent completely, nothing is sent twice, and record and
\* marker exclude each other.
OutputInOrder ==
    /\ chunk <= CHUNK
    /\ \A t \in Texts : sent[t] # 0 => sent[t] <= TextLength(t)
    /\ sent["record"] # 0 => Complete("banner") /\ ~Truncated
    /\ sent["marker"] # 0 => Complete("banner") /\ Truncated
    /\ sent["crlf"] # 0 => Complete("record")

\* The return policy (probe.c 195-205): the first output error outranks the
\* status of a release that may have leaked a buffer, which outranks
\* truncation; success means that the whole record and its CRLF were
\* delivered and that no buffer may have leaked.
ReturnPolicy ==
    main = "returned" /\ length # 0 =>
      IF failed # "EFI_SUCCESS" THEN ret = failed
      ELSE /\ \A b \in Attempts : Leaked(b) => ret = pool[b].status
           /\ (~\E b \in Attempts : Leaked(b)) =>
                IF ret = "EFI_SUCCESS"
                  THEN ~Truncated /\ \A t \in {"banner", "record", "crlf"} : Complete(t)
                  ELSE /\ ret = "EFI_BUFFER_TOO_SMALL" /\ sent["record"] = 0
                       /\ Complete("banner") /\ Complete("marker")

\* However efi_main returns, it holds no buffer of the firmware's and gave
\* each one back once; a call that was refused on entry took none and did
\* not succeed.
NothingHeldAtReturn ==
    main = "returned" =>
      /\ buffer = NULL
      /\ \A b \in Attempts : GivenOut(b) => pool[b].tries = 1
      /\ length = 0 => /\ ret \in {"EFI_INVALID_PARAMETER", "EFI_UNSUPPORTED"}
                       /\ \A b \in Attempts : ~GivenOut(b)

\* "The first error status stops all further output": once a call has
\* failed the console is never called again.
QuietAfterError == [][failed # "EFI_SUCCESS" => UNCHANGED sent]_efi_vars

\* efi_main returns to its caller, however the firmware answers.
Returns == <>(main = "returned")
=============================================================================
