----------------------------- MODULE RecordText -----------------------------
(***************************************************************************)
(* How many characters the helpers of build_record in probe.c put into the *)
(* record.  Of a text only its length is kept: a number is its count of    *)
(* decimal digits, a detail its count of letters (NoDetail for the null    *)
(* pointer), a quoted string what it is after escaping.                    *)
(***************************************************************************)
EXTENDS Efi, Integers

CONSTANTS
    Digits32, Digits64,  \* digits of 32-bit and of 64-bit numbers
    PageDigits,          \* digits of a page count that parse_map accepts
    EscapedLengths       \* lengths of escaped texts (bounds the model)

ASSUME TextAssumption ==
    /\ Digits32 \subseteq 1 .. 10 /\ Digits64 \subseteq 1 .. 20
    /\ PageDigits \subseteq 1 .. 16 /\ EscapedLengths \subseteq Nat

\* Lengths of the keys and of the states' names.
Keys == [build |-> 5, firmware_vendor |-> 15, units |-> 5, value |-> 5,
    firmware_revision |-> 17, uefi_revision |-> 13, loaded_image |-> 12,
    efi_status |-> 10, base |-> 4, size |-> 4, device_path |-> 11,
    representation |-> 14, boot_services_map |-> 17, attempts |-> 8,
    release_status |-> 14, count |-> 5, descriptor_stride |-> 17,
    descriptor_version |-> 18, descriptors |-> 11, physical |-> 8,
    pages |-> 5, attributes |-> 10, omitted |-> 7, firmware_dt |-> 11,
    tables_searched |-> 15, tables_total |-> 12, version |-> 7,
    last_comp_version |-> 17, model |-> 5, length |-> 6, SecureBoot |-> 10,
    SetupMode |-> 9, CurrentEL |-> 9, raw |-> 3, reported_level |-> 14,
    execution_context |-> 17, record_truncated |-> 16]

state_name == [observed |-> 8, unavailable |-> 11, unsupported |-> 11,
               malformed |-> 9, not_probed |-> 10, truncated |-> 9]

Null == 4
NoDetail == 0
MaxDetail == 22   \* the longest is "too_small_inconsistent"
Details == 0 .. MaxDetail

\* A comma, the quoted key and a colon.
key(k) == Keys[k] + 4

\* Eighteen digits and letters in quotes.
Hex == 20
hex(k) == key(k) + Hex

\* A key with a number.
number(k, digits) == key(k) + digits

\* A key with a value of n characters, or with null where it was not
\* observed.
field(k, observed, n) == key(k) + (IF observed THEN n ELSE Null)

\* Opens the object of an observation.
status_field(k, s, detail) ==
    key(k) + 11 + state_name[s] + 11
      + (IF detail = NoDetail THEN Null ELSE detail + 2)

\* Each unit of an escaped text becomes itself, a backslash and itself, or
\* six characters.
EscapeWidth == 6
Escaped(units) == {n \in EscapedLengths : n \in units .. EscapeWidth * units}

Quoted(n) == n + 2
=============================================================================
