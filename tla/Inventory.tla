----------------------------- MODULE Inventory -----------------------------
(***************************************************************************)
(* What efi_main of probe.c observes, in the order it does, and the record *)
(* it builds from that.  Each observation may fail in every way its caller *)
(* can tell apart; the memory map and the device tree are what acquire_map *)
(* (module MapAcquisition) and parse_firmware_dt (module DeviceTree)       *)
(* return.  build_record is followed field by field: `length` is what the  *)
(* fields add to the text, and the record is complete, NUL included, when  *)
(* it stays below RECORD_CAPACITY (module Writer).                         *)
(***************************************************************************)
EXTENDS RecordText, Sequences

CONSTANTS
    CONFIG_TABLE_LIMIT, VENDOR_LIMIT, DT_MODEL_LIMIT,
    REPORTED_DESCRIPTORS, RECORD_CAPACITY,
    Statuses,      \* answers of the firmware
    MapOutcomes,   \* what acquire_map returns
    DtOutcomes,    \* what parse_firmware_dt returns
    Tables,        \* configuration tables
    Vendors,       \* FirmwareVendor strings
    Answers,       \* sizes and values that GetVariable returns
    Raws           \* values of the CurrentEL register

Result(s, detail) == [state |-> s, detail |-> detail]
Observation == [state : State, detail : Details]
Entries == {"other", "null", "tree"}  \* other GUID, no table, a blob

\* A table may be missing though it has entries.  A vendor has `units` code
\* units before its NUL; the first surrogate is at `surrogate`, or nowhere.
TableType == [missing : BOOLEAN, entries : Seq(Entries)]
VendorType == [missing : BOOLEAN, units : Nat, surrogate : Nat]

ASSUME InventoryAssumption ==
    /\ CONFIG_TABLE_LIMIT \in Nat /\ VENDOR_LIMIT \in Nat
    /\ DT_MODEL_LIMIT \in Nat /\ REPORTED_DESCRIPTORS \in Nat
    /\ RECORD_CAPACITY \in Nat /\ Statuses \subseteq EFI_STATUS
    /\ Raws \subseteq Nat /\ Answers \subseteq [size : Nat, value : Nat]
    /\ MapOutcomes \subseteq [state : State, detail : Details, count : Nat]
    /\ DtOutcomes \subseteq [state : State \ {"unavailable", "not_probed"},
                             detail : Details, model : State]
    /\ \A t \in Tables : t \in TableType
    /\ \A v \in Vendors : v \in VendorType

\* No record is longer: the fixed text with every observation at its
\* longest, and what the limits let through.
LongestRecord ==
    1450 + EscapeWidth * (VENDOR_LIMIT + DT_MODEL_LIMIT) + 111 * REPORTED_DESCRIPTORS

ASSUME CapacityAssumption == RECORD_CAPACITY > LongestRecord

VARIABLES
    at,         \* the next observation or part of the record
    table,      \* the firmware's configuration table
    searched,   \* entries of it that were looked at
    image,      \* "null", or the loaded image "without_path" or "with_path"
    map, dt, secure, setup, el,  \* the observations
    listed,     \* descriptors in the record
    length      \* characters of the record so far

vars == <<at, table, searched, image, map, dt, secure, setup, el, listed, length>>
seen == <<table, searched, image, map, dt, secure, setup, el>>

Stages == {"image", "map", "table", "search", "SecureBoot", "SetupMode", "el",
           "vendor_text", "image_text", "map_text", "descriptors", "dt_text",
           "variables_text", "el_text", "built"}

NotYet == Result("not_probed", NoDetail)

Init ==
    /\ at = "image" /\ table \in Tables /\ searched = 0 /\ image = "null"
    /\ map = [state |-> "not_probed", detail |-> NoDetail, count |-> 0]
    /\ dt = [state |-> "unavailable", detail |-> 6, model |-> "not_probed"]
    /\ secure = NotYet /\ setup = NotYet /\ el = "malformed"
    /\ listed = 0 /\ length = 0

-----------------------------------------------------------------------------
(* The image and the memory map.                                           *)

\* The protocol is used unless the call was impossible or an error; a
\* success may still leave a null interface behind.
HandleProtocol(present, s, interface) ==
    /\ at = "image" /\ at' = "map"
    /\ image' = IF present /\ ~EFI_ERROR(s) THEN interface ELSE "null"
    /\ UNCHANGED <<table, searched, map, dt, secure, setup, el, listed, length>>

AcquireMap(m) ==
    /\ at = "map" /\ at' = "table"
    /\ map' = m
    /\ UNCHANGED <<table, searched, image, dt, secure, setup, el, listed, length>>

-----------------------------------------------------------------------------
(* find_dt.                                                                *)

total == Len(table.entries)

\* Mistaken variant: the table is searched to its end, however long.
WholeTable == total

\* How many of the entries are searched.
Searchable == IF total > CONFIG_TABLE_LIMIT THEN CONFIG_TABLE_LIMIT ELSE total

FoundDt(s, detail) == dt' = [state |-> s, detail |-> detail, model |-> "not_probed"]

EnterSearch ==
    /\ at = "table"
    /\ IF total # 0 /\ table.missing
         THEN at' = "SecureBoot" /\ FoundDt("malformed", 17)
         ELSE at' = "search" /\ UNCHANGED dt
    /\ UNCHANGED <<table, searched, image, map, secure, setup, el, listed, length>>

\* One entry; r is what parse_firmware_dt makes of a blob.
SearchEntry(r) ==
    /\ at = "search" /\ searched < Searchable
    /\ searched' = searched + 1
    /\ LET entry == table.entries[searched + 1]
       IN \/ entry = "other" /\ UNCHANGED <<at, dt>>
          \/ entry = "null" /\ at' = "SecureBoot" /\ FoundDt("malformed", 10)
          \/ entry = "tree" /\ at' = "SecureBoot" /\ dt' = r
    /\ UNCHANGED <<table, image, map, secure, setup, el, listed, length>>

\* Mistaken variant: what was not searched counts as absent.
NothingMissed == FALSE

EntriesLeft == total > Searchable

\* No entry that was looked at is the device tree's.
SearchEnds ==
    /\ at = "search" /\ searched = Searchable
    /\ at' = "SecureBoot"
    /\ IF EntriesLeft THEN FoundDt("not_probed", 12) ELSE UNCHANGED dt
    /\ UNCHANGED <<table, searched, image, map, secure, setup, el, listed, length>>

-----------------------------------------------------------------------------
(* The variables and the exception level.                                  *)

parse_var(s, answer) ==
    IF s = "EFI_NOT_FOUND" THEN Result("unavailable", 9)
    ELSE IF s = "EFI_BUFFER_TOO_SMALL" THEN Result("malformed", 13)
    ELSE IF s = "EFI_UNSUPPORTED" THEN Result("unsupported", 19)
    ELSE IF EFI_ERROR(s) THEN Result("unavailable", 9)
    ELSE IF s # "EFI_SUCCESS" THEN Result("unsupported", 14)
    ELSE IF answer.size # 1 THEN Result("malformed", 13)
    ELSE IF answer.value > 1 THEN Result("malformed", 11)
    ELSE Result("observed", NoDetail)

\* GetVariable, or its absence.
variable(present, s, answer) ==
    IF present THEN parse_var(s, answer) ELSE Result("unavailable", 15)

SecureBoot(v) ==
    /\ at = "SecureBoot" /\ at' = "SetupMode"
    /\ secure' = v
    /\ UNCHANGED <<table, searched, image, map, dt, setup, el, listed, length>>

SetupMode(v) ==
    /\ at = "SetupMode" /\ at' = "el"
    /\ setup' = v
    /\ UNCHANGED <<table, searched, image, map, dt, secure, el, listed, length>>

\* Only bits 2 and 3 may be set, and one of them must be.
decode_el(raw) ==
    IF raw % 4 = 0 /\ raw \div 4 \in 1 .. 3 THEN "observed" ELSE "malformed"

CurrentEL(raw) ==
    /\ at = "el" /\ at' = "vendor_text"
    /\ el' = decode_el(raw)
    /\ UNCHANGED <<table, searched, image, map, dt, secure, setup, listed, length>>

-----------------------------------------------------------------------------
(* The record.                                                             *)

\* The fields of one stage, and the stage that follows.
Write(stage, n, next) ==
    /\ at = stage /\ at' = next
    /\ length' = length + n
    /\ UNCHANGED <<seen, listed>>

Kept(units) == IF units < VENDOR_LIMIT THEN units ELSE VENDOR_LIMIT

\* A surrogate after the units that are kept is not noticed.
read_vendor(v) ==
    IF v.missing THEN [state |-> "unavailable", units |-> 0]
    ELSE IF v.surrogate < Kept(v.units) THEN [state |-> "unsupported", units |-> 0]
    ELSE [state |-> IF v.units > VENDOR_LIMIT THEN "truncated" ELSE "observed",
          units |-> Kept(v.units)]

VendorText(r, digits, escaped) ==
    status_field("firmware_vendor", r.state, IF r.state = "unsupported" THEN 14 ELSE NoDetail)
      + number("units", digits)
      + field("value", r.state \in {"observed", "truncated"}, Quoted(escaped)) + 1

\* The start of the record, the vendor and the two revisions.
RecordVendor(v) ==
    \E units, revision, uefi \in Digits32, escaped \in Escaped(read_vendor(v).units) :
      Write("vendor_text",
            11 + key("build") + 20 + VendorText(read_vendor(v), units, escaped)
              + number("firmware_revision", revision) + number("uefi_revision", uefi),
            "image_text")

Loaded == image # "null"
PathState ==
    IF image = "with_path" THEN "observed" ELSE IF Loaded THEN "unavailable" ELSE "not_probed"

ImageText(size) ==
    status_field("loaded_image", IF Loaded THEN "observed" ELSE "unavailable",
                 IF Loaded THEN NoDetail ELSE 15)
      + hex("efi_status") + field("base", Loaded, Hex)
      + field("size", Loaded, size) + 1
      + status_field("device_path", PathState, NoDetail)
      + key("representation") + 23

RecordImage == \E size \in Digits64 : Write("image_text", ImageText(size), "map_text")

MapObserved == map.state = "observed"

MapText(attempts, count, stride, version) ==
    status_field("boot_services_map", map.state, map.detail)
      + hex("efi_status") + number("attempts", attempts)
      + hex("release_status") + field("count", MapObserved, count)
      + field("descriptor_stride", MapObserved, stride)
      + field("descriptor_version", MapObserved, version)
      + key("descriptors") + 1

RecordMap ==
    \E attempts, count, stride, version \in Digits32 :
      Write("map_text", MapText(attempts, count, stride, version), "descriptors")

\* Mistaken variant: every descriptor is listed.
AllReported(count) == count

Reported(count) == IF count < REPORTED_DESCRIPTORS THEN count ELSE REPORTED_DESCRIPTORS

MoreDescriptors == MapObserved /\ listed < Reported(map.count)

DescriptorText(type, pages) ==
    (IF listed = 0 THEN 0 ELSE 1) + 8 + type + hex("physical")
      + number("pages", pages) + hex("attributes") + 1

RecordDescriptor ==
    /\ at = "descriptors" /\ MoreDescriptors
    /\ listed' = listed + 1
    /\ \E type \in Digits32, pages \in PageDigits :
          length' = length + DescriptorText(type, pages)
    /\ UNCHANGED <<at, seen>>

RecordMapEnds ==
    /\ ~MoreDescriptors
    /\ \E omitted \in Digits32 :
          Write("descriptors", 1 + field("omitted", MapObserved, omitted) + 1, "dt_text")

DtObserved == dt.state = "observed"
HasModel == DtObserved /\ dt.model \in {"observed", "truncated"}

\* d has the digits of the numbers; the model has `escaped` characters.
DtText(d, escaped) ==
    status_field("firmware_dt", dt.state, dt.detail)
      + number("tables_searched", d.searched) + number("tables_total", d.total)
      + field("size", DtObserved, d.size) + field("version", DtObserved, d.version)
      + field("last_comp_version", DtObserved, d.last)
      + status_field("model", IF DtObserved THEN dt.model ELSE "not_probed", NoDetail)
      + field("length", HasModel, d.model)
      + field("value", HasModel, Quoted(escaped)) + 2

DtDigits == [searched : Digits64, total : Digits64, size : Digits32,
             version : Digits32, last : Digits32, model : Digits32]

RecordDt ==
    \E d \in DtDigits, units \in 0 .. DT_MODEL_LIMIT : \E escaped \in Escaped(units) :
      Write("dt_text", DtText(d, escaped), "variables_text")

var_field(k, v) ==
    status_field(k, v.state, v.detail)
      + hex("efi_status") + field("value", v.state = "observed", 1) + 1

RecordVariables ==
    Write("variables_text",
          var_field("SecureBoot", secure) + var_field("SetupMode", setup), "el_text")

\* The last observation and the end of the record.
RecordEl ==
    Write("el_text",
          status_field("CurrentEL", el, NoDetail) + hex("raw")
            + field("reported_level", el = "observed", 1) + 1
            + key("execution_context") + 17 + key("record_truncated") + 6,
          "built")

Next ==
    \/ \E present \in BOOLEAN, s \in Statuses, i \in {"null", "without_path", "with_path"} :
          HandleProtocol(present, s, i)
    \/ \E m \in MapOutcomes : AcquireMap(m)
    \/ EnterSearch \/ SearchEnds
    \/ \E r \in DtOutcomes : SearchEntry(r)
    \/ \E present \in BOOLEAN, s \in Statuses, a \in Answers :
          \/ SecureBoot(variable(present, s, a))
          \/ SetupMode(variable(present, s, a))
    \/ \E raw \in Raws : CurrentEL(raw)
    \/ \E v \in Vendors : RecordVendor(v)
    \/ RecordImage \/ RecordMap \/ RecordDescriptor \/ RecordMapEnds
    \/ RecordDt \/ RecordVariables \/ RecordEl

Spec == Init /\ [][Next]_vars

-----------------------------------------------------------------------------
(* Properties.                                                             *)

TypeOK ==
    /\ at \in Stages /\ table \in Tables /\ searched \in 0 .. total
    /\ image \in {"null", "without_path", "with_path"}
    /\ map \in [state : State, detail : Details, count : Nat]
    /\ dt \in [state : State, detail : Details, model : State]
    /\ secure \in Observation /\ setup \in Observation
    /\ el \in {"observed", "malformed"}
    /\ listed \in 0 .. REPORTED_DESCRIPTORS /\ length \in Nat

BeforeSearchEnds == at \in {"image", "map", "table", "search"}
Trees == {i \in 1 .. total : table.entries[i] # "other"}

\* core.h: "not examined (dependency failed or search limit reached)" is
\* not_probed.  A device tree is called absent only when the whole table
\* was looked at and has none; one that exists is passed over only when it
\* lies behind the limit, and then absence is not claimed.
AbsenceIsConfirmed ==
    ~BeforeSearchEnds =>
      /\ dt.state = "unavailable" => Trees = {} /\ searched = total
      /\ dt.state = "not_probed" =>
           /\ total > CONFIG_TABLE_LIMIT
           /\ \A i \in Trees : i > CONFIG_TABLE_LIMIT

\* The search ends at the first entry for a device tree, whatever follows
\* it, and otherwise looks at no more than CONFIG_TABLE_LIMIT entries; a
\* missing table is not read at all.
FirstTreeDecides ==
    /\ searched <= CONFIG_TABLE_LIMIT
    /\ table.missing /\ total # 0 => searched = 0
    /\ ~BeforeSearchEnds /\ ~table.missing =>
         /\ \A i \in Trees : i >= searched
         /\ dt.state \notin {"unavailable", "not_probed"} => searched \in Trees

\* Any combination of observations leaves room for the whole record and its
\* NUL: efi_main's marker for a truncated record is never needed with the
\* capacity of core.h.
RecordFits == length < RECORD_CAPACITY
=============================================================================
