--------------------------- MODULE Record_proofs ---------------------------
(***************************************************************************)
(* The record: the writer that keeps it (module Writer), and the           *)
(* observations whose texts it is made of (module Inventory).              *)
(***************************************************************************)
EXTENDS Writer, Inventory, TLAPS

-----------------------------------------------------------------------------
(* The writer never leaves its buffer and its flag is exact, for every     *)
(* capacity and every text.                                                *)

\* Together the two properties are inductive once it is known that a buffer
\* that lost text is full: a later, shorter text can not fill a gap.
FullOnceTruncated == truncated => ~Room(Len(data))

WInv == WriterTypeOK /\ InsideBuffer /\ TruncationIsHonest /\ FullOnceTruncated

\* The writer starts with everything it was given: nothing.
LEMMA WriterStart == WriterInit => WInv
<1> SUFFICES ASSUME WriterInit PROVE WInv
  OBVIOUS
<1>1. /\ capacity \in Nat /\ data = <<>> /\ all = <<>> /\ nul = NoNul
      /\ Len(data) = 0 /\ Len(all) = 0
  BY WriterAssumption DEF WriterInit
<1>2. ~truncated /\ truncated \in BOOLEAN
  BY DEF WriterInit
<1>3. WriterTypeOK
  BY <1>1, <1>2 DEF WriterTypeOK
<1>4. InsideBuffer
  BY <1>1 DEF InsideBuffer
<1>5. TruncationIsHonest
  BY <1>1, <1>2 DEF TruncationIsHonest
<1>. QED  BY <1>2, <1>3, <1>4, <1>5 DEF WInv, FullOnceTruncated

\* A unit is stored exactly when there is room for it and its NUL.
LEMMA PutStep ==
    ASSUME WInv, NEW u \in Units, Put(u)
    PROVE  WInv'
<1>1. /\ capacity \in Nat /\ data \in Seq(Units) /\ all \in Seq(Units)
      /\ truncated \in BOOLEAN /\ capacity' = capacity
      /\ all' = Append(all, u)
      /\ nul' = IF capacity > 0 THEN Len(data') ELSE NoNul
  BY DEF WInv, WriterTypeOK, Put
<1>2. CASE Room(Len(data))
  <2>0. ~truncated
    BY <1>2 DEF WInv, FullOnceTruncated
  <2>1. data' = Append(data, u) /\ ~truncated' /\ truncated' \in BOOLEAN
    BY <1>2, <2>0 DEF Put, Truncates
  <2>2. data' = all'
    <3>1. Len(data) = Len(all) /\ \A n \in 1 .. Len(data) : data[n] = all[n]
      BY <1>1, <2>0 DEF WInv, TruncationIsHonest
    <3>2. data = all
      BY <1>1, <3>1
    <3>. QED  BY <1>1, <2>1, <3>2
  <2>3. Len(data') = Len(data) + 1 /\ Len(data') < capacity
    BY <1>1, <1>2, <2>1 DEF Room
  <2>4. WriterTypeOK'
    BY <1>1, <2>1 DEF WriterTypeOK
  <2>. QED  BY <1>1, <2>0, <2>1, <2>2, <2>3, <2>4
            DEF WInv, InsideBuffer, TruncationIsHonest, FullOnceTruncated, WriterTypeOK
<1>3. CASE ~Room(Len(data))
  <2>1. data' = data /\ truncated'
    BY <1>3 DEF Put, Truncates
  <2>2. Len(all') = Len(all) + 1 /\ \A n \in 1 .. Len(all) : all'[n] = all[n]
    BY <1>1
  <2>3. TruncationIsHonest'
    BY <1>1, <2>1, <2>2 DEF WInv, TruncationIsHonest
  <2>4. WriterTypeOK' /\ InsideBuffer'
    BY <1>1, <2>1 DEF WInv, WriterTypeOK, InsideBuffer, NoNul, Truncates, Put
  <2>5. FullOnceTruncated'
    BY <1>1, <1>3, <2>1 DEF FullOnceTruncated, Room
  <2>. QED  BY <2>3, <2>4, <2>5 DEF WInv
<1>. QED  BY <1>2, <1>3

\* An empty text only writes the NUL again.
LEMMA PutEmptyStep == WInv /\ PutEmpty => WInv'
  BY DEF WInv, WriterTypeOK, InsideBuffer, TruncationIsHonest, FullOnceTruncated,
         PutEmpty, NoNul, Room

\* The invariant holds in every reachable state.
LEMMA WriterInvariance == WriterSpec => []WInv
<1>1. WInv /\ [WriterNext]_writer_vars => WInv'
  <2> SUFFICES ASSUME WInv, [WriterNext]_writer_vars PROVE WInv'
    OBVIOUS
  <2>1. CASE UNCHANGED writer_vars
    BY <2>1 DEF writer_vars, WInv, WriterTypeOK, InsideBuffer, TruncationIsHonest,
                FullOnceTruncated, Room
  <2>. QED  BY <2>1, PutStep, PutEmptyStep DEF WriterNext
<1>. QED  BY <1>1, WriterStart, PTL DEF WriterSpec

\* The writer keeps its types.
THEOREM WriterTypes == WriterSpec => []WriterTypeOK
  BY WriterInvariance, PTL DEF WInv

\* No unit and no NUL is ever written outside the buffer.
THEOREM StaysInsideBuffer == WriterSpec => []InsideBuffer
  BY WriterInvariance, PTL DEF WInv

\* What the buffer holds is a prefix of the text, all of it exactly when
\* `truncated` is clear.
THEOREM HonestTruncation == WriterSpec => []TruncationIsHonest
  BY WriterInvariance, PTL DEF WInv

\* The flag tells the length of the whole text: module EfiMain, where the
\* record is its length, takes it for `length >= RECORD_CAPACITY`.
FlagIsLength == capacity > 0 => (truncated <=> Len(all) >= capacity)

\* core.c 237-239: a text is truncated exactly when it leaves no room for the
\* NUL, however it was put together, and is kept whole otherwise; so a record
\* that RecordFits bounds is printed as it is.
THEOREM FlagTellsLength == WriterSpec => []FlagIsLength
<1>1. ASSUME WInv PROVE FlagIsLength
  <2>1. /\ capacity \in Nat /\ Len(data) \in Nat /\ Len(all) \in Nat
        /\ truncated \in BOOLEAN
    BY <1>1 DEF WInv, WriterTypeOK
  <2>2. CASE truncated
    BY <1>1, <2>1, <2>2 DEF WInv, FullOnceTruncated, TruncationIsHonest, Room, FlagIsLength
  <2>3. CASE ~truncated
    BY <1>1, <2>1, <2>3 DEF WInv, TruncationIsHonest, InsideBuffer, FlagIsLength
  <2>. QED  BY <2>2, <2>3
<1>. QED  BY <1>1, WriterInvariance, PTL

-----------------------------------------------------------------------------
(* The observations, and the length of the record that states them.        *)

\* What key adds for the fields with plain values, spelled out once so that
\* the sums below need no records.
LEMMA KeyLengths ==
    /\ key("build") = 9 /\ key("units") = 9 /\ key("value") = 9
    /\ key("firmware_revision") = 21 /\ key("uefi_revision") = 17
    /\ key("efi_status") = 14 /\ key("base") = 8 /\ key("size") = 8
    /\ key("representation") = 18 /\ key("attempts") = 12
    /\ key("release_status") = 18 /\ key("count") = 9
    /\ key("descriptor_stride") = 21 /\ key("descriptor_version") = 22
    /\ key("descriptors") = 15 /\ key("physical") = 12 /\ key("pages") = 9
    /\ key("attributes") = 14 /\ key("omitted") = 11
    /\ key("tables_searched") = 19 /\ key("tables_total") = 16
    /\ key("version") = 11 /\ key("last_comp_version") = 21
    /\ key("length") = 10 /\ key("raw") = 7 /\ key("reported_level") = 18
    /\ key("execution_context") = 21 /\ key("record_truncated") = 20
  BY DEF key, Keys

\* The same for the fields that are objects.
LEMMA ObjectKeys ==
    /\ key("firmware_vendor") = 19 /\ key("loaded_image") = 16
    /\ key("device_path") = 15 /\ key("boot_services_map") = 21
    /\ key("firmware_dt") = 15 /\ key("model") = 9
    /\ key("SecureBoot") = 14 /\ key("SetupMode") = 13
    /\ key("CurrentEL") = 13
  BY DEF key, Keys

\* The names of the states have eight to eleven letters.
LEMMA NameLengths ==
    /\ \A s \in State : state_name[s] \in 8 .. 11
    /\ state_name["observed"] = 8
  BY DEF state_name, State

\* What a status field can add at most: eleven letters of a state's name
\* and a quoted detail of 22.
LEMMA StatusBound ==
    ASSUME NEW k, key(k) \in Nat, NEW s \in State, NEW d \in Details
    PROVE  status_field(k, s, d) \in Nat /\ status_field(k, s, d) <= key(k) + 57
  BY NameLengths DEF status_field, Details, MaxDetail, NoDetail, Null

\* The same without a detail.
LEMMA PlainStatusBound ==
    ASSUME NEW k, key(k) \in Nat, NEW s \in State
    PROVE  status_field(k, s, NoDetail) \in Nat /\ status_field(k, s, NoDetail) <= key(k) + 37
  BY NameLengths DEF status_field, NoDetail, Null

-----------------------------------------------------------------------------
(* What each stage of the record adds.                                     *)

\* The start of the record: the text of a vendor is the only part whose
\* length a limit decides.
LEMMA VendorBound ==
    ASSUME NEW v \in VendorType, NEW digits \in Digits32, NEW revision \in Digits32,
           NEW uefi \in Digits32, NEW escaped \in Escaped(read_vendor(v).units)
    PROVE  LET n == 11 + key("build") + 20 + VendorText(read_vendor(v), digits, escaped)
                      + number("firmware_revision", revision)
                      + number("uefi_revision", uefi)
           IN n \in Nat /\ n <= 200 + EscapeWidth * VENDOR_LIMIT
<1> DEFINE r == read_vendor(v)
<1>1. r.state \in State /\ r.units \in 0 .. VENDOR_LIMIT
  BY InventoryAssumption DEF read_vendor, Kept, VendorType, State
<1>2. escaped \in 0 .. EscapeWidth * VENDOR_LIMIT
  BY <1>1, InventoryAssumption, TextAssumption DEF Escaped, EscapeWidth
<1>3. digits \in 1 .. 10 /\ revision \in 1 .. 10 /\ uefi \in 1 .. 10
  BY TextAssumption
<1>4. /\ number("units", digits) \in Nat /\ number("units", digits) <= 19
      /\ number("firmware_revision", revision) \in Nat
      /\ number("firmware_revision", revision) <= 31
      /\ number("uefi_revision", uefi) \in Nat
      /\ number("uefi_revision", uefi) <= 27
  BY <1>3, KeyLengths DEF number
<1>5. /\ VendorText(r, digits, escaped) \in Nat
      /\ VendorText(r, digits, escaped) <= 101 + EscapeWidth * VENDOR_LIMIT
  <2>1. status_field("firmware_vendor", r.state, IF r.state = "unsupported" THEN 14 ELSE NoDetail) \in Nat
    BY <1>1, ObjectKeys, NameLengths DEF status_field, NoDetail, Null
  <2>2. status_field("firmware_vendor", r.state, IF r.state = "unsupported" THEN 14 ELSE NoDetail) <= 68
    BY <1>1, ObjectKeys, NameLengths DEF status_field, NoDetail, Null
  <2>3. /\ field("value", r.state \in {"observed", "truncated"}, Quoted(escaped)) \in Nat
        /\ field("value", r.state \in {"observed", "truncated"}, Quoted(escaped))
             <= 13 + EscapeWidth * VENDOR_LIMIT
    BY <1>2, KeyLengths, InventoryAssumption DEF field, Null, Quoted, EscapeWidth
  <2> DEFINE s1 == status_field("firmware_vendor", r.state,
                                IF r.state = "unsupported" THEN 14 ELSE NoDetail)
                     + number("units", digits)
  <2>4. s1 \in Nat /\ s1 <= 87
    BY <1>4, <2>1, <2>2
  <2> HIDE DEF s1
  <2>5. LET n == s1 + field("value", r.state \in {"observed", "truncated"}, Quoted(escaped)) + 1
        IN n \in Nat /\ n <= 101 + EscapeWidth * VENDOR_LIMIT
    BY <2>3, <2>4, InventoryAssumption DEF EscapeWidth
  <2> QED BY <2>5 DEF VendorText, s1
<1> HIDE DEF r
<1> DEFINE s2 == 11 + key("build") + 20 + VendorText(r, digits, escaped)
<1>6. s2 \in Nat /\ s2 <= 141 + EscapeWidth * VENDOR_LIMIT
  BY <1>5, KeyLengths, InventoryAssumption DEF EscapeWidth
<1> HIDE DEF s2
<1>7. LET n == s2 + number("firmware_revision", revision)
                 + number("uefi_revision", uefi)
      IN n \in Nat /\ n <= 200 + EscapeWidth * VENDOR_LIMIT
  BY <1>4, <1>6, InventoryAssumption DEF EscapeWidth
<1> QED BY <1>7 DEF s2, r

\* The loaded image and its path.
LEMMA ImageBound ==
    ASSUME NEW size \in Digits64, TypeOK
    PROVE  ImageText(size) \in Nat /\ ImageText(size) <= 251
<1>1. /\ status_field("loaded_image", IF Loaded THEN "observed" ELSE "unavailable",
                      IF Loaded THEN NoDetail ELSE 15) \in Nat
      /\ status_field("loaded_image", IF Loaded THEN "observed" ELSE "unavailable",
                      IF Loaded THEN NoDetail ELSE 15) <= 66
  BY ObjectKeys, NameLengths DEF status_field, NoDetail, Null, State
<1>2. /\ status_field("device_path", PathState, NoDetail) \in Nat
      /\ status_field("device_path", PathState, NoDetail) <= 52
  BY ObjectKeys, PlainStatusBound DEF PathState, State
<1>3. /\ field("base", Loaded, Hex) \in Nat /\ field("base", Loaded, Hex) <= 28
      /\ field("size", Loaded, size) \in Nat /\ field("size", Loaded, size) <= 28
  BY KeyLengths, TextAssumption DEF field, Hex, Null
<1> QED BY <1>1, <1>2, <1>3, KeyLengths DEF ImageText, hex, Hex

\* The memory map up to its list of descriptors.
LEMMA MapBound ==
    ASSUME NEW attempts \in Digits32, NEW count \in Digits32, NEW stride \in Digits32,
           NEW version \in Digits32, TypeOK
    PROVE  /\ MapText(attempts, count, stride, version) \in Nat
           /\ MapText(attempts, count, stride, version) <= 270
<1>1. /\ status_field("boot_services_map", map.state, map.detail) \in Nat
      /\ status_field("boot_services_map", map.state, map.detail) <= 78
  BY ObjectKeys, StatusBound DEF TypeOK
<1>2. /\ number("attempts", attempts) \in Nat
      /\ number("attempts", attempts) <= 22
      /\ field("count", MapObserved, count) \in Nat
      /\ field("count", MapObserved, count) <= 19
      /\ field("descriptor_stride", MapObserved, stride) \in Nat
      /\ field("descriptor_stride", MapObserved, stride) <= 31
      /\ field("descriptor_version", MapObserved, version) \in Nat
      /\ field("descriptor_version", MapObserved, version) <= 32
  BY KeyLengths, TextAssumption DEF field, number, Null
<1>3. hex("efi_status") = 34 /\ hex("release_status") = 38 /\ key("descriptors") = 15
  BY KeyLengths DEF hex, Hex
<1> DEFINE s1 == status_field("boot_services_map", map.state, map.detail)
                 + hex("efi_status") + number("attempts", attempts)
           s2 == s1 + hex("release_status") + field("count", MapObserved, count)
           s3 == s2 + field("descriptor_stride", MapObserved, stride)
                 + field("descriptor_version", MapObserved, version)
<1>4. s1 \in Nat /\ s1 <= 134
  BY <1>1, <1>2, <1>3
<1> HIDE DEF s1
<1>5. s2 \in Nat /\ s2 <= 191
  BY <1>2, <1>3, <1>4
<1> HIDE DEF s2
<1>6. s3 \in Nat /\ s3 <= 254
  BY <1>2, <1>5
<1> HIDE DEF s3
<1>7. s3 + key("descriptors") + 1 \in Nat /\ s3 + key("descriptors") + 1 <= 270
  BY <1>3, <1>6
<1> QED BY <1>7 DEF MapText, s1, s2, s3

\* The device tree, with a model of at most DT_MODEL_LIMIT characters.
LEMMA DtBound ==
    ASSUME NEW d \in DtDigits, NEW units \in 0 .. DT_MODEL_LIMIT,
           NEW escaped \in Escaped(units), TypeOK
    PROVE  DtText(d, escaped) \in Nat /\ DtText(d, escaped) <= 298 + EscapeWidth * DT_MODEL_LIMIT
<1>1. /\ status_field("firmware_dt", dt.state, dt.detail) \in Nat
      /\ status_field("firmware_dt", dt.state, dt.detail) <= 72
  BY ObjectKeys, StatusBound DEF TypeOK
<1>2. /\ status_field("model", IF DtObserved THEN dt.model ELSE "not_probed", NoDetail) \in Nat
      /\ status_field("model", IF DtObserved THEN dt.model ELSE "not_probed", NoDetail) <= 46
  BY ObjectKeys, PlainStatusBound DEF TypeOK, State
<1> DEFINE ds == d.searched  dt_total == d.total  dz == d.size
           dv == d.version  dl == d.last  dm == d.model
<1>0. /\ ds \in 1 .. 20 /\ dt_total \in 1 .. 20
      /\ dz \in 1 .. 10 /\ dv \in 1 .. 10 /\ dl \in 1 .. 10 /\ dm \in 1 .. 10
  BY TextAssumption DEF DtDigits
<1> HIDE DEF ds, dt_total, dz, dv, dl, dm
<1>3. /\ number("tables_searched", ds) \in Nat
      /\ number("tables_searched", ds) <= 39
      /\ number("tables_total", dt_total) \in Nat
      /\ number("tables_total", dt_total) <= 36
  BY <1>0, KeyLengths DEF number
<1>4. /\ field("size", DtObserved, dz) \in Nat /\ field("size", DtObserved, dz) <= 18
      /\ field("version", DtObserved, dv) \in Nat
      /\ field("version", DtObserved, dv) <= 21
      /\ field("last_comp_version", DtObserved, dl) \in Nat
      /\ field("last_comp_version", DtObserved, dl) <= 31
      /\ field("length", HasModel, dm) \in Nat /\ field("length", HasModel, dm) <= 20
  BY <1>0, KeyLengths DEF field, Null
<1>5. escaped \in 0 .. EscapeWidth * DT_MODEL_LIMIT
  BY InventoryAssumption, TextAssumption DEF Escaped, EscapeWidth
<1>6. /\ field("value", HasModel, Quoted(escaped)) \in Nat
      /\ field("value", HasModel, Quoted(escaped)) <= 13 + EscapeWidth * DT_MODEL_LIMIT
  BY <1>5, KeyLengths, InventoryAssumption DEF field, Null, Quoted, EscapeWidth
<1> DEFINE s1 == status_field("firmware_dt", dt.state, dt.detail)
                 + number("tables_searched", ds) + number("tables_total", dt_total)
           s2 == s1 + field("size", DtObserved, dz) + field("version", DtObserved, dv)
           s3 == s2 + field("last_comp_version", DtObserved, dl)
                 + status_field("model", IF DtObserved THEN dt.model ELSE "not_probed", NoDetail)
           s4 == s3 + field("length", HasModel, dm)
           s5 == s4 + field("value", HasModel, Quoted(escaped))
<1>7. s1 \in Nat /\ s1 <= 147
  BY <1>1, <1>3
<1> HIDE DEF s1
<1>8. s2 \in Nat /\ s2 <= 186
  BY <1>4, <1>7
<1> HIDE DEF s2
<1>9. s3 \in Nat /\ s3 <= 263
  BY <1>2, <1>4, <1>8
<1> HIDE DEF s3
<1>10. s4 \in Nat /\ s4 <= 283
  BY <1>4, <1>9
<1> HIDE DEF s4
<1>11. s5 \in Nat /\ s5 <= 296 + EscapeWidth * DT_MODEL_LIMIT
  BY <1>6, <1>10, InventoryAssumption DEF EscapeWidth
<1> HIDE DEF s5
<1>12. s5 + 2 \in Nat /\ s5 + 2 <= 298 + EscapeWidth * DT_MODEL_LIMIT
  BY <1>11, InventoryAssumption DEF EscapeWidth
<1> QED BY <1>12 DEF DtText, s1, s2, s3, s4, s5, ds, dt_total, dz, dv, dl, dm

\* Both variables.
LEMMA VariablesBound ==
    ASSUME TypeOK
    PROVE  LET n == var_field("SecureBoot", secure) + var_field("SetupMode", setup)
           IN n \in Nat /\ n <= 237
<1>1. /\ status_field("SecureBoot", secure.state, secure.detail) \in Nat
      /\ status_field("SecureBoot", secure.state, secure.detail) <= 71
      /\ status_field("SetupMode", setup.state, setup.detail) \in Nat
      /\ status_field("SetupMode", setup.state, setup.detail) <= 70
  BY ObjectKeys, StatusBound DEF TypeOK, Observation
<1>2. /\ field("value", secure.state = "observed", 1) \in Nat
      /\ field("value", secure.state = "observed", 1) <= 13
      /\ field("value", setup.state = "observed", 1) \in Nat
      /\ field("value", setup.state = "observed", 1) <= 13
  BY KeyLengths DEF field, Null
<1>3. hex("efi_status") = 34
  BY KeyLengths DEF hex, Hex
<1>4. var_field("SecureBoot", secure) \in Nat /\ var_field("SecureBoot", secure) <= 119
  BY <1>1, <1>2, <1>3 DEF var_field
<1>5. var_field("SetupMode", setup) \in Nat /\ var_field("SetupMode", setup) <= 118
  BY <1>1, <1>2, <1>3 DEF var_field
<1> QED BY <1>4, <1>5

\* The exception level and the end of the record.
LEMMA ElBound ==
    ASSUME TypeOK
    PROVE  LET n == status_field("CurrentEL", el, NoDetail) + hex("raw")
                      + field("reported_level", el = "observed", 1) + 1
                      + key("execution_context") + 17 + key("record_truncated") + 6
           IN n \in Nat /\ n <= 164
<1>1. /\ status_field("CurrentEL", el, NoDetail) \in Nat
      /\ status_field("CurrentEL", el, NoDetail) <= 50
  BY ObjectKeys, PlainStatusBound DEF TypeOK, State
<1>2. field("reported_level", el = "observed", 1) \in Nat
      /\ field("reported_level", el = "observed", 1) <= 22
  BY KeyLengths DEF field, Null
<1> QED BY <1>1, <1>2, KeyLengths DEF hex, Hex

\* One descriptor, the comma before it included.
LEMMA DescriptorBound ==
    ASSUME NEW type \in Digits32, NEW pages \in PageDigits
    PROVE  DescriptorText(type, pages) \in Nat /\ DescriptorText(type, pages) <= 111
<1>1. type \in 1 .. 10 /\ pages \in 1 .. 16
  BY TextAssumption
<1>2. hex("physical") = 32 /\ hex("attributes") = 34 /\ number("pages", pages) = 9 + pages
  BY KeyLengths DEF hex, Hex, number
<1> QED BY <1>1, <1>2 DEF DescriptorText

-----------------------------------------------------------------------------
(* The invariant.                                                          *)

Observing == {"image", "map", "table"}
Texts == {"vendor_text", "image_text", "map_text", "descriptors", "dt_text",
          "variables_text", "el_text", "built"}

\* While the search goes on, no entry that was looked at is a tree's, and
\* nothing was found.
SearchInv ==
    /\ at \in Observing => searched = 0 /\ dt.state = "unavailable"
    /\ at = "search" => /\ dt.state = "unavailable" /\ searched <= Searchable
                        /\ \A i \in 1 .. searched : table.entries[i] = "other"
                        /\ table.missing => total = 0
    /\ AbsenceIsConfirmed /\ FirstTreeDecides

V == EscapeWidth * VENDOR_LIMIT
M == EscapeWidth * DT_MODEL_LIMIT
D == 111 * REPORTED_DESCRIPTORS

\* How long the record is at most when each of its stages begins.
LengthInv ==
    /\ at \notin Texts \ {"vendor_text"} => length = 0
    /\ at \notin {"descriptors", "dt_text", "variables_text", "el_text", "built"} => listed = 0
    /\ at = "image_text" => length <= 200 + V
    /\ at = "map_text" => length <= 451 + V
    /\ at = "descriptors" => length <= 721 + V + 111 * listed
    /\ at = "dt_text" => length <= 744 + V + D
    /\ at = "variables_text" => length <= 1042 + V + M + D
    /\ at = "el_text" => length <= 1279 + V + M + D
    /\ at = "built" => length <= 1443 + V + M + D

RInv == TypeOK /\ SearchInv /\ LengthInv

\* Each bound leaves room for the NUL.
LEMMA BoundsFit == RInv => RecordFits
<1>1. V \in Nat /\ M \in Nat /\ D \in Nat
  BY InventoryAssumption DEF V, M, D, EscapeWidth
<1>2. RECORD_CAPACITY \in Nat /\ RECORD_CAPACITY > 1450 + V + M + D
  BY InventoryAssumption, CapacityAssumption
  DEF LongestRecord, V, M, D, EscapeWidth
<1>3. SUFFICES ASSUME RInv PROVE length < RECORD_CAPACITY
  BY DEF RecordFits
<1>4. length \in Nat /\ listed \in 0 .. REPORTED_DESCRIPTORS
  BY <1>3 DEF RInv, TypeOK
<1>5. 111 * listed <= D
  BY <1>4, InventoryAssumption DEF D
<1>6. at \in Stages
  BY <1>3 DEF RInv, TypeOK
<1>7. length <= 1450 + V + M + D
  <2> HIDE DEF V, M, D
  <2> QED BY <1>1, <1>3, <1>4, <1>5, <1>6 DEF RInv, LengthInv, Stages, Texts
<1> HIDE DEF V, M, D
<1> QED BY <1>1, <1>2, <1>4, <1>7

\* It holds before anything was observed.
LEMMA InventoryInit == Init => RInv
<1> SUFFICES ASSUME Init PROVE RInv
  OBVIOUS
<1>1. table \in TableType /\ total \in Nat
  BY InventoryAssumption DEF Init, TableType, total
<1>2. TypeOK
  BY <1>1, InventoryAssumption
  DEF Init, TypeOK, Stages, Observation, NotYet, Result, State, Details, MaxDetail, NoDetail
<1>3. SearchInv
  BY InventoryAssumption DEF Init, SearchInv, AbsenceIsConfirmed, FirstTreeDecides, BeforeSearchEnds,
         Observing
<1>4. LengthInv
  BY DEF Init, LengthInv, Texts
<1> QED BY <1>2, <1>3, <1>4 DEF RInv

-----------------------------------------------------------------------------
(* The steps.                                                              *)

\* A step before or after the search leaves what was found as it was.
LEMMA SearchKept ==
    ASSUME SearchInv, UNCHANGED <<table, searched, dt>>,
           \/ at \in Observing /\ at' \in Observing
           \/ at \in Stages \ {"image", "map", "table", "search"}
              /\ at' \in Stages \ {"image", "map", "table", "search"}
    PROVE  SearchInv'
  BY DEF SearchInv, AbsenceIsConfirmed, FirstTreeDecides, BeforeSearchEnds,
         Observing, Searchable, Trees, total, Stages

\* Whatever GetVariable answers becomes an observation.
LEMMA ObservationTypes ==
    ASSUME NEW present \in BOOLEAN, NEW s \in Statuses, NEW a \in Answers
    PROVE  variable(present, s, a) \in Observation
  BY InventoryAssumption
  DEF variable, parse_var, Result, Observation, State, Details, MaxDetail, NoDetail

\* Observing does not write, and only find_dt touches the search.
LEMMA ObservationStep ==
    ASSUME RInv,
           \/ \E present \in BOOLEAN, s \in Statuses, i \in {"null", "without_path", "with_path"} :
                 HandleProtocol(present, s, i)
           \/ \E m \in MapOutcomes : AcquireMap(m)
           \/ \E present \in BOOLEAN, s \in Statuses, a \in Answers :
                 \/ SecureBoot(variable(present, s, a))
                 \/ SetupMode(variable(present, s, a))
           \/ \E raw \in Raws : CurrentEL(raw)
    PROVE  RInv'
<1>1. CASE \E present \in BOOLEAN, s \in Statuses, i \in {"null", "without_path", "with_path"} :
              HandleProtocol(present, s, i)
  <2>1. PICK present \in BOOLEAN, s \in Statuses, i \in {"null", "without_path", "with_path"} :
              HandleProtocol(present, s, i)
    BY <1>1
  <2>2. TypeOK'
    BY <2>1 DEF RInv, TypeOK, HandleProtocol, Stages, total
  <2>3. SearchInv'
    BY <2>1, SearchKept DEF RInv, HandleProtocol, Observing
  <2>4. LengthInv'
    BY <2>1 DEF RInv, LengthInv, HandleProtocol, Texts
  <2> QED BY <2>2, <2>3, <2>4 DEF RInv
<1>2. CASE \E m \in MapOutcomes : AcquireMap(m)
  <2>1. PICK m \in MapOutcomes : AcquireMap(m)
    BY <1>2
  <2>2. TypeOK'
    BY <2>1, InventoryAssumption DEF RInv, TypeOK, AcquireMap, Stages, total
  <2>3. SearchInv'
    BY <2>1, SearchKept DEF RInv, AcquireMap, Observing
  <2>4. LengthInv'
    BY <2>1 DEF RInv, LengthInv, AcquireMap, Texts
  <2> QED BY <2>2, <2>3, <2>4 DEF RInv
<1>3. ASSUME NEW v \in Observation, SecureBoot(v) \/ SetupMode(v)
      PROVE  RInv'
  <2>1. TypeOK'
    BY <1>3 DEF RInv, TypeOK, SecureBoot, SetupMode, Stages, total
  <2>2. SearchInv'
    BY <1>3, SearchKept DEF RInv, SecureBoot, SetupMode, Stages
  <2>3. LengthInv'
    BY <1>3 DEF RInv, LengthInv, SecureBoot, SetupMode, Texts
  <2> QED BY <2>1, <2>2, <2>3 DEF RInv
<1>4. CASE \E raw \in Raws : CurrentEL(raw)
  <2>1. PICK raw \in Raws : CurrentEL(raw)
    BY <1>4
  <2>2. TypeOK'
    BY <2>1 DEF RInv, TypeOK, CurrentEL, decode_el, Stages, total
  <2>3. SearchInv'
    BY <2>1, SearchKept DEF RInv, CurrentEL, Stages
  <2>4. LengthInv'
    BY <2>1 DEF RInv, LengthInv, CurrentEL, Texts
  <2> QED BY <2>2, <2>3, <2>4 DEF RInv
<1> QED BY <1>1, <1>2, <1>3, <1>4, ObservationTypes

\* find_dt returns at once for a missing table, and has seen nothing otherwise.
LEMMA EnterSearchStep == ASSUME RInv, EnterSearch PROVE RInv'
<1>1. TypeOK'
  BY DEF RInv, TypeOK, EnterSearch, FoundDt, Stages, total, State, Details, MaxDetail
<1>2. total \in Nat /\ Searchable \in Nat
  BY InventoryAssumption DEF RInv, TypeOK, total, TableType, Searchable
<1>3. SearchInv'
  <2>1. CASE total # 0 /\ table.missing
    BY <1>2, <2>1, InventoryAssumption DEF RInv, SearchInv, EnterSearch, FoundDt,
       AbsenceIsConfirmed, FirstTreeDecides, BeforeSearchEnds, Observing, total, Trees
  <2>2. CASE ~(total # 0 /\ table.missing)
    BY <1>2, <2>2, InventoryAssumption DEF RInv, SearchInv, EnterSearch,
       AbsenceIsConfirmed, FirstTreeDecides, BeforeSearchEnds, Observing, total, Searchable
  <2> QED BY <2>1, <2>2
<1>4. LengthInv'
  BY DEF RInv, LengthInv, EnterSearch, Texts
<1> QED BY <1>1, <1>3, <1>4 DEF RInv

\* An entry is another one and joins those seen, or it ends the search.
LEMMA SearchEntryStep ==
    ASSUME RInv, NEW r \in DtOutcomes, SearchEntry(r)
    PROVE  RInv'
<1>1. /\ total \in Nat /\ searched \in Nat /\ searched < Searchable
      /\ Searchable \in Nat /\ CONFIG_TABLE_LIMIT \in Nat
      /\ Searchable <= total /\ Searchable <= CONFIG_TABLE_LIMIT
      /\ table' = table /\ searched' = searched + 1 /\ at = "search"
      /\ table.entries[searched + 1] \in Entries
  BY InventoryAssumption DEF RInv, TypeOK, total, TableType, Searchable, SearchEntry
<1>2. at' \in {"search", "SecureBoot"}
  BY <1>1 DEF SearchEntry
<1>3. r \in [state : State, detail : Details, model : State]
      /\ r.state \notin {"unavailable", "not_probed"}
  BY InventoryAssumption
<1>4. TypeOK'
  <2>1. dt' \in [state : State, detail : Details, model : State]
    BY <1>1, <1>3 DEF RInv, TypeOK, SearchEntry, FoundDt, State, Details, MaxDetail
  <2>2. total' = total /\ searched' \in 0 .. total
    BY <1>1 DEF total
  <2> QED BY <1>1, <1>2, <2>1, <2>2 DEF RInv, TypeOK, SearchEntry, Stages
<1>5. SearchInv'
  <2>0. /\ \A i \in 1 .. searched : table.entries[i] = "other"
        /\ table.missing => total = 0
        /\ total' = total /\ Searchable' = Searchable
    BY <1>1 DEF RInv, SearchInv, total, Searchable
  <2>1. CASE table.entries[searched + 1] = "other"
    <3>1. at' = "search" /\ dt' = dt /\ dt.state = "unavailable"
      BY <1>1, <2>1 DEF SearchEntry, RInv, SearchInv
    <3>2. \A i \in 1 .. searched' : table'.entries[i] = "other"
      <4>1. ASSUME NEW i \in 1 .. searched' PROVE i \in 1 .. searched \/ i = searched + 1
        BY <1>1, <4>1
      <4> QED BY <1>1, <2>0, <2>1, <4>1
    <3>3. ~table.missing /\ searched' <= Searchable' /\ searched' <= CONFIG_TABLE_LIMIT
      BY <1>1, <2>0, InventoryAssumption
    <3> QED BY <1>1, <3>1, <3>2, <3>3 DEF SearchInv, AbsenceIsConfirmed, FirstTreeDecides,
            BeforeSearchEnds, Observing
  <2>2. CASE table.entries[searched + 1] # "other"
    <3>1. at' = "SecureBoot" /\ dt'.state \notin {"unavailable", "not_probed"}
      BY <1>1, <1>3, <2>2 DEF SearchEntry, FoundDt
    <3>2. ~table.missing /\ searched' <= CONFIG_TABLE_LIMIT /\ Trees' = Trees
      BY <1>1, <2>0, InventoryAssumption DEF Trees, total
    <3>3. searched' \in Trees
      BY <1>1, <2>2 DEF Trees
    <3>4. ASSUME NEW i \in Trees PROVE i >= searched'
      <4>1. i \in 1 .. total /\ i \notin 1 .. searched
        BY <2>0, <3>4 DEF Trees
      <4> QED BY <1>1, <4>1
    <3> QED BY <1>1, <2>0, <3>1, <3>2, <3>3, <3>4 DEF SearchInv, AbsenceIsConfirmed,
            FirstTreeDecides, BeforeSearchEnds, Observing
  <2> QED BY <2>1, <2>2
<1>6. LengthInv'
  BY <1>1, <1>2 DEF RInv, LengthInv, SearchEntry, Texts
<1> QED BY <1>4, <1>5, <1>6 DEF RInv

\* At the limit the entries left may be trees, at the end of the table none is.
LEMMA SearchEndsStep == ASSUME RInv, SearchEnds PROVE RInv'
<1>1. /\ total \in Nat /\ searched = Searchable /\ at = "search"
      /\ table' = table /\ searched' = searched /\ at' = "SecureBoot"
      /\ CONFIG_TABLE_LIMIT \in Nat
  BY InventoryAssumption DEF RInv, TypeOK, total, TableType, SearchEnds
<1>2. TypeOK'
  BY <1>1 DEF RInv, TypeOK, SearchEnds, FoundDt, Stages, total, State, Details, MaxDetail
<1>3. SearchInv'
  <2>1. \A i \in Trees : i > searched
    BY <1>1 DEF RInv, SearchInv, Trees, Searchable, total
  <2>2. dt.state = "unavailable" /\ (table.missing => total = 0)
    BY <1>1 DEF RInv, SearchInv
  <2>3. CASE EntriesLeft
    <3>1. dt'.state = "not_probed" /\ total > CONFIG_TABLE_LIMIT /\ searched = CONFIG_TABLE_LIMIT
      BY <1>1, <2>3 DEF SearchEnds, FoundDt, EntriesLeft, Searchable
    <3> QED BY <1>1, <2>1, <2>2, <3>1 DEF SearchInv, AbsenceIsConfirmed, FirstTreeDecides,
            BeforeSearchEnds, Observing, total, Trees
  <2>4. CASE ~EntriesLeft
    <3>1. dt' = dt /\ total <= CONFIG_TABLE_LIMIT /\ searched = total
      BY <1>1, <2>4 DEF SearchEnds, EntriesLeft, Searchable
    <3>2. Trees = {}
      BY <1>1, <2>1, <3>1 DEF Trees
    <3> QED BY <1>1, <2>1, <2>2, <3>1, <3>2 DEF SearchInv, AbsenceIsConfirmed, FirstTreeDecides,
            BeforeSearchEnds, Observing, total, Trees
  <2> QED BY <2>3, <2>4
<1>4. LengthInv'
  BY <1>1 DEF RInv, LengthInv, SearchEnds, Texts
<1> QED BY <1>2, <1>3, <1>4 DEF RInv

\* Writing keeps what was observed, and moves on through the record.
LEMMA Written ==
    ASSUME RInv, NEW n \in Nat, NEW stage \in Texts, NEW next \in Texts,
           Write(stage, n, next)
    PROVE  /\ at = stage /\ at' = next /\ length \in Nat /\ length' = length + n
           /\ listed' = listed /\ TypeOK' /\ SearchInv'
<1>1. /\ at = stage /\ at' = next /\ length' = length + n /\ listed' = listed
      /\ UNCHANGED <<table, searched, image, map, dt, secure, setup, el>>
  BY DEF Write, seen
<1>2. length \in Nat /\ total' = total
  BY <1>1 DEF RInv, TypeOK, total
<1>3. TypeOK'
  BY <1>1, <1>2 DEF RInv, TypeOK, Stages, Texts
<1>4. SearchInv'
  BY <1>1, SearchKept DEF RInv, Stages, Texts
<1> QED BY <1>1, <1>2, <1>3, <1>4

\* The variable parts of the bounds are numbers.
LEMMA VMD == V \in Nat /\ M \in Nat /\ D \in Nat
  BY InventoryAssumption DEF V, M, D, EscapeWidth

\* Each stage of build_record moves from its bound to the next one.
LEMMA RecordVendorStep ==
    ASSUME RInv, NEW v \in Vendors, RecordVendor(v)
    PROVE  RInv'
<1>1. PICK digits \in Digits32, revision \in Digits32, uefi \in Digits32,
           escaped \in Escaped(read_vendor(v).units) :
        Write("vendor_text",
            11 + key("build") + 20 + VendorText(read_vendor(v), digits, escaped)
              + number("firmware_revision", revision) + number("uefi_revision", uefi),
            "image_text")
  BY DEF RecordVendor
<1>2. v \in VendorType
  BY InventoryAssumption
<1>3. PICK n \in Nat : n <= 200 + V /\ Write("vendor_text", n, "image_text")
  BY <1>1, <1>2, VendorBound DEF V
<1>4. /\ at = "vendor_text" /\ at' = "image_text" /\ length \in Nat
      /\ length' = length + n /\ listed' = listed /\ TypeOK' /\ SearchInv'
  BY <1>3, Written DEF Texts
<1>5. LengthInv'
  BY <1>3, <1>4, VMD DEF RInv, LengthInv, Texts
<1> QED BY <1>4, <1>5 DEF RInv

LEMMA RecordImageStep == ASSUME RInv, RecordImage PROVE RInv'
<1>1. TypeOK
  BY DEF RInv
<1>2. PICK n \in Nat : n <= 251 /\ Write("image_text", n, "map_text")
  BY <1>1, ImageBound DEF RecordImage
<1>3. /\ at = "image_text" /\ at' = "map_text" /\ length \in Nat
      /\ length' = length + n /\ listed' = listed /\ TypeOK' /\ SearchInv'
  BY <1>2, Written DEF Texts
<1>4. LengthInv'
  BY <1>2, <1>3, VMD DEF RInv, LengthInv, Texts
<1> QED BY <1>3, <1>4 DEF RInv

LEMMA RecordMapStep == ASSUME RInv, RecordMap PROVE RInv'
<1>1. TypeOK
  BY DEF RInv
<1>2. PICK n \in Nat : n <= 270 /\ Write("map_text", n, "descriptors")
  BY <1>1, MapBound DEF RecordMap
<1>3. /\ at = "map_text" /\ at' = "descriptors" /\ length \in Nat
      /\ length' = length + n /\ listed' = listed /\ TypeOK' /\ SearchInv'
  BY <1>2, Written DEF Texts
<1>4. LengthInv'
  BY <1>2, <1>3, VMD DEF RInv, LengthInv, Texts
<1> QED BY <1>3, <1>4 DEF RInv

LEMMA RecordDescriptorStep == ASSUME RInv, RecordDescriptor PROVE RInv'
<1>1. PICK n \in Nat : n <= 111 /\ length' = length + n
  <2>1. PICK type \in Digits32, pages \in PageDigits :
          length' = length + DescriptorText(type, pages)
    BY DEF RecordDescriptor
  <2> QED BY <2>1, DescriptorBound
<1>2. /\ at = "descriptors" /\ at' = at /\ listed' = listed + 1
      /\ UNCHANGED <<table, searched, image, map, dt, secure, setup, el>>
      /\ listed < Reported(map.count)
  BY DEF RecordDescriptor, seen, MoreDescriptors
<1>3. /\ listed \in Nat /\ listed + 1 \in 0 .. REPORTED_DESCRIPTORS
      /\ length \in Nat /\ map.count \in Nat
  BY <1>2, InventoryAssumption DEF RInv, TypeOK, Reported
<1>4. TypeOK'
  BY <1>1, <1>2, <1>3 DEF RInv, TypeOK, total
<1>5. SearchInv'
  BY <1>2, SearchKept DEF RInv, Stages
<1>6. LengthInv'
  BY <1>1, <1>2, <1>3, VMD DEF RInv, LengthInv, Texts
<1> QED BY <1>4, <1>5, <1>6 DEF RInv

LEMMA RecordMapEndsStep == ASSUME RInv, RecordMapEnds PROVE RInv'
<1>1. PICK omitted \in Digits32 :
        Write("descriptors", 1 + field("omitted", MapObserved, omitted) + 1, "dt_text")
  BY DEF RecordMapEnds
<1>2. /\ field("omitted", MapObserved, omitted) \in Nat
      /\ field("omitted", MapObserved, omitted) <= 21
  BY KeyLengths, TextAssumption DEF field, Null
<1>3. PICK n \in Nat : n <= 23 /\ Write("descriptors", n, "dt_text")
  BY <1>1, <1>2
<1>4. /\ at = "descriptors" /\ at' = "dt_text" /\ length \in Nat
      /\ length' = length + n /\ listed' = listed /\ TypeOK' /\ SearchInv'
  BY <1>3, Written DEF Texts
<1>5. 111 * listed <= D
  BY InventoryAssumption DEF RInv, TypeOK, D
<1>6. length <= 721 + V + 111 * listed /\ listed \in Nat
  BY <1>4 DEF RInv, LengthInv, TypeOK
<1>7. length' <= 744 + V + D
  BY <1>3, <1>4, <1>5, <1>6, VMD
<1>8. LengthInv'
  BY <1>4, <1>7 DEF LengthInv, Texts
<1> QED BY <1>4, <1>8 DEF RInv

LEMMA RecordDtStep == ASSUME RInv, RecordDt PROVE RInv'
<1>1. TypeOK
  BY DEF RInv
<1>2. PICK n \in Nat : n <= 298 + M /\ Write("dt_text", n, "variables_text")
  <2>1. PICK d \in DtDigits, units \in 0 .. DT_MODEL_LIMIT :
          \E escaped \in Escaped(units) : Write("dt_text", DtText(d, escaped), "variables_text")
    BY DEF RecordDt
  <2> QED BY <1>1, <2>1, DtBound DEF M
<1>3. /\ at = "dt_text" /\ at' = "variables_text" /\ length \in Nat
      /\ length' = length + n /\ TypeOK' /\ SearchInv'
  BY <1>2, Written DEF Texts
<1>4. LengthInv'
  BY <1>2, <1>3, VMD DEF RInv, LengthInv, Texts
<1> QED BY <1>3, <1>4 DEF RInv

LEMMA RecordVariablesStep == ASSUME RInv, RecordVariables PROVE RInv'
<1>1. TypeOK
  BY DEF RInv
<1>2. PICK n \in Nat : n <= 237 /\ Write("variables_text", n, "el_text")
  BY <1>1, VariablesBound DEF RecordVariables
<1>3. /\ at = "variables_text" /\ at' = "el_text" /\ length \in Nat
      /\ length' = length + n /\ TypeOK' /\ SearchInv'
  BY <1>2, Written DEF Texts
<1>4. LengthInv'
  BY <1>2, <1>3, VMD DEF RInv, LengthInv, Texts
<1> QED BY <1>3, <1>4 DEF RInv

LEMMA RecordElStep == ASSUME RInv, RecordEl PROVE RInv'
<1>1. TypeOK
  BY DEF RInv
<1>2. PICK n \in Nat : n <= 164 /\ Write("el_text", n, "built")
  BY <1>1, ElBound DEF RecordEl
<1>3. /\ at = "el_text" /\ at' = "built" /\ length \in Nat
      /\ length' = length + n /\ TypeOK' /\ SearchInv'
  BY <1>2, Written DEF Texts
<1>4. LengthInv'
  BY <1>2, <1>3, VMD DEF RInv, LengthInv, Texts
<1> QED BY <1>3, <1>4 DEF RInv

\* Nothing happens.
LEMMA InventoryStutter == ASSUME RInv, UNCHANGED vars PROVE RInv'
<1>1. UNCHANGED <<at, table, searched, image, map, dt, secure, setup, el, listed, length>>
  BY DEF vars
<1>2. TypeOK'
  BY <1>1 DEF RInv, TypeOK, total
<1>3. SearchInv'
  BY <1>1 DEF RInv, SearchInv, AbsenceIsConfirmed, FirstTreeDecides, BeforeSearchEnds,
         Searchable, Trees, total
<1>4. LengthInv'
  BY <1>1 DEF RInv, LengthInv
<1> QED BY <1>2, <1>3, <1>4 DEF RInv

-----------------------------------------------------------------------------
(* The theorems.                                                           *)

\* The invariant holds in every state.
LEMMA InventoryInvariant == Spec => []RInv
<1>1. RInv /\ [Next]_vars => RInv'
  BY ObservationStep, EnterSearchStep, SearchEntryStep, SearchEndsStep,
     RecordVendorStep, RecordImageStep, RecordMapStep, RecordDescriptorStep,
     RecordMapEndsStep, RecordDtStep, RecordVariablesStep, RecordElStep,
     InventoryStutter DEF Next
<1> QED BY InventoryInit, <1>1, PTL DEF Spec

\* probe.c 206-227: every observation and the record keep their types.
THEOREM InventoryTypes == Spec => []TypeOK
<1>1. RInv => TypeOK
  BY DEF RInv
<1> QED BY InventoryInvariant, <1>1, PTL

\* find_dt (probe.c 107-119): a device tree is reported absent only when the
\* whole table was searched, however long it is and whatever it holds.
THEOREM AbsenceConfirmed == Spec => []AbsenceIsConfirmed
<1>1. RInv => AbsenceIsConfirmed
  BY DEF RInv, SearchInv
<1> QED BY InventoryInvariant, <1>1, PTL

\* find_dt (probe.c 108-117): the first entry for a device tree decides,
\* within the limit, and a missing table is not read.
THEOREM FirstTree == Spec => []FirstTreeDecides
<1>1. RInv => FirstTreeDecides
  BY DEF RInv, SearchInv
<1> QED BY InventoryInvariant, <1>1, PTL

\* build_record (probe.c 131-194): no combination of observations makes the
\* record longer than its buffer, for all limits that CapacityAssumption
\* admits, those of core.h among them.
THEOREM RecordNeverTruncated == Spec => []RecordFits
  BY InventoryInvariant, BoundsFit, PTL
=============================================================================
