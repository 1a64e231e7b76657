----------------------- MODULE MapAcquisition_proofs -----------------------
(***************************************************************************)
(* Proofs about acquire_map, for every value of the limits and every       *)
(* answer of the firmware.                                                 *)
(***************************************************************************)
EXTENDS MapAcquisition, TLAPS

USE DEF NULL

\* Every result of map_next_capacity is well typed, and a capacity it
\* offers is within MAP_LIMIT and exceeds the old one by more than two
\* descriptors.
LEMMA NextCapacity ==
    ASSUME NEW capacity \in Nat, NEW required \in Nat, NEW stride \in Nat
    PROVE  /\ map_next_capacity(capacity, required, stride) \in [next : Nat, grow : Result]
           /\ map_next_capacity(capacity, required, stride).grow = Observed =>
                /\ map_next_capacity(capacity, required, stride).next <= MAP_LIMIT
                /\ capacity + 2 * DESCRIPTOR_BYTES
                     < map_next_capacity(capacity, required, stride).next
<1> USE MapConstantsAssumption DEF Slack, StrideUnfit, ExceedsLimit
<1>1. CASE StrideUnfit(stride)
  BY <1>1 DEF map_next_capacity, Refuse, map_state, Observed, Result, State, Detail
<1>2. CASE ~StrideUnfit(stride) /\ required <= capacity
  BY <1>2 DEF map_next_capacity, Refuse, map_state, Observed, Result, State, Detail
<1>3. CASE ~StrideUnfit(stride) /\ required > capacity /\ ExceedsLimit(required, stride)
  BY <1>3 DEF map_next_capacity, Refuse, map_state, Observed, Result, State, Detail
<1>4. CASE /\ ~StrideUnfit(stride) /\ ~(required <= capacity)
           /\ ~ExceedsLimit(required, stride)
  BY <1>4 DEF map_next_capacity, map_state, Observed, Result, State, Detail
<1>. QED  BY <1>1, <1>2, <1>3, <1>4

\* A header that passes every check describes a map inside the buffer.
LEMMA HeaderFits ==
    ASSUME NEW capacity \in Nat, NEW length \in Nat, NEW stride \in Nat,
           NEW version \in Nat,
           map_header(capacity, length, stride, version) = Observed
    PROVE  length <= capacity
  BY DEF map_header, Observed, map_state, SizeExceedsBuffer

\* The header checks yield a well-typed verdict, and a header that passes
\* has a stride to divide by.
LEMMA HeaderType ==
    ASSUME NEW capacity \in Nat, NEW length \in Nat, NEW stride \in Nat,
           NEW version \in Nat
    PROVE  /\ map_header(capacity, length, stride, version) \in Result
           /\ map_header(capacity, length, stride, version) = Observed => stride > 0
  BY MapConstantsAssumption DEF map_header, Observed, map_state, Result, State, Detail
\* What the descriptor loop can say is a map result.
LEMMA LoopVerdictsAreResults == LoopVerdicts \subseteq Result
  BY DEF LoopVerdicts, Observed, map_state, Result, State, Detail

-----------------------------------------------------------------------------
(* The invariant.  TypeOK and the properties alone are not inductive: what *)
(* is missing is where in the loop the last buffer stands, that every      *)
(* earlier one was released with success, and what the pending growth      *)
(* guarantees about the next capacity.                                     *)

\* The buffer in scope is the one of the last attempt, still unreleased.
ScopeInv ==
    /\ pc = "entry" => attempts = 0
    /\ pc \in Held =>
         /\ attempts \in Attempts /\ buffer = attempts
         /\ pool[attempts].bytes = cap /\ pool[attempts].tries = 0
    /\ pc \notin Held => buffer = NULL

\* Attempts not made yet own nothing; every attempt made was given a
\* buffer, except that the one that ended the loop may have failed.
PoolInv ==
    /\ \A b \in Attempts : b > attempts => ~GivenOut(b)
    /\ \A b \in Attempts : b < attempts => GivenOut(b)
    /\ pc # "done" => \A b \in Attempts : b <= attempts => GivenOut(b)
    /\ \A b \in Attempts :
         pool[b].tries = IF GivenOut(b) /\ buffer # b THEN 1 ELSE 0

\* While the loop goes on, every release so far succeeded and was counted.
ReleaseInv ==
    /\ pc # "done" => /\ release_status = "EFI_SUCCESS"
                      /\ attempts = releases + (IF pc \in Held THEN 1 ELSE 0)
    /\ attempts = 0 => release_status = "EFI_SUCCESS"
    /\ \A b \in Attempts : b < attempts => pool[b].status = "EFI_SUCCESS"
    /\ \A b \in Attempts : pool[b].tries = 0 => pool[b].status = "EFI_SUCCESS"
    /\ \A b \in Attempts : b = attempts => pool[b].status = release_status

\* The capacity of the next attempt exceeds every earlier one by more than
\* two descriptors, and so does the one a pending growth offers.
GrowthInv ==
    /\ cap \in 1 .. MAP_LIMIT
    /\ pc = "AllocatePool" =>
         \A b \in Attempts :
            b <= attempts => pool[b].bytes + 2 * DESCRIPTOR_BYTES < cap
    /\ pc = "FreePool_retry" /\ growth.grow = Observed =>
         growth.next <= MAP_LIMIT /\ cap + 2 * DESCRIPTOR_BYTES < growth.next
    /\ \A b, c \in Attempts :
         b < c /\ GivenOut(c) =>
           pool[b].bytes + 2 * DESCRIPTOR_BYTES < pool[c].bytes

\* Descriptors are read once, in the attempt that ends the loop.
ReadInv ==
    /\ pc \notin {"FreePool_final", "done"} => read.bytes = 0
    /\ ReadsStayInBuffer

IInv == TypeOK /\ ScopeInv /\ PoolInv /\ ReleaseInv /\ GrowthInv /\ ReadInv
\* The invariant holds when acquire_map is entered.
LEMMA InitInv == Init => IInv
<1> SUFFICES ASSUME Init PROVE IInv
  OBVIOUS
<1> USE AcquisitionAssumption, MapConstantsAssumption DEF Init, Attempts, Held, GivenOut
<1>1. TypeOK
  BY LoopVerdictsAreResults
  DEF TypeOK, Steps, EFI_STATUS, State, Detail, map_fail, MapResult, map_state,
      NoAnswer, NoGrowth, Observed, LoopVerdicts, Result
<1>2. ScopeInv
  BY DEF ScopeInv
<1>3. PoolInv
  BY DEF PoolInv
<1>4. ReleaseInv
  BY DEF ReleaseInv
<1>5. GrowthInv
  BY DEF GrowthInv
<1>6. ReadInv
  BY DEF ReadInv, ReadsStayInBuffer
<1>. QED  BY <1>1, <1>2, <1>3, <1>4, <1>5, <1>6 DEF IInv

\* Each action keeps the invariant: leaving for want of a service,
LEMMA ServiceMissingStep ==
    ASSUME IInv, ServiceMissing
    PROVE  IInv'
<1> USE AcquisitionAssumption, MapConstantsAssumption
    DEF Attempts, Held, Steps, GivenOut, acquisition, ServiceMissing
<1>1. TypeOK'
  BY DEF IInv, TypeOK, ScopeInv, EFI_STATUS, EFI_ERROR, State, Detail, map_fail, MapResult, map_state
<1>2. ScopeInv'
  BY DEF IInv, TypeOK, ScopeInv
<1>3. PoolInv'
  BY DEF IInv, TypeOK, ScopeInv, PoolInv, GrowthInv
<1>4. ReleaseInv'
  BY DEF IInv, TypeOK, ScopeInv, PoolInv, ReleaseInv
<1>5. GrowthInv'
  BY DEF IInv, TypeOK, ScopeInv, PoolInv, GrowthInv
<1>6. ReadInv'
  BY DEF IInv, TypeOK, ScopeInv, ReadInv, ReadsStayInBuffer
<1>. QED  BY <1>1, <1>2, <1>3, <1>4, <1>5, <1>6 DEF IInv

\* entering the loop,
LEMMA ServicesPresentStep ==
    ASSUME IInv, ServicesPresent
    PROVE  IInv'
<1> USE AcquisitionAssumption, MapConstantsAssumption
    DEF Attempts, Held, Steps, GivenOut, acquisition, ServicesPresent
<1>1. TypeOK'
  BY DEF IInv, TypeOK, ScopeInv, EFI_STATUS, EFI_ERROR, State, Detail, map_fail, MapResult, map_state
<1>2. ScopeInv'
  BY DEF IInv, TypeOK, ScopeInv
<1>3. PoolInv'
  BY DEF IInv, TypeOK, ScopeInv, PoolInv, GrowthInv
<1>4. ReleaseInv'
  BY DEF IInv, TypeOK, ScopeInv, PoolInv, ReleaseInv
<1>5. GrowthInv'
  BY DEF IInv, TypeOK, ScopeInv, PoolInv, GrowthInv
<1>6. ReadInv'
  BY DEF IInv, TypeOK, ScopeInv, ReadInv, ReadsStayInBuffer
<1>. QED  BY <1>1, <1>2, <1>3, <1>4, <1>5, <1>6 DEF IInv

\* running out of attempts,
LEMMA RetryLimitStep ==
    ASSUME IInv, RetryLimit
    PROVE  IInv'
<1> USE AcquisitionAssumption, MapConstantsAssumption
    DEF Attempts, Held, Steps, GivenOut, acquisition, RetryLimit, MayAttempt
<1>1. TypeOK'
  BY DEF IInv, TypeOK, ScopeInv, EFI_STATUS, EFI_ERROR, State, Detail, map_fail, MapResult, map_state
<1>2. ScopeInv'
  BY DEF IInv, TypeOK, ScopeInv
<1>3. PoolInv'
  BY DEF IInv, TypeOK, ScopeInv, PoolInv, GrowthInv
<1>4. ReleaseInv'
  BY DEF IInv, TypeOK, ScopeInv, PoolInv, ReleaseInv
<1>5. GrowthInv'
  BY DEF IInv, TypeOK, ScopeInv, PoolInv, GrowthInv
<1>6. ReadInv'
  BY DEF IInv, TypeOK, ScopeInv, ReadInv, ReadsStayInBuffer
<1>. QED  BY <1>1, <1>2, <1>3, <1>4, <1>5, <1>6 DEF IInv

\* a failed allocation,
LEMMA AllocationFailedStep ==
    ASSUME IInv, NEW s \in EFI_STATUS, AllocationFailed(s)
    PROVE  IInv'
<1> USE AcquisitionAssumption, MapConstantsAssumption
    DEF Attempts, Held, Steps, GivenOut, acquisition, AllocationFailed, Attempt, MayAttempt
<1>1. TypeOK'
  BY DEF IInv, TypeOK, ScopeInv, EFI_STATUS, EFI_ERROR, State, Detail, map_fail, MapResult, map_state
<1>2. ScopeInv'
  BY DEF IInv, TypeOK, ScopeInv
<1>3. PoolInv'
  BY DEF IInv, TypeOK, ScopeInv, PoolInv, GrowthInv
<1>4. ReleaseInv'
  BY DEF IInv, TypeOK, ScopeInv, PoolInv, ReleaseInv
<1>5. GrowthInv'
  BY DEF IInv, TypeOK, ScopeInv, PoolInv, GrowthInv
<1>6. ReadInv'
  BY DEF IInv, TypeOK, ScopeInv, ReadInv, ReadsStayInBuffer
<1>. QED  BY <1>1, <1>2, <1>3, <1>4, <1>5, <1>6 DEF IInv

\* an allocation without a buffer,
LEMMA AllocationNullStep ==
    ASSUME IInv, AllocationNull
    PROVE  IInv'
<1> USE AcquisitionAssumption, MapConstantsAssumption
    DEF Attempts, Held, Steps, GivenOut, acquisition, AllocationNull, Attempt, MayAttempt
<1>1. TypeOK'
  BY DEF IInv, TypeOK, ScopeInv, EFI_STATUS, EFI_ERROR, State, Detail, map_fail, MapResult, map_state
<1>2. ScopeInv'
  BY DEF IInv, TypeOK, ScopeInv
<1>3. PoolInv'
  BY DEF IInv, TypeOK, ScopeInv, PoolInv, GrowthInv
<1>4. ReleaseInv'
  BY DEF IInv, TypeOK, ScopeInv, PoolInv, ReleaseInv
<1>5. GrowthInv'
  BY DEF IInv, TypeOK, ScopeInv, PoolInv, GrowthInv
<1>6. ReadInv'
  BY DEF IInv, TypeOK, ScopeInv, ReadInv, ReadsStayInBuffer
<1>. QED  BY <1>1, <1>2, <1>3, <1>4, <1>5, <1>6 DEF IInv

\* an allocation: the new buffer is the one of the new attempt,
LEMMA AllocatedStep ==
    ASSUME IInv, Allocated
    PROVE  IInv'
<1> DEFINE new == attempts + 1
<1>a. attempts \in Nat /\ attempts < MAP_ATTEMPTS /\ new \in Attempts
  BY AcquisitionAssumption
  DEF IInv, TypeOK, Allocated, Attempt, MayAttempt, Attempts
<1>b. /\ pc = "AllocatePool" /\ pc' = "GetMemoryMap"
      /\ attempts' = new /\ buffer' = new
      /\ pool' = [pool EXCEPT ![new].bytes = cap]
      /\ UNCHANGED <<cap, releases, release_status, efi_status, map, answer,
                     growth, read>>
  BY DEF Allocated, Attempt
<1>c. /\ pool \in [Attempts -> [bytes : Nat, tries : Nat, status : EFI_STATUS]]
      /\ cap \in Nat /\ cap > 0
  BY MapConstantsAssumption DEF IInv, TypeOK, GrowthInv
<1>d. /\ ~GivenOut(new) /\ pool[new].tries = 0 /\ pool[new].status = "EFI_SUCCESS"
      /\ release_status = "EFI_SUCCESS" /\ attempts = releases /\ buffer = NULL
  BY <1>a, <1>b, <1>c DEF IInv, TypeOK, ScopeInv, PoolInv, ReleaseInv, Held, GivenOut, Attempts
<1> HIDE DEF new
<1>e. /\ pool' \in [Attempts -> [bytes : Nat, tries : Nat, status : EFI_STATUS]]
      /\ pool'[new] = [bytes |-> cap, tries |-> 0, status |-> "EFI_SUCCESS"]
      /\ \A b \in Attempts : b # new => pool'[b] = pool[b]
  BY <1>a, <1>b, <1>c, <1>d
<1>f. new = attempts + 1
  BY DEF new
<1>1. TypeOK'
  BY <1>a, <1>b, <1>e, <1>f DEF IInv, TypeOK, Steps, Held, Attempts
<1>2. ScopeInv'
  BY <1>a, <1>b, <1>e DEF ScopeInv, Held
<1>3. PoolInv'
  BY <1>a, <1>b, <1>c, <1>d, <1>e, <1>f DEF IInv, PoolInv, GivenOut, Attempts
<1>4. ReleaseInv'
  BY <1>a, <1>b, <1>d, <1>e, <1>f DEF IInv, ReleaseInv, Held, Attempts
<1>5. GrowthInv'
  BY <1>a, <1>b, <1>c, <1>d, <1>e, <1>f DEF IInv, PoolInv, GrowthInv, GivenOut, Attempts
<1>6. ReadInv'
  BY <1>a, <1>b DEF IInv, ReadInv, ReadsStayInBuffer
<1>. QED  BY <1>1, <1>2, <1>3, <1>4, <1>5, <1>6 DEF IInv
\* any answer of GetMemoryMap,
LEMMA GetMemoryMapStep ==
    ASSUME IInv, NEW s \in EFI_STATUS,
           NEW size \in Nat, NEW stride \in Nat, NEW version \in Nat,
           NEW contents \in LoopVerdicts, GetMemoryMap(s, size, stride, version, contents)
    PROVE  IInv'
<1> USE AcquisitionAssumption, MapConstantsAssumption
    DEF Attempts, Held, Steps, GivenOut, acquisition, GetMemoryMap, AfterAnswer
<1>1. TypeOK'
  BY DEF IInv, TypeOK
<1>2. ScopeInv'
  BY DEF IInv, TypeOK, ScopeInv
<1>3. PoolInv'
  BY DEF IInv, TypeOK, ScopeInv, PoolInv
<1>4. ReleaseInv'
  BY DEF IInv, TypeOK, ScopeInv, PoolInv, ReleaseInv
<1>5. GrowthInv'
  BY DEF IInv, TypeOK, ScopeInv, PoolInv, GrowthInv
<1>6. ReadInv'
  BY DEF IInv, TypeOK, ScopeInv, ReadInv, ReadsStayInBuffer
<1>. QED  BY <1>1, <1>2, <1>3, <1>4, <1>5, <1>6 DEF IInv

\* a BUFFER_TOO_SMALL answer, whose growth NextCapacity bounds,
LEMMA TooSmallStep ==
    ASSUME IInv, TooSmall
    PROVE  IInv'
<1> USE AcquisitionAssumption, MapConstantsAssumption
    DEF Attempts, Held, Steps, GivenOut, acquisition, TooSmall, AfterAnswer
<1>a. /\ cap \in Nat /\ answer.size \in Nat /\ answer.stride \in Nat
      /\ growth' = map_next_capacity(cap, answer.size, answer.stride)
  BY DEF IInv, TypeOK
<1>b. /\ growth' \in [next : Nat, grow : Result]
      /\ growth'.grow = Observed =>
           growth'.next <= MAP_LIMIT /\ cap + 2 * DESCRIPTOR_BYTES < growth'.next
  <2>1. \A c, r, d \in Nat :
          /\ map_next_capacity(c, r, d) \in [next : Nat, grow : Result]
          /\ map_next_capacity(c, r, d).grow = Observed =>
               /\ map_next_capacity(c, r, d).next <= MAP_LIMIT
               /\ c + 2 * DESCRIPTOR_BYTES < map_next_capacity(c, r, d).next
    BY NextCapacity
  <2>. HIDE DEF Held, Steps, Attempts, AfterAnswer, TooSmall
  <2>. QED  BY ONLY <1>a, <2>1
<1>1. TypeOK'
  BY <1>b DEF IInv, TypeOK
<1>2. ScopeInv'
  BY DEF IInv, TypeOK, ScopeInv
<1>3. PoolInv'
  BY DEF IInv, TypeOK, ScopeInv, PoolInv
<1>4. ReleaseInv'
  BY DEF IInv, TypeOK, ScopeInv, PoolInv, ReleaseInv
<1>5. GrowthInv'
  BY <1>b DEF IInv, TypeOK, ScopeInv, PoolInv, GrowthInv
<1>6. ReadInv'
  BY DEF IInv, TypeOK, ScopeInv, ReadInv, ReadsStayInBuffer
<1>. QED  BY <1>1, <1>2, <1>3, <1>4, <1>5, <1>6 DEF IInv

\* any other answer: what is read of it fits the buffer,
LEMMA AnsweredStep ==
    ASSUME IInv, Answered
    PROVE  IInv'
<1> USE AcquisitionAssumption, MapConstantsAssumption
    DEF Attempts, Held, Steps, GivenOut, acquisition, Answered, AfterAnswer
<1> DEFINE header == map_header(cap, answer.size, answer.stride, answer.version)
<1>a. /\ cap \in Nat /\ answer.size \in Nat /\ answer.stride \in Nat
      /\ answer.version \in Nat /\ answer.contents \in Result
      /\ header \in Result
      /\ header = Observed => answer.size <= cap /\ answer.stride > 0
  BY HeaderFits, HeaderType, LoopVerdictsAreResults DEF IInv, TypeOK
<1>b. map' \in [state : State, detail : Detail, count : Nat, stride : Nat]
  BY <1>a DEF ParseMap, map_fail, MapResult, map_state, Observed, Result, State, Detail, EFI_ERROR
<1>c. \/ UNCHANGED read
      \/ read' = [bytes |-> IF header = Observed THEN answer.size ELSE 0,
                  held  |-> buffer # NULL /\ pool[buffer].tries = 0]
  BY DEF ParseMap
<1> HIDE DEF header
<1>d. read' \in [bytes : Nat, held : BOOLEAN]
  <2>1. CASE UNCHANGED read
    BY <2>1 DEF IInv, TypeOK
  <2>2. CASE read' = [bytes |-> IF header = Observed THEN answer.size ELSE 0,
                      held  |-> buffer # NULL /\ pool[buffer].tries = 0]
    BY ONLY <1>a, <2>2
  <2>. QED  BY <1>c, <2>1, <2>2
<1>1. TypeOK'
  BY <1>b, <1>d DEF IInv, TypeOK
<1>2. ScopeInv'
  BY DEF IInv, TypeOK, ScopeInv
<1>3. PoolInv'
  BY DEF IInv, TypeOK, ScopeInv, PoolInv
<1>4. ReleaseInv'
  BY DEF IInv, TypeOK, ScopeInv, PoolInv, ReleaseInv
<1>5. GrowthInv'
  BY DEF IInv, TypeOK, ScopeInv, PoolInv, GrowthInv
<1>6. ReadInv'
  <2>1. /\ pc' \in {"FreePool_retry", "FreePool_final"} /\ pc' # "FreePool_retry"
        /\ attempts' = attempts /\ pool' = pool
        /\ buffer # NULL /\ pool[buffer].tries = 0 /\ pool[attempts].bytes = cap
        /\ read.bytes = 0
    BY DEF IInv, ScopeInv, ReadInv
  <2>2. CASE UNCHANGED read
    BY <2>1, <2>2 DEF ReadInv, ReadsStayInBuffer
  <2>3. CASE read' = [bytes |-> IF header = Observed THEN answer.size ELSE 0,
                      held  |-> buffer # NULL /\ pool[buffer].tries = 0]
    <3>1. read'.held
      BY <2>1, <2>3
    <3>2. read'.bytes <= pool[attempts].bytes
      BY <1>a, <2>1, <2>3
    <3>. QED  BY <2>1, <3>1, <3>2 DEF ReadInv, ReadsStayInBuffer
  <2>. QED  BY <1>c, <2>2, <2>3
<1>. QED  BY <1>1, <1>2, <1>3, <1>4, <1>5, <1>6 DEF IInv
\* What a release does to the pool: one more attempt, on the buffer in
\* scope, and nothing else.
LEMMA ReleaseEffect ==
    ASSUME IInv, NEW s \in EFI_STATUS, pc \in Held, release(s)
    PROVE  /\ pool' \in [Attempts -> [bytes : Nat, tries : Nat, status : EFI_STATUS]]
           /\ attempts \in Attempts /\ buffer' = NULL
           /\ pool'[attempts] = [bytes |-> cap, tries |-> 1, status |-> s]
           /\ GivenOut(attempts)
           /\ \A b \in Attempts : b # attempts => pool'[b] = pool[b]
           /\ \A b \in Attempts : b < attempts => pool[b].tries = 1
           /\ release_status = "EFI_SUCCESS" /\ release_status' = s
           /\ releases' = releases + 1 /\ attempts = releases'
<1>1. /\ pool \in [Attempts -> [bytes : Nat, tries : Nat, status : EFI_STATUS]]
      /\ attempts \in Attempts /\ buffer = attempts /\ releases \in Nat
      /\ pool[attempts].bytes = cap /\ pool[attempts].tries = 0 /\ cap > 0
  BY MapConstantsAssumption DEF IInv, TypeOK, ScopeInv, GrowthInv
<1>2. pool' = [pool EXCEPT ![attempts] = [bytes |-> cap, tries |-> 1, status |-> s]]
  BY <1>1 DEF release
<1>3. /\ pool' \in [Attempts -> [bytes : Nat, tries : Nat, status : EFI_STATUS]]
      /\ pool'[attempts] = [bytes |-> cap, tries |-> 1, status |-> s]
      /\ \A b \in Attempts : b # attempts => pool'[b] = pool[b]
  BY <1>1, <1>2
<1>4. GivenOut(attempts)
  BY <1>1 DEF GivenOut
<1>5. \A b \in Attempts : b < attempts => pool[b].tries = 1
  BY <1>1 DEF IInv, PoolInv, Attempts
<1>6. /\ release_status = "EFI_SUCCESS" /\ attempts = releases + 1
      /\ release_status' = s /\ releases' = releases + 1
  BY <1>1 DEF IInv, ReleaseInv, Held, release, FirstFailure
<1>. QED  BY <1>1, <1>3, <1>4, <1>5, <1>6 DEF release

\* Whatever comes after a release, the buffers are accounted for.
LEMMA AfterRelease ==
    ASSUME IInv, NEW s \in EFI_STATUS, pc \in Held, release(s),
           UNCHANGED <<attempts, read>>, pc' \in {"AllocatePool", "done"},
           pc' = "AllocatePool" => s = "EFI_SUCCESS" /\ pc = "FreePool_retry"
    PROVE  /\ ScopeInv' /\ PoolInv' /\ ReleaseInv' /\ ReadInv'
           /\ \A b, c \in Attempts :
                b < c /\ pool'[c].bytes # 0 =>
                  pool'[b].bytes + 2 * DESCRIPTOR_BYTES < pool'[c].bytes
           /\ \A b \in Attempts : pool'[b].bytes = pool[b].bytes
           /\ pool \in [Attempts -> [bytes : Nat, tries : Nat, status : EFI_STATUS]]
           /\ pool' \in [Attempts -> [bytes : Nat, tries : Nat, status : EFI_STATUS]]
           /\ release_status' = s /\ releases' \in Nat /\ buffer' = NULL
           /\ attempts \in Attempts /\ pool[attempts].bytes = cap
<1>a. /\ pool' \in [Attempts -> [bytes : Nat, tries : Nat, status : EFI_STATUS]]
      /\ attempts \in Attempts /\ buffer' = NULL
      /\ pool'[attempts] = [bytes |-> cap, tries |-> 1, status |-> s]
      /\ GivenOut(attempts)
      /\ \A b \in Attempts : b # attempts => pool'[b] = pool[b]
      /\ \A b \in Attempts : b < attempts => pool[b].tries = 1
      /\ release_status = "EFI_SUCCESS" /\ release_status' = s
      /\ releases' = releases + 1 /\ attempts = releases'
  BY ReleaseEffect
<1>b. /\ pool \in [Attempts -> [bytes : Nat, tries : Nat, status : EFI_STATUS]]
      /\ pool[attempts].bytes = cap /\ buffer = attempts /\ releases \in Nat
  BY DEF IInv, TypeOK, ScopeInv
<1>c. \A b \in Attempts : pool'[b].bytes = pool[b].bytes
  BY <1>a, <1>b
<1>1. ScopeInv'
  BY <1>a DEF ScopeInv, Held
<1>2. PoolInv'
  <2>1. \A b \in Attempts : b > attempts => ~GivenOut(b)'
    BY <1>c DEF IInv, PoolInv, GivenOut
  <2>2. \A b \in Attempts : b <= attempts => GivenOut(b)'
    BY <1>a, <1>c DEF IInv, PoolInv, GivenOut, Attempts
  <2>3. \A b \in Attempts : pool'[b].tries = IF GivenOut(b)' THEN 1 ELSE 0
    BY <1>a, <1>b, <2>1, <2>2 DEF IInv, PoolInv, Attempts
  <2>. QED  BY <1>a, <2>1, <2>2, <2>3 DEF PoolInv, Attempts
<1>3. ReleaseInv'
  <2>1. \A b \in Attempts : b < attempts => pool'[b].status = "EFI_SUCCESS"
    BY <1>a DEF IInv, ReleaseInv, Attempts
  <2>2. \A b \in Attempts : pool'[b].tries = 0 => pool'[b].status = "EFI_SUCCESS"
    BY <1>a DEF IInv, ReleaseInv
  <2>. QED  BY <1>a, <1>b, <2>1, <2>2 DEF ReleaseInv, Held, Attempts
<1>4. ReadInv'
  BY <1>a, <1>c DEF IInv, ReadInv, ReadsStayInBuffer, Held
<1>5. \A b, c \in Attempts :
         b < c /\ pool'[c].bytes # 0 =>
           pool'[b].bytes + 2 * DESCRIPTOR_BYTES < pool'[c].bytes
  BY <1>c DEF IInv, GrowthInv, GivenOut
<1>. QED  BY <1>1, <1>2, <1>3, <1>4, <1>5, <1>a, <1>b, <1>c

\* a release inside the loop: the next capacity exceeds every earlier one,
LEMMA ReleaseForRetryStep ==
    ASSUME IInv, NEW s \in EFI_STATUS, ReleaseForRetry(s)
    PROVE  IInv'
<1> DEFINE loops == Released(s) /\ growth.grow = Observed
<1>a. /\ pc = "FreePool_retry" /\ pc \in Held /\ release(s)
      /\ UNCHANGED <<attempts, efi_status, read>>
      /\ growth' = NoGrowth
  BY DEF ReleaseForRetry, Held
<1>b. \/ loops /\ pc' = "AllocatePool" /\ cap' = growth.next
         /\ answer' = NoAnswer /\ map' = map /\ s = "EFI_SUCCESS"
      \/ ~loops /\ pc' = "done" /\ UNCHANGED <<cap, answer>>
  BY DEF ReleaseForRetry, Released
<1>c. map' \in [state : State, detail : Detail, count : Nat, stride : Nat]
  BY DEF ReleaseForRetry, IInv, TypeOK, map_fail, MapResult, map_state,
         State, Detail, Result
<1>d. /\ ScopeInv' /\ PoolInv' /\ ReleaseInv' /\ ReadInv'
      /\ \A b, c \in Attempts :
           b < c /\ pool'[c].bytes # 0 =>
             pool'[b].bytes + 2 * DESCRIPTOR_BYTES < pool'[c].bytes
      /\ \A b \in Attempts : pool'[b].bytes = pool[b].bytes
      /\ pool \in [Attempts -> [bytes : Nat, tries : Nat, status : EFI_STATUS]]
      /\ pool' \in [Attempts -> [bytes : Nat, tries : Nat, status : EFI_STATUS]]
      /\ release_status' = s /\ releases' \in Nat /\ buffer' = NULL
      /\ attempts \in Attempts /\ pool[attempts].bytes = cap
  BY <1>a, <1>b, AfterRelease
<1>e. loops => growth.next <= MAP_LIMIT /\ cap + 2 * DESCRIPTOR_BYTES < growth.next
  BY <1>a DEF IInv, GrowthInv
<1>f. cap \in 1 .. MAP_LIMIT /\ growth.next \in Nat
  BY DEF IInv, TypeOK, GrowthInv
<1> HIDE DEF loops
<1>1. TypeOK'
  <2>1. NoAnswer \in [status : EFI_STATUS, size : Nat, stride : Nat,
                      version : Nat, contents : LoopVerdicts]
    BY DEF NoAnswer, LoopVerdicts, EFI_STATUS
  <2>2. NoGrowth \in [next : Nat, grow : Result]
    BY LoopVerdictsAreResults DEF NoGrowth, LoopVerdicts
  <2>3. pc' \in Steps /\ cap' \in Nat
    BY <1>b, <1>f DEF Steps, Held
  <2>4. answer' \in [status : EFI_STATUS, size : Nat, stride : Nat,
                      version : Nat, contents : LoopVerdicts]
    BY <1>b, <2>1 DEF IInv, TypeOK
  <2>. QED
    BY <1>a, <1>c, <1>d, <2>2, <2>3, <2>4, AcquisitionAssumption DEF IInv, TypeOK
<1>2. GrowthInv'
  <2>1. cap' \in 1 .. MAP_LIMIT
    BY <1>b, <1>e, <1>f, MapConstantsAssumption
  <2>2. pc' = "AllocatePool" =>
          \A b \in Attempts :
             b <= attempts => pool'[b].bytes + 2 * DESCRIPTOR_BYTES < cap'
    <3>1. SUFFICES ASSUME loops, cap' = growth.next, NEW b \in Attempts, b <= attempts
                   PROVE  pool[b].bytes + 2 * DESCRIPTOR_BYTES < growth.next
      BY <1>b, <1>d
    <3>2. CASE b = attempts
      BY <1>d, <1>e, <3>1, <3>2
    <3>3. CASE b < attempts
      <4>1. pool[b].bytes + 2 * DESCRIPTOR_BYTES < cap
        BY <1>d, <1>f, <3>3 DEF IInv, GrowthInv, GivenOut
      <4>. QED  BY <1>d, <1>e, <1>f, <3>1, <4>1, MapConstantsAssumption
    <3>. QED  BY <3>1, <3>2, <3>3 DEF Attempts, IInv, TypeOK
  <2>. QED  BY <1>a, <1>b, <1>d, <2>1, <2>2 DEF GrowthInv, GivenOut
<1>. QED  BY <1>1, <1>2, <1>d DEF IInv

\* and the release that ends it.
LEMMA ReleaseFinalStep ==
    ASSUME IInv, NEW s \in EFI_STATUS, ReleaseFinal(s)
    PROVE  IInv'
<1>a. /\ pc \in Held /\ release(s) /\ pc' = "done"
      /\ UNCHANGED <<cap, attempts, efi_status, map, answer, growth, read>>
  BY DEF ReleaseFinal, Held
<1>d. /\ ScopeInv' /\ PoolInv' /\ ReleaseInv' /\ ReadInv'
      /\ \A b, c \in Attempts :
           b < c /\ pool'[c].bytes # 0 =>
             pool'[b].bytes + 2 * DESCRIPTOR_BYTES < pool'[c].bytes
      /\ pool' \in [Attempts -> [bytes : Nat, tries : Nat, status : EFI_STATUS]]
      /\ release_status' = s /\ releases' \in Nat /\ buffer' = NULL
  BY <1>a, AfterRelease
<1>1. TypeOK'
  BY <1>a, <1>d, AcquisitionAssumption DEF IInv, TypeOK, Steps
<1>2. GrowthInv'
  BY <1>a, <1>d DEF IInv, GrowthInv, GivenOut
<1>. QED  BY <1>1, <1>2, <1>d DEF IInv
\* Every step keeps the invariant.
LEMMA NextInv == IInv /\ [Next]_vars => IInv'
<1> SUFFICES ASSUME IInv, [Next]_vars PROVE IInv'
  OBVIOUS
<1>1. CASE UNCHANGED vars
  BY <1>1 DEF vars, acquisition, IInv, TypeOK, ScopeInv, PoolInv, ReleaseInv,
              GrowthInv, ReadInv, ReadsStayInBuffer, GivenOut
<1>2. Statuses \subseteq EFI_STATUS
  BY AcquisitionAssumption
<1>3. CASE ServiceMissing \/ ServicesPresent \/ RetryLimit \/ AllocationNull \/ Allocated
  BY <1>3, ServiceMissingStep, ServicesPresentStep, RetryLimitStep,
     AllocationNullStep, AllocatedStep
<1>4. CASE \E s \in Statuses : AllocationFailed(s)
  BY <1>2, <1>4, AllocationFailedStep
<1>5. CASE FirmwareAnswers
  <2>1. PICK s \in EFI_STATUS, size \in Nat, stride \in Nat, version \in Nat,
             contents \in LoopVerdicts :
               GetMemoryMap(s, size, stride, version, contents)
    <3>1. Observed \in LoopVerdicts
      BY DEF LoopVerdicts
    <3>2. {"EFI_SUCCESS", "EFI_BUFFER_TOO_SMALL"} \subseteq EFI_STATUS
      BY DEF EFI_STATUS, ErrorStatus
    <3>. QED  BY <1>2, <1>5, <3>1, <3>2, AcquisitionAssumption DEF FirmwareAnswers
  <2>. QED  BY <2>1, GetMemoryMapStep
<1>6. CASE TooSmall \/ Answered
  BY <1>6, TooSmallStep, AnsweredStep
<1>7. CASE \E s \in Statuses : ReleaseForRetry(s) \/ ReleaseFinal(s)
  BY <1>2, <1>7, ReleaseForRetryStep, ReleaseFinalStep
<1>. QED  BY <1>1, <1>3, <1>4, <1>5, <1>6, <1>7 DEF Next

\* The invariant holds in every reachable state.
LEMMA Invariance == Spec => []IInv
  BY InitInv, NextInv, PTL DEF Spec

-----------------------------------------------------------------------------
(* The theorems.                                                           *)

\* Every variable of acquire_map keeps its type.
THEOREM TypeCorrectness == Spec => []TypeOK
  BY Invariance, PTL DEF IInv

\* Every buffer the firmware gives out is released exactly once, whatever
\* the firmware answers and however many attempts are allowed.
THEOREM ReleasesExactlyOnce == Spec => []ReleasedExactlyOnce
<1>1. IInv => ReleasedExactlyOnce
  BY DEF IInv, ScopeInv, PoolInv, ReleasedExactlyOnce, Attempts, Held
<1>. QED  BY <1>1, Invariance, PTL

\* release_status is success exactly when nothing may have leaked, and is
\* otherwise what FreePool said of the only buffer that may have.
THEOREM ReportsFailedRelease == Spec => []FailedReleaseReported
<1>1. IInv => FailedReleaseReported
  BY DEF IInv, TypeOK, PoolInv, ReleaseInv, FailedReleaseReported, Leaked,
         GivenOut, Attempts
<1>. QED  BY <1>1, Invariance, PTL

\* parse_map never reads past the allocation, nor a buffer given back.
THEOREM ReadsInsideBuffer == Spec => []ReadsStayInBuffer
  BY Invariance, PTL DEF IInv, ReadInv

\* The capacities grow strictly, by more than two descriptors, and stay
\* within MAP_LIMIT.
THEOREM CapacityGrowth == Spec => []CapacitiesGrow
<1>1. IInv => CapacitiesGrow
  BY MapConstantsAssumption
  DEF IInv, PoolInv, GrowthInv, CapacitiesGrow, Attempts, GivenOut, TypeOK
<1>. QED  BY <1>1, Invariance, PTL

\* After a FreePool answer other than success the loop asks for nothing.
THEOREM NoAttemptAfterFailedRelease == Spec => StopsAfterFailedRelease
<1>1. IInv /\ [Next]_vars =>
        [release_status # "EFI_SUCCESS" => UNCHANGED <<attempts, answer>>]_vars
  <2> SUFFICES ASSUME IInv, [Next]_vars, release_status # "EFI_SUCCESS"
               PROVE  UNCHANGED <<attempts, answer>>
    OBVIOUS
  <2>1. pc = "done"
    BY DEF IInv, ReleaseInv
  <2>2. UNCHANGED vars \/ ~Next
    BY <2>1 DEF Next, ServiceMissing, ServicesPresent, RetryLimit,
       AllocationFailed, AllocationNull, Allocated, Attempt, FirmwareAnswers,
       GetMemoryMap, TooSmall, Answered, ReleaseForRetry, ReleaseFinal
  <2>. QED
    BY <2>2 DEF vars, acquisition
<1>. QED  BY <1>1, Invariance, PTL DEF Spec, StopsAfterFailedRelease

\* acquire_map implements the safety part of the pool discipline.
THEOREM Refinement == Spec => Discipline!PoolSafety
<1>1. Init => Discipline!PoolInit
  BY DEF Init, Discipline!PoolInit
<1>2. IInv /\ [Next]_vars => [Discipline!PoolNext]_(Discipline!pvars)
  <2> SUFFICES ASSUME IInv, [Next]_vars
               PROVE  [Discipline!PoolNext]_(Discipline!pvars)
    OBVIOUS
  <2> USE DEF Discipline!PoolNext, Discipline!pvars
  <2>1. CASE UNCHANGED vars
    BY <2>1 DEF vars, acquisition
  \* Whatever the probe does while it only looks at an answer is a stutter.
  <2>2. CASE ServicesPresent \/ FirmwareAnswers \/ TooSmall \/ Answered
    <3>1. UNCHANGED <<releases, release_status, buffer, pool>>
      BY <2>2 DEF ServicesPresent, FirmwareAnswers, GetMemoryMap, TooSmall,
                  Answered, acquisition
    <3>2. pc # "done" /\ pc' # "done"
      BY <2>2 DEF ServicesPresent, FirmwareAnswers, GetMemoryMap, TooSmall,
                  Answered, AfterAnswer
    <3>. QED  BY <3>1, <3>2
  \* The loop ends without a buffer.
  <2>3. CASE \/ ServiceMissing \/ RetryLimit \/ AllocationNull
             \/ \E s \in Statuses : AllocationFailed(s)
    <3>1. /\ UNCHANGED <<releases, release_status, buffer, pool>>
          /\ pc \in {"entry", "AllocatePool"} /\ pc' = "done"
      BY <2>3 DEF ServiceMissing, RetryLimit, AllocationNull,
                  AllocationFailed, Attempt, acquisition
    <3>2. buffer = NULL
      BY <3>1 DEF IInv, ScopeInv, Held
    <3>. QED  BY <3>1, <3>2 DEF Discipline!Finish
  <2>4. CASE Allocated
    <3>1. /\ pc = "AllocatePool" /\ pc' = "GetMemoryMap"
          /\ attempts < MAP_ATTEMPTS /\ attempts' = attempts + 1
          /\ buffer' = attempts' /\ attempts' \in Attempts
          /\ pool' = [pool EXCEPT ![attempts'].bytes = cap]
          /\ UNCHANGED <<releases, release_status>>
      BY <2>4, AcquisitionAssumption
      DEF IInv, TypeOK, Allocated, Attempt, MayAttempt, Attempts
    <3>2. /\ buffer = NULL /\ release_status = "EFI_SUCCESS"
          /\ attempts = releases /\ attempts \in Nat
      BY <3>1 DEF IInv, TypeOK, ScopeInv, ReleaseInv, Held
    <3>3. pool'[attempts'].bytes = cap /\ cap \in 1 .. MAP_LIMIT
      BY <3>1 DEF IInv, TypeOK, GrowthInv
    <3>. QED  BY <3>1, <3>2, <3>3 DEF Discipline!Take, Attempts
  <2>5. CASE \E s \in Statuses : ReleaseForRetry(s) \/ ReleaseFinal(s)
    <3>1. PICK s \in EFI_STATUS : ReleaseForRetry(s) \/ ReleaseFinal(s)
      BY <2>5, AcquisitionAssumption
    <3>2. /\ release(s) /\ pc \in Held /\ pc' \in {"AllocatePool", "done"}
          /\ s # "EFI_SUCCESS" => pc' = "done"
      BY <3>1 DEF ReleaseForRetry, ReleaseFinal, Released, Held
    <3>3. /\ buffer = attempts /\ attempts \in Attempts /\ buffer # NULL
          /\ pool[attempts].bytes # 0 /\ releases \in Nat
      BY <3>2, MapConstantsAssumption DEF IInv, TypeOK, ScopeInv, GrowthInv, Attempts
    <3>4. /\ buffer' = NULL /\ releases' = releases + 1
          /\ release_status = "EFI_SUCCESS" /\ release_status' = s
      BY <3>2, ReleaseEffect
    <3>5. pc # "done"
      BY <3>2 DEF Held
    <3>6. CASE s = "EFI_SUCCESS"
      <4>1. Discipline!GiveBack(TRUE)
        BY <3>2, <3>3, <3>4, <3>5, <3>6 DEF Discipline!GiveBack
      <4>. QED  BY <4>1
    <3>7. CASE s # "EFI_SUCCESS"
      <4>1. Discipline!GiveBack(FALSE)
        BY <3>2, <3>3, <3>4, <3>5, <3>7 DEF Discipline!GiveBack
      <4>. QED  BY <4>1
    <3>. QED  BY <3>6, <3>7
  <2>. QED  BY <2>1, <2>2, <2>3, <2>4, <2>5 DEF Next
<1>. QED  BY <1>1, <1>2, Invariance, PTL DEF Spec, Discipline!PoolSafety

-----------------------------------------------------------------------------
(* What is reported.  At the end nothing of the loop is left but its       *)
(* results, so that the invariant must carry the link between the map, the *)
(* last answer and efi_status through every release.                       *)

\* An observed map is what the last answer described.
MapOfAnswer ==
    /\ answer.status = "EFI_SUCCESS" /\ efi_status = "EFI_SUCCESS"
    /\ map.count > 0 /\ map.count * map.stride = answer.size
    /\ map.stride >= DESCRIPTOR_BYTES
    /\ answer.size <= pool[attempts].bytes

EveryAttemptTooSmall ==
    /\ attempts = MAP_ATTEMPTS /\ releases = MAP_ATTEMPTS
    /\ efi_status = "EFI_BUFFER_TOO_SMALL"
    /\ release_status = "EFI_SUCCESS"

\* What efi_status is between two attempts: nothing has been answered yet,
\* or the attempt before was too small.
StatusBefore(n) == IF n = 0 THEN "EFI_SUCCESS" ELSE "EFI_BUFFER_TOO_SMALL"

EarlierOnesReleased == releases = attempts - 1 /\ release_status = "EFI_SUCCESS"
ErrorOfAnswer == EFI_ERROR(efi_status) /\ efi_status = answer.status

\* A refusal is no observation, and has none of the reasons that only the
\* loop itself gives for its end.
Endings == {"retry_limit", "allocation_failed", "allocation_null", "efi_error"}
Refusal(v) == v.state # "observed" /\ v.detail \notin Endings

\* The result stays as it was until the attempt that ends the loop, and a
\* loop that comes back to AllocatePool was answered too small.
ReportInv ==
    /\ pc \notin {"FreePool_final", "done"} => Refusal(map)
    /\ pc \in {"classify", "FreePool_retry"} => efi_status = answer.status
    /\ pc = "FreePool_retry" =>
         /\ answer.status = "EFI_BUFFER_TOO_SMALL"
         /\ growth.grow = Observed \/ Refusal(growth.grow)
    /\ pc \in {"entry", "AllocatePool"} => efi_status = StatusBefore(attempts)
    /\ pc \in {"FreePool_final", "done"} =>
         /\ map.state = "observed" => MapOfAnswer
         /\ map.detail = "efi_error" => ErrorOfAnswer
    /\ pc = "FreePool_final" =>
         map.detail \notin {"retry_limit", "allocation_failed", "allocation_null"}
    /\ pc = "done" =>
         /\ map.detail = "retry_limit" => EveryAttemptTooSmall
         /\ map.detail \in {"allocation_failed", "allocation_null"} => EarlierOnesReleased
         /\ map.detail = "allocation_failed" => EFI_ERROR(efi_status)
         /\ map.detail = "allocation_null" => efi_status = StatusBefore(attempts - 1)

\* Whatever is not observed is a refusal, before the loop over the
\* descriptors, in it, and when the buffer was too small.
LEMMA Refusals ==
    /\ \A capacity, length, stride, version :
         LET v == map_header(capacity, length, stride, version)
         IN  v = Observed \/ Refusal(v)
    /\ \A v \in LoopVerdicts : v = Observed \/ Refusal(v)
    /\ \A capacity, required, stride :
         LET v == map_next_capacity(capacity, required, stride).grow
         IN  v = Observed \/ Refusal(v)
  BY DEF map_header, map_next_capacity, Refuse, LoopVerdicts, Refusal, Endings,
         Observed, map_state

\* A header that passes describes a whole number of descriptors, and not
\* none.
LEMMA WholeMap ==
    ASSUME NEW capacity \in Nat, NEW length \in Nat, NEW stride \in Nat,
           NEW version \in Nat,
           map_header(capacity, length, stride, version) = Observed
    PROVE  /\ stride >= DESCRIPTOR_BYTES /\ length \div stride > 0
           /\ (length \div stride) * stride = length
<1>1. /\ stride \in Nat \ {0} /\ stride >= DESCRIPTOR_BYTES
      /\ length # 0 /\ length % stride = 0
  BY MapConstantsAssumption
  DEF map_header, Observed, map_state, PartialDescriptor
<1>2. length = stride * (length \div stride) + (length % stride)
  BY <1>1
<1>3. length \div stride \in Nat
  BY <1>1
<1> DEFINE count == length \div stride
<1>4. length = stride * count /\ count \in Nat
  BY <1>1, <1>2, <1>3
<1>. HIDE DEF count
<1>5. count # 0 /\ count * stride = length
  BY <1>1, <1>4
<1>. QED  BY <1>1, <1>4, <1>5 DEF count

\* The steps that end the loop without a buffer.
LEMMA ReportWithoutBuffer ==
    ASSUME IInv, ReportInv,
           \/ ServiceMissing \/ RetryLimit \/ AllocationNull
           \/ \E s \in Statuses : AllocationFailed(s)
    PROVE  ReportInv'
<1>1. CASE ServiceMissing
  BY <1>1 DEF ServiceMissing, ReportInv, Refusal, Endings, acquisition
<1>2. CASE RetryLimit
  <2>1. /\ attempts = MAP_ATTEMPTS /\ attempts # 0 /\ pc = "AllocatePool"
        /\ UNCHANGED <<attempts, releases, release_status, efi_status>>
        /\ pc' = "done" /\ map' = map_fail("unsupported", "retry_limit")
    BY <1>2, AcquisitionAssumption DEF RetryLimit, MayAttempt
  <2>2. releases = attempts /\ release_status = "EFI_SUCCESS"
    BY <2>1 DEF IInv, TypeOK, ReleaseInv, Held
  <2>3. efi_status = "EFI_BUFFER_TOO_SMALL"
    BY <2>1 DEF ReportInv, StatusBefore
  <2>. QED
    BY <2>1, <2>2, <2>3 DEF ReportInv, EveryAttemptTooSmall, map_fail, MapResult, map_state
<1>3. CASE AllocationNull \/ \E s \in Statuses : AllocationFailed(s)
  <2>1. /\ pc = "AllocatePool" /\ pc' = "done" /\ attempts' = attempts + 1
        /\ UNCHANGED <<releases, release_status>>
    BY <1>3 DEF AllocationNull, AllocationFailed, Attempt
  <2>2. /\ releases' = attempts' - 1 /\ release_status' = "EFI_SUCCESS"
        /\ attempts' - 1 = attempts
    BY <2>1 DEF IInv, TypeOK, ReleaseInv, Held
  <2>3. efi_status = StatusBefore(attempts)
    BY <2>1 DEF ReportInv
  <2>4. \/ /\ map'.state = "malformed" /\ map'.detail = "allocation_null"
           /\ efi_status' = efi_status
        \/ /\ map'.state = "unavailable" /\ map'.detail = "allocation_failed"
           /\ EFI_ERROR(efi_status')
    BY <1>3 DEF AllocationNull, AllocationFailed, map_fail, MapResult, map_state
  <2>. QED  BY <2>1, <2>2, <2>3, <2>4 DEF ReportInv, EarlierOnesReleased, EFI_ERROR
<1>. QED  BY <1>1, <1>2, <1>3

\* The steps up to an answer.
LEMMA ReportPending ==
    ASSUME IInv, ReportInv, ServicesPresent \/ Allocated \/ FirmwareAnswers
    PROVE  ReportInv'
<1>1. CASE ServicesPresent
  BY <1>1 DEF ServicesPresent, IInv, ScopeInv, ReportInv, Refusal, acquisition
<1>2. CASE Allocated
  BY <1>2 DEF Allocated, Attempt, ReportInv, Refusal
<1>3. CASE FirmwareAnswers
  BY <1>3 DEF FirmwareAnswers, GetMemoryMap, ReportInv, Refusal, Endings
<1>. QED  BY <1>1, <1>2, <1>3

\* Classifying the answer.
LEMMA ReportClassified ==
    ASSUME IInv, ReportInv, TooSmall \/ Answered
    PROVE  ReportInv'
<1>1. CASE TooSmall
  BY <1>1, Refusals DEF TooSmall, AfterAnswer, ReportInv, Refusal, acquisition
<1>2. CASE Answered
  <2>1. /\ pc = "classify" /\ pc' = "FreePool_final"
        /\ UNCHANGED <<attempts, efi_status, answer, pool>>
        /\ efi_status = answer.status
    BY <1>2 DEF Answered, AfterAnswer, ReportInv
  <2>2. CASE answer.status # "EFI_SUCCESS"
    <3>1. map' = IF EFI_ERROR(answer.status) THEN map_fail("unavailable", "efi_error")
                 ELSE map_fail("unsupported", "warning_status")
      BY <1>2, <2>2 DEF Answered
    <3>2. /\ map'.state # "observed" /\ map'.detail \notin Endings \ {"efi_error"}
          /\ map'.detail = "efi_error" => EFI_ERROR(answer.status)
      BY <3>1 DEF map_fail, MapResult, map_state, Endings
    <3>. QED  BY <2>1, <3>2 DEF ReportInv, Endings, ErrorOfAnswer, EFI_ERROR
  <2>3. CASE answer.status = "EFI_SUCCESS"
    <3> DEFINE header == map_header(cap, answer.size, answer.stride, answer.version)
               verdict == IF header = Observed THEN answer.contents ELSE header
    <3>1. map' = IF verdict = Observed
                   THEN MapResult(Observed, answer.size \div answer.stride, answer.stride)
                   ELSE MapResult(verdict, 0, 0)
      BY <1>2, <2>3 DEF Answered, ParseMap, EFI_ERROR, ErrorStatus
    <3>2. /\ cap \in Nat /\ answer.size \in Nat /\ answer.stride \in Nat
          /\ answer.version \in Nat /\ answer.contents \in LoopVerdicts
          /\ pool[attempts].bytes = cap
      BY <2>1 DEF IInv, TypeOK, ScopeInv, Held
    <3>3. verdict = Observed => header = Observed
      OBVIOUS
    <3>4. verdict = Observed \/ Refusal(verdict)
      BY <3>2, Refusals
    <3>. HIDE DEF verdict
    <3>5. CASE verdict = Observed
      <4>1. /\ answer.stride >= DESCRIPTOR_BYTES
            /\ answer.size \div answer.stride > 0
            /\ (answer.size \div answer.stride) * answer.stride = answer.size
            /\ answer.size <= cap
        BY <3>2, <3>3, <3>5, WholeMap, HeaderFits
      <4>2. /\ map'.count = answer.size \div answer.stride
            /\ map'.stride = answer.stride /\ map'.detail = "null"
        BY <3>1, <3>5 DEF MapResult, Observed, map_state
      <4>3. MapOfAnswer'
        BY <2>1, <2>3, <3>2, <4>1, <4>2 DEF MapOfAnswer
      <4>. QED  BY <2>1, <4>2, <4>3 DEF ReportInv, Endings
    <3>6. CASE verdict # Observed
      <4>1. map'.state # "observed" /\ map'.detail \notin Endings
        BY <3>1, <3>4, <3>6 DEF MapResult, Refusal
      <4>. QED  BY <2>1, <4>1 DEF ReportInv, Endings
    <3>. QED  BY <3>5, <3>6
  <2>. QED  BY <2>2, <2>3
<1>. QED  BY <1>1, <1>2

\* Releasing: a retry keeps efi_status, and the last release changes
\* nothing of what was found.
LEMMA ReportReleased ==
    ASSUME IInv, ReportInv, NEW s \in EFI_STATUS,
           ReleaseForRetry(s) \/ ReleaseFinal(s)
    PROVE  ReportInv'
<1>1. CASE ReleaseForRetry(s)
  <2>1. /\ pc = "FreePool_retry" /\ UNCHANGED <<attempts, efi_status>>
        /\ efi_status = "EFI_BUFFER_TOO_SMALL"
        /\ growth.grow = Observed \/ Refusal(growth.grow)
        /\ Refusal(map)
    BY <1>1 DEF ReleaseForRetry, ReportInv
  <2>2. CASE Released(s) /\ growth.grow = Observed
    <3>1. attempts # 0
      BY <2>1 DEF IInv, ScopeInv, Held, Attempts
    <3>2. pc' = "AllocatePool" /\ map' = map
      BY <1>1, <2>2 DEF ReleaseForRetry
    <3>. QED  BY <2>1, <3>1, <3>2 DEF ReportInv, Refusal, StatusBefore
  <2>3. CASE ~(Released(s) /\ growth.grow = Observed)
    <3>1. /\ pc' = "done"
          /\ map' = IF Released(s) THEN MapResult(growth.grow, 0, 0)
                                   ELSE map_fail("not_probed", "release_failed")
      BY <1>1, <2>3 DEF ReleaseForRetry
    <3>2. map'.state # "observed" /\ map'.detail \notin Endings
      BY <2>1, <2>3, <3>1 DEF MapResult, map_fail, map_state, Refusal, Endings
    <3>. QED  BY <3>1, <3>2 DEF ReportInv, Endings
  <2>. QED  BY <2>2, <2>3
<1>2. CASE ReleaseFinal(s)
  <2>1. /\ pc = "FreePool_final" /\ pc' = "done" /\ release(s)
        /\ UNCHANGED <<attempts, efi_status, map, answer, read>>
    BY <1>2 DEF ReleaseFinal
  <2>2. attempts \in Attempts /\ pool'[attempts].bytes = pool[attempts].bytes
    BY <2>1, AfterRelease DEF Held
  <2>3. map.state = "observed" => MapOfAnswer'
    BY <2>1, <2>2 DEF ReportInv, MapOfAnswer
  <2>. QED  BY <2>1, <2>3 DEF ReportInv, ErrorOfAnswer, EFI_ERROR
<1>. QED  BY <1>1, <1>2

LEMMA ReportNext == IInv /\ ReportInv /\ [Next]_vars => ReportInv'
<1> SUFFICES ASSUME IInv, ReportInv, [Next]_vars PROVE ReportInv'
  OBVIOUS
<1>1. CASE UNCHANGED vars
  BY <1>1 DEF vars, acquisition, ReportInv, Refusal, MapOfAnswer, EveryAttemptTooSmall,
              EarlierOnesReleased, ErrorOfAnswer, EFI_ERROR
<1>2. CASE \E s \in Statuses : ReleaseForRetry(s) \/ ReleaseFinal(s)
  BY <1>2, AcquisitionAssumption, ReportReleased
<1>. QED
  BY <1>1, <1>2, ReportWithoutBuffer, ReportPending, ReportClassified DEF Next

\* What the record says at the end follows from the last answer: an
\* observed map lies in the buffer it was read from, retry_limit means that
\* every attempt was answered too small and given back, and an allocation
\* that fails reports its own status after a clean retry.
THEOREM ReportsTheAnswer == Spec => []ReportFollowsAnswers
<1>1. Init => ReportInv
  BY DEF Init, ReportInv, Refusal, Endings, StatusBefore, map_fail, MapResult, map_state
<1>2. IInv /\ ReportInv => ReportFollowsAnswers
  <2> SUFFICES ASSUME IInv, ReportInv, pc = "done" PROVE ReportFollowsAnswers
    BY DEF ReportFollowsAnswers
  <2>1. attempts \in Nat
    BY DEF IInv, TypeOK
  <2>2. StatusBefore(attempts - 1) =
          IF attempts = 1 THEN "EFI_SUCCESS" ELSE "EFI_BUFFER_TOO_SMALL"
    BY <2>1 DEF StatusBefore
  <2>. QED  BY <2>2 DEF ReportInv, MapOfAnswer, EveryAttemptTooSmall, EarlierOnesReleased,
                        ErrorOfAnswer, ReportFollowsAnswers
<1>. QED  BY <1>1, <1>2, Invariance, ReportNext, PTL DEF Spec

-----------------------------------------------------------------------------
(* The loop's variant.  Terminates needs fairness, which only says that    *)
(* steps go on being taken; that there are boundedly many of them, whatever *)
(* the firmware answers, is arithmetic.                                    *)

\* How many steps acquire_map can still take: four for every attempt not
\* made yet, and those left of the present one.
StageSteps ==
    CASE pc = "GetMemoryMap" -> 5
      [] pc = "classify"     -> 4
      [] pc \in {"entry", "FreePool_retry", "FreePool_final"} -> 3
      [] pc = "AllocatePool" -> 2
      [] pc = "done"         -> 0
StepsLeft == 4 * (MAP_ATTEMPTS - attempts) + StageSteps

\* Every step uses one up, retries included: a firmware that answers "too
\* small" forever cannot keep the loop going.
UsesUpSteps == [][StepsLeft' \in Nat /\ StepsLeft' < StepsLeft]_vars

\* The values of the stage's share, spelled out for the arithmetic.
LEMMA StageStepsValues ==
    ASSUME TypeOK
    PROVE  /\ pc = "GetMemoryMap" => StageSteps = 5
           /\ pc = "classify" => StageSteps = 4
           /\ pc \in {"entry", "FreePool_retry", "FreePool_final"} => StageSteps = 3
           /\ pc = "AllocatePool" => StageSteps = 2
           /\ pc = "done" => StageSteps = 0
           /\ StageSteps \in 0 .. 5
  BY DEF TypeOK, Steps, Held, StageSteps

\* The same after a step.
LEMMA StageStepsNext ==
    ASSUME TypeOK'
    PROVE  /\ pc' = "GetMemoryMap" => StageSteps' = 5
           /\ pc' = "classify" => StageSteps' = 4
           /\ pc' \in {"entry", "FreePool_retry", "FreePool_final"} => StageSteps' = 3
           /\ pc' = "AllocatePool" => StageSteps' = 2
           /\ pc' = "done" => StageSteps' = 0
           /\ StageSteps' \in 0 .. 5
  BY DEF TypeOK, Steps, Held, StageSteps

\* A call that follows an AllocatePool belongs to an attempt that was made,
\* so a step that moves on within the attempt, ends it or ends the loop
\* leaves fewer steps; only a new attempt costs one of the attempts left.
LEMMA StepUsesUp ==
    ASSUME IInv, IInv', Next
    PROVE  StepsLeft' \in Nat /\ StepsLeft' < StepsLeft
<1>. DEFINE within(from, to) ==
              pc = from /\ pc' = to /\ attempts' = attempts
            new(to) ==
              pc = "AllocatePool" /\ pc' = to /\ attempts' = attempts + 1
<1>1. \/ within("entry", "done") \/ within("entry", "AllocatePool")
      \/ within("AllocatePool", "done")
      \/ new("done") \/ new("GetMemoryMap")
      \/ within("GetMemoryMap", "classify")
      \/ within("classify", "FreePool_retry") \/ within("classify", "FreePool_final")
      \/ within("FreePool_retry", "AllocatePool") \/ within("FreePool_retry", "done")
      \/ within("FreePool_final", "done")
  <2>1. CASE ServiceMissing \/ ServicesPresent \/ RetryLimit
    BY <2>1 DEF ServiceMissing, ServicesPresent, RetryLimit, acquisition
  <2>2. CASE (\E s \in Statuses : AllocationFailed(s)) \/ AllocationNull \/ Allocated
    BY <2>2 DEF AllocationFailed, AllocationNull, Allocated, Attempt
  <2>3. CASE FirmwareAnswers
    BY <2>3 DEF FirmwareAnswers, GetMemoryMap
  <2>4. CASE TooSmall \/ Answered
    BY <2>4 DEF TooSmall, Answered, AfterAnswer, acquisition
  <2>5. CASE \E s \in Statuses : ReleaseForRetry(s) \/ ReleaseFinal(s)
    BY <2>5 DEF ReleaseForRetry, ReleaseFinal
  <2>. QED  BY <2>1, <2>2, <2>3, <2>4, <2>5 DEF Next
<1>2. /\ MAP_ATTEMPTS \in Nat
      /\ attempts \in 0 .. MAP_ATTEMPTS /\ attempts' \in 0 .. MAP_ATTEMPTS
  BY AcquisitionAssumption DEF IInv, TypeOK
<1>. QED  BY <1>1, <1>2, StageStepsValues, StageStepsNext DEF IInv, StepsLeft

\* acquire_map takes at most 4 * MAP_ATTEMPTS + 3 steps, and each one uses
\* one of them up: the bounded loop of probe.c ends whatever the firmware
\* answers.
THEOREM StepsRunOut ==
    Spec => /\ StepsLeft = 4 * MAP_ATTEMPTS + 3
            /\ UsesUpSteps
<1>1. Init => StepsLeft = 4 * MAP_ATTEMPTS + 3
  BY AcquisitionAssumption DEF Init, StepsLeft, StageSteps
<1>2. IInv /\ IInv' /\ [Next]_vars => [StepsLeft' \in Nat /\ StepsLeft' < StepsLeft]_vars
  BY StepUsesUp
<1>. QED  BY <1>1, <1>2, Invariance, PTL DEF Spec, UsesUpSteps
=============================================================================
