--------------------------- MODULE QemuPid_proofs ---------------------------
(***************************************************************************)
(* The launchers, for any number of them and of process ids.               *)
(***************************************************************************)
EXTENDS QemuPid, TLAPS

Terminating == {"open", "unlink", "probe", "killpg", "terminated"}
Recording == {"open for writing", "write", "report"}

PidTypeOK ==
    /\ pc \in [Launchers -> Over \cup Terminating \cup Recording]
    /\ pid \in [Launchers -> Pids \cup {NoOne}]
    /\ vm \in [Launchers -> Pids \cup {NoOne}]
    /\ file \in Pids \cup {Absent, Empty}
    /\ handles \subseteq Launchers
    /\ process \in [Pids -> {"nobody", "qemu", "exiting", "other"}]
    /\ lost \subseteq Pids /\ overwritten \subseteq Pids
    /\ alone \in BOOLEAN

\* What a launcher has at each stage, whatever the others do.
Stage(l) ==
    /\ pc[l] \in {"unlink", "probe", "killpg"} => pid[l] \in Pids
    /\ pc[l] \in Recording => vm[l] \in Pids /\ l \notin TerminateOnly
    /\ l \in handles => pc[l] \in {"write", "failed", "interrupted"}

StageInv == \A l \in Launchers : Stage(l)

\* What l has seen of the PID file, while l is the only launcher.
Knows(l) ==
    /\ pc[l] = "open" => file # Absent
    /\ pc[l] = "unlink" => file = pid[l]
    /\ pc[l] \in {"probe", "killpg", "terminated", "open for writing"}
         => file = Absent
    /\ pc[l] = "write" => file = Empty /\ l \in handles

SoleInv ==
    alone =>
      /\ \A l, m \in Active : l = m
      /\ \A l \in Active : Knows(l)
      /\ overwritten = {}

PInv == PidTypeOK /\ StageInv /\ EmptyOnlyWhileWriting /\ NoOrphan /\ SoleInv

\* What a step of the world around is.
World ==
    \/ \E l \in Launchers : Interrupt(l)
    \/ \E p \in Pids : ProcessEnds(p) \/ OtherStarts(p)

-----------------------------------------------------------------------------
(* Types and stages.                                                       *)

LEMMA PidInit == Init => PInv
<1> SUFFICES ASSUME Init PROVE PInv
  OBVIOUS
<1>1. Active = {} /\ Running = {}
  BY DEF Init, Active, Over, Running
<1>2. PidTypeOK
  BY DEF Init, PidTypeOK, Over
<1>3. StageInv
  BY DEF Init, StageInv, Stage, Terminating, Recording
<1>4. EmptyOnlyWhileWriting
  BY DEF Init, EmptyOnlyWhileWriting, Absent, Empty
<1>5. SoleInv
  BY <1>1 DEF Init, SoleInv
<1>6. NoOrphan
  BY <1>1 DEF NoOrphan
<1>. QED  BY <1>2, <1>3, <1>4, <1>5, <1>6 DEF PInv

\* Where l holds an id it is one of Pids.
LEMMA HeldIds ==
    ASSUME PidTypeOK, StageInv, NEW l \in Launchers
    PROVE  Holds(l) \subseteq Pids
BY DEF PidTypeOK, StageInv, Stage, Holds, Recording

\* A launcher that ends early takes nothing with it that it did not hold.
LEMMA EarlyEnd ==
    ASSUME PidTypeOK, StageInv, NEW l \in Launchers,
           NEW to \in {"failed", "interrupted"}, EndEarly(l, to)
    PROVE  PidTypeOK' /\ StageInv'
<1>1. PidTypeOK'
  BY HeldIds DEF EndEarly, launcher, PidTypeOK, Over, Running
<1>2. StageInv'
  BY DEF EndEarly, launcher, PidTypeOK, StageInv, Stage, Over, Recording
<1>. QED  BY <1>1, <1>2

\* The steps of a launcher by what they do to the launcher itself: it starts,
\* goes on, starts a QEMU or ends early.
LEMMA StepTypes ==
    ASSUME PidTypeOK, StageInv, NEW l \in Launchers, Step(l)
    PROVE  PidTypeOK' /\ StageInv'
<1> USE DEF launcher, history, Goto, PidTypeOK, StageInv, Stage, Over,
            Terminating, Recording
<1>1. CASE Exists(l)
  BY <1>1 DEF Exists
<1>2. ASSUME NEW from, Raise(l, from) PROVE PidTypeOK' /\ StageInv'
  BY <1>2, EarlyEnd DEF Raise
<1>3. CASE ReadPid(l)
  <2>1. CASE /\ file \in Pids /\ Goto(l, "open", "unlink")
             /\ pid' = [pid EXCEPT ![l] = file]
             /\ UNCHANGED <<vm, file, handles, process, history>>
    BY <2>1
  <2>. QED  BY <1>2, <1>3, <2>1 DEF ReadPid
<1>4. CASE Unlink(l)
  BY <1>2, <1>4 DEF Unlink, Running
<1>5. CASE Probe(l)
  BY <1>5 DEF Probe
<1>6. CASE KillGroup(l)
  BY <1>6 DEF KillGroup, Signalled
<1>7. CASE TerminateAndExit(l)
  BY <1>7 DEF TerminateAndExit
<1>8. CASE NoImage(l)
  BY <1>2, <1>8 DEF NoImage
<1>9. CASE Start(l)
  <2>1. PICK p \in Pids :
           /\ process' = [process EXCEPT ![p] = "qemu"]
           /\ \/ /\ Goto(l, "terminated", "open for writing")
                 /\ vm' = [vm EXCEPT ![l] = p] /\ UNCHANGED lost
              \/ /\ Goto(l, "terminated", "failed")
                 /\ lost' = lost \cup {p} /\ UNCHANGED vm
    BY <1>9 DEF Start
  <2>2. /\ l \notin TerminateOnly
        /\ UNCHANGED <<pid, file, handles, overwritten, alone>>
    BY <1>9 DEF Start
  <2>. QED  BY <2>1, <2>2
<1>10. CASE OpenForWriting(l)
  BY <1>2, <1>10 DEF OpenForWriting, Running
<1>11. CASE Write(l)
  BY <1>2, <1>11 DEF Write, Flushed, Displaced, Running
<1>12. CASE Report(l)
  BY <1>2, <1>12 DEF Report
<1>. QED  BY <1>1, <1>3, <1>4, <1>5, <1>6, <1>7, <1>8, <1>9, <1>10, <1>11, <1>12
          DEF Step

\* What the world around does keeps both: process ids are no launcher's.
LEMMA WorldTypes ==
    ASSUME PidTypeOK, StageInv, World
    PROVE  PidTypeOK' /\ StageInv'
<1>1. ASSUME NEW l \in Launchers, Interrupt(l) PROVE PidTypeOK' /\ StageInv'
  BY <1>1, EarlyEnd DEF Interrupt
<1>2. ASSUME NEW p \in Pids, ProcessEnds(p) \/ OtherStarts(p)
      PROVE  PidTypeOK' /\ StageInv'
  BY <1>2 DEF ProcessEnds, OtherStarts, launcher, history, PidTypeOK, StageInv, Stage
<1>. QED  BY <1>1, <1>2 DEF World

-----------------------------------------------------------------------------
(* The empty file.                                                         *)

\* A launcher that ends early is still one that had opened the file.
LEMMA EarlyEmpty ==
    ASSUME PidTypeOK, EmptyOnlyWhileWriting, NEW l \in Launchers,
           NEW to \in {"failed", "interrupted"}, EndEarly(l, to)
    PROVE  EmptyOnlyWhileWriting'
BY DEF EndEarly, launcher, PidTypeOK, EmptyOnlyWhileWriting

\* Only opening it for writing empties the file, and leaves a writer behind;
\* of several writers the last one to write has written an id.
LEMMA StepEmpty ==
    ASSUME PidTypeOK, StageInv, EmptyOnlyWhileWriting, NEW l \in Launchers, Step(l)
    PROVE  EmptyOnlyWhileWriting'
<1> USE DEF launcher, history, Goto, PidTypeOK, EmptyOnlyWhileWriting
<1>1. ASSUME NEW from, Raise(l, from) PROVE EmptyOnlyWhileWriting'
  BY <1>1, EarlyEmpty DEF Raise
<1>2. CASE Exists(l) \/ ReadPid(l) \/ Probe(l) \/ KillGroup(l)
  BY <1>1, <1>2 DEF Exists, ReadPid, Probe, KillGroup
<1>3. CASE Unlink(l)
  BY <1>1, <1>3 DEF Unlink, Absent, Empty
<1>4. CASE TerminateAndExit(l) \/ NoImage(l) \/ Report(l)
  BY <1>1, <1>4 DEF TerminateAndExit, NoImage, Report
<1>5. CASE Start(l)
  <2>1. /\ pc[l] = "terminated" /\ UNCHANGED <<file, handles>>
        /\ \A m \in Launchers \ {l} : pc'[m] = pc[m]
    BY <1>5 DEF Start
  <2>. QED  BY <2>1
<1>6. CASE OpenForWriting(l)
  BY <1>1, <1>6 DEF OpenForWriting
<1>7. CASE Write(l)
  <2>1. CASE file' = Flushed(l) /\ handles' = handles \ {l} /\ Goto(l, "write", "report")
    <3>1. vm[l] \in Pids
      BY <2>1 DEF StageInv, Stage, Recording
    <3>. QED  BY <2>1, <3>1, LaunchersAssumption DEF Flushed
  <2>. QED  BY <1>1, <1>7, <2>1 DEF Write
<1>. QED  BY <1>2, <1>3, <1>4, <1>5, <1>6, <1>7 DEF Step

LEMMA WorldEmpty ==
    ASSUME PidTypeOK, EmptyOnlyWhileWriting, World
    PROVE  EmptyOnlyWhileWriting'
<1>1. ASSUME NEW l \in Launchers, Interrupt(l) PROVE EmptyOnlyWhileWriting'
  BY <1>1, EarlyEmpty DEF Interrupt
<1>. QED  BY <1>1 DEF World, ProcessEnds, OtherStarts, launcher, history,
                      EmptyOnlyWhileWriting

-----------------------------------------------------------------------------
(* Where the QEMUs can be found.                                           *)

\* The others hold what they held.
LEMMA OthersHold ==
    ASSUME PidTypeOK, NEW l \in Launchers, NEW to,
           pc' = [pc EXCEPT ![l] = to],
           \A m \in Launchers \ {l} : pid'[m] = pid[m] /\ vm'[m] = vm[m]
    PROVE  \A m \in Launchers \ {l} : Holds(m)' = Holds(m)
BY DEF PidTypeOK, Holds

\* An id stays found when it is in no other place than the ones l changes.
LEMMA StillFound ==
    ASSUME NEW l \in Launchers, NoOrphan,
           \A m \in Launchers \ {l} : Holds(m)' = Holds(m),
           lost \subseteq lost', overwritten \subseteq overwritten',
           Running' \subseteq Running,
           (({file} \cup Holds(l)) \cap Running')
              \subseteq {file'} \cup Holds(l)' \cup lost' \cup overwritten'
    PROVE  NoOrphan'
<1> SUFFICES ASSUME NEW p \in Running'
             PROVE  p \in {file'} \cup Held' \cup lost' \cup overwritten'
  BY DEF NoOrphan
<1>1. p \in {file} \cup Held \cup lost \cup overwritten
  BY DEF NoOrphan
<1>2. ASSUME NEW m \in Launchers \ {l}, p \in Holds(m) PROVE p \in Held'
  BY <1>2 DEF Held
<1>3. Holds(l)' \subseteq Held'
  BY DEF Held
<1>4. CASE p \in {file} \cup Holds(l)
  BY <1>3, <1>4
<1>. QED  BY <1>1, <1>2, <1>4 DEF Held

\* What a launcher that ends early held is lost.
LEMMA EarlyFound ==
    ASSUME PidTypeOK, NoOrphan, NEW l \in Launchers,
           NEW to \in {"failed", "interrupted"}, EndEarly(l, to)
    PROVE  NoOrphan'
<1>1. \A m \in Launchers \ {l} : Holds(m)' = Holds(m)
  BY OthersHold DEF EndEarly, launcher
<1>2. Running' = Running
  BY DEF EndEarly, Running
<1>. QED  BY <1>1, <1>2, StillFound DEF EndEarly

\* Every step hands the ids on, from the file to a launcher and back, or
\* remembers the ones it loses.
LEMMA StepFound ==
    ASSUME PidTypeOK, StageInv, NoOrphan, NEW l \in Launchers, Step(l)
    PROVE  NoOrphan'
<1> USE DEF launcher, history
<1>. Running \subseteq Pids /\ Stage(l)
  BY DEF Running, StageInv
<1>1. ASSUME NEW from, Raise(l, from) PROVE NoOrphan'
  BY <1>1, EarlyFound DEF Raise
<1>2. CASE Exists(l)
  <2>1. Holds(l) = {} /\ Running' = Running
    BY <1>2 DEF Exists, Goto, Holds, Running
  <2>2. \A m \in Launchers \ {l} : Holds(m)' = Holds(m)
    BY <1>2, OthersHold DEF Exists, Goto
  <2>. QED  BY <1>2, <2>1, <2>2, StillFound DEF Exists
<1>3. ASSUME pc[l] = "open", file' = file, pid' = [pid EXCEPT ![l] = file],
             pc' = [pc EXCEPT ![l] = "unlink"], UNCHANGED <<vm, process, history>>
      PROVE  NoOrphan'
  <2>1. Holds(l) = {} /\ Running' = Running
    BY <1>3 DEF Holds, Running
  <2>2. \A m \in Launchers \ {l} : Holds(m)' = Holds(m)
    BY <1>3, OthersHold DEF PidTypeOK
  <2>. QED  BY <1>3, <2>1, <2>2, StillFound
<1>4. CASE ReadPid(l)
  BY <1>1, <1>3, <1>4 DEF ReadPid, Goto
<1>5. CASE Unlink(l)
  <2>1. CASE /\ Goto(l, "unlink", "probe") /\ file' = Absent
             /\ overwritten' = overwritten \cup (({file} \ {pid[l]}) \cap Running)
             /\ UNCHANGED <<launcher, process, lost, alone>>
    <3>1. Holds(l) = {} /\ Holds(l)' = {pid[l]} /\ Running' = Running
      BY <2>1 DEF Goto, Holds, Running, PidTypeOK
    <3>2. \A m \in Launchers \ {l} : Holds(m)' = Holds(m)
      BY <2>1, OthersHold DEF Goto
    <3>. QED  BY <2>1, <3>1, <3>2, StillFound
  <2>. QED  BY <1>1, <1>5, <2>1 DEF Unlink
<1>6. CASE Probe(l)
  <2>1. Running' = Running /\ UNCHANGED <<file, history>> /\ Holds(l) = {pid[l]}
    BY <1>6 DEF Probe, Goto, Running, Holds
  <2>2. \A m \in Launchers \ {l} : Holds(m)' = Holds(m)
    BY <1>6, OthersHold DEF Probe, Goto
  <2>3. pid[l] \in Running => Holds(l)' = {pid[l]}
    BY <1>6 DEF Probe, Goto, Running, Holds, PidTypeOK
  <2>. QED  BY <2>1, <2>2, <2>3, StillFound
<1>7. CASE KillGroup(l)
  <2>1. Running' \subseteq Running /\ Holds(l) = {pid[l]} /\ UNCHANGED <<file, history>>
    BY <1>7 DEF KillGroup, Signalled, Goto, Running, Holds, PidTypeOK
  <2>2. pid[l] \notin Running'
    BY <1>7 DEF KillGroup, Signalled, Goto, Running, PidTypeOK, Stage
  <2>3. \A m \in Launchers \ {l} : Holds(m)' = Holds(m)
    BY <1>7, OthersHold DEF KillGroup, Goto
  <2>. QED  BY <2>1, <2>2, <2>3, StillFound
<1>8. CASE TerminateAndExit(l)
  <2>1. Holds(l) = {} /\ Running' = Running
    BY <1>8 DEF TerminateAndExit, Goto, Holds, Running
  <2>2. \A m \in Launchers \ {l} : Holds(m)' = Holds(m)
    BY <1>8, OthersHold DEF TerminateAndExit, Goto
  <2>. QED  BY <1>8, <2>1, <2>2, StillFound DEF TerminateAndExit
<1>9. CASE NoImage(l)
  BY <1>1, <1>9 DEF NoImage
<1>10. CASE Start(l)
  <2>1. PICK p \in Pids :
           /\ process' = [process EXCEPT ![p] = "qemu"]
           /\ \/ /\ Goto(l, "terminated", "open for writing")
                 /\ vm' = [vm EXCEPT ![l] = p] /\ UNCHANGED lost
              \/ /\ Goto(l, "terminated", "failed")
                 /\ lost' = lost \cup {p} /\ UNCHANGED vm
    BY <1>10 DEF Start
  <2>2. /\ Running' \subseteq Running \cup {p} /\ Holds(l) = {}
        /\ UNCHANGED <<pid, file, overwritten>>
    BY <1>10, <2>1 DEF Start, Goto, Running, Holds, PidTypeOK
  <2>3. p \in Holds(l)' \cup lost'
    BY <2>1 DEF Goto, Holds, PidTypeOK
  <2>4. \A m \in Launchers \ {l} : Holds(m)' = Holds(m)
    BY <2>1, <2>2, OthersHold DEF Goto, PidTypeOK
  <2>5. ASSUME NEW q \in Running', q # p
        PROVE  q \in {file'} \cup Held' \cup lost' \cup overwritten'
    <3>1. q \in {file} \cup Held \cup lost \cup overwritten
      BY <2>2, <2>5 DEF NoOrphan
    <3>2. q \in Held => q \in Held'
      BY <2>2, <2>4 DEF Held
    <3>. QED  BY <2>1, <2>2, <3>1, <3>2
  <2>6. p \in Held' \cup lost'
    BY <2>3 DEF Held
  <2>. QED  BY <2>5, <2>6 DEF NoOrphan
<1>11. CASE OpenForWriting(l)
  <2>1. CASE /\ Goto(l, "open for writing", "write")
             /\ overwritten' = overwritten \cup ({file} \cap Running)
             /\ UNCHANGED <<launcher, process, lost, alone>>
    <3>1. Holds(l) = {vm[l]} /\ Holds(l)' = {vm[l]} /\ Running' = Running
      BY <2>1 DEF Goto, Holds, Running, PidTypeOK
    <3>2. \A m \in Launchers \ {l} : Holds(m)' = Holds(m)
      BY <2>1, OthersHold DEF Goto
    <3>. QED  BY <2>1, <3>1, <3>2, StillFound
  <2>. QED  BY <1>1, <1>11, <2>1 DEF OpenForWriting
<1>12. CASE Write(l)
  <2>1. CASE /\ Goto(l, "write", "report") /\ file' = Flushed(l)
             /\ overwritten' = overwritten \cup (Displaced(l) \cap Running)
             /\ UNCHANGED <<launcher, process, lost, alone>>
    <3>1. Holds(l) = {vm[l]} /\ Running' = Running
      BY <2>1 DEF Goto, Holds, Running
    <3>2. {file, vm[l]} \subseteq {file'} \cup Displaced(l)
      BY <2>1 DEF Flushed, Displaced
    <3>3. \A m \in Launchers \ {l} : Holds(m)' = Holds(m)
      BY <2>1, OthersHold DEF Goto
    <3>. QED  BY <2>1, <3>1, <3>2, <3>3, StillFound
  <2>. QED  BY <1>1, <1>12, <2>1 DEF Write
<1>13. CASE Report(l)
  <2>1. CASE /\ Goto(l, "report", "done")
             /\ UNCHANGED <<launcher, file, handles, process, history>>
    <3>1. Holds(l) = {} /\ Running' = Running
      BY <2>1 DEF Goto, Holds, Running
    <3>2. \A m \in Launchers \ {l} : Holds(m)' = Holds(m)
      BY <2>1, OthersHold DEF Goto
    <3>. QED  BY <2>1, <3>1, <3>2, StillFound
  <2>. QED  BY <1>1, <1>13, <2>1 DEF Report
<1>. QED  BY <1>2, <1>4, <1>5, <1>6, <1>7, <1>8, <1>9, <1>10, <1>11, <1>12, <1>13
          DEF Step

\* A process that ends is searched for no more.
LEMMA WorldFound ==
    ASSUME PidTypeOK, NoOrphan, World
    PROVE  NoOrphan'
<1>1. ASSUME NEW l \in Launchers, Interrupt(l) PROVE NoOrphan'
  BY <1>1, EarlyFound DEF Interrupt
<1>2. ASSUME NEW p \in Pids, ProcessEnds(p) \/ OtherStarts(p) PROVE NoOrphan'
  <2>1. /\ Running' \subseteq Running \ {p} /\ UNCHANGED file
        /\ \A m \in Launchers : Holds(m)' = Holds(m)
        /\ lost \ {p} \subseteq lost' /\ overwritten \ {p} \subseteq overwritten'
    BY <1>2 DEF ProcessEnds, OtherStarts, launcher, history, Running, Holds, PidTypeOK
  <2>2. Held' = Held
    BY <2>1 DEF Held
  <2>. QED  BY <2>1, <2>2 DEF NoOrphan
<1>. QED  BY <1>1, <1>2 DEF World

-----------------------------------------------------------------------------
(* One launcher at a time.                                                 *)

\* Only a first step finds launchers that are over.
LEMMA OnlyActor ==
    ASSUME PidTypeOK, SoleInv, NEW l \in Launchers, Step(l), alone'
    PROVE  /\ alone /\ overwritten = {}
           /\ \A m \in Launchers \ {l} : pc[m] \in Over /\ pc'[m] = pc[m]
           /\ Active' \subseteq {l}
           /\ pc[l] # "idle" => Knows(l)
<1>1. \A m \in Launchers \ {l} : pc'[m] = pc[m]
  BY DEF Step, Exists, ReadPid, Unlink, Probe, KillGroup, TerminateAndExit,
         NoImage, Start, OpenForWriting, Write, Report, Raise, EndEarly, Goto,
         PidTypeOK
<1>2. /\ alone /\ (Active = {} \/ l \in Active)
      /\ pc[l] # "idle" => l \in Active
  <2>1. CASE Exists(l)
    BY <2>1 DEF Exists, Goto
  <2>2. CASE ~Exists(l)
    <3>1. alone' = alone /\ pc[l] \notin Over
      BY <2>2
      DEF Step, ReadPid, Unlink, Probe, KillGroup, TerminateAndExit, NoImage,
          Start, OpenForWriting, Write, Report, Raise, EndEarly, Goto, Over,
          history
    <3>. QED  BY <3>1 DEF Active
  <2>. QED  BY <2>1, <2>2
<1>3. \A m \in Launchers \ {l} : m \notin Active
  BY <1>2 DEF SoleInv
<1>. QED  BY <1>1, <1>2, <1>3 DEF Active, SoleInv

\* What the actor knows is what the next stage needs, and keeps it from
\* destroying a record.
LEMMA ActorKnows ==
    ASSUME PInv, NEW l \in Launchers, Step(l), alone'
    PROVE  (l \in Active' => Knows(l)') /\ overwritten' = {}
<1> USE DEF launcher, history
<1>. PidTypeOK /\ Stage(l) /\ Running \subseteq Pids
  BY DEF PInv, StageInv, Running
<1>1. overwritten = {} /\ (pc[l] # "idle" => Knows(l))
  BY OnlyActor DEF PInv
<1>2. ASSUME NEW from, Raise(l, from)
      PROVE  l \notin Active' /\ overwritten' = {}
  BY <1>1, <1>2 DEF Raise, EndEarly, Active, Over, PidTypeOK
<1>3. CASE Exists(l)
  BY <1>1, <1>3 DEF Exists, Goto, PidTypeOK, Knows
<1>4. CASE ReadPid(l)
  BY <1>1, <1>2, <1>4 DEF ReadPid, Goto, PidTypeOK, Knows
<1>5. CASE Unlink(l)
  BY <1>1, <1>2, <1>5 DEF Unlink, Goto, PidTypeOK, Knows
<1>6. CASE Probe(l) \/ KillGroup(l)
  BY <1>1, <1>6 DEF Probe, KillGroup, Goto, PidTypeOK, Knows
<1>7. CASE TerminateAndExit(l) \/ NoImage(l)
  BY <1>1, <1>2, <1>7
  DEF TerminateAndExit, NoImage, Goto, PidTypeOK, Active, Over
<1>8. CASE Start(l)
  <2>1. /\ pc[l] = "terminated" /\ UNCHANGED <<pid, file, handles, overwritten>>
        /\ \/ pc' = [pc EXCEPT ![l] = "open for writing"]
           \/ pc' = [pc EXCEPT ![l] = "failed"]
    BY <1>8 DEF Start, Goto
  <2>. QED  BY <1>1, <2>1 DEF PidTypeOK, Active, Over, Knows
<1>9. CASE OpenForWriting(l)
  <2>1. file \notin Running
    BY <1>1, <1>2, <1>9, LaunchersAssumption
    DEF OpenForWriting, Raise, Goto, Knows
  <2>. QED  BY <1>1, <1>2, <1>9, <2>1 DEF OpenForWriting, Goto, PidTypeOK, Knows
<1>10. CASE Write(l)
  <2>1. Displaced(l) \cap Running = {}
    BY <1>1, <1>10, LaunchersAssumption
    DEF Write, Raise, Goto, Knows, Displaced
  <2>. QED  BY <1>1, <1>2, <1>10, <2>1 DEF Write, Goto, PidTypeOK, Knows
<1>11. CASE Report(l)
  BY <1>1, <1>2, <1>11 DEF Report, Goto, PidTypeOK, Active, Over
<1>. QED  BY <1>3, <1>4, <1>5, <1>6, <1>7, <1>8, <1>9, <1>10, <1>11 DEF Step

\* The others are over and stay where they are.
LEMMA StepSole ==
    ASSUME PInv, NEW l \in Launchers, Step(l)
    PROVE  SoleInv'
<1> SUFFICES ASSUME alone'
             PROVE  /\ \A k, m \in Active' : k = m
                    /\ \A m \in Active' : Knows(m)'
                    /\ overwritten' = {}
  BY DEF SoleInv
<1>. QED  BY OnlyActor, ActorKnows DEF PInv

\* Launchers only end, and the file stays as it is.
LEMMA WorldSole ==
    ASSUME PInv, World
    PROVE  SoleInv'
<1>1. ASSUME NEW l \in Launchers, Interrupt(l) PROVE SoleInv'
  <2>1. /\ Active' = Active \ {l} /\ UNCHANGED <<pid, file, handles, overwritten, alone>>
        /\ \A m \in Launchers \ {l} : pc'[m] = pc[m]
    BY <1>1 DEF Interrupt, EndEarly, launcher, Active, Over, PInv, PidTypeOK
  <2>2. \A m \in Active' : Knows(m) => Knows(m)'
    BY <2>1 DEF Knows, Active
  <2>. QED  BY <2>1, <2>2 DEF PInv, SoleInv
<1>2. ASSUME NEW p \in Pids, ProcessEnds(p) \/ OtherStarts(p) PROVE SoleInv'
  <2>1. UNCHANGED <<pc, pid, vm, file, handles, alone>> /\ overwritten' \subseteq overwritten
    BY <1>2 DEF ProcessEnds, OtherStarts, launcher, history
  <2>. QED  BY <2>1 DEF PInv, SoleInv, Active, Knows
<1>. QED  BY <1>1, <1>2 DEF World

-----------------------------------------------------------------------------
(* The theorems.                                                           *)

LEMMA PidNext == PInv /\ [Next]_vars => PInv'
<1>1. ASSUME PInv, NEW l \in Launchers, Step(l) PROVE PInv'
  BY <1>1, StepTypes, StepEmpty, StepFound, StepSole DEF PInv
<1>2. ASSUME PInv, World PROVE PInv'
  BY <1>2, WorldTypes, WorldEmpty, WorldFound, WorldSole DEF PInv
<1>3. ASSUME PInv, UNCHANGED vars PROVE PInv'
  <2>1. UNCHANGED <<pc, pid, vm, file, handles, process, lost, overwritten, alone>>
    BY <1>3 DEF vars, launcher, history
  <2>2. PidTypeOK' /\ StageInv' /\ EmptyOnlyWhileWriting'
    BY <1>3, <2>1 DEF PInv, PidTypeOK, StageInv, Stage, EmptyOnlyWhileWriting
  <2>3. NoOrphan'
    <3>1. Running' = Running /\ Held' = Held
      BY <2>1 DEF Running, Held, Holds
    <3>. QED  BY <1>3, <2>1, <3>1 DEF PInv, NoOrphan
  <2>4. SoleInv'
    BY <1>3, <2>1 DEF PInv, SoleInv, Active, Knows
  <2>. QED  BY <2>2, <2>3, <2>4 DEF PInv
<1>. QED  BY <1>1, <1>2, <1>3 DEF Next, World

LEMMA PidInvariance == Spec => []PInv
  BY PidInit, PidNext, PTL DEF Spec

\* The launchers' variables keep their types.
THEOREM PidTypes == Spec => []PidTypeOK
  BY PidInvariance, PTL DEF PInv

\* runQemu.py 78-79, 116-117: however many launchers overlap, fail and are cut
\* short, the PID file holds no id only while one of them is about to write
\* one or because one that had opened it ended before it did.
THEOREM EmptyFileIsTransient == Spec => []EmptyOnlyWhileWriting
  BY PidInvariance, PTL DEF PInv

\* runQemu.py 43-62, 64-125: in any interleaving of launchers, failing ones
\* among them, a QEMU that runs is in the file or in the hands of a launcher,
\* but for those of launchers that ended with the id in their hands and those
\* whose record another launcher destroyed.
THEOREM NoQemuIsLost == Spec => []NoOrphan
  BY PidInvariance, PTL DEF PInv

\* runQemu.py 48, 78, 116: one launcher after the other, failing and
\* interrupted ones among them, no record of a running QEMU is destroyed.
THEOREM RecordsAreKept == Spec => []NothingOverwritten
<1>1. PInv => NothingOverwritten
  BY DEF PInv, SoleInv, NothingOverwritten
<1>. QED  BY <1>1, PidInvariance, PTL

\* While launchers do not overlap, --terminate-only fails only on a file that
\* is there and stays, and exits only when every QEMU but the lost ones has
\* ended or was told to.
THEOREM TerminateOnlyKept == Spec => TerminateOnlyTerminates
<1>1. ASSUME PInv, Next, alone', NEW l \in TerminateOnly, Exits(l) \/ Fails(l)
      PROVE  Step(l) /\ l \in Launchers
  <2>1. l \in Launchers
    BY LaunchersAssumption
  <2>2. ASSUME NEW m \in Launchers, m # l, Step(m) PROVE FALSE
    BY <1>1, <2>1, <2>2, OnlyActor DEF PInv, Exits, Fails
  <2>3. ASSUME NEW m \in Launchers, Interrupt(m) PROVE FALSE
    BY <1>1, <2>1, <2>3 DEF Interrupt, EndEarly, PInv, PidTypeOK, Exits, Fails
  <2>4. ASSUME NEW p \in Pids, ProcessEnds(p) \/ OtherStarts(p) PROVE FALSE
    BY <1>1, <2>4 DEF ProcessEnds, OtherStarts, Exits, Fails
  <2>. QED  BY <1>1, <2>1, <2>2, <2>3, <2>4 DEF Next
<1>2. ASSUME PInv, Next, alone', NEW l \in TerminateOnly, Exits(l)
      PROVE  Running' \subseteq lost'
  <2>1. /\ Step(l) /\ l \in Launchers /\ pc[l] \notin Recording
    BY <1>1, <1>2, LaunchersAssumption
    DEF PInv, StageInv, Stage, Step, Exists, ReadPid, Unlink, Probe
  <2>2. TerminateAndExit(l)
    BY <1>2, <2>1
    DEF Step, Exists, ReadPid, Unlink, Probe, KillGroup, NoImage, Start, Raise,
        EndEarly, OpenForWriting, Write, Report, Goto, Recording, PInv, PidTypeOK,
        Exits
  <2>3. pc[l] = "terminated" /\ Running' = Running /\ lost' = lost
    BY <2>2 DEF TerminateAndExit, Goto, Running, history
  <2>4. file = Absent /\ overwritten = {} /\ \A m \in Launchers : Holds(m) = {}
    BY <1>2, <2>1, <2>3, OnlyActor DEF PInv, Knows, Holds, Over
  <2>5. Absent \notin Running
    BY LaunchersAssumption DEF Running
  <2>. QED  BY <1>2, <2>3, <2>4, <2>5 DEF PInv, NoOrphan, Held
<1>3. ASSUME PInv, Next, alone', NEW l \in TerminateOnly, Fails(l)
      PROVE  file # Absent /\ file' = file
  <2>1. /\ Step(l) /\ l \in Launchers /\ Stage(l) /\ pc[l] \notin Recording
    BY <1>1, <1>3, LaunchersAssumption DEF PInv, StageInv, Stage
  <2>2. \/ pc[l] = "open" /\ Raise(l, "open")
        \/ pc[l] = "unlink" /\ Raise(l, "unlink")
    BY <1>3, <2>1
    DEF Step, Exists, ReadPid, Unlink, Probe, KillGroup, TerminateAndExit, NoImage,
        Start, Raise, OpenForWriting, Write, Report, Goto, Recording, PInv,
        PidTypeOK, Fails
  <2>3. Knows(l)
    BY <1>3, <2>1, <2>2, OnlyActor DEF PInv
  <2>. QED  BY <2>1, <2>2, <2>3, LaunchersAssumption DEF Knows, Stage, Raise, EndEarly
<1>4. PInv /\ [Next]_vars
        => [alone' => \A l \in TerminateOnly :
              /\ Exits(l) => Running' \subseteq lost'
              /\ Fails(l) => file # Absent /\ file' = file]_vars
  BY <1>2, <1>3
<1>. QED  BY <1>4, PidInvariance, PTL DEF Spec, TerminateOnlyTerminates
=============================================================================
