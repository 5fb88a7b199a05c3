-------------------------- MODULE ReleaseGateProofs --------------------------
(***************************************************************************)
(* That what is published was verified and tested, for any number of       *)
(* pipelines, runs and versions, and any number of kills and edits; and    *)
(* that what passed the tests works.                                       *)
(*                                                                         *)
(* The workspace: only one pipeline is ever inside (Exclusive), and what   *)
(* it has verified stays (Holds).  The evidence: what a run's two digests  *)
(* of the image tell about the tree it has extracted in between (RunInv),  *)
(* and that a run that has passed changes no more, which is all the gate   *)
(* relies on (Proves).                                                     *)
(*                                                                         *)
(* The validation: QemuValidationProofs finds the flaws that one step      *)
(* provokes and sees.  The rest of PassMeansWorking needs to know what the *)
(* harness may take for granted at each step: an expectation says what the *)
(* session, the guest and the harness's own variables look like there      *)
(* (Meets), each step of the script leads from one expectation to the next *)
(* (Leads), and a block of it from the one it starts with to the one it    *)
(* ends with, seeing the flaws it tests on the way (Goes, Tests).          *)
(***************************************************************************)
EXTENDS ReleaseGate, QemuValidationProofs

\* A pipeline's positions after its verification, after the gate has read the
\* manifest, and after the gate.
Verified == {"gate", "screenshots", "copy", "copied", "move"}
Gated == {"screenshots", "copy", "copied", "move"}
Passed == {"copy", "copied", "move"}

Whole(v) == check = [of |-> v, whole |-> TRUE]

\* The workspace agrees with what p has verified.
Holds(p) ==
  /\ proc[p].at = "compare" => Whole(verified)
  /\ proc[p].at \in Verified =>
       /\ verified = proc[p].upt /\ rootfsImage = proc[p].upt /\ rebuilt = proc[p].upt
       /\ Whole(proc[p].upt) /\ proc[p].rootfs = proc[p].upt
  /\ proc[p].at = "move" => proc[p].tmp = proc[p].upt

Exclusive == \A p, q \in Pipelines : proc[p].at # "idle" /\ proc[q].at # "idle" => p = q

LockInv == Exclusive /\ \A p \in Pipelines : Holds(p)

\* While a run reads the image, the number of changes it has seen tells
\* whether the image is still, or again, the one it hashed at first.
RunInv(r) ==
  /\ run[r].at = "new" => run[r].swaps = 0
  /\ run[r].digest \in Versions =>
       /\ run[r].at \in {"extract", "sessions", "rehash"} =>
            /\ run[r].swaps = 0 => check.of = run[r].digest
            /\ run[r].swaps = 1 => check.of # run[r].digest
       /\ run[r].at \in {"sessions", "rehash"} =>
            (run[r].swaps = 0 => run[r].tree = run[r].digest)
       /\ run[r].at \in {"promote", "hash", "write", "passed"} =>
            run[r].tree = run[r].digest \/ run[r].swaps = 2

\* A run that has passed with this digest, and the SSH components with it.
Proves(r, rootfs) ==
  /\ r \in Runs /\ run[r].at = "passed" /\ run[r].digest = rootfs
  /\ Ssh[run[r].tree] = Ssh[rootfs]

\* The manifest names a run that has passed, if it says PASS.
ManifestInv ==
  manifest.status = "PASS" => manifest.of \in Runs /\ run[manifest.of].at = "passed"

\* What a pipeline knows of its evidence.
Knows(p) ==
  /\ proc[p].at \in Gated => Proves(proc[p].doc, proc[p].rootfs)
  /\ proc[p].at \in Passed =>
       \A f \in Featured : run[proc[p].doc].shown[f] = proc[p].doc

GateInv ==
  /\ \A r \in Runs : RunInv(r)
  /\ ManifestInv
  /\ \A p \in Pipelines : Knows(p)
  /\ output # None => \E r \in Runs : Proves(r, output)

-------------------------------------------------------------------------------
\* The records that pipelines and runs begin with.
LEMMA IdleTyped == Idle \in Process /\ Idle.at = "idle"
  BY DEF Idle, Process, Files

\* Likewise.
LEMMA NewTyped == New \in Evidence
  BY CountAssumption DEF New, Evidence, Files, Featured

\* A pipeline moves on with what it knows, or has been killed and is gone.
LEMMA GotoTyped ==
  ASSUME TypeOK, NEW p \in Pipelines, NEW new \in Process,
         NEW next, [new EXCEPT !.at = next] \in Process,
         Goto(p, next, new)
  PROVE  proc' \in [Pipelines -> Process]
  BY IdleTyped DEF Goto, TypeOK

\* The initial types.
LEMMA InitTyped == Init => TypeOK
  BY IdleTyped, NewTyped, CountAssumption DEF Init, TypeOK, Files, Featured

\* Every step of a pipeline keeps the types.  What Move publishes is whole
\* because it is what was compared with an unpacked image.
LEMMA PipelineTyped ==
  ASSUME TypeOK, NEW p \in Pipelines, Holds(p), Pipeline(p)
  PROVE  TypeOK'
<1> USE DEF At, files, evidence
<1>0. proc[p] \in Process
  BY DEF TypeOK
<1>1. ASSUME NEW mode \in {"prepare", "publish", "all"}, Start(p, mode)  PROVE TypeOK'
  <2>1. [Idle EXCEPT !.mode = mode, !.at = IF mode = "publish" THEN "stage" ELSE "build"] \in Process
    BY IdleTyped DEF Process, Idle
  <2> QED  BY <1>1, <2>1 DEF Start, TypeOK
<1>2. CASE BuildRootfs(p)
  <2>1. [proc[p] EXCEPT !.at = "pack"] \in Process
    BY <1>0 DEF Process
  <2>2. proc' \in [Pipelines -> Process]
    BY <1>0, <1>2, <2>1, GotoTyped DEF BuildRootfs
  <2> QED  BY <1>2, <2>2 DEF BuildRootfs, TypeOK, Files
<1>3. CASE Pack(p)
  <2>1. [proc[p] EXCEPT !.at = "stage"] \in Process
    BY <1>0 DEF Process
  <2>2. proc' \in [Pipelines -> Process]
    BY <1>0, <1>3, <2>1, GotoTyped DEF Pack
  <2> QED  BY <1>3, <2>2 DEF Pack, TypeOK
<1>4. CASE Stage(p)
  <2> DEFINE new == [proc[p] EXCEPT !.tmp = candidate]
  <2>1. new \in Process /\ [new EXCEPT !.at = "snapshot"] \in Process
    BY <1>0 DEF Process, TypeOK
  <2>2. proc' \in [Pipelines -> Process]
    BY <1>4, <2>1, GotoTyped DEF Stage
  <2> QED  BY <1>4, <2>2 DEF Stage, TypeOK
<1>5. CASE Snapshot(p)
  <2>1. [proc[p] EXCEPT !.at = "rebuild"] \in Process /\ proc[p].tmp \in Files
    BY <1>0 DEF Process
  <2>2. proc' \in [Pipelines -> Process]
    BY <1>0, <1>5, <2>1, GotoTyped DEF Snapshot
  <2> QED  BY <1>5, <2>1, <2>2 DEF Snapshot, TypeOK
<1>6. CASE Rebuild(p)
  <2> DEFINE new == [proc[p] EXCEPT !.upt = verified]
  <2>1. new \in Process /\ [new EXCEPT !.at = "unpack"] \in Process
    BY <1>0 DEF Process, TypeOK
  <2>2. proc' \in [Pipelines -> Process]
    BY <1>6, <2>1, GotoTyped DEF Rebuild
  <2> QED  BY <1>6, <2>2 DEF Rebuild, TypeOK
<1>7. CASE Unpack(p)
  <2>1. [proc[p] EXCEPT !.at = "unpacking"] \in Process
    BY <1>0 DEF Process
  <2>2. proc' \in [Pipelines -> Process]
    BY <1>0, <1>7, <2>1, GotoTyped DEF Unpack
  <2> QED  BY <1>7, <2>2 DEF Unpack, TypeOK
<1>8. CASE Unpacked(p)
  <2>1. [proc[p] EXCEPT !.at = "compare"] \in Process
    BY <1>0 DEF Process
  <2>2. proc' \in [Pipelines -> Process]
    BY <1>0, <1>8, <2>1, GotoTyped DEF Unpacked
  <2>3. ASSUME NEW r \in Runs, run[r].swaps < 2
        PROVE  [run[r] EXCEPT !.swaps = @ + 1] \in Evidence
    <3>1. run[r] \in Evidence /\ run[r].swaps \in 0..2
      BY DEF TypeOK, Evidence
    <3>2. run[r].swaps + 1 \in 0..2
      BY <2>3, <3>1
    <3> QED  BY <3>1, <3>2 DEF Evidence
  <2>4. run' \in [Runs -> Evidence]
    BY <1>8, <2>3 DEF Unpacked, TypeOK
  <2> QED  BY <1>8, <2>2, <2>4 DEF Unpacked, Unpackable, TypeOK
<1>9. CASE Compare(p)
  <2> DEFINE next == [Idle EXCEPT !.mode = "publish"]
             new == [proc[p] EXCEPT !.rootfs = check.of]
  <2>1. /\ [Idle EXCEPT !.at = "idle"] \in Process
        /\ next \in Process /\ [next EXCEPT !.at = "stage"] \in Process
        /\ new \in Process /\ [new EXCEPT !.at = "gate"] \in Process
    BY <1>0, IdleTyped DEF Process, TypeOK, Idle
  <2>2. \/ Goto(p, "idle", Idle) \/ Goto(p, "stage", next) \/ Goto(p, "gate", new)
    BY <1>9 DEF Compare
  <2>3. proc' \in [Pipelines -> Process]
    BY <2>1, <2>2, GotoTyped, IdleTyped
  <2> QED  BY <1>9, <2>3 DEF Compare, TypeOK
<1>10. CASE Gate(p)
  <2> DEFINE new == [proc[p] EXCEPT !.doc = manifest.of]
  <2>1. new \in Process /\ [new EXCEPT !.at = "screenshots"] \in Process
    BY <1>0 DEF Process, TypeOK
  <2>2. proc' \in [Pipelines -> Process]
    BY <1>10, <2>1, GotoTyped DEF Gate
  <2> QED  BY <1>10, <2>2 DEF Gate, TypeOK
<1>11. CASE ValidateScreenshots(p)
  <2>1. [proc[p] EXCEPT !.at = "copy"] \in Process
    BY <1>0 DEF Process
  <2>2. proc' \in [Pipelines -> Process]
    BY <1>0, <1>11, <2>1, GotoTyped DEF ValidateScreenshots
  <2> QED  BY <1>11, <2>2 DEF ValidateScreenshots, TypeOK
<1>12. CASE Copy(p)
  <2> DEFINE new == [proc[p] EXCEPT !.tmp = verified]
  <2>1. new \in Process /\ [new EXCEPT !.at = "copied"] \in Process
    BY <1>0 DEF Process, TypeOK
  <2>2. proc' \in [Pipelines -> Process]
    BY <1>12, <2>1, GotoTyped DEF Copy
  <2> QED  BY <1>12, <2>2 DEF Copy, TypeOK
<1>13. CASE CompareCopy(p)
  <2>1. [proc[p] EXCEPT !.at = "move"] \in Process
    BY <1>0 DEF Process
  <2>2. proc' \in [Pipelines -> Process]
    BY <1>0, <1>13, <2>1, GotoTyped DEF CompareCopy
  <2> QED  BY <1>13, <2>2 DEF CompareCopy, TypeOK
<1>14. CASE Move(p)
  <2>1. proc[p].tmp = check.of
    BY <1>14 DEF Move, Holds, Whole, Verified
  <2>2. proc' \in [Pipelines -> Process]
    BY <1>14, IdleTyped, GotoTyped DEF Move, Idle
  <2> QED  BY <1>14, <2>1, <2>2 DEF Move, TypeOK
<1>15. CASE Exit(p)
  BY <1>15, IdleTyped DEF Exit, TypeOK
<1>16. CASE Stop(p)
  BY <1>16, IdleTyped, CountAssumption DEF Stop, Event, TypeOK, Files
<1>17. CASE Kill(p)
  <2>1. [proc[p] EXCEPT !.alive = FALSE] \in Process
    BY <1>0 DEF Process
  <2> QED  BY <1>17, <2>1, CountAssumption DEF Kill, Event, TypeOK
<1> QED
  BY <1>1, <1>2, <1>3, <1>4, <1>5, <1>6, <1>7, <1>8, <1>9, <1>10, <1>11, <1>12,
     <1>13, <1>14, <1>15, <1>16, <1>17 DEF Pipeline

\* So does every step of a run ...
LEMMA ValidatorTyped ==
  ASSUME TypeOK, NEW r \in Runs, Validator(r)
  PROVE  TypeOK'
<1> USE DEF RunAt, files, evidence
<1>0. run[r] \in Evidence /\ Image \in Files
  BY DEF TypeOK, Image, Files
<1>1. CASE Begin(r)
  <2>1. [run[r] EXCEPT !.at = "extract", !.digest = Image] \in Evidence
    BY <1>0 DEF Evidence
  <2> QED  BY <1>1, <2>1 DEF Begin, TypeOK
<1>2. CASE ExtractExactCandidate(r)
  <2>1. [run[r] EXCEPT !.at = "sessions", !.tree = check.of] \in Evidence
    BY <1>0 DEF Evidence, TypeOK
  <2> QED  BY <1>2, <2>1 DEF ExtractExactCandidate, TypeOK
<1>3. CASE Sessions(r) \/ Rehash(r)
  <2>1. [run[r] EXCEPT !.at = "rehash"] \in Evidence /\ [run[r] EXCEPT !.at = "promote"] \in Evidence
    BY <1>0 DEF Evidence
  <2> QED  BY <1>3, <2>1 DEF Sessions, Rehash, TypeOK
<1>4. CASE Promote(r)
  <2>1. [run[r] EXCEPT !.at = "hash"] \in Evidence
    BY <1>0 DEF Evidence
  <2> QED  BY <1>4, <2>1 DEF Promote, TypeOK
<1>5. CASE HashFeatured(r)
  <2> DEFINE new == [run[r] EXCEPT !.shown[run[r].n] = featured[run[r].n],
                                   !.n = IF @ = NumFeatured THEN @ ELSE @ + 1,
                                   !.at = IF run[r].n = NumFeatured THEN "write" ELSE "promote"]
  <2>0. /\ run[r].n \in Featured
        /\ [run[r].shown EXCEPT ![run[r].n] = featured[run[r].n]] \in [Featured -> Runs \cup {None}]
    BY <1>0 DEF Evidence, TypeOK
  <2>00. (IF run[r].n = NumFeatured THEN run[r].n ELSE run[r].n + 1) \in Featured
    BY <2>0, CountAssumption DEF Featured
  <2>1. new \in Evidence
    BY <1>0, <2>0, <2>00 DEF Evidence
  <2>2. run' = [run EXCEPT ![r] = new]
    BY <1>5 DEF HashFeatured
  <2> QED  BY <1>5, <2>1, <2>2 DEF HashFeatured, TypeOK
<1>6. CASE WritePass(r) \/ Fail(r) \/ Abandon(r)
  <2>1. [run[r] EXCEPT !.at = "passed"] \in Evidence /\ [run[r] EXCEPT !.at = "failed"] \in Evidence
    BY <1>0 DEF Evidence
  <2> QED  BY <1>6, <2>1, CountAssumption DEF WritePass, Fail, Abandon, Event, TypeOK
<1> QED
  BY <1>1, <1>2, <1>3, <1>4, <1>5, <1>6 DEF Validator

\* ... and of what is outside.
LEMMA OutsideTyped ==
  ASSUME TypeOK, Edit \/ ReplaceCandidate
  PROVE  TypeOK'
  BY CountAssumption DEF Edit, ReplaceCandidate, Event, TypeOK, Files, files, evidence

-------------------------------------------------------------------------------
\* A pipeline that is still there has gone where it was sent.
LEMMA GotoArrives ==
  ASSUME TypeOK, NEW p \in Pipelines, NEW new \in Process, NEW next,
         Goto(p, next, new), proc'[p].at # "idle"
  PROVE  /\ proc'[p].at = next
         /\ proc'[p].upt = new.upt /\ proc'[p].rootfs = new.rootfs
         /\ proc'[p].tmp = new.tmp /\ proc'[p].doc = new.doc
<1>1. proc'[p] = [new EXCEPT !.at = next]
  BY IdleTyped DEF Goto, TypeOK
<1> QED
  BY <1>1 DEF Process

\* A pipeline at work is alone, and its step concerns no other.
LEMMA PipelineAlone ==
  ASSUME TypeOK, Exclusive, NEW p \in Pipelines, Pipeline(p)
  PROVE  \A q \in Pipelines \ {p} : proc[q].at = "idle" /\ proc'[q] = proc[q]
<1>1. proc[p].at # "idle" => \A q \in Pipelines \ {p} : proc[q].at = "idle"
  BY DEF Exclusive
<1>2. CASE \E mode \in {"prepare", "publish", "all"} : Start(p, mode)
  BY <1>2 DEF Start, LockHeld, TypeOK
<1>3. CASE BuildRootfs(p) \/ Pack(p) \/ Stage(p) \/ Snapshot(p) \/ Rebuild(p)
  BY <1>1, <1>3 DEF BuildRootfs, Pack, Stage, Snapshot, Rebuild, At, Goto, TypeOK
<1>4. CASE Unpack(p) \/ Unpacked(p) \/ Gate(p) \/ ValidateScreenshots(p)
  BY <1>1, <1>4 DEF Unpack, Unpacked, Gate, ValidateScreenshots, At, Goto, TypeOK
<1>5. CASE Compare(p)
  BY <1>1, <1>5 DEF Compare, At, Goto, TypeOK
<1>6. CASE Copy(p) \/ CompareCopy(p) \/ Move(p) \/ Exit(p) \/ Stop(p) \/ Kill(p)
  BY <1>1, <1>6 DEF Copy, CompareCopy, Move, Exit, Refused, Stop, Kill, At, Goto, TypeOK
<1> QED
  BY <1>2, <1>3, <1>4, <1>5, <1>6 DEF Pipeline

\* Out of the workspace, nothing is promised.
LEMMA IdleHolds == \A p \in Pipelines : proc[p].at = "idle" => Holds(p)
  BY DEF Holds, Verified

\* The same after a step.
LEMMA IdleHoldsNext == \A p \in Pipelines : proc'[p].at = "idle" => Holds(p)'
  BY DEF Holds, Verified

\* The pipeline keeps its own promise.
LEMMA PipelineHolds ==
  ASSUME TypeOK, NEW p \in Pipelines, Holds(p), Pipeline(p)
  PROVE  Holds(p)'
<1> USE DEF At, files, evidence
<1>0. proc[p] \in Process
  BY DEF TypeOK
<1> SUFFICES ASSUME proc'[p].at # "idle"  PROVE Holds(p)'
  BY IdleHoldsNext
<1>1. ASSUME NEW mode \in {"prepare", "publish", "all"}, Start(p, mode)  PROVE Holds(p)'
  <2>1. proc'[p].at \in {"stage", "build"}
    BY <1>1 DEF Start, TypeOK, Idle
  <2> QED  BY <2>1 DEF Holds, Verified
<1>2. CASE BuildRootfs(p) \/ Pack(p) \/ Stage(p) \/ Snapshot(p) \/ Rebuild(p) \/ Unpack(p)
  <2>1. /\ [proc[p] EXCEPT !.tmp = candidate] \in Process
        /\ [proc[p] EXCEPT !.upt = verified] \in Process
    BY <1>0 DEF Process, TypeOK
  <2>2. proc'[p].at \in {"pack", "stage", "snapshot", "rebuild", "unpack", "unpacking"}
    BY <1>0, <1>2, <2>1, GotoArrives DEF BuildRootfs, Pack, Stage, Snapshot, Rebuild, Unpack
  <2> QED  BY <2>2 DEF Holds, Verified
<1>3. CASE Unpacked(p)
  <2>1. proc'[p].at = "compare"
    BY <1>0, <1>3, GotoArrives DEF Unpacked
  <2> QED  BY <1>3, <2>1 DEF Unpacked, Holds, Verified, Whole
<1>4. CASE Compare(p)
  <2> DEFINE new == [proc[p] EXCEPT !.rootfs = check.of]
             next == [Idle EXCEPT !.mode = "publish"]
  <2>1. new \in Process /\ next \in Process
    BY <1>0, IdleTyped DEF Process, TypeOK
  <2>2. Goto(p, "idle", Idle) \/ Goto(p, "stage", next) \/ Goto(p, "gate", new)
    BY <1>4 DEF Compare
  <2>3. /\ Whole(verified) /\ verified = proc[p].upt
        /\ rootfsImage = check.of /\ rebuilt = check.of
        /\ UNCHANGED <<verified, rootfsImage, rebuilt, check>>
    BY <1>4 DEF Compare, Agree, Holds
  <2>4. CASE Goto(p, "idle", Idle) \/ Goto(p, "stage", next)
    <3>1. proc'[p].at \in {"idle", "stage"}
      BY <2>1, <2>4, IdleTyped, GotoArrives
    <3> QED  BY <3>1 DEF Holds, Verified
  <2>5. CASE Goto(p, "gate", new)
    <3>1. proc'[p].at = "gate" /\ proc'[p].upt = new.upt /\ proc'[p].rootfs = new.rootfs
      BY <2>1, <2>5, GotoArrives
    <3>2. new.upt = proc[p].upt /\ new.rootfs = check.of
      BY <1>0 DEF Process
    <3> QED  BY <2>3, <3>1, <3>2 DEF Holds, Verified, Whole
  <2> QED  BY <2>2, <2>4, <2>5
<1>5. ASSUME Gate(p) \/ ValidateScreenshots(p) \/ Copy(p) \/ CompareCopy(p)
      PROVE  Holds(p)'
  <2> DEFINE read == [proc[p] EXCEPT !.doc = manifest.of]
             copied == [proc[p] EXCEPT !.tmp = verified]
  <2>1. /\ read \in Process /\ read.upt = proc[p].upt /\ read.rootfs = proc[p].rootfs
        /\ copied \in Process /\ copied.upt = proc[p].upt /\ copied.rootfs = proc[p].rootfs
    BY <1>0 DEF Process, TypeOK
  <2>2. \/ Goto(p, "screenshots", read) \/ Goto(p, "copy", proc[p]) \/ Goto(p, "copied", copied)
        \/ Goto(p, "move", proc[p]) /\ proc[p].tmp = proc[p].upt
    BY <1>5 DEF Gate, ValidateScreenshots, Copy, CompareCopy
  <2>3. proc[p].at \in Verified /\ UNCHANGED <<verified, rootfsImage, rebuilt, check>>
    BY <1>5 DEF Gate, ValidateScreenshots, Copy, CompareCopy, Verified
  <2> HIDE DEF read, copied
  <2>4. /\ proc'[p].upt = proc[p].upt /\ proc'[p].rootfs = proc[p].rootfs
        /\ proc'[p].at \in Gated
    BY <1>0, <2>1, <2>2, GotoArrives DEF Gated
  <2>5. proc'[p].at = "move" => proc'[p].tmp = proc'[p].upt
    BY <1>0, <2>1, <2>2, GotoArrives
  <2> QED  BY <2>3, <2>4, <2>5 DEF Holds, Whole, Verified, Gated
<1>6. CASE Move(p) \/ Exit(p) \/ Stop(p)
  BY <1>6, IdleTyped DEF Move, Exit, Stop, Goto, TypeOK, Idle
<1>7. CASE Kill(p)
  <2>1. /\ proc'[p].at = proc[p].at /\ proc'[p].upt = proc[p].upt
        /\ proc'[p].rootfs = proc[p].rootfs /\ proc'[p].tmp = proc[p].tmp
        /\ UNCHANGED <<verified, rootfsImage, rebuilt, check>>
    BY <1>0, <1>7 DEF Kill, TypeOK, Process
  <2> QED  BY <2>1 DEF Holds, Whole
<1> QED
  BY <1>1, <1>2, <1>3, <1>4, <1>5, <1>6, <1>7 DEF Pipeline

\* Nobody else writes what a pipeline has verified.
LEMMA LockStep ==
  ASSUME TypeOK, LockInv, [Next]_vars
  PROVE  LockInv'
<1> USE DEF LockInv, files, evidence
<1>1. ASSUME NEW p \in Pipelines, Pipeline(p)  PROVE LockInv'
  <2>1. \A q \in Pipelines \ {p} : proc[q].at = "idle" /\ proc'[q] = proc[q]
    BY <1>1, PipelineAlone
  <2>2. Exclusive'
    BY <2>1 DEF Exclusive
  <2>3. Holds(p)'
    BY <1>1, PipelineHolds
  <2>4. ASSUME NEW q \in Pipelines \ {p}  PROVE Holds(q)'
    BY <2>1, IdleHoldsNext
  <2> QED  BY <2>2, <2>3, <2>4
<1>2. ASSUME UNCHANGED <<proc, rootfsImage, verified, rebuilt, check>>  PROVE LockInv'
  BY <1>2 DEF Exclusive, Holds, Whole
<1>3. CASE \E r \in Runs : Validator(r)
  BY <1>2, <1>3 DEF Validator, Begin, ExtractExactCandidate, Sessions, Rehash, Promote,
                    HashFeatured, WritePass, Fail, Abandon
<1>4. CASE Edit \/ ReplaceCandidate \/ UNCHANGED vars
  BY <1>2, <1>4 DEF Edit, ReplaceCandidate, vars
<1> QED
  BY <1>1, <1>3, <1>4 DEF Next

\* A step keeps the types, given what the lock protects.
LEMMA TypeStep ==
  ASSUME TypeOK, LockInv, [Next]_vars
  PROVE  TypeOK'
<1>1. CASE UNCHANGED vars
  BY <1>1 DEF vars, files, evidence, TypeOK
<1> QED
  BY <1>1, PipelineTyped, ValidatorTyped, OutsideTyped DEF Next, LockInv

\* The workspace lock: build-cfw-0.1.sh:55-70.
THEOREM Lifecycle == Spec => [](TypeOK /\ LockInv)
<1>1. Init => TypeOK /\ LockInv
  <2>1. ASSUME Init  PROVE \A p \in Pipelines : proc[p].at = "idle"
    BY <2>1, IdleTyped DEF Init
  <2> QED  BY <2>1, InitTyped, IdleHolds DEF LockInv, Exclusive
<1>2. (TypeOK /\ LockInv) /\ [Next]_vars => (TypeOK /\ LockInv)'
  BY LockStep, TypeStep
<1> QED
  BY <1>1, <1>2, PTL DEF Spec

-------------------------------------------------------------------------------
\* What each step does to the runs.
LEMMA PipelineAndRuns ==
  ASSUME TypeOK, NEW p \in Pipelines, Pipeline(p)
  PROVE  /\ UNCHANGED <<manifest, featured>>
         /\ \/ run' = run /\ check'.of = check.of
            \/ Unpacked(p)
<1> USE DEF files, evidence
<1>1. CASE Unpack(p)
  BY <1>1 DEF Unpack, TypeOK
<1>2. CASE Unpacked(p)
  BY <1>2 DEF Unpacked
<1> QED
  BY <1>1, <1>2 DEF Pipeline, Start, BuildRootfs, Pack, Stage, Snapshot, Rebuild, Compare, Gate,
     ValidateScreenshots, Copy, CompareCopy, Move, Exit, Stop, Kill

\* A run that has passed stays as it is: the manifest means what it meant.
LEMMA PassedStays ==
  ASSUME TypeOK, [Next]_vars, NEW r \in Runs, run[r].at = "passed"
  PROVE  run'[r] = run[r]
<1>1. ASSUME NEW p \in Pipelines, Pipeline(p)  PROVE run'[r] = run[r]
  <2>1. CASE Unpacked(p)
    BY <2>1 DEF Unpacked
  <2> QED  BY <1>1, <2>1, PipelineAndRuns
<1>2. ASSUME NEW q \in Runs, Validator(q)  PROVE run'[r] = run[r]
  BY <1>2 DEF Validator, Begin, ExtractExactCandidate, Sessions, Rehash, Promote, HashFeatured,
              WritePass, Fail, Abandon, RunAt, TypeOK
<1>3. CASE Edit \/ ReplaceCandidate \/ UNCHANGED vars
  BY <1>3 DEF Edit, ReplaceCandidate, vars, evidence
<1> QED
  BY <1>1, <1>2, <1>3 DEF Next

\* So does what it proves.
LEMMA ProvesStays ==
  ASSUME TypeOK, [Next]_vars, NEW r, NEW rootfs, Proves(r, rootfs)
  PROVE  Proves(r, rootfs)'
  BY PassedStays DEF Proves

\* A run's own step: its digest, the tree it extracts while nothing has
\* changed, and the second digest.
LEMMA OwnStep ==
  ASSUME TypeOK, NEW r \in Runs, RunInv(r), Validator(r)
  PROVE  RunInv(r)'
<1> USE DEF RunAt
<1>0. run[r] \in Evidence /\ run[r].swaps \in 0..2
  BY DEF TypeOK, Evidence
<1>1. check' = check
  BY DEF Validator, Begin, ExtractExactCandidate, Sessions, Rehash, Promote, HashFeatured,
         WritePass, Fail, Abandon, files
<1>2. CASE Begin(r)
  <2>1. /\ run'[r].at = "extract" /\ run'[r].digest = Image /\ run'[r].swaps = run[r].swaps
        /\ run[r].swaps = 0
    BY <1>0, <1>2 DEF Begin, TypeOK, Evidence, RunInv
  <2>2. Image \in Versions => Image = check.of
    BY NoneAssumption DEF Image
  <2> QED  BY <1>1, <2>1, <2>2 DEF RunInv
<1>3. CASE ExtractExactCandidate(r)
  <2>1. /\ run[r].at = "extract" /\ run'[r].at = "sessions" /\ run'[r].tree = check.of
        /\ run'[r].digest = run[r].digest /\ run'[r].swaps = run[r].swaps
    BY <1>0, <1>3 DEF ExtractExactCandidate, TypeOK, Evidence
  <2> QED  BY <1>1, <2>1 DEF RunInv
<1>4. CASE Sessions(r)
  <2>1. /\ run[r].at = "sessions" /\ run'[r].at = "rehash" /\ run'[r].tree = run[r].tree
        /\ run'[r].digest = run[r].digest /\ run'[r].swaps = run[r].swaps
    BY <1>0, <1>4 DEF Sessions, TypeOK, Evidence
  <2> QED  BY <1>1, <2>1 DEF RunInv
<1>5. CASE Rehash(r)
  <2>1. /\ run[r].at = "rehash" /\ run'[r].at = "promote" /\ run'[r].tree = run[r].tree
        /\ run'[r].digest = run[r].digest /\ run'[r].swaps = run[r].swaps
        /\ Image = run[r].digest
    BY <1>0, <1>5 DEF Rehash, TypeOK, Evidence
  <2>2. run[r].digest \in Versions => check.of = run[r].digest
    BY <2>1, NoneAssumption DEF Image
  <2>3. run[r].swaps = 0 \/ run[r].swaps = 1 \/ run[r].swaps = 2
    BY <1>0
  <2> QED  BY <1>1, <2>1, <2>2, <2>3 DEF RunInv
<1>6. CASE Promote(r) \/ HashFeatured(r) \/ WritePass(r)
  <2>1. /\ run[r].at \in {"promote", "hash", "write"}
        /\ run'[r].at \in {"promote", "hash", "write", "passed"}
        /\ run'[r].tree = run[r].tree
        /\ run'[r].digest = run[r].digest /\ run'[r].swaps = run[r].swaps
    BY <1>0, <1>6 DEF Promote, HashFeatured, WritePass, TypeOK, Evidence
  <2> QED  BY <2>1 DEF RunInv
<1>7. CASE Fail(r) \/ Abandon(r)
  <2>1. run'[r].at = "failed"
    BY <1>0, <1>7 DEF Fail, Abandon, TypeOK, Evidence
  <2> QED  BY <2>1 DEF RunInv
<1> QED
  BY <1>2, <1>3, <1>4, <1>5, <1>6, <1>7 DEF Validator

\* The other runs, and what a pipeline unpacks under them.
LEMMA RunStep ==
  ASSUME TypeOK, \A r \in Runs : RunInv(r), [Next]_vars, NEW r \in Runs
  PROVE  RunInv(r)'
<1>1. ASSUME run'[r] = run[r], check'.of = check.of  PROVE RunInv(r)'
  BY <1>1 DEF RunInv
<1>2. ASSUME NEW p \in Pipelines, Pipeline(p)  PROVE RunInv(r)'
  <2>1. CASE Unpacked(p)
    <3>1. check'.of = verified
      BY <2>1 DEF Unpacked
    <3>2. CASE check.of = verified
      BY <1>1, <2>1, <3>1, <3>2 DEF Unpacked
    <3>3. ASSUME check.of # verified, run[r].at \in {"extract", "sessions", "rehash"}, run[r].swaps < 2
          PROVE  RunInv(r)'
      <4>1. run[r] \in Evidence /\ run[r].swaps \in 0..2
        BY DEF TypeOK, Evidence
      <4>2. run'[r] = [run[r] EXCEPT !.swaps = @ + 1]
        BY <2>1, <3>3 DEF Unpacked
      <4>3. /\ run'[r].at = run[r].at /\ run'[r].digest = run[r].digest
            /\ run'[r].swaps = run[r].swaps + 1
        BY <4>1, <4>2 DEF Evidence
      <4>4. run'[r].swaps # 0 /\ (run'[r].swaps = 1 => run[r].swaps = 0)
        BY <4>1, <4>3
      <4> QED  BY <3>1, <3>3, <4>3, <4>4 DEF RunInv
    <3>4. ASSUME check.of # verified,
                 ~(run[r].at \in {"extract", "sessions", "rehash"} /\ run[r].swaps < 2)
          PROVE  RunInv(r)'
      <4>1. run'[r] = run[r]
        BY <2>1, <3>4 DEF Unpacked
      <4>2. run[r].at \in {"extract", "sessions", "rehash"} => run[r].swaps = 2
        BY <3>4 DEF TypeOK, Evidence
      <4> QED  BY <4>1, <4>2 DEF RunInv
    <3> QED  BY <3>2, <3>3, <3>4
  <2> QED  BY <1>1, <1>2, <2>1, PipelineAndRuns
<1>3. ASSUME NEW q \in Runs, Validator(q)  PROVE RunInv(r)'
  <2>1. CASE q = r
    BY <1>3, <2>1, OwnStep
  <2>2. CASE q # r
    BY <1>1, <1>3, <2>2
       DEF Validator, Begin, ExtractExactCandidate, Sessions, Rehash, Promote, HashFeatured,
           WritePass, Fail, Abandon, TypeOK, files
  <2> QED  BY <2>1, <2>2
<1>4. CASE Edit \/ ReplaceCandidate \/ UNCHANGED vars
  BY <1>1, <1>4 DEF Edit, ReplaceCandidate, vars, evidence, files
<1> QED
  BY <1>2, <1>3, <1>4 DEF Next

\* Only WritePass writes a PASS.
LEMMA ManifestStep ==
  ASSUME TypeOK, ManifestInv, [Next]_vars
  PROVE  ManifestInv'
<1>1. CASE manifest' = manifest
  BY <1>1, PassedStays DEF ManifestInv
<1>2. ASSUME NEW r \in Runs, Validator(r), manifest' # manifest  PROVE ManifestInv'
  <2>1. CASE WritePass(r)
    BY <2>1 DEF WritePass, ManifestInv, TypeOK, Evidence
  <2>2. CASE ~WritePass(r)
    BY <1>2, <2>2 DEF Validator, Begin, ExtractExactCandidate, Sessions, Rehash, Promote,
                      HashFeatured, Fail, Abandon, ManifestInv
  <2> QED  BY <2>1, <2>2
<1>3. ASSUME NEW p \in Pipelines, Pipeline(p)  PROVE manifest' = manifest
  BY <1>3, PipelineAndRuns
<1>4. CASE Edit \/ ReplaceCandidate \/ UNCHANGED vars
  BY <1>1, <1>4 DEF Edit, ReplaceCandidate, vars, evidence
<1> QED
  BY <1>1, <1>2, <1>3, <1>4 DEF Next

\* Only its own step can make a pipeline forget it.
LEMMA KnowsStays ==
  ASSUME TypeOK, [Next]_vars, NEW p \in Pipelines, Knows(p),
         proc'[p].at \in Gated => proc[p].at \in Gated,
         proc'[p].at \in Passed => proc[p].at \in Passed,
         proc'[p].at \in Gated => proc'[p].doc = proc[p].doc /\ proc'[p].rootfs = proc[p].rootfs
  PROVE  Knows(p)'
<1> SUFFICES ASSUME NEW d, NEW x, d = proc[p].doc, x = proc[p].rootfs  PROVE Knows(p)'
  OBVIOUS
<1>1. proc[p].at \in Gated => Proves(d, x) /\ Proves(d, x)' /\ run'[d] = run[d]
  BY ProvesStays, PassedStays DEF Knows, Proves
<1>2. proc'[p].at \in Passed => proc'[p].at \in Gated
  BY DEF Passed, Gated
<1>3. proc'[p].at \in Gated => proc'[p].doc = d /\ proc'[p].rootfs = x
  OBVIOUS
<1>4. proc'[p].at \in Gated => Proves(d, x)' /\ proc'[p].doc = d /\ proc'[p].rootfs = x
  BY <1>1, <1>3
<1>5. proc'[p].at \in Passed => \A f \in Featured : run'[d].shown[f] = d
  BY <1>1, <1>2 DEF Knows
<1> QED
  BY <1>2, <1>4, <1>5 DEF Knows, Proves

\* A pipeline takes the manifest it was given evidence for along to the end.
LEMMA PipelineKnows ==
  ASSUME TypeOK, ManifestInv, [Next]_vars,
         NEW p \in Pipelines, Holds(p), Knows(p), Pipeline(p)
  PROVE  Knows(p)'
<1> USE DEF At, files, evidence
<1>0. proc[p] \in Process
  BY DEF TypeOK
<1> SUFFICES ASSUME proc'[p].at \in Gated  PROVE Knows(p)'
  BY DEF Knows, Gated, Passed
<1>00. proc'[p].at # "idle"
  BY DEF Gated
<1>1. CASE Gate(p)
  <2> DEFINE read == [proc[p] EXCEPT !.doc = manifest.of]
  <2>1. read \in Process /\ read.doc = manifest.of /\ read.rootfs = proc[p].rootfs
    BY <1>0 DEF Process, TypeOK
  <2>2. Goto(p, "screenshots", read)
    BY <1>1 DEF Gate
  <2> HIDE DEF read
  <2>3. /\ proc'[p].at = "screenshots" /\ proc'[p].doc = manifest.of
        /\ proc'[p].rootfs = proc[p].rootfs
    BY <1>00, <2>1, <2>2, GotoArrives
  <2>4. Proves(manifest.of, proc[p].rootfs) /\ run' = run
    BY <1>1 DEF Gate, Bound, ManifestInv, Proves
  <2> QED  BY <2>3, <2>4 DEF Knows, Proves, Passed
<1>2. CASE ValidateScreenshots(p)
  <2>1. proc'[p].at = "copy" /\ proc'[p].doc = proc[p].doc /\ proc'[p].rootfs = proc[p].rootfs
    BY <1>0, <1>00, <1>2, GotoArrives DEF ValidateScreenshots
  <2>2. \A f \in Featured : run'[proc[p].doc].shown[f] = proc[p].doc
    BY <1>2 DEF ValidateScreenshots, Pictured
  <2>3. Proves(proc[p].doc, proc[p].rootfs) /\ run' = run
    BY <1>2 DEF ValidateScreenshots, Knows, Gated
  <2> QED  BY <2>1, <2>2, <2>3 DEF Knows, Proves
<1>3. CASE Copy(p)
  <2> DEFINE copied == [proc[p] EXCEPT !.tmp = verified]
  <2>1. copied \in Process /\ copied.doc = proc[p].doc /\ copied.rootfs = proc[p].rootfs
    BY <1>0 DEF Process, TypeOK
  <2>2. Goto(p, "copied", copied) /\ proc[p].at = "copy"
    BY <1>3 DEF Copy
  <2> HIDE DEF copied
  <2>3. proc'[p].doc = proc[p].doc /\ proc'[p].rootfs = proc[p].rootfs
    BY <1>00, <2>1, <2>2, GotoArrives
  <2> QED  BY <2>2, <2>3, KnowsStays DEF Gated, Passed
<1>4. CASE CompareCopy(p)
  <2>1. proc'[p].doc = proc[p].doc /\ proc'[p].rootfs = proc[p].rootfs /\ proc[p].at = "copied"
    BY <1>0, <1>00, <1>4, GotoArrives DEF CompareCopy
  <2> QED  BY <2>1, KnowsStays DEF Gated, Passed
<1>5. CASE Kill(p)
  <2>1. /\ proc'[p].doc = proc[p].doc /\ proc'[p].rootfs = proc[p].rootfs
        /\ proc'[p].at = proc[p].at
    BY <1>0, <1>5 DEF Kill, TypeOK, Process
  <2> QED  BY <2>1, KnowsStays
<1>6. CASE Move(p) \/ Exit(p) \/ Stop(p)
  BY <1>00, <1>6, IdleTyped DEF Move, Exit, Stop, Goto, TypeOK, Idle
<1>7. ASSUME NEW mode \in {"prepare", "publish", "all"}, Start(p, mode)  PROVE FALSE
  <2>1. proc'[p].at \in {"stage", "build"}
    BY <1>7 DEF Start, TypeOK, Idle
  <2> QED  BY <2>1 DEF Gated
<1>8. CASE BuildRootfs(p) \/ Pack(p) \/ Stage(p) \/ Snapshot(p) \/ Rebuild(p) \/ Unpack(p) \/ Unpacked(p)
  <2>1. /\ [proc[p] EXCEPT !.tmp = candidate] \in Process
        /\ [proc[p] EXCEPT !.upt = verified] \in Process
    BY <1>0 DEF Process, TypeOK
  <2>2. proc'[p].at \in {"pack", "stage", "snapshot", "rebuild", "unpack", "unpacking", "compare"}
    BY <1>0, <1>00, <1>8, <2>1, GotoArrives
       DEF BuildRootfs, Pack, Stage, Snapshot, Rebuild, Unpack, Unpacked
  <2> QED  BY <2>2 DEF Gated
<1>9. CASE Compare(p)
  <2> DEFINE new == [proc[p] EXCEPT !.rootfs = check.of]
             next == [Idle EXCEPT !.mode = "publish"]
  <2>1. new \in Process /\ next \in Process
    BY <1>0, IdleTyped DEF Process, TypeOK
  <2>2. Goto(p, "idle", Idle) \/ Goto(p, "stage", next) \/ Goto(p, "gate", new)
    BY <1>9 DEF Compare
  <2> HIDE DEF new, next
  <2>3. proc'[p].at \in {"idle", "stage", "gate"}
    BY <1>00, <2>1, <2>2, IdleTyped, GotoArrives
  <2> QED  BY <2>3 DEF Gated
<1> QED
  BY <1>1, <1>2, <1>3, <1>4, <1>5, <1>6, <1>7, <1>8, <1>9 DEF Pipeline

\* What Move publishes is what the evidence is about.
LEMMA OutputStep ==
  ASSUME TypeOK, LockInv, GateInv, [Next]_vars
  PROVE  (output # None => \E r \in Runs : Proves(r, output))'
<1>1. CASE output' = output
  <2> SUFFICES ASSUME NEW x, x = output, x # None  PROVE \E r \in Runs : Proves(r, x)'
    BY <1>1 DEF Proves
  <2>1. PICK r \in Runs : Proves(r, x)
    BY DEF GateInv
  <2> QED  BY <2>1, ProvesStays
<1>2. ASSUME NEW p \in Pipelines, Move(p)  PROVE \E r \in Runs : Proves(r, output)'
  <2> SUFFICES ASSUME NEW d, NEW x, d = proc[p].doc, x = proc[p].rootfs
               PROVE  \E r \in Runs : Proves(r, output)'
    OBVIOUS
  <2>1. Proves(d, x)
    BY <1>2 DEF GateInv, Knows, Gated, Move, At
  <2>2. output' = x
    BY <1>2 DEF LockInv, Holds, Verified, Move, At
  <2>3. d \in Runs /\ Proves(d, x)'
    BY <2>1, ProvesStays DEF Proves
  <2> QED  BY <2>2, <2>3 DEF Proves
<1>3. ASSUME output' # output  PROVE \E p \in Pipelines : Move(p)
  BY <1>3 DEF Next, vars, files, evidence, Edit, ReplaceCandidate, Pipeline, Start, BuildRootfs,
     Pack, Stage, Snapshot, Rebuild, Unpack, Unpacked, Compare, Gate, ValidateScreenshots, Copy,
     CompareCopy, Exit, Stop, Kill, Validator, Begin, ExtractExactCandidate, Sessions, Rehash,
     Promote, HashFeatured, WritePass, Fail, Abandon
<1> QED
  BY <1>1, <1>2, <1>3

\* The evidence, as a whole, is kept.
LEMMA GateStep ==
  ASSUME TypeOK, LockInv, GateInv, [Next]_vars
  PROVE  GateInv'
<1>1. \A r \in Runs : RunInv(r)'
  BY RunStep DEF GateInv
<1>2. ManifestInv'
  BY ManifestStep DEF GateInv
<1>3. ASSUME NEW p \in Pipelines  PROVE Knows(p)'
  <2>1. Knows(p)
    BY DEF GateInv
  <2>2. CASE proc'[p] = proc[p]
    BY <2>1, <2>2, KnowsStays
  <2>3. CASE Pipeline(p)
    BY <2>1, <2>3, PipelineKnows DEF GateInv, LockInv
  <2>4. ASSUME NEW q \in Pipelines \ {p}, Pipeline(q)  PROVE proc'[p] = proc[p]
    BY <2>4, PipelineAlone DEF LockInv
  <2>5. ASSUME NEW r \in Runs, Validator(r)  PROVE proc' = proc
    BY <2>5 DEF Validator, Begin, ExtractExactCandidate, Sessions, Rehash, Promote, HashFeatured,
                WritePass, Fail, Abandon
  <2>6. CASE Edit \/ ReplaceCandidate \/ UNCHANGED vars
    BY <2>2, <2>6 DEF Edit, ReplaceCandidate, vars
  <2> QED  BY <2>2, <2>3, <2>4, <2>5, <2>6 DEF Next
<1> QED
  BY <1>1, <1>2, <1>3, OutputStep DEF GateInv

\* The invariant that the theorems are parts of.
LEMMA Evidenced == Spec => [](TypeOK /\ LockInv /\ GateInv)
<1>1. Init => GateInv
  <2>1. ASSUME Init  PROVE \A p \in Pipelines : Knows(p)
    BY <2>1, IdleTyped DEF Init, Knows, Gated, Passed
  <2>2. ASSUME Init  PROVE \A r \in Runs : RunInv(r)
    BY <2>2 DEF Init, RunInv, New
  <2> QED  BY <2>1, <2>2 DEF Init, GateInv, ManifestInv
<1>2. TypeOK /\ LockInv /\ GateInv /\ [Next]_vars => GateInv'
  BY GateStep
<1> QED
  BY <1>1, <1>2, Lifecycle, PTL DEF Spec

-------------------------------------------------------------------------------
\* Every part has its type, and nothing unfinished is ever published.
THEOREM TypeCorrect == Spec => []TypeOK
<1> QED  BY Lifecycle, PTL

\* A pipeline finds the workspace as it verified it (build-cfw-0.1.sh:57),
\* whatever was killed, and however many are started.
THEOREM WorkspaceKept == Spec => []OneLifecycle
<1>1. LockInv => OneLifecycle
  BY DEF LockInv, Holds, Whole, Verified, OneLifecycle
<1> QED  BY <1>1, Lifecycle, PTL

\* What is published was executed by a run that passed, unless the image
\* changed and changed back while that run was reading it.
THEOREM OnlyTested == Spec => []PublishedTested
<1>1. TypeOK /\ GateInv => PublishedTested
  <2> SUFFICES ASSUME TypeOK, GateInv, output # None  PROVE PublishedTested
    BY DEF PublishedTested
  <2>1. PICK r \in Runs : Proves(r, output)
    BY DEF GateInv
  <2>2. output \in Versions /\ RunInv(r)
    BY DEF TypeOK, GateInv
  <2> QED  BY <2>1, <2>2 DEF Proves, RunInv, PublishedTested
<1> QED  BY <1>1, Evidenced, PTL

\* The gate lets through evidence of one run, however many share the files.
THEOREM OneRunsEvidence == Spec => []EvidenceOfOneRun
<1>1. GateInv => EvidenceOfOneRun
  BY DEF GateInv, Knows, Gated, Passed, Proves, EvidenceOfOneRun
<1> QED  BY <1>1, Evidenced, PTL

-------------------------------------------------------------------------------
(***************************************************************************)
(* What the program may count on before a step: an expectation.  It says   *)
(* where in one of its functions the program is (at), what is known of the *)
(* session (d) and of the sidecar's screen (x), of the tile or row that    *)
(* was touched, and of three frames it holds.  NoMask, "any" and Blank     *)
(* stand for what is not known.                                            *)
(***************************************************************************)
Present == "candidate-present"

Expect(at, d, x, touched, last, present, settings) ==
  [at |-> at, d |-> d, x |-> x, touched |-> touched,
   last |-> last, present |-> present, settings |-> settings]

Known(runtime, sd, mask, saved, ssh) ==
  [runtime |-> runtime, sd |-> sd, mask |-> mask, saved |-> saved, ssh |-> ssh]
Screen(screen, shows, notice) == [screen |-> screen, shows |-> shows, notice |-> notice]
Tapped(point) == [drag |-> FALSE, at |-> point]

\* What candidates with flaws fl do, none of which is detected otherwise: the
\* SSH marker of a fresh directory, the layout of a mask, the marker when the
\* sidecar has ended.
FreshSsh(fl) == IF "starts_enabled" \in fl THEN "enabled" ELSE "fresh"
Laid(fl, mask) == IF "layout_not_applied" \in fl THEN DefaultMask ELSE mask
Turned(ssh) == IF ssh = "enabled" THEN "disabled" ELSE "enabled"
PartedSsh(fl, ssh) == IF "ssh_forgotten" \in fl THEN "disabled" ELSE ssh
Parted(fl, d) == Known(d.runtime, d.sd, d.mask, d.saved, PartedSsh(fl, d.ssh))

-------------------------------------------------------------------------------
\* The session, and what is on its disk.
Seated(d) ==
  /\ d.runtime \in Booted
  /\ session.runtime = d.runtime /\ session.cfw = TRUE /\ session.sd = d.sd
  /\ session.crash = FALSE
Disk(d) ==
  /\ d.saved # NoMask => store[d.runtime].mask = d.saved
  /\ d.ssh # "any" => store[d.runtime].ssh = d.ssh

\* The player has not opened the sidecar.
Stands(d) ==
  /\ Seated(d) /\ Disk(d)
  /\ session.mask = Laid(flaws, store[d.runtime].mask)
  /\ d.mask # NoMask => session.mask = d.mask
  /\ player \in {"booting", "up", "gone"} /\ (page # "splash" => player # "booting")
  /\ hook = "idle" /\ side = NoSide /\ cfwState = NoState

Booting(d) ==
  /\ Stands(d) /\ input = <<>>
  /\ \/ page = "splash" /\ shown \in {Blank, Drawn("splash")}
     \/ page = "launcher" /\ shown = Drawn("launcher")

\* The frame taken for the launcher is the launcher, or the splash screen.
OnLauncher == page = "launcher" /\ bench.frames["launcher"] = Drawn("launcher")
OnSplash == bench.frames["launcher"] = Drawn("splash") /\ shown # Blank

Seen(d) == Booting(d) /\ (OnLauncher \/ OnSplash)
Returned(d) == Booting(d) /\ OnLauncher

\* A roundtrip to a stock page.
Captured(d) ==
  /\ Booting(d)
  /\ \/ OnLauncher /\ bench.frames["last"] = Drawn("launcher")
     \/ OnSplash /\ (page = "splash" => bench.frames["last"] = Drawn("splash"))

NotSplash == page # "splash" /\ shown # Drawn("splash")

\* The tile was the sidecar's, and the sidecar does not end.
Entered ==
  /\ page = "launcher" /\ player # "booting"
  /\ hook = "sidecar" /\ session.crash = FALSE /\ IsSide(side)
  /\ side.screen = "main" /\ side.todo # "leave"
  /\ input \in {<<>>, <<Tapped(StockBack)>>}

Sent(d, point) ==
  \/ /\ bench.frames["launcher"] = Drawn("launcher")
     /\ bench.frames["last"] = Drawn("launcher")
     /\ \/ /\ Stands(d) /\ shown = Drawn(page)
           /\ \/ page = "launcher" /\ input = <<Tapped(point)>>
              \/ page = Opens("launcher", point) /\ page # "cfw" /\ input = <<>>
        \/ /\ Entered /\ input = <<>>
           /\ shown = Drawn("launcher") \/ shown.is = "cfw"
  \/ /\ bench.frames["launcher"] = Drawn("splash")
     /\ \/ NotSplash
        \/ /\ page = "splash" /\ hook = "idle"
           /\ shown = Drawn("splash") /\ bench.frames["last"] = Drawn("splash")

Away(d, point) ==
  \/ /\ bench.frames["launcher"] = Drawn("launcher")
     /\ \/ /\ Stands(d) /\ input = <<>> /\ shown = Drawn(page)
           /\ page = Opens("launcher", point) /\ page \notin {"cfw", "launcher"}
        \/ Entered /\ input = <<>> /\ shown.is = "cfw"
  \/ bench.frames["launcher"] = Drawn("splash") /\ NotSplash

Returning(d, point) ==
  \/ /\ bench.frames["launcher"] = Drawn("launcher")
     /\ \/ /\ Stands(d) /\ shown = Drawn(page)
           /\ Opens("launcher", point) \notin {"cfw", "launcher"}
           /\ \/ page = Opens("launcher", point) /\ input = <<Tapped(StockBack)>>
              \/ page = "launcher" /\ input = <<>>
        \/ Entered /\ shown.is = "cfw"
  \/ bench.frames["launcher"] = Drawn("splash") /\ NotSplash

\* It never comes back from a tile that is the sidecar's, or dead.
NoReturn(fl, mask, point) ==
  /\ mask # NoMask
  /\ \/ TilesAt(mask, point) = {"cfw"}
     \/ TilesAt(mask, point) = {"about"} /\ "tile_dead" \in fl
     \/ TilesAt(mask, point) = {"ebook"} /\ "ebook_dead" \in fl

-------------------------------------------------------------------------------
\* The player, before the sidecar is opened or when it is left.
AtHome ==
  \/ page = "splash" /\ hook = "idle" /\ shown \in {Blank, Drawn("splash")}
  \/ page = "launcher" /\ shown = Drawn("launcher")
AtRest == hook \in {"idle", "restored"} /\ (hook = "restored" => side.route = "back")
BaseIsPlayers == bench.frames["base"].is # "cfw"

Home(d) == Seated(d) /\ Disk(d) /\ AtHome /\ AtRest /\ input = <<>>

\* Opening the sidecar.
Based(d) == Home(d) /\ BaseIsPlayers
Cleared(d) == Based(d) /\ cfwState = NoState

\* The sidecar shows screen x, and has said so.
OnScreen(x) ==
  /\ page = "launcher" /\ player # "booting" /\ hook = "sidecar" /\ side.route = "back"
  /\ side.screen = x.screen /\ side.notice = x.notice
  /\ x.shows # NoMask => side.mask = x.shows
Told ==
  /\ side.todo = "poll" /\ shown = SidecarFrame
  /\ cfwState = [screen |-> side.screen, action |-> side.action, mask |-> side.mask,
                 route |-> side.route, seq |-> side.seq]

Main(d) == Screen("main", d.saved, FALSE)

Opening(d, point) ==
  /\ Seated(d) /\ Disk(d) /\ BaseIsPlayers
  /\ \/ /\ cfwState = NoState /\ AtRest
        /\ input = <<>> \/ (input = <<Tapped(point)>> /\ AtHome)
     \/ /\ OnScreen(Main(d)) /\ input = <<>>
        /\ \/ side.todo = "render" /\ side.seq = 0 /\ cfwState = NoState
           \/ /\ side.todo = "publish" /\ side.seq = 0 /\ cfwState = NoState
              /\ shown = SidecarFrame
           \/ Told /\ side.seq = 1

Quiet(d, x) ==
  /\ Seated(d) /\ Disk(d) /\ BaseIsPlayers
  /\ OnScreen(x) /\ Told /\ side.seq = bench.seq /\ bench.seq \in Nat /\ input = <<>>

-------------------------------------------------------------------------------
\* What is touched in the sidecar, and what then is on the disk, on the screen
\* and in the record.
PageRows == {"launcher", "internal", "sd", "memory", "system", "about"}
TileRows == {"stream", "wireless", "ebook"}
TouchOn(what) ==
  CASE what = "ssh"      -> Tapped(Row(0))
    [] what = "launcher" -> Tapped(Row(3))
    [] what = "internal" -> Tapped(Row(4))
    [] what = "sd"       -> Tapped(Row(5))
    [] what = "memory"   -> Tapped(Row(6))
    [] what = "system"   -> Tapped(Row(7))
    [] what = "about"    -> Tapped(Row(8))
    [] what = "home"     -> Tapped(BackTouch)
    [] what = "stream"   -> Tapped(Row(1))
    [] what = "wireless" -> Tapped(Row(2))
    [] what = "ebook"    -> Tapped(Row(3))
    [] what = "cfw"      -> Tapped(Row(5))
    [] what = "drag"     -> [drag |-> TRUE, at |-> DragStart]

Answers(d, x, what) ==
  \/ x.screen = "main" /\ what = "ssh" /\ d.ssh # "any"
  \/ x.screen = "main" /\ what \in PageRows
  \/ x.screen \in PageRows /\ what = "home"
  \/ /\ x.screen = "launcher" /\ x.shows # NoMask /\ d.saved # NoMask
     /\ what \in TileRows \cup {"cfw", "drag"}

Takes(fl, saved, tile) ==
  ValidMask(Flip(saved, tile)) \/ ("seventh_taken" \in fl /\ Flip(saved, tile) = Tiles)
SavedAfter(fl, saved, tile) ==
  IF Takes(fl, saved, tile) \/ "seventh_saved" \in fl THEN Flip(saved, tile) ELSE saved
DiskAfter(fl, d, what) ==
  CASE what = "ssh" -> Known(d.runtime, d.sd, d.mask, d.saved, Turned(d.ssh))
    [] what \in TileRows ->
         Known(d.runtime, d.sd, d.mask, SavedAfter(fl, d.saved, what), d.ssh)
    [] OTHER -> d

ScreenAfter(fl, d, x, what) ==
  CASE what \in {"ssh", "home"} -> Screen("main", d.saved, FALSE)
    [] what \in PageRows -> Screen(what, d.saved, FALSE)
    [] what \in TileRows ->
         IF Takes(fl, d.saved, what) THEN Screen(x.screen, Flip(x.shows, what), FALSE)
         ELSE Screen(x.screen, x.shows, Cardinality(d.saved) = 6)
    [] what = "cfw" ->
         Screen(x.screen, IF "cfw_unlocked" \in fl THEN x.shows \ {"cfw"} ELSE x.shows,
                FALSE)
    [] OTHER -> x
ActionAfter(fl, d, what) ==
  CASE what = "ssh" -> "ssh_toggle"
    [] what = "home" -> "back"
    [] what \in PageRows -> "open_page"
    [] what \in TileRows ->
         IF Takes(fl, d.saved, what) THEN "launcher_toggle" ELSE "launcher_rejected"
    [] what = "cfw" -> "launcher_rejected"
    [] OTHER -> "drag_ignored"

\* The sidecar draws screen x after an action.
Answering(d, x, action) ==
  /\ Disk(d) /\ OnScreen(x) /\ side.action = action /\ input = <<>>
  /\ \/ side.todo = "render" /\ side.seq = bench.seq /\ cfwState.seq = bench.seq
     \/ /\ side.todo = "publish" /\ side.seq = bench.seq /\ cfwState.seq = bench.seq
        /\ shown = SidecarFrame
     \/ Told /\ side.seq = bench.seq + 1

Asked(d, x, what) ==
  /\ Seated(d) /\ BaseIsPlayers /\ bench.seq \in Nat /\ Answers(d, x, what)
  /\ \/ /\ Disk(d) /\ OnScreen(x) /\ Told /\ side.seq = bench.seq
        /\ input = <<TouchOn(what)>>
     \/ Answering(DiskAfter(flaws, d, what), ScreenAfter(flaws, d, x, what),
                  ActionAfter(flaws, d, what))

\* Leaving the sidecar.
Parting(d) ==
  /\ Disk(d) /\ page = "launcher" /\ input = <<>>
  /\ \/ hook = "ended" /\ side.route = "back" /\ shown.is = "cfw"
     \/ AtRest /\ (shown = Drawn("launcher") \/ shown.is = "cfw")

Leaving(d) ==
  /\ Seated(d) /\ BaseIsPlayers /\ bench.seq \in Nat
  /\ \/ /\ Disk(d) /\ OnScreen(Screen("main", NoMask, FALSE)) /\ Told
        /\ side.seq = bench.seq /\ input = <<Tapped(BackTouch)>>
     \/ /\ Disk(d) /\ page = "launcher" /\ hook = "sidecar" /\ side.route = "back"
        /\ input = <<>> /\ shown.is = "cfw" /\ cfwState.seq = bench.seq
        /\ IF "back_dead" \in flaws THEN side.todo = "poll" ELSE side.todo = "leave"
     \/ "back_dead" \notin flaws /\ Parting(Parted(flaws, d))

Left(d) == Seated(d) /\ BaseIsPlayers /\ Parting(d)

-------------------------------------------------------------------------------
\* The top of the launcher, before and after a restart.
TopAt(even) == IF "restart_moves" \in flaws /\ session.boot % 2 = even THEN "moved" ELSE "top"
Top(even) == bench.frames["top"].is = "launcher" /\ bench.frames["top"].name = TopAt(even)
Again(d) == Booting(d) /\ Top(1)
AgainSeen(d) ==
  /\ Again(d)
  /\ bench.frames["launcher"].is = "launcher" => bench.frames["launcher"].name = TopAt(0)

\* The directory of the candidate is as it was found.
Before == session.runtime # Present /\ store[Present].ssh = FreshSsh(flaws)

\* A frame the program holds.
Keeps(name, frame) == frame # Blank => bench.frames[name] = frame

InPlace(e) ==
  /\ e.at # "never"
  /\ e.at = "before" => Before
  /\ e.at = "booting" => Booting(e.d)
  /\ e.at = "seen" => Seen(e.d)
  /\ e.at = "captured" => Captured(e.d)
  /\ e.at = "sent" => Sent(e.d, e.touched)
  /\ e.at = "away" => Away(e.d, e.touched)
  /\ e.at = "returning" => Returning(e.d, e.touched)
  /\ e.at = "returned" => Returned(e.d)
  /\ e.at = "home" => Home(e.d)
  /\ e.at = "based" => Based(e.d)
  /\ e.at = "cleared" => Cleared(e.d)
  /\ e.at = "opening" => Opening(e.d, e.touched)
  /\ e.at = "quiet" => Quiet(e.d, e.x)
  /\ e.at = "asked" => Asked(e.d, e.x, e.touched)
  /\ e.at = "leaving" => Leaving(e.d)
  /\ e.at = "left" => Left(e.d)
  /\ e.at = "topped" => Top(0)
  /\ e.at = "again" => Again(e.d)
  /\ e.at = "again_seen" => AgainSeen(e.d)

Meets(e) ==
  /\ InPlace(e)
  /\ Keeps("last", e.last) /\ Keeps("present", e.present) /\ Keeps("settings", e.settings)

-------------------------------------------------------------------------------
\* What a step leads to, for candidates with flaws fl: from expectation e to f.
Looks == {"save", "record", "promote", "classify", "alive", "config", "markers", "fixture",
          "same", "differ"}

SamePlace(e, f) == f.at = e.at /\ f.d = e.d /\ f.x = e.x /\ f.touched = e.touched

InPicture(x) == x.screen = "sd" \/ (x.screen = "launcher" /\ x.shows # NoMask)
Picture(fl, d, x) ==
  IF x.screen = "sd"
  THEN Frame("cfw", "sd", {}, IF d.sd /\ "sd_not_seen" \notin fl THEN "card" ELSE "no card")
  ELSE Frame("cfw", "launcher", x.shows,
             IF x.notice /\ "notice_missing" \notin fl THEN "maximum 6" ELSE "")

LeadsBefore(fl, e, s, f) ==
  \/ /\ e.at = "before" /\ f.at = "before"
     /\ s.op = "start" => s.runtime = "stock" /\ s.cfw = FALSE
  \/ /\ s.op = "start" /\ s.cfw = TRUE /\ s.crash = FALSE
     /\ f.at = "booting"
     /\ f.d = Known(s.runtime, s.sd, NoMask,
                    NoMask,
                    IF e.at = "before" /\ s.runtime = Present THEN FreshSsh(fl) ELSE "any")
  \/ e.at = "booting" /\ s.op = "ready" /\ SamePlace(e, f)
  \/ e.at = "booting" /\ s.op = "stable" /\ s.into = "launcher" /\ f.at = "seen" /\ f.d = e.d
  \/ /\ e.at = "seen" /\ s.op = "config" /\ f.at = "seen" /\ s.mask # NoMask
     /\ f.d = Known(e.d.runtime, e.d.sd, Laid(fl, s.mask), s.mask, e.d.ssh)
  \/ /\ e.at \in {"seen", "quiet"} /\ s.op = "config"
     /\ e.d.saved # NoMask /\ s.mask # e.d.saved

LeadsTrip(fl, e, s, f) ==
  \/ /\ e.at \in {"seen", "returned"} /\ s.op = "capture" /\ s.into = "last"
     /\ f.at = "captured" /\ f.d = e.d
  \/ /\ e.at = "captured" /\ s.op = "touch" /\ f.at = "sent" /\ f.d = e.d
     /\ s.touch = Tapped(f.touched)
  \/ /\ e.at = "sent" /\ s.op = "change" /\ s.from = "last"
     /\ f.at = "away" /\ f.d = e.d /\ f.touched = e.touched
  \/ /\ e.at = "away" /\ s.op = "touch" /\ s.touch = Tapped(StockBack)
     /\ f.at = "returning" /\ f.d = e.d /\ f.touched = e.touched
  \/ /\ e.at = "returning" /\ s.op = "hash" /\ s.of = "launcher"
     /\ f.at = "returned" /\ f.d = e.d
  \/ /\ e.at = "returning" /\ s.op = "hash" /\ s.of = "launcher"
     /\ NoReturn(fl, e.d.mask, e.touched)
  \/ e.at = "returned" /\ s.op = "stable" /\ s.into = "last" /\ SamePlace(e, f)

LeadsIn(fl, e, s, f) ==
  \/ /\ e.at \in {"seen", "returned", "home"} /\ s.op = "stable" /\ s.into = "base"
     /\ f.at = "based" /\ f.d = e.d
  \/ e.at = "based" /\ s.op = "clear" /\ f.at = "cleared" /\ f.d = e.d
  \/ /\ e.at = "cleared" /\ s.op = "touch" /\ f.at = "opening" /\ f.d = e.d
     /\ s.touch = Tapped(f.touched)
  \/ /\ e.at = "opening" /\ s.op = "semantic"
     /\ f.at = "quiet" /\ f.d = e.d /\ f.x = Main(e.d)
  \/ /\ e.at = "quiet" /\ SamePlace(e, f)
     /\ s.op \in {"change", "read"} \/ (s.op \in {"capture", "keep"} /\ s.into # "base")
  \/ /\ e.at = "quiet" /\ s.op = "change" /\ s.from = "settings"
     /\ InPicture(e.x) /\ e.settings = Picture(fl, e.d, e.x)
  \/ /\ e.at = "quiet" /\ s.op = "markers"
     /\ e.d.ssh # "any" /\ e.d.ssh \notin s.ssh

Unwanted(fl, e, wanted) ==
  \/ "screen" \in DOMAIN wanted
     /\ ScreenAfter(fl, e.d, e.x, e.touched).screen \notin wanted.screen
  \/ "action" \in DOMAIN wanted
     /\ ActionAfter(fl, e.d, e.touched) \notin wanted.action
  \/ "mask" \in DOMAIN wanted
     /\ ScreenAfter(fl, e.d, e.x, e.touched).shows # NoMask
     /\ ScreenAfter(fl, e.d, e.x, e.touched).shows \notin wanted.mask

LeadsOn(fl, e, s, f) ==
  \/ /\ e.at = "quiet" /\ s.op = "touch" /\ f.at = "asked" /\ f.d = e.d /\ f.x = e.x
     /\ s.touch = TouchOn(f.touched) /\ Answers(e.d, e.x, f.touched)
  \/ /\ e.at = "asked" /\ s.op = "semantic" /\ s.newer = TRUE /\ f.at = "quiet"
     /\ f.d = DiskAfter(fl, e.d, e.touched)
     /\ f.x = ScreenAfter(fl, e.d, e.x, e.touched)
  \/ /\ e.at = "asked" /\ s.op = "semantic" /\ s.newer = TRUE
     /\ Unwanted(fl, e, s.wanted)
  \/ /\ e.at = "quiet" /\ e.x.screen = "main" /\ e.x.notice = FALSE
     /\ s.op = "touch" /\ s.touch = Tapped(BackTouch)
     /\ f.at = "leaving" /\ f.d = e.d
  \/ /\ e.at = "leaving" /\ s.op = "semantic" /\ s.newer = TRUE
     /\ f.at = "left" /\ f.d = Parted(fl, e.d)
  \/ /\ e.at = "leaving" /\ s.op = "semantic" /\ s.newer = TRUE /\ "back_dead" \in fl
  \/ e.at = "left" /\ s.op = "hash" /\ s.of = "base" /\ f.at = "home" /\ f.d = e.d

LeadsTop(fl, e, s, f) ==
  \/ e.at = "returned" /\ s.op = "keep" /\ s.of = "launcher" /\ s.into = "top" /\ f.at = "topped"
  \/ e.at = "topped" /\ s.op = "stop" /\ f.at = "topped"
  \/ /\ e.at = "topped" /\ s.op = "start" /\ s.cfw = TRUE /\ s.crash = FALSE
     /\ f.at = "again" /\ f.d = Known(s.runtime, s.sd, NoMask, NoMask, "any")
  \/ e.at = "again" /\ s.op = "ready" /\ SamePlace(e, f)
  \/ e.at = "again" /\ s.op = "stable" /\ s.into = "launcher" /\ f.at = "again_seen" /\ f.d = e.d
  \/ /\ e.at = "again_seen" /\ s.op = "same" /\ s.a = "launcher" /\ s.b = "top"
     /\ "restart_moves" \in fl

\* The frames.
Writes(s, name) ==
  \/ s.op \in {"stable", "capture", "keep"} /\ s.into = name
  \/ s.op \in {"change", "hash"} /\ name = "last"
  \/ s.op = "stop" /\ name # "present"
LeadsFrame(fl, e, s, name, frame, next) ==
  \/ next = Blank
  \/ next = frame /\ ~Writes(s, name)
  \/ /\ e.at = "quiet" /\ s.op = "capture" /\ s.into = name
     /\ InPicture(e.x) /\ next = Picture(fl, e.d, e.x)
  \/ s.op = "keep" /\ s.into = name /\ s.of = "last" /\ next = e.last

Leads(fl, e, s, f) ==
  \/ e.at = "never"
  \/ s.op = "differ" /\ s.a = "last" /\ s.b = "present" /\ e.last # Blank /\ e.last = e.present
  \/ /\ \/ f.at = "loose"
        \/ s.op \in Looks /\ e.at \notin {"before"} /\ SamePlace(e, f)
        \/ LeadsBefore(fl, e, s, f) \/ LeadsTrip(fl, e, s, f) \/ LeadsIn(fl, e, s, f)
        \/ LeadsOn(fl, e, s, f) \/ LeadsTop(fl, e, s, f)
     /\ LeadsFrame(fl, e, s, "last", e.last, f.last)
     /\ LeadsFrame(fl, e, s, "present", e.present, f.present)
     /\ LeadsFrame(fl, e, s, "settings", e.settings, f.settings)

-------------------------------------------------------------------------------
(***************************************************************************)
(* What the guest makes of an expectation.                                 *)
(***************************************************************************)
Rest == flaws \cap Detected = {}

\* The frames of the player.
LEMMA PlayersFrames ==
  /\ Drawn("splash") # Blank /\ Drawn("launcher") # Blank
  /\ Drawn("launcher").is = "launcher" /\ Blank.is = "blank"
  /\ \A p : /\ Drawn(p).is # "cfw"
            /\ p # "splash" => Drawn(p) # Drawn("splash")
            /\ p # "launcher" => Drawn(p) # Drawn("launcher") /\ Drawn(p).is = "page"
<1>1. Drawn("launcher").is = "launcher" /\ Blank.is = "blank"
  BY DEF Drawn, Frame, Blank
<1>2. \A p : p # "launcher" => Drawn(p).is = "page" /\ Drawn(p).name = p
  BY DEF Drawn, Frame
<1>3. \A p : Drawn(p).is # "cfw"
  BY <1>1, <1>2
<1>4. Drawn("splash").is = "page" /\ Drawn("splash").name = "splash"
  BY <1>2
<1>5. \A p : p # "splash" => Drawn(p) # Drawn("splash")
  <2> TAKE p
  <2>1. CASE p = "launcher"
    BY <1>1, <1>4, <2>1
  <2>2. CASE p # "launcher"
    BY <1>2, <1>4, <2>2
  <2> QED
    BY <2>1, <2>2
<1>6. \A p : p # "launcher" => Drawn(p) # Drawn("launcher")
  BY <1>1, <1>2
<1> QED
  BY <1>1, <1>2, <1>3, <1>4, <1>5, <1>6

\* The frames of the player do not change in a session.
LEMMA SameFrames ==
  ASSUME UNCHANGED <<flaws, session>>
  PROVE  \A p : Drawn(p)' = Drawn(p)
BY DEF Drawn

\* Where a touch leads to.
LEMMA OpensPages ==
  ASSUME NEW point
  PROVE  /\ \A p : p # "splash" => Opens(p, point) # "splash"
         /\ Opens("launcher", point) \in Tiles \cup {"launcher"}
<1>1. \A mask : TilesAt(mask, point) \subseteq Tiles
  BY DEF TilesAt, Tiles, SelectedTiles
<1>2. Opens("launcher", point) \in Tiles \cup {"launcher"}
  BY <1>1 DEF Opens
<1>3. "splash" \notin Tiles
  BY Masks
<1>4. ASSUME NEW p, p # "launcher", p # "splash"
      PROVE  Opens(p, point) # "splash"
  <2>1. \A link \in Links : link[1] # "splash" /\ link[3] # "splash"
    BY DEF Links
  <2>2. Parent(p) # "splash"
    BY <2>1 DEF Parent
  <2> QED
    BY <1>4, <2>1, <2>2 DEF Opens
<1> QED
  BY <1>2, <1>3, <1>4

\* On the page of every tile the upper left corner leads back to the launcher.
LEMMA BackOpens ==
  ASSUME NEW p \in Tiles
  PROVE  Opens(p, StockBack) = "launcher"
<1>1. p \in {"music", "stream", "wireless", "ebook", "system", "cfw", "about"}
  BY Masks
<1>2. \A link \in Links : link[3] # p
  BY <1>1 DEF Links
<1>3. BackOf(p) = StockBack
  BY <1>1 DEF BackOf, StockBack
<1> QED
  BY <1>1, <1>2, <1>3 DEF Opens, Parent

\* The guest's own steps leave the flaws alone.
LEMMA GuestFlaws == GuestNext => UNCHANGED flaws
BY DEF GuestNext, GuestStep, PlayerExits, Splash, Ready, DrawLauncher,
   PlayerTakesTouch, TouchIsLost, SidecarDraws, SidecarPublishes, SidecarTakesTouch,
   SidecarEnds, SidecarAborts, RestoreFrame, ReleaseTouch, StockRoute

-------------------------------------------------------------------------------
\* Before a touch.
LEMMA BootingGuest ==
  ASSUME NEW d, Booting(d), GuestMoves
  PROVE  /\ Booting(d)' /\ UNCHANGED <<bench, flaws, session, store>>
         /\ page = "launcher" => page' = "launcher" /\ shown' = shown
         /\ shown # Blank => shown' # Blank
         /\ page' = "splash" => page = "splash"
         /\ page' = "splash" /\ shown # Blank => shown' = shown
<1>1. Untouched(d.runtime)
  BY DEF Booting, Stands, Seated, Untouched
<1>2. Untouched(d.runtime)' /\ UNCHANGED <<store, session, bench>>
  BY <1>1, UntouchedGuest DEF GuestMoves
<1>3. UNCHANGED flaws
  BY GuestFlaws DEF GuestMoves
<1>4. Splash \/ Ready \/ DrawLauncher \/ PlayerExits
  BY DEF GuestMoves, GuestNext, GuestStep, PlayerTakesTouch, TouchIsLost, SidecarDraws,
     SidecarPublishes, SidecarTakesTouch, SidecarEnds, SidecarAborts, RestoreFrame,
     ReleaseTouch, StockRoute, Booting, Stands
<1>5. page # "splash" => player # "booting"
  BY DEF Booting, Stands
<1>6. page' # "splash" => player' # "booting"
  BY <1>4, <1>5 DEF Splash, Ready, DrawLauncher, PlayerExits
<1>7. Stands(d)'
  BY <1>2, <1>3, <1>6 DEF Booting, Stands, Seated, Disk, Untouched
<1>8. Booting(d)'
  BY <1>2, <1>7 DEF Booting, Untouched
<1> QED
  BY <1>2, <1>3, <1>4, <1>8, PlayersFrames DEF Splash, Ready, DrawLauncher, PlayerExits, Booting

\* The guest's own steps keep what is known of a guest that nobody touches.
LEMMA BootedGuest ==
  ASSUME NEW d, GuestMoves
  PROVE  /\ Seen(d) => Seen(d)'
         /\ Returned(d) => Returned(d)'
         /\ Captured(d) => Captured(d)'
         /\ Again(d) => Again(d)'
         /\ AgainSeen(d) => AgainSeen(d)'
<1>1. ASSUME Booting(d)
      PROVE  /\ Booting(d)' /\ UNCHANGED <<bench, flaws, session>>
             /\ OnLauncher => OnLauncher' /\ shown' = shown
             /\ OnSplash => OnSplash'
             /\ page' = "splash" => page = "splash"
             /\ Drawn("launcher")' = Drawn("launcher") /\ Drawn("splash")' = Drawn("splash")
  BY <1>1, BootingGuest, SameFrames DEF OnLauncher, OnSplash
<1>2. Seen(d) => Seen(d)'
  BY <1>1 DEF Seen
<1>3. Returned(d) => Returned(d)'
  BY <1>1 DEF Returned
<1>4. Captured(d) => Captured(d)'
  BY <1>1 DEF Captured
<1>5. Again(d) => Again(d)'
  BY <1>1 DEF Again, Top, TopAt
<1>6. AgainSeen(d) => AgainSeen(d)'
  BY <1>1, <1>5 DEF AgainSeen, Again, TopAt
<1> QED
  BY <1>2, <1>3, <1>4, <1>5, <1>6

-------------------------------------------------------------------------------
\* The roundtrip to a stock page.
LEMMA NotSplashGuest ==
  ASSUME NotSplash, GuestMoves
  PROVE  NotSplash'
<1>1. UNCHANGED flaws /\ UNCHANGED session /\ GuestNext
  BY GuestFlaws, GuestSession DEF GuestMoves
<1>2. Drawn("splash")' = Drawn("splash")
  BY <1>1, SameFrames
<1>3. CASE PlayerTakesTouch
  BY <1>2, <1>3, OpensPages, PlayersFrames, <1>1, SameFrames DEF NotSplash, PlayerTakesTouch, Shows
<1>4. CASE SidecarDraws
  <2>1. shown'.is = "cfw"
    BY <1>4 DEF SidecarDraws, SidecarFrame, Frame
  <2> QED
    BY <1>2, <1>4, <2>1, PlayersFrames DEF NotSplash, SidecarDraws
<1>5. CASE RestoreFrame
  BY <1>2, <1>5, PlayersFrames DEF NotSplash, RestoreFrame
<1>6. CASE StockRoute
  BY <1>2, <1>6, PlayersFrames DEF NotSplash, StockRoute, Shows
<1>7. CASE UNCHANGED <<page, shown>>
  BY <1>2, <1>7 DEF NotSplash
<1> QED
  BY <1>1, <1>3, <1>4, <1>5, <1>6, <1>7 DEF GuestNext, GuestStep, PlayerExits, Splash, Ready,
     DrawLauncher, TouchIsLost, SidecarPublishes, SidecarTakesTouch, SidecarEnds,
     SidecarAborts, ReleaseTouch, NotSplash

\* The tile was the sidecar's.
LEMMA EnteredGuest ==
  ASSUME Entered, GuestMoves
  PROVE  /\ Entered' /\ (shown' = shown \/ shown'.is = "cfw")
         /\ input = <<>> => input' = <<>>
<1>1. CASE Ready \/ PlayerExits
  BY <1>1 DEF Ready, PlayerExits, Entered
<1>2. CASE SidecarDraws
  <2>1. shown'.is = "cfw" /\ UNCHANGED <<page, player, session, hook, input>>
    BY <1>2 DEF SidecarDraws, SidecarFrame, Frame
  <2>2. side'.screen = "main" /\ side'.todo = "publish" /\ IsSide(side')
    BY <1>2 DEF SidecarDraws, Entered, IsSide, SideFields
  <2> QED
    BY <2>1, <2>2 DEF Entered
<1>3. CASE SidecarPublishes
  <2>1. UNCHANGED <<page, player, session, hook, input, shown>>
    BY <1>3 DEF SidecarPublishes
  <2>2. side'.screen = "main" /\ side'.todo = "poll" /\ IsSide(side')
    BY <1>3 DEF SidecarPublishes, Entered, IsSide, SideFields
  <2> QED
    BY <2>1, <2>2 DEF Entered
<1>4. CASE SidecarTakesTouch
  <2>1. /\ input = <<Tapped(StockBack)>> /\ Touch = Tapped(StockBack) /\ input' = <<>>
        /\ UNCHANGED <<page, player, session, hook, shown>>
    <3>1. Tail(<<Tapped(StockBack)>>) = <<>> /\ Head(<<Tapped(StockBack)>>) = Tapped(StockBack)
      OBVIOUS
    <3>2. input = <<Tapped(StockBack)>>
      BY <1>4 DEF SidecarTakesTouch, Entered
    <3> QED
      BY <1>4, <3>1, <3>2 DEF SidecarTakesTouch, Touch
  <2>2. Touch.drag = FALSE /\ Touch.at = <<45, 92>>
    BY <2>1 DEF Tapped, StockBack
  <2>3. RowAt(<<45, 92>>) = 0 /\ ~(92 < HeaderHeight)
    BY DEF RowAt, HeaderHeight, RowHeight
  <2>4. side' = GoToPage("main", "ssh_toggle")
    BY <1>4, <2>2, <2>3 DEF SidecarTakesTouch, MainTap, Entered
  <2>5. side'.screen = "main" /\ side'.todo = "render" /\ IsSide(side')
    <3>1. ASSUME NEW m
          PROVE  /\ Draw([side EXCEPT !.screen = "main", !.notice = FALSE, !.mask = m],
                          "ssh_toggle").screen = "main"
                 /\ Draw([side EXCEPT !.screen = "main", !.notice = FALSE, !.mask = m],
                          "ssh_toggle").todo = "render"
                 /\ IsSide(Draw([side EXCEPT !.screen = "main", !.notice = FALSE, !.mask = m],
                                "ssh_toggle"))
      BY DEF Draw, Entered, IsSide, SideFields
    <3> QED
      BY <2>4, <3>1 DEF GoToPage
  <2> QED
    BY <2>1, <2>5 DEF Entered
<1>5. ~(Splash \/ DrawLauncher \/ PlayerTakesTouch \/ TouchIsLost \/ SidecarEnds
        \/ SidecarAborts \/ RestoreFrame \/ ReleaseTouch \/ StockRoute)
  BY DEF Splash, DrawLauncher, PlayerTakesTouch, TouchIsLost, SidecarEnds, SidecarAborts,
     RestoreFrame, ReleaseTouch, StockRoute, Entered
<1> QED
  BY <1>1, <1>2, <1>3, <1>4, <1>5 DEF GuestMoves, GuestNext, GuestStep

\* What PlayerTakesTouch makes of the touch on a tile.
LEMMA TileTouched ==
  ASSUME GuestType, NEW d, NEW point, Stands(d), page = "launcher", input = <<Tapped(point)>>,
         shown = Drawn("launcher"), PlayerTakesTouch
  PROVE  /\ UNCHANGED <<bench, session, flaws>> => Drawn("launcher")' = Drawn("launcher")
         /\ input' = <<>> /\ player = "up"
         /\ \/ /\ page' = Opens("launcher", point) /\ page' # "cfw" /\ shown' = Drawn(page')
               /\ Stands(d)'
            \/ /\ Opens("launcher", point) = "cfw"
               /\ page' = "launcher" /\ hook' = "sidecar" /\ shown' = shown /\ cfwState' = NoState
               /\ side' = [NoSide EXCEPT !.screen = "main", !.todo = "render",
                                         !.mask = store[session.runtime].mask]
               /\ UNCHANGED <<store, session, player>>
<1>1. input' = <<>> /\ Touch.at = point
  <2>1. Tail(<<Tapped(point)>>) = <<>> /\ Head(<<Tapped(point)>>) = Tapped(point)
    OBVIOUS
  <2> QED
    BY <2>1 DEF PlayerTakesTouch, Touch, Tapped
<1>2. UNCHANGED <<store, session, player, cfwState, flaws>> /\ player = "up"
  BY DEF PlayerTakesTouch
<1>3. \A p : Drawn(p)' = Drawn(p)
  BY <1>2, SameFrames
<1>4. CASE Opens("launcher", point) = "cfw"
  BY <1>1, <1>2, <1>3, <1>4 DEF PlayerTakesTouch, Stands
<1>5. CASE Opens("launcher", point) # "cfw"
  <2>1. page' = Opens("launcher", point) /\ shown' = Drawn(page') /\ UNCHANGED <<hook, side>>
    BY <1>1, <1>5 DEF PlayerTakesTouch, Shows
  <2>2. Stands(d)'
    BY <1>2, <2>1 DEF Stands, Seated, Disk
  <2> QED
    BY <1>1, <1>2, <1>3, <1>5, <2>1, <2>2
<1> QED
  BY <1>4, <1>5

\* On the way to the page and back.
LEMMA StandsGuest ==
  ASSUME NEW d, Stands(d), page # "splash", input = <<>>, GuestMoves
  PROVE  Stands(d)' /\ UNCHANGED <<page, shown, input, session>>
<1>1. Ready \/ PlayerExits
  BY DEF GuestMoves, GuestNext, GuestStep, Splash, DrawLauncher, PlayerTakesTouch, TouchIsLost,
     SidecarDraws, SidecarPublishes, SidecarTakesTouch, SidecarEnds, SidecarAborts, RestoreFrame,
     ReleaseTouch, StockRoute, Stands
<1> QED
  BY <1>1 DEF Ready, PlayerExits, Stands, Seated, Disk

\* A guest with a touch to take stands still or takes it.
LEMMA TouchedGuest ==
  ASSUME NEW d, Stands(d), page # "splash", input # <<>>, GuestMoves
  PROVE  \/ Stands(d)' /\ UNCHANGED <<page, shown, input, session>>
         \/ PlayerTakesTouch
<1>1. Ready \/ PlayerExits \/ PlayerTakesTouch
  BY DEF GuestMoves, GuestNext, GuestStep, Splash, DrawLauncher, PlayerTakesTouch, TouchIsLost,
     SidecarDraws, SidecarPublishes, SidecarTakesTouch, SidecarEnds, SidecarAborts, RestoreFrame,
     ReleaseTouch, StockRoute, Stands
<1>2. Ready \/ PlayerExits => Stands(d)' /\ UNCHANGED <<page, shown, input, session>>
  BY DEF Ready, PlayerExits, Stands, Seated, Disk
<1> QED
  BY <1>1, <1>2

\* The guest's own steps keep the stages of a trip to a tile: sent,
LEMMA SentGuest ==
  ASSUME GuestType, NEW d, NEW point, Sent(d, point), GuestMoves
  PROVE  Sent(d, point)'
<1>1. UNCHANGED <<flaws, bench, session>> /\ \A p : Drawn(p)' = Drawn(p)
  BY GuestFlaws, GuestSession, SameFrames DEF GuestMoves
<1>2. Opens("launcher", point)' = Opens("launcher", point)
  BY <1>1 DEF Opens
<1> DEFINE InBoth == /\ bench.frames["launcher"] = Drawn("launcher")
                   /\ bench.frames["last"] = Drawn("launcher")
<1>3. InBoth => InBoth'
  BY <1>1
<1>4. CASE /\ InBoth /\ Stands(d) /\ shown = Drawn(page)
           /\ page = "launcher" /\ input = <<Tapped(point)>>
  <2>1. page # "splash" /\ input # <<>>
    BY <1>4
  <2>2. CASE Stands(d)' /\ UNCHANGED <<page, shown, input, session>>
    BY <1>1, <1>3, <1>4, <2>2 DEF Sent
  <2>3. CASE PlayerTakesTouch
    <3>1. input' = <<>> /\ player = "up"
      BY <1>4, <2>3, TileTouched
    <3>2. CASE /\ page' = Opens("launcher", point) /\ page' # "cfw" /\ shown' = Drawn(page')
               /\ Stands(d)'
      BY <1>1, <1>2, <1>3, <1>4, <3>1, <3>2 DEF Sent
    <3>3. CASE /\ page' = "launcher" /\ hook' = "sidecar" /\ shown' = shown
               /\ side' = [NoSide EXCEPT !.screen = "main", !.todo = "render",
                                         !.mask = store[session.runtime].mask]
               /\ UNCHANGED <<store, session, player>>
      <4>1. side'.screen = "main" /\ side'.todo = "render" /\ IsSide(side')
        BY <3>3 DEF NoSide, IsSide, SideFields
      <4>2. Entered' /\ input' = <<>>
        BY <1>4, <3>1, <3>3, <4>1 DEF Entered, Stands, Seated
      <4> QED
        BY <1>1, <1>3, <1>4, <3>3, <4>2 DEF Sent
    <3> QED
      BY <1>4, <2>3, <3>2, <3>3, TileTouched
  <2> QED
    BY <1>4, <2>1, <2>2, <2>3, TouchedGuest
<1>5. CASE /\ InBoth /\ Stands(d) /\ shown = Drawn(page)
           /\ page = Opens("launcher", point) /\ page # "cfw" /\ input = <<>>
  <2>1. page # "splash"
    BY <1>5, OpensPages
  <2>2. Stands(d)' /\ UNCHANGED <<page, shown, input, session>>
    BY <1>5, <2>1, StandsGuest
  <2> QED
    BY <1>1, <1>2, <1>3, <1>5, <2>2 DEF Sent
<1>6. CASE InBoth /\ Entered /\ input = <<>> /\ (shown = Drawn("launcher") \/ shown.is = "cfw")
  BY <1>1, <1>3, <1>6, EnteredGuest DEF Sent
<1>7. CASE bench.frames["launcher"] = Drawn("splash") /\ NotSplash
  BY <1>1, <1>7, NotSplashGuest DEF Sent
<1>8. CASE /\ bench.frames["launcher"] = Drawn("splash")
           /\ page = "splash" /\ hook = "idle"
           /\ shown = Drawn("splash") /\ bench.frames["last"] = Drawn("splash")
  <2>1. CASE DrawLauncher
    <3>1. page' = "launcher" /\ shown' = Drawn("launcher")
      BY <2>1 DEF DrawLauncher
    <3>2. NotSplash'
      BY <1>1, <3>1, PlayersFrames DEF NotSplash
    <3> QED
      BY <1>1, <1>8, <3>2 DEF Sent
  <2>2. CASE UNCHANGED <<page, shown, hook>>
    BY <1>1, <1>8, <2>2 DEF Sent
  <2>3. DrawLauncher \/ UNCHANGED <<page, shown, hook>>
    BY <1>8, PlayersFrames DEF GuestMoves, GuestNext, GuestStep, PlayerExits, Splash, Ready,
     DrawLauncher, PlayerTakesTouch, TouchIsLost, SidecarDraws, SidecarPublishes,
     SidecarTakesTouch, SidecarEnds, SidecarAborts, RestoreFrame, ReleaseTouch, StockRoute
  <2> QED
    BY <2>1, <2>2, <2>3
<1> QED
  BY <1>4, <1>5, <1>6, <1>7, <1>8 DEF Sent

\* away,
LEMMA AwayGuest ==
  ASSUME NEW d, NEW point, Away(d, point), GuestMoves
  PROVE  Away(d, point)'
<1>1. UNCHANGED <<flaws, bench, session>> /\ \A p : Drawn(p)' = Drawn(p)
  BY GuestFlaws, GuestSession, SameFrames DEF GuestMoves
<1>2. Opens("launcher", point)' = Opens("launcher", point)
  BY <1>1 DEF Opens
<1>3. CASE /\ bench.frames["launcher"] = Drawn("launcher")
           /\ Stands(d) /\ input = <<>> /\ shown = Drawn(page)
           /\ page = Opens("launcher", point) /\ page \notin {"cfw", "launcher"}
  <2>1. page # "splash"
    BY <1>3, OpensPages
  <2>2. Stands(d)' /\ UNCHANGED <<page, shown, input, session>>
    BY <1>3, <2>1, StandsGuest
  <2> QED
    BY <1>1, <1>2, <1>3, <2>2 DEF Away
<1>4. CASE /\ bench.frames["launcher"] = Drawn("launcher") /\ Entered /\ input = <<>>
           /\ shown.is = "cfw"
  BY <1>1, <1>4, EnteredGuest DEF Away
<1>5. CASE bench.frames["launcher"] = Drawn("splash") /\ NotSplash
  BY <1>1, <1>5, NotSplashGuest DEF Away
<1> QED
  BY <1>3, <1>4, <1>5 DEF Away

\* and on the way back.
LEMMA ReturningGuest ==
  ASSUME NEW d, NEW point, Returning(d, point), GuestMoves
  PROVE  Returning(d, point)'
<1>1. UNCHANGED <<flaws, bench, session>> /\ \A p : Drawn(p)' = Drawn(p)
  BY GuestFlaws, GuestSession, SameFrames DEF GuestMoves
<1>2. Opens("launcher", point)' = Opens("launcher", point)
  BY <1>1 DEF Opens
<1>3. CASE /\ bench.frames["launcher"] = Drawn("launcher")
           /\ Stands(d) /\ shown = Drawn(page)
           /\ Opens("launcher", point) \notin {"cfw", "launcher"}
           /\ page = Opens("launcher", point) /\ input = <<Tapped(StockBack)>>
  <2>1. page # "splash" /\ input # <<>> /\ page \in Tiles
    BY <1>3, OpensPages
  <2>2. CASE Stands(d)' /\ UNCHANGED <<page, shown, input, session>>
    BY <1>1, <1>2, <1>3, <2>2 DEF Returning
  <2>3. CASE PlayerTakesTouch
    <3>1. input' = <<>> /\ Touch.at = StockBack
      <4>1. Tail(<<Tapped(StockBack)>>) = <<>> /\ Head(<<Tapped(StockBack)>>) = Tapped(StockBack)
        OBVIOUS
      <4> QED
        BY <1>3, <2>3, <4>1 DEF PlayerTakesTouch, Touch, Tapped
    <3>2. Opens(page, Touch.at) = "launcher"
      BY <2>1, <3>1, BackOpens
    <3>3. /\ page' = "launcher" /\ shown' = Drawn("launcher")
          /\ UNCHANGED <<store, session, player, hook, side, cfwState>>
      BY <2>3, <3>2 DEF PlayerTakesTouch, Shows
    <3>4. Stands(d)'
      BY <1>1, <1>3, <2>1, <3>3 DEF Stands, Seated, Disk
    <3> QED
      BY <1>1, <1>2, <1>3, <3>1, <3>3, <3>4 DEF Returning
  <2> QED
    BY <1>3, <2>1, <2>2, <2>3, TouchedGuest
<1>4. CASE /\ bench.frames["launcher"] = Drawn("launcher")
           /\ Stands(d) /\ shown = Drawn(page)
           /\ Opens("launcher", point) \notin {"cfw", "launcher"}
           /\ page = "launcher" /\ input = <<>>
  <2>1. Stands(d)' /\ UNCHANGED <<page, shown, input, session>>
    BY <1>4, StandsGuest
  <2> QED
    BY <1>1, <1>2, <1>4, <2>1 DEF Returning
<1>5. CASE bench.frames["launcher"] = Drawn("launcher") /\ Entered /\ shown.is = "cfw"
  BY <1>1, <1>5, EnteredGuest DEF Returning
<1>6. CASE bench.frames["launcher"] = Drawn("splash") /\ NotSplash
  BY <1>1, <1>6, NotSplashGuest DEF Returning
<1> QED
  BY <1>3, <1>4, <1>5, <1>6 DEF Returning

-------------------------------------------------------------------------------
\* Around the sidecar.
LEMMA RestMeans ==
  ASSUME Rest
  PROVE  /\ "mask_not_saved" \notin flaws /\ "page_dead" \notin flaws /\ "drag_taps" \notin flaws
         /\ "mask_forgotten" \notin flaws /\ "ssh_no_marker" \notin flaws
         /\ "frame_kept" \notin flaws
BY DEF Rest, Detected

\* What is known of the session lasts as long as the session.
LEMMA SeatedStays ==
  ASSUME NEW d, Seated(d), UNCHANGED session
  PROVE  Seated(d)'
BY DEF Seated

\* What is known of the disk lasts as long as nothing is written.
LEMMA DiskStays ==
  ASSUME NEW d, Disk(d), UNCHANGED store
  PROVE  Disk(d)'
BY DEF Disk

\* A guest that is back home and is not touched stays there.
LEMMA HomeGuest ==
  ASSUME NEW d, Home(d), GuestMoves
  PROVE  Home(d)' /\ UNCHANGED <<bench, cfwState>>
<1>1. UNCHANGED <<flaws, bench, session>> /\ \A p : Drawn(p)' = Drawn(p)
  BY GuestFlaws, GuestSession, SameFrames DEF GuestMoves
<1>2. Splash \/ Ready \/ DrawLauncher \/ PlayerExits \/ ReleaseTouch
  BY DEF GuestMoves, GuestNext, GuestStep, PlayerTakesTouch, TouchIsLost, SidecarDraws,
     SidecarPublishes, SidecarTakesTouch, SidecarEnds, SidecarAborts, RestoreFrame,
     ReleaseTouch, StockRoute, Home, AtRest
<1>3. UNCHANGED <<store, cfwState>>
  BY <1>2 DEF Splash, Ready, DrawLauncher, PlayerExits, ReleaseTouch
<1>4. Seated(d)' /\ Disk(d)'
  BY <1>1, <1>3, SeatedStays, DiskStays DEF Home
<1>5. CASE Splash \/ Ready \/ DrawLauncher \/ PlayerExits
  BY <1>1, <1>3, <1>4, <1>5 DEF Splash, Ready, DrawLauncher, PlayerExits, Home, AtHome, AtRest
<1>6. CASE ReleaseTouch
  <2>1. hook' = "idle" /\ input' = <<>> /\ UNCHANGED <<page, shown>>
    BY <1>6 DEF ReleaseTouch, Home, AtRest
  <2> QED
    BY <1>1, <1>3, <1>4, <1>6, <2>1 DEF Home, AtHome, AtRest, ReleaseTouch
<1> QED
  BY <1>1, <1>2, <1>3, <1>5, <1>6

\* While the sidecar runs.
OnlyPlayer == /\ UNCHANGED <<store, session, page, shown, hook, side, input, cfwState, flaws, bench>>
              /\ player' # "booting"

\* While the sidecar is open, it or the player makes the next step.
LEMMA SidecarMoves ==
  ASSUME hook = "sidecar", page = "launcher", player # "booting", session.crash = FALSE, GuestMoves
  PROVE  /\ \/ OnlyPlayer
            \/ SidecarDraws /\ side.todo = "render"
            \/ SidecarPublishes /\ side.todo = "publish"
            \/ SidecarTakesTouch /\ side.todo = "poll" /\ input # <<>>
            \/ SidecarEnds /\ side.todo = "leave"
         /\ UNCHANGED <<session, flaws, bench>>
<1>1. \/ Ready \/ PlayerExits \/ SidecarDraws \/ SidecarPublishes \/ SidecarTakesTouch
      \/ SidecarEnds
  BY DEF GuestMoves, GuestNext, GuestStep, Splash, DrawLauncher, PlayerTakesTouch, TouchIsLost,
     SidecarAborts, RestoreFrame, ReleaseTouch, StockRoute
<1>2. UNCHANGED <<session, flaws, bench>>
  BY GuestFlaws, GuestSession DEF GuestMoves
<1>3. Ready \/ PlayerExits => OnlyPlayer
  BY <1>2 DEF Ready, PlayerExits, OnlyPlayer
<1> QED
  BY <1>1, <1>2, <1>3 DEF SidecarDraws, SidecarPublishes, SidecarTakesTouch, SidecarEnds

\* What the sidecar would draw depends on its screen, mask and notice.
LEMMA SidecarFrameStays ==
  ASSUME UNCHANGED <<store, session, flaws>>, side'.screen = side.screen,
         side'.mask = side.mask, side'.notice = side.notice
  PROVE  SidecarFrame' = SidecarFrame
BY DEF SidecarFrame, Conf

\* Drawing shows the sidecar's screen,
LEMMA DrawsGuest ==
  ASSUME GuestType, NEW x, OnScreen(x), SidecarDraws
  PROVE  /\ OnScreen(x)' /\ side'.todo = "publish" /\ shown' = SidecarFrame'
         /\ side'.seq = side.seq /\ side'.action = side.action
         /\ UNCHANGED <<store, session, player, page, hook, input, cfwState, flaws>>
<1>1. UNCHANGED <<store, session, player, page, hook, input, cfwState, flaws>> /\ shown' = SidecarFrame
  BY DEF SidecarDraws
<1>2. /\ side'.screen = side.screen /\ side'.mask = side.mask /\ side'.notice = side.notice
      /\ side'.seq = side.seq /\ side'.action = side.action /\ side'.route = side.route
      /\ side'.todo = "publish"
  BY DEF SidecarDraws, GuestType, IsSide, SideFields
<1>3. SidecarFrame' = SidecarFrame
  BY <1>1, <1>2, SidecarFrameStays
<1> QED
  BY <1>1, <1>2, <1>3 DEF OnScreen

\* and publishing tells of it.
LEMMA PublishesGuest ==
  ASSUME GuestType, NEW x, OnScreen(x), SidecarPublishes, shown = SidecarFrame, side.seq \in Nat
  PROVE  /\ OnScreen(x)' /\ Told' /\ side'.seq = side.seq + 1 /\ side'.action = side.action
         /\ UNCHANGED <<store, session, player, page, shown, hook, input, flaws>>
<1>1. UNCHANGED <<store, session, player, page, shown, hook, input, flaws>> /\ cfwState' = Published
  BY DEF SidecarPublishes
<1>2. /\ side'.screen = side.screen /\ side'.mask = side.mask /\ side'.notice = side.notice
      /\ side'.seq = side.seq + 1 /\ side'.action = side.action /\ side'.route = side.route
      /\ side'.todo = "poll"
  BY DEF SidecarPublishes, GuestType, IsSide, SideFields
<1>3. SidecarFrame' = SidecarFrame
  BY <1>1, <1>2, SidecarFrameStays
<1> QED
  BY <1>1, <1>2, <1>3 DEF OnScreen, Told, Published

\* A guest whose frame is held as the base stays as it is.
LEMMA BasedGuest ==
  ASSUME NEW d, GuestMoves
  PROVE  /\ Based(d) => Based(d)'
         /\ Cleared(d) => Cleared(d)'
<1>1. Home(d) => Home(d)' /\ UNCHANGED <<bench, cfwState>>
  BY HomeGuest
<1> QED
  BY <1>1 DEF Based, Cleared, BaseIsPlayers

\* Opening the sidecar.
LEMMA ClosedGuest ==
  ASSUME AtRest, cfwState = NoState, NEW point,
         input = <<>> \/ (input = <<Tapped(point)>> /\ AtHome), GuestMoves
  PROVE  /\ UNCHANGED store
         /\ \/ /\ AtRest' /\ cfwState' = NoState
               /\ input' = <<>> \/ (input' = <<Tapped(point)>> /\ AtHome')
            \/ /\ input' = <<>> /\ page' = "launcher" /\ hook' = "sidecar" /\ player' = "up"
               /\ cfwState' = NoState
               /\ side' = [NoSide EXCEPT !.screen = "main", !.todo = "render",
                                         !.mask = store[session.runtime].mask]
<1>1. UNCHANGED <<flaws, bench, session>> /\ \A p : Drawn(p)' = Drawn(p)
  BY GuestFlaws, GuestSession, SameFrames DEF GuestMoves
<1>2. CASE Splash \/ Ready \/ DrawLauncher \/ PlayerExits
  BY <1>1, <1>2 DEF Splash, Ready, DrawLauncher, PlayerExits, AtHome, AtRest
<1>3. CASE ReleaseTouch
  BY <1>3 DEF ReleaseTouch, AtRest
<1>4. input # <<>> => Tail(input) = <<>> /\ input = <<Tapped(point)>> /\ AtHome
  <2>1. Tail(<<Tapped(point)>>) = <<>>
    OBVIOUS
  <2> QED
    BY <2>1
<1>5. CASE TouchIsLost
  BY <1>4, <1>5 DEF TouchIsLost, AtRest
<1>6. CASE PlayerTakesTouch
  <2>1. input' = <<>> /\ UNCHANGED <<store, player, cfwState>> /\ player = "up" /\ page = "launcher"
        /\ hook = "idle"
    BY <1>4, <1>6 DEF PlayerTakesTouch, AtHome
  <2>2. CASE hook' = hook
    BY <1>6, <2>1, <2>2 DEF AtRest
  <2>3. CASE hook' # hook
    BY <1>6, <2>1, <2>3 DEF PlayerTakesTouch
  <2> QED
    BY <2>2, <2>3
<1>7. ~(SidecarDraws \/ SidecarPublishes \/ SidecarTakesTouch \/ SidecarEnds \/ SidecarAborts
        \/ RestoreFrame \/ StockRoute)
  BY DEF SidecarDraws, SidecarPublishes, SidecarTakesTouch, SidecarEnds, SidecarAborts,
     RestoreFrame, StockRoute, AtRest
<1> QED
  BY <1>2, <1>3, <1>5, <1>6, <1>7 DEF GuestMoves, GuestNext, GuestStep

\* The guest's own steps keep the stages of an opening,
LEMMA OpensGuest ==
  ASSUME GuestType, NEW d, NEW point, Opening(d, point), GuestMoves
  PROVE  Opening(d, point)'
<1>1. UNCHANGED <<flaws, bench, session>>
  BY GuestFlaws, GuestSession DEF GuestMoves
<1>2. Seated(d)' /\ BaseIsPlayers' /\ (UNCHANGED store => Disk(d)')
  BY <1>1, SeatedStays, DiskStays DEF Opening, BaseIsPlayers
<1>3. CASE /\ cfwState = NoState /\ AtRest
           /\ input = <<>> \/ (input = <<Tapped(point)>> /\ AtHome)
  <2>1. UNCHANGED store
    BY <1>3, ClosedGuest
  <2>2. CASE /\ input' = <<>> /\ page' = "launcher" /\ hook' = "sidecar" /\ player' = "up"
             /\ cfwState' = NoState
             /\ side' = [NoSide EXCEPT !.screen = "main", !.todo = "render",
                                       !.mask = store[session.runtime].mask]
    <3>1. /\ side'.screen = "main" /\ side'.todo = "render" /\ side'.seq = 0 /\ side'.route = "back"
          /\ side'.mask = store[session.runtime].mask /\ side'.notice = FALSE
      BY <2>2 DEF NoSide
    <3>2. d.saved # NoMask => side'.mask = d.saved
      BY <3>1 DEF Opening, Seated, Disk
    <3>3. OnScreen(Main(d))'
      BY <2>2, <3>1, <3>2 DEF OnScreen, Main, Screen
    <3> QED
      BY <1>2, <2>1, <2>2, <3>1, <3>3 DEF Opening
  <2> QED
    BY <1>2, <1>3, <2>1, <2>2, ClosedGuest DEF Opening
<1>4. CASE /\ OnScreen(Main(d)) /\ input = <<>>
           /\ \/ side.todo = "render" /\ side.seq = 0 /\ cfwState = NoState
              \/ /\ side.todo = "publish" /\ side.seq = 0 /\ cfwState = NoState
                 /\ shown = SidecarFrame
              \/ Told /\ side.seq = 1
  <2>1. /\ hook = "sidecar" /\ page = "launcher" /\ player # "booting" /\ session.crash = FALSE
        /\ side.todo # "leave"
    BY <1>4 DEF OnScreen, Opening, Seated, Told
  <2>2. CASE OnlyPlayer
    <3>1. OnScreen(Main(d))' /\ (Told => Told') /\ SidecarFrame' = SidecarFrame
      BY <1>1, <1>4, <2>2, SidecarFrameStays DEF OnlyPlayer, OnScreen, Told
    <3>2. UNCHANGED <<store, input, side, cfwState, shown>>
      BY <2>2 DEF OnlyPlayer
    <3> QED
      BY <1>2, <1>4, <3>1, <3>2 DEF Opening
  <2>3. CASE SidecarDraws /\ side.todo = "render"
    <3>1. OnScreen(Main(d))' /\ side'.todo = "publish" /\ shown' = SidecarFrame' /\ side'.seq = 0
          /\ UNCHANGED <<store, input, cfwState>> /\ cfwState = NoState
      BY <1>4, <2>3, DrawsGuest DEF Told
    <3> QED
      BY <1>2, <1>4, <3>1 DEF Opening
  <2>4. CASE SidecarPublishes /\ side.todo = "publish"
    <3>1. side.seq = 0 /\ shown = SidecarFrame
      BY <1>4, <2>4 DEF Told
    <3>2. OnScreen(Main(d))' /\ Told' /\ side'.seq = 1 /\ UNCHANGED <<store, input>>
      BY <1>4, <2>4, <3>1, PublishesGuest
    <3> QED
      BY <1>2, <1>4, <3>2 DEF Opening
  <2> QED
    BY <1>4, <2>1, <2>2, <2>3, <2>4, SidecarMoves
<1> QED
  BY <1>3, <1>4 DEF Opening

\* Nothing happens until the next touch.
LEMMA StillGuest ==
  ASSUME NEW d, NEW x, Seated(d), OnScreen(x), Told, input = <<>>, GuestMoves
  PROVE  /\ OnlyPlayer /\ Seated(d)' /\ OnScreen(x)' /\ Told' /\ (Disk(d) => Disk(d)')
<1>1. /\ hook = "sidecar" /\ page = "launcher" /\ player # "booting" /\ session.crash = FALSE
      /\ side.todo = "poll"
  BY DEF OnScreen, Seated, Told
<1>2. OnlyPlayer
  BY <1>1, SidecarMoves
<1>3. SidecarFrame' = SidecarFrame
  BY <1>2, SidecarFrameStays DEF OnlyPlayer
<1>4. OnScreen(x)' /\ Told'
  BY <1>2, <1>3 DEF OnlyPlayer, OnScreen, Told
<1> QED
  BY <1>2, <1>4, SeatedStays, DiskStays DEF OnlyPlayer

\* and of a sidecar that nobody touches.
LEMMA QuietGuest ==
  ASSUME NEW d, NEW x, Quiet(d, x), GuestMoves
  PROVE  Quiet(d, x)'
<1>1. /\ OnlyPlayer /\ Seated(d)' /\ OnScreen(x)' /\ Told' /\ Disk(d)'
  BY StillGuest DEF Quiet
<1>2. UNCHANGED <<bench, side, input>>
  BY <1>1 DEF OnlyPlayer
<1> QED
  BY <1>1, <1>2 DEF Quiet, BaseIsPlayers

-------------------------------------------------------------------------------
(***************************************************************************)
(* What a tap in the sidecar does.                                         *)
(***************************************************************************)
LEMMA RowsAt ==
  /\ RowAt(Row(0)) = 0 /\ RowAt(Row(1)) = 1 /\ RowAt(Row(2)) = 2 /\ RowAt(Row(3)) = 3
  /\ RowAt(Row(4)) = 4 /\ RowAt(Row(5)) = 5 /\ RowAt(Row(6)) = 6 /\ RowAt(Row(7)) = 7
  /\ RowAt(Row(8)) = 8
  /\ \A row \in 0..8 : ~(Row(row)[2] < HeaderHeight)
  /\ BackTouch[2] < HeaderHeight /\ BackTouch[1] < 110
<1>1. \A row \in 0..8 : Row(row)[2] = 80 + row * 72 + 36
  BY DEF Row, HeaderHeight, RowHeight
<1>2. \A row \in 0..8 : RowAt(Row(row)) = (row * 72 + 36) \div 72
  BY <1>1 DEF RowAt, HeaderHeight, RowHeight
<1>3. 36 \div 72 = 0 /\ 108 \div 72 = 1 /\ 180 \div 72 = 2 /\ 252 \div 72 = 3 /\ 324 \div 72 = 4
      /\ 396 \div 72 = 5 /\ 468 \div 72 = 6 /\ 540 \div 72 = 7 /\ 612 \div 72 = 8
  OBVIOUS
<1> QED
  BY <1>1, <1>2, <1>3 DEF HeaderHeight, BackTouch

\* The sidecar has told its screen, and takes a touch.
LEMMA TouchTaken ==
  ASSUME GuestType, NEW d, NEW x, Seated(d), OnScreen(x), Told,
         NEW touch, input = <<touch>>, SidecarTakesTouch, Rest
  PROVE  /\ input' = <<>>
         /\ UNCHANGED <<session, player, page, shown, hook, cfwState, flaws>>
         /\ touch.drag => side' = Draw(side, "drag_ignored") /\ UNCHANGED store
         /\ ~touch.drag /\ touch.at = BackTouch =>
              side' = Back /\ UNCHANGED store
         /\ \A row \in 0..8 : ~touch.drag /\ touch.at = Row(row) =>
              /\ side' = CASE side.screen = "main" -> MainTap(RowAt(Row(row)))
                           [] side.screen = "launcher" -> LauncherTap(RowAt(Row(row)))
                           [] OTHER -> side
              /\ store' = [store EXCEPT ![session.runtime] = Written(RowAt(Row(row)))]
<1>1. Touch = touch /\ input' = <<>>
  <2>1. Tail(<<touch>>) = <<>> /\ Head(<<touch>>) = touch
    OBVIOUS
  <2> QED
    BY <2>1 DEF SidecarTakesTouch, Touch
<1>2. "drag_taps" \notin flaws
  BY RestMeans
<1>3. touch.drag => side' = Draw(side, "drag_ignored") /\ UNCHANGED store
  BY <1>1, <1>2 DEF SidecarTakesTouch
<1>4. ~touch.drag /\ touch.at = BackTouch => side' = Back /\ UNCHANGED store
  BY <1>1, RowsAt DEF SidecarTakesTouch
<1>5. ASSUME NEW row \in 0..8, ~touch.drag, touch.at = Row(row)
      PROVE  /\ side' = CASE side.screen = "main" -> MainTap(RowAt(Row(row)))
                          [] side.screen = "launcher" -> LauncherTap(RowAt(Row(row)))
                          [] OTHER -> side
             /\ store' = [store EXCEPT ![session.runtime] = Written(RowAt(Row(row)))]
  BY <1>1, <1>5, RowsAt DEF SidecarTakesTouch
<1> QED
  BY <1>1, <1>3, <1>4, <1>5 DEF SidecarTakesTouch

\* What the disk says.
LEMMA ConfHas ==
  ASSUME GuestType, NEW d, Seated(d), Disk(d)
  PROVE  /\ session.runtime = d.runtime /\ d.runtime \in Runtimes /\ Conf = store[d.runtime]
         /\ Conf \in Confs /\ Conf = [mask |-> Conf.mask, ssh |-> Conf.ssh]
         /\ d.saved # NoMask => Conf.mask = d.saved
         /\ d.ssh # "any" => Conf.ssh = d.ssh
         /\ [store EXCEPT ![session.runtime] = Conf] = store
         /\ \A c : [store EXCEPT ![session.runtime] = c][d.runtime] = c
<1>1. Booted \subseteq Runtimes
  BY Directories DEF Booted
<1>2. session.runtime = d.runtime /\ d.runtime \in Runtimes /\ store \in [Runtimes -> Confs]
  BY <1>1 DEF Seated, GuestType
<1>3. Conf = store[d.runtime] /\ Conf \in Confs
  BY <1>2 DEF Conf
<1>4. Conf = [mask |-> Conf.mask, ssh |-> Conf.ssh]
  BY <1>3 DEF Confs
<1> QED
  BY <1>2, <1>3, <1>4 DEF Disk

\* What the sidecar becomes.
Redrawn(s, screen, mask, notice, action) ==
  /\ s.screen = screen /\ s.mask = mask /\ s.notice = notice /\ s.action = action
  /\ s.todo = "render" /\ s.seq = side.seq /\ s.route = side.route

\* What a touch changes of the sidecar, for each way it draws again.
LEMMA Redraws ==
  ASSUME IsSide(side)
  PROVE  /\ "mask_not_saved" \notin flaws => \A screen, action :
              Redrawn(GoToPage(screen, action), screen, Conf.mask, FALSE, action)
         /\ \A notice, mask, action :
              Redrawn(Draw([side EXCEPT !.notice = notice, !.mask = mask], action),
                      side.screen, mask, notice, action)
         /\ \A notice, action :
              Redrawn(Draw([side EXCEPT !.notice = notice], action),
                      side.screen, side.mask, notice, action)
         /\ \A action :
              Redrawn(Draw(side, action), side.screen, side.mask, side.notice, action)
<1>1. ASSUME NEW screen, NEW action, "mask_not_saved" \notin flaws
      PROVE  Redrawn(GoToPage(screen, action), screen, Conf.mask, FALSE, action)
  BY <1>1 DEF GoToPage, Draw, IsSide, SideFields, Redrawn
<1>2. ASSUME NEW notice, NEW mask, NEW action
      PROVE  Redrawn(Draw([side EXCEPT !.notice = notice, !.mask = mask], action),
                     side.screen, mask, notice, action)
  BY DEF Draw, IsSide, SideFields, Redrawn
<1>3. ASSUME NEW notice, NEW action
      PROVE  Redrawn(Draw([side EXCEPT !.notice = notice], action),
                     side.screen, side.mask, notice, action)
  BY DEF Draw, IsSide, SideFields, Redrawn
<1>4. ASSUME NEW action
      PROVE  Redrawn(Draw(side, action), side.screen, side.mask, side.notice, action)
  BY DEF Draw, IsSide, SideFields, Redrawn
<1> QED
  BY <1>1, <1>2, <1>3, <1>4

\* A sidecar that was quiet, took a touch and draws again is answering.
LEMMA StartsAnswer ==
  ASSUME NEW x, OnScreen(x), Told, side.seq = bench.seq,
         UNCHANGED <<bench, page, player, hook, cfwState>>, input' = <<>>,
         NEW d1, NEW x1, NEW action, Disk(d1)', NEW mask,
         Redrawn(side', x1.screen, mask, x1.notice, action),
         x1.shows # NoMask => mask = x1.shows
  PROVE  Answering(d1, x1, action)'
<1>1. OnScreen(x1)'
  BY DEF OnScreen, Redrawn
<1>2. cfwState.seq = side.seq
  BY DEF Told
<1> QED
  BY <1>1, <1>2 DEF Answering, Redrawn

\* The first touch of Asked, taken.
TouchTakes(d, x, what) ==
  /\ Seated(d) /\ Disk(d) /\ OnScreen(x) /\ Told /\ side.seq = bench.seq
  /\ Answers(d, x, what) /\ input = <<TouchOn(what)>> /\ UNCHANGED bench
  /\ SidecarTakesTouch /\ GuestType /\ Rest

\* The SSH row is taken and answered.
LEMMA SshTaken ==
  ASSUME NEW d, NEW x, TouchTakes(d, x, "ssh"), NEW fl, fl = flaws
  PROVE  Answering(DiskAfter(fl, d, "ssh"), ScreenAfter(fl, d, x, "ssh"),
                   ActionAfter(fl, d, "ssh"))'
<1>0. /\ Seated(d) /\ Disk(d) /\ OnScreen(x) /\ Told /\ side.seq = bench.seq
      /\ Answers(d, x, "ssh") /\ input = <<TouchOn("ssh")>> /\ UNCHANGED bench
      /\ SidecarTakesTouch /\ GuestType /\ Rest
  BY DEF TouchTakes
<1>1. x.screen = "main" /\ d.ssh # "any"
  BY <1>0 DEF Answers, PageRows, TileRows
<1>2. TouchOn("ssh") = Tapped(Row(0))
  BY DEF TouchOn
<1>3. /\ input' = <<>> /\ UNCHANGED <<session, player, page, shown, hook, cfwState, flaws>>
      /\ side' = GoToPage("main", "ssh_toggle")
      /\ store' = [store EXCEPT ![session.runtime] = Written(0)]
  <2>1. /\ Tapped(Row(0)).drag = FALSE /\ Tapped(Row(0)).at = Row(0)
    BY DEF Tapped
  <2>2. side.screen = "main"
    BY <1>0, <1>1 DEF OnScreen
  <2>3. 0 \in 0..8 /\ RowAt(Row(0)) = 0
    BY RowsAt
  <2>4. MainTap(0) = GoToPage("main", "ssh_toggle")
    BY DEF MainTap
  <2> QED
    BY <1>0, <1>2, <2>1, <2>2, <2>3, <2>4, TouchTaken
<1>4. /\ "mask_not_saved" \notin flaws /\ "ssh_no_marker" \notin flaws
  BY <1>0, RestMeans
<1>5. Written(0) = [Conf EXCEPT !.ssh = Turned(d.ssh)] /\ Conf = store[d.runtime]
  <2>1. side.screen = "main"
    BY <1>0, <1>1 DEF OnScreen
  <2>2. ToggledSsh = Turned(d.ssh)
    BY <1>0, <1>1, <1>4, ConfHas DEF ToggledSsh, Turned
  <2> QED
    BY <1>0, <2>1, <2>2, ConfHas DEF Written
<1>6. DiskAfter(fl, d, "ssh") = Known(d.runtime, d.sd, d.mask, d.saved, Turned(d.ssh))
  BY DEF DiskAfter, TileRows
<1>7. Disk(Known(d.runtime, d.sd, d.mask, d.saved, Turned(d.ssh)))'
  <2>1. store'[d.runtime] = Written(0)
    BY <1>0, <1>3, ConfHas
  <2>2. Written(0).ssh = Turned(d.ssh) /\ Written(0).mask = Conf.mask
    BY <1>0, <1>5, ConfHas
  <2> QED
    BY <1>0, <2>1, <2>2, ConfHas DEF Disk, Known
<1>8. ScreenAfter(fl, d, x, "ssh") = Screen("main", d.saved, FALSE)
      /\ ActionAfter(fl, d, "ssh") = "ssh_toggle"
  BY DEF ScreenAfter, ActionAfter, PageRows, TileRows
<1>9. Redrawn(side', "main", Conf.mask, FALSE, "ssh_toggle")
  BY <1>0, <1>3, <1>4, Redraws DEF GuestType
<1>10. d.saved # NoMask => Conf.mask = d.saved
  BY <1>0, ConfHas
<1> QED
  BY <1>0, <1>3, <1>6, <1>7, <1>8, <1>9, <1>10, StartsAnswer DEF Screen

\* What is known when a quiet sidecar takes a touch.
LEMMA TouchTakesMeans ==
  ASSUME NEW d, NEW x, NEW what, TouchTakes(d, x, what)
  PROVE  /\ Seated(d) /\ Disk(d) /\ OnScreen(x) /\ Told /\ side.seq = bench.seq
         /\ Answers(d, x, what) /\ input = <<TouchOn(what)>> /\ UNCHANGED bench
         /\ SidecarTakesTouch /\ GuestType /\ Rest
         /\ input' = <<>> /\ UNCHANGED <<session, player, page, shown, hook, cfwState, flaws>>
BY TouchTaken DEF TouchTakes

\* The rows of the main page open the pages they are named for.
LEMMA PageRowsAre ==
  ASSUME NEW what \in PageRows, "page_dead" \notin flaws
  PROVE  \E row \in 3..8 : /\ TouchOn(what) = Tapped(Row(row)) /\ RowAt(Row(row)) = row
                           /\ MainTap(row) = GoToPage(what, "open_page")
<1> DEFINE Goal(row) == /\ TouchOn(what) = Tapped(Row(row)) /\ RowAt(Row(row)) = row
                        /\ MainTap(row) = GoToPage(what, "open_page")
<1>1. CASE what = "launcher"
  <2>1. Goal(3)
    BY <1>1, RowsAt DEF TouchOn, MainTap, Pages
  <2> QED
    BY <2>1
<1>2. CASE what = "internal"
  <2>1. Goal(4)
    BY <1>2, RowsAt DEF TouchOn, MainTap, Pages
  <2> QED
    BY <2>1
<1>3. CASE what = "sd"
  <2>1. Goal(5)
    BY <1>3, RowsAt DEF TouchOn, MainTap, Pages
  <2> QED
    BY <2>1
<1>4. CASE what = "memory"
  <2>1. Goal(6)
    BY <1>4, RowsAt DEF TouchOn, MainTap, Pages
  <2> QED
    BY <2>1
<1>5. CASE what = "system"
  <2>1. Goal(7)
    BY <1>5, RowsAt DEF TouchOn, MainTap, Pages
  <2> QED
    BY <2>1
<1>6. CASE what = "about"
  <2>1. Goal(8)
    BY <1>6, RowsAt DEF TouchOn, MainTap, Pages
  <2> QED
    BY <2>1
<1> QED
  BY <1>1, <1>2, <1>3, <1>4, <1>5, <1>6 DEF PageRows

\* A row of the main page is taken and answered.
LEMMA PageTaken ==
  ASSUME NEW d, NEW x, NEW what \in PageRows, TouchTakes(d, x, what), NEW fl, fl = flaws
  PROVE  Answering(DiskAfter(fl, d, what), ScreenAfter(fl, d, x, what),
                   ActionAfter(fl, d, what))'
<1>0. /\ Seated(d) /\ Disk(d) /\ OnScreen(x) /\ Told /\ side.seq = bench.seq
      /\ Answers(d, x, what) /\ input = <<TouchOn(what)>> /\ UNCHANGED bench
      /\ SidecarTakesTouch /\ GuestType /\ Rest
      /\ input' = <<>> /\ UNCHANGED <<session, player, page, shown, hook, cfwState, flaws>>
  BY TouchTakesMeans
<1>1. side.screen = "main" /\ what \notin {"ssh", "home"} /\ what \notin TileRows
  BY <1>0 DEF Answers, PageRows, TileRows, OnScreen
<1>2. "mask_not_saved" \notin flaws /\ "page_dead" \notin flaws
  BY <1>0, RestMeans
<1>3. PICK row \in 3..8 : /\ TouchOn(what) = Tapped(Row(row)) /\ RowAt(Row(row)) = row
                          /\ MainTap(row) = GoToPage(what, "open_page")
  BY <1>2, PageRowsAre
<1>4. /\ side' = GoToPage(what, "open_page")
      /\ store' = [store EXCEPT ![session.runtime] = Written(row)]
  <2>1. Tapped(Row(row)).drag = FALSE /\ Tapped(Row(row)).at = Row(row) /\ row \in 0..8
    BY DEF Tapped
  <2>2. input = <<Tapped(Row(row))>>
    BY <1>0, <1>3
  <2> QED
    BY <1>0, <1>1, <1>3, <2>1, <2>2, TouchTaken
<1>5. Written(row) = Conf
  BY <1>1 DEF Written
<1>6. UNCHANGED store
  BY <1>0, <1>4, <1>5, ConfHas
<1>7. DiskAfter(fl, d, what) = d /\ Disk(d)'
  BY <1>0, <1>1, <1>6, DiskStays DEF DiskAfter
<1>8. ScreenAfter(fl, d, x, what) = Screen(what, d.saved, FALSE)
      /\ ActionAfter(fl, d, what) = "open_page"
  <2>1. what # "ssh" /\ what # "home" /\ what \notin {"ssh", "home"} /\ what \in PageRows
        /\ what \notin TileRows /\ what # "cfw"
    BY <1>1 DEF PageRows
  <2> HIDE DEF PageRows, TileRows
  <2>2. ScreenAfter(fl, d, x, what) = Screen(what, d.saved, FALSE)
    BY <2>1 DEF ScreenAfter
  <2>3. ActionAfter(fl, d, what) = "open_page"
    BY <2>1 DEF ActionAfter
  <2> QED
    BY <2>2, <2>3
<1>9. Redrawn(side', what, Conf.mask, FALSE, "open_page")
  BY <1>0, <1>2, <1>4, Redraws DEF GuestType
<1>10. d.saved # NoMask => Conf.mask = d.saved
  BY <1>0, ConfHas
<1> QED
  BY <1>0, <1>7, <1>8, <1>9, <1>10, StartsAnswer DEF Screen

\* The way back to the main page is taken and answered.
LEMMA HomeTaken ==
  ASSUME NEW d, NEW x, TouchTakes(d, x, "home"), NEW fl, fl = flaws
  PROVE  Answering(DiskAfter(fl, d, "home"), ScreenAfter(fl, d, x, "home"),
                   ActionAfter(fl, d, "home"))'
<1>0. /\ Seated(d) /\ Disk(d) /\ OnScreen(x) /\ Told /\ side.seq = bench.seq
      /\ Answers(d, x, "home") /\ input = <<TouchOn("home")>> /\ UNCHANGED bench
      /\ SidecarTakesTouch /\ GuestType /\ Rest
      /\ input' = <<>> /\ UNCHANGED <<session, player, page, shown, hook, cfwState, flaws>>
  BY TouchTakesMeans
<1>1. side.screen # "main" /\ "mask_not_saved" \notin flaws
  BY <1>0, RestMeans DEF Answers, PageRows, TileRows, OnScreen
<1>2. side' = Back /\ UNCHANGED store
  <2>1. Tapped(BackTouch).drag = FALSE /\ Tapped(BackTouch).at = BackTouch
    BY DEF Tapped
  <2>2. input = <<Tapped(BackTouch)>>
    BY <1>0 DEF TouchOn
  <2> QED
    BY <1>0, <2>1, <2>2, TouchTaken
<1>3. Redrawn(side', "main", Conf.mask, FALSE, "back")
  BY <1>0, <1>1, <1>2, Redraws DEF GuestType, Back
<1>4. DiskAfter(fl, d, "home") = d /\ Disk(d)'
  BY <1>0, <1>2, DiskStays DEF DiskAfter, TileRows
<1>5. ScreenAfter(fl, d, x, "home") = Screen("main", d.saved, FALSE)
      /\ ActionAfter(fl, d, "home") = "back"
  BY DEF ScreenAfter, ActionAfter, PageRows, TileRows
<1>6. d.saved # NoMask => Conf.mask = d.saved
  BY <1>0, ConfHas
<1> QED
  BY <1>0, <1>3, <1>4, <1>5, <1>6, StartsAnswer DEF Screen

\* A drag is taken and answered.
LEMMA DragTaken ==
  ASSUME NEW d, NEW x, TouchTakes(d, x, "drag"), NEW fl, fl = flaws
  PROVE  Answering(DiskAfter(fl, d, "drag"), ScreenAfter(fl, d, x, "drag"),
                   ActionAfter(fl, d, "drag"))'
<1>0. /\ Seated(d) /\ Disk(d) /\ OnScreen(x) /\ Told /\ side.seq = bench.seq
      /\ Answers(d, x, "drag") /\ input = <<TouchOn("drag")>> /\ UNCHANGED bench
      /\ SidecarTakesTouch /\ GuestType /\ Rest
      /\ input' = <<>> /\ UNCHANGED <<session, player, page, shown, hook, cfwState, flaws>>
  BY TouchTakesMeans
<1>1. side' = Draw(side, "drag_ignored") /\ UNCHANGED store
  <2>1. TouchOn("drag").drag = TRUE
    BY DEF TouchOn
  <2> QED
    BY <1>0, <2>1, TouchTaken
<1>2. Redrawn(side', side.screen, side.mask, side.notice, "drag_ignored")
  BY <1>0, <1>1, Redraws DEF GuestType
<1>3. DiskAfter(fl, d, "drag") = d /\ Disk(d)'
  BY <1>0, <1>1, DiskStays DEF DiskAfter, TileRows
<1>4. ScreenAfter(fl, d, x, "drag") = x /\ ActionAfter(fl, d, "drag") = "drag_ignored"
  BY DEF ScreenAfter, ActionAfter, PageRows, TileRows
<1>5. side.screen = x.screen /\ side.notice = x.notice /\ (x.shows # NoMask => side.mask = x.shows)
  BY <1>0 DEF OnScreen
<1> QED
  BY <1>0, <1>2, <1>3, <1>4, <1>5, StartsAnswer

\* The rows of the launcher page stand for the tiles they are named for.
LEMMA TileRowsAre ==
  ASSUME NEW what \in TileRows
  PROVE  \E row \in 1..3 : /\ TouchOn(what) = Tapped(Row(row)) /\ RowAt(Row(row)) = row
                           /\ TileOrder[row + 1] = what
<1> DEFINE Goal(row) == /\ TouchOn(what) = Tapped(Row(row)) /\ RowAt(Row(row)) = row
                        /\ TileOrder[row + 1] = what
<1>1. CASE what = "stream"
  <2>1. Goal(1)
    BY <1>1, RowsAt DEF TouchOn, TileOrder
  <2> QED
    BY <2>1
<1>2. CASE what = "wireless"
  <2>1. Goal(2)
    BY <1>2, RowsAt DEF TouchOn, TileOrder
  <2> QED
    BY <2>1
<1>3. CASE what = "ebook"
  <2>1. Goal(3)
    BY <1>3, RowsAt DEF TouchOn, TileOrder
  <2> QED
    BY <2>1
<1> QED
  BY <1>1, <1>2, <1>3 DEF TileRows

\* A tile's row is taken and answered.
LEMMA TileTaken ==
  ASSUME NEW d, NEW x, NEW what \in TileRows, TouchTakes(d, x, what), NEW fl, fl = flaws
  PROVE  Answering(DiskAfter(fl, d, what), ScreenAfter(fl, d, x, what),
                   ActionAfter(fl, d, what))'
<1>0. /\ Seated(d) /\ Disk(d) /\ OnScreen(x) /\ Told /\ side.seq = bench.seq
      /\ Answers(d, x, what) /\ input = <<TouchOn(what)>> /\ UNCHANGED bench
      /\ SidecarTakesTouch /\ GuestType /\ Rest
      /\ input' = <<>> /\ UNCHANGED <<session, player, page, shown, hook, cfwState, flaws>>
  BY TouchTakesMeans
<1>1. /\ what # "ssh" /\ what # "home" /\ what # "cfw" /\ what \notin {"ssh", "home"}
      /\ what \notin PageRows
  BY DEF TileRows, PageRows
<1>2. /\ side.screen = "launcher" /\ x.screen = "launcher" /\ side.mask = x.shows
      /\ d.saved # NoMask
  <2> HIDE DEF PageRows, TileRows
  <2> QED
    BY <1>0, <1>1 DEF Answers, OnScreen
<1>3. /\ Conf = store[d.runtime] /\ d.runtime \in Runtimes /\ session.runtime = d.runtime
      /\ Conf.mask = d.saved /\ (d.ssh # "any" => Conf.ssh = d.ssh)
      /\ Conf = [mask |-> Conf.mask, ssh |-> Conf.ssh]
      /\ [store EXCEPT ![session.runtime] = Conf] = store
      /\ \A c : [store EXCEPT ![session.runtime] = c][d.runtime] = c
  BY <1>0, <1>2, ConfHas
<1>4. "mask_not_saved" \notin flaws
  BY <1>0, RestMeans
<1>5. PICK row \in 1..3 : /\ TouchOn(what) = Tapped(Row(row)) /\ RowAt(Row(row)) = row
                          /\ TileOrder[row + 1] = what
  BY TileRowsAre
<1>6. /\ side' = LauncherTap(row)
      /\ store' = [store EXCEPT ![session.runtime] = Written(row)]
  <2>1. Tapped(Row(row)).drag = FALSE /\ Tapped(Row(row)).at = Row(row) /\ row \in 0..8
    BY DEF Tapped
  <2>2. input = <<Tapped(Row(row))>>
    BY <1>0, <1>5
  <2> QED
    BY <1>0, <1>2, <1>5, <2>1, <2>2, TouchTaken
<1>7. Allowed(row) <=> Takes(fl, d.saved, what)
  BY <1>3, <1>5 DEF Allowed, Takes
<1>8. row \in 0..6
  OBVIOUS
<1>9. store'[d.runtime].ssh = Conf.ssh
      /\ store'[d.runtime].mask = SavedAfter(fl, d.saved, what)
  <2>1. store'[d.runtime] = Written(row)
    BY <1>3, <1>6
  <2>2. CASE Allowed(row) \/ "seventh_saved" \in flaws
    <3>1. Written(row) = [Conf EXCEPT !.mask = Flip(@, what)]
      BY <1>1, <1>2, <1>4, <1>5, <1>8, <2>2 DEF Written
    <3> QED
      BY <1>3, <1>7, <2>1, <2>2, <3>1 DEF SavedAfter
  <2>3. CASE ~(Allowed(row) \/ "seventh_saved" \in flaws)
    <3>1. Written(row) = Conf
      BY <1>2, <2>3 DEF Written
    <3> QED
      BY <1>3, <1>7, <2>1, <2>3, <3>1 DEF SavedAfter
  <2> QED
    BY <2>2, <2>3
<1>10. DiskAfter(fl, d, what) = Known(d.runtime, d.sd, d.mask, SavedAfter(fl, d.saved, what), d.ssh)
  BY <1>1 DEF DiskAfter
<1>11. Disk(DiskAfter(fl, d, what))'
  <2>1. Disk(Known(d.runtime, d.sd, d.mask, SavedAfter(fl, d.saved, what), d.ssh))'
    BY <1>3, <1>9 DEF Disk, Known
  <2> QED
    BY <1>10, <2>1
<1>12. CASE Takes(fl, d.saved, what)
  <2>1. ScreenAfter(fl, d, x, what) = Screen(x.screen, Flip(x.shows, what), FALSE)
        /\ ActionAfter(fl, d, what) = "launcher_toggle"
    <3> HIDE DEF PageRows, TileRows
    <3> QED
      BY <1>1, <1>12 DEF ScreenAfter, ActionAfter
  <2>2. side' = Draw([side EXCEPT !.notice = FALSE, !.mask = Flip(x.shows, what)],
                     "launcher_toggle")
    BY <1>1, <1>2, <1>5, <1>6, <1>7, <1>8, <1>12 DEF LauncherTap
  <2>3. Redrawn(side', "launcher", Flip(x.shows, what), FALSE, "launcher_toggle")
    BY <1>0, <1>2, <2>2, Redraws DEF GuestType
  <2> QED
    BY <1>0, <1>2, <1>11, <2>1, <2>3, StartsAnswer DEF Screen
<1>13. CASE ~Takes(fl, d.saved, what)
  <2>1. ScreenAfter(fl, d, x, what) = Screen(x.screen, x.shows, Cardinality(d.saved) = 6)
        /\ ActionAfter(fl, d, what) = "launcher_rejected"
    <3> HIDE DEF PageRows, TileRows
    <3> QED
      BY <1>1, <1>13 DEF ScreenAfter, ActionAfter
  <2>2. side' = Draw([side EXCEPT !.notice = Cardinality(Conf.mask) = 6], "launcher_rejected")
    BY <1>1, <1>2, <1>5, <1>6, <1>7, <1>8, <1>13 DEF LauncherTap
  <2>3. Redrawn(side', side.screen, side.mask, Cardinality(Conf.mask) = 6, "launcher_rejected")
    BY <1>0, <2>2, Redraws DEF GuestType
  <2>4. Redrawn(side', "launcher", x.shows, Cardinality(d.saved) = 6, "launcher_rejected")
    BY <1>2, <1>3, <2>3
  <2> QED
    BY <1>0, <1>2, <1>11, <2>1, <2>4, StartsAnswer DEF Screen
<1> QED
  BY <1>12, <1>13

\* The CFW tile's row is taken and answered.
LEMMA CfwTaken ==
  ASSUME NEW d, NEW x, TouchTakes(d, x, "cfw"), NEW fl, fl = flaws
  PROVE  Answering(DiskAfter(fl, d, "cfw"), ScreenAfter(fl, d, x, "cfw"),
                   ActionAfter(fl, d, "cfw"))'
<1>0. /\ Seated(d) /\ Disk(d) /\ OnScreen(x) /\ Told /\ side.seq = bench.seq
      /\ Answers(d, x, "cfw") /\ input = <<TouchOn("cfw")>> /\ UNCHANGED bench
      /\ SidecarTakesTouch /\ GuestType /\ Rest
      /\ input' = <<>> /\ UNCHANGED <<session, player, page, shown, hook, cfwState, flaws>>
  BY TouchTakesMeans
<1>1. side.screen = "launcher" /\ x.screen = "launcher" /\ side.mask = x.shows
  BY <1>0 DEF Answers, PageRows, OnScreen
<1>2. TileOrder[5 + 1] = "cfw" /\ 5 \in 0..6
  BY DEF TileOrder
<1>3. side' = LauncherTap(5) /\ store' = [store EXCEPT ![session.runtime] = Written(5)]
  <2>1. Tapped(Row(5)).drag = FALSE /\ Tapped(Row(5)).at = Row(5) /\ 5 \in 0..8
    BY DEF Tapped
  <2>2. input = <<Tapped(Row(5))>>
    BY <1>0 DEF TouchOn
  <2> QED
    BY <1>0, <1>1, <2>1, <2>2, RowsAt, TouchTaken
<1>4. UNCHANGED store
  <2>1. Written(5) = Conf
    BY <1>1, <1>2 DEF Written
  <2> QED
    BY <1>0, <1>3, <2>1, ConfHas
<1>5. Redrawn(side', "launcher", IF "cfw_unlocked" \in fl THEN x.shows \ {"cfw"} ELSE x.shows,
              FALSE, "launcher_rejected")
  <2>1. ASSUME NEW row \in 0..6, TileOrder[row + 1] = "cfw"
        PROVE  LauncherTap(row)
                 = Draw([side EXCEPT !.notice = FALSE,
                           !.mask = IF "cfw_unlocked" \in flaws THEN @ \ {"cfw"} ELSE @],
                        "launcher_rejected")
    BY <2>1 DEF LauncherTap
  <2>2. side' = Draw([side EXCEPT !.notice = FALSE,
                        !.mask = IF "cfw_unlocked" \in flaws THEN @ \ {"cfw"} ELSE @],
                     "launcher_rejected")
    BY <1>2, <1>3, <2>1
  <2>3. IsSide(side)
    BY <1>0 DEF GuestType
  <2>4. CASE "cfw_unlocked" \in flaws
    <3>1. Redrawn(side', side.screen, side.mask \ {"cfw"}, FALSE, "launcher_rejected")
      <4>1. side' = Draw([side EXCEPT !.notice = FALSE, !.mask = side.mask \ {"cfw"}],
                         "launcher_rejected")
        BY <2>2, <2>4
      <4> QED
        BY <2>3, <4>1, Redraws
    <3> QED
      BY <1>1, <2>4, <3>1
  <2>5. CASE "cfw_unlocked" \notin flaws
    <3>1. Redrawn(side', side.screen, side.mask, FALSE, "launcher_rejected")
      <4>1. side' = Draw([side EXCEPT !.notice = FALSE, !.mask = side.mask], "launcher_rejected")
        BY <2>2, <2>5
      <4> QED
        BY <2>3, <4>1, Redraws
    <3> QED
      BY <1>1, <2>5, <3>1
  <2> QED
    BY <2>4, <2>5
<1>6. DiskAfter(fl, d, "cfw") = d /\ Disk(d)'
  BY <1>0, <1>4, DiskStays DEF DiskAfter, TileRows
<1>7. ScreenAfter(fl, d, x, "cfw")
        = Screen(x.screen, IF "cfw_unlocked" \in fl THEN x.shows \ {"cfw"} ELSE x.shows, FALSE)
      /\ ActionAfter(fl, d, "cfw") = "launcher_rejected"
  BY DEF ScreenAfter, ActionAfter, PageRows, TileRows
<1> QED
  BY <1>0, <1>1, <1>5, <1>6, <1>7, StartsAnswer DEF Screen

\* The sidecar takes the touch, draws and tells.
LEMMA AnsweringGuest ==
  ASSUME GuestType, bench.seq \in Nat, NEW d, NEW x, NEW action, Seated(d),
         Answering(d, x, action), GuestMoves
  PROVE  Answering(d, x, action)'
<1>1. /\ hook = "sidecar" /\ page = "launcher" /\ player # "booting" /\ session.crash = FALSE
      /\ side.todo # "leave" /\ input = <<>>
  BY DEF OnScreen, Answering, Seated, Told
<1>2. UNCHANGED <<session, flaws, bench>>
  BY <1>1, SidecarMoves
<1>3. CASE OnlyPlayer
  <2>1. OnScreen(x)' /\ (Told => Told') /\ SidecarFrame' = SidecarFrame
    BY <1>1, <1>3, SidecarFrameStays DEF OnlyPlayer, OnScreen, Told, Answering
  <2>2. Disk(d)'
    BY <1>3, DiskStays DEF OnlyPlayer, Answering
  <2> QED
    BY <1>3, <2>1, <2>2 DEF Answering, OnlyPlayer
<1>4. CASE SidecarDraws /\ side.todo = "render"
  <2>1. /\ OnScreen(x)' /\ side'.todo = "publish" /\ shown' = SidecarFrame'
        /\ side'.seq = side.seq /\ side'.action = side.action
        /\ UNCHANGED <<store, input, cfwState>>
    BY <1>4, DrawsGuest DEF Answering
  <2>2. side.seq = bench.seq /\ cfwState.seq = bench.seq /\ side.action = action
    BY <1>4 DEF Answering, Told
  <2> QED
    BY <1>1, <1>2, <2>1, <2>2, DiskStays DEF Answering
<1>5. CASE SidecarPublishes /\ side.todo = "publish"
  <2>1. side.seq = bench.seq /\ shown = SidecarFrame /\ side.action = action
    BY <1>5 DEF Answering, Told
  <2>2. /\ OnScreen(x)' /\ Told' /\ side'.seq = side.seq + 1 /\ side'.action = side.action
        /\ UNCHANGED <<store, input>>
    BY <1>5, <2>1, PublishesGuest DEF Answering
  <2> QED
    BY <1>1, <1>2, <2>1, <2>2, DiskStays DEF Answering
<1> QED
  BY <1>1, <1>3, <1>4, <1>5, SidecarMoves

\* The guest's own steps keep the stages of an answer,
LEMMA AskedGuest ==
  ASSUME GuestType, Rest, NEW d, NEW x, NEW what, Asked(d, x, what), GuestMoves
  PROVE  Asked(d, x, what)'
<1>1. UNCHANGED <<flaws, bench, session>>
  BY GuestFlaws, GuestSession DEF GuestMoves
<1>2. Seated(d)' /\ BaseIsPlayers' /\ bench'.seq \in Nat /\ Answers(d, x, what)
  BY <1>1, SeatedStays DEF Asked, BaseIsPlayers
<1>3. ASSUME Answering(DiskAfter(flaws, d, what), ScreenAfter(flaws, d, x, what),
                       ActionAfter(flaws, d, what))'
      PROVE  Asked(d, x, what)'
  BY <1>2, <1>3 DEF Asked
<1>4. CASE Answering(DiskAfter(flaws, d, what), ScreenAfter(flaws, d, x, what),
                     ActionAfter(flaws, d, what))
  <2>1. \A fl, d1, x1, a : d1 = DiskAfter(fl, d, what) => d1.runtime = d.runtime /\ d1.sd = d.sd
    BY DEF DiskAfter, Known
  <2>2. PICK fl, d1, x1, a : /\ fl = flaws /\ d1 = DiskAfter(fl, d, what)
                             /\ x1 = ScreenAfter(fl, d, x, what) /\ a = ActionAfter(fl, d, what)
    OBVIOUS
  <2>3. Seated(d1)
    BY <2>1, <2>2 DEF Asked, Seated
  <2>4. Answering(d1, x1, a)
    BY <1>4, <2>2
  <2>5. Answering(d1, x1, a)'
    BY <1>2, <2>3, <2>4, AnsweringGuest DEF Asked
  <2>6. fl = flaws'
    BY <1>1, <2>2
  <2>7. /\ d1 = DiskAfter(flaws', d, what) /\ x1 = ScreenAfter(flaws', d, x, what)
        /\ a = ActionAfter(flaws', d, what)
    BY <2>2, <2>6
  <2>8. Answering(DiskAfter(flaws, d, what), ScreenAfter(flaws, d, x, what),
                  ActionAfter(flaws, d, what))'
    BY <2>5, <2>7
  <2> QED
    BY <1>3, <2>8
<1>5. CASE /\ Disk(d) /\ OnScreen(x) /\ Told /\ side.seq = bench.seq
           /\ input = <<TouchOn(what)>>
  <2>1. /\ hook = "sidecar" /\ page = "launcher" /\ player # "booting" /\ session.crash = FALSE
        /\ side.todo = "poll"
    BY <1>5 DEF OnScreen, Asked, Seated, Told
  <2>2. CASE OnlyPlayer
    <3>1. OnScreen(x)' /\ Told'
      <4>1. SidecarFrame' = SidecarFrame
        BY <2>2, SidecarFrameStays DEF OnlyPlayer
      <4> QED
        BY <1>5, <2>2, <4>1 DEF OnlyPlayer, OnScreen, Told
    <3>2. Disk(d)'
      BY <1>5, <2>2, DiskStays DEF OnlyPlayer
    <3> QED
      BY <1>2, <1>5, <2>2, <3>1, <3>2 DEF Asked, OnlyPlayer
  <2>3. CASE SidecarTakesTouch
    <3>1. TouchTakes(d, x, what)
      BY <1>1, <1>2, <1>5, <2>3 DEF TouchTakes, Asked
    <3>2. what = "ssh" \/ what \in PageRows \/ what = "home" \/ what \in TileRows
          \/ what = "cfw" \/ what = "drag"
      <4> HIDE DEF PageRows, TileRows
      <4> QED
        BY <1>2 DEF Answers
    <3>3. PICK fl : fl = flaws
      OBVIOUS
    <3>4. Answering(DiskAfter(fl, d, what), ScreenAfter(fl, d, x, what),
                    ActionAfter(fl, d, what))'
      BY <3>1, <3>2, <3>3, SshTaken, PageTaken, HomeTaken, TileTaken, CfwTaken, DragTaken
    <3>5. fl = flaws'
      BY <1>1, <3>3
    <3>6. Answering(DiskAfter(flaws, d, what), ScreenAfter(flaws, d, x, what),
                    ActionAfter(flaws, d, what))'
      BY <3>4, <3>5
    <3> QED
      BY <1>3, <3>6
  <2> QED
    BY <2>1, <2>2, <2>3, SidecarMoves
<1> QED
  BY <1>4, <1>5 DEF Asked

-------------------------------------------------------------------------------
\* Leaving the sidecar.
LEMMA PartingGuest ==
  ASSUME NEW d, Parting(d), GuestMoves, Rest
  PROVE  Parting(d)'
<1>1. UNCHANGED <<flaws, bench, session>> /\ \A p : Drawn(p)' = Drawn(p)
  BY GuestFlaws, GuestSession, SameFrames DEF GuestMoves
<1>2. Ready \/ PlayerExits \/ RestoreFrame \/ ReleaseTouch
  BY DEF GuestMoves, GuestNext, GuestStep, Splash, DrawLauncher, PlayerTakesTouch, TouchIsLost,
     SidecarDraws, SidecarPublishes, SidecarTakesTouch, SidecarEnds, SidecarAborts, StockRoute,
     Parting, AtRest
<1>3. UNCHANGED <<store, page>> /\ input' = <<>>
  BY <1>2 DEF Ready, PlayerExits, RestoreFrame, ReleaseTouch, Parting
<1>4. Disk(d)' /\ page' = "launcher"
  BY <1>3, DiskStays DEF Parting
<1>5. CASE Ready \/ PlayerExits
  BY <1>1, <1>3, <1>4, <1>5 DEF Ready, PlayerExits, Parting, AtRest
<1>6. CASE RestoreFrame
  <2>1. side.route = "back" /\ hook' = "restored" /\ UNCHANGED side
    BY <1>6 DEF RestoreFrame, Parting, AtRest
  <2>2. shown' = Drawn("launcher")'
    BY <1>1, <1>6, RestMeans DEF RestoreFrame, Parting
  <2> QED
    BY <1>3, <1>4, <2>1, <2>2 DEF Parting, AtRest
<1>7. CASE ReleaseTouch
  <2>1. hook = "restored" /\ UNCHANGED shown
    BY <1>7 DEF ReleaseTouch
  <2>2. hook' = "idle"
    BY <1>7, <2>1 DEF ReleaseTouch, Parting, AtRest
  <2> QED
    BY <1>1, <1>3, <1>4, <2>1, <2>2 DEF Parting, AtRest
<1> QED
  BY <1>2, <1>5, <1>6, <1>7

\* of a sidecar that has been left,
LEMMA LeftGuest ==
  ASSUME NEW d, Left(d), GuestMoves, Rest
  PROVE  Left(d)'
<1>1. UNCHANGED <<flaws, bench, session>>
  BY GuestFlaws, GuestSession DEF GuestMoves
<1> QED
  BY <1>1, PartingGuest, SeatedStays DEF Left, BaseIsPlayers

\* and of one that is being left.
LEMMA LeavingGuest ==
  ASSUME GuestType, Rest, NEW d, Leaving(d), GuestMoves
  PROVE  Leaving(d)'
<1>1. UNCHANGED <<flaws, bench, session>>
  BY GuestFlaws, GuestSession DEF GuestMoves
<1>2. Seated(d)' /\ BaseIsPlayers' /\ bench'.seq \in Nat /\ session.crash = FALSE
  BY <1>1, SeatedStays DEF Leaving, BaseIsPlayers, Seated
<1> DEFINE Asks == /\ Disk(d) /\ OnScreen(Screen("main", NoMask, FALSE)) /\ Told
                 /\ side.seq = bench.seq /\ input = <<Tapped(BackTouch)>>
           Ends == /\ Disk(d) /\ page = "launcher" /\ hook = "sidecar" /\ side.route = "back"
                 /\ input = <<>> /\ shown.is = "cfw" /\ cfwState.seq = bench.seq
                 /\ IF "back_dead" \in flaws THEN side.todo = "poll" ELSE side.todo = "leave"
<1>3. ASSUME Asks
      PROVE  Leaving(d)'
  <2>1. /\ hook = "sidecar" /\ page = "launcher" /\ player # "booting" /\ side.todo = "poll"
        /\ side.screen = "main" /\ side.route = "back"
    BY <1>3 DEF OnScreen, Told, Screen
  <2>2. CASE OnlyPlayer
    <3>1. SidecarFrame' = SidecarFrame
      BY <2>2, SidecarFrameStays DEF OnlyPlayer
    <3>2. OnScreen(Screen("main", NoMask, FALSE))' /\ Told' /\ Disk(d)'
      BY <1>3, <2>2, <3>1, DiskStays DEF OnlyPlayer, OnScreen, Told
    <3> QED
      BY <1>2, <1>3, <2>2, <3>2 DEF Leaving, OnlyPlayer
  <2>3. CASE SidecarTakesTouch
    <3>1. /\ Tapped(BackTouch).drag = FALSE /\ Tapped(BackTouch).at = BackTouch
      BY DEF Tapped
    <3>2. /\ side' = Back /\ UNCHANGED store /\ input' = <<>>
          /\ UNCHANGED <<player, page, shown, hook, cfwState>>
      BY <1>2, <1>3, <2>3, <3>1, TouchTaken DEF Leaving
    <3>3. shown.is = "cfw" /\ cfwState.seq = bench.seq
      <4>1. SidecarFrame.is = "cfw"
        BY DEF SidecarFrame, Frame
      <4> QED
        BY <1>3, <4>1 DEF Told
    <3>4. "back_dead" \in flaws => side' = side
      BY <2>1, <3>2 DEF Back
    <3>5. "back_dead" \notin flaws => side'.todo = "leave" /\ side'.route = "back"
      <4>1. ASSUME IsSide(side), "back_dead" \notin flaws
            PROVE  side'.todo = "leave" /\ side'.route = "back"
        BY <2>1, <3>2, <4>1 DEF Back, Leave, IsSide, SideFields
      <4> QED
        BY <4>1 DEF GuestType
    <3>6. Disk(d)'
      BY <1>3, <3>2, DiskStays
    <3> QED
      BY <1>1, <1>2, <2>1, <3>2, <3>3, <3>4, <3>5, <3>6 DEF Leaving
  <2> QED
    BY <1>2, <2>1, <2>2, <2>3, SidecarMoves
<1>4. ASSUME Ends
      PROVE  Leaving(d)'
  <2>1. \/ UNCHANGED <<store, page, shown, hook, side, input, cfwState>>
        \/ SidecarEnds
    BY <1>2, <1>4 DEF GuestMoves, GuestNext, GuestStep, Splash, Ready, DrawLauncher, PlayerTakesTouch,
       TouchIsLost, PlayerExits, SidecarDraws, SidecarPublishes, SidecarTakesTouch, SidecarAborts,
       RestoreFrame, ReleaseTouch, StockRoute
  <2>2. CASE UNCHANGED <<store, page, shown, hook, side, input, cfwState>>
    BY <1>1, <1>2, <1>4, <2>2, DiskStays DEF Leaving
  <2>3. CASE SidecarEnds
    <3>1. "back_dead" \notin flaws /\ hook' = "ended"
          /\ UNCHANGED <<page, shown, side, input>>
      BY <1>4, <2>3 DEF SidecarEnds
    <3>2. \A fl : fl = flaws => Disk(Parted(fl, d))'
      <4>1. session.runtime = d.runtime /\ d.runtime \in Runtimes /\ store \in [Runtimes -> Confs]
            /\ store[d.runtime] = [mask |-> store[d.runtime].mask, ssh |-> store[d.runtime].ssh]
            /\ (d.saved # NoMask => store[d.runtime].mask = d.saved)
            /\ (d.ssh # "any" => store[d.runtime].ssh = d.ssh)
        BY <1>4, ConfHas DEF Leaving, GuestType
      <4>2. CASE "ssh_forgotten" \in flaws
        <5>1. store' = [store EXCEPT ![session.runtime].ssh = "disabled"]
          BY <2>3, <4>2 DEF SidecarEnds
        <5>2. store'[d.runtime].ssh = "disabled" /\ store'[d.runtime].mask = store[d.runtime].mask
          BY <4>1, <5>1
        <5> QED
          BY <4>1, <4>2, <5>2 DEF Disk, Parted, PartedSsh, Known
      <4>3. CASE "ssh_forgotten" \notin flaws
        <5>1. UNCHANGED store
          BY <2>3, <4>3 DEF SidecarEnds
        <5> QED
          BY <4>1, <4>3, <5>1 DEF Disk, Parted, PartedSsh, Known
      <4> QED
        BY <4>2, <4>3
    <3>3. ASSUME NEW fl, fl = flaws
          PROVE  Parting(Parted(fl, d))'
      BY <1>4, <3>1, <3>2, <3>3 DEF Parting
    <3>4. Parting(Parted(flaws, d))'
      <4>1. PICK fl : fl = flaws
        OBVIOUS
      <4>2. fl = flaws'
        BY <1>1, <4>1
      <4>3. Parting(Parted(fl, d))'
        BY <3>3, <4>1
      <4> QED
        BY <4>2, <4>3
    <3> QED
      BY <1>1, <1>2, <3>1, <3>4 DEF Leaving
  <2> QED
    BY <2>1, <2>2, <2>3
<1>5. ASSUME "back_dead" \notin flaws, Parting(Parted(flaws, d))
      PROVE  Leaving(d)'
  <2>1. PICK e : e = Parted(flaws, d)
    OBVIOUS
  <2>2. Parting(e)'
    BY <1>5, <2>1, PartingGuest
  <2>3. e = Parted(flaws', d)
    BY <1>1, <2>1
  <2>4. Parting(Parted(flaws, d))'
    BY <2>2, <2>3
  <2> QED
    BY <1>1, <1>2, <1>5, <2>4 DEF Leaving
<1> QED
  BY <1>3, <1>4, <1>5 DEF Leaving

-------------------------------------------------------------------------------
\* What the program counts on holds while the guest goes on.
LEMMA BeforeGuest ==
  ASSUME GuestType, Before, GuestMoves
  PROVE  Before'
<1>1. UNCHANGED <<flaws, session>>
  BY GuestFlaws, GuestSession DEF GuestMoves
<1>2. store'[Present] = store[Present]
  BY Directories, GuestWrites DEF Before, Present, GuestMoves
<1> QED
  BY <1>1, <1>2 DEF Before

\* The guest's own steps keep every expectation.
LEMMA MeetsGuest ==
  ASSUME GuestType, Rest, NEW e, Meets(e), GuestMoves
  PROVE  Meets(e)'
<1>1. UNCHANGED <<flaws, bench, session>>
  BY GuestFlaws, GuestSession DEF GuestMoves
<1>2. Keeps("last", e.last)' /\ Keeps("present", e.present)' /\ Keeps("settings", e.settings)'
  BY <1>1 DEF Meets, Keeps
<1>3. /\ Seen(e.d) => Seen(e.d)'
      /\ Returned(e.d) => Returned(e.d)'
      /\ Captured(e.d) => Captured(e.d)'
      /\ Again(e.d) => Again(e.d)'
      /\ AgainSeen(e.d) => AgainSeen(e.d)'
      /\ Booting(e.d) => Booting(e.d)'
  BY BootedGuest, BootingGuest
<1>4. /\ Sent(e.d, e.touched) => Sent(e.d, e.touched)'
      /\ Away(e.d, e.touched) => Away(e.d, e.touched)'
      /\ Returning(e.d, e.touched) => Returning(e.d, e.touched)'
  BY SentGuest, AwayGuest, ReturningGuest
<1>5. /\ Home(e.d) => Home(e.d)'
      /\ Based(e.d) => Based(e.d)'
      /\ Cleared(e.d) => Cleared(e.d)'
      /\ Opening(e.d, e.touched) => Opening(e.d, e.touched)'
      /\ Quiet(e.d, e.x) => Quiet(e.d, e.x)'
  BY HomeGuest, BasedGuest, OpensGuest, QuietGuest
<1>6. /\ Asked(e.d, e.x, e.touched) => Asked(e.d, e.x, e.touched)'
      /\ Leaving(e.d) => Leaving(e.d)'
      /\ Left(e.d) => Left(e.d)'
  BY AskedGuest, LeavingGuest, LeftGuest
<1>7. Before => Before'
  BY BeforeGuest
<1>8. Top(0) => Top(0)'
  BY <1>1 DEF Top, TopAt
<1>9. /\ e.at = "seen" => Seen(e.d)'
      /\ e.at = "returned" => Returned(e.d)'
      /\ e.at = "captured" => Captured(e.d)'
      /\ e.at = "again" => Again(e.d)'
      /\ e.at = "again_seen" => AgainSeen(e.d)'
      /\ e.at = "booting" => Booting(e.d)'
  BY <1>3 DEF Meets, InPlace
<1>10. /\ e.at = "sent" => Sent(e.d, e.touched)'
       /\ e.at = "away" => Away(e.d, e.touched)'
       /\ e.at = "returning" => Returning(e.d, e.touched)'
  BY <1>4 DEF Meets, InPlace
<1>11. /\ e.at = "home" => Home(e.d)'
       /\ e.at = "based" => Based(e.d)'
       /\ e.at = "cleared" => Cleared(e.d)'
       /\ e.at = "opening" => Opening(e.d, e.touched)'
       /\ e.at = "quiet" => Quiet(e.d, e.x)'
  BY <1>5 DEF Meets, InPlace
<1>12. /\ e.at = "asked" => Asked(e.d, e.x, e.touched)'
       /\ e.at = "leaving" => Leaving(e.d)'
       /\ e.at = "left" => Left(e.d)'
  BY <1>6 DEF Meets, InPlace
<1>13. /\ e.at = "before" => Before'
       /\ e.at = "topped" => Top(0)'
  BY <1>7, <1>8, Zenon DEF Meets, InPlace
<1> QED
  BY <1>2, <1>9, <1>10, <1>11, <1>12, <1>13, Zenon DEF Meets, InPlace

\* What holds goes on holding while nothing that it is about changes.
LEMMA StillHolds ==
  ASSUME UNCHANGED guestVars, bench'.frames = bench.frames, bench'.seq = bench.seq, NEW e, Meets(e)
  PROVE  Meets(e)'
<1>1. UNCHANGED <<store, session, player, page, shown, hook, side, input, cfwState, flaws>>
  BY DEF guestVars
<1>2. /\ \A p : Drawn(p)' = Drawn(p)
      /\ \A point : Opens("launcher", point)' = Opens("launcher", point)
      /\ SidecarFrame' = SidecarFrame
  BY <1>1 DEF Drawn, Opens, SidecarFrame, Conf
<1>3. /\ Seated(e.d)' = Seated(e.d) /\ Disk(e.d)' = Disk(e.d) /\ Stands(e.d)' = Stands(e.d)
      /\ Booting(e.d)' = Booting(e.d) /\ OnLauncher' = OnLauncher /\ OnSplash' = OnSplash
  BY <1>1, <1>2 DEF Seated, Disk, Stands, Booting, OnLauncher, OnSplash
<1>4. /\ Keeps("last", e.last)' /\ Keeps("present", e.present)' /\ Keeps("settings", e.settings)'
  BY DEF Meets, Keeps
<1>5. /\ Seen(e.d) => Seen(e.d)'
      /\ Returned(e.d) => Returned(e.d)'
      /\ Captured(e.d) => Captured(e.d)'
      /\ Again(e.d) => Again(e.d)'
      /\ AgainSeen(e.d) => AgainSeen(e.d)'
      /\ Top(0) => Top(0)'
      /\ Before => Before'
  BY <1>1, <1>2, <1>3 DEF Seen, Returned, Captured, Again, AgainSeen, Top, TopAt, Before
<1>6. Entered' = Entered /\ NotSplash' = NotSplash
  BY <1>1, <1>2 DEF Entered, NotSplash
<1>7. /\ Sent(e.d, e.touched) => Sent(e.d, e.touched)'
      /\ Away(e.d, e.touched) => Away(e.d, e.touched)'
      /\ Returning(e.d, e.touched) => Returning(e.d, e.touched)'
  BY <1>1, <1>2, <1>3, <1>6 DEF Sent, Away, Returning
<1>8. /\ AtHome' = AtHome /\ AtRest' = AtRest /\ BaseIsPlayers' = BaseIsPlayers /\ Told' = Told
      /\ \A x : OnScreen(x)' = OnScreen(x)
  BY <1>1, <1>2 DEF AtHome, AtRest, BaseIsPlayers, Told, OnScreen
<1>9. /\ Home(e.d) => Home(e.d)'
      /\ Based(e.d) => Based(e.d)'
      /\ Cleared(e.d) => Cleared(e.d)'
      /\ Opening(e.d, e.touched) => Opening(e.d, e.touched)'
      /\ Quiet(e.d, e.x) => Quiet(e.d, e.x)'
  BY <1>1, <1>2, <1>3, <1>8 DEF Home, Based, Cleared, Opening, Quiet
<1>10. \A d1, x1, a : Answering(d1, x1, a) => Answering(d1, x1, a)'
  BY <1>1, <1>2, <1>8 DEF Answering, Disk
<1>11. Asked(e.d, e.x, e.touched) => Asked(e.d, e.x, e.touched)'
  <2>1. PICK fl : fl = flaws
    OBVIOUS
  <2>2. fl = flaws'
    BY <1>1, <2>1
  <2>3. Answering(DiskAfter(flaws, e.d, e.touched), ScreenAfter(flaws, e.d, e.x, e.touched),
                  ActionAfter(flaws, e.d, e.touched))
          => Answering(DiskAfter(fl, e.d, e.touched), ScreenAfter(fl, e.d, e.x, e.touched),
                       ActionAfter(fl, e.d, e.touched))'
    BY <1>10, <2>1
  <2>4. Answering(DiskAfter(flaws, e.d, e.touched), ScreenAfter(flaws, e.d, e.x, e.touched),
                  ActionAfter(flaws, e.d, e.touched))
          => Answering(DiskAfter(flaws, e.d, e.touched), ScreenAfter(flaws, e.d, e.x, e.touched),
                       ActionAfter(flaws, e.d, e.touched))'
    BY <2>2, <2>3
  <2> QED
    BY <1>1, <1>3, <1>8, <2>4 DEF Asked
<1>12. \A d1 : Parting(d1) => Parting(d1)'
  BY <1>1, <1>2, <1>8 DEF Parting, Disk
<1>13. Leaving(e.d) => Leaving(e.d)'
  <2>1. PICK fl : fl = flaws
    OBVIOUS
  <2>2. fl = flaws'
    BY <1>1, <2>1
  <2>3. Parting(Parted(flaws, e.d)) => Parting(Parted(fl, e.d))'
    BY <1>12, <2>1
  <2>4. Parting(Parted(flaws, e.d)) => Parting(Parted(flaws, e.d))'
    BY <2>2, <2>3
  <2> QED
    BY <1>1, <1>2, <1>3, <1>8, <2>4 DEF Leaving
<1>14. Left(e.d) => Left(e.d)'
  BY <1>3, <1>8, <1>12 DEF Left
<1>15. /\ e.at = "booting" => Booting(e.d)'
  BY <1>3 DEF Meets, InPlace
<1>16. /\ e.at = "seen" => Seen(e.d)'
       /\ e.at = "returned" => Returned(e.d)'
       /\ e.at = "captured" => Captured(e.d)'
       /\ e.at = "again" => Again(e.d)'
       /\ e.at = "again_seen" => AgainSeen(e.d)'
  BY <1>5 DEF Meets, InPlace
<1>17. /\ e.at = "sent" => Sent(e.d, e.touched)'
       /\ e.at = "away" => Away(e.d, e.touched)'
       /\ e.at = "returning" => Returning(e.d, e.touched)'
  BY <1>7 DEF Meets, InPlace
<1>18. /\ e.at = "home" => Home(e.d)'
       /\ e.at = "based" => Based(e.d)'
       /\ e.at = "cleared" => Cleared(e.d)'
       /\ e.at = "opening" => Opening(e.d, e.touched)'
       /\ e.at = "quiet" => Quiet(e.d, e.x)'
  BY <1>9 DEF Meets, InPlace
<1>19. /\ e.at = "asked" => Asked(e.d, e.x, e.touched)'
       /\ e.at = "leaving" => Leaving(e.d)'
       /\ e.at = "left" => Left(e.d)'
  BY <1>11, <1>13, <1>14 DEF Meets, InPlace
<1>20. /\ e.at = "before" => Before'
       /\ e.at = "topped" => Top(0)'
  BY <1>5, Zenon DEF Meets, InPlace
<1> QED
  BY <1>4, <1>15, <1>16, <1>17, <1>18, <1>19, <1>20, Zenon DEF Meets, InPlace

-------------------------------------------------------------------------------
(***************************************************************************)
(* What a step of the program makes of an expectation.                     *)
(***************************************************************************)
\* The program does step s and goes on.
Done(s) == Does /\ Step = s /\ pc' = pc + 1 /\ Typed /\ Rest

\* The steps that do nothing to the guest.
Watching == {"ready", "stable", "change", "hash", "semantic", "read", "capture",
             "save", "keep", "record", "promote", "ssh"} \cup Comparisons

\* What every step of the harness may rely on.
LEMMA DoneTyped ==
  ASSUME NEW s, Done(s)
  PROVE  /\ s \in Steps /\ s.op \in Watching \cup {"start", "stop", "clear", "touch", "control"}
         /\ pc' # pc /\ BenchType /\ GuestType /\ EvidenceInv
<1>1. EvidenceInv /\ GuestType /\ BenchType
  BY DEF Done, Typed, EvidenceInv
<1>2. pc <= Len(Script)
  BY DEF Done, Does, StartSession, StopSession, WaitPlayerReady,
     WaitStableFrame, WaitFrame, WaitForRecord, ReadRecord, ClearRecord, CaptureFrame,
     InjectTouch, KeepEvidence, CompareStep, RunController, RunSshAuthentication, AtStep
<1>3. s \in Steps
  BY <1>1, <1>2, ScriptType DEF Done, EvidenceInv, Step
<1>4. s.op \in Watching \cup {"start", "stop", "clear", "touch", "control"}
  BY <1>3 DEF Steps, Watching, Comparisons
<1>5. pc' # pc
  BY <1>1, ScriptType DEF Done, EvidenceInv
<1> QED
  BY <1>1, <1>3, <1>4, <1>5

\* A step that only watches leaves the guest alone.
LEMMA DoneWatching ==
  ASSUME NEW s, Done(s), s.op \in Watching
  PROVE  UNCHANGED guestVars
<1>1. ~StartSession /\ ~StopSession /\ ~ClearRecord /\ ~InjectTouch /\ ~RunController
  BY DEF Done, Watching, Comparisons, StartSession, StopSession, ClearRecord, InjectTouch,
     RunController, AtStep
<1> QED
  BY <1>1 DEF Done, Does, WaitPlayerReady, WaitStableFrame, WaitFrame, WaitForRecord, ReadRecord,
     CaptureFrame, KeepEvidence, CompareStep, RunSshAuthentication, Hold

\* The frames it holds.
LEMMA BenchFrames ==
  ASSUME BenchType, NEW name \in Holding, NEW frame, NEW n
  PROVE  /\ [bench EXCEPT !.frames[name] = frame].frames[name] = frame
         /\ [bench EXCEPT !.frames[name] = frame].seq = bench.seq
         /\ \A other \in Holding \ {name} :
              [bench EXCEPT !.frames[name] = frame].frames[other] = bench.frames[other]
         /\ [bench EXCEPT !.sample = n, !.frames[name] = frame].frames[name] = frame
         /\ [bench EXCEPT !.sample = n, !.frames[name] = frame].seq = bench.seq
         /\ \A other \in Holding \ {name} :
              [bench EXCEPT !.sample = n, !.frames[name] = frame].frames[other]
                = bench.frames[other]
         /\ [bench EXCEPT !.seq = n].frames = bench.frames /\ [bench EXCEPT !.seq = n].seq = n
BY DEF BenchType

\* Most steps leave the frames alone.
LEMMA SameBench ==
  ASSUME NEW s, Done(s),
         s.op \notin {"stable", "capture", "change", "hash", "keep", "semantic", "read", "stop"}
  PROVE  bench'.frames = bench.frames /\ bench'.seq = bench.seq
<1>0. BenchType /\ s \in Steps /\ pc' # pc /\ s = Step
  BY DoneTyped DEF Done
<1>1. ~WaitStableFrame /\ ~CaptureFrame /\ ~WaitFrame /\ ~WaitForRecord /\ ~ReadRecord
      /\ ~StopSession
  BY <1>0 DEF WaitStableFrame, CaptureFrame, WaitFrame, WaitForRecord, ReadRecord,
     StopSession, AtStep
<1>2. CASE UNCHANGED bench
  BY <1>2
<1>3. CASE KeepEvidence
  <2>1. PICK shots, checks, promoted :
          bench' \in {[bench EXCEPT !.shots = shots], [bench EXCEPT !.checks = checks],
                      [bench EXCEPT !.promoted = promoted]}
    BY <1>0, <1>3, Zenon DEF KeepEvidence, Hold, AtStep
  <2> QED
    BY <1>0, <2>1 DEF BenchType
<1> QED
  BY <1>1, <1>2, <1>3 DEF Done, Does, StartSession, WaitPlayerReady, ClearRecord, InjectTouch,
     CompareStep, RunController, RunSshAuthentication, Hold

\* Which frames a step of the harness holds afterwards.
LEMMA DoneFrames ==
  ASSUME NEW s, Done(s)
  PROVE  /\ \A name \in Holding : ~Writes(s, name) => bench'.frames[name] = bench.frames[name]
         /\ s.op \in {"stable", "capture"} =>
              s.into \in Holding /\ bench'.frames[s.into] = shown
         /\ s.op \in {"change", "hash"} => bench'.frames["last"] = shown
         /\ s.op = "keep" => /\ s.into \in Holding /\ s.of \in Holding
                             /\ bench'.frames[s.into] = bench.frames[s.of]
         /\ s.op = "stop" => bench'.frames["top"] = bench.frames["top"]
         /\ s.op \notin {"semantic", "read", "stop"} => bench'.seq = bench.seq
         /\ s.op \in {"semantic", "read"} => bench'.seq = cfwState.seq
<1>0. BenchType /\ s \in Steps /\ pc' # pc /\ s = Step
  BY DoneTyped DEF Done
<1>1. CASE s.op \in {"stable"}
  <2>1. s.into \in Holding
    BY <1>0, <1>1 DEF Steps
  <2>2. bench' = [bench EXCEPT !.sample = NoSample, !.frames[s.into] = shown]
    BY <1>0, <1>1, Kinds DEF Done, WaitStableFrame, Hold
  <2> QED
    BY <1>0, <1>1, <2>1, <2>2, BenchFrames DEF Writes
<1>2. CASE s.op \in {"capture"}
  <2>1. s.into \in Holding
    BY <1>0, <1>2 DEF Steps
  <2>2. bench' = [bench EXCEPT !.frames[s.into] = shown]
    BY <1>0, <1>2, Kinds DEF Done, CaptureFrame, Hold
  <2> QED
    BY <1>0, <1>2, <2>1, <2>2, BenchFrames DEF Writes
<1>3. CASE s.op \in {"change", "hash"}
  <2>1. bench' = [bench EXCEPT !.frames["last"] = shown]
    BY <1>0, <1>3, Kinds DEF Done, WaitFrame, Hold
  <2> QED
    BY <1>0, <1>3, <2>1, Held, BenchFrames DEF Writes
<1>4. CASE s.op = "keep"
  <2>1. s.into \in Holding /\ s.of \in Holding
    BY <1>0, <1>4 DEF Steps
  <2>2. bench' = [bench EXCEPT !.frames[s.into] = bench.frames[s.of]]
    BY <1>0, <1>4, Kinds DEF Done, KeepEvidence, Hold, AtStep
  <2> QED
    BY <1>0, <1>4, <2>1, <2>2, BenchFrames DEF Writes
<1>5. CASE s.op \in {"semantic", "read"}
  <2>1. bench' = [bench EXCEPT !.seq = cfwState.seq]
    BY <1>0, <1>5 DEF Done, Does, WaitForRecord, ReadRecord, Hold, AtStep, StartSession, StopSession,
       WaitPlayerReady, WaitStableFrame, WaitFrame, ClearRecord, CaptureFrame, InjectTouch,
       KeepEvidence, CompareStep, Comparisons, RunController, RunSshAuthentication
  <2> QED
    BY <1>0, <1>5, <2>1, BenchFrames DEF Writes
<1>6. CASE s.op = "stop"
  <2>1. bench' = [bench EXCEPT !.seq = 0,
          !.frames = [name \in Holding |-> IF name \in {"present", "top"} THEN @[name] ELSE Blank]]
    BY <1>0, <1>6, Kinds DEF Done, StopSession
  <2>2. \A name \in Holding :
          bench'.frames[name] = IF name \in {"present", "top"} THEN bench.frames[name] ELSE Blank
    BY <1>0, <2>1 DEF BenchType
  <2> QED
    BY <1>6, <2>2, Held DEF Writes
<1>7. CASE s.op \notin {"stable", "capture", "change", "hash", "keep", "semantic", "read", "stop"}
  BY <1>0, <1>7, SameBench DEF Writes
<1> QED
  BY <1>1, <1>2, <1>3, <1>4, <1>5, <1>6, <1>7

\* Before the candidate's directory is used.
LEMMA DoesBefore ==
  ASSUME NEW s, Done(s), Before, s.op = "start" => s.runtime = "stock" /\ s.cfw = FALSE
  PROVE  Before'
<1>0. GuestType /\ s \in Steps /\ s = Step
  BY DoneTyped DEF Done
<1>1. UNCHANGED flaws
  BY DEF Done, Does, StartSession, Launches, StopSession, Stopped, WaitPlayerReady,
     WaitStableFrame, WaitFrame, WaitForRecord, ReadRecord, ClearRecord, CaptureFrame,
     InjectTouch, KeepEvidence, CompareStep, RunController, RunSshAuthentication, Hold, guestVars
<1>2. CASE s.op = "start"
  <2>1. UNCHANGED store /\ session'.runtime = "stock"
    BY <1>0, <1>2, Kinds DEF Done, StartSession, Launches
  <2> QED
    BY <1>1, <2>1 DEF Before, Present
<1>3. CASE s.op = "stop"
  <2>1. UNCHANGED store /\ session'.runtime = ""
    BY <1>0, <1>3, Kinds DEF Done, StopSession, Stopped, GuestType, IsSession, SessionFields
  <2> QED
    BY <1>1, <2>1 DEF Before, Present
<1>4. CASE s.op = "control"
  <2>1. UNCHANGED session /\ store'[Present] = store[Present]
    BY <1>0, <1>4, Kinds, Directories DEF Done, RunController, GuestType, Present
  <2> QED
    BY <1>1, <2>1 DEF Before
<1>5. CASE s.op \notin {"start", "stop", "control"}
  <2>1. UNCHANGED <<store, session>>
    BY <1>0, <1>5 DEF Done, Does, StartSession, StopSession, WaitPlayerReady,
       WaitStableFrame, WaitFrame, WaitForRecord, ReadRecord, ClearRecord, CaptureFrame,
       InjectTouch, KeepEvidence, CompareStep, RunController, RunSshAuthentication, Hold,
       guestVars, AtStep
  <2> QED
    BY <1>1, <2>1 DEF Before
<1> QED
  BY <1>2, <1>3, <1>4, <1>5

\* A session starts.
LEMMA DoesStart ==
  ASSUME NEW s, Done(s), s.op = "start", s.cfw = TRUE, s.crash = FALSE
  PROVE  /\ Booting(Known(s.runtime, s.sd, NoMask, NoMask, "any"))'
         /\ Before /\ s.runtime = Present => \A fl : fl = flaws =>
              Booting(Known(s.runtime, s.sd, NoMask, NoMask, FreshSsh(fl)))'
         /\ session'.boot = session.boot + 1 /\ UNCHANGED <<flaws, bench>>
<1>0. GuestType /\ EvidenceInv /\ s = Step /\ StartSession /\ AtStep({"start"})
  BY DoneTyped, Kinds DEF Done, StartSession
<1>1. s.runtime \in Booted /\ Booted \subseteq Runtimes
  BY <1>0, StartSteps, Directories DEF Booted
<1>2. PICK mask : mask = SelectConfig(IF "mask_forgotten" \in flaws THEN NoMask
                                      ELSE store[s.runtime].mask)
  OBVIOUS
<1>3. /\ session' = [runtime |-> s.runtime, cfw |-> TRUE, sd |-> s.sd, crash |-> FALSE,
                     mask |-> IF "layout_not_applied" \in flaws THEN DefaultMask ELSE mask,
                     boot |-> session.boot + 1]
      /\ store' = [store EXCEPT ![s.runtime].mask = mask]
      /\ player' = "booting" /\ page' = "splash" /\ shown' = Blank
      /\ hook' = "idle" /\ side' = NoSide /\ input' = <<>> /\ cfwState' = NoState
      /\ UNCHANGED <<flaws, bench>>
  BY <1>0, <1>2 DEF StartSession, Launches
<1>4. store'[s.runtime].mask = mask /\ store'[s.runtime].ssh = store[s.runtime].ssh
  BY <1>0, <1>1, <1>3 DEF GuestType, Confs
<1>5. ASSUME NEW ssh, ssh # "any" => store[s.runtime].ssh = ssh
      PROVE  Booting(Known(s.runtime, s.sd, NoMask, NoMask, ssh))'
  BY <1>1, <1>3, <1>4, <1>5 DEF Booting, Stands, Seated, Disk, Known, Laid
<1>6. Booting(Known(s.runtime, s.sd, NoMask, NoMask, "any"))'
  BY <1>5
<1>7. ASSUME Before, s.runtime = Present, NEW fl, fl = flaws
      PROVE  Booting(Known(s.runtime, s.sd, NoMask, NoMask, FreshSsh(fl)))'
  BY <1>5, <1>7 DEF Before
<1>8. session'.boot = session.boot + 1
  BY <1>3
<1> QED
  BY <1>3, <1>6, <1>7, <1>8

\* The launcher, or the splash screen, is looked at.
LEMMA DoesSee ==
  ASSUME NEW s, NEW d, Done(s), s.op = "stable", s.into = "launcher", Booting(d)
  PROVE  Seen(d)' /\ (Top(1) => AgainSeen(d)')
<1>1. UNCHANGED guestVars
  BY DoneWatching DEF Watching
<1>2. UNCHANGED <<store, session, player, page, shown, hook, side, input, cfwState, flaws>>
  BY <1>1 DEF guestVars
<1>3. \A p : Drawn(p)' = Drawn(p)
  BY <1>2, SameFrames
<1>4. shown # Blank
  BY DoneTyped, Kinds DEF Done, WaitStableFrame
<1>5. bench'.frames["launcher"] = shown /\ bench'.frames["top"] = bench.frames["top"]
  BY DoneFrames, Held DEF Writes
<1>6. Booting(d)'
  BY <1>2, <1>3 DEF Booting, Stands, Seated, Disk
<1>7. Seen(d)'
  BY <1>2, <1>3, <1>4, <1>5, <1>6 DEF Seen, OnLauncher, OnSplash, Booting
<1>8. ASSUME Top(1)
      PROVE  AgainSeen(d)'
  <2>1. Again(d)'
    BY <1>2, <1>5, <1>6, <1>8 DEF Again, Top, TopAt
  <2>2. shown.is = "launcher" => shown.name = TopAt(0)
    <3>1. Drawn("splash").is # "launcher" /\ Blank.is # "launcher"
      BY DEF Drawn, Frame, Blank
    <3>2. Drawn("launcher").name = TopAt(0)
      BY DEF Drawn, Frame, TopAt
    <3> QED
      BY <3>1, <3>2 DEF Booting
  <2>3. TopAt(0)' = TopAt(0)
    BY <1>2 DEF TopAt
  <2> QED
    BY <1>5, <2>1, <2>2, <2>3 DEF AgainSeen
<1> QED
  BY <1>7, <1>8

\* Its configuration is read.
LEMMA DoesConfig ==
  ASSUME NEW s, NEW d, Done(s), s.op = "config", Seated(d), Disk(d)
  PROVE  /\ store[d.runtime].mask = s.mask /\ (d.saved # NoMask => d.saved = s.mask)
         /\ UNCHANGED guestVars
         /\ s.mask # NoMask /\ Seen(d) => \A fl : fl = flaws =>
              Seen(Known(d.runtime, d.sd, Laid(fl, s.mask), s.mask, d.ssh))'
<1>1. UNCHANGED guestVars
  BY DoneWatching DEF Watching, Comparisons
<1>2. Agrees
  BY DoneTyped, Kinds DEF Done, CompareStep, Comparisons
<1>3. store[d.runtime].mask = s.mask
  BY <1>2 DEF Agrees, Done, Seated
<1>4. ASSUME s.mask # NoMask, Seen(d), NEW fl, fl = flaws
      PROVE  Seen(Known(d.runtime, d.sd, Laid(fl, s.mask), s.mask, d.ssh))'
  <2>1. PICK e : e = Known(d.runtime, d.sd, Laid(fl, s.mask), s.mask, d.ssh)
    OBVIOUS
  <2>2. /\ e.runtime = d.runtime /\ e.sd = d.sd /\ e.mask = Laid(flaws, s.mask)
        /\ e.saved = s.mask /\ e.ssh = d.ssh
    BY <1>4, <2>1 DEF Known
  <2>3. Seated(e) /\ Disk(e)
    BY <1>3, <2>2 DEF Seated, Disk
  <2>4. Stands(e)
    BY <1>3, <1>4, <2>2, <2>3 DEF Stands, Seen, Booting, Seated
  <2>5. Seen(e)
    BY <1>4, <2>4 DEF Seen, Booting
  <2>6. UNCHANGED <<store, session, player, page, shown, hook, side, input, cfwState, flaws>>
    BY <1>1 DEF guestVars
  <2>7. \A p : Drawn(p)' = Drawn(p)
    BY <2>6, SameFrames
  <2>8. bench'.frames["launcher"] = bench.frames["launcher"]
    BY DoneFrames, Held DEF Writes
  <2>9. Booting(e)'
    BY <2>5, <2>6, <2>7 DEF Seen, Booting, Stands, Seated, Disk
  <2>10. Seen(e)'
    BY <2>5, <2>6, <2>7, <2>8, <2>9 DEF Seen, OnLauncher, OnSplash
  <2> QED
    BY <2>1, <2>10
<1> QED
  BY <1>1, <1>3, <1>4 DEF Disk, Seated

\* The roundtrip to a stock page.
LEMMA Watched ==
  ASSUME NEW s, Done(s), s.op \in Watching
  PROVE  /\ UNCHANGED <<store, session, player, page, shown, hook, side, input, cfwState, flaws>>
         /\ \A p : Drawn(p)' = Drawn(p)
         /\ \A point : Opens("launcher", point)' = Opens("launcher", point)
         /\ \A d : (Seated(d)' = Seated(d)) /\ (Disk(d)' = Disk(d)) /\ (Stands(d)' = Stands(d))
                   /\ (Booting(d)' = Booting(d))
         /\ (Entered' = Entered) /\ (NotSplash' = NotSplash)
<1>1. UNCHANGED <<store, session, player, page, shown, hook, side, input, cfwState, flaws>>
  BY DoneWatching DEF guestVars
<1>2. \A p : Drawn(p)' = Drawn(p)
  BY <1>1, SameFrames
<1>3. \A point : Opens("launcher", point)' = Opens("launcher", point)
  BY <1>1 DEF Opens
<1>4. ASSUME NEW d
      PROVE  (Seated(d)' = Seated(d)) /\ (Disk(d)' = Disk(d)) /\ (Stands(d)' = Stands(d))
             /\ (Booting(d)' = Booting(d))
  BY <1>1, <1>2 DEF Seated, Disk, Stands, Booting
<1>5. (Entered' = Entered) /\ (NotSplash' = NotSplash)
  BY <1>1, <1>2 DEF Entered, NotSplash
<1> QED
  BY <1>1, <1>2, <1>3, <1>4, <1>5

\* Holding a frame of the launcher,
LEMMA DoesCapture ==
  ASSUME NEW s, NEW d, Done(s), s.op = "capture", s.into = "last", Seen(d) \/ Returned(d)
  PROVE  Captured(d)'
<1>1. s.op \in Watching
  BY DEF Watching
<1>2. bench'.frames["last"] = shown /\ bench'.frames["launcher"] = bench.frames["launcher"]
  BY DoneFrames, Held DEF Writes
<1>3. Booting(d) /\ Booting(d)'
  BY <1>1, Watched DEF Seen, Returned
<1>4. CASE OnLauncher
  <2>1. shown = Drawn("launcher") /\ page' = "launcher"
    BY <1>1, <1>3, <1>4, Watched DEF Booting, OnLauncher
  <2> QED
    BY <1>1, <1>2, <1>3, <1>4, <2>1, Watched DEF Captured, OnLauncher
<1>5. CASE OnSplash
  BY <1>1, <1>2, <1>3, <1>5, Watched DEF Captured, OnSplash, Booting
<1> QED
  BY <1>4, <1>5 DEF Seen, Returned

\* A touch is put into the FIFOs.
LEMMA Touched ==
  ASSUME NEW s, Done(s), s.op = "touch"
  PROVE  /\ UNCHANGED <<store, session, player, page, shown, hook, side, cfwState, flaws, bench>>
         /\ input' = Append(input, s.touch)
         /\ (input = <<>> => input' = <<s.touch>>)
         /\ \A p : Drawn(p)' = Drawn(p)
         /\ \A point : Opens("launcher", point)' = Opens("launcher", point)
         /\ \A d : (Seated(d)' = Seated(d)) /\ (Disk(d)' = Disk(d)) /\ (Stands(d)' = Stands(d))
         /\ (AtHome' = AtHome) /\ (AtRest' = AtRest) /\ (BaseIsPlayers' = BaseIsPlayers)
         /\ (Told' = Told) /\ (\A x : OnScreen(x)' = OnScreen(x)) /\ (NotSplash' = NotSplash)
<1>1. /\ UNCHANGED <<store, session, player, page, shown, hook, side, cfwState, flaws, bench>>
      /\ input' = Append(input, s.touch)
  BY DoneTyped, Kinds DEF Done, InjectTouch
<1>2. \A p : Drawn(p)' = Drawn(p)
  BY <1>1, SameFrames
<1>3. \A point : Opens("launcher", point)' = Opens("launcher", point)
  BY <1>1 DEF Opens
<1>4. ASSUME NEW d
      PROVE  (Seated(d)' = Seated(d)) /\ (Disk(d)' = Disk(d)) /\ (Stands(d)' = Stands(d))
  BY <1>1 DEF Seated, Disk, Stands
<1>5. (AtHome' = AtHome) /\ (AtRest' = AtRest) /\ (BaseIsPlayers' = BaseIsPlayers)
  BY <1>1, <1>2 DEF AtHome, AtRest, BaseIsPlayers
<1>6. SidecarFrame' = SidecarFrame
  BY <1>1, SidecarFrameStays
<1>7. (Told' = Told) /\ (\A x : OnScreen(x)' = OnScreen(x)) /\ (NotSplash' = NotSplash)
  BY <1>1, <1>2, <1>6 DEF Told, OnScreen, NotSplash
<1>8. Append(<<>>, s.touch) = <<s.touch>>
  OBVIOUS
<1>9. input = <<>> => input' = <<s.touch>>
  BY <1>1, <1>8
<1> QED
  BY <1>1, <1>2, <1>3, <1>4, <1>5, <1>7, <1>9

\* touching a tile,
LEMMA DoesSend ==
  ASSUME NEW s, NEW d, NEW point, Done(s), s.op = "touch", Captured(d), s.touch = Tapped(point)
  PROVE  Sent(d, point)'
<1>1. /\ Booting(d) /\ Stands(d)' /\ input' = <<Tapped(point)>>
      /\ UNCHANGED <<page, shown, hook, bench>> /\ \A p : Drawn(p)' = Drawn(p)
  BY Touched DEF Captured, Booting
<1>2. CASE OnLauncher /\ bench.frames["last"] = Drawn("launcher")
  <2>1. page = "launcher" /\ shown = Drawn("launcher")
    BY <1>1, <1>2 DEF Booting, OnLauncher
  <2> QED
    BY <1>1, <1>2, <2>1 DEF Sent, OnLauncher
<1>3. CASE OnSplash /\ (page = "splash" => bench.frames["last"] = Drawn("splash"))
  <2>1. CASE page = "splash"
    <3>1. hook = "idle" /\ shown = Drawn("splash")
      BY <1>1, <1>3, <2>1 DEF Booting, Stands, OnSplash
    <3> QED
      BY <1>1, <1>3, <2>1, <3>1 DEF Sent, OnSplash
  <2>2. CASE page # "splash"
    <3>1. NotSplash
      BY <1>1, <2>2, PlayersFrames DEF Booting, NotSplash
    <3>2. NotSplash'
      BY <3>1, Touched
    <3> QED
      BY <1>1, <1>3, <3>2 DEF Sent, OnSplash
  <2> QED
    BY <2>1, <2>2
<1> QED
  BY <1>2, <1>3 DEF Captured

\* waiting for the change,
LEMMA DoesGoAway ==
  ASSUME NEW s, NEW d, NEW point, Done(s), s.op = "change", s.from = "last", Sent(d, point)
  PROVE  Away(d, point)'
<1>1. s.op \in Watching
  BY DEF Watching
<1>2. bench'.frames["launcher"] = bench.frames["launcher"]
  BY DoneFrames, Held DEF Writes
<1>3. shown # bench.frames["last"]
  BY DoneTyped, Kinds DEF Done, WaitFrame, AtStep
<1>4. /\ UNCHANGED <<store, session, player, page, shown, hook, side, input, cfwState, flaws>>
      /\ \A p : Drawn(p)' = Drawn(p)
      /\ Opens("launcher", point)' = Opens("launcher", point)
      /\ (Stands(d)' = Stands(d)) /\ (Entered' = Entered) /\ (NotSplash' = NotSplash)
  BY <1>1, Watched
<1>5. CASE /\ bench.frames["launcher"] = Drawn("launcher")
           /\ bench.frames["last"] = Drawn("launcher")
           /\ Stands(d) /\ shown = Drawn(page)
           /\ \/ page = "launcher"
              \/ page = Opens("launcher", point) /\ page # "cfw" /\ input = <<>>
  BY <1>2, <1>3, <1>4, <1>5 DEF Away
<1>6. CASE /\ bench.frames["launcher"] = Drawn("launcher")
           /\ bench.frames["last"] = Drawn("launcher")
           /\ Entered /\ input = <<>>
           /\ shown = Drawn("launcher") \/ shown.is = "cfw"
  BY <1>2, <1>3, <1>4, <1>6 DEF Away
<1>7. CASE /\ bench.frames["launcher"] = Drawn("splash")
           /\ NotSplash \/ shown = bench.frames["last"]
  BY <1>2, <1>3, <1>4, <1>7 DEF Away
<1> QED
  BY <1>5, <1>6, <1>7 DEF Sent

\* touching the corner:
LEMMA DoesGoBack ==
  ASSUME NEW s, NEW d, NEW point, Done(s), s.op = "touch", s.touch = Tapped(StockBack), Away(d, point)
  PROVE  Returning(d, point)'
<1>1. /\ UNCHANGED <<store, session, player, page, shown, hook, side, cfwState, flaws, bench>>
      /\ input = <<>> => input' = <<Tapped(StockBack)>>
      /\ \A p : Drawn(p)' = Drawn(p)
      /\ Opens("launcher", point)' = Opens("launcher", point)
      /\ (Stands(d)' = Stands(d)) /\ (NotSplash' = NotSplash)
  BY Touched
<1>2. CASE /\ bench.frames["launcher"] = Drawn("launcher")
           /\ Stands(d) /\ input = <<>> /\ shown = Drawn(page)
           /\ page = Opens("launcher", point) /\ page \notin {"cfw", "launcher"}
  BY <1>1, <1>2 DEF Returning
<1>3. CASE /\ bench.frames["launcher"] = Drawn("launcher")
           /\ Entered /\ input = <<>> /\ shown.is = "cfw"
  <2>1. Entered'
    BY <1>1, <1>3 DEF Entered
  <2> QED
    BY <1>1, <1>3, <2>1 DEF Returning
<1>4. CASE bench.frames["launcher"] = Drawn("splash") /\ NotSplash
  BY <1>1, <1>4 DEF Returning
<1> QED
  BY <1>2, <1>3, <1>4 DEF Away

\* The launcher is back: the tile opened a page of the player's.
LEMMA DoesReturn ==
  ASSUME NEW s, NEW d, NEW point, Done(s), s.op = "hash", s.of = "launcher", Returning(d, point)
  PROVE  /\ Returned(d)' /\ Stands(d) /\ Opens("launcher", point) \notin {"cfw", "launcher"}
<1>1. s.op \in Watching
  BY DEF Watching
<1>2. bench'.frames["launcher"] = bench.frames["launcher"]
  BY DoneFrames, Held DEF Writes
<1>3. shown = bench.frames["launcher"]
  BY DoneTyped, Kinds DEF Done, WaitFrame, AtStep
<1>4. CASE /\ bench.frames["launcher"] = Drawn("launcher")
           /\ Stands(d) /\ shown = Drawn(page)
           /\ Opens("launcher", point) \notin {"cfw", "launcher"}
           /\ \/ page = Opens("launcher", point)
              \/ page = "launcher" /\ input = <<>>
  <2>1. page = "launcher" /\ input = <<>>
    BY <1>3, <1>4, PlayersFrames
  <2>2. Returned(d)
    BY <1>4, <2>1 DEF Returned, Booting, OnLauncher
  <2>3. Returned(d)'
    BY <1>1, <1>2, <2>2, Watched DEF Returned, OnLauncher
  <2> QED
    BY <1>4, <2>3
<1>5. CASE /\ bench.frames["launcher"] = Drawn("launcher") /\ shown.is = "cfw"
  BY <1>3, <1>5, PlayersFrames
<1>6. CASE bench.frames["launcher"] = Drawn("splash") /\ NotSplash
  BY <1>3, <1>6 DEF NotSplash
<1> QED
  BY <1>4, <1>5, <1>6 DEF Returning

\* from a tile that does not lead back there is no return, and no next step.
LEMMA DoesNotReturn ==
  ASSUME NEW s, NEW d, NEW point, Done(s), s.op = "hash", s.of = "launcher", Returning(d, point),
         NoReturn(flaws, d.mask, point)
  PROVE  FALSE
<1>1. Stands(d) /\ Opens("launcher", point) \notin {"cfw", "launcher"}
  BY DoesReturn
<1>2. d.mask # NoMask /\ session.mask = d.mask /\ session.cfw = TRUE
  BY <1>1 DEF NoReturn, Stands, Seated
<1>3. CASE TilesAt(d.mask, point) = {"cfw"}
  <2>1. Opens("launcher", point) = "cfw"
    BY <1>2, <1>3 DEF Opens
  <2> QED
    BY <1>1, <2>1
<1>4. CASE TilesAt(d.mask, point) = {"about"} /\ "tile_dead" \in flaws
  <2>1. Opens("launcher", point) = "launcher"
    BY <1>2, <1>4 DEF Opens
  <2> QED
    BY <1>1, <2>1
<1>5. CASE TilesAt(d.mask, point) = {"ebook"} /\ "ebook_dead" \in flaws
  <2>1. Opens("launcher", point) = "launcher"
    BY <1>2, <1>5 DEF Opens
  <2> QED
    BY <1>1, <2>1
<1> QED
  BY <1>3, <1>4, <1>5 DEF NoReturn

\* Opening the sidecar.
LEMMA DoesBase ==
  ASSUME NEW s, NEW d, Done(s), s.op = "stable", s.into = "base",
         Seen(d) \/ Returned(d) \/ Home(d)
  PROVE  Based(d)'
<1>1. s.op \in Watching
  BY DEF Watching
<1>2. bench'.frames["base"] = shown
  BY DoneFrames
<1>3. Home(d)
  BY DEF Seen, Returned, Booting, Stands, Home, AtHome, AtRest
<1>4. shown.is # "cfw"
  BY <1>3, PlayersFrames DEF Home, AtHome
<1>5. Home(d)'
  BY <1>1, <1>3, Watched DEF Home, AtHome, AtRest
<1> QED
  BY <1>2, <1>4, <1>5 DEF Based, BaseIsPlayers

\* Clearing the record,
LEMMA DoesClear ==
  ASSUME NEW s, NEW d, Done(s), s.op = "clear", Based(d)
  PROVE  Cleared(d)'
<1>1. /\ UNCHANGED <<store, session, player, page, shown, hook, side, input, flaws, bench>>
      /\ cfwState' = NoState
  BY DoneTyped, Kinds DEF Done, ClearRecord
<1>2. \A p : Drawn(p)' = Drawn(p)
  BY <1>1, SameFrames
<1> QED
  BY <1>1, <1>2 DEF Cleared, Based, Home, Seated, Disk, AtHome, AtRest, BaseIsPlayers

\* touching the CFW tile,
LEMMA DoesOpen ==
  ASSUME NEW s, NEW d, NEW point, Done(s), s.op = "touch", s.touch = Tapped(point), Cleared(d)
  PROVE  Opening(d, point)'
BY Touched DEF Cleared, Based, Home, Opening

\* and reading the main page's record: the sidecar is open, and quiet.
LEMMA DoesSeeMain ==
  ASSUME NEW s, NEW d, NEW point, Done(s), s.op = "semantic", Opening(d, point)
  PROVE  Quiet(d, Main(d))'
<1>1. s.op \in Watching
  BY DEF Watching
<1>2. cfwState # NoState
  BY DoneTyped, Kinds DEF Done, WaitForRecord, Parses
<1>3. /\ Seated(d) /\ Disk(d) /\ BaseIsPlayers /\ OnScreen(Main(d)) /\ input = <<>> /\ Told
      /\ side.seq = 1
  BY <1>2 DEF Opening
<1>4. bench'.seq = 1
  BY <1>3, DoneFrames DEF Told
<1>5. bench'.frames["base"] = bench.frames["base"]
  BY DoneFrames, Held DEF Writes
<1>6. UNCHANGED <<store, session, player, page, shown, hook, side, input, cfwState, flaws>>
      /\ Seated(d)' /\ Disk(d)'
  BY <1>1, <1>3, Watched
<1>7. SidecarFrame' = SidecarFrame
  BY <1>6, SidecarFrameStays
<1> QED
  BY <1>3, <1>4, <1>5, <1>6, <1>7 DEF Quiet, OnScreen, Told, BaseIsPlayers

\* The sidecar is looked at.
LEMMA DoesLook ==
  ASSUME NEW s, NEW d, NEW x, Done(s), Quiet(d, x),
         s.op \in {"change", "read"} \/ (s.op \in {"capture", "keep"} /\ s.into # "base")
  PROVE  Quiet(d, x)'
<1>1. s.op \in Watching
  BY DEF Watching
<1>2. UNCHANGED <<store, session, player, page, shown, hook, side, input, cfwState, flaws>>
      /\ Seated(d)' /\ Disk(d)'
  BY <1>1, Watched DEF Quiet
<1>3. SidecarFrame' = SidecarFrame
  BY <1>2, SidecarFrameStays
<1>4. bench'.frames["base"] = bench.frames["base"]
  BY DoneFrames, Held DEF Writes
<1>5. bench'.seq = bench.seq
  BY DoneFrames DEF Quiet, Told
<1> QED
  BY <1>2, <1>3, <1>4, <1>5 DEF Quiet, OnScreen, Told, BaseIsPlayers

\* The picture of a page that the program compares.
LEMMA PictureShown ==
  ASSUME NEW d, NEW x, Quiet(d, x), InPicture(x)
  PROVE  shown = Picture(flaws, d, x) /\ shown # Blank
<1>1. shown = SidecarFrame /\ side.screen = x.screen /\ side.notice = x.notice
      /\ (x.shows # NoMask => side.mask = x.shows) /\ session.sd = d.sd
  BY DEF Quiet, Told, OnScreen, Seated
<1>2. SidecarFrame # Blank
  <2>1. SidecarFrame.is = "cfw"
    BY DEF SidecarFrame, Frame
  <2> QED
    BY <2>1, PlayersFrames
<1>3. CASE x.screen = "sd"
  <2>1. (session.sd /\ "sd_not_seen" \notin flaws) = (d.sd /\ "sd_not_seen" \notin flaws)
    BY <1>1
  <2> QED
    BY <1>1, <1>2, <1>3, <2>1 DEF SidecarFrame, Picture
<1>4. CASE x.screen = "launcher" /\ x.shows # NoMask
  <2>1. (side.notice /\ "notice_missing" \notin flaws) = (x.notice /\ "notice_missing" \notin flaws)
    BY <1>1
  <2> QED
    BY <1>1, <1>2, <1>4, <2>1 DEF SidecarFrame, Picture
<1> QED
  BY <1>3, <1>4 DEF InPicture

\* A picture that has to differ from the one held, and does not, ends the run.
LEMMA DoesDiffer ==
  ASSUME NEW s, NEW d, NEW x, Done(s), Quiet(d, x), InPicture(x), s.op = "change",
         s.from = "settings", Keeps("settings", Picture(flaws, d, x))
  PROVE  FALSE
<1>1. shown # bench.frames["settings"]
  BY DoneTyped, Kinds DEF Done, WaitFrame, AtStep
<1> QED
  BY <1>1, PictureShown DEF Keeps

\* Markers that are none of those allowed end the run.
LEMMA DoesMarkers ==
  ASSUME NEW s, NEW d, NEW x, Done(s), Quiet(d, x), s.op = "markers", d.ssh # "any", d.ssh \notin s.ssh
  PROVE  FALSE
<1>1. Agrees
  BY DoneTyped, Kinds DEF Done, CompareStep, Comparisons
<1>2. session.runtime = d.runtime /\ d.runtime # ""
  BY DEF Quiet, Seated, Booted
<1>3. store[d.runtime].ssh \in s.ssh
  BY <1>1, <1>2 DEF Agrees, Done, MarkerHome
<1> QED
  BY <1>3 DEF Quiet, Disk

\* A row is touched, and the sidecar says what it did.
LEMMA DoesAsk ==
  ASSUME NEW s, NEW d, NEW x, NEW what, Done(s), Quiet(d, x), s.op = "touch",
         s.touch = TouchOn(what), Answers(d, x, what)
  PROVE  Asked(d, x, what)'
BY Touched DEF Quiet, Asked

\* A newer record is the one of the touch, and the sidecar is quiet again.
LEMMA DoesRead ==
  ASSUME NEW s, NEW d, NEW x, NEW what, Done(s), Asked(d, x, what), s.op = "semantic", s.newer = TRUE,
         NEW fl, fl = flaws
  PROVE  /\ Quiet(DiskAfter(fl, d, what), ScreenAfter(fl, d, x, what))'
         /\ OnScreen(ScreenAfter(fl, d, x, what)) /\ Told /\ side.action = ActionAfter(fl, d, what)
<1>1. s.op \in Watching
  BY DEF Watching
<1>2. cfwState.seq > bench.seq /\ bench.seq \in Nat
  BY DoneTyped, Kinds DEF Done, WaitForRecord, Asked
<1>3. ~(Told /\ side.seq = bench.seq)
  BY <1>2 DEF Told
<1>4. PICK d1, x1, a : d1 = DiskAfter(fl, d, what) /\ x1 = ScreenAfter(fl, d, x, what)
                       /\ a = ActionAfter(fl, d, what)
  OBVIOUS
<1>5. Answering(d1, x1, a)
  BY <1>3, <1>4 DEF Asked
<1>6. /\ Disk(d1) /\ OnScreen(x1) /\ side.action = a /\ input = <<>> /\ Told
      /\ side.seq = bench.seq + 1
  BY <1>2, <1>5 DEF Answering
<1>7. Seated(d1)
  <2>1. d1.runtime = d.runtime /\ d1.sd = d.sd
    BY <1>4 DEF DiskAfter, Known
  <2> QED
    BY <2>1 DEF Asked, Seated
<1>8. UNCHANGED <<store, session, player, page, shown, hook, side, input, cfwState, flaws>>
      /\ Seated(d1)' /\ Disk(d1)'
  BY <1>1, <1>6, <1>7, Watched
<1>9. SidecarFrame' = SidecarFrame
  BY <1>8, SidecarFrameStays
<1>10. bench'.frames["base"] = bench.frames["base"]
  BY DoneFrames, Held DEF Writes
<1>11. bench'.seq = side.seq /\ side.seq \in Nat
  BY <1>2, <1>6, DoneFrames DEF Told
<1>12. Quiet(d1, x1)'
  BY <1>6, <1>8, <1>9, <1>10, <1>11 DEF Quiet, OnScreen, Told, BaseIsPlayers, Asked
<1> QED
  BY <1>4, <1>6, <1>12

\* A record that says something else than what is wanted ends the run.
LEMMA DoesNotSay ==
  ASSUME NEW s, NEW e, Done(s), Asked(e.d, e.x, e.touched), s.op = "semantic", s.newer = TRUE,
         Unwanted(flaws, e, s.wanted)
  PROVE  FALSE
<1>1. PICK fl : fl = flaws
  OBVIOUS
<1>2. PICK x1, a : x1 = ScreenAfter(fl, e.d, e.x, e.touched) /\ a = ActionAfter(fl, e.d, e.touched)
  OBVIOUS
<1>3. OnScreen(x1) /\ Told /\ side.action = a
  BY <1>1, <1>2, DoesRead
<1>4. /\ cfwState.screen = x1.screen /\ cfwState.action = a
      /\ (x1.shows # NoMask => cfwState.mask = x1.shows)
  BY <1>3 DEF OnScreen, Told
<1>5. \A field \in DOMAIN s.wanted : cfwState[field] \in s.wanted[field]
  BY DoneTyped, Kinds DEF Done, WaitForRecord
<1>6. \/ "screen" \in DOMAIN s.wanted /\ x1.screen \notin s.wanted.screen
      \/ "action" \in DOMAIN s.wanted /\ a \notin s.wanted.action
      \/ "mask" \in DOMAIN s.wanted /\ x1.shows # NoMask /\ x1.shows \notin s.wanted.mask
  BY <1>1, <1>2 DEF Unwanted
<1> QED
  BY <1>4, <1>5, <1>6

\* The sidecar is left.
LEMMA DoesLeave ==
  ASSUME NEW s, NEW d, NEW x, Done(s), Quiet(d, x), x.screen = "main", x.notice = FALSE, s.op = "touch",
         s.touch = Tapped(BackTouch)
  PROVE  Leaving(d)'
<1>1. OnScreen(Screen("main", NoMask, FALSE))
  BY DEF Quiet, OnScreen, Screen
<1>2. OnScreen(Screen("main", NoMask, FALSE))'
  BY <1>1, Touched
<1> QED
  BY <1>2, Touched DEF Quiet, Leaving

\* The record after the way out is the sidecar's last one, and it does leave.
LEMMA DoesPart ==
  ASSUME NEW s, NEW d, Done(s), Leaving(d), s.op = "semantic", s.newer = TRUE, NEW fl, fl = flaws
  PROVE  Left(Parted(fl, d))' /\ "back_dead" \notin flaws
<1>1. s.op \in Watching
  BY DEF Watching
<1>2. cfwState.seq > bench.seq /\ bench.seq \in Nat
  BY DoneTyped, Kinds DEF Done, WaitForRecord, Leaving
<1>3. ~(Told /\ side.seq = bench.seq) /\ ~(cfwState.seq = bench.seq)
  BY <1>2 DEF Told
<1>4. PICK d1 : d1 = Parted(fl, d)
  OBVIOUS
<1>5. Parting(d1) /\ "back_dead" \notin flaws
  BY <1>3, <1>4 DEF Leaving
<1>6. d1.runtime = d.runtime /\ d1.sd = d.sd
  BY <1>4 DEF Parted, Known
<1>7. Seated(d1) /\ BaseIsPlayers
  BY <1>6 DEF Leaving, Seated
<1>8. /\ UNCHANGED <<store, session, player, page, shown, hook, side, input, cfwState, flaws>>
      /\ \A p : Drawn(p)' = Drawn(p)
      /\ (Seated(d1)' = Seated(d1)) /\ (Disk(d1)' = Disk(d1))
  BY <1>1, Watched
<1>9. bench'.frames["base"] = bench.frames["base"]
  BY DoneFrames, Held DEF Writes
<1>10. Parting(d1)' /\ Seated(d1)' /\ BaseIsPlayers'
  BY <1>5, <1>7, <1>8, <1>9 DEF Parting, AtRest, BaseIsPlayers
<1> QED
  BY <1>4, <1>5, <1>10 DEF Left

\* The launcher's frame as it was means that the guest is back home.
LEMMA DoesComeHome ==
  ASSUME NEW s, NEW d, Done(s), Left(d), s.op = "hash", s.of = "base"
  PROVE  Home(d)'
<1>1. s.op \in Watching
  BY DEF Watching
<1>2. shown = bench.frames["base"]
  BY DoneTyped, Kinds DEF Done, WaitFrame, AtStep
<1>3. Home(d)
  BY <1>2 DEF Left, Parting, BaseIsPlayers, Home, AtHome
<1> QED
  BY <1>1, <1>3, Watched DEF Home, AtHome, AtRest

\* The top of the launcher is kept, and looked at again after a restart.
LEMMA DoesKeepTop ==
  ASSUME NEW s, NEW d, Done(s), s.op = "keep", s.of = "launcher", s.into = "top", Returned(d)
  PROVE  Top(0)'
<1>1. UNCHANGED <<session, flaws>>
  BY Watched DEF Watching
<1>2. bench'.frames["top"] = bench.frames["launcher"]
  BY DoneFrames
<1>3. bench.frames["launcher"] = Drawn("launcher")
  BY DEF Returned, OnLauncher
<1>4. Drawn("launcher").is = "launcher" /\ Drawn("launcher").name = TopAt(0)
  BY DEF Drawn, Frame, TopAt
<1>5. TopAt(0)' = TopAt(0)
  BY <1>1 DEF TopAt
<1>6. bench'.frames["top"].is = "launcher" /\ bench'.frames["top"].name = TopAt(0)'
  BY <1>2, <1>3, <1>4, <1>5
<1> QED
  BY <1>6, Zenon DEF Top

\* Stopping the session keeps what was held as the top,
LEMMA DoesStopTop ==
  ASSUME NEW s, Done(s), s.op = "stop", Top(0)
  PROVE  Top(0)'
<1>1. GuestType /\ s = Step
  BY DoneTyped DEF Done
<1>2. session'.boot = session.boot /\ UNCHANGED flaws
  BY <1>1, Kinds DEF Done, StopSession, Stopped, GuestType, IsSession, SessionFields
<1>3. bench'.frames["top"] = bench.frames["top"]
  BY DoneFrames
<1>4. TopAt(0)' = TopAt(0)
  BY <1>2 DEF TopAt
<1>5. bench.frames["top"].is = "launcher" /\ bench.frames["top"].name = TopAt(0)
  BY DEF Top
<1>6. bench'.frames["top"].is = "launcher" /\ bench'.frames["top"].name = TopAt(0)'
  BY <1>3, <1>4, <1>5
<1> QED
  BY <1>6, Zenon DEF Top

\* starting the next one begins the comparison,
LEMMA DoesStartTop ==
  ASSUME NEW s, Done(s), s.op = "start", s.cfw = TRUE, s.crash = FALSE, Top(0)
  PROVE  Again(Known(s.runtime, s.sd, NoMask, NoMask, "any"))'
<1>1. PICK d : d = Known(s.runtime, s.sd, NoMask, NoMask, "any")
  OBVIOUS
<1>2. Booting(d)' /\ session'.boot = session.boot + 1 /\ UNCHANGED <<flaws, bench>>
  BY <1>1, DoesStart
<1>3. session.boot \in Nat
  BY DoneTyped DEF GuestType
<1>4. (session'.boot % 2 = 1) = (session.boot % 2 = 0)
  BY <1>2, <1>3
<1>5. TopAt(1)' = TopAt(0)
  <2>1. ("restart_moves" \in flaws' /\ session'.boot % 2 = 1)
           = ("restart_moves" \in flaws /\ session.boot % 2 = 0)
    BY <1>2, <1>4
  <2> QED
    BY <2>1, Zenon DEF TopAt
<1>6. bench.frames["top"].is = "launcher" /\ bench.frames["top"].name = TopAt(0)
  BY DEF Top
<1>7. bench'.frames["top"].is = "launcher" /\ bench'.frames["top"].name = TopAt(1)'
  BY <1>2, <1>5, <1>6
<1>8. Again(d)'
  BY <1>2, <1>7, Zenon DEF Again, Top
<1> QED
  BY <1>1, <1>8

\* and a launcher that has moved fails it.
LEMMA DoesSameTop ==
  ASSUME NEW s, NEW d, Done(s), s.op = "same", s.a = "launcher", s.b = "top", AgainSeen(d),
         "restart_moves" \in flaws
  PROVE  FALSE
<1>1. bench.frames["launcher"] = bench.frames["top"]
  BY DoneTyped, Kinds DEF Done, CompareStep, Comparisons, Agrees
<1>2. bench.frames["top"].is = "launcher" /\ bench.frames["top"].name = TopAt(1)
  BY DEF AgainSeen, Again, Top
<1>3. bench.frames["launcher"].name = TopAt(0)
  BY <1>1, <1>2 DEF AgainSeen
<1>4. TopAt(0) # TopAt(1)
  <2>1. session.boot \in Nat
    BY DoneTyped DEF GuestType
  <2> QED
    BY <2>1 DEF TopAt
<1> QED
  BY <1>1, <1>2, <1>3, <1>4

\* Waiting for the player.
LEMMA DoesWait ==
  ASSUME NEW s, NEW d, Done(s)
  PROVE  /\ s.op = "ready" /\ Booting(d) => Booting(d)'
         /\ s.op = "ready" /\ Again(d) => Again(d)'
         /\ s.op = "stable" /\ s.into = "last" /\ Returned(d) => Returned(d)'
<1>1. ASSUME s.op \in {"ready", "stable"}
      PROVE  /\ (Booting(d)' = Booting(d)) /\ UNCHANGED <<page, session, flaws>>
             /\ Drawn("launcher")' = Drawn("launcher")
  BY <1>1, Watched DEF Watching
<1>2. s.op = "ready" /\ Booting(d) => Booting(d)'
  BY <1>1
<1>3. s.op = "ready" => bench'.frames = bench.frames
  BY SameBench
<1>4. s.op = "ready" /\ Again(d) => Again(d)'
  BY <1>1, <1>3 DEF Again, Top, TopAt
<1>5. s.op = "stable" /\ s.into = "last" => bench'.frames["launcher"] = bench.frames["launcher"]
  BY DoneFrames, Held DEF Writes
<1>6. s.op = "stable" /\ s.into = "last" /\ Returned(d) => Returned(d)'
  BY <1>1, <1>5 DEF Returned, OnLauncher
<1> QED
  BY <1>2, <1>4, <1>6

-------------------------------------------------------------------------------
\* A step that leads from expectation e to f meets f.
LEMMA Arrives ==
  ASSUME NEW f
  PROVE  /\ f.at = "before" /\ Before' => InPlace(f)'
         /\ f.at = "booting" /\ Booting(f.d)' => InPlace(f)'
         /\ f.at = "seen" /\ Seen(f.d)' => InPlace(f)'
         /\ f.at = "captured" /\ Captured(f.d)' => InPlace(f)'
         /\ f.at = "sent" /\ Sent(f.d, f.touched)' => InPlace(f)'
         /\ f.at = "away" /\ Away(f.d, f.touched)' => InPlace(f)'
         /\ f.at = "returning" /\ Returning(f.d, f.touched)' => InPlace(f)'
         /\ f.at = "returned" /\ Returned(f.d)' => InPlace(f)'
         /\ f.at = "home" /\ Home(f.d)' => InPlace(f)'
         /\ f.at = "based" /\ Based(f.d)' => InPlace(f)'
         /\ f.at = "cleared" /\ Cleared(f.d)' => InPlace(f)'
         /\ f.at = "opening" /\ Opening(f.d, f.touched)' => InPlace(f)'
         /\ f.at = "quiet" /\ Quiet(f.d, f.x)' => InPlace(f)'
         /\ f.at = "asked" /\ Asked(f.d, f.x, f.touched)' => InPlace(f)'
         /\ f.at = "leaving" /\ Leaving(f.d)' => InPlace(f)'
         /\ f.at = "left" /\ Left(f.d)' => InPlace(f)'
         /\ f.at = "topped" /\ Top(0)' => InPlace(f)'
         /\ f.at = "again" /\ Again(f.d)' => InPlace(f)'
         /\ f.at = "again_seen" /\ AgainSeen(f.d)' => InPlace(f)'
         /\ f.at = "loose" => InPlace(f)'
BY Zenon DEF InPlace

\* A step leads to the next expectation before a session,
LEMMA MeetsBefore ==
  ASSUME NEW s, NEW e, NEW f, NEW fl, fl = flaws, Done(s), InPlace(e), LeadsBefore(fl, e, s, f)
  PROVE  InPlace(f)'
<1>1. CASE e.at = "before" /\ f.at = "before" /\ (s.op = "start" => s.runtime = "stock" /\ s.cfw = FALSE)
  <2>1. Before
    BY <1>1, Zenon DEF InPlace
  <2>2. Before'
    BY <1>1, <2>1, DoesBefore
  <2> QED
    BY <1>1, <2>2, Arrives, Zenon
<1>2. CASE /\ s.op = "start" /\ s.cfw = TRUE /\ s.crash = FALSE /\ f.at = "booting"
           /\ f.d = Known(s.runtime, s.sd, NoMask, NoMask,
                          IF e.at = "before" /\ s.runtime = Present THEN FreshSsh(fl) ELSE "any")
  <2>1. CASE e.at = "before" /\ s.runtime = Present
    <3>1. Before
      BY <2>1, Zenon DEF InPlace
    <3>2. f.d = Known(s.runtime, s.sd, NoMask, NoMask, FreshSsh(fl))
      BY <1>2, <2>1
    <3>3. Booting(f.d)'
      BY <1>2, <2>1, <3>1, <3>2, DoesStart, Zenon
    <3> QED
      BY <1>2, <3>3, Arrives, Zenon
  <2>2. CASE ~(e.at = "before" /\ s.runtime = Present)
    <3>1. f.d = Known(s.runtime, s.sd, NoMask, NoMask, "any")
      BY <1>2, <2>2
    <3>2. Booting(f.d)'
      BY <1>2, <3>1, DoesStart, Zenon
    <3> QED
      BY <1>2, <3>2, Arrives, Zenon
  <2> QED
    BY <2>1, <2>2
<1>3. CASE e.at = "booting" /\ s.op = "ready" /\ SamePlace(e, f)
  <2>1. Booting(f.d)'
    BY <1>3, DoesWait DEF InPlace, SamePlace
  <2> QED
    BY <1>3, <2>1, Arrives, Zenon DEF SamePlace
<1>4. CASE e.at = "booting" /\ s.op = "stable" /\ s.into = "launcher" /\ f.at = "seen" /\ f.d = e.d
  <2>1. Seen(f.d)'
    BY <1>4, DoesSee DEF InPlace
  <2> QED
    BY <1>4, <2>1, Arrives, Zenon
<1>5. CASE /\ e.at = "seen" /\ s.op = "config" /\ f.at = "seen" /\ s.mask # NoMask
           /\ f.d = Known(e.d.runtime, e.d.sd, Laid(fl, s.mask), s.mask, e.d.ssh)
  <2>1. Seen(e.d)
    BY <1>5 DEF InPlace
  <2>2. Seated(e.d) /\ Disk(e.d)
    BY <2>1 DEF Seen, Booting, Stands
  <2>3. Seen(f.d)'
    BY <1>5, <2>1, <2>2, DoesConfig
  <2> QED
    BY <1>5, <2>3, Arrives, Zenon
<1>6. CASE /\ e.at \in {"seen", "quiet"} /\ s.op = "config"
           /\ e.d.saved # NoMask /\ s.mask # e.d.saved
  <2>1. Seated(e.d) /\ Disk(e.d)
    BY <1>6 DEF InPlace, Seen, Booting, Stands, Quiet
  <2> QED
    BY <1>6, <2>1, DoesConfig
<1> QED
  BY <1>1, <1>2, <1>3, <1>4, <1>5, <1>6 DEF LeadsBefore

\* on a trip to a tile,
LEMMA MeetsTrip ==
  ASSUME NEW s, NEW e, NEW f, NEW fl, fl = flaws, Done(s), InPlace(e), LeadsTrip(fl, e, s, f)
  PROVE  InPlace(f)'
<1>1. CASE /\ e.at \in {"seen", "returned"} /\ s.op = "capture" /\ s.into = "last"
           /\ f.at = "captured" /\ f.d = e.d
  <2>1. Captured(f.d)'
    BY <1>1, DoesCapture DEF InPlace
  <2> QED
    BY <1>1, <2>1, Arrives, Zenon
<1>2. CASE /\ e.at = "captured" /\ s.op = "touch" /\ f.at = "sent" /\ f.d = e.d
           /\ s.touch = Tapped(f.touched)
  <2>1. Sent(f.d, f.touched)'
    BY <1>2, DoesSend DEF InPlace
  <2> QED
    BY <1>2, <2>1, Arrives, Zenon
<1>3. CASE /\ e.at = "sent" /\ s.op = "change" /\ s.from = "last"
           /\ f.at = "away" /\ f.d = e.d /\ f.touched = e.touched
  <2>1. Away(f.d, f.touched)'
    BY <1>3, DoesGoAway DEF InPlace
  <2> QED
    BY <1>3, <2>1, Arrives, Zenon
<1>4. CASE /\ e.at = "away" /\ s.op = "touch" /\ s.touch = Tapped(StockBack)
           /\ f.at = "returning" /\ f.d = e.d /\ f.touched = e.touched
  <2>1. Returning(f.d, f.touched)'
    BY <1>4, DoesGoBack DEF InPlace
  <2> QED
    BY <1>4, <2>1, Arrives, Zenon
<1>5. CASE /\ e.at = "returning" /\ s.op = "hash" /\ s.of = "launcher"
           /\ f.at = "returned" /\ f.d = e.d
  <2>1. Returned(f.d)'
    BY <1>5, DoesReturn DEF InPlace
  <2> QED
    BY <1>5, <2>1, Arrives, Zenon
<1>6. CASE /\ e.at = "returning" /\ s.op = "hash" /\ s.of = "launcher"
           /\ NoReturn(fl, e.d.mask, e.touched)
  BY <1>6, DoesNotReturn DEF InPlace
<1>7. CASE e.at = "returned" /\ s.op = "stable" /\ s.into = "last" /\ SamePlace(e, f)
  <2>1. Returned(f.d)'
    BY <1>7, DoesWait DEF InPlace, SamePlace
  <2> QED
    BY <1>7, <2>1, Arrives, Zenon DEF SamePlace
<1> QED
  BY <1>1, <1>2, <1>3, <1>4, <1>5, <1>6, <1>7 DEF LeadsTrip

\* into the sidecar,
LEMMA MeetsIn ==
  ASSUME NEW s, NEW e, NEW f, NEW fl, fl = flaws, Done(s), Meets(e), LeadsIn(fl, e, s, f)
  PROVE  InPlace(f)'
<1>0. InPlace(e) /\ Keeps("settings", e.settings)
  BY DEF Meets
<1>1. CASE /\ e.at \in {"seen", "returned", "home"} /\ s.op = "stable" /\ s.into = "base"
           /\ f.at = "based" /\ f.d = e.d
  <2>1. Based(f.d)'
    BY <1>0, <1>1, DoesBase DEF InPlace
  <2> QED
    BY <1>1, <2>1, Arrives, Zenon
<1>2. CASE e.at = "based" /\ s.op = "clear" /\ f.at = "cleared" /\ f.d = e.d
  <2>1. Cleared(f.d)'
    BY <1>0, <1>2, DoesClear DEF InPlace
  <2> QED
    BY <1>2, <2>1, Arrives, Zenon
<1>3. CASE /\ e.at = "cleared" /\ s.op = "touch" /\ f.at = "opening" /\ f.d = e.d
           /\ s.touch = Tapped(f.touched)
  <2>1. Opening(f.d, f.touched)'
    BY <1>0, <1>3, DoesOpen DEF InPlace
  <2> QED
    BY <1>3, <2>1, Arrives, Zenon
<1>4. CASE /\ e.at = "opening" /\ s.op = "semantic"
           /\ f.at = "quiet" /\ f.d = e.d /\ f.x = Main(e.d)
  <2>1. Quiet(f.d, f.x)'
    BY <1>0, <1>4, DoesSeeMain DEF InPlace
  <2> QED
    BY <1>4, <2>1, Arrives, Zenon
<1>5. CASE /\ e.at = "quiet" /\ SamePlace(e, f)
           /\ s.op \in {"change", "read"} \/ (s.op \in {"capture", "keep"} /\ s.into # "base")
  <2>1. Quiet(f.d, f.x)'
    BY <1>0, <1>5, DoesLook DEF InPlace, SamePlace
  <2> QED
    BY <1>5, <2>1, Arrives, Zenon DEF SamePlace
<1>6. CASE /\ e.at = "quiet" /\ s.op = "change" /\ s.from = "settings"
           /\ InPicture(e.x) /\ e.settings = Picture(fl, e.d, e.x)
  BY <1>0, <1>6, DoesDiffer DEF InPlace
<1>7. CASE /\ e.at = "quiet" /\ s.op = "markers"
           /\ e.d.ssh # "any" /\ e.d.ssh \notin s.ssh
  BY <1>0, <1>7, DoesMarkers DEF InPlace
<1> QED
  BY <1>1, <1>2, <1>3, <1>4, <1>5, <1>6, <1>7 DEF LeadsIn

\* in the sidecar,
LEMMA MeetsOn ==
  ASSUME NEW s, NEW e, NEW f, NEW fl, fl = flaws, Done(s), InPlace(e), LeadsOn(fl, e, s, f)
  PROVE  InPlace(f)'
<1>1. CASE /\ e.at = "quiet" /\ s.op = "touch" /\ f.at = "asked" /\ f.d = e.d /\ f.x = e.x
           /\ s.touch = TouchOn(f.touched) /\ Answers(e.d, e.x, f.touched)
  <2>1. Asked(f.d, f.x, f.touched)'
    BY <1>1, DoesAsk DEF InPlace
  <2> QED
    BY <1>1, <2>1, Arrives, Zenon
<1>2. CASE /\ e.at = "asked" /\ s.op = "semantic" /\ s.newer = TRUE /\ f.at = "quiet"
           /\ f.d = DiskAfter(fl, e.d, e.touched)
           /\ f.x = ScreenAfter(fl, e.d, e.x, e.touched)
  <2>1. Asked(e.d, e.x, e.touched)
    BY <1>2 DEF InPlace
  <2>2. Quiet(f.d, f.x)'
    BY <1>2, <2>1, DoesRead, Zenon
  <2> QED
    BY <1>2, <2>2, Arrives, Zenon
<1>3. CASE /\ e.at = "asked" /\ s.op = "semantic" /\ s.newer = TRUE
           /\ Unwanted(fl, e, s.wanted)
  BY <1>3, DoesNotSay DEF InPlace
<1>4. CASE /\ e.at = "quiet" /\ e.x.screen = "main" /\ e.x.notice = FALSE
           /\ s.op = "touch" /\ s.touch = Tapped(BackTouch)
           /\ f.at = "leaving" /\ f.d = e.d
  <2>1. Leaving(f.d)'
    BY <1>4, DoesLeave DEF InPlace
  <2> QED
    BY <1>4, <2>1, Arrives, Zenon
<1>5. CASE /\ e.at = "leaving" /\ s.op = "semantic" /\ s.newer = TRUE
           /\ f.at = "left" /\ f.d = Parted(fl, e.d)
  <2>1. Leaving(e.d)
    BY <1>5 DEF InPlace
  <2>2. Left(f.d)'
    BY <1>5, <2>1, DoesPart, Zenon
  <2> QED
    BY <1>5, <2>2, Arrives, Zenon
<1>6. CASE e.at = "leaving" /\ s.op = "semantic" /\ s.newer = TRUE /\ "back_dead" \in fl
  BY <1>6, DoesPart DEF InPlace
<1>7. CASE e.at = "left" /\ s.op = "hash" /\ s.of = "base" /\ f.at = "home" /\ f.d = e.d
  <2>1. Home(f.d)'
    BY <1>7, DoesComeHome DEF InPlace
  <2> QED
    BY <1>7, <2>1, Arrives, Zenon
<1> QED
  BY <1>1, <1>2, <1>3, <1>4, <1>5, <1>6, <1>7 DEF LeadsOn

\* and across a restart.
LEMMA MeetsTop ==
  ASSUME NEW s, NEW e, NEW f, NEW fl, fl = flaws, Done(s), InPlace(e), LeadsTop(fl, e, s, f)
  PROVE  InPlace(f)'
<1>1. CASE e.at = "returned" /\ s.op = "keep" /\ s.of = "launcher" /\ s.into = "top" /\ f.at = "topped"
  <2>1. Returned(e.d)
    BY <1>1 DEF InPlace
  <2>2. Top(0)'
    BY <1>1, <2>1, DoesKeepTop, Zenon
  <2> QED
    BY <1>1, <2>2, Arrives, Zenon
<1>2. CASE e.at = "topped" /\ s.op = "stop" /\ f.at = "topped"
  <2>1. Top(0)
    BY <1>2, Zenon DEF InPlace
  <2>2. Top(0)'
    BY <1>2, <2>1, DoesStopTop, Zenon
  <2> QED
    BY <1>2, <2>2, Arrives, Zenon
<1>3. CASE /\ e.at = "topped" /\ s.op = "start" /\ s.cfw = TRUE /\ s.crash = FALSE
           /\ f.at = "again" /\ f.d = Known(s.runtime, s.sd, NoMask, NoMask, "any")
  <2>1. Top(0)
    BY <1>3, Zenon DEF InPlace
  <2>2. Again(f.d)'
    BY <1>3, <2>1, DoesStartTop, Zenon
  <2> QED
    BY <1>3, <2>2, Arrives, Zenon
<1>4. CASE e.at = "again" /\ s.op = "ready" /\ SamePlace(e, f)
  <2>1. Again(f.d)'
    BY <1>4, DoesWait DEF InPlace, SamePlace
  <2> QED
    BY <1>4, <2>1, Arrives, Zenon DEF SamePlace
<1>5. CASE e.at = "again" /\ s.op = "stable" /\ s.into = "launcher" /\ f.at = "again_seen" /\ f.d = e.d
  <2>1. Again(e.d)
    BY <1>5 DEF InPlace
  <2>2. Booting(e.d) /\ Top(1)
    BY <2>1, Zenon DEF Again
  <2>3. AgainSeen(f.d)'
    BY <1>5, <2>2, DoesSee, Zenon
  <2> QED
    BY <1>5, <2>3, Arrives, Zenon
<1>6. CASE /\ e.at = "again_seen" /\ s.op = "same" /\ s.a = "launcher" /\ s.b = "top"
           /\ "restart_moves" \in fl
  BY <1>6, DoesSameTop DEF InPlace
<1> QED
  BY <1>1, <1>2, <1>3, <1>4, <1>5, <1>6 DEF LeadsTop

\* The frames.
LEMMA MeetsFrame ==
  ASSUME NEW s, NEW e, NEW fl, fl = flaws, Done(s), Meets(e),
         NEW name \in {"last", "present", "settings"}, NEW frame, NEW next,
         Keeps(name, frame), LeadsFrame(fl, e, s, name, frame, next)
  PROVE  Keeps(name, next)'
<1>1. CASE next = Blank
  BY <1>1 DEF Keeps
<1>2. CASE next = frame /\ ~Writes(s, name)
  BY <1>2, DoneFrames, Held DEF Keeps
<1>3. CASE /\ e.at = "quiet" /\ s.op = "capture" /\ s.into = name
           /\ InPicture(e.x) /\ next = Picture(fl, e.d, e.x)
  <2>1. shown = next
    BY <1>3, PictureShown DEF Meets, InPlace
  <2> QED
    BY <1>3, <2>1, DoneFrames DEF Keeps
<1>4. CASE s.op = "keep" /\ s.into = name /\ s.of = "last" /\ next = e.last
  BY <1>4, DoneFrames DEF Keeps, Meets
<1> QED
  BY <1>1, <1>2, <1>3, <1>4 DEF LeadsFrame

\* A step that leads from an expectation to another, done when the first is
\* met, meets the second.
LEMMA LeadsMeets ==
  ASSUME NEW s, NEW e, NEW f, NEW fl, fl = flaws, Done(s), Meets(e), Leads(fl, e, s, f)
  PROVE  Meets(f)'
<1>1. CASE e.at = "never"
  BY <1>1, Zenon DEF Meets, InPlace
<1>2. CASE s.op = "differ" /\ s.a = "last" /\ s.b = "present" /\ e.last # Blank /\ e.last = e.present
  <2>1. bench.frames["last"] # bench.frames["present"]
    BY <1>2, DoneTyped, Kinds DEF Done, CompareStep, Comparisons, Agrees
  <2> QED
    BY <1>2, <2>1 DEF Meets, Keeps
<1>3. CASE /\ \/ f.at = "loose"
              \/ s.op \in Looks /\ e.at \notin {"before"} /\ SamePlace(e, f)
              \/ LeadsBefore(fl, e, s, f) \/ LeadsTrip(fl, e, s, f) \/ LeadsIn(fl, e, s, f)
              \/ LeadsOn(fl, e, s, f) \/ LeadsTop(fl, e, s, f)
           /\ LeadsFrame(fl, e, s, "last", e.last, f.last)
           /\ LeadsFrame(fl, e, s, "present", e.present, f.present)
           /\ LeadsFrame(fl, e, s, "settings", e.settings, f.settings)
  <2>1. Keeps("last", f.last)' /\ Keeps("present", f.present)' /\ Keeps("settings", f.settings)'
    <3>1. Keeps("last", e.last) /\ Keeps("present", e.present) /\ Keeps("settings", e.settings)
      BY DEF Meets
    <3> QED
      BY <1>3, <3>1, MeetsFrame
  <2>2. InPlace(e)
    BY DEF Meets
  <2>3. ASSUME s.op \in Looks, SamePlace(e, f)
        PROVE  InPlace(f)'
    <3>1. UNCHANGED guestVars
      BY <2>3, DoneWatching DEF Looks, Watching, Comparisons
    <3>2. bench'.frames = bench.frames /\ bench'.seq = bench.seq
      BY <2>3, SameBench DEF Looks
    <3>3. Meets(e)'
      BY <3>1, <3>2, StillHolds
    <3>4. InPlace(e)'
      BY <3>3, Zenon DEF Meets
    <3>5. f.at = e.at /\ f.d = e.d /\ f.x = e.x /\ f.touched = e.touched
      BY <2>3 DEF SamePlace
    <3>6. /\ f.at # "never"
          /\ f.at = "before" => Before'
          /\ f.at = "topped" => Top(0)'
      BY <3>4, <3>5, Zenon DEF InPlace
    <3>7. /\ f.at = "booting" => Booting(f.d)'
          /\ f.at = "seen" => Seen(f.d)'
          /\ f.at = "captured" => Captured(f.d)'
          /\ f.at = "sent" => Sent(f.d, f.touched)'
          /\ f.at = "away" => Away(f.d, f.touched)'
          /\ f.at = "returning" => Returning(f.d, f.touched)'
          /\ f.at = "returned" => Returned(f.d)'
          /\ f.at = "home" => Home(f.d)'
      BY <3>4, <3>5 DEF InPlace
    <3>8. /\ f.at = "based" => Based(f.d)'
          /\ f.at = "cleared" => Cleared(f.d)'
          /\ f.at = "opening" => Opening(f.d, f.touched)'
          /\ f.at = "quiet" => Quiet(f.d, f.x)'
          /\ f.at = "asked" => Asked(f.d, f.x, f.touched)'
          /\ f.at = "leaving" => Leaving(f.d)'
          /\ f.at = "left" => Left(f.d)'
          /\ f.at = "again" => Again(f.d)'
          /\ f.at = "again_seen" => AgainSeen(f.d)'
      BY <3>4, <3>5 DEF InPlace
    <3> QED
      BY <3>6, <3>7, <3>8, Zenon DEF InPlace
  <2>4. InPlace(f)'
    BY <1>3, <2>2, <2>3, MeetsBefore, MeetsTrip, MeetsIn, MeetsOn, MeetsTop, Arrives, Zenon
  <2> QED
    BY <2>1, <2>4, Zenon DEF Meets
<1> QED
  BY <1>1, <1>2, <1>3 DEF Leads

-------------------------------------------------------------------------------
(***************************************************************************)
(* What a list of steps leads to: g is what the program may count on       *)
(* between them.  A list of steps tests for a set of flaws when it leads   *)
(* to f, or for a candidate with one of them nowhere.                      *)
(***************************************************************************)
Goes(fl, e, s, f) ==
  /\ IsList(s)
  /\ \E g : /\ g[1] = e /\ g[Len(s) + 1] = f
            /\ \A i \in 1..Len(s) : Leads(fl, g[i], s[i], g[i + 1])

Unknown == Known("", FALSE, NoMask, NoMask, "any")
NoScreen == Screen("", NoMask, FALSE)
Spot(at, d, present) == Expect(at, d, NoScreen, "", Blank, present, Blank)
On(d, x, present) == Expect("quiet", d, x, "", Blank, present, Blank)
Never == Spot("never", Unknown, Blank)
Loose(present) == Spot("loose", Unknown, present)

Tests(fl, e, s, set, f) == Goes(fl, e, s, IF fl \cap set = {} THEN f ELSE Never)

\* A step that leads somewhere is a block that goes there.
LEMMA GoesOne ==
  \A fl, e, x, f : IsList(<<x>>) /\ Leads(fl, e, x, f) => Goes(fl, e, <<x>>, f)
<1> TAKE fl, e, x, f
<1> HAVE IsList(<<x>>) /\ Leads(fl, e, x, f)
<1> DEFINE g == <<e, f>>
<1>1. Len(<<x>>) = 1 /\ <<x>>[1] = x /\ g[1] = e /\ g[2] = f
  OBVIOUS
<1>2. /\ g[1] = e /\ g[Len(<<x>>) + 1] = f
      /\ \A i \in 1..Len(<<x>>) : Leads(fl, g[i], <<x>>[i], g[i + 1])
  <2>1. 1 + 1 = 2 /\ \A i \in 1..1 : i = 1
    OBVIOUS
  <2> QED
    BY <1>1, <2>1
<1> HIDE DEF g
<1> QED
  BY <1>2 DEF Goes

\* Blocks that go from one place to the next go all the way.
LEMMA GoesJoin ==
  \A fl, e, s, f, t, h :
    Goes(fl, e, s, f) /\ Goes(fl, f, t, h) => Goes(fl, e, s \o t, h)
<1> TAKE fl, e, s, f, t, h
<1> HAVE Goes(fl, e, s, f) /\ Goes(fl, f, t, h)
<1>1. s \in Seq(Steps) /\ t \in Seq(Steps)
  BY DEF Goes, IsList
<1>2. PICK a : /\ a[1] = e /\ a[Len(s) + 1] = f
               /\ \A i \in 1..Len(s) : Leads(fl, a[i], s[i], a[i + 1])
  BY DEF Goes
<1>3. PICK b : /\ b[1] = f /\ b[Len(t) + 1] = h
               /\ \A i \in 1..Len(t) : Leads(fl, b[i], t[i], b[i + 1])
  BY DEF Goes
<1>4. PICK m, n \in Nat : m = Len(s) /\ n = Len(t)
  BY <1>1
<1> DEFINE g == [i \in 1..(m + n + 1) |-> IF i <= m THEN a[i] ELSE b[i - m]]
<1>5. Len(s \o t) = m + n /\ s \o t \in Seq(Steps)
  BY <1>1, <1>4, Places
<1>6. /\ \A i \in 1..m : g[i] = a[i] /\ g[i + 1] = a[i + 1]
      /\ \A i \in 1..n : g[m + i] = b[i] /\ g[m + i + 1] = b[i + 1]
  <2>1. a[m + 1] = b[1]
    BY <1>2, <1>3, <1>4
  <2>2. ASSUME NEW i \in 1..m
        PROVE  g[i] = a[i] /\ g[i + 1] = a[i + 1]
    <3>1. CASE i = m
      <4>1. i + 1 \in 1..(m + n + 1) /\ ~(i + 1 <= m) /\ (i + 1) - m = 1
        BY <2>2, <1>4, <3>1
      <4> QED
        BY <2>1, <2>2, <3>1, <4>1, <1>4
    <3>2. CASE i # m
      BY <2>2, <3>2, <1>4
    <3> QED
      BY <3>1, <3>2
  <2>3. ASSUME NEW i \in 1..n
        PROVE  g[m + i] = b[i] /\ g[m + i + 1] = b[i + 1]
    <3>1. m + i \in 1..(m + n + 1) /\ ~(m + i <= m) /\ (m + i) - m = i
      BY <2>3, <1>4
    <3>2. m + i + 1 \in 1..(m + n + 1) /\ ~(m + i + 1 <= m) /\ (m + i + 1) - m = i + 1
      BY <2>3, <1>4
    <3> QED
      BY <3>1, <3>2
  <2> QED
    BY <2>2, <2>3
<1>7. g[1] = e /\ g[m + n + 1] = h
  <2>1. g[1] = e
    <3>1. CASE m = 0
      <4>1. 1 \in 1..(m + n + 1) /\ ~(1 <= m) /\ 1 - m = 1
        BY <1>4, <3>1
      <4> QED
        BY <1>2, <1>3, <1>4, <3>1, <4>1
    <3>2. CASE m # 0
      BY <1>2, <1>4, <3>2
    <3> QED
      BY <3>1, <3>2
  <2>2. m + n + 1 \in 1..(m + n + 1) /\ ~(m + n + 1 <= m) /\ (m + n + 1) - m = n + 1
    BY <1>4
  <2> QED
    BY <1>3, <1>4, <2>1, <2>2
<1> HIDE DEF g
<1>8. ASSUME NEW i \in 1..(m + n)
      PROVE  Leads(fl, g[i], (s \o t)[i], g[i + 1])
  <2>1. i \in 1..m \/ \E j \in 1..n : i = m + j
    BY <1>1, <1>4, <1>5, <1>8, Places
  <2>2. CASE i \in 1..m
    BY <1>1, <1>2, <1>4, <1>6, <2>2, Places
  <2>3. ASSUME NEW j \in 1..n, i = m + j
        PROVE  Leads(fl, g[i], (s \o t)[i], g[i + 1])
    <3>1. (s \o t)[m + j] = t[j]
      BY <1>1, <1>4, <2>3, Places
    <3> QED
      BY <1>3, <1>4, <1>6, <2>3, <3>1
  <2> QED
    BY <2>1, <2>2, <2>3
<1> QED
  BY <1>5, <1>7, <1>8 DEF Goes, IsList

\* Nothing follows what cannot be.
LEMMA GoesNowhere ==
  \A fl, s : IsList(s) => Goes(fl, Never, s, Never)
<1> TAKE fl, s
<1> HAVE IsList(s)
<1> DEFINE g == [i \in 1..(Len(s) + 1) |-> Never]
<1>1. Len(s) \in Nat
  BY DEF IsList
<1>2. g[1] = Never /\ g[Len(s) + 1] = Never /\ \A i \in 1..Len(s) : g[i] = Never
  BY <1>1
<1>3. Never.at = "never"
  BY DEF Never, Spot, Expect
<1>4. \A x, f : Leads(fl, Never, x, f)
  BY <1>3 DEF Leads
<1> QED
  BY <1>2, <1>4 DEF Goes

\* What two blocks test they test together.
LEMMA TestsJoin ==
  \A fl, e, s, set, f, t, other, h :
    Tests(fl, e, s, set, f) /\ Tests(fl, f, t, other, h)
      => Tests(fl, e, s \o t, set \cup other, h)
<1> TAKE fl, e, s, set, f, t, other, h
<1> HAVE Tests(fl, e, s, set, f) /\ Tests(fl, f, t, other, h)
<1>1. IsList(t)
  BY DEF Tests, Goes
<1>2. CASE fl \cap set = {}
  <2>1. (fl \cap (set \cup other) = {}) = (fl \cap other = {})
    BY <1>2
  <2> QED
    BY <1>2, <2>1, GoesJoin DEF Tests
<1>3. CASE fl \cap set # {}
  <2>1. fl \cap (set \cup other) # {}
    BY <1>3
  <2> QED
    BY <1>1, <1>3, <2>1, GoesJoin, GoesNowhere DEF Tests
<1> QED
  BY <1>2, <1>3

\* A block that goes somewhere tests at least nothing.
LEMMA TestsNone ==
  \A fl, e, s, f : Goes(fl, e, s, f) => Tests(fl, e, s, {}, f)
BY DEF Tests

-------------------------------------------------------------------------------
\* Single steps.
LEMMA Fields ==
  /\ \A at, d, p : /\ Spot(at, d, p).at = at /\ Spot(at, d, p).d = d
                   /\ Spot(at, d, p).last = Blank /\ Spot(at, d, p).present = p
                   /\ Spot(at, d, p).settings = Blank
  /\ \A d, x, p : /\ On(d, x, p).at = "quiet" /\ On(d, x, p).d = d /\ On(d, x, p).x = x
                  /\ On(d, x, p).last = Blank /\ On(d, x, p).present = p
                  /\ On(d, x, p).settings = Blank
  /\ Never.at = "never" /\ Never.last = Blank /\ Never.present = Blank /\ Never.settings = Blank
  /\ \A at, d, x, t, l, p, s :
       /\ Expect(at, d, x, t, l, p, s).at = at /\ Expect(at, d, x, t, l, p, s).d = d
       /\ Expect(at, d, x, t, l, p, s).x = x /\ Expect(at, d, x, t, l, p, s).touched = t
       /\ Expect(at, d, x, t, l, p, s).last = l /\ Expect(at, d, x, t, l, p, s).present = p
       /\ Expect(at, d, x, t, l, p, s).settings = s
BY DEF Spot, On, Never, Expect

\* A step that leads to f, of whose frames only the one of the card is known.
LEMMA LeadsOne ==
  ASSUME NEW fl, NEW e, NEW x, NEW f, f.last = Blank, f.settings = Blank,
         f.present = Blank \/ (f.present = e.present /\ ~Writes(x, "present")),
         \/ f.at = "loose"
         \/ x.op \in Looks /\ e.at # "before" /\ SamePlace(e, f)
         \/ LeadsBefore(fl, e, x, f) \/ LeadsTrip(fl, e, x, f) \/ LeadsIn(fl, e, x, f)
         \/ LeadsOn(fl, e, x, f) \/ LeadsTop(fl, e, x, f)
  PROVE  Leads(fl, e, x, f)
BY DEF Leads, LeadsFrame

\* A step that looks, or leads on, goes to an expectation without pictures.
LEMMA GoesTo ==
  ASSUME NEW fl, NEW e, NEW x, NEW f, IsList(<<x>>), f.last = Blank, f.settings = Blank,
         f.present = Blank \/ (f.present = e.present /\ ~Writes(x, "present")),
         \/ f.at = "loose"
         \/ x.op \in Looks /\ e.at # "before" /\ SamePlace(e, f)
         \/ LeadsBefore(fl, e, x, f) \/ LeadsTrip(fl, e, x, f) \/ LeadsIn(fl, e, x, f)
         \/ LeadsOn(fl, e, x, f) \/ LeadsTop(fl, e, x, f)
  PROVE  Goes(fl, e, <<x>>, f)
BY LeadsOne, GoesOne

\* What is only looked at.
Stays(e) == e.at # "before"

\* The steps that only look stay where they are.
LEMMA GoesLooking ==
  ASSUME NEW fl, NEW e, Stays(e)
  PROVE  /\ Goes(fl, e, Alive, e) /\ Goes(fl, e, Classify, e)
         /\ \A label \in Labels, n \in Holding : Goes(fl, e, Save(label, n), e)
         /\ \A checked \in RequiredChecks : Goes(fl, e, Record(checked), e)
         /\ \A label \in Labels : Goes(fl, e, PromoteShot(label), e)
         /\ \A mask \in SUBSET Tiles : Goes(fl, e, Config(mask), e)
         /\ \A ssh \in SUBSET {"fresh", "enabled", "disabled"} : Goes(fl, e, Markers(ssh), e)
         /\ \A there \in BOOLEAN : Goes(fl, e, Fixture(there), e)
         /\ \A m, n \in Holding : Goes(fl, e, Same(m, n), e) /\ Goes(fl, e, Differ(m, n), e)
<1>1. ASSUME NEW x, x.op \in Looks, IsList(<<x>>)
      PROVE  Goes(fl, e, <<x>>, e)
  <2>1. \A name : ~Writes(x, name)
    BY <1>1 DEF Writes, Looks
  <2>2. Leads(fl, e, x, e)
    BY <1>1, <2>1 DEF Leads, LeadsFrame, SamePlace, Stays
  <2> QED
    BY <1>1, <2>2, GoesOne
<1>2. Goes(fl, e, Alive, e) /\ Goes(fl, e, Classify, e)
  BY <1>1, SingleSteps DEF Alive, Classify, Looks, Plain, Yields
<1>3. /\ \A label \in Labels, n \in Holding : Goes(fl, e, Save(label, n), e)
      /\ \A checked \in RequiredChecks : Goes(fl, e, Record(checked), e)
      /\ \A label \in Labels : Goes(fl, e, PromoteShot(label), e)
  BY <1>1, Lists DEF Save, Record, PromoteShot, Looks
<1>4. /\ \A mask \in SUBSET Tiles : Goes(fl, e, Config(mask), e)
      /\ \A ssh \in SUBSET {"fresh", "enabled", "disabled"} : Goes(fl, e, Markers(ssh), e)
  BY <1>1, Lists DEF Config, Markers, Looks
<1>5. \A there \in BOOLEAN : Goes(fl, e, Fixture(there), e)
  <2> TAKE there \in BOOLEAN
  <2>1. IsList(Fixture(there))
    BY SingleSteps DEF Plain, Yields
  <2> QED
    BY <1>1, <2>1 DEF Fixture, Looks
<1>6. \A m, n \in Holding : Goes(fl, e, Same(m, n), e) /\ Goes(fl, e, Differ(m, n), e)
  <2> TAKE m, n \in Holding
  <2>1. IsList(Same(m, n)) /\ IsList(Differ(m, n))
    BY SingleSteps DEF Plain, Yields
  <2> QED
    BY <1>1, <2>1 DEF Same, Differ, Looks
<1> QED
  BY <1>2, <1>3, <1>4, <1>5, <1>6

\* A tap is one step.
LEMMA Touching == \A point : Tap(point) = <<[op |-> "touch", touch |-> Tapped(point)]>>
BY DEF Tap, Tapped

\* A session is started.
LEMMA GoesBoot ==
  ASSUME NEW fl, NEW e, NEW runtime \in Booted, NEW sd \in BOOLEAN, NEW p, e.present = p
  PROVE  LET ssh == IF e.at = "before" /\ runtime = Present THEN FreshSsh(fl) ELSE "any"
         IN Goes(fl, e, Boot(runtime, TRUE, sd, FALSE),
                 Spot("seen", Known(runtime, sd, NoMask, NoMask, ssh), p))
<1> DEFINE ssh == IF e.at = "before" /\ runtime = Present THEN FreshSsh(fl) ELSE "any"
           d == Known(runtime, sd, NoMask, NoMask, ssh)
           start == [op |-> "start", runtime |-> runtime, cfw |-> TRUE, sd |-> sd, crash |-> FALSE]
           ready == [op |-> "ready"]
           stable == [op |-> "stable", into |-> "launcher"]
<1>1. Leads(fl, e, start, Spot("booting", d, p))
  <2>1. ~Writes(start, "present")
    BY DEF Writes
  <2>2. LeadsBefore(fl, e, start, Spot("booting", d, p))
    BY Fields DEF LeadsBefore
  <2> QED
    BY <2>1, <2>2, LeadsOne, Fields
<1>2. Leads(fl, Spot("booting", d, p), ready, Spot("booting", d, p))
  <2>1. ~Writes(ready, "present")
    BY DEF Writes
  <2>2. LeadsBefore(fl, Spot("booting", d, p), ready, Spot("booting", d, p))
    BY Fields DEF LeadsBefore, SamePlace
  <2> QED
    BY <2>1, <2>2, LeadsOne, Fields
<1>3. Leads(fl, Spot("booting", d, p), stable, Spot("seen", d, p))
  <2>1. ~Writes(stable, "present")
    BY DEF Writes
  <2>2. LeadsBefore(fl, Spot("booting", d, p), stable, Spot("seen", d, p))
    BY Fields DEF LeadsBefore
  <2> QED
    BY <2>1, <2>2, LeadsOne, Fields
<1>4. IsList(Boot(runtime, TRUE, sd, FALSE))
  BY Starts DEF Plain, Yields
<1>5. /\ Len(Boot(runtime, TRUE, sd, FALSE)) = 3
      /\ Boot(runtime, TRUE, sd, FALSE)[1] = start
      /\ Boot(runtime, TRUE, sd, FALSE)[2] = ready
      /\ Boot(runtime, TRUE, sd, FALSE)[3] = stable
  BY DEF Boot
<1> DEFINE g == <<e, Spot("booting", d, p), Spot("booting", d, p), Spot("seen", d, p)>>
<1>6. /\ g[1] = e /\ g[2] = Spot("booting", d, p) /\ g[3] = Spot("booting", d, p)
      /\ g[4] = Spot("seen", d, p)
  OBVIOUS
<1> HIDE DEF d, start, ready, stable, g
<1>7. Goes(fl, e, Boot(runtime, TRUE, sd, FALSE), Spot("seen", d, p))
  <2>1. 1..3 = {1, 2, 3} /\ 1 + 1 = 2 /\ 2 + 1 = 3 /\ 3 + 1 = 4
    OBVIOUS
  <2>2. \A i \in 1..3 : Leads(fl, g[i], Boot(runtime, TRUE, sd, FALSE)[i], g[i + 1])
    BY <1>1, <1>2, <1>3, <1>5, <1>6, <2>1
  <2> QED
    BY <1>4, <1>5, <1>6, <2>1, <2>2 DEF Goes
<1> QED
  BY <1>7 DEF d

-------------------------------------------------------------------------------
\* The functions of the program.
Out(at, d, point, present) == Expect(at, d, NoScreen, point, Blank, present, Blank)

\* Saving a picture in the sidecar stays there.
LEMMA GoesSaveNow ==
  ASSUME NEW fl, NEW d, NEW x, NEW p, NEW label \in Labels
  PROVE  Goes(fl, On(d, x, p), SaveNow(label), On(d, x, p))
<1>1. Goes(fl, On(d, x, p), Capture("last"), On(d, x, p))
  <2>1. IsList(Capture("last"))
    BY Lists, Held
  <2>2. LeadsIn(fl, On(d, x, p), [op |-> "capture", into |-> "last"], On(d, x, p))
    BY Fields DEF LeadsIn, SamePlace
  <2>3. ~Writes([op |-> "capture", into |-> "last"], "present")
    BY DEF Writes
  <2> QED
    BY <2>1, <2>2, <2>3, GoesTo, Fields DEF Capture
<1>2. Goes(fl, On(d, x, p), Save(label, "last"), On(d, x, p))
  <2>1. Stays(On(d, x, p))
    BY Fields DEF Stays
  <2> QED
    BY <2>1, GoesLooking, Held
<1> QED
  BY <1>1, <1>2, GoesJoin DEF SaveNow

\* A trip to a tile goes there and back, or, without a way back, nowhere.
LEMMA GoesTrip ==
  ASSUME NEW fl, NEW at \in {"seen", "returned"}, NEW d, NEW p, NEW label \in Labels,
         NEW point \in Points
  PROVE  /\ Goes(fl, Spot(at, d, p), StockTileRoundtrip(label, point), Spot("returned", d, p))
         /\ NoReturn(fl, d.mask, point) =>
              Goes(fl, Spot(at, d, p), StockTileRoundtrip(label, point), Never)
<1> DEFINE sent == Out("sent", d, point, p)
           away == Out("away", d, point, p)
           returning == Out("returning", d, point, p)
           returned == Spot("returned", d, p)
<1>0. IsList(Capture("last")) /\ IsList(Tap(point)) /\ IsList(WaitChange("last"))
      /\ IsList(Tap(StockBack)) /\ IsList(WaitHash("launcher")) /\ IsList(Stable("last"))
  BY Lists, Held, Rows
<1>1. Goes(fl, Spot(at, d, p), Capture("last"), Spot("captured", d, p))
  <2>1. LeadsTrip(fl, Spot(at, d, p), [op |-> "capture", into |-> "last"], Spot("captured", d, p))
    BY Fields DEF LeadsTrip
  <2>2. ~Writes([op |-> "capture", into |-> "last"], "present")
    BY DEF Writes
  <2> QED
    BY <1>0, <2>1, <2>2, GoesTo, Fields DEF Capture
<1>2. Goes(fl, Spot("captured", d, p), Tap(point), sent)
  <2>1. LeadsTrip(fl, Spot("captured", d, p), [op |-> "touch", touch |-> Tapped(point)], sent)
    BY Fields DEF LeadsTrip, Out
  <2>2. ~Writes([op |-> "touch", touch |-> Tapped(point)], "present")
    BY DEF Writes
  <2> QED
    BY <1>0, <2>1, <2>2, GoesTo, Touching, Fields DEF Out
<1>3. Goes(fl, sent, WaitChange("last"), away)
  <2>1. LeadsTrip(fl, sent, [op |-> "change", from |-> "last"], away)
    BY Fields DEF LeadsTrip, Out
  <2>2. ~Writes([op |-> "change", from |-> "last"], "present")
    BY DEF Writes
  <2> QED
    BY <1>0, <2>1, <2>2, GoesTo, Fields DEF WaitChange, Out
<1>4. Goes(fl, away, Save(label, "last"), away)
  <2>1. Stays(away)
    BY Fields DEF Stays, Out
  <2> QED
    BY <2>1, GoesLooking, Held
<1>5. Goes(fl, away, Tap(StockBack), returning)
  <2>1. LeadsTrip(fl, away, [op |-> "touch", touch |-> Tapped(StockBack)], returning)
    BY Fields DEF LeadsTrip, Out
  <2>2. ~Writes([op |-> "touch", touch |-> Tapped(StockBack)], "present")
    BY DEF Writes
  <2> QED
    BY <1>0, <2>1, <2>2, GoesTo, Touching, Fields DEF Out
<1>6. /\ Goes(fl, returning, WaitHash("launcher"), returned)
      /\ NoReturn(fl, d.mask, point) => Goes(fl, returning, WaitHash("launcher"), Never)
  <2>1. LeadsTrip(fl, returning, [op |-> "hash", of |-> "launcher"], returned)
    BY Fields DEF LeadsTrip, Out
  <2>2. ~Writes([op |-> "hash", of |-> "launcher"], "present")
    BY DEF Writes
  <2>3. NoReturn(fl, d.mask, point)
          => LeadsTrip(fl, returning, [op |-> "hash", of |-> "launcher"], Never)
    BY Fields DEF LeadsTrip, Out
  <2> QED
    BY <1>0, <2>1, <2>2, <2>3, GoesTo, Fields DEF WaitHash, Out
<1>7. Goes(fl, returned, Stable("last"), returned)
  <2>1. LeadsTrip(fl, returned, [op |-> "stable", into |-> "last"], returned)
    BY Fields DEF LeadsTrip, SamePlace
  <2>2. ~Writes([op |-> "stable", into |-> "last"], "present")
    BY DEF Writes
  <2> QED
    BY <1>0, <2>1, <2>2, GoesTo, Fields DEF Stable
<1>8. Goes(fl, returned, Same("last", "launcher"), returned)
  <2>1. Stays(returned)
    BY Fields DEF Stays
  <2> QED
    BY <2>1, GoesLooking, Held
<1>9. IsList(Stable("last")) /\ IsList(Same("last", "launcher"))
  BY Lists, Held
<1> HIDE DEF sent, away, returning, returned
<1>10. Goes(fl, Spot(at, d, p), TapChange(point), away)
  <2>1. Goes(fl, Spot(at, d, p), Capture("last") \o Tap(point), sent)
    BY <1>1, <1>2, GoesJoin
  <2> QED
    BY <1>3, <2>1, GoesJoin DEF TapChange
<1>11. Goes(fl, Spot(at, d, p), TapChange(point) \o Save(label, "last") \o Tap(StockBack), returning)
  BY <1>4, <1>5, <1>10, GoesJoin
<1>12. ASSUME NEW f, Goes(fl, returning, WaitHash("launcher"), f), Goes(fl, f, Stable("last"), f),
              Goes(fl, f, Same("last", "launcher"), f)
       PROVE  Goes(fl, Spot(at, d, p), StockTileRoundtrip(label, point), f)
  <2>1. Goes(fl, Spot(at, d, p),
             TapChange(point) \o Save(label, "last") \o Tap(StockBack) \o WaitHash("launcher"), f)
    BY <1>11, <1>12, GoesJoin
  <2>2. Goes(fl, Spot(at, d, p),
             TapChange(point) \o Save(label, "last") \o Tap(StockBack) \o WaitHash("launcher")
             \o Stable("last"), f)
    BY <1>12, <2>1, GoesJoin
  <2> QED
    BY <1>12, <2>2, GoesJoin DEF StockTileRoundtrip
<1>13. Goes(fl, Spot(at, d, p), StockTileRoundtrip(label, point), returned)
  BY <1>6, <1>7, <1>8, <1>12
<1>14. NoReturn(fl, d.mask, point) => Goes(fl, Spot(at, d, p), StockTileRoundtrip(label, point), Never)
  BY <1>6, <1>9, <1>12, GoesNowhere
<1> QED
  BY <1>13, <1>14 DEF returned

\* The expectations at which a look changes nothing.
LEMMA Staying ==
  /\ \A at, d, p : at # "before" => Stays(Spot(at, d, p))
  /\ \A d, x, p : Stays(On(d, x, p))
BY Fields DEF Stays

\* A wait for a record is one step.
LEMMA Waiting ==
  \A wanted :
    /\ \E x : /\ WaitNewer(wanted) = <<x>> /\ x.op = "semantic" /\ x.wanted = wanted
             /\ x.newer = TRUE
    /\ \E x : WaitSemantic(wanted) = <<x>> /\ x.op = "semantic"
<1> TAKE wanted
<1> DEFINE new == [op |-> "semantic", wanted |-> wanted, newer |-> TRUE]
           old == [op |-> "semantic", wanted |-> wanted, newer |-> FALSE]
<1>1. new.op = "semantic" /\ new.wanted = wanted /\ (new.newer = TRUE) /\ old.op = "semantic"
  OBVIOUS
<1>2. WaitNewer(wanted) = <<new>> /\ WaitSemantic(wanted) = <<old>>
  BY DEF WaitNewer, WaitSemantic
<1> HIDE DEF new, old
<1> QED
  BY <1>1, <1>2

\* The sidecar is opened.
LEMMA GoesOpen ==
  ASSUME NEW fl, NEW at \in {"seen", "returned", "home"}, NEW d, NEW p, NEW point \in Points
  PROVE  Goes(fl, Spot(at, d, p), OpenCfw(point), On(d, Main(d), p))
<1> DEFINE opening == Out("opening", d, point, p)
           wanted == [screen |-> {"main"}, mask |-> SafeMasks]
           on == On(d, Main(d), p)
<1>0. IsList(Stable("base")) /\ IsList(ClearSemantic) /\ IsList(Tap(point))
      /\ IsList(WaitSemantic(wanted)) /\ IsList(WaitChange("base"))
  BY Lists, Wants, Held
<1>1. Goes(fl, Spot(at, d, p), Stable("base"), Spot("based", d, p))
  <2>1. LeadsIn(fl, Spot(at, d, p), [op |-> "stable", into |-> "base"], Spot("based", d, p))
    BY Fields DEF LeadsIn
  <2>2. ~Writes([op |-> "stable", into |-> "base"], "present")
    BY DEF Writes
  <2> QED
    BY <1>0, <2>1, <2>2, GoesTo, Fields DEF Stable
<1>2. Goes(fl, Spot("based", d, p), ClearSemantic, Spot("cleared", d, p))
  <2>1. LeadsIn(fl, Spot("based", d, p), [op |-> "clear"], Spot("cleared", d, p))
    BY Fields DEF LeadsIn
  <2>2. ~Writes([op |-> "clear"], "present")
    BY DEF Writes
  <2> QED
    BY <1>0, <2>1, <2>2, GoesTo, Fields DEF ClearSemantic
<1>3. Goes(fl, Spot("cleared", d, p), Tap(point), opening)
  <2>1. LeadsIn(fl, Spot("cleared", d, p), [op |-> "touch", touch |-> Tapped(point)], opening)
    BY Fields DEF LeadsIn, Out
  <2>2. ~Writes([op |-> "touch", touch |-> Tapped(point)], "present")
    BY DEF Writes
  <2> QED
    BY <1>0, <2>1, <2>2, GoesTo, Touching, Fields DEF Out
<1>4. Goes(fl, opening, WaitSemantic(wanted), on)
  <2>0. PICK x : /\ WaitSemantic(wanted) = <<x>> /\ x.op = "semantic"
    BY Waiting
  <2>1. LeadsIn(fl, opening, x, on)
    BY <2>0, Fields DEF LeadsIn, Out
  <2>2. ~Writes(x, "present")
    BY <2>0 DEF Writes
  <2> HIDE DEF wanted
  <2> QED
    BY <1>0, <2>0, <2>1, <2>2, GoesTo, Fields DEF Out
<1>5. Goes(fl, on, WaitChange("base"), on)
  <2>1. LeadsIn(fl, on, [op |-> "change", from |-> "base"], on)
    BY Fields DEF LeadsIn, SamePlace
  <2>2. ~Writes([op |-> "change", from |-> "base"], "present")
    BY DEF Writes
  <2> QED
    BY <1>0, <2>1, <2>2, GoesTo, Fields DEF WaitChange
<1> HIDE DEF opening, on
<1>6. Goes(fl, Spot(at, d, p), Stable("base") \o ClearSemantic \o Tap(point), opening)
  BY <1>1, <1>2, <1>3, GoesJoin
<1>7. Goes(fl, Spot(at, d, p), Stable("base") \o ClearSemantic \o Tap(point) \o WaitSemantic(wanted), on)
  BY <1>4, <1>6, GoesJoin
<1>8. Goes(fl, Spot(at, d, p), OpenCfw(point), on)
  BY <1>5, <1>7, GoesJoin DEF OpenCfw
<1> QED
  BY <1>8 DEF on

\* The record is read.
LEMMA GoesReading ==
  ASSUME NEW fl, NEW d, NEW x, NEW p
  PROVE  Goes(fl, On(d, x, p), Semantic, On(d, x, p))
<1>1. LeadsIn(fl, On(d, x, p), [op |-> "read"], On(d, x, p))
  BY Fields DEF LeadsIn, SamePlace
<1>2. ~Writes([op |-> "read"], "present")
  BY DEF Writes
<1>3. IsList(Semantic)
  BY Lists
<1> QED
  BY <1>1, <1>2, <1>3, GoesTo, Fields DEF Semantic

\* The sidecar is left.
LEMMA GoesLeave ==
  ASSUME NEW fl, NEW d, NEW p
  PROVE  Tests(fl, On(d, Main(d), p), LeaveCfw("base"), {"back_dead"}, Spot("home", Parted(fl, d), p))
<1> DEFINE on == On(d, Main(d), p)
           leaving == Spot("leaving", d, p)
           left == Spot("left", Parted(fl, d), p)
           home == Spot("home", Parted(fl, d), p)
           wanted == [screen |-> {"main"}, action |-> {"back"}, route |-> {"back"}]
<1>0. IsList(Tap(BackTouch)) /\ IsList(WaitNewer(wanted)) /\ IsList(WaitHash("base"))
  BY Lists, Wants, Rows, Held
<1>1. Goes(fl, on, Semantic, on)
  BY GoesReading
<1>2. Goes(fl, on, Tap(BackTouch), leaving)
  <2>1. LeadsOn(fl, on, [op |-> "touch", touch |-> Tapped(BackTouch)], leaving)
    BY Fields DEF LeadsOn, Main, Screen
  <2>2. ~Writes([op |-> "touch", touch |-> Tapped(BackTouch)], "present")
    BY DEF Writes
  <2> QED
    BY <1>0, <2>1, <2>2, GoesTo, Touching, Fields
<1>3. /\ Goes(fl, leaving, WaitNewer(wanted), left)
      /\ "back_dead" \in fl => Goes(fl, leaving, WaitNewer(wanted), Never)
  <2>0. PICK x : /\ WaitNewer(wanted) = <<x>> /\ x.op = "semantic" /\ x.newer = TRUE
    BY Waiting
  <2>1. LeadsOn(fl, leaving, x, left)
    BY <2>0, Fields DEF LeadsOn
  <2>2. ~Writes(x, "present")
    BY <2>0 DEF Writes
  <2>3. "back_dead" \in fl => LeadsOn(fl, leaving, x, Never)
    BY <2>0, Fields DEF LeadsOn
  <2> HIDE DEF wanted
  <2> QED
    BY <1>0, <2>0, <2>1, <2>2, <2>3, GoesTo, Fields
<1>4. Goes(fl, left, WaitHash("base"), home)
  <2>1. LeadsOn(fl, left, [op |-> "hash", of |-> "base"], home)
    BY Fields DEF LeadsOn
  <2>2. ~Writes([op |-> "hash", of |-> "base"], "present")
    BY DEF Writes
  <2> QED
    BY <1>0, <2>1, <2>2, GoesTo, Fields DEF WaitHash
<1> HIDE DEF on, leaving, left, home
<1>5. Goes(fl, on, Semantic \o Tap(BackTouch), leaving)
  BY <1>1, <1>2, GoesJoin
<1>6. Goes(fl, on, LeaveCfw("base"), home)
  <2>1. Goes(fl, on, Semantic \o Tap(BackTouch) \o WaitNewer(wanted), left)
    BY <1>3, <1>5, GoesJoin
  <2> QED
    BY <1>4, <2>1, GoesJoin DEF LeaveCfw
<1>7. "back_dead" \in fl => Goes(fl, on, LeaveCfw("base"), Never)
  <2> HAVE "back_dead" \in fl
  <2>1. Goes(fl, on, Semantic \o Tap(BackTouch) \o WaitNewer(wanted), Never)
    BY <1>3, <1>5, GoesJoin
  <2>2. Goes(fl, Never, WaitHash("base"), Never)
    BY <1>0, GoesNowhere
  <2> QED
    BY <2>1, <2>2, GoesJoin DEF LeaveCfw
<1>8. ~(fl \cap {"back_dead"} = {}) => "back_dead" \in fl
  OBVIOUS
<1> QED
  BY <1>6, <1>7, <1>8 DEF Tests, on, home

-------------------------------------------------------------------------------
\* A row is touched, and the record says what came of it.
With(d, x, last, present, settings) == Expect("quiet", d, x, "", last, present, settings)
Asking(d, x, what, last, present, settings) ==
  Expect("asked", d, x, what, last, present, settings)

\* The fields of the expectations in the sidecar.
LEMMA WithFields ==
  /\ \A d, x, p : On(d, x, p) = With(d, x, Blank, p, Blank)
  /\ \A d, x, l, p, s :
       /\ With(d, x, l, p, s).at = "quiet" /\ With(d, x, l, p, s).d = d
       /\ With(d, x, l, p, s).x = x /\ With(d, x, l, p, s).last = l
       /\ With(d, x, l, p, s).present = p /\ With(d, x, l, p, s).settings = s
  /\ \A d, x, w, l, p, s :
       /\ Asking(d, x, w, l, p, s).at = "asked" /\ Asking(d, x, w, l, p, s).d = d
       /\ Asking(d, x, w, l, p, s).x = x /\ Asking(d, x, w, l, p, s).touched = w
       /\ Asking(d, x, w, l, p, s).last = l /\ Asking(d, x, w, l, p, s).present = p
       /\ Asking(d, x, w, l, p, s).settings = s
BY DEF On, With, Asking, Expect

\* A step that leaves the frames alone.
LEMMA LeadsAlone ==
  ASSUME NEW fl, NEW e, NEW x, NEW f, x.op \in {"touch", "semantic"},
         f.last = e.last /\ f.present = e.present /\ f.settings = e.settings,
         LeadsOn(fl, e, x, f)
  PROVE  Leads(fl, e, x, f)
<1>1. \A name : ~Writes(x, name)
  BY DEF Writes
<1> QED
  BY <1>1 DEF Leads, LeadsFrame

\* A touch and the wait for its record go from a quiet sidecar to a quiet
\* sidecar, or nowhere when the record is not the one wanted.
LEMMA GoesAsk ==
  ASSUME NEW fl, NEW d, NEW x, NEW what, NEW l, NEW p, NEW s, NEW wanted \in Wanted,
         NEW y, IsList(<<y>>), y.op = "touch", y.touch = TouchOn(what), Answers(d, x, what)
  PROVE  /\ Goes(fl, With(d, x, l, p, s), <<y>> \o WaitNewer(wanted),
                 With(DiskAfter(fl, d, what), ScreenAfter(fl, d, x, what), l, p, s))
         /\ Unwanted(fl, Asking(d, x, what, l, p, s), wanted) =>
              Goes(fl, With(d, x, l, p, s), <<y>> \o WaitNewer(wanted), Never)
<1> DEFINE e == With(d, x, l, p, s)
           asking == Asking(d, x, what, l, p, s)
           d1 == DiskAfter(fl, d, what)
           x1 == ScreenAfter(fl, d, x, what)
           f == With(d1, x1, l, p, s)
<1>0. IsList(WaitNewer(wanted))
  BY Lists
<1>1. PICK z : /\ WaitNewer(wanted) = <<z>> /\ z.op = "semantic" /\ z.wanted = wanted
               /\ z.newer = TRUE
  BY Waiting
<1>2. Goes(fl, e, <<y>>, asking)
  <2>1. LeadsOn(fl, e, y, asking)
    BY WithFields DEF LeadsOn
  <2>2. Leads(fl, e, y, asking)
    BY <2>1, LeadsAlone, WithFields
  <2> QED
    BY <2>2, GoesOne
<1>3. Goes(fl, asking, WaitNewer(wanted), f)
  <2>1. LeadsOn(fl, asking, z, f)
    BY <1>1, WithFields DEF LeadsOn
  <2>2. Leads(fl, asking, z, f)
    BY <1>1, <2>1, LeadsAlone, WithFields
  <2> QED
    BY <1>0, <1>1, <2>2, GoesOne
<1>4. Unwanted(fl, asking, wanted) => Goes(fl, asking, WaitNewer(wanted), Never)
  <2> HAVE Unwanted(fl, asking, wanted)
  <2>1. LeadsOn(fl, asking, z, Never)
    BY <1>1, WithFields DEF LeadsOn
  <2>2. Leads(fl, asking, z, Never)
    BY <2>1, Fields DEF Leads, LeadsFrame
  <2> QED
    BY <1>0, <1>1, <2>2, GoesOne
<1> HIDE DEF e, asking, f
<1>5. Goes(fl, e, <<y>> \o WaitNewer(wanted), f)
  BY <1>2, <1>3, GoesJoin
<1>6. Unwanted(fl, asking, wanted) => Goes(fl, e, <<y>> \o WaitNewer(wanted), Never)
  BY <1>2, <1>4, GoesJoin
<1> QED
  BY <1>5, <1>6 DEF e, asking, f

\* What comes of a row of the main screen, and of the way back to it.
LEMMA MainAnswers ==
  ASSUME NEW fl, NEW d
  PROVE  /\ d.ssh # "any" => /\ Answers(d, Main(d), "ssh")
                             /\ DiskAfter(fl, d, "ssh")
                                  = Known(d.runtime, d.sd, d.mask, d.saved, Turned(d.ssh))
                             /\ ScreenAfter(fl, d, Main(d), "ssh") = Main(d)
         /\ \A what \in PageRows :
              /\ Answers(d, Main(d), what) /\ DiskAfter(fl, d, what) = d
              /\ ScreenAfter(fl, d, Main(d), what) = Screen(what, d.saved, FALSE)
              /\ \A notice, shows : Answers(d, Screen(what, shows, notice), "home")
         /\ DiskAfter(fl, d, "home") = d
<1>1. /\ Main(d).screen = "main"
      /\ \A screen, shows, notice : Screen(screen, shows, notice).screen = screen
  BY DEF Main, Screen
<1>2. d.ssh # "any" => /\ Answers(d, Main(d), "ssh")
                       /\ DiskAfter(fl, d, "ssh")
                            = Known(d.runtime, d.sd, d.mask, d.saved, Turned(d.ssh))
                       /\ ScreenAfter(fl, d, Main(d), "ssh") = Main(d)
  BY <1>1 DEF Answers, DiskAfter, ScreenAfter, Main, PageRows, TileRows
<1>3. ASSUME NEW what \in PageRows
      PROVE  /\ Answers(d, Main(d), what) /\ DiskAfter(fl, d, what) = d
             /\ ScreenAfter(fl, d, Main(d), what) = Screen(what, d.saved, FALSE)
             /\ \A notice, shows : Answers(d, Screen(what, shows, notice), "home")
  <2>1. what \notin TileRows /\ what \notin {"ssh", "home", "cfw"}
    BY DEF PageRows, TileRows
  <2> QED
    BY <1>1, <2>1 DEF Answers, DiskAfter, ScreenAfter
<1>4. DiskAfter(fl, d, "home") = d
  BY DEF DiskAfter, TileRows
<1> QED
  BY <1>2, <1>3, <1>4

CardFrame(fl, there) ==
  Frame("cfw", "sd", {}, IF there /\ "sd_not_seen" \notin fl THEN "card" ELSE "no card")

\* Saving the picture of the card's page holds that picture.
LEMMA GoesSaveCard ==
  ASSUME NEW fl, NEW d, NEW x, NEW p, NEW label \in Labels, x.screen = "sd"
  PROVE  Goes(fl, On(d, x, p), SaveNow(label), With(d, x, CardFrame(fl, d.sd), p, Blank))
<1> DEFINE f == With(d, x, CardFrame(fl, d.sd), p, Blank)
<1>1. Picture(fl, d, x) = CardFrame(fl, d.sd) /\ InPicture(x)
  BY DEF Picture, CardFrame, InPicture
<1> DEFINE y == [op |-> "capture", into |-> "last"]
<1>2. Capture("last") = <<y>> /\ y.op = "capture" /\ y.into = "last"
  BY DEF Capture
<1> HIDE DEF y
<1>3. Leads(fl, On(d, x, p), y, f)
  <2>1. LeadsIn(fl, On(d, x, p), y, f)
    <3>1. SamePlace(On(d, x, p), f)
      BY DEF SamePlace, On, With, Expect
    <3> QED
      BY <1>2, <3>1, Fields DEF LeadsIn
  <2>2. LeadsFrame(fl, On(d, x, p), y, "last", Blank, CardFrame(fl, d.sd))
    BY <1>1, <1>2, Fields DEF LeadsFrame
  <2>3. ~Writes(y, "present") /\ ~Writes(y, "settings")
    BY <1>2 DEF Writes
  <2> QED
    BY <2>1, <2>2, <2>3, Fields, WithFields DEF Leads, LeadsFrame
<1>4. Goes(fl, On(d, x, p), Capture("last"), f)
  <2>1. IsList(Capture("last"))
    BY Lists, Held
  <2> QED
    BY <1>2, <1>3, <2>1, GoesOne
<1>5. Goes(fl, f, Save(label, "last"), f)
  <2>1. Stays(f)
    BY WithFields DEF Stays
  <2> QED
    BY <2>1, GoesLooking, Held
<1> QED
  BY <1>4, <1>5, GoesJoin DEF SaveNow

\* A page is opened and left.
LEMMA GoesBack ==
  ASSUME NEW fl, NEW d, NEW x, NEW l, NEW p, x.screen \in PageRows
  PROVE  Goes(fl, With(d, x, l, p, Blank), BackToMain, With(d, Main(d), l, p, Blank))
<1> DEFINE wanted == [screen |-> {"main"}, action |-> {"back"}]
           y == [op |-> "touch", touch |-> Tapped(BackTouch)]
<1>1. Tap(BackTouch) = <<y>> /\ y.op = "touch" /\ y.touch = TouchOn("home")
  BY Touching DEF TouchOn, TileRows, PageRows
<1>2. wanted \in Wanted /\ IsList(Tap(BackTouch))
  BY Wants, Lists, Rows
<1>3. Answers(d, x, "home") /\ DiskAfter(fl, d, "home") = d
      /\ ScreenAfter(fl, d, x, "home") = Main(d)
  <2>1. Answers(d, x, "home")
    BY DEF Answers
  <2>2. DiskAfter(fl, d, "home") = d
    BY MainAnswers
  <2>3. ScreenAfter(fl, d, x, "home") = Main(d)
    BY DEF ScreenAfter, Main, PageRows, TileRows
  <2> QED
    BY <2>1, <2>2, <2>3
<1> HIDE DEF wanted, y
<1>4. Goes(fl, With(d, x, l, p, Blank), <<y>> \o WaitNewer(wanted), With(d, Main(d), l, p, Blank))
  BY <1>1, <1>2, <1>3, GoesAsk
<1> QED
  BY <1>1, <1>4 DEF BackToMain, wanted

\* A visit to a page goes back to the main page.
LEMMA GoesPage ==
  ASSUME NEW fl, NEW d, NEW p, NEW screen \in PageRows, NEW row \in Nat, NEW label \in Labels,
         TouchOn(screen) = Tapped(Row(row))
  PROVE  /\ Goes(fl, On(d, Main(d), p), CfwPage(row, screen, label), On(d, Main(d), p))
         /\ screen = "sd" =>
              Goes(fl, On(d, Main(d), p), CfwPage(row, screen, label),
                   With(d, Main(d), CardFrame(fl, d.sd), p, Blank))
<1> DEFINE on == On(d, Main(d), p)
           x == Screen(screen, d.saved, FALSE)
           wanted == [screen |-> {screen}]
           y == [op |-> "touch", touch |-> Tapped(Row(row))]
<1>1. Tap(Row(row)) = <<y>> /\ y.op = "touch" /\ y.touch = TouchOn(screen)
  BY Touching
<1>2. wanted \in Wanted /\ IsList(Tap(Row(row)))
  <2>1. screen \in Word
    BY DEF PageRows, Word
  <2> QED
    BY <2>1, Wants, Lists, Rows
<1>3. /\ Answers(d, Main(d), screen) /\ DiskAfter(fl, d, screen) = d
      /\ ScreenAfter(fl, d, Main(d), screen) = x
  BY MainAnswers
<1>4. x.screen = screen
  BY DEF Screen
<1>5. Goes(fl, on, Semantic, on)
  BY GoesReading
<1> HIDE DEF wanted, y, x
<1>6. Goes(fl, on, Tap(Row(row)) \o WaitNewer(wanted), On(d, x, p))
  <2>1. Goes(fl, With(d, Main(d), Blank, p, Blank), <<y>> \o WaitNewer(wanted),
             With(DiskAfter(fl, d, screen), ScreenAfter(fl, d, Main(d), screen), Blank, p, Blank))
    BY <1>1, <1>2, <1>3, GoesAsk
  <2> QED
    BY <1>1, <1>3, <2>1, WithFields DEF on
<1> DEFINE pages == Semantic \o Tap(Row(row)) \o WaitNewer(wanted)
<1>7. Goes(fl, on, pages, On(d, x, p))
  <2>1. Goes(fl, on, Semantic \o (Tap(Row(row)) \o WaitNewer(wanted)), On(d, x, p))
    BY <1>5, <1>6, GoesJoin
  <2>2. /\ Semantic \in Seq(Steps) /\ Tap(Row(row)) \in Seq(Steps)
        /\ WaitNewer(wanted) \in Seq(Steps)
    BY <1>2, Lists DEF IsList
  <2>3. Semantic \o (Tap(Row(row)) \o WaitNewer(wanted)) = pages
    BY <2>2
  <2> QED
    BY <2>1, <2>3
<1> HIDE DEF pages, on
<1>8. CfwPage(row, screen, label) = pages \o SaveNow(label) \o BackToMain
  BY DEF CfwPage, pages, wanted
<1>9. Goes(fl, on, CfwPage(row, screen, label), On(d, Main(d), p))
  <2>1. Goes(fl, On(d, x, p), SaveNow(label), On(d, x, p))
    BY GoesSaveNow
  <2>2. Goes(fl, On(d, x, p), BackToMain, On(d, Main(d), p))
    BY <1>4, GoesBack, WithFields
  <2>3. Goes(fl, on, pages \o SaveNow(label), On(d, x, p))
    BY <1>7, <2>1, GoesJoin
  <2> QED
    BY <1>8, <2>2, <2>3, GoesJoin
<1>10. ASSUME screen = "sd"
       PROVE  Goes(fl, on, CfwPage(row, screen, label),
                   With(d, Main(d), CardFrame(fl, d.sd), p, Blank))
  <2>1. Goes(fl, On(d, x, p), SaveNow(label), With(d, x, CardFrame(fl, d.sd), p, Blank))
    BY <1>4, <1>10, GoesSaveCard
  <2>2. Goes(fl, With(d, x, CardFrame(fl, d.sd), p, Blank), BackToMain,
             With(d, Main(d), CardFrame(fl, d.sd), p, Blank))
    BY <1>4, GoesBack
  <2>3. Goes(fl, on, pages \o SaveNow(label), With(d, x, CardFrame(fl, d.sd), p, Blank))
    BY <1>7, <2>1, GoesJoin
  <2> QED
    BY <1>8, <2>2, <2>3, GoesJoin
<1> QED
  BY <1>9, <1>10 DEF on

-------------------------------------------------------------------------------
\* Where the tiles lie.
LEMMA Counts ==
  /\ Cardinality({1, 5, 6, 7}) = 4 /\ Cardinality({1, 5, 6}) = 3 /\ Cardinality({1, 5}) = 2
  /\ Cardinality({1}) = 1 /\ Cardinality({1, 3}) = 2 /\ Cardinality({1, 3, 4}) = 3
  /\ Cardinality({1, 3, 4, 5}) = 4 /\ Cardinality({1, 3, 4, 5, 6}) = 5
  /\ Cardinality({1, 3, 4, 5, 6, 7}) = 6
<1>1. Cardinality({1}) = 1 /\ IsFiniteSet({1})
  BY FS_Singleton
<1>2. \A S, x, n : /\ IsFiniteSet(S) /\ Cardinality(S) = n /\ x \notin S
                   => IsFiniteSet(S \cup {x}) /\ Cardinality(S \cup {x}) = n + 1
  BY FS_AddElement
<1>3. /\ {1} \cup {5} = {1, 5} /\ {1, 5} \cup {6} = {1, 5, 6}
      /\ {1, 5, 6} \cup {7} = {1, 5, 6, 7}
      /\ {1} \cup {3} = {1, 3} /\ {1, 3} \cup {4} = {1, 3, 4}
      /\ {1, 3, 4} \cup {5} = {1, 3, 4, 5} /\ {1, 3, 4, 5} \cup {6} = {1, 3, 4, 5, 6}
      /\ {1, 3, 4, 5, 6} \cup {7} = {1, 3, 4, 5, 6, 7}
  OBVIOUS
<1>4. /\ 5 \notin {1} /\ 6 \notin {1, 5} /\ 7 \notin {1, 5, 6} /\ 3 \notin {1} /\ 4 \notin {1, 3}
      /\ 5 \notin {1, 3, 4} /\ 6 \notin {1, 3, 4, 5} /\ 7 \notin {1, 3, 4, 5, 6}
  OBVIOUS
<1>5. /\ IsFiniteSet({1, 5}) /\ Cardinality({1, 5}) = 1 + 1
      /\ IsFiniteSet({1, 3}) /\ Cardinality({1, 3}) = 1 + 1
  BY <1>1, <1>2, <1>3, <1>4
<1>6. /\ IsFiniteSet({1, 5, 6}) /\ Cardinality({1, 5, 6}) = 1 + 1 + 1
      /\ IsFiniteSet({1, 3, 4}) /\ Cardinality({1, 3, 4}) = 1 + 1 + 1
  BY <1>2, <1>3, <1>4, <1>5
<1>7. /\ Cardinality({1, 5, 6, 7}) = 1 + 1 + 1 + 1
      /\ IsFiniteSet({1, 3, 4, 5}) /\ Cardinality({1, 3, 4, 5}) = 1 + 1 + 1 + 1
  BY <1>2, <1>3, <1>4, <1>6
<1>8. IsFiniteSet({1, 3, 4, 5, 6}) /\ Cardinality({1, 3, 4, 5, 6}) = 1 + 1 + 1 + 1 + 1
  BY <1>2, <1>3, <1>4, <1>7
<1>9. Cardinality({1, 3, 4, 5, 6, 7}) = 1 + 1 + 1 + 1 + 1 + 1
  BY <1>2, <1>3, <1>4, <1>8
<1> QED
  BY <1>1, <1>5, <1>6, <1>7, <1>8, <1>9

\* When a point is inside a rectangle.
LEMMA InsideOf ==
  \A x, y, w, h, a, b : Inside(Rectangle(x, y, w, h), a, b)
    <=> (x <= a /\ a < x + w /\ y <= b /\ b < y + h)
BY DEF Inside, Rectangle

\* The tiles at the places that the script touches: of the default launcher,
LEMMA DefaultTiles ==
  /\ TilesAt(DefaultMask, MiddleRight) = {"cfw"}
  /\ TilesAt(DefaultMask, BottomWide) = {"about"}
<1>1. SelectedTiles(DefaultMask) = {1, 5, 6, 7}
  <2>1. 1..7 = {1, 2, 3, 4, 5, 6, 7}
    OBVIOUS
  <2> QED
    BY <2>1 DEF SelectedTiles, TileOrder, DefaultMask
<1> DEFINE place(i) == Cardinality({j \in {1, 5, 6, 7} : j <= i})
           at(i) == TileGeometry(4)[place(i)]
<1>2. /\ at(1) = Rectangle(0, 0, 480, 246) /\ at(5) = Rectangle(0, 246, 240, 246)
      /\ at(6) = Rectangle(240, 246, 240, 246) /\ at(7) = Rectangle(0, 492, 480, 258)
  <2>1. /\ {j \in {1, 5, 6, 7} : j <= 1} = {1} /\ {j \in {1, 5, 6, 7} : j <= 5} = {1, 5}
        /\ {j \in {1, 5, 6, 7} : j <= 6} = {1, 5, 6}
        /\ {j \in {1, 5, 6, 7} : j <= 7} = {1, 5, 6, 7}
    OBVIOUS
  <2>2. place(1) = 1 /\ place(5) = 2 /\ place(6) = 3 /\ place(7) = 4
    BY <2>1, Counts
  <2> HIDE DEF place
  <2>3. TileGeometry(4)
          = <<Rectangle(0, 0, 480, 246), Rectangle(0, 246, 240, 246),
              Rectangle(240, 246, 240, 246), Rectangle(0, 492, 480, 258)>>
    BY DEF TileGeometry
  <2> QED
    BY <2>2, <2>3
<1>3. ASSUME NEW point
      PROVE  TilesAt(DefaultMask, point)
               = {TileOrder[i] : i \in {j \in {1, 5, 6, 7} :
                                        Inside(at(j), point[1], point[2] - 50)}}
  BY <1>1, Counts DEF TilesAt, ViewTop
<1> HIDE DEF at
<1>4. /\ {j \in {1, 5, 6, 7} : Inside(at(j), 360, 419 - 50)} = {6}
      /\ {j \in {1, 5, 6, 7} : Inside(at(j), 240, 676 - 50)} = {7}
  BY <1>2, InsideOf
<1>5. /\ MiddleRight[1] = 360 /\ MiddleRight[2] = 419
      /\ BottomWide[1] = 240 /\ BottomWide[2] = 676
  BY DEF MiddleRight, BottomWide
<1>6. /\ TilesAt(DefaultMask, MiddleRight) = {TileOrder[i] : i \in {6}}
      /\ TilesAt(DefaultMask, BottomWide) = {TileOrder[i] : i \in {7}}
  BY <1>3, <1>4, <1>5
<1>7. TileOrder[6] = "cfw" /\ TileOrder[7] = "about"
  BY DEF TileOrder
<1> QED
  BY <1>6, <1>7

\* and of the other one with six tiles.
LEMMA AlternateTiles == TilesAt(AlternateSix, MiddleLeft) = {"ebook"}
<1>1. SelectedTiles(AlternateSix) = {1, 3, 4, 5, 6, 7}
  <2>1. 1..7 = {1, 2, 3, 4, 5, 6, 7}
    OBVIOUS
  <2> QED
    BY <2>1, Masks DEF SelectedTiles, TileOrder, AlternateSix
<1> DEFINE place(i) == Cardinality({j \in {1, 3, 4, 5, 6, 7} : j <= i})
           at(i) == TileGeometry(6)[place(i)]
<1>2. /\ at(1) = Rectangle(0, 0, 240, 246) /\ at(3) = Rectangle(240, 0, 240, 246)
      /\ at(4) = Rectangle(0, 246, 240, 246) /\ at(5) = Rectangle(240, 246, 240, 246)
      /\ at(6) = Rectangle(0, 492, 240, 246) /\ at(7) = Rectangle(240, 492, 240, 246)
  <2>1. /\ {j \in {1, 3, 4, 5, 6, 7} : j <= 1} = {1}
        /\ {j \in {1, 3, 4, 5, 6, 7} : j <= 3} = {1, 3}
        /\ {j \in {1, 3, 4, 5, 6, 7} : j <= 4} = {1, 3, 4}
        /\ {j \in {1, 3, 4, 5, 6, 7} : j <= 5} = {1, 3, 4, 5}
        /\ {j \in {1, 3, 4, 5, 6, 7} : j <= 6} = {1, 3, 4, 5, 6}
        /\ {j \in {1, 3, 4, 5, 6, 7} : j <= 7} = {1, 3, 4, 5, 6, 7}
    OBVIOUS
  <2>2. place(1) = 1 /\ place(3) = 2 /\ place(4) = 3 /\ place(5) = 4 /\ place(6) = 5 /\ place(7) = 6
    BY <2>1, Counts
  <2> HIDE DEF place
  <2>3. \A i \in 1..6 : TileGeometry(6)[i]
          = Rectangle(((i - 1) % 2) * 240, ((i - 1) \div 2) * 246, 240, 246)
    BY DEF TileGeometry
  <2>4. /\ ((1 - 1) % 2) * 240 = 0 /\ ((2 - 1) % 2) * 240 = 240 /\ ((3 - 1) % 2) * 240 = 0
        /\ ((4 - 1) % 2) * 240 = 240 /\ ((5 - 1) % 2) * 240 = 0 /\ ((6 - 1) % 2) * 240 = 240
        /\ ((1 - 1) \div 2) * 246 = 0 /\ ((2 - 1) \div 2) * 246 = 0
        /\ ((3 - 1) \div 2) * 246 = 246 /\ ((4 - 1) \div 2) * 246 = 246
        /\ ((5 - 1) \div 2) * 246 = 492 /\ ((6 - 1) \div 2) * 246 = 492
    OBVIOUS
  <2>5. {1, 2, 3, 4, 5, 6} \subseteq 1..6
    OBVIOUS
  <2> QED
    BY <2>2, <2>3, <2>4, <2>5
<1>3. TilesAt(AlternateSix, MiddleLeft)
        = {TileOrder[i] : i \in {j \in {1, 3, 4, 5, 6, 7} : Inside(at(j), 120, 419 - 50)}}
  BY <1>1, Counts DEF TilesAt, ViewTop, MiddleLeft
<1> HIDE DEF at
<1>4. {j \in {1, 3, 4, 5, 6, 7} : Inside(at(j), 120, 419 - 50)} = {4}
  BY <1>2, InsideOf
<1>5. TileOrder[4] = "ebook"
  BY DEF TileOrder
<1> QED
  BY <1>3, <1>4, <1>5

-------------------------------------------------------------------------------
\* Lists that test for flaws, put together.
LEMMA TestsOn ==
  /\ \A fl, e, s, set, f, t, h :
       Tests(fl, e, s, set, f) /\ Goes(fl, f, t, h) => Tests(fl, e, s \o t, set, h)
  /\ \A fl, e, s, set, f, t, h :
       Goes(fl, e, s, f) /\ Tests(fl, f, t, set, h) => Tests(fl, e, s \o t, set, h)
  /\ \A fl, e, s, set, f, t, h :
       Tests(fl, e, s, set, f) /\ Tests(fl, f, t, set, h) => Tests(fl, e, s \o t, set, h)
<1>1. \A set : set \cup {} = set /\ {} \cup set = set /\ set \cup set = set
  OBVIOUS
<1>2. ASSUME NEW fl, NEW e, NEW s, NEW set, NEW f, NEW t, NEW h,
             Tests(fl, e, s, set, f), Goes(fl, f, t, h)
      PROVE  Tests(fl, e, s \o t, set, h)
  <2>1. Tests(fl, e, s \o t, set \cup {}, h)
    BY <1>2, TestsNone, TestsJoin
  <2> QED
    BY <1>1, <2>1
<1>3. ASSUME NEW fl, NEW e, NEW s, NEW set, NEW f, NEW t, NEW h,
             Goes(fl, e, s, f), Tests(fl, f, t, set, h)
      PROVE  Tests(fl, e, s \o t, set, h)
  <2>1. Tests(fl, e, s \o t, {} \cup set, h)
    BY <1>3, TestsNone, TestsJoin
  <2> QED
    BY <1>1, <2>1
<1>4. ASSUME NEW fl, NEW e, NEW s, NEW set, NEW f, NEW t, NEW h,
             Tests(fl, e, s, set, f), Tests(fl, f, t, set, h)
      PROVE  Tests(fl, e, s \o t, set, h)
  <2>1. Tests(fl, e, s \o t, set \cup set, h)
    BY <1>4, TestsJoin
  <2> QED
    BY <1>1, <2>1
<1> QED
  BY <1>2, <1>3, <1>4

\* Opening and leaving sees a way back that is dead.
LEMMA GoesOpenAndLeave ==
  ASSUME NEW fl, NEW at \in {"seen", "returned", "home"}, NEW d, NEW p, NEW label \in Labels
  PROVE  Tests(fl, Spot(at, d, p), OpenAndLeave(label), {"back_dead"},
               Spot("home", Parted(fl, d), p))
<1>1. Goes(fl, Spot(at, d, p), OpenCfw(DefaultCfwTile), On(d, Main(d), p))
  BY GoesOpen, Rows
<1>2. Goes(fl, Spot(at, d, p), OpenCfw(DefaultCfwTile) \o SaveNow(label), On(d, Main(d), p))
  BY <1>1, GoesSaveNow, GoesJoin
<1> QED
  BY <1>2, GoesLeave, TestsOn DEF OpenAndLeave

\* Leaving a second time changes nothing more on the disk.
LEMMA PartedTwice == \A fl, d : Parted(fl, Parted(fl, d)) = Parted(fl, d)
<1> TAKE fl, d
<1>1. \A ssh : PartedSsh(fl, PartedSsh(fl, ssh)) = PartedSsh(fl, ssh)
  BY DEF PartedSsh
<1> QED
  BY <1>1 DEF Parted, Known

\* So do the three openings.
LEMMA GoesLifecycle ==
  ASSUME NEW fl, NEW d, NEW p
  PROVE  Tests(fl, Spot("returned", d, p), CfwLifecycle, {"back_dead"},
               Spot("home", Parted(fl, d), p))
<1> DEFINE home == Spot("home", Parted(fl, d), p)
<1>1. /\ {"cfw-lifecycle-1-main", "cfw-lifecycle-2-main", "cfw-lifecycle-3-main"} \subseteq Labels
      /\ {"cfw.lifecycle", "cfw.framebuffer-restore"} \subseteq RequiredChecks
  BY DEF Labels, SaidLabels, RequiredChecks
<1>2. Tests(fl, Spot("returned", d, p), OpenAndLeave("cfw-lifecycle-1-main"), {"back_dead"}, home)
  BY <1>1, GoesOpenAndLeave
<1>3. \A label \in Labels : Tests(fl, home, OpenAndLeave(label), {"back_dead"}, home)
  BY GoesOpenAndLeave, PartedTwice
<1>4. Goes(fl, home, Record("cfw.lifecycle"), home)
      /\ Goes(fl, home, Record("cfw.framebuffer-restore"), home)
  BY <1>1, Staying, GoesLooking
<1> HIDE DEF home
<1>5. Tests(fl, Spot("returned", d, p), OpenAndLeave("cfw-lifecycle-1-main")
              \o OpenAndLeave("cfw-lifecycle-2-main") \o OpenAndLeave("cfw-lifecycle-3-main"),
            {"back_dead"}, home)
  BY <1>1, <1>2, <1>3, TestsOn
<1>6. Tests(fl, Spot("returned", d, p), CfwLifecycle, {"back_dead"}, home)
  BY <1>4, <1>5, TestsOn DEF CfwLifecycle
<1> QED
  BY <1>6 DEF home

\* The configuration is what was expected.
LEMMA GoesConfig ==
  ASSUME NEW fl, NEW d, NEW p, NEW mask \in SUBSET Tiles, mask # NoMask
  PROVE  Goes(fl, Spot("seen", d, p), Config(mask),
              Spot("seen", Known(d.runtime, d.sd, Laid(fl, mask), mask, d.ssh), p))
<1> DEFINE f == Spot("seen", Known(d.runtime, d.sd, Laid(fl, mask), mask, d.ssh), p)
<1>1. LeadsBefore(fl, Spot("seen", d, p), [op |-> "config", mask |-> mask], f)
  BY Fields DEF LeadsBefore
<1>2. ~Writes([op |-> "config", mask |-> mask], "present")
  BY DEF Writes
<1>3. IsList(Config(mask))
  BY Lists
<1> QED
  BY <1>1, <1>2, <1>3, GoesTo, Fields DEF Config

\* What was drawn is of the mask; the SSH marker is as it was found.
Fresh(fl) == Known(Present, TRUE, DefaultMask, DefaultMask, FreshSsh(fl))

\* The trips from the default launcher see a tile that is dead.
LEMMA GoesDefaultRoutes ==
  ASSUME NEW fl, NEW e, NEW p, e.at = "before", e.present = p
  PROVE  Tests(fl, e, DefaultRoutes, {"tile_dead"}, Spot("returned", Fresh(fl), p))
<1> DEFINE d == Known(Present, TRUE, NoMask, NoMask, FreshSsh(fl))
           seen == Spot("seen", Fresh(fl), p)
           returned == Spot("returned", Fresh(fl), p)
<1>1. /\ {"default-launcher-71", "route-default-music", "route-default-system",
          "route-default-about"} \subseteq Labels
      /\ {"default.launcher.71", "default.stock-routes"} \subseteq RequiredChecks
  BY DEF Labels, SaidLabels, RequiredChecks
<1>2. Goes(fl, e, Boot(Present, TRUE, TRUE, FALSE), Spot("seen", d, p))
  BY GoesBoot DEF Booted, Present
<1>3. Goes(fl, Spot("seen", d, p), Save("default-launcher-71", "launcher"), Spot("seen", d, p))
  BY <1>1, Staying, GoesLooking, Held
<1>4. Goes(fl, Spot("seen", d, p), Config(DefaultMask), seen)
  <2>1. DefaultMask \in SUBSET Tiles /\ DefaultMask # NoMask
    BY Masks DEF DefaultMask, NoMask
  <2>2. Laid(fl, DefaultMask) = DefaultMask
    BY DEF Laid
  <2>3. d.runtime = Present /\ d.sd = TRUE /\ d.ssh = FreshSsh(fl)
    BY DEF Known
  <2> QED
    BY <2>1, <2>2, <2>3, GoesConfig DEF Fresh
<1>5. /\ Goes(fl, seen, Record("default.launcher.71"), seen)
      /\ Goes(fl, seen, PromoteShot("default-launcher-71"), seen)
      /\ Goes(fl, returned, Record("default.stock-routes"), returned)
  BY <1>1, Staying, GoesLooking
<1>6. /\ Goes(fl, seen, StockTileRoundtrip("route-default-music", TopWide), returned)
      /\ Goes(fl, returned, StockTileRoundtrip("route-default-system", MiddleLeft), returned)
      /\ Goes(fl, returned, StockTileRoundtrip("route-default-about", BottomWide), returned)
  BY <1>1, GoesTrip, TapPoints
<1>7. "tile_dead" \in fl =>
        Goes(fl, returned, StockTileRoundtrip("route-default-about", BottomWide), Never)
  <2>1. Fresh(fl).mask = DefaultMask /\ DefaultMask # NoMask
    BY DEF Fresh, Known, DefaultMask, NoMask
  <2>2. "tile_dead" \in fl => NoReturn(fl, Fresh(fl).mask, BottomWide)
    BY <2>1, DefaultTiles DEF NoReturn
  <2> QED
    BY <1>1, <2>2, GoesTrip, TapPoints
<1>8. Tests(fl, returned, StockTileRoundtrip("route-default-about", BottomWide), {"tile_dead"},
            returned)
  <2>1. ~(fl \cap {"tile_dead"} = {}) => "tile_dead" \in fl
    OBVIOUS
  <2> QED
    BY <1>6, <1>7, <2>1 DEF Tests
<1> HIDE DEF d, seen, returned
<1>9. Goes(fl, e, Boot(Present, TRUE, TRUE, FALSE) \o Save("default-launcher-71", "launcher")
             \o Config(DefaultMask) \o Record("default.launcher.71")
             \o PromoteShot("default-launcher-71"), seen)
  <2>1. Goes(fl, e, Boot(Present, TRUE, TRUE, FALSE) \o Save("default-launcher-71", "launcher")
               \o Config(DefaultMask), seen)
    BY <1>2, <1>3, <1>4, GoesJoin
  <2> QED
    BY <1>5, <2>1, GoesJoin
<1>10. Goes(fl, e, Boot(Present, TRUE, TRUE, FALSE) \o Save("default-launcher-71", "launcher")
             \o Config(DefaultMask) \o Record("default.launcher.71")
             \o PromoteShot("default-launcher-71")
             \o StockTileRoundtrip("route-default-music", TopWide)
             \o StockTileRoundtrip("route-default-system", MiddleLeft), returned)
  BY <1>6, <1>9, GoesJoin
<1>11. Tests(fl, e, DefaultRoutes, {"tile_dead"}, returned)
  BY <1>5, <1>8, <1>10, TestsOn DEF DefaultRoutes, Present
<1> QED
  BY <1>11 DEF returned

-------------------------------------------------------------------------------
\* The SSH row.
LEMMA GoesMarkers ==
  ASSUME NEW fl, NEW d, NEW x, NEW p, NEW ssh \in SUBSET {"fresh", "enabled", "disabled"},
         d.ssh # "any", d.ssh \notin ssh
  PROVE  Goes(fl, On(d, x, p), Markers(ssh), Never)
<1>1. LeadsIn(fl, On(d, x, p), [op |-> "markers", ssh |-> ssh], Never)
  BY Fields DEF LeadsIn
<1>2. IsList(Markers(ssh))
  BY Lists
<1> QED
  BY <1>1, <1>2, GoesTo, Fields DEF Markers

\* A touch of the SSH row turns the switch.
LEMMA GoesToggle ==
  ASSUME NEW fl, NEW d, NEW p, d.ssh # "any"
  PROVE  LET e == Known(d.runtime, d.sd, d.mask, d.saved, Turned(d.ssh))
         IN Goes(fl, On(d, Main(d), p), ToggleSsh, On(e, Main(e), p))
<1> DEFINE e == Known(d.runtime, d.sd, d.mask, d.saved, Turned(d.ssh))
           wanted == [action |-> {"ssh_toggle"}]
           y == [op |-> "touch", touch |-> Tapped(Row(0))]
<1>1. Tap(Row(0)) = <<y>> /\ y.op = "touch" /\ y.touch = TouchOn("ssh")
  BY Touching DEF TouchOn, TileRows, PageRows
<1>2. wanted \in Wanted /\ IsList(Tap(Row(0)))
  BY Wants, Lists, Rows
<1>3. /\ Answers(d, Main(d), "ssh") /\ DiskAfter(fl, d, "ssh") = e
      /\ ScreenAfter(fl, d, Main(d), "ssh") = Main(d)
  BY MainAnswers
<1>4. Main(d) = Main(e)
  BY DEF Main, Known
<1> HIDE DEF wanted, y, e
<1>5. Goes(fl, With(d, Main(d), Blank, p, Blank), <<y>> \o WaitNewer(wanted),
           With(e, Main(d), Blank, p, Blank))
  <2>1. Goes(fl, With(d, Main(d), Blank, p, Blank), <<y>> \o WaitNewer(wanted),
             With(DiskAfter(fl, d, "ssh"), ScreenAfter(fl, d, Main(d), "ssh"), Blank, p, Blank))
    BY <1>1, <1>2, <1>3, GoesAsk
  <2> QED
    BY <1>3, <2>1
<1>6. Goes(fl, On(d, Main(d), p), ToggleSsh, On(e, Main(e), p))
  BY <1>1, <1>4, <1>5, WithFields DEF ToggleSsh, wanted
<1> QED
  BY <1>6 DEF e

\* The part about the SSH row sees a switch that is on at first, or forgets.
LEMMA GoesSshToggles ==
  ASSUME NEW fl, NEW runtime, NEW sd, NEW mask, NEW saved, NEW p
  PROVE  LET d == Known(runtime, sd, mask, saved, PartedSsh(fl, FreshSsh(fl)))
             e == Known(runtime, sd, mask, saved, "disabled")
         IN Tests(fl, Spot("home", d, p), SshToggles,
                  {"starts_enabled", "ssh_forgotten", "back_dead"}, On(e, Main(e), p))
<1> DEFINE d == Known(runtime, sd, mask, saved, PartedSsh(fl, FreshSsh(fl)))
           on == Known(runtime, sd, mask, saved, "enabled")
           kept == Known(runtime, sd, mask, saved, PartedSsh(fl, "enabled"))
           e == Known(runtime, sd, mask, saved, Turned(PartedSsh(fl, "enabled")))
           set == {"starts_enabled", "ssh_forgotten", "back_dead"}
           opens == OpenCfw(DefaultCfwTile) \o SaveNow("cfw-main-sd-present")
                    \o PromoteShot("cfw-main-sd-present")
           fresh == opens \o Markers({"fresh", "disabled"})
           turns == fresh \o SaveNow("ssh-off")
                    \o ToggleSsh \o Markers({"enabled"}) \o SaveNow("ssh-on-no-wifi")
           leaves == turns \o LeaveCfw("base")
           again == leaves \o OpenCfw(DefaultCfwTile) \o SaveNow("ssh-on-after-reopen") \o ToggleSsh
           off == again \o Markers({"disabled"})
<1>0. SshToggles = off \o SaveNow("ssh-off-again") \o Record("cfw.ssh")
  BY DEF SshToggles
<1>1. /\ {"cfw-main-sd-present", "ssh-off", "ssh-on-no-wifi", "ssh-on-after-reopen",
          "ssh-off-again"} \subseteq Labels
      /\ "cfw.ssh" \in RequiredChecks
  BY DEF Labels, SaidLabels, RequiredChecks
<1>2. /\ {"fresh", "disabled"} \in SUBSET {"fresh", "enabled", "disabled"}
      /\ {"enabled"} \in SUBSET {"fresh", "enabled", "disabled"}
      /\ {"disabled"} \in SUBSET {"fresh", "enabled", "disabled"}
  OBVIOUS
<1>3. /\ d.ssh = PartedSsh(fl, FreshSsh(fl)) /\ d.ssh \in {"fresh", "enabled", "disabled"}
      /\ Parted(fl, on) = kept /\ kept.ssh = PartedSsh(fl, "enabled")
      /\ kept.ssh \in {"enabled", "disabled"}
      /\ e.ssh = Turned(PartedSsh(fl, "enabled"))
      /\ Known(kept.runtime, kept.sd, kept.mask, kept.saved, Turned(kept.ssh)) = e
  BY DEF Known, PartedSsh, FreshSsh, Parted
<1>4. d.ssh # "enabled"
        => Known(d.runtime, d.sd, d.mask, d.saved, Turned(d.ssh)) = on
  BY DEF Known, Turned
<1>5. Goes(fl, Spot("home", d, p), opens, On(d, Main(d), p))
  <2>1. Goes(fl, Spot("home", d, p), OpenCfw(DefaultCfwTile), On(d, Main(d), p))
    BY GoesOpen, Rows
  <2>2. Goes(fl, On(d, Main(d), p), PromoteShot("cfw-main-sd-present"), On(d, Main(d), p))
    BY <1>1, Staying, GoesLooking
  <2>3. Goes(fl, Spot("home", d, p), OpenCfw(DefaultCfwTile) \o SaveNow("cfw-main-sd-present"),
             On(d, Main(d), p))
    BY <1>1, <2>1, GoesSaveNow, GoesJoin
  <2> QED
    BY <2>2, <2>3, GoesJoin
<1>6. /\ IsList(OpenCfw(DefaultCfwTile)) /\ IsList(ToggleSsh) /\ IsList(LeaveCfw("base"))
      /\ IsList(Markers({"enabled"})) /\ IsList(Markers({"disabled"}))
      /\ \A label \in Labels : IsList(SaveNow(label))
      /\ IsList(Record("cfw.ssh"))
  BY <1>1, <1>2, Lists, Rows, Held
<1> HIDE DEF opens, d, on, kept, e
<1>7. ASSUME d.ssh = "enabled"
      PROVE  Tests(fl, Spot("home", d, p), SshToggles, set, On(e, Main(e), p))
  <2>1. "starts_enabled" \in fl
    BY <1>3, <1>7 DEF PartedSsh, FreshSsh
  <2>2. Goes(fl, On(d, Main(d), p), Markers({"fresh", "disabled"}), Never)
    BY <1>2, <1>7, GoesMarkers
  <2>3. Goes(fl, Spot("home", d, p), fresh, Never)
    BY <1>5, <2>2, GoesJoin
  <2> HIDE DEF fresh
  <2>4. Goes(fl, Spot("home", d, p), turns, Never)
    BY <1>1, <1>6, <2>3, GoesJoin, GoesNowhere
  <2>5. Goes(fl, Spot("home", d, p), leaves, Never)
    BY <1>6, <2>4, GoesJoin, GoesNowhere
  <2> HIDE DEF leaves
  <2>6. Goes(fl, Spot("home", d, p), again, Never)
    BY <1>1, <1>6, <2>5, GoesJoin, GoesNowhere
  <2>7. Goes(fl, Spot("home", d, p), off, Never)
    BY <1>6, <2>6, GoesJoin, GoesNowhere
  <2> HIDE DEF off
  <2>8. Goes(fl, Spot("home", d, p), SshToggles, Never)
    BY <1>0, <1>1, <1>6, <2>7, GoesJoin, GoesNowhere
  <2> QED
    BY <2>1, <2>8 DEF Tests
<1>8. ASSUME d.ssh # "enabled"
      PROVE  Tests(fl, Spot("home", d, p), SshToggles, set, On(e, Main(e), p))
  <2>1. Goes(fl, Spot("home", d, p), fresh, On(d, Main(d), p))
    <3>1. Goes(fl, On(d, Main(d), p), Markers({"fresh", "disabled"}), On(d, Main(d), p))
      BY <1>2, Staying, GoesLooking
    <3> QED
      BY <1>5, <3>1, GoesJoin
  <2> HIDE DEF fresh
  <2>2. Goes(fl, Spot("home", d, p), turns, On(on, Main(on), p))
    <3>1. Goes(fl, On(d, Main(d), p), ToggleSsh, On(on, Main(on), p))
      BY <1>3, <1>4, <1>8, GoesToggle
    <3>2. Goes(fl, On(on, Main(on), p), Markers({"enabled"}), On(on, Main(on), p))
      BY <1>2, Staying, GoesLooking
    <3>3. Goes(fl, Spot("home", d, p), fresh \o SaveNow("ssh-off") \o ToggleSsh,
               On(on, Main(on), p))
      BY <1>1, <2>1, <3>1, GoesSaveNow, GoesJoin
    <3> QED
      BY <1>1, <3>2, <3>3, GoesSaveNow, GoesJoin
  <2> HIDE DEF turns
  <2>3. Tests(fl, Spot("home", d, p), leaves, {"back_dead"}, Spot("home", kept, p))
    BY <1>3, <2>2, GoesLeave, TestsOn
  <2> HIDE DEF leaves
  <2>4. Tests(fl, Spot("home", d, p), again, {"back_dead"}, On(e, Main(e), p))
    <3>1. Goes(fl, Spot("home", kept, p), OpenCfw(DefaultCfwTile), On(kept, Main(kept), p))
      BY GoesOpen, Rows
    <3>2. Goes(fl, On(kept, Main(kept), p), ToggleSsh, On(e, Main(e), p))
      BY <1>3, GoesToggle
    <3>3. Tests(fl, Spot("home", d, p),
                leaves \o OpenCfw(DefaultCfwTile) \o SaveNow("ssh-on-after-reopen"), {"back_dead"},
                On(kept, Main(kept), p))
      BY <1>1, <2>3, <3>1, GoesSaveNow, TestsOn
    <3> QED
      BY <3>2, <3>3, TestsOn
  <2> HIDE DEF again
  <2>5. Tests(fl, On(e, Main(e), p), Markers({"disabled"}), {"ssh_forgotten"}, On(e, Main(e), p))
    <3>1. Goes(fl, On(e, Main(e), p), Markers({"disabled"}), On(e, Main(e), p))
      BY <1>2, Staying, GoesLooking
    <3>2. "ssh_forgotten" \in fl => e.ssh = "enabled"
      BY <1>3 DEF PartedSsh, Turned
    <3>3. "ssh_forgotten" \in fl => Goes(fl, On(e, Main(e), p), Markers({"disabled"}), Never)
      BY <1>2, <3>2, GoesMarkers
    <3>4. ~(fl \cap {"ssh_forgotten"} = {}) => "ssh_forgotten" \in fl
      OBVIOUS
    <3> QED
      BY <3>1, <3>3, <3>4 DEF Tests
  <2>6. Tests(fl, Spot("home", d, p), off, {"back_dead"} \cup {"ssh_forgotten"}, On(e, Main(e), p))
    BY <2>4, <2>5, TestsJoin
  <2> HIDE DEF off
  <2>7. Tests(fl, Spot("home", d, p), SshToggles, {"back_dead"} \cup {"ssh_forgotten"},
              On(e, Main(e), p))
    <3>1. Goes(fl, On(e, Main(e), p), Record("cfw.ssh"), On(e, Main(e), p))
      BY <1>1, Staying, GoesLooking
    <3>2. Tests(fl, Spot("home", d, p), off \o SaveNow("ssh-off-again"),
                {"back_dead"} \cup {"ssh_forgotten"}, On(e, Main(e), p))
      BY <1>1, <2>6, GoesSaveNow, TestsOn
    <3> QED
      BY <1>0, <3>1, <3>2, TestsOn
  <2>8. "starts_enabled" \in fl => "ssh_forgotten" \in fl
    BY <1>3, <1>8 DEF PartedSsh, FreshSsh
  <2>9. (fl \cap set = {}) = (fl \cap ({"back_dead"} \cup {"ssh_forgotten"}) = {})
    BY <2>8
  <2> QED
    BY <2>7, <2>9 DEF Tests
<1>9. Tests(fl, Spot("home", d, p), SshToggles, set, On(e, Main(e), p))
  BY <1>7, <1>8
<1>10. fl \cap set = {} => e = Known(runtime, sd, mask, saved, "disabled")
  BY DEF e, PartedSsh, Turned
<1> QED
  BY <1>9, <1>10 DEF Tests, d

-------------------------------------------------------------------------------
(***************************************************************************)
(* The sessions of which nothing, or nothing more, is expected.            *)
(***************************************************************************)
Outset == Spot("before", Unknown, Blank)
Vague(e) == e = Outset \/ \E p : e = Loose(p)

\* At an expectation of nothing no picture is held.
LEMMA IdleFields ==
  \A e : Vague(e) => /\ e.at \in {"before", "loose"} /\ e.last = Blank /\ e.settings = Blank
BY Fields DEF Vague, Outset, Loose

\* Every step but a start stays there,
LEMMA IdleStep ==
  ASSUME NEW fl, NEW e, Vague(e), NEW x, IsList(<<x>>), ~Writes(x, "present"), x.op # "start"
  PROVE  Goes(fl, e, <<x>>, e)
<1>1. e.at = "loose" \/ LeadsBefore(fl, e, x, e)
  BY IdleFields DEF LeadsBefore
<1> QED
  BY <1>1, IdleFields, GoesTo

\* so every helper of one step does,
LEMMA IdleSteps ==
  ASSUME NEW fl, NEW e, Vague(e)
  PROVE  /\ Goes(fl, e, Shutdown, e) /\ Goes(fl, e, Alive, e) /\ Goes(fl, e, Classify, e)
         /\ Goes(fl, e, ClearSemantic, e) /\ Goes(fl, e, Semantic, e)
         /\ \A n \in Holding : Goes(fl, e, WaitChange(n), e) /\ Goes(fl, e, WaitHash(n), e)
         /\ \A n \in Holding \ {"present"} : Goes(fl, e, Stable(n), e) /\ Goes(fl, e, Capture(n), e)
         /\ \A m, n \in Holding : Goes(fl, e, Same(m, n), e)
         /\ \A q \in Points : Goes(fl, e, Tap(q), e) /\ Goes(fl, e, Drag(q), e)
         /\ \A checked \in RequiredChecks : Goes(fl, e, Record(checked), e)
         /\ \A label \in Labels, n \in Holding : Goes(fl, e, Save(label, n), e)
         /\ \A mask \in SUBSET Tiles : Goes(fl, e, Config(mask), e)
         /\ \A there \in BOOLEAN : Goes(fl, e, Fixture(there), e)
         /\ \A ssh \in SUBSET {"fresh", "enabled", "disabled"} : Goes(fl, e, Markers(ssh), e)
         /\ \A command \in Commands, expected \in {0, 1} :
              Goes(fl, e, ControllerRun(command, expected), e)
         /\ \A trial \in Trials : Goes(fl, e, Authenticate(trial), e)
         /\ \A wanted \in Wanted : Goes(fl, e, WaitSemantic(wanted), e)
                                   /\ Goes(fl, e, WaitNewer(wanted), e)
<1>0. \A s : Plain(s) => IsList(s)
  BY DEF Plain, Yields
<1> USE IdleStep DEF Writes
<1>1. Goes(fl, e, Shutdown, e) /\ Goes(fl, e, Alive, e) /\ Goes(fl, e, Classify, e)
      /\ Goes(fl, e, ClearSemantic, e) /\ Goes(fl, e, Semantic, e)
  BY <1>0, SingleSteps DEF Shutdown, Alive, Classify, ClearSemantic, Semantic
<1>2. \A n \in Holding : Goes(fl, e, WaitChange(n), e) /\ Goes(fl, e, WaitHash(n), e)
  BY Lists DEF WaitChange, WaitHash
<1>3. \A n \in Holding \ {"present"} : Goes(fl, e, Stable(n), e) /\ Goes(fl, e, Capture(n), e)
  BY Lists DEF Stable, Capture
<1>4. \A m, n \in Holding : Goes(fl, e, Same(m, n), e)
  BY Lists DEF Same
<1>5. \A q \in Points : Goes(fl, e, Tap(q), e) /\ Goes(fl, e, Drag(q), e)
  BY Lists DEF Tap, Drag
<1>6. \A checked \in RequiredChecks : Goes(fl, e, Record(checked), e)
  BY Lists DEF Record
<1>7. \A label \in Labels, n \in Holding : Goes(fl, e, Save(label, n), e)
  BY Lists DEF Save
<1>8. /\ \A mask \in SUBSET Tiles : Goes(fl, e, Config(mask), e)
      /\ \A ssh \in SUBSET {"fresh", "enabled", "disabled"} : Goes(fl, e, Markers(ssh), e)
  BY Lists DEF Config, Markers
<1>9. \A there \in BOOLEAN : Goes(fl, e, Fixture(there), e)
  BY <1>0, SingleSteps DEF Fixture
<1>10. /\ \A command \in Commands, expected \in {0, 1} :
            Goes(fl, e, ControllerRun(command, expected), e)
       /\ \A trial \in Trials : Goes(fl, e, Authenticate(trial), e)
  BY <1>0, SingleSteps DEF ControllerRun, Authenticate
<1>11. \A wanted \in Wanted : Goes(fl, e, WaitSemantic(wanted), e)
                               /\ Goes(fl, e, WaitNewer(wanted), e)
  <2> TAKE wanted \in Wanted
  <2>1. PICK y, z : /\ WaitNewer(wanted) = <<y>> /\ y.op = "semantic"
                    /\ WaitSemantic(wanted) = <<z>> /\ z.op = "semantic"
    BY Waiting
  <2> QED
    BY <2>1, Lists
<1> QED
  BY <1>1, <1>2, <1>3, <1>4, <1>5, <1>6, <1>7, <1>8, <1>9, <1>10, <1>11

\* and the helpers of several.
LEMMA IdleFunctions ==
  ASSUME NEW fl, NEW e, Vague(e)
  PROVE  /\ \A label \in Labels : Goes(fl, e, SaveNow(label), e)
         /\ \A q \in Points : Goes(fl, e, TapChange(q), e) /\ Goes(fl, e, OpenCfw(q), e)
         /\ Goes(fl, e, BackToMain, e) /\ Goes(fl, e, LeaveCfw("base"), e)
         /\ \A row \in Nat, mask \in SUBSET Tiles : Goes(fl, e, Toggles(row, mask), e)
         /\ \A label \in Labels, q \in Points : Goes(fl, e, StockTileRoundtrip(label, q), e)
<1> USE IdleSteps, GoesJoin
<1>0. {"last", "base", "launcher"} \subseteq Holding \ {"present"}
  BY DEF Holding
<1>1. \A label \in Labels : Goes(fl, e, SaveNow(label), e)
  BY <1>0 DEF SaveNow
<1>2. \A q \in Points : Goes(fl, e, TapChange(q), e)
  BY <1>0, Zenon DEF TapChange
<1>3. \A q \in Points : Goes(fl, e, OpenCfw(q), e)
  <2> TAKE q \in Points
  <2>1. Goes(fl, e, Stable("base") \o ClearSemantic \o Tap(q), e)
    BY <1>0
  <2>2. Goes(fl, e, WaitSemantic([screen |-> {"main"}, mask |-> SafeMasks]), e)
    BY Wants
  <2>3. Goes(fl, e, WaitChange("base"), e)
    BY <1>0
  <2>4. Goes(fl, e, Stable("base") \o ClearSemantic \o Tap(q)
               \o WaitSemantic([screen |-> {"main"}, mask |-> SafeMasks]), e)
    BY <2>1, <2>2, Zenon
  <2> QED
    BY <2>3, <2>4, Zenon DEF OpenCfw
<1>4. Goes(fl, e, BackToMain, e) /\ Goes(fl, e, LeaveCfw("base"), e)
  <2>1. Goes(fl, e, Semantic \o Tap(BackTouch), e)
    BY Rows
  <2>2. /\ Goes(fl, e, Tap(BackTouch), e)
        /\ Goes(fl, e, WaitNewer([screen |-> {"main"}, action |-> {"back"}]), e)
        /\ Goes(fl, e, WaitNewer([screen |-> {"main"}, action |-> {"back"},
                                  route |-> {"back"}]), e)
        /\ Goes(fl, e, WaitHash("base"), e)
    BY <1>0, Wants, Rows
  <2>3. Goes(fl, e, Semantic \o Tap(BackTouch)
               \o WaitNewer([screen |-> {"main"}, action |-> {"back"}, route |-> {"back"}]), e)
    BY <2>1, <2>2, Zenon
  <2>4. Goes(fl, e, LeaveCfw("base"), e)
    BY <2>2, <2>3, Zenon DEF LeaveCfw
  <2>5. Goes(fl, e, BackToMain, e)
    BY <2>2, Zenon DEF BackToMain
  <2> QED
    BY <2>4, <2>5
<1>5. \A row \in Nat, mask \in SUBSET Tiles : Goes(fl, e, Toggles(row, mask), e)
  BY Wants, Rows, Zenon DEF Toggles
<1>6. \A label \in Labels, q \in Points : Goes(fl, e, StockTileRoundtrip(label, q), e)
  <2> TAKE label \in Labels, q \in Points
  <2>1. Goes(fl, e, TapChange(q) \o Save(label, "last") \o Tap(StockBack), e)
    BY <1>0, <1>2, Rows
  <2>2. Goes(fl, e, TapChange(q) \o Save(label, "last") \o Tap(StockBack) \o WaitHash("launcher")
               \o Stable("last"), e)
    BY <1>0, <2>1
  <2> QED
    BY <1>0, <2>2 DEF StockTileRoundtrip
<1> QED
  BY <1>1, <1>2, <1>3, <1>4, <1>5, <1>6

\* Any session from which nothing is expected.
LEMMA IdleBoot ==
  ASSUME NEW fl, NEW e, Vague(e), NEW runtime \in Booted, NEW cfw \in BOOLEAN, NEW sd \in BOOLEAN,
         NEW crash \in BOOLEAN, e.at = "before" => runtime = "stock" /\ cfw = FALSE
  PROVE  Goes(fl, e, Boot(runtime, cfw, sd, crash), e)
<1> DEFINE start == [op |-> "start", runtime |-> runtime, cfw |-> cfw, sd |-> sd, crash |-> crash]
           ready == [op |-> "ready"]
           stable == [op |-> "stable", into |-> "launcher"]
<1>1. IsList(Boot(runtime, cfw, sd, crash))
  BY Starts DEF Plain, Yields
<1>2. /\ Boot(runtime, cfw, sd, crash) = <<start, ready, stable>>
  BY DEF Boot
<1>3. ASSUME NEW x \in {start, ready, stable}
      PROVE  Leads(fl, e, x, e)
  <2>1. ~Writes(x, "present")
    BY <1>3 DEF Writes
  <2>2. e.at = "loose" \/ LeadsBefore(fl, e, x, e)
    BY <1>3, IdleFields DEF LeadsBefore
  <2> HIDE DEF start, ready, stable
  <2> QED
    BY <2>1, <2>2, IdleFields, LeadsOne
<1> DEFINE g == <<e, e, e, e>>
<1>4. /\ Len(<<start, ready, stable>>) = 3 /\ <<start, ready, stable>>[1] = start
      /\ <<start, ready, stable>>[2] = ready /\ <<start, ready, stable>>[3] = stable
      /\ g[1] = e /\ g[2] = e /\ g[3] = e /\ g[4] = e
  OBVIOUS
<1> HIDE DEF g, start, ready, stable
<1>5. Goes(fl, e, Boot(runtime, cfw, sd, crash), e)
  <2>1. 1..3 = {1, 2, 3} /\ 1 + 1 = 2 /\ 2 + 1 = 3 /\ 3 + 1 = 4
    OBVIOUS
  <2>2. \A i \in 1..3 : Leads(fl, g[i], <<start, ready, stable>>[i], g[i + 1])
    BY <1>3, <1>4, <2>1
  <2> QED
    BY <1>1, <1>2, <1>4, <2>1, <2>2 DEF Goes
<1> QED
  BY <1>5

\* Nothing is expected of the stock session and the SSH trials,
LEMMA GoesStart ==
  ASSUME NEW fl
  PROVE  /\ Goes(fl, Outset, Record("preflight.exact-candidate"), Outset)
         /\ Goes(fl, Outset, ValidateSshRuntime, Outset) /\ Goes(fl, Outset, ValidateStock, Outset)
<1>0. Vague(Outset)
  BY DEF Vague
<1>1. /\ {"preflight.exact-candidate", "ssh.runtime-auth", "stock.launcher",
          "stock.mp3-fixture"} \subseteq RequiredChecks
      /\ {"mp3-path-Jay", "mp3-path-Lukrembo", "mp3-path-Music",
         "mp3-selection-or-decoder-state", "stock-launcher"} \subseteq Labels
  BY DEF RequiredChecks, Labels, SaidLabels
<1>2. Goes(fl, Outset, Record("preflight.exact-candidate"), Outset)
  BY <1>0, <1>1, IdleSteps
<1>3. /\ \A command \in Commands, expected \in {0, 1} :
           Goes(fl, Outset, ControllerRun(command, expected), Outset)
      /\ \A trial \in Trials : Goes(fl, Outset, Authenticate(trial), Outset)
      /\ Goes(fl, Outset, Markers({"enabled"}), Outset)
      /\ Goes(fl, Outset, Markers({"disabled"}), Outset)
      /\ Goes(fl, Outset, Record("ssh.runtime-auth"), Outset)
  BY <1>0, <1>1, IdleSteps
<1>4. Goes(fl, Outset, ControllerRun("disable", 0) \o ControllerRun("is-enabled", 1)
             \o ControllerRun("toggle", 0) \o ControllerRun("is-enabled", 0)
             \o ControllerRun("toggle", 0) \o ControllerRun("is-enabled", 1)
             \o ControllerRun("enable", 0), Outset)
  BY <1>3, GoesJoin DEF Commands
<1>5. Goes(fl, Outset, ControllerRun("disable", 0) \o ControllerRun("is-enabled", 1)
             \o ControllerRun("toggle", 0) \o ControllerRun("is-enabled", 0)
             \o ControllerRun("toggle", 0) \o ControllerRun("is-enabled", 1)
             \o ControllerRun("enable", 0) \o ControllerRun("is-enabled", 0)
             \o ControllerRun("status", 1) \o Markers({"enabled"})
             \o GuestTool("dropbear -V") \o GuestTool("dropbearkey"), Outset)
  BY <1>3, <1>4, GoesJoin DEF Commands, GuestTool
<1>6. Goes(fl, Outset, ValidateSshRuntime, Outset)
  BY <1>3, <1>5, GoesJoin DEF ValidateSshRuntime, Commands, Trials
<1>7. /\ Goes(fl, Outset, Boot("stock", FALSE, TRUE, FALSE), Outset)
      /\ Goes(fl, Outset, Classify, Outset) /\ Goes(fl, Outset, Fixture(TRUE), Outset)
      /\ Goes(fl, Outset, Save("stock-launcher", "launcher"), Outset)
      /\ Goes(fl, Outset, Record("stock.launcher"), Outset)
      /\ Goes(fl, Outset, TapChange(UpperLeft), Outset)
      /\ Goes(fl, Outset, TapChange(StockFiles), Outset)
      /\ Goes(fl, Outset, TapChange(FirstItem), Outset)
      /\ Goes(fl, Outset, Save("mp3-path-Music", "last"), Outset)
      /\ Goes(fl, Outset, Save("mp3-path-Lukrembo", "last"), Outset)
      /\ Goes(fl, Outset, Save("mp3-path-Jay", "last"), Outset)
      /\ Goes(fl, Outset, Save("mp3-selection-or-decoder-state", "last"), Outset)
      /\ Goes(fl, Outset, Record("stock.mp3-fixture"), Outset)
      /\ Goes(fl, Outset, Shutdown, Outset)
  BY <1>0, <1>1, IdleSteps, IdleFunctions, IdleBoot, Held, TapPoints DEF Booted
<1>8. Goes(fl, Outset, Boot("stock", FALSE, TRUE, FALSE) \o Classify
             \o Save("stock-launcher", "launcher") \o Record("stock.launcher")
             \o Fixture(TRUE) \o TapChange(UpperLeft), Outset)
  BY <1>7, GoesJoin, Zenon
<1>9. Goes(fl, Outset, Boot("stock", FALSE, TRUE, FALSE) \o Classify
             \o Save("stock-launcher", "launcher") \o Record("stock.launcher")
             \o Fixture(TRUE) \o TapChange(UpperLeft) \o TapChange(StockFiles)
             \o TapChange(FirstItem) \o Save("mp3-path-Music", "last")
             \o TapChange(FirstItem) \o Save("mp3-path-Lukrembo", "last"), Outset)
  BY <1>7, <1>8, GoesJoin, Zenon
<1>10. Goes(fl, Outset, ValidateStock, Outset)
  BY <1>7, <1>9, GoesJoin, Zenon DEF ValidateStock
<1> QED
  BY <1>2, <1>6, <1>10

\* nor once the launcher's state is let go,
LEMMA LooseIsIdle == \A p : Vague(Loose(p))
BY DEF Vague

\* as in the session of the crash,
LEMMA GoesCrash ==
  ASSUME NEW fl, NEW p
  PROVE  Goes(fl, Loose(p), ValidateCrashRecovery, Loose(p))
<1> DEFINE e == Loose(p)
           wanted == [screen |-> {"main"}, mask |-> {DefaultMask}]
<1>1. Vague(e) /\ e.at = "loose"
  BY LooseIsIdle, Fields DEF Loose
<1>2. /\ {"cfw.crash-recovery"} \subseteq RequiredChecks
      /\ {"stock-touch-after-cfw-crash"} \subseteq Labels
  BY DEF RequiredChecks, Labels, SaidLabels
<1> HIDE DEF e
<1>3. /\ Goes(fl, e, Boot("candidate-crash", TRUE, TRUE, TRUE), e)
      /\ Goes(fl, e, ClearSemantic, e)
      /\ Goes(fl, e, Tap(DefaultCfwTile), e)
      /\ Goes(fl, e, WaitSemantic(wanted), e)
      /\ Goes(fl, e, WaitHash("launcher"), e)
      /\ Goes(fl, e, Alive, e)
      /\ Goes(fl, e, TapChange(TopWide), e)
      /\ Goes(fl, e, Save("stock-touch-after-cfw-crash", "last"), e)
      /\ Goes(fl, e, Tap(StockBack), e)
      /\ Goes(fl, e, Record("cfw.crash-recovery"), e)
      /\ Goes(fl, e, Shutdown, e)
  BY <1>1, <1>2, IdleSteps, IdleFunctions, IdleBoot, Held, TapPoints, Wants, Rows DEF Booted
<1> DEFINE opens == Boot("candidate-crash", TRUE, TRUE, TRUE) \o ClearSemantic
                    \o Tap(DefaultCfwTile) \o WaitSemantic(wanted)
<1>4. Goes(fl, e, opens, e)
  BY <1>3, GoesJoin, Zenon
<1>5. Goes(fl, e, opens \o WaitHash("launcher") \o Alive \o TapChange(TopWide)
             \o Save("stock-touch-after-cfw-crash", "last"), e)
  <2> HIDE DEF opens
  <2> QED
    BY <1>3, <1>4, GoesJoin, Zenon
<1>6. Goes(fl, e, ValidateCrashRecovery, e)
  BY <1>3, <1>5, GoesJoin, Zenon DEF ValidateCrashRecovery
<1> QED
  BY <1>6 DEF e

\* and after a hand-over to a wireless page.
LEMMA GoesWireless ==
  ASSUME NEW fl, NEW p, NEW checked \in RequiredChecks, NEW row \in Nat, NEW route \in Word,
         NEW action \in Word, NEW label \in Labels
  PROVE  Goes(fl, Loose(p), WirelessRoute(checked, row, route, action, label), Loose(p))
<1> DEFINE e == Loose(p)
           wanted == [route |-> {route}, action |-> {action}]
<1>1. Vague(e)
  BY LooseIsIdle
<1>2. "cfw" \in Holding \ {"present"} /\ wanted \in Wanted
  BY Wants DEF Holding
<1> HIDE DEF e
<1>3. /\ Goes(fl, e, OpenCfw(DefaultCfwTile), e)
      /\ Goes(fl, e, Capture("cfw"), e)
      /\ Goes(fl, e, Tap(Row(row)), e)
      /\ Goes(fl, e, WaitNewer(wanted), e)
      /\ Goes(fl, e, WaitChange("cfw"), e)
      /\ Goes(fl, e, Save(label, "last"), e)
      /\ Goes(fl, e, Tap(StockBack), e)
      /\ Goes(fl, e, WaitHash("base"), e)
      /\ Goes(fl, e, Record(checked), e)
  BY <1>1, <1>2, IdleSteps, IdleFunctions, Held, Rows
<1> DEFINE opens == OpenCfw(DefaultCfwTile) \o Capture("cfw") \o Tap(Row(row))
                    \o WaitNewer(wanted)
<1>4. Goes(fl, e, opens, e)
  BY <1>3, GoesJoin, Zenon
<1>5. Goes(fl, e, opens \o WaitChange("cfw") \o Save(label, "last") \o Tap(StockBack), e)
  <2> HIDE DEF opens
  <2> QED
    BY <1>3, <1>4, GoesJoin, Zenon
<1>6. Goes(fl, e, WirelessRoute(checked, row, route, action, label), e)
  BY <1>3, <1>5, GoesJoin, Zenon DEF WirelessRoute
<1> QED
  BY <1>6 DEF e

-------------------------------------------------------------------------------
\* The pages of the main screen; the picture of the card is kept.
LEMMA PageTouches ==
  /\ TouchOn("launcher") = Tapped(Row(3)) /\ TouchOn("internal") = Tapped(Row(4))
  /\ TouchOn("sd") = Tapped(Row(5)) /\ TouchOn("memory") = Tapped(Row(6))
  /\ TouchOn("system") = Tapped(Row(7)) /\ TouchOn("about") = Tapped(Row(8))
BY DEF TouchOn

\* Keeping the last picture as that of the card.
LEMMA GoesKeep ==
  ASSUME NEW fl, NEW d, NEW x, NEW l, NEW p
  PROVE  Goes(fl, With(d, x, l, p, Blank), <<[op |-> "keep", of |-> "last", into |-> "present"]>>,
              On(d, x, l))
<1> DEFINE y == [op |-> "keep", of |-> "last", into |-> "present"]
           e == With(d, x, l, p, Blank)
<1>1. IsList(<<y>>)
  BY Lists, Held
<1>2. y.op = "keep" /\ y.of = "last" /\ y.into = "present"
  OBVIOUS
<1> HIDE DEF y
<1>3. SamePlace(e, On(d, x, l))
  BY DEF SamePlace, On, With, Expect
<1>4. LeadsIn(fl, e, y, On(d, x, l))
  BY <1>2, <1>3, WithFields DEF LeadsIn
<1>5. LeadsFrame(fl, e, y, "present", p, l)
  BY <1>2, WithFields DEF LeadsFrame
<1>6. Leads(fl, e, y, On(d, x, l))
  BY <1>4, <1>5, Fields, WithFields DEF Leads, LeadsFrame
<1> QED
  BY <1>1, <1>6, GoesOne DEF y

\* The information pages go back to the main page, and the picture of the
\* card is held.
LEMMA GoesInformation ==
  ASSUME NEW fl, NEW d, NEW p
  PROVE  Goes(fl, On(d, Main(d), p), InformationPages, On(d, Main(d), CardFrame(fl, d.sd)))
<1> DEFINE c == CardFrame(fl, d.sd)
           keeps == <<[op |-> "keep", of |-> "last", into |-> "present"]>>
<1>1. /\ {"internal-storage", "microsd-present", "memory", "system-information",
          "about-cfw"} \subseteq Labels
      /\ {"cfw.information-pages", "storage.sd-present"} \subseteq RequiredChecks
      /\ {"internal", "sd", "memory", "system", "about"} \subseteq PageRows
  BY DEF Labels, SaidLabels, RequiredChecks, PageRows
<1>2. Goes(fl, On(d, Main(d), p), CfwPage(4, "internal", "internal-storage"), On(d, Main(d), p))
  BY <1>1, PageTouches, GoesPage
<1>3. Goes(fl, On(d, Main(d), p), CfwPage(5, "sd", "microsd-present"),
           With(d, Main(d), c, p, Blank))
  BY <1>1, PageTouches, GoesPage
<1>4. Goes(fl, With(d, Main(d), c, p, Blank), keeps, On(d, Main(d), c))
  BY GoesKeep
<1> HIDE DEF c
<1>5. /\ Goes(fl, On(d, Main(d), c), CfwPage(6, "memory", "memory"), On(d, Main(d), c))
      /\ Goes(fl, On(d, Main(d), c), CfwPage(7, "system", "system-information"),
              On(d, Main(d), c))
      /\ Goes(fl, On(d, Main(d), c), CfwPage(8, "about", "about-cfw"), On(d, Main(d), c))
  BY <1>1, PageTouches, GoesPage
<1>6. /\ Goes(fl, On(d, Main(d), c), Record("cfw.information-pages"), On(d, Main(d), c))
      /\ Goes(fl, On(d, Main(d), c), Record("storage.sd-present"), On(d, Main(d), c))
  BY <1>1, Staying, GoesLooking
<1> HIDE DEF keeps
<1>7. Goes(fl, On(d, Main(d), p), CfwPage(4, "internal", "internal-storage")
             \o CfwPage(5, "sd", "microsd-present") \o keeps, On(d, Main(d), c))
  BY <1>2, <1>3, <1>4, GoesJoin
<1>8. Goes(fl, On(d, Main(d), p), CfwPage(4, "internal", "internal-storage")
             \o CfwPage(5, "sd", "microsd-present") \o keeps
             \o CfwPage(6, "memory", "memory") \o CfwPage(7, "system", "system-information")
             \o CfwPage(8, "about", "about-cfw"), On(d, Main(d), c))
  BY <1>5, <1>7, GoesJoin, Zenon
<1>9. Goes(fl, On(d, Main(d), p), InformationPages, On(d, Main(d), c))
  BY <1>6, <1>8, GoesJoin, Zenon DEF InformationPages, keeps
<1> QED
  BY <1>9 DEF c

-------------------------------------------------------------------------------
\* The masks of the launcher settings.
LEMMA MaskSizes ==
  /\ Cardinality(DefaultMask) = 4 /\ Cardinality(DefaultMask \cup {"stream"}) = 5
  /\ Cardinality(SixTiles) = 6 /\ Cardinality(Tiles) = 7
<1>1. \A S, x, n : /\ IsFiniteSet(S) /\ Cardinality(S) = n /\ x \notin S
                   => IsFiniteSet(S \cup {x}) /\ Cardinality(S \cup {x}) = n + 1
  BY FS_AddElement
<1>2. IsFiniteSet({"music"}) /\ Cardinality({"music"}) = 1
  BY FS_Singleton
<1>3. /\ {"music"} \cup {"system"} = {"music", "system"}
      /\ {"music", "system"} \cup {"cfw"} = {"music", "system", "cfw"}
      /\ {"music", "system", "cfw"} \cup {"about"} = DefaultMask
      /\ (DefaultMask \cup {"stream"}) \cup {"wireless"} = SixTiles
      /\ SixTiles \cup {"ebook"} = Tiles
  BY Masks DEF DefaultMask, SixTiles
<1>4. /\ "system" \notin {"music"} /\ "cfw" \notin {"music", "system"}
      /\ "about" \notin {"music", "system", "cfw"} /\ "stream" \notin DefaultMask
      /\ "wireless" \notin DefaultMask \cup {"stream"} /\ "ebook" \notin SixTiles
  BY DEF DefaultMask, SixTiles
<1>5. IsFiniteSet({"music", "system"}) /\ Cardinality({"music", "system"}) = 1 + 1
  BY <1>1, <1>2, <1>3, <1>4
<1>6. /\ IsFiniteSet({"music", "system", "cfw"})
      /\ Cardinality({"music", "system", "cfw"}) = 1 + 1 + 1
  BY <1>1, <1>3, <1>4, <1>5
<1>7. IsFiniteSet(DefaultMask) /\ Cardinality(DefaultMask) = 1 + 1 + 1 + 1
  BY <1>1, <1>3, <1>4, <1>6
<1>8. /\ IsFiniteSet(DefaultMask \cup {"stream"})
      /\ Cardinality(DefaultMask \cup {"stream"}) = 1 + 1 + 1 + 1 + 1
  BY <1>1, <1>4, <1>7
<1>9. IsFiniteSet(SixTiles) /\ Cardinality(SixTiles) = 1 + 1 + 1 + 1 + 1 + 1
  BY <1>1, <1>3, <1>4, <1>8
<1>10. Cardinality(Tiles) = 1 + 1 + 1 + 1 + 1 + 1 + 1
  BY <1>1, <1>3, <1>4, <1>9
<1> QED
  BY <1>7, <1>8, <1>9, <1>10

\* The masks that the settings run through.
LEMMA Settings77 ==
  /\ Flip(DefaultMask, "stream") = DefaultMask \cup {"stream"}
  /\ ValidMask(DefaultMask \cup {"stream"})
  /\ Flip(DefaultMask \cup {"stream"}, "wireless") = SixTiles /\ ValidMask(SixTiles)
  /\ Flip(SixTiles, "ebook") = Tiles /\ ~ValidMask(Tiles) /\ Tiles # SixTiles
  /\ DefaultMask # NoMask /\ DefaultMask \cup {"stream"} # NoMask /\ SixTiles # NoMask
  /\ SixTiles \ {"cfw"} # NoMask /\ SixTiles \ {"cfw"} # SixTiles
BY Masks, MaskSizes DEF Flip, ValidMask, DefaultMask, SixTiles, NoMask

\* What comes of a row of the launcher settings.
LEMMA SettingsAnswer ==
  ASSUME NEW fl, NEW d, NEW x, x.screen = "launcher", x.shows # NoMask, d.saved # NoMask
  PROVE  /\ \A what \in TileRows :
              /\ Answers(d, x, what)
              /\ DiskAfter(fl, d, what)
                   = Known(d.runtime, d.sd, d.mask, SavedAfter(fl, d.saved, what), d.ssh)
              /\ Takes(fl, d.saved, what) =>
                   /\ ScreenAfter(fl, d, x, what) = Screen("launcher", Flip(x.shows, what), FALSE)
                   /\ ActionAfter(fl, d, what) = "launcher_toggle"
              /\ ~Takes(fl, d.saved, what) =>
                   /\ ScreenAfter(fl, d, x, what)
                        = Screen("launcher", x.shows, Cardinality(d.saved) = 6)
         /\ Answers(d, x, "cfw")
         /\ "cfw_unlocked" \in fl =>
              ScreenAfter(fl, d, x, "cfw") = Screen("launcher", x.shows \ {"cfw"}, FALSE)
<1>1. ASSUME NEW what \in TileRows
      PROVE  /\ Answers(d, x, what)
             /\ DiskAfter(fl, d, what)
                  = Known(d.runtime, d.sd, d.mask, SavedAfter(fl, d.saved, what), d.ssh)
             /\ Takes(fl, d.saved, what) =>
                  /\ ScreenAfter(fl, d, x, what) = Screen("launcher", Flip(x.shows, what), FALSE)
                  /\ ActionAfter(fl, d, what) = "launcher_toggle"
             /\ ~Takes(fl, d.saved, what) =>
                  /\ ScreenAfter(fl, d, x, what)
                       = Screen("launcher", x.shows, Cardinality(d.saved) = 6)
  <2>1. what \notin PageRows /\ what \notin {"ssh", "home", "cfw"}
    BY DEF PageRows, TileRows
  <2>2. Answers(d, x, what)
    BY DEF Answers
  <2>3. DiskAfter(fl, d, what)
          = Known(d.runtime, d.sd, d.mask, SavedAfter(fl, d.saved, what), d.ssh)
    BY <2>1 DEF DiskAfter
  <2>4. ScreenAfter(fl, d, x, what)
          = IF Takes(fl, d.saved, what) THEN Screen(x.screen, Flip(x.shows, what), FALSE)
            ELSE Screen(x.screen, x.shows, Cardinality(d.saved) = 6)
    BY <2>1 DEF ScreenAfter
  <2>5. ActionAfter(fl, d, what)
          = IF Takes(fl, d.saved, what) THEN "launcher_toggle" ELSE "launcher_rejected"
    BY <2>1 DEF ActionAfter
  <2> QED
    BY <2>2, <2>3, <2>4, <2>5
<1>2. Answers(d, x, "cfw")
  BY DEF Answers
<1>3. "cfw_unlocked" \in fl =>
        ScreenAfter(fl, d, x, "cfw") = Screen("launcher", x.shows \ {"cfw"}, FALSE)
  BY DEF ScreenAfter, PageRows, TileRows
<1> QED
  BY <1>1, <1>2, <1>3

\* Blocks are joined in any grouping.
LEMMA Together ==
  ASSUME NEW a, NEW b, NEW c, IsList(a), IsList(b), IsList(c)
  PROVE  (a \o b) \o c = a \o (b \o c)
BY DEF IsList

\* A row is touched after something else.
LEMMA GoesAskNext ==
  ASSUME NEW fl, NEW e, NEW z, NEW d, NEW x, NEW what, NEW l, NEW p, NEW s, NEW wanted \in Wanted,
         NEW point \in Points, Tapped(point) = TouchOn(what), Answers(d, x, what),
         Goes(fl, e, z, With(d, x, l, p, s))
  PROVE  /\ Goes(fl, e, z \o Tap(point) \o WaitNewer(wanted),
                 With(DiskAfter(fl, d, what), ScreenAfter(fl, d, x, what), l, p, s))
         /\ Unwanted(fl, Asking(d, x, what, l, p, s), wanted) =>
              Goes(fl, e, z \o Tap(point) \o WaitNewer(wanted), Never)
<1> DEFINE y == [op |-> "touch", touch |-> Tapped(point)]
<1>1. Tap(point) = <<y>> /\ y.op = "touch" /\ y.touch = TouchOn(what)
  BY Touching
<1>2. IsList(z) /\ IsList(Tap(point)) /\ IsList(WaitNewer(wanted))
  BY Lists DEF Goes
<1>3. z \o Tap(point) \o WaitNewer(wanted) = z \o (Tap(point) \o WaitNewer(wanted))
  BY <1>2, Together
<1> HIDE DEF y
<1>4. /\ Goes(fl, With(d, x, l, p, s), <<y>> \o WaitNewer(wanted),
              With(DiskAfter(fl, d, what), ScreenAfter(fl, d, x, what), l, p, s))
      /\ Unwanted(fl, Asking(d, x, what, l, p, s), wanted) =>
           Goes(fl, With(d, x, l, p, s), <<y>> \o WaitNewer(wanted), Never)
  BY <1>1, <1>2, GoesAsk
<1> DEFINE asks == <<y>> \o WaitNewer(wanted)
           f == With(DiskAfter(fl, d, what), ScreenAfter(fl, d, x, what), l, p, s)
           unwanted == Unwanted(fl, Asking(d, x, what, l, p, s), wanted)
<1>5. z \o Tap(point) \o WaitNewer(wanted) = z \o asks
  BY <1>1, <1>3
<1> HIDE DEF asks, f, unwanted
<1>6. /\ Goes(fl, e, z \o asks, f)
      /\ unwanted => Goes(fl, e, z \o asks, Never)
  <2>1. /\ Goes(fl, With(d, x, l, p, s), asks, f)
        /\ unwanted => Goes(fl, With(d, x, l, p, s), asks, Never)
    BY <1>4 DEF asks, f, unwanted
  <2> QED
    BY <2>1, GoesJoin
<1> QED
  BY <1>5, <1>6 DEF f, unwanted

\* The rows of the launcher page that the script touches.
LEMMA TileTouches ==
  /\ TouchOn("stream") = Tapped(Row(1)) /\ TouchOn("wireless") = Tapped(Row(2))
  /\ TouchOn("ebook") = Tapped(Row(3)) /\ TouchOn("cfw") = Tapped(Row(5))
BY DEF TouchOn

\* A tile that is taken.
LEMMA TileAnswer ==
  ASSUME NEW fl, NEW d, NEW x, NEW what \in TileRows, x.screen = "launcher", x.shows # NoMask,
         d.saved # NoMask, Takes(fl, d.saved, what)
  PROVE  /\ Answers(d, x, what)
         /\ DiskAfter(fl, d, what)
              = Known(d.runtime, d.sd, d.mask, SavedAfter(fl, d.saved, what), d.ssh)
         /\ ScreenAfter(fl, d, x, what) = Screen("launcher", Flip(x.shows, what), FALSE)
<1>1. Answers(d, x, what)
  BY SettingsAnswer
<1>2. DiskAfter(fl, d, what)
        = Known(d.runtime, d.sd, d.mask, SavedAfter(fl, d.saved, what), d.ssh)
  BY DEF DiskAfter, TileRows
<1>3. ScreenAfter(fl, d, x, what) = Screen("launcher", Flip(x.shows, what), FALSE)
  BY DEF ScreenAfter, PageRows, TileRows
<1> QED
  BY <1>1, <1>2, <1>3

\* A tile is chosen.
LEMMA GoesChoose ==
  ASSUME NEW fl, NEW runtime, NEW sd, NEW laid, NEW ssh, NEW mask \in SUBSET Tiles, NEW p,
         NEW what \in TileRows, NEW row \in Nat, TouchOn(what) = Tapped(Row(row)),
         mask # NoMask, ValidMask(Flip(mask, what)), Flip(mask, what) \in SUBSET Tiles
  PROVE  Goes(fl, On(Known(runtime, sd, laid, mask, ssh), Screen("launcher", mask, FALSE), p),
              Toggles(row, Flip(mask, what)),
              On(Known(runtime, sd, laid, Flip(mask, what), ssh),
                 Screen("launcher", Flip(mask, what), FALSE), p))
<1> DEFINE d == Known(runtime, sd, laid, mask, ssh)
           x == Screen("launcher", mask, FALSE)
           e == Known(runtime, sd, laid, Flip(mask, what), ssh)
           z == Screen("launcher", Flip(mask, what), FALSE)
           wanted == [screen |-> {"launcher"}, action |-> {"launcher_toggle"},
                      mask |-> {Flip(mask, what)}]
           y == [op |-> "touch", touch |-> Tapped(Row(row))]
<1>1. Tap(Row(row)) = <<y>> /\ y.op = "touch" /\ y.touch = TouchOn(what)
  BY Touching
<1>2. IsList(Tap(Row(row))) /\ wanted \in Wanted
  BY Lists, Rows, Wants
<1>3. d.saved = mask /\ x.screen = "launcher" /\ x.shows = mask
      /\ d.runtime = runtime /\ d.sd = sd /\ d.mask = laid /\ d.ssh = ssh
  BY DEF Known, Screen
<1>4. Takes(fl, mask, what) /\ SavedAfter(fl, mask, what) = Flip(mask, what)
  BY DEF Takes, SavedAfter
<1>5. Answers(d, x, what) /\ DiskAfter(fl, d, what) = e /\ ScreenAfter(fl, d, x, what) = z
  <2>1. /\ e = Known(d.runtime, d.sd, d.mask, SavedAfter(fl, d.saved, what), d.ssh)
        /\ z = Screen("launcher", Flip(x.shows, what), FALSE)
    BY <1>3, <1>4
  <2> HIDE DEF d, x, e, z
  <2>2. x.shows # NoMask /\ d.saved # NoMask /\ Takes(fl, d.saved, what)
    BY <1>3, <1>4
  <2>3. /\ Answers(d, x, what)
        /\ DiskAfter(fl, d, what)
             = Known(d.runtime, d.sd, d.mask, SavedAfter(fl, d.saved, what), d.ssh)
        /\ ScreenAfter(fl, d, x, what) = Screen("launcher", Flip(x.shows, what), FALSE)
    BY <1>3, <2>2, TileAnswer
  <2> QED
    BY <2>1, <2>3
<1> HIDE DEF d, x, e, z, wanted, y
<1>6. Goes(fl, With(d, x, Blank, p, Blank), <<y>> \o WaitNewer(wanted),
           With(e, z, Blank, p, Blank))
  <2>1. Goes(fl, With(d, x, Blank, p, Blank), <<y>> \o WaitNewer(wanted),
             With(DiskAfter(fl, d, what), ScreenAfter(fl, d, x, what), Blank, p, Blank))
    BY <1>1, <1>2, <1>5, GoesAsk
  <2> QED
    BY <1>5, <2>1
<1>7. Goes(fl, On(d, x, p), Toggles(row, Flip(mask, what)), On(e, z, p))
  BY <1>1, <1>6, WithFields DEF Toggles, wanted
<1> QED
  BY <1>7 DEF d, x, e, z

\* Six tiles are chosen, and a picture is taken of them.
Six(d) == Known(d.runtime, d.sd, d.mask, SixTiles, d.ssh)
SixScreen(notice) == Screen("launcher", SixTiles, notice)
SixPicture == Frame("cfw", "launcher", SixTiles, "")

Chosen ==
  Semantic \o Tap(Row(3)) \o WaitNewer([screen |-> {"launcher"}, mask |-> {DefaultMask}])
  \o SaveNow("launcher-settings-71")
  \o Toggles(1, DefaultMask \cup {"stream"}) \o Toggles(2, SixTiles)
  \o Capture("settings") \o Save("launcher-settings-77", "settings")

\* Two more tiles are chosen, and the picture of six is held.
LEMMA GoesChosen ==
  ASSUME NEW fl, NEW runtime, NEW sd, NEW laid, NEW ssh, NEW p
  PROVE  LET d == Known(runtime, sd, laid, DefaultMask, ssh)
         IN Goes(fl, On(d, Main(d), p), Chosen,
                 With(Six(d), SixScreen(FALSE), Blank, p, SixPicture))
<1> DEFINE wanted == [screen |-> {"launcher"}, mask |-> {DefaultMask}]
           five == DefaultMask \cup {"stream"}
           d == Known(runtime, sd, laid, DefaultMask, ssh)
           d5 == Known(runtime, sd, laid, five, ssh)
           x4 == Screen("launcher", DefaultMask, FALSE)
           x5 == Screen("launcher", five, FALSE)
           f == With(Six(d), SixScreen(FALSE), Blank, p, SixPicture)
           opens == Semantic \o Tap(Row(3)) \o WaitNewer(wanted)
           six == opens \o SaveNow("launcher-settings-71") \o Toggles(1, five) \o Toggles(2, SixTiles)
           y == [op |-> "capture", into |-> "settings"]
<1>1. /\ {"launcher-settings-71", "launcher-settings-77"} \subseteq Labels
      /\ "launcher" \in PageRows /\ {"stream", "wireless"} \subseteq TileRows
  BY DEF Labels, SaidLabels, PageRows, TileRows
<1>2. wanted \in Wanted /\ Row(3) \in Points
  BY Wants, Rows, Masks
<1>3. Goes(fl, On(d, Main(d), p), opens, On(d, x4, p))
  <2>1. Goes(fl, On(d, Main(d), p), Semantic, With(d, Main(d), Blank, p, Blank))
    BY GoesReading, WithFields
  <2>2. d.saved = DefaultMask
    BY DEF Known
  <2>3. /\ Answers(d, Main(d), "launcher") /\ DiskAfter(fl, d, "launcher") = d
        /\ ScreenAfter(fl, d, Main(d), "launcher") = x4
    BY <1>1, <2>2, MainAnswers
  <2> HIDE DEF wanted, x4, d
  <2>4. Goes(fl, On(d, Main(d), p), Semantic \o Tap(Row(3)) \o WaitNewer(wanted),
             With(DiskAfter(fl, d, "launcher"), ScreenAfter(fl, d, Main(d), "launcher"),
                  Blank, p, Blank))
    BY <1>2, <2>1, <2>3, PageTouches, GoesAskNext
  <2> QED
    BY <2>3, <2>4, WithFields
<1>4. Goes(fl, On(d, x4, p), Toggles(1, five), On(d5, x5, p))
  <2>1. Goes(fl, On(d, x4, p), Toggles(1, Flip(DefaultMask, "stream")),
             On(Known(runtime, sd, laid, Flip(DefaultMask, "stream"), ssh),
                Screen("launcher", Flip(DefaultMask, "stream"), FALSE), p))
    <3>1. /\ DefaultMask # NoMask /\ ValidMask(Flip(DefaultMask, "stream"))
          /\ Flip(DefaultMask, "stream") \in SUBSET Tiles /\ "stream" \in TileRows
      BY <1>1, Settings77, MaskSets
    <3> QED
      BY <3>1, MaskSets, TileTouches, GoesChoose
  <2> QED
    BY <2>1, Settings77
<1>5. Goes(fl, On(d5, x5, p), Toggles(2, SixTiles), On(Six(d), SixScreen(FALSE), p))
  <2>1. Six(d) = Known(runtime, sd, laid, SixTiles, ssh)
    BY DEF Six, Known
  <2>2. Goes(fl, On(d5, x5, p), Toggles(2, Flip(five, "wireless")),
             On(Known(runtime, sd, laid, Flip(five, "wireless"), ssh),
                Screen("launcher", Flip(five, "wireless"), FALSE), p))
    BY <1>1, Settings77, MaskSets, TileTouches, GoesChoose
  <2> QED
    BY <2>1, <2>2, Settings77 DEF SixScreen
<1> HIDE DEF d, five, d5, x4, x5, f, opens
<1>6. Goes(fl, On(d, Main(d), p), six, On(Six(d), SixScreen(FALSE), p))
  <2>1. Goes(fl, On(d, Main(d), p), opens \o SaveNow("launcher-settings-71"), On(d, x4, p))
    BY <1>1, <1>3, GoesSaveNow, GoesJoin
  <2>2. Goes(fl, On(d, Main(d), p), opens \o SaveNow("launcher-settings-71") \o Toggles(1, five),
             On(d5, x5, p))
    BY <1>4, <2>1, GoesJoin
  <2> QED
    BY <1>5, <2>2, GoesJoin
<1>7. Goes(fl, On(Six(d), SixScreen(FALSE), p), Capture("settings"), f)
  <2>1. Capture("settings") = <<y>> /\ y.op = "capture" /\ y.into = "settings"
    BY DEF Capture
  <2>2. IsList(Capture("settings"))
    BY Lists, Held
  <2> HIDE DEF y
  <2>3. InPicture(SixScreen(FALSE)) /\ Picture(fl, Six(d), SixScreen(FALSE)) = SixPicture
    BY Settings77 DEF SixScreen, Screen, InPicture, Picture, SixPicture
  <2> DEFINE x6 == SixScreen(FALSE)
             d6 == Six(d)
  <2>0. /\ InPicture(x6) /\ Picture(fl, d6, x6) = SixPicture
        /\ f = With(d6, x6, Blank, p, SixPicture)
    BY <2>3 DEF f
  <2> HIDE DEF x6, d6
  <2>4. LeadsIn(fl, On(d6, x6, p), y, f)
    <3>1. SamePlace(On(d6, x6, p), f)
      BY DEF SamePlace, On, With, Expect, f, x6, d6
    <3> QED
      BY <2>1, <3>1, Fields DEF LeadsIn
  <2>5. LeadsFrame(fl, On(d6, x6, p), y, "settings", Blank, SixPicture)
    BY <2>0, <2>1, Fields DEF LeadsFrame
  <2>6. ~Writes(y, "present") /\ ~Writes(y, "last")
    BY <2>1 DEF Writes
  <2>7. Leads(fl, On(d6, x6, p), y, f)
    BY <2>0, <2>4, <2>5, <2>6, Fields, WithFields DEF Leads, LeadsFrame
  <2> QED
    BY <2>1, <2>2, <2>7, GoesOne DEF x6, d6
<1>8. Goes(fl, f, Save("launcher-settings-77", "settings"), f)
  <2>1. Stays(f)
    BY WithFields DEF Stays, f
  <2> QED
    BY <1>1, <2>1, GoesLooking, Held
<1> HIDE DEF six
<1>9. Goes(fl, On(d, Main(d), p), six \o Capture("settings") \o Save("launcher-settings-77", "settings"), f)
  BY <1>6, <1>7, <1>8, GoesJoin
<1>10. Goes(fl, On(d, Main(d), p), Chosen, f)
  BY <1>9 DEF Chosen, six, opens, wanted, five
<1> QED
  BY <1>10 DEF d, f

\* A row is touched whose answer tells the flaws of other.
LEMMA TestsAskNext ==
  ASSUME NEW fl, NEW e, NEW z, NEW set, NEW other, NEW d, NEW x, NEW what, NEW l, NEW p, NEW s,
         NEW wanted \in Wanted, NEW point \in Points, NEW f,
         Tapped(point) = TouchOn(what), Answers(d, x, what),
         Tests(fl, e, z, set, With(d, x, l, p, s)),
         fl \cap other = {} =>
           f = With(DiskAfter(fl, d, what), ScreenAfter(fl, d, x, what), l, p, s),
         fl \cap other # {} => Unwanted(fl, Asking(d, x, what, l, p, s), wanted)
  PROVE  Tests(fl, e, z \o Tap(point) \o WaitNewer(wanted), set \cup other, f)
<1> DEFINE y == [op |-> "touch", touch |-> Tapped(point)]
           asks == <<y>> \o WaitNewer(wanted)
           on == With(d, x, l, p, s)
<1>1. Tap(point) = <<y>> /\ y.op = "touch" /\ y.touch = TouchOn(what)
  BY Touching
<1>2. IsList(z) /\ IsList(Tap(point)) /\ IsList(WaitNewer(wanted))
  BY Lists DEF Goes, Tests
<1>3. z \o Tap(point) \o WaitNewer(wanted) = z \o asks
  BY <1>1, <1>2, Together
<1> HIDE DEF y
<1>4. /\ Goes(fl, on, asks, With(DiskAfter(fl, d, what), ScreenAfter(fl, d, x, what), l, p, s))
      /\ Unwanted(fl, Asking(d, x, what, l, p, s), wanted) => Goes(fl, on, asks, Never)
  BY <1>1, <1>2, GoesAsk
<1> HIDE DEF asks, on
<1>5. Tests(fl, on, asks, other, f)
  BY <1>4 DEF Tests
<1>6. Tests(fl, e, z, set, on)
  BY DEF on
<1> QED
  BY <1>3, <1>5, <1>6, TestsJoin

\* The seventh tile.
Saved77(fl) == IF "seventh_saved" \in fl THEN Tiles ELSE SixTiles
Noticed == Screen("launcher", SixTiles, TRUE)

Rejected == [screen |-> {"launcher"}, action |-> {"launcher_rejected"}, mask |-> {SixTiles}]
Locked == [action |-> {"launcher_rejected"}, mask |-> {SixTiles}]

\* What the sidecar answers to a seventh tile.
LEMMA SeventhTile ==
  ASSUME NEW fl, NEW runtime, NEW sd, NEW laid, NEW ssh
  PROVE  LET d == Known(runtime, sd, laid, SixTiles, ssh)
             x == SixScreen(FALSE)
         IN /\ Answers(d, x, "ebook")
            /\ "seventh_taken" \notin fl =>
                 /\ DiskAfter(fl, d, "ebook") = Known(runtime, sd, laid, Saved77(fl), ssh)
                 /\ ScreenAfter(fl, d, x, "ebook") = Noticed
            /\ "seventh_taken" \in fl =>
                 ActionAfter(fl, d, "ebook") = "launcher_toggle"
<1> DEFINE d == Known(runtime, sd, laid, SixTiles, ssh)
           x == SixScreen(FALSE)
<1>1. /\ d.saved = SixTiles /\ x.screen = "launcher" /\ x.shows = SixTiles
      /\ d.runtime = runtime /\ d.sd = sd /\ d.mask = laid /\ d.ssh = ssh
  BY DEF Known, SixScreen, Screen
<1> HIDE DEF d, x
<1>2. "ebook" \in TileRows /\ "ebook" \notin PageRows /\ "ebook" \notin {"ssh", "home", "cfw"}
  BY DEF TileRows, PageRows
<1>3. Takes(fl, SixTiles, "ebook") = ("seventh_taken" \in fl)
  BY Settings77 DEF Takes
<1>4. Answers(d, x, "ebook")
  BY <1>1, <1>2, Settings77 DEF Answers
<1>5. ASSUME "seventh_taken" \notin fl
      PROVE  /\ DiskAfter(fl, d, "ebook") = Known(runtime, sd, laid, Saved77(fl), ssh)
             /\ ScreenAfter(fl, d, x, "ebook") = Noticed
  <2>1. SavedAfter(fl, SixTiles, "ebook") = Saved77(fl)
    BY <1>3, <1>5, Settings77 DEF SavedAfter, Saved77
  <2>2. DiskAfter(fl, d, "ebook") = Known(runtime, sd, laid, Saved77(fl), ssh)
    BY <1>1, <1>2, <2>1 DEF DiskAfter
  <2>3. ScreenAfter(fl, d, x, "ebook") = Screen("launcher", SixTiles, Cardinality(SixTiles) = 6)
    BY <1>1, <1>2, <1>3, <1>5 DEF ScreenAfter
  <2>4. (Cardinality(SixTiles) = 6) = TRUE
    BY MaskSizes
  <2> QED
    BY <2>2, <2>3, <2>4 DEF Noticed
<1>6. ASSUME "seventh_taken" \in fl
      PROVE  ActionAfter(fl, d, "ebook") = "launcher_toggle"
  BY <1>1, <1>2, <1>3, <1>6 DEF ActionAfter
<1> QED
  BY <1>4, <1>5, <1>6 DEF d, x

\* The settings up to the tile that is refused, its notice, what was saved, and
\* the tile that cannot be unselected.
Seventh == Chosen \o Tap(Row(3)) \o WaitNewer(Rejected)
Shown77 == Seventh \o WaitChange("settings") \o Save("launcher-maximum-six-rejected", "last")
Kept77 == Shown77 \o Config(SixTiles) \o Record("launcher.maximum-rejected")
Locks == Kept77 \o Tap(Row(5)) \o WaitNewer(Locked)

\* What the script wants to be told about the seventh tile and the CFW tile.
LEMMA RejectedWanted ==
  /\ Rejected \in Wanted /\ Locked \in Wanted
  /\ "action" \in DOMAIN Rejected /\ Rejected.action = {"launcher_rejected"}
  /\ "mask" \in DOMAIN Locked /\ Locked.mask = {SixTiles}
<1>1. Rejected \in Wanted /\ Locked \in Wanted
  <2>1. "launcher_rejected" \in Word
    BY DEF Word
  <2> QED
    BY <2>1, Wants, MaskSets DEF Rejected, Locked
<1> QED
  BY <1>1 DEF Rejected, Locked

\* A seventh tile that is taken is seen in the record,
LEMMA GoesSeventh ==
  ASSUME NEW fl, NEW runtime, NEW sd, NEW laid, NEW ssh, NEW p
  PROVE  LET d == Known(runtime, sd, laid, DefaultMask, ssh)
             d7 == Known(runtime, sd, laid, Saved77(fl), ssh)
         IN Tests(fl, On(d, Main(d), p), Seventh, {"seventh_taken"},
                  With(d7, Noticed, Blank, p, SixPicture))
<1> DEFINE d == Known(runtime, sd, laid, DefaultMask, ssh)
           d6 == Known(runtime, sd, laid, SixTiles, ssh)
           d7 == Known(runtime, sd, laid, Saved77(fl), ssh)
           x6 == SixScreen(FALSE)
           f == With(d7, Noticed, Blank, p, SixPicture)
           e == On(d, Main(d), p)
<1>1. Six(d) = d6
  BY DEF Six, Known
<1>2. Goes(fl, e, Chosen, With(d6, x6, Blank, p, SixPicture))
  BY <1>1, GoesChosen
<1>3. /\ Answers(d6, x6, "ebook")
      /\ "seventh_taken" \notin fl =>
           /\ DiskAfter(fl, d6, "ebook") = d7
           /\ ScreenAfter(fl, d6, x6, "ebook") = Noticed
      /\ "seventh_taken" \in fl => ActionAfter(fl, d6, "ebook") = "launcher_toggle"
  BY SeventhTile
<1> HIDE DEF d, d6, d7, x6, e, f
<1>4. fl \cap {"seventh_taken"} = {} =>
        f = With(DiskAfter(fl, d6, "ebook"), ScreenAfter(fl, d6, x6, "ebook"), Blank, p, SixPicture)
  BY <1>3 DEF f
<1>5. fl \cap {"seventh_taken"} # {} =>
        Unwanted(fl, Asking(d6, x6, "ebook", Blank, p, SixPicture), Rejected)
  <2> HAVE fl \cap {"seventh_taken"} # {}
  <2>1. ActionAfter(fl, d6, "ebook") \notin {"launcher_rejected"}
    BY <1>3
  <2> QED
    BY <2>1, RejectedWanted, WithFields DEF Unwanted
<1>6. Tests(fl, e, Chosen, {}, With(d6, x6, Blank, p, SixPicture))
  BY <1>2, TestsNone
<1>7. Row(3) \in Points /\ Tapped(Row(3)) = TouchOn("ebook")
  BY Rows, TileTouches
<1>8. Tests(fl, e, Chosen \o Tap(Row(3)) \o WaitNewer(Rejected), {} \cup {"seventh_taken"}, f)
  BY <1>3, <1>4, <1>5, <1>6, <1>7, RejectedWanted, TestsAskNext
<1>9. {} \cup {"seventh_taken"} = {"seventh_taken"}
  OBVIOUS
<1> QED
  BY <1>8, <1>9 DEF Seventh, d, d7, e, f

\* a notice that is missing in the picture,
LEMMA GoesNotice ==
  ASSUME NEW fl, NEW d, NEW p
  PROVE  Tests(fl, With(d, Noticed, Blank, p, SixPicture), WaitChange("settings"),
               {"notice_missing"}, On(d, Noticed, p))
<1> DEFINE y == [op |-> "change", from |-> "settings"]
           e == With(d, Noticed, Blank, p, SixPicture)
<1>1. WaitChange("settings") = <<y>> /\ y.op = "change" /\ y.from = "settings" /\ IsList(<<y>>)
  <2>1. IsList(WaitChange("settings"))
    BY Lists, Held
  <2> QED
    BY <2>1 DEF WaitChange
<1> HIDE DEF y
<1>2. ~Writes(y, "present") /\ ~Writes(y, "settings")
  BY <1>1 DEF Writes
<1>3. Goes(fl, e, <<y>>, On(d, Noticed, p))
  <2>1. LeadsIn(fl, e, y, On(d, Noticed, p))
    BY <1>1 DEF LeadsIn, SamePlace, With, On, Expect
  <2> QED
    BY <1>1, <1>2, <2>1, GoesTo, Fields, WithFields
<1>4. "notice_missing" \in fl => Goes(fl, e, <<y>>, Never)
  <2> HAVE "notice_missing" \in fl
  <2>1. InPicture(Noticed) /\ Picture(fl, d, Noticed) = SixPicture
    BY Settings77 DEF Noticed, Screen, InPicture, Picture, SixPicture
  <2>2. LeadsIn(fl, e, y, Never)
    BY <1>1, <2>1, WithFields DEF LeadsIn
  <2> QED
    BY <1>1, <1>2, <2>2, GoesTo, Fields
<1>5. ~(fl \cap {"notice_missing"} = {}) => "notice_missing" \in fl
  OBVIOUS
<1> QED
  BY <1>1, <1>3, <1>4, <1>5 DEF Tests

\* a seventh tile that is saved in the file,
LEMMA GoesSaved ==
  ASSUME NEW fl, NEW runtime, NEW sd, NEW laid, NEW ssh, NEW x, NEW p
  PROVE  Tests(fl, On(Known(runtime, sd, laid, Saved77(fl), ssh), x, p), Config(SixTiles),
               {"seventh_saved"}, On(Known(runtime, sd, laid, SixTiles, ssh), x, p))
<1> DEFINE d == Known(runtime, sd, laid, Saved77(fl), ssh)
           d6 == Known(runtime, sd, laid, SixTiles, ssh)
           y == [op |-> "config", mask |-> SixTiles]
<1>1. Config(SixTiles) = <<y>> /\ y.op = "config" /\ y.mask = SixTiles /\ IsList(<<y>>)
  <2>1. IsList(Config(SixTiles))
    BY Lists, MaskSets
  <2> QED
    BY <2>1 DEF Config
<1>2. d.saved = Saved77(fl)
  BY DEF Known
<1>3. "seventh_saved" \notin fl => d = d6
  BY DEF Saved77
<1>4. "seventh_saved" \in fl => d.saved = Tiles /\ Tiles # NoMask
  <2>1. "cfw" \in Tiles
    BY Masks
  <2> QED
    BY <1>2, <2>1 DEF Saved77, NoMask
<1> HIDE DEF d, d6, y
<1>5. "seventh_saved" \notin fl => Goes(fl, On(d, x, p), Config(SixTiles), On(d6, x, p))
  <2> HAVE "seventh_saved" \notin fl
  <2>1. Stays(On(d, x, p))
    BY Staying
  <2> QED
    BY <1>3, <2>1, GoesLooking, MaskSets
<1>6. "seventh_saved" \in fl => Goes(fl, On(d, x, p), Config(SixTiles), Never)
  <2> HAVE "seventh_saved" \in fl
  <2>1. LeadsBefore(fl, On(d, x, p), y, Never)
    BY <1>1, <1>4, Fields, Settings77 DEF LeadsBefore
  <2>2. ~Writes(y, "present")
    BY <1>1 DEF Writes
  <2> QED
    BY <1>1, <2>1, <2>2, GoesTo, Fields
<1>7. ~(fl \cap {"seventh_saved"} = {}) => "seventh_saved" \in fl
  OBVIOUS
<1>8. fl \cap {"seventh_saved"} = {} => "seventh_saved" \notin fl
  OBVIOUS
<1> QED
  BY <1>5, <1>6, <1>7, <1>8 DEF Tests, d, d6

\* and a CFW tile that is not locked in the record.
LEMMA GoesLocked ==
  ASSUME NEW fl, NEW e, NEW z, NEW set, NEW runtime, NEW sd, NEW laid, NEW ssh, NEW p,
         Tests(fl, e, z, set, On(Known(runtime, sd, laid, SixTiles, ssh), Noticed, p))
  PROVE  Tests(fl, e, z \o Tap(Row(5)) \o WaitNewer(Locked), set \cup {"cfw_unlocked"},
               On(Known(runtime, sd, laid, SixTiles, ssh), SixScreen(FALSE), p))
<1> DEFINE d == Known(runtime, sd, laid, SixTiles, ssh)
           x == Noticed
           f == On(d, SixScreen(FALSE), p)
           other == SixTiles \ {"cfw"}
<1>1. d.saved = SixTiles /\ x.screen = "launcher" /\ x.shows = SixTiles
  BY DEF Known, Noticed, Screen
<1>2. SixTiles # NoMask /\ other # NoMask /\ other \notin {SixTiles}
  BY Settings77
<1>3. \A s, n : Screen("launcher", s, n).shows = s
  BY DEF Screen
<1> HIDE DEF d, x, other
<1>4. Answers(d, x, "cfw")
  BY <1>1, <1>2, SettingsAnswer
<1>5. DiskAfter(fl, d, "cfw") = d
  BY DEF DiskAfter, TileRows
<1>6. "cfw_unlocked" \notin fl => ScreenAfter(fl, d, x, "cfw") = SixScreen(FALSE)
  BY <1>1 DEF ScreenAfter, PageRows, TileRows, SixScreen
<1>7. "cfw_unlocked" \in fl => ScreenAfter(fl, d, x, "cfw") = Screen("launcher", other, FALSE)
  BY <1>1 DEF ScreenAfter, PageRows, TileRows, other
<1>8. fl \cap {"cfw_unlocked"} = {} =>
        f = With(DiskAfter(fl, d, "cfw"), ScreenAfter(fl, d, x, "cfw"), Blank, p, Blank)
  BY <1>5, <1>6, WithFields
<1> DEFINE x8 == ScreenAfter(fl, d, x, "cfw")
<1>9. fl \cap {"cfw_unlocked"} # {} =>
        Unwanted(fl, Asking(d, x, "cfw", Blank, p, Blank), Locked)
  <2> HAVE fl \cap {"cfw_unlocked"} # {}
  <2>1. x8.shows = other
    BY <1>3, <1>7
  <2> HIDE DEF x8
  <2>2. x8.shows # NoMask /\ x8.shows \notin {SixTiles}
    BY <1>2, <2>1
  <2> QED
    BY <2>2, RejectedWanted, WithFields DEF Unwanted, x8
<1>10. Tests(fl, e, z, set, With(d, x, Blank, p, Blank))
  BY WithFields DEF d, x
<1> HIDE DEF f
<1>11. Row(5) \in Points /\ Tapped(Row(5)) = TouchOn("cfw") /\ Locked \in Wanted
  BY Rows, TileTouches, RejectedWanted
<1>12. Tests(fl, e, z \o Tap(Row(5)) \o WaitNewer(Locked), set \cup {"cfw_unlocked"}, f)
  BY <1>4, <1>8, <1>9, <1>10, <1>11, TestsAskNext
<1> QED
  BY <1>12 DEF f, d

\* So the part about the limit sees the four.
LEMMA GoesLocks ==
  ASSUME NEW fl, NEW runtime, NEW sd, NEW laid, NEW ssh, NEW p
  PROVE  LET d == Known(runtime, sd, laid, DefaultMask, ssh)
             d6 == Known(runtime, sd, laid, SixTiles, ssh)
         IN Tests(fl, On(d, Main(d), p), Locks,
                  {"seventh_taken", "notice_missing", "seventh_saved", "cfw_unlocked"},
                  On(d6, SixScreen(FALSE), p))
<1> DEFINE d == Known(runtime, sd, laid, DefaultMask, ssh)
           d6 == Known(runtime, sd, laid, SixTiles, ssh)
           d7 == Known(runtime, sd, laid, Saved77(fl), ssh)
           e == On(d, Main(d), p)
           seen == Seventh \o WaitChange("settings")
           saved == Shown77 \o Config(SixTiles)
           s1 == {"seventh_taken"} \cup {"notice_missing"}
           s2 == s1 \cup {"seventh_saved"}
<1>1. Tests(fl, e, Seventh, {"seventh_taken"}, With(d7, Noticed, Blank, p, SixPicture))
  BY GoesSeventh
<1>2. Tests(fl, On(d7, Noticed, p), Config(SixTiles), {"seventh_saved"}, On(d6, Noticed, p))
  BY GoesSaved
<1>3. /\ {"launcher-settings-77", "launcher-maximum-six-rejected"} \subseteq Labels
      /\ "launcher.maximum-rejected" \in RequiredChecks /\ "last" \in Holding
  BY Held DEF Labels, SaidLabels, RequiredChecks
<1> HIDE DEF d, d7, e, s1, s2
<1>4. Tests(fl, e, seen, s1, On(d7, Noticed, p))
  BY <1>1, GoesNotice, TestsJoin DEF s1
<1>5. Goes(fl, On(d7, Noticed, p), Save("launcher-maximum-six-rejected", "last"), On(d7, Noticed, p))
  BY <1>3, Staying, GoesLooking
<1> HIDE DEF seen
<1>6. Tests(fl, e, Shown77, s1, On(d7, Noticed, p))
  BY <1>4, <1>5, TestsOn DEF Shown77, seen
<1>7. Tests(fl, e, saved, s2, On(d6, Noticed, p))
  BY <1>2, <1>6, TestsJoin DEF s2
<1>8. Goes(fl, On(d6, Noticed, p), Record("launcher.maximum-rejected"), On(d6, Noticed, p))
  BY <1>3, Staying, GoesLooking
<1> HIDE DEF saved
<1>9. Tests(fl, e, Kept77, s2, On(d6, Noticed, p))
  BY <1>7, <1>8, TestsOn DEF Kept77, saved
<1>10. Tests(fl, e, Locks, s2 \cup {"cfw_unlocked"}, On(d6, SixScreen(FALSE), p))
  BY <1>9, GoesLocked DEF Locks
<1>11. s2 \cup {"cfw_unlocked"}
         = {"seventh_taken", "notice_missing", "seventh_saved", "cfw_unlocked"}
  BY DEF s1, s2
<1> QED
  BY <1>10, <1>11 DEF d, e

\* What is left of the settings.
LEMMA GoesSettings ==
  ASSUME NEW fl, NEW runtime, NEW sd, NEW laid, NEW ssh, NEW p
  PROVE  LET d == Known(runtime, sd, laid, DefaultMask, ssh)
         IN Tests(fl, On(d, Main(d), p), LauncherSettings,
                  {"seventh_taken", "notice_missing", "seventh_saved", "cfw_unlocked"},
                  Loose(p))
<1> DEFINE d == Known(runtime, sd, laid, DefaultMask, ssh)
           d6 == Known(runtime, sd, laid, SixTiles, ssh)
           e == On(d, Main(d), p)
           set == {"seventh_taken", "notice_missing", "seventh_saved", "cfw_unlocked"}
           dragged == [action |-> {"drag_ignored"}, mask |-> {SixTiles}]
           back == [screen |-> {"main"}, action |-> {"back"}]
           r1 == Locks \o Drag(DragStart) \o WaitNewer(dragged)
           r2 == r1 \o Config(SixTiles) \o Record("launcher.drag-no-activation")
           r3 == r2 \o Tap(BackTouch) \o WaitSemantic(back)
<1>1. Tests(fl, e, Locks, set, On(d6, SixScreen(FALSE), p))
  BY GoesLocks
<1>2. dragged \in Wanted /\ back \in Wanted
  BY Wants, MaskSets DEF Word
<1>3. /\ {"launcher.drag-no-activation", "cfw.launcher-settings"} \subseteq RequiredChecks
      /\ DragStart \in Points /\ BackTouch \in Points
  BY Rows, TapPoints DEF RequiredChecks
<1>4. Goes(fl, On(d6, SixScreen(FALSE), p), Drag(DragStart), Loose(p))
  <2> DEFINE y == [op |-> "touch", touch |-> [drag |-> TRUE, at |-> DragStart]]
             x6 == SixScreen(FALSE)
             on == On(d6, x6, p)
  <2>1. Drag(DragStart) = <<y>> /\ y.op = "touch" /\ IsList(<<y>>)
    <3>1. IsList(Drag(DragStart))
      BY <1>3, Lists
    <3> QED
      BY <3>1 DEF Drag
  <2> HIDE DEF y, x6
  <2>4. on.present = p
    BY Fields
  <2> HIDE DEF on
  <2>2. ~Writes(y, "present")
    BY <2>1 DEF Writes
  <2>3. /\ Loose(p).at = "loose" /\ Loose(p).last = Blank /\ Loose(p).settings = Blank
        /\ Loose(p).present = p
    BY Fields DEF Loose
  <2>5. Goes(fl, on, <<y>>, Loose(p))
    BY <2>1, <2>2, <2>3, <2>4, GoesTo
  <2> QED
    BY <2>1, <2>5 DEF on, x6
<1>5. /\ Goes(fl, Loose(p), WaitNewer(dragged), Loose(p))
      /\ Goes(fl, Loose(p), Config(SixTiles), Loose(p))
      /\ Goes(fl, Loose(p), Record("launcher.drag-no-activation"), Loose(p))
      /\ Goes(fl, Loose(p), Tap(BackTouch), Loose(p))
      /\ Goes(fl, Loose(p), WaitSemantic(back), Loose(p))
      /\ Goes(fl, Loose(p), Record("cfw.launcher-settings"), Loose(p))
      /\ Goes(fl, Loose(p), LeaveCfw("base"), Loose(p))
  BY <1>2, <1>3, MaskSets, LooseIsIdle, IdleSteps, IdleFunctions
<1> HIDE DEF d, d6, e, set, dragged, back
<1>6. Tests(fl, e, r1, set, Loose(p))
  BY <1>1, <1>4, <1>5, TestsOn
<1> HIDE DEF r1
<1>7. Tests(fl, e, r2, set, Loose(p))
  BY <1>5, <1>6, TestsOn
<1> HIDE DEF r2
<1>8. Tests(fl, e, r3, set, Loose(p))
  BY <1>5, <1>7, TestsOn
<1> HIDE DEF r3
<1>9. Tests(fl, e, r3 \o Record("cfw.launcher-settings") \o LeaveCfw("base"), set, Loose(p))
  BY <1>5, <1>8, TestsOn
<1>10. LauncherSettings = r3 \o Record("cfw.launcher-settings") \o LeaveCfw("base")
  BY DEF LauncherSettings, r3, r2, r1, Locks, Kept77, Shown77, Seventh, Chosen, Rejected, Locked,
         dragged, back
<1> QED
  BY <1>9, <1>10 DEF d, e, set

-------------------------------------------------------------------------------
\* The first session of the candidate.
DefaultFlaws == {"tile_dead", "back_dead", "starts_enabled", "ssh_forgotten",
                 "seventh_taken", "notice_missing", "seventh_saved", "cfw_unlocked"}

\* validate_candidate_default sees its flaws.
LEMMA GoesDefault ==
  ASSUME NEW fl
  PROVE  Tests(fl, Outset, ValidateCandidateDefault, DefaultFlaws, Loose(CardFrame(fl, TRUE)))
<1> DEFINE d == Known(Present, TRUE, DefaultMask, DefaultMask, FreshSsh(fl))
           parted == Known(Present, TRUE, DefaultMask, DefaultMask, PartedSsh(fl, FreshSsh(fl)))
           e == Known(Present, TRUE, DefaultMask, DefaultMask, "disabled")
           card == CardFrame(fl, TRUE)
           s1 == {"tile_dead"} \cup {"back_dead"}
           s2 == s1 \cup {"starts_enabled", "ssh_forgotten", "back_dead"}
           s3 == s2 \cup {"seventh_taken", "notice_missing", "seventh_saved", "cfw_unlocked"}
           wifi == WirelessRoute("cfw.wifi-route", 1, "wifi", "wifi_route",
                                 "stock-wireless-from-cfw-wifi")
           bluetooth == WirelessRoute("cfw.bluetooth-route", 2, "bluetooth", "bluetooth_route",
                                      "stock-wireless-from-cfw-bluetooth")
           r1 == DefaultRoutes \o CfwLifecycle \o SshToggles
<1>1. Outset.at = "before" /\ Outset.present = Blank
  BY Fields DEF Outset
<1>2. Tests(fl, Outset, DefaultRoutes, {"tile_dead"}, Spot("returned", d, Blank))
  BY <1>1, GoesDefaultRoutes DEF Fresh
<1>3. Parted(fl, d) = parted
  BY DEF Parted, Known
<1>4. Tests(fl, Spot("home", parted, Blank), SshToggles,
            {"starts_enabled", "ssh_forgotten", "back_dead"}, On(e, Main(e), Blank))
  BY GoesSshToggles
<1>5. Tests(fl, On(e, Main(e), card), LauncherSettings,
            {"seventh_taken", "notice_missing", "seventh_saved", "cfw_unlocked"}, Loose(card))
  BY GoesSettings
<1>6. Goes(fl, On(e, Main(e), Blank), InformationPages, On(e, Main(e), card))
  <2>1. e.sd = TRUE
    BY DEF Known
  <2> HIDE DEF e
  <2>2. Goes(fl, On(e, Main(e), Blank), InformationPages, On(e, Main(e), CardFrame(fl, e.sd)))
    BY GoesInformation
  <2> QED
    BY <2>1, <2>2
<1>7. Tests(fl, Spot("returned", d, Blank), CfwLifecycle, {"back_dead"},
            Spot("home", Parted(fl, d), Blank))
  BY GoesLifecycle
<1>8. /\ Goes(fl, Loose(card), wifi, Loose(card)) /\ Goes(fl, Loose(card), bluetooth, Loose(card))
      /\ Goes(fl, Loose(card), Shutdown, Loose(card))
  <2>1. /\ {"wifi", "wifi_route", "bluetooth", "bluetooth_route"} \subseteq Word
        /\ {"cfw.wifi-route", "cfw.bluetooth-route"} \subseteq RequiredChecks
        /\ {"stock-wireless-from-cfw-wifi", "stock-wireless-from-cfw-bluetooth"} \subseteq Labels
    BY DEF Word, RequiredChecks, Labels
  <2> HIDE DEF card
  <2> QED
    BY <2>1, GoesWireless, LooseIsIdle, IdleSteps
<1> HIDE DEF d, parted, e, card, s1, s2, s3, wifi, bluetooth
<1>9. Tests(fl, Outset, DefaultRoutes \o CfwLifecycle, s1, Spot("home", parted, Blank))
  BY <1>2, <1>3, <1>7, TestsJoin DEF s1
<1>10. Tests(fl, Outset, r1, s2, On(e, Main(e), Blank))
  BY <1>4, <1>9, TestsJoin DEF s2
<1> HIDE DEF r1
<1>11. Tests(fl, Outset, r1 \o InformationPages, s2, On(e, Main(e), card))
  BY <1>6, <1>10, TestsOn
<1>12. Tests(fl, Outset, r1 \o InformationPages \o LauncherSettings, s3, Loose(card))
  BY <1>5, <1>11, TestsJoin DEF s3
<1>13. Tests(fl, Outset, r1 \o InformationPages \o LauncherSettings \o wifi, s3, Loose(card))
  BY <1>8, <1>12, TestsOn
<1>14. Tests(fl, Outset, r1 \o InformationPages \o LauncherSettings \o wifi \o bluetooth, s3,
             Loose(card))
  BY <1>8, <1>13, TestsOn
<1>15. Tests(fl, Outset,
             r1 \o InformationPages \o LauncherSettings \o wifi \o bluetooth \o Shutdown, s3,
             Loose(card))
  BY <1>8, <1>14, TestsOn
<1>16. s3 = DefaultFlaws
  BY DEF s1, s2, s3, DefaultFlaws
<1>17. ValidateCandidateDefault
         = r1 \o InformationPages \o LauncherSettings \o wifi \o bluetooth \o Shutdown
  BY DEF ValidateCandidateDefault, r1, wifi, bluetooth
<1> QED
  BY <1>15, <1>16, <1>17 DEF card

-------------------------------------------------------------------------------
\* After a step the program may count on less.
LEMMA LooseFields ==
  \A p : /\ Loose(p).at = "loose" /\ Loose(p).last = Blank /\ Loose(p).settings = Blank
         /\ Loose(p).present = p
BY Fields DEF Loose

\* A step that leads somewhere also leads to where nothing is expected,
LEMMA LeadsLoose ==
  \A fl, e, x, f : Leads(fl, e, x, f) => Leads(fl, e, x, Loose(f.present))
BY LooseFields DEF Leads, LeadsFrame

\* and so does a block.
LEMMA GoesLoose ==
  ASSUME NEW fl, NEW e, NEW s, NEW f, s # <<>>, Goes(fl, e, s, f)
  PROVE  Goes(fl, e, s, Loose(f.present))
<1>1. s \in Seq(Steps)
  BY DEF Goes, IsList
<1>2. PICK n \in Nat : n = Len(s)
  BY <1>1
<1>3. n # 0
  BY <1>1, <1>2
<1>4. PICK a : /\ a[1] = e /\ a[n + 1] = f
               /\ \A i \in 1..n : Leads(fl, a[i], s[i], a[i + 1])
  BY <1>2 DEF Goes
<1> DEFINE z == Loose(f.present)
           g == [i \in 1..(n + 1) |-> IF i = n + 1 THEN z ELSE a[i]]
<1>5. g[1] = e /\ g[n + 1] = z /\ \A i \in 1..n : g[i] = a[i]
  BY <1>3, <1>4
<1>6. ASSUME NEW i \in 1..n
      PROVE  Leads(fl, g[i], s[i], g[i + 1])
  <2>1. Leads(fl, a[i], s[i], a[i + 1]) /\ g[i] = a[i]
    BY <1>4, <1>5
  <2>2. CASE i = n
    <3>1. a[i + 1] = f /\ g[i + 1] = z
      BY <1>4, <1>5, <2>2
    <3> HIDE DEF g
    <3> QED
      BY <2>1, <3>1, LeadsLoose
  <2>3. CASE i # n
    <3>1. i + 1 \in 1..n
      BY <2>3, <1>2
    <3>2. g[i + 1] = a[i + 1]
      BY <1>5, <3>1
    <3> QED
      BY <2>1, <3>2
  <2> QED
    BY <2>2, <2>3
<1> HIDE DEF g, z
<1> QED
  BY <1>2, <1>5, <1>6 DEF Goes, z

\* What is only tested when nothing was before.
LEMMA TestsAfter ==
  \A fl, e, s, set, f, t, other, h :
    /\ Tests(fl, e, s, set, f) /\ IsList(t)
    /\ fl \cap set = {} => Tests(fl, f, t, other, h)
    => Tests(fl, e, s \o t, set \cup other, h)
<1> TAKE fl, e, s, set, f, t, other, h
<1> HAVE /\ Tests(fl, e, s, set, f) /\ IsList(t)
         /\ fl \cap set = {} => Tests(fl, f, t, other, h)
<1>1. CASE fl \cap set = {}
  BY <1>1, TestsJoin
<1>2. CASE fl \cap set # {}
  <2>1. fl \cap (set \cup other) # {}
    BY <1>2
  <2>2. Goes(fl, e, s, Never) /\ Goes(fl, Never, t, Never)
    BY <1>2, GoesNowhere DEF Tests
  <2> QED
    BY <2>1, <2>2, GoesJoin DEF Tests
<1> QED
  BY <1>1, <1>2

-------------------------------------------------------------------------------
\* A session with a mask that is in the launcher.conf.
Laying(fl, mask) == Known(Present, TRUE, Laid(fl, mask), mask, "any")

\* A session over a mask that was saved shows it, or the mask before.
LEMMA GoesConfigured ==
  ASSUME NEW fl, NEW p, NEW mask \in SUBSET Tiles, mask # NoMask
  PROVE  Goes(fl, Loose(p), Boot("candidate-present", TRUE, TRUE, FALSE) \o Config(mask),
              Spot("seen", Laying(fl, mask), p))
<1> DEFINE d == Known(Present, TRUE, NoMask, NoMask, "any")
           boot == Boot("candidate-present", TRUE, TRUE, FALSE)
<1>1. Present \in Booted /\ Present = "candidate-present"
  BY DEF Present, Booted
<1>2. Goes(fl, Loose(p), boot, Spot("seen", d, p))
  BY <1>1, LooseFields, GoesBoot
<1>3. Known(d.runtime, d.sd, Laid(fl, mask), mask, d.ssh) = Laying(fl, mask)
  BY DEF Known, Laying
<1> HIDE DEF d, boot
<1>4. Goes(fl, Spot("seen", d, p), Config(mask), Spot("seen", Laying(fl, mask), p))
  BY <1>3, GoesConfig
<1>5. Goes(fl, Loose(p), boot \o Config(mask), Spot("seen", Laying(fl, mask), p))
  BY <1>2, <1>4, GoesJoin
<1> QED
  BY <1>5 DEF boot

\* The six tiles.
LEMMA GoesSixTrips ==
  ASSUME NEW fl, NEW p
  PROVE  Tests(fl, Loose(p), SixRoutes, {"layout_not_applied"}, Loose(p))
<1> DEFINE boot == Boot("candidate-present", TRUE, TRUE, FALSE) \o Config(SixTiles)
           d == Laying(fl, SixTiles)
           seen == Spot("seen", d, p)
           returned == Spot("returned", d, p)
           save == Save("six-tile-launcher-77", "launcher")
           record == Record("launcher.persistence.77")
           promote == PromoteShot("six-tile-launcher-77")
           music == StockTileRoundtrip("route-six-77-music", UpperLeft)
           stream == StockTileRoundtrip("route-six-77-stream", UpperRight)
           wireless == StockTileRoundtrip("route-six-77-wireless", MiddleLeft)
           system == StockTileRoundtrip("route-six-77-system", MiddleRight)
           about == StockTileRoundtrip("route-six-77-about", LowerRight)
           set == {"layout_not_applied"}
           r1 == boot \o save \o record \o promote
           r2 == r1 \o music \o stream \o wireless
           r3 == r2 \o system \o about
           open == OpenCfw(SixCfwTile)
           shot == SaveNow("six-77-cfw-open")
           leave == LeaveCfw("base")
           last == Save("six-77-cfw-restored", "last")
           routes == Record("launcher.six-tile-routes")
<1>0. /\ {"six-tile-launcher-77", "route-six-77-music", "route-six-77-stream",
          "route-six-77-wireless", "route-six-77-system", "route-six-77-about",
          "six-77-cfw-open", "six-77-cfw-restored"} \subseteq Labels
      /\ {"launcher.persistence.77", "launcher.six-tile-routes"} \subseteq RequiredChecks
  BY DEF Labels, SaidLabels, RequiredChecks
<1>1. Goes(fl, Loose(p), boot, seen)
  BY MaskSets, Settings77, GoesConfigured
<1>2. Goes(fl, seen, save, seen) /\ Goes(fl, seen, record, seen) /\ Goes(fl, seen, promote, seen)
  <2>1. Stays(seen)
    BY Staying
  <2> HIDE DEF seen
  <2> QED
    BY <1>0, <2>1, Held, GoesLooking
<1>3. Goes(fl, seen, music, returned)
  BY <1>0, TapPoints, GoesTrip
<1>4. Goes(fl, returned, stream, returned) /\ Goes(fl, returned, wireless, returned)
  BY <1>0, TapPoints, GoesTrip
<1>5. Tests(fl, returned, system, set, returned)
  <2>1. Goes(fl, returned, system, returned)
    BY <1>0, TapPoints, GoesTrip
  <2>2. "layout_not_applied" \in fl => NoReturn(fl, d.mask, MiddleRight)
    <3>1. d.mask = Laid(fl, SixTiles)
      BY DEF Laying, Known
    <3> QED
      BY <3>1, DefaultTiles, Settings77 DEF Laid, NoReturn
  <2>3. "layout_not_applied" \in fl => Goes(fl, returned, system, Never)
    BY <1>0, <2>2, TapPoints, GoesTrip
  <2>4. ~(fl \cap set = {}) => "layout_not_applied" \in fl
    OBVIOUS
  <2> HIDE DEF system, returned, set
  <2> QED
    BY <2>1, <2>3, <2>4 DEF Tests
<1>6. Goes(fl, returned, about, Loose(p))
  <2>1. Goes(fl, returned, about, returned)
    BY <1>0, TapPoints, GoesTrip
  <2>2. about # <<>>
    BY DEF StockTileRoundtrip, TapChange, Capture, Tap, WaitChange, Save, WaitHash, Stable, Same
  <2>3. returned.present = p
    BY Fields
  <2> HIDE DEF about, returned
  <2> QED
    BY <2>1, <2>2, <2>3, GoesLoose
<1>7. /\ Goes(fl, Loose(p), open, Loose(p)) /\ Goes(fl, Loose(p), shot, Loose(p))
      /\ Goes(fl, Loose(p), leave, Loose(p)) /\ Goes(fl, Loose(p), last, Loose(p))
      /\ Goes(fl, Loose(p), routes, Loose(p))
  BY <1>0, Rows, Held, LooseIsIdle, IdleSteps, IdleFunctions
<1> HIDE DEF boot, d, seen, returned, save, record, promote, music, stream, wireless, system, about,
         set, open, shot, leave, last, routes
<1>8. Goes(fl, Loose(p), r1, seen)
  BY <1>1, <1>2, GoesJoin
<1> HIDE DEF r1
<1>9. Goes(fl, Loose(p), r2, returned)
  BY <1>3, <1>4, <1>8, GoesJoin
<1> HIDE DEF r2
<1>10. Tests(fl, Loose(p), r3, set, Loose(p))
  BY <1>5, <1>6, <1>9, TestsOn
<1> HIDE DEF r3
<1>11. Tests(fl, Loose(p), r3 \o open \o shot, set, Loose(p))
  BY <1>7, <1>10, TestsOn
<1>12. Tests(fl, Loose(p), r3 \o open \o shot \o leave, set, Loose(p))
  BY <1>7, <1>11, TestsOn
<1>13. Tests(fl, Loose(p), r3 \o open \o shot \o leave \o last \o routes, set, Loose(p))
  BY <1>7, <1>12, TestsOn
<1>14. SixRoutes = r3 \o open \o shot \o leave \o last \o routes
  BY DEF SixRoutes, r3, r2, r1, boot, save, record, promote, music, stream, wireless, system,
         about, open, shot, leave, last, routes
<1> QED
  BY <1>13, <1>14 DEF set

\* validate_six_tile_launcher sees a layout that is not applied.
LEMMA GoesSix ==
  ASSUME NEW fl, NEW p
  PROVE  Tests(fl, Loose(p), ValidateSixTileLauncher, {"layout_not_applied"}, Loose(p))
<1> DEFINE set == {"layout_not_applied"}
           wanted == [screen |-> {"launcher"}, mask |-> {SixTiles}]
           open == OpenCfw(SixCfwTile)
           tap == Tap(Row(3))
           wait == WaitNewer(wanted)
           five == Toggles(1, SixTiles \ {"stream"})
           six == Toggles(3, AlternateSix)
           shot == SaveNow("launcher-settings-alternate-six-7d")
           config == Config(AlternateSix)
           leave == LeaveCfw("base")
           record == Record("launcher.ebook-swap")
           l == Loose(p)
           r1 == open \o tap \o wait
           r2 == SixRoutes \o open \o tap \o wait
           r3 == r2 \o five \o six \o shot
<1>0. /\ "launcher-settings-alternate-six-7d" \in Labels
      /\ "launcher.ebook-swap" \in RequiredChecks
      /\ wanted \in Wanted
  BY Wants, MaskSets DEF Labels, SaidLabels, RequiredChecks
<1>1. Tests(fl, l, SixRoutes, set, l)
  BY GoesSixTrips
<1>2. /\ Goes(fl, l, open, l) /\ Goes(fl, l, tap, l) /\ Goes(fl, l, wait, l)
      /\ Goes(fl, l, five, l) /\ Goes(fl, l, six, l) /\ Goes(fl, l, shot, l)
      /\ Goes(fl, l, config, l) /\ Goes(fl, l, BackToMain, l) /\ Goes(fl, l, leave, l)
      /\ Goes(fl, l, record, l) /\ Goes(fl, l, Shutdown, l)
  <2> HIDE DEF wanted
  <2> QED
    BY <1>0, Rows, MaskSets, LooseIsIdle, IdleSteps, IdleFunctions
<1> HIDE DEF l, set, open, tap, wait, five, six, shot, config, leave, record
<1>3. Tests(fl, l, r2, set, l)
  BY <1>1, <1>2, TestsOn
<1> HIDE DEF r2
<1>4. Tests(fl, l, r3, set, l)
  BY <1>2, <1>3, TestsOn
<1> HIDE DEF r3
<1>5. Tests(fl, l, r3 \o config \o BackToMain \o leave, set, l)
  BY <1>2, <1>4, TestsOn
<1>6. Tests(fl, l, r3 \o config \o BackToMain \o leave \o record \o Shutdown, set, l)
  BY <1>2, <1>5, TestsOn
<1>7. ValidateSixTileLauncher = r3 \o config \o BackToMain \o leave \o record \o Shutdown
  BY DEF ValidateSixTileLauncher, r3, r2, open, tap, wait, wanted, five, six, shot, config, leave,
         record
<1> QED
  BY <1>6, <1>7 DEF l, set

-------------------------------------------------------------------------------
\* The other six tiles.
Topped(p) == Spot("topped", Unknown, p)

\* validate_alternate_six_launcher sees an e-book tile that is dead.
LEMMA GoesAlternate ==
  ASSUME NEW fl, NEW p, "layout_not_applied" \notin fl
  PROVE  Tests(fl, Loose(p), ValidateAlternateSixLauncher, {"ebook_dead"}, Topped(p))
<1> DEFINE boot == Boot("candidate-present", TRUE, TRUE, FALSE) \o Config(AlternateSix)
           d == Laying(fl, AlternateSix)
           seen == Spot("seen", d, p)
           returned == Spot("returned", d, p)
           save == Save("alternate-six-launcher-7d", "launcher")
           ebook == StockTileRoundtrip("route-alternate-7d-ebook", MiddleLeft)
           record == Record("launcher.alternate-six-persistence")
           keep == <<[op |-> "keep", of |-> "launcher", into |-> "top"]>>
           set == {"ebook_dead"}
           y == [op |-> "keep", of |-> "launcher", into |-> "top"]
           stop == [op |-> "stop"]
<1>0. /\ {"alternate-six-launcher-7d", "route-alternate-7d-ebook"} \subseteq Labels
      /\ "launcher.alternate-six-persistence" \in RequiredChecks
  BY DEF Labels, SaidLabels, RequiredChecks
<1>1. AlternateSix # NoMask
  BY DEF AlternateSix, NoMask, Tiles, TileOrder
<1>2. Goes(fl, Loose(p), boot, seen)
  BY <1>1, MaskSets, GoesConfigured
<1>3. Goes(fl, seen, save, seen)
  BY <1>0, Staying, Held, GoesLooking
<1>4. Goes(fl, seen, ebook, returned)
  BY <1>0, TapPoints, GoesTrip
<1>5. "ebook_dead" \in fl => Goes(fl, seen, ebook, Never)
  <2> HAVE "ebook_dead" \in fl
  <2>1. d.mask = AlternateSix
    BY DEF Laying, Known, Laid
  <2>2. NoReturn(fl, d.mask, MiddleLeft)
    BY <1>1, <2>1, AlternateTiles DEF NoReturn
  <2> QED
    BY <1>0, <2>2, TapPoints, GoesTrip
<1>6. Tests(fl, seen, ebook, set, returned)
  <2>1. ~(fl \cap set = {}) => "ebook_dead" \in fl
    OBVIOUS
  <2> HIDE DEF seen, ebook, returned, set
  <2> QED
    BY <1>4, <1>5, <2>1 DEF Tests
<1>7. Goes(fl, returned, record, returned)
  BY <1>0, Staying, GoesLooking
<1>8. Goes(fl, returned, keep, Topped(p))
  <2>1. keep = <<y>> /\ y.op = "keep" /\ y.of = "launcher" /\ y.into = "top" /\ IsList(<<y>>)
    <3>1. IsList(keep)
      BY Held, Lists
    <3> QED
      BY <3>1
  <2> HIDE DEF y, keep
  <2>2. ~Writes(y, "present")
    BY <2>1 DEF Writes
  <2>3. LeadsTop(fl, returned, y, Topped(p))
    BY <2>1, Fields DEF LeadsTop, Topped
  <2> QED
    BY <2>1, <2>2, <2>3, GoesTo, Fields DEF Topped
<1>9. Goes(fl, Topped(p), Shutdown, Topped(p))
  <2>1. Shutdown = <<stop>> /\ stop.op = "stop" /\ IsList(<<stop>>)
    <3>1. IsList(Shutdown)
      BY Lists
    <3> QED
      BY <3>1 DEF Shutdown
  <2> HIDE DEF stop
  <2>2. ~Writes(stop, "present")
    BY <2>1 DEF Writes
  <2>3. LeadsTop(fl, Topped(p), stop, Topped(p))
    BY <2>1, Fields DEF LeadsTop, Topped
  <2> QED
    BY <2>1, <2>2, <2>3, GoesTo, Fields DEF Topped
<1> HIDE DEF boot, d, seen, returned, save, ebook, record, keep, set
<1>10. Tests(fl, Loose(p), boot \o save \o ebook, set, returned)
  BY <1>2, <1>3, <1>6, GoesJoin, TestsOn
<1>11. Tests(fl, Loose(p), boot \o save \o ebook \o record, set, returned)
  BY <1>7, <1>10, TestsOn
<1>12. Tests(fl, Loose(p), boot \o save \o ebook \o record \o keep \o Shutdown, set, Topped(p))
  BY <1>8, <1>9, <1>11, TestsOn
<1>13. ValidateAlternateSixLauncher = boot \o save \o ebook \o record \o keep \o Shutdown
  BY DEF ValidateAlternateSixLauncher, boot, save, ebook, record, keep
<1> QED
  BY <1>12, <1>13 DEF set

\* The launcher after a restart.
LEMMA GoesAgain ==
  ASSUME NEW fl, NEW p, NEW runtime \in Booted, NEW sd \in BOOLEAN
  PROVE  LET d == Known(runtime, sd, NoMask, NoMask, "any")
         IN Goes(fl, Topped(p), Boot(runtime, TRUE, sd, FALSE), Spot("again_seen", d, p))
<1> DEFINE d == Known(runtime, sd, NoMask, NoMask, "any")
           boot == Boot(runtime, TRUE, sd, FALSE)
           start == [op |-> "start", runtime |-> runtime, cfw |-> TRUE, sd |-> sd, crash |-> FALSE]
           ready == [op |-> "ready"]
           stable == [op |-> "stable", into |-> "launcher"]
           again == Spot("again", d, p)
           seen == Spot("again_seen", d, p)
           topped == Topped(p)
<1>1. Leads(fl, topped, start, again)
  <2>1. ~Writes(start, "present")
    BY DEF Writes
  <2>2. LeadsTop(fl, topped, start, again)
    BY Fields DEF LeadsTop, Topped
  <2> QED
    BY <2>1, <2>2, LeadsOne, Fields DEF Topped
<1>2. Leads(fl, again, ready, again)
  <2>1. ~Writes(ready, "present")
    BY DEF Writes
  <2>2. LeadsTop(fl, again, ready, again)
    BY Fields DEF LeadsTop, SamePlace
  <2> QED
    BY <2>1, <2>2, LeadsOne, Fields
<1>3. Leads(fl, again, stable, seen)
  <2>1. ~Writes(stable, "present")
    BY DEF Writes
  <2>2. LeadsTop(fl, again, stable, seen)
    BY Fields DEF LeadsTop
  <2> QED
    BY <2>1, <2>2, LeadsOne, Fields
<1>4. IsList(boot)
  BY Starts DEF Plain, Yields
<1>5. Len(boot) = 3 /\ boot[1] = start /\ boot[2] = ready /\ boot[3] = stable
  BY DEF Boot
<1> DEFINE g == <<topped, again, again, seen>>
<1>6. g[1] = topped /\ g[2] = again /\ g[3] = again /\ g[4] = seen
  OBVIOUS
<1> HIDE DEF d, start, ready, stable, again, seen, topped, boot, g
<1>7. Goes(fl, topped, boot, seen)
  <2>1. 1..3 = {1, 2, 3} /\ 1 + 1 = 2 /\ 2 + 1 = 3 /\ 3 + 1 = 4
    OBVIOUS
  <2>2. \A i \in 1..3 : Leads(fl, g[i], boot[i], g[i + 1])
    BY <1>1, <1>2, <1>3, <1>5, <1>6, <2>1
  <2> QED
    BY <1>4, <1>5, <1>6, <2>1, <2>2 DEF Goes
<1> QED
  BY <1>7 DEF d, boot, seen, topped

\* validate_restart_position sees a launcher that moves.
LEMMA GoesRestart ==
  ASSUME NEW fl, NEW p
  PROVE  Tests(fl, Topped(p), ValidateRestartPosition, {"restart_moves"}, Loose(p))
<1> DEFINE d == Known(Present, TRUE, NoMask, NoMask, "any")
           boot == Boot("candidate-present", TRUE, TRUE, FALSE)
           config == Config(AlternateSix)
           same == Same("launcher", "top")
           save == Save("alternate-six-after-second-restart", "launcher")
           record == Record("launcher.restart-position")
           seen == Spot("again_seen", d, p)
           set == {"restart_moves"}
           y == [op |-> "same", a |-> "launcher", b |-> "top"]
<1>0. /\ "alternate-six-after-second-restart" \in Labels
      /\ "launcher.restart-position" \in RequiredChecks
  BY DEF Labels, SaidLabels, RequiredChecks
<1>1. Goes(fl, Topped(p), boot, seen)
  <2>1. "candidate-present" \in Booted /\ Present = "candidate-present"
    BY DEF Booted, Present
  <2> QED
    BY <2>1, GoesAgain
<1> HIDE DEF d
<1>2. Goes(fl, seen, config, seen)
  BY MaskSets, Staying, GoesLooking
<1>3. Tests(fl, seen, same, set, Loose(p))
  <2>1. same = <<y>> /\ y.op = "same" /\ y.a = "launcher" /\ y.b = "top" /\ IsList(<<y>>)
    <3>1. IsList(same)
      BY Held, Lists
    <3> QED
      BY <3>1 DEF Same
  <2> HIDE DEF y, same
  <2>2. ~Writes(y, "present")
    BY <2>1 DEF Writes
  <2>3. Goes(fl, seen, same, Loose(p))
    BY <2>1, <2>2, GoesTo, LooseFields, Fields
  <2>4. "restart_moves" \in fl => Goes(fl, seen, same, Never)
    <3> HAVE "restart_moves" \in fl
    <3>1. LeadsTop(fl, seen, y, Never)
      BY <2>1, Fields DEF LeadsTop
    <3> QED
      BY <2>1, <2>2, <3>1, GoesTo, Fields
  <2>5. ~(fl \cap set = {}) => "restart_moves" \in fl
    OBVIOUS
  <2> HIDE DEF seen, set
  <2> QED
    BY <2>3, <2>4, <2>5 DEF Tests
<1>4. /\ Goes(fl, Loose(p), save, Loose(p)) /\ Goes(fl, Loose(p), record, Loose(p))
      /\ Goes(fl, Loose(p), Shutdown, Loose(p))
  BY <1>0, Held, LooseIsIdle, IdleSteps
<1> HIDE DEF d, boot, config, same, save, record, seen, set
<1>5. Tests(fl, Topped(p), boot \o config \o same, set, Loose(p))
  BY <1>1, <1>2, <1>3, GoesJoin, TestsOn
<1>6. Tests(fl, Topped(p), boot \o config \o same \o save \o record \o Shutdown, set, Loose(p))
  BY <1>4, <1>5, TestsOn
<1>7. ValidateRestartPosition = boot \o config \o same \o save \o record \o Shutdown
  BY DEF ValidateRestartPosition, boot, config, same, save, record
<1> QED
  BY <1>6, <1>7 DEF set

-------------------------------------------------------------------------------
\* The session without a card.
LEMMA GoesSdAbsent ==
  ASSUME NEW fl
  PROVE  Tests(fl, Loose(CardFrame(fl, TRUE)), ValidateSdAbsent, {"sd_not_seen"},
               Loose(CardFrame(fl, TRUE)))
<1> DEFINE p == CardFrame(fl, TRUE)
           l == Loose(p)
           d == Known("candidate-sd-absent", FALSE, NoMask, NoMask, "any")
           x == Main(d)
           card == CardFrame(fl, FALSE)
           boot == Boot("candidate-sd-absent", TRUE, FALSE, FALSE)
           open == OpenCfw(DefaultCfwTile)
           sd == CfwPage(5, "sd", "microsd-absent")
           differ == Differ("last", "present")
           fixture == Fixture(FALSE)
           absent == Record("storage.sd-absent")
           distinct == Record("storage.sd-state-distinct")
           set == {"sd_not_seen"}
           seen == Spot("seen", d, p)
           on == With(d, x, card, p, Blank)
           y == [op |-> "differ", a |-> "last", b |-> "present"]
<1>0. /\ "microsd-absent" \in Labels /\ {"last", "present"} \subseteq Holding
      /\ {"storage.sd-absent", "storage.sd-state-distinct"} \subseteq RequiredChecks
      /\ "sd" \in PageRows
  BY Held DEF Labels, SaidLabels, RequiredChecks, PageRows
<1>1. Goes(fl, l, boot, seen)
  <2>1. "candidate-sd-absent" \in Booted /\ Present # "candidate-sd-absent"
    BY DEF Booted, Present
  <2>2. l.present = p /\ l.at # "before"
    BY LooseFields
  <2> HIDE DEF l, p
  <2> QED
    BY <2>1, <2>2, GoesBoot
<1>2. d.sd = FALSE
  BY DEF Known
<1>4. "sd_not_seen" \in fl => card = p /\ card # Blank
  BY DEF CardFrame, Blank, Frame
<1> HIDE DEF p, l, d, card
<1>5. Goes(fl, seen, open, On(d, x, p))
  BY Rows, GoesOpen
<1>6. Goes(fl, On(d, x, p), sd, on)
  <2>1. Goes(fl, On(d, x, p), sd, With(d, x, CardFrame(fl, d.sd), p, Blank))
    BY <1>0, PageTouches, GoesPage
  <2> QED
    BY <1>2, <2>1 DEF card
<1> HIDE DEF x
<1>7. Tests(fl, on, differ, set, l)
  <2>1. differ = <<y>> /\ y.op = "differ" /\ y.a = "last" /\ y.b = "present" /\ IsList(<<y>>)
    <3>1. IsList(differ)
      BY <1>0, SingleSteps DEF Plain, Yields
    <3> QED
      BY <3>1 DEF Differ
  <2> HIDE DEF y, differ
  <2>2. ~Writes(y, "present")
    BY <2>1 DEF Writes
  <2>3. on.last = card /\ on.present = p
    BY WithFields
  <2>4. l.at = "loose" /\ l.last = Blank /\ l.settings = Blank /\ l.present = p
    BY LooseFields DEF l
  <2> HIDE DEF on, set
  <2>5. Goes(fl, on, differ, l)
    BY <2>1, <2>2, <2>3, <2>4, GoesTo
  <2>6. "sd_not_seen" \in fl => Goes(fl, on, differ, Never)
    <3> HAVE "sd_not_seen" \in fl
    <3>1. Leads(fl, on, y, Never)
      BY <1>4, <2>1, <2>3 DEF Leads
    <3> QED
      BY <2>1, <3>1, GoesOne
  <2>7. ~(fl \cap set = {}) => "sd_not_seen" \in fl
    BY DEF set
  <2> QED
    BY <2>5, <2>6, <2>7 DEF Tests
<1>8. /\ Goes(fl, l, fixture, l) /\ Goes(fl, l, absent, l) /\ Goes(fl, l, distinct, l)
      /\ Goes(fl, l, Shutdown, l)
  BY <1>0, LooseIsIdle, IdleSteps DEF l
<1> HIDE DEF boot, open, sd, differ, fixture, absent, distinct, set, seen, on
<1>9. Tests(fl, l, boot \o open \o sd \o differ, set, l)
  BY <1>1, <1>5, <1>6, <1>7, GoesJoin, TestsOn
<1>10. Tests(fl, l, boot \o open \o sd \o differ \o fixture \o absent \o distinct \o Shutdown, set, l)
  BY <1>8, <1>9, TestsOn
<1>11. ValidateSdAbsent
         = boot \o open \o sd \o differ \o fixture \o absent \o distinct \o Shutdown
  BY DEF ValidateSdAbsent, boot, open, sd, differ, fixture, absent, distinct
<1> QED
  BY <1>10, <1>11 DEF l, p, set

\* The script.
ScriptFlaws == DefaultFlaws \cup {"layout_not_applied", "ebook_dead", "restart_moves", "sd_not_seen"}

\* The whole script goes from its start to its end and sees all its flaws.
LEMMA GoesScript ==
  ASSUME NEW fl
  PROVE  Tests(fl, Outset, Script, ScriptFlaws, Loose(CardFrame(fl, TRUE)))
<1> DEFINE p == CardFrame(fl, TRUE)
           l == Loose(p)
           preflight == Record("preflight.exact-candidate")
           r1 == preflight \o ValidateSshRuntime \o ValidateStock \o ValidateCandidateDefault
           r2 == r1 \o ValidateCrashRecovery \o ValidateSixTileLauncher
           s2 == DefaultFlaws \cup {"layout_not_applied"}
           s3 == s2 \cup {"ebook_dead"}
           s4 == s3 \cup {"restart_moves"}
           s5 == s4 \cup {"sd_not_seen"}
<1>1. Tests(fl, l, ValidateSdAbsent, {"sd_not_seen"}, l)
  BY GoesSdAbsent
<1>2. Tests(fl, Outset, ValidateCandidateDefault, DefaultFlaws, l)
  BY GoesDefault
<1>3. /\ Goes(fl, Outset, preflight, Outset) /\ Goes(fl, Outset, ValidateSshRuntime, Outset)
      /\ Goes(fl, Outset, ValidateStock, Outset)
  BY GoesStart
<1> HIDE DEF p
<1>4. /\ Goes(fl, l, ValidateCrashRecovery, l)
      /\ Tests(fl, l, ValidateSixTileLauncher, {"layout_not_applied"}, l)
      /\ Tests(fl, Topped(p), ValidateRestartPosition, {"restart_moves"}, l)
  BY GoesCrash, GoesSix, GoesRestart
<1>5. fl \cap s2 = {} => Tests(fl, l, ValidateAlternateSixLauncher, {"ebook_dead"}, Topped(p))
  <2> HAVE fl \cap s2 = {}
  <2>1. "layout_not_applied" \notin fl
    OBVIOUS
  <2> QED
    BY <2>1, GoesAlternate
<1>6. IsList(ValidateAlternateSixLauncher)
  BY SettingsLists
<1> HIDE DEF l, preflight, s2, s3, s4, s5
<1>7. Tests(fl, Outset, r1, DefaultFlaws, l)
  <2>1. Goes(fl, Outset, preflight \o ValidateSshRuntime \o ValidateStock, Outset)
    BY <1>3, GoesJoin
  <2> QED
    BY <1>2, <2>1, TestsOn
<1> HIDE DEF r1
<1>8. Tests(fl, Outset, r2, s2, l)
  <2>1. Tests(fl, Outset, r1 \o ValidateCrashRecovery, DefaultFlaws, l)
    BY <1>4, <1>7, TestsOn
  <2> QED
    BY <1>4, <2>1, TestsJoin DEF s2
<1> HIDE DEF r2
<1>9. Tests(fl, Outset, r2 \o ValidateAlternateSixLauncher, s3, Topped(p))
  BY <1>5, <1>6, <1>8, TestsAfter DEF s3
<1>10. Tests(fl, Outset, r2 \o ValidateAlternateSixLauncher \o ValidateRestartPosition, s4, l)
  BY <1>4, <1>9, TestsJoin DEF s4
<1>11. Tests(fl, Outset,
             r2 \o ValidateAlternateSixLauncher \o ValidateRestartPosition \o ValidateSdAbsent, s5, l)
  BY <1>1, <1>10, TestsJoin DEF s5
<1>12. Script = r2 \o ValidateAlternateSixLauncher \o ValidateRestartPosition \o ValidateSdAbsent
  BY DEF Script, r2, r1, preflight
<1>13. s5 = ScriptFlaws
  BY DEF s5, s4, s3, s2, ScriptFlaws
<1> QED
  BY <1>11, <1>12, <1>13 DEF l, p

-------------------------------------------------------------------------------
(***************************************************************************)
(* A run is where the script leads it.                                     *)
(***************************************************************************)
IsPlan(fl, g) ==
  /\ g[1] = Outset
  /\ fl \cap ScriptFlaws # {} => g[Len(Script) + 1] = Never
  /\ \A i \in 1..Len(Script) : Leads(fl, g[i], Script[i], g[i + 1])
Plan(fl) == CHOOSE g : IsPlan(fl, g)

\* The whole script has a plan: an expectation before each step, each of
\* which the step before leads to.
LEMMA PlanLeads == \A fl : IsPlan(fl, Plan(fl))
<1> TAKE fl
<1> DEFINE f == IF fl \cap ScriptFlaws = {} THEN Loose(CardFrame(fl, TRUE)) ELSE Never
<1>1. Goes(fl, Outset, Script, f)
  BY GoesScript DEF Tests
<1>2. fl \cap ScriptFlaws # {} => f = Never
  OBVIOUS
<1> HIDE DEF f
<1>3. \E g : IsPlan(fl, g)
  BY <1>1, <1>2 DEF Goes, IsPlan
<1> QED
  BY <1>3 DEF Plan

\* Before each step the program may count on what the plan says, if the
\* candidate has none of the flaws that are seen in any case.
MeetsInv ==
  ~ended /\ Rest => \A fl, e : fl = flaws /\ e = Plan(fl)[pc] => Meets(e)

\* MeetsInv holds at the start.
LEMMA MeetsInit == ValidationInit => MeetsInv
<1> SUFFICES ASSUME ValidationInit, NEW fl, NEW e, fl = flaws, e = Plan(fl)[pc]
             PROVE  Meets(e)
  BY DEF MeetsInv
<1>1. e = Outset
  BY PlanLeads DEF ValidationInit, IsPlan
<1>2. Outset.at = "before" /\ Outset.last = Blank /\ Outset.present = Blank /\ Outset.settings = Blank
  BY Fields DEF Outset
<1>3. Before
  <2>1. Present \in Runtimes /\ Present # ""
    BY Directories DEF Present
  <2> QED
    BY <2>1 DEF ValidationInit, GuestInit, Before, FreshSsh, FreshStore
<1> QED
  BY <1>1, <1>2, <1>3 DEF Meets, InPlace, Keeps

\* A sample of a frame that is not stable yet.
LEMMA OnceMore ==
  ASSUME Typed, Does, pc' = pc
  PROVE  UNCHANGED guestVars /\ bench'.frames = bench.frames /\ bench'.seq = bench.seq
<1>1. pc \in Nat /\ pc + 1 # pc
  BY ScriptType DEF Typed, EvidenceInv, AtStep
<1>2. ~Continue
  BY <1>1 DEF Continue
<1>3. WaitStableFrame
  BY <1>2 DEF Does, StartSession, StopSession, WaitPlayerReady, WaitFrame, WaitForRecord,
     ReadRecord, ClearRecord, CaptureFrame, InjectTouch, KeepEvidence, CompareStep, RunController,
     RunSshAuthentication
<1>4. PICK n : Hold([bench EXCEPT !.sample = n])
  BY <1>2, <1>3 DEF WaitStableFrame
<1>5. BenchType
  BY DEF Typed, EvidenceInv
<1> QED
  BY <1>4, <1>5 DEF Hold, BenchType

\* Every step of the harness and of the guest keeps MeetsInv.
LEMMA MeetsSteps ==
  ASSUME Typed, MeetsInv, [ValidationNext]_validationVars
  PROVE  MeetsInv'
<1> SUFFICES ASSUME ~ended', Rest', NEW fl, NEW f, fl = flaws', f = Plan(fl)[pc']
             PROVE  Meets(f)'
  BY DEF MeetsInv
<1>1. EvidenceInv /\ GuestType
  BY DEF Typed
<1>2. fl = flaws /\ Rest
  BY FlawsStay DEF Rest
<1>3. PICK e : e = Plan(fl)[pc]
  OBVIOUS
<1>4. /\ ~ended
      /\ \/ UNCHANGED validationVars
         \/ GuestMoves
         \/ Does /\ pc \in 1..Len(Script) /\ pc' \in {pc, pc + 1} /\ verdict' = verdict
  BY <1>1, GoesOn
<1>5. Meets(e)
  BY <1>2, <1>3, <1>4 DEF MeetsInv
<1>6. CASE UNCHANGED validationVars
  <2>1. UNCHANGED guestVars /\ bench' = bench /\ pc' = pc
    BY <1>6 DEF validationVars
  <2> QED
    BY <1>3, <1>5, <2>1, StillHolds
<1>7. CASE GuestMoves
  <2>1. pc' = pc
    BY <1>7 DEF GuestMoves
  <2> QED
    BY <1>1, <1>2, <1>3, <1>5, <1>7, <2>1, MeetsGuest
<1>8. CASE Does /\ pc \in 1..Len(Script) /\ pc' = pc
  BY <1>3, <1>5, <1>8, OnceMore, StillHolds
<1>9. CASE Does /\ pc \in 1..Len(Script) /\ pc' = pc + 1
  <2>1. PICK s : s = Step
    OBVIOUS
  <2>2. Done(s)
    BY <1>2, <1>9, <2>1 DEF Done
  <2>3. Leads(fl, e, s, f)
    BY <1>3, <1>9, <2>1, PlanLeads DEF IsPlan, Step
  <2> QED
    BY <1>2, <1>5, <2>2, <2>3, LeadsMeets
<1> QED
  BY <1>4, <1>6, <1>7, <1>8, <1>9

\* A run that passes has followed the plan to its end.
PassMeansFollowed == verdict = "PASS" /\ Rest => flaws \cap ScriptFlaws = {}
WorkingInv == WatchInv /\ MeetsInv /\ PassMeansFollowed /\ flaws \subseteq Flaws

\* WorkingInv holds at the start,
LEMMA WorkingInit == ValidationInit => WorkingInv
<1> SUFFICES ASSUME ValidationInit PROVE WorkingInv
  OBVIOUS
<1>1. verdict # "PASS" /\ flaws \subseteq Flaws
  BY CandidatesAssumption DEF ValidationInit, GuestInit
<1> QED
  BY <1>1, WatchInit, MeetsInit DEF WorkingInv, PassMeansFollowed

\* and every step keeps it.
LEMMA WorkingSteps == WorkingInv /\ [ValidationNext]_validationVars => WorkingInv'
<1> SUFFICES ASSUME WorkingInv, [ValidationNext]_validationVars PROVE WorkingInv'
  OBVIOUS
<1>1. Typed /\ EvidenceInv
  BY DEF WorkingInv, WatchInv, Typed
<1>2. WatchInv' /\ MeetsInv'
  BY <1>1, WatchSteps, MeetsSteps DEF WorkingInv
<1>3. flaws' = flaws
  BY FlawsStay
<1>4. PassMeansFollowed'
  <2> SUFFICES ASSUME verdict' = "PASS", Rest' PROVE flaws \cap ScriptFlaws = {}
    BY <1>3 DEF PassMeansFollowed
  <2>1. Rest
    BY <1>3 DEF Rest
  <2>2. verdict = "PASS" \/ (~ended /\ pc = Len(Script) + 1)
    BY <1>1, PassesAtTheEnd
  <2>3. CASE verdict = "PASS"
    BY <2>1, <2>3 DEF WorkingInv, PassMeansFollowed
  <2>4. CASE ~ended /\ pc = Len(Script) + 1
    <3>1. PICK fl : fl = flaws
      OBVIOUS
    <3>2. PICK e : e = Plan(fl)[Len(Script) + 1]
      OBVIOUS
    <3>3. Meets(e)
      BY <2>1, <2>4, <3>1, <3>2 DEF WorkingInv, MeetsInv
    <3>4. e # Never
      BY <3>3, Fields DEF Meets, InPlace
    <3> QED
      BY <3>1, <3>2, <3>4, PlanLeads DEF IsPlan
  <2> QED
    BY <2>2, <2>3, <2>4
<1> QED
  BY <1>2, <1>3, <1>4 DEF WorkingInv

\* A validation passes only a candidate that does nothing wrong but for a Wi-Fi
\* row that leads nowhere, whatever combination of the flaws the candidates have.
THEOREM PassAlwaysWorking == ValidationSpec => []PassMeansWorking
<1>1. WorkingInv => PassMeansWorking
  <2> SUFFICES ASSUME WorkingInv, verdict = "PASS" PROVE flaws \subseteq {"route_ignored"}
    BY DEF PassMeansWorking
  <2>1. Rest
    BY DEF WorkingInv, WatchInv, SshPast, Toggled, Untold, SixSaved, Unmarked, CrashSeen, Past,
       Rest, Detected
  <2>2. flaws \cap ScriptFlaws = {} /\ flaws \subseteq Flaws
    BY <2>1 DEF WorkingInv, PassMeansFollowed
  <2>3. Flaws = Detected \cup ScriptFlaws \cup {"route_ignored"}
    BY DEF Flaws, Detected, ScriptFlaws, DefaultFlaws
  <2> QED
    BY <2>1, <2>2, <2>3 DEF Rest
<1> QED
  BY <1>1, WorkingInit, WorkingSteps, PTL DEF ValidationSpec

===============================================================================
