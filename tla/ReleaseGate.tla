----------------------------- MODULE ReleaseGate -----------------------------
(***************************************************************************)
(* How a firmware gets out: tools/build-cfw-0.1.sh, which prepares and     *)
(* publishes it under a lock on its workspace, tools/cfw_validate.py,      *)
(* which tests the prepared image in QEMU and takes no lock, and           *)
(* tools/verify_cfw_validation.py, the gate between the two.               *)
(*                                                                         *)
(* A firmware and the root file system inside it are a version of the      *)
(* sources: the build is deterministic, and two files have equal digests   *)
(* when they hold equal versions.  The lock is an flock on a descriptor    *)
(* that every command of the script inherits, so a command that outlives   *)
(* the script still holds it.  What a PASS manifest says is what its run   *)
(* recorded, and stays in `run`.                                           *)
(***************************************************************************)
EXTENDS Naturals

CONSTANTS
  Versions,     \* what the working tree can hold, and is built from it
  Ssh,          \* the SSH components of each version
  Pipelines,    \* invocations of build-cfw-0.1.sh
  Runs,         \* runs of cfw_validate.py, one run identifier each
  NumFeatured,  \* featured screenshots
  MaxEvents,    \* bound: edits, foreign candidates, signals and failures
  Partial,      \* a file that somebody has not finished writing
  None

ASSUME SshAssumption == DOMAIN Ssh = Versions
ASSUME CountAssumption == NumFeatured \in Nat \ {0} /\ MaxEvents \in Nat
ASSUME NoneAssumption ==
  /\ Partial # None
  /\ {Partial, None} \cap (Versions \cup Runs) = {}

Files == Versions \cup {Partial, None}
Featured == 1..NumFeatured

VARIABLES
  src,          \* the working tree
  rootfsImage, candidate, verified,   \* files of the workspace
  rebuilt,      \* the components compiled again for the verification
  check,        \* the candidate's image unpacked: [of, whole]
  output,       \* the firmware in dist
  proc,         \* each pipeline: [at, alive, mode, upt, rootfs, tmp, doc]
  run,          \* each run: [at, digest, tree, swaps, n, shown]
  manifest,     \* validation-manifest.json: [status, of]
  featured,     \* whose picture each featured screenshot is
  events        \* how often something of MaxEvents has happened

files == <<rootfsImage, candidate, verified, rebuilt, check>>
evidence == <<run, manifest, featured>>
vars == <<src, files, output, proc, evidence, events>>

Idle == [at |-> "idle", alive |-> TRUE, mode |-> "prepare",
         upt |-> None, rootfs |-> None, tmp |-> None, doc |-> None]
New == [at |-> "new", digest |-> None, tree |-> None, swaps |-> 0, n |-> 1,
        shown |-> [f \in Featured |-> None]]

Init ==
  /\ src \in Versions
  /\ rootfsImage = None /\ candidate = None /\ verified = None /\ rebuilt = None
  /\ check = [of |-> None, whole |-> FALSE]
  /\ output = None
  /\ proc = [p \in Pipelines |-> Idle]
  /\ run = [r \in Runs |-> New]
  /\ manifest = [status |-> "absent", of |-> None]
  /\ featured = [f \in Featured |-> None]
  /\ events = 0

Event == events < MaxEvents /\ events' = events + 1

-------------------------------------------------------------------------------
(* The pipeline.  A step is what the script does up to the end of the command *)
(* it names; a script that was killed goes no further than that command.      *)

\* Variant: the commands close the lock's descriptor.
ScriptHoldsLock == \E p \in Pipelines : proc[p].at # "idle" /\ proc[p].alive

LockHeld == \E p \in Pipelines : proc[p].at # "idle"

At(p, at) == proc[p].at = at

Goto(p, next, new) ==
  proc' = [proc EXCEPT ![p] = IF proc[p].alive THEN [new EXCEPT !.at = next] ELSE Idle]

\* The script, or exit 1 where another owns the workspace.
Start(p, mode) ==
  /\ At(p, "idle") /\ ~LockHeld
  /\ proc' = [proc EXCEPT ![p] =
       [Idle EXCEPT !.mode = mode, !.at = IF mode = "publish" THEN "stage" ELSE "build"]]
  /\ UNCHANGED <<src, files, output, evidence, events>>

BuildRootfs(p) ==
  /\ At(p, "build")
  /\ rootfsImage' = src
  /\ Goto(p, "pack", proc[p])
  /\ UNCHANGED <<src, candidate, verified, rebuilt, check, output, evidence, events>>

Pack(p) ==
  /\ At(p, "pack")
  /\ candidate' = rootfsImage
  /\ Goto(p, "stage", proc[p])
  /\ UNCHANGED <<src, rootfsImage, verified, rebuilt, check, output, evidence, events>>

\* verify_candidate, first a copy of the candidate of its own ...
Stage(p) ==
  /\ At(p, "stage")
  /\ candidate # None /\ rootfsImage # None
  /\ Goto(p, "snapshot", [proc[p] EXCEPT !.tmp = candidate])
  /\ UNCHANGED <<src, files, output, evidence, events>>

Snapshot(p) ==
  /\ At(p, "snapshot")
  /\ verified' = proc[p].tmp
  /\ Goto(p, "rebuild", proc[p])
  /\ UNCHANGED <<src, rootfsImage, candidate, rebuilt, check, output, evidence, events>>

\* ... its digest, and the components built again ...
Rebuild(p) ==
  /\ At(p, "rebuild")
  /\ rebuilt' = src
  /\ Goto(p, "unpack", [proc[p] EXCEPT !.upt = verified])
  /\ UNCHANGED <<src, rootfsImage, candidate, verified, check, output, evidence, events>>

\* ... the snapshot unpacked over the tree of the last verification ...
Unpack(p) ==
  /\ At(p, "unpack")
  /\ check' = [check EXCEPT !.whole = FALSE]
  /\ Goto(p, "unpacking", proc[p])
  /\ UNCHANGED <<src, rootfsImage, candidate, verified, rebuilt, output, evidence, events>>

Unpackable(file) == file \in Versions

\* A run notes how often the version it reads has changed under it.
Unpacked(p) ==
  /\ At(p, "unpacking")
  /\ Unpackable(verified)
  /\ check' = [of |-> verified, whole |-> TRUE]
  /\ run' = IF check.of = verified THEN run
            ELSE [r \in Runs |-> IF run[r].at \in {"extract", "sessions", "rehash"} /\ run[r].swaps < 2
                                 THEN [run[r] EXCEPT !.swaps = @ + 1] ELSE run[r]]
  /\ Goto(p, "compare", proc[p])
  /\ UNCHANGED <<src, rootfsImage, candidate, verified, rebuilt, output, manifest, featured, events>>

\* ... and everything compared.
Agree(p) == check.whole /\ rootfsImage = check.of /\ rebuilt = check.of /\ verified = proc[p].upt

Compare(p) ==
  /\ At(p, "compare")
  /\ Agree(p)
  /\ CASE proc[p].mode = "prepare" -> Goto(p, "idle", Idle)
       [] proc[p].mode = "all" -> Goto(p, "stage", [Idle EXCEPT !.mode = "publish"])
       [] OTHER -> Goto(p, "gate", [proc[p] EXCEPT !.rootfs = check.of])
  /\ UNCHANGED <<src, files, output, evidence, events>>

\* The gate: a PASS for these bytes, whose run had the SSH components they have ...
Bound(r, rootfs) ==
  /\ run[r].digest = rootfs
  /\ check = [of |-> rootfs, whole |-> TRUE]
  /\ Ssh[run[r].tree] = Ssh[rootfs]

Gate(p) ==
  /\ At(p, "gate")
  /\ manifest.status = "PASS"
  /\ Bound(manifest.of, proc[p].rootfs)
  /\ Goto(p, "screenshots", [proc[p] EXCEPT !.doc = manifest.of])
  /\ UNCHANGED <<src, files, output, evidence, events>>

\* Variant: the digest of the run's own screenshot is not compared.
AsManifest(r, f) == featured[f] = run[r].shown[f]

\* ... and featured screenshots that are the ones it hashed and the ones it took.
Pictured(r, f) == featured[f] = run[r].shown[f] /\ featured[f] = r

ValidateScreenshots(p) ==
  /\ At(p, "screenshots")
  /\ \A f \in Featured : Pictured(proc[p].doc, f)
  /\ Goto(p, "copy", proc[p])
  /\ UNCHANGED <<src, files, output, evidence, events>>

Copy(p) ==
  /\ At(p, "copy")
  /\ Goto(p, "copied", [proc[p] EXCEPT !.tmp = verified])
  /\ UNCHANGED <<src, files, output, evidence, events>>

CompareCopy(p) ==
  /\ At(p, "copied")
  /\ proc[p].tmp = verified /\ proc[p].tmp = proc[p].upt
  /\ Goto(p, "move", proc[p])
  /\ UNCHANGED <<src, files, output, evidence, events>>

Move(p) ==
  /\ At(p, "move")
  /\ output' = proc[p].tmp
  /\ Goto(p, "idle", Idle)
  /\ UNCHANGED <<src, files, evidence, events>>

\* A check fails, or the file a command needs is not there: the script exits.
Refused(p) ==
  \/ At(p, "stage") /\ None \in {candidate, rootfsImage}
  \/ At(p, "unpacking") /\ ~Unpackable(verified)
  \/ At(p, "compare") /\ ~Agree(p)
  \/ At(p, "gate") /\ ~(manifest.status = "PASS" /\ Bound(manifest.of, proc[p].rootfs))
  \/ At(p, "screenshots") /\ \E f \in Featured : ~Pictured(proc[p].doc, f)
  \/ At(p, "copied") /\ {proc[p].tmp} # {verified, proc[p].upt}

Exit(p) ==
  /\ Refused(p)
  /\ proc' = [proc EXCEPT ![p] = Idle]
  /\ UNCHANGED <<src, files, output, evidence, events>>

\* A tool fails, or a signal reaches the whole group: what it was writing may
\* be left unfinished.
Stop(p) ==
  /\ Event /\ ~At(p, "idle")
  /\ rootfsImage' \in {rootfsImage} \cup (IF At(p, "build") THEN {Partial} ELSE {})
  /\ candidate' \in {candidate} \cup (IF At(p, "pack") THEN {Partial} ELSE {})
  /\ proc' = [proc EXCEPT ![p] = Idle]
  /\ UNCHANGED <<src, verified, rebuilt, check, output, evidence>>

\* A signal reaches the script alone.
Kill(p) ==
  /\ Event /\ ~At(p, "idle") /\ proc[p].alive
  /\ proc' = [proc EXCEPT ![p].alive = FALSE]
  /\ UNCHANGED <<src, files, output, evidence>>

-------------------------------------------------------------------------------
(* The validator. *)

RunAt(r, at) == run[r].at = at
Image == IF check.whole THEN check.of ELSE Partial

Begin(r) ==
  /\ RunAt(r, "new") /\ check.of # None
  /\ run' = [run EXCEPT ![r].at = "extract", ![r].digest = Image]
  /\ manifest' = [status |-> "RUNNING", of |-> r]
  /\ UNCHANGED <<src, files, output, proc, featured, events>>

ExtractExactCandidate(r) ==
  /\ RunAt(r, "extract") /\ check.whole
  /\ run' = [run EXCEPT ![r].at = "sessions", ![r].tree = check.of]
  /\ UNCHANGED <<src, files, output, proc, manifest, featured, events>>

\* Every session passes and records its checks and screenshots.
Sessions(r) ==
  /\ RunAt(r, "sessions")
  /\ run' = [run EXCEPT ![r].at = "rehash"]
  /\ UNCHANGED <<src, files, output, proc, manifest, featured, events>>

\* Variant: the image is not hashed again.
HashedOnce(r) ==
  /\ RunAt(r, "rehash")
  /\ run' = [run EXCEPT ![r].at = "promote"]
  /\ UNCHANGED <<src, files, output, proc, manifest, featured, events>>

Rehash(r) ==
  /\ RunAt(r, "rehash")
  /\ Image = run[r].digest
  /\ run' = [run EXCEPT ![r].at = "promote"]
  /\ UNCHANGED <<src, files, output, proc, manifest, featured, events>>

\* Each featured screenshot is replaced and then read back for its digest.
Promote(r) ==
  /\ RunAt(r, "promote")
  /\ featured' = [featured EXCEPT ![run[r].n] = r]
  /\ run' = [run EXCEPT ![r].at = "hash"]
  /\ UNCHANGED <<src, files, output, proc, manifest, events>>

HashFeatured(r) ==
  /\ RunAt(r, "hash")
  /\ run' = [run EXCEPT ![r].shown[run[r].n] = featured[run[r].n],
                        ![r].n = IF @ = NumFeatured THEN @ ELSE @ + 1,
                        ![r].at = IF run[r].n = NumFeatured THEN "write" ELSE "promote"]
  /\ UNCHANGED <<src, files, output, proc, manifest, featured, events>>

WritePass(r) ==
  /\ RunAt(r, "write")
  /\ run' = [run EXCEPT ![r].at = "passed"]
  /\ manifest' = [status |-> "PASS", of |-> r]
  /\ UNCHANGED <<src, files, output, proc, featured, events>>

\* The image is unreadable or has changed, or anything else raises.
Fail(r) ==
  /\ \/ RunAt(r, "extract") /\ ~check.whole /\ UNCHANGED events
     \/ RunAt(r, "rehash") /\ Image # run[r].digest /\ UNCHANGED events
     \/ run[r].at \notin {"new", "passed", "failed"} /\ Event
  /\ run' = [run EXCEPT ![r].at = "failed"]
  /\ manifest' = [status |-> "FAIL", of |-> r]
  /\ UNCHANGED <<src, files, output, proc, featured>>

\* KeyboardInterrupt is not caught, and a killed run writes nothing either.
Abandon(r) ==
  /\ Event /\ run[r].at \notin {"new", "passed", "failed"}
  /\ run' = [run EXCEPT ![r].at = "failed"]
  /\ UNCHANGED <<src, files, output, proc, manifest, featured>>

-------------------------------------------------------------------------------
(* The working tree is edited, and the candidate's path is anybody's. *)

Edit ==
  /\ Event /\ src' \in Versions \ {src}
  /\ UNCHANGED <<files, output, proc, evidence>>

ReplaceCandidate ==
  /\ Event /\ candidate' \in (Versions \cup {Partial}) \ {candidate}
  /\ UNCHANGED <<src, rootfsImage, verified, rebuilt, check, output, proc, evidence>>

Pipeline(p) ==
  \/ \E mode \in {"prepare", "publish", "all"} : Start(p, mode)
  \/ BuildRootfs(p) \/ Pack(p) \/ Stage(p) \/ Snapshot(p) \/ Rebuild(p)
  \/ Unpack(p) \/ Unpacked(p) \/ Compare(p) \/ Gate(p) \/ ValidateScreenshots(p)
  \/ Copy(p) \/ CompareCopy(p) \/ Move(p) \/ Exit(p) \/ Stop(p) \/ Kill(p)

Validator(r) ==
  \/ Begin(r) \/ ExtractExactCandidate(r) \/ Sessions(r) \/ Rehash(r)
  \/ Promote(r) \/ HashFeatured(r) \/ WritePass(r) \/ Fail(r) \/ Abandon(r)

Next ==
  \/ \E p \in Pipelines : Pipeline(p)
  \/ \E r \in Runs : Validator(r)
  \/ Edit \/ ReplaceCandidate

Spec == Init /\ [][Next]_vars

-------------------------------------------------------------------------------
(* Properties. *)

Process ==
  [at : {"idle", "build", "pack", "stage", "snapshot", "rebuild", "unpack", "unpacking",
         "compare", "gate", "screenshots", "copy", "copied", "move"},
   alive : BOOLEAN, mode : {"prepare", "publish", "all"},
   upt : Files, rootfs : Versions \cup {None}, tmp : Files, doc : Runs \cup {None}]

Evidence ==
  [at : {"new", "extract", "sessions", "rehash", "promote", "hash", "write", "passed", "failed"},
   digest : Files, tree : Versions \cup {None}, swaps : 0..2, n : Featured,
   shown : [Featured -> Runs \cup {None}]]

\* What each part is; what has been unpacked and what is published is whole.
TypeOK ==
  /\ src \in Versions
  /\ rootfsImage \in Files /\ candidate \in Files /\ verified \in Files
  /\ rebuilt \in Versions \cup {None}
  /\ check \in [of : Versions \cup {None}, whole : BOOLEAN]
  /\ output \in Versions \cup {None}
  /\ proc \in [Pipelines -> Process]
  /\ run \in [Runs -> Evidence]
  /\ manifest \in [status : {"absent", "RUNNING", "PASS", "FAIL"}, of : Runs \cup {None}]
  /\ featured \in [Featured -> Runs \cup {None}]
  /\ events \in 0..MaxEvents

\* From the end of its verification on, a pipeline finds the workspace as it
\* verified it, whoever else was started or left behind: build-cfw-0.1.sh:57
\* says that two of them cannot mix two candidates.
OneLifecycle ==
  \A p \in Pipelines :
    proc[p].at \in {"gate", "screenshots", "copy", "copied", "move"} =>
      /\ verified = proc[p].upt /\ rootfsImage = proc[p].upt /\ rebuilt = proc[p].upt
      /\ check = [of |-> proc[p].upt, whole |-> TRUE]

\* The published firmware was executed by a run that completed every check.
\* A run that hashes the image it reads before and after misses one thing: an
\* image that becomes another version and then the first one again.
PublishedTested ==
  output # None =>
    \E r \in Runs :
      /\ run[r].at = "passed" /\ run[r].digest = output
      /\ Ssh[run[r].tree] = Ssh[output]
      /\ run[r].tree = output \/ run[r].swaps = 2

\* Evidence the gate lets through is of one run, though two runs share the
\* manifest and the featured screenshots without a lock.
EvidenceOfOneRun ==
  \A p \in Pipelines :
    proc[p].at \in {"copy", "copied", "move"} =>
      /\ run[proc[p].doc].at = "passed"
      /\ \A f \in Featured : run[proc[p].doc].shown[f] = proc[p].doc

===============================================================================
