---------------------------- MODULE FirmwareBuild ----------------------------
(***************************************************************************)
(* tools/build-cfw-0.1.sh from the vendor's firmware to a verified         *)
(* candidate: extract, the tools of RootfsPatch in their order, build the  *)
(* image, pack it into the container of OtaContainer, unpack that again    *)
(* and verify what comes out.  ReleaseGate has the lock, the tests and the *)
(* publication around it, this module what happens inside.                 *)
(*                                                                         *)
(* Everything may be killed, between two files or in the middle of one; a  *)
(* developer runs single tools by hand on the tree that is there, and      *)
(* edits its files at any time; the candidate may be damaged where it is   *)
(* stored.  The script ends at the first command that fails (set -e), and  *)
(* before anything else when the vendor's firmware is not the known one.   *)
(* The first byte of an image is the tree in it.                           *)
(***************************************************************************)
EXTENDS OtaContainer, RootfsPatch

CONSTANTS
  Sizes,           \* the sizes an image may get
  MaxSize,         \* rootfs_max_size
  KernelImage,     \* the vendor's
  Pad, Bad,        \* bytes: of an image after the first; a damaged one
  Hours, Epoch,    \* when a build runs; SOURCE_DATE_EPOCH
  MaxEvents,       \* bound: kills, edits, damages and tools run by hand
  None

ASSUME SizesAssumption ==
  /\ Sizes \subseteq Nat \ {0} /\ MaxSize \in Nat
  /\ Epoch \notin Hours

\* What is known of a tool that runs and has these files to write.
ToolStates(files) ==
  [name: Tools, seen: [Files -> Contents], quiet: BOOLEAN,
   at: {"planned", "writing", "written"}, plan: [files -> Contents]]

VARIABLES
  root,     \* work/.../rootfs, or None
  tool,     \* the tool that runs: [name, plan, seen, at, quiet], or None
  done,     \* tools that succeeded and nothing was written since
  script,   \* [at, mode, verdict, quiet]
  image,    \* rootfs.squashfs, or None
  upt,      \* the candidate, with what was packed into it, or None
  events

vars == <<root, tool, done, script, image, upt, events>>

Stages == <<"extract", "overlay", "branding", "ssh", "hook", "launcher",
            "retro", "retro_launcher", "build", "pack", "verify">>
Stage == IF script.at = 0 THEN "idle" ELSE Stages[script.at]

Init ==
  /\ root = None /\ tool = None /\ done = {}
  /\ script = [at |-> 0, mode |-> "prepare", verdict |-> "none", quiet |-> TRUE]
  /\ image = None /\ upt = None /\ events = 0

-----------------------------------------------------------------------------
(* The script: prepare, or publish with the candidate there is.            *)

Prepare ==
  /\ Stage = "idle" /\ tool = None
  /\ script' = [at |-> 1, mode |-> "prepare", verdict |-> "none", quiet |-> TRUE]
  /\ UNCHANGED <<root, tool, done, image, upt, events>>

Publish ==
  /\ Stage = "idle" /\ tool = None
  /\ script' = [at |-> Len(Stages), mode |-> "publish", verdict |-> "none",
                quiet |-> TRUE]
  /\ UNCHANGED <<root, tool, done, image, upt, events>>

NextStage == script' = [script EXCEPT !.at = @ + 1]
Ends(verdict) == script' = [script EXCEPT !.at = 0, !.verdict = verdict]

\* Variant: the tree is extracted over the one that is there.
ExtractOnto ==
  /\ Stage = "extract"
  /\ root' = IF root = None THEN StockTree
             ELSE [root EXCEPT !.file = StockTree.file @@ @]
  /\ NextStage
  /\ done' = {}
  /\ UNCHANGED <<tool, image, upt, events>>

\* extract-rootfs --force removes the tree before it makes one.
Extract ==
  /\ Stage = "extract"
  /\ IF root # None
     THEN root' = None /\ UNCHANGED script
     ELSE root' = StockTree /\ NextStage
  /\ done' = {}
  /\ UNCHANGED <<tool, image, upt, events>>

ImageOf(tree, n) == [i \in 1..n |-> IF i = 1 THEN tree ELSE Pad]

BuildRootfs ==
  /\ Stage = "build"
  /\ \E n \in Sizes :
       /\ image' = ImageOf(root, n)
       /\ IF n <= MaxSize THEN NextStage ELSE Ends("refused")
  /\ UNCHANGED <<root, tool, done, upt, events>>

FreshIso(hour) == GenIsoImage(PrepareOtaTree(KernelImage, image), hour)
Packed == [n \in {Kernel, Rootfs} |-> IF n = Kernel THEN KernelImage ELSE image]
Candidate(iso) == [iso |-> iso, packed |-> Packed]

\* What the build comes to: the tree that all tools went over, its image
\* and its container.
FinishedTree ==
  [file  |-> [f \in Files |-> IF f \in VendorFiles THEN "stock" ELSE "cfw"],
   temps |-> {}, retro |-> [f \in LightFiles |-> "cfw"]]
FinishedImage(n) == ImageOf(FinishedTree, n)
FinishedUpt(n) ==
  [iso    |-> [ota    |-> PrepareOtaTree(KernelImage, FinishedImage(n)),
               dates  |-> Epoch, stamps |-> [a \in Areas |-> Epoch]],
   packed |-> [i \in {Kernel, Rootfs} |-> IF i = Kernel THEN KernelImage
                                          ELSE FinishedImage(n)]]

ASSUME NoneAssumption ==
  /\ None \notin Trees
  /\ \A files \in SUBSET Files : None \notin ToolStates(files)
  /\ \A n \in Sizes : None # FinishedImage(n) /\ None # FinishedUpt(n)

\* unpack reads from that container what was packed into it.
RoundTrips ==
  \A n \in Sizes :
    Unpack(FinishedUpt(n).iso.ota) = [ok |-> TRUE, images |-> FinishedUpt(n).packed]

\* genisoimage writes to the candidate's place, and the wrapper and the
\* packer rewrite it there.
Pack ==
  /\ Stage = "pack"
  /\ \E hour \in Hours :
       upt' = Candidate(NormalizeRockRidge(
                NormalizeVolumeDescriptors(FreshIso(hour), Epoch), Epoch))
  /\ NextStage
  /\ UNCHANGED <<root, tool, done, image, events>>

\* verify_candidate, on a copy of the candidate.
CandidateVerified ==
  /\ upt # None /\ image # None
  /\ LET out == Unpack(upt.iso.ota)
     IN
     /\ out.ok
     /\ DOMAIN out.images = {Kernel, Rootfs}
     /\ out.images[Kernel] = KernelImage
     /\ out.images[Rootfs] = image
     /\ Len(image) <= MaxSize
     /\ image[1] \in Trees
     /\ \A t \in Tools : Verified(t, image[1])
     /\ StrictDiff(image[1])

Verify ==
  /\ Stage = "verify"
  /\ Ends(IF CandidateVerified THEN "accepted" ELSE "refused")
  /\ UNCHANGED <<root, tool, done, image, upt, events>>

-----------------------------------------------------------------------------
(* One tool, run by the script in its turn or by hand between scripts.     *)

\* It ends: the script goes on, or ends with it.
ToolEnds(ok) ==
  /\ tool' = None
  /\ IF Stage = "idle" THEN UNCHANGED script
     ELSE IF ok THEN NextStage ELSE Ends("refused")

Starts(name) ==
  IF Takes(name, root)
  THEN /\ tool' = [name |-> name, seen |-> root.file, quiet |-> TRUE,
                   at |-> IF name = "branding" THEN "planned" ELSE "writing",
                   plan |-> IF name = "retro" THEN Derived(root)
                            ELSE Plan(name, root)]
       /\ UNCHANGED <<done, script>>
  ELSE ToolEnds(FALSE) /\ UNCHANGED done

RunTool ==
  /\ Stage \in Tools /\ tool = None /\ Starts(Stage)
  /\ UNCHANGED <<root, image, upt, events>>

RunByHand(name) ==
  /\ Stage = "idle" /\ tool = None /\ root # None /\ events < MaxEvents
  /\ Starts(name)
  /\ events' = events + 1
  /\ UNCHANGED <<root, image, upt>>

\* The branding reads its files again before it writes the first.
Recheck ==
  /\ tool # None /\ tool.at = "planned"
  /\ IF \A f \in Config \cup BrandFiles : root.file[f] = tool.seen[f]
     THEN tool' = [tool EXCEPT !.at = "writing"] /\ UNCHANGED <<done, script>>
     ELSE ToolEnds(FALSE) /\ UNCHANGED done
  /\ UNCHANGED <<root, image, upt, events>>

Without(plan, f) == [g \in DOMAIN plan \ {f} |-> plan[g]]

\* The order among the files of one tool is left open.
WriteFile ==
  /\ tool # None /\ tool.at = "writing" /\ tool.name # "retro"
  /\ \E f \in DOMAIN tool.plan :
       /\ root' = [root EXCEPT !.file[f] = tool.plan[f]]
       /\ tool' = [tool EXCEPT !.plan = Without(@, f)]
  /\ done' = {}
  /\ UNCHANGED <<script, image, upt, events>>

\* The old theme is removed, the new one copied.
InstallTheme ==
  /\ tool # None /\ tool.name = "retro" /\ tool.at = "writing"
  /\ IF root.retro # NoTheme
     THEN root' = [root EXCEPT !.retro = NoTheme] /\ UNCHANGED tool
     ELSE root' = [root EXCEPT !.retro = tool.plan]
          /\ tool' = [tool EXCEPT !.at = "written"]
  /\ done' = {}
  /\ UNCHANGED <<script, image, upt, events>>

\* patch_r1_ssh_toggle.py verifies what it wrote.
FinishTool ==
  /\ tool # None
  /\ IF tool.name = "retro" THEN tool.at = "written"
     ELSE tool.at = "writing" /\ DOMAIN tool.plan = {}
  /\ LET ok == tool.name = "ssh" => SshVerified(root)
     IN /\ ToolEnds(ok)
        /\ done' = IF ok /\ tool.quiet THEN done \cup {tool.name} ELSE done
  /\ UNCHANGED <<root, image, upt, events>>

-----------------------------------------------------------------------------
(* What happens to them.                                                   *)

Happens == events < MaxEvents /\ events' = events + 1

\* What a killed tool leaves of the file it was writing: a file that was
\* written in place may be cut off, one that is written beside its place
\* may leave the temporary file.
CutOff ==
  IF tool = None \/ tool.at # "writing" THEN {root}
  ELSE {root} \cup
    IF tool.name = "retro"
    THEN IF root.retro = NoTheme THEN {[root EXCEPT !.retro = PartTheme]}
         ELSE {}
    ELSE {IF Atomic(tool.name)
          THEN [root EXCEPT !.temps = @ \cup {f}]
          ELSE [root EXCEPT !.file[f] = "broken"] : f \in DOMAIN tool.plan}

\* What a killed pack leaves: genisoimage's file, whole but with the time
\* stamps of the hour, or cut off.
Unfinished ==
  LET Fresh == {Candidate(FreshIso(h)) : h \in Hours}
  IN Fresh \cup {[c EXCEPT !.iso.ota.chunks = {}, !.iso.ota.metadata = <<>>]
                 : c \in Fresh}

Kill ==
  /\ Happens
  /\ Stage # "idle" \/ tool # None
  /\ root' \in CutOff
  /\ image' \in {image} \cup (IF Stage = "build" THEN {<<Bad>>} ELSE {})
  /\ upt' \in {upt} \cup (IF Stage = "pack" THEN Unfinished ELSE {})
  /\ tool' = None /\ done' = {}
  /\ Ends("none")

\* Somebody edits a file of the tree.
Edit ==
  /\ Happens
  /\ root # None
  /\ \E f \in Files :
       \E c \in IF f \in Generated THEN {"broken"}
                ELSE {"broken", IF root.file[f] \in Marked
                                THEN "editedcfw" ELSE "edited"} :
         root' = [root EXCEPT !.file[f] = c]
  /\ tool' = IF tool = None THEN None ELSE [tool EXCEPT !.quiet = FALSE]
  /\ script' = [script EXCEPT !.quiet = FALSE]
  /\ done' = {}
  /\ UNCHANGED <<image, upt>>

\* One thing in the container that is no longer what was written.
DamagedChunks(ota) ==
  {[ota EXCEPT !.chunks = @ \ {c}] : c \in ota.chunks}
  \cup {[ota EXCEPT !.chunks = (@ \ {c}) \cup {[c EXCEPT !.data = <<Bad>>]}]
        : c \in ota.chunks}
  \cup {[ota EXCEPT !.chunks = (@ \ {c, d}) \cup
          {[c EXCEPT !.data = d.data], [d EXCEPT !.data = c.data]}]
        : c, d \in ota.chunks}
DamagedManifests(ota) ==
  {[ota EXCEPT !.manifests = @ \ {m}] : m \in ota.manifests}
  \cup {[ota EXCEPT !.manifests = (@ \ {m}) \cup
          {[m EXCEPT !.hashes = [i \in DOMAIN m.hashes |-> <<Bad>>]]}]
        : m \in ota.manifests}
DamagedMetadata(ota) ==
  {[ota EXCEPT !.metadata = [@ EXCEPT ![i] = Incomplete]]
   : i \in DOMAIN ota.metadata}
  \cup {[ota EXCEPT !.metadata = SubSeq(@, 2, Len(@))]}
Damaged(ota) == DamagedChunks(ota) \cup DamagedManifests(ota)
                \cup DamagedMetadata(ota)

Damage ==
  /\ Happens
  /\ upt # None
  /\ \E ota \in Damaged(upt.iso.ota) :
       upt' = [upt EXCEPT !.iso.ota = ota]
  /\ script' = [script EXCEPT !.quiet = FALSE]
  /\ UNCHANGED <<root, tool, done, image>>

-----------------------------------------------------------------------------
Next ==
  \/ Prepare \/ Publish \/ Extract \/ BuildRootfs \/ Pack \/ Verify
  \/ RunTool \/ (\E name \in Tools : RunByHand(name))
  \/ Recheck \/ WriteFile \/ InstallTheme \/ FinishTool
  \/ Kill \/ Edit \/ Damage

Spec == Init /\ [][Next]_vars

-----------------------------------------------------------------------------
(* Properties. *)

\* The tree the tools are for: all of it there, nothing else, the vendor's
\* files as they were, and the theme derived from the resources beside it.
Complete(t) ==
  /\ \A f \in VendorFiles : t.file[f] = "stock"
  /\ \A f \in Generated \cup PlayerFiles \cup WrapperFiles : t.file[f] = "cfw"
  /\ \A f \in BrandFiles \cup LauncherTexts : t.file[f] \in Marked
  /\ t.temps = {} /\ t.retro = Derived(t)

\* A candidate the script accepts carries a complete tree and the vendor's
\* kernel, whatever was killed, edited, run twice or damaged before
\* (verify_candidate of tools/build-cfw-0.1.sh).
AcceptedIsComplete ==
  script.verdict = "accepted" => Complete(image[1]) /\ upt.packed = Packed

\* The script refuses its own work only when the image is too large: a
\* prepare that nobody edits under gets through with every image size, and
\* nothing an earlier run or a tool run by hand left stands in its way
\* (build-cfw-0.1.sh prepare_candidate; r1fw.py split_image, rebuild_image).
QuietPrepareSucceeds ==
  script.mode = "prepare" /\ script.quiet /\ script.verdict = "refused"
    => image # None /\ Len(image) > MaxSize

\* What unpack accepts are the images that were packed, however the
\* container was damaged since (r1fw.py command_unpack).
UnpackTruthful ==
  upt # None =>
    LET out == Unpack(upt.iso.ota)
    IN out.ok => \A n \in DOMAIN out.images : out.images[n] = upt.packed[n]

\* A tool that reports success over a tree nobody changes under it leaves
\* one that its verify or --check mode accepts, whatever the tree was
\* before (the patch_r1_*.py apply and verify commands).
ApplyAgreesWithCheck == root # None => \A name \in done : Verified(name, root)

\* An accepted build holds no hour: every date and every time stamp of its
\* container is the release's epoch (r1fw.py command_pack).
PackedIsReproducible ==
  script.verdict = "accepted" /\ script.mode = "prepare" =>
    /\ upt.iso.dates = Epoch
    /\ \A a \in Areas : upt.iso.stamps[a] = Epoch

=============================================================================
