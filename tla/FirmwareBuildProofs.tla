------------------------- MODULE FirmwareBuildProofs -------------------------
(***************************************************************************)
(* What holds of the build whatever the files, the sizes, the chunks and   *)
(* the container's directories are: what unpack accepts was packed, what   *)
(* the script accepts is complete and holds no hour, a tool's own check    *)
(* accepts what it reports success over, and a prepare that nobody         *)
(* disturbs fails for the size of the image only.                          *)
(*                                                                         *)
(* The argument: no damage changes the digest in a manifest's name, and    *)
(* rebuild_image compares the joined chunks with that digest, so an        *)
(* accepted image is the packed one. After the verdict only the candidate  *)
(* can still change, and not what was packed into it (IInv).  While a tool *)
(* nobody disturbs runs, every file is as the tool found it or as it       *)
(* planned it from what it found, so that with nothing left to write the   *)
(* tree is the tool's plan applied (ToolInv).  Without a disturbance the   *)
(* tree between two stages is therefore one known tree for each stage,     *)
(* which the next tool takes (QuietInv).                                   *)
(***************************************************************************)
EXTENDS FirmwareBuild, TLAPS

\* The script's state is the record it is built as, and a verdict stands
\* only while no script runs.
Settled ==
  /\ script = [at |-> script.at, mode |-> script.mode,
               verdict |-> script.verdict, quiet |-> script.quiet]
  /\ script.verdict = "accepted" => script.at = 0

\* The candidate and its manifests are the records they are built as.
UptShape ==
  upt # None =>
    /\ upt = [iso |-> upt.iso, packed |-> upt.packed]
    /\ upt.iso = [ota |-> upt.iso.ota, dates |-> upt.iso.dates,
                  stamps |-> upt.iso.stamps]
    /\ upt.iso.ota = [chunks |-> upt.iso.ota.chunks,
                      manifests |-> upt.iso.ota.manifests,
                      metadata |-> upt.iso.ota.metadata]
    /\ upt.packed = [n \in {Kernel, Rootfs} |-> upt.packed[n]]
    /\ \A m \in upt.iso.ota.manifests :
         m = [image |-> m.image, md5 |-> m.md5, hashes |-> m.hashes]

\* A manifest's name carries the digest of the image that was packed.
ManifestsNamed ==
  upt # None =>
    \A m \in upt.iso.ota.manifests : m.md5 = upt.packed[m.image]

IInv == UptShape /\ ManifestsNamed /\ Settled /\ AcceptedIsComplete

-----------------------------------------------------------------------------
(* Unpacking. *)

\* unpack joins the chunks of an accepted image to the bytes whose digest
\* its manifest's name carries (r1fw.py rebuild_image).
LEMMA UnpackJoins ==
  ASSUME NEW ota, Unpack(ota).ok, NEW n \in DOMAIN Unpack(ota).images
  PROVE  \E m \in ota.manifests : m.image = n /\ Unpack(ota).images[n] = m.md5
<1> DEFINE found == FindImages(ota)
<1> DEFINE meta == ParseOtaMetadata(ota.metadata)
<1>1. /\ DOMAIN found = {e.name : e \in meta.entries}
      /\ \A e \in meta.entries : RebuildAccepts(ota, e.name, found[e.name])
      /\ Unpack(ota).images = [i \in DOMAIN found |-> Joined(found[i])]
  BY DEF Unpack
<1>2. n \in DOMAIN found /\ Unpack(ota).images[n] = Joined(found[n])
  BY <1>1
<1>3. PICK e \in meta.entries : e.name = n
  BY <1>1, <1>2
<1>4. RebuildAccepts(ota, n, found[n])
  BY <1>1, <1>3
<1>5. \E m \in ota.manifests : {i \in ota.manifests : i.image = n} = {m}
                               /\ Joined(found[n]) = m.md5
  BY <1>4 DEF RebuildAccepts
<1>6. QED
  BY <1>2, <1>5

\* Among shaped candidates whose manifests are named for what was packed,
\* unpack is truthful.
LEMMA NamedIsTruthful ==
  ASSUME ManifestsNamed
  PROVE  UnpackTruthful
BY UnpackJoins DEF ManifestsNamed, UnpackTruthful

\* The packer names the manifests for what it packs.
LEMMA PackedNamed ==
  ASSUME NEW dates, NEW stamps,
         upt' = [iso |-> [ota |-> PrepareOtaTree(KernelImage, image),
                          dates |-> dates, stamps |-> stamps],
                 packed |-> Packed]
  PROVE  /\ upt' = [iso |-> upt'.iso, packed |-> upt'.packed]
         /\ upt'.iso = [ota |-> upt'.iso.ota, dates |-> upt'.iso.dates,
                        stamps |-> upt'.iso.stamps]
         /\ upt'.iso.ota = [chunks |-> upt'.iso.ota.chunks,
                            manifests |-> upt'.iso.ota.manifests,
                            metadata |-> upt'.iso.ota.metadata]
         /\ upt'.packed = [n \in {Kernel, Rootfs} |-> upt'.packed[n]]
         /\ \A m \in upt'.iso.ota.manifests :
              /\ m = [image |-> m.image, md5 |-> m.md5, hashes |-> m.hashes]
              /\ m.md5 = upt'.packed[m.image]
<1> DEFINE x == SplitImage(Kernel, KernelImage).manifest
<1> DEFINE r == SplitImage(Rootfs, image).manifest
<1>1. /\ x = [image |-> Kernel, md5 |-> KernelImage, hashes |-> x.hashes]
      /\ r = [image |-> Rootfs, md5 |-> image, hashes |-> r.hashes]
  BY DEF SplitImage
<1>2. PrepareOtaTree(KernelImage, image).manifests = {x, r}
  BY DEF PrepareOtaTree
<1>3. /\ upt'.iso.ota = PrepareOtaTree(KernelImage, image)
      /\ upt'.packed = Packed
  OBVIOUS
<1>4. Packed[Kernel] = KernelImage /\ Packed[Rootfs] = image
  BY DEF Packed, Kernel, Rootfs
<1>5. \A m \in upt'.iso.ota.manifests :
              /\ m = [image |-> m.image, md5 |-> m.md5, hashes |-> m.hashes]
              /\ m.md5 = upt'.packed[m.image]
  <2> HIDE DEF x, r
  <2> QED BY <1>1, <1>2, <1>3, <1>4
<1>6. upt'.packed = [n \in {Kernel, Rootfs} |-> upt'.packed[n]]
  BY <1>3 DEF Packed
<1>7. upt'.iso.ota = [chunks |-> upt'.iso.ota.chunks,
                      manifests |-> upt'.iso.ota.manifests,
                      metadata |-> upt'.iso.ota.metadata]
  BY <1>3 DEF PrepareOtaTree
<1>8. QED
  BY <1>5, <1>6, <1>7

-----------------------------------------------------------------------------
(* Steps. *)

\* What the packer writes, finished or not, is shaped and named.
LEMMA PackKeeps ==
  ASSUME Pack \/ upt' \in Unfinished
  PROVE  UptShape' /\ ManifestsNamed'
<1>1. ASSUME Pack
      PROVE  \E dates, stamps :
               upt' = [iso |-> [ota |-> PrepareOtaTree(KernelImage, image),
                                dates |-> dates, stamps |-> stamps],
                       packed |-> Packed]
  <2>1. PICK hour \in Hours :
          upt' = Candidate(NormalizeRockRidge(
                   NormalizeVolumeDescriptors(FreshIso(hour), Epoch), Epoch))
    BY <1>1 DEF Pack
  <2>2. QED
    BY <2>1 DEF Candidate, NormalizeRockRidge, NormalizeVolumeDescriptors,
                FreshIso, GenIsoImage
<1>2. CASE Pack
  BY <1>1, <1>2, PackedNamed DEF UptShape, ManifestsNamed
<1>3. CASE upt' \in Unfinished
  <2>1. PICK hour \in Hours :
          \/ upt' = Candidate(FreshIso(hour))
          \/ upt' = [Candidate(FreshIso(hour)) EXCEPT
                       !.iso.ota.chunks = {}, !.iso.ota.metadata = <<>>]
    BY <1>3 DEF Unfinished
  <2>2. CASE upt' = Candidate(FreshIso(hour))
    BY <2>2, PackedNamed
       DEF UptShape, ManifestsNamed, Candidate, FreshIso, GenIsoImage
  <2>3. CASE upt' = [Candidate(FreshIso(hour)) EXCEPT
                       !.iso.ota.chunks = {}, !.iso.ota.metadata = <<>>]
    <3> DEFINE x == SplitImage(Kernel, KernelImage).manifest
    <3> DEFINE r == SplitImage(Rootfs, image).manifest
    <3>1. /\ x = [image |-> Kernel, md5 |-> KernelImage, hashes |-> x.hashes]
          /\ r = [image |-> Rootfs, md5 |-> image, hashes |-> r.hashes]
      BY DEF SplitImage
    <3>2. PICK dates, stamps :
            upt' = [iso |-> [ota |-> [chunks |-> {}, manifests |-> {x, r},
                                      metadata |-> <<>>],
                             dates |-> dates, stamps |-> stamps],
                    packed |-> Packed]
      BY <2>3 DEF Candidate, FreshIso, GenIsoImage, PrepareOtaTree
    <3>3. Packed[Kernel] = KernelImage /\ Packed[Rootfs] = image
      BY DEF Packed, Kernel, Rootfs
    <3>4. Packed = [n \in {Kernel, Rootfs} |-> Packed[n]]
      BY DEF Packed
    <3> HIDE DEF x, r
    <3>5. /\ upt'.packed = Packed
          /\ upt'.iso.ota.manifests = {x, r}
          /\ upt'.iso.ota = [chunks |-> upt'.iso.ota.chunks,
                             manifests |-> upt'.iso.ota.manifests,
                             metadata |-> upt'.iso.ota.metadata]
          /\ upt'.iso = [ota |-> upt'.iso.ota, dates |-> upt'.iso.dates,
                         stamps |-> upt'.iso.stamps]
          /\ upt' = [iso |-> upt'.iso, packed |-> upt'.packed]
      BY <3>2
    <3>6. \A m \in upt'.iso.ota.manifests :
            /\ m = [image |-> m.image, md5 |-> m.md5, hashes |-> m.hashes]
            /\ m.md5 = upt'.packed[m.image]
      BY <3>1, <3>3, <3>5
    <3>7. QED
      BY <3>4, <3>5, <3>6 DEF UptShape, ManifestsNamed
  <2>4. QED
    BY <2>1, <2>2, <2>3
<1>4. QED
  BY <1>2, <1>3

\* Damage leaves the names of the manifests alone.
LEMMA DamageKeeps ==
  ASSUME UptShape, ManifestsNamed, Damage
  PROVE  UptShape' /\ ManifestsNamed' /\ upt'.packed = upt.packed
<1> DEFINE ota == upt.iso.ota
<1>1. PICK o \in Damaged(ota) : upt' = [upt EXCEPT !.iso.ota = o]
  BY DEF Damage
<1>2. upt # None
  BY DEF Damage
<1>3. ota = [chunks |-> ota.chunks, manifests |-> ota.manifests,
             metadata |-> ota.metadata]
  BY <1>2 DEF UptShape
<1>4. /\ o = [chunks |-> o.chunks, manifests |-> o.manifests,
              metadata |-> o.metadata]
      /\ \/ o.manifests \subseteq ota.manifests
         \/ \E m \in ota.manifests : \E h :
              o.manifests = (ota.manifests \ {m}) \cup {[m EXCEPT !.hashes = h]}
  <2> HIDE DEF ota
  <2>1. CASE o \in DamagedChunks(ota)
    <3>1. \E c : o = [ota EXCEPT !.chunks = c]
      BY <2>1 DEF DamagedChunks
    <3>2. QED
      BY <3>1, <1>3
  <2>2. CASE o \in DamagedManifests(ota)
    <3>1. \/ \E m \in ota.manifests : o = [ota EXCEPT !.manifests = @ \ {m}]
          \/ \E m \in ota.manifests : \E h :
               o = [ota EXCEPT !.manifests = (@ \ {m}) \cup {[m EXCEPT !.hashes = h]}]
      BY <2>2 DEF DamagedManifests
    <3>2. QED
      BY <3>1, <1>3
  <2>3. CASE o \in DamagedMetadata(ota)
    <3>1. \E d : o = [ota EXCEPT !.metadata = d]
      BY <2>3 DEF DamagedMetadata
    <3>2. QED
      BY <3>1, <1>3
  <2>4. QED
    BY <1>1, <2>1, <2>2, <2>3 DEF Damaged
<1>5. \A m \in o.manifests :
        /\ m = [image |-> m.image, md5 |-> m.md5, hashes |-> m.hashes]
        /\ m.md5 = upt.packed[m.image]
  <2>1. CASE o.manifests \subseteq ota.manifests
    BY <2>1, <1>2 DEF UptShape, ManifestsNamed
  <2>2. CASE \E m \in ota.manifests : \E h :
             o.manifests = (ota.manifests \ {m}) \cup {[m EXCEPT !.hashes = h]}
    BY <2>2, <1>2 DEF UptShape, ManifestsNamed
  <2>3. QED
    BY <1>4, <2>1, <2>2
<1>6. upt' = [iso |-> [ota |-> o, dates |-> upt.iso.dates,
                       stamps |-> upt.iso.stamps], packed |-> upt.packed]
  BY <1>1, <1>2 DEF UptShape
<1>7. QED
  BY <1>2, <1>4, <1>5, <1>6 DEF UptShape, ManifestsNamed


\* A step that leaves the candidate alone.
LEMMA UptKept ==
  ASSUME UptShape, ManifestsNamed, upt' = upt
  PROVE  UptShape' /\ ManifestsNamed' /\ upt'.packed = upt.packed
BY DEF UptShape, ManifestsNamed

\* A step after which no accepted verdict stands.
LEMMA NoVerdict ==
  ASSUME Settled,
         \/ script' = [script EXCEPT !.at = @ + 1] /\ script.verdict # "accepted"
         \/ \E v \in {"none", "refused"} :
              script' = [script EXCEPT !.at = 0, !.verdict = v]
         \/ \E a, m, q : script' = [at |-> a, mode |-> m, verdict |-> "none", quiet |-> q]
  PROVE  Settled' /\ AcceptedIsComplete'
<1> DEFINE Goal == /\ script' = [at |-> script'.at, mode |-> script'.mode,
                                 verdict |-> script'.verdict,
                                 quiet |-> script'.quiet]
                   /\ script'.verdict # "accepted"
<1>1. CASE script' = [script EXCEPT !.at = @ + 1] /\ script.verdict # "accepted"
  <2>1. script' = [at |-> script.at + 1, mode |-> script.mode,
                   verdict |-> script.verdict, quiet |-> script.quiet]
    BY <1>1 DEF Settled
  <2>2. Goal
    BY <1>1, <2>1
  <2>3. QED
    BY <2>2 DEF Settled, AcceptedIsComplete
<1>2. CASE \E v \in {"none", "refused"} :
             script' = [script EXCEPT !.at = 0, !.verdict = v]
  <2>1. PICK v \in {"none", "refused"} :
          script' = [at |-> 0, mode |-> script.mode, verdict |-> v,
                     quiet |-> script.quiet]
    BY <1>2 DEF Settled
  <2>2. Goal
    BY <2>1
  <2>3. QED
    BY <2>2 DEF Settled, AcceptedIsComplete
<1>3. CASE \E a, m, q :
             script' = [at |-> a, mode |-> m, verdict |-> "none", quiet |-> q]
  <2>1. Goal
    BY <1>3
  <2>2. QED
    BY <2>1 DEF Settled, AcceptedIsComplete
<1>4. QED
  BY <1>1, <1>2, <1>3

\* A step that leaves the verdict, the image and what was packed alone.
LEMMA VerdictKept ==
  ASSUME Settled, AcceptedIsComplete, image' = image,
         upt'.packed = upt.packed,
         \/ script' = script
         \/ \E q : script' = [script EXCEPT !.quiet = q]
  PROVE  Settled' /\ AcceptedIsComplete'
<1>1. Settled' /\ script'.verdict = script.verdict
  BY DEF Settled
<1>2. Packed' = Packed /\ Complete(image[1])' = Complete(image[1])
  BY DEF Packed
<1>3. QED
  BY <1>1, <1>2 DEF AcceptedIsComplete


\* What the script accepts is complete: its checks of the tree it unpacked
\* together leave no file out.
LEMMA VerifyAccepts ==
  ASSUME UptShape, ManifestsNamed, CandidateVerified
  PROVE  Complete(image[1]) /\ upt.packed = Packed
<1> DEFINE t == image[1]
<1>1. UnpackTruthful
  BY NamedIsTruthful
<1> DEFINE out == Unpack(upt.iso.ota)
<1>2. upt.packed[Kernel] = KernelImage /\ upt.packed[Rootfs] = image
  <2>1. /\ upt # None /\ out.ok
        /\ DOMAIN out.images = {Kernel, Rootfs}
        /\ out.images[Kernel] = KernelImage
        /\ out.images[Rootfs] = image
    BY DEF CandidateVerified
  <2>2. \A n \in DOMAIN out.images : out.images[n] = upt.packed[n]
    BY <1>1, <2>1 DEF UnpackTruthful
  <2> HIDE DEF out
  <2>3. QED
    BY <2>1, <2>2
<1>3. upt.packed = Packed
  BY <1>2 DEF UptShape, Packed, Kernel, Rootfs, CandidateVerified
<1>4. /\ OverlayCompared(t) /\ SshVerified(t) /\ HookChecked(t)
      /\ LauncherVerified(t) /\ RetroVerified(t) /\ RetroLauncherVerified(t)
      /\ BrandingChecked(t) /\ StrictDiff(t)
  <2>1. \A name \in Tools : Verified(name, t)
    BY DEF CandidateVerified
  <2>2. /\ Verified("overlay", t) /\ Verified("ssh", t) /\ Verified("hook", t)
        /\ Verified("launcher", t) /\ Verified("retro", t)
        /\ Verified("retro_launcher", t) /\ Verified("branding", t)
    BY <2>1 DEF Tools, Patchers
  <2>3. StrictDiff(t)
    BY DEF CandidateVerified
  <2>4. QED
    BY <2>2, <2>3 DEF Verified
<1>5. \A f \in BrandFiles : t.file[f] \in Marked
  <2>1. \A f \in BrandFiles : t.file[f] \in Unmarked \cup Marked
    BY <1>4 DEF BrandingChecked, BrandingTakes
  <2>2. \A f \in BrandFiles : t.file[f] \notin Unmarked
    BY <1>4 DEF BrandingChecked, BrandingPlan
  <2>3. QED
    BY <2>1, <2>2
<1>6. Complete(t)
  BY <1>4, <1>5 DEF Complete, OverlayCompared, SshVerified, HookChecked,
     LauncherVerified, RetroVerified, RetroLauncherVerified, StrictDiff, Generated
<1>7. QED
  BY <1>3, <1>6


-----------------------------------------------------------------------------
(* The invariant. *)

\* It holds in the initial state.
LEMMA InitInv == Init => IInv
BY DEF Init, IInv, UptShape, ManifestsNamed, Settled, AcceptedIsComplete

\* A running stage has no accepted verdict.
LEMMA RunningHasNone ==
  ASSUME Settled, Stage # "idle"
  PROVE  script.verdict # "accepted"
BY DEF Settled, Stage

\* A tool that ends leaves no accepted verdict, or the one there was.
LEMMA ToolEndsKeeps ==
  ASSUME Settled, AcceptedIsComplete, NEW ok \in BOOLEAN, ToolEnds(ok),
         image' = image, upt' = upt
  PROVE  Settled' /\ AcceptedIsComplete'
<1>1. CASE Stage = "idle"
  BY <1>1, VerdictKept DEF ToolEnds
<1>2. CASE Stage # "idle"
  <2>1. NextStage \/ Ends("refused")
    BY <1>2 DEF ToolEnds
  <2>2. QED
    BY <1>2, <2>1, RunningHasNone, NoVerdict DEF NextStage, Ends
<1>3. QED
  BY <1>1, <1>2

\* A tool that starts does too.
LEMMA StartsKeeps ==
  ASSUME Settled, AcceptedIsComplete, NEW name, Starts(name),
         image' = image, upt' = upt
  PROVE  Settled' /\ AcceptedIsComplete'
<1>1. ToolEnds(FALSE) \/ script' = script
  BY DEF Starts
<1>2. QED
  BY <1>1, ToolEndsKeeps, VerdictKept

\* Every step keeps the invariant.
LEMMA NextInv == IInv /\ [Next]_vars => IInv'
<1> SUFFICES ASSUME IInv, [Next]_vars PROVE IInv'
  OBVIOUS
<1> USE DEF IInv
<1>1. CASE Prepare
  BY <1>1, UptKept, NoVerdict DEF Prepare
<1>2. CASE Publish
  BY <1>2, UptKept, NoVerdict DEF Publish
<1>3. CASE Extract
  <2>1. script' = script \/ NextStage
    BY <1>3 DEF Extract
  <2>2. Stage # "idle" /\ image' = image /\ upt' = upt
    BY <1>3 DEF Extract
  <2>3. QED
    BY <2>1, <2>2, UptKept, VerdictKept, NoVerdict, RunningHasNone DEF NextStage
<1>4. CASE BuildRootfs
  <2>1. NextStage \/ Ends("refused")
    BY <1>4 DEF BuildRootfs
  <2>2. Stage # "idle" /\ upt' = upt
    BY <1>4 DEF BuildRootfs
  <2>3. QED
    BY <2>1, <2>2, UptKept, NoVerdict, RunningHasNone DEF NextStage, Ends
<1>5. CASE Pack
  <2>1. Stage # "idle" /\ NextStage
    BY <1>5 DEF Pack
  <2>2. QED
    BY <1>5, <2>1, PackKeeps, NoVerdict, RunningHasNone DEF NextStage
<1>6. CASE Verify
  <2>1. image' = image /\ upt' = upt
    BY <1>6 DEF Verify
  <2>2. CASE ~CandidateVerified
    <3>1. Ends("refused")
      BY <1>6, <2>2 DEF Verify
    <3>2. QED
      BY <2>1, <3>1, UptKept, NoVerdict DEF Ends
  <2>3. CASE CandidateVerified
    <3>1. script' = [script EXCEPT !.at = 0, !.verdict = "accepted"]
      BY <1>6, <2>3 DEF Verify, Ends
    <3>2. Settled'
      BY <3>1 DEF Settled
    <3>3. Complete(image[1]) /\ upt.packed = Packed
      BY <2>3, VerifyAccepts
    <3>4. AcceptedIsComplete'
      BY <2>1, <3>3 DEF AcceptedIsComplete, Packed
    <3>5. QED
      BY <2>1, <3>2, <3>4, UptKept
  <2>4. QED
    BY <2>2, <2>3
<1>7. CASE RunTool
  <2>1. Starts(Stage) /\ image' = image /\ upt' = upt
    BY <1>7 DEF RunTool
  <2>2. QED
    BY <2>1, StartsKeeps, UptKept
<1>8. CASE \E name \in Tools : RunByHand(name)
  <2>1. PICK name \in Tools : Starts(name) /\ image' = image /\ upt' = upt
    BY <1>8 DEF RunByHand
  <2>2. QED
    BY <2>1, StartsKeeps, UptKept
<1>9. CASE Recheck
  <2>1. /\ image' = image /\ upt' = upt
        /\ script' = script \/ ToolEnds(FALSE)
    BY <1>9 DEF Recheck
  <2>2. QED
    BY <2>1, ToolEndsKeeps, VerdictKept, UptKept
<1>10. CASE WriteFile \/ InstallTheme
  <2>1. image' = image /\ upt' = upt /\ script' = script
    BY <1>10 DEF WriteFile, InstallTheme
  <2>2. QED
    BY <2>1, VerdictKept, UptKept
<1>11. CASE FinishTool
  <2>1. /\ image' = image /\ upt' = upt
        /\ ToolEnds(tool.name = "ssh" => SshVerified(root))
    BY <1>11 DEF FinishTool
  <2>2. QED
    BY <2>1, ToolEndsKeeps, UptKept
<1>12. CASE Kill
  <2>1. UptShape' /\ ManifestsNamed'
    BY <1>12, UptKept, PackKeeps DEF Kill
  <2>2. Ends("none")
    BY <1>12 DEF Kill
  <2>3. QED
    BY <2>1, <2>2, NoVerdict DEF Ends
<1>13. CASE Edit
  <2>1. /\ image' = image /\ upt' = upt
        /\ script' = [script EXCEPT !.quiet = FALSE]
    BY <1>13 DEF Edit
  <2>2. QED
    BY <2>1, UptKept, VerdictKept
<1>14. CASE Damage
  <2>1. /\ image' = image /\ script' = [script EXCEPT !.quiet = FALSE]
    BY <1>14 DEF Damage
  <2>2. QED
    BY <1>14, <2>1, DamageKeeps, VerdictKept
<1>15. CASE UNCHANGED vars
  BY <1>15, UptKept, VerdictKept DEF vars
<1>16. QED
  BY <1>1, <1>2, <1>3, <1>4, <1>5, <1>6, <1>7, <1>8, <1>9, <1>10, <1>11,
     <1>12, <1>13, <1>14, <1>15 DEF Next

-----------------------------------------------------------------------------
(* The theorems. *)

\* Whatever happened to the container, what unpack accepts of it is what
\* was packed into it (r1fw.py command_unpack).
THEOREM AlwaysUnpackTruthful == Spec => []UnpackTruthful
<1>1. IInv => UnpackTruthful
  BY NamedIsTruthful DEF IInv
<1>2. QED
  BY <1>1, InitInv, NextInv, PTL DEF Spec

\* An accepted candidate carries a complete tree and the vendor's kernel,
\* for every set of files, image size and history (build-cfw-0.1.sh
\* verify_candidate).
THEOREM AlwaysAcceptedIsComplete == Spec => []AcceptedIsComplete
<1>1. IInv => AcceptedIsComplete
  BY DEF IInv
<1>2. QED
  BY <1>1, InitInv, NextInv, PTL DEF Spec

-----------------------------------------------------------------------------
(***************************************************************************)
(* The tools: a tool that takes a tree leaves one that its check accepts.  *)
(***************************************************************************)
\* What a tool would write are files of the tree.
LEMMA PlansFiles ==
  ASSUME NEW t \in Trees, NEW name \in Patchers
  PROVE  /\ DOMAIN Plan(name, t) \subseteq Files
         /\ \A f \in DOMAIN Plan(name, t) : Plan(name, t)[f] \in Contents
        /\ Plan(name, t) = [f \in DOMAIN Plan(name, t) |-> Plan(name, t)[f]]
<1>1. CASE name = "branding"
  BY <1>1 DEF Plan, BrandingPlan, Mark, Contents, Files, Patched
<1>2. CASE name = "ssh"
  BY <1>2 DEF Plan, SshPlan, Contents, Files, Patched
<1>3. CASE name = "hook"
  BY <1>3 DEF Plan, HookPlan, Contents, Files, Patched
<1>4. CASE name = "launcher"
  BY <1>4 DEF Plan, LauncherPlan, Mark, Contents, Files, Patched, Generated
<1>5. CASE name = "retro_launcher"
  BY <1>5 DEF Plan, RetroLauncherPlan, Contents, Files, Generated
<1>6. CASE name = "overlay"
  BY <1>6 DEF Plan, OverlayPlan, Contents, Files, Generated
<1> QED
  BY <1>1, <1>2, <1>3, <1>4, <1>5, <1>6 DEF Patchers

\* A tree before a tool and after it.
Applied(name, before, after) ==
  /\ after.temps = before.temps /\ after.retro = before.retro
  /\ \A f \in Files :
       after.file[f] = IF f \in DOMAIN Plan(name, before) THEN Plan(name, before)[f]
                       ELSE before.file[f]

LEMMA AppliedIsVerified ==
  ASSUME NEW b \in Trees, NEW t \in Trees, NEW name \in Patchers,
         Takes(name, b), Applied(name, b, t)
  PROVE  Verified(name, t)
<1>1. CASE name = "branding"
  <2> DEFINE P == BrandingPlan(b)
  <2>1. /\ Plan(name, b) = P /\ BrandingTakes(b) /\ (Verified(name, t) <=> BrandingChecked(t))
    BY <1>1 DEF Plan, Takes, Verified
  <2>2. \A f \in Config : f \in Files /\ f \notin DOMAIN P
    BY FilesAssumption DEF BrandingPlan, Files, VendorFiles, Patched
  <2>3. \A f \in BrandFiles : f \in Files /\ (f \in DOMAIN P <=> b.file[f] \in Unmarked)
    BY DEF BrandingPlan, Files, Patched
  <2>4. \A f \in DOMAIN P : P[f] \in Marked
    BY DEF BrandingPlan, Mark, Marked
  <2>5. \A f \in Config : t.file[f] = "stock"
    BY <2>1, <2>2 DEF Applied, BrandingTakes
  <2>6. \A f \in BrandFiles : t.file[f] \in Marked
    BY <2>1, <2>3, <2>4 DEF Applied, BrandingTakes
  <2>7. \A f \in BrandFiles : t.file[f] \notin Unmarked
    BY <2>6 DEF Marked, Unmarked
  <2> QED
    BY <2>1, <2>5, <2>6, <2>7 DEF BrandingChecked, BrandingTakes, BrandingPlan
<1>2. CASE name = "ssh"
  BY <1>2 DEF Plan, SshPlan, Applied, Verified, SshVerified, Files, Patched
<1>3. CASE name = "hook"
  BY <1>3 DEF Plan, HookPlan, Takes, HookTakes, Applied, Verified, HookChecked, Files, Patched
<1>4. CASE name = "launcher"
  <2> DEFINE P == LauncherPlan(b)
  <2>1. /\ Plan(name, b) = P /\ LauncherTakes(b) /\ (Verified(name, t) <=> LauncherVerified(t))
    BY <1>4 DEF Plan, Takes, Verified
  <2>2. \A f \in StockLayouts : f \in Files /\ f \notin DOMAIN P
    BY FilesAssumption DEF LauncherPlan, Files, VendorFiles, Patched, Generated
  <2>3. \A f \in LauncherTexts :
          /\ f \in Files /\ f \notin LauncherIcons \cup LauncherViews
          /\ f \in DOMAIN P <=> b.file[f] \in Unmarked
          /\ f \in DOMAIN P => P[f] \in Marked
    BY FilesAssumption DEF LauncherPlan, Files, Patched, Generated, Mark, Marked
  <2>4. \A f \in LauncherIcons \cup LauncherViews :
          /\ f \in Files
          /\ f \in DOMAIN P <=> b.file[f] # "cfw"
          /\ f \in DOMAIN P => P[f] = "cfw"
    BY FilesAssumption DEF LauncherPlan, Files, Patched, Generated
  <2>5. \A f \in StockLayouts : t.file[f] = "stock"
    BY <2>1, <2>2 DEF Applied, LauncherTakes
  <2>6. \A f \in LauncherTexts : t.file[f] \in Marked
    BY <2>1, <2>3 DEF Applied, LauncherTakes
  <2>7. \A f \in LauncherIcons \cup LauncherViews : t.file[f] = "cfw"
    BY <2>1, <2>4 DEF Applied
  <2> QED
    BY <2>1, <2>5, <2>6, <2>7 DEF Applied, LauncherTakes, LauncherVerified
<1>5. CASE name = "retro_launcher"
  BY <1>5 DEF Plan, RetroLauncherPlan, Takes, RetroLauncherTakes, Applied, Verified,
     RetroLauncherVerified, Files, Generated
<1>6. CASE name = "overlay"
  BY <1>6 DEF Plan, OverlayPlan, Applied, Verified, OverlayCompared, Files, Generated
<1> QED
  BY <1>1, <1>2, <1>3, <1>4, <1>5, <1>6 DEF Patchers

-----------------------------------------------------------------------------
(***************************************************************************)
(* The tree and the tool that runs on it.                                  *)
(***************************************************************************)

\* The tree is a tree or missing, a tool runs on one and in its turn, and
\* what it still has to write are files of it.
ToolShape ==
  /\ tool = [name |-> tool.name, seen |-> tool.seen, quiet |-> tool.quiet,
             at |-> tool.at, plan |-> tool.plan]
  /\ tool.name \in Tools /\ tool.quiet \in BOOLEAN
  /\ tool.seen \in [Files -> Contents]
  /\ \/ tool.at = "writing"
     \/ tool.at = "planned" /\ tool.name = "branding"
     \/ tool.at = "written" /\ tool.name = "retro"
  /\ IF tool.name = "retro"
     THEN tool.plan \in [LightFiles -> Contents]
     ELSE /\ tool.plan = [f \in DOMAIN tool.plan |-> tool.plan[f]]
          /\ DOMAIN tool.plan \subseteq Files
          /\ \A f \in DOMAIN tool.plan : tool.plan[f] \in Contents
ToolTyped ==
  /\ script.at \in 0..11
  /\ root \in Trees \cup {None}
  /\ script.at \in 2..9 => root # None
  /\ tool # None => /\ ToolShape /\ root # None
                    /\ script.at \in {0} \cup 2..8
                    /\ script.at # 0 => tool.name = Stages[script.at]

\* The tree as the tool found it.
Found == [file |-> tool.seen, temps |-> root.temps, retro |-> root.retro]

\* How far a tool is that nobody disturbed: what is no longer in its plan
\* is written, the rest is as it was.
QuietTool ==
  tool # None /\ tool.quiet =>
    IF tool.name = "retro"
    THEN /\ root.file = tool.seen
         /\ IF tool.at = "written" THEN root.retro = Derived(root)
            ELSE tool.plan = Derived(root)
    ELSE /\ Takes(tool.name, Found)
         /\ DOMAIN tool.plan \subseteq DOMAIN Plan(tool.name, Found)
         /\ \A f \in DOMAIN tool.plan : tool.plan[f] = Plan(tool.name, Found)[f]
         /\ \A f \in Files :
              root.file[f] = IF f \in DOMAIN Plan(tool.name, Found) \ DOMAIN tool.plan
                             THEN Plan(tool.name, Found)[f] ELSE tool.seen[f]
         /\ tool.at = "planned" => root.file = tool.seen

ToolInv == ToolTyped /\ QuietTool /\ ApplyAgreesWithCheck

\* The stages by number: the tools are the second to the eighth.
LEMMA StageAt ==
  ASSUME script.at \in 0..11
  PROVE  /\ Len(Stages) = 11
         /\ Stage = "idle" <=> script.at = 0
         /\ Stage = "extract" <=> script.at = 1
         /\ Stage = "build" <=> script.at = 9
         /\ Stage = "pack" <=> script.at = 10
         /\ Stage = "verify" <=> script.at = 11
         /\ Stage \in Tools <=> script.at \in 2..8
         /\ script.at # 0 => Stage = Stages[script.at]
<1>1. Len(Stages) = 11
  BY DEF Stages
<1>2. /\ Stages[1] = "extract" /\ Stages[2] = "overlay" /\ Stages[3] = "branding"
      /\ Stages[4] = "ssh" /\ Stages[5] = "hook" /\ Stages[6] = "launcher"
      /\ Stages[7] = "retro" /\ Stages[8] = "retro_launcher"
      /\ Stages[9] = "build" /\ Stages[10] = "pack" /\ Stages[11] = "verify"
  BY DEF Stages
<1>3. Stage = IF script.at = 0 THEN "idle" ELSE Stages[script.at]
  BY DEF Stage
<1>4. script.at \in {0, 1, 2, 3, 4, 5, 6, 7, 8, 9, 10, 11}
  OBVIOUS
<1>5. QED
  BY <1>1, <1>2, <1>3, <1>4 DEF Tools, Patchers

\* Writing a file of a tree leaves a tree.
LEMMA WrittenTree ==
  ASSUME NEW t \in Trees, NEW f \in Files, NEW c \in Contents
  PROVE  /\ [t EXCEPT !.file[f] = c] \in Trees
         /\ [t EXCEPT !.file[f] = c].temps = t.temps
         /\ [t EXCEPT !.file[f] = c].retro = t.retro
         /\ [t EXCEPT !.file[f] = c].file = [t.file EXCEPT ![f] = c]
BY DEF Trees

\* So does putting a theme in its place.
LEMMA ThemedTree ==
  ASSUME NEW t \in Trees, NEW r \in Themes
  PROVE  /\ [t EXCEPT !.retro = r] \in Trees
         /\ [t EXCEPT !.retro = r].temps = t.temps
         /\ [t EXCEPT !.retro = r].retro = r
         /\ [t EXCEPT !.retro = r].file = t.file
         /\ Derived([t EXCEPT !.retro = r]) = Derived(t)
BY DEF Trees, Derived

\* What the theme is derived from are files of the tree.
LEMMA DerivedTyped ==
  ASSUME NEW t \in Trees
  PROVE  Derived(t) \in [LightFiles -> Contents]
<1>1. LightFiles \subseteq Files
  BY FilesAssumption DEF Files, Patched, Generated
<1>2. QED
  BY <1>1 DEF Derived, Trees

\* The vendor's tree is a tree.
LEMMA StockTyped == StockTree \in Trees
BY DEF StockTree, Trees, Contents, Themes

\* What a killed tool leaves is a tree.
LEMMA CutOffTyped ==
  ASSUME ToolTyped, NEW t \in CutOff
  PROVE  t \in Trees \cup {None} /\ (root # None => t # None)
<1>1. CASE t = root
  BY <1>1 DEF ToolTyped
<1>2. CASE t # root
  <2>1. /\ tool # None /\ tool.at = "writing" /\ root \in Trees /\ root # None
        /\ ToolShape
    BY <1>2 DEF CutOff, ToolTyped
  <2>2. t \in Trees
    <3>1. CASE tool.name = "retro"
      <4>1. t = [root EXCEPT !.retro = PartTheme]
        BY <1>2, <2>1, <3>1 DEF CutOff
      <4>2. QED
        BY <2>1, <4>1 DEF Trees, Themes
    <3>2. CASE tool.name # "retro"
      <4>1. PICK f \in DOMAIN tool.plan :
              \/ t = [root EXCEPT !.temps = @ \cup {f}]
              \/ t = [root EXCEPT !.file[f] = "broken"]
        BY <1>2, <2>1, <3>2 DEF CutOff
      <4>2. f \in Files
        BY <2>1, <3>2 DEF ToolShape
      <4>3. CASE t = [root EXCEPT !.temps = @ \cup {f}]
        BY <2>1, <4>2, <4>3 DEF Trees
      <4>4. CASE t = [root EXCEPT !.file[f] = "broken"]
        BY <2>1, <4>2, <4>4, WrittenTree DEF Contents
      <4>5. QED
        BY <4>1, <4>3, <4>4
    <3>3. QED
      BY <3>1, <3>2
  <2>3. QED
    BY <2>2, NoneAssumption
<1>3. QED
  BY <1>1, <1>2

\* How the script's fields move.
LEMMA ScriptMoves ==
  ASSUME Settled
  PROVE  /\ NextStage => /\ script'.at = script.at + 1 /\ script'.mode = script.mode
                         /\ script'.verdict = script.verdict
                         /\ script'.quiet = script.quiet
         /\ \A v : Ends(v) => /\ script'.at = 0 /\ script'.mode = script.mode
                              /\ script'.verdict = v /\ script'.quiet = script.quiet
         /\ script' = [script EXCEPT !.quiet = FALSE] =>
              /\ script'.at = script.at /\ script'.mode = script.mode
              /\ script'.verdict = script.verdict /\ script'.quiet = FALSE
BY DEF Settled, NextStage, Ends

\* Without a tool nothing is asked of one.
LEMMA NoTool ==
  ASSUME ToolTyped, tool' = None, script'.at \in 0..11,
         root' \in Trees \cup {None}, script'.at \in 2..9 => root' # None
  PROVE  ToolTyped' /\ QuietTool'
BY DEF ToolTyped, QuietTool

\* A tool that ends leaves the tree to the next stage.
LEMMA ToolIsOver ==
  ASSUME Settled, ToolTyped, NEW ok \in BOOLEAN, ToolEnds(ok), root' = root,
         root # None, script.at \in {0} \cup 2..8
  PROVE  ToolTyped' /\ QuietTool'
<1>1. script'.at \in 0..11
  BY ScriptMoves DEF ToolTyped, ToolEnds
<1>2. QED
  BY <1>1, NoTool DEF ToolEnds, ToolTyped

\* Nothing is done after what leaves no tool done.
LEMMA NothingDone == done' = {} => ApplyAgreesWithCheck'
BY DEF ApplyAgreesWithCheck

\* What was verified stays so in the same tree.
LEMMA SameTree ==
  ASSUME ApplyAgreesWithCheck, root' = root, done' = done
  PROVE  ApplyAgreesWithCheck'
BY DEF ApplyAgreesWithCheck

\* A tool starts with nothing written.
LEMMA ToolStarts ==
  ASSUME Settled, ToolInv, NEW name \in Tools, Starts(name), tool = None,
         root' = root, root # None,
         script.at \in {0} \cup 2..8, script.at # 0 => name = Stages[script.at]
  PROVE  ToolInv'
<1>1. root \in Trees
  BY DEF ToolInv, ToolTyped
<1>2. CASE ~Takes(name, root)
  <2>1. ToolEnds(FALSE) /\ done' = done
    BY <1>2 DEF Starts
  <2>2. QED
    BY <2>1, ToolIsOver, SameTree DEF ToolInv
<1>3. CASE Takes(name, root)
  <2>1. /\ tool' = [name |-> name, seen |-> root.file, quiet |-> TRUE,
                    at |-> IF name = "branding" THEN "planned" ELSE "writing",
                    plan |-> IF name = "retro" THEN Derived(root)
                             ELSE Plan(name, root)]
        /\ done' = done /\ script' = script
    BY <1>3 DEF Starts
  <2>2. /\ tool'.name = name /\ tool'.seen = root.file /\ tool'.quiet = TRUE
        /\ tool'.at = IF name = "branding" THEN "planned" ELSE "writing"
        /\ tool'.plan = IF name = "retro" THEN Derived(root) ELSE Plan(name, root)
        /\ tool' = [name |-> tool'.name, seen |-> tool'.seen, quiet |-> tool'.quiet,
                    at |-> tool'.at, plan |-> tool'.plan]
    BY <2>1
  <2>3. ToolShape'
    <3>1. root.file \in [Files -> Contents]
      BY <1>1 DEF Trees
    <3>2. CASE name = "retro"
      BY <1>1, <2>2, <3>1, <3>2, DerivedTyped DEF ToolShape
    <3>3. CASE name # "retro"
      <4>1. name \in Patchers
        BY <3>3 DEF Tools
      <4>2. QED
        BY <1>1, <2>2, <3>1, <3>3, <4>1, PlansFiles DEF ToolShape
    <3>4. QED
      BY <3>2, <3>3
  <2>4. ToolTyped'
    BY <1>1, <2>1, <2>2, <2>3 DEF ToolInv, ToolTyped
  <2>5. QuietTool'
    <3>1. Found' = root
      BY <1>1, <2>2 DEF Found, Trees
    <3>2. CASE name = "retro"
      BY <2>2, <3>2 DEF QuietTool
    <3>3. CASE name # "retro"
      BY <1>3, <2>2, <3>1, <3>3 DEF QuietTool
    <3>4. QED
      BY <3>2, <3>3
  <2>6. QED
    BY <2>1, <2>4, <2>5, SameTree DEF ToolInv
<1>4. QED
  BY <1>2, <1>3

\* Reading the branding's files again writes nothing.
LEMMA RecheckKeeps ==
  ASSUME Settled, ToolInv, Recheck
  PROVE  ToolInv'
<1>1. /\ tool # None /\ tool.at = "planned" /\ root' = root /\ done' = done
      /\ ToolShape /\ root # None /\ script.at \in {0} \cup 2..8
  BY DEF Recheck, ToolInv, ToolTyped
<1>2. CASE ToolEnds(FALSE)
  BY <1>1, <1>2, ToolIsOver, SameTree DEF ToolInv
<1>3. CASE tool' = [tool EXCEPT !.at = "writing"] /\ script' = script
  <2>1. /\ tool'.name = tool.name /\ tool'.seen = tool.seen
        /\ tool'.quiet = tool.quiet /\ tool'.at = "writing"
        /\ tool'.plan = tool.plan
        /\ tool' = [name |-> tool'.name, seen |-> tool'.seen, quiet |-> tool'.quiet,
                    at |-> tool'.at, plan |-> tool'.plan]
        /\ tool.name = "branding"
    BY <1>1, <1>3 DEF ToolShape
  <2>2. ToolShape'
    BY <1>1, <2>1 DEF ToolShape
  <2>3. ToolTyped'
    BY <1>1, <1>3, <2>1, <2>2 DEF ToolInv, ToolTyped
  <2>4. Found' = Found
    BY <1>1, <2>1 DEF Found
  <2>5. QuietTool'
    BY <1>1, <2>1, <2>4 DEF ToolInv, QuietTool
  <2>6. QED
    BY <1>1, <2>3, <2>5, SameTree DEF ToolInv
<1>4. QED
  BY <1>2, <1>3 DEF Recheck

\* One file less to write, one file more as planned.
LEMMA WriteFileKeeps ==
  ASSUME Settled, ToolInv, WriteFile
  PROVE  ToolInv'
<1>1. /\ tool # None /\ tool.at = "writing" /\ tool.name # "retro"
      /\ done' = {} /\ script' = script
      /\ ToolShape /\ root # None /\ root \in Trees
      /\ script.at \in {0} \cup 2..8
  BY DEF WriteFile, ToolInv, ToolTyped
<1>2. PICK f \in DOMAIN tool.plan :
        /\ root' = [root EXCEPT !.file[f] = tool.plan[f]]
        /\ tool' = [tool EXCEPT !.plan = Without(@, f)]
  BY DEF WriteFile
<1>3. f \in Files /\ tool.plan[f] \in Contents
  BY <1>1 DEF ToolShape
<1>4. /\ root' \in Trees /\ root'.temps = root.temps
      /\ root'.retro = root.retro
      /\ root'.file = [root.file EXCEPT ![f] = tool.plan[f]]
  BY <1>1, <1>2, <1>3, WrittenTree
<1>5. /\ tool'.name = tool.name /\ tool'.seen = tool.seen
      /\ tool'.quiet = tool.quiet /\ tool'.at = "writing"
      /\ tool'.plan = Without(tool.plan, f)
      /\ tool' = [name |-> tool'.name, seen |-> tool'.seen, quiet |-> tool'.quiet,
                  at |-> tool'.at, plan |-> tool'.plan]
  BY <1>1, <1>2 DEF ToolShape
<1>6. /\ tool'.plan = [g \in DOMAIN tool'.plan |-> tool'.plan[g]]
      /\ DOMAIN tool'.plan = DOMAIN tool.plan \ {f}
      /\ \A g \in DOMAIN tool'.plan : tool'.plan[g] = tool.plan[g]
  BY <1>5 DEF Without
<1>7. ToolShape'
  BY <1>1, <1>5, <1>6 DEF ToolShape
<1>8. root' # None
  BY <1>4, NoneAssumption
<1>9. ToolTyped'
  BY <1>1, <1>4, <1>5, <1>7, <1>8 DEF ToolInv, ToolTyped
<1>10. ASSUME tool.quiet PROVE QuietTool'
  <2> DEFINE P == Plan(tool.name, Found)
  <2>1. /\ Takes(tool.name, Found)
        /\ DOMAIN tool.plan \subseteq DOMAIN P
        /\ \A g \in DOMAIN tool.plan : tool.plan[g] = P[g]
        /\ \A g \in Files :
             root.file[g] = IF g \in DOMAIN P \ DOMAIN tool.plan THEN P[g]
                            ELSE tool.seen[g]
    BY <1>1, <1>10 DEF ToolInv, QuietTool
  <2>2. Found' = Found
    BY <1>4, <1>5 DEF Found
  <2>3. tool'.at # "planned" /\ tool'.name # "retro"
    BY <1>1, <1>5
  <2>4. Takes(tool'.name, Found') /\ Plan(tool'.name, Found') = P
    BY <2>1, <2>2, <1>5
  <2> HIDE DEF P
  <2>5. root.file \in [Files -> Contents]
    BY <1>1 DEF Trees
  <2>6. \A g \in Files :
          root'.file[g] = IF g \in DOMAIN P \ DOMAIN tool'.plan THEN P[g]
                          ELSE tool'.seen[g]
    BY <1>3, <1>4, <1>5, <1>6, <2>1, <2>5
  <2>7. /\ DOMAIN tool'.plan \subseteq DOMAIN P
        /\ \A g \in DOMAIN tool'.plan : tool'.plan[g] = P[g]
    BY <1>6, <2>1
  <2>8. QED
    BY <2>3, <2>4, <2>6, <2>7 DEF QuietTool
<1>11. QuietTool'
  <2>1. CASE tool.quiet
    BY <2>1, <1>10
  <2>2. CASE ~tool.quiet
    BY <2>2, <1>5 DEF QuietTool
  <2>3. QED
    BY <2>1, <2>2
<1>12. QED
  BY <1>1, <1>9, <1>11, NothingDone DEF ToolInv

\* The theme goes, then comes, and the files stay.
LEMMA InstallThemeKeeps ==
  ASSUME Settled, ToolInv, InstallTheme
  PROVE  ToolInv'
<1>1. /\ tool # None /\ tool.at = "writing" /\ tool.name = "retro"
      /\ done' = {} /\ script' = script
      /\ ToolShape /\ root # None /\ root \in Trees
      /\ script.at \in {0} \cup 2..8
      /\ tool.plan \in [LightFiles -> Contents]
  BY DEF InstallTheme, ToolInv, ToolTyped, ToolShape
<1>2. tool.quiet => root.file = tool.seen /\ tool.plan = Derived(root)
  BY <1>1 DEF ToolInv, QuietTool
<1>3. CASE root.retro # NoTheme
  <2>1. root' = [root EXCEPT !.retro = NoTheme] /\ tool' = tool
    BY <1>3 DEF InstallTheme
  <2>2. /\ root' \in Trees /\ root'.file = root.file
        /\ Derived(root') = Derived(root)
    BY <1>1, <2>1, ThemedTree DEF Themes
  <2>3. ToolTyped'
    <3>1. ToolShape'
      BY <1>1, <2>1 DEF ToolShape
    <3>2. QED
      BY <1>1, <2>1, <2>2, <3>1, NoneAssumption DEF ToolInv, ToolTyped
  <2>4. QuietTool'
    BY <1>1, <1>2, <2>1, <2>2 DEF QuietTool
  <2>5. QED
    BY <1>1, <2>3, <2>4, NothingDone DEF ToolInv
<1>4. CASE root.retro = NoTheme
  <2>1. /\ root' = [root EXCEPT !.retro = tool.plan]
        /\ tool' = [tool EXCEPT !.at = "written"]
    BY <1>4 DEF InstallTheme
  <2>2. /\ root' \in Trees /\ root'.file = root.file
        /\ root'.retro = tool.plan /\ Derived(root') = Derived(root)
    BY <1>1, <2>1, ThemedTree DEF Themes
  <2>3. /\ tool'.name = tool.name /\ tool'.seen = tool.seen
        /\ tool'.quiet = tool.quiet /\ tool'.at = "written"
        /\ tool'.plan = tool.plan
        /\ tool' = [name |-> tool'.name, seen |-> tool'.seen, quiet |-> tool'.quiet,
                    at |-> tool'.at, plan |-> tool'.plan]
    BY <1>1, <2>1 DEF ToolShape
  <2>4. ToolTyped'
    <3>1. ToolShape'
      BY <1>1, <2>3 DEF ToolShape
    <3>2. QED
      BY <1>1, <2>2, <2>3, <3>1, NoneAssumption DEF ToolInv, ToolTyped
  <2>5. QuietTool'
    BY <1>1, <1>2, <2>2, <2>3 DEF QuietTool
  <2>6. QED
    BY <1>1, <2>4, <2>5, NothingDone DEF ToolInv
<1>5. QED
  BY <1>3, <1>4

\* A quiet tool with nothing left to write leaves what its check accepts.
LEMMA FinishedIsVerified ==
  ASSUME ToolInv, tool # None, tool.quiet, tool.at # "planned",
         tool.name = "retro" => tool.at = "written",
         tool.name # "retro" => DOMAIN tool.plan = {}
  PROVE  /\ Verified(tool.name, root)
         /\ tool.name # "retro" => /\ Found \in Trees /\ Takes(tool.name, Found)
                                   /\ Applied(tool.name, Found, root)
<1>1. ToolShape /\ root \in Trees
  BY DEF ToolInv, ToolTyped
<1>2. CASE tool.name = "retro"
  BY <1>2 DEF ToolInv, QuietTool, Verified, RetroVerified
<1>3. CASE tool.name # "retro"
  <2>1. Found \in Trees /\ tool.name \in Patchers
    BY <1>1, <1>3 DEF ToolShape, Found, Trees, Tools
  <2>2. Takes(tool.name, Found)
    BY <1>3 DEF ToolInv, QuietTool
  <2>3. /\ root.temps = Found.temps /\ root.retro = Found.retro
        /\ Found.file = tool.seen
    BY DEF Found
  <2>4. \A f \in Files :
          root.file[f] = IF f \in DOMAIN Plan(tool.name, Found)
                         THEN Plan(tool.name, Found)[f] ELSE tool.seen[f]
    BY <1>3 DEF ToolInv, QuietTool
  <2>5. Applied(tool.name, Found, root)
    BY <2>3, <2>4 DEF Applied
  <2>6. QED
    BY <1>1, <1>3, <2>1, <2>2, <2>5, AppliedIsVerified
<1>4. QED
  BY <1>2, <1>3

\* A tool that reports success is over, and done if it was quiet.
LEMMA FinishToolKeeps ==
  ASSUME Settled, ToolInv, FinishTool
  PROVE  ToolInv'
<1> DEFINE ok == tool.name = "ssh" => SshVerified(root)
<1>1. /\ tool # None /\ tool.at # "planned"
      /\ tool.name = "retro" => tool.at = "written"
      /\ tool.name # "retro" => DOMAIN tool.plan = {}
      /\ ToolEnds(ok) /\ root' = root
      /\ done' = IF ok /\ tool.quiet THEN done \cup {tool.name} ELSE done
  BY DEF FinishTool
<1>2. ToolShape /\ root # None /\ script.at \in {0} \cup 2..8 /\ ok \in BOOLEAN
  BY <1>1 DEF ToolInv, ToolTyped
<1>3. ToolTyped' /\ QuietTool'
  <2> HIDE DEF ok
  <2> QED
    BY <1>1, <1>2, ToolIsOver DEF ToolInv
<1>4. \A name \in done : Verified(name, root)
  BY <1>2 DEF ToolInv, ApplyAgreesWithCheck
<1>5. tool.quiet => Verified(tool.name, root)
  BY <1>1, FinishedIsVerified
<1>6. ApplyAgreesWithCheck'
  BY <1>1, <1>4, <1>5 DEF ApplyAgreesWithCheck
<1>7. QED
  BY <1>3, <1>6 DEF ToolInv

\* An edit takes the tool's quiet, and every claim about the tree.
LEMMA EditKeeps ==
  ASSUME Settled, ToolInv, Edit
  PROVE  ToolInv'
<1>1. /\ root # None /\ root \in Trees /\ done' = {}
      /\ script' = [script EXCEPT !.quiet = FALSE]
      /\ tool' = IF tool = None THEN None ELSE [tool EXCEPT !.quiet = FALSE]
  BY DEF Edit, ToolInv, ToolTyped
<1>2. root' \in Trees /\ root' # None
  <2>1. PICK f \in Files, c \in Contents : root' = [root EXCEPT !.file[f] = c]
    BY DEF Edit, Contents
  <2>2. QED
    BY <1>1, <2>1, WrittenTree, NoneAssumption
<1>3. script'.at = script.at
  BY <1>1, ScriptMoves
<1>4. CASE tool = None
  BY <1>1, <1>2, <1>3, <1>4, NoTool, NothingDone DEF ToolInv, ToolTyped
<1>5. CASE tool # None
  <2>1. /\ tool'.name = tool.name /\ tool'.seen = tool.seen
        /\ tool'.quiet = FALSE /\ tool'.at = tool.at /\ tool'.plan = tool.plan
        /\ tool' = [name |-> tool'.name, seen |-> tool'.seen, quiet |-> tool'.quiet,
                    at |-> tool'.at, plan |-> tool'.plan]
    BY <1>1, <1>5 DEF ToolInv, ToolTyped, ToolShape
  <2>2. ToolShape'
    BY <1>5, <2>1 DEF ToolInv, ToolTyped, ToolShape
  <2>3. ToolTyped'
    BY <1>2, <1>3, <1>5, <2>1, <2>2 DEF ToolInv, ToolTyped
  <2>4. QuietTool'
    BY <2>1 DEF QuietTool
  <2>5. QED
    BY <1>1, <2>3, <2>4, NothingDone DEF ToolInv
<1>6. QED
  BY <1>4, <1>5

\* After a kill no tool runs and none is done.
LEMMA KillKeeps ==
  ASSUME Settled, ToolInv, Kill
  PROVE  ToolInv'
<1>1. /\ root' \in CutOff /\ tool' = None /\ done' = {} /\ Ends("none")
  BY DEF Kill
<1>2. root' \in Trees \cup {None} /\ script'.at = 0
  BY <1>1, CutOffTyped, ScriptMoves DEF ToolInv
<1>3. QED
  BY <1>1, <1>2, NoTool, NothingDone DEF ToolInv

\* A step of the script between two tools, over the tree that is there.
LEMMA ScriptKeeps ==
  ASSUME Settled, ToolInv, tool = None, tool' = tool, root' = root, done' = done,
         script'.at \in 0..11, script'.at \in 2..9 => root # None
  PROVE  ToolInv'
<1>1. ToolTyped' /\ QuietTool'
  BY NoTool DEF ToolInv, ToolTyped
<1>2. QED
  BY <1>1, SameTree DEF ToolInv

\* A step that concerns none of it.
LEMMA ToolLeft ==
  ASSUME ToolInv, tool' = tool, root' = root, done' = done,
         script'.at = script.at
  PROVE  ToolInv'
<1>1. ToolTyped'
  BY DEF ToolInv, ToolTyped, ToolShape
<1>2. QuietTool'
  BY DEF ToolInv, QuietTool, Found
<1>3. QED
  BY <1>1, <1>2, SameTree DEF ToolInv

\* There is neither a tree nor a tool at first.
LEMMA ToolInit == Init => ToolInv
BY DEF Init, ToolInv, ToolTyped, QuietTool, ApplyAgreesWithCheck

\* No stage of the script but a tool's finds a tool.
LEMMA OwnStage ==
  ASSUME Settled, ToolInv, Stage \notin Tools, Stage # "idle"
  PROVE  tool = None /\ script.at \in {1, 9, 10, 11}
<1>1. script.at \in 0..11
  BY DEF ToolInv, ToolTyped
<1>2. script.at \notin {0} \cup 2..8
  BY <1>1, StageAt
<1>3. QED
  BY <1>1, <1>2 DEF ToolInv, ToolTyped

\* Every step keeps the invariant of the tools.
LEMMA ToolNext == IInv /\ ToolInv /\ [Next]_vars => ToolInv'
<1> SUFFICES ASSUME IInv, ToolInv, [Next]_vars PROVE ToolInv'
  OBVIOUS
<1> USE DEF IInv
<1>0. script.at \in 0..11 /\ root \in Trees \cup {None}
  BY DEF ToolInv, ToolTyped
<1>a. {"extract", "build", "pack", "verify", "idle"} \cap Tools = {}
  BY DEF Tools, Patchers
<1>1. CASE Prepare
  <2>1. script'.at = 1
    BY <1>1 DEF Prepare
  <2>2. QED
    BY <1>1, <2>1, ScriptKeeps DEF Prepare
<1>2. CASE Publish
  <2>1. script'.at = 11
    BY <1>2, <1>0, StageAt DEF Publish
  <2>2. tool = None /\ tool' = tool /\ root' = root /\ done' = done
    BY <1>2 DEF Publish
  <2>3. QED
    BY <2>1, <2>2, ScriptKeeps
<1>3. CASE Extract
  <2>1. tool = None /\ tool' = None /\ script.at = 1 /\ done' = {}
    BY <1>3, <1>0, <1>a, OwnStage, StageAt DEF Extract
  <2>2. CASE root' = None /\ script' = script
    BY <2>1, <2>2, NoTool, NothingDone DEF ToolInv
  <2>3. CASE root' = StockTree /\ NextStage
    <3>1. script'.at = 2 /\ root' # None
      BY <2>1, <2>3, ScriptMoves, StockTyped, NoneAssumption
    <3>2. QED
      BY <2>1, <2>3, <3>1, StockTyped, NoTool, NothingDone DEF ToolInv
  <2>4. QED
    BY <1>3, <2>2, <2>3 DEF Extract
<1>4. CASE BuildRootfs
  <2>1. /\ tool = None /\ script.at = 9 /\ tool' = tool /\ root' = root
        /\ done' = done /\ (NextStage \/ Ends("refused"))
    BY <1>4, <1>0, <1>a, OwnStage, StageAt DEF BuildRootfs
  <2>2. script'.at \in {0, 10}
    BY <2>1, ScriptMoves
  <2>3. QED
    BY <2>1, <2>2, ScriptKeeps
<1>5. CASE Pack
  <2>1. /\ tool = None /\ script.at = 10 /\ tool' = tool /\ root' = root
        /\ done' = done /\ NextStage
    BY <1>5, <1>0, <1>a, OwnStage, StageAt DEF Pack
  <2>2. script'.at = 11
    BY <2>1, ScriptMoves
  <2>3. QED
    BY <2>1, <2>2, ScriptKeeps
<1>6. CASE Verify
  <2>1. /\ tool = None /\ tool' = tool /\ root' = root
        /\ done' = done /\ (Ends("accepted") \/ Ends("refused"))
    BY <1>6, <1>a, OwnStage DEF Verify
  <2>2. script'.at = 0
    BY <2>1, ScriptMoves
  <2>3. QED
    BY <2>1, <2>2, ScriptKeeps
<1>7. CASE RunTool
  <2>1. /\ Stage \in Tools /\ tool = None /\ Starts(Stage) /\ root' = root
    BY <1>7 DEF RunTool
  <2>2. /\ script.at \in {0} \cup 2..8 /\ root # None
        /\ script.at # 0 => Stage = Stages[script.at]
    BY <1>0, <2>1, StageAt DEF ToolInv, ToolTyped
  <2>3. QED
    BY <2>1, <2>2, ToolStarts
<1>8. CASE \E name \in Tools : RunByHand(name)
  <2>1. PICK name \in Tools : RunByHand(name)
    BY <1>8
  <2>2. /\ Starts(name) /\ tool = None /\ root' = root /\ root # None
        /\ script.at = 0
    BY <1>0, <2>1, StageAt DEF RunByHand
  <2>3. QED
    BY <2>2, ToolStarts
<1>9. CASE Recheck
  BY <1>9, RecheckKeeps
<1>10. CASE WriteFile
  BY <1>10, WriteFileKeeps
<1>11. CASE InstallTheme
  BY <1>11, InstallThemeKeeps
<1>12. CASE FinishTool
  BY <1>12, FinishToolKeeps
<1>13. CASE Kill
  BY <1>13, KillKeeps
<1>14. CASE Edit
  BY <1>14, EditKeeps
<1>15. CASE Damage
  BY <1>15, ScriptMoves, ToolLeft DEF Damage
<1>16. CASE UNCHANGED vars
  BY <1>16, ToolLeft DEF vars
<1>17. QED
  BY <1>1, <1>2, <1>3, <1>4, <1>5, <1>6, <1>7, <1>8, <1>9, <1>10, <1>11,
     <1>12, <1>13, <1>14, <1>15, <1>16 DEF Next

\* A tool that reports success over a tree nobody changes under it leaves
\* one that its own check accepts, whatever the tree was before, what was
\* killed in it and in which order the files were written (the
\* patch_r1_*.py apply and verify commands).
THEOREM ApplyAlwaysAgrees == Spec => []ApplyAgreesWithCheck
<1>1. ToolInv => ApplyAgreesWithCheck
  BY DEF ToolInv
<1>2. QED
  BY <1>1, InitInv, NextInv, ToolInit, ToolNext, PTL DEF Spec

-----------------------------------------------------------------------------
(***************************************************************************)
(* The candidate holds no hour.                                            *)
(***************************************************************************)
\* What prepare packed, and later accepts, bears the release's epoch only.
Dated ==
  script.mode = "prepare" /\ (script.at = 11 \/ script.verdict = "accepted") =>
    /\ upt.iso.dates = Epoch
    /\ \A a \in Areas : upt.iso.stamps[a] = Epoch

\* The walk over the directories meets every area, so that none keeps the
\* hour of the pack.
LEMMA PackDates ==
  ASSUME Pack
  PROVE  /\ upt'.iso.dates = Epoch
         /\ \A a \in Areas : upt'.iso.stamps[a] = Epoch
<1>1. PICK hour \in Hours :
        upt' = Candidate(NormalizeRockRidge(
                 NormalizeVolumeDescriptors(FreshIso(hour), Epoch), Epoch))
  BY DEF Pack
<1> DEFINE iso == NormalizeVolumeDescriptors(FreshIso(hour), Epoch)
<1>2. /\ iso.dates = Epoch
      /\ iso = [ota |-> iso.ota, dates |-> iso.dates, stamps |-> iso.stamps]
  BY DEF NormalizeVolumeDescriptors, FreshIso, GenIsoImage
<1> HIDE DEF iso
<1>3. /\ NormalizeRockRidge(iso, Epoch).dates = Epoch
      /\ \A a \in Areas : NormalizeRockRidge(iso, Epoch).stamps[a] = Epoch
  BY <1>2, ReachedAssumption DEF NormalizeRockRidge
<1>4. upt'.iso = NormalizeRockRidge(iso, Epoch)
  BY <1>1 DEF Candidate, iso
<1>5. QED
  BY <1>3, <1>4

\* Damage leaves the dates and the time stamps alone.
LEMMA DamageDates ==
  ASSUME UptShape, Damage
  PROVE  upt'.iso.dates = upt.iso.dates /\ upt'.iso.stamps = upt.iso.stamps
<1>1. \E o : upt' = [upt EXCEPT !.iso.ota = o]
  BY DEF Damage
<1>2. upt # None
  BY DEF Damage
<1>3. QED
  BY <1>1, <1>2 DEF UptShape

\* The verdict and the stage are no news, or nothing is claimed.
LEMMA DatedKept ==
  ASSUME Dated, upt'.iso.dates = upt.iso.dates, upt'.iso.stamps = upt.iso.stamps,
         script'.mode = script.mode,
         script'.at = 11 => script.at = 11,
         script'.verdict = "accepted" => script.verdict = "accepted" \/ script.at = 11
  PROVE  Dated'
BY DEF Dated

\* Nothing is claimed of a script that neither verifies nor accepted.
LEMMA NotDated ==
  ASSUME script'.at # 11, script'.verdict # "accepted"
  PROVE  Dated'
BY DEF Dated

\* A tool that ends, or starts, verifies and accepts nothing.
LEMMA ToolDates ==
  ASSUME Settled, Dated, NEW ok \in BOOLEAN,
         script' = script \/ ToolEnds(ok), upt' = upt, script.at \in {0} \cup 2..8
  PROVE  Dated'
<1>1. CASE script' = script
  BY <1>1, DatedKept
<1>2. CASE script' # script
  <2>1. NextStage \/ Ends("refused")
    BY <1>2 DEF ToolEnds
  <2>2. CASE NextStage
    BY <2>2, ScriptMoves, DatedKept
  <2>3. CASE Ends("refused")
    BY <2>3, ScriptMoves, DatedKept
  <2>4. QED
    BY <2>1, <2>2, <2>3
<1>3. QED
  BY <1>1, <1>2

\* Every step keeps the dates.
LEMMA DatedNext == IInv /\ ToolInv /\ Dated /\ [Next]_vars => Dated'
<1> SUFFICES ASSUME IInv, ToolInv, Dated, [Next]_vars PROVE Dated'
  OBVIOUS
<1> USE DEF IInv
<1>0. script.at \in 0..11
  BY DEF ToolInv, ToolTyped
<1>a. {"extract", "build", "pack", "verify", "idle"} \cap Tools = {}
  BY DEF Tools, Patchers
<1>1. CASE Prepare
  BY <1>1, NotDated DEF Prepare
<1>2. CASE Publish
  BY <1>2 DEF Publish, Dated
<1>3. CASE Extract
  <2>1. /\ upt' = upt /\ script.at = 1 /\ (script' = script \/ NextStage)
    BY <1>3, <1>0, <1>a, OwnStage, StageAt DEF Extract
  <2>2. CASE script' = script
    BY <2>1, <2>2, DatedKept
  <2>3. CASE NextStage
    BY <2>1, <2>3, ScriptMoves, DatedKept
  <2>4. QED
    BY <2>1, <2>2, <2>3
<1>4. CASE BuildRootfs
  <2>1. /\ upt' = upt /\ script.at = 9 /\ (NextStage \/ Ends("refused"))
    BY <1>4, <1>0, <1>a, OwnStage, StageAt DEF BuildRootfs
  <2>2. CASE NextStage
    BY <2>1, <2>2, ScriptMoves, DatedKept
  <2>3. CASE Ends("refused")
    BY <2>1, <2>3, ScriptMoves, NotDated
  <2>4. QED
    BY <2>1, <2>2, <2>3
<1>5. CASE Pack
  BY <1>5, PackDates DEF Dated
<1>6. CASE Verify
  <2>1. upt' = upt /\ script.at = 11 /\ (Ends("accepted") \/ Ends("refused"))
    BY <1>6, <1>0, <1>a, OwnStage, StageAt DEF Verify
  <2>2. script'.at = 0 /\ script'.mode = script.mode
    BY <2>1, ScriptMoves
  <2>3. QED
    BY <2>1, <2>2, DatedKept
<1>7. CASE RunTool
  <2>1. Stage \in Tools /\ Starts(Stage) /\ upt' = upt
    BY <1>7 DEF RunTool
  <2>2. script.at \in {0} \cup 2..8 /\ (ToolEnds(FALSE) \/ script' = script)
    BY <1>0, <2>1, StageAt DEF Starts
  <2>3. QED
    BY <2>1, <2>2, ToolDates
<1>8. CASE \E name \in Tools : RunByHand(name)
  <2>1. PICK name \in Tools : RunByHand(name)
    BY <1>8
  <2>2. /\ upt' = upt /\ script.at = 0 /\ (ToolEnds(FALSE) \/ script' = script)
    BY <1>0, <2>1, StageAt DEF RunByHand, Starts
  <2>3. QED
    BY <2>2, ToolDates
<1>9. CASE Recheck
  <2>1. upt' = upt /\ tool # None /\ (ToolEnds(FALSE) \/ script' = script)
    BY <1>9 DEF Recheck
  <2>2. script.at \in {0} \cup 2..8
    BY <2>1 DEF ToolInv, ToolTyped
  <2>3. QED
    BY <2>1, <2>2, ToolDates
<1>10. CASE WriteFile \/ InstallTheme
  <2>1. upt' = upt /\ script' = script
    BY <1>10 DEF WriteFile, InstallTheme
  <2>2. QED
    BY <2>1, DatedKept
<1>11. CASE FinishTool
  <2>1. upt' = upt /\ tool # None /\ ToolEnds(tool.name = "ssh" => SshVerified(root))
    BY <1>11 DEF FinishTool
  <2>2. script.at \in {0} \cup 2..8
    BY <2>1 DEF ToolInv, ToolTyped
  <2>3. QED
    BY <2>1, <2>2, ToolDates
<1>12. CASE Kill
  <2>1. Ends("none")
    BY <1>12 DEF Kill
  <2>2. QED
    BY <2>1, ScriptMoves, NotDated
<1>13. CASE Edit
  <2>1. upt' = upt /\ script' = [script EXCEPT !.quiet = FALSE]
    BY <1>13 DEF Edit
  <2>2. QED
    BY <2>1, ScriptMoves, DatedKept
<1>14. CASE Damage
  <2>1. script' = [script EXCEPT !.quiet = FALSE]
    BY <1>14 DEF Damage
  <2>2. QED
    BY <1>14, <2>1, ScriptMoves, DamageDates, DatedKept
<1>15. CASE UNCHANGED vars
  BY <1>15, DatedKept DEF vars
<1>16. QED
  BY <1>1, <1>2, <1>3, <1>4, <1>5, <1>6, <1>7, <1>8, <1>9, <1>10, <1>11,
     <1>12, <1>13, <1>14, <1>15 DEF Next

\* An accepted build holds no hour, whatever directories the container has
\* and whenever it was built (r1fw.py command_pack).
THEOREM PackedAlwaysReproducible == Spec => []PackedIsReproducible
<1>1. Init => Dated
  BY DEF Init, Dated
<1>2. Dated => PackedIsReproducible
  BY DEF Dated, PackedIsReproducible
<1>3. QED
  BY <1>1, <1>2, InitInv, NextInv, ToolInit, ToolNext, DatedNext, PTL DEF Spec

-----------------------------------------------------------------------------
(***************************************************************************)
(* A prepare that nobody disturbs.                                         *)
(***************************************************************************)
\* What the tools of the stages before the k-th have written, and the tree
\* that they leave.
FilesBefore(k) ==
  (IF k > 2 THEN OverlayFiles ELSE {}) \cup (IF k > 3 THEN BrandFiles ELSE {})
  \cup (IF k > 4 THEN PlayerFiles ELSE {}) \cup (IF k > 5 THEN WrapperFiles ELSE {})
  \cup (IF k > 6 THEN LauncherTexts \cup LauncherIcons \cup LauncherViews ELSE {})
  \cup (IF k > 8 THEN RetroViews ELSE {})
TreeBefore(k) ==
  [file  |-> [f \in Files |-> IF f \in FilesBefore(k) THEN "cfw"
                              ELSE IF f \in Generated THEN "absent" ELSE "stock"],
   temps |-> {},
   retro |-> IF k > 7 THEN [f \in LightFiles |-> "cfw"] ELSE NoTheme]

LEMMA TreeBeforeTyped ==
  ASSUME NEW k \in 2..9
  PROVE  TreeBefore(k) \in Trees
<1>1. [f \in LightFiles |-> "cfw"] \in Themes /\ NoTheme \in Themes
  BY DEF Themes, Contents
<1>2. QED
  BY <1>1 DEF TreeBefore, Trees, Contents

\* The fields of such a tree, to be used without its definition.
LEMMA TreeBeforeIs ==
  ASSUME NEW k \in 2..9
  PROVE  /\ TreeBefore(k).temps = {}
         /\ TreeBefore(k).retro = IF k > 7 THEN [f \in LightFiles |-> "cfw"] ELSE NoTheme
         /\ \A f \in Files :
              TreeBefore(k).file[f] = IF f \in FilesBefore(k) THEN "cfw"
                                      ELSE IF f \in Generated THEN "absent" ELSE "stock"
BY DEF TreeBefore

\* A tree is its fields.
LEMMA SameFields ==
  ASSUME NEW t \in Trees, NEW u \in Trees, t.temps = u.temps, t.retro = u.retro,
         \A f \in Files : t.file[f] = u.file[f]
  PROVE  t = u
<1>1. /\ t = [file |-> t.file, temps |-> t.temps, retro |-> t.retro]
      /\ u = [file |-> u.file, temps |-> u.temps, retro |-> u.retro]
      /\ t.file \in [Files -> Contents] /\ u.file \in [Files -> Contents]
  BY DEF Trees
<1>2. t.file = u.file
  BY <1>1
<1>3. QED
  BY <1>1, <1>2

\* The first of these trees is the vendor's, the last the finished one.
LEMMA FirstAndLast ==
  TreeBefore(2) = StockTree /\ TreeBefore(9) = FinishedTree
<1>1. TreeBefore(2) = StockTree
  BY DEF TreeBefore, FilesBefore, StockTree
<1>2. TreeBefore(9) = FinishedTree
  <2>1. \A f \in Files : f \in FilesBefore(9) <=> f \notin VendorFiles
    BY FilesAssumption DEF FilesBefore, Files, Patched, Generated
  <2>2. FinishedTree \in Trees
    BY DEF FinishedTree, Trees, Themes, Contents
  <2>3. \A f \in Files : TreeBefore(9).file[f] = FinishedTree.file[f]
    BY <2>1, FilesAssumption DEF TreeBefore, FinishedTree
  <2>4. TreeBefore(9).temps = FinishedTree.temps /\ TreeBefore(9).retro = FinishedTree.retro
    BY DEF TreeBefore, FinishedTree
  <2>5. QED
    BY <2>2, <2>3, <2>4, TreeBeforeTyped, SameFields
<1>3. QED
  BY <1>1, <1>2

\* Where the files of the patchers stand between the stages.
LEMMA Between ==
  /\ \A f \in VendorFiles : \A k \in 2..9 : TreeBefore(k).file[f] = "stock"
  /\ \A f \in Patched : \A k \in 2..9 : TreeBefore(k).file[f] \in {"stock", "cfw"}
  /\ \A f \in PlayerFiles : TreeBefore(4).file[f] = "stock"
<1>1. ASSUME NEW f \in VendorFiles, NEW k \in 2..9
      PROVE  TreeBefore(k).file[f] = "stock"
  <2>1. f \in Files /\ f \notin FilesBefore(k) /\ f \notin Generated
    BY FilesAssumption DEF FilesBefore, Files, Patched, Generated
  <2>2. QED
    BY <2>1, TreeBeforeIs
<1>2. ASSUME NEW f \in Patched, NEW k \in 2..9
      PROVE  TreeBefore(k).file[f] \in {"stock", "cfw"}
  <2>1. f \in Files /\ f \notin Generated
    BY FilesAssumption DEF Files
  <2>2. QED
    BY <2>1, TreeBeforeIs
<1>3. ASSUME NEW f \in PlayerFiles
      PROVE  TreeBefore(4).file[f] = "stock"
  <2>1. f \in Files /\ f \notin Generated
    BY FilesAssumption DEF Files, Patched
  <2>2. f \notin FilesBefore(4)
    BY <2>1, FilesAssumption DEF FilesBefore, Patched, Generated
  <2>3. QED
    BY <2>1, <2>2, TreeBeforeIs
<1>4. QED
  BY <1>1, <1>2, <1>3

\* Every tool takes the tree that the stages before it leave.
LEMMA StageTakes ==
  ASSUME NEW k \in 2..8
  PROVE  Takes(Stages[k], TreeBefore(k))
<1> DEFINE t == TreeBefore(k)
<1>0. k \in {2, 3, 4, 5, 6, 7, 8} /\ k \in 2..9
  OBVIOUS
<1>1. /\ Stages[2] = "overlay" /\ Stages[3] = "branding"
      /\ Stages[4] = "ssh" /\ Stages[5] = "hook" /\ Stages[6] = "launcher"
      /\ Stages[7] = "retro" /\ Stages[8] = "retro_launcher"
  BY DEF Stages
<1>2. t.temps = {}
  BY <1>0, TreeBeforeIs
<1>3. k = 8 => t.retro \in [LightFiles -> Contents]
  BY <1>0, TreeBeforeIs DEF Contents
<1>4. /\ \A f \in Config \cup StockLayouts : t.file[f] = "stock"
      /\ \A f \in BrandFiles \cup WrapperFiles \cup LauncherTexts :
           t.file[f] \in {"stock", "cfw"}
      /\ k = 4 => \A f \in PlayerFiles : t.file[f] = "stock"
  BY <1>0, Between DEF VendorFiles, Patched
<1> HIDE DEF t
<1>5. CASE k \in {2, 7}
  BY <1>1, <1>5 DEF Takes
<1>6. CASE k = 3
  <2>1. BrandingTakes(t)
    BY <1>4 DEF BrandingTakes, Unmarked, Marked
  <2>2. QED
    BY <1>1, <1>6, <2>1 DEF Takes, t
<1>7. CASE k = 4
  <2>1. SshTakes(t)
    BY <1>4, <1>7 DEF SshTakes
  <2>2. QED
    BY <1>1, <1>7, <2>1 DEF Takes, t
<1>8. CASE k = 5
  <2>1. HookTakes(t)
    BY <1>4 DEF HookTakes
  <2>2. QED
    BY <1>1, <1>8, <2>1 DEF Takes, t
<1>9. CASE k = 6
  <2>1. LauncherTakes(t)
    BY <1>2, <1>4 DEF LauncherTakes, Unmarked, Marked
  <2>2. QED
    BY <1>1, <1>9, <2>1 DEF Takes, t
<1>10. CASE k = 8
  <2>1. RetroLauncherTakes(t)
    BY <1>2, <1>3, <1>10, ThemesAssumption DEF RetroLauncherTakes
  <2>2. QED
    BY <1>1, <1>10, <2>1 DEF Takes, t
<1>11. QED
  BY <1>0, <1>5, <1>6, <1>7, <1>8, <1>9, <1>10

\* What each patcher makes of the tree before it is the tree before the next.
LEMMA StageWrites ==
  ASSUME NEW k \in 2..8, k # 7, NEW t \in Trees,
         Applied(Stages[k], TreeBefore(k), t)
  PROVE  t = TreeBefore(k + 1)
<1> DEFINE b == TreeBefore(k)
<1> DEFINE name == Stages[k]
<1>0. k \in {2, 3, 4, 5, 6, 8} /\ k \in 2..9 /\ k + 1 \in 2..9
  OBVIOUS
<1>1. /\ Stages[2] = "overlay" /\ Stages[3] = "branding"
      /\ Stages[4] = "ssh" /\ Stages[5] = "hook" /\ Stages[6] = "launcher"
      /\ Stages[8] = "retro_launcher"
  BY DEF Stages
<1>2. /\ t.temps = b.temps /\ t.retro = b.retro
      /\ \A f \in Files : t.file[f] = IF f \in DOMAIN Plan(name, b) THEN Plan(name, b)[f]
                                      ELSE b.file[f]
  BY DEF Applied
<1>3. \A f \in Files :
        b.file[f] = IF f \in FilesBefore(k) THEN "cfw"
                    ELSE IF f \in Generated THEN "absent" ELSE "stock"
  BY <1>0, TreeBeforeIs
<1>4. \A f \in BrandFiles \cup WrapperFiles \cup LauncherTexts :
        b.file[f] \in {"stock", "cfw"}
  BY <1>0, Between DEF Patched
<1> DEFINE New == FilesBefore(k + 1) \ FilesBefore(k)
<1>5. \A f \in Files :
        /\ f \in DOMAIN Plan(name, b) => Plan(name, b)[f] = "cfw"
        /\ f \in DOMAIN Plan(name, b) => f \in FilesBefore(k + 1)
        /\ f \in New => f \in DOMAIN Plan(name, b)
        /\ f \in FilesBefore(k) => f \in FilesBefore(k + 1)
  <2> HIDE DEF b
  <2>1. CASE k = 2
    <3>1. Plan(name, b) = [f \in OverlayFiles |-> "cfw"]
      BY <1>1, <2>1 DEF Plan, OverlayPlan
    <3>2. QED
      BY <2>1, <3>1 DEF FilesBefore
  <2>2. CASE k = 3
    <3>1. Plan(name, b) = [f \in {g \in BrandFiles : b.file[g] \in Unmarked}
                           |-> Mark(b.file[f])]
      BY <1>1, <2>2 DEF Plan, BrandingPlan
    <3>2. \A f \in BrandFiles : f \in DOMAIN Plan(name, b) <=> b.file[f] = "stock"
      BY <1>4, <3>1 DEF Unmarked
    <3>3. \A f \in DOMAIN Plan(name, b) : f \in BrandFiles /\ Plan(name, b)[f] = "cfw"
      BY <1>4, <3>1 DEF Mark, Unmarked
    <3>4. \A f \in New : f \in BrandFiles /\ f \notin Generated
      BY <2>2, FilesAssumption DEF FilesBefore, Patched
    <3>5. FilesBefore(k + 1) = FilesBefore(k) \cup BrandFiles
      BY <2>2 DEF FilesBefore
    <3>6. QED
      BY <1>3, <3>2, <3>3, <3>4, <3>5
  <2>3. CASE k = 4
    <3>1. Plan(name, b) = [f \in PlayerFiles |-> "cfw"]
      BY <1>1, <2>3 DEF Plan, SshPlan
    <3>2. QED
      BY <2>3, <3>1 DEF FilesBefore
  <2>4. CASE k = 5
    <3>1. Plan(name, b) = [f \in {g \in WrapperFiles : b.file[g] = "stock"} |-> "cfw"]
      BY <1>1, <2>4 DEF Plan, HookPlan
    <3>2. \A f \in New : f \in WrapperFiles /\ f \notin Generated
      BY <2>4, FilesAssumption DEF FilesBefore, Patched
    <3>3. FilesBefore(k + 1) = FilesBefore(k) \cup WrapperFiles
      BY <2>4 DEF FilesBefore
    <3>4. QED
      BY <1>3, <3>1, <3>2, <3>3
  <2>5. CASE k = 6
    <3>1. Plan(name, b) =
            [f \in {g \in LauncherTexts : b.file[g] \in Unmarked}
                   \cup {g \in LauncherIcons \cup LauncherViews : b.file[g] # "cfw"}
             |-> IF f \in LauncherTexts THEN Mark(b.file[f]) ELSE "cfw"]
      BY <1>1, <2>5 DEF Plan, LauncherPlan
    <3>2. \A f \in LauncherTexts : f \notin Generated
      BY FilesAssumption DEF Patched
    <3>3. \A f \in DOMAIN Plan(name, b) :
            /\ f \in LauncherTexts \cup LauncherIcons \cup LauncherViews
            /\ Plan(name, b)[f] = "cfw"
      BY <1>4, <3>1 DEF Mark, Unmarked
    <3>4. FilesBefore(k + 1) = FilesBefore(k) \cup LauncherTexts \cup LauncherIcons
                               \cup LauncherViews
      BY <2>5 DEF FilesBefore
    <3>5. \A f \in LauncherTexts :
            f \in DOMAIN Plan(name, b) <=>
              \/ b.file[f] = "stock"
              \/ f \in LauncherIcons \cup LauncherViews /\ b.file[f] # "cfw"
      BY <1>4, <3>1 DEF Unmarked
    <3>6. \A f \in LauncherIcons \cup LauncherViews :
            b.file[f] # "cfw" => f \in DOMAIN Plan(name, b)
      BY <3>1
    <3>7. ASSUME NEW f \in Files, f \in New
          PROVE  f \in DOMAIN Plan(name, b)
      <4>1. b.file[f] = IF f \in Generated THEN "absent" ELSE "stock"
        BY <1>3, <3>7
      <4>2. CASE f \in LauncherTexts
        BY <3>2, <3>5, <4>1, <4>2
      <4>3. CASE f \notin LauncherTexts
        BY <3>4, <3>6, <3>7, <4>1, <4>3
      <4>4. QED
        BY <4>2, <4>3
    <3>8. QED
      BY <3>3, <3>4, <3>7
  <2>6. CASE k = 8
    <3>1. Plan(name, b) = [f \in {g \in RetroViews : b.file[g] # "cfw"} |-> "cfw"]
      BY <1>1, <2>6 DEF Plan, RetroLauncherPlan
    <3>2. FilesBefore(k + 1) = FilesBefore(k) \cup RetroViews
      BY <2>6 DEF FilesBefore
    <3>3. QED
      BY <1>3, <3>1, <3>2
  <2>7. QED
    BY <1>0, <2>1, <2>2, <2>3, <2>4, <2>5, <2>6
<1>6. \A f \in Files : t.file[f] = TreeBefore(k + 1).file[f]
  <2>1. \A f \in Files :
          TreeBefore(k + 1).file[f] = IF f \in FilesBefore(k + 1) THEN "cfw"
                                      ELSE IF f \in Generated THEN "absent" ELSE "stock"
    BY <1>0, TreeBeforeIs
  <2> HIDE DEF b, name
  <2>2. QED
    BY <1>2, <1>3, <1>5, <2>1
<1>7. t.temps = TreeBefore(k + 1).temps /\ t.retro = TreeBefore(k + 1).retro
  <2>1. /\ b.temps = {} /\ b.retro = IF k > 7 THEN [f \in LightFiles |-> "cfw"] ELSE NoTheme
    BY <1>0, TreeBeforeIs
  <2>2. /\ TreeBefore(k + 1).temps = {}
        /\ TreeBefore(k + 1).retro = IF k + 1 > 7 THEN [f \in LightFiles |-> "cfw"] ELSE NoTheme
    BY <1>0, TreeBeforeIs
  <2>3. k > 7 <=> k + 1 > 7
    BY <1>0
  <2> HIDE DEF b
  <2>4. QED
    BY <1>2, <2>1, <2>2, <2>3
<1>8. QED
  BY <1>0, <1>6, <1>7, TreeBeforeTyped, SameFields

\* And so does the theme's tool.
LEMMA RetroWrites ==
  ASSUME NEW t \in Trees, t.temps = {}, t.file = TreeBefore(7).file,
         t.retro = Derived(t)
  PROVE  t = TreeBefore(8)
<1>1. FilesBefore(7) = FilesBefore(8)
  BY DEF FilesBefore
<1>2. \A f \in Files : t.file[f] = TreeBefore(8).file[f]
  BY <1>1, TreeBeforeIs
<1>3. \A f \in LightFiles : f \in Files /\ f \in FilesBefore(7)
  BY FilesAssumption DEF FilesBefore, Files, Patched, Generated
<1>4. \A f \in LightFiles : t.file[f] = "cfw"
  BY <1>3, TreeBeforeIs
<1>5. t.retro = [f \in LightFiles |-> "cfw"]
  BY <1>4 DEF Derived
<1>6. /\ TreeBefore(8).temps = {} /\ TreeBefore(8).retro = [f \in LightFiles |-> "cfw"]
      /\ TreeBefore(8) \in Trees
  BY TreeBeforeIs, TreeBeforeTyped
<1>7. t.temps = TreeBefore(8).temps /\ t.retro = TreeBefore(8).retro
  BY <1>5, <1>6
<1>8. QED
  BY <1>2, <1>6, <1>7, SameFields

\* A finished candidate that unpacks to what was packed is accepted.
LEMMA FinishedAccepted ==
  ASSUME RoundTrips, NEW n \in Sizes, n <= MaxSize,
         image = FinishedImage(n), upt = FinishedUpt(n)
  PROVE  CandidateVerified
<1>1. upt # None /\ image # None
  BY NoneAssumption
<1> DEFINE out == Unpack(upt.iso.ota)
<1>2. out = [ok |-> TRUE, images |-> FinishedUpt(n).packed]
  BY DEF RoundTrips
<1>3. /\ out.ok /\ DOMAIN out.images = {Kernel, Rootfs}
      /\ out.images[Kernel] = KernelImage /\ out.images[Rootfs] = image
  <2>1. FinishedUpt(n).packed =
          [i \in {Kernel, Rootfs} |-> IF i = Kernel THEN KernelImage ELSE FinishedImage(n)]
    BY DEF FinishedUpt
  <2>2. Kernel # Rootfs
    BY DEF Kernel, Rootfs
  <2> HIDE DEF out
  <2>3. QED
    BY <1>2, <2>1, <2>2
<1>4. n \in Nat \ {0}
  BY SizesAssumption
<1>5. Len(image) = n /\ image[1] = FinishedTree
  BY <1>4 DEF FinishedImage, ImageOf
<1>6. FinishedTree = TreeBefore(9) /\ FinishedTree \in Trees
  BY FirstAndLast, TreeBeforeTyped
<1>7. /\ FinishedTree.temps = {}
      /\ \A f \in VendorFiles : FinishedTree.file[f] = "stock"
      /\ \A f \in Patched \cup Generated : FinishedTree.file[f] = "cfw"
      /\ FinishedTree.retro = [f \in LightFiles |-> "cfw"]
  BY FilesAssumption DEF FinishedTree, Files
<1>8. \A name \in Tools : Verified(name, FinishedTree)
  <2>1. BrandingChecked(FinishedTree)
    BY <1>7 DEF BrandingChecked, BrandingTakes, BrandingPlan, Unmarked, Marked,
                VendorFiles, Patched
  <2>2. SshVerified(FinishedTree) /\ HookChecked(FinishedTree)
        /\ OverlayCompared(FinishedTree)
    BY <1>7 DEF SshVerified, HookChecked, OverlayCompared, Patched, Generated
  <2>3. LauncherVerified(FinishedTree)
    BY <1>7 DEF LauncherVerified, Marked, VendorFiles, Patched, Generated
  <2>4. RetroVerified(FinishedTree)
    <3>1. \A f \in LightFiles : FinishedTree.file[f] = "cfw"
      BY <1>7, FilesAssumption DEF Patched, Generated
    <3>2. QED
      BY <1>7, <3>1 DEF RetroVerified, Derived
  <2>5. RetroLauncherVerified(FinishedTree)
    <3>1. FinishedTree.retro \in [LightFiles -> Contents]
      BY <1>7 DEF Contents
    <3>2. QED
      BY <1>7, <3>1, ThemesAssumption DEF RetroLauncherVerified, Generated
  <2>6. QED
    BY <2>1, <2>2, <2>3, <2>4, <2>5 DEF Verified, Tools, Patchers
<1>9. StrictDiff(FinishedTree)
  BY <1>7 DEF StrictDiff
<1>10. QED
  BY <1>1, <1>3, <1>5, <1>6, <1>8, <1>9 DEF CandidateVerified

\* How far a prepare is that nobody disturbed: between two stages the tree
\* is the one the stages before leave, within one the tool found it so; then
\* the image is the finished tree's, then the candidate the finished one.
QuietScript == script.mode = "prepare" /\ script.quiet
Prepared(k) ==
  IF tool = None THEN root = TreeBefore(k)
  ELSE /\ tool.quiet /\ tool.seen = TreeBefore(k).file /\ root.temps = {}
       /\ tool.name # "retro" => root.retro = TreeBefore(k).retro
QuietPrepare ==
  QuietScript =>
    /\ script.at \in 2..9 => Prepared(script.at)
    /\ script.at = 10 => \E n \in Sizes : n <= MaxSize /\ image = FinishedImage(n)
    /\ script.at = 11 => \E n \in Sizes : /\ n <= MaxSize /\ image = FinishedImage(n)
                                          /\ upt = FinishedUpt(n)
QuietInv ==
  /\ script.at # 0 => script.verdict = "none"
  /\ QuietPrepare /\ QuietPrepareSucceeds

\* What is shaped like a tool's state is not None.
LEMMA ToolIsThere ==
  ASSUME NEW x, x = [name |-> x.name, seen |-> x.seen, quiet |-> x.quiet,
                     at |-> x.at, plan |-> x.plan],
         x.name \in Tools, x.quiet \in BOOLEAN, x.seen \in [Files -> Contents],
         x.at \in {"planned", "writing", "written"},
         x.plan = [f \in DOMAIN x.plan |-> x.plan[f]],
         DOMAIN x.plan \subseteq Files,
         \A f \in DOMAIN x.plan : x.plan[f] \in Contents
  PROVE  x # None
<1>1. x.plan \in [DOMAIN x.plan -> Contents]
  OBVIOUS
<1>2. x \in ToolStates(DOMAIN x.plan)
  BY <1>1 DEF ToolStates
<1>3. QED
  BY <1>2, NoneAssumption

\* A step within a stage.
LEMMA QuietStays ==
  ASSUME QuietInv, script' = script, image' = image,
         script.at = 11 => upt' = upt,
         QuietScript /\ script.at \in 2..9 => Prepared(script.at)'
  PROVE  QuietInv'
BY DEF QuietInv, QuietPrepare, QuietScript, QuietPrepareSucceeds

\* A step from one stage to the next.
LEMMA QuietAdvances ==
  ASSUME Settled, QuietInv, NextStage, script.at \in 1..8,
         QuietScript => Prepared(script.at)'
  PROVE  QuietInv'
<1>1. /\ script'.at = script.at + 1 /\ script'.mode = script.mode
      /\ script'.verdict = script.verdict /\ script'.quiet = script.quiet
  BY ScriptMoves
<1>2. script.verdict = "none" /\ script'.at \in 2..9
  BY <1>1 DEF QuietInv
<1>3. QED
  BY <1>1, <1>2 DEF QuietInv, QuietPrepare, QuietScript, QuietPrepareSucceeds

\* The script is over, and not because it refused a quiet prepare.
LEMMA QuietEnds ==
  ASSUME script'.at = 0,
         script'.mode = "prepare" /\ script'.quiet => script'.verdict # "refused"
  PROVE  QuietInv'
BY DEF QuietInv, QuietPrepare, QuietPrepareSucceeds

\* Somebody disturbs it.
LEMMA NoMoreQuiet ==
  ASSUME Settled, QuietInv, script' = [script EXCEPT !.quiet = FALSE]
  PROVE  QuietInv'
<1>1. script'.at = script.at /\ script'.verdict = script.verdict /\ script'.quiet = FALSE
  BY ScriptMoves
<1>2. QED
  BY <1>1 DEF QuietInv, QuietPrepare, QuietScript, QuietPrepareSucceeds

\* What a tool in a stage of a quiet prepare works on.
LEMMA OnPrepared ==
  ASSUME ToolInv, QuietInv, QuietScript, script.at \in 2..8, tool # None
  PROVE  /\ tool.quiet /\ tool.seen = TreeBefore(script.at).file
         /\ root.temps = {} /\ root \in Trees /\ ToolShape
         /\ tool.name = Stages[script.at]
         /\ tool.name = "retro" <=> script.at = 7
         /\ tool.name # "retro" => Found = TreeBefore(script.at)
<1>1. /\ tool.quiet /\ tool.seen = TreeBefore(script.at).file /\ root.temps = {}
      /\ tool.name # "retro" => root.retro = TreeBefore(script.at).retro
  BY DEF QuietInv, QuietPrepare, Prepared
<1>2. root \in Trees /\ ToolShape /\ tool.name = Stages[script.at]
  BY DEF ToolInv, ToolTyped
<1>3. tool.name = "retro" <=> script.at = 7
  <2>1. script.at \in {2, 3, 4, 5, 6, 7, 8}
    OBVIOUS
  <2>2. /\ Stages[2] = "overlay" /\ Stages[3] = "branding"
        /\ Stages[4] = "ssh" /\ Stages[5] = "hook" /\ Stages[6] = "launcher"
        /\ Stages[7] = "retro" /\ Stages[8] = "retro_launcher"
    BY DEF Stages
  <2>3. QED
    BY <1>2, <2>1, <2>2
<1>4. tool.name # "retro" => Found = TreeBefore(script.at)
  <2> DEFINE t == TreeBefore(script.at)
  <2>1. t = [file |-> t.file, temps |-> t.temps, retro |-> t.retro] /\ t.temps = {}
    BY DEF TreeBefore
  <2> HIDE DEF t
  <2>2. QED
    BY <1>1, <2>1 DEF Found, t
<1>5. QED
  BY <1>1, <1>2, <1>3, <1>4

\* In its turn the tool starts.
LEMMA QuietStarts ==
  ASSUME Settled, ToolInv, QuietInv, RunTool
  PROVE  QuietInv'
<1>1. /\ tool = None /\ Starts(Stage) /\ Stage \in Tools
      /\ root' = root /\ image' = image /\ upt' = upt
  BY DEF RunTool
<1>2. script.at \in 2..8 /\ Stage = Stages[script.at]
  BY <1>1, StageAt DEF ToolInv, ToolTyped
<1>3. QuietScript => root = TreeBefore(script.at)
  BY <1>1, <1>2 DEF QuietInv, QuietPrepare, Prepared
<1>4. QuietScript => Takes(Stage, root)
  BY <1>2, <1>3, StageTakes
<1>5. CASE Takes(Stage, root)
  <2>1. /\ script' = script /\ tool'.quiet = TRUE /\ tool'.seen = root.file
    BY <1>1, <1>5 DEF Starts
  <2>2. QuietScript => Prepared(script.at)'
    <3>1. TreeBefore(script.at).temps = {}
      BY DEF TreeBefore
    <3>2. QED
      BY <1>1, <1>3, <2>1, <3>1 DEF Prepared
  <2>3. QED
    BY <1>1, <2>1, <2>2, QuietStays
<1>6. CASE ~Takes(Stage, root)
  <2>1. ToolEnds(FALSE) /\ Stage # "idle"
    BY <1>1, <1>6 DEF Starts, Tools, Patchers
  <2>2. Ends("refused")
    BY <2>1 DEF ToolEnds
  <2>3. script'.at = 0 /\ script'.mode = script.mode /\ script'.quiet = script.quiet
    BY <2>2, ScriptMoves
  <2>4. QED
    BY <1>4, <1>6, <2>3, QuietEnds DEF QuietScript
<1>7. QED
  BY <1>5, <1>6

\* What a tool in its turn does to its own state leaves the tree prepared.
LEMMA QuietWorks ==
  ASSUME ToolInv, QuietInv, tool # None, ToolInv',
         tool'.name = tool.name, tool'.seen = tool.seen, tool'.quiet = tool.quiet,
         tool' # None, root'.temps = root.temps,
         tool.name # "retro" => root'.retro = root.retro,
         script' = script, image' = image, upt' = upt
  PROVE  QuietInv'
<1>1. script.at \in {0} \cup 2..8
  BY DEF ToolInv, ToolTyped
<1>2. ASSUME QuietScript, script.at \in 2..9 PROVE Prepared(script.at)'
  BY <1>1, <1>2 DEF QuietInv, QuietPrepare, Prepared
<1>3. QED
  BY <1>2, QuietStays

\* The branding finds its files as it read them.
LEMMA QuietRechecks ==
  ASSUME Settled, ToolInv, QuietInv, Recheck, ToolInv'
  PROVE  QuietInv'
<1>1. /\ tool # None /\ tool.at = "planned" /\ ToolShape /\ root' = root
      /\ image' = image /\ upt' = upt /\ script.at \in {0} \cup 2..8
      /\ tool.name = "branding"
  BY DEF Recheck, ToolInv, ToolTyped, ToolShape
<1>2. CASE tool' = [tool EXCEPT !.at = "writing"] /\ script' = script
  <2>1. /\ tool'.name = tool.name /\ tool'.seen = tool.seen
        /\ tool'.quiet = tool.quiet /\ tool'.at = "writing" /\ tool'.plan = tool.plan
        /\ tool' = [name |-> tool'.name, seen |-> tool'.seen, quiet |-> tool'.quiet,
                    at |-> tool'.at, plan |-> tool'.plan]
    BY <1>1, <1>2 DEF ToolShape
  <2>2. tool' # None
    BY <1>1, <2>1, ToolIsThere DEF ToolShape
  <2>3. QED
    BY <1>1, <1>2, <2>1, <2>2, QuietWorks
<1>3. CASE ToolEnds(FALSE) /\ ~\A f \in Config \cup BrandFiles : root.file[f] = tool.seen[f]
  <2>1. CASE script.at = 0
    <3>1. script' = script
      BY <1>3, <2>1 DEF ToolEnds, Stage
    <3>2. QED
      BY <1>1, <2>1, <3>1, QuietStays
  <2>2. CASE script.at # 0
    <3>1. ~QuietScript
      <4>1. ASSUME QuietScript PROVE FALSE
        <5>1. tool.quiet
          BY <1>1, <2>2, <4>1, OnPrepared
        <5>2. root.file = tool.seen
          BY <1>1, <5>1 DEF ToolInv, QuietTool
        <5>3. QED
          BY <1>3, <5>2
      <4>2. QED
        BY <4>1
    <3>2. Ends("refused")
      BY <1>1, <1>3, <2>2, StageAt DEF ToolEnds
    <3>3. script'.at = 0 /\ script'.mode = script.mode /\ script'.quiet = script.quiet
      BY <3>2, ScriptMoves
    <3>4. QED
      BY <3>1, <3>3, QuietEnds DEF QuietScript
  <2>3. QED
    BY <2>1, <2>2
<1>4. QED
  BY <1>2, <1>3 DEF Recheck

\* A file more.
LEMMA QuietWrites ==
  ASSUME Settled, ToolInv, QuietInv, WriteFile, ToolInv'
  PROVE  QuietInv'
<1>1. /\ tool # None /\ tool.at = "writing" /\ tool.name # "retro"
      /\ ToolShape /\ root \in Trees
      /\ script' = script /\ image' = image /\ upt' = upt
  BY DEF WriteFile, ToolInv, ToolTyped
<1>2. PICK f \in DOMAIN tool.plan :
        /\ root' = [root EXCEPT !.file[f] = tool.plan[f]]
        /\ tool' = [tool EXCEPT !.plan = Without(@, f)]
  BY DEF WriteFile
<1>3. f \in Files /\ tool.plan[f] \in Contents
  BY <1>1 DEF ToolShape
<1>4. root'.temps = root.temps /\ root'.retro = root.retro
  BY <1>1, <1>2, <1>3, WrittenTree
<1>5. /\ tool'.name = tool.name /\ tool'.seen = tool.seen
      /\ tool'.quiet = tool.quiet /\ tool'.at = "writing"
      /\ tool'.plan = Without(tool.plan, f)
      /\ tool' = [name |-> tool'.name, seen |-> tool'.seen, quiet |-> tool'.quiet,
                  at |-> tool'.at, plan |-> tool'.plan]
  BY <1>1, <1>2 DEF ToolShape
<1>6. /\ tool'.plan = [g \in DOMAIN tool'.plan |-> tool'.plan[g]]
      /\ DOMAIN tool'.plan \subseteq Files
      /\ \A g \in DOMAIN tool'.plan : tool'.plan[g] \in Contents
  BY <1>1, <1>5 DEF Without, ToolShape
<1>7. tool' # None
  BY <1>1, <1>5, <1>6, ToolIsThere DEF ToolShape
<1>8. QED
  BY <1>1, <1>4, <1>5, <1>7, QuietWorks

\* The theme.
LEMMA QuietInstalls ==
  ASSUME Settled, ToolInv, QuietInv, InstallTheme, ToolInv'
  PROVE  QuietInv'
<1>1. /\ tool # None /\ tool.at = "writing" /\ tool.name = "retro"
      /\ ToolShape /\ root \in Trees /\ tool.plan \in [LightFiles -> Contents]
      /\ script' = script /\ image' = image /\ upt' = upt
  BY DEF InstallTheme, ToolInv, ToolTyped, ToolShape
<1>2. root'.temps = root.temps
  BY <1>1 DEF InstallTheme, Trees
<1>3. tool' = tool \/ tool' = [tool EXCEPT !.at = "written"]
  BY DEF InstallTheme
<1>4. /\ tool'.name = tool.name /\ tool'.seen = tool.seen
      /\ tool'.quiet = tool.quiet /\ tool'.at \in {"writing", "written"}
      /\ tool'.plan = tool.plan
      /\ tool' = [name |-> tool'.name, seen |-> tool'.seen, quiet |-> tool'.quiet,
                  at |-> tool'.at, plan |-> tool'.plan]
  BY <1>1, <1>3 DEF ToolShape
<1>5. /\ tool'.plan = [g \in DOMAIN tool'.plan |-> tool'.plan[g]]
      /\ DOMAIN tool'.plan \subseteq Files
      /\ \A g \in DOMAIN tool'.plan : tool'.plan[g] \in Contents
  BY <1>1, <1>4, FilesAssumption DEF Files, Patched, Generated
<1>6. tool' # None
  BY <1>1, <1>4, <1>5, ToolIsThere DEF ToolShape
<1>7. QED
  BY <1>1, <1>2, <1>4, <1>6, QuietWorks

\* A tool that is done leaves the tree the next stage is to find.
LEMMA QuietFinishes ==
  ASSUME Settled, ToolInv, QuietInv, FinishTool
  PROVE  QuietInv'
<1> DEFINE ok == tool.name = "ssh" => SshVerified(root)
<1>1. /\ tool # None /\ tool.at # "planned"
      /\ tool.name = "retro" => tool.at = "written"
      /\ tool.name # "retro" => DOMAIN tool.plan = {}
      /\ ToolEnds(ok) /\ root' = root /\ image' = image /\ upt' = upt
  BY DEF FinishTool
<1>2. script.at \in {0} \cup 2..8 /\ script.at \in 0..11
  BY <1>1 DEF ToolInv, ToolTyped
<1>3. CASE script.at = 0
  <2>1. script' = script
    BY <1>1, <1>3 DEF ToolEnds, Stage
  <2>2. QED
    BY <1>1, <1>3, <2>1, QuietStays
<1>4. CASE script.at \in 2..8 /\ QuietScript
  <2>1. /\ tool.quiet /\ tool.seen = TreeBefore(script.at).file
        /\ root.temps = {} /\ root \in Trees
        /\ tool.name = Stages[script.at]
        /\ tool.name = "retro" <=> script.at = 7
        /\ tool.name # "retro" => Found = TreeBefore(script.at)
    BY <1>1, <1>4, OnPrepared
  <2>2. /\ Verified(tool.name, root)
        /\ tool.name # "retro" => Applied(tool.name, Found, root)
    BY <1>1, <2>1, FinishedIsVerified
  <2>3. root = TreeBefore(script.at + 1)
    <3>1. CASE script.at = 7
      <4>1. root.file = tool.seen /\ root.retro = Derived(root)
        BY <1>1, <2>1, <3>1 DEF ToolInv, QuietTool
      <4>2. root = TreeBefore(8)
        BY <2>1, <3>1, <4>1, RetroWrites
      <4>3. script.at + 1 = 8
        BY <3>1
      <4>4. QED
        BY <4>2, <4>3
    <3>2. CASE script.at # 7
      BY <1>4, <2>1, <2>2, <3>2, StageWrites
    <3>3. QED
      BY <3>1, <3>2
  <2>4. ok
    BY <2>2 DEF Verified
  <2>5. NextStage /\ tool' = None
    <3> HIDE DEF ok
    <3>1. QED
      BY <1>1, <1>2, <1>4, <2>4, StageAt DEF ToolEnds
  <2>6. Prepared(script.at)'
    BY <1>1, <2>3, <2>5, ScriptMoves DEF Prepared
  <2>7. QED
    BY <1>4, <2>5, <2>6, QuietAdvances
<1>5. CASE script.at \in 2..8 /\ ~QuietScript
  <2>1. NextStage \/ Ends("refused")
    <3> HIDE DEF ok
    <3>1. QED
      BY <1>1, <1>2, <1>5, StageAt DEF ToolEnds
  <2>2. CASE NextStage
    BY <1>5, <2>2, QuietAdvances
  <2>3. CASE Ends("refused")
    BY <1>5, <2>3, ScriptMoves, QuietEnds DEF QuietScript
  <2>4. QED
    BY <2>1, <2>2, <2>3
<1>6. QED
  BY <1>2, <1>3, <1>4, <1>5

\* The candidate of a finished image is the finished one, at every hour.
LEMMA PackedWhole ==
  ASSUME Pack, NEW n \in Sizes, image = FinishedImage(n)
  PROVE  upt' = FinishedUpt(n)
<1>1. PICK hour \in Hours :
        upt' = Candidate(NormalizeRockRidge(
                 NormalizeVolumeDescriptors(FreshIso(hour), Epoch), Epoch))
  BY DEF Pack
<1> DEFINE ota == PrepareOtaTree(KernelImage, image)
<1> DEFINE iso == NormalizeVolumeDescriptors(FreshIso(hour), Epoch)
<1>2. iso = [ota |-> ota, dates |-> Epoch, stamps |-> [a \in Areas |-> hour]]
  <2> HIDE DEF ota
  <2>1. FreshIso(hour) = [ota |-> ota, dates |-> hour, stamps |-> [a \in Areas |-> hour]]
    BY DEF FreshIso, GenIsoImage, ota
  <2>2. QED
    BY <2>1 DEF NormalizeVolumeDescriptors
<1>3. NormalizeRockRidge(iso, Epoch) =
        [ota |-> ota, dates |-> Epoch, stamps |-> [a \in Areas |-> Epoch]]
  <2> HIDE DEF ota, iso
  <2>1. QED
    BY <1>2, ReachedAssumption DEF NormalizeRockRidge
<1>4. upt' = [iso |-> NormalizeRockRidge(iso, Epoch), packed |-> Packed]
  BY <1>1 DEF Candidate
<1>5. Packed = [i \in {Kernel, Rootfs} |-> IF i = Kernel THEN KernelImage
                                           ELSE FinishedImage(n)]
  BY DEF Packed
<1>6. FinishedUpt(n) =
        [iso    |-> [ota |-> ota, dates |-> Epoch, stamps |-> [a \in Areas |-> Epoch]],
         packed |-> [i \in {Kernel, Rootfs} |-> IF i = Kernel THEN KernelImage
                                               ELSE FinishedImage(n)]]
  BY DEF FinishedUpt
<1>7. QED
  <2> HIDE DEF ota, iso
  <2>1. QED
    BY <1>3, <1>4, <1>5, <1>6

\* Every step keeps a prepare that nobody disturbs on its way.
LEMMA QuietNext ==
  ASSUME RoundTrips
  PROVE  IInv /\ ToolInv /\ QuietInv /\ [Next]_vars => QuietInv'
<1> SUFFICES ASSUME IInv, ToolInv, QuietInv, [Next]_vars PROVE QuietInv'
  OBVIOUS
<1> USE DEF IInv
<1>0. script.at \in 0..11 /\ ToolInv'
  BY ToolNext DEF ToolInv, ToolTyped
<1>a. {"extract", "build", "pack", "verify", "idle"} \cap Tools = {}
  BY DEF Tools, Patchers
<1>1. CASE Prepare
  <2>1. script'.at = 1 /\ script'.verdict = "none"
    BY <1>1 DEF Prepare
  <2>2. QED
    BY <2>1 DEF QuietInv, QuietPrepare, QuietPrepareSucceeds
<1>2. CASE Publish
  <2>1. script'.mode = "publish" /\ script'.verdict = "none"
    BY <1>2 DEF Publish
  <2>2. QED
    BY <2>1 DEF QuietInv, QuietPrepare, QuietScript, QuietPrepareSucceeds
<1>3. CASE Extract
  <2>1. /\ tool = None /\ tool' = None /\ script.at = 1
        /\ image' = image /\ upt' = upt
    BY <1>3, <1>0, <1>a, OwnStage, StageAt DEF Extract
  <2>2. CASE script' = script
    BY <2>1, <2>2, QuietStays
  <2>3. CASE root' = StockTree /\ NextStage
    <3>1. script'.at = 2
      BY <2>1, <2>3, ScriptMoves
    <3>2. Prepared(script.at)'
      BY <2>1, <2>3, <3>1, FirstAndLast DEF Prepared
    <3>3. QED
      BY <2>1, <2>3, <3>2, QuietAdvances
  <2>4. QED
    BY <1>3, <2>2, <2>3 DEF Extract
<1>4. CASE BuildRootfs
  <2>1. tool = None /\ script.at = 9
    BY <1>4, <1>0, <1>a, OwnStage, StageAt DEF BuildRootfs
  <2>2. PICK n \in Sizes : /\ image' = ImageOf(root, n)
                           /\ IF n <= MaxSize THEN NextStage ELSE Ends("refused")
    BY <1>4 DEF BuildRootfs
  <2>3. QuietScript => image' = FinishedImage(n)
    BY <2>1, <2>2, FirstAndLast
       DEF QuietInv, QuietPrepare, Prepared, FinishedImage
  <2>4. CASE n <= MaxSize
    <3>1. /\ script'.at = 10 /\ script'.mode = script.mode
          /\ script'.verdict = "none" /\ script'.quiet = script.quiet
      BY <2>1, <2>2, <2>4, ScriptMoves DEF QuietInv
    <3>2. QED
      BY <2>3, <2>4, <3>1
         DEF QuietInv, QuietPrepare, QuietScript, QuietPrepareSucceeds
  <2>5. CASE ~(n <= MaxSize)
    <3>1. /\ script'.at = 0 /\ script'.mode = script.mode
          /\ script'.quiet = script.quiet
      BY <2>2, <2>5, ScriptMoves
    <3>2. n \in Nat \ {0} /\ MaxSize \in Nat
      BY SizesAssumption
    <3>3. image' = FinishedImage(n) => image' # None /\ Len(image') > MaxSize
      <4>1. None # FinishedImage(n)
        BY NoneAssumption
      <4>2. Len(FinishedImage(n)) = n
        BY <3>2 DEF FinishedImage, ImageOf
      <4>3. QED
        BY <2>5, <3>2, <4>1, <4>2
    <3>4. QED
      BY <2>3, <3>1, <3>3
         DEF QuietInv, QuietPrepare, QuietScript, QuietPrepareSucceeds
  <2>6. QED
    BY <2>4, <2>5
<1>5. CASE Pack
  <2>1. script.at = 10 /\ image' = image /\ NextStage
    BY <1>5, <1>0, StageAt DEF Pack
  <2>2. /\ script'.at = 11 /\ script'.mode = script.mode
        /\ script'.verdict = "none" /\ script'.quiet = script.quiet
    BY <2>1, ScriptMoves DEF QuietInv
  <2>3. ASSUME QuietScript
        PROVE  \E n \in Sizes : /\ n <= MaxSize /\ image = FinishedImage(n)
                                /\ upt' = FinishedUpt(n)
    <3>1. PICK n \in Sizes : n <= MaxSize /\ image = FinishedImage(n)
      BY <2>1, <2>3 DEF QuietInv, QuietPrepare
    <3>2. upt' = FinishedUpt(n)
      BY <1>5, <3>1, PackedWhole
    <3>3. QED
      BY <3>1, <3>2
  <2>4. QED
    BY <2>1, <2>2, <2>3
       DEF QuietInv, QuietPrepare, QuietScript, QuietPrepareSucceeds
<1>6. CASE Verify
  <2>1. /\ script.at = 11
        /\ Ends(IF CandidateVerified THEN "accepted" ELSE "refused")
    BY <1>6, <1>0, StageAt DEF Verify
  <2>2. QuietScript => CandidateVerified
    BY <2>1, FinishedAccepted DEF QuietInv, QuietPrepare
  <2>3. /\ script'.at = 0 /\ script'.mode = script.mode
        /\ script'.quiet = script.quiet
        /\ script'.verdict = IF CandidateVerified THEN "accepted" ELSE "refused"
    BY <2>1, ScriptMoves
  <2>4. QED
    BY <2>2, <2>3, QuietEnds DEF QuietScript
<1>7. CASE RunTool
  BY <1>7, QuietStarts
<1>8. CASE \E name \in Tools : RunByHand(name)
  <2>1. PICK name \in Tools : RunByHand(name)
    BY <1>8
  <2>2. /\ script.at = 0 /\ script' = script /\ image' = image /\ upt' = upt
    BY <1>0, <2>1, StageAt DEF RunByHand, Starts, ToolEnds
  <2>3. QED
    BY <2>2, QuietStays
<1>9. CASE Recheck
  BY <1>0, <1>9, QuietRechecks
<1>10. CASE WriteFile
  BY <1>0, <1>10, QuietWrites
<1>11. CASE InstallTheme
  BY <1>0, <1>11, QuietInstalls
<1>12. CASE FinishTool
  BY <1>12, QuietFinishes
<1>13. CASE Kill
  BY <1>13, ScriptMoves, QuietEnds DEF Kill
<1>14. CASE Edit \/ Damage
  BY <1>14, NoMoreQuiet DEF Edit, Damage
<1>15. CASE UNCHANGED vars
  <2>1. script' = script /\ image' = image /\ upt' = upt /\ root' = root /\ tool' = tool
    BY <1>15 DEF vars
  <2>2. QuietScript /\ script.at \in 2..9 => Prepared(script.at)'
    BY <2>1 DEF QuietInv, QuietPrepare, Prepared
  <2>3. QED
    BY <2>1, <2>2, QuietStays
<1>16. QED
  BY <1>1, <1>2, <1>3, <1>4, <1>5, <1>6, <1>7, <1>8, <1>9, <1>10, <1>11,
     <1>12, <1>13, <1>14, <1>15 DEF Next

\* The script refuses its own work only when the image is too large: a
\* prepare that nobody edits under gets through, whatever files there are,
\* in whichever order a tool writes them, and whatever an earlier run, a
\* kill or a tool run by hand left behind (build-cfw-0.1.sh
\* prepare_candidate).  That the finished image survives the container is
\* the hypothesis.
THEOREM QuietPreparesSucceed ==
  ASSUME RoundTrips
  PROVE  Spec => []QuietPrepareSucceeds
<1>1. Init => QuietInv
  BY DEF Init, QuietInv, QuietPrepare, QuietPrepareSucceeds
<1>2. QuietInv => QuietPrepareSucceeds
  BY DEF QuietInv
<1>3. IInv /\ ToolInv /\ QuietInv /\ [Next]_vars => QuietInv'
  BY QuietNext
<1>4. QED
  BY <1>1, <1>2, <1>3, InitInv, NextInv, ToolInit, ToolNext, PTL DEF Spec

================================================================================
