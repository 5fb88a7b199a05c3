---------------------------- MODULE OtaContainer ----------------------------
(***************************************************************************)
(* The .upt container as tools/r1fw.py packs and unpacks it: two images    *)
(* cut into chunks whose file names form a chain of digests, a manifest    *)
(* for each image, the metadata, and around them an ISO9660 file system    *)
(* with its time stamps.                                                   *)
(*                                                                         *)
(* An image is a sequence of bytes and the digest of some bytes is those   *)
(* bytes: MD5 is taken to be injective.  A file of the container is a      *)
(* record of what its name says and of what is in it.                      *)
(***************************************************************************)
EXTENDS Integers, SequencesExt

CONSTANTS
  ChunkSize,   \* bytes in a chunk, but for an image's last
  Areas,       \* the System Use areas of the ISO's directory records
  RootArea,    \* that of the root directory
  LeadsTo,     \* from each area: its continuation, its directory's entries
  Incomplete   \* a metadata entry without all of its four keys

ASSUME ChunkSizeAssumption == ChunkSize \in Nat \ {0}
ASSUME AreasAssumption ==
  /\ IsFiniteSet(Areas) /\ RootArea \in Areas
  /\ LeadsTo \in [Areas -> SUBSET Areas]

Kernel == "xImage"
Rootfs == "rootfs.squashfs"

-----------------------------------------------------------------------------
(* Packing. *)

NumChunks(image) == (Len(image) + ChunkSize - 1) \div ChunkSize

Chunk(image, i) ==
  SubSeq(image, (i - 1) * ChunkSize + 1, Min({i * ChunkSize, Len(image)}))

\* The first chunk's name carries the digest of the whole image, every
\* other that of the chunk before it.
SplitImage(name, image) ==
  [chunks |-> {[image |-> name, index |-> i - 1, data |-> Chunk(image, i),
                md5 |-> IF i = 1 THEN image ELSE Chunk(image, i - 1)]
               : i \in 1..NumChunks(image)},
   manifest |-> [image |-> name, md5 |-> image,
                 hashes |-> [i \in 1..NumChunks(image) |-> Chunk(image, i)]]]

MetadataEntry(name, image) ==
  [name |-> name, size |-> Len(image), md5 |-> image]

PrepareOtaTree(kernel, rootfs) ==
  LET x == SplitImage(Kernel, kernel)
      r == SplitImage(Rootfs, rootfs)
  IN [chunks    |-> x.chunks \cup r.chunks,
      manifests |-> {x.manifest, r.manifest},
      metadata  |-> <<MetadataEntry(Kernel, kernel), MetadataEntry(Rootfs, rootfs)>>]

-----------------------------------------------------------------------------
(* Time stamps.  genisoimage stamps every volume descriptor and area with  *)
(* the hour it runs at. The wrapper that stands for it on an old host and  *)
(* the packer put the release's epoch in their place.                      *)

GenIsoImage(ota, now) ==
  [ota |-> ota, dates |-> now, stamps |-> [a \in Areas |-> now]]

NormalizeVolumeDescriptors(iso, epoch) == [iso EXCEPT !.dates = epoch]

\* The areas the walk has met after at most n steps from the root; an area
\* met before is not entered again.
Visited[n \in Nat] ==
  IF n = 0 THEN {RootArea}
  ELSE Visited[n - 1] \cup UNION {LeadsTo[a] : a \in Visited[n - 1]}

\* Every area of an ISO is met on a walk from its root directory.
ASSUME ReachedAssumption == Visited[Cardinality(Areas)] = Areas

\* Variant: the walk does not follow a continuation of a continuation.
NormalizeTwoSteps(iso, epoch) ==
  [iso EXCEPT !.stamps = [a \in Areas |->
     IF a \in Visited[2] THEN epoch ELSE iso.stamps[a]]]

NormalizeRockRidge(iso, epoch) ==
  [iso EXCEPT !.stamps = [a \in Areas |->
     IF a \in Visited[Cardinality(Areas)] THEN epoch ELSE iso.stamps[a]]]

-----------------------------------------------------------------------------
(* Unpacking. *)

\* The chunks of each image, in the order of their numbers.
FindImages(ota) ==
  [name \in {c.image : c \in ota.chunks} |->
     SetToSortSeq({c \in ota.chunks : c.image = name},
                  LAMBDA c, d : c.index < d.index)]

ParseOtaMetadata(metadata) ==
  IF \/ metadata = <<>>
     \/ \E i \in DOMAIN metadata : metadata[i] = Incomplete
     \/ \E i, j \in DOMAIN metadata :
          i # j /\ metadata[i].name = metadata[j].name
  THEN [ok |-> FALSE, entries |-> {}]
  ELSE [ok |-> TRUE, entries |-> Range(metadata)]

Joined(chunks) == FlattenSeq([i \in DOMAIN chunks |-> chunks[i].data])

\* What rebuild_image asks of an image's chunks and manifest.
RebuildAccepts(ota, name, chunks) ==
  /\ \A i \in DOMAIN chunks : chunks[i].index = i - 1
  /\ \E m \in ota.manifests :
       /\ {n \in ota.manifests : n.image = name} = {m}
       /\ Len(m.hashes) = Len(chunks)
       /\ \A i \in DOMAIN chunks :
            /\ chunks[i].md5 = IF i = 1 THEN m.md5 ELSE chunks[i - 1].data
            /\ chunks[i].data = m.hashes[i]
       /\ Joined(chunks) = m.md5

\* Variant: the digests in the names are compared with each other and the
\* sizes with the metadata, nothing with the bytes.
UnpackByName(ota) ==
  LET found == FindImages(ota)
      meta == ParseOtaMetadata(ota.metadata)
  IN IF /\ meta.ok
        /\ DOMAIN found = {e.name : e \in meta.entries}
        /\ \A e \in meta.entries :
             /\ Len(Joined(found[e.name])) = e.size
             /\ \E m \in ota.manifests :
                  /\ m.image = e.name
                  /\ e.md5 = m.md5 /\ found[e.name][1].md5 = m.md5
     THEN [ok |-> TRUE, images |-> [n \in DOMAIN found |-> Joined(found[n])]]
     ELSE [ok |-> FALSE, images |-> <<>>]

\* unpack: [ok, images], the images only those of an accepted container.
Unpack(ota) ==
  LET found == FindImages(ota)
      meta == ParseOtaMetadata(ota.metadata)
  IN IF /\ meta.ok
        /\ DOMAIN found = {e.name : e \in meta.entries}
        /\ \A e \in meta.entries :
             /\ RebuildAccepts(ota, e.name, found[e.name])
             /\ e = MetadataEntry(e.name, Joined(found[e.name]))
     THEN [ok |-> TRUE, images |-> [n \in DOMAIN found |-> Joined(found[n])]]
     ELSE [ok |-> FALSE, images |-> <<>>]

=============================================================================
