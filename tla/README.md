# Formal models of meshoptimizer

This directory holds TLA+ models of meshoptimizer, the TLC configurations that check them on
small instances, and proofs about them that TLAPS checks for every value of the constants.
`PROJECT.json` relates every definition to the lines it models, every property to a run and to a
mistake that the run detects, and every hazard of the code to the properties that watch it.
Paths below are relative to the root of the repository.

## 1. The system

meshoptimizer is a C++ library of independent algorithms on meshes (`src/`), wrappers for
JavaScript (`js/`), a glTF compressor (`gltf/`) and a demo of cluster level of detail
(`demo/clusterlod.h`). Most functions are sequential and keep no state between calls; what is
hard about them is state *inside* a call: state that two sides must keep equal (codecs), limits
that one check must enforce for many accesses (buffers), greedy algorithms that must not lose or
repeat an element, figures that are updated step by step and read as if counted anew. Concurrency
exists at two places: web workers for decoding (`js/meshopt_decoder.mjs`) and threads for image
encoding (`gltf/encodewebp.cpp`, `gltf/encodebasis.cpp`).

| component | state | operations | what makes it correct | modelled |
|---|---|---|---|---|
| index buffer codec, `src/indexcodec.cpp:165` | edge FIFO, vertex FIFO, `next`, `last`, positions | encode, bound, decode | decoder in lockstep with the encoder; triangles rotated at most; cut streams rejected; bounds | `IndexCodec`, proved |
| index sequence codec, `src/indexcodec.cpp:578` | two baselines, the current one | encode, bound, decode | exact sequence; cut streams rejected; bounds | `IndexSequence`, proved |
| vertex buffer codec, `src/vertexcodec.cpp` | last vertex, channel encodings, control bytes, positions | encode, bound, decode (scalar and vector) | byte-exact vertices; verdicts; no access out of bounds by either decoder | `VertexCodec`; bounds proved |
| meshlet codec, `src/meshletcodec.cpp`, `src/meshletutils.cpp` | meshlet under construction, edge FIFO, `next`, codes, extra and control bytes | extract, optimize, encode, bound, three decoders | the triangles come back turned at most; over-reads covered by the gap | `MeshletOptimizer`, `MeshletCodec` |
| triangle strips, `src/stripifier.cpp` | buffer of 8 triangles, valences, last edge, parity | stripify, unstripify, bounds | same triangles with the same winding; bounds | `Stripifier`, proved |
| meshlet building, `src/clusterizer.cpp` | current meshlet, `used` map, live lists, seeds, search tree, split boundaries | scan, flex, spatial, bound | every triangle in one meshlet; limits; the tree hides no live triangle | `MeshletBuilder`, `MeshletSearch` |
| simplifier, `src/simplifier.cpp` | wedges, kinds, loops, collapses and locks of a pass, components, grid search | simplify variants, prune, sloppy, points | no cracks; wedges move together; every loop ends | `Simplifier`, `SimplifierApi` |
| partitioner, `src/partition.cpp` | groups as chains, heap with stale entries, tree leaves | partitionClusters | each cluster in one partition; size limit | `Partitioner` |
| index generation, `src/indexgenerator.cpp` | hash tables with probing | remap, filter, shadow, adjacency, tessellation, provoking | equal elements share an index; tables never full | `IndexGenerator` |
| cache, overdraw and fetch optimizers, `src/vcacheoptimizer.cpp`, `src/overdrawoptimizer.cpp`, `src/vfetchoptimizer.cpp` | live lists, scores, cache, dead-end stack, cluster boundaries | reorder | the output is a permutation; running figures are those of a new count | `VertexCache` |
| spatial order, `src/spatialorder.cpp` | radix passes, three orders of the points | sort, sort triangles, cluster points | permutations; chunks full and apart | `SpatialOrder` |
| cluster level of detail, `demo/clusterlod.h`, `demo/nanite.cpp` | clusters, pending groups, locks, errors; tree of groups | build, hierarchy, bound, cut | at every threshold each part is drawn once, without gaps | `ClusterLod`, `ClusterLodApi` |
| decoder workers, `js/meshopt_decoder.mjs` | pool, pending sums, request table, inboxes, two kinds of `ready` | `useWorkers`, `decodeGltfBufferAsync`, message handlers | each promise settles once with its own verdict; accounting exact; retired workers close | `DecoderPool`; safety proved |
| gltfpack, `gltf/` | meshes, materials, textures, nodes, animations under analysis; arrays of the output; geometry cache | one pass after the other, then writing | the output shows what the input showed; indices written ahead come true | `GltfPack` and parts |
| image encoding of gltfpack, `gltf/encodewebp.cpp`, `gltf/encodebasis.cpp` | shared counter, result slots, temporary files | threads, join, write | every image once, errors stay with their image, textures name the format written | `GltfMaterials`, `GltfPack` |
| vertex filters, quantization, tangents, remesher, opacity maps, rasterizer | none beyond a call | numeric kernels | error bounds | no |
| allocator, other JavaScript wrappers, parsing and files, `demo/`, `tools/`, `extern/` | - | - | - | no |

**How they interact.** The library's functions meet through index and vertex buffers: the output
of one call is the input of the next. Two chains are modelled as compositions: the pipeline that
README.md describes (indexing, spatial order, cache, overdraw, fetch, further index buffers) in
`IndexPipeline`, and the one of a meshlet (extract, optimize, encode, decode) in
`MeshletCodec`. `clodBuild` calls partitioner, simplifier and splitter; `ClusterLod` is
composed with the partitioner by its promise (`PartitionSpec`), which `Partitioner` is checked
against in the same run. The decoder workers call the three decoders by name and turn their error
codes into exceptions. Indices with the value `~0u` separate strips and travel from the
stripifier into the sequence codec, which is where the finding of section 4 lies.

**What is hard to test.** Encoder and decoder of a codec are two programs that share an
undocumented state machine ("must match the encoding step *exactly*", `src/indexcodec.cpp:460`),
and rare codes meet only in long sequences. One check covers up to 16 bytes of writes or reads
and is tight only in the last triangles of a buffer. The optimizers keep live lists and scores by
differences. The simplifier ranks collapses on a mesh that the collapses before have changed. A
crack between levels of detail shows at one threshold of one mesh. gltfpack writes references to
elements that do not exist yet. In the worker pool, requests, resizing, instantiation and answers
interleave freely, and tests of the repository run without workers.

## 2. Modules

| module | models | state and actions |
|---|---|---|
| `Varint` | index arithmetic mod 2^Width, zigzag, variable length integers | operators only |
| `TriangleStream` | abstract: triangles come out in order, rotated and never flipped | `sent`, `received`; `Send`, `Deliver` |
| `IndexCodec` | index buffer codec | one call of the encoder, then one of the decoder on its output; an action per triangle and path: `EncodeCachedEdge`, `EncodeOther`, `EncodeRefuse`, `DecodeCachedEdge`, `DecodeCachedEdgeIndex`, `DecodeTablePair`, `DecodeAuxPair`, `DecodeTruncated`, ... |
| `IndexSequence` | index sequence codec | `Encode`, `EncodeRefuse`, `EncodeFinish`, `Decode`, `DecodeTruncated`, `DecodeFinish` |
| `VertexCodec` | vertex codec | `EncodeBlock`, `EncodeChannel` (one byte channel with its control value and groups), `EncodeRefuse`, `EncodeFinish`, `DecodeBlock`, `DecodeChannel`, `DecodeDeltas`, `DecodeInvalid`, `DecodeTruncated`, ... |
| `Stripifier` | strips and back | `Continue`, `Swap`, `StartStrip`, `ConnectStrip`, `StripEnd`, then `UnstripRestart`, `UnstripIndex`, `UnstripEnd` |
| `MeshletBuilder` | the three builders; any live triangle may be the nearest | `ScanTriangle`, `ScanFinish`; `FlexFirst`, `FlexNeighbor`, `FlexNearest`, `FlexFinish`; `SplitLeaf`, `SplitTail`, `SplitRange`, `SplitDone`, then `PackTriangle`, `PackFinish` |
| `MeshletSearch` | the search tree and its switched off subtrees, and the flex builder that searches it | the builder's actions and `Nearest`, a search, with `tree` and `found` |
| `MeshletOptimizer`, `MeshletCodec` | one meshlet: extract, reorder, rotate, renumber; then encode and decode it | `ExtractCorner`, `OrderTriangle`, `RotateTriangle`, `Renumber`; `EncodeReuse`, `EncodeRestart`, `FinishEncode`, then a group of the decoder per step (`DecodeVertices`, `DecodeScalar`, `DecodePair`, `DecodeTwoPairs`, `DecodeLastPair`), `Verdict` |
| `IndexGenerator`, `VertexCache`, `SpatialOrder` | index generation; cache, overdraw and fetch optimizers; spatial order: the functions as operators over the state of a call | operators only |
| `IndexPipeline` | a mesh on its way through them | a call, or a round of the loop of a longer call, per step |
| `Simplifier` | `meshopt_simplifyEdge`, prune and update; before the first pass wedges, kinds, loops and components | a pass begins, evaluates one collapse per step in any order, ends; prune rounds; end |
| `SimplifierApi` | sloppy and points, the entry points side by side, and the properties | a guess per step, then the output; `Next` of both |
| `PartitionSpec` | what the partitioner promises | operators only |
| `Partitioner` | `meshopt_partitionClusters` | a merge per step, then the leaves of the tree |
| `ClusterLod` | `clodBuild` | a level begins, a group per step, end |
| `ClusterLodApi` | `clodBuildHierarchy`, the traversal of `demo/nanite.cpp`, the calls side by side, and the properties | leaves of a level, a row per step; `Next` of the three |
| `GltfMaterials`, `GltfMeshes`, `GltfScene` | the functions of `material.cpp` and the image encoders, `mesh.cpp`/`stream.cpp`, `node.cpp`/`animation.cpp`/`parsegltf.cpp`/`write.cpp` | operators only |
| `GltfPack` | `process` | a pass per action (`Parse`, `MarkNodes`, `Deduplicate`, `Detach`, ...); per thread `TakeImage`, `EncodeImage`; `Join`; `WriteMesh` per output mesh, ... |
| `GltfPicture` | what a viewer shows of a file, and the properties | operators only |
| `AsyncDecoder` | abstract: a call returns a promise, which is settled once with the verdict of its source | `Call`, `Settle` |
| `DecoderPool` | main thread and workers | `UseWorkers`, `DecodeOnWorker`, `DecodeOnMain`, `MainReady`, `MainDecode`, `Receive`; per worker `WorkerReady`, `WorkerDecode`, `WorkerClose` |
| `MC...` | values of the constants for TLC | - |
| `IndexCodecProofs`, `IndexSequenceProofs`, `VertexCodecProofs`, `StripifierProofs`, `DecoderPoolProofs`, `MeshletBuilderProofs`, `MeshletCodecProofs` | theorems about the module of that name; those of the builder cover `MeshletSearch`, those of the meshlet codec `MeshletOptimizer` | - |
| `SetLemmas` | lemmas about sums over sets, recursion over numbers and measures, powers of two, queues, zigzag and variable length integers, for all proofs | - |

Conventions shared by the modules:

- A codec module reveals its input element by element, so that one behaviour is one complete
  round trip and the set of behaviours ranges over every input up to the bound. The arguments of
  the calls (version, missing bytes of the buffer, index size, bytes cut from the stream) are
  chosen in `Init`. The other modules choose a whole input in `Init`.
- A FIFO of the code is an array with a write offset, read relative to it; here it is a function
  from ages (`f[0]` is the youngest entry). `PushIf` keeps the quirk that the slot is written
  even when the offset stays.
- Index data is a sequence of *tokens* with their byte sizes rather than of bytes; positions and
  checks are in bytes as in the code. The vertex and the meshlet codec are modelled byte by byte,
  because their decoders read bytes they do not use.
- Floating point decides between candidates that the code treats alike (the best neighbour, the
  cheapest split, the order of collapses, the error of a collapse). Such a choice is free, so that
  the properties hold for every geometry; guards, limits, ties by index and fallbacks are kept.
- Definitions whose comment starts with "A mistake" or "Mistake" are not part of a model. Each is
  what a plausible bug would make of the definition after it, and `PROJECT.json` names the
  property that TLC finds violated once it takes that definition's place.

Domains. `IndexCodec` and the pass run of `IndexSequence` take indices below the number of
vertices, and no vertex has the index `~0u`: after a reset the FIFO is filled with that value
(`src/indexcodec.cpp:266`), so that it would be found there by the encoder and not by the
decoder. In the sequence codec, `v << 1` (`src/indexcodec.cpp:617`) drops the top bit of
differences from 2^30 on; meshes have fewer vertices than that. Streams are the encoder's own,
whole, cut or (vertex codec) extended or with a changed header; arbitrary bytes are
not enumerated, except for those taken for the table of a cut index stream. `VertexCodec` lets
the encoder choose any channel encoding that its estimates (`estimateRotate`, `estimateChannel`)
can return. The shared bounds check of four groups in the vector decoder
succeeds only where the four single checks would, and the model uses these. Meshlets have fewer
vertices than a data byte counts. Hashes of gltfpack do not collide.

**What gltfpack supports.** `SamePicture` of `GltfPicture` is not true of every file, and each
condition of `Supported` is needed (dropping it makes the run fail):

- `OneSkin`: a mesh used with several skins is copied by `push_back(*mesh)` with the nodes it has
  so far (`gltf/parsegltf.cpp:384`), which are then drawn with the second skin as well.
- `StillSiblings`: `canMergeMeshNodes` (`gltf/mesh.cpp:189`) compares parents and transforms of
  two nodes, neither their animations nor the scenes they are in.
- `UnsharedWeights`: animated morph weights follow a mesh to its mesh node only if there is
  exactly one (`gltf/write.cpp:1622`).
- `FewScenes`: the marker for "in several scenes" is overwritten by a third listing of a root
  (`gltf/node.cpp:17`).
- `PlainInstances`: instanced nodes are put into the first scene in world space
  (`gltf/parsegltf.cpp:395`).
- `NamedImages`: images that are written as files take the name of the input with the extension
  of their new format (`gltf/write.cpp:894`), so that `a.png` and `a.jpg` end up in one file; the
  warning at `gltf/gltfpack.cpp:1121` compares names with their extensions.

**Shadow indices.** `src/meshoptimizer.h:129` says that equivalent vertices "map to the first vertex
in the original vertex buffer". `generateShadowBuffer` (`src/indexgenerator.cpp:312`) goes through the
indices and maps them to the vertex that the index buffer names first: for vertices a, b, c, b' with b
and b' at one position and the indices a, b', c, c, b, a the shadow indices use b', the later one in
the vertex buffer. The two agree only when the vertices are in the order of their first use.
`Generated` states what the code does, on buffers in any order (`MakeVariants` also takes a mesh as it is
given, or sorted), and does not claim the sentence of the documentation. The position remap, whose
loop goes through the vertices, does lead to the first one.

**Levels of detail.** `NoGaps` leaves out the clusters of a group that was given up while others
went on. `lockBoundary` (`demo/clusterlod.h:372`, called "to avoid gaps in simplified result")
looks at the groups that are still pending, so that a neighbour of an abandoned group may lose the
vertices they share at a later level; without the exclusion TLC finds such a gap at once.
`boundEdgeCollapses` (`src/simplifier.cpp:1318`) is an upper bound for manifold meshes only; with
repeated triangles the list of collapses ends at its capacity, which `CollapsesAgree` allows for.

## 3. Runs

| run | bounds | distinct states | what it shows |
|---|---|---|---|
| `index_codec` | FIFOs of 6, 6-bit indices in 3-bit groups, up to 4 of 7 triangle shapes over 6 vertices, 6 combinations of arguments | 145,205 | type, `EncodedDecodes`, `TruncatedRejected`, `BoundSuffices`, `InBounds`, `Lockstep`, `NoFalseReset`, refinement `StreamSpec` |
| `index_sequence` | 9-bit indices in 4-bit groups, up to 5 of 6 indices | 478,823 | `Exact` (with verdicts), `InBounds` (with the bound) |
| `index_sequence_restart` | the same codec on strips with restart indices | - | violation of `BoundSuffices` (section 4) |
| `stripifier` | up to 4 of 7 triangles over 4 vertices, buffer of 3, valences mod 4 | 93,881 | `InStep`, `Complete` (with both bounds), refinement `StreamSpec` |
| `decoder_pool` | 3 requests of 2 kinds, 3 workers, 3 resizes | 102,992 | `Accounted` (nothing is stranded either), refinement `ServiceSpec`, liveness `EverySettles`, `RetiredClose` |
| `vertex_codec` | groups of 8 bytes, blocks of at most 16 vertices, 12 meshes of 7 byte patterns, both versions, levels 0 to 3, both decoders | 14,150 | `Lossless` (with verdicts), `InBounds` (with the bound) |
| `meshlet_builder` | 5 meshes of 6 to 10 triangles, meshlets of 4 to 12 vertices and 2 to 5 triangles, leaves of 1, 3 seeds | 6,296 | `Complete` (each triangle once, limits, bound), `Bookkeeping`, `FindsNearest`, refinement `BuilderSpec` |
| `meshlet_codec` | 9 lists of up to 7 triangles, 4-bit data bytes, levels 0, 1, 3, 31 calls of the decoders | 29,494 | `SameTriangles`, `RoundTrip`, `InBounds` |
| `index_pipeline` | 75 meshes of up to 9 vertices and 6 triangles, two score tables and the FIFO, caches of 4 | 3,531 | `SamePicture`, `Generated`, `Bookkeeping`, `Chunks` |
| `simplifier` | meshes of 3 to 8 triangles with seams and borders, 3 collapse errors, all orders; grids of up to 9 | 62,956 | `CollapsesAgree`, `SameSurface`, `GridFits`, termination `Terminates` |
| `cluster_lod` | 4 or 5 clusters to partition, 6 meshes of 1 to 3 clusters to build, 6 or 8 groups in a hierarchy, 5 thresholds | 320,737 | `Partitioned`, `ConsistentCut`, `NoGaps`, `HierarchyExact` |
| `gltf_pack` | 5072 pairs of a file (up to 4 nodes, 1 to 3 meshes) and settings; up to 3 encoding threads for 3 images | 113,883 | `SamePicture`, `IndicesAgree` |

Why these bounds are enough for the interesting cases to occur:

- *Index codec.* With FIFOs of 6 entries, `FecMax` is 3 (version 1), so that ages, `next`,
  `last - 1`, `last + 1` and explicit indices all occur as codes of a cached edge; the shapes are
  strips in three rotations, jumps, a degenerate triangle and `<<0, 1, 2>>`, which resets. Four
  triangles push 12 edges through a FIFO of 6. Explicit indices have one or two bytes. One cut
  loses a byte, the other three: the first ends inside the table, the second moves data into it.
- *Sequence codec.* The threshold for switching the baseline is 3, in proportion to groups of 4
  bits as 30 is to groups of 7; indices have one to three bytes and the tail has room for the
  rest of the longest one.
- *Stripifier.* The buffer of 3 forces triangles to wait outside it; fan, back face, closed
  tetrahedron and degenerate triangles reach each way to go on, both with restart indices and
  connecting triangles. Valences wrap at 4.
- *Pool.* Two workers of the pool, one more that replaces a retired one, and a third call of
  `useWorkers` that empties or refills it, at any time between requests and answers. A request
  issued without workers shares the promises of the others.
- *Vertex codec.* Every control mode, group width and channel type is used (the mesh patterns
  are chosen for that); counts 0, 1, one group less one, group, block, block and a
  half, with one and two words. Room is missing by 1, 10, 20 and 60 bytes, which refuses at the
  tail, a group, a literal and a header.
- *Meshlets.* Limits so tight that meshlets close by vertices, by triangles and because no seed is
  near; parts far from each other send the search into switched off subtrees; triangles at one
  place make leaves that cannot be split. A mesh with a repeated corner gets one meshlet too many if
  different vertices were counted instead of corners that are new (section 5). Lists reach every code of a triangle, differences of one
  to four bytes, all three gaps before the codes, and cuts that shift what is taken for them.
- *Pipeline.* A hash with many collisions and tables of the size the code would take; counters
  that saturate (`ValenceMax`); both zeros and NaN; seams; twins, and triangles folded at a seam;
  caches smaller than a fan.
- *Simplifier.* Fans and octahedra whose centre has one to four wedges are every kind of vertex,
  with locks, protection and permissive collapses; all orders of collapses include those in which
  the other half of a seam goes first. Grids end by interpolation, by bisection, and by the last
  pass.
- *Level of detail.* Three clusters in a row are the smallest mesh in which a border is shared
  with a group of another level; errors above, at and below the thresholds, and merge factors
  that leave the error of the level before as it is.
- *gltfpack.* Each family of files is built around one comparison or renumbering of the code and
  crossed with the options that matter to it. The families of images have three images, one or
  two of them encoded or none, and one to three threads; one of the images may be unreadable or
  undecodable.

Each passing run checks deadlock, with a self-loop at the end of a call, except `index_pipeline`
and `decoder_pool`: the first ends where the last call returns, the threads of the second wait
for ever when nothing is to be done. Constants bound only the size of inputs or the number of
calls.

**Fairness.** Only `DecoderPool` needs it. `WF(Receive(w))`, `WF(WorkerDecode(w))` and
`WF(WorkerClose(w))`: an event loop runs the handler of a posted message at some time, and a
message is delivered by the platform. `WF(WorkerReady(w))` and `WF(MainReady)`: the module that
is instantiated is the constant blob in the file, and instantiating it ends. `WF(MainDecode)`:
callbacks of a settled promise run. No fairness is assumed for calls of `useWorkers` or
`decodeGltfBufferAsync`. Under it every promise is settled, however the pool is resized, and a
worker that left the pool closes. If instantiation failed, the code would leave the promises of
that worker unsettled: there is no `onerror` (listed under "hazards"). The loops of the simplifier
are shown to end without fairness: `Terminates` says that every step makes a measure smaller.

**Refinements.** `IndexCodec` and `Stripifier` implement `TriangleStream`; `DecoderPool`
implements `AsyncDecoder`; the flex builder with its tree (`MeshletSearch`) implements
`MeshletBuilder`, in which any live triangle may be taken. `Partitioner` returns what
`PartitionSpec` says (`Partitioned`), and `ClusterLod` uses nothing else of it.

## 4. Finding

`meshopt_encodeIndexSequenceBound` (`src/indexcodec.cpp:642`) counts groups for the difference of
two vertices. The restart index `~0u` of strips acts as vertex -1, and the difference to the last
vertex can have one bit more. For 32 vertices and the sequence `~0u, 29, 0, 31` the bound is 9
bytes, the encoding needs 10, and the encoder returns 0, although README.md:454 recommends this
codec for strips and `src/meshoptimizer.h:302-305` promises that the bound covers any topology.
The run `index_sequence_restart` finds it in the small codec.

## 5. Proofs

Each theorem holds for every value of the constants that satisfies the named assumptions of its
module: all sizes of FIFOs, groups, blocks, buffers and moduli, every mesh, sequence, schedule of
calls and number of workers.

| module | theorem | property |
|---|---|---|
| `IndexCodecProofs` | `TypeCorrect` | `TypeOK` |
| | `DecoderFollows` | `Lockstep` |
| | `NeverRejected` | `EncodedDecodes` |
| | `CutNeverAccepted` | `TruncatedRejected` |
| | `ResetsAreMeant` | `NoFalseReset` |
| | `StaysInBounds` | `InBounds` |
| | `ImplementsTriangleStream` | `StreamSpec` |
| | `BoundIsEnough` | `BoundSuffices` |
| `IndexSequenceProofs` | `TypeCorrect` | `TypeOK` |
| | `StaysInside` | `NoOverrun` |
| | `BoundIsEnough` | `InBounds`, if `InMesh` |
| | `DecodesExactly` | `Exact`, if `SpareBit` |
| `VertexCodecProofs` | `StaysInBounds` | `InBounds` |
| | `WordsComeBack` | `Restore` undoes `Delta` |
| | `GroupsComeBack` | `ReadGroup` undoes `CodedGroup` |
| `StripifierProofs` | `TypeCorrect` | `TypeOK` |
| | `StaysInStep` | `InStep` |
| | `ImplementsStream` | `StreamSpec` |
| | `AllComeBack` | `Complete` |
| `MeshletBuilderProofs` | `TypeCorrect` | `TypeOK` |
| | `BookkeepingCorrect` | `Bookkeeping` |
| | `CompleteCorrect` | `Complete` |
| | `NearestFound` | `FindsNearest` of `MeshletSearch` |
| | `SearchImplementsBuilder` | `BuilderSpec` of `MeshletSearch` |
| `MeshletCodecProofs` | `OptimizerKeepsTriangles` | `SameTriangles` |
| | `MeshletInBounds` | `InBounds` |
| | `MeshletRoundTrip` | `RoundTrip` |
| `DecoderPoolProofs` | `TypeCorrect` | `TypeOK` |
| | `AccountingExact` | `Accounted` |
| | `ImplementsAsyncDecoder` | `ServiceSpec` |

**Assumptions.** They are what the code asserts or relies on.

- `IndexCodec`: entry 0 of the table is the pair of two zeros and no entry refers to an explicit
  index (`src/indexcodec.cpp:330`, `:336`); the tail is as long as the largest triangle
  (`TailSize >= 1 + 3 * MaxGroups`, 16 = 1 + 3 * 5); vertices are below `Fill`.
- `IndexSequence`: `SpareBit` says that the zigzag difference of two indices leaves its top bit
  free, which is where `v << 1` (`src/indexcodec.cpp:617`) puts the number of the baseline.
  `InMesh` says that every index is below the number of vertices; strips with restart indices
  are the case in which it fails, and the finding of section 4 shows that the bound fails with it.
  Type correctness and memory safety (`StaysInside`) need neither.
- `VertexCodec`: the group is a multiple of 8 bytes and `DecodeLimit` is the most that one group
  takes (`src/vertexcodec.cpp:137-139`); the tail is at least as long; blocks are whole groups; a
  vertex has a multiple of 4 bytes and a group of vertices fits into a block.
- `MeshletBuilder`: a mesh has triangles, meshlets have room for three vertices, and
  `1 <= min_triangles <= max_triangles`, as the builders assert (`src/clusterizer.cpp:1043-1044`,
  `:1237-1238`, `:1274-1275`); the seeds added by one search fit into the list of seeds.
- `MeshletSearch`: `leaf_size` and the depth are numbers, and points have integer coordinates.
- `MeshletOptimizer`, `MeshletCodec`: the cache has slots and the clock, a byte in the code, more
  than twice `cache_cutoff` values; a data byte has 1 to 8 bits and a reference four such bytes; a
  meshlet has no more vertices than a byte counts, as its local indices are bytes
  (`src/meshletcodec.cpp:916`), and its vertices are indices.
- `Stripifier`: the restart index is not a vertex. `DecoderPool`: counts and sizes are numbers.

**Index codec.** None of the properties is inductive. `Lockstep` speaks of the encoder's past,
which the state of the code does not keep: the auxiliary variable `history` records the encoder's
state before each triangle and what it wrote. `IInv == TypeOK /\ EncoderInv /\ DecoderInv` is
inductive:

- `EncoderInv` says of each recorded triangle that its code and tokens are what the encoding rules
  give in the recorded state (`Coding`), that they stand at the recorded place of the stream, and
  that the next record starts from the state after it.
- `DecoderInv` says that the decoder is at the record of the next triangle: same position, and,
  if the stream is whole, a state that agrees with the recorded one (`Agree`) and output equal to
  the input up to rotation.

`Agree` is weaker than equality, and has to be: after a reset the decoder keeps old vertices where
the encoder has none, and the oldest slot may differ since the decoder writes it without moving
on (`PushIf`). It is strong enough because the encoder never refers to the oldest slot. The heart
of the proof are lemmas, one per path, that decoding the code of a triangle from an agreeing
state gives the triangle back, agreeing states again and the same number of tokens, and that the
number of tokens does not depend on the state, which is why a cut stream is read in step as well.
`NoFalseReset` follows from the rotation: the decoder takes the pair of two zeros as a reset, and
two zeros after an explicit first corner would mean that the second corner is `next`, in which
case the triangle would have been rotated to start there. For `BoundSuffices`, `BoundInv` counts:
after n triangles at most n times the bytes of the largest triangle are written, because the
zigzag difference of two vertices of `VertexBits` bits has at most one bit more, and so at most as
many groups as the bound allows (`SetLemmas`).

**Index sequence codec.** `BaseInv` says how many bytes each side has counted: those of the
integers passed, as a sum over the stream. `MatchInv` replaces the two baselines by a function of
the sequence so far (`BaselineAt`: the last index that was encoded against it), so that the
statement about one integer does not depend on the order in which the others are read;
`BoundInv` counts as above.

**Vertex codec.** One check of the encoder covers a header, a group or a literal, and the groups
of the vector decoder load up to `DecodeLimit` bytes whatever their width. `SafeInv` follows the
encoder block by block: after d blocks at most `1 + d * BlockMost` bytes are written, after k
channels of a block at most `k * ChannelMost` more (`Filled`). `BlockMost` is what the bound
counts for a block. `ChannelMost` is a header and a whole block, which no encoding of a channel
exceeds: zeros take nothing, a literal is the channel itself, and the best width of each group is
at most the plain one (`CostFacts`, `CodedFacts`). A refused encoding therefore had a buffer smaller
than the bound, whose tail pays for the bytes that the check asks for in advance. A decoder takes
groups only while `DecodeLimit` bytes are left, so that its loads end inside the stream, cut or
not.

`WordsComeBack` takes the bytes of a channel apart and puts them together: zigzag numbers are undone
modulo 2^8 or 2^16, and a rotation of bits, compared with the word before, modulo 2 at each bit.
`GroupsComeBack` finds each value in its field of a packed byte; a field that holds the sentinel
stands for the next of the whole values, and as many fields before it hold the sentinel as whole
values precede it (`EscapesSame`). An all-zero group has no bytes and is the one width that the encoder
may choose only for zeros (`GroupHolds`).

**Stripifier.** `StripInv` says of the strip written so far that its last edge is the one the
next round starts from, in the order that the parity asks for (`Stands`), that an announced
triangle is in the buffer and shares that edge (`Leads`), and that unstripping the strip gives the
triangles taken so far, each with its winding and in order (`Matched(Decoded(strip), ...)`).
Restart indices, swaps and connecting triangles are three lemmas on appending to a strip.
`Complete` follows with `Conserved`: every triangle occurs in those taken and in the buffer
together as often as in the part of the input that was read.

**Meshlet building.** The theorems hold for every mesh, repeated corners and triangles included, for
the three builders and for any choice that scores, normals and areas may make, since the model
takes any triangle that the code could prefer. `IInv` is a conjunction of named parts:

- `Output` and `Current` say that each meshlet is readable at its place in the output (`Reads`),
  that meshlets lie one after another (`Closed`), that `used[]` is the inverse of the vertices of
  the current one (`Places`), and that no triangle was appended twice.
- `Lists` says that list v has triangle t as often as v is a corner of t while t is live, and not at
  all afterwards. The proof counts with `Times`; one removal takes one occurrence, so the three
  removals of a triangle take all of them. A neighbour of a meshlet is therefore live and shares a
  vertex, which is why it adds two at most.
- `Spatial` says that the ranges on the stack cover the rest of the order without gaps (`Tiled`),
  that the order along the first axis stays a permutation when a range is partitioned (`IsOrder`),
  and that the triangles from a boundary to the next fit into one meshlet (`Boundaries`).
- `Bounded` is the argument for the number of meshlets, which no invariant about single meshlets
  gives. Scan and flex close a meshlet only if it has `Enough` triangles or no room for three more
  vertices; since a meshlet has at most three times as many vertices as triangles, both pay
  for the same share of the bound, and `Paid` adds the shares up. The packing loop of the
  spatial builder closes meshlets at boundaries that pay nothing. `Aligned` says instead that the
  current meshlet began at the last boundary passed and that closed and pending meshlets together are
  at most the bound; it is lost only if the boundaries are more than the bound, and then the
  code ignores them and `Paid` holds.

`Aligned` needs that a range which was accepted never fills its meshlet before the next boundary:
what `bvhCountVertices` counts for a range must be at least what `appendMeshlet` adds for its
triangles. Both count a corner that repeats a vertex of its own triangle again. A count of the different
vertices is smaller, and with it a meshlet may close before its boundary, the boundary closes
another one, and the bound fails; the mesh `Repeats` shows that on an instance.

**Search tree.** A node of the tree says nothing of the points below it but how many nodes they
take, so `TreeInv` (`IsTree`) names a labelling U of the nodes by sets of points: a leaf has its points,
a branch those of its two sides, with the points on the left no greater than the split and those on
the right no smaller (`NodeFits`). Below a node that is switched off there is no live point.

- The swaps of `kdtreePartition` permute the range and leave the smaller points before `m`, and so
  a range that is split gives two labelled trees, which stand one after the other
  (`BuildTree`, by induction over the depth that is left).
- A search from a node, by induction over the nodes behind it, returns a closest live point of those
  below it and of what was known before (`Closest`), switches off only nodes that the labelling
  allows, and leaves the rest of the tree alone. The far side is left out only if each of its points
  is farther than the split plane, and that farther than the point already found.
- A node stays switched off from one search to the next. That is right because the live triangles
  only become fewer (`LiveShrinks`), which is a fact about each action of the builder.

`SearchInv == IInv /\ TreeInv /\ FindsNearest` is inductive. The refinement follows: a search that
finds nothing shows that nothing is live, and then ending the call is what the builder does too.

**Meshlet optimizer and codec.** The theorems hold for every list of triangles, level and call of the
decoders, on whole and cut streams, with each width of the output. `OptimizerInv` is the type of a
meshlet in the making, and `SameInv` says what its triangles mean:

- While corners are extracted, the triangles read so far mean what the list says, position by
  position, and no vertex has two numbers. A slot of the cache may hold another vertex with the same
  key; what matters (`Known`) is that an empty slot means that no vertex with that key was extracted.
- While triangles are ordered, `Arranged` names the permutation by which they came from the list and
  `Waiting` says that it is increasing on those that wait. Moving the chosen one composes the
  permutation with a cycle. That counts are kept and that the rest is a subsequence of the list
  follows from the permutation, and neither would be inductive alone.
- The valences, ages and scores that choose a triangle matter only in that some triangle is chosen:
  the candidates are never empty, whatever the clock has wrapped to.
- `Renumber` is a bijection because the first uses list each vertex of the meshlet once.

`BoundsInv` counts the bytes of each part. The encoder writes at most three extra bytes a triangle
and 16 a group, which is the bound. For the decoders the layout of the stream is what matters and
not its contents: a stream at least as long as codes, control bytes and gap together, whatever
cut it has suffered, has its data end so far before its own end that a group may read its 16 bytes
from any position up to there; each group checks that position before it reads. The writes stay
inside the output since the groups written as a whole are those that fit.

`RoundTrip` needs to know what the encoder did at each triangle, which its state does not keep: the
auxiliary variable `history` records how the triangle was turned, `next`, and how many extra vertices
came before. Two invariants relate it to the code's state:

- `HistoryInv`: each code with the earlier triangle it names and the corners it adds makes the
  recorded triangle (`Coded`), and the FIFO of the encoder holds the edges of the last triangles
  (`Recalled`), which is why an entry that is found there can be named as edge c-b or a-c of one of
  the last three triangles.
- `Back`: a decoder that has passed k triangles is where the record of triangle k + 1 says, in the
  data as well as in `next` and the last three triangles, and what it has written is what was
  encoded. For references it knows where the data of the next group begins and the last reference.

The portable decoder then assembles what `Coded` says. The decoder for vector units takes two codes
at once through a table of sources; the proof shows for every pair of codes what each slot stands for
(`FirstGives`, `SecondGives`), where the second triangle may use an edge of the first one, and that an
odd last code, whose pair is a zero, adds nothing to the data that is counted. Its prefix sums of
references are those of the portable decoder because addition is modulo 2^32. That all data is used
at the end is the last record: the extra vertices after the last triangle end where the gap begins.

**Decoder pool.** `IInv` says where a request can be: in the inbox of one worker, in its outbox, in
the line of those waiting for the main thread, or settled; and nowhere twice (`WorkerInv`,
`SharedInv`). The count of a worker's pending work is the sum over the requests in its two queues
(`Load`). Resizing keeps requests where they are: a retired worker is told to close after everything
it was sent before. Every step is then a `Call` or a `Settle` of `AsyncDecoder`, or changes
nothing that it sees.

**Only model-checked.** `Lossless` as a whole and the type invariant of the vertex codec; the index pipeline, the simplifier, levels of detail
and gltfpack; liveness (`EverySettles`, `RetiredClose`) and `Terminates`, which are out of the
prover's reach as is `ENABLED`. What a recursive definition computes for every input is reached only
through sets: `SetLemmas` states induction for the set of numbers that satisfy a formula, since the
library's theorems with a predicate as a parameter cannot be instantiated. No module declares a
`RECURSIVE` operator; recursion is written as recursive functions.

## 6. Plan

Theorems to come, in this order: `Partitioner` (chains hold every cluster once), `SimplifierApi` (`GridFits`), and
`Lossless` of the vertex codec. Words and groups are proved to come back; what is left are the control
bytes, the group headers and an invariant that relates the bytes written so far to the decoder's position.

## 7. Not modelled

- Floating point kernels (vertex filters, half floats, quadrics, cones, tangents, remeshing,
  opacity maps, rasterization): their correctness is an error bound over reals.
- What the partly modelled components leave out: estimates of the vertex codec, scores and bounds
  of meshlets, quadric errors and solved positions of the simplifier, attribute weights and bounds
  in space of the levels of detail; of gltfpack the contents of streams and accessors,
  simplification, tangents, point clouds, cameras, extras, the list of extensions, instance
  colours, cubic splines, temporary files and disk errors.
- `meshopt_Allocator`: how many blocks a call takes follows from its arguments alone.
- Parsing, files, vendored code, the demo's drivers and tools; JavaScript wrappers without state.
- A worker whose module cannot be instantiated, and the heap of the synchronous decoders.

## 8. Running

In this directory, `tlc -config MCIndexCodec.cfg MCIndexCodec` checks a model and
`tlapm IndexCodecProofs.tla` checks the proofs of a module whose name ends with `Proofs` (or
`SetLemmas`); the longest, `MeshletCodecProofs`, takes a quarter of an hour.
