------------------------------ MODULE GltfPack ------------------------------
(***************************************************************************)
(* gltfpack's `process` (src/gltf/gltfpack.cpp): a glTF file is read, its  *)
(* animations, materials, meshes and nodes are analysed and optimized one  *)
(* pass after the other, and the output is written array by array, each    *)
(* reference by the position that its target has or will have.             *)
(***************************************************************************)
EXTENDS GltfScene

CONSTANTS
  Inputs   (* pairs of a file and the settings it is packed with *)

VARIABLES
  source,       (* the file as it was read                           *)
  settings,     (* the options                                       *)
  phase,        (* the pass that comes next                          *)
  data,         (* the file; only its materials are written to       *)
  meshes,
  animations,
  info,         (* for each node, what has been found out (NodeInfo) *)
  materials,    (* MaterialInfo                                      *)
  textures,     (* TextureInfo                                       *)
  images,       (* for each image, what it is used for (TextureKind) *)
  encoded,      (* for each image, its encoded contents              *)
  workers,      (* the threads that encode: image, or Idle, or Left  *)
  next_image,   (* the counter that they share                       *)
  next,         (* the mesh that is written next                     *)
  cache,        (* the geometry written for shared meshes            *)
  node_offset, mesh_offset,
  out           (* the arrays of the output                          *)

inputs == <<source, settings>>
analysis == <<data, meshes, animations, info, materials, textures, images>>
encoding == <<encoded, workers, next_image>>
writing == <<encoding, next, cache, node_offset, mesh_offset, out>>
packVars == <<inputs, phase, analysis, writing>>

\* A thread without an image, and one that has found no more.
Idle == 0
Left == -1

Init ==
  /\ \E in \in Inputs : source = in.data /\ settings = in.settings
  /\ phase = "parse"
  /\ data = source /\ meshes = <<>> /\ animations = <<>>
  /\ info = [n \in DOMAIN source.nodes |-> NodeDefaults]
  /\ materials = [m \in DOMAIN source.materials |-> MaterialDefaults]
  /\ textures = <<>>
  /\ images = [i \in DOMAIN source.images |-> "generic"]
  /\ encoded = [i \in DOMAIN source.images |-> NotEncoded]
  /\ workers = [w \in 1..Max({1, settings.texture_jobs}) |-> Idle]
  /\ next_image = 0
  /\ next = 1 /\ cache = {} /\ node_offset = 0 /\ mesh_offset = 0
  /\ out = [images |-> <<>>, files |-> <<>>, textures |-> <<>>, materials |-> <<>>, meshes |-> <<>>, nodes |-> <<>>,
            roots |-> [s \in DOMAIN source.scenes |-> <<>>], skins |-> <<>>, animations |-> <<>>]

Pass(now, then) == phase = now /\ phase' = then /\ UNCHANGED inputs

-----------------------------------------------------------------------------
(* Analysis *)

\* parseGltf
Parse ==
  /\ Pass("parse", "animations")
  /\ meshes' = ParseMeshNodes(data, ParseMeshes(data))
  /\ UNCHANGED <<data, animations, info, materials, textures, images, writing>>

ProcessAnimations ==
  /\ Pass("animations", "mark")
  /\ animations' = [a \in DOMAIN data.animations |-> ProcessAnimation(data.animations[a], settings)]
  /\ UNCHANGED <<data, meshes, info, materials, textures, images, writing>>

MarkNodes ==
  /\ Pass("mark", "dedup")
  /\ info' = MarkAnimated(data, MarkScenes(data, info), animations)
  /\ UNCHANGED <<data, meshes, animations, materials, textures, images, writing>>

Deduplicate ==
  /\ Pass("dedup", "detach")
  /\ LET merged == MergeMeshMaterials(data, meshes, settings)
     IN  meshes' = IF settings.mesh_dedup THEN DedupMeshes(merged, Len(data.nodes)) ELSE merged
  /\ UNCHANGED <<data, animations, info, materials, textures, images, writing>>

Detach ==
  /\ Pass("detach", "materials")
  /\ meshes' = [m \in DOMAIN meshes |-> DetachMesh(data, info, settings, meshes[m])]
  /\ UNCHANGED <<data, animations, info, materials, textures, images, writing>>

\* Materials drawn with translucent vertex colours (asked only where it matters); what materials need; equal textures;
\* blending that shows nothing.
AnalyzeAllMaterials ==
  /\ Pass("materials", "filter")
  /\ LET Asked(m) == (m.material # 0 /\ data.materials[m.material].blend) \/ m.variants # <<>>
         alpha == UNION {MaterialsOf(m) : m \in {n \in ToSet(meshes) : Asked(n) /\ HasVertexAlpha(n)}}
         marked == [i \in DOMAIN materials |-> [materials[i] EXCEPT !.mesh_alpha = i \in alpha]]
     IN  /\ materials' = AnalyzeMaterials(data, marked)
         /\ textures' = MergeTextures(data, AnalyzeTextures(data))
         /\ images' = AnalyzeImages(data)
         /\ data' = [data EXCEPT !.materials = OptimizeMaterials(data, marked)]
  /\ UNCHANGED <<meshes, animations, info, writing>>

FilterMeshStreams ==
  /\ Pass("filter", "merge")
  /\ meshes' = IF settings.keep_attributes THEN meshes
               ELSE [m \in DOMAIN meshes |-> FilterStreams(meshes[m], RequirementsOf(materials, meshes[m]))]
  /\ UNCHANGED <<data, animations, info, materials, textures, images, writing>>

MergeAllMeshes ==
  /\ Pass("merge", "needed")
  /\ meshes' = FilterEmptyMeshes(MergeMeshes(data, settings, meshes))
  /\ UNCHANGED <<data, animations, info, materials, textures, images, writing>>

MarkNeeded ==
  /\ Pass("needed", "process")
  /\ info' = MarkNeededNodes(data, info, meshes, animations, settings)
  /\ materials' = MarkNeededMaterials(data, materials, meshes, settings)
  /\ UNCHANGED <<data, meshes, animations, textures, images, writing>>

ProcessMeshes ==
  /\ Pass("process", "basis")
  /\ meshes' = FilterEmptyMeshes([m \in DOMAIN meshes |-> ProcessMesh(meshes[m])])
  /\ UNCHANGED <<data, animations, info, materials, textures, images, writing>>

-----------------------------------------------------------------------------
(* Encoding of images *)

EncodeBasis ==
  /\ Pass("basis", "encode")
  /\ encoded' = EncodeImagesBasis(data, images, settings, encoded)
  /\ UNCHANGED <<analysis, workers, next_image, next, cache, node_offset, mesh_offset, out>>

\* encodeImagesWebP: the main thread and texture_jobs - 1 others take images from a shared counter ...
TakeImage(w) ==
  /\ phase = "encode" /\ data.images # <<>> /\ Requested(settings, "webp")
  /\ workers[w] = Idle
  /\ next_image' = next_image + 1
  /\ workers' = [workers EXCEPT ![w] = IF next_image' <= Len(data.images) THEN next_image' ELSE Left]
  /\ UNCHANGED <<inputs, phase, analysis, encoded, next, cache, node_offset, mesh_offset, out>>

\* A mistake: a thread encodes the image that the counter stands at, not the one it has taken.
EncodeImageCounted(w) ==
  /\ phase = "encode" /\ workers[w] \notin {Idle, Left}
  /\ encoded' = EncodeImageWebP(data, images, settings, encoded, Min({next_image, Len(data.images)}))
  /\ workers' = [workers EXCEPT ![w] = Idle]
  /\ UNCHANGED <<inputs, phase, analysis, next_image, next, cache, node_offset, mesh_offset, out>>

\* ... and store the result at the image's own place.
EncodeImage(w) ==
  /\ phase = "encode" /\ workers[w] \notin {Idle, Left}
  /\ encoded' = EncodeImageWebP(data, images, settings, encoded, workers[w])
  /\ workers' = [workers EXCEPT ![w] = Idle]
  /\ UNCHANGED <<inputs, phase, analysis, next_image, next, cache, node_offset, mesh_offset, out>>

\* A mistake: the main thread goes on when it finds no more images.
JoinMain ==
  /\ data.images # <<>> /\ Requested(settings, "webp") => workers[1] = Left
  /\ Pass("encode", "images")
  /\ UNCHANGED <<analysis, writing>>

\* The main thread goes on when all have left, or at once if nothing is to be encoded.
Join ==
  /\ data.images # <<>> /\ Requested(settings, "webp") => \A w \in DOMAIN workers : workers[w] = Left
  /\ Pass("encode", "images")
  /\ UNCHANGED <<analysis, writing>>

-----------------------------------------------------------------------------
(* Writing *)

\* All images of the file are written, in their order; the encoded ones are released.
WriteImages ==
  /\ Pass("images", "textures")
  /\ LET written == [i \in DOMAIN data.images |-> WriteImage(data, settings, encoded[i], i)]
     IN  out' = [out EXCEPT !.images = written, !.files = ImageFiles(written)]
  /\ encoded' = [i \in DOMAIN encoded |-> NotEncoded]
  /\ UNCHANGED <<analysis, workers, next_image, next, cache, node_offset, mesh_offset>>

WriteTextures ==
  /\ Pass("textures", "write_materials")
  /\ LET kept == InOrder({t \in DOMAIN textures : textures[t].keep}, Len(textures))
     IN  out' = [out EXCEPT !.textures = [k \in DOMAIN kept |-> WriteTexture(data.textures[kept[k]], images, settings)]]
  /\ UNCHANGED <<analysis, encoding, next, cache, node_offset, mesh_offset>>

TexcoordQuantization(used) == IF used = {} THEN {} ELSE QuantizationTexture(meshes, CHOOSE m \in used : TRUE)

\* Kept materials are numbered as they are written, before any mesh refers to them.
WriteMaterials ==
  /\ Pass("write_materials", "meshes")
  /\ LET kept == InOrder({m \in DOMAIN materials : materials[m].keep}, Len(materials))
         qt(m) == IF settings.quantize_texcoords THEN TexcoordQuantization({m}) ELSE {}
     IN  /\ out' = [out EXCEPT !.materials = [k \in DOMAIN kept |->
                      WriteMaterial(data, data.materials[kept[k]], textures, qt(kept[k]))]]
         /\ materials' = [m \in DOMAIN materials |->
                            [materials[m] EXCEPT !.remap = Cardinality({k \in 1..(m - 1) : materials[k].keep})]]
  /\ UNCHANGED <<data, meshes, animations, info, textures, images, encoding, next, cache, node_offset, mesh_offset>>

\* A mistake: a node's mesh is attached directly although its positions are quantized.
AttachesAlways(n) == ~info[n].has_mesh

\* A node can hold the mesh itself if it holds no other and positions need no transform.
AttachesDirectly(n) == ~info[n].has_mesh /\ ~Scaled(settings)

\* The mesh nodes that are written for a mesh: one for each of its nodes that does not hold it, or one for all of its
\* instances, or one in world space.
MeshNodes(mesh) ==
  LET apart == SelectSeq(mesh.nodes, LAMBDA n : ~AttachesDirectly(n))
      attached == [k \in DOMAIN apart |-> WriteMeshNode(mesh_offset, mesh.skin, data.nodes[apart[k]].weights, settings)]
      instanced == <<WriteMeshNodeInstanced(mesh_offset, mesh.instances, settings)>>
      world == <<WriteMeshNode(mesh_offset, mesh.skin, 0, settings)>>
  IN  attached \o (IF mesh.instances # <<>> THEN instanced ELSE <<>>)
               \o (IF mesh.nodes = <<>> /\ mesh.instances = <<>> THEN world ELSE <<>>)

\* What the nodes of a mesh remember of it, and the roots of the scene that its other node is one of.
AttachMesh(mesh) ==
  LET apart == SelectSeq(mesh.nodes, LAMBDA n : ~AttachesDirectly(n))
  IN  [n \in DOMAIN info |->
         IF n \notin ToSet(mesh.nodes) THEN info[n]
         ELSE IF AttachesDirectly(n)
           THEN [info[n] EXCEPT !.has_mesh = TRUE, !.mesh_index = mesh_offset, !.mesh_skin = mesh.skin]
           ELSE [info[n] EXCEPT !.mesh_nodes = Append(@, node_offset + SelectInSeq(apart, LAMBDA m : m = n) - 1)]]

\* One output mesh with all primitives that it takes, and its nodes.
WriteMesh ==
  /\ phase = "meshes" /\ next <= Len(meshes)
  /\ LET mesh == meshes[next]
         last == LastTogether(meshes, next)
         qt(prim) == TexcoordQuantization(MaterialsOf(prim))
         write(st, k) == [prims |-> Append(st.prims, WritePrimitive(st.cache, meshes[k], qt(meshes[k]), materials, settings)),
                          cache |-> CacheAfter(st.cache, meshes[k], qt(meshes[k]), settings)]
         written == FoldLeft(write, [prims |-> <<>>, cache |-> cache], [k \in 1..(last - next + 1) |-> next + k - 1])
         added == MeshNodes(mesh)
     IN  /\ cache' = written.cache
         /\ info' = AttachMesh(mesh)
         /\ out' = [out EXCEPT
              !.meshes = Append(@, [prims |-> written.prims, weights |-> mesh.target_weights]),
              !.nodes = @ \o added,
              !.roots = [s \in DOMAIN @ |->
                IF s = mesh.scene + 1 /\ (mesh.instances # <<>> \/ mesh.nodes = <<>>)
                  THEN Append(@[s], node_offset + Len(added) - 1) ELSE @[s]]]
         /\ node_offset' = node_offset + Len(added)
         /\ mesh_offset' = mesh_offset + 1
         /\ next' = last + 1
  /\ UNCHANGED <<inputs, phase, data, meshes, animations, materials, textures, images, encoding>>

NumberNodes ==
  /\ next > Len(meshes)
  /\ Pass("meshes", "nodes")
  /\ info' = RemapNodes(data, info, node_offset)
  /\ node_offset' = node_offset + Cardinality({n \in DOMAIN info : info'[n].keep})
  /\ UNCHANGED <<data, meshes, animations, materials, textures, images, encoding, next, cache, mesh_offset, out>>

\* The kept nodes, and as roots of each scene those that are kept.
WriteNodes ==
  /\ Pass("nodes", "skins")
  /\ LET kept == InOrder({n \in DOMAIN info : info[n].keep}, Len(info))
         roots(s) == SelectSeq(data.scenes[s], LAMBDA n : info[n].keep)
     IN  out' = [out EXCEPT
           !.nodes = @ \o [k \in DOMAIN kept |-> WriteNode(data, info, kept[k])],
           !.roots = [s \in DOMAIN @ |-> @[s] \o [r \in DOMAIN roots(s) |-> info[roots(s)[r]].remap]]]
  /\ UNCHANGED <<analysis, encoding, next, cache, node_offset, mesh_offset>>

WriteSkins ==
  /\ Pass("skins", "write_animations")
  /\ out' = [out EXCEPT !.skins = [s \in DOMAIN data.skins |-> WriteSkin(data, info, s, settings)]]
  /\ UNCHANGED <<analysis, encoding, next, cache, node_offset, mesh_offset>>

WriteAnimations ==
  /\ Pass("write_animations", "done")
  /\ out' = [out EXCEPT !.animations =
       FlattenSeq([a \in DOMAIN animations |-> WriteAnimation(info, animations[a], settings)])]
  /\ UNCHANGED <<analysis, encoding, next, cache, node_offset, mesh_offset>>

Packed == phase = "done" /\ UNCHANGED packVars

Next ==
  \/ Parse \/ ProcessAnimations \/ MarkNodes \/ Deduplicate \/ Detach \/ AnalyzeAllMaterials
  \/ FilterMeshStreams \/ MergeAllMeshes \/ MarkNeeded \/ ProcessMeshes
  \/ EncodeBasis \/ (\E w \in DOMAIN workers : TakeImage(w) \/ EncodeImage(w)) \/ Join
  \/ WriteImages \/ WriteTextures \/ WriteMaterials \/ WriteMesh \/ NumberNodes \/ WriteNodes \/ WriteSkins \/ WriteAnimations
  \/ Packed

Spec == Init /\ [][Next]_packVars
=============================================================================
