----------------------------- MODULE GltfMeshes -----------------------------
(***************************************************************************)
(* The list of meshes gltfpack works on (one for each primitive of the     *)
(* file), and how it shares, merges and trims them (src/gltf/mesh.cpp).    *)
(*                                                                         *)
(* A mesh keeps the nodes it is attached to, or instances, or neither: it  *)
(* is then in the space of the world, in the scene it names.  Its vertex   *)
(* and index data is a sequence of pieces: the geometry of a primitive of  *)
(* the file and the frame it has been transformed by.  A frame is the      *)
(* sequence of the motions on the way from the root.  A mesh whose data    *)
(* has been cleared has no streams.                                        *)
(***************************************************************************)
EXTENDS GltfMaterials

CONSTANTS
  White,        (* geometries whose vertex colours are all white          *)
  Translucent,  (* geometries with a vertex colour that is translucent    *)
  Degenerate    (* geometries with nothing but triangles without area     *)

\* The elements of a set of numbers up to n, in order.
InOrder(set, n) == SelectSeq([i \in 1..n |-> i], LAMBDA i : i \in set)

Cleared(mesh) == [mesh EXCEPT !.streams = {}, !.pieces = <<>>, !.nodes = <<>>, !.instances = <<>>]

\* hashMesh: the streams, the data and the kind of primitive.  Different data has different hashes: collisions of the
\* 128 bits are left out.
HashMesh(mesh) == <<mesh.streams, mesh.pieces, mesh.type>>

CompareMeshTargets(lhs, rhs) == lhs.targets = rhs.targets /\ lhs.target_weights = rhs.target_weights
CompareMeshVariants(lhs, rhs) == lhs.variants = rhs.variants
CompareMeshNodes(lhs, rhs) == lhs.nodes = rhs.nodes

-----------------------------------------------------------------------------
(* Equal meshes *)

CanDedupMesh(mesh) ==
  /\ mesh.streams # {}
  /\ mesh.nodes # <<>> \/ mesh.instances # <<>>
  /\ mesh.target_weights = 0 /\ mesh.variants = <<>>

\* A mistake: the skin is not compared.
SameUseNoSkin(target, mesh) == mesh.scene = target.scene /\ mesh.material = target.material

\* A mistake: the material is not compared.
SameUseNoMaterial(target, mesh) == mesh.scene = target.scene /\ mesh.skin = target.skin

SameUse(target, mesh) == mesh.scene = target.scene /\ mesh.material = target.material /\ mesh.skin = target.skin

\* The pass over the meshes at i: later equal meshes give their nodes and instances to mesh i, and those that differ in
\* how they are drawn are only marked, as mesh i is.
DedupInto(meshes, i) ==
  LET target == meshes[i]
      equal == {j \in (i + 1)..Len(meshes) : meshes[j].hash = target.hash /\ CanDedupMesh(meshes[j])}
      shared == {j \in equal : SameUse(target, meshes[j])}
      given == InOrder(shared, Len(meshes))
  IN  IF ~CanDedupMesh(target) THEN meshes
      ELSE [j \in DOMAIN meshes |->
              CASE j = i -> [target EXCEPT
                               !.nodes = @ \o FlattenSeq([k \in DOMAIN given |-> meshes[given[k]].nodes]),
                               !.instances = @ \o FlattenSeq([k \in DOMAIN given |-> meshes[given[k]].instances]),
                               !.duplicate = @ \/ equal # shared]
                [] j \in shared -> Cleared(meshes[j])
                [] j \in equal \ shared -> [meshes[j] EXCEPT !.duplicate = TRUE]
                [] OTHER -> meshes[j]]

\* dedupMeshes: at the end the nodes of each mesh are sorted, each once.
DedupMeshes(meshes, nodes) ==
  LET hashed == [m \in DOMAIN meshes |-> [meshes[m] EXCEPT !.hash = HashMesh(meshes[m])]]
      deduped == FoldLeft(DedupInto, hashed, [i \in DOMAIN meshes |-> i])
  IN  [m \in DOMAIN meshes |-> [deduped[m] EXCEPT !.nodes = InOrder(ToSet(@), nodes)]]

-----------------------------------------------------------------------------
(* Moving and merging meshes *)

\* transformMesh, with the frame of the node: positions, normals, tangents and the winding.
TransformMesh(mesh, frame) == [p \in DOMAIN mesh.pieces |-> [mesh.pieces[p] EXCEPT !.at = frame \o @]]

\* mergeMeshInstances: one copy of the data for each node, and no nodes.
MergeMeshInstances(mesh, frameOf) ==
  [mesh EXCEPT !.pieces = FlattenSeq([n \in DOMAIN mesh.nodes |-> TransformMesh(mesh, frameOf[mesh.nodes[n]])]),
               !.nodes = <<>>]

\* A mistake: names that are to be kept are not looked at.
CanMergeMeshNodesNamed(data, settings, lhs, rhs) ==
  \/ lhs = rhs
  \/ /\ data.nodes[lhs].parent = data.nodes[rhs].parent
     /\ \A n \in {lhs, rhs} : ~data.nodes[n].moved /\ data.nodes[n].weights = 0

\* A mistake: only the transform of one of the nodes is looked at.
CanMergeMeshNodesOne(data, settings, lhs, rhs) ==
  \/ lhs = rhs
  \/ /\ data.nodes[lhs].parent = data.nodes[rhs].parent
     /\ ~data.nodes[rhs].moved /\ data.nodes[rhs].weights = 0
     /\ \A n \in {lhs, rhs} : ~(settings.keep_nodes /\ data.nodes[n].named)

\* canMergeMeshNodes: the same node, or two nodes with one parent and no transforms (or names to keep).
CanMergeMeshNodes(data, settings, lhs, rhs) ==
  \/ lhs = rhs
  \/ /\ data.nodes[lhs].parent = data.nodes[rhs].parent
     /\ \A n \in {lhs, rhs} : /\ ~data.nodes[n].moved /\ data.nodes[n].weights = 0
                              /\ ~(settings.keep_nodes /\ data.nodes[n].named)

CanMergeMeshes(data, settings, lhs, rhs) ==
  /\ lhs.scene = rhs.scene
  /\ Len(lhs.nodes) = Len(rhs.nodes)
  /\ \A n \in DOMAIN lhs.nodes : CanMergeMeshNodes(data, settings, lhs.nodes[n], rhs.nodes[n])
  /\ lhs.instances = rhs.instances
  /\ lhs.material = rhs.material
  /\ lhs.skin = rhs.skin
  /\ lhs.type = rhs.type
  /\ CompareMeshTargets(lhs, rhs)
  /\ CompareMeshVariants(lhs, rhs)
  /\ lhs.streams = rhs.streams

\* One round of mergeMeshes: the meshes after i that may be merged into mesh i are, in order.  What they are compared by
\* does not change as the mesh grows, so that they are those that were counted before.
MergeInto(data, settings, meshes, i) ==
  LET target == meshes[i]
      merged == {j \in (i + 1)..Len(meshes) :
                   meshes[j].streams # {} /\ CanMergeMeshes(data, settings, target, meshes[j])}
      given == InOrder(merged, Len(meshes))
  IN  IF target.streams = {} THEN meshes
      ELSE [j \in DOMAIN meshes |->
              CASE j = i -> [target EXCEPT !.pieces = @ \o FlattenSeq([k \in DOMAIN given |-> meshes[given[k]].pieces])]
                [] j \in merged -> Cleared(meshes[j])
                [] OTHER -> meshes[j]]

MergeMeshes(data, settings, meshes) ==
  FoldLeft(LAMBDA ms, i : MergeInto(data, settings, ms, i), meshes, [i \in DOMAIN meshes |-> i])

FilterEmptyMeshes(meshes) == SelectSeq(meshes, LAMBDA m : m.streams # {} /\ m.pieces # <<>>)

-----------------------------------------------------------------------------
(* Streams *)

\* Sets of texture coordinates, by their index.
TexcoordIndex == [uv0 |-> 0, uv1 |-> 1]

\* A mistake: only the mesh's own material is asked.
RequirementsOfMain(materials, mesh) ==
  LET main == IF mesh.material = 0 THEN MaterialDefaults ELSE materials[mesh.material]
  IN  [needs_tangents |-> main.needs_tangents, texture_sets |-> main.texture_sets, unlit |-> main.unlit]

\* What all materials of a mesh ask for: any of them for tangents and coordinates, all of them to leave out normals.
RequirementsOf(materials, mesh) ==
  LET main == IF mesh.material = 0 THEN MaterialDefaults ELSE materials[mesh.material]
      variants == {materials[v.material] : v \in ToSet(mesh.variants)}
  IN  [needs_tangents |-> main.needs_tangents \/ \E v \in variants : v.needs_tangents,
       texture_sets |-> main.texture_sets \cup UNION {v.texture_sets : v \in variants},
       unlit |-> main.unlit /\ \A v \in variants : v.unlit]

\* filterStreams: sets of coordinates up to the last one in use stay (their indices do not change), and normals,
\* tangents, joints and colours as far as they can be seen.
FilterStreams(mesh, needs) ==
  LET used == {s \in mesh.streams \cap DOMAIN TexcoordIndex : TexcoordIndex[s] \in needs.texture_sets}
      Visible(s) ==
        CASE s \in DOMAIN TexcoordIndex -> \E u \in used : TexcoordIndex[s] <= TexcoordIndex[u]
          [] s = "normal" -> ~needs.unlit
          [] s = "tangent" -> needs.needs_tangents
          [] s = "joints" -> mesh.skin # 0
          [] s = "color" -> \E p \in ToSet(mesh.pieces) : p.geometry \notin White
          [] OTHER -> TRUE
  IN  [mesh EXCEPT !.streams = {s \in @ : Visible(s)}]

HasVertexAlpha(mesh) == "color" \in mesh.streams /\ \E p \in ToSet(mesh.pieces) : p.geometry \in Translucent

\* A mistake: shared geometry keeps the hash of the file's data.
ProcessMeshOnce(mesh) ==
  [mesh EXCEPT !.pieces = IF mesh.type = "triangles" THEN SelectSeq(@, LAMBDA p : p.geometry \notin Degenerate) ELSE @]

\* processMesh: reindexing and reordering change no triangle; triangles without area go.  A mesh that shares its
\* geometry with others is hashed again, as its streams and data have changed.
ProcessMesh(mesh) ==
  LET processed == [mesh EXCEPT !.pieces = IF mesh.type = "triangles"
                                            THEN SelectSeq(@, LAMBDA p : p.geometry \notin Degenerate) ELSE @]
  IN  IF mesh.duplicate THEN [processed EXCEPT !.hash = HashMesh(processed)] ELSE processed

-----------------------------------------------------------------------------
(* Quantization of texture coordinates *)

\* Materials that may be drawn on one mesh are quantized alike: the classes that meshes and their variants connect.
QuantizationClass(meshes, material) ==
  LET linked(set) == set \cup UNION {MaterialsOf(m) : m \in {n \in ToSet(meshes) : MaterialsOf(n) \cap set # {}}}
      close[k \in Nat] == IF k = 0 THEN {material} ELSE linked(close[k - 1])
  IN  close[Len(meshes)]

\* prepareQuantizationTexture: the bounds of a class are those of the coordinates of all its meshes (here: of which
\* geometries); without coordinates they are empty.
QuantizationTexture(meshes, material) ==
  {p.geometry : p \in UNION {ToSet(m.pieces) : m \in {n \in ToSet(meshes) :
     /\ MaterialsOf(n) \cap QuantizationClass(meshes, material) # {}
     /\ n.streams \cap DOMAIN TexcoordIndex # {}}}}
=============================================================================
