------------------------------ MODULE GltfScene ------------------------------
(***************************************************************************)
(* The nodes of a glTF file: how its meshes are read and attached to them  *)
(* (src/gltf/parsegltf.cpp), which of them move, and which are needed      *)
(* (src/gltf/animation.cpp, src/gltf/node.cpp).                            *)
(*                                                                         *)
(* A node is a record: its parent (0 for a root), whether it has a         *)
(* transform of its own, its morph weights (0 for none), whether it has a  *)
(* name and a light, its mesh and skin (0 for none), and how many          *)
(* instances of the mesh it draws (0 when it is not instanced).  A motion  *)
(* is a pair of a kind and a set: what a node adds to the frame of its     *)
(* subtree.                                                                *)
(***************************************************************************)
EXTENDS GltfMeshes

Parent(data, n) == data.nodes[n].parent
Roots(data) == {n \in DOMAIN data.nodes : Parent(data, n) = 0}
Children(data, n) == {c \in DOMAIN data.nodes : Parent(data, c) = n}

\* A node and its ancestors, from the root down.
Path(data, n) ==
  LET up[m \in 0..Len(data.nodes)] == IF m = 0 THEN <<>> ELSE Append(up[Parent(data, m)], m)
  IN  up[n]

\* cgltf_node_transform_world: the transforms on the way from the root; animations are not in it.
WorldFrame(data, n) ==
  LET moved == SelectSeq(Path(data, n), LAMBDA m : data.nodes[m].moved)
  IN  [i \in DOMAIN moved |-> <<"transform", {moved[i]}>>]

-----------------------------------------------------------------------------
(* Reading meshes *)

\* parseMeshesGltf: a mesh for each primitive.
ParsePrimitive(primitive) ==
  [pieces |-> <<[geometry |-> primitive.geometry, at |-> <<>>]>>, streams |-> primitive.streams,
   type |-> primitive.type, nodes |-> <<>>, instances |-> <<>>, material |-> primitive.material, skin |-> 0,
   scene |-> -1, targets |-> primitive.targets, target_weights |-> primitive.target_weights,
   variants |-> primitive.variants, hash |-> <<>>, duplicate |-> FALSE]

ParseMeshes(data) ==
  FlattenSeq([m \in DOMAIN data.meshes |-> [p \in DOMAIN data.meshes[m] |-> ParsePrimitive(data.meshes[m][p])]])

\* mesh_remap: which meshes the primitives of a mesh of the file have become.
MeshRemap(data, m) ==
  LET before == FoldLeft(LAMBDA sum, k : sum + Len(data.meshes[k]), 0, [k \in 1..(m - 1) |-> k])
  IN  (before + 1)..(before + Len(data.meshes[m]))

\* parseMeshInstancesGltf: the frames of the node's instances.
ParseMeshInstances(data, n) ==
  [i \in 1..data.nodes[n].instances |-> Append(WorldFrame(data, n), <<"instance", {i}>>)]

\* A node is attached to mesh m, or to a copy of it when another node has given the mesh another skin.  The copy has
\* the nodes of the mesh as well.  Instances belong to a scene, and it is taken to be the first.
AttachNode(data, meshes, m, n) ==
  LET node == data.nodes[n]
      Attached(mesh) == IF node.instances > 0
                          THEN [mesh EXCEPT !.scene = 0, !.instances = @ \o ParseMeshInstances(data, n)]
                          ELSE [mesh EXCEPT !.skin = node.skin, !.nodes = Append(@, n)]
  IN  IF meshes[m].skin # node.skin /\ (meshes[m].nodes # <<>> \/ meshes[m].instances # <<>>)
        THEN Append(meshes, Attached(meshes[m]))
        ELSE [meshes EXCEPT ![m] = Attached(@)]

\* parseMeshNodesGltf: a mesh that no node uses is cleared, as a mesh without nodes would be one in world space.
ParseMeshNodes(data, meshes) ==
  LET uses == FlattenSeq([n \in DOMAIN data.nodes |->
                IF data.nodes[n].mesh = 0 THEN <<>>
                ELSE LET range == InOrder(MeshRemap(data, data.nodes[n].mesh), Len(meshes))
                     IN  [k \in DOMAIN range |-> <<range[k], n>>]])
      attached == FoldLeft(LAMBDA ms, use : AttachNode(data, ms, use[1], use[2]), meshes, uses)
  IN  [m \in DOMAIN attached |->
         IF attached[m].nodes = <<>> /\ attached[m].instances = <<>>
           THEN [attached[m] EXCEPT !.streams = {}, !.pieces = <<>>] ELSE attached[m]]

-----------------------------------------------------------------------------
(* Animations *)

NodeDefaults == [scene |-> -1, keep |-> FALSE, animated |-> FALSE, paths |-> {}, remap |-> 0, mesh_nodes |-> <<>>,
                 has_mesh |-> FALSE, mesh_index |-> 0, mesh_skin |-> 0]

\* processAnimation: every track is resampled to the frames of the animation, if asked for.  A track that does not
\* change is cut to its first key, and it is a dummy if this is the value that the node has anyway.
ProcessTrack(track, frames) ==
  LET keys == IF frames = 0 THEN track.keys ELSE [f \in 1..frames |-> track.keys[IF f <= Len(track.keys) THEN f ELSE Len(track.keys)]]
      constant == \A k \in DOMAIN keys : keys[k] = keys[1]
  IN  [node |-> track.node, path |-> track.path, constant |-> constant, dummy |-> constant /\ keys[1] = track.base,
       keys |-> IF constant THEN <<keys[1]>> ELSE keys, base |-> track.base, timed |-> frames = 0 /\ ~constant]

ProcessAnimation(tracks, settings) ==
  LET frames == IF settings.resample THEN Max({Len(t.keys) : t \in ToSet(tracks)}) ELSE 0
  IN  [frames |-> frames, tracks |-> [t \in DOMAIN tracks |-> ProcessTrack(tracks[t], frames)]]

TracksOf(animations) == UNION {ToSet(a.tracks) : a \in ToSet(animations)}

\* markAnimated: which paths of a node its tracks change, and whether it or an ancestor moves.
MarkAnimated(data, info, animations) ==
  LET paths(n) == {t.path : t \in {u \in TracksOf(animations) : u.node = n /\ ~u.dummy}}
  IN  [n \in DOMAIN info |->
         [info[n] EXCEPT !.paths = paths(n), !.animated = \E m \in ToSet(Path(data, n)) : paths(m) # {}]]

-----------------------------------------------------------------------------
(* Scenes and nodes that are needed *)

\* A mistake: a node of several scenes is taken to be in the last of them.
MarkSceneLast(scene, s) == s - 1

\* What markScenes makes of a root when it meets it in scene s: -1 stands for no scene, -2 for several.
MarkScene(scene, s) == IF scene >= 0 THEN -2 ELSE s - 1

\* markScenes: all nodes of a tree have the scene of its root.
MarkScenes(data, info) ==
  LET listed(root) == SelectSeq([s \in DOMAIN data.scenes |-> s], LAMBDA s : root \in ToSet(data.scenes[s]))
  IN  [n \in DOMAIN info |-> [info[n] EXCEPT !.scene = FoldLeft(MarkScene, -1, listed(Path(data, n)[1]))]]

\* markNeededNodes: joints, nodes with tracks that are written, with meshes, with lights, and with names to keep.
MarkNeededNodes(data, info, meshes, animations, settings) ==
  LET joints == UNION {ToSet(s) : s \in ToSet(data.skins)}
      moving == {t.node : t \in {u \in TracksOf(animations) : settings.anim_const \/ ~u.dummy}}
      drawn == UNION {ToSet(m.nodes) : m \in ToSet(meshes)}
      own == {n \in DOMAIN data.nodes : data.nodes[n].light \/ (settings.keep_nodes /\ data.nodes[n].named)}
  IN  [n \in DOMAIN info |-> [info[n] EXCEPT !.keep = @ \/ n \in joints \cup moving \cup drawn \cup own]]

\* A mistake: the ancestors of kept nodes are not kept.
RemapNodesAlone(data, info, offset) ==
  LET position(n) == Cardinality({m \in 1..(n - 1) : info[m].keep})
  IN  [n \in DOMAIN info |-> [info[n] EXCEPT !.remap = IF info[n].keep THEN offset + position(n) ELSE @]]

\* A mistake: kept nodes are numbered from 0.
RemapNodesFromZero(data, info, offset) ==
  LET needed == UNION {ToSet(Path(data, n)) : n \in {m \in DOMAIN info : info[m].keep}}
      position(n) == Cardinality({m \in 1..(n - 1) : m \in needed})
  IN  [n \in DOMAIN info |->
         [info[n] EXCEPT !.keep = n \in needed, !.remap = IF n \in needed THEN position(n) ELSE @]]

\* remapNodes: the ancestors of kept nodes are kept, and kept nodes are numbered after the nodes written before.
RemapNodes(data, info, offset) ==
  LET needed == UNION {ToSet(Path(data, n)) : n \in {m \in DOMAIN info : info[m].keep}}
      position(n) == Cardinality({m \in 1..(n - 1) : m \in needed})
  IN  [n \in DOMAIN info |->
         [info[n] EXCEPT !.keep = n \in needed, !.remap = IF n \in needed THEN offset + position(n) ELSE @]]

-----------------------------------------------------------------------------
(* Meshes that need no node *)

\* A mistake: all meshes may be transformed.
CanTransformAny(data, mesh) == TRUE

\* canTransformMesh: the thickness of a volume is in the space of the mesh.
CanTransformMesh(data, mesh) == mesh.material = 0 \/ ~data.materials[mesh.material].volume

\* A mistake: animated nodes do not anchor their meshes.
DetachableAnimated(info, settings, mesh) ==
  LET scene == info[mesh.nodes[1]].scene
  IN  /\ mesh.instances = <<>> /\ ~settings.keep_nodes /\ mesh.skin = 0 /\ mesh.targets = 0
      /\ \A n \in ToSet(mesh.nodes) : info[n].scene = scene
      /\ scene >= 0
      /\ Len(mesh.nodes) > 1 => settings.mesh_merge \/ settings.mesh_instancing
      /\ Len(mesh.nodes) = 1 => ~(mesh.duplicate /\ ~settings.mesh_merge)

\* A mistake: only the scene of the first node is looked at.
DetachableAnyScene(info, settings, mesh) ==
  /\ mesh.instances = <<>> /\ ~settings.keep_nodes /\ mesh.skin = 0 /\ mesh.targets = 0
  /\ \A n \in ToSet(mesh.nodes) : ~info[n].animated
  /\ info[mesh.nodes[1]].scene >= 0
  /\ Len(mesh.nodes) > 1 => settings.mesh_merge \/ settings.mesh_instancing
  /\ Len(mesh.nodes) = 1 => ~(mesh.duplicate /\ ~settings.mesh_merge)

\* The early returns of detachMesh, for a mesh with nodes: named nodes are kept, skins and morph targets, animated nodes,
\* nodes of no scene or of several; several nodes only if it was asked for, and shared geometry stays shared.
Detachable(info, settings, mesh) ==
  LET scene == info[mesh.nodes[1]].scene
  IN  /\ mesh.instances = <<>> /\ ~settings.keep_nodes /\ mesh.skin = 0 /\ mesh.targets = 0
      /\ \A n \in ToSet(mesh.nodes) : ~info[n].animated /\ info[n].scene = scene
      /\ scene >= 0
      /\ Len(mesh.nodes) > 1 => settings.mesh_merge \/ settings.mesh_instancing
      /\ Len(mesh.nodes) = 1 => ~(mesh.duplicate /\ ~settings.mesh_merge)

\* detachMesh: the nodes become instances, or copies of the data in world space, or they stay.
DetachMesh(data, info, settings, mesh) ==
  IF mesh.nodes = <<>> \/ ~Detachable(info, settings, mesh) THEN mesh
  ELSE LET scene == info[mesh.nodes[1]].scene
           frames == [n \in DOMAIN data.nodes |-> WorldFrame(data, n)]
       IN  IF Len(mesh.nodes) > 1 /\ settings.mesh_instancing
             THEN [mesh EXCEPT !.instances = [i \in DOMAIN mesh.nodes |-> frames[mesh.nodes[i]]],
                               !.nodes = <<>>, !.scene = scene]
             ELSE IF CanTransformMesh(data, mesh)
                    THEN [MergeMeshInstances(mesh, frames) EXCEPT !.scene = scene]
                    ELSE mesh

-----------------------------------------------------------------------------
(* What is written for meshes, nodes, skins and animations                 *)
(* (src/gltf/write.cpp).  An element of the output is a record, and its    *)
(* index is its position in the array it is written to, less one; -1       *)
(* stands for a reference that is not written.                             *)

\* Quantized positions are in the units of a grid that all meshes share; settings.positions is "float" when they are not
\* quantized and "unit" when the grid happens to be the space of the meshes.
Scaled(settings) == settings.positions = "grid"

-----------------------------------------------------------------------------
(* Geometry *)

\* writeMeshGeometry: the streams, indices and targets.
WriteMeshGeometry(mesh, qt, settings) ==
  [pieces |-> mesh.pieces, streams |-> mesh.streams, type |-> mesh.type, targets |-> mesh.targets,
   scaled |-> Scaled(settings), qt |-> IF settings.quantize_texcoords THEN qt ELSE {}]

SameQuantization(lhs, rhs, settings) == settings.quantize_texcoords => lhs = rhs

\* A mistake: the quantization of the cached geometry is not compared.
CachedAnyQuantization(cache, mesh, qt, settings) ==
  {entry \in cache : mesh.duplicate /\ entry.hash = mesh.hash}

\* primitive_cache: the geometry that was written last for a mesh with this hash, if it can be used again.
Cached(cache, mesh, qt, settings) ==
  {entry \in cache : mesh.duplicate /\ entry.hash = mesh.hash /\ SameQuantization(entry.qt, qt, settings)}

\* A cache entry is overwritten when its quantization does not fit.
CacheAfter(cache, mesh, qt, settings) ==
  IF ~mesh.duplicate \/ Cached(cache, mesh, qt, settings) # {} THEN cache
  ELSE {entry \in cache : entry.hash # mesh.hash}
         \cup {[hash |-> mesh.hash, qt |-> qt, geometry |-> WriteMeshGeometry(mesh, qt, settings)]}

\* A primitive: geometry, new or used again, and the positions of its materials.
WritePrimitive(cache, mesh, qt, materials, settings) ==
  LET cached == Cached(cache, mesh, qt, settings)
  IN  [geometry |-> IF cached # {} THEN (CHOOSE entry \in cached : TRUE).geometry
                    ELSE WriteMeshGeometry(mesh, qt, settings),
       material |-> IF mesh.material = 0 THEN -1 ELSE materials[mesh.material].remap,
       variants |-> [v \in DOMAIN mesh.variants |->
                       [variant |-> mesh.variants[v].variant, material |-> materials[mesh.variants[v].material].remap]]]

\* A mistake: meshes with different nodes are written as one.
TogetherAnyNodes(mesh, prim, first) ==
  /\ prim.scene = mesh.scene /\ prim.skin = mesh.skin
  /\ first \/ (mesh.instances = <<>> /\ prim.instances = <<>>)
  /\ CompareMeshTargets(mesh, prim)

\* Meshes that follow each other become primitives of one mesh if they are drawn at the same nodes in the same way.
Together(mesh, prim, first) ==
  /\ prim.scene = mesh.scene /\ prim.skin = mesh.skin
  /\ first \/ (mesh.instances = <<>> /\ prim.instances = <<>>)
  /\ CompareMeshNodes(mesh, prim) /\ CompareMeshTargets(mesh, prim)

\* The last of the meshes that are written with mesh i.
LastTogether(meshes, i) ==
  Max({last \in i..Len(meshes) : \A k \in i..last : Together(meshes[i], meshes[k], k = i)})

-----------------------------------------------------------------------------
(* Nodes *)

\* writeMeshNode: a node that only holds a mesh; its transform undoes the quantization of positions.
WriteMeshNode(mesh, skin, weights, settings) ==
  [mesh |-> mesh, skin |-> skin - 1, weights |-> weights, dequantize |-> Scaled(settings), children |-> <<>>,
   instances |-> <<>>, node |-> 0, moved |-> FALSE, light |-> FALSE]

\* A mistake: the instances of quantized meshes are not scaled.
WriteInstancesUnscaled(instances, settings) == instances

\* writeInstances: the transform that undoes the quantization is composed into every instance.
WriteInstances(instances, settings) ==
  IF Scaled(settings) THEN [i \in DOMAIN instances |-> Append(instances[i], <<"dequantize", {}>>)] ELSE instances

\* writeMeshNodeInstanced
WriteMeshNodeInstanced(mesh, instances, settings) ==
  [WriteMeshNode(mesh, 0, 0, settings) EXCEPT !.dequantize = FALSE, !.instances = WriteInstances(instances, settings)]

\* writeNode: the node's own transform, its kept children and then its mesh nodes, and the mesh it holds itself.
WriteNode(data, info, n) ==
  LET kept == SelectSeq(InOrder(Children(data, n), Len(data.nodes)), LAMBDA c : info[c].keep)
  IN  [mesh |-> IF info[n].has_mesh THEN info[n].mesh_index ELSE -1,
       skin |-> IF info[n].has_mesh THEN info[n].mesh_skin - 1 ELSE -1,
       weights |-> IF info[n].has_mesh THEN data.nodes[n].weights ELSE 0,
       dequantize |-> FALSE, children |-> [c \in DOMAIN kept |-> info[kept[c]].remap] \o info[n].mesh_nodes,
       instances |-> <<>>, node |-> n, moved |-> data.nodes[n].moved, light |-> data.nodes[n].light]

\* writeSkin and writeJointBindMatrices: quantized positions are undone in the bind matrices.
WriteSkin(data, info, s, settings) ==
  [joints |-> [j \in DOMAIN data.skins[s] |-> info[data.skins[s][j]].remap], dequantize |-> Scaled(settings)]

-----------------------------------------------------------------------------
(* Animations *)

\* The tracks of kept nodes, on paths that some track changes.
WrittenTracks(info, animation, settings) ==
  SelectSeq(animation.tracks, LAMBDA t : info[t.node].keep /\ (settings.anim_const \/ t.path \in info[t.node].paths))

\* A mistake: the times of single poses are never written when a range is.
TimesRangeOnly(animation, tracks) ==
  LET time == \E t \in ToSet(tracks) : ~t.timed /\ ~t.constant
      pose == \E t \in ToSet(tracks) : t.constant
      range == pose /\ ~time /\ animation.frames > 1
  IN  [time |-> time, range |-> range, pose |-> pose /\ ~range]

\* Which arrays of times the tracks share: all frames, a single pose, or the range of an animation in which nothing
\* moves, which keeps its length.
Times(animation, tracks) ==
  LET time == \E t \in ToSet(tracks) : ~t.timed /\ ~t.constant
      pose == \E t \in ToSet(tracks) : t.constant
      range == pose /\ ~time /\ animation.frames > 1
  IN  [time |-> time, range |-> range, pose |-> pose /\ ~(range /\ Len(tracks) = 1)]

\* A mistake: weights always act on the node that they acted on.
TrackTargetNode(info, track) == info[track.node].remap

\* The node a track acts on: weights follow the mesh to its only mesh node.
TrackTarget(info, track) ==
  IF track.path = "weights" /\ Len(info[track.node].mesh_nodes) = 1
    THEN info[track.node].mesh_nodes[1] ELSE info[track.node].remap

\* A channel with its sampler: how many times it has (0 for an array that is not written), and its keys.
WriteChannel(info, animation, tracks, j) ==
  LET track == tracks[j]
      times == Times(animation, tracks)
      range == times.range /\ j = 1
  IN  [target |-> TrackTarget(info, track), path |-> track.path, base |-> track.base,
       keys |-> IF range THEN track.keys \o track.keys ELSE track.keys,
       times |-> CASE range -> 2
                   [] ~range /\ track.constant -> IF times.pose THEN 1 ELSE 0
                   [] ~range /\ ~track.constant /\ track.timed -> Len(track.keys)
                   [] OTHER -> IF times.time THEN animation.frames ELSE 0]

\* writeAnimation, of one animation; one without tracks is left out.
WriteAnimation(info, animation, settings) ==
  LET tracks == WrittenTracks(info, animation, settings)
  IN  IF tracks = <<>> THEN <<>>
      ELSE <<[frames |-> animation.frames,
              channels |-> [j \in DOMAIN tracks |-> WriteChannel(info, animation, tracks, j)]]>>
=============================================================================
