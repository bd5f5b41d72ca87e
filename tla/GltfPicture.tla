----------------------------- MODULE GltfPicture -----------------------------
(***************************************************************************)
(* What a viewer shows of a glTF file, and the promise of gltfpack: the    *)
(* output shows what the input showed.                                     *)
(*                                                                         *)
(* A draw is a primitive's geometry at a place: its scene, the frame it    *)
(* moves with, its joints, how its material looks (for each variant), the  *)
(* streams that this look uses, its morph weights, and whether a volume    *)
(* has been put into another space than its thickness is measured in.  The *)
(* frame names transforms, animations and, with -kn, names: everything     *)
(* that can move the geometry.                                             *)
(***************************************************************************)
EXTENDS GltfPack

\* The number of material variants.
Variants == LET all == {v.variant : v \in UNION {ToSet(p.variants) : p \in UNION {ToSet(m) : m \in ToSet(source.meshes)}}}
            IN  IF all = {} THEN 0 ELSE Max(all)

-----------------------------------------------------------------------------
(* Looks *)

NoLook == [factors |-> 0, views |-> <<>>, blend |-> FALSE, volume |-> FALSE, unlit |-> FALSE, name |-> 0]

\* How a material looks on geometry with (or without) translucent vertex colours, given its views' textures.
Look(material, views, alpha) ==
  LET image == views.base
      visible == alpha \/ material.translucent \/ (image # NoTexture /\ image.image # 0 /\ source.images[image.image].alpha)
  IN  [factors |-> material.factors, views |-> views, blend |-> material.blend /\ visible, volume |-> material.volume,
       unlit |-> material.unlit, name |-> IF settings.keep_materials THEN material.name ELSE 0]

\* The image that is seen where a texture of some format refers to some contents; 0 if there is none to see.
Seen(contents, format) ==
  IF contents.format = format /\ source.images[contents.image].fate = "fine" THEN contents.image ELSE 0

View(image, texture, view) == [image |-> image, sampler |-> texture.sampler, texcoord |-> view.texcoord, transform |-> view.transform]

SourceLook(m, alpha) ==
  IF m = 0 THEN NoLook
  ELSE LET material == source.materials[m]
       IN  Look(material, [slot \in DOMAIN SlotKind |->
                             IF material.views[slot].texture = 0 THEN NoTexture
                             ELSE LET texture == source.textures[material.views[slot].texture]
                                  IN  View(Seen(Contents(texture.image, source.images[texture.image].format), texture.format),
                                           texture, material.views[slot])], alpha)

OutContents(image) == IF image.file = <<>> THEN image.contents ELSE out.files[image.file]

\* A texture of the output counts its image from 0.
OutLook(m, alpha) ==
  IF m = -1 THEN NoLook
  ELSE LET material == out.materials[m + 1]
           Shown(view) == LET texture == out.textures[view.texture + 1]
                          IN  View(Seen(OutContents(out.images[texture.image + 1]), texture.format), texture, view)
       IN  Look(material, [slot \in DOMAIN SlotKind |->
                             IF material.views[slot] = NoTexture THEN NoTexture ELSE Shown(material.views[slot])], alpha)

\* The material for a variant: the first mapping of it, or the primitive's own.
MaterialFor(primitive, v) ==
  LET mappings == SelectSeq(primitive.variants, LAMBDA m : m.variant = v)
  IN  IF mappings = <<>> THEN primitive.material ELSE mappings[1].material

FilledViews(look) == IF look.views = <<>> THEN {} ELSE {look.views[slot] : slot \in DOMAIN look.views} \ {NoTexture}

\* The streams that show, of those there are.
Detail(streams, looks, skinned, geometry) ==
  {s \in streams :
     CASE s \in DOMAIN TexcoordIndex -> \E l \in looks : \E view \in FilledViews(l) : view.texcoord = TexcoordIndex[s]
       [] s = "normal" -> \E l \in looks : ~l.unlit
       [] s = "tangent" -> \E l \in looks : l.views # <<>> /\ l.views.normal # NoTexture
       [] s = "joints" -> skinned
       [] s = "color" -> geometry \notin White
       [] OTHER -> TRUE}

Visible(geometry, type) == ~(type = "triangles" /\ geometry \in Degenerate)

Still(keys) == \A k \in DOMAIN keys : keys[k] = keys[1]

\* The motions of the tracks on some paths of a node: those that change it, as their keys without repetition.
Motions(tracks) == {<<t.path, IF Still(t.keys) THEN <<t.keys[1]>> ELSE t.keys>> : t \in {u \in tracks : ~Still(u.keys) \/ u.keys[1] # u.base}}

-----------------------------------------------------------------------------
(* The input *)

SourceTracks(n) == {t \in UNION {ToSet(a) : a \in ToSet(source.animations)} : t.node = n}

Motion(kind, set) == IF set = {} THEN <<>> ELSE <<<<kind, set>>>>

SourceFrame(n) ==
  LET path == Path(source, n)
      AddedBy(m) == Motion("transform", IF source.nodes[m].moved THEN {m} ELSE {})
                      \o Motion("track", Motions({t \in SourceTracks(m) : t.path # "weights"}))
                      \o Motion("name", IF settings.keep_nodes /\ source.nodes[m].named THEN {m} ELSE {})
  IN  FlattenSeq([k \in DOMAIN path |-> AddedBy(path[k])])

SourceDraw(s, n, primitive, instance) ==
  LET node == source.nodes[n]
      alpha == "color" \in primitive.streams /\ primitive.geometry \in Translucent
      looks == [v \in 1..(Variants + 1) |-> SourceLook(MaterialFor(primitive, v - 1), alpha)]
  IN  [scene |-> s, geometry |-> primitive.geometry, type |-> primitive.type, looks |-> looks,
       frame |-> IF node.skin # 0 THEN <<>>
                 ELSE SourceFrame(n) \o (IF node.instances > 0 THEN <<<<"instance", {instance}>>>> ELSE <<>>),
       joints |-> IF node.skin = 0 THEN <<>>
                  ELSE [j \in DOMAIN source.skins[node.skin] |-> SourceFrame(source.skins[node.skin][j])],
       morph |-> IF primitive.targets = 0 THEN <<>>
                 ELSE <<IF node.weights # 0 THEN node.weights ELSE primitive.target_weights,
                        Motions({t \in SourceTracks(n) : t.path = "weights"})>>,
       stretched |-> FALSE,
       detail |-> Detail(primitive.streams, ToSet(looks), node.skin # 0, primitive.geometry)]

\* The draws of the input: who draws, and what.
SourceDraws ==
  LET uses == {<<s, n, p, k>> \in (DOMAIN source.scenes) \X (DOMAIN source.nodes) \X (1..4) \X (1..4) :
                 LET node == source.nodes[n]
                 IN  /\ node.mesh # 0 /\ Path(source, n)[1] \in ToSet(source.scenes[s])
                     /\ p \in DOMAIN source.meshes[node.mesh]
                     /\ k <= Max({1, node.instances})
                     /\ Visible(source.meshes[node.mesh][p].geometry, source.meshes[node.mesh][p].type)}
  IN  [u \in uses |-> SourceDraw(u[1], u[2], source.meshes[source.nodes[u[2]].mesh][u[3]], u[4])]

SourceLights ==
  {<<s, n, SourceFrame(n)>> : <<s, n>> \in {<<t, m>> \in (DOMAIN source.scenes) \X (DOMAIN source.nodes) :
                                             source.nodes[m].light /\ Path(source, m)[1] \in ToSet(source.scenes[t])}}

-----------------------------------------------------------------------------
(* The output *)

OutParents(n) == {m \in DOMAIN out.nodes : n - 1 \in ToSet(out.nodes[m].children)}

OutPath(n) ==
  LET up[m \in DOMAIN out.nodes] == IF OutParents(m) = {} THEN <<m>> ELSE Append(up[Min(OutParents(m))], m)
  IN  up[n]

OutTracks(n) == {t \in UNION {ToSet(a.channels) : a \in ToSet(out.animations)} : t.target = n - 1}

OutFrame(n) ==
  LET path == OutPath(n)
      AddedBy(m) == LET node == out.nodes[m]
                    IN  Motion("transform", IF node.moved THEN {node.node} ELSE {})
                          \o Motion("track", Motions({t \in OutTracks(m) : t.path # "weights"}))
                          \o Motion("name", IF settings.keep_nodes /\ node.node # 0 /\ source.nodes[node.node].named
                                             THEN {node.node} ELSE {})
                          \o (IF node.dequantize THEN <<<<"dequantize", {}>>>> ELSE <<>>)
  IN  FlattenSeq([k \in DOMAIN path |-> AddedBy(path[k])])

\* Where geometry in the units of the grid ends up: the innermost transform must be the one that undoes it.
Placed(frame, scaled) ==
  IF ~scaled THEN frame
  ELSE IF frame # <<>> /\ frame[Len(frame)] = <<"dequantize", {}>> THEN Front(frame) ELSE Append(frame, <<"quantized", {}>>)

\* Texture coordinates are undone by the materials: in all looks they are drawn with.
TexcoordsExact(primitive) ==
  \A v \in 0..Variants :
    LET m == MaterialFor(primitive, v)
    IN  m # -1 => \A slot \in DOMAIN SlotKind :
          LET view == out.materials[m + 1].views[slot] IN view # NoTexture => view.qt = primitive.geometry.qt

OutDraw(s, n, primitive, piece, instance) ==
  LET node == out.nodes[n]
      geometry == primitive.geometry
      alpha == "color" \in geometry.streams /\ piece.geometry \in Translucent
      looks == [v \in 1..(Variants + 1) |-> OutLook(MaterialFor(primitive, v - 1), alpha)]
      drawn == OutFrame(n) \o (IF node.instances # <<>> THEN node.instances[instance] ELSE <<>>)
  IN  [scene |-> s, geometry |-> piece.geometry, type |-> geometry.type, looks |-> looks,
       frame |-> IF node.skin # -1 THEN <<>> ELSE Placed(drawn, geometry.scaled) \o piece.at,
       joints |-> IF node.skin = -1 THEN <<>>
                  ELSE LET skin == out.skins[node.skin + 1]
                       IN  [j \in DOMAIN skin.joints |->
                              Placed(OutFrame(skin.joints[j] + 1) \o (IF skin.dequantize THEN <<<<"dequantize", {}>>>> ELSE <<>>),
                                     geometry.scaled)],
       morph |-> IF geometry.targets = 0 THEN <<>>
                 ELSE <<IF node.weights # 0 THEN node.weights ELSE out.meshes[node.mesh + 1].weights,
                        Motions({t \in OutTracks(n) : t.path = "weights"})>>,
       stretched |-> piece.at # <<>> /\ \E l \in ToSet(looks) : l.volume,
       detail |-> Detail(geometry.streams, ToSet(looks), node.skin # -1, piece.geometry)]

OutDraws ==
  LET uses == {<<s, n, p, c, k>> \in (DOMAIN out.roots) \X (DOMAIN out.nodes) \X (1..4) \X (1..4) \X (1..4) :
                 LET node == out.nodes[n]
                 IN  /\ node.mesh # -1 /\ OutPath(n)[1] - 1 \in ToSet(out.roots[s])
                     /\ p \in DOMAIN out.meshes[node.mesh + 1].prims
                     /\ c \in DOMAIN out.meshes[node.mesh + 1].prims[p].geometry.pieces
                     /\ k <= Max({1, Len(node.instances)})}
  IN  [u \in uses |-> LET primitive == out.meshes[out.nodes[u[2]].mesh + 1].prims[u[3]]
                      IN  OutDraw(u[1], u[2], primitive, primitive.geometry.pieces[u[4]], u[5])]

OutLights ==
  {<<s, out.nodes[n].node, OutFrame(n)>> : <<s, n>> \in
     {<<t, m>> \in (DOMAIN out.roots) \X (DOMAIN out.nodes) : out.nodes[m].light /\ OutPath(m)[1] - 1 \in ToSet(out.roots[t])}}

-----------------------------------------------------------------------------
(* Properties *)

\* The output shows every draw of the input and no other, and none more often than the input (equal primitives at one
\* node become one); lights stay with what moves them; the texture coordinates of every primitive fit the materials
\* that it is drawn with.
PictureKept ==
  LET shown == SourceDraws
      kept == OutDraws
      Count(draws, d) == Cardinality({u \in DOMAIN draws : draws[u] = d})
      Image(f) == {f[u] : u \in DOMAIN f}
  IN  /\ Image(kept) = Image(shown)
      /\ \A d \in Image(kept) : Count(kept, d) <= Count(shown, d)
      /\ OutLights = SourceLights
      /\ settings.quantize_texcoords => \A m \in ToSet(out.meshes) : \A p \in ToSet(m.prims) : TexcoordsExact(p)

-----------------------------------------------------------------------------
(* Files that gltfpack may change: each of these conditions is needed for SamePicture *)

ScenesOf(n) == {s \in DOMAIN source.scenes : Path(source, n)[1] \in ToSet(source.scenes[s])}
Moving(n) == Motions(SourceTracks(n)) # {}
MeshNodesOf(file) == {n \in DOMAIN file.nodes : file.nodes[n].mesh # 0}
Geometries(n) == {p.geometry : p \in ToSet(source.meshes[source.nodes[n].mesh])}

\* A mesh is used with one skin: AttachNode copies a mesh with the nodes it has so far.
OneSkin == \A n, m \in MeshNodesOf(source) :
  source.nodes[n].mesh = source.nodes[m].mesh => source.nodes[n].skin = source.nodes[m].skin

\* Nodes with meshes that may be merged with siblings do not move, and are in the same scenes: CanMergeMeshNodes looks
\* at neither.
StillSiblings == \A n, m \in MeshNodesOf(source) :
  (n # m /\ Parent(source, n) = Parent(source, m) /\ ~source.nodes[n].moved /\ ~source.nodes[m].moved)
    => ~Moving(n) /\ ScenesOf(n) = ScenesOf(m)

\* A mesh whose weights are animated shares no geometry with another one: its primitives could end up in several mesh
\* nodes, and TrackTarget moves the animation to one.
UnsharedWeights == \A n, m \in MeshNodesOf(source) :
  (source.nodes[n].mesh # source.nodes[m].mesh /\ Motions({t \in SourceTracks(n) : t.path = "weights"}) # {})
    => Geometries(n) \cap Geometries(m) = {}

\* A root is in two scenes at most: MarkScene takes a third one for the first.
FewScenes == \A n \in Roots(source) : Cardinality(ScenesOf(n)) <= 2

\* Instanced nodes are in the first scene, and nothing on their way from the root moves or has a name to keep.
PlainInstances == \A n \in MeshNodesOf(source) : source.nodes[n].instances > 0 =>
  /\ ScenesOf(n) = {1}
  /\ \A m \in ToSet(Path(source, n)) : ~Moving(m) /\ ~(settings.keep_nodes /\ source.nodes[m].named)

\* Images that become files have names that differ in more than the extension, which WriteImageData replaces.
NamedImages == \A i, j \in DOMAIN source.images :
  (i # j /\ source.images[i].file = source.images[j].file) => source.images[i].file = 0 \/ settings.texture_embed \/ settings.texture_ref

Supported == OneSkin /\ StillSiblings /\ UnsharedWeights /\ FewScenes /\ PlainInstances /\ NamedImages

\* gltfpack shows what the file showed, for the files that it supports.
SamePicture == phase = "done" /\ Supported => PictureKept

\* Positions that are written before their targets exist come out right: the counters agree with the arrays, every
\* reference is inside its array, the nodes are trees with the scenes' nodes as roots, what was to be kept is there, and
\* every channel has as many keys as times, and a resampled animation is as long as it was.
References ==
  /\ \A m \in ToSet(out.meshes) : \A p \in ToSet(m.prims) :
       /\ p.material + 1 \in 0..Len(out.materials)
       /\ \A v \in ToSet(p.variants) : v.material + 1 \in DOMAIN out.materials
  /\ \A m \in ToSet(out.materials) : \A slot \in DOMAIN SlotKind :
       m.views[slot] # NoTexture => m.views[slot].texture + 1 \in DOMAIN out.textures
  /\ \A t \in ToSet(out.textures) : t.image + 1 \in DOMAIN out.images
  /\ \A n \in ToSet(out.nodes) :
       n.mesh + 1 \in 0..Len(out.meshes) /\ n.skin + 1 \in 0..Len(out.skins)
  /\ \A s \in ToSet(out.skins) : \A j \in ToSet(s.joints) : j + 1 \in DOMAIN out.nodes

Trees ==
  /\ \A n \in DOMAIN out.nodes : Cardinality(OutParents(n)) <= 1
  /\ \A n \in ToSet(out.nodes) : IsInjective(n.children) /\ \A c \in ToSet(n.children) : c + 1 \in DOMAIN out.nodes
  /\ \A s \in DOMAIN out.roots : IsInjective(out.roots[s]) /\ \A r \in ToSet(out.roots[s]) : r + 1 \in DOMAIN out.nodes /\ OutParents(r + 1) = {}

AnimationsFit ==
  \A a \in ToSet(out.animations) :
    /\ \A c \in ToSet(a.channels) : c.times = Len(c.keys) /\ c.times > 0 /\ c.target + 1 \in DOMAIN out.nodes
    /\ a.frames > 1 => \E c \in ToSet(a.channels) : c.times > 1

IndicesAgree ==
  /\ mesh_offset = Len(out.meshes)
  /\ phase \in {"parse", "meshes", "skins", "write_animations", "done"} => node_offset = Len(out.nodes)
  /\ \A n \in DOMAIN info : info[n].mesh_nodes # <<>> \/ info[n].has_mesh => info[n].keep
  /\ phase = "meshes" => \A m \in ToSet(meshes) : (m.nodes = <<>> => m.scene >= 0) /\ \A i \in MaterialsOf(m) : materials[i].keep
  /\ phase = "done" => References /\ Trees /\ AnimationsFit
=============================================================================
