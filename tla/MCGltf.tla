------------------------------- MODULE MCGltf -------------------------------
(* Files and settings for TLC: small files around one hazard each, with the settings that matter to it. *)
EXTENDS GltfPicture

-----------------------------------------------------------------------------
(* Parts of files *)

Settings == [keep_nodes |-> FALSE, keep_materials |-> FALSE, keep_attributes |-> FALSE, mesh_dedup |-> TRUE,
             mesh_merge |-> FALSE, mesh_instancing |-> FALSE, positions |-> "grid", quantize_texcoords |-> TRUE,
             anim_const |-> FALSE, resample |-> TRUE, texture_mode |-> [kind \in ToSet(Kinds) |-> "raw"], texture_jobs |-> 1,
             texture_embed |-> FALSE, texture_ref |-> FALSE]

\* A node below a parent with a mesh.
Node(parent, moved, mesh) ==
  [parent |-> parent, moved |-> moved, weights |-> 0, named |-> FALSE, light |-> FALSE, mesh |-> mesh, skin |-> 0,
   instances |-> 0]

NoView == [texture |-> 0, texcoord |-> 0, transform |-> 0]
Texture(t, uv) == [texture |-> t, texcoord |-> uv, transform |-> 0]
Material(factors, base) ==
  [factors |-> factors, translucent |-> FALSE, blend |-> FALSE, volume |-> FALSE, unlit |-> FALSE, name |-> 0,
   views |-> [base |-> base, normal |-> NoView, occlusion |-> NoView]]

Primitive(geometry, material) ==
  [geometry |-> geometry, streams |-> {"position", "normal", "uv0", "uv1"}, type |-> "triangles", material |-> material,
   targets |-> 0, target_weights |-> 0, variants |-> <<>>]

Track(node, path, keys) == [node |-> node, path |-> path, keys |-> keys, base |-> 0]

File(nodes, primitives) ==
  [nodes |-> nodes, scenes |-> <<InOrder({n \in DOMAIN nodes : nodes[n].parent = 0}, Len(nodes))>>, meshes |-> primitives,
   materials |-> <<>>, textures |-> <<>>, images |-> <<>>, skins |-> <<>>, animations |-> <<>>]

Pair(file, s) == [data |-> file, settings |-> s]

-----------------------------------------------------------------------------
(* Files *)

Options(dedup, merge, instancing, positions) ==
  [Settings EXCEPT !.mesh_dedup = dedup, !.mesh_merge = merge, !.mesh_instancing = instancing, !.positions = positions]

MeshOptions == {Settings, Options(TRUE, TRUE, FALSE, "grid"), Options(TRUE, FALSE, TRUE, "grid"),
                Options(TRUE, FALSE, FALSE, "unit"), Options(TRUE, TRUE, TRUE, "unit"), Options(FALSE, TRUE, FALSE, "unit")}

\* Three nodes that draw two meshes with equal or different geometry, in every hierarchy, one of them animated (or not).
Parents == {<<0, 0, 0>>, <<0, 1, 1>>, <<0, 1, 2>>, <<2, 0, 2>>}
Hierarchies ==
  {Pair([File([n \in 1..3 |-> Node(parents[n], n \in moved, used[n])],
              <<<<Primitive("a", 0)>>, <<Primitive(second, 0)>>>>)
           EXCEPT !.animations = anims], s) :
     parents \in Parents, moved \in {{}, {1, 3}, {1, 2, 3}},
     used \in {<<1, 1, 2>>, <<1, 2, 1>>, <<1, 2, 2>>, <<0, 1, 2>>},
     second \in {"a", "b"},
     anims \in {<<>>, <<<<Track(1, "translation", <<0, 1>>)>>>>, <<<<Track(2, "translation", <<0, 1>>), Track(3, "rotation", <<0, 1>>)>>>>},
     s \in MeshOptions}

\* Names, and lights below meshes.
Names ==
  {Pair(File(<<[Node(0, a, 1) EXCEPT !.named = first], [Node(1, b, used) EXCEPT !.named = second, !.light = light],
               Node(0, FALSE, 2)>>,
             <<<<Primitive("a", 0)>>, <<Primitive("b", 0)>>, <<Primitive("c", 0)>>>>), [s EXCEPT !.keep_nodes = keep]) :
     a, b, first, second, light, keep \in BOOLEAN, used \in {1, 3}, s \in {t \in MeshOptions : t.mesh_dedup}}

\* Two scenes that share roots or not.
Scenes ==
  {Pair([File(<<Node(0, TRUE, 1), Node(0, moved, 1), Node(2, FALSE, 2)>>, <<<<Primitive("a", 0)>>, <<Primitive(second, 0)>>>>)
           EXCEPT !.scenes = scenes], s) :
     moved \in BOOLEAN, second \in {"a", "b"}, scenes \in {<<<<1, 2>>>>, <<<<1>>, <<2>>>>, <<<<1, 2>>, <<2>>>>, <<<<1>>, <<1>>>>, <<<<2>>>>, <<<<2>>, <<2>>, <<2>>>>},
     s \in {t \in MeshOptions : t.positions = "grid"}}

\* Instanced nodes, next to nodes with the same mesh.
Instanced ==
  {Pair([File(<<Node(0, TRUE, 0), [Node(1, FALSE, 1) EXCEPT !.instances = 2], Node(parent, TRUE, used)>>,
              <<<<Primitive("a", 0), Primitive("b", 0)>>, <<Primitive(second, 0)>>>>)
           EXCEPT !.animations = anims], s) :
     anims \in {<<>>, <<<<Track(1, "translation", <<0, 1>>)>>>>, <<<<Track(3, "translation", <<0, 1>>)>>>>},
     parent \in {0, 1}, used \in {1, 2}, second \in {"a", "flat"}, s \in MeshOptions}

\* Materials: equal and different ones, textures that are equal or not, sets of coordinates, variants, blending.
Looks == {Material(1, NoView), Material(1, Texture(3, 0)), Material(1, Texture(2, 0)), Material(1, Texture(1, 1)),
          [Material(1, Texture(1, 1)) EXCEPT !.blend = TRUE], [Material(1, NoView) EXCEPT !.blend = TRUE, !.unlit = TRUE],
          [Material(1, NoView) EXCEPT !.name = 1], [Material(1, Texture(3, 0)) EXCEPT !.volume = TRUE]}

WithMaterials(nodes, primitives, mats) ==
  LET Shows(image) == [image |-> image, sampler |-> 1, format |-> "png"]
      Image(alpha) == [alpha |-> alpha, format |-> "png", file |-> 0, fate |-> "fine"]
  IN  [File(nodes, primitives) EXCEPT
         !.materials = mats, !.textures = <<Shows(2), Shows(1), Shows(1)>>, !.images = <<Image(FALSE), Image(TRUE)>>]

Coloured(p) == [p EXCEPT !.streams = @ \cup {"color"}]

Materials ==
  {Pair(WithMaterials(<<Node(0, TRUE, 1), Node(0, TRUE, 2)>>,
                      <<<<Coloured(Primitive("clear", 1)), Primitive("b", 2)>>, <<Coloured(Primitive("clear", 2))>>>>, <<x, y>>),
        [s EXCEPT !.mesh_merge = merge, !.mesh_dedup = dedup]) :
     x, y \in Looks, dedup, merge \in BOOLEAN,
     s \in {Settings, [Settings EXCEPT !.keep_materials = TRUE],
            [Settings EXCEPT !.keep_attributes = TRUE, !.quantize_texcoords = FALSE]}}

VariantFiles ==
  {Pair(WithMaterials(<<Node(0, TRUE, 1), Node(0, FALSE, 2)>>,
                      <<<<[Primitive("a", 1) EXCEPT !.variants = <<[variant |-> 1, material |-> 2]>>]>>,
                        <<[Primitive(second, used) EXCEPT !.variants = mapped]>>>>, <<x, y, z>>), s) :
     x \in Looks, y, z \in {Material(2, Texture(3, 0)), Material(1, Texture(1, 1)), Material(1, NoView)}, second \in {"b", "clear"}, used \in {1, 3},
     mapped \in {<<>>, <<[variant |-> 1, material |-> 3]>>}, s \in {Options(TRUE, TRUE, FALSE, "grid")}}

\* Images: used for one or two kinds, encoded by one to three threads or left as they are; files of their own or not.
Modes == {[kind \in ToSet(Kinds) |-> mode] : mode \in {"raw", "webp", "ktx2"}}
           \cup {[kind \in ToSet(Kinds) |-> IF kind = "color" THEN "webp" ELSE mode] : mode \in {"raw", "ktx2"}}
ImageFilesOf(file, modes, jobs, fates) ==
  {Pair([File(<<Node(0, TRUE, 1)>>, <<<<Primitive("a", 1), Primitive("b", 2)>>>>) EXCEPT
           !.materials = <<[Material(1, Texture(1, 0)) EXCEPT !.views.normal = Texture(second, 0), !.blend = TRUE],
                           Material(1, Texture(3, 0))>>,
           !.textures = <<[image |-> 1, sampler |-> 1, format |-> "png"], [image |-> 2, sampler |-> 1, format |-> "png"],
                          [image |-> 3, sampler |-> 1, format |-> format]>>,
           !.images = <<[alpha |-> TRUE, format |-> "png", file |-> file[1], fate |-> fate],
                        [alpha |-> FALSE, format |-> "png", file |-> file[2], fate |-> "fine"],
                        [alpha |-> FALSE, format |-> format, file |-> file[3], fate |-> "fine"]>>],
        [Settings EXCEPT !.texture_mode = mode, !.texture_jobs = n, !.texture_embed = embed]) :
     second \in {1, 2}, format \in {"png", "webp"}, mode \in modes, n \in jobs, fate \in fates, embed \in BOOLEAN}
Images ==
  ImageFilesOf(<<1, 2, 0>>, Modes, {2}, {"fine", "unreadable", "undecodable"})
    \cup ImageFilesOf(<<1, 1, 2>>, Modes, {0, 3}, {"fine"})
    \cup {[in EXCEPT !.settings.texture_ref = TRUE] : in \in ImageFilesOf(<<1, 1, 2>>, {[kind \in ToSet(Kinds) |-> "raw"]}, {1}, {"fine", "unreadable"})}

\* Skins: two nodes with one mesh, or two equal meshes with two skins; joints are nodes of the same file.
Skinned(p) == [p EXCEPT !.streams = @ \cup {"joints"}]
Skins ==
  {Pair([File(<<Node(0, TRUE, 0), Node(1, TRUE, 0), [Node(0, moved, 1) EXCEPT !.skin = 1], [Node(0, moved, used) EXCEPT !.skin = skin]>>,
              <<<<Skinned(Primitive("a", 0))>>, <<Skinned(Primitive("a", 0))>>>>)
           EXCEPT !.skins = <<<<1, 2>>, <<2>>>>, !.animations = anims], [s EXCEPT !.keep_attributes = keep]) :
     moved \in BOOLEAN, used \in {1, 2}, skin \in {0, 1, 2}, keep \in BOOLEAN,
     anims \in {<<>>, <<<<Track(2, "translation", <<0, 1>>)>>>>}, s \in MeshOptions}

\* Morph targets, their weights and animations of weights.
Morphed(p, weights) == [p EXCEPT !.targets = 1, !.target_weights = weights]
Morphs ==
  {Pair([File(<<[Node(0, moved, 1) EXCEPT !.weights = weights], Node(1, FALSE, 2)>>,
              <<<<Morphed(Primitive("a", 0), own), Morphed(Primitive("b", 0), own)>>, <<Morphed(Primitive(other, 0), 0)>>>>)
           EXCEPT !.animations = anims], s) :
     moved \in BOOLEAN, weights, own \in {0, 1}, other \in {"a", "c"},
     anims \in {<<>>, <<<<Track(1, "weights", <<0, 1>>)>>>>, <<<<Track(2, "weights", <<0, 1>>)>>>>,
                     <<<<Track(1, "weights", <<1, 1>>), Track(1, "translation", <<0, 0>>)>>>>},
     s \in MeshOptions}

\* Animations: tracks that move, stay somewhere else, or stay where the node is, of two nodes.
AnimationFiles ==
  {Pair([File(<<Node(0, TRUE, 1), Node(1, TRUE, 0)>>, <<<<Primitive("a", 0)>>>>)
           EXCEPT !.animations = <<<<Track(1, "translation", x), Track(1, "rotation", y)>>, <<Track(2, "translation", z)>>>>],
        [Settings EXCEPT !.anim_const = keep, !.resample = resample]) :
     x, y, z \in {<<0, 1>>, <<1, 1>>, <<0, 0>>, <<1>>}, keep, resample \in BOOLEAN}

MCInputs == Hierarchies \cup Names \cup Scenes \cup Instanced \cup Materials \cup VariantFiles \cup Skins \cup Morphs \cup Images
              \cup AnimationFiles
=============================================================================
