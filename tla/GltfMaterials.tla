---------------------------- MODULE GltfMaterials -----------------------------
(***************************************************************************)
(* The materials, textures and images of a glTF file: how gltfpack merges,  *)
(* trims and renumbers materials and textures, and how it encodes and       *)
(* writes images (src/gltf/material.cpp, encodewebp.cpp, encodebasis.cpp,   *)
(* write.cpp).                                                              *)
(*                                                                          *)
(* A material is a record: its factors (one value stands for all of them),  *)
(* whether the base colour is translucent, the texture views in its slots,  *)
(* the alpha mode and a few flags. A view with texture 0 is empty; a        *)
(* texture is an image, a sampler and the format it is declared in.         *)
(* References of the input (texture, image, material, node, ...) count      *)
(* from 1, with 0 for none; indices of the output count from 0 as in a      *)
(* file.                                                                    *)
(*                                                                          *)
(* An image is a record: whether it has an alpha channel, its format        *)
(* ("png" stands for PNG and JPEG), the name of its file without the        *)
(* extension (0 if it is part of the glTF file), and whether it is "fine",  *)
(* "unreadable" or "undecodable". Contents are the number of an image and   *)
(* a format.                                                                *)
(***************************************************************************)
EXTENDS Integers, Sequences, SequencesExt, FiniteSetsExt

\* Slots stand for all of a material's textures of a kind; what each is used for (TextureKind).
SlotKind == [base |-> "color", normal |-> "normal", occlusion |-> "attrib"]

MaterialDefaults == [keep |-> FALSE, needs_tangents |-> FALSE, unlit |-> FALSE, mesh_alpha |-> FALSE, texture_sets |-> {}, remap |-> 0]
TextureDefaults == [keep |-> FALSE, remap |-> 0]

-----------------------------------------------------------------------------
(* Equal materials *)

TexturesEqual(lhs, rhs) == lhs.image = rhs.image /\ lhs.sampler = rhs.sampler /\ lhs.format = rhs.format

\* Textures are equal by what they show, not by their position; an empty view equals only an empty view.
TextureViewsEqual(data, lhs, rhs) ==
  /\ lhs.transform = rhs.transform
  /\ lhs.texcoord = rhs.texcoord
  /\ \/ lhs.texture = rhs.texture
     \/ lhs.texture # 0 /\ rhs.texture # 0 /\ TexturesEqual(data.textures[lhs.texture], data.textures[rhs.texture])

\* The components' factors and textures (one overload for each kind of component).
MaterialComponentsEqual(data, lhs, rhs) ==
  /\ lhs.factors = rhs.factors /\ lhs.translucent = rhs.translucent
  /\ \A slot \in DOMAIN SlotKind : TextureViewsEqual(data, lhs.views[slot], rhs.views[slot])

MaterialsEqual(data, lhs, rhs) ==
  /\ MaterialComponentsEqual(data, lhs, rhs)
  /\ lhs.volume = rhs.volume /\ lhs.blend = rhs.blend /\ lhs.unlit = rhs.unlit

\* A mistake: the textures of a material are not compared.
MaterialRemapNoTextures(data, settings, i) ==
  LET free(m) == ~(settings.keep_materials /\ data.materials[m].name # 0)
      same == {j \in 1..(i - 1) : free(j) /\ data.materials[i].factors = data.materials[j].factors}
  IN  IF free(i) /\ same # {} THEN Min(same) ELSE i

\* A mistake: a named material that is to be kept may stand for others, but others may also replace it.
MaterialRemapNamed(data, settings, i) ==
  LET same == {j \in 1..(i - 1) : MaterialsEqual(data, data.materials[i], data.materials[j])}
  IN  IF same # {} THEN Min(same) ELSE i

\* mergeMeshMaterials: a material becomes the first equal one before it, unless names are to be kept.
MaterialRemap(data, settings, i) ==
  LET free(m) == ~(settings.keep_materials /\ data.materials[m].name # 0)
      same == {j \in 1..(i - 1) : free(j) /\ MaterialsEqual(data, data.materials[i], data.materials[j])}
  IN  IF free(i) /\ same # {} THEN Min(same) ELSE i

MergeMeshMaterials(data, meshes, settings) ==
  LET remap == [i \in 0..Len(data.materials) |-> IF i = 0 THEN 0 ELSE MaterialRemap(data, settings, i)]
  IN  [m \in DOMAIN meshes |->
         [meshes[m] EXCEPT !.material = remap[@],
                           !.variants = [v \in DOMAIN @ |-> [@[v] EXCEPT !.material = remap[@]]]]]

\* The materials a mesh may be drawn with.
MaterialsOf(mesh) == ({mesh.material} \cup {v.material : v \in ToSet(mesh.variants)}) \ {0}

\* markNeededMaterials
MarkNeededMaterials(data, materials, meshes, settings) ==
  LET used == UNION {MaterialsOf(m) : m \in ToSet(meshes)}
  IN  [i \in DOMAIN materials |->
         [materials[i] EXCEPT !.keep = @ \/ i \in used \/ (settings.keep_materials /\ data.materials[i].name # 0)]]

-----------------------------------------------------------------------------
(* What materials ask of meshes, textures and images *)

\* analyzeMaterialTexture for all filled views of a material.
AnalyzeMaterial(material, info) ==
  LET filled == {slot \in DOMAIN SlotKind : material.views[slot].texture # 0}
  IN  [info EXCEPT !.texture_sets = @ \cup {material.views[slot].texcoord : slot \in filled},
                   !.needs_tangents = @ \/ \E slot \in filled : SlotKind[slot] = "normal",
                   !.unlit = @ \/ material.unlit]

AnalyzeMaterials(data, materials) == [i \in DOMAIN materials |-> AnalyzeMaterial(data.materials[i], materials[i])]

\* All textures of all materials of the file are kept, drawn or not.
AnalyzeTextures(data) ==
  LET views == {m.views[slot] : m \in ToSet(data.materials), slot \in DOMAIN SlotKind}
  IN  [t \in DOMAIN data.textures |-> [TextureDefaults EXCEPT !.keep = \E view \in views : view.texture = t]]

\* A mistake: a texture that is left out keeps the position 0.
MergeTexturesNoRemap(data, textures) ==
  LET first(i) == ~\E j \in 1..(i - 1) : textures[j].keep /\ TexturesEqual(data.textures[i], data.textures[j])
  IN  [i \in DOMAIN textures |->
         IF ~textures[i].keep THEN textures[i]
         ELSE [keep |-> first(i),
               remap |-> IF first(i) THEN Cardinality({j \in 1..(i - 1) : textures[j].keep /\ first(j)}) ELSE 0]]

\* mergeTextures: a kept texture with an equal kept one before it is left out and takes that one's position; the rest is
\* numbered in order.  As a texture left out is no longer "kept", the first of several equal ones is found.
MergeTextures(data, textures) ==
  LET equal(i) == {j \in 1..(i - 1) : textures[j].keep /\ TexturesEqual(data.textures[i], data.textures[j])}
      position(i) == Cardinality({j \in 1..(i - 1) : textures[j].keep /\ equal(j) = {}})
  IN  [i \in DOMAIN textures |->
         IF ~textures[i].keep THEN textures[i]
         ELSE [keep |-> equal(i) = {}, remap |-> position(IF equal(i) = {} THEN i ELSE Min(equal(i)))]]

\* shouldKeepAlpha: the factor, or the image of the base colour.
ShouldKeepAlpha(data, material) ==
  \/ material.translucent
  \/ /\ material.views.base.texture # 0
     /\ LET image == data.images[data.textures[material.views.base.texture].image]
        IN  image.alpha /\ image.fate # "unreadable"

\* A mistake: vertex colours are not asked.
OptimizeMaterialsNoMesh(data, materials) ==
  [i \in DOMAIN materials |-> [data.materials[i] EXCEPT !.blend = @ /\ ShouldKeepAlpha(data, data.materials[i])]]

\* optimizeMaterials: blending that nothing can make visible is turned off, in the file's own materials.
OptimizeMaterials(data, materials) ==
  [i \in DOMAIN materials |->
     [data.materials[i] EXCEPT !.blend = @ /\ (materials[i].mesh_alpha \/ ShouldKeepAlpha(data, data.materials[i]))]]

-----------------------------------------------------------------------------
(* Writing *)

\* writeTextureInfo: the position of the texture, with the view's transform composed with the one that undoes the
\* quantization of the coordinates.
WriteTextureInfo(view, textures, qt) ==
  [texture |-> textures[view.texture].remap, texcoord |-> view.texcoord, transform |-> view.transform, qt |-> qt]

NoTexture == <<>>

\* writeMaterial
WriteMaterial(data, material, textures, qt) ==
  [factors |-> material.factors, translucent |-> material.translucent, blend |-> material.blend,
   volume |-> material.volume, unlit |-> material.unlit, name |-> material.name,
   views |-> [slot \in DOMAIN SlotKind |->
     IF material.views[slot].texture = 0 THEN NoTexture ELSE WriteTextureInfo(material.views[slot], textures, qt)]]

-----------------------------------------------------------------------------
(* Images: what they are used for, and how they are encoded and written *)

\* TextureKind, in its order.
Kinds == <<"generic", "color", "normal", "attrib">>

\* analyzeMaterialTexture: of the kinds that an image is used as, the first one after "generic".
AnalyzeImages(data) ==
  LET uses(i) == {SlotKind[slot] : slot \in {s \in DOMAIN SlotKind :
                    \E m \in ToSet(data.materials) :
                      m.views[s].texture # 0 /\ data.textures[m.views[s].texture].image = i}}
  IN  [i \in DOMAIN data.images |->
         IF uses(i) = {} THEN "generic" ELSE Kinds[Min({k \in DOMAIN Kinds : Kinds[k] \in uses(i)})]]

Requested(settings, format) == \E kind \in ToSet(Kinds) : settings.texture_mode[kind] = format

-----------------------------------------------------------------------------
(* Encoding: a string for each image, which is empty, an error or the encoded image *)

NotEncoded == <<>>
Error == [image |-> 0, format |-> "error"]
Contents(i, format) == [image |-> i, format |-> format]

\* encodeWebP, and prepareEncode with the compressor: an image that is neither PNG nor JPEG is left alone.
Encode(data, i, format) ==
  LET image == data.images[i]
  IN  IF image.fate = "unreadable" THEN Error
      ELSE IF image.format # "png" THEN NotEncoded
      ELSE IF image.fate = "undecodable" THEN Error
      ELSE Contents(i, format)

\* encodeImagesBasis: one after the other is prepared in a temporary file, compressed, and collected.
EncodeImagesBasis(data, images, settings, encoded) ==
  [i \in DOMAIN encoded |-> IF settings.texture_mode[images[i]] = "ktx2" THEN Encode(data, i, "ktx2") ELSE encoded[i]]

\* What a thread of encodeImagesWebP makes of the image it has taken.
EncodeImageWebP(data, images, settings, encoded, i) ==
  IF settings.texture_mode[images[i]] = "webp" /\ Encode(data, i, "webp") # NotEncoded
    THEN [encoded EXCEPT ![i] = Encode(data, i, "webp")] ELSE encoded

-----------------------------------------------------------------------------
(* Writing *)

\* writeImageError
BrokenImage == [file |-> <<>>, contents |-> Error]

\* writeImageData: in a file of its own, which is named like that of the input and after the format, or embedded.
WriteImageData(image, contents, settings) ==
  [file |-> IF ~settings.texture_embed /\ image.file # 0 THEN <<image.file, contents.format>> ELSE <<>>,
   contents |-> contents]

\* writeImage: an encoded image, the file of the input, or a copy of it.
WriteImage(data, settings, encoded, i) ==
  LET image == data.images[i]
  IN  IF encoded # NotEncoded
        THEN IF encoded = Error THEN BrokenImage ELSE WriteImageData(image, encoded, settings)
      ELSE IF image.file # 0 /\ settings.texture_ref THEN [file |-> <<>>, contents |-> Contents(i, image.format)]
      ELSE IF image.fate = "unreadable" THEN BrokenImage
      ELSE WriteImageData(image, Contents(i, image.format), settings)

\* The files next to the output: an image replaces one of the same name.
ImageFiles(written) ==
  LET names == {written[i].file : i \in DOMAIN written} \ {<<>>}
  IN  [name \in names |-> written[Max({i \in DOMAIN written : written[i].file = name})].contents]

\* A mistake: with -tw all textures refer to WebP images, whatever their kind.
WriteTextureAnyKind(texture, images, settings) ==
  [image |-> texture.image - 1, sampler |-> texture.sampler,
   format |-> IF texture.format = "png" /\ Requested(settings, "webp") THEN "webp" ELSE texture.format]

\* writeTexture: an image in PNG or JPEG is referred to in the format it is encoded in.
WriteTexture(texture, images, settings) ==
  LET mode == settings.texture_mode[images[texture.image]]
  IN  [image |-> texture.image - 1, sampler |-> texture.sampler,
       format |-> IF texture.format = "png" /\ mode # "raw" THEN mode ELSE texture.format]
=============================================================================
