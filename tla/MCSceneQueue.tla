----------------------------- MODULE MCSceneQueue -----------------------------
(****************************************************************************)
(* Instances of SceneQueue for TLC.                                         *)
(*  - Image: an image needs two packages and a document. The first        *)
(*    package and the document are made from one compilation, which needs   *)
(*    a preparation, asked for by itself too, and the sysroot of a library; *)
(*    the package also needs a tool, which it does not miss once it is      *)
(*    restored. The second package insists on the sysroot. The library was  *)
(*    compiled by an earlier build. Its sysroot may turn out to equal an    *)
(*    older one: what is above it then has an older hash, and that of the   *)
(*    document was restored before.                                         *)
(*  - Twins: one package on one library, in two multiconfigs.               *)
(*  - Guest: the same, restored from the cache on a third package, which    *)
(*    only the second multiconfig has and which insists on the library.     *)
(****************************************************************************)
EXTENDS SceneQueue, TLC

CONSTANTS image, pkg1, comp1, prep1, pkg2, comp2, sys, comp3, tool, doc

ImageDepends ==
    image :> {pkg1, pkg2, doc} @@ doc :> {comp1} @@ pkg1 :> {comp1, tool} @@ comp1 :> {prep1, sys}
    @@ pkg2 :> {comp2} @@ comp2 :> {sys} @@ sys :> {comp3} @@ comp3 :> {} @@ tool :> {} @@ prep1 :> {}
ImageTasks == DOMAIN ImageDepends
ImageScene == {pkg1, pkg2, doc, sys, tool}
ImageHardDeps == [t \in ImageScene |-> IF t = pkg2 THEN {sys} ELSE {}]
ImageHash == [t \in ImageScene |-> t]
ImageConfig == [t \in ImageScene |-> 0]

\* The sysroot turns out to be that of an earlier build, which left the first
\* package in place.
CONSTANTS sysold, pkg1old, pkg2old, docold
ImageNewHashes ==
    sys :> {sysold} @@ pkg1 :> {pkg1old} @@ pkg2 :> {pkg2old}
    @@ doc :> {docold} @@ tool :> {}
ImageHashes == ImageScene \cup UNION {ImageNewHashes[t] : t \in ImageScene}
ImageStamps == [t \in ImageScene |-> IF t = doc THEN {docold} ELSE {}]

CONSTANTS all, p1, l1, c1, p2, l2, c2, q, pnew, lnew

TwinDepends ==
    all :> {p1, p2} @@ p1 :> {c1} @@ c1 :> {l1} @@ l1 :> {}
    @@ p2 :> {c2} @@ c2 :> {l2} @@ l2 :> {}
TwinTasks == DOMAIN TwinDepends
TwinScene == {p1, l1, p2, l2}
TwinHardDeps == p1 :> {l1} @@ p2 :> {l2} @@ l1 :> {} @@ l2 :> {}
TwinHash == p1 :> p1 @@ p2 :> p1 @@ l1 :> l1 @@ l2 :> l1
TwinNewHashes == [t \in TwinScene |-> IF t \in {l1, l2} THEN {lnew} ELSE {pnew}]
TwinHashes == {p1, l1, pnew, lnew}
TwinStamps == [t \in TwinScene |-> {}]
TwinConfig == p1 :> 0 @@ p2 :> 1 @@ l1 :> 0 @@ l2 :> 1

GuestDepends == p1 :> {l1} @@ l1 :> {} @@ p2 :> {l2} @@ l2 :> {} @@ q :> {l2}
GuestTasks == DOMAIN GuestDepends
GuestHash == TwinHash @@ q :> q
GuestNone == [t \in GuestTasks |-> {}]
GuestConfig == TwinConfig @@ q :> 1
=============================================================================
