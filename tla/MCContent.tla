------------------------------ MODULE MCContent ------------------------------
(***************************************************************************)
(* What a window is drawn from: recordings, fonts, display lists and        *)
(* shader programs.  They share no state: each behaviour here is that of    *)
(* one blob image, of the font tables, of one display list builder or of    *)
(* the program files, and the state of the others stays what it was.        *)
(***************************************************************************)
EXTENDS BlobImages, BlobFonts, DisplayLists, ProgramDiskCache

VARIABLE content

vars == <<content, blobVars, fontVars, listVars, programVars>>

(* Two items of the same bounds, one apart from them and one across.        *)
Item(bounds, paint, font) ==
  [bounds |-> bounds, paint |-> paint, font |-> font]
MCItems == {Item({1}, "p", "f"), Item({1}, "q", "g"),
            Item({3}, "r", "f"), Item({1, 2}, "s", "h")}
MCVisibles == {{1, 2}, {1, 2, 3}}
MCRects == {{1}, {2}, {1, 2}}

(* Two fonts of one namespace, one of which has two instances, and one of   *)
(* another.                                                                 *)
MCFontKeys == {Key(1, 1), Key(1, 2), Key(2, 1)}
MCRawFonts == {Key(1, 1), Key(2, 1)}
MCInstanceFont ==
  [i \in {"a", "b", "c"} |-> IF i = "c" THEN Key(2, 1) ELSE Key(1, 1)]

(* Items with a leaf inside and outside of shadows, with a scope of their   *)
(* own, and with a backdrop that leaves nothing of its rectangle.           *)
MCClientItems ==
  {[view |-> "v", clip |-> {1, 2}, leaf |-> << {2} >>,
    ops |-> << <<"push", {2, 3}>>, <<"shadow">>, <<"clip", {1}>>,
               <<"push", {3}>>, <<"unclip">>, <<"unshadow">>,
               <<"push", {1, 2}>> >>],
   [view |-> "w", clip |-> {1, 2}, leaf |-> <<>>,
    ops |-> << <<"push", {1}>>, <<"clip", {2, 3}>>, <<"push", {1, 2, 3}>>,
               <<"unclip">>, <<"push", {2}>> >>],
   [view |-> "v", clip |-> {1, 3}, leaf |-> << {3} >>,
    ops |-> << <<"push", {1, 3}>> >>],
   [view |-> "v", clip |-> {1, 3}, leaf |-> <<>>,
    ops |-> << <<"shadow">>, <<"push", {3}>>, <<"unshadow">> >>],
   [view |-> "w", clip |-> {1, 3}, leaf |-> << {2, 3} >>,
    ops |-> << <<"shadow">>, <<"shadow">>, <<"push", {1, 3}>>,
               <<"unshadow">>, <<"backdrop", {1, 2, 3}, {3}>> >>]}

(* Two programs of one digest, which share a part of their data.            *)
MCBinaries == {[digest |-> "d", data |-> <<"a", "b">>],
               [digest |-> "d", data |-> <<"c", "b">>],
               [digest |-> "e", data |-> <<"a">>]}

Init ==
  /\ content \in {"blobs", "fonts", "lists", "programs"}
  /\ BlobInit /\ FontInit /\ ListInit /\ ProgramInit

BlobStep ==
  /\ content = "blobs" /\ BlobNext
  /\ UNCHANGED <<content, fontVars, listVars, programVars>>
FontStep ==
  /\ content = "fonts" /\ FontNext
  /\ UNCHANGED <<content, blobVars, listVars, programVars>>
ListStep ==
  /\ content = "lists" /\ ListNext
  /\ UNCHANGED <<content, blobVars, fontVars, programVars>>
ProgramStep ==
  /\ content = "programs" /\ ProgramNext
  /\ UNCHANGED <<content, blobVars, fontVars, listVars>>

Next == BlobStep \/ FontStep \/ ListStep \/ ProgramStep

Spec == Init /\ [][Next]_vars

(* The recordings of a blob image and the fonts they name: the two halves   *)
(* of what a rasterizer draws from (BlobsConsistent and FontsConsistent).   *)
BlobImagesConsistent == BlobsConsistent /\ FontsConsistent
=============================================================================
