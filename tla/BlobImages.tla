------------------------------ MODULE BlobImages ------------------------------
(***************************************************************************)
(* Blob images: recordings of a display list, one entry for each item with  *)
(* its bounds, its drawing commands and, as extra data, its fonts.  An      *)
(* update comes with a partial recording, which merge_blob_images           *)
(* completes from the old one.  Rasterizers work on a copy of the           *)
(* recordings while the handler goes on.  One blob is modelled: no method   *)
(* touches two.  The plane has one dimension and rectangles are sets of     *)
(* pixels.                                                                  *)
(***************************************************************************)
EXTENDS Naturals, Sequences, SequencesExt

CONSTANTS
  Items,     \* display items: records of their bounds, paint and font
  Rects,     \* the rectangles that are dirty or rasterized
  Visibles,  \* the visible rectangles
  MaxItems   \* bound on the length of a display list

BlobsAssumption ==
  /\ MaxItems \in Nat
  /\ {} \notin Rects \cup Visibles
  /\ \A x \in Items : DOMAIN x = {"bounds", "paint", "font"}

ASSUME BlobsAssumption

VARIABLES
  blobList,       \* the display list that the blob stands for
  blob_commands,  \* the handler's recording, in a sequence of at most one
  blobJob,        \* a rasterizer's copy and request, likewise
  blobPanic       \* a thread has panicked

blobVars == <<blobList, blob_commands, blobJob, blobPanic>>

ItemLists ==
  {l \in UNION {[1..n -> Items] : n \in 0..MaxItems} : IsInjective(l)}

-----------------------------------------------------------------------------
(* A recording is a stream of data and an index of where the data and the   *)
(* extra data of each item end.                                             *)
Commands(x) == << <<"draw", x.paint>>, <<"end", x.paint>> >>
Fonts(x)    == << <<"font", x.font>> >>

BlobWriter == [data |-> <<>>, index |-> <<>>]

new_entry(blob, extra_size, bounds, data) ==
  LET size == Len(blob.data) + Len(data)
  IN [data  |-> blob.data \o data,
      index |-> Append(blob.index, [end |-> size - extra_size,
                                    extra_end |-> size, bounds |-> bounds])]

Entries(blob) == 1..Len(blob.index)

read_entry(blob, i) ==
  [begin     |-> IF i = 1 THEN 0 ELSE blob.index[i - 1].extra_end,
   end       |-> blob.index[i].end,
   extra_end |-> blob.index[i].extra_end,
   bounds    |-> blob.index[i].bounds]

Bytes(blob, from, to) == SubSeq(blob.data, from + 1, to)

(* What a reader of a recording finds: the commands and fonts of each item. *)
Content(blob) ==
  [i \in Entries(blob) |->
     LET e == read_entry(blob, i)
     IN [bounds |-> e.bounds, commands |-> Bytes(blob, e.begin, e.end),
         fonts |-> Bytes(blob, e.end, e.extra_end)]]

ContentOf(list) ==
  [i \in DOMAIN list |-> [bounds |-> list[i].bounds,
                          commands |-> Commands(list[i]),
                          fonts |-> Fonts(list[i])]]

(* The data of an entry of the new list is there if what stays visible of   *)
(* it is dirty.                                                             *)
InNew_OfAll(bounds, dirty, preserved) == bounds \subseteq dirty
InNew(bounds, dirty, preserved) == (bounds \cap preserved) \subseteq dirty

(* What gfx/layers records: an entry for each item, with its data where the *)
(* merge will look for it.                                                  *)
Clean(x, dirty, preserved) == ~((x.bounds \cap preserved) \subseteq dirty)

RecordItem(blob, x, dirty, preserved) ==
  IF Clean(x, dirty, preserved)
  THEN new_entry(blob, 0, x.bounds, <<>>)
  ELSE new_entry(blob, Len(Fonts(x)), x.bounds, Commands(x) \o Fonts(x))

Partial(list, dirty, preserved) ==
  LET recorded[n \in 0..Len(list)] ==
        IF n = 0 THEN BlobWriter
        ELSE RecordItem(recorded[n - 1], list[n], dirty, preserved)
  IN recorded[Len(list)]

(* What it promises of two lists: what is inserted or deleted is dirty, and *)
(* two items that overlap and are not dirty keep their order.               *)
Promised(old, new, dirty, preserved) ==
  LET Kept(list) == {i \in DOMAIN list : Clean(list[i], dirty, preserved)}
  IN /\ {old[i] : i \in Kept(old)} = {new[k] : k \in Kept(new)}
     /\ \A i, j \in Kept(old) : \A k, l \in Kept(new) :
          i < j /\ old[i].bounds \cap old[j].bounds # {}
            /\ new[k] = old[i] /\ new[l] = old[j] => k < l

-----------------------------------------------------------------------------
(* Merging                                                                  *)

(* The old list is read until an entry of the given bounds; entries passed  *)
(* over wait in a cache, unless they are in the dirty rectangle.  The keys  *)
(* of the cache sort entries of the same bounds in the order of the list.   *)
Ignored_Touched(bounds, ignore_rect) == bounds \cap ignore_rect # {}
Ignored(bounds, ignore_rect) == bounds \subseteq ignore_rect

FirstCached_Newest(matching) == Max(matching)
FirstCached(matching) == Min(matching)

(* The entry found, 0 if the reader runs past the end.                      *)
next_entry_with_bounds(old, reader, bounds, ignore_rect) ==
  LET cached == {i \in reader.cache : old.index[i].bounds = bounds}
      unread == {i \in (reader.pos + 1)..Len(old.index) :
                   old.index[i].bounds = bounds}
      c == FirstCached(cached)
      u == Min(unread)
      passed == {i \in (reader.pos + 1)..(u - 1) :
                   ~Ignored(old.index[i].bounds, ignore_rect)}
  IN IF cached # {}
     THEN [entry |-> c, pos |-> reader.pos, cache |-> reader.cache \ {c}]
     ELSE IF unread # {}
     THEN [entry |-> u, pos |-> u, cache |-> reader.cache \cup passed]
     ELSE [reader EXCEPT !.entry = 0]

(* One entry of the new list.  "result" is the merged recording so far.     *)
MergeEntry(old, new, dirty, preserved, merge, n) ==
  LET e == read_entry(new, n)
      reader == next_entry_with_bounds(old, merge.reader, e.bounds, dirty)
      o == read_entry(old, reader.entry)
  IN IF merge.panicked THEN merge
     ELSE IF InNew(e.bounds, dirty, preserved)
     THEN [merge EXCEPT !.result =
             new_entry(@, e.extra_end - e.end, e.bounds,
                       Bytes(new, e.begin, e.extra_end))]
     ELSE IF reader.entry = 0 THEN [merge EXCEPT !.panicked = TRUE]
     ELSE [merge EXCEPT !.reader = reader,
             !.result = new_entry(@, o.extra_end - o.end, e.bounds,
                                  Bytes(old, o.begin, o.extra_end))]

merge_blob_images(old, new, dirty, old_visible, new_visible) ==
  LET merged[n \in 0..Len(new.index)] ==
        IF n = 0
        THEN [result |-> BlobWriter, panicked |-> FALSE,
              reader |-> [pos |-> 0, entry |-> 0, cache |-> {}]]
        ELSE MergeEntry(old, new, dirty, old_visible \cap new_visible,
                        merged[n - 1], n)
  IN merged[Len(new.index)]

-----------------------------------------------------------------------------
(* The handler                                                              *)

(* A new blob is recorded as a whole and has an item.                       *)
BlobAdd(list, visible) ==
  /\ ~blobPanic /\ blob_commands = <<>> /\ list # <<>>
  /\ blobList' = list
  /\ blob_commands' = << [data |-> Partial(list, visible, visible),
                          visible_rect |-> visible] >>
  /\ UNCHANGED <<blobJob, blobPanic>>

BlobUpdate(list, dirty, visible) ==
  LET old == blob_commands[1]
      preserved == old.visible_rect \cap visible
      merge == merge_blob_images(old.data, Partial(list, dirty, preserved),
                                 dirty, old.visible_rect, visible)
  IN /\ ~blobPanic /\ blob_commands # <<>>
     /\ Promised(blobList, list, dirty, preserved)
     /\ blobList' = list
     /\ blob_commands' = IF merge.panicked THEN blob_commands
                         ELSE << [data |-> merge.result,
                                  visible_rect |-> visible] >>
     /\ blobPanic' = merge.panicked
     /\ UNCHANGED blobJob

BlobDelete ==
  /\ ~blobPanic /\ blob_commands # <<>>
  /\ blob_commands' = <<>> /\ blobList' = <<>>
  /\ UNCHANGED <<blobJob, blobPanic>>

(* A rasterizer takes a copy of the map, whose recordings are not changed   *)
(* but replaced.  "list" is the list that the copy stands for.              *)
CreateRasterizer ==
  /\ ~blobPanic /\ blob_commands # <<>> /\ blobJob = <<>>
  /\ blobJob' = << [commands |-> blob_commands, list |-> blobList] >>
  /\ UNCHANGED <<blobList, blob_commands, blobPanic>>

JobCommands_Shared == blob_commands
JobCommands == blobJob[1].commands

(* The entries that Moz2DRenderCallback replays: those that meet the part   *)
(* to draw, one after another.  It goes to the data of the next entry       *)
(* whether or not it replays this one.                                      *)
ReplayedFrom_Last(blob, replayed, i) ==
  LET earlier == {j \in replayed : j < i}
  IN IF earlier = {} THEN 0 ELSE blob.index[Max(earlier)].extra_end
ReplayedFrom(blob, replayed, i) == read_entry(blob, i).begin

Replay(blob, drawn) ==
  LET replayed == {i \in Entries(blob) : blob.index[i].bounds \cap drawn # {}}
  IN [i \in replayed |->
        LET e == read_entry(blob, i)
        IN [bounds |-> e.bounds,
            commands |-> Bytes(blob, ReplayedFrom(blob, replayed, i), e.end),
            fonts |-> Bytes(blob, e.end, e.extra_end)]]

(* All that is asked for is drawn; a key that the copy lacks would panic.   *)
Rasterize ==
  /\ ~blobPanic /\ blobJob # <<>>
  /\ blobJob' = <<>>
  /\ blobPanic' = (JobCommands = <<>>)
  /\ UNCHANGED <<blobList, blob_commands>>

BlobInit ==
  /\ blobList = <<>> /\ blob_commands = <<>> /\ blobJob = <<>>
  /\ blobPanic = FALSE

BlobNext ==
  \/ \E list \in ItemLists, visible \in Visibles :
       \/ BlobAdd(list, visible)
       \/ \E dirty \in Rects : BlobUpdate(list, dirty, visible)
  \/ BlobDelete
  \/ CreateRasterizer \/ Rasterize

-----------------------------------------------------------------------------
(* However many partial recordings were merged into it, with whatever dirty *)
(* and visible rectangles, the handler's recording holds the items of the   *)
(* last display list, in its order, each with its own commands and fonts    *)
(* (merge_blob_images, CachedReader).                                       *)
MergedIsWhole ==
  blob_commands # <<>> => Content(blob_commands[1].data) = ContentOf(blobList)

(* No thread panics: the old list has every entry the merge looks for, and  *)
(* a rasterizer has the blob it is asked for, deleted since or not          *)
(* (next_entry_with_bounds, Moz2dBlobRasterizer::rasterize).                *)
NeverPanics == ~blobPanic

(* A rasterizer replays the items that meet what it draws of the list it    *)
(* was made for, whatever the handler has done since                        *)
(* (create_blob_rasterizer, Moz2DRenderCallback).                           *)
RasterShowsItsList ==
  blobJob # <<>> /\ JobCommands # <<>> =>
    LET list == blobJob[1].list
    IN \A drawn \in Rects :
         Replay(JobCommands[1].data, drawn)
           = [i \in {n \in DOMAIN list : list[n].bounds \cap drawn # {}} |->
                ContentOf(list)[i]]

BlobsConsistent == MergedIsWhole /\ NeverPanics /\ RasterShowsItsList
=============================================================================
