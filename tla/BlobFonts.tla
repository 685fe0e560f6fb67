------------------------------ MODULE BlobFonts ------------------------------
(***************************************************************************)
(* The fonts of blob images: two tables of the process, under one lock.     *)
(* The handlers, which take turns on the thread that uses the API, fill     *)
(* them from the fonts of a recording before it is rasterized; rasterizers, *)
(* on other threads, look fonts up; the render thread clears all at         *)
(* shutdown.  Each access is a critical section of its own.                 *)
(***************************************************************************)
EXTENDS Integers, Sequences, SequencesExt, FiniteSetsExt, Functions

CONSTANTS
  FontKeys,       \* records of a namespace and a handle
  RawFonts,       \* those whose template is data, not a native handle
  InstanceFont,   \* the font of each instance
  MAX_ENTRIES,    \* length of the log of deletions
  MaxDeletions    \* bound on the deletions

FontsAssumption ==
  /\ MAX_ENTRIES \in Nat \ {0} /\ MaxDeletions \in Nat
  /\ RawFonts \subseteq FontKeys
  /\ FontKeys \subseteq [mNamespace : Nat \ {0}, handle : Nat \ {0}]
  /\ \A i \in DOMAIN InstanceFont : InstanceFont[i] \in FontKeys

ASSUME FontsAssumption

VARIABLES
  sFontDataTable,  \* the fonts: has the unscaled font been made?
  sBlobFontTable,  \* the instances: has the scaled font been made?
  sFontDeleteLog,  \* the ring of deletions and its next entry
  fontArcs,        \* how often a font holds the data of its template
  fontRequest,     \* prepare_request at work, in a sequence of at most one
  fontGone,        \* keys and instances that the API has deleted
  fontReady,       \* instances prepared, and not deleted or cleared since
  fontDeletions    \* all that was logged

fontVars == <<sFontDataTable, sBlobFontTable, sFontDeleteLog, fontArcs,
              fontRequest, fontGone, fontReady, fontDeletions>>

Instances == DOMAIN InstanceFont

(* Entries of the log: a key; for a namespace its key 0, which no font has; *)
(* all ones, written as a word with a sign, for all.                        *)
Key(ns, handle) == [mNamespace |-> ns, handle |-> handle]
ALL == Key(-1, -1)
NoEntry == Key(0, 0)
NamespaceEntry(f) == [f EXCEPT !.handle = 0]

FontInit ==
  /\ sFontDataTable = <<>> /\ sBlobFontTable = <<>>
  /\ sFontDeleteLog = [mEntries |-> [n \in 0..(MAX_ENTRIES - 1) |-> NoEntry],
                       mNextEntry |-> 0]
  /\ fontArcs = [f \in FontKeys |-> 0]
  /\ fontRequest = <<>> /\ fontReady = {}
  /\ fontGone = [fonts |-> {}, instances |-> {}]
  /\ fontDeletions = <<>>

-----------------------------------------------------------------------------
(* The log                                                                  *)
AddEntry(entry) ==
  /\ Len(fontDeletions) < MaxDeletions
  /\ fontDeletions' = Append(fontDeletions, entry)
  /\ sFontDeleteLog' =
       [mEntries |-> [sFontDeleteLog.mEntries EXCEPT
                        ![sFontDeleteLog.mNextEntry] = entry],
        mNextEntry |-> (sFontDeleteLog.mNextEntry + 1) % MAX_ENTRIES]

Reasons(f) == {f, NamespaceEntry(f), ALL}

(* The entries in the order of the search.                                  *)
Searched_Next ==
  [n \in 1..MAX_ENTRIES |->
     sFontDeleteLog.mEntries[(sFontDeleteLog.mNextEntry + MAX_ENTRIES + 1 - n)
                               % MAX_ENTRIES]]
Searched ==
  [n \in 1..MAX_ENTRIES |->
     sFontDeleteLog.mEntries[(sFontDeleteLog.mNextEntry + MAX_ENTRIES - n)
                               % MAX_ENTRIES]]

(* The entry that explains why a font is not there, if one is found.        *)
Find(f) ==
  LET found == {n \in 1..MAX_ENTRIES : Searched[n] \in Reasons(f)}
  IN IF found = {} THEN NoEntry ELSE Searched[Min(found)]

-----------------------------------------------------------------------------
(* Preparing a recording's fonts                                            *)

(* A recording may name instances that were deleted since it was made.      *)
prepare_request(fonts) ==
  /\ fontRequest = <<>>
  /\ fontRequest' = << [fonts |-> fonts, step |-> "HasFontData",
                        unscaled |-> {}, scaled |-> {}, cleared |-> FALSE] >>
  /\ UNCHANGED <<sFontDataTable, sBlobFontTable, sFontDeleteLog, fontArcs,
                 fontGone, fontReady, fontDeletions>>

Request == fontRequest[1]
NextFont == Head(Request.fonts)
GoesTo(step) == fontRequest' = << [Request EXCEPT !.step = step] >>

(* An instance seen before in the request, or that the API does not know.   *)
Skipped == NextFont \in Request.scaled \cup fontGone.instances

EndRequest ==
  /\ fontRequest # <<>> /\ Request.fonts = <<>>
  /\ fontRequest' = <<>>
  /\ UNCHANGED <<sFontDataTable, sBlobFontTable, sFontDeleteLog, fontArcs,
                 fontGone, fontReady, fontDeletions>>

SkipFont ==
  /\ fontRequest # <<>> /\ Request.fonts # <<>>
  /\ Request.step = "HasFontData" /\ Skipped
  /\ fontRequest' = << [Request EXCEPT !.fonts = Tail(@),
                                       !.scaled = @ \cup {NextFont}] >>
  /\ UNCHANGED <<sFontDataTable, sBlobFontTable, sFontDeleteLog, fontArcs,
                 fontGone, fontReady, fontDeletions>>

(* The table is asked once in a request for each font.                      *)
HasFontData ==
  LET f == InstanceFont[NextFont]
      has == f \in Request.unscaled \/ f \in DOMAIN sFontDataTable
  IN /\ fontRequest # <<>> /\ Request.fonts # <<>>
     /\ Request.step = "HasFontData" /\ ~Skipped
     /\ fontRequest' =
          << [Request EXCEPT !.unscaled = @ \cup {f},
                !.step = IF has THEN "AddBlobFont" ELSE "AddFontData"] >>
     /\ UNCHANGED <<sFontDataTable, sBlobFontTable, sFontDeleteLog, fontArcs,
                    fontGone, fontReady, fontDeletions>>

(* A font of a native handle has its unscaled font at once; one of data     *)
(* holds the data.                                                          *)
AddFontData ==
  LET f == InstanceFont[NextFont]
      new == f \notin DOMAIN sFontDataTable
  IN /\ fontRequest # <<>> /\ Request.step = "AddFontData"
     /\ sFontDataTable' =
          [g \in DOMAIN sFontDataTable \cup {f} |->
             IF g \in DOMAIN sFontDataTable THEN sFontDataTable[g]
             ELSE g \notin RawFonts]
     /\ fontArcs' = [fontArcs EXCEPT ![f] =
                       IF new /\ f \in RawFonts THEN @ + 1 ELSE @]
     /\ GoesTo("AddBlobFont")
     /\ UNCHANGED <<sBlobFontTable, sFontDeleteLog, fontGone, fontReady,
                    fontDeletions>>

AddBlobFont ==
  LET i == NextFont
  IN /\ fontRequest # <<>> /\ Request.step = "AddBlobFont"
     /\ sBlobFontTable' =
          [j \in DOMAIN sBlobFontTable \cup {i} |->
             j \in DOMAIN sBlobFontTable /\ sBlobFontTable[j]]
     /\ fontReady' = IF Request.cleared THEN fontReady ELSE fontReady \cup {i}
     /\ fontRequest' = << [Request EXCEPT !.fonts = Tail(@),
                                          !.step = "HasFontData",
                                          !.scaled = @ \cup {i}] >>
     /\ UNCHANGED <<sFontDataTable, sFontDeleteLog, fontArcs, fontGone,
                    fontDeletions>>

-----------------------------------------------------------------------------
(* Erasing a font gives up its data.                                        *)
Erase(fonts, instances) ==
  /\ sFontDataTable' = Restrict(sFontDataTable, DOMAIN sFontDataTable \ fonts)
  /\ sBlobFontTable' =
       Restrict(sBlobFontTable, DOMAIN sBlobFontTable \ instances)
  /\ fontArcs' = [f \in FontKeys |->
                    IF f \in fonts \cap DOMAIN sFontDataTable \cap RawFonts
                    THEN fontArcs[f] - 1 ELSE fontArcs[f]]
  /\ fontReady' = {i \in fontReady \ instances : InstanceFont[i] \notin fonts}

(* The API deletes a font once it has deleted its instances, and allots no  *)
(* key again.                                                               *)
delete_font(f) ==
  /\ fontRequest = <<>> /\ f \notin fontGone.fonts
  /\ \A i \in Instances : InstanceFont[i] = f => i \in fontGone.instances
  /\ AddEntry(f) /\ Erase({f}, {})
  /\ fontGone' = [fontGone EXCEPT !.fonts = @ \cup {f}]
  /\ UNCHANGED fontRequest

delete_font_instance(i) ==
  /\ fontRequest = <<>> /\ i \notin fontGone.instances
  /\ Erase({}, {i})
  /\ fontGone' = [fontGone EXCEPT !.instances = @ \cup {i}]
  /\ UNCHANGED <<sFontDeleteLog, fontRequest, fontDeletions>>

(* Instances have the namespace of their fonts.                             *)
clear_namespace(ns) ==
  LET fonts == {f \in FontKeys : f.mNamespace = ns}
      instances == {i \in Instances : InstanceFont[i] \in fonts}
  IN /\ fontRequest = <<>>
     /\ AddEntry(Key(ns, 0))
     /\ Erase(fonts, instances)
     /\ fontGone' = [fonts |-> fontGone.fonts \cup fonts,
                     instances |-> fontGone.instances \cup instances]
     /\ UNCHANGED fontRequest

(* By the render thread, at shutdown.                                       *)
ClearAllBlobImageResources ==
  /\ AddEntry(ALL)
  /\ Erase(FontKeys, Instances)
  /\ fontRequest' = [n \in DOMAIN fontRequest |->
                       [fontRequest[n] EXCEPT !.cleared = TRUE]]
  /\ UNCHANGED fontGone

(* A rasterizer makes what it is the first to need, or the platform fails   *)
(* to make it.                                                              *)
GetScaledFont(i) ==
  LET f == InstanceFont[i]
  IN /\ i \in DOMAIN sBlobFontTable /\ ~sBlobFontTable[i]
     /\ f \in DOMAIN sFontDataTable
     /\ \E unscaled, scaled \in BOOLEAN :
          /\ sFontDataTable[f] => unscaled
          /\ scaled => unscaled
          /\ sFontDataTable' = [sFontDataTable EXCEPT ![f] = unscaled]
          /\ sBlobFontTable' = [sBlobFontTable EXCEPT ![i] = scaled]
     /\ UNCHANGED <<sFontDeleteLog, fontArcs, fontRequest, fontGone,
                    fontReady, fontDeletions>>

FontNext ==
  \/ \E i, j \in Instances : prepare_request(<<i, j>>)
  \/ EndRequest \/ SkipFont \/ HasFontData \/ AddFontData \/ AddBlobFont
  \/ \E f \in FontKeys : delete_font(f) \/ clear_namespace(f.mNamespace)
  \/ \E i \in Instances : delete_font_instance(i) \/ GetScaledFont(i)
  \/ ClearAllBlobImageResources

-----------------------------------------------------------------------------
(* A rasterizer finds the instances that were prepared for it, and their    *)
(* fonts, if they were neither deleted nor cleared since (process_fonts,    *)
(* GetScaledFont).                                                          *)
ReadyAreFound ==
  \A i \in fontReady : /\ i \in DOMAIN sBlobFontTable
                       /\ InstanceFont[i] \in DOMAIN sFontDataTable

(* The data of a template is held once while its font is in the table, and  *)
(* by nobody after (AddFontData, ~FontTemplate).                            *)
DataIsHeldOnce ==
  \A f \in FontKeys :
    fontArcs[f] = IF f \in DOMAIN sFontDataTable \cap RawFonts THEN 1 ELSE 0

(* The log tells the last reason why a font is missing, as long as it is    *)
(* among the last MAX_ENTRIES deletions, and no reason otherwise            *)
(* (FontDeleteLog).                                                         *)
LogExplains ==
  \A f \in FontKeys :
    LET logged == Len(fontDeletions)
        matching == {n \in 1..logged : fontDeletions[n] \in Reasons(f)
                                         /\ n + MAX_ENTRIES > logged}
    IN Find(f) = IF matching = {} THEN NoEntry
                 ELSE fontDeletions[Max(matching)]

FontsConsistent == ReadyAreFound /\ DataIsHeldOnce /\ LogExplains
=============================================================================
