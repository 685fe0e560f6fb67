----------------------------- MODULE DisplayLists -----------------------------
(***************************************************************************)
(* DisplayListBuilder: the display items of the client become items of      *)
(* WebRender, each with a space, a clip chain and a clip rectangle of its   *)
(* own.  The clip of the client's item, the leaf of its chain, is merged    *)
(* into that rectangle, but not within shadows, which move it.  What an     *)
(* item of the client pushed is kept as a group, and pushed again in a      *)
(* later list if the item is the same.  Rectangles are sets of pixels.      *)
(***************************************************************************)
EXTENDS Naturals, Sequences, SequencesExt

CONSTANTS
  Pixels,       \* the whole plane
  ClientItems,  \* what is shown: an item's view, clip, leaf and operations
  MaxShown,     \* bound on the items of a list
  MaxLists      \* bound on the lists

(* The operations of an item: pushes with their rectangle, backdrops with a *)
(* region too, scopes with a clip of their own, and shadows.                *)
Operations ==
  ({"push", "clip"} \X (SUBSET Pixels))
    \cup ({"backdrop"} \X (SUBSET Pixels) \X (SUBSET Pixels))
    \cup {<<op>> : op \in {"unclip", "shadow", "unshadow"}}

VARIABLES
  dl,          \* the members of the builder
  wr,          \* WebRender's list: its spaces, clip chains and items
  wrRetained,  \* WebRender's copies of the groups
  itemCache,   \* the space and chain that each occupied slot was filled with
  listShown,   \* the items shown in this list
  listScopes,  \* the saved members of the scopes that are open
  listNext,    \* the next operation of the last item; 0: it is done
  listAsked,   \* history: what the items that are done have asked for
  listCount    \* lists begun

listVars == <<dl, wr, wrRetained, itemCache, listShown, listScopes, listNext,
              listAsked, listCount>>

ROOT == 0
RootScrollNodeWithChain == [space |-> ROOT, chain |-> ROOT]

-----------------------------------------------------------------------------
(* WebRender's builder.  Ids are allotted anew in each list.                *)
WrBegin == [spaces |-> <<>>, chains |-> <<>>, items |-> <<>>,
            group |-> <<>>, grouping |-> FALSE]

WrPush(w, item) == IF w.grouping THEN [w EXCEPT !.group = Append(@, item)]
                                 ELSE [w EXCEPT !.items = Append(@, item)]

WrEndGroup(w) == [w EXCEPT !.grouping = FALSE, !.group = <<>>,
                              !.items = @ \o w.group]

SpaceOf(w, id) == IF id \in DOMAIN w.spaces THEN w.spaces[id] ELSE "none"
RegionOf(w, id) == IF id = ROOT THEN Pixels
                   ELSE IF id \in DOMAIN w.chains THEN w.chains[id] ELSE {}

(* What WebRender shows: where, moved along with a shadow or not.           *)
Shown(view, region, clip, shadow) ==
  [view |-> view, fixed |-> IF shadow THEN region ELSE region \cap clip,
   moved |-> IF shadow THEN clip ELSE {}]

ShownOf(w, x) ==
  Shown(SpaceOf(w, x.space), RegionOf(w, x.chain), x.clip, x.shadow)
WrShown(w, items) == [n \in DOMAIN items |-> ShownOf(w, items[n])]

-----------------------------------------------------------------------------
(* What an item asks to be shown: every push within its clips, its leaf and *)
(* the rectangle it gave; a backdrop of nothing is none.  The regions are   *)
(* those of the scopes that are open, the first shadow was pushed in scope  *)
(* "from".                                                                  *)
LeafOf(g) == IF g.leaf = <<>> THEN Pixels ELSE g.leaf[1]

AskStart(g) == [regions |-> <<g.clip>>, from |-> 0, out |-> <<>>]

AskStep(g, s, op) ==
  LET shadow == s.from # 0
      Ask(region) == [s EXCEPT !.out =
        Append(@, Shown(g.view, region \cap LeafOf(g), op[2], shadow))]
      nothing == IF shadow THEN op[2] = {} ELSE op[2] \cap LeafOf(g) = {}
  IN CASE op[1] = "push" -> Ask(Last(s.regions))
       [] op[1] = "backdrop" ->
            IF nothing THEN s ELSE Ask(op[3] \cap Last(s.regions))
       [] op[1] = "clip" ->
            [s EXCEPT !.regions = Append(@, op[2] \cap Last(@))]
       [] op[1] = "unclip" -> [s EXCEPT !.regions = Front(@)]
       [] op[1] = "shadow" ->
            IF shadow THEN s ELSE [s EXCEPT !.from = Len(s.regions)]
       [] op[1] = "unshadow" -> [s EXCEPT !.from = 0]

(* What has been asked for before each of the operations, and in the end.   *)
Asking(g) ==
  LET f[n \in 0..Len(g.ops)] ==
        IF n = 0 THEN AskStart(g) ELSE AskStep(g, f[n - 1], g.ops[n])
  IN f
Asked(g) == Asking(g)[Len(g.ops)].out

(* Scopes and shadows are closed in the reverse order, within the item: the *)
(* client's scopes are objects of C++, and TextDrawTarget pushes and pops   *)
(* the shadows of a text.                                                   *)
WellNested(g) ==
  /\ \A n \in 1..Len(g.ops) :
       LET s == Asking(g)[n - 1]
       IN /\ g.ops[n][1] = "unclip" =>
               Len(s.regions) > 1 /\ Len(s.regions) > s.from
          /\ g.ops[n][1] = "unshadow" => Len(s.regions) = s.from
  /\ LET s == Asking(g)[Len(g.ops)] IN Len(s.regions) = 1 /\ s.from = 0

ListsAssumption ==
  /\ MaxShown \in Nat /\ MaxLists \in Nat
  /\ \A g \in ClientItems :
       /\ DOMAIN g = {"view", "clip", "leaf", "ops"}
       /\ g.clip \subseteq Pixels
       /\ g.leaf \in Seq(SUBSET Pixels) /\ Len(g.leaf) <= 1
       /\ g.ops \in Seq(Operations)
       /\ WellNested(g)

ASSUME ListsAssumption

-----------------------------------------------------------------------------
(* The builder.  An operation is a step of <<the members, WebRender's list>>. *)
Builder == [mCurrentSpaceAndClipChain |-> RootScrollNodeWithChain,
            mScrollIds |-> <<>>,
            mClipChainLeaf |-> <<>>,
            mSuspended |-> <<>>,
            mCurrentCacheSlot |-> <<>>,
            shadow |-> FALSE]

(* aDiscard is FALSE at every call: what was pushed since StartGroup stays  *)
(* in the list and only the slot is given up.  WebRenderAPI.h:797 says that *)
(* the items are discarded; the code does not, and could not: the item that *)
(* defines a clip within its group would vanish.                            *)
CancelGroup(b) ==
  IF b[1].mCurrentCacheSlot = <<>> THEN b
  ELSE <<[b[1] EXCEPT !.mCurrentCacheSlot = <<>>], WrEndGroup(b[2])>>

(* A list that defines a clip gives it an id of its own: what was pushed    *)
(* with it is of no use to another list.                                    *)
Defining_KeepsGroup(b) == b
Defining(b) == CancelGroup(b)

(* DefineRectClip and its like, then DefineClipChain with the current chain *)
(* as its parent.                                                           *)
DefineClipChain(b, clip) ==
  LET d == Defining(b)
  IN <<d[1], [d[2] EXCEPT !.chains =
        Append(@, clip \cap RegionOf(b[2],
                                     b[1].mCurrentSpaceAndClipChain.chain))]>>

NewChain(b) == Len(b[2].chains)

(* A view is defined once in a list.                                        *)
DefineScrollLayer(b, view) ==
  IF view \in DOMAIN b[1].mScrollIds THEN b
  ELSE LET spaces == Append(b[2].spaces, view)
       IN <<[b[1] EXCEPT !.mScrollIds =
               [v \in DOMAIN @ \cup {view} |->
                  IF v = view THEN Len(spaces) ELSE @[v]]],
            [b[2] EXCEPT !.spaces = spaces]>>

MergeClipLeaf(b, clip) ==
  IF b[1].mClipChainLeaf = <<>> THEN clip ELSE clip \cap b[1].mClipChainLeaf[1]

(* PushRect, PushImage, PushText and the others.                            *)
PushWith(b, chain, clip) ==
  <<b[1], WrPush(b[2], [space |-> b[1].mCurrentSpaceAndClipChain.space,
                        chain |-> chain, clip |-> clip,
                        shadow |-> b[1].shadow])>>
Push(b, clip) ==
  PushWith(b, b[1].mCurrentSpaceAndClipChain.chain, MergeClipLeaf(b, clip))

(* The region becomes a chain; nothing is pushed for an empty rectangle.    *)
PushBackdropFilter(b, bounds, region) ==
  LET clip == MergeClipLeaf(b, bounds)
      d == DefineClipChain(b, region)
  IN IF clip = {} THEN d ELSE PushWith(d, NewChain(d), clip)

(* The leaf becomes a chain while shadows are open.                         *)
SuspendClipLeafMerging(b) ==
  LET d == DefineClipChain(b, b[1].mClipChainLeaf[1])
  IN IF b[1].mClipChainLeaf = <<>> THEN b
     ELSE <<[d[1] EXCEPT
               !.mSuspended = << [current |-> b[1].mCurrentSpaceAndClipChain,
                                  leaf |-> b[1].mClipChainLeaf] >>,
               !.mCurrentSpaceAndClipChain.chain = NewChain(d),
               !.mClipChainLeaf = <<>>], d[2]>>

PushShadow(b) ==
  LET s == SuspendClipLeafMerging(b)
  IN <<[s[1] EXCEPT !.shadow = TRUE], s[2]>>

ResumeClipLeafMerging(m) ==
  IF m.mSuspended = <<>> THEN m
  ELSE [m EXCEPT !.mCurrentSpaceAndClipChain = m.mSuspended[1].current,
                 !.mClipChainLeaf = m.mSuspended[1].leaf,
                 !.mSuspended = <<>>]

PopAllShadows(b) ==
  <<ResumeClipLeafMerging([b[1] EXCEPT !.shadow = FALSE]), b[2]>>

(* SpaceAndClipChainHelper                                                  *)
Enter(b, space, chain) ==
  <<[b[1] EXCEPT !.mCurrentSpaceAndClipChain =
                   [space |-> space, chain |-> chain]], b[2]>>

Become(b) == dl' = b[1] /\ wr' = b[2]

-----------------------------------------------------------------------------
(* Lists                                                                    *)
Begin ==
  /\ listCount < MaxLists /\ listNext = 0
  /\ Become(<<Builder, WrBegin>>)
  /\ listShown' = <<>> /\ listAsked' = <<>> /\ listCount' = listCount + 1
  /\ UNCHANGED <<wrRetained, itemCache, listScopes, listNext>>

(* The client prepares an item's space, clip chain and leaf.  It defines a  *)
(* chain again or takes one that it defined before.                         *)
Leafed(b, g) == <<[b[1] EXCEPT !.mClipChainLeaf = g.leaf], b[2]>>
Prepared(g) ==
  LET b == DefineScrollLayer(<<dl, wr>>, g.view)
      space == b[1].mScrollIds[g.view]
      d == DefineClipChain(b, g.clip)
  IN {Leafed(Enter(b, space, c), g) :
        c \in {n \in DOMAIN wr.chains : wr.chains[n] = g.clip}}
     \cup {Leafed(Enter(d, space, NewChain(d)), g)}

(* After the operations of an item its group is finished, and then the item *)
(* itself is.                                                               *)
FinishOf(g) == Len(g.ops) + 1
EndOf(g) == Len(g.ops) + 2

(* ReuseItem, if the cache has the item with this space and chain; else     *)
(* StartGroup, which finds a free slot or not.                              *)
Reusable_AnyChain(g, b) == itemCache[g] # <<>>
Reusable(g, b) == itemCache[g] = << b[1].mCurrentSpaceAndClipChain >>

ReuseItem(g, b) ==
  /\ Reusable(g, b)
  /\ Become(<<b[1], [b[2] EXCEPT !.items = @ \o wrRetained[g]]>>)
  /\ listNext' = EndOf(g)
  /\ UNCHANGED itemCache

StartGroup(g, b) ==
  /\ ~Reusable(g, b)
  /\ \/ /\ Become(<<[b[1] EXCEPT !.mCurrentCacheSlot = <<g>>],
                    [b[2] EXCEPT !.grouping = TRUE]>>)
        /\ itemCache' = [itemCache EXCEPT ![g] = <<>>]
     \/ Become(b) /\ UNCHANGED itemCache
  /\ listNext' = 1

ShowItem(g) ==
  /\ listCount > 0 /\ listNext = 0 /\ Len(listShown) < MaxShown
  /\ g \notin ToSet(listShown)
  /\ \E b \in Prepared(g) : ReuseItem(g, b) \/ StartGroup(g, b)
  /\ listShown' = Append(listShown, g)
  /\ listScopes' = <<dl.mCurrentSpaceAndClipChain>>
  /\ UNCHANGED <<wrRetained, listAsked, listCount>>

Showing == Last(listShown)

-----------------------------------------------------------------------------
(* The operations of an item                                                *)
Doing(op) ==
  /\ listNext # 0 /\ listNext <= Len(Showing.ops)
  /\ Showing.ops[listNext][1] = op
  /\ listNext' = listNext + 1
  /\ UNCHANGED <<wrRetained, itemCache, listShown, listAsked, listCount>>
Operand(n) == Showing.ops[listNext][n + 1]

DoPush ==
  /\ Doing("push") /\ Become(Push(<<dl, wr>>, Operand(1)))
  /\ UNCHANGED listScopes

DoBackdrop ==
  /\ Doing("backdrop")
  /\ Become(PushBackdropFilter(<<dl, wr>>, Operand(1), Operand(2)))
  /\ UNCHANGED listScopes

DoShadow ==
  /\ \/ Doing("shadow") /\ Become(PushShadow(<<dl, wr>>))
     \/ Doing("unshadow") /\ Become(PopAllShadows(<<dl, wr>>))
  /\ UNCHANGED listScopes

(* A scope with a clip of its own                                           *)
DoClip ==
  LET d == DefineClipChain(<<dl, wr>>, Operand(1))
  IN /\ Doing("clip")
     /\ Become(Enter(d, dl.mCurrentSpaceAndClipChain.space, NewChain(d)))
     /\ listScopes' = Append(listScopes, dl.mCurrentSpaceAndClipChain)

(* ~SpaceAndClipChainHelper                                                 *)
Leave(leaf) ==
  /\ dl' = [dl EXCEPT !.mCurrentSpaceAndClipChain = Last(listScopes),
                      !.mClipChainLeaf = leaf]
  /\ listScopes' = Front(listScopes)
  /\ UNCHANGED wr

DoLeave == Doing("unclip") /\ Leave(dl.mClipChainLeaf)

(* A group that has become empty is not kept.                               *)
FinishGroup ==
  /\ listNext # 0 /\ listNext = FinishOf(Showing)
  /\ listNext' = EndOf(Showing)
  /\ IF dl.mCurrentCacheSlot = <<>>
     THEN UNCHANGED <<dl, wr, wrRetained, itemCache>>
     ELSE LET g == dl.mCurrentCacheSlot[1]
          IN /\ dl' = [dl EXCEPT !.mCurrentCacheSlot = <<>>]
             /\ wr' = WrEndGroup(wr)
             /\ IF wr.group = <<>> THEN UNCHANGED <<wrRetained, itemCache>>
                ELSE /\ wrRetained' = [wrRetained EXCEPT ![g] = wr.group]
                     /\ itemCache' = [itemCache EXCEPT ![g] =
                                        << dl.mCurrentSpaceAndClipChain >>]
  /\ UNCHANGED <<listShown, listScopes, listAsked, listCount>>

(* The item is done; the client takes its leaf off.                         *)
EndItem ==
  /\ listNext # 0 /\ listNext = EndOf(Showing)
  /\ listNext' = 0
  /\ Leave(<<>>)
  /\ listAsked' = listAsked \o Asked(Showing)
  /\ UNCHANGED <<wrRetained, itemCache, listShown, listCount>>

ListInit ==
  /\ dl = Builder /\ wr = WrBegin
  /\ wrRetained = [g \in ClientItems |-> <<>>]
  /\ itemCache = [g \in ClientItems |-> <<>>]
  /\ listShown = <<>> /\ listScopes = <<>> /\ listNext = 0
  /\ listAsked = <<>> /\ listCount = 0

ListNext ==
  \/ Begin
  \/ \E g \in ClientItems : ShowItem(g)
  \/ DoPush \/ DoBackdrop \/ DoShadow \/ DoClip \/ DoLeave
  \/ FinishGroup \/ EndItem

-----------------------------------------------------------------------------
(* A list shows what its items ask, in their order, whether they were       *)
(* pushed or reused from an earlier list, with whatever ids the clips and   *)
(* spaces have in this one (MergeClipLeaf, SuspendClipLeafMerging,          *)
(* FinishGroup, ReuseItem).  That includes the items of a cancelled group,  *)
(* against what WebRenderAPI.h:797 says of CancelGroup.                     *)
ShowsWhatIsAsked ==
  listNext = 0 => WrShown(wr, wr.items) = listAsked

(* "We don't define a particular scroll layer multiple times", and nothing  *)
(* of an item, its scopes, shadows or group, is left over for the next one. *)
NothingIsLeftOver ==
  /\ IsInjective(wr.spaces)
  /\ listNext = 0 =>
       dl = [Builder EXCEPT !.mScrollIds = dl.mScrollIds] /\ wr.group = <<>>

ListsConsistent == ShowsWhatIsAsked /\ NothingIsLeftOver
=============================================================================
