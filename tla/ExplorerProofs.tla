---------------------------- MODULE ExplorerProofs ----------------------------
(***************************************************************************)
(* Proofs about Explorer, for any store, any list limit and any sizes of   *)
(* the terminal.                                                           *)
(***************************************************************************)
EXTENDS Explorer, FiniteSetTheorems, SequenceTheorems, TLAPS

Sizes == Windows \cup {InitialWindow}

(* A window of h rows from o on, over n items with item s selected.        *)
InView(n, s, o, h) ==
    /\ n = 0 => s = 0 /\ o = 0
    /\ n > 0 => s < n /\ o <= s /\ s < o + h
    /\ o <= Larger(0, n - h)

(* Holds also while results are fetched and while an error is shown.       *)
ViewInv == InView(Len(items), selected, offset, listCapacity(window))

ExplorerInv == LiveStoreTypeOK /\ ExplorerTypeOK /\ ViewInv

-----------------------------------------------------------------------------
(* Layout *)

LEMMA SizesAreNat == \A win \in Sizes : win[1] \in Nat /\ win[2] \in Nat
BY WindowsAssumption DEF Sizes, InitialWindow

LEMMA CapacityPositive ==
    ASSUME NEW win \in Sizes
    PROVE  listCapacity(win) \in Nat \ {0}
<1>1. win[1] \in Nat /\ win[2] \in Nat
    BY SizesAreNat
<1>2. bodyHeight(win) \in Nat /\ bodyHeight(win) >= 4
    BY <1>1 DEF bodyHeight, Larger
<1> QED
    BY <1>2 DEF listCapacity, Larger

(* No more rows are counted than are drawn.                                *)
LEMMA CapacityFits ==
    ASSUME NEW win \in Sizes
    PROVE  /\ rows(win) \in Nat /\ listCapacity(win) <= rows(win)
           /\ win[1] > 0 /\ win[2] > 0 => listCapacity(win) = rows(win)
<1>1. win[1] \in Nat /\ win[2] \in Nat
    BY SizesAreNat
<1> DEFINE H == bodyHeight(win)
           D == bodyHeight(Drawn(win))
<1>2. H \in Nat /\ D \in Nat /\ H >= 4 /\ D >= H /\ (win[2] > 0 => D = H)
    BY <1>1 DEF bodyHeight, Drawn, InitialWindow, Larger
<1>3. /\ narrow(Drawn(win)) => narrow(win)
      /\ win[1] > 0 => narrow(Drawn(win)) = narrow(win)
    BY <1>1 DEF narrow, Drawn, InitialWindow
<1>4. /\ rows(win) = IF narrow(Drawn(win)) THEN Larger(1, D \div 2 - 2) ELSE Larger(1, D - 2)
      /\ listCapacity(win) = IF narrow(win) THEN Larger(1, H \div 2 - 2) ELSE Larger(1, H - 2)
    BY DEF rows, listCapacity
<1> HIDE DEF H, D
<1>5. /\ H \div 2 \in Nat /\ D \div 2 \in Nat /\ H \div 2 <= D \div 2 /\ D \div 2 <= D
    BY <1>2
<1> QED
    BY <1>2, <1>3, <1>4, <1>5 DEF Larger

(* ensureSelectionVisible does what its name says, from any offset.        *)
LEMMA EnsuredInView ==
    ASSUME NEW win \in Sizes, NEW n \in Nat, NEW s \in Nat, offset \in Nat,
           n = 0 => s = 0, n > 0 => s < n
    PROVE  /\ Ensured(n, s, win) \in Nat
           /\ InView(n, s, Ensured(n, s, win), listCapacity(win))
<1> DEFINE h == listCapacity(win)
<1>1. h \in Nat \ {0}
    BY CapacityPositive
<1> HIDE DEF h
<1> QED
    BY <1>1 DEF Ensured, InView, Larger, h

LEMMA ClampInside ==
    ASSUME NEW v \in Int, NEW n \in Nat
    PROVE  /\ clamp(v, 0, n - 1) \in Nat
           /\ n = 0 => clamp(v, 0, n - 1) = 0
           /\ n > 0 => clamp(v, 0, n - 1) < n
BY DEF clamp

LEMMA Empties ==
    ASSUME NEW s \in Seq(Memories)
    PROVE  Len(s) \in Nat /\ (s = <<>> <=> Len(s) = 0)
BY EmptySeq, LenProperties

(* Whatever list is shown, with whatever item of it selected.              *)
LEMMA ShowInView ==
    ASSUME ExplorerInv, NEW list \in Seq(Memories), NEW sel \in Nat,
           list # <<>> => sel < Len(list), Show(list, sel), window' = window
    PROVE  items' \in Seq(Memories) /\ selected' \in Nat /\ offset' \in Nat /\ ViewInv'
<1>1. window \in Sizes /\ offset \in Nat
    BY DEF ExplorerInv, ExplorerTypeOK, Sizes
<1>2. Len(list) \in Nat /\ (list = <<>> <=> Len(list) = 0)
    BY Empties
<1> DEFINE s == IF list = <<>> THEN 0 ELSE sel
<1>3. s \in Nat /\ (Len(list) = 0 => s = 0) /\ (Len(list) > 0 => s < Len(list))
    BY <1>2
<1>4. Ensured(Len(list), sel, window) = Ensured(Len(list), s, window)
    BY <1>2 DEF Ensured
<1> HIDE DEF s
<1>5. /\ Ensured(Len(list), s, window) \in Nat
      /\ InView(Len(list), s, Ensured(Len(list), s, window), listCapacity(window))
    BY <1>1, <1>2, <1>3, EnsuredInView
<1>6. items' = list /\ selected' = s /\ offset' = Ensured(Len(list), s, window)
    BY <1>4 DEF Show, s
<1> QED
    BY <1>3, <1>5, <1>6 DEF ViewInv
-----------------------------------------------------------------------------
(* Lists *)

LEMMA FewRecords ==
    ASSUME NEW ids \in SUBSET Memories
    PROVE  Cardinality(ids) \in Nat
BY LiveKeysAssumption, FS_Subset, FS_CardinalityType

LEMMA ListsAreSequences ==
    ASSUME NEW n \in Nat, NEW ids \in SUBSET Memories, NEW r \in [1..n -> ids]
    PROVE  r \in Seq(Memories)
<1>1. r \in [1..n -> Memories]
    OBVIOUS
<1> QED
    BY <1>1, SeqDef

LEMMA RecentAreSequences ==
    ASSUME NEW known, NEW list \in RecentItems(known)
    PROVE  list \in Seq(Memories)
<1> DEFINE ids == {k \in Memories : known[k] # Gone}
           n == IF Cardinality(ids) > ListLimit THEN ListLimit ELSE Cardinality(ids)
<1>1. n \in Nat
    BY FewRecords, ListLimitAssumption
<1>2. list \in [1..n -> ids]
    BY DEF RecentItems
<1>3. ids \in SUBSET Memories
    OBVIOUS
<1> HIDE DEF n, ids
<1> QED
    BY <1>1, <1>2, <1>3, ListsAreSequences

-----------------------------------------------------------------------------
(* Steps *)

LEMMA ExplorerInitHolds == LiveStoreInit /\ ExplorerInit => ExplorerInv
<1> SUFFICES ASSUME LiveStoreInit, ExplorerInit PROVE ExplorerInv
    OBVIOUS
<1>1. LiveStoreTypeOK /\ ExplorerTypeOK
    BY EmptySeq DEF LiveStoreInit, ExplorerInit, LiveStoreTypeOK, ExplorerTypeOK
<1>2. listCapacity(window) \in Nat /\ Len(items) = 0
    BY CapacityPositive DEF ExplorerInit, Sizes
<1> QED
    BY <1>1, <1>2 DEF ExplorerInv, ViewInv, InView, ExplorerInit, Larger

(* A message that shows a list.                                            *)
LEMMA ListPreserves ==
    ASSUME ExplorerInv, recs' = recs, NEW known, NEW list \in RecentItems(known),
           Show(list, clamp(selected, 0, Len(list) - 1)),
           browsing' \in {"ready", "filling"}, failed' \in BOOLEAN,
           records' \in [Memories -> Bodies \cup {Gone}],
           UNCHANGED <<window, results, filled>>
    PROVE  ExplorerInv'
<1>1. list \in Seq(Memories) /\ Len(list) \in Nat /\ (list = <<>> <=> Len(list) = 0)
    BY RecentAreSequences, Empties
<1>2. clamp(selected, 0, Len(list) - 1) \in Nat
      /\ (list # <<>> => clamp(selected, 0, Len(list) - 1) < Len(list))
    BY <1>1, ClampInside DEF ExplorerInv, ExplorerTypeOK
<1>3. items' \in Seq(Memories) /\ selected' \in Nat /\ offset' \in Nat /\ ViewInv'
    BY <1>1, <1>2, ShowInView
<1> QED
    BY <1>3 DEF ExplorerInv, LiveStoreTypeOK, ExplorerTypeOK

LEMMA RecentPreserves ==
    ASSUME ExplorerInv, recs' = recs, StartExplorer \/ ClearQuery
    PROVE  ExplorerInv'
<1>1. CASE StartExplorer
    <2>1. PICK list \in RecentItems(recs) : Show(list, clamp(selected, 0, Len(list) - 1))
        BY <1>1 DEF StartExplorer
    <2>2. recs \in [Memories -> Bodies \cup {Gone}] /\ failed \in BOOLEAN
        BY DEF ExplorerInv, LiveStoreTypeOK, ExplorerTypeOK
    <2> QED
        BY <1>1, <2>1, <2>2, ListPreserves DEF StartExplorer
<1>2. CASE ClearQuery
    <2>1. PICK list \in RecentItems(records) : Show(list, clamp(selected, 0, Len(list) - 1))
        BY <1>2 DEF ClearQuery
    <2>2. records \in [Memories -> Bodies \cup {Gone}]
        BY DEF ExplorerInv, ExplorerTypeOK
    <2> QED
        BY <1>2, <2>1, <2>2, ListPreserves DEF ClearQuery
<1> QED
    BY <1>1, <1>2

LEMMA SearchPreserves ==
    ASSUME ExplorerInv, recs' = recs, SearchFor \/ SearchErrs
    PROVE  ExplorerInv'
<1>1. CASE SearchFor
    <2>1. PICK n \in 0..Cardinality(Live) : results' \in [1..n -> Live]
        BY <1>1 DEF SearchFor
    <2>2. Live \in SUBSET Memories
        BY DEF Live
    <2>3. n \in Nat
        BY <2>1, <2>2, FewRecords
    <2>4. results' \in Seq(Memories)
        BY <2>1, <2>2, <2>3, ListsAreSequences
    <2> QED
        BY <1>1, <2>4 DEF SearchFor, ExplorerInv, LiveStoreTypeOK, ExplorerTypeOK, ViewInv
<1>2. CASE SearchErrs
    <2>1. listCapacity(window) \in Nat
        BY CapacityPositive DEF ExplorerInv, ExplorerTypeOK, Sizes
    <2>2. ViewInv'
        BY <1>2, <2>1 DEF SearchErrs, ViewInv, InView, Larger
    <2> QED
        BY <1>2, <2>2 DEF SearchErrs, ExplorerInv, LiveStoreTypeOK, ExplorerTypeOK
<1> QED
    BY <1>1, <1>2

LEMMA FillPreserves ==
    ASSUME ExplorerInv, recs' = recs, FillFromRecords \/ FillByGet \/ FillFails
    PROVE  ExplorerInv'
<1>1. results \in Seq(Memories) /\ results # <<>> /\ filled \in Seq(Memories)
    BY DEF ExplorerInv, ExplorerTypeOK, FillFromRecords, FillByGet, FillFails, Filling
<1>2. Head(results) \in Memories /\ Tail(results) \in Seq(Memories)
      /\ Append(filled, Head(results)) \in Seq(Memories)
    BY <1>1
<1>3. records' \in [Memories -> Bodies \cup {Gone}]
    BY <1>2 DEF ExplorerInv, ExplorerTypeOK, LiveStoreTypeOK, FillFromRecords, FillByGet, FillFails
<1>4. ViewInv'
    BY DEF ExplorerInv, ViewInv, FillFromRecords, FillByGet, FillFails
<1> QED
    BY <1>1, <1>2, <1>3, <1>4
    DEF ExplorerInv, ExplorerTypeOK, LiveStoreTypeOK, FillFromRecords, FillByGet, FillFails

LEMMA ShowPreserves ==
    ASSUME ExplorerInv, recs' = recs, ShowResults
    PROVE  ExplorerInv'
<1>1. filled \in Seq(Memories) /\ Len(filled) \in Nat /\ (filled = <<>> <=> Len(filled) = 0)
      /\ selected \in Int
    BY Empties DEF ExplorerInv, ExplorerTypeOK
<1>2. clamp(selected, 0, Len(filled) - 1) \in Nat
      /\ (filled # <<>> => clamp(selected, 0, Len(filled) - 1) < Len(filled))
    <2> DEFINE n == Len(filled)
    <2>1. n \in Nat /\ (filled # <<>> => n > 0)
        BY <1>1
    <2> HIDE DEF n
    <2>2. clamp(selected, 0, n - 1) \in Nat /\ (n > 0 => clamp(selected, 0, n - 1) < n)
        BY <1>1, <2>1, ClampInside
    <2> QED
        BY <2>1, <2>2 DEF n
<1>3. items' \in Seq(Memories) /\ selected' \in Nat /\ offset' \in Nat /\ ViewInv'
    BY <1>1, <1>2, ShowInView DEF ShowResults
<1>4. filled' \in Seq(Memories)
    BY EmptySeq DEF ShowResults
<1> QED
    BY <1>3, <1>4 DEF ShowResults, ExplorerInv, LiveStoreTypeOK, ExplorerTypeOK

LEMMA KeyPreserves ==
    ASSUME ExplorerInv, recs' = recs, NEW sel \in Nat, items # <<>> => sel < Len(items),
           Show(items, sel), UNCHANGED <<browsing, records, window, failed, results, filled>>
    PROVE  ExplorerInv'
<1>1. items' \in Seq(Memories) /\ selected' \in Nat /\ offset' \in Nat /\ ViewInv'
    BY ShowInView DEF ExplorerInv, ExplorerTypeOK
<1> QED
    BY <1>1 DEF ExplorerInv, LiveStoreTypeOK, ExplorerTypeOK

LEMMA MovePreserves ==
    ASSUME ExplorerInv, recs' = recs, NEW delta \in Int, moveSelection(delta)
    PROVE  ExplorerInv'
<1>1. Len(items) \in Nat /\ (items = <<>> <=> Len(items) = 0) /\ selected + delta \in Int
    BY Empties DEF ExplorerInv, ExplorerTypeOK
<1>2. clamp(selected + delta, 0, Len(items) - 1) \in Nat
      /\ (items # <<>> => clamp(selected + delta, 0, Len(items) - 1) < Len(items))
    BY <1>1, ClampInside
<1> QED
    BY <1>2, KeyPreserves DEF moveSelection

LEMMA JumpPreserves ==
    ASSUME ExplorerInv, recs' = recs, Home \/ End
    PROVE  ExplorerInv'
<1>1. Len(items) \in Nat /\ (items = <<>> <=> Len(items) = 0) /\ selected \in Nat
    BY Empties DEF ExplorerInv, ExplorerTypeOK
<1>2. CASE Home
    BY <1>1, <1>2, KeyPreserves DEF Home
<1>3. CASE End
    <2> DEFINE s == IF items # <<>> THEN Len(items) - 1 ELSE selected
    <2>1. s \in Nat /\ (items # <<>> => s < Len(items)) /\ Show(items, s)
          /\ UNCHANGED <<browsing, records, window, failed, results, filled>>
        BY <1>1, <1>3 DEF End
    <2> HIDE DEF s
    <2> QED
        BY <2>1, KeyPreserves
<1> QED
    BY <1>2, <1>3

LEMMA ResizePreserves ==
    ASSUME ExplorerInv, recs' = recs, NEW win \in Windows, Resize(win)
    PROVE  ExplorerInv'
<1>1. Len(items) \in Nat /\ (items = <<>> <=> Len(items) = 0) /\ selected \in Nat /\ offset \in Nat
    BY Empties DEF ExplorerInv, ExplorerTypeOK
<1>2. (Len(items) = 0 => selected = 0) /\ (Len(items) > 0 => selected < Len(items))
    BY DEF ExplorerInv, ViewInv, InView
<1>3. win \in Sizes /\ window' = win
    BY DEF Sizes, Resize
<1>4. /\ Ensured(Len(items), selected, win) \in Nat
      /\ InView(Len(items), selected, Ensured(Len(items), selected, win), listCapacity(win))
    BY <1>1, <1>2, <1>3, EnsuredInView
<1>5. items' = items /\ selected' = selected /\ offset' = Ensured(Len(items), selected, win)
    BY <1>1, <1>2 DEF Resize
<1>6. ViewInv'
    BY <1>3, <1>4, <1>5 DEF ViewInv
<1> QED
    BY <1>3, <1>4, <1>5, <1>6 DEF Resize, ExplorerInv, LiveStoreTypeOK, ExplorerTypeOK

LEMMA ExplorerStepPreserves == ExplorerInv /\ [ExplorerNext]_<<recs, explorerVars>> => ExplorerInv'
<1> SUFFICES ASSUME ExplorerInv, [ExplorerNext]_<<recs, explorerVars>> PROVE ExplorerInv'
    OBVIOUS
<1>1. CASE ExplorerStep /\ recs' = recs
    <2>1. CASE StartExplorer \/ ClearQuery
        BY <1>1, <2>1, RecentPreserves
    <2>2. CASE SearchFor \/ SearchErrs
        BY <1>1, <2>2, SearchPreserves
    <2>3. CASE FillFromRecords \/ FillByGet \/ FillFails
        BY <1>1, <2>3, FillPreserves
    <2>4. CASE ShowResults
        BY <1>1, <2>4, ShowPreserves
    <2>5. CASE Line \/ Page
        <3>1. listCapacity(window) \in Nat
            BY CapacityPositive DEF ExplorerInv, ExplorerTypeOK, Sizes
        <3>2. PICK delta \in Int : moveSelection(delta)
            BY <2>5, <3>1 DEF Line, Page
        <3> QED
            BY <1>1, <3>2, MovePreserves
    <2>6. CASE Home \/ End
        BY <1>1, <2>6, JumpPreserves
    <2>7. CASE \E win \in Windows : Resize(win)
        BY <1>1, <2>7, ResizePreserves
    <2> QED
        BY <1>1, <2>1, <2>2, <2>3, <2>4, <2>5, <2>6, <2>7 DEF ExplorerStep
<1>2. CASE OthersWrite /\ UNCHANGED explorerVars
    <2>1. recs' \in [Memories -> Bodies \cup {Gone}]
        BY <1>2 DEF OthersWrite, OthersAdd, OthersForget, ExplorerInv, LiveStoreTypeOK
    <2> QED
        BY <1>2, <2>1 DEF explorerVars, ExplorerInv, LiveStoreTypeOK, ExplorerTypeOK, ViewInv
<1>3. CASE UNCHANGED <<recs, explorerVars>>
    BY <1>3 DEF explorerVars, ExplorerInv, LiveStoreTypeOK, ExplorerTypeOK, ViewInv
<1> QED
    BY <1>1, <1>2, <1>3 DEF ExplorerNext

LEMMA ExplorerAlways == ExplorerSpec => []ExplorerInv
BY ExplorerInitHolds, ExplorerStepPreserves, PTL DEF ExplorerSpec

-----------------------------------------------------------------------------
(* Results *)

(* The types of the explorer: what is listed are memories, and the window  *)
(* is a size the terminal may have.                                        *)
THEOREM ExplorerTypeCorrect == ExplorerSpec => []ExplorerTypeOK
BY ExplorerAlways, PTL DEF ExplorerInv

(* For any store and terminal the selected item exists and is drawn.       *)
THEOREM SelectionStaysVisible == ExplorerSpec => []SelectionVisible
<1>1. ExplorerInv => SelectionVisible
    <2> SUFFICES ASSUME ExplorerInv, items # <<>>
                 PROVE  selected < Len(items) /\ offset <= selected /\ selected < offset + rows(window)
        BY DEF SelectionVisible
    <2>1. Len(items) \in Nat /\ Len(items) > 0 /\ selected \in Nat /\ offset \in Nat
        BY Empties DEF ExplorerInv, ExplorerTypeOK
    <2>2. window \in Sizes
        BY DEF ExplorerInv, ExplorerTypeOK, Sizes
    <2>3. rows(window) \in Nat /\ listCapacity(window) \in Nat /\ listCapacity(window) <= rows(window)
        BY <2>2, CapacityFits, CapacityPositive
    <2>4. selected < Len(items) /\ offset <= selected /\ selected < offset + listCapacity(window)
        BY <2>1 DEF ExplorerInv, ViewInv, InView
    <2> QED
        BY <2>1, <2>3, <2>4
<1> QED
    BY <1>1, ExplorerAlways, PTL

(* And no row is left blank that an item above could fill.                 *)
THEOREM PagesStayFull == ExplorerSpec => []PageFull
<1>1. ExplorerInv => PageFull
    <2> SUFFICES ASSUME ExplorerInv, window[1] > 0, window[2] > 0
                 PROVE  offset <= Larger(0, Len(items) - rows(window))
        BY DEF PageFull
    <2>1. rows(window) = listCapacity(window)
        BY CapacityFits DEF ExplorerInv, ExplorerTypeOK, Sizes
    <2> QED
        BY <2>1 DEF ExplorerInv, ViewInv, InView
<1> QED
    BY <1>1, ExplorerAlways, PTL
=============================================================================
