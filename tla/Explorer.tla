------------------------------- MODULE Explorer -------------------------------
(***************************************************************************)
(* `memoryd explore` (internal/explore): a list of memories, the most      *)
(* recent ones or those a search found, scrolled in a window of changing   *)
(* size, while other clients change the store.  A message is handled in    *)
(* one step, but for a search, whose calls of the store take a step each.  *)
(*                                                                         *)
(* Records are listed once, at the start; a search fetches those it finds  *)
(* that are not among them, and none is ever dropped or read again.        *)
(***************************************************************************)
EXTENDS LiveStore

CONSTANTS
    UpdatedAt,      \* when a body was last updated: mostRecent
    ListLimit,      \* Options.Limit
    Windows         \* the sizes <<width, height>> the terminal may report

ASSUME UpdatedAtAssumption == UpdatedAt \in [Bodies -> Nat]
ASSUME ListLimitAssumption == ListLimit \in Nat \ {0}
ASSUME WindowsAssumption == Windows \subseteq Nat \X Nat

VARIABLES
    browsing,       \* "off", "ready" for a message, or "filling" the results in
    records,        \* the records read so far
    items,          \* the ids listed
    selected,       \* index of the selected item, from 0
    offset,         \* index of the first item shown
    window,         \* <<width, height>>
    failed,         \* an error is shown in place of the list
    results,        \* the results still to be filled in
    filled          \* the items of those filled in

explorerVars == <<browsing, records, items, selected, offset, window, failed, results, filled>>

InitialWindow == <<100, 30>>    \* NewModel; View's stand-in for sizes of 0 too

ExplorerTypeOK ==
    /\ browsing \in {"off", "ready", "filling"}
    /\ records \in [Memories -> Bodies \cup {Gone}]
    /\ items \in Seq(Memories) /\ results \in Seq(Memories) /\ filled \in Seq(Memories)
    /\ selected \in Nat /\ offset \in Nat
    /\ window \in Windows \cup {InitialWindow}
    /\ failed \in BOOLEAN

ExplorerInit ==
    /\ browsing = "off"
    /\ records = [k \in Memories |-> Gone]
    /\ items = <<>> /\ results = <<>> /\ filled = <<>>
    /\ selected = 0 /\ offset = 0
    /\ window = InitialWindow
    /\ failed = FALSE

(* Layout.                                                                 *)
Larger(a, b) == IF a > b THEN a ELSE b
clamp(v, low, high) == IF high < low THEN 0 ELSE IF v < low THEN low ELSE IF v > high THEN high ELSE v

narrow(win) == win[1] < 76
bodyHeight(win) == Larger(4, win[2] - 4)
listCapacity(win) ==
    IF narrow(win) THEN Larger(1, bodyHeight(win) \div 2 - 2) ELSE Larger(1, bodyHeight(win) - 2)

(* The rows of the list that View and bodyView draw.                       *)
Drawn(win) == <<IF win[1] <= 0 THEN InitialWindow[1] ELSE win[1],
                IF win[2] <= 0 THEN InitialWindow[2] ELSE win[2]>>
rows(win) ==
    LET height == bodyHeight(Drawn(win))
        top == height \div 2
    IN  IF narrow(Drawn(win)) THEN Larger(1, top - 2) ELSE Larger(1, height - 2)

(* Mutant: the last page is not filled up.                                 *)
EnsuredHalf(n, sel, win) ==
    LET height == listCapacity(win)
        up == IF sel < offset THEN sel ELSE offset
    IN  IF n = 0 THEN 0 ELSE IF sel >= up + height THEN sel - height + 1 ELSE up

(* ensureSelectionVisible: the new offset, for n items.                    *)
Ensured(n, sel, win) ==
    LET height == listCapacity(win)
        up == IF sel < offset THEN sel ELSE offset
        down == IF sel >= up + height THEN sel - height + 1 ELSE up
        last == Larger(0, n - height)
    IN  IF n = 0 THEN 0 ELSE IF down > last THEN last ELSE down

(* Shows list with the item at sel selected.                               *)
Show(list, sel) ==
    /\ items' = list
    /\ selected' = IF list = <<>> THEN 0 ELSE sel
    /\ offset' = Ensured(Len(list), sel, window)

(* recentItems: the ListLimit most recent of the records read.             *)
Newer(known, i, j) ==
    \/ UpdatedAt[known[i]] > UpdatedAt[known[j]]
    \/ UpdatedAt[known[i]] = UpdatedAt[known[j]] /\ i < j

RecentItems(known) ==
    LET ids == {k \in Memories : known[k] # Gone}
        n == IF Cardinality(ids) > ListLimit THEN ListLimit ELSE Cardinality(ids)
    IN  {r \in [1..n -> ids] :
            /\ \A x, y \in 1..n : x < y => Newer(known, r[x], r[y])
            /\ \A k \in ids : (\A x \in 1..n : r[x] # k) => \A x \in 1..n : Newer(known, r[x], k)}

(* NewModel; when List fails the program ends.                             *)
StartExplorer ==
    /\ browsing = "off"
    /\ browsing' = "ready"
    /\ records' = recs
    /\ \E list \in RecentItems(recs) : Show(list, clamp(selected, 0, Len(list) - 1))
    /\ UNCHANGED <<window, failed, results, filled>>

(* A key that changes the query: refresh.  An empty query lists the recent *)
(* records.                                                                *)
ClearQuery ==
    /\ browsing = "ready"
    /\ failed' = FALSE
    /\ \E list \in RecentItems(records) : Show(list, clamp(selected, 0, Len(list) - 1))
    /\ UNCHANGED <<browsing, records, window, results, filled>>

(* Any other one is searched for.  Any live records may match; in what     *)
(* order makes no difference to the window.                                *)
SearchFor ==
    /\ browsing = "ready"
    /\ failed' = FALSE
    /\ \E n \in 0..Cardinality(Live) :
           /\ n <= ListLimit
           /\ results' \in {r \in [1..n -> Live] : \A x, y \in 1..n : x < y => r[x] < r[y]}
    /\ browsing' = "filling"
    /\ UNCHANGED <<records, items, selected, offset, window, filled>>

SearchErrs ==
    /\ browsing = "ready"
    /\ failed' = TRUE
    /\ items' = <<>> /\ selected' = 0 /\ offset' = 0
    /\ UNCHANGED <<browsing, records, window, results, filled>>

Filling == browsing = "filling" /\ results # <<>>

FillFromRecords ==
    /\ Filling
    /\ records[Head(results)] # Gone
    /\ filled' = Append(filled, Head(results))
    /\ results' = Tail(results)
    /\ UNCHANGED <<browsing, records, items, selected, offset, window, failed>>

FillByGet ==
    /\ Filling
    /\ records[Head(results)] = Gone /\ recs[Head(results)] # Gone
    /\ records' = [records EXCEPT ![Head(results)] = recs[Head(results)]]
    /\ filled' = Append(filled, Head(results))
    /\ results' = Tail(results)
    /\ UNCHANGED <<browsing, items, selected, offset, window, failed>>

(* Get fails, or the memory has been forgotten: the item is left out and   *)
(* the error shown.                                                        *)
FillFails ==
    /\ Filling
    /\ records[Head(results)] = Gone
    /\ failed' = TRUE
    /\ results' = Tail(results)
    /\ UNCHANGED <<browsing, records, items, selected, offset, window, filled>>

ShowResults ==
    /\ browsing = "filling" /\ results = <<>>
    /\ browsing' = "ready"
    /\ Show(filled, clamp(selected, 0, Len(filled) - 1))
    /\ filled' = <<>>
    /\ UNCHANGED <<records, window, failed, results>>

(* The keys that move the selection.                                       *)
moveSelection(delta) ==
    /\ browsing = "ready"
    /\ Show(items, clamp(selected + delta, 0, Len(items) - 1))
    /\ UNCHANGED <<browsing, records, window, failed, results, filled>>

Line == moveSelection(-1) \/ moveSelection(1)
Page == moveSelection(-listCapacity(window)) \/ moveSelection(listCapacity(window))
Home ==
    /\ browsing = "ready"
    /\ Show(items, 0)
    /\ UNCHANGED <<browsing, records, window, failed, results, filled>>
End ==
    /\ browsing = "ready"
    /\ Show(items, IF items # <<>> THEN Len(items) - 1 ELSE selected)
    /\ UNCHANGED <<browsing, records, window, failed, results, filled>>

(* Mutant: a resize only records the size.                                 *)
ResizeOnly(win) ==
    /\ browsing = "ready"
    /\ window' = win
    /\ UNCHANGED <<browsing, records, items, selected, offset, failed, results, filled>>

Resize(win) ==
    /\ browsing = "ready"
    /\ window' = win
    /\ items' = items
    /\ selected' = IF items = <<>> THEN 0 ELSE selected
    /\ offset' = Ensured(Len(items), selected, win)
    /\ UNCHANGED <<browsing, records, failed, results, filled>>

ExplorerStep ==
    \/ StartExplorer
    \/ ClearQuery \/ SearchFor \/ SearchErrs
    \/ FillFromRecords \/ FillByGet \/ FillFails \/ ShowResults
    \/ Line \/ Page \/ Home \/ End
    \/ \E win \in Windows : Resize(win)

ExplorerNext ==
    \/ ExplorerStep /\ UNCHANGED recs
    \/ OthersWrite /\ UNCHANGED explorerVars

ExplorerSpec == LiveStoreInit /\ ExplorerInit /\ [][ExplorerNext]_<<recs, explorerVars>>

-----------------------------------------------------------------------------
(* The selected item exists and is among the rows drawn, whatever the list *)
(* shrank to and whatever size the terminal reported (detailView indexes   *)
(* items with selected; ensureSelectionVisible, bodyView).                 *)
SelectionVisible ==
    browsing = "ready" /\ items # <<>> =>
        /\ selected < Len(items)
        /\ offset <= selected
        /\ selected < offset + rows(window)

(* No row is left blank while there are items above the first one shown:   *)
(* listCapacity agrees with what bodyView draws, as its comment asks, for  *)
(* every size the terminal can really have.                                *)
PageFull ==
    browsing = "ready" /\ window[1] > 0 /\ window[2] > 0 =>
        offset <= Larger(0, Len(items) - rows(window))
=============================================================================
