------------------------------ MODULE PageShape ------------------------------
(***************************************************************************)
(* The shape every page of the cabinet is built to: a list of documents    *)
(* loaded under a filter, possibly a drawer or a form beside or over it,   *)
(* and buttons that send one request and then refresh what the page shows. *)
(*                                                                         *)
(*   states   the statuses the page's documents can be in                  *)
(*   filters  the filters offered, each the set of statuses it lets        *)
(*            through; "first" is the one selected when the page opens     *)
(*   row      what a click on a row does: "none"; "fetch": read the        *)
(*            document and then show it; "row": show the row itself;       *)
(*            "both": show the row and read the document                   *)
(*   layer    where it is shown: "panel" beside the list, "overlay" over   *)
(*            it, "form" a draft copied from the row                       *)
(*   clears   choosing a filter empties the panel                          *)
(*   keeps    the panel keeps the last document while the next is read     *)
(*   once     rows are disabled while a document is being read             *)
(*   sticky   an open overlay keeps the document it was opened with        *)
(*   solid    the list stays usable while it is being loaded again         *)
(*   blanks   a load that fails empties the list                           *)
(*   guarded  the answer of a load whose filter was left is ignored        *)
(*   refresh  the refresh button: "none", "free", "held" while loading, or *)
(*            "idle": neither loading nor while the page is saved          *)
(*   marks    reading a document marks it viewed                           *)
(*   mount    what follows the first load                                  *)
(*   acts     the buttons                                                  *)
(***************************************************************************)
EXTENDS CabinetHandlers, Sequences

AnyPage ==
    [states |-> {"old"}, filters |-> {{"old"}}, first |-> {"old"}, row |-> "none",
     layer |-> "none", clears |-> FALSE, keeps |-> FALSE, once |-> FALSE, sticky |-> FALSE,
     solid |-> FALSE, blanks |-> FALSE, guarded |-> FALSE, refresh |-> "none", marks |-> FALSE,
     mount |-> << >>, acts |-> {}]

\* A button: the request it sends, the statuses on which it is offered, where
\* it is ("row", "drawer", or "form" for what creates a document), what its
\* busy flag disables ("page": every button of the page that shares the flag,
\* "own": itself, "row": the buttons of the row, "drawer": those of the
\* drawer, "none"), and the steps that follow a good answer.  The steps of one
\* set are taken together; the next set waits for the request among them.
Act(op, on, at, held, then) ==
    [op |-> op, on |-> on, at |-> at, held |-> held, then |-> then]

LoadThenFree == <<{"load"}, {"free"}>>
LoadAndFree == <<{"load", "free"}>>
CloseLoadFree == <<{"close", "load"}, {"free"}>>
RereadLoadFree == <<{"detail"}, {"load"}, {"free"}>>
LoadRereadFree == <<{"load"}, {"detail"}, {"free"}>>
PatchAndFree == <<{"patch", "free"}>>
LoadOnly == <<{"load"}>>
JustFree == <<{"free"}>>

One(S) == {{s} : s \in S}
AllOr(all, S) == {all} \cup One(S)
Content == {"absent", "old", "new", "gone"}
Present == {"old", "new"}

\* A list of documents whose content is edited, shown whole.
ContentPage(acts) ==
    [AnyPage EXCEPT !.states = Content, !.filters = {Present}, !.first = Present,
                    !.solid = TRUE, !.acts = acts]
\* One document, edited and saved in place.
EditorPage(acts) ==
    [AnyPage EXCEPT !.states = Present, !.filters = {Present}, !.first = Present, !.acts = acts]
=============================================================================
