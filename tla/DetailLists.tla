---------------------------- MODULE DetailLists ----------------------------
(***************************************************************************)
(* The detail window: the tree of applications and processes on one tab,   *)
(* the session accounts on the other.  Both keep their items from snapshot *)
(* to snapshot and are brought up to date only while they can be seen; the *)
(* accounts are searched, and exported through a dialog whose event loop   *)
(* lets snapshots through.                                                 *)
(***************************************************************************)
EXTENDS Naturals, FiniteSets, Functions, PythonNone

CONSTANTS Accounts, (* applications                                          *)
          Found     (* the accounts a search text matches                    *)

ASSUME ListsAssumption ==
    /\ Found \subseteq Accounts
    /\ None \notin [rows : UNION {[D -> BOOLEAN] : D \in SUBSET Accounts}, state : BOOLEAN]

VARIABLES latest,     (* _latest_snapshot and _snapshot: what was applied     *)
          dirty,      (* _live_dirty                                         *)
          open,       (* the window is visible                               *)
          tab,        (* tabs.currentWidget()                                *)
          activeOnly, (* _network_activity_only.isChecked()                  *)
          tree,       (* _tree: its top-level items, with what they show     *)
          rendered,   (* _rendered: the rows and the state last brought in   *)
          items,      (* _items: the accounts listed, with their rows        *)
          hidden,     (* the listed accounts that are hidden                 *)
          search,     (* there is a text in search                           *)
          dialog,     (* the rows frozen for the open save dialog            *)
          clicked,    (* ghost: what was listed when export was clicked      *)
          file        (* the exported file                                   *)

live    == <<dirty, activeOnly, tree>>
session == <<rendered, items, hidden, search>>
export  == <<dialog, clicked, file>>
listVars    == <<latest, open, tab, live, session, export>>

(* A snapshot: the applications enumerated, each with its rate, and the     *)
(* accounts that have traffic.  Processes are items below their             *)
(* application, brought up to date by the same steps.                       *)
Snapshots ==
    LET groups(rates) == UNION {[D -> rates] : D \in SUBSET Accounts}
    IN  [available : {TRUE}, groups : groups({0, 1}), charged : SUBSET Accounts]
        \cup [available : {FALSE}, groups : groups({None}), charged : SUBSET Accounts]

-----------------------------------------------------------------------------
(* The groups of a snapshot that the live page lists.                       *)
Listed(snapshot, filtered) ==
    LET groups == snapshot.groups
    IN  IF filtered /\ snapshot.available
        THEN Restrict(groups, {k \in DOMAIN groups : groups[k] = 1})
        ELSE groups

(* _sync_tree and _sync_process_children: unwanted items are taken, missing *)
(* ones added, all of them updated.                                         *)
Sync(old, wanted) ==
    LET kept  == DOMAIN old \cap DOMAIN wanted
        added == DOMAIN wanted \ kept
    IN  [k \in kept \cup added |-> wanted[k]]

(* _refresh_live_page: the live page is rendered if it is on top.           *)
RenderLive ==
    IF tab' = "live" /\ latest' # None
    THEN dirty' = FALSE /\ tree' = Sync(tree, Listed(latest', activeOnly'))
    ELSE dirty' = TRUE /\ tree' = tree

(* session_rows: the accounts with traffic, and what is known of their      *)
(* processes.                                                               *)
SessionRows(snapshot) == [k \in snapshot.charged |-> snapshot.available]

(* Faulty: only the accounts are compared.                                  *)
RowsTokenFaulty(snapshot) == [rows |-> snapshot.charged, state |-> TRUE]

Token(snapshot) == [rows |-> SessionRows(snapshot), state |-> snapshot.available]

(* _filter_rows                                                             *)
Filtered(rows, searching) == IF searching THEN DOMAIN rows \ Found ELSE {}

(* _flush                                                                   *)
Flush(snapshot) ==
    IF snapshot = None \/ rendered = Token(snapshot) THEN UNCHANGED <<rendered, items, hidden>>
    ELSE /\ rendered' = Token(snapshot)
         /\ items' = Sync(items, SessionRows(snapshot))
         /\ hidden' = Filtered(items', search)

Showing(page) == open /\ tab = page

-----------------------------------------------------------------------------
ListsInit ==
    /\ latest = None /\ dirty = FALSE /\ open = FALSE /\ tab = "live" /\ activeOnly = TRUE
    /\ tree = [k \in {} |-> None]
    /\ rendered = None /\ items = [k \in {} |-> None] /\ hidden = {} /\ search = FALSE
    /\ dialog = None /\ clicked = None /\ file = None

(* apply_snapshot: the session page is brought up to date if it is visible. *)
Deliver(snapshot) ==
    /\ open /\ latest' = snapshot
    /\ UNCHANGED <<open, tab, activeOnly, search, export>>
    /\ RenderLive
    /\ IF Showing("session") THEN Flush(snapshot) ELSE UNCHANGED <<rendered, items, hidden>>

Missed(snapshot) == snapshot # latest

(* show_details: a snapshot the window does not hold is applied before it   *)
(* is visible; then the session page flushes if it is on top.               *)
ShowWindow(snapshot) ==
    /\ ~open /\ open' = TRUE
    /\ latest' = IF Missed(snapshot) THEN snapshot ELSE latest
    /\ UNCHANGED <<tab, activeOnly, search, export>>
    /\ IF Missed(snapshot) THEN RenderLive ELSE UNCHANGED <<dirty, tree>>
    /\ IF tab = "session" THEN Flush(latest') ELSE UNCHANGED <<rendered, items, hidden>>

Close ==
    /\ open /\ dialog = None /\ open' = FALSE
    /\ UNCHANGED <<latest, tab, live, session, export>>

(* currentChanged, which renders the live page, or the session page's       *)
(* showEvent, which flushes it.                                             *)
SwitchTab(page) ==
    /\ open /\ dialog = None /\ page # tab /\ tab' = page
    /\ UNCHANGED <<latest, open, activeOnly, search, export>>
    /\ RenderLive
    /\ IF page = "session" THEN Flush(latest) ELSE UNCHANGED <<rendered, items, hidden>>

(* The filter is disabled while the collector is not available.             *)
ToggleFilter ==
    /\ Showing("live") /\ dialog = None /\ (latest # None => latest.available)
    /\ activeOnly' = ~activeOnly
    /\ UNCHANGED <<latest, open, tab, session, export>>
    /\ RenderLive

(* textChanged.                                                             *)
TypeSearch ==
    /\ Showing("session") /\ dialog = None
    /\ search' = ~search /\ hidden' = Filtered(items, search')
    /\ UNCHANGED <<latest, open, tab, live, rendered, items, export>>

(* _export_csv: the visible rows are frozen before the dialog opens.        *)
ExportClicked ==
    LET visible == Restrict(items, DOMAIN items \ hidden)
    IN  /\ Showing("session") /\ dialog = None /\ visible # [k \in {} |-> None]
        /\ dialog' = visible /\ clicked' = visible /\ file' = file
        /\ UNCHANGED <<latest, open, tab, live, session>>

(* Faulty: the rows are read when the dialog returns.                       *)
PayloadLateFaulty == Restrict(items, DOMAIN items \ hidden)

Payload == dialog

(* The dialog is cancelled, or save_csv commits the file or leaves it.      *)
DialogReturns ==
    /\ dialog # None /\ dialog' = None /\ clicked' = None
    /\ file' \in {file, Payload}
    /\ UNCHANGED <<latest, open, tab, live, session>>

ListsNext ==
    \/ \E snapshot \in Snapshots : Deliver(snapshot)
    \/ \E snapshot \in Snapshots \cup {latest} : ShowWindow(snapshot)
    \/ Close
    \/ \E page \in {"live", "session"} : SwitchTab(page)
    \/ ToggleFilter
    \/ TypeSearch
    \/ ExportClicked
    \/ DialogReturns

ListsSpec == ListsInit /\ [][ListsNext]_listVars

-----------------------------------------------------------------------------
ListsTypeOK ==
    /\ latest \in Snapshots \cup {None} /\ tab \in {"live", "session"}
    /\ dirty \in BOOLEAN /\ open \in BOOLEAN /\ activeOnly \in BOOLEAN /\ search \in BOOLEAN
    /\ DOMAIN tree \subseteq Accounts /\ DOMAIN items \subseteq Accounts /\ hidden \subseteq DOMAIN items

(* A page that can be seen shows the latest snapshot the window was given,  *)
(* under the filter or the search in force, whatever arrived while it was   *)
(* behind the other page, the window closed or the dialog open.             *)
ListsShowLatest ==
    latest # None =>
      /\ Showing("live") => tree = Listed(latest, activeOnly)
      /\ Showing("session") => /\ items = SessionRows(latest)
                               /\ hidden = Filtered(items, search)

(* The exported file is what was listed when export was clicked, although   *)
(* the list goes on changing behind the dialog.                             *)
ExportedIsClicked == [][file' # file => file' = clicked]_listVars
-----------------------------------------------------------------------------
(* Why both hold: the tree follows whatever snapshot is applied while its   *)
(* tab is on top, and what is listed on the other tab is always exactly the *)
(* rows last brought in, which are those of the latest snapshot whenever    *)
(* that page can be seen.                                                   *)
TreeInv == tab = "live" /\ latest # None => tree = Listed(latest, activeOnly)

RowsInv ==
    /\ rendered = None => DOMAIN items = {}
    /\ rendered # None => items = rendered.rows
    /\ hidden = Filtered(items, search)
    /\ Showing("session") /\ latest # None => rendered = Token(latest)

ListsInv == ListsTypeOK /\ TreeInv /\ RowsInv /\ dialog = clicked
=============================================================================
